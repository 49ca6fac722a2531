SPECIFICATION Spec
CONSTANTS
  YearLength = 10
  PrintedDay = {9, 10}
  LastDay = 11
  MaxSlots = 2
  NoDay = NoDay
  NullDay = NullDay
  Epoch = 0
INVARIANTS DaysAreTold ServicesMatchEntries IdsTellEntriesApart
