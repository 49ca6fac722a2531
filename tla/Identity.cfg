SPECIFICATION Spec
CONSTANTS
  Address = {a1, a2}
  Listings <- MCListings
  Homes <- Council
  None = None
INVARIANTS IdentityTypeOK OwnSchedule MadeUpIdsShowNothing IdsAreHonoured
