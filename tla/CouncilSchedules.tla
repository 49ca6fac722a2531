--------------------------- MODULE CouncilSchedules ---------------------------
(***************************************************************************)
(* What is left of a printed schedule: from the page of a council, through *)
(* the extraction in adapters/<council>/index.ts and the parser in         *)
(* parser.ts, to the entries and services of a response.  The parsers are  *)
(* copies of one another that have drifted apart, hence a definition each. *)
(*                                                                         *)
(* A page stays up while days pass, and is read on any of them.  A day is  *)
(* a number, so a date of the calendar that does not exist is left out, as *)
(* are years of two digits and the hour in which UTC is a day behind.      *)
(* A label is a sequence of words, and no word holds another.              *)
(***************************************************************************)
EXTENDS Integers, Sequences, FiniteSetsExt

CONSTANTS
  YearLength,  \* days in a year
  PrintedDay,  \* days that pages may print
  LastDay,     \* bound: the clock stops here
  MaxSlots,    \* bound: entries that a page may have room for, a garden field not counted
  NoDay,       \* no date, or none that can be read
  NullDay,     \* null where JSON should have a date
  Epoch        \* the first of January 1970

ASSUME ScheduleAssumption ==
  /\ YearLength \in Nat \ {0}
  /\ PrintedDay \subseteq Int
  /\ LastDay \in Int
  /\ MaxSlots \in Nat \ {0}
  /\ Epoch \in Int
  /\ {NoDay, NullDay} \cap Int = {}
  /\ NoDay # NullDay

Portals == {"havant", "portsmouth", "winchester", "test-valley"}
Numbered == Portals \cup {"eastleigh"}
Council == Numbered \cup {"hart", "basingstoke-deane", "fareham", "gosport", "rushmoor",
                          "southampton", "east-hampshire"}

(* Labels of councils, and the material a resident takes them for. *)
Label ==
  {<<"refuse">>, <<"domestic">>, <<"general", "waste">>, <<"black", "bin">>, <<"recycling">>,
   <<"mixed", "recycling">>, <<"garden">>, <<"garden", "waste">>, <<"brown", "bin">>,
   <<"food", "waste">>, <<"glass">>}

Meant ==
  [l \in Label |->
     CASE l \in {<<"refuse">>, <<"domestic">>, <<"general", "waste">>, <<"black", "bin">>} ->
            "GENERAL_WASTE"
       [] l \in {<<"recycling">>, <<"mixed", "recycling">>} -> "RECYCLING"
       [] l \in {<<"garden">>, <<"garden", "waste">>, <<"brown", "bin">>} -> "GARDEN_WASTE"
       [] l = <<"food", "waste">> -> "FOOD_WASTE"
       [] l = <<"glass">> -> "GLASS"]

(* How a page writes its dates: 2026-04-02; 02/04/2026 or 02-04-2026 (by   *)
(* Southampton with the month first); Thursday 2nd April 2026 (at Eastleigh*)
(* Thu, 2 Apr 2026); 2 April; a text without a zone that only Date.parse   *)
(* reads, such as 2026-04-02T00:00:00.                                     *)
Form == {"iso", "numbers", "named", "yearless", "text"}

(* The forms that reach a parser.  Basingstoke's pattern wants a year, and *)
(* Fareham's fields, the PDFs and the services have a form of their own.   *)
FormsOf(c) ==
  CASE c \in Portals -> {"numbers", "named", "yearless"}
    [] c \in {"hart", "eastleigh"} -> {"iso", "numbers", "named", "yearless", "text"}
    [] c = "basingstoke-deane" -> {"named"}
    [] c = "fareham" -> {"numbers"}
    [] c = "gosport" -> {"iso", "text"}
    [] c = "rushmoor" -> {"text"}
    [] c = "southampton" -> {"numbers"}
    [] c = "east-hampshire" -> {"numbers", "named"}

VARIABLES
  council,  \* whose page it is
  zone,     \* the clock of the server: "utc", or "ahead" of it, as in a British summer
  form,     \* how the page writes dates
  rows,     \* the page: rows of labels and days
  garden,   \* Fareham's field for garden waste: <<>> when there is none
  today,
  events,   \* the last getCollectionEvents: when it was read, and its entries
  services  \* the last getCollectionServices: the materials

page == <<council, zone, form, rows, garden>>
vars == <<page, today, events, services>>

Unread == [read |-> FALSE, ok |-> FALSE, on |-> 0, entries |-> <<>>]
Unlisted == [read |-> FALSE, ok |-> FALSE, types |-> {}]

(* Basingstoke has five panels, Rushmoor four fields, and Southampton's    *)
(* pattern knows four labels.                                              *)
LabelsOf(c) ==
  CASE c = "basingstoke-deane" ->
         {<<"refuse">>, <<"recycling">>, <<"glass">>, <<"garden", "waste">>, <<"food", "waste">>}
    [] c = "rushmoor" -> {<<"refuse">>, <<"recycling">>, <<"garden", "waste">>, <<"food", "waste">>}
    [] c = "southampton" ->
         {<<"glass">>, <<"recycling">>, <<"general", "waste">>, <<"garden", "waste">>}
    [] c \in Council \ {"basingstoke-deane", "rushmoor", "southampton"} -> Label

(* A panel, and a match of Southampton's pattern, has a date; an item of   *)
(* Gosport's may have null for one.                                        *)
DaysOf(c) ==
  CASE c \in {"basingstoke-deane", "southampton"} -> PrintedDay
    [] c = "gosport" -> PrintedDay \cup {NoDay, NullDay}
    [] c \in Council \ {"basingstoke-deane", "southampton", "gosport"} -> PrintedDay \cup {NoDay}

UpTo(n, S) == UNION {[1..m -> S] : m \in 1..n}

(* Hart may put several services on a line, Basingstoke several dates in a *)
(* panel.                                                                  *)
LinesOf(c) ==
  [labels : UpTo(IF c = "hart" THEN MaxSlots ELSE 1, LabelsOf(c)),
   days : UpTo(IF c = "basingstoke-deane" THEN MaxSlots ELSE 1, DaysOf(c))]

(* A slot is a place on the page that may become an entry: line, label and *)
(* date.                                                                   *)
SlotsOf(lines) ==
  UNION {{<<r, l, d>> : l \in DOMAIN lines[r].labels, d \in DOMAIN lines[r].days} :
           r \in DOMAIN lines}

(* No two panels, and no two fields, are alike. *)
Pages(c) ==
  {lines \in UpTo(MaxSlots, LinesOf(c)) :
     /\ Cardinality(SlotsOf(lines)) <= MaxSlots
     /\ c \in {"basingstoke-deane", "rushmoor"} =>
          \A q, r \in DOMAIN lines : lines[q].labels = lines[r].labels => q = r}

Init ==
  /\ council \in Council
  /\ zone \in {"utc", "ahead"}
  /\ form \in FormsOf(council)
  /\ rows \in Pages(council)
  /\ garden \in {<<>>} \cup
       {<<d>> : d \in IF council = "fareham" THEN PrintedDay \cup {NoDay} ELSE {}}
  /\ today \in PrintedDay
  /\ events = Unread
  /\ services = Unlisted

-----------------------------------------------------------------------------
(* Materials: the patterns of mapServiceType, the first that occurs in the *)
(* label decides.                                                          *)
Pattern(type, texts) == [type |-> type, texts |-> texts]

Contains(label, text) ==
  \E k \in 0..(Len(label) - Len(text)) : \A j \in DOMAIN text : label[k + j] = text[j]

MapServiceType(patterns, label) ==
  LET hits == {i \in DOMAIN patterns : \E text \in patterns[i].texts : Contains(label, text)}
  IN  IF hits = {} THEN "OTHER" ELSE patterns[Min(hits)].type

Recycling == Pattern("RECYCLING", {<<"recycling">>, <<"blue", "bin">>})
Food == Pattern("FOOD_WASTE", {<<"food">>})
Glass == Pattern("GLASS", {<<"glass">>})
General == {<<"refuse">>, <<"rubbish">>, <<"general", "waste">>, <<"black", "bin">>}

HartPatterns ==
  <<Pattern("GENERAL_WASTE", General), Recycling, Food, Pattern("GARDEN_WASTE", {<<"garden">>}),
        Glass>>

BasingstokePatterns ==
  <<Pattern("GENERAL_WASTE", General), Recycling, Food, Pattern("GARDEN_WASTE", {<<"garden">>}),
        Glass>>

HavantPatterns ==
  <<Pattern("GENERAL_WASTE", General), Recycling, Food, Pattern("GARDEN_WASTE", {<<"garden">>}),
        Glass>>

EastleighPatterns ==
  <<Pattern("GENERAL_WASTE", General), Recycling,
    Pattern("GARDEN_WASTE", {<<"garden">>, <<"green", "waste">>, <<"brown", "bin">>}),
    Pattern("FOOD_WASTE", {<<"food">>, <<"caddy">>}), Glass>>

(* Every label with the word waste is general waste here. *)
PortsmouthPatterns ==
  <<Pattern("GENERAL_WASTE",
            {<<"refuse">>, <<"rubbish">>, <<"general">>, <<"grey", "bin">>, <<"household">>,
             <<"waste">>, <<"residual">>}),
    Pattern("RECYCLING", Recycling.texts \cup {<<"commingled">>}),
    Pattern("GARDEN_WASTE", {<<"garden">>, <<"brown", "bin">>, <<"green", "bin">>}),
    Pattern("FOOD_WASTE", {<<"food">>, <<"caddy">>}), Glass>>

WinchesterPatterns ==
  <<Pattern("GENERAL_WASTE", General \cup {<<"general">>, <<"waste">>}),
    Recycling, Glass, Food, Pattern("GARDEN_WASTE", {<<"garden">>})>>

TestValleyPatterns ==
  <<Pattern("GENERAL_WASTE", General \cup {<<"general">>, <<"waste">>, <<"household">>}), Recycling,
    Pattern("GARDEN_WASTE", {<<"garden">>, <<"brown", "bin">>, <<"green", "bin">>}), Food>>

FarehamPatterns ==
  <<Pattern("GENERAL_WASTE", {<<"refuse">>, <<"general">>, <<"rubbish">>, <<"waste">>}),
    Pattern("RECYCLING", {<<"recycling">>}), Pattern("GARDEN_WASTE", {<<"garden">>}),
    Pattern("FOOD_WASTE", {<<"food">>, <<"organic">>}), Glass>>

GosportPatterns ==
  <<Pattern("GENERAL_WASTE",
            {<<"refuse">>, <<"general">>, <<"rubbish">>, <<"residual">>, <<"domestic">>}),
    Pattern("RECYCLING", {<<"recycling">>}),
    Pattern("FOOD_WASTE", {<<"food">>, <<"organic">>, <<"caddy">>}),
    Pattern("GARDEN_WASTE", {<<"garden">>, <<"green">>}), Glass>>

SouthamptonPatterns ==
  <<Glass, Pattern("RECYCLING", {<<"recycling">>}), Pattern("GARDEN_WASTE", {<<"garden">>}),
    Pattern("GENERAL_WASTE", {<<"general">>, <<"waste">>})>>

-----------------------------------------------------------------------------
(* Extraction: the portals search the text of a line for the first of some *)
(* words and take it, with the word after it if that is one of a few.      *)
Cut(label, words, after) ==
  LET found == {i \in DOMAIN label : label[i] \in words}
  IN  IF found = {} THEN <<>>
      ELSE LET i == Min(found)
           IN  IF i < Len(label) /\ label[i + 1] \in after
               THEN <<label[i], label[i + 1]>> ELSE <<label[i]>>

HavantLabel(label) == Cut(label, {"rubbish", "recycling", "food", "garden", "waste", "bin"}, {})

PortsmouthLabel(label) ==
  Cut(label, {"refuse", "recycling", "food", "garden", "glass", "waste", "grey", "blue", "brown",
              "green", "general", "mixed"}, {"bin", "waste"})

WinchesterLabel(label) ==
  Cut(label, {"refuse", "recycling", "food", "garden", "glass", "waste"}, {"bin"})

TestValleyLabel(label) ==
  Cut(label, {"refuse", "recycling", "food", "garden", "glass", "waste", "black", "blue", "brown",
              "green"}, {"bin"})

(* A single word in brackets. *)
FarehamLabel(label) == IF Len(label) = 1 THEN label ELSE <<>>

(* What the parser is given; <<>> when the line is passed over. *)
Extracted(label) ==
  CASE council = "havant" -> HavantLabel(label)
    [] council = "portsmouth" -> PortsmouthLabel(label)
    [] council = "winchester" -> WinchesterLabel(label)
    [] council = "test-valley" -> TestValleyLabel(label)
    [] council = "fareham" -> FarehamLabel(label)
    [] council \notin Portals \cup {"fareham"} -> label

-----------------------------------------------------------------------------
(* Dates. *)
Year(day) == day \div YearLength

(* Read as midnight by the server's clock and written down as UTC.         *)
LocalMidnight(day) == IF zone = "ahead" THEN day - 1 ELSE day

(* The date is taken over as it is printed; without a year it is given the *)
(* year of the day it is read on; a text is left to Date.parse.            *)
Plainly(written, day) ==
  CASE written = "yearless" -> day + YearLength * (Year(today) - Year(day))
    [] written = "text" -> LocalMidnight(day)
    [] written \in {"iso", "numbers", "named"} -> day

(* Fault: a date of this very day is taken for next year's. *)
HartDateComing(day) ==
  IF form = "yearless" /\ Plainly(form, day) <= today
  THEN Plainly(form, day) + YearLength ELSE Plainly(form, day)

HartDate(day) == Plainly(form, day)
BasingstokeDate(day) == Plainly(form, day)
PortsmouthDate(day) == Plainly(form, day)
WinchesterDate(day) == Plainly(form, day)
TestValleyDate(day) == Plainly(form, day)

(* Havant's adapter takes no year from the page. *)
HavantDate(day) == Plainly(IF form = "named" THEN "yearless" ELSE form, day)

(* Date.parse puts a date without a year into 2001. *)
EastleighDate(day) ==
  IF form = "yearless" THEN LocalMidnight((day % YearLength) - YearLength) ELSE Plainly(form, day)

(* null is read as the moment zero. *)
GosportDate(day) ==
  CASE day = NullDay -> Epoch
    [] day # NullDay -> IF form = "text" THEN LocalMidnight(day) ELSE day

-----------------------------------------------------------------------------
(* Entries.  Line 0 is Fareham's garden field. *)
Slot == SlotsOf(rows) \cup {<<0, 1, 1>> : g \in DOMAIN garden}

LabelAt(s) == Extracted(rows[s[1]].labels[s[2]])
DayAt(s) == IF s[1] = 0 THEN garden[1] ELSE rows[s[1]].days[s[3]]

(* A line whose date cannot be read is passed over. *)
Readable == {s \in Slot : DayAt(s) # NoDay /\ (s[1] # 0 => LabelAt(s) # <<>>)}

(* An id is made of the date, the material and a number. *)
Event(type, day, number) ==
  [type |-> type, day |-> day, past |-> day < today, id |-> <<day, type, number>>]

TypesOf(entries) == {entries[s].type : s \in DOMAIN entries}

(* Fault: the lines are numbered, but not the services on a line. *)
HartEventsByLine ==
  [s \in Readable |-> Event(MapServiceType(HartPatterns, LabelAt(s)), HartDate(DayAt(s)), s[1])]

HartEvents ==
  [s \in Readable |->
     Event(MapServiceType(HartPatterns, LabelAt(s)), HartDate(DayAt(s)), <<s[1], s[2]>>)]

(* The dates of a panel are numbered, the panels are not. *)
BasingstokeEvents ==
  [s \in Readable |->
     Event(MapServiceType(BasingstokePatterns, LabelAt(s)), BasingstokeDate(DayAt(s)), s[3])]

EastleighEvents ==
  [s \in Readable |->
     Event(MapServiceType(EastleighPatterns, LabelAt(s)), EastleighDate(DayAt(s)), s[1])]

HavantEvents ==
  [s \in Readable |-> Event(MapServiceType(HavantPatterns, LabelAt(s)), HavantDate(DayAt(s)), s[1])]

PortsmouthEvents ==
  [s \in Readable |->
     Event(MapServiceType(PortsmouthPatterns, LabelAt(s)), PortsmouthDate(DayAt(s)), s[1])]

WinchesterEvents ==
  [s \in Readable |->
     Event(MapServiceType(WinchesterPatterns, LabelAt(s)), WinchesterDate(DayAt(s)), s[1])]

TestValleyEvents ==
  [s \in Readable |->
     Event(MapServiceType(TestValleyPatterns, LabelAt(s)), TestValleyDate(DayAt(s)), s[1])]

(* The id of the garden field is made with a name of its own. *)
FarehamEvents ==
  [s \in Readable |->
     IF s[1] = 0
     THEN [Event("GARDEN_WASTE", DayAt(s), 0) EXCEPT !.id = <<DayAt(s), "garden-waste", 0>>]
     ELSE Event(MapServiceType(FarehamPatterns, LabelAt(s)), DayAt(s), 0)]

(* These compare the midnight a day begins with, not the day, with now.    *)
Begun(event, day) == [event EXCEPT !.past = day <= today]

GosportEvents ==
  [s \in Readable |->
     Begun(Event(MapServiceType(GosportPatterns, LabelAt(s)), GosportDate(DayAt(s)), 0),
           IF DayAt(s) = NullDay THEN Epoch ELSE DayAt(s))]

SouthamptonEvents ==
  [s \in Readable |->
     Begun(Event(MapServiceType(SouthamptonPatterns, LabelAt(s)), LocalMidnight(DayAt(s)), 0),
           DayAt(s))]

(* A field for each material. *)
RushmoorDate(day) == IF form = "text" THEN LocalMidnight(day) ELSE day

RushmoorEvents ==
  [s \in Readable |-> Begun(Event(Meant[LabelAt(s)], RushmoorDate(DayAt(s)), 0), DayAt(s))]

(* A date in figures or with the name of its month is found in the PDF,    *)
(* and then its ISO form is looked for in the same text.                   *)
EastHampshireDates == IF form \in {"numbers", "named"} THEN Readable ELSE {}
EastHampshireCollections == {s \in EastHampshireDates : form = "iso"}

EastHampshireEvents ==
  [s \in EastHampshireCollections |-> Event("OTHER", DayAt(s), 0)]

EventsOf(c) ==
  CASE c = "hart" -> HartEvents
    [] c = "basingstoke-deane" -> BasingstokeEvents
    [] c = "eastleigh" -> EastleighEvents
    [] c = "havant" -> HavantEvents
    [] c = "portsmouth" -> PortsmouthEvents
    [] c = "winchester" -> WinchesterEvents
    [] c = "test-valley" -> TestValleyEvents
    [] c = "fareham" -> FarehamEvents
    [] c = "gosport" -> GosportEvents
    [] c = "southampton" -> SouthamptonEvents
    [] c = "rushmoor" -> RushmoorEvents
    [] c = "east-hampshire" -> EastHampshireEvents

-----------------------------------------------------------------------------
(* Services: what kinds the entries are of, listed once each. *)

(* Fault: the services of all lines, dated or not. *)
HartServicesOfAllLines == {MapServiceType(HartPatterns, LabelAt(s)) : s \in Slot}

HartServices == TypesOf(HartEvents)
BasingstokeServices == TypesOf(BasingstokeEvents)
EastleighServices == TypesOf(EastleighEvents)
HavantServices == TypesOf(HavantEvents)
PortsmouthServices == TypesOf(PortsmouthEvents)
WinchesterServices == TypesOf(WinchesterEvents)
TestValleyServices == TypesOf(TestValleyEvents)
EastHampshireServices == TypesOf(EastHampshireEvents)

(* Fareham looks for two words in all of its field, and lists garden waste *)
(* when that has a field.  Gosport lists an item whatever its date, and so *)
(* does Rushmoor.                                                          *)
Speaking(word) == {s \in SlotsOf(rows) : Contains(rows[s[1]].labels[s[2]], <<word>>)}

FarehamServices ==
  {"GENERAL_WASTE" : s \in Speaking("refuse")} \cup {"RECYCLING" : s \in Speaking("recycling")}
    \cup {"GARDEN_WASTE" : g \in DOMAIN garden}

GosportServices == {MapServiceType(GosportPatterns, LabelAt(s)) : s \in Slot}
RushmoorServices == {Meant[LabelAt(s)] : s \in Slot}

ServicesOf(c) ==
  CASE c = "hart" -> HartServices
    [] c = "basingstoke-deane" -> BasingstokeServices
    [] c = "eastleigh" -> EastleighServices
    [] c = "havant" -> HavantServices
    [] c = "portsmouth" -> PortsmouthServices
    [] c = "winchester" -> WinchesterServices
    [] c = "test-valley" -> TestValleyServices
    [] c = "fareham" -> FarehamServices
    [] c = "gosport" -> GosportServices
    [] c = "rushmoor" -> RushmoorServices
    [] c = "east-hampshire" -> EastHampshireServices

-----------------------------------------------------------------------------
(* A date that is none throws in Rushmoor's adapter and fails the call.    *)
GetCollectionEvents ==
  /\ events' = IF council = "rushmoor" /\ Readable # Slot
               THEN [Unread EXCEPT !.read = TRUE, !.on = today]
               ELSE [read |-> TRUE, ok |-> TRUE, on |-> today, entries |-> EventsOf(council)]
  /\ UNCHANGED <<page, today, services>>

(* Southampton's adapter has no services. *)
GetCollectionServices ==
  /\ services' = IF council = "southampton" THEN [Unlisted EXCEPT !.read = TRUE]
                 ELSE [read |-> TRUE, ok |-> TRUE, types |-> ServicesOf(council)]
  /\ UNCHANGED <<page, today, events>>

NextDay ==
  /\ today < LastDay
  /\ today' = today + 1
  /\ UNCHANGED <<page, events, services>>

Next == GetCollectionEvents \/ GetCollectionServices \/ NextDay

Spec == Init /\ [][Next]_vars

-----------------------------------------------------------------------------
(* A shown entry tells the day that the council printed, whenever it is    *)
(* read, and has passed if that day has (three adapters say so on the day  *)
(* itself).  The exceptions: a date without a year, or whose year Havant's *)
(* adapter has cut off, read in another year; such a date at Eastleigh;    *)
(* dates read as local midnights by a server that is ahead of UTC; and     *)
(* null, which Gosport's adapter tells as the first day of 1970.           *)
YearLost == form = "yearless" \/ (council = "havant" /\ form = "named")

DayIsSure(s, on) ==
  /\ YearLost => council # "eastleigh" /\ Year(DayAt(s)) = Year(on)
  /\ zone = "ahead" => form # "text" /\ council # "southampton"

Timed == {"rushmoor", "gosport", "southampton"}

Dated(s) == IF DayAt(s) = NullDay THEN Epoch ELSE DayAt(s)

DayIsTold(s, e, on) ==
  DayIsSure(s, on) =>
    /\ e.day = Dated(s)
    /\ e.past <=> (e.day < on \/ (council \in Timed /\ e.day = on))

DaysAreTold ==
  \A s \in DOMAIN events.entries : DayIsTold(s, events.entries[s], events.on)

(* A label never becomes another material than the one it names: at worst  *)
(* it is OTHER.  At Portsmouth any waste is general waste.                 *)
MaterialIsTold(s, type) ==
  LET label == rows[s[1]].labels[s[2]]
  IN  \/ type \in {Meant[label], "OTHER"}
      \/ council = "portsmouth" /\ Contains(label, <<"waste">>) /\ type = "GENERAL_WASTE"

(* What a page speaks of, with a date or without. *)
Named ==
  {Meant[rows[s[1]].labels[s[2]]] : s \in SlotsOf(rows)} \cup {"GARDEN_WASTE" : g \in DOMAIN garden}

(* The entries that Fareham's adapter has a service for: glass, say, has   *)
(* none.                                                                   *)
Listed(s) ==
  council = "fareham" =>
    s[1] = 0 \/ rows[s[1]].labels[s[2]] \in {<<"refuse">>, <<"recycling">>}

(* The services of a page are those of its entries, each of a material the *)
(* page names.  Two adapters may add one the page names without a date, and*)
(* Fareham's lacks those of entries that are not refuse, recycling or the  *)
(* garden field.                                                           *)
ServicesMatchEntries ==
  /\ services.ok /\ events.ok =>
       /\ \A s \in DOMAIN events.entries : Listed(s) => events.entries[s].type \in services.types
       /\ services.types \subseteq
            IF council \in {"fareham", "gosport"} THEN Named \cup {"OTHER"}
            ELSE TypesOf(events.entries)
  /\ \A s \in DOMAIN events.entries : s[1] # 0 => MaterialIsTold(s, events.entries[s].type)

(* An id names one entry of a response.  At the councils that number       *)
(* nothing, two collections of one material on one day share theirs (at    *)
(* Fareham, but for the garden field).                                     *)
IdsTellEntriesApart ==
  \A s, t \in DOMAIN events.entries :
    events.entries[s].id = events.entries[t].id =>
      \/ s = t
      \/ council \in {"gosport", "southampton"}
      \/ council = "fareham" /\ 0 \notin {s[1], t[1]}
=============================================================================
