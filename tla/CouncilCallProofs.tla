-------------------------- MODULE CouncilCallProofs ---------------------------
(***************************************************************************)
(* One call on any council adapter: its answer is well formed, a category  *)
(* that blames the council rests on what the council did, and a success    *)
(* rests on a page that arrived whole and was stored.  The tables of the   *)
(* adapters are read once, in the lemmas of the first part; the steps of a *)
(* call then use no more than these lemmas say.                            *)
(***************************************************************************)
EXTENDS CouncilCall, TLAPS

Errors == {"refused", "silent", "cut", "unstored"}

(* The stages after which the result is there. *)
Decided == {"cleaning", "cleaningAgain", "done"}

(* What may be in the table of an adapter that fetches. *)
SoundFetch(c, f) ==
  /\ f.stores \in {"before", "after", "never"}
  /\ f.stores = "never" => c = "east-hampshire"
  /\ f.lists \in 1..2
  /\ \A s \in Status \ {"ok"} :
       f.status[s] \in Category \cup {"next"} /\ Warranted(c, f.status[s], {s})
  /\ \A p \in Page \ {"away"} :
       /\ f.reads[p] \subseteq Category \cup {"keep", "next"}
       /\ \A v \in f.reads[p] : Warranted(c, v, {p})
       /\ "keep" \in f.reads[p] /\ p \in {"block", "garbled"} => c = "basingstoke-deane"
  /\ \A e \in Errors : f.errors[e] \in Category /\ Warranted(c, f.errors[e], {e})

(* The councils an operation asks at all. *)
Asks(c, op) ==
  \/ op \in {"services", "events"} /\ c # "new-forest"
  \/ op = "resolve" /\ c \in Portals \cup {"fareham"}

(* What may be in the table of an operation. *)
SoundShows(c, shows) ==
  \A p \in Page :
    /\ shows[p] \subseteq Outcome \cup (IF c \in Portals THEN {"failed"} ELSE {})
    /\ \A v \in shows[p] : Warranted(c, v, {p})
    /\ c \in KeepsEvidence => "some" \notin shows["empty"]

SoundOperation(c, o) == SoundShows(c, o.shows)

SoundTakes(o) ==
  \A i \in Input :
    o.takes[i] \in {"ask", "some", "NOT_FOUND", "VALIDATION_ERROR", "ADAPTER_ERROR"}

-----------------------------------------------------------------------------
(* Tables. *)

LEMMA Warrants ==
  ASSUME NEW c, NEW outcome, NEW seen, NEW more, seen \subseteq more, Warranted(c, outcome, seen)
  PROVE  Warranted(c, outcome, more)
BY DEF Warranted

LEMMA WarrantsOne ==
  ASSUME NEW c, NEW outcome, NEW fact, NEW more, fact \in more, Warranted(c, outcome, {fact})
  PROVE  Warranted(c, outcome, more)
BY Warrants

LEMMA DeservedFacts ==
  ASSUME NEW c
  PROVE  /\ DOMAIN Deserved(c) = {"TIMEOUT", "SERVER_ERROR", "CLIENT_ERROR", "BOT_DETECTION",
                                  "AUTH_REQUIRED", "SCHEMA_DRIFT", "PARSE_ERROR"}
         /\ {"silent", "browser"} \subseteq Deserved(c)["TIMEOUT"]
         /\ c \in Portals => {"odd", "garbled", "block", "away"} \subseteq Deserved(c)["TIMEOUT"]
         /\ Deserved(c)["SERVER_ERROR"] = {"serverError"}
         /\ Deserved(c)["CLIENT_ERROR"] = {"badRequest", "unauthorised", "forbidden", "notFound"}
         /\ {"forbidden", "block"} \subseteq Deserved(c)["BOT_DETECTION"]
         /\ c # "southampton" => Deserved(c)["BOT_DETECTION"] = {"forbidden", "block"}
         /\ c = "southampton" =>
              Deserved(c)["BOT_DETECTION"] = {"forbidden"} \cup (Page \ {"away"})
         /\ Deserved(c)["AUTH_REQUIRED"] = {"unauthorised", "forbidden"}
         /\ Deserved(c)["SCHEMA_DRIFT"] = {"odd", "garbled", "block"}
         /\ Deserved(c)["PARSE_ERROR"] = {"garbled", "block"}
BY DEF Deserved, Page

LEMMA WarrantFacts ==
  ASSUME NEW c, NEW seen
  PROVE  /\ \A o \in {"some", "nothing", "none", "rejected", "ask", "keep", "next", "NOT_FOUND",
                      "NETWORK_ERROR", "VALIDATION_ERROR", "ADAPTER_ERROR"} : Warranted(c, o, seen)
         /\ "silent" \in seen \/ "browser" \in seen => Warranted(c, "TIMEOUT", seen)
         /\ c \in Portals /\ {"odd", "garbled", "block", "away"} \cap seen # {}
              => Warranted(c, "TIMEOUT", seen)
         /\ "serverError" \in seen => Warranted(c, "SERVER_ERROR", seen)
         /\ {"badRequest", "unauthorised", "forbidden", "notFound"} \cap seen # {}
              => Warranted(c, "CLIENT_ERROR", seen)
         /\ {"forbidden", "block"} \cap seen # {} => Warranted(c, "BOT_DETECTION", seen)
         /\ {"unauthorised", "forbidden"} \cap seen # {} => Warranted(c, "AUTH_REQUIRED", seen)
         /\ {"odd", "garbled", "block"} \cap seen # {} => Warranted(c, "SCHEMA_DRIFT", seen)
         /\ {"garbled", "block"} \cap seen # {} => Warranted(c, "PARSE_ERROR", seen)
BY DeservedFacts DEF Warranted

LEMMA RushmoorTable == SoundFetch("rushmoor", RushmoorFetch)
BY WarrantFacts DEF SoundFetch, RushmoorFetch, Status, Page, Category, Kept, Errors

LEMMA SouthamptonTable == SoundFetch("southampton", SouthamptonFetch)
<1> DEFINE f == SouthamptonFetch
<1>1. /\ f.stores = "after" /\ f.lists = 1
      /\ f.errors = RushmoorFetch.errors
      /\ f.status = [RushmoorFetch.status EXCEPT !["forbidden"] = "BOT_DETECTION"]
  BY DEF SouthamptonFetch, RushmoorFetch
<1>2. /\ \A p \in {"full", "empty", "badDate"} : f.reads[p] = {"BOT_DETECTION", "keep"}
      /\ \A p \in {"odd", "garbled", "block"} : f.reads[p] = {"BOT_DETECTION", "SCHEMA_DRIFT"}
  BY DEF SouthamptonFetch, RushmoorFetch, Kept
<1> HIDE DEF f
<1>3. \A p \in Page \ {"away"} : Warranted("southampton", "BOT_DETECTION", {p})
  BY DeservedFacts DEF Warranted, Page
<1>4. \A p \in Page \ {"away"} :
        /\ f.reads[p] \subseteq Category \cup {"keep", "next"}
        /\ \A v \in f.reads[p] : Warranted("southampton", v, {p})
        /\ "keep" \in f.reads[p] /\ p \in {"block",
            "garbled"} => "southampton" = "basingstoke-deane"
  BY <1>2, <1>3, WarrantFacts DEF Page, Category
<1>5. \A s \in Status \ {"ok"} :
        f.status[s] \in Category \cup {"next"} /\ Warranted("southampton", f.status[s], {s})
  BY <1>1, WarrantFacts DEF RushmoorFetch, Status, Category
<1>6. \A e \in Errors : f.errors[e] \in Category /\ Warranted("southampton", f.errors[e], {e})
  BY <1>1, WarrantFacts DEF RushmoorFetch, Errors, Category
<1>7. /\ f.stores \in {"before", "after", "never"}
      /\ f.stores = "never" => "southampton" = "east-hampshire"
      /\ f.lists \in 1..2
  BY <1>1
<1>8. SoundFetch("southampton", f)
  BY <1>4, <1>5, <1>6, <1>7, Zenon DEF SoundFetch
<1> QED
  BY <1>8 DEF f

LEMMA HartTable == SoundFetch("hart", HartFetch)
BY WarrantFacts DEF SoundFetch, HartFetch, Status, Page, Category, Kept, Errors

LEMMA BasingstokeTable == SoundFetch("basingstoke-deane", BasingstokeFetch)
BY WarrantFacts DEF SoundFetch, BasingstokeFetch, HartFetch, Status, Page, Category, Kept, Errors

LEMMA GosportTable == SoundFetch("gosport", GosportFetch)
BY WarrantFacts DEF SoundFetch, GosportFetch, RushmoorFetch, Status, Page, Category, Kept, Errors

LEMMA FarehamTable == SoundFetch("fareham", FarehamFetch)
BY WarrantFacts DEF SoundFetch, FarehamFetch, Status, Page, Category, Kept, Errors

LEMMA EastHampshireTable == SoundFetch("east-hampshire", EastHampshireFetch)
BY WarrantFacts DEF SoundFetch, EastHampshireFetch, Status, Page, Category, Kept, Errors

LEMMA FetchTables == \A c \in Fetchers : SoundFetch(c, Fetch(c))
BY RushmoorTable, SouthamptonTable, HartTable, BasingstokeTable, GosportTable, FarehamTable,
   EastHampshireTable DEF Fetchers, Fetch

LEMMA OperationFacts ==
  ASSUME NEW c, NEW takes, NEW kill, NEW shows, SoundShows(c, shows)
  PROVE  SoundOperation(c, Operation(takes, kill, shows))
<1>1. Operation(takes, kill, shows).shows = shows
  BY DEF Operation
<1> QED
  BY <1>1 DEF SoundOperation

(* A page that blames nobody. *)
LEMMA BlamelessShows ==
  ASSUME NEW c, NEW shows,
         \A p \in Page : shows[p] \subseteq {"some", "nothing", "ADAPTER_ERROR", "NOT_FOUND"},
         c \in KeepsEvidence => "some" \notin shows["empty"]
  PROVE  SoundShows(c, shows)
<1>1. ASSUME NEW p \in Page, NEW v \in shows[p]
      PROVE  Warranted(c, v, {p})
  BY <1>1, WarrantFacts
<1>2. {"some", "nothing", "ADAPTER_ERROR", "NOT_FOUND"} \subseteq Outcome
  BY DEF Outcome, Category, Success
<1> QED
  BY <1>1, <1>2 DEF SoundShows

LEMMA ShowsValues ==
  ASSUME NEW badDate, NEW odd, NEW p \in Page
  PROVE  Shows(badDate, odd)[p] \in {{"some"}, {"nothing"}, badDate, odd}
BY DEF Shows, Page

LEMMA ShowsFacts ==
  ASSUME NEW c, NEW takes, NEW kill,
         NEW badDate \in SUBSET {"some", "nothing", "ADAPTER_ERROR"},
         NEW odd \in SUBSET {"some", "nothing", "ADAPTER_ERROR"}
  PROVE  SoundOperation(c, Operation(takes, kill, Shows(badDate, odd)))
<1> DEFINE shows == Shows(badDate, odd)
<1>1. ASSUME NEW p \in Page
      PROVE  shows[p] \subseteq {"some", "nothing", "ADAPTER_ERROR", "NOT_FOUND"}
  <2>1. shows[p] \in {{"some"}, {"nothing"}, badDate, odd}
    BY ShowsValues
  <2> QED
    BY <2>1
<1>2. "some" \notin shows["empty"]
  BY DEF Shows
<1> HIDE DEF shows
<1>3. SoundShows(c, shows)
  BY <1>1, <1>2, BlamelessShows
<1>4. SoundOperation(c, Operation(takes, kill, shows))
  BY <1>3, OperationFacts
<1> QED
  BY <1>4 DEF shows

LEMMA FarehamRowFacts ==
  ASSUME NEW takes, NEW kill
  PROVE  SoundOperation("fareham", Operation(takes, kill, FarehamRow(FarehamEventList)))
<1> DEFINE shows == FarehamRow(FarehamEventList)
<1>1. \A p \in Page : shows[p] = FarehamEventList[p] \cup {"NOT_FOUND"}
  BY DEF FarehamRow, FarehamEventList
<1>2. /\ \A p \in Page : FarehamEventList[p] \subseteq {"some", "nothing"}
      /\ FarehamEventList["empty"] = {"nothing"} /\ "empty" \in Page
  BY DEF FarehamEventList, Page
<1>3. /\ \A p \in Page : shows[p] \subseteq {"some", "nothing", "ADAPTER_ERROR", "NOT_FOUND"}
      /\ "some" \notin shows["empty"]
  BY <1>1, <1>2
<1> HIDE DEF shows
<1>4. SoundShows("fareham", shows)
  BY <1>3, BlamelessShows
<1>5. SoundOperation("fareham", Operation(takes, kill, shows))
  BY <1>4, OperationFacts
<1> QED
  BY <1>5 DEF shows

LEMMA PdfFacts ==
  ASSUME NEW takes, NEW kill
  PROVE  SoundOperation("east-hampshire", Operation(takes, kill, PdfEntries))
<1>1. \A p \in Page : PdfEntries[p] \subseteq {"some", "nothing", "ADAPTER_ERROR", "NOT_FOUND"}
  BY DEF PdfEntries, Shows, Page
<1>2. "east-hampshire" \notin KeepsEvidence
  BY DEF KeepsEvidence
<1> QED
  BY <1>1, <1>2, BlamelessShows, OperationFacts

LEMMA PortalFacts ==
  ASSUME NEW c \in Portals, NEW takes, NEW kill,
         NEW shows \in {WithForm(Anything), HavantAddresses, Schedule, WinchesterSchedule}
  PROVE  SoundOperation(c, Operation(takes, kill, shows))
<1>1. c \notin KeepsEvidence
  BY DEF KeepsEvidence
<1>2. \A p \in Page :
        /\ shows[p] \subseteq {"some", "nothing", "failed", "ADAPTER_ERROR", "TIMEOUT"}
        /\ "TIMEOUT" \in shows[p] => p \in {"odd", "garbled", "block", "away"}
  <2>1. CASE shows = WithForm(Anything)
    BY <2>1 DEF WithForm, Anything, FormFails, Page
  <2>2. CASE shows = HavantAddresses
    BY <2>2 DEF HavantAddresses, WithForm, Anything, FormFails, Page
  <2>3. CASE shows = Schedule
    BY <2>3 DEF Schedule, Anything, Page
  <2>4. CASE shows = WinchesterSchedule
    BY <2>4 DEF WinchesterSchedule, Schedule, Anything, Page
  <2> QED
    BY <2>1, <2>2, <2>3, <2>4
<1>3. ASSUME NEW p \in Page, NEW v \in shows[p]
      PROVE  Warranted(c, v, {p})
  <2>1. CASE v = "TIMEOUT"
    BY <1>2, <1>3, <2>1, WarrantFacts
  <2>2. CASE v # "TIMEOUT"
    <3>1. v \in {"some", "nothing", "ADAPTER_ERROR"} \/ v = "failed"
      BY <1>2, <1>3, <2>2
    <3>2. Warranted(c, "failed", {p})
      BY DeservedFacts DEF Warranted
    <3> QED
      BY <3>1, <3>2, WarrantFacts
  <2> QED
    BY <2>1, <2>2
<1>4. \A p \in Page : shows[p] \subseteq Outcome \cup (IF c \in Portals THEN {"failed"} ELSE {})
  BY <1>2 DEF Outcome, Category, Success
<1>5. SoundShows(c, shows)
  BY <1>1, <1>3, <1>4 DEF SoundShows
<1> QED
  BY <1>5, OperationFacts

LEMMA TableFacts ==
  ASSUME NEW resolve, NEW services, NEW events
  PROVE  /\ Table(resolve, services, events)["resolve"] = resolve
         /\ Table(resolve, services, events)["services"] = services
         /\ Table(resolve, services, events)["events"] = events
BY DEF Table

LEMMA OperationsFacts ==
  /\ Operations("rushmoor") = Table(RushmoorResolve, RushmoorServices, RushmoorEvents)
  /\ Operations("southampton") = Table(SouthamptonResolve, SouthamptonServices, SouthamptonEvents)
  /\ Operations("hart") = Table(HartResolve, HartServices, HartEvents)
  /\ Operations("basingstoke-deane") =
       Table(BasingstokeResolve, BasingstokeServices, BasingstokeEvents)
  /\ Operations("gosport") = Table(GosportResolve, GosportServices, GosportEvents)
  /\ Operations("fareham") = Table(FarehamResolve, FarehamServices, FarehamEvents)
  /\ Operations("east-hampshire") =
       Table(EastHampshireResolve, EastHampshireServices, EastHampshireEvents)
  /\ Operations("eastleigh") = Table(EastleighResolve, EastleighServices, EastleighEvents)
  /\ Operations("havant") = Table(HavantResolve, HavantServices, HavantEvents)
  /\ Operations("portsmouth") = Table(PortsmouthResolve, PortsmouthServices, PortsmouthEvents)
  /\ Operations("winchester") = Table(WinchesterResolve, WinchesterServices, WinchesterEvents)
  /\ Operations("test-valley") = Table(TestValleyResolve, TestValleyServices, TestValleyEvents)
BY DEF Operations

LEMMA OperationTables ==
  ASSUME NEW c \in Council, NEW op \in Op, Asks(c, op)
  PROVE  SoundOperation(c, Operations(c)[op])
<1>1. c \notin Portals \cup {"fareham"} => op \in {"services", "events"}
  BY DEF Asks
<1>2. op \in {"resolve", "services", "events"}
  BY DEF Asks
<1>3. CASE c = "rushmoor"
  <2>1. SoundOperation("rushmoor", RushmoorServices) /\ SoundOperation("rushmoor", RushmoorEvents)
    BY ShowsFacts
    DEF RushmoorServices, RushmoorEvents, RushmoorServiceList, RushmoorEventList
  <2> QED
    BY <1>1, <1>3, <2>1, OperationsFacts, TableFacts DEF Portals
<1>4. CASE c = "southampton"
  <2>1. SoundOperation("southampton", SouthamptonServices) /\ SoundOperation("southampton",
        SouthamptonEvents)
    BY ShowsFacts
    DEF SouthamptonServices, SouthamptonEvents, SouthamptonEventList
  <2> QED
    BY <1>1, <1>4, <2>1, OperationsFacts, TableFacts DEF Portals
<1>5. CASE c = "hart"
  <2>1. SoundOperation("hart", HartServices) /\ SoundOperation("hart", HartEvents)
    BY ShowsFacts
    DEF HartServices, HartEvents, HartServiceList, HartEventList
  <2> QED
    BY <1>1, <1>5, <2>1, OperationsFacts, TableFacts DEF Portals
<1>6. CASE c = "basingstoke-deane"
  <2>1. SoundOperation("basingstoke-deane", BasingstokeServices)
        /\ SoundOperation("basingstoke-deane", BasingstokeEvents)
    BY ShowsFacts
    DEF BasingstokeServices, BasingstokeEvents, BasingstokeServiceList, BasingstokeEventList,
      BasingstokeDivisions
  <2> QED
    BY <1>1, <1>6, <2>1, OperationsFacts, TableFacts DEF Portals
<1>7. CASE c = "gosport"
  <2>1. SoundOperation("gosport", GosportServices) /\ SoundOperation("gosport", GosportEvents)
    BY ShowsFacts
    DEF GosportServices, GosportEvents, GosportServiceList, GosportEventList
  <2> QED
    BY <1>1, <1>7, <2>1, OperationsFacts, TableFacts DEF Portals
<1>8. CASE c = "eastleigh"
  <2>1. SoundOperation("eastleigh", EastleighServices) /\ SoundOperation("eastleigh",
        EastleighEvents)
    BY ShowsFacts
    DEF EastleighServices, EastleighEvents, EastleighServiceList, EastleighEventList, Anything
  <2> QED
    BY <1>1, <1>8, <2>1, OperationsFacts, TableFacts DEF Portals
<1>9. CASE c = "fareham"
  <2>1. /\ SoundOperation("fareham", FarehamResolve)
        /\ SoundOperation("fareham", FarehamServices)
        /\ SoundOperation("fareham", FarehamEvents)
    BY FarehamRowFacts, ShowsFacts
    DEF FarehamResolve, FarehamServices, FarehamEvents, FarehamServiceList
  <2> QED
    BY <1>2, <1>9, <2>1, OperationsFacts, TableFacts
<1>10. CASE c = "east-hampshire"
  <2>1. /\ SoundOperation("east-hampshire", EastHampshireServices)
        /\ SoundOperation("east-hampshire", EastHampshireEvents)
    BY PdfFacts DEF EastHampshireServices, EastHampshireEvents
  <2> QED
    BY <1>1, <1>10, <2>1, OperationsFacts, TableFacts DEF Portals
<1>11. CASE c = "havant"
  <2>1. /\ SoundOperation("havant", HavantResolve)
        /\ SoundOperation("havant", HavantServices)
        /\ SoundOperation("havant", HavantEvents)
    BY PortalFacts
    DEF HavantResolve, HavantServices, HavantEvents, PortalResolve, PortalRead,
      HavantSchedule, HavantAddresses, Portals
  <2> QED
    BY <1>2, <1>11, <2>1, OperationsFacts, TableFacts
<1>12. CASE c = "portsmouth"
  <2>1. /\ SoundOperation("portsmouth", PortsmouthResolve)
        /\ SoundOperation("portsmouth", PortsmouthServices)
        /\ SoundOperation("portsmouth", PortsmouthEvents)
    BY PortalFacts
    DEF PortsmouthResolve, PortsmouthServices, PortsmouthEvents, PortalResolve, PortalRead,
      PortsmouthSchedule, WinchesterSchedule, PortsmouthAddresses, Portals
  <2> QED
    BY <1>2, <1>12, <2>1, OperationsFacts, TableFacts
<1>13. CASE c = "winchester"
  <2>1. /\ SoundOperation("winchester", WinchesterResolve)
        /\ SoundOperation("winchester", WinchesterServices)
        /\ SoundOperation("winchester", WinchesterEvents)
    BY PortalFacts
    DEF WinchesterResolve, WinchesterServices, WinchesterEvents, PortalResolve, PortalRead,
      WinchesterSchedule, WinchesterAddresses, Portals
  <2> QED
    BY <1>2, <1>13, <2>1, OperationsFacts, TableFacts
<1>14. CASE c = "test-valley"
  <2>1. /\ SoundOperation("test-valley", TestValleyResolve)
        /\ SoundOperation("test-valley", TestValleyServices)
        /\ SoundOperation("test-valley", TestValleyEvents)
    BY PortalFacts
    DEF TestValleyResolve, TestValleyServices, TestValleyEvents, PortalResolve, PortalRead,
      TestValleySchedule, WinchesterSchedule, TestValleyAddresses, Portals
  <2> QED
    BY <1>2, <1>14, <2>1, OperationsFacts, TableFacts
<1> QED
  BY <1>3, <1>4, <1>5, <1>6, <1>7, <1>8, <1>9, <1>10, <1>11, <1>12, <1>13, <1>14
  DEF Asks, Council, Browsers, Portals, Fetchers

LEMMA TakesFacts ==
  ASSUME NEW malformed \in {"ask", "some", "NOT_FOUND", "VALIDATION_ERROR", "ADAPTER_ERROR"},
         NEW missing \in {"ask", "some", "NOT_FOUND", "VALIDATION_ERROR", "ADAPTER_ERROR"},
         NEW kill, NEW shows
  PROVE  /\ SoundTakes(Operation(Takes(missing, malformed), kill, shows))
         /\ SoundTakes(HandsBack(Takes(missing, malformed)))
         /\ "ask" \notin {missing, malformed} =>
              \A i \in Input : HandsBack(Takes(missing, malformed)).takes[i] # "ask"
<1>1. \A i \in Input : Takes(missing, malformed)[i] \in {"ask", missing, malformed}
  BY DEF Takes, Input
<1>2. \A i \in Input :
        [Takes(missing, malformed) EXCEPT !.good = "some"][i] \in {"some", missing, malformed}
  BY DEF Takes, Input
<1> QED
  BY <1>1, <1>2 DEF SoundTakes, Operation, HandsBack

LEMMA TakesTables ==
  ASSUME NEW c \in Council \ {"new-forest"}, NEW op \in Op \ {"health"}
  PROVE  /\ SoundTakes(Operations(c)[op])
         /\ ~Asks(c, op) => \A i \in Input : Operations(c)[op].takes[i] # "ask"
<1>0. op \in {"resolve", "services", "events"}
  BY DEF Op
<1> DEFINE Fine(resolve, services, events) ==
      /\ \A o \in {resolve, services, events} : SoundTakes(o)
      /\ \/ c \in Portals \cup {"fareham"}
         \/ \A i \in Input : resolve.takes[i] # "ask"
<1>1. \E resolve, services, events :
        /\ Operations(c) = Table(resolve, services, events)
        /\ Fine(resolve, services, events)
  <2>1. CASE c = "rushmoor"
    <3>1. Fine(RushmoorResolve, RushmoorServices, RushmoorEvents)
      BY <2>1, TakesFacts
      DEF RushmoorResolve, RushmoorServices, RushmoorEvents
    <3> QED
      BY <2>1, <3>1, OperationsFacts
  <2>2. CASE c = "southampton"
    <3>1. Fine(SouthamptonResolve, SouthamptonServices, SouthamptonEvents)
      BY <2>2, TakesFacts
      DEF SouthamptonResolve, SouthamptonServices, SouthamptonEvents, Operation, SoundTakes
    <3> QED
      BY <2>2, <3>1, OperationsFacts
  <2>3. CASE c = "hart"
    <3>1. Fine(HartResolve, HartServices, HartEvents)
      BY <2>3, TakesFacts
      DEF HartResolve, HartServices, HartEvents
    <3> QED
      BY <2>3, <3>1, OperationsFacts
  <2>4. CASE c = "basingstoke-deane"
    <3>1. Fine(BasingstokeResolve, BasingstokeServices, BasingstokeEvents)
      BY <2>4, TakesFacts
      DEF BasingstokeResolve, BasingstokeServices, BasingstokeEvents
    <3> QED
      BY <2>4, <3>1, OperationsFacts
  <2>5. CASE c = "gosport"
    <3>1. Fine(GosportResolve, GosportServices, GosportEvents)
      BY <2>5, TakesFacts
      DEF GosportResolve, GosportServices, GosportEvents
    <3> QED
      BY <2>5, <3>1, OperationsFacts
  <2>6. CASE c = "fareham"
    <3>1. Fine(FarehamResolve, FarehamServices, FarehamEvents)
      BY <2>6, TakesFacts
      DEF FarehamResolve, FarehamServices, FarehamEvents
    <3> QED
      BY <2>6, <3>1, OperationsFacts
  <2>7. CASE c = "east-hampshire"
    <3>1. Fine(EastHampshireResolve, EastHampshireServices, EastHampshireEvents)
      BY <2>7, TakesFacts
      DEF EastHampshireResolve, EastHampshireServices, EastHampshireEvents
    <3> QED
      BY <2>7, <3>1, OperationsFacts
  <2>8. CASE c = "eastleigh"
    <3>1. Fine(EastleighResolve, EastleighServices, EastleighEvents)
      BY <2>8, TakesFacts
      DEF EastleighResolve, EastleighServices, EastleighEvents
    <3> QED
      BY <2>8, <3>1, OperationsFacts
  <2>9. CASE c = "havant"
    <3>1. Fine(HavantResolve, HavantServices, HavantEvents)
      BY <2>9, TakesFacts
      DEF HavantResolve, HavantServices, HavantEvents, PortalResolve, PortalRead, Portals
    <3> QED
      BY <2>9, <3>1, OperationsFacts
  <2>10. CASE c = "portsmouth"
    <3>1. Fine(PortsmouthResolve, PortsmouthServices, PortsmouthEvents)
      BY <2>10, TakesFacts
      DEF PortsmouthResolve, PortsmouthServices, PortsmouthEvents, PortalResolve, PortalRead,
          Portals
    <3> QED
      BY <2>10, <3>1, OperationsFacts
  <2>11. CASE c = "winchester"
    <3>1. Fine(WinchesterResolve, WinchesterServices, WinchesterEvents)
      BY <2>11, TakesFacts
      DEF WinchesterResolve, WinchesterServices, WinchesterEvents, PortalResolve, PortalRead,
          Portals
    <3> QED
      BY <2>11, <3>1, OperationsFacts
  <2>12. CASE c = "test-valley"
    <3>1. Fine(TestValleyResolve, TestValleyServices, TestValleyEvents)
      BY <2>12, TakesFacts
      DEF TestValleyResolve, TestValleyServices, TestValleyEvents, PortalResolve, PortalRead,
          Portals
    <3> QED
      BY <2>12, <3>1, OperationsFacts
  <2> QED
    BY <2>1, <2>2, <2>3, <2>4, <2>5, <2>6, <2>7, <2>8, <2>9, <2>10, <2>11, <2>12
    DEF Council, Browsers, Portals, Fetchers
<1> QED
  BY <1>0, <1>1, TableFacts DEF Asks

LEMMA HealthTables ==
  ASSUME NEW c \in Council, NEW outcome
  PROVE  /\ Health(c, outcome).status \in {"HEALTHY", "DEGRADED", "UNHEALTHY"}
         /\ Health(c, outcome).reachable \in BOOLEAN
BY DEF Health, Council, Browsers, Portals, Fetchers, HealthOf, RushmoorHealth, SouthamptonHealth,
    HartHealth, BasingstokeHealth,
  GosportHealth, FarehamHealth, EastHampshireHealth, NewForestHealth, EastleighHealth,
      HavantHealth, PortsmouthHealth,
  WinchesterHealth, TestValleyHealth

-----------------------------------------------------------------------------
(* The invariant. *)

(* Where a call is says on which kind of adapter, and that it was not      *)
(* refused; what it has decided and answered comes with the last stages.   *)
StagesFit ==
  /\ at \in {"asking", "reading"} => call.council \in Fetchers
  /\ at \in {"launching", "navigating", "working", "cleaning", "cleaningAgain"}
       => call.council \in Browsers
  /\ at = "storing" => call.council \in Fetchers \cup {"eastleigh"}
  /\ at \in Calling => Refusal = "ask"
  /\ IF at \in Decided THEN result \in Outcome ELSE result = "none"
  /\ at # "done" => answer = NoAnswer

(* The page in hand arrived in this call, one that is being stored for     *)
(* good was accepted, and the portals' health checks work on none.         *)
PageInHand ==
  /\ at \in {"storing", "working"} => page \in Page \cap met
  /\ at = "working" /\ call.council \in Portals => call.op # "health"
  /\ at = "storing" /\ call.council \in Fetchers =>
       /\ page # "away"
       /\ fetch.stores # "never"
       /\ fetch.stores = "after" => "keep" \in fetch.reads[page]
  /\ at = "storing" /\ call.council = "eastleigh" => page \in {"full", "empty", "badDate"}

Grounded(outcome) ==
  outcome \in Success =>
    /\ stored
    /\ page \in met
    /\ page \in {"block", "garbled"} => call.council = "basingstoke-deane"
    /\ outcome = "some" /\ call.op # "health" => page # "empty"

SuccessGrounded ==
  call.council \in KeepsEvidence /\ Refusal = "ask"
    => Grounded(result) /\ Grounded(answer.outcome)

BlameGrounded ==
  call.council # "new-forest" =>
    Warranted(call.council, result, met) /\ Warranted(call.council, answer.outcome, met)

CallInv == TypeOK /\ StagesFit /\ PageInHand /\ SuccessGrounded /\ BlameGrounded

Answers ==
  [outcome : Outcome \cup {"none", "rejected"},
   status : {"none", "HEALTHY", "DEGRADED", "UNHEALTHY"},
   reachable : BOOLEAN]

Called == call \in [council : Council, op : Op, input : Input, killed : BOOLEAN]

-----------------------------------------------------------------------------
LEMMA Names ==
  /\ Outcome \cap {"none", "rejected", "ask", "keep", "next", "failed"} = {}
  /\ Success \subseteq Outcome /\ Category \subseteq Outcome /\ Category \cap Success = {}
  /\ {"NOT_FOUND", "ADAPTER_ERROR", "TIMEOUT", "NETWORK_ERROR", "BOT_DETECTION",
      "VALIDATION_ERROR"} \subseteq Category
  /\ {"some", "nothing"} = Success
  /\ Status \cup Page \subseteq Trouble \cup Status \cup Page
  /\ Errors \cup {"browser"} = Trouble
BY DEF Outcome, Success, Category, Errors, Trouble

LEMMA Councils ==
  /\ Browsers \subseteq Council \ {"new-forest"} /\ Fetchers \subseteq Council \ {"new-forest"}
  /\ Council \ {"new-forest"} = Browsers \cup Fetchers
  /\ Browsers \cap Fetchers = {} /\ Portals \subseteq Browsers
  /\ "eastleigh" \in Browsers \ Portals /\ Browsers = Portals \cup {"eastleigh"}
  /\ Portals \cap KeepsEvidence = {} /\ "new-forest" \notin KeepsEvidence
  /\ "east-hampshire" \in Fetchers \ KeepsEvidence /\ KeepsEvidence \subseteq Council
  /\ "basingstoke-deane" \in Fetchers
BY DEF Council, Browsers, Fetchers, Portals, KeepsEvidence

LEMMA CallKept ==
  ASSUME call' = call
  PROVE  /\ Refusal' = Refusal /\ fetch' = fetch /\ operation' = operation
BY DEF Refusal, ChecksKillSwitch, fetch, operation

LEMMA RefusalFacts ==
  ASSUME Called
  PROVE  /\ Refusal \in Outcome \cup {"ask"}
         /\ call.council # "new-forest" =>
              Refusal \in {"ask", "some", "NOT_FOUND", "VALIDATION_ERROR", "ADAPTER_ERROR"}
         /\ Refusal = "ask" =>
              /\ call.council # "new-forest"
              /\ call.op # "health" => Asks(call.council, call.op)
              /\ call.op = "health" => call.council # "east-hampshire"
<1>1. call.council \in Council /\ call.op \in Op /\ call.input \in Input
  BY DEF Called
<1>2. CASE call.council = "new-forest"
  BY <1>1, <1>2, Names DEF Refusal, NewForestAnswer
<1>3. CASE call.council # "new-forest" /\ call.op = "health"
  BY <1>1, <1>3, Names DEF Refusal
<1>4. CASE call.council # "new-forest" /\ call.op # "health"
  <2>1. operation.takes[call.input]
          \in {"ask", "some", "NOT_FOUND", "VALIDATION_ERROR", "ADAPTER_ERROR"}
    BY <1>1, <1>4, TakesTables DEF operation, SoundTakes
  <2>2. ~Asks(call.council, call.op) => operation.takes[call.input] # "ask"
    BY <1>1, <1>4, TakesTables DEF operation
  <2> QED
    BY <1>4, <2>1, <2>2, Names DEF Refusal
<1> QED
  BY <1>2, <1>3, <1>4

(* What an operation may show of a page it kept. *)
LEMMA ShownFacts ==
  ASSUME Called, Refusal = "ask", NEW p \in Page, NEW outcome \in Shown(p)
  PROVE  /\ outcome \in Outcome \cup (IF call.council \in Portals THEN {"failed"} ELSE {})
         /\ Warranted(call.council, outcome, {p})
         /\ call.council \in KeepsEvidence /\ outcome = "some" /\ call.op # "health" => p # "empty"
<1>1. CASE call.op = "health"
  BY <1>1, WarrantFacts, Names DEF Shown
<1>2. CASE call.op # "health"
  <2>1. SoundOperation(call.council, operation)
    BY <1>2, RefusalFacts, OperationTables DEF Called, operation
  <2>2. outcome \in operation.shows[p]
    BY <1>2 DEF Shown
  <2> QED
    BY <2>1, <2>2 DEF SoundOperation, SoundShows
<1> QED
  BY <1>1, <1>2

LEMMA AnsweredFacts ==
  ASSUME Called, NEW outcome \in Outcome, Answered(outcome)
  PROVE  answer' \in Answers /\ answer'.outcome = outcome
<1>1. call.council \in Council
  BY DEF Called
<1>2. CASE call.op = "health"
  BY <1>1, <1>2, HealthTables DEF Answered, Answers
<1>3. CASE call.op # "health"
  BY <1>3 DEF Answered, Answers, NoAnswer
<1> QED
  BY <1>2, <1>3

(* A step that decides nothing: it need only say where it goes. *)
LEMMA Moves ==
  ASSUME CallInv, at \in Calling \ Decided, at' \in Calling \ Decided,
         UNCHANGED <<call, result, answer>>,
         list' \in 1..2, page' \in Page \cup {"none"}, stored' \in BOOLEAN,
         met \subseteq met', met' \subseteq Trouble \cup Status \cup Page,
         at' \in {"asking", "reading"} => call.council \in Fetchers,
         at' \in {"launching", "navigating", "working"} => call.council \in Browsers,
         at' = "storing" => call.council \in Fetchers \cup {"eastleigh"},
         PageInHand'
  PROVE  CallInv'
<1>1. Refusal' = Refusal
  BY CallKept
<1>2. result = "none" /\ answer = NoAnswer
  BY DEF CallInv, StagesFit, Calling, Decided
<1>3. TypeOK'
  BY DEF CallInv, TypeOK, Calling
<1>4. StagesFit'
  BY <1>1, <1>2 DEF CallInv, StagesFit, Calling, Decided
<1>5. SuccessGrounded'
  BY <1>2, Names DEF SuccessGrounded, Grounded, NoAnswer
<1>6. BlameGrounded'
  BY <1>2, WarrantFacts DEF BlameGrounded, NoAnswer
<1> QED
  BY <1>3, <1>4, <1>5, <1>6 DEF CallInv

(* A step that has the outcome: it need only say what the outcome rests on. *)
LEMMA Finishes ==
  ASSUME CallInv, at \in Calling \ Decided, call' = call, NEW outcome \in Outcome, Finish(outcome),
         list' \in 1..2, page' \in Page \cup {"none"}, stored' \in BOOLEAN,
         met \subseteq met', met' \subseteq Trouble \cup Status \cup Page,
         Warranted(call.council, outcome, met'),
         call.council \in KeepsEvidence => Grounded(outcome)'
  PROVE  CallInv'
<1>1. Refusal' = Refusal
  BY CallKept
<1>2. result = "none" /\ answer = NoAnswer /\ Refusal = "ask" /\ Called
  BY DEF CallInv, StagesFit, Calling, Decided, TypeOK, Called
<1>3. CASE call.council \in Browsers
  <2>1. at' = "cleaning" /\ result' = outcome /\ answer' = NoAnswer
    BY <1>2, <1>3 DEF Finish
  <2>2. TypeOK'
    BY <2>1, <1>2 DEF CallInv, TypeOK, Calling
  <2>3. StagesFit'
    BY <1>1, <1>2, <1>3, <2>1 DEF StagesFit, Calling, Decided
  <2>4. PageInHand'
    BY <2>1 DEF PageInHand
  <2>5. SuccessGrounded'
    BY <2>1, Names DEF SuccessGrounded, Grounded, NoAnswer
  <2>6. BlameGrounded'
    BY <2>1, WarrantFacts DEF BlameGrounded, NoAnswer
  <2> QED
    BY <2>2, <2>3, <2>4, <2>5, <2>6 DEF CallInv
<1>4. CASE call.council \notin Browsers
  <2>1. at' = "done" /\ result' = outcome /\ answer' \in Answers /\ answer'.outcome = outcome
    BY <1>2, <1>4, AnsweredFacts DEF Finish
  <2>2. TypeOK'
    BY <2>1 DEF CallInv, TypeOK, Answers
  <2>3. StagesFit'
    BY <2>1 DEF StagesFit, Calling, Decided
  <2>4. PageInHand'
    BY <2>1 DEF PageInHand
  <2>5. SuccessGrounded'
    BY <2>1 DEF SuccessGrounded, Grounded
  <2>6. BlameGrounded'
    BY <2>1 DEF BlameGrounded
  <2> QED
    BY <2>2, <2>3, <2>4, <2>5, <2>6 DEF CallInv
<1> QED
  BY <1>3, <1>4

-----------------------------------------------------------------------------
(* Steps. *)

LEMMA InitCallInv == Init => CallInv
<1> SUFFICES ASSUME Init PROVE CallInv
  OBVIOUS
<1>1. TypeOK
  <2>1. call \in [council : Council, op : Op, input : Input, killed : BOOLEAN]
    BY DEF Init
  <2>2. answer \in Answers
    BY DEF Init, NoAnswer, Answers
  <2>3. list \in 1..2
    BY DEF Init
  <2>4. result \in Outcome \cup {"none"} /\ page \in Page \cup {"none"} /\ stored \in BOOLEAN
    BY DEF Init
  <2>5. at \in {"idle", "done"} \cup Calling /\ met \subseteq Trouble \cup Status \cup Page
    BY DEF Init
  <2> QED
    BY <2>1, <2>2, <2>3, <2>4, <2>5 DEF TypeOK, Answers
<1>2. StagesFit /\ PageInHand
  BY DEF Init, StagesFit, PageInHand, Calling, Decided
<1>3. SuccessGrounded
  BY Names DEF Init, SuccessGrounded, Grounded, NoAnswer
<1>4. BlameGrounded
  BY WarrantFacts DEF Init, BlameGrounded, NoAnswer
<1> QED
  BY <1>1, <1>2, <1>3, <1>4 DEF CallInv

LEMMA RefuseStep ==
  ASSUME CallInv, Refuse
  PROVE  CallInv'
<1>1. Called /\ Refusal \in Outcome /\ Refusal # "ask" /\ call' = call
  BY RefusalFacts DEF CallInv, TypeOK, Called, Refuse
<1>2. Refusal' = Refusal
  BY <1>1, CallKept
<1>3. answer' \in Answers /\ answer'.outcome = Refusal /\ at' = "done" /\ result' = Refusal
  BY <1>1, AnsweredFacts DEF Refuse
<1>4. TypeOK'
  BY <1>1, <1>3 DEF CallInv, TypeOK, Refuse, Answers
<1>5. StagesFit' /\ PageInHand'
  BY <1>1, <1>3 DEF StagesFit, PageInHand, Calling, Decided
<1>6. SuccessGrounded'
  BY <1>1, <1>2 DEF SuccessGrounded
<1>7. BlameGrounded'
  BY <1>1, <1>3, RefusalFacts, WarrantFacts DEF BlameGrounded
<1> QED
  BY <1>4, <1>5, <1>6, <1>7 DEF CallInv

LEMMA AskStep ==
  ASSUME CallInv, Ask
  PROVE  CallInv'
<1>1. Called /\ Refusal = "ask" /\ call' = call
  BY DEF CallInv, TypeOK, Called, Ask
<1>2. Refusal' = Refusal
  BY <1>1, CallKept
<1>3. call.council \in Council \ {"new-forest"}
  BY <1>1, RefusalFacts DEF Called
<1>4. at' = IF call.council \in Fetchers THEN "asking" ELSE "launching"
  BY DEF Ask
<1>5. result = "none" /\ answer = NoAnswer /\ UNCHANGED <<result, answer>>
  BY DEF CallInv, StagesFit, Ask, Decided
<1>6. TypeOK'
  BY <1>4 DEF CallInv, TypeOK, Ask, Calling
<1>7. StagesFit'
  BY <1>1, <1>2, <1>3, <1>4, <1>5, Councils DEF StagesFit, Calling, Decided
<1>8. PageInHand'
  BY <1>4 DEF PageInHand
<1>9. SuccessGrounded'
  BY <1>5, Names DEF SuccessGrounded, Grounded, NoAnswer
<1>10. BlameGrounded'
  BY <1>5, WarrantFacts DEF BlameGrounded, NoAnswer
<1> QED
  BY <1>6, <1>7, <1>8, <1>9, <1>10 DEF CallInv

LEMMA FetchFacts ==
  ASSUME call.council \in Fetchers
  PROVE  SoundFetch(call.council, fetch)
BY FetchTables DEF fetch

LEMMA FailsStep ==
  ASSUME CallInv, at \in {"asking", "reading", "storing"}, call.council \in Fetchers,
         NEW trouble \in Errors, Fails(trouble)
  PROVE  CallInv'
<1>1. PICK category \in Category :
        Finish(category) /\ Warranted(call.council, category, {trouble})
  BY FetchFacts DEF SoundFetch, Fails
<1>2. Warranted(call.council, category, met')
  BY <1>1, WarrantsOne DEF Fails
<1>3. Grounded(category)'
  BY Names DEF Grounded
<1>4. met \subseteq met' /\ met' \subseteq Trouble \cup Status \cup Page
  BY Names DEF Fails, CallInv, TypeOK
<1>5. list' \in 1..2 /\ page' \in Page \cup {"none"} /\ stored' \in BOOLEAN /\ call' = call
  BY DEF Fails, CallInv, TypeOK
<1>6. at \in Calling \ Decided /\ category \in Outcome
  BY Names DEF Calling, Decided
<1> QED
  BY <1>1, <1>2, <1>3, <1>4, <1>5, <1>6, Finishes

LEMMA NextListStep ==
  ASSUME CallInv, at \in {"asking", "reading", "storing"}, call.council \in Fetchers, NextList,
         call' = call, page' \in Page \cup {"none"}, stored' \in BOOLEAN,
         met \subseteq met', met' \subseteq Trouble \cup Status \cup Page
  PROVE  CallInv'
<1>1. at \in Calling \ Decided /\ list \in 1..2
  BY DEF Calling, Decided, CallInv, TypeOK
<1>2. CASE list < fetch.lists /\ list' = list + 1 /\ at' = "asking" /\ UNCHANGED <<result, answer>>
  <2>1. list' \in 1..2
    BY <1>1, <1>2, FetchFacts DEF SoundFetch
  <2>2. at' \in Calling \ Decided /\ PageInHand'
    BY <1>2 DEF Calling, Decided, PageInHand
  <2> QED
    BY <1>1, <1>2, <2>1, <2>2, Moves
<1>3. CASE Finish("NOT_FOUND") /\ list' = list
  <2>1. Warranted(call.council, "NOT_FOUND", met') /\ "NOT_FOUND" \in Outcome
    BY WarrantFacts, Names
  <2>2. Grounded("NOT_FOUND")'
    BY Names DEF Grounded
  <2> QED
    BY <1>1, <1>3, <2>1, <2>2, Finishes
<1> QED
  BY <1>2, <1>3 DEF NextList

LEMMA DecideStep ==
  ASSUME CallInv, at \in {"reading", "storing"}, call.council \in Fetchers,
         NEW p \in Page \ {"away"}, NEW verdict \in fetch.reads[p], Decide(verdict, p),
         call' = call, page' = p, p \in met', stored' \in BOOLEAN,
         fetch.stores = "before" => stored',
         met \subseteq met', met' \subseteq Trouble \cup Status \cup Page
  PROVE  CallInv'
<1>1. at \in Calling \ Decided /\ list \in 1..2 /\ Called /\ Refusal = "ask"
  BY DEF Calling, Decided, CallInv, TypeOK, StagesFit, Called
<1>2. SoundFetch(call.council, fetch) /\ fetch' = fetch
  BY FetchFacts, CallKept
<1>3. verdict \in Category \cup {"keep", "next"} /\ Warranted(call.council, verdict, met')
  <2>1. verdict \in Category \cup {"keep", "next"} /\ Warranted(call.council, verdict, {p})
    BY <1>2 DEF SoundFetch
  <2> QED
    BY <2>1, WarrantsOne
<1>4. CASE verdict = "keep" /\ fetch.stores = "after" /\ at' = "storing"
           /\ UNCHANGED <<list, result, answer>>
  <2>1. PageInHand'
    BY <1>2, <1>4, Councils DEF PageInHand
  <2>2. at' \in Calling \ Decided
    BY <1>4 DEF Calling, Decided
  <2> QED
    BY <1>1, <1>4, <2>1, <2>2, Moves
<1>5. ASSUME verdict = "keep", fetch.stores # "after", list' = list,
             NEW outcome \in Shown(p), Finish(outcome)
      PROVE  CallInv'
  <2>1. outcome \in Outcome /\ Warranted(call.council, outcome, met')
    BY <1>1, <1>5, ShownFacts, WarrantsOne, Councils
  <2>2. ASSUME call.council \in KeepsEvidence, outcome \in Success
        PROVE  Grounded(outcome)'
    <3>1. stored'
      BY <1>2, <1>5, <2>2, Councils DEF SoundFetch
    <3>2. p \in {"block", "garbled"} => call.council = "basingstoke-deane"
      BY <1>2, <1>5 DEF SoundFetch
    <3>3. outcome = "some" /\ call.op # "health" => p # "empty"
      BY <1>1, <1>5, <2>2, ShownFacts
    <3> QED
      BY <3>1, <3>2, <3>3 DEF Grounded
  <2>3. outcome \notin Success => Grounded(outcome)'
    BY DEF Grounded
  <2> QED
    BY <1>1, <1>5, <2>1, <2>2, <2>3, Finishes
<1>6. CASE verdict = "next" /\ NextList
  BY <1>6, NextListStep
<1>7. CASE verdict \notin {"keep", "next"} /\ Finish(verdict) /\ list' = list
  <2>1. verdict \in Outcome /\ verdict \notin Success
    BY <1>3, <1>7, Names
  <2>2. Grounded(verdict)'
    BY <2>1 DEF Grounded
  <2> QED
    BY <1>1, <1>3, <1>7, <2>1, <2>2, Finishes
<1> QED
  BY <1>4, <1>5, <1>6, <1>7 DEF Decide

LEMMA HeadersStep ==
  ASSUME CallInv, NEW s \in Status, HeadersArrive(s)
  PROVE  CallInv'
<1>1. /\ at = "asking" /\ call.council \in Fetchers /\ call' = call
      /\ list \in 1..2 /\ page' \in Page \cup {"none"} /\ stored' \in BOOLEAN
      /\ met \subseteq met' /\ met' \subseteq Trouble \cup Status \cup Page
  BY DEF HeadersArrive, CallInv, TypeOK, StagesFit
<1>2. at \in Calling \ Decided
  BY <1>1 DEF Calling, Decided
<1>3. CASE s = "ok" /\ at' = "reading" /\ UNCHANGED <<list, result, answer>>
  <2>1. at' \in Calling \ Decided /\ PageInHand'
    BY <1>3 DEF Calling, Decided, PageInHand
  <2> QED
    BY <1>1, <1>2, <1>3, <2>1, Moves
<1>4. CASE s # "ok" /\ NextList
  BY <1>1, <1>4, NextListStep
<1>5. ASSUME s # "ok", fetch.status[s] # "next", Finish(fetch.status[s]), list' = list
      PROVE  CallInv'
  <2>1. PICK category \in Category :
          Finish(category) /\ Warranted(call.council, category, {s})
    BY <1>1, <1>5, FetchFacts DEF SoundFetch
  <2>2. Warranted(call.council, category, met')
    BY <2>1, WarrantsOne DEF HeadersArrive
  <2>3. Grounded(category)' /\ category \in Outcome
    BY Names DEF Grounded
  <2> QED
    BY <1>1, <1>2, <1>5, <2>1, <2>2, <2>3, Finishes
<1> QED
  BY <1>3, <1>4, <1>5 DEF HeadersArrive

LEMMA BodyStep ==
  ASSUME CallInv, NEW p \in Page \ {"away"}, BodyArrives(p)
  PROVE  CallInv'
<1>1. /\ at = "reading" /\ call.council \in Fetchers /\ call' = call /\ page' = p /\ p \in met'
      /\ list \in 1..2 /\ stored' \in BOOLEAN
      /\ met \subseteq met' /\ met' \subseteq Trouble \cup Status \cup Page
  BY DEF BodyArrives, CallInv, TypeOK, StagesFit
<1>2. at \in Calling \ Decided
  BY <1>1 DEF Calling, Decided
<1>3. CASE fetch.stores = "before" /\ at' = "storing" /\ UNCHANGED <<list, result, answer>>
  <2>1. at' \in Calling \ Decided
    BY <1>3 DEF Calling, Decided
  <2>2. PageInHand'
    BY <1>1, <1>3, CallKept, Councils DEF PageInHand
  <2> QED
    BY <1>1, <1>2, <1>3, <2>1, <2>2, Moves
<1>4. CASE fetch.stores # "before" /\ \E verdict \in fetch.reads[p] : Decide(verdict, p)
  BY <1>1, <1>4, DecideStep
<1> QED
  BY <1>3, <1>4 DEF BodyArrives

LEMMA StoredStep ==
  ASSUME CallInv, Stored
  PROVE  CallInv'
<1>1. /\ at = "storing" /\ call.council \in Fetchers /\ call' = call /\ page' = page /\ stored'
      /\ list \in 1..2 /\ stored' \in BOOLEAN /\ met' = met
      /\ met' \subseteq Trouble \cup Status \cup Page /\ Called /\ Refusal = "ask"
  BY DEF Stored, CallInv, TypeOK, StagesFit, Calling, Called
<1>2. page \in Page \ {"away"} /\ page \in met
  BY <1>1 DEF CallInv, PageInHand
<1>3. CASE fetch.stores = "before" /\ \E verdict \in fetch.reads[page] : Decide(verdict, page)
  BY <1>1, <1>2, <1>3, DecideStep
<1>4. ASSUME fetch.stores = "after", NEW outcome \in Shown(page), Finish(outcome), list' = list
      PROVE  CallInv'
  <2>1. "keep" \in fetch.reads[page]
    BY <1>1, <1>4 DEF CallInv, PageInHand
  <2>2. outcome \in Outcome /\ Warranted(call.council, outcome, met')
    <3>1. outcome \in Outcome /\ Warranted(call.council, outcome, {page})
      BY <1>1, <1>2, <1>4, ShownFacts, Councils
    <3> QED
      BY <1>1, <1>2, <3>1, WarrantsOne
  <2>3. call.council \in KeepsEvidence => Grounded(outcome)'
    <3>1. page \in {"block", "garbled"} => call.council = "basingstoke-deane"
      BY <1>1, <1>2, <2>1, FetchFacts DEF SoundFetch
    <3>2. call.council \in KeepsEvidence /\ outcome = "some" /\ call.op # "health"
            => page # "empty"
      BY <1>1, <1>2, <1>4, ShownFacts
    <3> QED
      BY <1>1, <1>2, <3>1, <3>2 DEF Grounded
  <2>4. at \in Calling \ Decided
    BY <1>1 DEF Calling, Decided
  <2> QED
    BY <1>1, <1>2, <1>4, <2>2, <2>3, <2>4, Finishes
<1> QED
  BY <1>3, <1>4 DEF Stored

LEMMA TaskFailsStep ==
  ASSUME CallInv, at \in {"launching", "navigating", "working", "storing"},
         call.council \in Browsers, NEW category \in Category, TaskFails(category),
         Warranted(call.council, category, met'),
         UNCHANGED <<call, list, stored>>, page' \in Page \cup {"none"},
         met \subseteq met', met' \subseteq Trouble \cup Status \cup Page
  PROVE  CallInv'
<1>1. PICK outcome \in {category, "NOT_FOUND"} : Finish(outcome)
  BY DEF TaskFails
<1>2. outcome \in Category /\ outcome \in Outcome /\ outcome \notin Success
  BY Names
<1>3. Warranted(call.council, outcome, met')
  BY WarrantFacts
<1>4. Grounded(outcome)'
  BY <1>2 DEF Grounded
<1>5. at \in Calling \ Decided /\ list' \in 1..2 /\ stored' \in BOOLEAN
  BY DEF Calling, Decided, CallInv, TypeOK
<1> QED
  BY <1>1, <1>2, <1>3, <1>4, <1>5, Finishes

LEMMA LaunchedStep ==
  ASSUME CallInv, Launched
  PROVE  CallInv'
<1>1. at \in Calling \ Decided /\ at' \in Calling \ Decided /\ call.council \in Browsers
  BY DEF Calling, Decided, Launched, CallInv, StagesFit
<1>2. PageInHand'
  BY DEF PageInHand, Launched
<1> QED
  BY <1>1, <1>2, Moves DEF Launched, CallInv, TypeOK

LEMMA BrowserFailsStep ==
  ASSUME CallInv, BrowserFails
  PROVE  CallInv'
<1>1. PICK category \in {"ADAPTER_ERROR", "TIMEOUT"} : TaskFails(category)
  BY DEF BrowserFails
<1>2. Warranted(call.council, category, met') /\ category \in Category
  BY WarrantFacts, Names DEF BrowserFails
<1>3. met \subseteq met' /\ met' \subseteq Trouble \cup Status \cup Page
      /\ page' \in Page \cup {"none"}
  BY Names DEF BrowserFails, CallInv, TypeOK
<1>4. call.council \in Browsers /\ at \in {"launching", "working"}
  BY DEF BrowserFails, CallInv, StagesFit
<1> QED
  BY <1>1, <1>2, <1>3, <1>4, TaskFailsStep DEF BrowserFails

LEMMA PortalHealthStep ==
  ASSUME CallInv, at = "navigating", call.council \in Portals, Finish("some"),
         UNCHANGED <<call, list, stored>>, page' \in Page \cup {"none"},
         met \subseteq met', met' \subseteq Trouble \cup Status \cup Page
  PROVE  CallInv'
<1>1. at \in Calling \ Decided /\ list' \in 1..2 /\ stored' \in BOOLEAN
  BY DEF Calling, Decided, CallInv, TypeOK
<1>2. Warranted(call.council, "some", met') /\ "some" \in Outcome
      /\ call.council \notin KeepsEvidence
  BY WarrantFacts, Names, Councils
<1> QED
  BY <1>1, <1>2, Finishes

LEMMA NavigationFailsStep ==
  ASSUME CallInv, NEW trouble \in {"refused", "silent", "browser"}, NavigationFails(trouble)
  PROVE  CallInv'
<1>1. met \subseteq met' /\ met' \subseteq Trouble \cup Status \cup Page
      /\ page' \in Page \cup {"none"}
  BY Names DEF NavigationFails, CallInv, TypeOK, Errors
<1>2. call.council \in Browsers /\ at = "navigating"
  BY DEF NavigationFails, CallInv, StagesFit
<1>3. CASE call.op = "health" /\ call.council \in Portals
  BY <1>1, <1>2, <1>3, PortalHealthStep DEF NavigationFails
<1>4. CASE ~(call.op = "health" /\ call.council \in Portals)
  <2>1. PICK category \in GotoError(trouble) : TaskFails(category)
    BY <1>4 DEF NavigationFails
  <2>2. /\ category \in {"TIMEOUT", "NETWORK_ERROR", "ADAPTER_ERROR"}
        /\ category = "TIMEOUT" => trouble = "silent"
    BY DEF GotoError
  <2>3. Warranted(call.council, category, met') /\ category \in Category
    BY <2>2, WarrantFacts, Names DEF NavigationFails
  <2> QED
    BY <1>1, <1>2, <2>1, <2>3, TaskFailsStep DEF NavigationFails
<1> QED
  BY <1>3, <1>4

LEMMA NavigatedStep ==
  ASSUME CallInv, NEW p \in Page, Navigated(p)
  PROVE  CallInv'
<1>1. met \subseteq met' /\ met' \subseteq Trouble \cup Status \cup Page
      /\ page' \in Page \cup {"none"}
  BY Names DEF Navigated, CallInv, TypeOK
<1>2. call.council \in Browsers /\ at = "navigating"
  BY DEF Navigated, CallInv, StagesFit
<1>3. CASE call.op = "health" /\ call.council \in Portals /\ Finish("some")
  BY <1>1, <1>2, <1>3, PortalHealthStep DEF Navigated
<1>4. CASE /\ call.op # "health" \/ call.council = "eastleigh"
           /\ at' = "working" /\ UNCHANGED <<result, answer>>
  <2>1. at \in Calling \ Decided /\ at' \in Calling \ Decided
    BY <1>2, <1>4 DEF Calling, Decided
  <2>2. PageInHand'
    BY <1>4, Councils DEF PageInHand, Navigated
  <2> QED
    BY <1>1, <1>2, <1>4, <2>1, <2>2, Moves DEF Navigated, CallInv, TypeOK
<1> QED
  BY <1>3, <1>4 DEF Navigated

LEMMA FormDoneStep ==
  ASSUME CallInv, FormDone
  PROVE  CallInv'
<1>1. /\ at = "working" /\ call.council \in Portals /\ UNCHANGED <<call, list, page, stored, met>>
      /\ page \in Page \cap met /\ Refusal = "ask" /\ Called /\ call.op \in Op
      /\ met \subseteq Trouble \cup Status \cup Page
  BY DEF FormDone, CallInv, TypeOK, StagesFit, PageInHand, Calling, Called
<1>2. PICK outcome \in operation.shows[page] :
        IF outcome \in Success THEN Finish(outcome)
        ELSE TaskFails(IF outcome = "failed" THEN "ADAPTER_ERROR" ELSE outcome)
  BY DEF FormDone
<1>3. outcome \in Outcome \cup {"failed"} /\ Warranted(call.council, outcome, met')
  <2>1. CASE call.op # "health"
    <3>1. SoundOperation(call.council, operation)
      BY <1>1, <2>1, RefusalFacts, OperationTables DEF Called, operation
    <3>2. outcome \in Outcome \cup {"failed"} /\ Warranted(call.council, outcome, {page})
      BY <1>1, <1>2, <3>1 DEF SoundOperation, SoundShows
    <3> QED
      BY <1>1, <3>2, WarrantsOne
  <2> QED
    BY <1>1, <2>1 DEF CallInv, PageInHand
<1>4. CASE outcome \in Success
  <2>1. at \in Calling \ Decided /\ list' \in 1..2 /\ stored' \in BOOLEAN
    BY <1>1 DEF Calling, Decided, CallInv, TypeOK
  <2> QED
    BY <1>1, <1>2, <1>3, <1>4, <2>1, Names, Councils, Finishes
<1>5. CASE outcome \notin Success
  <2>1. PICK category \in Category : TaskFails(category) /\ Warranted(call.council, category, met')
    BY <1>2, <1>3, <1>5, Names, WarrantFacts DEF Outcome
  <2> QED
    BY <1>1, <2>1, Councils, TaskFailsStep
<1> QED
  BY <1>4, <1>5

LEMMA ListAwaitedStep ==
  ASSUME CallInv, ListAwaited
  PROVE  CallInv'
<1>1. /\ at = "working" /\ call.council = "eastleigh" /\ UNCHANGED <<call, list, page, stored, met>>
      /\ page \in Page \cap met /\ met \subseteq Trouble \cup Status \cup Page
      /\ list \in 1..2 /\ stored \in BOOLEAN
  BY DEF ListAwaited, CallInv, TypeOK, PageInHand
<1>2. PICK verdict \in EastleighPage[page] :
        \/ verdict = "keep" /\ at' = "storing" /\ UNCHANGED <<result, answer>>
        \/ verdict # "keep" /\ Finish(verdict)
  BY DEF ListAwaited
<1>3. /\ verdict = "keep" => page \in {"full", "empty", "badDate"}
      /\ verdict \in {"keep", "NOT_FOUND", "BOT_DETECTION"}
      /\ verdict = "BOT_DETECTION" => page = "block"
  BY <1>1, <1>2 DEF EastleighPage, Kept, Page
<1>4. at \in Calling \ Decided
  BY <1>1 DEF Calling, Decided
<1>5. CASE verdict = "keep"
  <2>1. at' = "storing" /\ at' \in Calling \ Decided /\ UNCHANGED <<result, answer>>
    BY <1>2, <1>5 DEF Calling, Decided
  <2>2. PageInHand'
    BY <1>1, <1>3, <1>5, <2>1, Councils DEF PageInHand
  <2> QED
    BY <1>1, <1>4, <2>1, <2>2, Moves
<1>6. CASE verdict # "keep"
  <2>1. verdict \in Outcome /\ verdict \notin Success /\ Warranted(call.council, verdict, met')
    BY <1>1, <1>3, <1>6, Names, WarrantFacts
  <2>2. Grounded(verdict)'
    BY <2>1 DEF Grounded
  <2> QED
    BY <1>1, <1>2, <1>4, <1>6, <2>1, <2>2, Finishes
<1> QED
  BY <1>5, <1>6

LEMMA PageStoredStep ==
  ASSUME CallInv, PageStored
  PROVE  CallInv'
<1>1. /\ at = "storing" /\ call.council = "eastleigh" /\ UNCHANGED <<call, list, page, met>>
      /\ page \in Page \cap met /\ page \in {"full", "empty", "badDate"} /\ stored'
      /\ met \subseteq Trouble \cup Status \cup Page /\ list \in 1..2 /\ stored' \in BOOLEAN
      /\ Refusal = "ask" /\ Called
  BY DEF PageStored, CallInv, TypeOK, PageInHand, StagesFit, Calling, Called
<1>2. PICK outcome \in Shown(page) : Finish(outcome)
  BY DEF PageStored
<1>3. outcome \in Outcome /\ Warranted(call.council, outcome, {page})
  BY <1>1, ShownFacts, Councils
<1>4. Warranted(call.council, outcome, met')
  BY <1>1, <1>3, WarrantsOne
<1>5. call.council \in KeepsEvidence => Grounded(outcome)'
  BY <1>1, <1>2, ShownFacts DEF Grounded
<1>6. at \in Calling \ Decided
  BY <1>1 DEF Calling, Decided
<1> QED
  BY <1>1, <1>2, <1>3, <1>4, <1>5, <1>6, Finishes

LEMMA PageStoreFailsStep ==
  ASSUME CallInv, PageStoreFails
  PROVE  CallInv'
<1>1. /\ at = "storing" /\ call' = call /\ list' \in 1..2 /\ page' \in Page \cup {"none"}
      /\ stored' \in BOOLEAN /\ met \subseteq met' /\ met' \subseteq Trouble \cup Status \cup Page
  BY Names DEF PageStoreFails, CallInv, TypeOK, Errors
<1>2. at \in Calling \ Decided
  BY <1>1 DEF Calling, Decided
<1>3. /\ "ADAPTER_ERROR" \in Outcome /\ Warranted(call.council, "ADAPTER_ERROR", met')
      /\ Grounded("ADAPTER_ERROR")'
  BY Names, WarrantFacts DEF Grounded
<1> QED
  BY <1>1, <1>2, <1>3, Finishes DEF PageStoreFails

(* What the steps of cleanup() have in common: they only answer. *)
LEMMA CleanupStep ==
  ASSUME CallInv, at \in {"cleaning", "cleaningAgain"},
         UNCHANGED <<call, list, page, stored, result>>,
         met \subseteq met', met' \subseteq Trouble \cup Status \cup Page,
         \/ at' = "cleaningAgain" /\ UNCHANGED answer
         \/ /\ at' = "done" /\ answer' \in Answers
            /\ answer'.outcome \in {result, "ADAPTER_ERROR", "rejected"}
  PROVE  CallInv'
<1>1. Refusal' = Refusal /\ call.council \in Browsers /\ Refusal = "ask" /\ result \in Outcome
  BY CallKept DEF CallInv, StagesFit, Calling, Decided
<1>2. TypeOK'
  BY DEF CallInv, TypeOK, Calling, Answers
<1>3. StagesFit'
  BY <1>1 DEF CallInv, StagesFit, Calling, Decided
<1>4. PageInHand'
  BY DEF PageInHand
<1>5. SuccessGrounded'
  BY <1>1, Names DEF CallInv, SuccessGrounded, Grounded
<1>6. BlameGrounded'
  <2>1. call.council # "new-forest" =>
          Warranted(call.council, result, met') /\ Warranted(call.council, answer.outcome, met')
    BY Warrants DEF CallInv, BlameGrounded
  <2>2. answer'.outcome \in {answer.outcome, result, "ADAPTER_ERROR", "rejected"}
    OBVIOUS
  <2> QED
    BY <2>1, <2>2, WarrantFacts DEF BlameGrounded
<1> QED
  BY <1>2, <1>3, <1>4, <1>5, <1>6 DEF CallInv

LEMMA CleanedUpStep ==
  ASSUME CallInv, CleanedUp
  PROVE  CallInv'
<1>1. at \in {"cleaning", "cleaningAgain"} /\ at' = "done" /\ met' = met /\ Called
      /\ met \subseteq Trouble \cup Status \cup Page /\ result \in Outcome
  BY DEF CleanedUp, CallInv, TypeOK, StagesFit, Decided, Called
<1>2. answer' \in Answers /\ answer'.outcome \in {result, "ADAPTER_ERROR"}
  <2>1. CASE at = "cleaning"
    BY <1>1, <2>1, AnsweredFacts DEF CleanedUp
  <2>2. CASE at # "cleaning"
    BY <2>2, Names DEF CleanedUp, NoAnswer, Answers
  <2> QED
    BY <2>1, <2>2
<1> QED
  BY <1>1, <1>2, CleanupStep DEF CleanedUp

LEMMA CleanupFailsStep ==
  ASSUME CallInv, CleanupFails
  PROVE  CallInv'
<1>1. at \in {"cleaning", "cleaningAgain"} /\ met \subseteq met'
      /\ met' \subseteq Trouble \cup Status \cup Page
  BY Names DEF CleanupFails, CallInv, TypeOK
<1>2. CASE at' = "cleaningAgain"
  BY <1>1, <1>2, CleanupStep DEF CleanupFails
<1>3. CASE at' # "cleaningAgain"
  <2>1. answer' \in Answers /\ answer'.outcome \in {"ADAPTER_ERROR", "rejected"}
    BY <1>3, Names DEF CleanupFails, NoAnswer, Answers
  <2> QED
    BY <1>1, <1>3, <2>1, CleanupStep DEF CleanupFails
<1> QED
  BY <1>2, <1>3

LEMMA NextCallInv == CallInv /\ [Next]_vars => CallInv'
<1> SUFFICES ASSUME CallInv, [Next]_vars PROVE CallInv'
  OBVIOUS
<1>1. CASE Refuse \/ Ask
  BY <1>1, RefuseStep, AskStep
<1>2. ASSUME NEW s \in Status, HeadersArrive(s)
      PROVE  CallInv'
  BY <1>2, HeadersStep
<1>3. ASSUME NEW p \in Page \ {"away"}, BodyArrives(p)
      PROVE  CallInv'
  BY <1>3, BodyStep
<1>4. CASE Refused \/ TimerFires \/ BodyCut
  <2>1. at \in {"asking", "reading"} /\ call.council \in Fetchers
    BY <1>4 DEF Refused, TimerFires, BodyCut, CallInv, StagesFit
  <2> QED
    BY <1>4, <2>1, FailsStep DEF Refused, TimerFires, BodyCut, Errors
<1>5. CASE Stored
  BY <1>5, StoredStep
<1>6. CASE StoreFails
  BY <1>6, FailsStep DEF StoreFails, Errors
<1>7. CASE Launched \/ BrowserFails \/ FormDone \/ ListAwaited
  BY <1>7, LaunchedStep, BrowserFailsStep, FormDoneStep, ListAwaitedStep
<1>8. ASSUME NEW trouble \in {"refused", "silent", "browser"}, NavigationFails(trouble)
      PROVE  CallInv'
  BY <1>8, NavigationFailsStep
<1>9. ASSUME NEW p \in Page, Navigated(p)
      PROVE  CallInv'
  BY <1>9, NavigatedStep
<1>10. CASE PageStored \/ PageStoreFails \/ CleanedUp \/ CleanupFails
  BY <1>10, PageStoredStep, PageStoreFailsStep, CleanedUpStep, CleanupFailsStep
<1>11. CASE UNCHANGED vars
  <2>1. Refusal' = Refusal /\ fetch' = fetch
    BY <1>11, CallKept DEF vars
  <2> QED
    BY <1>11, <2>1 DEF vars, CallInv, TypeOK, StagesFit, PageInHand, SuccessGrounded, Grounded,
      BlameGrounded
<1> QED
  BY <1>1, <1>2, <1>3, <1>4, <1>5, <1>6, <1>7, <1>8, <1>9, <1>10, <1>11
  DEF Next, Step, FetchStep, BrowserStep, Done

LEMMA CallInvHolds == Spec => []CallInv
<1>1. CallInv /\ [Next]_vars => CallInv'
  BY NextCallInv
<1> QED
  BY InitCallInv, <1>1, PTL DEF Spec

-----------------------------------------------------------------------------
(* Every call, at every stage, is well formed. *)
THEOREM CallTypes == Spec => []TypeOK
<1>1. CallInv => TypeOK
  BY DEF CallInv
<1> QED
  BY CallInvHolds, <1>1, PTL

(* An answer that blames the council, by a timeout, a status, a bot        *)
(* protection or a form of page, follows from what the council did in that *)
(* very call, whichever adapter and whatever else went wrong (Deserved     *)
(* says what each name rests on, and that Southampton's bot protection     *)
(* rests on no more than a body): verdicts of fetch<Council>Data,          *)
(* categoriseError, the finally of withBrowser.                            *)
THEOREM NoCouncilIsBlamedFalsely == Spec => []BlameIsDeserved
<1>1. CallInv => BlameIsDeserved
  BY DEF CallInv, BlameGrounded, BlameIsDeserved
<1> QED
  BY CallInvHolds, <1>1, PTL

(* A success of an adapter that keeps evidence rests on a body that        *)
(* arrived whole in this call and was stored, whichever order the adapter  *)
(* stores and judges in.                                                   *)
THEOREM NoSuccessWithoutAPage == Spec => []SuccessRestsOnAPage
<1>1. CallInv => SuccessRestsOnAPage
  BY DEF CallInv, SuccessGrounded, Grounded, SuccessRestsOnAPage
<1> QED
  BY CallInvHolds, <1>1, PTL

(* Mock data are shown for a failed call of the collections route exactly  *)
(* when its category is bot detection or a parse error (api/server.ts      *)
(* 1096): only of a council whose site refused this call, showed the page  *)
(* of its bot protection, or a body that nothing could be read from.  The  *)
(* exceptions are New Forest, whose adapter asks nobody, and Southampton,  *)
(* of which a good calendar may be replaced by mock data: of it only this  *)
(* much is true, that the site refused the call or sent a whole body.      *)
THEOREM MockDataNeedABlock ==
  Spec => [](answer.outcome \in {"BOT_DETECTION", "PARSE_ERROR"} =>
               \/ call.council = "new-forest"
               \/ {"forbidden", "block", "garbled"} \cap met # {}
               \/ call.council = "southampton" /\ (Page \ {"away"}) \cap met # {})
<1>1. BlameIsDeserved =>
        (answer.outcome \in {"BOT_DETECTION", "PARSE_ERROR"} =>
           \/ call.council = "new-forest"
           \/ {"forbidden", "block", "garbled"} \cap met # {}
           \/ call.council = "southampton" /\ (Page \ {"away"}) \cap met # {})
  BY DeservedFacts DEF BlameIsDeserved, Warranted
<1> QED
  BY NoCouncilIsBlamedFalsely, <1>1, PTL

-----------------------------------------------------------------------------
(* Health. *)

HealthEarned ==
  call.council \in KeepsEvidence /\ answer.status = "HEALTHY"
    => answer.outcome \in Success /\ Refusal = "ask"

HealthRestsOnAPage ==
  call.council \in KeepsEvidence /\ answer.status = "HEALTHY"
    => /\ stored
       /\ page \in met
       /\ page \in {"block", "garbled"} => call.council = "basingstoke-deane"

LEMMA HealthyTables ==
  ASSUME NEW c \in KeepsEvidence, NEW outcome, Health(c, outcome).status = "HEALTHY"
  PROVE  outcome \in Success
BY DEF Health, KeepsEvidence, Council, Browsers, Portals, Fetchers, HealthOf, RushmoorHealth,
       SouthamptonHealth, HartHealth, BasingstokeHealth, GosportHealth, FarehamHealth,
       EastleighHealth

(* A step leaves the answer alone, answers with an outcome, or reports no  *)
(* healthy council.                                                        *)
Tells ==
  \/ answer' = answer
  \/ \E o : Answered(o) /\ (Refusal = "ask" \/ o = Refusal)
  \/ answer'.status # "HEALTHY"

LEMMA FinishTells == \A o : Finish(o) /\ Refusal = "ask" => Tells
BY DEF Finish, Tells

LEMMA StepTells ==
  ASSUME CallInv, [Next]_vars
  PROVE  Tells /\ call' = call
<1>1. at \in Calling => Refusal = "ask"
  BY DEF CallInv, StagesFit
<1>2. CASE Refuse
  BY <1>2 DEF Refuse, Tells
<1>3. CASE Ask
  BY <1>3 DEF Ask, Tells
<1>4. ASSUME NEW trouble, at \in Calling, Fails(trouble) PROVE Tells /\ call' = call
  BY <1>1, <1>4, FinishTells DEF Fails
<1>5. ASSUME at \in Calling, NextList PROVE Tells
  BY <1>1, <1>5, FinishTells DEF NextList, Tells
<1>6. ASSUME NEW s \in Status, HeadersArrive(s) PROVE Tells /\ call' = call
  BY <1>1, <1>5, <1>6, FinishTells DEF HeadersArrive, Calling, Tells
<1>7. ASSUME at \in Calling, NEW v, NEW p, Decide(v, p) PROVE Tells
  BY <1>1, <1>5, <1>7, FinishTells DEF Decide, Tells
<1>8. ASSUME NEW p, BodyArrives(p) PROVE Tells /\ call' = call
  BY <1>1, <1>7, <1>8 DEF BodyArrives, Calling, Tells
<1>9. CASE Stored
  BY <1>1, <1>7, <1>9, FinishTells DEF Stored, Calling
<1>10. CASE Refused \/ TimerFires \/ BodyCut \/ StoreFails
  BY <1>4, <1>10 DEF Refused, TimerFires, BodyCut, StoreFails, Calling
<1>11. ASSUME at \in Calling, NEW category, TaskFails(category) PROVE Tells
  BY <1>1, <1>11, FinishTells DEF TaskFails
<1>12. CASE Launched
  BY <1>12 DEF Launched, Tells
<1>13. CASE BrowserFails
  BY <1>11, <1>13 DEF BrowserFails, Calling
<1>14. ASSUME NEW trouble, NavigationFails(trouble) PROVE Tells /\ call' = call
  BY <1>1, <1>11, <1>14, FinishTells DEF NavigationFails, Calling
<1>15. ASSUME NEW p, Navigated(p) PROVE Tells /\ call' = call
  BY <1>1, <1>15, FinishTells DEF Navigated, Calling, Tells
<1>16. CASE FormDone
  BY <1>1, <1>11, <1>16, FinishTells DEF FormDone, Calling
<1>17. CASE ListAwaited
  BY <1>1, <1>17, FinishTells DEF ListAwaited, Calling, Tells
<1>18. CASE PageStored \/ PageStoreFails
  BY <1>1, <1>18, FinishTells DEF PageStored, PageStoreFails, Calling
<1>19. CASE CleanedUp
  BY <1>1, <1>19 DEF CleanedUp, Calling, Tells, NoAnswer
<1>20. CASE CleanupFails
  BY <1>20 DEF CleanupFails, Tells, NoAnswer
<1>21. CASE Done \/ UNCHANGED vars
  BY <1>21 DEF Done, vars, Tells
<1> QED
  BY <1>2, <1>3, <1>6, <1>8, <1>9, <1>10, <1>12, <1>13, <1>14, <1>15, <1>16, <1>17, <1>18,
     <1>19, <1>20, <1>21 DEF Next, Step, FetchStep, BrowserStep

LEMMA HealthStep ==
  ASSUME CallInv, HealthEarned, [Next]_vars
  PROVE  HealthEarned'
<1>1. Tells /\ call' = call
  BY StepTells
<1>2. Refusal' = Refusal
  BY <1>1, CallKept
<1> SUFFICES ASSUME call.council \in KeepsEvidence, answer'.status = "HEALTHY"
             PROVE  answer'.outcome \in Success /\ Refusal = "ask"
  BY <1>1, <1>2 DEF HealthEarned
<1>3. CASE answer' = answer
  BY <1>3 DEF HealthEarned
<1>4. ASSUME NEW o, Answered(o), Refusal = "ask" \/ o = Refusal
      PROVE  answer'.outcome \in Success /\ Refusal = "ask"
  <2>1. call.op = "health" /\ Health(call.council, o).status = "HEALTHY" /\ answer'.outcome = o
    BY <1>4 DEF Answered, NoAnswer
  <2>2. o \in Success
    BY <2>1, HealthyTables
  <2>3. Refusal \in {"ADAPTER_ERROR", "ask"}
    BY <2>1 DEF Refusal, KeepsEvidence
  <2> QED
    BY <1>4, <2>1, <2>2, <2>3, Names
<1> QED
  BY <1>1, <1>3, <1>4 DEF Tells

(* A council of an adapter that keeps evidence is reported healthy only    *)
(* after a body of it arrived whole in this very check and was stored.     *)
(* (The checks of the other adapters do not look at what came.)            *)
THEOREM HealthyMeansAPageCame == Spec => []HealthRestsOnAPage
<1>1. Init => HealthEarned
  BY DEF Init, HealthEarned, NoAnswer
<1>2. CallInv /\ HealthEarned /\ [Next]_vars => HealthEarned'
  BY HealthStep
<1>3. CallInv /\ HealthEarned => HealthRestsOnAPage
  BY DEF CallInv, SuccessGrounded, Grounded, HealthEarned, HealthRestsOnAPage
<1> QED
  BY CallInvHolds, <1>1, <1>2, <1>3, PTL DEF Spec
=============================================================================
