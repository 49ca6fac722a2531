--------------------------- MODULE CouncilAdapters ----------------------------
(***************************************************************************)
(* What the thirteen council adapters make of a request and of what the    *)
(* council answers (adapters/<council>/index.ts), as tables that           *)
(* CouncilCall steps through.  A table of pages gives the set of outcomes  *)
(* the page may lead to: a page stands for all pages of its kind.          *)
(***************************************************************************)
Portals == {"havant", "portsmouth", "winchester", "test-valley"}
Browsers == Portals \cup {"eastleigh"}
Fetchers == {"rushmoor", "southampton", "hart", "basingstoke-deane", "gosport",
             "fareham", "east-hampshire"}
Council == Browsers \cup Fetchers \cup {"new-forest"}

Op == {"resolve", "services", "events", "health"}

(* The id or postcode of a request; a health check brings its own. *)
Input == {"good", "malformed", "missing"}

Category ==
  {"TIMEOUT", "NETWORK_ERROR", "SERVER_ERROR", "CLIENT_ERROR", "NOT_FOUND",
   "AUTH_REQUIRED", "BOT_DETECTION", "SCHEMA_DRIFT", "PARSE_ERROR",
   "VALIDATION_ERROR", "ADAPTER_ERROR"}

(* A success shows entries or an empty list.  (That a range of dates may   *)
(* filter the entries is left out.)                                        *)
Success == {"some", "nothing"}
Outcome == Category \cup Success

Status == {"ok", "badRequest", "unauthorised", "forbidden", "notFound", "serverError"}

(* A body: of the expected form with collections, without, or with a date  *)
(* that is none; of another form; not readable at all; the page of a bot   *)
(* protection; at another site.                                            *)
Page == {"full", "empty", "badDate", "odd", "garbled", "block", "away"}

Takes(missing, malformed) == [good |-> "ask", missing |-> missing, malformed |-> malformed]

(* An operation: what it takes, whether it looks at the kill switch, and   *)
(* what it shows of a body that was kept.                                  *)
Operation(takes, kill, shows) == [takes |-> takes, kill |-> kill, shows |-> shows]

(* resolveAddresses of an adapter that hands the id back. *)
HandsBack(takes) == Operation([takes EXCEPT !.good = "some"], FALSE, <<>>)

(* What parsing shows of a page it accepts. *)
Shows(badDate, odd) ==
  [full |-> {"some"}, empty |-> {"nothing"}, badDate |-> badDate, odd |-> odd,
   garbled |-> {"nothing"}, block |-> {"nothing"}, away |-> {"nothing"}]

Kept == {"keep"}

(* verifyHealth of the adapters that fetch: a council is reachable unless  *)
(* the failure is called a network error.                                  *)
HealthOf(outcome, whenDown) ==
  [status |-> IF outcome \in Success THEN "HEALTHY" ELSE whenDown,
   reachable |-> outcome # "NETWORK_ERROR"]

-----------------------------------------------------------------------------
RushmoorResolve == HandsBack(Takes("NOT_FOUND", "some"))

(* An invalid date throws in toISOString; the services need no date. *)
RushmoorEventList == Shows({"ADAPTER_ERROR"}, {"nothing"})
RushmoorServiceList == Shows({"some"}, {"nothing"})

RushmoorServices == Operation(Takes("VALIDATION_ERROR", "ask"), FALSE, RushmoorServiceList)
RushmoorEvents == Operation(Takes("VALIDATION_ERROR", "ask"), FALSE, RushmoorEventList)

(* fetchRushmoorData.  An object without NextCollection is taken for an    *)
(* empty answer; null throws.                                              *)
RushmoorFetch ==
  [kill |-> TRUE, timer |-> {"headers"}, stores |-> "after", lists |-> 1,
   status |-> [notFound |-> "NOT_FOUND", serverError |-> "SERVER_ERROR",
               badRequest |-> "CLIENT_ERROR", unauthorised |-> "CLIENT_ERROR",
               forbidden |-> "CLIENT_ERROR"],
   reads |-> [full |-> Kept, empty |-> Kept, badDate |-> Kept,
              odd |-> Kept \cup {"ADAPTER_ERROR"},
              garbled |-> {"SCHEMA_DRIFT"}, block |-> {"SCHEMA_DRIFT"}],
   errors |-> [refused |-> "NETWORK_ERROR", silent |-> "TIMEOUT",
               cut |-> "ADAPTER_ERROR", unstored |-> "ADAPTER_ERROR"]]

RushmoorHealth(outcome) == HealthOf(outcome, "UNHEALTHY")

-----------------------------------------------------------------------------
SouthamptonResolve == HandsBack(Takes("NOT_FOUND", "some"))

(* A date is taken apart into numbers, and month 13 is the next January. *)
SouthamptonEventList == Shows({"some", "nothing"}, {"nothing"})

SouthamptonServices == Operation([i \in Input |-> "ADAPTER_ERROR"], FALSE, SouthamptonEventList)
SouthamptonEvents == Operation(Takes("VALIDATION_ERROR", "ask"), FALSE, SouthamptonEventList)

(* fetchSouthamptonData: a 403 is its bot protection, and so is a page     *)
(* that names Incapsula's script or has the robots mark noindex,nofollow,  *)
(* which any page may have: it is looked for before the calendar is.  A    *)
(* page without calendar is drift.                                         *)
SouthamptonFetch ==
  [RushmoorFetch EXCEPT
     !.status["forbidden"] = "BOT_DETECTION",
     !.reads = [p \in DOMAIN @ |->
                  {"BOT_DETECTION"} \cup
                    IF p \in {"full", "empty", "badDate"} THEN Kept ELSE {"SCHEMA_DRIFT"}]]

SouthamptonHealth(outcome) == HealthOf(outcome, "UNHEALTHY")

-----------------------------------------------------------------------------
HartResolve == HandsBack(Takes("NOT_FOUND", "VALIDATION_ERROR"))

HartEventList == Shows({"some", "nothing"}, {"nothing"})
HartServiceList == HartEventList

HartServices == Operation(Takes("VALIDATION_ERROR", "VALIDATION_ERROR"), TRUE, HartServiceList)
HartEvents == Operation(Takes("VALIDATION_ERROR", "VALIDATION_ERROR"), TRUE, HartEventList)

(* fetchCollectionData keeps the body before it looks at it, and calls     *)
(* every error but the abort a network error.                              *)
HartFetch ==
  [kill |-> FALSE, timer |-> {"headers"}, stores |-> "before", lists |-> 1,
   status |-> [s \in Status \ {"ok"} |->
                 IF s = "serverError" THEN "SERVER_ERROR" ELSE "CLIENT_ERROR"],
   reads |-> [full |-> Kept, empty |-> Kept, badDate |-> Kept,
              odd |-> {"SCHEMA_DRIFT", "NOT_FOUND"},
              garbled |-> {"PARSE_ERROR"}, block |-> {"PARSE_ERROR"}],
   errors |-> [refused |-> "NETWORK_ERROR", silent |-> "TIMEOUT",
               cut |-> "NETWORK_ERROR", unstored |-> "NETWORK_ERROR"]]

HartHealth(outcome) == HealthOf(outcome, "UNHEALTHY")

-----------------------------------------------------------------------------
BasingstokeResolve == HandsBack(Takes("NOT_FOUND", "VALIDATION_ERROR"))

(* parseCollectionHtml looks for five divisions in whatever page it gets. *)
BasingstokeDivisions == Shows({"some", "nothing"}, {"some", "nothing"})
BasingstokeEventList == BasingstokeDivisions
BasingstokeServiceList == BasingstokeEventList

BasingstokeServices ==
  Operation(Takes("VALIDATION_ERROR", "VALIDATION_ERROR"), TRUE, BasingstokeServiceList)
BasingstokeEvents ==
  Operation(Takes("VALIDATION_ERROR", "VALIDATION_ERROR"), TRUE, BasingstokeEventList)

BasingstokeFetch == [HartFetch EXCEPT !.reads = [p \in DOMAIN @ |-> Kept]]

BasingstokeHealth(outcome) == HealthOf(outcome, "UNHEALTHY")

-----------------------------------------------------------------------------
(* Gosport is asked by postcode: resolveAddresses hands the postcode back. *)
GosportResolve == HandsBack(Takes("VALIDATION_ERROR", "some"))

(* A date that cannot be read is skipped, but null is 1970-01-01. *)
GosportEventList == Shows({"some", "nothing"}, {"some", "nothing"})
GosportServiceList == Shows({"some"}, {"some", "ADAPTER_ERROR"})

GosportServices == Operation(Takes("VALIDATION_ERROR", "ask"), FALSE, GosportServiceList)
GosportEvents == Operation(Takes("VALIDATION_ERROR", "ask"), FALSE, GosportEventList)

(* fetchSupatrakData.  An array is kept whatever its elements are. *)
GosportFetch ==
  [RushmoorFetch EXCEPT
     !.status["unauthorised"] = "AUTH_REQUIRED",
     !.status["forbidden"] = "AUTH_REQUIRED",
     !.reads["odd"] = Kept \cup {"SCHEMA_DRIFT"}]

GosportHealth(outcome) == HealthOf(outcome, "UNHEALTHY")

-----------------------------------------------------------------------------
(* A collection shows if its label is a single word, and as a service if it*)
(* is refuse, recycling or garden waste, with a date or without.           *)
FarehamEventList ==
  [p \in Page |-> IF p \in {"full", "badDate"} THEN {"some", "nothing"} ELSE {"nothing"}]
FarehamServiceList == FarehamEventList

(* resolveAddresses lists the rows; the others find their row among them,  *)
(* or do not.                                                              *)
FarehamResolve ==
  Operation(Takes("VALIDATION_ERROR", "ask"), TRUE, Shows({"some"}, {"nothing"}))
FarehamRow(shows) == [p \in DOMAIN shows |-> shows[p] \cup {"NOT_FOUND"}]
FarehamServices ==
  Operation(Takes("VALIDATION_ERROR", "VALIDATION_ERROR"), FALSE, FarehamRow(FarehamServiceList))
FarehamEvents ==
  Operation(Takes("VALIDATION_ERROR", "VALIDATION_ERROR"), FALSE, FarehamRow(FarehamEventList))

(* fetchFarehamData asks for the new dataset, then for the old one, under  *)
(* one timer that also covers the bodies.                                  *)
FarehamFetch ==
  [kill |-> TRUE, timer |-> {"headers", "body"}, stores |-> "after", lists |-> 2,
   status |-> [s \in Status \ {"ok"} |-> IF s = "notFound" THEN "next" ELSE "ADAPTER_ERROR"],
   reads |-> [full |-> Kept, empty |-> {"next"}, badDate |-> Kept,
              odd |-> {"next", "ADAPTER_ERROR"},
              garbled |-> {"ADAPTER_ERROR"}, block |-> {"ADAPTER_ERROR"}],
   errors |-> [refused |-> "NETWORK_ERROR", silent |-> "TIMEOUT",
               cut |-> "ADAPTER_ERROR", unstored |-> "ADAPTER_ERROR"]]

FarehamHealth(outcome) == HealthOf(outcome, "DEGRADED")

-----------------------------------------------------------------------------
(* A postcode outside GU30-GU35 has no area. *)
EastHampshireResolve == HandsBack(Takes("NOT_FOUND", "NOT_FOUND"))

(* parsePdfCalendar looks for each date, written the ISO way, in a text    *)
(* that may write it otherwise, and skips it if it is not there.           *)
PdfEntries == [Shows({"nothing"}, {"nothing"}) EXCEPT !["full"] = {"some", "nothing"}]

(* An unknown area throws, like the kill switch. *)
EastHampshireServices == Operation(Takes("ADAPTER_ERROR", "ADAPTER_ERROR"), FALSE, PdfEntries)
EastHampshireEvents == Operation(Takes("ADAPTER_ERROR", "ADAPTER_ERROR"), FALSE, PdfEntries)

(* downloadPdf, parsePdfCalendar and handleError: a failure of any kind is *)
(* the adapter's, and the file is not kept.                                *)
EastHampshireFetch ==
  [kill |-> TRUE, timer |-> {"headers"}, stores |-> "never", lists |-> 1,
   status |-> [s \in Status \ {"ok"} |-> "ADAPTER_ERROR"],
   reads |-> [p \in Page \ {"away"} |->
                IF p \in {"full", "empty", "badDate"} THEN Kept ELSE {"ADAPTER_ERROR"}],
   errors |-> [e \in {"refused", "silent", "cut", "unstored"} |-> "ADAPTER_ERROR"]]

(* verifyHealth looks a postcode up in its own table and asks nobody. *)
EastHampshireHealth == [status |-> "HEALTHY", reachable |-> TRUE]

NewForestAnswer == [i \in Input |-> "BOT_DETECTION"]
NewForestHealth == [status |-> "DEGRADED", reachable |-> FALSE]

-----------------------------------------------------------------------------
(* Browser adapters.  A message is classified by the words in it; that of  *)
(* a missing form field has none of them, a missing button is waited for.  *)
FormFails == {"ADAPTER_ERROR", "TIMEOUT"}

(* A page that is not the lookup page: a form fails, or is not needed and  *)
(* the page is searched for entries.                                       *)
WithForm(entries) ==
  [p \in Page |-> CASE p \in {"full", "badDate"} -> {"some"}
                    [] p = "empty" -> {"nothing"}
                    [] p = "away" -> {"ADAPTER_ERROR"}
                    [] OTHER -> FormFails \cup entries]

Anything == {"some", "nothing"}

WinchesterAddresses == WithForm(Anything)
PortsmouthAddresses == WithForm(Anything)
TestValleyAddresses == WithForm(Anything)

(* Links without a radio button are waited for until the timeout, and the  *)
(* site is not looked at after the navigation.                             *)
HavantAddresses == [WithForm(Anything) EXCEPT !["away"] = FormFails \cup Anything]

PortalResolve(addresses) ==
  Operation(Takes("VALIDATION_ERROR", "VALIDATION_ERROR"), TRUE, addresses)
WinchesterResolve == PortalResolve(WinchesterAddresses)
PortsmouthResolve == PortalResolve(PortsmouthAddresses)
TestValleyResolve == PortalResolve(TestValleyAddresses)
HavantResolve == PortalResolve(HavantAddresses)

(* parseCollectionSchedule shows whatever looks like a service and a date; *)
(* a page without is a success without entries.                            *)
Schedule == [p \in Page |-> CASE p = "full" -> {"some"}
                              [] p = "empty" -> {"nothing"}
                              [] p = "badDate" -> Anything
                              [] OTHER -> Anything \cup {"failed"}]
WinchesterSchedule == [Schedule EXCEPT !["away"] = {"failed"}]
PortsmouthSchedule == [Schedule EXCEPT !["away"] = {"failed"}]
TestValleySchedule == [Schedule EXCEPT !["away"] = {"failed"}]
HavantSchedule == Schedule

PortalRead(schedule) == Operation(Takes("ask", "ask"), FALSE, schedule)
WinchesterServices == PortalRead(WinchesterSchedule)
WinchesterEvents == PortalRead(WinchesterSchedule)
PortsmouthServices == PortalRead(PortsmouthSchedule)
PortsmouthEvents == PortalRead(PortsmouthSchedule)
TestValleyServices == PortalRead(TestValleySchedule)
TestValleyEvents == PortalRead(TestValleySchedule)
HavantServices == PortalRead(HavantSchedule)
HavantEvents == PortalRead(HavantSchedule)

(* verifyHealth.  The task returns whether the navigation succeeded, and   *)
(* that it returned is what counts.                                        *)
WinchesterHealth(outcome) == HealthOf(outcome, "UNHEALTHY")
PortsmouthHealth(outcome) == HealthOf(outcome, "UNHEALTHY")
TestValleyHealth(outcome) == HealthOf(outcome, "UNHEALTHY")
HavantHealth(outcome) ==
  IF outcome \in Success THEN [status |-> "DEGRADED", reachable |-> TRUE]
                         ELSE [status |-> "UNHEALTHY", reachable |-> FALSE]

EastleighResolve == HandsBack(Takes("NOT_FOUND", "VALIDATION_ERROR"))

EastleighEventList == Shows(Anything, {"nothing"})
EastleighServiceList == EastleighEventList

EastleighServices ==
  Operation(Takes("VALIDATION_ERROR", "VALIDATION_ERROR"), TRUE, EastleighServiceList)
EastleighEvents ==
  Operation(Takes("VALIDATION_ERROR", "VALIDATION_ERROR"), TRUE, EastleighEventList)

(* Fault: the words are tried in another order, and the message of the     *)
(* challenge has the word timeout in it.                                   *)
EastleighPageTimeoutFirst ==
  [p \in Page |-> CASE p \in {"full", "empty", "badDate"} -> Kept
                    [] p = "block" -> {"TIMEOUT"}
                    [] OTHER -> {"NOT_FOUND"}]

(* fetchEastleighData: a page without the list of collections is a UPRN    *)
(* that is not there, unless it shows Cloudflare's challenge.              *)
EastleighPage ==
  [p \in Page |-> CASE p \in {"full", "empty", "badDate"} -> Kept
                    [] p = "block" -> {"BOT_DETECTION"}
                    [] OTHER -> {"NOT_FOUND"}]

EastleighHealth(outcome) == HealthOf(outcome, "UNHEALTHY")
=============================================================================
