----------------------------- MODULE CouncilCall -----------------------------
(***************************************************************************)
(* One call of one operation on one council adapter: the handler's checks, *)
(* the request or the browser, the council's answer in its two parts, the  *)
(* evidence, and the result the caller gets.  What the council and the     *)
(* machinery really did is recorded in met, which the code cannot see.     *)
(*                                                                         *)
(* Calls on one fetch adapter share nothing; what calls on one browser     *)
(* adapter share is BrowserAdapter's subject.                              *)
(***************************************************************************)
EXTENDS CouncilAdapters, Naturals

VARIABLES
  call,   \* the council, the operation, its input, and whether its kill switch is set
  at,     \* where the call is
  list,   \* which of the council's lists is asked for
  page,   \* the body that arrived
  stored, \* storeEvidence wrote the body
  met,    \* history: what happened to the call outside the adapter
  result, \* what the adapter decided, before cleanup()
  answer  \* what the caller got

vars == <<call, at, list, page, stored, met, result, answer>>

Trouble == {"refused", "silent", "cut", "unstored", "browser"}

Calling == {"asking", "reading", "storing", "launching", "navigating", "working",
            "cleaning", "cleaningAgain"}

TypeOK ==
  /\ call \in [council : Council, op : Op, input : Input, killed : BOOLEAN]
  /\ at \in {"idle", "done"} \cup Calling
  /\ list \in 1..2
  /\ page \in Page \cup {"none"}
  /\ stored \in BOOLEAN
  /\ met \subseteq Trouble \cup Status \cup Page
  /\ result \in Outcome \cup {"none"}
  /\ answer \in [outcome : Outcome \cup {"none", "rejected"},
                 status : {"none", "HEALTHY", "DEGRADED", "UNHEALTHY"},
                 reachable : BOOLEAN]

NoAnswer == [outcome |-> "none", status |-> "none", reachable |-> FALSE]

Init ==
  /\ call \in {c \in [council : Council, op : Op, input : Input, killed : BOOLEAN] :
                 c.op = "health" => c.input = "good"}
  /\ at = "idle"
  /\ list = 1
  /\ page = "none"
  /\ stored = FALSE
  /\ met = {}
  /\ result = "none"
  /\ answer = NoAnswer

-----------------------------------------------------------------------------
Table(resolve, services, events) ==
  [resolve |-> resolve, services |-> services, events |-> events]

Operations(c) ==
  CASE c = "rushmoor" -> Table(RushmoorResolve, RushmoorServices, RushmoorEvents)
    [] c = "southampton" -> Table(SouthamptonResolve, SouthamptonServices, SouthamptonEvents)
    [] c = "hart" -> Table(HartResolve, HartServices, HartEvents)
    [] c = "basingstoke-deane" ->
         Table(BasingstokeResolve, BasingstokeServices, BasingstokeEvents)
    [] c = "gosport" -> Table(GosportResolve, GosportServices, GosportEvents)
    [] c = "fareham" -> Table(FarehamResolve, FarehamServices, FarehamEvents)
    [] c = "east-hampshire" ->
         Table(EastHampshireResolve, EastHampshireServices, EastHampshireEvents)
    [] c = "eastleigh" -> Table(EastleighResolve, EastleighServices, EastleighEvents)
    [] c = "havant" -> Table(HavantResolve, HavantServices, HavantEvents)
    [] c = "portsmouth" -> Table(PortsmouthResolve, PortsmouthServices, PortsmouthEvents)
    [] c = "winchester" -> Table(WinchesterResolve, WinchesterServices, WinchesterEvents)
    [] c = "test-valley" -> Table(TestValleyResolve, TestValleyServices, TestValleyEvents)

Fetch(c) ==
  CASE c = "rushmoor" -> RushmoorFetch
    [] c = "southampton" -> SouthamptonFetch
    [] c = "hart" -> HartFetch
    [] c = "basingstoke-deane" -> BasingstokeFetch
    [] c = "gosport" -> GosportFetch
    [] c = "fareham" -> FarehamFetch
    [] c = "east-hampshire" -> EastHampshireFetch

Health(c, outcome) ==
  CASE c = "rushmoor" -> RushmoorHealth(outcome)
    [] c = "southampton" -> SouthamptonHealth(outcome)
    [] c = "hart" -> HartHealth(outcome)
    [] c = "basingstoke-deane" -> BasingstokeHealth(outcome)
    [] c = "gosport" -> GosportHealth(outcome)
    [] c = "fareham" -> FarehamHealth(outcome)
    [] c = "east-hampshire" -> EastHampshireHealth
    [] c = "new-forest" -> NewForestHealth
    [] c = "eastleigh" -> EastleighHealth(outcome)
    [] c = "havant" -> HavantHealth(outcome)
    [] c = "portsmouth" -> PortsmouthHealth(outcome)
    [] c = "winchester" -> WinchesterHealth(outcome)
    [] c = "test-valley" -> TestValleyHealth(outcome)

fetch == Fetch(call.council)
operation == Operations(call.council)[call.op]

Answered(outcome) ==
  answer' = IF call.op = "health"
            THEN [outcome |-> outcome,
                  status |-> Health(call.council, outcome).status,
                  reachable |-> Health(call.council, outcome).reachable]
            ELSE [NoAnswer EXCEPT !.outcome = outcome]

(* The operation has its result: an adapter with a browser goes on to      *)
(* cleanup(), the others return.                                           *)
Finish(outcome) ==
  /\ result' = outcome
  /\ IF call.council \in Browsers
     THEN at' = "cleaning" /\ UNCHANGED answer
     ELSE at' = "done" /\ Answered(outcome)

-----------------------------------------------------------------------------
(* Whether the operation, or the fetch it makes, looks at the kill switch. *)
ChecksKillSwitch ==
  \/ call.council \in Fetchers /\ fetch.kill
  \/ call.op # "health" /\ operation.kill

(* What an operation returns before it asks anybody. *)
Refusal ==
  IF call.council = "new-forest" THEN NewForestAnswer[call.input]
  ELSE IF call.op = "health"
  THEN IF call.council = "east-hampshire" THEN "some"
       ELSE IF call.killed /\ ChecksKillSwitch THEN "ADAPTER_ERROR" ELSE "ask"
  ELSE IF operation.takes[call.input] # "ask" THEN operation.takes[call.input]
  ELSE IF call.killed /\ ChecksKillSwitch THEN "ADAPTER_ERROR" ELSE "ask"

(* Validation, the kill switch, and the operations that need no council. *)
Refuse ==
  /\ at = "idle"
  /\ Refusal # "ask"
  /\ result' = Refusal
  /\ at' = "done"
  /\ Answered(Refusal)
  /\ UNCHANGED <<call, list, page, stored, met>>

Ask ==
  /\ at = "idle"
  /\ Refusal = "ask"
  /\ at' = IF call.council \in Fetchers THEN "asking" ELSE "launching"
  /\ UNCHANGED <<call, list, page, stored, met, result, answer>>

-----------------------------------------------------------------------------
(* Fetch adapters. *)

Fails(trouble) ==
  /\ met' = met \cup {trouble}
  /\ Finish(fetch.errors[trouble])
  /\ UNCHANGED <<call, list, page, stored>>

(* Fault: the loop does not end with the last dataset. *)
NextListPastTheLast ==
  /\ list' = list + 1
  /\ at' = "asking"
  /\ UNCHANGED <<result, answer>>

(* Fareham's loop over its datasets; after the last there is no data. *)
NextList ==
  \/ /\ list < fetch.lists
     /\ list' = list + 1
     /\ at' = "asking"
     /\ UNCHANGED <<result, answer>>
  \/ /\ list = fetch.lists
     /\ Finish("NOT_FOUND")
     /\ UNCHANGED list

(* The headers arrive: fetch() resolves. *)
HeadersArrive(s) ==
  /\ at = "asking"
  /\ met' = met \cup {s}
  /\ \/ s = "ok" /\ at' = "reading" /\ UNCHANGED <<list, result, answer>>
     \/ s # "ok" /\ fetch.status[s] = "next" /\ NextList
     \/ /\ s # "ok" /\ fetch.status[s] # "next"
        /\ Finish(fetch.status[s])
        /\ UNCHANGED list
  /\ UNCHANGED <<call, page, stored>>

Refused == at = "asking" /\ Fails("refused")

(* Fault: the signal is not passed to fetch(). *)
TimerFiresUnheard ==
  /\ at = "reading" /\ "body" \in fetch.timer
  /\ Fails("silent")

(* The AbortController's timer, which most adapters clear at the headers. *)
TimerFires ==
  /\ at = "asking" \/ (at = "reading" /\ "body" \in fetch.timer)
  /\ Fails("silent")

(* The body ends early, or stalls until the client gives up on it. *)
BodyCut == at = "reading" /\ Fails("cut")

(* What a page that was accepted leads to. *)
Shown(p) == IF call.op = "health" THEN {"some"} ELSE operation.shows[p]

Decide(verdict, p) ==
  \/ /\ verdict = "keep" /\ fetch.stores = "after"
     /\ at' = "storing"
     /\ UNCHANGED <<list, result, answer>>
  \/ /\ verdict = "keep" /\ fetch.stores # "after"
     /\ \E outcome \in Shown(p) : Finish(outcome)
     /\ UNCHANGED list
  \/ verdict = "next" /\ NextList
  \/ /\ verdict \notin {"keep", "next"}
     /\ Finish(verdict)
     /\ UNCHANGED list

(* response.text() resolves. *)
BodyArrives(p) ==
  /\ at = "reading"
  /\ page' = p
  /\ met' = met \cup {p}
  /\ \/ /\ fetch.stores = "before"
        /\ at' = "storing"
        /\ UNCHANGED <<list, result, answer>>
     \/ /\ fetch.stores # "before"
        /\ \E verdict \in fetch.reads[p] : Decide(verdict, p)
  /\ UNCHANGED <<call, stored>>

(* storeEvidence resolves. *)
Stored ==
  /\ at = "storing"
  /\ call.council \in Fetchers
  /\ stored' = TRUE
  /\ \/ /\ fetch.stores = "before"
        /\ \E verdict \in fetch.reads[page] : Decide(verdict, page)
     \/ /\ fetch.stores = "after"
        /\ \E outcome \in Shown(page) : Finish(outcome)
        /\ UNCHANGED list
  /\ UNCHANGED <<call, page, met>>

(* Fault: a body that could not be stored is used all the same. *)
StoreFailsSilently ==
  /\ at = "storing"
  /\ call.council \in Fetchers
  /\ \E outcome \in Shown(page) : Finish(outcome)
  /\ UNCHANGED <<call, list, page, stored, met>>

StoreFails == at = "storing" /\ call.council \in Fetchers /\ Fails("unstored")

-----------------------------------------------------------------------------
(* Adapters with a browser. *)

(* An error in the task, after its message was classified.  The portals'   *)
(* services and events forget the class.                                   *)
TaskFails(category) ==
  Finish(IF call.council \in Portals /\ call.op \in {"services", "events"}
         THEN "NOT_FOUND" ELSE category)

Launched ==
  /\ at = "launching"
  /\ at' = "navigating"
  /\ UNCHANGED <<call, list, page, stored, met, result, answer>>

(* Chromium does not start, or dies. *)
BrowserFails ==
  /\ at \in {"launching", "working"}
  /\ met' = met \cup {"browser"}
  /\ \E category \in {"ADAPTER_ERROR", "TIMEOUT"} : TaskFails(category)
  /\ UNCHANGED <<call, list, page, stored>>

GotoError(trouble) ==
  CASE trouble = "silent" -> {"TIMEOUT"}
    [] trouble = "refused" -> {"NETWORK_ERROR"}
    [] trouble = "browser" -> {"NETWORK_ERROR", "ADAPTER_ERROR"}

(* page.goto gives up.  The portals' verifyHealth takes that for an answer. *)
NavigationFails(trouble) ==
  /\ at = "navigating"
  /\ met' = met \cup {trouble}
  /\ IF call.op = "health" /\ call.council \in Portals THEN Finish("some")
     ELSE \E category \in GotoError(trouble) : TaskFails(category)
  /\ UNCHANGED <<call, list, page, stored>>

(* A page is loaded, whatever its HTTP status. *)
Navigated(p) ==
  /\ at = "navigating"
  /\ page' = p
  /\ met' = met \cup {p}
  /\ \/ /\ call.op = "health" /\ call.council \in Portals
        /\ Finish("some")
     \/ /\ call.op # "health" \/ call.council = "eastleigh"
        /\ at' = "working"
        /\ UNCHANGED <<result, answer>>
  /\ UNCHANGED <<call, list, stored>>

(* The portals fill in the form and read the results. *)
FormDone ==
  /\ at = "working"
  /\ call.council \in Portals
  /\ \E outcome \in operation.shows[page] :
       IF outcome \in Success THEN Finish(outcome)
       ELSE TaskFails(IF outcome = "failed" THEN "ADAPTER_ERROR" ELSE outcome)
  /\ UNCHANGED <<call, list, page, stored, met>>

(* Eastleigh waits for the list of collections. *)
ListAwaited ==
  /\ at = "working"
  /\ call.council = "eastleigh"
  /\ \E verdict \in EastleighPage[page] :
       \/ verdict = "keep" /\ at' = "storing" /\ UNCHANGED <<result, answer>>
       \/ verdict # "keep" /\ Finish(verdict)
  /\ UNCHANGED <<call, list, page, stored, met>>

PageStored ==
  /\ at = "storing"
  /\ call.council = "eastleigh"
  /\ stored' = TRUE
  /\ \E outcome \in Shown(page) : Finish(outcome)
  /\ UNCHANGED <<call, list, page, met>>

PageStoreFails ==
  /\ at = "storing"
  /\ call.council = "eastleigh"
  /\ met' = met \cup {"unstored"}
  /\ Finish("ADAPTER_ERROR")
  /\ UNCHANGED <<call, list, page, stored>>

(* cleanup() resolves; after a first cleanup() that failed, verifyHealth   *)
(* has caught that error.                                                  *)
CleanedUp ==
  /\ at \in {"cleaning", "cleaningAgain"}
  /\ at' = "done"
  /\ IF at = "cleaning" THEN Answered(result)
     ELSE answer' = [NoAnswer EXCEPT !.outcome = "ADAPTER_ERROR", !.status = "UNHEALTHY"]
  /\ UNCHANGED <<call, list, page, stored, met, result>>

(* cleanup() rejects, and so does the operation, in its finally; Eastleigh *)
(* tries again when it checks its health, the portals report.              *)
CleanupFails ==
  /\ at \in {"cleaning", "cleaningAgain"}
  /\ met' = met \cup {"browser"}
  /\ at' = IF at = "cleaning" /\ call.op = "health" /\ call.council = "eastleigh"
           THEN "cleaningAgain" ELSE "done"
  /\ answer' =
       IF at' = "cleaningAgain" THEN answer
       ELSE IF call.op = "health" /\ call.council \in Portals
       THEN [NoAnswer EXCEPT !.outcome = "ADAPTER_ERROR", !.status = "UNHEALTHY"]
       ELSE [NoAnswer EXCEPT !.outcome = "rejected"]
  /\ UNCHANGED <<call, list, page, stored, result>>

-----------------------------------------------------------------------------
Done == at = "done" /\ UNCHANGED vars

FetchStep ==
  \/ \E s \in Status : HeadersArrive(s)
  \/ \E p \in Page \ {"away"} : BodyArrives(p)
  \/ Refused \/ TimerFires \/ BodyCut \/ Stored \/ StoreFails

BrowserStep ==
  \/ Launched \/ BrowserFails
  \/ \E trouble \in {"refused", "silent", "browser"} : NavigationFails(trouble)
  \/ \E p \in Page : Navigated(p)
  \/ FormDone \/ ListAwaited \/ PageStored \/ PageStoreFails
  \/ CleanedUp \/ CleanupFails

Step == Refuse \/ Ask \/ FetchStep \/ BrowserStep

Next == Step \/ Done

(* The timers fire, the browser gives up on what stalls, and the evidence  *)
(* store answers.  Nothing is assumed of the council.                      *)
Fairness ==
  /\ WF_vars(Refuse \/ Ask)
  /\ WF_vars(TimerFires)
  /\ WF_vars(Stored \/ StoreFails \/ PageStored \/ PageStoreFails)
  /\ WF_vars(Launched \/ BrowserFails)
  /\ WF_vars(NavigationFails("silent"))
  /\ WF_vars(FormDone \/ ListAwaited)
  /\ WF_vars(CleanedUp \/ CleanupFails)

Spec == Init /\ [][Next]_vars /\ Fairness

-----------------------------------------------------------------------------
(* A category that blames the council is given only when the council did   *)
(* that during this call.  A portal may call its own browser, or a page    *)
(* without the lookup form, a timeout; Southampton may call whatever page  *)
(* it gets a bot protection; the other names are exact.                    *)
Deserved(c) ==
  [TIMEOUT |-> IF c \in Portals
               THEN {"silent", "browser", "odd", "garbled", "block", "away"}
               ELSE {"silent", "browser"},
   SERVER_ERROR |-> {"serverError"},
   CLIENT_ERROR |-> {"badRequest", "unauthorised", "forbidden", "notFound"},
   BOT_DETECTION |-> {"forbidden", "block"}
                     \cup IF c = "southampton" THEN Page \ {"away"} ELSE {},
   AUTH_REQUIRED |-> {"unauthorised", "forbidden"},
   SCHEMA_DRIFT |-> {"odd", "garbled", "block"},
   PARSE_ERROR |-> {"garbled", "block"}]

Warranted(c, outcome, seen) ==
  outcome \in DOMAIN Deserved(c) => Deserved(c)[outcome] \cap seen # {}

BlameIsDeserved ==
  call.council # "new-forest" => Warranted(call.council, answer.outcome, met)

(* An adapter that keeps evidence never reports the success of an          *)
(* operation that asked the council, nor a healthy council, without a body *)
(* that arrived whole in this call, that is the one stored, and that is no *)
(* bot protection's page (Basingstoke reads those as an empty schedule).   *)
KeepsEvidence == Council \ (Portals \cup {"east-hampshire", "new-forest"})

SuccessRestsOnAPage ==
  call.council \in KeepsEvidence /\ answer.outcome \in Success /\ Refusal = "ask"
    => /\ stored
       /\ page \in met
       /\ page \in {"block", "garbled"} => call.council = "basingstoke-deane"
       /\ answer.outcome = "some" /\ call.op # "health" => page # "empty"

(* A council that has begun a body sends the end of it, breaks off, or     *)
(* pauses for the 300 s after which undici gives up: it does not trickle   *)
(* for ever.                                                               *)
NoEndlessBody == WF_vars(BodyCut \/ \E p \in Page \ {"away"} : BodyArrives(p))

(* Every call returns or is rejected, whatever the council does, where a   *)
(* timer or the browser covers the whole answer.  The other adapters clear *)
(* their timer at the headers, and wait as long as a body goes on.         *)
CallsReturn ==
  /\ at \in Calling /\ call.council \in Browsers \cup {"fareham", "new-forest"} ~> at = "done"
  /\ NoEndlessBody => (at \in Calling ~> at = "done")
=============================================================================
