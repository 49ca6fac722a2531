---------------------------- MODULE LookupService ----------------------------
(***************************************************************************)
(* The public routes of api/server.ts that reach an adapter -- addresses   *)
(* of a postcode, collections and services of a property -- over the       *)
(* adapter registry and services/uprn-resolution.ts.                       *)
(*                                                                         *)
(* A request is a Fastify handler; an action is the code between two       *)
(* awaits.  Adapters, postcodes.io and OS Places are external: they answer *)
(* late or with anything their callers distinguish.  An adapter call that  *)
(* lost the race against its timer goes on running.                        *)
(***************************************************************************)
EXTENDS AdapterRegistry

CONSTANTS Request, None

VARIABLES
  at,      \* where the handler of each request is
  route,   \* which handler it is
  council, \* the council whose adapter it called
  got,     \* what that adapter call returned to the handler
  reply,   \* the response
  busy     \* requests whose adapter call has not returned

requestVars == <<at, route, council, got, reply, busy>>
lookupVars == <<registryVars, requestVars>>

(* syntheticCollections are the collections of a property whose id was made *)
(* up by generateSyntheticAddresses.                                       *)
Routes == {"byCouncil", "byPostcode", "collections", "syntheticCollections", "services"}
Collections == {"collections", "syntheticCollections"}

(* What the handlers tell apart in an adapter's result: "good" is a        *)
(* success with data and a confidence of at least 0.8, "weak" any other    *)
(* success, "blocked" a failure by bot detection or parse error, "failed"  *)
(* any other failure, "thrown" an exception.                               *)
Result == {"good", "weak", "blocked", "failed", "thrown"}

(* 200 responses are named by where their data comes from. *)
Reply == {"adapter", "osPlaces", "synthetic", "mock", "400", "404", "500", "503", "lost"}

ASSUME LookupAssumption ==
  None \notin Council /\ None \notin Routes /\ None \notin Result /\ None \notin Reply

LookupTypeOK ==
  /\ RegistryTypeOK
  /\ at \in [Request -> {"idle", "detecting", "calling", "resolving", "places", "done"}]
  /\ route \in [Request -> Routes \cup {None}]
  /\ council \in [Request -> Council \cup {None}]
  /\ got \in [Request -> Result \cup {None}]
  /\ reply \in [Request -> Reply \cup {None}]
  /\ busy \subseteq Request

RequestInit ==
  /\ at = [r \in Request |-> "idle"]
  /\ route = [r \in Request |-> None]
  /\ council = [r \in Request |-> None]
  /\ got = [r \in Request |-> None]
  /\ reply = [r \in Request |-> None]
  /\ busy = {}

LookupInit == RegistryInit /\ RequestInit

-----------------------------------------------------------------------------
GoTo(r, label) == at' = [at EXCEPT ![r] = label] /\ UNCHANGED reply

Answer(r, response) ==
  /\ at' = [at EXCEPT ![r] = "done"]
  /\ reply' = [reply EXCEPT ![r] = response]

(* getAdapter returns, and one of the adapter's methods is called. *)
CallAdapter(r, k) ==
  /\ Available(k)
  /\ council' = [council EXCEPT ![r] = k]
  /\ busy' = busy \cup {r}
  /\ GoTo(r, "calling")

(* A request that names its council is refused or goes to the adapter.     *)
CallNamedCouncil(r, k) ==
  \/ /\ ~Has(k)
     /\ Answer(r, "503")
     /\ UNCHANGED <<council, busy>>
  \/ /\ Has(k)
     /\ CallAdapter(r, k)

(* The routes with a councilId: addresses?councilId=, collections, services. *)
ReceiveForCouncil(r, k) ==
  /\ at[r] = "idle"
  /\ route' \in {[route EXCEPT ![r] = s] : s \in Routes \ {"byPostcode"}}
  /\ CallNamedCouncil(r, k)
  /\ UNCHANGED <<registryVars, got>>

(* isCouncilSupported says yes and getAdapter throws: over a kill switch,  *)
(* or because the file, which each of them reads, was edited in between.   *)
ReceiveWhileSwitchedOff(r, k) ==
  /\ at[r] = "idle" /\ Has(k)
  /\ route' \in {[route EXCEPT ![r] = s] : s \in Routes \ {"byPostcode"}}
  /\ configFile' \in ConfigFile
  /\ UNCHANGED <<env, registered>>
  /\ Killed(env, k) \/ Off(configFile', k)
  /\ Answer(r, "500")
  /\ UNCHANGED <<council, got, busy>>

(* A postcode or propertyId the handler's own format check refuses. *)
ReceiveMalformed(r) ==
  /\ at[r] = "idle"
  /\ route' \in {[route EXCEPT ![r] = s] : s \in Routes}
  /\ Answer(r, "400")
  /\ UNCHANGED <<registryVars, council, got, busy>>

(* addresses without a councilId.  A postcode without its space passes the *)
(* route's format check and no other: the council is not looked up, and    *)
(* resolvePostcodeToUprn refuses it.                                       *)
ReceivePostcode(r) ==
  /\ at[r] = "idle"
  /\ route' = [route EXCEPT ![r] = "byPostcode"]
  /\ GoTo(r, "detecting") \/ Answer(r, "400")
  /\ UNCHANGED <<registryVars, council, got, busy>>

(* determineCouncilFromPostcode returns a council, null or an error.  The  *)
(* adapter call is raced against a timer of 15 s.  A council that is not   *)
(* supported, and one getAdapter throws over, are passed over.             *)
Detected(r) ==
  /\ at[r] = "detecting"
  /\ \/ \E k \in Council : Has(k) /\ CallAdapter(r, k)
     \/ GoTo(r, "resolving") /\ UNCHANGED <<council, busy>>
  /\ UNCHANGED <<registryVars, route, got>>

(* Fault: success is enough, whatever the confidence. *)
RespondToWeak(r, result) ==
  /\ route[r] = "byPostcode"
  /\ IF result \in {"good", "weak"} THEN Answer(r, "adapter") ELSE GoTo(r, "resolving")

(* addresses without a councilId: anything but a good result falls back. *)
RespondByPostcode(r, result) ==
  /\ route[r] = "byPostcode"
  /\ IF result = "good" THEN Answer(r, "adapter") ELSE GoTo(r, "resolving")

(* addresses?councilId= and services. *)
RespondNamed(r, result) ==
  /\ route[r] \in {"byCouncil", "services"}
  /\ Answer(r, CASE result \in {"good", "weak"} -> "adapter"
                 [] result \in {"blocked", "failed"} -> "503"
                 [] result = "thrown" -> "500")

(* collections: of a blocked council mock data is shown.  Its dates are    *)
(* seeded with the number that the last four characters of the local id    *)
(* begin with.  A synthetic id has none there, and another one may have    *)
(* none: then the dates are invalid, and toISOString throws.               *)
RespondCollections(r, result) ==
  /\ route[r] \in Collections
  /\ \/ result \in {"good", "weak"} /\ Answer(r, "adapter")
     \/ result = "blocked" /\ route[r] = "collections" /\ Answer(r, "mock")
     \/ result \in {"blocked", "thrown"} /\ Answer(r, "500")
     \/ result = "failed" /\ Answer(r, "503")

(* The adapter call returns to a handler that still waits for it. *)
AdapterReturns(r, result) ==
  /\ r \in busy /\ at[r] = "calling"
  /\ busy' = busy \ {r}
  /\ got' = [got EXCEPT ![r] = result]
  /\ RespondByPostcode(r, result) \/ RespondNamed(r, result) \/ RespondCollections(r, result)
  /\ UNCHANGED <<registryVars, route, council>>

(* It returns after the timer: the race is over and nobody looks. *)
AdapterReturnsLate(r) ==
  /\ r \in busy /\ at[r] # "calling"
  /\ busy' = busy \ {r}
  /\ UNCHANGED <<registryVars, at, route, council, got, reply>>

(* Fault: the adapter is awaited before the race begins. *)
TimerFiresAfterReturn(r) ==
  /\ at[r] = "calling" /\ route[r] = "byPostcode" /\ r \notin busy
  /\ GoTo(r, "resolving")
  /\ UNCHANGED <<registryVars, route, council, got, busy>>

(* "Adapter timeout": caught, and the handler falls back. *)
TimerFires(r) ==
  /\ at[r] = "calling" /\ route[r] = "byPostcode"
  /\ GoTo(r, "resolving")
  /\ UNCHANGED <<registryVars, route, council, got, busy>>

(* resolvePostcodeToUprn: postcodes.io is asked once more. *)
Resolved(r) ==
  /\ at[r] = "resolving"
  /\ \/ \E response \in {"404", "503", "500"} : Answer(r, response)
     \/ env.osKey /\ GoTo(r, "places")
     \/ ~env.osKey /\ Answer(r, "synthetic")
  /\ UNCHANGED <<registryVars, route, council, got, busy>>

(* OS Places has delivery points, only other records, or no answer. *)
PlacesReturns(r) ==
  /\ at[r] = "places"
  /\ \E response \in {"osPlaces", "404", "synthetic"} : Answer(r, response)
  /\ UNCHANGED <<registryVars, route, council, got, busy>>

(* The process ends, and is started again. *)
DropRequests ==
  /\ at' = [r \in Request |-> IF at[r] = "idle" THEN "idle" ELSE "done"]
  /\ reply' = [r \in Request |-> IF at[r] \in {"idle", "done"} THEN reply[r] ELSE "lost"]
  /\ busy' = {}
  /\ UNCHANGED <<route, council, got>>

Edit == EditConfig /\ UNCHANGED requestVars

Restart == RegistryRestart /\ DropRequests

-----------------------------------------------------------------------------
Handle(r) == Detected(r) \/ TimerFires(r) \/ Resolved(r) \/ PlacesReturns(r)

RequestNext(r) ==
  \/ \E k \in Council : ReceiveForCouncil(r, k) \/ ReceiveWhileSwitchedOff(r, k)
  \/ ReceiveMalformed(r) \/ ReceivePostcode(r)
  \/ \E result \in Result : AdapterReturns(r, result)
  \/ AdapterReturnsLate(r)
  \/ Handle(r)

LookupNext == (\E r \in Request : RequestNext(r)) \/ Edit \/ Restart

LookupSpec == LookupInit /\ [][LookupNext]_lookupVars

(* The fetches of uprn-resolution.ts are aborted after 10 s until their    *)
(* headers arrive, and undici gives up a body that pauses for 300 s: it is *)
(* assumed of postcodes.io and OS Places that a body they began ends or    *)
(* pauses so long.  The race has a timer of 15 s.  Nothing is assumed of   *)
(* the adapters.                                                           *)
FairLookupSpec == LookupSpec /\ \A r \in Request : WF_lookupVars(Handle(r))

-----------------------------------------------------------------------------
(* No request, on any route, starts a call on an adapter that a kill       *)
(* switch of this process or a readable file says is off, whatever was     *)
(* edited since the process started.  Three checks stand before a call:    *)
(* register() at the start, isCouncilSupported, which does not look at the *)
(* switches, and get(), which looks at everything once more.               *)
OnlyAvailableCalled ==
  [][\A r \in Request : r \in busy' \ busy => SwitchedOn(council'[r])]_lookupVars

(* A request is answered once: not again by a late adapter, nor by a timer *)
(* that fires after the answer.                                            *)
AnsweredOnce ==
  [][\A r \in Request : at[r] = "done" => at'[r] = "done" /\ reply'[r] = reply[r]]_lookupVars

(* "Adapter-first resolution": addresses found by postcode are attributed  *)
(* to the adapter exactly if it returned a good result before the timer;   *)
(* everything else the client sees is told apart from it.                  *)
SourceHonest ==
  \A r \in Request :
    /\ reply[r] = "adapter" =>
         got[r] \in IF route[r] = "byPostcode" THEN {"good"} ELSE {"good", "weak"}
    /\ reply[r] = "mock" => route[r] \in Collections /\ got[r] = "blocked"
    /\ reply[r] \in {"osPlaces", "synthetic"} => route[r] = "byPostcode" /\ got[r] # "good"

(* A lookup by postcode is answered even if the adapter never returns. *)
PostcodeIsAnswered ==
  \A r \in Request : at[r] = "detecting" ~> at[r] = "done"

=============================================================================
