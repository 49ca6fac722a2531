--------------------------- MODULE ApiServerProofs ---------------------------
(***************************************************************************)
(* Proofs about AdapterRegistry, LookupService, AdminService and their     *)
(* composition ApiServer, for every number of councils, set of             *)
(* environments, set of requests and set of checks.                        *)
(***************************************************************************)
EXTENDS ApiServer, TLAPS

(***************************************************************************)
(* The registry.  Its map never holds an adapter a kill switch of this     *)
(* process is on for, because register() looks at the switches.  get()     *)
(* looks at them again; has(), which does not, agrees with it all the same.*)
(***************************************************************************)
KilledNotRegistered ==
  /\ registered \cap env.killed = {}
  /\ env.global => registered = {}

RegistryInv == RegistryTypeOK /\ KilledNotRegistered

LEMMA RegisterRespectsSwitches ==
  ASSUME NEW e \in Envs, NEW file
  PROVE  /\ Register(e, file) \subseteq Council
         /\ Register(e, file) \cap e.killed = {}
         /\ e.global => Register(e, file) = {}
BY DEF Register, Killed

LEMMA RegistryInitInv == RegistryInit => RegistryInv
<1> SUFFICES ASSUME RegistryInit PROVE RegistryInv
  OBVIOUS
<1>1. env \in Envs /\ configFile \in ConfigFile /\ registered = Register(env, configFile)
  BY DEF RegistryInit
<1> QED
  BY <1>1, RegisterRespectsSwitches DEF RegistryInv, RegistryTypeOK, KilledNotRegistered

LEMMA EditKeepsRegistry ==
  ASSUME RegistryInv, EditConfig
  PROVE  RegistryInv'
BY DEF RegistryInv, RegistryTypeOK, KilledNotRegistered, EditConfig

LEMMA RestartKeepsRegistry ==
  ASSUME RegistryInv, RegistryRestart
  PROVE  RegistryInv'
<1>1. /\ env' \in Envs
      /\ registered' = Register(env', configFile)
      /\ configFile' = configFile
  BY DEF RegistryRestart
<1> QED
  BY <1>1, RegisterRespectsSwitches DEF RegistryInv, RegistryTypeOK, KilledNotRegistered

LEMMA StandStillKeepsRegistry ==
  ASSUME RegistryInv, UNCHANGED registryVars
  PROVE  RegistryInv'
BY DEF RegistryInv, RegistryTypeOK, KilledNotRegistered, registryVars

(* What isCouncilSupported says yes to, getAdapter returns, as long as the *)
(* file is the same.                                                       *)
LEMMA HasIsAvailable ==
  ASSUME RegistryInv, NEW k \in Council, Has(k)
  PROVE  Available(k)
BY DEF RegistryInv, KilledNotRegistered, Has, Available, Killed

(* And what getAdapter returns is switched on: get() makes sure itself.    *)
LEMMA AvailableIsSwitchedOn ==
  ASSUME NEW k, Available(k)
  PROVE  SwitchedOn(k)
BY DEF Available, Killed, Has, SwitchedOn

-----------------------------------------------------------------------------
(***************************************************************************)
(* Public requests.                                                        *)
(***************************************************************************)
Labels == {"idle", "detecting", "calling", "resolving", "places", "done"}

RequestTypeOK ==
  /\ at \in [Request -> Labels]
  /\ route \in [Request -> Routes \cup {None}]
  /\ council \in [Request -> Council \cup {None}]
  /\ got \in [Request -> Result \cup {None}]
  /\ reply \in [Request -> Reply \cup {None}]
  /\ busy \subseteq Request

(* A request that has not been answered has no reply; nothing is got       *)
(* before the call returns; only the route by postcode looks a council up  *)
(* and falls back, and it does not fall back behind a good answer.         *)
RequestSound ==
  \A r \in Request :
    /\ at[r] # "done" => reply[r] = None
    /\ at[r] \in {"idle", "detecting", "calling"} => got[r] = None
    /\ at[r] \in {"detecting", "resolving", "places"} => route[r] = "byPostcode"
    /\ at[r] \in {"resolving", "places"} => got[r] # "good"

RequestInv == RequestTypeOK /\ RequestSound /\ SourceHonest

LEMMA RequestInitInv == RequestInit => RequestInv
BY LookupAssumption DEF RequestInit, RequestInv, RequestTypeOK, RequestSound, SourceHonest,
  Labels, Result, Reply, Routes, Collections

LEMMA RequestStandStill ==
  ASSUME RequestInv, UNCHANGED requestVars
  PROVE  RequestInv'
BY DEF RequestInv, RequestTypeOK, RequestSound, SourceHonest, requestVars

LEMMA DropKeepsRequests ==
  ASSUME RequestInv, DropRequests
  PROVE  RequestInv'
BY LookupAssumption DEF DropRequests, RequestInv, RequestTypeOK, RequestSound, SourceHonest,
  Labels, Reply, Collections

LEMMA RequestStep ==
  ASSUME RequestInv, NEW r \in Request, RequestNext(r)
  PROVE  RequestInv'
<1> USE LookupAssumption DEF RequestInv, RequestTypeOK, RequestSound, SourceHonest,
          Labels, Routes, Result, Reply, Collections, Answer, GoTo
<1>1. ASSUME NEW k \in Council, ReceiveForCouncil(r, k)  PROVE RequestInv'
  BY <1>1 DEF ReceiveForCouncil, CallNamedCouncil, CallAdapter
<1>2. ASSUME NEW k \in Council, ReceiveWhileSwitchedOff(r, k)  PROVE RequestInv'
  BY <1>2 DEF ReceiveWhileSwitchedOff
<1>3. CASE ReceiveMalformed(r)
  BY <1>3 DEF ReceiveMalformed
<1>4. CASE ReceivePostcode(r)
  BY <1>4 DEF ReceivePostcode
<1>5. ASSUME NEW result \in Result, AdapterReturns(r, result)  PROVE RequestInv'
  <2>1. at[r] = "calling" /\ got' = [got EXCEPT ![r] = result] /\ busy' = busy \ {r}
        /\ route' = route /\ council' = council
    BY <1>5 DEF AdapterReturns
  <2>2. CASE RespondByPostcode(r, result)
    BY <2>1, <2>2 DEF RespondByPostcode
  <2>3. CASE RespondNamed(r, result)
    BY <2>1, <2>3 DEF RespondNamed
  <2>4. CASE RespondCollections(r, result)
    BY <2>1, <2>4 DEF RespondCollections
  <2> QED
    BY <1>5, <2>2, <2>3, <2>4 DEF AdapterReturns
<1>6. CASE AdapterReturnsLate(r)
  BY <1>6 DEF AdapterReturnsLate
<1>7. CASE Detected(r)
  <2>1. at[r] = "detecting" /\ got' = got /\ route' = route
    BY <1>7 DEF Detected
  <2>2. ASSUME NEW k \in Council, CallAdapter(r, k)  PROVE RequestInv'
    BY <2>1, <2>2 DEF CallAdapter
  <2>3. CASE GoTo(r, "resolving") /\ UNCHANGED <<council, busy>>
    BY <2>1, <2>3
  <2> QED
    BY <1>7, <2>2, <2>3 DEF Detected
<1>8. CASE TimerFires(r)
  BY <1>8 DEF TimerFires
<1>9. CASE Resolved(r)
  BY <1>9 DEF Resolved
<1>10. CASE PlacesReturns(r)
  BY <1>10 DEF PlacesReturns
<1> QED
  BY <1>1, <1>2, <1>3, <1>4, <1>5, <1>6, <1>7, <1>8, <1>9, <1>10 DEF RequestNext, Handle

(* What a handler does to the registry and to the calls in flight. *)
LEMMA HandlersCallAvailable ==
  ASSUME RegistryInv, RequestInv, NEW r \in Request, RequestNext(r)
  PROVE  /\ RegistryInv'
         /\ \A q \in Request : q \in busy' \ busy => SwitchedOn(council'[q])
         /\ \A q \in Request : at[q] = "done" => at'[q] = "done" /\ reply'[q] = reply[q]
<1> DEFINE Called == \A q \in Request : q \in busy' \ busy => SwitchedOn(council'[q])
           Once == \A q \in Request : at[q] = "done" => at'[q] = "done" /\ reply'[q] = reply[q]
<1> USE DEF RequestInv, RequestTypeOK
<1>1. ASSUME NEW k \in Council, ReceiveForCouncil(r, k)  PROVE RegistryInv' /\ Called /\ Once
  <2>1. at[r] = "idle" /\ CallNamedCouncil(r, k) /\ UNCHANGED registryVars
    BY <1>1 DEF ReceiveForCouncil, registryVars
  <2>2. CASE Answer(r, "503") /\ UNCHANGED <<council, busy>>
    BY <2>1, <2>2, StandStillKeepsRegistry DEF Answer
  <2>3. CASE Has(k) /\ CallAdapter(r, k)
    BY <2>1, <2>3, AvailableIsSwitchedOn, StandStillKeepsRegistry DEF CallAdapter, GoTo
  <2> QED
    BY <2>1, <2>2, <2>3 DEF CallNamedCouncil
<1>2. ASSUME NEW k \in Council, ReceiveWhileSwitchedOff(r, k)  PROVE RegistryInv' /\ Called /\ Once
  BY <1>2 DEF ReceiveWhileSwitchedOff, Answer, RegistryInv, RegistryTypeOK, KilledNotRegistered
<1>3. CASE ReceiveMalformed(r) \/ ReceivePostcode(r)
  BY <1>3, StandStillKeepsRegistry DEF ReceiveMalformed, ReceivePostcode, Answer, GoTo, registryVars
<1>4. ASSUME NEW result \in Result, AdapterReturns(r, result)  PROVE RegistryInv' /\ Called /\ Once
  <2>1. at[r] = "calling" /\ busy' = busy \ {r} /\ UNCHANGED registryVars
    BY <1>4 DEF AdapterReturns, registryVars
  <2>2. \/ \E response : Answer(r, response)
        \/ GoTo(r, "resolving")
    <3>1. CASE RespondByPostcode(r, result)
      BY <3>1 DEF RespondByPostcode
    <3>2. CASE RespondNamed(r, result)
      BY <3>2 DEF RespondNamed
    <3>3. CASE RespondCollections(r, result)
      BY <3>3 DEF RespondCollections
    <3> QED
      BY <1>4, <3>1, <3>2, <3>3 DEF AdapterReturns
  <2> QED
    BY <2>1, <2>2, StandStillKeepsRegistry DEF Answer, GoTo
<1>5. CASE AdapterReturnsLate(r)
  BY <1>5, StandStillKeepsRegistry DEF AdapterReturnsLate, registryVars
<1>6. CASE Detected(r)
  <2>1. at[r] = "detecting" /\ UNCHANGED registryVars
    BY <1>6 DEF Detected, registryVars
  <2>2. ASSUME NEW k \in Council, Has(k), CallAdapter(r, k)  PROVE Called /\ Once
    BY <2>1, <2>2, AvailableIsSwitchedOn DEF CallAdapter, GoTo
  <2>3. CASE GoTo(r, "resolving") /\ UNCHANGED <<council, busy>>
    BY <2>1, <2>3, StandStillKeepsRegistry DEF GoTo
  <2> QED
    BY <1>6, <2>1, <2>2, <2>3, StandStillKeepsRegistry DEF Detected
<1>7. CASE TimerFires(r) \/ Resolved(r) \/ PlacesReturns(r)
  BY <1>7, StandStillKeepsRegistry DEF TimerFires, Resolved, PlacesReturns, Answer, GoTo,
      registryVars
<1> QED
  BY <1>1, <1>2, <1>3, <1>4, <1>5, <1>6, <1>7 DEF RequestNext, Handle

(***************************************************************************)
(* The theorems about LookupService.                                       *)
(***************************************************************************)
LookupInv == RegistryInv /\ RequestInv

LEMMA LookupStep ==
  ASSUME LookupInv, [LookupNext]_lookupVars
  PROVE  /\ LookupInv'
         /\ \A r \in Request : r \in busy' \ busy => SwitchedOn(council'[r])
         /\ \A r \in Request : at[r] = "done" => at'[r] = "done" /\ reply'[r] = reply[r]
<1>1. ASSUME NEW r \in Request, RequestNext(r)  PROVE LookupInv'
  BY <1>1, RequestStep, HandlersCallAvailable DEF LookupInv
<1>2. CASE Edit
  BY <1>2, EditKeepsRegistry, RequestStandStill DEF Edit, LookupInv, requestVars
<1>3. CASE Restart
  BY <1>3, RestartKeepsRegistry, DropKeepsRequests DEF Restart, LookupInv, DropRequests,
     RequestInv, RequestTypeOK
<1>4. CASE UNCHANGED lookupVars
  BY <1>4, StandStillKeepsRegistry, RequestStandStill DEF lookupVars, LookupInv, requestVars
<1> QED
  BY <1>1, <1>2, <1>3, <1>4, HandlersCallAvailable
     DEF LookupNext, LookupInv, Edit, Restart, DropRequests, lookupVars, requestVars,
         RequestInv, RequestTypeOK

(* The state of the public routes is well typed, for any requests and      *)
(* councils, whatever adapters return and operators edit.                  *)
THEOREM LookupTypeCorrect == LookupSpec => []LookupTypeOK
<1>1. LookupInit => LookupInv
  BY RegistryInitInv, RequestInitInv DEF LookupInit, LookupInv
<1>2. LookupInv /\ [LookupNext]_lookupVars => LookupInv'
  BY LookupStep
<1>3. LookupInv => LookupTypeOK
  BY DEF LookupInv, RegistryInv, RequestInv, RequestTypeOK, LookupTypeOK, Labels
<1> QED
  BY <1>1, <1>2, <1>3, PTL DEF LookupSpec

(* Where a response says its data comes from is where it comes from, for   *)
(* any number of requests, late adapters and restarts.                     *)
THEOREM SourcesAreHonest == LookupSpec => []SourceHonest
<1>1. LookupInit => LookupInv
  BY RegistryInitInv, RequestInitInv DEF LookupInit, LookupInv
<1>2. LookupInv /\ [LookupNext]_lookupVars => LookupInv'
  BY LookupStep
<1>3. LookupInv => SourceHonest
  BY DEF LookupInv, RequestInv
<1> QED
  BY <1>1, <1>2, <1>3, PTL DEF LookupSpec

(* isCouncilSupported, which does not look at the kill switches, says yes  *)
(* only to councils that are switched on, whatever is edited while the     *)
(* process runs and with whatever environment it is started again: a       *)
(* request for a killed council is refused with 503, and get() throws only *)
(* when the file is edited between the two checks.                         *)
THEOREM SupportedIsSwitchedOn ==
  LookupSpec => [](\A k \in Council : Has(k) => Available(k) /\ SwitchedOn(k))
<1>1. LookupInit => LookupInv
  BY RegistryInitInv, RequestInitInv DEF LookupInit, LookupInv
<1>2. LookupInv /\ [LookupNext]_lookupVars => LookupInv'
  BY LookupStep
<1>3. LookupInv => \A k \in Council : Has(k) => Available(k) /\ SwitchedOn(k)
  BY HasIsAvailable, AvailableIsSwitchedOn DEF LookupInv
<1> QED
  BY <1>1, <1>2, <1>3, PTL DEF LookupSpec

(* No route calls an adapter that a kill switch or the file has switched   *)
(* off, for any number of councils and any environment.                    *)
THEOREM SwitchedOffIsNotCalled == LookupSpec => OnlyAvailableCalled
<1>1. LookupInit => LookupInv
  BY RegistryInitInv, RequestInitInv DEF LookupInit, LookupInv
<1>2. LookupInv /\ [LookupNext]_lookupVars
      => LookupInv' /\ [\A r \in Request : r \in busy' \ busy => SwitchedOn(council'[r])]_lookupVars
  BY LookupStep
<1> QED
  BY <1>1, <1>2, PTL DEF LookupSpec, OnlyAvailableCalled

(* A request is answered at most once: late adapters and timers do not     *)
(* answer it again.                                                        *)
THEOREM RequestsAreAnsweredOnce == LookupSpec => AnsweredOnce
<1>1. LookupInit => LookupInv
  BY RegistryInitInv, RequestInitInv DEF LookupInit, LookupInv
<1>2. LookupInv /\ [LookupNext]_lookupVars
      => LookupInv' /\ [\A r \in Request : at[r] = "done" => at'[r] = "done"
          /\ reply'[r] = reply[r]]_lookupVars
  BY LookupStep
<1> QED
  BY <1>1, <1>2, PTL DEF LookupSpec, AnsweredOnce

-----------------------------------------------------------------------------
(***************************************************************************)
(* Admin requests.                                                         *)
(***************************************************************************)
CheckTypeOK ==
  /\ disabledAdapters \subseteq Council
  /\ schemaSnapshots \in [Council -> Hash \cup {Null}]
  /\ lastDriftCheck \in {Null} \cup (SUBSET Council)
  /\ checkAt \in [Check -> Waiting \cup {"idle", "done"}]
  /\ checking \in [Check -> 0 .. NumCouncils]
  /\ found \in [Check -> SUBSET Council]

(* A check that waits for a council has not judged it yet: what it has     *)
(* found lies behind it, so a change it now sees is a new entry.           *)
CheckSound ==
  \A c \in Check :
    /\ checkAt[c] = "idle" => found[c] = {}
    /\ checkAt[c] \in Waiting => checking[c] \in Council
    /\ checkAt[c] \in Waiting => \A k \in found[c] : k < checking[c]

CheckInv == CheckTypeOK /\ CheckSound

LEMMA CheckInitInv == AdminInit => CheckInv
BY RegistryAssumption DEF AdminInit, CheckInv, CheckTypeOK, CheckSound, Waiting

LEMMA CheckStandStill ==
  ASSUME CheckInv, UNCHANGED adminVars
  PROVE  CheckInv'
BY DEF CheckInv, CheckTypeOK, CheckSound, adminVars

LEMMA ForgetKeepsChecks ==
  ASSUME CheckInv, ForgetAll
  PROVE  CheckInv'
<1>1. CheckTypeOK'
  BY DEF ForgetAll, CheckInv, CheckTypeOK, Waiting
<1>2. CheckSound'
  BY DEF ForgetAll, CheckInv, CheckTypeOK, CheckSound, Waiting
<1> QED
  BY <1>1, <1>2 DEF CheckInv

(* A run over all councils that goes on behind council i, with what it has *)
(* found up to there.                                                      *)
LEMMA RunOnKeepsChecks ==
  ASSUME CheckInv, RegistryInv, NEW c \in Check, NEW i \in 0 .. NumCouncils,
         NEW drifted \in SUBSET Council, RunOn(c, i, drifted),
         \A k \in drifted : k <= i,
         found' = [found EXCEPT ![c] = drifted],
         disabledAdapters' = disabledAdapters,
         schemaSnapshots' \in [Council -> Hash \cup {Null}]
  PROVE  /\ CheckInv'
         /\ \A d \in Check :
              checkAt'[d] = "driftAll" /\ checking'[d] # checking[d] =>
                SwitchedOn(checking'[d]) /\ checking'[d] \notin disabledAdapters
<1> USE RegistryAssumption DEF CheckInv, CheckTypeOK, CheckSound, Waiting, Council
<1>1. CASE \E k \in Council : k > i /\ Eligible(k) /\ WaitFor(c, "driftAll", k)
                             /\ UNCHANGED lastDriftCheck
  <2>1. PICK k \in Council : k > i /\ Eligible(k) /\ WaitFor(c, "driftAll", k)
                           /\ UNCHANGED lastDriftCheck
    BY <1>1
  <2>2. SwitchedOn(k) /\ k \notin disabledAdapters
    BY <2>1, AvailableIsSwitchedOn DEF Eligible
  <2>3. CheckInv'
    BY <2>1 DEF WaitFor
  <2> QED
    BY <2>1, <2>2, <2>3 DEF WaitFor
<1>2. CASE Finish(c) /\ lastDriftCheck' = drifted
  BY <1>2 DEF Finish
<1> QED
  BY <1>1, <1>2 DEF RunOn

(* What the admin properties say of one step. *)
ChangesReported ==
  \A k \in Council :
    schemaSnapshots[k] # Null /\ schemaSnapshots'[k] \notin {Null, schemaSnapshots[k]}
    <=> \E c \in Check : k \in found'[c] \ found[c]

DisabledSkipped ==
  \A c \in Check :
    checkAt'[c] = "driftAll" /\ checking'[c] # checking[c] =>
      SwitchedOn(checking'[c]) /\ checking'[c] \notin disabledAdapters

(* The answer of an adapter: compared, and the check goes on. *)
LEMMA DriftAnswerStep ==
  ASSUME RegistryInv, CheckInv, NEW c \in Check, NEW hash \in Hash, DriftAnswer(c, hash)
  PROVE  CheckInv' /\ ChangesReported /\ DisabledSkipped
<1> USE AdminAssumption DEF CheckInv, CheckTypeOK, CheckSound, Waiting
<1> DEFINE k == checking[c]
<1>1. /\ checkAt[c] \in {"driftOne", "driftAll"}
      /\ schemaSnapshots' = [schemaSnapshots EXCEPT ![k] = hash]
      /\ disabledAdapters' = disabledAdapters
  BY DEF DriftAnswer, Compare
<1>2. k \in Council /\ k \notin found[c] /\ k \in 0 .. NumCouncils
  BY <1>1, RegistryAssumption DEF Council
<1>3. found'[c] = IF schemaSnapshots[k] \notin {Null, hash} THEN found[c] \cup {k} ELSE found[c]
  BY <1>2 DEF DriftAnswer, Compare
<1>4. found' = [found EXCEPT ![c] = found'[c]] /\ found'[c] \in SUBSET Council
  BY <1>2 DEF DriftAnswer, Compare
<1>5. \A j \in found'[c] : j <= k
  BY <1>1, <1>2, <1>3, RegistryAssumption DEF Council
<1>6. ChangesReported
  <2> SUFFICES ASSUME NEW j \in Council
               PROVE  schemaSnapshots[j] # Null /\ schemaSnapshots'[j] \notin {Null,
                   schemaSnapshots[j]}
                      <=> \E d \in Check : j \in found'[d] \ found[d]
    BY DEF ChangesReported
  <2>1. \A d \in Check : j \in found'[d] \ found[d] <=> d = c /\ j = k
        /\ schemaSnapshots[k] \notin {Null, hash}
    BY <1>2, <1>3, <1>4
  <2>2. CASE j = k
    BY <1>1, <1>2, <2>1, <2>2
  <2>3. CASE j # k
    BY <1>1, <1>2, <2>1, <2>3
  <2> QED
    BY <2>2, <2>3
<1>7. CASE checkAt[c] = "driftOne"
  <2>1. Finish(c) /\ UNCHANGED lastDriftCheck
    BY <1>7 DEF DriftAnswer, Proceed
  <2>2. CheckTypeOK'
    BY <1>1, <1>2, <1>4, <2>1 DEF Finish
  <2>3. CheckSound'
    BY <1>1, <1>2, <1>4, <2>1 DEF Finish
  <2> QED
    BY <1>6, <2>1, <2>2, <2>3 DEF Finish, DisabledSkipped
<1>8. CASE checkAt[c] = "driftAll"
  <2>1. RunOn(c, k, found'[c])
    BY <1>8 DEF DriftAnswer, Proceed
  <2>2. schemaSnapshots' \in [Council -> Hash \cup {Null}]
    BY <1>1, <1>2
  <2> HIDE DEF k
  <2> QED
    BY <1>1, <1>2, <1>4, <1>5, <1>6, <2>1, <2>2, RunOnKeepsChecks DEF DisabledSkipped
<1> QED
  BY <1>1, <1>7, <1>8

(* The adapter throws: nothing is compared, and the check goes on. *)
LEMMA DriftThrowsStep ==
  ASSUME RegistryInv, CheckInv, NEW c \in Check, DriftThrows(c)
  PROVE  CheckInv' /\ ChangesReported /\ DisabledSkipped
<1> USE DEF CheckInv, CheckTypeOK, CheckSound, Waiting
<1>1. /\ checkAt[c] \in {"driftOne", "driftAll"}
      /\ UNCHANGED <<disabledAdapters, schemaSnapshots, found>>
  BY DEF DriftThrows
<1>2. ChangesReported
  BY <1>1 DEF ChangesReported
<1>3. CASE checkAt[c] = "driftOne"
  <2>1. Finish(c) /\ UNCHANGED lastDriftCheck
    BY <1>3 DEF DriftThrows, Proceed
  <2> QED
    BY <1>1, <1>2, <2>1 DEF Finish, DisabledSkipped
<1>4. CASE checkAt[c] = "driftAll"
  <2>1. RunOn(c, checking[c], found[c])
    BY <1>4 DEF DriftThrows, Proceed
  <2>2. /\ checking[c] \in 0 .. NumCouncils /\ found[c] \in SUBSET Council
        /\ \A j \in found[c] : j <= checking[c]
        /\ found' = [found EXCEPT ![c] = found[c]]
    BY <1>1, RegistryAssumption DEF Council
  <2> QED
    BY <1>1, <1>2, <2>1, <2>2, RunOnKeepsChecks DEF DisabledSkipped
<1> QED
  BY <1>1, <1>3, <1>4

LEMMA AdminStepLemma ==
  ASSUME RegistryInv, CheckInv, AdminNext
  PROVE  RegistryInv' /\ CheckInv' /\ ChangesReported /\ DisabledSkipped
<1> USE DEF CheckInv, CheckTypeOK, CheckSound, Waiting
<1>1. RegistryInv'
  BY StandStillKeepsRegistry DEF AdminNext, StartAll, StartOne, AdapterReplies, DriftAnswer,
     DriftThrows, ProbeReturns, Disable, Enable, registryVars
<1>2. ASSUME NEW c \in Check, StartAll(c)  PROVE CheckInv' /\ ChangesReported /\ DisabledSkipped
  <2>1. RunOn(c, 0, {}) /\ found[c] = {} /\ UNCHANGED <<disabledAdapters, schemaSnapshots, found>>
    BY <1>2 DEF StartAll
  <2>2. found' = [found EXCEPT ![c] = {}] /\ 0 \in 0 .. NumCouncils
    BY <2>1, RegistryAssumption
  <2> QED
    BY <2>1, <2>2, RunOnKeepsChecks DEF ChangesReported, DisabledSkipped
<1>3. ASSUME NEW c \in Check, NEW k \in Council, StartOne(c, k)
      PROVE CheckInv' /\ ChangesReported /\ DisabledSkipped
  <2>1. /\ checkAt[c] = "idle"
        /\ UNCHANGED <<disabledAdapters, schemaSnapshots, lastDriftCheck, found>>
    BY <1>3 DEF StartOne
  <2>2. ChangesReported
    BY <2>1 DEF ChangesReported
  <2>3. CASE Finish(c)
    BY <2>1, <2>2, <2>3 DEF Finish, DisabledSkipped
  <2>4. ASSUME NEW place \in {"driftOne", "probe"}, WaitFor(c, place, k)
        PROVE  CheckInv' /\ DisabledSkipped
    <3>1. k \in 0 .. NumCouncils
      BY RegistryAssumption DEF Council
    <3>2. CheckInv'
      BY <2>1, <2>4, <3>1 DEF WaitFor
    <3> QED
      BY <2>1, <2>4, <3>2 DEF WaitFor, DisabledSkipped
  <2> QED
    BY <1>3, <2>2, <2>3, <2>4 DEF StartOne
<1>4. ASSUME NEW c \in Check, AdapterReplies(c)
      PROVE CheckInv' /\ ChangesReported /\ DisabledSkipped
  <2>1. CASE ProbeReturns(c)
    BY <2>1 DEF ProbeReturns, Finish, ChangesReported, DisabledSkipped
  <2> QED
    BY <1>4, <2>1, DriftAnswerStep, DriftThrowsStep DEF AdapterReplies
<1>5. ASSUME NEW k \in Council, Disable(k) \/ Enable(k)
      PROVE CheckInv' /\ ChangesReported /\ DisabledSkipped
  BY <1>5 DEF Disable, Enable, ChangesReported, DisabledSkipped
<1> QED
  BY <1>1, <1>2, <1>3, <1>4, <1>5 DEF AdminNext

(***************************************************************************)
(* The theorems about AdminService.                                        *)
(***************************************************************************)
AdminInv == RegistryInv /\ CheckInv

LEMMA AdminInitInv == AdminServiceInit => AdminInv
BY RegistryInitInv, CheckInitInv DEF AdminServiceInit, AdminInv

LEMMA AdminServiceStep ==
  ASSUME AdminInv, [AdminServiceNext]_adminServiceVars
  PROVE  AdminInv' /\ ChangesReported /\ DisabledSkipped
<1>1. CASE AdminNext
  BY <1>1, AdminStepLemma DEF AdminInv
<1>2. CASE EditConfig /\ UNCHANGED adminVars
  BY <1>2, EditKeepsRegistry, CheckStandStill DEF AdminInv, adminVars, ChangesReported,
      DisabledSkipped
<1>3. CASE RegistryRestart /\ ForgetAll
  <2>1. AdminInv'
    BY <1>3, RestartKeepsRegistry, ForgetKeepsChecks DEF AdminInv
  <2>2. ChangesReported
    BY <1>3 DEF ForgetAll, ChangesReported
  <2>3. DisabledSkipped
    BY <1>3 DEF ForgetAll, DisabledSkipped
  <2> QED
    BY <2>1, <2>2, <2>3
<1>4. CASE UNCHANGED adminServiceVars
  BY <1>4, StandStillKeepsRegistry, CheckStandStill
     DEF AdminInv, adminServiceVars, adminVars, ChangesReported, DisabledSkipped
<1> QED
  BY <1>1, <1>2, <1>3, <1>4 DEF AdminServiceNext

(* The maps of the admin routes and their checks are well typed.           *)
THEOREM AdminTypeCorrect == AdminServiceSpec => []AdminTypeOK
<1>1. AdminInv => AdminTypeOK
  BY DEF AdminInv, RegistryInv, CheckInv, CheckTypeOK, AdminTypeOK
<1>2. AdminInv /\ [AdminServiceNext]_adminServiceVars => AdminInv'
  BY AdminServiceStep
<1> QED
  BY <1>1, <1>2, AdminInitInv, PTL DEF AdminServiceSpec

(* Any number of checks may overlap on any councils: each change of a      *)
(* recorded hash is reported by the check that made it, and only those.    *)
THEOREM ChangesAreReported == AdminServiceSpec => EveryChangeReported
<1>1. AdminInv /\ [AdminServiceNext]_adminServiceVars
      => AdminInv' /\ [ChangesReported]_adminServiceVars
  BY AdminServiceStep
<1> QED
  BY <1>1, AdminInitInv, PTL DEF AdminServiceSpec, EveryChangeReported, ChangesReported

(* A run over all councils never goes on to a disabled or killed one.      *)
THEOREM RunsSkipDisabled == AdminServiceSpec => RunSkipsDisabled
<1>1. AdminInv /\ [AdminServiceNext]_adminServiceVars
      => AdminInv' /\ [DisabledSkipped]_adminServiceVars
  BY AdminServiceStep
<1> QED
  BY <1>1, AdminInitInv, PTL DEF AdminServiceSpec, RunSkipsDisabled, DisabledSkipped

-----------------------------------------------------------------------------
(***************************************************************************)
(* The composition.                                                        *)
(***************************************************************************)
(* Admin traffic is invisible to the public routes: the whole server       *)
(* behaves, to them, like LookupService alone, and so keeps all that is    *)
(* proved of it.                                                           *)
THEOREM ServerImplementsLookup == ApiServerSpec => LookupSpec
<1>1. ApiServerInit => LookupInit
  BY DEF ApiServerInit, LookupInit
<1>2. [ApiServerNext]_apiVars => [LookupNext]_lookupVars
  <2>1. CASE PublicStep
    BY <2>1 DEF PublicStep, LookupNext
  <2>2. CASE AdminStep
    BY <2>2 DEF AdminStep, AdminNext, StartAll, StartOne, AdapterReplies, DriftAnswer,
       DriftThrows, ProbeReturns, Disable, Enable, lookupVars
  <2>3. CASE ConfigEdited
    BY <2>3 DEF ConfigEdited, LookupNext, Edit
  <2>4. CASE ProcessRestart
    BY <2>4 DEF ProcessRestart, LookupNext, Restart
  <2>5. CASE UNCHANGED apiVars
    BY <2>5 DEF apiVars, lookupVars
  <2> QED
    BY <2>1, <2>2, <2>3, <2>4, <2>5 DEF ApiServerNext
<1> QED
  BY <1>1, <1>2, PTL DEF ApiServerSpec, LookupSpec

(* And public traffic is invisible to the admin routes.                    *)
THEOREM ServerImplementsAdmin == ApiServerSpec => AdminServiceSpec
<1>1. ApiServerInit => AdminServiceInit
  BY DEF ApiServerInit, AdminServiceInit
<1>2. [ApiServerNext]_apiVars => [AdminServiceNext]_adminServiceVars
  <2>1. CASE PublicStep
    <3>1. UNCHANGED registryVars \/ EditConfig
      BY <2>1 DEF PublicStep, RequestNext, Handle, ReceiveForCouncil, ReceiveWhileSwitchedOff,
         ReceiveMalformed, ReceivePostcode, AdapterReturns, AdapterReturnsLate, Detected,
             TimerFires,
         Resolved, PlacesReturns, EditConfig, registryVars
    <3> QED
      BY <2>1, <3>1 DEF PublicStep, AdminServiceNext, adminServiceVars
  <2>2. CASE AdminStep
    BY <2>2 DEF AdminStep, AdminServiceNext
  <2>3. CASE ConfigEdited
    BY <2>3 DEF ConfigEdited, AdminServiceNext
  <2>4. CASE ProcessRestart
    BY <2>4 DEF ProcessRestart, AdminServiceNext
  <2>5. CASE UNCHANGED apiVars
    BY <2>5 DEF apiVars, adminServiceVars
  <2> QED
    BY <2>1, <2>2, <2>3, <2>4, <2>5 DEF ApiServerNext
<1> QED
  BY <1>1, <1>2, PTL DEF ApiServerSpec, AdminServiceSpec
=============================================================================
