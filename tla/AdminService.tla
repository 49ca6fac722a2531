---------------------------- MODULE AdminService ----------------------------
(***************************************************************************)
(* The admin routes of api/server.ts: runtime disabling of adapters, drift *)
(* checks of one or all councils, and the probes (health and test).  They  *)
(* share in-memory maps; a run over all councils awaits one adapter after  *)
(* the other, and anything may happen in between.                          *)
(***************************************************************************)
EXTENDS AdapterRegistry

CONSTANTS
  Check,         \* admin requests that reach an adapter
  Hash,          \* SHA-256 values of what adapters return; that of {} stands for a failed call
  Null,          \* null, undefined
  TestPostcodes  \* councils with a test postcode

ASSUME AdminAssumption ==
  /\ Null \notin Hash
  /\ TestPostcodes \subseteq Council

VARIABLES
  disabledAdapters, \* keys of the map of the same name
  schemaSnapshots,  \* the recorded hash of each council
  lastDriftCheck,   \* the councils the last complete run found drifted, or null
  checkAt,          \* where each admin request is
  checking,         \* the council whose adapter it waits for
  found             \* the councils it has found drifted

adminVars == <<disabledAdapters, schemaSnapshots, lastDriftCheck, checkAt, checking, found>>
adminServiceVars == <<registryVars, adminVars>>

Waiting == {"driftOne", "driftAll", "probe"}

AdminTypeOK ==
  /\ RegistryTypeOK
  /\ disabledAdapters \subseteq Council
  /\ schemaSnapshots \in [Council -> Hash \cup {Null}]
  /\ lastDriftCheck \in {Null} \cup (SUBSET Council)
  /\ checkAt \in [Check -> Waiting \cup {"idle", "done"}]
  /\ checking \in [Check -> 0 .. NumCouncils]
  /\ found \in [Check -> SUBSET Council]

AdminInit ==
  /\ disabledAdapters = {}
  /\ schemaSnapshots = [k \in Council |-> Null]
  /\ lastDriftCheck = Null
  /\ checkAt = [c \in Check |-> "idle"]
  /\ checking = [c \in Check |-> 0]
  /\ found = [c \in Check |-> {}]

-----------------------------------------------------------------------------
WaitFor(c, place, k) ==
  /\ checkAt' = [checkAt EXCEPT ![c] = place]
  /\ checking' = [checking EXCEPT ![c] = k]

Finish(c) ==
  /\ checkAt' = [checkAt EXCEPT ![c] = "done"]
  /\ UNCHANGED checking

(* The councils a run over all of them waits for: the others are skipped,  *)
(* or are unreachable at once because getAdapter throws.                   *)
Eligible(k) == k \in TestPostcodes /\ Has(k) /\ k \notin disabledAdapters /\ Available(k)

(* Fault: the run goes on with the council it has just checked. *)
RunOnAgain(c, i, drifted) ==
  \/ \E k \in Council :
       /\ k >= i /\ Eligible(k)
       /\ \A j \in Council : i <= j /\ j < k => ~Eligible(j)
       /\ WaitFor(c, "driftAll", k)
       /\ UNCHANGED lastDriftCheck
  \/ /\ \A k \in Council : k >= i => ~Eligible(k)
     /\ Finish(c)
     /\ lastDriftCheck' = drifted

(* A run over all councils goes on behind council i, to the next one it    *)
(* does not skip or to its summary.                                        *)
RunOn(c, i, drifted) ==
  \/ \E k \in Council :
       /\ k > i /\ Eligible(k)
       /\ \A j \in Council : i < j /\ j < k => ~Eligible(j)
       /\ WaitFor(c, "driftAll", k)
       /\ UNCHANGED lastDriftCheck
  \/ /\ \A k \in Council : k > i => ~Eligible(k)
     /\ Finish(c)
     /\ lastDriftCheck' = drifted

(* POST adapters/:councilId/drift-check, and the two probes: refused with  *)
(* 400 or 404, failed with 500 because getAdapter throws, or waiting for   *)
(* the adapter.                                                            *)
StartOne(c, k) ==
  /\ checkAt[c] = "idle"
  /\ \/ /\ ~Has(k) \/ k \notin TestPostcodes \/ ~Available(k)
        /\ Finish(c)
     \/ /\ Has(k) /\ k \in TestPostcodes /\ Available(k)
        /\ WaitFor(c, "driftOne", k)
     \/ /\ Has(k) /\ Available(k)
        /\ WaitFor(c, "probe", k)
  /\ UNCHANGED <<registryVars, disabledAdapters, schemaSnapshots, lastDriftCheck, found>>

(* GET drift. *)
StartAll(c) ==
  /\ checkAt[c] = "idle"
  /\ RunOn(c, 0, {})
  /\ UNCHANGED <<registryVars, disabledAdapters, schemaSnapshots, found>>

(* The rest of a handler's turn, once it knows what its council did. *)
Proceed(c, drifted) ==
  \/ checkAt[c] = "driftOne" /\ Finish(c) /\ UNCHANGED lastDriftCheck
  \/ checkAt[c] = "driftAll" /\ RunOn(c, checking[c], drifted)

(* Fault: the snapshot is updated before it is compared. *)
CompareAfterUpdate(c, hash) ==
  /\ schemaSnapshots' = [schemaSnapshots EXCEPT ![checking[c]] = hash]
  /\ found' = IF schemaSnapshots'[checking[c]] # hash
              THEN [found EXCEPT ![c] = @ \cup {checking[c]}] ELSE found

(* The snapshot is read, compared and replaced between two awaits. *)
Compare(c, hash) ==
  /\ schemaSnapshots' = [schemaSnapshots EXCEPT ![checking[c]] = hash]
  /\ found' = IF schemaSnapshots[checking[c]] \notin {Null, hash}
              THEN [found EXCEPT ![c] = @ \cup {checking[c]}] ELSE found

(* resolveAddresses returns; success is not looked at. *)
DriftAnswer(c, hash) ==
  /\ checkAt[c] \in {"driftOne", "driftAll"}
  /\ Compare(c, hash)
  /\ Proceed(c, found'[c])
  /\ UNCHANGED <<registryVars, disabledAdapters>>

(* It throws: 500, or "unreachable" in a run over all councils. *)
DriftThrows(c) ==
  /\ checkAt[c] \in {"driftOne", "driftAll"}
  /\ Proceed(c, found[c])
  /\ UNCHANGED <<registryVars, disabledAdapters, schemaSnapshots, found>>

ProbeReturns(c) ==
  /\ checkAt[c] = "probe"
  /\ Finish(c)
  /\ UNCHANGED <<registryVars, disabledAdapters, schemaSnapshots, lastDriftCheck, found>>

Disable(k) ==
  /\ disabledAdapters' = disabledAdapters \cup {k}
  /\ UNCHANGED <<registryVars, schemaSnapshots, lastDriftCheck, checkAt, checking, found>>

Enable(k) ==
  /\ disabledAdapters' = disabledAdapters \ {k}
  /\ UNCHANGED <<registryVars, schemaSnapshots, lastDriftCheck, checkAt, checking, found>>

(* The process ends and is started again: the maps are empty. *)
ForgetAll ==
  /\ disabledAdapters' = {}
  /\ schemaSnapshots' = [k \in Council |-> Null]
  /\ lastDriftCheck' = Null
  /\ checkAt' = [c \in Check |-> IF checkAt[c] = "idle" THEN "idle" ELSE "done"]
  /\ UNCHANGED <<checking, found>>

-----------------------------------------------------------------------------
AdapterReplies(c) ==
  (\E hash \in Hash : DriftAnswer(c, hash)) \/ DriftThrows(c) \/ ProbeReturns(c)

AdminNext ==
  \/ \E c \in Check : StartAll(c) \/ (\E k \in Council : StartOne(c, k)) \/ AdapterReplies(c)
  \/ \E k \in Council : Disable(k) \/ Enable(k)

AdminServiceInit == RegistryInit /\ AdminInit

AdminServiceNext ==
  \/ AdminNext
  \/ EditConfig /\ UNCHANGED adminVars
  \/ RegistryRestart /\ ForgetAll

AdminServiceSpec == AdminServiceInit /\ [][AdminServiceNext]_adminServiceVars

(* Every adapter call ends, which is CallsReturn of CouncilCall and rests  *)
(* on what that assumes: that no council trickles a body without end.      *)
FairAdminServiceSpec ==
  AdminServiceSpec /\ \A c \in Check : WF_adminServiceVars(AdapterReplies(c))

-----------------------------------------------------------------------------
(* Overlapping checks compare with, and replace, the same snapshot: each   *)
(* change of a recorded hash is reported as drift by the check that made   *)
(* it, and nothing else is reported.  (The snapshot is read after the      *)
(* await.  Read before it, two checks would report the same change, or a   *)
(* change back, or none.)                                                  *)
EveryChangeReported ==
  [][\A k \in Council :
       schemaSnapshots[k] # Null /\ schemaSnapshots'[k] \notin {Null, schemaSnapshots[k]}
       <=> \E c \in Check : k \in found'[c] \ found[c]]_adminServiceVars

(* A run over all councils does not call an adapter that was disabled, at  *)
(* run time or by kill switch, before the run came to it.                  *)
RunSkipsDisabled ==
  [][\A c \in Check :
       checkAt'[c] = "driftAll" /\ checking'[c] # checking[c] =>
         SwitchedOn(checking'[c]) /\ checking'[c] \notin disabledAdapters]_adminServiceVars

(* A run over all councils comes to its end, whatever is switched on and   *)
(* off meanwhile.                                                          *)
RunEnds == \A c \in Check : checkAt[c] = "driftAll" ~> checkAt[c] = "done"
=============================================================================
