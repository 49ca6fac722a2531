----------------------------- MODULE Retention -----------------------------
(***************************************************************************)
(* What the platform stores and when it deletes it.  Two parties delete:   *)
(* the policy engine, when somebody calls RetentionWorker.run              *)
(* (core/retention/policy.ts, workers/retention-worker.ts),                *)
(* and the expiry of evidence by the date in its metadata                  *)
(* (storage/evidence/expiry.ts).  Evidence is written first and dated      *)
(* afterwards (storage/evidence/store-evidence.ts).                        *)
(*                                                                         *)
(* Time is the age of each record in whole days that have passed.          *)
(***************************************************************************)
EXTENDS Naturals, FiniteSets

CONSTANTS Blobs,        \* records; a record is written at most once
          Types,        \* the data types that have a scanner
          Runs,         \* calls of RetentionWorker.run
          ExpiryJobs,   \* calls of listExpiredEvidence and deleteExpiredEvidence
          BatchSize,    \* RETENTION_BATCH_SIZE
          Jumps,        \* numbers of days that may pass at once
          OldestAge,    \* ages are counted up to here
          NoBlob

EvidenceTypes == {"raw-evidence-html", "raw-evidence-json", "raw-evidence-pdf",
                  "raw-evidence-screenshot"}

(* RETENTION_POLICY; an API key has no limit. *)
HasLimit(t) == t # "api-key"

MaxAgeDays(t) ==
  CASE t \in {"raw-evidence-html", "raw-evidence-json", "acquisition-attempt"} -> 90
    [] t \in {"raw-evidence-pdf", "user-input-log"} -> 30
    [] t = "raw-evidence-screenshot" -> 7
    [] t \in {"normalised-collection", "security-event"} -> 365
    [] t = "audit-log" -> 730

DataTypes == EvidenceTypes \cup
  {"normalised-collection", "acquisition-attempt", "security-event", "audit-log",
   "user-input-log", "api-key"}

SafetyWindowDays == 7

ASSUME RetentionAssumption == /\ Types \subseteq DataTypes
                              /\ BatchSize \in Nat
                              /\ OldestAge \in Nat
                              /\ Jumps \subseteq Nat \ {0}
                              /\ NoBlob \notin Blobs

VARIABLES blob,         \* the store
          dryRun,       \* RETENTION_DRY_RUN of the process
          grace,        \* isGracePeriodActive()
          isRunning,    \* field of the worker
          run,          \* where each call of run() is
          job,          \* where each expiry job is
          audited       \* records whose deletion the audit log tells of

retentionVars == <<blob, dryRun, grace, isRunning, run, job, audited>>

(* The expiry date of a record, as the age at which it has come. *)
NotYet == [state |-> "notyet"]
Gone == [state |-> "gone"]
Stored == [state : {"stored"}, type : Types, age : 0 .. OldestAge,
           expires : {"pending", "none", "flat", "bytype"}]

IdleRun == [at |-> "idle", left |-> {}]
IdleJob == [at |-> "idle", of |-> NoBlob, left |-> {}]

RetentionTypeOK ==
  /\ blob \in [Blobs -> Stored \cup {NotYet, Gone}]
  /\ dryRun \in BOOLEAN /\ grace \in BOOLEAN /\ isRunning \in BOOLEAN
  /\ run \in [Runs -> [at : {"idle", "scanning", "purging"}, left : SUBSET Types]]
  /\ job \in [ExpiryJobs -> [at : {"idle", "listing", "metadata", "deleting"},
                             of : Blobs \cup {NoBlob}, left : SUBSET Blobs]]
  /\ audited \subseteq Blobs

RetentionInit ==
  /\ blob = [b \in Blobs |-> NotYet]
  /\ dryRun \in BOOLEAN
  /\ grace = TRUE
  /\ isRunning = FALSE
  /\ run = [r \in Runs |-> IdleRun]
  /\ job = [j \in ExpiryJobs |-> IdleJob]
  /\ audited = {}

IsStored(b) == blob[b].state = "stored"

----------------------------------------------------------------------------
(* Writing *)

(* A record is written; evidence gets its date by another write. *)
Store(b, t) ==
  /\ blob[b] = NotYet
  /\ blob' = [blob EXCEPT ![b] =
       [state |-> "stored", type |-> t, age |-> 0,
        expires |-> IF t \in EvidenceTypes THEN "pending" ELSE "none"]]
  /\ UNCHANGED <<dryRun, grace, isRunning, run, job, audited>>

(* Fault: the date is left to a default that no reader knows. *)
SetUnknownExpiry(b) ==
  /\ IsStored(b)
  /\ blob[b].expires = "pending"
  /\ blob' = [blob EXCEPT ![b].expires = "unknown"]
  /\ UNCHANGED <<dryRun, grace, isRunning, run, job, audited>>

(* storeEvidence dates everything 90 days ahead, setEvidenceExpiry by the  *)
(* type of the evidence; the second write may fail.                        *)
SetExpiry(b) ==
  /\ IsStored(b)
  /\ blob[b].expires = "pending"
  /\ \E e \in {"flat", "bytype", "none"} : blob' = [blob EXCEPT ![b].expires = e]
  /\ UNCHANGED <<dryRun, grace, isRunning, run, job, audited>>

(* getEvidenceExpiryDate, and the flat 90 days of storeEvidence *)
ExpiryDays(b) == IF blob[b].expires = "flat" THEN 90 ELSE MaxAgeDays(blob[b].type)

(* Days pass; the grace period is one day long. *)
DaysPass(n) ==
  /\ blob' = [b \in Blobs |->
       IF IsStored(b)
         THEN [blob[b] EXCEPT !.age = IF @ + n > OldestAge THEN OldestAge ELSE @ + n]
         ELSE blob[b]]
  /\ grace' = FALSE
  /\ UNCHANGED <<dryRun, isRunning, run, job, audited>>

----------------------------------------------------------------------------
(* The policy engine and its worker *)

(* Fault: the safety window is taken off the limit. *)
EarlyPastCutoff(b) == /\ HasLimit(blob[b].type)
                      /\ blob[b].age + SafetyWindowDays >= MaxAgeDays(blob[b].type)

(* Older than calculateCutoffDate, that is, than the limit and the window. *)
PastCutoff(b) == /\ HasLimit(blob[b].type)
                 /\ blob[b].age >= MaxAgeDays(blob[b].type) + SafetyWindowDays

(* A second run() throws at once and changes nothing. *)
StartRun(r) ==
  /\ run[r] = IdleRun
  /\ ~isRunning
  /\ isRunning' = TRUE
  /\ run' = [run EXCEPT ![r].at = "scanning"]
  /\ UNCHANGED <<blob, dryRun, grace, job, audited>>

(* The finally block *)
EndRun(r) == /\ run' = [run EXCEPT ![r] = IdleRun]
             /\ isRunning' = FALSE

(* Fault: the exception of the grace period leaves the flag set. *)
ScanReturnsStuck(r) ==
  /\ run[r].at = "scanning"
  /\ IF grace
       THEN run' = [run EXCEPT ![r] = IdleRun]
       ELSE run' = [run EXCEPT ![r] = [at |-> "purging",
                                       left |-> {t \in Types : HasLimit(t)}]]
  /\ UNCHANGED <<blob, dryRun, grace, isRunning, job, audited>>

(* The scan over all types has ended (it throws for no type); executePurge *)
(* throws in the grace period.                                             *)
ScanReturns(r) ==
  /\ run[r].at = "scanning"
  /\ LET left == {t \in Types : HasLimit(t)}
     IN IF grace \/ left = {}
          THEN EndRun(r)
          ELSE /\ run' = [run EXCEPT ![r] = [at |-> "purging", left |-> left]]
               /\ UNCHANGED isRunning
  /\ UNCHANGED <<blob, dryRun, grace, job, audited>>

(* The scanner of one type, which is external, deletes up to BatchSize     *)
(* records past the cutoff, fails for some of them or throws; the loop     *)
(* goes on with the next type.                                             *)
PurgeType(r, t, purged) ==
  /\ run[r].at = "purging"
  /\ t \in run[r].left
  /\ \A b \in purged : IsStored(b) /\ blob[b].type = t /\ PastCutoff(b)
  /\ Cardinality(purged) <= BatchSize
  /\ dryRun => purged = {}
  /\ blob' = [b \in Blobs |-> IF b \in purged THEN Gone ELSE blob[b]]
  /\ IF run[r].left = {t}
       THEN EndRun(r)
       ELSE /\ run' = [run EXCEPT ![r].left = @ \ {t}]
            /\ UNCHANGED isRunning
  /\ UNCHANGED <<dryRun, grace, job, audited>>

----------------------------------------------------------------------------
(* Expiry of evidence *)

Expired(b) == /\ IsStored(b)
              /\ blob[b].expires \in {"flat", "bytype"}
              /\ blob[b].age >= ExpiryDays(b)

(* The loop of deleteExpiredEvidence goes on with one of `left', up to the *)
(* await of its metadata.                                                  *)
NextOf(j, left) ==
  IF left = {} THEN job' = [job EXCEPT ![j] = IdleJob]
               ELSE \E b \in left : job' = [job EXCEPT ![j] =
                      [at |-> "metadata", of |-> b, left |-> left \ {b}]]

StartExpiry(j) ==
  /\ job[j] = IdleJob
  /\ job' = [job EXCEPT ![j].at = "listing"]
  /\ UNCHANGED <<blob, dryRun, grace, isRunning, run, audited>>

(* listBlobs returns (or throws, or the deletion is a dry run). *)
Listed(j) ==
  /\ job[j].at = "listing"
  /\ \/ NextOf(j, {b \in Blobs : Expired(b)})
     \/ NextOf(j, {})
  /\ UNCHANGED <<blob, dryRun, grace, isRunning, run, audited>>

(* Fault: the deletion is audited when it has been done. *)
MetadataReadUnaudited(j) ==
  /\ job[j].at = "metadata"
  /\ job' = [job EXCEPT ![j].at = "deleting"]
  /\ UNCHANGED <<blob, dryRun, grace, isRunning, run, audited>>

(* The audit record is written before the deletion is tried, and also for  *)
(* a blob that has gone since it was listed.                               *)
MetadataRead(j) ==
  /\ job[j].at = "metadata"
  /\ audited' = audited \cup {job[j].of}
  /\ job' = [job EXCEPT ![j].at = "deleting"]
  /\ UNCHANGED <<blob, dryRun, grace, isRunning, run>>

BlobDeleted(j) ==
  /\ job[j].at = "deleting"
  /\ blob' = [blob EXCEPT ![job[j].of] = Gone]
  /\ NextOf(j, job[j].left)
  /\ UNCHANGED <<dryRun, grace, isRunning, run, audited>>

(* Either call throws: the result says so, the loop goes on. *)
DeleteFails(j) ==
  /\ job[j].at \in {"metadata", "deleting"}
  /\ NextOf(j, job[j].left)
  /\ UNCHANGED <<blob, dryRun, grace, isRunning, run, audited>>

----------------------------------------------------------------------------
(* The process crashes or is deployed again: the grace period starts anew, *)
(* and a date that was not written yet never will be.                      *)
RestartRetention ==
  /\ blob' = [b \in Blobs |-> IF IsStored(b) /\ blob[b].expires = "pending"
                                THEN [blob[b] EXCEPT !.expires = "none"] ELSE blob[b]]
  /\ dryRun' \in BOOLEAN
  /\ grace' = TRUE
  /\ isRunning' = FALSE
  /\ run' = [r \in Runs |-> IdleRun]
  /\ job' = [j \in ExpiryJobs |-> IdleJob]
  /\ UNCHANGED audited

RunStep(r) == ScanReturns(r) \/ \E t \in Types, p \in SUBSET Blobs : PurgeType(r, t, p)
JobStep(j) == Listed(j) \/ MetadataRead(j) \/ BlobDeleted(j) \/ DeleteFails(j)

RetentionNext ==
  \/ \E b \in Blobs : SetExpiry(b) \/ \E t \in Types : Store(b, t)
  \/ \E n \in Jumps : DaysPass(n)
  \/ \E r \in Runs : StartRun(r) \/ RunStep(r)
  \/ \E j \in ExpiryJobs : StartExpiry(j) \/ JobStep(j)
  \/ RestartRetention

RetentionSpec == RetentionInit /\ [][RetentionNext]_retentionVars

(* Time passes, and every call a run waits for returns or throws.  Nothing *)
(* is assumed of the start of a run: the worker promises to execute "daily *)
(* at 2am", but its schedule is a TODO and no code calls run().  Nor of    *)
(* the expiry of evidence, which nothing calls either.                     *)
FairRetentionSpec ==
  /\ RetentionSpec
  /\ WF_retentionVars(\E n \in Jumps : DaysPass(n))
  /\ WF_retentionVars(\E r \in Runs : RunStep(r))

----------------------------------------------------------------------------
(* At most one run is under way, and the flag that refuses others is set   *)
(* exactly as long, on whatever path the run ends.                         *)
OneRunAtATime ==
  /\ isRunning <=> \E r \in Runs : run[r] # IdleRun
  /\ \A r, s \in Runs : run[r] # IdleRun /\ run[s] # IdleRun => r = s

(* Nothing is deleted before the limit of its type, whichever party        *)
(* deletes it and whoever dated it; the policy engine also leaves it the   *)
(* safety window, and deletes nothing in the grace period or a dry run.    *)
DeletionsAreDue ==
  [][\A b \in Blobs : (IsStored(b) /\ blob'[b] = Gone) =>
       /\ HasLimit(blob[b].type)
       /\ blob[b].age >= MaxAgeDays(blob[b].type)
       /\ run' # run => /\ blob[b].age >= MaxAgeDays(blob[b].type) + SafetyWindowDays
                        /\ ~grace /\ ~dryRun]_retentionVars

(* "NEVER deletes silently": what the expiry of evidence deletes, the      *)
(* audit log tells of already, even when several jobs and the engine are   *)
(* after the same record.                                                  *)
NoSilentDeletion ==
  [][\A b \in Blobs : (IsStored(b) /\ blob'[b] = Gone /\ job' # job) => b \in audited]_retentionVars

ScannerFails == \E r \in Runs, t \in Types :
                  /\ \E b \in Blobs : IsStored(b) /\ blob[b].type = t /\ PastCutoff(b)
                  /\ PurgeType(r, t, {})

(* Somebody outside the repository calls run() again and again: a call has *)
(* an effect whenever no other run is under way.                           *)
RunIsCalledAgainAndAgain == WF_retentionVars(\E r \in Runs : StartRun(r))

(* If it were called as it promises, and runs are not dry, the process is  *)
(* not restarted for ever and scanners work, then every record that has a  *)
(* limit would go in the end, evidence that was never dated included: no   *)
(* failed scan, grace period or batch may leave the worker refusing runs   *)
(* or passing over a record for ever.                                      *)
LimitedDataGoes ==
  RunIsCalledAgainAndAgain
    /\ <>[][~dryRun /\ ~RestartRetention /\ ~ScannerFails]_retentionVars
  => \A b \in Blobs : (IsStored(b) /\ HasLimit(blob[b].type)) ~> ~IsStored(b)

=============================================================================
