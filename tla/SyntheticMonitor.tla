-------------------------- MODULE SyntheticMonitor --------------------------
(***************************************************************************)
(* The worker that checks every adapter on a schedule                      *)
(* (workers/synthetic-monitor.ts): liveness, freshness and canary checks   *)
(* of one adapter, and the confidence trend of all.  BullMQ runs several   *)
(* jobs at once; all of them share one failure counter per adapter, which  *)
(* a job raises, keeps a copy of, and reports after an await.              *)
(*                                                                         *)
(* An action is the code between two awaits.  A job waits `at' a call to   *)
(* an adapter, the metrics store, the cache, the audit log or the          *)
(* notification service, any of which may throw.  Awaits that follow each  *)
(* other, change nothing the worker keeps and throw to the same catch are  *)
(* one stage: the audit of a slow probe or of low confidence is part of    *)
(* the stage that records the result.                                      *)
(***************************************************************************)
EXTENDS Naturals, FiniteSets

CONSTANTS Slots,        \* jobs that may run at once (`concurrency')
          Adapters,     \* getAllActive()
          NoAdapter,
          Past          \* stands for a check that has ended

ASSUME MonitorAssumption == /\ NoAdapter \notin Adapters
                            /\ Past \notin Slots

VARIABLES open,         \* the worker takes jobs
          scheduled,    \* the repeating jobs that Redis holds
          slot,         \* what each running job waits for
          counter,      \* adapterFailureCounters; everything from 3 on is alike
          blamed        \* who counted since the last reset: only read by properties

monitorVars == <<open, scheduled, slot, counter, blamed>>

Kinds == {"liveness", "freshness", "canary"}
TrendJob == <<"confidence_trend", NoAdapter>>
Jobs == (Kinds \X Adapters) \cup {TrendJob}

CountedStages == {"auditUnhealthy", "auditProbeFailed", "auditCanaryFailed"}
LivenessTry == {"probing", "recordHealthy", "recordUnhealthy",
                "auditUnhealthy", "alertUnhealthy"}
CanaryTry == {"acquiring", "recordCanary", "auditCanaryFailed", "alertCanary"}
TrendTry == {"averages", "reportTrend"}
Uncaught == {"auditProbeFailed", "alertProbeFailed", "auditCanaryException",
             "cacheGet", "enqueue", "auditTrendError"}
Stages == {"idle", "auditJobError"} \cup LivenessTry \cup CanaryTry \cup TrendTry \cup Uncaught

(* `due' is what the job made of its own copy of the counter.  `left' are  *)
(* the adapters that a trend job has not finished.                         *)
Idle == [at |-> "idle", of |-> NoAdapter, due |-> FALSE, left |-> {}]

MonitorTypeOK ==
  /\ open \in BOOLEAN
  /\ scheduled \subseteq Jobs
  /\ slot \in [Slots -> [at : Stages, of : Adapters \cup {NoAdapter},
                         due : BOOLEAN, left : SUBSET Adapters]]
  /\ counter \in [Adapters -> 0 .. 3]
  /\ blamed \in [Adapters -> SUBSET (Slots \cup {Past})]

MonitorInit ==
  /\ open = TRUE
  /\ scheduled = {}
  /\ slot = [s \in Slots |-> Idle]
  /\ counter = [a \in Adapters |-> 0]
  /\ blamed = [a \in Adapters |-> {}]

----------------------------------------------------------------------------
(* Steps of a job *)

Go(s, stage) == slot' = [slot EXCEPT ![s].at = stage]

(* The job ends; a check that counted is remembered as one that has ended. *)
Ended(s) == [b \in Adapters |-> IF s \in blamed[b] THEN (blamed[b] \ {s}) \cup {Past}
                                                   ELSE blamed[b]]

EndJob(s) == /\ slot' = [slot EXCEPT ![s] = Idle]
             /\ blamed' = Ended(s)

(* Fault: a probe that throws is reported and not counted. *)
SilentCount(s, threshold, stage) ==
  IF stage = "auditProbeFailed"
    THEN Go(s, stage) /\ UNCHANGED <<counter, blamed>>
    ELSE LET a == slot[s].of
         IN /\ counter' = [counter EXCEPT ![a] = IF @ = 3 THEN 3 ELSE @ + 1]
            /\ blamed' = [blamed EXCEPT ![a] = @ \cup {s}]
            /\ slot' = [slot EXCEPT ![s].at = stage, ![s].due = counter[a] + 1 >= threshold]

(* Fault: a failure alerts when it reaches one below the threshold. *)
EarlyCount(s, threshold, stage) ==
  LET a == slot[s].of
  IN /\ counter' = [counter EXCEPT ![a] = IF @ = 3 THEN 3 ELSE @ + 1]
     /\ blamed' = [blamed EXCEPT ![a] = @ \cup {s}]
     /\ slot' = [slot EXCEPT ![s].at = stage, ![s].due = counter[a] + 2 >= threshold]

(* The counter is read, raised and written in one turn; the audit record   *)
(* and the alert that follow use the copy.                                 *)
Count(s, threshold, stage) ==
  LET a == slot[s].of
      failureCount == counter[a] + 1
  IN /\ counter' = [counter EXCEPT ![a] = IF failureCount > 3 THEN 3 ELSE failureCount]
     /\ blamed' = [blamed EXCEPT ![a] = @ \cup {s}]
     /\ slot' = [slot EXCEPT ![s].at = stage, ![s].due = failureCount >= threshold]

handleUnhealthyAdapter(s) == Count(s, 3, "auditUnhealthy")
handleProbeFailure(s) == Count(s, 3, "auditProbeFailed")
handleCanaryFailure(s) == Count(s, 2, "auditCanaryFailed")

(* A canary that throws is reported and not counted. *)
handleCanaryException(s) == Go(s, "auditCanaryException")

(* A check that ends well: the counter starts again. *)
ResetAndEnd(s) ==
  LET a == slot[s].of
  IN /\ counter' = [counter EXCEPT ![a] = 0]
     /\ blamed' = [Ended(s) EXCEPT ![a] = {}]
     /\ slot' = [slot EXCEPT ![s] = Idle]

----------------------------------------------------------------------------
(* scheduleChecks adds the jobs of one adapter after the other, and at     *)
(* last the trend; an `add' that throws leaves the rest out.               *)

JobsOf(a) == Kinds \X {a}

(* Fault: a job is added without the adapter it is for. *)
ScheduleAnonymous ==
  /\ \E k \in Kinds : scheduled' = scheduled \cup {<<k, NoAdapter>>}
  /\ UNCHANGED <<open, slot, counter, blamed>>

ScheduleNext ==
  /\ \/ \E a \in Adapters, k \in Kinds :
          /\ <<k, a>> \notin scheduled
          /\ k # "liveness" => <<"liveness", a>> \in scheduled
          /\ k = "canary" => <<"freshness", a>> \in scheduled
          /\ \A b \in Adapters \ {a} : JobsOf(b) \cap scheduled \in {{}, JobsOf(b)}
          /\ scheduled' = scheduled \cup {<<k, a>>}
     \/ /\ scheduled = Kinds \X Adapters
        /\ scheduled' = scheduled \cup {TrendJob}
  /\ UNCHANGED <<open, slot, counter, blamed>>

(* Jobs repeat: one is started again whether or not the last run is over.  *)
(* The registry may refuse the adapter, which is outside of every try but  *)
(* the job's.                                                              *)
Start(s, k, a) ==
  /\ open
  /\ slot[s] = Idle
  /\ <<k, a>> \in scheduled
  /\ \E stage \in CASE k = "liveness" -> {"probing", "auditJobError"}
                    [] k = "freshness" -> {"cacheGet", "auditJobError"}
                    [] k = "canary" -> {"acquiring", "auditJobError"} :
       slot' = [slot EXCEPT ![s].at = stage, ![s].of = a]
  /\ UNCHANGED <<open, scheduled, counter, blamed>>

StartTrend(s) ==
  /\ open
  /\ slot[s] = Idle
  /\ TrendJob \in scheduled
  /\ \E a \in Adapters :
       slot' = [slot EXCEPT ![s] = [at |-> "averages", of |-> a, due |-> FALSE,
                                    left |-> Adapters \ {a}]]
  /\ UNCHANGED <<open, scheduled, counter, blamed>>

----------------------------------------------------------------------------
(* The liveness probe *)

ProbeReturns(s) ==
  /\ slot[s].at = "probing"
  /\ \E stage \in {"recordHealthy", "recordUnhealthy"} : Go(s, stage)
  /\ UNCHANGED <<open, scheduled, counter, blamed>>

ProbeRecorded(s) ==
  /\ \/ slot[s].at = "recordHealthy" /\ ResetAndEnd(s)
     \/ slot[s].at = "recordUnhealthy" /\ handleUnhealthyAdapter(s)
  /\ UNCHANGED <<open, scheduled>>

(* The catch of the probe also catches what handleUnhealthyAdapter throws: *)
(* such a check counts a second time.                                      *)
LivenessThrows(s) ==
  /\ slot[s].at \in LivenessTry
  /\ handleProbeFailure(s)
  /\ UNCHANGED <<open, scheduled>>

----------------------------------------------------------------------------
(* The canary *)

CanaryReturns(s) ==
  /\ slot[s].at = "acquiring"
  /\ \/ Go(s, "recordCanary") /\ UNCHANGED <<counter, blamed>>
     \/ handleCanaryFailure(s)
  /\ UNCHANGED <<open, scheduled>>

CanaryRecorded(s) ==
  /\ slot[s].at = "recordCanary"
  /\ ResetAndEnd(s)
  /\ UNCHANGED <<open, scheduled>>

CanaryThrows(s) ==
  /\ slot[s].at \in CanaryTry
  /\ handleCanaryException(s)
  /\ UNCHANGED <<open, scheduled, counter, blamed>>

(* A failure has been audited: the alert, or the end. *)
FailureAudited(s) ==
  /\ slot[s].at \in CountedStages
  /\ IF slot[s].due
       THEN /\ Go(s, CASE slot[s].at = "auditUnhealthy" -> "alertUnhealthy"
                       [] slot[s].at = "auditProbeFailed" -> "alertProbeFailed"
                       [] slot[s].at = "auditCanaryFailed" -> "alertCanary")
            /\ UNCHANGED blamed
       ELSE EndJob(s)
  /\ UNCHANGED <<open, scheduled, counter>>

(* The last await of a job returns. *)
LastReturns(s) ==
  /\ slot[s].at \in {"alertUnhealthy", "alertProbeFailed", "alertCanary",
                     "auditCanaryException", "enqueue"}
  /\ EndJob(s)
  /\ UNCHANGED <<open, scheduled, counter>>

----------------------------------------------------------------------------
(* The freshness probe: a miss or old data is audited and a refresh queued *)

CacheReturns(s) ==
  /\ slot[s].at = "cacheGet"
  /\ \/ Go(s, "enqueue") /\ UNCHANGED blamed
     \/ EndJob(s)
  /\ UNCHANGED <<open, scheduled, counter>>

----------------------------------------------------------------------------
(* The confidence trend: one adapter after the other; what goes wrong with *)
(* one of them is audited and the loop goes on.                            *)

NextAdapter(s) ==
  \/ /\ slot[s].left = {}
     /\ EndJob(s)
  \/ /\ \E a \in slot[s].left :
          slot' = [slot EXCEPT ![s].at = "averages", ![s].of = a, ![s].left = @ \ {a}]
     /\ UNCHANGED blamed

(* A drop or a drift is reported, anything else (a rolling average of 0    *)
(* included, by which the code divides) is not.                            *)
AveragesReturn(s) ==
  /\ slot[s].at = "averages"
  /\ \/ Go(s, "reportTrend") /\ UNCHANGED blamed
     \/ NextAdapter(s)
  /\ UNCHANGED <<open, scheduled, counter>>

TrendReported(s) ==
  /\ slot[s].at \in {"reportTrend", "auditTrendError"}
  /\ NextAdapter(s)
  /\ UNCHANGED <<open, scheduled, counter>>

TrendThrows(s) ==
  /\ slot[s].at \in TrendTry
  /\ Go(s, "auditTrendError")
  /\ UNCHANGED <<open, scheduled, counter, blamed>>

----------------------------------------------------------------------------
(* The job's own catch, which audits and throws on *)

JobThrows(s) ==
  /\ slot[s].at \in Uncaught
  /\ Go(s, "auditJobError")
  /\ UNCHANGED <<open, scheduled, counter, blamed>>

JobErrorAudited(s) ==
  /\ slot[s].at = "auditJobError"
  /\ EndJob(s)
  /\ UNCHANGED <<open, scheduled, counter>>

(* stop() lets the running jobs end. *)
Stop == /\ open
        /\ open' = FALSE
        /\ UNCHANGED <<scheduled, slot, counter, blamed>>

(* The process ends, after stop() or in a crash; another one starts. *)
RestartMonitor ==
  /\ open' = TRUE
  /\ slot' = [s \in Slots |-> Idle]
  /\ counter' = [a \in Adapters |-> 0]
  /\ blamed' = [a \in Adapters |-> {}]
  /\ UNCHANGED scheduled

Step(s) == \/ ProbeReturns(s) \/ ProbeRecorded(s) \/ LivenessThrows(s)
           \/ CanaryReturns(s) \/ CanaryRecorded(s) \/ CanaryThrows(s)
           \/ FailureAudited(s) \/ LastReturns(s)
           \/ CacheReturns(s)
           \/ AveragesReturn(s) \/ TrendReported(s) \/ TrendThrows(s)
           \/ JobThrows(s) \/ JobErrorAudited(s)

MonitorNext ==
  \/ ScheduleNext \/ Stop \/ RestartMonitor
  \/ \E s \in Slots : \/ Step(s) \/ StartTrend(s)
                      \/ \E k \in Kinds, a \in Adapters : Start(s, k, a)

MonitorSpec == MonitorInit /\ [][MonitorNext]_monitorVars

(* Every call that a job waits for returns or throws, and the queue gives  *)
(* each liveness job its turn.                                             *)
FairMonitorSpec ==
  /\ MonitorSpec
  /\ \A s \in Slots : WF_monitorVars(Step(s))
  /\ \A a \in Adapters : SF_monitorVars(\E s \in Slots : Start(s, "liveness", a))

----------------------------------------------------------------------------
(* No alert about an adapter stems from one check alone, although a        *)
(* liveness check may count twice and the kinds share a counter: when a    *)
(* failure makes an alert due, another check has counted since the last    *)
(* good one.                                                               *)
AlertsNeedTwoChecks ==
  [][\A s \in Slots :
       (slot'[s] # slot[s] /\ slot'[s].at \in CountedStages /\ slot'[s].due)
         => blamed'[slot'[s].of] # {s}]_monitorVars

AuditFails == \E s \in Slots : /\ slot[s].at \in CountedStages
                               /\ LivenessThrows(s) \/ JobThrows(s) \/ CanaryThrows(s)

FoundWell(a) == \E s \in Slots : /\ slot[s].of = a
                                 /\ slot[s].at \in {"recordHealthy", "recordCanary"}
                                 /\ ProbeRecorded(s) \/ CanaryRecorded(s)

Refused(s, a) == Start(s, "liveness", a) /\ slot'[s].at = "auditJobError"

AlertBegins(a) == \E s \in Slots : /\ slot[s].of = a
                                   /\ slot[s].due
                                   /\ FailureAudited(s)

(* An adapter that stays down is reported, again and again: if from some   *)
(* time on its liveness job is scheduled and not refused, no check of it   *)
(* ends well, the audit log works and the monitor keeps running, an alert  *)
(* is sent, whatever the other jobs and the races between them do.         *)
DownIsAlerted ==
  \A a \in Adapters :
    ( /\ <>[](open /\ <<"liveness", a>> \in scheduled)
      /\ <>[][/\ ~AuditFails
              /\ ~FoundWell(a)
              /\ ~RestartMonitor
              /\ \A s \in Slots : ~Refused(s, a)]_monitorVars )
    => []<><<AlertBegins(a)>>_monitorVars

=============================================================================
