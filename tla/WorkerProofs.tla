---------------------------- MODULE WorkerProofs -----------------------------
(***************************************************************************)
(* The two workers.  The synthetic monitor: no alert about an adapter      *)
(* stems from one check alone, for any number of jobs at once and any      *)
(* adapters.  Retention: runs exclude each other and nothing is deleted    *)
(* early or unrecorded, for any records, types, runs and jobs.             *)
(***************************************************************************)
EXTENDS SyntheticMonitor, Retention, TLAPS

(* A job waits for something of an adapter. *)
JobsHaveAdapters == \A s \in Slots : slot[s].at # "idle" => slot[s].of \in Adapters

(* The stages a check may be at once it has counted a failure, and how     *)
(* many it has counted there: a liveness check that throws may have        *)
(* counted before.                                                         *)
CountedOnce == {"auditUnhealthy", "alertUnhealthy", "auditCanaryFailed", "alertCanary",
                "auditCanaryException"}
CountedTwice == {"auditProbeFailed", "alertProbeFailed", "auditJobError"}
Tally(s) == IF slot[s].at \in CountedOnce THEN 1 ELSE 2

(* A job to blame is a check of that adapter that has counted. *)
BlamedHasCounted ==
  \A a \in Adapters : \A s \in Slots :
    s \in blamed[a] => slot[s].of = a /\ slot[s].at \in CountedOnce \cup CountedTwice

(* With nobody to blame the counter is 0; with one job to blame it is no   *)
(* more than what that job counted.                                        *)
CounterIsEarned ==
  \A a \in Adapters :
    /\ blamed[a] = {} => counter[a] = 0
    /\ \A s \in Slots : blamed[a] = {s} => counter[a] <= Tally(s)

MonitorInv ==
  /\ MonitorTypeOK
  /\ JobsHaveAdapters
  /\ BlamedHasCounted
  /\ CounterIsEarned

SlotType == [at : Stages, of : Adapters \cup {NoAdapter}, due : BOOLEAN, left : SUBSET Adapters]

-----------------------------------------------------------------------------
LEMMA StageFacts ==
  /\ "idle" \in Stages /\ "auditJobError" \in Stages
  /\ LivenessTry \cup CanaryTry \cup TrendTry \cup Uncaught \cup CountedStages \subseteq Stages
  /\ CountedOnce \cup CountedTwice \subseteq Stages \ {"idle"}
BY DEF Stages, LivenessTry, CanaryTry, TrendTry, Uncaught, CountedStages, CountedOnce, CountedTwice

LEMMA InitMonitorInv == MonitorInit => MonitorInv
<1> SUFFICES ASSUME MonitorInit PROVE MonitorInv
  OBVIOUS
<1>1. MonitorTypeOK
  BY StageFacts DEF MonitorInit, MonitorTypeOK, Idle
<1>2. JobsHaveAdapters
  BY DEF MonitorInit, JobsHaveAdapters, Idle
<1>3. BlamedHasCounted
  BY DEF MonitorInit, BlamedHasCounted
<1>4. CounterIsEarned
  BY DEF MonitorInit, CounterIsEarned
<1> QED
  BY <1>1, <1>2, <1>3, <1>4 DEF MonitorInv

(* A job goes on without counting: to a stage at which it has counted no   *)
(* less.                                                                   *)
LEMMA GoInv ==
  ASSUME MonitorInv, NEW s \in Slots, NEW stage \in Stages \ {"idle"}, Go(s, stage),
         slot[s].at # "idle",
         slot[s].at \in CountedOnce => stage \in CountedOnce \cup CountedTwice,
         slot[s].at \in CountedTwice => stage \in CountedTwice,
         counter' = counter, blamed' = blamed, open' = open, scheduled' = scheduled
  PROVE  MonitorInv'
<1>1. /\ slot' \in [Slots -> SlotType]
      /\ slot'[s].at = stage /\ slot'[s].of = slot[s].of
      /\ \A q \in Slots : q # s => slot'[q] = slot[q]
  BY DEF MonitorInv, MonitorTypeOK, Go, SlotType
<1>2. MonitorTypeOK'
  BY <1>1 DEF MonitorInv, MonitorTypeOK, SlotType
<1>3. JobsHaveAdapters'
  BY <1>1 DEF MonitorInv, JobsHaveAdapters
<1>4. BlamedHasCounted'
  BY <1>1 DEF MonitorInv, BlamedHasCounted
<1>5. CounterIsEarned'
  <2>1. ASSUME NEW a \in Adapters, NEW q \in Slots, blamed[a] = {q}
        PROVE  counter[a] <= Tally(q)'
    <3>1. counter[a] <= Tally(q) /\ counter[a] \in 0 .. 3
      BY <2>1 DEF MonitorInv, MonitorTypeOK, CounterIsEarned
    <3>2. slot[q].at \in CountedOnce \cup CountedTwice
      BY <2>1 DEF MonitorInv, BlamedHasCounted
    <3>3. Tally(q) <= Tally(q)' /\ Tally(q) \in Nat /\ Tally(q)' \in Nat
      BY <3>2, <1>1 DEF Tally, CountedOnce, CountedTwice
    <3> QED
      BY <3>1, <3>3
  <2> QED
    BY <2>1 DEF MonitorInv, CounterIsEarned
<1> QED
  BY <1>2, <1>3, <1>4, <1>5 DEF MonitorInv

(* A job ends; what it counted is nobody's who still runs. *)
LEMMA EndedFacts ==
  ASSUME MonitorInv, NEW s \in Slots, NEW a \in Adapters
  PROVE  /\ Ended(s)[a] \in SUBSET (Slots \cup {Past})
         /\ s \notin Ended(s)[a]
         /\ \A q \in Slots : q \in Ended(s)[a] => q \in blamed[a]
         /\ \A q \in Slots : Ended(s)[a] = {q} => blamed[a] = {q}
         /\ Ended(s)[a] = {} => blamed[a] = {}
<1>1. Ended(s)[a] = IF s \in blamed[a] THEN (blamed[a] \ {s}) \cup {Past} ELSE blamed[a]
  BY DEF Ended
<1>2. blamed[a] \in SUBSET (Slots \cup {Past})
  BY DEF MonitorInv, MonitorTypeOK
<1> QED
  BY <1>1, <1>2, MonitorAssumption DEF MonitorAssumption

LEMMA EndJobInv ==
  ASSUME MonitorInv, NEW s \in Slots, EndJob(s),
         counter' = counter, open' = open, scheduled' = scheduled
  PROVE  MonitorInv'
<1>1. /\ slot' \in [Slots -> SlotType]
      /\ slot'[s] = Idle
      /\ \A q \in Slots : q # s => slot'[q] = slot[q]
  BY StageFacts DEF MonitorInv, MonitorTypeOK, EndJob, SlotType, Idle
<1>2. blamed' = Ended(s)
  BY DEF EndJob
<1>3. MonitorTypeOK'
  <2>1. blamed' \in [Adapters -> SUBSET (Slots \cup {Past})]
    BY <1>2, EndedFacts DEF Ended
  <2> QED
    BY <1>1, <2>1 DEF MonitorInv, MonitorTypeOK, SlotType
<1>4. JobsHaveAdapters'
  BY <1>1 DEF MonitorInv, JobsHaveAdapters, Idle
<1>5. BlamedHasCounted'
  BY <1>1, <1>2, EndedFacts DEF MonitorInv, BlamedHasCounted
<1>6. CounterIsEarned'
  <2>1. ASSUME NEW a \in Adapters, NEW q \in Slots, blamed'[a] = {q}
        PROVE  counter[a] <= Tally(q)'
    <3>1. q # s /\ blamed[a] = {q}
      BY <2>1, <1>2, EndedFacts
    <3> QED
      BY <3>1, <1>1 DEF MonitorInv, CounterIsEarned, Tally
  <2>2. \A a \in Adapters : blamed'[a] = {} => counter[a] = 0
    BY <1>2, EndedFacts DEF MonitorInv, CounterIsEarned
  <2> QED
    BY <2>1, <2>2 DEF CounterIsEarned
<1> QED
  BY <1>3, <1>4, <1>5, <1>6 DEF MonitorInv

LEMMA ResetAndEndInv ==
  ASSUME MonitorInv, NEW s \in Slots, slot[s].at # "idle", ResetAndEnd(s),
         open' = open, scheduled' = scheduled
  PROVE  MonitorInv'
<1> DEFINE a == slot[s].of
<1>1. a \in Adapters
  BY DEF MonitorInv, JobsHaveAdapters
<1>2. /\ slot' \in [Slots -> SlotType]
      /\ slot'[s] = Idle
      /\ \A q \in Slots : q # s => slot'[q] = slot[q]
  BY StageFacts DEF MonitorInv, MonitorTypeOK, ResetAndEnd, SlotType, Idle
<1>3. /\ blamed' \in [Adapters -> SUBSET (Slots \cup {Past})]
      /\ blamed'[a] = {}
      /\ \A b \in Adapters : b # a => blamed'[b] = Ended(s)[b]
  <2>1. Ended(s) \in [Adapters -> SUBSET (Slots \cup {Past})]
    BY EndedFacts DEF Ended
  <2> QED
    BY <1>1, <2>1 DEF ResetAndEnd
<1>4. /\ counter' \in [Adapters -> 0 .. 3]
      /\ counter'[a] = 0
      /\ \A b \in Adapters : b # a => counter'[b] = counter[b]
  BY <1>1 DEF MonitorInv, MonitorTypeOK, ResetAndEnd
<1>5. MonitorTypeOK'
  BY <1>2, <1>3, <1>4 DEF MonitorInv, MonitorTypeOK, SlotType
<1>6. JobsHaveAdapters'
  BY <1>2 DEF MonitorInv, JobsHaveAdapters, Idle
<1>7. BlamedHasCounted'
  BY <1>2, <1>3, EndedFacts DEF MonitorInv, BlamedHasCounted
<1>8. CounterIsEarned'
  <2>1. ASSUME NEW b \in Adapters, b # a, NEW q \in Slots, blamed'[b] = {q}
        PROVE  counter'[b] <= Tally(q)'
    <3>1. q # s /\ blamed[b] = {q}
      BY <2>1, <1>3, EndedFacts
    <3> QED
      BY <3>1, <2>1, <1>2, <1>4 DEF MonitorInv, CounterIsEarned, Tally
  <2>2. \A b \in Adapters : b # a /\ blamed'[b] = {} => counter'[b] = 0
    BY <1>3, <1>4, EndedFacts DEF MonitorInv, CounterIsEarned
  <2> QED
    BY <2>1, <2>2, <1>3, <1>4 DEF CounterIsEarned
<1> QED
  BY <1>5, <1>6, <1>7, <1>8 DEF MonitorInv

(* A check counts a failure, for the first time or after it has counted    *)
(* once; the alert is due only if somebody else has counted too.           *)
LEMMA CountInv ==
  ASSUME MonitorInv, NEW s \in Slots, NEW threshold \in {2, 3},
         NEW stage \in CountedOnce \cup CountedTwice,
         Count(s, threshold, stage),
         slot[s].at # "idle",
         slot[s].at \notin CountedTwice,
         slot[s].at \in CountedOnce => threshold = 3 /\ stage \in CountedTwice,
         open' = open, scheduled' = scheduled
  PROVE  /\ MonitorInv'
         /\ slot'[s].of = slot[s].of
         /\ slot'[s].due => blamed'[slot[s].of] # {s}
         /\ \A q \in Slots : q # s => slot'[q] = slot[q]
<1> DEFINE a == slot[s].of
<1>1. a \in Adapters /\ counter[a] \in 0 .. 3
  BY DEF MonitorInv, MonitorTypeOK, JobsHaveAdapters
<1>2. /\ slot' \in [Slots -> SlotType]
      /\ slot'[s].at = stage /\ slot'[s].of = a
      /\ slot'[s].due <=> counter[a] + 1 >= threshold
      /\ \A q \in Slots : q # s => slot'[q] = slot[q]
  <2>1. stage \in Stages
    BY StageFacts
  <2>2. (counter[a] + 1 >= threshold) \in BOOLEAN
    OBVIOUS
  <2>3. slot' = [slot EXCEPT ![s] = [slot[s] EXCEPT !.at = stage,
                                                    !.due = (counter[a] + 1 >= threshold)]]
    BY DEF Count, MonitorInv, MonitorTypeOK
  <2> HIDE DEF a
  <2> QED
    BY <2>1, <2>2, <2>3 DEF MonitorInv, MonitorTypeOK, SlotType, a
<1>3. /\ blamed' \in [Adapters -> SUBSET (Slots \cup {Past})]
      /\ blamed'[a] = blamed[a] \cup {s}
      /\ \A b \in Adapters : b # a => blamed'[b] = blamed[b]
  BY <1>1 DEF MonitorInv, MonitorTypeOK, Count
<1>4. /\ counter' \in [Adapters -> 0 .. 3]
      /\ counter'[a] <= counter[a] + 1
      /\ \A b \in Adapters : b # a => counter'[b] = counter[b]
  BY <1>1 DEF MonitorInv, MonitorTypeOK, Count
<1>5. MonitorTypeOK'
  BY <1>2, <1>3, <1>4 DEF MonitorInv, MonitorTypeOK, SlotType
<1>6. JobsHaveAdapters'
  BY <1>1, <1>2 DEF MonitorInv, JobsHaveAdapters
<1>7. BlamedHasCounted'
  BY <1>2, <1>3 DEF MonitorInv, BlamedHasCounted
<1>8. \A b \in Adapters : b # a => s \notin blamed[b]
  BY DEF MonitorInv, BlamedHasCounted
(* Alone to blame, the job had counted at most once: it counts 1 or 2. *)
<1>9. blamed'[a] = {s} =>
        /\ counter[a] = 0 \/ (counter[a] <= 1 /\ slot[s].at \in CountedOnce)
  <2>1. ASSUME blamed'[a] = {s}, blamed[a] # {}
        PROVE  counter[a] <= 1 /\ slot[s].at \in CountedOnce
    <3>1. blamed[a] = {s}
      BY <2>1, <1>3
    <3>2. slot[s].at \in CountedOnce
      BY <3>1, <1>1 DEF MonitorInv, BlamedHasCounted
    <3> QED
      BY <3>1, <3>2, <1>1 DEF MonitorInv, CounterIsEarned, Tally
  <2> QED
    BY <2>1, <1>1 DEF MonitorInv, CounterIsEarned
<1>10. CounterIsEarned'
  <2>1. ASSUME NEW q \in Slots, blamed'[a] = {q} PROVE counter'[a] <= Tally(q)'
    <3>1. q = s
      BY <2>1, <1>3
    <3>2. counter'[a] \in 0 .. 3
      BY <1>1, <1>4
    <3>3. CASE counter[a] = 0
      BY <3>1, <3>2, <3>3, <1>4 DEF Tally
    <3>4. CASE counter[a] <= 1 /\ slot[s].at \in CountedOnce
      <4>1. Tally(s)' = 2
        BY <3>4, <1>2 DEF Tally, CountedOnce, CountedTwice
      <4> QED
        BY <3>1, <3>2, <3>4, <4>1, <1>1, <1>4
    <3> QED
      BY <2>1, <3>1, <3>3, <3>4, <1>9
  <2>2. ASSUME NEW b \in Adapters, b # a, NEW q \in Slots, blamed'[b] = {q}
        PROVE  counter'[b] <= Tally(q)'
    <3>1. q # s /\ blamed[b] = {q}
      BY <2>2, <1>3, <1>8
    <3> QED
      BY <3>1, <2>2, <1>2, <1>4 DEF MonitorInv, CounterIsEarned, Tally
  <2>3. \A b \in Adapters : blamed'[b] = {} => counter'[b] = 0
    BY <1>3, <1>4 DEF MonitorInv, CounterIsEarned
  <2> QED
    BY <2>1, <2>2, <2>3 DEF CounterIsEarned
<1>11. slot'[s].due => blamed'[a] # {s}
  <2>1. ASSUME blamed'[a] = {s} PROVE counter[a] + 1 < threshold
    <3>1. CASE counter[a] = 0
      BY <3>1
    <3>2. CASE counter[a] <= 1 /\ slot[s].at \in CountedOnce
      BY <3>2, <1>1
    <3> QED
      BY <2>1, <3>1, <3>2, <1>9
  <2> QED
    BY <2>1, <1>1, <1>2
<1> QED
  BY <1>2, <1>5, <1>6, <1>7, <1>10, <1>11 DEF MonitorInv

-----------------------------------------------------------------------------
(* What a step of a job does: it keeps the invariant, and if it counts a   *)
(* failure that makes an alert due, another check has counted.             *)
NoLoneAlert(s) ==
  (slot'[s] # slot[s] /\ slot'[s].at \in CountedStages /\ slot'[s].due)
     => blamed'[slot'[s].of] # {s}

LEMMA CountSteps ==
  ASSUME MonitorInv, NEW s \in Slots,
         \/ slot[s].at = "recordUnhealthy" /\ handleUnhealthyAdapter(s)
         \/ slot[s].at \in LivenessTry /\ handleProbeFailure(s)
         \/ slot[s].at = "acquiring" /\ handleCanaryFailure(s),
         open' = open, scheduled' = scheduled
  PROVE  MonitorInv' /\ \A q \in Slots : NoLoneAlert(q)
<1>1. CASE slot[s].at = "recordUnhealthy" /\ handleUnhealthyAdapter(s)
  <2>1. slot[s].at \notin CountedOnce \cup CountedTwice /\ slot[s].at # "idle"
    BY <1>1 DEF CountedOnce, CountedTwice
  <2>2. "auditUnhealthy" \in CountedOnce
    BY DEF CountedOnce
  <2> QED
    BY <1>1, <2>1, <2>2, CountInv DEF handleUnhealthyAdapter, NoLoneAlert
<1>2. CASE slot[s].at \in LivenessTry /\ handleProbeFailure(s)
  <2>1. slot[s].at \notin CountedTwice /\ slot[s].at # "idle" /\ "auditProbeFailed" \in CountedTwice
    BY <1>2 DEF CountedTwice, LivenessTry
  <2> QED
    BY <1>2, <2>1, CountInv DEF handleProbeFailure, NoLoneAlert
<1>3. CASE slot[s].at = "acquiring" /\ handleCanaryFailure(s)
  <2>1. slot[s].at \notin CountedOnce \cup CountedTwice /\ slot[s].at # "idle"
    BY <1>3 DEF CountedOnce, CountedTwice
  <2>2. "auditCanaryFailed" \in CountedOnce
    BY DEF CountedOnce
  <2> QED
    BY <1>3, <2>1, <2>2, CountInv DEF handleCanaryFailure, NoLoneAlert
<1> QED
  BY <1>1, <1>2, <1>3

(* Steps after which no job newly waits for the audit of a failure. *)
LEMMA NoCountNoAlert ==
  ASSUME NEW s \in Slots, MonitorInv,
         \A q \in Slots : q # s => slot'[q] = slot[q],
         slot'[s].at \notin CountedStages
  PROVE  \A q \in Slots : NoLoneAlert(q)
BY DEF NoLoneAlert

(* A job that is not to blame goes on, or begins. *)
LEMMA BlamelessStep ==
  ASSUME MonitorInv, NEW s \in Slots, slot[s].at \notin CountedOnce \cup CountedTwice,
         slot' \in [Slots -> SlotType], slot'[s].of \in Adapters,
         \A q \in Slots : q # s => slot'[q] = slot[q],
         slot'[s].at \notin CountedStages,
         counter' = counter, blamed' = blamed, open' = open, scheduled' = scheduled
  PROVE  MonitorInv' /\ \A q \in Slots : NoLoneAlert(q)
<1>1. \A a \in Adapters : s \notin blamed[a]
  BY DEF MonitorInv, BlamedHasCounted
<1>2. MonitorTypeOK'
  BY DEF MonitorInv, MonitorTypeOK, SlotType
<1>3. JobsHaveAdapters'
  BY DEF MonitorInv, JobsHaveAdapters
<1>4. BlamedHasCounted'
  BY <1>1 DEF MonitorInv, BlamedHasCounted
<1>5. CounterIsEarned'
  BY <1>1 DEF MonitorInv, CounterIsEarned, Tally
<1> QED
  BY <1>2, <1>3, <1>4, <1>5, NoCountNoAlert DEF MonitorInv

LEMMA GoStep ==
  ASSUME MonitorInv, NEW s \in Slots, NEW stage \in Stages \ ({"idle"} \cup CountedStages),
         Go(s, stage),
         slot[s].at # "idle",
         slot[s].at \in CountedOnce => stage \in CountedOnce \cup CountedTwice,
         slot[s].at \in CountedTwice => stage \in CountedTwice,
         counter' = counter, blamed' = blamed, open' = open, scheduled' = scheduled
  PROVE  MonitorInv' /\ \A q \in Slots : NoLoneAlert(q)
<1>1. MonitorInv'
  BY GoInv
<1>2. slot'[s].at = stage /\ \A q \in Slots : q # s => slot'[q] = slot[q]
  BY DEF Go, MonitorInv, MonitorTypeOK
<1> QED
  BY <1>1, <1>2, NoCountNoAlert

LEMMA EndStep ==
  ASSUME MonitorInv, NEW s \in Slots, EndJob(s),
         counter' = counter, open' = open, scheduled' = scheduled
  PROVE  MonitorInv' /\ \A q \in Slots : NoLoneAlert(q)
<1>1. MonitorInv'
  BY EndJobInv
<1>2. slot'[s].at \notin CountedStages /\ \A q \in Slots : q # s => slot'[q] = slot[q]
  BY DEF EndJob, MonitorInv, MonitorTypeOK, Idle, CountedStages
<1> QED
  BY <1>1, <1>2, NoCountNoAlert

LEMMA ResetStep ==
  ASSUME MonitorInv, NEW s \in Slots, slot[s].at # "idle", ResetAndEnd(s),
         open' = open, scheduled' = scheduled
  PROVE  MonitorInv' /\ \A q \in Slots : NoLoneAlert(q)
<1>1. MonitorInv'
  BY ResetAndEndInv
<1>2. slot'[s].at \notin CountedStages /\ \A q \in Slots : q # s => slot'[q] = slot[q]
  BY DEF ResetAndEnd, MonitorInv, MonitorTypeOK, Idle, CountedStages
<1> QED
  BY <1>1, <1>2, NoCountNoAlert

LEMMA NextAdapterStep ==
  ASSUME MonitorInv, NEW s \in Slots,
         slot[s].at \in TrendTry \cup {"auditTrendError"},
         NextAdapter(s), counter' = counter, open' = open, scheduled' = scheduled
  PROVE  MonitorInv' /\ \A q \in Slots : NoLoneAlert(q)
<1>1. CASE EndJob(s)
  BY <1>1, EndStep
<1>2. ASSUME NEW a \in slot[s].left,
             slot' = [slot EXCEPT ![s].at = "averages", ![s].of = a, ![s].left = @ \ {a}],
             blamed' = blamed
      PROVE  MonitorInv' /\ \A q \in Slots : NoLoneAlert(q)
  <2>1. slot[s] \in SlotType /\ a \in Adapters
    BY <1>2 DEF MonitorInv, MonitorTypeOK, SlotType
  <2>2. slot' \in [Slots -> SlotType] /\ slot'[s].of = a /\ slot'[s].at = "averages"
    BY <1>2, <2>1, StageFacts DEF MonitorInv, MonitorTypeOK, SlotType, TrendTry
  <2>3. \A q \in Slots : q # s => slot'[q] = slot[q]
    BY <1>2 DEF MonitorInv, MonitorTypeOK
  <2>4. slot[s].at \notin CountedOnce \cup CountedTwice /\ "averages" \notin CountedStages
    BY DEF TrendTry, CountedOnce, CountedTwice, CountedStages
  <2> QED
    BY <1>2, <2>1, <2>2, <2>3, <2>4, BlamelessStep
<1> QED
  BY <1>1, <1>2 DEF NextAdapter

(* Start of a job in an idle slot. *)
LEMMA StartStep ==
  ASSUME MonitorInv, NEW s \in Slots,
         StartTrend(s) \/ \E k \in Kinds, a \in Adapters : Start(s, k, a)
  PROVE  MonitorInv' /\ \A q \in Slots : NoLoneAlert(q)
<1>1. slot[s] = Idle
  BY DEF StartTrend, Start
<1>2. slot[s].at \notin CountedOnce \cup CountedTwice
  BY <1>1 DEF Idle, CountedOnce, CountedTwice
<1>3. \A q \in Slots : q # s => slot'[q] = slot[q]
  BY DEF StartTrend, Start, MonitorInv, MonitorTypeOK
<1>4. /\ slot' \in [Slots -> SlotType]
      /\ slot'[s].of \in Adapters
      /\ slot'[s].at \notin CountedStages
  <2>1. CASE StartTrend(s)
    <3>1. "averages" \in Stages /\ "averages" \notin CountedStages
      BY StageFacts DEF TrendTry, CountedStages
    <3> QED
      BY <2>1, <3>1 DEF StartTrend, MonitorInv, MonitorTypeOK, SlotType
  <2>2. ASSUME NEW k \in Kinds, NEW a \in Adapters, Start(s, k, a)
        PROVE  /\ slot' \in [Slots -> SlotType]
               /\ slot'[s].of \in Adapters
               /\ slot'[s].at \notin CountedStages
    <3>1. PICK stage \in {"probing", "cacheGet", "acquiring", "auditJobError"} :
            slot' = [slot EXCEPT ![s].at = stage, ![s].of = a]
      BY <2>2 DEF Start, Kinds
    <3>2. stage \in Stages /\ stage \notin CountedStages
      BY DEF Stages, LivenessTry, CanaryTry, Uncaught, CountedStages
    <3> QED
      BY <3>1, <3>2 DEF MonitorInv, MonitorTypeOK, SlotType
  <2> QED
    BY <2>1, <2>2
<1>5. counter' = counter /\ blamed' = blamed /\ open' = open /\ scheduled' = scheduled
  BY DEF StartTrend, Start
<1> QED
  BY <1>2, <1>3, <1>4, <1>5, BlamelessStep

-----------------------------------------------------------------------------
USE DEF Stages, LivenessTry, CanaryTry, TrendTry, Uncaught, CountedStages, CountedOnce, CountedTwice

LEMMA StepKeeps ==
  ASSUME MonitorInv, NEW s \in Slots, Step(s)
  PROVE  MonitorInv' /\ \A q \in Slots : NoLoneAlert(q)
<1>1. CASE ProbeReturns(s)
  BY <1>1, GoStep DEF ProbeReturns
<1>2. CASE ProbeRecorded(s)
  BY <1>2, ResetStep, CountSteps DEF ProbeRecorded
<1>3. CASE LivenessThrows(s)
  BY <1>3, CountSteps DEF LivenessThrows
<1>4. CASE CanaryReturns(s)
  BY <1>4, GoStep, CountSteps DEF CanaryReturns
<1>5. CASE CanaryRecorded(s)
  BY <1>5, ResetStep DEF CanaryRecorded
<1>6. CASE CanaryThrows(s)
  BY <1>6, GoStep DEF CanaryThrows, handleCanaryException
<1>7. CASE FailureAudited(s)
  <2>1. CASE slot[s].due
    BY <1>7, <2>1, GoStep DEF FailureAudited
  <2>2. CASE ~slot[s].due
    BY <1>7, <2>2, EndStep DEF FailureAudited
  <2> QED
    BY <2>1, <2>2
<1>8. CASE LastReturns(s)
  BY <1>8, EndStep DEF LastReturns
<1>9. CASE CacheReturns(s)
  BY <1>9, GoStep, EndStep DEF CacheReturns
<1>10. CASE AveragesReturn(s)
  BY <1>10, GoStep, NextAdapterStep DEF AveragesReturn
<1>11. CASE TrendReported(s)
  BY <1>11, NextAdapterStep DEF TrendReported
<1>12. CASE TrendThrows(s)
  BY <1>12, GoStep DEF TrendThrows
<1>13. CASE JobThrows(s)
  BY <1>13, GoStep DEF JobThrows
<1>14. CASE JobErrorAudited(s)
  BY <1>14, EndStep DEF JobErrorAudited
<1> QED
  BY <1>1, <1>2, <1>3, <1>4, <1>5, <1>6, <1>7, <1>8, <1>9, <1>10, <1>11, <1>12, <1>13, <1>14
     DEF Step

LEMMA NextKeeps ==
  ASSUME MonitorInv, [MonitorNext]_monitorVars
  PROVE  MonitorInv' /\ \A q \in Slots : NoLoneAlert(q)
<1>1. CASE UNCHANGED monitorVars
  BY <1>1 DEF monitorVars, MonitorInv, MonitorTypeOK, JobsHaveAdapters, BlamedHasCounted,
      CounterIsEarned, Tally,
              NoLoneAlert
<1>2. CASE ScheduleNext
  <2>1. scheduled' \subseteq Jobs
    <3>1. TrendJob \in Jobs /\ \A k \in Kinds, a \in Adapters : <<k, a>> \in Jobs
      BY DEF Jobs
    <3>2. PICK added \in Jobs : scheduled' = scheduled \cup {added}
      BY <1>2, <3>1 DEF ScheduleNext
    <3> QED
      BY <3>2 DEF MonitorInv, MonitorTypeOK
  <2> QED
    BY <1>2, <2>1 DEF ScheduleNext, MonitorInv, MonitorTypeOK, JobsHaveAdapters, BlamedHasCounted,
                      CounterIsEarned, Tally, NoLoneAlert
<1>3. CASE Stop
  BY <1>3 DEF Stop, MonitorInv, MonitorTypeOK, JobsHaveAdapters, BlamedHasCounted,
      CounterIsEarned, Tally,
              NoLoneAlert
<1>4. CASE RestartMonitor
  <2>1. MonitorTypeOK'
    BY <1>4 DEF RestartMonitor, MonitorInv, MonitorTypeOK, Idle
  <2>2. JobsHaveAdapters' /\ BlamedHasCounted' /\ CounterIsEarned'
    BY <1>4 DEF RestartMonitor, JobsHaveAdapters, BlamedHasCounted, CounterIsEarned, Idle
  <2>3. \A q \in Slots : NoLoneAlert(q)
    BY <1>4 DEF RestartMonitor, NoLoneAlert, Idle
  <2> QED
    BY <2>1, <2>2, <2>3 DEF MonitorInv
<1>5. ASSUME NEW s \in Slots, Step(s) PROVE MonitorInv' /\ \A q \in Slots : NoLoneAlert(q)
  BY <1>5, StepKeeps
<1>6. ASSUME NEW s \in Slots, StartTrend(s) \/ \E k \in Kinds, a \in Adapters : Start(s, k, a)
      PROVE  MonitorInv' /\ \A q \in Slots : NoLoneAlert(q)
  BY <1>6, StartStep
<1> QED
  BY <1>1, <1>2, <1>3, <1>4, <1>5, <1>6 DEF MonitorNext

-----------------------------------------------------------------------------
(* Every variable keeps its type. *)
THEOREM MonitorTypeCorrect == MonitorSpec => []MonitorTypeOK
<1>1. MonitorInv /\ [MonitorNext]_monitorVars => MonitorInv'
  BY NextKeeps
<1>2. MonitorInv => MonitorTypeOK
  BY DEF MonitorInv
<1> QED
  BY <1>1, <1>2, InitMonitorInv, PTL DEF MonitorSpec

(* No alert stems from one check alone, although a liveness check may      *)
(* count twice and checks of all kinds share the counter.                  *)
THEOREM LoneChecksDoNotAlert == MonitorSpec => AlertsNeedTwoChecks
<1>1. MonitorInv /\ [MonitorNext]_monitorVars => MonitorInv'
  BY NextKeeps
<1>2. MonitorInv /\ [MonitorNext]_monitorVars =>
        [\A s \in Slots :
           (slot'[s] # slot[s] /\ slot'[s].at \in CountedStages /\ slot'[s].due)
             => blamed'[slot'[s].of] # {s}]_monitorVars
  BY NextKeeps DEF NoLoneAlert
<1> QED
  BY <1>1, <1>2, InitMonitorInv, PTL DEF MonitorSpec, AlertsNeedTwoChecks

-----------------------------------------------------------------------------
(* Retention. *)
USE DEF IsStored, NotYet, Gone, Stored, IdleRun, IdleJob

Due(b) == IsStored(b) /\ HasLimit(blob[b].type) /\ blob[b].age >= MaxAgeDays(blob[b].type)

Chosen(j, b) == b = job[j].of \/ b \in job[j].left

(* Only evidence gets a date. *)
DatedIsEvidence ==
  \A b \in Blobs : IsStored(b) /\ blob[b].expires # "none" => blob[b].type \in EvidenceTypes

(* What a job has listed was due then; it is due still, or gone. *)
ChosenIsDue == \A j \in ExpiryJobs : \A b \in Blobs : Chosen(j, b) => blob[b] = Gone \/ Due(b)

(* A job at its second or third await has a record, and at the third it is *)
(* in the audit log.                                                       *)
DeletingIsAudited ==
  \A j \in ExpiryJobs :
    /\ job[j].at \in {"metadata", "deleting"} => job[j].of \in Blobs
    /\ job[j].at = "deleting" => job[j].of \in audited

(* executePurge has passed its check of the grace period. *)
PurgingIsAllowed == \A r \in Runs : run[r].at = "purging" => ~grace

RetentionInv ==
  /\ RetentionTypeOK
  /\ OneRunAtATime
  /\ DatedIsEvidence
  /\ ChosenIsDue
  /\ DeletingIsAudited
  /\ PurgingIsAllowed

-----------------------------------------------------------------------------
(* What the limits are worth. *)
LEMMA LimitsAreDays ==
  ASSUME NEW t \in Types, HasLimit(t)
  PROVE  /\ MaxAgeDays(t) \in Nat
         /\ t \in EvidenceTypes => MaxAgeDays(t) <= 90
BY RetentionAssumption DEF RetentionAssumption, HasLimit, MaxAgeDays, DataTypes, EvidenceTypes

LEMMA EvidenceHasLimit == \A t \in EvidenceTypes : HasLimit(t)
BY DEF EvidenceTypes, HasLimit

(* A record has the fields of its state. *)
LEMMA BlobShape ==
  ASSUME RetentionTypeOK, NEW b \in Blobs
  PROVE  /\ IsStored(b) <=> blob[b] \in Stored
         /\ IsStored(b) => /\ blob[b].type \in Types
                           /\ blob[b].age \in 0 .. OldestAge
                           /\ blob[b].expires \in {"pending", "none", "flat", "bytype"}
                           /\ blob[b] # Gone
         /\ ~IsStored(b) => blob[b] \in {NotYet, Gone}
BY DEF RetentionTypeOK

(* An expired record is due: the flat 90 days are no less than any limit   *)
(* of evidence.                                                            *)
LEMMA ExpiredIsDue ==
  ASSUME RetentionTypeOK, DatedIsEvidence, NEW b \in Blobs, Expired(b)
  PROVE  Due(b)
<1>1. IsStored(b) /\ blob[b].expires \in {"flat", "bytype"} /\ blob[b].age >= ExpiryDays(b)
  BY DEF Expired
<1>2. blob[b].type \in EvidenceTypes
  BY <1>1 DEF DatedIsEvidence
<1>3. HasLimit(blob[b].type) /\ blob[b].type \in Types /\ blob[b].age \in Nat
  BY <1>1, <1>2, EvidenceHasLimit, BlobShape, RetentionAssumption DEF RetentionAssumption
<1>4. MaxAgeDays(blob[b].type) \in Nat /\ MaxAgeDays(blob[b].type) <= 90
  BY <1>2, <1>3, LimitsAreDays
<1> QED
  BY <1>1, <1>3, <1>4 DEF ExpiryDays, Due

-----------------------------------------------------------------------------
LEMMA InitRetentionInv == RetentionInit => RetentionInv
<1> SUFFICES ASSUME RetentionInit PROVE RetentionInv
  OBVIOUS
<1>1. RetentionTypeOK
  BY DEF RetentionInit, RetentionTypeOK
<1>2. OneRunAtATime /\ PurgingIsAllowed
  BY DEF RetentionInit, OneRunAtATime, PurgingIsAllowed
<1>3. DatedIsEvidence
  BY DEF RetentionInit, DatedIsEvidence
<1>4. ChosenIsDue /\ DeletingIsAudited
  BY RetentionAssumption DEF RetentionAssumption, RetentionInit, ChosenIsDue, Chosen,
      DeletingIsAudited
<1> QED
  BY <1>1, <1>2, <1>3, <1>4 DEF RetentionInv

(* What steps that leave the records alone keep. *)
LEMMA StoreKept ==
  ASSUME RetentionInv, blob' = blob
  PROVE  DatedIsEvidence' /\ \A b \in Blobs : Due(b) => Due(b)'
BY DEF RetentionInv, DatedIsEvidence, Due

LEMMA JobsKept ==
  ASSUME RetentionInv, job' = job, audited' = audited,
         \A b \in Blobs : blob[b] = Gone \/ Due(b) => blob'[b] = Gone \/ Due(b)'
  PROVE  ChosenIsDue' /\ DeletingIsAudited'
BY DEF RetentionInv, ChosenIsDue, Chosen, DeletingIsAudited

LEMMA RunsKept ==
  ASSUME RetentionInv, run' = run, isRunning' = isRunning, grace' => grace
  PROVE  OneRunAtATime' /\ PurgingIsAllowed'
BY DEF RetentionInv, OneRunAtATime, PurgingIsAllowed

LEMMA StoreInv ==
  ASSUME RetentionInv, NEW b \in Blobs, NEW t \in Types, Store(b, t)
  PROVE  RetentionInv'
<1>1. RetentionTypeOK'
  BY RetentionAssumption DEF RetentionAssumption, RetentionInv, RetentionTypeOK, Store
<1>2. DatedIsEvidence'
  BY DEF RetentionInv, RetentionTypeOK, DatedIsEvidence, Store
<1>3. \A c \in Blobs : blob[c] = Gone \/ Due(c) => blob'[c] = Gone \/ Due(c)'
  BY DEF RetentionInv, RetentionTypeOK, Store, Due
<1> QED
  BY <1>1, <1>2, <1>3, JobsKept, RunsKept DEF RetentionInv, Store

LEMMA SetExpiryInv ==
  ASSUME RetentionInv, NEW b \in Blobs, SetExpiry(b)
  PROVE  RetentionInv'
<1>1. PICK e \in {"flat", "bytype", "none"} : blob' = [blob EXCEPT ![b].expires = e]
  BY DEF SetExpiry
<1>2. blob[b] \in Stored /\ blob[b].expires = "pending"
  BY BlobShape DEF RetentionInv, SetExpiry
<1>3. /\ blob'[b] \in Stored
      /\ blob'[b].type = blob[b].type /\ blob'[b].age = blob[b].age
      /\ \A c \in Blobs : c # b => blob'[c] = blob[c]
  BY <1>1, <1>2 DEF RetentionInv, RetentionTypeOK
<1>4. RetentionTypeOK'
  BY <1>1, <1>3 DEF RetentionInv, RetentionTypeOK, SetExpiry
<1>5. DatedIsEvidence'
  BY <1>2, <1>3 DEF RetentionInv, DatedIsEvidence
<1>6. \A c \in Blobs : blob[c] = Gone \/ Due(c) => blob'[c] = Gone \/ Due(c)'
  BY <1>2, <1>3 DEF Due
<1> QED
  BY <1>4, <1>5, <1>6, JobsKept, RunsKept DEF RetentionInv, SetExpiry

LEMMA DaysPassInv ==
  ASSUME RetentionInv, NEW n \in Jumps, DaysPass(n)
  PROVE  RetentionInv'
<1> DEFINE age(b) == IF blob[b].age + n > OldestAge THEN OldestAge ELSE blob[b].age + n
<1>1. ASSUME NEW b \in Blobs, IsStored(b)
      PROVE  /\ blob'[b] \in Stored
             /\ blob'[b].type = blob[b].type /\ blob'[b].expires = blob[b].expires
             /\ blob'[b].age >= blob[b].age /\ blob'[b].age \in Nat
  <2>1. blob'[b] = [blob[b] EXCEPT !.age = age(b)]
    BY <1>1 DEF DaysPass
  <2>2. blob[b] \in Stored
    BY <1>1, BlobShape DEF RetentionInv
  <2>3. age(b) \in 0 .. OldestAge /\ age(b) >= blob[b].age
    BY <2>2, RetentionAssumption DEF RetentionAssumption
  <2> QED
    BY <2>1, <2>2, <2>3, RetentionAssumption DEF RetentionAssumption
<1>2. \A b \in Blobs : ~IsStored(b) => blob'[b] = blob[b]
  BY DEF DaysPass
<1>3. blob' = [b \in Blobs |-> blob'[b]]
  BY DEF DaysPass
<1>4. RetentionTypeOK'
  <2>1. \A b \in Blobs : blob'[b] \in Stored \cup {NotYet, Gone}
    BY <1>1, <1>2, BlobShape DEF RetentionInv
  <2> QED
    BY <1>3, <2>1 DEF RetentionInv, RetentionTypeOK, DaysPass
<1>5. DatedIsEvidence'
  BY <1>1, <1>2 DEF RetentionInv, DatedIsEvidence
<1>6. \A b \in Blobs : blob[b] = Gone \/ Due(b) => blob'[b] = Gone \/ Due(b)'
  <2>1. ASSUME NEW b \in Blobs, Due(b) PROVE Due(b)'
    <3>1. MaxAgeDays(blob[b].type) \in Nat /\ blob[b].age \in Nat
      BY <2>1, BlobShape, LimitsAreDays, RetentionAssumption DEF RetentionAssumption, Due,
          RetentionInv
    <3> QED
      BY <2>1, <3>1, <1>1 DEF Due
  <2> QED
    BY <2>1, <1>2
<1> QED
  BY <1>4, <1>5, <1>6, JobsKept, RunsKept DEF RetentionInv, DaysPass

-----------------------------------------------------------------------------
(* The policy engine *)

(* Nobody else is at work, so the end of the run clears the flag rightly.  *)
LEMMA EndRunInv ==
  ASSUME RetentionInv, NEW r \in Runs, run[r] # IdleRun, EndRun(r), grace' = grace
  PROVE  /\ run' \in [Runs -> [at : {"idle", "scanning", "purging"}, left : SUBSET Types]]
         /\ isRunning' \in BOOLEAN
         /\ OneRunAtATime' /\ PurgingIsAllowed'
<1>1. run' \in [Runs -> [at : {"idle", "scanning", "purging"}, left : SUBSET Types]]
  BY DEF RetentionInv, RetentionTypeOK, EndRun
<1>2. \A s \in Runs : run'[s] = IdleRun
  BY DEF RetentionInv, RetentionTypeOK, OneRunAtATime, EndRun
<1> QED
  BY <1>1, <1>2 DEF EndRun, OneRunAtATime, PurgingIsAllowed

LEMMA StartRunInv ==
  ASSUME RetentionInv, NEW r \in Runs, StartRun(r)
  PROVE  RetentionInv'
<1>1. RetentionTypeOK'
  BY DEF RetentionInv, RetentionTypeOK, StartRun
<1>2. \A s \in Runs : run[s] = IdleRun
  BY DEF RetentionInv, OneRunAtATime, StartRun
<1>3. run'[r].at = "scanning" /\ \A s \in Runs : s # r => run'[s] = IdleRun
  BY <1>2 DEF RetentionInv, RetentionTypeOK, StartRun
<1>4. OneRunAtATime' /\ PurgingIsAllowed'
  BY <1>3 DEF OneRunAtATime, PurgingIsAllowed, StartRun
<1> QED
  BY <1>1, <1>4, StoreKept, JobsKept DEF RetentionInv, StartRun

LEMMA ScanReturnsInv ==
  ASSUME RetentionInv, NEW r \in Runs, ScanReturns(r)
  PROVE  RetentionInv'
<1> DEFINE left == {t \in Types : HasLimit(t)}
<1>1. run[r] # IdleRun
  BY DEF ScanReturns
<1>2. /\ run' \in [Runs -> [at : {"idle", "scanning", "purging"}, left : SUBSET Types]]
      /\ isRunning' \in BOOLEAN
      /\ OneRunAtATime' /\ PurgingIsAllowed'
  <2>1. CASE EndRun(r)
    BY <2>1, <1>1, EndRunInv DEF ScanReturns
  <2>2. CASE /\ ~grace
             /\ run' = [run EXCEPT ![r] = [at |-> "purging", left |-> left]]
             /\ isRunning' = isRunning
    <3>1. run' \in [Runs -> [at : {"idle", "scanning", "purging"}, left : SUBSET Types]]
      BY <2>2 DEF RetentionInv, RetentionTypeOK
    <3>2. run'[r] # IdleRun /\ \A s \in Runs : s # r => run'[s] = run[s]
      BY <2>2 DEF RetentionInv, RetentionTypeOK
    <3>3. OneRunAtATime'
      BY <3>2, <2>2, <1>1 DEF RetentionInv, OneRunAtATime
    <3>4. PurgingIsAllowed'
      BY <2>2 DEF PurgingIsAllowed, ScanReturns
    <3> QED
      BY <3>1, <3>3, <3>4, <2>2 DEF RetentionInv, RetentionTypeOK
  <2> QED
    BY <2>1, <2>2 DEF ScanReturns
<1>3. RetentionTypeOK'
  BY <1>2 DEF RetentionInv, RetentionTypeOK, ScanReturns
<1> QED
  BY <1>2, <1>3, StoreKept, JobsKept DEF RetentionInv, ScanReturns

LEMMA PurgeTypeInv ==
  ASSUME RetentionInv, NEW r \in Runs, NEW t \in Types, NEW p \in SUBSET Blobs, PurgeType(r, t, p)
  PROVE  RetentionInv'
<1>1. run[r] # IdleRun
  BY DEF PurgeType
<1>2. /\ run' \in [Runs -> [at : {"idle", "scanning", "purging"}, left : SUBSET Types]]
      /\ isRunning' \in BOOLEAN
      /\ OneRunAtATime' /\ PurgingIsAllowed'
  <2>1. CASE EndRun(r)
    BY <2>1, <1>1, EndRunInv DEF PurgeType
  <2>2. CASE run' = [run EXCEPT ![r].left = @ \ {t}] /\ isRunning' = isRunning
    <3>1. run' \in [Runs -> [at : {"idle", "scanning", "purging"}, left : SUBSET Types]]
      BY <2>2 DEF RetentionInv, RetentionTypeOK
    <3>2. run'[r].at = "purging" /\ \A s \in Runs : s # r => run'[s] = run[s]
      BY <2>2 DEF RetentionInv, RetentionTypeOK, PurgeType
    <3>3. OneRunAtATime'
      BY <3>2, <2>2, <1>1 DEF RetentionInv, OneRunAtATime
    <3>4. PurgingIsAllowed'
      BY <3>2 DEF RetentionInv, PurgingIsAllowed, PurgeType
    <3> QED
      BY <3>1, <3>3, <3>4, <2>2 DEF RetentionInv, RetentionTypeOK
  <2> QED
    BY <2>1, <2>2 DEF PurgeType
<1>3. \A b \in Blobs : blob'[b] = IF b \in p THEN Gone ELSE blob[b]
  BY DEF PurgeType
<1>4. RetentionTypeOK'
  BY <1>2, <1>3 DEF RetentionInv, RetentionTypeOK, PurgeType
<1>5. DatedIsEvidence'
  BY <1>3 DEF RetentionInv, DatedIsEvidence
<1>6. \A b \in Blobs : blob[b] = Gone \/ Due(b) => blob'[b] = Gone \/ Due(b)'
  BY <1>3 DEF Due
<1> QED
  BY <1>2, <1>4, <1>5, <1>6, JobsKept DEF RetentionInv, PurgeType

-----------------------------------------------------------------------------
(* Expiry of evidence *)

(* The loop goes on with records that are due or gone. *)
LEMMA NextOfInv ==
  ASSUME RetentionInv, NEW j \in ExpiryJobs, NEW left \in SUBSET Blobs, NextOf(j, left),
         \A b \in left : blob[b] = Gone \/ Due(b),
         \A b \in Blobs : blob[b] = Gone \/ Due(b) => blob'[b] = Gone \/ Due(b)',
         audited' = audited
  PROVE  /\ job' \in [ExpiryJobs -> [at : {"idle", "listing", "metadata", "deleting"},
                                     of : Blobs \cup {NoBlob}, left : SUBSET Blobs]]
         /\ ChosenIsDue' /\ DeletingIsAudited'
<1>1. /\ job' \in [ExpiryJobs -> [at : {"idle", "listing", "metadata", "deleting"},
                                  of : Blobs \cup {NoBlob}, left : SUBSET Blobs]]
      /\ \A i \in ExpiryJobs : i # j => job'[i] = job[i]
      /\ \/ job'[j] = IdleJob
         \/ job'[j].at = "metadata" /\ job'[j].of \in left /\ job'[j].left \subseteq left
  <2>1. CASE left = {}
    BY <2>1 DEF NextOf, RetentionInv, RetentionTypeOK
  <2>2. CASE left # {}
    <3>1. PICK b \in left : job' = [job EXCEPT ![j] =
                              [at |-> "metadata", of |-> b, left |-> left \ {b}]]
      BY <2>2 DEF NextOf
    <3> QED
      BY <3>1 DEF RetentionInv, RetentionTypeOK
  <2> QED
    BY <2>1, <2>2
<1>2. \A b \in Blobs : Chosen(j, b)' => b \in left
  BY <1>1, RetentionAssumption DEF RetentionAssumption, Chosen
<1>3. ChosenIsDue'
  BY <1>1, <1>2 DEF RetentionInv, ChosenIsDue, Chosen
<1>4. DeletingIsAudited'
  BY <1>1 DEF RetentionInv, DeletingIsAudited
<1> QED
  BY <1>1, <1>3, <1>4

LEMMA StartExpiryInv ==
  ASSUME RetentionInv, NEW j \in ExpiryJobs, StartExpiry(j)
  PROVE  RetentionInv'
<1>1. /\ RetentionTypeOK'
      /\ \A i \in ExpiryJobs : job'[i].of = job[i].of /\ job'[i].left = job[i].left
      /\ job'[j].at = "listing"
      /\ \A i \in ExpiryJobs : i # j => job'[i] = job[i]
  BY DEF RetentionInv, RetentionTypeOK, StartExpiry
<1>2. ChosenIsDue'
  BY <1>1, StoreKept DEF RetentionInv, ChosenIsDue, Chosen, StartExpiry
<1>3. DeletingIsAudited'
  BY <1>1 DEF RetentionInv, DeletingIsAudited, StartExpiry
<1> QED
  BY <1>1, <1>2, <1>3, StoreKept, RunsKept DEF RetentionInv, StartExpiry

LEMMA ListedInv ==
  ASSUME RetentionInv, NEW j \in ExpiryJobs, Listed(j)
  PROVE  RetentionInv'
<1>1. PICK left \in {{b \in Blobs : Expired(b)}, {}} : NextOf(j, left)
  BY DEF Listed
<1>2. left \in SUBSET Blobs /\ \A b \in left : Due(b)
  BY ExpiredIsDue DEF RetentionInv
<1>3. /\ job' \in [ExpiryJobs -> [at : {"idle", "listing", "metadata", "deleting"},
                                  of : Blobs \cup {NoBlob}, left : SUBSET Blobs]]
      /\ ChosenIsDue' /\ DeletingIsAudited'
  BY <1>1, <1>2, NextOfInv, StoreKept DEF Listed
<1>4. RetentionTypeOK'
  BY <1>3 DEF RetentionInv, RetentionTypeOK, Listed
<1> QED
  BY <1>3, <1>4, StoreKept, RunsKept DEF RetentionInv, Listed

LEMMA MetadataReadInv ==
  ASSUME RetentionInv, NEW j \in ExpiryJobs, MetadataRead(j)
  PROVE  RetentionInv'
<1>1. job[j].of \in Blobs
  BY DEF RetentionInv, DeletingIsAudited, MetadataRead
<1>2. /\ RetentionTypeOK'
      /\ \A i \in ExpiryJobs : job'[i].of = job[i].of /\ job'[i].left = job[i].left
      /\ \A i \in ExpiryJobs : i # j => job'[i] = job[i]
  BY <1>1 DEF RetentionInv, RetentionTypeOK, MetadataRead
<1>3. ChosenIsDue'
  BY <1>2, StoreKept DEF RetentionInv, ChosenIsDue, Chosen, MetadataRead
<1>4. DeletingIsAudited'
  BY <1>1, <1>2 DEF RetentionInv, DeletingIsAudited, MetadataRead
<1> QED
  BY <1>2, <1>3, <1>4, StoreKept, RunsKept DEF RetentionInv, MetadataRead

LEMMA BlobDeletedInv ==
  ASSUME RetentionInv, NEW j \in ExpiryJobs, BlobDeleted(j)
  PROVE  RetentionInv'
<1>1. /\ job[j].of \in Blobs /\ job[j].left \in SUBSET Blobs
      /\ \A b \in job[j].left : blob[b] = Gone \/ Due(b)
  BY DEF RetentionInv, RetentionTypeOK, DeletingIsAudited, ChosenIsDue, Chosen, BlobDeleted
<1>2. \A b \in Blobs : blob'[b] = IF b = job[j].of THEN Gone ELSE blob[b]
  BY DEF RetentionInv, RetentionTypeOK, BlobDeleted
<1>3. \A b \in Blobs : blob[b] = Gone \/ Due(b) => blob'[b] = Gone \/ Due(b)'
  BY <1>2 DEF Due
<1>4. /\ job' \in [ExpiryJobs -> [at : {"idle", "listing", "metadata", "deleting"},
                                  of : Blobs \cup {NoBlob}, left : SUBSET Blobs]]
      /\ ChosenIsDue' /\ DeletingIsAudited'
  BY <1>1, <1>3, NextOfInv DEF BlobDeleted
<1>5. RetentionTypeOK'
  BY <1>1, <1>4 DEF RetentionInv, RetentionTypeOK, BlobDeleted
<1>6. DatedIsEvidence'
  BY <1>2 DEF RetentionInv, DatedIsEvidence
<1> QED
  BY <1>4, <1>5, <1>6, RunsKept DEF RetentionInv, BlobDeleted

LEMMA DeleteFailsInv ==
  ASSUME RetentionInv, NEW j \in ExpiryJobs, DeleteFails(j)
  PROVE  RetentionInv'
<1>1. job[j].left \in SUBSET Blobs /\ \A b \in job[j].left : blob[b] = Gone \/ Due(b)
  BY DEF RetentionInv, RetentionTypeOK, ChosenIsDue, Chosen
<1>2. /\ job' \in [ExpiryJobs -> [at : {"idle", "listing", "metadata", "deleting"},
                                  of : Blobs \cup {NoBlob}, left : SUBSET Blobs]]
      /\ ChosenIsDue' /\ DeletingIsAudited'
  BY <1>1, NextOfInv, StoreKept DEF DeleteFails
<1>3. RetentionTypeOK'
  BY <1>2 DEF RetentionInv, RetentionTypeOK, DeleteFails
<1> QED
  BY <1>2, <1>3, StoreKept, RunsKept DEF RetentionInv, DeleteFails

LEMMA RestartInv ==
  ASSUME RetentionInv, RestartRetention
  PROVE  RetentionInv'
<1>1. ASSUME NEW b \in Blobs
      PROVE  \/ blob'[b] = blob[b]
             \/ /\ blob'[b] \in Stored /\ blob'[b].expires = "none"
  <2>1. CASE IsStored(b) /\ blob[b].expires = "pending"
    <3>1. blob'[b] = [blob[b] EXCEPT !.expires = "none"] /\ blob[b] \in Stored
      BY <2>1, BlobShape DEF RestartRetention, RetentionInv
    <3> QED
      BY <3>1
  <2>2. CASE ~(IsStored(b) /\ blob[b].expires = "pending")
    BY <2>2 DEF RestartRetention
  <2> QED
    BY <2>1, <2>2
<1>2. RetentionTypeOK'
  <2>1. \A b \in Blobs : blob'[b] \in Stored \cup {NotYet, Gone}
    BY <1>1 DEF RetentionInv, RetentionTypeOK
  <2> QED
    BY <2>1 DEF RetentionInv, RetentionTypeOK, RestartRetention
<1>3. DatedIsEvidence'
  BY <1>1 DEF RetentionInv, DatedIsEvidence
<1>4. ChosenIsDue' /\ DeletingIsAudited' /\ OneRunAtATime' /\ PurgingIsAllowed'
  BY RetentionAssumption
     DEF RetentionAssumption, RestartRetention, ChosenIsDue, Chosen, DeletingIsAudited,
         OneRunAtATime,
         PurgingIsAllowed
<1> QED
  BY <1>2, <1>3, <1>4 DEF RetentionInv

LEMMA NextRetentionInv == RetentionInv /\ [RetentionNext]_retentionVars => RetentionInv'
<1> SUFFICES ASSUME RetentionInv, [RetentionNext]_retentionVars PROVE RetentionInv'
  OBVIOUS
<1>1. CASE UNCHANGED retentionVars
  BY <1>1, StoreKept, JobsKept, RunsKept DEF RetentionInv, RetentionTypeOK, retentionVars
<1>2. CASE RetentionNext
  BY <1>2, StoreInv, SetExpiryInv, DaysPassInv, StartRunInv, ScanReturnsInv, PurgeTypeInv,
     StartExpiryInv, ListedInv, MetadataReadInv, BlobDeletedInv, DeleteFailsInv, RestartInv
     DEF RetentionNext, RunStep, JobStep
<1> QED
  BY <1>1, <1>2

-----------------------------------------------------------------------------
(* Every variable keeps its type. *)
THEOREM RetentionTypeCorrect == RetentionSpec => []RetentionTypeOK
<1>1. RetentionInv => RetentionTypeOK
  BY DEF RetentionInv
<1> QED
  BY <1>1, InitRetentionInv, NextRetentionInv, PTL DEF RetentionSpec

(* RetentionWorker.run excludes itself, and the flag is set exactly while  *)
(* a run is under way, whichever way it ends.                              *)
THEOREM RunsExcludeEachOther == RetentionSpec => []OneRunAtATime
<1>1. RetentionInv => OneRunAtATime
  BY DEF RetentionInv
<1> QED
  BY <1>1, InitRetentionInv, NextRetentionInv, PTL DEF RetentionSpec

(* Which steps delete: the purge of one type, and the deletion of one      *)
(* record whose deletion is in the audit log.                              *)
LEMMA WhoDeletes ==
  ASSUME RetentionInv, [RetentionNext]_retentionVars, NEW b \in Blobs, IsStored(b), blob'[b] = Gone
  PROVE  \/ /\ PastCutoff(b) /\ ~dryRun /\ ~grace
            /\ job' = job
         \/ /\ Due(b) /\ b \in audited
            /\ run' = run
<1>1. CASE UNCHANGED retentionVars
  BY <1>1 DEF retentionVars
<1>2. ASSUME NEW r \in Runs, NEW t \in Types, NEW p \in SUBSET Blobs, PurgeType(r, t, p)
      PROVE  PastCutoff(b) /\ ~dryRun /\ ~grace /\ job' = job
  BY <1>2 DEF PurgeType, RetentionInv, PurgingIsAllowed
<1>3. ASSUME NEW j \in ExpiryJobs, BlobDeleted(j)
      PROVE  Due(b) /\ b \in audited /\ run' = run
  <2>1. b = job[j].of
    BY <1>3 DEF BlobDeleted, RetentionInv, RetentionTypeOK
  <2> QED
    BY <1>3, <2>1 DEF BlobDeleted, RetentionInv, DeletingIsAudited, ChosenIsDue, Chosen
<1>4. ASSUME NEW c \in Blobs, NEW t \in Types, Store(c, t) PROVE FALSE
  BY <1>4 DEF Store, RetentionInv, RetentionTypeOK
<1>5. ASSUME NEW c \in Blobs, SetExpiry(c) PROVE FALSE
  BY <1>5, BlobShape DEF SetExpiry, RetentionInv, RetentionTypeOK
<1>6. ASSUME NEW n \in Jumps, DaysPass(n) PROVE FALSE
  BY <1>6, BlobShape DEF DaysPass, RetentionInv
<1>7. CASE RestartRetention
  BY <1>7, BlobShape DEF RestartRetention, RetentionInv
<1>8. ASSUME blob' = blob PROVE FALSE
  BY <1>8
<1>9. CASE \/ \E r \in Runs : StartRun(r) \/ ScanReturns(r)
           \/ \E j \in ExpiryJobs : StartExpiry(j) \/ Listed(j) \/ MetadataRead(j) \/ DeleteFails(j)
  BY <1>9, <1>8 DEF StartRun, ScanReturns, StartExpiry, Listed, MetadataRead, DeleteFails
<1> QED
  BY <1>1, <1>2, <1>3, <1>4, <1>5, <1>6, <1>7, <1>9 DEF RetentionNext, RunStep, JobStep

(* Nothing is deleted before the limit of its type, whichever party        *)
(* deletes it: the policy engine leaves it the safety window and stands    *)
(* back in the grace period and in dry runs, and a date in the metadata is *)
(* never earlier than the limit.                                           *)
THEOREM NothingGoesEarly == RetentionSpec => DeletionsAreDue
<1>1. ASSUME RetentionInv, [RetentionNext]_retentionVars, NEW b \in Blobs, IsStored(b),
             blob'[b] = Gone
      PROVE  /\ HasLimit(blob[b].type)
             /\ blob[b].age >= MaxAgeDays(blob[b].type)
             /\ run' # run => /\ blob[b].age >= MaxAgeDays(blob[b].type) + SafetyWindowDays
                              /\ ~grace /\ ~dryRun
  <2>1. CASE PastCutoff(b) /\ ~dryRun /\ ~grace
    <3>1. MaxAgeDays(blob[b].type) \in Nat /\ blob[b].age \in Nat
      BY <1>1, <2>1, BlobShape, LimitsAreDays, RetentionAssumption
         DEF RetentionAssumption, PastCutoff, RetentionInv
    <3> QED
      BY <2>1, <3>1 DEF PastCutoff, SafetyWindowDays
  <2>2. CASE Due(b) /\ run' = run
    BY <2>2 DEF Due
  <2> QED
    BY <1>1, <2>1, <2>2, WhoDeletes
<1>2. RetentionInv /\ [RetentionNext]_retentionVars =>
        [\A b \in Blobs : (IsStored(b) /\ blob'[b] = Gone) =>
           /\ HasLimit(blob[b].type)
           /\ blob[b].age >= MaxAgeDays(blob[b].type)
           /\ run' # run => /\ blob[b].age >= MaxAgeDays(blob[b].type) + SafetyWindowDays
                            /\ ~grace /\ ~dryRun]_retentionVars
  BY <1>1
<1> QED
  BY <1>2, InitRetentionInv, NextRetentionInv, PTL DEF RetentionSpec, DeletionsAreDue

(* "NEVER deletes silently": what the expiry of evidence deletes is in the *)
(* audit log before it goes.                                               *)
THEOREM NothingGoesUnrecorded == RetentionSpec => NoSilentDeletion
<1>1. RetentionInv /\ [RetentionNext]_retentionVars =>
        [\A b \in Blobs :
           (IsStored(b) /\ blob'[b] = Gone /\ job' # job) => b \in audited]_retentionVars
  BY WhoDeletes
<1> QED
  BY <1>1, InitRetentionInv, NextRetentionInv, PTL DEF RetentionSpec, NoSilentDeletion
=============================================================================
