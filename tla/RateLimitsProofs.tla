-------------------------- MODULE RateLimitsProofs ---------------------------
(***************************************************************************)
(* The limiters, for any number of requests, any limits and any            *)
(* interleaving, failure or loss of their commands: no more requests are   *)
(* let in than the limit allows, refusals are earned, counters end.        *)
(*                                                                         *)
(* One process runs one limiter at a time in the model, so each limiter    *)
(* has an invariant of its own, proved with the steps of its own stages.   *)
(***************************************************************************)
EXTENDS RateLimits, FiniteSetTheorems, TLAPS

StagesOf ==
  [window |-> {"ip", "between", "apiKey"},
   counter |-> {"incr", "ttl", "expire"},
   enumeration |-> {"get", "sadd", "expireBucket", "scard", "setex", "delay"}]

Active(r) == req[r].at \notin {"idle", "done"}

(* Where a request can be, and how its clock readings relate to now. *)
Shape ==
  \A r \in Request :
    /\ Active(r) => /\ req[r].at \in StagesOf[limiter]
                    /\ req[r].started <= now /\ now <= req[r].started + Latency
    /\ req[r].at # "done" => req[r].outcome = "none"
    /\ req[r].at = "idle" => req[r].seen = 0 /\ req[r].refusedBy = {} /\ req[r].open = {}
    /\ req[r].when <= now /\ \A k \in Sorted : req[r].stamp[k] <= now

(* Redis has dropped what is due. *)
Kept == \A k \in Key : now < life[k]

Base == TypeOK /\ Shape /\ Kept

Others(r) == \A q \in Request : q # r => req'[q] = req[q]

(* A step of one request: Redis aside, what Base needs to know of it. *)
Moves(r) ==
  /\ limiter' = limiter /\ now' = now
  /\ req' \in [Request -> RequestState]
  /\ Others(r)
  /\ \/ req'[r].at = "done"
     \/ /\ req'[r].at \in StagesOf[limiter]
        /\ req'[r].outcome = "none"
        /\ req'[r].started = IF Active(r) THEN req[r].started ELSE now
  /\ req'[r].when \in {req[r].when, now}
  /\ \A k \in Sorted : req'[r].stamp[k] \in {req[r].stamp[k], now}

-----------------------------------------------------------------------------
LEMMA KeyFacts ==
  /\ \A k \in Sorted : <<k, 0>> \in Key
  /\ Counter \in Key /\ Block \in Key
  /\ \A b \in Time : Bucket(b) \in Key
  /\ \A b, c \in Time : Bucket(b) = Bucket(c) => b = c
  /\ \A b \in Time : Bucket(b) # Counter /\ Bucket(b) # Block
  /\ Counter # Block
BY DEF Key, Sorted, Counter, Block, Bucket

LEMMA TimeFacts ==
  /\ Time \subseteq Nat /\ Never \in Nat /\ Window \in Nat \ {0} /\ Latency \in Nat
  /\ Latency < Window
  /\ \A t \in Time : t + Window \in 0..Never /\ t + Window < Never /\ t < Never
BY LimitsAssumption DEF LimitsAssumption, Time, Never

LEMMA FiniteRequests ==
  ASSUME NEW S \in SUBSET Request
  PROVE  IsFiniteSet(S) /\ Cardinality(S) \in Nat
BY FS_Subset, FS_CardinalityType, LimitsAssumption DEF LimitsAssumption

LEMMA SmallerSet ==
  ASSUME NEW S \in SUBSET Request, NEW T \in SUBSET S
  PROVE  Cardinality(T) <= Cardinality(S)
<1>1. IsFiniteSet(S)
  BY FiniteRequests
<1> QED
  BY <1>1, FS_Subset

LEMMA UnionBound ==
  ASSUME NEW S \in SUBSET Request, NEW T \in SUBSET Request
  PROVE  /\ Cardinality(S \cup T) <= Cardinality(S) + Cardinality(T)
         /\ S \cap T = {} => Cardinality(S \cup T) = Cardinality(S) + Cardinality(T)
<1>1. /\ IsFiniteSet(S) /\ IsFiniteSet(T)
      /\ Cardinality(S) \in Nat /\ Cardinality(T) \in Nat /\ Cardinality(S \cap T) \in Nat
  BY FiniteRequests
<1>2. Cardinality(S \cup T) = Cardinality(S) + Cardinality(T) - Cardinality(S \cap T)
  BY <1>1, FS_Union
<1>3. S \cap T = {} => Cardinality(S \cap T) = 0
  BY FS_EmptySet
<1> QED
  BY <1>1, <1>2, <1>3

LEMMA AddBound ==
  ASSUME NEW S \in SUBSET Request, NEW r \in Request
  PROVE  Cardinality(S \cup {r}) <= Cardinality(S) + 1
<1>1. IsFiniteSet(S) /\ Cardinality(S) \in Nat
  BY FiniteRequests
<1> QED
  BY <1>1, FS_AddElement

-----------------------------------------------------------------------------
LEMMA Stages ==
  {"idle", "ip", "between", "apiKey", "incr", "ttl", "expire",
   "get", "sadd", "expireBucket", "scard", "setex", "delay", "done"} \subseteq Stage
BY DEF Stage

-----------------------------------------------------------------------------
LEMMA BaseKept ==
  ASSUME Base, NEW r \in Request, Moves(r), Kept',
         store' \in [Key -> SUBSET Request], life' \in [Key -> 0..Never]
  PROVE  Base'
<1>1. TypeOK'
  BY DEF Base, TypeOK, Moves
<1>2. now \in Nat /\ Latency \in Nat
  BY TimeFacts DEF Base, TypeOK
<1>3. Shape'
  <2>1. ASSUME NEW q \in Request, q # r
        PROVE  /\ Active(q)' => /\ req'[q].at \in StagesOf[limiter']
                                /\ req'[q].started <= now' /\ now' <= req'[q].started + Latency
               /\ req'[q].at # "done" => req'[q].outcome = "none"
               /\ req'[q].at = "idle" => req'[q].seen = 0 /\ req'[q].refusedBy = {} /\ req'[q].open = {}
               /\ req'[q].when <= now' /\ \A k \in Sorted : req'[q].stamp[k] <= now'
    BY <2>1 DEF Moves, Others, Base, Shape, Active
  <2>2. limiter \in {"window", "counter", "enumeration"}
    BY DEF Base, TypeOK
  <2>3. "idle" \notin StagesOf[limiter] /\ "done" \notin StagesOf[limiter]
    BY <2>2 DEF StagesOf
  <2>4. now <= now + Latency /\ now <= now
    BY <1>2
  <2>5. /\ Active(r)' => /\ req'[r].at \in StagesOf[limiter']
                         /\ req'[r].started <= now' /\ now' <= req'[r].started + Latency
        /\ req'[r].at # "done" => req'[r].outcome = "none"
    BY <2>3, <2>4 DEF Moves, Base, Shape, Active
  <2>6. req'[r].at # "idle" /\ req'[r].when <= now' /\ \A k \in Sorted : req'[r].stamp[k] <= now'
    BY <2>3, <2>4 DEF Moves, Base, Shape
  <2> QED
    BY <2>1, <2>5, <2>6 DEF Shape
<1> QED
  BY <1>1, <1>3 DEF Base

(* What each step does to the request that makes it. *)

LEMMA FinishFacts ==
  ASSUME TypeOK, NEW r \in Request, NEW o \in {"in", "refused", "lost"}, Finish(r, o)
  PROVE  /\ req' \in [Request -> RequestState]
         /\ Others(r)
         /\ req'[r].at = "done" /\ req'[r].outcome = o
         /\ req'[r].stamp = req[r].stamp /\ req'[r].checks = req[r].checks
         /\ req'[r].refusedBy = req[r].refusedBy /\ req'[r].open = req[r].open
         /\ req'[r].when = req[r].when
         /\ limiter = "counter" => req'[r].seen = req[r].seen
         /\ req'[r].postcode = req[r].postcode
<1>1. req[r] \in RequestState /\ 0 \in Time /\ 0 \in 0..Window /\ "done" \in Stage
  BY LimitsAssumption, Stages DEF LimitsAssumption, TypeOK, Time
<1>2. /\ Others(r)
      /\ req'[r] = [req[r] EXCEPT !.at = "done", !.outcome = o, !.started = 0, !.left = 0,
                                  !.seen = IF limiter = "counter" THEN @ ELSE 0]
      /\ req' = [req EXCEPT ![r] = req'[r]]
  BY DEF TypeOK, Finish, Others
<1>3. req'[r] \in RequestState
  <2> DEFINE seen == IF limiter = "counter" THEN req[r].seen ELSE 0
  <2>1. seen \in Nat
    BY <1>1 DEF RequestState
  <2>2. req'[r] = [req[r] EXCEPT !.at = "done", !.outcome = o, !.started = 0, !.left = 0,
                                 !.seen = seen]
    BY <1>2
  <2>3. o \in {"none", "in", "refused", "lost"}
    OBVIOUS
  <2> HIDE DEF seen
  <2> QED
    BY <1>1, <2>1, <2>2, <2>3 DEF RequestState
<1> QED
  BY <1>1, <1>2, <1>3 DEF TypeOK, RequestState

LEMMA ErrorFacts ==
  ASSUME TypeOK, NEW r \in Request, HandleError(r),
         req[r].at \in {"incr", "ttl", "expire", "sadd", "expireBucket", "scard"}
  PROVE  /\ req' \in [Request -> RequestState]
         /\ Others(r)
         /\ req'[r].at = "done" /\ req'[r].outcome = "in" /\ req'[r].open = {"all"}
         /\ req'[r].stamp = req[r].stamp
         /\ req'[r].when = req[r].when
         /\ limiter = "counter" => req'[r].seen = req[r].seen
         /\ req'[r].postcode = req[r].postcode
BY TimeFacts DEF TypeOK, HandleError, RequestState, Stage, Others, Time, Sorted

LEMMA ArriveFacts ==
  ASSUME TypeOK, Shape, NEW r \in Request, Arrive(r)
  PROVE  /\ req' \in [Request -> RequestState]
         /\ Others(r)
         /\ req[r].at = "idle"
         /\ req'[r].at = IF limiter = "window" THEN IF "ip" \in req'[r].checks THEN "ip" ELSE "apiKey"
                         ELSE IF limiter = "counter" THEN "incr" ELSE "get"
         /\ req'[r].started = now
         /\ limiter = "window" => /\ req'[r].stamp = [k \in Sorted |-> now]
                                  /\ req'[r].checks \in (SUBSET Sorted) \ {{}}
         /\ limiter # "window" => req'[r].stamp = req[r].stamp
         /\ req'[r].outcome = "none" /\ req'[r].refusedBy = {} /\ req'[r].open = {}
         /\ req'[r].when = req[r].when /\ req'[r].seen = 0
         /\ UNCHANGED <<limiter, now, store, life>>
<1>1. /\ req[r] \in RequestState /\ now \in Time
      /\ [k \in Sorted |-> now] \in [Sorted -> Time]
      /\ req[r].at = "idle" /\ req[r].outcome = "none" /\ req[r].seen = 0
      /\ req[r].refusedBy = {} /\ req[r].open = {}
      /\ UNCHANGED <<limiter, now, store, life>>
  BY DEF TypeOK, Shape, Arrive
<1>2. ASSUME NEW checks \in (SUBSET Sorted) \ {{}}, ArriveWindow(r, checks)
      PROVE  /\ limiter = "window"
             /\ req' \in [Request -> RequestState]
             /\ Others(r)
             /\ req'[r].checks = checks
             /\ req'[r].at = IF "ip" \in checks THEN "ip" ELSE "apiKey"
             /\ req'[r].started = now
             /\ req'[r].stamp = [k \in Sorted |-> now]
             /\ req'[r].outcome = "none" /\ req'[r].refusedBy = {} /\ req'[r].open = {}
             /\ req'[r].when = req[r].when /\ req'[r].seen = 0
  <2>1. /\ Others(r)
        /\ req'[r] = [req[r] EXCEPT !.at = IF "ip" \in checks THEN "ip" ELSE "apiKey",
                                    !.checks = checks, !.started = now,
                                    !.stamp = [k \in Sorted |-> now]]
        /\ req' = [req EXCEPT ![r] = req'[r]]
        /\ limiter = "window"
    BY <1>2 DEF TypeOK, ArriveWindow, Others
  <2>2. req'[r] \in RequestState
    <3> DEFINE a == IF "ip" \in checks THEN "ip" ELSE "apiKey"
    <3>1. a \in Stage
      BY Stages
    <3>2. req'[r] = [req[r] EXCEPT !.at = a, !.checks = checks, !.started = now,
                                   !.stamp = [k \in Sorted |-> now]]
      BY <2>1
    <3>3. checks \in SUBSET Sorted
      OBVIOUS
    <3> HIDE DEF a
    <3> QED
      BY <1>1, <3>1, <3>2, <3>3 DEF RequestState
  <2>3. req' \in [Request -> RequestState]
    BY <2>1, <2>2 DEF TypeOK
  <2> QED
    BY <1>1, <2>1, <2>3 DEF RequestState
<1>3. CASE ArriveCounter(r)
  BY <1>1, <1>3 DEF TypeOK, ArriveCounter, RequestState, Stage, Others
<1>4. ASSUME NEW p \in Postcode, ArriveLookup(r, p)
      PROVE  /\ limiter = "enumeration"
             /\ req' \in [Request -> RequestState]
             /\ Others(r)
             /\ req'[r].at = "get"
             /\ req'[r].started = now
             /\ req'[r].stamp = req[r].stamp
             /\ req'[r].outcome = "none" /\ req'[r].refusedBy = {} /\ req'[r].open = {}
             /\ req'[r].when = req[r].when /\ req'[r].seen = 0
  BY <1>1, <1>4 DEF TypeOK, ArriveLookup, RequestState, Stage, Others
<1> QED
  BY <1>1, <1>2, <1>3, <1>4 DEF Arrive

LEMMA TickFacts ==
  ASSUME Base, Tick
  PROVE  /\ req' = req /\ limiter' = limiter /\ now' = now + 1 /\ now' \in Time
         /\ \A k \in Key : \/ /\ life[k] <= now'
                              /\ store'[k] = {} /\ life'[k] = Never
                           \/ /\ now' < life[k]
                              /\ store'[k] = store[k] /\ life'[k] = life[k]
         /\ Base'
<1>1. req' = req /\ limiter' = limiter /\ now' = now + 1 /\ now' \in Time
  BY LimitsAssumption DEF LimitsAssumption, Base, TypeOK, Tick, Time
<1>2. \A k \in Key : life[k] \in Nat
  BY TimeFacts DEF Base, TypeOK
<1>3. \A k \in Key : \/ /\ life[k] <= now'
                        /\ store'[k] = {} /\ life'[k] = Never
                     \/ /\ now' < life[k]
                        /\ store'[k] = store[k] /\ life'[k] = life[k]
  BY <1>1, <1>2, TimeFacts DEF Tick
<1>4. TypeOK'
  BY <1>1, TimeFacts DEF Base, TypeOK, Tick
<1>5. Shape'
  <2>1. now \in Nat /\ \A r \in Request : req[r].started \in Nat /\ req[r].when \in Nat
    BY TimeFacts DEF Base, TypeOK, RequestState
  <2>2. \A r \in Request, k \in Sorted : req[r].stamp[k] \in Nat
    BY TimeFacts DEF Base, TypeOK, RequestState
  <2>3. \A r \in Request : Active(r) => now + 1 <= req[r].started + Latency
    BY DEF Tick, Active
  <2> QED
    BY <1>1, <2>1, <2>2, <2>3 DEF Base, Shape, Active
<1>6. Kept'
  BY <1>1, <1>3, TimeFacts DEF Kept
<1> QED
  BY <1>1, <1>3, <1>4, <1>5, <1>6 DEF Base

(* Redis never lets a command set an expiry in the past. *)
LEMMA ExecuteFacts ==
  ASSUME Base, NEW r \in Request, req[r].at \in Waiting,
         Execute(r) \/ UNCHANGED <<store, life>>, now' = now
  PROVE  /\ store' \in [Key -> SUBSET Request]
         /\ life' \in [Key -> 0..Never]
         /\ Kept'
<1>1. now \in Time /\ now \in Nat /\ now + Window \in 0..Never /\ now < now + Window
  BY TimeFacts DEF Base, TypeOK
<1>2. \A k \in Key : store[k] \in SUBSET Request /\ life[k] \in 0..Never
  BY DEF Base, TypeOK
<1>3. ASSUME NEW k \in Key, NEW S \in SUBSET Request, NEW t \in 0..Never,
             store' = [store EXCEPT ![k] = S], life' = [life EXCEPT ![k] = t],
             now < t
      PROVE  /\ store' \in [Key -> SUBSET Request]
             /\ life' \in [Key -> 0..Never]
             /\ Kept'
  BY <1>3 DEF Base, TypeOK, Kept
<1>4. CASE UNCHANGED <<store, life>>
  BY <1>4 DEF Base, TypeOK, Kept
<1>5. ASSUME NEW k \in Sorted, PutStamp(r, k)
      PROVE  /\ store' \in [Key -> SUBSET Request]
             /\ life' \in [Key -> 0..Never]
             /\ Kept'
  <2>1. InWindow(r, k) \cup {r} \in SUBSET Request
    BY <1>2, KeyFacts DEF InWindow
  <2> QED
    BY <1>1, <1>3, <1>5, <2>1, KeyFacts DEF PutStamp
<1>6. ASSUME NEW k \in Key, AddTo(k, r)
      PROVE  /\ store' \in [Key -> SUBSET Request]
             /\ life' \in [Key -> 0..Never]
             /\ Kept'
  BY <1>2, <1>6 DEF AddTo, Base, TypeOK, Kept
<1>7. ASSUME NEW k \in Key, Expire(k)
      PROVE  /\ store' \in [Key -> SUBSET Request]
             /\ life' \in [Key -> 0..Never]
             /\ Kept'
  BY <1>1, <1>2, <1>7 DEF Expire, Base, TypeOK, Kept
<1>8. \A b \in Time : Bucket(b) \in Key
  BY KeyFacts
<1>9. req[r].when \in Time
  BY DEF Base, TypeOK, RequestState
<1>10. CASE req[r].at = "setex" /\ Execute(r)
  <2>1. /\ store' = [store EXCEPT ![Block] = {r}]
        /\ life' = [life EXCEPT ![Block] = now + Window]
    BY <1>10 DEF Execute, Sorted
  <2> QED
    BY <1>1, <1>3, <2>1, KeyFacts
<1>11. CASE req[r].at \in Sorted /\ Execute(r)
  <2>1. PutStamp(r, req[r].at)
    BY <1>11 DEF Execute, Sorted
  <2> QED
    BY <1>5, <1>11, <2>1
<1>12. CASE req[r].at = "incr" /\ Execute(r)
  BY <1>6, <1>12, KeyFacts DEF Execute, Sorted
<1>13. CASE req[r].at = "expire" /\ Execute(r)
  BY <1>7, <1>13, KeyFacts DEF Execute, Sorted
<1>14. CASE req[r].at = "sadd" /\ Execute(r)
  BY <1>6, <1>8, <1>9, <1>14 DEF Execute, Sorted
<1>15. CASE req[r].at = "expireBucket" /\ Execute(r)
  BY <1>7, <1>8, <1>9, <1>15 DEF Execute, Sorted
<1>16. CASE req[r].at \in {"ttl", "get", "scard"} /\ Execute(r)
  BY <1>4, <1>16 DEF Execute, Sorted
<1> QED
  BY <1>4, <1>10, <1>11, <1>12, <1>13, <1>14, <1>15, <1>16 DEF Waiting, Stage, Sorted

Handles(r) == Command(r) \/ CommandFails(r) \/ Stop(r) \/ CheckKey(r) \/ Delayed(r)

LEMMA HandlesFacts ==
  ASSUME Base, NEW r \in Request, Handles(r)
  PROVE  /\ limiter' = limiter /\ now' = now /\ Active(r)
         /\ req[r].at \in StagesOf[limiter] /\ req[r].outcome = "none"
         /\ store' \in [Key -> SUBSET Request] /\ life' \in [Key -> 0..Never] /\ Kept'
<1>1. limiter' = limiter /\ now' = now
  BY DEF Handles, Command, CommandFails, Stop, CheckKey, Delayed
<1>2. Active(r)
  BY DEF Handles, Command, CommandFails, Stop, CheckKey, Delayed, Active, Waiting
<1>3. CASE req[r].at \in Waiting
  <2>1. Execute(r) \/ UNCHANGED <<store, life>>
    BY <1>3 DEF Handles, Command, CommandFails, Stop, CheckKey, Delayed
  <2> QED
    BY <1>1, <1>2, <1>3, <2>1, ExecuteFacts DEF Base, Shape, Active
<1>4. CASE req[r].at \notin Waiting
  <2>1. UNCHANGED <<store, life>>
    BY <1>4 DEF Handles, Command, CommandFails, Stop, CheckKey, Delayed
  <2> QED
    BY <1>1, <1>2, <2>1 DEF Base, TypeOK, Kept, Shape, Active
<1> QED
  BY <1>3, <1>4

LEMMA FinishMoves ==
  ASSUME Base, NEW r \in Request, Handles(r), NEW o \in {"in", "refused", "lost"}, Finish(r, o)
  PROVE  Moves(r)
BY FinishFacts, HandlesFacts DEF Base, Moves

-----------------------------------------------------------------------------
(* The counter: what a request does after it has come. *)

SameCount(r) == req'[r].when = req[r].when /\ req'[r].seen = req[r].seen

Counts(r) ==
  /\ req[r].at = "incr" /\ req'[r].at = "ttl"
  /\ AddTo(Counter, r)
  /\ req'[r].when = now
  /\ req'[r].seen = Cardinality(store[Counter] \cup {r})
  /\ req'[r].started = req[r].started
  /\ req'[r].outcome = "none" /\ req'[r].open = req[r].open

GivesUp(r) ==
  /\ req'[r].at = "done" /\ SameCount(r)
  /\ \/ req'[r].outcome = "in" /\ req'[r].open = {"all"}
     \/ req'[r].outcome = "lost" /\ req'[r].open = req[r].open
  /\ \/ UNCHANGED <<store, life>>
     \/ req[r].at = "incr" /\ AddTo(Counter, r)
     \/ req[r].at = "expire" /\ Expire(Counter)

GoesOn(r) ==
  /\ req[r].at = "ttl" /\ req'[r].at = "expire" /\ req[r].seen = 1
  /\ SameCount(r)
  /\ req'[r].started = req[r].started
  /\ req'[r].outcome = "none" /\ req'[r].open = req[r].open
  /\ UNCHANGED <<store, life>>

Decides(r) ==
  /\ req'[r].at = "done" /\ SameCount(r)
  /\ req'[r].outcome = IF req[r].seen > CounterMax THEN "refused" ELSE "in"
  /\ req'[r].open = req[r].open
  /\ \/ req[r].at = "ttl" /\ req[r].seen # 1 /\ UNCHANGED <<store, life>>
     \/ req[r].at = "expire" /\ Expire(Counter)

LEMMA CounterStep ==
  ASSUME Base, limiter = "counter", NEW r \in Request, Handles(r)
  PROVE  Moves(r) /\ (Counts(r) \/ GivesUp(r) \/ GoesOn(r) \/ Decides(r))
<1>1. req[r].at \in {"incr", "ttl", "expire"}
  BY HandlesFacts DEF StagesOf
<1>2. TypeOK /\ req[r] \in RequestState /\ req[r].outcome = "none" /\ Active(r)
      /\ limiter' = limiter /\ now' = now /\ now \in Time
  BY HandlesFacts DEF Base, TypeOK
<1>3. StagesOf[limiter] = {"incr", "ttl", "expire"}
  BY DEF StagesOf
<1>4. ~CheckKey(r) /\ ~Delayed(r)
  BY <1>1 DEF CheckKey, Delayed
<1>5. Execute(r) => \/ req[r].at = "incr" /\ AddTo(Counter, r)
                    \/ req[r].at = "ttl" /\ UNCHANGED <<store, life>>
                    \/ req[r].at = "expire" /\ Expire(Counter)
  BY <1>1 DEF Execute, Sorted
<1>6. CASE Command(r) /\ req[r].at = "incr"
  <2>1. Counted(r) /\ AddTo(Counter, r)
    BY <1>5, <1>6 DEF Command, Handle, Sorted
  <2>2. /\ Others(r)
        /\ req'[r] = [req[r] EXCEPT !.at = "ttl", !.when = now,
                                    !.seen = Cardinality(store[Counter] \cup {r})]
        /\ req' = [req EXCEPT ![r] = req'[r]]
    BY <1>2, <2>1 DEF TypeOK, Counted, Others
  <2>3. Cardinality(store[Counter] \cup {r}) \in Nat
    BY <1>2, FiniteRequests, KeyFacts DEF TypeOK
  <2>4. req'[r] \in RequestState
    BY <1>2, <2>2, <2>3, Stages DEF RequestState
  <2>5. /\ req'[r].at = "ttl" /\ req'[r].when = now
        /\ req'[r].seen = Cardinality(store[Counter] \cup {r})
        /\ req'[r].started = req[r].started /\ req'[r].outcome = req[r].outcome
        /\ req'[r].open = req[r].open /\ req'[r].stamp = req[r].stamp
    BY <1>2, <2>2 DEF RequestState
  <2>6. req' \in [Request -> RequestState]
    BY <1>2, <2>2, <2>4 DEF TypeOK
  <2>7. Moves(r)
    BY <1>2, <1>3, <2>2, <2>5, <2>6 DEF Moves
  <2>8. Counts(r)
    BY <1>2, <1>6, <2>1, <2>5 DEF Counts
  <2> QED
    BY <2>7, <2>8
<1>7. ASSUME Command(r), req[r].at = "ttl", req[r].seen = 1
      PROVE  Moves(r) /\ GoesOn(r)
  <2>1. req' = [req EXCEPT ![r].at = "expire"] /\ UNCHANGED <<store, life>>
    BY <1>5, <1>7 DEF Command, Handle, Sorted, TtlRead
  <2>2. /\ Others(r)
        /\ req'[r] = [req[r] EXCEPT !.at = "expire"]
        /\ req' = [req EXCEPT ![r] = req'[r]]
    BY <1>2, <2>1 DEF TypeOK, Others
  <2>3. req'[r] \in RequestState
    BY <1>2, <2>2, Stages DEF RequestState
  <2>4. /\ req'[r].at = "expire" /\ SameCount(r)
        /\ req'[r].started = req[r].started /\ req'[r].outcome = req[r].outcome
        /\ req'[r].open = req[r].open /\ req'[r].stamp = req[r].stamp
    BY <1>2, <2>2 DEF RequestState, SameCount
  <2>5. req' \in [Request -> RequestState]
    BY <1>2, <2>2, <2>3 DEF TypeOK
  <2>6. Moves(r)
    BY <1>2, <1>3, <2>2, <2>4, <2>5 DEF Moves, SameCount
  <2>7. GoesOn(r)
    BY <1>2, <1>7, <2>1, <2>4 DEF GoesOn
  <2> QED
    BY <2>6, <2>7
<1>8. ASSUME Command(r), DecideByCount(r, req[r].seen), req[r].at = "expire" \/ req[r].seen # 1,
             req[r].at # "incr"
      PROVE  Moves(r) /\ Decides(r)
  <2> DEFINE o == IF req[r].seen > CounterMax THEN "refused" ELSE "in"
  <2>1. Finish(r, o) /\ o \in {"in", "refused", "lost"}
    BY <1>8 DEF DecideByCount
  <2>2. Execute(r)
    BY <1>8 DEF Command
  <2> HIDE DEF o
  <2>3. Moves(r)
    BY <2>1, FinishMoves
  <2>4. /\ req'[r].at = "done" /\ req'[r].outcome = o
        /\ req'[r].open = req[r].open /\ SameCount(r)
    BY <1>2, <2>1, FinishFacts DEF SameCount
  <2>5. Decides(r)
    BY <1>1, <1>5, <1>8, <2>2, <2>4 DEF Decides, o
  <2> QED
    BY <2>3, <2>5
<1>9. CASE Command(r) /\ req[r].at # "incr"
  <2>1. CASE req[r].at = "ttl"
    <3>1. TtlRead(r)
      BY <1>9, <2>1 DEF Command, Handle, Sorted
    <3> QED
      BY <1>7, <1>8, <1>9, <2>1, <3>1 DEF TtlRead
  <2>2. CASE req[r].at = "expire"
    <3>1. DecideByCount(r, req[r].seen)
      BY <1>9, <2>2 DEF Command, Handle, Sorted
    <3> QED
      BY <1>8, <1>9, <2>2, <3>1
  <2> QED
    BY <1>1, <1>9, <2>1, <2>2
<1>10. CASE CommandFails(r)
  <2>1. HandleError(r) /\ (Execute(r) \/ UNCHANGED <<store, life>>)
    BY <1>10 DEF CommandFails
  <2>2. /\ req' \in [Request -> RequestState] /\ Others(r)
        /\ req'[r].at = "done" /\ req'[r].outcome = "in" /\ req'[r].open = {"all"}
        /\ req'[r].stamp = req[r].stamp /\ SameCount(r)
    BY <1>1, <1>2, <2>1, ErrorFacts DEF SameCount
  <2> QED
    BY <1>2, <1>5, <2>1, <2>2 DEF Moves, GivesUp, SameCount
<1>11. CASE Stop(r)
  <2>1. Finish(r, "lost") /\ (Execute(r) \/ UNCHANGED <<store, life>>)
    BY <1>11 DEF Stop
  <2>2. Moves(r)
    BY <2>1, FinishMoves
  <2>3. /\ req'[r].at = "done" /\ req'[r].outcome = "lost"
        /\ req'[r].open = req[r].open /\ SameCount(r)
    BY <1>2, <2>1, FinishFacts DEF SameCount
  <2> QED
    BY <1>5, <2>1, <2>2, <2>3 DEF GivesUp
<1> QED
  BY <1>4, <1>6, <1>9, <1>10, <1>11 DEF Handles

-----------------------------------------------------------------------------
(* The invariant of the counter.  Its members are the requests that have   *)
(* incremented the counter Redis holds now; the others with a count belong *)
(* to counters that have expired.                                          *)
Cur == store[Counter]
End == life[Counter]

(* The members have counts of their own, and only the first sets expiry.   *)
Numbered ==
  /\ Cur = {} => End = Never
  /\ \A q \in Request : req[q].at \in {"idle", "incr"} =>
       req[q].seen = 0 /\ req[q].open = {} /\ q \notin Cur
  /\ \A q \in Cur : /\ req[q].seen > 0 \/ ExpiryLost(q)
                    /\ req[q].seen <= Cardinality(Cur)
  /\ \A p, q \in Cur : req[p].seen > 0 /\ req[p].seen = req[q].seen => p = q
  /\ \A q \in Request : req[q].at \in {"ttl", "expire"} =>
       /\ req[q].seen > 0 /\ req[q].open = {} /\ req[q].started <= req[q].when
       /\ req[q].at = "expire" => req[q].seen = 1
       /\ req[q].seen = 1 => q \in Cur /\ End = Never

(* Of the expired counters only the last can still be in the window. *)
Past == {q \in Request : /\ q \notin Cur /\ req[q].seen \in 1..CounterMax
                         /\ req[q].when + Window > now}
PastIsOver ==
  /\ End # Never => \A q \in Request :
                      q \notin Cur /\ req[q].seen > 0 => req[q].when + Window <= End
  /\ Cardinality(Past) <= CounterMax

Judged ==
  \A q \in Request :
    /\ In(q) /\ req[q].open = {} => req[q].seen \in 1..CounterMax
    /\ req[q].outcome = "refused" => req[q].seen > CounterMax

(* The counter of a member began at most Latency before it expires. *)
First(f) == f \in Cur /\ req[f].seen = 1 /\ req[f].at \in {"ttl", "expire"}
Begun ==
  \A q \in Cur :
    /\ End # Never => End <= req[q].when + Window + Latency
    /\ End = Never => \E f \in Request : First(f) /\ req[f].when <= req[q].when

Before(r) == {q \in Request \ {r} : req[q].seen > 0 /\ req[q].when + Window + Latency > req[r].when}
Preceded == \A r \in Request : req[r].seen > 0 => Cardinality(Before(r)) >= req[r].seen - 1

Lost == \E q \in Request : ExpiryLost(q)

CounterInv ==
  limiter = "counter" =>
    Numbered /\ PastIsOver /\ Judged /\ CounterEnds /\ (Lost \/ (Begun /\ Preceded))

(* What a step does to the counter. *)
Adds(r) == req[r].at = "incr" /\ Cur' = Cur \cup {r} /\ End' = End
Ends(r) == req[r].at = "expire" /\ Cur' = Cur /\ End' = now + Window
Stays == Cur' = Cur /\ End' = End

LEMMA CounterEffect ==
  ASSUME Base, NEW r \in Request, Numbered
  PROVE  /\ Counts(r) => Adds(r)
         /\ GivesUp(r) => Adds(r) \/ Ends(r) \/ Stays
         /\ GoesOn(r) => Stays
         /\ Decides(r) => Ends(r) \/ (req[r].at = "ttl" /\ Stays)
<1>1. AddTo(Counter, r) => Cur' = Cur \cup {r} /\ End' = End
  BY KeyFacts DEF AddTo, Base, TypeOK, Cur, End
<1>2. ASSUME req[r].at = "expire", Expire(Counter)
      PROVE  Cur' = Cur /\ End' = now + Window
  <2>1. store[Counter] # {}
    BY <1>2 DEF Numbered, Cur
  <2>2. life \in [Key -> 0..Never] /\ Counter \in Key
    BY KeyFacts DEF Base, TypeOK
  <2>3. /\ life'[Counter] = IF store[Counter] = {} THEN life[Counter] ELSE now + Window
        /\ store' = store
    BY <1>2, <2>2 DEF Expire
  <2>4. life'[Counter] = now + Window
    BY <2>1, <2>3
  <2> QED
    BY <2>3, <2>4 DEF Cur, End
<1>3. UNCHANGED <<store, life>> => Cur' = Cur /\ End' = End
  BY DEF Cur, End
<1> QED
  BY <1>1, <1>2, <1>3 DEF Counts, GivesUp, GoesOn, Decides, Adds, Ends, Stays

LEMMA CounterTypes ==
  ASSUME Base
  PROVE  /\ Cur \in SUBSET Request /\ End \in Nat /\ now \in Nat /\ now < End
         /\ Cardinality(Cur) \in Nat
         /\ CounterMax \in Nat
         /\ now + Window < Never
         /\ \A q \in Request : /\ req[q].seen \in Nat /\ req[q].when \in Nat /\ req[q].when <= now
                               /\ req[q].started \in Nat
<1>1. Cur \in SUBSET Request /\ End \in 0..Never /\ now < End
  BY KeyFacts DEF Base, TypeOK, Kept, Cur, End
<1>2. Cardinality(Cur) \in Nat
  BY <1>1, FiniteRequests
<1>3. CounterMax \in Nat
  BY LimitsAssumption DEF LimitsAssumption
<1>4. now \in Time /\ \A q \in Request : req[q] \in RequestState /\ req[q].when <= now
  BY DEF Base, TypeOK, Shape
<1>5. \A q \in Request : req[q].seen \in Nat /\ req[q].when \in Time /\ req[q].started \in Time
  BY <1>4 DEF RequestState
<1>6. End \in Nat /\ now \in Nat /\ now + Window < Never
  BY <1>1, <1>4, TimeFacts
<1>7. \A q \in Request : req[q].when \in Nat /\ req[q].started \in Nat
  BY <1>5, TimeFacts
<1> QED
  BY <1>1, <1>2, <1>3, <1>4, <1>5, <1>6, <1>7

LEMMA Added ==
  ASSUME Base, Numbered, NEW r \in Request, Adds(r)
  PROVE  /\ r \notin Cur /\ req[r].seen = 0 /\ req[r].open = {}
         /\ Cardinality(Cur \cup {r}) = Cardinality(Cur) + 1
         /\ Cardinality(Cur) = 0 => Cur = {}
<1>1. IsFiniteSet(Cur)
  BY CounterTypes, FiniteRequests
<1>2. r \notin Cur /\ req[r].seen = 0 /\ req[r].open = {}
  BY DEF Adds, Numbered
<1> QED
  BY <1>1, <1>2, FS_AddElement, FS_EmptySet

LEMMA NumberedKept ==
  ASSUME Base, limiter = "counter", Numbered, NEW r \in Request, Handles(r)
  PROVE  Numbered'
<1>1. Moves(r) /\ (Counts(r) \/ GivesUp(r) \/ GoesOn(r) \/ Decides(r))
  BY CounterStep
<1>2. \A q \in Request : q # r => req'[q] = req[q]
  BY <1>1 DEF Moves, Others
<1>3. req[r].at \in {"incr", "ttl", "expire"} /\ Base'
  BY <1>1, HandlesFacts, BaseKept DEF StagesOf
<1>4. Adds(r) \/ Ends(r) \/ Stays
  BY <1>1, CounterEffect
<1>5. /\ Cur' \in SUBSET Request /\ Cur \subseteq Cur' /\ Cur' \subseteq Cur \cup {r}
      /\ Cardinality(Cur) \in Nat /\ Cardinality(Cur') \in Nat
      /\ Cardinality(Cur) <= Cardinality(Cur')
  <2>1. Cur \subseteq Cur' /\ Cur' \subseteq Cur \cup {r}
    BY <1>4 DEF Adds, Ends, Stays
  <2>2. Cur' \in SUBSET Request
    BY <2>1, CounterTypes
  <2> QED
    BY <2>1, <2>2, FiniteRequests, SmallerSet
<1>6. req[r].at = "incr" => r \notin Cur /\ req[r].seen = 0 /\ req[r].open = {}
  BY DEF Numbered
<1>7. req[r].at \in {"ttl", "expire"} => req[r].seen > 0 /\ req[r].open = {}
  BY DEF Numbered
<1>8. \A q \in Cur : q \in Request /\ req[q].seen \in Nat
  BY CounterTypes
<1>9. Counts(r) => req'[r].seen = Cardinality(Cur) + 1 /\ Cur' = Cur \cup {r}
                   /\ Cardinality(Cur') = Cardinality(Cur) + 1 /\ End' = End
                   /\ (Cardinality(Cur) = 0 => End = Never)
  <2>1. Counts(r) => Adds(r) /\ req'[r].seen = Cardinality(Cur \cup {r})
    BY CounterEffect DEF Counts, Cur
  <2> QED
    BY <2>1, Added DEF Adds, Numbered
<1>10. Cur' = {} => End' = Never
  BY <1>4, <1>5 DEF Adds, Ends, Stays, Numbered
<1>11. req'[r].at \notin {"idle", "incr"}
  BY <1>1 DEF Counts, GivesUp, GoesOn, Decides
<1>12. \A q \in Request : req'[q].at \in {"idle", "incr"} =>
         req'[q].seen = 0 /\ req'[q].open = {} /\ q \notin Cur'
  BY <1>2, <1>5, <1>11 DEF Numbered
<1>13. ASSUME NEW q \in Cur'
       PROVE  (req'[q].seen > 0 \/ ExpiryLost(q)') /\ req'[q].seen <= Cardinality(Cur')
  <2>1. CASE q # r
    <3>1. q \in Cur /\ req'[q] = req[q]
      BY <1>2, <1>5, <2>1
    <3>2. req[q].seen <= Cardinality(Cur) /\ (req[q].seen > 0 \/ ExpiryLost(q))
      BY <3>1 DEF Numbered
    <3> QED
      BY <1>5, <1>8, <3>1, <3>2 DEF ExpiryLost
  <2>2. CASE q = r /\ Counts(r)
    BY <1>5, <1>9, <2>2
  <2>3. CASE q = r /\ ~Counts(r)
    <3>1. req'[r].seen = req[r].seen
      BY <1>1, <2>3 DEF GivesUp, GoesOn, Decides, SameCount
    <3>2. CASE req[r].at = "incr"
      <4>1. GivesUp(r)
        BY <1>1, <2>3, <3>2 DEF GoesOn, Decides
      <4> QED
        BY <1>5, <1>6, <2>3, <3>1, <3>2, <4>1 DEF GivesUp, ExpiryLost
    <3>3. CASE req[r].at # "incr"
      <4>1. r \in Cur
        BY <1>4, <2>3, <3>3 DEF Adds, Ends, Stays
      <4>2. req[r].seen <= Cardinality(Cur)
        BY <4>1 DEF Numbered
      <4> QED
        BY <1>3, <1>5, <1>7, <1>8, <2>3, <3>1, <3>3, <4>1, <4>2
    <3> QED
      BY <3>2, <3>3
  <2> QED
    BY <2>1, <2>2, <2>3
<1>14. ASSUME NEW p \in Cur', NEW q \in Cur', req'[p].seen > 0, req'[p].seen = req'[q].seen
       PROVE  p = q
  <2>1. CASE Counts(r)
    <3>1. \A x \in Cur : x # r /\ req'[x].seen = req[x].seen /\ req[x].seen <= Cardinality(Cur)
      BY <1>2, <1>6, <1>8, <2>1 DEF Counts, Numbered
    <3>2. \A x \in Cur : req'[x].seen # req'[r].seen
      BY <1>5, <1>8, <1>9, <2>1, <3>1
    <3> QED
      BY <1>8, <1>9, <1>14, <2>1, <3>1, <3>2 DEF Numbered
  <2>2. CASE ~Counts(r)
    <3>1. req'[r].seen = req[r].seen
      BY <1>1, <2>2 DEF GivesUp, GoesOn, Decides, SameCount
    <3>2. req'[p].seen = req[p].seen /\ req'[q].seen = req[q].seen /\ p \in Request /\ q \in Request
      BY <1>2, <1>5, <3>1
    <3>3. p \in Cur /\ q \in Cur
      <4>1. \A x \in Cur' : x \in Cur \/ req[x].seen = 0
        BY <1>4, <1>6 DEF Adds, Ends, Stays
      <4>2. req[p].seen > 0 /\ req[q].seen > 0
        BY <1>14, <3>2
      <4>3. req[p].seen # 0 /\ req[q].seen # 0
        BY <4>2
      <4> QED
        BY <4>1, <4>3
    <3> QED
      BY <1>14, <3>2, <3>3 DEF Numbered
  <2> QED
    BY <2>1, <2>2
<1>15. ASSUME NEW q \in Request, req'[q].at \in {"ttl", "expire"}
       PROVE  /\ req'[q].seen > 0 /\ req'[q].open = {} /\ req'[q].started <= req'[q].when
              /\ req'[q].at = "expire" => req'[q].seen = 1
              /\ req'[q].seen = 1 => q \in Cur' /\ End' = Never
  <2>1. CASE q # r
    <3>1. /\ req'[q] = req[q]
          /\ req[q].seen > 0 /\ req[q].open = {} /\ req[q].started <= req[q].when
          /\ req[q].at = "expire" => req[q].seen = 1
          /\ req[q].seen = 1 => q \in Cur /\ End = Never
      BY <1>2, <1>15, <2>1 DEF Numbered
    <3>2. req[q].seen = 1 => ~Ends(r)
      <4>1. Ends(r) => r \in Cur /\ req[r].seen = 1
        BY DEF Ends, Numbered
      <4>2. req[q].seen = 1 => q \in Cur
        BY <3>1
      <4>3. \A x, y \in Cur : req[x].seen > 0 /\ req[x].seen = req[y].seen => x = y
        BY DEF Numbered
      <4> QED
        BY <2>1, <3>1, <4>1, <4>2, <4>3
    <3> QED
      BY <1>4, <1>5, <3>1, <3>2 DEF Adds, Stays
  <2>2. CASE q = r /\ Counts(r)
    <3>1. req'[r].started = req[r].started /\ req'[r].when = now /\ req[r].started <= now
          /\ req'[r].open = {}
      BY <1>6, <2>2, HandlesFacts DEF Counts, Base, Shape
    <3>2. req'[r].at = "ttl" /\ req'[r].seen > 0
      BY <1>5, <1>9, <2>2 DEF Counts
    <3>3. req'[r].seen = 1 => r \in Cur' /\ End' = Never
      BY <1>5, <1>9, <2>2
    <3> QED
      BY <2>2, <3>1, <3>2, <3>3
  <2>3. CASE q = r /\ ~Counts(r)
    <3>1. GoesOn(r)
      BY <1>1, <1>15, <2>3 DEF GivesUp, Decides
    <3>2. Stays
      BY <3>1, CounterEffect
    <3>3. /\ req[r].seen > 0 /\ req[r].open = {} /\ req[r].started <= req[r].when
          /\ req[r].seen = 1 => r \in Cur /\ End = Never
      BY <3>1 DEF GoesOn, Numbered
    <3> QED
      BY <2>3, <3>1, <3>2, <3>3 DEF GoesOn, Stays, SameCount
  <2> QED
    BY <2>1, <2>2, <2>3
<1> QED
  BY <1>10, <1>12, <1>13, <1>14, <1>15 DEF Numbered

LEMMA PastKept ==
  ASSUME Base, limiter = "counter", Numbered, PastIsOver, NEW r \in Request, Handles(r)
  PROVE  PastIsOver'
<1>1. Moves(r) /\ (Counts(r) \/ GivesUp(r) \/ GoesOn(r) \/ Decides(r))
  BY CounterStep
<1>2. now' = now /\ \A q \in Request : q # r => req'[q] = req[q]
  BY <1>1 DEF Moves, Others
<1>3. Adds(r) \/ Ends(r) \/ Stays
  BY <1>1, CounterEffect
<1>4. Counts(r) \/ SameCount(r)
  BY <1>1 DEF GivesUp, GoesOn, Decides
<1>5. Counts(r) => r \in Cur'
  BY CounterEffect DEF Adds
<1>6. Cur \subseteq Cur'
  BY <1>3 DEF Adds, Ends, Stays
<1>7. \A q \in Request : q \notin Cur' =>
        q \notin Cur /\ req'[q].seen = req[q].seen /\ req'[q].when = req[q].when
  BY <1>2, <1>4, <1>5, <1>6 DEF SameCount
<1>8. ASSUME End' # Never, NEW q \in Request, q \notin Cur', req'[q].seen > 0
      PROVE  req'[q].when + Window <= End'
  <2>1. q \notin Cur /\ req[q].seen > 0 /\ req'[q].when = req[q].when
    BY <1>7, <1>8
  <2>2. CASE End' = End
    BY <1>8, <2>1, <2>2 DEF PastIsOver
  <2>3. CASE End' = now + Window
    BY <2>1, <2>3, CounterTypes, TimeFacts
  <2> QED
    BY <1>3, <2>2, <2>3 DEF Adds, Ends, Stays
<1>9. Cardinality(Past') <= CounterMax
  <2>1. Past' \subseteq Past
    BY <1>2, <1>7 DEF Past
  <2>2. Past \in SUBSET Request
    BY DEF Past
  <2>3. Cardinality(Past') <= Cardinality(Past) /\ Cardinality(Past) \in Nat /\ Cardinality(Past') \in Nat
    BY <2>1, <2>2, SmallerSet, FiniteRequests
  <2> QED
    BY <2>3, CounterTypes DEF PastIsOver
<1> QED
  BY <1>8, <1>9 DEF PastIsOver

LEMMA JudgedKept ==
  ASSUME Base, limiter = "counter", Numbered, Judged, NEW r \in Request, Handles(r)
  PROVE  Judged'
<1>1. Moves(r) /\ (Counts(r) \/ GivesUp(r) \/ GoesOn(r) \/ Decides(r))
  BY CounterStep
<1>2. \A q \in Request : q # r => req'[q] = req[q]
  BY <1>1 DEF Moves, Others
<1>3. req[r].seen \in Nat /\ CounterMax \in Nat
  BY CounterTypes
<1>4. CASE Decides(r)
  <2>1. req[r].seen > 0
    BY <1>4 DEF Decides, Numbered
  <2>2. req'[r].seen = req[r].seen
    BY <1>4 DEF Decides, SameCount
  <2>3. req'[r].outcome = IF req[r].seen > CounterMax THEN "refused" ELSE "in"
    BY <1>4 DEF Decides
  <2> QED
    BY <1>2, <1>3, <2>1, <2>2, <2>3 DEF Judged, In
<1>5. CASE ~Decides(r)
  <2>1. req'[r].outcome # "refused" /\ (req'[r].outcome = "in" => req'[r].open # {})
    BY <1>1, <1>5 DEF Counts, GivesUp, GoesOn
  <2> QED
    BY <1>2, <2>1 DEF Judged, In
<1> QED
  BY <1>4, <1>5

(* Who gives up while it holds the duty to set the expiry loses it. *)
LEMMA LosesExpiry ==
  ASSUME Base, limiter = "counter", Numbered, NEW r \in Request, Handles(r), GivesUp(r),
         req[r].seen <= 1
  PROVE  ExpiryLost(r)'
BY DEF GivesUp, SameCount, ExpiryLost

LEMMA LostForEver ==
  ASSUME Base, limiter = "counter", Numbered, NEW r \in Request, Handles(r), Lost
  PROVE  Lost'
<1>1. PICK q \in Request : ExpiryLost(q)
  BY DEF Lost
<1>2. req[r].outcome = "none" /\ req[r].open = {}
  <2>1. req[r].at \in {"incr", "ttl", "expire"} /\ req[r].outcome = "none"
    BY HandlesFacts DEF StagesOf
  <2> QED
    BY <2>1 DEF Numbered
<1>3. q # r
  BY <1>1, <1>2 DEF ExpiryLost
<1>4. req'[q] = req[q]
  BY <1>3, CounterStep DEF Moves, Others
<1> QED
  BY <1>1, <1>4 DEF Lost, ExpiryLost

LEMMA EndsKept ==
  ASSUME Base, limiter = "counter", Numbered, CounterEnds, NEW r \in Request, Handles(r)
  PROVE  CounterEnds'
<1>1. Moves(r) /\ (Counts(r) \/ GivesUp(r) \/ GoesOn(r) \/ Decides(r))
  BY CounterStep
<1>2. \A q \in Request : q # r => req'[q] = req[q]
  BY <1>1 DEF Moves, Others
<1>3. now + Window # Never /\ Cur \in SUBSET Request
  BY CounterTypes, TimeFacts DEF Base, TypeOK
<1>4. Adds(r) \/ Ends(r) \/ Stays
  BY <1>1, CounterEffect
<1> SUFFICES ASSUME Cur' # {}, End' = Never
             PROVE  \E q \in Cur' :
                      \/ ExpiryLost(q)'
                      \/ req'[q].seen = 1 /\ req'[q].at \in {"ttl", "expire"}
  BY DEF CounterEnds, Cur, End
<1>5. End = Never /\ ~Ends(r) /\ Cur \subseteq Cur'
  BY <1>3, <1>4 DEF Adds, Ends, Stays
<1>6. Cur # {} => \E q \in Cur : ExpiryLost(q) \/ (req[q].seen = 1 /\ req[q].at \in {"ttl", "expire"})
  BY <1>5 DEF CounterEnds, Cur, End
<1>7. ASSUME NEW q \in Cur, q # r,
             ExpiryLost(q) \/ (req[q].seen = 1 /\ req[q].at \in {"ttl", "expire"})
      PROVE  q \in Cur' /\ (\/ ExpiryLost(q)'
                            \/ req'[q].seen = 1 /\ req'[q].at \in {"ttl", "expire"})
  <2>1. req'[q] = req[q] /\ q \in Cur'
    BY <1>2, <1>3, <1>5, <1>7
  <2> QED
    BY <1>7, <2>1 DEF ExpiryLost
<1>8. CASE Adds(r)
  <2>1. r \notin Cur /\ r \in Cur' /\ req[r].seen = 0
    BY <1>8, Added DEF Adds
  <2>2. CASE Cur = {}
    <3>1. CASE Counts(r)
      <4>1. Cardinality(Cur \cup {r}) = 1
        BY <1>8, <2>2, Added, FS_EmptySet
      <4> QED
        BY <2>1, <3>1, <4>1 DEF Counts, Cur
    <3>2. CASE GivesUp(r)
      BY <2>1, <3>2, LosesExpiry
    <3>3. ~GoesOn(r) /\ ~Decides(r)
      BY <1>8 DEF GoesOn, Decides, Adds
    <3> QED
      BY <1>1, <3>1, <3>2, <3>3
  <2>3. CASE Cur # {}
    BY <1>6, <1>7, <2>1, <2>3
  <2> QED
    BY <2>2, <2>3
<1>9. CASE Stays
  <2>1. PICK q \in Cur : ExpiryLost(q) \/ (req[q].seen = 1 /\ req[q].at \in {"ttl", "expire"})
    BY <1>6, <1>9 DEF Stays
  <2>2. CASE q # r
    BY <1>7, <2>1, <2>2
  <2>3. CASE q = r
    <3>1. r \in Cur' /\ req[r].at \in {"ttl", "expire"} /\ req[r].open = {} /\ req[r].outcome = "none"
      <4>1. req[r].at \in {"incr", "ttl", "expire"} /\ req[r].outcome = "none"
        BY HandlesFacts DEF StagesOf
      <4>2. r \in Cur' /\ req[r].at # "incr" /\ req[r].open = {}
        BY <1>9, <2>3, <4>1 DEF Numbered, Stays
      <4> QED
        BY <4>1, <4>2
    <3>2. req[r].seen = 1
      BY <2>1, <2>3, <3>1 DEF ExpiryLost
    <3>3. CASE GoesOn(r)
      BY <3>1, <3>2, <3>3 DEF GoesOn, SameCount
    <3>4. CASE GivesUp(r)
      BY <3>1, <3>2, <3>4, LosesExpiry
    <3>5. ~Counts(r) /\ ~Decides(r)
      <4>1. Decides(r) => Ends(r) \/ (req[r].at = "ttl" /\ req[r].seen # 1)
        BY CounterEffect DEF Decides, Ends
      <4> QED
        BY <1>5, <3>1, <3>2, <4>1 DEF Counts
    <3> QED
      BY <1>1, <3>3, <3>4, <3>5
  <2> QED
    BY <2>2, <2>3
<1> QED
  BY <1>4, <1>5, <1>8, <1>9

LEMMA BegunKept ==
  ASSUME Base, limiter = "counter", Numbered, Begun, CounterEnds, NEW r \in Request, Handles(r)
  PROVE  Lost' \/ Begun'
<1>1. Moves(r) /\ (Counts(r) \/ GivesUp(r) \/ GoesOn(r) \/ Decides(r))
  BY CounterStep
<1>2. \A q \in Request : q # r => req'[q] = req[q]
  BY <1>1 DEF Moves, Others
<1>3. /\ Window \in Nat /\ Latency \in Nat /\ now \in Nat /\ End \in Nat
      /\ Cur \in SUBSET Request /\ now + Window # Never
      /\ \A q \in Request : req[q].when \in Nat /\ req[q].when <= now
  BY CounterTypes, TimeFacts
<1>4. Adds(r) \/ Ends(r) \/ Stays
  BY <1>1, CounterEffect
<1>5. Counts(r) \/ SameCount(r)
  BY <1>1 DEF GivesUp, GoesOn, Decides
<1> SUFFICES ASSUME ~Lost'
             PROVE  Begun'
  OBVIOUS
<1>6. ASSUME NEW f \in Request, First(f), f # r
      PROVE  First(f)' /\ req'[f].when = req[f].when
  <2>1. Cur \subseteq Cur'
    BY <1>4 DEF Adds, Ends, Stays
  <2> QED
    BY <1>2, <1>6, <2>1 DEF First
<1>7. CASE Adds(r)
  <2>1. Counts(r)
    <3>1. ~GoesOn(r) /\ ~Decides(r)
      BY <1>7 DEF GoesOn, Decides, Adds
    <3>2. GivesUp(r) => Lost'
      <4>1. req[r].seen = 0
        BY <1>7 DEF Adds, Numbered
      <4> QED
        BY <4>1, LosesExpiry DEF Lost
    <3> QED
      BY <1>1, <3>1, <3>2
  <2>2. End' = End /\ Cur' = Cur \cup {r} /\ req'[r].when = now /\ r \notin Cur
    BY <1>7, <2>1, Added DEF Adds, Counts
  <2>3. \A q \in Cur : req'[q].when = req[q].when /\ q # r
    BY <1>2, <1>3, <2>2
  <2>4. ASSUME NEW q \in Cur'
        PROVE  /\ End' # Never => End' <= req'[q].when + Window + Latency
               /\ End' = Never => \E f \in Request : First(f)' /\ req'[f].when <= req'[q].when
    <3>1. CASE Cur = {}
      <4>1. q = r /\ End' = Never
        BY <2>2, <3>1 DEF Numbered
      <4>2. Cardinality(Cur \cup {r}) = 1
        BY <1>7, <3>1, Added, FS_EmptySet
      <4>3. First(r)'
        BY <2>1, <2>2, <4>2 DEF First, Counts, Cur
      <4> QED
        BY <1>3, <2>2, <4>1, <4>3
    <3>2. CASE Cur # {}
      <4>1. PICK x \in Cur : req[x].when <= req'[q].when /\ x \in Request /\ req'[q].when \in Nat
        BY <1>3, <2>2, <2>3, <3>2
      <4>2. /\ End # Never => End <= req[x].when + Window + Latency
            /\ End = Never => \E f \in Request : First(f) /\ req[f].when <= req[x].when
        BY <4>1 DEF Begun
      <4>3. End' # Never => End' <= req'[q].when + Window + Latency
        BY <1>3, <2>2, <4>1, <4>2
      <4>4. ASSUME End' = Never
            PROVE  \E f \in Request : First(f)' /\ req'[f].when <= req'[q].when
        <5>1. PICK f \in Request : First(f) /\ req[f].when <= req[x].when
          BY <2>2, <4>2, <4>4
        <5>2. f # r
          BY <2>2, <5>1 DEF First
        <5> QED
          BY <1>3, <1>6, <4>1, <5>1, <5>2
      <4> QED
        BY <4>3, <4>4
    <3> QED
      BY <3>1, <3>2
  <2> QED
    BY <2>4 DEF Begun
<1>8. SameCount(r) /\ Cur' = Cur =>
        \A q \in Cur' : q \in Cur /\ q \in Request /\ req'[q].when = req[q].when
  BY <1>2, <1>3 DEF SameCount
<1>9. CASE Ends(r)
  <2>1. req[r].seen = 1 /\ r \in Cur /\ End = Never /\ req[r].started <= req[r].when
    BY <1>9 DEF Ends, Numbered
  <2>2. SameCount(r) /\ End' = now + Window /\ Cur' = Cur
    BY <1>5, <1>9 DEF Ends, Counts
  <2>3. now <= req[r].started + Latency /\ req[r].started \in Nat
    BY HandlesFacts, CounterTypes DEF Base, Shape
  <2>4. ASSUME NEW q \in Cur
        PROVE  req[r].when <= req[q].when
    <3>1. PICK f \in Request : First(f) /\ req[f].when <= req[q].when
      BY <2>1 DEF Begun
    <3>2. f = r
      BY <2>1, <3>1 DEF First, Numbered
    <3> QED
      BY <3>1, <3>2
  <2>5. ASSUME NEW q \in Cur'
        PROVE  End' <= req'[q].when + Window + Latency
    <3>1. q \in Cur /\ q \in Request /\ req'[q].when = req[q].when
      BY <1>8, <2>2
    <3>2. req[r].when <= req[q].when
      BY <2>4, <3>1
    <3> QED
      BY <1>3, <2>1, <2>2, <2>3, <3>1, <3>2
  <2> QED
    BY <1>3, <2>2, <2>5 DEF Begun
<1>10. CASE Stays
  <2>1. SameCount(r)
    <3>1. Counts(r) => r \in Cur' /\ r \notin Cur
      BY CounterEffect, Added DEF Adds
    <3> QED
      BY <1>5, <1>10, <3>1 DEF Stays
  <2>2. First(r) => First(r)'
    <3>1. Decides(r) => Ends(r) \/ (req[r].at = "ttl" /\ req[r].seen # 1)
      BY CounterEffect DEF Decides, Ends
    <3>2. Ends(r) => End' # Never
      BY <1>3 DEF Ends
    <3>3. First(r) => End = Never
      BY DEF First, Numbered
    <3>4. First(r) => ~GivesUp(r)
      BY LosesExpiry DEF First, Lost
    <3>5. First(r) => ~Counts(r)
      BY DEF First, Counts
    <3>6. First(r) => GoesOn(r)
      BY <1>1, <1>10, <3>1, <3>2, <3>3, <3>4, <3>5 DEF First, Stays
    <3> QED
      BY <1>10, <3>6 DEF First, GoesOn, SameCount, Stays
  <2>3. ASSUME NEW q \in Cur'
        PROVE  /\ End' # Never => End' <= req'[q].when + Window + Latency
               /\ End' = Never => \E f \in Request : First(f)' /\ req'[f].when <= req'[q].when
    <3>1. q \in Cur /\ q \in Request /\ req'[q].when = req[q].when /\ End' = End
      BY <1>8, <1>10, <2>1 DEF Stays
    <3>2. \A f \in Request : First(f) => First(f)' /\ req'[f].when = req[f].when
      BY <1>6, <2>1, <2>2 DEF SameCount
    <3> QED
      BY <3>1, <3>2 DEF Begun
  <2> QED
    BY <2>3 DEF Begun
<1> QED
  BY <1>4, <1>7, <1>9, <1>10

LEMMA PrecededKept ==
  ASSUME Base, limiter = "counter", Numbered, Begun, Preceded, ~Lost,
         NEW r \in Request, Handles(r)
  PROVE  Preceded'
<1>1. Moves(r) /\ (Counts(r) \/ GivesUp(r) \/ GoesOn(r) \/ Decides(r))
  BY CounterStep
<1>2. \A q \in Request : q # r => req'[q] = req[q]
  BY <1>1 DEF Moves, Others
<1>3. /\ Window \in Nat \ {0} /\ Latency \in Nat /\ now \in Nat /\ End \in Nat /\ now < End
      /\ Cur \in SUBSET Request
      /\ \A q \in Request : req[q].when \in Nat /\ req[q].started \in Nat /\ req[q].seen \in Nat
  BY CounterTypes, TimeFacts
<1>4. Counts(r) \/ SameCount(r)
  BY <1>1 DEF GivesUp, GoesOn, Decides
<1>5. Counts(r) => req[r].seen = 0
  BY DEF Counts, Numbered
<1>6. ASSUME NEW q \in Request, q # r \/ ~Counts(r), req'[q].seen > 0
      PROVE  Cardinality(Before(q)') >= req'[q].seen - 1
  <2>1. req'[q].seen = req[q].seen /\ req'[q].when = req[q].when
    BY <1>2, <1>4, <1>6 DEF SameCount
  <2>2. Before(q) \subseteq Before(q)'
    <3>1. ASSUME NEW x \in Before(q)
          PROVE  x \in Before(q)'
      <4>1. x \in Request \ {q} /\ req[x].seen > 0 /\ req[x].when + Window + Latency > req[q].when
        BY <3>1 DEF Before
      <4>2. req'[x].seen = req[x].seen /\ req'[x].when = req[x].when
        BY <1>2, <1>4, <1>5, <4>1 DEF SameCount
      <4> QED
        BY <2>1, <4>1, <4>2 DEF Before
    <3> QED
      BY <3>1
  <2>3. Before(q)' \in SUBSET Request
    BY DEF Before
  <2>4. /\ Cardinality(Before(q)) <= Cardinality(Before(q)')
        /\ Cardinality(Before(q)) \in Nat /\ Cardinality(Before(q)') \in Nat
    BY <2>2, <2>3, SmallerSet, FiniteRequests
  <2>5. Cardinality(Before(q)) >= req[q].seen - 1
    BY <1>6, <2>1 DEF Preceded
  <2> QED
    BY <1>3, <2>1, <2>4, <2>5
<1>7. CASE Counts(r)
  <2>1. Adds(r) /\ r \notin Cur /\ req'[r].when = now /\ req'[r].seen = Cardinality(Cur) + 1
    <3>1. Adds(r)
      BY <1>7, CounterEffect
    <3> QED
      BY <1>7, <3>1, Added DEF Counts, Cur
  <2>2. ASSUME NEW x \in Cur
        PROVE  x \in Before(r)'
    <3>1. x \in Request /\ x # r /\ req'[x] = req[x]
      BY <1>2, <1>3, <2>1
    <3>2. req[x].seen > 0
      BY <3>1 DEF Numbered, Lost
    <3>3. req[x].when + Window + Latency > now
      <4>1. CASE End # Never
        <5>1. End <= req[x].when + Window + Latency
          BY <4>1 DEF Begun
        <5> QED
          BY <1>3, <3>1, <5>1
      <4>2. CASE End = Never
        <5>1. PICK f \in Request : First(f) /\ req[f].when <= req[x].when
          BY <4>2 DEF Begun
        <5>2. req[f].started <= req[f].when /\ now <= req[f].started + Latency
          BY <5>1 DEF First, Numbered, Base, Shape, Active
        <5> QED
          BY <1>3, <3>1, <5>1, <5>2
      <4> QED
        BY <4>1, <4>2
    <3> QED
      BY <2>1, <3>1, <3>2, <3>3 DEF Before
  <2>3. Before(r)' \in SUBSET Request
    BY DEF Before
  <2>4. /\ Cardinality(Cur) <= Cardinality(Before(r)')
        /\ Cardinality(Cur) \in Nat /\ Cardinality(Before(r)') \in Nat
    BY <1>3, <2>2, <2>3, SmallerSet, FiniteRequests
  <2>5. Cardinality(Before(r)') >= req'[r].seen - 1
    BY <2>1, <2>4
  <2> QED
    BY <1>6, <2>5 DEF Preceded
<1>8. CASE ~Counts(r)
  BY <1>6, <1>8 DEF Preceded
<1> QED
  BY <1>7, <1>8

LEMMA CounterArrives ==
  ASSUME Base, CounterInv, NEW r \in Request, Arrive(r)
  PROVE  CounterInv'
<1> SUFFICES ASSUME limiter = "counter"
             PROVE  (Numbered /\ PastIsOver /\ Judged /\ CounterEnds /\ (Lost \/ (Begun /\ Preceded)))'
  BY ArriveFacts DEF CounterInv, Base
<1>1. /\ \A q \in Request : q # r => req'[q] = req[q]
      /\ req[r].at = "idle" /\ req'[r].at = "incr"
      /\ req'[r].outcome = "none" /\ req'[r].open = {} /\ req'[r].seen = 0
      /\ req'[r].when = req[r].when
      /\ Cur' = Cur /\ End' = End /\ now' = now
  BY ArriveFacts DEF Base, Others, Cur, End
<1>2. r \notin Cur /\ Cur \in SUBSET Request /\ req[r].seen = 0 /\ req[r].outcome = "none"
      /\ req[r].open = {}
  BY <1>1, CounterTypes DEF CounterInv, Numbered, Base, Shape
<1>3. Numbered'
  BY <1>1, <1>2 DEF CounterInv, Numbered, ExpiryLost
<1>4. PastIsOver'
  <2>1. Past' = Past
    BY <1>1, <1>2 DEF Past
  <2> QED
    BY <1>1, <1>2, <2>1 DEF CounterInv, PastIsOver
<1>5. Judged'
  BY <1>1 DEF CounterInv, Judged, In
<1>6. CounterEnds'
  BY <1>1, <1>2 DEF CounterInv, CounterEnds, ExpiryLost, Cur, End
<1>7. Lost => Lost'
  BY <1>1, <1>2 DEF Lost, ExpiryLost
<1>8. Begun => Begun'
  BY <1>1, <1>2 DEF Begun, First
<1>9. Preceded => Preceded'
  <2>1. \A q \in Request : req'[q].when = req[q].when /\ req'[q].seen = req[q].seen
    BY <1>1, <1>2
  <2>2. \A q \in Request : Before(q)' = Before(q)
    BY <2>1 DEF Before
  <2> QED
    BY <2>1, <2>2 DEF Preceded
<1> QED
  BY <1>3, <1>4, <1>5, <1>6, <1>7, <1>8, <1>9 DEF CounterInv

Within == {q \in Cur : req[q].seen \in 1..CounterMax}

(* No more members than numbers. *)
LEMMA WithinIsSmall ==
  ASSUME Base, Numbered
  PROVE  /\ Within \in SUBSET Request
         /\ Cardinality(Within) \in Nat /\ Cardinality(Within) <= CounterMax
<1>1. Within \in SUBSET Request /\ CounterMax \in Nat
  BY CounterTypes DEF Within
<1> DEFINE f == [q \in Within |-> req[q].seen]
<1>2. f \in [Within -> 1..CounterMax]
  BY DEF Within
<1>3. ASSUME NEW p \in Within, NEW q \in Within, f[p] = f[q]
      PROVE  p = q
  <2>1. p \in Cur /\ q \in Cur /\ req[p].seen = req[q].seen /\ req[p].seen \in 1..CounterMax
    BY <1>3 DEF Within
  <2>2. req[p].seen > 0
    BY <1>1, <2>1
  <2> QED
    BY <2>1, <2>2 DEF Numbered
<1>4. /\ IsFiniteSet(1..CounterMax) /\ Cardinality(1..CounterMax) = CounterMax
      /\ IsFiniteSet(Within) /\ Cardinality(Within) \in Nat
  BY <1>1, FS_Interval, FiniteRequests
<1>5. ASSUME Cardinality(1..CounterMax) < Cardinality(Within)
      PROVE  FALSE
  <2> HIDE DEF f
  <2>1. \E p, q \in Within : p # q /\ f[p] = f[q]
    <3> DEFINE S == Within
               T == 1..CounterMax
    <3>1. IsFiniteSet(S) /\ IsFiniteSet(T) /\ Cardinality(T) < Cardinality(S) /\ f \in [S -> T]
      BY <1>2, <1>4, <1>5
    <3> HIDE DEF S, T
    <3>2. \E p, q \in S : p # q /\ f[p] = f[q]
      BY <3>1, FS_PigeonHole
    <3> QED
      BY <3>2 DEF S
  <2> QED
    BY <1>3, <2>1
<1> QED
  BY <1>1, <1>4, <1>5

LEMMA CounterTicks ==
  ASSUME Base, CounterInv, Tick
  PROVE  CounterInv'
<1> SUFFICES ASSUME limiter = "counter"
             PROVE  (Numbered /\ PastIsOver /\ Judged /\ CounterEnds /\ (Lost \/ (Begun /\ Preceded)))'
  BY TickFacts DEF CounterInv
<1>1. /\ req' = req /\ now' = now + 1
      /\ \/ Cur' = {} /\ End' = Never /\ End <= now'
         \/ Cur' = Cur /\ End' = End
  BY TickFacts, KeyFacts DEF Cur, End
<1>2. /\ now \in Nat /\ CounterMax \in Nat /\ Window \in Nat /\ End \in Nat
      /\ now' \in Nat /\ Never \in Nat /\ now' < Never
      /\ Cur \in SUBSET Request
      /\ \A q \in Request : req[q].when \in Nat /\ req[q].seen \in Nat
  <2>1. now' \in Nat /\ Never \in Nat /\ now' < Never
    BY TickFacts, TimeFacts
  <2> QED
    BY <2>1, CounterTypes, TimeFacts
<1>3. Judged' /\ (Lost => Lost') /\ (Preceded => Preceded')
  BY <1>1 DEF CounterInv, Judged, In, Lost, ExpiryLost, Preceded, Before
<1>4. CASE Cur' = Cur /\ End' = End
  <2>1. Numbered'
    BY <1>1, <1>4 DEF CounterInv, Numbered, ExpiryLost
  <2>2. PastIsOver'
    <3>1. Past' \subseteq Past
      BY <1>1, <1>2, <1>4 DEF Past
    <3>2. Past \in SUBSET Request
      BY DEF Past
    <3>3. Cardinality(Past') <= Cardinality(Past) /\ Cardinality(Past) \in Nat
          /\ Cardinality(Past') \in Nat
      BY <3>1, <3>2, SmallerSet, FiniteRequests
    <3>4. Cardinality(Past') <= CounterMax
      BY <1>2, <3>3 DEF CounterInv, PastIsOver
    <3> QED
      BY <1>1, <1>4, <3>4 DEF CounterInv, PastIsOver
  <2>3. CounterEnds'
    BY <1>1, <1>4 DEF CounterInv, CounterEnds, ExpiryLost, Cur, End
  <2>4. Begun => Begun'
    BY <1>1, <1>4 DEF Begun, First
  <2> QED
    BY <1>3, <2>1, <2>2, <2>3, <2>4 DEF CounterInv
<1>5. CASE Cur' = {} /\ End' = Never /\ End <= now'
  <2>1. End # Never
    BY <1>2, <1>5
  <2>2. Numbered'
    BY <1>1, <1>5, <2>1 DEF CounterInv, Numbered
  <2>3. PastIsOver'
    <3>1. Past' \subseteq Within
      <4>1. ASSUME NEW q \in Past'
            PROVE  q \in Within
        <5>1. q \in Request /\ req[q].seen \in 1..CounterMax /\ req[q].when + Window > now'
          BY <1>1, <4>1 DEF Past
        <5>2. q \notin Cur => req[q].when + Window <= End
          BY <1>2, <2>1, <5>1 DEF CounterInv, PastIsOver
        <5> QED
          BY <1>1, <1>2, <1>5, <5>1, <5>2 DEF Within
      <4> QED
        BY <4>1
    <3>2. /\ Cardinality(Past') <= Cardinality(Within)
          /\ Cardinality(Past') \in Nat
      BY <3>1, WithinIsSmall, SmallerSet, FiniteRequests DEF CounterInv, Past
    <3> QED
      BY <1>2, <1>5, <3>2, WithinIsSmall DEF CounterInv, PastIsOver
  <2>4. CounterEnds'
    BY <1>5 DEF CounterEnds, Cur, End
  <2>5. Begun'
    BY <1>5 DEF Begun
  <2> QED
    BY <1>3, <2>2, <2>3, <2>4, <2>5 DEF CounterInv
<1> QED
  BY <1>1, <1>4, <1>5

LEMMA CounterStarts ==
  ASSUME Init
  PROVE  CounterInv
<1>1. \A q \in Request : req[q].at = "idle" /\ req[q].outcome = "none" /\ req[q].open = {}
                         /\ req[q].seen = 0
  BY DEF Init
<1>2. Cur = {} /\ End = Never
  BY KeyFacts DEF Init, Cur, End
<1>3. CounterMax \in Nat
  BY LimitsAssumption DEF LimitsAssumption
<1>4. Past = {}
  BY <1>1, <1>3 DEF Past
<1>5. PastIsOver
  BY <1>2, <1>3, <1>4, FS_EmptySet DEF PastIsOver
<1>6. Numbered /\ Judged
  BY <1>1, <1>2 DEF Numbered, Judged, In
<1>7. CounterEnds /\ Begun
  BY <1>2 DEF CounterEnds, Begun, Cur, End
<1>8. Preceded
  BY <1>1 DEF Preceded
<1> QED
  BY <1>5, <1>6, <1>7, <1>8 DEF CounterInv

LEMMA CounterIsKept ==
  ASSUME Base, CounterInv, limiter = "counter"
  PROVE  CounterKept
<1> DEFINE S == {r \in Request : In(r) /\ req[r].open = {} /\ req[r].when + Window > now}
<1>1. S \subseteq Past \cup Within
  BY CounterTypes DEF CounterInv, Judged, Past, Within
<1>2. /\ Past \in SUBSET Request /\ Within \in SUBSET Request
      /\ Past \cup Within \in SUBSET Request /\ Past \cap Within \in SUBSET Request
  BY WithinIsSmall DEF CounterInv, Past
<1>3. /\ IsFiniteSet(Past) /\ IsFiniteSet(Within)
      /\ Cardinality(Past) \in Nat /\ Cardinality(Within) \in Nat
      /\ Cardinality(Past \cap Within) \in Nat
      /\ Cardinality(Past \cup Within) \in Nat
  BY <1>2, FiniteRequests
<1>4. Cardinality(Past \cup Within) <= Cardinality(Past) + Cardinality(Within)
  BY <1>2, UnionBound
<1>5. Cardinality(S) <= Cardinality(Past \cup Within) /\ Cardinality(S) \in Nat
  BY <1>1, <1>2, SmallerSet, FiniteRequests
<1>6. Cardinality(Past) <= CounterMax /\ Cardinality(Within) <= CounterMax /\ CounterMax \in Nat
  BY WithinIsSmall, CounterTypes DEF CounterInv, PastIsOver
<1>7. Cardinality(S) <= 2 * CounterMax
  BY <1>3, <1>4, <1>5, <1>6
<1> QED
  BY <1>7 DEF CounterKept

LEMMA CounterRefusals ==
  ASSUME Base, CounterInv, limiter = "counter", NEW r \in Request, req[r].outcome = "refused"
  PROVE  CounterRefusalEarned(r)
<1>1. CASE Lost
  BY <1>1 DEF Lost, CounterRefusalEarned
<1>2. CASE Preceded
  <2>1. req[r].seen > CounterMax /\ req[r].seen \in Nat /\ CounterMax \in Nat
    BY CounterTypes DEF CounterInv, Judged
  <2>2. Cardinality(Before(r)) >= req[r].seen - 1
    BY <1>2, <2>1 DEF Preceded
  <2>3. Cardinality(Before(r)) \in Nat
    BY FiniteRequests DEF Before
  <2>4. Cardinality(Before(r)) >= CounterMax
    BY <2>1, <2>2, <2>3
  <2> QED
    BY <2>4 DEF CounterRefusalEarned, Before
<1> QED
  BY <1>1, <1>2 DEF CounterInv

-----------------------------------------------------------------------------
(* The sliding window: what a request does after it has come. *)

SameWindow(r) ==
  /\ req'[r].checks = req[r].checks
  /\ \A k \in Sorted : req'[r].stamp[k] = req[r].stamp[k]

(* A check is over, and with the last one the request. *)
LastCheck(r, k) == k = "apiKey" \/ "apiKey" \notin req[r].checks
Over(r, k) ==
  /\ req[r].at = k /\ SameWindow(r)
  /\ req'[r].at = IF LastCheck(r, k) THEN "done" ELSE "between"
  /\ req'[r].outcome = "in" => req'[r].refusedBy = {}

Checks(r, k) ==
  /\ Over(r, k) /\ PutStamp(r, k)
  /\ req'[r].open = req[r].open
  /\ req'[r].refusedBy = req[r].refusedBy \cup
                           (IF Cardinality(InWindow(r, k)) < Maximum[k] THEN {} ELSE {k})

Opens(r, k) ==
  /\ Over(r, k) /\ (PutStamp(r, k) \/ UNCHANGED <<store, life>>)
  /\ req'[r].open = req[r].open \cup {k}
  /\ req'[r].refusedBy = req[r].refusedBy

Stops(r) ==
  /\ \/ UNCHANGED <<store, life>>
     \/ \E k \in Sorted : req[r].at = k /\ PutStamp(r, k)
  /\ req'[r].at = "done" /\ req'[r].outcome = "lost"
  /\ SameWindow(r)
  /\ req'[r].open = req[r].open /\ req'[r].refusedBy = req[r].refusedBy

Turns(r) ==
  /\ req[r].at = "between" /\ req'[r].at = "apiKey"
  /\ req'[r].outcome = "none"
  /\ req'[r].checks = req[r].checks
  /\ req'[r].stamp["ip"] = req[r].stamp["ip"] /\ req'[r].stamp["apiKey"] = now
  /\ req'[r].open = req[r].open /\ req'[r].refusedBy = req[r].refusedBy
  /\ UNCHANGED <<store, life>>

LEMMA CheckedFacts ==
  ASSUME Base, NEW r \in Request, NEW k \in Sorted, req[r].at = k, Handles(r),
         limiter = "window",
         NEW R \in SUBSET Sorted, NEW O \in SUBSET (Sorted \cup {"all"}),
         CheckedWindow(r, R, O)
  PROVE  Moves(r) /\ Over(r, k) /\ req'[r].refusedBy = R /\ req'[r].open = O
<1> DEFINE a == IF LastCheck(r, k) THEN "done" ELSE "between"
           o == IF ~LastCheck(r, k) THEN "none" ELSE IF R # {} THEN "refused" ELSE "in"
           b == IF LastCheck(r, k) THEN 0 ELSE req[r].started
<1>1. req[r] \in RequestState /\ limiter' = limiter /\ now' = now /\ Active(r)
  BY HandlesFacts DEF Base, TypeOK
<1>2. a \in Stage /\ o \in {"none", "in", "refused", "lost"} /\ b \in Time
  <2>1. 0 \in Time /\ req[r].started \in Time
    BY <1>1, LimitsAssumption DEF LimitsAssumption, Time, RequestState
  <2> QED
    BY <2>1, Stages
<1>3. /\ Others(r)
      /\ req'[r] = [req[r] EXCEPT !.at = a, !.outcome = o, !.started = b,
                                  !.refusedBy = R, !.open = O]
      /\ req' = [req EXCEPT ![r] = req'[r]]
  BY DEF Base, TypeOK, CheckedWindow, Others, LastCheck, Sorted
<1>4. a = "done" \/ (a = "between" /\ o = "none" /\ b = req[r].started)
  OBVIOUS
<1>5. o = "in" => R = {}
  OBVIOUS
<1>6. a = IF LastCheck(r, k) THEN "done" ELSE "between"
  OBVIOUS
<1> HIDE DEF a, o, b
<1>7. req'[r] \in RequestState
  BY <1>1, <1>2, <1>3 DEF RequestState
<1>8. req' \in [Request -> RequestState]
  BY <1>3, <1>7 DEF Base, TypeOK
<1>9. /\ req'[r].at = a /\ req'[r].outcome = o /\ req'[r].started = b
      /\ req'[r].refusedBy = R /\ req'[r].open = O
      /\ req'[r].checks = req[r].checks /\ req'[r].stamp = req[r].stamp
      /\ req'[r].when = req[r].when
  BY <1>1, <1>3 DEF RequestState
<1>10. "between" \in StagesOf[limiter]
  BY DEF StagesOf
<1>11. Moves(r)
  BY <1>1, <1>3, <1>4, <1>8, <1>9, <1>10 DEF Moves
<1>12. Over(r, k)
  BY <1>5, <1>6, <1>9 DEF Over, SameWindow
<1> QED
  BY <1>9, <1>11, <1>12

LEMMA WindowStep ==
  ASSUME Base, limiter = "window", NEW r \in Request, Handles(r)
  PROVE  /\ Moves(r)
         /\ \/ \E k \in Sorted : Checks(r, k) \/ Opens(r, k)
            \/ Stops(r)
            \/ Turns(r)
<1>1. req[r].at \in {"ip", "between", "apiKey"}
  BY HandlesFacts DEF StagesOf
<1>2. TypeOK /\ req[r] \in RequestState /\ req[r].outcome = "none" /\ Active(r)
      /\ limiter' = limiter /\ now' = now /\ now \in Time
      /\ req[r].refusedBy \in SUBSET Sorted /\ req[r].open \in SUBSET (Sorted \cup {"all"})
  <2>1. TypeOK /\ req[r] \in RequestState /\ req[r].outcome = "none" /\ Active(r)
        /\ limiter' = limiter /\ now' = now /\ now \in Time
    BY HandlesFacts DEF Base, TypeOK
  <2> QED
    BY <2>1 DEF RequestState
<1>3. ~Delayed(r)
  BY <1>1 DEF Delayed
<1>4. req[r].at \in Waiting => req[r].at \in Sorted
  BY <1>1 DEF Waiting, Sorted
<1>5. Execute(r) /\ req[r].at \in Sorted => PutStamp(r, req[r].at)
  BY <1>1 DEF Execute, Sorted
<1>6. CASE Command(r)
  <2> DEFINE k == req[r].at
             R == req[r].refusedBy \cup (IF Cardinality(InWindow(r, k)) < Maximum[k] THEN {} ELSE {k})
  <2>1. k \in Sorted /\ PutStamp(r, k)
    BY <1>4, <1>5, <1>6 DEF Command
  <2>2. CheckedWindow(r, R, req[r].open)
    BY <1>6, <2>1 DEF Command, Handle, Sorted, CheckWindow
  <2>3. R \in SUBSET Sorted
    BY <1>2, <2>1
  <2>4. R = req[r].refusedBy \cup (IF Cardinality(InWindow(r, k)) < Maximum[k] THEN {} ELSE {k})
    OBVIOUS
  <2> HIDE DEF R
  <2>5. Moves(r) /\ Over(r, k) /\ req'[r].refusedBy = R /\ req'[r].open = req[r].open
    BY <1>2, <2>1, <2>2, <2>3, CheckedFacts
  <2> QED
    BY <2>1, <2>4, <2>5 DEF Checks
<1>7. CASE CommandFails(r)
  <2> DEFINE k == req[r].at
             O == req[r].open \cup {k}
  <2>1. k \in Sorted /\ (PutStamp(r, k) \/ UNCHANGED <<store, life>>)
    BY <1>4, <1>5, <1>7 DEF CommandFails
  <2>2. CheckedWindow(r, req[r].refusedBy, O)
    BY <1>7, <2>1 DEF CommandFails, HandleError, Sorted
  <2>3. O \in SUBSET (Sorted \cup {"all"})
    BY <1>2, <2>1
  <2> HIDE DEF O
  <2>4. Moves(r) /\ Over(r, k) /\ req'[r].refusedBy = req[r].refusedBy /\ req'[r].open = O
    BY <1>2, <2>1, <2>2, <2>3, CheckedFacts
  <2> QED
    BY <2>1, <2>4 DEF Opens, O
<1>8. CASE Stop(r)
  <2>1. Finish(r, "lost")
    BY <1>8 DEF Stop
  <2>2. Moves(r)
    BY <2>1, FinishMoves
  <2>3. /\ req'[r].at = "done" /\ req'[r].outcome = "lost" /\ SameWindow(r)
        /\ req'[r].open = req[r].open /\ req'[r].refusedBy = req[r].refusedBy
    BY <1>2, <2>1, FinishFacts DEF SameWindow
  <2>4. \/ UNCHANGED <<store, life>>
        \/ \E k \in Sorted : req[r].at = k /\ PutStamp(r, k)
    BY <1>4, <1>5, <1>8 DEF Stop
  <2> QED
    BY <2>2, <2>3, <2>4 DEF Stops
<1>9. CASE CheckKey(r)
  <2>1. /\ req[r].at = "between" /\ UNCHANGED <<store, life>>
        /\ req' = [req EXCEPT ![r].at = "apiKey", ![r].stamp["apiKey"] = now]
    BY <1>9 DEF CheckKey
  <2>2. /\ Others(r)
        /\ req'[r] = [req[r] EXCEPT !.at = "apiKey", !.stamp["apiKey"] = now]
        /\ req' = [req EXCEPT ![r] = req'[r]]
    BY <1>2, <2>1 DEF TypeOK, Others
  <2>3. /\ req[r].stamp \in [Sorted -> Time] /\ "apiKey" \in Sorted /\ "ip" \in Sorted
        /\ [req[r].stamp EXCEPT !["apiKey"] = now] \in [Sorted -> Time]
    BY <1>2 DEF RequestState, Sorted
  <2> DEFINE t == [req[r].stamp EXCEPT !["apiKey"] = now]
  <2>4. req'[r] = [req[r] EXCEPT !.at = "apiKey", !.stamp = t]
    BY <1>2, <2>2
  <2>5. t \in [Sorted -> Time] /\ t["apiKey"] = now /\ t["ip"] = req[r].stamp["ip"]
    BY <2>3
  <2> HIDE DEF t
  <2>6. req'[r] \in RequestState
    BY <1>2, <2>4, <2>5, Stages DEF RequestState
  <2>7. /\ req'[r].at = "apiKey" /\ req'[r].stamp = t
        /\ req'[r].outcome = req[r].outcome /\ req'[r].started = req[r].started
        /\ req'[r].checks = req[r].checks /\ req'[r].when = req[r].when
        /\ req'[r].open = req[r].open /\ req'[r].refusedBy = req[r].refusedBy
    BY <1>2, <2>4 DEF RequestState
  <2>8. req' \in [Request -> RequestState]
    BY <1>2, <2>2, <2>6 DEF TypeOK
  <2>9. Turns(r)
    BY <1>2, <2>1, <2>5, <2>7 DEF Turns
  <2>10. \A k \in Sorted : req'[r].stamp[k] \in {req[r].stamp[k], now}
    BY <2>5, <2>7 DEF Sorted
  <2>11. "apiKey" \in StagesOf[limiter]
    BY DEF StagesOf
  <2>12. Moves(r)
    BY <1>2, <2>2, <2>7, <2>8, <2>10, <2>11 DEF Moves
  <2> QED
    BY <2>9, <2>12
<1> QED
  BY <1>3, <1>6, <1>7, <1>8, <1>9 DEF Handles

(* The invariant of the sliding window.  A check is made when its stamp is *)
(* final and Redis may hold the request.                                   *)
Set(k) == store[<<k, 0>>]
Made(q, k) ==
  /\ k \in req[q].checks /\ req[q].at \notin {"idle", k}
  /\ k = "apiKey" => req[q].at \notin {"ip", "between"}
Passed(q, k) ==
  /\ Made(q, k) /\ k \notin req[q].open /\ k \notin req[q].refusedBy
  /\ req[q].outcome # "lost"
Alive(q, k) == req[q].stamp[k] + Window > now

Asked ==
  \A q \in Request :
    /\ req[q].at = "idle" => req[q].checks = {}
    /\ req[q].at \in Sorted => req[q].at \in req[q].checks
    /\ req[q].at = "between" => "apiKey" \in req[q].checks
    /\ In(q) => req[q].at = "done" /\ req[q].refusedBy = {}

Held(k) ==
  /\ \A q \in Set(k) : Made(q, k) /\ req[q].stamp[k] + Window <= life[<<k, 0>>]
  /\ \A q \in Request : Passed(q, k) /\ Alive(q, k) => q \in Set(k)

LetBy(k) == {q \in Request : Passed(q, k) /\ Alive(q, k)}
Limited(k) == Cardinality(LetBy(k)) <= Maximum[k]

Around(r, k) == {q \in Request \ {r} : /\ k \in req[q].checks
                                       /\ req[q].stamp[k] + Window > req[r].stamp[k]}
Crowded(k) ==
  \A q \in Request : k \in req[q].refusedBy =>
    Made(q, k) /\ Cardinality(Around(q, k)) >= Maximum[k]

WindowInv ==
  limiter = "window" => Asked /\ \A k \in Sorted : Held(k) /\ Limited(k) /\ Crowded(k)

LEMMA WindowTypes ==
  ASSUME Base
  PROVE  /\ now \in Nat /\ Window \in Nat \ {0} /\ now + Window \in Nat
         /\ \A k \in Sorted : /\ Set(k) \in SUBSET Request
                              /\ life[<<k, 0>>] \in Nat /\ now < life[<<k, 0>>]
                              /\ Maximum[k] \in Nat
         /\ \A q \in Request, k \in Sorted : req[q].stamp[k] \in Nat /\ req[q].stamp[k] <= now
<1>1. now \in Nat /\ Window \in Nat \ {0} /\ now + Window \in Nat
  BY TimeFacts DEF Base, TypeOK
<1>2. ASSUME NEW k \in Sorted
      PROVE  Set(k) \in SUBSET Request /\ life[<<k, 0>>] \in Nat /\ now < life[<<k, 0>>]
  <2>1. <<k, 0>> \in Key
    BY KeyFacts
  <2>2. store[<<k, 0>>] \in SUBSET Request /\ life[<<k, 0>>] \in 0..Never /\ now < life[<<k, 0>>]
    BY <2>1 DEF Base, TypeOK, Kept
  <2> QED
    BY <2>2, TimeFacts DEF Set
<1>3. \A k \in Sorted : Maximum[k] \in Nat
  BY LimitsAssumption DEF LimitsAssumption, Maximum, Sorted
<1>4. \A q \in Request : req[q].stamp \in [Sorted -> Time]
  BY DEF Base, TypeOK, RequestState
<1>5. \A q \in Request, k \in Sorted : req[q].stamp[k] \in Nat /\ req[q].stamp[k] <= now
  BY <1>4, TimeFacts DEF Base, Shape
<1> QED
  BY <1>1, <1>2, <1>3, <1>5

LEMMA PutFacts ==
  ASSUME Base, NEW r \in Request, NEW k \in Sorted, PutStamp(r, k)
  PROVE  /\ Set(k)' = InWindow(r, k) \cup {r} /\ life'[<<k, 0>>] = now + Window
         /\ \A j \in Sorted \ {k} : Set(j)' = Set(j) /\ life'[<<j, 0>>] = life[<<j, 0>>]
<1>1. store \in [Key -> SUBSET Request] /\ life \in [Key -> 0..Never]
      /\ \A j \in Sorted : <<j, 0>> \in Key
  BY KeyFacts DEF Base, TypeOK
<1>2. \A j \in Sorted \ {k} : <<j, 0>> # <<k, 0>>
  OBVIOUS
<1> QED
  BY <1>1, <1>2 DEF PutStamp, Set

LEMMA WindowSteps ==
  ASSUME Base, limiter = "window", Asked, \A k \in Sorted : Crowded(k),
         NEW r \in Request, Handles(r)
  PROVE  /\ now' = now /\ \A q \in Request : q # r => req'[q] = req[q]
         /\ \A q \in Request : req'[q].checks = req[q].checks
         /\ \A q \in Request, j \in Sorted :
              /\ req'[q].stamp[j] \in {req[q].stamp[j], now}
              /\ Made(q, j) => Made(q, j)' /\ req'[q].stamp[j] = req[q].stamp[j]
              /\ Passed(q, j)' => Passed(q, j) \/ (q = r /\ Checks(r, j) /\ ~Made(r, j))
              /\ j \in req'[q].refusedBy =>
                   j \in req[q].refusedBy \/ (q = r /\ Checks(r, j) /\ ~Made(r, j))
         /\ \A j \in Sorted :
              \/ Set(j)' = Set(j) /\ life'[<<j, 0>>] = life[<<j, 0>>]
              \/ /\ req[r].at = j /\ Set(j)' = InWindow(r, j) \cup {r}
                 /\ life'[<<j, 0>>] = now + Window
<1>1. /\ Moves(r)
      /\ (\E k \in Sorted : Checks(r, k) \/ Opens(r, k)) \/ Stops(r) \/ Turns(r)
  BY WindowStep
<1>2. now' = now /\ \A q \in Request : q # r => req'[q] = req[q]
  BY <1>1 DEF Moves, Others
<1>3. req'[r].checks = req[r].checks
  BY <1>1 DEF Checks, Opens, Over, Stops, Turns, SameWindow
<1>4. \A j \in Sorted : req'[r].stamp[j] \in {req[r].stamp[j], now}
  BY <1>1 DEF Moves
<1>5. req[r].at \in {"ip", "between", "apiKey"} /\ req[r].outcome = "none"
  BY HandlesFacts DEF StagesOf
<1>6. ASSUME NEW j \in Sorted, Made(r, j)
      PROVE  Made(r, j)' /\ req'[r].stamp[j] = req[r].stamp[j]
  <2>1. CASE Turns(r)
    BY <1>6, <2>1 DEF Turns, Made, Sorted
  <2>2. CASE Stops(r)
    BY <1>6, <2>2 DEF Stops, Made, SameWindow, Sorted
  <2>3. CASE \E k \in Sorted : Checks(r, k) \/ Opens(r, k)
    <3>1. PICK k \in Sorted : Over(r, k)
      BY <2>3 DEF Checks, Opens
    <3> QED
      BY <1>6, <3>1 DEF Over, Made, SameWindow, Sorted, LastCheck
  <2> QED
    BY <1>1, <2>1, <2>2, <2>3
<1>7. ASSUME NEW j \in Sorted, Passed(r, j)', ~Passed(r, j)
      PROVE  Checks(r, j) /\ ~Made(r, j)
  <2>1. ~Made(r, j)
    <3>1. req[r].open \subseteq req'[r].open /\ req[r].refusedBy \subseteq req'[r].refusedBy
      BY <1>1 DEF Checks, Opens, Stops, Turns
    <3> QED
      BY <1>5, <1>7, <3>1 DEF Passed
  <2>2. ~Stops(r)
    BY <1>7 DEF Stops, Passed
  <2>3. j \in req[r].checks
    BY <1>3, <1>7 DEF Passed, Made
  <2>4. ~Turns(r)
    BY <1>7, <2>1, <2>3 DEF Turns, Passed, Made, Sorted
  <2>5. PICK k \in Sorted : Checks(r, k) \/ Opens(r, k)
    BY <1>1, <2>2, <2>4
  <2>6. k = j
    BY <1>3, <1>7, <2>1, <2>3, <2>5 DEF Checks, Opens, Over, Passed, Made, Sorted, LastCheck
  <2>7. ~Opens(r, k)
    BY <1>7, <2>6 DEF Opens, Passed
  <2> QED
    BY <2>1, <2>5, <2>6, <2>7
<1>8. ASSUME NEW j \in Sorted, j \in req'[r].refusedBy, j \notin req[r].refusedBy
      PROVE  Checks(r, j) /\ ~Made(r, j)
  <2>1. PICK k \in Sorted : Checks(r, k)
    BY <1>1, <1>8 DEF Opens, Stops, Turns
  <2>2. k = j
    BY <1>8, <2>1 DEF Checks
  <2> QED
    BY <2>1, <2>2 DEF Checks, Over, Made
<1>9. ASSUME NEW j \in Sorted
      PROVE  \/ Set(j)' = Set(j) /\ life'[<<j, 0>>] = life[<<j, 0>>]
             \/ /\ req[r].at = j /\ Set(j)' = InWindow(r, j) \cup {r}
                /\ life'[<<j, 0>>] = now + Window
  <2>1. UNCHANGED <<store, life>> \/ \E k \in Sorted : req[r].at = k /\ PutStamp(r, k)
    BY <1>1 DEF Checks, Opens, Over, Stops, Turns
  <2>2. CASE UNCHANGED <<store, life>>
    BY <2>2 DEF Set
  <2>3. ASSUME NEW k \in Sorted, req[r].at = k, PutStamp(r, k)
        PROVE  \/ Set(j)' = Set(j) /\ life'[<<j, 0>>] = life[<<j, 0>>]
               \/ /\ req[r].at = j /\ Set(j)' = InWindow(r, j) \cup {r}
                  /\ life'[<<j, 0>>] = now + Window
    BY <2>3, PutFacts
  <2> QED
    BY <2>1, <2>2, <2>3
<1>10. \A q \in Request : req'[q].checks = req[q].checks
  BY <1>2, <1>3
<1>11. ASSUME NEW q \in Request, NEW j \in Sorted
       PROVE  /\ req'[q].stamp[j] \in {req[q].stamp[j], now}
              /\ Made(q, j) => Made(q, j)' /\ req'[q].stamp[j] = req[q].stamp[j]
              /\ Passed(q, j)' => Passed(q, j) \/ (q = r /\ Checks(r, j) /\ ~Made(r, j))
              /\ j \in req'[q].refusedBy =>
                   j \in req[q].refusedBy \/ (q = r /\ Checks(r, j) /\ ~Made(r, j))
  <2>1. CASE q # r
    BY <1>2, <2>1 DEF Made, Passed
  <2>2. CASE q = r
    BY <1>4, <1>6, <1>7, <1>8, <2>2
  <2> QED
    BY <2>1, <2>2
<1> QED
  BY <1>2, <1>9, <1>10, <1>11

LEMMA WindowHandles ==
  ASSUME Base, WindowInv, NEW r \in Request, Handles(r)
  PROVE  WindowInv'
<1> SUFFICES ASSUME limiter = "window"
             PROVE  (Asked /\ \A k \in Sorted : Held(k) /\ Limited(k) /\ Crowded(k))'
  BY HandlesFacts DEF WindowInv
<1> USE DEF WindowInv
<1>1. /\ now' = now /\ \A q \in Request : q # r => req'[q] = req[q]
      /\ \A q \in Request : req'[q].checks = req[q].checks
  BY WindowSteps
<1>2. \A q \in Request, j \in Sorted :
        /\ req'[q].stamp[j] \in {req[q].stamp[j], now}
        /\ Made(q, j) => Made(q, j)' /\ req'[q].stamp[j] = req[q].stamp[j]
        /\ Passed(q, j)' => Passed(q, j) \/ (q = r /\ Checks(r, j) /\ ~Made(r, j))
        /\ j \in req'[q].refusedBy =>
             j \in req[q].refusedBy \/ (q = r /\ Checks(r, j) /\ ~Made(r, j))
  BY WindowSteps
<1>3. \A j \in Sorted :
        \/ Set(j)' = Set(j) /\ life'[<<j, 0>>] = life[<<j, 0>>]
        \/ /\ req[r].at = j /\ Set(j)' = InWindow(r, j) \cup {r}
           /\ life'[<<j, 0>>] = now + Window
  BY WindowSteps
<1>4. /\ now \in Nat /\ Window \in Nat \ {0}
      /\ \A k \in Sorted : Set(k) \in SUBSET Request /\ Maximum[k] \in Nat
      /\ \A q \in Request, k \in Sorted : req[q].stamp[k] \in Nat /\ req[q].stamp[k] <= now
  BY WindowTypes
<1>5. Asked'
  <2>1. /\ Moves(r)
        /\ (\E k \in Sorted : Checks(r, k) \/ Opens(r, k)) \/ Stops(r) \/ Turns(r)
    BY WindowStep
  <2>2. /\ req[r].at \in {"ip", "between", "apiKey"}
        /\ req[r].at = "between" => "apiKey" \in req[r].checks
    BY HandlesFacts DEF StagesOf, Asked
  <2>3. req'[r].at # "idle" /\ (req'[r].outcome = "in" => req'[r].at = "done" /\ req'[r].refusedBy = {})
    BY <2>1 DEF Moves, StagesOf, Checks, Opens, Over, Stops, Turns
  <2> QED
    BY <1>1, <2>1, <2>2, <2>3 DEF Asked, In, Sorted, Checks, Opens, Over, LastCheck, Stops, Turns
<1>6. ASSUME NEW j \in Sorted
      PROVE  Held(j)'
  <2>1. ASSUME NEW q \in Set(j)'
        PROVE  Made(q, j)' /\ req'[q].stamp[j] + Window <= life'[<<j, 0>>]
    <3>1. CASE q \in Set(j)
      <4>1. Made(q, j) /\ req[q].stamp[j] + Window <= life[<<j, 0>>] /\ q \in Request
        BY <1>4, <3>1 DEF Held
      <4>2. Made(q, j)' /\ req'[q].stamp[j] = req[q].stamp[j]
        BY <1>2, <4>1
      <4> QED
        BY <1>3, <1>4, <4>1, <4>2
    <3>2. CASE q \notin Set(j)
      <4>1. q = r /\ req[r].at = j /\ life'[<<j, 0>>] = now + Window
        BY <1>3, <2>1, <3>2 DEF InWindow, Set
      <4>2. Made(r, j)'
        <5>1. /\ (\E k \in Sorted : Checks(r, k) \/ Opens(r, k)) \/ Stops(r) \/ Turns(r)
          BY WindowStep
        <5>2. req'[r].at \in {"done", "between"} /\ (j = "apiKey" => req'[r].at = "done")
          BY <4>1, <5>1 DEF Checks, Opens, Over, Stops, Turns, LastCheck, Sorted
        <5>3. j \in req'[r].checks
          BY <1>1, <4>1 DEF Asked
        <5> QED
          BY <5>2, <5>3 DEF Made, Sorted
      <4> QED
        BY <1>2, <1>4, <4>1, <4>2
    <3> QED
      BY <3>1, <3>2
  <2>2. ASSUME NEW q \in Request, Passed(q, j)', Alive(q, j)'
        PROVE  q \in Set(j)'
    <3>1. CASE Passed(q, j)
      <4>1. req'[q].stamp[j] = req[q].stamp[j]
        BY <1>2, <3>1 DEF Passed
      <4>2. q \in Set(j) /\ req[q].stamp[j] + Window > now
        BY <1>1, <2>2, <3>1, <4>1 DEF Held, Alive
      <4>3. req[r].stamp[j] <= now /\ req[r].stamp[j] \in Nat /\ req[q].stamp[j] \in Nat
        BY <1>4
      <4>4. q \in InWindow(r, j)
        BY <1>4, <4>2, <4>3 DEF InWindow, Set
      <4> QED
        BY <1>3, <4>2, <4>4
    <3>2. CASE q = r /\ Checks(r, j)
      BY <3>2, PutFacts DEF Checks
    <3> QED
      BY <1>2, <2>2, <3>1, <3>2
  <2> QED
    BY <2>1, <2>2 DEF Held
<1>7. ASSUME NEW j \in Sorted
      PROVE  Limited(j)'
  <2>1. LetBy(j) \in SUBSET Request /\ LetBy(j)' \in SUBSET Request
        /\ InWindow(r, j) \in SUBSET Request
    BY <1>4 DEF LetBy, InWindow, Set
  <2>2. ASSUME NEW q \in LetBy(j)', Passed(q, j)
        PROVE  q \in LetBy(j)
    <3>1. req'[q].stamp[j] = req[q].stamp[j] /\ q \in Request
      BY <1>2, <2>2 DEF Passed, LetBy
    <3> QED
      BY <1>1, <2>2, <3>1 DEF LetBy, Alive
  <2>3. CASE Checks(r, j) /\ Passed(r, j)' /\ ~Made(r, j)
    <3>1. Cardinality(InWindow(r, j)) < Maximum[j]
      BY <2>3 DEF Checks, Passed
    <3>2. LetBy(j)' \subseteq InWindow(r, j) \cup {r}
      <4>1. ASSUME NEW q \in LetBy(j)', q # r
            PROVE  q \in InWindow(r, j)
        <5>1. q \in Request /\ Passed(q, j)
          BY <1>2, <4>1 DEF LetBy
        <5>2. Alive(q, j) /\ Passed(q, j)
          BY <2>2, <4>1, <5>1 DEF LetBy
        <5>3. q \in Set(j) /\ req[q].stamp[j] + Window > now
          BY <5>1, <5>2 DEF Held, Alive
        <5>4. req[r].stamp[j] <= now /\ req[r].stamp[j] \in Nat /\ req[q].stamp[j] \in Nat
          BY <1>4, <5>1
        <5> QED
          BY <1>4, <5>3, <5>4 DEF InWindow, Set
      <4> QED
        BY <4>1
    <3>3. /\ InWindow(r, j) \cup {r} \in SUBSET Request
          /\ IsFiniteSet(InWindow(r, j)) /\ Cardinality(InWindow(r, j)) \in Nat
          /\ Cardinality(LetBy(j)') \in Nat
      BY <2>1, FiniteRequests
    <3>4. Cardinality(InWindow(r, j) \cup {r}) <= Cardinality(InWindow(r, j)) + 1
      BY <2>1, AddBound
    <3>5. Cardinality(LetBy(j)') <= Cardinality(InWindow(r, j) \cup {r})
          /\ Cardinality(InWindow(r, j) \cup {r}) \in Nat
      BY <3>2, <3>3, SmallerSet, FiniteRequests
    <3>6. Cardinality(LetBy(j)') <= Maximum[j]
      BY <1>4, <3>1, <3>3, <3>4, <3>5
    <3> QED
      BY <3>6 DEF Limited
  <2>4. CASE ~(Checks(r, j) /\ Passed(r, j)' /\ ~Made(r, j))
    <3>1. LetBy(j)' \subseteq LetBy(j)
      BY <1>2, <2>2, <2>4 DEF LetBy
    <3>2. /\ Cardinality(LetBy(j)') <= Cardinality(LetBy(j))
          /\ Cardinality(LetBy(j)') \in Nat /\ Cardinality(LetBy(j)) \in Nat
      BY <2>1, <3>1, SmallerSet, FiniteRequests
    <3>3. Cardinality(LetBy(j)) <= Maximum[j]
      BY DEF Limited
    <3>4. Cardinality(LetBy(j)') <= Maximum[j]
      BY <1>4, <3>2, <3>3
    <3> QED
      BY <3>4 DEF Limited
  <2> QED
    BY <2>3, <2>4
<1>8. ASSUME NEW j \in Sorted
      PROVE  Crowded(j)'
  <2>1. ASSUME NEW q \in Request, j \in req'[q].refusedBy
        PROVE  Made(q, j)' /\ Cardinality(Around(q, j)') >= Maximum[j]
    <3>1. CASE j \in req[q].refusedBy
      <4>1. Made(q, j) /\ Cardinality(Around(q, j)) >= Maximum[j]
        BY <3>1 DEF Crowded
      <4>2. Made(q, j)' /\ req'[q].stamp[j] = req[q].stamp[j]
        BY <1>2, <4>1
      <4>3. Around(q, j) \subseteq Around(q, j)'
        <5>1. ASSUME NEW x \in Around(q, j)
              PROVE  x \in Around(q, j)'
          <6>1. x \in Request \ {q} /\ j \in req[x].checks
                /\ req[x].stamp[j] + Window > req[q].stamp[j]
            BY <5>1 DEF Around
          <6>2. req'[x].stamp[j] \in Nat /\ req[x].stamp[j] <= req'[x].stamp[j]
                /\ req[x].stamp[j] \in Nat /\ req[q].stamp[j] \in Nat
            BY <1>2, <1>4, <6>1
          <6> QED
            BY <1>1, <1>4, <4>2, <6>1, <6>2 DEF Around
        <5> QED
          BY <5>1
      <4>4. Around(q, j)' \in SUBSET Request
        BY DEF Around
      <4>5. /\ Cardinality(Around(q, j)) <= Cardinality(Around(q, j)')
            /\ Cardinality(Around(q, j)) \in Nat /\ Cardinality(Around(q, j)') \in Nat
        BY <4>3, <4>4, SmallerSet, FiniteRequests
      <4> QED
        BY <1>4, <4>1, <4>2, <4>5
    <3>2. CASE j \notin req[q].refusedBy
      <4>1. q = r /\ Checks(r, j) /\ ~Made(r, j)
        BY <1>2, <2>1, <3>2
      <4>2. Cardinality(InWindow(r, j)) >= Maximum[j]
        <5>1. Cardinality(InWindow(r, j)) \in Nat
          BY <1>4, FiniteRequests DEF InWindow, Set
        <5>2. ~(Cardinality(InWindow(r, j)) < Maximum[j])
          BY <2>1, <3>2, <4>1 DEF Checks
        <5> QED
          BY <1>4, <5>1, <5>2
      <4>3. Made(r, j)' /\ req'[r].stamp[j] = req[r].stamp[j]
        <5>1. r \in Set(j)'
          BY <4>1, PutFacts DEF Checks
        <5> QED
          BY <1>6, <4>1, <5>1 DEF Held, Checks, Over, SameWindow
      <4>4. InWindow(r, j) \subseteq Around(r, j)'
        <5>1. ASSUME NEW x \in InWindow(r, j)
              PROVE  x \in Around(r, j)'
          <6>1. x \in Set(j) /\ x \in Request /\ req[x].stamp[j] + Window > req[r].stamp[j]
            BY <1>4, <5>1 DEF InWindow, Set
          <6>2. Made(x, j) /\ x # r
            BY <4>1, <6>1 DEF Held
          <6>3. req'[x] = req[x] /\ j \in req[x].checks
            BY <1>1, <6>1, <6>2 DEF Made
          <6> QED
            BY <4>3, <6>1, <6>2, <6>3 DEF Around
        <5> QED
          BY <5>1
      <4>5. Around(r, j)' \in SUBSET Request
        BY DEF Around
      <4>6. /\ Cardinality(InWindow(r, j)) <= Cardinality(Around(r, j)')
            /\ Cardinality(InWindow(r, j)) \in Nat /\ Cardinality(Around(r, j)') \in Nat
        BY <4>4, <4>5, SmallerSet, FiniteRequests
      <4> QED
        BY <1>4, <4>1, <4>2, <4>3, <4>6
    <3> QED
      BY <3>1, <3>2
  <2> QED
    BY <2>1 DEF Crowded
<1> QED
  BY <1>5, <1>6, <1>7, <1>8

LEMMA WindowArrives ==
  ASSUME Base, WindowInv, NEW r \in Request, Arrive(r)
  PROVE  WindowInv'
<1> SUFFICES ASSUME limiter = "window"
             PROVE  (Asked /\ \A k \in Sorted : Held(k) /\ Limited(k) /\ Crowded(k))'
  BY ArriveFacts DEF WindowInv, Base
<1> USE DEF WindowInv
<1>1. /\ \A q \in Request : q # r => req'[q] = req[q]
      /\ req[r].at = "idle" /\ req[r].checks = {}
      /\ req'[r].at = IF "ip" \in req'[r].checks THEN "ip" ELSE "apiKey"
      /\ req'[r].outcome = "none" /\ req'[r].refusedBy = {} /\ req'[r].open = {}
      /\ req'[r].checks \in (SUBSET Sorted) \ {{}}
      /\ now' = now /\ store' = store /\ life' = life
  BY ArriveFacts DEF Base, Others, Asked
<1>2. Asked'
  <2>1. "ip" \in req'[r].checks \/ "apiKey" \in req'[r].checks
    <3>1. req'[r].checks \subseteq {"ip", "apiKey"} /\ req'[r].checks # {}
      BY <1>1 DEF Sorted
    <3>2. \E x \in req'[r].checks : x \in {"ip", "apiKey"}
      BY <3>1
    <3> QED
      BY <3>2
  <2>2. /\ req'[r].at # "idle" /\ req'[r].at # "between"
        /\ req'[r].at \in req'[r].checks /\ req'[r].outcome # "in"
    BY <1>1, <2>1
  <2> QED
    BY <1>1, <2>2 DEF Asked, In
<1>3. ASSUME NEW k \in Sorted
      PROVE  (Held(k) /\ Limited(k) /\ Crowded(k))'
  <2>1. ~Made(r, k) /\ ~Made(r, k)'
    BY <1>1 DEF Made, Sorted
  <2>2. \A q \in Request : /\ Made(q, k)' <=> Made(q, k)
                           /\ Passed(q, k)' <=> Passed(q, k)
                           /\ Made(q, k) => q # r /\ req'[q] = req[q]
    BY <1>1, <2>1 DEF Made, Passed
  <2>3. Set(k)' = Set(k) /\ life'[<<k, 0>>] = life[<<k, 0>>] /\ Set(k) \in SUBSET Request
    BY <1>1, WindowTypes DEF Set
  <2>4. Held(k)'
    BY <1>1, <2>2, <2>3 DEF Held, Alive, Passed
  <2>5. LetBy(k)' = LetBy(k)
    BY <1>1, <2>2 DEF LetBy, Alive, Passed
  <2>6. Crowded(k)'
    <3>1. ASSUME NEW q \in Request, k \in req'[q].refusedBy
          PROVE  Made(q, k)' /\ Cardinality(Around(q, k)') >= Maximum[k]
      <4>1. q # r /\ req'[q] = req[q] /\ Made(q, k) /\ Cardinality(Around(q, k)) >= Maximum[k]
        BY <1>1, <3>1 DEF Crowded
      <4>2. Around(q, k) \subseteq Around(q, k)'
        BY <1>1, <4>1 DEF Around
      <4>3. Around(q, k)' \in SUBSET Request
        BY DEF Around
      <4>4. /\ Cardinality(Around(q, k)) <= Cardinality(Around(q, k)')
            /\ Cardinality(Around(q, k)) \in Nat /\ Cardinality(Around(q, k)') \in Nat
            /\ Maximum[k] \in Nat
        BY <4>2, <4>3, SmallerSet, FiniteRequests, WindowTypes
      <4> QED
        BY <2>2, <4>1, <4>4
    <3> QED
      BY <3>1 DEF Crowded
  <2> QED
    BY <2>4, <2>5, <2>6 DEF Limited
<1> QED
  BY <1>2, <1>3

LEMMA WindowTicks ==
  ASSUME Base, WindowInv, Tick
  PROVE  WindowInv'
<1> SUFFICES ASSUME limiter = "window"
             PROVE  (Asked /\ \A k \in Sorted : Held(k) /\ Limited(k) /\ Crowded(k))'
  BY TickFacts DEF WindowInv
<1> USE DEF WindowInv
<1>1. req' = req /\ now' = now + 1
  BY TickFacts
<1>2. Asked'
  BY <1>1 DEF Asked, In
<1>3. ASSUME NEW k \in Sorted
      PROVE  (Held(k) /\ Limited(k) /\ Crowded(k))'
  <2>1. \/ Set(k)' = {} /\ life[<<k, 0>>] <= now'
        \/ Set(k)' = Set(k) /\ life'[<<k, 0>>] = life[<<k, 0>>]
    BY TickFacts, KeyFacts DEF Set
  <2>2. /\ now \in Nat /\ Window \in Nat /\ life[<<k, 0>>] \in Nat /\ Maximum[k] \in Nat
        /\ \A q \in Request : req[q].stamp[k] \in Nat
    BY WindowTypes
  <2>3. \A q \in Request : /\ Made(q, k)' <=> Made(q, k)
                           /\ Passed(q, k)' <=> Passed(q, k)
                           /\ Alive(q, k)' => Alive(q, k) /\ req[q].stamp[k] + Window > now'
    BY <1>1, <2>2 DEF Made, Passed, Alive
  <2>4. Held(k)'
    <3>1. CASE Set(k)' = {} /\ life[<<k, 0>>] <= now'
      <4>1. \A q \in Request : Passed(q, k)' /\ Alive(q, k)' => FALSE
        BY <1>1, <2>2, <2>3, <3>1 DEF Held
      <4> QED
        BY <3>1, <4>1 DEF Held
    <3>2. CASE Set(k)' = Set(k) /\ life'[<<k, 0>>] = life[<<k, 0>>]
      <4>1. Set(k) \in SUBSET Request
        BY WindowTypes
      <4> QED
        BY <1>1, <2>3, <3>2, <4>1 DEF Held
    <3> QED
      BY <2>1, <3>1, <3>2
  <2>5. Limited(k)'
    <3>1. LetBy(k)' \subseteq LetBy(k) /\ LetBy(k) \in SUBSET Request
      BY <2>3 DEF LetBy
    <3>2. /\ Cardinality(LetBy(k)') <= Cardinality(LetBy(k))
          /\ Cardinality(LetBy(k)') \in Nat /\ Cardinality(LetBy(k)) \in Nat
      BY <3>1, SmallerSet, FiniteRequests
    <3>3. Cardinality(LetBy(k)) <= Maximum[k]
      BY DEF Limited
    <3>4. Cardinality(LetBy(k)') <= Maximum[k]
      BY <2>2, <3>2, <3>3
    <3> QED
      BY <3>4 DEF Limited
  <2>6. Crowded(k)'
    BY <1>1 DEF Crowded, Made, Around
  <2> QED
    BY <2>4, <2>5, <2>6
<1> QED
  BY <1>2, <1>3

LEMMA WindowStarts ==
  ASSUME Init
  PROVE  WindowInv
<1>1. \A q \in Request : /\ req[q].at = "idle" /\ req[q].outcome = "none"
                         /\ req[q].checks = {} /\ req[q].refusedBy = {}
  BY DEF Init
<1>2. ASSUME NEW k \in Sorted
      PROVE  Held(k) /\ Limited(k) /\ Crowded(k)
  <2>1. Set(k) = {} /\ LetBy(k) = {} /\ \A q \in Request : ~Made(q, k)
    BY <1>1, KeyFacts DEF Init, Set, LetBy, Passed, Made
  <2>2. Maximum[k] \in Nat
    BY LimitsAssumption DEF LimitsAssumption, Maximum, Sorted
  <2> QED
    BY <1>1, <2>1, <2>2, FS_EmptySet DEF Held, Limited, Crowded, Passed
<1>3. Asked
  BY <1>1 DEF Asked, In, Sorted
<1> QED
  BY <1>2, <1>3 DEF WindowInv

LEMMA WindowIsKept ==
  ASSUME Base, WindowInv, limiter = "window"
  PROVE  WindowKept
<1>1. ASSUME NEW k \in Sorted
      PROVE  Cardinality({r \in Request : /\ In(r) /\ k \in req[r].checks \ req[r].open
                                          /\ req[r].stamp[k] + Window > now}) <= Maximum[k]
  <2> DEFINE S == {r \in Request : /\ In(r) /\ k \in req[r].checks \ req[r].open
                                   /\ req[r].stamp[k] + Window > now}
  <2>1. S \subseteq LetBy(k)
    BY DEF WindowInv, Asked, In, LetBy, Passed, Made, Alive, Sorted
  <2>2. LetBy(k) \in SUBSET Request /\ S \in SUBSET Request
    BY DEF LetBy
  <2>3. /\ Cardinality(S) <= Cardinality(LetBy(k)) /\ Cardinality(S) \in Nat
        /\ Cardinality(LetBy(k)) \in Nat /\ Maximum[k] \in Nat
    BY <2>1, <2>2, SmallerSet, FiniteRequests, WindowTypes
  <2>4. Cardinality(LetBy(k)) <= Maximum[k]
    BY DEF WindowInv, Limited
  <2> QED
    BY <2>3, <2>4
<1> QED
  BY <1>1 DEF WindowKept

LEMMA WindowRefusals ==
  ASSUME Base, WindowInv, limiter = "window", NEW r \in Request
  PROVE  WindowRefusalEarned(r)
<1>1. req[r].refusedBy \subseteq Sorted
  BY DEF Base, TypeOK, RequestState
<1> QED
  BY <1>1 DEF WindowInv, Crowded, Around, WindowRefusalEarned

-----------------------------------------------------------------------------
(* The minute sets: what a request does after it has come. *)

Sum(r) == req[r].seen + UniqueIn(r, Window + 1 - req[r].left)

SameLookup(r) == req'[r].when = req[r].when /\ req'[r].postcode = req[r].postcode
Proceeds(r) ==
  /\ req'[r].outcome = "none" /\ req'[r].open = req[r].open
  /\ req'[r].started = req[r].started

Adding(r) == req[r].at = "sadd" /\ AddTo(Bucket(req[r].when), r)
Renewing(r) == req[r].at = "expireBucket" /\ Expire(Bucket(req[r].when))
Blocking(r) ==
  /\ req[r].at = "setex"
  /\ store' = [store EXCEPT ![Block] = {r}] /\ life' = [life EXCEPT ![Block] = now + Window]

Blocked(r) ==
  /\ req[r].at = "get" /\ store[Block] # {} /\ UNCHANGED <<store, life>>
  /\ req'[r].at = "done" /\ req'[r].outcome = "refused" /\ SameLookup(r)

Starts(r) ==
  /\ req[r].at = "get" /\ UNCHANGED <<store, life>>
  /\ req'[r].at = "sadd" /\ req'[r].when = now /\ req'[r].seen = req[r].seen /\ Proceeds(r)

Tracks(r) ==
  /\ \/ Adding(r) /\ req'[r].at = "expireBucket"
     \/ Renewing(r) /\ req'[r].at = "scard" /\ req'[r].left = Window
  /\ SameLookup(r) /\ req'[r].seen = req[r].seen /\ Proceeds(r)

Sums(r) ==
  /\ req[r].at = "scard" /\ UNCHANGED <<store, life>> /\ SameLookup(r)
  /\ req'[r].open = req[r].open
  /\ \/ /\ req[r].left # 1 /\ req'[r].at = "scard" /\ req'[r].seen = Sum(r)
        /\ req'[r].left = req[r].left - 1
     \/ req[r].left = 1 /\ req'[r].at = "setex" /\ Sum(r) >= Hard
     \/ req[r].left = 1 /\ req'[r].at = "delay" /\ ~(Sum(r) >= Hard)
     \/ req[r].left = 1 /\ req'[r].at = "done" /\ ~(Sum(r) >= Soft)
  /\ req'[r].at # "done" => Proceeds(r)
  /\ req'[r].at = "done" => req'[r].outcome = "in"

Bars(r) ==
  /\ Blocking(r) \/ (req[r].at = "setex" /\ UNCHANGED <<store, life>>)
  /\ req'[r].at = "done" /\ req'[r].outcome = "refused" /\ SameLookup(r)

LetsIn(r) ==
  /\ req[r].at = "delay" /\ UNCHANGED <<store, life>>
  /\ req'[r].at = "done" /\ req'[r].outcome = "in" /\ req'[r].open = req[r].open
  /\ SameLookup(r)

Drops(r) ==
  /\ UNCHANGED <<store, life>> \/ Adding(r) \/ Renewing(r) \/ Blocking(r)
  /\ req'[r].at = "done" /\ SameLookup(r)
  /\ (req'[r].outcome = "in" /\ req'[r].open = {"all"}) \/ req'[r].outcome = "lost"

Codes(S) == {req[q].postcode : q \in S}

LEMMA CodesFinite ==
  ASSUME NEW S \in SUBSET Request
  PROVE  IsFiniteSet(Codes(S)) /\ Cardinality(Codes(S)) \in Nat
         /\ Cardinality(Codes(S)) <= Cardinality(S)
<1> DEFINE f == [q \in S |-> req[q].postcode]
           T == Codes(S)
<1>1. f \in Surjection(S, T)
  BY DEF Codes, Surjection
<1>2. IsFiniteSet(S)
  BY FiniteRequests
<1> HIDE DEF f, T
<1>3. IsFiniteSet(T) /\ Cardinality(T) <= Cardinality(S)
  BY <1>1, <1>2, FS_Surjection
<1>4. Cardinality(T) \in Nat
  BY <1>3, FS_CardinalityType
<1> QED
  BY <1>3, <1>4 DEF T

LEMMA FewerCodes ==
  ASSUME NEW S \in SUBSET Request, NEW T \in SUBSET S
  PROVE  Cardinality(Codes(T)) <= Cardinality(Codes(S))
<1>1. Codes(T) \in SUBSET Codes(S)
  BY DEF Codes
<1> QED
  BY <1>1, CodesFinite, FS_Subset

LEMMA UniqueFacts ==
  ASSUME TypeOK, NEW r \in Request, NEW n \in 1..Window
  PROVE  /\ UniqueIn(r, n) \in Nat
         /\ n <= req[r].when + 1 =>
              /\ req[r].when + 1 - n \in Time
              /\ UniqueIn(r, n) = Cardinality(Codes(store[Bucket(req[r].when + 1 - n)]))
         /\ ~(n <= req[r].when + 1) => UniqueIn(r, n) = 0
<1>1. req[r].when \in Time /\ Window \in Nat /\ MaxTime \in Nat
  BY LimitsAssumption DEF LimitsAssumption, TypeOK, RequestState
<1>2. n \in Nat /\ 1 <= n /\ req[r].when \in Nat /\ req[r].when <= MaxTime
  BY <1>1 DEF Time
<1>3. CASE n <= req[r].when + 1
  <2>1. req[r].when + 1 - n \in Time
    BY <1>1, <1>2, <1>3 DEF Time
  <2>2. store[Bucket(req[r].when + 1 - n)] \in SUBSET Request
    BY <2>1, KeyFacts DEF TypeOK
  <2>3. UniqueIn(r, n) = Cardinality(Codes(store[Bucket(req[r].when + 1 - n)]))
    BY <1>2, <1>3 DEF UniqueIn, Codes
  <2> QED
    BY <1>3, <2>1, <2>2, <2>3, CodesFinite
<1>4. CASE ~(n <= req[r].when + 1)
  BY <1>2, <1>4 DEF UniqueIn
<1> QED
  BY <1>3, <1>4

LEMMA EnumerationStep ==
  ASSUME Base, limiter = "enumeration", NEW r \in Request, Handles(r),
         req[r].at = "scard" => req[r].left # 0
  PROVE  /\ Moves(r)
         /\ \/ Blocked(r) \/ Starts(r) \/ Tracks(r) \/ Sums(r)
            \/ Bars(r) \/ LetsIn(r) \/ Drops(r)
<1>1. req[r].at \in {"get", "sadd", "expireBucket", "scard", "setex", "delay"}
  BY HandlesFacts DEF StagesOf
<1>2. TypeOK /\ req[r] \in RequestState /\ req[r].outcome = "none" /\ Active(r)
      /\ limiter' = limiter /\ now' = now /\ now \in Time
  BY HandlesFacts DEF Base, TypeOK
<1>3. StagesOf[limiter] = {"get", "sadd", "expireBucket", "scard", "setex", "delay"}
  BY DEF StagesOf
<1>4. ~CheckKey(r)
  BY <1>1 DEF CheckKey
<1>5. Execute(r) => \/ req[r].at \in {"get", "scard", "delay"} /\ UNCHANGED <<store, life>>
                    \/ Adding(r) \/ Renewing(r) \/ Blocking(r)
  BY <1>1 DEF Execute, Sorted, Waiting, Adding, Renewing, Blocking
<1>6. ASSUME StartTracking(r), req[r].at = "get", UNCHANGED <<store, life>>
      PROVE  Moves(r) /\ Starts(r)
  <2>1. /\ Others(r)
        /\ req'[r] = [req[r] EXCEPT !.at = "sadd", !.when = now]
        /\ req' = [req EXCEPT ![r] = req'[r]]
    BY <1>2, <1>6 DEF TypeOK, StartTracking, Others
  <2>2. req'[r] \in RequestState
    BY <1>2, <2>1, Stages DEF RequestState
  <2>3. /\ req'[r].at = "sadd" /\ req'[r].when = now /\ req'[r].seen = req[r].seen
        /\ req'[r].stamp = req[r].stamp
        /\ req'[r].outcome = req[r].outcome /\ req'[r].open = req[r].open
        /\ req'[r].started = req[r].started
    BY <1>2, <2>1 DEF RequestState
  <2>4. req' \in [Request -> RequestState]
    BY <1>2, <2>1, <2>2 DEF TypeOK
  <2>5. Moves(r)
    BY <1>2, <1>3, <2>1, <2>3, <2>4 DEF Moves
  <2> QED
    BY <1>2, <1>6, <2>3, <2>5 DEF Starts, Proceeds
<1>7. ASSUME NEW o \in {"in", "refused", "lost"}, Finish(r, o)
      PROVE  /\ Moves(r) /\ SameLookup(r)
             /\ req'[r].at = "done" /\ req'[r].outcome = o /\ req'[r].open = req[r].open
  BY <1>2, <1>7, FinishFacts, FinishMoves DEF SameLookup
<1>8. CASE Command(r) /\ req[r].at = "get"
  <2>1. UNCHANGED <<store, life>>
    BY <1>5, <1>8 DEF Command, Adding, Renewing, Blocking
  <2>2. IF store[Block] # {} THEN Finish(r, "refused") ELSE StartTracking(r)
    BY <1>8 DEF Command, Handle, Sorted
  <2> QED
    BY <1>6, <1>7, <1>8, <2>1, <2>2 DEF Blocked
<1>9. CASE Command(r) /\ req[r].at \in {"sadd", "expireBucket"}
  <2> DEFINE a == IF req[r].at = "sadd" THEN "expireBucket" ELSE "scard"
             l == IF req[r].at = "sadd" THEN req[r].left ELSE Window
  <2>1. a \in Stage /\ l \in 0..Window
    <3>1. Window \in 0..Window /\ req[r].left \in 0..Window
      BY <1>2, LimitsAssumption DEF LimitsAssumption, RequestState
    <3> QED
      BY <3>1, Stages
  <2>2. /\ Others(r)
        /\ req'[r] = [req[r] EXCEPT !.at = a, !.left = l]
        /\ req' = [req EXCEPT ![r] = req'[r]]
    <3>1. CASE req[r].at = "sadd"
      <4>1. req' = [req EXCEPT ![r].at = "expireBucket"]
        BY <1>9, <3>1 DEF Command, Handle, Sorted
      <4>2. [req[r] EXCEPT !.at = "expireBucket"] = [req[r] EXCEPT !.at = "expireBucket", !.left = req[r].left]
        BY <1>2 DEF RequestState
      <4> QED
        BY <1>2, <3>1, <4>1, <4>2 DEF TypeOK, Others
    <3>2. CASE req[r].at = "expireBucket"
      <4>1. req' = [req EXCEPT ![r].at = "scard", ![r].left = Window]
        BY <1>9, <3>2 DEF Command, Handle, Sorted
      <4> QED
        BY <1>2, <3>2, <4>1 DEF TypeOK, Others
    <3> QED
      BY <1>9, <3>1, <3>2
  <2>3. /\ req[r].at = "sadd" => a = "expireBucket"
        /\ req[r].at = "expireBucket" => a = "scard" /\ l = Window
        /\ a \in StagesOf[limiter]
    BY <1>3, <1>9
  <2>4. Adding(r) \/ Renewing(r)
    BY <1>5, <1>9 DEF Command, Blocking
  <2> HIDE DEF a, l
  <2>5. req'[r] \in RequestState
    BY <1>2, <2>1, <2>2 DEF RequestState
  <2>6. /\ req'[r].at = a /\ req'[r].left = l /\ SameLookup(r)
        /\ req'[r].seen = req[r].seen /\ req'[r].stamp = req[r].stamp
        /\ req'[r].outcome = req[r].outcome /\ req'[r].open = req[r].open
        /\ req'[r].started = req[r].started
    BY <1>2, <2>2 DEF RequestState, SameLookup
  <2>7. req' \in [Request -> RequestState]
    BY <1>2, <2>2, <2>5 DEF TypeOK
  <2>8. Moves(r)
    BY <1>2, <2>2, <2>3, <2>6, <2>7 DEF Moves, SameLookup
  <2>9. Tracks(r)
    BY <1>2, <1>9, <2>3, <2>4, <2>6 DEF Tracks, Proceeds, Adding, Renewing
  <2> QED
    BY <2>8, <2>9
<1>10. CASE Command(r) /\ req[r].at = "scard"
  <2> DEFINE n == Sum(r)
             last == req[r].left = 1
             a == IF ~last THEN "scard" ELSE IF n >= Hard THEN "setex"
                  ELSE IF n >= Soft THEN "delay" ELSE "done"
             o == IF last /\ n < Soft THEN "in" ELSE "none"
             c == IF last THEN 0 ELSE n
             b == IF last /\ n < Soft THEN 0 ELSE req[r].started
             l == req[r].left - 1
  <2>1. req[r].left \in 1..Window /\ req[r].seen \in Nat /\ req[r].started \in Time
        /\ Window \in Nat /\ 0 \in Time /\ Soft \in Nat /\ Hard \in Nat /\ Soft <= Hard
    BY <1>2, <1>10, LimitsAssumption DEF LimitsAssumption, RequestState, Time
  <2>2. n \in Nat
    <3>1. Window + 1 - req[r].left \in 1..Window
      BY <2>1
    <3> QED
      BY <1>2, <2>1, <3>1, UniqueFacts DEF Sum
  <2>3. /\ Others(r)
        /\ req'[r] = [req[r] EXCEPT !.seen = c, !.left = l, !.at = a, !.outcome = o, !.started = b]
        /\ req' = [req EXCEPT ![r] = req'[r]]
    <3>1. CountBucket(r)
      BY <1>10 DEF Command, Handle, Sorted
    <3> QED
      BY <1>2, <3>1 DEF TypeOK, CountBucket, Sum, Others
  <2>4. a \in Stage /\ o \in {"none", "in", "refused", "lost"} /\ c \in Nat /\ b \in Time
        /\ l \in 0..Window
    BY <2>1, <2>2, Stages
  <2>5. /\ ~last => a = "scard" /\ o = "none" /\ c = n /\ b = req[r].started
        /\ last /\ n >= Hard => a = "setex" /\ o = "none" /\ b = req[r].started
        /\ last /\ n >= Soft /\ ~(n >= Hard) => a = "delay" /\ o = "none" /\ b = req[r].started
        /\ last /\ ~(n >= Soft) => a = "done" /\ o = "in"
    BY <2>1, <2>2
  <2> HIDE DEF n, last, a, o, c, b, l
  <2>6. req'[r] \in RequestState
    BY <1>2, <2>3, <2>4 DEF RequestState
  <2>7. /\ req'[r].at = a /\ req'[r].left = l /\ req'[r].seen = c /\ SameLookup(r)
        /\ req'[r].outcome = o /\ req'[r].started = b
        /\ req'[r].stamp = req[r].stamp /\ req'[r].open = req[r].open
    BY <1>2, <2>3 DEF RequestState, SameLookup
  <2>8. req' \in [Request -> RequestState]
    BY <1>2, <2>3, <2>6 DEF TypeOK
  <2>9. a = "done" \/ (a \in StagesOf[limiter] /\ o = "none" /\ b = req[r].started)
    BY <1>3, <2>5
  <2>10. Moves(r)
    BY <1>2, <2>3, <2>7, <2>8, <2>9 DEF Moves, SameLookup
  <2>11. UNCHANGED <<store, life>>
    BY <1>5, <1>10 DEF Command, Adding, Renewing, Blocking
  <2>12. Sums(r)
    BY <1>2, <1>10, <2>5, <2>7, <2>11 DEF Sums, Proceeds, n, last, l
  <2> QED
    BY <2>10, <2>12
<1>11. CASE (Command(r) \/ CommandFails(r)) /\ req[r].at = "setex"
  <2>1. Finish(r, "refused") /\ (Execute(r) \/ UNCHANGED <<store, life>>)
    BY <1>11 DEF Command, CommandFails, Handle, HandleError, Sorted
  <2>2. Blocking(r) \/ UNCHANGED <<store, life>>
    BY <1>5, <1>11, <2>1 DEF Adding, Renewing
  <2> QED
    BY <1>7, <1>11, <2>1, <2>2 DEF Bars
<1>12. CASE CommandFails(r) /\ req[r].at = "get"
  <2>1. StartTracking(r)
    BY <1>12 DEF CommandFails, HandleError, Sorted
  <2>2. UNCHANGED <<store, life>>
    BY <1>5, <1>12 DEF CommandFails, Adding, Renewing, Blocking
  <2> QED
    BY <1>6, <1>12, <2>1, <2>2
<1>13. CASE CommandFails(r) /\ req[r].at \in {"sadd", "expireBucket", "scard"}
  <2>1. HandleError(r) /\ (Execute(r) \/ UNCHANGED <<store, life>>)
    BY <1>13 DEF CommandFails
  <2>2. /\ req' \in [Request -> RequestState] /\ Others(r)
        /\ req'[r].at = "done" /\ req'[r].outcome = "in" /\ req'[r].open = {"all"}
        /\ req'[r].stamp = req[r].stamp /\ SameLookup(r)
    BY <1>2, <1>13, <2>1, ErrorFacts DEF SameLookup
  <2>3. Moves(r)
    BY <1>2, <2>2 DEF Moves, SameLookup
  <2> QED
    BY <1>5, <2>1, <2>2, <2>3 DEF Drops
<1>14. CASE Stop(r)
  <2>1. Finish(r, "lost") /\ (Execute(r) \/ UNCHANGED <<store, life>>)
    BY <1>14 DEF Stop
  <2> QED
    BY <1>5, <1>7, <2>1 DEF Drops
<1>15. CASE Delayed(r)
  BY <1>7, <1>15 DEF Delayed, LetsIn
<1>16. (Command(r) \/ CommandFails(r)) => req[r].at # "delay"
  BY DEF Command, CommandFails, Waiting
<1> QED
  BY <1>1, <1>4, <1>8, <1>9, <1>10, <1>11, <1>12, <1>13, <1>14, <1>15, <1>16 DEF Handles

(* The invariant of the minute sets. *)
Looked ==
  \A q \in Request :
    /\ req[q].at \in {"get", "sadd", "expireBucket"} => req[q].seen = 0
    /\ req[q].at = "scard" => req[q].left # 0 /\ (req[q].left = Window => req[q].seen = 0)
    /\ Active(q) => req[q].open = {}
    /\ req[q].at \in {"sadd", "expireBucket", "scard", "setex", "delay"} =>
         req[q].started <= req[q].when

(* Whoever may still count is in its set for as long as it may. *)
Tracked(q) ==
  \/ req[q].at \in {"expireBucket", "scard", "setex", "delay"}
  \/ In(q) /\ req[q].open = {}
Present(b) ==
  /\ life[Bucket(b)] >= b + Window
  /\ \A q \in store[Bucket(b)] : req[q].when = b /\ req[q].at \notin {"idle", "get", "sadd"}
  /\ \A q \in Request :
       Tracked(q) /\ req[q].when = b /\ now < b + Window => q \in store[Bucket(b)]

(* Those of a minute that are let in, or may be. *)
Pending(b) ==
  {q \in Request : /\ req[q].when = b /\ req[q].open = {}
                   /\ \/ req[q].at = "scard" /\ req[q].left # Window /\ req[q].seen < Hard
                      \/ req[q].at = "delay"
                      \/ In(q)}
Few(b) == Cardinality(Codes(Pending(b))) < Hard

(* What was counted was there: the lookups of the last n minutes. *)
Recorded(q) == req[q].at \notin {"idle", "get"}
Near(q, n) ==
  {x \in Request : Recorded(x) /\ req[x].when <= req[q].when /\ req[x].when + n > req[q].when}
SummedAt(q) ==
  /\ req[q].at = "scard" => req[q].seen <= Cardinality(Near(q, Window - req[q].left))
  /\ req[q].at = "setex" => Cardinality(Near(q, Window)) >= Hard
Summed == \A q \in Request : SummedAt(q)
Swept == \E q \in Request : Recorded(q) /\ Cardinality(Near(q, Window)) >= Hard
Barred == store[Block] # {} \/ (\E q \in Request : req[q].outcome = "refused") => Swept

EnumerationInv ==
  limiter = "enumeration" =>
    Looked /\ (\A b \in Time : Present(b) /\ Few(b)) /\ Summed /\ Barred

LEMMA LookupTypes ==
  ASSUME Base
  PROVE  /\ now \in Nat /\ Window \in Nat \ {0} /\ Latency \in Nat /\ Latency < Window
         /\ Hard \in Nat \ {0} /\ Soft \in Nat /\ Soft <= Hard
         /\ \A b \in Time : /\ b \in Nat /\ Bucket(b) \in Key
                            /\ store[Bucket(b)] \in SUBSET Request /\ life[Bucket(b)] \in Nat
         /\ \A q \in Request : /\ req[q].when \in Time /\ req[q].when \in Nat /\ req[q].when <= now
                               /\ req[q].started \in Nat /\ req[q].seen \in Nat
                               /\ req[q].left \in 0..Window
<1>1. \A q \in Request : req[q] \in RequestState /\ req[q].when <= now
  BY DEF Base, TypeOK, Shape
<1>2. \A q \in Request : req[q].when \in Time /\ req[q].started \in Time /\ req[q].seen \in Nat
                         /\ req[q].left \in 0..Window
  BY <1>1 DEF RequestState
<1>3. \A q \in Request : req[q].when \in Nat /\ req[q].started \in Nat
  BY <1>2, TimeFacts
<1>4. \A b \in Time : /\ b \in Nat /\ Bucket(b) \in Key
                      /\ store[Bucket(b)] \in SUBSET Request /\ life[Bucket(b)] \in 0..Never
  BY KeyFacts, TimeFacts DEF Base, TypeOK
<1>5. \A b \in Time : life[Bucket(b)] \in Nat
  BY <1>4, TimeFacts
<1>6. Hard \in Nat \ {0} /\ Soft \in Nat /\ Soft <= Hard
  BY LimitsAssumption DEF LimitsAssumption
<1>7. now \in Nat /\ Window \in Nat \ {0} /\ Latency \in Nat /\ Latency < Window
  BY TimeFacts DEF Base, TypeOK
<1> QED
  BY <1>1, <1>2, <1>3, <1>4, <1>5, <1>6, <1>7

LEMMA LookupEffect ==
  ASSUME Base, NEW r \in Request,
         UNCHANGED <<store, life>> \/ Adding(r) \/ Renewing(r) \/ Blocking(r)
  PROVE  /\ \A b \in Time :
              /\ \/ store'[Bucket(b)] = store[Bucket(b)]
                 \/ /\ Adding(r) /\ b = req[r].when
                    /\ store'[Bucket(b)] = store[Bucket(b)] \cup {r}
              /\ Adding(r) /\ b = req[r].when => r \in store'[Bucket(b)]
              /\ \/ life'[Bucket(b)] = life[Bucket(b)]
                 \/ b = req[r].when /\ life'[Bucket(b)] = now + Window
         /\ Blocking(r) \/ store'[Block] = store[Block]
<1> DEFINE w == req[r].when
<1>1. /\ store \in [Key -> SUBSET Request] /\ life \in [Key -> 0..Never] /\ w \in Time
      /\ Block \in Key
  BY LookupTypes, KeyFacts DEF Base, TypeOK
<1>2. \A b \in Time : Bucket(b) \in Key /\ Bucket(b) # Block /\ (Bucket(b) = Bucket(w) => b = w)
  BY <1>1, KeyFacts
<1> HIDE DEF w
<1>3. CASE UNCHANGED <<store, life>> /\ ~Adding(r)
  BY <1>3
<1>4. CASE Adding(r)
  <2>1. store' = [store EXCEPT ![Bucket(w)] = @ \cup {r}] /\ life' = life
    BY <1>4 DEF Adding, AddTo, w
  <2>2. \A b \in Time : \/ store'[Bucket(b)] = store[Bucket(b)]
                        \/ b = w /\ store'[Bucket(b)] = store[Bucket(b)] \cup {r}
    BY <1>1, <1>2, <2>1
  <2>3. r \in store'[Bucket(w)] /\ store'[Block] = store[Block]
    BY <1>1, <1>2, <2>1
  <2> QED
    BY <1>4, <2>1, <2>2, <2>3 DEF w
<1>5. CASE Renewing(r)
  <2>1. /\ life' = [life EXCEPT ![Bucket(w)] = IF store[Bucket(w)] = {} THEN @ ELSE now + Window]
        /\ store' = store /\ ~Adding(r)
    BY <1>5 DEF Renewing, Expire, Adding, w
  <2>2. \A b \in Time : \/ life'[Bucket(b)] = life[Bucket(b)]
                        \/ b = w /\ life'[Bucket(b)] = now + Window
    BY <1>1, <1>2, <2>1
  <2> QED
    BY <2>1, <2>2 DEF w
<1>6. CASE Blocking(r)
  <2>1. /\ store' = [store EXCEPT ![Block] = {r}] /\ life' = [life EXCEPT ![Block] = now + Window]
        /\ ~Adding(r)
    BY <1>6 DEF Blocking, Adding
  <2>2. \A b \in Time : store'[Bucket(b)] = store[Bucket(b)] /\ life'[Bucket(b)] = life[Bucket(b)]
    BY <1>1, <1>2, <2>1
  <2> QED
    BY <1>6, <2>1, <2>2
<1> QED
  BY <1>3, <1>4, <1>5, <1>6

LEMMA LookupSteps ==
  ASSUME Base, limiter = "enumeration", Looked, NEW r \in Request, Handles(r)
  PROVE  /\ now' = now /\ \A q \in Request : q # r => req'[q] = req[q]
         /\ req[r].open = {} /\ req[r].outcome = "none" /\ req[r].at \notin {"idle", "done"}
         /\ now <= req[r].started + Latency
         /\ req'[r].at \notin {"idle", "get"}
         /\ UNCHANGED <<store, life>> \/ Adding(r) \/ Renewing(r) \/ Blocking(r)
         /\ req[r].at # "get" => SameLookup(r)
         /\ Tracked(r)' => Tracked(r) \/ Adding(r)
         /\ Adding(r) => req'[r].at # "sadd"
         /\ \/ Blocked(r) \/ Starts(r) \/ Tracks(r) \/ Sums(r)
            \/ Bars(r) \/ LetsIn(r) \/ Drops(r)
<1>1. /\ Moves(r)
      /\ Blocked(r) \/ Starts(r) \/ Tracks(r) \/ Sums(r) \/ Bars(r) \/ LetsIn(r) \/ Drops(r)
  BY EnumerationStep DEF Looked
<1>2. now' = now /\ \A q \in Request : q # r => req'[q] = req[q]
  BY <1>1 DEF Moves, Others
<1>3. /\ req[r].open = {} /\ req[r].outcome = "none" /\ req[r].at \notin {"idle", "done"}
      /\ now <= req[r].started + Latency
  BY HandlesFacts DEF Looked, Active, Base, Shape
<1>4. req'[r].at \notin {"idle", "get"}
  BY <1>1 DEF Blocked, Starts, Tracks, Sums, Bars, LetsIn, Drops
<1>5. UNCHANGED <<store, life>> \/ Adding(r) \/ Renewing(r) \/ Blocking(r)
  BY <1>1 DEF Blocked, Starts, Tracks, Sums, Bars, LetsIn, Drops
<1>6. req[r].at # "get" => SameLookup(r)
  BY <1>1 DEF Blocked, Starts, Tracks, Sums, Bars, LetsIn, Drops
<1>7. Tracked(r)' => Tracked(r) \/ Adding(r)
  BY <1>1 DEF Tracked, In, Blocked, Starts, Tracks, Sums, Bars, LetsIn, Drops, Renewing, Proceeds
<1>8. Adding(r) => req'[r].at # "sadd"
  BY <1>1 DEF Blocked, Starts, Tracks, Sums, Bars, LetsIn, Drops, Adding
<1> QED
  BY <1>1, <1>2, <1>3, <1>4, <1>5, <1>6, <1>7, <1>8

LEMMA LookedKept ==
  ASSUME Base, limiter = "enumeration", Looked, NEW r \in Request, Handles(r)
  PROVE  Looked'
<1>1. /\ now' = now /\ \A q \in Request : q # r => req'[q] = req[q]
      /\ req[r].open = {} /\ req[r].at \notin {"idle", "done"}
      /\ req'[r].at \notin {"idle", "get"}
      /\ Blocked(r) \/ Starts(r) \/ Tracks(r) \/ Sums(r) \/ Bars(r) \/ LetsIn(r) \/ Drops(r)
  BY LookupSteps
<1>2. /\ req[r].left \in 0..Window /\ Window \in Nat \ {0} /\ req[r].started <= now
  BY LookupTypes, HandlesFacts DEF Base, Shape
<1>3. CASE req'[r].at = "done"
  BY <1>1, <1>3 DEF Looked, Active
<1>4. CASE Starts(r)
  BY <1>1, <1>2, <1>4 DEF Looked, Active, Starts, Proceeds
<1>5. CASE Tracks(r)
  BY <1>1, <1>2, <1>5 DEF Looked, Active, Tracks, Proceeds, SameLookup, Adding, Renewing
<1>6. CASE Sums(r) /\ req'[r].at # "done"
  <2>1. Proceeds(r) /\ SameLookup(r) /\ req[r].at = "scard" /\ req[r].left # 0
    BY <1>6 DEF Sums, Looked
  <2>2. /\ req'[r].at \in {"scard", "setex", "delay"}
        /\ req'[r].at = "scard" => req'[r].left = req[r].left - 1 /\ req[r].left # 1
    BY <1>6 DEF Sums
  <2>3. req'[r].at = "scard" => req'[r].left # 0 /\ req'[r].left # Window
    BY <1>2, <2>1, <2>2
  <2> QED
    BY <1>1, <2>1, <2>2, <2>3 DEF Looked, Active, Proceeds, SameLookup
<1> QED
  BY <1>1, <1>3, <1>4, <1>5, <1>6 DEF Blocked, Bars, LetsIn, Drops

LEMMA PresentKept ==
  ASSUME Base, limiter = "enumeration", Looked, NEW r \in Request, Handles(r),
         NEW b \in Time, Present(b)
  PROVE  Present(b)'
<1>1. /\ now' = now /\ \A q \in Request : q # r => req'[q] = req[q]
      /\ req'[r].at \notin {"idle", "get"} /\ req[r].at \notin {"idle", "done"}
      /\ UNCHANGED <<store, life>> \/ Adding(r) \/ Renewing(r) \/ Blocking(r)
      /\ req[r].at # "get" => SameLookup(r)
      /\ Tracked(r)' => Tracked(r) \/ Adding(r)
      /\ Adding(r) => req'[r].at # "sadd"
  BY LookupSteps
<1>2. /\ \/ store'[Bucket(b)] = store[Bucket(b)]
         \/ Adding(r) /\ b = req[r].when /\ store'[Bucket(b)] = store[Bucket(b)] \cup {r}
      /\ Adding(r) /\ b = req[r].when => r \in store'[Bucket(b)]
      /\ life'[Bucket(b)] = life[Bucket(b)] \/ (b = req[r].when /\ life'[Bucket(b)] = now + Window)
  BY <1>1, LookupEffect
<1>3. /\ now \in Nat /\ Window \in Nat /\ b \in Nat /\ req[r].when <= now /\ req[r].when \in Nat
      /\ store[Bucket(b)] \in SUBSET Request
  BY LookupTypes
<1>4. life'[Bucket(b)] >= b + Window
  BY <1>2, <1>3 DEF Present
<1>5. ASSUME NEW q \in store'[Bucket(b)]
      PROVE  req'[q].when = b /\ req'[q].at \notin {"idle", "get", "sadd"}
  <2>1. CASE q \in store[Bucket(b)] /\ q # r
    BY <1>1, <1>3, <2>1 DEF Present
  <2>2. CASE q = r /\ r \in store[Bucket(b)]
    <3>1. req[r].when = b /\ req[r].at \notin {"idle", "get", "sadd"}
      BY <2>2 DEF Present
    <3>2. req'[r].at # "sadd"
      BY <3>1, LookupSteps DEF Blocked, Starts, Tracks, Sums, Bars, LetsIn, Drops
    <3> QED
      BY <1>1, <2>2, <3>1, <3>2 DEF SameLookup
  <2>3. CASE q \notin store[Bucket(b)]
    <3>1. q = r /\ Adding(r) /\ b = req[r].when
      BY <1>2, <1>5, <2>3
    <3> QED
      BY <1>1, <3>1 DEF Adding, SameLookup
  <2> QED
    BY <2>1, <2>2, <2>3
<1>6. ASSUME NEW q \in Request, Tracked(q)', req'[q].when = b, now < b + Window
      PROVE  q \in store'[Bucket(b)]
  <2>1. CASE q # r
    <3>1. Tracked(q) /\ req[q].when = b
      BY <1>1, <1>6, <2>1 DEF Tracked, In
    <3> QED
      BY <1>2, <1>6, <3>1 DEF Present
  <2>2. CASE q = r
    <3>1. CASE Tracked(r)
      <4>1. req[r].at # "get"
        BY <3>1, LookupSteps DEF Tracked, In
      <4> QED
        BY <1>1, <1>2, <1>6, <2>2, <3>1, <4>1 DEF Present, SameLookup
    <3>2. CASE Adding(r)
      BY <1>1, <1>2, <1>6, <2>2, <3>2 DEF Adding, SameLookup
    <3> QED
      BY <1>1, <1>6, <2>2, <3>1, <3>2
  <2> QED
    BY <2>1, <2>2
<1> QED
  BY <1>1, <1>4, <1>5, <1>6 DEF Present

LEMMA FewKept ==
  ASSUME Base, limiter = "enumeration", Looked, NEW r \in Request, Handles(r),
         NEW b \in Time, Present(b), Few(b)
  PROVE  Few(b)'
<1>1. /\ now' = now /\ \A q \in Request : q # r => req'[q] = req[q]
      /\ req[r].open = {} /\ req[r].outcome = "none" /\ now <= req[r].started + Latency
      /\ req[r].at # "get" => SameLookup(r)
      /\ Blocked(r) \/ Starts(r) \/ Tracks(r) \/ Sums(r) \/ Bars(r) \/ LetsIn(r) \/ Drops(r)
  BY LookupSteps
<1>2. /\ Hard \in Nat \ {0} /\ Soft \in Nat /\ Soft <= Hard /\ Window \in Nat \ {0}
      /\ Latency \in Nat /\ Latency < Window /\ now \in Nat /\ b \in Nat
      /\ req[r].seen \in Nat /\ req[r].left \in 0..Window /\ req[r].started \in Nat
      /\ req[r].when \in Nat
  BY LookupTypes
<1>3. req[r].at = "scard" => /\ req[r].left \in 1..Window /\ Sum(r) \in Nat
                             /\ Sum(r) >= req[r].seen
  <2>1. req[r].at = "scard" => req[r].left \in 1..Window
    BY <1>2 DEF Looked
  <2>2. req[r].at = "scard" => Window + 1 - req[r].left \in 1..Window
    BY <1>2, <2>1
  <2>3. req[r].at = "scard" => UniqueIn(r, Window + 1 - req[r].left) \in Nat
    BY <2>2, UniqueFacts DEF Base
  <2> QED
    BY <1>2, <2>1, <2>3 DEF Sum
<1>4. r \in Pending(b)' => req'[r].when = b
  BY DEF Pending
<1>5. r \in Pending(b)' =>
        SameLookup(r) /\ (r \in Pending(b) \/ (Sums(r) /\ req[r].left = Window /\ Sum(r) < Hard))
  <2>1. ASSUME r \in Pending(b)'
        PROVE  Sums(r) \/ LetsIn(r)
    BY <1>1, <2>1 DEF Pending, In, Blocked, Starts, Tracks, Proceeds, Bars, Drops
  <2>2. CASE r \in Pending(b)' /\ LetsIn(r)
    BY <1>1, <2>2 DEF LetsIn, Pending, SameLookup
  <2>3. CASE r \in Pending(b)' /\ Sums(r)
    <3>1. Sum(r) < Hard /\ req[r].at = "scard" /\ SameLookup(r)
      BY <1>2, <1>3, <2>3 DEF Sums, Pending, In, Proceeds
    <3>2. req[r].seen < Hard
      BY <1>2, <1>3, <3>1
    <3> QED
      BY <1>1, <1>4, <2>3, <3>1, <3>2 DEF Pending, SameLookup
  <2> QED
    BY <2>1, <2>2, <2>3
<1> DEFINE P == Pending(b)'
<1>6. P \in SUBSET Request
  BY DEF Pending
<1>7. \A q \in P : req'[q].postcode = req[q].postcode
  BY <1>1, <1>5, <1>6 DEF SameLookup
<1>8. Codes(Pending(b))' = Codes(P)
  <2>1. Codes(Pending(b))' = {req'[q].postcode : q \in P}
    BY DEF Codes
  <2> HIDE DEF P
  <2> QED
    BY <1>7, <2>1 DEF Codes
<1>9. \A q \in P : q # r => q \in Pending(b)
  BY <1>1 DEF Pending, In
<1>10. CASE r \notin P \/ r \in Pending(b)
  <2>1. P \in SUBSET Pending(b) /\ Pending(b) \in SUBSET Request
    BY <1>9, <1>10 DEF Pending
  <2> HIDE DEF P
  <2>2. /\ Cardinality(Codes(P)) <= Cardinality(Codes(Pending(b)))
        /\ Cardinality(Codes(P)) \in Nat /\ Cardinality(Codes(Pending(b))) \in Nat
    BY <1>6, <2>1, FewerCodes, CodesFinite
  <2>3. Cardinality(Codes(P)) < Hard
    BY <1>2, <2>2 DEF Few
  <2> QED
    BY <1>8, <2>3 DEF Few
<1>11. CASE r \in P /\ r \notin Pending(b)
  <2>1. Sums(r) /\ req[r].left = Window /\ Sum(r) < Hard /\ req[r].at = "scard" /\ req[r].when = b
    BY <1>4, <1>5, <1>11 DEF Sums, SameLookup
  <2>2. now < b + Window
    <3>1. req[r].started <= req[r].when
      BY <2>1 DEF Looked
    <3> QED
      BY <1>1, <1>2, <2>1, <3>1
  <2>3. \A q \in P : q \in store[Bucket(b)]
    <3>1. \A q \in Pending(b) : q \in Request /\ Tracked(q) /\ req[q].when = b
      BY DEF Pending, Tracked
    <3>2. Tracked(r)
      BY <2>1 DEF Tracked
    <3> QED
      BY <1>9, <2>1, <2>2, <3>1, <3>2 DEF Present
  <2>4. Sum(r) = Cardinality(Codes(store[Bucket(b)]))
    <3>1. req[r].seen = 0
      BY <2>1 DEF Looked
    <3>2. Window + 1 - req[r].left = 1 /\ 1 \in 1..Window /\ 1 <= req[r].when + 1
          /\ req[r].when + 1 - 1 = b
      BY <1>2, <2>1
    <3>3. UniqueIn(r, 1) = Cardinality(Codes(store[Bucket(req[r].when + 1 - 1)])) /\ UniqueIn(r, 1) \in Nat
      BY <3>2, UniqueFacts DEF Base
    <3> QED
      BY <3>1, <3>2, <3>3 DEF Sum
  <2>5. store[Bucket(b)] \in SUBSET Request /\ P \in SUBSET store[Bucket(b)]
    BY <2>3, LookupTypes
  <2> HIDE DEF P
  <2>6. /\ Cardinality(Codes(P)) <= Cardinality(Codes(store[Bucket(b)]))
        /\ Cardinality(Codes(P)) \in Nat /\ Cardinality(Codes(store[Bucket(b)])) \in Nat
    BY <1>6, <2>5, FewerCodes, CodesFinite
  <2>7. Cardinality(Codes(P)) < Hard
    BY <1>2, <2>1, <2>4, <2>6
  <2> QED
    BY <1>8, <2>7 DEF Few
<1> QED
  BY <1>10, <1>11

LEMMA NearIsFinite ==
  ASSUME NEW q \in Request, NEW n \in Nat
  PROVE  Near(q, n) \in SUBSET Request /\ Cardinality(Near(q, n)) \in Nat
BY FiniteRequests DEF Near

LEMMA NearGrows ==
  ASSUME Base, limiter = "enumeration", Looked, NEW r \in Request, Handles(r),
         NEW q \in Request, Recorded(q), NEW n \in Nat
  PROVE  Recorded(q)' /\ Cardinality(Near(q, n)) <= Cardinality(Near(q, n)')
<1>1. \A x \in Request : Recorded(x) => Recorded(x)' /\ req'[x].when = req[x].when
  BY LookupSteps DEF Recorded, SameLookup
<1>2. Near(q, n) \subseteq Near(q, n)'
  BY <1>1 DEF Near
<1>3. Near(q, n)' \in SUBSET Request
  BY DEF Near
<1> QED
  BY <1>1, <1>2, <1>3, SmallerSet

(* The sum never counts a lookup twice in one minute. *)
LEMMA SumBound ==
  ASSUME Base, Looked, Summed, \A b \in Time : Present(b), NEW r \in Request,
         req[r].at = "scard"
  PROVE  Sum(r) \in Nat /\ Sum(r) <= Cardinality(Near(r, Window + 1 - req[r].left))
<1> DEFINE n == Window - req[r].left
           u == UniqueIn(r, n + 1)
<1>1. /\ n \in Nat /\ n + 1 \in 1..Window /\ Window + 1 - req[r].left = n + 1
      /\ req[r].seen \in Nat /\ req[r].when \in Nat
  <2>1. req[r].left \in 0..Window /\ req[r].left # 0 /\ Window \in Nat \ {0}
    BY LookupTypes DEF Looked
  <2> QED
    BY <2>1, LookupTypes
<1>2. Sum(r) = req[r].seen + u
  BY <1>1 DEF Sum
<1>3. /\ u \in Nat
      /\ n + 1 <= req[r].when + 1 =>
           /\ req[r].when + 1 - (n + 1) \in Time
           /\ u = Cardinality(Codes(store[Bucket(req[r].when + 1 - (n + 1))]))
      /\ ~(n + 1 <= req[r].when + 1) => u = 0
  BY <1>1, UniqueFacts DEF Base
<1>4. req[r].seen <= Cardinality(Near(r, n))
  BY DEF Summed, SummedAt
<1> HIDE DEF n, u
<1>5. /\ Near(r, n) \in SUBSET Request /\ Cardinality(Near(r, n)) \in Nat
      /\ Near(r, n + 1) \in SUBSET Request /\ Cardinality(Near(r, n + 1)) \in Nat
  BY <1>1, NearIsFinite
<1>6. \A q \in Request : req[q].when \in Nat
  BY LookupTypes
<1>7. Near(r, n) \subseteq Near(r, n + 1)
  BY <1>1, <1>6 DEF Near
<1>8. CASE ~(n + 1 <= req[r].when + 1)
  <2>1. Cardinality(Near(r, n)) <= Cardinality(Near(r, n + 1))
    BY <1>5, <1>7, SmallerSet
  <2> QED
    BY <1>1, <1>2, <1>3, <1>4, <1>5, <1>8, <2>1
<1>9. CASE n + 1 <= req[r].when + 1
  <2> DEFINE b == req[r].when + 1 - (n + 1)
             S == store[Bucket(b)]
  <2>1. b \in Time /\ b = req[r].when - n /\ u = Cardinality(Codes(S)) /\ S \in SUBSET Request
    BY <1>1, <1>3, <1>9, LookupTypes
  <2>2. \A q \in S : req[q].when = b /\ req[q].at \notin {"idle", "get", "sadd"}
    BY <2>1 DEF Present
  <2> HIDE DEF b, S
  <2>3. u <= Cardinality(S) /\ Cardinality(S) \in Nat
    BY <2>1, CodesFinite, FiniteRequests
  <2>4. Near(r, n) \cap S = {}
    BY <1>1, <2>1, <2>2 DEF Near
  <2>5. Near(r, n) \cup S \in SUBSET Near(r, n + 1)
    BY <1>1, <1>7, <2>1, <2>2 DEF Near, Recorded
  <2>6. Cardinality(Near(r, n) \cup S) = Cardinality(Near(r, n)) + Cardinality(S)
    BY <1>5, <2>1, <2>4, UnionBound
  <2>7. Cardinality(Near(r, n) \cup S) <= Cardinality(Near(r, n + 1))
    BY <1>5, <2>5, SmallerSet
  <2> QED
    BY <1>1, <1>2, <1>3, <1>4, <1>5, <2>3, <2>6, <2>7
<1> QED
  BY <1>8, <1>9

LEMMA SummedKept ==
  ASSUME Base, limiter = "enumeration", Looked, Summed, \A b \in Time : Present(b),
         NEW r \in Request, Handles(r)
  PROVE  Summed'
<1>1. /\ \A q \in Request : q # r => req'[q] = req[q]
      /\ Blocked(r) \/ Starts(r) \/ Tracks(r) \/ Sums(r) \/ Bars(r) \/ LetsIn(r) \/ Drops(r)
  BY LookupSteps
<1>2. /\ Window \in Nat \ {0} /\ Hard \in Nat
      /\ \A q \in Request : req[q].left \in 0..Window /\ req[q].seen \in Nat
  BY LookupTypes
<1>3. ASSUME NEW q \in Request, q # r
      PROVE  SummedAt(q)'
  <2>1. req'[q] = req[q]
    BY <1>1, <1>3
  <2>2. PICK n \in Nat : n = Window - req[q].left
    BY <1>2
  <2>3. CASE req[q].at = "scard"
    <3>1. Recorded(q) /\ req[q].seen <= Cardinality(Near(q, n))
      BY <2>2, <2>3 DEF Recorded, Summed, SummedAt
    <3>2. Cardinality(Near(q, n)) <= Cardinality(Near(q, n)')
      BY <2>2, <3>1, NearGrows
    <3>3. Cardinality(Near(q, n)) \in Nat /\ Cardinality(Near(q, n)') \in Nat
      BY FiniteRequests DEF Near
    <3>4. req[q].seen <= Cardinality(Near(q, n)')
      BY <1>2, <3>1, <3>2, <3>3
    <3> QED
      BY <2>1, <2>2, <2>3, <3>4 DEF SummedAt
  <2>4. CASE req[q].at = "setex"
    <3>1. Recorded(q) /\ Cardinality(Near(q, Window)) >= Hard
      BY <2>4 DEF Recorded, Summed, SummedAt
    <3>2. Cardinality(Near(q, Window)) <= Cardinality(Near(q, Window)')
      BY <1>2, <3>1, NearGrows
    <3>3. Cardinality(Near(q, Window)) \in Nat /\ Cardinality(Near(q, Window)') \in Nat
      BY FiniteRequests DEF Near
    <3> QED
      BY <1>2, <2>1, <2>4, <3>1, <3>2, <3>3 DEF SummedAt
  <2> QED
    BY <2>1, <2>3, <2>4 DEF SummedAt
<1>4. CASE req'[r].at = "scard" \/ req'[r].at = "setex"
  <2>1. CASE Tracks(r)
    <3>1. req'[r].at = "scard" /\ req'[r].left = Window /\ req'[r].seen = 0
      BY <1>4, <2>1 DEF Tracks, Looked, Renewing
    <3>2. Window - Window = 0 /\ Cardinality(Near(r, 0)') \in Nat
      BY <1>2, FiniteRequests DEF Near
    <3>3. SummedAt(r)'
      BY <3>1, <3>2 DEF SummedAt
    <3> QED
      BY <1>3, <3>1, <3>3 DEF Summed
  <2>2. CASE Sums(r)
    <3>1. req[r].at = "scard" /\ Recorded(r) /\ req[r].left # 0
      BY <2>2 DEF Sums, Recorded, Looked
    <3>2. PICK m \in Nat : m = Window + 1 - req[r].left
      BY <1>2, <3>1
    <3>2a. Sum(r) \in Nat /\ Sum(r) <= Cardinality(Near(r, m))
      BY <3>1, <3>2, SumBound
    <3>3. /\ req'[r].at = "scard" => req'[r].seen = Sum(r) /\ Window - req'[r].left = m
          /\ req'[r].at = "setex" => Sum(r) >= Hard /\ Window = m
      <4>1. req[r].left \in 0..Window
        BY <1>2
      <4>2. /\ req'[r].at = "scard" => req'[r].seen = Sum(r) /\ req'[r].left = req[r].left - 1
            /\ req'[r].at = "setex" => Sum(r) >= Hard /\ req[r].left = 1
        BY <2>2 DEF Sums
      <4> QED
        BY <1>2, <3>2, <4>1, <4>2
    <3>4. Cardinality(Near(r, m)) <= Cardinality(Near(r, m)')
      BY <3>1, <3>2, NearGrows
    <3>5. Cardinality(Near(r, m)) \in Nat /\ Cardinality(Near(r, m)') \in Nat
      BY FiniteRequests DEF Near
    <3>6. Sum(r) <= Cardinality(Near(r, m)')
      BY <3>2a, <3>4, <3>5
    <3>7. SummedAt(r)'
      BY <1>2, <3>2a, <3>3, <3>5, <3>6 DEF SummedAt
    <3> QED
      BY <1>3, <3>7 DEF Summed
  <2> QED
    BY <1>1, <1>4, <2>1, <2>2 DEF Blocked, Starts, Bars, LetsIn, Drops
<1>5. CASE ~(req'[r].at = "scard" \/ req'[r].at = "setex")
  BY <1>3, <1>5 DEF Summed, SummedAt
<1> QED
  BY <1>4, <1>5

LEMMA BarredKept ==
  ASSUME Base, limiter = "enumeration", Looked, Summed, Barred, NEW r \in Request, Handles(r)
  PROVE  Barred'
<1>1. /\ \A q \in Request : q # r => req'[q] = req[q]
      /\ UNCHANGED <<store, life>> \/ Adding(r) \/ Renewing(r) \/ Blocking(r)
      /\ Blocked(r) \/ Starts(r) \/ Tracks(r) \/ Sums(r) \/ Bars(r) \/ LetsIn(r) \/ Drops(r)
  BY LookupSteps
<1>2. Swept => Swept'
  <2> SUFFICES ASSUME NEW q \in Request, Recorded(q), Cardinality(Near(q, Window)) >= Hard
               PROVE  Swept'
    BY DEF Swept
  <2>1. Window \in Nat /\ Hard \in Nat
    BY LookupTypes
  <2>2. Recorded(q)' /\ Cardinality(Near(q, Window)) <= Cardinality(Near(q, Window)')
    BY <2>1, NearGrows
  <2>3. Cardinality(Near(q, Window)) \in Nat /\ Cardinality(Near(q, Window)') \in Nat
    BY FiniteRequests DEF Near
  <2>4. Cardinality(Near(q, Window)') >= Hard
    BY <2>1, <2>2, <2>3
  <2> QED
    BY <2>2, <2>4 DEF Swept
<1>3. req[r].at = "setex" => Swept
  BY DEF Summed, SummedAt, Swept, Recorded
<1>4. store'[Block] # {} => store[Block] # {} \/ req[r].at = "setex"
  BY <1>1, LookupEffect DEF Blocking
<1>5. req'[r].outcome = "refused" => store[Block] # {} \/ req[r].at = "setex"
  BY <1>1 DEF Blocked, Starts, Tracks, Sums, Bars, LetsIn, Drops, Proceeds, Blocking
<1> QED
  BY <1>1, <1>2, <1>3, <1>4, <1>5 DEF Barred

LEMMA EnumerationHandles ==
  ASSUME Base, EnumerationInv, NEW r \in Request, Handles(r)
  PROVE  EnumerationInv'
<1> SUFFICES ASSUME limiter = "enumeration"
             PROVE  (Looked /\ (\A b \in Time : Present(b) /\ Few(b)) /\ Summed /\ Barred)'
  BY HandlesFacts DEF EnumerationInv
<1>1. Looked'
  BY LookedKept DEF EnumerationInv
<1>2. \A b \in Time : Present(b)' /\ Few(b)'
  BY PresentKept, FewKept DEF EnumerationInv
<1>3. Summed' /\ Barred'
  BY SummedKept, BarredKept DEF EnumerationInv
<1> QED
  BY <1>1, <1>2, <1>3

LEMMA EnumerationArrives ==
  ASSUME Base, EnumerationInv, NEW r \in Request, Arrive(r)
  PROVE  EnumerationInv'
<1> SUFFICES ASSUME limiter = "enumeration"
             PROVE  (Looked /\ (\A b \in Time : Present(b) /\ Few(b)) /\ Summed /\ Barred)'
  BY ArriveFacts DEF EnumerationInv, Base
<1> USE DEF EnumerationInv
<1>1. /\ \A q \in Request : q # r => req'[q] = req[q]
      /\ req[r].at = "idle" /\ req'[r].at = "get"
      /\ req'[r].outcome = "none" /\ req'[r].open = {} /\ req'[r].seen = 0
      /\ req[r].outcome = "none" /\ req'[r].when = req[r].when
      /\ now' = now /\ store' = store /\ life' = life
  BY ArriveFacts DEF Base, Others, Shape
<1>2. Looked'
  BY <1>1 DEF Looked, Active
<1>3. ASSUME NEW b \in Time
      PROVE  (Present(b) /\ Few(b))'
  <2>1. store[Bucket(b)] \in SUBSET Request
    BY LookupTypes
  <2>2. Present(b)'
    BY <1>1, <2>1 DEF Present, Tracked, In
  <2>3. Pending(b)' = Pending(b) /\ r \notin Pending(b)
    BY <1>1 DEF Pending, In
  <2>4. \A q \in Pending(b) : req'[q].postcode = req[q].postcode
    BY <1>1, <2>3 DEF Pending
  <2>5. Codes(Pending(b))' = Codes(Pending(b))
    <3>1. Codes(Pending(b))' = {req'[q].postcode : q \in Pending(b)'}
      BY DEF Codes
    <3> QED
      BY <2>3, <2>4, <3>1 DEF Codes
  <2> QED
    BY <2>2, <2>5 DEF Few
<1>4. ASSUME NEW q \in Request, q # r, NEW n \in Nat
      PROVE  Near(q, n)' = Near(q, n)
  BY <1>1, <1>4 DEF Near, Recorded
<1>5. ASSUME NEW q \in Request
      PROVE  SummedAt(q)'
  <2>1. CASE q = r
    BY <1>1, <2>1 DEF SummedAt
  <2>2. CASE q # r
    <3>1. req'[q] = req[q] /\ SummedAt(q)
      BY <1>1, <2>2 DEF Summed
    <3>2. PICK n \in Nat : n = Window - req[q].left
      BY LookupTypes
    <3>3. Near(q, n)' = Near(q, n) /\ Near(q, Window)' = Near(q, Window)
      BY <1>4, <2>2, LookupTypes
    <3> QED
      BY <3>1, <3>2, <3>3 DEF SummedAt
  <2> QED
    BY <2>1, <2>2
<1>6. Swept => Swept'
  <2> SUFFICES ASSUME NEW q \in Request, Recorded(q), Cardinality(Near(q, Window)) >= Hard
               PROVE  Swept'
    BY DEF Swept
  <2>1. q # r
    BY <1>1 DEF Recorded
  <2>2. Near(q, Window)' = Near(q, Window) /\ Recorded(q)'
    BY <1>1, <1>4, <2>1, LookupTypes DEF Recorded
  <2> QED
    BY <2>2 DEF Swept
<1>7. Barred'
  BY <1>1, <1>6 DEF Barred
<1> QED
  BY <1>2, <1>3, <1>5, <1>7 DEF Summed

LEMMA EnumerationTicks ==
  ASSUME Base, EnumerationInv, Tick
  PROVE  EnumerationInv'
<1> SUFFICES ASSUME limiter = "enumeration"
             PROVE  (Looked /\ (\A b \in Time : Present(b) /\ Few(b)) /\ Summed /\ Barred)'
  BY TickFacts DEF EnumerationInv
<1> USE DEF EnumerationInv
<1>1. req' = req /\ now' = now + 1
  BY TickFacts
<1>2. Looked' /\ Summed' /\ (Swept => Swept')
  BY <1>1 DEF Looked, Active, Summed, SummedAt, Swept, Near, Recorded
<1>3. ASSUME NEW b \in Time
      PROVE  (Present(b) /\ Few(b))'
  <2>1. /\ b \in Nat /\ Window \in Nat /\ now \in Nat /\ Bucket(b) \in Key
        /\ life[Bucket(b)] \in Nat
    BY LookupTypes
  <2>2. b + Window < Never /\ b + Window \in Nat /\ Never \in Nat
    BY TimeFacts
  <2>3. \/ /\ life[Bucket(b)] <= now' /\ store'[Bucket(b)] = {} /\ life'[Bucket(b)] = Never
        \/ store'[Bucket(b)] = store[Bucket(b)] /\ life'[Bucket(b)] = life[Bucket(b)]
    BY <2>1, TickFacts
  <2>4. Present(b)'
    <3>1. CASE life[Bucket(b)] <= now' /\ store'[Bucket(b)] = {} /\ life'[Bucket(b)] = Never
      <4>1. ~(now' < b + Window)
        BY <1>1, <2>1, <3>1 DEF Present
      <4> QED
        BY <2>2, <3>1, <4>1 DEF Present
    <3>2. CASE store'[Bucket(b)] = store[Bucket(b)] /\ life'[Bucket(b)] = life[Bucket(b)]
      <4>1. now' < b + Window => now < b + Window
        BY <1>1, <2>1
      <4> QED
        BY <1>1, <3>2, <4>1 DEF Present, Tracked, In
    <3> QED
      BY <2>3, <3>1, <3>2
  <2>5. Few(b)'
    BY <1>1 DEF Few, Codes, Pending, In
  <2> QED
    BY <2>4, <2>5
<1>4. store'[Block] = {} \/ store'[Block] = store[Block]
  BY TickFacts, KeyFacts
<1>5. Barred'
  BY <1>1, <1>2, <1>4 DEF Barred
<1> QED
  BY <1>2, <1>3, <1>5

LEMMA EnumerationStarts ==
  ASSUME Init
  PROVE  EnumerationInv
<1>1. \A q \in Request : req[q].at = "idle" /\ req[q].outcome = "none" /\ req[q].seen = 0
  BY DEF Init
<1>2. Looked /\ Summed
  BY <1>1 DEF Looked, Active, Summed, SummedAt
<1>3. ASSUME NEW b \in Time
      PROVE  Present(b) /\ Few(b)
  <2>1. life[Bucket(b)] = Never /\ store[Bucket(b)] = {}
    BY KeyFacts DEF Init
  <2>2. b + Window \in Nat /\ b + Window < Never /\ Never \in Nat
    BY TimeFacts
  <2>3. Present(b)
    BY <1>1, <2>1, <2>2 DEF Present, Tracked, In
  <2>4. Codes(Pending(b)) = {}
    BY <1>1 DEF Codes, Pending, In
  <2>5. 0 < Hard
    BY LimitsAssumption DEF LimitsAssumption
  <2> QED
    BY <2>3, <2>4, <2>5, FS_EmptySet DEF Few
<1>4. Barred
  BY <1>1, KeyFacts DEF Init, Barred
<1> QED
  BY <1>2, <1>3, <1>4 DEF EnumerationInv

LEMMA LookupsAreKept ==
  ASSUME Base, EnumerationInv, limiter = "enumeration"
  PROVE  LookupsKept
<1>1. ASSUME NEW b \in Time
      PROVE  Cardinality({req[r].postcode : r \in {q \in Request :
                            In(q) /\ req[q].open = {} /\ req[q].when = b}}) < Hard
  <2> DEFINE S == {q \in Request : In(q) /\ req[q].open = {} /\ req[q].when = b}
  <2>1. S \in SUBSET Pending(b) /\ Pending(b) \in SUBSET Request /\ S \in SUBSET Request
    BY DEF Pending
  <2> HIDE DEF S
  <2>2. /\ Cardinality(Codes(S)) <= Cardinality(Codes(Pending(b)))
        /\ Cardinality(Codes(S)) \in Nat /\ Cardinality(Codes(Pending(b))) \in Nat
    BY <2>1, FewerCodes, CodesFinite
  <2>3. Cardinality(Codes(Pending(b))) < Hard /\ Hard \in Nat
    BY LookupTypes DEF EnumerationInv, Few
  <2>4. Cardinality(Codes(S)) < Hard
    BY <2>2, <2>3
  <2> QED
    BY <2>4 DEF Codes, S
<1> QED
  BY <1>1 DEF LookupsKept

LEMMA EnumerationRefusals ==
  ASSUME Base, EnumerationInv, limiter = "enumeration", NEW r \in Request,
         req[r].outcome = "refused"
  PROVE  LookupRefusalEarned
<1>1. Swept
  BY DEF EnumerationInv, Barred
<1> QED
  BY <1>1 DEF Swept, Near, Recorded, LookupRefusalEarned

-----------------------------------------------------------------------------
(* The three together.                                                     *)

LEMMA CounterHandles ==
  ASSUME Base, CounterInv, NEW r \in Request, Handles(r)
  PROVE  CounterInv'
<1> SUFFICES ASSUME limiter = "counter"
             PROVE  (Numbered /\ PastIsOver /\ Judged /\ CounterEnds /\ (Lost \/ (Begun /\ Preceded)))'
  BY HandlesFacts DEF CounterInv
<1>1. Numbered /\ PastIsOver /\ Judged /\ CounterEnds /\ (Lost \/ (Begun /\ Preceded))
  BY DEF CounterInv
<1>2. Numbered' /\ PastIsOver' /\ Judged' /\ CounterEnds'
  BY <1>1, NumberedKept, PastKept, JudgedKept, EndsKept
<1>3. CASE Lost
  BY <1>1, <1>2, <1>3, LostForEver
<1>4. CASE ~Lost
  BY <1>1, <1>2, <1>4, BegunKept, PrecededKept
<1> QED
  BY <1>3, <1>4

(* The other limiters leave the counter alone. *)
Untouched == limiter # "counter" => store[Counter] = {}

LEMMA UntouchedKept ==
  ASSUME Base, Untouched, NEW r \in Request, Handles(r)
  PROVE  Untouched'
<1> SUFFICES ASSUME limiter # "counter"
             PROVE  store'[Counter] = {}
  BY HandlesFacts DEF Untouched
<1>1. /\ store[Counter] = {} /\ store \in [Key -> SUBSET Request] /\ Counter \in Key
      /\ req[r].at \notin {"incr", "expire"} /\ req[r].when \in Time
  <2>1. limiter \in {"window", "enumeration"}
    BY DEF Base, TypeOK
  <2>2. req[r].at \in StagesOf[limiter]
    BY HandlesFacts
  <2>3. req[r].at \notin {"incr", "expire"}
    BY <2>1, <2>2 DEF StagesOf
  <2>4. req[r].when \in Time /\ store \in [Key -> SUBSET Request]
    BY DEF Base, TypeOK, RequestState
  <2> QED
    BY <2>3, <2>4, KeyFacts DEF Untouched
<1>2. ASSUME NEW k \in Key \ {Counter}, NEW S \in SUBSET Request, store' = [store EXCEPT ![k] = S]
      PROVE  store'[Counter] = {}
  BY <1>1, <1>2
<1>3. ASSUME store' = store PROVE store'[Counter] = {}
  BY <1>1, <1>3
<1>4. \A k \in Sorted : <<k, 0>> \in Key \ {Counter}
  BY KeyFacts DEF Sorted, Counter
<1>5. Block \in Key \ {Counter} /\ Bucket(req[r].when) \in Key \ {Counter}
  BY <1>1, KeyFacts
<1>6. CASE Execute(r)
  <2>1. ASSUME NEW k \in Sorted, PutStamp(r, k)
        PROVE  store'[Counter] = {}
    <3>1. InWindow(r, k) \cup {r} \in SUBSET Request
      BY <1>1, <1>4 DEF InWindow
    <3> QED
      BY <1>2, <1>4, <2>1, <3>1 DEF PutStamp
  <2>2. CASE req[r].at = "sadd"
    <3>1. store' = [store EXCEPT ![Bucket(req[r].when)] = @ \cup {r}]
      BY <1>6, <2>2 DEF Execute, AddTo, Sorted
    <3>2. store[Bucket(req[r].when)] \cup {r} \in SUBSET Request
      BY <1>1, <1>5
    <3> QED
      BY <1>2, <1>5, <3>1, <3>2
  <2>3. CASE req[r].at = "expireBucket"
    BY <1>3, <1>6, <2>3 DEF Execute, Expire, Sorted
  <2>4. CASE req[r].at = "setex"
    <3>1. store' = [store EXCEPT ![Block] = {r}]
      BY <1>6, <2>4 DEF Execute, Sorted
    <3> QED
      BY <1>2, <1>5, <3>1
  <2>5. CASE req[r].at \notin Sorted \cup {"sadd", "expireBucket", "setex"}
    BY <1>1, <1>3, <1>6, <2>5 DEF Execute
  <2>6. CASE req[r].at \in Sorted
    <3>1. PutStamp(r, req[r].at)
      BY <1>6, <2>6 DEF Execute, Sorted
    <3> QED
      BY <2>1, <2>6, <3>1
  <2> QED
    BY <2>2, <2>3, <2>4, <2>5, <2>6
<1>7. CASE store' = store
  BY <1>3, <1>7
<1> QED
  BY <1>6, <1>7 DEF Handles, Command, CommandFails, Stop, CheckKey, Delayed

LEMMA BaseStarts ==
  ASSUME Init
  PROVE  Base
<1>1. Never \in Nat /\ 0 \in Time /\ 0 < Never /\ 0 \in 0..Window /\ Latency \in Nat
  BY TimeFacts, LimitsAssumption DEF LimitsAssumption, Time, Never
<1>2. (CHOOSE p \in Postcode : TRUE) \in Postcode
  BY LimitsAssumption DEF LimitsAssumption
<1>3. ASSUME NEW r \in Request
      PROVE  /\ req[r] \in RequestState
             /\ req[r].at = "idle" /\ req[r].outcome = "none" /\ req[r].seen = 0
             /\ req[r].refusedBy = {} /\ req[r].open = {} /\ req[r].when = 0
             /\ \A k \in Sorted : req[r].stamp[k] = 0
  <2> DEFINE D == [at : {"idle"}, outcome : {"none"}, started : {0},
                   stamp : {[k \in Sorted |-> 0]}, checks : {{}}, refusedBy : {{}},
                   open : {{}}, when : {0}, seen : {0}, left : {0},
                   postcode : {CHOOSE p \in Postcode : TRUE}]
  <2>1. req[r] \in D
    BY DEF Init
  <2>2. [k \in Sorted |-> 0] \in [Sorted -> Time]
    BY <1>1
  <2> QED
    BY <1>1, <1>2, <2>1, <2>2, Stages DEF RequestState
<1>4. req \in [Request -> RequestState]
  <2>1. req = [r \in Request |-> req[r]]
    BY DEF Init
  <2> QED
    BY <1>3, <2>1
<1>5. TypeOK
  BY <1>1, <1>4 DEF Init, TypeOK
<1>6. Shape
  BY <1>1, <1>3 DEF Init, Shape, Active
<1>7. Kept
  BY <1>1 DEF Init, Kept
<1> QED
  BY <1>5, <1>6, <1>7 DEF Base

LEMMA BaseArrives ==
  ASSUME Base, NEW r \in Request, Arrive(r)
  PROVE  Base'
<1>1. TypeOK /\ Shape
  BY DEF Base
<1>2. limiter \in {"window", "counter", "enumeration"} /\ req[r].at = "idle"
  BY <1>1, ArriveFacts DEF TypeOK
<1>3. req'[r].at \in StagesOf[limiter] /\ req'[r].outcome = "none" /\ req'[r].started = now
  BY <1>1, <1>2, ArriveFacts DEF StagesOf
<1>4. \A k \in Sorted : req'[r].stamp[k] \in {req[r].stamp[k], now}
  BY <1>1, ArriveFacts
<1>5. Moves(r)
  BY <1>1, <1>2, <1>3, <1>4, ArriveFacts DEF Moves, Active
<1>6. Kept' /\ store' \in [Key -> SUBSET Request] /\ life' \in [Key -> 0..Never]
  BY <1>1, ArriveFacts DEF Base, Kept, TypeOK
<1> QED
  BY <1>5, <1>6, BaseKept

LEMMA BaseHandles ==
  ASSUME Base, EnumerationInv, NEW r \in Request, Handles(r)
  PROVE  Base'
<1>1. CASE limiter = "counter"
  BY <1>1, CounterStep, HandlesFacts, BaseKept
<1>2. CASE limiter = "window"
  BY <1>2, WindowStep, HandlesFacts, BaseKept
<1>3. CASE limiter = "enumeration"
  <2>1. req[r].at = "scard" => req[r].left # 0
    BY <1>3 DEF EnumerationInv, Looked
  <2> QED
    BY <1>3, <2>1, EnumerationStep, HandlesFacts, BaseKept
<1> QED
  BY <1>1, <1>2, <1>3 DEF Base, TypeOK

IInv == Base /\ CounterInv /\ WindowInv /\ EnumerationInv /\ Untouched

LEMMA InitIInv == Init => IInv
<1> SUFFICES ASSUME Init PROVE IInv
  OBVIOUS
<1>1. Untouched
  BY KeyFacts DEF Init, Untouched
<1> QED
  BY <1>1, BaseStarts, CounterStarts, WindowStarts, EnumerationStarts DEF IInv

LEMMA NextIInv == IInv /\ [Next]_vars => IInv'
<1> SUFFICES ASSUME IInv, [Next]_vars PROVE IInv'
  OBVIOUS
<1>1. ASSUME NEW r \in Request, Arrive(r)
      PROVE  IInv'
  <2>1. Untouched'
    BY <1>1, ArriveFacts DEF IInv, Base, Untouched
  <2> QED
    BY <1>1, <2>1, BaseArrives, CounterArrives, WindowArrives, EnumerationArrives DEF IInv
<1>2. ASSUME NEW r \in Request, Handles(r)
      PROVE  IInv'
  BY <1>2, BaseHandles, CounterHandles, WindowHandles, EnumerationHandles, UntouchedKept DEF IInv
<1>3. CASE Tick
  <2>1. Untouched'
    BY <1>3, TickFacts, KeyFacts DEF IInv, Untouched
  <2> QED
    BY <1>3, <2>1, TickFacts, CounterTicks, WindowTicks, EnumerationTicks DEF IInv
<1>4. CASE UNCHANGED vars
  <2> USE <1>4 DEF vars
  <2>1. Base'
    BY DEF IInv, Base, TypeOK, Shape, Kept, Active
  <2>2. Numbered' = Numbered /\ PastIsOver' = PastIsOver /\ Judged' = Judged
    BY DEF Numbered, PastIsOver, Judged, Cur, End, Past, ExpiryLost, In
  <2>3. CounterEnds' = CounterEnds /\ Lost' = Lost /\ Begun' = Begun /\ Preceded' = Preceded
    BY DEF CounterEnds, Lost, Begun, Preceded, Cur, End, First, Before, ExpiryLost
  <2>4. WindowInv' = WindowInv
    BY DEF WindowInv, Asked, Held, Limited, Crowded, Set, Around, LetBy, Made, Passed, Alive, In
  <2>5. EnumerationInv' = EnumerationInv
    BY DEF EnumerationInv, Looked, Tracked, Present, Pending, Few, Codes, Recorded, Near,
           SummedAt, Summed, Swept, Barred, Active, In
  <2> QED
    BY <2>1, <2>2, <2>3, <2>4, <2>5 DEF IInv, CounterInv, Untouched
<1> QED
  BY <1>1, <1>2, <1>3, <1>4 DEF Next, Handles

(* The requests, what Redis holds and when it drops it stay of their       *)
(* types: no clock reading, count or expiry runs out of range.             *)
THEOREM LimitsTypeCorrect == Spec => []TypeOK
<1>1. IInv => TypeOK
  BY DEF IInv, Base
<1> QED
  BY <1>1, InitIInv, NextIInv, PTL DEF Spec

(* However many requests come at once, and whatever becomes of their       *)
(* commands: those let in without an error stay within the limit.          *)
THEOREM NoMoreLetIn == Spec => []LetInWithinLimit
<1>1. IInv => LetInWithinLimit
  <2> SUFFICES ASSUME IInv PROVE LetInWithinLimit
    OBVIOUS
  <2>1. limiter \in {"window", "counter", "enumeration"}
    BY DEF IInv, Base, TypeOK
  <2>2. /\ limiter = "window" => WindowKept
        /\ limiter = "counter" => CounterKept
        /\ limiter = "enumeration" => LookupsKept
    BY CounterIsKept, WindowIsKept, LookupsAreKept DEF IInv
  <2> QED
    BY <2>1, <2>2 DEF LetInWithinLimit
<1> QED
  BY <1>1, InitIInv, NextIInv, PTL DEF Spec

(* A client is refused only for requests of its own within a window, or    *)
(* because the expiry of its counter was lost.                             *)
THEOREM RefusalsAreEarned == Spec => []RefusalIsEarned
<1>1. IInv => RefusalIsEarned
  <2> SUFFICES ASSUME IInv, NEW r \in Request, req[r].outcome = "refused"
               PROVE  CASE limiter = "window" -> WindowRefusalEarned(r)
                        [] limiter = "counter" -> CounterRefusalEarned(r)
                        [] limiter = "enumeration" -> LookupRefusalEarned
    BY DEF RefusalIsEarned
  <2>1. limiter \in {"window", "counter", "enumeration"}
    BY DEF IInv, Base, TypeOK
  <2>2. /\ limiter = "window" => WindowRefusalEarned(r)
        /\ limiter = "counter" => CounterRefusalEarned(r)
        /\ limiter = "enumeration" => LookupRefusalEarned
    BY CounterRefusals, WindowRefusals, EnumerationRefusals DEF IInv
  <2> QED
    BY <2>1, <2>2
<1> QED
  BY <1>1, InitIInv, NextIInv, PTL DEF Spec

(* A counter that never expires is the doing of the request that began it. *)
THEOREM CountersEnd == Spec => []CounterEnds
<1>1. IInv => CounterEnds
  BY DEF IInv, CounterInv, Untouched, CounterEnds
<1> QED
  BY <1>1, InitIInv, NextIInv, PTL DEF Spec
=============================================================================
