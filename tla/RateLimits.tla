------------------------------ MODULE RateLimits ------------------------------
(***************************************************************************)
(* The three limiters that keep their counts in Redis, seen from one       *)
(* client: the sliding window of api/middleware/rateLimit.ts, the counter  *)
(* of endpoint-rate-limiting.ts and the minute sets of                     *)
(* enumeration-detection.ts.  Every command is a step of its own, executed *)
(* by Redis in any order with those of other requests, and may fail before *)
(* or after it was executed.                                               *)
(*                                                                         *)
(* A tick of the clock is one minute bucket, and Window is the number of   *)
(* ticks after which entries, counter and block expire.                    *)
(***************************************************************************)
EXTENDS Naturals, FiniteSets

CONSTANTS
  Request, Postcode,
  IpMax, KeyMax,  \* maxRequests and apiKeyMaxRequests of the sliding window
  CounterMax,     \* maxRequests of the counter
  Soft, Hard,     \* SOFT_BLOCK_THRESHOLD and HARD_BLOCK_THRESHOLD
  Window,
  Latency,        \* bound: ticks that the commands of a request take at most
  MaxTime         \* bound of the clock

ASSUME LimitsAssumption ==
  /\ IsFiniteSet(Request)
  /\ Postcode # {}
  /\ {IpMax, KeyMax, CounterMax, Soft, Hard, Window} \subseteq Nat \ {0}
  /\ Soft <= Hard
  /\ Latency \in Nat /\ MaxTime \in Nat
  /\ Latency < Window   \* ioredis gives up on a command within seconds

VARIABLES
  limiter, \* which of the three the requests go through
  now,
  req,     \* the requests of the client
  store,   \* what Redis holds under a key, as the requests that put it there
  life     \* when Redis drops the key

vars == <<limiter, now, req, store, life>>

Time == 0..MaxTime
Never == MaxTime + Window + 1

(* The two keys of the sliding window, each a sorted set. *)
Sorted == {"ip", "apiKey"}
Maximum == [ip |-> IpMax, apiKey |-> KeyMax]

Key == {<<k, 0>> : k \in Sorted \cup {"counter", "block"}} \cup {<<"bucket", b>> : b \in Time}
Counter == <<"counter", 0>>
Block == <<"block", 0>>
Bucket(b) == <<"bucket", b>>

(* A request waits for a command, or pauses, or is done. *)
Stage ==
  {"idle", "ip", "between", "apiKey", "incr", "ttl", "expire",
   "get", "sadd", "expireBucket", "scard", "setex", "delay", "done"}
Waiting == Stage \ {"idle", "between", "delay", "done"}

RequestState ==
  [at : Stage,
   outcome : {"none", "in", "refused", "lost"},
   started : Time,            \* when the request came, until it is done
   stamp : [Sorted -> Time],  \* the clock each check read
   checks : SUBSET Sorted,
   refusedBy : SUBSET Sorted,
   open : SUBSET (Sorted \cup {"all"}), \* let in on an error
   when : Time,               \* the clock read for incr or sadd
   seen : Nat,                \* the count so far
   left : 0..Window,          \* buckets to be counted
   postcode : Postcode]

TypeOK ==
  /\ limiter \in {"window", "counter", "enumeration"}
  /\ now \in Time
  /\ req \in [Request -> RequestState]
  /\ store \in [Key -> SUBSET Request]
  /\ life \in [Key -> 0..Never]

Init ==
  /\ limiter \in {"window", "counter", "enumeration"}
  /\ now = 0
  /\ req \in [Request -> [at : {"idle"}, outcome : {"none"}, started : {0},
                          stamp : {[k \in Sorted |-> 0]}, checks : {{}}, refusedBy : {{}},
                          open : {{}}, when : {0}, seen : {0}, left : {0},
                          postcode : {CHOOSE p \in Postcode : TRUE}]]
  /\ store = [k \in Key |-> {}]
  /\ life = [k \in Key |-> Never]

-----------------------------------------------------------------------------
(* A request comes.  Which checks the sliding window makes depends on the  *)
(* tier and on whether the client has an API key.                          *)
ArriveWindow(r, checks) ==
  /\ limiter = "window"
  /\ req' = [req EXCEPT ![r].at = IF "ip" \in checks THEN "ip" ELSE "apiKey",
                        ![r].checks = checks,
                        ![r].started = now,
                        ![r].stamp = [k \in Sorted |-> now]]

ArriveCounter(r) ==
  /\ limiter = "counter"
  /\ req' = [req EXCEPT ![r].at = "incr", ![r].started = now]

ArriveLookup(r, p) ==
  /\ limiter = "enumeration"
  /\ req' = [req EXCEPT ![r].at = "get", ![r].started = now, ![r].postcode = p]

Arrive(r) ==
  /\ req[r].at = "idle"
  /\ \/ \E checks \in (SUBSET Sorted) \ {{}} : ArriveWindow(r, checks)
     \/ ArriveCounter(r)
     \/ \E p \in Postcode : ArriveLookup(r, p)
  /\ UNCHANGED <<limiter, now, store, life>>

-----------------------------------------------------------------------------
(* What Redis does with the command that the request waits for. *)

(* Fault: nothing is removed from the sorted set. *)
InWindowAll(r, k) == store[<<k, 0>>]

(* Those of the sorted set that zremrangebyscore leaves. *)
InWindow(r, k) ==
  {q \in store[<<k, 0>>] : req[q].stamp[k] + Window > req[r].stamp[k]}

(* Fault: the set is dropped before its last entries are out of the window. *)
PutStampShort(r, k) ==
  /\ store' = [store EXCEPT ![<<k, 0>>] = InWindow(r, k) \cup {r}]
  /\ life' = [life EXCEPT ![<<k, 0>>] = now + Window - 1]

(* zadd and expire. *)
PutStamp(r, k) ==
  /\ store' = [store EXCEPT ![<<k, 0>>] = InWindow(r, k) \cup {r}]
  /\ life' = [life EXCEPT ![<<k, 0>>] = now + Window]

AddTo(k, r) ==
  /\ store' = [store EXCEPT ![k] = @ \cup {r}]
  /\ UNCHANGED life

(* EXPIRE of a key that is not there does nothing. *)
Expire(k) ==
  /\ life' = [life EXCEPT ![k] = IF store[k] = {} THEN @ ELSE now + Window]
  /\ UNCHANGED store

Execute(r) ==
  CASE req[r].at \in Sorted -> PutStamp(r, req[r].at)
    [] req[r].at = "incr" -> AddTo(Counter, r)
    [] req[r].at = "expire" -> Expire(Counter)
    [] req[r].at = "sadd" -> AddTo(Bucket(req[r].when), r)
    [] req[r].at = "expireBucket" -> Expire(Bucket(req[r].when))
    [] req[r].at = "setex" ->
         /\ store' = [store EXCEPT ![Block] = {r}]
         /\ life' = [life EXCEPT ![Block] = now + Window]
    [] OTHER -> UNCHANGED <<store, life>>

-----------------------------------------------------------------------------
(* What the middleware makes of the reply.  (What a request no longer      *)
(* needs is reset when it is done.)                                        *)
Finish(r, outcome) ==
  req' = [req EXCEPT ![r].at = "done", ![r].outcome = outcome, ![r].started = 0, ![r].left = 0,
                     ![r].seen = IF limiter = "counter" THEN @ ELSE 0]

(* rateLimitMiddleware: the second check is made whatever the first said. *)
CheckedWindow(r, refusedBy, open) ==
  LET last == req[r].at = "apiKey" \/ "apiKey" \notin req[r].checks
  IN  req' = [req EXCEPT
                ![r].at = IF last THEN "done" ELSE "between",
                ![r].outcome = IF ~last THEN "none"
                               ELSE IF refusedBy # {} THEN "refused" ELSE "in",
                ![r].started = IF last THEN 0 ELSE @,
                ![r].refusedBy = refusedBy,
                ![r].open = open]

CheckWindow(r, k) ==
  CheckedWindow(r,
    req[r].refusedBy \cup (IF Cardinality(InWindow(r, k)) < Maximum[k] THEN {} ELSE {k}),
    req[r].open)

(* getRateLimitStatus and endpointRateLimiting. *)
DecideByCount(r, count) == Finish(r, IF count > CounterMax THEN "refused" ELSE "in")

Counted(r) ==
  req' = [req EXCEPT ![r].at = "ttl", ![r].when = now,
                     ![r].seen = Cardinality(store[Counter] \cup {r})]

(* Fault: INCR is taken to return the old value. *)
TtlReadFromZero(r) ==
  IF req[r].seen = 0 THEN req' = [req EXCEPT ![r].at = "expire"]
                     ELSE DecideByCount(r, req[r].seen)

TtlRead(r) ==
  IF req[r].seen = 1 THEN req' = [req EXCEPT ![r].at = "expire"]
                     ELSE DecideByCount(r, req[r].seen)

(* enumerationDetection and trackPostcodeLookup. *)
StartTracking(r) ==
  req' = [req EXCEPT ![r].at = "sadd", ![r].when = now]

(* SCARD of the bucket that is `left - 1` before the current one. *)
UniqueIn(r, left) ==
  IF left > req[r].when + 1 THEN 0
  ELSE Cardinality({req[q].postcode : q \in store[Bucket(req[r].when + 1 - left)]})

(* Fault: one bucket too many is counted. *)
CountBucketPastLast(r) ==
  LET seen == req[r].seen + UniqueIn(r, Window + 1 - req[r].left)
      last == req[r].left = 0
  IN  req' = [req EXCEPT
                ![r].seen = IF last THEN 0 ELSE seen,
                ![r].left = req[r].left - 1,
                ![r].at = IF ~last THEN "scard"
                          ELSE IF seen >= Hard THEN "setex"
                          ELSE IF seen >= Soft THEN "delay" ELSE "done",
                ![r].outcome = IF last /\ seen < Soft THEN "in" ELSE "none",
                ![r].started = IF last /\ seen < Soft THEN 0 ELSE @]

CountBucket(r) ==
  LET seen == req[r].seen + UniqueIn(r, Window + 1 - req[r].left)
      last == req[r].left = 1
  IN  req' = [req EXCEPT
                ![r].seen = IF last THEN 0 ELSE seen,
                ![r].left = req[r].left - 1,
                ![r].at = IF ~last THEN "scard"
                          ELSE IF seen >= Hard THEN "setex"
                          ELSE IF seen >= Soft THEN "delay" ELSE "done",
                ![r].outcome = IF last /\ seen < Soft THEN "in" ELSE "none",
                ![r].started = IF last /\ seen < Soft THEN 0 ELSE @]

Handle(r) ==
  CASE req[r].at \in Sorted -> CheckWindow(r, req[r].at)
    [] req[r].at = "incr" -> Counted(r)
    [] req[r].at = "ttl" -> TtlRead(r)
    [] req[r].at = "expire" -> DecideByCount(r, req[r].seen)
    [] req[r].at = "get" -> IF store[Block] # {} THEN Finish(r, "refused") ELSE StartTracking(r)
    [] req[r].at = "sadd" -> req' = [req EXCEPT ![r].at = "expireBucket"]
    [] req[r].at = "expireBucket" -> req' = [req EXCEPT ![r].at = "scard", ![r].left = Window]
    [] req[r].at = "scard" -> CountBucket(r)
    [] req[r].at = "setex" -> Finish(r, "refused")

(* Every catch lets the request go on, except after the decision to block. *)
HandleError(r) ==
  CASE req[r].at \in Sorted ->
         CheckedWindow(r, req[r].refusedBy, req[r].open \cup {req[r].at})
    [] req[r].at = "get" -> StartTracking(r)
    [] req[r].at = "setex" -> Finish(r, "refused")
    [] OTHER -> req' = [req EXCEPT ![r].at = "done", ![r].outcome = "in", ![r].open = {"all"},
                                  ![r].started = 0, ![r].left = 0,
                                  ![r].seen = IF limiter = "counter" THEN @ ELSE 0]

Command(r) ==
  /\ req[r].at \in Waiting
  /\ Execute(r)
  /\ Handle(r)
  /\ UNCHANGED <<limiter, now>>

(* The command fails, or its reply is lost. *)
CommandFails(r) ==
  /\ req[r].at \in Waiting
  /\ Execute(r) \/ UNCHANGED <<store, life>>
  /\ HandleError(r)
  /\ UNCHANGED <<limiter, now>>

(* The process stops; a command under way may still reach Redis. *)
Stop(r) ==
  /\ req[r].at \notin {"idle", "done"}
  /\ IF req[r].at \in Waiting THEN Execute(r) \/ UNCHANGED <<store, life>>
                              ELSE UNCHANGED <<store, life>>
  /\ Finish(r, "lost")
  /\ UNCHANGED <<limiter, now>>

(* The reply of the first check is handled and the second reads the clock. *)
CheckKey(r) ==
  /\ req[r].at = "between"
  /\ req' = [req EXCEPT ![r].at = "apiKey", ![r].stamp["apiKey"] = now]
  /\ UNCHANGED <<limiter, now, store, life>>

(* artificialDelay is over. *)
Delayed(r) ==
  /\ req[r].at = "delay"
  /\ Finish(r, "in")
  /\ UNCHANGED <<limiter, now, store, life>>

(* Redis drops the keys whose time has come. *)
Tick ==
  /\ now < MaxTime
  /\ \A r \in Request :
       req[r].at \notin {"idle", "done"} => now + 1 <= req[r].started + Latency
  /\ now' = now + 1
  /\ store' = [k \in Key |-> IF life[k] <= now' THEN {} ELSE store[k]]
  /\ life' = [k \in Key |-> IF life[k] <= now' THEN Never ELSE life[k]]
  /\ UNCHANGED <<limiter, req>>

Next ==
  \/ \E r \in Request :
       Arrive(r) \/ Command(r) \/ CommandFails(r) \/ Stop(r) \/ CheckKey(r) \/ Delayed(r)
  \/ Tick

Spec == Init /\ [][Next]_vars

-----------------------------------------------------------------------------
In(r) == req[r].outcome = "in"

WindowKept ==
  \A k \in Sorted :
    Cardinality({r \in Request : /\ In(r) /\ k \in req[r].checks \ req[r].open
                                 /\ req[r].stamp[k] + Window > now}) <= Maximum[k]

CounterKept ==
  Cardinality({r \in Request : /\ In(r) /\ req[r].open = {}
                               /\ req[r].when + Window > now}) <= 2 * CounterMax

LookupsKept ==
  \A b \in Time :
    Cardinality({req[r].postcode : r \in {q \in Request :
                   In(q) /\ req[q].open = {} /\ req[q].when = b}}) < Hard

(* However the commands of requests interleave, fail or are lost: of the   *)
(* requests let in without an error, a window sees no more than the        *)
(* maximum, a window over a counter that restarts no more than twice the   *)
(* maximum, and a minute fewer postcodes than the threshold.               *)
LetInWithinLimit ==
  CASE limiter = "window" -> WindowKept
    [] limiter = "counter" -> CounterKept
    [] limiter = "enumeration" -> LookupsKept

WindowRefusalEarned(r) ==
  \A k \in req[r].refusedBy :
    Cardinality({q \in Request \ {r} : /\ k \in req[q].checks
                                       /\ req[q].stamp[k] + Window > req[r].stamp[k]})
      >= Maximum[k]

(* The first request of a counter failed to set its expiry. *)
ExpiryLost(q) ==
  req[q].seen <= 1 /\ (req[q].open # {} \/ req[q].outcome = "lost")

CounterRefusalEarned(r) ==
  \/ \E q \in Request : ExpiryLost(q)
  \/ Cardinality({q \in Request \ {r} :
                    req[q].seen > 0 /\ req[q].when + Window + Latency > req[r].when})
       >= CounterMax

LookupRefusalEarned ==
  \E q \in Request :
    Cardinality({x \in Request : /\ req[x].at \notin {"idle", "get"}
                                 /\ req[x].when <= req[q].when
                                 /\ req[x].when + Window > req[q].when}) >= Hard

(* A client is refused only after as many requests within a window as the  *)
(* limit names, its refused ones among them, or because the expiry of its  *)
(* counter was lost; a postcode looked up in several minutes counts in     *)
(* each.                                                                   *)
RefusalIsEarned ==
  \A r \in Request :
    req[r].outcome = "refused" =>
      CASE limiter = "window" -> WindowRefusalEarned(r)
        [] limiter = "counter" -> CounterRefusalEarned(r)
        [] limiter = "enumeration" -> LookupRefusalEarned

(* A counter that will never expire is the doing of its first request: it  *)
(* is still between its commands, one of them failed, or its process ended *)
(* before the third.  No other interleaving of the three commands leaves a *)
(* client refused for ever.                                                *)
CounterEnds ==
  store[Counter] # {} /\ life[Counter] = Never =>
    \E r \in store[Counter] :
      ExpiryLost(r) \/ (req[r].seen = 1 /\ req[r].at \in {"ttl", "expire"})
=============================================================================
