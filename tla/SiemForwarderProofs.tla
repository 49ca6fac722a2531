------------------------- MODULE SiemForwarderProofs -------------------------
(***************************************************************************)
(* Proofs about SiemForwarder for every set of events, batch size, retry   *)
(* bound and set of environments.  The second part shows that it           *)
(* implements EventDelivery.                                               *)
(***************************************************************************)
EXTENDS SiemForwarder, TLAPS

-----------------------------------------------------------------------------
(* The part of the type invariant that the forwarding operators change. *)
SendTypeOK ==
  /\ calls \subseteq Call
  /\ forwarding \in BOOLEAN
  /\ outcome \in [Event -> {"new", "open", "acked", "gaveUp", "skipped", "lost"}]
  /\ alert \in [Event -> {"none", "posting", "sent", "failed"}]
  /\ wire \subseteq Request

(* A verdict keeps outcome and alert functions of the right kind. *)
LEMMA ConcludeType ==
  ASSUME TypeOK, NEW batch \in SUBSET Event,
         NEW verdict \in {"acked", "gaveUp", "skipped"}, Conclude(batch, verdict)
  PROVE  /\ outcome' \in [Event -> {"new", "open", "acked", "gaveUp", "skipped", "lost"}]
         /\ alert' \in [Event -> {"none", "posting", "sent", "failed"}]
  BY DEF TypeOK, Conclude

(* A new call and its request are well formed. *)
LEMMA ForwardImmediateType ==
  ASSUME TypeOK, NEW batch \in SUBSET Event, ForwardImmediate(batch)
  PROVE  SendTypeOK'
<1>1. CASE config.configured
  <2>1. [events |-> batch, attempt |-> 0, phase |-> "sending"] \in Call
    BY ForwarderAssumption DEF Call, Attempt
  <2>2. [events |-> batch, attempt |-> 0] \in Request
    BY ForwarderAssumption DEF Request, Attempt
  <2>3. QED
    BY <1>1, <2>1, <2>2 DEF TypeOK, ForwardImmediate, Post, SendTypeOK
<1>2. CASE ~config.configured
  <2>1. Conclude(batch, "skipped") /\ UNCHANGED <<forwarding, calls, wire>>
    BY <1>2 DEF ForwardImmediate
  <2>2. QED
    BY <2>1, ConcludeType DEF TypeOK, SendTypeOK
<1>3. QED
  BY <1>1, <1>2

LEMMA FlushBatchType ==
  ASSUME TypeOK, NEW buffer \in SUBSET Event, FlushBatch(buffer)
  PROVE  SendTypeOK' /\ batchBuffer' \subseteq Event
<1>1. CASE buffer = {} \/ forwarding
  BY <1>1 DEF FlushBatch, TypeOK, SendTypeOK
<1>2. CASE buffer # {} /\ ~forwarding
  <2>1. batchBuffer' = {} /\ ForwardImmediate(buffer)
    BY <1>2 DEF FlushBatch
  <2>2. QED
    BY <2>1, ForwardImmediateType
<1>3. QED
  BY <1>1, <1>2

LEMMA AddToBatchType ==
  ASSUME TypeOK, NEW e \in Event, AddToBatch(e)
  PROVE  SendTypeOK' /\ batchBuffer' \subseteq Event
<1> DEFINE buffer == batchBuffer \cup {e}
<1>1. buffer \in SUBSET Event
  BY DEF TypeOK
<1>2. CASE FlushBatch(buffer)
  BY <1>1, <1>2, FlushBatchType
<1>3. CASE /\ batchBuffer' = buffer
           /\ UNCHANGED <<calls, forwarding, outcome, alert, wire>>
  BY <1>1, <1>3 DEF TypeOK, SendTypeOK
<1>4. QED
  BY <1>2, <1>3 DEF AddToBatch

(* Every step of the pipeline keeps its state well typed. *)
LEMMA TypeStep ==
  ASSUME TypeOK, [Next]_vars
  PROVE  TypeOK'
<1>1. ASSUME NEW e \in Event, Log(e)
      PROVE  TypeOK'
  BY <1>1 DEF TypeOK, Log
<1>2. ASSUME NEW e \in Event, Forward(e)
      PROVE  TypeOK'
  <2>1. SendTypeOK' /\ batchBuffer' \subseteq Event
    <3>1. CASE ~config.enabled
      BY <1>2, <3>1 DEF Forward, TypeOK, SendTypeOK
    <3>2. CASE config.enabled /\ e \in Critical
      <4>1. ForwardImmediate({e}) /\ UNCHANGED batchBuffer
        BY <1>2, <3>2 DEF Forward
      <4>2. QED
        BY <4>1, ForwardImmediateType DEF TypeOK
    <3>3. CASE config.enabled /\ e \notin Critical
      <4>1. AddToBatch(e)
        BY <1>2, <3>3 DEF Forward
      <4>2. QED
        BY <4>1, AddToBatchType
    <3>4. QED
      BY <3>1, <3>2, <3>3
  <2>2. QED
    BY <1>2, <2>1 DEF Forward, TypeOK, SendTypeOK
<1>3. ASSUME NEW e \in Event, PostAlert(e)
      PROVE  TypeOK'
  BY <1>3 DEF PostAlert, TypeOK, processVars, workspaceVars
<1>4. CASE TimerTick
  <2>1. SendTypeOK' /\ batchBuffer' \subseteq Event
    BY <1>4, FlushBatchType DEF TimerTick, TypeOK
  <2>2. QED
    BY <1>4, <2>1 DEF TimerTick, TypeOK, SendTypeOK
<1>5. ASSUME NEW r \in wire, Store(r)
      PROVE  TypeOK'
  <2>1. r.attempt \in Attempt
    BY DEF TypeOK, Request
  <2>2. QED
    BY <1>5, <2>1 DEF Store, TypeOK
<1>6. ASSUME NEW c \in calls, StepCall(c)
      PROVE  TypeOK'
  <2>0. c \in Call
    BY DEF TypeOK
  <2>1. CASE Ack(c)
    <3>1. Conclude(c.events, "acked") /\ c.events \in SUBSET Event
      BY <2>0, <2>1 DEF Ack, Call
    <3>2. QED
      BY <2>1, <3>1, ConcludeType DEF Ack, TypeOK
  <2>2. CASE FailAndBackOff(c)
    <3>1. [events |-> c.events, attempt |-> c.attempt + 1, phase |-> "backoff"] \in Call
      BY <2>0, <2>2, ForwarderAssumption DEF FailAndBackOff, Call, Attempt
    <3>2. QED
      BY <2>2, <3>1 DEF FailAndBackOff, TypeOK, processVars, workspaceVars
  <2>3. CASE GiveUp(c)
    <3>1. Conclude(c.events, "gaveUp") /\ c.events \in SUBSET Event
      BY <2>0, <2>3 DEF GiveUp, Call
    <3>2. QED
      BY <2>3, <3>1, ConcludeType DEF GiveUp, TypeOK
  <2>4. CASE Retry(c)
    <3>1. [c EXCEPT !.phase = "sending"] \in Call
      BY <2>0 DEF Call
    <3>2. [events |-> c.events, attempt |-> c.attempt] \in Request
      BY <2>0 DEF Call, Request
    <3>3. QED
      BY <2>4, <3>1, <3>2 DEF Retry, Post, TypeOK, processVars
  <2>5. QED
    BY <1>6, <2>1, <2>2, <2>3, <2>4 DEF StepCall
<1>7. CASE Shutdown
  <2>1. SendTypeOK' /\ batchBuffer' \subseteq Event
    BY <1>7, FlushBatchType DEF Shutdown, TypeOK
  <2>2. QED
    BY <1>7, <2>1 DEF Shutdown, TypeOK, SendTypeOK
<1>8. CASE Exit
  BY <1>8 DEF Exit, TypeOK, workspaceVars
<1>9. CASE Restart
  <2>1. config'.enabled \in BOOLEAN
    BY <1>9, ForwarderAssumption DEF Restart
  <2>2. QED
    BY <1>9, <2>1 DEF Restart, TypeOK
<1>10. CASE UNCHANGED vars
  BY <1>10 DEF vars, TypeOK
<1>11. QED
  BY <1>1, <1>2, <1>3, <1>4, <1>5, <1>6, <1>7, <1>8, <1>9, <1>10 DEF Next

(* The state of the pipeline is well typed in every behaviour, whatever    *)
(* the number of events, the batch size and the retry bound: the model of  *)
(* siem-forwarder.ts:71-239 never leaves the values the code can hold.     *)
THEOREM TypeCorrect == Spec => []TypeOK
<1>1. Init => TypeOK
  <2>1. \A c \in Configs : c.enabled \in BOOLEAN
    BY ForwarderAssumption
  <2>2. QED
    BY <2>1 DEF Init, TypeOK
<1>2. TypeOK /\ [Next]_vars => TypeOK'
  BY TypeStep
<1>3. QED
  BY <1>1, <1>2, PTL DEF Spec
-----------------------------------------------------------------------------
(* Ownership of open events, as a predicate of the four pieces of state it *)
(* relates, so that it can be carried through the middle of a handler.     *)
Owns(ship, buf, cs, out) ==
  /\ ship \cap buf = {}
  /\ \A c \in cs : c.events \cap (ship \cup buf) = {}
  /\ \A c, d \in cs : c # d => c.events \cap d.events = {}
  /\ \A e \in ship \cup buf : out[e] = "open"
  /\ \A c \in cs : \A e \in c.events : out[e] = "open"
  /\ \A e \in Event : out[e] = "open" =>
       e \in ship \cup buf \/ \E c \in cs : e \in c.events

Ownership == Owns(shipping, batchBuffer, calls, outcome)

(* Ownership is the two safety properties the runs check, in one. *)
LEMMA OwnershipMeans == Ownership <=> NoneForgotten /\ OneOwner
<1>1. \A e : e \in InFlight <=> \E c \in calls : e \in c.events
  BY DEF InFlight
<1>2. QED
  BY <1>1 DEF Ownership, Owns, NoneForgotten, OneOwner

(* A verdict for a batch nobody else owns releases exactly that batch. *)
LEMMA ConcludeOwns ==
  ASSUME TypeOK, NEW ship \in SUBSET Event, NEW buf \in SUBSET Event,
         NEW cs \in SUBSET Call, NEW batch \in SUBSET Event,
         NEW verdict \in {"acked", "gaveUp", "skipped"},
         batch \cap (ship \cup buf) = {},
         \A c \in cs : c.events \cap batch = {},
         \A c, d \in cs : c # d => c.events \cap d.events = {},
         ship \cap buf = {},
         \A c \in cs : c.events \cap (ship \cup buf) = {},
         \A e \in ship \cup buf : outcome[e] = "open",
         \A c \in cs : \A e \in c.events : outcome[e] = "open",
         \A e \in Event : outcome[e] = "open" =>
           e \in ship \cup buf \cup batch \/ \E c \in cs : e \in c.events,
         Conclude(batch, verdict)
  PROVE  Owns(ship, buf, cs, outcome')
<1>1. \A e \in Event : outcome'[e] = IF e \in batch THEN verdict ELSE outcome[e]
  BY DEF Conclude
<1>2. \A c \in cs : c.events \subseteq Event
  BY DEF Call
<1>3. QED
  BY <1>1, <1>2 DEF Owns

(* forwardImmediate moves its batch into a call or settles it. *)
LEMMA ForwardImmediateOwns ==
  ASSUME TypeOK, NEW ship \in SUBSET Event, NEW buf \in SUBSET Event,
         NEW batch \in SUBSET Event, batch \cap buf = {},
         Owns(ship, buf \cup batch, calls, outcome), ForwardImmediate(batch)
  PROVE  Owns(ship, buf, calls', outcome')
<1> DEFINE call == [events |-> batch, attempt |-> 0, phase |-> "sending"]
<1>1. CASE config.configured
  <2>1. calls' = calls \cup {call} /\ outcome' = outcome
    BY <1>1 DEF ForwardImmediate
  <2>2. call.events = batch
    OBVIOUS
  <2> HIDE DEF call
  <2>3. /\ ship \cap buf = {} /\ ship \cap batch = {}
        /\ \A c \in calls : c.events \cap (ship \cup buf) = {} /\ c.events \cap batch = {}
        /\ \A e \in batch : outcome[e] = "open"
    BY DEF Owns
  <2>4. \A c \in calls' : c.events \cap (ship \cup buf) = {}
    BY <2>1, <2>2, <2>3
  <2>5. \A c, d \in calls' : c # d => c.events \cap d.events = {}
    <3>1. \A c, d \in calls : c # d => c.events \cap d.events = {}
      BY DEF Owns
    <3>2. QED
      BY <2>1, <2>2, <2>3, <3>1
  <2>6. /\ \A e \in ship \cup buf : outcome'[e] = "open"
        /\ \A c \in calls' : \A e \in c.events : outcome'[e] = "open"
    BY <2>1, <2>2, <2>3 DEF Owns
  <2>7. \A e \in Event : outcome'[e] = "open" =>
          e \in ship \cup buf \/ \E c \in calls' : e \in c.events
    BY <2>1, <2>2 DEF Owns
  <2>8. QED
    BY <2>3, <2>4, <2>5, <2>6, <2>7 DEF Owns
<1>2. CASE ~config.configured
  <2>1. Conclude(batch, "skipped") /\ calls' = calls
    BY <1>2 DEF ForwardImmediate
  <2>2. calls \in SUBSET Call
    BY DEF TypeOK
  <2>3. Owns(ship, buf, calls, outcome')
    <3>1. /\ ship \cap buf = {} /\ batch \cap (ship \cup buf) = {}
          /\ \A e \in ship \cup buf : outcome[e] = "open"
          /\ \A c \in calls : \A e \in c.events : outcome[e] = "open"
      BY DEF Owns
    <3>2. \A c \in calls : c.events \cap batch = {} /\ c.events \cap (ship \cup buf) = {}
      BY DEF Owns
    <3>3. \A e \in Event : outcome[e] = "open" =>
            e \in ship \cup buf \cup batch \/ \E c \in calls : e \in c.events
      BY DEF Owns
    <3>4. \A c, d \in calls : c # d => c.events \cap d.events = {}
      BY DEF Owns
    <3>5. QED
      BY <2>1, <2>2, <3>1, <3>2, <3>3, <3>4, ConcludeOwns
  <2>4. QED
    BY <2>1, <2>3
<1>3. QED
  BY <1>1, <1>2

LEMMA FlushBatchOwns ==
  ASSUME TypeOK, NEW ship \in SUBSET Event, NEW buffer \in SUBSET Event,
         Owns(ship, buffer, calls, outcome), FlushBatch(buffer)
  PROVE  Owns(ship, batchBuffer', calls', outcome')
<1>1. CASE buffer = {} \/ forwarding
  BY <1>1 DEF FlushBatch
<1>2. CASE buffer # {} /\ ~forwarding
  <2>1. batchBuffer' = {} /\ ForwardImmediate(buffer)
    BY <1>2 DEF FlushBatch
  <2>2. {} \cup buffer = buffer /\ buffer \cap {} = {} /\ {} \in SUBSET Event
    OBVIOUS
  <2>3. QED
    BY <2>1, <2>2, ForwardImmediateOwns
<1>3. QED
  BY <1>1, <1>2

LEMMA AddToBatchOwns ==
  ASSUME TypeOK, NEW ship \in SUBSET Event, NEW e \in Event,
         Owns(ship, batchBuffer \cup {e}, calls, outcome), AddToBatch(e)
  PROVE  Owns(ship, batchBuffer', calls', outcome')
<1> DEFINE buffer == batchBuffer \cup {e}
<1>1. buffer \in SUBSET Event
  BY DEF TypeOK
<1>2. CASE FlushBatch(buffer)
  BY <1>1, <1>2, FlushBatchOwns
<1>3. CASE /\ batchBuffer' = buffer
           /\ UNCHANGED <<calls, forwarding, outcome, alert, wire>>
  BY <1>3
<1>4. QED
  BY <1>2, <1>3 DEF AddToBatch

(* A call that leaves, or that changes its attempt or phase. *)
LEMMA StepCallOwns ==
  ASSUME TypeOK, Ownership, NEW c \in calls, StepCall(c)
  PROVE  Ownership'
<1>0. c \in Call /\ c.events \in SUBSET Event
  BY DEF TypeOK, Call
<1>1. ASSUME Ack(c) \/ GiveUp(c)
      PROVE  Ownership'
  <2>1. PICK verdict \in {"acked", "gaveUp", "skipped"} : Conclude(c.events, verdict)
    BY <1>1 DEF Ack, GiveUp
  <2>2. calls' = calls \ {c} /\ shipping' = shipping /\ batchBuffer' = batchBuffer
    BY <1>1 DEF Ack, GiveUp
  <2>3. /\ calls \ {c} \in SUBSET Call
        /\ shipping \in SUBSET Event
        /\ batchBuffer \in SUBSET Event
    BY DEF TypeOK
  <2>4. Owns(shipping, batchBuffer, calls \ {c}, outcome')
    <3>1. /\ c.events \cap (shipping \cup batchBuffer) = {}
          /\ \A d \in calls \ {c} : d.events \cap c.events = {}
          /\ \A e \in Event : outcome[e] = "open" =>
               e \in shipping \cup batchBuffer \cup c.events
                 \/ \E d \in calls \ {c} : e \in d.events
      BY DEF Ownership, Owns
    <3>2. /\ \A d, f \in calls \ {c} : d # f => d.events \cap f.events = {}
          /\ shipping \cap batchBuffer = {}
          /\ \A d \in calls \ {c} : d.events \cap (shipping \cup batchBuffer) = {}
          /\ \A e \in shipping \cup batchBuffer : outcome[e] = "open"
          /\ \A d \in calls \ {c} : \A e \in d.events : outcome[e] = "open"
      BY DEF Ownership, Owns
    <3>3. QED
      BY <1>0, <2>1, <2>3, <3>1, <3>2, ConcludeOwns
  <2>5. QED
    BY <2>2, <2>4 DEF Ownership
<1>2. ASSUME FailAndBackOff(c) \/ Retry(c)
      PROVE  Ownership'
  <2>1. PICK d : d.events = c.events /\ calls' = (calls \ {c}) \cup {d}
    <3>1. CASE FailAndBackOff(c)
      BY <3>1 DEF FailAndBackOff
    <3>2. CASE Retry(c)
      <4>1. [c EXCEPT !.phase = "sending"].events = c.events
        BY <1>0 DEF Call
      <4>2. QED
        BY <3>2, <4>1 DEF Retry
    <3>3. QED
      BY <1>2, <3>1, <3>2
  <2>2. UNCHANGED <<shipping, batchBuffer, outcome>>
    BY <1>2 DEF FailAndBackOff, Retry, processVars
  <2>3. QED
    BY <2>1, <2>2 DEF Ownership, Owns
<1>3. QED
  BY <1>1, <1>2 DEF StepCall

LEMMA OwnershipStep ==
  ASSUME TypeOK, Ownership, [Next]_vars
  PROVE  Ownership'
<1>1. ASSUME NEW e \in Event, Log(e)
      PROVE  Ownership'
  <2>1. outcome' = [outcome EXCEPT ![e] = "open"] /\ outcome[e] = "new"
    BY <1>1 DEF Log
  <2>2. e \notin shipping \cup batchBuffer /\ \A c \in calls : e \notin c.events
    BY <2>1 DEF Ownership, Owns
  <2>3. \A f \in Event : outcome'[f] = IF f = e THEN "open" ELSE outcome[f]
    BY <2>1 DEF TypeOK
  <2>4. shipping' = shipping \cup {e} /\ batchBuffer' = batchBuffer /\ calls' = calls
    BY <1>1 DEF Log
  <2>5. QED
    BY <2>2, <2>3, <2>4 DEF Ownership, Owns, TypeOK, Call
<1>2. ASSUME NEW e \in Event, Forward(e)
      PROVE  Ownership'
  <2>1. e \in shipping /\ shipping' = shipping \ {e} /\ shipping \ {e} \in SUBSET Event
    BY <1>2 DEF Forward, TypeOK
  <2>2. e \notin batchBuffer /\ \A c \in calls : e \notin c.events
    BY <2>1 DEF Ownership, Owns
  <2>3. Owns(shipping \ {e}, batchBuffer \cup {e}, calls, outcome)
    BY <2>1, <2>2 DEF Ownership, Owns
  <2>4. CASE ~config.enabled
    <3>1. outcome' = [outcome EXCEPT ![e] = "skipped"] /\ UNCHANGED <<batchBuffer, calls>>
      BY <1>2, <2>4 DEF Forward
    <3>2. \A f \in Event : outcome'[f] = IF f = e THEN "skipped" ELSE outcome[f]
      BY <3>1 DEF TypeOK
    <3>3. QED
      BY <2>1, <2>2, <3>1, <3>2 DEF Ownership, Owns, TypeOK, Call
  <2>5. CASE config.enabled /\ e \in Critical
    <3>1. ForwardImmediate({e}) /\ batchBuffer' = batchBuffer
      BY <1>2, <2>5 DEF Forward
    <3>2. batchBuffer \in SUBSET Event /\ {e} \cap batchBuffer = {}
      BY <2>2 DEF TypeOK
    <3>3. Owns(shipping \ {e}, batchBuffer, calls', outcome')
      BY <2>1, <2>3, <3>1, <3>2, ForwardImmediateOwns
    <3>4. QED
      BY <2>1, <3>1, <3>3 DEF Ownership
  <2>6. CASE config.enabled /\ e \notin Critical
    <3>1. AddToBatch(e)
      BY <1>2, <2>6 DEF Forward
    <3>2. Owns(shipping \ {e}, batchBuffer', calls', outcome')
      BY <2>1, <2>3, <3>1, AddToBatchOwns
    <3>3. QED
      BY <2>1, <3>2 DEF Ownership
  <2>7. QED
    BY <2>4, <2>5, <2>6
<1>3. ASSUME NEW e \in Event, PostAlert(e)
      PROVE  Ownership'
  BY <1>3 DEF PostAlert, processVars, Ownership
<1>4. ASSUME TimerTick \/ Shutdown
      PROVE  Ownership'
  <2>1. FlushBatch(batchBuffer) /\ shipping' = shipping
    BY <1>4 DEF TimerTick, Shutdown
  <2>2. shipping \in SUBSET Event /\ batchBuffer \in SUBSET Event
    BY DEF TypeOK
  <2>3. Owns(shipping, batchBuffer', calls', outcome')
    BY <2>1, <2>2, FlushBatchOwns DEF Ownership
  <2>4. QED
    BY <2>1, <2>3 DEF Ownership
<1>5. ASSUME NEW r \in wire, Store(r)
      PROVE  Ownership'
  BY <1>5 DEF Store, Ownership
<1>6. ASSUME NEW c \in calls, StepCall(c)
      PROVE  Ownership'
  BY <1>6, StepCallOwns
<1>7. CASE Exit
  <2>1. \A e \in Event : outcome'[e] # "open"
    BY <1>7 DEF Exit
  <2>2. shipping' = {} /\ batchBuffer' = {} /\ calls' = {}
    BY <1>7 DEF Exit
  <2>3. QED
    BY <2>1, <2>2 DEF Ownership, Owns
<1>8. CASE Restart
  BY <1>8 DEF Restart, Ownership
<1>9. CASE UNCHANGED vars
  BY <1>9 DEF vars, Ownership
<1>10. QED
  BY <1>1, <1>2, <1>3, <1>4, <1>5, <1>6, <1>7, <1>8, <1>9 DEF Next

LEMMA OwnershipHolds == Spec => []Ownership
<1>1. Init => Ownership
  BY DEF Init, Ownership, Owns
<1>2. TypeOK /\ Ownership /\ [Next]_vars => Ownership'
  BY OwnershipStep
<1>3. QED
  BY <1>1, <1>2, TypeCorrect, PTL DEF Spec

(* Every open event has exactly one owner -- shipToSiem, the buffer or one *)
(* forwardImmediate call -- and a settled event has none: nothing is lost  *)
(* between flushBatch and the network, and nothing is forwarded twice, for *)
(* any interleaving of critical events, fills, ticks, retries and exits.   *)
THEOREM EventsHaveOneOwner == Spec => []EventsHeldOnce
  BY OwnershipHolds, OwnershipMeans, PTL DEF EventsHeldOnce
-----------------------------------------------------------------------------
(* What a call has already put on the network: every attempt before the    *)
(* current one, and the current one unless it is still backing off.        *)
CallsSent ==
  \A c \in calls : \A e \in c.events : \A a \in Attempt :
    a < c.attempt \/ (a = c.attempt /\ c.phase = "sending") => Sent(e, a)

DeliveryInv == AckedWasStored /\ GaveUpAfterAllAttempts /\ CallsSent

(* Requests are only added to the wire, or move from it into stored. *)
LEMMA SentOnly ==
  ASSUME NEW e \in Event, NEW a, Sent(e, a), wire \subseteq wire', stored' = stored
  PROVE  Sent(e, a)'
  BY DEF Sent

LEMMA StoreKeepsSent ==
  ASSUME TypeOK, NEW r \in wire, Store(r), NEW e \in Event, NEW a, Sent(e, a)
  PROVE  Sent(e, a)' /\ stored[e] \subseteq stored'[e]
<1>1. stored'[e] = IF e \in r.events THEN stored[e] \cup {r.attempt} ELSE stored[e]
  BY DEF Store
<1>2. wire' = wire \ {r}
  BY DEF Store
<1>3. QED
  BY <1>1, <1>2 DEF Sent

(* Steps that add calls whose first send they post, and settle nothing but *)
(* skipped batches, keep what is known of attempts and verdicts.           *)
LEMMA ForwardImmediateDelivers ==
  ASSUME TypeOK, DeliveryInv, NEW batch \in SUBSET Event,
         ForwardImmediate(batch), stored' = stored
  PROVE  DeliveryInv'
<1> DEFINE call == [events |-> batch, attempt |-> 0, phase |-> "sending"]
           request == [events |-> batch, attempt |-> 0]
<1>1. CASE config.configured
  <2>1. calls' = calls \cup {call} /\ wire' = wire \cup {request} /\ outcome' = outcome
    BY <1>1 DEF ForwardImmediate, Post
  <2>2. call.events = batch /\ call.attempt = 0 /\ request.events = batch /\ request.attempt = 0
    OBVIOUS
  <2> HIDE DEF call, request
  <2>3. \A e \in Event, a \in Attempt : Sent(e, a) => Sent(e, a)'
    BY <2>1, SentOnly
  <2>4. \A e \in batch : Sent(e, 0)'
    BY <2>1, <2>2 DEF Sent
  <2>5. CallsSent'
    <3>1. ASSUME NEW c \in calls', NEW e \in c.events, NEW a \in Attempt,
                 a < c.attempt \/ (a = c.attempt /\ c.phase = "sending")
          PROVE  Sent(e, a)'
      <4>1. CASE c \in calls
        BY <2>3, <3>1, <4>1 DEF DeliveryInv, CallsSent, TypeOK, Call
      <4>2. CASE c = call
        <5>1. a = 0
          BY <2>2, <3>1, <4>2, ForwarderAssumption DEF Attempt
        <5>2. QED
          BY <2>2, <2>4, <4>2, <5>1
      <4>3. QED
        BY <2>1, <4>1, <4>2
    <3>2. QED
      BY <3>1 DEF CallsSent
  <2>6. QED
    BY <2>1, <2>3, <2>5 DEF DeliveryInv, AckedWasStored, GaveUpAfterAllAttempts
<1>2. CASE ~config.configured
  <2>1. Conclude(batch, "skipped") /\ calls' = calls /\ wire' = wire
    BY <1>2 DEF ForwardImmediate
  <2>2. \A e \in Event : outcome'[e] # "skipped" => outcome'[e] = outcome[e]
    BY <2>1 DEF Conclude
  <2>3. \A e, a : Sent(e, a)' <=> Sent(e, a)
    BY <2>1 DEF Sent
  <2>4. QED
    BY <2>1, <2>2, <2>3 DEF DeliveryInv, AckedWasStored, GaveUpAfterAllAttempts, CallsSent
<1>3. QED
  BY <1>1, <1>2

(* A step that leaves calls, outcome, wire and stored alone. *)
LEMMA DeliveryUnchanged ==
  ASSUME DeliveryInv, UNCHANGED <<calls, outcome, wire, stored>>
  PROVE  DeliveryInv'
<1>1. \A e, a : Sent(e, a)' <=> Sent(e, a)
  BY DEF Sent
<1>2. QED
  BY <1>1 DEF DeliveryInv, AckedWasStored, GaveUpAfterAllAttempts, CallsSent

LEMMA FlushBatchDelivers ==
  ASSUME TypeOK, DeliveryInv, NEW buffer \in SUBSET Event,
         FlushBatch(buffer), stored' = stored
  PROVE  DeliveryInv'
  BY ForwardImmediateDelivers, DeliveryUnchanged DEF FlushBatch

(* The four ways a call moves on. *)
LEMMA StepCallDelivers ==
  ASSUME TypeOK, DeliveryInv, NEW c \in calls, StepCall(c)
  PROVE  DeliveryInv'
<1>0. c \in Call /\ c.attempt \in Attempt /\ c.events \in SUBSET Event
  BY DEF TypeOK, Call
<1>1. CASE Ack(c)
  <2>1. /\ calls' = calls \ {c} /\ wire' = wire /\ stored' = stored
        /\ \A e \in Event : outcome'[e] = IF e \in c.events THEN "acked" ELSE outcome[e]
        /\ \A e \in c.events : c.attempt \in stored[e]
    BY <1>1 DEF Ack, Conclude
  <2>2. \A e, a : Sent(e, a)' <=> Sent(e, a)
    BY <2>1 DEF Sent
  <2>3. QED
    BY <2>1, <2>2 DEF DeliveryInv, AckedWasStored, GaveUpAfterAllAttempts, CallsSent
<1>2. CASE GiveUp(c)
  <2>1. /\ calls' = calls \ {c} /\ wire' = wire /\ stored' = stored
        /\ \A e \in Event : outcome'[e] = IF e \in c.events THEN "gaveUp" ELSE outcome[e]
        /\ c.phase = "sending" /\ c.attempt = MaxRetries
    BY <1>2 DEF GiveUp, Conclude
  <2>2. \A e, a : Sent(e, a)' <=> Sent(e, a)
    BY <2>1 DEF Sent
  <2>3. \A e \in c.events : \A a \in Attempt : Sent(e, a)
    <3>1. \A a \in Attempt : a < c.attempt \/ a = c.attempt
      BY <2>1, ForwarderAssumption DEF Attempt
    <3>2. QED
      BY <2>1, <3>1 DEF DeliveryInv, CallsSent
  <2>4. QED
    BY <2>1, <2>2, <2>3 DEF DeliveryInv, AckedWasStored, GaveUpAfterAllAttempts, CallsSent
<1>3. CASE FailAndBackOff(c)
  <2> DEFINE next == [events |-> c.events, attempt |-> c.attempt + 1, phase |-> "backoff"]
  <2>1. /\ calls' = (calls \ {c}) \cup {next} /\ c.phase = "sending"
        /\ UNCHANGED <<outcome, wire, stored>>
    BY <1>3 DEF FailAndBackOff, workspaceVars
  <2>2. next.events = c.events /\ next.attempt = c.attempt + 1 /\ next.phase = "backoff"
    OBVIOUS
  <2> HIDE DEF next
  <2>3. \A e, a : Sent(e, a)' <=> Sent(e, a)
    BY <2>1 DEF Sent
  <2>4. \A a \in Attempt : a < next.attempt => a < c.attempt \/ a = c.attempt
    BY <1>0, <2>2, ForwarderAssumption DEF Attempt
  <2>5. \A e \in next.events, a \in Attempt :
          a < next.attempt \/ (a = next.attempt /\ next.phase = "sending") => Sent(e, a)
    BY <2>1, <2>2, <2>4 DEF DeliveryInv, CallsSent
  <2>6. CallsSent'
    BY <2>1, <2>3, <2>5 DEF DeliveryInv, CallsSent
  <2>7. QED
    BY <2>1, <2>3, <2>6 DEF DeliveryInv, AckedWasStored, GaveUpAfterAllAttempts
<1>4. CASE Retry(c)
  <2> DEFINE next == [c EXCEPT !.phase = "sending"]
             request == [events |-> c.events, attempt |-> c.attempt]
  <2>1. /\ calls' = (calls \ {c}) \cup {next} /\ wire' = wire \cup {request}
        /\ outcome' = outcome /\ stored' = stored /\ c.phase = "backoff"
    BY <1>4 DEF Retry, Post
  <2>2. /\ next.events = c.events /\ next.attempt = c.attempt
        /\ request.events = c.events /\ request.attempt = c.attempt
    BY <1>0 DEF Call
  <2> HIDE DEF next, request
  <2>3. \A e \in Event, a \in Attempt : Sent(e, a) => Sent(e, a)'
    BY <2>1, SentOnly
  <2>4. \A e \in c.events : Sent(e, c.attempt)'
    BY <2>1, <2>2 DEF Sent
  <2>5. \A e \in c.events, a \in Attempt : a < c.attempt \/ a = c.attempt => Sent(e, a)'
    BY <1>0, <2>3, <2>4 DEF DeliveryInv, CallsSent
  <2>6. \A d \in calls, e \in Event : e \in d.events => \A a \in Attempt :
          a < d.attempt \/ (a = d.attempt /\ d.phase = "sending") => Sent(e, a)'
    BY <2>3 DEF DeliveryInv, CallsSent
  <2>7. \A d \in calls : d.events \subseteq Event
    BY DEF TypeOK, Call
  <2>8. CallsSent'
    BY <2>1, <2>2, <2>5, <2>6, <2>7 DEF CallsSent
  <2>9. QED
    BY <2>1, <2>3, <2>8 DEF DeliveryInv, AckedWasStored, GaveUpAfterAllAttempts
<1>5. QED
  BY <1>1, <1>2, <1>3, <1>4 DEF StepCall

LEMMA DeliveryStep ==
  ASSUME TypeOK, DeliveryInv, [Next]_vars
  PROVE  DeliveryInv'
<1>1. ASSUME NEW e \in Event, Log(e)
      PROVE  DeliveryInv'
  <2>1. /\ UNCHANGED <<calls, wire, stored>>
        /\ \A f \in Event : outcome'[f] # "open" => outcome'[f] = outcome[f]
    BY <1>1 DEF Log, TypeOK
  <2>2. \A f, a : Sent(f, a)' <=> Sent(f, a)
    BY <2>1 DEF Sent
  <2>3. QED
    BY <2>1, <2>2 DEF DeliveryInv, AckedWasStored, GaveUpAfterAllAttempts, CallsSent
<1>2. ASSUME NEW e \in Event, Forward(e)
      PROVE  DeliveryInv'
  <2>1. stored' = stored
    BY <1>2 DEF Forward
  <2>2. CASE ~config.enabled
    <3>1. /\ UNCHANGED <<calls, wire, stored>>
          /\ \A f \in Event : outcome'[f] # "skipped" => outcome'[f] = outcome[f]
      BY <1>2, <2>2 DEF Forward, TypeOK
    <3>2. \A f, a : Sent(f, a)' <=> Sent(f, a)
      BY <3>1 DEF Sent
    <3>3. QED
      BY <3>1, <3>2 DEF DeliveryInv, AckedWasStored, GaveUpAfterAllAttempts, CallsSent
  <2>3. CASE config.enabled /\ e \in Critical
    BY <1>2, <2>1, <2>3, ForwardImmediateDelivers DEF Forward
  <2>4. CASE config.enabled /\ e \notin Critical
    <3>1. AddToBatch(e) /\ batchBuffer \cup {e} \in SUBSET Event
      BY <1>2, <2>4 DEF Forward, TypeOK
    <3>2. QED
      BY <2>1, <3>1, FlushBatchDelivers, DeliveryUnchanged DEF AddToBatch
  <2>5. QED
    BY <2>2, <2>3, <2>4
<1>3. ASSUME NEW e \in Event, PostAlert(e)
      PROVE  DeliveryInv'
  BY <1>3, DeliveryUnchanged DEF PostAlert, workspaceVars
<1>4. ASSUME TimerTick \/ Shutdown
      PROVE  DeliveryInv'
  BY <1>4, FlushBatchDelivers DEF TimerTick, Shutdown, TypeOK
<1>5. ASSUME NEW r \in wire, Store(r)
      PROVE  DeliveryInv'
  <2>1. UNCHANGED <<calls, outcome>>
    BY <1>5 DEF Store
  <2>2. \A e \in Event, a \in Attempt : Sent(e, a) => Sent(e, a)'
    BY <1>5, StoreKeepsSent
  <2>3. \A e \in Event : stored[e] \subseteq stored'[e]
    BY <1>5 DEF Store
  <2>4. \A c \in calls : c.events \subseteq Event
    BY DEF TypeOK, Call
  <2>5. QED
    BY <2>1, <2>2, <2>3, <2>4 DEF DeliveryInv, AckedWasStored, GaveUpAfterAllAttempts, CallsSent
<1>6. ASSUME NEW c \in calls, StepCall(c)
      PROVE  DeliveryInv'
  BY <1>6, StepCallDelivers
<1>7. CASE Exit
  <2>1. /\ calls' = {} /\ wire' = wire /\ stored' = stored
        /\ \A e \in Event : outcome'[e] # "lost" => outcome'[e] = outcome[e]
    BY <1>7 DEF Exit, workspaceVars
  <2>2. \A e, a : Sent(e, a)' <=> Sent(e, a)
    BY <2>1 DEF Sent
  <2>3. QED
    BY <2>1, <2>2 DEF DeliveryInv, AckedWasStored, GaveUpAfterAllAttempts, CallsSent
<1>8. CASE Restart
  BY <1>8, DeliveryUnchanged DEF Restart
<1>9. CASE UNCHANGED vars
  BY <1>9, DeliveryUnchanged DEF vars
<1>10. QED
  BY <1>1, <1>2, <1>3, <1>4, <1>5, <1>6, <1>7, <1>8, <1>9 DEF Next

(* A confirmation is never a false one, and a batch is abandoned only when *)
(* all 1 + maxRetries requests that carry it were put on the network.      *)
THEOREM DeliveryVerdictsSound == Spec => [](AckedWasStored /\ GaveUpAfterAllAttempts)
<1>1. Init => DeliveryInv
  BY DEF Init, DeliveryInv, AckedWasStored, GaveUpAfterAllAttempts, CallsSent
<1>2. TypeOK /\ DeliveryInv /\ [Next]_vars => DeliveryInv'
  BY DeliveryStep
<1>3. DeliveryInv => AckedWasStored /\ GaveUpAfterAllAttempts
  BY DEF DeliveryInv
<1>4. QED
  BY <1>1, <1>2, <1>3, TypeCorrect, PTL DEF Spec
-----------------------------------------------------------------------------
(* The forwarding flag. *)
FlagInv == FlagHasOwner /\ FlushesSerial

(* Nothing takes an event back to "new" or into shipToSiem a second time.  *)
LEMMA CriticalHandledGrows ==
  ASSUME TypeOK, \A e \in Event : outcome[e] # "new" => outcome'[e] # "new",
         \A e \in Event : outcome[e] # "new" /\ e \notin shipping => e \notin shipping'
  PROVE  CriticalHandled \subseteq CriticalHandled'
  BY ForwarderAssumption DEF CriticalHandled

(* A step after which the flag and the calls stand as before. *)
LEMMA FlagUnchanged ==
  ASSUME FlagInv, UNCHANGED <<calls, forwarding>>, CriticalHandled \subseteq CriticalHandled'
  PROVE  FlagInv'
  BY DEF FlagInv, FlagHasOwner, FlushesSerial

(* A flush starts a call only when the flag is down. *)
LEMMA FlushBatchFlag ==
  ASSUME TypeOK, FlagInv, NEW buffer \in SUBSET Event, FlushBatch(buffer),
         CriticalHandled \subseteq CriticalHandled'
  PROVE  FlagInv'
<1>1. CASE UNCHANGED <<calls, forwarding>>
  BY <1>1, FlagUnchanged
<1>2. CASE ~forwarding /\ forwarding' = TRUE /\ \E c : calls' = calls \cup {c}
  BY <1>2 DEF FlagInv, FlagHasOwner, FlushesSerial
<1>3. QED
  BY <1>1, <1>2 DEF FlushBatch, ForwardImmediate

LEMMA FlushBatchKeepsNew ==
  ASSUME TypeOK, NEW buffer \in SUBSET Event, FlushBatch(buffer)
  PROVE  \A e \in Event : outcome[e] # "new" => outcome'[e] # "new"
  BY DEF FlushBatch, ForwardImmediate, Conclude

LEMMA FlagStep ==
  ASSUME TypeOK, Ownership, FlagInv, [Next]_vars
  PROVE  FlagInv'
<1>1. ASSUME NEW e \in Event, Log(e)
      PROVE  FlagInv'
  <2>1. UNCHANGED <<calls, forwarding>>
    BY <1>1 DEF Log
  <2>2. CriticalHandled \subseteq CriticalHandled'
    BY <1>1, CriticalHandledGrows DEF Log, TypeOK
  <2>3. QED
    BY <2>1, <2>2, FlagUnchanged
<1>2. ASSUME NEW e \in Event, Forward(e)
      PROVE  FlagInv'
  <2>1. shipping' = shipping \ {e}
    BY <1>2 DEF Forward
  <2>2. CASE ~config.enabled
    <3>1. UNCHANGED <<calls, forwarding>> /\ outcome' = [outcome EXCEPT ![e] = "skipped"]
      BY <1>2, <2>2 DEF Forward
    <3>2. CriticalHandled \subseteq CriticalHandled'
      BY <2>1, <3>1, CriticalHandledGrows DEF TypeOK
    <3>3. QED
      BY <3>1, <3>2, FlagUnchanged
  <2>3. CASE config.enabled /\ e \in Critical
    <3>1. ForwardImmediate({e})
      BY <1>2, <2>3 DEF Forward
    <3>2. CASE config.configured
      <4>1. /\ forwarding' = TRUE /\ outcome' = outcome
            /\ calls' = calls \cup {[events |-> {e}, attempt |-> 0, phase |-> "sending"]}
        BY <3>1, <3>2 DEF ForwardImmediate
      <4>2. outcome[e] = "open"
        BY <1>2 DEF Forward, Ownership, Owns
      <4>3. e \in CriticalHandled'
        BY <2>1, <2>3, <4>1, <4>2 DEF CriticalHandled
      <4>4. QED
        BY <4>1, <4>3 DEF FlagInv, FlagHasOwner, FlushesSerial
    <3>3. CASE ~config.configured
      <4>1. UNCHANGED <<calls, forwarding>> /\ Conclude({e}, "skipped")
        BY <3>1, <3>3 DEF ForwardImmediate
      <4>2. CriticalHandled \subseteq CriticalHandled'
        BY <2>1, <4>1, CriticalHandledGrows DEF Conclude
      <4>3. QED
        BY <4>1, <4>2, FlagUnchanged
    <3>4. QED
      BY <3>2, <3>3
  <2>4. CASE config.enabled /\ e \notin Critical
    <3>1. AddToBatch(e) /\ batchBuffer \cup {e} \in SUBSET Event
      BY <1>2, <2>4 DEF Forward, TypeOK
    <3>2. \A f \in Event : outcome[f] # "new" => outcome'[f] # "new"
      BY <3>1, FlushBatchKeepsNew DEF AddToBatch
    <3>3. CriticalHandled \subseteq CriticalHandled'
      BY <2>1, <3>2, CriticalHandledGrows
    <3>4. QED
      BY <3>1, <3>3, FlushBatchFlag, FlagUnchanged DEF AddToBatch
  <2>5. QED
    BY <2>2, <2>3, <2>4
<1>3. ASSUME NEW e \in Event, PostAlert(e)
      PROVE  FlagInv'
  BY <1>3, FlagUnchanged DEF PostAlert, processVars, CriticalHandled
<1>4. ASSUME TimerTick \/ Shutdown
      PROVE  FlagInv'
  <2>1. FlushBatch(batchBuffer) /\ shipping' = shipping /\ batchBuffer \in SUBSET Event
    BY <1>4 DEF TimerTick, Shutdown, TypeOK
  <2>2. CriticalHandled \subseteq CriticalHandled'
    BY <2>1, FlushBatchKeepsNew, CriticalHandledGrows
  <2>3. QED
    BY <2>1, <2>2, FlushBatchFlag
<1>5. ASSUME NEW r \in wire, Store(r)
      PROVE  FlagInv'
  BY <1>5, FlagUnchanged DEF Store, CriticalHandled
<1>6. ASSUME NEW c \in calls, StepCall(c)
      PROVE  FlagInv'
  <2>1. CASE Ack(c) \/ GiveUp(c)
    <3>1. calls' = calls \ {c} /\ forwarding' = FALSE /\ shipping' = shipping
      BY <2>1 DEF Ack, GiveUp
    <3>2. \A e \in Event : outcome[e] # "new" => outcome'[e] # "new"
      BY <2>1 DEF Ack, GiveUp, Conclude
    <3>3. CriticalHandled \subseteq CriticalHandled'
      BY <3>1, <3>2, CriticalHandledGrows
    <3>4. QED
      BY <3>1, <3>3 DEF FlagInv, FlagHasOwner, FlushesSerial
  <2>2. CASE FailAndBackOff(c) \/ Retry(c)
    <3>1. \E d : calls' = (calls \ {c}) \cup {d}
      BY <2>2 DEF FailAndBackOff, Retry
    <3>2. UNCHANGED <<forwarding, outcome, shipping>>
      BY <2>2 DEF FailAndBackOff, Retry, processVars
    <3>3. CriticalHandled' = CriticalHandled
      BY <3>2 DEF CriticalHandled
    <3>4. QED
      BY <3>1, <3>2, <3>3 DEF FlagInv, FlagHasOwner, FlushesSerial
  <2>3. QED
    BY <1>6, <2>1, <2>2 DEF StepCall
<1>7. CASE Exit
  BY <1>7 DEF Exit, FlagInv, FlagHasOwner, FlushesSerial
<1>8. CASE Restart
  BY <1>8, FlagUnchanged DEF Restart, CriticalHandled
<1>9. CASE UNCHANGED vars
  BY <1>9, FlagUnchanged DEF vars, CriticalHandled
<1>10. QED
  BY <1>1, <1>2, <1>3, <1>4, <1>5, <1>6, <1>7, <1>8, <1>9 DEF Next

(* The flag is never left set by a call that has returned, and until the   *)
(* first critical event is forwarded it serialises the batches: it is set  *)
(* exactly while the one call there can be is running.                     *)
THEOREM FlagSound == Spec => []FlagMeansCalls
<1>1. Init => FlagInv
  BY DEF Init, FlagInv, FlagHasOwner, FlushesSerial
<1>2. TypeOK /\ Ownership /\ FlagInv /\ [Next]_vars => FlagInv'
  BY FlagStep
<1>3. FlagInv => FlagMeansCalls
  BY DEF FlagInv, FlagMeansCalls
<1>4. QED
  BY <1>1, <1>2, <1>3, TypeCorrect, OwnershipHolds, PTL DEF Spec

-----------------------------------------------------------------------------
(* SiemForwarder implements EventDelivery, and what follows from the shape *)
(* of its steps: verdicts are final and alerts come after them.            *)

(* A step settles a set of open events: all of them get the same verdict,  *)
(* and the critical ones among them get their webhook message started.     *)
Settles(S, verdict) ==
  /\ S \subseteq Event
  /\ \A e \in S : outcome[e] = "open"
  /\ verdict = "acked" => \A e \in S : stored[e] # {}
  /\ Conclude(S, verdict)

(* What a step can do to the delivery state.  Every step of the forwarder  *)
(* does one of these, which is all that the rest of this module needs.     *)
NoDelivery == UNCHANGED <<outcome, alert, stored>>
SettleOne  == \E S \in SUBSET Event : \E v \in {"acked", "gaveUp", "skipped"} :
                Settles(S, v) /\ UNCHANGED stored
Enter(e)   == /\ outcome[e] = "new"
              /\ outcome' = [outcome EXCEPT ![e] = "open"]
              /\ UNCHANGED <<alert, stored>>
SkipOne(e) == /\ outcome[e] = "open"
              /\ outcome' = [outcome EXCEPT ![e] = "skipped"]
              /\ UNCHANGED <<alert, stored>>

(* Requests on the wire carry events that were logged. *)
WireLogged == \A r \in wire : \A e \in r.events : outcome[e] # "new"

LEMMA ForwardImmediateShape ==
  ASSUME TypeOK, WireLogged, NEW batch \in SUBSET Event,
         \A e \in batch : outcome[e] = "open",
         ForwardImmediate(batch), stored' = stored
  PROVE  (NoDelivery \/ SettleOne) /\ WireLogged'
<1>1. CASE config.configured
  <2>1. /\ NoDelivery
        /\ wire' = wire \cup {[events |-> batch, attempt |-> 0]}
        /\ outcome' = outcome
    BY <1>1 DEF ForwardImmediate, Post, NoDelivery
  <2>2. QED
    BY <2>1 DEF WireLogged
<1>2. CASE ~config.configured
  <2>1. Conclude(batch, "skipped") /\ wire' = wire
    BY <1>2 DEF ForwardImmediate
  <2>2. SettleOne
    BY <2>1 DEF SettleOne, Settles
  <2>3. \A e \in Event : outcome'[e] = IF e \in batch THEN "skipped" ELSE outcome[e]
    BY <2>1 DEF Conclude
  <2>4. \A r \in wire : r.events \subseteq Event
    BY DEF TypeOK, Request
  <2>5. QED
    BY <2>1, <2>2, <2>3, <2>4 DEF WireLogged
<1>3. QED
  BY <1>1, <1>2

LEMMA FlushBatchShape ==
  ASSUME TypeOK, WireLogged, NEW buffer \in SUBSET Event,
         \A e \in buffer : outcome[e] = "open",
         FlushBatch(buffer), stored' = stored
  PROVE  (NoDelivery \/ SettleOne) /\ WireLogged'
<1>1. CASE UNCHANGED <<calls, forwarding, outcome, alert, wire>>
  BY <1>1 DEF NoDelivery, WireLogged
<1>2. CASE ForwardImmediate(buffer)
  BY <1>2, ForwardImmediateShape
<1>3. QED
  BY <1>1, <1>2 DEF FlushBatch

LEMMA AddToBatchShape ==
  ASSUME TypeOK, WireLogged, NEW e \in Event, outcome[e] = "open",
         \A f \in batchBuffer : outcome[f] = "open",
         AddToBatch(e), stored' = stored
  PROVE  (NoDelivery \/ SettleOne) /\ WireLogged'
<1> DEFINE buffer == batchBuffer \cup {e}
<1>1. buffer \in SUBSET Event /\ \A f \in buffer : outcome[f] = "open"
  BY DEF TypeOK
<1>2. CASE FlushBatch(buffer)
  BY <1>1, <1>2, FlushBatchShape
<1>3. CASE UNCHANGED <<calls, forwarding, outcome, alert, wire>>
  BY <1>3 DEF NoDelivery, WireLogged
<1>4. QED
  BY <1>2, <1>3 DEF AddToBatch

(* The end of a call, with the events it carried. *)
LEMMA StepCallShape ==
  ASSUME TypeOK, Ownership, WireLogged, NEW c \in calls, StepCall(c)
  PROVE  (NoDelivery \/ SettleOne) /\ WireLogged'
<1>0. /\ c.events \in SUBSET Event /\ \A e \in c.events : outcome[e] = "open"
      /\ \A r \in wire : r.events \subseteq Event
  BY DEF TypeOK, Call, Request, Ownership, Owns
<1>1. ASSUME Ack(c) \/ GiveUp(c)
      PROVE  (NoDelivery \/ SettleOne) /\ WireLogged'
  <2>1. /\ stored' = stored /\ wire' = wire
        /\ \/ Settles(c.events, "acked")
           \/ Settles(c.events, "gaveUp")
    BY <1>0, <1>1 DEF Ack, GiveUp, Settles
  <2>2. \A e \in Event : outcome[e] # "new" => outcome'[e] # "new"
    BY <2>1 DEF Settles, Conclude
  <2>3. QED
    BY <1>0, <2>1, <2>2 DEF SettleOne, WireLogged
<1>2. CASE FailAndBackOff(c)
  BY <1>2 DEF FailAndBackOff, workspaceVars, NoDelivery, WireLogged
<1>3. CASE Retry(c)
  <2>1. /\ UNCHANGED <<outcome, alert, stored>>
        /\ wire' = wire \cup {[events |-> c.events, attempt |-> c.attempt]}
    BY <1>3 DEF Retry, Post
  <2>2. QED
    BY <1>0, <2>1 DEF NoDelivery, WireLogged
<1>4. QED
  BY <1>1, <1>2, <1>3 DEF StepCall

(* Every step of the forwarder, seen from the events. *)
LEMMA StepShape ==
  ASSUME TypeOK, Ownership, WireLogged, [Next]_vars
  PROVE  /\ \/ NoDelivery
            \/ SettleOne
            \/ \E e \in Event : Enter(e) \/ SkipOne(e) \/ PostAlert(e)
            \/ \E r \in wire : Store(r)
            \/ Exit
         /\ WireLogged'
<1>0. \A r \in wire : r.events \subseteq Event
  BY DEF TypeOK, Request
<1>1. ASSUME NEW e \in Event, Log(e)
      PROVE  Enter(e) /\ WireLogged'
  BY <1>0, <1>1 DEF Log, Enter, WireLogged, TypeOK
<1>2. ASSUME NEW e \in Event, Forward(e)
      PROVE  (NoDelivery \/ SettleOne \/ SkipOne(e)) /\ WireLogged'
  <2>1. outcome[e] = "open" /\ stored' = stored /\ \A f \in batchBuffer : outcome[f] = "open"
    BY <1>2 DEF Forward, Ownership, Owns
  <2>2. CASE ~config.enabled
    BY <1>0, <1>2, <2>1, <2>2 DEF Forward, SkipOne, WireLogged, TypeOK
  <2>3. CASE config.enabled /\ e \in Critical
    <3>1. ForwardImmediate({e})
      BY <1>2, <2>3 DEF Forward
    <3>2. QED
      BY <2>1, <3>1, ForwardImmediateShape
  <2>4. CASE config.enabled /\ e \notin Critical
    <3>1. AddToBatch(e)
      BY <1>2, <2>4 DEF Forward
    <3>2. QED
      BY <2>1, <3>1, AddToBatchShape
  <2>5. QED
    BY <2>2, <2>3, <2>4
<1>3. ASSUME NEW e \in Event, PostAlert(e)
      PROVE  WireLogged'
  BY <1>3 DEF PostAlert, workspaceVars, WireLogged
<1>4. ASSUME TimerTick \/ Shutdown
      PROVE  (NoDelivery \/ SettleOne) /\ WireLogged'
  <2>1. FlushBatch(batchBuffer) /\ stored' = stored /\ batchBuffer \in SUBSET Event
    BY <1>4 DEF TimerTick, Shutdown, TypeOK
  <2>2. \A e \in batchBuffer : outcome[e] = "open"
    BY DEF Ownership, Owns
  <2>3. QED
    BY <2>1, <2>2, FlushBatchShape
<1>5. ASSUME NEW r \in wire, Store(r)
      PROVE  WireLogged'
  BY <1>5 DEF Store, WireLogged
<1>6. ASSUME NEW c \in calls, StepCall(c)
      PROVE  (NoDelivery \/ SettleOne) /\ WireLogged'
  BY <1>6, StepCallShape
<1>7. CASE Exit
  BY <1>0, <1>7 DEF Exit, WireLogged, workspaceVars
<1>8. CASE Restart \/ UNCHANGED vars
  BY <1>8 DEF Restart, vars, NoDelivery, WireLogged
<1>9. QED
  BY <1>1, <1>2, <1>3, <1>4, <1>5, <1>6, <1>7, <1>8 DEF Next

LEMMA WireLoggedHolds == Spec => []WireLogged
<1>1. Init => WireLogged
  BY DEF Init, WireLogged
<1>2. TypeOK /\ Ownership /\ WireLogged /\ [Next]_vars => WireLogged'
  BY StepShape
<1>3. QED
  BY <1>1, <1>2, TypeCorrect, OwnershipHolds, PTL DEF Spec
-----------------------------------------------------------------------------
(* A step of the forwarder is a step of EventDelivery or does not show.    *)
LEMMA DeliveryStepMaps ==
  ASSUME TypeOK, Ownership, WireLogged, [Next]_vars
  PROVE  [ED!DeliveryNext]_(ED!deliveryVars)
<1> DEFINE arrived == {e \in Event : stored[e] # {}}
<1>1. CASE NoDelivery
  BY <1>1 DEF NoDelivery, ED!deliveryVars
<1>2. ASSUME NEW S \in SUBSET Event, NEW v \in {"acked", "gaveUp", "skipped"},
             Settles(S, v), UNCHANGED stored
      PROVE  ED!Settle(S, v)
  BY <1>2 DEF Settles, Conclude, ED!Settle
<1>3. ASSUME NEW e \in Event, Enter(e)
      PROVE  ED!Accept(e)
  BY <1>3 DEF Enter, ED!Accept
<1>4. ASSUME NEW e \in Event, SkipOne(e)
      PROVE  ED!Settle({e}, "skipped")
  <2>1. outcome' = [f \in Event |-> IF f \in {e} THEN "skipped" ELSE outcome[f]]
    BY <1>4 DEF SkipOne, TypeOK
  <2>2. QED
    BY <1>4, <2>1 DEF SkipOne, ED!Settle
<1>5. ASSUME NEW e \in Event, PostAlert(e)
      PROVE  UNCHANGED ED!deliveryVars
  BY <1>5 DEF PostAlert, workspaceVars, ED!deliveryVars
<1>6. ASSUME NEW r \in wire, Store(r)
      PROVE  ED!Arrive(r.events)
  <2>1. r.events \subseteq Event /\ \A e \in r.events : outcome[e] # "new"
    BY DEF TypeOK, Request, WireLogged
  <2>2. \A e \in Event : stored'[e] # {} <=> stored[e] # {} \/ e \in r.events
    BY <1>6 DEF Store
  <2>3. arrived' = arrived \cup r.events
    BY <2>1, <2>2
  <2>4. outcome' = outcome
    BY <1>6 DEF Store
  <2>5. QED
    BY <2>1, <2>3, <2>4 DEF ED!Arrive
<1>7. ASSUME Exit
      PROVE  ED!Settle({e \in Event : outcome[e] = "open"}, "lost")
  <2> DEFINE S == {e \in Event : outcome[e] = "open"}
  <2>1. outcome' = [e \in Event |-> IF e \in S THEN "lost" ELSE outcome[e]]
    BY <1>7 DEF Exit
  <2>2. UNCHANGED stored
    BY <1>7 DEF Exit, workspaceVars
  <2>3. QED
    BY <2>1, <2>2 DEF ED!Settle
<1>8. \A r \in wire : r.events \in SUBSET Event
  BY DEF TypeOK, Request
<1>9. CASE SettleOne
  BY <1>2, <1>9 DEF SettleOne, ED!DeliveryNext, ED!Verdict
<1>10. CASE Exit
  <2>1. {e \in Event : outcome[e] = "open"} \in SUBSET Event
    OBVIOUS
  <2>2. QED
    BY <1>7, <1>10, <2>1 DEF ED!DeliveryNext, ED!Verdict
<1>11. CASE \E e \in Event : SkipOne(e)
  BY <1>4, <1>11 DEF ED!DeliveryNext, ED!Verdict
<1>12. CASE \E r \in wire : Store(r)
  BY <1>6, <1>8, <1>12 DEF ED!DeliveryNext
<1>13. CASE \E e \in Event : Enter(e)
  BY <1>3, <1>13 DEF ED!DeliveryNext
<1>14. QED
  BY <1>1, <1>5, <1>9, <1>10, <1>11, <1>12, <1>13, StepShape

(* The batching, retrying forwarder behaves like the one-line promise of   *)
(* EventDelivery: logged once, settled once, and "acked" only of events    *)
(* that the workspace holds.                                               *)
THEOREM ForwarderImplementsDelivery == Spec => DeliveryImplemented
<1>1. Init => ED!DeliveryInit
  BY DEF Init, ED!DeliveryInit
<1>2. TypeOK /\ Ownership /\ WireLogged /\ [Next]_vars => [ED!DeliveryNext]_(ED!deliveryVars)
  BY DeliveryStepMaps
<1>3. QED
  BY <1>1, <1>2, TypeCorrect, OwnershipHolds, WireLoggedHolds, PTL
  DEF Spec, DeliveryImplemented, ED!DeliverySpec
-----------------------------------------------------------------------------
LEMMA AlertStep ==
  ASSUME TypeOK, Ownership, WireLogged, AlertAfterVerdict, [Next]_vars
  PROVE  /\ AlertAfterVerdict'
         /\ \A e \in Event :
              /\ outcome[e] \notin {"new", "open"} => outcome'[e] = outcome[e]
              /\ alert[e] \in {"sent", "failed"} => alert'[e] = alert[e]
<1>1. CASE NoDelivery
  BY <1>1 DEF NoDelivery, AlertAfterVerdict
<1>2. CASE SettleOne
  <2>1. PICK S \in SUBSET Event, v \in {"acked", "gaveUp", "skipped"} : Settles(S, v)
    BY <1>2 DEF SettleOne
  <2>2. \A e \in Event :
          /\ outcome'[e] = IF e \in S THEN v ELSE outcome[e]
          /\ alert'[e] = IF e \in S \cap Critical /\ config.webhook THEN "posting" ELSE alert[e]
    BY <2>1 DEF Settles, Conclude
  <2>3. \A e \in S : outcome[e] = "open"
    BY <2>1 DEF Settles
  <2>4. QED
    BY <2>2, <2>3 DEF AlertAfterVerdict
<1>3. CASE \E e \in Event : Enter(e) \/ SkipOne(e)
  <2>1. PICK e \in Event : Enter(e) \/ SkipOne(e)
    BY <1>3
  <2>2. /\ outcome[e] \in {"new", "open"}
        /\ alert' = alert
        /\ \A f \in Event : f # e => outcome'[f] = outcome[f]
    BY <2>1 DEF Enter, SkipOne, TypeOK
  <2>3. QED
    BY <2>2 DEF AlertAfterVerdict
<1>4. CASE \E e \in Event : PostAlert(e)
  <2>1. PICK e \in Event : PostAlert(e)
    BY <1>4
  <2>2. /\ outcome' = outcome
        /\ alert[e] = "posting"
        /\ \A f \in Event : f # e => alert'[f] = alert[f]
    BY <2>1 DEF PostAlert, TypeOK
  <2>3. QED
    BY <2>2 DEF AlertAfterVerdict
<1>5. CASE \E r \in wire : Store(r)
  BY <1>5 DEF Store, AlertAfterVerdict
<1>6. CASE Exit
  <2>1. \A e \in Event :
          /\ outcome'[e] = IF outcome[e] = "open" THEN "lost" ELSE outcome[e]
          /\ alert'[e] = IF alert[e] = "posting" THEN "failed" ELSE alert[e]
    BY <1>6 DEF Exit
  <2>2. QED
    BY <2>1 DEF AlertAfterVerdict
<1>7. QED
  BY <1>1, <1>2, <1>3, <1>4, <1>5, <1>6, StepShape

(* The webhook message of a critical event is composed only after the SIEM *)
(* call of that event returned, never for an event that is still open and  *)
(* never for one that is not critical.                                     *)
THEOREM AlertsFollowVerdicts == Spec => []AlertAfterVerdict
<1>1. Init => AlertAfterVerdict
  BY DEF Init, AlertAfterVerdict
<1>2. TypeOK /\ Ownership /\ WireLogged /\ AlertAfterVerdict /\ [Next]_vars => AlertAfterVerdict'
  BY AlertStep
<1>3. QED
  BY <1>1, <1>2, TypeCorrect, OwnershipHolds, WireLoggedHolds, PTL DEF Spec

(* Whatever arrives late, ticks again or starts over, the verdict of an    *)
(* event and the end of its alert never change.                            *)
THEOREM VerdictsAreFinal == Spec => VerdictsFinal
<1>1. TypeOK /\ Ownership /\ WireLogged /\ AlertAfterVerdict /\ [Next]_vars =>
        [\A e \in Event :
           /\ outcome[e] \notin {"new", "open"} => outcome'[e] = outcome[e]
           /\ alert[e] \in {"sent", "failed"} => alert'[e] = alert[e]]_vars
  BY AlertStep
<1>2. QED
  BY <1>1, TypeCorrect, OwnershipHolds, WireLoggedHolds, AlertsFollowVerdicts, PTL
  DEF Spec, VerdictsFinal
=============================================================================
