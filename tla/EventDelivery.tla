---------------------------- MODULE EventDelivery ----------------------------
(***************************************************************************)
(* What the audit pipeline promises about one security event, with no      *)
(* buffer, batch, timer or retry in sight.  An event is logged once, is    *)
(* open for a while, and is settled exactly once:                          *)
(*   acked    the SIEM workspace confirmed it,                             *)
(*   gaveUp   every attempt was made and none was confirmed,               *)
(*   skipped  forwarding is disabled or has no credentials,                *)
(*   lost     the process ended while it was open.                         *)
(* "acked" is a claim about the workspace: it may only be made of an event *)
(* that arrived there.  An event may arrive in any other state, more than  *)
(* once, and after it was settled.                                         *)
(***************************************************************************)
CONSTANT Event          \* identifiers of the audit events of a behaviour

VARIABLES state,        \* what the pipeline claims of each event
          arrived       \* events the workspace holds

deliveryVars == <<state, arrived>>

Verdict == {"acked", "gaveUp", "skipped", "lost"}

DeliveryTypeOK ==
  /\ state \in [Event -> {"new", "open"} \cup Verdict]
  /\ arrived \subseteq Event

DeliveryInit ==
  /\ state = [e \in Event |-> "new"]
  /\ arrived = {}

(* One event enters the pipeline. *)
Accept(e) ==
  /\ state[e] = "new"
  /\ state' = [state EXCEPT ![e] = "open"]
  /\ UNCHANGED arrived

(* The workspace stores the body of one request. *)
Arrive(S) ==
  /\ \A e \in S : state[e] # "new"
  /\ arrived' = arrived \cup S
  /\ UNCHANGED state

(* Some open events get their verdict together. *)
Settle(S, verdict) ==
  /\ \A e \in S : state[e] = "open"
  /\ verdict = "acked" => S \subseteq arrived
  /\ state' = [e \in Event |-> IF e \in S THEN verdict ELSE state[e]]
  /\ UNCHANGED arrived

(* With nothing configured an event may be accepted and set aside at once, *)
(* and the step that adds one event to a batch may settle the whole batch. *)
DeliveryNext ==
  \/ \E e \in Event : Accept(e)
  \/ \E S \in SUBSET Event : Arrive(S) \/ \E v \in Verdict : Settle(S, v)

DeliverySpec == DeliveryInit /\ [][DeliveryNext]_deliveryVars
=============================================================================
