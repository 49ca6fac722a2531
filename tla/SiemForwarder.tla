---------------------------- MODULE SiemForwarder ----------------------------
(***************************************************************************)
(* The path of a security event from AuditLogger.log (observability/       *)
(* audit.ts) through SiemForwarder (observability/siem-forwarder.ts) to    *)
(* the Log Analytics workspace and the alert webhook, in one Node process  *)
(* that may exit and be started again.                                     *)
(*                                                                         *)
(* The process is single threaded: an action is the code that runs between *)
(* two awaits.  Everything that is awaited -- the dynamic import in        *)
(* shipToSiem, each fetch, each backoff -- is a place where the actions of *)
(* other events interleave.  Events are identified by their eventId; the   *)
(* contents of an event and the order of events inside a batch are left    *)
(* out, because no decision of the code reads them.                        *)
(***************************************************************************)
EXTENDS Naturals, FiniteSets

CONSTANTS
  Event,          \* eventIds of the audit events of a behaviour
  Critical,       \* those whose type is in criticalEventTypes
  MaxBatchSize,   \* config.maxBatchSize
  MaxRetries,     \* config.maxRetries
  Configs         \* the environments a process may be started in

ASSUME ForwarderAssumption ==
  /\ Critical \subseteq Event
  /\ IsFiniteSet(Event)
  /\ MaxBatchSize \in Nat \ {0}
  /\ MaxRetries \in Nat
  /\ Configs # {}
  /\ Configs \subseteq [enabled : BOOLEAN,     \* SIEM_FORWARDER_ENABLED # "false"
                        configured : BOOLEAN,  \* workspace id and shared key are both set
                        webhook : BOOLEAN]     \* SECURITY_WEBHOOK_URL is set

VARIABLES
  config,      \* what the constructor read from the environment
  up,          \* the process is running
  batchTimer,  \* the flush interval is armed
  shipping,    \* events inside shipToSiem, before forward() is entered
  batchBuffer, \* events waiting for a flush
  calls,       \* forwardImmediate calls that have not returned
  forwarding,  \* the flag of the same name
  outcome,     \* what became of each event
  alert,       \* what became of the webhook message of each critical event
  wire,        \* requests sent to the workspace and not yet stored by it
  stored       \* for each event, the attempts whose body the workspace stored

processVars == <<config, up, batchTimer, shipping, batchBuffer, forwarding>>
workspaceVars == <<wire, stored>>
vars == <<config, up, batchTimer, shipping, batchBuffer, calls, forwarding,
          outcome, alert, wire, stored>>

-----------------------------------------------------------------------------
Attempt == 0 .. MaxRetries          \* 0 is the first send, k the k-th retry

(* A forwardImmediate call: the events it carries, how many sends failed,  *)
(* and whether it waits for a response or for a backoff to elapse.         *)
Call == [events : SUBSET Event, attempt : Attempt, phase : {"sending", "backoff"}]

Request == [events : SUBSET Event, attempt : Attempt]

(* The events some forwardImmediate call is responsible for. *)
InFlight == UNION {c.events : c \in calls}

TypeOK ==
  /\ config \in Configs
  /\ up \in BOOLEAN
  /\ batchTimer \in BOOLEAN
  /\ shipping \subseteq Event
  /\ batchBuffer \subseteq Event
  /\ calls \subseteq Call
  /\ forwarding \in BOOLEAN
  /\ outcome \in [Event -> {"new", "open", "acked", "gaveUp", "skipped", "lost"}]
  /\ alert \in [Event -> {"none", "posting", "sent", "failed"}]
  /\ wire \subseteq Request
  /\ stored \in [Event -> SUBSET Attempt]

Init ==
  /\ config \in Configs
  /\ up = TRUE
  /\ batchTimer = config.enabled
  /\ shipping = {}
  /\ batchBuffer = {}
  /\ calls = {}
  /\ forwarding = FALSE
  /\ outcome = [e \in Event |-> "new"]
  /\ alert = [e \in Event |-> "none"]
  /\ wire = {}
  /\ stored = [e \in Event |-> {}]

(* A batch gets its verdict; forward() goes on to the webhook if the batch *)
(* is a single critical event.                                             *)
Conclude(batch, verdict) ==
  /\ outcome' = [e \in Event |-> IF e \in batch THEN verdict ELSE outcome[e]]
  /\ alert' = [e \in Event |-> IF e \in batch \cap Critical /\ config.webhook
                               THEN "posting" ELSE alert[e]]

(* Put the request of a call on the network. *)
Post(batch, attempt) ==
  wire' = wire \cup {[events |-> batch, attempt |-> attempt]}

(* Fault: the flag is set by the callers that batch, not by every call. *)
ForwardImmediateUnflagged(batch) ==
  \/ /\ config.configured
     /\ calls' = calls \cup {[events |-> batch, attempt |-> 0, phase |-> "sending"]}
     /\ Post(batch, 0)
     /\ UNCHANGED <<forwarding, outcome, alert>>
  \/ /\ ~config.configured
     /\ Conclude(batch, "skipped")
     /\ UNCHANGED <<forwarding, calls, wire>>

(* forwardImmediate up to its first await. *)
ForwardImmediate(batch) ==
  \/ /\ config.configured
     /\ forwarding' = TRUE
     /\ calls' = calls \cup {[events |-> batch, attempt |-> 0, phase |-> "sending"]}
     /\ Post(batch, 0)
     /\ UNCHANGED <<outcome, alert>>
  \/ /\ ~config.configured
     /\ Conclude(batch, "skipped")
     /\ UNCHANGED <<forwarding, calls, wire>>

(* Fault: the buffer is taken before the flag is looked at. *)
FlushBatchTakingFirst(buffer) ==
  /\ batchBuffer' = {}
  /\ \/ /\ buffer = {} \/ forwarding
        /\ UNCHANGED <<calls, forwarding, outcome, alert, wire>>
     \/ /\ buffer # {} /\ ~forwarding
        /\ ForwardImmediate(buffer)

(* Fault: the buffer is copied and not cleared. *)
FlushBatchKeepingCopy(buffer) ==
  /\ batchBuffer' = buffer
  /\ \/ /\ buffer = {} \/ forwarding
        /\ UNCHANGED <<calls, forwarding, outcome, alert, wire>>
     \/ /\ buffer # {} /\ ~forwarding
        /\ ForwardImmediate(buffer)

(* flushBatch, with buffer the contents of batchBuffer when it is called.  *)
FlushBatch(buffer) ==
  \/ /\ buffer = {} \/ forwarding
     /\ batchBuffer' = buffer
     /\ UNCHANGED <<calls, forwarding, outcome, alert, wire>>
  \/ /\ buffer # {} /\ ~forwarding
     /\ batchBuffer' = {}
     /\ ForwardImmediate(buffer)

AddToBatch(e) ==
  LET buffer == batchBuffer \cup {e}
  IN  \/ /\ Cardinality(buffer) >= MaxBatchSize
         /\ FlushBatch(buffer)
      \/ /\ Cardinality(buffer) < MaxBatchSize
         /\ batchBuffer' = buffer
         /\ UNCHANGED <<calls, forwarding, outcome, alert, wire>>

-----------------------------------------------------------------------------
(* AuditLogger.log: the event is numbered, signed and written to the local *)
(* log, and shipToSiem starts; it awaits the import of the forwarder.      *)
Log(e) ==
  /\ up
  /\ outcome[e] = "new"
  /\ outcome' = [outcome EXCEPT ![e] = "open"]
  /\ shipping' = shipping \cup {e}
  /\ UNCHANGED <<config, up, batchTimer, batchBuffer, calls, forwarding, alert, wire, stored>>

(* SiemForwarder.forward, entered when the import resolves. *)
Forward(e) ==
  /\ up
  /\ e \in shipping
  /\ shipping' = shipping \ {e}
  /\ \/ /\ ~config.enabled
        /\ outcome' = [outcome EXCEPT ![e] = "skipped"]
        /\ UNCHANGED <<batchBuffer, calls, forwarding, alert, wire>>
     \/ /\ config.enabled /\ e \in Critical
        /\ ForwardImmediate({e})
        /\ UNCHANGED batchBuffer
     \/ /\ config.enabled /\ e \notin Critical
        /\ AddToBatch(e)
  /\ UNCHANGED <<config, up, batchTimer, stored>>

(* The callback of the flush interval. *)
TimerTick ==
  /\ up
  /\ batchTimer
  /\ FlushBatch(batchBuffer)
  /\ UNCHANGED <<config, up, batchTimer, shipping, stored>>

(* External: the workspace stores the body of a request, at any time after *)
(* it was sent, even if the sender has stopped waiting for the answer.     *)
Store(r) ==
  /\ r \in wire
  /\ wire' = wire \ {r}
  /\ stored' = [e \in Event |-> IF e \in r.events THEN stored[e] \cup {r.attempt}
                                ELSE stored[e]]
  /\ UNCHANGED <<config, up, batchTimer, shipping, batchBuffer, calls, forwarding, outcome, alert>>

(* Fault: response.ok is not looked at. *)
AckAnyResponse(c) ==
  /\ c.phase = "sending"
  /\ calls' = calls \ {c}
  /\ forwarding' = FALSE
  /\ Conclude(c.events, "acked")
  /\ UNCHANGED <<config, up, batchTimer, shipping, batchBuffer, wire, stored>>

(* The response is ok: the call returns and the finally block runs. *)
Ack(c) ==
  /\ c.phase = "sending"
  /\ \A e \in c.events : c.attempt \in stored[e]
  /\ calls' = calls \ {c}
  /\ forwarding' = FALSE
  /\ Conclude(c.events, "acked")
  /\ UNCHANGED <<config, up, batchTimer, shipping, batchBuffer, wire, stored>>

(* Fault: the retry bound is not enforced. *)
FailAndBackOffForever(c) ==
  /\ c.phase = "sending"
  /\ calls' = (calls \ {c}) \cup
              {[events |-> c.events, attempt |-> c.attempt + 1, phase |-> "backoff"]}
  /\ UNCHANGED <<processVars, outcome, alert, workspaceVars>>

(* The fetch throws or the response is not ok, and a retry is left.  The   *)
(* flag stays up for the whole backoff.                                    *)
FailAndBackOff(c) ==
  /\ c.phase = "sending"
  /\ c.attempt < MaxRetries
  /\ calls' = (calls \ {c}) \cup
              {[events |-> c.events, attempt |-> c.attempt + 1, phase |-> "backoff"]}
  /\ UNCHANGED <<processVars, outcome, alert, workspaceVars>>

(* Fault: one retry too few. *)
GiveUpEarly(c) ==
  /\ c.phase = "sending"
  /\ c.attempt + 1 >= MaxRetries
  /\ calls' = calls \ {c}
  /\ forwarding' = FALSE
  /\ Conclude(c.events, "gaveUp")
  /\ UNCHANGED <<config, up, batchTimer, shipping, batchBuffer, wire, stored>>

(* Fault: the flag is cleared on success only, not in a finally block. *)
GiveUpKeepingFlag(c) ==
  /\ c.phase = "sending"
  /\ c.attempt = MaxRetries
  /\ calls' = calls \ {c}
  /\ Conclude(c.events, "gaveUp")
  /\ UNCHANGED <<config, up, batchTimer, shipping, batchBuffer, forwarding, wire, stored>>

(* Fault: exhaustion is rethrown, which ends forward() before the webhook. *)
GiveUpRethrowing(c) ==
  /\ c.phase = "sending"
  /\ c.attempt = MaxRetries
  /\ calls' = calls \ {c}
  /\ forwarding' = FALSE
  /\ outcome' = [e \in Event |-> IF e \in c.events THEN "gaveUp" ELSE outcome[e]]
  /\ UNCHANGED <<config, up, batchTimer, shipping, batchBuffer, alert, wire, stored>>

(* The last attempt failed: retryForward logs the event ids and returns. *)
GiveUp(c) ==
  /\ c.phase = "sending"
  /\ c.attempt = MaxRetries
  /\ calls' = calls \ {c}
  /\ forwarding' = FALSE
  /\ Conclude(c.events, "gaveUp")
  /\ UNCHANGED <<config, up, batchTimer, shipping, batchBuffer, wire, stored>>

(* The backoff elapses and the same events are sent again. *)
Retry(c) ==
  /\ c.phase = "backoff"
  /\ calls' = (calls \ {c}) \cup {[c EXCEPT !.phase = "sending"]}
  /\ Post(c.events, c.attempt)
  /\ UNCHANGED <<processVars, outcome, alert, stored>>

(* forwardToWebhook returns; a failure is logged and not retried. *)
PostAlert(e) ==
  /\ up
  /\ alert[e] = "posting"
  /\ \E result \in {"sent", "failed"} : alert' = [alert EXCEPT ![e] = result]
  /\ UNCHANGED <<processVars, calls, outcome, workspaceVars>>

(* SiemForwarder.shutdown: disarm the interval and flush. *)
Shutdown ==
  /\ up
  /\ batchTimer' = FALSE
  /\ FlushBatch(batchBuffer)
  /\ UNCHANGED <<config, up, shipping, stored>>

(* gracefulShutdown in api/server.ts closes the listener and exits without *)
(* calling the forwarder; a crash does the same with less ceremony.  All   *)
(* that lives in memory is gone.                                           *)
Exit ==
  /\ up
  /\ up' = FALSE
  /\ batchTimer' = FALSE
  /\ shipping' = {}
  /\ batchBuffer' = {}
  /\ calls' = {}
  /\ forwarding' = FALSE
  /\ outcome' = [e \in Event |-> IF outcome[e] = "open" THEN "lost" ELSE outcome[e]]
  /\ alert' = [e \in Event |-> IF alert[e] = "posting" THEN "failed" ELSE alert[e]]
  /\ UNCHANGED <<config, workspaceVars>>

(* A new process: the singleton is constructed, reads the environment and  *)
(* arms its interval if forwarding is enabled.                             *)
Restart ==
  /\ ~up
  /\ up' = TRUE
  /\ config' \in Configs
  /\ batchTimer' = config'.enabled
  /\ UNCHANGED <<shipping, batchBuffer, calls, forwarding, outcome, alert, wire, stored>>

-----------------------------------------------------------------------------
(* The next thing that happens to a forwardImmediate call. *)
StepCall(c) == Ack(c) \/ FailAndBackOff(c) \/ GiveUp(c) \/ Retry(c)

Next ==
  \/ \E e \in Event : Log(e) \/ Forward(e) \/ PostAlert(e)
  \/ TimerTick
  \/ \E r \in wire : Store(r)
  \/ \E c \in calls : StepCall(c)
  \/ Shutdown
  \/ Exit
  \/ Restart

Spec == Init /\ [][Next]_vars

(* Node runs resolved promises and due timers, and undici ends every fetch *)
(* with a response or a timeout error.  Nothing obliges the platform to    *)
(* log, the workspace to store, or anybody to stop or start the process.   *)
StepCallOf(e) == \E c \in calls : e \in c.events /\ StepCall(c)

Fairness ==
  /\ \A e \in Event : WF_vars(Forward(e)) /\ WF_vars(StepCallOf(e)) /\ WF_vars(PostAlert(e))
  /\ WF_vars(TimerTick)

FairSpec == Spec /\ Fairness

-----------------------------------------------------------------------------
(* An open event is somewhere: no interleaving of ticks, fills and calls   *)
(* makes an event fall between the buffer and the network (flushBatch      *)
(* copies and empties batchBuffer around an await of another batch).       *)
NoneForgotten ==
  \A e \in Event : outcome[e] = "open" => e \in shipping \cup batchBuffer \cup InFlight

(* An event has one owner at a time, and none once it has its verdict: no  *)
(* two calls carry the same event, and a settled event is not sent again.  *)
OneOwner ==
  /\ shipping \cap (batchBuffer \cup InFlight) = {}
  /\ batchBuffer \cap InFlight = {}
  /\ \A c, d \in calls : c # d => c.events \cap d.events = {}
  /\ \A e \in shipping \cup batchBuffer \cup InFlight : outcome[e] = "open"

(* Every open event is somewhere, and in one place only: nothing is lost   *)
(* or forwarded twice between shipToSiem and the network.                  *)
EventsHeldOnce == NoneForgotten /\ OneOwner

(* "Forwarded events to SIEM" is logged only of events the workspace has.  *)
AckedWasStored ==
  \A e \in Event : outcome[e] = "acked" => stored[e] # {}

(* Attempt a of an event reached the network. *)
Sent(e, a) == a \in stored[e] \/ \E r \in wire : r.attempt = a /\ e \in r.events

(* "SIEM forward retry exhausted" comes after 1 + maxRetries sends, each   *)
(* with this event in its body.                                            *)
GaveUpAfterAllAttempts ==
  \A e \in Event : outcome[e] = "gaveUp" => \A a \in Attempt : Sent(e, a)

(* The flag that suppresses flushes is never left set by a call that is no *)
(* longer there to clear it, whichever way the call ended.                 *)
FlagHasOwner == forwarding => calls # {}

(* Flushes are serialised by the flag as long as no critical event has     *)
(* used forwardImmediate: then the flag means exactly "a call is running". *)
CriticalHandled == {e \in Critical : outcome[e] # "new" /\ e \notin shipping}

FlushesSerial ==
  CriticalHandled = {} =>
    /\ \A c, d \in calls : c = d
    /\ forwarding <=> calls # {}

(* What the flag of flushBatch says of the calls in flight.                *)
FlagMeansCalls == FlagHasOwner /\ FlushesSerial

(* The webhook message of a critical event is composed only after the SIEM *)
(* call of that event returned.                                            *)
AlertAfterVerdict ==
  \A e \in Event : alert[e] # "none" => e \in Critical /\ outcome[e] \notin {"new", "open"}

(* A verdict is final and so is the end of an alert: late responses, stray *)
(* ticks and restarts do not reopen an event or repeat its alert.          *)
VerdictsFinal ==
  [][\A e \in Event :
       /\ outcome[e] \notin {"new", "open"} => outcome'[e] = outcome[e]
       /\ alert[e] \in {"sent", "failed"} => alert'[e] = alert[e]]_vars

(* Every open event gets a verdict, except one caught in the buffer of a   *)
(* forwarder whose interval was disarmed: a flush the flag suppressed is   *)
(* made up for by a later tick.                                            *)
OpenIsSettled ==
  \A e \in Event :
    outcome[e] = "open" ~> (outcome[e] # "open" \/ (e \in batchBuffer /\ ~batchTimer))

(* With a webhook, a critical event leads to one attempt to alert, even    *)
(* when the workspace never answers, unless the process ends first.        *)
CriticalIsAlerted ==
  \A e \in Critical :
    (config.webhook /\ config.enabled /\ outcome[e] = "open") ~> (alert[e] \in {"sent", "failed"} \/ ~up)

-----------------------------------------------------------------------------
(* The detailed pipeline implements EventDelivery. *)
ED == INSTANCE EventDelivery WITH
        state   <- outcome,
        arrived <- {e \in Event : stored[e] # {}}

DeliveryImplemented == ED!DeliverySpec
=============================================================================
