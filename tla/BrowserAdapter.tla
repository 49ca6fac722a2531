---------------------------- MODULE BrowserAdapter ----------------------------
(***************************************************************************)
(* One browser-based council adapter (adapters/base/browser-adapter.ts and *)
(* the adapters that extend it) and the calls the API makes on it.  The    *)
(* registry holds one instance per council, so concurrent calls share the  *)
(* fields browser and context.                                             *)
(*                                                                         *)
(* A call launches at most one browser and opens at most one context, the  *)
(* latter in the former: both are named by the call.  An action is the     *)
(* code between two awaits.  A browser may die at any time, and its        *)
(* context and pages with it.                                              *)
(***************************************************************************)
CONSTANTS
  Call,      \* calls on the adapter in a behaviour
  Lookup,    \* resolveAddresses, getCollectionServices, getCollectionEvents
  Health,    \* verifyHealth of Portsmouth, Havant, Winchester and Test Valley
  Eastleigh, \* verifyHealth of Eastleigh
  None       \* null

ASSUME AdapterAssumption ==
  /\ Call = Lookup \cup Health \cup Eastleigh
  /\ Lookup \cap (Health \cup Eastleigh) = {}
  /\ Health \cap Eastleigh = {}
  /\ None \notin Call

VARIABLES
  pc,           \* where each call is
  browser,      \* this.browser: the call that launched it, or null
  context,      \* this.context: the call that opened it, or null
  liveBrowsers, \* browsers that run
  liveContexts, \* contexts that are open
  closeAsked,   \* contexts on which close() was called
  handle,       \* the context a call's page is in, or the object it is closing
  reached,      \* health checks whose page loaded the council's site
  report,       \* what each health check says of the council
  overlapped    \* history: calls that were in progress together with another

vars == <<pc, browser, context, liveBrowsers, liveContexts, closeAsked, handle,
          reached, report, overlapped>>

Check == Health \cup Eastleigh

(* HEALTHY (DEGRADED at Havant) and upstreamReachable; UNHEALTHY and all   *)
(* the same upstreamReachable, which is result.success ||                  *)
(* failureCategory !== NETWORK_ERROR; UNHEALTHY and not upstreamReachable. *)
Verdict == {"healthy", "reachable", "unreachable"}
Unhealthy == Verdict \ {"healthy"}

(* From its first await to cleanup(), and in cleanup(). *)
Early == {"launching", "contexting", "opening", "working", "leaving"}
ClosingContext == {"closingContext", "closingAgain"}
Running == Early \cup ClosingContext \cup {"closingBrowser"}

TypeOK ==
  /\ pc \in [Call -> {"idle", "done"} \cup Running]
  /\ browser \in Call \cup {None}
  /\ context \in Call \cup {None}
  /\ liveBrowsers \subseteq Call
  /\ liveContexts \subseteq liveBrowsers
  /\ closeAsked \subseteq Call
  /\ handle \in [Call -> Call \cup {None}]
  /\ reached \subseteq Check
  /\ report \in [Check -> {"none"} \cup Verdict]
  /\ overlapped \subseteq Call

Init ==
  /\ pc = [c \in Call |-> "idle"]
  /\ browser = None
  /\ context = None
  /\ liveBrowsers = {}
  /\ liveContexts = {}
  /\ closeAsked = {}
  /\ handle = [c \in Call |-> None]
  /\ reached = {}
  /\ report = [c \in Check |-> "none"]
  /\ overlapped = {}

Active == {c \in Call : pc[c] \in Running}

Goto(c, label, object) ==
  /\ pc' = [pc EXCEPT ![c] = label]
  /\ handle' = [handle EXCEPT ![c] = object]

-----------------------------------------------------------------------------
(* The second half of cleanup(), where this.browser is looked at. *)
CloseBrowser(c) ==
  IF browser # None THEN Goto(c, "closingBrowser", browser) ELSE Goto(c, "done", None)

(* Fault: this.browser is looked at only if there was a context. *)
CleanupOfContext(c, label) ==
  /\ UNCHANGED browser
  /\ \/ /\ context # None /\ context \notin closeAsked
        /\ Goto(c, label, context)
        /\ closeAsked' = closeAsked \cup {context}
        /\ UNCHANGED context
     \/ /\ context \in closeAsked
        /\ context' = None
        /\ CloseBrowser(c)
        /\ UNCHANGED closeAsked
     \/ /\ context = None
        /\ Goto(c, "done", None)
        /\ UNCHANGED <<context, closeAsked>>

(* cleanup() up to its first await that waits.  Playwright's context.close *)
(* returns at once if it was called before.                                *)
Cleanup(c, label) ==
  \/ /\ context # None /\ context \notin closeAsked
     /\ Goto(c, label, context)
     /\ closeAsked' = closeAsked \cup {context}
     /\ UNCHANGED <<browser, context>>
  \/ /\ context = None \/ context \in closeAsked
     /\ context' = None
     /\ CloseBrowser(c)
     /\ UNCHANGED <<browser, closeAsked>>

(* A health check says one of the verdicts, a lookup none. *)
Report(c, verdicts) ==
  report' \in IF c \in Check THEN {[report EXCEPT ![c] = v] : v \in verdicts} ELSE {report}

(* executeBrowserTask returns a failure before it had a page, and the      *)
(* adapter's method goes on to cleanup().  Most checks take a failure that *)
(* is not called a network error for the answer of a council they never    *)
(* asked; Havant's does not.                                               *)
FailAndCleanUp(c) == Report(c, Unhealthy) /\ Cleanup(c, "closingContext")

(* Validation or the kill switch ends a call before it touches the browser. *)
Refuse(c) ==
  /\ pc[c] = "idle"
  /\ c \in Lookup
  /\ pc' = [pc EXCEPT ![c] = "done"]
  /\ UNCHANGED <<browser, context, liveBrowsers, liveContexts, closeAsked, handle,
                 reached, report, overlapped>>

(* createPage and initBrowser up to their first await.  With a browser but *)
(* no context, initBrowser returns and this.context!.newPage throws.       *)
Enter(c) ==
  /\ pc[c] = "idle"
  /\ overlapped' = IF Active = {} THEN overlapped ELSE overlapped \cup Active \cup {c}
  /\ \/ /\ context # None
        /\ Goto(c, "opening", context)
        /\ UNCHANGED <<browser, context, closeAsked, report>>
     \/ /\ context = None /\ browser = None
        /\ Goto(c, "launching", None)
        /\ UNCHANGED <<browser, context, closeAsked, report>>
     \/ /\ context = None /\ browser # None
        /\ FailAndCleanUp(c)
  /\ UNCHANGED <<liveBrowsers, liveContexts, reached>>

(* chromium.launch resolves; newContext is called on the new browser. *)
Launched(c) ==
  /\ pc[c] = "launching"
  /\ browser' = c
  /\ liveBrowsers' = liveBrowsers \cup {c}
  /\ Goto(c, "contexting", None)
  /\ UNCHANGED <<context, liveContexts, closeAsked, reached, report, overlapped>>

(* newContext resolves; createPage asks this.context for a page. *)
ContextCreated(c) ==
  /\ pc[c] = "contexting"
  /\ c \in liveBrowsers
  /\ context' = c
  /\ liveContexts' = liveContexts \cup {c}
  /\ Goto(c, "opening", c)
  /\ UNCHANGED <<browser, liveBrowsers, closeAsked, reached, report, overlapped>>

(* Fault: a failure before the first page is returned without cleanup(). *)
SetupFailsUncleaned(c) ==
  /\ pc[c] \in {"launching", "contexting", "opening"}
  /\ Report(c, Unhealthy)
  /\ Goto(c, "done", None)
  /\ UNCHANGED <<browser, context, liveBrowsers, liveContexts, closeAsked, reached, overlapped>>

(* Fault: the rejection of newPage on a dead context is not awaited. *)
SetupFailsAlive(c) ==
  /\ pc[c] \in {"launching", "contexting", "opening"}
  /\ pc[c] = "opening" => handle[c] \in liveContexts
  /\ FailAndCleanUp(c)
  /\ UNCHANGED <<liveBrowsers, liveContexts, reached, overlapped>>

(* launch, newContext, newPage or page.route rejects. *)
SetupFails(c) ==
  /\ pc[c] \in {"launching", "contexting", "opening"}
  /\ FailAndCleanUp(c)
  /\ UNCHANGED <<liveBrowsers, liveContexts, reached, overlapped>>

PageOpened(c) ==
  /\ pc[c] = "opening"
  /\ handle[c] \in liveContexts
  /\ pc' = [pc EXCEPT ![c] = "working"]
  /\ UNCHANGED <<browser, context, liveBrowsers, liveContexts, closeAsked, handle,
                 reached, report, overlapped>>

(* The task of a lookup returns or throws; what it read is left out. *)
LookupTask(c) ==
  /\ c \in Lookup
  /\ UNCHANGED <<reached, report>>

(* The task of Eastleigh's check throws when the navigation fails or the   *)
(* page cannot be read.                                                    *)
EastleighTask(c) ==
  /\ c \in Eastleigh
  /\ \/ /\ handle[c] \in liveContexts
        /\ reached' = reached \cup {c}
        /\ Report(c, {"healthy"})
     \/ /\ reached' \in {reached, reached \cup {c}}
        /\ Report(c, Unhealthy)

(* The task of the other checks returns navResult.success as its data, and *)
(* they look at result.success, which is set whenever a task returns.      *)
HealthTask(c) ==
  /\ c \in Health
  /\ reached' \in {reached, reached \cup {c}}
  /\ Report(c, {"healthy"})

(* The task ends, and executeBrowserTask turns to page.close. *)
TaskEnds(c) ==
  /\ pc[c] = "working"
  /\ pc' = [pc EXCEPT ![c] = "leaving"]
  /\ LookupTask(c) \/ EastleighTask(c) \/ HealthTask(c)
  /\ UNCHANGED <<browser, context, liveBrowsers, liveContexts, closeAsked, handle, overlapped>>

(* Fault: the method returns without cleanup(). *)
LeaveUncleaned(c) ==
  /\ pc[c] = "leaving"
  /\ Goto(c, "done", None)
  /\ UNCHANGED <<browser, context, liveBrowsers, liveContexts, closeAsked, reached,
                 report, overlapped>>

(* page.close resolves, on a dead page too, and the method cleans up. *)
Leave(c) ==
  /\ pc[c] = "leaving"
  /\ Cleanup(c, "closingContext")
  /\ UNCHANGED <<liveBrowsers, liveContexts, reached, report, overlapped>>

(* Fault: the context is closed and the browser is kept. *)
ContextClosedOnly(c) ==
  /\ pc[c] \in ClosingContext
  /\ liveContexts' = liveContexts \ {handle[c]}
  /\ context' = None
  /\ Goto(c, "done", None)
  /\ UNCHANGED <<browser, liveBrowsers, closeAsked, reached, report, overlapped>>

(* context.close resolves: this.context becomes null, whatever it holds by *)
(* now, and cleanup() goes on to this.browser.                             *)
ContextClosed(c) ==
  /\ pc[c] \in ClosingContext
  /\ liveContexts' = liveContexts \ {handle[c]}
  /\ context' = None
  /\ CloseBrowser(c)
  /\ UNCHANGED <<browser, liveBrowsers, closeAsked, reached, report, overlapped>>

(* context.close rejects because the context died with its browser.  The   *)
(* exception leaves the finally block of a lookup; a health check reports  *)
(* an unreachable council, and Eastleigh's cleans up once more.            *)
ContextCloseRejected(c) ==
  /\ pc[c] \in ClosingContext
  /\ handle[c] \notin liveContexts
  /\ Report(c, {"unreachable"})
  /\ \/ /\ c \notin Eastleigh \/ pc[c] = "closingAgain"
        /\ Goto(c, "done", None)
        /\ UNCHANGED <<browser, context, closeAsked>>
     \/ /\ c \in Eastleigh /\ pc[c] = "closingContext"
        /\ Cleanup(c, "closingAgain")
  /\ UNCHANGED <<liveBrowsers, liveContexts, reached, overlapped>>

(* Fault: the browser is gone and its contexts still count as open. *)
BrowserClosedContextsOpen(c) ==
  /\ pc[c] = "closingBrowser"
  /\ liveBrowsers' = liveBrowsers \ {handle[c]}
  /\ browser' = None
  /\ Goto(c, "done", None)
  /\ UNCHANGED <<context, liveContexts, closeAsked, reached, report, overlapped>>

(* browser.close resolves, on a dead browser too. *)
BrowserClosed(c) ==
  /\ pc[c] = "closingBrowser"
  /\ liveBrowsers' = liveBrowsers \ {handle[c]}
  /\ liveContexts' = liveContexts \ {handle[c]}
  /\ browser' = None
  /\ Goto(c, "done", None)
  /\ UNCHANGED <<context, closeAsked, reached, report, overlapped>>

(* External: a browser process dies. *)
Crash(b) ==
  /\ b \in liveBrowsers
  /\ liveBrowsers' = liveBrowsers \ {b}
  /\ liveContexts' = liveContexts \ {b}
  /\ UNCHANGED <<pc, browser, context, closeAsked, handle, reached, report, overlapped>>

-----------------------------------------------------------------------------
Step(c) ==
  \/ Launched(c) \/ ContextCreated(c) \/ SetupFails(c) \/ PageOpened(c)
  \/ TaskEnds(c) \/ Leave(c)
  \/ ContextClosed(c) \/ ContextCloseRejected(c) \/ BrowserClosed(c)

Next ==
  \/ \E c \in Call : Refuse(c) \/ Enter(c) \/ Step(c)
  \/ \E b \in liveBrowsers : Crash(b)

Spec == Init /\ [][Next]_vars

(* Every Playwright operation the code awaits has a timeout of its own or  *)
(* is answered by the death of the browser.                                *)
FairSpec == Spec /\ \A c \in Call : WF_vars(Step(c))

-----------------------------------------------------------------------------
Done(c) == pc[c] = "done"

(* "Fresh browser context per request" holds of a call nobody overlapped:  *)
(* its page is in a context it opened itself, whatever crashed before it   *)
(* and however earlier calls ended.                                        *)
LoneCallIsFresh ==
  \A c \in Call \ overlapped : pc[c] = "working" => handle[c] = c

(* A call nobody overlapped leaves no browser process behind. *)
LoneCallLeavesNothing ==
  \A c \in Call \ overlapped : Done(c) => c \notin liveBrowsers

(* A call nobody overlapped is on its own, whatever went before it. *)
LoneCallIsIsolated == LoneCallIsFresh /\ LoneCallLeavesNothing

(* When no call is in progress the adapter holds no live object: what it   *)
(* may still hold is a dead one, left by a cleanup() that was rejected.    *)
IdleHoldsNothingLive ==
  Active = {} => browser \notin liveBrowsers /\ context \notin liveContexts

(* And it is never wedged: the next cleanup() will not be rejected over a  *)
(* leftover context, and there is no leftover browser without a context,   *)
(* which no call could use and none would replace.                         *)
NeverWedged ==
  Active = {} => IF context = None THEN browser = None ELSE context \in closeAsked

(* Every call comes to an end: the adapter is at rest again and again.     *)
EveryCallReturns == []<>(Active = {})

-----------------------------------------------------------------------------
(* Claims of documents that the code does not keep. *)

(* "upstreamReachable: upstream endpoint reachability": a check that says  *)
(* HEALTHY (DEGRADED at Havant), and with it upstreamReachable, has loaded *)
(* the council's page.                                                     *)
HealthyMeansReached ==
  \A c \in Check : Done(c) /\ report[c] = "healthy" => c \in reached
-----------------------------------------------------------------------------
(* The strengthening that makes the safety properties inductive.           *)

(* While a context is held and nobody asked to close it, the call that     *)
(* opened it has its cleanup() still ahead.                                *)
HeldContextHasOwner ==
  context # None /\ context \notin closeAsked =>
    pc[context] \in {"opening", "working", "leaving"}

(* A browser runs only after it was launched; a context is held, open or   *)
(* asked to close only after it was opened.                                *)
OpenedInOrder ==
  \A c \in Call :
    /\ c \in liveBrowsers => pc[c] \notin {"idle", "launching"}
    /\ c \in closeAsked \cup liveContexts \/ c = context
       => pc[c] \notin {"idle", "launching", "contexting"}

(* Every context.close that waits has a context of its own. *)
ClosersDistinct ==
  /\ \A c \in Call : pc[c] \in ClosingContext => handle[c] \in closeAsked
  /\ \A c, d \in Call : pc[c] \in ClosingContext /\ pc[d] \in ClosingContext /\ c # d
                        => handle[c] # handle[d]

(* A held context, and one its own call is closing, dies with its browser. *)
ContextDiesWithBrowser ==
  \A c \in liveBrowsers :
    c = context \/ (pc[c] \in ClosingContext /\ handle[c] = c) => c \in liveContexts

(* With a browser and no context, somebody will still look at this.browser. *)
BareBrowserHasCleaner ==
  context = None /\ browser # None =>
    \E c \in Call : pc[c] \in Early \cup {"closingBrowser"}

(* A live browser that is held will be closed: by the call that launched   *)
(* it, by a call that closes whatever browser is held, or by a call whose  *)
(* context another one asked to close -- such a call finds a context that  *)
(* is null or asked for, or passes the duty on to the owner of the next.   *)
LiveBrowserHasCloser ==
  browser \in liveBrowsers =>
    \/ pc[browser] \in Early
    \/ pc[browser] \in ClosingContext /\ handle[browser] = browser
    \/ \E c \in Call : pc[c] = "closingBrowser"
    \/ \E c \in Call : pc[c] \in Early /\ c \in closeAsked

(* A live context that is held and asked to close is being closed. *)
AskedIsClosing ==
  context \in closeAsked \cap liveContexts =>
    \E c \in Call : pc[c] \in ClosingContext /\ handle[c] = context

(* What a call nobody overlapped finds and holds. *)
LoneCall ==
  \A c \in Active \ overlapped :
    /\ Active = {c}
    /\ pc[c] \in {"launching", "contexting"} => context = None
    /\ pc[c] = "opening" => handle[c] = c \/ handle[c] \notin liveContexts
    /\ pc[c] = "working" => handle[c] = c
    /\ c \in liveBrowsers =>
         /\ browser = c
         /\ context \in {None, c}
         /\ pc[c] \in ClosingContext \cup {"closingBrowser"} => handle[c] = c

IInv ==
  /\ TypeOK /\ HeldContextHasOwner /\ OpenedInOrder /\ ClosersDistinct
  /\ ContextDiesWithBrowser /\ BareBrowserHasCleaner /\ LiveBrowserHasCloser
  /\ AskedIsClosing /\ LoneCall /\ LoneCallLeavesNothing
=============================================================================
