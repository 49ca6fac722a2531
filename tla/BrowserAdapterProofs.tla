------------------------- MODULE BrowserAdapterProofs -------------------------
(***************************************************************************)
(* Proofs about BrowserAdapter, for every set of calls: the objects one    *)
(* adapter holds, and what a call nobody overlapped may rely on.           *)
(***************************************************************************)
EXTENDS BrowserAdapter, TLAPS

(* A refused call touches none of the objects. *)
LEMMA RefusePreserves ==
  ASSUME IInv, NEW c \in Call, Refuse(c)
  PROVE  IInv'
<1> USE AdapterAssumption DEF IInv, TypeOK, Early, ClosingContext, Running, Check
<1> USE DEF Refuse
<1>1. TypeOK'
  OBVIOUS
<1>2. HeldContextHasOwner'
  BY <1>1 DEF HeldContextHasOwner
<1>3. OpenedInOrder'
  BY <1>1 DEF OpenedInOrder
<1>4. ClosersDistinct'
  BY <1>1 DEF ClosersDistinct
<1>5. ContextDiesWithBrowser'
  BY <1>1 DEF ContextDiesWithBrowser
<1>6. BareBrowserHasCleaner'
  BY <1>1 DEF BareBrowserHasCleaner
<1>7. LiveBrowserHasCloser'
  BY <1>1 DEF LiveBrowserHasCloser
<1>8. AskedIsClosing'
  BY <1>1 DEF AskedIsClosing
<1>9. LoneCall'
  BY <1>1 DEF Active, LoneCall
<1>10. LoneCallLeavesNothing'
  BY <1>1 DEF OpenedInOrder, LoneCallLeavesNothing, Done
<1> QED
  BY <1>1, <1>2, <1>3, <1>4, <1>5, <1>6, <1>7, <1>8, <1>9, <1>10 DEF IInv

(* A check says one of the verdicts it was given. *)
LEMMA ReportType ==
  ASSUME NEW c \in Call, NEW verdicts \in SUBSET Verdict, Report(c, verdicts),
         report \in [Check -> {"none"} \cup Verdict]
  PROVE  report' \in [Check -> {"none"} \cup Verdict]
<1>1. CASE c \in Check
  <2>1. PICK v \in verdicts : report' = [report EXCEPT ![c] = v]
    BY <1>1 DEF Report
  <2> QED
    BY <2>1
<1>2. CASE c \notin Check
  BY <1>2 DEF Report
<1> QED
  BY <1>1, <1>2

(* What a report may be. *)
LEMMA ReportsAreVerdicts ==
  Unhealthy \in SUBSET Verdict /\ {"healthy"} \in SUBSET Verdict
      /\ {"unreachable"} \in SUBSET Verdict
BY DEF Unhealthy, Verdict

(* A call that starts alone finds the context null or dead: a live one has
   an owner (HeldContextHasOwner) or a closer (AskedIsClosing) in progress. *)
LEMMA EnterPreserves ==
  ASSUME IInv, NEW c \in Call, Enter(c)
  PROVE  IInv'
<1> USE AdapterAssumption DEF IInv, TypeOK, Early, ClosingContext, Running
<1> USE DEF Enter, FailAndCleanUp, Cleanup, CloseBrowser, Goto
<1>1. TypeOK'
  <2>1. report' \in [Check -> {"none"} \cup Verdict]
    BY ReportType, ReportsAreVerdicts
  <2> QED
    BY <2>1 DEF Active
<1>2. HeldContextHasOwner'
  BY <1>1 DEF HeldContextHasOwner
<1>3. OpenedInOrder'
  BY <1>1 DEF OpenedInOrder
<1>4. ClosersDistinct'
  BY <1>1 DEF ClosersDistinct
<1>5. ContextDiesWithBrowser'
  BY <1>1 DEF ContextDiesWithBrowser
<1>6. BareBrowserHasCleaner'
  BY <1>1 DEF BareBrowserHasCleaner
<1>7. LiveBrowserHasCloser'
  BY <1>1 DEF LiveBrowserHasCloser
<1>8. AskedIsClosing'
  BY <1>1 DEF AskedIsClosing
<1>9. LoneCall'
  BY <1>1 DEF LoneCall, Active, HeldContextHasOwner, AskedIsClosing, OpenedInOrder
<1>10. LoneCallLeavesNothing'
  BY <1>1 DEF LoneCall, Active, Done, LoneCallLeavesNothing
<1> QED
  BY <1>1, <1>2, <1>3, <1>4, <1>5, <1>6, <1>7, <1>8, <1>9, <1>10 DEF IInv

(* The call that launched the browser is itself the closer of it. *)
LEMMA LaunchedPreserves ==
  ASSUME IInv, NEW c \in Call, Launched(c)
  PROVE  IInv'
<1> USE AdapterAssumption DEF IInv, TypeOK, Early, ClosingContext, Running, Check
<1> USE DEF Launched, Goto
<1>1. TypeOK'
  OBVIOUS
<1>2. HeldContextHasOwner'
  BY <1>1 DEF HeldContextHasOwner
<1>3. OpenedInOrder'
  BY <1>1 DEF OpenedInOrder
<1>4. ClosersDistinct'
  BY <1>1 DEF ClosersDistinct
<1>5. ContextDiesWithBrowser'
  BY <1>1 DEF ContextDiesWithBrowser, OpenedInOrder
<1>6. BareBrowserHasCleaner'
  BY <1>1 DEF BareBrowserHasCleaner
<1>7. LiveBrowserHasCloser'
  BY <1>1 DEF LiveBrowserHasCloser
<1>8. AskedIsClosing'
  BY <1>1 DEF AskedIsClosing
<1>9. LoneCall'
  BY <1>1 DEF LoneCall, Active, OpenedInOrder
<1>10. LoneCallLeavesNothing'
  BY <1>1 DEF LoneCall, Active, Done, LoneCallLeavesNothing
<1> QED
  BY <1>1, <1>2, <1>3, <1>4, <1>5, <1>6, <1>7, <1>8, <1>9, <1>10 DEF IInv

(* The call that opened the context is itself the owner of it. *)
LEMMA ContextCreatedPreserves ==
  ASSUME IInv, NEW c \in Call, ContextCreated(c)
  PROVE  IInv'
<1> USE AdapterAssumption DEF IInv, TypeOK, Early, ClosingContext, Running, Check
<1> USE DEF ContextCreated, Goto
<1>1. TypeOK'
  OBVIOUS
<1>2. HeldContextHasOwner'
  BY <1>1 DEF HeldContextHasOwner
<1>3. OpenedInOrder'
  BY <1>1 DEF OpenedInOrder
<1>4. ClosersDistinct'
  BY <1>1 DEF ClosersDistinct
<1>5. ContextDiesWithBrowser'
  BY <1>1 DEF ContextDiesWithBrowser
<1>6. BareBrowserHasCleaner'
  BY <1>1 DEF BareBrowserHasCleaner
<1>7. LiveBrowserHasCloser'
  BY <1>1 DEF LiveBrowserHasCloser
<1>8. AskedIsClosing'
  BY <1>1 DEF AskedIsClosing, OpenedInOrder
<1>9. LoneCall'
  BY <1>1 DEF Active, LoneCall
<1>10. LoneCallLeavesNothing'
  BY <1>1 DEF LoneCall, Active, Done, LoneCallLeavesNothing
<1> QED
  BY <1>1, <1>2, <1>3, <1>4, <1>5, <1>6, <1>7, <1>8, <1>9, <1>10 DEF IInv

(* As in Leave: the call turns to cleanup() here. *)
LEMMA SetupFailsPreserves ==
  ASSUME IInv, NEW c \in Call, SetupFails(c)
  PROVE  IInv'
<1> USE AdapterAssumption DEF IInv, TypeOK, Early, ClosingContext, Running
<1> USE DEF SetupFails, FailAndCleanUp, Cleanup, CloseBrowser, Goto
<1>1. TypeOK'
  <2>1. report' \in [Check -> {"none"} \cup Verdict]
    BY ReportType, ReportsAreVerdicts
  <2> QED
    BY <2>1
<1>2. HeldContextHasOwner'
  BY <1>1 DEF HeldContextHasOwner
<1>3. OpenedInOrder'
  BY <1>1 DEF OpenedInOrder
<1>4. ClosersDistinct'
  BY <1>1 DEF ClosersDistinct
<1>5. ContextDiesWithBrowser'
  BY <1>1 DEF ContextDiesWithBrowser
<1>6. BareBrowserHasCleaner'
  BY <1>1 DEF BareBrowserHasCleaner
<1>7. LiveBrowserHasCloser'
  BY <1>1 DEF LiveBrowserHasCloser, HeldContextHasOwner, OpenedInOrder, ClosersDistinct,
      ContextDiesWithBrowser
<1>8. AskedIsClosing'
  BY <1>1 DEF AskedIsClosing
<1>9. LoneCall'
  BY <1>1 DEF Active, LoneCall
<1>10. LoneCallLeavesNothing'
  BY <1>1 DEF LoneCall, Active, Done, LoneCallLeavesNothing
<1> QED
  BY <1>1, <1>2, <1>3, <1>4, <1>5, <1>6, <1>7, <1>8, <1>9, <1>10 DEF IInv

(* Only the place of the call changes; it stays before its cleanup(). *)
LEMMA PageOpenedPreserves ==
  ASSUME IInv, NEW c \in Call, PageOpened(c)
  PROVE  IInv'
<1> USE AdapterAssumption DEF IInv, TypeOK, Early, ClosingContext, Running, Check
<1> USE DEF PageOpened
<1>1. TypeOK'
  OBVIOUS
<1>2. HeldContextHasOwner'
  BY <1>1 DEF HeldContextHasOwner
<1>3. OpenedInOrder'
  BY <1>1 DEF OpenedInOrder
<1>4. ClosersDistinct'
  BY <1>1 DEF ClosersDistinct
<1>5. ContextDiesWithBrowser'
  BY <1>1 DEF ContextDiesWithBrowser
<1>6. BareBrowserHasCleaner'
  BY <1>1 DEF BareBrowserHasCleaner
<1>7. LiveBrowserHasCloser'
  BY <1>1 DEF LiveBrowserHasCloser
<1>8. AskedIsClosing'
  BY <1>1 DEF AskedIsClosing
<1>9. LoneCall'
  BY <1>1 DEF Active, LoneCall
<1>10. LoneCallLeavesNothing'
  BY <1>1 DEF LoneCall, Active, Done, LoneCallLeavesNothing
<1> QED
  BY <1>1, <1>2, <1>3, <1>4, <1>5, <1>6, <1>7, <1>8, <1>9, <1>10 DEF IInv

(* Only the place of the call changes; it stays before its cleanup(). *)
LEMMA TaskEndsPreserves ==
  ASSUME IInv, NEW c \in Call, TaskEnds(c)
  PROVE  IInv'
<1> USE AdapterAssumption DEF IInv, TypeOK, Early, ClosingContext, Running
<1> USE DEF TaskEnds, LookupTask, EastleighTask, HealthTask
<1>1. TypeOK'
  <2>1. report' \in [Check -> {"none"} \cup Verdict]
    BY ReportType, ReportsAreVerdicts
  <2>2. reached' \in SUBSET Check
    BY DEF Check
  <2> QED
    BY <2>1, <2>2
<1>2. HeldContextHasOwner'
  BY <1>1 DEF HeldContextHasOwner
<1>3. OpenedInOrder'
  BY <1>1 DEF OpenedInOrder
<1>4. ClosersDistinct'
  BY <1>1 DEF ClosersDistinct
<1>5. ContextDiesWithBrowser'
  BY <1>1 DEF ContextDiesWithBrowser
<1>6. BareBrowserHasCleaner'
  BY <1>1 DEF BareBrowserHasCleaner
<1>7. LiveBrowserHasCloser'
  BY <1>1 DEF LiveBrowserHasCloser
<1>8. AskedIsClosing'
  BY <1>1 DEF AskedIsClosing
<1>9. LoneCall'
  BY <1>1 DEF Active, LoneCall
<1>10. LoneCallLeavesNothing'
  BY <1>1 DEF LoneCall, Active, Done, LoneCallLeavesNothing
<1> QED
  BY <1>1, <1>2, <1>3, <1>4, <1>5, <1>6, <1>7, <1>8, <1>9, <1>10 DEF IInv

(* The call leaves Early.  Its cleanup() either goes to closingBrowser, or
   closes a context nobody asked for: its own, or that of a call which is
   still Early (HeldContextHasOwner) and takes over in LiveBrowserHasCloser. *)
LEMMA LeavePreserves ==
  ASSUME IInv, NEW c \in Call, Leave(c)
  PROVE  IInv'
<1> USE AdapterAssumption DEF IInv, TypeOK, Early, ClosingContext, Running, Check
<1> USE DEF Leave, Cleanup, CloseBrowser, Goto
<1>1. TypeOK'
  OBVIOUS
<1>2. HeldContextHasOwner'
  BY <1>1 DEF HeldContextHasOwner
<1>3. OpenedInOrder'
  BY <1>1 DEF OpenedInOrder
<1>4. ClosersDistinct'
  BY <1>1 DEF ClosersDistinct
<1>5. ContextDiesWithBrowser'
  BY <1>1 DEF ContextDiesWithBrowser
<1>6. BareBrowserHasCleaner'
  BY <1>1 DEF BareBrowserHasCleaner
<1>7. LiveBrowserHasCloser'
  BY <1>1 DEF LiveBrowserHasCloser, HeldContextHasOwner, OpenedInOrder, ClosersDistinct,
      ContextDiesWithBrowser
<1>8. AskedIsClosing'
  BY <1>1 DEF AskedIsClosing
<1>9. LoneCall'
  BY <1>1 DEF Active, LoneCall
<1>10. LoneCallLeavesNothing'
  BY <1>1 DEF LoneCall, Active, Done, LoneCallLeavesNothing
<1> QED
  BY <1>1, <1>2, <1>3, <1>4, <1>5, <1>6, <1>7, <1>8, <1>9, <1>10 DEF IInv

(* The context that dies is no longer held, and no other close waits on it
   (ClosersDistinct). *)
LEMMA ContextClosedPreserves ==
  ASSUME IInv, NEW c \in Call, ContextClosed(c)
  PROVE  IInv'
<1> USE AdapterAssumption DEF IInv, TypeOK, Early, ClosingContext, Running, Check
<1> USE DEF ContextClosed, CloseBrowser, Goto
<1>1. TypeOK'
  OBVIOUS
<1>2. HeldContextHasOwner'
  BY <1>1 DEF HeldContextHasOwner
<1>3. OpenedInOrder'
  BY <1>1 DEF OpenedInOrder
<1>4. ClosersDistinct'
  BY <1>1 DEF ClosersDistinct
<1>5. ContextDiesWithBrowser'
  BY <1>1 DEF ContextDiesWithBrowser, ClosersDistinct
<1>6. BareBrowserHasCleaner'
  BY <1>1 DEF BareBrowserHasCleaner
<1>7. LiveBrowserHasCloser'
  BY <1>1 DEF LiveBrowserHasCloser
<1>8. AskedIsClosing'
  BY <1>1 DEF AskedIsClosing
<1>9. LoneCall'
  BY <1>1 DEF Active, LoneCall
<1>10. LoneCallLeavesNothing'
  BY <1>1 DEF LoneCall, Active, Done, LoneCallLeavesNothing
<1> QED
  BY <1>1, <1>2, <1>3, <1>4, <1>5, <1>6, <1>7, <1>8, <1>9, <1>10 DEF IInv

(* A rejected close is of a dead context, so it was not of a context whose
   browser lives (ContextDiesWithBrowser). *)
LEMMA ContextCloseRejectedPreserves ==
  ASSUME IInv, NEW c \in Call, ContextCloseRejected(c)
  PROVE  IInv'
<1> USE AdapterAssumption DEF IInv, TypeOK, Early, ClosingContext, Running
<1> USE DEF ContextCloseRejected, Cleanup, CloseBrowser, Goto
<1>1. TypeOK'
  <2>1. report' \in [Check -> {"none"} \cup Verdict]
    BY ReportType, ReportsAreVerdicts
  <2> QED
    BY <2>1
<1>2. HeldContextHasOwner'
  BY <1>1 DEF HeldContextHasOwner
<1>3. OpenedInOrder'
  BY <1>1 DEF OpenedInOrder
<1>4. ClosersDistinct'
  BY <1>1 DEF ClosersDistinct
<1>5. ContextDiesWithBrowser'
  BY <1>1 DEF ContextDiesWithBrowser
<1>6. BareBrowserHasCleaner'
  BY <1>1 DEF BareBrowserHasCleaner
<1>7. LiveBrowserHasCloser'
  BY <1>1 DEF LiveBrowserHasCloser, HeldContextHasOwner, OpenedInOrder, ClosersDistinct,
      ContextDiesWithBrowser
<1>8. AskedIsClosing'
  BY <1>1 DEF AskedIsClosing
<1>9. LoneCall'
  BY <1>1 DEF Active, LoneCall
<1>10. LoneCallLeavesNothing'
  BY <1>1 DEF LoneCall, LoneCallLeavesNothing, Done, Active, ContextDiesWithBrowser
<1> QED
  BY <1>1, <1>2, <1>3, <1>4, <1>5, <1>6, <1>7, <1>8, <1>9, <1>10 DEF IInv

(* this.browser is null after it, and a browser takes its context along. *)
LEMMA BrowserClosedPreserves ==
  ASSUME IInv, NEW c \in Call, BrowserClosed(c)
  PROVE  IInv'
<1> USE AdapterAssumption DEF IInv, TypeOK, Early, ClosingContext, Running, Check
<1> USE DEF BrowserClosed, Goto
<1>1. TypeOK'
  OBVIOUS
<1>2. HeldContextHasOwner'
  BY <1>1 DEF HeldContextHasOwner
<1>3. OpenedInOrder'
  BY <1>1 DEF OpenedInOrder
<1>4. ClosersDistinct'
  BY <1>1 DEF ClosersDistinct
<1>5. ContextDiesWithBrowser'
  BY <1>1 DEF ContextDiesWithBrowser
<1>6. BareBrowserHasCleaner'
  BY <1>1 DEF BareBrowserHasCleaner
<1>7. LiveBrowserHasCloser'
  BY <1>1 DEF LiveBrowserHasCloser
<1>8. AskedIsClosing'
  BY <1>1 DEF AskedIsClosing
<1>9. LoneCall'
  BY <1>1 DEF Active, LoneCall
<1>10. LoneCallLeavesNothing'
  BY <1>1 DEF LoneCall, Active, Done, LoneCallLeavesNothing
<1> QED
  BY <1>1, <1>2, <1>3, <1>4, <1>5, <1>6, <1>7, <1>8, <1>9, <1>10 DEF IInv

(* A browser takes its context along. *)
LEMMA CrashPreserves ==
  ASSUME IInv, NEW b \in liveBrowsers, Crash(b)
  PROVE  IInv'
<1> USE AdapterAssumption DEF IInv, TypeOK, Early, ClosingContext, Running, Check
<1> USE DEF Crash
<1>1. TypeOK'
  OBVIOUS
<1>2. HeldContextHasOwner'
  BY <1>1 DEF HeldContextHasOwner
<1>3. OpenedInOrder'
  BY <1>1 DEF OpenedInOrder
<1>4. ClosersDistinct'
  BY <1>1 DEF ClosersDistinct
<1>5. ContextDiesWithBrowser'
  BY <1>1 DEF ContextDiesWithBrowser
<1>6. BareBrowserHasCleaner'
  BY <1>1 DEF BareBrowserHasCleaner
<1>7. LiveBrowserHasCloser'
  BY <1>1 DEF LiveBrowserHasCloser
<1>8. AskedIsClosing'
  BY <1>1 DEF AskedIsClosing
<1>9. LoneCall'
  BY <1>1 DEF Active, LoneCall
<1>10. LoneCallLeavesNothing'
  BY <1>1 DEF LoneCall, Active, Done, LoneCallLeavesNothing
<1> QED
  BY <1>1, <1>2, <1>3, <1>4, <1>5, <1>6, <1>7, <1>8, <1>9, <1>10 DEF IInv

-----------------------------------------------------------------------------
LEMMA Stuttering ==
  ASSUME IInv, UNCHANGED vars
  PROVE  IInv'
<1> QED
  BY DEF IInv, vars, TypeOK, HeldContextHasOwner, OpenedInOrder, ClosersDistinct,
         ContextDiesWithBrowser, BareBrowserHasCleaner, LiveBrowserHasCloser,
         AskedIsClosing, LoneCall, LoneCallLeavesNothing, Active, Done

(* The initial state has no call, no browser and no context. *)
LEMMA InitHolds == Init => IInv
<1> QED
  BY AdapterAssumption
  DEF Init, IInv, TypeOK, HeldContextHasOwner, OpenedInOrder, ClosersDistinct,
      ContextDiesWithBrowser, BareBrowserHasCleaner, LiveBrowserHasCloser,
      AskedIsClosing, LoneCall, LoneCallLeavesNothing, Active, Done,
      Running, Early, ClosingContext

LEMMA StepPreserves == IInv /\ [Next]_vars => IInv'
<1> SUFFICES ASSUME IInv, [Next]_vars PROVE IInv'
  OBVIOUS
<1>1. ASSUME NEW c \in Call, Refuse(c) \/ Enter(c) PROVE IInv'
  BY <1>1, RefusePreserves, EnterPreserves
<1>2. ASSUME NEW c \in Call, Step(c) PROVE IInv'
  BY <1>2, LaunchedPreserves, ContextCreatedPreserves, SetupFailsPreserves,
     PageOpenedPreserves, TaskEndsPreserves, LeavePreserves, ContextClosedPreserves,
     ContextCloseRejectedPreserves, BrowserClosedPreserves
  DEF Step
<1>3. ASSUME NEW b \in liveBrowsers, Crash(b) PROVE IInv'
  BY <1>3, CrashPreserves
<1>4. CASE UNCHANGED vars
  BY <1>4, Stuttering
<1> QED
  BY <1>1, <1>2, <1>3, <1>4 DEF Next

THEOREM InvariantHolds == Spec => []IInv
<1> QED
  BY InitHolds, StepPreserves, PTL DEF Spec

(* The handles, the objects behind them and the place of every call are    *)
(* well typed (browser-adapter.ts, fields browser and context).            *)
THEOREM BrowserTypeCorrect == Spec => []TypeOK
<1>1. IInv => TypeOK
  BY DEF IInv
<1> QED
  BY <1>1, InvariantHolds, PTL

(* However calls overlap and browsers die, an adapter at rest holds no     *)
(* live browser and no live context (cleanup in browser-adapter.ts).       *)
THEOREM RestHoldsNothingLive == Spec => []IdleHoldsNothingLive
<1>1. IInv => IdleHoldsNothingLive
  <2> SUFFICES ASSUME IInv, Active = {} PROVE browser \notin liveBrowsers
        /\ context \notin liveContexts
    BY DEF IdleHoldsNothingLive
  <2>1. \A c \in Call : pc[c] \notin Running
    BY DEF Active
  <2>2. browser \notin liveBrowsers
    BY <2>1 DEF IInv, LiveBrowserHasCloser, TypeOK, Running
  <2>3. context \notin liveContexts
    BY <2>1, AdapterAssumption
    DEF IInv, HeldContextHasOwner, AskedIsClosing, TypeOK, Running, Early
  <2> QED
    BY <2>2, <2>3
<1> QED
  BY <1>1, InvariantHolds, PTL

(* An adapter at rest is never wedged: what a rejected cleanup() left does *)
(* not make the next one fail, and no browser is left without a context.   *)
THEOREM RestIsNotWedged == Spec => []NeverWedged
<1>1. IInv => NeverWedged
  <2> SUFFICES ASSUME IInv, Active = {}
               PROVE IF context = None THEN browser = None ELSE context \in closeAsked
    BY DEF NeverWedged
  <2>1. \A c \in Call : pc[c] \notin Running
    BY DEF Active
  <2>2. CASE context = None
    BY <2>1, <2>2 DEF IInv, BareBrowserHasCleaner, Running
  <2>3. CASE context # None
    BY <2>1, <2>3 DEF IInv, HeldContextHasOwner, TypeOK, Running, Early
  <2> QED
    BY <2>2, <2>3
<1> QED
  BY <1>1, InvariantHolds, PTL

(* A call nobody overlapped works in a context it opened itself            *)
(* (createPage), and leaves no browser process behind (cleanup).           *)
THEOREM LoneCallsAreIsolated == Spec => []LoneCallIsIsolated
<1>1. IInv => LoneCallIsIsolated
  BY DEF IInv, LoneCall, LoneCallIsIsolated, LoneCallIsFresh, Active, Running, Early
<1> QED
  BY <1>1, InvariantHolds, PTL
=============================================================================
