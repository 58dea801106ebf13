---------------------------- MODULE SessionProofs ----------------------------
(***************************************************************************)
(* Proofs about the turns of an agent, for every value of the constants.   *)
(* Session: type correctness, and the safety invariants the runs           *)
(* SessionTurns and SessionEndings check: first what the waits and the     *)
(* cleanup promise, then, in the second part, what the coordinator does.   *)
(* MapRecall, in the third part: what a recall in these turns tells, and   *)
(* that it finds what every decision of its children leads to.             *)
(***************************************************************************)
EXTENDS Session, MapRecall, SequenceTheorems, FiniteSetTheorems, WellFoundedInduction, TLAPS

USE SessionAssumption DEF SessionAssumption

LEMMA Updated ==
    ASSUME NEW A, NEW B, NEW f \in [A -> B], NEW a \in A, NEW b \in B
    PROVE  [f EXCEPT ![a] = b] \in [A -> B]
  OBVIOUS

LEMMA TypeInit == Init => TypeOK
  BY DEF Init, TypeOK, Waiters, Cleanup, Working, Calls, Ops

LEMMA TypeTurnEnd ==
    ASSUME TypeOK, NEW e \in Events, DropTurnEnd(e) \/ TurnEnd(e) PROVE TypeOK'
<1>1. CASE DropTurnEnd(e)
  BY <1>1 DEF DropTurnEnd, TypeOK, Ops, hostVars, setVars, chainVars, callVars, waitVars, ranks
<1>2. CASE TurnEnd(e)
  <2> DEFINE s == SessionOf[e]
  <2>0. s \in Sessions /\ e \in Ops
    BY DEF Ops
  <2>1. taskSet' \in [Sessions -> {"none", "open", "cancelled"}]
    BY <1>2, <2>0 DEF TurnEnd, TypeOK
  <2>2. tasks' \in [Sessions -> SUBSET (Events \cup Calls)] /\ aborted' \subseteq Ops
    <3>1. tasks[s] \cup {e} \in SUBSET (Events \cup Calls)
      BY <2>0 DEF TypeOK
    <3>2. [tasks EXCEPT ![s] = tasks[s] \cup {e}] \in [Sessions -> SUBSET (Events \cup Calls)]
      BY <3>1, <2>0, Updated DEF TypeOK
    <3>3. tasks' = tasks \/ tasks' = [tasks EXCEPT ![s] = tasks[s] \cup {e}]
      BY <1>2 DEF TurnEnd
    <3>4. aborted' = aborted \/ aborted' = aborted \cup {e}
      BY <1>2 DEF TurnEnd
    <3> QED BY <3>2, <3>3, <3>4, <2>0 DEF TypeOK
  <2>3. /\ handled' \subseteq {Key(f) : f \in Events} /\ pending' \subseteq Events
        /\ immediates' \in Seq(Events)
    BY <1>2 DEF TurnEnd, TypeOK
  <2>4. /\ stage' \in [Ops -> Working \cup {"none", "ignored", "scheduled", "queued", "settled"}]
        /\ count' \in Nat /\ rank' \in [Events -> Nat]
    BY <1>2, <2>0 DEF TurnEnd, TypeOK
  <2> QED BY <1>2, <2>1, <2>2, <2>3, <2>4 DEF TurnEnd, TypeOK, hostVars, chainVars, callVars, waitVars
<1> QED BY <1>1, <1>2

LEMMA TypeSchedules == ASSUME TypeOK, Schedules PROVE TypeOK'
<1>h. ASSUME immediates # <<>>
      PROVE  Head(immediates) \in Events /\ Tail(immediates) \in Seq(Events)
  BY <1>h DEF TypeOK
<1>1. CASE GiveUpScheduled
  BY <1>1, <1>h DEF GiveUpScheduled, Settle, TypeOK, Ops, hostVars, chainVars, callVars, waitVars, ranks
<1>2. CASE RunScheduled
  BY <1>2, <1>h DEF RunScheduled, TypeOK, Ops, Project, hostVars, setVars, callVars, waitVars, ranks
<1> QED BY <1>1, <1>2 DEF Schedules

LEMMA TypeConsolidates ==
    ASSUME TypeOK, NEW e \in Events, Consolidates(e) PROVE TypeOK'
<1>1. CASE Start(e)
  BY <1>1 DEF Start, TypeOK, Ops, Working, hostVars, setVars, chainVars, callVars, waitVars, ranks
<1>2. CASE Publish(e)
  <2>1. world' = [world EXCEPT ![Project(e)] = Append(@, e)] /\ stage' = [stage EXCEPT ![e] = "published"]
    BY <1>2 DEF Publish
  <2>2. UNCHANGED <<hostVars, handled, setVars, pending, immediates, chainVars, aborted, callVars, waitVars, ranks>>
    BY <1>2 DEF Publish
  <2> QED BY <2>1, <2>2 DEF TypeOK, Ops, Working, Project, hostVars, setVars, chainVars, callVars, waitVars, ranks
<1>3. CASE Finish(e)
  BY <1>3 DEF Finish, Settle, LeaveChain, TypeOK, Ops, Working, Project, hostVars, callVars, waitVars, ranks
<1> QED BY <1>1, <1>2, <1>3 DEF Consolidates

LEMMA TypeTool ==
    ASSUME TypeOK, NEW x \in Tools, StartTool(x) \/ AbortTool(x) \/ FinishTool(x) PROVE TypeOK'
<1>0. x \in Ops
  BY DEF Ops
<1>1. /\ stage' \in [Ops -> Working \cup {"none", "ignored", "scheduled", "queued", "settled"}]
      /\ aborted' \subseteq Ops
  BY <1>0 DEF StartTool, AbortTool, FinishTool, TypeOK, Working
<1>2. UNCHANGED <<hostVars, handled, setVars, pending, immediates, chainVars, callVars, world,
                  waitVars, ranks>>
  BY DEF StartTool, AbortTool, FinishTool
<1> QED BY <1>1, <1>2 DEF TypeOK, hostVars, setVars, chainVars, callVars, waitVars, ranks

LEMMA TypeBeginCall == ASSUME TypeOK, NEW x \in Ops, BeginCall(x) PROVE TypeOK'
<1> DEFINE c == <<x, calls[x] + 1>>
<1>1. c \in Calls /\ SessionOf[x] \in Sessions /\ calls[x] + 1 \in 0 .. MaxCalls
  BY DEF TypeOK, BeginCall, Calls, Ops
<1> HIDE DEF c
<1>2. /\ call' \in [Calls -> {"idle", "creating", "running", "releasing", "ended"}]
      /\ child' \in [Calls -> {"none", "pending", "live", "never", "released"}]
  <2>1. /\ call' = [call EXCEPT ![c] = "ended"] \/ call' = [call EXCEPT ![c] = "creating"]
        /\ child' = child \/ child' = [child EXCEPT ![c] = "pending"]
    BY DEF BeginCall, c
  <2>2. /\ call \in [Calls -> {"idle", "creating", "running", "releasing", "ended"}]
        /\ child \in [Calls -> {"none", "pending", "live", "never", "released"}]
    BY DEF TypeOK
  <2> QED BY <2>1, <2>2, <1>1
<1>3. tasks' \in [Sessions -> SUBSET (Events \cup Calls)]
  <2>1. tasks' = tasks \/ tasks' = [tasks EXCEPT ![SessionOf[x]] = @ \cup {c}]
    <3>1. CASE x \in Tools
      <4>1. \E b \in BOOLEAN : tasks' = [tasks EXCEPT ![SessionOf[x]] = IF b THEN @ ELSE @ \cup {c}]
        BY <3>1 DEF BeginCall, c
      <4> QED BY <4>1, <1>1 DEF TypeOK
    <3>2. CASE x \notin Tools
      BY <3>2 DEF BeginCall, setVars
    <3> QED BY <3>1, <3>2
  <2>2. tasks \in [Sessions -> SUBSET (Events \cup Calls)]
    BY DEF TypeOK
  <2>3. tasks[SessionOf[x]] \cup {c} \in SUBSET (Events \cup Calls)
    BY <2>2, <1>1
  <2>4. [tasks EXCEPT ![SessionOf[x]] = tasks[SessionOf[x]] \cup {c}] \in [Sessions -> SUBSET (Events \cup Calls)]
    BY <2>2, <2>3, <1>1, Updated
  <2> QED BY <2>1, <2>2, <2>4
<1>4. taskSet' \in [Sessions -> {"none", "open", "cancelled"}]
  BY <1>1 DEF BeginCall, TypeOK, setVars
<1>5. stage' \in [Ops -> Working \cup {"none", "ignored", "scheduled", "queued", "settled"}]
  BY DEF BeginCall, TypeOK, Working
<1>6. calls' \in [Ops -> 0 .. MaxCalls]
  BY <1>1 DEF BeginCall, TypeOK
<1> QED BY <1>2, <1>3, <1>4, <1>5, <1>6
        DEF BeginCall, TypeOK, hostVars, chainVars, waitVars, ranks

LEMMA TypeCallSteps ==
    ASSUME TypeOK, NEW c \in Calls, HostAnswers(c) \/ CallSteps(c) PROVE TypeOK'
<1> DEFINE x == c[1]
<1>0. x \in Ops /\ SessionOf[x] \in Sessions
  BY DEF Calls, Ops
<1> HIDE DEF x
<1>t. /\ call \in [Calls -> {"idle", "creating", "running", "releasing", "ended"}]
      /\ child \in [Calls -> {"none", "pending", "live", "never", "released"}]
      /\ tasks \in [Sessions -> SUBSET (Events \cup Calls)]
      /\ stage \in [Ops -> Working \cup {"none", "ignored", "scheduled", "queued", "settled"}]
  BY DEF TypeOK
<1>1. CASE HostAnswers(c)
  <2>1. child' \in [Calls -> {"none", "pending", "live", "never", "released"}]
    BY <1>1, <1>t DEF HostAnswers
  <2> QED BY <1>1, <2>1 DEF HostAnswers, TypeOK, hostVars, setVars, chainVars, waitVars, ranks
<1>e. ASSUME NEW next \in {"ready", "failed"}, EndCall(c, next)
      PROVE  /\ call' \in [Calls -> {"idle", "creating", "running", "releasing", "ended"}]
             /\ tasks' \in [Sessions -> SUBSET (Events \cup Calls)]
             /\ stage' \in [Ops -> Working \cup {"none", "ignored", "scheduled", "queued", "settled"}]
  <2>1. call' \in [Calls -> {"idle", "creating", "running", "releasing", "ended"}]
    BY <1>e, <1>t DEF EndCall
  <2>2. tasks[SessionOf[x]] \ {c} \in SUBSET (Events \cup Calls)
    BY <1>0, <1>t
  <2>3. tasks' = [tasks EXCEPT ![SessionOf[x]] = tasks[SessionOf[x]] \ {c}]
    BY <1>e DEF EndCall, x
  <2>4. tasks' \in [Sessions -> SUBSET (Events \cup Calls)]
    BY <2>2, <2>3, <1>0, <1>t, Updated
  <2>5. stage' \in [Ops -> Working \cup {"none", "ignored", "scheduled", "queued", "settled"}]
    BY <1>e, <1>0, <1>t DEF EndCall, Working, x
  <2> QED BY <2>1, <2>4, <2>5
<1>2. CASE GiveUp(c)
  <2>1. EndCall(c, "failed")
    BY <1>2 DEF GiveUp
  <2> QED BY <1>2, <2>1, <1>e DEF GiveUp, TypeOK, hostVars, chainVars, waitVars, ranks
<1>3. CASE Take(c)
  <2>1. call' \in [Calls -> {"idle", "creating", "running", "releasing", "ended"}]
    BY <1>3, <1>t DEF Take
  <2> QED BY <1>3, <2>1 DEF Take, TypeOK, hostVars, setVars, chainVars, waitVars, ranks
<1>4. CASE ReleaseLate(c)
  <2>1. child' \in [Calls -> {"none", "pending", "live", "never", "released"}]
    BY <1>4, <1>t DEF ReleaseLate
  <2> QED BY <1>4, <2>1 DEF ReleaseLate, TypeOK, hostVars, setVars, chainVars, waitVars, ranks
<1>5. CASE ChildEnds(c)
  <2>1. /\ call' \in [Calls -> {"idle", "creating", "running", "releasing", "ended"}]
        /\ child' \in [Calls -> {"none", "pending", "live", "never", "released"}]
    BY <1>5, <1>t DEF ChildEnds
  <2>2. stage' \in [Ops -> Working \cup {"none", "ignored", "scheduled", "queued", "settled"}]
    <3>1. PICK next \in {"answered", "failing"} :
             stage' = [stage EXCEPT ![x] = IF @ = "calling" THEN next ELSE @]
      BY <1>5 DEF ChildEnds, x
    <3> QED BY <3>1, <1>0, <1>t DEF Working
  <2> QED BY <1>5, <2>1, <2>2 DEF ChildEnds, TypeOK, hostVars, setVars, chainVars, waitVars, ranks
<1>6. CASE Return(c)
  <2>1. \E next \in {"ready", "failed"} : EndCall(c, next)
    BY <1>6 DEF Return
  <2> QED BY <1>6, <2>1, <1>e DEF Return, TypeOK, hostVars, chainVars, waitVars, ranks
<1> QED BY <1>1, <1>2, <1>3, <1>4, <1>5, <1>6 DEF CallSteps

LEMMA TypeWaits ==
    ASSUME TypeOK, NEW w \in Waiters, NEW ts \in SUBSET (Events \cup Calls), NEW p, Wait(w, ts, p)
    PROVE  /\ phase' \in [Waiters -> {"idle", "waiting", "tasks", "barrier", "returned"}]
           /\ waits' \in [Waiters -> SUBSET (Events \cup Calls)]
           /\ known' \in [Waiters -> SUBSET Events]
<1>1. {e \in Registered : Project(e) = p} \in SUBSET Events
  BY DEF Registered
<1>2. waits \in [Waiters -> SUBSET (Events \cup Calls)] /\ known \in [Waiters -> SUBSET Events]
  BY DEF TypeOK
<1>3. phase' \in [Waiters -> {"idle", "waiting", "tasks", "barrier", "returned"}]
  BY DEF Wait, TypeOK
<1>4. waits' = [waits EXCEPT ![w] = ts] /\ known' = [known EXCEPT ![w] = {e \in Registered : Project(e) = p}]
  BY DEF Wait
<1>5. waits' \in [Waiters -> SUBSET (Events \cup Calls)]
  BY <1>2, <1>4, Updated
<1>6. known' \in [Waiters -> SUBSET Events]
  BY <1>1, <1>2, <1>4, Updated
<1> QED BY <1>3, <1>5, <1>6

LEMMA TypeHandlers ==
    ASSUME TypeOK, NEW s \in Sessions, NEW kind \in {"flush", "recall"},
           \/ WaitAtBarrier(kind, s) \/ BarrierReturns(kind, s)
           \/ DisposeAgent(s) \/ DisposeReturns(s) \/ CloseSession(s)
    PROVE  TypeOK'
<1>0. <<kind, s>> \in Waiters /\ <<"dispose", s>> \in Waiters
  BY DEF Waiters
<1>1. CASE WaitAtBarrier(kind, s)
  <2>1. Wait(<<kind, s>>, BarrierSnapshot(ScopeOf[s]), ScopeOf[s])
    BY <1>1 DEF WaitAtBarrier
  <2>2. BarrierSnapshot(ScopeOf[s]) \in SUBSET (Events \cup Calls)
    BY DEF BarrierSnapshot, TypeOK
  <2> QED BY <1>0, <1>1, <2>1, <2>2, TypeWaits
          DEF WaitAtBarrier, TypeOK, hostVars, setVars, chainVars, callVars, ranks
<1>2. CASE BarrierReturns(kind, s)
  <2>1. phase' \in [Waiters -> {"idle", "waiting", "tasks", "barrier", "returned"}]
    BY <1>0, <1>2 DEF BarrierReturns, TypeOK
  <2> QED BY <1>2, <2>1 DEF BarrierReturns, TypeOK, hostVars, setVars, chainVars, callVars, ranks
<1>3. CASE DisposeAgent(s)
  <2>1. agents' \in [Sessions -> {"up", "gone"}]
    BY <1>3 DEF DisposeAgent, TypeOK
  <2>2. CASE taskSet[s] = "none"
    BY <1>3, <2>1, <2>2 DEF DisposeAgent, TypeOK, chainVars, callVars, waitVars, ranks
  <2>3. CASE taskSet[s] # "none"
    <3>1. Wait(<<"dispose", s>>, tasks[s], ScopeOf[s])
      BY <1>3, <2>3 DEF DisposeAgent
    <3>2. tasks[s] \in SUBSET (Events \cup Calls)
      BY DEF TypeOK
    <3>3. taskSet' \in [Sessions -> {"none", "open", "cancelled"}] /\ aborted' \subseteq Ops
      BY <1>3, <2>3 DEF DisposeAgent, TypeOK, Ops
    <3> QED BY <1>0, <1>3, <2>1, <3>1, <3>2, <3>3, TypeWaits
            DEF DisposeAgent, TypeOK, chainVars, callVars, ranks
  <2> QED BY <2>2, <2>3
<1>4. CASE DisposeReturns(s)
  <2>1. /\ phase' \in [Waiters -> {"idle", "waiting", "tasks", "barrier", "returned"}]
        /\ taskSet' \in [Sessions -> {"none", "open", "cancelled"}]
    BY <1>0, <1>4 DEF DisposeReturns, TypeOK
  <2>2. tasks' \in [Sessions -> SUBSET (Events \cup Calls)]
    <3>1. tasks' = [tasks EXCEPT ![s] = {}]
      BY <1>4 DEF DisposeReturns
    <3> QED BY <3>1, Updated DEF TypeOK
  <2> QED BY <1>4, <2>1, <2>2 DEF DisposeReturns, TypeOK, hostVars, chainVars, callVars, ranks
<1>5. CASE CloseSession(s)
  BY <1>5 DEF CloseSession, TypeOK, setVars, chainVars, callVars, waitVars, ranks
<1> QED BY <1>1, <1>2, <1>3, <1>4, <1>5

LEMMA TypeCleanup == ASSUME TypeOK, BeginCleanup \/ ContinueCleanup PROVE TypeOK'
<1>0. Cleanup \in Waiters /\ waits \in [Waiters -> SUBSET (Events \cup Calls)]
  BY DEF Waiters, TypeOK
<1>1. CASE BeginCleanup
  <2>1. UNION {tasks[s] : s \in Sessions} \in SUBSET (Events \cup Calls)
    BY DEF TypeOK
  <2>2. waits' = [waits EXCEPT ![Cleanup] = UNION {tasks[s] : s \in Sessions}]
    BY <1>1 DEF BeginCleanup
  <2>3. waits' \in [Waiters -> SUBSET (Events \cup Calls)]
    BY <1>0, <2>1, <2>2, Updated
  <2>4. /\ phase' \in [Waiters -> {"idle", "waiting", "tasks", "barrier", "returned"}]
        /\ aborted' \subseteq Ops
    BY <1>0, <1>1 DEF BeginCleanup, TypeOK, Ops
  <2> QED BY <1>1, <2>3, <2>4 DEF BeginCleanup, TypeOK, hostVars, setVars, chainVars, callVars, ranks
<1>2. CASE ContinueCleanup
  <2>1. phase' \in [Waiters -> {"idle", "waiting", "tasks", "barrier", "returned"}]
    <3>1. \E next \in {"barrier", "returned"} : phase' = [phase EXCEPT ![Cleanup] = next]
      BY <1>2 DEF ContinueCleanup
    <3> QED BY <3>1, <1>0, Updated DEF TypeOK
  <2>2. pending \in SUBSET (Events \cup Calls)
    BY DEF TypeOK
  <2>3. waits' = waits \/ waits' = [waits EXCEPT ![Cleanup] = pending]
    BY <1>2 DEF ContinueCleanup
  <2>4. waits' \in [Waiters -> SUBSET (Events \cup Calls)]
    BY <1>0, <2>2, <2>3, Updated
  <2> QED BY <1>2, <2>1, <2>4 DEF ContinueCleanup, TypeOK, hostVars, setVars, chainVars, callVars, ranks
<1> QED BY <1>1, <1>2

(* Every variable keeps its type.                                          *)
THEOREM TypeCorrect == Spec => []TypeOK
<1>1. TypeOK /\ [Next]_vars => TypeOK'
  <2> SUFFICES ASSUME TypeOK, [Next]_vars PROVE TypeOK'
    OBVIOUS
  <2>1. CASE UNCHANGED vars
    BY <2>1 DEF TypeOK, vars
  <2>2. CASE HostEvents
    BY <2>2, TypeTurnEnd, TypeTool, TypeCallSteps, TypeHandlers, TypeCleanup DEF HostEvents
  <2>3. CASE Handlers
    BY <2>3, TypeHandlers, TypeCleanup DEF Handlers
  <2> QED BY <2>1, <2>2, <2>3, TypeSchedules, TypeConsolidates, TypeTool, TypeBeginCall,
             TypeCallSteps DEF Next
<1> QED BY <1>1, TypeInit, PTL DEF Spec

-----------------------------------------------------------------------------
(***************************************************************************)
(* What a step does to the consolidations' stages                          *)
(***************************************************************************)

Busy == Working \ {"published"}

(* A step that is not one of the consolidation's own turns of fate leaves  *)
(* an event's stage alone, drops it, or moves it within its model calls.   *)
Shifts(e) ==
    \/ stage'[e] = stage[e]
    \/ stage[e] = "none" /\ stage'[e] = "ignored"
    \/ stage[e] \in Busy /\ stage'[e] \in Busy

(* The steps of the host, the tools and the child calls. *)
HandlerStep ==
    \/ \E s \in Sessions : \/ \E kind \in {"flush", "recall"} :
                                WaitAtBarrier(kind, s) \/ BarrierReturns(kind, s)
                           \/ DisposeAgent(s) \/ DisposeReturns(s) \/ CloseSession(s)
    \/ BeginCleanup \/ ContinueCleanup

CallStep ==
    \/ \E x \in Ops : BeginCall(x)
    \/ \E c \in Calls : HostAnswers(c) \/ CallSteps(c)

ToolStep == \E x \in Tools : StartTool(x) \/ AbortTool(x) \/ FinishTool(x)

Local == HandlerStep \/ CallStep \/ ToolStep \/ \E e \in Events : DropTurnEnd(e)

(* Every step is one of these. *)
LEMMA Steps ==
    ASSUME Next
    PROVE  \/ Local \/ \E e \in Events : TurnEnd(e) \/ Start(e) \/ Publish(e) \/ Finish(e)
           \/ GiveUpScheduled \/ RunScheduled
  BY DEF Next, HostEvents, Schedules, Handlers, Consolidates, Local, HandlerStep, CallStep, ToolStep

LEMMA CallShifts ==
    ASSUME TypeOK, CallStep
    PROVE  /\ UNCHANGED <<pending, immediates, tail, prev, world, count, rank, agents, closed,
                          handled, phase, waits, known>>
           /\ \A e \in Events : Shifts(e)
<1>1. ASSUME NEW x \in Ops, BeginCall(x) PROVE \A e \in Events : Shifts(e)
  <2>1. stage[x] = "ready" /\ \E next \in {"failed", "calling"} : stage' = [stage EXCEPT ![x] = next]
    BY <1>1 DEF BeginCall
  <2> QED BY <2>1 DEF Shifts, TypeOK, Busy, Working
<1>2. ASSUME NEW c \in Calls, NEW next \in {"ready", "failed"}, EndCall(c, next)
      PROVE  \A e \in Events : Shifts(e)
  <2>1. c[1] \in Ops
    BY DEF Calls
  <2> QED BY <1>2, <2>1 DEF EndCall, Shifts, TypeOK, Busy, Working, Ops
<1>3. ASSUME NEW c \in Calls, HostAnswers(c) \/ CallSteps(c) PROVE \A e \in Events : Shifts(e)
  <2>1. CASE UNCHANGED stage
    BY <2>1 DEF Shifts
  <2>2. CASE GiveUp(c) \/ Return(c)
    <3>1. \E next \in {"ready", "failed"} : EndCall(c, next)
      BY <2>2 DEF GiveUp, Return
    <3> QED BY <3>1, <1>2
  <2>3. CASE ChildEnds(c)
    <3>1. c[1] \in Ops
      BY DEF Calls
    <3>2. \E next \in {"answered", "failing"} :
             stage' = [stage EXCEPT ![c[1]] = IF @ = "calling" THEN next ELSE @]
      BY <2>3 DEF ChildEnds
    <3> QED BY <3>1, <3>2 DEF Shifts, TypeOK, Busy, Working, Ops
  <2> QED BY <1>3, <2>1, <2>2, <2>3 DEF HostAnswers, CallSteps, Take, ReleaseLate
<1>4. UNCHANGED <<pending, immediates, tail, prev, world, count, rank, agents, closed, handled,
                  phase, waits, known>>
  BY DEF CallStep, BeginCall, HostAnswers, CallSteps, GiveUp, Take, ReleaseLate, ChildEnds,
         Return, hostVars, chainVars, waitVars, ranks
<1> QED BY <1>1, <1>3, <1>4 DEF CallStep

(* A local step changes nothing of the schedule, the chains, the barrier   *)
(* and the world, and only shifts stages.                                  *)
LEMMA LocalShifts ==
    ASSUME TypeOK, Local
    PROVE  /\ UNCHANGED <<pending, immediates, tail, prev, world, count, rank>>
           /\ \A e \in Events : Shifts(e)
<1>1. CASE HandlerStep
  BY <1>1 DEF HandlerStep, WaitAtBarrier, BarrierReturns, DisposeAgent, DisposeReturns, CloseSession,
         BeginCleanup, ContinueCleanup, chainVars, ranks, Shifts
<1>2. CASE CallStep
  BY <1>2, CallShifts
<1>3. ASSUME NEW x \in Tools, StartTool(x) \/ AbortTool(x) \/ FinishTool(x)
      PROVE  /\ UNCHANGED <<pending, immediates, tail, prev, world, count, rank>>
             /\ \A e \in Events : Shifts(e)
  <2>1. \A e \in Events : e # x
    OBVIOUS
  <2>2. \/ UNCHANGED stage \/ \E next \in {"ready", "settled"} : stage' = [stage EXCEPT ![x] = next]
    BY <1>3 DEF StartTool, AbortTool, FinishTool
  <2>3. \A e \in Events : stage'[e] = stage[e]
    BY <2>1, <2>2 DEF TypeOK, Ops
  <2> QED BY <1>3, <2>3 DEF StartTool, AbortTool, FinishTool, chainVars, ranks, Shifts
<1>4. ASSUME NEW e \in Events, DropTurnEnd(e)
      PROVE  /\ UNCHANGED <<pending, immediates, tail, prev, world, count, rank>>
             /\ \A f \in Events : Shifts(f)
  BY <1>4 DEF DropTurnEnd, chainVars, ranks, Shifts, TypeOK, Ops
<1> QED BY <1>1, <1>2, <1>3, <1>4 DEF Local, ToolStep

-----------------------------------------------------------------------------
(***************************************************************************)
(* The schedule and the barrier's book                                     *)
(***************************************************************************)

(* What is scheduled has the stage for it and is scheduled once; the       *)
(* barrier holds exactly the registered operations that have not settled.  *)
Books ==
    /\ \A i \in DOMAIN immediates : stage[immediates[i]] = "scheduled"
    /\ \A i, j \in DOMAIN immediates : i # j => immediates[i] # immediates[j]
    /\ pending = {e \in Registered : stage[e] # "settled"}

LEMMA HeadTail ==
    ASSUME NEW S, NEW q \in Seq(S), q # <<>>
    PROVE  /\ Head(q) \in S /\ Head(q) = q[1] /\ 1 \in DOMAIN q
           /\ Tail(q) \in Seq(S)
           /\ \A i \in DOMAIN Tail(q) : i + 1 \in DOMAIN q /\ Tail(q)[i] = q[i + 1] /\ i + 1 # 1
  OBVIOUS

LEMMA BooksKept == ASSUME TypeOK, Books, [Next]_vars PROVE Books'
<1>q. immediates \in Seq(Events) /\ stage \in [Ops -> Working \cup {"none", "ignored", "scheduled", "queued", "settled"}]
  BY DEF TypeOK
<1>1. CASE UNCHANGED vars
  BY <1>1 DEF vars, Books, Registered
<1>2. CASE Local
  <2>1. UNCHANGED <<pending, immediates>> /\ \A e \in Events : Shifts(e)
    BY <1>2, LocalShifts
  <2>2. \A i \in DOMAIN immediates : immediates[i] \in Events
    BY <1>q
  <2>3. \A e \in Events : stage[e] = "scheduled" => stage'[e] = "scheduled"
    BY <2>1 DEF Shifts, Busy, Working
  <2>4. \A e \in Events : /\ e \in Registered' <=> e \in Registered
                          /\ stage'[e] = "settled" <=> stage[e] = "settled"
    BY <2>1 DEF Shifts, Busy, Working, Registered
  <2>5. pending' = {e \in Registered' : stage'[e] # "settled"}
    BY <2>1, <2>4 DEF Books, Registered
  <2> QED BY <2>1, <2>2, <2>3, <2>5 DEF Books
<1>3. ASSUME NEW e \in Events, TurnEnd(e) PROVE Books'
  <2>1. /\ stage[e] = "none" /\ stage' = [stage EXCEPT ![e] = "scheduled"] /\ e \in Ops
        /\ immediates' = Append(immediates, e) /\ pending' = pending \cup {e}
    BY <1>3 DEF TurnEnd, Ops
  <2>2. \A i \in DOMAIN immediates : immediates[i] # e
    BY <2>1 DEF Books
  <2>3. \A i \in DOMAIN immediates' : immediates'[i] = e \/ (i \in DOMAIN immediates /\ immediates'[i] = immediates[i])
    BY <2>1, <1>q
  <2>4. \A i, j \in DOMAIN immediates' : i # j => immediates'[i] # immediates'[j]
    <3>1. \A i \in DOMAIN immediates' : immediates'[i] = e => i = Len(immediates) + 1
      BY <2>1, <2>2, <1>q
    <3> QED BY <3>1, <2>3 DEF Books
  <2>5. \A i \in DOMAIN immediates' : stage'[immediates'[i]] = "scheduled"
    BY <2>1, <2>2, <2>3, <1>q DEF Books, Ops
  <2>6. Registered' = Registered \cup {e}
    BY <2>1, <1>q DEF Registered, Ops
  <2>7. pending' = {f \in Registered' : stage'[f] # "settled"}
    BY <2>1, <2>6, <1>q DEF Books, Registered, Ops
  <2> QED BY <2>4, <2>5, <2>7 DEF Books
<1>4. ASSUME NEW e \in Events, Settle(e), e \in Registered,
             \/ immediates # <<>> /\ e = Head(immediates) /\ immediates' = Tail(immediates)
             \/ stage[e] # "scheduled" /\ UNCHANGED immediates
      PROVE  Books'
  <2>1. e \in Ops /\ stage' = [stage EXCEPT ![e] = "settled"] /\ pending' = pending \ {e}
    BY <1>4 DEF Settle, Ops
  <2>2. Registered' = Registered
    BY <1>4, <2>1, <1>q DEF Registered, Ops
  <2>3. pending' = {f \in Registered' : stage'[f] # "settled"}
    BY <2>1, <2>2, <1>q DEF Books, Registered, Ops
  <2>4. /\ \A i \in DOMAIN immediates' : stage'[immediates'[i]] = "scheduled"
        /\ \A i, j \in DOMAIN immediates' : i # j => immediates'[i] # immediates'[j]
    <3>1. CASE immediates # <<>> /\ e = Head(immediates) /\ immediates' = Tail(immediates)
      <4>1. \A i \in DOMAIN immediates' : /\ i + 1 \in DOMAIN immediates /\ immediates'[i] = immediates[i + 1]
                                          /\ immediates'[i] # e
        BY <3>1, <1>q, HeadTail DEF Books
      <4>2. \A i \in DOMAIN immediates' : i \in Nat
        BY <3>1, <1>q
      <4> QED BY <4>1, <4>2, <2>1, <1>q DEF Books, Ops
    <3>2. CASE stage[e] # "scheduled" /\ UNCHANGED immediates
      BY <3>2, <2>1, <1>q DEF Books, Ops
    <3> QED BY <1>4, <3>1, <3>2
  <2> QED BY <2>3, <2>4 DEF Books
<1>5. CASE GiveUpScheduled
  <2>1. immediates # <<>> /\ Settle(Head(immediates)) /\ immediates' = Tail(immediates)
    BY <1>5 DEF GiveUpScheduled
  <2>2. Head(immediates) \in Events /\ stage[Head(immediates)] = "scheduled"
    BY <2>1, <1>q, HeadTail DEF Books
  <2>3. Head(immediates) \in Registered
    BY <2>2 DEF Registered
  <2> QED BY <2>1, <2>2, <2>3, <1>4
<1>6. CASE RunScheduled
  <2> DEFINE e == Head(immediates)
  <2>1. /\ immediates # <<>> /\ immediates' = Tail(immediates) /\ UNCHANGED pending
        /\ stage' = [stage EXCEPT ![e] = "queued"]
    BY <1>6 DEF RunScheduled
  <2>2. e \in Events /\ stage[e] = "scheduled" /\ e \in Ops
    BY <2>1, <1>q, HeadTail DEF Books, Ops
  <2>3. \A i \in DOMAIN immediates' : /\ i + 1 \in DOMAIN immediates /\ immediates'[i] = immediates[i + 1]
                                      /\ immediates'[i] # e /\ i \in Nat
    BY <2>1, <1>q, HeadTail DEF Books
  <2>4. Registered' = Registered
    BY <2>1, <2>2, <1>q DEF Registered, Ops
  <2>5. pending' = {f \in Registered' : stage'[f] # "settled"}
    BY <2>1, <2>2, <2>4, <1>q DEF Books, Registered, Ops
  <2> HIDE DEF e
  <2>6. \A i \in DOMAIN immediates' : stage'[immediates'[i]] = "scheduled"
    BY <2>1, <2>2, <2>3, <1>q DEF Books, Ops
  <2>7. \A i, j \in DOMAIN immediates' : i # j => immediates'[i] # immediates'[j]
    BY <2>3 DEF Books
  <2> QED BY <2>5, <2>6, <2>7 DEF Books
<1>7. ASSUME NEW e \in Events, Start(e) \/ Publish(e) PROVE Books'
  <2>1. /\ stage[e] \in {"queued", "ready"} /\ UNCHANGED <<pending, immediates>> /\ e \in Ops
        /\ \E next \in {"ready", "published"} : stage' = [stage EXCEPT ![e] = next]
    BY <1>7 DEF Start, Publish, Ops
  <2>2. \A f \in Events : /\ f \in Registered' <=> f \in Registered
                          /\ stage'[f] = "settled" <=> stage[f] = "settled"
                          /\ stage'[f] = "scheduled" <=> stage[f] = "scheduled"
    BY <2>1, <1>q DEF Registered, Ops
  <2>3. pending' = {f \in Registered' : stage'[f] # "settled"}
    BY <2>1, <2>2 DEF Books, Registered
  <2> QED BY <2>1, <2>2, <2>3, <1>q DEF Books
<1>8. ASSUME NEW e \in Events, Finish(e) PROVE Books'
  <2>1. Settle(e) /\ e \in Registered /\ stage[e] # "scheduled" /\ UNCHANGED immediates
    BY <1>8 DEF Finish, Registered
  <2> QED BY <2>1, <1>4
<1> QED BY <1>1, <1>2, <1>3, <1>5, <1>6, <1>7, <1>8, Steps

-----------------------------------------------------------------------------
(***************************************************************************)
(* What waits covers                                                       *)
(***************************************************************************)

(* What has settled stays settled, and only the end of a turn, before the  *)
(* cleanup, gives the barrier something new.                               *)
LEMMA SettledStays ==
    ASSUME TypeOK, Books, [Next]_vars
    PROVE  /\ \A e \in Events : stage[e] = "settled" => stage'[e] = "settled"
           /\ pending' \subseteq pending \/ \E e \in Events : TurnEnd(e)
<1>q. immediates \in Seq(Events) /\ stage \in [Ops -> Working \cup {"none", "ignored", "scheduled", "queued", "settled"}]
  BY DEF TypeOK
<1>0. Events \subseteq Ops
  BY DEF Ops
<1>1. CASE UNCHANGED vars
  BY <1>1 DEF vars
<1>2. CASE Local
  BY <1>2, LocalShifts DEF Shifts, Busy, Working
<1>3. ASSUME NEW e \in Events, TurnEnd(e) \/ Start(e) \/ Publish(e) \/ Finish(e)
      PROVE  /\ \A f \in Events : stage[f] = "settled" => stage'[f] = "settled"
             /\ pending' \subseteq pending \/ \E f \in Events : TurnEnd(f)
  <2>1. \E next \in {"scheduled", "ready", "published", "settled"} :
            /\ stage' = [stage EXCEPT ![e] = next]
            /\ next # "settled" => stage[e] # "settled"
    BY <1>3 DEF TurnEnd, Start, Publish, Finish, Settle
  <2>2. pending' \subseteq pending \/ TurnEnd(e)
    BY <1>3 DEF Start, Publish, Finish, Settle
  <2> QED BY <2>1, <2>2, <1>q, <1>0
<1>4. CASE GiveUpScheduled
  BY <1>4, <1>q, <1>0 DEF GiveUpScheduled, Settle
<1>5. CASE RunScheduled
  <2>1. /\ Head(immediates) \in Events /\ stage[Head(immediates)] = "scheduled"
        /\ stage' = [stage EXCEPT ![Head(immediates)] = "queued"] /\ UNCHANGED pending
    BY <1>5, <1>q, HeadTail DEF RunScheduled, Books
  <2> QED BY <2>1, <1>q, <1>0
<1> QED BY <1>1, <1>2, <1>3, <1>4, <1>5, Steps

(* What the return of a handler answers for. *)
Due(w) == IF w[1] = "dispose" THEN {e \in known[w] : SessionOf[e] = w[2]} ELSE known[w]

(* While a handler waits, what it answers for has settled or is waited     *)
(* for; when it has returned, it has settled.                              *)
Covered(w) ==
    /\ phase[w] = "waiting" => \A e \in Due(w) : stage[e] = "settled" \/ e \in waits[w]
    /\ phase[w] = "returned" => \A e \in Due(w) : stage[e] = "settled"

(* As long as a parent's agent is up its task set is not cancelled and     *)
(* tracks every consolidation of the parent that has not settled; the      *)
(* disposal begins once.                                                   *)
Tracked(s) ==
    /\ agents[s] = "up" => /\ taskSet[s] # "cancelled"
                           /\ \A e \in pending : SessionOf[e] = s => e \in tasks[s]
    /\ phase[<<"dispose", s>>] # "idle" => agents[s] = "gone"

(* The cleanup waits for everything the barrier holds, and nothing is      *)
(* added after it began.                                                   *)
Emptied ==
    /\ phase[Cleanup] = "barrier" => pending \subseteq waits[Cleanup]
    /\ phase[Cleanup] = "returned" => pending = {}

WInv ==
    /\ TypeOK /\ Books
    /\ \A w \in Waiters \ {Cleanup} : Covered(w)
    /\ \A s \in Sessions : Tracked(s)
    /\ Emptied

(* The steps in which no handler begins or ends its wait. *)
LEMMA WaitsElsewhere ==
    ASSUME Next
    PROVE  HandlerStep \/ UNCHANGED <<phase, waits, known>>
<1>1. CASE Local
  BY <1>1 DEF Local, CallStep, ToolStep, BeginCall, HostAnswers, CallSteps, GiveUp, Take,
         ReleaseLate, ChildEnds, Return, StartTool, AbortTool, FinishTool, DropTurnEnd, waitVars
<1>2. ASSUME NEW e \in Events, TurnEnd(e) \/ Start(e) \/ Publish(e) \/ Finish(e)
      PROVE  UNCHANGED <<phase, waits, known>>
  BY <1>2 DEF TurnEnd, Start, Publish, Finish, waitVars
<1>3. ASSUME GiveUpScheduled \/ RunScheduled PROVE UNCHANGED <<phase, waits, known>>
  BY <1>3 DEF GiveUpScheduled, RunScheduled, waitVars
<1> QED BY <1>1, <1>2, <1>3, Steps

LEMMA CoveredStays ==
    ASSUME TypeOK, Books, [Next]_vars, NEW w \in Waiters, Covered(w),
           phase'[w] = phase[w], waits'[w] = waits[w], known'[w] = known[w]
    PROVE  Covered(w)'
<1>1. known[w] \subseteq Events
  BY DEF TypeOK
<1>2. Due(w)' = Due(w) /\ Due(w) \subseteq Events
  BY <1>1 DEF Due
<1> QED BY <1>2, SettledStays DEF Covered

LEMMA CoveredKept ==
    ASSUME WInv, [Next]_vars, NEW w \in Waiters \ {Cleanup} PROVE Covered(w)'
<1>t. /\ TypeOK /\ Books /\ Covered(w) /\ w \in Waiters
      /\ phase \in [Waiters -> {"idle", "waiting", "tasks", "barrier", "returned"}]
      /\ waits \in [Waiters -> SUBSET (Events \cup Calls)]
      /\ known \in [Waiters -> SUBSET Events] /\ Cleanup \in Waiters
  BY DEF WInv, TypeOK, Waiters
<1>same. ASSUME phase'[w] = phase[w], waits'[w] = waits[w], known'[w] = known[w]
         PROVE  Covered(w)'
  BY <1>same, <1>t, CoveredStays
<1>begins. ASSUME NEW p, NEW ts \in SUBSET (Events \cup Calls), Wait(w, ts, p), UNCHANGED stage,
                  \A e \in pending : (Project(e) = p /\ (w[1] = "dispose" => SessionOf[e] = w[2])) => e \in ts
           PROVE  Covered(w)'
  <2>1. /\ phase'[w] = "waiting" /\ waits'[w] = ts /\ known'[w] = {e \in Registered : Project(e) = p}
    BY <1>begins, <1>t DEF Wait
  <2>2. \A e \in Due(w)' : e \in Registered /\ Project(e) = p /\ (w[1] = "dispose" => SessionOf[e] = w[2])
    BY <2>1 DEF Due
  <2>3. \A e \in Due(w)' : stage'[e] = "settled" \/ e \in ts
    BY <2>2, <1>begins, <1>t DEF Books
  <2> QED BY <2>1, <2>3 DEF Covered
<1>returns. ASSUME phase[w] = "waiting", \A t \in waits[w] : Settled(t), UNCHANGED <<stage, waits, known>>,
                   phase'[w] = "returned"
            PROVE  Covered(w)'
  <2>1. Due(w)' = Due(w) /\ Due(w) \subseteq Events
    BY <1>returns, <1>t DEF Due
  <2>2. \A e \in Due(w) : stage[e] = "settled"
    BY <2>1, <1>returns, <1>t DEF Covered, Settled
  <2> QED BY <2>1, <2>2, <1>returns DEF Covered
<1>1. CASE UNCHANGED vars \/ UNCHANGED <<phase, waits, known>>
  BY <1>1, <1>same DEF vars
<1>2. ASSUME NEW s \in Sessions, NEW kind \in {"flush", "recall"}, WaitAtBarrier(kind, s)
      PROVE  Covered(w)'
  <2>1. Wait(<<kind, s>>, BarrierSnapshot(ScopeOf[s]), ScopeOf[s]) /\ UNCHANGED stage
    BY <1>2 DEF WaitAtBarrier
  <2>2. CASE w = <<kind, s>>
    <3>1. BarrierSnapshot(ScopeOf[s]) \in SUBSET (Events \cup Calls)
      BY <1>t DEF BarrierSnapshot, TypeOK
    <3>2. \A e \in pending : Project(e) = ScopeOf[s] => e \in BarrierSnapshot(ScopeOf[s])
      BY DEF BarrierSnapshot
    <3> QED BY <2>1, <2>2, <3>1, <3>2, <1>begins
  <2>3. CASE w # <<kind, s>>
    BY <2>1, <2>3, <1>t, <1>same DEF Wait
  <2> QED BY <2>2, <2>3
<1>3. ASSUME NEW s \in Sessions, NEW kind \in {"flush", "recall"}, BarrierReturns(kind, s)
      PROVE  Covered(w)'
  <2>1. CASE w = <<kind, s>>
    BY <1>3, <2>1, <1>t, <1>returns DEF BarrierReturns
  <2>2. CASE w # <<kind, s>>
    BY <1>3, <2>2, <1>t, <1>same DEF BarrierReturns
  <2> QED BY <2>1, <2>2
<1>4. ASSUME NEW s \in Sessions, DisposeAgent(s) PROVE Covered(w)'
  <2>1. CASE taskSet[s] = "none"
    BY <1>4, <2>1, <1>same DEF DisposeAgent, waitVars
  <2>2. CASE taskSet[s] # "none"
    <3>1. Wait(<<"dispose", s>>, tasks[s], ScopeOf[s]) /\ agents[s] = "up" /\ UNCHANGED stage
      BY <1>4, <2>2 DEF DisposeAgent
    <3>2. \A e \in pending : SessionOf[e] = s => e \in tasks[s]
      BY <3>1 DEF WInv, Tracked
    <3>3. CASE w = <<"dispose", s>>
      <4>1. tasks[s] \in SUBSET (Events \cup Calls)
        BY <1>t DEF TypeOK
      <4> QED BY <3>1, <3>2, <3>3, <4>1, <1>begins
    <3>4. CASE w # <<"dispose", s>>
      BY <3>1, <3>4, <1>t, <1>same DEF Wait
    <3> QED BY <3>3, <3>4
  <2> QED BY <2>1, <2>2
<1>5. ASSUME NEW s \in Sessions, DisposeReturns(s) PROVE Covered(w)'
  <2>1. CASE w = <<"dispose", s>>
    BY <1>5, <2>1, <1>t, <1>returns DEF DisposeReturns
  <2>2. CASE w # <<"dispose", s>>
    BY <1>5, <2>2, <1>t, <1>same DEF DisposeReturns
  <2> QED BY <2>1, <2>2
<1>6. ASSUME NEW s \in Sessions, CloseSession(s) PROVE Covered(w)'
  BY <1>6, <1>1 DEF CloseSession, waitVars
<1>7. ASSUME BeginCleanup \/ ContinueCleanup PROVE Covered(w)'
  <2>1. w # Cleanup /\ UNCHANGED known
    BY <1>7 DEF BeginCleanup, ContinueCleanup
  <2>2. /\ waits' = waits \/ \E ts : waits' = [waits EXCEPT ![Cleanup] = ts]
        /\ \E next : phase' = [phase EXCEPT ![Cleanup] = next]
    BY <1>7 DEF BeginCleanup, ContinueCleanup
  <2> QED BY <2>1, <2>2, <1>t, <1>same
<1> QED BY <1>1, <1>2, <1>3, <1>4, <1>5, <1>6, <1>7, WaitsElsewhere DEF HandlerStep

(* Most steps leave the parent's agent alone, keep its set open and take   *)
(* nothing pending from it; its disposal ends the claim.                   *)
LEMMA TrackedKept ==
    ASSUME WInv, [Next]_vars, NEW s \in Sessions PROVE Tracked(s)'
<1>t. /\ TypeOK /\ Books /\ Tracked(s) /\ <<"dispose", s>> \in Waiters
      /\ phase \in [Waiters -> {"idle", "waiting", "tasks", "barrier", "returned"}]
      /\ agents \in [Sessions -> {"up", "gone"}]
      /\ taskSet \in [Sessions -> {"none", "open", "cancelled"}]
      /\ tasks \in [Sessions -> SUBSET (Events \cup Calls)] /\ pending \subseteq Events
      /\ \A e \in Events, c \in Calls : e # c
  BY DEF WInv, TypeOK, Waiters
<1>same. ASSUME agents'[s] = agents[s], taskSet'[s] = taskSet[s] \/ (taskSet[s] = "none" /\ taskSet'[s] = "open"),
                \A e \in pending' : SessionOf[e] = s => e \in tasks'[s] \/ (e \in pending /\ e \notin tasks[s]),
                phase'[<<"dispose", s>>] = phase[<<"dispose", s>>]
         PROVE  Tracked(s)'
  BY <1>same, <1>t DEF Tracked
<1>1. CASE UNCHANGED vars
  BY <1>1, <1>same DEF vars
<1>2. CASE CallStep
  <2>1. UNCHANGED <<pending, agents, phase>>
    BY <1>2, <1>t, CallShifts
  <2>2. taskSet'[s] = taskSet[s] \/ (taskSet[s] = "none" /\ taskSet'[s] = "open")
    <3>1. ASSUME NEW x \in Ops, BeginCall(x)
          PROVE  taskSet'[s] = taskSet[s] \/ (taskSet[s] = "none" /\ taskSet'[s] = "open")
      BY <3>1, <1>t DEF BeginCall, setVars
    <3>2. ASSUME NEW c \in Calls, HostAnswers(c) \/ CallSteps(c) PROVE UNCHANGED taskSet
      BY <3>2 DEF HostAnswers, CallSteps, GiveUp, Take, ReleaseLate, ChildEnds, Return, setVars
    <3> QED BY <1>2, <3>1, <3>2 DEF CallStep
  <2>3. \A e \in Events : e \in tasks[s] => e \in tasks'[s]
    <3>1. ASSUME NEW x \in Ops, BeginCall(x)
          PROVE  \A e \in Events : e \in tasks[s] => e \in tasks'[s]
      <4>1. CASE x \notin Tools
        BY <3>1, <4>1 DEF BeginCall, setVars
      <4>2. CASE x \in Tools
        BY <3>1, <4>2, <1>t DEF BeginCall
      <4> QED BY <4>1, <4>2
    <3>2. ASSUME NEW c \in Calls, HostAnswers(c) \/ CallSteps(c)
          PROVE  \A e \in Events : e \in tasks[s] => e \in tasks'[s]
      <4>1. UNCHANGED tasks \/ tasks' = [tasks EXCEPT ![SessionOf[c[1]]] = @ \ {c}]
        BY <3>2 DEF HostAnswers, CallSteps, GiveUp, Take, ReleaseLate, ChildEnds, Return, EndCall, setVars
      <4> QED BY <4>1, <1>t
    <3> QED BY <1>2, <3>1, <3>2 DEF CallStep
  <2> QED BY <2>1, <2>2, <2>3, <1>same, <1>t
<1>3. CASE ToolStep \/ \E e \in Events : DropTurnEnd(e) \/ Start(e) \/ Publish(e)
  <2>1. UNCHANGED <<pending, agents, phase, taskSet, tasks>>
    BY <1>3 DEF ToolStep, StartTool, AbortTool, FinishTool, DropTurnEnd, Start, Publish, hostVars,
           setVars, waitVars
  <2> QED BY <2>1, <1>same
<1>4. ASSUME NEW e \in Events, TurnEnd(e) PROVE Tracked(s)'
  <2>1. UNCHANGED <<agents, phase>> /\ pending' = pending \cup {e}
    BY <1>4 DEF TurnEnd, hostVars, waitVars
  <2>2. taskSet'[s] = taskSet[s] \/ (taskSet[s] = "none" /\ taskSet'[s] = "open")
    BY <1>4, <1>t DEF TurnEnd
  <2>3. CASE SessionOf[e] = s /\ taskSet[s] # "cancelled"
    <3>1. tasks' = [tasks EXCEPT ![s] = @ \cup {e}]
      BY <1>4, <2>3 DEF TurnEnd
    <3> QED BY <2>1, <2>2, <3>1, <1>same, <1>t
  <2>4. CASE SessionOf[e] = s /\ taskSet[s] = "cancelled"
    BY <2>1, <2>4, <1>t DEF Tracked
  <2>5. CASE SessionOf[e] # s
    <3>1. tasks'[s] = tasks[s]
      BY <1>4, <2>5, <1>t DEF TurnEnd
    <3> QED BY <2>1, <2>2, <2>5, <3>1, <1>same
  <2> QED BY <2>3, <2>4, <2>5
<1>5. ASSUME NEW e \in Events, Settle(e), UNCHANGED <<agents, phase, taskSet>> PROVE Tracked(s)'
  <2>1. \A f \in pending' : f \in pending /\ (f \in tasks[s] => f \in tasks'[s])
    BY <1>5, <1>t DEF Settle
  <2> QED BY <1>5, <2>1, <1>same
<1>6. CASE GiveUpScheduled \/ \E e \in Events : Finish(e)
  <2>1. UNCHANGED <<agents, phase, taskSet>> /\ \E e \in Events : Settle(e)
    BY <1>6, <1>t, HeadTail DEF GiveUpScheduled, Finish, hostVars, waitVars, TypeOK
  <2> QED BY <2>1, <1>5
<1>7. CASE RunScheduled
  BY <1>7, <1>same DEF RunScheduled, hostVars, setVars, waitVars
<1>8. ASSUME NEW r \in Sessions, DisposeAgent(r) PROVE Tracked(s)'
  <2>1. CASE r = s
    <3>1. agents'[s] = "gone"
      BY <1>8, <2>1, <1>t DEF DisposeAgent
    <3> QED BY <3>1 DEF Tracked
  <2>2. CASE r # s
    <3>1. agents'[s] = agents[s] /\ taskSet'[s] = taskSet[s] /\ UNCHANGED <<pending, tasks>>
      BY <1>8, <2>2, <1>t DEF DisposeAgent
    <3>2. phase'[<<"dispose", s>>] = phase[<<"dispose", s>>]
      BY <1>8, <2>2, <1>t DEF DisposeAgent, Wait, waitVars
    <3> QED BY <3>1, <3>2, <1>same
  <2> QED BY <2>1, <2>2
<1>9. ASSUME NEW r \in Sessions, DisposeReturns(r) PROVE Tracked(s)'
  <2>1. CASE r = s
    <3>1. agents' = agents /\ agents[s] = "gone"
      BY <1>9, <2>1, <1>t DEF DisposeReturns, Tracked, hostVars
    <3> QED BY <3>1 DEF Tracked
  <2>2. CASE r # s
    <3>1. /\ agents' = agents /\ taskSet'[s] = taskSet[s] /\ tasks'[s] = tasks[s] /\ UNCHANGED pending
          /\ phase'[<<"dispose", s>>] = phase[<<"dispose", s>>]
      BY <1>9, <2>2, <1>t DEF DisposeReturns, hostVars
    <3> QED BY <3>1, <1>same
  <2> QED BY <2>1, <2>2
<1>10. ASSUME NEW r \in Sessions, NEW kind \in {"flush", "recall"},
              WaitAtBarrier(kind, r) \/ BarrierReturns(kind, r) \/ CloseSession(r)
       PROVE  Tracked(s)'
  <2>1. UNCHANGED <<agents, pending, taskSet, tasks>>
    BY <1>10 DEF WaitAtBarrier, BarrierReturns, CloseSession, hostVars, setVars
  <2>2. phase'[<<"dispose", s>>] = phase[<<"dispose", s>>]
    BY <1>10, <1>t DEF WaitAtBarrier, Wait, BarrierReturns, CloseSession, waitVars
  <2> QED BY <2>1, <2>2, <1>same
<1>11. CASE BeginCleanup \/ ContinueCleanup
  <2>1. UNCHANGED <<agents, pending, taskSet, tasks>>
    BY <1>11 DEF BeginCleanup, ContinueCleanup, hostVars, setVars
  <2>2. phase'[<<"dispose", s>>] = phase[<<"dispose", s>>]
    BY <1>11, <1>t DEF BeginCleanup, ContinueCleanup, Cleanup
  <2> QED BY <2>1, <2>2, <1>same
<1> QED BY <1>1, <1>2, <1>3, <1>4, <1>6, <1>7, <1>8, <1>9, <1>10, <1>11, Steps DEF Local, HandlerStep

LEMMA EmptiedKept == ASSUME WInv, [Next]_vars PROVE Emptied'
<1>t. /\ TypeOK /\ Books /\ Emptied /\ Cleanup \in Waiters
      /\ phase \in [Waiters -> {"idle", "waiting", "tasks", "barrier", "returned"}]
      /\ waits \in [Waiters -> SUBSET (Events \cup Calls)] /\ pending \subseteq Events
  BY DEF WInv, TypeOK, Waiters
<1>p. phase[Cleanup] # "idle" => pending' \subseteq pending
  <2>1. \A e \in Events : TurnEnd(e) => phase[Cleanup] = "idle"
    BY DEF TurnEnd, disposed
  <2> QED BY <2>1, <1>t, SettledStays
<1>same. ASSUME phase'[Cleanup] = phase[Cleanup], waits'[Cleanup] = waits[Cleanup] PROVE Emptied'
  BY <1>same, <1>p, <1>t DEF Emptied
<1>1. CASE UNCHANGED vars \/ UNCHANGED <<phase, waits, known>>
  BY <1>1, <1>same DEF vars
<1>2. ASSUME NEW s \in Sessions, NEW kind \in {"flush", "recall"},
             \/ WaitAtBarrier(kind, s) \/ BarrierReturns(kind, s) \/ DisposeAgent(s)
             \/ DisposeReturns(s) \/ CloseSession(s)
      PROVE  Emptied'
  <2>1. <<kind, s>> # Cleanup /\ <<"dispose", s>> # Cleanup
    BY DEF Cleanup
  <2>2. \/ UNCHANGED <<phase, waits>>
        \/ \E w \in {<<kind, s>>, <<"dispose", s>>} :
               /\ \E next : phase' = [phase EXCEPT ![w] = next]
               /\ UNCHANGED waits \/ \E ts : waits' = [waits EXCEPT ![w] = ts]
    BY <1>2 DEF WaitAtBarrier, Wait, BarrierReturns, DisposeAgent, DisposeReturns, CloseSession, waitVars
  <2>3. phase'[Cleanup] = phase[Cleanup] /\ waits'[Cleanup] = waits[Cleanup]
    BY <2>1, <2>2, <1>t
  <2> QED BY <2>3, <1>same
<1>3. CASE BeginCleanup
  BY <1>3, <1>t DEF BeginCleanup, Emptied
<1>4. CASE ContinueCleanup /\ phase[Cleanup] = "tasks"
  BY <1>4, <1>t DEF ContinueCleanup, Emptied
<1>5. CASE ContinueCleanup /\ phase[Cleanup] # "tasks"
  <2>1. phase[Cleanup] = "barrier" /\ UNCHANGED pending /\ phase'[Cleanup] = "returned"
    BY <1>5, <1>t DEF ContinueCleanup
  <2>2. \A e \in pending : e \in Events /\ Settled(e)
    BY <1>5, <2>1, <1>t DEF ContinueCleanup, Emptied
  <2>3. pending = {}
    BY <2>2, <1>t DEF Settled, Books
  <2> QED BY <2>1, <2>3 DEF Emptied
<1> QED BY <1>1, <1>2, <1>3, <1>4, <1>5, WaitsElsewhere DEF HandlerStep

LEMMA WaitsInit == Init => WInv
<1> SUFFICES ASSUME Init PROVE WInv
  OBVIOUS
<1>1. \A e \in Events : e \in Ops /\ stage[e] = "none"
  BY DEF Init, Ops
<1>2. Registered = {}
  BY <1>1 DEF Registered
<1>3. Books
  BY <1>1, <1>2 DEF Init, Books
<1>4. \A w \in Waiters : phase[w] = "idle"
  BY DEF Init
<1>5. \A w \in Waiters \ {Cleanup} : Covered(w)
  BY <1>4 DEF Covered
<1>6. \A s \in Sessions : Tracked(s)
  <2> SUFFICES ASSUME NEW s \in Sessions PROVE Tracked(s)
    OBVIOUS
  <2>1. <<"dispose", s>> \in Waiters
    BY DEF Waiters
  <2> QED BY <1>4, <2>1 DEF Init, Tracked
<1>7. Emptied
  BY <1>4 DEF Emptied, Waiters
<1> QED BY <1>3, <1>5, <1>6, <1>7, TypeInit DEF WInv

(* The invariant behind the three theorems below. *)
THEOREM WaitsInvariant == Spec => []WInv
<1>1. WInv /\ TypeOK' /\ [Next]_vars => WInv'
  BY BooksKept, CoveredKept, TrackedKept, EmptiedKept DEF WInv, Waiters
<1> QED BY <1>1, WaitsInit, TypeCorrect, PTL DEF Spec

(* A flush, or the wait before recall, returns only when every             *)
(* consolidation registered in the project before it has settled.          *)
THEOREM BarrierSound == Spec => []BarrierCovers
<1>1. WInv => BarrierCovers
  <2> SUFFICES ASSUME WInv, NEW kind \in {"flush", "recall"}, NEW s \in Sessions,
                      phase[<<kind, s>>] = "returned"
               PROVE  \A e \in known[<<kind, s>>] : stage[e] = "settled"
    BY DEF BarrierCovers
  <2>1. <<kind, s>> \in Waiters \ {Cleanup}
    BY DEF Waiters, Cleanup
  <2> QED BY <2>1 DEF WInv, Covered, Due
<1> QED BY <1>1, WaitsInvariant, PTL

(* The disposal of a parent's task set returns only when the parent's      *)
(* consolidations registered before it have settled.                       *)
THEOREM DisposeSound == Spec => []DisposeCovers
<1>1. WInv => DisposeCovers
  <2> SUFFICES ASSUME WInv, NEW s \in Sessions, phase[<<"dispose", s>>] = "returned",
                      NEW e \in known[<<"dispose", s>>], SessionOf[e] = s
               PROVE  stage[e] = "settled"
    BY DEF DisposeCovers
  <2>1. <<"dispose", s>> \in Waiters \ {Cleanup}
    BY DEF Waiters, Cleanup
  <2> QED BY <2>1 DEF WInv, Covered, Due
<1> QED BY <1>1, WaitsInvariant, PTL

(* After the cleanup has returned no consolidation is at work or begins.   *)
THEOREM CleanupSound == Spec => []QuietAfterCleanup
<1>1. WInv => QuietAfterCleanup
  BY DEF WInv, Emptied, QuietAfterCleanup, Books
<1> QED BY <1>1, WaitsInvariant, PTL

-----------------------------------------------------------------------------
(***************************************************************************)
(* Each turn once                                                          *)
(***************************************************************************)

(* The key of a consolidation is remembered until its session closes.      *)
Remembered ==
    /\ \A e \in Registered : Key(e) \in handled \/ SessionOf[e] \in closed
    /\ TurnOnce

LEMMA RegisteredSame ==
    ASSUME TypeOK, Books, [Next]_vars
    PROVE  Registered' = Registered \/ \E e \in Events : TurnEnd(e) /\ Registered' = Registered \cup {e}
<1>q. immediates \in Seq(Events) /\ stage \in [Ops -> Working \cup {"none", "ignored", "scheduled", "queued", "settled"}]
  BY DEF TypeOK
<1>0. Events \subseteq Ops
  BY DEF Ops
<1>1. CASE UNCHANGED vars
  BY <1>1 DEF vars, Registered
<1>2. CASE Local
  BY <1>2, LocalShifts DEF Shifts, Busy, Working, Registered
<1>3. ASSUME NEW e \in Registered, \E next \in {"queued", "ready", "published", "settled"} : stage' = [stage EXCEPT ![e] = next]
      PROVE  Registered' = Registered
  BY <1>3, <1>q, <1>0 DEF Registered
<1>4. ASSUME NEW e \in Events, Start(e) \/ Publish(e) \/ Finish(e) PROVE Registered' = Registered
  <2>1. e \in Registered
    BY <1>4 DEF Start, Publish, Finish, Registered
  <2> QED BY <1>3, <1>4, <2>1 DEF Start, Publish, Finish, Settle
<1>5. CASE GiveUpScheduled \/ RunScheduled
  <2>1. Head(immediates) \in Registered
    BY <1>5, <1>q, HeadTail DEF GiveUpScheduled, RunScheduled, Books, Registered
  <2> QED BY <1>3, <1>5, <2>1 DEF GiveUpScheduled, RunScheduled, Settle
<1>6. ASSUME NEW e \in Events, TurnEnd(e) PROVE Registered' = Registered \cup {e}
  BY <1>6, <1>q, <1>0 DEF TurnEnd, Registered
<1> QED BY <1>1, <1>2, <1>4, <1>5, <1>6, Steps

(* Keys are only forgotten when their session closes, for good. *)
LEMMA KeysKept ==
    ASSUME TypeOK, [Next]_vars
    PROVE  closed \subseteq closed' /\ \A k \in handled : k \in handled' \/ k[1] \in closed'
<1>1. CASE UNCHANGED vars
  BY <1>1 DEF vars
<1>2. CASE CallStep
  BY <1>2, CallShifts
<1>3. CASE ToolStep \/ \E e \in Events : DropTurnEnd(e) \/ TurnEnd(e) \/ Start(e) \/ Publish(e) \/ Finish(e)
  BY <1>3 DEF ToolStep, StartTool, AbortTool, FinishTool, DropTurnEnd, TurnEnd, Start, Publish, Finish, hostVars
<1>4. CASE GiveUpScheduled \/ RunScheduled
  BY <1>4 DEF GiveUpScheduled, RunScheduled, hostVars
<1>5. CASE HandlerStep
  BY <1>5 DEF HandlerStep, WaitAtBarrier, BarrierReturns, DisposeAgent, DisposeReturns, CloseSession,
         BeginCleanup, ContinueCleanup, hostVars
<1> QED BY <1>1, <1>2, <1>3, <1>4, <1>5, Steps DEF Local

(* However often its end is delivered, a turn of a session that has not    *)
(* closed is consolidated at most once.                                    *)
THEOREM OnceOnly == Spec => []TurnOnce
<1>1. Init => Remembered
  BY DEF Init, Remembered, TurnOnce, Registered, Ops
<1>2. WInv /\ Remembered /\ [Next]_vars => Remembered'
  <2> SUFFICES ASSUME WInv, Remembered, [Next]_vars PROVE Remembered'
    OBVIOUS
  <2>0. TypeOK /\ Books
    BY DEF WInv
  <2>1. ASSUME NEW e \in Registered PROVE (Key(e) \in handled \/ SessionOf[e] \in closed)'
    BY <2>0, <2>1, KeysKept DEF Remembered, Key
  <2>2. CASE Registered' = Registered
    BY <2>0, <2>1, <2>2, KeysKept DEF Remembered, TurnOnce
  <2>3. ASSUME NEW e \in Events, TurnEnd(e), Registered' = Registered \cup {e} PROVE Remembered'
    <3>1. Key(e) \notin handled /\ Key(e) \in handled'
      BY <2>3 DEF TurnEnd
    <3>2. \A f \in Registered : Key(f) = Key(e) => SessionOf[f] \in closed
      BY <3>1 DEF Remembered
    <3>3. TurnOnce'
      BY <2>0, <2>3, <3>2, KeysKept DEF Remembered, TurnOnce, Key
    <3> QED BY <2>1, <2>3, <3>1, <3>3 DEF Remembered, Key
  <2> QED BY <2>0, <2>2, <2>3, RegisteredSame
<1>3. Remembered => TurnOnce
  BY DEF Remembered
<1> QED BY <1>1, <1>2, <1>3, WaitsInvariant, PTL DEF Spec

-----------------------------------------------------------------------------
(***************************************************************************)
(* Every model call is a call of ChildCall, step by step.                  *)
(***************************************************************************)

(* A call that has not begun has no child, and a call that runs has one.   *)
CallKept(c) ==
    /\ c[2] > calls[c[1]] => call[c] = "idle" /\ child[c] = "none"
    /\ call[c] = "running" => child[c] = "live"

CallInv == TypeOK /\ \A c \in Calls : CallKept(c)

CallMoves(c) == C(c)!Next \/ UNCHANGED <<call[c], child[c]>>

(* The next call of a consolidation or recall begins. *)
LEMMA CallBegins ==
    ASSUME CallInv, NEW x \in Ops, BeginCall(x)
    PROVE  \A c \in Calls : CallKept(c)' /\ CallMoves(c)
<1> DEFINE b == <<x, calls[x] + 1>>
<1>1. calls[x] \in 0 .. MaxCalls /\ calls[x] < MaxCalls /\ MaxCalls \in Nat
  BY DEF CallInv, TypeOK, BeginCall
<1>2. b \in Calls /\ b[1] = x /\ b[2] = calls[x] + 1
  BY <1>1 DEF Calls
<1>3. call[b] = "idle" /\ child[b] = "none"
  BY <1>1, <1>2 DEF CallInv, CallKept
<1>4. calls' = [calls EXCEPT ![x] = calls[x] + 1]
  BY DEF BeginCall
<1>5. \/ call' = [call EXCEPT ![b] = "ended"] /\ child' = child
      \/ call' = [call EXCEPT ![b] = "creating"] /\ child' = [child EXCEPT ![b] = "pending"]
  BY DEF BeginCall
<1>6. TypeOK
  BY DEF CallInv
<1> HIDE DEF b
<1>7. ASSUME NEW c \in Calls, c # b PROVE call'[c] = call[c] /\ child'[c] = child[c]
  BY <1>5, <1>6, <1>7 DEF TypeOK
<1>8. \/ call'[b] = "ended" /\ child'[b] = child[b]
      \/ call'[b] = "creating" /\ child'[b] = "pending"
  BY <1>2, <1>5, <1>6 DEF TypeOK
<1>9. ASSUME NEW c \in Calls PROVE CallKept(c)' /\ CallMoves(c)
  <2>1. CASE c = b
    <3>1. calls'[x] = calls[x] + 1
      BY <1>4, <1>6 DEF TypeOK
    <3>2. CallKept(c)'
      BY <1>1, <1>2, <1>8, <2>1, <3>1 DEF CallKept
    <3> QED BY <1>3, <1>8, <2>1, <3>2 DEF CallMoves, C!Next, C!Begin
  <2>2. CASE c # b
    <3>1. call'[c] = call[c] /\ child'[c] = child[c] /\ CallKept(c)
      BY <1>7, <2>2 DEF CallInv
    <3>2. c[1] \in Ops /\ c[2] \in Nat
      BY DEF Calls
    <3>3. calls[c[1]] \in Nat /\ calls'[c[1]] \in Nat /\ calls'[c[1]] >= calls[c[1]]
      BY <1>1, <1>4, <1>6, <3>2 DEF TypeOK
    <3> QED BY <3>1, <3>2, <3>3 DEF CallKept, CallMoves
  <2> QED BY <2>1, <2>2
<1> QED BY <1>9

(* A call that has begun goes on. *)
LEMMA CallGoesOn ==
    ASSUME CallInv, NEW d \in Calls, HostAnswers(d) \/ CallSteps(d)
    PROVE  \A c \in Calls : CallKept(c)' /\ CallMoves(c)
<1>1. TypeOK /\ calls' = calls
  BY DEF CallInv, HostAnswers, CallSteps, GiveUp, Take, ReleaseLate, ChildEnds, Return
<1>2. /\ \A c \in Calls : c # d => call'[c] = call[c] /\ child'[c] = child[c]
      /\ \/ call[d] = "creating" /\ call'[d] = "ended" /\ child'[d] = child[d]
         \/ call[d] = "creating" /\ child[d] = "live" /\ call'[d] = "running" /\ child'[d] = child[d]
         \/ call[d] = "ended" /\ child[d] = "live" /\ call'[d] = call[d] /\ child'[d] = "released"
         \/ call[d] = "running" /\ call'[d] = "releasing" /\ child'[d] = "released"
         \/ call[d] = "releasing" /\ call'[d] = "ended" /\ child'[d] = child[d]
         \/ child[d] = "pending" /\ child'[d] \in {"live", "never"} /\ call'[d] = call[d]
  <2>1. CASE HostAnswers(d)
    BY <2>1, <1>1 DEF HostAnswers, TypeOK
  <2>2. CASE GiveUp(d)
    BY <2>2, <1>1 DEF GiveUp, EndCall, TypeOK
  <2>3. CASE Take(d)
    BY <2>3, <1>1 DEF Take, TypeOK
  <2>4. CASE ReleaseLate(d)
    BY <2>4, <1>1 DEF ReleaseLate, TypeOK
  <2>5. CASE ChildEnds(d)
    BY <2>5, <1>1 DEF ChildEnds, TypeOK
  <2>6. CASE Return(d)
    BY <2>6, <1>1 DEF Return, EndCall, TypeOK
  <2> QED BY <2>1, <2>2, <2>3, <2>4, <2>5, <2>6 DEF CallSteps
<1>3. \A c \in Calls : CallKept(c)
  BY DEF CallInv
<1>4. ASSUME NEW c \in Calls, c # d PROVE CallKept(c)' /\ CallMoves(c)
  BY <1>1, <1>2, <1>3, <1>4 DEF CallKept, CallMoves
<1>5. CallKept(d)'
  BY <1>1, <1>2, <1>3 DEF CallKept
<1>6. CallMoves(d)
  BY <1>2, <1>3 DEF CallKept, CallMoves, C!Next, C!Begin, C!Answer, C!Take, C!GiveUp, C!Finish,
     C!Return, C!ReleaseLate
<1> QED BY <1>4, <1>5, <1>6

LEMMA CallsStep ==
    ASSUME CallInv, [Next]_vars
    PROVE  \A c \in Calls : CallKept(c)' /\ CallMoves(c)
<1>1. CASE UNCHANGED <<calls, call, child>>
  BY <1>1 DEF CallInv, CallKept, CallMoves
<1>2. CASE Next
  <2>1. CASE CallStep
    BY <2>1, CallBegins, CallGoesOn DEF CallStep
  <2>2. CASE HandlerStep \/ ToolStep \/ \E e \in Events : DropTurnEnd(e)
    <3>1. UNCHANGED <<calls, call, child>>
      BY <2>2 DEF HandlerStep, ToolStep, WaitAtBarrier, BarrierReturns, DisposeAgent, DisposeReturns,
         CloseSession, BeginCleanup, ContinueCleanup, StartTool, AbortTool, FinishTool, DropTurnEnd,
         callVars
    <3> QED BY <1>1, <3>1
  <2>3. CASE \/ \E e \in Events : TurnEnd(e) \/ Start(e) \/ Publish(e) \/ Finish(e)
             \/ GiveUpScheduled \/ RunScheduled
    <3>1. UNCHANGED <<calls, call, child>>
      BY <2>3 DEF TurnEnd, Start, Publish, Finish, GiveUpScheduled, RunScheduled, callVars
    <3> QED BY <1>1, <3>1
  <2> QED BY <1>2, <2>1, <2>2, <2>3, Steps DEF Local
<1> QED BY <1>1, <1>2 DEF vars

(* Every model call of a consolidation or a recall begins as ChildCall     *)
(* does, and no step of the plugin or the host does anything to it but     *)
(* what ChildCall allows; that a late child is released in the end is for  *)
(* TLC (CallsKeepPromise).                                                 *)
THEOREM CallsAreChildCalls ==
    Spec => /\ \A c \in Calls : C(c)!Init
            /\ [][\A c \in Calls : C(c)!Next \/ UNCHANGED <<call[c], child[c]>>]_<<call, child>>
<1>1. Init => \A c \in Calls : C(c)!Init
  BY DEF Init, C!Init
<1>2. Init => CallInv
  <2>1. Init => \A c \in Calls : CallKept(c)
    BY DEF Init, CallKept
  <2> QED BY <2>1, TypeInit DEF CallInv
<1>3. TypeOK' /\ CallInv /\ [Next]_vars => CallInv'
  BY CallsStep DEF CallInv
<1>4. CallInv /\ [Next]_vars =>
        [\A c \in Calls : C(c)!Next \/ UNCHANGED <<call[c], child[c]>>]_<<call, child>>
  BY CallsStep DEF CallMoves
<1> QED BY <1>1, <1>2, <1>3, <1>4, TypeCorrect, PTL DEF Spec

-----------------------------------------------------------------------------
(***************************************************************************)
(* Proofs that the coordinator's chain keeps the consolidations of one     *)
(* project apart and in order, for every set of sessions, projects,        *)
(* deliveries and tool calls.                                              *)
(***************************************************************************)

(* The operations the coordinator has chained and not let go of. *)
Chained == {e \in Events : stage[e] \in Working \cup {"queued"}}

(* Ranks number the registered consolidations. *)
Ranked ==
    /\ \A e \in Registered : rank[e] <= count
    /\ \A e, f \in Registered : rank[e] = rank[f] => e = f

(* Callbacks are scheduled in order, after all that are chained or done. *)
InLine ==
    /\ \A i, j \in DOMAIN immediates : i < j => rank[immediates[i]] < rank[immediates[j]]
    /\ \A i \in DOMAIN immediates : \A e \in Chained : rank[e] < rank[immediates[i]]
    /\ \A i \in DOMAIN immediates : \A p \in Scopes : \A k \in DOMAIN world[p] :
          rank[world[p][k]] < rank[immediates[i]]

(* The tail of a project is its youngest chained operation, if any is. *)
Tails ==
    /\ \A e \in Chained : tail[Project(e)] # None /\ rank[e] <= rank[tail[Project(e)]]
    /\ \A p \in Scopes : tail[p] # None => tail[p] \in Chained /\ Project(tail[p]) = p

(* An operation with an older one in the chain hangs on a chained one that *)
(* is not older than that.                                                 *)
Links ==
    \A e, f \in Chained : (Project(e) = Project(f) /\ rank[e] < rank[f]) =>
        /\ prev[f] # None /\ prev[f] \in Chained /\ Project(prev[f]) = Project(f)
        /\ rank[e] <= rank[prev[f]]

(* What is at work hangs on nothing that is chained. *)
Going == \A e \in Events : stage[e] \in Working => ChainReady(e)

(* What is published is in order, done with, and older than what is        *)
(* chained still.                                                          *)
Written ==
    \A p \in Scopes : \A i \in DOMAIN world[p] :
        /\ stage[world[p][i]] \in {"published", "settled"} /\ Project(world[p][i]) = p
        /\ \A j \in DOMAIN world[p] : i < j => rank[world[p][i]] < rank[world[p][j]]
        /\ \A e \in Chained : Project(e) = p => world[p][i] = e \/ rank[world[p][i]] < rank[e]

ChainInv == Ranked /\ InLine /\ Tails /\ Links /\ Going /\ Written

SInv == TypeOK /\ Books /\ ChainInv

LEMMA ChainInit == Init => ChainInv
<1> SUFFICES ASSUME Init PROVE ChainInv
  OBVIOUS
<1>1. \A e \in Events : stage[e] = "none"
  BY DEF Init, Ops
<1>2. \A p \in Scopes : world[p] = <<>> /\ tail[p] = None
  BY DEF Init
<1>3. Registered = {} /\ Chained = {} /\ \A e \in Events : stage[e] \notin Working
  BY <1>1 DEF Registered, Chained, Working
<1> QED BY <1>2, <1>3 DEF Init, ChainInv, Ranked, InLine, Tails, Links, Going, Written

(* What the typing gives every step below. *)
LEMMA ChainTypes ==
    ASSUME TypeOK
    PROVE  /\ immediates \in Seq(Events) /\ world \in [Scopes -> Seq(Events)]
           /\ tail \in [Scopes -> Events \cup {None}] /\ prev \in [Events -> Events \cup {None}]
           /\ stage \in [Ops -> Working \cup {"none", "ignored", "scheduled", "queued", "settled"}]
           /\ rank \in [Events -> Nat] /\ count \in Nat /\ Events \subseteq Ops
           /\ \A p \in Scopes : \A i \in DOMAIN world[p] : world[p][i] \in Events
           /\ \A i \in DOMAIN immediates : immediates[i] \in Events
           /\ \A e \in Events : Project(e) \in Scopes
<1>1. /\ immediates \in Seq(Events) /\ world \in [Scopes -> Seq(Events)]
      /\ tail \in [Scopes -> Events \cup {None}] /\ prev \in [Events -> Events \cup {None}]
      /\ stage \in [Ops -> Working \cup {"none", "ignored", "scheduled", "queued", "settled"}]
      /\ rank \in [Events -> Nat] /\ count \in Nat
  BY DEF TypeOK
<1>2. \A p \in Scopes : \A i \in DOMAIN world[p] : world[p][i] \in Events
  <2> SUFFICES ASSUME NEW p \in Scopes, NEW i \in DOMAIN world[p] PROVE world[p][i] \in Events
    OBVIOUS
  <2>1. world[p] \in Seq(Events)
    BY <1>1
  <2> QED BY <2>1
<1>3. \A i \in DOMAIN immediates : immediates[i] \in Events
  BY <1>1
<1>4. \A e \in Events : Project(e) \in Scopes
  BY SessionAssumption DEF Project, SessionAssumption
<1>5. Events \subseteq Ops
  BY DEF Ops
<1> QED BY <1>1, <1>2, <1>3, <1>4, <1>5

(* Two operations of one project are never at work at once: the younger    *)
(* would hang on a chained one, the chain says, and on none, being at work.*)
LEMMA AtWorkAlone ==
    ASSUME SInv, NEW e \in Events, NEW f \in Events, stage[f] \in Working, e \in Chained,
           Project(e) = Project(f), e # f
    PROVE  rank[f] < rank[e] /\ stage[e] \notin Working
<1>1. e \in Registered /\ f \in Registered /\ f \in Chained /\ rank[e] \in Nat /\ rank[f] \in Nat
  BY DEF Registered, Chained, Working, SInv, TypeOK
<1>2. rank[e] # rank[f]
  BY <1>1 DEF SInv, ChainInv, Ranked
<1>3. ASSUME NEW a \in Events, NEW b \in Events, stage[b] \in Working, a \in Chained, b \in Chained,
             Project(a) = Project(b), rank[a] < rank[b]
      PROVE  FALSE
  <2>1. prev[b] # None /\ prev[b] \in Chained
    BY <1>3 DEF SInv, ChainInv, Links
  <2>2. stage[prev[b]] = "settled"
    BY <1>3, <2>1 DEF SInv, ChainInv, Going, ChainReady
  <2> QED BY <2>1, <2>2 DEF Chained, Working
<1>4. ~(rank[e] < rank[f])
  BY <1>1, <1>3
<1>5. rank[f] < rank[e]
  BY <1>1, <1>2, <1>4
<1>6. stage[e] \notin Working
  BY <1>1, <1>3, <1>5
<1> QED BY <1>5, <1>6

(* What is scheduled, chained or published is registered, and has a rank.  *)
LEMMA ChainFacts ==
    ASSUME SInv
    PROVE  /\ Registered \subseteq Events /\ Chained \subseteq Registered
           /\ \A f \in Registered : rank[f] \in Nat
           /\ \A i \in DOMAIN immediates : immediates[i] \in Registered /\ stage[immediates[i]] = "scheduled"
           /\ \A p \in Scopes : \A i \in DOMAIN world[p] : world[p][i] \in Registered
<1>t. TypeOK
  BY DEF SInv
<1>1. Registered \subseteq Events /\ Chained \subseteq Registered
  BY DEF Registered, Chained, Working
<1>2. \A f \in Registered : rank[f] \in Nat
  BY <1>1, <1>t, ChainTypes
<1>3. \A i \in DOMAIN immediates : immediates[i] \in Registered /\ stage[immediates[i]] = "scheduled"
  BY <1>t, ChainTypes DEF SInv, Books, Registered
<1>4. \A p \in Scopes : \A i \in DOMAIN world[p] : world[p][i] \in Registered
  BY <1>t, ChainTypes DEF SInv, ChainInv, Written, Registered
<1> QED BY <1>1, <1>2, <1>3, <1>4

(* Steps that register nothing and take at most the first callback away.   *)
LEMMA InLineStays ==
    ASSUME SInv, UNCHANGED <<rank, count>>, Registered' = Registered, NEW d \in {0, 1},
           \A i \in DOMAIN immediates' : i + d \in DOMAIN immediates /\ immediates'[i] = immediates[i + d],
           \A e \in Chained' : e \in Chained \/ (d = 1 /\ 1 \in DOMAIN immediates /\ e = immediates[1]),
           \A p \in Scopes : \A k \in DOMAIN world'[p] :
              world'[p][k] \in Chained \/ (k \in DOMAIN world[p] /\ world'[p][k] = world[p][k]),
           immediates' \in Seq(Events)
    PROVE  Ranked' /\ InLine'
<1>1. Ranked'
  BY DEF SInv, ChainInv, Ranked
<1>2. \A i \in DOMAIN immediates' : i \in Nat /\ i > 0
  OBVIOUS
<1>3. \A i, j \in DOMAIN immediates' : i < j => rank[immediates'[i]] < rank[immediates'[j]]
  BY <1>2 DEF SInv, ChainInv, InLine
<1>4. \A i \in DOMAIN immediates' : \A e \in Chained' : rank[e] < rank[immediates'[i]]
  BY <1>2 DEF SInv, ChainInv, InLine
<1>5. \A i \in DOMAIN immediates' : \A p \in Scopes : \A k \in DOMAIN world'[p] :
          rank[world'[p][k]] < rank[immediates'[i]]
  BY DEF SInv, ChainInv, InLine
<1> QED BY <1>1, <1>3, <1>4, <1>5 DEF InLine

(* Steps that chain nothing and let go of nothing. *)
LEMMA LinksStay ==
    ASSUME SInv, UNCHANGED <<tail, prev>>, Chained' = Chained,
           \A f \in Registered : rank'[f] = rank[f]
    PROVE  Tails' /\ Links'
<1>1. \A e \in Chained : rank'[e] = rank[e] /\ Project(e) \in Scopes
  BY ChainFacts, ChainTypes DEF SInv
<1>2. Tails'
  <2>1. \A p \in Scopes : tail[p] # None => tail[p] \in Chained /\ Project(tail[p]) = p
    BY DEF SInv, ChainInv, Tails
  <2>2. \A e \in Chained : tail[Project(e)] # None /\ rank[e] <= rank[tail[Project(e)]]
    BY DEF SInv, ChainInv, Tails
  <2>3. \A e \in Chained : rank'[e] <= rank'[tail[Project(e)]]
    BY <1>1, <2>1, <2>2
  <2> QED BY <2>1, <2>2, <2>3 DEF Tails
<1>3. Links'
  <2> SUFFICES ASSUME NEW e \in Chained, NEW f \in Chained, Project(e) = Project(f), rank'[e] < rank'[f]
               PROVE  /\ prev[f] # None /\ prev[f] \in Chained /\ Project(prev[f]) = Project(f)
                      /\ rank'[e] <= rank'[prev[f]]
    BY DEF Links
  <2>1. rank[e] < rank[f]
    BY <1>1
  <2> QED BY <1>1, <2>1 DEF SInv, ChainInv, Links
<1> QED BY <1>2, <1>3

LEMMA WrittenStays ==
    ASSUME SInv, UNCHANGED world, Chained' \subseteq Chained,
           \A f \in Registered : rank'[f] = rank[f],
           \A f \in Events : stage[f] \in {"published", "settled"} => stage'[f] \in {"published", "settled"}
    PROVE  Written'
<1> SUFFICES ASSUME NEW p \in Scopes, NEW i \in DOMAIN world[p]
             PROVE  /\ stage'[world[p][i]] \in {"published", "settled"} /\ Project(world[p][i]) = p
                    /\ \A j \in DOMAIN world[p] : i < j => rank'[world[p][i]] < rank'[world[p][j]]
                    /\ \A e \in Chained' : Project(e) = p =>
                          world[p][i] = e \/ rank'[world[p][i]] < rank'[e]
  BY DEF Written
<1>1. /\ stage[world[p][i]] \in {"published", "settled"} /\ Project(world[p][i]) = p
      /\ \A j \in DOMAIN world[p] : i < j => rank[world[p][i]] < rank[world[p][j]]
      /\ \A e \in Chained : Project(e) = p => world[p][i] = e \/ rank[world[p][i]] < rank[e]
  BY DEF SInv, ChainInv, Written
<1>2. \A j \in DOMAIN world[p] : world[p][j] \in Events /\ rank'[world[p][j]] = rank[world[p][j]]
  BY ChainFacts
<1>3. \A e \in Chained' : e \in Chained /\ rank'[e] = rank[e]
  BY ChainFacts
<1> QED BY <1>1, <1>2, <1>3

LEMMA GoingStays ==
    ASSUME SInv, UNCHANGED prev,
           \A f \in Events : stage[f] = "settled" => stage'[f] = "settled",
           \A f \in Events : stage'[f] \in Working => stage[f] \in Working \/ ChainReady(f)
    PROVE  Going'
<1> SUFFICES ASSUME NEW f \in Events, stage'[f] \in Working, prev[f] # None
             PROVE  stage'[prev[f]] = "settled"
  BY DEF Going, ChainReady
<1>1. ChainReady(f)
  BY DEF SInv, ChainInv, Going
<1>2. prev[f] \in Events
  BY ChainTypes DEF SInv
<1> QED BY <1>1, <1>2 DEF ChainReady

(* Steps that only shift stages. *)
LEMMA ChainShifts ==
    ASSUME SInv, UNCHANGED <<immediates, tail, prev, world, count, rank>>,
           \A e \in Events : Shifts(e)
    PROVE  ChainInv'
<1>1. \A e \in Events : /\ stage'[e] \in Working <=> stage[e] \in Working
                        /\ stage'[e] = "queued" <=> stage[e] = "queued"
                        /\ stage'[e] = "settled" <=> stage[e] = "settled"
                        /\ stage'[e] = "published" <=> stage[e] = "published"
                        /\ stage'[e] \in {"none", "ignored"} <=> stage[e] \in {"none", "ignored"}
  BY DEF Shifts, Busy, Working
<1>2. Chained' = Chained /\ Registered' = Registered
  BY <1>1 DEF Chained, Registered
<1>3. immediates \in Seq(Events)
  BY ChainTypes DEF SInv
<1>4. Ranked' /\ InLine'
  BY <1>2, <1>3, InLineStays, 0 \in {0, 1}
<1> QED BY <1>1, <1>2, <1>4, LinksStay, WrittenStays, GoingStays DEF ChainInv

LEMMA Appended ==
    ASSUME NEW S, NEW q \in Seq(S), NEW e \in S
    PROVE  /\ \A i \in DOMAIN Append(q, e) : \/ i \in DOMAIN q /\ Append(q, e)[i] = q[i]
                                           \/ Append(q, e)[i] = e
           /\ \A i, j \in DOMAIN Append(q, e) : i < j => i \in DOMAIN q /\ Append(q, e)[i] = q[i]
  OBVIOUS

(* A consolidation is registered: it is younger than everything. *)
LEMMA ChainTurnEnd == ASSUME SInv, NEW e \in Events, TurnEnd(e) PROVE ChainInv'
<1>t. /\ immediates \in Seq(Events) /\ count \in Nat /\ rank \in [Events -> Nat] /\ Events \subseteq Ops
      /\ stage \in [Ops -> Working \cup {"none", "ignored", "scheduled", "queued", "settled"}]
  BY ChainTypes DEF SInv
<1>1. /\ stage[e] = "none" /\ stage' = [stage EXCEPT ![e] = "scheduled"]
      /\ immediates' = Append(immediates, e) /\ UNCHANGED <<tail, prev, world>>
      /\ count' = count + 1 /\ rank' = [rank EXCEPT ![e] = count + 1]
  BY DEF TurnEnd, chainVars
<1>2. Chained' = Chained /\ Registered' = Registered \cup {e} /\ e \notin Registered
  BY <1>1, <1>t DEF Chained, Working, Registered
<1>3. /\ \A f \in Events : stage[f] = "settled" => stage'[f] = "settled"
      /\ \A f \in Events : stage'[f] \in Working => stage[f] \in Working
      /\ \A f \in Events : stage[f] \in {"published", "settled"} => stage'[f] \in {"published", "settled"}
  BY <1>1, <1>t DEF Working
<1>4. \A f \in Registered : rank'[f] = rank[f] /\ rank[f] \in Nat /\ rank[f] < count + 1
  <2>1. \A f \in Registered : f # e /\ f \in Events /\ rank[f] \in Nat /\ rank[f] <= count
    BY <1>2, ChainFacts DEF SInv, ChainInv, Ranked
  <2> QED BY <2>1, <1>1, <1>t
<1>5. rank'[e] = count + 1
  BY <1>1, <1>t
<1>6. Ranked'
  <2>1. \A f \in Registered' : rank'[f] <= count'
    BY <1>1, <1>2, <1>4, <1>5, <1>t
  <2>2. \A f, g \in Registered : rank'[f] = rank'[g] => f = g
    BY <1>4 DEF SInv, ChainInv, Ranked
  <2>3. \A f \in Registered : rank'[f] # rank'[e]
    BY <1>4, <1>5, <1>t
  <2> QED BY <1>2, <2>1, <2>2, <2>3 DEF Ranked
<1>7. InLine'
  <2>1. \A i \in DOMAIN immediates' : \/ i \in DOMAIN immediates /\ immediates'[i] = immediates[i]
                                     \/ immediates'[i] = e
    BY <1>1, <1>t, Appended
  <2>2. \A i, j \in DOMAIN immediates' : i < j => i \in DOMAIN immediates /\ immediates'[i] = immediates[i]
    BY <1>1, <1>t, Appended
  <2>3. ASSUME NEW f \in Registered, NEW i \in DOMAIN immediates',
               i \in DOMAIN immediates => rank[f] < rank[immediates[i]]
        PROVE  rank'[f] < rank'[immediates'[i]]
    <3>1. CASE i \in DOMAIN immediates /\ immediates'[i] = immediates[i]
      BY <3>1, <2>3, <1>4, ChainFacts
    <3>2. CASE immediates'[i] = e
      BY <3>2, <1>4, <1>5
    <3> QED BY <2>1, <3>1, <3>2
  <2>4. \A i, j \in DOMAIN immediates' : i < j => rank'[immediates'[i]] < rank'[immediates'[j]]
    <3> SUFFICES ASSUME NEW i \in DOMAIN immediates', NEW j \in DOMAIN immediates', i < j
                 PROVE  rank'[immediates'[i]] < rank'[immediates'[j]]
      OBVIOUS
    <3>1. i \in DOMAIN immediates /\ immediates'[i] = immediates[i] /\ immediates[i] \in Registered
      BY <2>2, ChainFacts
    <3>2. j \in DOMAIN immediates => rank[immediates[i]] < rank[immediates[j]]
      BY <3>1 DEF SInv, ChainInv, InLine
    <3> QED BY <3>1, <3>2, <2>3
  <2>5. \A i \in DOMAIN immediates' : \A f \in Chained : rank'[f] < rank'[immediates'[i]]
    BY <2>3, ChainFacts DEF SInv, ChainInv, InLine
  <2>6. \A i \in DOMAIN immediates' : \A p \in Scopes : \A k \in DOMAIN world[p] :
            rank'[world[p][k]] < rank'[immediates'[i]]
    BY <2>3, ChainFacts DEF SInv, ChainInv, InLine
  <2> QED BY <1>1, <1>2, <2>4, <2>5, <2>6 DEF InLine
<1>8. Tails' /\ Links'
  BY <1>1, <1>2, <1>4, LinksStay
<1>9. Going'
  BY <1>1, <1>3, GoingStays
<1>10. Written'
  BY <1>1, <1>2, <1>3, <1>4, WrittenStays
<1> QED BY <1>6, <1>7, <1>8, <1>9, <1>10 DEF ChainInv

(* The first callback is due: its operation is given up, or chained as the *)
(* youngest.                                                               *)
LEMMA ChainSchedules ==
    ASSUME SInv, Registered' = Registered, GiveUpScheduled \/ RunScheduled PROVE ChainInv'
<1> DEFINE e == Head(immediates)
<1>t. /\ immediates \in Seq(Events) /\ Events \subseteq Ops
      /\ tail \in [Scopes -> Events \cup {None}] /\ prev \in [Events -> Events \cup {None}]
      /\ stage \in [Ops -> Working \cup {"none", "ignored", "scheduled", "queued", "settled"}]
  BY ChainTypes DEF SInv
<1>1. immediates # <<>> /\ immediates' = Tail(immediates) /\ UNCHANGED <<world, count, rank>>
  BY DEF GiveUpScheduled, RunScheduled, ranks
<1>2. /\ e = immediates[1] /\ 1 \in DOMAIN immediates /\ immediates' \in Seq(Events)
      /\ \A i \in DOMAIN immediates' : i + 1 \in DOMAIN immediates /\ immediates'[i] = immediates[i + 1]
  BY <1>1, <1>t, HeadTail
<1>3. e \in Registered /\ e \in Events /\ stage[e] = "scheduled" /\ e \notin Chained
  BY <1>2, ChainFacts DEF Chained, Working
<1> HIDE DEF e
<1>4. ASSUME Chained' \subseteq Chained \cup {e} PROVE Ranked' /\ InLine'
  BY <1>1, <1>2, <1>4, InLineStays, 1 \in {0, 1}
<1>5. CASE GiveUpScheduled
  <2>1. stage' = [stage EXCEPT ![e] = "settled"] /\ UNCHANGED <<tail, prev>>
    BY <1>5 DEF GiveUpScheduled, Settle, chainVars, e
  <2>2. Chained' = Chained
    BY <2>1, <1>3, <1>t DEF Chained, Working
  <2>3. /\ \A f \in Events : stage[f] = "settled" => stage'[f] = "settled"
        /\ \A f \in Events : stage'[f] \in Working => stage[f] \in Working
        /\ \A f \in Events : stage[f] \in {"published", "settled"} => stage'[f] \in {"published", "settled"}
    BY <2>1, <1>t DEF Working
  <2> QED BY <1>1, <1>4, <2>1, <2>2, <2>3, LinksStay, GoingStays, WrittenStays DEF ChainInv
<1>6. CASE RunScheduled
  <2> DEFINE p == Project(e)
  <2>p. p \in Scopes /\ \A f \in Events : Project(f) \in Scopes
    BY <1>3, ChainTypes DEF SInv
  <2> HIDE DEF p
  <2>1. /\ stage' = [stage EXCEPT ![e] = "queued"]
        /\ prev' = [prev EXCEPT ![e] = tail[p]] /\ tail' = [tail EXCEPT ![p] = e]
    BY <1>6 DEF RunScheduled, e, p
  <2>2. Chained' = Chained \cup {e}
    BY <2>1, <1>3, <1>t DEF Chained
  <2>3. /\ \A f \in Events : f # e => stage'[f] = stage[f] /\ prev'[f] = prev[f]
        /\ prev'[e] = tail[p] /\ stage'[e] = "queued"
        /\ tail'[p] = e /\ \A q \in Scopes : q # p => tail'[q] = tail[q]
    BY <2>1, <1>3, <2>p, <1>t
  <2>4. /\ \A f \in Chained : f \in Events /\ f # e /\ rank[f] \in Nat /\ rank[f] < rank[e]
        /\ rank[e] \in Nat
    BY <1>2, <1>3, ChainFacts DEF SInv, ChainInv, InLine
  <2>5. \A q \in Scopes : \A i \in DOMAIN world[q] : rank[world[q][i]] < rank[e] /\ world[q][i] # e
    BY <1>2, <1>3, <2>4, ChainFacts DEF SInv, ChainInv, InLine
  <2>6. e # None
    BY <1>3, SessionAssumption DEF SessionAssumption
  <2>7. Tails'
    <3>1. \A f \in Chained' : tail'[Project(f)] # None /\ rank[f] <= rank[tail'[Project(f)]]
      <4> SUFFICES ASSUME NEW f \in Chained'
                   PROVE  tail'[Project(f)] # None /\ rank[f] <= rank[tail'[Project(f)]]
        OBVIOUS
      <4>1. CASE Project(f) = p
        BY <4>1, <2>2, <2>3, <2>4, <2>6
      <4>2. CASE Project(f) # p
        <5>1. f \in Chained /\ Project(f) \in Scopes
          BY <4>2, <2>2, <2>p, <2>4 DEF p
        <5> QED BY <4>2, <5>1, <2>3 DEF SInv, ChainInv, Tails
      <4> QED BY <4>1, <4>2
    <3>2. \A q \in Scopes : tail'[q] # None => tail'[q] \in Chained' /\ Project(tail'[q]) = q
      BY <2>2, <2>3 DEF SInv, ChainInv, Tails, p
    <3> QED BY <1>1, <3>1, <3>2 DEF Tails
  <2>8. Links'
    <3> SUFFICES ASSUME NEW f \in Chained', NEW g \in Chained', Project(f) = Project(g), rank[f] < rank[g]
                 PROVE  /\ prev'[g] # None /\ prev'[g] \in Chained' /\ Project(prev'[g]) = Project(g)
                        /\ rank[f] <= rank[prev'[g]]
      BY <1>1 DEF Links
    <3>1. f \in Chained
      BY <2>2, <2>4
    <3>2. CASE g = e
      <4>1. Project(f) = p
        BY <3>2 DEF p
      <4> QED BY <3>1, <3>2, <4>1, <2>2, <2>3, <2>p DEF SInv, ChainInv, Tails, p
    <3>3. CASE g # e
      <4>1. g \in Chained /\ prev'[g] = prev[g]
        BY <3>3, <2>2, <2>3, <2>4
      <4> QED BY <3>1, <4>1, <2>2 DEF SInv, ChainInv, Links
    <3> QED BY <3>2, <3>3
  <2>9. Going'
    <3> SUFFICES ASSUME NEW f \in Events, stage'[f] \in Working, prev'[f] # None
                 PROVE  stage'[prev'[f]] = "settled"
      BY DEF Going, ChainReady
    <3>1. f # e /\ stage[f] \in Working /\ prev'[f] = prev[f]
      BY <2>3 DEF Working
    <3>2. prev[f] \in Events /\ stage[prev[f]] = "settled"
      BY <3>1, <1>t DEF SInv, ChainInv, Going, ChainReady
    <3> QED BY <3>1, <3>2, <2>3, <1>3
  <2>10. Written'
    <3> SUFFICES ASSUME NEW q \in Scopes, NEW i \in DOMAIN world[q]
                 PROVE  /\ stage'[world[q][i]] \in {"published", "settled"} /\ Project(world[q][i]) = q
                        /\ \A j \in DOMAIN world[q] : i < j => rank[world[q][i]] < rank[world[q][j]]
                        /\ \A f \in Chained' : Project(f) = q =>
                              world[q][i] = f \/ rank[world[q][i]] < rank[f]
      BY <1>1 DEF Written
    <3>1. world[q][i] \in Events /\ stage'[world[q][i]] = stage[world[q][i]]
      BY <2>3, <2>5, ChainFacts
    <3> QED BY <3>1, <2>2, <2>5 DEF SInv, ChainInv, Written
  <2> QED BY <1>4, <2>2, <2>7, <2>8, <2>9, <2>10 DEF ChainInv
<1> QED BY <1>5, <1>6

(* The chained operation starts, its predecessor having settled. *)
LEMMA ChainStart ==
    ASSUME SInv, Registered' = Registered, NEW e \in Events, Start(e) PROVE ChainInv'
<1>t. /\ immediates \in Seq(Events) /\ Events \subseteq Ops
      /\ stage \in [Ops -> Working \cup {"none", "ignored", "scheduled", "queued", "settled"}]
  BY ChainTypes DEF SInv
<1>1. /\ stage[e] = "queued" /\ ChainReady(e) /\ stage' = [stage EXCEPT ![e] = "ready"]
      /\ UNCHANGED <<immediates, tail, prev, world, count, rank>>
  BY DEF Start, chainVars, ranks
<1>2. Chained' = Chained
  BY <1>1, <1>t DEF Chained, Working
<1>3. /\ \A f \in Events : stage[f] = "settled" => stage'[f] = "settled"
      /\ \A f \in Events : stage'[f] \in Working => stage[f] \in Working \/ f = e
      /\ \A f \in Events : stage[f] \in {"published", "settled"} => stage'[f] \in {"published", "settled"}
  BY <1>1, <1>t
<1>4. Ranked' /\ InLine'
  BY <1>1, <1>2, <1>t, InLineStays, 0 \in {0, 1}
<1>5. Going'
  BY <1>1, <1>3, GoingStays
<1> QED BY <1>1, <1>2, <1>3, <1>4, <1>5, LinksStay, WrittenStays DEF ChainInv

(* A memory is published: of what is chained in its project its operation  *)
(* is the oldest, and all that is published already is older.              *)
LEMMA ChainPublish ==
    ASSUME SInv, Registered' = Registered, NEW e \in Events, Publish(e) PROVE ChainInv'
<1> DEFINE p == Project(e)
<1>t. /\ immediates \in Seq(Events) /\ Events \subseteq Ops /\ world \in [Scopes -> Seq(Events)]
      /\ stage \in [Ops -> Working \cup {"none", "ignored", "scheduled", "queued", "settled"}]
      /\ p \in Scopes
  BY ChainTypes DEF SInv
<1>1. /\ stage[e] = "ready" /\ stage' = [stage EXCEPT ![e] = "published"]
      /\ world' = [world EXCEPT ![p] = Append(world[p], e)]
      /\ UNCHANGED <<immediates, tail, prev, count, rank>>
  BY DEF Publish, chainVars, ranks
<1>2. Chained' = Chained /\ e \in Chained
  BY <1>1, <1>t DEF Chained, Working
<1>3. /\ \A f \in Events : stage[f] = "settled" => stage'[f] = "settled"
      /\ \A f \in Events : stage'[f] \in Working => stage[f] \in Working
      /\ \A f \in Events : stage[f] \in {"published", "settled"} => stage'[f] \in {"published", "settled"}
      /\ stage'[e] = "published" /\ stage[e] \in Working
  BY <1>1, <1>t DEF Working
<1>4. \A q \in Scopes : q # p => world'[q] = world[q]
  BY <1>1, <1>t
<1>5. /\ \A i \in DOMAIN world'[p] : \/ i \in DOMAIN world[p] /\ world'[p][i] = world[p][i]
                                   \/ world'[p][i] = e
      /\ \A i, j \in DOMAIN world'[p] : i < j => i \in DOMAIN world[p] /\ world'[p][i] = world[p][i]
  <2>1. world[p] \in Seq(Events) /\ world'[p] = Append(world[p], e)
    BY <1>1, <1>t
  <2> QED BY <2>1, Appended
<1>6. \A f \in Chained : Project(f) = p => f = e \/ rank[e] < rank[f]
  BY <1>2, <1>3, AtWorkAlone DEF Chained
<1> HIDE DEF p
<1>7. Ranked' /\ InLine'
  <2>1. \A q \in Scopes : \A k \in DOMAIN world'[q] :
          world'[q][k] \in Chained \/ (k \in DOMAIN world[q] /\ world'[q][k] = world[q][k])
    BY <1>2, <1>4, <1>5
  <2>2. \A i \in DOMAIN immediates' : i + 0 \in DOMAIN immediates /\ immediates'[i] = immediates[i + 0]
    BY <1>1, <1>t
  <2> QED BY <1>1, <1>2, <1>t, <2>1, <2>2, InLineStays, 0 \in {0, 1}
<1>8. Tails' /\ Links'
  BY <1>1, <1>2, LinksStay
<1>9. Going'
  BY <1>1, <1>3, GoingStays
<1>10. Written'
  <2> SUFFICES ASSUME NEW q \in Scopes, NEW i \in DOMAIN world'[q]
               PROVE  /\ stage'[world'[q][i]] \in {"published", "settled"} /\ Project(world'[q][i]) = q
                      /\ \A j \in DOMAIN world'[q] : i < j => rank[world'[q][i]] < rank[world'[q][j]]
                      /\ \A f \in Chained : Project(f) = q =>
                            world'[q][i] = f \/ rank[world'[q][i]] < rank[f]
    BY <1>1, <1>2 DEF Written
  <2>0. ASSUME i \in DOMAIN world[q]
        PROVE  /\ stage[world[q][i]] \in {"published", "settled"} /\ Project(world[q][i]) = q
               /\ \A j \in DOMAIN world[q] : i < j => rank[world[q][i]] < rank[world[q][j]]
               /\ \A f \in Chained : Project(f) = q => world[q][i] = f \/ rank[world[q][i]] < rank[f]
               /\ world[q][i] \in Events
    BY <2>0, ChainFacts DEF SInv, ChainInv, Written
  <2>1. CASE q # p
    BY <2>0, <2>1, <1>3, <1>4
  <2>2. CASE q = p /\ i \in DOMAIN world[p] /\ world'[p][i] = world[p][i]
    <3>1. rank[world[p][i]] < rank[e]
      <4>1. world[p][i] # e /\ Project(e) = p
        BY <2>0, <2>2, <1>1 DEF p
      <4> QED BY <4>1, <2>0, <2>2, <1>2
    <3>2. \A j \in DOMAIN world'[p] : i < j => rank[world[p][i]] < rank[world'[p][j]]
      BY <3>1, <2>0, <2>2, <1>5
    <3> QED BY <2>0, <2>2, <3>2, <1>3
  <2>3. CASE q = p /\ i \notin DOMAIN world[p] /\ world'[p][i] = e
    <3>1. Project(e) = p
      BY DEF p
    <3> QED BY <2>3, <3>1, <1>3, <1>5, <1>6
  <2>4. CASE q = p /\ i \in DOMAIN world[p] /\ world'[p][i] # world[p][i]
    <3>1. i \in DOMAIN world'[p] /\ world'[p][i] = world[p][i]
      <4>1. world[p] \in Seq(Events) /\ world'[p] = Append(world[p], e)
        BY <1>1, <1>t
      <4> QED BY <4>1, <2>4
    <3> QED BY <2>4, <3>1
  <2> QED BY <2>1, <2>2, <2>3, <2>4, <1>5
<1> QED BY <1>7, <1>8, <1>9, <1>10 DEF ChainInv

(* An operation leaves the chain.  It was the oldest of its project, so    *)
(* nothing hangs on it that has an older one still, and the project is     *)
(* forgotten only if it was the only one.                                  *)
LEMMA ChainFinish ==
    ASSUME SInv, Registered' = Registered, NEW e \in Events, Finish(e) PROVE ChainInv'
<1> DEFINE p == Project(e)
<1>t. /\ immediates \in Seq(Events) /\ Events \subseteq Ops /\ rank \in [Events -> Nat]
      /\ tail \in [Scopes -> Events \cup {None}] /\ prev \in [Events -> Events \cup {None}]
      /\ stage \in [Ops -> Working \cup {"none", "ignored", "scheduled", "queued", "settled"}]
      /\ p \in Scopes /\ \A f \in Events : Project(f) \in Scopes
  BY ChainTypes DEF SInv
<1>1. /\ stage[e] \in Working /\ stage' = [stage EXCEPT ![e] = "settled"]
      /\ tail' = [tail EXCEPT ![p] = IF @ = e THEN None ELSE @]
      /\ UNCHANGED <<immediates, prev, world, count, rank>>
  BY DEF Finish, Settle, LeaveChain, Working, ranks
<1>2. Chained' = Chained \ {e} /\ e \in Chained
  BY <1>1, <1>t DEF Chained, Working
<1>3. /\ \A f \in Events : stage[f] = "settled" => stage'[f] = "settled"
      /\ \A f \in Events : stage'[f] \in Working => stage[f] \in Working
      /\ \A f \in Events : stage[f] \in {"published", "settled"} => stage'[f] \in {"published", "settled"}
  BY <1>1, <1>t DEF Working
<1>4. \A f \in Chained' : Project(f) = p => f \in Events /\ rank[e] < rank[f]
  BY <1>1, <1>2, AtWorkAlone DEF Chained
<1>5. \A q \in Scopes : tail'[q] = tail[q] \/ (q = p /\ tail[q] = e /\ tail'[q] = None)
  BY <1>1, <1>t
<1>6. Ranked' /\ InLine'
  <2>1. \A i \in DOMAIN immediates' : i + 0 \in DOMAIN immediates /\ immediates'[i] = immediates[i + 0]
    BY <1>1, <1>t
  <2> QED BY <1>1, <1>2, <1>t, <2>1, InLineStays, 0 \in {0, 1}
<1>7. Tails'
  <2>1. ASSUME NEW f \in Chained'
        PROVE  tail'[Project(f)] # None /\ rank[f] <= rank[tail'[Project(f)]]
    <3>1. f \in Events /\ Project(f) \in Scopes /\ tail[Project(f)] # None /\ rank[f] <= rank[tail[Project(f)]]
      BY <1>2, <1>t DEF SInv, ChainInv, Tails, Chained
    <3>2. ~(Project(f) = p /\ tail[p] = e)
      BY <3>1, <1>4, <1>t
    <3> QED BY <3>1, <3>2, <1>5
  <2>2. \A q \in Scopes : tail'[q] # None => tail'[q] \in Chained' /\ Project(tail'[q]) = q
    <3> SUFFICES ASSUME NEW q \in Scopes, tail'[q] # None
                 PROVE  tail'[q] \in Chained' /\ Project(tail'[q]) = q
      OBVIOUS
    <3>1. tail'[q] = tail[q] /\ tail[q] \in Chained /\ Project(tail[q]) = q
      BY <1>5 DEF SInv, ChainInv, Tails
    <3>2. tail[q] # e
      BY <3>1, <1>1, <1>t
    <3> QED BY <3>1, <3>2, <1>2
  <2> QED BY <2>1, <2>2, <1>1 DEF Tails
<1>8. Links'
  <2> SUFFICES ASSUME NEW f \in Chained', NEW g \in Chained', Project(f) = Project(g), rank[f] < rank[g]
               PROVE  /\ prev[g] # None /\ prev[g] \in Chained' /\ Project(prev[g]) = Project(g)
                      /\ rank[f] <= rank[prev[g]]
    BY <1>1 DEF Links
  <2>1. /\ prev[g] # None /\ prev[g] \in Chained /\ Project(prev[g]) = Project(g)
        /\ rank[f] <= rank[prev[g]]
    BY <1>2 DEF SInv, ChainInv, Links
  <2>2. prev[g] # e
    <3>1. SUFFICES ASSUME prev[g] = e PROVE FALSE
      OBVIOUS
    <3>2. Project(f) = p /\ rank[f] <= rank[e]
      BY <2>1, <3>1
    <3>3. f \in Events /\ rank[e] < rank[f]
      BY <1>4, <3>2
    <3>4. rank[f] \in Nat /\ rank[e] \in Nat
      BY <1>t, <3>3
    <3> QED BY <3>2, <3>3, <3>4
  <2> QED BY <2>1, <2>2, <1>2
<1>9. Going'
  BY <1>1, <1>3, GoingStays
<1>10. Written'
  BY <1>1, <1>2, <1>3, WrittenStays
<1> QED BY <1>6, <1>7, <1>8, <1>9, <1>10 DEF ChainInv

LEMMA ChainKept == ASSUME SInv, [Next]_vars PROVE ChainInv'
<1>0. TypeOK /\ Books
  BY DEF SInv
<1>1. CASE UNCHANGED vars \/ Local
  <2>1. UNCHANGED <<immediates, tail, prev, world, count, rank>> /\ \A e \in Events : Shifts(e)
    BY <1>0, <1>1, LocalShifts DEF vars, chainVars, ranks, Shifts
  <2> QED BY <2>1, ChainShifts
<1>2. ASSUME NEW e \in Events, TurnEnd(e) PROVE ChainInv'
  BY <1>2, ChainTurnEnd
<1>3. ASSUME NEW e \in Events, Start(e) \/ Publish(e) \/ Finish(e) PROVE ChainInv'
  <2>1. Registered' = Registered
    <3>1. \A f \in Events : ~(TurnEnd(f) /\ Registered' = Registered \cup {f})
      <4> SUFFICES ASSUME NEW f \in Events, TurnEnd(f) PROVE FALSE
        OBVIOUS
      <4>1. stage' = [stage EXCEPT ![f] = "scheduled"] /\ stage[f] = "none"
        BY DEF TurnEnd
      <4>2. stage'[e] # stage[e] /\ stage[e] # "none"
        BY <1>3, <1>0, ChainTypes DEF Start, Publish, Finish, Settle
      <4> QED BY <4>1, <4>2, <1>0, ChainTypes
    <3>2. Next
      BY <1>3 DEF Next, Consolidates
    <3> QED BY <3>1, <3>2, <1>0, RegisteredSame
  <2> QED BY <1>3, <2>1, ChainStart, ChainPublish, ChainFinish
<1>4. CASE GiveUpScheduled \/ RunScheduled
  <2>1. Registered' = Registered
    <3>1. \A f \in Events : ~(TurnEnd(f) /\ Registered' = Registered \cup {f})
      BY <1>4 DEF TurnEnd, GiveUpScheduled, RunScheduled, ranks
    <3>2. Next
      BY <1>4 DEF Next, Schedules
    <3> QED BY <3>1, <3>2, <1>0, RegisteredSame
  <2> QED BY <1>4, <2>1, ChainSchedules
<1> QED BY <1>1, <1>2, <1>3, <1>4, Steps

(* The chain's invariant holds for ever. *)
THEOREM ChainInvariant == Spec => []SInv
<1>1. Init => SInv
  BY TypeInit, WaitsInit, ChainInit DEF WInv, SInv
<1>2. SInv /\ TypeOK' /\ [Next]_vars => SInv'
  BY BooksKept, ChainKept DEF SInv
<1> QED BY <1>1, <1>2, TypeCorrect, PTL DEF Spec

(* Two consolidations of one project are never at work at once. *)
THEOREM NeverTwo == Spec => []OneAtATime
<1>1. SInv => OneAtATime
  <2> SUFFICES ASSUME SInv, NEW e \in Events, NEW f \in Events, stage[e] \in Working,
                      stage[f] \in Working, Project(e) = Project(f), e # f
               PROVE  FALSE
    BY DEF OneAtATime
  <2>1. e \in Chained
    BY DEF Chained
  <2> QED BY <2>1, AtWorkAlone
<1> QED BY <1>1, ChainInvariant, PTL

(* The memories of a project are published in the order their turns ended. *)
THEOREM InOrder == Spec => []PublishedInOrder
<1>1. SInv => PublishedInOrder
  BY DEF SInv, ChainInv, Written, PublishedInOrder
<1> QED BY <1>1, ChainInvariant, PTL


-----------------------------------------------------------------------------
(* Third part: recall.  The facts of the first two parts about Session are *)
(* not used here.                                                          *)
HIDE SessionAssumption DEF SessionAssumption

(* The states of the variables. *)
RecallWorlds == [governed : BOOLEAN, home : [Memory -> Node \cup {Nowhere}]]
Bindings     == [pin : RecallWorlds, state : {"offered", "running", "completed"}, refs : Seq(Ref)]
Takings      == [refs : SUBSET Ref, due : SUBSET Ref]

Walks ==
    [status : {"running"}, turn : Turn, route : {"map", "legacy"}, world : RecallWorlds,
     stage : {"root", "summary", "titles", "confirm"}, node : Node \cup {Root}, depth : Nat, steps : Nat,
     candidates : Seq(Ref), aims : SUBSET Memory, seen : SUBSET Memory, read : SUBSET Memory,
     told : Seq(Ref)]

Walked ==
    [status : {"completed", "no_match"}, turn : Turn, route : {"map", "legacy"}, world : RecallWorlds,
     aims : SUBSET Memory, seen : SUBSET Memory, read : SUBSET Ref, told : Seq(Ref)]

Failed == [status : {"failed"}, turn : Turn]

RecallType ==
    /\ parent \in [Node -> Node \cup {Root}] /\ ValidTree(parent)
    /\ current \in RecallWorlds
    /\ turn \in [at : 0 .. MaxTurn, phase : {"over", "open", "gone"}, aborted : SUBSET (0 .. MaxTurn)]
    /\ offer \in [Turn -> [pc : {"none", "begun", "read", "done"}, read : RecallWorlds \cup {Nowhere}]]
    /\ binding \in [Turn -> Bindings \cup {Nowhere}]
    /\ kept \subseteq Turn
    /\ tool \in [Call -> [status : {"idle", "refused"}] \cup Walks \cup Walked \cup Failed]
    /\ used \in [Turn -> Takings \cup {Nowhere}]
    /\ served \in [Turn -> SUBSET RecallWorlds]

(* A turn that has begun has been served what CURRENT names; what its      *)
(* handler read, and what its tool is bound to, was served in it.          *)
Timely ==
    \A t \in Turn :
        /\ offer[t].pc # "none" => t <= turn.at
        /\ t <= turn.at => current \in served[t]
        /\ offer[t].pc = "read" => offer[t].read \in served[t]
        /\ t \in kept => offer[t].pc = "done" /\ binding[t] \in Bindings /\ binding[t].pin \in served[t]

(* A call the tool let in.  It owns the binding of its turn: it is the only*)
(* one of the turn, the binding goes with it, and can be found until the   *)
(* end of the turn was handled or the agent was cleared.                   *)
LetIn(c) == tool[c].status \notin {"idle", "refused"}

Owns(c) ==
    LET t == tool[c].turn IN
    /\ offer[t].pc = "done" /\ binding[t] \in Bindings
    /\ tool[c].status = "running" => binding[t].state = "running"
    /\ tool[c].status # "running" => binding[t].state = "completed"
    /\ tool[c].status = "completed" => binding[t].refs = tool[c].told
    /\ tool[c].status \in {"no_match", "failed"} => binding[t].refs = <<>>
    /\ turn.phase = "gone" => t \notin kept
    /\ turn.phase # "gone" => t \in kept \/ used[t] # Nowhere

Owned ==
    /\ \A c \in Call : LetIn(c) => Owns(c)
    /\ \A c, d \in Call : LetIn(c) /\ LetIn(d) /\ tool[c].turn = tool[d].turn => c = d
    /\ \A t \in kept : binding[t].state # "offered" => \E c \in Call : LetIn(c) /\ tool[c].turn = t

(* The levels of the catalog, below the root.                              *)
Level(p, n, d) ==
    /\ n \in Node
    /\ d = 0 => p[n] = Root
    /\ d = 1 => p[n] \in Node /\ p[p[n]] = Root
    /\ d = 2 => p[n] \in Node /\ p[p[n]] \in Node /\ p[p[p[n]]] = Root

(* Where a walk is, when its turn was served the worlds in s: how deep,    *)
(* after how many steps, and with what in sight, disclosed and aimed at.   *)
OnWay(w, s, p) ==
    /\ w.world \in s /\ (w.route = "legacy" => ~w.world.governed)
    /\ w.read = {} /\ w.told = <<>> /\ w.seen \subseteq Attached(w.world)
    /\ w.stage = "root" => w.depth = 0 /\ w.steps = 0
    /\ w.stage = "summary" => w.depth \in 0 .. 2 /\ Level(p, w.node, w.depth) /\ w.steps = 2 * w.depth + 1
    /\ w.stage = "titles" => w.depth \in 0 .. 2 /\ Level(p, w.node, w.depth) /\ w.steps = 2 * w.depth + 2
    /\ w.stage = "confirm" =>
          /\ w.steps <= 7 /\ Range(w.candidates) \subseteq w.seen
          /\ w.aims # {} => Len(w.candidates) = 1 /\ w.aims \subseteq Range(w.candidates)

Arrived(w, s) ==
    /\ w.world \in s /\ (w.route = "legacy" => ~w.world.governed)
    /\ Range(w.told) \subseteq w.read /\ w.read \subseteq w.seen /\ w.seen \subseteq Attached(w.world)
    /\ w.status = "no_match" => w.aims = {}
    /\ w.aims \subseteq Range(w.told)

Guided ==
    \A c \in Call :
        /\ tool[c].status = "running" => OnWay(tool[c], served[tool[c].turn], parent)
        /\ tool[c].status \in {"completed", "no_match"} => Arrived(tool[c], served[tool[c].turn])

UsedIsDue == \A t \in Turn : used[t] # Nowhere => used[t].refs = used[t].due

RInv == RecallType /\ Timely /\ Owned /\ Guided /\ UsedIsDue

-----------------------------------------------------------------------------
(* The operators of the walk.                                              *)

LEMMA RecallConstants ==
    /\ IsFiniteSet(Ref) /\ Memory \cap Node = {} /\ Root \notin Ref
    /\ Order \in Seq(Ref) /\ Order # <<>>
    /\ PageSize \in Nat \ {0} /\ TitleLimit \in Nat \ {0} /\ CandidateLimit \in Nat \ {0}
    /\ ConfirmLimit \in Nat \ {0} /\ MaxTurn \in Nat
    /\ Nowhere \notin Ref /\ Nowhere # Root /\ Nowhere \notin Takings
BY RecallAssumption DEF RecallAssumption, Ref, Takings

(* A set that holds 0 and every successor of its numbers holds every       *)
(* number.                                                                 *)
LEMMA RecallNaturals ==
    ASSUME NEW S, 0 \in S, \A n \in Nat : n \in S => n + 1 \in S
    PROVE  Nat \subseteq S
<1> SUFFICES ASSUME ~(Nat \subseteq S) PROVE FALSE
  OBVIOUS
<1> DEFINE B == Nat \ S
<1>1. PICK m \in B : \A y \in B : <<y, m>> \notin OpToRel(<, Nat)
  BY NatLessThanWellFounded, WFMin
<1>2. \A y \in B : ~ (y < m)
  BY <1>1, Zenon DEF OpToRel
<1>3. m \in Nat /\ m \notin S /\ m # 0
  OBVIOUS
<1>4. m - 1 \in Nat /\ m - 1 < m /\ (m - 1) + 1 = m
  BY <1>3
<1>5. m - 1 \in S
  BY <1>2, <1>4
<1> QED BY <1>3, <1>4, <1>5

(* The beginning of a sequence. *)
LEMMA FirstOf ==
    ASSUME NEW s \in Seq(Ref), NEW n \in Nat \ {0}
    PROVE  /\ First(s, n) \in Seq(Ref) /\ Range(First(s, n)) \subseteq Range(s)
           /\ s # <<>> => First(s, n) # <<>>
           /\ Len(s) = 1 => First(s, n) = s
<1>1. PICK k \in Nat : k = IF Len(s) < n THEN Len(s) ELSE n
  OBVIOUS
<1>2. k <= Len(s) /\ (Len(s) # 0 => k # 0) /\ (Len(s) = 1 => k = 1)
  BY <1>1
<1>3. First(s, n) = SubSeq(s, 1, k)
  BY <1>1, Zenon DEF First
<1> DEFINE f == SubSeq(s, 1, k)
<1>4. f \in Seq(Ref) /\ Len(f) = k /\ \A i \in 1 .. k : f[i] = s[i]
  BY <1>2
<1>5. DOMAIN f = 1 .. k /\ 1 .. k \subseteq DOMAIN s
  BY <1>2, <1>4
<1> HIDE DEF f
<1>6. Range(f) \subseteq Range(s)
  BY <1>4, <1>5 DEF Range
<1>7. s # <<>> => f # <<>>
  BY <1>2, <1>4
<1>8. Len(s) = 1 => f = s
  BY <1>2, <1>4
<1> QED BY <1>3, <1>4, <1>6, <1>7, <1>8 DEF f

(* A decision names what was offered. *)
LEMMA SelectIn ==
    ASSUME NEW offered, NEW n \in Nat \ {0}, NEW s \in Select(offered, n)
    PROVE  s \in Seq(Ref) /\ Range(s) \subseteq offered
<1>1. PICK d \in Decisions : Range(d) \subseteq offered /\ s = First(d, n)
  BY DEF Select
<1>2. d \in Seq(Ref)
  <2>1. PICK k \in 0 .. MaxPicks : d \in [1 .. k -> Ref]
    BY <1>1 DEF Decisions
  <2> QED BY <2>1
<1> QED BY <1>1, <1>2, FirstOf

(* Both parts of a sequence. *)
LEMMA JoinedIn ==
    ASSUME NEW X, NEW s \in Seq(Ref), NEW t \in Seq(Ref), Range(s) \subseteq X, Range(t) \subseteq X
    PROVE  s \o t \in Seq(Ref) /\ Range(s \o t) \subseteq X
<1> DEFINE j == s \o t
<1>1. j \in Seq(Ref) /\ Len(j) = Len(s) + Len(t)
  OBVIOUS
<1>2. \A i \in 1 .. Len(j) : IF i <= Len(s) THEN j[i] = s[i] ELSE j[i] = t[i - Len(s)]
  OBVIOUS
<1> HIDE DEF j
<1>3. ASSUME NEW i \in 1 .. Len(j) PROVE j[i] \in X
  <2>1. CASE i <= Len(s)
    BY <1>1, <1>2, <2>1 DEF Range
  <2>2. CASE ~(i <= Len(s))
    <3>1. j[i] = t[i - Len(s)] /\ i - Len(s) \in DOMAIN t
      BY <1>1, <1>2, <2>2
    <3> QED BY <3>1 DEF Range
  <2> QED BY <2>1, <2>2
<1>4. Range(j) \subseteq X
  BY <1>1, <1>3 DEF Range
<1> QED BY <1>1, <1>4 DEF j

(* What the decisions of the first pages may come to, page by page. *)
Piled(f, pages, limit, n) ==
    f = [i \in 0 .. n |->
            IF i = 0 THEN {<<>>} ELSE Joined(f[i - 1], Select(pages[i], limit))]

(* There is such a pile for every number of pages. *)
LEMMA PileExists ==
    ASSUME NEW pages, NEW limit, NEW n \in Nat PROVE \E f : Piled(f, pages, limit, n)
<1> DEFINE More(S, i) == Joined(S, Select(pages[i], limit))
           N == {k \in Nat : \E f : Piled(f, pages, limit, k)}
<1>1. 0 \in N
  <2> DEFINE f == [i \in 0 .. 0 |-> {<<>>}]
  <2>1. f = [i \in 0 .. 0 |-> IF i = 0 THEN {<<>>} ELSE More(f[i - 1], i)]
    OBVIOUS
  <2>2. Piled(f, pages, limit, 0)
    BY <2>1, Zenon DEF Piled
  <2> QED BY <2>2
<1>2. ASSUME NEW k \in Nat, k \in N PROVE k + 1 \in N
  <2>1. PICK f : Piled(f, pages, limit, k)
    BY <1>2
  <2> DEFINE g == [i \in 0 .. (k + 1) |-> IF i = k + 1 THEN More(f[k], i) ELSE f[i]]
             m(i) == IF i = 0 THEN {<<>>} ELSE More(f[i - 1], i)
             h(i) == IF i = 0 THEN {<<>>} ELSE More(g[i - 1], i)
  <2>2. f = [i \in 0 .. k |-> m(i)]
    BY <2>1, Zenon DEF Piled
  <2>3. \A i \in 0 .. k : f[i] = m(i)
    <3> HIDE DEF m
    <3> QED BY <2>2
  <2>4. g[k + 1] = More(f[k], k + 1) /\ \A i \in 0 .. k : g[i] = f[i]
    <3> HIDE DEF More, N
    <3> QED OBVIOUS
  <2>5. \A i \in 0 .. (k + 1) : g[i] = h(i)
    <3> TAKE i \in 0 .. (k + 1)
    <3>1. CASE i = 0
      BY <2>3, <2>4, <3>1
    <3>2. CASE i = k + 1
      <4>1. i # 0 /\ g[i - 1] = f[k] /\ g[i] = More(f[k], i)
        <5> HIDE DEF More, N, g
        <5> QED BY <2>4, <3>2
      <4> HIDE DEF More, N, g
      <4>2. h(i) = More(g[i - 1], i)
        BY <4>1, Zenon
      <4> QED BY <4>1, <4>2
    <3>3. CASE i # 0 /\ i # k + 1
      <4>1. i \in 0 .. k /\ g[i] = f[i] /\ g[i - 1] = f[i - 1]
        <5> HIDE DEF More, N, g
        <5> QED BY <2>4, <3>3
      <4>2. f[i] = m(i) /\ i # 0
        BY <2>3, <4>1, <3>3, Zenon
      <4> HIDE DEF More, N, g
      <4>3. m(i) = More(f[i - 1], i) /\ h(i) = More(g[i - 1], i)
        BY <4>2, Zenon
      <4> QED BY <4>1, <4>2, <4>3
    <3> QED BY <3>1, <3>2, <3>3
  <2>6. g = [i \in 0 .. (k + 1) |-> h(i)]
    <3>1. g = [i \in 0 .. (k + 1) |-> g[i]]
      <4> HIDE DEF More, N
      <4> QED OBVIOUS
    <3> HIDE DEF g, h
    <3> QED BY <2>5, <3>1
  <2>7. Piled(g, pages, limit, k + 1)
    <3> HIDE DEF g
    <3> QED BY <2>6, Zenon DEF Piled
  <2>8. k + 1 \in Nat
    OBVIOUS
  <2> HIDE DEF g
  <2> QED BY <2>7, <2>8, Zenon
<1> HIDE DEF N
<1>3. Nat \subseteq N
  BY <1>1, <1>2, RecallNaturals
<1> QED BY <1>3 DEF N

(* What a pile holds comes from the pages. *)
LEMMA PileIn ==
    ASSUME NEW X, NEW pages \in Seq(SUBSET X), NEW limit \in Nat \ {0}, NEW f,
           Piled(f, pages, limit, Len(pages))
    PROVE  \A s \in f[Len(pages)] : s \in Seq(Ref) /\ Range(s) \subseteq X
<1> DEFINE Good(S) == \A s \in S : s \in Seq(Ref) /\ Range(s) \subseteq X
           N == {k \in Nat : k <= Len(pages) => Good(f[k])}
           m(i) == IF i = 0 THEN {<<>>} ELSE Joined(f[i - 1], Select(pages[i], limit))
<1>0. \A i \in 0 .. Len(pages) : f[i] = m(i)
  <2>1. f = [i \in 0 .. Len(pages) |-> m(i)]
    BY Zenon DEF Piled
  <2> HIDE DEF m
  <2> QED BY <2>1
<1>1. 0 \in N
  <2>1. f[0] = {<<>>}
    BY <1>0
  <2>2. <<>> \in Seq(Ref) /\ Range(<<>>) = {}
    BY DEF Range
  <2> QED BY <2>1, <2>2
<1>2. ASSUME NEW k \in Nat, k \in N PROVE k + 1 \in N
  <2> SUFFICES ASSUME k + 1 <= Len(pages) PROVE Good(f[k + 1])
    OBVIOUS
  <2>1. k <= Len(pages) /\ k + 1 \in 0 .. Len(pages) /\ k + 1 # 0 /\ (k + 1) - 1 = k
    OBVIOUS
  <2>2. Good(f[k])
    BY <1>2, <2>1
  <2>3. f[k + 1] = Joined(f[k], Select(pages[k + 1], limit))
    <3>1. f[k + 1] = m(k + 1)
      BY <1>0, <2>1
    <3>2. m(k + 1) = Joined(f[(k + 1) - 1], Select(pages[k + 1], limit))
      BY <2>1, Zenon
    <3> QED BY <2>1, <3>1, <3>2, Zenon
  <2>4. pages[k + 1] \subseteq X
    BY <2>1
  <2>5. ASSUME NEW x \in f[k + 1] PROVE x \in Seq(Ref) /\ Range(x) \subseteq X
    <3>1. PICK s \in f[k], t \in Select(pages[k + 1], limit) : x = s \o t
      BY <2>3 DEF Joined
    <3>2. t \in Seq(Ref) /\ Range(t) \subseteq X
      BY <2>4, SelectIn
    <3>3. s \in Seq(Ref) /\ Range(s) \subseteq X
      BY <2>2
    <3> QED BY <3>1, <3>2, <3>3, JoinedIn
  <2> QED BY <2>5
<1> HIDE DEF N
<1>3. Nat \subseteq N
  BY <1>1, <1>2, RecallNaturals
<1>4. Good(f[Len(pages)])
  BY <1>3 DEF N
<1> QED BY <1>4

(* A round names what some page offered. *)
LEMMA RoundIn ==
    ASSUME NEW X, NEW pages \in Seq(SUBSET X), NEW limit \in Nat \ {0}, NEW s \in Round(pages, limit)
    PROVE  s \in Seq(Ref) /\ Range(s) \subseteq X
<1> DEFINE taken == CHOOSE f : Piled(f, pages, limit, Len(pages))
<1>0. Len(pages) \in Nat
  OBVIOUS
<1>1. \E f : Piled(f, pages, limit, Len(pages))
  BY ONLY <1>0, PileExists, Zenon
<1>2. Piled(taken, pages, limit, Len(pages))
  BY <1>1, Zenon
<1>3. Round(pages, limit) =
        UNION {IF Len(d) <= limit THEN {d} ELSE Select(Range(d), limit) : d \in taken[Len(pages)]}
  BY Zenon DEF Round, Piled
<1> HIDE DEF taken
<1>4. \A d \in taken[Len(pages)] : d \in Seq(Ref) /\ Range(d) \subseteq X
  BY <1>2, PileIn
<1>5. PICK d \in taken[Len(pages)] : s \in IF Len(d) <= limit THEN {d} ELSE Select(Range(d), limit)
  BY <1>3
<1>6. CASE Len(d) <= limit
  BY <1>4, <1>5, <1>6
<1>7. CASE ~(Len(d) <= limit)
  BY <1>4, <1>5, <1>7, SelectIn
<1> QED BY <1>6, <1>7

(* The pages of a node hold its titles. *)
LEMMA PagesIn ==
    ASSUME NEW g, NEW n, NEW size \in Nat \ {0}
    PROVE  Pages(g, n, size) \in Seq(SUBSET Titles(g, n))
<1> DEFINE all == Titles(g, n)
           place(r) == Cardinality({q \in all : Place(q) < Place(r)})
           pages == (Cardinality(all) + size - 1) \div size
           page(i) == {r \in all : place(r) \div size = i - 1}
<1>1. all \subseteq Ref
  BY DEF Titles, Children, Memories, Ref
<1>2. Cardinality(all) \in Nat
  BY <1>1, RecallConstants, FS_Subset, FS_CardinalityType
<1>3. pages \in Nat
  <2> HIDE DEF all
  <2> QED BY <1>2
<1>4. Pages(g, n, size) = [i \in 1 .. pages |-> page(i)]
  BY Zenon DEF Pages
<1>5. \A i : page(i) \in SUBSET all
  OBVIOUS
<1> HIDE DEF pages, page
<1> QED BY <1>3, <1>4, <1>5

(* A walk that a node's titles were offered to. *)
LEMMA OfferedIn ==
    ASSUME NEW g, NEW n, NEW size \in Nat \ {0}, NEW limit \in Nat \ {0},
           NEW s \in Round(Pages(g, n, size), limit)
    PROVE  s \in Seq(Ref) /\ Range(s) \subseteq Children(n) \cup Memories(g, n)
<1>1. s \in Seq(Ref) /\ Range(s) \subseteq Titles(g, n)
  BY PagesIn, RoundIn
<1> QED BY <1>1 DEF Titles

(* Every node is on one of three levels. *)
LEMMA Levels ==
    ASSUME NEW p \in [Node -> Node \cup {Root}], ValidTree(p), NEW n \in Node
    PROVE  \E d \in 0 .. 2 : Level(p, n, d)
<1> DEFINE e(u, k) == IF k = 0 THEN n ELSE IF u[k - 1] = Root THEN Root ELSE p[u[k - 1]]
           Climb(u) == u = [k \in 0 .. 3 |-> e(u, k)]
           a1 == p[n]
           a2 == IF a1 = Root THEN Root ELSE p[a1]
           a3 == IF a2 = Root THEN Root ELSE p[a2]
           c == [k \in 0 .. 3 |-> IF k = 0 THEN n ELSE IF k = 1 THEN a1 ELSE IF k = 2 THEN a2 ELSE a3]
<1>0. n # Root /\ Root \notin Node
  BY RecallConstants DEF Ref
<1>1. c[0] = n /\ c[1] = a1 /\ c[2] = a2 /\ c[3] = a3
  OBVIOUS
<1>2. \A k \in 0 .. 3 : c[k] = e(c, k)
  <2> TAKE k \in 0 .. 3
  <2> HIDE DEF c, a2, a3
  <2>1. k = 0 \/ k = 1 \/ k = 2 \/ k = 3
    OBVIOUS
  <2>2. 1 - 1 = 0 /\ 2 - 1 = 1 /\ 3 - 1 = 2
    OBVIOUS
  <2> QED BY <1>0, <1>1, <2>1, <2>2 DEF a2, a3
<1>3. Climb(c)
  <2>1. c = [k \in 0 .. 3 |-> c[k]]
    OBVIOUS
  <2> HIDE DEF c, e
  <2> QED BY <1>2, <2>1
<1> DEFINE up == CHOOSE u : Climb(u)
<1>4. Climb(up)
  BY <1>3, Zenon
<1>5. Above(p, n)[3] = up[3]
  BY Zenon DEF Above, CatalogDepth
<1> HIDE DEF up, c
<1>6. \A k \in 0 .. 3 : up[k] = e(up, k)
  <2> HIDE DEF e
  <2> QED BY <1>4
<1>7. up[0] = n /\ up[1] = a1 /\ up[2] = a2 /\ up[3] = a3
  <2>1. up[0] = n
    BY <1>6
  <2>2. up[1] = a1
    BY <1>0, <1>6, <2>1
  <2>3. up[2] = a2
    BY <1>6, <2>2
  <2>4. up[3] = a3
    <3> HIDE DEF a2
    <3> QED BY <1>6, <2>3
  <2> QED BY <2>1, <2>2, <2>3, <2>4
<1>8. a3 = Root
  BY <1>5, <1>7 DEF ValidTree, CatalogDepth
<1>9. CASE a1 = Root
  BY <1>9 DEF Level
<1>10. CASE a1 # Root /\ a2 = Root
  <2>1. p[n] \in Node /\ p[p[n]] = Root
    BY <1>10
  <2>2. Level(p, n, 1)
    BY <2>1 DEF Level
  <2> QED BY <2>2
<1>11. CASE a1 # Root /\ a2 # Root
  <2>1. p[n] \in Node /\ p[p[n]] \in Node /\ p[p[p[n]]] = Root
    BY <1>8, <1>11
  <2>2. Level(p, n, 2)
    BY <2>1 DEF Level
  <2> QED BY <2>2
<1> QED BY <1>9, <1>10, <1>11

(* A child is one level below, and none is below the third. *)
LEMMA LevelOfChild ==
    ASSUME NEW p \in [Node -> Node \cup {Root}], ValidTree(p), NEW n, NEW d \in 0 .. 2, Level(p, n, d),
           NEW k \in Node, p[k] = n
    PROVE  d + 1 \in 0 .. 2 /\ Level(p, k, d + 1)
<1>0. Root \notin Node /\ n \in Node
  BY RecallConstants DEF Ref, Level
<1>1. PICK j \in 0 .. 2 : Level(p, k, j)
  BY Levels
<1>2. CASE d = 0
  BY <1>0, <1>1, <1>2 DEF Level
<1>3. CASE d = 1
  BY <1>0, <1>1, <1>3 DEF Level
<1>4. CASE d = 2
  BY <1>0, <1>1, <1>4 DEF Level
<1> QED BY <1>2, <1>3, <1>4


-----------------------------------------------------------------------------
(* The steps.                                                              *)

(* A call by its status. *)
LEMMA ToolIs ==
    ASSUME RecallType, NEW c \in Call
    PROVE  /\ tool[c].status = "running" => tool[c] \in Walks
           /\ tool[c].status \in {"completed", "no_match"} => tool[c] \in Walked
           /\ tool[c].status = "failed" => tool[c] \in Failed
           /\ LetIn(c) => /\ tool[c].turn \in Turn
                          /\ tool[c].status \in {"running", "completed", "no_match", "failed"}
<1>1. tool[c] \in [status : {"idle", "refused"}] \cup Walks \cup Walked \cup Failed
  BY DEF RecallType
<1>2. CASE tool[c] \in [status : {"idle", "refused"}]
  BY <1>2 DEF LetIn
<1>3. CASE tool[c] \in Walks
  BY <1>3 DEF LetIn, Walks
<1>4. CASE tool[c] \in Walked
  BY <1>4 DEF LetIn, Walked
<1>5. CASE tool[c] \in Failed
  BY <1>5 DEF LetIn, Failed
<1> QED BY <1>1, <1>2, <1>3, <1>4, <1>5

(* More worlds served take nothing from a walk. *)
LEMMA WiderServed ==
    ASSUME NEW w, NEW s, NEW r, s \subseteq r, NEW p
    PROVE  (OnWay(w, s, p) => OnWay(w, r, p)) /\ (Arrived(w, s) => Arrived(w, r))
BY DEF OnWay, Arrived

(* A call that was let in is of a turn that has begun. *)
LEMMA LetInBegun ==
    ASSUME RInv, NEW c \in Call, LetIn(c)
    PROVE  tool[c].turn \in Turn /\ tool[c].turn <= turn.at /\ offer[tool[c].turn].pc = "done"
<1>1. tool[c].turn \in Turn
  BY ToolIs DEF RInv
<1>2. offer[tool[c].turn].pc = "done"
  BY DEF RInv, Owned, Owns
<1> QED BY <1>1, <1>2 DEF RInv, Timely

(* The walks go on undisturbed by what happens around them. *)
LEMMA GuidedStays ==
    ASSUME RInv, tool' = tool, parent' = parent,
           \A t \in Turn : t <= turn.at => served[t] \subseteq served'[t]
    PROVE  Guided'
<1> SUFFICES ASSUME NEW c \in Call
             PROVE  /\ tool[c].status = "running" => OnWay(tool[c], served'[tool[c].turn], parent)
                    /\ tool[c].status \in {"completed", "no_match"} => Arrived(tool[c], served'[tool[c].turn])
  BY DEF Guided
<1> SUFFICES ASSUME LetIn(c)
             PROVE  /\ tool[c].status = "running" => OnWay(tool[c], served'[tool[c].turn], parent)
                    /\ tool[c].status \in {"completed", "no_match"} => Arrived(tool[c], served'[tool[c].turn])
  BY DEF LetIn
<1>1. served[tool[c].turn] \subseteq served'[tool[c].turn]
  BY LetInBegun
<1>2. /\ tool[c].status = "running" => OnWay(tool[c], served[tool[c].turn], parent)
      /\ tool[c].status \in {"completed", "no_match"} => Arrived(tool[c], served[tool[c].turn])
  BY DEF RInv, Guided
<1> QED BY <1>1, <1>2, WiderServed

(* The calls own what they did, as long as nothing about them changes. *)
LEMMA OwnedStays ==
    ASSUME RInv, tool' = tool, binding' = binding, kept' = kept, used' = used, turn'.phase = turn.phase,
           \A t \in Turn : offer[t].pc = "done" => offer'[t].pc = "done"
    PROVE  Owned'
<1>1. \A c \in Call : LetIn(c)' <=> LetIn(c)
  BY DEF LetIn
<1>2. ASSUME NEW c \in Call, LetIn(c) PROVE Owns(c)'
  <2>1. Owns(c) /\ tool[c].turn \in Turn
    BY <1>2, LetInBegun DEF RInv, Owned
  <2> QED BY <2>1 DEF Owns
<1>3. \A c, d \in Call : LetIn(c)' /\ LetIn(d)' /\ tool'[c].turn = tool'[d].turn => c = d
  BY <1>1 DEF RInv, Owned
<1>4. \A t \in kept' : binding'[t].state # "offered" => \E c \in Call : LetIn(c)' /\ tool'[c].turn = t
  BY <1>1 DEF RInv, Owned
<1> QED BY <1>1, <1>2, <1>3, <1>4 DEF Owned

(* A turn begins. *)
LEMMA BeginTurnStep == ASSUME RInv, BeginTurn PROVE RInv'
<1> DEFINE t == turn.at + 1
<1>0. RecallType
  BY DEF RInv
<1>1. /\ turn.phase = "over" /\ turn.at < MaxTurn /\ UNCHANGED <<parent, current, binding, kept, tool, used>>
      /\ turn' = [turn EXCEPT !.at = turn.at + 1, !.phase = "open"]
      /\ offer' = [offer EXCEPT ![t].pc = "begun"] /\ served' = [served EXCEPT ![t] = {current}]
  BY DEF BeginTurn
<1>2. MaxTurn \in Nat /\ turn.at \in 0 .. MaxTurn /\ turn.aborted \in SUBSET (0 .. MaxTurn)
  BY <1>0, RecallConstants DEF RecallType
<1>3. t \in Turn /\ ~(t <= turn.at)
  BY <1>1, <1>2 DEF Turn
<1>4. /\ turn' = [at |-> t, phase |-> "open", aborted |-> turn.aborted]
      /\ turn' \in [at : 0 .. MaxTurn, phase : {"over", "open", "gone"}, aborted : SUBSET (0 .. MaxTurn)]
  <2>1. turn' = [at |-> t, phase |-> "open", aborted |-> turn.aborted]
    BY <1>0, <1>1 DEF RecallType
  <2> QED BY <2>1, <1>1, <1>2
<1>5. /\ offer' \in [Turn -> [pc : {"none", "begun", "read", "done"}, read : RecallWorlds \cup {Nowhere}]]
      /\ offer'[t].pc = "begun" /\ \A k \in Turn : k # t => offer'[k] = offer[k]
  BY <1>0, <1>1, <1>3 DEF RecallType
<1>6. served' \in [Turn -> SUBSET RecallWorlds] /\ served'[t] = {current}
      /\ \A k \in Turn : k # t => served'[k] = served[k]
  BY <1>0, <1>1, <1>3 DEF RecallType
<1>7. RecallType'
  BY <1>0, <1>1, <1>4, <1>5, <1>6 DEF RecallType
<1>8. offer[t].pc = "none" /\ t \notin kept
  BY <1>3 DEF RInv, Timely
<1>9. Timely'
  <2> SUFFICES ASSUME NEW k \in Turn
               PROVE  /\ offer'[k].pc # "none" => k <= t
                      /\ k <= t => current \in served'[k]
                      /\ offer'[k].pc = "read" => offer'[k].read \in served'[k]
                      /\ k \in kept => offer'[k].pc = "done" /\ binding[k] \in Bindings
                                       /\ binding[k].pin \in served'[k]
    BY <1>1, <1>4 DEF Timely
  <2>1. k \in Nat /\ turn.at \in Nat
    BY <1>2 DEF Turn
  <2>2. CASE k = t
    BY <2>1, <2>2, <1>5, <1>6, <1>8
  <2>3. CASE k # t
    BY <2>1, <2>3, <1>5, <1>6 DEF RInv, Timely
  <2> QED BY <2>2, <2>3
<1>10. Owned'
  <2>1. \A c \in Call : LetIn(c)' <=> LetIn(c)
    BY <1>1 DEF LetIn
  <2>2. ASSUME NEW c \in Call, LetIn(c) PROVE Owns(c)'
    <3>1. Owns(c) /\ tool[c].turn \in Turn /\ tool[c].turn # t
      BY <1>3, <2>2, LetInBegun DEF RInv, Owned
    <3>2. turn'.phase = "open" /\ turn.phase # "gone"
      BY <1>1, <1>4
    <3> QED BY <3>1, <3>2, <1>1, <1>5 DEF Owns
  <2> QED BY <2>1, <2>2, <1>1 DEF RInv, Owned
<1>11. Guided'
  BY <1>1, <1>3, <1>6, GuidedStays
<1>12. UsedIsDue'
  BY <1>1 DEF RInv, UsedIsDue
<1> QED BY <1>7, <1>9, <1>10, <1>11, <1>12 DEF RInv

(* The handler reads CURRENT, or fails. *)
LEMMA ReadWorldStep == ASSUME RInv, NEW t \in Turn, ReadWorld(t) PROVE RInv'
<1>0. RecallType
  BY DEF RInv
<1>1. offer[t].pc = "begun" /\ UNCHANGED <<parent, current, turn, binding, kept, tool, used, served>>
  BY DEF ReadWorld
<1>2. PICK o \in [pc : {"none", "begun", "read", "done"}, read : RecallWorlds \cup {Nowhere}] :
        /\ offer' = [offer EXCEPT ![t] = o] /\ o.pc \in {"read", "done"} /\ (o.pc = "read" => o.read = current)
  <2>1. CASE offer' = [offer EXCEPT ![t] = [pc |-> "read", read |-> current]]
    <3> DEFINE o == [pc |-> "read", read |-> current]
    <3>1. /\ o \in [pc : {"none", "begun", "read", "done"}, read : RecallWorlds \cup {Nowhere}]
          /\ o.pc = "read" /\ o.read = current
      BY <1>0 DEF RecallType
    <3> QED BY <2>1, <3>1
  <2>2. CASE offer' = [offer EXCEPT ![t].pc = "done"]
    <3> DEFINE o == [offer[t] EXCEPT !.pc = "done"]
    <3>1. o \in [pc : {"none", "begun", "read", "done"}, read : RecallWorlds \cup {Nowhere}] /\ o.pc = "done"
      BY <1>0 DEF RecallType
    <3> QED BY <2>2, <3>1
  <2> QED BY <2>1, <2>2 DEF ReadWorld
<1>3. /\ offer' \in [Turn -> [pc : {"none", "begun", "read", "done"}, read : RecallWorlds \cup {Nowhere}]]
      /\ offer'[t] = o /\ \A k \in Turn : k # t => offer'[k] = offer[k]
  BY <1>0, <1>2 DEF RecallType
<1>4. RecallType'
  BY <1>0, <1>1, <1>3 DEF RecallType
<1>5. Timely'
  BY <1>1, <1>2, <1>3 DEF RInv, Timely
<1>6. \A k \in Turn : offer[k].pc = "done" => offer'[k].pc = "done"
  BY <1>1, <1>3
<1>7. Owned'
  BY <1>1, <1>6, OwnedStays
<1>8. Guided'
  BY <1>1, GuidedStays
<1> QED BY <1>4, <1>5, <1>7, <1>8, <1>1 DEF RInv, UsedIsDue

(* The map is offered. *)
LEMMA BindStep == ASSUME RInv, NEW t \in Turn, Bind(t) PROVE RInv'
<1>0. RecallType
  BY DEF RInv
<1>1. /\ offer[t].pc = "read" /\ offer' = [offer EXCEPT ![t].pc = "done"]
      /\ UNCHANGED <<parent, current, turn, tool, used, served>>
  BY DEF Bind
<1>2. /\ offer' \in [Turn -> [pc : {"none", "begun", "read", "done"}, read : RecallWorlds \cup {Nowhere}]]
      /\ offer'[t].pc = "done" /\ \A k \in Turn : k # t => offer'[k] = offer[k]
  BY <1>0, <1>1 DEF RecallType
<1>3. offer[t].read \in served[t] /\ offer[t].read \in RecallWorlds /\ t <= turn.at /\ t \notin kept
  BY <1>0, <1>1 DEF RInv, RecallType, Timely
<1>4. \A k \in Turn : offer[k].pc = "done" => offer'[k].pc = "done"
  BY <1>1, <1>2
<1>5. Guided' /\ UsedIsDue'
  BY <1>1, GuidedStays DEF RInv, UsedIsDue
<1>6. CASE UNCHANGED <<binding, kept>>
  <2>1. RecallType' /\ Timely'
    BY <1>0, <1>1, <1>2, <1>3, <1>6 DEF RecallType, RInv, Timely
  <2>2. Owned'
    BY <1>1, <1>4, <1>6, OwnedStays
  <2> QED BY <1>5, <2>1, <2>2 DEF RInv
<1>7. CASE /\ binding' = [binding EXCEPT ![t] = [pin |-> offer[t].read, state |-> "offered", refs |-> <<>>]]
           /\ kept' = kept \cup {t}
  <2> DEFINE b == [pin |-> offer[t].read, state |-> "offered", refs |-> <<>>]
  <2>1. b \in Bindings /\ b.pin = offer[t].read /\ b.state = "offered"
    <3>1. <<>> \in Seq(Ref)
      OBVIOUS
    <3> QED BY <1>3, <3>1 DEF Bindings
  <2> HIDE DEF b
  <2>2. binding' = [binding EXCEPT ![t] = b]
    BY <1>7 DEF b
  <2>3. /\ binding' \in [Turn -> Bindings \cup {Nowhere}] /\ binding'[t] = b
        /\ \A k \in Turn : k # t => binding'[k] = binding[k]
    BY <1>0, <2>1, <2>2 DEF RecallType
  <2>4. RecallType'
    BY <1>0, <1>1, <1>2, <1>7, <2>3 DEF RecallType
  <2>5. Timely'
    <3> SUFFICES ASSUME NEW k \in Turn
                 PROVE  /\ offer'[k].pc # "none" => k <= turn.at
                        /\ k <= turn.at => current \in served[k]
                        /\ offer'[k].pc = "read" => offer'[k].read \in served[k]
                        /\ k \in kept' => offer'[k].pc = "done" /\ binding'[k] \in Bindings
                                          /\ binding'[k].pin \in served[k]
      BY <1>1 DEF Timely
    <3>1. CASE k = t
      BY <3>1, <1>2, <1>3, <2>1, <2>3 DEF RInv, Timely
    <3>2. CASE k # t
      BY <3>2, <1>2, <1>7, <2>3 DEF RInv, Timely
    <3> QED BY <3>1, <3>2
  <2>6. Owned'
    <3>1. \A c \in Call : LetIn(c)' <=> LetIn(c)
      BY <1>1 DEF LetIn
    <3>2. ASSUME NEW c \in Call, LetIn(c) PROVE Owns(c)'
      <4>1. Owns(c) /\ tool[c].turn \in Turn /\ tool[c].turn # t
        BY <1>1, <3>2, LetInBegun DEF RInv, Owned
      <4> QED BY <4>1, <1>1, <1>2, <1>7, <2>3 DEF Owns
    <3>3. ASSUME NEW k \in kept', binding'[k].state # "offered"
          PROVE  \E c \in Call : LetIn(c)' /\ tool'[c].turn = k
      <4>1. k # t /\ k \in kept /\ binding[k].state # "offered"
        BY <3>3, <1>0, <1>7, <2>1, <2>3 DEF RecallType
      <4> QED BY <4>1, <3>1, <1>1 DEF RInv, Owned
    <3>4. \A c, d \in Call : LetIn(c)' /\ LetIn(d)' /\ tool'[c].turn = tool'[d].turn => c = d
      BY <3>1, <1>1 DEF RInv, Owned
    <3> QED BY <3>1, <3>2, <3>3, <3>4 DEF Owned
  <2> QED BY <1>5, <2>4, <2>5, <2>6 DEF RInv
<1> QED BY <1>6, <1>7 DEF Bind

(* The signal aborts, or the turn is over. *)
LEMMA AbortEndStep == ASSUME RInv, Abort \/ EndTurn PROVE RInv'
<1>0. RecallType
  BY DEF RInv
<1>1. UNCHANGED <<parent, current, offer, binding, kept, tool, used, served>> /\ turn.phase = "open"
  BY DEF Abort, EndTurn, Open
<1>2. PICK r \in [at : 0 .. MaxTurn, phase : {"over", "open", "gone"}, aborted : SUBSET (0 .. MaxTurn)] :
        turn' = r /\ r.at = turn.at /\ r.phase \in {"over", "open"}
  <2>1. turn \in [at : 0 .. MaxTurn, phase : {"over", "open", "gone"}, aborted : SUBSET (0 .. MaxTurn)]
    BY <1>0 DEF RecallType
  <2>2. CASE Abort
    <3>1. turn' = [turn EXCEPT !.aborted = turn.aborted \cup {turn.at}] /\ turn.at \notin turn.aborted
      BY <2>2 DEF Abort
    <3>2. turn.at \in 0 .. MaxTurn
      BY <2>1
    <3> QED BY <2>1, <3>1, <3>2, <1>1
  <2>3. CASE EndTurn
    <3>1. turn' = [turn EXCEPT !.phase = "over"]
      BY <2>3 DEF EndTurn
    <3> QED BY <2>1, <3>1
  <2> QED BY <2>2, <2>3
<1>3. RecallType'
  BY <1>0, <1>1, <1>2 DEF RecallType
<1>4. Timely'
  BY <1>1, <1>2 DEF RInv, Timely
<1>5. Owned'
  <2>1. \A c \in Call : LetIn(c)' <=> LetIn(c)
    BY <1>1 DEF LetIn
  <2>2. ASSUME NEW c \in Call, LetIn(c) PROVE Owns(c)'
    <3>1. Owns(c)
      BY <2>2 DEF RInv, Owned
    <3> QED BY <3>1, <1>1, <1>2 DEF Owns
  <2> QED BY <2>1, <2>2, <1>1 DEF RInv, Owned
<1>6. Guided'
  BY <1>1, GuidedStays
<1> QED BY <1>1, <1>3, <1>4, <1>5, <1>6 DEF RInv, UsedIsDue

(* The agent is cleared. *)
LEMMA DisposeStep == ASSUME RInv, Dispose PROVE RInv'
<1>0. RecallType
  BY DEF RInv
<1>1. /\ UNCHANGED <<parent, current, offer, binding, tool, used, served>> /\ kept' = {}
      /\ turn' = [turn EXCEPT !.phase = "gone"]
  BY DEF Dispose
<1>2. /\ turn' \in [at : 0 .. MaxTurn, phase : {"over", "open", "gone"}, aborted : SUBSET (0 .. MaxTurn)]
      /\ turn'.at = turn.at /\ turn'.phase = "gone"
  BY <1>0, <1>1 DEF RecallType
<1>3. RecallType'
  BY <1>0, <1>1, <1>2 DEF RecallType
<1>4. Timely'
  BY <1>1, <1>2 DEF RInv, Timely
<1>5. Owned'
  <2>1. \A c \in Call : LetIn(c)' <=> LetIn(c)
    BY <1>1 DEF LetIn
  <2>2. ASSUME NEW c \in Call, LetIn(c) PROVE Owns(c)'
    <3>1. Owns(c)
      BY <2>2 DEF RInv, Owned
    <3> QED BY <3>1, <1>1, <1>2 DEF Owns
  <2> QED BY <2>1, <2>2, <1>1 DEF RInv, Owned
<1>6. Guided'
  BY <1>1, GuidedStays
<1> QED BY <1>1, <1>3, <1>4, <1>5, <1>6 DEF RInv, UsedIsDue

(* Another generation. *)
LEMMA SwitchStep == ASSUME RInv, Switch PROVE RInv'
<1>0. RecallType
  BY DEF RInv
<1>1. /\ UNCHANGED <<parent, turn, offer, binding, kept, tool, used>>
      /\ served' = [t \in Turn |-> IF t <= turn.at THEN served[t] \cup {current'} ELSE {}]
  BY DEF Switch
<1>2. current' \in RecallWorlds
  <2>0. current = [governed |-> current.governed, home |-> current.home] /\ current.governed \in BOOLEAN
        /\ current.home \in [Memory -> Node \cup {Nowhere}]
    BY <1>0 DEF RecallType, RecallWorlds
  <2>1. PICK m \in Memory :
          \/ \E n \in Node : current' = [current EXCEPT !.home[m] = n]
          \/ current' = [governed |-> TRUE, home |-> [current.home EXCEPT ![m] = Nowhere]]
    BY DEF Switch
  <2>2. ASSUME NEW n \in Node, current' = [current EXCEPT !.home[m] = n] PROVE current' \in RecallWorlds
    <3>1. current' = [current EXCEPT !.home = [current.home EXCEPT ![m] = n]]
      BY <2>2
    <3> DEFINE h == [current.home EXCEPT ![m] = n]
    <3>2. h \in [Memory -> Node \cup {Nowhere}]
      BY <2>0
    <3> HIDE DEF h
    <3>3. current' = [governed |-> current.governed, home |-> h]
      BY <2>0, <3>1 DEF h
    <3> QED BY <2>0, <3>2, <3>3 DEF RecallWorlds
  <2>3. ASSUME current' = [governed |-> TRUE, home |-> [current.home EXCEPT ![m] = Nowhere]]
        PROVE  current' \in RecallWorlds
    BY <2>0, <2>3 DEF RecallWorlds
  <2> QED BY <2>1, <2>2, <2>3
<1>3. /\ served' \in [Turn -> SUBSET RecallWorlds]
      /\ \A t \in Turn : t <= turn.at => served'[t] = served[t] \cup {current'}
  BY <1>0, <1>1, <1>2 DEF RecallType
<1>4. RecallType'
  BY <1>0, <1>1, <1>2, <1>3 DEF RecallType
<1>5. Timely'
  BY <1>1, <1>3 DEF RInv, Timely
<1>6. Owned'
  BY <1>1, OwnedStays
<1>7. Guided'
  BY <1>1, <1>3, GuidedStays
<1> QED BY <1>1, <1>4, <1>5, <1>6, <1>7 DEF RInv, UsedIsDue

(* What the turn's calls have told is what its binding holds. *)
LEMMA ToldIs ==
    ASSUME RInv, NEW t \in Turn, used[t] = Nowhere
    PROVE  (IF t \in kept /\ binding[t].state = "completed" THEN Range(binding[t].refs) ELSE {})
             = IF turn.phase = "gone" THEN {} ELSE Told(t)
<1> DEFINE D == {c \in Call : tool[c].status = "completed" /\ tool[c].turn = t}
<1>1. Told(t) = UNION {Range(tool[c].told) : c \in D}
  BY DEF Told
<1>2. \A c \in D : LetIn(c) /\ Owns(c) /\ tool[c].turn = t /\ tool[c].status = "completed"
  BY DEF RInv, Owned, LetIn
<1>3. CASE t \in kept /\ binding[t].state = "completed"
  <2>1. PICK c \in Call : LetIn(c) /\ tool[c].turn = t
    BY <1>3 DEF RInv, Owned
  <2>2. Owns(c) /\ turn.phase # "gone" /\ tool[c].status # "running"
    BY <1>3, <2>1 DEF RInv, Owned, Owns
  <2>3. \A d \in D : d = c
    BY <1>2, <2>1 DEF RInv, Owned
  <2>4. CASE tool[c].status = "completed"
    <3>1. D = {c}
      BY <2>1, <2>3, <2>4
    <3>2. binding[t].refs = tool[c].told
      BY <2>1, <2>2, <2>4 DEF Owns
    <3>3. Told(t) = Range(tool[c].told)
      BY <1>1, <3>1
    <3> QED BY <1>3, <2>2, <3>2, <3>3
  <2>5. CASE tool[c].status # "completed"
    <3>1. D = {}
      BY <2>3, <2>5
    <3>2. tool[c].status \in {"no_match", "failed"}
      BY <2>1, <2>2, <2>5, ToolIs DEF RInv
    <3>3. binding[t].refs = <<>>
      BY <2>1, <2>2, <3>2 DEF Owns
    <3>4. Range(binding[t].refs) = {} /\ Told(t) = {}
      BY <1>1, <3>1, <3>3 DEF Range
    <3> QED BY <1>3, <2>2, <3>4
  <2> QED BY <2>4, <2>5
<1>4. CASE ~(t \in kept /\ binding[t].state = "completed")
  <2>1. ASSUME turn.phase # "gone" PROVE D = {}
    <3> SUFFICES ASSUME NEW c \in D PROVE FALSE
      OBVIOUS
    <3>1. t \in kept \/ used[t] # Nowhere
      BY <1>2, <2>1 DEF Owns
    <3>2. binding[t].state = "completed"
      BY <1>2 DEF Owns
    <3> QED BY <1>4, <3>1, <3>2
  <2>2. turn.phase # "gone" => Told(t) = {}
    BY <1>1, <2>1
  <2> QED BY <1>4, <2>2
<1> QED BY <1>3, <1>4

(* The end of a turn is handled. *)
LEMMA TurnEndedStep == ASSUME RInv, NEW t \in Turn, TurnEnded(t) PROVE RInv'
<1>0. RecallType
  BY DEF RInv
<1> DEFINE A == IF t \in kept /\ binding[t].state = "completed" THEN Range(binding[t].refs) ELSE {}
           B == IF turn.phase = "gone" THEN {} ELSE Told(t)
           r == [refs |-> A, due |-> B]
<1>1. /\ used[t] = Nowhere /\ kept' = kept \ {t} /\ used' = [used EXCEPT ![t] = r]
      /\ UNCHANGED <<parent, current, turn, offer, binding, tool, served>>
  BY DEF TurnEnded
<1>2. A = B
  BY <1>1, ToldIs, Zenon
<1>3. A \subseteq Ref
  <2>1. CASE t \in kept /\ binding[t].state = "completed"
    <3>1. binding[t] \in Bindings
      BY <2>1 DEF RInv, Timely
    <3>2. binding[t].refs \in Seq(Ref)
      BY <3>1 DEF Bindings
    <3> QED BY <3>2, <2>1 DEF Range
  <2>2. CASE ~(t \in kept /\ binding[t].state = "completed")
    BY <2>2
  <2> QED BY <2>1, <2>2
<1> HIDE DEF A, B
<1>4. r \in Takings /\ r # Nowhere /\ r.refs = r.due
  BY <1>2, <1>3, RecallConstants DEF Takings
<1> HIDE DEF r
<1>5. used' \in [Turn -> Takings \cup {Nowhere}] /\ used'[t] = r /\ \A k \in Turn : k # t => used'[k] = used[k]
  BY <1>0, <1>1, <1>4 DEF RecallType
<1>6. RecallType'
  BY <1>0, <1>1, <1>5 DEF RecallType
<1>7. Timely'
  BY <1>1 DEF RInv, Timely
<1>8. Owned'
  <2>1. \A c \in Call : LetIn(c)' <=> LetIn(c)
    BY <1>1 DEF LetIn
  <2>2. ASSUME NEW c \in Call, LetIn(c) PROVE Owns(c)'
    <3>1. Owns(c) /\ tool[c].turn \in Turn
      BY <2>2, LetInBegun DEF RInv, Owned
    <3>2. turn.phase # "gone" => tool[c].turn \in kept' \/ used'[tool[c].turn] # Nowhere
      BY <3>1, <1>1, <1>4, <1>5 DEF Owns
    <3> QED BY <3>1, <3>2, <1>1 DEF Owns
  <2> QED BY <2>1, <2>2, <1>1 DEF RInv, Owned
<1>9. Guided'
  BY <1>1, GuidedStays
<1>10. UsedIsDue'
  BY <1>4, <1>5 DEF RInv, UsedIsDue
<1> QED BY <1>6, <1>7, <1>8, <1>9, <1>10 DEF RInv

(* The tool lets a call in. *)
LEMMA LetInStep ==
    ASSUME RInv, NEW c \in Call, NEW pin, ~LetIn(c), turn.phase = "open", Answerable(turn.at, pin),
           tool' = [tool EXCEPT ![c] = Walk(turn.at, "map", pin)],
           binding' = [binding EXCEPT ![turn.at].state = "running"],
           UNCHANGED <<parent, current, turn, offer, kept, used, served>>
    PROVE  RInv'
<1>0. RecallType
  BY DEF RInv
<1> DEFINE t == turn.at
           w == Walk(t, "map", pin)
           b == [binding[t] EXCEPT !.state = "running"]
<1>1. /\ t \in kept /\ t \in Turn /\ binding[t] \in Bindings /\ binding[t].pin \in served[t]
      /\ pin = binding[t].pin /\ binding[t].state = "offered" /\ offer[t].pc = "done"
  BY <1>0 DEF Answerable, RInv, RecallType, Timely
<1>2. pin \in RecallWorlds
  BY <1>1 DEF Bindings
<1>3. /\ w \in Walks /\ w.turn = t /\ w.status = "running" /\ OnWay(w, served[t], parent)
  <2>1. <<>> \in Seq(Ref) /\ Attached(pin) \subseteq Memory /\ 0 \in Nat
    BY DEF Attached
  <2>2. w \in Walks
    BY <1>1, <1>2, <2>1 DEF Walk, Walks
  <2>3. /\ w.turn = t /\ w.status = "running" /\ w.world = pin /\ w.route = "map" /\ w.read = {}
        /\ w.told = <<>> /\ w.seen = {} /\ w.stage = "root" /\ w.depth = 0 /\ w.steps = 0
    BY DEF Walk
  <2> QED BY <1>1, <2>2, <2>3 DEF OnWay
<1>4. b \in Bindings /\ b.state = "running" /\ b.pin = pin
  BY <1>1 DEF Bindings
<1>5. binding' = [binding EXCEPT ![t] = b] /\ tool' = [tool EXCEPT ![c] = w]
  OBVIOUS
<1> HIDE DEF w, b
<1>6. /\ binding' \in [Turn -> Bindings \cup {Nowhere}] /\ binding'[t] = b
      /\ \A k \in Turn : k # t => binding'[k] = binding[k]
  BY <1>0, <1>1, <1>4, <1>5 DEF RecallType
<1>7. /\ tool' \in [Call -> [status : {"idle", "refused"}] \cup Walks \cup Walked \cup Failed]
      /\ tool'[c] = w /\ \A d \in Call : d # c => tool'[d] = tool[d]
  BY <1>0, <1>3, <1>5 DEF RecallType
<1>8. RecallType'
  BY <1>0, <1>6, <1>7 DEF RecallType
<1>9. Timely'
  BY <1>1, <1>4, <1>6 DEF RInv, Timely
<1>10. /\ LetIn(c)' /\ \A d \in Call : d # c => (LetIn(d)' <=> LetIn(d))
  BY <1>3, <1>7 DEF LetIn
<1>11. \A d \in Call : LetIn(d) => tool[d].turn # t
  BY <1>1 DEF RInv, Owned, Owns
<1>12. Owned'
  <2>1. Owns(c)'
    BY <1>1, <1>3, <1>4, <1>6, <1>7 DEF Owns
  <2>2. ASSUME NEW d \in Call, d # c, LetIn(d) PROVE Owns(d)'
    <3>1. Owns(d) /\ tool[d].turn \in Turn
      BY <2>2, LetInBegun DEF RInv, Owned
    <3> QED BY <3>1, <2>2, <1>6, <1>7, <1>11 DEF Owns
  <2>3. ASSUME NEW d \in Call, NEW e \in Call, LetIn(d)', LetIn(e)', tool'[d].turn = tool'[e].turn
        PROVE  d = e
    BY <2>3, <1>3, <1>7, <1>10, <1>11 DEF RInv, Owned
  <2>4. ASSUME NEW k \in kept', binding'[k].state # "offered"
        PROVE  \E d \in Call : LetIn(d)' /\ tool'[d].turn = k
    <3>1. CASE k = t
      BY <3>1, <1>3, <1>7, <1>10
    <3>2. CASE k # t
      <4>1. PICK d \in Call : LetIn(d) /\ tool[d].turn = k
        BY <3>2, <2>4, <1>0, <1>6 DEF RInv, Owned, RecallType
      <4> QED BY <4>1, <1>7, <1>10
    <3> QED BY <3>1, <3>2
  <2> QED BY <2>1, <2>2, <2>3, <2>4, <1>10 DEF Owned
<1>13. Guided'
  <2> SUFFICES ASSUME NEW d \in Call
               PROVE  /\ tool'[d].status = "running" => OnWay(tool'[d], served[tool'[d].turn], parent)
                      /\ tool'[d].status \in {"completed", "no_match"} =>
                            Arrived(tool'[d], served[tool'[d].turn])
    BY DEF Guided
  <2>1. CASE d = c
    BY <2>1, <1>3, <1>7
  <2>2. CASE d # c
    BY <2>2, <1>7 DEF RInv, Guided
  <2> QED BY <2>1, <2>2
<1> QED BY <1>8, <1>9, <1>12, <1>13 DEF RInv, UsedIsDue

(* A walk goes on. *)
LEMMA GoesOnStep ==
    ASSUME RInv, NEW c \in Call, tool[c].status = "running", NEW w \in Walks, w.turn = tool[c].turn,
           OnWay(w, served[tool[c].turn], parent), GoesOn(c, w),
           UNCHANGED <<parent, current, turn, offer, kept, used, served>>
    PROVE  RInv'
<1>0. RecallType
  BY DEF RInv
<1>1. tool' = [tool EXCEPT ![c] = w] /\ binding' = binding /\ w.status = "running"
  BY DEF GoesOn, Step, Walks
<1>2. /\ tool' \in [Call -> [status : {"idle", "refused"}] \cup Walks \cup Walked \cup Failed]
      /\ tool'[c] = w /\ \A d \in Call : d # c => tool'[d] = tool[d]
  BY <1>0, <1>1 DEF RecallType
<1>3. RecallType' /\ Timely'
  BY <1>0, <1>1, <1>2 DEF RecallType, RInv, Timely
<1>4. \A d \in Call : (LetIn(d)' <=> LetIn(d)) /\ tool'[d].turn = tool[d].turn /\ (d # c => tool'[d] = tool[d])
  BY <1>1, <1>2 DEF LetIn
<1>5. Owned'
  <2>1. ASSUME NEW d \in Call, LetIn(d) PROVE Owns(d)'
    <3>1. Owns(d)
      BY <2>1 DEF RInv, Owned
    <3>2. CASE d = c
      BY <3>1, <3>2, <1>1, <1>2 DEF Owns
    <3>3. CASE d # c
      BY <3>1, <3>3, <1>1, <1>2 DEF Owns
    <3> QED BY <3>2, <3>3
  <2>2. \A d, e \in Call : LetIn(d)' /\ LetIn(e)' /\ tool'[d].turn = tool'[e].turn => d = e
    BY <1>4 DEF RInv, Owned
  <2>3. \A k \in kept' : binding'[k].state # "offered" => \E d \in Call : LetIn(d)' /\ tool'[d].turn = k
    BY <1>1, <1>4 DEF RInv, Owned
  <2> QED BY <2>1, <2>2, <2>3, <1>4 DEF Owned
<1>6. Guided'
  <2> SUFFICES ASSUME NEW d \in Call
               PROVE  /\ tool'[d].status = "running" => OnWay(tool'[d], served[tool'[d].turn], parent)
                      /\ tool'[d].status \in {"completed", "no_match"} =>
                            Arrived(tool'[d], served[tool'[d].turn])
    BY DEF Guided
  <2>1. CASE d = c
    BY <2>1, <1>1, <1>2
  <2>2. CASE d # c
    BY <2>2, <1>2 DEF RInv, Guided
  <2> QED BY <2>1, <2>2
<1> QED BY <1>3, <1>5, <1>6 DEF RInv, UsedIsDue

(* A call is over. *)
LEMMA OverStep ==
    ASSUME RInv, NEW c \in Call, tool[c].status = "running", NEW r \in Walked \cup Failed,
           r.turn = tool[c].turn, r \in Walked => Arrived(r, served[tool[c].turn]),
           NEW refs \in Seq(Ref), r.status = "completed" => refs = r.told,
           r.status # "completed" => refs = <<>>,
           tool' = [tool EXCEPT ![c] = r],
           binding' = [binding EXCEPT ![tool[c].turn].state = "completed", ![tool[c].turn].refs = refs],
           UNCHANGED <<parent, current, turn, offer, kept, used, served>>
    PROVE  RInv'
<1>0. RecallType
  BY DEF RInv
<1> DEFINE t == tool[c].turn
           b == [binding[t] EXCEPT !.state = "completed", !.refs = refs]
<1>1. LetIn(c) /\ Owns(c) /\ t \in Turn /\ binding[t] \in Bindings
  <2>1. LetIn(c)
    BY DEF LetIn
  <2> QED BY <2>1, LetInBegun DEF RInv, Owned, Owns
<1>2. b \in Bindings /\ b.state = "completed" /\ b.pin = binding[t].pin /\ b.refs = refs
  BY <1>1 DEF Bindings
<1>3. binding' = [binding EXCEPT ![t] = b]
  <2>1. DOMAIN binding = Turn
    BY <1>0 DEF RecallType
  <2> QED BY <1>1, <2>1
<1>4. r.status \in {"completed", "no_match", "failed"} /\ (r.status # "failed" => r \in Walked)
  BY DEF Walked, Failed
<1> HIDE DEF t, b
<1>5. /\ binding' \in [Turn -> Bindings \cup {Nowhere}] /\ binding'[t] = b
      /\ \A k \in Turn : k # t => binding'[k] = binding[k]
  <2> DEFINE B == Bindings \cup {Nowhere}
  <2>1. binding \in [Turn -> B] /\ b \in B
    BY <1>0, <1>2 DEF RecallType
  <2> HIDE DEF B
  <2>2. binding' \in [Turn -> B] /\ binding'[t] = b /\ \A k \in Turn : k # t => binding'[k] = binding[k]
    BY ONLY <1>1, <1>3, <2>1
  <2> QED BY <2>2 DEF B
<1>6. /\ tool' \in [Call -> [status : {"idle", "refused"}] \cup Walks \cup Walked \cup Failed]
      /\ tool'[c] = r /\ \A d \in Call : d # c => tool'[d] = tool[d]
  <2> DEFINE R == [status : {"idle", "refused"}] \cup Walks \cup Walked \cup Failed
  <2>1. tool \in [Call -> R] /\ r \in R
    BY <1>0 DEF RecallType
  <2> HIDE DEF R
  <2>2. tool' \in [Call -> R] /\ tool'[c] = r /\ \A d \in Call : d # c => tool'[d] = tool[d]
    BY <2>1
  <2> QED BY <2>2 DEF R
<1>7. RecallType'
  BY <1>0, <1>5, <1>6 DEF RecallType
<1>8. Timely'
  BY <1>1, <1>2, <1>5 DEF RInv, Timely
<1>9. r.turn = t
  BY DEF t
<1>10. \A d \in Call : (LetIn(d)' <=> LetIn(d)) /\ tool'[d].turn = tool[d].turn
  BY <1>1, <1>4, <1>6, <1>9 DEF LetIn, t
<1>11. \A d \in Call : LetIn(d) /\ d # c => tool[d].turn # t
  BY <1>1 DEF RInv, Owned, t
<1>12. Owned'
  <2>1. Owns(c)'
    BY <1>1, <1>2, <1>4, <1>5, <1>6, <1>9 DEF Owns, t
  <2>2. ASSUME NEW d \in Call, d # c, LetIn(d) PROVE Owns(d)'
    <3>1. Owns(d) /\ tool[d].turn \in Turn
      BY <2>2, LetInBegun DEF RInv, Owned
    <3> QED BY <3>1, <2>2, <1>5, <1>6, <1>11 DEF Owns
  <2>3. \A d, e \in Call : LetIn(d)' /\ LetIn(e)' /\ tool'[d].turn = tool'[e].turn => d = e
    BY <1>10 DEF RInv, Owned
  <2>4. ASSUME NEW k \in kept', binding'[k].state # "offered"
        PROVE  \E d \in Call : LetIn(d)' /\ tool'[d].turn = k
    <3>1. CASE k = t
      BY <3>1, <1>1, <1>10 DEF t
    <3>2. CASE k # t
      <4>1. k \in kept /\ k \in Turn /\ binding[k].state # "offered"
        BY <3>2, <2>4, <1>0, <1>5 DEF RecallType
      <4>2. PICK d \in Call : LetIn(d) /\ tool[d].turn = k
        BY <4>1 DEF RInv, Owned
      <4> QED BY <4>2, <1>10
    <3> QED BY <3>1, <3>2
  <2> QED BY <2>1, <2>2, <2>3, <2>4, <1>10 DEF Owned
<1>13. Guided'
  <2> SUFFICES ASSUME NEW d \in Call
               PROVE  /\ tool'[d].status = "running" => OnWay(tool'[d], served[tool'[d].turn], parent)
                      /\ tool'[d].status \in {"completed", "no_match"} =>
                            Arrived(tool'[d], served[tool'[d].turn])
    BY DEF Guided
  <2>1. CASE d = c
    BY <2>1, <1>4, <1>6
  <2>2. CASE d # c
    BY <2>2, <1>6 DEF RInv, Guided
  <2> QED BY <2>1, <2>2
<1> QED BY <1>7, <1>8, <1>12, <1>13 DEF RInv, UsedIsDue

-----------------------------------------------------------------------------
(* The walks.                                                              *)

(* Around a walk nothing changes. *)
Around == UNCHANGED <<parent, current, switches, turn, offer, kept, used, served>>

(* A walk on its way does not run out. *)
LEMMA ProceedsStep ==
    ASSUME RInv, NEW c \in Call, tool[c].status = "running", NEW w \in Walks, w.turn = tool[c].turn,
           OnWay(w, served[tool[c].turn], parent), Proceeds(c, w), Around
    PROVE  RInv'
<1>1. w.depth \in Nat /\ w.steps \in Nat /\ w.stage \in {"root", "summary", "titles", "confirm"}
  BY DEF Walks
<1>2. w.steps <= 7 /\ (w.stage = "summary" => w.depth <= 2)
  BY <1>1 DEF OnWay
<1>3. ~Exhausted(w)
  BY <1>1, <1>2 DEF Exhausted, MaxDepth, MaxSteps
<1>4. GoesOn(c, w)
  BY <1>3 DEF Proceeds
<1> QED BY <1>4, GoesOnStep DEF Around

(* A walk ends with what it found. *)
LEMMA EndsStep ==
    ASSUME RInv, NEW c \in Call, tool[c].status = "running", NEW w \in Walks, w.turn = tool[c].turn,
           NEW status \in {"completed", "no_match"}, Ends(c, w, status), Around,
           w.world \in served[tool[c].turn], w.route = "legacy" => ~w.world.governed,
           Range(w.told) \subseteq w.read, w.read \subseteq w.seen, w.seen \subseteq Attached(w.world),
           status = "no_match" => w.aims = {}, w.aims \subseteq Range(w.told)
    PROVE  RInv'
<1> DEFINE r == [status |-> status, turn |-> w.turn, route |-> w.route, world |-> w.world,
                 aims |-> w.aims, seen |-> w.seen, read |-> w.read, told |-> w.told]
<1>1. /\ w.turn \in Turn /\ w.route \in {"map", "legacy"} /\ w.world \in RecallWorlds
      /\ w.aims \in SUBSET Memory /\ w.seen \in SUBSET Memory /\ w.read \in SUBSET Memory
      /\ w.told \in Seq(Ref)
  BY DEF Walks
<1>2. r \in Walked
  BY <1>1 DEF Walked, Ref
<1>3. r.turn = tool[c].turn /\ r.status = status /\ r.told = w.told
  OBVIOUS
<1>4. Arrived(r, served[tool[c].turn])
  BY DEF Arrived
<1>5. PICK refs \in Seq(Ref) : refs = IF status = "completed" THEN w.told ELSE <<>>
  <2>1. <<>> \in Seq(Ref)
    OBVIOUS
  <2> QED BY <1>1, <2>1
<1>6. tool' = [tool EXCEPT ![c] = r]
  BY DEF Ends, Step
<1>7. binding' = [binding EXCEPT ![tool[c].turn].state = "completed", ![tool[c].turn].refs = refs]
  BY <1>5, Zenon DEF Ends
<1> HIDE DEF r
<1> QED BY <1>2, <1>3, <1>4, <1>5, <1>6, <1>7, OverStep DEF Around

(* Whatever fails ends a walk. *)
LEMMA FailsStep ==
    ASSUME RInv, NEW c \in Call, tool[c].status = "running", Ends(c, tool[c], "failed"), Around
    PROVE  RInv'
<1> DEFINE r == [status |-> "failed", turn |-> tool[c].turn]
<1>1. tool[c].turn \in Turn
  BY ToolIs DEF RInv, LetIn
<1>2. r \in Failed /\ r.turn = tool[c].turn /\ r.status = "failed" /\ r \notin Walked
  BY <1>1 DEF Failed, Walked
<1>3. tool' = [tool EXCEPT ![c] = r]
  BY DEF Ends, Step
<1>4. <<>> \in Seq(Ref)
  OBVIOUS
<1>5. binding' = [binding EXCEPT ![tool[c].turn].state = "completed", ![tool[c].turn].refs = <<>>]
  BY DEF Ends
<1> HIDE DEF r
<1> QED BY <1>2, <1>3, <1>4, <1>5, OverStep DEF Around

(* A running call, by its fields. *)
LEMMA RunningIs ==
    ASSUME RInv, NEW c \in Call, tool[c].status = "running"
    PROVE  /\ tool[c] \in Walks /\ tool[c].turn \in Turn
           /\ OnWay(tool[c], served[tool[c].turn], parent)
           /\ Size(tool[c]) \in Nat \ {0}
<1>1. tool[c] \in Walks /\ tool[c].turn \in Turn
  BY ToolIs DEF RInv, LetIn
<1>2. Len(Order) \in Nat \ {0}
  BY RecallConstants
<1> QED BY <1>1, <1>2, RecallConstants DEF RInv, Guided, Size

(* The root's title that was chosen. *)
LEMMA ChooseRootStep == ASSUME RInv, NEW c \in Call, ChooseRoot(c), Around PROVE RInv'
<1>1. PICK w : w = tool[c]
  OBVIOUS
<1>2. /\ w \in Walks /\ OnWay(w, served[w.turn], parent) /\ Size(w) \in Nat \ {0} /\ w.turn \in Turn
      /\ w.status = "running" /\ w.stage = "root" /\ w.depth = 0 /\ w.steps = 0
  BY <1>1, RunningIs DEF ChooseRoot, Running, OnWay
<1>3. PICK s \in Round(Pages(w.world, Root, Size(w)), 1) :
        IF s = <<>> THEN Ends(c, [w EXCEPT !.aims = {}], "no_match")
        ELSE Proceeds(c, [w EXCEPT !.stage = "summary", !.node = s[1], !.steps = w.steps + 1,
                                   !.aims = w.aims \cap Under(w.world, s[1])])
  BY <1>1, Zenon DEF ChooseRoot
<1>4. CASE s = <<>>
  <2> DEFINE v == [w EXCEPT !.aims = {}]
  <2>1. /\ v \in Walks /\ v.turn = w.turn /\ v.world = w.world /\ v.route = w.route /\ v.told = w.told
        /\ v.read = w.read /\ v.seen = w.seen /\ v.aims = {}
    BY <1>2 DEF Walks
  <2>2. Ends(c, v, "no_match")
    BY <1>3, <1>4
  <2> HIDE DEF v
  <2>3. Range(v.told) = {}
    BY <2>1, <1>2 DEF OnWay, Range
  <2> QED BY <1>1, <1>2, <2>1, <2>2, <2>3, EndsStep DEF OnWay
<1>5. CASE s # <<>>
  <2>1. s \in Seq(Ref) /\ Range(s) \subseteq Children(Root) \cup Memories(w.world, Root)
    BY <1>2, OfferedIn
  <2>2. Memories(w.world, Root) = {}
    <3>1. w.world \in RecallWorlds
      BY <1>2 DEF Walks
    <3>2. \A m \in Memory : w.world.home[m] \in Node \cup {Nowhere}
      BY <3>1 DEF RecallWorlds
    <3> QED BY <3>2, RecallConstants DEF Memories, Ref
  <2>3. s[1] \in Node /\ parent[s[1]] = Root
    <3>1. s[1] \in Range(s)
      BY <2>1, <1>5 DEF Range
    <3> QED BY <2>1, <2>2, <3>1 DEF Children
  <2>4. Level(parent, s[1], 0)
    BY <2>3 DEF Level
  <2> DEFINE v == [w EXCEPT !.stage = "summary", !.node = s[1], !.steps = w.steps + 1,
                            !.aims = w.aims \cap Under(w.world, s[1])]
  <2>5. v \in Walks
    <3>1. w.steps + 1 \in Nat /\ w.aims \cap Under(w.world, s[1]) \in SUBSET Memory
      BY <1>2 DEF Walks
    <3> DEFINE k == w.steps + 1
               A == w.aims \cap Under(w.world, s[1])
    <3> HIDE DEF k, A
    <3>2. [w EXCEPT !.stage = "summary", !.node = s[1], !.steps = k, !.aims = A] \in Walks
      BY <1>2, <2>3, <3>1 DEF Walks, k, A
    <3> QED BY <3>2 DEF k, A
  <2>6. /\ v.turn = w.turn /\ v.world = w.world /\ v.route = w.route /\ v.told = w.told
        /\ v.read = w.read /\ v.seen = w.seen /\ v.stage = "summary" /\ v.node = s[1] /\ v.depth = 0
        /\ v.steps = 1
    BY <1>2 DEF Walks
  <2>7. Proceeds(c, v)
    BY <1>3, <1>5
  <2> HIDE DEF v
  <2>8. OnWay(v, served[w.turn], parent)
    BY <1>2, <2>4, <2>6 DEF OnWay
  <2> QED BY <1>1, <1>2, <2>5, <2>6, <2>7, <2>8, ProceedsStep
<1> QED BY <1>4, <1>5

(* The node is entered, or given up. *)
LEMMA ExpandStep == ASSUME RInv, NEW c \in Call, Expand(c), Around PROVE RInv'
<1>1. PICK w : w = tool[c]
  OBVIOUS
<1>2. /\ w \in Walks /\ OnWay(w, served[w.turn], parent) /\ w.status = "running" /\ w.stage = "summary"
  BY <1>1, RunningIs DEF Expand, Running
<1>3. CASE Proceeds(c, [w EXCEPT !.stage = "titles", !.steps = w.steps + 1])
  <2> DEFINE v == [w EXCEPT !.stage = "titles", !.steps = w.steps + 1]
  <2>1. v \in Walks
    <3> DEFINE k == w.steps + 1
    <3>1. k \in Nat
      BY <1>2 DEF Walks
    <3> HIDE DEF k
    <3>2. [w EXCEPT !.stage = "titles", !.steps = k] \in Walks
      BY <1>2, <3>1 DEF Walks
    <3> QED BY <3>2 DEF k
  <2>2. /\ v.turn = w.turn /\ v.world = w.world /\ v.route = w.route /\ v.told = w.told
        /\ v.read = w.read /\ v.seen = w.seen /\ v.stage = "titles" /\ v.node = w.node
        /\ v.depth = w.depth /\ v.steps = w.steps + 1
    BY <1>2 DEF Walks
  <2>3. Proceeds(c, v)
    BY <1>3
  <2> HIDE DEF v
  <2>4. OnWay(v, served[w.turn], parent)
    BY <1>2, <2>2 DEF OnWay
  <2> QED BY <1>1, <1>2, <2>1, <2>2, <2>3, <2>4, ProceedsStep
<1>4. CASE Ends(c, [w EXCEPT !.aims = {}], "no_match")
  <2> DEFINE v == [w EXCEPT !.aims = {}]
  <2>1. /\ v \in Walks /\ v.turn = w.turn /\ v.world = w.world /\ v.route = w.route /\ v.told = w.told
        /\ v.read = w.read /\ v.seen = w.seen /\ v.aims = {}
    BY <1>2 DEF Walks
  <2>2. Ends(c, v, "no_match")
    BY <1>4
  <2> HIDE DEF v
  <2>3. Range(v.told) = {}
    BY <2>1, <1>2 DEF OnWay, Range
  <2> QED BY <1>1, <1>2, <2>1, <2>2, <2>3, EndsStep DEF OnWay
<1>5. \/ Proceeds(c, [w EXCEPT !.stage = "titles", !.steps = w.steps + 1])
      \/ Ends(c, [w EXCEPT !.aims = {}], "no_match")
  BY <1>1, Zenon DEF Expand
<1> QED BY <1>3, <1>4, <1>5

(* A child or some memories of the node are chosen. *)
LEMMA ChooseTitlesStep == ASSUME RInv, NEW c \in Call, ChooseTitles(c), Around PROVE RInv'
<1>1. PICK w : w = tool[c]
  OBVIOUS
<1>2. /\ w \in Walks /\ OnWay(w, served[w.turn], parent) /\ Size(w) \in Nat \ {0}
      /\ w.status = "running" /\ w.stage = "titles"
  BY <1>1, RunningIs DEF ChooseTitles, Running
<1> DEFINE kids(s) == {i \in DOMAIN s : s[i] \in Node}
           next(s) == [w EXCEPT !.aims = Only(w, s), !.steps = w.steps + 1,
                                !.seen = w.seen \cup Memories(w.world, w.node)]
<1>3. PICK s \in Round(Pages(w.world, w.node, Size(w)), TitleLimit) :
        \/ \E i \in kids(s) :
             /\ \A k \in kids(s) : i <= k
             /\ Proceeds(c, [next(s) EXCEPT !.stage = "summary", !.node = s[i], !.depth = next(s).depth + 1])
        \/ kids(s) = {} /\ s = <<>> /\ Ends(c, next(s), "no_match")
        \/ kids(s) = {} /\ s # <<>>
           /\ Proceeds(c, [next(s) EXCEPT !.stage = "confirm", !.candidates = First(s, CandidateLimit)])
  BY <1>1, Zenon DEF ChooseTitles
<1>4. /\ w.depth \in 0 .. 2 /\ Level(parent, w.node, w.depth) /\ w.steps = 2 * w.depth + 2
      /\ w.node \in Node /\ w.read = {} /\ w.told = <<>> /\ w.seen \subseteq Attached(w.world)
      /\ w.world \in served[w.turn] /\ (w.route = "legacy" => ~w.world.governed)
  BY <1>2 DEF OnWay, Level
<1>5. s \in Seq(Ref) /\ Range(s) \subseteq Children(w.node) \cup Memories(w.world, w.node)
  BY <1>2, RecallConstants, OfferedIn
<1>6. Memories(w.world, w.node) \subseteq Attached(w.world) /\ Memories(w.world, w.node) \subseteq Memory
  BY <1>4, RecallConstants DEF Memories, Attached, Ref
<1>7. /\ Only(w, s) \subseteq w.aims
      /\ Only(w, s) # {} => Len(s) = 1 /\ (s[1] \notin Node => Only(w, s) \subseteq {s[1]})
  BY DEF Only
<1> DEFINE n == next(s)
<1>8. /\ n \in Walks /\ n.turn = w.turn /\ n.world = w.world /\ n.route = w.route /\ n.told = <<>>
      /\ n.read = {} /\ n.seen = w.seen \cup Memories(w.world, w.node) /\ n.depth = w.depth
      /\ n.steps = w.steps + 1 /\ n.aims = Only(w, s)
  <2> DEFINE k == w.steps + 1
             A == Only(w, s)
             S == w.seen \cup Memories(w.world, w.node)
  <2>1. k \in Nat /\ A \in SUBSET Memory /\ S \in SUBSET Memory
    BY <1>2, <1>6, <1>7 DEF Walks
  <2> HIDE DEF k, A, S
  <2>2. [w EXCEPT !.aims = A, !.steps = k, !.seen = S] \in Walks
    BY <1>2, <2>1 DEF Walks
  <2>3. n = [w EXCEPT !.aims = A, !.steps = k, !.seen = S]
    BY DEF k, A, S
  <2> HIDE DEF n
  <2>4. /\ n.turn = w.turn /\ n.world = w.world /\ n.route = w.route /\ n.told = w.told
        /\ n.read = w.read /\ n.seen = S /\ n.depth = w.depth /\ n.steps = k /\ n.aims = A
    BY <1>2, <2>3 DEF Walks
  <2> QED BY <1>4, <2>2, <2>3, <2>4 DEF k, A, S
<1>9. n.seen \subseteq Attached(w.world)
  BY <1>4, <1>6, <1>8
<1>10. ASSUME NEW i \in kids(s),
              Proceeds(c, [n EXCEPT !.stage = "summary", !.node = s[i], !.depth = n.depth + 1])
       PROVE  RInv'
  <2>1. s[i] \in Node /\ s[i] \in Range(s)
    BY DEF Range
  <2> HIDE DEF n
  <2>2. parent[s[i]] = w.node
    BY <1>5, <1>6, <2>1, RecallConstants DEF Children
  <2>3. w.depth + 1 \in 0 .. 2 /\ Level(parent, s[i], w.depth + 1)
    BY <1>4, <2>1, <2>2, LevelOfChild DEF RInv, RecallType
  <2> DEFINE v == [n EXCEPT !.stage = "summary", !.node = s[i], !.depth = n.depth + 1]
  <2>4. v \in Walks
    <3> DEFINE k == n.depth + 1
    <3>1. k \in Nat
      BY <1>8 DEF Walks
    <3> HIDE DEF k
    <3>2. [n EXCEPT !.stage = "summary", !.node = s[i], !.depth = k] \in Walks
      BY <1>8, <2>1, <3>1 DEF Walks
    <3> QED BY <3>2 DEF k
  <2>5. /\ v.turn = w.turn /\ v.world = w.world /\ v.route = w.route /\ v.told = <<>> /\ v.read = {}
        /\ v.seen = n.seen /\ v.stage = "summary" /\ v.node = s[i] /\ v.depth = w.depth + 1
        /\ v.steps = w.steps + 1
    BY <1>8 DEF Walks
  <2>6. Proceeds(c, v)
    BY <1>10
  <2> HIDE DEF v
  <2>7. v.steps = 2 * v.depth + 1
    BY <1>4, <2>5
  <2>8. OnWay(v, served[w.turn], parent)
    BY <1>4, <1>9, <2>3, <2>5, <2>7 DEF OnWay
  <2> QED BY <1>1, <1>2, <2>4, <2>5, <2>6, <2>8, ProceedsStep
<1>11. ASSUME s = <<>>, Ends(c, n, "no_match") PROVE RInv'
  <2>1. n.aims = {}
    BY <1>7, <1>8, <1>11
  <2>2. Ends(c, n, "no_match")
    BY <1>11
  <2> HIDE DEF n
  <2>3. Range(n.told) = {}
    BY <1>8 DEF Range
  <2> QED BY <1>1, <1>2, <1>4, <1>8, <1>9, <2>1, <2>2, <2>3, EndsStep
<1>12. ASSUME kids(s) = {}, s # <<>>,
              Proceeds(c, [n EXCEPT !.stage = "confirm", !.candidates = First(s, CandidateLimit)])
       PROVE  RInv'
  <2> DEFINE f == First(s, CandidateLimit)
  <2>1. \A i \in DOMAIN s : s[i] \notin Node
    BY <1>12
  <2> HIDE DEF n
  <2>2. Range(s) \subseteq Memories(w.world, w.node)
    BY <1>5, <2>1 DEF Range, Children
  <2>3. f \in Seq(Ref) /\ Range(f) \subseteq Range(s) /\ (Len(s) = 1 => f = s)
    BY <1>5, RecallConstants, FirstOf
  <2> HIDE DEF f
  <2> DEFINE v == [n EXCEPT !.stage = "confirm", !.candidates = f]
  <2>4. v \in Walks
    BY <1>8, <2>3 DEF Walks
  <2>5. /\ v.turn = w.turn /\ v.world = w.world /\ v.route = w.route /\ v.told = <<>> /\ v.read = {}
        /\ v.seen = n.seen /\ v.stage = "confirm" /\ v.candidates = f /\ v.steps = w.steps + 1
        /\ v.aims = Only(w, s)
    BY <1>8 DEF Walks
  <2>6. Proceeds(c, v)
    BY <1>12 DEF f
  <2> HIDE DEF v
  <2>7. v.steps <= 7
    BY <1>4, <2>5
  <2>8. Range(v.candidates) \subseteq v.seen
    BY <1>8, <2>2, <2>3, <2>5
  <2>9. ASSUME v.aims # {} PROVE Len(v.candidates) = 1 /\ v.aims \subseteq Range(v.candidates)
    <3>1. Len(s) = 1 /\ f = s
      BY <1>7, <2>3, <2>5, <2>9
    <3>2. 1 \in DOMAIN s
      BY <1>5, <3>1
    <3>3. s[1] \notin Node /\ s[1] \in Range(s)
      BY <2>1, <3>2 DEF Range
    <3> QED BY <1>7, <2>5, <2>9, <3>1, <3>3
  <2>10. OnWay(v, served[w.turn], parent)
    BY <1>4, <1>9, <2>5, <2>7, <2>8, <2>9 DEF OnWay
  <2> QED BY <1>1, <1>2, <2>4, <2>5, <2>6, <2>10, ProceedsStep
<1> QED BY <1>3, <1>10, <1>11, <1>12

(* Contents are told. *)
LEMMA ConfirmStep == ASSUME RInv, NEW c \in Call, Confirm(c), Around PROVE RInv'
<1>1. PICK w : w = tool[c]
  OBVIOUS
<1>2. /\ w \in Walks /\ OnWay(w, served[w.turn], parent) /\ w.status = "running" /\ w.stage = "confirm"
  BY <1>1, RunningIs DEF Confirm, Running
<1> DEFINE next(s) == [w EXCEPT !.read = Range(w.candidates), !.told = s]
<1>3. PICK s \in Select(Range(w.candidates), ConfirmLimit) :
        IF s = <<>> THEN Ends(c, [next(s) EXCEPT !.aims = {}], "no_match") ELSE Ends(c, next(s), "completed")
  BY <1>1, Zenon DEF Confirm
<1>4. /\ w.world \in served[w.turn] /\ (w.route = "legacy" => ~w.world.governed)
      /\ w.seen \subseteq Attached(w.world) /\ Range(w.candidates) \subseteq w.seen
      /\ w.aims # {} => Len(w.candidates) = 1 /\ w.aims \subseteq Range(w.candidates)
  BY <1>2 DEF OnWay
<1>5. s \in Seq(Ref) /\ Range(s) \subseteq Range(w.candidates)
  BY RecallConstants, SelectIn
<1>6. w.candidates \in Seq(Ref) /\ Range(w.candidates) \in SUBSET Memory
  BY <1>2, <1>4 DEF Walks
<1> DEFINE n == next(s)
<1>7. /\ n \in Walks /\ n.turn = w.turn /\ n.world = w.world /\ n.route = w.route /\ n.told = s
      /\ n.read = Range(w.candidates) /\ n.seen = w.seen /\ n.aims = w.aims
  BY <1>2, <1>5, <1>6 DEF Walks
<1>8. CASE s = <<>>
  <2> DEFINE v == [n EXCEPT !.aims = {}]
  <2>1. Ends(c, v, "no_match")
    BY <1>3, <1>8
  <2> HIDE DEF n
  <2>2. /\ v \in Walks /\ v.turn = w.turn /\ v.world = w.world /\ v.route = w.route /\ v.told = s
        /\ v.read = Range(w.candidates) /\ v.seen = w.seen /\ v.aims = {}
    BY <1>7 DEF Walks
  <2> HIDE DEF v
  <2> QED BY <1>1, <1>2, <1>4, <1>5, <2>1, <2>2, EndsStep
<1>9. CASE s # <<>>
  <2>1. Ends(c, n, "completed")
    BY <1>3, <1>9
  <2>2. w.aims \subseteq Range(s)
    <3> SUFFICES ASSUME w.aims # {} PROVE w.aims \subseteq Range(s)
      OBVIOUS
    <3>1. Len(w.candidates) = 1 /\ w.aims \subseteq Range(w.candidates)
      BY <1>4
    <3>2. Range(w.candidates) = {w.candidates[1]}
      BY <1>6, <3>1 DEF Range
    <3>3. s[1] \in Range(s)
      BY <1>5, <1>9 DEF Range
    <3> QED BY <1>5, <3>1, <3>2, <3>3
  <2> HIDE DEF n
  <2> QED BY <1>1, <1>2, <1>4, <1>5, <1>7, <2>1, <2>2, EndsStep
<1> QED BY <1>8, <1>9

(* The earlier walk takes over. *)
LEMMA FallBackStep == ASSUME RInv, NEW c \in Call, FallBack(c), Around PROVE RInv'
<1>1. tool[c].status = "running" /\ tool[c] \in Walks /\ tool[c].turn \in Turn /\ LetIn(c)
  BY RunningIs DEF FallBack, LetIn
<1>2. CASE current.governed
  BY <1>1, <1>2, FailsStep DEF FallBack
<1>3. CASE ~current.governed
  <2> DEFINE t == tool[c].turn
             w == Walk(t, "legacy", current)
  <2>1. current \in served[t] /\ current \in RecallWorlds
    BY <1>1, LetInBegun DEF RInv, Timely, RecallType
  <2>2. <<>> \in Seq(Ref) /\ Attached(current) \subseteq Memory /\ 0 \in Nat
    BY DEF Attached
  <2>3. w \in Walks
    BY <1>1, <2>1, <2>2 DEF Walk, Walks
  <2>4. /\ w.turn = t /\ w.status = "running" /\ w.world = current /\ w.route = "legacy" /\ w.read = {}
        /\ w.told = <<>> /\ w.seen = {} /\ w.stage = "root" /\ w.depth = 0 /\ w.steps = 0
    BY DEF Walk
  <2>5. GoesOn(c, w)
    BY <1>3 DEF FallBack
  <2> HIDE DEF w
  <2>6. OnWay(w, served[t], parent)
    BY <1>3, <2>1, <2>4 DEF OnWay
  <2> QED BY <1>1, <2>3, <2>4, <2>5, <2>6, GoesOnStep DEF Around
<1> QED BY <1>2, <1>3

(* A step of a recall. *)
LEMMA RecallStep == ASSUME RInv, NEW c \in Call, Recall(c) PROVE RInv'
<1>1. Around
  BY DEF Recall, Around
<1>2. CASE Fail(c)
  BY <1>1, <1>2, FailsStep DEF Fail
<1> QED
  BY <1>1, <1>2, ChooseRootStep, ExpandStep, ChooseTitlesStep, ConfirmStep, FallBackStep DEF Recall

(* The tool is called. *)
LEMMA CallToolStep == ASSUME RInv, NEW c \in Call, CallTool(c) PROVE RInv'
<1>0. RecallType /\ tool[c].status = "idle" /\ ~LetIn(c) /\ turn.phase = "open"
  BY DEF RInv, CallTool, LetIn, Open
<1>1. UNCHANGED <<parent, current, turn, offer, kept, used, served>>
  BY DEF CallTool
<1>2. PICK pin :
        IF Answerable(turn.at, pin)
        THEN /\ binding' = [binding EXCEPT ![turn.at].state = "running"]
             /\ Step(c, Walk(turn.at, "map", pin))
        ELSE Step(c, [status |-> "refused"]) /\ UNCHANGED binding
  BY Zenon DEF CallTool
<1>3. CASE Answerable(turn.at, pin)
  BY <1>0, <1>1, <1>2, <1>3, LetInStep DEF Step
<1>4. CASE ~Answerable(turn.at, pin)
  <2> DEFINE r == [status |-> "refused"]
  <2>1. tool' = [tool EXCEPT ![c] = r] /\ binding' = binding
    BY <1>2, <1>4 DEF Step
  <2>2. r \in [status : {"idle", "refused"}] /\ r.status = "refused"
    OBVIOUS
  <2> HIDE DEF r
  <2>3. /\ tool' \in [Call -> [status : {"idle", "refused"}] \cup Walks \cup Walked \cup Failed]
        /\ tool'[c] = r /\ \A d \in Call : d # c => tool'[d] = tool[d]
    BY <1>0, <2>1, <2>2 DEF RecallType
  <2>4. RecallType' /\ Timely'
    BY <1>0, <1>1, <2>1, <2>3 DEF RecallType, RInv, Timely
  <2>5. ~LetIn(c)' /\ \A d \in Call : d # c => (LetIn(d)' <=> LetIn(d))
    BY <2>2, <2>3 DEF LetIn
  <2>6. Owned'
    <3>1. ASSUME NEW d \in Call, d # c, LetIn(d) PROVE Owns(d)'
      <4>1. Owns(d)
        BY <3>1 DEF RInv, Owned
      <4> QED BY <4>1, <3>1, <1>1, <2>1, <2>3 DEF Owns
    <3>2. \A d, e \in Call : LetIn(d)' /\ LetIn(e)' /\ tool'[d].turn = tool'[e].turn => d = e
      BY <2>3, <2>5 DEF RInv, Owned
    <3>3. ASSUME NEW k \in kept', binding'[k].state # "offered"
          PROVE  \E d \in Call : LetIn(d)' /\ tool'[d].turn = k
      <4>1. PICK d \in Call : LetIn(d) /\ tool[d].turn = k
        BY <3>3, <1>1, <2>1 DEF RInv, Owned
      <4>2. d # c
        BY <4>1, <1>0
      <4> QED BY <4>1, <4>2, <2>3, <2>5
    <3> QED BY <3>1, <3>2, <3>3, <2>5 DEF Owned
  <2>7. Guided'
    <3> SUFFICES ASSUME NEW d \in Call
                 PROVE  /\ tool'[d].status = "running" => OnWay(tool'[d], served[tool'[d].turn], parent)
                        /\ tool'[d].status \in {"completed", "no_match"} =>
                              Arrived(tool'[d], served[tool'[d].turn])
      BY <1>1 DEF Guided
    <3>1. CASE d = c
      BY <3>1, <2>2, <2>3
    <3>2. CASE d # c
      BY <3>2, <2>3 DEF RInv, Guided
    <3> QED BY <3>1, <3>2
  <2> QED BY <1>1, <2>4, <2>6, <2>7 DEF RInv, UsedIsDue
<1> QED BY <1>3, <1>4

(* Nothing has been offered at the start. *)
LEMMA RecallInitially == RecallInit => RInv
<1> SUFFICES ASSUME RecallInit PROVE RInv
  OBVIOUS
<1>1. /\ parent \in [Node -> Node \cup {Root}] /\ ValidTree(parent)
      /\ turn = [at |-> 0, phase |-> "over", aborted |-> {}]
      /\ offer = [t \in Turn |-> [pc |-> "none", read |-> Nowhere]]
      /\ binding = [t \in Turn |-> Nowhere] /\ kept = {} /\ tool = [c \in Call |-> [status |-> "idle"]]
      /\ used = [t \in Turn |-> Nowhere] /\ served = [t \in Turn |-> {}]
  BY DEF RecallInit
<1>2. current \in RecallWorlds
  <2>1. PICK h \in [Memory -> Node \cup {Nowhere}] : current = [governed |-> FALSE, home |-> h]
    BY Zenon DEF RecallInit
  <2> QED BY <2>1 DEF RecallWorlds
<1>3. 0 \in 0 .. MaxTurn /\ \A t \in Turn : t \in Nat /\ t > 0
  BY RecallConstants DEF Turn
<1>4. RecallType
  BY <1>1, <1>2, <1>3 DEF RecallType
<1>5. Timely
  BY <1>1, <1>3 DEF Timely
<1>6. Owned /\ Guided /\ UsedIsDue
  BY <1>1 DEF Owned, LetIn, Guided, UsedIsDue
<1> QED BY <1>4, <1>5, <1>6 DEF RInv

(* Every step keeps the invariant. *)
LEMMA RecallInductive == RInv /\ [RecallNext]_recallVars => RInv'
<1> SUFFICES ASSUME RInv, [RecallNext]_recallVars PROVE RInv'
  OBVIOUS
<1>1. CASE UNCHANGED recallVars
  <2>1. /\ UNCHANGED <<parent, current, turn, offer, binding, kept, tool, used, served>>
    BY <1>1 DEF recallVars
  <2>2. RecallType' /\ Timely'
    BY <2>1 DEF RInv, RecallType, Timely
  <2>3. Owned' /\ Guided'
    BY <2>1, OwnedStays, GuidedStays
  <2> QED BY <2>1, <2>2, <2>3 DEF RInv, UsedIsDue
<1>2. CASE BeginTurn \/ Abort \/ EndTurn \/ Dispose \/ Switch
  BY <1>2, BeginTurnStep, AbortEndStep, DisposeStep, SwitchStep
<1>3. ASSUME NEW t \in Turn, ReadWorld(t) \/ Bind(t) \/ TurnEnded(t) PROVE RInv'
  BY <1>3, ReadWorldStep, BindStep, TurnEndedStep
<1>4. ASSUME NEW c \in Call, CallTool(c) \/ Recall(c) PROVE RInv'
  BY <1>4, CallToolStep, RecallStep
<1> QED BY <1>1, <1>2, <1>3, <1>4 DEF RecallNext

(* Where every offer, binding, call and walk is, in every state of recall, *)
(* for any catalog, project, calls and answers of the child agents.        *)
THEOREM RecallInvariant == RecallSpec => []RInv
BY RecallInitially, RecallInductive, PTL DEF RecallSpec

-----------------------------------------------------------------------------
(* What a turn is told was served while it lasted and was weighed first,   *)
(* a map is answered once, and what the turn's consolidation takes as used *)
(* is what was told (map-recall-tool.ts, map-first-recall.ts).             *)
THEOREM ToldWasServed == RecallSpec => []ToldAndUsed
<1>1. RInv => ToldAndUsed
  <2> SUFFICES ASSUME RInv PROVE ToldAndUsed
    OBVIOUS
  <2>1. ASSUME NEW c \in Call, tool[c].status = "completed"
        PROVE  LET w == tool[c] IN
               /\ w.world \in served[w.turn] /\ Range(w.told) \subseteq w.read
               /\ w.read \subseteq w.seen /\ w.seen \subseteq Attached(w.world)
               /\ w.route = "legacy" => ~w.world.governed
               /\ \A d \in Call \ {c} : tool[d].status \notin {"idle", "refused"} => tool[d].turn # w.turn
    <3>1. LetIn(c) /\ Arrived(tool[c], served[tool[c].turn])
      BY <2>1 DEF RInv, Guided, LetIn
    <3>2. \A d \in Call \ {c} : tool[d].status \notin {"idle", "refused"} => tool[d].turn # tool[c].turn
      BY <3>1 DEF RInv, Owned, LetIn
    <3> QED BY <3>1, <3>2 DEF Arrived
  <2> QED BY <2>1 DEF ToldAndUsed, RInv, UsedIsDue
<1> QED BY <1>1, RecallInvariant, PTL

(* A recall whose every decision leads to one memory tells it, whatever    *)
(* the catalog and the size of its pages: no walk runs out before          *)
(* (MAX_DEPTH, MAX_RECALL_EXPANSION_STEPS).                                *)
THEOREM SteadyRecallFinds == RecallSpec => []SteadyFinds
<1>1. RInv => SteadyFinds
  <2> SUFFICES ASSUME RInv, NEW c \in Call, tool[c].status \in {"completed", "no_match"}
               PROVE  tool[c].aims \subseteq Range(tool[c].told)
    BY DEF SteadyFinds
  <2> QED BY DEF RInv, Guided, Arrived
<1> QED BY <1>1, RecallInvariant, PTL
=============================================================================
