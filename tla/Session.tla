------------------------------- MODULE Session -------------------------------
(***************************************************************************)
(* The plugin in one host process, v3 mode: the event handlers that        *)
(* `install' registers (src/src/observer.ts) with the mutation coordinator,*)
(* the project consolidation barrier and the per-parent task sets they     *)
(* share, the consolidations and recall tool calls of several parent       *)
(* sessions, and the child agents these run.  A model call is a ChildCall; *)
(* SubagentRun shows that runDshSubagentV3 is one.  What a consolidation   *)
(* does to the project's files is ProjectWorld's business: here it is the  *)
(* entry it leaves in `world'.                                             *)
(***************************************************************************)
EXTENDS Naturals, Sequences, FiniteSets

CONSTANTS
    Sessions,   \* parent sessions; each has one parent agent
    Scopes,     \* project_scope_id's
    ScopeOf,    \* the project of a session
    Events,     \* deliveries of turn/end events of completed turns
    SessionOf,  \* the session an event, or a recall tool call, belongs to
    TurnOf,     \* the turn an event ends; two deliveries of one may differ in nothing else
    Tools,      \* calls of the recall tool
    MaxCalls,   \* model calls of one consolidation or recall, at most
    Occurs,     \* bound: the waits and endings the host may bring about
    None

Ops == Events \cup Tools
Calls == Ops \X (1 .. MaxCalls)

ASSUME SessionAssumption ==
    /\ ScopeOf \in [Sessions -> Scopes]
    /\ SessionOf \in [Events \cup Tools -> Sessions]
    /\ Events \cap Tools = {} /\ Events \cap Calls = {}
    /\ None \notin Events \cup Tools
    /\ MaxCalls \in Nat \ {0}

Project(x) == ScopeOf[SessionOf[x]]

VARIABLES
    agents,     \* [Sessions -> {"up", "gone"}]: agent/disposed has been emitted
    closed,     \* sessions whose session/disposed has been emitted
    handled,    \* handledTurns
    taskSet,    \* SubagentLifecycleV3's set of each parent: "none", "open", "cancelled"
    tasks,      \* what that set tracks: consolidations and tool children's calls
    pending,    \* the barrier: registered consolidations that have not settled
    immediates, \* setImmediate callbacks, first in first out
    tail,       \* the coordinator's `queues': the last operation of each project
    prev,       \* the operation whose tail an operation was chained to
    stage,      \* where each consolidation and tool call is
    aborted,    \* those whose signal is aborted
    calls,      \* model calls each has made
    call, child,\* ChildCall's variables of each model call
    world,      \* consolidations that published, per project, in order
    phase,      \* [Waiters -> ...]: where a handler that waits is
    waits,      \* what it waits for
    count,      \* history: how many consolidations were registered ...
    rank,       \* ... and each one's number among them
    known       \* history: what was registered in the project when a handler began to wait

vars == <<agents, closed, handled, taskSet, tasks, pending, immediates, tail, prev, stage,
          aborted, calls, call, child, world, phase, waits, known, count, rank>>

hostVars  == <<agents, closed>>
setVars   == <<taskSet, tasks>>
chainVars == <<tail, prev>>
callVars  == <<calls, call, child>>
waitVars  == <<phase, waits, known>>
ranks     == <<count, rank>>

(* The handlers that wait: a session's flush, its pre-step before recall,  *)
(* the disposal of its agent, and the cleanup of the plugin.               *)
Cleanup == <<"cleanup", None>>
Waiters == ({"flush", "recall", "dispose"} \X Sessions) \cup {Cleanup}

disposed == phase[Cleanup] # "idle"

Init ==
    /\ agents = [s \in Sessions |-> "up"] /\ closed = {} /\ handled = {}
    /\ taskSet = [s \in Sessions |-> "none"] /\ tasks = [s \in Sessions |-> {}]
    /\ pending = {} /\ immediates = <<>>
    /\ tail = [p \in Scopes |-> None] /\ prev = [e \in Events |-> None]
    /\ stage = [x \in Ops |-> "none"] /\ aborted = {}
    /\ calls = [x \in Ops |-> 0]
    /\ call = [c \in Calls |-> "idle"] /\ child = [c \in Calls |-> "none"]
    /\ world = [p \in Scopes |-> <<>>]
    /\ phase = [w \in Waiters |-> "idle"] /\ waits = [w \in Waiters |-> {}]
    /\ known = [w \in Waiters |-> {}]
    /\ count = 0 /\ rank = [e \in Events |-> 0]

Settled(t) == IF t \in Events THEN stage[t] = "settled" ELSE call[t] = "ended"

Registered == {e \in Events : stage[e] \notin {"none", "ignored"}}

(***************************************************************************)
(* session/event: turn/end                                                 *)
(***************************************************************************)

(* Mutant of Key: every delivery has a key of its own. *)
KeyOfDelivery(e) == <<SessionOf[e], e>>

Key(e) == <<SessionOf[e], TurnOf[e]>>

(* The event is dropped: no parent agent is resolved (it was disposed of   *)
(* and no registry lists it), or the turn was handled already.             *)
DropTurnEnd(e) ==
    /\ stage[e] = "none" /\ ~disposed
    /\ agents[SessionOf[e]] = "gone" \/ SessionOf[e] \in closed \/ Key(e) \in handled
    /\ stage' = [stage EXCEPT ![e] = "ignored"]
    /\ UNCHANGED <<hostVars, handled, setVars, pending, immediates, chainVars, aborted,
                   callVars, world, waitVars, ranks>>

(* The turn's consolidation is registered with the parent's task set       *)
(* (created on demand; one that is cancelled tracks nothing more and its   *)
(* signal is aborted) and with the barrier, and is scheduled.  An agent    *)
(* that is gone may still be resolved, through the host's registry.        *)
TurnEnd(e) ==
    LET s == SessionOf[e] IN
    /\ stage[e] = "none" /\ ~disposed
    /\ Key(e) \notin handled
    /\ handled' = handled \cup {Key(e)}
    /\ taskSet' = [taskSet EXCEPT ![s] = IF @ = "none" THEN "open" ELSE @]
    /\ IF taskSet[s] = "cancelled"
          THEN aborted' = aborted \cup {e} /\ UNCHANGED tasks
          ELSE tasks' = [tasks EXCEPT ![s] = @ \cup {e}] /\ UNCHANGED aborted
    /\ pending' = pending \cup {e}
    /\ immediates' = Append(immediates, e)
    /\ stage' = [stage EXCEPT ![e] = "scheduled"]
    /\ count' = count + 1 /\ rank' = [rank EXCEPT ![e] = count + 1]
    /\ UNCHANGED <<hostVars, chainVars, callVars, world, waitVars>>

(* settleOperation(): the operation's promise fulfils, so the task set and *)
(* the barrier let go of it.                                               *)
Settle(e) ==
    /\ stage' = [stage EXCEPT ![e] = "settled"]
    /\ tasks' = [tasks EXCEPT ![SessionOf[e]] = @ \ {e}]
    /\ pending' = pending \ {e}

(***************************************************************************)
(* The scheduled callback and the coordinator                              *)
(***************************************************************************)

(* The operation was aborted before it ran, or has no model route.         *)
GiveUpScheduled ==
    /\ immediates # <<>>
    /\ immediates' = Tail(immediates)
    /\ Settle(Head(immediates))
    /\ UNCHANGED <<hostVars, handled, taskSet, chainVars, aborted, callVars, world, waitVars, ranks>>

(* runConsolidation calls coordinator.run: the operation is chained behind *)
(* the project's tail.                                                     *)
RunScheduled ==
    /\ immediates # <<>>
    /\ LET e == Head(immediates) IN
       /\ e \notin aborted
       /\ immediates' = Tail(immediates)
       /\ prev' = [prev EXCEPT ![e] = tail[Project(e)]]
       /\ tail' = [tail EXCEPT ![Project(e)] = e]
       /\ stage' = [stage EXCEPT ![e] = "queued"]
    /\ UNCHANGED <<hostVars, handled, setVars, pending, aborted, callVars, world, waitVars, ranks>>

(* The chained operation starts when the one before it has settled, well   *)
(* or badly.                                                               *)
(* Mutant of ChainReady: runs when the one before it has begun. *)
ChainReadyEarly(e) == prev[e] # None => stage[prev[e]] # "queued"

ChainReady(e) == prev[e] # None => stage[prev[e]] = "settled"

Start(e) ==
    /\ stage[e] = "queued" /\ ChainReady(e)
    /\ stage' = [stage EXCEPT ![e] = "ready"]
    /\ UNCHANGED <<hostVars, handled, setVars, pending, immediates, chainVars, aborted,
                   callVars, world, waitVars, ranks>>

(* The coordinator forgets the project if no later operation was chained.  *)
(* Mutant of LeaveChain: the project is forgotten though another operation *)
(* was chained.                                                            *)
LeaveChainAlways(e) == tail' = [tail EXCEPT ![Project(e)] = None]

LeaveChain(e) ==
    tail' = [tail EXCEPT ![Project(e)] = IF @ = e THEN None ELSE @]

(* consolidate publishes memory, catalog and generation, whatever becomes  *)
(* of the signal meanwhile.                                                *)
Publish(e) ==
    /\ stage[e] = "ready" /\ calls[e] > 0
    /\ world' = [world EXCEPT ![Project(e)] = Append(@, e)]
    /\ stage' = [stage EXCEPT ![e] = "published"]
    /\ UNCHANGED <<hostVars, handled, setVars, pending, immediates, chainVars, aborted,
                   callVars, waitVars, ranks>>

(* consolidate returns: created, skipped, a duplicate, or failed.          *)
Finish(e) ==
    /\ stage[e] \in {"ready", "failed", "published"}
    /\ Settle(e) /\ LeaveChain(e)
    /\ UNCHANGED <<hostVars, handled, taskSet, immediates, prev, aborted, callVars, world,
                   waitVars, ranks>>

(***************************************************************************)
(* Recall tool calls                                                       *)
(***************************************************************************)

(* The parent's model calls mnemosyne_recall.                              *)
StartTool(x) ==
    /\ stage[x] = "none" /\ agents[SessionOf[x]] = "up"
    /\ stage' = [stage EXCEPT ![x] = "ready"]
    /\ UNCHANGED <<hostVars, handled, setVars, pending, immediates, chainVars, aborted,
                   callVars, world, waitVars, ranks>>

(* The host aborts the signal of a tool call; neither the task set's       *)
(* signal nor the plugin's own reaches it.                                 *)
AbortTool(x) ==
    /\ stage[x] \notin {"none", "settled"} /\ x \notin aborted
    /\ aborted' = aborted \cup {x}
    /\ UNCHANGED <<hostVars, handled, setVars, pending, immediates, chainVars, stage,
                   callVars, world, waitVars, ranks>>

(* The recall has what it wanted, or failed.                               *)
FinishTool(x) ==
    /\ stage[x] \in {"ready", "failed"}
    /\ stage' = [stage EXCEPT ![x] = "settled"]
    /\ UNCHANGED <<hostVars, handled, setVars, pending, immediates, chainVars, aborted,
                   callVars, world, waitVars, ranks>>

(***************************************************************************)
(* Model calls                                                             *)
(***************************************************************************)

Current(x) == <<x, calls[x]>>

(* The next model call.  On an aborted signal it throws at once.  A recall *)
(* runs its call first and tracks it after, in the set its parent has by   *)
(* then: a cancelled set tracks nothing and fails the recall, but the call *)
(* goes on.  A consolidation's calls are not tracked, the consolidation is.*)
BeginCall(x) ==
    LET c == <<x, calls[x] + 1>>
        s == SessionOf[x]
        refused == x \in Tools /\ taskSet[s] = "cancelled"
    IN
    /\ stage[x] = "ready" /\ calls[x] < MaxCalls
    /\ calls' = [calls EXCEPT ![x] = @ + 1]
    /\ IF x \in aborted
          THEN call' = [call EXCEPT ![c] = "ended"] /\ UNCHANGED child
          ELSE call' = [call EXCEPT ![c] = "creating"] /\ child' = [child EXCEPT ![c] = "pending"]
    /\ stage' = [stage EXCEPT ![x] = IF refused \/ x \in aborted THEN "failed" ELSE "calling"]
    /\ IF x \in Tools
          THEN /\ taskSet' = [taskSet EXCEPT ![s] = IF @ = "none" THEN "open" ELSE @]
               /\ tasks' = [tasks EXCEPT ![s] = IF refused \/ x \in aborted THEN @ ELSE @ \cup {c}]
          ELSE UNCHANGED setVars
    /\ UNCHANGED <<hostVars, handled, pending, immediates, chainVars, aborted, world,
                   waitVars, ranks>>

(* A call settles: the task set lets go of it, and its consolidation or    *)
(* recall, unless that has gone on without it, goes to the given stage.    *)
EndCall(c, next) ==
    /\ call' = [call EXCEPT ![c] = "ended"]
    /\ tasks' = [tasks EXCEPT ![SessionOf[c[1]]] = @ \ {c}]
    /\ stage' = [stage EXCEPT ![c[1]] = IF @ \in {"calling", "answered", "failing"} THEN next ELSE @]

(* The host's agents.create fulfils or rejects, early or late.             *)
HostAnswers(c) ==
    /\ child[c] = "pending"
    /\ \E answer \in {"live", "never"} : child' = [child EXCEPT ![c] = answer]
    /\ UNCHANGED <<hostVars, handled, setVars, pending, immediates, chainVars, stage, aborted,
                   calls, call, world, waitVars, ranks>>

(* Abort, creation timeout or failed creation.                             *)
GiveUp(c) ==
    /\ call[c] = "creating"
    /\ EndCall(c, "failed")
    /\ UNCHANGED <<hostVars, handled, taskSet, pending, immediates, chainVars, aborted, calls,
                   child, world, waitVars, ranks>>

(* The child that comes too late is disposed of by the creation's reaction.*)
(* Mutant of ReleaseLate: only an abort, not the creation timeout, makes a  *)
(* handle late.                                                            *)
ReleaseLateAborted(c) ==
    /\ call[c] = "ended" /\ child[c] = "live" /\ c[1] \in aborted
    /\ child' = [child EXCEPT ![c] = "released"]
    /\ UNCHANGED <<hostVars, handled, setVars, pending, immediates, chainVars, stage, aborted,
                   calls, call, world, waitVars, ranks>>

ReleaseLate(c) ==
    /\ call[c] = "ended" /\ child[c] = "live"
    /\ child' = [child EXCEPT ![c] = "released"]
    /\ UNCHANGED <<hostVars, handled, setVars, pending, immediates, chainVars, stage, aborted,
                   calls, call, world, waitVars, ranks>>

Take(c) ==
    /\ call[c] = "creating" /\ child[c] = "live"
    /\ call' = [call EXCEPT ![c] = "running"]
    /\ UNCHANGED <<hostVars, handled, setVars, pending, immediates, chainVars, stage, aborted,
                   calls, child, world, waitVars, ranks>>

(* What the session/flush of a child's own session waits for: nothing.     *)
(* Mutant of ChildFlushWaits: a child's flush waits at the barrier too. *)
ChildFlushWaitsAtBarrier(p) == {e \in pending : Project(e) = p}

ChildFlushWaits(p) == {}

(* The child is through with its task, its own session checkpointed, or    *)
(* the signal aborts it; it is disposed of.                                *)
ChildEnds(c) ==
    LET x == c[1] IN
    /\ call[c] = "running"
    /\ x \in aborted \/ \A t \in ChildFlushWaits(Project(x)) : Settled(t)
    /\ call' = [call EXCEPT ![c] = "releasing"]
    /\ child' = [child EXCEPT ![c] = "released"]
    /\ \E next \in (IF x \in aborted THEN {"failing"} ELSE {"answered", "failing"}) :
          stage' = [stage EXCEPT ![x] = IF @ = "calling" THEN next ELSE @]
    /\ UNCHANGED <<hostVars, handled, setVars, pending, immediates, chainVars, aborted, calls,
                   world, waitVars, ranks>>

(* The disposal settles or its five seconds are over; the model's answer,  *)
(* if it is one, is given to the caller.                                   *)
Return(c) ==
    /\ call[c] = "releasing"
    /\ EndCall(c, IF stage[c[1]] = "answered" THEN "ready" ELSE "failed")
    /\ UNCHANGED <<hostVars, handled, taskSet, pending, immediates, chainVars, aborted, calls,
                   child, world, waitVars, ranks>>

(***************************************************************************)
(* Flush, recall, disposal, cleanup                                        *)
(***************************************************************************)

(* barrier.wait: the project's registered operations as they are now.      *)
(* Mutant of BarrierSnapshot: only operations that have started are tracked. *)
BarrierSnapshotStarted(p) ==
    {e \in pending : Project(e) = p /\ stage[e] \notin {"scheduled", "queued"}}

BarrierSnapshot(p) == {e \in pending : Project(e) = p}

Wait(w, ts, p) ==
    /\ w \in Occurs /\ phase[w] = "idle"
    /\ phase' = [phase EXCEPT ![w] = "waiting"]
    /\ waits' = [waits EXCEPT ![w] = ts]
    /\ known' = [known EXCEPT ![w] = {e \in Registered : Project(e) = p}]

(* session/flush of a parent session, and agent/pre-step before recall:    *)
(* both wait at the barrier.  After the cleanup began, a flush does not.   *)
WaitAtBarrier(kind, s) ==
    /\ kind = "flush" => ~disposed
    /\ Wait(<<kind, s>>, BarrierSnapshot(ScopeOf[s]), ScopeOf[s])
    /\ UNCHANGED <<hostVars, handled, setVars, pending, immediates, chainVars, stage, aborted,
                   callVars, world, ranks>>

BarrierReturns(kind, s) ==
    /\ phase[<<kind, s>>] = "waiting"
    /\ \A t \in waits[<<kind, s>>] : Settled(t)
    /\ phase' = [phase EXCEPT ![<<kind, s>>] = "returned"]
    /\ UNCHANGED <<hostVars, handled, setVars, pending, immediates, chainVars, stage, aborted,
                   callVars, world, waits, ranks, known>>

(* agent/disposed: the parent's task set is cancelled and waited for.      *)
DisposeAgent(s) ==
    /\ agents[s] = "up" /\ <<"dispose", s>> \in Occurs
    /\ agents' = [agents EXCEPT ![s] = "gone"]
    /\ IF taskSet[s] = "none"
          THEN UNCHANGED <<taskSet, aborted, waitVars>>
          ELSE /\ taskSet' = [taskSet EXCEPT ![s] = "cancelled"]
               /\ aborted' = aborted \cup (tasks[s] \cap Events)
               /\ Wait(<<"dispose", s>>, tasks[s], ScopeOf[s])
    /\ UNCHANGED <<closed, handled, tasks, pending, immediates, chainVars, stage, callVars,
                   world, ranks>>

(* Mutant of DisposeReturns: the task set is cancelled, not waited for. *)
DisposeReturnsAtOnce(s) ==
    /\ phase[<<"dispose", s>>] = "waiting"
    /\ phase' = [phase EXCEPT ![<<"dispose", s>>] = "returned"]
    /\ taskSet' = [taskSet EXCEPT ![s] = "none"]
    /\ tasks' = [tasks EXCEPT ![s] = {}]
    /\ UNCHANGED <<hostVars, handled, pending, immediates, chainVars, stage, aborted, callVars,
                   world, waits, ranks, known>>

DisposeReturns(s) ==
    /\ phase[<<"dispose", s>>] = "waiting"
    /\ \A t \in waits[<<"dispose", s>>] : Settled(t)
    /\ phase' = [phase EXCEPT ![<<"dispose", s>>] = "returned"]
    /\ taskSet' = [taskSet EXCEPT ![s] = "none"]
    /\ tasks' = [tasks EXCEPT ![s] = {}]
    /\ UNCHANGED <<hostVars, handled, pending, immediates, chainVars, stage, aborted, callVars,
                   world, waits, ranks, known>>

(* session/disposed: the session's keys are forgotten.  The host awaits a  *)
(* flush of the session before (lines 392-394 of the source).              *)
CloseSession(s) ==
    /\ s \notin closed /\ <<"close", s>> \in Occurs
    /\ <<"flush", s>> \in Occurs => phase[<<"flush", s>>] = "returned"
    /\ closed' = closed \cup {s}
    /\ handled' = {k \in handled : k[1] # s}
    /\ UNCHANGED <<agents, setVars, pending, immediates, chainVars, stage, aborted, callVars,
                   world, waitVars, ranks>>

(* The plugin is unloaded: no further turn is handled, every consolidation *)
(* is aborted, the task sets are waited for as they are now, then the      *)
(* barrier.                                                                *)
BeginCleanup ==
    /\ phase[Cleanup] = "idle" /\ Cleanup \in Occurs
    /\ phase' = [phase EXCEPT ![Cleanup] = "tasks"]
    /\ waits' = [waits EXCEPT ![Cleanup] = UNION {tasks[s] : s \in Sessions}]
    /\ aborted' = aborted \cup pending
    /\ UNCHANGED <<hostVars, handled, setVars, pending, immediates, chainVars, stage, callVars,
                   world, ranks, known>>

(* Mutant of ContinueCleanup: the task sets are waited for, not the barrier. *)
ContinueCleanupTasksOnly ==
    /\ phase[Cleanup] \in {"tasks", "barrier"}
    /\ \A t \in waits[Cleanup] : Settled(t)
    /\ phase' = [phase EXCEPT ![Cleanup] = "returned"]
    /\ UNCHANGED <<hostVars, handled, setVars, pending, immediates, chainVars, stage, aborted,
                   callVars, world, waits, ranks, known>>

ContinueCleanup ==
    /\ phase[Cleanup] \in {"tasks", "barrier"}
    /\ \A t \in waits[Cleanup] : Settled(t)
    /\ IF phase[Cleanup] = "tasks"
          THEN /\ phase' = [phase EXCEPT ![Cleanup] = "barrier"]
               /\ waits' = [waits EXCEPT ![Cleanup] = pending]
          ELSE /\ phase' = [phase EXCEPT ![Cleanup] = "returned"]
               /\ UNCHANGED waits
    /\ UNCHANGED <<hostVars, handled, setVars, pending, immediates, chainVars, stage, aborted,
                   callVars, world, ranks, known>>

-----------------------------------------------------------------------------
Schedules == GiveUpScheduled \/ RunScheduled

Consolidates(e) == Start(e) \/ Publish(e) \/ Finish(e)

Handlers ==
    \/ \E s \in Sessions : \/ \E kind \in {"flush", "recall"} : BarrierReturns(kind, s)
                           \/ DisposeReturns(s)
    \/ ContinueCleanup

HostEvents ==
    \/ \E e \in Events : DropTurnEnd(e) \/ TurnEnd(e)
    \/ \E x \in Tools : StartTool(x) \/ AbortTool(x)
    \/ \E c \in Calls : HostAnswers(c)
    \/ \E s \in Sessions : \/ \E kind \in {"flush", "recall"} : WaitAtBarrier(kind, s)
                           \/ DisposeAgent(s) \/ CloseSession(s)
    \/ BeginCleanup

CallSteps(c) == GiveUp(c) \/ Take(c) \/ ReleaseLate(c) \/ ChildEnds(c) \/ Return(c)

Next ==
    \/ HostEvents \/ Schedules \/ Handlers
    \/ \E e \in Events : Consolidates(e)
    \/ \E x \in Tools : FinishTool(x)
    \/ \E x \in Ops : BeginCall(x)
    \/ \E c \in Calls : CallSteps(c)

Spec == Init /\ [][Next]_vars

(* The event loop runs what is due, timers fire, every promise reaction    *)
(* runs, and a child agent that may finish its task, no checkpoint of its  *)
(* own in the way, does.  Nothing is assumed of creations and disposals.   *)
FairSpec ==
    /\ Spec
    /\ WF_vars(Schedules) /\ WF_vars(Handlers)
    /\ \A x \in Ops : WF_vars(BeginCall(x) \/ (x \in Events /\ Consolidates(x)) \/ (x \in Tools /\ FinishTool(x)))
    /\ \A c \in Calls : WF_vars(CallSteps(c))
-----------------------------------------------------------------------------
(***************************************************************************)
(* Properties                                                              *)
(***************************************************************************)

Working == {"ready", "calling", "answered", "failing", "failed", "published"}

TypeOK ==
    /\ agents \in [Sessions -> {"up", "gone"}] /\ closed \subseteq Sessions
    /\ handled \subseteq {Key(e) : e \in Events}
    /\ taskSet \in [Sessions -> {"none", "open", "cancelled"}]
    /\ tasks \in [Sessions -> SUBSET (Events \cup Calls)]
    /\ pending \subseteq Events /\ immediates \in Seq(Events)
    /\ tail \in [Scopes -> Events \cup {None}] /\ prev \in [Events -> Events \cup {None}]
    /\ stage \in [Ops -> Working \cup {"none", "ignored", "scheduled", "queued", "settled"}]
    /\ aborted \subseteq Ops /\ calls \in [Ops -> 0 .. MaxCalls]
    /\ call \in [Calls -> {"idle", "creating", "running", "releasing", "ended"}]
    /\ child \in [Calls -> {"none", "pending", "live", "never", "released"}]
    /\ world \in [Scopes -> Seq(Events)]
    /\ phase \in [Waiters -> {"idle", "waiting", "tasks", "barrier", "returned"}]
    /\ waits \in [Waiters -> SUBSET (Events \cup Calls)]
    /\ known \in [Waiters -> SUBSET Events]
    /\ count \in Nat /\ rank \in [Events -> Nat]

(* A turn is consolidated at most once while its session lives, however    *)
(* often its end is delivered (observer.ts 355-357).                       *)
TurnOnce ==
    \A e, f \in Registered :
        (e # f /\ SessionOf[e] = SessionOf[f] /\ TurnOf[e] = TurnOf[f]) => SessionOf[e] \in closed

(* Consolidations of one project never overlap, whichever sessions they    *)
(* come from and however the earlier ones ended: the chain of the          *)
(* coordinator, whose entry each operation removes only if it is the last  *)
(* (mutation-coordinator.ts 9-23).                                         *)
OneAtATime ==
    \A e, f \in Events :
        (stage[e] \in Working /\ stage[f] \in Working /\ Project(e) = Project(f)) => e = f

(* Memories of a project are published in the order their turns ended,     *)
(* through setImmediate and the coordinator (observer.ts 376-389).         *)
PublishedInOrder ==
    \A p \in Scopes : \A i, j \in DOMAIN world[p] : i < j =>
        rank[world[p][i]] < rank[world[p][j]]

(* When a flush, or the wait before recall, returns, every consolidation   *)
(* that had been registered in the project when it began is through, so a  *)
(* recall sees what the turns before it published (barrier 7-28,           *)
(* observer.ts 158, 167 and 395-401).                                      *)
BarrierCovers ==
    \A kind \in {"flush", "recall"}, s \in Sessions :
        phase[<<kind, s>>] = "returned" => \A e \in known[<<kind, s>>] : stage[e] = "settled"

(* When the disposal of a parent's task set returns, none of the parent's  *)
(* consolidations that were registered when it began is at work            *)
(* (subagent-lifecycle.ts 49-55).                                          *)
DisposeCovers ==
    \A s \in Sessions : phase[<<"dispose", s>>] = "returned" =>
        \A e \in known[<<"dispose", s>>] : SessionOf[e] = s => stage[e] = "settled"

(* After the plugin's cleanup has returned no consolidation is at work or  *)
(* can begin, of any parent, tracked by its task set or not                *)
(* (observer.ts 179-197 and 321).                                          *)
QuietAfterCleanup ==
    phase[Cleanup] = "returned" => \A e \in Registered : stage[e] = "settled"

(* No handler waits for ever: not the flush of a parent, not the recall    *)
(* after it, not a disposal, not the cleanup.  A consolidation's child     *)
(* agent, whose own session is flushed while it runs, must not wait for    *)
(* the consolidation that waits for it (observer.ts 396-398).              *)
HandlersReturn ==
    \A w \in Waiters : (phase[w] # "idle") ~> (phase[w] = "returned")

(* Every model call, of a consolidation or a recall, keeps the promise of  *)
(* ChildCall: in particular each child that turns up late is released.     *)
C(c) == INSTANCE ChildCall WITH call <- call[c], child <- child[c]

CallsKeepPromise ==
    /\ \A c \in Calls : C(c)!Init
    /\ [][\A c \in Calls : C(c)!Next \/ UNCHANGED <<call[c], child[c]>>]_<<call, child>>
    /\ \A c \in Calls : C(c)!LateReleased
=============================================================================
