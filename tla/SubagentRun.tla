----------------------------- MODULE SubagentRun -----------------------------
(***************************************************************************)
(* One run of a child agent: runDshSubagentV3 of src/src/v3/dsh-subagent.ts*)
(* with the host around it (agent creation, the child, its disposal) and   *)
(* the abort of the caller's signal.                                       *)
(*                                                                         *)
(* The program is single threaded, so what can interleave are the          *)
(* reactions of its promises.  `jobs' is the first-in first-out queue of   *)
(* the reactions of this run; a reaction of other code, an abort among     *)
(* them, may run between any two of them; a timer fires, and a             *)
(* setImmediate callback runs, only when the queue is empty.               *)
(***************************************************************************)
EXTENDS Naturals, Sequences

VARIABLES
    pc,           \* where the async function waits
    result,       \* how it settled
    deferred,     \* request.deferCreation
    aborted,      \* request.signal.aborted
    createAborted,\* createController.signal.aborted
    cancelled,    \* createCancelled
    timedOut,     \* createTimedOut
    creation,     \* the promise `creation'
    race,         \* what Promise.race([creation, parentAbort, createTimeout]) settled with
    jobs,         \* promise reactions of this run that are due
    busy,         \* the child's status is not idle
    child,        \* the host's child agent
    disposals     \* calls of handle.dispose()

vars == <<pc, result, deferred, aborted, createAborted, cancelled, timedOut,
          creation, race, jobs, busy, child, disposals>>

flags == <<createAborted, cancelled, timedOut>>

Init ==
    /\ pc = "start" /\ result = "none"
    /\ deferred \in BOOLEAN /\ aborted \in BOOLEAN
    /\ createAborted = FALSE /\ cancelled = FALSE /\ timedOut = FALSE
    /\ creation = "none" /\ race = "open" /\ jobs = <<>>
    /\ busy = FALSE /\ child = "none" /\ disposals = 0

(***************************************************************************)
(* The host                                                                *)
(***************************************************************************)

(* agents.create fulfils: the factory returns a handle.  The host may do   *)
(* so after its signal was aborted and after the run gave up.              *)
Created ==
    /\ creation = "pending"
    /\ creation' = "resolved" /\ child' = "live" /\ busy' \in BOOLEAN
    /\ jobs' = Append(jobs, "created")
    /\ UNCHANGED <<pc, result, deferred, aborted, flags, race, disposals>>

(* agents.create rejects, or the factory refuses or throws.                *)
CreateFails ==
    /\ creation = "pending"
    /\ creation' = "rejected"
    /\ jobs' = Append(jobs, "createFailed")
    /\ UNCHANGED <<pc, result, deferred, aborted, flags, race, busy, child, disposals>>

(* The disposal the run or the late reaction asked for settles.            *)
Disposed ==
    /\ child = "disposing"
    /\ child' = "gone"
    /\ UNCHANGED <<pc, result, deferred, aborted, flags, creation, race, jobs, busy, disposals>>

(* The caller's signal aborts.  The listeners added at the start are there *)
(* until the creation race is over.                                        *)
Abort ==
    /\ ~aborted
    /\ aborted' = TRUE
    /\ IF pc = "creating"
          THEN /\ createAborted' = TRUE /\ cancelled' = TRUE
               /\ jobs' = Append(jobs, "parentAborted")
          ELSE UNCHANGED <<createAborted, cancelled, jobs>>
    /\ UNCHANGED <<pc, result, deferred, timedOut, creation, race, busy, child, disposals>>

(***************************************************************************)
(* Creation                                                                *)
(***************************************************************************)

(* The run enters: it throws at once on an aborted signal, else it adds    *)
(* its listeners, arms the creation timer and calls the factory now or in  *)
(* a setImmediate.                                                         *)
Enter ==
    /\ pc = "start"
    /\ IF aborted
          THEN /\ pc' = "ended" /\ result' = "aborted"
               /\ UNCHANGED creation
          ELSE /\ pc' = "creating"
               /\ creation' = IF deferred THEN "deferred" ELSE "pending"
               /\ UNCHANGED result
    /\ UNCHANGED <<deferred, aborted, flags, race, jobs, busy, child, disposals>>

(* The deferred call of the factory, refused when creation was aborted.    *)
Invoke ==
    /\ creation = "deferred" /\ jobs = <<>>
    /\ IF createAborted
          THEN creation' = "rejected" /\ jobs' = <<"createFailed">>
          ELSE creation' = "pending" /\ UNCHANGED jobs
    /\ UNCHANGED <<pc, result, deferred, aborted, flags, race, busy, child, disposals>>

(* SUBAGENT_CREATE_TIMEOUT_MS: the timer is cleared when the race is over. *)
CreateTimeout ==
    /\ pc = "creating" /\ race = "open" /\ jobs = <<>>
    /\ timedOut' = TRUE /\ createAborted' = TRUE
    /\ jobs' = <<"timedOut">>
    /\ UNCHANGED <<pc, result, deferred, aborted, cancelled, creation, race, busy, child, disposals>>

(* The first reaction to reach the open race settles it and makes the      *)
(* function's continuation due.                                            *)
Settles(outcome) ==
    IF race = "open"
       THEN race' = outcome /\ jobs' = Append(Tail(jobs), "continue")
       ELSE UNCHANGED race /\ jobs' = Tail(jobs)

(* creation.then(lateHandle => ...): a handle that comes after the timeout *)
(* or the abort is disposed of here.                                       *)
(* Mutant of LateHandle: the abort is forgotten. *)
LateHandleTimedOut ==
    IF timedOut
       THEN child' = "disposing" /\ disposals' = disposals + 1
       ELSE UNCHANGED <<child, disposals>>

LateHandle ==
    IF timedOut \/ cancelled
       THEN child' = "disposing" /\ disposals' = disposals + 1
       ELSE UNCHANGED <<child, disposals>>

CreatedReaction ==
    /\ jobs # <<>> /\ Head(jobs) = "created"
    /\ LateHandle
    /\ Settles("handle")
    /\ UNCHANGED <<pc, result, deferred, aborted, flags, creation, busy>>

LosingReaction ==
    /\ jobs # <<>> /\ Head(jobs) \in {"createFailed", "parentAborted", "timedOut"}
    /\ Settles(Head(jobs))
    /\ UNCHANGED <<pc, result, deferred, aborted, flags, creation, busy, child, disposals>>

(* The race was lost: the catch tells an abort from a timeout from a       *)
(* failure; its finally removes the listeners and clears the timer.        *)
NoChild ==
    /\ jobs # <<>> /\ Head(jobs) = "continue" /\ race # "handle"
    /\ jobs' = Tail(jobs)
    /\ pc' = "ended"
    /\ result' = IF aborted THEN "aborted"
                 ELSE IF race = "timedOut" THEN "timeout" ELSE "unavailable"
    /\ UNCHANGED <<deferred, aborted, flags, creation, race, busy, child, disposals>>

(***************************************************************************)
(* The run of the child                                                    *)
(***************************************************************************)

(* The finally of the run: handle.dispose() is called; a call that throws  *)
(* ends the wait at once.                                                  *)
(* Mutant of Dispose: an aborted run leaves the disposal to its canceller. *)
DisposeUnlessAborted(r) ==
    /\ result' = r
    /\ IF aborted THEN pc' = "ended" /\ UNCHANGED <<child, disposals>>
       ELSE pc' = "disposing" /\ disposals' = disposals + 1
            /\ child' = IF child = "live" THEN "disposing" ELSE child

Dispose(r) ==
    /\ result' = r /\ disposals' = disposals + 1
    /\ \/ pc' = "disposing" /\ child' = IF child = "live" THEN "disposing" ELSE child
       \/ pc' = "ended" /\ UNCHANGED child

(* followup(task), then the wait for the child to be idle again; a         *)
(* followup that throws ends the run.                                      *)
Followup ==
    \/ pc' = "working" /\ UNCHANGED <<result, child, disposals>>
    \/ Dispose("unavailable")

(* The race was won: with its new abort listener in place (an abort that   *)
(* came before counts, `runAborted' below), the run first waits for a busy *)
(* child.                                                                  *)
TakeChild ==
    /\ jobs # <<>> /\ Head(jobs) = "continue" /\ race = "handle"
    /\ jobs' = Tail(jobs)
    /\ IF busy THEN pc' = "waiting" /\ UNCHANGED <<result, child, disposals>> ELSE Followup
    /\ UNCHANGED <<deferred, aborted, flags, creation, race, busy>>

(* runAbort is rejected: by the listener, or by the check of the signal    *)
(* made right after the listener was added.                                *)
(* Mutant of runAborted: the signal is not checked once the listener is added. *)
runAbortedByListener == pc \in {"waiting", "working"} /\ aborted /\ ~cancelled

runAborted == pc \in {"waiting", "working"} /\ aborted

(* whenIdle() fulfils while the run waits to send its task...              *)
BecomesIdle ==
    /\ pc = "waiting"
    /\ busy' = FALSE
    /\ Followup
    /\ UNCHANGED <<deferred, aborted, flags, creation, race, jobs>>

(* ... or after the child worked on it: an abort seen by now wins over the *)
(* output, and a child without an answer is no answer.                     *)
Answers ==
    /\ pc = "working"
    /\ \E r \in {"output", "unavailable"} : Dispose(IF aborted THEN "aborted" ELSE r)
    /\ UNCHANGED <<deferred, aborted, flags, creation, race, jobs, busy>>

(* The abort ends either wait.                                             *)
StopWaiting ==
    /\ runAborted
    /\ Dispose("aborted")
    /\ UNCHANGED <<deferred, aborted, flags, creation, race, jobs, busy>>

(* disposeWithTimeout: the disposal settled, or its five seconds are over. *)
DisposeReturns ==
    /\ pc = "disposing"
    /\ child = "gone" \/ jobs = <<>>
    /\ pc' = "ended"
    /\ UNCHANGED <<result, deferred, aborted, flags, creation, race, jobs, busy, child, disposals>>

(* The reactions, timers and callbacks the event loop owes this run.       *)
Loop == CreatedReaction \/ LosingReaction \/ NoChild \/ TakeChild \/ Invoke

Next ==
    \/ Enter \/ Loop \/ CreateTimeout \/ StopWaiting \/ DisposeReturns
    \/ Created \/ CreateFails \/ Disposed \/ Abort \/ BecomesIdle \/ Answers

Spec == Init /\ [][Next]_vars

(* The event loop runs what is due and its timers fire; nothing is assumed *)
(* of the host: a creation may stay open, a child may never be idle and a  *)
(* disposal may never settle.                                              *)
FairSpec ==
    /\ Spec
    /\ WF_vars(Loop) /\ WF_vars(CreateTimeout)
    /\ WF_vars(StopWaiting) /\ WF_vars(DisposeReturns)

-----------------------------------------------------------------------------
(***************************************************************************)
(* Properties                                                              *)
(***************************************************************************)

Jobs == {"created", "createFailed", "parentAborted", "timedOut", "continue"}

TypeOK ==
    /\ pc \in {"start", "creating", "waiting", "working", "disposing", "ended"}
    /\ result \in {"none", "output", "aborted", "timeout", "unavailable"}
    /\ {deferred, aborted, createAborted, cancelled, timedOut, busy} \subseteq BOOLEAN
    /\ creation \in {"none", "deferred", "pending", "resolved", "rejected"}
    /\ race \in {"open", "handle", "createFailed", "parentAborted", "timedOut"}
    /\ jobs \in Seq(Jobs)
    /\ child \in {"none", "live", "disposing", "gone"}
    /\ disposals \in 0 .. 2

(* A child whose creation outlived the run's abort or its creation         *)
(* timeout, or that was used to the end, is never left to itself: when the *)
(* run has ended and its reactions have run, dispose() was called on every *)
(* child the host delivered (dsh-subagent.ts 191-193 and 283).             *)
NoChildLeft ==
    (pc = "ended" /\ jobs = <<>> /\ creation = "resolved") => disposals > 0

(* The late-handle reaction never takes a child away from a run that goes  *)
(* on with it, whatever order creation, timer and continuation come in: a  *)
(* run whose child was disposed of under it has been aborted.              *)
UsedChildIsLive ==
    (pc \in {"waiting", "working"} /\ disposals > 0) => aborted

(* Every child the host delivered is accounted for: released when nobody  *)
(* needs it, and not before.                                               *)
ChildrenAccounted == TypeOK /\ NoChildLeft /\ UsedChildIsLive

(* The caller is not kept waiting by a host that does not answer: an abort *)
(* ends the run at whichever point it comes, and without one a run is never*)
(* left waiting for its child to be created (dsh-subagent.ts 196-200).     *)
CallerReleased ==
    /\ (aborted /\ pc # "start") ~> (pc = "ended")
    /\ (pc = "creating") ~> (pc # "creating")

(***************************************************************************)
(* The promise of ChildCall, from which the session model is built.        *)
(***************************************************************************)
callBar ==
    CASE pc = "start" -> "idle"
      [] pc \in {"waiting", "working"} -> "running"
      [] pc = "disposing" -> "releasing"
      [] OTHER -> pc

childBar ==
    IF disposals > 0 THEN "released" ELSE
    CASE creation \in {"deferred", "pending"} -> "pending"
      [] creation = "resolved" -> "live"
      [] creation = "rejected" -> "never"
      [] OTHER -> "none"

Abstract == INSTANCE ChildCall WITH call <- callBar, child <- childBar

(* The run implements the abstract call, its liveness included: every      *)
(* child that turns up late is released, every disposal wait ends.         *)
ImplementsCall == Abstract!Spec
=============================================================================
