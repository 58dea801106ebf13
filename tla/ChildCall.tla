------------------------------ MODULE ChildCall ------------------------------
(***************************************************************************)
(* What one model call made through a child agent promises its caller and  *)
(* the host (dsh-subagent.ts, runDshSubagentV3), without its timers,       *)
(* listeners and promise reactions: the call asks the host for a child     *)
(* agent, may take it and use it, may give up while the host is still      *)
(* creating it, and every child that does turn up is released.             *)
(***************************************************************************)
VARIABLES
    call,   \* "idle", "creating", "running", "releasing" or "ended"
    child   \* "none", "pending", "live", "never" (creation failed) or "released"

cvars == <<call, child>>

Init == call = "idle" /\ child = "none"

(* The call starts: it asks for a child, or its signal is aborted already. *)
Begin == /\ call = "idle"
         /\ \/ call' = "creating" /\ child' = "pending"
            \/ call' = "ended" /\ UNCHANGED child

(* The host answers the creation, however long after the call gave up.     *)
Answer == /\ child = "pending"
          /\ child' \in {"live", "never"}
          /\ UNCHANGED call

(* The call takes the child it waited for.                                 *)
Take == /\ call = "creating" /\ child \in {"live", "released"}
        /\ call' = "running"
        /\ UNCHANGED child

(* Abort, creation timeout or failed creation: the call ends at once and   *)
(* leaves the creation to itself.                                          *)
GiveUp == /\ call = "creating"
          /\ call' = "ended"
          /\ UNCHANGED child

(* The call is through with its child: it disposes of it and waits for the *)
(* disposal or for its time limit.                                         *)
Finish == /\ call \in {"creating", "running"} /\ child \in {"live", "released"}
          /\ call' \in {"releasing", "ended"}
          /\ child' = "released"

Return == /\ call = "releasing"
          /\ call' = "ended"
          /\ UNCHANGED child

(* A child nobody takes is released by the creation's own reaction.        *)
ReleaseLate == /\ call \in {"creating", "ended"} /\ child = "live"
               /\ child' = "released"
               /\ UNCHANGED call

Next == Begin \/ Answer \/ Take \/ GiveUp \/ Finish \/ Return \/ ReleaseLate

Spec == Init /\ [][Next]_cvars /\ WF_cvars(ReleaseLate) /\ WF_cvars(Return)

(* A child that turns up after its call has ended is released.             *)
LateReleased == (call = "ended" /\ child = "live") ~> (child = "released")
=============================================================================
