------------------------------ MODULE MCCanary ------------------------------
(* Two executions on one persistence root, of the same approval or of two, *)
(* after two calls of the dry run.                                         *)
EXTENDS Canary, DryRun, TLC

MCRuns == <<[group |-> "tool_only", task |-> "task_build_recovery"],
            [group |-> "auto_inject", task |-> "task_control_format"]>>

(* What the planning gate makes of a workspace, and what a person makes of *)
(* it; then the worlds an execution finds later.                           *)
Dried   == [streams |-> 1, resolves |-> 0, network |-> 0, clean |-> TRUE, model |-> "flash"]
Space(lock, failing) == [lock |-> lock, failing |-> failing]
Papers(space) == Gate(space, Dried, "fixtures", "flash", [created |-> 1, expires |-> 4], 1)

Found(space, papers, decision, decided, now) ==
    [audit |-> papers.audit, plan |-> papers.plan, request |-> papers.request,
     approval |-> ApprovalOf(papers.request, decision, decided, "root"),
     workspace |-> space, world |-> "fixtures", root |-> "root", now |-> now]

Here == Space("v1", {})

First == Found(Here, Papers(Here), "approved", 1, 2)
Later == [First EXCEPT !.now = 3]
Other == Found(Here, Papers(Here), "approved", 2, 3)
Mixed == [First EXCEPT !.plan = Papers(Space("v2", {})).plan]

Refusing ==
    {[First EXCEPT !.now = 4], [First EXCEPT !.workspace.lock = "v2"], Mixed,
     Found(Here, Papers(Here), "rejected", 1, 2),
     Found(Here, Papers(Space("v1", {"zero_retry_path"})), "approved", 1, 2)}

MCWorld == {First, Later, Other} \cup Refusing

(* Bounds: the first execution is given a world that holds and the second  *)
(* repeats its approval or has another, or no world holds; and two         *)
(* executions of different approvals spend one after the other, "e" first; *)
(* of two calls of the dry run, which are alike, "c" is first.             *)
Spending(e) == Live(e) /\ x[e].pc \notin {"claim", "isolate", "bridge", "abandon"}
OneAtATime  == Spending("f") => ~Live("e") /\ ~At("e", "idle")
FirstDry    == DryAt("c", "idle") => DryAt("d", "idle")

MCInit ==
    /\ Init /\ DryInit
    /\ \/ input["e"] = First /\ input["f"] \in {Later, Other}
       \/ input["e"] \in Refusing /\ input["f"] = Mixed

MCNext ==
    \/ Next /\ OneAtATime' /\ (\A d \in Dry : DryAt(d, "idle")) /\ UNCHANGED dryVars
    \/ DryNext /\ FirstDry' /\ (\A e \in Execution : At(e, "idle")) /\ UNCHANGED vars

MCSpec == MCInit /\ [][MCNext]_<<vars, dryVars>> /\ Fairness
=============================================================================
