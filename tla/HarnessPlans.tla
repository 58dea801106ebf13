---------------------------- MODULE HarnessPlans ----------------------------
(* What the agents of the harness do, for TLC: the tasks of the six runs   *)
(* (FROZEN_CANARY_TASKS) carried out, first, and then some ways to carry   *)
(* them out wrongly.                                                       *)
EXTENDS HarnessEvidence

NoTarget == Long("nobody")

Use(tool, id, ref) == [tool |-> tool, id |-> id, ref |-> ref, grant |-> "none"]
Open(id, ref, grant) == [Use("open", id, ref) EXCEPT !.grant = grant]
Capture(m) == Use("capture", "none", Short(m))
End == Use("end", "none", NoTarget)

Plan(todo) == [asks |-> 1, todo |-> Append(todo, End)]

BusinessPlans(run) ==
    LET promote(id, m) == Use("promote", id, Short(m))
        seen  == <<Use("status", 20, NoTarget), Use("list", 21, NoTarget), Use("search", 22, NoTarget)>>
        found(id) == Use("search", id, NoTarget)
    IN CASE run = "run_1" ->
              <<Plan(<<Capture("m")>>), Plan(<<Use("remember", 10, Short("m"))>>),
                Plan(<<Capture("n"), Capture("m")>>)>>
         [] run = "run_2" ->
              <<Plan(Append(seen, Open(23, Short("m"), 22))), Plan(seen),
                Plan(seen \o <<Open(23, Short("m"), 22), promote(24, "m"), promote(25, "m")>>)>>
         [] run = "run_3" ->
              <<Plan(<<Use("list", 30, NoTarget), promote(31, "m"), promote(32, "m")>>), Plan(<<>>),
                Plan(<<Use("list", 30, NoTarget), promote(31, "n"), promote(32, "n")>>)>>
         [] run = "run_4" ->
              <<Plan(<<found(40), Open(41, Long("m"), 40)>>), Plan(<<found(40), Open(41, Short("m"), 40)>>),
                Plan(<<found(40), Open(41, Long("m"), 40), Use("forget", 42, Long("m"))>>)>>
         [] run = "run_5" ->
              <<Plan(<<found(50), Use("forget", 51, Long("m")), Use("forget", 52, Long("m"))>>),
                Plan(<<found(50), Use("forget", 51, Long("m"))>>),
                Plan(<<found(50), Use("forget", 51, Short("m")), Use("forget", 52, Short("m"))>>)>>
         [] run = "run_6" ->
              <<Plan(<<found(60)>>), Plan(<<Use("remember", 60, Short("m"))>>)>>

(* At the wiring level nothing is judged: an agent that asks twice at once *)
(* is the interesting one.                                                 *)
WiringPlans(run) ==
    IF run = "run_1" THEN <<Plan(<<>>), [Plan(<<>>) EXCEPT !.asks = 2]>> ELSE <<Plan(<<>>)>>

PlansOf(level, run) == IF level = "business" THEN BusinessPlans(run) ELSE WiringPlans(run)
=============================================================================
