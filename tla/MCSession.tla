------------------------------ MODULE MCSession ------------------------------
(* Two parent sessions of one project.  The end of the first one's turn is *)
(* delivered twice (e1, e2), that of the second one's once (e3); r1 is a   *)
(* recall tool call of the first.  A configuration chooses which of them,  *)
(* and which of the host's waits and endings, occur.                       *)
EXTENDS Session

CONSTANTS s1, s2, p1, e1, e2, e3, r1

MCScopeOf == [s \in Sessions |-> p1]
MCSessionOf == [x \in Events \cup Tools |-> IF x = e3 THEN s2 ELSE s1]
MCTurnOf == [e \in Events |-> 1]

Turns == {<<"recall", s1>>, <<"close", s1>>}
Endings == {<<"flush", s1>>, <<"dispose", s1>>, <<"close", s1>>, Cleanup}
=============================================================================
