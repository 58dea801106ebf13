--------------------------- MODULE MCSessionTurns ---------------------------
(* The ends of turns, as MCSession has them, and recall in the turns of an *)
(* agent, each in behaviours of its own.                                   *)
EXTENDS MCSession, MapRecall

InOrder(s) == s = SelectSeq(Order, LAMBDA r : r \in Range(s))

(* Nodes are made after the node they hang on; the names do not matter.    *)
MCOrder == <<"k", "m", "a", "b", "c", "d">>
Grown == \A n \in Node : parent[n] = Root \/ InOrder(<<parent[n], n>>)

(* Bounds: on every tree, with the memories anywhere, one recall that      *)
(* nothing disturbs; everything on a flat tree, which makes two pages, and *)
(* a second turn there when the first has told something or still may; one *)
(* walk at a time, since walks share nothing.                              *)
Flat == \A n \in Node : parent[n] = Root
Undisturbed ==
    turn.at <= 1 /\ turn.aborted = {} /\ turn.phase # "gone" /\ switches = 0 /\ tool["j"].status = "idle"

Eventful ==
    /\ Flat /\ current.home["k"] \in {"a", Nowhere} /\ current.home["m"] \in {"b", Nowhere}
    /\ switches = 0 => current.home["k"] = "a" /\ current.home["m"] = Nowhere
    /\ tool["i"].status = "idle" => tool["j"].status = "idle" /\ turn.at <= 1
    /\ turn.at = 0 => turn.phase = "over"
    /\ turn.at = 2 => tool["i"].status \in {"running", "completed", "refused"}
    /\ (\A c \in Call : tool[c].status = "running") => tool["i"].turn = tool["j"].turn

Fresh == turn.at = 0 /\ switches = 0 /\ current = Empty /\ Flat

MCInit == Init /\ RecallInit /\ Grown
MCNext ==
    \/ Next /\ Fresh /\ UNCHANGED recallVars
    \/ RecallNext /\ count = 0 /\ (Eventful' \/ Undisturbed') /\ UNCHANGED vars

MCSpec == MCInit /\ [][MCNext]_<<vars, recallVars>>
=============================================================================
