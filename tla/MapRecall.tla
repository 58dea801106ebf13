----------------------------- MODULE MapRecall ------------------------------
(***************************************************************************)
(* Recall in the turns of one agent: the map offered before a turn's first *)
(* step (src/src/v3/recall-pre-step.ts), the recall tool the model may     *)
(* answer it with (map-recall-tool.ts), the walk of the child agents from  *)
(* titles to contents (map-first-recall.ts), and the earlier walk it falls *)
(* back on (v2/recall-runtime.ts).  The project changes meanwhile.         *)
(*                                                                         *)
(* Whatever a child agent answers is possible.  A generation is what it    *)
(* serves; it never changes, so the calls of a child for the pages of one  *)
(* node are one step.  A map_ref is the hash of a generation's map, and    *)
(* stands for it.                                                          *)
(***************************************************************************)
EXTENDS Naturals, FiniteSets, SequencesExt

CONSTANTS
    Node,           \* categories
    Root,           \* node_root
    Memory,
    Order,          \* Memory and Node in the order of their ids
    PageSize,       \* entries of a page of the map
    TitleLimit, CandidateLimit, ConfirmLimit,   \* 6, 5 and 3
    Call,           \* calls of the recall tool
    MaxTurn, MaxSwitch,   \* bounds: turns, new generations
    MaxPicks,       \* bound: refs a child selects
    Nowhere         \* no node, no binding, no record

ASSUME RecallAssumption ==
    /\ IsFiniteSet(Memory \cup Node) /\ Memory \cap Node = {} /\ Root \notin Memory \cup Node
    /\ Order \in Seq(Memory \cup Node) \ {<<>>}
    /\ {PageSize, TitleLimit, CandidateLimit, ConfirmLimit} \subseteq Nat \ {0}
    /\ MaxTurn \in Nat /\ MaxPicks \in Nat
    /\ Nowhere \notin Memory \cup Node \cup {Root}
    /\ Nowhere \notin [refs : SUBSET (Memory \cup Node), due : SUBSET (Memory \cup Node)]

VARIABLES
    parent,   \* the catalog's tree
    current,  \* the generation CURRENT names
    switches, \* generations published since
    turn,     \* the turn of the agent, its phase, and the turns that were aborted
    offer,    \* per turn, the pre-step handler
    binding,  \* per turn, the binding of the tool
    kept,     \* turns whose binding the runtime still finds
    tool,     \* the calls of the tool
    used,     \* per turn, what the handler of turn/end took as used, and was due
    served    \* history: per turn, the generations CURRENT has named since it began

recallVars == <<parent, current, switches, turn, offer, binding, kept, tool, used, served>>

CatalogDepth == 3

MaxDepth == 3

(* Mutant of MaxSteps: one step less.                                      *)
FewerSteps == 7

MaxSteps == 8

Turn == 1 .. MaxTurn
Ref  == Memory \cup Node

-----------------------------------------------------------------------------
(* The catalog and its index.                                              *)

(* The node that is k levels above n.                                      *)
Above(p, n) ==
    LET up[k \in 0 .. CatalogDepth] ==
          IF k = 0 THEN n ELSE IF up[k - 1] = Root THEN Root ELSE p[up[k - 1]]
    IN up

(* Every node hangs on the root, no deeper than the catalog allows.        *)
ValidTree(p) == \A n \in Node : Above(p, n)[CatalogDepth] = Root

Children(n)    == {k \in Node : parent[k] = n}
Memories(g, n) == {m \in Memory : g.home[m] = n}
Attached(g)    == {m \in Memory : g.home[m] # Nowhere}
Under(g, n)    == {m \in Attached(g) : n \in Range(Above(parent, g.home[m]))}

Titles(g, n) == Children(n) \cup Memories(g, n)

Place(r) == CHOOSE i \in DOMAIN Order : Order[i] = r

(* Pages of at most PageSize titles in the order of their ids; the earlier *)
(* walk shows all at once.                                                 *)
Pages(g, n, size) ==
    LET all     == Titles(g, n)
        rank(r) == Cardinality({q \in all : Place(q) < Place(r)})
        count   == (Cardinality(all) + size - 1) \div size
    IN [i \in 1 .. count |-> {r \in all : rank(r) \div size = i - 1}]

-----------------------------------------------------------------------------
(* Answers of the child agents.                                            *)

Decisions == {d \in UNION {[1 .. k -> Ref] : k \in 0 .. MaxPicks} : IsInjective(d)}

First(s, n) == SubSeq(s, 1, IF Len(s) < n THEN Len(s) ELSE n)

(* A decision that names anything that was not offered is refused.         *)
Select(offered, limit) == {First(d, limit) : d \in {d \in Decisions : Range(d) \subseteq offered}}

Joined(S, T) == UNION {{s \o t : t \in T} : s \in S}

(* One decision per page; when together they name too many, one more.      *)
Round(pages, limit) ==
    LET taken[i \in 0 .. Len(pages)] ==
          IF i = 0 THEN {<<>>} ELSE Joined(taken[i - 1], Select(pages[i], limit))
    IN UNION {IF Len(s) <= limit THEN {s} ELSE Select(Range(s), limit) : s \in taken[Len(pages)]}

-----------------------------------------------------------------------------
(* The offer before the first step of a turn.                              *)

Empty == [governed |-> FALSE, home |-> [m \in Memory |-> Nowhere]]

RecallInit ==
    /\ parent \in {p \in [Node -> Node \cup {Root}] : ValidTree(p)}
    /\ current \in {[governed |-> FALSE, home |-> h] : h \in [Memory -> Node \cup {Nowhere}]}
    /\ switches = 0
    /\ turn = [at |-> 0, phase |-> "over", aborted |-> {}]
    /\ offer = [t \in Turn |-> [pc |-> "none", read |-> Nowhere]]
    /\ binding = [t \in Turn |-> Nowhere] /\ kept = {}
    /\ tool = [c \in Call |-> [status |-> "idle"]]
    /\ used = [t \in Turn |-> Nowhere] /\ served = [t \in Turn |-> {}]

Open == turn.phase = "open"

BeginTurn ==
    /\ turn.phase = "over" /\ turn.at < MaxTurn
    /\ turn' = [turn EXCEPT !.at = @ + 1, !.phase = "open"]
    /\ offer' = [offer EXCEPT ![turn.at + 1].pc = "begun"]
    /\ served' = [served EXCEPT ![turn.at + 1] = {current}]
    /\ UNCHANGED <<parent, current, switches, binding, kept, tool, used>>

(* After the wait at the barrier: CURRENT is read, which may fail.  The    *)
(* signal is looked at before the read and not after it.                   *)
ReadWorld(t) ==
    /\ offer[t].pc = "begun"
    /\ \/ t \notin turn.aborted /\ offer' = [offer EXCEPT ![t] = [pc |-> "read", read |-> current]]
       \/ offer' = [offer EXCEPT ![t].pc = "done"]
    /\ UNCHANGED <<parent, current, switches, turn, binding, kept, tool, used, served>>

(* A map without a title is not offered.                                   *)
Bind(t) ==
    /\ offer[t].pc = "read"
    /\ offer' = [offer EXCEPT ![t].pc = "done"]
    /\ IF Children(Root) = {} THEN UNCHANGED <<binding, kept>>
       ELSE /\ binding' = [binding EXCEPT ![t] = [pin |-> offer[t].read, state |-> "offered", refs |-> <<>>]]
            /\ kept' = kept \cup {t}
    /\ UNCHANGED <<parent, current, switches, turn, tool, used, served>>

-----------------------------------------------------------------------------
(* The tool.                                                               *)

(* Mutant of Answerable: a map that is being answered is still on offer.   *)
AnswerableTwice(t, pin) == t \in kept /\ binding[t].pin = pin /\ binding[t].state # "completed"

(* The map this turn was offered, as long as nobody has answered it.       *)
Answerable(t, pin) == t \in kept /\ binding[t].pin = pin /\ binding[t].state = "offered"

(* `aims': history, the memories each decision so far has led to and to    *)
(* nothing else; `told', `read' and `seen': what was disclosed, in full,   *)
(* by its summary, by its title.                                           *)
Walk(t, route, g) ==
    [status |-> "running", turn |-> t, route |-> route, world |-> g, stage |-> "root", node |-> Root,
     depth |-> 0, steps |-> 0, candidates |-> <<>>, aims |-> Attached(g), seen |-> {}, read |-> {}, told |-> <<>>]

Step(c, w) == tool' = [tool EXCEPT ![c] = w]

(* The model calls the tool with any map_ref it has been shown.            *)
CallTool(c) ==
    LET t == turn.at IN
    /\ tool[c].status = "idle" /\ Open /\ offer[t].pc = "done"
    /\ \E pin \in {binding[k].pin : k \in {k \in Turn : binding[k] # Nowhere}} :
         IF Answerable(t, pin)
         THEN /\ binding' = [binding EXCEPT ![t].state = "running"]
              /\ Step(c, Walk(t, "map", pin))
         ELSE Step(c, [status |-> "refused"]) /\ UNCHANGED binding
    /\ UNCHANGED <<parent, current, switches, turn, offer, kept, used, served>>

Running(c, stage) == tool[c].status = "running" /\ tool[c].stage = stage

(* The binding is the call's own object, whether it can be found or not.   *)
Ends(c, w, status) ==
    /\ Step(c, IF status = "failed" THEN [status |-> status, turn |-> w.turn]
               ELSE [status |-> status, turn |-> w.turn, route |-> w.route, world |-> w.world,
                     aims |-> w.aims, seen |-> w.seen, read |-> w.read, told |-> w.told])
    /\ binding' = [binding EXCEPT ![w.turn].state = "completed",
                                  ![w.turn].refs = IF status = "completed" THEN w.told ELSE <<>>]

GoesOn(c, w) == Step(c, w) /\ UNCHANGED binding

(* The earlier walk stops when its steps are spent, the walk over the map  *)
(* when it would enter a node too deep.                                    *)
Exhausted(w) ==
    IF w.route = "map" THEN w.stage = "summary" /\ w.depth >= MaxDepth ELSE w.steps >= MaxSteps

Proceeds(c, w) == IF Exhausted(w) THEN Ends(c, w, "no_match") ELSE GoesOn(c, w)

Size(w) == IF w.route = "map" THEN PageSize ELSE Len(Order)

ChooseRoot(c) ==
    LET w == tool[c] IN
    /\ Running(c, "root")
    /\ \E s \in Round(Pages(w.world, Root, Size(w)), 1) :
         IF s = <<>> THEN Ends(c, [w EXCEPT !.aims = {}], "no_match")
         ELSE Proceeds(c, [w EXCEPT !.stage = "summary", !.node = s[1], !.steps = @ + 1,
                                    !.aims = @ \cap Under(w.world, s[1])])

(* The summary of a node: enter it, or give up.                            *)
Expand(c) ==
    LET w == tool[c] IN
    /\ Running(c, "summary")
    /\ \/ Proceeds(c, [w EXCEPT !.stage = "titles", !.steps = @ + 1])
       \/ Ends(c, [w EXCEPT !.aims = {}], "no_match")

(* What alone is left in sight after a choice.                             *)
Only(w, s) ==
    IF Len(s) # 1 THEN {}
    ELSE w.aims \cap (IF s[1] \in Node THEN Under(w.world, s[1]) ELSE {s[1]})

(* The first child among what was selected, or else the first memories.    *)
ChooseTitles(c) ==
    LET w == tool[c] IN
    /\ Running(c, "titles")
    /\ \E s \in Round(Pages(w.world, w.node, Size(w)), TitleLimit) :
         LET kids == {i \in DOMAIN s : s[i] \in Node}
             next == [w EXCEPT !.aims = Only(w, s), !.steps = @ + 1,
                               !.seen = @ \cup Memories(w.world, w.node)]
         IN \/ \E i \in kids :
                  /\ \A k \in kids : i <= k
                  /\ Proceeds(c, [next EXCEPT !.stage = "summary", !.node = s[i], !.depth = @ + 1])
            \/ kids = {} /\ s = <<>> /\ Ends(c, next, "no_match")
            \/ kids = {} /\ s # <<>>
               /\ Proceeds(c, [next EXCEPT !.stage = "confirm", !.candidates = First(s, CandidateLimit)])

(* Contents are told of what was confirmed by its summary.                 *)
Confirm(c) ==
    LET w == tool[c] IN
    /\ Running(c, "confirm")
    /\ \E s \in Select(Range(w.candidates), ConfirmLimit) :
         LET next == [w EXCEPT !.read = Range(w.candidates), !.told = s] IN
         IF s = <<>> THEN Ends(c, [next EXCEPT !.aims = {}], "no_match") ELSE Ends(c, next, "completed")

(* An answer that is refused, an abort, a child or a model that fails.     *)
Fail(c) == tool[c].status = "running" /\ Ends(c, tool[c], "failed")

(* No child agent is to be had: the earlier walk reads CURRENT itself, and *)
(* refuses a governed generation.                                          *)
FallBack(c) ==
    /\ tool[c].status = "running" /\ tool[c].route = "map"
    /\ IF current.governed THEN Ends(c, tool[c], "failed")
       ELSE GoesOn(c, Walk(tool[c].turn, "legacy", current))

Recall(c) ==
    /\ ChooseRoot(c) \/ Expand(c) \/ ChooseTitles(c) \/ Confirm(c) \/ Fail(c) \/ FallBack(c)
    /\ UNCHANGED <<parent, current, switches, turn, offer, kept, used, served>>

-----------------------------------------------------------------------------
(* The end of a turn, and the project.                                     *)

Abort ==
    /\ Open /\ turn.at \notin turn.aborted /\ turn' = [turn EXCEPT !.aborted = @ \cup {turn.at}]
    /\ UNCHANGED <<parent, current, switches, offer, binding, kept, tool, used, served>>

(* The host waits for the handler and the tool, unless it has aborted them.*)
EndTurn ==
    /\ Open /\ turn' = [turn EXCEPT !.phase = "over"]
    /\ \/ turn.at \in turn.aborted
       \/ offer[turn.at].pc = "done" /\ \A c \in Call : tool[c].status # "running"
    /\ UNCHANGED <<parent, current, switches, offer, binding, kept, tool, used, served>>

(* What the calls of turn t have told so far.                              *)
Told(t) ==
    UNION {Range(tool[c].told) : c \in {c \in Call : tool[c].status = "completed" /\ tool[c].turn = t}}

(* turn/end, delivered some time after the turn: consumeUsedRefs.          *)
TurnEnded(t) ==
    /\ t < turn.at \/ (t = turn.at /\ ~Open)
    /\ used[t] = Nowhere
    /\ used' = [used EXCEPT ![t] =
                  [refs |-> IF t \in kept /\ binding[t].state = "completed" THEN Range(binding[t].refs) ELSE {},
                   due  |-> IF turn.phase = "gone" THEN {} ELSE Told(t)]]
    /\ kept' = kept \ {t}
    /\ UNCHANGED <<parent, current, switches, turn, offer, binding, tool, served>>

(* session/disposed: clearAgent.                                           *)
Dispose ==
    /\ turn.phase # "gone" /\ turn' = [turn EXCEPT !.phase = "gone"]
    /\ kept' = {}
    /\ UNCHANGED <<parent, current, switches, offer, binding, tool, used, served>>

(* A consolidation attaches a memory; governance hides one, and from then  *)
(* on every generation is a governed one.                                  *)
Switch ==
    /\ switches < MaxSwitch /\ switches' = switches + 1
    /\ \E m \in Memory :
         \/ current.home[m] = Nowhere /\ \E n \in Node : current' = [current EXCEPT !.home[m] = n]
         \/ current.home[m] # Nowhere /\ current' = [governed |-> TRUE, home |-> [current.home EXCEPT ![m] = Nowhere]]
    /\ served' = [t \in Turn |-> IF t <= turn.at THEN served[t] \cup {current'} ELSE {}]
    /\ UNCHANGED <<parent, turn, offer, binding, kept, tool, used>>

RecallNext ==
    \/ BeginTurn \/ Abort \/ EndTurn \/ Dispose \/ Switch
    \/ \E t \in Turn : ReadWorld(t) \/ Bind(t) \/ TurnEnded(t)
    \/ \E c \in Call : CallTool(c) \/ Recall(c)

RecallSpec == RecallInit /\ [][RecallNext]_recallVars

-----------------------------------------------------------------------------
(* What the model is told in a turn was served while the turn lasted: a    *)
(* memory hidden before the turn began is never told, by neither walk; it  *)
(* was told after its title and its summary had been weighed; a map is     *)
(* answered once however many calls come at once; and what the turn's      *)
(* consolidation takes as used is what the turn was told until then        *)
(* (map-recall-tool.ts 104-105 and 138, map-first-recall.ts 15-20,         *)
(* v2/recall-runtime.ts 116-123).                                          *)
ToldAndUsed ==
    /\ \A c \in Call : tool[c].status = "completed" =>
          LET w == tool[c] IN
          /\ w.world \in served[w.turn] /\ Range(w.told) \subseteq w.read
          /\ w.read \subseteq w.seen /\ w.seen \subseteq Attached(w.world)
          /\ w.route = "legacy" => ~w.world.governed
          /\ \A d \in Call \ {c} : tool[d].status \notin {"idle", "refused"} => tool[d].turn # w.turn
    /\ \A t \in Turn : used[t] # Nowhere => used[t].refs = used[t].due

(* A recall whose every decision leads to one memory, wherever the catalog *)
(* has it and on whichever page, finds it: neither the depth of one walk   *)
(* nor the steps of the other run out first (map-first-recall.ts 12,       *)
(* recall-runtime.ts 9, okf-catalog.ts 33).                                *)
SteadyFinds ==
    \A c \in Call : tool[c].status \in {"completed", "no_match"} /\ Cardinality(tool[c].aims) = 1 =>
        tool[c].aims \subseteq Range(tool[c].told)
=============================================================================
