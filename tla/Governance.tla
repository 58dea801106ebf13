----------------------------- MODULE Governance -----------------------------
(***************************************************************************)
(* What a chain of governance events means (src/src/governance/replay.ts,  *)
(* protocol/governance.ts and projection.ts): which memories are served,   *)
(* which are replaced, put away or in conflict, and which events may be    *)
(* added.  An event is known by its place in the chain, as its hash covers *)
(* its place and its predecessor; a reference to an event is its place.    *)
(* A revert masks an earlier event: the chain is then replayed without it. *)
(***************************************************************************)
EXTENDS Naturals, Sequences, FiniteSets, FiniteSetsExt, SequencesExt

CONSTANTS
    Memory,     \* memories of the project; none is added here
    Nobody      \* not a memory

ASSUME GovernanceAssumption == Nobody \notin Memory /\ IsFiniteSet(Memory)

(***************************************************************************)
(* Payloads.                                                               *)
(***************************************************************************)
Supersede(a, b)      == [action |-> "supersede", replacement |-> a, replaced |-> b]
AddConflict(pair)    == [action |-> "add_conflict", pair |-> pair]
Resolve(n, how)      == [action |-> "resolve_conflict", target |-> n, resolution |-> how]
Deactivate(m)        == [action |-> "deactivate", memory |-> m]
Reactivate(m, n)     == [action |-> "reactivate", memory |-> m, target |-> n]
Revert(n)            == [action |-> "revert", target |-> n]

At(chain, action) == {n \in DOMAIN chain : chain[n].action = action}

Dismiss == [action |-> "dismiss"]

(* The payloads whose references resolve against a chain                   *)
(* (validateGovernanceEventReferencesV1).                                  *)
Payloads(chain) ==
    LET Supersedes(S)  == {Supersede(q[1], q[2]) : q \in {q \in S \X S : q[1] # q[2]}}
        Resolutions(S) == {Dismiss} \cup Supersedes(S) \cup {Deactivate(m) : m \in S}
    IN UNION {
         Supersedes(Memory),
         {AddConflict(pair) : pair \in kSubset(2, Memory)},
         UNION {{Resolve(n, how) : how \in Resolutions(chain[n].pair)} : n \in At(chain, "add_conflict")},
         {Deactivate(m) : m \in Memory},
         {Reactivate(chain[n].memory, n) : n \in At(chain, "deactivate")},
         {Revert(n) : n \in DOMAIN chain \ At(chain, "revert")}}

(***************************************************************************)
(* The replay.  A world is ReplayState; ok becomes FALSE where the code    *)
(* throws.                                                                 *)
(***************************************************************************)
Unruled ==
    [supersededBy |-> [m \in Memory |-> Nobody], inactiveBy |-> [m \in Memory |-> 0],
     conflicts |-> {}, ok |-> TRUE]

Status(w, m) ==
    IF w.inactiveBy[m] # 0 THEN "inactive"
    ELSE IF w.supersededBy[m] # Nobody THEN "superseded" ELSE "active"

Active(w) == {m \in Memory : Status(w, m) = "active"}

(* The memories of the conflicts that are open.                            *)
Disputed(w, chain) == UNION {chain[n].pair : n \in w.conflicts}

Guarded(condition, w) == [w EXCEPT !.ok = condition]

(* assertNoSupersedeCycle: whatever replaces m, directly or not.           *)
Replacements(w, m) ==
    LET step[k \in 0 .. Cardinality(Memory)] ==
          IF k = 0 THEN {m} ELSE step[k - 1] \cup {w.supersededBy[x] : x \in step[k - 1] \cap Memory}
    IN step[Cardinality(Memory)]

ApplySupersede(w, chain, a, b) ==
    Guarded(/\ {a, b} \subseteq Active(w) /\ {a, b} \cap Disputed(w, chain) = {}
            /\ b \notin Replacements(w, a),
            [w EXCEPT !.supersededBy[b] = a])

ApplyDeactivate(w, chain, m, n) ==
    Guarded(Status(w, m) # "inactive" /\ m \notin Disputed(w, chain),
            [w EXCEPT !.inactiveBy[m] = n])

(* The conflict is closed first, so it does not stand in its own way.      *)
ApplyResolve(w, chain, p, n) ==
    LET closed == [w EXCEPT !.conflicts = @ \ {p.target}]
        how    == p.resolution
    IN IF p.target \notin w.conflicts THEN Guarded(FALSE, w)
       ELSE CASE how.action = "dismiss"    -> closed
              [] how.action = "supersede"  -> ApplySupersede(closed, chain, how.replacement, how.replaced)
              [] how.action = "deactivate" -> ApplyDeactivate(closed, chain, how.memory, n)

(* applyEvent.  An open conflict needs both its memories active.           *)
Applied(w, chain, n) ==
    LET p == chain[n] IN
    CASE p.action = "supersede"        -> ApplySupersede(w, chain, p.replacement, p.replaced)
      [] p.action = "add_conflict"     ->
           Guarded(/\ p.pair \subseteq Active(w) /\ \A c \in w.conflicts : chain[c].pair # p.pair,
                   [w EXCEPT !.conflicts = @ \cup {n}])
      [] p.action = "resolve_conflict" -> ApplyResolve(w, chain, p, n)
      [] p.action = "deactivate"       -> ApplyDeactivate(w, chain, p.memory, n)
      [] p.action = "reactivate"       ->
           Guarded(w.inactiveBy[p.memory] = p.target, [w EXCEPT !.inactiveBy[p.memory] = 0])
      [] p.action = "revert"           -> w

ApplyEvent(w, chain, n) ==
    LET v == Applied(w, chain, n) IN Guarded(v.ok /\ Disputed(v, chain) \subseteq Active(v), v)

(* replayWithMask: w[n] is the state after the first n events.             *)
ReplayEvent(w, chain, masked, n) == IF ~w.ok \/ n \in masked THEN w ELSE ApplyEvent(w, chain, n)

ReplayWithMask(chain, masked) ==
    LET w[n \in 0 .. Len(chain)] == IF n = 0 THEN Unruled ELSE ReplayEvent(w[n - 1], chain, masked, n)
    IN w[Len(chain)]

Masks(chain) == {chain[n].target : n \in At(chain, "revert")}
World(chain) == ReplayWithMask(chain, Masks(chain))

(* replayGovernanceV1: no event is reverted twice, the chain made sense    *)
(* when each revert was added, and it makes sense now.                     *)
Accepts(chain) ==
    LET reverts == At(chain, "revert") IN
    /\ \A n, k \in reverts : chain[n].target = chain[k].target => n = k
    /\ \A n \in reverts : World(SubSeq(chain, 1, n)).ok
    /\ World(chain).ok

(* collectFootprint: the memories in whose history an event is listed.     *)
Touched(p) ==
    CASE p.action = "supersede"    -> {p.replacement, p.replaced}
      [] p.action = "add_conflict" -> p.pair
      [] OTHER                     -> {p.memory}

(* Mutant of Footprint: a revert is listed only where it can be seen to be *)
(* about a memory.                                                         *)
FootprintUnfollowed(chain, n) ==
    LET p == chain[n] IN
    CASE p.action = "resolve_conflict" -> chain[p.target].pair
      [] p.action = "revert"           -> {}
      [] OTHER                         -> Touched(p)

Footprint(chain, n) ==
    LET p == chain[n]
        q == IF p.action = "revert" THEN chain[p.target] ELSE p
    IN IF q.action = "resolve_conflict" THEN chain[q.target].pair ELSE Touched(q)

(***************************************************************************)
(* The projection (projectEffectiveWorldV1): what a generation is built    *)
(* from, and the conditions under which it cannot be built.                *)
(***************************************************************************)
Effective(chain, m) ==
    LET w == World(chain) IN
    [status |-> Status(w, m), superseded_by |-> w.supersededBy[m], inactive_by |-> w.inactiveBy[m],
     conflicts |-> {n \in w.conflicts : m \in chain[n].pair},
     history |-> {n \in DOMAIN chain : m \in Footprint(chain, n)}]

Visible(chain) == {m \in Memory : Effective(chain, m).status = "active"}

Projects(chain) ==
    \A m \in Memory :
      LET e == Effective(chain, m) IN
      /\ e.conflicts # {} => e.status = "active"
      /\ m \in Visible(chain) =>
           \A n \in e.conflicts : chain[n].action = "add_conflict" /\ chain[n].pair \subseteq Visible(chain)
=============================================================================
