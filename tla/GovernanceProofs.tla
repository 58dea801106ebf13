-------------------------- MODULE GovernanceProofs --------------------------
(***************************************************************************)
(* Proofs about the two specifications of MCGovernance, for any values of  *)
(* their constants:                                                        *)
(*                                                                         *)
(*   - the governance ledger (part one): what CURRENT names can always be  *)
(*     replayed, projected and undone, and a memory's history lists what   *)
(*     changed it, for chains of any length and any number of processes;   *)
(*   - the end-to-end harness: the request ledger bounds the calls to a    *)
(*     model (part two), and a report that passes was earned (part three), *)
(*     whatever the agents plan and however much goes wrong.               *)
(***************************************************************************)
EXTENDS GovernanceLedger, Harness, FiniteSetTheorems, SequenceTheorems, WellFoundedInduction, TLAPS

(* Sequences, and what can be shown of them without their elements.        *)
IsSeq(s) == \E S : s \in Seq(S)

(* A sequence has its places, and the empty one is one. *)
LEMMA Sequences ==
    /\ IsSeq(<<>>)
    /\ \A s : IsSeq(s) => Len(s) \in Nat /\ DOMAIN s = 1 .. Len(s)
<1>1. \A S : <<>> \in Seq(S)
  OBVIOUS
<1> QED BY <1>1 DEF IsSeq

(* A sequence with one more. *)
LEMMA Appends ==
    ASSUME NEW s, IsSeq(s), NEW v
    PROVE  /\ IsSeq(Append(s, v)) /\ Len(Append(s, v)) = Len(s) + 1
           /\ \A i \in 1 .. Len(s) : Append(s, v)[i] = s[i]
           /\ Append(s, v)[Len(s) + 1] = v
<1>1. PICK S : s \in Seq(S)
  BY DEF IsSeq
<1> DEFINE T == S \cup {v}
<1>2. s \in Seq(T) /\ v \in T
  BY <1>1
<1> HIDE DEF T
<1>3. Append(s, v) \in Seq(T)
  BY <1>2
<1> QED BY <1>2, <1>3 DEF IsSeq

(* A sequence with many more. *)
LEMMA Concatenations ==
    ASSUME NEW s, IsSeq(s), NEW t, IsSeq(t)
    PROVE  /\ IsSeq(s \o t) /\ Len(s \o t) = Len(s) + Len(t)
           /\ \A i \in 1 .. Len(s) : (s \o t)[i] = s[i]
           /\ \A i \in 1 .. Len(t) : (s \o t)[Len(s) + i] = t[i]
<1>1. PICK S : s \in Seq(S)
  BY DEF IsSeq
<1>2. PICK U : t \in Seq(U)
  BY DEF IsSeq
<1> DEFINE T == S \cup U
<1>3. s \in Seq(T) /\ t \in Seq(T)
  BY <1>1, <1>2
<1> HIDE DEF T
<1>4. s \o t \in Seq(T)
  BY <1>3
<1> QED BY <1>3, <1>4 DEF IsSeq

(* The rest of a sequence. *)
LEMMA Tails ==
    ASSUME NEW s, IsSeq(s), s # <<>>
    PROVE  /\ IsSeq(Tail(s)) /\ 1 \in DOMAIN s /\ Head(s) = s[1]
           /\ \A i \in DOMAIN Tail(s) : i + 1 \in DOMAIN s /\ Tail(s)[i] = s[i + 1]
<1>1. PICK S : s \in Seq(S)
  BY DEF IsSeq
<1>2. Tail(s) \in Seq(S)
  BY <1>1
<1> QED BY <1>1, <1>2 DEF IsSeq

(* The first n of a sequence.                                              *)
LEMMA Beginning ==
    ASSUME NEW c, IsSeq(c), NEW n \in 0 .. Len(c)
    PROVE  /\ IsSeq(SubSeq(c, 1, n)) /\ Len(SubSeq(c, 1, n)) = n
           /\ \A i \in 1 .. n : SubSeq(c, 1, n)[i] = c[i]
           /\ SubSeq(c, 1, Len(c)) = c
<1>1. PICK S : c \in Seq(S)
  BY DEF IsSeq
<1>2. SubSeq(c, 1, n) \in Seq(S) /\ Len(SubSeq(c, 1, n)) = n
  BY <1>1
<1>3. \A i \in 1 .. n : SubSeq(c, 1, n)[i] = c[i]
  BY <1>1
<1>4. SubSeq(c, 1, Len(c)) = c
  <2>1. SubSeq(c, 1, Len(c)) \in Seq(S) /\ Len(SubSeq(c, 1, Len(c))) = Len(c)
    BY <1>1
  <2>2. \A i \in 1 .. Len(c) : SubSeq(c, 1, Len(c))[i] = c[i]
    BY <1>1
  <2> QED BY <1>1, <2>1, <2>2, SeqEqual
<1> QED BY <1>2, <1>3, <1>4 DEF IsSeq

(* A longer chain begins as it did. *)
LEMMA PrefixesOfMore ==
    ASSUME NEW c, IsSeq(c), NEW e, NEW n \in 1 .. Len(c)
    PROVE  SubSeq(Append(c, e), 1, n) = SubSeq(c, 1, n)
<1>1. PICK S : c \in Seq(S)
  BY DEF IsSeq
<1> DEFINE T == S \cup {e}
<1>2. c \in Seq(T) /\ e \in T
  BY <1>1
<1> HIDE DEF T
<1> QED BY <1>2

(* A set that holds 0 and every successor of its numbers holds every       *)
(* number.                                                                 *)
LEMMA NumbersByStep ==
    ASSUME NEW S, 0 \in S, \A n \in Nat : n \in S => n + 1 \in S
    PROVE  Nat \subseteq S
<1> SUFFICES ASSUME ~(Nat \subseteq S) PROVE FALSE
  OBVIOUS
<1> DEFINE B == Nat \ S
<1>1. PICK m \in B : \A y \in B : <<y, m>> \notin OpToRel(<, Nat)
  BY NatLessThanWellFounded, WFMin
<1>2. \A y \in B : ~ (y < m)
  BY <1>1, Zenon DEF OpToRel
<1>3. m \in Nat /\ m \notin S /\ m # 0
  OBVIOUS
<1>4. m - 1 \in Nat /\ m - 1 < m /\ (m - 1) + 1 = m
  BY <1>3
<1>5. m - 1 \in S
  BY <1>2, <1>4
<1> QED BY <1>3, <1>4, <1>5

(* The least of a set of numbers. *)
LEMMA LeastIs ==
    ASSUME NEW S, S \subseteq Nat, S # {}
    PROVE  \E n \in S : \A k \in S : n <= k
<1>1. PICK m \in S : \A y \in S : <<y, m>> \notin OpToRel(<, Nat)
  BY NatLessThanWellFounded, WFMin
<1>2. \A y \in S : ~ (y < m)
  BY <1>1, Zenon DEF OpToRel
<1> QED BY <1>2

-----------------------------------------------------------------------------
(***************************************************************************)
(* PART ONE: the governance ledger.  First that a replay is a function of  *)
(* the events and what one event does to a world; then what holds in every *)
(* world a replay reaches, what two replays have in common, why the latest *)
(* event in force can be undone; then the commits, and at last which       *)
(* memories an event can change.                                           *)
(***************************************************************************)

(* A function on numbers may be defined from one to the next.              *)
LEMMA RecursionExists ==
    ASSUME NEW S, NEW a \in S, NEW N \in Nat, NEW F \in [1 .. N -> [S -> S]]
    PROVE  \E f \in [0 .. N -> S] : f[0] = a /\ \A n \in 1 .. N : f[n] = F[n][f[n - 1]]
<1> DEFINE Good(f, k) == f[0] = a /\ \A n \in 1 .. k : f[n] = F[n][f[n - 1]]
           K == {k \in Nat : k <= N => \E f \in [0 .. k -> S] : Good(f, k)}
<1>1. 0 \in K
  <2>1. [i \in 0 .. 0 |-> a] \in [0 .. 0 -> S] /\ Good([i \in 0 .. 0 |-> a], 0)
    OBVIOUS
  <2> QED BY <2>1
<1>2. ASSUME NEW k \in Nat, k \in K PROVE k + 1 \in K
  <2> SUFFICES ASSUME k + 1 <= N PROVE \E g \in [0 .. (k + 1) -> S] : Good(g, k + 1)
    OBVIOUS
  <2>1. PICK f \in [0 .. k -> S] : Good(f, k)
    BY <1>2
  <2>2. F[k + 1] \in [S -> S] /\ f[k] \in S
    OBVIOUS
  <2> DEFINE g == [i \in 0 .. (k + 1) |-> IF i = k + 1 THEN F[k + 1][f[k]] ELSE f[i]]
  <2>3. g \in [0 .. (k + 1) -> S]
    BY <2>2
  <2>4. g[k + 1] = F[k + 1][f[k]] /\ \A i \in 0 .. k : g[i] = f[i]
    OBVIOUS
  <2> HIDE DEF g
  <2>5. Good(g, k + 1)
    BY <2>1, <2>4
  <2> QED BY <2>3, <2>5
<1> HIDE DEF K
<1>3. Nat \subseteq K
  BY <1>1, <1>2, NumbersByStep
<1> QED BY <1>3 DEF K

-----------------------------------------------------------------------------
(* A chain refers to what it has: to memories, and to earlier events of    *)
(* the right action.                                                       *)
Ruled(how, S) ==
    \/ how.action = "dismiss"
    \/ how.action = "supersede" /\ how.replacement \in S /\ how.replaced \in S
       /\ how.replacement # how.replaced
    \/ how.action = "deactivate" /\ how.memory \in S

Fits(chain, n) ==
    LET p == chain[n] IN
    \/ p.action = "supersede" /\ p.replacement \in Memory /\ p.replaced \in Memory
       /\ p.replacement # p.replaced
    \/ p.action = "add_conflict" /\ p.pair \subseteq Memory
    \/ p.action = "resolve_conflict" /\ p.target \in 1 .. (n - 1)
       /\ chain[p.target].action = "add_conflict" /\ chain[p.target].pair \subseteq Memory
       /\ Ruled(p.resolution, chain[p.target].pair)
    \/ p.action = "deactivate" /\ p.memory \in Memory
    \/ p.action = "reactivate" /\ p.memory \in Memory
    \/ p.action = "revert" /\ p.target \in 1 .. (n - 1) /\ chain[p.target].action # "revert"

Formed(chain) == IsSeq(chain) /\ \A n \in 1 .. Len(chain) : Fits(chain, n)

Worlds == [supersededBy : [Memory -> Memory \cup {Nobody}], inactiveBy : [Memory -> Nat],
           conflicts : SUBSET Nat, ok : BOOLEAN]

(* What is replaced, or put away, and nothing else. *)
Replaces(w, v, a, b) ==
    /\ a \in Memory /\ b \in Memory
    /\ v.supersededBy = [w.supersededBy EXCEPT ![b] = a] /\ v.inactiveBy = w.inactiveBy
    /\ v.ok => {a, b} \subseteq Active(w)

PutsAway(w, v, m, n) ==
    /\ m \in Memory
    /\ v.supersededBy = w.supersededBy /\ v.inactiveBy = [w.inactiveBy EXCEPT ![m] = n]

Same(w, v) == v.supersededBy = w.supersededBy /\ v.inactiveBy = w.inactiveBy

LEMMA SupersedeDoes ==
    ASSUME NEW w \in Worlds, NEW chain, NEW a \in Memory, NEW b \in Memory, NEW v,
           v = ApplySupersede(w, chain, a, b)
    PROVE  v \in Worlds /\ v.conflicts = w.conflicts /\ Replaces(w, v, a, b)
<1> DEFINE k == /\ {a, b} \subseteq Active(w) /\ {a, b} \cap Disputed(w, chain) = {}
                /\ b \notin Replacements(w, a)
           u == [w EXCEPT !.supersededBy[b] = a]
<1>1. v = [u EXCEPT !.ok = k]
  BY DEF ApplySupersede, Guarded
<1>2. k \in BOOLEAN /\ (k => {a, b} \subseteq Active(w))
  OBVIOUS
<1>3. u \in Worlds /\ u.supersededBy = [w.supersededBy EXCEPT ![b] = a] /\ u.inactiveBy = w.inactiveBy
      /\ u.conflicts = w.conflicts
  BY DEF Worlds
<1> HIDE DEF k, u
<1>4. v \in Worlds /\ v.supersededBy = u.supersededBy /\ v.inactiveBy = u.inactiveBy
      /\ v.conflicts = u.conflicts /\ v.ok = k
  BY <1>1, <1>2, <1>3 DEF Worlds
<1> QED BY <1>2, <1>3, <1>4 DEF Replaces

LEMMA DeactivateDoes ==
    ASSUME NEW w \in Worlds, NEW chain, NEW m \in Memory, NEW n \in Nat, NEW v,
           v = ApplyDeactivate(w, chain, m, n)
    PROVE  v \in Worlds /\ v.conflicts = w.conflicts /\ PutsAway(w, v, m, n)
<1> DEFINE k == Status(w, m) # "inactive" /\ m \notin Disputed(w, chain)
           u == [w EXCEPT !.inactiveBy[m] = n]
<1>1. v = [u EXCEPT !.ok = k]
  BY DEF ApplyDeactivate, Guarded
<1>2. k \in BOOLEAN
  OBVIOUS
<1>3. u \in Worlds /\ u.inactiveBy = [w.inactiveBy EXCEPT ![m] = n] /\ u.supersededBy = w.supersededBy
      /\ u.conflicts = w.conflicts
  BY DEF Worlds
<1> HIDE DEF k, u
<1>4. v \in Worlds /\ v.supersededBy = u.supersededBy /\ v.inactiveBy = u.inactiveBy
      /\ v.conflicts = u.conflicts
  BY <1>1, <1>2, <1>3 DEF Worlds
<1> QED BY <1>3, <1>4 DEF PutsAway

(* What an event does to a world.                                          *)
Does(w, v, chain, n) ==
    LET p == chain[n]
        how == p.resolution
    IN \/ p.action = "supersede" /\ Replaces(w, v, p.replacement, p.replaced) /\ v.conflicts = w.conflicts
       \/ p.action = "add_conflict" /\ Same(w, v) /\ v.conflicts = w.conflicts \cup {n}
       \/ /\ p.action = "resolve_conflict" /\ v.conflicts = w.conflicts \ {p.target}
          /\ \/ how.action = "dismiss" /\ Same(w, v)
             \/ how.action = "supersede" /\ Replaces(w, v, how.replacement, how.replaced)
             \/ how.action = "deactivate" /\ PutsAway(w, v, how.memory, n)
       \/ p.action = "deactivate" /\ PutsAway(w, v, p.memory, n) /\ v.conflicts = w.conflicts
       \/ p.action = "reactivate" /\ PutsAway(w, v, p.memory, 0) /\ v.conflicts = w.conflicts
       \/ p.action = "revert" /\ v = w

LEMMA ResolveDoes ==
    ASSUME NEW w \in Worlds, NEW chain, IsSeq(chain), NEW n \in 1 .. Len(chain), Fits(chain, n),
           chain[n].action = "resolve_conflict",
           NEW v, v = ApplyResolve(w, chain, chain[n], n)
    PROVE  v \in Worlds /\ (v.ok => Does(w, v, chain, n))
<1> DEFINE p == chain[n]
           how == p.resolution
           closed == [w EXCEPT !.conflicts = w.conflicts \ {p.target}]
<1>1. /\ closed \in Worlds /\ Same(w, closed) /\ closed.conflicts = w.conflicts \ {p.target}
  BY DEF Worlds, Same
<1>2. CASE p.target \notin w.conflicts
  <2>1. v = [w EXCEPT !.ok = FALSE]
    BY <1>2 DEF ApplyResolve, Guarded
  <2> QED BY <2>1 DEF Worlds
<1>3. CASE p.target \in w.conflicts
  <2>0. v = CASE how.action = "dismiss"    -> closed
              [] how.action = "supersede"  -> ApplySupersede(closed, chain, how.replacement, how.replaced)
              [] how.action = "deactivate" -> ApplyDeactivate(closed, chain, how.memory, n)
    BY <1>3 DEF ApplyResolve
  <2>1. Ruled(how, chain[p.target].pair) /\ chain[p.target].pair \subseteq Memory /\ n \in Nat
    BY Sequences DEF Fits
  <2> HIDE DEF closed
  <2>2. CASE how.action = "dismiss"
    <3>1. v = closed
      BY <2>0, <2>2
    <3> QED BY <1>1, <2>2, <3>1 DEF Does
  <2>3. CASE how.action = "supersede"
    <3>1. v = ApplySupersede(closed, chain, how.replacement, how.replaced)
      BY <2>0, <2>3
    <3>2. how.replacement \in Memory /\ how.replaced \in Memory
      BY <2>1, <2>3 DEF Ruled
    <3>3. v \in Worlds /\ v.conflicts = closed.conflicts /\ Replaces(closed, v, how.replacement, how.replaced)
      BY <1>1, <3>1, <3>2, SupersedeDoes
    <3>4. Active(closed) = Active(w)
      BY <1>1 DEF Active, Status, Same
    <3>5. Replaces(w, v, how.replacement, how.replaced)
      BY <1>1, <3>3, <3>4 DEF Replaces, Same
    <3> QED BY <1>1, <2>3, <3>3, <3>5 DEF Does
  <2>4. CASE how.action = "deactivate"
    <3>1. v = ApplyDeactivate(closed, chain, how.memory, n)
      BY <2>0, <2>4
    <3>2. how.memory \in Memory
      BY <2>1, <2>4 DEF Ruled
    <3>3. v \in Worlds /\ v.conflicts = closed.conflicts /\ PutsAway(closed, v, how.memory, n)
      BY <1>1, <2>1, <3>1, <3>2, DeactivateDoes
    <3>4. PutsAway(w, v, how.memory, n)
      BY <1>1, <3>3 DEF PutsAway, Same
    <3> QED BY <1>1, <2>4, <3>3, <3>4 DEF Does
  <2> QED BY <2>1, <2>2, <2>3, <2>4 DEF Ruled
<1> QED BY <1>2, <1>3

(* One event, before the conflicts are looked at. *)
LEMMA AppliedDoes ==
    ASSUME NEW w \in Worlds, NEW chain, IsSeq(chain), NEW n \in 1 .. Len(chain), Fits(chain, n),
           NEW v, v = Applied(w, chain, n)
    PROVE  v \in Worlds /\ (v.ok => Does(w, v, chain, n))
<1> DEFINE p == chain[n]
<1>0. n \in Nat
  BY Sequences
<1>1. CASE p.action = "supersede"
  <2>1. v = ApplySupersede(w, chain, p.replacement, p.replaced)
    BY <1>1 DEF Applied
  <2>2. p.replacement \in Memory /\ p.replaced \in Memory
    BY <1>1 DEF Fits
  <2> QED BY <1>1, <2>1, <2>2, SupersedeDoes DEF Does
<1>2. CASE p.action = "add_conflict"
  <2> DEFINE k == /\ p.pair \subseteq Active(w) /\ \A c \in w.conflicts : chain[c].pair # p.pair
             u == [w EXCEPT !.conflicts = w.conflicts \cup {n}]
  <2>1. v = [u EXCEPT !.ok = k]
    BY <1>2 DEF Applied, Guarded
  <2>2. k \in BOOLEAN
    OBVIOUS
  <2>3. u \in Worlds /\ Same(w, u) /\ u.conflicts = w.conflicts \cup {n}
    BY <1>0 DEF Worlds, Same
  <2> HIDE DEF k, u
  <2>4. v \in Worlds /\ Same(w, v) /\ v.conflicts = w.conflicts \cup {n}
    BY <2>1, <2>2, <2>3 DEF Worlds, Same
  <2> QED BY <1>2, <2>4 DEF Does
<1>3. CASE p.action = "resolve_conflict"
  <2>1. v = ApplyResolve(w, chain, chain[n], n)
    BY <1>3 DEF Applied
  <2> QED BY <1>3, <2>1, ResolveDoes
<1>4. CASE p.action = "deactivate"
  <2>1. v = ApplyDeactivate(w, chain, p.memory, n)
    BY <1>4 DEF Applied
  <2>2. p.memory \in Memory
    BY <1>4 DEF Fits
  <2> QED BY <1>0, <1>4, <2>1, <2>2, DeactivateDoes DEF Does
<1>5. CASE p.action = "reactivate"
  <2> DEFINE k == w.inactiveBy[p.memory] = p.target
             u == [w EXCEPT !.inactiveBy[p.memory] = 0]
  <2>1. v = [u EXCEPT !.ok = k]
    BY <1>5 DEF Applied, Guarded
  <2>2. k \in BOOLEAN
    OBVIOUS
  <2>3. p.memory \in Memory
    BY <1>5 DEF Fits
  <2>4. u \in Worlds /\ PutsAway(w, u, p.memory, 0) /\ u.conflicts = w.conflicts
    BY <2>3 DEF Worlds, PutsAway
  <2> HIDE DEF k, u
  <2>5. v \in Worlds /\ PutsAway(w, v, p.memory, 0) /\ v.conflicts = w.conflicts
    BY <2>1, <2>2, <2>4 DEF Worlds, PutsAway
  <2> QED BY <1>5, <2>5 DEF Does
<1>6. CASE p.action = "revert"
  <2>1. v = w
    BY <1>6 DEF Applied
  <2> QED BY <1>6, <2>1 DEF Does
<1> QED BY <1>1, <1>2, <1>3, <1>4, <1>5, <1>6 DEF Fits

(* One event: where the replay goes on, no open conflict is of a memory    *)
(* that is not active.                                                     *)
Coherent(w, chain) == Disputed(w, chain) \subseteq Active(w)

LEMMA EventDoes ==
    ASSUME NEW w \in Worlds, NEW chain, IsSeq(chain), NEW n \in 1 .. Len(chain), Fits(chain, n), w.ok,
           NEW v, v = ApplyEvent(w, chain, n)
    PROVE  v \in Worlds /\ (v.ok => Does(w, v, chain, n) /\ Coherent(v, chain))
<1> DEFINE u == Applied(w, chain, n)
           k == u.ok /\ Coherent(u, chain)
<1>1. v = [u EXCEPT !.ok = k]
  BY DEF ApplyEvent, Guarded, Coherent
<1>2. u \in Worlds /\ (u.ok => Does(w, u, chain, n))
  BY AppliedDoes
<1>3. (k => u.ok /\ Coherent(u, chain)) /\ k \in BOOLEAN
  BY <1>2 DEF Worlds
<1> HIDE DEF u, k
<1>4. v \in Worlds /\ v.ok = k /\ Same(u, v) /\ v.conflicts = u.conflicts
  BY <1>1, <1>2, <1>3 DEF Worlds, Same
<1>5. Active(v) = Active(u) /\ Disputed(v, chain) = Disputed(u, chain)
  BY <1>4 DEF Active, Status, Disputed, Same
<1>6. ASSUME v.ok PROVE v = u
  <2>1. u.ok = TRUE /\ k = TRUE
    BY <1>3, <1>4, <1>6, <1>2 DEF Worlds
  <2> QED BY <1>1, <1>2, <2>1 DEF Worlds
<1> QED BY <1>2, <1>3, <1>4, <1>5, <1>6 DEF Coherent

-----------------------------------------------------------------------------
(* A replay, event by event.                                               *)
Replaying(f, chain, masked) ==
    /\ f \in [0 .. Len(chain) -> Worlds] /\ f[0] = Unruled
    /\ \A n \in 1 .. Len(chain) : f[n] = ReplayEvent(f[n - 1], chain, masked, n)

LEMMA ReplayTyped ==
    ASSUME NEW w \in Worlds, NEW chain, Formed(chain), NEW masked, NEW n \in 1 .. Len(chain)
    PROVE  ReplayEvent(w, chain, masked, n) \in Worlds
<1>1. CASE ~w.ok \/ n \in masked
  BY <1>1 DEF ReplayEvent
<1>2. CASE ~(~w.ok \/ n \in masked)
  <2>1. ReplayEvent(w, chain, masked, n) = ApplyEvent(w, chain, n)
    BY <1>2 DEF ReplayEvent
  <2>2. ApplyEvent(w, chain, n) \in Worlds
    BY <1>2, EventDoes DEF Formed
  <2> QED BY <2>1, <2>2
<1> QED BY <1>1, <1>2

LEMMA UnruledWorld == Unruled \in Worlds /\ Unruled.ok /\ Unruled.conflicts = {}
                      /\ \A m \in Memory : Unruled.supersededBy[m] = Nobody
BY DEF Unruled, Worlds

WholeReplay(f, chain, masked) ==
    f = [n \in 0 .. Len(chain) |-> IF n = 0 THEN Unruled ELSE ReplayEvent(f[n - 1], chain, masked, n)]

LEMMA ReplayExists ==
    ASSUME NEW chain, Formed(chain), NEW masked
    PROVE  \E f : Replaying(f, chain, masked) /\ ReplayWithMask(chain, masked) = f[Len(chain)]
<1> DEFINE N == Len(chain)
           F == [n \in 1 .. N |-> [w \in Worlds |-> ReplayEvent(w, chain, masked, n)]]
<1>0. N \in Nat
  BY Sequences DEF Formed
<1>1. F \in [1 .. N -> [Worlds -> Worlds]]
  BY ReplayTyped
<1>2. \A n \in 1 .. N : \A w \in Worlds : F[n][w] = ReplayEvent(w, chain, masked, n)
  OBVIOUS
<1> HIDE DEF F
<1>3. PICK f \in [0 .. N -> Worlds] : f[0] = Unruled /\ \A n \in 1 .. N : f[n] = F[n][f[n - 1]]
  <2> HIDE DEF N
  <2>1. Unruled \in Worlds
    BY UnruledWorld
  <2> HIDE DEF Worlds, Unruled
  <2> QED BY <1>0, <1>1, <2>1, RecursionExists
<1>4. \A n \in 1 .. N : f[n - 1] \in Worlds
  BY <1>0
<1>5. \A n \in 1 .. N : f[n] = ReplayEvent(f[n - 1], chain, masked, n)
  BY <1>2, <1>3, <1>4
<1>6. Replaying(f, chain, masked)
  BY <1>3, <1>5 DEF Replaying
<1>7. WholeReplay(f, chain, masked)
  <2> DEFINE e(n) == IF n = 0 THEN Unruled ELSE ReplayEvent(f[n - 1], chain, masked, n)
  <2>1. \A n \in 0 .. N : f[n] = e(n)
    <3> TAKE n \in 0 .. N
    <3>1. CASE n = 0
      BY <1>3, <3>1
    <3>2. CASE n # 0
      <4>1. n \in 1 .. N
        BY <1>0, <3>2
      <4> QED BY <1>5, <3>2, <4>1
    <3> QED BY <3>1, <3>2
  <2>2. f = [n \in 0 .. N |-> f[n]]
    BY <1>3
  <2>3. f = [n \in 0 .. N |-> e(n)]
    <3> HIDE DEF e
    <3> QED BY <2>1, <2>2, Zenon
  <2> QED BY <2>3, Zenon DEF WholeReplay
<1> DEFINE g == CHOOSE w : WholeReplay(w, chain, masked)
<1>8. WholeReplay(g, chain, masked)
  BY <1>7, Zenon
<1>9. ReplayWithMask(chain, masked) = g[N]
  BY Zenon DEF ReplayWithMask, WholeReplay
<1> HIDE DEF g
<1> DEFINE K == {k \in Nat : k <= N => g[k] = f[k]}
<1>10. \A n \in 0 .. N : g[n] = IF n = 0 THEN Unruled ELSE ReplayEvent(g[n - 1], chain, masked, n)
  <2> DEFINE e(n) == IF n = 0 THEN Unruled ELSE ReplayEvent(g[n - 1], chain, masked, n)
  <2>1. g = [n \in 0 .. N |-> e(n)]
    BY <1>8, Zenon DEF WholeReplay
  <2>2. \A n \in 0 .. N : g[n] = e(n)
    <3> HIDE DEF e
    <3> QED BY <2>1
  <2> QED BY <2>2, Zenon
<1>11. 0 \in K
  BY <1>0, <1>3, <1>10
<1>12. ASSUME NEW k \in Nat, k \in K PROVE k + 1 \in K
  <2> SUFFICES ASSUME k + 1 <= N PROVE g[k + 1] = f[k + 1]
    OBVIOUS
  <2>1. g[k] = f[k] /\ k + 1 \in 0 .. N /\ k + 1 \in 1 .. N /\ (k + 1) - 1 = k /\ k + 1 # 0
    BY <1>0, <1>12
  <2>2. g[k + 1] = ReplayEvent(g[(k + 1) - 1], chain, masked, k + 1)
    BY <1>10, <2>1
  <2>3. f[k + 1] = ReplayEvent(f[(k + 1) - 1], chain, masked, k + 1)
    BY <1>5, <2>1
  <2> QED BY <2>1, <2>2, <2>3
<1> HIDE DEF K
<1>13. Nat \subseteq K
  BY <1>11, <1>12, NumbersByStep
<1>14. g[N] = f[N]
  BY <1>0, <1>13 DEF K
<1> QED BY <1>6, <1>9, <1>14

(* A replay that went through never stood still, and left no open conflict *)
(* of a memory that was not active.                                        *)
LEMMA ReplayStep ==
    ASSUME NEW f, NEW chain, Formed(chain), NEW masked, Replaying(f, chain, masked),
           NEW n \in 1 .. Len(chain)
    PROVE  /\ f[n - 1] \in Worlds /\ f[n] \in Worlds
           /\ n \in masked => f[n] = f[n - 1]
           /\ f[n].ok => f[n - 1].ok
           /\ n \notin masked /\ f[n].ok =>
                /\ f[n] = ApplyEvent(f[n - 1], chain, n)
                /\ Does(f[n - 1], f[n], chain, n) /\ Coherent(f[n], chain)
<1>0. Len(chain) \in Nat /\ n - 1 \in 0 .. Len(chain) /\ n \in 0 .. Len(chain)
  BY Sequences DEF Formed
<1>1. f[n - 1] \in Worlds /\ f[n] \in Worlds /\ f[n] = ReplayEvent(f[n - 1], chain, masked, n)
  BY <1>0 DEF Replaying
<1>2. CASE ~f[n - 1].ok \/ n \in masked
  <2>1. f[n] = f[n - 1]
    BY <1>1, <1>2 DEF ReplayEvent
  <2> QED BY <1>1, <1>2, <2>1
<1>3. CASE ~(~f[n - 1].ok \/ n \in masked)
  <2>1. f[n] = ApplyEvent(f[n - 1], chain, n)
    BY <1>1, <1>3 DEF ReplayEvent
  <2>2. f[n].ok => Does(f[n - 1], f[n], chain, n) /\ Coherent(f[n], chain)
    BY <1>1, <1>3, <2>1, EventDoes DEF Formed
  <2> QED BY <1>1, <1>3, <2>1, <2>2
<1> QED BY <1>2, <1>3

LEMMA ReplayWentWell ==
    ASSUME NEW f, NEW chain, Formed(chain), NEW masked, Replaying(f, chain, masked), f[Len(chain)].ok
    PROVE  \A n \in 0 .. Len(chain) : f[n].ok
<1> DEFINE N == Len(chain)
           K == {k \in Nat : k <= N => f[N - k].ok}
<1>0. N \in Nat
  BY Sequences DEF Formed
<1>1. 0 \in K
  BY <1>0
<1>2. ASSUME NEW k \in Nat, k \in K PROVE k + 1 \in K
  <2> SUFFICES ASSUME k + 1 <= N PROVE f[N - (k + 1)].ok
    OBVIOUS
  <2>1. f[N - k].ok /\ N - k \in 1 .. N /\ (N - k) - 1 = N - (k + 1)
    BY <1>0, <1>2
  <2>2. f[(N - k) - 1].ok
    BY <2>1, ReplayStep
  <2> QED BY <2>1, <2>2
<1> HIDE DEF K
<1>3. Nat \subseteq K
  BY <1>1, <1>2, NumbersByStep
<1> SUFFICES ASSUME NEW n \in 0 .. N PROVE f[n].ok
  OBVIOUS
<1>4. N - n \in Nat /\ N - n <= N /\ N - (N - n) = n
  BY <1>0
<1>5. N - n \in K
  BY <1>3, <1>4
<1> QED BY <1>4, <1>5 DEF K

-----------------------------------------------------------------------------
(* Whatever replaces a memory, directly or not: the chain of replacements. *)
Someone == Memory \cup {Nobody}

Further(w, S) == S \cup {w.supersededBy[z] : z \in S \cap Memory}

Chase(f, w, m) ==
    f = [k \in 0 .. Cardinality(Memory) |->
           IF k = 0 THEN {m} ELSE f[k - 1] \cup {w.supersededBy[z] : z \in f[k - 1] \cap Memory}]

(* A set that holds m and whatever replaces one of its own holds all that  *)
(* replace m.                                                              *)
ClosedUnder(w, S) == \A z \in S \cap Memory : w.supersededBy[z] \in S

LEMMA ChaseStep ==
    ASSUME NEW w, NEW m, NEW g, Chase(g, w, m)
    PROVE  /\ Cardinality(Memory) \in Nat /\ g[0] = {m}
           /\ \A k \in 1 .. Cardinality(Memory) : g[k] = Further(w, g[k - 1])
<1> DEFINE N == Cardinality(Memory)
           e(k) == IF k = 0 THEN {m} ELSE Further(w, g[k - 1])
<1>0. N \in Nat
  BY GovernanceAssumption, FS_CardinalityType
<1>1. g = [k \in 0 .. N |-> e(k)]
  BY Zenon DEF Chase, Further
<1>2. \A k \in 0 .. N : g[k] = e(k)
  <2> HIDE DEF e
  <2> QED BY <1>1
<1> HIDE DEF N
<1>3. g[0] = {m}
  BY <1>0, <1>2
<1>4. ASSUME NEW k \in 1 .. N PROVE g[k] = Further(w, g[k - 1])
  <2>1. k \in 0 .. N /\ k # 0
    BY <1>0
  <2>2. g[k] = e(k)
    BY <1>2, <2>1
  <2> QED BY <2>1, <2>2
<1> QED BY <1>0, <1>3, <1>4 DEF N

LEMMA ChaseExists ==
    ASSUME NEW w \in Worlds, NEW m \in Someone
    PROVE  \E f : Chase(f, w, m)
<1> DEFINE N == Cardinality(Memory)
           S == SUBSET Someone
           F == [n \in 1 .. N |-> [s \in S |-> Further(w, s)]]
<1>0. N \in Nat
  BY GovernanceAssumption, FS_CardinalityType
<1>1. \A s \in S : Further(w, s) \in S
  BY DEF Further, Worlds, Someone
<1>2. F \in [1 .. N -> [S -> S]]
  BY <1>1
<1>10. \A n \in 1 .. N : \A s \in S : F[n][s] = Further(w, s)
  OBVIOUS
<1> HIDE DEF F
<1>3. {m} \in S
  OBVIOUS
<1> DEFINE a == {m}
<1>11. a \in S
  BY <1>3
<1> HIDE DEF S, N, a
<1>12. \E f \in [0 .. N -> S] : f[0] = a /\ \A n \in 1 .. N : f[n] = F[n][f[n - 1]]
  BY <1>0, <1>2, <1>11, RecursionExists
<1>4. PICK f \in [0 .. N -> S] : f[0] = {m} /\ \A n \in 1 .. N : f[n] = F[n][f[n - 1]]
  BY <1>12 DEF a
<1>5. \A n \in 1 .. N : f[n] = Further(w, f[n - 1])
  BY <1>0, <1>10, <1>4
<1> DEFINE e(k) == IF k = 0 THEN {m} ELSE Further(w, f[k - 1])
<1>6. \A n \in 0 .. N : f[n] = e(n)
  <2> TAKE n \in 0 .. N
  <2>1. CASE n = 0
    BY <1>4, <2>1
  <2>2. CASE n # 0
    <3>1. n \in 1 .. N
      BY <1>0, <2>2
    <3> QED BY <1>5, <2>2, <3>1
  <2> QED BY <2>1, <2>2
<1>7. f = [n \in 0 .. N |-> f[n]]
  BY <1>4
<1>8. f = [n \in 0 .. N |-> e(n)]
  <2> HIDE DEF e
  <2> QED BY <1>6, <1>7, Zenon
<1>9. Chase(f, w, m)
  BY <1>8, Zenon DEF Chase, Further, N
<1> QED BY <1>9

(* Everybody in the chain of replacements is in a closed set ...           *)
LEMMA ReplacementsWithin ==
    ASSUME NEW w \in Worlds, NEW m \in Someone, NEW S, m \in S, ClosedUnder(w, S)
    PROVE  Replacements(w, m) \subseteq S
<1> DEFINE N == Cardinality(Memory)
           g == CHOOSE f : Chase(f, w, m)
<1>1. Chase(g, w, m)
  BY ChaseExists, Zenon
<1>2. Replacements(w, m) = g[N]
  BY Zenon DEF Replacements, Chase
<1> HIDE DEF g
<1>3. N \in Nat /\ g[0] = {m} /\ \A k \in 1 .. N : g[k] = Further(w, g[k - 1])
  BY <1>1, ChaseStep
<1> HIDE DEF N
<1> DEFINE K == {k \in Nat : k <= N => g[k] \subseteq S}
<1>4. 0 \in K
  BY <1>3
<1>5. ASSUME NEW k \in Nat, k \in K PROVE k + 1 \in K
  <2> SUFFICES ASSUME k + 1 <= N PROVE g[k + 1] \subseteq S
    OBVIOUS
  <2>1. g[k] \subseteq S /\ k + 1 \in 1 .. N /\ (k + 1) - 1 = k
    BY <1>3, <1>5
  <2>2. g[k + 1] = Further(w, g[k])
    BY <1>3, <2>1
  <2> QED BY <2>1, <2>2 DEF Further, ClosedUnder
<1> HIDE DEF K
<1>6. Nat \subseteq K
  BY <1>4, <1>5, NumbersByStep
<1> QED BY <1>2, <1>3, <1>6 DEF K

(* ... so nobody is in the chain of its own replacements, if each chain    *)
(* can be closed without it.                                               *)
Acyclic(w) ==
    \A m \in Memory : w.supersededBy[m] # Nobody =>
        \E S : w.supersededBy[m] \in S /\ m \notin S /\ ClosedUnder(w, S)

LEMMA AcyclicStays ==
    ASSUME NEW w \in Worlds, Acyclic(w), NEW v \in Worlds, NEW a \in Memory, NEW b \in Memory, a # b,
           {a, b} \subseteq Active(w), v.supersededBy = [w.supersededBy EXCEPT ![b] = a]
    PROVE  Acyclic(v)
<1>1. w.supersededBy[a] = Nobody /\ w.supersededBy[b] = Nobody
  BY DEF Active, Status
<1>2. /\ v.supersededBy[b] = a
      /\ \A z \in Memory : z # b => v.supersededBy[z] = w.supersededBy[z]
  BY DEF Worlds
<1>3. Nobody \notin Memory
  BY GovernanceAssumption
<1> SUFFICES ASSUME NEW m \in Memory, v.supersededBy[m] # Nobody
             PROVE  \E S : v.supersededBy[m] \in S /\ m \notin S /\ ClosedUnder(v, S)
  BY DEF Acyclic
<1>4. CASE m = b
  <2>1. ClosedUnder(v, {a, Nobody})
    BY <1>1, <1>2, <1>3 DEF ClosedUnder
  <2>2. v.supersededBy[m] \in {a, Nobody} /\ m \notin {a, Nobody}
    BY <1>2, <1>3, <1>4
  <2> QED BY <2>1, <2>2
<1>5. CASE m # b
  <2>1. PICK S : w.supersededBy[m] \in S /\ m \notin S /\ ClosedUnder(w, S)
    BY <1>2, <1>5 DEF Acyclic
  <2> DEFINE T == S \cup {a, Nobody}
  <2>2. v.supersededBy[m] \in T
    BY <1>2, <1>5, <2>1
  <2>3. m \notin T
    BY <1>1, <1>2, <1>3, <1>5, <2>1
  <2>4. ClosedUnder(v, T)
    BY <1>1, <1>2, <1>3, <2>1 DEF ClosedUnder
  <2> HIDE DEF T
  <2> QED BY <2>2, <2>3, <2>4
<1> QED BY <1>4, <1>5

-----------------------------------------------------------------------------
(* What holds of every state of a replay that went through.                *)
Sound(w, chain, n) ==
    /\ w.conflicts \subseteq {c \in 1 .. n : chain[c].action = "add_conflict"}
    /\ Coherent(w, chain) /\ Acyclic(w)

LEMMA DoneSoundly ==
    ASSUME NEW chain, Formed(chain), NEW n \in 1 .. Len(chain), NEW w \in Worlds, NEW v \in Worlds,
           Sound(w, chain, n - 1), v.ok, Does(w, v, chain, n), Coherent(v, chain)
    PROVE  Sound(v, chain, n)
<1> DEFINE p == chain[n]
           how == p.resolution
<1>0. Len(chain) \in Nat /\ Fits(chain, n)
  BY Sequences DEF Formed
<1>1. v.conflicts \subseteq w.conflicts \/ (p.action = "add_conflict" /\ v.conflicts = w.conflicts \cup {n})
  BY DEF Does
<1>2. v.conflicts \subseteq {c \in 1 .. n : chain[c].action = "add_conflict"}
  BY <1>0, <1>1 DEF Sound
<1>3. \/ v.supersededBy = w.supersededBy
      \/ \E a, b \in Memory : a # b /\ {a, b} \subseteq Active(w)
                              /\ v.supersededBy = [w.supersededBy EXCEPT ![b] = a]
  <2>1. CASE p.action = "supersede"
    <3>1. p.replacement \in Memory /\ p.replaced \in Memory /\ p.replacement # p.replaced
      BY <1>0, <2>1 DEF Fits
    <3>2. Replaces(w, v, p.replacement, p.replaced)
      BY <2>1 DEF Does
    <3> QED BY <3>1, <3>2 DEF Replaces
  <2>2. CASE p.action = "resolve_conflict" /\ how.action = "supersede"
    <3>1. how.replacement \in Memory /\ how.replaced \in Memory /\ how.replacement # how.replaced
      BY <1>0, <2>2 DEF Fits, Ruled
    <3>2. Replaces(w, v, how.replacement, how.replaced)
      BY <2>2 DEF Does
    <3> QED BY <3>1, <3>2 DEF Replaces
  <2>3. CASE ~(p.action = "supersede") /\ ~(p.action = "resolve_conflict" /\ how.action = "supersede")
    BY <2>3 DEF Does, Same, PutsAway
  <2> QED BY <2>1, <2>2, <2>3
<1>4. Acyclic(v)
  <2>1. CASE v.supersededBy = w.supersededBy
    BY <2>1 DEF Sound, Acyclic, ClosedUnder
  <2>2. CASE \E a, b \in Memory : a # b /\ {a, b} \subseteq Active(w)
                                  /\ v.supersededBy = [w.supersededBy EXCEPT ![b] = a]
    BY <2>2, AcyclicStays DEF Sound
  <2> QED BY <1>3, <2>1, <2>2
<1> QED BY <1>2, <1>4 DEF Sound

LEMMA ReplaySound ==
    ASSUME NEW f, NEW chain, Formed(chain), NEW masked, Replaying(f, chain, masked), f[Len(chain)].ok
    PROVE  \A n \in 0 .. Len(chain) : f[n].ok /\ Sound(f[n], chain, n)
<1> DEFINE N == Len(chain)
           K == {k \in Nat : k <= N => Sound(f[k], chain, k)}
<1>0. N \in Nat
  BY Sequences DEF Formed
<1>1. \A n \in 0 .. N : f[n].ok
  BY ReplayWentWell
<1>2. 0 \in K
  <2>1. f[0] = Unruled
    BY DEF Replaying
  <2>2. Sound(Unruled, chain, 0)
    BY UnruledWorld DEF Sound, Coherent, Disputed, Acyclic
  <2> QED BY <2>1, <2>2
<1>3. ASSUME NEW k \in Nat, k \in K PROVE k + 1 \in K
  <2> SUFFICES ASSUME k + 1 <= N PROVE Sound(f[k + 1], chain, k + 1)
    OBVIOUS
  <2> DEFINE n == k + 1
  <2>1. n \in 1 .. N /\ n - 1 = k /\ Sound(f[k], chain, k) /\ n \in 0 .. N
    BY <1>0, <1>3
  <2>2. f[n - 1] \in Worlds /\ f[n] \in Worlds /\ f[n].ok /\ f[n - 1] = f[k]
    BY <1>1, <2>1, ReplayStep
  <2>3. CASE n \in masked
    <3>1. f[n] = f[k]
      BY <2>1, <2>2, <2>3, ReplayStep
    <3>2. 1 .. k \subseteq 1 .. n
      OBVIOUS
    <3> QED BY <2>1, <3>1, <3>2 DEF Sound
  <2>4. CASE n \notin masked
    <3>1. Does(f[n - 1], f[n], chain, n) /\ Coherent(f[n], chain)
      BY <2>1, <2>2, <2>4, ReplayStep
    <3>2. Sound(f[n - 1], chain, n - 1)
      BY <2>1, <2>2
    <3> HIDE DEF n
    <3> QED BY <2>1, <2>2, <3>1, <3>2, DoneSoundly DEF n
  <2> QED BY <2>3, <2>4
<1> HIDE DEF K
<1>4. Nat \subseteq K
  BY <1>2, <1>3, NumbersByStep
<1> QED BY <1>0, <1>1, <1>4 DEF K

-----------------------------------------------------------------------------
(* Chains that begin alike.                                                *)
Alike(c, d, n) == \A i \in 1 .. n : d[i] = c[i]

LEMMA DisputedAlike ==
    ASSUME NEW c, NEW d, NEW n \in Nat, Alike(c, d, n), NEW w, w.conflicts \subseteq 1 .. n
    PROVE  Disputed(w, d) = Disputed(w, c)
<1>1. \A i \in w.conflicts : d[i].pair = c[i].pair
  BY DEF Alike
<1> QED BY <1>1 DEF Disputed

LEMMA AppliedAlike ==
    ASSUME NEW c, IsSeq(c), NEW d, NEW n \in 1 .. Len(c), Fits(c, n), Alike(c, d, n),
           NEW w \in Worlds, w.conflicts \subseteq 1 .. (n - 1)
    PROVE  Applied(w, d, n) = Applied(w, c, n)
<1> DEFINE p == c[n]
           how == p.resolution
           closed == [w EXCEPT !.conflicts = @ \ {p.target}]
<1>0. n \in Nat /\ n \in 1 .. n /\ d[n] = p /\ 1 .. (n - 1) \subseteq 1 .. n
  BY Sequences DEF Alike
<1>1. \A u : u.conflicts \subseteq 1 .. n => Disputed(u, d) = Disputed(u, c)
  BY <1>0, DisputedAlike
<1>2. w.conflicts \subseteq 1 .. n /\ closed.conflicts \subseteq 1 .. n
  BY <1>0 DEF Worlds
<1>3. Disputed(w, d) = Disputed(w, c) /\ Disputed(closed, d) = Disputed(closed, c)
  BY <1>1, <1>2
<1>4. CASE p.action = "supersede"
  <2>1. \A a, b : ApplySupersede(w, d, a, b) = ApplySupersede(w, c, a, b)
    BY <1>3, Zenon DEF ApplySupersede
  <2>2. /\ Applied(w, d, n) = ApplySupersede(w, d, p.replacement, p.replaced)
        /\ Applied(w, c, n) = ApplySupersede(w, c, p.replacement, p.replaced)
    BY <1>0, <1>4 DEF Applied
  <2> QED BY <2>1, <2>2
<1>5. CASE p.action = "add_conflict"
  <2> DEFINE K(e) == /\ p.pair \subseteq Active(w) /\ \A i \in w.conflicts : e[i].pair # p.pair
             u == [w EXCEPT !.conflicts = @ \cup {n}]
  <2>1. Applied(w, d, n) = [u EXCEPT !.ok = K(d)] /\ Applied(w, c, n) = [u EXCEPT !.ok = K(c)]
    BY <1>0, <1>5 DEF Applied, Guarded
  <2>2. \A i \in w.conflicts : d[i] = c[i]
    BY <1>2 DEF Alike
  <2>3. K(d) = K(c)
    BY <2>2
  <2> HIDE DEF K, u
  <2> QED BY <2>1, <2>3, Zenon
<1>6. CASE p.action = "resolve_conflict"
  <2>1. /\ \A a, b : ApplySupersede(closed, d, a, b) = ApplySupersede(closed, c, a, b)
        /\ \A m : ApplyDeactivate(closed, d, m, n) = ApplyDeactivate(closed, c, m, n)
    <3> HIDE DEF closed
    <3> QED BY <1>3, Zenon DEF ApplySupersede, ApplyDeactivate
  <2>2. ApplyResolve(w, d, p, n) = ApplyResolve(w, c, p, n)
    <3> DEFINE rest(e) ==
          CASE how.action = "dismiss"    -> closed
            [] how.action = "supersede"  -> ApplySupersede(closed, e, how.replacement, how.replaced)
            [] how.action = "deactivate" -> ApplyDeactivate(closed, e, how.memory, n)
    <3>1. rest(d) = rest(c)
      <4> HIDE DEF closed
      <4> QED BY <2>1, Zenon
    <3>2. \A e : ApplyResolve(w, e, p, n) = IF p.target \notin w.conflicts THEN Guarded(FALSE, w) ELSE rest(e)
      BY Zenon DEF ApplyResolve
    <3> HIDE DEF rest
    <3> QED BY <3>1, <3>2
  <2>3. Applied(w, d, n) = ApplyResolve(w, d, p, n) /\ Applied(w, c, n) = ApplyResolve(w, c, p, n)
    BY <1>0, <1>6 DEF Applied
  <2> QED BY <2>2, <2>3
<1>7. CASE p.action = "deactivate"
  <2>1. \A m : ApplyDeactivate(w, d, m, n) = ApplyDeactivate(w, c, m, n)
    BY <1>3, Zenon DEF ApplyDeactivate
  <2>2. /\ Applied(w, d, n) = ApplyDeactivate(w, d, p.memory, n)
        /\ Applied(w, c, n) = ApplyDeactivate(w, c, p.memory, n)
    BY <1>0, <1>7 DEF Applied
  <2> QED BY <2>1, <2>2
<1>8. CASE p.action = "reactivate" \/ p.action = "revert"
  BY <1>0, <1>8 DEF Applied
<1> QED BY <1>4, <1>5, <1>6, <1>7, <1>8 DEF Fits

LEMMA EventAlike ==
    ASSUME NEW c, IsSeq(c), NEW d, NEW n \in 1 .. Len(c), Fits(c, n), Alike(c, d, n),
           NEW w \in Worlds, w.conflicts \subseteq 1 .. (n - 1)
    PROVE  ApplyEvent(w, d, n) = ApplyEvent(w, c, n)
<1> DEFINE u == Applied(w, c, n)
           K(e) == u.ok /\ Disputed(u, e) \subseteq Active(u)
<1>0. Applied(w, d, n) = u /\ n \in Nat
  BY AppliedAlike, Sequences
<1>1. ApplyEvent(w, c, n) = [u EXCEPT !.ok = K(c)] /\ ApplyEvent(w, d, n) = [u EXCEPT !.ok = K(d)]
  <2>1. \A e : Applied(w, e, n) = u => ApplyEvent(w, e, n) = [u EXCEPT !.ok = K(e)]
    BY DEF ApplyEvent, Guarded
  <2> QED BY <1>0, <2>1
<1>2. u \in Worlds /\ (u.ok => Does(w, u, c, n))
  BY AppliedDoes
<1> HIDE DEF u
<1>3. u.ok => u.conflicts \subseteq 1 .. n
  BY <1>0, <1>2 DEF Does
<1>4. u.ok => Disputed(u, d) = Disputed(u, c)
  BY <1>0, <1>3, DisputedAlike
<1>5. K(d) = K(c)
  BY <1>4
<1> HIDE DEF K
<1> QED BY <1>1, <1>5, Zenon

(* Chains that begin alike, and of which the same is masked, have the same *)
(* states so far.                                                          *)
LEMMA ReplayAlike ==
    ASSUME NEW c, Formed(c), NEW d, Formed(d), NEW n \in Nat, n <= Len(c), n <= Len(d), Alike(c, d, n),
           NEW M, NEW L, \A i \in 1 .. n : i \in M <=> i \in L,
           NEW f, Replaying(f, c, M), f[Len(c)].ok,
           NEW g, Replaying(g, d, L)
    PROVE  \A k \in 0 .. n : g[k] = f[k]
<1> DEFINE K == {k \in Nat : k <= n => g[k] = f[k]}
<1>0. Len(c) \in Nat /\ Len(d) \in Nat
  BY Sequences DEF Formed
<1>1. 0 \in K
  BY DEF Replaying
<1>2. ASSUME NEW k \in Nat, k \in K PROVE k + 1 \in K
  <2> SUFFICES ASSUME k + 1 <= n PROVE g[k + 1] = f[k + 1]
    OBVIOUS
  <2> DEFINE j == k + 1
  <2>1. j \in 1 .. Len(c) /\ j \in 1 .. Len(d) /\ j \in 1 .. n /\ j - 1 = k /\ g[k] = f[k] /\ k \in 0 .. Len(c)
    BY <1>0, <1>2
  <2>2. f[j] = ReplayEvent(f[k], c, M, j) /\ g[j] = ReplayEvent(f[k], d, L, j)
    BY <2>1 DEF Replaying
  <2>3. f[k].ok /\ Sound(f[k], c, k) /\ f[k] \in Worlds
    <3>1. \A i \in 0 .. Len(c) : f[i].ok /\ Sound(f[i], c, i)
      BY ONLY Formed(c), Replaying(f, c, M), f[Len(c)].ok, ReplaySound
    <3>2. f \in [0 .. Len(c) -> Worlds]
      BY DEF Replaying
    <3> QED BY ONLY <2>1, <3>1, <3>2
  <2>4. f[k].conflicts \subseteq 1 .. (j - 1) /\ Alike(c, d, j) /\ Fits(c, j)
    BY <2>1, <2>3 DEF Sound, Alike, Formed
  <2>5. ApplyEvent(f[k], d, j) = ApplyEvent(f[k], c, j)
    BY <2>1, <2>3, <2>4, EventAlike DEF Formed
  <2>6. j \in M <=> j \in L
    BY <2>1
  <2> QED BY <2>2, <2>5, <2>6 DEF ReplayEvent
<1> HIDE DEF K
<1>3. Nat \subseteq K
  BY <1>1, <1>2, NumbersByStep
<1> QED BY <1>3 DEF K

-----------------------------------------------------------------------------
(* What may be added to a chain fits.                                      *)
LEMMA FormedAppend ==
    ASSUME NEW c, Formed(c), NEW e \in Payloads(c)
    PROVE  Formed(Append(c, e)) /\ Alike(c, Append(c, e), Len(c))
<1> DEFINE d == Append(c, e)
           N == Len(c)
<1>1. IsSeq(d) /\ Len(d) = N + 1 /\ (\A i \in 1 .. N : d[i] = c[i]) /\ d[N + 1] = e
  BY Appends DEF Formed
<1>2. N \in Nat /\ DOMAIN c = 1 .. N /\ \A i \in 1 .. N : Fits(c, i)
  BY Sequences DEF Formed
<1> HIDE DEF d, N
<1>3. ASSUME NEW i \in 1 .. N PROVE Fits(d, i)
  <2>1. Fits(c, i) /\ d[i] = c[i]
    BY <1>1, <1>2
  <2>2. \A j \in 1 .. (i - 1) : d[j] = c[j]
    BY <1>1, <1>2
  <2> QED BY <2>1, <2>2 DEF Fits
<1>4. \A n \in At(c, "add_conflict") : n \in 1 .. N /\ d[n] = c[n] /\ c[n].action = "add_conflict"
                                       /\ c[n].pair \subseteq Memory
  BY <1>1, <1>2 DEF At, Fits
<1>5. Fits(d, N + 1)
  <2>0. d[N + 1] = e /\ 1 .. ((N + 1) - 1) = 1 .. N
    BY <1>1, <1>2
  <2> DEFINE Sup(S)  == {Supersede(q[1], q[2]) : q \in {q \in S \X S : q[1] # q[2]}}
             Res(S) == {Dismiss} \cup Sup(S) \cup {Deactivate(m) : m \in S}
  <2>1. \/ e \in Sup(Memory)
        \/ \E pair \in kSubset(2, Memory) : e = AddConflict(pair)
        \/ \E n \in At(c, "add_conflict") : \E how \in Res(c[n].pair) : e = Resolve(n, how)
        \/ \E m \in Memory : e = Deactivate(m)
        \/ \E n \in At(c, "deactivate") : e = Reactivate(c[n].memory, n)
        \/ \E n \in DOMAIN c \ At(c, "revert") : e = Revert(n)
    BY DEF Payloads
  <2>2. CASE e \in Sup(Memory)
    <3>1. PICK a, b : a \in Memory /\ b \in Memory /\ a # b /\ e = Supersede(a, b)
      BY <2>2
    <3> QED BY <2>0, <3>1 DEF Fits, Supersede
  <2>3. CASE \E pair \in kSubset(2, Memory) : e = AddConflict(pair)
    BY <2>0, <2>3 DEF Fits, AddConflict, kSubset
  <2>4. CASE \E n \in At(c, "add_conflict") : \E how \in Res(c[n].pair) : e = Resolve(n, how)
    <3>1. PICK n \in At(c, "add_conflict") : \E how \in Res(c[n].pair) : e = Resolve(n, how)
      BY <2>4
    <3>2. PICK how \in Res(c[n].pair) : e = Resolve(n, how)
      BY <3>1
    <3>3. \/ how = Dismiss
          \/ \E a, b \in c[n].pair : a # b /\ how = Supersede(a, b)
          \/ \E m \in c[n].pair : how = Deactivate(m)
      OBVIOUS
    <3>4. Ruled(how, c[n].pair)
      BY <3>3 DEF Ruled, Dismiss, Supersede, Deactivate
    <3>5. e.action = "resolve_conflict" /\ e.target = n /\ e.resolution = how
      BY <3>2 DEF Resolve
    <3> QED BY <1>4, <2>0, <3>4, <3>5 DEF Fits
  <2>5. CASE \E m \in Memory : e = Deactivate(m)
    BY <2>0, <2>5 DEF Fits, Deactivate
  <2>6. CASE \E n \in At(c, "deactivate") : e = Reactivate(c[n].memory, n)
    <3>1. PICK n \in At(c, "deactivate") : e = Reactivate(c[n].memory, n)
      BY <2>6
    <3>2. c[n].memory \in Memory
      BY <1>2 DEF At, Fits
    <3> QED BY <2>0, <3>1, <3>2 DEF Fits, Reactivate
  <2>7. CASE \E n \in DOMAIN c \ At(c, "revert") : e = Revert(n)
    <3>1. PICK n \in DOMAIN c \ At(c, "revert") : e = Revert(n)
      BY <2>7
    <3>2. n \in 1 .. N /\ c[n].action # "revert" /\ d[n] = c[n]
      BY <1>1, <1>2 DEF At
    <3>3. e.action = "revert" /\ e.target = n
      BY <3>1 DEF Revert
    <3>4. e.target \in 1 .. ((N + 1) - 1) /\ d[e.target].action # "revert"
      BY <2>0, <3>2, <3>3
    <3> QED BY <2>0, <3>3, <3>4 DEF Fits
  <2> QED BY <2>1, <2>2, <2>3, <2>4, <2>5, <2>6, <2>7
<1>6. \A i \in 1 .. Len(d) : i \in 1 .. N \/ i = N + 1
  BY <1>1, <1>2
<1> QED BY <1>1, <1>2, <1>3, <1>5, <1>6 DEF Formed, Alike, d, N

(* The beginning of a chain is one.                                        *)
LEMMA FormedBeginning ==
    ASSUME NEW c, Formed(c), NEW n \in 0 .. Len(c)
    PROVE  Formed(SubSeq(c, 1, n)) /\ Alike(c, SubSeq(c, 1, n), n) /\ Len(SubSeq(c, 1, n)) = n
<1> DEFINE d == SubSeq(c, 1, n)
<1>1. IsSeq(d) /\ Len(d) = n /\ (\A i \in 1 .. n : d[i] = c[i]) /\ Len(c) \in Nat
  BY Beginning, Sequences DEF Formed
<1> HIDE DEF d
<1>2. ASSUME NEW i \in 1 .. n PROVE Fits(d, i)
  <2>1. Fits(c, i) /\ d[i] = c[i] /\ \A j \in 1 .. (i - 1) : d[j] = c[j]
    BY <1>1 DEF Formed
  <2> QED BY <2>1 DEF Fits
<1> QED BY <1>1, <1>2 DEF Formed, Alike, d

(* The world of a chain that can be replayed. *)
LEMMA WorldIs ==
    ASSUME NEW c, Formed(c), World(c).ok
    PROVE  \E f : /\ Replaying(f, c, Masks(c)) /\ World(c) = f[Len(c)]
                  /\ \A n \in 0 .. Len(c) : f[n] \in Worlds /\ f[n].ok /\ Sound(f[n], c, n)
<1>1. PICK f : Replaying(f, c, Masks(c)) /\ ReplayWithMask(c, Masks(c)) = f[Len(c)]
  BY ReplayExists
<1>2. World(c) = f[Len(c)]
  BY <1>1, Zenon DEF World
<1>3. \A n \in 0 .. Len(c) : f[n].ok /\ Sound(f[n], c, n)
  BY <1>1, <1>2, ReplaySound
<1> QED BY <1>1, <1>2, <1>3 DEF Replaying

LEMMA WorldSound ==
    ASSUME NEW c, Formed(c), World(c).ok
    PROVE  World(c) \in Worlds /\ Sound(World(c), c, Len(c))
<1>1. PICK f : /\ Replaying(f, c, Masks(c)) /\ World(c) = f[Len(c)]
               /\ \A n \in 0 .. Len(c) : f[n] \in Worlds /\ f[n].ok /\ Sound(f[n], c, n)
  BY WorldIs
<1>2. Len(c) \in 0 .. Len(c)
  BY Sequences DEF Formed
<1> QED BY <1>1, <1>2

(* It can be projected, and nothing replaces itself in it.                 *)
LEMMA WorldProjects ==
    ASSUME NEW c, Formed(c), World(c).ok
    PROVE  Projects(c)
<1> DEFINE w == World(c)
<1>1. w \in Worlds /\ Sound(w, c, Len(c))
  BY WorldSound
<1>2. \A m : /\ Effective(c, m).status = Status(w, m)
             /\ Effective(c, m).conflicts = {n \in w.conflicts : m \in c[n].pair}
  BY DEF Effective
<1> HIDE DEF w
<1>3. Visible(c) = Active(w)
  BY <1>2 DEF Visible, Active
<1>4. \A n \in w.conflicts : c[n].action = "add_conflict" /\ c[n].pair \subseteq Active(w)
  BY <1>1 DEF Sound, Coherent, Disputed
<1> SUFFICES ASSUME NEW m \in Memory
             PROVE  LET e == Effective(c, m) IN
                    /\ e.conflicts # {} => e.status = "active"
                    /\ m \in Visible(c) =>
                         \A n \in e.conflicts : c[n].action = "add_conflict" /\ c[n].pair \subseteq Visible(c)
  BY DEF Projects
<1>5. Effective(c, m).conflicts # {} => Effective(c, m).status = "active"
  BY <1>2, <1>4 DEF Active
<1>6. \A n \in Effective(c, m).conflicts : c[n].action = "add_conflict" /\ c[n].pair \subseteq Visible(c)
  BY <1>2, <1>3, <1>4
<1> QED BY <1>5, <1>6

LEMMA WorldAcyclic ==
    ASSUME NEW c, Formed(c), World(c).ok, NEW m \in Memory, NEW by, by = World(c).supersededBy[m], by # Nobody
    PROVE  m \notin Replacements(World(c), by)
<1> DEFINE w == World(c)
<1>1. w \in Worlds /\ Acyclic(w)
  BY WorldSound DEF Sound
<1> HIDE DEF w
<1>2. by = w.supersededBy[m]
  BY DEF w
<1>3. PICK S : by \in S /\ m \notin S /\ ClosedUnder(w, S)
  BY <1>1, <1>2 DEF Acyclic
<1>4. by \in Someone
  BY <1>1, <1>2 DEF Worlds, Someone
<1>5. Replacements(w, by) \subseteq S
  BY <1>1, <1>3, <1>4, ReplacementsWithin
<1> QED BY <1>3, <1>5 DEF w

-----------------------------------------------------------------------------
(* A chain that is accepted is accepted with its latest event in force     *)
(* reverted: what is left was there already, and nothing comes after it.   *)
LEMMA MasksAppend ==
    ASSUME NEW c, IsSeq(c), NEW d, IsSeq(d), Len(d) = Len(c) + 1, Alike(c, d, Len(c)),
           NEW e, e = d[Len(c) + 1]
    PROVE  /\ e.action # "revert" => Masks(d) = Masks(c)
           /\ e.action = "revert" => /\ Masks(d) = Masks(c) \cup {e.target}
                                     /\ At(d, "revert") = At(c, "revert") \cup {Len(c) + 1}
<1> DEFINE N == Len(c)
<1>1. /\ N \in Nat /\ DOMAIN c = 1 .. N /\ DOMAIN d = 1 .. (N + 1)
      /\ (\A i \in 1 .. N : d[i] = c[i]) /\ d[N + 1] = e
  BY Sequences DEF Alike
<1> HIDE DEF N
<1>2. \A i : i \in 1 .. (N + 1) <=> i \in 1 .. N \/ i = N + 1
  BY <1>1
<1>3. e.action # "revert" => At(d, "revert") = At(c, "revert")
  BY <1>1, <1>2 DEF At
<1>4. e.action = "revert" => At(d, "revert") = At(c, "revert") \cup {N + 1}
  BY <1>1, <1>2 DEF At
<1>5. \A i \in At(c, "revert") : d[i].target = c[i].target
  BY <1>1 DEF At
<1>6. e.action # "revert" => Masks(d) = Masks(c)
  BY <1>3, <1>5 DEF Masks
<1>7. e.action = "revert" => Masks(d) = Masks(c) \cup {e.target}
  BY <1>1, <1>4, <1>5 DEF Masks
<1> QED BY <1>4, <1>6, <1>7 DEF N

LEMMA RevertChangesNothing ==
    ASSUME NEW w \in Worlds, w.ok, NEW c, Coherent(w, c), NEW n, c[n].action = "revert", NEW M
    PROVE  ReplayEvent(w, c, M, n) = w
<1>1. Applied(w, c, n) = w
  BY DEF Applied
<1> DEFINE k == w.ok /\ Coherent(w, c)
<1>2. ApplyEvent(w, c, n) = [w EXCEPT !.ok = k]
  BY <1>1 DEF ApplyEvent, Guarded, Coherent
<1>3. k = TRUE /\ w.ok = TRUE
  BY DEF Worlds
<1> HIDE DEF k
<1>4. [w EXCEPT !.ok = k] = w
  BY <1>3 DEF Worlds
<1> QED BY <1>2, <1>4 DEF ReplayEvent

LEMMA LatestGoesQuietly ==
    ASSUME NEW c, Formed(c), World(c).ok, NEW k \in InForce(c), \A j \in InForce(c) : j <= k,
           NEW d, Formed(d), Alike(c, d, Len(c)), Len(d) = Len(c) + 1, d[Len(c) + 1].action = "revert",
           Masks(d) = Masks(c) \cup {k}
    PROVE  World(d).ok
<1> DEFINE N == Len(c)
           M == Masks(c)
           L == M \cup {k}
<1>0. N \in Nat /\ DOMAIN c = 1 .. N /\ k \in 1 .. N /\ c[k].action # "revert" /\ k \notin M
  BY Sequences DEF Formed, InForce, At
<1>1. \A j \in 1 .. N : j > k => j \in M \/ c[j].action = "revert"
  BY <1>0 DEF InForce, At
<1>3. Formed(d) /\ Alike(c, d, N)
  OBVIOUS
<1>4. Len(d) = N + 1 /\ d[N + 1].action = "revert" /\ Masks(d) = L
  OBVIOUS
<1>5. PICK f : /\ Replaying(f, c, M) /\ World(c) = f[N]
               /\ \A n \in 0 .. N : f[n] \in Worlds /\ f[n].ok /\ Sound(f[n], c, n)
  BY WorldIs
<1>6. PICK g : Replaying(g, d, L) /\ ReplayWithMask(d, L) = g[Len(d)]
  BY <1>3, ReplayExists
<1>7. World(d) = g[N + 1]
  BY <1>4, <1>6, Zenon DEF World
<1> HIDE DEF M, L, N
<1>8. f[N].ok
  BY <1>0, <1>5
<1>9. k - 1 \in Nat /\ k - 1 <= N /\ k - 1 <= Len(d) /\ Alike(c, d, k - 1) /\ k - 1 \in 0 .. (k - 1) /\ k - 1 \in 0 .. N
  BY <1>0, <1>3, <1>4 DEF Alike
<1>10. \A i \in 1 .. (k - 1) : i \in M <=> i \in L
  BY <1>0 DEF L
<1>11. \A i \in 0 .. (k - 1) : g[i] = f[i]
  <2> DEFINE h == k - 1
  <2>1. h \in Nat /\ h <= Len(c) /\ h <= Len(d) /\ Alike(c, d, h)
    BY <1>9 DEF N
  <2>2. \A i \in 1 .. h : i \in M <=> i \in L
    BY <1>10
  <2>3. f[Len(c)].ok
    BY <1>8 DEF N
  <2>5. Replaying(f, c, M) /\ Replaying(g, d, L) /\ Formed(d)
    BY <1>3, <1>5, <1>6
  <2> HIDE DEF h
  <2>4. \A i \in 0 .. h : g[i] = f[i]
    BY <2>1, <2>2, <2>3, <2>5, ReplayAlike
  <2> QED BY <2>4 DEF h
<1> DEFINE w == f[k - 1]
<1>12. w \in Worlds /\ w.ok /\ Sound(w, c, k - 1) /\ g[k - 1] = w
  BY <1>5, <1>9, <1>11
<1> HIDE DEF w
<1>13. Coherent(w, d)
  <2>1. w.conflicts \subseteq 1 .. (k - 1)
    BY <1>12 DEF Sound
  <2>2. Disputed(w, d) = Disputed(w, c)
    BY <1>9, <2>1, DisputedAlike
  <2> QED BY <1>12, <2>2 DEF Sound, Coherent
<1>14. \A n \in 1 .. (N + 1) : g[n] = ReplayEvent(g[n - 1], d, L, n)
  BY <1>4, <1>6 DEF Replaying
<1> DEFINE K == {n \in Nat : (k - 1) + n <= N + 1 => g[(k - 1) + n] = w}
<1>15. 0 \in K
  BY <1>0, <1>12
<1>16. ASSUME NEW n \in Nat, n \in K PROVE n + 1 \in K
  <2> SUFFICES ASSUME (k - 1) + (n + 1) <= N + 1 PROVE g[(k - 1) + (n + 1)] = w
    OBVIOUS
  <2> DEFINE j == k + n
  <2>1. (k - 1) + (n + 1) = j /\ (k - 1) + n = j - 1 /\ j \in 1 .. (N + 1) /\ j >= k
    BY <1>0
  <2>2. g[j - 1] = w
    BY <1>0, <1>16, <2>1
  <2>3. g[j] = ReplayEvent(w, d, L, j)
    BY <1>14, <2>1, <2>2
  <2>4. j \in L \/ d[j].action = "revert"
    <3>1. CASE j = k
      BY <3>1 DEF L
    <3>2. CASE j = N + 1
      BY <1>4, <3>2
    <3>3. CASE j # k /\ j # N + 1
      <4>1. j \in 1 .. N /\ j > k
        BY <1>0, <2>1, <3>3
      <4>2. d[j] = c[j]
        BY <1>3, <4>1 DEF Alike
      <4> QED BY <1>1, <4>1, <4>2 DEF L
    <3> QED BY <3>1, <3>2, <3>3
  <2>5. ReplayEvent(w, d, L, j) = w
    BY <1>12, <1>13, <2>4, RevertChangesNothing DEF ReplayEvent
  <2> QED BY <2>1, <2>3, <2>5
<1> HIDE DEF K
<1>17. Nat \subseteq K
  BY <1>15, <1>16, NumbersByStep
<1>18. (N + 2) - k \in Nat /\ (k - 1) + ((N + 2) - k) = N + 1
  BY <1>0
<1>19. (N + 2) - k \in K
  BY <1>17, <1>18
<1>20. g[N + 1] = w
  BY <1>0, <1>18, <1>19 DEF K
<1> QED BY <1>7, <1>12, <1>20

(* The chain of an accepted one with a revert of what was not reverted.    *)
LEMMA AcceptsLatest ==
    ASSUME NEW c, Formed(c), Accepts(c), NEW k \in InForce(c), \A j \in InForce(c) : j <= k
    PROVE  Accepts(Append(c, Revert(k)))
<1> DEFINE N == Len(c)
           e == Revert(k)
           d == Append(c, e)
<1>0. N \in Nat /\ DOMAIN c = 1 .. N /\ k \in 1 .. N /\ c[k].action # "revert" /\ k \notin Masks(c)
  BY Sequences DEF Formed, InForce, At
<1>1. e.action = "revert" /\ e.target = k
  BY DEF Revert
<1>2. IsSeq(d) /\ Len(d) = N + 1 /\ (\A i \in 1 .. N : d[i] = c[i]) /\ d[N + 1] = e
  BY Appends DEF Formed
<1>3. /\ At(d, "revert") = At(c, "revert") \cup {N + 1} /\ Masks(d) = Masks(c) \cup {k}
      /\ At(c, "revert") \subseteq 1 .. N
  <2>1. IsSeq(c) /\ IsSeq(d) /\ Len(d) = Len(c) + 1 /\ Alike(c, d, Len(c)) /\ e = d[Len(c) + 1]
    BY <1>2 DEF Formed, Alike
  <2> HIDE DEF d, e
  <2>2. At(d, "revert") = At(c, "revert") \cup {N + 1} /\ Masks(d) = Masks(c) \cup {k}
    BY <1>1, <2>1, MasksAppend
  <2> QED BY <1>0, <2>2 DEF At
<1>4. World(d).ok
  <2>1. e \in Payloads(c)
    BY <1>0 DEF Payloads, Revert, At
  <2>2. Formed(d) /\ Alike(c, d, N)
    BY <2>1, FormedAppend
  <2>3. Masks(d) = Masks(c) \cup {k} /\ d[N + 1].action = "revert" /\ World(c).ok
    BY <1>1, <1>2, <1>3 DEF Accepts
  <2> HIDE DEF d
  <2> QED BY <1>2, <2>2, <2>3, LatestGoesQuietly
<1>5. \A n, m \in At(d, "revert") : d[n].target = d[m].target => n = m
  <2>1. \A n \in At(c, "revert") : d[n].target # k /\ d[n].target = c[n].target
    BY <1>0, <1>2, <1>3 DEF Masks
  <2>2. \A n, m \in At(c, "revert") : c[n].target = c[m].target => n = m
    BY Zenon DEF Accepts
  <2>3. d[N + 1].target = k
    BY <1>1, <1>2
  <2> HIDE DEF d, e, N
  <2> QED BY <1>3, <2>1, <2>2, <2>3
<1>6. ASSUME NEW n \in At(d, "revert") PROVE World(SubSeq(d, 1, n)).ok
  <2>1. CASE n = N + 1
    <3>1. SubSeq(d, 1, n) = d
      BY <1>0, <1>2, <2>1, Beginning
    <3> QED BY <1>4, <3>1
  <2>2. CASE n # N + 1
    <3>1. n \in At(c, "revert") /\ n \in 1 .. N
      BY <1>3, <2>2
    <3>2. SubSeq(d, 1, n) = SubSeq(c, 1, n)
      BY <3>1, PrefixesOfMore DEF Formed
    <3>3. World(SubSeq(c, 1, n)).ok
      BY <3>1, Zenon DEF Accepts
    <3> QED BY <3>2, <3>3
  <2> QED BY <2>1, <2>2
<1> HIDE DEF d
<1>7. Accepts(d)
  BY <1>4, <1>5, <1>6, Zenon DEF Accepts
<1> QED BY <1>7 DEF d

-----------------------------------------------------------------------------
(* The ledger: what is at hand is on disk, and what is switched to was     *)
(* accepted.                                                               *)
Stored(c, E) == \A n \in DOMAIN c : SubSeq(c, 1, n) \in E

CommitFields == {"pc", "snapshot", "candidate"}

CommitType ==
    /\ DOMAIN commit = Process
    /\ \A p \in Process : DOMAIN commit[p] = CommitFields

AtHand(c, E) == Formed(c) /\ Stored(c, E)

Committing(p) ==
    /\ AtHand(commit[p].snapshot, events) /\ AtHand(commit[p].candidate, events)
    /\ commit[p].pc \in {"reread", "switch"} => Accepts(commit[p].candidate)

LedgerInv ==
    /\ CommitType
    /\ AtHand(current, events) /\ Accepts(current)
    /\ \A p \in Process : Committing(p)

LEMMA EmptyChain == Formed(<<>>) /\ Accepts(<<>>) /\ \A S : \A n \in DOMAIN <<>> : SubSeq(<<>>, 1, n) \in S
<1>1. IsSeq(<<>>) /\ Len(<<>>) = 0 /\ DOMAIN <<>> = {}
  BY Sequences
<1>2. Formed(<<>>)
  BY <1>1 DEF Formed
<1>3. At(<<>>, "revert") = {}
  BY <1>1 DEF At
<1>4. PICK f : Replaying(f, <<>>, Masks(<<>>)) /\ ReplayWithMask(<<>>, Masks(<<>>)) = f[Len(<<>>)]
  BY <1>2, ReplayExists
<1>5. World(<<>>) = Unruled
  BY <1>1, <1>4 DEF World, Replaying
<1>6. World(<<>>).ok
  BY <1>5, UnruledWorld
<1> QED BY <1>1, <1>2, <1>3, <1>6 DEF Accepts

LEMMA LedgerBegins == Init => LedgerInv
<1> SUFFICES ASSUME Init PROVE LedgerInv
  OBVIOUS
<1>1. AtHand(<<>>, events)
  BY EmptyChain DEF AtHand, Stored
<1>2. CommitType
  BY DEF Init, CommitType, Away, CommitFields
<1>3. \A p \in Process : Committing(p)
  BY <1>1 DEF Init, Committing, Away
<1> QED BY <1>1, <1>2, <1>3, EmptyChain DEF Init, LedgerInv

(* No file of an event is ever removed. *)
LEMMA ChainsKept ==
    ASSUME NEW E, NEW F, E \subseteq F, NEW c, AtHand(c, E)
    PROVE  AtHand(c, F)
BY DEF AtHand, Stored

(* A step of one process that leaves CURRENT alone. *)
LEMMA OneCommits ==
    ASSUME LedgerInv, NEW p \in Process, NEW c, commit' = [commit EXCEPT ![p] = c],
           events \subseteq events', current' = current, DOMAIN c = CommitFields,
           AtHand(c.snapshot, events'), AtHand(c.candidate, events'),
           c.pc \in {"reread", "switch"} => Accepts(c.candidate)
    PROVE  LedgerInv'
<1>1. CommitType'
  BY DEF LedgerInv, CommitType
<1>2. AtHand(current, events)' /\ Accepts(current)'
  BY ChainsKept DEF LedgerInv
<1>3. commit'[p] = c /\ \A q \in Process : q # p => commit'[q] = commit[q]
  BY DEF LedgerInv, CommitType
<1>4. Committing(p)'
  BY <1>3 DEF Committing
<1>5. ASSUME NEW q \in Process, q # p PROVE Committing(q)'
  <2>1. commit'[q] = commit[q] /\ Committing(q)
    BY <1>3, <1>5 DEF LedgerInv
  <2>2. AtHand(commit[q].snapshot, events') /\ AtHand(commit[q].candidate, events')
    BY <2>1, ChainsKept DEF Committing
  <2> QED BY <2>1, <2>2 DEF Committing
<1> QED BY <1>1, <1>2, <1>4, <1>5 DEF LedgerInv

(* Whatever a process does and whenever it dies, the ledger stays one. *)
LEMMA LedgerStep ==
    ASSUME LedgerInv, [Next]_vars
    PROVE  LedgerInv'
<1> USE DEF CommitType
<1>1. CASE UNCHANGED vars
  <2>1. events' = events
    BY <1>1 DEF vars
  <2> QED BY <1>1, <2>1 DEF vars, LedgerInv, Committing
<1> SUFFICES ASSUME NEW p \in Process,
                    \/ Enter(p) \/ Leave(p) \/ ReadHead(p) \/ WriteEvent(p) \/ ReplayCandidate(p)
                    \/ Reread(p) \/ Switch(p) \/ Crash(p)
             PROVE  LedgerInv'
  BY <1>1 DEF Next
<1> DEFINE c == commit[p]
<1>2. /\ DOMAIN c = CommitFields /\ AtHand(c.snapshot, events) /\ AtHand(c.candidate, events) /\ Committing(p)
      /\ AtHand(current, events) /\ Accepts(current)
  BY DEF LedgerInv, Committing
<1>3. \A E : AtHand(<<>>, E)
  BY EmptyChain DEF AtHand, Stored
<1>4. ASSUME NEW pc, Goto(p, pc), events \subseteq events', current' = current,
             pc \in {"reread", "switch"} => Accepts(c.candidate)
      PROVE  LedgerInv'
  <2> DEFINE d == [c EXCEPT !.pc = pc]
  <2>1. DOMAIN d = CommitFields /\ d.pc = pc /\ d.snapshot = c.snapshot /\ d.candidate = c.candidate
    BY <1>2 DEF CommitFields
  <2>2. commit' = [commit EXCEPT ![p] = d]
    BY <1>4 DEF Goto, Set
  <2>3. AtHand(c.snapshot, events') /\ AtHand(c.candidate, events')
    BY <1>2, <1>4, ChainsKept
  <2> HIDE DEF d
  <2> QED BY <1>4, <2>1, <2>2, <2>3, OneCommits
<1>5. ASSUME Set(p, Away), UNCHANGED <<events, current>> PROVE LedgerInv'
  <2>1. DOMAIN Away = CommitFields /\ Away.pc = "idle" /\ Away.snapshot = <<>> /\ Away.candidate = <<>>
    BY DEF Away, CommitFields
  <2> QED BY <1>3, <1>5, <2>1, OneCommits DEF Set
<1>6. CASE Enter(p)
  <2>1. PICK pc : Goto(p, pc) /\ pc \in {"leave", "read"}
    BY <1>6 DEF Enter
  <2> QED BY <1>4, <1>6, <2>1 DEF Enter
<1>7. CASE Leave(p) \/ Crash(p)
  BY <1>5, <1>7 DEF Leave, Crash
<1>8. CASE ReadHead(p)
  <2>1. CASE Goto(p, "leave")
    BY <1>4, <1>8, <2>1 DEF ReadHead
  <2>2. CASE Set(p, [commit[p] EXCEPT !.snapshot = current, !.pc = "write"])
    <3> DEFINE d == [c EXCEPT !.snapshot = current, !.pc = "write"]
    <3>1. DOMAIN d = CommitFields /\ d.pc = "write" /\ d.snapshot = current /\ d.candidate = c.candidate
      BY <1>2 DEF CommitFields
    <3>2. commit' = [commit EXCEPT ![p] = d] /\ UNCHANGED <<events, current>>
      BY <1>8, <2>2 DEF Set, ReadHead
    <3> HIDE DEF d
    <3> QED BY <1>2, <3>1, <3>2, OneCommits
  <2> QED BY <1>8, <2>1, <2>2 DEF ReadHead
<1>9. CASE WriteEvent(p)
  <2>1. CASE Goto(p, "leave") /\ UNCHANGED events
    BY <1>4, <1>9, <2>1 DEF WriteEvent
  <2>2. CASE \E e \in Payloads(c.snapshot) :
               LET a == Append(c.snapshot, e) IN
               /\ events' = events \cup {a}
               /\ \/ Set(p, [commit[p] EXCEPT !.candidate = a, !.pc = "replay"])
                  \/ Goto(p, "leave")
    <3>1. PICK e \in Payloads(c.snapshot) :
               LET a == Append(c.snapshot, e) IN
               /\ events' = events \cup {a}
               /\ \/ Set(p, [commit[p] EXCEPT !.candidate = a, !.pc = "replay"])
                  \/ Goto(p, "leave")
      BY <2>2
    <3> DEFINE a == Append(c.snapshot, e)
               d == [c EXCEPT !.candidate = a, !.pc = "replay"]
    <3>2. events' = events \cup {a} /\ current' = current
      BY <1>9, <3>1 DEF WriteEvent
    <3>3. CASE Goto(p, "leave")
      BY <1>4, <3>2, <3>3
    <3>4. CASE Set(p, d)
      <4>1. DOMAIN d = CommitFields /\ d.pc = "replay" /\ d.snapshot = c.snapshot /\ d.candidate = a
        BY <1>2 DEF CommitFields
      <4>2. commit' = [commit EXCEPT ![p] = d]
        BY <3>4 DEF Set
      <4>3. AtHand(a, events')
        <5>1. Formed(a)
          BY <1>2, FormedAppend DEF AtHand
        <5> DEFINE s == c.snapshot
        <5>2. IsSeq(s) /\ Stored(s, events) /\ DOMAIN s = 1 .. Len(s) /\ Len(s) \in Nat
          BY <1>2, Sequences DEF AtHand, Formed
        <5>3. IsSeq(a) /\ Len(a) = Len(s) + 1 /\ DOMAIN a = 1 .. (Len(s) + 1)
          BY <5>2, Appends, Sequences
        <5>4. ASSUME NEW n \in DOMAIN a PROVE SubSeq(a, 1, n) \in events \cup {a}
          <6>1. CASE n = Len(s) + 1
            <7>1. SubSeq(a, 1, n) = a
              BY <5>2, <5>3, <6>1, Beginning
            <7> QED BY <7>1
          <6>2. CASE n # Len(s) + 1
            <7>1. n \in 1 .. Len(s)
              BY <5>2, <5>3, <6>2
            <7>2. SubSeq(a, 1, n) = SubSeq(s, 1, n)
              BY <5>2, <7>1, PrefixesOfMore
            <7> QED BY <5>2, <7>1, <7>2 DEF Stored
          <6> QED BY <6>1, <6>2
        <5> HIDE DEF a
        <5> QED BY <3>2, <5>1, <5>4 DEF AtHand, Stored
      <4>4. AtHand(c.snapshot, events')
        BY <1>2, <3>2, ChainsKept
      <4> HIDE DEF a, d
      <4> QED BY <3>2, <4>1, <4>2, <4>3, <4>4, OneCommits
    <3> QED BY <3>1, <3>3, <3>4
  <2> QED BY <1>9, <2>1, <2>2 DEF WriteEvent
<1>10. CASE ReplayCandidate(p)
  <2>1. PICK pc : Goto(p, pc) /\ (pc = "leave" \/ (pc = "reread" /\ Accepts(c.candidate)))
    BY <1>10 DEF ReplayCandidate
  <2> QED BY <1>4, <1>10, <2>1 DEF ReplayCandidate
<1>11. CASE Reread(p)
  <2>1. PICK pc : Goto(p, pc) /\ pc \in {"leave", "switch"}
    BY <1>11 DEF Reread
  <2>2. Accepts(c.candidate)
    BY <1>2, <1>11 DEF Reread, Is, Committing
  <2> QED BY <1>4, <1>11, <2>1, <2>2 DEF Reread
<1>12. CASE Switch(p)
  <2>1. current' = c.candidate /\ Accepts(c.candidate) /\ events' = events /\ Goto(p, "leave")
    BY <1>2, <1>12 DEF Switch, Is, Committing
  <2> DEFINE d == [c EXCEPT !.pc = "leave"]
  <2>2. DOMAIN d = CommitFields /\ d.pc = "leave" /\ d.snapshot = c.snapshot /\ d.candidate = c.candidate
    BY <1>2 DEF CommitFields
  <2>3. commit' = [commit EXCEPT ![p] = d]
    BY <2>1 DEF Goto, Set
  <2> HIDE DEF d
  <2>5. CommitType' /\ commit'[p] = d /\ \A q \in Process : q # p => commit'[q] = commit[q]
    BY <2>2, <2>3 DEF LedgerInv
  <2>6. AtHand(current, events)' /\ Accepts(current)'
    BY <1>2, <2>1
  <2>7. \A q \in Process : Committing(q)'
    BY <1>2, <2>1, <2>2, <2>5 DEF LedgerInv, Committing
  <2> QED BY <2>5, <2>6, <2>7 DEF LedgerInv
<1> QED BY <1>6, <1>7, <1>8, <1>9, <1>10, <1>11, <1>12

LEMMA LedgerSound == Spec => []LedgerInv
BY LedgerBegins, LedgerStep, PTL DEF Spec

(* What an accepted chain serves. *)
LEMMA Serves ==
    ASSUME LedgerInv
    PROVE  ChainServes
<1> DEFINE c == current
<1>1. Formed(c) /\ Stored(c, events) /\ Accepts(c) /\ World(c).ok
  BY DEF LedgerInv, AtHand, Accepts
<1>2. Projects(c)
  BY <1>1, WorldProjects
<1>3. \A m \in Memory : LET by == World(c).supersededBy[m] IN
         by # Nobody => m \notin Replacements(World(c), by)
  BY <1>1, WorldAcyclic
<1> DEFINE left == InForce(c)
           latest(n) == \A k \in left : k <= n
           last == CHOOSE n \in left : latest(n)
<1>4. ASSUME left # {} PROVE last \in left /\ latest(last)
  <2> DEFINE N == Len(c)
             R == {N - n : n \in left}
  <2>1. N \in Nat /\ left \subseteq 1 .. N
    BY <1>1, Sequences DEF Formed, InForce
  <2> HIDE DEF left, N
  <2>2. R \subseteq Nat /\ R # {}
    <3>1. \A n \in left : N - n \in Nat
      BY <2>1
    <3> QED BY <1>4, <3>1
  <2>3. PICK r \in R : \A k \in R : r <= k
    BY <2>2, LeastIs
  <2>4. PICK n \in left : r = N - n
    BY <2>3
  <2>5. latest(n)
    BY <2>1, <2>3, <2>4
  <2>6. \E k \in left : latest(k)
    BY <2>5
  <2> HIDE DEF latest
  <2> QED BY <2>6, Zenon
<1>5. left # {} => Accepts(Append(c, Revert(last)))
  BY <1>1, <1>4, AcceptsLatest
<1> HIDE DEF left, last
<1> QED BY <1>1, <1>2, <1>3, <1>5, Zenon DEF ChainServes, Stored, left, last

(* Whatever was committed, by processes that race, fail and die, and       *)
(* whatever was reverted out of the middle of it: see ChainServes.         *)
THEOREM ChainAlwaysServes == Spec => []ChainServes
BY LedgerSound, Serves, PTL

-----------------------------------------------------------------------------
(* A memory's state in two worlds.                                         *)
SameFor(w, v, c, m) ==
    /\ v.supersededBy[m] = w.supersededBy[m] /\ v.inactiveBy[m] = w.inactiveBy[m]
    /\ \A n \in 1 .. Len(c) : m \in c[n].pair => (n \in v.conflicts <=> n \in w.conflicts)

(* An event changes only what it is about.                                 *)
LEMMA OthersUnchanged ==
    ASSUME NEW c, Formed(c), NEW n \in 1 .. Len(c), NEW w \in Worlds, NEW v \in Worlds, Does(w, v, c, n),
           NEW m \in Memory, m \notin Footprint(c, n)
    PROVE  SameFor(w, v, c, m)
<1> DEFINE p == c[n]
           how == p.resolution
<1>0. Fits(c, n)
  BY DEF Formed
<1>1. CASE p.action = "supersede"
  <2>1. m # p.replaced
    BY <1>1 DEF Footprint, Touched
  <2> QED BY <1>1, <2>1 DEF Does, Replaces, SameFor, Worlds
<1>2. CASE p.action = "add_conflict"
  <2>1. m \notin c[n].pair
    BY <1>2 DEF Footprint, Touched
  <2>2. Same(w, v) /\ v.conflicts = w.conflicts \cup {n}
    BY <1>2 DEF Does
  <2> QED BY <2>1, <2>2 DEF SameFor, Same
<1>3. CASE p.action = "resolve_conflict"
  <2>1. m \notin c[p.target].pair
    BY <1>3 DEF Footprint
  <2>2. v.conflicts = w.conflicts \ {p.target}
    BY <1>3 DEF Does
  <2>3. Ruled(how, c[p.target].pair)
    BY <1>0, <1>3 DEF Fits
  <2>4. v.supersededBy[m] = w.supersededBy[m] /\ v.inactiveBy[m] = w.inactiveBy[m]
    <3>1. CASE how.action = "dismiss"
      BY <1>3, <3>1 DEF Does, Same
    <3>2. CASE how.action = "supersede"
      <4>1. how.replaced \in c[p.target].pair
        BY <2>3, <3>2 DEF Ruled
      <4> QED BY <1>3, <2>1, <3>2, <4>1 DEF Does, Replaces, Worlds
    <3>3. CASE how.action = "deactivate"
      <4>1. how.memory \in c[p.target].pair
        BY <2>3, <3>3 DEF Ruled
      <4> QED BY <1>3, <2>1, <3>3, <4>1 DEF Does, PutsAway, Worlds
    <3> QED BY <2>3, <3>1, <3>2, <3>3 DEF Ruled
  <2> QED BY <2>1, <2>2, <2>4 DEF SameFor
<1>4. CASE p.action = "deactivate" \/ p.action = "reactivate"
  <2>1. m # p.memory
    BY <1>4 DEF Footprint, Touched
  <2> QED BY <1>4, <2>1 DEF Does, PutsAway, SameFor, Worlds
<1>5. CASE p.action = "revert"
  BY <1>5 DEF Does, SameFor
<1> QED BY <1>0, <1>1, <1>2, <1>3, <1>4, <1>5 DEF Fits

(* It does the same in every world in which it goes through, so it makes   *)
(* no difference where there was none.                                     *)
LEMMA StaysSame ==
    ASSUME NEW c, Formed(c), NEW n \in 1 .. Len(c), NEW m \in Memory,
           NEW w \in Worlds, NEW v \in Worlds, Does(w, v, c, n),
           NEW z \in Worlds, NEW y \in Worlds, Does(z, y, c, n),
           SameFor(w, z, c, m)
    PROVE  SameFor(v, y, c, m)
<1> DEFINE p == c[n]
           how == p.resolution
<1>0. Fits(c, n)
  BY DEF Formed
<1>1. ASSUME NEW a, NEW b, Replaces(w, v, a, b), Replaces(z, y, a, b)
      PROVE  y.supersededBy[m] = v.supersededBy[m] /\ y.inactiveBy[m] = v.inactiveBy[m]
  BY <1>1 DEF Replaces, SameFor, Worlds
<1>2. ASSUME NEW k, NEW i, PutsAway(w, v, k, i), PutsAway(z, y, k, i)
      PROVE  y.supersededBy[m] = v.supersededBy[m] /\ y.inactiveBy[m] = v.inactiveBy[m]
  BY <1>2 DEF PutsAway, SameFor, Worlds
<1>3. ASSUME Same(w, v), Same(z, y)
      PROVE  y.supersededBy[m] = v.supersededBy[m] /\ y.inactiveBy[m] = v.inactiveBy[m]
  BY <1>3 DEF Same, SameFor
<1>4. y.supersededBy[m] = v.supersededBy[m] /\ y.inactiveBy[m] = v.inactiveBy[m]
  <2>1. CASE p.action = "supersede"
    BY <1>1, <2>1 DEF Does
  <2>2. CASE p.action = "add_conflict"
    BY <1>3, <2>2 DEF Does
  <2>3. CASE p.action = "resolve_conflict"
    <3>1. Ruled(how, c[p.target].pair)
      BY <1>0, <2>3 DEF Fits
    <3>2. CASE how.action = "dismiss"
      BY <1>3, <2>3, <3>2 DEF Does
    <3>3. CASE how.action = "supersede"
      BY <1>1, <2>3, <3>3 DEF Does
    <3>4. CASE how.action = "deactivate"
      BY <1>2, <2>3, <3>4 DEF Does
    <3> QED BY <3>1, <3>2, <3>3, <3>4 DEF Ruled
  <2>4. CASE p.action = "deactivate" \/ p.action = "reactivate"
    BY <1>2, <2>4 DEF Does
  <2>5. CASE p.action = "revert"
    BY <2>5 DEF Does, SameFor
  <2> QED BY <1>0, <2>1, <2>2, <2>3, <2>4, <2>5 DEF Fits
<1>5. \/ v.conflicts = w.conflicts /\ y.conflicts = z.conflicts
      \/ v.conflicts = w.conflicts \cup {n} /\ y.conflicts = z.conflicts \cup {n}
      \/ v.conflicts = w.conflicts \ {p.target} /\ y.conflicts = z.conflicts \ {p.target}
  BY <1>0 DEF Does, Fits
<1>6. \A k \in 1 .. Len(c) : m \in c[k].pair => (k \in y.conflicts <=> k \in v.conflicts)
  BY <1>5 DEF SameFor
<1> QED BY <1>4, <1>6 DEF SameFor

(* What a revert takes out of the middle made no difference to the others  *)
(* then, and makes none later.                                             *)
LEMMA RevertedApart ==
    ASSUME NEW c, Formed(c), World(c).ok, NEW d, Formed(d), World(d).ok, Alike(c, d, Len(c)),
           Len(d) = Len(c) + 1, d[Len(c) + 1].action = "revert",
           NEW k \in 1 .. Len(c), Masks(d) = Masks(c) \cup {k},
           NEW m \in Memory, m \notin Footprint(c, k)
    PROVE  SameFor(World(c), World(d), c, m)
<1> DEFINE N == Len(c)
           M == Masks(c)
           L == Masks(d)
<1>0. N \in Nat /\ Len(d) = N + 1 /\ k \in 1 .. N
  BY Sequences DEF Formed
<1>1. PICK f : /\ Replaying(f, c, M) /\ World(c) = f[N]
               /\ \A n \in 0 .. N : f[n] \in Worlds /\ f[n].ok /\ Sound(f[n], c, n)
  BY WorldIs
<1>2. PICK g : /\ Replaying(g, d, L) /\ World(d) = g[Len(d)]
               /\ \A n \in 0 .. Len(d) : g[n] \in Worlds /\ g[n].ok /\ Sound(g[n], d, n)
  BY WorldIs
<1>3. \A j \in 1 .. N : j # k => (j \in M <=> j \in L)
  OBVIOUS
<1>4. k \in L
  OBVIOUS
<1> HIDE DEF M, L, N
<1>5. \A i \in 0 .. (k - 1) : g[i] = f[i]
  <2> DEFINE h == k - 1
  <2>1. h \in Nat /\ h <= Len(c) /\ h <= Len(d) /\ Alike(c, d, h)
    BY <1>0 DEF N, Alike
  <2>2. \A i \in 1 .. h : i \in M <=> i \in L
    BY <1>0, <1>3
  <2>3. f[Len(c)].ok
    BY <1>0, <1>1 DEF N
  <2>4. Replaying(f, c, M) /\ Replaying(g, d, L)
    BY <1>1, <1>2
  <2> HIDE DEF h
  <2>5. \A i \in 0 .. h : g[i] = f[i]
    BY <2>1, <2>2, <2>3, <2>4, ReplayAlike
  <2> QED BY <2>5 DEF h
<1>6. ASSUME NEW n \in 1 .. N
      PROVE  /\ f[n - 1] \in Worlds /\ f[n] \in Worlds /\ g[n - 1] \in Worlds /\ g[n] \in Worlds
             /\ n \in M => f[n] = f[n - 1]
             /\ n \notin M => Does(f[n - 1], f[n], c, n)
             /\ n \in L => g[n] = g[n - 1]
             /\ n \notin L => Does(g[n - 1], g[n], c, n)
  <2>1. n \in 1 .. Len(c) /\ n \in 1 .. Len(d) /\ n \in 0 .. N /\ n \in 0 .. Len(d) /\ f[n].ok /\ g[n].ok
    BY <1>0, <1>1, <1>2 DEF N
  <2>2. Replaying(f, c, M) /\ Replaying(g, d, L)
    BY <1>1, <1>2
  <2>3. /\ f[n - 1] \in Worlds /\ f[n] \in Worlds
        /\ n \in M => f[n] = f[n - 1]
        /\ n \notin M => Does(f[n - 1], f[n], c, n)
    BY <2>1, <2>2, ReplayStep
  <2>4. /\ g[n - 1] \in Worlds /\ g[n] \in Worlds
        /\ n \in L => g[n] = g[n - 1]
        /\ n \notin L => Does(g[n - 1], g[n], d, n)
    BY <2>1, <2>2, ReplayStep
  <2>5. d[n] = c[n]
    BY <2>1 DEF Alike
  <2>6. Does(g[n - 1], g[n], d, n) => Does(g[n - 1], g[n], c, n)
    BY <2>5, Zenon DEF Does
  <2> QED BY <2>3, <2>4, <2>6
<1>7. \A w \in Worlds : SameFor(w, w, c, m)
  BY DEF SameFor
<1>8. SameFor(f[k], g[k], c, m)
  <2>1. g[k] = g[k - 1] /\ g[k - 1] = f[k - 1] /\ f[k] \in Worlds /\ f[k - 1] \in Worlds
    BY <1>0, <1>4, <1>5, <1>6
  <2>2. CASE k \in M
    BY <1>0, <1>6, <1>7, <2>1, <2>2
  <2>3. CASE k \notin M
    <3>1. Does(f[k - 1], f[k], c, k)
      BY <1>0, <1>6, <2>3
    <3>2. SameFor(f[k - 1], f[k], c, m)
      BY <2>1, <3>1, OthersUnchanged
    <3> QED BY <2>1, <3>2 DEF SameFor
  <2> QED BY <2>2, <2>3
<1> DEFINE K == {n \in Nat : k + n <= N => SameFor(f[k + n], g[k + n], c, m)}
<1>9. 0 \in K
  BY <1>0, <1>8
<1>10. ASSUME NEW n \in Nat, n \in K PROVE n + 1 \in K
  <2> SUFFICES ASSUME k + (n + 1) <= N PROVE SameFor(f[k + (n + 1)], g[k + (n + 1)], c, m)
    OBVIOUS
  <2> DEFINE j == k + (n + 1)
  <2>1. j \in 1 .. N /\ j - 1 = k + n /\ j # k /\ j \in 1 .. Len(c)
    BY <1>0 DEF N
  <2>2. SameFor(f[j - 1], g[j - 1], c, m)
    BY <1>0, <1>10, <2>1
  <2> HIDE DEF j
  <2>3. f[j - 1] \in Worlds /\ f[j] \in Worlds /\ g[j - 1] \in Worlds /\ g[j] \in Worlds
    BY <1>6, <2>1
  <2>4. CASE j \in M
    <3>1. f[j] = f[j - 1] /\ g[j] = g[j - 1]
      BY <1>3, <1>6, <2>1, <2>4
    <3> QED BY <2>2, <3>1 DEF j
  <2>5. CASE j \notin M
    <3>1. Does(f[j - 1], f[j], c, j) /\ Does(g[j - 1], g[j], c, j)
      BY <1>3, <1>6, <2>1, <2>5
    <3>2. SameFor(f[j], g[j], c, m)
      BY <2>1, <2>2, <2>3, <3>1, StaysSame
    <3> QED BY <3>2 DEF j
  <2> QED BY <2>4, <2>5
<1> HIDE DEF K
<1>11. Nat \subseteq K
  BY <1>9, <1>10, NumbersByStep
<1>12. N - k \in Nat /\ k + (N - k) = N
  BY <1>0
<1>13. SameFor(f[N], g[N], c, m)
  <2>1. N - k \in K
    BY <1>11, <1>12
  <2> QED BY <1>0, <1>12, <2>1 DEF K
<1>14. g[N + 1] = g[N]
  <2> DEFINE j == N + 1
  <2>1. j \in 1 .. Len(d) /\ j - 1 = N /\ j \in 0 .. Len(d) /\ d[j].action = "revert"
    BY <1>0 DEF N
  <2>2. g[j].ok /\ Replaying(g, d, L)
    BY <1>2, <2>1
  <2> HIDE DEF j
  <2>3. g[j] = g[j - 1] \/ Does(g[j - 1], g[j], d, j)
    BY <2>1, <2>2, ReplayStep
  <2>4. g[j] = g[j - 1]
    BY <2>1, <2>3 DEF Does
  <2> QED BY <2>1, <2>4 DEF j
<1> QED BY <1>0, <1>1, <1>2, <1>13, <1>14

(* An event of another kind comes last.                                    *)
LEMMA LastApart ==
    ASSUME NEW c, Formed(c), World(c).ok, NEW d, Formed(d), World(d).ok, Alike(c, d, Len(c)),
           Len(d) = Len(c) + 1, Masks(d) = Masks(c),
           NEW m \in Memory, m \notin Footprint(d, Len(d))
    PROVE  SameFor(World(c), World(d), c, m)
<1> DEFINE N == Len(c)
           M == Masks(c)
           j == Len(d)
<1>0. N \in Nat /\ j = N + 1 /\ j \in 1 .. Len(d) /\ j \in 0 .. Len(d) /\ j - 1 = N /\ N \in 0 .. Len(d)
      /\ N \in 0 .. Len(c) /\ N <= Len(d)
  BY Sequences DEF Formed
<1>1. PICK f : /\ Replaying(f, c, M) /\ World(c) = f[N]
               /\ \A n \in 0 .. N : f[n] \in Worlds /\ f[n].ok /\ Sound(f[n], c, n)
  BY WorldIs
<1>2. PICK g : /\ Replaying(g, d, M) /\ World(d) = g[j]
               /\ \A n \in 0 .. Len(d) : g[n] \in Worlds /\ g[n].ok /\ Sound(g[n], d, n)
  BY WorldIs
<1> HIDE DEF M
<1>3. g[N] = f[N]
  <2>1. Replaying(f, c, M) /\ Replaying(g, d, M)
    BY <1>1, <1>2
  <2>2. f[Len(c)].ok /\ N <= Len(c) /\ N <= Len(d) /\ Alike(c, d, N)
    BY <1>0, <1>1
  <2>3. \A i \in 1 .. N : i \in M <=> i \in M
    OBVIOUS
  <2> HIDE DEF N
  <2>4. \A i \in 0 .. N : g[i] = f[i]
    BY <1>0, <2>1, <2>2, <2>3, ReplayAlike
  <2> QED BY <1>0, <2>4
<1>4. g[j] = g[j - 1] \/ Does(g[j - 1], g[j], d, j)
  <2>1. Replaying(g, d, M) /\ g[j].ok /\ j \in 1 .. Len(d)
    BY <1>0, <1>2
  <2> HIDE DEF j
  <2> QED BY <2>1, ReplayStep
<1>5. f[N] \in Worlds /\ g[j] \in Worlds /\ g[j - 1] = f[N]
  BY <1>0, <1>1, <1>2, <1>3
<1>6. SameFor(f[N], g[j], d, m)
  <2>1. CASE g[j] = g[j - 1]
    BY <1>5, <2>1 DEF SameFor
  <2>2. CASE Does(g[j - 1], g[j], d, j)
    <3>1. Does(f[N], g[j], d, j)
      BY <1>5, <2>2
    <3> QED BY <1>0, <1>5, <3>1, OthersUnchanged
  <2> QED BY <1>4, <2>1, <2>2
<1>7. \A i \in 1 .. Len(c) : i \in 1 .. Len(d) /\ d[i] = c[i]
  BY <1>0 DEF Alike
<1> QED BY <1>1, <1>2, <1>6, <1>7 DEF SameFor

(* What is known of a memory follows from its state in the two worlds.     *)
LEMMA KnownSame ==
    ASSUME NEW c, Formed(c), World(c).ok, NEW d, Formed(d), World(d).ok, Alike(c, d, Len(c)),
           Len(d) = Len(c) + 1,
           NEW m \in Memory, m \notin Footprint(d, Len(d)), SameFor(World(c), World(d), c, m)
    PROVE  [Effective(d, m) EXCEPT !.history = {}] = [Effective(c, m) EXCEPT !.history = {}]
<1> DEFINE w == World(c)
           v == World(d)
           N == Len(c)
           Told(z, chain) == {n \in z.conflicts : m \in chain[n].pair}
           Known(z, open) == [status |-> Status(z, m), superseded_by |-> z.supersededBy[m],
                              inactive_by |-> z.inactiveBy[m], conflicts |-> open, history |-> {}]
<1>0. N \in Nat /\ Sound(w, c, N) /\ Sound(v, d, N + 1)
  BY WorldSound, Sequences DEF Formed
<1>1. /\ [Effective(c, m) EXCEPT !.history = {}] = Known(w, Told(w, c))
      /\ [Effective(d, m) EXCEPT !.history = {}] = Known(v, Told(v, d))
  <2> DEFINE Entry(s, a, b, o, h) == [status |-> s, superseded_by |-> a, inactive_by |-> b, conflicts |-> o,
                                      history |-> h]
  <2>1. \A s, a, b, o, h : [Entry(s, a, b, o, h) EXCEPT !.history = {}] = Entry(s, a, b, o, {})
    <3> TAKE s, a, b, o, h
    <3> PICK r : r = Entry(s, a, b, o, h)
      OBVIOUS
    <3>1. /\ r.status = s /\ r.superseded_by = a /\ r.inactive_by = b /\ r.conflicts = o
          /\ r = [f \in DOMAIN r |-> r[f]]
          /\ DOMAIN r = {"status", "superseded_by", "inactive_by", "conflicts", "history"}
      OBVIOUS
    <3>2. [r EXCEPT !.history = {}] = Entry(s, a, b, o, {})
      BY ONLY <3>1
    <3> QED BY <3>2
  <2>2. \A chain : Effective(chain, m) =
            Entry(Status(World(chain), m), World(chain).supersededBy[m], World(chain).inactiveBy[m],
                  Told(World(chain), chain), {n \in DOMAIN chain : m \in Footprint(chain, n)})
    BY Zenon DEF Effective
  <2>3. \A z, chain : Known(z, Told(z, chain)) =
            Entry(Status(z, m), z.supersededBy[m], z.inactiveBy[m], Told(z, chain), {})
    BY Zenon
  <2> HIDE DEF Entry, Known, Told
  <2>4. ASSUME NEW chain
        PROVE  [Effective(chain, m) EXCEPT !.history = {}] = Known(World(chain), Told(World(chain), chain))
    <3> DEFINE z == World(chain)
               h == {n \in DOMAIN chain : m \in Footprint(chain, n)}
    <3>1. Effective(chain, m) = Entry(Status(z, m), z.supersededBy[m], z.inactiveBy[m], Told(z, chain), h)
      BY <2>2, Zenon
    <3>2. Known(z, Told(z, chain)) = Entry(Status(z, m), z.supersededBy[m], z.inactiveBy[m], Told(z, chain), {})
      BY <2>3, Zenon
    <3> HIDE DEF z, h
    <3>3. [Entry(Status(z, m), z.supersededBy[m], z.inactiveBy[m], Told(z, chain), h) EXCEPT !.history = {}]
            = Entry(Status(z, m), z.supersededBy[m], z.inactiveBy[m], Told(z, chain), {})
      BY <2>1, Zenon
    <3> QED BY <3>1, <3>2, <3>3 DEF z
  <2> QED BY <2>4
<1> HIDE DEF w, v, N
<1>2. /\ v.supersededBy[m] = w.supersededBy[m] /\ v.inactiveBy[m] = w.inactiveBy[m]
      /\ \A n \in 1 .. N : m \in c[n].pair => (n \in v.conflicts <=> n \in w.conflicts)
  BY DEF SameFor, w, v, N
<1>3. Status(v, m) = Status(w, m)
  BY <1>2 DEF Status
<1>4. Told(v, d) = Told(w, c)
  <2>1. N + 1 \in v.conflicts => m \notin d[N + 1].pair
    <3>1. N + 1 \in v.conflicts => d[N + 1].action = "add_conflict"
      BY <1>0 DEF Sound
    <3>2. d[N + 1].action = "add_conflict" => Footprint(d, N + 1) = d[N + 1].pair
      BY DEF Footprint, Touched
    <3> QED BY <3>1, <3>2 DEF N
  <2>2. \A n \in 1 .. N : d[n] = c[n]
    BY DEF Alike, N
  <2>3. w.conflicts \subseteq 1 .. N /\ v.conflicts \subseteq 1 .. (N + 1)
    BY <1>0 DEF Sound
  <2>4. \A n \in v.conflicts : n \in 1 .. N \/ n = N + 1
    BY <1>0, <2>3
  <2> QED BY <1>2, <2>1, <2>2, <2>3, <2>4
<1> HIDE DEF Told
<1>5. Known(v, Told(v, d)) = Known(w, Told(w, c))
  BY <1>2, <1>3, <1>4
<1> HIDE DEF Known
<1> QED BY <1>1, <1>5

LEMMA FootprintStep ==
    ASSUME NEW c, Formed(c), Accepts(c), NEW d, Formed(d), Accepts(d),
           Len(d) = Len(c) + 1, SubSeq(d, 1, Len(c)) = c,
           NEW m \in Memory, m \notin Footprint(d, Len(d))
    PROVE  [Effective(d, m) EXCEPT !.history = {}] = [Effective(c, m) EXCEPT !.history = {}]
<1> DEFINE N == Len(c)
           e == d[N + 1]
<1>0. N \in Nat /\ World(c).ok /\ World(d).ok /\ IsSeq(c) /\ IsSeq(d)
  BY Sequences DEF Formed, Accepts
<1>1. Alike(c, d, Len(c))
  <2>1. Len(c) \in 0 .. Len(d)
    BY <1>0
  <2>2. \A i \in 1 .. Len(c) : SubSeq(d, 1, Len(c))[i] = d[i]
    BY <1>0, <2>1, Beginning
  <2> QED BY <2>2 DEF Alike
<1>2. SameFor(World(c), World(d), c, m)
  <2>1. CASE e.action # "revert"
    <3>1. Masks(d) = Masks(c)
      BY <1>0, <1>1, <2>1, MasksAppend
    <3> QED BY <1>0, <1>1, <3>1, LastApart
  <2>2. CASE e.action = "revert"
    <3> DEFINE k == e.target
    <3>1. Fits(d, N + 1) /\ (N + 1) - 1 = N
      BY <1>0 DEF Formed
    <3>2. k \in 1 .. N /\ d[k].action # "revert" /\ d[k] = c[k]
      BY <1>0, <1>1, <2>2, <3>1 DEF Fits, Alike
    <3>3. Masks(d) = Masks(c) \cup {k}
      BY <1>0, <1>1, <2>2, MasksAppend
    <3>4. Footprint(d, N + 1) = Footprint(c, k)
      <4>1. Fits(c, k)
        BY <3>2 DEF Formed
      <4>2. c[k].action = "resolve_conflict" => d[c[k].target] = c[c[k].target]
        <5>1. c[k].action = "resolve_conflict" => c[k].target \in 1 .. (k - 1)
          BY <4>1 DEF Fits
        <5>2. \A i \in 1 .. (k - 1) : i \in 1 .. Len(c)
          BY <1>0, <3>2
        <5> QED BY <1>1, <5>1, <5>2 DEF Alike
      <4>3. Footprint(d, N + 1) = IF c[k].action = "resolve_conflict" THEN d[c[k].target].pair ELSE Touched(c[k])
        BY <2>2, <3>2 DEF Footprint
      <4>4. Footprint(c, k) = IF c[k].action = "resolve_conflict" THEN c[c[k].target].pair ELSE Touched(c[k])
        BY <3>2 DEF Footprint
      <4> HIDE DEF k
      <4> QED BY ONLY <4>2, <4>3, <4>4
    <3>5. m \notin Footprint(c, k)
      BY <3>4
    <3>6. d[Len(c) + 1].action = "revert" /\ k \in 1 .. Len(c)
      BY <2>2, <3>2
    <3> HIDE DEF k
    <3> QED BY <1>0, <1>1, <3>3, <3>5, <3>6, RevertedApart
  <2> QED BY <2>1, <2>2
<1> QED BY <1>0, <1>1, <1>2, KnownSame

(* A memory's state is changed only by events that its history lists, also *)
(* by reverts: see FootprintTold.                                          *)
THEOREM FootprintIsTold == Spec => FootprintTold
<1>1. ASSUME LedgerInv, LedgerInv', [Next]_vars
      PROVE  [ Len(current') = Len(current) + 1 /\ SubSeq(current', 1, Len(current)) = current =>
                 \A m \in Memory :
                   LET Known(chain) == [Effective(chain, m) EXCEPT !.history = {}] IN
                   Known(current) # Known(current') => Len(current') \in Effective(current', m).history
             ]_current
  <2> DEFINE c == current
             d == current'
  <2>1. Formed(c) /\ Accepts(c) /\ Formed(d) /\ Accepts(d)
    BY <1>1 DEF LedgerInv, AtHand
  <2> SUFFICES ASSUME Len(d) = Len(c) + 1, SubSeq(d, 1, Len(c)) = c, NEW m \in Memory,
                      [Effective(c, m) EXCEPT !.history = {}] # [Effective(d, m) EXCEPT !.history = {}]
               PROVE  Len(d) \in Effective(d, m).history
    OBVIOUS
  <2>2. Effective(d, m).history = {n \in DOMAIN d : m \in Footprint(d, n)}
    BY DEF Effective
  <2>3. Len(d) \in DOMAIN d
    <3>1. Len(c) \in Nat /\ DOMAIN d = 1 .. Len(d)
      BY <2>1, Sequences DEF Formed
    <3> QED BY <3>1
  <2> HIDE DEF c, d
  <2>4. m \in Footprint(d, Len(d))
    BY <2>1, FootprintStep
  <2> QED BY <2>2, <2>3, <2>4
<1> QED BY <1>1, LedgerSound, PTL DEF Spec, FootprintTold

-----------------------------------------------------------------------------
(***************************************************************************)
(* PART TWO: the requests of the end-to-end harness.                       *)
(***************************************************************************)

(* The names of the runs.                                                  *)
RunNames == {"run_1", "run_2", "run_3", "run_4", "run_5", "run_6"}

LEMMA RunsNamed == /\ Range(Runs) = RunNames /\ Len(Runs) = 6
                   /\ \A i \in 1 .. 6 : Runs[i] \in RunNames
<1>1. /\ Runs = <<"run_1", "run_2", "run_3", "run_4", "run_5", "run_6">> /\ Len(Runs) = 6
      /\ DOMAIN Runs = 1 .. 6
  BY DEF Runs
<1>2. \A i \in 1 .. 6 : i = 1 \/ i = 2 \/ i = 3 \/ i = 4 \/ i = 5 \/ i = 6
  OBVIOUS
<1>3. /\ Runs[1] = "run_1" /\ Runs[2] = "run_2" /\ Runs[3] = "run_3"
      /\ Runs[4] = "run_4" /\ Runs[5] = "run_5" /\ Runs[6] = "run_6"
  BY DEF Runs
<1>4. \A i \in 1 .. 6 : Runs[i] \in RunNames
  BY <1>2, <1>3 DEF RunNames
<1>5. RunNames \subseteq {Runs[i] : i \in 1 .. 6}
  BY <1>3 DEF RunNames
<1> QED BY <1>1, <1>4, <1>5 DEF Range

-----------------------------------------------------------------------------
(* What the state consists of, as far as the ledger goes.                  *)
DiskFields == {"root", "approval", "spent", "ledger", "sidecar", "resumed", "evidence", "log", "memory"}

XFields == {"pc", "at", "status", "reason", "executed", "requests", "checks", "known", "prior",
            "report", "alone", "made", "did"}

ChildFields == {"pc", "at", "has", "session", "asks", "todo", "events", "answered", "due", "code"}

Ledgers == [claims   : [Seqs -> {NoFile, Unwritten} \cup RunNames],
            outcomes : [Seqs -> {NoFile, "completed", "error", "aborted"}]]

DiskType   == DOMAIN disk = DiskFields /\ disk.ledger \in Ledgers
XType      == /\ DOMAIN x = Execution
              /\ \A e \in Execution : DOMAIN x[e] = XFields /\ x[e].at \in Nat \ {0}
ChildType  == /\ DOMAIN child = Execution
              /\ \A e \in Execution : DOMAIN child[e] = ChildFields /\ child[e].at \in 1 .. 6
StreamType == /\ DOMAIN stream = Execution
              /\ \A e \in Execution : DOMAIN stream[e] = Stream

Claiming(e, s) == stream[e][s].pc = "write"
Calling(e, s)  == stream[e][s].pc = "called"

(* The ledger accounts for every stream and every call.                    *)
Claims ==
    \A e \in Execution, s \in Stream :
        /\ Claiming(e, s) \/ Calling(e, s) => stream[e][s].seq \in Seqs
        /\ Claiming(e, s) => /\ disk.ledger.claims[stream[e][s].seq] = Unwritten
                             /\ calls[stream[e][s].seq] = 0
        /\ Calling(e, s) => calls[stream[e][s].seq] = 1

Apart ==
    \A e, f \in Execution, s, t \in Stream :
        Claiming(e, s) /\ Claiming(f, t) /\ stream[e][s].seq = stream[f][t].seq => e = f /\ s = t

Paid ==
    \A n \in Seqs : /\ calls[n] \in {0, 1}
                    /\ calls[n] = 1 => disk.ledger.claims[n] \in RunNames
                    /\ disk.ledger.outcomes[n] # NoFile => calls[n] = 1

Accounted == disk.root = "ready" => Claims /\ Apart /\ Paid

(* Nothing runs for an execution that has not begun, and before the first  *)
(* one begins the ledger is empty.                                         *)
Rests(e) == child[e].pc = "none" /\ \A s \in Stream : stream[e][s].pc = "idle"

Beginnings ==
    /\ \A e \in Execution : x[e].pc = "idle" => Rests(e)
    /\ (\A e \in Execution : x[e].pc = "idle") =>
          calls = [n \in Seqs |-> 0] /\ disk.ledger = EmptyLedger

HInv == /\ DiskType /\ XType /\ ChildType /\ StreamType /\ DOMAIN calls = Seqs
        /\ Accounted /\ Beginnings

-----------------------------------------------------------------------------
LEMMA Initially == HarnessInit => HInv
<1> SUFFICES ASSUME HarnessInit PROVE HInv
  OBVIOUS
<1>1. EmptyLedger \in Ledgers
  BY DEF EmptyLedger, Ledgers, NoFile, Unwritten
<1>2. DiskType
  BY <1>1 DEF HarnessInit, DiskType, EmptyDisk, DiskFields
<1>3. XType
  BY DEF HarnessInit, XType, Idle, XFields
<1>4. ChildType
  BY DEF HarnessInit, ChildType, NoChild, ChildFields
<1>5. StreamType /\ \A e \in Execution : Rests(e)
  BY DEF HarnessInit, StreamType, Quiet, NoChild, Rests
<1>6. disk.root # "ready" /\ disk.ledger = EmptyLedger
  BY DEF HarnessInit, EmptyDisk
<1> QED BY <1>2, <1>3, <1>4, <1>5, <1>6 DEF HInv, Accounted, Beginnings, HarnessInit

-----------------------------------------------------------------------------
(* Most steps leave the ledger, the calls, and what streams have claimed.  *)
SameLedger == /\ DOMAIN disk' = DiskFields /\ disk'.ledger = disk.ledger
              /\ disk'.root = "ready" => disk.root = "ready"
SameX      == XType' /\ \A e \in Execution : x'[e].pc = "idle" => x[e].pc = "idle"
SameChild  == ChildType' /\ \A e \in Execution : x'[e].pc = "idle" => child'[e].pc = child[e].pc
SameStream == /\ StreamType'
              /\ \A e \in Execution, s \in Stream :
                    /\ x'[e].pc = "idle" => stream'[e][s] = stream[e][s]
                    /\ stream'[e][s].pc \in {"write", "called"} => stream'[e][s] = stream[e][s]

LEMMA Kept ==
    ASSUME HInv, SameLedger, SameX, SameChild, SameStream, UNCHANGED calls
    PROVE  HInv'
<1>1. DiskType'
  BY DEF HInv, SameLedger, DiskType
<1>2. XType' /\ ChildType' /\ StreamType' /\ DOMAIN calls' = Seqs
  BY DEF HInv, SameX, SameChild, SameStream
<1>3. ASSUME disk'.root = "ready" PROVE Claims' /\ Apart' /\ Paid'
  <2>1. Claims /\ Apart /\ Paid
    BY <1>3 DEF SameLedger, HInv, Accounted
  <2>2. \A e \in Execution, s \in Stream :
            (Claiming(e, s) \/ Calling(e, s))' => stream'[e][s] = stream[e][s]
    BY DEF SameStream, Claiming, Calling
  <2>3. Claims'
    BY <2>1, <2>2 DEF Claims, Claiming, Calling, SameLedger
  <2>4. Apart'
    BY <2>1, <2>2 DEF Apart, Claiming, Calling
  <2>5. Paid'
    BY <2>1 DEF Paid, SameLedger
  <2> QED BY <2>3, <2>4, <2>5
<1>4. \A e \in Execution : x'[e].pc = "idle" => Rests(e)'
  BY DEF SameX, SameChild, SameStream, Rests, HInv, Beginnings
<1>5. (\A e \in Execution : x'[e].pc = "idle") =>
          calls' = [n \in Seqs |-> 0] /\ disk'.ledger = EmptyLedger
  BY DEF SameX, SameLedger, HInv, Beginnings
<1> QED BY <1>1, <1>2, <1>3, <1>4, <1>5 DEF HInv, Accounted, Beginnings

LEMMA UnchangedIsSame ==
    /\ HInv /\ UNCHANGED disk => SameLedger
    /\ HInv /\ UNCHANGED x => SameX
    /\ HInv /\ UNCHANGED child => SameChild
    /\ HInv /\ UNCHANGED stream => SameStream
<1>1. HInv /\ UNCHANGED disk => SameLedger
  BY DEF HInv, DiskType, SameLedger
<1>2. HInv /\ UNCHANGED x => SameX
  BY DEF HInv, XType, SameX
<1>3. HInv /\ UNCHANGED child => SameChild
  BY DEF HInv, ChildType, SameChild
<1>4. HInv /\ UNCHANGED stream => SameStream
  BY DEF HInv, StreamType, SameStream
<1> QED BY <1>1, <1>2, <1>3, <1>4

LEMMA BecomesSame ==
    ASSUME HInv, NEW e \in Execution, NEW m, DOMAIN m = XFields, m.at \in Nat \ {0},
           m.pc # "idle" \/ m.pc = x[e].pc, Becomes(e, m)
    PROVE  SameX
  BY DEF HInv, XType, SameX, Becomes

LEMMA ChildSame ==
    ASSUME HInv, NEW e \in Execution, NEW c, DOMAIN c = ChildFields, c.at \in 1 .. 6,
           x'[e].pc # "idle", child' = [child EXCEPT ![e] = c]
    PROVE  SameChild
  BY DEF HInv, ChildType, SameChild

-----------------------------------------------------------------------------
(* Preparation, and what happens around the executions.                    *)
LEMMA AroundKeeps ==
    ASSUME HInv, PrepareFails \/ Approve \/ Expire \/ \E thing \in Thing : Tamper(thing)
    PROVE  HInv'
<1>1. CASE PrepareFails
  <2>1. SameLedger
    BY <1>1 DEF PrepareFails, HInv, DiskType, DiskFields, SameLedger
  <2> QED BY <1>1, <2>1, Kept, UnchangedIsSame DEF PrepareFails
<1>2. CASE Approve
  <2>1. SameLedger
    BY <1>2 DEF Approve, HInv, DiskType, DiskFields, SameLedger
  <2> QED BY <1>2, <2>1, Kept, UnchangedIsSame DEF Approve
<1>3. CASE Expire
  BY <1>3, Kept, UnchangedIsSame DEF Expire
<1>4. CASE \E thing \in Thing : Tamper(thing)
  BY <1>4, Kept, UnchangedIsSame DEF Tamper
<1> QED BY <1>1, <1>2, <1>3, <1>4

(* The root is prepared before any execution begins.                       *)
LEMMA PrepareRootKeeps == ASSUME HInv, PrepareRoot PROVE HInv'
<1>1. /\ DOMAIN disk' = DiskFields /\ disk'.ledger = disk.ledger
  BY DEF PrepareRoot, HInv, DiskType, DiskFields
<1>2. UNCHANGED <<x, child, stream, calls>>
  BY DEF PrepareRoot
<1>3. /\ calls = [n \in Seqs |-> 0] /\ disk.ledger = EmptyLedger
      /\ \A e \in Execution : Rests(e)
  BY DEF PrepareRoot, AtStep, HInv, Beginnings
<1>4. Claims' /\ Apart'
  BY <1>2, <1>3 DEF Claims, Apart, Rests, Claiming, Calling
<1>5. Paid'
  BY <1>1, <1>2, <1>3 DEF Paid, EmptyLedger
<1>6. DiskType'
  BY <1>1 DEF DiskType, HInv
<1>7. XType' /\ ChildType' /\ StreamType' /\ Beginnings' /\ DOMAIN calls' = Seqs
  BY <1>1, <1>2 DEF HInv, XType, ChildType, StreamType, Beginnings, Rests
<1> QED BY <1>4, <1>5, <1>6, <1>7 DEF HInv, Accounted

-----------------------------------------------------------------------------
(* The steps of an execution.                                              *)
LEMMA OnlyXKeeps ==
    ASSUME HInv, NEW e \in Execution,
           Precheck(e) \/ RunEnds(e) \/ VerifyWiring(e) \/ Judge(e) \/ Sum(e) \/ Die(e)
    PROVE  HInv'
<1>0. x[e].at \in Nat \ {0} /\ DOMAIN x[e] = XFields
  BY DEF HInv, XType
<1>f. \A reason : Fails(e, reason) => SameX
  BY <1>0, BecomesSame DEF Fails, XFields
<1>c. DOMAIN Counted(e) = XFields /\ Counted(e).at \in Nat \ {0} /\ Counted(e).pc = "next"
  BY <1>0 DEF Counted, XFields
<1>1. CASE Precheck(e)
  <2>1. SameX
    BY <1>0, <1>1, BecomesSame DEF Precheck, XFields
  <2> QED BY <1>1, <2>1, Kept, UnchangedIsSame DEF Precheck
<1>2. CASE RunEnds(e)
  <2>1. SameX
    BY <1>0, <1>2, <1>f, BecomesSame DEF RunEnds, XFields
  <2> QED BY <1>2, <2>1, Kept, UnchangedIsSame DEF RunEnds
<1>3. CASE VerifyWiring(e)
  <2>1. ASSUME Becomes(e, [x[e] EXCEPT !.pc = "judge"]) PROVE SameX
    BY <1>0, <2>1, BecomesSame DEF XFields
  <2>2. ASSUME Becomes(e, Counted(e)) PROVE SameX
    BY <1>c, <2>2, BecomesSame
  <2>3. SameX
    BY <1>3, <1>f, <2>1, <2>2 DEF VerifyWiring
  <2> QED BY <1>3, <2>3, Kept, UnchangedIsSame DEF VerifyWiring
<1>4. CASE Judge(e)
  <2>1. ASSUME NEW checks,
               Becomes(e, [x[e] EXCEPT !.pc = "clean", !.status = "fail",
                              !.reason = "product_invariant_failed", !.checks = checks])
        PROVE  SameX
    BY <1>0, <2>1, BecomesSame DEF XFields
  <2>2. ASSUME NEW checks, NEW prior, NEW known,
               Becomes(e, [Counted(e) EXCEPT !.checks = checks, !.prior = prior, !.known = known])
        PROVE  SameX
    BY <1>c, <2>2, BecomesSame DEF XFields
  <2>3. ASSUME NEW checks,
               Becomes(e, [x[e] EXCEPT !.pc = "sum", !.status = "fail",
                              !.reason = "product_invariant_failed", !.checks = checks])
        PROVE  SameX
    BY <1>0, <2>3, BecomesSame DEF XFields
  <2>4. SameX
    BY <1>4, <1>f, <2>1, <2>2, <2>3 DEF Judge
  <2> QED BY <1>4, <2>4, Kept, UnchangedIsSame DEF Judge
<1>5. CASE Sum(e)
  <2>1. ASSUME NEW n, NEW status, NEW why, NEW checks,
               Becomes(e, [x[e] EXCEPT !.pc = "clean", !.requests = n, !.status = status,
                              !.reason = why, !.checks = checks])
        PROVE  SameX
    BY <1>0, <2>1, BecomesSame DEF XFields
  <2>2. SameX
    BY <1>5, <2>1 DEF Sum
  <2> QED BY <1>5, <2>2, Kept, UnchangedIsSame DEF Sum
<1>6. CASE Die(e)
  <2>1. SameX
    BY <1>0, <1>6, BecomesSame DEF Die, XFields
  <2> QED BY <1>6, <2>1, Kept, UnchangedIsSame DEF Die
<1> QED BY <1>1, <1>2, <1>3, <1>4, <1>5, <1>6

LEMMA ClaimApprovalKeeps ==
    ASSUME HInv, NEW e \in Execution, ClaimApproval(e) PROVE HInv'
<1>0. \A o \in Execution : x[o].at \in Nat \ {0} /\ DOMAIN x[o] = XFields
  BY DEF HInv, XType
<1>1. SameX
  <2>1. CASE Becomes(e, [x[e] EXCEPT !.pc = "refused"])
    BY <1>0, <2>1, BecomesSame DEF XFields
  <2>2. ASSUME NEW alone,
               x' = [o \in Execution |->
                        IF o = e THEN [x[e] EXCEPT !.pc = "next", !.alone = alone]
                        ELSE [x[o] EXCEPT !.alone = FALSE]]
        PROVE  SameX
    <3>1. \A o \in Execution :
              /\ DOMAIN x'[o] = XFields /\ x'[o].at = x[o].at
              /\ x'[o].pc = "idle" => x[o].pc = "idle"
      BY <1>0, <2>2 DEF XFields
    <3> QED BY <1>0, <2>2, <3>1 DEF SameX, XType
  <2> QED BY <2>1, <2>2 DEF ClaimApproval
<1>2. SameLedger
  <2>1. CASE disk' = [disk EXCEPT !.spent = @ \cup {asked[e].approval}]
    BY <2>1 DEF HInv, DiskType, DiskFields, SameLedger
  <2> QED BY <2>1, UnchangedIsSame DEF ClaimApproval
<1> QED BY <1>1, <1>2, Kept, UnchangedIsSame DEF ClaimApproval

LEMMA NextRunKeeps == ASSUME HInv, NEW e \in Execution, NextRun(e) PROVE HInv'
<1>0. x[e].at \in Nat \ {0} /\ DOMAIN x[e] = XFields
  BY DEF HInv, XType
<1>1. SameX
  <2>1. \A reason : Fails(e, reason) => SameX
    BY <1>0, BecomesSame DEF Fails, XFields
  <2>2. \A pc : pc # "idle" /\ Becomes(e, [x[e] EXCEPT !.pc = pc]) => SameX
    BY <1>0, BecomesSame DEF XFields
  <2> QED BY <2>1, <2>2 DEF NextRun
<1>2. SameChild
  <2>1. CASE UNCHANGED child
    BY <2>1, UnchangedIsSame
  <2>2. CASE ~UNCHANGED child
    <3>1. /\ child' = [child EXCEPT ![e] = [NoChild EXCEPT !.pc = "start", !.at = x[e].at]]
          /\ Becomes(e, [x[e] EXCEPT !.pc = "running"]) /\ ~(x[e].at > Len(Runs))
      BY <2>2 DEF NextRun
    <3>2. x[e].at \in 1 .. 6
      BY <1>0, <3>1, RunsNamed
    <3>3. x'[e].pc # "idle"
      BY <1>0, <3>1 DEF HInv, XType, Becomes, XFields
    <3> DEFINE c == [NoChild EXCEPT !.pc = "start", !.at = x[e].at]
    <3>4. DOMAIN c = ChildFields /\ c.at \in 1 .. 6
      BY <3>2 DEF NoChild, ChildFields
    <3> HIDE DEF c
    <3> QED BY <3>1, <3>3, <3>4, ChildSame DEF c
  <2> QED BY <2>1, <2>2
<1> QED BY <1>1, <1>2, Kept, UnchangedIsSame DEF NextRun

(* Nothing goes on for an execution that has not begun.                    *)
LEMMA Busy ==
    ASSUME HInv, NEW e \in Execution,
           child[e].pc # "none" \/ \E s \in Stream : stream[e][s].pc # "idle"
    PROVE  x[e].pc # "idle"
  BY DEF HInv, Beginnings, Rests

LEMMA ClosedSame ==
    ASSUME HInv, NEW e \in Execution, NEW code, Closed(e, code), x'[e].pc # "idle"
    PROVE  SameChild /\ SameStream
<1>1. SameChild
  <2>1. \A o \in Execution :
            /\ DOMAIN child'[o] = ChildFields /\ child'[o].at = child[o].at
            /\ o # e => child'[o] = child[o]
    BY DEF Closed, HInv, ChildType, ChildFields
  <2> QED BY <2>1 DEF Closed, HInv, ChildType, SameChild
<1>2. SameStream
  BY DEF Closed, Quiet, HInv, StreamType, SameStream
<1> QED BY <1>1, <1>2

LEMMA RunTimesOutKeeps == ASSUME HInv, NEW e \in Execution, RunTimesOut(e) PROVE HInv'
<1>0. x[e].at \in Nat \ {0} /\ DOMAIN x[e] = XFields
  BY DEF HInv, XType
<1>1. SameX /\ x'[e].pc # "idle"
  <2>1. Fails(e, "dsh_compatibility_failed")
    BY DEF RunTimesOut
  <2>2. SameX
    BY <1>0, <2>1, BecomesSame DEF Fails, XFields
  <2>3. x'[e].pc = "sum"
    BY <1>0, <2>1 DEF Fails, Becomes, XFields, HInv, XType
  <2> QED BY <2>2, <2>3
<1>2. SameChild /\ SameStream
  <2>1. CASE Closed(e, 1)
    BY <1>1, <2>1, ClosedSame
  <2>2. CASE UNCHANGED <<child, stream>>
    BY <2>2, UnchangedIsSame
  <2> QED BY <2>1, <2>2 DEF RunTimesOut
<1> QED BY <1>1, <1>2, Kept, UnchangedIsSame DEF RunTimesOut

(* The root is gone, or is not whole: nothing is claimed of its ledger.    *)
LEMMA CleanUpKeeps == ASSUME HInv, NEW e \in Execution, CleanUp(e) PROVE HInv'
<1>0. x[e].at \in Nat \ {0} /\ DOMAIN x[e] = XFields
  BY DEF HInv, XType
<1>1. SameX /\ x'[e].pc = "done"
  <2>1. PICK checks, report :
             Becomes(e, [x[e] EXCEPT !.pc = "done", !.checks = checks, !.report = report])
    BY DEF CleanUp
  <2>2. SameX
    BY <1>0, <2>1, BecomesSame DEF XFields
  <2>3. x'[e].pc = "done"
    BY <1>0, <2>1 DEF Becomes, XFields, HInv, XType
  <2> QED BY <2>2, <2>3
<1>2. UNCHANGED <<child, stream, calls>>
  BY DEF CleanUp
<1>3. PICK clean \in BOOLEAN : Removal(clean)
  BY DEF CleanUp
<1>4. CASE clean
  <2>1. disk' = EmptyDisk
    BY <1>3, <1>4 DEF Removal
  <2>2. EmptyLedger \in Ledgers
    BY DEF EmptyLedger, Ledgers, NoFile, Unwritten
  <2>3. DiskType' /\ disk'.root # "ready"
    BY <2>1, <2>2 DEF EmptyDisk, DiskType, DiskFields
  <2>4. XType' /\ ChildType' /\ StreamType' /\ DOMAIN calls' = Seqs
    BY <1>1, <1>2 DEF SameX, HInv, ChildType, StreamType
  <2>5. \A o \in Execution : x'[o].pc = "idle" => Rests(o)'
    BY <1>1, <1>2 DEF SameX, HInv, Beginnings, Rests
  <2> QED BY <1>1, <2>3, <2>4, <2>5 DEF HInv, Accounted, Beginnings
<1>5. CASE ~clean
  <2>1. SameLedger
    BY <1>3, <1>5 DEF Removal, SameLedger, HInv, DiskType, DiskFields
  <2> QED BY <1>1, <1>2, <2>1, Kept, UnchangedIsSame
<1> QED BY <1>4, <1>5

LEMMA ExecutesKeeps == ASSUME HInv, NEW e \in Execution, Executes(e) PROVE HInv'
  BY OnlyXKeeps, ClaimApprovalKeeps, NextRunKeeps, RunTimesOutKeeps, CleanUpKeeps DEF Executes

-----------------------------------------------------------------------------
(* The steps of the agents that do not touch the ledger.                   *)
Harmless(d) == /\ DOMAIN d = DiskFields /\ d.ledger = disk.ledger
               /\ d.root = "ready" => disk.root = "ready"

LEMMA HarmlessWrites ==
    /\ HInv => Harmless(disk)
    /\ \A d : Harmless(d) => Harmless(Made(d))
    /\ \A d : \A e \in Execution : Harmless(d) => Harmless(Evident(e, d)) /\ Harmless(Logged(e, d))
    /\ Harmless(disk') => SameLedger
<1>1. HInv => Harmless(disk)
  BY DEF HInv, DiskType, Harmless
<1>2. ASSUME NEW d, Harmless(d) PROVE Harmless(Made(d))
  BY <1>2 DEF Harmless, Made, DiskFields
<1>3. ASSUME NEW d, NEW e \in Execution, Harmless(d) PROVE Harmless(Evident(e, d))
  <2>1. \A ev : Harmless([Made(d) EXCEPT !.evidence[RunOf(e)] = ev])
    BY <1>2, <1>3 DEF Harmless, DiskFields
  <2> QED BY <1>3, <2>1 DEF Evident
<1>4. ASSUME NEW d, NEW e \in Execution, Harmless(d) PROVE Harmless(Logged(e, d))
  <2>1. \A told : Harmless([d EXCEPT !.log[child[e].session[1]] = told])
    BY <1>4 DEF Harmless, DiskFields
  <2> QED BY <1>4, <2>1 DEF Logged
<1>5. Harmless(disk') => SameLedger
  BY DEF Harmless, SameLedger
<1> QED BY <1>1, <1>2, <1>3, <1>4, <1>5

LEMMA OverSame ==
    ASSUME HInv, NEW e \in Execution, NEW code, x'[e].pc # "idle", Child(e, Over(child[e], code))
    PROVE  SameChild
<1>1. DOMAIN Over(child[e], code) = ChildFields /\ Over(child[e], code).at \in 1 .. 6
  BY DEF HInv, ChildType, ChildFields, Over
<1> QED BY <1>1, ChildSame DEF Child

LEMMA LoadKeeps == ASSUME HInv, NEW e \in Execution, Load(e) PROVE HInv'
<1>0. x[e].pc # "idle" /\ x' = x
  BY Busy DEF Load
<1>1. ASSUME NEW heard, NEW sess, NEW asks, NEW todo, NEW told,
             Child(e, [child[e] EXCEPT !.pc = "live", !.has = heard, !.session = sess,
                          !.asks = asks, !.todo = todo, !.events = told])
      PROVE  SameChild
  <2> DEFINE c == [child[e] EXCEPT !.pc = "live", !.has = heard, !.session = sess,
                                   !.asks = asks, !.todo = todo, !.events = told]
  <2>1. DOMAIN c = ChildFields /\ c.at \in 1 .. 6
    BY DEF HInv, ChildType, ChildFields
  <2>2. child' = [child EXCEPT ![e] = c]
    BY <1>1 DEF Child
  <2> HIDE DEF c
  <2> QED BY <1>0, <2>1, <2>2, ChildSame
<1>2. SameChild
  <2>1. \/ Child(e, Over(child[e], 1))
        \/ \E heard, sess, asks, todo, told :
               Child(e, [child[e] EXCEPT !.pc = "live", !.has = heard, !.session = sess,
                            !.asks = asks, !.todo = todo, !.events = told])
    <3> DEFINE wanted == IF Resumed(child[e].at) THEN {"sidecar", "driver"} ELSE {"sidecar"}
               plans  == Plans(asked[e].level, RunOf(e))
               heard(has) == IF SidecarRefused(e) THEN has \ {"sidecar"} ELSE has
               first == disk.evidence["run_1"].session
               lives(has, i) == [child[e] EXCEPT !.pc = "live", !.has = heard(has),
                                    !.session = IF "driver" \in has THEN first ELSE <<e, RunOf(e)>>,
                                    !.asks = plans[i].asks, !.todo = plans[i].todo,
                                    !.events = IF "driver" \in has THEN disk.log[first[1]] ELSE <<>>]
    <3>1. PICK has \in SUBSET wanted, i \in DOMAIN plans :
              IF disk.root = "none" \/ ("driver" \in has /\ DriverRefused(e))
              THEN Child(e, Over(child[e], 1))
              ELSE Child(e, lives(has, i)) \/ (heard(has) # has /\ Child(e, Over(child[e], 1)))
      BY Zenon DEF Load
    <3>2. Child(e, Over(child[e], 1)) \/ Child(e, lives(has, i))
      BY <3>1
    <3> QED BY <3>2, Zenon
  <2> QED BY <1>0, <1>1, <2>1, OverSame
<1>3. SameLedger
  <2>1. \A runs : Harmless([disk EXCEPT !.sidecar = runs])
    BY HarmlessWrites DEF Harmless, DiskFields
  <2>2. Harmless(disk')
    BY <2>1, HarmlessWrites DEF Load
  <2> QED BY <2>2, HarmlessWrites
<1> QED BY <1>2, <1>3, Kept, UnchangedIsSame DEF Load

LEMMA LookKeeps ==
    ASSUME HInv, NEW e \in Execution, NEW s \in Stream, Look(e, s) PROVE HInv'
<1>0. x[e].pc # "idle" /\ x[e].at \in Nat \ {0} /\ DOMAIN x[e] = XFields
  BY Busy DEF Look, Live, HInv, XType
<1>1. SameX /\ x'[e].pc # "idle"
  <2>1. CASE UNCHANGED x
    BY <1>0, <2>1, UnchangedIsSame
  <2>2. CASE Counts(e)
    <3>1. SameX
      BY <1>0, <2>2, BecomesSame DEF Counts, XFields
    <3>2. x'[e].pc = x[e].pc
      BY <1>0, <2>2 DEF Counts, Becomes, XFields, HInv, XType
    <3> QED BY <1>0, <3>1, <3>2
  <2> QED BY <2>1, <2>2 DEF Look
<1>2. SameChild
  <2>1. \A c : DOMAIN c = ChildFields /\ c.at = child[e].at /\ Child(e, c) => SameChild
    BY <1>1, ChildSame DEF Child, HInv, ChildType
  <2>2. PICK asks, answered :
             Child(e, [child[e] EXCEPT !.asks = asks, !.answered = answered])
             \/ Child(e, [child[e] EXCEPT !.asks = asks])
    BY DEF Look
  <2>3. /\ DOMAIN [child[e] EXCEPT !.asks = asks, !.answered = answered] = ChildFields
        /\ [child[e] EXCEPT !.asks = asks, !.answered = answered].at = child[e].at
        /\ DOMAIN [child[e] EXCEPT !.asks = asks] = ChildFields
        /\ [child[e] EXCEPT !.asks = asks].at = child[e].at
    BY DEF HInv, ChildType, ChildFields
  <2> QED BY <2>1, <2>2, <2>3
<1>3. SameStream
  <2>1. CASE UNCHANGED stream
    BY <2>1, UnchangedIsSame
  <2>2. CASE \E n : Moves(e, s, "claim", n)
    BY <1>1, <2>2 DEF Moves, HInv, StreamType, SameStream
  <2> QED BY <2>1, <2>2 DEF Look
<1>4. SameLedger
  BY HarmlessWrites DEF Look
<1> QED BY <1>1, <1>2, <1>3, <1>4, Kept DEF Look

(* A request that is passed by changes what the agent knows. *)
LEMMA PassByKeeps == ASSUME HInv, NEW e \in Execution, PassBy(e) PROVE HInv'
<1>1. /\ x[e].pc # "idle" /\ Child(e, [child[e] EXCEPT !.answered = TRUE])
      /\ UNCHANGED <<asked, disk, tampered, late, x, stream, calls>>
  BY Busy DEF PassBy, Live, HInv, XType
<1>2. SameX /\ SameStream /\ SameLedger
  BY <1>1, UnchangedIsSame
<1>3. SameChild
  <2>1. /\ DOMAIN [child[e] EXCEPT !.answered = TRUE] = ChildFields
        /\ [child[e] EXCEPT !.answered = TRUE].at = child[e].at
    BY DEF HInv, ChildType, ChildFields
  <2> QED BY <1>1, <2>1, ChildSame DEF Child, HInv, ChildType
<1> QED BY <1>1, <1>2, <1>3, Kept DEF PassBy

LEMMA ChildSteps ==
    ASSUME HInv, NEW e \in Execution, x'[e].pc # "idle", NEW c,
           DOMAIN c = ChildFields, c.at = child[e].at, Child(e, c)
    PROVE  SameChild
  BY ChildSame DEF Child, HInv, ChildType

LEMMA StepKeeps == ASSUME HInv, NEW e \in Execution, Step(e) PROVE HInv'
<1>0. x'[e].pc # "idle" /\ UNCHANGED <<x, stream, calls>>
  BY Busy DEF Step, Live
<1>1. \A world, p : Harmless([disk EXCEPT !.memory[p] = world])
  BY HarmlessWrites DEF Harmless, DiskFields
<1> DEFINE Fields(c) == DOMAIN c = ChildFields /\ c.at = child[e].at
<1>2. /\ \A todo : Fields([child[e] EXCEPT !.todo = todo])
      /\ \A todo, due, told :
            Fields([[child[e] EXCEPT !.todo = todo] EXCEPT !.due = due, !.events = told])
      /\ \A todo, told : Fields([[child[e] EXCEPT !.todo = todo] EXCEPT !.events = told])
  BY DEF HInv, ChildType, ChildFields
<1>3. \A c : Fields(c) /\ Child(e, c) => SameChild
  BY <1>0, ChildSteps
<1> HIDE DEF Fields
<1>4. SameChild /\ SameLedger
  <2>1. CASE Head(child[e].todo).tool = "capture"
    <3> DEFINE p  == ProjectOf(child[e].at)
               w  == Remember(disk.memory[p], child[e].session, Head(child[e].todo).ref.m)
    <3>1. /\ disk' = [disk EXCEPT !.memory[p] = w]
          /\ Child(e, [child[e] EXCEPT !.todo = Tail(child[e].todo)])
      BY <2>1 DEF Step
    <3> HIDE DEF p, w
    <3> QED BY <1>1, <1>2, <1>3, <3>1, HarmlessWrites
  <2>2. CASE Head(child[e].todo).tool = "end"
    BY <1>1, <1>2, <1>3, <2>2, HarmlessWrites DEF Step
  <2>3. CASE Head(child[e].todo).tool \notin {"capture", "end"}
    <3> DEFINE todo   == Head(child[e].todo)
               p      == ProjectOf(child[e].at)
               reply  == Answer(disk.memory[p], child[e].session, todo)
               told == child[e].events \o
                   <<[kind |-> "call", call |-> todo],
                     [kind |-> "result", id |-> todo.id, reply |->
                         [ok |-> reply.ok, status |-> reply.status, refs |-> reply.refs]]>>
               rest   == [child[e] EXCEPT !.todo = Tail(child[e].todo)]
    <3>1. /\ disk' = [disk EXCEPT !.memory[p] = reply.world]
          /\ Child(e, [rest EXCEPT !.events = rest.events \o
                   <<[kind |-> "call", call |-> todo],
                     [kind |-> "result", id |-> todo.id, reply |->
                         [ok |-> reply.ok, status |-> reply.status, refs |-> reply.refs]]>>])
      BY <2>3 DEF Step
    <3>2. rest.events = child[e].events
      BY DEF HInv, ChildType, ChildFields
    <3>3. Child(e, [[child[e] EXCEPT !.todo = Tail(child[e].todo)] EXCEPT !.events = told])
      BY <3>1, <3>2
    <3> HIDE DEF todo, p, reply, told
    <3> QED BY <1>1, <1>2, <1>3, <3>1, <3>3, HarmlessWrites
  <2> QED BY <2>1, <2>2, <2>3
<1> QED BY <1>0, <1>4, Kept, UnchangedIsSame

LEMMA FlushKeeps == ASSUME HInv, NEW e \in Execution, Flush(e) PROVE HInv'
<1>0. x'[e].pc # "idle" /\ UNCHANGED <<x, stream, calls>>
  BY Busy DEF Flush, Live
<1>1. SameLedger
  BY HarmlessWrites DEF Flush
<1>2. SameChild
  <2> DEFINE c == [child[e] EXCEPT !.due = FALSE]
  <2>1. DOMAIN c = ChildFields /\ c.at = child[e].at /\ Child(e, c)
    BY DEF Flush, HInv, ChildType, ChildFields
  <2> QED BY <1>0, <2>1, ChildSteps
<1> QED BY <1>0, <1>1, <1>2, Kept, UnchangedIsSame

LEMMA ReceiptKeeps == ASSUME HInv, NEW e \in Execution, Receipt(e) PROVE HInv'
<1>0. x'[e].pc # "idle" /\ UNCHANGED <<x, stream, calls>>
  BY Busy DEF Receipt, Finished, Live
<1> DEFINE d == Logged(e, Evident(e, disk))
           c == [child[e] EXCEPT !.pc = "closing"]
<1>1. Harmless(d)
  BY HarmlessWrites
<1>2. \A session : Harmless([Made(d) EXCEPT !.resumed[RunOf(e)] = session])
  BY <1>1, HarmlessWrites DEF Harmless, DiskFields
<1>3. DOMAIN c = ChildFields /\ c.at = child[e].at
  BY DEF HInv, ChildType, ChildFields
<1>4. \/ disk' = d /\ Child(e, Over(child[e], 1))
      \/ disk' = [Made(d) EXCEPT !.resumed[RunOf(e)] = child[e].session] /\ Child(e, c)
  BY DEF Receipt
<1> HIDE DEF d, c
<1>5. SameLedger
  BY <1>1, <1>2, <1>4, HarmlessWrites
<1>6. SameChild
  BY <1>0, <1>3, <1>4, OverSame, ChildSteps
<1> QED BY <1>0, <1>5, <1>6, Kept, UnchangedIsSame

LEMMA ExitKeeps == ASSUME HInv, NEW e \in Execution, Exit(e) PROVE HInv'
<1>0. x'[e].pc # "idle" /\ UNCHANGED <<x, calls>>
  BY Busy DEF Exit
<1>1. SameLedger
  BY HarmlessWrites DEF Exit
<1>2. PICK code \in {0, 1} : Closed(e, code)
  BY DEF Exit
<1> QED BY <1>0, <1>1, <1>2, ClosedSame, Kept, UnchangedIsSame

-----------------------------------------------------------------------------
(* The steps of a request.                                                 *)
LEMMA MovedStream ==
    ASSUME HInv, NEW e \in Execution, NEW s \in Stream, NEW pc, NEW n, Moves(e, s, pc, n)
    PROVE  /\ StreamType' /\ stream'[e][s].pc = pc /\ stream'[e][s].seq = n
           /\ \A f \in Execution, t \in Stream : f # e \/ t # s => stream'[f][t] = stream[f][t]
  BY DEF HInv, StreamType, Moves

LEMMA CreateKeeps ==
    ASSUME HInv, NEW e \in Execution, NEW s \in Stream, Create(e, s) PROVE HInv'
<1>0. x[e].pc # "idle" /\ UNCHANGED <<x, child, calls>>
  BY Busy DEF Create
<1>1. CASE UNCHANGED disk
  <2>1. \E pc, n : pc \in {"idle", "write"} /\ Moves(e, s, pc, n)
    BY DEF Create
  <2>2. CASE Moves(e, s, "idle", 0)
    <3>1. SameStream
      BY <1>0, <2>2, MovedStream DEF SameStream
    <3> QED BY <1>0, <1>1, <3>1, Kept, UnchangedIsSame
  <2>3. CASE ~Moves(e, s, "idle", 0)
    <3>1. PICK n \in Free(disk.ledger) : disk' = [disk EXCEPT !.ledger.claims[n] = Unwritten]
      BY <2>3 DEF Create, Lowest
    <3>2. disk.ledger.claims[n] = NoFile
      BY <3>1 DEF Free, Created
    <3>3. disk'.ledger.claims[n] = Unwritten
      BY <3>1 DEF HInv, DiskType, DiskFields, Ledgers, Free
    <3> QED BY <1>1, <3>2, <3>3 DEF NoFile, Unwritten
  <2> QED BY <2>2, <2>3
<1>2. CASE ~UNCHANGED disk
  <2>1. PICK n \in Free(disk.ledger) :
             /\ disk' = [disk EXCEPT !.ledger.claims[n] = Unwritten]
             /\ Moves(e, s, "write", n)
    BY <1>2 DEF Create, Lowest
  <2>2. n \in Seqs /\ disk.ledger.claims[n] = NoFile
    BY <2>1 DEF Free, Created
  <2>3. /\ DOMAIN disk' = DiskFields /\ disk'.root = disk.root /\ disk'.ledger \in Ledgers
        /\ disk'.ledger.claims = [disk.ledger.claims EXCEPT ![n] = Unwritten]
        /\ disk'.ledger.outcomes = disk.ledger.outcomes
    BY <2>1, <2>2 DEF HInv, DiskType, DiskFields, Ledgers
  <2>4. /\ disk'.ledger.claims[n] = Unwritten
        /\ \A k \in Seqs : k # n => disk'.ledger.claims[k] = disk.ledger.claims[k]
    BY <2>2, <2>3 DEF HInv, DiskType, Ledgers
  <2>5. ASSUME disk'.root = "ready" PROVE Claims' /\ Apart' /\ Paid'
    <3>1. Claims /\ Apart /\ Paid
      BY <2>3, <2>5 DEF HInv, Accounted
    <3>2. calls[n] = 0
      BY <2>2, <3>1 DEF Paid, NoFile, RunNames
    <3>3. \A f \in Execution, t \in Stream : Claiming(f, t) => stream[f][t].seq # n
      BY <2>2, <3>1 DEF Claims, NoFile, Unwritten
    <3>4. Claims'
      BY <1>0, <2>1, <2>2, <2>4, <3>1, <3>2, <3>3, MovedStream DEF Claims, Claiming, Calling
    <3>5. Apart'
      BY <2>1, <3>1, <3>3, MovedStream DEF Apart, Claiming
    <3>6. Paid'
      BY <1>0, <2>2, <2>3, <2>4, <3>1, <3>2 DEF Paid
    <3> QED BY <3>4, <3>5, <3>6
  <2>6. Beginnings'
    BY <1>0, <2>1, MovedStream DEF HInv, Beginnings, Rests
  <2> QED BY <1>0, <2>1, <2>3, <2>5, <2>6, MovedStream DEF HInv, DiskType, XType, ChildType, Accounted
<1> QED BY <1>1, <1>2

LEMMA WriteKeeps ==
    ASSUME HInv, NEW e \in Execution, NEW s \in Stream, Write(e, s) PROVE HInv'
<1> DEFINE n == stream[e][s].seq
<1>0. /\ Claiming(e, s) /\ x[e].pc # "idle" /\ UNCHANGED child
      /\ x[e].at \in Nat \ {0} /\ DOMAIN x[e] = XFields
  BY Busy DEF Write, Claiming, HInv, XType
<1>1. SameX /\ x'[e].pc # "idle"
  <2>1. Counts(e)
    BY DEF Write
  <2>2. SameX
    BY <1>0, <2>1, BecomesSame DEF Counts, XFields
  <2>3. x'[e].pc = x[e].pc
    BY <1>0, <2>1 DEF Counts, Becomes, XFields, HInv, XType
  <2> QED BY <1>0, <2>2, <2>3
<1>2. RunOf(e) \in RunNames
  BY RunsNamed DEF RunOf, HInv, ChildType
<1>3. /\ DOMAIN disk' = DiskFields /\ disk'.root = disk.root /\ disk'.ledger \in Ledgers
      /\ disk'.ledger.outcomes = disk.ledger.outcomes
      /\ disk'.ledger.claims =
            [disk.ledger.claims EXCEPT ![n] = IF @ = Unwritten THEN RunOf(e) ELSE @]
  BY <1>2 DEF Write, HInv, DiskType, DiskFields, Ledgers
<1>4. calls' = [calls EXCEPT ![n] = @ + 1] /\ Moves(e, s, "called", n) /\ DOMAIN calls' = Seqs
  BY DEF Write, HInv
<1>5. ASSUME disk'.root = "ready" PROVE Claims' /\ Apart' /\ Paid'
  <2>1. Claims /\ Apart /\ Paid
    BY <1>3, <1>5 DEF HInv, Accounted
  <2>2. n \in Seqs /\ disk.ledger.claims[n] = Unwritten /\ calls[n] = 0
    BY <1>0, <2>1 DEF Claims
  <2>3. /\ calls'[n] = 1 /\ disk'.ledger.claims[n] = RunOf(e)
        /\ \A k \in Seqs : k # n => /\ calls'[k] = calls[k]
                                    /\ disk'.ledger.claims[k] = disk.ledger.claims[k]
    BY <1>3, <1>4, <2>2 DEF HInv, DiskType, Ledgers
  <2>4. \A f \in Execution, t \in Stream :
            (f # e \/ t # s) /\ Claiming(f, t) => stream[f][t].seq # n
    BY <1>0, <2>1 DEF Apart
  <2>5. Claims'
    BY <1>4, <2>1, <2>2, <2>3, <2>4, MovedStream DEF Claims, Claiming, Calling
  <2>6. Apart'
    BY <1>4, <2>1, MovedStream DEF Apart, Claiming
  <2>7. Paid'
    BY <1>2, <1>3, <2>1, <2>2, <2>3 DEF Paid
  <2> QED BY <2>5, <2>6, <2>7
<1>6. Beginnings'
  BY <1>0, <1>1, <1>4, MovedStream DEF SameX, HInv, Beginnings, Rests
<1> QED BY <1>0, <1>1, <1>3, <1>4, <1>5, <1>6, MovedStream DEF HInv, DiskType, SameX, ChildType, Accounted

LEMMA FinishKeeps ==
    ASSUME HInv, NEW e \in Execution, NEW s \in Stream, Finish(e, s) PROVE HInv'
<1> DEFINE n == stream[e][s].seq
<1>0. Calling(e, s) /\ x[e].pc # "idle" /\ UNCHANGED <<x, calls>>
  BY Busy DEF Finish, Calling
<1>1. PICK outcome \in {"completed", "error", "aborted"} :
         /\ disk' = [Made(disk) EXCEPT !.ledger.outcomes[n] = IF @ = NoFile THEN outcome ELSE @]
         /\ Child(e, [child[e] EXCEPT !.answered = @ \/ outcome = "completed", !.due = TRUE])
  BY DEF Finish
<1>2. Moves(e, s, "idle", 0)
  BY DEF Finish
<1>3. /\ DOMAIN Made(disk) = DiskFields /\ Made(disk).ledger = disk.ledger
      /\ Made(disk).root = "ready" => disk.root = "ready"
  BY HarmlessWrites DEF Harmless
<1>4. /\ DOMAIN disk' = DiskFields /\ disk'.ledger \in Ledgers
      /\ disk'.root = "ready" => disk.root = "ready"
      /\ disk'.ledger.claims = disk.ledger.claims
      /\ disk'.ledger.outcomes =
            [disk.ledger.outcomes EXCEPT ![n] = IF @ = NoFile THEN outcome ELSE @]
  <2> HIDE DEF n
  <2> QED BY <1>1, <1>3 DEF HInv, DiskType, DiskFields, Ledgers
<1>5. SameChild
  <2> DEFINE c == [child[e] EXCEPT !.answered = @ \/ outcome = "completed", !.due = TRUE]
  <2>1. DOMAIN c = ChildFields /\ c.at = child[e].at /\ Child(e, c)
    BY <1>1 DEF HInv, ChildType, ChildFields
  <2> QED BY <1>0, <2>1, ChildSteps
<1>6. ASSUME disk'.root = "ready" PROVE Claims' /\ Apart' /\ Paid'
  <2>1. Claims /\ Apart /\ Paid
    BY <1>4, <1>6 DEF HInv, Accounted
  <2>2. n \in Seqs /\ calls[n] = 1
    BY <1>0, <2>1 DEF Claims
  <2>3. \A k \in Seqs : k # n => disk'.ledger.outcomes[k] = disk.ledger.outcomes[k]
    BY <1>4, <2>2 DEF HInv, DiskType, Ledgers
  <2>4. Claims'
    <3>1. /\ stream'[e][s].pc = "idle"
          /\ \A f \in Execution, t \in Stream : f # e \/ t # s => stream'[f][t] = stream[f][t]
      BY <1>2, MovedStream
    <3>2. calls' = calls /\ disk'.ledger.claims = disk.ledger.claims
      BY <1>0, <1>4
    <3> QED BY ONLY <2>1, <3>1, <3>2 DEF Claims, Claiming, Calling
  <2>5. Apart'
    BY <1>2, <2>1, MovedStream DEF Apart, Claiming
  <2>6. Paid'
    BY <1>0, <1>4, <2>1, <2>2, <2>3 DEF Paid
  <2> QED BY <2>4, <2>5, <2>6
<1>7. Beginnings'
  BY <1>0, <1>2, <1>5, MovedStream DEF SameChild, HInv, Beginnings, Rests
<1> QED BY <1>0, <1>2, <1>4, <1>5, <1>6, <1>7, MovedStream
        DEF HInv, DiskType, XType, SameChild, Accounted

LEMMA AgentKeeps == ASSUME HInv, NEW e \in Execution, Agent(e) PROVE HInv'
  BY LoadKeeps, StepKeeps, FlushKeeps, ReceiptKeeps, ExitKeeps,
     PassByKeeps, LookKeeps, CreateKeeps, WriteKeeps, FinishKeeps DEF Agent

-----------------------------------------------------------------------------
LEMMA Stutters == ASSUME HInv, UNCHANGED harnessVars PROVE HInv'
  BY Kept, UnchangedIsSame DEF harnessVars

LEMMA Inductive == ASSUME HInv, [HarnessNext]_harnessVars PROVE HInv'
<1>1. CASE PrepareFails \/ Approve \/ Expire \/ \E thing \in Thing : Tamper(thing)
  BY <1>1, AroundKeeps
<1>2. CASE PrepareRoot
  BY <1>2, PrepareRootKeeps
<1>3. CASE \E e \in Execution : Executes(e) \/ Agent(e)
  BY <1>3, ExecutesKeeps, AgentKeeps
<1>4. CASE UNCHANGED harnessVars
  BY <1>4, Stutters
<1> QED BY <1>1, <1>2, <1>3, <1>4 DEF HarnessNext

LEMMA InvariantHolds == HInv => BudgetHolds
<1>1. HInv /\ disk.root = "ready" => Paid
  BY DEF HInv, Accounted
<1> QED BY <1>1, RunsNamed DEF BudgetHolds, Paid

(* While the root stands, no number of the ledger ever serves two calls to *)
(* a model, a call made under a number has the claim of a run, and an      *)
(* outcome has a call: for all executions of the harness, all streams of   *)
(* their agents, and every limit of requests (claimLlmRequest,             *)
(* recordLlmOutcome).  Calls without a number, of an agent without its     *)
(* sidecar or of requests the sidecar passes by, are not spoken of.        *)
THEOREM BudgetIsBound == HarnessSpec => []BudgetHolds
<1>1. HarnessSpec => []HInv
  BY Initially, Inductive, PTL DEF HarnessSpec
<1> QED BY <1>1, InvariantHolds, PTL

-----------------------------------------------------------------------------
(***************************************************************************)
(* PART THREE: a report that passes was earned.                            *)
(***************************************************************************)

(* The evidence of a run is about what was said in its session.            *)
Says(said, tool, ref) ==
    \E i \in DOMAIN said : said[i].kind = "call" /\ said[i].call.tool = tool /\ said[i].call.ref = ref

Backed(ev, session, said) ==
    /\ ev.session = session /\ IsSeq(ev.execs)
    /\ \A k \in DOMAIN ev.execs : Says(said, ev.execs[k].tool, ev.execs[k].ref)

(* What was said is not taken back. *)
LEMMA SaysMore ==
    ASSUME NEW s, IsSeq(s), NEW t, NEW tool, NEW ref, Says(s, tool, ref),
           \/ IsSeq(t) /\ \E u : IsSeq(u) /\ t = s \o u
           \/ \E v : t = Append(s, v)
    PROVE  Says(t, tool, ref)
<1>1. PICK i \in 1 .. Len(s) : s[i].kind = "call" /\ s[i].call.tool = tool /\ s[i].call.ref = ref
  BY Sequences DEF Says
<1>2. IsSeq(t) /\ Len(t) \in Nat /\ Len(s) \in Nat /\ Len(t) >= Len(s) /\ t[i] = s[i]
  <2>1. ASSUME NEW u, IsSeq(u), t = s \o u
        PROVE  IsSeq(t) /\ Len(t) = Len(s) + Len(u) /\ Len(u) \in Nat /\ t[i] = s[i]
    BY <1>1, <2>1, Concatenations, Sequences
  <2>2. ASSUME NEW v, t = Append(s, v)
        PROVE  IsSeq(t) /\ Len(t) = Len(s) + 1 /\ t[i] = s[i]
    BY <1>1, <2>2, Appends
  <2> QED BY <2>1, <2>2, Sequences
<1>3. i \in DOMAIN t
  BY <1>2, Sequences
<1> QED BY <1>1, <1>2, <1>3 DEF Says

(* And so evidence stays backed. *)
LEMMA BackedMore ==
    ASSUME NEW s, IsSeq(s), NEW t, NEW ev, NEW session, Backed(ev, session, s),
           \/ IsSeq(t) /\ \E u : IsSeq(u) /\ t = s \o u
           \/ \E v : t = Append(s, v)
    PROVE  Backed(ev, session, t)
<1>1. \A tool, ref : Says(s, tool, ref) => Says(t, tool, ref)
  BY SaysMore
<1> QED BY <1>1 DEF Backed

-----------------------------------------------------------------------------
(* The events folded into executions, one after the other.                 *)
Folded(a, said, n) ==
    a = [i \in 0 .. n |-> IF i = 0 THEN Start
                          ELSE LET b == a[i - 1] IN IF b.bad THEN b ELSE Taken(b, said[i])]

FoldFields == {"pending", "done", "execs", "turns", "bad"}

FoldSays(b, said) ==
    /\ DOMAIN b = FoldFields /\ IsSeq(b.execs)
    /\ \A c \in b.pending : Says(said, c.tool, c.ref)
    /\ \A k \in DOMAIN b.execs : Says(said, b.execs[k].tool, b.execs[k].ref)

(* One event more. *)
LEMMA TakenSays ==
    ASSUME NEW b, NEW said, FoldSays(b, said), NEW i \in DOMAIN said
    PROVE  FoldSays(IF b.bad THEN b ELSE Taken(b, said[i]), said)
<1> DEFINE event == said[i]
<1>1. FoldSays(Bad(b), said)
  <2>1. DOMAIN Bad(b) = FoldFields /\ Bad(b).execs = b.execs /\ Bad(b).pending = b.pending
    BY DEF FoldSays, FoldFields, Bad
  <2> QED BY <2>1 DEF FoldSays
<1>2. CASE event.kind = "call"
  <2> DEFINE c == [b EXCEPT !.pending = {o \in b.pending : o.id # event.call.id} \cup {event.call}]
  <2>1. DOMAIN c = FoldFields /\ c.execs = b.execs
        /\ c.pending = {o \in b.pending : o.id # event.call.id} \cup {event.call}
    BY DEF FoldSays, FoldFields
  <2>2. Says(said, event.call.tool, event.call.ref)
    BY <1>2 DEF Says
  <2>3. Taken(b, event) = Bad(b) \/ Taken(b, event) = c
    BY <1>2 DEF Taken
  <2> HIDE DEF c, event
  <2>4. FoldSays(c, said)
    BY <2>1, <2>2 DEF FoldSays
  <2> QED BY <1>1, <2>3, <2>4 DEF event
<1>3. CASE event.kind = "end"
  <2> DEFINE c == [b EXCEPT !.turns = b.turns + 1]
  <2>1. DOMAIN c = FoldFields /\ c.execs = b.execs /\ c.pending = b.pending
    BY DEF FoldSays, FoldFields
  <2>2. Taken(b, event) = c
    BY <1>3 DEF Taken
  <2> HIDE DEF c, event
  <2>3. FoldSays(c, said)
    BY <2>1 DEF FoldSays
  <2> QED BY <2>2, <2>3 DEF event
<1>4. CASE event.kind \notin {"call", "end"}
  <2> DEFINE mine == {c \in b.pending : c.id = event.id}
             call == CHOOSE c \in mine : TRUE
             done == Projection(call, event.reply)
             c == [b EXCEPT !.pending = b.pending \ mine, !.done = b.done \cup {event.id},
                            !.execs = Append(b.execs, done)]
  <2>1. Taken(b, event) = Bad(b) \/ (mine # {} /\ Taken(b, event) = c)
    BY <1>4 DEF Taken
  <2>2. DOMAIN c = FoldFields /\ c.execs = Append(b.execs, done) /\ c.pending = b.pending \ mine
    BY DEF FoldSays, FoldFields
  <2>3. mine # {} => call \in b.pending
    OBVIOUS
  <2>4. done.tool = call.tool /\ done.ref = call.ref
    BY DEF Projection
  <2> HIDE DEF done, call, mine, c, event
  <2>5. mine # {} => FoldSays(c, said)
    <3> SUFFICES ASSUME mine # {} PROVE FoldSays(c, said)
      OBVIOUS
    <3>1. Says(said, done.tool, done.ref)
      BY <2>3, <2>4 DEF FoldSays
    <3>2. IsSeq(b.execs) /\ \A k \in 1 .. Len(b.execs) : Says(said, b.execs[k].tool, b.execs[k].ref)
      BY Sequences DEF FoldSays
    <3>3. IsSeq(c.execs) /\ DOMAIN c.execs = 1 .. Len(b.execs) + 1
      BY <2>2, <3>2, Appends, Sequences
    <3>4. ASSUME NEW k \in DOMAIN c.execs PROVE Says(said, c.execs[k].tool, c.execs[k].ref)
      <4>1. CASE k \in 1 .. Len(b.execs)
        BY <2>2, <3>2, <4>1, Appends
      <4>2. CASE k = Len(b.execs) + 1
        BY <2>2, <3>1, <3>2, <4>2, Appends
      <4>3. Len(b.execs) \in Nat
        BY <3>2, Sequences
      <4> QED BY <3>3, <4>1, <4>2, <4>3
    <3> QED BY <2>2, <3>3, <3>4 DEF FoldSays
  <2> QED BY <1>1, <2>1, <2>5 DEF event
<1> QED BY <1>2, <1>3, <1>4

(* The fold exists. *)
LEMMA FoldExists ==
    ASSUME NEW said, NEW n \in Nat
    PROVE  \E a : Folded(a, said, n)
<1> DEFINE N == {k \in Nat : \E a : Folded(a, said, k)}
           More(b, i) == IF b.bad THEN b ELSE Taken(b, said[i])
<1>1. 0 \in N
  <2> DEFINE a == [i \in 0 .. 0 |-> Start]
             e(i) == IF i = 0 THEN Start ELSE More(a[i - 1], i)
  <2>1. \A i \in 0 .. 0 : e(i) = Start
    <3>1. \A i \in 0 .. 0 : i = 0
      OBVIOUS
    <3> QED BY <3>1, Zenon
  <2>2. a = [i \in 0 .. 0 |-> e(i)]
    <3>1. a = [i \in 0 .. 0 |-> Start]
      OBVIOUS
    <3> HIDE DEF a, e
    <3> QED BY <2>1, <3>1
  <2>3. Folded(a, said, 0)
    <3> HIDE DEF a
    <3> QED BY <2>2, Zenon DEF Folded
  <2> HIDE DEF a
  <2> QED BY <2>3
<1>2. ASSUME NEW k \in Nat, k \in N PROVE k + 1 \in N
  <2>1. PICK f : Folded(f, said, k)
    BY <1>2
  <2> DEFINE m(i) == IF i = 0 THEN Start ELSE More(f[i - 1], i)
             g == [i \in 0 .. (k + 1) |-> IF i = k + 1 THEN More(f[k], k + 1) ELSE f[i]]
             h(i) == IF i = 0 THEN Start ELSE More(g[i - 1], i)
  <2>2. f = [i \in 0 .. k |-> m(i)]
    BY <2>1, Zenon DEF Folded
  <2>3. \A i \in 0 .. k : f[i] = m(i)
    <3> HIDE DEF m
    <3> QED BY <2>2
  <2>4. /\ g[k + 1] = More(f[k], k + 1) /\ g[k] = f[k]
        /\ \A i \in 0 .. k : g[i] = f[i]
    <3> HIDE DEF More
    <3> QED OBVIOUS
  <2>5. \A i \in 0 .. (k + 1) : g[i] = h(i)
    <3> TAKE i \in 0 .. (k + 1)
    <3>1. CASE i = 0
      <4>1. f[0] = m(0)
        BY <2>3
      <4>2. g[0] = f[0]
        BY <2>4
      <4> HIDE DEF g
      <4> QED BY <3>1, <4>1, <4>2, Zenon
    <3>2. CASE i = k + 1
      <4>1. i # 0 /\ i - 1 = k /\ g[i] = More(f[k], i) /\ g[i - 1] = f[k]
        <5> HIDE DEF More, g
        <5> QED BY <2>4, <3>2
      <4> HIDE DEF More, g
      <4>2. h(i) = More(g[i - 1], i)
        BY <4>1, Zenon
      <4> QED BY <4>1, <4>2
    <3>3. CASE i # 0 /\ i # k + 1
      <4>1. i \in 0 .. k /\ g[i] = f[i] /\ g[i - 1] = f[i - 1]
        <5> HIDE DEF More, g
        <5> QED BY <2>4, <3>3
      <4>2. f[i] = m(i) /\ i # 0
        BY <2>3, <4>1, <3>3, Zenon
      <4> HIDE DEF More, g
      <4>3. m(i) = More(f[i - 1], i) /\ h(i) = More(g[i - 1], i)
        BY <4>2, Zenon
      <4> QED BY <4>1, <4>2, <4>3
    <3> QED BY <3>1, <3>2, <3>3
  <2>6. g = [i \in 0 .. (k + 1) |-> h(i)]
    <3>1. g = [i \in 0 .. (k + 1) |-> g[i]]
      <4> HIDE DEF More
      <4> QED OBVIOUS
    <3> HIDE DEF g, h
    <3> QED BY <2>5, <3>1
  <2>7. Folded(g, said, k + 1)
    <3> HIDE DEF g
    <3> QED BY <2>6, Zenon DEF Folded
  <2>8. k + 1 \in Nat
    OBVIOUS
  <2> HIDE DEF g
  <2> QED BY <2>7, <2>8, Zenon
<1> HIDE DEF N
<1>3. Nat \subseteq N
  BY <1>1, <1>2, NumbersByStep
<1> QED BY <1>3 DEF N

(* What has been folded was said. *)
LEMMA FoldedSays ==
    ASSUME NEW said, IsSeq(said), NEW a, Folded(a, said, Len(said))
    PROVE  FoldSays(a[Len(said)], said)
<1> DEFINE N == {k \in Nat : k <= Len(said) => FoldSays(a[k], said)}
           More(b, i) == IF b.bad THEN b ELSE Taken(b, said[i])
           m(i) == IF i = 0 THEN Start ELSE More(a[i - 1], i)
<1>0. \A i \in 0 .. Len(said) : a[i] = m(i)
  <2>1. a = [i \in 0 .. Len(said) |-> m(i)]
    BY Zenon DEF Folded
  <2> HIDE DEF m
  <2> QED BY <2>1
<1>1. 0 \in N
  <2>1. Len(said) \in Nat
    BY Sequences
  <2>2. a[0] = m(0)
    BY <1>0, <2>1
  <2>3. m(0) = Start
    BY Zenon
  <2>4. FoldSays(Start, said)
    BY Sequences DEF Start, FoldSays, FoldFields
  <2> QED BY <2>2, <2>3, <2>4
<1>2. ASSUME NEW k \in Nat, k \in N PROVE k + 1 \in N
  <2> SUFFICES ASSUME k + 1 <= Len(said) PROVE FoldSays(a[k + 1], said)
    OBVIOUS
  <2>1. k <= Len(said) /\ k + 1 \in 0 .. Len(said) /\ k + 1 # 0 /\ (k + 1) - 1 = k
        /\ k + 1 \in DOMAIN said
    BY Sequences
  <2>2. FoldSays(a[k], said)
    BY <1>2, <2>1
  <2>3. a[k + 1] = More(a[k], k + 1)
    <3>1. a[k + 1] = m(k + 1)
      BY <1>0, <2>1
    <3>2. m(k + 1) = More(a[(k + 1) - 1], k + 1)
      BY <2>1, Zenon
    <3> HIDE DEF More
    <3> QED BY <2>1, <3>1, <3>2
  <2> QED BY <2>1, <2>2, <2>3, TakenSays, Zenon
<1> HIDE DEF N
<1>3. Nat \subseteq N
  BY <1>1, <1>2, NumbersByStep
<1> QED BY <1>3, Sequences DEF N

(* Evidence is backed by what was said. *)
LEMMA ExtractBacked ==
    ASSUME NEW run, NEW session, NEW said, IsSeq(said), ~Extract(run, session, said).refused
    PROVE  Backed(Extract(run, session, said), session, said)
<1> DEFINE a == CHOOSE f : Folded(f, said, Len(said))
           all == a[Len(said)]
           ev == [refused |-> FALSE, run |-> run, session |-> session, turns |-> all.turns,
                  execs |-> all.execs]
<1>1. Folded(a, said, Len(said))
  <2>1. \E f : Folded(f, said, Len(said))
    BY FoldExists, Sequences
  <2> QED BY <2>1, Zenon
<1>2. Extract(run, session, said) = Refused \/ Extract(run, session, said) = ev
  BY Zenon DEF Extract, Folded
<1> HIDE DEF a
<1>3. FoldSays(all, said)
  BY <1>1, FoldedSays
<1>4. Refused.refused = TRUE
  BY DEF Refused
<1>5. Extract(run, session, said) = ev
  BY <1>2, <1>4
<1> HIDE DEF all
<1>6. ev.session = session /\ ev.execs = all.execs
  OBVIOUS
<1> QED BY <1>3, <1>5, <1>6 DEF Backed, FoldSays

(* The first execution that passes a test, if any does. *)
LEMMA FirstPasses ==
    ASSUME NEW ev, IsSeq(ev.execs), NEW tool
    PROVE  /\ First(ev, tool) > 0 => First(ev, tool) \in DOMAIN ev.execs /\ ev.execs[First(ev, tool)].tool = tool
           /\ First(ev, tool) \in Nat
<1> DEFINE s == ev.execs
           I == {i \in 1 .. Len(s) : s[i].tool = tool}
<1>1. First(ev, tool) = IF I # {} THEN Min(I) ELSE 0
  BY DEF First, SelectInSeq
<1>2. I \subseteq Nat /\ \A i \in I : i \in DOMAIN s /\ s[i].tool = tool
  BY Sequences
<1> HIDE DEF I
<1> DEFINE Least(n) == \A k \in I : n <= k
<1>3. I # {} => \E n \in I : Least(n)
  BY <1>2, LeastIs
<1>4. Min(I) = CHOOSE n \in I : Least(n)
  BY Zenon DEF Min
<1> HIDE DEF Least
<1>5. I # {} => Min(I) \in I
  <2> SUFFICES ASSUME I # {} PROVE Min(I) \in I
    OBVIOUS
  <2>1. \E n : n \in I /\ Least(n)
    BY <1>3
  <2>2. Min(I) = CHOOSE n : n \in I /\ Least(n)
    BY <1>4
  <2> QED BY <2>1, <2>2, Zenon
<1>6. PICK n : n = First(ev, tool)
  OBVIOUS
<1>7. n \in I \/ n = 0
  BY <1>1, <1>5, <1>6
<1>8. n \in Nat /\ (n > 0 => n \in I)
  <2>1. n \in I => n \in Nat
    BY <1>2
  <2>2. n = 0 => n \in Nat /\ ~(n > 0)
    OBVIOUS
  <2> QED BY <1>7, <2>1, <2>2
<1> QED BY <1>2, <1>6, <1>8

(* A sequence of ordinals in order ends with one that there is. *)
LEMMA Ordered ==
    /\ \A s, o \in Nat : InOrder(<<s, o>>) => o > 0
    /\ \A a, b, s, o \in Nat : InOrder(<<a, b, s, o>>) => o > 0
<1>1. ASSUME NEW s \in Nat, NEW o \in Nat, InOrder(<<s, o>>) PROVE o > 0
  <2>1. Len(<<s, o>>) = 2 /\ 2 \in 2 .. 2 /\ 2 - 1 = 1 /\ <<s, o>>[1] = s /\ <<s, o>>[2] = o
    OBVIOUS
  <2>2. s > 0 /\ <<s, o>>[2 - 1] < <<s, o>>[2]
    BY <1>1, <2>1 DEF InOrder
  <2> QED BY <2>1, <2>2
<1>2. ASSUME NEW a \in Nat, NEW b \in Nat, NEW s \in Nat, NEW o \in Nat, InOrder(<<a, b, s, o>>)
      PROVE  o > 0
  <2> DEFINE t == <<a, b, s, o>>
  <2>1. Len(t) = 4 /\ 4 \in 2 .. 4 /\ 4 - 1 = 3 /\ t[3] = s /\ t[4] = o
    OBVIOUS
  <2>2. t[4 - 1] < t[4]
    BY <1>2, <2>1 DEF InOrder
  <2> QED BY <2>1, <2>2
<1> QED BY <1>1, <1>2

(* A restart that is judged well opened the memory. *)
LEMMA RestartOpens ==
    ASSUME NEW ev, NEW session, NEW said, NEW target, Backed(ev, session, said),
           RestartPersistence(ev, target)
    PROVE  Says(said, "open", Short(target))
<1> DEFINE o == First(ev, "open")
<1>1. IsSeq(ev.execs) /\ \A tool : First(ev, tool) \in Nat
  BY FirstPasses DEF Backed
<1>2. /\ InOrder(<<First(ev, "status"), First(ev, "list"), First(ev, "search"), o>>)
      /\ ev.execs[o].ref = Short(target)
  BY Zenon DEF RestartPersistence
<1>3. o > 0
  BY <1>1, <1>2, Ordered
<1>4. o \in DOMAIN ev.execs /\ ev.execs[o].tool = "open"
  BY <1>1, <1>3, FirstPasses
<1> QED BY <1>2, <1>4 DEF Backed

(* A reading in another session that is judged well opened it there. *)
LEMMA ReadingOpens ==
    ASSUME NEW ev, NEW session, NEW said, NEW after, NEW known, Backed(ev, session, said),
           CrossSessionReading(ev, after, known)
    PROVE  Says(said, "open", Long(known.long)) /\ session # known.session
<1> DEFINE o == First(ev, "open")
<1>1. IsSeq(ev.execs) /\ \A tool : First(ev, tool) \in Nat
  BY FirstPasses DEF Backed
<1>2. /\ InOrder(<<First(ev, "search"), o>>) /\ ev.session # known.session
      /\ ev.execs[o].ref = Long(known.long)
  BY Zenon DEF CrossSessionReading
<1>3. o > 0
  BY <1>1, <1>2, Ordered
<1>4. o \in DOMAIN ev.execs /\ ev.execs[o].tool = "open"
  BY <1>1, <1>3, FirstPasses
<1> QED BY <1>2, <1>4 DEF Backed

-----------------------------------------------------------------------------
(* The states of the variables, further than the ledger needs them.        *)
IdentityFields == {"session", "short", "grant", "long"}
MemoryFields   == {"short", "long", "forget", "own"}

ExecutionShape(w) == IsSeq(w.did) /\ DOMAIN w.known = IdentityFields /\ DOMAIN w.checks = Checks

Shapes == asked \in [Execution -> Input] /\ \A e \in Execution : ExecutionShape(x[e])

-----------------------------------------------------------------------------
(* Who has entered.                                                        *)
Waiting    == {"idle", "claim", "refused"}
Entered(e) == x[e].pc \notin Waiting

(* Before anyone has entered the root is as it was prepared, and once      *)
(* somebody has, an approval is spent.  An execution is alone as long as   *)
(* no other has entered.                                                   *)
Untouched ==
    (\A e \in Execution : ~Entered(e)) =>
        /\ disk.ledger = EmptyLedger /\ disk.spent = {} /\ disk.sidecar = {}
        /\ disk.resumed = Nothing /\ disk.evidence = Nothing
        /\ disk.log = [e \in Execution |-> <<>>]
        /\ disk.memory = [p \in {"a", "b"} |-> Blank]

Outside ==
    \A e \in Execution : ~Entered(e) =>
        /\ child[e] = NoChild /\ stream[e] = Quiet
        /\ x[e] = [Idle EXCEPT !.pc = x[e].pc]

SpentOnce == disk.root = "ready" /\ (\E e \in Execution : Entered(e)) => disk.spent # {}

Lone == \A e \in Execution : x[e].alone => Entered(e) /\ \A f \in Execution : f # e => ~Entered(f)

-----------------------------------------------------------------------------
(* An execution that is alone and has not failed, by its own memory w, its *)
(* child c, the disk d and the streams q.                                  *)
Sole(w) ==
    /\ w.alone /\ w.status = "pass"
    /\ w.pc \in {"next", "running", "wiring", "judge", "sum", "clean", "done"}
Works(w)     == Sole(w) /\ w.pc \notin {"clean", "done"}
During(w)    == w.pc \in {"running", "wiring", "judge"}
Before(w, c) == w.pc = "next" \/ (During(w) /\ c.pc = "start")
Loaded(w, c) == During(w) /\ (c.pc \in {"live", "closing"} \/ (c.pc = "over" /\ c.code = 0))

SessionOf(e, i) == IF Resumed(i) THEN <<e, "run_1">> ELSE <<e, Runs[i]>>

(* How far it is, and who took part in its runs.                           *)
History(e, w) ==
    /\ w.pc \in {"sum", "clean", "done"} => w.at = 7
    /\ Len(w.did) = IF w.pc \in {"wiring", "judge"} THEN w.at ELSE w.at - 1
    /\ \A i \in 1 .. 6 :
          i < w.at \/ (i = w.at /\ w.pc = "judge") =>
              "sidecar" \in w.did[i].has /\ w.did[i].session = SessionOf(e, i)

(* What the judgements have established.                                   *)
Found(e, w) ==
    /\ w.at >= 2 => w.known.session = <<e, "run_1">> /\ w.known.short \in w.prior.short
    /\ w.at >= 3 => Says(w.did[2].events, "open", Short(w.known.short))
    /\ w.at >= 4 => Says(w.did[3].events, "promote", Short(w.known.long)) /\ w.known.long \in w.prior.long
    /\ w.at >= 5 => Says(w.did[4].events, "open", Long(w.known.long))
    /\ w.at >= 6 => \E i \in {4, 5} : Says(w.did[i].events, "forget", Long(w.known.long))

(* The disk and the child, further than the ledger needs them.             *)
Whole(e, c, d) ==
    /\ DOMAIN d.resumed = RunNames /\ DOMAIN d.evidence = RunNames
    /\ DOMAIN d.log = Execution /\ IsSeq(d.log[e])
    /\ DOMAIN d.memory = {"a", "b"} /\ \A p \in {"a", "b"} : DOMAIN d.memory[p] = MemoryFields
    /\ IsSeq(c.events) /\ IsSeq(c.todo)
    /\ \A i \in DOMAIN c.todo : c.todo[i].tool = "promote" => c.todo[i].ref = Short(c.todo[i].ref.m)

(* Where its child is.                                                     *)
Place(w, c, d, q) ==
    /\ d.root = "ready"
    /\ ~During(w) => c.pc \in {"none", "over"}
    /\ During(w) => c.at = w.at /\ c.pc \in {"start", "live", "closing", "over"}
    /\ w.pc \in {"wiring", "judge"} =>
          /\ c.pc = "over" /\ c.code = 0
          /\ w.did[w.at] = [session |-> c.session, has |-> c.has, events |-> c.events]
    /\ c.pc = "start" => c.events = <<>> /\ c.has = {}
    /\ \A s \in Stream : q[s].pc # "idle" => c.pc = "live" /\ "sidecar" \in c.has

(* What the children left under the root was left by the right one.        *)
Receipts(w, c, d) ==
    \A i \in 1 .. 6 :
        /\ Runs[i] \in d.sidecar =>
              i < w.at \/ (i = w.at /\ During(w) /\ c.pc # "start" /\ (Loaded(w, c) => "sidecar" \in c.has))
        /\ d.resumed[Runs[i]] # None =>
              i < w.at \/ (i = w.at /\ During(w) /\ c.pc \in {"closing", "over"}
                             /\ d.resumed[Runs[i]] = c.session)

Evidence(e, w, c, d) ==
    /\ \A i \in 1 .. 6 : d.evidence[Runs[i]] # None =>
          i < w.at \/ (i = w.at /\ During(w) /\ c.pc # "start"
                         /\ Backed(d.evidence[Runs[i]], c.session, c.events))
    /\ d.evidence["run_1"] # None => d.evidence["run_1"].session = <<e, "run_1">>

Sessions(e, w, c) ==
    Loaded(w, c) => /\ c.session \in {<<e, "run_1">>, <<e, Runs[w.at]>>}
                    /\ ~Resumed(w.at) => c.session = <<e, Runs[w.at]>>

(* Until the third run has been judged, everything promoted was promoted   *)
(* in the session of the first.                                            *)
Promotes(e, w, c, d) ==
    w.at <= 3 =>
        /\ Before(w, c) => \A m \in d.memory["a"].long : Says(d.log[e], "promote", Short(m))
        /\ Before(w, c) /\ w.at = 1 => d.memory["a"].long = {}
        /\ Loaded(w, c) /\ c.session = <<e, "run_1">> =>
              /\ \A m \in d.memory["a"].long : Says(c.events, "promote", Short(m))
              /\ c.pc = "over" => d.log[e] = c.events

(* The memories it goes by are kept, and the one that was promoted is      *)
(* forgotten in no other session than the fourth's and the fifth's.        *)
Keeps(w, c, d) ==
    LET a == d.memory["a"]
        l == Long(w.known.long)
    IN
    /\ w.at >= 2 => w.known.short \in a.short
    /\ w.at >= 4 => w.known.long \in a.long
    /\ w.at = 4 /\ Before(w, c) => l \notin a.forget
    /\ w.at = 4 /\ Loaded(w, c) /\ l \in a.forget => Says(c.events, "forget", l)
    /\ w.at = 5 /\ Before(w, c) /\ l \in a.forget => Says(w.did[4].events, "forget", l)
    /\ w.at = 5 /\ Loaded(w, c) /\ l \in a.forget =>
          Says(w.did[4].events, "forget", l) \/ Says(c.events, "forget", l)

(* Every request made has a claim, unless the child runs without a sidecar.*)
ClaimedBy(ledger) == {n \in Seqs : ledger.claims[n] \in RunNames}

Counting(w, c, d) ==
    ~During(w) \/ c.pc = "start" \/ "sidecar" \in c.has => w.made = Cardinality(ClaimedBy(d.ledger))

Left(e, w, c, d, level) ==
    /\ Whole(e, c, d) /\ Receipts(w, c, d) /\ Evidence(e, w, c, d) /\ Sessions(e, w, c)
    /\ Promotes(e, w, c, d)
    /\ level = "business" => Keeps(w, c, d)

AtWork(e, w, c, d, q, level) ==
    Works(w) => Place(w, c, d, q) /\ Counting(w, c, d) /\ Left(e, w, c, d, level)

Past(e, w, level) == Sole(w) => History(e, w) /\ (level = "business" => Found(e, w))

AtEnd(w, c, q) ==
    Sole(w) /\ ~Works(w) =>
        /\ w.requests = w.made /\ c.pc \in {"none", "over"}
        /\ \A s \in Stream : q[s].pc = "idle"

-----------------------------------------------------------------------------
(* The counts and the checks of any execution, from which its report is    *)
(* made.                                                                   *)
Passed(k) == IF k = 1 THEN 0 ELSE IF k = 2 THEN 1 ELSE IF k = 3 THEN 3
             ELSE IF k \in {4, 5} THEN 4 ELSE IF k = 6 THEN 5 ELSE 6
Judging(w) == w.pc \in {"idle", "claim", "refused", "next", "running", "wiring", "judge"}

Check(w, i) == w.checks[BusinessChecks[i]]

Numbers(w) ==
    /\ w.status \in {"pass", "fail"} /\ w.at \in 1 .. 7 /\ w.executed = w.at - 1
    /\ w.requests \in 0 .. MaxRequests
    /\ During(w) => w.at <= 6
    /\ Judging(w) => w.status = "pass"
    /\ w.pc = "clean" => w.checks["execution_wiring"] = w.status
    /\ w.pc \in {"clean", "done"} /\ w.status = "pass" => w.executed = 6 /\ w.requests > 0

Verdicts(w, level) ==
    /\ level = "wiring" => w.pc # "judge" /\ \A i \in 1 .. 6 : Check(w, i) = "not_run"
    /\ level = "business" =>
          /\ Judging(w) => \A i \in 1 .. 6 : Check(w, i) = IF i <= Passed(w.at) THEN "pass" ELSE "not_run"
          /\ \A i, j \in 1 .. 6 : i < j /\ Check(w, j) = "pass" => Check(w, i) = "pass"

Told(w, level) ==
    w.report # None =>
        /\ w.pc = "done" /\ ValidReport(w.report, 6, MaxRequests) /\ w.report.level = level
        /\ w.report.status = "pass" => w.status = "pass" /\ w.report.requests = w.requests

Reports(w, level) == Numbers(w) /\ Verdicts(w, level) /\ Told(w, level)

Mine(e, w, c, d, q, level) ==
    /\ AtWork(e, w, c, d, q, level) /\ Past(e, w, level) /\ AtEnd(w, c, q) /\ Reports(w, level)

Everyone == \A e \in Execution : Mine(e, x[e], child[e], disk, stream[e], asked[e].level)

PInv == HInv /\ Shapes /\ Untouched /\ Outside /\ SpentOnce /\ Lone /\ Everyone

-----------------------------------------------------------------------------
(* What is said of an execution goes by few of its fields.                 *)

(* The counts and the checks, as long as it does not come to its end.      *)
LEMMA ReportsLike ==
    ASSUME NEW w, NEW v, NEW level, Reports(w, level),
           v.at = w.at, v.status = w.status, v.executed = w.executed, v.requests = w.requests,
           v.checks = w.checks, v.report = w.report,
           During(v) => w.at <= 6, Judging(v) => Judging(w),
           \/ v.pc = w.pc
           \/ v.pc \notin {"clean", "done"} /\ w.pc # "done" /\ (v.pc = "judge" => level # "wiring")
    PROVE  Reports(v, level)
<1>0. Numbers(w) /\ Verdicts(w, level) /\ Told(w, level)
  BY DEF Reports
<1>1. Numbers(v)
  BY ONLY <1>0, v.at = w.at, v.status = w.status, v.executed = w.executed, v.requests = w.requests,
          v.checks = w.checks, During(v) => w.at <= 6, Judging(v) => Judging(w),
          v.pc = w.pc \/ v.pc \notin {"clean", "done"} DEF Numbers
<1>2. \A i \in 1 .. 6 : Check(v, i) = Check(w, i)
  BY DEF Check
<1>3. Verdicts(v, level)
  <2>1. level = "wiring" => v.pc # "judge" /\ \A i \in 1 .. 6 : Check(v, i) = "not_run"
    BY <1>0, <1>2 DEF Verdicts
  <2>2. ASSUME level = "business", Judging(v), NEW i \in 1 .. 6
        PROVE  Check(v, i) = IF i <= Passed(v.at) THEN "pass" ELSE "not_run"
    <3>1. Judging(w)
      BY <2>2
    <3>2. Check(w, i) = IF i <= Passed(w.at) THEN "pass" ELSE "not_run"
      BY ONLY <1>0, <2>2, <3>1 DEF Verdicts
    <3> QED BY <1>2, <3>2
  <2>3. ASSUME level = "business", NEW i \in 1 .. 6, NEW j \in 1 .. 6, i < j, Check(v, j) = "pass"
        PROVE  Check(v, i) = "pass"
    <3>1. Check(w, j) = "pass"
      BY <1>2, <2>3
    <3>2. Check(w, i) = "pass"
      BY ONLY <1>0, <2>3, <3>1 DEF Verdicts
    <3> QED BY <1>2, <3>2
  <2> QED BY ONLY <2>1, <2>2, <2>3 DEF Verdicts
<1>4. Told(v, level)
  BY <1>0 DEF Told
<1> QED BY <1>1, <1>3, <1>4 DEF Reports

(* How far it is, as long as it judges no run it had not.                  *)
LEMMA PastLike ==
    ASSUME NEW e, NEW w, NEW v, NEW level, Past(e, w, level), Sole(v) => Sole(w),
           v.at = w.at, v.did = w.did, v.known = w.known, v.prior = w.prior,
           v.pc = w.pc \/ (w.pc = "next" /\ v.pc = "running") \/ (w.pc = "next" /\ v.pc = "sum" /\ w.at = 7)
    PROVE  Past(e, v, level)
<1> SUFFICES ASSUME Sole(v) PROVE History(e, v) /\ (level = "business" => Found(e, v))
  BY DEF Past
<1>1. History(e, w) /\ (level = "business" => Found(e, w))
  BY DEF Past
<1>2. Found(e, w) => Found(e, v)
  BY ONLY v.at = w.at, v.did = w.did, v.known = w.known, v.prior = w.prior DEF Found
<1>3. /\ v.pc \in {"sum", "clean", "done"} => w.pc \in {"sum", "clean", "done"} \/ w.at = 7
      /\ v.pc \in {"wiring", "judge"} <=> w.pc \in {"wiring", "judge"}
      /\ v.pc = "judge" <=> w.pc = "judge"
  OBVIOUS
<1>4. History(e, v)
  BY ONLY <1>1, <1>3, v.at = w.at, v.did = w.did DEF History
<1> QED BY <1>1, <1>2, <1>4

(* What its children left, between the steps of its runs.                  *)
LEMMA LeftLike ==
    ASSUME NEW e, NEW w, NEW v, NEW c, NEW d, NEW level, Left(e, w, c, d, level),
           v.at = w.at, v.known = w.known, v.did = w.did,
           During(v) <=> During(w), Loaded(v, c) <=> Loaded(w, c), Before(v, c) <=> Before(w, c)
    PROVE  Left(e, v, c, d, level)
<1>1. /\ Whole(e, c, d) /\ Receipts(w, c, d) /\ Evidence(e, w, c, d) /\ Sessions(e, w, c)
      /\ Promotes(e, w, c, d) /\ (level = "business" => Keeps(w, c, d))
  BY DEF Left
<1>2. Receipts(v, c, d)
  BY ONLY <1>1, v.at = w.at, During(v) <=> During(w), Loaded(v, c) <=> Loaded(w, c) DEF Receipts
<1>3. Evidence(e, v, c, d)
  BY ONLY <1>1, v.at = w.at, During(v) <=> During(w) DEF Evidence
<1>4. Sessions(e, v, c)
  BY ONLY <1>1, v.at = w.at, Loaded(v, c) <=> Loaded(w, c) DEF Sessions
<1>5. Promotes(e, v, c, d)
  BY ONLY <1>1, v.at = w.at, Loaded(v, c) <=> Loaded(w, c), Before(v, c) <=> Before(w, c) DEF Promotes
<1>6. level = "business" => Keeps(v, c, d)
  BY ONLY <1>1, v.at = w.at, v.known = w.known, v.did = w.did,
          Loaded(v, c) <=> Loaded(w, c), Before(v, c) <=> Before(w, c) DEF Keeps
<1> QED BY <1>1, <1>2, <1>3, <1>4, <1>5, <1>6 DEF Left

-----------------------------------------------------------------------------
(* Frames.                                                                 *)

(* Only an execution that has entered acts, and its step is seen by no     *)
(* execution that is alone but itself.                                     *)
LEMMA OwnStep ==
    ASSUME PInv, HInv', NEW e \in Execution, Entered(e), x'[e].pc \notin Waiting,
           asked' = asked, x'[e].alone = x[e].alone,
           \A f \in Execution : f # e => x'[f] = x[f] /\ child'[f] = child[f] /\ stream'[f] = stream[f],
           disk'.root = "ready" => disk.root = "ready" /\ disk'.spent = disk.spent,
           ExecutionShape(x'[e]),
           Mine(e, x'[e], child'[e], disk', stream'[e], asked[e].level)
    PROVE  PInv'
<1>1. Shapes'
  BY DEF PInv, Shapes
<1>2. Untouched'
  BY DEF Untouched, Entered
<1>3. Outside'
  BY DEF PInv, Outside, Entered
<1>4. SpentOnce'
  BY DEF PInv, SpentOnce, Entered
<1>5. Lone'
  <2> SUFFICES ASSUME NEW f \in Execution, x'[f].alone
               PROVE  x'[f].pc \notin Waiting /\ \A g \in Execution : g # f => x'[g].pc \in Waiting
    BY DEF Lone, Entered
  <2>1. x[f].alone
    BY DEF PInv
  <2>2. Entered(f) /\ \A g \in Execution : g # f => ~Entered(g)
    BY <2>1 DEF PInv, Lone
  <2>3. f = e
    BY <2>2
  <2> QED BY <2>2, <2>3 DEF Entered
<1>6. Everyone'
  <2> SUFFICES ASSUME NEW f \in Execution
               PROVE  Mine(f, x'[f], child'[f], disk', stream'[f], asked'[f].level)
    BY DEF Everyone
  <2>1. CASE f = e
    BY <2>1
  <2>2. CASE f # e
    <3>1. ~x[f].alone
      BY <2>2 DEF PInv, Lone
    <3>2. ~Sole(x'[f]) /\ ~Works(x'[f])
      BY <2>2, <3>1 DEF Sole, Works
    <3>3. Reports(x'[f], asked'[f].level)
      BY <2>2 DEF PInv, Everyone, Mine
    <3> QED BY <3>2, <3>3 DEF Mine, AtWork, Past, AtEnd
  <2> QED BY <2>1, <2>2
<1> QED BY <1>1, <1>2, <1>3, <1>4, <1>5, <1>6 DEF PInv

(* Whatever has a child or a stream has entered; and if it is alone and    *)
(* has not failed it waits for that child.                                 *)
LEMMA Occupied ==
    ASSUME PInv, NEW e \in Execution,
           child[e].pc \in {"start", "live", "closing"} \/ \E s \in Stream : stream[e][s].pc # "idle"
    PROVE  /\ Entered(e)
           /\ Sole(x[e]) => /\ Works(x[e]) /\ x[e].pc = "running" /\ During(x[e]) /\ x[e].at \in 1 .. 6
                            /\ Place(x[e], child[e], disk, stream[e]) /\ Counting(x[e], child[e], disk)
                            /\ Left(e, x[e], child[e], disk, asked[e].level)
<1>1. Entered(e)
  <2>1. NoChild.pc = "none" /\ \A s \in Stream : Quiet[s].pc = "idle"
    BY DEF NoChild, Quiet
  <2> QED BY <2>1 DEF PInv, Outside
<1>2. ASSUME Sole(x[e])
      PROVE  /\ Works(x[e]) /\ x[e].pc = "running" /\ During(x[e]) /\ x[e].at \in 1 .. 6
             /\ Place(x[e], child[e], disk, stream[e]) /\ Counting(x[e], child[e], disk)
             /\ Left(e, x[e], child[e], disk, asked[e].level)
  <2>1. Mine(e, x[e], child[e], disk, stream[e], asked[e].level)
    BY DEF PInv, Everyone
  <2>2. Works(x[e])
    BY <1>2, <2>1 DEF Mine, AtEnd
  <2>3. /\ Place(x[e], child[e], disk, stream[e]) /\ Counting(x[e], child[e], disk)
        /\ Left(e, x[e], child[e], disk, asked[e].level)
    BY <2>1, <2>2 DEF Mine, AtWork
  <2>4. child[e].pc \in {"start", "live", "closing"}
    BY <2>3 DEF Place
  <2>5. x[e].pc = "running" /\ During(x[e])
    BY <2>3, <2>4, <1>2 DEF Place, During, Sole
  <2>6. x[e].at \in 1 .. 6
    BY <2>1, <2>5 DEF Mine, Reports, Numbers
  <2> QED BY <2>2, <2>3, <2>5, <2>6
<1> QED BY <1>1, <1>2

SameButMade(w, v) ==
    /\ v.pc = w.pc /\ v.at = w.at /\ v.status = w.status /\ v.executed = w.executed
    /\ v.requests = w.requests /\ v.checks = w.checks /\ v.known = w.known /\ v.prior = w.prior
    /\ v.report = w.report /\ v.alone = w.alone /\ v.did = w.did

(* A step of the agent. *)
LEMMA AgentStep ==
    ASSUME PInv, HInv', NEW e \in Execution, asked' = asked, SameButMade(x[e], x'[e]),
           child[e].pc \in {"start", "live", "closing"} \/ \E s \in Stream : stream[e][s].pc # "idle",
           \A f \in Execution : f # e => x'[f] = x[f] /\ child'[f] = child[f] /\ stream'[f] = stream[f],
           disk'.root = "ready" => disk.root = "ready" /\ disk'.spent = disk.spent,
           Sole(x[e]) => /\ Place(x'[e], child'[e], disk', stream'[e]) /\ Counting(x'[e], child'[e], disk')
                         /\ Left(e, x'[e], child'[e], disk', asked[e].level)
    PROVE  PInv'
<1> PICK w : w = x[e]
  OBVIOUS
<1> PICK v : v = x'[e]
  OBVIOUS
<1>1. SameButMade(w, v)
  OBVIOUS
<1>2. Mine(e, w, child[e], disk, stream[e], asked[e].level) /\ Entered(e)
  BY Occupied DEF PInv, Everyone
<1>3. (Sole(v) <=> Sole(w)) /\ (Works(v) <=> Works(w)) /\ v.pc \notin Waiting
  BY <1>1, <1>2 DEF SameButMade, Sole, Works, Entered
<1>4. Past(e, v, asked[e].level)
  <2>1. Past(e, w, asked[e].level) /\ (Sole(v) => Sole(w))
    BY <1>2, <1>3 DEF Mine
  <2>2. v.pc = w.pc /\ v.at = w.at /\ v.did = w.did /\ v.known = w.known /\ v.prior = w.prior
    BY <1>1 DEF SameButMade
  <2> QED BY ONLY <2>1, <2>2, PastLike
<1>5. AtEnd(v, child'[e], stream'[e])
  BY <1>3, Occupied DEF AtEnd
<1>6. Reports(v, asked[e].level)
  <2>1. Reports(w, asked[e].level)
    BY <1>2 DEF Mine
  <2>2. /\ v.pc = w.pc /\ v.at = w.at /\ v.status = w.status /\ v.executed = w.executed
        /\ v.requests = w.requests /\ v.checks = w.checks /\ v.report = w.report
    BY <1>1 DEF SameButMade
  <2>3. (During(v) => w.at <= 6) /\ (Judging(v) => Judging(w))
    BY <2>1, <2>2 DEF Reports, Numbers, During, Judging
  <2> QED BY ONLY <2>1, <2>2, <2>3, ReportsLike
<1>7. AtWork(e, v, child'[e], disk', stream'[e], asked[e].level)
  BY <1>3 DEF AtWork, Works
<1>8. Mine(e, v, child'[e], disk', stream'[e], asked[e].level)
  BY <1>4, <1>5, <1>6, <1>7 DEF Mine
<1>9. ExecutionShape(v)
  BY <1>1 DEF PInv, Shapes, ExecutionShape, SameButMade
<1> QED BY <1>1, <1>2, <1>3, <1>8, <1>9, OwnStep DEF SameButMade

(* The runs are told apart by their names. *)
LEMMA RunsApart ==
    /\ Runs[1] = "run_1" /\ Runs[2] = "run_2" /\ Runs[3] = "run_3"
    /\ Runs[4] = "run_4" /\ Runs[5] = "run_5" /\ Runs[6] = "run_6"
    /\ \A i, j \in 1 .. 6 : Runs[i] = Runs[j] => i = j
    /\ \A i \in 1 .. 6 : (Resumed(i) <=> i \in {2, 3}) /\ ProjectOf(i) = IF i = 6 THEN "b" ELSE "a"
<1>1. /\ Runs[1] = "run_1" /\ Runs[2] = "run_2" /\ Runs[3] = "run_3"
      /\ Runs[4] = "run_4" /\ Runs[5] = "run_5" /\ Runs[6] = "run_6"
  BY DEF Runs
<1>2. \A i \in 1 .. 6 : i = 1 \/ i = 2 \/ i = 3 \/ i = 4 \/ i = 5 \/ i = 6
  OBVIOUS
<1>3. \A i, j \in 1 .. 6 : Runs[i] = Runs[j] => i = j
  BY <1>1, <1>2
<1>4. \A i \in 1 .. 6 : (Resumed(i) <=> i \in {2, 3}) /\ ProjectOf(i) = IF i = 6 THEN "b" ELSE "a"
  BY <1>1, <1>2 DEF Resumed, ProjectOf
<1> QED BY <1>1, <1>3, <1>4

(* The checks are told apart by their names. *)
LEMMA ChecksApart ==
    /\ "execution_wiring" \in Checks
    /\ \A i \in 1 .. 6 : BusinessChecks[i] \in Checks /\ BusinessChecks[i] # "execution_wiring"
    /\ \A i, j \in 1 .. 6 : BusinessChecks[i] = BusinessChecks[j] => i = j
    /\ \A c \in Checks : c = "execution_wiring" \/ \E i \in 1 .. 6 : c = BusinessChecks[i]
<1>1. /\ BusinessChecks[1] = "automatic_capture" /\ BusinessChecks[2] = "restart_persistence"
      /\ BusinessChecks[3] = "progressive_disclosure" /\ BusinessChecks[4] = "promotion"
      /\ BusinessChecks[5] = "forget_and_grant" /\ BusinessChecks[6] = "scope_isolation"
      /\ DOMAIN BusinessChecks = 1 .. 6
  BY DEF BusinessChecks
<1>2. \A i \in 1 .. 6 : i = 1 \/ i = 2 \/ i = 3 \/ i = 4 \/ i = 5 \/ i = 6
  OBVIOUS
<1>3. Checks = {"execution_wiring"} \cup {BusinessChecks[i] : i \in 1 .. 6}
  BY <1>1 DEF Checks, Range
<1> QED BY <1>1, <1>2, <1>3

(* An execution that has run nothing has nothing to report. *)
LEMMA FreshReports ==
    ASSUME NEW w, NEW level, w.status = "pass", w.at = 1, w.executed = 0, w.requests = 0,
           w.checks = NotRun, w.report = None, w.pc \in Waiting \cup {"next"}
    PROVE  Reports(w, level)
<1>1. Numbers(w)
  BY HarnessAssumption DEF Numbers, HarnessAssumption, During, Waiting
<1>2. \A i \in 1 .. 6 : Check(w, i) = "not_run" /\ ~(i <= Passed(w.at))
  BY ChecksApart DEF Check, NotRun, Passed
<1>3. Verdicts(w, level)
  BY <1>2 DEF Verdicts, Waiting
<1>4. Told(w, level)
  BY DEF Told
<1> QED BY <1>1, <1>3, <1>4 DEF Reports

(* Who has not entered has nothing to report. *)
LEMMA OutsideReports ==
    ASSUME NEW pc \in Waiting, NEW w, w = [Idle EXCEPT !.pc = pc], NEW level,
           NEW e, NEW c, NEW d, NEW q
    PROVE  Mine(e, w, c, d, q, level) /\ ExecutionShape(w)
<1>1. /\ w.status = "pass" /\ w.at = 1 /\ w.executed = 0 /\ w.requests = 0 /\ w.checks = NotRun
      /\ w.report = None /\ w.pc = pc /\ w.alone = FALSE /\ w.did = <<>> /\ w.known = NoIdentities
  BY DEF Idle
<1>2. ~Sole(w) /\ ~Works(w)
  BY <1>1 DEF Sole, Works
<1>3. Reports(w, level)
  BY <1>1, FreshReports
<1>4. ExecutionShape(w)
  BY <1>1, Sequences DEF ExecutionShape, NoIdentities, IdentityFields, NotRun
<1> QED BY <1>2, <1>3, <1>4 DEF Mine, AtWork, Past, AtEnd

(* The invariant holds at the beginning. *)
LEMMA PassInitially == HarnessInit => PInv
<1> SUFFICES ASSUME HarnessInit PROVE PInv
  OBVIOUS
<1>1. \A e \in Execution : x[e] = Idle /\ child[e] = NoChild /\ stream[e] = Quiet
  BY DEF HarnessInit
<1>2. Idle.pc = "idle" /\ Idle.alone = FALSE /\ "idle" \in Waiting /\ Idle = [Idle EXCEPT !.pc = "idle"]
  <2>1. Idle.pc = "idle" /\ Idle.alone = FALSE /\ "idle" \in Waiting
    BY DEF Idle, Waiting
  <2>2. Idle = [f \in DOMAIN Idle |-> Idle[f]]
    BY DEF Idle
  <2>3. Idle = [Idle EXCEPT !.pc = Idle.pc]
    BY <2>2
  <2> QED BY <2>1, <2>3
<1>3. Shapes
  BY <1>1, <1>2, OutsideReports DEF Shapes, HarnessInit
<1>4. disk = EmptyDisk /\ disk.root = "none"
  BY DEF HarnessInit, EmptyDisk
<1>5. Untouched
  BY <1>4 DEF Untouched, EmptyDisk
<1>6. Outside /\ Lone
  BY <1>1, <1>2 DEF Outside, Lone, Entered
<1>7. Everyone
  BY <1>1, <1>2, OutsideReports DEF Everyone
<1> QED BY <1>3, <1>4, <1>5, <1>6, <1>7, Initially DEF PInv, SpentOnce

(* Around the executions: nobody who is alone and has not failed sees more *)
(* of it than the approval. *)
LEMMA PassAround ==
    ASSUME PInv, PrepareFails \/ PrepareRoot \/ Approve \/ Expire \/ \E thing \in Thing : Tamper(thing)
    PROVE  PInv'
<1>1. HInv'
  BY AroundKeeps, PrepareRootKeeps DEF PInv
<1>2. UNCHANGED <<asked, x, child, stream>>
  BY DEF PrepareFails, PrepareRoot, Approve, Expire, Tamper
<1>3. /\ disk'.ledger = disk.ledger /\ disk'.spent = disk.spent /\ disk'.sidecar = disk.sidecar
      /\ disk'.resumed = disk.resumed /\ disk'.evidence = disk.evidence /\ disk'.log = disk.log
      /\ disk'.memory = disk.memory
  BY DEF PrepareFails, PrepareRoot, Approve, Expire, Tamper, PInv, HInv, DiskType, DiskFields
<1>4. disk'.root = disk.root \/ \A e \in Execution : x[e].pc = "idle"
  BY DEF PrepareFails, PrepareRoot, Approve, Expire, Tamper, PInv, HInv, DiskType, DiskFields, AtStep
<1>5. Shapes' /\ Outside' /\ Lone'
  BY <1>2 DEF PInv, Shapes, Outside, Lone, Entered
<1>6. Untouched'
  BY <1>2, <1>3 DEF PInv, Untouched, Entered
<1>7. SpentOnce'
  BY <1>2, <1>3, <1>4 DEF PInv, SpentOnce, Entered, Waiting
<1>8. ASSUME NEW e \in Execution
      PROVE  Mine(e, x[e], child[e], disk', stream[e], asked[e].level)
  <2> PICK d : d = disk'
    OBVIOUS
  <2>1. Mine(e, x[e], child[e], disk, stream[e], asked[e].level)
    BY DEF PInv, Everyone
  <2>2. AtWork(e, x[e], child[e], d, stream[e], asked[e].level)
    <3>1. CASE x[e].pc = "idle"
      BY <3>1 DEF AtWork, Works, Sole
    <3>2. CASE x[e].pc # "idle"
      <4>1. d.root = disk.root
        BY <1>4, <3>2
      <4>2. AtWork(e, x[e], child[e], disk, stream[e], asked[e].level)
        BY <2>1 DEF Mine
      <4>3. Works(x[e]) => Place(x[e], child[e], d, stream[e]) /\ Counting(x[e], child[e], d)
        BY <1>3, <4>1, <4>2 DEF AtWork, Place, Counting
      <4>4. Works(x[e]) => Left(e, x[e], child[e], d, asked[e].level)
        <5>1. Works(x[e]) => Left(e, x[e], child[e], disk, asked[e].level)
          BY <4>2 DEF AtWork
        <5> QED BY <1>3, <5>1 DEF Left, Whole, Receipts, Evidence, Sessions, Promotes, Keeps
      <4> QED BY <4>3, <4>4 DEF AtWork
    <3> QED BY <3>1, <3>2
  <2> QED BY <2>1, <2>2 DEF Mine
<1>9. Everyone'
  BY <1>2, <1>8 DEF Everyone
<1> QED BY <1>1, <1>5, <1>6, <1>7, <1>9 DEF PInv

-----------------------------------------------------------------------------
(* Entering. *)

(* An execution that is refused, or goes on to claim, has not entered. *)
LEMMA StillOutside ==
    ASSUME PInv, HInv', NEW e \in Execution, ~Entered(e), NEW pc \in Waiting,
           Becomes(e, [x[e] EXCEPT !.pc = pc]), UNCHANGED <<asked, disk, child, stream>>
    PROVE  PInv'
<1>1. x'[e] = [Idle EXCEPT !.pc = pc] /\ x'[e].pc = pc /\ \A f \in Execution : f # e => x'[f] = x[f]
  <2>1. x'[e] = [x[e] EXCEPT !.pc = pc] /\ \A f \in Execution : f # e => x'[f] = x[f]
    BY DEF Becomes, PInv, HInv, XType
  <2>2. x[e] = [Idle EXCEPT !.pc = x[e].pc]
    BY DEF PInv, Outside
  <2>3. [[Idle EXCEPT !.pc = x[e].pc] EXCEPT !.pc = pc] = [Idle EXCEPT !.pc = pc]
        /\ [Idle EXCEPT !.pc = pc].pc = pc
    BY DEF Idle
  <2> QED BY <2>1, <2>2, <2>3
<1>2. \A f \in Execution : Entered(f)' <=> Entered(f)
  BY <1>1 DEF Entered
<1>3. Shapes'
  <2>1. ExecutionShape(x'[e])
    BY <1>1, OutsideReports
  <2> QED BY <1>1, <2>1 DEF PInv, Shapes
<1>4. Untouched' /\ SpentOnce'
  BY <1>2 DEF PInv, Untouched, SpentOnce
<1>5. Outside'
  <2> SUFFICES ASSUME NEW f \in Execution, x'[f].pc \in Waiting
               PROVE  child[f] = NoChild /\ stream[f] = Quiet /\ x'[f] = [Idle EXCEPT !.pc = x'[f].pc]
    BY DEF Outside, Entered
  <2>1. ~Entered(f)
    BY <1>1 DEF Entered
  <2>2. child[f] = NoChild /\ stream[f] = Quiet /\ x[f] = [Idle EXCEPT !.pc = x[f].pc]
    BY <2>1 DEF PInv, Outside
  <2> QED BY <1>1, <2>2
<1>6. Lone'
  <2>1. Idle.alone = FALSE /\ [Idle EXCEPT !.pc = pc].alone = FALSE
    BY DEF Idle
  <2> QED BY <1>1, <1>2, <2>1 DEF PInv, Lone
<1>7. Everyone'
  <2>1. \A f \in Execution : f # e => Mine(f, x'[f], child[f], disk, stream[f], asked[f].level)
    BY <1>1 DEF PInv, Everyone
  <2>2. Mine(e, x'[e], child[e], disk, stream[e], asked[e].level)
    BY <1>1, OutsideReports
  <2> QED BY <2>1, <2>2 DEF Everyone
<1> QED BY <1>3, <1>4, <1>5, <1>6, <1>7 DEF PInv

(* A precheck compares and spends nothing. *)
LEMMA PassPrecheck == ASSUME PInv, HInv', NEW e \in Execution, Precheck(e) PROVE PInv'
<1>1. ~Entered(e)
  BY DEF Precheck, AtStep, Entered, Waiting
<1>2. PICK pc \in {"claim", "refused"} : Becomes(e, [x[e] EXCEPT !.pc = pc])
  BY DEF Precheck
<1>3. pc \in Waiting
  BY DEF Waiting
<1> QED BY <1>1, <1>2, <1>3, StillOutside DEF Precheck

(* What one that enters a root nobody touched finds. *)
LEMMA FreshRoot ==
    ASSUME NEW e \in Execution, NEW w, NEW d, NEW level,
           w.pc = "next", w.at = 1, w.made = 0, w.did = <<>>, w.alone, w.status = "pass",
           d.root = "ready", d.ledger = EmptyLedger, d.sidecar = {}, d.resumed = Nothing,
           d.evidence = Nothing, d.log = [o \in Execution |-> <<>>],
           d.memory = [p \in {"a", "b"} |-> Blank]
    PROVE  AtWork(e, w, NoChild, d, Quiet, level) /\ Past(e, w, level)
<1>0. ~During(w) /\ NoChild.pc = "none" /\ NoChild.events = <<>> /\ NoChild.todo = <<>>
      /\ \A s \in Stream : Quiet[s].pc = "idle"
  BY DEF During, NoChild, Quiet
<1>1. Place(w, NoChild, d, Quiet)
  BY <1>0 DEF Place
<1>2. Counting(w, NoChild, d)
  <2>1. ClaimedBy(d.ledger) = {}
    BY DEF ClaimedBy, EmptyLedger, NoFile, RunNames
  <2> QED BY <2>1, FS_EmptySet DEF Counting
<1>3. Whole(e, NoChild, d)
  <2>1. DOMAIN d.resumed = RunNames /\ DOMAIN d.evidence = RunNames
    BY RunsNamed DEF Nothing
  <2>2. DOMAIN d.log = Execution /\ d.log[e] = <<>>
    OBVIOUS
  <2>3. DOMAIN d.memory = {"a", "b"} /\ \A p \in {"a", "b"} : DOMAIN d.memory[p] = MemoryFields
    BY DEF Blank, MemoryFields
  <2> QED BY <1>0, <2>1, <2>2, <2>3, Sequences DEF Whole
<1>4. \A i \in 1 .. 6 : d.resumed[Runs[i]] = None /\ d.evidence[Runs[i]] = None
  BY RunsNamed DEF Nothing
<1>5. d.evidence["run_1"] = None
  BY <1>4, RunsApart
<1>6. Receipts(w, NoChild, d) /\ Evidence(e, w, NoChild, d)
  BY <1>4, <1>5 DEF Receipts, Evidence
<1>7. Sessions(e, w, NoChild) /\ ~Loaded(w, NoChild)
  BY <1>0 DEF Sessions, Loaded
<1>8. Promotes(e, w, NoChild, d)
  BY <1>7 DEF Promotes, Blank
<1>9. Keeps(w, NoChild, d)
  BY DEF Keeps
<1>10. AtWork(e, w, NoChild, d, Quiet, level)
  BY <1>1, <1>2, <1>3, <1>6, <1>7, <1>8, <1>9 DEF AtWork, Left
<1>11. History(e, w) /\ Found(e, w)
  <2>1. Len(w.did) = 0
    OBVIOUS
  <2> QED BY <2>1 DEF History, Found
<1> QED BY <1>10, <1>11 DEF Past

(* The first to spend an approval finds a root nobody touched, and is alone *)
(* until another enters. *)
LEMMA PassClaimApproval == ASSUME PInv, HInv', NEW e \in Execution, ClaimApproval(e) PROVE PInv'
<1>0. x[e].pc = "claim" /\ ~Entered(e) /\ UNCHANGED <<asked, child, stream>>
  BY DEF ClaimApproval, AtStep, Entered, Waiting
<1>1. CASE Becomes(e, [x[e] EXCEPT !.pc = "refused"]) /\ UNCHANGED disk
  <2>1. "refused" \in Waiting
    BY DEF Waiting
  <2> QED BY <1>0, <1>1, <2>1, StillOutside
<1>2. CASE ~(Becomes(e, [x[e] EXCEPT !.pc = "refused"]) /\ UNCHANGED disk)
  <2> DEFINE alone == disk.spent = {}
  <2>1. /\ disk.root = "ready" /\ disk' = [disk EXCEPT !.spent = @ \cup {asked[e].approval}]
        /\ x' = [o \in Execution |->
                    IF o = e THEN [x[e] EXCEPT !.pc = "next", !.alone = alone]
                    ELSE [x[o] EXCEPT !.alone = FALSE]]
    BY <1>2 DEF ClaimApproval
  <2>2. /\ disk'.root = disk.root /\ disk'.ledger = disk.ledger /\ disk'.sidecar = disk.sidecar
        /\ disk'.resumed = disk.resumed /\ disk'.evidence = disk.evidence /\ disk'.log = disk.log
        /\ disk'.memory = disk.memory /\ disk'.spent # {}
    BY <2>1 DEF PInv, HInv, DiskType, DiskFields
  <2>3. PICK w : w = x'[e]
    OBVIOUS
  <2>4. x'[e] = [x[e] EXCEPT !.pc = "next", !.alone = alone]
    BY <2>1
  <2>5. /\ w.pc = "next" /\ w.at = 1 /\ w.made = 0 /\ w.did = <<>> /\ w.status = "pass" /\ w.executed = 0
        /\ w.requests = 0 /\ w.checks = NotRun /\ w.report = None /\ w.known = NoIdentities
        /\ w.alone = alone
    <3>1. x[e] = [Idle EXCEPT !.pc = "claim"]
      BY <1>0 DEF PInv, Outside
    <3>2. w = [[Idle EXCEPT !.pc = "claim"] EXCEPT !.pc = "next", !.alone = alone]
      BY <2>3, <2>4, <3>1
    <3> HIDE DEF alone
    <3> QED BY ONLY <3>2 DEF Idle
  <2>6. \A f \in Execution : f # e => /\ SameButMade([x[f] EXCEPT !.alone = FALSE], x'[f])
                                      /\ x'[f] = [x[f] EXCEPT !.alone = FALSE]
    BY <2>1 DEF SameButMade
  <2>7. \A f \in Execution : f # e =>
            /\ x'[f].pc = x[f].pc /\ x'[f].at = x[f].at /\ x'[f].status = x[f].status
            /\ x'[f].executed = x[f].executed /\ x'[f].requests = x[f].requests
            /\ x'[f].checks = x[f].checks /\ x'[f].known = x[f].known /\ x'[f].report = x[f].report
            /\ x'[f].did = x[f].did /\ x'[f].alone = FALSE
    <3>1. \A f \in Execution : DOMAIN x[f] = XFields
      BY DEF PInv, HInv, XType
    <3> SUFFICES ASSUME NEW f \in Execution, f # e
                 PROVE  /\ x'[f].pc = x[f].pc /\ x'[f].at = x[f].at /\ x'[f].status = x[f].status
                        /\ x'[f].executed = x[f].executed /\ x'[f].requests = x[f].requests
                        /\ x'[f].checks = x[f].checks /\ x'[f].known = x[f].known
                        /\ x'[f].report = x[f].report /\ x'[f].did = x[f].did /\ x'[f].alone = FALSE
      OBVIOUS
    <3> PICK v : v = x[f]
      OBVIOUS
    <3>2. DOMAIN v = XFields
      BY <3>1
    <3>3. x'[f] = [v EXCEPT !.alone = FALSE]
      BY <2>6
    <3>4. [v EXCEPT !.alone = FALSE].alone = FALSE
      BY ONLY <3>2 DEF XFields
    <3>5. \A k \in XFields : k # "alone" => [v EXCEPT !.alone = FALSE][k] = v[k]
      BY ONLY <3>2
    <3> QED BY <3>3, <3>4, <3>5 DEF XFields
  <2>8. Entered(e)' /\ \A f \in Execution : f # e => (Entered(f)' <=> Entered(f))
    BY <2>3, <2>5, <2>7 DEF Entered, Waiting
  <2>9. Shapes'
    <3>1. ExecutionShape(w)
      BY <2>5, Sequences DEF ExecutionShape, NoIdentities, IdentityFields, NotRun
    <3>2. \A f \in Execution : f # e => ExecutionShape(x'[f])
      BY <2>7 DEF PInv, Shapes, ExecutionShape
    <3> QED BY <1>0, <2>3, <3>1, <3>2 DEF PInv, Shapes
  <2>10. Untouched' /\ SpentOnce'
    BY <2>2, <2>8 DEF Untouched, SpentOnce
  <2>11. Outside'
    <3> SUFFICES ASSUME NEW f \in Execution, ~Entered(f)'
                 PROVE  child[f] = NoChild /\ stream[f] = Quiet /\ x'[f] = [Idle EXCEPT !.pc = x'[f].pc]
      BY <1>0 DEF Outside
    <3>1. f # e /\ ~Entered(f)
      BY <2>8
    <3>2. child[f] = NoChild /\ stream[f] = Quiet /\ x[f] = [Idle EXCEPT !.pc = x[f].pc]
      BY <3>1 DEF PInv, Outside
    <3>3. [[Idle EXCEPT !.pc = x[f].pc] EXCEPT !.alone = FALSE] = [Idle EXCEPT !.pc = x[f].pc]
      <4> PICK r : r = [Idle EXCEPT !.pc = x[f].pc]
        OBVIOUS
      <4>1. r.alone = FALSE /\ r = [g \in DOMAIN r |-> r[g]]
        BY DEF Idle
      <4>2. r = [r EXCEPT !.alone = r.alone]
        BY <4>1
      <4> QED BY <4>1, <4>2
    <3>4. x'[f] = [Idle EXCEPT !.pc = x[f].pc] /\ x'[f].pc = x[f].pc
      <4>1. x'[f] = [x[f] EXCEPT !.alone = FALSE] /\ x'[f].pc = x[f].pc
        BY <2>6, <2>7, <3>1
      <4> QED BY <3>2, <3>3, <4>1
    <3> QED BY <3>2, <3>4
  <2>12. alone => \A f \in Execution : ~Entered(f)
    BY <2>1 DEF PInv, SpentOnce
  <2>13. Lone'
    <3>1. x'[e].alone => \A f \in Execution : f # e => ~Entered(f)
      BY <2>3, <2>5, <2>12
    <3>2. Entered(e)' /\ \A f \in Execution : f # e => ~x'[f].alone /\ (Entered(f)' <=> Entered(f))
      BY <2>7, <2>8
    <3> QED BY ONLY <3>1, <3>2 DEF Lone
  <2>14. Mine(e, w, child[e], disk', stream[e], asked[e].level)
    <3>1. child[e] = NoChild /\ stream[e] = Quiet
      BY <1>0 DEF PInv, Outside
    <3>2. Reports(w, asked[e].level)
      BY <2>5, FreshReports
    <3>3. AtEnd(w, child[e], stream[e])
      BY <2>5 DEF AtEnd, Works
    <3>4. CASE ~alone
      <4>1. ~Sole(w) /\ ~Works(w)
        BY <2>5, <3>4 DEF Sole, Works
      <4> QED BY <3>2, <4>1 DEF Mine, AtWork, Past, AtEnd
    <3>5. CASE alone
      <4>1. /\ disk.ledger = EmptyLedger /\ disk.sidecar = {}
            /\ disk.resumed = Nothing /\ disk.evidence = Nothing
            /\ disk.log = [o \in Execution |-> <<>>]
            /\ disk.memory = [p \in {"a", "b"} |-> Blank]
        BY <2>12, <3>5 DEF PInv, Untouched
      <4>2. PICK d : d = disk'
        OBVIOUS
      <4>3. AtWork(e, w, NoChild, d, Quiet, asked[e].level) /\ Past(e, w, asked[e].level)
        <5>1. /\ d.root = "ready" /\ d.ledger = EmptyLedger /\ d.sidecar = {} /\ d.resumed = Nothing
              /\ d.evidence = Nothing /\ d.log = [o \in Execution |-> <<>>]
              /\ d.memory = [p \in {"a", "b"} |-> Blank]
          BY <2>1, <2>2, <4>1, <4>2
        <5> HIDE DEF alone
        <5> QED BY <2>5, <3>5, <5>1, FreshRoot
      <4> QED BY <3>1, <3>2, <3>3, <4>2, <4>3 DEF Mine
    <3> QED BY <3>4, <3>5
  <2>15. ASSUME NEW f \in Execution, f # e
         PROVE  Mine(f, x'[f], child[f], disk', stream[f], asked[f].level)
    <3> PICK v : v = x'[f]
      OBVIOUS
    <3>1. ~Sole(v) /\ ~Works(v)
      BY <2>7, <2>15 DEF Sole, Works
    <3>2. Reports(x[f], asked[f].level)
      BY DEF PInv, Everyone, Mine
    <3>3. /\ v.pc = x[f].pc /\ v.at = x[f].at /\ v.status = x[f].status
          /\ v.executed = x[f].executed /\ v.requests = x[f].requests
          /\ v.checks = x[f].checks /\ v.report = x[f].report
      BY <2>7, <2>15
    <3>4. Reports(v, asked[f].level)
      <4>1. (During(v) => x[f].at <= 6) /\ (Judging(v) => Judging(x[f]))
        BY ONLY <3>2, <3>3 DEF Reports, Numbers, During, Judging
      <4> QED BY ONLY <3>2, <3>3, <4>1, ReportsLike
    <3> QED BY <3>1, <3>4 DEF Mine, AtWork, Past, AtEnd
  <2>16. Everyone'
    BY <1>0, <2>3, <2>14, <2>15 DEF Everyone
  <2> QED BY <2>9, <2>10, <2>11, <2>13, <2>16 DEF PInv
<1> QED BY <1>1, <1>2

-----------------------------------------------------------------------------
(* The steps of an execution that has entered.                             *)

(* Its own memory changes. *)
LEMMA OwnMemory ==
    ASSUME PInv, HInv', NEW e \in Execution, Entered(e), NEW m, Becomes(e, m), UNCHANGED asked,
           m.pc \notin Waiting, m.alone = x[e].alone, ExecutionShape(m),
           \A f \in Execution : f # e => child'[f] = child[f] /\ stream'[f] = stream[f],
           disk'.root = "ready" => disk.root = "ready" /\ disk'.spent = disk.spent,
           Mine(e, m, child'[e], disk', stream'[e], asked[e].level)
    PROVE  PInv'
<1>1. x'[e] = m /\ \A f \in Execution : f # e => x'[f] = x[f]
  BY DEF Becomes, PInv, HInv, XType
<1> QED BY <1>1, OwnStep

(* A step that changes its memory and nothing else. *)
LEMMA OwnMind ==
    ASSUME PInv, HInv', NEW e \in Execution, Entered(e), NEW m, Becomes(e, m),
           UNCHANGED <<asked, disk, stream, child>>, m.pc \notin Waiting, m.alone = x[e].alone,
           ExecutionShape(m), Mine(e, m, child[e], disk, stream[e], asked[e].level)
    PROVE  PInv'
<1>1. Mine(e, m, child'[e], disk', stream'[e], asked[e].level)
  OBVIOUS
<1>2. m.pc \notin {"idle", "claim", "refused"}
  BY DEF Waiting
<1>3. /\ UNCHANGED asked /\ \A f \in Execution : f # e => child'[f] = child[f] /\ stream'[f] = stream[f]
      /\ disk'.root = "ready" => disk.root = "ready" /\ disk'.spent = disk.spent
  OBVIOUS
<1> QED BY <1>1, <1>2, <1>3, OwnMemory

(* It stops: it fails, or it dies. *)
LEMMA Stops ==
    ASSUME PInv, HInv', NEW e \in Execution, Entered(e), x[e].pc \in {"next", "running", "wiring", "judge", "sum", "clean"},
           NEW m, Becomes(e, m), UNCHANGED <<asked, disk>>,
           m.pc \in {"sum", "dead"}, m.status \in {"pass", "fail"}, m.status = "fail" \/ m.pc = "dead",
           m.alone = x[e].alone, m.at = x[e].at, m.executed = x[e].executed, m.requests = x[e].requests,
           m.checks = x[e].checks, m.report = x[e].report, m.did = x[e].did, m.known = x[e].known,
           \A f \in Execution : f # e => child'[f] = child[f] /\ stream'[f] = stream[f]
    PROVE  PInv'
<1> PICK w : w = x[e]
  OBVIOUS
<1>1. Reports(w, asked[e].level)
  BY DEF PInv, Everyone, Mine
<1>2. Numbers(m)
  BY <1>1 DEF Reports, Numbers, During, Judging
<1>3. Verdicts(m, asked[e].level) /\ Told(m, asked[e].level)
  <2>1. Verdicts(w, asked[e].level) /\ Told(w, asked[e].level)
    BY <1>1 DEF Reports
  <2>2. ~Judging(m) /\ m.pc # "judge" /\ m.checks = w.checks /\ m.report = w.report /\ w.pc # "done"
    BY DEF Judging
  <2>3. Verdicts(m, asked[e].level)
    BY ONLY <2>1, <2>2 DEF Verdicts, Check
  <2>4. Told(m, asked[e].level)
    BY ONLY <2>1, <2>2 DEF Told
  <2> QED BY <2>3, <2>4
<1>4. ~Sole(m) /\ ~Works(m)
  BY DEF Sole, Works
<1>5. Mine(e, m, child'[e], disk', stream'[e], asked[e].level)
  BY <1>2, <1>3, <1>4 DEF Mine, AtWork, Past, AtEnd, Reports
<1>6. ExecutionShape(m)
  BY DEF PInv, Shapes, ExecutionShape
<1> QED BY <1>5, <1>6, OwnMemory DEF Waiting

(* The fields of an execution that fails. *)
LEMMA FailStops ==
    ASSUME PInv, HInv', NEW e \in Execution, x[e].pc \in {"next", "running", "wiring", "judge", "sum", "clean"},
           NEW reason, Fails(e, reason), UNCHANGED <<asked, disk>>,
           \A f \in Execution : f # e => child'[f] = child[f] /\ stream'[f] = stream[f]
    PROVE  PInv'
<1> DEFINE m == [x[e] EXCEPT !.pc = "sum", !.status = "fail", !.reason = reason]
<1>1. /\ m.pc = "sum" /\ m.status = "fail" /\ m.alone = x[e].alone /\ m.at = x[e].at
      /\ m.executed = x[e].executed /\ m.requests = x[e].requests /\ m.checks = x[e].checks
      /\ m.report = x[e].report /\ m.did = x[e].did /\ m.known = x[e].known
  BY DEF PInv, HInv, XType, XFields
<1>2. Becomes(e, m) /\ Entered(e)
  BY DEF Fails, Entered, Waiting
<1> HIDE DEF m
<1> QED BY <1>1, <1>2, Stops

(* An execution that died reports nothing. *)
LEMMA PassDie == ASSUME PInv, HInv', NEW e \in Execution, Die(e) PROVE PInv'
<1> DEFINE m == [x[e] EXCEPT !.pc = "dead"]
<1>1. /\ m.pc = "dead" /\ m.status = x[e].status /\ m.alone = x[e].alone /\ m.at = x[e].at
      /\ m.executed = x[e].executed /\ m.requests = x[e].requests /\ m.checks = x[e].checks
      /\ m.report = x[e].report /\ m.did = x[e].did /\ m.known = x[e].known
  BY DEF PInv, HInv, XType, XFields
<1>2. Becomes(e, m) /\ Entered(e)
  BY DEF Die, Entered, Waiting
<1>3. x[e].status \in {"pass", "fail"}
  BY DEF PInv, Everyone, Mine, Reports, Numbers
<1> HIDE DEF m
<1> QED BY <1>1, <1>2, <1>3, Stops DEF Die

(* A run that timed out fails, whether or not its child died. *)
LEMMA PassRunTimesOut == ASSUME PInv, HInv', NEW e \in Execution, RunTimesOut(e) PROVE PInv'
<1>1. \A f \in Execution : f # e => child'[f] = child[f] /\ stream'[f] = stream[f]
  BY DEF RunTimesOut, Closed, PInv, HInv, ChildType, StreamType
<1>2. Fails(e, "dsh_compatibility_failed") /\ UNCHANGED <<asked, disk>> /\ x[e].pc = "running"
  BY DEF RunTimesOut, AtStep
<1> QED BY <1>1, <1>2, FailStops

(* The memory of an execution whose place alone changes. *)
LEMMA SameButPlace ==
    ASSUME HInv, NEW e \in Execution, NEW pc, NEW m, m = [x[e] EXCEPT !.pc = pc]
    PROVE  m.pc = pc /\ SameButMade(m, [x[e] EXCEPT !.pc = pc]) /\ m.made = x[e].made
           /\ m.at = x[e].at /\ m.status = x[e].status /\ m.executed = x[e].executed
           /\ m.requests = x[e].requests /\ m.checks = x[e].checks /\ m.known = x[e].known
           /\ m.prior = x[e].prior /\ m.report = x[e].report /\ m.alone = x[e].alone /\ m.did = x[e].did
  BY DEF HInv, XType, XFields, SameButMade

(* The next run begins where the last one was counted. *)
LEMMA PassNextRun == ASSUME PInv, HInv', NEW e \in Execution, NextRun(e) PROVE PInv'
<1> PICK w : w = x[e]
  OBVIOUS
<1> PICK c : c = child[e]
  OBVIOUS
<1> PICK q : q = stream[e]
  OBVIOUS
<1> PICK level : level = asked[e].level
  OBVIOUS
<1>0. /\ w.pc = "next" /\ Entered(e) /\ UNCHANGED <<asked, disk, stream>> /\ Len(Runs) = 6
      /\ ~During(w) /\ Mine(e, w, c, disk, q, level) /\ ExecutionShape(w)
  BY RunsNamed DEF NextRun, AtStep, Entered, Waiting, During, PInv, Everyone, Shapes
<1>1. Reports(w, level) /\ w.at \in 1 .. 7
  BY <1>0 DEF Mine, Reports, Numbers
<1>2. Works(w) <=> Sole(w)
  BY <1>0 DEF Works
<1>3. Sole(w) => /\ Place(w, c, disk, q) /\ Counting(w, c, disk) /\ Left(e, w, c, disk, level)
                 /\ History(e, w) /\ (level = "business" => Found(e, w))
  BY <1>0, <1>2 DEF Mine, AtWork, Past
<1>4. ASSUME w.at > 6, Becomes(e, [x[e] EXCEPT !.pc = "sum"]), UNCHANGED child PROVE PInv'
  <2> PICK m : m = [x[e] EXCEPT !.pc = "sum"]
    OBVIOUS
  <2>1. m.pc = "sum" /\ m.made = w.made
        /\ m.at = w.at /\ m.status = w.status /\ m.executed = w.executed
        /\ m.requests = w.requests /\ m.checks = w.checks /\ m.known = w.known
        /\ m.prior = w.prior /\ m.report = w.report /\ m.alone = w.alone /\ m.did = w.did
    BY SameButPlace DEF PInv
  <2>2. Reports(m, level)
    <3>1. ~During(m) /\ ~Judging(m) /\ m.pc \notin {"clean", "done", "judge"} /\ w.pc # "done"
      BY <1>0, <2>1 DEF During, Judging
    <3> QED BY ONLY <1>1, <2>1, <3>1, ReportsLike
  <2>3. ~During(m) /\ ~Loaded(m, c) /\ (Sole(m) <=> Sole(w)) /\ (Works(m) <=> Sole(m)) /\ m.at = 7
    BY <1>0, <1>1, <1>4, <2>1 DEF During, Loaded, Sole, Works
  <2>4. Works(m) => Place(m, c, disk, q) /\ Counting(m, c, disk) /\ Left(e, m, c, disk, level)
    <3> SUFFICES ASSUME Works(m) PROVE Place(m, c, disk, q) /\ Counting(m, c, disk) /\ Left(e, m, c, disk, level)
      OBVIOUS
    <3>1. Place(w, c, disk, q) /\ Counting(w, c, disk) /\ Left(e, w, c, disk, level)
      BY <1>3, <2>3
    <3>2. Place(m, c, disk, q)
      BY ONLY <1>0, <2>1, <2>3, <3>1 DEF Place
    <3>5. Counting(m, c, disk)
      BY ONLY <1>0, <2>1, <2>3, <3>1 DEF Counting
    <3>6. ~Loaded(w, c)
      BY <1>0 DEF Loaded
    <3>3. Receipts(m, c, disk) /\ Evidence(e, m, c, disk) /\ Sessions(e, m, c)
      BY ONLY <1>0, <2>1, <2>3, <3>1, <3>6 DEF Left, Receipts, Evidence, Sessions
    <3>4. Promotes(e, m, c, disk) /\ (level = "business" => Keeps(m, c, disk))
      BY ONLY <2>1, <2>3, <3>1 DEF Left, Promotes, Keeps
    <3> QED BY <3>1, <3>2, <3>3, <3>4, <3>5 DEF Left
  <2>5. Past(e, m, level)
    <3>1. Past(e, w, level) /\ (Sole(m) => Sole(w)) /\ w.pc = "next" /\ w.at = 7
      BY <1>0, <2>1, <2>3 DEF Mine
    <3> QED BY ONLY <2>1, <3>1, PastLike
  <2>6. AtEnd(m, c, q)
    BY <2>3 DEF AtEnd
  <2>7. Mine(e, m, c, disk, q, level) /\ ExecutionShape(m)
    BY <1>0, <2>1, <2>2, <2>4, <2>5, <2>6 DEF Mine, AtWork, ExecutionShape
  <2> QED
    <3>1. Entered(e) /\ Becomes(e, m) /\ UNCHANGED <<asked, disk, stream, child>>
          /\ m.pc \notin Waiting /\ m.alone = x[e].alone
      BY <1>0, <1>4, <2>1 DEF Waiting
    <3>2. Mine(e, m, child[e], disk, stream[e], asked[e].level) /\ ExecutionShape(m)
      BY <2>7
    <3> QED BY ONLY PInv, HInv', e \in Execution, <3>1, <3>2, OwnMind
<1>5. ASSUME w.at \in 1 .. 6, disk.root = "ready", Becomes(e, [x[e] EXCEPT !.pc = "running"]),
             child' = [child EXCEPT ![e] = [NoChild EXCEPT !.pc = "start", !.at = x[e].at]]
      PROVE PInv'
  <2> PICK m : m = [x[e] EXCEPT !.pc = "running"]
    OBVIOUS
  <2> PICK b : b = [NoChild EXCEPT !.pc = "start", !.at = x[e].at]
    OBVIOUS
  <2>1. m.pc = "running" /\ m.made = w.made
        /\ m.at = w.at /\ m.status = w.status /\ m.executed = w.executed
        /\ m.requests = w.requests /\ m.checks = w.checks /\ m.known = w.known
        /\ m.prior = w.prior /\ m.report = w.report /\ m.alone = w.alone /\ m.did = w.did
    BY SameButPlace DEF PInv
  <2>2. b.pc = "start" /\ b.at = w.at /\ b.has = {} /\ b.events = <<>> /\ b.todo = <<>>
    BY DEF NoChild
  <2>3. child'[e] = b /\ \A f \in Execution : f # e => child'[f] = child[f]
    BY <1>5 DEF PInv, HInv, ChildType
  <2>4. Reports(m, level)
    <3>1. w.at <= 6 /\ Judging(w) /\ m.pc \notin {"clean", "done", "judge"} /\ w.pc # "done"
      BY <1>0, <1>5, <2>1 DEF Judging
    <3> QED BY ONLY <1>1, <2>1, <3>1, ReportsLike
  <2>5. During(m) /\ ~Loaded(m, b) /\ ~Loaded(w, c) /\ (Sole(m) <=> Sole(w)) /\ (Works(m) <=> Sole(m))
        /\ Before(m, b) /\ Before(w, c)
    BY <1>0, <2>1, <2>2 DEF During, Loaded, Sole, Works, Before
  <2>6. Works(m) => Place(m, b, disk, q) /\ Counting(m, b, disk) /\ Left(e, m, b, disk, level)
    <3> SUFFICES ASSUME Works(m) PROVE Place(m, b, disk, q) /\ Counting(m, b, disk) /\ Left(e, m, b, disk, level)
      OBVIOUS
    <3>1. Place(w, c, disk, q) /\ Counting(w, c, disk) /\ Left(e, w, c, disk, level)
      BY <1>3, <2>5
    <3>2. \A s \in Stream : q[s].pc = "idle"
      BY <1>0, <3>1 DEF Place
    <3>3. Place(m, b, disk, q) /\ Counting(m, b, disk)
      BY <1>0, <1>5, <2>1, <2>2, <2>5, <3>1, <3>2 DEF Place, Counting
    <3>8. Receipts(w, c, disk) /\ Evidence(e, w, c, disk) /\ ~During(w)
      BY ONLY <1>0, <3>1 DEF Left
    <3>9. Receipts(m, b, disk)
      BY ONLY <2>1, <2>5, <3>8 DEF Receipts
    <3>4. Evidence(e, m, b, disk) /\ Sessions(e, m, b)
      BY ONLY <2>1, <2>5, <3>8 DEF Evidence, Sessions
    <3>5. Promotes(e, m, b, disk)
      BY ONLY <2>1, <2>5, <3>1 DEF Left, Promotes
    <3>6. level = "business" => Keeps(m, b, disk)
      BY ONLY <2>1, <2>5, <3>1 DEF Left, Keeps
    <3>7. Whole(e, b, disk)
      BY ONLY <2>2, <3>1, Sequences DEF Left, Whole
    <3> QED BY <3>3, <3>4, <3>5, <3>6, <3>7, <3>9 DEF Left
  <2>7. Past(e, m, level)
    <3>1. Past(e, w, level) /\ (Sole(m) => Sole(w)) /\ w.pc = "next"
      BY <1>0, <2>5 DEF Mine
    <3> QED BY ONLY <2>1, <3>1, PastLike
  <2>8. AtEnd(m, b, q)
    BY <2>5 DEF AtEnd
  <2>9. Mine(e, m, b, disk, q, level) /\ ExecutionShape(m)
    BY <1>0, <2>1, <2>4, <2>6, <2>7, <2>8 DEF Mine, AtWork, ExecutionShape
  <2>10. Becomes(e, m) /\ m.alone = x[e].alone /\ m.pc \notin Waiting
         /\ Mine(e, m, child'[e], disk', stream'[e], asked[e].level)
         /\ \A f \in Execution : f # e => child'[f] = child[f] /\ stream'[f] = stream[f]
    BY <1>0, <1>5, <2>1, <2>3, <2>9 DEF Waiting
  <2> QED BY <1>0, <2>9, <2>10, OwnMemory
<1>6. ASSUME NEW reason, Fails(e, reason), UNCHANGED child PROVE PInv'
  BY <1>0, <1>6, FailStops
<1>7. \/ w.at > 6 /\ Becomes(e, [x[e] EXCEPT !.pc = "sum"]) /\ UNCHANGED child
      \/ Fails(e, "subprocess_timeout") /\ UNCHANGED child
      \/ Fails(e, "dsh_compatibility_failed") /\ UNCHANGED child
      \/ /\ ~(w.at > 6) /\ disk.root = "ready" /\ Becomes(e, [x[e] EXCEPT !.pc = "running"])
         /\ child' = [child EXCEPT ![e] = [NoChild EXCEPT !.pc = "start", !.at = x[e].at]]
  BY <1>0 DEF NextRun
<1>8. ~(w.at > 6) => w.at \in 1 .. 6
  BY <1>1
<1> QED BY <1>4, <1>5, <1>6, <1>7, <1>8

(* A child that closed well leaves what it did. *)
LEMMA PassRunEnds == ASSUME PInv, HInv', NEW e \in Execution, RunEnds(e) PROVE PInv'
<1> PICK w : w = x[e]
  OBVIOUS
<1> PICK c : c = child[e]
  OBVIOUS
<1> PICK q : q = stream[e]
  OBVIOUS
<1> PICK level : level = asked[e].level
  OBVIOUS
<1> DEFINE did == [session |-> c.session, has |-> c.has, events |-> c.events]
<1>0. /\ w.pc = "running" /\ c.pc = "over" /\ Entered(e) /\ UNCHANGED <<asked, disk, stream, child>>
      /\ During(w) /\ Mine(e, w, c, disk, q, level) /\ ExecutionShape(w)
  BY DEF RunEnds, AtStep, Entered, Waiting, During, PInv, Everyone, Shapes
<1>1. Reports(w, level) /\ w.at \in 1 .. 6
  BY <1>0 DEF Mine, Reports, Numbers
<1>2. Works(w) <=> Sole(w)
  BY <1>0 DEF Works
<1>3. Sole(w) => /\ Place(w, c, disk, q) /\ Counting(w, c, disk) /\ Left(e, w, c, disk, level)
                 /\ History(e, w) /\ (level = "business" => Found(e, w))
  BY <1>0, <1>2 DEF Mine, AtWork, Past
<1>4. CASE c.code = 0
  <2> PICK m : m = [x[e] EXCEPT !.pc = "wiring", !.did = Append(x[e].did, did)]
    OBVIOUS
  <2>1. m.pc = "wiring" /\ m.made = w.made
        /\ m.at = w.at /\ m.status = w.status /\ m.executed = w.executed
        /\ m.requests = w.requests /\ m.checks = w.checks /\ m.known = w.known
        /\ m.prior = w.prior /\ m.report = w.report /\ m.alone = w.alone /\ m.did = Append(w.did, did)
    <3> HIDE DEF did
    <3> QED BY DEF PInv, HInv, XType, XFields
  <2>2. Becomes(e, m)
    BY <1>4 DEF RunEnds
  <2>3. Reports(m, level)
    <3>1. w.at <= 6 /\ Judging(w) /\ m.pc \notin {"clean", "done", "judge"} /\ w.pc # "done"
      BY <1>0, <1>1, <2>1 DEF Judging
    <3> QED BY ONLY <1>1, <2>1, <3>1, ReportsLike
  <2>4. During(m) /\ Loaded(m, c) /\ Loaded(w, c) /\ (Sole(m) <=> Sole(w)) /\ (Works(m) <=> Sole(m))
        /\ ~Before(m, c) /\ ~Before(w, c)
    BY <1>0, <1>4, <2>1 DEF During, Loaded, Sole, Works, Before
  <2>5. Sole(m) => /\ Len(m.did) = m.at /\ m.did[m.at] = did
                   /\ \A i \in 1 .. 6 : i < m.at => m.did[i] = w.did[i]
    <3> SUFFICES ASSUME Sole(m) PROVE /\ Len(m.did) = m.at /\ m.did[m.at] = did
                                      /\ \A i \in 1 .. 6 : i < m.at => m.did[i] = w.did[i]
      OBVIOUS
    <3>1. Len(w.did) = w.at - 1
      BY <1>0, <1>3, <2>4 DEF History
    <3> HIDE DEF did
    <3>2. /\ Len(m.did) = Len(w.did) + 1 /\ m.did[Len(w.did) + 1] = did
          /\ \A i \in 1 .. Len(w.did) : m.did[i] = w.did[i]
      BY <1>0, <2>1, Appends DEF ExecutionShape
    <3>3. Len(w.did) + 1 = w.at /\ m.at = w.at /\ \A i \in 1 .. 6 : i < m.at => i \in 1 .. Len(w.did)
      BY <1>1, <2>1, <3>1
    <3> QED BY <3>2, <3>3
  <2>6. Works(m) => Place(m, c, disk, q) /\ Counting(m, c, disk) /\ Left(e, m, c, disk, level)
    <3> SUFFICES ASSUME Works(m) PROVE Place(m, c, disk, q) /\ Counting(m, c, disk) /\ Left(e, m, c, disk, level)
      OBVIOUS
    <3>1. Place(w, c, disk, q) /\ Counting(w, c, disk) /\ Left(e, w, c, disk, level)
      BY <1>3, <2>4
    <3>2. Place(m, c, disk, q)
      BY <1>0, <1>4, <2>1, <2>4, <2>5, <3>1 DEF Place
    <3>6. Counting(m, c, disk)
      BY ONLY <1>0, <2>1, <2>4, <3>1 DEF Counting
    <3>7. Receipts(w, c, disk) /\ Evidence(e, w, c, disk) /\ Sessions(e, w, c) /\ During(w) /\ Loaded(w, c)
      BY <1>0, <2>4, <3>1 DEF Left
    <3>8. Receipts(m, c, disk)
      BY ONLY <2>1, <2>4, <3>7 DEF Receipts
    <3>3. Evidence(e, m, c, disk) /\ Sessions(e, m, c)
      BY ONLY <2>1, <2>4, <3>7 DEF Evidence, Sessions
    <3>4. Promotes(e, m, c, disk)
      BY ONLY <2>1, <2>4, <3>1, <3>7 DEF Left, Promotes
    <3>5. level = "business" => Keeps(m, c, disk)
      <4>1. m.at = 5 => m.did[4] = w.did[4]
        BY <2>4, <2>5
      <4>2. m.at = w.at /\ m.known = w.known /\ ~Before(m, c) /\ (Loaded(m, c) <=> Loaded(w, c))
        BY <2>1, <2>4
      <4> QED BY ONLY <3>1, <4>1, <4>2 DEF Left, Keeps
    <3> QED BY <3>1, <3>2, <3>3, <3>4, <3>5, <3>6, <3>8 DEF Left
  <2>7. Past(e, m, level)
    <3> SUFFICES ASSUME Sole(m) PROVE History(e, m) /\ (level = "business" => Found(e, m))
      BY DEF Past
    <3>1. History(e, w) /\ (level = "business" => Found(e, w))
      BY <1>3, <2>4
    <3>5. Len(m.did) = m.at /\ \A i \in 1 .. 6 : i < m.at => m.did[i] = w.did[i]
      BY <2>5
    <3>6. w.pc = "running" /\ m.pc = "wiring" /\ m.at = w.at /\ w.at \in 1 .. 6
      BY <1>0, <1>1, <2>1
    <3>2. History(e, m)
      BY ONLY <3>1, <3>5, <3>6 DEF History
    <3>3. /\ m.at >= 3 => m.did[2] = w.did[2]
          /\ m.at >= 4 => m.did[3] = w.did[3]
          /\ m.at >= 5 => m.did[4] = w.did[4]
          /\ m.at >= 6 => m.did[5] = w.did[5]
      BY ONLY <3>5, <3>6
    <3>4. Found(e, w) => Found(e, m)
      <4> HIDE DEF did
      <4>0. m.at >= 6 => m.at >= 5
        BY <1>1, <2>1
      <4>1. m.at >= 6 => m.did[4] = w.did[4] /\ m.did[5] = w.did[5]
        BY <3>3, <4>0
      <4>2. \A i \in {4, 5} : i = 4 \/ i = 5
        OBVIOUS
      <4>3. m.at >= 6 => \A i \in {4, 5} : m.did[i] = w.did[i]
        BY <4>1, <4>2
      <4> QED BY <2>1, <3>3, <4>3 DEF Found
    <3> QED BY <3>1, <3>2, <3>4
  <2>8. AtEnd(m, c, q)
    BY <2>4 DEF AtEnd
  <2>9. Mine(e, m, c, disk, q, level) /\ ExecutionShape(m)
    <3>1. ExecutionShape(m)
      <4> HIDE DEF did
      <4> QED BY <1>0, <2>1, Appends DEF ExecutionShape
    <3> QED BY <2>3, <2>6, <2>7, <2>8, <3>1 DEF Mine, AtWork
  <2> QED
    <3>1. Entered(e) /\ Becomes(e, m) /\ UNCHANGED <<asked, disk, stream, child>>
          /\ m.pc \notin Waiting /\ m.alone = x[e].alone
      BY <1>0, <2>1, <2>2 DEF Waiting
    <3>2. Mine(e, m, child[e], disk, stream[e], asked[e].level) /\ ExecutionShape(m)
      BY <2>9
    <3> QED BY ONLY PInv, HInv', e \in Execution, <3>1, <3>2, OwnMind
<1>5. CASE c.code # 0
  <2>1. Fails(e, "dsh_compatibility_failed")
    BY <1>5 DEF RunEnds
  <2> QED BY <1>0, <2>1, FailStops
<1> QED BY <1>4, <1>5

-----------------------------------------------------------------------------
(* A run is over and counted. *)
LEMMA CountedOn ==
    ASSUME NEW e \in Execution, NEW w, NEW c, NEW d, NEW q, NEW level, NEW m,
           Works(w), w.pc \in {"wiring", "judge"}, w.at \in 1 .. 6,
           Place(w, c, d, q), Counting(w, c, d), Left(e, w, c, d, level),
           "sidecar" \in c.has, c.session = SessionOf(e, w.at), Len(w.did) = w.at,
           \A i \in 1 .. 6 : i < w.at => "sidecar" \in w.did[i].has /\ w.did[i].session = SessionOf(e, i),
           m.pc = "next", m.at = w.at + 1, m.made = w.made, m.did = w.did
    PROVE  /\ Place(m, c, d, q) /\ Counting(m, c, d) /\ Whole(e, c, d) /\ Receipts(m, c, d)
           /\ Evidence(e, m, c, d) /\ Sessions(e, m, c) /\ Promotes(e, m, c, d) /\ History(e, m)
<1>1. ~During(m) /\ During(w) /\ ~Loaded(m, c) /\ Loaded(w, c) /\ Before(m, c) /\ c.pc = "over" /\ c.code = 0
      /\ \A s \in Stream : q[s].pc = "idle"
  BY DEF During, Loaded, Before, Place
<1>2. Place(m, c, d, q) /\ Counting(m, c, d)
  BY <1>1 DEF Place, Counting
<1>3. \A i \in 1 .. 6 : i < m.at <=> i < w.at \/ i = w.at
  OBVIOUS
<1>4. Whole(e, c, d) /\ Receipts(m, c, d)
  BY <1>1, <1>3 DEF Left, Receipts
<1>5. Evidence(e, m, c, d) /\ Sessions(e, m, c)
  BY <1>1, <1>3 DEF Left, Evidence, Sessions
<1>6. Promotes(e, m, c, d)
  <2> SUFFICES ASSUME m.at <= 3
               PROVE  \A n \in d.memory["a"].long : Says(d.log[e], "promote", Short(n))
    BY <1>1 DEF Promotes
  <2>1. w.at <= 3 /\ w.at \in {1, 2}
    OBVIOUS
  <2>2. c.session = <<e, "run_1">>
    BY <2>1, RunsApart DEF SessionOf
  <2> QED BY <1>1, <2>1, <2>2 DEF Left, Promotes
<1>7. History(e, m)
  <2>1. w.did[w.at] = [session |-> c.session, has |-> c.has, events |-> c.events]
    BY DEF Place
  <2>2. "sidecar" \in w.did[w.at].has /\ w.did[w.at].session = SessionOf(e, w.at)
    BY <2>1
  <2>3. \A i \in 1 .. 6 : i < m.at => "sidecar" \in m.did[i].has /\ m.did[i].session = SessionOf(e, i)
    <3> SUFFICES ASSUME NEW i \in 1 .. 6, i < w.at \/ i = w.at
                 PROVE  "sidecar" \in w.did[i].has /\ w.did[i].session = SessionOf(e, i)
      BY <1>3
    <3>1. CASE i < w.at
      BY <3>1
    <3>2. CASE i = w.at
      BY <2>2, <3>2
    <3> QED BY <3>1, <3>2
  <2>4. Len(m.did) = m.at - 1
    OBVIOUS
  <2> QED BY <2>3, <2>4 DEF History
<1> QED BY <1>2, <1>4, <1>5, <1>6, <1>7

(* What the harness knows of a run whose wiring holds. *)
LEMMA WiringHolds ==
    ASSUME NEW e \in Execution, NEW w, NEW c, NEW q, NEW level,
           w.pc = "wiring", w.at \in 1 .. 6, Place(w, c, disk, q), Left(e, w, c, disk, level), Wired(w.at)
    PROVE  "sidecar" \in c.has /\ c.session = SessionOf(e, w.at)
<1>1. Loaded(w, c) /\ During(w) /\ ~(w.at < w.at)
  BY DEF Place, Loaded, During
<1>2. "sidecar" \in c.has
  BY <1>1 DEF Left, Receipts, Wired, Receipted
<1>3. CASE Resumed(w.at)
  <2>1. SameSession(w.at)
    BY <1>3 DEF Wired
  <2>2. disk.resumed[Runs[w.at]] = c.session
    BY <1>1, <2>1 DEF Left, Receipts, SameSession
  <2>3. disk.evidence["run_1"].session = <<e, "run_1">>
    BY <2>1 DEF Left, Evidence, SameSession
  <2> QED BY <1>2, <1>3, <2>1, <2>2, <2>3 DEF SameSession, SessionOf
<1>4. CASE ~Resumed(w.at)
  BY <1>1, <1>2, <1>4 DEF Left, Sessions, SessionOf
<1> QED BY <1>3, <1>4

(* The fields of an execution that goes on to the next run. *)
LEMMA CountedFields ==
    ASSUME HInv, NEW e \in Execution
    PROVE  LET m == Counted(e) IN
           /\ m.pc = "next" /\ m.at = x[e].at + 1 /\ m.executed = x[e].executed + 1 /\ m.made = x[e].made
           /\ m.status = x[e].status /\ m.requests = x[e].requests /\ m.checks = x[e].checks
           /\ m.known = x[e].known /\ m.prior = x[e].prior /\ m.report = x[e].report
           /\ m.alone = x[e].alone /\ m.did = x[e].did /\ DOMAIN m = XFields
  BY DEF HInv, XType, XFields, Counted

(* A run is wired when its own receipts and claims are there. *)
LEMMA PassVerifyWiring == ASSUME PInv, HInv', NEW e \in Execution, VerifyWiring(e) PROVE PInv'
<1> PICK w : w = x[e]
  OBVIOUS
<1> PICK c : c = child[e]
  OBVIOUS
<1> PICK q : q = stream[e]
  OBVIOUS
<1> PICK level : level = asked[e].level
  OBVIOUS
<1>0. /\ w.pc = "wiring" /\ Entered(e) /\ UNCHANGED <<asked, disk, stream, child>>
      /\ During(w) /\ Mine(e, w, c, disk, q, level) /\ ExecutionShape(w)
  BY DEF VerifyWiring, AtStep, Entered, Waiting, During, PInv, Everyone, Shapes
<1>1. Reports(w, level) /\ w.at \in 1 .. 6
  BY <1>0 DEF Mine, Reports, Numbers
<1>2. Works(w) <=> Sole(w)
  BY <1>0 DEF Works
<1>3. Sole(w) => /\ Place(w, c, disk, q) /\ Counting(w, c, disk) /\ Left(e, w, c, disk, level)
                 /\ History(e, w) /\ (level = "business" => Found(e, w))
  BY <1>0, <1>2 DEF Mine, AtWork, Past
<1>4. CASE ~Wired(w.at)
  <2>1. Fails(e, "dsh_compatibility_failed")
    BY <1>4 DEF VerifyWiring
  <2> QED BY <1>0, <2>1, FailStops
<1>5. ASSUME Wired(w.at), Sole(w) PROVE "sidecar" \in c.has /\ c.session = SessionOf(e, w.at)
  BY <1>0, <1>1, <1>3, <1>5, WiringHolds
<1>6. CASE Wired(w.at) /\ level = "business"
  <2> PICK m : m = [x[e] EXCEPT !.pc = "judge"]
    OBVIOUS
  <2>1. m.pc = "judge" /\ m.made = w.made
        /\ m.at = w.at /\ m.status = w.status /\ m.executed = w.executed
        /\ m.requests = w.requests /\ m.checks = w.checks /\ m.known = w.known
        /\ m.prior = w.prior /\ m.report = w.report /\ m.alone = w.alone /\ m.did = w.did
    BY SameButPlace DEF PInv
  <2>2. Becomes(e, m)
    BY <1>6 DEF VerifyWiring
  <2>3. Reports(m, level)
    <3>1. w.at <= 6 /\ Judging(w) /\ m.pc \notin {"clean", "done"} /\ w.pc # "done" /\ level # "wiring"
      BY <1>0, <1>1, <1>6, <2>1 DEF Judging
    <3> QED BY ONLY <1>1, <2>1, <3>1, ReportsLike
  <2>4. /\ During(m) /\ (Loaded(m, c) <=> Loaded(w, c)) /\ (Sole(m) <=> Sole(w)) /\ (Works(m) <=> Sole(m))
        /\ ~Before(m, c) <=> ~Before(w, c)
    BY <1>0, <2>1 DEF During, Loaded, Sole, Works, Before
  <2>5. Works(m) => Place(m, c, disk, q) /\ Counting(m, c, disk) /\ Left(e, m, c, disk, level)
    <3> SUFFICES ASSUME Works(m) PROVE Place(m, c, disk, q) /\ Counting(m, c, disk) /\ Left(e, m, c, disk, level)
      OBVIOUS
    <3>1. Place(w, c, disk, q) /\ Counting(w, c, disk) /\ Left(e, w, c, disk, level)
      BY <1>3, <2>4
    <3>2. During(w) /\ w.pc = "wiring" /\ m.pc = "judge"
      BY <1>0, <2>1
    <3>3. Place(m, c, disk, q)
      BY ONLY <2>1, <2>4, <3>1, <3>2 DEF Place
    <3>4. Counting(m, c, disk)
      BY ONLY <2>1, <2>4, <3>1, <3>2 DEF Counting
    <3>5. Left(e, m, c, disk, level)
      BY ONLY <2>1, <2>4, <3>1, <3>2, LeftLike
    <3> QED BY <3>3, <3>4, <3>5
  <2>6. Past(e, m, level)
    <3> SUFFICES ASSUME Sole(m) PROVE History(e, m) /\ (level = "business" => Found(e, m))
      BY DEF Past
    <3>1. History(e, w) /\ (level = "business" => Found(e, w)) /\ Place(w, c, disk, q)
      BY <1>3, <2>4
    <3>2. "sidecar" \in w.did[w.at].has /\ w.did[w.at].session = SessionOf(e, w.at)
      BY <1>0, <1>5, <1>6, <2>4, <3>1 DEF Place
    <3>3. History(e, m)
      <4>1. Len(m.did) = m.at /\ m.at = w.at /\ m.did = w.did /\ m.pc = "judge"
        BY <1>0, <2>1, <3>1 DEF History
      <4>2. ASSUME NEW i \in 1 .. 6, i < w.at \/ i = w.at
            PROVE  "sidecar" \in w.did[i].has /\ w.did[i].session = SessionOf(e, i)
        BY <3>1, <3>2, <4>2 DEF History
      <4> QED BY ONLY <4>1, <4>2 DEF History
    <3>4. Found(e, w) => Found(e, m)
      BY ONLY <2>1 DEF Found
    <3> QED BY <3>1, <3>3, <3>4
  <2>7. AtEnd(m, c, q)
    BY <2>4 DEF AtEnd
  <2>8. Mine(e, m, c, disk, q, level) /\ ExecutionShape(m)
    BY <1>0, <2>1, <2>3, <2>5, <2>6, <2>7 DEF Mine, AtWork, ExecutionShape
  <2> QED
    <3>1. Entered(e) /\ Becomes(e, m) /\ UNCHANGED <<asked, disk, stream, child>>
          /\ m.pc \notin Waiting /\ m.alone = x[e].alone
      BY <1>0, <2>1, <2>2 DEF Waiting
    <3>2. Mine(e, m, child[e], disk, stream[e], asked[e].level) /\ ExecutionShape(m)
      BY <2>8
    <3> QED BY ONLY PInv, HInv', e \in Execution, <3>1, <3>2, OwnMind
<1>7. CASE Wired(w.at) /\ level # "business"
  <2> PICK m : m = Counted(e)
    OBVIOUS
  <2>1. m.pc = "next" /\ m.made = w.made
        /\ m.at = w.at + 1 /\ m.status = w.status /\ m.executed = w.executed + 1
        /\ m.requests = w.requests /\ m.checks = w.checks /\ m.known = w.known
        /\ m.prior = w.prior /\ m.report = w.report /\ m.alone = w.alone /\ m.did = w.did
    BY CountedFields DEF PInv
  <2>2. Becomes(e, m)
    BY <1>7 DEF VerifyWiring
  <2>3. Reports(m, level)
    <3>1. Numbers(m)
      BY <1>0, <1>1, <2>1 DEF Reports, Numbers, Judging, During
    <3>2. Verdicts(m, level) /\ Told(m, level)
      BY <1>0, <1>1, <1>7, <2>1 DEF Reports, Verdicts, Told, Check
    <3> QED BY <3>1, <3>2 DEF Reports
  <2>4. (Sole(m) <=> Sole(w)) /\ (Works(m) <=> Sole(m))
    BY <1>0, <2>1 DEF Sole, Works
  <2>5. Sole(m) => Place(m, c, disk, q) /\ Counting(m, c, disk) /\ Left(e, m, c, disk, level) /\ History(e, m)
    <3> SUFFICES ASSUME Sole(w)
                 PROVE  Place(m, c, disk, q) /\ Counting(m, c, disk) /\ Left(e, m, c, disk, level) /\ History(e, m)
      BY <2>4
    <3>1. /\ Len(w.did) = w.at
          /\ \A i \in 1 .. 6 : i < w.at => "sidecar" \in w.did[i].has /\ w.did[i].session = SessionOf(e, i)
      BY <1>0, <1>3 DEF History
    <3> QED BY <1>0, <1>1, <1>2, <1>3, <1>5, <1>7, <2>1, <3>1, CountedOn DEF Left
  <2>6. AtEnd(m, c, q)
    BY <2>4 DEF AtEnd
  <2>7. Mine(e, m, c, disk, q, level) /\ ExecutionShape(m)
    BY <1>0, <1>7, <2>1, <2>3, <2>4, <2>5, <2>6 DEF Mine, AtWork, Past, ExecutionShape
  <2> QED
    <3>1. Entered(e) /\ Becomes(e, m) /\ UNCHANGED <<asked, disk, stream, child>>
          /\ m.pc \notin Waiting /\ m.alone = x[e].alone
      BY <1>0, <2>1, <2>2 DEF Waiting
    <3>2. Mine(e, m, child[e], disk, stream[e], asked[e].level) /\ ExecutionShape(m)
      BY <2>7
    <3> QED BY ONLY PInv, HInv', e \in Execution, <3>1, <3>2, OwnMind
<1> QED BY <1>4, <1>6, <1>7

-----------------------------------------------------------------------------
(* Each run has its own predicate. *)
LEMMA Dispatches ==
    ASSUME NEW ev, NEW before, NEW after, NEW other, NEW known, NEW target
    PROVE  /\ Judgement("run_1", ev, before, after, other, known, target) => AutomaticCapture(ev, after, target)
           /\ Judgement("run_2", ev, before, after, other, known, target) => RestartPersistence(ev, known.short)
           /\ Judgement("run_3", ev, before, after, other, known, target) => Promotion(ev, after, known.short, target)
           /\ Judgement("run_4", ev, before, after, other, known, target) => CrossSessionReading(ev, after, known)
           /\ Judgement("run_5", ev, before, after, other, known, target)
                 => ForgetAndGrantInvalidation(ev, after, known.long)
  BY SMT DEF Judgement

(* The identities keep their names. *)
LEMMA AdvancesShaped ==
    ASSUME NEW ev, NEW known, NEW target, DOMAIN known = IdentityFields, NEW run \in RunNames
    PROVE  DOMAIN Advance(run, ev, known, target) = IdentityFields
<1> DEFINE g == ev.execs[First(ev, "open")].grant
<1>1. \/ Advance(run, ev, known, target) = known
      \/ Advance(run, ev, known, target) = [known EXCEPT !.session = ev.session, !.short = target]
      \/ Advance(run, ev, known, target) = [known EXCEPT !.grant = g]
      \/ Advance(run, ev, known, target) = [known EXCEPT !.long = target]
  BY DEF Advance
<1> HIDE DEF g
<1> QED BY ONLY <1>1, DOMAIN known = IdentityFields

(* Each run has its own identities. *)
LEMMA Advances ==
    ASSUME NEW ev, NEW known, NEW target, DOMAIN known = IdentityFields
    PROVE  /\ LET k == Advance("run_1", ev, known, target) IN
              DOMAIN k = IdentityFields /\ k.session = ev.session /\ k.short = target
           /\ LET k == Advance("run_2", ev, known, target) IN
              DOMAIN k = IdentityFields /\ k.session = known.session /\ k.short = known.short
           /\ LET k == Advance("run_3", ev, known, target) IN
              DOMAIN k = IdentityFields /\ k.session = known.session /\ k.short = known.short /\ k.long = target
           /\ Advance("run_4", ev, known, target) = known
           /\ Advance("run_5", ev, known, target) = known
           /\ Advance("run_6", ev, known, target) = known
           /\ \A run \in RunNames : DOMAIN Advance(run, ev, known, target) = IdentityFields
<1>2. LET k == Advance("run_1", ev, known, target) IN
      DOMAIN k = IdentityFields /\ k.session = ev.session /\ k.short = target
  BY DEF Advance, IdentityFields
<1>3. LET k == Advance("run_2", ev, known, target) IN
      DOMAIN k = IdentityFields /\ k.session = known.session /\ k.short = known.short
  <2> DEFINE g == ev.execs[First(ev, "open")].grant
  <2>1. Advance("run_2", ev, known, target) = [known EXCEPT !.grant = g]
    BY SMT DEF Advance
  <2> HIDE DEF g
  <2> QED BY <2>1 DEF IdentityFields
<1>4. LET k == Advance("run_3", ev, known, target) IN
      DOMAIN k = IdentityFields /\ k.session = known.session /\ k.short = known.short /\ k.long = target
  BY DEF Advance, IdentityFields
<1>5. /\ Advance("run_4", ev, known, target) = known /\ Advance("run_5", ev, known, target) = known
      /\ Advance("run_6", ev, known, target) = known
  BY SMT DEF Advance
<1>6. \A run \in RunNames : DOMAIN Advance(run, ev, known, target) = IdentityFields
  BY AdvancesShaped
<1> QED BY <1>2, <1>3, <1>4, <1>5, <1>6


(* What is served of the long term is there, and is not forgotten. *)
LEMMA LongServed ==
    ASSUME NEW a, NEW n, Long(n) \in Served(a)
    PROVE  n \in a.long /\ Long(n) \notin a.forget
<1>1. \A m : Long(n) # Short(m) /\ (Long(n) = Long(m) => n = m)
  BY DEF Long, Short
<1>2. PICK m \in a.long : Long(m) \notin a.forget /\ Long(n) = Long(m)
  BY <1>1 DEF Served
<1> QED BY <1>1, <1>2

(* A judgement that goes well establishes what the next ones go by. *)
LEMMA Establishes ==
    ASSUME NEW e \in Execution, NEW w, NEW c, NEW d, NEW q, NEW m, NEW ev, NEW other, NEW target,
           w.pc = "judge", w.at \in 1 .. 6, Place(w, c, d, q), Left(e, w, c, d, "business"),
           History(e, w), Found(e, w), DOMAIN w.known = IdentityFields,
           ev = d.evidence[Runs[w.at]], ev # None,
           Judgement(Runs[w.at], ev, w.prior, Snapshot(d.memory["a"]), other, w.known, target),
           m.pc = "next", m.at = w.at + 1, m.did = w.did, m.prior = Snapshot(d.memory["a"]),
           m.known = Advance(Runs[w.at], ev, w.known, target)
    PROVE  Found(e, m) /\ Keeps(m, c, d) /\ DOMAIN m.known = IdentityFields
<1> PICK a : a = d.memory["a"]
  OBVIOUS
<1> PICK after : after = Snapshot(a)
  OBVIOUS
<1> PICK k : k = w.known
  OBVIOUS
<1>1. after.short = a.short /\ after.long = a.long /\ after.forget = a.forget /\ after.index = Served(a)
  BY DEF Snapshot
<1>2. During(w) /\ ~During(m) /\ Loaded(w, c) /\ ~Loaded(m, c) /\ Before(m, c) /\ ~(w.at < w.at)
  BY DEF During, Loaded, Before, Place
<1>3. Backed(ev, c.session, c.events) /\ c.session = SessionOf(e, w.at) /\ w.did[w.at].events = c.events
  <2>1. w.did[w.at] = [session |-> c.session, has |-> c.has, events |-> c.events]
    BY DEF Place
  <2>2. w.did[w.at].session = SessionOf(e, w.at)
    BY DEF History
  <2>3. Backed(ev, c.session, c.events)
    BY <1>2 DEF Left, Evidence
  <2> QED BY <2>1, <2>2, <2>3
<1>4. m.prior = after /\ Judgement(Runs[w.at], ev, w.prior, after, other, k, target)
      /\ m.known = Advance(Runs[w.at], ev, k, target) /\ DOMAIN k = IdentityFields
  OBVIOUS
<1>5. Keeps(w, c, d)
  BY DEF Left
<1>12. a = d.memory["a"] /\ m.did = w.did
  OBVIOUS
<1>6. CASE w.at = 1
  <2>1. AutomaticCapture(ev, after, target) /\ m.known.session = ev.session /\ m.known.short = target
        /\ DOMAIN m.known = IdentityFields
    BY <1>4, <1>6, RunsApart, Dispatches, Advances
  <2>2. ev.session = <<e, "run_1">>
    BY <1>6, RunsApart DEF Left, Evidence
  <2>3. target \in a.short
    BY <1>1, <2>1 DEF AutomaticCapture
  <2>4. m.at = 2
    BY <1>6
  <2>7. Found(e, m)
    BY ONLY <1>12, <1>1, <1>4, <2>1, <2>2, <2>3, <2>4 DEF Found
  <2>8. Keeps(m, c, d)
    BY ONLY <1>12, <1>1, <1>4, <2>1, <2>2, <2>3, <2>4 DEF Keeps
  <2> QED BY <1>4, <2>1, <2>7, <2>8
<1>7. CASE w.at = 2
  <2>1. RestartPersistence(ev, k.short) /\ m.known.session = k.session /\ m.known.short = k.short
        /\ DOMAIN m.known = IdentityFields
    BY <1>4, <1>7, RunsApart, Dispatches, Advances
  <2>2. Says(w.did[2].events, "open", Short(k.short))
    BY <1>3, <1>7, <2>1, RestartOpens
  <2>3. k.short \in a.short /\ k.session = <<e, "run_1">>
    BY <1>5, <1>7 DEF Keeps, Found
  <2>4. m.at = 3
    BY <1>7
  <2>7. Found(e, m)
    BY ONLY <1>12, <1>1, <1>4, <2>1, <2>2, <2>3, <2>4 DEF Found
  <2>8. Keeps(m, c, d)
    BY ONLY <1>12, <1>1, <1>4, <2>1, <2>2, <2>3, <2>4 DEF Keeps
  <2> QED BY <1>4, <2>1, <2>7, <2>8
<1>8. CASE w.at = 3
  <2>1. Promotion(ev, after, k.short, target) /\ m.known.session = k.session /\ m.known.short = k.short
        /\ m.known.long = target /\ DOMAIN m.known = IdentityFields
    BY <1>4, <1>8, RunsApart, Dispatches, Advances
  <2>2. target \in a.long /\ Long(target) \notin a.forget
    BY <1>1, <2>1, LongServed DEF Promotion
  <2>3. c.session = <<e, "run_1">>
    BY <1>3, <1>8, RunsApart DEF SessionOf
  <2>4. Says(w.did[3].events, "promote", Short(target))
    <3>1. w.at <= 3
      BY <1>8
    <3> QED BY <1>2, <1>3, <1>8, <2>2, <2>3, <3>1 DEF Left, Promotes
  <2>5. k.short \in a.short /\ k.session = <<e, "run_1">> /\ Says(w.did[2].events, "open", Short(k.short))
    BY <1>5, <1>8 DEF Keeps, Found
  <2>6. m.at = 4
    BY <1>8
  <2>7. Found(e, m)
    BY ONLY <1>12, <1>1, <1>2, <1>4, <2>1, <2>2, <2>4, <2>5, <2>6 DEF Found
  <2>8. Keeps(m, c, d)
    BY ONLY <1>12, <1>1, <1>2, <1>4, <2>1, <2>2, <2>4, <2>5, <2>6 DEF Keeps
  <2> QED BY <1>4, <2>1, <2>7, <2>8
<1>9. CASE w.at = 4
  <2>1. CrossSessionReading(ev, after, k) /\ m.known = k
    BY <1>4, <1>9, RunsApart, Dispatches, Advances
  <2>2. Says(w.did[4].events, "open", Long(k.long))
    BY <1>3, <1>9, <2>1, ReadingOpens
  <2>3. /\ k.short \in a.short /\ k.long \in a.long /\ k.session = <<e, "run_1">>
        /\ Says(w.did[2].events, "open", Short(k.short)) /\ Says(w.did[3].events, "promote", Short(k.long))
    BY <1>5, <1>9 DEF Keeps, Found
  <2>4. Long(k.long) \in a.forget => Says(w.did[4].events, "forget", Long(k.long))
    BY <1>2, <1>3, <1>5, <1>9 DEF Keeps
  <2>5. m.at = 5
    BY <1>9
  <2>7. Found(e, m)
    BY ONLY <1>12, <1>1, <1>2, <1>4, <2>1, <2>2, <2>3, <2>4, <2>5 DEF Found
  <2>8. Keeps(m, c, d)
    BY ONLY <1>12, <1>1, <1>2, <1>4, <2>1, <2>2, <2>3, <2>4, <2>5 DEF Keeps
  <2> QED BY <1>4, <2>1, <2>7, <2>8
<1>10. CASE w.at = 5
  <2>1. ForgetAndGrantInvalidation(ev, after, k.long) /\ m.known = k
    BY <1>4, <1>10, RunsApart, Dispatches, Advances
  <2>2. Long(k.long) \in a.forget
    BY <1>1, <2>1 DEF ForgetAndGrantInvalidation
  <2>3. \E i \in {4, 5} : Says(w.did[i].events, "forget", Long(k.long))
    <3>1. Says(w.did[4].events, "forget", Long(k.long)) \/ Says(c.events, "forget", Long(k.long))
      BY <1>2, <1>5, <1>10, <2>2 DEF Keeps
    <3> QED BY <1>3, <1>10, <3>1
  <2>4. /\ k.short \in a.short /\ k.long \in a.long /\ k.session = <<e, "run_1">>
        /\ Says(w.did[2].events, "open", Short(k.short)) /\ Says(w.did[3].events, "promote", Short(k.long))
        /\ Says(w.did[4].events, "open", Long(k.long))
    BY <1>5, <1>10 DEF Keeps, Found
  <2>5. m.at = 6
    BY <1>10
  <2>7. Found(e, m)
    BY ONLY <1>12, <1>1, <1>2, <1>4, <2>1, <2>3, <2>4, <2>5 DEF Found
  <2>8. Keeps(m, c, d)
    BY ONLY <1>12, <1>1, <1>2, <1>4, <2>1, <2>3, <2>4, <2>5 DEF Keeps
  <2> QED BY <1>4, <2>1, <2>7, <2>8
<1>11. CASE w.at = 6
  <2>1. m.known = k
    BY <1>4, <1>11, RunsApart, Advances
  <2>2. /\ k.short \in a.short /\ k.long \in a.long /\ k.session = <<e, "run_1">>
        /\ Says(w.did[2].events, "open", Short(k.short)) /\ Says(w.did[3].events, "promote", Short(k.long))
        /\ Says(w.did[4].events, "open", Long(k.long))
        /\ \E i \in {4, 5} : Says(w.did[i].events, "forget", Long(k.long))
    BY <1>5, <1>11 DEF Keeps, Found
  <2>3. m.at = 7
    BY <1>11
  <2>7. Found(e, m)
    BY ONLY <1>12, <1>1, <1>2, <1>4, <2>1, <2>2, <2>3 DEF Found
  <2>8. Keeps(m, c, d)
    BY ONLY <1>12, <1>1, <1>2, <1>4, <2>1, <2>2, <2>3 DEF Keeps
  <2> QED BY <1>4, <2>1, <2>7, <2>8
<1> QED BY <1>6, <1>7, <1>8, <1>9, <1>10, <1>11

(* Which checks the judgement of a run decides. *)
LEMMA Decided ==
    ASSUME NEW k \in 1 .. 6, NEW i \in 1 .. 6
    PROVE  BusinessChecks[i] \in Decides(Runs[k])
              <=> (Passed(k) < i /\ i <= Passed(k + 1)) \/ (k = 4 /\ i = 4)
<1>1. /\ BusinessChecks[1] = "automatic_capture" /\ BusinessChecks[2] = "restart_persistence"
      /\ BusinessChecks[3] = "progressive_disclosure" /\ BusinessChecks[4] = "promotion"
      /\ BusinessChecks[5] = "forget_and_grant" /\ BusinessChecks[6] = "scope_isolation"
  BY DEF BusinessChecks
<1>2. i = 1 \/ i = 2 \/ i = 3 \/ i = 4 \/ i = 5 \/ i = 6
  OBVIOUS
<1>3. CASE k = 1
  <2>1. Decides(Runs[k]) = {"automatic_capture"} /\ Passed(k) = 0 /\ Passed(k + 1) = 1
    BY <1>3, RunsApart DEF Decides, Passed
  <2> QED BY <1>1, <1>2, <1>3, <2>1
<1>4. CASE k = 2
  <2>1. Decides(Runs[k]) = {"restart_persistence", "progressive_disclosure"} /\ Passed(k) = 1 /\ Passed(k + 1) = 3
    BY <1>4, RunsApart DEF Decides, Passed
  <2> QED BY <1>1, <1>2, <1>4, <2>1
<1>5. CASE k = 3
  <2>1. Decides(Runs[k]) = {"promotion"} /\ Passed(k) = 3 /\ Passed(k + 1) = 4
    BY <1>5, RunsApart DEF Decides, Passed
  <2> QED BY <1>1, <1>2, <1>5, <2>1
<1>6. CASE k = 4
  <2>1. Decides(Runs[k]) = {"promotion"} /\ Passed(k) = 4 /\ Passed(k + 1) = 4
    BY <1>6, RunsApart DEF Decides, Passed
  <2> QED BY <1>1, <1>2, <1>6, <2>1
<1>7. CASE k = 5
  <2>1. Decides(Runs[k]) = {"forget_and_grant"} /\ Passed(k) = 4 /\ Passed(k + 1) = 5
    BY <1>7, RunsApart DEF Decides, Passed
  <2> QED BY <1>1, <1>2, <1>7, <2>1
<1>8. CASE k = 6
  <2>1. Decides(Runs[k]) = {"scope_isolation"} /\ Passed(k) = 5 /\ Passed(k + 1) = 6
    BY <1>8, RunsApart DEF Decides, Passed
  <2> QED BY <1>1, <1>2, <1>8, <2>1
<1> QED BY <1>3, <1>4, <1>5, <1>6, <1>7, <1>8

(* The verdicts of a judgement. *)
LEMMA JudgedVerdicts ==
    ASSUME NEW w, w.pc = "judge", w.at \in 1 .. 6, Verdicts(w, "business"),
           NEW m, NEW verdict \in {"pass", "fail"}, m.checks = Marked(w.checks, Decides(Runs[w.at]), verdict),
           verdict = "pass" => m.at = w.at + 1,
           verdict = "fail" => ~Judging(m)
    PROVE  Verdicts(m, "business")
<1> PICK k \in 1 .. 6 : k = w.at
  OBVIOUS
<1>1. \A i \in 1 .. 6 : Check(w, i) = IF i <= Passed(k) THEN "pass" ELSE "not_run"
  BY DEF Verdicts, Judging
<1>2. \A i \in 1 .. 6 : Check(m, i) = IF BusinessChecks[i] \in Decides(Runs[k]) THEN verdict ELSE Check(w, i)
  BY ChecksApart DEF Check, Marked
<1>3. Passed(k) \in 0 .. 6 /\ Passed(k + 1) \in 0 .. 6 /\ Passed(k) <= Passed(k + 1) /\ (k = 4 => Passed(k) = 4)
      /\ (k = 4 => Passed(k + 1) = 4)
  <2>1. k = 1 \/ k = 2 \/ k = 3 \/ k = 4 \/ k = 5 \/ k = 6
    OBVIOUS
  <2> QED BY <2>1 DEF Passed
<1> PICK p \in 0 .. 6 : p = Passed(k)
  BY <1>3
<1> PICK r \in 0 .. 6 : r = Passed(k + 1)
  BY <1>3
<1>4. \A i \in 1 .. 6 : BusinessChecks[i] \in Decides(Runs[k]) <=> (p < i /\ i <= r) \/ (k = 4 /\ i = 4)
  BY Decided
<1>5. p <= r /\ (k = 4 => p = 4 /\ r = 4)
  BY <1>3
<1>6. CASE verdict = "pass"
  <2>1. \A i \in 1 .. 6 : Check(m, i) = IF i <= r THEN "pass" ELSE "not_run"
    BY <1>1, <1>2, <1>4, <1>5, <1>6
  <2>2. m.at = k + 1
    BY <1>6
  <2> QED BY <2>1, <2>2 DEF Verdicts
<1>7. CASE verdict = "fail"
  <2>1. \A i \in 1 .. 6 : Check(m, i) = "pass" <=> i <= p /\ ~(k = 4 /\ i = 4)
    BY <1>1, <1>2, <1>4, <1>5, <1>7
  <2>2. \A i, j \in 1 .. 6 : i < j /\ Check(m, j) = "pass" => Check(m, i) = "pass"
    BY <1>5, <2>1
  <2> QED BY <1>7, <2>2 DEF Verdicts
<1> QED BY <1>6, <1>7

(* A judgement that goes well establishes what the next runs go by. *)
LEMMA PassJudge == ASSUME PInv, HInv', NEW e \in Execution, Judge(e) PROVE PInv'
<1> PICK w : w = x[e]
  OBVIOUS
<1> PICK c : c = child[e]
  OBVIOUS
<1> PICK q : q = stream[e]
  OBVIOUS
<1> PICK level : level = asked[e].level
  OBVIOUS
<1>0. /\ w.pc = "judge" /\ Entered(e) /\ UNCHANGED <<asked, disk, stream, child>>
      /\ During(w) /\ Mine(e, w, c, disk, q, level) /\ ExecutionShape(w)
  BY DEF Judge, AtStep, Entered, Waiting, During, PInv, Everyone, Shapes
<1>1. Reports(w, level) /\ w.at \in 1 .. 6
  BY <1>0 DEF Mine, Reports, Numbers
<1>2. Works(w) <=> Sole(w)
  BY <1>0 DEF Works
<1>3. Sole(w) => /\ Place(w, c, disk, q) /\ Counting(w, c, disk) /\ Left(e, w, c, disk, level)
                 /\ History(e, w) /\ (level = "business" => Found(e, w))
  BY <1>0, <1>2 DEF Mine, AtWork, Past
<1>4. level = "business"
  <2>1. level \in {"wiring", "business"}
    BY HarnessAssumption DEF HarnessAssumption, PInv, Shapes
  <2>2. level # "wiring"
    BY <1>0, <1>1 DEF Reports, Verdicts
  <2> QED BY <2>1, <2>2
<1> DEFINE run   == Runs[w.at]
           ev    == disk.evidence[run]
           after == Snapshot(disk.memory["a"])
           other == Snapshot(disk.memory["b"])
           thrown == [x[e] EXCEPT !.pc = "clean", !.status = "fail", !.reason = "product_invariant_failed",
                                  !.checks = Marked(x[e].checks, {"execution_wiring"}, "fail")]
           passed(target) == [Counted(e) EXCEPT !.checks = Marked(x[e].checks, Decides(run), "pass"), !.prior = after,
                                       !.known = Advance(run, ev, x[e].known, target)]
           failed == [x[e] EXCEPT !.pc = "sum", !.status = "fail",
                           !.reason = "product_invariant_failed",
                           !.checks = Marked(x[e].checks, Decides(run), "fail")]
<1>5. \/ Fails(e, "product_invariant_failed")
      \/ Becomes(e, thrown)
      \/ Becomes(e, failed)
      \/ ev # None /\ \E target : /\ Judgement(run, ev, x[e].prior, after, other, x[e].known, target)
                                  /\ Becomes(e, passed(target))
  BY DEF Judge
<1> HIDE DEF run, ev, after, other
<1>6. CASE Fails(e, "product_invariant_failed")
  BY <1>0, <1>6, FailStops
<1>7. ASSUME NEW m, Becomes(e, m), m.pc \in {"clean", "sum"}, m.status = "fail", m.alone = w.alone, m.at = w.at,
             m.executed = w.executed, m.requests = w.requests, m.report = w.report, m.did = w.did,
             m.known = w.known, DOMAIN m.checks = Checks, Verdicts(m, "business"),
             m.pc = "clean" => m.checks["execution_wiring"] = "fail"
      PROVE  PInv'
  <2>1. Numbers(m)
    BY <1>0, <1>1, <1>7 DEF Reports, Numbers, Judging, During
  <2>2. Told(m, level)
    BY <1>0, <1>1, <1>7 DEF Reports, Told
  <2>3. ~Sole(m) /\ ~Works(m)
    BY <1>7 DEF Sole, Works
  <2>4. Mine(e, m, c, disk, q, level) /\ ExecutionShape(m)
    BY <1>0, <1>4, <1>7, <2>1, <2>2, <2>3 DEF Mine, AtWork, Past, AtEnd, Reports, ExecutionShape
  <2> QED
    <3>1. Entered(e) /\ Becomes(e, m) /\ UNCHANGED <<asked, disk, stream, child>>
          /\ m.pc \notin Waiting /\ m.alone = x[e].alone
      BY <1>0, <1>7 DEF Waiting
    <3>2. Mine(e, m, child[e], disk, stream[e], asked[e].level) /\ ExecutionShape(m)
      BY <2>4
    <3> QED BY ONLY PInv, HInv', e \in Execution, <3>1, <3>2, OwnMind
<1>8. CASE Becomes(e, thrown)
  <2> PICK m : m = thrown
    OBVIOUS
  <2>1. /\ m.pc = "clean" /\ m.status = "fail" /\ m.alone = w.alone /\ m.at = w.at
        /\ m.executed = w.executed /\ m.requests = w.requests /\ m.report = w.report /\ m.did = w.did
        /\ m.known = w.known /\ m.checks = Marked(w.checks, {"execution_wiring"}, "fail")
    BY DEF PInv, HInv, XType, XFields
  <2>2. DOMAIN m.checks = Checks /\ m.checks["execution_wiring"] = "fail"
        /\ \A i \in 1 .. 6 : Check(m, i) = Check(w, i)
    BY <2>1, ChecksApart DEF Marked, Check
  <2>3. Verdicts(m, "business")
    BY <1>1, <1>4, <2>1, <2>2 DEF Reports, Verdicts, Judging
  <2> HIDE DEF thrown
  <2> QED BY <1>7, <1>8, <2>1, <2>2, <2>3
<1>9. CASE Becomes(e, failed)
  <2> PICK m : m = failed
    OBVIOUS
  <2>1. /\ m.pc = "sum" /\ m.status = "fail" /\ m.alone = w.alone /\ m.at = w.at
        /\ m.executed = w.executed /\ m.requests = w.requests /\ m.report = w.report /\ m.did = w.did
        /\ m.known = w.known /\ m.checks = Marked(w.checks, Decides(run), "fail")
    BY DEF PInv, HInv, XType, XFields
  <2>2. DOMAIN m.checks = Checks /\ ~Judging(m)
    BY <2>1 DEF Marked, Judging
  <2>3. Verdicts(m, "business")
    <3>1. w.pc = "judge" /\ w.at \in 1 .. 6 /\ Verdicts(w, "business")
      BY <1>0, <1>1, <1>4 DEF Reports
    <3>2. m.checks = Marked(w.checks, Decides(Runs[w.at]), "fail") /\ ~Judging(m)
      BY <2>1, <2>2 DEF run
    <3>3. "fail" \in {"pass", "fail"} /\ "pass" # "fail"
      OBVIOUS
    <3> QED BY ONLY <3>1, <3>2, <3>3, JudgedVerdicts
  <2> HIDE DEF failed
  <2> QED BY <1>7, <1>9, <2>1, <2>2, <2>3
<1>10. ASSUME ev # None, NEW target, Judgement(run, ev, x[e].prior, after, other, x[e].known, target),
              Becomes(e, passed(target))
       PROVE  PInv'
  <2> PICK m : m = passed(target)
    OBVIOUS
  <2>1. /\ m.pc = "next" /\ m.status = w.status /\ m.alone = w.alone /\ m.at = w.at + 1
        /\ m.executed = w.executed + 1 /\ m.requests = w.requests /\ m.report = w.report /\ m.did = w.did
        /\ m.checks = Marked(w.checks, Decides(run), "pass") /\ m.prior = after /\ m.made = w.made
        /\ m.known = Advance(run, ev, w.known, target)
    <3> PICK v : v = Counted(e)
      OBVIOUS
    <3>1. /\ v.pc = "next" /\ v.at = w.at + 1 /\ v.executed = w.executed + 1 /\ v.made = w.made
          /\ v.status = w.status /\ v.requests = w.requests /\ v.report = w.report
          /\ v.alone = w.alone /\ v.did = w.did /\ DOMAIN v = XFields
      BY CountedFields DEF PInv
    <3> DEFINE marks == Marked(x[e].checks, Decides(run), "pass")
               known == Advance(run, ev, x[e].known, target)
    <3>2. m = [v EXCEPT !.checks = marks, !.prior = after, !.known = known]
      OBVIOUS
    <3>3. marks = Marked(w.checks, Decides(run), "pass") /\ known = Advance(run, ev, w.known, target)
      OBVIOUS
    <3> HIDE DEF marks, known, passed
    <3> QED BY <3>1, <3>2, <3>3 DEF XFields
  <2> HIDE DEF passed
  <2>2. Judging(m) /\ ~During(m) /\ DOMAIN m.checks = Checks
    BY <2>1 DEF Judging, During, Marked
  <2>3. Verdicts(m, "business")
    <3>1. w.pc = "judge" /\ w.at \in 1 .. 6 /\ Verdicts(w, "business")
      BY <1>0, <1>1, <1>4 DEF Reports
    <3>2. m.checks = Marked(w.checks, Decides(Runs[w.at]), "pass") /\ m.at = w.at + 1
      BY <2>1 DEF run
    <3>3. "pass" \in {"pass", "fail"} /\ "pass" # "fail"
      OBVIOUS
    <3> QED BY ONLY <3>1, <3>2, <3>3, JudgedVerdicts
  <2>4. Numbers(m) /\ Told(m, level)
    BY <1>0, <1>1, <2>1, <2>2 DEF Reports, Numbers, Judging, During, Told
  <2>5. (Sole(m) <=> Sole(w)) /\ (Works(m) <=> Sole(m))
    BY <1>0, <2>1 DEF Sole, Works
  <2>6. Sole(m) => Place(m, c, disk, q) /\ Counting(m, c, disk) /\ Left(e, m, c, disk, level)
                   /\ History(e, m) /\ Found(e, m)
    <3> SUFFICES ASSUME Sole(w)
                 PROVE  Place(m, c, disk, q) /\ Counting(m, c, disk) /\ Left(e, m, c, disk, level)
                        /\ History(e, m) /\ Found(e, m)
      BY <2>5
    <3>1. /\ Place(w, c, disk, q) /\ Counting(w, c, disk) /\ Left(e, w, c, disk, "business")
          /\ History(e, w) /\ Found(e, w) /\ Works(w)
      BY <1>2, <1>3, <1>4
    <3>2. /\ Len(w.did) = w.at
          /\ \A i \in 1 .. 6 : i < w.at \/ i = w.at => "sidecar" \in w.did[i].has /\ w.did[i].session = SessionOf(e, i)
      BY <1>0, <3>1 DEF History
    <3>3. "sidecar" \in c.has /\ c.session = SessionOf(e, w.at)
      <4>1. w.did[w.at] = [session |-> c.session, has |-> c.has, events |-> c.events]
        BY <1>0, <3>1 DEF Place
      <4>2. "sidecar" \in w.did[w.at].has /\ w.did[w.at].session = SessionOf(e, w.at)
        BY <1>1, <3>2
      <4> QED BY <4>1, <4>2
    <3>4. /\ Place(m, c, disk, q) /\ Counting(m, c, disk) /\ Whole(e, c, disk) /\ Receipts(m, c, disk)
          /\ Evidence(e, m, c, disk) /\ Sessions(e, m, c) /\ Promotes(e, m, c, disk) /\ History(e, m)
      <4>1. \A i \in 1 .. 6 : i < w.at => "sidecar" \in w.did[i].has /\ w.did[i].session = SessionOf(e, i)
        BY <3>2
      <4>2. w.pc \in {"wiring", "judge"} /\ w.at \in 1 .. 6 /\ Len(w.did) = w.at
        BY <1>0, <1>1, <3>2
      <4>3. m.pc = "next" /\ m.at = w.at + 1 /\ m.made = w.made /\ m.did = w.did
        BY <2>1
      <4>4. Works(w) /\ Place(w, c, disk, q) /\ Counting(w, c, disk) /\ Left(e, w, c, disk, "business")
        BY <3>1
      <4> QED BY <3>3, <4>1, <4>2, <4>3, <4>4, CountedOn
    <3>5. Found(e, m) /\ Keeps(m, c, disk)
      <4>1. DOMAIN w.known = IdentityFields
        BY <1>0 DEF ExecutionShape
      <4>2. Judgement(Runs[w.at], ev, w.prior, Snapshot(disk.memory["a"]), other, w.known, target)
        BY <1>10 DEF run, after
      <4>3. /\ m.known = Advance(Runs[w.at], ev, w.known, target) /\ m.prior = Snapshot(disk.memory["a"])
            /\ ev = disk.evidence[Runs[w.at]]
        BY <2>1 DEF run, after, ev
      <4>4. m.pc = "next" /\ m.at = w.at + 1 /\ m.did = w.did
        BY <2>1
      <4>5. /\ w.pc = "judge" /\ w.at \in 1 .. 6 /\ Place(w, c, disk, q) /\ Left(e, w, c, disk, "business")
            /\ History(e, w) /\ Found(e, w)
        BY <1>0, <1>1, <3>1
      <4>6. ev # None
        BY <1>10
      <4> QED BY ONLY e \in Execution, <4>1, <4>2, <4>3, <4>4, <4>5, <4>6, Establishes
    <3> QED BY <3>4, <3>5 DEF Left
  <2>7. AtEnd(m, c, q)
    BY <2>5 DEF AtEnd
  <2>8. DOMAIN m.known = IdentityFields
    <3>1. DOMAIN w.known = IdentityFields
      BY <1>0 DEF ExecutionShape
    <3>2. run \in RunNames
      BY <1>1, RunsNamed DEF run
    <3>3. DOMAIN Advance(run, ev, w.known, target) = IdentityFields
      BY ONLY <3>1, <3>2, AdvancesShaped
    <3> QED BY ONLY <2>1, <3>3
  <2>9. Mine(e, m, c, disk, q, level) /\ ExecutionShape(m)
    BY <1>0, <1>4, <2>1, <2>2, <2>3, <2>4, <2>5, <2>6, <2>7, <2>8 DEF Mine, AtWork, Past, Reports, ExecutionShape
  <2> QED
    <3>1. Entered(e) /\ Becomes(e, m) /\ UNCHANGED <<asked, disk, stream, child>>
          /\ m.pc \notin Waiting /\ m.alone = x[e].alone
      BY <1>0, <1>10, <2>1 DEF Waiting
    <3>2. Mine(e, m, child[e], disk, stream[e], asked[e].level) /\ ExecutionShape(m)
      BY <2>9
    <3> QED BY ONLY PInv, HInv', e \in Execution, <3>1, <3>2, OwnMind
<1> HIDE DEF thrown, failed, passed
<1> QED BY <1>5, <1>6, <1>8, <1>9, <1>10

(* A ledger that can be read has a claim of a run under every number it    *)
(* counts.                                                                 *)
LEMMA ReadableCounts ==
    ASSUME NEW ledger, ledger \in Ledgers
    PROVE  /\ TotalClaimed(ledger) \in 0 .. MaxRequests
           /\ Readable(ledger) => TotalClaimed(ledger) = Cardinality(ClaimedBy(ledger))
<1>1. IsFiniteSet(Seqs) /\ Cardinality(Seqs) = MaxRequests /\ MaxRequests \in Nat
  BY HarnessAssumption, FS_Interval DEF HarnessAssumption, Seqs
<1>2. Created(ledger) \subseteq Seqs
  BY DEF Created
<1>3. Cardinality(Created(ledger)) \in Nat /\ Cardinality(Created(ledger)) <= MaxRequests
  BY <1>1, <1>2, FS_Subset, FS_CardinalityType
<1>4. Readable(ledger) => Created(ledger) = ClaimedBy(ledger)
  BY DEF Readable, Created, ClaimedBy, Ledgers, NoFile, Unwritten, RunNames
<1> QED BY <1>1, <1>3, <1>4 DEF TotalClaimed

(* The budget is what the claims of the ledger come to. *)
LEMMA PassSum == ASSUME PInv, HInv', NEW e \in Execution, Sum(e) PROVE PInv'
<1> PICK w : w = x[e]
  OBVIOUS
<1> PICK c : c = child[e]
  OBVIOUS
<1> PICK q : q = stream[e]
  OBVIOUS
<1> PICK level : level = asked[e].level
  OBVIOUS
<1>0. /\ w.pc = "sum" /\ Entered(e) /\ UNCHANGED <<asked, disk, stream, child>>
      /\ ~During(w) /\ Mine(e, w, c, disk, q, level) /\ ExecutionShape(w)
  BY DEF Sum, AtStep, Entered, Waiting, During, PInv, Everyone, Shapes
<1>1. Reports(w, level)
  BY <1>0 DEF Mine
<1>2. Works(w) <=> Sole(w)
  BY <1>0 DEF Works
<1>3. Sole(w) => Place(w, c, disk, q) /\ Counting(w, c, disk)
                 /\ History(e, w) /\ (level = "business" => Found(e, w))
  BY <1>0, <1>2 DEF Mine, AtWork, Past
<1>4. disk.ledger \in Ledgers
  BY DEF PInv, HInv, DiskType
<1>5. PICK n, ok, why, m :
         /\ ok \in BOOLEAN
         /\ n = IF Readable(disk.ledger) THEN TotalClaimed(disk.ledger) ELSE 0
         /\ ok <=> Readable(disk.ledger) /\ w.status = "pass" /\ w.executed = Len(Runs) /\ n > 0
         /\ m = [x[e] EXCEPT !.pc = "clean", !.requests = n,
                    !.status = IF ok THEN "pass" ELSE "fail", !.reason = why,
                    !.checks = Marked(x[e].checks, {"execution_wiring"}, IF ok THEN "pass" ELSE "fail")]
         /\ Becomes(e, m)
  <2> DEFINE readable == Readable(disk.ledger)
             k   == IF readable THEN TotalClaimed(disk.ledger) ELSE 0
             good == readable /\ x[e].status = "pass" /\ x[e].executed = Len(Runs) /\ k > 0
             reason == IF good \/ x[e].reason # "none" THEN x[e].reason
                       ELSE IF readable THEN "dsh_compatibility_failed" ELSE "product_invariant_failed"
             new == [x[e] EXCEPT !.pc = "clean", !.requests = k,
                        !.status = IF good THEN "pass" ELSE "fail", !.reason = reason,
                        !.checks = Marked(@, {"execution_wiring"}, IF good THEN "pass" ELSE "fail")]
  <2>1. Becomes(e, new)
    BY Zenon DEF Sum
  <2>2. new = [x[e] EXCEPT !.pc = "clean", !.requests = k,
                   !.status = IF good THEN "pass" ELSE "fail", !.reason = reason,
                   !.checks = Marked(x[e].checks, {"execution_wiring"}, IF good THEN "pass" ELSE "fail")]
    <3> HIDE DEF k, good, reason
    <3> QED OBVIOUS
  <2>3. good \in BOOLEAN /\ (good <=> readable /\ w.status = "pass" /\ w.executed = Len(Runs) /\ k > 0)
    OBVIOUS
  <2>4. k = IF readable THEN TotalClaimed(disk.ledger) ELSE 0
    OBVIOUS
  <2> HIDE DEF readable, k, good, reason, new
  <2> DEFINE Sums(n, ok, why, m) ==
           /\ ok \in BOOLEAN
           /\ n = IF readable THEN TotalClaimed(disk.ledger) ELSE 0
           /\ ok <=> readable /\ w.status = "pass" /\ w.executed = Len(Runs) /\ n > 0
           /\ m = [x[e] EXCEPT !.pc = "clean", !.requests = n,
                      !.status = IF ok THEN "pass" ELSE "fail", !.reason = why,
                      !.checks = Marked(x[e].checks, {"execution_wiring"}, IF ok THEN "pass" ELSE "fail")]
           /\ Becomes(e, m)
  <2>5. Sums(k, good, reason, new)
    BY <2>1, <2>2, <2>3, <2>4, Zenon
  <2>6. \E n, ok, why, m : Sums(n, ok, why, m)
    <3> HIDE DEF Sums
    <3> QED BY <2>5
  <2> QED BY <2>6 DEF readable
<1> DEFINE status == IF ok THEN "pass" ELSE "fail"
<1>6. /\ m.pc = "clean" /\ m.requests = n /\ m.status = status /\ m.alone = w.alone /\ m.at = w.at
      /\ m.executed = w.executed /\ m.report = w.report /\ m.did = w.did /\ m.made = w.made
      /\ m.known = w.known /\ m.prior = w.prior /\ m.checks = Marked(w.checks, {"execution_wiring"}, status)
  <2>1. m = [x[e] EXCEPT !.pc = "clean", !.requests = n, !.status = status, !.reason = why,
                         !.checks = Marked(x[e].checks, {"execution_wiring"}, status)]
    BY <1>5
  <2> HIDE DEF status
  <2> QED BY <2>1 DEF PInv, HInv, XType, XFields
<1>7. DOMAIN m.checks = Checks /\ m.checks["execution_wiring"] = status
      /\ \A i \in 1 .. 6 : Check(m, i) = Check(w, i)
  BY <1>6, ChecksApart DEF Marked, Check
<1>8. n \in 0 .. MaxRequests /\ status \in {"pass", "fail"}
      /\ (status = "pass" => w.status = "pass" /\ w.executed = 6 /\ n > 0 /\ n = Cardinality(ClaimedBy(disk.ledger)))
  <2>1. n \in 0 .. MaxRequests /\ (Readable(disk.ledger) => n = Cardinality(ClaimedBy(disk.ledger)))
    <3>1. MaxRequests \in Nat
      BY HarnessAssumption DEF HarnessAssumption
    <3> QED BY <1>4, <1>5, <3>1, ReadableCounts
  <2>2. (status = "pass" <=> ok) /\ status \in {"pass", "fail"}
    OBVIOUS
  <2> QED BY <1>5, <2>1, <2>2, RunsNamed
<1> HIDE DEF status
<1>9. Reports(m, level)
  <2>1. Numbers(m)
    BY <1>0, <1>1, <1>6, <1>7, <1>8 DEF Reports, Numbers, Judging, During
  <2>2. Verdicts(m, level)
    BY <1>1, <1>6, <1>7 DEF Reports, Verdicts, Judging
  <2>3. Told(m, level)
    BY <1>0, <1>1, <1>6 DEF Reports, Told
  <2> QED BY <2>1, <2>2, <2>3 DEF Reports
<1>10. ~Works(m) /\ (Sole(m) => Sole(w) /\ status = "pass")
  BY <1>0, <1>6, <1>8 DEF Works, Sole
<1>11. Past(e, m, level)
  <2> SUFFICES ASSUME Sole(m) PROVE History(e, m) /\ (level = "business" => Found(e, m))
    BY DEF Past
  <2>1. History(e, w) /\ (level = "business" => Found(e, w))
    BY <1>3, <1>10
  <2>2. History(e, m)
    BY <1>0, <1>6, <2>1 DEF History
  <2> QED BY <1>6, <2>1, <2>2 DEF Found
<1>12. AtEnd(m, c, q)
  <2> SUFFICES ASSUME Sole(m)
               PROVE  n = w.made /\ c.pc \in {"none", "over"} /\ \A s \in Stream : q[s].pc = "idle"
    BY <1>6 DEF AtEnd
  <2>1. Place(w, c, disk, q) /\ Counting(w, c, disk)
    BY <1>3, <1>10
  <2>2. ~During(w) /\ n = Cardinality(ClaimedBy(disk.ledger))
    BY <1>0, <1>8, <1>10
  <2> QED BY ONLY <2>1, <2>2 DEF Place, Counting
<1>13. Mine(e, m, c, disk, q, level) /\ ExecutionShape(m)
  BY <1>0, <1>6, <1>7, <1>9, <1>10, <1>11, <1>12 DEF Mine, AtWork, ExecutionShape
<1>14. Entered(e) /\ Becomes(e, m) /\ UNCHANGED <<asked, disk, stream, child>>
       /\ m.pc \notin Waiting /\ m.alone = x[e].alone
  BY <1>0, <1>5, <1>6 DEF Waiting
<1>15. Mine(e, m, child[e], disk, stream[e], asked[e].level) /\ ExecutionShape(m)
  BY <1>13
<1> QED BY ONLY PInv, HInv', e \in Execution, <1>14, <1>15, OwnMind

(* What a report says, whether the root was removed or not. *)
Faithful(r, m, status) ==
    /\ r.level = m.level /\ r.runs = m.executed /\ r.requests = m.requests /\ r.checks = m.checks
    /\ (r.status = "pass" => status = "pass") /\ (r.status = status \/ r.status = "fail")
    /\ (m.level = "wiring" => r.status = status)
    /\ (m.level = "business" /\ r.status = "pass" => \A c \in Checks : m.checks[c] = "pass")
    /\ (r.status = "pass" => r.reason = "none") /\ (r.status # "pass" => r.reason \in Reasons)

(* What a report says is what its execution knows. *)
LEMMA ReportedFields ==
    ASSUME NEW m, NEW status, NEW reason
    PROVE  /\ LET r == Reported(m, status, TRUE, reason) IN r.clean /\ Faithful(r, m, status)
           /\ Faithful(Reported(m, status, FALSE, reason), m, status)
<1> DEFINE earned == /\ m.executed = Len(Runs) /\ m.requests > 0
                     /\ \A c \in Checks : m.checks[c] = "pass"
           final  == IF m.level = "business" /\ ~earned THEN "fail" ELSE status
           why    == IF final = "pass" THEN "none"
                     ELSE IF reason \in Reasons THEN reason ELSE "product_invariant_failed"
           new(clean) == [level |-> m.level, runs |-> m.executed, requests |-> m.requests, checks |-> m.checks,
                      clean |-> clean, status |-> final, reason |-> why]
<1>1. Reported(m, status, TRUE, reason) = new(TRUE) /\ Reported(m, status, FALSE, reason) = new(FALSE)
  BY Zenon DEF Reported
<1>2. /\ (final = "pass" => status = "pass") /\ (final = status \/ final = "fail")
      /\ (m.level = "wiring" => final = status) /\ (m.level = "business" /\ final = "pass" => earned)
  <2> HIDE DEF earned
  <2> QED OBVIOUS
<1>3. (final = "pass" => why = "none") /\ (final # "pass" => why \in Reasons)
  <2>1. "product_invariant_failed" \in Reasons
    BY DEF Reasons
  <2> HIDE DEF final
  <2> QED BY <2>1
<1>4. earned => \A c \in Checks : m.checks[c] = "pass"
  OBVIOUS
<1> HIDE DEF earned, final, why
<1>5. ASSUME NEW r, r.level = m.level, r.runs = m.executed, r.requests = m.requests, r.checks = m.checks,
             r.status = final, r.reason = why
      PROVE  Faithful(r, m, status)
  BY <1>2, <1>3, <1>4, <1>5 DEF Faithful
<1>6. Faithful(new(TRUE), m, status) /\ Faithful(new(FALSE), m, status)
  <2>1. ASSUME NEW r, r = new(TRUE) \/ r = new(FALSE)
        PROVE  /\ r.level = m.level /\ r.runs = m.executed /\ r.requests = m.requests /\ r.checks = m.checks
               /\ r.status = final /\ r.reason = why
    BY <2>1
  <2> HIDE DEF new
  <2> QED BY <1>5, <2>1
<1>7. new(TRUE).clean
  OBVIOUS
<1> HIDE DEF new
<1> QED BY <1>1, <1>6, <1>7

(* Such a report is one its validator accepts. *)
LEMMA ReportedIsValid ==
    ASSUME NEW r, NEW status \in {"pass", "fail"},
           r.runs \in 0 .. 6, r.requests \in 0 .. MaxRequests, r.level \in {"wiring", "business"},
           r.checks["execution_wiring"] = status,
           r.level = "wiring" => \A i \in 1 .. 6 : r.checks[BusinessChecks[i]] = "not_run",
           \A i, j \in 1 .. 6 : i < j /\ r.checks[BusinessChecks[j]] = "pass" => r.checks[BusinessChecks[i]] = "pass",
           status = "pass" => r.clean /\ r.runs = 6 /\ r.requests > 0,
           r.status = "pass" => status = "pass", r.status = status \/ r.status = "fail",
           r.level = "wiring" => r.status = status,
           r.level = "business" /\ r.status = "pass" => \A c \in Checks : r.checks[c] = "pass",
           r.status = "pass" => r.reason = "none", r.status # "pass" => r.reason \in Reasons
    PROVE  ValidReport(r, 6, MaxRequests)
<1>1. r.level = "wiring" => ValidWiringReport(r)
  BY DEF ValidWiringReport, Verdict
<1>2. r.level # "wiring" => ValidBusinessReport(r)
  BY DEF ValidBusinessReport, Verdict
<1> QED BY <1>1, <1>2 DEF ValidReport

(* The report is made of what was summed up, and is valid. *)
LEMMA PassCleanUp == ASSUME PInv, HInv', NEW e \in Execution, CleanUp(e) PROVE PInv'
<1> PICK w : w = x[e]
  OBVIOUS
<1> PICK c : c = child[e]
  OBVIOUS
<1> PICK q : q = stream[e]
  OBVIOUS
<1> PICK level : level = asked[e].level
  OBVIOUS
<1>0. /\ w.pc = "clean" /\ Entered(e) /\ UNCHANGED <<asked, stream, child>>
      /\ ~During(w) /\ Mine(e, w, c, disk, q, level) /\ ExecutionShape(w)
  BY DEF CleanUp, AtStep, Entered, Waiting, During, PInv, Everyone, Shapes
<1>1. Reports(w, level) /\ level \in {"wiring", "business"}
  BY <1>0, HarnessAssumption DEF Mine, PInv, Shapes, HarnessAssumption
<1>2. PICK clean \in BOOLEAN : \E checks, report, m, k :
         /\ Removal(clean) /\ Becomes(e, m)
         /\ checks = IF clean THEN w.checks ELSE Marked(w.checks, {"execution_wiring"}, "fail")
         /\ k = [executed |-> w.executed, requests |-> w.requests, checks |-> checks, level |-> level]
         /\ report = IF clean THEN Reported(k, w.status, TRUE, w.reason)
                     ELSE Reported(k, "fail", FALSE, "cleanup_failed")
         /\ m = [x[e] EXCEPT !.pc = "done", !.checks = checks, !.report = report]
  BY Zenon DEF CleanUp
<1>12. PICK checks, report, m, k :
         /\ Removal(clean) /\ Becomes(e, m)
         /\ checks = IF clean THEN w.checks ELSE Marked(w.checks, {"execution_wiring"}, "fail")
         /\ k = [executed |-> w.executed, requests |-> w.requests, checks |-> checks, level |-> level]
         /\ report = IF clean THEN Reported(k, w.status, TRUE, w.reason)
                     ELSE Reported(k, "fail", FALSE, "cleanup_failed")
         /\ m = [x[e] EXCEPT !.pc = "done", !.checks = checks, !.report = report]
  BY <1>2
<1>3. disk'.root = "ready" => disk.root = "ready" /\ disk'.spent = disk.spent
  <2>1. disk' = EmptyDisk \/ disk' = disk \/ disk' = [disk EXCEPT !.root = "partial"]
    BY <1>12 DEF Removal
  <2>2. EmptyDisk.root = "none" /\ [disk EXCEPT !.root = "partial"].root = "partial"
    BY DEF EmptyDisk, PInv, HInv, DiskType, DiskFields
  <2> QED BY <2>1, <2>2
<1>4. /\ m.pc = "done" /\ m.requests = w.requests /\ m.status = w.status /\ m.alone = w.alone /\ m.at = w.at
      /\ m.executed = w.executed /\ m.report = report /\ m.did = w.did /\ m.made = w.made
      /\ m.known = w.known /\ m.prior = w.prior /\ m.checks = checks
  BY <1>12 DEF PInv, HInv, XType, XFields
<1>5. /\ DOMAIN checks = Checks /\ \A i \in 1 .. 6 : checks[BusinessChecks[i]] = Check(w, i)
      /\ checks["execution_wiring"] = IF clean THEN w.status ELSE "fail"
  <2>1. DOMAIN w.checks = Checks /\ w.checks["execution_wiring"] = w.status
    BY <1>0, <1>1 DEF ExecutionShape, Reports, Numbers
  <2>2. CASE clean
    BY <1>12, <2>1, <2>2 DEF Check
  <2>3. CASE ~clean
    BY <1>12, <2>3, ChecksApart DEF Marked, Check
  <2> QED BY <2>2, <2>3
<1>6. /\ ValidReport(report, 6, MaxRequests) /\ report.level = level /\ report.requests = w.requests
      /\ report.status = "pass" => w.status = "pass"
  <2>1. /\ k.executed = w.executed /\ k.requests = w.requests /\ k.checks = checks /\ k.level = level
    BY <1>12
  <2>2. /\ k.executed \in 0 .. 6 /\ k.requests \in 0 .. MaxRequests /\ k.level \in {"wiring", "business"}
        /\ (k.level = "wiring" => \A i \in 1 .. 6 : k.checks[BusinessChecks[i]] = "not_run")
        /\ \A i, j \in 1 .. 6 : i < j /\ k.checks[BusinessChecks[j]] = "pass" => k.checks[BusinessChecks[i]] = "pass"
    BY <1>1, <1>5, <2>1, Zenon, SMT DEF Reports, Numbers, Verdicts
  <2> PICK status \in {"pass", "fail"} : status = IF clean THEN w.status ELSE "fail"
    BY <1>1 DEF Reports, Numbers
  <2>3. /\ report.level = k.level /\ report.runs = k.executed /\ report.requests = k.requests
        /\ report.checks = k.checks /\ (report.status = "pass" => status = "pass" /\ report.clean)
        /\ (status = "pass" => report.clean)
        /\ (report.status = status \/ report.status = "fail") /\ (k.level = "wiring" => report.status = status)
        /\ (k.level = "business" /\ report.status = "pass" => \A a \in Checks : k.checks[a] = "pass")
        /\ (report.status = "pass" => report.reason = "none") /\ (report.status # "pass" => report.reason \in Reasons)
    <3>1. CASE clean
      <4>1. report = Reported(k, w.status, TRUE, w.reason) /\ status = w.status
        BY <1>12, <3>1
      <4>2. report.clean /\ Faithful(report, k, status)
        BY <4>1, ReportedFields
      <4> QED BY <4>2 DEF Faithful
    <3>2. CASE ~clean
      <4>1. report = Reported(k, "fail", FALSE, "cleanup_failed") /\ status = "fail"
        BY <1>12, <3>2
      <4>2. Faithful(report, k, status)
        BY <4>1, ReportedFields
      <4> QED BY <4>1, <4>2 DEF Faithful
    <3> QED BY <3>1, <3>2
  <2>4. k.checks["execution_wiring"] = status /\ (status = "pass" => w.status = "pass")
        /\ (status = "pass" => k.executed = 6 /\ k.requests > 0)
    BY <1>0, <1>1, <1>5, <2>1 DEF Reports, Numbers
  <2>5. ValidReport(report, 6, MaxRequests)
    BY <2>2, <2>3, <2>4, ReportedIsValid
  <2> QED BY <2>1, <2>3, <2>4, <2>5
<1>7. Reports(m, level)
  <2>1. Numbers(m)
    BY <1>0, <1>1, <1>4 DEF Reports, Numbers, Judging, During
  <2>2. Verdicts(m, level)
    BY <1>1, <1>4, <1>5 DEF Reports, Verdicts, Judging, Check
  <2>3. Told(m, level)
    BY <1>4, <1>6 DEF Told
  <2> QED BY <2>1, <2>2, <2>3 DEF Reports
<1>8. (Sole(m) <=> Sole(w)) /\ ~Works(m) /\ ~Works(w)
  BY <1>0, <1>4 DEF Sole, Works
<1>9. Past(e, m, level)
  <2> SUFFICES ASSUME Sole(m) PROVE History(e, m) /\ (level = "business" => Found(e, m))
    BY DEF Past
  <2>1. History(e, w) /\ (level = "business" => Found(e, w))
    BY <1>0, <1>8 DEF Mine, Past
  <2>2. History(e, m)
    BY <1>0, <1>4, <2>1 DEF History
  <2> QED BY <1>4, <2>1, <2>2 DEF Found
<1>10. AtEnd(m, c, q)
  BY <1>0, <1>4, <1>8 DEF Mine, AtEnd
<1>11. Mine(e, m, c, disk', q, level) /\ ExecutionShape(m)
  BY <1>0, <1>4, <1>5, <1>7, <1>8, <1>9, <1>10 DEF Mine, AtWork, ExecutionShape
<1> QED BY <1>0, <1>3, <1>4, <1>11, <1>12, OwnMemory DEF Waiting

(* Every step of an execution. *)
LEMMA PassExecutes == ASSUME PInv, NEW e \in Execution, Executes(e) PROVE PInv'
<1>1. HInv'
  BY ExecutesKeeps DEF PInv
<1> QED BY <1>1, PassPrecheck, PassClaimApproval, PassNextRun, PassRunEnds, PassRunTimesOut, PassVerifyWiring,
           PassJudge, PassSum, PassCleanUp, PassDie DEF Executes

-----------------------------------------------------------------------------
(* The steps of the agents.                                                *)

(* A step that leaves everything but the ledger alone. *)
LEMMA LeftSame ==
    ASSUME NEW e \in Execution, NEW w, NEW c, NEW d, NEW level, Left(e, w, c, d, level),
           NEW v, SameButMade(w, v), NEW b,
           b.pc = c.pc, b.code = c.code, b.session = c.session, b.has = c.has, b.events = c.events, b.todo = c.todo,
           NEW f, f.sidecar = d.sidecar, f.resumed = d.resumed, f.evidence = d.evidence, f.log = d.log,
           f.memory = d.memory
    PROVE  Left(e, v, b, f, level)
<1>1. /\ v.pc = w.pc /\ v.at = w.at /\ v.did = w.did /\ v.known = w.known
      /\ (Loaded(v, b) <=> Loaded(w, c)) /\ (Before(v, b) <=> Before(w, c)) /\ (During(v) <=> During(w))
  BY DEF SameButMade, Loaded, Before, During
<1>2. Whole(e, b, f)
  BY DEF Left, Whole
<1>3. Receipts(v, b, f) /\ Evidence(e, v, b, f)
  BY <1>1 DEF Left, Receipts, Evidence
<1>4. Sessions(e, v, b) /\ Promotes(e, v, b, f)
  BY <1>1 DEF Left, Sessions, Promotes
<1>5. level = "business" => Keeps(v, b, f)
  BY <1>1 DEF Left, Keeps
<1> QED BY <1>2, <1>3, <1>4, <1>5 DEF Left

(* The child of an execution whose root stands keeps its place. *)
LEMMA PlaceSame ==
    ASSUME NEW w, NEW c, NEW d, NEW q, Place(w, c, d, q), During(w), w.pc = "running", NEW v, SameButMade(w, v), NEW b,
           b.pc \in {"live", "closing", "over"}, b.at = c.at, NEW f, f.root = "ready", NEW r,
           \A s \in Stream : r[s].pc # "idle" => b.pc = "live" /\ "sidecar" \in b.has
    PROVE  Place(v, b, f, r)
  BY DEF Place, During, SameButMade

(* Making directories that are there. *)
LEMMA MadeSame ==
    ASSUME NEW d, DOMAIN d = DiskFields
    PROVE  LET f == Made(d) IN
           /\ DOMAIN f = DiskFields /\ (f.root = "ready" <=> d.root = "ready") /\ f.spent = d.spent
           /\ f.ledger = d.ledger /\ f.sidecar = d.sidecar /\ f.resumed = d.resumed
           /\ f.evidence = d.evidence /\ f.log = d.log /\ f.memory = d.memory
  BY DEF Made, DiskFields

(* One request more. *)
LEMMA CountsSame ==
    ASSUME HInv, NEW e \in Execution, Counts(e)
    PROVE  /\ SameButMade(x[e], x'[e]) /\ x'[e].made = x[e].made + 1
           /\ \A f \in Execution : f # e => x'[f] = x[f]
<1> DEFINE k == x[e].made + 1
<1>1. x'[e] = [x[e] EXCEPT !.made = k] /\ \A f \in Execution : f # e => x'[f] = x[f]
  BY DEF Counts, Becomes, HInv, XType
<1> HIDE DEF k
<1>2. SameButMade(x[e], x'[e]) /\ x'[e].made = k
  BY <1>1 DEF HInv, XType, XFields, SameButMade
<1> QED BY <1>1, <1>2 DEF k

(* No request more. *)
LEMMA SameMemory ==
    ASSUME NEW e, UNCHANGED x
    PROVE  SameButMade(x[e], x'[e]) /\ x'[e].made = x[e].made /\ \A f \in Execution : f # e => x'[f] = x[f]
  BY DEF SameButMade

(* One stream moves. *)
LEMMA MovesOne ==
    ASSUME HInv, NEW e \in Execution, NEW s \in Stream, NEW pc, NEW n, Moves(e, s, pc, n)
    PROVE  /\ stream'[e][s].pc = pc /\ \A t \in Stream : t # s => stream'[e][t] = stream[e][t]
           /\ \A f \in Execution : f # e => stream'[f] = stream[f]
  BY DEF HInv, StreamType, Moves

(* The child changes. *)
LEMMA ChildOne ==
    ASSUME HInv, NEW e \in Execution, NEW b, Child(e, b)
    PROVE  child'[e] = b /\ \A f \in Execution : f # e => child'[f] = child[f]
  BY DEF HInv, ChildType, Child

(* A request that is passed by is no claim. *)
LEMMA PassPassBy == ASSUME PInv, HInv', NEW e \in Execution, PassBy(e) PROVE PInv'
<1> PICK c : c = child[e]
  OBVIOUS
<1>0. HInv /\ c.pc = "live" /\ UNCHANGED asked /\ DOMAIN c = ChildFields /\ DOMAIN disk = DiskFields
  BY DEF PassBy, Live, PInv, HInv, ChildType, DiskType
<1> DEFINE b == [c EXCEPT !.answered = TRUE]
<1>1. UNCHANGED <<x, disk, stream>> /\ Child(e, b) /\ "sidecar" \in c.has
  BY DEF PassBy
<1>2. /\ b.pc = c.pc /\ b.at = c.at /\ b.code = c.code /\ b.session = c.session /\ b.has = c.has
      /\ b.events = c.events /\ b.todo = c.todo
  BY <1>0 DEF ChildFields
<1> HIDE DEF b
<1>3. child'[e] = b /\ \A f \in Execution : f # e => child'[f] = child[f]
  BY <1>0, <1>1, ChildOne
<1>4. SameButMade(x[e], x'[e]) /\ x'[e].made = x[e].made /\ \A f \in Execution : f # e => x'[f] = x[f]
  BY <1>1, SameMemory
<1>5. ASSUME Sole(x[e])
      PROVE  /\ Place(x'[e], b, disk', stream'[e]) /\ Counting(x'[e], b, disk')
             /\ Left(e, x'[e], b, disk', asked[e].level)
  <2>1. /\ x[e].pc = "running" /\ During(x[e]) /\ Place(x[e], c, disk, stream[e]) /\ Counting(x[e], c, disk)
        /\ Left(e, x[e], c, disk, asked[e].level)
    BY <1>0, <1>5, Occupied
  <2>2. Place(x'[e], b, disk', stream'[e])
    <3>1. \A t \in Stream : stream'[e][t].pc # "idle" => b.pc = "live" /\ "sidecar" \in b.has
      BY <1>0, <1>1, <1>2
    <3>2. disk'.root = "ready" /\ b.pc \in {"live", "closing", "over"}
      BY <1>0, <1>1, <1>2, <2>1 DEF Place
    <3> QED BY ONLY <1>1, <1>2, <2>1, <3>1, <3>2 DEF Place
  <2>3. Counting(x'[e], b, disk')
    BY <1>1, <1>2, <2>1 DEF Counting
  <2>4. Left(e, x'[e], b, disk', asked[e].level)
    BY ONLY e \in Execution, <1>1, <1>2, <1>4, <2>1, LeftSame, Zenon
  <2> QED BY <2>2, <2>3, <2>4
<1> QED BY <1>0, <1>1, <1>3, <1>4, <1>5, AgentStep

(* A request with a sidecar reads the ledger; without one it is not claimed. *)
LEMMA PassLook ==
    ASSUME PInv, HInv', NEW e \in Execution, NEW s \in Stream, Look(e, s) PROVE PInv'
<1> PICK c : c = child[e]
  OBVIOUS
<1>0. HInv /\ c.pc = "live" /\ UNCHANGED asked /\ DOMAIN c = ChildFields /\ DOMAIN disk = DiskFields
  BY DEF Look, Live, PInv, HInv, ChildType, DiskType
<1>1. CASE "sidecar" \in c.has
  <2> DEFINE b == [c EXCEPT !.asks = c.asks - 1]
  <2>1. /\ UNCHANGED x /\ disk' = Made(disk) /\ Child(e, b)
        /\ (\E n : Moves(e, s, "claim", n)) \/ UNCHANGED stream
    BY <1>1 DEF Look
  <2>2. /\ b.pc = c.pc /\ b.at = c.at /\ b.code = c.code /\ b.session = c.session /\ b.has = c.has
        /\ b.events = c.events /\ b.todo = c.todo
    BY <1>0 DEF ChildFields
  <2> HIDE DEF b
  <2>3. child'[e] = b /\ \A f \in Execution : f # e => child'[f] = child[f]
    BY <1>0, <2>1, ChildOne
  <2>4. \A t \in Stream : stream'[e][t].pc = stream[e][t].pc \/ stream'[e][t].pc = "claim"
    BY <1>0, <2>1, MovesOne
  <2>5. \A f \in Execution : f # e => stream'[f] = stream[f]
    BY <1>0, <2>1, MovesOne
  <2>6. SameButMade(x[e], x'[e]) /\ x'[e].made = x[e].made /\ \A f \in Execution : f # e => x'[f] = x[f]
    BY <2>1, SameMemory
  <2>7. /\ (disk'.root = "ready" <=> disk.root = "ready") /\ disk'.spent = disk.spent
        /\ disk'.ledger = disk.ledger /\ disk'.sidecar = disk.sidecar /\ disk'.resumed = disk.resumed
        /\ disk'.evidence = disk.evidence /\ disk'.log = disk.log /\ disk'.memory = disk.memory
    BY <1>0, <2>1, MadeSame
  <2>8. ASSUME Sole(x[e])
        PROVE  /\ Place(x'[e], b, disk', stream'[e]) /\ Counting(x'[e], b, disk')
               /\ Left(e, x'[e], b, disk', asked[e].level)
    <3>1. /\ x[e].pc = "running" /\ During(x[e]) /\ Place(x[e], c, disk, stream[e]) /\ Counting(x[e], c, disk)
          /\ Left(e, x[e], c, disk, asked[e].level)
      BY <1>0, <2>8, Occupied
    <3>2. \A t \in Stream : stream'[e][t].pc # "idle" => b.pc = "live" /\ "sidecar" \in b.has
      BY <1>0, <1>1, <2>2
    <3>3. Place(x'[e], b, disk', stream'[e])
      <4>1. disk'.root = "ready" /\ b.pc \in {"live", "closing", "over"}
        BY <1>0, <2>2, <2>7, <3>1 DEF Place
      <4> QED BY <1>0, <2>2, <2>6, <3>1, <3>2, <4>1, PlaceSame DEF Place
    <3>4. Counting(x'[e], b, disk')
      BY <1>1, <2>2, <2>6, <2>7, <3>1 DEF Counting
    <3>5. Left(e, x'[e], b, disk', asked[e].level)
      BY ONLY e \in Execution, <2>2, <2>6, <2>7, <3>1, LeftSame, Zenon
    <3> QED BY <3>3, <3>4, <3>5
  <2> QED BY <1>0, <2>3, <2>5, <2>6, <2>7, <2>8, AgentStep
<1>2. CASE "sidecar" \notin c.has
  <2> DEFINE b == [c EXCEPT !.asks = c.asks - 1, !.answered = TRUE]
  <2>1. Counts(e) /\ UNCHANGED <<disk, stream>> /\ Child(e, b)
    BY <1>2 DEF Look
  <2>2. /\ b.pc = c.pc /\ b.at = c.at /\ b.code = c.code /\ b.session = c.session /\ b.has = c.has
        /\ b.events = c.events /\ b.todo = c.todo
    BY <1>0 DEF ChildFields
  <2> HIDE DEF b
  <2>3. child'[e] = b /\ \A f \in Execution : f # e => child'[f] = child[f]
    BY <1>0, <2>1, ChildOne
  <2>6. SameButMade(x[e], x'[e]) /\ \A f \in Execution : f # e => x'[f] = x[f]
    BY <1>0, <2>1, CountsSame
  <2>8. ASSUME Sole(x[e])
        PROVE  /\ Place(x'[e], b, disk', stream'[e]) /\ Counting(x'[e], b, disk')
               /\ Left(e, x'[e], b, disk', asked[e].level)
    <3>1. /\ x[e].pc = "running" /\ During(x[e]) /\ Place(x[e], c, disk, stream[e])
          /\ Left(e, x[e], c, disk, asked[e].level)
      BY <1>0, <2>8, Occupied
    <3>2. \A t \in Stream : stream'[e][t].pc # "idle" => b.pc = "live" /\ "sidecar" \in b.has
      BY <2>1, <2>2, <3>1 DEF Place
    <3>3. Place(x'[e], b, disk', stream'[e])
      <4>1. c.pc = "live" /\ c.at = b.at /\ b.pc \in {"live", "closing", "over"} /\ disk'.root = "ready"
        BY <1>0, <2>1, <2>2, <3>1 DEF Place
      <4> QED BY ONLY <2>6, <3>1, <3>2, <4>1, PlaceSame
    <3>4. Counting(x'[e], b, disk')
      BY <1>0, <1>2, <2>2, <2>6, <3>1 DEF Counting, During, SameButMade
    <3>5. Left(e, x'[e], b, disk', asked[e].level)
      BY ONLY e \in Execution, <2>1, <2>2, <2>6, <3>1, LeftSame, Zenon
    <3> QED BY <3>3, <3>4, <3>5
  <2> QED BY <1>0, <2>1, <2>3, <2>6, <2>8, AgentStep
<1> QED BY <1>1, <1>2

(* A number taken names no run yet. *)
LEMMA PassCreate ==
    ASSUME PInv, HInv', NEW e \in Execution, NEW s \in Stream, Create(e, s) PROVE PInv'
<1> PICK c : c = child[e]
  OBVIOUS
<1>0. /\ HInv /\ stream[e][s].pc = "claim" /\ stream[e][s].pc # "idle" /\ UNCHANGED <<asked, child, x>>
      /\ DOMAIN disk = DiskFields
  BY DEF Create, PInv, HInv, DiskType
<1>1. PICK pc \in {"idle", "write"} : \E n : Moves(e, s, pc, n)
  BY DEF Create
<1>2. \A f \in Execution : f # e => stream'[f] = stream[f]
  BY <1>0, <1>1, MovesOne
<1>3. \A t \in Stream : stream'[e][t].pc # "idle" => stream[e][t].pc # "idle"
  BY <1>0, <1>1, MovesOne
<1>4. /\ disk'.root = disk.root /\ disk'.spent = disk.spent
      /\ ClaimedBy(disk'.ledger) = ClaimedBy(disk.ledger)
      /\ disk'.sidecar = disk.sidecar /\ disk'.resumed = disk.resumed
      /\ disk'.evidence = disk.evidence /\ disk'.log = disk.log /\ disk'.memory = disk.memory
  <2>1. CASE UNCHANGED disk
    BY <2>1
  <2>2. CASE ~UNCHANGED disk
    <3>1. PICK k \in Free(disk.ledger) : disk' = [disk EXCEPT !.ledger.claims[k] = Unwritten]
      BY <2>2 DEF Create, Lowest
    <3>2. k \in Seqs /\ disk.ledger.claims[k] = NoFile
      BY <3>1 DEF Free, Created
    <3>3. /\ disk'.ledger.claims = [disk.ledger.claims EXCEPT ![k] = Unwritten]
          /\ disk'.root = disk.root /\ disk'.spent = disk.spent
          /\ disk'.sidecar = disk.sidecar /\ disk'.resumed = disk.resumed
          /\ disk'.evidence = disk.evidence /\ disk'.log = disk.log /\ disk'.memory = disk.memory
      BY <1>0, <3>1 DEF HInv, DiskType, Ledgers, DiskFields
    <3>4. DOMAIN disk.ledger.claims = Seqs
      BY <1>0 DEF HInv, DiskType, Ledgers
    <3>5. ClaimedBy(disk'.ledger) = ClaimedBy(disk.ledger)
      <4>1. NoFile \notin RunNames /\ Unwritten \notin RunNames
        BY DEF NoFile, Unwritten, RunNames
      <4> QED BY <3>2, <3>3, <3>4, <4>1 DEF ClaimedBy
    <3> QED BY <3>3, <3>5
  <2> QED BY <2>1, <2>2
<1>5. SameButMade(x[e], x'[e]) /\ x'[e].made = x[e].made /\ \A f \in Execution : f # e => x'[f] = x[f]
  BY <1>0, SameMemory
<1>6. ASSUME Sole(x[e])
      PROVE  /\ Place(x'[e], c, disk', stream'[e]) /\ Counting(x'[e], c, disk')
             /\ Left(e, x'[e], c, disk', asked[e].level)
  <2>1. /\ x[e].pc = "running" /\ During(x[e]) /\ Place(x[e], c, disk, stream[e]) /\ Counting(x[e], c, disk)
        /\ Left(e, x[e], c, disk, asked[e].level)
    BY <1>0, <1>6, Occupied
  <2>2. c.pc = "live" /\ "sidecar" \in c.has
    BY <1>0, <2>1 DEF Place
  <2>3. Place(x'[e], c, disk', stream'[e])
    <3>1. \A t \in Stream : stream'[e][t].pc # "idle" => c.pc = "live" /\ "sidecar" \in c.has
      BY <2>2
    <3>2. disk'.root = "ready" /\ c.pc \in {"live", "closing", "over"}
      BY <1>4, <2>1, <2>2 DEF Place
    <3> QED BY <1>5, <2>1, <3>1, <3>2, PlaceSame
  <2>4. Counting(x'[e], c, disk')
    BY <1>4, <1>5, <2>1, <2>2 DEF Counting
  <2>5. Left(e, x'[e], c, disk', asked[e].level)
    BY ONLY e \in Execution, <1>4, <1>5, <2>1, LeftSame, Zenon
  <2> QED BY <2>3, <2>4, <2>5
<1> QED BY <1>0, <1>2, <1>4, <1>5, <1>6, AgentStep

(* A request made has its claim. *)
LEMMA PassWrite ==
    ASSUME PInv, HInv', NEW e \in Execution, NEW s \in Stream, Write(e, s) PROVE PInv'
<1> PICK c : c = child[e]
  OBVIOUS
<1> PICK n : n = stream[e][s].seq
  OBVIOUS
<1>0. /\ HInv /\ stream[e][s].pc = "write" /\ stream[e][s].pc # "idle" /\ UNCHANGED <<asked, child>>
      /\ DOMAIN disk = DiskFields /\ Moves(e, s, "called", n) /\ Counts(e)
      /\ disk' = [disk EXCEPT !.ledger.claims[n] = IF @ = Unwritten THEN RunOf(e) ELSE @]
  BY DEF Write, PInv, HInv, DiskType
<1>2. \A f \in Execution : f # e => stream'[f] = stream[f]
  BY <1>0, MovesOne
<1>3. \A t \in Stream : stream'[e][t].pc # "idle" => stream[e][t].pc # "idle"
  BY <1>0, MovesOne
<1>4. /\ disk'.ledger.claims = [disk.ledger.claims EXCEPT ![n] = IF @ = Unwritten THEN RunOf(e) ELSE @]
      /\ disk'.root = disk.root /\ disk'.spent = disk.spent
      /\ disk'.sidecar = disk.sidecar /\ disk'.resumed = disk.resumed
      /\ disk'.evidence = disk.evidence /\ disk'.log = disk.log /\ disk'.memory = disk.memory
  BY <1>0 DEF HInv, DiskType, Ledgers, DiskFields
<1>5. SameButMade(x[e], x'[e]) /\ x'[e].made = x[e].made + 1 /\ \A f \in Execution : f # e => x'[f] = x[f]
  BY <1>0, CountsSame
<1>6. ASSUME Sole(x[e])
      PROVE  /\ Place(x'[e], c, disk', stream'[e]) /\ Counting(x'[e], c, disk')
             /\ Left(e, x'[e], c, disk', asked[e].level)
  <2>1. /\ x[e].pc = "running" /\ During(x[e]) /\ Place(x[e], c, disk, stream[e]) /\ Counting(x[e], c, disk)
        /\ Left(e, x[e], c, disk, asked[e].level)
    BY <1>0, <1>6, Occupied
  <2>2. c.pc = "live" /\ "sidecar" \in c.has /\ disk.root = "ready"
    BY <1>0, <2>1 DEF Place
  <2>3. Place(x'[e], c, disk', stream'[e])
    BY <1>3, <1>4, <1>5, <2>1, <2>2, PlaceSame DEF Place
  <2>4. n \in Seqs /\ disk.ledger.claims[n] = Unwritten
    BY <1>0, <2>2 DEF HInv, Accounted, Claims, Claiming
  <2>5. RunOf(e) \in RunNames /\ DOMAIN disk.ledger.claims = Seqs /\ Unwritten \notin RunNames
    BY <1>0, RunsNamed DEF HInv, ChildType, DiskType, Ledgers, RunOf, Unwritten, RunNames
  <2>6. ClaimedBy(disk'.ledger) = ClaimedBy(disk.ledger) \cup {n} /\ n \notin ClaimedBy(disk.ledger)
    BY <1>4, <2>4, <2>5 DEF ClaimedBy
  <2>7. Cardinality(ClaimedBy(disk'.ledger)) = Cardinality(ClaimedBy(disk.ledger)) + 1
    <3>1. IsFiniteSet(Seqs) /\ ClaimedBy(disk.ledger) \subseteq Seqs
      BY HarnessAssumption, FS_Interval DEF HarnessAssumption, Seqs, ClaimedBy
    <3>2. IsFiniteSet(ClaimedBy(disk.ledger))
      BY ONLY <3>1, FS_Subset
    <3> QED BY ONLY <2>6, <3>2, FS_AddElement
  <2>8. Counting(x'[e], c, disk')
    <3>1. x[e].made = Cardinality(ClaimedBy(disk.ledger))
      BY <2>1, <2>2 DEF Counting
    <3> QED BY <1>5, <2>7, <3>1 DEF Counting
  <2>9. Left(e, x'[e], c, disk', asked[e].level)
    BY ONLY e \in Execution, <1>4, <1>5, <2>1, LeftSame, Zenon
  <2> QED BY <2>3, <2>8, <2>9
<1> QED BY <1>0, <1>2, <1>4, <1>5, <1>6, AgentStep

(* An outcome changes no claim. *)
LEMMA PassFinish ==
    ASSUME PInv, HInv', NEW e \in Execution, NEW s \in Stream, Finish(e, s) PROVE PInv'
<1> PICK c : c = child[e]
  OBVIOUS
<1>0. /\ HInv /\ stream[e][s].pc = "called" /\ stream[e][s].pc # "idle" /\ UNCHANGED <<asked, x>>
      /\ DOMAIN c = ChildFields /\ DOMAIN disk = DiskFields /\ Moves(e, s, "idle", 0)
  BY DEF Finish, PInv, HInv, ChildType, DiskType
<1>1. PICK outcome :
         /\ disk' = [Made(disk) EXCEPT !.ledger.outcomes[stream[e][s].seq] = IF @ = NoFile THEN outcome ELSE @]
         /\ Child(e, [child[e] EXCEPT !.answered = @ \/ outcome = "completed", !.due = TRUE])
  BY DEF Finish
<1> DEFINE b == [c EXCEPT !.answered = @ \/ outcome = "completed", !.due = TRUE]
<1>2. /\ b.pc = c.pc /\ b.at = c.at /\ b.code = c.code /\ b.session = c.session /\ b.has = c.has
      /\ b.events = c.events /\ b.todo = c.todo
  BY <1>0 DEF ChildFields
<1>9. Child(e, b)
  BY <1>1
<1> HIDE DEF b
<1>3. child'[e] = b /\ \A f \in Execution : f # e => child'[f] = child[f]
  BY <1>0, <1>9, ChildOne
<1>4. \A f \in Execution : f # e => stream'[f] = stream[f]
  BY <1>0, MovesOne
<1>5. \A t \in Stream : stream'[e][t].pc # "idle" => stream[e][t].pc # "idle"
  BY <1>0, MovesOne
<1>6. /\ (disk'.root = "ready" <=> disk.root = "ready") /\ disk'.spent = disk.spent
      /\ disk'.ledger.claims = disk.ledger.claims /\ disk'.sidecar = disk.sidecar /\ disk'.resumed = disk.resumed
      /\ disk'.evidence = disk.evidence /\ disk'.log = disk.log /\ disk'.memory = disk.memory
  <2> PICK f : f = Made(disk)
    OBVIOUS
  <2>1. /\ DOMAIN f = DiskFields /\ (f.root = "ready" <=> disk.root = "ready") /\ f.spent = disk.spent
        /\ f.ledger = disk.ledger /\ f.sidecar = disk.sidecar /\ f.resumed = disk.resumed
        /\ f.evidence = disk.evidence /\ f.log = disk.log /\ f.memory = disk.memory
    BY <1>0, MadeSame
  <2>2. disk' = [f EXCEPT !.ledger.outcomes[stream[e][s].seq] = IF @ = NoFile THEN outcome ELSE @]
    BY <1>1
  <2>3. f.ledger \in Ledgers
    BY <1>0, <2>1 DEF HInv, DiskType
  <2>4. /\ disk'.root = f.root /\ disk'.spent = f.spent
        /\ disk'.ledger.claims = f.ledger.claims /\ disk'.sidecar = f.sidecar /\ disk'.resumed = f.resumed
        /\ disk'.evidence = f.evidence /\ disk'.log = f.log /\ disk'.memory = f.memory
    BY <2>1, <2>2, <2>3 DEF DiskFields, Ledgers
  <2> QED BY <2>1, <2>4
<1>7. SameButMade(x[e], x'[e]) /\ x'[e].made = x[e].made /\ \A f \in Execution : f # e => x'[f] = x[f]
  BY <1>0, SameMemory
<1>8. ASSUME Sole(x[e])
      PROVE  /\ Place(x'[e], b, disk', stream'[e]) /\ Counting(x'[e], b, disk')
             /\ Left(e, x'[e], b, disk', asked[e].level)
  <2>1. /\ x[e].pc = "running" /\ During(x[e]) /\ Place(x[e], c, disk, stream[e]) /\ Counting(x[e], c, disk)
        /\ Left(e, x[e], c, disk, asked[e].level)
    BY <1>0, <1>8, Occupied
  <2>2. c.pc = "live" /\ "sidecar" \in c.has
    BY <1>0, <2>1 DEF Place
  <2>3. Place(x'[e], b, disk', stream'[e])
    BY <1>2, <1>5, <1>6, <1>7, <2>1, <2>2, PlaceSame DEF Place
  <2>4. Counting(x'[e], b, disk')
    <3>1. ClaimedBy(disk'.ledger) = ClaimedBy(disk.ledger)
      BY <1>6 DEF ClaimedBy
    <3> QED BY <1>2, <1>7, <2>1, <2>2, <3>1 DEF Counting
  <2>5. Left(e, x'[e], b, disk', asked[e].level)
    BY ONLY e \in Execution, <1>2, <1>6, <1>7, <2>1, LeftSame, Zenon
  <2> QED BY <2>3, <2>4, <2>5
<1> QED BY <1>0, <1>3, <1>4, <1>6, <1>7, <1>8, AgentStep

-----------------------------------------------------------------------------
(* The evidence, the log and the receipts of a run.                        *)

(* Evidence written, if it could be extracted. *)
LEMMA EvidentDisk ==
    ASSUME HInv, NEW e \in Execution, NEW d, DOMAIN d = DiskFields, IsSeq(child[e].events),
           NEW f, f = Evident(e, d)
    PROVE  /\ DOMAIN f = DiskFields /\ (f.root = "ready" <=> d.root = "ready") /\ f.spent = d.spent
           /\ f.ledger = d.ledger /\ f.sidecar = d.sidecar /\ f.resumed = d.resumed
           /\ f.log = d.log /\ f.memory = d.memory
           /\ f.evidence = d.evidence
              \/ \E ev : Backed(ev, child[e].session, child[e].events)
                         /\ f.evidence = [d.evidence EXCEPT ![RunOf(e)] = ev]
<1> DEFINE ev == Extract(RunOf(e), child[e].session, child[e].events)
<1>1. f = IF ev.refused THEN d ELSE [Made(d) EXCEPT !.evidence[RunOf(e)] = ev]
  BY DEF Evident
<1>2. ev.refused \/ Backed(ev, child[e].session, child[e].events)
  BY ExtractBacked
<1> HIDE DEF ev
<1>3. CASE ev.refused
  <2>1. f = d
    BY <1>1, <1>3
  <2> QED BY <2>1
<1>4. CASE ~ev.refused
  <2> PICK g : g = Made(d)
    OBVIOUS
  <2>1. /\ DOMAIN g = DiskFields /\ (g.root = "ready" <=> d.root = "ready") /\ g.spent = d.spent
        /\ g.ledger = d.ledger /\ g.sidecar = d.sidecar /\ g.resumed = d.resumed
        /\ g.evidence = d.evidence /\ g.log = d.log /\ g.memory = d.memory
    BY MadeSame
  <2>2. f = [g EXCEPT !.evidence[RunOf(e)] = ev]
    BY <1>1, <1>4
  <2>3. /\ DOMAIN f = DiskFields /\ f.root = g.root /\ f.spent = g.spent
        /\ f.ledger = g.ledger /\ f.sidecar = g.sidecar /\ f.resumed = g.resumed
        /\ f.log = g.log /\ f.memory = g.memory /\ f.evidence = [g.evidence EXCEPT ![RunOf(e)] = ev]
    BY <2>1, <2>2 DEF DiskFields
  <2> QED BY <1>2, <1>4, <2>1, <2>3
<1> QED BY <1>3, <1>4

(* Evidence of the run that is on its way. *)
LEMMA LeftEvident ==
    ASSUME NEW e \in Execution, NEW w, NEW c, NEW d, NEW level, Left(e, w, c, d, level),
           During(w), c.pc = "live", w.at \in 1 .. 6,
           NEW f, f.sidecar = d.sidecar, f.resumed = d.resumed, f.log = d.log, f.memory = d.memory,
           f.evidence = d.evidence
              \/ \E ev : Backed(ev, c.session, c.events)
                         /\ f.evidence = [d.evidence EXCEPT ![Runs[w.at]] = ev]
    PROVE  Left(e, w, c, f, level)
<1>1. Receipts(w, c, f) /\ Sessions(e, w, c) /\ Promotes(e, w, c, f)
  BY DEF Left, Receipts, Promotes
<1>2. level = "business" => Keeps(w, c, f)
  BY DEF Left, Keeps
<1>3. DOMAIN d.evidence = RunNames
  BY DEF Left, Whole
<1>4. Whole(e, c, f)
  BY <1>3 DEF Left, Whole
<1>5. Evidence(e, w, c, f)
  <2>1. CASE f.evidence = d.evidence
    BY <2>1 DEF Left, Evidence
  <2>2. ASSUME NEW ev, Backed(ev, c.session, c.events), f.evidence = [d.evidence EXCEPT ![Runs[w.at]] = ev]
        PROVE  Evidence(e, w, c, f)
    <3>1. f.evidence[Runs[w.at]] = ev /\ \A n \in RunNames : n # Runs[w.at] => f.evidence[n] = d.evidence[n]
      BY <1>3, <2>2, RunsNamed
    <3>2. \A i \in 1 .. 6 : i # w.at => f.evidence[Runs[i]] = d.evidence[Runs[i]]
      BY <3>1, RunsNamed, RunsApart
    <3>3. \A i \in 1 .. 6 : f.evidence[Runs[i]] # None =>
            i < w.at \/ (i = w.at /\ During(w) /\ c.pc # "start"
                           /\ Backed(f.evidence[Runs[i]], c.session, c.events))
      BY <2>2, <3>1, <3>2 DEF Left, Evidence
    <3>4. f.evidence["run_1"] # None => f.evidence["run_1"].session = <<e, "run_1">>
      <4>1. CASE w.at = 1
        <5>1. ~Resumed(w.at) /\ Runs[w.at] = "run_1"
          BY <4>1, RunsApart
        <5>2. c.session = <<e, "run_1">>
          BY <5>1 DEF Left, Sessions, Loaded
        <5> QED BY <2>2, <3>1, <5>1, <5>2 DEF Backed
      <4>2. CASE w.at # 1
        <5>1. f.evidence["run_1"] = d.evidence["run_1"]
          BY <3>2, <4>2, RunsApart
        <5> QED BY <5>1 DEF Left, Evidence
      <4> QED BY <4>1, <4>2
    <3> QED BY <3>3, <3>4 DEF Evidence
  <2> QED BY <2>1, <2>2
<1> QED BY <1>1, <1>2, <1>4, <1>5 DEF Left

(* The session kept with the product's own files. *)
LEMMA LoggedDisk ==
    ASSUME HInv, NEW e \in Execution, NEW d, DOMAIN d = DiskFields, NEW f, f = Logged(e, d)
    PROVE  /\ DOMAIN f = DiskFields /\ f.root = d.root /\ f.spent = d.spent
           /\ f.ledger = d.ledger /\ f.sidecar = d.sidecar /\ f.resumed = d.resumed
           /\ f.evidence = d.evidence /\ f.memory = d.memory
           /\ \/ f.log = d.log /\ (d.root = "ready" => child[e].session # <<e, "run_1">>)
              \/ /\ child[e].session[2] = "run_1"
                 /\ f.log = [d.log EXCEPT ![child[e].session[1]] = child[e].events]
<1>1. CASE child[e].session = None \/ d.root = "none" \/ child[e].session[2] # "run_1"
  <2>1. f = d
    BY <1>1 DEF Logged
  <2>2. child[e].session # <<e, "run_1">> \/ d.root = "none"
    <3>1. "run_1" \in Range(Runs)
      BY RunsNamed DEF RunNames
    <3>2. <<e, "run_1">> # None /\ <<e, "run_1">>[2] = "run_1"
      BY <3>1, HarnessAssumption DEF HarnessAssumption
    <3> QED BY <1>1, <3>2
  <2> QED BY <2>1, <2>2
<1>2. CASE ~(child[e].session = None \/ d.root = "none" \/ child[e].session[2] # "run_1")
  <2>1. f = [d EXCEPT !.log[child[e].session[1]] = child[e].events]
    BY <1>2 DEF Logged
  <2> QED BY <1>2, <2>1 DEF DiskFields
<1> QED BY <1>1, <1>2

(* Evidence is written of what was said so far, or not at all. *)
LEMMA PassFlush == ASSUME PInv, HInv', NEW e \in Execution, Flush(e) PROVE PInv'
<1> PICK c : c = child[e]
  OBVIOUS
<1>0. HInv /\ c.pc = "live" /\ UNCHANGED <<asked, x, stream>> /\ DOMAIN c = ChildFields /\ DOMAIN disk = DiskFields
  BY DEF Flush, Live, PInv, HInv, ChildType, DiskType
<1> DEFINE b == [c EXCEPT !.due = FALSE]
<1>1. Child(e, b) /\ (disk' = Evident(e, disk) \/ UNCHANGED disk)
  BY DEF Flush
<1>2. /\ b.pc = c.pc /\ b.at = c.at /\ b.code = c.code /\ b.session = c.session /\ b.has = c.has
      /\ b.events = c.events /\ b.todo = c.todo
  BY <1>0 DEF ChildFields
<1> HIDE DEF b
<1>3. child'[e] = b /\ \A f \in Execution : f # e => child'[f] = child[f]
  BY <1>0, <1>1, ChildOne
<1>4. SameButMade(x[e], x'[e]) /\ x'[e].made = x[e].made /\ \A f \in Execution : f # e => x'[f] = x[f]
  BY <1>0, SameMemory
<1>6. ASSUME Sole(x[e])
      PROVE  /\ disk'.root = "ready" => disk.root = "ready" /\ disk'.spent = disk.spent
             /\ Place(x'[e], b, disk', stream'[e]) /\ Counting(x'[e], b, disk')
             /\ Left(e, x'[e], b, disk', asked[e].level)
  <2>1. /\ x[e].pc = "running" /\ During(x[e]) /\ Place(x[e], c, disk, stream[e]) /\ Counting(x[e], c, disk)
        /\ Left(e, x[e], c, disk, asked[e].level) /\ x[e].at \in 1 .. 6
    BY <1>0, <1>6, Occupied
  <2>2. c.at = x[e].at /\ disk.root = "ready" /\ RunOf(e) = Runs[x[e].at]
    BY <2>1 DEF Place, RunOf
  <2>3. IsSeq(c.events)
    BY <2>1 DEF Left, Whole
  <2>4. /\ (disk'.root = "ready" <=> disk.root = "ready") /\ disk'.spent = disk.spent
        /\ disk'.ledger = disk.ledger /\ disk'.sidecar = disk.sidecar /\ disk'.resumed = disk.resumed
        /\ disk'.log = disk.log /\ disk'.memory = disk.memory
    BY <1>0, <1>1, <2>3, EvidentDisk
  <2>10. disk'.evidence = disk.evidence
         \/ \E ev : Backed(ev, c.session, c.events)
                    /\ disk'.evidence = [disk.evidence EXCEPT ![Runs[x[e].at]] = ev]
    BY <1>0, <1>1, <2>2, <2>3, EvidentDisk
  <2>5. \A s \in Stream : stream'[e][s].pc # "idle" => b.pc = "live" /\ "sidecar" \in b.has
    BY <1>0, <1>2, <2>1 DEF Place
  <2>6. Place(x'[e], b, disk', stream'[e])
    BY <1>0, <1>2, <1>4, <2>1, <2>2, <2>4, <2>5, PlaceSame DEF Place
  <2>7. Counting(x'[e], b, disk')
    BY <1>0, <1>2, <1>4, <2>1, <2>4 DEF Counting, During, SameButMade
  <2>8. Left(e, x[e], c, disk', asked[e].level)
    BY ONLY e \in Execution, <1>0, <2>1, <2>4, <2>10, LeftEvident, Zenon
  <2>9. Left(e, x'[e], b, disk', asked[e].level)
    BY ONLY e \in Execution, <1>2, <1>4, <2>8, LeftSame, Zenon
  <2> QED BY <2>4, <2>6, <2>7, <2>9
<1>7. disk'.root = "ready" => disk.root = "ready" /\ disk'.spent = disk.spent
  <2>1. CASE UNCHANGED disk
    BY <2>1
  <2>2. CASE disk' = Evident(e, disk)
    <3>1. disk' = disk \/ \E ev : disk' = [Made(disk) EXCEPT !.evidence[RunOf(e)] = ev]
      BY <2>2 DEF Evident
    <3>2. ASSUME NEW ev, disk' = [Made(disk) EXCEPT !.evidence[RunOf(e)] = ev]
          PROVE  disk'.root = "ready" => disk.root = "ready" /\ disk'.spent = disk.spent
      BY <1>0, <3>2 DEF Made, DiskFields
    <3> QED BY <3>1, <3>2
  <2> QED BY <1>1, <2>1, <2>2
<1> QED BY <1>0, <1>3, <1>4, <1>6, <1>7, AgentStep

(* The session of the first run goes into its own log. *)
LEMMA LeftLogged ==
    ASSUME NEW e \in Execution, NEW w, NEW c, NEW d, NEW level, Left(e, w, c, d, level),
           During(w), c.pc \in {"live", "closing"}, w.at \in 1 .. 6,
           NEW f, f.sidecar = d.sidecar, f.resumed = d.resumed, f.evidence = d.evidence, f.memory = d.memory,
           \/ f.log = d.log /\ c.session # <<e, "run_1">>
           \/ c.session[2] = "run_1" /\ f.log = [d.log EXCEPT ![c.session[1]] = c.events]
    PROVE  Left(e, w, c, f, level) /\ (c.session = <<e, "run_1">> => f.log[e] = c.events)
<1>1. Loaded(w, c) /\ ~Before(w, c)
  BY DEF Loaded, Before, During
<1>2. DOMAIN d.log = Execution /\ IsSeq(d.log[e]) /\ IsSeq(c.events)
  BY DEF Left, Whole
<1>3. c.session[1] = e
  BY <1>1 DEF Left, Sessions
<1>4. DOMAIN f.log = Execution /\ IsSeq(f.log[e]) /\ (c.session = <<e, "run_1">> => f.log[e] = c.events)
  BY <1>2, <1>3
<1>5. Whole(e, c, f)
  BY <1>4 DEF Left, Whole
<1>6. Receipts(w, c, f) /\ Evidence(e, w, c, f) /\ Sessions(e, w, c)
  BY DEF Left, Receipts, Evidence
<1>7. Promotes(e, w, c, f)
  BY <1>1 DEF Left, Promotes
<1>8. level = "business" => Keeps(w, c, f)
  BY DEF Left, Keeps
<1> QED BY <1>4, <1>5, <1>6, <1>7, <1>8 DEF Left

(* The driver has written its receipt. *)
LEMMA LeftClosing ==
    ASSUME NEW e \in Execution, NEW w, NEW c, NEW d, NEW level, Left(e, w, c, d, level),
           During(w), c.pc = "live", w.at \in 1 .. 6,
           NEW b, b.pc = "closing", b.session = c.session, b.has = c.has, b.events = c.events, b.todo = c.todo,
           NEW f, f.sidecar = d.sidecar, f.log = d.log, f.evidence = d.evidence, f.memory = d.memory,
           f.resumed = [d.resumed EXCEPT ![Runs[w.at]] = c.session]
    PROVE  Left(e, w, b, f, level)
<1>1. Loaded(w, c) /\ Loaded(w, b) /\ ~Before(w, c) /\ ~Before(w, b)
  BY DEF Loaded, Before, During
<1>2. DOMAIN d.resumed = RunNames
  BY DEF Left, Whole
<1>3. f.resumed[Runs[w.at]] = c.session
      /\ \A i \in 1 .. 6 : i # w.at => f.resumed[Runs[i]] = d.resumed[Runs[i]]
  BY <1>2, RunsNamed, RunsApart
<1>4. Whole(e, b, f)
  BY <1>2 DEF Left, Whole
<1>5. Receipts(w, b, f)
  BY <1>1, <1>3 DEF Left, Receipts
<1>6. Evidence(e, w, b, f) /\ Sessions(e, w, b)
  BY <1>1 DEF Left, Evidence, Sessions
<1>7. Promotes(e, w, b, f)
  BY <1>1 DEF Left, Promotes
<1>8. level = "business" => Keeps(w, b, f)
  BY <1>1 DEF Left, Keeps
<1> QED BY <1>4, <1>5, <1>6, <1>7, <1>8 DEF Left

(* A child that is over. *)
LEMMA LeftOver ==
    ASSUME NEW e \in Execution, NEW w, NEW c, NEW d, NEW level, Left(e, w, c, d, level),
           During(w), c.pc \in {"start", "live", "closing"}, w.at \in 1 .. 6,
           NEW b, b.pc = "over", b.session = c.session, b.has = c.has, b.events = c.events, b.todo = c.todo,
           \/ b.code = 1
           \/ b.code = 0 /\ c.pc # "start" /\ (c.session = <<e, "run_1">> => d.log[e] = c.events)
    PROVE  Left(e, w, b, d, level)
<1>1. /\ ~Before(w, b) /\ (Loaded(w, b) => b.code = 0 /\ c.pc # "start")
      /\ (Loaded(w, b) => Loaded(w, c))
  BY DEF Loaded, Before, During
<1>2. c.pc # "start" => ~Before(w, c)
  BY DEF Before, During
<1>4. Whole(e, b, d)
  BY DEF Left, Whole
<1>5. Receipts(w, b, d)
  BY <1>1 DEF Left, Receipts
<1>6. Evidence(e, w, b, d) /\ Sessions(e, w, b)
  BY <1>1 DEF Left, Evidence, Sessions
<1>7. Promotes(e, w, b, d)
  BY <1>1 DEF Left, Promotes
<1>8. level = "business" => Keeps(w, b, d)
  BY <1>1 DEF Left, Keeps
<1> QED BY <1>4, <1>5, <1>6, <1>7, <1>8 DEF Left

(* The receipt of the driver is written once. *)
LEMMA PassReceipt == ASSUME PInv, HInv', NEW e \in Execution, Receipt(e) PROVE PInv'
<1> PICK c : c = child[e]
  OBVIOUS
<1>0. /\ HInv /\ c.pc = "live" /\ UNCHANGED <<asked, x, stream>> /\ DOMAIN c = ChildFields
      /\ DOMAIN disk = DiskFields /\ Silent(e)
  BY DEF Receipt, Finished, Live, PInv, HInv, ChildType, DiskType
<1> PICK g : g = Evident(e, disk)
  OBVIOUS
<1> PICK d : d = Logged(e, g)
  OBVIOUS
<1> DEFINE b == [c EXCEPT !.pc = "closing"]
           o == Over(c, 1)
           f == [Made(d) EXCEPT !.resumed[RunOf(e)] = c.session]
<1>1. \/ d.resumed[RunOf(e)] # None /\ disk' = d /\ Child(e, o)
      \/ disk' = f /\ Child(e, b)
  BY Zenon DEF Receipt
<1>2. /\ b.pc = "closing" /\ b.at = c.at /\ b.session = c.session /\ b.has = c.has
      /\ b.events = c.events /\ b.todo = c.todo
  BY <1>0 DEF ChildFields
<1> HIDE DEF b, o, f
<1>3. PICK k : Child(e, k)
  BY <1>1
<1>4. child'[e] = k /\ \A h \in Execution : h # e => child'[h] = child[h]
  BY <1>0, <1>3, ChildOne
<1>5. SameButMade(x[e], x'[e]) /\ x'[e].made = x[e].made /\ \A h \in Execution : h # e => x'[h] = x[h]
  BY <1>0, SameMemory
<1>6. DOMAIN g = DiskFields /\ (g.root = "ready" => disk.root = "ready" /\ g.spent = disk.spent)
  <2>1. g = disk \/ \E ev : g = [Made(disk) EXCEPT !.evidence[RunOf(e)] = ev]
    BY DEF Evident
  <2>2. ASSUME NEW ev, g = [Made(disk) EXCEPT !.evidence[RunOf(e)] = ev]
        PROVE  DOMAIN g = DiskFields /\ (g.root = "ready" => disk.root = "ready" /\ g.spent = disk.spent)
    BY <1>0, <2>2 DEF Made, DiskFields
  <2> QED BY <1>0, <2>1, <2>2
<1>7. /\ DOMAIN d = DiskFields /\ d.root = g.root /\ d.spent = g.spent
      /\ d.ledger = g.ledger /\ d.sidecar = g.sidecar /\ d.resumed = g.resumed
      /\ d.evidence = g.evidence /\ d.memory = g.memory
      /\ \/ d.log = g.log /\ (g.root = "ready" => c.session # <<e, "run_1">>)
         \/ /\ c.session[2] = "run_1"
            /\ d.log = [g.log EXCEPT ![c.session[1]] = c.events]
  BY <1>0, <1>6, LoggedDisk
<1>8. /\ DOMAIN f = DiskFields /\ (f.root = "ready" <=> d.root = "ready") /\ f.spent = d.spent
      /\ f.ledger = d.ledger /\ f.sidecar = d.sidecar /\ f.evidence = d.evidence /\ f.log = d.log
      /\ f.memory = d.memory /\ f.resumed = [d.resumed EXCEPT ![RunOf(e)] = c.session]
  <2> PICK h : h = Made(d)
    OBVIOUS
  <2>1. /\ DOMAIN h = DiskFields /\ (h.root = "ready" <=> d.root = "ready") /\ h.spent = d.spent
        /\ h.ledger = d.ledger /\ h.sidecar = d.sidecar /\ h.resumed = d.resumed
        /\ h.evidence = d.evidence /\ h.log = d.log /\ h.memory = d.memory
    BY <1>7, MadeSame
  <2>2. f = [h EXCEPT !.resumed[RunOf(e)] = c.session]
    BY DEF f
  <2> QED BY <2>1, <2>2 DEF DiskFields
<1>9. disk'.root = "ready" => disk.root = "ready" /\ disk'.spent = disk.spent
  BY <1>1, <1>6, <1>7, <1>8
<1>10. ASSUME Sole(x[e])
       PROVE  /\ Place(x'[e], child'[e], disk', stream'[e]) /\ Counting(x'[e], child'[e], disk')
              /\ Left(e, x'[e], child'[e], disk', asked[e].level)
  <2>1. /\ x[e].pc = "running" /\ During(x[e]) /\ Place(x[e], c, disk, stream[e]) /\ Counting(x[e], c, disk)
        /\ Left(e, x[e], c, disk, asked[e].level) /\ x[e].at \in 1 .. 6
    BY <1>0, <1>10, Occupied
  <2>2. c.at = x[e].at /\ disk.root = "ready" /\ RunOf(e) = Runs[x[e].at]
    BY <2>1 DEF Place, RunOf
  <2>3. IsSeq(c.events)
    BY <2>1 DEF Left, Whole
  <2>4. /\ (g.root = "ready" <=> disk.root = "ready") /\ g.ledger = disk.ledger
        /\ g.sidecar = disk.sidecar /\ g.resumed = disk.resumed /\ g.log = disk.log /\ g.memory = disk.memory
    BY <1>0, <2>3, EvidentDisk
  <2>5. g.evidence = disk.evidence
        \/ \E ev : Backed(ev, c.session, c.events)
                   /\ g.evidence = [disk.evidence EXCEPT ![Runs[x[e].at]] = ev]
    BY <1>0, <2>2, <2>3, EvidentDisk
  <2>6. Left(e, x[e], c, g, asked[e].level)
    BY ONLY e \in Execution, <1>0, <2>1, <2>4, <2>5, LeftEvident, Zenon
  <2>8. Left(e, x[e], c, d, asked[e].level)
    <3>1. \/ d.log = g.log /\ c.session # <<e, "run_1">>
          \/ c.session[2] = "run_1" /\ d.log = [g.log EXCEPT ![c.session[1]] = c.events]
      BY <1>7, <2>2, <2>4
    <3>2. c.pc \in {"live", "closing"}
      BY <1>0
    <3> QED BY ONLY e \in Execution, <1>7, <2>1, <2>6, <3>1, <3>2, LeftLogged, Zenon
  <2>9. d.resumed[RunOf(e)] = None
    BY <1>0, <2>1, <2>2, <2>8 DEF Left, Receipts
  <2>10. disk' = f /\ child'[e] = b
    BY <1>0, <1>1, <2>9, ChildOne
  <2>11. Left(e, x[e], b, f, asked[e].level)
    BY <1>0, <1>2, <1>8, <2>1, <2>2, <2>8, LeftClosing
  <2>12. Left(e, x'[e], b, f, asked[e].level)
    BY ONLY e \in Execution, <1>5, <2>11, LeftSame, Zenon
  <2>13. \A s \in Stream : stream'[e][s].pc = "idle"
    BY <1>0 DEF Silent
  <2>14. f.root = "ready" /\ f.ledger = disk.ledger
    BY <1>7, <1>8, <2>2, <2>4
  <2>15. Place(x'[e], b, f, stream'[e])
    BY <1>0, <1>2, <1>5, <2>1, <2>13, <2>14, PlaceSame DEF Place
  <2>16. Counting(x'[e], b, f)
    BY <1>0, <1>2, <1>5, <2>1, <2>14 DEF Counting, During, SameButMade
  <2> QED BY <2>10, <2>12, <2>15, <2>16
<1> QED BY <1>0, <1>4, <1>5, <1>9, <1>10, AgentStep

(* A child that ends keeps its session. *)
LEMMA PassExit == ASSUME PInv, HInv', NEW e \in Execution, Exit(e) PROVE PInv'
<1> PICK c : c = child[e]
  OBVIOUS
<1>0. /\ HInv /\ c.pc \in {"live", "closing"} /\ UNCHANGED <<asked, x>> /\ DOMAIN c = ChildFields
      /\ DOMAIN disk = DiskFields
  BY DEF Exit, PInv, HInv, ChildType, DiskType
<1>1. PICK code \in {0, 1} : Closed(e, code)
  BY DEF Exit
<1>2. disk' = Logged(e, disk)
  BY DEF Exit
<1> PICK d : d = Logged(e, disk)
  OBVIOUS
<1> PICK b : b = child'[e]
  OBVIOUS
<1>3. /\ b = [c EXCEPT !.pc = "over", !.code = code]
      /\ stream'[e] = Quiet
      /\ \A h \in Execution : h # e => child'[h] = child[h] /\ stream'[h] = stream[h]
  BY <1>0, <1>1 DEF Closed, HInv, ChildType, StreamType
<1>4. /\ b.pc = "over" /\ b.code = code /\ b.at = c.at /\ b.session = c.session /\ b.has = c.has
      /\ b.events = c.events /\ b.todo = c.todo
  BY <1>0, <1>3 DEF ChildFields
<1>5. SameButMade(x[e], x'[e]) /\ x'[e].made = x[e].made /\ \A h \in Execution : h # e => x'[h] = x[h]
  BY <1>0, SameMemory
<1>6. \A s \in Stream : stream'[e][s].pc = "idle"
  BY <1>3 DEF Quiet
<1>7. /\ DOMAIN d = DiskFields /\ d.root = disk.root /\ d.spent = disk.spent
      /\ d.ledger = disk.ledger /\ d.sidecar = disk.sidecar /\ d.resumed = disk.resumed
      /\ d.evidence = disk.evidence /\ d.memory = disk.memory
      /\ \/ d.log = disk.log /\ (disk.root = "ready" => c.session # <<e, "run_1">>)
         \/ /\ c.session[2] = "run_1"
            /\ d.log = [disk.log EXCEPT ![c.session[1]] = c.events]
  BY <1>0, LoggedDisk
<1>8. ASSUME Sole(x[e])
      PROVE  Place(x'[e], b, d, stream'[e]) /\ Counting(x'[e], b, d) /\ Left(e, x'[e], b, d, asked[e].level)
  <2>1. /\ x[e].pc = "running" /\ During(x[e]) /\ Place(x[e], c, disk, stream[e]) /\ Counting(x[e], c, disk)
        /\ Left(e, x[e], c, disk, asked[e].level) /\ x[e].at \in 1 .. 6
    BY <1>0, <1>8, Occupied
  <2>2. disk.root = "ready"
    BY <2>1 DEF Place
  <2>3. /\ Left(e, x[e], c, d, asked[e].level)
        /\ c.session = <<e, "run_1">> => d.log[e] = c.events
    <3>1. \/ d.log = disk.log /\ c.session # <<e, "run_1">>
          \/ c.session[2] = "run_1" /\ d.log = [disk.log EXCEPT ![c.session[1]] = c.events]
      BY <1>7, <2>2
    <3> QED BY <1>0, <1>7, <2>1, <3>1, LeftLogged
  <2>4. Left(e, x[e], b, d, asked[e].level)
    <3>1. \/ b.code = 1
          \/ b.code = 0 /\ c.pc # "start" /\ (c.session = <<e, "run_1">> => d.log[e] = c.events)
      BY <1>0, <1>4, <2>3
    <3>2. c.pc \in {"start", "live", "closing"}
      BY <1>0
    <3> QED BY <1>4, <2>1, <2>3, <3>1, <3>2, LeftOver, Zenon
  <2>5. Left(e, x'[e], b, d, asked[e].level)
    BY ONLY e \in Execution, <1>5, <2>4, LeftSame, Zenon
  <2>6. Place(x'[e], b, d, stream'[e])
    <3>1. \A s \in Stream : stream'[e][s].pc # "idle" => b.pc = "live" /\ "sidecar" \in b.has
      BY <1>6
    <3>2. d.root = "ready" /\ b.pc \in {"live", "closing", "over"}
      BY <1>4, <1>7, <2>2
    <3> QED BY <1>4, <1>5, <2>1, <3>1, <3>2, PlaceSame
  <2>7. Counting(x'[e], b, d)
    BY <1>0, <1>4, <1>5, <1>7, <2>1 DEF Counting, During, SameButMade
  <2> QED BY <2>5, <2>6, <2>7
<1>9. /\ disk'.root = "ready" => disk.root = "ready" /\ disk'.spent = disk.spent
      /\ Sole(x[e]) => /\ Place(x'[e], child'[e], disk', stream'[e]) /\ Counting(x'[e], child'[e], disk')
                       /\ Left(e, x'[e], child'[e], disk', asked[e].level)
  BY <1>2, <1>7, <1>8
<1>10. /\ c.pc \in {"start", "live", "closing"}
       /\ \A h \in Execution : h # e => x'[h] = x[h] /\ child'[h] = child[h] /\ stream'[h] = stream[h]
  BY <1>0, <1>3, <1>5
<1> QED BY <1>0, <1>5, <1>9, <1>10, AgentStep

-----------------------------------------------------------------------------
(* A child that loads its patches: what the next runs go by is before it. *)
LEMMA LeftLive ==
    ASSUME NEW e \in Execution, NEW w, NEW c, NEW d, NEW level, Left(e, w, c, d, level),
           During(w), c.pc = "start", w.at \in 1 .. 6,
           NEW b, b.pc = "live", IsSeq(b.todo),
           \A i \in DOMAIN b.todo : b.todo[i].tool = "promote" => b.todo[i].ref = Short(b.todo[i].ref.m),
           \/ b.session = <<e, Runs[w.at]>> /\ b.events = <<>>
           \/ b.session = <<e, "run_1">> /\ Resumed(w.at) /\ b.events = d.log[e],
           NEW f, f.log = d.log, f.resumed = d.resumed, f.evidence = d.evidence, f.memory = d.memory,
           f.sidecar = d.sidecar \/ (f.sidecar = d.sidecar \cup {Runs[w.at]} /\ "sidecar" \in b.has)
    PROVE  Left(e, w, b, f, level)
<1>1. /\ Before(w, c) /\ ~Loaded(w, c) /\ Loaded(w, b) /\ ~Before(w, b)
  BY DEF Loaded, Before, During
<1>2. IsSeq(d.log[e])
  BY DEF Left, Whole
<1>3. IsSeq(b.events)
  BY <1>2, Sequences
<1>4. Whole(e, b, f)
  BY <1>3 DEF Left, Whole
<1>5. Receipts(w, b, f)
  <2>1. \A i \in 1 .. 6 : Runs[i] \in f.sidecar => Runs[i] \in d.sidecar \/ (i = w.at /\ "sidecar" \in b.has)
    BY RunsApart
  <2>2. \A i \in 1 .. 6 : Runs[i] \in d.sidecar => i < w.at
    BY DEF Left, Receipts
  <2>3. \A i \in 1 .. 6 : d.resumed[Runs[i]] # None => i < w.at
    BY DEF Left, Receipts
  <2> QED BY <2>1, <2>2, <2>3 DEF Receipts
<1>6. Evidence(e, w, b, f)
  BY DEF Left, Evidence
<1>7. Sessions(e, w, b)
  BY DEF Sessions
<1>8. Promotes(e, w, b, f)
  <2> SUFFICES ASSUME w.at <= 3, b.session = <<e, "run_1">>
               PROVE  \A m \in d.memory["a"].long : Says(b.events, "promote", Short(m))
    BY <1>1 DEF Promotes
  <2>1. CASE Resumed(w.at) /\ b.events = d.log[e]
    BY <1>1, <2>1 DEF Left, Promotes
  <2>2. CASE b.session = <<e, Runs[w.at]>> /\ b.events = <<>>
    <3>1. Runs[w.at] = "run_1"
      BY <2>2
    <3>2. w.at = 1
      BY <3>1, RunsApart
    <3> QED BY <1>1, <3>2 DEF Left, Promotes
  <2> QED BY <2>1, <2>2
<1>9. level = "business" => Keeps(w, b, f)
  BY <1>1 DEF Left, Keeps
<1> QED BY <1>4, <1>5, <1>6, <1>7, <1>8, <1>9 DEF Left

(* A child that does not come to live. *)
LEMMA LeftUnborn ==
    ASSUME NEW e \in Execution, NEW w, NEW c, NEW d, NEW level, Left(e, w, c, d, level),
           During(w), c.pc = "start", w.at \in 1 .. 6,
           NEW b, b.pc = "over", b.code = 1, b.session = c.session, b.has = c.has, b.events = c.events, b.todo = c.todo,
           NEW f, f.log = d.log, f.resumed = d.resumed, f.evidence = d.evidence, f.memory = d.memory,
           f.sidecar = d.sidecar \/ f.sidecar = d.sidecar \cup {Runs[w.at]}
    PROVE  Left(e, w, b, f, level)
<1>1. ~Loaded(w, b) /\ ~Before(w, b) /\ Before(w, c) /\ ~Loaded(w, c)
  BY DEF Loaded, Before, During
<1>4. Whole(e, b, f)
  BY DEF Left, Whole
<1>5. Receipts(w, b, f)
  <2>1. \A i \in 1 .. 6 : Runs[i] \in f.sidecar => Runs[i] \in d.sidecar \/ i = w.at
    BY RunsApart
  <2>2. \A i \in 1 .. 6 : Runs[i] \in d.sidecar => i < w.at
    BY DEF Left, Receipts
  <2>3. \A i \in 1 .. 6 : d.resumed[Runs[i]] # None => i < w.at
    BY DEF Left, Receipts
  <2> QED BY <1>1, <2>1, <2>2, <2>3 DEF Receipts
<1>6. Evidence(e, w, b, f) /\ Sessions(e, w, b)
  BY <1>1 DEF Left, Evidence, Sessions
<1>7. Promotes(e, w, b, f)
  BY <1>1 DEF Promotes
<1>9. level = "business" => Keeps(w, b, f)
  BY <1>1 DEF Left, Keeps
<1> QED BY <1>4, <1>5, <1>6, <1>7, <1>9 DEF Left

(* A child begins with the session it was given, or with its own. *)
LEMMA PassLoad == ASSUME PInv, HInv', NEW e \in Execution, Load(e) PROVE PInv'
<1> PICK c : c = child[e]
  OBVIOUS
<1>0. /\ HInv /\ c.pc = "start" /\ UNCHANGED <<asked, x, stream>> /\ DOMAIN c = ChildFields
      /\ DOMAIN disk = DiskFields /\ c.at \in 1 .. 6
  BY DEF Load, PInv, HInv, ChildType, DiskType
<1> DEFINE wanted == IF Resumed(c.at) THEN {"sidecar", "driver"} ELSE {"sidecar"}
           plans  == Plans(asked[e].level, RunOf(e))
           heard(has) == IF SidecarRefused(e) THEN has \ {"sidecar"} ELSE has
           first  == disk.evidence["run_1"].session
           sess(has) == IF "driver" \in has THEN first ELSE <<e, RunOf(e)>>
           told(has) == IF "driver" \in has THEN disk.log[first[1]] ELSE <<>>
           lives(has, i) == [c EXCEPT !.pc = "live", !.has = heard(has), !.session = sess(has),
                               !.asks = plans[i].asks, !.todo = plans[i].todo, !.events = told(has)]
<1>1. PICK has \in SUBSET wanted, i \in DOMAIN plans :
         /\ IF disk.root = "none" \/ ("driver" \in has /\ DriverRefused(e))
            THEN Child(e, Over(c, 1))
            ELSE Child(e, lives(has, i)) \/ (heard(has) # has /\ Child(e, Over(c, 1)))
         /\ disk' = IF "sidecar" \in heard(has) /\ disk.root # "none"
                    THEN [disk EXCEPT !.sidecar = @ \cup {RunOf(e)}] ELSE disk
  BY DEF Load
<1> PICK o : o = Over(c, 1)
  OBVIOUS
<1>2. /\ o.pc = "over" /\ o.code = 1 /\ o.at = c.at /\ o.session = c.session /\ o.has = c.has
      /\ o.events = c.events /\ o.todo = c.todo
  BY <1>0 DEF Over, ChildFields
<1> DEFINE b == lives(has, i)
<1>3. /\ b.pc = "live" /\ b.at = c.at /\ b.has = heard(has) /\ b.session = sess(has)
      /\ b.todo = plans[i].todo /\ b.events = told(has)
  <2> HIDE DEF heard, sess, told, plans
  <2> QED BY <1>0 DEF ChildFields
<1>4. /\ Child(e, o) \/ (Child(e, b) /\ ~("driver" \in has /\ DriverRefused(e)))
  <2> HIDE DEF b, heard, sess, told, plans
  <2> QED BY <1>1 DEF b
<1>5. /\ disk'.root = disk.root /\ disk'.spent = disk.spent /\ disk'.ledger = disk.ledger
      /\ disk'.log = disk.log /\ disk'.resumed = disk.resumed /\ disk'.evidence = disk.evidence
      /\ disk'.memory = disk.memory
      /\ \/ disk'.sidecar = disk.sidecar
         \/ disk'.sidecar = disk.sidecar \cup {RunOf(e)} /\ "sidecar" \in heard(has)
  <2> HIDE DEF b, heard, sess, told, plans, lives
  <2>1. disk' = disk \/ (disk' = [disk EXCEPT !.sidecar = @ \cup {RunOf(e)}] /\ "sidecar" \in heard(has))
    BY <1>1
  <2> QED BY <1>0, <2>1 DEF DiskFields
<1>6. has \in SUBSET wanted /\ i \in DOMAIN plans
  BY <1>1
<1>7. IsSeq(b.todo) /\ \A k \in DOMAIN b.todo : b.todo[k].tool = "promote" => b.todo[k].ref = Short(b.todo[k].ref.m)
  <2>1. asked[e] \in Input /\ RunOf(e) \in Range(Runs)
    BY <1>0, RunsNamed DEF PInv, Shapes, RunOf
  <2> PICK todo : todo = plans[i].todo
    OBVIOUS
  <2>2. todo \in Seq(Range(todo)) /\ \A t \in Range(todo) : t.tool = "promote" => t.ref = Short(t.ref.m)
    BY <1>6, <2>1, HarnessAssumption DEF HarnessAssumption
  <2>3. b.todo = todo
    BY <1>3
  <2> HIDE DEF b, plans
  <2>4. \A k \in DOMAIN todo : todo[k] \in Range(todo)
    BY DEF Range
  <2> QED BY <2>2, <2>3, <2>4 DEF IsSeq
<1> HIDE DEF b, plans, heard, sess, told, lives
<1>8. PICK k : Child(e, k) /\ (k = o \/ (k = b /\ ~("driver" \in has /\ DriverRefused(e))))
  BY <1>4
<1>9. child'[e] = k /\ \A h \in Execution : h # e => child'[h] = child[h]
  BY <1>0, <1>8, ChildOne
<1>10. SameButMade(x[e], x'[e]) /\ x'[e].made = x[e].made /\ \A h \in Execution : h # e => x'[h] = x[h]
  BY <1>0, SameMemory
<1>11. ASSUME Sole(x[e])
       PROVE  /\ Place(x'[e], k, disk', stream'[e]) /\ Counting(x'[e], k, disk')
              /\ Left(e, x'[e], k, disk', asked[e].level)
  <2>1. /\ x[e].pc = "running" /\ During(x[e]) /\ Place(x[e], c, disk, stream[e]) /\ Counting(x[e], c, disk)
        /\ Left(e, x[e], c, disk, asked[e].level) /\ x[e].at \in 1 .. 6
    BY <1>0, <1>11, Occupied
  <2>2. c.at = x[e].at /\ disk.root = "ready" /\ RunOf(e) = Runs[x[e].at]
    BY <2>1 DEF Place, RunOf
  <2>3. \A s \in Stream : stream'[e][s].pc = "idle"
    BY <1>0, <2>1 DEF Place
  <2>4. k.pc \in {"live", "over"} /\ k.at = c.at
    BY <1>2, <1>3, <1>8
  <2>5. Place(x'[e], k, disk', stream'[e])
    <3>1. \A s \in Stream : stream'[e][s].pc # "idle" => k.pc = "live" /\ "sidecar" \in k.has
      BY <2>3
    <3>2. disk'.root = "ready" /\ k.pc \in {"live", "closing", "over"}
      BY <1>5, <2>2, <2>4
    <3> QED BY <1>10, <2>1, <2>4, <3>1, <3>2, PlaceSame
  <2>6. Counting(x'[e], k, disk')
    BY <1>0, <1>5, <1>10, <2>1 DEF Counting, SameButMade
  <2>7. Left(e, x[e], k, disk', asked[e].level)
    <3>1. CASE k = o
      <4>1. disk'.sidecar = disk.sidecar \/ disk'.sidecar = disk.sidecar \cup {Runs[x[e].at]}
        BY <1>5, <2>2
      <4>2. Left(e, x[e], o, disk', asked[e].level)
        BY <1>0, <1>2, <1>5, <2>1, <4>1, LeftUnborn
      <4> QED BY <3>1, <4>2
    <3>2. CASE k = b /\ ~("driver" \in has /\ DriverRefused(e))
      <4>1. \/ disk'.sidecar = disk.sidecar
            \/ disk'.sidecar = disk.sidecar \cup {Runs[x[e].at]} /\ "sidecar" \in b.has
        BY <1>3, <1>5, <2>2
      <4>2. \/ b.session = <<e, Runs[x[e].at]>> /\ b.events = <<>>
            \/ b.session = <<e, "run_1">> /\ Resumed(x[e].at) /\ b.events = disk.log[e]
        <5>1. CASE "driver" \notin has
          BY <1>3, <2>2, <5>1 DEF sess, told
        <5>2. CASE "driver" \in has
          <6>1. Resumed(x[e].at)
            BY <1>6, <2>2, <5>2
          <6>2. disk.evidence["run_1"] # None
            BY <3>2, <5>2 DEF DriverRefused
          <6>3. first = <<e, "run_1">>
            BY <2>1, <6>2 DEF Left, Evidence
          <6>4. b.session = first /\ b.events = disk.log[first[1]]
            BY <1>3, <5>2, Zenon DEF sess, told
          <6>5. first[1] = e
            BY <6>3
          <6> HIDE DEF first
          <6> QED BY <6>1, <6>3, <6>4, <6>5
        <5> QED BY <5>1, <5>2
      <4>3. b.pc = "live"
        BY <1>3
      <4>4. Left(e, x[e], b, disk', asked[e].level)
        BY <1>0, <1>5, <1>7, <2>1, <4>1, <4>2, <4>3, LeftLive
      <4> QED BY <3>2, <4>4
    <3> QED BY <1>8, <3>1, <3>2
  <2>8. Left(e, x'[e], k, disk', asked[e].level)
    BY ONLY e \in Execution, <1>10, <2>7, LeftSame, Zenon
  <2> QED BY <2>5, <2>6, <2>8
<1> QED BY <1>0, <1>5, <1>9, <1>10, <1>11, AgentStep

(* What a tool does to a memory. *)
LEMMA Answered ==
    ASSUME NEW a, NEW s, NEW call, NEW v, v = Answer(a, s, call).world
    PROVE  \/ v = a
           \/ call.tool = "promote" /\ v = [a EXCEPT !.long = @ \cup {call.ref.m}]
           \/ call.tool = "forget" /\ v = [a EXCEPT !.forget = @ \cup {call.ref}]
           \/ v = Remember(a, s, call.ref.m)
<1> PICK r : r = Answer(a, s, call)
  OBVIOUS
<1>1. CASE call.tool = "status"
  <2>1. r = Reply(a, "ready", {})
    BY <1>1 DEF Answer
  <2> QED BY <2>1 DEF Reply
<1>2. CASE call.tool \in {"list", "search"}
  <2>1. r = Reply(a, "pass", Shown(a, s))
    BY <1>2 DEF Answer
  <2> QED BY <2>1 DEF Reply
<1>3. CASE call.tool = "open"
  <2>1. r = Reply(a, "pass", {call.ref}) \/ r = Error(a)
    BY <1>3 DEF Answer
  <2> QED BY <2>1 DEF Reply, Error
<1>4. CASE call.tool = "promote"
  <2> DEFINE n == [a EXCEPT !.long = @ \cup {call.ref.m}]
  <2>1. r = IF Exists(a, s, Short(call.ref.m)) THEN Written(a, call.ref.m \in a.long, n) ELSE Error(a)
    BY <1>4 DEF Answer
  <2> HIDE DEF n
  <2>2. Written(a, call.ref.m \in a.long, n).world = n /\ Error(a).world = a
    BY DEF Written, Reply, Error
  <2>3. v = n \/ v = a
    BY <2>1, <2>2
  <2> QED BY <1>4, <2>3 DEF n
<1>5. CASE call.tool = "forget"
  <2> DEFINE n == [a EXCEPT !.forget = @ \cup {call.ref}]
  <2>1. r = IF Exists(a, s, call.ref) THEN Written(a, call.ref \in a.forget, n) ELSE Error(a)
    BY <1>5 DEF Answer
  <2> HIDE DEF n
  <2>2. Written(a, call.ref \in a.forget, n).world = n /\ Error(a).world = a
    BY DEF Written, Reply, Error
  <2>3. v = n \/ v = a
    BY <2>1, <2>2
  <2> QED BY <1>5, <2>3 DEF n
<1>6. CASE call.tool = "remember"
  <2> DEFINE n == Remember(a, s, call.ref.m)
  <2>1. r = Written(a, Duplicate(a, s, call.ref.m), n)
    BY <1>6 DEF Answer
  <2> HIDE DEF n
  <2>2. Written(a, Duplicate(a, s, call.ref.m), n).world = n
    BY DEF Written, Reply
  <2> QED BY <2>1, <2>2 DEF n
<1>7. CASE call.tool \notin {"status", "list", "search", "open", "promote", "forget", "remember"}
  <2>1. r = Reply(a, "unknown", {})
    BY <1>7 DEF Answer
  <2> QED BY <2>1 DEF Reply
<1> QED BY <1>1, <1>2, <1>3, <1>4, <1>5, <1>6, <1>7

(* What a memory gains when a tool answers. *)
LEMMA RememberGrows ==
    ASSUME NEW a, DOMAIN a = MemoryFields, NEW s, NEW m, NEW v, v = Remember(a, s, m)
    PROVE  /\ DOMAIN v = MemoryFields /\ a.short \subseteq v.short
           /\ v.long = a.long /\ v.forget = a.forget
  BY DEF Remember, MemoryFields

LEMMA AnswerGrows ==
    ASSUME NEW a, DOMAIN a = MemoryFields, NEW s, NEW call, NEW v, v = Answer(a, s, call).world
    PROVE  /\ DOMAIN v = MemoryFields /\ a.short \subseteq v.short /\ a.long \subseteq v.long
           /\ \A m \in v.long : m \in a.long \/ (call.tool = "promote" /\ m = call.ref.m)
           /\ \A r \in v.forget : r \in a.forget \/ (call.tool = "forget" /\ r = call.ref)
<1>1. v = Remember(a, s, call.ref.m) => /\ DOMAIN v = MemoryFields /\ a.short \subseteq v.short
                                        /\ v.long = a.long /\ v.forget = a.forget
  BY RememberGrows
<1>2. CASE v # Remember(a, s, call.ref.m)
  BY <1>2, Answered DEF MemoryFields
<1> QED BY <1>1, <1>2

(* A thing said more, and what it did. *)
LEMMA LeftSaid ==
    ASSUME NEW e \in Execution, NEW w, NEW c, NEW d, NEW level, Left(e, w, c, d, level),
           During(w), c.pc = "live", w.at \in 1 .. 6,
           NEW b, b.pc = c.pc, b.has = c.has, b.session = c.session, IsSeq(b.events), IsSeq(b.todo),
           \A i \in DOMAIN b.todo : b.todo[i].tool = "promote" => b.todo[i].ref = Short(b.todo[i].ref.m),
           \A tool, ref : Says(c.events, tool, ref) => Says(b.events, tool, ref),
           NEW f, f.log = d.log, f.resumed = d.resumed, f.evidence = d.evidence, f.sidecar = d.sidecar,
           DOMAIN f.memory = {"a", "b"}, \A p \in {"a", "b"} : DOMAIN f.memory[p] = MemoryFields,
           d.memory["a"].short \subseteq f.memory["a"].short, d.memory["a"].long \subseteq f.memory["a"].long,
           \A m \in f.memory["a"].long : m \in d.memory["a"].long \/ Says(b.events, "promote", Short(m)),
           \A r \in f.memory["a"].forget : r \in d.memory["a"].forget \/ Says(b.events, "forget", r)
    PROVE  Left(e, w, b, f, level)
<1>1. ~Before(w, c) /\ Loaded(w, c) /\ Loaded(w, b) /\ ~Before(w, b)
  BY DEF Loaded, Before, During
<1>4. Whole(e, b, f)
  BY DEF Left, Whole
<1>5. Receipts(w, b, f)
  BY <1>1 DEF Left, Receipts
<1>6. Evidence(e, w, b, f)
  <2>1. \A ev, session : Backed(ev, session, c.events) => Backed(ev, session, b.events)
    BY DEF Backed
  <2> QED BY <2>1 DEF Left, Evidence
<1>7. Sessions(e, w, b)
  BY <1>1 DEF Left, Sessions
<1>8. Promotes(e, w, b, f)
  BY <1>1 DEF Left, Promotes
<1>9. level = "business" => Keeps(w, b, f)
  <2> SUFFICES ASSUME Keeps(w, c, d) PROVE Keeps(w, b, f)
    BY DEF Left
  <2> DEFINE l == Long(w.known.long)
  <2> HIDE DEF l
  <2>1. /\ w.at >= 2 => w.known.short \in d.memory["a"].short
        /\ w.at >= 4 => w.known.long \in d.memory["a"].long
        /\ w.at = 4 /\ l \in d.memory["a"].forget => Says(c.events, "forget", l)
        /\ w.at = 5 /\ l \in d.memory["a"].forget => Says(w.did[4].events, "forget", l) \/ Says(c.events, "forget", l)
    BY <1>1 DEF Keeps, l
  <2>2. /\ w.at >= 2 => w.known.short \in f.memory["a"].short
        /\ w.at >= 4 => w.known.long \in f.memory["a"].long
        /\ w.at = 4 /\ l \in f.memory["a"].forget => Says(b.events, "forget", l)
        /\ w.at = 5 /\ l \in f.memory["a"].forget => Says(w.did[4].events, "forget", l) \/ Says(b.events, "forget", l)
    BY <2>1
  <2> QED BY <1>1, <2>2 DEF Keeps, l
<1> QED BY <1>4, <1>5, <1>6, <1>7, <1>8, <1>9 DEF Left

(* What a call adds to the session. *)
LEMMA SaidCall ==
    ASSUME NEW s, IsSeq(s), NEW u, NEW v
    PROVE  LET t == s \o <<u, v>> IN
           /\ IsSeq(t) /\ \A tool, ref : Says(s, tool, ref) => Says(t, tool, ref)
           /\ u.kind = "call" => Says(t, u.call.tool, u.call.ref)
<1> PICK p : p = <<u, v>>
  OBVIOUS
<1> PICK t : t = s \o p
  OBVIOUS
<1>1. IsSeq(p) /\ Len(p) = 2 /\ p[1] = u
  <2>1. <<u, v>> \in Seq({u, v}) /\ Len(<<u, v>>) = 2 /\ <<u, v>>[1] = u
    OBVIOUS
  <2> QED BY <2>1 DEF IsSeq
<1>2. IsSeq(t) /\ Len(t) = Len(s) + Len(p) /\ \A i \in 1 .. Len(p) : t[Len(s) + i] = p[i]
  <2>0. IsSeq(p)
    BY <1>1
  <2>1. IsSeq(s \o p)
    BY <2>0, Concatenations
  <2>2. Len(s \o p) = Len(s) + Len(p)
    BY <2>0, Concatenations
  <2>3. \A i \in 1 .. Len(p) : (s \o p)[Len(s) + i] = p[i]
    BY <2>0, Concatenations
  <2> QED BY <2>1, <2>2, <2>3
<1>3. IsSeq(t) /\ Len(t) = Len(s) + 2 /\ t[Len(s) + 1] = u
  BY <1>1, <1>2
<1>4. \A tool, ref : Says(s, tool, ref) => Says(t, tool, ref)
  BY <1>1, <1>2, SaysMore
<1>5. Len(s) + 1 \in DOMAIN t
  BY <1>3, Sequences
<1>6. u.kind = "call" => Says(t, u.call.tool, u.call.ref)
  BY <1>3, <1>5 DEF Says
<1>7. t = s \o <<u, v>>
  OBVIOUS
<1> QED BY <1>3, <1>4, <1>6, <1>7, Zenon

(* And the end of a turn. *)
LEMMA SaidEnd ==
    ASSUME NEW s, IsSeq(s), NEW u
    PROVE  LET t == Append(s, u) IN
           IsSeq(t) /\ \A tool, ref : Says(s, tool, ref) => Says(t, tool, ref)
  BY Appends, SaysMore

(* A memory gains only by what is said. *)
Gains(a, n, said) ==
    /\ DOMAIN n = MemoryFields /\ a.short \subseteq n.short /\ a.long \subseteq n.long
    /\ \A m \in n.long : m \in a.long \/ Says(said, "promote", Short(m))
    /\ \A r \in n.forget : r \in a.forget \/ Says(said, "forget", r)

(* The next thing of a plan. *)
LEMMA NextThing ==
    ASSUME NEW e, NEW c, NEW d, Whole(e, c, d), c.todo # <<>>
    PROVE  LET t == Head(c.todo) IN
           /\ IsSeq(Tail(c.todo)) /\ (t.tool = "promote" => t.ref = Short(t.ref.m))
           /\ \A i \in DOMAIN Tail(c.todo) :
                 Tail(c.todo)[i].tool = "promote" => Tail(c.todo)[i].ref = Short(Tail(c.todo)[i].ref.m)
<1> PICK s : s = c.todo
  OBVIOUS
<1>1. IsSeq(s) /\ \A i \in DOMAIN s : s[i].tool = "promote" => s[i].ref = Short(s[i].ref.m)
  BY DEF Whole
<1> PICK r : r = Tail(s)
  OBVIOUS
<1>2. /\ IsSeq(r) /\ 1 \in DOMAIN s /\ Head(s) = s[1]
      /\ \A i \in DOMAIN r : i + 1 \in DOMAIN s /\ r[i] = s[i + 1]
  BY <1>1, Tails
<1>3. \A i \in DOMAIN r : r[i].tool = "promote" => r[i].ref = Short(r[i].ref.m)
  BY <1>1, <1>2
<1>4. \A t : t = Head(s) => (t.tool = "promote" => t.ref = Short(t.ref.m))
  BY <1>1, <1>2
<1> QED BY <1>2, <1>3, <1>4

(* One thing done. *)
LEMMA StepMoves ==
    ASSUME PInv, NEW e \in Execution, Step(e)
    PROVE  LET c == child[e]
               p == ProjectOf(c.at)
           IN
           \E b : /\ Child(e, b) /\ b.pc = c.pc /\ b.at = c.at /\ b.session = c.session /\ b.has = c.has
                  /\ b.todo = Tail(c.todo)
                  /\ DOMAIN disk' = DiskFields /\ disk'.root = disk.root /\ disk'.spent = disk.spent
                  /\ disk'.ledger = disk.ledger /\ disk'.sidecar = disk.sidecar
                  /\ disk'.resumed = disk.resumed /\ disk'.evidence = disk.evidence /\ disk'.log = disk.log
                  /\ Whole(e, c, disk) =>
                        /\ IsSeq(b.events)
                        /\ \A tool, ref : Says(c.events, tool, ref) => Says(b.events, tool, ref)
                        /\ DOMAIN disk'.memory = {"a", "b"}
                        /\ \A q \in {"a", "b"} : Gains(disk.memory[q], disk'.memory[q], b.events)
<1> PICK c : c = child[e]
  OBVIOUS
<1> PICK t : t = Head(c.todo)
  OBVIOUS
<1> PICK p : p = ProjectOf(c.at)
  OBVIOUS
<1> PICK r : r = Answer(disk.memory[p], c.session, t)
  OBVIOUS
<1> PICK u : u = [kind |-> "call", call |-> t]
  OBVIOUS
<1> PICK v : v = [kind |-> "result", id |-> t.id, reply |-> [ok |-> r.ok, status |-> r.status, refs |-> r.refs]]
  OBVIOUS
<1> PICK said : said = <<u, v>>
  OBVIOUS
<1> DEFINE rest == Tail(c.todo)
           after == [c EXCEPT !.todo = rest]
           due == "sidecar" \in c.has
           b2 == [after EXCEPT !.due = due, !.events = Append(@, [kind |-> "end"])]
           b3 == [after EXCEPT !.events = @ \o said]
           d1 == [disk EXCEPT !.memory[p] = Remember(@, c.session, t.ref.m)]
           d3 == [disk EXCEPT !.memory[p] = r.world]
           Fine(b, d) == /\ b.pc = c.pc /\ b.at = c.at /\ b.session = c.session /\ b.has = c.has
                         /\ b.todo = rest
                         /\ DOMAIN d = DiskFields /\ d.root = disk.root /\ d.spent = disk.spent
                         /\ d.ledger = disk.ledger /\ d.sidecar = disk.sidecar
                         /\ d.resumed = disk.resumed /\ d.evidence = disk.evidence /\ d.log = disk.log
                         /\ Whole(e, c, disk) =>
                               /\ IsSeq(b.events)
                               /\ \A tool, ref : Says(c.events, tool, ref) => Says(b.events, tool, ref)
                               /\ DOMAIN d.memory = {"a", "b"}
                               /\ \A q \in {"a", "b"} : Gains(disk.memory[q], d.memory[q], b.events)
<1>0. /\ HInv /\ DOMAIN c = ChildFields /\ DOMAIN disk = DiskFields /\ c.todo # <<>> /\ p \in {"a", "b"}
  BY DEF Step, PInv, HInv, ChildType, DiskType, ProjectOf
<1>1. \/ t.tool = "capture" /\ disk' = d1 /\ Child(e, after)
      \/ t.tool = "end" /\ disk' = disk /\ Child(e, b2)
      \/ t.tool \notin {"capture", "end"} /\ disk' = d3 /\ Child(e, b3)
  BY DEF Step
<1>2. /\ after.pc = c.pc /\ after.at = c.at /\ after.session = c.session /\ after.has = c.has
      /\ after.todo = rest /\ after.events = c.events /\ DOMAIN after = ChildFields
  <2> HIDE DEF rest
  <2> QED BY <1>0 DEF ChildFields
<1>3. Whole(e, c, disk) =>
         /\ IsSeq(c.events) /\ DOMAIN disk.memory = {"a", "b"}
         /\ \A q \in {"a", "b"} : DOMAIN disk.memory[q] = MemoryFields
         /\ t.tool = "promote" => t.ref = Short(t.ref.m)
  <2> SUFFICES ASSUME Whole(e, c, disk)
               PROVE  /\ IsSeq(c.events) /\ DOMAIN disk.memory = {"a", "b"}
                      /\ \A q \in {"a", "b"} : DOMAIN disk.memory[q] = MemoryFields
                      /\ t.tool = "promote" => t.ref = Short(t.ref.m)
    OBVIOUS
  <2>1. t.tool = "promote" => t.ref = Short(t.ref.m)
    BY <1>0, NextThing
  <2> QED BY <2>1 DEF Whole
<1>4. t.tool = "capture" => Fine(after, d1)
  <2> HIDE DEF after, rest
  <2>1. /\ DOMAIN d1 = DiskFields /\ d1.root = disk.root /\ d1.spent = disk.spent
        /\ d1.ledger = disk.ledger /\ d1.sidecar = disk.sidecar
        /\ d1.resumed = disk.resumed /\ d1.evidence = disk.evidence /\ d1.log = disk.log
        /\ d1.memory = [disk.memory EXCEPT ![p] = Remember(@, c.session, t.ref.m)]
    BY <1>0 DEF DiskFields
  <2> HIDE DEF d1
  <2>2. ASSUME Whole(e, c, disk)
        PROVE  DOMAIN d1.memory = {"a", "b"} /\ \A q \in {"a", "b"} : Gains(disk.memory[q], d1.memory[q], after.events)
    <3> PICK n : n = Remember(disk.memory[p], c.session, t.ref.m)
      OBVIOUS
    <3>0. DOMAIN disk.memory = {"a", "b"} /\ p \in {"a", "b"} /\ d1.memory = [disk.memory EXCEPT ![p] = n]
      BY <1>0, <1>3, <2>1, <2>2
    <3>1. DOMAIN d1.memory = {"a", "b"} /\ d1.memory[p] = n
          /\ \A q \in {"a", "b"} : q # p => d1.memory[q] = disk.memory[q]
      BY ONLY <3>0
    <3>2. Gains(disk.memory[p], n, after.events)
      <4> PICK a : a = disk.memory[p]
        OBVIOUS
      <4>1. DOMAIN a = MemoryFields /\ n = Remember(a, c.session, t.ref.m)
        BY <1>0, <1>3, <2>2
      <4>2. DOMAIN n = MemoryFields /\ a.short \subseteq n.short /\ n.long = a.long /\ n.forget = a.forget
        BY ONLY <4>1, RememberGrows
      <4> QED BY ONLY <4>2, a = disk.memory[p] DEF Gains
    <3>3. \A q \in {"a", "b"} : q # p => Gains(disk.memory[q], d1.memory[q], after.events)
      BY <1>3, <2>2, <3>1 DEF Gains
    <3> QED BY <3>1, <3>2, <3>3
  <2> QED BY <1>2, <1>3, <2>1, <2>2
<1>5. t.tool = "end" => Fine(b2, disk)
  <2> HIDE DEF after, rest, due
  <2>1. /\ b2.pc = after.pc /\ b2.at = after.at /\ b2.session = after.session /\ b2.has = after.has
        /\ b2.todo = after.todo /\ b2.events = Append(after.events, [kind |-> "end"])
    BY <1>2 DEF ChildFields
  <2> HIDE DEF b2
  <2>2. ASSUME Whole(e, c, disk)
        PROVE  IsSeq(b2.events) /\ \A tool, ref : Says(c.events, tool, ref) => Says(b2.events, tool, ref)
    BY <1>2, <1>3, <2>1, <2>2, SaidEnd
  <2>3. ASSUME Whole(e, c, disk)
        PROVE  \A q \in {"a", "b"} : Gains(disk.memory[q], disk.memory[q], b2.events)
    <3>1. \A q \in {"a", "b"} : DOMAIN disk.memory[q] = MemoryFields
      BY ONLY <1>3, <2>3
    <3> QED BY ONLY <3>1 DEF Gains
  <2> QED BY <1>0, <1>2, <1>3, <2>1, <2>2, <2>3
<1>6. t.tool \notin {"capture", "end"} => Fine(b3, d3)
  <2> HIDE DEF after, rest
  <2>0. DOMAIN after = ChildFields /\ b3 = [after EXCEPT !.events = @ \o said]
    BY <1>2
  <2>1. /\ b3.pc = after.pc /\ b3.at = after.at /\ b3.session = after.session /\ b3.has = after.has
        /\ b3.todo = after.todo /\ b3.events = after.events \o said
    BY ONLY <2>0 DEF ChildFields
  <2>2. /\ DOMAIN d3 = DiskFields /\ d3.root = disk.root /\ d3.spent = disk.spent
        /\ d3.ledger = disk.ledger /\ d3.sidecar = disk.sidecar
        /\ d3.resumed = disk.resumed /\ d3.evidence = disk.evidence /\ d3.log = disk.log
        /\ d3.memory = [disk.memory EXCEPT ![p] = r.world]
    BY <1>0 DEF DiskFields
  <2> HIDE DEF b3, d3
  <2>3. ASSUME Whole(e, c, disk)
        PROVE  /\ IsSeq(b3.events) /\ \A tool, ref : Says(c.events, tool, ref) => Says(b3.events, tool, ref)
               /\ Says(b3.events, t.tool, t.ref)
    <3>1. u.kind = "call" /\ u.call = t
      BY ONLY u = [kind |-> "call", call |-> t]
    <3>2. b3.events = c.events \o <<u, v>>
      BY ONLY said = <<u, v>>, <1>2, <2>1
    <3>3. IsSeq(c.events)
      BY ONLY <1>3, <2>3
    <3> QED BY ONLY <3>1, <3>2, <3>3, SaidCall
  <2>4. ASSUME Whole(e, c, disk)
        PROVE  DOMAIN d3.memory = {"a", "b"} /\ \A q \in {"a", "b"} : Gains(disk.memory[q], d3.memory[q], b3.events)
    <3>0. DOMAIN disk.memory = {"a", "b"} /\ p \in {"a", "b"} /\ d3.memory = [disk.memory EXCEPT ![p] = r.world]
      BY <1>0, <1>3, <2>2, <2>4
    <3>1. DOMAIN d3.memory = {"a", "b"} /\ d3.memory[p] = r.world
          /\ \A q \in {"a", "b"} : q # p => d3.memory[q] = disk.memory[q]
      BY ONLY <3>0
    <3>2. Gains(disk.memory[p], r.world, b3.events)
      <4> PICK a : a = disk.memory[p]
        OBVIOUS
      <4> PICK n : n = r.world
        OBVIOUS
      <4>1. DOMAIN a = MemoryFields /\ n = Answer(a, c.session, t).world
        BY <1>0, <1>3, <2>4
      <4>2. /\ DOMAIN n = MemoryFields /\ a.short \subseteq n.short /\ a.long \subseteq n.long
            /\ \A m \in n.long : m \in a.long \/ (t.tool = "promote" /\ m = t.ref.m)
            /\ \A k \in n.forget : k \in a.forget \/ (t.tool = "forget" /\ k = t.ref)
        BY ONLY <4>1, AnswerGrows
      <4>3. Says(b3.events, t.tool, t.ref) /\ (t.tool = "promote" => t.ref = Short(t.ref.m))
        BY <1>3, <2>3, <2>4
      <4> QED BY ONLY <4>2, <4>3, a = disk.memory[p], n = r.world DEF Gains
    <3>3. \A q \in {"a", "b"} : q # p => Gains(disk.memory[q], d3.memory[q], b3.events)
      BY <1>3, <2>4, <3>1 DEF Gains
    <3> QED BY ONLY <3>1, <3>2, <3>3
  <2> QED BY <1>2, <2>1, <2>2, <2>3, <2>4
<1> HIDE DEF after, b2, b3, d1, d3
<1>7. \E b : Child(e, b) /\ Fine(b, disk')
  <2> HIDE DEF Fine
  <2> QED BY <1>1, <1>4, <1>5, <1>6
<1> QED BY <1>7

(* A thing said is what the memory gains by. *)
LEMMA PassStep == ASSUME PInv, HInv', NEW e \in Execution, Step(e) PROVE PInv'
<1> PICK c : c = child[e]
  OBVIOUS
<1>0. HInv /\ c.pc = "live" /\ UNCHANGED <<asked, x, stream>> /\ c.todo # <<>>
  BY DEF Step, Live, PInv
<1>1. PICK b : /\ Child(e, b) /\ b.pc = c.pc /\ b.at = c.at /\ b.session = c.session /\ b.has = c.has
               /\ b.todo = Tail(c.todo)
               /\ DOMAIN disk' = DiskFields /\ disk'.root = disk.root /\ disk'.spent = disk.spent
               /\ disk'.ledger = disk.ledger /\ disk'.sidecar = disk.sidecar
               /\ disk'.resumed = disk.resumed /\ disk'.evidence = disk.evidence /\ disk'.log = disk.log
               /\ Whole(e, c, disk) =>
                     /\ IsSeq(b.events)
                     /\ \A tool, ref : Says(c.events, tool, ref) => Says(b.events, tool, ref)
                     /\ DOMAIN disk'.memory = {"a", "b"}
                     /\ \A q \in {"a", "b"} : Gains(disk.memory[q], disk'.memory[q], b.events)
  BY StepMoves
<1>2. child'[e] = b /\ \A h \in Execution : h # e => child'[h] = child[h]
  BY <1>0, <1>1, ChildOne
<1>3. SameButMade(x[e], x'[e]) /\ x'[e].made = x[e].made /\ \A h \in Execution : h # e => x'[h] = x[h]
  BY <1>0, SameMemory
<1>4. ASSUME Sole(x[e])
      PROVE  Place(x'[e], b, disk', stream'[e]) /\ Counting(x'[e], b, disk')
             /\ Left(e, x'[e], b, disk', asked[e].level)
  <2>1. /\ x[e].pc = "running" /\ During(x[e]) /\ Place(x[e], c, disk, stream[e]) /\ Counting(x[e], c, disk)
        /\ Left(e, x[e], c, disk, asked[e].level) /\ x[e].at \in 1 .. 6
    BY <1>0, <1>4, Occupied
  <2>2. Whole(e, c, disk)
    BY <2>1 DEF Left
  <2>3. /\ IsSeq(b.events) /\ \A tool, ref : Says(c.events, tool, ref) => Says(b.events, tool, ref)
        /\ DOMAIN disk'.memory = {"a", "b"} /\ \A q \in {"a", "b"} : Gains(disk.memory[q], disk'.memory[q], b.events)
    BY <1>1, <2>2
  <2>4. /\ IsSeq(b.todo)
        /\ \A i \in DOMAIN b.todo : b.todo[i].tool = "promote" => b.todo[i].ref = Short(b.todo[i].ref.m)
    BY <1>0, <1>1, <2>2, NextThing
  <2>5. /\ \A q \in {"a", "b"} : DOMAIN disk'.memory[q] = MemoryFields
        /\ disk.memory["a"].short \subseteq disk'.memory["a"].short
        /\ disk.memory["a"].long \subseteq disk'.memory["a"].long
        /\ \A m \in disk'.memory["a"].long : m \in disk.memory["a"].long \/ Says(b.events, "promote", Short(m))
        /\ \A r \in disk'.memory["a"].forget : r \in disk.memory["a"].forget \/ Says(b.events, "forget", r)
    BY <2>3 DEF Gains
  <2>6. Left(e, x[e], b, disk', asked[e].level)
    BY <1>0, <1>1, <2>1, <2>3, <2>4, <2>5, LeftSaid
  <2>7. Left(e, x'[e], b, disk', asked[e].level)
    BY ONLY e \in Execution, <1>3, <2>6, LeftSame, Zenon
  <2>8. Place(x'[e], b, disk', stream'[e])
    <3>1. \A s \in Stream : stream'[e][s].pc # "idle" => b.pc = "live" /\ "sidecar" \in b.has
      BY <1>0, <1>1, <2>1 DEF Place
    <3>2. disk'.root = "ready" /\ b.pc \in {"live", "closing", "over"}
      BY <1>0, <1>1, <2>1 DEF Place
    <3> QED BY <1>1, <1>3, <2>1, <3>1, <3>2, PlaceSame
  <2>9. Counting(x'[e], b, disk')
    BY <1>0, <1>1, <1>3, <2>1 DEF Counting, During, SameButMade
  <2> QED BY <2>7, <2>8, <2>9
<1>5. disk'.root = "ready" => disk.root = "ready" /\ disk'.spent = disk.spent
  BY <1>1
<1> QED BY <1>0, <1>2, <1>3, <1>4, <1>5, AgentStep

(* Every step of an agent. *)
LEMMA PassAgent == ASSUME PInv, NEW e \in Execution, Agent(e) PROVE PInv'
<1>1. HInv'
  BY AgentKeeps DEF PInv
<1> QED BY <1>1, PassLoad, PassStep, PassFlush, PassReceipt, PassExit, PassPassBy, PassLook,
           PassCreate, PassWrite, PassFinish DEF Agent

(* A step that changes nothing. *)
LEMMA PassStutters == ASSUME PInv, UNCHANGED harnessVars PROVE PInv'
<1>1. HInv'
  BY Stutters DEF PInv
<1>2. UNCHANGED <<asked, disk, x, child, stream>>
  BY DEF harnessVars
<1> QED BY <1>1, <1>2 DEF PInv, Shapes, Untouched, Outside, SpentOnce, Lone, Everyone, Entered

(* The invariant is kept by every step. *)
LEMMA PassInductive == ASSUME PInv, [HarnessNext]_harnessVars PROVE PInv'
  BY PassAround, PassExecutes, PassAgent, PassStutters DEF HarnessNext

(* An execution that is alone has earned a report that passes. *)
LEMMA EarnedOne ==
    ASSUME PInv, NEW e \in Execution, x[e].report # None
    PROVE  LET r == x[e].report
               did == x[e].did
           IN
           /\ ValidReport(r, Len(Runs), MaxRequests)
           /\ r.status = "pass" /\ x[e].alone =>
                 /\ Len(did) = Len(Runs) /\ r.requests = x[e].made
                 /\ \A i \in DOMAIN did : "sidecar" \in did[i].has
                 /\ \A i \in DOMAIN did : Resumed(i) => did[i].session = did[1].session
                 /\ r.level = "business" =>
                      /\ \E ref \in x[e].prior.short : Asked(did[2], "open", Short(ref))
                      /\ did[4].session # did[1].session
                      /\ \E m \in x[e].prior.long :
                            /\ Asked(did[3], "promote", Short(m)) /\ Asked(did[4], "open", Long(m))
                            /\ \E i \in {4, 5} : Asked(did[i], "forget", Long(m))
<1> PICK w : w = x[e]
  OBVIOUS
<1> PICK level : level = asked[e].level
  OBVIOUS
<1> PICK r : r = w.report
  OBVIOUS
<1> PICK did : did = w.did
  OBVIOUS
<1>1. Past(e, w, level) /\ AtEnd(w, child[e], stream[e]) /\ Told(w, level) /\ ExecutionShape(w)
  BY DEF PInv, Everyone, Mine, Reports, Shapes
<1>2. /\ w.pc = "done" /\ ValidReport(r, 6, MaxRequests) /\ r.level = level
      /\ r.status = "pass" => w.status = "pass" /\ r.requests = w.requests
  BY <1>1 DEF Told
<1>3. ASSUME r.status = "pass", w.alone
      PROVE  /\ Len(did) = 6 /\ r.requests = w.made
             /\ \A i \in DOMAIN did : "sidecar" \in did[i].has
             /\ \A i \in DOMAIN did : Resumed(i) => did[i].session = did[1].session
             /\ r.level = "business" =>
                  /\ \E ref \in w.prior.short : Asked(did[2], "open", Short(ref))
                  /\ did[4].session # did[1].session
                  /\ \E m \in w.prior.long :
                        /\ Asked(did[3], "promote", Short(m)) /\ Asked(did[4], "open", Long(m))
                        /\ \E i \in {4, 5} : Asked(did[i], "forget", Long(m))
  <2>1. Sole(w) /\ ~Works(w)
    BY <1>2, <1>3 DEF Sole, Works
  <2>2. w.requests = w.made
    BY <1>1, <2>1 DEF AtEnd
  <2>3. History(e, w) /\ (level = "business" => Found(e, w))
    BY <1>1, <2>1 DEF Past
  <2>4. w.at = 7 /\ Len(did) = 6 /\ DOMAIN did = 1 .. 6
    <3>1. w.at = 7 /\ Len(did) = 7 - 1
      BY <1>2, <2>3 DEF History
    <3>2. IsSeq(did)
      BY <1>1 DEF ExecutionShape
    <3> QED BY <3>1, <3>2, Sequences
  <2>5. \A i \in 1 .. 6 : "sidecar" \in did[i].has /\ did[i].session = SessionOf(e, i)
    <3>1. History(e, w) /\ w.at = 7
      BY <2>3, <2>4
    <3>2. \A i \in 1 .. 6 : "sidecar" \in w.did[i].has /\ w.did[i].session = SessionOf(e, i)
      BY ONLY <3>1 DEF History
    <3> QED BY <3>2
  <2>6. /\ \A i \in 1 .. 6 : Resumed(i) => SessionOf(e, i) = SessionOf(e, 1)
        /\ SessionOf(e, 4) # SessionOf(e, 1)
    BY RunsApart DEF SessionOf
  <2>7. \A d, tool, ref : Asked(d, tool, ref) <=> Says(d.events, tool, ref)
    BY Zenon DEF Asked, Says
  <2>8. ASSUME level = "business"
        PROVE  /\ \E ref \in w.prior.short : Asked(did[2], "open", Short(ref))
               /\ \E m \in w.prior.long :
                     /\ Asked(did[3], "promote", Short(m)) /\ Asked(did[4], "open", Long(m))
                     /\ \E i \in {4, 5} : Asked(did[i], "forget", Long(m))
    <3>1. Found(e, w)
      BY <2>3, <2>8
    <3>2. /\ w.known.short \in w.prior.short /\ Says(did[2].events, "open", Short(w.known.short))
          /\ Says(did[3].events, "promote", Short(w.known.long)) /\ w.known.long \in w.prior.long
          /\ Says(did[4].events, "open", Long(w.known.long))
          /\ \E i \in {4, 5} : Says(did[i].events, "forget", Long(w.known.long))
      BY <2>4, <3>1 DEF Found
    <3> QED BY <2>7, <3>2
  <2>9. did[4].session # did[1].session
    BY <2>5, <2>6
  <2> QED BY <1>2, <1>3, <2>2, <2>4, <2>5, <2>6, <2>8, <2>9
<1> QED BY <1>2, <1>3, RunsNamed

(* So every report that passes was earned. *)
LEMMA EarnedInvariantHolds == PInv => PassEarned
<1> SUFFICES ASSUME PInv PROVE PassEarned
  OBVIOUS
<1> QED BY EarnedOne, Zenon DEF PassEarned

(* Every report is one its validator accepts, and one that passes where an *)
(* execution had the root to itself was earned: see PassEarned.            *)
THEOREM PassIsEarned == HarnessSpec => []PassEarned
<1>1. HarnessInit => PInv
  BY PassInitially
<1>2. PInv /\ [HarnessNext]_harnessVars => PInv'
  BY PassInductive
<1>3. PInv => PassEarned
  BY EarnedInvariantHolds
<1> QED BY <1>1, <1>2, <1>3, PTL DEF HarnessSpec
=============================================================================
