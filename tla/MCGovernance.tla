---------------------------- MODULE MCGovernance ----------------------------
(* Two records that several processes write and that are believed later,   *)
(* each in behaviours of its own: the governance ledger, with chains of    *)
(* every payload by one process and of deactivations by two; and the run   *)
(* root of the end-to-end harness, with one execution or two.              *)
EXTENDS GovernanceLedger, Harness, HarnessPlans, TLC

(* Bounds: two processes race only on chains of deactivations, and a chain *)
(* with other payloads stops at an event that is left out of it.           *)
Racing(S) == \A c \in S : \A n \in DOMAIN c : c[n].action = "deactivate"
Orphans   == {c \in events : c # SubSeq(current, 1, Len(c))}

Governed ==
    /\ Next
    /\ \/ Racing(events') /\ Cardinality(events) <= 3
       \/ /\ commit'["q"] = Away /\ Cardinality(events') <= Len(current) + 1

-----------------------------------------------------------------------------
InputSet == [approval : {1, 2}, level : {"wiring", "business"}]

(* Bounds: two executions at the wiring level, and one trouble once both   *)
(* take part; one at the business level, and two troubles while it is      *)
(* alone.                                                                  *)
Inputs == asked["e"].approval = 1 /\ asked["f"].level = asked["e"].level
Begun(e) == x[e].pc # "idle"

Harnessed ==
    /\ HarnessNext
    /\ (Begun("f"))' => trouble' <= 1 /\ asked["e"].level = "wiring" /\ (Begun("e"))'

-----------------------------------------------------------------------------
MCInit == Init /\ HarnessInit /\ Inputs

MCNext ==
    \/ /\ Governed /\ UNCHANGED harnessVars
       /\ disk.root = "none" /\ trouble = 0
       /\ \A e \in Execution : ~Begun(e) /\ asked[e] = [approval |-> 1, level |-> "wiring"]
    \/ Harnessed /\ events = {} /\ lockFile = FALSE /\ (\A p \in Process : commit[p] = Away)
       /\ UNCHANGED vars

MCSpec == MCInit /\ [][MCNext]_<<vars, harnessVars>>
Swaps == Permutations(Memory)
=============================================================================
