----------------------------- MODULE MCFactWorld -----------------------------
(* Three calls of two processes and two sessions about one memory.         *)
EXTENDS FactRetrieval, TLC

Do(kind, at, target) == [kind |-> kind, at |-> at, content |-> "x", target |-> target]

A == <<"short_term", "a">>
L == <<"long_term", "a">>

MCSession     == ("a" :> "s1") @@ ("b" :> "s1") @@ ("c" :> "s2")
MCCoordinator == ("a" :> "p") @@ ("b" :> "p") @@ ("c" :> "q")
MCWork ==
    ("a" :> {Do("remember", 1, A)})
    @@ ("b" :> {Do("promote", 1, A), Do("forget", 2, A), Do("remember", 2, A)})
    @@ ("c" :> {Do("remember", 3, A), Do("forget", 1, L)})

SessionMap     == [c \in Call |-> MCSession[c]]
CoordinatorMap == [c \in Call |-> MCCoordinator[c]]
WorkMap        == [c \in Call |-> MCWork[c]]

(* Bounds: searches and lists, which do not meet, are in behaviours of     *)
(* their own; the list is of the session that captured the memory, and in  *)
(* behaviours without failures.                                            *)
Apart  == searches = 0 \/ lists = 0
Simple == /\ lists # 0 => failures = 0
          /\ listing # None => listing.session = "s1"
MCNext == RetrievalNext /\ Apart' /\ Simple'
MCSpec == ReaderInit /\ [][MCNext]_<<vars, readerVars>> /\ Fairness
=============================================================================
