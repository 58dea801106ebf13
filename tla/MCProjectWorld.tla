--------------------------- MODULE MCProjectWorld ---------------------------
(* Small worlds: the calls below, in one process or one process each. *)
EXTENDS ProjectWorld, TLC

MCMemory == {"m0", "m1", "m2"}

MCKind == ("addA" :> "consolidate") @@ ("addB" :> "consolidate")
          @@ ("addSame" :> "consolidate") @@ ("review" :> "apply")
          @@ ("hide" :> "commit") @@ ("recall" :> "recall")

MCSubject == ("addA" :> "m1") @@ ("addB" :> "m2") @@ ("addSame" :> "m1")
             @@ ("review" :> "m0") @@ ("hide" :> "m1") @@ ("recall" :> "m0")

KindOf    == [o \in Op |-> MCKind[o]]
SubjectOf == [o \in Op |-> MCSubject[o]]
(* from an empty project: the proposal deactivates what addA has added *)
AddedSubjectOf == [SubjectOf EXCEPT !["review"] = "m1"]

OneHome  == [o \in Op |-> "p1"]
OwnHomes == [o \in Op |-> o]
(* the second consolidation shares a process with the proposal *)
TwoHomes == [o \in Op |-> IF o \in {"addB", "review"} THEN "p2" ELSE "p1"]
=============================================================================
