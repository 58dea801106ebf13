--------------------------- MODULE MCCompilerLock ---------------------------
(* Two calls of one process and one call of each of two others. *)
EXTENDS CompilerLock, TLC

CONSTANTS c1, c2, c3, p1, p2, p3

MCProcOf == (c1 :> p1) @@ (c2 :> p2) @@ (c3 :> p3)
MCProcShared == (c1 :> p1) @@ (c2 :> p1) @@ (c3 :> p2)

InodeSymmetry == Permutations(Ino)
=============================================================================
