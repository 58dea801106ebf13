---------------------------- MODULE ProjectMutex ----------------------------
(***************************************************************************)
(* What every caller of acquireCompilerLock relies on: at most one call    *)
(* holds the project at a time.  A call that finds the project held fails  *)
(* (memory_compile_busy) instead of waiting, which is a stuttering step    *)
(* here; a process that dies gives the project up, because a later caller  *)
(* is allowed to reclaim it.                                               *)
(***************************************************************************)
CONSTANTS Caller, None

VARIABLE holder

Init == holder = None

Acquire(c) == holder = None /\ holder' = c
GiveUp(c)  == holder = c /\ holder' = None

Next == \E c \in Caller : Acquire(c) \/ GiveUp(c)

Spec == Init /\ [][Next]_holder
=============================================================================
