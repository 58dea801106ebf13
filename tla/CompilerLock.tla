---------------------------- MODULE CompilerLock ----------------------------
(***************************************************************************)
(* acquireCompilerLock of src/src/generation-store.ts and the release      *)
(* closure it returns: the lock file <project>/locks/compiler.lock that    *)
(* serialises every publisher of a project across operating-system         *)
(* processes.                                                              *)
(*                                                                         *)
(* A caller is one call of acquireCompilerLock; ProcOf says which process  *)
(* (pid) runs it.  Each action is the work between two awaits on the file  *)
(* system, so calls of one process interleave as well as processes.  The   *)
(* path is one variable, `file`; an inode number is free again once no     *)
(* path and no open handle refers to it, as on a POSIX file system.        *)
(*                                                                         *)
(* Abstracted: the token of a lock is the caller that wrote it (a call     *)
(* draws a fresh UUID, and a caller has at most one lock file at a time);  *)
(* `full` says that the JSON record has been written, an empty or torn     *)
(* file does not decode.  Files planted by somebody else (symbolic links,  *)
(* other modes) are not modelled.                                          *)
(***************************************************************************)
EXTENDS Naturals, FiniteSets

CONSTANTS
    Caller,     \* calls of acquireCompilerLock
    Proc,       \* operating-system processes; a restarted program is another
    ProcOf,     \* the process a caller runs in
    Ino,        \* inode numbers of the file system
    None,       \* no file, no inode, nobody
    MaxCrash    \* bound: how many processes may die

ASSUME CallerAssumption ==
    /\ ProcOf \in [Caller -> Proc]
    /\ None \notin Caller
    /\ None \notin Ino
    /\ None \notin [ino : Ino, owner : Caller, full : BOOLEAN]
    /\ MaxCrash \in Nat

VARIABLES
    pc,      \* where each call is
    file,    \* what the lock path names: None or [ino, owner, full]
    seen,    \* the lock record a call has opened or verified, or None
    mine,    \* lockDev/lockIno of the call
    dead,    \* processes that have died (kill(pid, 0) says ESRCH)
    stolen   \* history: a reclaim has unlinked the lock of a live process

vars == <<pc, file, seen, mine, dead, stolen>>

LockFile == [ino : Ino, owner : Caller, full : BOOLEAN]

PC == { "idle",      \* no call, or it returned busy / io_failed / released
        "create",    \* about to open O_CREAT|O_EXCL
        "write",     \* handle open, record not written
        "sync",      \* record written, sync/stat/close outstanding
        "undo",      \* creation failed, about to unlink the path
        "open",      \* EEXIST: about to lstat and open the existing lock
        "verify",    \* handle open on the existing lock
        "judge",     \* record verified, about to ask whether the pid lives
        "restat",    \* pid is dead, about to lstat once more
        "reclaim",   \* inode unchanged, about to unlink
        "retry",     \* about to create once more
        "held",      \* acquireCompilerLock has returned
        "relopen", "relverify", "relstat", "relunlink",  \* release closure
        "failed" }   \* a file operation of the release has failed

Live(c) == ProcOf[c] \notin dead

(* Inodes an open handle keeps from being reused. *)
Pinned ==
    { mine[c] : c \in { d \in Caller : pc[d] \in {"write", "sync"} } }
    \cup { seen[c].ino : c \in { d \in Caller : pc[d] \in {"verify", "relverify"}
                                                /\ seen[d] # None } }

FreeInodes == (Ino \ Pinned) \ (IF file = None THEN {} ELSE {file.ino})

Init ==
    /\ pc = [c \in Caller |-> "idle"]
    /\ file = None
    /\ seen = [c \in Caller |-> None]
    /\ mine = [c \in Caller |-> None]
    /\ dead = {}
    /\ stolen = FALSE

Goto(c, label) == pc' = [pc EXCEPT ![c] = label]

Continue(c, label) == Goto(c, label) /\ UNCHANGED <<seen, mine>>

(* The call returns or throws, and its locals are gone. *)
Return(c) ==
    /\ Goto(c, "idle")
    /\ seen' = [seen EXCEPT ![c] = None]
    /\ mine' = [mine EXCEPT ![c] = None]

ContinueIf(test, c, label) == IF test THEN Continue(c, label) ELSE Return(c)

-----------------------------------------------------------------------------
(* tryCreateLock *)

Acquire(c) ==
    /\ pc[c] = "idle"
    /\ Continue(c, "create")
    /\ UNCHANGED <<file, dead, stolen>>

(* Mutant of TryCreate: open without O_EXCL, an existing lock is replaced. *)
TryCreateNotExclusive(c) ==
    /\ pc[c] \in {"create", "retry"}
    /\ \E i \in FreeInodes :
           /\ file' = [ino |-> i, owner |-> c, full |-> FALSE]
           /\ mine' = [mine EXCEPT ![c] = i]
    /\ Goto(c, "write")
    /\ UNCHANGED <<seen, dead, stolen>>

(* Mutant of TryCreate: EEXIST takes the failure path, which unlinks.      *)
TryCreateUndoesExisting(c) ==
    /\ pc[c] \in {"create", "retry"}
    /\ IF file = None
         THEN \E i \in FreeInodes :
                /\ file' = [ino |-> i, owner |-> c, full |-> FALSE]
                /\ mine' = [mine EXCEPT ![c] = i]
                /\ Goto(c, "write") /\ UNCHANGED seen
         ELSE Continue(c, "undo") /\ UNCHANGED file
    /\ UNCHANGED <<dead, stolen>>

(* O_CREAT|O_EXCL makes an empty file, or fails with EEXIST: the first     *)
(* attempt then inspects the owner, the second gives up as busy.           *)
TryCreate(c) ==
    /\ pc[c] \in {"create", "retry"}
    /\ IF file = None
         THEN \E i \in FreeInodes :
                /\ file' = [ino |-> i, owner |-> c, full |-> FALSE]
                /\ mine' = [mine EXCEPT ![c] = i]
                /\ Goto(c, "write") /\ UNCHANGED seen
         ELSE ContinueIf(pc[c] = "create", c, "open") /\ UNCHANGED file
    /\ UNCHANGED <<dead, stolen>>

(* The record goes to the inode of the handle, whatever the path names by  *)
(* then.                                                                   *)
WriteRecord(c) ==
    /\ pc[c] = "write"
    /\ file' = IF file # None /\ file.ino = mine[c]
               THEN [file EXCEPT !.full = TRUE] ELSE file
    /\ Continue(c, "sync")
    /\ UNCHANGED <<dead, stolen>>

SyncRecord(c) ==
    /\ pc[c] = "sync"
    /\ Continue(c, "held")
    /\ UNCHANGED <<file, dead, stolen>>

(* Mutant of CreateFails: the path is only undone if nothing was written.  *)
CreateFailsUndoesEmpty(c) ==
    /\ pc[c] \in {"write", "sync"}
    /\ IF pc[c] = "write" THEN Continue(c, "undo") ELSE Return(c)
    /\ UNCHANGED <<file, dead, stolen>>

(* write, sync, stat or close failed *)
CreateFails(c) ==
    /\ pc[c] \in {"write", "sync"}
    /\ Continue(c, "undo")
    /\ UNCHANGED <<file, dead, stolen>>

(* unlink(lockPath) whatever the path names; an unlink that fails is       *)
(* ignored, and the lock of the live process stays.                        *)
UndoCreate(c) ==
    /\ pc[c] = "undo"
    /\ file' \in {None, file}
    /\ Return(c)
    /\ UNCHANGED <<dead, stolen>>

-----------------------------------------------------------------------------
(* readVerifiedCompilerLock: the record counts only if it was complete and *)
(* the path still names the inode that was opened.                         *)

OpenLock(c, from, to) ==
    /\ pc[c] = from
    /\ IF file = None THEN Return(c)
       ELSE Goto(c, to) /\ seen' = [seen EXCEPT ![c] = file] /\ UNCHANGED mine
    /\ UNCHANGED <<file, dead, stolen>>

Verified(c) ==
    /\ seen[c] # None /\ seen[c].full
    /\ file # None /\ file.ino = seen[c].ino

-----------------------------------------------------------------------------
(* Inspection and reclaim of an existing lock *)

OpenExisting(c) == OpenLock(c, "open", "verify")

VerifyExisting(c) ==
    /\ pc[c] = "verify"
    /\ ContinueIf(Verified(c), c, "judge")
    /\ UNCHANGED <<file, dead, stolen>>

(* Mutant of JudgeOwner: the answer of kill is not looked at. *)
JudgeOwnerAlwaysDead(c) ==
    /\ pc[c] = "judge"
    /\ Continue(c, "restat")
    /\ UNCHANGED <<file, dead, stolen>>

(* Mutant of JudgeOwner: ESRCH falls under the errors that mean alive. *)
JudgeOwnerAlwaysAlive(c) ==
    /\ pc[c] = "judge"
    /\ Return(c)
    /\ UNCHANGED <<file, dead, stolen>>

JudgeOwner(c) ==
    /\ pc[c] = "judge"
    /\ ContinueIf(~Live(seen[c].owner), c, "restat")
    /\ UNCHANGED <<file, dead, stolen>>

RestatDeadLock(c) ==
    /\ pc[c] = "restat"
    /\ ContinueIf(file # None /\ file.ino = seen[c].ino, c, "reclaim")
    /\ UNCHANGED <<file, dead, stolen>>

(* unlink(lockPath): removes what the path names now; ENOENT means busy.   *)
UnlinkDeadLock(c) ==
    /\ pc[c] = "reclaim"
    /\ IF file = None
         THEN Return(c) /\ UNCHANGED <<file, stolen>>
         ELSE /\ file' = None
              /\ stolen' = (stolen \/ Live(file.owner))
              /\ Continue(c, "retry")
    /\ UNCHANGED dead

-----------------------------------------------------------------------------
(* The release closure, which is called once and never tried again.        *)

BeginRelease(c) ==
    /\ pc[c] = "held"
    /\ Continue(c, "relopen")
    /\ UNCHANGED <<file, dead, stolen>>

ReleaseOpen(c) == OpenLock(c, "relopen", "relverify")

ReleaseVerify(c) ==
    /\ pc[c] = "relverify"
    /\ ContinueIf(Verified(c) /\ seen[c].ino = mine[c] /\ seen[c].owner = c,
                  c, "relstat")
    /\ UNCHANGED <<file, dead, stolen>>

ReleaseStat(c) ==
    /\ pc[c] = "relstat"
    /\ ContinueIf(file # None /\ file.ino = mine[c], c, "relunlink")
    /\ UNCHANGED <<file, dead, stolen>>

ReleaseUnlink(c) ==
    /\ pc[c] = "relunlink"
    /\ file' = None
    /\ Return(c)
    /\ UNCHANGED <<dead, stolen>>

-----------------------------------------------------------------------------
(* A file operation of the inspection or the reclaim fails, or an open     *)
(* that creates for another reason than EEXIST: the call throws, and the   *)
(* path stays as it is.                                                    *)
Fails(c) ==
    /\ pc[c] \in {"create", "retry", "open", "verify", "restat", "reclaim"}
    /\ Return(c)
    /\ UNCHANGED <<file, dead, stolen>>

(* A file operation of the release fails and the catch swallows it: the    *)
(* lock of a live process stays behind, and nobody reclaims it until that  *)
(* process ends.                                                           *)
ReleaseFails(c) ==
    /\ pc[c] \in {"relopen", "relverify", "relstat", "relunlink"}
    /\ Continue(c, "failed")
    /\ UNCHANGED <<file, dead, stolen>>

Swallow(c) ==
    /\ pc[c] = "failed"
    /\ Return(c)
    /\ UNCHANGED <<file, dead, stolen>>

(* A process dies: its calls stop where they are, its handles close, its   *)
(* lock file stays.                                                        *)
Crash(p) ==
    /\ p \notin dead
    /\ Cardinality(dead) < MaxCrash
    /\ dead' = dead \cup {p}
    /\ pc' = [c \in Caller |-> IF ProcOf[c] = p THEN "idle" ELSE pc[c]]
    /\ seen' = [c \in Caller |-> IF ProcOf[c] = p THEN None ELSE seen[c]]
    /\ mine' = [c \in Caller |-> IF ProcOf[c] = p THEN None ELSE mine[c]]
    /\ UNCHANGED <<file, stolen>>

(* What a call does once started; a new call is the client's choice. *)
Step(c) ==
    /\ Live(c)
    /\ \/ TryCreate(c)
       \/ WriteRecord(c)
       \/ SyncRecord(c)
       \/ CreateFails(c)
       \/ UndoCreate(c)
       \/ OpenExisting(c)
       \/ VerifyExisting(c)
       \/ JudgeOwner(c)
       \/ RestatDeadLock(c)
       \/ UnlinkDeadLock(c)
       \/ ReleaseOpen(c)
       \/ ReleaseVerify(c)
       \/ ReleaseStat(c)
       \/ ReleaseUnlink(c)
       \/ Fails(c)
       \/ ReleaseFails(c)
       \/ Swallow(c)

Next ==
    \/ \E c \in Caller : Live(c) /\ Acquire(c)
    \/ \E c \in Caller : Live(c) /\ BeginRelease(c)
    \/ \E c \in Caller : Step(c)
    \/ \E p \in Proc : Crash(p)

Spec == Init /\ [][Next]_vars

(* The event loop of a live process runs every started call to its end.    *)
FairSpec == Spec /\ \A c \in Caller : WF_vars(Step(c))

-----------------------------------------------------------------------------
(* Properties *)

TypeOK ==
    /\ pc \in [Caller -> PC]
    /\ file \in LockFile \cup {None}
    /\ seen \in [Caller -> LockFile \cup {None}]
    /\ mine \in [Caller -> Ino \cup {None}]
    /\ dead \in SUBSET Proc
    /\ stolen \in BOOLEAN

(* At most one call holds the project: what every publisher relies on      *)
(* between acquireCompilerLock and the release it was given.               *)
MutualExclusion ==
    \A c, d \in Caller : pc[c] = "held" /\ pc[d] = "held" => c = d

(* Nothing that goes wrong in live processes, failed creations and failed  *)
(* or late releases that leave their lock included, lets two calls hold    *)
(* the project: it takes a death, and a reclaim.                           *)
ExclusionBeforeCrash == dead = {} => MutualExclusion

(* The calls that have created the lock and not yet unlinked it. *)
Owning == { "write", "sync", "undo", "held",
            "relopen", "relverify", "relstat", "relunlink", "failed" }

(* As long as no reclaim has hit a live process, a call that has created   *)
(* the lock finds its own file at the path until it unlinks it itself:     *)
(* neither another call's failure path, nor a release, nor a crash takes   *)
(* it away.                                                                *)
OwnerKeepsFile ==
    ~stolen => \A c \in Caller : pc[c] \in Owning =>
                   /\ file # None
                   /\ file.owner = c
                   /\ file.ino = mine[c]

(* A call that returns to its client has given the project up: only a      *)
(* release or an undo whose file operation failed leaves a lock of its own *)
(* behind, which blocks every caller for as long as the process lives.  A  *)
(* release whose operations succeed always knows its lock again, whoever   *)
(* has reclaimed or created one meanwhile and whatever inode it was given. *)
NoLockLeft ==
    [][ \A c \in Caller :
            (file # None /\ file.owner = c /\ pc[c] \in Owning /\ pc'[c] = "idle")
                => \/ file' = None
                   \/ pc[c] \in {"failed", "undo"}
                   \/ ~Live(c)' ]_vars

(* A complete lock of a dead process does not block the project for ever:  *)
(* if live processes keep asking for the lock and file operations no       *)
(* longer fail, some call removes it.                                      *)
DeadLock(c) == file # None /\ file.owner = c /\ file.full /\ ~Live(c)

DeadLockReclaimed ==
    \A c \in Caller :
        ([]<>(\E d \in Caller : pc[d] = "create")
            /\ <>[][\A d \in Caller : ~Fails(d)]_vars)
            => (DeadLock(c) ~> ~DeadLock(c))

(* The abstract mutex: the holder is the live owner of the lock file.      *)
Holder == IF file # None /\ Live(file.owner) THEN file.owner ELSE None

Mutex == INSTANCE ProjectMutex WITH holder <- Holder

(* The lock file changes hands only as the abstract mutex allows, up to    *)
(* the moment a reclaim hits a live process.                               *)
MutexSteps == [][stolen' \/ Mutex!Next]_Holder

(* In the behaviours without such a reclaim the lock file is the mutex.    *)
ImplementsMutex == Mutex!Spec
=============================================================================
