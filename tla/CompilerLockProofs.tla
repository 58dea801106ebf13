------------------------- MODULE CompilerLockProofs -------------------------
(***************************************************************************)
(* For any callers, processes, inodes and number of crashes: the lock file *)
(* of CompilerLock is a correct mutex as long as no reclaim has hit a live *)
(* process, and without crashes no reclaim ever does.                      *)
(***************************************************************************)
EXTENDS CompilerLock, FiniteSetTheorems, TLAPS

(* A dead process runs nothing. *)
DeadAreIdle == \A c \in Caller : ~Live(c) => pc[c] = "idle"

(* A reclaim is under way, or has hit a live process, only after a crash.  *)
ReclaimAfterCrash ==
    /\ \A c \in Caller : pc[c] \in {"restat", "reclaim"} => dead # {}
    /\ stolen => dead # {}

(* A call inspects a record it has opened. *)
SeenIsRecord ==
    \A c \in Caller : pc[c] \in {"verify", "judge", "restat", "reclaim", "relverify"}
                          => seen[c] # None

IInv == TypeOK /\ DeadAreIdle /\ SeenIsRecord /\ OwnerKeepsFile

(* Every step of the lock keeps its variables in their sets. *)
LEMMA TypeStep == TypeOK /\ SeenIsRecord /\ [Next]_vars => TypeOK'
<1> SUFFICES ASSUME TypeOK, SeenIsRecord, [Next]_vars PROVE TypeOK'
  OBVIOUS
<1> USE CallerAssumption
    DEF TypeOK, LockFile, PC, Goto, Continue, Return, ContinueIf, Live
<1>1. ASSUME NEW c \in Caller, Acquire(c) PROVE TypeOK'
  BY <1>1 DEF Acquire
<1>2. ASSUME NEW c \in Caller, BeginRelease(c) PROVE TypeOK'
  BY <1>2 DEF BeginRelease
<1>3. ASSUME NEW c \in Caller, Step(c) PROVE TypeOK'
  <2>1. CASE TryCreate(c)
    <3>1. CASE file = None
      <4>1. PICK i \in FreeInodes :
               /\ file' = [ino |-> i, owner |-> c, full |-> FALSE]
               /\ mine' = [mine EXCEPT ![c] = i]
               /\ Goto(c, "write")
        BY <2>1, <3>1 DEF TryCreate
      <4>2. i \in Ino
        BY DEF FreeInodes
      <4> QED BY <2>1, <4>1, <4>2 DEF TryCreate
    <3>2. CASE file # None
      BY <2>1, <3>2 DEF TryCreate
    <3> QED BY <3>1, <3>2
  <2>2. CASE WriteRecord(c)
    BY <2>2 DEF WriteRecord
  <2>3. CASE SyncRecord(c) \/ CreateFails(c) \/ UndoCreate(c)
    BY <2>3 DEF SyncRecord, CreateFails, UndoCreate
  <2>4. CASE OpenExisting(c) \/ ReleaseOpen(c)
    <3>1. /\ pc' \in [Caller -> PC] /\ file' = file /\ dead' = dead /\ stolen' = stolen
          /\ mine' \in [Caller -> Ino \cup {None}]
      BY <2>4 DEF OpenExisting, ReleaseOpen, OpenLock
    <3>2. seen' \in [Caller -> LockFile \cup {None}]
      BY <2>4 DEF OpenExisting, ReleaseOpen, OpenLock
    <3> QED BY <3>1, <3>2
  <2>5. CASE VerifyExisting(c) \/ JudgeOwner(c) \/ RestatDeadLock(c)
    BY <2>5 DEF VerifyExisting, JudgeOwner, RestatDeadLock
  <2>6. CASE UnlinkDeadLock(c)
    BY <2>6 DEF UnlinkDeadLock
  <2>7. CASE ReleaseVerify(c) \/ ReleaseStat(c) \/ ReleaseUnlink(c)
    BY <2>7 DEF ReleaseVerify, ReleaseStat, ReleaseUnlink
  <2>8. CASE Fails(c) \/ ReleaseFails(c) \/ Swallow(c)
    BY <2>8 DEF Fails, ReleaseFails, Swallow
  <2> QED BY <1>3, <2>1, <2>2, <2>3, <2>4, <2>5, <2>6, <2>7, <2>8 DEF Step
<1>4. ASSUME NEW p \in Proc, Crash(p) PROVE TypeOK'
  BY <1>4 DEF Crash
<1>5. CASE UNCHANGED vars
  BY <1>5 DEF vars
<1> QED BY <1>1, <1>2, <1>3, <1>4, <1>5 DEF Next

LEMMA IdleStep == IInv /\ [Next]_vars => DeadAreIdle' /\ SeenIsRecord'
<1> SUFFICES ASSUME IInv, [Next]_vars PROVE DeadAreIdle' /\ SeenIsRecord'
  OBVIOUS
<1> USE CallerAssumption
    DEF IInv, TypeOK, DeadAreIdle, SeenIsRecord, Goto, Continue, Return, ContinueIf, Live
<1>1. ASSUME NEW c \in Caller, Live(c), Acquire(c) PROVE DeadAreIdle' /\ SeenIsRecord'
  BY <1>1 DEF Acquire
<1>2. ASSUME NEW c \in Caller, Live(c), BeginRelease(c) PROVE DeadAreIdle' /\ SeenIsRecord'
  BY <1>2 DEF BeginRelease
<1>3. ASSUME NEW c \in Caller, Step(c) PROVE DeadAreIdle' /\ SeenIsRecord'
  <2>1. CASE TryCreate(c)
    BY <1>3, <2>1 DEF Step, TryCreate
  <2>2. CASE WriteRecord(c) \/ SyncRecord(c) \/ CreateFails(c) \/ UndoCreate(c)
    BY <1>3, <2>2 DEF Step, WriteRecord, SyncRecord, CreateFails, UndoCreate
  <2>3. CASE OpenExisting(c) \/ ReleaseOpen(c)
    BY <1>3, <2>3 DEF Step, OpenExisting, ReleaseOpen, OpenLock
  <2>4. CASE VerifyExisting(c) \/ JudgeOwner(c) \/ RestatDeadLock(c)
    BY <1>3, <2>4 DEF Step, VerifyExisting, JudgeOwner, RestatDeadLock
  <2>5. CASE UnlinkDeadLock(c)
    BY <1>3, <2>5 DEF Step, UnlinkDeadLock
  <2>6. CASE ReleaseVerify(c) \/ ReleaseStat(c) \/ ReleaseUnlink(c)
    BY <1>3, <2>6 DEF Step, ReleaseVerify, ReleaseStat, ReleaseUnlink
  <2>7. CASE Fails(c) \/ ReleaseFails(c) \/ Swallow(c)
    BY <1>3, <2>7 DEF Step, Fails, ReleaseFails, Swallow
  <2> QED BY <1>3, <2>1, <2>2, <2>3, <2>4, <2>5, <2>6, <2>7 DEF Step
<1>4. ASSUME NEW p \in Proc, Crash(p) PROVE DeadAreIdle' /\ SeenIsRecord'
  BY <1>4 DEF Crash
<1>5. CASE UNCHANGED vars
  BY <1>5 DEF vars
<1> QED BY <1>1, <1>2, <1>3, <1>4, <1>5 DEF Next

(* The heart of the argument: only the owner of the lock file, or a        *)
(* reclaim that finds its owner dead, takes the file away.                 *)
LEMMA OwnerStep == IInv /\ [Next]_vars => OwnerKeepsFile'
<1> SUFFICES ASSUME IInv, [Next]_vars, ~stolen', NEW d \in Caller, pc'[d] \in Owning
             PROVE  file' # None /\ file'.owner = d /\ file'.ino = mine'[d]
  BY DEF OwnerKeepsFile
<1> DEFINE Kept == file' # None /\ file'.owner = d /\ file'.ino = mine'[d]
<1> USE CallerAssumption
    DEF IInv, TypeOK, LockFile, OwnerKeepsFile, Goto, Continue, Return, ContinueIf, Owning
<1>1. ASSUME NEW c \in Caller, Acquire(c) PROVE Kept
  BY <1>1 DEF Acquire
<1>2. ASSUME NEW c \in Caller, BeginRelease(c) PROVE Kept
  BY <1>2 DEF BeginRelease
<1>3. ASSUME NEW c \in Caller, Step(c) PROVE Kept
  <2>1. CASE TryCreate(c)
    <3>1. CASE file = None
      <4>1. PICK i \in FreeInodes :
               /\ file' = [ino |-> i, owner |-> c, full |-> FALSE]
               /\ mine' = [mine EXCEPT ![c] = i]
               /\ Goto(c, "write")
        BY <2>1, <3>1 DEF TryCreate
      <4>2. i \in Ino /\ file' \in LockFile
        BY <4>1 DEF FreeInodes
      <4>3. d = c
        BY <2>1, <3>1, <4>1 DEF TryCreate
      <4> QED BY <4>1, <4>2, <4>3
    <3>2. CASE file # None
      BY <2>1, <3>2 DEF TryCreate
    <3> QED BY <3>1, <3>2
  <2>2. CASE WriteRecord(c)
    <3>1. pc[d] \in Owning /\ stolen' = stolen /\ mine' = mine
      BY <2>2 DEF WriteRecord
    <3>2. file # None /\ file.owner = d /\ file.ino = mine[d]
      BY <3>1
    <3>3. file' \in {file, [file EXCEPT !.full = TRUE]} /\ file \in LockFile
      BY <2>2, <3>2 DEF WriteRecord
    <3>4. file'.owner = file.owner /\ file'.ino = file.ino /\ file' \in LockFile
      BY ONLY <3>3 DEF LockFile
    <3>5. file' # None
      BY ONLY <3>4, CallerAssumption DEF LockFile
    <3> QED BY ONLY <3>1, <3>2, <3>4, <3>5
  <2>3. CASE SyncRecord(c) \/ CreateFails(c)
    BY <2>3 DEF SyncRecord, CreateFails
  <2>4. CASE UndoCreate(c)
    BY <2>4 DEF UndoCreate
  <2>5. CASE OpenExisting(c) \/ ReleaseOpen(c)
    BY <2>5 DEF OpenExisting, ReleaseOpen, OpenLock
  <2>6. CASE VerifyExisting(c) \/ JudgeOwner(c) \/ RestatDeadLock(c)
    BY <2>6 DEF VerifyExisting, JudgeOwner, RestatDeadLock
  <2>7. CASE UnlinkDeadLock(c)
    <3>1. pc[d] \in Owning /\ pc[d] # "idle" /\ ~stolen
      BY <2>7 DEF UnlinkDeadLock
    <3>2. file # None /\ file.owner = d
      BY <3>1
    <3>3. Live(d)
      BY <3>1 DEF DeadAreIdle
    <3> QED BY <2>7, <3>2, <3>3 DEF UnlinkDeadLock
  <2>8. CASE ReleaseVerify(c) \/ ReleaseStat(c)
    BY <2>8 DEF ReleaseVerify, ReleaseStat
  <2>9. CASE ReleaseUnlink(c)
    BY <2>9 DEF ReleaseUnlink
  <2>10. CASE Fails(c) \/ ReleaseFails(c) \/ Swallow(c)
    BY <2>10 DEF Fails, ReleaseFails, Swallow
  <2> QED BY <1>3, <2>1, <2>2, <2>3, <2>4, <2>5, <2>6, <2>7, <2>8, <2>9, <2>10 DEF Step
<1>4. ASSUME NEW p \in Proc, Crash(p) PROVE Kept
  BY <1>4 DEF Crash
<1>5. CASE UNCHANGED vars
  BY <1>5 DEF vars
<1> QED BY <1>1, <1>2, <1>3, <1>4, <1>5 DEF Next

LEMMA InitIInv == Init => IInv
BY CallerAssumption
   DEF Init, IInv, TypeOK, PC, DeadAreIdle, SeenIsRecord, OwnerKeepsFile, Owning

LEMMA Inductive == Spec => []IInv
<1>1. IInv /\ [Next]_vars => IInv'
  BY TypeStep, IdleStep, OwnerStep DEF IInv
<1> QED BY <1>1, InitIInv, PTL DEF Spec

(* Every variable of the lock stays in its set. *)
THEOREM TypeCorrect == Spec => []TypeOK
<1>1. IInv => TypeOK
  BY DEF IInv
<1> QED BY <1>1, Inductive, PTL

(* A call that has created the lock finds its own file at the lock path    *)
(* until it unlinks it itself, unless a reclaim has hit a live process.    *)
THEOREM OwnerKeeps == Spec => []OwnerKeepsFile
<1>1. IInv => OwnerKeepsFile
  BY DEF IInv
<1> QED BY <1>1, Inductive, PTL

-----------------------------------------------------------------------------
LEMMA CrashStep == IInv /\ ReclaimAfterCrash /\ [Next]_vars => ReclaimAfterCrash'
<1> SUFFICES ASSUME IInv, ReclaimAfterCrash, [Next]_vars PROVE ReclaimAfterCrash'
  OBVIOUS
<1> USE CallerAssumption
    DEF IInv, TypeOK, ReclaimAfterCrash, Goto, Continue, Return, ContinueIf
<1>1. ASSUME NEW c \in Caller, Acquire(c) \/ BeginRelease(c) PROVE ReclaimAfterCrash'
  BY <1>1 DEF Acquire, BeginRelease
<1>2. ASSUME NEW c \in Caller, Step(c) PROVE ReclaimAfterCrash'
  <2>1. CASE TryCreate(c)
    BY <2>1 DEF TryCreate
  <2>2. CASE WriteRecord(c) \/ SyncRecord(c) \/ CreateFails(c) \/ UndoCreate(c)
    BY <2>2 DEF WriteRecord, SyncRecord, CreateFails, UndoCreate
  <2>3. CASE OpenExisting(c) \/ ReleaseOpen(c)
    BY <2>3 DEF OpenExisting, ReleaseOpen, OpenLock
  <2>4. CASE VerifyExisting(c) \/ RestatDeadLock(c)
    BY <2>4 DEF VerifyExisting, RestatDeadLock
  <2>5. CASE JudgeOwner(c)
    BY <2>5 DEF JudgeOwner, Live
  <2>6. CASE UnlinkDeadLock(c)
    BY <2>6 DEF UnlinkDeadLock
  <2>7. CASE ReleaseVerify(c) \/ ReleaseStat(c) \/ ReleaseUnlink(c)
    BY <2>7 DEF ReleaseVerify, ReleaseStat, ReleaseUnlink
  <2>8. CASE Fails(c) \/ ReleaseFails(c) \/ Swallow(c)
    BY <2>8 DEF Fails, ReleaseFails, Swallow
  <2> QED BY <1>2, <2>1, <2>2, <2>3, <2>4, <2>5, <2>6, <2>7, <2>8 DEF Step
<1>3. ASSUME NEW p \in Proc, Crash(p) PROVE ReclaimAfterCrash'
  BY <1>3 DEF Crash
<1>4. CASE UNCHANGED vars
  BY <1>4 DEF vars
<1> QED BY <1>1, <1>2, <1>3, <1>4 DEF Next

(* No reclaim is unsafe before the first crash: two calls hold the project *)
(* together only after some process has died.                              *)
THEOREM ExclusiveBeforeCrash == Spec => []ExclusionBeforeCrash
<1>1. Init => ReclaimAfterCrash
  BY DEF Init, ReclaimAfterCrash
<1>2. IInv /\ ReclaimAfterCrash => ExclusionBeforeCrash
  BY DEF ExclusionBeforeCrash, IInv, ReclaimAfterCrash, OwnerKeepsFile, Owning, MutualExclusion
<1> QED BY <1>1, <1>2, CrashStep, Inductive, PTL DEF Spec

(* With crashes, exclusion holds for as long as no reclaim has hit a live  *)
(* process: that gap is the only way two calls can hold the project.       *)
THEOREM ExclusionUnlessStolen == Spec => [](~stolen => MutualExclusion)
<1>1. IInv => (~stolen => MutualExclusion)
  BY DEF IInv, OwnerKeepsFile, Owning, MutualExclusion
<1> QED BY <1>1, Inductive, PTL

-----------------------------------------------------------------------------
(* Every step is a step of the abstract mutex or leaves its holder alone.  *)
LEMMA RefinementStep ==
    IInv /\ ~stolen' /\ [Next]_vars => [Mutex!Next]_Holder
<1> SUFFICES ASSUME IInv, ~stolen', [Next]_vars PROVE [Mutex!Next]_Holder
  OBVIOUS
<1> USE CallerAssumption DEF IInv, TypeOK, LockFile, OwnerKeepsFile, Owning, Goto,
                             Continue, Return, ContinueIf, Holder, Live, Mutex!Next, Mutex!Acquire, Mutex!GiveUp
<1>1. ASSUME NEW c \in Caller, Acquire(c) \/ BeginRelease(c) PROVE UNCHANGED Holder
  BY <1>1 DEF Acquire, BeginRelease
<1>2. ASSUME NEW c \in Caller, Step(c) PROVE [Mutex!Next]_Holder
  <2>1. CASE TryCreate(c)
    BY <1>2, <2>1 DEF Step, TryCreate
  <2>2. CASE WriteRecord(c)
    BY <2>2 DEF WriteRecord
  <2>3. CASE SyncRecord(c) \/ CreateFails(c)
    BY <2>3 DEF SyncRecord, CreateFails
  <2>4. CASE UndoCreate(c) \/ ReleaseUnlink(c)
    <3>1. ~stolen /\ pc[c] \in Owning
      BY <2>4 DEF UndoCreate, ReleaseUnlink
    <3>2. file # None /\ file.owner = c
      BY <3>1
    <3>3. Holder = c /\ Holder' \in {None, Holder}
      BY <1>2, <2>4, <3>2 DEF Step, UndoCreate, ReleaseUnlink
    <3> QED BY <3>3
  <2>5. CASE OpenExisting(c) \/ ReleaseOpen(c)
    BY <2>5 DEF OpenExisting, ReleaseOpen, OpenLock
  <2>6. CASE VerifyExisting(c) \/ JudgeOwner(c) \/ RestatDeadLock(c)
    BY <2>6 DEF VerifyExisting, JudgeOwner, RestatDeadLock
  <2>7. CASE UnlinkDeadLock(c)
    BY <2>7 DEF UnlinkDeadLock
  <2>8. CASE ReleaseVerify(c) \/ ReleaseStat(c)
    BY <2>8 DEF ReleaseVerify, ReleaseStat
  <2>9. CASE Fails(c) \/ ReleaseFails(c) \/ Swallow(c)
    BY <2>9 DEF Fails, ReleaseFails, Swallow
  <2> QED BY <1>2, <2>1, <2>2, <2>3, <2>4, <2>5, <2>6, <2>7, <2>8, <2>9 DEF Step
<1>3. ASSUME NEW p \in Proc, Crash(p) PROVE [Mutex!Next]_Holder
  BY <1>3 DEF Crash
<1>4. CASE UNCHANGED vars
  BY <1>4 DEF vars
<1> QED BY <1>1, <1>2, <1>3, <1>4 DEF Next

(* The lock file changes hands only as the abstract mutex allows, until a  *)
(* reclaim hits a live process.                                            *)
THEOREM HandsOver == Spec => MutexSteps
<1>1. IInv /\ [Next]_vars => [stolen' \/ Mutex!Next]_Holder
  BY RefinementStep
<1> QED BY <1>1, Inductive, PTL DEF Spec, MutexSteps

(* The lock file implements the abstract mutex in every behaviour in which *)
(* no reclaim hits a live process.                                         *)
THEOREM Refinement == Spec /\ []~stolen => ImplementsMutex
<1>1. Init => Mutex!Init
  BY DEF Init, Mutex!Init, Holder
<1>2. IInv /\ ~stolen /\ ~stolen' /\ [Next]_vars => [Mutex!Next]_Holder
  BY RefinementStep
<1> QED BY <1>1, <1>2, Inductive, PTL DEF Spec, Mutex!Spec, ImplementsMutex

-----------------------------------------------------------------------------
(* What a release can rely on: a file that bears its caller's token is the *)
(* one this call has created, and is complete.                             *)
OwnFile ==
    file # None =>
        /\ pc[file.owner] \in Owning => file.ino = mine[file.owner]
        /\ pc[file.owner] \in Owning \ {"write", "undo"} => file.full
        /\ pc[file.owner] = "relverify" => seen[file.owner] = file

LEMMA OwnFileStep == TypeOK /\ OwnFile /\ [Next]_vars => OwnFile'
<1> SUFFICES ASSUME TypeOK, OwnFile, [Next]_vars PROVE OwnFile'
  OBVIOUS
<1> USE CallerAssumption
    DEF TypeOK, LockFile, OwnFile, Owning, Goto, Continue, Return, ContinueIf
<1>1. ASSUME NEW c \in Caller, Acquire(c) \/ BeginRelease(c) PROVE OwnFile'
  BY <1>1 DEF Acquire, BeginRelease
<1>2. ASSUME NEW c \in Caller, Step(c) PROVE OwnFile'
  <2>1. CASE TryCreate(c)
    <3>1. CASE file = None
      <4>1. PICK i \in FreeInodes :
               /\ file' = [ino |-> i, owner |-> c, full |-> FALSE]
               /\ mine' = [mine EXCEPT ![c] = i]
               /\ Goto(c, "write")
        BY <2>1, <3>1 DEF TryCreate
      <4> QED BY <4>1
    <3>2. CASE file # None
      BY <2>1, <3>2 DEF TryCreate
    <3> QED BY <3>1, <3>2
  <2>2. CASE WriteRecord(c)
    <3>1. file' \in {file, [file EXCEPT !.full = TRUE]} /\ seen' = seen /\ mine' = mine
          /\ pc[c] = "write" /\ pc' = [pc EXCEPT ![c] = "sync"]
      BY <2>2 DEF WriteRecord
    <3>2. CASE file = None
      BY <2>2, <3>2 DEF WriteRecord
    <3>3. CASE file # None
      <4>1. file'.owner = file.owner /\ file'.ino = file.ino /\ file' \in LockFile
            /\ (file.full => file'.full) /\ file.owner \in Caller
        BY ONLY <3>1, <3>3, TypeOK DEF TypeOK, LockFile
      <4>2. file.owner = c => file'.full
        BY <2>2, <3>3 DEF WriteRecord
      <4>3. file.full => file' = file
        BY ONLY <3>1, <3>3, TypeOK DEF TypeOK, LockFile
      <4>4. pc \in [Caller -> PC] /\ OwnFile
        OBVIOUS
      <4> QED BY ONLY <3>1, <3>3, <4>1, <4>2, <4>3, <4>4 DEF OwnFile, Owning
    <3> QED BY <3>2, <3>3
  <2>3. CASE SyncRecord(c) \/ CreateFails(c) \/ UndoCreate(c)
    BY <2>3 DEF SyncRecord, CreateFails, UndoCreate
  <2>4. CASE OpenExisting(c) \/ ReleaseOpen(c)
    BY <2>4 DEF OpenExisting, ReleaseOpen, OpenLock
  <2>5. CASE VerifyExisting(c) \/ JudgeOwner(c) \/ RestatDeadLock(c)
    BY <2>5 DEF VerifyExisting, JudgeOwner, RestatDeadLock
  <2>6. CASE UnlinkDeadLock(c)
    BY <2>6 DEF UnlinkDeadLock
  <2>7. CASE ReleaseVerify(c) \/ ReleaseStat(c) \/ ReleaseUnlink(c)
    BY <2>7 DEF ReleaseVerify, ReleaseStat, ReleaseUnlink
  <2>8. CASE Fails(c) \/ ReleaseFails(c) \/ Swallow(c)
    BY <2>8 DEF Fails, ReleaseFails, Swallow
  <2> QED BY <1>2, <2>1, <2>2, <2>3, <2>4, <2>5, <2>6, <2>7, <2>8 DEF Step
<1>3. ASSUME NEW p \in Proc, Crash(p) PROVE OwnFile'
  BY <1>3 DEF Crash
<1>4. CASE UNCHANGED vars
  BY <1>4 DEF vars
<1> QED BY <1>1, <1>2, <1>3, <1>4 DEF Next

(* A step that ends an owner's call takes its file away, or ends an undo   *)
(* or a failed release, or is the death of the process.                    *)
LEMMA EndStep ==
    ASSUME TypeOK, OwnFile, Next, NEW c \in Caller,
           file # None, file.owner = c, pc[c] \in Owning, pc'[c] = "idle"
    PROVE  file' = None \/ pc[c] \in {"failed", "undo"} \/ ~Live(c)'
<1> USE CallerAssumption
    DEF TypeOK, LockFile, OwnFile, Owning, Goto, Continue, Return, ContinueIf
<1>1. ASSUME NEW d \in Caller, Acquire(d) \/ BeginRelease(d) PROVE FALSE
  BY <1>1 DEF Acquire, BeginRelease
<1>2. ASSUME NEW d \in Caller, Step(d) PROVE file' = None \/ pc[c] \in {"failed", "undo"}
  <2>1. CASE d # c
    <3>1. pc'[c] = pc[c]
      <4>1. \E l \in PC : pc' = [pc EXCEPT ![d] = l]
        BY <1>2 DEF Step, PC, TryCreate, WriteRecord, SyncRecord, CreateFails, UndoCreate,
                    OpenExisting, OpenLock, VerifyExisting, JudgeOwner, RestatDeadLock,
                    UnlinkDeadLock, ReleaseOpen, ReleaseVerify, ReleaseStat, ReleaseUnlink, Fails,
                    ReleaseFails, Swallow
      <4> QED BY ONLY <4>1, <2>1, TypeOK DEF TypeOK
    <3> QED BY <3>1
  <2>2. CASE d = c
    <3>1. \/ WriteRecord(c) \/ SyncRecord(c) \/ CreateFails(c) \/ UndoCreate(c)
          \/ ReleaseOpen(c) \/ ReleaseVerify(c) \/ ReleaseStat(c) \/ ReleaseUnlink(c)
          \/ ReleaseFails(c) \/ Swallow(c)
      BY <1>2, <2>2 DEF Step, TryCreate, OpenExisting, OpenLock, VerifyExisting, JudgeOwner,
                        RestatDeadLock, UnlinkDeadLock, Fails
    <3>2. CASE WriteRecord(c) \/ SyncRecord(c) \/ CreateFails(c) \/ UndoCreate(c)
               \/ ReleaseFails(c) \/ Swallow(c)
      BY <3>2 DEF WriteRecord, SyncRecord, CreateFails, UndoCreate, ReleaseFails, Swallow
    <3>3. CASE ReleaseOpen(c)
      BY <3>3 DEF ReleaseOpen, OpenLock
    <3>4. CASE ReleaseVerify(c)
      BY <3>4 DEF ReleaseVerify, Verified
    <3>5. CASE ReleaseStat(c) \/ ReleaseUnlink(c)
      BY <3>5 DEF ReleaseStat, ReleaseUnlink
    <3> QED BY <3>1, <3>2, <3>3, <3>4, <3>5
  <2> QED BY <2>1, <2>2
<1>3. ASSUME NEW p \in Proc, Crash(p) PROVE ~Live(c)'
  BY <1>3 DEF Crash, Live
<1> QED BY <1>1, <1>2, <1>3 DEF Next

(* A call leaves the lock behind only by a failed release or undo, or by   *)
(* the death of its process.                                               *)
THEOREM NothingLeft == Spec => NoLockLeft
<1>1. Init => OwnFile
  BY DEF Init, OwnFile
<1>2. TypeOK /\ OwnFile /\ [Next]_vars =>
        [ \A c \in Caller :
            (file # None /\ file.owner = c /\ pc[c] \in Owning /\ pc'[c] = "idle")
                => \/ file' = None
                   \/ pc[c] \in {"failed", "undo"}
                   \/ ~Live(c)' ]_vars
  BY EndStep
<1> QED BY <1>1, <1>2, OwnFileStep, TypeCorrect, PTL DEF Spec, NoLockLeft
=============================================================================
