------------------------- MODULE ProjectWorldProofs -------------------------
(***************************************************************************)
(* Proofs about ProjectWorld, for any calls, memories and starting world:  *)
(*                                                                         *)
(*   - for any processes, I/O faults and crashes, CURRENT names a          *)
(*     generation whose references all resolve;                            *)
(*   - what the compiler lock makes serial among processes;                *)
(*   - what the mutation coordinator adds when one process makes every     *)
(*     mutation.                                                           *)
(***************************************************************************)
EXTENDS ProjectWorld, SequenceTheorems, TLAPS

Publishing == {"writeEvent", "snapshot", "stage", "switch"}

Stored(refs) == \A m \in refs : memories[m] # None

PrefixesStored(chain, n) == \A k \in 1..n : SubSeq(chain, 1, k) \in events

(* What a call has put on disk, by where it is. *)
OpReady(o) ==
    /\ Stored(base[o].refs)
    /\ known[o] => memories[Subject[o]] # None
    /\ pc[o] \in {"putCatalog", "rebuild", "lockLegacy", "compileLegacy"}
          => memories[Subject[o]] # None
    /\ pc[o] \in {"rebuild", "lockLegacy", "compileLegacy"} => NewCatalog(o) \in catalogs
    /\ pc[o] \in Publishing =>
          /\ target[o] # None
          /\ target[o].catalog \in catalogs
          /\ Stored(target[o].catalog.refs)
    /\ pc[o] = "writeEvent" =>
          /\ Len(target[o].head) > 0
          /\ PrefixesStored(target[o].head, Len(target[o].head) - 1)
    /\ pc[o] \in {"snapshot", "stage", "switch"} =>
          PrefixesStored(target[o].head, Len(target[o].head))
    /\ pc[o] = "switch" => target[o] \in generations

IInv == TypeOK /\ CurrentClosed /\ \A o \in Op : OpReady(o)

-----------------------------------------------------------------------------
(* Sequences *)

LEMMA PrefixOfAppend ==
    ASSUME NEW S, NEW s \in Seq(S), NEW e \in S, NEW k \in 1..Len(s)
    PROVE  SubSeq(Append(s, e), 1, k) = SubSeq(s, 1, k)
<1>1. Append(s, e) = s \o <<e>> /\ <<e>> \in Seq(S) /\ Len(s) \in Nat
  OBVIOUS
<1>2. Append(s, e) \in Seq(S) /\ Len(Append(s, e)) = Len(s) + 1
  OBVIOUS
<1>3. \A i \in 1..k : Append(s, e)[i] = s[i] /\ s[i] \in S
  BY <1>1
<1>4. /\ SubSeq(s, 1, k) \in Seq(S)
      /\ Len(SubSeq(s, 1, k)) = k
      /\ \A i \in 1..k : SubSeq(s, 1, k)[i] = s[i]
  BY <1>1, <1>3, SubSeqProperties
<1>5. /\ SubSeq(Append(s, e), 1, k) \in Seq(S)
      /\ Len(SubSeq(Append(s, e), 1, k)) = k
      /\ \A i \in 1..k : SubSeq(Append(s, e), 1, k)[i] = Append(s, e)[i]
  BY <1>1, <1>3, SubSeqProperties
<1> QED BY <1>3, <1>4, <1>5, SeqEqual

LEMMA WholePrefix ==
    ASSUME NEW S, NEW s \in Seq(S) PROVE SubSeq(s, 1, Len(s)) = s
BY SubSeqFull

-----------------------------------------------------------------------------
(* The files of the store are immutable and never deleted. *)
DiskGrows ==
    /\ generations \subseteq generations'
    /\ catalogs \subseteq catalogs'
    /\ events \subseteq events'
    /\ \A m \in Memory : memories[m] # None => memories'[m] # None

(* A call other than o is left where it was. *)
Others(o) ==
    \A p \in Op \ {o} : /\ pc'[p] = pc[p]
                        /\ base'[p] = base[p]
                        /\ known'[p] = known[p]
                        /\ target'[p] = target[p]

LEMMA StillReady ==
    ASSUME TypeOK, DiskGrows, NEW o \in Op, OpReady(o),
           pc'[o] = pc[o], base'[o] = base[o], known'[o] = known[o], target'[o] = target[o]
    PROVE  OpReady(o)'
<1> USE WorldAssumption DEF TypeOK, DiskGrows, Catalog, Generation
<1>1. ASSUME NEW refs \in SUBSET Memory, Stored(refs) PROVE Stored(refs)'
  BY <1>1 DEF Stored
<1>2. ASSUME NEW chain, NEW n, PrefixesStored(chain, n) PROVE PrefixesStored(chain, n)'
  BY <1>2 DEF PrefixesStored
<1>3. NewCatalog(o)' = NewCatalog(o)
  BY DEF NewCatalog
<1>4. base[o].refs \in SUBSET Memory /\ Subject[o] \in Memory
  OBVIOUS
<1>5. pc[o] \in Publishing => target[o].catalog.refs \in SUBSET Memory
  BY DEF OpReady
<1>6. Stored(base[o].refs)' 
  BY <1>1, <1>4 DEF OpReady
<1>7. pc[o] \in Publishing => Stored(target[o].catalog.refs)'
  BY <1>1, <1>5 DEF OpReady
<1>8. pc[o] = "writeEvent" => PrefixesStored(target[o].head, Len(target[o].head) - 1)'
  BY <1>2 DEF OpReady
<1>9. pc[o] \in {"snapshot", "stage", "switch"}
         => PrefixesStored(target[o].head, Len(target[o].head))'
  BY <1>2 DEF OpReady
<1>10. (known[o] => memories'[Subject[o]] # None)
       /\ (pc[o] \in {"putCatalog", "rebuild", "lockLegacy", "compileLegacy"}
             => memories'[Subject[o]] # None)
  BY <1>4 DEF OpReady
<1> QED
  BY <1>3, <1>6, <1>7, <1>8, <1>9, <1>10 DEF OpReady
-----------------------------------------------------------------------------
(* Type correctness *)

LEMMA NewCatalogType == ASSUME TypeOK, NEW o \in Op PROVE NewCatalog(o) \in Catalog
BY WorldAssumption DEF TypeOK, NewCatalog, Catalog, Stamp

LEMMA TypeStep == IInv /\ [Next]_vars => TypeOK'
<1> SUFFICES ASSUME IInv, [Next]_vars PROVE TypeOK'
  OBVIOUS
<1> TypeOK
  BY DEF IInv
<1> USE WorldAssumption DEF TypeOK, PC, Results, Goto, Keep, Return, ReturnUnlock,
                            disk, local
<1>1. ASSUME NEW o \in Op, Propose(o) PROVE TypeOK'
  BY <1>1 DEF Propose
<1>2. ASSUME NEW o \in Op, Begin(o) PROVE TypeOK'
  BY <1>2 DEF Begin
<1>3. ASSUME NEW o \in Op, Step(o) PROVE TypeOK'
  <2>1. CASE Judge(o)
    BY <2>1 DEF Judge
  <2>2. CASE ReadPointer(o)
    BY <2>2 DEF ReadPointer
  <2>3. CASE ReadWorld(o)
    <3>1. CASE current = None
      <4>1. NoCatalog \in Catalog
        BY DEF NoCatalog, Catalog
      <4> QED BY <2>3, <3>1, <4>1 DEF ReadWorld
    <3>2. CASE current # None
      <4>1. current.catalog \in Catalog
        BY <3>2 DEF Generation
      <4> QED BY <2>3, <3>2, <4>1 DEF ReadWorld
    <3> QED BY <3>1, <3>2
  <2>4. CASE ListMemories(o)
    BY <2>4 DEF ListMemories
  <2>5. CASE ReadGoverned(o)
    <3>1. PICK g : governed' = [governed EXCEPT ![o] = IsGoverned(g)]
      BY <2>5 DEF ReadGoverned
    <3>2. IsGoverned(g) \in BOOLEAN
      BY DEF IsGoverned
    <3>3. governed' \in [Op -> BOOLEAN]
      BY <3>1, <3>2
    <3>4. pc' \in [Op -> PC] /\ result' \in [Op -> Results]
      BY <2>5 DEF ReadGoverned
    <3> QED BY <2>5, <3>3, <3>4 DEF ReadGoverned
  <2>6. CASE Navigate(o)
    BY <2>6 DEF Navigate
  <2>7. CASE LockGoverned(o)
    BY <2>7 DEF LockGoverned, Lock, Mutex!Acquire
  <2>8. CASE LockLegacy(o)
    BY <2>8 DEF LockLegacy, Lock, Mutex!Acquire
  <2>9. CASE LockTransaction(o)
    BY <2>9 DEF LockTransaction, Lock, Mutex!Acquire
  <2>10. CASE Recheck(o)
    BY <2>10 DEF Recheck
  <2>11. CASE PutMemory(o)
    BY <2>11 DEF PutMemory, Stamp
  <2>12. CASE PutCatalog(o)
    BY <2>12, NewCatalogType DEF PutCatalog
  <2>13. CASE CompileLegacy(o)
    <3>1. [kind |-> "legacy", catalog |-> NewCatalog(o), head |-> <<>>, by |-> o]
             \in Generation
      BY NewCatalogType DEF Generation, Stamp
    <3> QED BY <2>13, <3>1 DEF CompileLegacy
  <2>14. CASE Rebuild(o)
    <3>1. IsGoverned(current) =>
             [kind |-> "governed", catalog |-> NewCatalog(o), head |-> current.head,
              by |-> o] \in Generation
      BY NewCatalogType DEF Generation, Stamp, IsGoverned
    <3> QED BY <2>14, <3>1 DEF Rebuild
  <2>15. CASE Load(o)
    <3>1. ASSUME current # None
          PROVE  [kind |-> "governed", catalog |-> current.catalog,
                  head |-> Append(current.head, o), by |-> o] \in Generation
      <4>1. current.head \in Seq(Stamp) /\ current.catalog \in Catalog /\ o \in Stamp
        BY <3>1 DEF Generation, Stamp
      <4>2. Append(current.head, o) \in Seq(Stamp)
        BY <4>1, AppendProperties
      <4> QED BY <4>1, <4>2 DEF Generation
    <3>2. target' = target \/
             (current # None
              /\ target' = [target EXCEPT ![o] =
                    [kind |-> "governed", catalog |-> current.catalog,
                     head |-> Append(current.head, o), by |-> o]])
      BY <2>15 DEF Load
    <3>3. target' \in [Op -> Generation \cup {None}]
      BY <3>1, <3>2
    <3>4. pc' \in [Op -> PC] /\ result' \in [Op -> Results]
      BY <2>15 DEF Load
    <3> QED BY <2>15, <3>3, <3>4 DEF Load
  <2>16. CASE WriteEvent(o)
    <3>1. target[o] \in Generation
      BY <2>16 DEF IInv, OpReady, WriteEvent, Publishing
    <3>2. target[o].head \in Seq(Stamp)
      BY <3>1 DEF Generation
    <3> QED BY <2>16, <3>2 DEF WriteEvent
  <2>17. CASE Snapshot(o)
    BY <2>17 DEF Snapshot
  <2>18. CASE Stage(o)
    <3>1. target[o] \in Generation
      BY <2>18 DEF IInv, OpReady, Stage, Publishing
    <3> QED BY <2>18, <3>1 DEF Stage
  <2>19. CASE Switch(o)
    BY <2>19 DEF Switch
  <2>20. CASE Unlock(o)
    BY <2>20 DEF Unlock, Mutex!GiveUp
  <2>21. CASE SwitchNotSynced(o)
    <3>1. target[o] \in Generation
      BY <2>21 DEF IInv, OpReady, SwitchNotSynced, Publishing
    <3> QED BY <2>21, <3>1 DEF SwitchNotSynced
  <2>22. CASE IOFails(o)
    BY <2>22 DEF IOFails
  <2> QED
    BY <1>3, <2>1, <2>2, <2>3, <2>4, <2>5, <2>6, <2>7, <2>8, <2>9, <2>10,
       <2>11, <2>12, <2>13, <2>14, <2>15, <2>16, <2>17, <2>18, <2>19, <2>20,
       <2>21, <2>22 DEF Step
<1>4. ASSUME NEW p \in Proc, Crash(p) PROVE TypeOK'
  BY <1>4 DEF Crash
<1>5. CASE UNCHANGED vars
  BY <1>5 DEF vars
<1> QED BY <1>1, <1>2, <1>3, <1>4, <1>5 DEF Next
-----------------------------------------------------------------------------
(* Every step leaves each call ready for its next step. *)

LEMMA GrowsStep == IInv /\ [Next]_vars => DiskGrows
<1> SUFFICES ASSUME IInv, [Next]_vars PROVE DiskGrows
  OBVIOUS
<1> TypeOK
  BY DEF IInv
<1> USE WorldAssumption DEF TypeOK, DiskGrows, disk
<1>1. ASSUME NEW o \in Op, Propose(o) \/ Begin(o) PROVE DiskGrows
  BY <1>1 DEF Propose, Begin
<1>2. ASSUME NEW o \in Op, Step(o) PROVE DiskGrows
  <2>1. CASE Judge(o) \/ ReadPointer(o) \/ ReadWorld(o) \/ ListMemories(o)
             \/ ReadGoverned(o) \/ Navigate(o)
    BY <2>1 DEF Judge, ReadPointer, ReadWorld, ListMemories, ReadGoverned, Navigate
  <2>2. CASE LockGoverned(o) \/ LockLegacy(o) \/ LockTransaction(o) \/ Unlock(o)
    BY <2>2 DEF LockGoverned, LockLegacy, LockTransaction, Lock, Unlock
  <2>3. CASE Recheck(o) \/ CompileLegacy(o) \/ Rebuild(o) \/ Load(o) \/ Snapshot(o)
             \/ Switch(o) \/ SwitchNotSynced(o) \/ IOFails(o)
    BY <2>3 DEF Recheck, CompileLegacy, Rebuild, Load, Snapshot, Switch,
                SwitchNotSynced, IOFails
  <2>4. CASE PutMemory(o)
    BY <2>4 DEF PutMemory
  <2>5. CASE PutCatalog(o) \/ WriteEvent(o) \/ Stage(o)
    BY <2>5 DEF PutCatalog, WriteEvent, Stage
  <2> QED BY <1>2, <2>1, <2>2, <2>3, <2>4, <2>5 DEF Step
<1>3. ASSUME NEW p \in Proc, Crash(p) PROVE DiskGrows
  BY <1>3 DEF Crash
<1>4. CASE UNCHANGED vars
  BY <1>4 DEF vars
<1> QED BY <1>1, <1>2, <1>3, <1>4 DEF Next

LEMMA OthersStep ==
    ASSUME IInv, NEW o \in Op, Propose(o) \/ Begin(o) \/ Step(o) PROVE Others(o)
<1> TypeOK
  BY DEF IInv
<1> USE DEF TypeOK, Others, Goto, Keep, Return, ReturnUnlock, local
<1>1. CASE Propose(o) \/ Begin(o)
  BY <1>1 DEF Propose, Begin
<1>2. CASE Step(o)
  <2>1. CASE Judge(o) \/ ReadPointer(o) \/ ReadWorld(o)
    BY <2>1 DEF Judge, ReadPointer, ReadWorld
  <2>2. CASE ListMemories(o) \/ ReadGoverned(o) \/ Navigate(o)
    BY <2>2 DEF ListMemories, ReadGoverned, Navigate
  <2>3. CASE LockGoverned(o) \/ LockLegacy(o) \/ LockTransaction(o) \/ Unlock(o)
    BY <2>3 DEF LockGoverned, LockLegacy, LockTransaction, Lock, Unlock
  <2>4. CASE Recheck(o) \/ PutMemory(o) \/ PutCatalog(o)
    BY <2>4 DEF Recheck, PutMemory, PutCatalog
  <2>5. CASE CompileLegacy(o) \/ Rebuild(o) \/ Load(o)
    BY <2>5 DEF CompileLegacy, Rebuild, Load
  <2>6. CASE WriteEvent(o) \/ Snapshot(o) \/ Stage(o) \/ Switch(o)
    BY <2>6 DEF WriteEvent, Snapshot, Stage, Switch
  <2>7. CASE SwitchNotSynced(o) \/ IOFails(o)
    BY <2>7 DEF SwitchNotSynced, IOFails
  <2> QED BY <1>2, <2>1, <2>2, <2>3, <2>4, <2>5, <2>6, <2>7 DEF Step
<1> QED BY <1>1, <1>2

(* The prefixes of a chain extended by one event. *)
LEMMA ExtendedChain ==
    ASSUME NEW S, NEW s \in Seq(S), NEW e \in S, PrefixesStored(s, Len(s))
    PROVE  /\ Len(Append(s, e)) > 0
           /\ PrefixesStored(Append(s, e), Len(Append(s, e)) - 1)
<1>1. Len(Append(s, e)) = Len(s) + 1 /\ Len(s) \in Nat
  OBVIOUS
<1>2. \A k \in 1..Len(s) : SubSeq(Append(s, e), 1, k) = SubSeq(s, 1, k)
  BY PrefixOfAppend
<1>3. Len(Append(s, e)) - 1 = Len(s) /\ Len(Append(s, e)) > 0
  BY <1>1
<1>4. PrefixesStored(Append(s, e), Len(s))
  BY <1>2 DEF PrefixesStored
<1> QED BY <1>3, <1>4

(* The event that has just been written completes its own chain. *)
LEMMA CompletedChain ==
    ASSUME NEW S, NEW s \in Seq(S), Len(s) > 0, PrefixesStored(s, Len(s) - 1), s \in events
    PROVE  PrefixesStored(s, Len(s))
<1>1. SubSeq(s, 1, Len(s)) = s /\ Len(s) \in Nat
  BY WholePrefix
<1>2. ASSUME NEW k \in 1..Len(s) PROVE SubSeq(s, 1, k) \in events
  <2>1. CASE k = Len(s)
    BY <1>1, <2>1
  <2>2. CASE k # Len(s)
    <3>1. \A n \in Nat : \A j \in 1..n : j # n => j \in 1..(n - 1)
      OBVIOUS
    <3>2. k \in 1..(Len(s) - 1)
      BY <1>1, <2>2, <3>1
    <3> QED BY <3>2 DEF PrefixesStored
  <2> QED BY <2>1, <2>2
<1> QED BY <1>2 DEF PrefixesStored

LEMMA OwnStep ==
    ASSUME IInv, DiskGrows, TypeOK', NEW o \in Op, Propose(o) \/ Begin(o) \/ Step(o)
    PROVE  OpReady(o)'
<1> TypeOK /\ OpReady(o)
  BY DEF IInv
<1> USE WorldAssumption, NoneNotGeneration
    DEF TypeOK, Goto, Keep, Return, ReturnUnlock, disk, local, OpReady, Stored,
        Publishing, NewCatalog, PrefixesStored
<1>1. CASE Propose(o) \/ Begin(o)
  <2>1. CASE Propose(o)
    BY <2>1 DEF Propose
  <2>2. CASE Begin(o)
    <3>1. pc'[o] \in {"judge", "readPointer", "lockTransaction"}
      BY <2>2 DEF Begin
    <3> QED BY <2>2, <3>1 DEF Begin
  <2> QED BY <1>1, <2>1, <2>2
<1>2. CASE Step(o)
  <2>1. CASE Judge(o) \/ ReadPointer(o)
    BY <2>1 DEF Judge, ReadPointer
  <2>2. CASE ReadWorld(o)
    <3>1. base'[o] = base[o] \/ base'[o] = NoCatalog
          \/ (current # None /\ base'[o] = current.catalog)
      BY <2>2 DEF ReadWorld
    <3>2. \A m \in base'[o].refs : memories[m] # None
      BY <3>1 DEF IInv, CurrentClosed, Closed, NoCatalog
    <3>3. pc'[o] \in {"listMemories", "done"}
      BY <2>2 DEF ReadWorld
    <3> QED BY <2>2, <3>2, <3>3 DEF ReadWorld
  <2>3. CASE ListMemories(o)
    BY <2>3 DEF ListMemories
  <2>4. CASE ReadGoverned(o)
    <3>1. pc'[o] \in {"navigate", "done"}
      BY <2>4 DEF ReadGoverned
    <3> QED BY <2>4, <3>1 DEF ReadGoverned
  <2>5. CASE Navigate(o) \/ Recheck(o)
    BY <2>5 DEF Navigate, Recheck
  <2>6. CASE LockGoverned(o) \/ LockLegacy(o) \/ LockTransaction(o) \/ Unlock(o)
    <3>1. CASE LockGoverned(o)
      BY <2>6, <3>1 DEF LockGoverned, Lock
    <3>2. CASE LockLegacy(o)
      BY <2>6, <3>2 DEF LockLegacy, Lock
    <3>3. CASE LockTransaction(o)
      BY <2>6, <3>3 DEF LockTransaction, Lock
    <3>4. CASE Unlock(o)
      BY <2>6, <3>4 DEF Unlock
    <3> QED BY <2>6, <3>1, <3>2, <3>3, <3>4
  <2>7. CASE PutMemory(o)
    <3>1. Subject[o] \in Memory /\ o # None
      OBVIOUS
    <3>2. pc'[o] = "putCatalog" => memories'[Subject[o]] # None
      BY <2>7, <3>1 DEF PutMemory
    <3>3. pc'[o] \in {"putCatalog", "unlock", "done"}
      BY <2>7 DEF PutMemory
    <3>4. base' = base /\ known' = known
      BY <2>7 DEF PutMemory
    <3>5. base[o].refs \in SUBSET Memory
      BY DEF Catalog
    <3>6. \A m \in base[o].refs : memories'[m] # None
      BY <3>5 DEF DiskGrows
    <3>7. known[o] => memories'[Subject[o]] # None
      BY <3>1 DEF DiskGrows
    <3> QED BY <3>2, <3>3, <3>4, <3>6, <3>7
  <2>8. CASE PutCatalog(o)
    BY <2>8 DEF PutCatalog
  <2>9. CASE CompileLegacy(o)
    <3>1. target'[o] = [kind |-> "legacy", catalog |-> NewCatalog(o), head |-> <<>>, by |-> o]
      BY <2>9 DEF CompileLegacy
    <3>2. target'[o] # None
      <4>1. <<>> \in Seq(Stamp) /\ o \in Stamp
        BY DEF Stamp
      <4>2. NewCatalog(o) \in Catalog
        BY NewCatalogType
      <4>3. [kind |-> "legacy", catalog |-> NewCatalog(o), head |-> <<>>, by |-> o]
               \in Generation
        BY <4>1, <4>2 DEF Generation
      <4> QED BY <3>1, <4>3
    <3> QED BY <2>9, <3>1, <3>2 DEF CompileLegacy
  <2>10. CASE Rebuild(o)
    <3>1. CASE IsGoverned(current)
      <4>1. target'[o] = [kind |-> "governed", catalog |-> NewCatalog(o),
                          head |-> current.head, by |-> o]
        BY <2>10, <3>1 DEF Rebuild
      <4>2. target'[o] # None
        <5>1. current.head \in Seq(Stamp) /\ o \in Stamp
          BY <3>1 DEF Generation, Stamp, IsGoverned
        <5>2. NewCatalog(o) \in Catalog
          BY NewCatalogType
        <5>3. [kind |-> "governed", catalog |-> NewCatalog(o),
               head |-> current.head, by |-> o] \in Generation
          BY <5>1, <5>2 DEF Generation
        <5> QED BY <4>1, <5>3
      <4>3. PrefixesStored(current.head, Len(current.head))
        BY <3>1 DEF IInv, CurrentClosed, Closed, IsGoverned
      <4> QED BY <2>10, <3>1, <4>1, <4>2, <4>3 DEF Rebuild
    <3>2. CASE ~IsGoverned(current)
      BY <2>10, <3>2 DEF Rebuild
    <3> QED BY <3>1, <3>2
  <2>11. CASE Load(o)
    <3>1. CASE pc'[o] = "writeEvent"
      <4>1. current # None
            /\ target'[o] = [kind |-> "governed", catalog |-> current.catalog,
                             head |-> Append(current.head, o), by |-> o]
        BY <2>11, <3>1 DEF Load
      <4>2. current.head \in Seq(Stamp) /\ o \in Stamp
        BY <4>1 DEF Generation, Stamp
      <4>3. Closed(current)
        BY <4>1 DEF IInv, CurrentClosed
      <4>4. /\ Len(target'[o].head) > 0
            /\ PrefixesStored(target'[o].head, Len(target'[o].head) - 1)
        <5>1. PrefixesStored(current.head, Len(current.head))
          BY <4>3 DEF Closed
        <5> HIDE DEF PrefixesStored
        <5>2. /\ Len(Append(current.head, o)) > 0
              /\ PrefixesStored(Append(current.head, o), Len(Append(current.head, o)) - 1)
          BY <4>2, <5>1, ExtendedChain
        <5> QED BY <4>1, <5>2
      <4>5. target'[o] # None
        <5>1. Append(current.head, o) \in Seq(Stamp)
          BY <4>2, AppendProperties
        <5>2. current.catalog \in Catalog
          BY <4>1 DEF Generation
        <5>3. [kind |-> "governed", catalog |-> current.catalog,
               head |-> Append(current.head, o), by |-> o] \in Generation
          BY <4>2, <5>1, <5>2 DEF Generation
        <5> QED BY <4>1, <5>3
      <4> QED BY <2>11, <3>1, <4>1, <4>3, <4>4, <4>5 DEF Load, Closed
    <3>2. CASE pc'[o] # "writeEvent"
      BY <2>11, <3>2 DEF Load
    <3> QED BY <3>1, <3>2
  <2>12. CASE WriteEvent(o)
    <3>1. target[o] \in Generation
      BY <2>12 DEF WriteEvent
    <3>2. target[o].head \in Seq(Stamp)
      BY <3>1 DEF Generation
    <3>3. events \subseteq events' /\ target[o].head \in events'
      BY <2>12 DEF WriteEvent
    <3>4. \A k \in 1..Len(target[o].head) : SubSeq(target[o].head, 1, k) \in events'
      <4>1. \A k \in 1..Len(target[o].head) - 1 : SubSeq(target[o].head, 1, k) \in events'
        BY <2>12, <3>3 DEF WriteEvent
      <4>2. SubSeq(target[o].head, 1, Len(target[o].head)) \in events'
        BY <3>2, <3>3, WholePrefix
      <4>3. Len(target[o].head) \in Nat
        BY <3>2
      <4> QED BY <4>1, <4>2, <4>3
    <3> QED BY <2>12, <3>4 DEF WriteEvent
  <2>13. CASE Snapshot(o)
    BY <2>13 DEF Snapshot
  <2>14. CASE Stage(o)
    BY <2>14 DEF Stage
  <2>15. CASE Switch(o) \/ SwitchNotSynced(o)
    BY <2>15 DEF Switch, SwitchNotSynced
  <2>16. CASE IOFails(o)
    <3>1. pc'[o] \in {"unlock", "done"}
      BY <2>16 DEF IOFails
    <3> QED BY <2>16, <3>1 DEF IOFails
  <2> QED BY <1>2, <2>1, <2>2, <2>3, <2>4, <2>5, <2>6, <2>7, <2>8, <2>9, <2>10,
             <2>11, <2>12, <2>13, <2>14, <2>15, <2>16 DEF Step
<1> QED BY <1>1, <1>2

LEMMA ReadyStep == IInv /\ [Next]_vars => \A p \in Op : OpReady(p)'
<1> SUFFICES ASSUME IInv, [Next]_vars, NEW p \in Op PROVE OpReady(p)'
  OBVIOUS
<1>1. TypeOK /\ OpReady(p) /\ DiskGrows /\ TypeOK'
  BY GrowsStep, TypeStep DEF IInv
<1>2. ASSUME NEW o \in Op, Propose(o) \/ Begin(o) \/ Step(o) PROVE OpReady(p)'
  <2>1. CASE p = o
    BY <1>1, <1>2, <2>1, OwnStep
  <2>2. CASE p # o
    <3>1. Others(o)
      BY <1>2, OthersStep
    <3> QED BY <1>1, <2>2, <3>1, StillReady DEF Others
  <2> QED BY <2>1, <2>2
<1>3. ASSUME NEW q \in Proc, Crash(q) PROVE OpReady(p)'
  <2>1. CASE Home[p] = q
    BY <1>1, <1>3, <2>1 DEF Crash, TypeOK, disk, local, OpReady, Stored, Publishing
  <2>2. CASE Home[p] # q
    <3>1. pc'[p] = pc[p] /\ base'[p] = base[p] /\ known'[p] = known[p]
          /\ target'[p] = target[p]
      BY <1>1, <1>3, <2>2 DEF Crash, TypeOK, local
    <3> QED BY <1>1, <3>1, StillReady
  <2> QED BY <2>1, <2>2
<1>4. CASE UNCHANGED vars
  BY <1>1, <1>4, StillReady DEF vars, local
<1> QED BY <1>2, <1>3, <1>4 DEF Next

-----------------------------------------------------------------------------
(* CURRENT *)

LEMMA ClosedStep == IInv /\ [Next]_vars => CurrentClosed'
<1> SUFFICES ASSUME IInv, [Next]_vars PROVE CurrentClosed'
  OBVIOUS
<1>1. TypeOK /\ CurrentClosed /\ DiskGrows
  BY GrowsStep DEF IInv
<1>2. CASE UNCHANGED current
  <2>1. current # None => current.catalog.refs \in SUBSET Memory
    BY <1>1 DEF TypeOK, Generation, Catalog
  <2> QED BY <1>1, <1>2, <2>1 DEF CurrentClosed, Closed, DiskGrows
<1>3. ASSUME NEW o \in Op, Switch(o) \/ SwitchNotSynced(o) PROVE CurrentClosed'
  <2>1. OpReady(o) /\ pc[o] = "switch" /\ UNCHANGED disk
    BY <1>3 DEF IInv, Switch, SwitchNotSynced
  <2>2. target[o] \in generations /\ Closed(target[o])
    BY <2>1 DEF OpReady, Stored, PrefixesStored, Closed, Publishing
  <2>3. current' = target[o] \/ current' = current
    BY <1>3 DEF Switch, SwitchNotSynced
  <2> QED BY <1>1, <2>1, <2>2, <2>3 DEF CurrentClosed, Closed, disk
<1>4. ASSUME NEW o \in Op, Step(o), ~Switch(o), ~SwitchNotSynced(o)
      PROVE  UNCHANGED current
  BY <1>4 DEF Step, Judge, ReadPointer, ReadWorld, ListMemories, ReadGoverned, Navigate,
              LockGoverned, LockLegacy, LockTransaction, Lock, Recheck, PutMemory,
              PutCatalog, CompileLegacy, Rebuild, Load, WriteEvent, Snapshot, Stage, IOFails,
              Unlock
<1>5. ASSUME NEW o \in Op, Propose(o) \/ Begin(o) PROVE UNCHANGED current
  BY <1>5 DEF Propose, Begin
<1>6. ASSUME NEW p \in Proc, Crash(p) PROVE UNCHANGED current
  BY <1>6 DEF Crash
<1> QED BY <1>2, <1>3, <1>4, <1>5, <1>6 DEF Next, vars

LEMMA InitIInv == Init => IInv
<1> SUFFICES ASSUME Init PROVE IInv
  OBVIOUS
<1> USE WorldAssumption
<1>1. SeedCatalog \in Catalog /\ NoCatalog \in Catalog
  BY DEF SeedCatalog, NoCatalog, Catalog, Stamp
<1>2. Seed \in Stamp /\ <<>> \in Seq(Stamp) /\ <<Seed>> \in Seq(Stamp)
  BY DEF Stamp
<1>3. SeedGeneration \in Generation
  BY <1>1, <1>2 DEF SeedGeneration, Generation
<1>4. TypeOK
  BY <1>1, <1>2, <1>3 DEF Init, TypeOK, PC, Results
<1>5. CurrentClosed
  <2>1. SUFFICES ASSUME SeedWorld # "empty" PROVE Closed(SeedGeneration)
    BY DEF Init, CurrentClosed
  <2>2. SeedGeneration.catalog \in catalogs
        /\ \A m \in SeedGeneration.catalog.refs : memories[m] # None
    BY <2>1 DEF Init, SeedGeneration, SeedCatalog
  <2>3. CASE SeedWorld = "legacy"
    BY <2>2, <2>3 DEF SeedGeneration, Closed
  <2>4. CASE SeedWorld = "governed"
    <3>1. SeedGeneration.head = <<Seed>> /\ events = {<<Seed>>}
      BY <2>4 DEF Init, SeedGeneration
    <3>2. SubSeq(<<Seed>>, 1, 1) = <<Seed>>
      BY <1>2, WholePrefix
    <3> QED BY <2>2, <3>1, <3>2 DEF Closed
  <2> QED BY <2>1, <2>3, <2>4
<1>6. ASSUME NEW o \in Op PROVE OpReady(o)
  BY DEF Init, OpReady, Stored, NoCatalog, Publishing
<1> QED BY <1>4, <1>5, <1>6 DEF IInv

LEMMA Inductive == Spec => []IInv
<1>1. IInv /\ [Next]_vars => IInv'
  BY TypeStep, ClosedStep, ReadyStep DEF IInv
<1> QED BY <1>1, InitIInv, PTL DEF Spec

(* Every variable of the world stays in its set. *)
THEOREM TypeCorrect == Spec => []TypeOK
<1>1. IInv => TypeOK
  BY DEF IInv
<1> QED BY <1>1, Inductive, PTL

(* Whatever is killed and wherever, CURRENT names a complete generation    *)
(* whose catalog, memories and events are all on disk.                     *)
THEOREM CrashConsistent == Spec => []CurrentClosed
<1>1. IInv => CurrentClosed
  BY DEF IInv
<1> QED BY <1>1, Inductive, PTL

-----------------------------------------------------------------------------
(***************************************************************************)
(* What the compiler lock makes serial, for any calls, processes and       *)
(* crashes: a proposal takes effect only on the generation it was reviewed *)
(* against; and a governed project whose files can be read is an           *)
(* append-only history.                                                    *)
(***************************************************************************)

(* Between taking the compiler lock and giving it back. *)
Locked == {"recheck", "compileLegacy", "rebuild", "load"} \cup Publishing \cup {"unlock"}

(* Where applyProposal can be. *)
ApplyPC == {"idle", "proposed", "lockTransaction", "load"} \cup Publishing
           \cup {"unlock", "done"}

OpSerial(o) ==
    /\ pc[o] \in Locked => lock = o
    /\ pc[o] \in {"putMemory", "putCatalog"} /\ governed[o] => lock = o
    /\ pc[o] = "lockGoverned" => governed[o]
    /\ target[o] # None => target[o].by = o
    /\ Kind[o] = "apply" => /\ pc[o] \in ApplyPC
                            /\ pc[o] \in Publishing => current = reviewed[o]

SInv == IInv /\ \A o \in Op : OpSerial(o)

(* The lock is taken from nobody and given back by its holder. *)
LockHandled(o) == lock' = lock \/ (lock = None /\ lock' = o) \/ (lock = o /\ lock' = None)

Moves(o) == Propose(o) \/ Begin(o) \/ Step(o)

LEMMA SwitchHoldsLock ==
    ASSUME SInv, NEW o \in Op, Moves(o), current' # current
    PROVE  lock = o /\ lock' = o /\ current' = target[o] /\ pc[o] = "switch"
<1>1. Switch(o) \/ SwitchNotSynced(o)
  BY DEF Moves, Propose, Begin, Step, Judge, ReadPointer, ReadWorld, ListMemories,
         ReadGoverned, Navigate, LockGoverned, LockLegacy, LockTransaction, Lock, Recheck,
         PutMemory, PutCatalog, CompileLegacy, Rebuild, Load, WriteEvent, Snapshot, Stage,
         IOFails, Unlock
<1>2. pc[o] = "switch" /\ lock' = lock /\ current' = target[o]
  BY <1>1 DEF Switch, SwitchNotSynced
<1> QED BY <1>2 DEF SInv, OpSerial, Locked, Publishing

LEMMA LockStep ==
    ASSUME SInv, NEW o \in Op, Moves(o) PROVE LockHandled(o)
<1>1. CASE LockGoverned(o) \/ LockLegacy(o) \/ LockTransaction(o)
  BY <1>1 DEF LockGoverned, LockLegacy, LockTransaction, Lock, LockHandled, Mutex!Acquire
<1>2. CASE Unlock(o)
  BY <1>2 DEF Unlock, LockHandled, Mutex!GiveUp
<1>3. CASE ~(LockGoverned(o) \/ LockLegacy(o) \/ LockTransaction(o) \/ Unlock(o))
  BY <1>3 DEF Moves, LockHandled, Propose, Begin, Step, Judge, ReadPointer, ReadWorld,
         ListMemories, ReadGoverned, Navigate, Recheck, PutMemory, PutCatalog,
         CompileLegacy, Rebuild, Load, WriteEvent, Snapshot, Stage, Switch,
         SwitchNotSynced, IOFails
<1> QED BY <1>1, <1>2, <1>3

LEMMA OthersReviewed ==
    ASSUME SInv, NEW o \in Op, Moves(o)
    PROVE  \A p \in Op \ {o} : governed'[p] = governed[p] /\ reviewed'[p] = reviewed[p]
<1> TypeOK
  BY DEF SInv, IInv
<1> USE DEF TypeOK, local
<1>1. CASE Propose(o) \/ Begin(o)
  BY <1>1 DEF Propose, Begin
<1>2. CASE ReadGoverned(o)
  BY <1>2 DEF ReadGoverned
<1>3. CASE Step(o) /\ ~ReadGoverned(o)
  BY <1>3 DEF Step, Judge, ReadPointer, ReadWorld, ListMemories, Navigate, LockGoverned,
         LockLegacy, LockTransaction, Lock, Recheck, PutMemory, PutCatalog, CompileLegacy,
         Rebuild, Load, WriteEvent, Snapshot, Stage, Switch, SwitchNotSynced, IOFails, Unlock
<1> QED BY <1>1, <1>2, <1>3 DEF Moves

(* A call is not disturbed by the steps of another. *)
LEMMA SerialOthers ==
    ASSUME SInv, NEW o \in Op, Moves(o), NEW p \in Op, p # o PROVE OpSerial(p)'
<1>1. pc'[p] = pc[p] /\ target'[p] = target[p] /\ governed'[p] = governed[p]
      /\ reviewed'[p] = reviewed[p]
  BY OthersStep, OthersReviewed DEF Others, SInv, Moves
<1>2. lock = p => lock' = p
  BY LockStep, WorldAssumption DEF LockHandled
<1>3. lock = p => current' = current
  BY SwitchHoldsLock
<1>4. OpSerial(p)
  BY DEF SInv
<1> QED BY <1>1, <1>2, <1>3, <1>4 DEF OpSerial, Locked, Publishing

-----------------------------------------------------------------------------
(* A call's own steps. *)

LEMMA SerialOwn ==
    ASSUME SInv, TypeOK', NEW o \in Op, Moves(o) PROVE OpSerial(o)'
<1> TypeOK /\ OpSerial(o)
  BY DEF SInv, IInv
<1> USE WorldAssumption, NoneNotGeneration
    DEF TypeOK, OpSerial, Goto, Keep, Return, ReturnUnlock, disk, local, Locked,
        Publishing, ApplyPC
<1>1. CASE Propose(o)
  BY <1>1 DEF Propose
<1>2. CASE Begin(o)
  <2>1. pc'[o] \in {"judge", "readPointer", "lockTransaction"}
        /\ (Kind[o] = "apply" => pc'[o] = "lockTransaction")
    BY <1>2 DEF Begin
  <2> QED BY <1>2, <2>1 DEF Begin
<1>3. CASE Judge(o) \/ ReadPointer(o) \/ ReadWorld(o) \/ ListMemories(o)
  <2>1. pc'[o] \in {"readPointer", "readWorld", "listMemories", "readGoverned", "done"}
        /\ Kind[o] # "apply" /\ target' = target
    BY <1>3 DEF Judge, ReadPointer, ReadWorld, ListMemories
  <2> QED BY <2>1
<1>4. CASE ReadGoverned(o) \/ Navigate(o)
  <2>1. CASE ReadGoverned(o)
    <3>1. pc'[o] \in {"navigate", "done"} /\ Kind[o] # "apply" /\ target' = target
      BY <2>1 DEF ReadGoverned
    <3> QED BY <3>1
  <2>2. CASE Navigate(o)
    BY <2>2 DEF Navigate
  <2> QED BY <1>4, <2>1, <2>2
<1>5. CASE LockGoverned(o) \/ LockLegacy(o) \/ LockTransaction(o)
  <2>1. CASE LockGoverned(o)
    BY <2>1 DEF LockGoverned, Lock, Mutex!Acquire
  <2>2. CASE LockLegacy(o)
    BY <2>2 DEF LockLegacy, Lock, Mutex!Acquire
  <2>3. CASE LockTransaction(o)
    BY <2>3 DEF LockTransaction, Lock, Mutex!Acquire
  <2> QED BY <1>5, <2>1, <2>2, <2>3
<1>6. CASE Recheck(o) \/ PutMemory(o) \/ PutCatalog(o)
  <2>1. CASE Recheck(o)
    BY <2>1 DEF Recheck
  <2>2. CASE PutMemory(o)
    BY <2>2 DEF PutMemory
  <2>3. CASE PutCatalog(o)
    BY <2>3 DEF PutCatalog
  <2> QED BY <1>6, <2>1, <2>2, <2>3
<1>7. CASE CompileLegacy(o)
  <2>1. target'[o].by = o /\ pc'[o] = "stage" /\ lock' = lock
    BY <1>7 DEF CompileLegacy
  <2> QED BY <1>7, <2>1 DEF CompileLegacy
<1>8. CASE Rebuild(o)
  <2>1. (target'[o].by = o \/ target'[o] = target[o])
        /\ pc'[o] \in {"snapshot", "unlock"} /\ lock' = lock
    BY <1>8 DEF Rebuild
  <2> QED BY <1>8, <2>1 DEF Rebuild
<1>9. CASE Load(o)
  <2>1. (target'[o].by = o \/ target'[o] = target[o])
        /\ pc'[o] \in {"writeEvent", "unlock"} /\ lock' = lock /\ current' = current
        /\ reviewed' = reviewed
    BY <1>9 DEF Load
  <2>2. Kind[o] = "apply" /\ pc'[o] = "writeEvent" => current = reviewed[o]
    BY <1>9 DEF Load, Stale
  <2>3. pc[o] = "load"
    BY <1>9 DEF Load
  <2> QED BY <2>1, <2>2, <2>3
<1>10. CASE WriteEvent(o) \/ Snapshot(o) \/ Stage(o)
  <2>1. pc'[o] \in Publishing \ {"writeEvent"} /\ pc[o] \in Publishing
        /\ UNCHANGED <<current, lock, target, reviewed>>
    BY <1>10 DEF WriteEvent, Snapshot, Stage
  <2> QED BY <2>1
<1>11. CASE Switch(o) \/ SwitchNotSynced(o)
  <2>1. pc'[o] = "unlock" /\ pc[o] = "switch" /\ lock' = lock /\ target' = target
    BY <1>11 DEF Switch, SwitchNotSynced
  <2> QED BY <2>1
<1>12. CASE IOFails(o)
  <2>1. IF lock = o THEN pc'[o] = "unlock" ELSE pc'[o] = "done"
    BY <1>12 DEF IOFails
  <2>2. UNCHANGED <<lock, target>>
    BY <1>12 DEF IOFails
  <2> QED BY <2>1, <2>2
<1>13. CASE Unlock(o)
  BY <1>13 DEF Unlock
<1> QED
  BY <1>1, <1>2, <1>3, <1>4, <1>5, <1>6, <1>7, <1>8, <1>9, <1>10, <1>11, <1>12, <1>13
     DEF Moves, Step

LEMMA SerialStep == SInv /\ [Next]_vars => SInv'
<1> SUFFICES ASSUME SInv, [Next]_vars PROVE SInv'
  OBVIOUS
<1>1. IInv /\ IInv' /\ TypeOK'
  BY TypeStep, ClosedStep, ReadyStep DEF SInv, IInv
<1>2. ASSUME NEW o \in Op, Moves(o), NEW p \in Op PROVE OpSerial(p)'
  BY <1>1, <1>2, SerialOwn, SerialOthers
<1>3. ASSUME NEW q \in Proc, Crash(q), NEW p \in Op PROVE OpSerial(p)'
  <2>1. CASE Home[p] = q
    BY <1>1, <1>3, <2>1 DEF Crash, SInv, IInv, TypeOK, local, OpSerial, Locked,
                            Publishing, ApplyPC
  <2>2. CASE Home[p] # q
    BY <1>1, <1>3, <2>2 DEF Crash, SInv, IInv, TypeOK, local, OpSerial, Locked, Publishing
  <2> QED BY <2>1, <2>2
<1>4. ASSUME UNCHANGED vars, NEW p \in Op PROVE OpSerial(p)'
  BY <1>4 DEF SInv, OpSerial, vars, local
<1> QED BY <1>1, <1>2, <1>3, <1>4 DEF SInv, Next, Moves

LEMMA SerialInductive == Spec => []SInv
<1>1. Init => SInv
  BY InitIInv DEF SInv, Init, OpSerial, Locked, Publishing, ApplyPC
<1> QED BY <1>1, SerialStep, PTL DEF Spec

(* A proposal takes effect only on the very generation it was reviewed     *)
(* against, whatever other calls and processes do.                         *)
THEOREM ProposalsAsReviewed == Spec => AppliedAsReviewed
<1>1. ASSUME SInv, [Next]_vars, NEW o \in Op, Kind[o] = "apply",
             current' # current, current' = target[o]
      PROVE  current = reviewed[o]
  <2>1. PICK p \in Op : Moves(p)
    BY <1>1 DEF Next, Moves, Crash, vars
  <2>2. current' = target[p] /\ pc[p] = "switch"
    BY <1>1, <2>1, SwitchHoldsLock
  <2>3. target[p] # None /\ target[p].by = p /\ target[o].by = o
    <3>1. OpReady(p) /\ OpSerial(p) /\ OpSerial(o)
      BY <1>1 DEF SInv, IInv
    <3>2. target[p] # None
      BY ONLY <2>2, <3>1 DEF OpReady, Publishing
    <3> QED BY ONLY <1>1, <2>2, <3>1, <3>2 DEF OpSerial
  <2>4. p = o
    BY ONLY <1>1, <2>2, <2>3
  <2>5. OpSerial(o)
    BY <1>1 DEF SInv
  <2> QED BY ONLY <1>1, <2>2, <2>4, <2>5 DEF OpSerial, Publishing
<1>2. SInv /\ [Next]_vars =>
         [\A o \in Op : Kind[o] = "apply" /\ current' # current /\ current' = target[o]
                          => current = reviewed[o]]_vars
  BY <1>1
<1> QED BY <1>2, SerialInductive, PTL DEF Spec, AppliedAsReviewed

-----------------------------------------------------------------------------
(* A governed project is an append-only history. *)

HistoryStep(g, h) ==
    \/ h.head = g.head /\ \E m \in Memory : h.catalog.refs = g.catalog.refs \cup {m}
    \/ h.catalog = g.catalog /\ \E e \in Op : h.head = Append(g.head, e)

OpGoverned(o) ==
    /\ pc[o] \notin {"lockLegacy", "compileLegacy"}
    /\ pc[o] \in {"navigate", "lockGoverned", "recheck", "putMemory", "putCatalog", "rebuild"}
          => governed[o]
    /\ pc[o] \in {"putMemory", "putCatalog", "rebuild"} => current.catalog = base[o]
    /\ pc[o] \in Publishing => /\ target[o].kind = "governed"
                               /\ HistoryStep(current, target[o])

GInv == SInv /\ IsGoverned(current) /\ \A o \in Op : OpGoverned(o)

LEMMA GovernedOthers ==
    ASSUME GInv, NEW o \in Op, Moves(o), NEW p \in Op, p # o PROVE OpGoverned(p)'
<1>1. pc'[p] = pc[p] /\ target'[p] = target[p] /\ governed'[p] = governed[p]
      /\ base'[p] = base[p]
  BY OthersStep, OthersReviewed DEF Others, GInv, SInv, Moves
<1>2. lock = p => current' = current
  BY SwitchHoldsLock DEF GInv
<1>3. OpGoverned(p) /\ OpSerial(p)
  BY DEF GInv, SInv
<1>4. pc[p] \in Publishing \cup {"putMemory", "putCatalog", "rebuild"} => lock = p
  BY <1>3 DEF OpSerial, OpGoverned, Locked, Publishing
<1>5. pc[p] \in Publishing => HistoryStep(current', target'[p])
  BY <1>1, <1>2, <1>3, <1>4 DEF OpGoverned
<1>6. pc[p] \in {"putMemory", "putCatalog", "rebuild"} => current'.catalog = base'[p]
  BY <1>1, <1>2, <1>3, <1>4 DEF OpGoverned
<1> QED BY <1>1, <1>3, <1>5, <1>6 DEF OpGoverned, HistoryStep

LEMMA GovernedOwn ==
    ASSUME GInv, IOFaults = FALSE, TypeOK', NEW o \in Op, Moves(o) PROVE OpGoverned(o)'
<1> TypeOK /\ OpGoverned(o) /\ OpSerial(o) /\ IsGoverned(current)
  BY DEF GInv, SInv, IInv
<1> USE WorldAssumption DEF TypeOK, OpGoverned, Goto, Keep, Return, ReturnUnlock, disk,
                            local, Publishing
<1>1. CASE Propose(o)
  BY <1>1 DEF Propose
<1>2. CASE Begin(o)
  <2>1. pc'[o] \in {"judge", "readPointer", "lockTransaction"}
    BY <1>2 DEF Begin
  <2> QED BY <2>1
<1>3. CASE Judge(o) \/ ReadPointer(o) \/ ReadWorld(o) \/ ListMemories(o)
  <2>1. pc'[o] \in {"readPointer", "readWorld", "listMemories", "readGoverned", "done"}
    BY <1>3 DEF Judge, ReadPointer, ReadWorld, ListMemories
  <2> QED BY <2>1
<1>4. CASE ReadGoverned(o)
  <2>1. governed'[o] = TRUE /\ pc'[o] \in {"navigate", "done"}
    BY <1>4 DEF ReadGoverned
  <2> QED BY <2>1
<1>5. CASE Navigate(o)
  <2>1. pc'[o] \in {"lockGoverned", "done"} /\ governed' = governed /\ governed[o]
    BY <1>5 DEF Navigate
  <2> QED BY <2>1
<1>6. CASE LockGoverned(o) \/ LockLegacy(o) \/ LockTransaction(o) \/ Unlock(o)
  <2>1. pc'[o] \in {"recheck", "load", "done"} /\ governed' = governed
        /\ (pc'[o] = "recheck" => governed[o])
    BY <1>6 DEF LockGoverned, LockLegacy, LockTransaction, Lock, Unlock
  <2> QED BY <2>1
<1>7. CASE Recheck(o)
  <2>1. pc'[o] = "unlock" \/ (pc'[o] = "putMemory" /\ current.catalog = base[o])
    BY <1>7 DEF Recheck
  <2>2. governed[o] /\ UNCHANGED <<governed, current, base>>
    BY <1>7 DEF Recheck
  <2> QED BY <2>1, <2>2
<1>8. CASE PutMemory(o) \/ PutCatalog(o)
  <2>1. pc'[o] \in {"putCatalog", "rebuild", "unlock", "done"} /\ governed[o]
        /\ UNCHANGED <<governed, current, base>> /\ current.catalog = base[o]
    BY <1>8 DEF PutMemory, PutCatalog
  <2> QED BY <2>1
<1>9. CASE CompileLegacy(o)
  BY <1>9 DEF CompileLegacy
<1>10. CASE Rebuild(o)
  <2>1. pc'[o] = "snapshot" /\ UNCHANGED current
    BY <1>10 DEF Rebuild
  <2>2. target'[o] = [kind |-> "governed", catalog |-> NewCatalog(o),
                      head |-> current.head, by |-> o]
    BY <1>10 DEF Rebuild
  <2>3. current.catalog = base[o] /\ Subject[o] \in Memory
    BY <1>10 DEF Rebuild
  <2>4. HistoryStep(current, target'[o])
    BY <2>2, <2>3 DEF HistoryStep, NewCatalog
  <2> QED BY <2>1, <2>2, <2>4 DEF HistoryStep
<1>11. CASE Load(o)
  <2>1. UNCHANGED current /\ pc'[o] \in {"unlock", "writeEvent"}
    BY <1>11 DEF Load
  <2>2. ASSUME pc'[o] = "writeEvent"
        PROVE  /\ target'[o].kind = "governed"
               /\ HistoryStep(current, target'[o])
    <3>1. target'[o] = [kind |-> "governed", catalog |-> current.catalog,
                        head |-> Append(current.head, o), by |-> o]
      BY <1>11, <2>2 DEF Load
    <3> QED BY <3>1 DEF HistoryStep
  <2> QED BY <2>1, <2>2 DEF HistoryStep
<1>12. CASE WriteEvent(o) \/ Snapshot(o) \/ Stage(o)
  <2>1. pc[o] \in Publishing /\ pc'[o] \in Publishing /\ UNCHANGED <<current, target>>
    BY <1>12 DEF WriteEvent, Snapshot, Stage
  <2> QED BY <2>1 DEF HistoryStep
<1>13. CASE Switch(o)
  <2>1. pc'[o] = "unlock"
    BY <1>13 DEF Switch
  <2> QED BY <2>1
<1>14. ~SwitchNotSynced(o) /\ ~IOFails(o)
  BY DEF SwitchNotSynced, IOFails
<1> QED
  BY <1>1, <1>2, <1>3, <1>4, <1>5, <1>6, <1>7, <1>8, <1>9, <1>10, <1>11, <1>12, <1>13,
     <1>14 DEF Moves, Step

LEMMA GovernedStep ==
    ASSUME IOFaults = FALSE PROVE GInv /\ [Next]_vars => GInv'
<1> SUFFICES ASSUME GInv, [Next]_vars PROVE GInv'
  OBVIOUS
<1>1. SInv' /\ TypeOK'
  BY SerialStep DEF GInv, SInv, IInv
<1>2. IsGoverned(current)'
  <2>1. CASE UNCHANGED current
    BY <2>1 DEF GInv, IsGoverned
  <2>2. CASE current' # current
    <3>1. PICK p \in Op : Moves(p)
      BY <2>2 DEF Next, Moves, Crash, vars
    <3>2. current' = target[p] /\ pc[p] = "switch"
      BY <2>2, <3>1, SwitchHoldsLock DEF GInv
    <3> QED BY <3>2 DEF GInv, SInv, IInv, OpReady, OpGoverned, IsGoverned, Publishing
  <2> QED BY <2>1, <2>2
<1>3. ASSUME NEW o \in Op, Moves(o), NEW p \in Op PROVE OpGoverned(p)'
  BY <1>1, <1>3, GovernedOwn, GovernedOthers
<1>4. ASSUME NEW q \in Proc, Crash(q), NEW p \in Op PROVE OpGoverned(p)'
  <2>1. pc'[p] \in {pc[p], "done"} /\ UNCHANGED <<current, local>>
    BY <1>4 DEF Crash, GInv, SInv, IInv, TypeOK
  <2>2. OpGoverned(p)
    BY DEF GInv
  <2> QED BY <2>1, <2>2 DEF local, OpGoverned, HistoryStep, Publishing
<1>5. ASSUME UNCHANGED vars, NEW p \in Op PROVE OpGoverned(p)'
  BY <1>5 DEF GInv, OpGoverned, HistoryStep, vars, local
<1> QED BY <1>1, <1>2, <1>3, <1>4, <1>5 DEF GInv, Next, Moves

LEMMA GovernedInit == ASSUME SeedWorld = "governed" PROVE Init => GInv
<1> SUFFICES ASSUME Init PROVE GInv
  OBVIOUS
<1>1. SInv
  BY InitIInv DEF SInv, Init, OpSerial, Locked, Publishing, ApplyPC
<1>2. IsGoverned(current)
  <2>1. current = SeedGeneration /\ current.kind = "governed"
    BY DEF Init, SeedGeneration
  <2>2. current # None
    BY <1>1, <2>1, NoneNotGeneration DEF SInv, IInv, TypeOK, Init, OpReady
  <2> QED BY <2>1, <2>2 DEF IsGoverned
<1>3. ASSUME NEW o \in Op PROVE OpGoverned(o)
  BY DEF Init, OpGoverned, Publishing
<1> QED BY <1>1, <1>2, <1>3 DEF GInv

(* A project that is governed and whose files can be read never loses a    *)
(* memory or an event, whoever publishes and whoever crashes: what readers *)
(* are served implements the append-only history.                          *)
THEOREM GovernedHistory ==
    ASSUME SeedWorld = "governed", IOFaults = FALSE
    PROVE  Spec => ImplementsHistory
<1>1. Init => GInv
  BY GovernedInit
<1>2. GInv /\ [Next]_vars => [History!Next]_(History!vars)
  <2> SUFFICES ASSUME GInv, [Next]_vars PROVE [History!Next]_(History!vars)
    OBVIOUS
  <2>1. CASE UNCHANGED current
    BY <2>1 DEF History!vars, HeadOf
  <2>2. CASE current' # current
    <3>1. PICK p \in Op : Moves(p)
      BY <2>2 DEF Next, Moves, Crash, vars
    <3>2. current' = target[p] /\ pc[p] = "switch"
      BY <2>2, <3>1, SwitchHoldsLock DEF GInv
    <3>3. HistoryStep(current, current') /\ current # None /\ current' # None
      BY <3>2 DEF GInv, SInv, IInv, OpReady, OpGoverned, IsGoverned, Publishing
    <3> QED BY <3>3 DEF HistoryStep, History!Next, History!AddMemory, History!AppendEvent,
                        HeadOf, Stamp
  <2> QED BY <2>1, <2>2
<1>3. GInv /\ [Next]_vars => GInv'
  BY GovernedStep
<1> QED BY <1>1, <1>2, <1>3, PTL DEF Spec, ImplementsHistory

-----------------------------------------------------------------------------
(***************************************************************************)
(* Every mutation is made by one process and its files can be read, while  *)
(* recall may come from anywhere.  The coordinator lets one mutation at a  *)
(* time at the world, so what a mutation has read of it is current until   *)
(* it publishes, and then nothing is lost, from whatever world it starts.  *)
(***************************************************************************)
OneMutator ==
    \A o, p \in Op : Kind[o] # "recall" /\ Kind[p] # "recall" => Home[o] = Home[p]

AtWork == {o \in Op : Kind[o] # "recall" /\ pc[o] \notin Waiting}

RefsOf(g) == IF g = None THEN {} ELSE g.catalog.refs

(* What a mutation adds to a world g when it publishes h. *)
Extends(o, g, h) ==
    /\ IsGoverned(g) => IsGoverned(h)
    /\ h.kind = "legacy" => h.head = <<>>
    /\ IF Kind[o] = "consolidate"
         THEN h.catalog.refs = RefsOf(g) \cup {Subject[o]} /\ h.head = HeadOf(g)
         ELSE h.catalog.refs = RefsOf(g) /\ h.head = Append(HeadOf(g), o)

(* Where consolidate relies on having read the catalog, and on knowing     *)
(* whether the project is governed.                                        *)
Judged == {"navigate", "lockGoverned", "recheck", "putMemory", "putCatalog", "rebuild",
           "lockLegacy", "compileLegacy"}
Based  == {"listMemories", "readGoverned"} \cup Judged

(* Where a memory is on disk and not yet in the catalog served. *)
Storing == {"putCatalog", "rebuild", "lockLegacy", "compileLegacy", "snapshot", "stage",
            "switch"}

OpKind(o) ==
    /\ Kind[o] = "recall" => pc[o] \in {"idle", "readPointer", "readWorld", "done"}
    /\ Kind[o] = "commit" => pc[o] \in ApplyPC
    /\ Kind[o] = "consolidate" => pc[o] \notin {"proposed", "lockTransaction", "load", "writeEvent"}

OpFresh(o) ==
    /\ pc[o] = "readWorld" /\ Kind[o] = "consolidate" => view[o] = current
    /\ pc[o] \in Based => base[o].refs = RefsOf(current)
                          /\ (current # None => base[o] = current.catalog)
    /\ pc[o] \in Judged => governed[o] = IsGoverned(current)
    /\ pc[o] \in {"lockGoverned", "recheck", "rebuild"} => governed[o]
    /\ pc[o] \in {"lockLegacy", "compileLegacy"} => ~governed[o]
    /\ pc[o] \in Publishing => Extends(o, current, target[o])
    /\ pc[o] \in {"stage", "switch"} => target[o].kind = "legacy" \/ view[o] = current

(* A memory on disk is served, or about to be. *)
Reached(m) ==
    \/ m \in RefsOf(current)
    \/ \E o \in AtWork : pc[o] \in Storing /\ Kind[o] = "consolidate" /\ Subject[o] = m
    \/ \A o \in Op : Kind[o] # "recall" => pc[o] = "done"

Acked(o) ==
    /\ result[o] = "created" => Subject[o] \in RefsOf(current)
    /\ result[o] = "committed" => \E i \in DOMAIN HeadOf(current) : HeadOf(current)[i] = o

Told(o) ==
    /\ Acked(o)
    /\ result[o] = "hidden_duplicate" => Subject[o] \in RefsOf(current)

(* The compiler lock is held only on the way to a publication. *)
Holding(o) ==
    /\ Kind[o] # "recall"
    /\ pc[o] \in Locked \cup {"putMemory", "putCatalog"}
    /\ pc[o] \in {"putMemory", "putCatalog"} => governed[o]

Alone == \A o, p \in AtWork : o = p

PInv ==
    /\ SInv
    /\ Alone
    /\ \A o \in Op : lock = o => Holding(o)
    /\ current # None /\ current.kind = "legacy" => current.head = <<>>
    /\ \A o \in Op : OpKind(o) /\ OpFresh(o) /\ Told(o)
    /\ \A m \in Memory : memories[m] # None => Reached(m)

(* The one mutation that is at work publishes what it has extended. *)
LEMMA PublisherAtWork ==
    ASSUME PInv, NEW o \in Op, Moves(o), current' # current
    PROVE  /\ o \in AtWork /\ pc[o] = "switch" /\ lock = o
           /\ current' = target[o] /\ current' # None
           /\ Extends(o, current, current')
<1>1. pc[o] = "switch" /\ current' = target[o] /\ lock = o
  BY SwitchHoldsLock DEF PInv
<1>2. Kind[o] # "recall"
  BY <1>1 DEF PInv, OpKind
<1>3. target[o] # None /\ Extends(o, current, target[o])
  BY <1>1 DEF PInv, SInv, IInv, OpReady, OpFresh, Publishing
<1> QED BY <1>1, <1>2, <1>3 DEF AtWork, Waiting

(* What is served grows. *)
LEMMA ServesMore ==
    ASSUME PInv, TypeOK', NEW o \in Op, Moves(o)
    PROVE  /\ RefsOf(current) \subseteq RefsOf(current')
           /\ \A i \in DOMAIN HeadOf(current) :
                 i \in DOMAIN HeadOf(current') /\ HeadOf(current')[i] = HeadOf(current)[i]
<1>1. CASE UNCHANGED current
  BY <1>1
<1>2. CASE current' # current
  <2>1. Extends(o, current, current') /\ current' # None
    BY <1>2, PublisherAtWork
  <2>2. RefsOf(current) \subseteq RefsOf(current')
    BY <2>1 DEF Extends, RefsOf
  <2>3. HeadOf(current) \in Seq(Stamp) /\ o \in Stamp
    BY DEF PInv, SInv, IInv, TypeOK, HeadOf, Generation, Stamp
  <2>4. HeadOf(current') = HeadOf(current) \/ HeadOf(current') = Append(HeadOf(current), o)
    BY <2>1 DEF Extends, HeadOf
  <2>5. \A i \in DOMAIN HeadOf(current) :
           /\ i \in DOMAIN Append(HeadOf(current), o)
           /\ Append(HeadOf(current), o)[i] = HeadOf(current)[i]
    BY <2>3, AppendProperties
  <2> QED BY <2>2, <2>4, <2>5
<1> QED BY <1>1, <1>2

(* A call other than o is not disturbed. *)
LEMMA OthersUntouched ==
    ASSUME SInv, NEW o \in Op, Moves(o), NEW p \in Op, p # o
    PROVE  /\ pc'[p] = pc[p] /\ base'[p] = base[p] /\ governed'[p] = governed[p]
           /\ target'[p] = target[p] /\ view'[p] = view[p] /\ result'[p] = result[p]
<1> TypeOK
  BY DEF SInv, IInv
<1>1. pc'[p] = pc[p] /\ base'[p] = base[p] /\ governed'[p] = governed[p]
      /\ target'[p] = target[p]
  BY OthersStep, OthersReviewed DEF SInv, Moves, Others
<1>2. view'[p] = view[p] /\ result'[p] = result[p]
  <2> USE DEF TypeOK, Goto, Keep, Return, ReturnUnlock, local
  <2>1. CASE Propose(o) \/ Begin(o)
    BY <2>1 DEF Propose, Begin
  <2>2. CASE Judge(o) \/ ReadPointer(o) \/ ReadWorld(o) \/ ListMemories(o)
    BY <2>2 DEF Judge, ReadPointer, ReadWorld, ListMemories
  <2>3. CASE ReadGoverned(o) \/ Navigate(o)
    BY <2>3 DEF ReadGoverned, Navigate
  <2>4. CASE LockGoverned(o) \/ LockLegacy(o) \/ LockTransaction(o) \/ Unlock(o)
    BY <2>4 DEF LockGoverned, LockLegacy, LockTransaction, Lock, Unlock
  <2>5. CASE Recheck(o) \/ PutMemory(o) \/ PutCatalog(o) \/ CompileLegacy(o) \/ Rebuild(o)
    BY <2>5 DEF Recheck, PutMemory, PutCatalog, CompileLegacy, Rebuild
  <2>6. CASE Load(o) \/ WriteEvent(o) \/ Snapshot(o) \/ Stage(o)
    BY <2>6 DEF Load, WriteEvent, Snapshot, Stage
  <2>7. CASE Switch(o) \/ SwitchNotSynced(o) \/ IOFails(o)
    BY <2>7 DEF Switch, SwitchNotSynced, IOFails
  <2> QED BY <2>1, <2>2, <2>3, <2>4, <2>5, <2>6, <2>7 DEF Moves, Step
<1> QED BY <1>1, <1>2

-----------------------------------------------------------------------------
(* One at a time. *)

(* Where a step takes the call that makes it. *)
LEMMA NextPlace ==
    ASSUME SInv, NEW o \in Op, OpKind(o), lock = o => Kind[o] # "recall", Moves(o)
    PROVE  OpKind(o)'
<1> TypeOK /\ OpSerial(o)
  BY DEF SInv, IInv
<1> USE WorldAssumption DEF TypeOK, OpKind, Goto, Keep, Return, ReturnUnlock, ApplyPC,
        Publishing
<1>1. CASE Propose(o)
  BY <1>1 DEF Propose
<1>2. CASE Begin(o)
  BY <1>2 DEF Begin
<1>3. CASE Judge(o) \/ ReadPointer(o) \/ ReadWorld(o) \/ ListMemories(o)
  <2>1. CASE Judge(o) \/ ReadPointer(o) \/ ListMemories(o)
    BY <2>1 DEF Judge, ReadPointer, ListMemories
  <2>2. CASE ReadWorld(o)
    <3>1. pc'[o] \in {"done", "listMemories"} /\ (Kind[o] = "recall" => pc'[o] = "done")
      BY <2>2 DEF ReadWorld
    <3>2. Kind[o] # "commit"
      BY <2>2 DEF ReadWorld
    <3> QED BY <3>1, <3>2
  <2> QED BY <1>3, <2>1, <2>2
<1>4. CASE ReadGoverned(o) \/ Navigate(o)
  <2>1. pc[o] \in {"readGoverned", "navigate"}
        /\ pc'[o] \in {"navigate", "done", "lockGoverned", "putMemory"}
    BY <1>4 DEF ReadGoverned, Navigate
  <2> QED BY <2>1
<1>5. CASE LockGoverned(o) \/ LockLegacy(o)
  BY <1>5 DEF LockGoverned, LockLegacy, Lock
<1>6. CASE LockTransaction(o) \/ Unlock(o)
  BY <1>6 DEF LockTransaction, Lock, Unlock
<1>7. CASE Recheck(o) \/ PutMemory(o) \/ PutCatalog(o) \/ CompileLegacy(o) \/ Rebuild(o)
  <2>1. /\ pc[o] \in {"recheck", "putMemory", "putCatalog", "compileLegacy", "rebuild"}
        /\ pc'[o] \in {"putMemory", "unlock", "done", "putCatalog", "rebuild", "lockLegacy",
                       "stage", "snapshot"}
    BY <1>7 DEF Recheck, PutMemory, PutCatalog, CompileLegacy, Rebuild
  <2> QED BY <2>1
<1>8. CASE Load(o) \/ WriteEvent(o)
  <2>1. pc[o] \in {"load", "writeEvent"} /\ pc'[o] \in {"unlock", "writeEvent", "snapshot"}
    BY <1>8 DEF Load, WriteEvent
  <2> QED BY <2>1
<1>9. CASE Snapshot(o) \/ Stage(o) \/ Switch(o) \/ SwitchNotSynced(o)
  <2>1. pc[o] \in {"snapshot", "stage", "switch"} /\ pc'[o] \in {"stage", "switch", "unlock"}
    BY <1>9 DEF Snapshot, Stage, Switch, SwitchNotSynced
  <2> QED BY <2>1
<1>10. CASE IOFails(o)
  <2>1. pc[o] \in Touching /\ pc'[o] = IF lock = o THEN "unlock" ELSE "done"
    BY <1>10 DEF IOFails
  <2>2. Kind[o] = "recall" => lock # o
    OBVIOUS
  <2> QED BY <2>1, <2>2
<1> QED BY <1>1, <1>2, <1>3, <1>4, <1>5, <1>6, <1>7, <1>8, <1>9, <1>10 DEF Moves, Step

LEMMA KindStep ==
    ASSUME PInv, NEW o \in Op, Moves(o), NEW p \in Op PROVE OpKind(p)'
<1>1. CASE p = o
  BY <1>1, NextPlace DEF PInv, Holding
<1>2. CASE p # o
  BY <1>2, OthersUntouched DEF PInv, OpKind
<1> QED BY <1>1, <1>2

(* Who begins finds nobody at work; who is at work stays or leaves. *)
LEMMA AloneStep ==
    ASSUME OneMutator, PInv, NEW o \in Op, Moves(o) PROVE Alone'
<1> TypeOK /\ OpKind(o)
  BY DEF PInv, SInv, IInv
<1>1. \A p \in Op \ {o} : p \in AtWork' <=> p \in AtWork
  BY OthersUntouched DEF AtWork, PInv
<1>2. CASE Begin(o) /\ Kind[o] # "recall"
  <2>1. AtWork = {}
    BY <1>2 DEF Begin, CoordinatorFree, AtWork, OneMutator
  <2> QED BY <1>1, <2>1 DEF Alone, AtWork
<1>3. CASE o \in AtWork \/ Kind[o] = "recall"
  BY <1>1, <1>3 DEF Alone, AtWork, PInv
<1>4. CASE pc[o] \in Waiting /\ ~Begin(o) /\ Kind[o] # "recall"
  <2>1. ~Step(o)
    BY <1>4 DEF Waiting, Step, Judge, ReadPointer, ReadWorld, ListMemories,
       ReadGoverned, Navigate, LockGoverned, LockLegacy, LockTransaction, Lock, Recheck,
       PutMemory, PutCatalog, CompileLegacy, Rebuild, Load, WriteEvent, Snapshot,
       Stage, Switch, SwitchNotSynced, IOFails, Touching, Unlock
  <2>2. Propose(o)
    BY <1>4, <2>1 DEF Moves
  <2>3. o \notin AtWork'
    BY <2>2 DEF Propose, Keep, Goto, AtWork, Waiting, TypeOK
  <2> QED BY <1>1, <2>3 DEF Alone, AtWork, PInv
<1> QED BY <1>2, <1>3, <1>4 DEF AtWork

(* The lock stays with the one on the way to a publication. *)
LEMMA HoldingStep ==
    ASSUME PInv, NEW o \in Op, Moves(o), NEW p \in Op, lock' = p PROVE Holding(p)'
<1> TypeOK /\ OpKind(o) /\ OpSerial(o) /\ OpFresh(o)
  BY DEF PInv, SInv, IInv
<1>1. CASE p # o
  <2>1. lock = p
    BY <1>1, LockStep, WorldAssumption DEF LockHandled, PInv
  <2> QED BY <1>1, <2>1, OthersUntouched DEF PInv, Holding
<1>2. CASE p = o /\ lock # o
  <2>1. LockGoverned(o) \/ LockLegacy(o) \/ LockTransaction(o)
    BY <1>2, WorldAssumption DEF Moves, Propose, Begin, Step, Judge, ReadPointer,
       ReadWorld, ListMemories, ReadGoverned, Navigate, Recheck, PutMemory, PutCatalog,
       CompileLegacy, Rebuild, Load, WriteEvent, Snapshot, Stage, Switch,
       SwitchNotSynced, IOFails, Unlock, Mutex!GiveUp
  <2>2. pc'[o] \in {"recheck", "compileLegacy", "load"} /\ Kind[o] # "recall"
    BY <1>2, <2>1, WorldAssumption DEF LockGoverned, LockLegacy, LockTransaction,
       Lock, Keep, Goto, TypeOK, OpKind
  <2> QED BY <1>2, <2>2 DEF Holding, Locked
<1>3. CASE p = o /\ lock = o
  <2> USE <1>3 DEF Goto, Keep, Return, ReturnUnlock, TypeOK, Holding, Locked, Publishing
  <2>1. Holding(o)
    BY DEF PInv
  <2>2. ~Propose(o) /\ ~Begin(o)
    BY <2>1 DEF Propose, Begin
  <2>3. CASE Judge(o) \/ ReadPointer(o) \/ ReadWorld(o) \/ ListMemories(o)
             \/ ReadGoverned(o) \/ Navigate(o)
    BY <2>1, <2>3 DEF Judge, ReadPointer, ReadWorld, ListMemories, ReadGoverned, Navigate
  <2>4. CASE LockGoverned(o) \/ LockLegacy(o) \/ LockTransaction(o) \/ Unlock(o)
    BY <2>1, <2>4, WorldAssumption DEF LockGoverned, LockLegacy, LockTransaction, Lock,
       Unlock, Mutex!GiveUp
  <2>5. CASE Recheck(o) \/ PutMemory(o) \/ PutCatalog(o) \/ CompileLegacy(o)
    BY <2>1, <2>5 DEF Recheck, PutMemory, PutCatalog, CompileLegacy, local, OpFresh
  <2>6. CASE Rebuild(o) \/ Load(o) \/ WriteEvent(o) \/ Snapshot(o)
    BY <2>1, <2>6 DEF Rebuild, Load, WriteEvent, Snapshot
  <2>7. CASE Stage(o) \/ Switch(o) \/ SwitchNotSynced(o) \/ IOFails(o)
    BY <2>1, <2>7 DEF Stage, Switch, SwitchNotSynced, IOFails
  <2> QED BY <2>2, <2>3, <2>4, <2>5, <2>6, <2>7 DEF Moves, Step
<1> QED BY <1>1, <1>2, <1>3

-----------------------------------------------------------------------------
(* What a mutation has read stays current. *)

LEMMA FreshOthers ==
    ASSUME PInv, NEW o \in Op, Moves(o), NEW p \in Op, p # o PROVE OpFresh(p)'
<1>1. CASE p \notin AtWork
  <2>1. Kind[p] = "recall" \/ pc[p] \in Waiting
    BY <1>1 DEF AtWork
  <2>2. pc'[p] = pc[p] /\ OpKind(p)
    BY OthersUntouched DEF PInv
  <2> QED BY <2>1, <2>2 DEF OpFresh, OpKind, Waiting, Based, Judged, Publishing
<1>2. CASE p \in AtWork
  <2>1. current' = current
    BY <1>2, PublisherAtWork DEF PInv, Alone
  <2> QED BY <2>1, OthersUntouched DEF PInv, OpFresh, Extends
<1> QED BY <1>1, <1>2

LEMMA FreshOwn ==
    ASSUME IOFaults = FALSE, PInv, TypeOK', NEW o \in Op, Moves(o) PROVE OpFresh(o)'
<1> TypeOK /\ OpFresh(o) /\ OpKind(o) /\ OpSerial(o)
  BY DEF PInv, SInv, IInv
<1> USE WorldAssumption DEF TypeOK, OpFresh, Goto, Keep, Return, ReturnUnlock, Based,
        Judged, Publishing, local, disk
<1>1. CASE Propose(o)
  BY <1>1 DEF Propose
<1>2. CASE Begin(o)
  <2>1. pc'[o] \in {"judge", "readPointer", "lockTransaction"}
    BY <1>2 DEF Begin
  <2> QED BY <2>1
<1>3. CASE Judge(o)
  BY <1>3 DEF Judge
<1>4. CASE ReadPointer(o)
  BY <1>4 DEF ReadPointer
<1>5. CASE ReadWorld(o)
  <2>1. UNCHANGED current /\ pc'[o] \in {"done", "listMemories"}
    BY <1>5 DEF ReadWorld
  <2>2. pc'[o] = "listMemories" =>
           base'[o] = IF current = None THEN NoCatalog ELSE current.catalog
    BY <1>5 DEF ReadWorld
  <2>3. pc'[o] = "listMemories" =>
           base'[o].refs = RefsOf(current) /\ (current # None => base'[o] = current.catalog)
    <3>1. CASE current = None
      BY ONLY <2>2, <3>1 DEF RefsOf, NoCatalog
    <3>2. CASE current # None
      BY ONLY <2>2, <3>2 DEF RefsOf
    <3> QED BY <3>1, <3>2
  <2> QED BY <2>1, <2>3 DEF RefsOf
<1>6. CASE ListMemories(o)
  BY <1>6 DEF ListMemories
<1>7. CASE ReadGoverned(o)
  <2>1. governed'[o] = IsGoverned(current) /\ pc'[o] \in {"done", "navigate"}
        /\ UNCHANGED <<current, base>> /\ pc[o] = "readGoverned"
    BY <1>7 DEF ReadGoverned
  <2> QED BY <2>1
<1>8. CASE Navigate(o)
  <2>1. /\ pc[o] = "navigate" /\ UNCHANGED <<current, base, governed>>
        /\ pc'[o] \in {"done", IF governed[o] THEN "lockGoverned" ELSE "putMemory"}
    BY <1>8 DEF Navigate
  <2> QED BY <2>1
<1>9. CASE LockGoverned(o)
  BY <1>9 DEF LockGoverned, Lock
<1>10. CASE LockLegacy(o)
  BY <1>10 DEF LockLegacy, Lock
<1>11. CASE LockTransaction(o) \/ Unlock(o)
  BY <1>11 DEF LockTransaction, Lock, Unlock
<1>12. CASE Recheck(o)
  <2>1. pc[o] = "recheck" /\ pc'[o] \in {"putMemory", "unlock"}
        /\ UNCHANGED <<current, base, governed>>
    BY <1>12 DEF Recheck
  <2> QED BY <2>1
<1>13. CASE PutMemory(o)
  <2>1. pc[o] = "putMemory" /\ pc'[o] \in {"putCatalog", "unlock", "done"}
        /\ UNCHANGED <<current, base, governed>>
    BY <1>13 DEF PutMemory
  <2> QED BY <2>1
<1>14. CASE PutCatalog(o)
  <2>1. /\ pc[o] = "putCatalog" /\ UNCHANGED <<current, base, governed>>
        /\ \/ governed[o] /\ pc'[o] = "rebuild"
           \/ ~governed[o] /\ pc'[o] = "lockLegacy"
    BY <1>14 DEF PutCatalog
  <2> QED BY <2>1
<1>15. CASE CompileLegacy(o)
  <2>1. /\ pc[o] = "compileLegacy" /\ pc'[o] = "stage" /\ UNCHANGED current
        /\ target'[o] = [kind |-> "legacy", catalog |-> NewCatalog(o), head |-> <<>>, by |-> o]
    BY <1>15 DEF CompileLegacy
  <2>2. ~IsGoverned(current) /\ Kind[o] = "consolidate" /\ base[o].refs = RefsOf(current)
    BY <2>1 DEF OpKind, OpSerial, ApplyPC
  <2>3. HeadOf(current) = <<>>
    BY <2>2 DEF HeadOf, PInv, IsGoverned, Generation
  <2>4. Extends(o, current, target'[o])
    BY <2>1, <2>2, <2>3 DEF Extends, NewCatalog
  <2> QED BY <2>1, <2>4
<1>16. CASE Rebuild(o)
  <2>1. /\ pc[o] = "rebuild" /\ pc'[o] \in {"snapshot", "unlock"} /\ UNCHANGED current
        /\ pc'[o] = "snapshot" =>
             /\ IsGoverned(current)
             /\ target'[o] = [kind |-> "governed", catalog |-> NewCatalog(o),
                              head |-> current.head, by |-> o]
    BY <1>16 DEF Rebuild
  <2>2. Kind[o] = "consolidate" /\ base[o].refs = RefsOf(current)
    BY <2>1 DEF OpKind, OpSerial, ApplyPC
  <2>3. pc'[o] = "snapshot" => Extends(o, current, target'[o])
    <3> SUFFICES ASSUME pc'[o] = "snapshot" PROVE Extends(o, current, target'[o])
      OBVIOUS
    <3>1. target'[o].kind = "governed" /\ target'[o].head = current.head
          /\ target'[o].catalog.refs = base[o].refs \cup {Subject[o]}
          /\ current # None
      BY <2>1 DEF NewCatalog, IsGoverned
    <3>2. target'[o] # None
      <4>1. OpReady(o)'
        BY OwnStep, GrowsStep DEF PInv, SInv, Moves, Next
      <4> QED BY <4>1 DEF OpReady
    <3> QED BY <2>2, <3>1, <3>2 DEF Extends, HeadOf, IsGoverned
  <2> QED BY <2>1, <2>3
<1>17. CASE Load(o)
  <2>1. /\ pc[o] = "load" /\ pc'[o] \in {"writeEvent", "unlock"} /\ UNCHANGED current
        /\ pc'[o] = "writeEvent" =>
             /\ current # None
             /\ target'[o] = [kind |-> "governed", catalog |-> current.catalog,
                              head |-> Append(current.head, o), by |-> o]
    BY <1>17 DEF Load
  <2>2. Kind[o] # "consolidate"
    BY <2>1 DEF OpKind
  <2>3. pc'[o] = "writeEvent" => Extends(o, current, target'[o])
    <3> SUFFICES ASSUME pc'[o] = "writeEvent" PROVE Extends(o, current, target'[o])
      OBVIOUS
    <3>1. target'[o].kind = "governed" /\ target'[o].head = Append(current.head, o)
          /\ target'[o].catalog.refs = current.catalog.refs /\ current # None
      BY <2>1
    <3>2. target'[o] # None
      <4>1. OpReady(o)'
        BY OwnStep, GrowsStep DEF PInv, SInv, Moves, Next
      <4> QED BY <4>1 DEF OpReady
    <3> QED BY <2>2, <3>1, <3>2 DEF Extends, HeadOf, IsGoverned, RefsOf
  <2> QED BY <2>1, <2>3
<1>18. CASE WriteEvent(o) \/ Snapshot(o)
  <2>1. /\ pc[o] \in {"writeEvent", "snapshot"} /\ pc'[o] \in {"snapshot", "stage"}
        /\ UNCHANGED <<current, target>>
        /\ pc'[o] = "stage" => view'[o] = current
    BY <1>18 DEF WriteEvent, Snapshot
  <2> QED BY <2>1 DEF Extends
<1>19. CASE Stage(o)
  <2>1. pc[o] = "stage" /\ pc'[o] = "switch" /\ UNCHANGED <<current, target, view>>
    BY <1>19 DEF Stage
  <2> QED BY <2>1 DEF Extends
<1>20. CASE Switch(o)
  <2>1. pc'[o] = "unlock"
    BY <1>20 DEF Switch
  <2> QED BY <2>1
<1>21. ~SwitchNotSynced(o) /\ ~IOFails(o)
  BY DEF SwitchNotSynced, IOFails
<1> QED BY <1>1, <1>2, <1>3, <1>4, <1>5, <1>6, <1>7, <1>8, <1>9, <1>10, <1>11, <1>12, <1>13,
           <1>14, <1>15, <1>16, <1>17, <1>18, <1>19, <1>20, <1>21 DEF Moves, Step

-----------------------------------------------------------------------------
(* What a call was told stays true. *)

LEMMA ToldStep ==
    ASSUME IOFaults = FALSE, PInv, TypeOK', NEW o \in Op, Moves(o), NEW p \in Op
    PROVE  Told(p)'
<1> TypeOK /\ Told(p) /\ OpReady(o)
  BY DEF PInv, SInv, IInv
<1>1. CASE result'[p] = result[p]
  BY <1>1, ServesMore DEF Told, Acked
<1>2. CASE result'[p] # result[p]
  <2>1. p = o
    BY <1>2, OthersUntouched DEF PInv
  <2> USE <2>1 DEF TypeOK, Goto, Keep, Return, ReturnUnlock
  <2>2. CASE Switch(o)
    <3>1. CASE result'[o] = "busy"
      BY <3>1 DEF Told, Acked
    <3>2. CASE result'[o] # "busy"
      <4>1. /\ current' = target[o] /\ pc[o] = "switch"
            /\ result'[o] = IF Kind[o] = "consolidate" THEN "created" ELSE "committed"
        BY <2>2, <3>2 DEF Switch
      <4>2. Extends(o, current, current') /\ current' # None
        BY <4>1 DEF PInv, OpFresh, OpReady, Publishing
      <4>3. HeadOf(current) \in Seq(Stamp) /\ o \in Stamp
        BY DEF HeadOf, Generation, Stamp
      <4>4. Kind[o] # "consolidate" => \E i \in DOMAIN HeadOf(current') : HeadOf(current')[i] = o
        <5> SUFFICES ASSUME Kind[o] # "consolidate"
                     PROVE  \E i \in DOMAIN HeadOf(current') : HeadOf(current')[i] = o
          OBVIOUS
        <5>1. HeadOf(current') = Append(HeadOf(current), o)
          BY <4>2 DEF Extends, HeadOf
        <5>2. /\ Len(HeadOf(current)) + 1 \in DOMAIN Append(HeadOf(current), o)
              /\ Append(HeadOf(current), o)[Len(HeadOf(current)) + 1] = o
          BY <4>3, AppendProperties
        <5> QED BY <5>1, <5>2
      <4>5. Kind[o] = "consolidate" => Subject[o] \in RefsOf(current')
        BY <4>2 DEF Extends, RefsOf
      <4> QED BY <4>1, <4>4, <4>5 DEF Told, Acked
    <3> QED BY <3>1, <3>2
  <2>3. CASE ReadGoverned(o)
    <3>1. pc[o] = "readGoverned" /\ UNCHANGED current
          /\ (result'[o] = "hidden_duplicate" => known[o])
          /\ result'[o] \in {"noop", "hidden_duplicate"}
      BY <1>2, <2>3 DEF ReadGoverned
    <3>2. result'[o] = "hidden_duplicate" => Subject[o] \in RefsOf(current)
      <4> SUFFICES ASSUME known[o] PROVE Subject[o] \in RefsOf(current)
        BY <3>1
      <4>1. memories[Subject[o]] # None /\ Subject[o] \in Memory
        BY WorldAssumption DEF OpReady
      <4>2. Reached(Subject[o]) /\ OpKind(o)
        BY <4>1 DEF PInv
      <4>3. Kind[o] # "recall"
        BY <3>1, <4>2 DEF OpKind
      <4>4. o \in AtWork
        BY <3>1, <4>3 DEF AtWork, Waiting
      <4> QED BY <3>1, <4>2, <4>3, <4>4 DEF Reached, PInv, Alone, Storing
    <3> QED BY <3>1, <3>2 DEF Told, Acked, RefsOf
  <2>4. CASE ~Switch(o) /\ ~ReadGoverned(o)
    <3>1. result'[o] \in Results \ {"created", "committed", "hidden_duplicate"}
      <4> USE <1>2, <2>4 DEF Results
      <4>1. CASE Propose(o) \/ Begin(o) \/ Judge(o) \/ ReadPointer(o) \/ ReadWorld(o)
        BY <4>1 DEF Propose, Begin, Judge, ReadPointer, ReadWorld
      <4>2. CASE ListMemories(o) \/ Navigate(o) \/ LockGoverned(o) \/ LockLegacy(o)
                 \/ LockTransaction(o) \/ Unlock(o)
        BY <4>2 DEF ListMemories, Navigate, LockGoverned, LockLegacy, LockTransaction, Lock,
           Unlock
      <4>3. CASE Recheck(o) \/ PutMemory(o) \/ PutCatalog(o) \/ CompileLegacy(o) \/ Rebuild(o)
        BY <4>3 DEF Recheck, PutMemory, PutCatalog, CompileLegacy, Rebuild
      <4>4. CASE Load(o) \/ WriteEvent(o) \/ Snapshot(o) \/ Stage(o)
        BY <4>4 DEF Load, WriteEvent, Snapshot, Stage
      <4>5. ~SwitchNotSynced(o) /\ ~IOFails(o)
        BY DEF SwitchNotSynced, IOFails
      <4> QED BY <4>1, <4>2, <4>3, <4>4, <4>5 DEF Moves, Step
    <3> QED BY <3>1 DEF Told, Acked
  <2> QED BY <2>2, <2>3, <2>4
<1> QED BY <1>1, <1>2

(* A memory that reached the disk reaches the catalog. *)
LEMMA ReachedStep ==
    ASSUME IOFaults = FALSE, PInv, TypeOK', NEW o \in Op, Moves(o), NEW m \in Memory,
           memories'[m] # None
    PROVE  Reached(m)'
<1> TypeOK /\ OpKind(o) /\ OpFresh(o) /\ OpReady(o) /\ OpSerial(o)
  BY DEF PInv, SInv, IInv
<1>1. CASE memories[m] = None
  <2>1. PutMemory(o)
    BY <1>1 DEF Moves, Propose, Begin, Step, Judge, ReadPointer, ReadWorld, ListMemories,
       ReadGoverned, Navigate, LockGoverned, LockLegacy, LockTransaction, Lock, Recheck,
       PutCatalog, CompileLegacy, Rebuild, Load, WriteEvent, Snapshot, Stage, Switch,
       SwitchNotSynced, IOFails, Unlock, disk
  <2>2. m = Subject[o] /\ pc'[o] = "putCatalog" /\ pc[o] = "putMemory"
    BY <1>1, <2>1 DEF PutMemory, TypeOK, Keep, Goto
  <2>3. Kind[o] = "consolidate"
    BY <2>2, WorldAssumption DEF OpKind, OpSerial, ApplyPC, Publishing
  <2> QED BY <2>2, <2>3 DEF Reached, AtWork, Storing, Waiting
<1>2. CASE m \in RefsOf(current)
  BY <1>2, ServesMore DEF Reached
<1>3. CASE \A q \in Op : Kind[q] # "recall" => pc[q] = "done"
  <2>1. Kind[o] = "recall"
    <3>1. pc[o] = "done" => ~Moves(o)
      BY DEF Moves, Propose, Begin, Step, Judge, ReadPointer, ReadWorld, ListMemories,
         ReadGoverned, Navigate, LockGoverned, LockLegacy, LockTransaction, Lock, Recheck,
         PutMemory, PutCatalog, CompileLegacy, Rebuild, Load, WriteEvent, Snapshot, Stage,
         Switch, SwitchNotSynced, IOFails, Touching, Unlock
    <3> QED BY <1>3, <3>1
  <2>2. \A q \in Op : Kind[q] # "recall" => pc'[q] = pc[q]
    BY <2>1, OthersUntouched DEF PInv
  <2> QED BY <1>3, <2>2 DEF Reached
<1>4. CASE \E q \in AtWork : pc[q] \in Storing /\ Kind[q] = "consolidate" /\ Subject[q] = m
  <2>1. PICK q \in AtWork : pc[q] \in Storing /\ Kind[q] = "consolidate" /\ Subject[q] = m
    BY <1>4
  <2>2. CASE o # q
    <3>1. pc'[q] = pc[q]
      BY <2>2, OthersUntouched DEF AtWork, PInv
    <3>2. q \in AtWork'
      BY <3>1 DEF AtWork
    <3> QED BY <2>1, <3>1, <3>2 DEF Reached
  <2>3. CASE o = q /\ pc'[o] \in Storing
    <3>1. o \in AtWork'
      BY <2>1, <2>3 DEF AtWork, Storing, Waiting
    <3> QED BY <2>1, <2>3, <3>1 DEF Reached
  <2>4. CASE o = q /\ pc'[o] \notin Storing
    <3>1. Switch(o)
      <4> USE <2>1, <2>4 DEF Storing, Keep, Goto, TypeOK
      <4>1. ~LockLegacy(o)
        <5>1. ASSUME LockLegacy(o) PROVE lock = None
          <6>1. pc[o] = "lockLegacy"
            BY <5>1 DEF LockLegacy, Lock
          <6>2. \A p \in Op : lock = p => Holding(p)
            BY DEF PInv
          <6>3. ASSUME NEW p \in Op, lock = p PROVE FALSE
            <7>1. Holding(p)
              BY <6>2, <6>3
            <7>2. p \in AtWork
              BY <7>1 DEF Holding, AtWork, Waiting, Locked, Publishing
            <7>3. p = o
              BY <7>2 DEF PInv, Alone
            <7> QED BY <6>1, <7>1, <7>3 DEF Holding, Locked, Publishing
          <6> QED BY <6>3
        <5>2. ASSUME LockLegacy(o) PROVE FALSE
          BY <5>1, <5>2 DEF LockLegacy, Lock
        <5> QED BY <5>2
      <4>2. ~Rebuild(o)
        BY DEF Rebuild, OpFresh, Judged
      <4>3. ~PutCatalog(o) /\ ~CompileLegacy(o) /\ ~Snapshot(o) /\ ~Stage(o)
        BY DEF PutCatalog, CompileLegacy, Snapshot, Stage
      <4>4. ~SwitchNotSynced(o) /\ ~IOFails(o)
        BY DEF SwitchNotSynced, IOFails
      <4>5. pc[o] \in Storing /\ o \in Op
        BY DEF AtWork
      <4> QED BY <4>1, <4>2, <4>3, <4>4, <4>5 DEF Moves, Propose, Begin, Step, Judge,
                 ReadPointer, ReadWorld, ListMemories, ReadGoverned, Navigate, LockGoverned,
                 LockTransaction, Lock, Recheck, PutMemory, Load, WriteEvent, Unlock
    <3>2. pc[o] = "switch" /\ current' = target[o]
      BY <3>1 DEF Switch, OpFresh
    <3>3. Extends(o, current, current') /\ current' # None
      BY <3>2 DEF OpFresh, OpReady, Publishing
    <3> QED BY <2>1, <2>4, <3>3 DEF Extends, RefsOf, Reached
  <2> QED BY <2>2, <2>3, <2>4
<1> QED BY <1>1, <1>2, <1>3, <1>4 DEF PInv, Reached

-----------------------------------------------------------------------------
(* The process of the mutations dies: nothing is mutated any more. *)
LEMMA CrashStep ==
    ASSUME OneMutator, PInv, SInv', NEW q \in Proc, Crash(q) PROVE PInv'
<1> TypeOK
  BY DEF PInv, SInv, IInv
<1> USE DEF TypeOK, local, disk
<1>1. /\ UNCHANGED <<current, memories, base, governed, target, view>>
      /\ \A p \in Op : pc'[p] = IF Home[p] = q THEN "done" ELSE pc[p]
      /\ \A p \in Op : result'[p] = result[p] \/ result'[p] = "crashed"
      /\ lock' = IF lock \in Op /\ Home[lock] = q THEN None ELSE lock
  BY DEF Crash
<1>2. AtWork' \subseteq AtWork
  BY <1>1 DEF AtWork, Waiting
<1>3. Alone'
  BY <1>2 DEF Alone, PInv
<1>4. ASSUME NEW p \in Op, lock' = p PROVE Holding(p)'
  <2>1. lock = p /\ pc'[p] = pc[p]
    BY <1>1, <1>4, WorldAssumption
  <2> QED BY <1>1, <2>1 DEF PInv, Holding
<1>5. ASSUME NEW p \in Op PROVE OpKind(p)' /\ OpFresh(p)' /\ Told(p)'
  <2>1. OpKind(p) /\ OpFresh(p) /\ Told(p)
    BY DEF PInv
  <2>2. pc'[p] = pc[p] \/ pc'[p] = "done"
    BY <1>1
  <2>3. OpKind(p)'
    BY <2>1, <2>2 DEF OpKind, ApplyPC
  <2>4. OpFresh(p)'
    BY <1>1, <2>1, <2>2 DEF OpFresh, Based, Judged, Publishing, Extends
  <2>5. Told(p)'
    BY <1>1, <2>1 DEF Told, Acked
  <2> QED BY <2>3, <2>4, <2>5
<1>6. ASSUME NEW m \in Memory, memories'[m] # None PROVE Reached(m)'
  <2>1. Reached(m)
    BY <1>1, <1>6 DEF PInv
  <2>2. CASE \E o \in AtWork : Home[o] = q
    <3>1. \A p \in Op : Kind[p] # "recall" => pc'[p] = "done"
      BY <1>1, <2>2 DEF OneMutator, AtWork
    <3> QED BY <3>1 DEF Reached
  <2>3. CASE \A o \in AtWork : Home[o] # q
    <3>1. \A o \in AtWork : pc'[o] = pc[o] /\ o \in AtWork'
      BY <1>1, <2>3 DEF AtWork
    <3>2. \A o \in Op : pc[o] = "done" => pc'[o] = "done"
      BY <1>1
    <3> QED BY <1>1, <2>1, <3>1, <3>2 DEF Reached
  <2> QED BY <2>2, <2>3
<1> QED BY <1>1, <1>3, <1>4, <1>5, <1>6 DEF PInv

LEMMA OneProcessStep ==
    ASSUME OneMutator, IOFaults = FALSE PROVE PInv /\ [Next]_vars => PInv'
<1> SUFFICES ASSUME PInv, [Next]_vars PROVE PInv'
  OBVIOUS
<1>1. SInv' /\ TypeOK'
  BY SerialStep DEF PInv, SInv, IInv
<1>2. ASSUME NEW o \in Op, Moves(o) PROVE PInv'
  <2>1. Alone' /\ \A p \in Op : lock' = p => Holding(p)'
    BY <1>2, AloneStep, HoldingStep
  <2>2. current' # None /\ current'.kind = "legacy" => current'.head = <<>>
    BY <1>2, PublisherAtWork DEF PInv, Extends
  <2>3. \A p \in Op : OpKind(p)' /\ OpFresh(p)' /\ Told(p)'
    BY <1>1, <1>2, KindStep, FreshOwn, FreshOthers, ToldStep
  <2>4. \A m \in Memory : memories'[m] # None => Reached(m)'
    BY <1>1, <1>2, ReachedStep
  <2> QED BY <1>1, <2>1, <2>2, <2>3, <2>4 DEF PInv
<1>3. ASSUME NEW q \in Proc, Crash(q) PROVE PInv'
  BY <1>1, <1>3, CrashStep
<1>4. CASE UNCHANGED vars
  <2> USE <1>4 DEF vars, disk, local
  <2>1. Alone' /\ \A p \in Op : lock' = p => Holding(p)'
    BY DEF PInv, Alone, AtWork, Holding
  <2>2. \A p \in Op : OpKind(p)' /\ OpFresh(p)' /\ Told(p)'
    BY DEF PInv, OpKind, OpFresh, Told, Acked, Extends
  <2>3. \A m \in Memory : memories'[m] # None => Reached(m)'
    BY DEF PInv, Reached, AtWork
  <2> QED BY <1>1, <2>1, <2>2, <2>3 DEF PInv
<1> QED BY <1>2, <1>3, <1>4 DEF Next, Moves

LEMMA InitPInv == Init => PInv
<1> SUFFICES ASSUME Init PROVE PInv
  OBVIOUS
<1>1. SInv /\ TypeOK
  BY InitIInv DEF SInv, IInv, Init, OpSerial, Locked, Publishing, ApplyPC
<1>2. AtWork = {} /\ lock = None /\ \A o \in Op : pc[o] = "idle" /\ result[o] = "none"
  BY DEF Init, AtWork, Waiting
<1>3. Alone /\ \A o \in Op : lock = o => Holding(o)
  BY <1>2, WorldAssumption DEF Alone
<1>4. \A o \in Op : OpKind(o) /\ OpFresh(o) /\ Told(o)
  BY <1>2 DEF OpKind, OpFresh, Told, Acked, Based, Judged, Publishing, ApplyPC
<1>5. current # None /\ current.kind = "legacy" => current.head = <<>>
  BY WorldAssumption DEF Init, SeedGeneration
<1>6. ASSUME NEW m \in Memory, memories[m] # None PROVE m \in RefsOf(current)
  <2>1. m = SeedMemory /\ current = SeedGeneration /\ SeedWorld # "empty"
    BY <1>6 DEF Init
  <2>2. current # None
    <3>1. current \in generations /\ generations \subseteq Generation
      BY <1>1, <2>1 DEF Init, TypeOK
    <3> QED BY <3>1, NoneNotGeneration
  <2> QED BY <2>1, <2>2 DEF RefsOf, SeedGeneration, SeedCatalog
<1> QED BY <1>1, <1>3, <1>4, <1>5, <1>6 DEF PInv, Reached

LEMMA OneProcessInductive ==
    ASSUME OneMutator, IOFaults = FALSE PROVE Spec => []PInv
BY InitPInv, OneProcessStep, PTL DEF Spec

(* When one process makes every mutation and its files can be read, a      *)
(* created memory stays in the catalog served and a committed event in the *)
(* chain, from whatever world it starts and whenever it dies: a memory     *)
(* that is lost (WorldLostMemory) takes two processes.                     *)
THEOREM OneProcessAcknowledged ==
    ASSUME OneMutator, IOFaults = FALSE PROVE Spec => []AcknowledgedServed
<1>1. PInv => AcknowledgedServed
  BY DEF PInv, Told, Acked, RefsOf, AcknowledgedServed
<1> QED BY <1>1, OneProcessInductive, PTL

(* "governance_hidden_duplicate" is said only of a memory that governance  *)
(* hides: one that is in the raw catalog.                                  *)
HiddenByGovernance ==
    \A o \in Op : result[o] = "hidden_duplicate" => Subject[o] \in current.catalog.refs

(* So it is under the same hypotheses: no duplicate is found of a memory   *)
(* that was stored and never published.                                    *)
THEOREM OneProcessHidden ==
    ASSUME OneMutator, IOFaults = FALSE PROVE Spec => []HiddenByGovernance
<1>1. PInv => HiddenByGovernance
  BY DEF PInv, Told, Acked, RefsOf, HiddenByGovernance
<1> QED BY <1>1, OneProcessInductive, PTL

LEMMA OneProcessServes ==
    ASSUME PInv, [Next]_vars, current' # current
    PROVE  /\ current' # None
           /\ IsGoverned(current) => IsGoverned(current')
           /\ \/ /\ HeadOf(current') = HeadOf(current)
                 /\ \E m \in Memory : RefsOf(current') = RefsOf(current) \cup {m}
              \/ /\ RefsOf(current') = RefsOf(current)
                 /\ \E o \in Op : HeadOf(current') = Append(HeadOf(current), o)
<1>1. PICK o \in Op : Moves(o)
  BY DEF Next, Moves, Crash, vars
<1>2. Extends(o, current, current') /\ current' # None
  BY <1>1, PublisherAtWork
<1> QED BY <1>2, WorldAssumption DEF Extends, HeadOf, RefsOf

(* Such a project never falls back to a legacy generation, and its chain   *)
(* grows by one event at a time.                                           *)
THEOREM OneProcessNeverBack ==
    ASSUME OneMutator, IOFaults = FALSE PROVE Spec => NeverBack
<1>1. ASSUME PInv, [Next]_vars
      PROVE  /\ IsGoverned(current) => IsGoverned(current')
             /\ \/ HeadOf(current') = HeadOf(current)
                \/ \E o \in Op : HeadOf(current') = Append(HeadOf(current), o)
  <2>1. CASE UNCHANGED current
    BY <2>1
  <2>2. CASE current' # current
    BY <1>1, <2>2, OneProcessServes
  <2> QED BY <2>1, <2>2
<1>2. PInv /\ [Next]_vars =>
        [/\ IsGoverned(current) => IsGoverned(current')
         /\ \/ HeadOf(current') = HeadOf(current)
            \/ \E o \in Op : HeadOf(current') = Append(HeadOf(current), o)]_vars
  BY <1>1
<1> QED BY <1>2, OneProcessInductive, PTL DEF Spec, NeverBack

(* It implements the append-only history, also while it is empty or legacy *)
(* and when its first governance event makes it a governed one.            *)
THEOREM OneProcessHistory ==
    ASSUME OneMutator, IOFaults = FALSE PROVE Spec => ImplementsHistory
<1>1. PInv /\ [Next]_vars => [History!Next]_(History!vars)
  <2> SUFFICES ASSUME PInv, [Next]_vars PROVE [History!Next]_(History!vars)
    OBVIOUS
  <2>1. CASE UNCHANGED current
    BY <2>1 DEF History!vars, HeadOf
  <2>2. CASE current' # current
    BY <2>2, OneProcessServes DEF RefsOf, Stamp, History!Next, History!AddMemory,
       History!AppendEvent
  <2> QED BY <2>1, <2>2
<1> QED BY <1>1, OneProcessInductive, PTL DEF Spec, ImplementsHistory

-----------------------------------------------------------------------------
(***************************************************************************)
(* Any number of processes on a governed project whose files can be read:  *)
(* a publication extends the generation it replaces, so what a call was    *)
(* told stays true.                                                        *)
(***************************************************************************)

(* What a call is about to publish holds what it was called for. *)
Carries(o) ==
    pc[o] \in Publishing =>
        IF Kind[o] = "consolidate" THEN Subject[o] \in target[o].catalog.refs
        ELSE \E i \in DOMAIN target[o].head : target[o].head[i] = o

AInv ==
    /\ GInv
    /\ \A o \in Op : /\ lock = o => Kind[o] # "recall"
                     /\ OpKind(o) /\ Carries(o) /\ Acked(o)

(* Who switches CURRENT extends the generation that it names. *)
LEMMA GovernedPublisher ==
    ASSUME GInv, NEW o \in Op, Moves(o), current' # current
    PROVE  /\ pc[o] = "switch" /\ current' = target[o]
           /\ current # None /\ current' # None
           /\ HistoryStep(current, current')
<1>1. current' = target[o] /\ pc[o] = "switch"
  BY SwitchHoldsLock DEF GInv
<1> QED BY <1>1 DEF GInv, SInv, IInv, OpReady, OpGoverned, IsGoverned, Publishing

LEMMA GovernedServesMore ==
    ASSUME GInv, NEW o \in Op, Moves(o)
    PROVE  /\ RefsOf(current) \subseteq RefsOf(current')
           /\ \A i \in DOMAIN HeadOf(current) :
                 i \in DOMAIN HeadOf(current') /\ HeadOf(current')[i] = HeadOf(current)[i]
<1>1. CASE UNCHANGED current
  BY <1>1
<1>2. CASE current' # current
  <2>1. HistoryStep(current, current') /\ current # None /\ current' # None
    BY <1>2, GovernedPublisher
  <2>2. current.head \in Seq(Stamp)
    BY <2>1 DEF GInv, SInv, IInv, TypeOK, Generation
  <2>3. \A e \in Stamp : \A i \in DOMAIN current.head :
           /\ i \in DOMAIN Append(current.head, e)
           /\ Append(current.head, e)[i] = current.head[i]
    BY <2>2, AppendProperties
  <2> QED BY <2>1, <2>3 DEF HistoryStep, RefsOf, HeadOf
<1> QED BY <1>1, <1>2

(* The compiler lock is taken by a mutation. *)
LEMMA MutatorLocks ==
    ASSUME AInv, NEW o \in Op, Moves(o), NEW p \in Op, lock' = p
    PROVE  Kind[p] # "recall"
<1>1. CASE lock = p
  BY <1>1 DEF AInv
<1>2. CASE lock # p
  <2>1. p = o /\ lock # o
    BY <1>2, LockStep, WorldAssumption DEF LockHandled, AInv, GInv
  <2>2. LockGoverned(o) \/ LockLegacy(o) \/ LockTransaction(o)
    BY <2>1, WorldAssumption DEF Moves, Propose, Begin, Step, Judge, ReadPointer,
       ReadWorld, ListMemories, ReadGoverned, Navigate, Recheck, PutMemory, PutCatalog,
       CompileLegacy, Rebuild, Load, WriteEvent, Snapshot, Stage, Switch,
       SwitchNotSynced, IOFails, Unlock, Mutex!GiveUp
  <2>3. pc[o] \in {"lockGoverned", "lockLegacy", "lockTransaction"}
    BY <2>2 DEF LockGoverned, LockLegacy, LockTransaction, Lock
  <2> QED BY <2>1, <2>3 DEF AInv, OpKind
<1> QED BY <1>1, <1>2

LEMMA CarriesStep ==
    ASSUME AInv, TypeOK', NEW o \in Op, Moves(o), NEW p \in Op PROVE Carries(p)'
<1> TypeOK /\ OpKind(o) /\ Carries(o) /\ OpSerial(o) /\ OpGoverned(o)
  BY DEF AInv, GInv, SInv, IInv
<1>1. CASE p # o
  <2>1. pc'[p] = pc[p] /\ target'[p] = target[p] /\ Carries(p)
    BY <1>1, OthersUntouched DEF AInv, GInv
  <2> QED BY <2>1 DEF Carries
<1>2. CASE p = o /\ pc'[o] \notin Publishing
  BY <1>2 DEF Carries
<1>3. CASE p = o /\ pc'[o] \in Publishing
  <2> USE <1>3 DEF TypeOK, Goto, Keep, Return, ReturnUnlock, Publishing
  <2>1. CASE WriteEvent(o) \/ Snapshot(o) \/ Stage(o)
    <3>1. pc[o] \in Publishing /\ target' = target
      BY <2>1 DEF WriteEvent, Snapshot, Stage, local
    <3> QED BY <3>1 DEF Carries
  <2>2. CASE Rebuild(o)
    <3>1. pc[o] = "rebuild" /\ target'[o].catalog.refs = base[o].refs \cup {Subject[o]}
      BY <2>2 DEF Rebuild, NewCatalog
    <3>2. Kind[o] = "consolidate"
      BY <3>1, WorldAssumption DEF OpKind, OpSerial, ApplyPC
    <3> QED BY <3>1, <3>2 DEF Carries
  <2>3. CASE Load(o)
    <3>1. /\ pc[o] = "load" /\ current # None
          /\ target'[o].head = Append(current.head, o)
      BY <2>3 DEF Load
    <3>2. Kind[o] # "consolidate"
      BY <3>1 DEF OpKind
    <3>3. current.head \in Seq(Stamp) /\ o \in Stamp
      BY <3>1 DEF Generation, Stamp
    <3>4. /\ Len(current.head) + 1 \in DOMAIN Append(current.head, o)
          /\ Append(current.head, o)[Len(current.head) + 1] = o
      BY <3>3, AppendProperties
    <3> QED BY <3>1, <3>2, <3>4 DEF Carries
  <2>4. CASE CompileLegacy(o)
    BY <2>4 DEF CompileLegacy, OpGoverned
  <2>5. CASE Propose(o) \/ Begin(o)
    BY <2>5 DEF Propose, Begin
  <2>6. CASE Judge(o) \/ ReadPointer(o) \/ ReadWorld(o) \/ ListMemories(o)
    BY <2>6 DEF Judge, ReadPointer, ReadWorld, ListMemories
  <2>7. CASE ReadGoverned(o) \/ Navigate(o) \/ Recheck(o) \/ PutMemory(o) \/ PutCatalog(o)
    <3>1. pc'[o] \in {"done", "navigate", "lockGoverned", "putMemory", "putCatalog",
                     "unlock", "rebuild", "lockLegacy"}
      <4>1. CASE ReadGoverned(o)
        BY <4>1 DEF ReadGoverned
      <4>2. CASE Navigate(o) \/ Recheck(o)
        BY <4>2 DEF Navigate, Recheck
      <4>3. CASE PutMemory(o) \/ PutCatalog(o)
        BY <4>3 DEF PutMemory, PutCatalog
      <4> QED BY <2>7, <4>1, <4>2, <4>3
    <3> QED BY <3>1
  <2>8. CASE LockGoverned(o) \/ LockLegacy(o) \/ LockTransaction(o) \/ Unlock(o)
    BY <2>8 DEF LockGoverned, LockLegacy, LockTransaction, Lock, Unlock
  <2>9. CASE Switch(o) \/ SwitchNotSynced(o) \/ IOFails(o)
    BY <2>9 DEF Switch, SwitchNotSynced, IOFails
  <2> QED BY <2>1, <2>2, <2>3, <2>4, <2>5, <2>6, <2>7, <2>8, <2>9 DEF Moves, Step
<1> QED BY <1>1, <1>2, <1>3

LEMMA AckedStep ==
    ASSUME AInv, TypeOK', NEW o \in Op, Moves(o), NEW p \in Op PROVE Acked(p)'
<1> TypeOK /\ Acked(p) /\ OpKind(o) /\ Carries(o)
  BY DEF AInv, GInv, SInv, IInv
<1>1. CASE result'[p] = result[p] \/ result'[p] \notin {"created", "committed"}
  BY <1>1, GovernedServesMore DEF Acked, AInv
<1>2. CASE result'[p] # result[p] /\ result'[p] \in {"created", "committed"}
  <2>1. p = o
    BY <1>2, OthersUntouched DEF AInv, GInv
  <2> USE <1>2, <2>1 DEF TypeOK, Goto, Keep, Return, ReturnUnlock
  <2>2. Switch(o)
    <3>1. CASE Propose(o) \/ Begin(o) \/ Judge(o) \/ ReadPointer(o) \/ ReadWorld(o)
      BY <3>1 DEF Propose, Begin, Judge, ReadPointer, ReadWorld
    <3>2. CASE ListMemories(o) \/ Navigate(o) \/ LockGoverned(o) \/ LockLegacy(o)
               \/ LockTransaction(o) \/ Unlock(o)
      BY <3>2 DEF ListMemories, Navigate, LockGoverned, LockLegacy, LockTransaction, Lock,
         Unlock
    <3>6. CASE ReadGoverned(o)
      <4>1. result'[o] \in {result[o], "noop", "hidden_duplicate"}
        BY <3>6 DEF ReadGoverned
      <4> QED BY <4>1
    <3>3. CASE Recheck(o) \/ PutMemory(o) \/ PutCatalog(o) \/ CompileLegacy(o) \/ Rebuild(o)
      BY <3>3 DEF Recheck, PutMemory, PutCatalog, CompileLegacy, Rebuild
    <3>4. CASE Load(o) \/ WriteEvent(o) \/ Snapshot(o) \/ Stage(o)
      BY <3>4 DEF Load, WriteEvent, Snapshot, Stage
    <3>5. CASE SwitchNotSynced(o) \/ IOFails(o)
      BY <3>5 DEF SwitchNotSynced, IOFails
    <3> QED BY <3>1, <3>2, <3>3, <3>4, <3>5, <3>6 DEF Moves, Step
  <2>3. /\ current' = target[o] /\ pc[o] = "switch"
        /\ result'[o] = IF Kind[o] = "consolidate" THEN "created" ELSE "committed"
    BY <2>2 DEF Switch
  <2>4. target[o] # None
    BY <2>3 DEF AInv, GInv, SInv, IInv, OpReady, Publishing
  <2>5. Kind[o] = "consolidate" => Subject[o] \in RefsOf(current')
    BY <2>3, <2>4 DEF Carries, RefsOf, Publishing
  <2>6. Kind[o] # "consolidate" => \E i \in DOMAIN HeadOf(current') : HeadOf(current')[i] = o
    BY <2>3, <2>4 DEF Carries, HeadOf, Publishing
  <2> QED BY <2>3, <2>5, <2>6 DEF Acked
<1> QED BY <1>1, <1>2

LEMMA GovernedAckStep ==
    ASSUME IOFaults = FALSE PROVE AInv /\ [Next]_vars => AInv'
<1> SUFFICES ASSUME AInv, [Next]_vars PROVE AInv'
  OBVIOUS
<1>1. GInv' /\ TypeOK'
  BY GovernedStep DEF AInv, GInv, SInv, IInv
<1>2. ASSUME NEW o \in Op, Moves(o) PROVE AInv'
  <2>1. \A p \in Op : (lock' = p => Kind[p] # "recall")
    BY <1>2, MutatorLocks
  <2>2. \A p \in Op : Carries(p)' /\ Acked(p)'
    BY <1>1, <1>2, CarriesStep, AckedStep
  <2>3. ASSUME NEW p \in Op PROVE OpKind(p)'
    <3>1. CASE p = o
      BY <1>2, <3>1, NextPlace DEF AInv, GInv
    <3>2. CASE p # o
      BY <1>2, <3>2, OthersUntouched DEF AInv, GInv, OpKind
    <3> QED BY <3>1, <3>2
  <2> QED BY <1>1, <2>1, <2>2, <2>3 DEF AInv
<1>3. ASSUME NEW q \in Proc, Crash(q) PROVE AInv'
  <2>1. /\ UNCHANGED <<current, target>>
        /\ \A p \in Op : pc'[p] = pc[p] \/ pc'[p] = "done"
        /\ \A p \in Op : result'[p] = result[p] \/ result'[p] = "crashed"
        /\ lock' = lock \/ lock' = None
    BY <1>3 DEF AInv, GInv, SInv, IInv, TypeOK, Crash, local
  <2>2. \A p \in Op : (lock' = p => Kind[p] # "recall")
    BY <2>1, WorldAssumption DEF AInv
  <2>3. ASSUME NEW p \in Op PROVE OpKind(p)' /\ Carries(p)' /\ Acked(p)'
    <3>1. OpKind(p) /\ Carries(p) /\ Acked(p)
      BY DEF AInv
    <3>2. OpKind(p)'
      BY <2>1, <3>1 DEF OpKind, ApplyPC
    <3>3. Carries(p)'
      BY <2>1, <3>1 DEF Carries, Publishing
    <3>4. Acked(p)'
      BY <2>1, <3>1 DEF Acked
    <3> QED BY <3>2, <3>3, <3>4
  <2> QED BY <1>1, <2>2, <2>3 DEF AInv
<1>4. CASE UNCHANGED vars
  BY <1>1, <1>4 DEF AInv, OpKind, Carries, Acked, vars, local
<1> QED BY <1>2, <1>3, <1>4 DEF Next, Moves

LEMMA GovernedInductive ==
    ASSUME SeedWorld = "governed", IOFaults = FALSE PROVE Spec => []AInv
<1>1. Init => AInv
  <2> SUFFICES ASSUME Init PROVE AInv
    OBVIOUS
  <2>1. GInv
    BY GovernedInit
  <2>2. lock = None /\ \A o \in Op : pc[o] = "idle" /\ result[o] = "none"
    BY DEF Init
  <2> QED BY <2>1, <2>2, WorldAssumption DEF AInv, OpKind, Carries, Acked, ApplyPC, Publishing
<1> QED BY <1>1, GovernedAckStep, PTL DEF Spec

(* In a project that is governed and whose files can be read, what any     *)
(* process has acknowledged stays in force, whoever publishes and whoever  *)
(* crashes.                                                                *)
THEOREM GovernedAcknowledged ==
    ASSUME SeedWorld = "governed", IOFaults = FALSE PROVE Spec => []AcknowledgedServed
<1>1. AInv => AcknowledgedServed
  BY DEF AInv, GInv, IsGoverned, Acked, RefsOf, AcknowledgedServed
<1> QED BY <1>1, GovernedInductive, PTL

(* Such a project stays governed and its chain grows by one event at a     *)
(* time: the event of the call that switches CURRENT.                      *)
THEOREM GovernedNeverBack ==
    ASSUME SeedWorld = "governed", IOFaults = FALSE PROVE Spec => NeverBack
<1>1. ASSUME AInv, AInv', [Next]_vars
      PROVE  /\ IsGoverned(current) => IsGoverned(current')
             /\ \/ HeadOf(current') = HeadOf(current)
                \/ \E o \in Op : HeadOf(current') = Append(HeadOf(current), o)
  <2>1. CASE UNCHANGED current
    BY <2>1
  <2>2. CASE current' # current
    <3>1. PICK o \in Op : Moves(o)
      BY <1>1, <2>2 DEF Next, Moves, Crash, vars
    <3>2. /\ pc[o] = "switch" /\ current' = target[o]
          /\ current # None /\ current' # None /\ HistoryStep(current, current')
      BY <1>1, <2>2, <3>1, GovernedPublisher DEF AInv
    <3>3. IsGoverned(current')
      BY <1>1 DEF AInv, GInv
    <3>4. HeadOf(current') = HeadOf(current)
          \/ \E p \in Op : HeadOf(current') = Append(HeadOf(current), p)
      BY <3>2 DEF HistoryStep, HeadOf
    <3> QED BY <3>3, <3>4
  <2> QED BY <2>1, <2>2
<1>2. AInv /\ AInv' /\ [Next]_vars =>
        [/\ IsGoverned(current) => IsGoverned(current')
         /\ \/ HeadOf(current') = HeadOf(current)
            \/ \E o \in Op : HeadOf(current') = Append(HeadOf(current), o)]_vars
  BY <1>1
<1> QED BY <1>2, GovernedInductive, PTL DEF Spec, NeverBack
=============================================================================
