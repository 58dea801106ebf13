--------------------------- MODULE FactStoreProofs ---------------------------
(***************************************************************************)
(* For any writers, facts, failures, deaths and losses of power: a fact    *)
(* published at a path is never torn nor replaced, one acknowledged as     *)
(* created stays for as long as the directory of its path, and the other   *)
(* answers are true.                                                       *)
(***************************************************************************)
EXTENDS FactStore, TLAPS

(* What a call has done when it stands at a label: the temporary file is   *)
(* there from its creation to its unlinking, full after the write, synced  *)
(* after the sync, and the path names the call's fact after the link.      *)
Progress ==
    \A w \in Writer :
        /\ pc[w] \in {"write", "sync", "link"} => temp[w] # None
        /\ pc[w] \in {"sync", "link"} => temp[w].data = want[w]
        /\ pc[w] = "link" => temp[w].synced
        /\ pc[w] \in {"dirsync", "unlink", "readback"} =>
              target # None /\ target.data = want[w] /\ target.synced
        /\ pc[w] \in {"unlink", "readback"} => (syncs => entrySynced)
        /\ pc[w] \in {"create", "write", "sync", "link"} => directory # "missing"
        /\ pc[w] # "idle" => result[w] = "none"

(* What is published was synced before its link, is whole, and lies in a   *)
(* directory that is there; what was acknowledged has an entry on disk.    *)
Whole ==
    /\ target # None => target.data # Torn /\ target.synced /\ directory # "missing"
    /\ entrySynced => target # None
    /\ syncs /\ acked # {} => entrySynced

IInv == TypeOK /\ Progress /\ Whole /\ CreatedIsDurable /\ AnswersAreTrue

(* Nothing is written, and no call has answered, at the start. *)
LEMMA InitInv == Init => IInv
<1> SUFFICES ASSUME Init PROVE IInv
  OBVIOUS
<1> USE DEF Init
<1>1. TypeOK
  BY BoundAssumption DEF TypeOK, PC, File
<1>2. Progress
  BY DEF Progress
<1>3. Whole /\ CreatedIsDurable /\ AnswersAreTrue
  BY DEF Whole, CreatedIsDurable, AnswersAreTrue
<1> QED
  BY <1>1, <1>2, <1>3 DEF IInv

(* A writer's own step keeps the invariant. *)
LEMMA WriterStep ==
    ASSUME IInv, NEW w \in Writer, Begin(w) \/ Step(w) \/ Fail(w) \/ Crash(w)
    PROVE  IInv'
<1> USE ContentAssumption, BoundAssumption
    DEF IInv, TypeOK, Progress, Whole, CreatedIsDurable, AnswersAreTrue, PC, File,
        Goto, Settle, Verdict, place
<1>1. CASE Begin(w)
  BY <1>1, SMT DEF Begin
<1>2. CASE ReadExisting(w)
  BY <1>2, SMT DEF ReadExisting
<1>13. CASE MakeDirectories(w)
  <2>1. /\ pc' = [pc EXCEPT ![w] = "create"] /\ directory' # "missing"
        /\ directory' \in {"missing", "made", "kept"} /\ pc[w] = "mkdir"
        /\ UNCHANGED <<want, result, temp, syncs, target, entrySynced, acked, calls, outages>>
    BY <1>13 DEF MakeDirectories
  <2> QED
    BY <2>1
<1>3. CASE CreateTemp(w)
  <2>1. temp' = [temp EXCEPT ![w] = [data |-> Torn, synced |-> FALSE]]
    BY <1>3 DEF CreateTemp
  <2>2. [data |-> Torn, synced |-> FALSE] \in File
    OBVIOUS
  <2>3. TypeOK'
    BY <1>3, <2>1, <2>2 DEF CreateTemp
  <2>5. temp \in [Writer -> File \cup {None}]
    OBVIOUS
  <2>6. [data |-> Torn, synced |-> FALSE] # None
    BY <2>2
  <2>4. temp'[w] # None /\ \A v \in Writer \ {w} : temp'[v] = temp[v]
    BY ONLY <2>1, <2>5, <2>6
  <2> QED
    BY <1>3, <2>3, <2>4 DEF CreateTemp
<1>4. CASE WriteTemp(w)
  BY <1>4, SMT DEF WriteTemp
<1>5. CASE SyncTemp(w)
  <2>1. temp' = [temp EXCEPT ![w].synced = TRUE] /\ temp[w] \in File
    BY <1>5 DEF SyncTemp
  <2>2. /\ temp'[w] \in File /\ temp'[w].data = temp[w].data /\ temp'[w].synced
        /\ \A v \in Writer \ {w} : temp'[v] = temp[v]
    <3>1. temp \in [Writer -> File \cup {None}]
      OBVIOUS
    <3> QED
      BY ONLY <2>1, <3>1 DEF File
  <2>3. temp' \in [Writer -> File \cup {None}]
    BY <2>1, <2>2
  <2>4. TypeOK'
    BY <1>5, <2>3 DEF SyncTemp
  <2>5. UNCHANGED <<want, result, place>> /\ pc' = [pc EXCEPT ![w] = "link"]
    BY <1>5 DEF SyncTemp
  <2>6. Progress'
    <3> SUFFICES ASSUME NEW v \in Writer PROVE Progress!(v)'
      BY DEF Progress
    <3>1. CASE v = w
      <4>1. /\ pc'[w] = "link" /\ temp[w].data = want[w] /\ result[w] = "none"
            /\ want' = want /\ result' = result /\ directory' = directory
            /\ directory # "missing"
        BY <1>5, <2>5 DEF SyncTemp, place
      <4>2. temp'[w] # None
        BY ONLY <2>2, ContentAssumption DEF File
      <4> QED
        BY ONLY <2>2, <3>1, <4>1, <4>2 DEF Progress
    <3>2. CASE v # w
      BY <2>2, <2>5, <3>2
    <3> QED
      BY <3>1, <3>2
  <2>7. (Whole /\ CreatedIsDurable /\ AnswersAreTrue)'
    BY <2>5
  <2> QED
    BY <2>4, <2>6, <2>7
<1>6. CASE Link(w)
  <2>1. CASE target = None
    <3>1. /\ target' = temp[w] /\ temp[w] \in File
          /\ temp[w].data = want[w] /\ temp[w].synced
      BY <1>6, <2>1 DEF Link
    <3>2. TypeOK'
      <4>1. pc' = [pc EXCEPT ![w] = "dirsync"] /\ entrySynced' = FALSE
            /\ UNCHANGED <<want, result, temp, directory, syncs, acked, calls, outages>>
        BY <1>6, <2>1 DEF Link
      <4>2. pc' \in [Writer -> PC]
        BY <4>1
      <4>3. target' \in File \cup {None}
        BY ONLY <3>1
      <4>4. TypeOK
        OBVIOUS
      <4> QED
        BY ONLY <4>1, <4>2, <4>3, <4>4 DEF TypeOK
    <3>3. /\ \A v \in Writer : result[v] \notin {"noop", "conflict"}
          /\ syncs => acked = {}
      BY <2>1
    <3>4. /\ pc' = [pc EXCEPT ![w] = "dirsync"] /\ entrySynced' = FALSE
          /\ UNCHANGED <<want, result, temp, directory, syncs, acked, calls, outages>>
          /\ target' # None /\ target'.data # Torn /\ pc[w] = "link"
          /\ directory # "missing" /\ target'.data = want[w] /\ target'.synced
      BY <1>6, <2>1, <3>1 DEF Link
    <3>5. Progress'
      <4>1. Progress /\ pc \in [Writer -> PC] /\ want \in [Writer -> Content]
        OBVIOUS
      <4>2. \A v \in Writer : pc[v] \notin {"dirsync", "unlink", "readback"}
        BY <2>1
      <4> QED
        BY ONLY <3>4, <4>1, <4>2 DEF Progress
    <3>6. Whole'
      BY ONLY <3>3, <3>4 DEF Whole
    <3>7. (CreatedIsDurable /\ AnswersAreTrue)'
      <4>1. AnswersAreTrue
        OBVIOUS
      <4> QED
        BY ONLY <3>3, <3>4, <4>1 DEF CreatedIsDurable, AnswersAreTrue
    <3> QED
      BY ONLY <3>2, <3>5, <3>6, <3>7 DEF IInv
  <2>2. CASE target # None
    BY <1>6, <2>2 DEF Link
  <2> QED
    BY <2>1, <2>2
<1>7. CASE ReadWinner(w)
  BY <1>7, SMT DEF ReadWinner
<1>8. CASE SyncEntry(w)
  <2>1. /\ entrySynced' \in BOOLEAN /\ (entrySynced => entrySynced') /\ (syncs => entrySynced')
        /\ pc' = [pc EXCEPT ![w] = "unlink"] /\ pc[w] = "dirsync"
        /\ UNCHANGED <<want, result, temp, directory, syncs, target, acked, calls, outages>>
    BY <1>8 DEF SyncEntry
  <2>2. IInv
    OBVIOUS
  <2> QED
    BY ONLY <2>1, <2>2
<1>9. CASE UnlinkTemp(w)
  BY <1>9, SMT DEF UnlinkTemp
<1>10. CASE ReadBack(w)
  BY <1>10, SMT DEF ReadBack
<1>11. CASE Fail(w)
  BY <1>11, SMT DEF Fail
<1>12. CASE Crash(w)
  BY <1>12, SMT DEF Crash
<1> QED
  BY <1>1, <1>2, <1>3, <1>4, <1>5, <1>6, <1>7, <1>8, <1>9, <1>10, <1>11, <1>12, <1>13
  DEF Step

(* A loss of power keeps it: what was published had been synced. *)
LEMMA OutageStep == IInv /\ Outage => IInv'
<1> SUFFICES ASSUME IInv, Outage PROVE IInv'
  OBVIOUS
<1>1. \A w \in Writer : pc'[w] = "idle" /\ result'[w] = "none" /\ temp'[w] = None
  BY DEF Outage
<1> USE ContentAssumption DEF IInv, TypeOK, Whole, Outage
<1>2. \/ target' = None /\ entrySynced' = FALSE /\ (syncs => acked' = {})
      \/ target' = [data |-> target.data, synced |-> TRUE] /\ entrySynced' = TRUE
         /\ target \in File /\ target.data # Torn /\ acked' = acked /\ directory' # "missing"
  OBVIOUS
<1>11. /\ directory' \in {"missing", "made", "kept"} /\ syncs' = syncs /\ syncs \in BOOLEAN
       /\ acked' \subseteq Content
  OBVIOUS
<1>3. target' \in File \cup {None}
  BY <1>2 DEF File
<1>7. /\ pc' \in [Writer -> PC] /\ temp' \in [Writer -> File \cup {None}]
      /\ result' \in [Writer -> {"none", "created", "noop", "conflict", "corrupt", "failed"}]
  BY DEF PC
<1>8. entrySynced' \in BOOLEAN
  BY <1>2
<1>9. outages' \in Nat /\ want' = want /\ calls' = calls
  BY BoundAssumption
<1>10. want \in [Writer -> Content] /\ calls \in [Writer -> Nat]
  OBVIOUS
<1>6. TypeOK'
  BY <1>3, <1>7, <1>8, <1>9, <1>10, <1>11
<1>4. Whole'
  <2>1. CASE target' = None /\ entrySynced' = FALSE /\ (syncs => acked' = {})
    BY ONLY <2>1, <1>11 DEF Whole
  <2>2. CASE /\ target' = [data |-> target.data, synced |-> TRUE] /\ entrySynced' = TRUE
             /\ target \in File /\ target.data # Torn /\ directory' # "missing"
    <3>1. target'.data # Torn /\ target'.synced /\ target' \in File
      BY <2>2 DEF File
    <3>2. target' # None
      BY <3>1 DEF File
    <3> QED
      BY ONLY <3>1, <3>2, <2>2 DEF Whole
  <2> QED
    BY <1>2, <2>1, <2>2
<1>5. (Progress /\ AnswersAreTrue)'
  BY <1>1, <1>4 DEF Progress, AnswersAreTrue
<1>12. CreatedIsDurable'
  <2>1. CASE target' = None /\ entrySynced' = FALSE /\ (syncs => acked' = {})
    BY ONLY <2>1, <1>11 DEF CreatedIsDurable
  <2>2. CASE /\ target' = [data |-> target.data, synced |-> TRUE]
             /\ target \in File /\ acked' = acked
    <3>1. target'.data = target.data /\ target' \in File
      BY <2>2 DEF File
    <3>2. target' # None
      BY <3>1 DEF File
    <3>3. syncs' => \A c \in acked' : target.data = c
      BY <2>2, <1>11 DEF CreatedIsDurable
    <3> QED
      BY ONLY <3>1, <3>2, <3>3 DEF CreatedIsDurable
  <2> QED
    BY <1>2, <2>1, <2>2
<1> QED
  BY <1>6, <1>4, <1>5, <1>12

LEMMA NextInv == IInv /\ [Next]_vars => IInv'
<1> SUFFICES ASSUME IInv, [Next]_vars PROVE IInv'
  OBVIOUS
<1>1. CASE Next
  BY <1>1, WriterStep, OutageStep DEF Next
<1>2. CASE UNCHANGED vars
  BY <1>2 DEF vars, place, IInv, TypeOK, Progress, Whole, CreatedIsDurable, AnswersAreTrue
<1> QED
  BY <1>1, <1>2

(* No step replaces a published fact, or takes one whose entry is synced   *)
(* and whose directory stays.                                              *)
LEMMA NextPublished ==
    ASSUME IInv, Next
    PROVE  /\ target # None /\ target' # None => target'.data = target.data
           /\ entrySynced /\ directory' # "missing" => entrySynced' /\ target' # None
           /\ entrySynced /\ directory = "kept" => target' # None
<1> USE DEF IInv, TypeOK, Whole
<1>1. CASE Outage
  BY <1>1, ContentAssumption DEF Outage, File
<1>2. ASSUME NEW w \in Writer, Link(w)
      PROVE  /\ target # None /\ target' # None => target'.data = target.data
             /\ entrySynced => entrySynced' /\ target' # None
  BY <1>2 DEF Link
<1>3. ASSUME NEW w \in Writer, SyncEntry(w)
      PROVE  /\ target # None /\ target' # None => target'.data = target.data
             /\ entrySynced => entrySynced' /\ target' # None
  BY <1>3 DEF SyncEntry
<1>4. ASSUME NEW w \in Writer, Begin(w) \/ Step(w) \/ Fail(w) \/ Crash(w),
             ~Link(w), ~SyncEntry(w)
      PROVE  target' = target /\ entrySynced' = entrySynced
  BY <1>4 DEF place, Begin, Step, Fail, Crash, ReadExisting, MakeDirectories, CreateTemp, WriteTemp, SyncTemp,
              ReadWinner, UnlinkTemp, ReadBack
<1> QED
  BY <1>1, <1>2, <1>3, <1>4 DEF Next

(* Every reachable state is typed. *)
THEOREM Typed == Spec => []TypeOK
<1>1. IInv => TypeOK
  BY DEF IInv
<1> QED
  BY InitInv, NextInv, <1>1, PTL DEF Spec

(* Where directories can be synced, a fact acknowledged as created stays   *)
(* as long as the directory of its path does, whatever fails, dies or      *)
(* loses power, for any number of racing writers.                          *)
THEOREM Durable == Spec => []CreatedIsDurable
<1>1. IInv => CreatedIsDurable
  BY DEF IInv
<1> QED
  BY InitInv, NextInv, <1>1, PTL DEF Spec

(* No torn file is ever at the path, and "noop" and "conflict" are true.   *)
THEOREM Truthful == Spec => []AnswersAreTrue
<1>1. IInv => AnswersAreTrue
  BY DEF IInv
<1> QED
  BY InitInv, NextInv, <1>1, PTL DEF Spec

(* A published fact is never replaced, and one whose entry is synced is    *)
(* lost only with a directory made since the last start of the machine.    *)
THEOREM Published == Spec => PublishedForEver
<1>1. IInv /\ [Next]_vars =>
        [ /\ target # None /\ target' # None => target'.data = target.data
          /\ entrySynced /\ directory' # "missing" => entrySynced' /\ target' # None
          /\ entrySynced /\ directory = "kept" => target' # None ]_vars
  BY NextPublished
<1> QED
  BY InitInv, NextInv, <1>1, PTL DEF Spec, PublishedForEver
=============================================================================
