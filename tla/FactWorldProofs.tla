-------------------------- MODULE FactWorldProofs ---------------------------
(***************************************************************************)
(* For any calls, sessions, processes and work, and whatever fails or dies:*)
(* CURRENT verifies and is what the calls have been answered, disclosures  *)
(* can be opened, and a list is of one instant.                            *)
(***************************************************************************)
EXTENDS FactRetrieval, TLAPS

-----------------------------------------------------------------------------
(* Where a call is.                                                        *)
InLock(c)    == pc[c] \in {"readShort", "readLong", "readForget", "stage", "describe", "manifest",
                           "rename", "verify", "switch", "release"}
Compiles(c)  == pc[c] \in {"stage", "describe", "manifest", "rename", "verify", "switch", "release"}
Past(c)      == pc[c] = "lock" \/ InLock(c) \/ result[c] = "ok"

(* A call that has begun keeps its task, one that has ended its result.    *)
Begun ==
    \A c \in Call :
        /\ pc[c] # "idle" => task[c] \in Task
        /\ c \in short => pc[c] # "idle"
        /\ result[c] # "none" => pc[c] = "done"
        /\ pc[c] \in {"listShort", "listLong", "put"} => task[c].kind = "remember"
        /\ pc[c] \in {"getSource", "putLong"} => task[c].kind = "promote"
        /\ pc[c] \in {"getTarget", "putForget"} => task[c].kind = "forget"

Stored(ref) == IF ref[1] = "short_term" THEN ref[2] \in short ELSE ref[2] \in long

(* What a call wants is in the store before it compiles.                   *)
Placed(c) ==
    /\ task[c].kind = "remember" => Stored(Remembered(c))
    /\ task[c].kind = "promote" => Target(c) \in long
    /\ task[c].kind = "forget" => task[c].target \in forgotten

Prepared ==
    \A c \in Call :
        /\ pc[c] \in {"idle", "listShort", "put"} => match[c] = None
        /\ match[c] # None => Stored(match[c])
        /\ pc[c] = "putLong" => Target(c) \in short
        /\ pc[c] = "putForget" => Stored(task[c].target)
        /\ Past(c) => Placed(c)

(* One call at a time compiles; its generation resolves, and is in force   *)
(* when it releases the lock.                                              *)
Compiling ==
    \A c \in Call :
        /\ InLock(c) <=> lock = c
        /\ snap[c].short \subseteq short /\ snap[c].long \subseteq long
        /\ Compiles(c) => next[c] \in Generation /\ Resolves(next[c])
        /\ pc[c] \in {"rename", "verify", "switch"} => next[c] \in manifests
        /\ pc[c] \in {"verify", "switch"} => next[c] \in generations
        /\ pc[c] = "release" => current = next[c] /\ current # None

Whole == Closed(short, long, forgotten) /\ (current # None => Verifies(current))

(* The facts a call has been, or is about to be, answered for.             *)
KnowsShort(c, m) == task[c].kind = "remember" /\ Remembered(c) = <<"short_term", m>>
KnowsLong(c, m) ==
    \/ task[c].kind = "remember" /\ Remembered(c) = <<"long_term", m>>
    \/ task[c].kind = "promote" /\ Target(c) = m

Counts(c) == result[c] = "ok" \/ lock = c

(* The call that compiles has read them, or will.                          *)
Covers ==
    \A d \in Call, c \in Call, m \in Call : lock = d /\ Counts(c) =>
        /\ pc[d] = "readShort" /\ KnowsShort(c, m)
             => SessionOf[m] \in snap[d].left \/ m \in snap[d].short
        /\ pc[d] \in {"readLong", "readForget"} /\ KnowsShort(c, m) => m \in snap[d].short
        /\ pc[d] = "readForget" /\ KnowsLong(c, m) => m \in snap[d].long

(* Generation g is what call c has been answered.                          *)
Fits(g, c) ==
    /\ task[c].kind = "remember" =>
          \/ Serves(g, Remembered(c)) \/ Remembered(c) \in forgotten
          \/ /\ Remembered(c)[1] = "short_term"
             /\ Remembered(c)[2] \in long \/ g.at >= ExpiresAt(Remembered(c)[2])
    /\ task[c].kind = "promote" =>
          /\ Serves(g, <<"long_term", Target(c)>>) \/ <<"long_term", Target(c)>> \in forgotten
          /\ ~Serves(g, <<"short_term", Target(c)>>)
    /\ task[c].kind = "forget" => ~Serves(g, task[c].target)

Serving ==
    /\ \A c \in Call : result[c] = "ok" => current # None /\ Fits(current, c)
    /\ \A d \in Call, c \in Call : Compiles(d) /\ Counts(c) => Fits(next[d], c)

IInv == TypeOK /\ Begun /\ Prepared /\ Compiling /\ Whole /\ Covers /\ Serving

-----------------------------------------------------------------------------
(* Nothing is stored, and nobody has begun, at the start.                  *)
LEMMA Initially == Init => IInv
<1> SUFFICES ASSUME Init PROVE IInv
  OBVIOUS
<1> USE NoneAssumption DEF Init
<1>1. TypeOK
  BY DEF TypeOK, PC, EmptySnap
<1>2. Begun /\ Prepared
  BY DEF Begun, Prepared, Past, InLock
<1>3. Compiling
  BY DEF Compiling, InLock, Compiles, EmptySnap
<1>4. Whole
  BY DEF Whole, Closed
<1>5. Covers /\ Serving
  BY DEF Covers, Serving, Counts, Compiles
<1> QED BY <1>1, <1>2, <1>3, <1>4, <1>5 DEF IInv

-----------------------------------------------------------------------------
(* A call that has been answered, or compiles, has its fact in the store.  *)
LEMMA CountsPast == ASSUME IInv, NEW c \in Call, Counts(c) PROVE Past(c)
BY DEF IInv, TypeOK, Compiling, Counts, Past

(* What fits a call goes on fitting it.                                    *)
LEMMA FitsStays ==
    ASSUME IInv,
           \A d \in Call : pc[d] # "idle" => task'[d] = task[d],
           \A d \in Call : Past(d) => match'[d] = match[d],
           long \subseteq long', forgotten \subseteq forgotten'
    PROVE  \A g \in Generation, d \in Call : Past(d) /\ Fits(g, d) => Fits(g, d)'
<1> SUFFICES ASSUME NEW g \in Generation, NEW d \in Call, Past(d), Fits(g, d)
             PROVE  Fits(g, d)'
  OBVIOUS
<1> USE DEF IInv
<1>1. pc[d] # "idle" /\ task[d] \in Task /\ task'[d] = task[d] /\ match'[d] = match[d]
  BY DEF TypeOK, Begun, Past, InLock
<1>2. Remembered(d)' = Remembered(d) /\ Target(d)' = Target(d)
  BY <1>1 DEF Remembered, Target
<1>3. ASSUME task[d].kind = "remember", Remembered(d)[1] = "short_term"
      PROVE  ExpiresAt(Remembered(d)[2])' = ExpiresAt(Remembered(d)[2])
  <2>1. Remembered(d)[2] \in short
    BY <1>3 DEF Prepared, Placed, Stored
  <2>2. task'[Remembered(d)[2]] = task[Remembered(d)[2]]
    BY <2>1 DEF TypeOK, Begun
  <2> QED BY <1>2, <2>2 DEF ExpiresAt
<1> QED BY <1>1, <1>2, <1>3 DEF Fits, Serves

(* Nothing is answered or compiled, and the store only grows.              *)
LEMMA ServingStays ==
    ASSUME IInv,
           \A d \in Call : pc[d] # "idle" => task'[d] = task[d],
           \A d \in Call : Past(d) => match'[d] = match[d],
           long \subseteq long', forgotten \subseteq forgotten', current' = current,
           \A d \in Call : Counts(d)' => Counts(d),
           \A d \in Call : result'[d] = "ok" => result[d] = "ok",
           \A d \in Call : Compiles(d)' => Compiles(d) /\ next'[d] = next[d]
    PROVE  Serving'
<1>1. ASSUME NEW d \in Call, result'[d] = "ok"
      PROVE  current' # None /\ Fits(current, d)'
  <2>1. result[d] = "ok" /\ Past(d) /\ current # None /\ Fits(current, d)
    BY <1>1 DEF IInv, Past, Serving
  <2>2. PICK g \in Generation : g = current
    BY <2>1 DEF IInv, TypeOK
  <2>3. Fits(g, d)'
    BY <2>1, <2>2, FitsStays
  <2> QED BY <2>1, <2>2, <2>3 DEF Fits, Serves
<1>2. ASSUME NEW d \in Call, NEW c \in Call, Compiles(d)', Counts(c)'
      PROVE  Fits(next[d], c)'
  <2>1. Counts(c) /\ Compiles(d) /\ next'[d] = next[d] /\ Fits(next[d], c) /\ Past(c)
    BY <1>2, CountsPast DEF IInv, Serving
  <2>2. PICK g \in Generation : g = next[d]
    BY <2>1 DEF IInv, Compiling
  <2>3. Fits(g, c)'
    BY <2>1, <2>2, FitsStays
  <2> QED BY <2>1, <2>2, <2>3 DEF Fits, Serves
<1> QED BY <1>1, <1>2 DEF Serving

(* The call that holds the lock does not read, and nobody is answered.     *)
LEMMA CoversStays ==
    ASSUME IInv,
           \A d \in Call : pc[d] # "idle" => task'[d] = task[d],
           \A d \in Call : Past(d) => match'[d] = match[d],
           \A d \in Call : lock' = d => lock = d /\ snap'[d] = snap[d] /\ pc'[d] = pc[d],
           \A d \in Call : Counts(d)' => Counts(d)
    PROVE  Covers'
<1> SUFFICES ASSUME NEW d \in Call, NEW c \in Call, lock' = d, Counts(c)'
             PROVE  \A m \in Call :
                      /\ pc'[d] = "readShort" /\ KnowsShort(c, m)'
                           => SessionOf[m] \in snap'[d].left \/ m \in snap'[d].short
                      /\ pc'[d] \in {"readLong", "readForget"} /\ KnowsShort(c, m)'
                           => m \in snap'[d].short
                      /\ pc'[d] = "readForget" /\ KnowsLong(c, m)' => m \in snap'[d].long
  BY DEF Covers
<1>1. Past(c) /\ pc[c] # "idle"
  BY CountsPast DEF IInv, TypeOK, Begun, Past, InLock
<1>2. \A m \in Call : (KnowsShort(c, m)' <=> KnowsShort(c, m)) /\ (KnowsLong(c, m)' <=> KnowsLong(c, m))
  BY <1>1 DEF KnowsShort, KnowsLong, Remembered, Target
<1> QED BY <1>2 DEF IInv, Covers

(* A call that begins is given its task; nobody knew it before.            *)
LEMMA BeginKeeps == ASSUME IInv, NEW c \in Call, Begin(c) PROVE IInv'
<1> USE NoneAssumption, WorkAssumption DEF IInv, Begin, Goto, Settle, store, disk
<1>t. PICK t \in Work[c] :
         /\ task' = [task EXCEPT ![c] = t]
         /\ pc' = [pc EXCEPT ![c] = CASE t.kind = "remember" -> "listShort"
                                      [] t.kind = "promote"  -> "getSource"
                                      [] t.kind = "forget"   -> "getTarget"]
  OBVIOUS
<1>k. t \in Task /\ t.kind \in {"remember", "promote", "forget"}
  BY <1>t DEF Task
<1>p. \/ t.kind = "remember" /\ pc' = [pc EXCEPT ![c] = "listShort"]
      \/ t.kind = "promote" /\ pc' = [pc EXCEPT ![c] = "getSource"]
      \/ t.kind = "forget" /\ pc' = [pc EXCEPT ![c] = "getTarget"]
  BY <1>t, <1>k
<1>d. /\ pc[c] = "idle" /\ pc \in [Call -> PC] /\ task \in [Call -> Task \cup {None}]
      /\ \A d \in Call : d # c => pc'[d] = pc[d] /\ task'[d] = task[d]
      /\ pc'[c] \in {"listShort", "getSource", "getTarget"} /\ task'[c] = t
      /\ result[c] = "none" /\ match[c] = None /\ c \notin short /\ lock # c
  <2>1. pc[c] = "idle" /\ pc \in [Call -> PC] /\ task \in [Call -> Task \cup {None}]
    BY DEF TypeOK
  <2>2. \A d \in Call : d # c => task'[d] = task[d]
    BY <1>t, <2>1
  <2>3. \A d \in Call : d # c => pc'[d] = pc[d]
    BY <1>p, <2>1
  <2>4. pc'[c] \in {"listShort", "getSource", "getTarget"}
    BY <1>p, <2>1
  <2>5. task'[c] = t
    BY <1>t, <2>1
  <2>6. result[c] = "none" /\ c \notin short
    BY <2>1 DEF Begun, TypeOK
  <2>7. match[c] = None
    BY <2>1 DEF Prepared
  <2>8. lock # c
    BY <2>1 DEF Compiling, InLock
  <2> QED BY <2>1, <2>2, <2>3, <2>4, <2>5, <2>6, <2>7, <2>8
<1>u. UNCHANGED <<result, match, short, long, forgotten,
                 snap, next, manifests, generations, current, lock>>
  OBVIOUS
<1>1. TypeOK'
  BY <1>t, <1>k, <1>p, <1>d, <1>u DEF TypeOK, PC
<1>2. Begun'
  BY <1>k, <1>p, <1>d, <1>u DEF Begun
<1>3. Prepared'
  <2> SUFFICES ASSUME NEW d \in Call
               PROVE  /\ pc'[d] \in {"idle", "listShort", "put"} => match'[d] = None
                      /\ match'[d] # None => Stored(match[d])'
                      /\ pc'[d] = "putLong" => (Target(d) \in short)'
                      /\ pc'[d] = "putForget" => Stored(task[d].target)'
                      /\ Past(d)' => Placed(d)'
    BY DEF Prepared
  <2>1. CASE d = c
    BY <2>1, <1>d, <1>u DEF Past, InLock
  <2>2. CASE d # c
    <3>1. pc'[d] = pc[d] /\ task'[d] = task[d] /\ match'[d] = match[d]
      BY <2>2, <1>d, <1>u
    <3>2. Remembered(d)' = Remembered(d) /\ Target(d)' = Target(d) /\ (Past(d)' <=> Past(d))
      BY <3>1 DEF Remembered, Target, Past, InLock
    <3>3. \A ref : Stored(ref)' <=> Stored(ref)
      BY <1>u DEF Stored
    <3>4. Placed(d) => Placed(d)'
      BY <3>1, <3>2, <3>3, <1>u DEF Placed
    <3> QED BY <3>1, <3>2, <3>3, <3>4, <1>u DEF Prepared
  <2> QED BY <2>1, <2>2
<1>4. Compiling'
  <2> SUFFICES ASSUME NEW d \in Call PROVE Compiling!(d)'
    BY DEF Compiling
  <2>1. Compiling!(d)
    BY DEF Compiling
  <2>2. \A g : Resolves(g)' <=> Resolves(g)
    BY <1>u DEF Resolves
  <2>3. CASE d = c
    BY <2>1, <2>3, <1>d, <1>u DEF InLock, Compiles
  <2>4. CASE d # c
    BY <2>1, <2>2, <2>4, <1>d, <1>u DEF InLock, Compiles
  <2> QED BY <2>3, <2>4
<1>5. Whole'
  BY DEF Whole, Verifies, Resolves
<1>6. Covers'
  BY CoversStays DEF Counts, Compiling, InLock
<1>7. Serving'
  <2>1. \A d \in Call : (Past(d) \/ Counts(d) \/ Compiles(d))' => d # c
    BY <1>d, <1>u DEF Past, Counts, Compiles, InLock
  <2>2. \A d \in Call : d # c => (Counts(d)' <=> Counts(d)) /\ (Compiles(d)' <=> Compiles(d))
    BY <1>d, <1>u DEF Counts, Compiles
  <2> QED BY <2>1, <2>2, <1>d, <1>u, ServingStays
<1> QED BY <1>1, <1>2, <1>3, <1>4, <1>5, <1>6, <1>7

(* The matches of a remember are facts of the store.                       *)
LEMMA ListShortKeeps == ASSUME IInv, NEW c \in Call, ListShort(c) PROVE IInv'
<1> USE NoneAssumption, WorkAssumption DEF IInv, ListShort, Goto, Settle, store, disk
<1>1. TypeOK'
  <2>1. match' \in [Call -> Ref \cup {None}]
    BY DEF TypeOK, Ref, Tier
  <2> QED BY <2>1 DEF TypeOK, PC
<1>2. Begun'
  BY DEF Begun
<1>3. Prepared'
  BY <1>2 DEF TypeOK, Prepared, Placed, Past, InLock, Stored, Remembered, Target
<1>4. Compiling'
  BY <1>1 DEF Compiling, InLock, Compiles, Resolves
<1>5. Whole'
  BY DEF Whole, Verifies, Resolves
<1>6. Covers'
  BY CoversStays DEF TypeOK, Counts, Compiling, InLock, Past, Begun, Running
<1>7. Serving'
  BY ServingStays DEF TypeOK, Counts, InLock, Compiles, Past, Begun
<1> QED BY <1>1, <1>2, <1>3, <1>4, <1>5, <1>6, <1>7

LEMMA ListLongKeeps == ASSUME IInv, NEW c \in Call, ListLong(c) PROVE IInv'
<1> USE NoneAssumption, WorkAssumption DEF IInv, ListLong, Goto, Settle, store, disk
<1>1. TypeOK'
  <2>1. match' \in [Call -> Ref \cup {None}]
    <3>1. CASE match' = match
      BY <3>1 DEF TypeOK
    <3>2. CASE match' # match
      <4>1. PICK m \in long : match' = [match EXCEPT ![c] = <<"long_term", m>>]
        BY <3>2
      <4>2. <<"long_term", m>> \in Ref
        BY DEF TypeOK, Ref, Tier
      <4> QED BY ONLY <4>1, <4>2, TypeOK DEF TypeOK
    <3> QED BY <3>1, <3>2
  <2>2. pc' \in [Call -> PC]
    BY DEF TypeOK, PC
  <2> QED BY <2>1, <2>2 DEF TypeOK
<1>2. Begun'
  BY DEF Begun
<1>3. Prepared'
  BY <1>2 DEF TypeOK, Begun, Prepared, Placed, Past, InLock, Stored, Remembered, Target, Found
<1>4. Compiling'
  BY <1>1 DEF Compiling, InLock, Compiles, Resolves
<1>5. Whole'
  BY DEF Whole, Verifies, Resolves
<1>6. Covers'
  BY CoversStays DEF TypeOK, Counts, Compiling, InLock, Past, Begun, Running
<1>7. Serving'
  BY ServingStays DEF TypeOK, Counts, InLock, Compiles, Past, Begun
<1> QED BY <1>1, <1>2, <1>3, <1>4, <1>5, <1>6, <1>7

(* The fact of a remember is stored before it may compile.                 *)
LEMMA PutKeeps == ASSUME IInv, NEW c \in Call, Put(c) PROVE IInv'
<1> USE NoneAssumption, WorkAssumption DEF IInv, Put, Goto, Settle, store, disk
<1>1. TypeOK'
  BY DEF TypeOK, PC
<1>2. Begun'
  BY DEF Begun
<1>3. Prepared'
  BY <1>2 DEF Begun, Prepared, Placed, Past, InLock, Stored, Remembered, Target
<1>4. Compiling'
  BY <1>1 DEF Compiling, InLock, Compiles, Resolves
<1>5. Whole'
  BY DEF Whole, Closed, Verifies, Resolves
<1>6. Covers'
  BY CoversStays DEF Counts, Compiling, InLock
<1>7. Serving'
  BY DEF Serving, Fits, Compiles, Counts, Remembered, Target, ExpiresAt
<1> QED BY <1>1, <1>2, <1>3, <1>4, <1>5, <1>6, <1>7

(* A promotion and a forget record refer to a fact that was found.         *)
LEMMA GetSourceKeeps == ASSUME IInv, NEW c \in Call, GetSource(c) PROVE IInv'
<1> USE NoneAssumption, WorkAssumption DEF IInv, GetSource, Goto, Settle, store, disk
<1>1. TypeOK'
  BY DEF TypeOK, PC
<1>2. Begun'
  BY DEF TypeOK, Begun
<1>3. Prepared'
  BY <1>2 DEF TypeOK, Prepared, Placed, Past, InLock, Stored, Remembered, Target, Found, Whole,
     Closed
<1>4. Compiling'
  BY <1>1 DEF TypeOK, Compiling, InLock, Compiles, EmptySnap, Verifies, Resolves, Compiled, Closed
<1>5. Whole'
  BY DEF Whole, Verifies, Resolves
<1>6. Covers'
  BY CoversStays DEF TypeOK, Counts, Compiling, InLock
<1>7. Serving'
  BY DEF TypeOK, Serving, Fits, Compiles, Counts, Remembered, Target, Prepared, Past, Serves,
     ExpiresAt
<1> QED BY <1>1, <1>2, <1>3, <1>4, <1>5, <1>6, <1>7

LEMMA PutLongKeeps == ASSUME IInv, NEW c \in Call, PutLong(c) PROVE IInv'
<1> USE NoneAssumption, WorkAssumption DEF IInv, PutLong, Goto, Settle, store, disk
<1>1. TypeOK'
  BY DEF TypeOK, PC, Begun, Task, Ref, Target
<1>2. Begun'
  BY DEF Begun
<1>3. Prepared'
  BY <1>2 DEF Begun, Prepared, Placed, Past, InLock, Stored, Remembered, Target
<1>4. Compiling'
  BY <1>1 DEF Compiling, InLock, Compiles, Resolves
<1>5. Whole'
  BY DEF Whole, Closed, Verifies, Resolves, Prepared
<1>6. Covers'
  BY CoversStays DEF Counts, Compiling, InLock
<1>7. Serving'
  BY DEF Serving, Fits, Compiles, Counts, Remembered, Target, ExpiresAt
<1> QED BY <1>1, <1>2, <1>3, <1>4, <1>5, <1>6, <1>7

LEMMA GetTargetKeeps == ASSUME IInv, NEW c \in Call, GetTarget(c) PROVE IInv'
<1> USE NoneAssumption, WorkAssumption DEF IInv, GetTarget, Goto, Settle, store, disk
<1>1. TypeOK'
  BY DEF TypeOK, PC
<1>2. Begun'
  BY DEF TypeOK, Begun
<1>3. Prepared'
  BY <1>2 DEF TypeOK, Prepared, Placed, Past, InLock, Stored, Remembered, Target, Found
<1>4. Compiling'
  BY <1>1 DEF TypeOK, Compiling, InLock, Compiles, EmptySnap, Verifies, Resolves, Compiled, Closed
<1>5. Whole'
  BY DEF Whole, Verifies, Resolves
<1>6. Covers'
  BY CoversStays DEF TypeOK, Counts, Compiling, InLock
<1>7. Serving'
  BY DEF TypeOK, Serving, Fits, Compiles, Counts, Remembered, Target, Serves, ExpiresAt
<1> QED BY <1>1, <1>2, <1>3, <1>4, <1>5, <1>6, <1>7

LEMMA PutForgetKeeps == ASSUME IInv, NEW c \in Call, PutForget(c) PROVE IInv'
<1> USE NoneAssumption, WorkAssumption DEF IInv, PutForget, Goto, Settle, store, disk
<1>1. TypeOK'
  BY DEF TypeOK, PC, Begun, Task
<1>2. Begun'
  BY DEF Begun
<1>3. Prepared'
  BY <1>2 DEF Begun, Prepared, Placed, Past, InLock, Stored, Remembered, Target
<1>4. Compiling'
  BY <1>1 DEF Compiling, InLock, Compiles, Resolves
<1>5. Whole'
  BY DEF Whole, Closed, Verifies, Resolves, Prepared, Stored
<1>6. Covers'
  BY CoversStays DEF Counts, Compiling, InLock
<1>7. Serving'
  BY DEF Serving, Fits, Compiles, Counts, Remembered, Target, ExpiresAt
<1> QED BY <1>1, <1>2, <1>3, <1>4, <1>5, <1>6, <1>7

(* The call that gets the lock has every session's facts left to read.     *)
LEMMA AcquireLockKeeps == ASSUME IInv, NEW c \in Call, AcquireLock(c) PROVE IInv'
<1> USE NoneAssumption, WorkAssumption DEF IInv, AcquireLock, Goto, Settle, store, disk
<1>1. TypeOK'
  <2>1. [EmptySnap EXCEPT !.left = Session] \in [left : SUBSET Session, short : SUBSET Call, long : SUBSET Call]
    BY DEF EmptySnap
  <2>2. snap \in [Call -> [left : SUBSET Session, short : SUBSET Call, long : SUBSET Call]]
    BY DEF TypeOK
  <2>3. snap' \in [Call -> [left : SUBSET Session, short : SUBSET Call, long : SUBSET Call]]
    <3> DEFINE first == [EmptySnap EXCEPT !.left = Session]
    <3>1. snap' = [snap EXCEPT ![c] = first] \/ snap' = snap
      OBVIOUS
    <3> HIDE DEF first
    <3>2. first \in [left : SUBSET Session, short : SUBSET Call, long : SUBSET Call]
      BY <2>1 DEF first
    <3> QED BY <2>2, <3>1, <3>2
  <2>4. pc' \in [Call -> PC]
    BY DEF TypeOK, PC
  <2> QED BY <2>3, <2>4 DEF TypeOK
<1>2. Begun'
  BY DEF TypeOK, Begun
<1>3. Prepared'
  BY <1>2 DEF TypeOK, Prepared, Placed, Past, InLock, Stored, Remembered, Target
<1>4. Compiling'
  <2>1. CASE lock # None
    BY <2>1, <1>1 DEF TypeOK, Compiling, InLock, Compiles, Verifies, Resolves
  <2>2. CASE lock = None
    <3>1. /\ lock' = c /\ pc'[c] = "readShort" /\ \A d \in Call \ {c} : pc'[d] = pc[d] /\ snap'[d] = snap[d]
          /\ snap'[c] = [EmptySnap EXCEPT !.left = Session]
      BY <2>2 DEF TypeOK
    <3>2. \A d \in Call : snap'[d].short \subseteq short' /\ snap'[d].long \subseteq long'
      BY <3>1 DEF Compiling, EmptySnap
    <3>3. \A d \in Call : InLock(d)' <=> lock' = d
      BY <2>2, <3>1 DEF Compiling, InLock
    <3> QED BY <3>1, <3>2, <3>3 DEF Compiling, Compiles, Resolves
  <2> QED BY <2>1, <2>2
<1>5. Whole'
  BY DEF Whole, Verifies, Resolves
<1>6. Covers'
  <2>1. CASE lock # None
    BY <2>1, CoversStays DEF TypeOK, Counts
  <2>2. CASE lock = None
    <3>1. lock' = c /\ pc'[c] = "readShort" /\ snap'[c].left = Session
      BY <2>2 DEF TypeOK, EmptySnap
    <3> QED BY <3>1 DEF Covers, Session
  <2> QED BY <2>1, <2>2
<1>7. Serving'
  BY DEF TypeOK, Serving, Fits, Compiles, Counts, Remembered, Target, Compiling, InLock, Prepared,
     Placed, Serves, ExpiresAt
<1> QED BY <1>1, <1>2, <1>3, <1>4, <1>5, <1>6, <1>7

(* One session's facts are read: those of the calls that count are there   *)
(* already.                                                                *)
LEMMA ReadShortKeeps == ASSUME IInv, NEW c \in Call, ReadShort(c) PROVE IInv'
<1> USE NoneAssumption, WorkAssumption DEF IInv, ReadShort, Goto, Settle, store, disk
<1>s. PICK s \in snap[c].left :
         snap' = [snap EXCEPT ![c].left = @ \ {s}, ![c].short = @ \cup {m \in short : SessionOf[m] = s}]
  OBVIOUS
<1>a. snap \in [Call -> [left : SUBSET Session, short : SUBSET Call, long : SUBSET Call]]
  BY DEF TypeOK
<1>c. /\ snap'[c] = [snap[c] EXCEPT !.left = @ \ {s}, !.short = @ \cup {m \in short : SessionOf[m] = s}]
      /\ \A d \in Call : d # c => snap'[d] = snap[d]
      /\ DOMAIN snap' = Call /\ snap' = [d \in Call |-> snap'[d]]
  BY <1>s, <1>a
<1>e. /\ snap'[c].left = snap[c].left \ {s}
      /\ snap'[c].short = snap[c].short \cup {m \in short : SessionOf[m] = s}
      /\ snap'[c].long = snap[c].long
      /\ snap'[c] \in [left : SUBSET Session, short : SUBSET Call, long : SUBSET Call]
  <2>1. /\ snap[c] \in [left : SUBSET Session, short : SUBSET Call, long : SUBSET Call]
        /\ {m \in short : SessionOf[m] = s} \subseteq Call
    BY <1>a DEF TypeOK
  <2> DEFINE more == {m \in short : SessionOf[m] = s}
  <2> HIDE DEF more
  <2>2. snap'[c] = [left |-> snap[c].left \ {s}, short |-> snap[c].short \cup more, long |-> snap[c].long]
    BY <1>c, <2>1 DEF more
  <2>3. more \subseteq Call
    BY <2>1 DEF more
  <2>4. snap[c].left \ {s} \subseteq Session /\ snap[c].short \cup more \subseteq Call /\ snap[c].long \subseteq Call
    BY <2>1, <2>3
  <2>5. snap'[c].left = snap[c].left \ {s} /\ snap'[c].short = snap[c].short \cup more /\ snap'[c].long = snap[c].long
    BY ONLY <2>2
  <2> QED BY <2>2, <2>4, <2>5 DEF more
<1>p. pc' = [pc EXCEPT ![c] = IF snap'[c].left = {} THEN "readLong" ELSE "readShort"]
  OBVIOUS
<1>d. /\ pc[c] = "readShort" /\ lock = c /\ pc'[c] \in {"readShort", "readLong"}
      /\ pc'[c] = "readLong" => snap'[c].left = {}
      /\ \A d \in Call \ {c} : pc'[d] = pc[d]
  BY <1>p DEF TypeOK, Compiling, InLock
<1>u. UNCHANGED <<task, result, match, short, long, forgotten,
                 next, manifests, generations, current, lock, failures>>
  OBVIOUS
<1>1. TypeOK'
  <2> DEFINE R == [left : SUBSET Session, short : SUBSET Call, long : SUBSET Call]
  <2>1. snap \in [Call -> R] /\ snap'[c] \in R
    BY ONLY <1>a, <1>e
  <2> HIDE DEF R
  <2>2. \A d \in Call : snap'[d] \in R
    BY ONLY <2>1, <1>c
  <2>3. snap' \in [Call -> R]
    BY ONLY <2>2, <1>c
  <2>4. pc' \in [Call -> PC]
    BY ONLY <1>p, TypeOK DEF TypeOK, PC
  <2>5. TypeOK
    OBVIOUS
  <2> QED BY ONLY <2>3, <2>4, <2>5, <1>u DEF TypeOK, R
<1>2. Begun'
  BY DEF Begun
<1>3. Prepared'
  BY <1>2 DEF Prepared, Placed, Past, InLock, Stored, Remembered, Target
<1>4. Compiling'
  <2>1. \A d \in Call : snap'[d].short \subseteq short' /\ snap'[d].long \subseteq long'
    <3>1. \A d \in Call : snap[d].short \subseteq short /\ snap[d].long \subseteq long
      BY DEF Compiling
    <3>2. short' = short /\ long' = long
      BY <1>u
    <3>3. snap'[c].short \subseteq short /\ snap'[c].long \subseteq long
      BY ONLY <1>e, <3>1
    <3>4. \A d \in Call : d # c => snap'[d] = snap[d]
      BY <1>c
    <3> QED BY ONLY <3>1, <3>2, <3>3, <3>4
  <2>2. \A d \in Call : InLock(d)' <=> lock' = d
    BY <1>d, <1>u DEF Compiling, InLock
  <2> QED BY <2>1, <2>2, <1>d, <1>u DEF Compiling, Compiles, Resolves
<1>5. Whole'
  BY DEF Whole, Verifies, Resolves
<1>6. Covers'
  <2> SUFFICES ASSUME NEW d \in Call, NEW m \in Call, Counts(d)', KnowsShort(d, m)'
               PROVE  /\ SessionOf[m] \in snap'[c].left \/ m \in snap'[c].short
                      /\ pc'[c] = "readLong" => m \in snap'[c].short
    BY <1>d, <1>u DEF Covers
  <2>1. Counts(d) /\ KnowsShort(d, m)
    BY <1>u DEF Counts, KnowsShort, Remembered
  <2>2. m \in short
    BY <2>1, CountsPast DEF Prepared, Placed, Stored, KnowsShort
  <2>3. SessionOf[m] \in snap[c].left \/ m \in snap[c].short
    BY <2>1, <1>d DEF Covers
  <2> QED BY <2>2, <2>3, <1>e, <1>d
<1>7. Serving'
  BY DEF Serving, Fits, Compiles, Remembered, Target, Compiling, InLock, ExpiresAt
<1> QED BY <1>1, <1>2, <1>3, <1>4, <1>5, <1>6, <1>7

(* The promotions are read after the facts they come from.                 *)
LEMMA ReadLongKeeps == ASSUME IInv, NEW c \in Call, ReadLong(c) PROVE IInv'
<1> USE NoneAssumption, WorkAssumption DEF IInv, ReadLong, Goto, Settle, store, disk
<1>1. TypeOK'
  <2> DEFINE R == [left : SUBSET Session, short : SUBSET Call, long : SUBSET Call]
             new == [snap[c] EXCEPT !.long = long]
  <2>1. snap \in [Call -> R] /\ snap[c] \in R /\ long \subseteq Call
    BY DEF TypeOK
  <2>2. new \in R
    BY <2>1
  <2>3. snap' = [snap EXCEPT ![c] = new]
    BY <2>1
  <2> HIDE DEF R, new
  <2>4. snap' \in [Call -> R]
    BY ONLY <2>1, <2>2, <2>3
  <2>5. pc' \in [Call -> PC]
    BY DEF TypeOK, PC
  <2> QED BY <2>4, <2>5 DEF TypeOK, R
<1>2. Begun'
  BY DEF Begun
<1>3. Prepared'
  BY <1>2 DEF Prepared, Placed, Past, InLock, Stored, Remembered, Target
<1>4. Compiling'
  BY <1>1 DEF Compiling, InLock, Compiles
<1>5. Whole'
  BY DEF Whole, Verifies, Resolves
<1>6. Covers'
  BY DEF TypeOK, Covers, Counts, KnowsShort, KnowsLong, Remembered, Target, Compiling, InLock,
     Prepared, Placed, Past, Stored
<1>7. Serving'
  BY DEF Serving, Fits, Compiles, Remembered, Target, Compiling, InLock, ExpiresAt
<1> QED BY <1>1, <1>2, <1>3, <1>4, <1>5, <1>6, <1>7

(* The generation is compiled: it resolves, and serves what the calls that *)
(* count were answered or are about to be.                                 *)
LEMMA ReadForgetKeeps == ASSUME IInv, NEW c \in Call, ReadForget(c) PROVE IInv'
<1> USE NoneAssumption, WorkAssumption DEF IInv, ReadForget, Goto, Settle, store, disk
<1> DEFINE g == Compiled(snap[c].short, snap[c].long, forgotten, task[c].at)
<1>u. /\ UNCHANGED <<task, match, short, long, forgotten, manifests, generations, current, failures>>
      /\ snap' = [snap EXCEPT ![c] = EmptySnap]
  OBVIOUS
<1>c. lock = c /\ pc[c] = "readForget" /\ task[c] \in Task
  BY DEF Compiling, InLock, Begun
<1>f. CASE ~Closed(snap[c].short, snap[c].long, forgotten)
  <2>1. pc' = [pc EXCEPT ![c] = "done"] /\ result' = [result EXCEPT ![c] = "failed"] /\ lock' = None /\ next' = next
    BY <1>f, <1>c
  <2>2. TypeOK'
    BY <2>1, <1>u DEF TypeOK, PC, EmptySnap
  <2>3. Begun'
    BY <2>1, <1>u DEF TypeOK, Begun
  <2>4. Prepared'
    BY <2>1, <1>u DEF Prepared, Placed, Past, InLock, Stored, Remembered, Target
  <2>5. Compiling'
    BY <2>1, <1>u, <1>c DEF TypeOK, Compiling, InLock, Compiles, EmptySnap
  <2>6. Whole'
    BY <1>u DEF Whole, Verifies, Resolves
  <2>7. Covers'
    BY <2>1 DEF Covers
  <2>8. Serving'
    BY <2>1, <1>u, <1>c, ServingStays DEF Counts, Compiles
  <2> QED BY <2>2, <2>3, <2>4, <2>5, <2>6, <2>7, <2>8
<1>g. ASSUME Closed(snap[c].short, snap[c].long, forgotten)
      PROVE  /\ g \in Generation /\ Resolves(g)
             /\ \A d \in Call : Counts(d) => Fits(g, d)
  <2>1. g \in Generation
    BY <1>c DEF Compiled, Generation, Task, TypeOK
  <2>2. Resolves(g)
    BY <1>g DEF Compiled, Resolves, Compiling, Closed
  <2>3. ASSUME NEW d \in Call, Counts(d)
        PROVE  Fits(g, d)
    <3>1. Past(d) /\ Placed(d) /\ task[d] \in Task
      BY <2>3, CountsPast DEF Prepared, Begun, Past, InLock
    <3>2. CASE task[d].kind = "remember"
      <4>1. PICK m \in Call : Remembered(d) = <<"short_term", m>> \/ Remembered(d) = <<"long_term", m>>
        BY DEF Remembered, TypeOK, Ref, Tier
      <4>2. CASE Remembered(d) = <<"short_term", m>>
        <5>1. m \in snap[c].short
          BY <3>2, <4>2, <2>3, <1>c DEF Covers, KnowsShort
        <5>2. m \in g.short \/ m \in snap[c].long \/ <<"short_term", m>> \in forgotten \/ ~(task[c].at < ExpiresAt(m))
          BY <5>1 DEF Compiled
        <5>3. g.at = task[c].at /\ task[c].at \in Nat /\ ExpiresAt(m) \in Nat
          <6>1. m \in short
            BY <5>1 DEF Compiling
          <6>2. task[m] \in Task
            BY <6>1 DEF Begun
          <6> QED BY <6>2, <1>c, TTLAssumption DEF Compiled, ExpiresAt, Task
        <5>4. snap[c].long \subseteq long
          BY DEF Compiling
        <5> QED BY <3>2, <4>2, <5>2, <5>3, <5>4, <2>1 DEF Fits, Serves
      <4>3. CASE Remembered(d) = <<"long_term", m>>
        <5>1. m \in snap[c].long
          BY <3>2, <4>3, <2>3, <1>c DEF Covers, KnowsLong
        <5>2. m \in g.long \/ <<"long_term", m>> \in forgotten
          BY <5>1 DEF Compiled
        <5> QED BY <3>2, <4>3, <5>2, <2>1 DEF Fits, Serves
      <4> QED BY <4>1, <4>2, <4>3
    <3>3. CASE task[d].kind = "promote"
      <4>1. Target(d) \in Call
        BY <3>1 DEF Target, Task, Ref
      <4>2. Target(d) \in snap[c].long
        BY <3>3, <4>1, <2>3, <1>c DEF Covers, KnowsLong
      <4>3. Target(d) \notin g.short /\ (Target(d) \in g.long \/ <<"long_term", Target(d)>> \in forgotten)
        BY <4>1, <4>2 DEF Compiled
      <4> QED BY <3>3, <4>3, <2>1 DEF Fits, Serves
    <3>4. CASE task[d].kind = "forget"
      <4>1. task[d].target \in forgotten
        BY <3>4, <3>1 DEF Placed
      <4>2. PICK m \in Call : task[d].target = <<"short_term", m>> \/ task[d].target = <<"long_term", m>>
        BY <3>1 DEF Task, Ref, Tier
      <4>3. m \in g.short => <<"short_term", m>> \notin forgotten
        BY DEF Compiled
      <4>4. m \in g.long => <<"long_term", m>> \notin forgotten
        BY DEF Compiled
      <4>5. ~Serves(g, task[d].target)
        BY <4>1, <4>2, <4>3, <4>4 DEF Serves
      <4> QED BY <3>4, <4>5 DEF Fits
    <3> QED BY <3>1, <3>2, <3>3, <3>4 DEF Task
  <2> QED BY <2>1, <2>2, <2>3
<1>h. CASE Closed(snap[c].short, snap[c].long, forgotten)
  <2>1. /\ next' = [next EXCEPT ![c] = g] /\ UNCHANGED <<result, lock>>
        /\ pc' = [pc EXCEPT ![c] = IF current = g /\ Verifies(g) THEN "release" ELSE "stage"]
    BY <1>h
  <2> HIDE DEF g
  <2>a. /\ pc'[c] \in {"release", "stage"} /\ (pc'[c] = "release" => current = g)
        /\ \A d \in Call \ {c} : pc'[d] = pc[d] /\ next'[d] = next[d]
        /\ next'[c] = g /\ g # None
    BY <2>1, <1>g, <1>h DEF TypeOK
  <2>2. TypeOK'
    BY <2>1, <1>u, <1>g, <1>h DEF TypeOK, PC, EmptySnap
  <2>3. Begun'
    BY <2>1, <2>a, <1>u, <1>c DEF Begun
  <2>4. Prepared'
    BY <2>1, <2>a, <1>u, <1>c DEF Prepared, Placed, Past, InLock, Stored, Remembered, Target
  <2>5. Compiling'
    <3>1. \A d \in Call : snap'[d].short \subseteq short' /\ snap'[d].long \subseteq long'
      BY <1>u DEF Compiling, EmptySnap
    <3>2. \A d \in Call : InLock(d)' <=> lock' = d
      BY <2>1, <2>a, <1>c DEF Compiling, InLock
    <3>3. \A d \in Call : Compiles(d)' => d = c
      BY <2>1, <1>c, <3>2 DEF Compiles, InLock
    <3>4. Resolves(next[c])'
      BY <2>a, <1>g, <1>h, <1>u DEF Resolves
    <3> QED BY <3>1, <3>2, <3>3, <3>4, <2>a, <1>g, <1>h, <1>u DEF Compiling, Compiles, Resolves
  <2>6. Whole'
    BY <1>u DEF Whole, Verifies, Resolves
  <2>7. Covers'
    BY <2>1, <2>a, <1>c DEF Covers
  <2>8. Serving'
    <3>1. \A d \in Call : Compiles(d)' => d = c
      BY <2>1, <2>a, <1>c DEF Compiling, Compiles, InLock
    <3>2. \A d \in Call : Counts(d)' <=> Counts(d)
      BY <2>1 DEF Counts
    <3>4. \A d \in Call : Fits(current, d) => Fits(current, d)'
      BY <1>u DEF Fits, Remembered, ExpiresAt, Target
    <3>5. \A d \in Call : Counts(d) => Fits(g, d)
      BY <1>g, <1>h
    <3>6. ASSUME NEW d \in Call, Counts(d)'
          PROVE  Fits(next[c], d)'
      <4>1. Fits(g, d)
        BY <3>6, <3>2, <3>5
      <4> QED BY <4>1, <2>a, <1>u DEF Fits, Serves, Remembered, ExpiresAt, Target
    <3> QED BY <2>1, <1>u, <3>1, <3>4, <3>6 DEF Serving
  <2> QED BY <2>2, <2>3, <2>4, <2>5, <2>6, <2>7, <2>8
<1> QED BY <1>f, <1>h

(* The generation is made and put in its place; CURRENT stands until it is *)
(* verified.                                                               *)
LEMMA StageKeeps == ASSUME IInv, NEW c \in Call, Stage(c) PROVE IInv'
<1> USE NoneAssumption, WorkAssumption DEF IInv, Stage, Goto, Settle, store, disk
<1>1. TypeOK'
  BY DEF TypeOK, PC
<1>2. Begun'
  BY DEF Begun
<1>3. Prepared'
  BY <1>2 DEF Prepared, Placed, Past, InLock, Stored, Remembered, Target
<1>4. Compiling'
  BY <1>1 DEF Compiling, InLock, Compiles, Resolves
<1>5. Whole'
  BY DEF Whole, Verifies, Resolves
<1>6. Covers'
  BY DEF Covers, Counts, KnowsShort, KnowsLong, Remembered, Target
<1>7. Serving'
  BY DEF Serving, Fits, Compiles, Counts, Remembered, Target, ExpiresAt
<1> QED BY <1>1, <1>2, <1>3, <1>4, <1>5, <1>6, <1>7

LEMMA DescribeKeeps == ASSUME IInv, NEW c \in Call, Describe(c) PROVE IInv'
<1> USE NoneAssumption, WorkAssumption DEF IInv, Describe, Goto, Settle, store, disk
<1>1. TypeOK'
  BY DEF TypeOK, PC
<1>2. Begun'
  BY DEF Begun
<1>3. Prepared'
  BY <1>2 DEF Prepared, Placed, Past, InLock, Stored, Remembered, Target
<1>4. Compiling'
  BY <1>1 DEF Compiling, InLock, Compiles, Resolves
<1>5. Whole'
  BY DEF Whole, Verifies, Resolves
<1>6. Covers'
  BY DEF Covers, Counts, KnowsShort, KnowsLong, Remembered, Target
<1>7. Serving'
  BY DEF Serving, Fits, Compiles, Counts, Remembered, Target, ExpiresAt
<1> QED BY <1>1, <1>2, <1>3, <1>4, <1>5, <1>6, <1>7

LEMMA PublishManifestKeeps == ASSUME IInv, NEW c \in Call, PublishManifest(c) PROVE IInv'
<1> USE NoneAssumption, WorkAssumption DEF IInv, PublishManifest, Goto, Settle, store, disk
<1>1. TypeOK'
  BY DEF TypeOK, PC, Compiling, Compiles
<1>2. Begun'
  BY DEF Begun
<1>3. Prepared'
  BY <1>2 DEF Prepared, Placed, Past, InLock, Stored, Remembered, Target
<1>4. Compiling'
  BY <1>1 DEF Compiling, InLock, Compiles, Resolves
<1>5. Whole'
  BY DEF Whole, Verifies, Resolves
<1>6. Covers'
  BY DEF Covers, Compiling, InLock
<1>7. Serving'
  BY DEF Serving, Fits, Compiles, Counts, Remembered, Target, ExpiresAt
<1> QED BY <1>1, <1>2, <1>3, <1>4, <1>5, <1>6, <1>7

LEMMA RenameGenerationKeeps == ASSUME IInv, NEW c \in Call, RenameGeneration(c) PROVE IInv'
<1> USE NoneAssumption, WorkAssumption DEF IInv, RenameGeneration, Goto, Settle, store, disk
<1>1. TypeOK'
  BY DEF TypeOK, PC, Compiling
<1>2. Begun'
  BY DEF Begun
<1>3. Prepared'
  BY <1>2 DEF Prepared, Placed, Past, InLock, Stored, Remembered, Target
<1>4. Compiling'
  BY <1>1 DEF Compiling, InLock, Compiles, Resolves
<1>5. Whole'
  BY DEF Whole, Verifies, Resolves
<1>6. Covers'
  BY DEF Covers, Compiling, InLock
<1>7. Serving'
  BY DEF Serving, Fits, Compiles, Counts, Remembered, Target, ExpiresAt
<1> QED BY <1>1, <1>2, <1>3, <1>4, <1>5, <1>6, <1>7

LEMMA VerifyGenerationKeeps == ASSUME IInv, NEW c \in Call, VerifyGeneration(c) PROVE IInv'
<1> USE NoneAssumption, WorkAssumption DEF IInv, VerifyGeneration, Goto, Settle, store, disk
<1>1. TypeOK'
  BY DEF TypeOK, PC
<1>2. Begun'
  BY DEF TypeOK, Begun
<1>3. Prepared'
  BY <1>2 DEF TypeOK, Prepared, Placed, Past, InLock, Stored, Remembered, Target
<1>4. Compiling'
  BY <1>1 DEF TypeOK, Compiling, InLock, Compiles, EmptySnap, Resolves
<1>5. Whole'
  BY DEF Whole, Verifies, Resolves
<1>6. Covers'
  BY DEF TypeOK, Covers, Compiling, InLock
<1>7. Serving'
  BY DEF TypeOK, Serving, Fits, Compiles, Counts, Remembered, Target, Serves, ExpiresAt
<1> QED BY <1>1, <1>2, <1>3, <1>4, <1>5, <1>6, <1>7

(* CURRENT becomes what fits every call that counts.                       *)
LEMMA SwitchCurrentKeeps == ASSUME IInv, NEW c \in Call, SwitchCurrent(c) PROVE IInv'
<1> USE NoneAssumption, WorkAssumption DEF IInv, SwitchCurrent, Goto, Settle, store, disk
<1>1. TypeOK'
  BY DEF TypeOK, PC
<1>2. Begun'
  BY DEF Begun
<1>3. Prepared'
  BY <1>2 DEF Prepared, Placed, Past, InLock, Stored, Remembered, Target
<1>4. Compiling'
  BY <1>1 DEF Compiling, InLock, Compiles, Resolves
<1>5. Whole'
  BY DEF Whole, Verifies, Resolves, Compiling, Compiles
<1>6. Covers'
  BY DEF Covers, Compiling, InLock
<1>7. Serving'
  BY DEF Serving, Fits, Compiles, Counts, Remembered, Target, Compiling, ExpiresAt
<1> QED BY <1>1, <1>2, <1>3, <1>4, <1>5, <1>6, <1>7

(* The call that compiled is answered: CURRENT fits it.                    *)
LEMMA ReleaseKeeps == ASSUME IInv, NEW c \in Call, Release(c) PROVE IInv'
<1> USE NoneAssumption, WorkAssumption DEF IInv, Release, Goto, Settle, store, disk
<1>1. TypeOK'
  BY DEF TypeOK, PC
<1>2. Begun'
  BY DEF TypeOK, Begun
<1>3. Prepared'
  BY <1>2 DEF Prepared, Placed, Past, InLock, Stored, Remembered, Target
<1>4. Compiling'
  BY <1>1 DEF TypeOK, Compiling, InLock, Compiles
<1>5. Whole'
  BY DEF Whole, Verifies, Resolves
<1>6. Covers'
  BY DEF Covers, Compiling, InLock
<1>7. Serving'
  <2>1. lock = c /\ current # None /\ Fits(current, c)
    BY DEF Serving, Compiling, InLock, Compiles, Counts
  <2>2. \A d \in Call : result'[d] = "ok" => d = c \/ result[d] = "ok"
    BY DEF TypeOK
  <2>3. \A d \in Call : Fits(current, d) => Fits(current, d)'
    BY DEF Fits, Remembered, ExpiresAt, Target
  <2>4. \A d \in Call : ~Compiles(d)'
    BY <2>1 DEF TypeOK, Compiling, Compiles, InLock
  <2> QED BY <2>1, <2>2, <2>3, <2>4 DEF Serving
<1> QED BY <1>1, <1>2, <1>3, <1>4, <1>5, <1>6, <1>7

(* What fails or dies leaves what it has put on disk, and counts no more.  *)
LEMMA FaultKeeps == ASSUME IInv, NEW c \in Call, Fault(c) PROVE IInv'
<1> USE NoneAssumption, WorkAssumption DEF IInv, Fault, Goto, Settle, store, disk
<1>1. TypeOK'
  BY DEF TypeOK, PC
<1>2. Begun'
  BY DEF TypeOK, Begun, Running
<1>3. Prepared'
  BY <1>2 DEF Prepared, Placed, Past, InLock, Stored, Remembered, Target
<1>4. Compiling'
  BY <1>1 DEF TypeOK, Compiling, InLock, Compiles, EmptySnap, Verifies, Resolves, Compiled, Closed
<1>5. Whole'
  BY DEF Whole, Verifies, Resolves
<1>6. Covers'
  BY CoversStays DEF Counts
<1>7. Serving'
  BY DEF Serving, Fits, Compiles, Counts, Remembered, Target, ExpiresAt
<1> QED BY <1>1, <1>2, <1>3, <1>4, <1>5, <1>6, <1>7

LEMMA CrashKeeps == ASSUME IInv, NEW p, Crash(p) PROVE IInv'
<1> DEFINE dying == {c \in Call : CoordinatorOf[c] = p /\ Running(c)}
<1>a. /\ pc' = [c \in Call |-> IF c \in dying THEN "done" ELSE pc[c]]
      /\ result' = [c \in Call |-> IF c \in dying THEN "lost" ELSE result[c]]
      /\ lock' = IF lock \in dying THEN None ELSE lock
      /\ UNCHANGED <<task, match, short, long, forgotten, snap, next, manifests, generations, current>>
      /\ failures' = failures + 1
  BY DEF Crash, store, disk
<1>b. dying \subseteq Call /\ \A c \in dying : pc[c] \notin {"idle", "done"}
  BY DEF Running
<1> HIDE DEF dying
<1> USE NoneAssumption DEF IInv
<1>1. TypeOK'
  BY <1>a, <1>b DEF TypeOK, PC
<1>2. Begun'
  BY <1>a, <1>b DEF TypeOK, Begun
<1>3. Prepared'
  BY <1>a, <1>b DEF Prepared, Placed, Past, InLock, Stored, Remembered, Target
<1>4. Compiling'
  BY <1>a, <1>b DEF Compiling, InLock, Compiles, Resolves
<1>5. Whole'
  BY <1>a DEF Whole, Verifies, Resolves
<1>6. Covers'
  <2>1. \A d \in Call : lock' = d => lock = d /\ snap'[d] = snap[d] /\ pc'[d] = pc[d]
    BY <1>a, <1>b
  <2>2. \A d \in Call : Counts(d)' => Counts(d)
    BY <1>a, <1>b DEF Counts
  <2> QED BY <2>1, <2>2, <1>a, CoversStays
<1>7. Serving'
  <2>1. \A d \in Call : Counts(d)' => Counts(d)
    BY <1>a, <1>b DEF Counts
  <2>2. \A d \in Call : Compiles(d)' => Compiles(d) /\ next'[d] = next[d]
    BY <1>a, <1>b DEF Compiles
  <2>3. \A d \in Call : result'[d] = "ok" => result[d] = "ok"
    BY <1>a, <1>b
  <2> QED BY <2>1, <2>2, <2>3, <1>a, ServingStays
<1> QED BY <1>1, <1>2, <1>3, <1>4, <1>5, <1>6, <1>7

-----------------------------------------------------------------------------
(* The registry: every grant is of a generation that verifies, and for     *)
(* memories its session sees in it.                                        *)
GrantOK(d) ==
    /\ d \in Disclosure
    /\ Verifies(d.generation)
    /\ d.items \subseteq Visible(d.generation, d.session)

Granted ==
    /\ grants \in Seq(Disclosure)
    /\ \A i \in DOMAIN grants : GrantOK(grants[i])
    /\ LatestSearchOpens

(* What a list has read.  Until it reads the forget records, nothing it    *)
(* will call active may be other than was active when it read the          *)
(* long-term facts, by the forget records there are.                       *)
Listing ==
    [session : Session, at : Nat,
     todo : {<<"short", "long", "forget">>, <<"long", "forget">>, <<"forget">>, <<>>},
     short : SUBSET Call, long : SUBSET Call, forgotten : SUBSET Ref,
     start : SUBSET Ref, instant : SUBSET Ref]

ListHolds(l) ==
    /\ l.short \subseteq {m \in short : SessionOf[m] = l.session}
    /\ l.long \subseteq long /\ l.forgotten \subseteq forgotten
    /\ \A m \in Call : <<"short_term", m>> \in l.start =>
          /\ m \in short /\ SessionOf[m] = l.session /\ l.at < ExpiresAt(m)
          /\ l.todo # ListOrder => m \in l.short
    /\ \A m \in Call : <<"long_term", m>> \in l.start =>
          /\ m \in long
          /\ l.todo \in {<<"forget">>, <<>>} => m \in l.long
    /\ l.todo \in {<<"forget">>, <<>>} =>
          LET f == IF l.todo = <<>> THEN l.forgotten ELSE forgotten IN
          /\ \A m \in l.short : m \notin l.long /\ l.at < ExpiresAt(m) /\ <<"short_term", m>> \notin f
                => <<"short_term", m>> \in l.instant
          /\ \A m \in l.long : <<"long_term", m>> \notin f => <<"long_term", m>> \in l.instant

ListHeld == listing # None => listing \in Listing /\ ListHolds(listing)

RInv == IInv /\ Granted /\ ListHeld

(* All steps of all calls, and steps of none.                              *)
LEMMA StepKeeps == ASSUME IInv, NEW c \in Call, Step(c) PROVE IInv'
BY ListShortKeeps, ListLongKeeps, PutKeeps, GetSourceKeeps, PutLongKeeps, GetTargetKeeps,
   PutForgetKeeps, AcquireLockKeeps, ReadShortKeeps, ReadLongKeeps, ReadForgetKeeps, StageKeeps,
   DescribeKeeps, PublishManifestKeeps, RenameGenerationKeeps, VerifyGenerationKeeps,
   SwitchCurrentKeeps, ReleaseKeeps DEF Step

LEMMA NextKeeps == ASSUME IInv, Next PROVE IInv'
BY BeginKeeps, StepKeeps, FaultKeeps, CrashKeeps DEF Next

LEMMA StandsStill == ASSUME IInv, UNCHANGED vars PROVE IInv'
<1> USE DEF vars, store, disk, IInv
<1>1. TypeOK' /\ Begun' /\ Whole'
  BY DEF TypeOK, Begun, Whole, Closed, Verifies, Resolves
<1>2. Prepared' /\ Compiling'
  BY DEF Prepared, Compiling, InLock, Compiles, Past, Placed, Stored, Remembered, Target, Resolves
<1>3. Covers'
  BY DEF Covers, Counts, KnowsShort, KnowsLong, Remembered, Target
<1>4. Serving'
  BY DEF Serving, Counts, Compiles, Fits, Serves, Remembered, Target, ExpiresAt
<1> QED BY <1>1, <1>2, <1>3, <1>4

(* Facts, manifests and generations only ever come.                        *)
LEMMA Grows ==
    ASSUME Next \/ UNCHANGED vars
    PROVE  /\ short \subseteq short' /\ long \subseteq long'
           /\ manifests \subseteq manifests' /\ generations \subseteq generations'
<1> USE DEF store, disk
<1>1. CASE UNCHANGED vars
  BY <1>1 DEF vars
<1>2. ASSUME NEW c \in Call, Step(c)
      PROVE  /\ short \subseteq short' /\ long \subseteq long'
             /\ manifests \subseteq manifests' /\ generations \subseteq generations'
  <2>1. CASE ListShort(c) \/ ListLong(c) \/ Put(c) \/ GetSource(c) \/ PutLong(c) \/ GetTarget(c) \/ PutForget(c)
    BY <2>1 DEF ListShort, ListLong, Put, GetSource, PutLong, GetTarget, PutForget
  <2>2. CASE AcquireLock(c) \/ ReadShort(c) \/ ReadLong(c) \/ ReadForget(c) \/ Stage(c) \/ Describe(c)
    BY <2>2 DEF AcquireLock, ReadShort, ReadLong, ReadForget, Stage, Describe
  <2>3. CASE PublishManifest(c) \/ RenameGeneration(c) \/ VerifyGeneration(c) \/ SwitchCurrent(c) \/ Release(c)
    BY <2>3 DEF PublishManifest, RenameGeneration, VerifyGeneration, SwitchCurrent, Release
  <2> QED BY <1>2, <2>1, <2>2, <2>3 DEF Step
<1>3. CASE Next
  BY <1>2, <1>3 DEF Next, Begin, Fault, Crash
<1> QED BY <1>1, <1>3

(* So do forget records, and a stored fact keeps the task it came from.    *)
LEMMA Keeps ==
    ASSUME IInv, Next \/ UNCHANGED vars
    PROVE  forgotten \subseteq forgotten' /\ \A m \in short : task'[m] = task[m]
<1> USE DEF store, disk
<1>1. CASE UNCHANGED vars
  BY <1>1 DEF vars
<1>2. ASSUME NEW c \in Call, Begin(c)
      PROVE  forgotten \subseteq forgotten' /\ \A m \in short : task'[m] = task[m]
  BY <1>2 DEF Begin, IInv, TypeOK, Begun
<1>3. ASSUME NEW c \in Call, Step(c)
      PROVE  forgotten \subseteq forgotten' /\ task' = task
  <2>1. CASE ListShort(c) \/ ListLong(c) \/ Put(c) \/ GetSource(c) \/ PutLong(c) \/ GetTarget(c) \/ PutForget(c)
    BY <2>1 DEF ListShort, ListLong, Put, GetSource, PutLong, GetTarget, PutForget
  <2>2. CASE AcquireLock(c) \/ ReadShort(c) \/ ReadLong(c) \/ ReadForget(c) \/ Stage(c) \/ Describe(c)
    BY <2>2 DEF AcquireLock, ReadShort, ReadLong, ReadForget, Stage, Describe
  <2>3. CASE PublishManifest(c) \/ RenameGeneration(c) \/ VerifyGeneration(c) \/ SwitchCurrent(c) \/ Release(c)
    BY <2>3 DEF PublishManifest, RenameGeneration, VerifyGeneration, SwitchCurrent, Release
  <2> QED BY <1>3, <2>1, <2>2, <2>3 DEF Step
<1>4. CASE Next
  BY <1>2, <1>3, <1>4 DEF Next, Fault, Crash
<1> QED BY <1>1, <1>4

(* The end of a stored fact's life is a time.                              *)
LEMMA Ends == ASSUME IInv PROVE \A m \in short : m \in Call /\ ExpiresAt(m) \in Nat
BY TTLAssumption DEF IInv, TypeOK, Begun, ExpiresAt, Task

(* What is active, kind by kind.                                           *)
LEMMA ActiveIs ==
    ASSUME IInv, NEW s \in Session, NEW at \in Nat
    PROVE  /\ Active(s, at) \subseteq Ref
           /\ \A m \in Call : <<"short_term", m>> \in Active(s, at) <=>
                 /\ m \in short /\ m \notin long /\ <<"short_term", m>> \notin forgotten
                 /\ at < ExpiresAt(m) /\ SessionOf[m] = s
           /\ \A m \in Call : <<"long_term", m>> \in Active(s, at) <=>
                 m \in long /\ <<"long_term", m>> \notin forgotten
<1>1. short \subseteq Call /\ long \subseteq Call
  BY DEF IInv, TypeOK
<1> QED BY <1>1 DEF Active, Visible, Compiled, Ref, Tier

(* Hence what a list has read stays right while others write.              *)
LEMMA ListStays ==
    ASSUME IInv, Next \/ UNCHANGED vars, NEW l \in Listing, ListHolds(l)
    PROVE  ListHolds(l)'
<1>1. short \subseteq short' /\ long \subseteq long' /\ forgotten \subseteq forgotten'
  BY Grows, Keeps
<1>2. \A m \in short : ExpiresAt(m)' = ExpiresAt(m)
  BY Keeps DEF ExpiresAt
<1>3. /\ l.short \subseteq Call /\ l.long \subseteq Call /\ l.short \subseteq short
  BY DEF Listing, ListHolds
<1>4. (/\ l.short \subseteq {m \in short : SessionOf[m] = l.session}
       /\ l.long \subseteq long /\ l.forgotten \subseteq forgotten)'
  BY <1>1 DEF ListHolds
<1>5. (\A m \in Call : <<"short_term", m>> \in l.start =>
          /\ m \in short /\ SessionOf[m] = l.session /\ l.at < ExpiresAt(m)
          /\ l.todo # ListOrder => m \in l.short)'
  BY <1>1, <1>2 DEF ListHolds
<1>6. (\A m \in Call : <<"long_term", m>> \in l.start =>
          /\ m \in long
          /\ l.todo \in {<<"forget">>, <<>>} => m \in l.long)'
  BY <1>1 DEF ListHolds
<1>7. (l.todo \in {<<"forget">>, <<>>} =>
          LET f == IF l.todo = <<>> THEN l.forgotten ELSE forgotten IN
          /\ \A m \in l.short : m \notin l.long /\ l.at < ExpiresAt(m) /\ <<"short_term", m>> \notin f
                => <<"short_term", m>> \in l.instant
          /\ \A m \in l.long : <<"long_term", m>> \notin f => <<"long_term", m>> \in l.instant)'
  BY <1>1, <1>2, <1>3 DEF ListHolds
<1> QED BY <1>4, <1>5, <1>6, <1>7 DEF ListHolds

(* A list begins, and reads its three directories one after the other.     *)
LEMMA ListReads ==
    ASSUME RInv, (\E s \in Session, at \in Nat : ListBegin(s, at)) \/ ListRead
    PROVE  listing' \in Listing /\ ListHolds(listing')
<1>1. ASSUME NEW s \in Session, NEW at \in Nat, ListBegin(s, at)
      PROVE  listing' \in Listing /\ ListHolds(listing')
  <2>1. Active(s, at) \subseteq Ref
    BY <1>1, ActiveIs DEF RInv
  <2>2. PICK l \in Listing :
          l = [session |-> s, at |-> at, todo |-> ListOrder, short |-> {}, long |-> {},
               forgotten |-> {}, start |-> Active(s, at), instant |-> {}]
    BY <2>1 DEF Listing, ListOrder
  <2>3. /\ l.session = s /\ l.at = at /\ l.todo = <<"short", "long", "forget">> /\ l.short = {}
        /\ l.long = {} /\ l.forgotten = {} /\ l.start = Active(s, at)
    BY <2>2 DEF ListOrder
  <2>4. listing' = l
    BY <1>1, <2>2 DEF ListBegin
  <2>5. ListHolds(l)
    BY <1>1, <2>3, ActiveIs DEF RInv, ListHolds, ListOrder
  <2> QED BY <2>4, <2>5
<1>2. ASSUME ListRead
      PROVE  listing' \in Listing /\ ListHolds(listing')
  <2>1. PICK l \in Listing : l = listing /\ ListHolds(l) /\ l.todo # <<>>
    BY <1>2 DEF ListRead, RInv, ListHeld
  <2>2. /\ l.session \in Session /\ l.at \in Nat /\ l.short \subseteq Call /\ l.long \subseteq Call
        /\ short \subseteq Call /\ long \subseteq Call /\ forgotten \subseteq Ref
    BY DEF Listing, RInv, IInv, TypeOK
  <2>3. CASE l.todo = <<"short", "long", "forget">>
    <3>1. Head(l.todo) = "short" /\ Tail(l.todo) = <<"long", "forget">>
      BY <2>3
    <3>0. PICK own \in SUBSET Call : own = {m \in short : SessionOf[m] = l.session}
      BY <2>2
    <3>2. listing' = [[l EXCEPT !.todo = <<"long", "forget">>] EXCEPT !.short = own]
      <4> DEFINE k == [l EXCEPT !.todo = <<"long", "forget">>]
      <4>1. k.session = l.session
        BY DEF Listing
      <4>2. listing' = [k EXCEPT !.short = {m \in short : SessionOf[m] = k.session}]
        BY <1>2, <2>1, <3>1 DEF ListRead
      <4> HIDE DEF k
      <4>3. listing' = [k EXCEPT !.short = own]
        BY ONLY <4>1, <4>2, <3>0
      <4> QED BY <4>3 DEF k
    <3>3. PICK k \in Listing : k = listing'
      BY <2>2, <3>2 DEF Listing
    <3>4. /\ k.session = l.session /\ k.at = l.at /\ k.todo = <<"long", "forget">>
          /\ k.short = {m \in short : SessionOf[m] = l.session} /\ k.long = l.long
          /\ k.forgotten = l.forgotten /\ k.start = l.start
      BY <3>0, <3>2, <3>3 DEF Listing
    <3>5. ListHolds(k)
      BY <2>1, <2>3, <3>4 DEF ListHolds, ListOrder
    <3> QED BY <3>3, <3>5
  <2>4. CASE l.todo = <<"long", "forget">>
    <3>1. Head(l.todo) = "long" /\ Tail(l.todo) = <<"forget">>
      BY <2>4
    <3>2. listing' = [[l EXCEPT !.todo = <<"forget">>]
                        EXCEPT !.long = long, !.instant = Active(l.session, l.at)]
      BY <1>2, <2>1, <3>1 DEF ListRead, Listing
    <3>3. Active(l.session, l.at) \subseteq Ref
      BY <2>2, ActiveIs DEF RInv
    <3>4. PICK k \in Listing : k = listing'
      BY <2>2, <3>2, <3>3 DEF Listing
    <3>5. /\ k.session = l.session /\ k.at = l.at /\ k.todo = <<"forget">>
          /\ k.short = l.short /\ k.long = long /\ k.instant = Active(l.session, l.at)
          /\ k.forgotten = l.forgotten /\ k.start = l.start
      BY <3>2, <3>4 DEF Listing
    <3>6. /\ k.short \subseteq {m \in short : SessionOf[m] = k.session}
          /\ k.long \subseteq long /\ k.forgotten \subseteq forgotten
          /\ \A m \in Call : <<"short_term", m>> \in k.start =>
                m \in short /\ SessionOf[m] = k.session /\ k.at < ExpiresAt(m) /\ m \in k.short
          /\ \A m \in Call : <<"long_term", m>> \in k.start => m \in long
      BY <2>1, <2>4, <3>5 DEF ListHolds, ListOrder
    <3>7. /\ \A m \in k.short : m \notin k.long /\ k.at < ExpiresAt(m) /\ <<"short_term", m>> \notin forgotten
                => <<"short_term", m>> \in k.instant
          /\ \A m \in k.long : <<"long_term", m>> \notin forgotten => <<"long_term", m>> \in k.instant
      BY <2>2, <3>5, <3>6, ActiveIs DEF RInv
    <3>8. ListHolds(k)
      BY <3>5, <3>6, <3>7 DEF ListHolds
    <3> QED BY <3>4, <3>8
  <2>5. CASE l.todo = <<"forget">>
    <3>1. Head(l.todo) = "forget" /\ Tail(l.todo) = <<>>
      BY <2>5
    <3>2. listing' = [[l EXCEPT !.todo = <<>>] EXCEPT !.forgotten = forgotten]
      BY <1>2, <2>1, <3>1 DEF ListRead, Listing
    <3>3. PICK k \in Listing : k = listing'
      BY <2>2, <3>2 DEF Listing
    <3>4. /\ k.session = l.session /\ k.at = l.at /\ k.todo = <<>>
          /\ k.short = l.short /\ k.long = l.long /\ k.instant = l.instant
          /\ k.forgotten = forgotten /\ k.start = l.start
      BY <3>2, <3>3 DEF Listing
    <3>5. ListHolds(k)
      BY <2>1, <2>5, <3>4 DEF ListHolds, ListOrder
    <3> QED BY <3>3, <3>5
  <2> QED BY <2>1, <2>3, <2>4, <2>5 DEF Listing
<1> QED BY <1>1, <1>2

(* Hence a grant stays usable, whatever CURRENT becomes.                   *)
LEMMA GrantStays ==
    ASSUME Next \/ UNCHANGED vars
    PROVE  \A d \in Disclosure : GrantOK(d) => GrantOK(d)'
BY Grows DEF GrantOK, Disclosure, Verifies, Resolves, Visible

(* A new grant is put at the end, and may push out the oldest.             *)
LEMMA RegisterKeeps ==
    ASSUME NEW d \in Disclosure, grants \in Seq(Disclosure), Len(grants) <= MaxGrants,
           \A i, j \in DOMAIN grants : grants[i] = grants[j] => i = j
    PROVE  /\ Register(d) \in Seq(Disclosure)
           /\ Len(Register(d)) <= MaxGrants
           /\ \A i, j \in DOMAIN Register(d) : Register(d)[i] = Register(d)[j] => i = j
           /\ \E i \in DOMAIN Register(d) : Register(d)[i] = d
           /\ \A i \in DOMAIN Register(d) : Register(d)[i] = d \/ \E j \in DOMAIN grants : Register(d)[i] = grants[j]
<1> USE GrantAssumption
<1>1. CASE d \in Registered
  BY <1>1 DEF Register, Registered
<1>2. CASE d \notin Registered /\ Len(grants) < MaxGrants
  <2>1. Register(d) = Append(grants, d) /\ \A i \in DOMAIN grants : grants[i] # d
    BY <1>2 DEF Register, Registered
  <2>2. /\ Append(grants, d) \in Seq(Disclosure) /\ Len(Append(grants, d)) = Len(grants) + 1
        /\ \A i \in 1 .. Len(grants) : Append(grants, d)[i] = grants[i]
        /\ Append(grants, d)[Len(grants) + 1] = d
    OBVIOUS
  <2>3. DOMAIN grants = 1 .. Len(grants) /\ DOMAIN Append(grants, d) = 1 .. Len(grants) + 1 /\ Len(grants) \in Nat
    BY <2>2
  <2> HIDE DEF Register
  <2> QED BY <1>2, <2>1, <2>2, <2>3
<1>3. CASE d \notin Registered /\ Len(grants) >= MaxGrants
  <2>1. Register(d) = Append(Tail(grants), d) /\ \A i \in DOMAIN grants : grants[i] # d
    BY <1>3 DEF Register, Registered
  <2>2. Len(grants) = MaxGrants /\ DOMAIN grants = 1 .. MaxGrants
    BY <1>3
  <2>3. /\ Append(Tail(grants), d) \in Seq(Disclosure) /\ Len(Append(Tail(grants), d)) = MaxGrants
        /\ \A i \in 1 .. MaxGrants - 1 : Append(Tail(grants), d)[i] = grants[i + 1]
        /\ Append(Tail(grants), d)[MaxGrants] = d
    <3>1. grants # <<>>
      BY <2>2
    <3>2. Tail(grants) \in Seq(Disclosure) /\ Len(Tail(grants)) = MaxGrants - 1
          /\ \A i \in 1 .. MaxGrants - 1 : Tail(grants)[i] = grants[i + 1]
      BY <2>2, <3>1
    <3> QED BY <3>2
  <2>4. DOMAIN Append(Tail(grants), d) = 1 .. MaxGrants
    BY <2>3
  <2> QED BY <2>1, <2>2, <2>3, <2>4
<1> QED BY <1>1, <1>2, <1>3

(* The readers start with an empty registry, and do not write.             *)
LEMMA RetrievalInitially == ReaderInit => RInv
BY Initially, GrantAssumption DEF ReaderInit, RInv, Granted, ListHeld, LatestSearchOpens, Registered

(* A step is a step of the writers, or leaves what they write alone.       *)
LEMMA WritersMove ==
    ASSUME [RetrievalNext]_<<vars, readerVars>>
    PROVE  Next \/ UNCHANGED vars
BY DEF RetrievalNext, Search, Clear, ListBegin, ListRead, ListReturn

(* What a list has read is as right after a step that writes nothing.      *)
LEMMA ReadsOnly ==
    ASSUME NEW l \in Listing, ListHolds(l), UNCHANGED vars
    PROVE  ListHolds(l)'
BY DEF vars, store, ListHolds, ExpiresAt

LEMMA GrantsKeep == ASSUME RInv, [RetrievalNext]_<<vars, readerVars>> PROVE Granted'
<1>1. \A d \in Disclosure : GrantOK(d) => GrantOK(d)'
  BY WritersMove, GrantStays
<1>2. CASE UNCHANGED <<grants, latest>>
  <2>1. \A i \in DOMAIN grants : grants[i] \in Disclosure
    BY DEF RInv, Granted
  <2> QED BY <1>1, <1>2, <2>1 DEF RInv, Granted, LatestSearchOpens, Registered
<1>3. ASSUME NEW s \in Session, Search(s)
      PROVE  Granted'
  <2>1. CASE grants' = grants /\ latest' = latest
    BY <1>2, <2>1
  <2>2. CASE ~(grants' = grants /\ latest' = latest)
    <3>1. PICK items \in SUBSET Visible(current, s) :
            /\ grants' = Register([session |-> s, generation |-> current, items |-> items])
            /\ latest' = [session |-> s, generation |-> current, items |-> items]
      BY <1>3, <2>2 DEF Search
    <3> DEFINE d == [session |-> s, generation |-> current, items |-> items]
    <3>2. current \in Generation /\ current # None /\ Verifies(current)
      BY <1>3, <2>2 DEF Search, RInv, IInv, TypeOK
    <3>3. Visible(current, s) \subseteq Ref
      BY <3>2 DEF Visible, Ref, Tier, Generation
    <3>4. PICK e \in Disclosure : e = d
      BY <3>2, <3>3 DEF Disclosure
    <3>5. GrantOK(e)
      BY <3>2, <3>4 DEF GrantOK
    <3>6. grants' = Register(e) /\ latest' = e
      BY <3>1, <3>4
    <3> HIDE DEF d
    <3>7. /\ Register(e) \in Seq(Disclosure)
          /\ Len(Register(e)) <= MaxGrants
          /\ \A i, j \in DOMAIN Register(e) : Register(e)[i] = Register(e)[j] => i = j
          /\ \E i \in DOMAIN Register(e) : Register(e)[i] = e
          /\ \A i \in DOMAIN Register(e) : Register(e)[i] = e \/ \E j \in DOMAIN grants : Register(e)[i] = grants[j]
      BY RegisterKeeps DEF RInv, Granted, LatestSearchOpens
    <3>8. \A i \in DOMAIN grants : grants[i] \in Disclosure /\ GrantOK(grants[i])
      BY DEF RInv, Granted
    <3>9. ASSUME NEW i \in DOMAIN grants'
          PROVE  GrantOK(grants[i])'
      <4>1. PICK k \in Disclosure : grants'[i] = k /\ GrantOK(k)
        BY <3>5, <3>6, <3>7, <3>8
      <4>2. GrantOK(k)'
        BY <4>1, <1>1
      <4> QED BY <4>1, <4>2 DEF GrantOK
    <3> QED BY <3>6, <3>7, <3>9 DEF Granted, LatestSearchOpens, Registered
  <2> QED BY <2>1, <2>2
<1>4. CASE Clear
  BY <1>4, GrantAssumption DEF Clear, Granted, LatestSearchOpens, Registered
<1> QED BY <1>2, <1>3, <1>4 DEF RetrievalNext, readerVars, ListBegin, ListRead, ListReturn

LEMMA RetrievalKeeps == RInv /\ [RetrievalNext]_<<vars, readerVars>> => RInv'
<1> SUFFICES ASSUME RInv, [RetrievalNext]_<<vars, readerVars>> PROVE RInv'
  OBVIOUS
<1>1. IInv' /\ Granted'
  BY WritersMove, NextKeeps, StandsStill, GrantsKeep DEF RInv
<1>2. ASSUME listing' = listing
      PROVE  ListHeld'
  <2>1. CASE listing = None
    BY <1>2, <2>1 DEF ListHeld
  <2>2. CASE listing # None
    <3>1. PICK l \in Listing : l = listing /\ ListHolds(l)
      BY <2>2 DEF RInv, ListHeld
    <3>2. ListHolds(l)'
      BY <3>1, WritersMove, ListStays DEF RInv
    <3>3. listing' = l
      BY <1>2, <3>1
    <3>4. ListHolds(listing)'
      BY <3>2, <3>3 DEF ListHolds
    <3> QED BY <3>3, <3>4 DEF ListHeld
  <2> QED BY <2>1, <2>2
<1>3. ASSUME (\E s \in Session, at \in Nat : ListBegin(s, at)) \/ ListRead
      PROVE  ListHeld'
  <2>1. PICK l \in Listing : l = listing' /\ ListHolds(l)
    BY <1>3, ListReads
  <2>2. UNCHANGED vars
    BY <1>3 DEF ListBegin, ListRead
  <2>3. ListHolds(l)'
    BY <2>1, <2>2, ReadsOnly
  <2>4. ListHolds(listing)'
    BY <2>1, <2>3 DEF ListHolds
  <2> QED BY <2>1, <2>4 DEF ListHeld
<1>4. \A at \in {t.at : t \in UNION {Work[c] : c \in Call}} : at \in Nat
  BY WorkAssumption DEF Task
<1>5. ASSUME ListReturn
      PROVE  ListHeld'
  BY <1>5 DEF ListReturn, ListHeld
<1>6. ListHeld'
  BY <1>2, <1>3, <1>4, <1>5 DEF RetrievalNext, readerVars, listVars, Search, Clear
<1> QED BY <1>1, <1>6 DEF RInv

(* In every reachable state, for any values of the constants.              *)
THEOREM Invariance == RetrievalSpec => []RInv
BY RetrievalInitially, RetrievalKeeps, PTL DEF RetrievalSpec

-----------------------------------------------------------------------------
(* Whatever fails or dies, CURRENT names a generation that verifies.       *)
THEOREM Verified == RetrievalSpec => []CurrentVerifies
<1>1. RInv => CurrentVerifies
  BY DEF RInv, IInv, Whole, CurrentVerifies
<1> QED BY <1>1, Invariance, PTL

(* What remember, promote and forget have answered holds in CURRENT for    *)
(* good, whichever process compiles next and whatever it reads.            *)
THEOREM Answers == RetrievalSpec => []ServesAnswers
<1>1. ASSUME RInv, NEW c \in Call, result[c] = "ok"
      PROVE  current # None /\ Fits(current, c)
  BY <1>1 DEF RInv, IInv, Serving
<1>2. RInv => ServesAnswers
  BY <1>1 DEF ServesAnswers, AcknowledgedServed, ForgottenHidden, PromotionReplacesSource,
     Answered, Fits
<1> QED BY <1>2, Invariance, PTL

(* What a search disclosed opens for as long as its grant is registered.   *)
THEOREM Openable == RetrievalSpec => []DisclosedOpens
<1>1. ASSUME RInv PROVE GrantsStayOpenable
  <2> SUFFICES ASSUME NEW d \in Registered
               PROVE  /\ Verifies(d.generation)
                      /\ \A s \in Session, ref \in d.items :
                            OpenOutcome(s, d, ref) = IF s = d.session THEN "body" ELSE "other scope"
    BY DEF GrantsStayOpenable
  <2>1. GrantOK(d)
    BY <1>1 DEF RInv, Granted, Registered
  <2>2. ASSUME NEW ref \in d.items PROVE Serves(d.generation, ref)
    <3>1. ref \in Visible(d.generation, d.session) /\ d.generation \in Generation
      BY <2>1 DEF GrantOK, Disclosure
    <3> QED BY <3>1, NoneAssumption DEF Visible, Serves
  <2> QED BY <2>1, <2>2 DEF GrantOK, OpenOutcome
<1>2. RInv => DisclosedOpens
  BY <1>1 DEF RInv, Granted, DisclosedOpens
<1> QED BY <1>2, Invariance, PTL

(* A list, though it reads three directories while others write, answers   *)
(* as of the instant at which it read the long-term facts.                 *)
THEOREM ListsOneInstant == RetrievalSpec => []ListIsOfOneInstant
<1>1. ASSUME RInv, listing # None, listing.todo = <<>>
      PROVE  LET now  == Active(listing.session, listing.at)
                 seen == Listed(listing)
             IN /\ seen \subseteq listing.instant
                /\ listing.start \cap now \subseteq seen
                /\ \A m \in Call :
                      /\ <<"short_term", m>> \in listing.start /\ <<"short_term", m>> \notin forgotten
                      /\ <<"long_term", m>> \in now
                      => <<"short_term", m>> \in seen \/ <<"long_term", m>> \in seen
  <2>1. PICK l \in Listing : l = listing /\ l.todo = <<>> /\ ListHolds(l)
    BY <1>1 DEF RInv, ListHeld
  <2>2. l.session \in Session /\ l.at \in Nat /\ l.short \subseteq Call /\ l.long \subseteq Call
        /\ l.start \subseteq Ref
    BY DEF Listing
  <2> DEFINE now  == Active(l.session, l.at)
             seen == Listed(l)
  <2>3. \A m \in Call : <<"short_term", m>> \in seen <=>
           /\ m \in l.short /\ m \notin l.long /\ <<"short_term", m>> \notin l.forgotten
           /\ ~(l.at >= ExpiresAt(m))
    BY DEF Listed, StateOf
  <2>4. \A m \in Call : <<"long_term", m>> \in seen <=> m \in l.long /\ <<"long_term", m>> \notin l.forgotten
    BY DEF Listed, StateOf
  <2>5. seen \subseteq Ref
    BY <2>2 DEF Listed, Ref, Tier
  <2>6. \A m \in Call : /\ m \in l.short => m \in short
                        /\ m \in short => ExpiresAt(m) \in Nat
    BY <1>1, <2>1, Ends DEF RInv, ListHolds
  <2>7. /\ \A m \in Call : <<"short_term", m>> \in now =>
              m \notin long /\ <<"short_term", m>> \notin forgotten
        /\ \A m \in Call : <<"long_term", m>> \in now => m \in long /\ <<"long_term", m>> \notin forgotten
    BY ActiveIs, <1>1, <2>2 DEF RInv
  <2> HIDE DEF now, seen
  <2>8. /\ l.long \subseteq long /\ l.forgotten \subseteq forgotten
        /\ \A m \in Call : <<"short_term", m>> \in l.start => m \in l.short /\ l.at < ExpiresAt(m)
        /\ \A m \in Call : <<"long_term", m>> \in l.start => m \in l.long
    BY <2>1 DEF ListHolds, ListOrder
  <2>9. /\ \A m \in l.short : m \notin l.long /\ l.at < ExpiresAt(m) /\ <<"short_term", m>> \notin l.forgotten
              => <<"short_term", m>> \in l.instant
        /\ \A m \in l.long : <<"long_term", m>> \notin l.forgotten => <<"long_term", m>> \in l.instant
    BY <2>1 DEF ListHolds
  <2>10. ASSUME NEW ref \in Ref
         PROVE  \E m \in Call : ref = <<"short_term", m>> \/ ref = <<"long_term", m>>
    BY DEF Ref, Tier
  <2>11. \A m \in l.short : l.at < ExpiresAt(m) <=> ~(l.at >= ExpiresAt(m))
    BY <2>2, <2>6
  <2>12. seen \subseteq l.instant
    BY ONLY <2>2, <2>3, <2>4, <2>5, <2>9, <2>10, <2>11
  <2>13. l.start \cap now \subseteq seen
    BY ONLY <2>2, <2>3, <2>4, <2>7, <2>8, <2>10, <2>11
  <2>14. \A m \in Call :
            /\ <<"short_term", m>> \in l.start /\ <<"short_term", m>> \notin forgotten
            /\ <<"long_term", m>> \in now
            => <<"short_term", m>> \in seen \/ <<"long_term", m>> \in seen
    BY ONLY <2>2, <2>3, <2>4, <2>7, <2>8, <2>11
  <2> QED BY <2>1, <2>12, <2>13, <2>14 DEF now, seen
<1>2. RInv => ListIsOfOneInstant
  BY <1>1 DEF ListIsOfOneInstant
<1> QED BY <1>2, Invariance, PTL
=============================================================================
