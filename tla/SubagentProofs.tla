--------------------------- MODULE SubagentProofs ---------------------------
(***************************************************************************)
(* In whatever order creation, abort, timer and continuation come: every   *)
(* child the host delivers is disposed of, none is taken from a run that   *)
(* goes on with it unaborted, and each step of a run is a step of the call *)
(* that ChildCall promises, or none.                                       *)
(***************************************************************************)
EXTENDS SubagentRun, TLAPS

(* A creation settles once and the function is continued once: no queue    *)
(* holds two of these reactions.                                           *)
Has(queue, j) == \E i \in DOMAIN queue : queue[i] = j
Once(queue) ==
    \A i, k \in DOMAIN queue :
        queue[i] = queue[k] /\ queue[i] \in {"created", "continue"} => i = k

Due(j) == Has(jobs, j)
DueOnce == Once(jobs)

(* Where the function waits, against the race and its continuation. *)
RaceKept ==
    /\ pc = "start" => creation = "none" /\ race = "open"
    /\ creation = "none" => jobs = <<>>
    /\ pc = "creating" => creation # "none" /\ (Due("continue") <=> race # "open")
    /\ pc # "creating" => ~Due("continue")
    /\ pc \in {"waiting", "working", "disposing"} => race = "handle"
    /\ pc = "ended" /\ creation # "none" => race # "open"
    /\ race = "handle" => creation = "resolved" /\ ~Due("created")
    /\ Due("created") => creation = "resolved"

(* Why the race was lost: no handle will be taken, and one that comes is   *)
(* disposed of.                                                            *)
LossKnown ==
    /\ Due("createFailed") \/ race = "createFailed" => creation = "rejected"
    /\ Due("parentAborted") \/ race = "parentAborted" => cancelled
    /\ Due("timedOut") \/ race = "timedOut" => timedOut
    /\ cancelled => aborted

(* A timer that has fired in an open race is the next reaction: the queue  *)
(* was empty.                                                              *)
TimeoutFirst == timedOut /\ race = "open" => jobs # <<>> /\ jobs[1] = "timedOut"

(* A delivered child waits for its reaction, or is used, or was disposed   *)
(* of; each of the two disposals happens once.                             *)
Delivered ==
    /\ creation = "resolved" /\ disposals = 0 =>
          Due("created") \/ (race = "handle" /\ pc \in {"creating", "waiting", "working"})
    /\ creation # "resolved" \/ Due("created") => disposals = 0
    /\ pc \notin {"disposing", "ended"} \/ race # "handle" => disposals <= 1
    /\ pc = "disposing" => disposals > 0
    /\ race = "handle" /\ disposals > 0 /\ pc \in {"creating", "waiting", "working"} => aborted

IInv == TypeOK /\ DueOnce /\ RaceKept /\ LossKnown /\ TimeoutFirst /\ Delivered

-----------------------------------------------------------------------------
(* The queue of reactions.                                                 *)

(* What a reaction made due adds to a queue. *)
LEMMA Appended ==
    ASSUME NEW q \in Seq(Jobs), NEW j \in Jobs
    PROVE  /\ Append(q, j) \in Seq(Jobs) /\ Append(q, j) # <<>>
           /\ Append(q, j)[1] = IF q = <<>> THEN j ELSE q[1]
           /\ \A k : Has(Append(q, j), k) <=> (Has(q, k) \/ k = j)
           /\ Once(q) /\ (j \in {"created", "continue"} => ~Has(q, j)) => Once(Append(q, j))
<1> DEFINE r == Append(q, j)
<1>1. r \in Seq(Jobs) /\ Len(q) \in Nat /\ Len(r) = Len(q) + 1
  OBVIOUS
<1>2. DOMAIN q = 1 .. Len(q) /\ DOMAIN r = 1 .. (Len(q) + 1)
  BY <1>1
<1>3. \A i \in 1 .. Len(q) : r[i] = q[i]
  OBVIOUS
<1>4. r[Len(q) + 1] = j
  OBVIOUS
<1>5. Len(q) = 0 <=> q = <<>>
  OBVIOUS
<1> HIDE DEF r
<1>6. r # <<>> /\ r[1] = IF q = <<>> THEN j ELSE q[1]
  BY <1>1, <1>3, <1>4, <1>5
<1>7. \A k : Has(r, k) <=> (Has(q, k) \/ k = j)
  BY <1>1, <1>2, <1>3, <1>4 DEF Has
<1>8. ASSUME Once(q), j \in {"created", "continue"} => ~Has(q, j) PROVE Once(r)
  BY <1>1, <1>2, <1>3, <1>4, <1>8 DEF Has, Once
<1> QED BY <1>1, <1>6, <1>7, <1>8 DEF r

(* What the reaction that runs leaves of it. *)
LEMMA Taken ==
    ASSUME NEW q \in Seq(Jobs), q # <<>>
    PROVE  /\ Tail(q) \in Seq(Jobs) /\ Head(q) = q[1] /\ Has(q, Head(q))
           /\ \A k : Has(Tail(q), k) => Has(q, k)
           /\ \A k : Has(q, k) /\ k # Head(q) => Has(Tail(q), k)
           /\ Once(q) => Once(Tail(q))
           /\ Once(q) /\ Head(q) \in {"created", "continue"} => ~Has(Tail(q), Head(q))
<1> DEFINE r == Tail(q)
<1>1. r \in Seq(Jobs) /\ Len(q) \in Nat \ {0} /\ Len(r) = Len(q) - 1 /\ Head(q) = q[1]
  OBVIOUS
<1>2. DOMAIN q = 1 .. Len(q) /\ DOMAIN r = 1 .. (Len(q) - 1)
  BY <1>1
<1>3. \A i \in 1 .. (Len(q) - 1) : r[i] = q[i + 1]
  OBVIOUS
<1> HIDE DEF r
<1>4. Has(q, Head(q))
  BY <1>1, <1>2 DEF Has
<1>5. ASSUME NEW k, Has(r, k) PROVE Has(q, k)
  <2>1. PICK i \in 1 .. (Len(q) - 1) : r[i] = k
    BY <1>2, <1>5 DEF Has
  <2>2. i + 1 \in DOMAIN q /\ q[i + 1] = k
    BY <1>1, <1>2, <1>3, <2>1
  <2> QED BY <2>2 DEF Has
<1>6. ASSUME NEW k, Has(q, k), k # Head(q) PROVE Has(r, k)
  <2>1. PICK i \in 1 .. Len(q) : q[i] = k
    BY <1>2, <1>6 DEF Has
  <2>2. i - 1 \in DOMAIN r /\ r[i - 1] = q[(i - 1) + 1] /\ (i - 1) + 1 = i
    BY <1>1, <1>2, <1>3, <1>6, <2>1
  <2> QED BY <2>1, <2>2 DEF Has
<1>7. ASSUME Once(q) PROVE Once(r)
  <2> SUFFICES ASSUME NEW i \in DOMAIN r, NEW k \in DOMAIN r, r[i] = r[k],
                      r[i] \in {"created", "continue"}
               PROVE  i = k
    BY DEF Once
  <2>1. i + 1 \in DOMAIN q /\ k + 1 \in DOMAIN q /\ q[i + 1] = q[k + 1] /\ q[i + 1] = r[i]
    BY <1>1, <1>2, <1>3
  <2>2. i + 1 = k + 1
    BY <1>7, <2>1 DEF Once
  <2> QED BY <1>1, <1>2, <2>2
<1>8. ASSUME Once(q), Head(q) \in {"created", "continue"}, Has(r, Head(q)) PROVE FALSE
  <2>1. PICK i \in 1 .. (Len(q) - 1) : r[i] = Head(q)
    BY <1>2, <1>8 DEF Has
  <2>2. i + 1 \in DOMAIN q /\ 1 \in DOMAIN q /\ q[i + 1] = q[1] /\ q[1] \in {"created", "continue"}
    BY <1>1, <1>2, <1>3, <1>8, <2>1
  <2>3. i + 1 = 1
    BY <1>8, <2>2 DEF Once
  <2> QED BY <2>1, <2>3
<1> QED BY <1>1, <1>4, <1>5, <1>6, <1>7, <1>8 DEF r

(* An empty queue. *)
LEMMA EmptyQueue == <<>> \in Seq(Jobs) /\ Once(<<>>) /\ \A k : ~Has(<<>>, k)
BY DEF Once, Has

(* A queue of one reaction. *)
LEMMA Single ==
    ASSUME NEW j \in Jobs
    PROVE  <<j>> \in Seq(Jobs) /\ Once(<<j>>) /\ <<j>>[1] = j /\ <<j>> # <<>> /\ \A k : Has(<<j>>, k) <=> k = j
BY DEF Once, Has

-----------------------------------------------------------------------------
(* The steps.                                                              *)

(* The type invariant, its flags one by one. *)
Flags ==
    /\ deferred \in BOOLEAN /\ aborted \in BOOLEAN /\ createAborted \in BOOLEAN
    /\ cancelled \in BOOLEAN /\ timedOut \in BOOLEAN /\ busy \in BOOLEAN

Labels ==
    /\ pc \in {"start", "creating", "waiting", "working", "disposing", "ended"}
    /\ result \in {"none", "output", "aborted", "timeout", "unavailable"}
    /\ creation \in {"none", "deferred", "pending", "resolved", "rejected"}
    /\ race \in {"open", "handle", "createFailed", "parentAborted", "timedOut"}
    /\ child \in {"none", "live", "disposing", "gone"}
    /\ disposals \in 0 .. 2

LEMMA TypeParts == TypeOK <=> Flags /\ Labels /\ jobs \in Seq(Jobs)
<1>1. {deferred, aborted, createAborted, cancelled, timedOut, busy} \subseteq BOOLEAN <=> Flags
  BY Zenon DEF Flags
<1> QED BY <1>1, Zenon DEF TypeOK, Labels

LEMMA TypePartsNext == Flags' /\ Labels' /\ jobs' \in Seq(Jobs) => TypeOK'
<1>1. Flags' => {deferred, aborted, createAborted, cancelled, timedOut, busy}' \subseteq BOOLEAN
  BY Zenon DEF Flags
<1> QED BY <1>1, Zenon DEF TypeOK, Labels

(* Nothing has happened at the start. *)
LEMMA Initially == Init => IInv
<1> SUFFICES ASSUME Init PROVE IInv
  OBVIOUS
<1>1. Flags
  BY Zenon DEF Init, Flags
<1>2. Labels /\ jobs \in Seq(Jobs)
  BY EmptyQueue DEF Init, Labels
<1>3. TypeOK
  BY <1>1, <1>2, TypeParts
<1> QED BY <1>3, EmptyQueue DEF Init, IInv, DueOnce, RaceKept, LossKnown, TimeoutFirst, Delivered, Due

(* A step that leaves the queue as it is keeps what is due. *)
LEMMA SameQueue ==
    ASSUME IInv, jobs' = jobs
    PROVE  jobs' \in Seq(Jobs) /\ DueOnce' /\ \A k : Due(k)' <=> Due(k)
BY DEF IInv, TypeOK, DueOnce, Due

(* A step that makes a reaction due. *)
LEMMA MadeDue ==
    ASSUME IInv, NEW j \in Jobs, jobs' = Append(jobs, j), j \in {"created", "continue"} => ~Due(j)
    PROVE  /\ jobs' \in Seq(Jobs) /\ DueOnce' /\ jobs' # <<>>
           /\ \A k : Due(k)' <=> (Due(k) \/ k = j)
           /\ jobs # <<>> => jobs'[1] = jobs[1]
           /\ jobs = <<>> => jobs'[1] = j
BY Appended DEF IInv, TypeOK, DueOnce, Due

(* A step that runs a reaction, and maybe makes one due. *)
LEMMA Ran ==
    ASSUME IInv, jobs # <<>>, jobs' = Tail(jobs)
    PROVE  /\ jobs' \in Seq(Jobs) /\ DueOnce' /\ jobs[1] = Head(jobs) /\ Due(Head(jobs))
           /\ \A k : Due(k)' => Due(k)
           /\ \A k : Due(k) /\ k # Head(jobs) => Due(k)'
           /\ \A k : k = Head(jobs) /\ k \in {"created", "continue"} => ~Due(k)'
BY Taken DEF IInv, TypeOK, DueOnce, Due

(* A reaction that settles the race makes the continuation due. *)
LEMMA RanOn ==
    ASSUME IInv, jobs # <<>>, jobs' = Append(Tail(jobs), "continue"), ~Due("continue")
    PROVE  /\ jobs' \in Seq(Jobs) /\ DueOnce' /\ jobs[1] = Head(jobs) /\ Due(Head(jobs))
           /\ Due("continue")'
           /\ \A k : Due(k)' => (Due(k) \/ k = "continue")
           /\ \A k : Due(k) /\ k # Head(jobs) => Due(k)'
           /\ \A k : k = Head(jobs) /\ k \in {"created", "continue"} => ~Due(k)'
<1> DEFINE q == Tail(jobs)
<1>1. /\ q \in Seq(Jobs) /\ Head(jobs) = jobs[1] /\ Due(Head(jobs)) /\ Once(q)
      /\ \A k : Has(q, k) => Due(k)
      /\ \A k : Due(k) /\ k # Head(jobs) => Has(q, k)
      /\ Head(jobs) \in {"created", "continue"} => ~Has(q, Head(jobs))
  BY Taken DEF IInv, TypeOK, DueOnce, Due
<1>2. "continue" \in Jobs /\ ~Has(q, "continue")
  BY <1>1 DEF Jobs
<1> HIDE DEF q
<1>3. /\ Append(q, "continue") \in Seq(Jobs) /\ Once(Append(q, "continue"))
      /\ \A k : Has(Append(q, "continue"), k) <=> (Has(q, k) \/ k = "continue")
  BY <1>1, <1>2, Appended
<1>4. jobs' = Append(q, "continue")
  BY DEF q
<1>5. Head(jobs) # "continue"
  BY <1>1
<1> QED BY <1>1, <1>3, <1>4, <1>5 DEF DueOnce, Due

(* The run begins. *)
LEMMA EnterStep == ASSUME IInv, Enter PROVE IInv'
<1> USE DEF IInv
<1>0. Flags /\ Labels
  BY TypeParts
<1>1. Flags'
  BY <1>0, Zenon DEF Enter, Flags, flags
<1>2. jobs' \in Seq(Jobs) /\ DueOnce' /\ \A k : Due(k)' <=> Due(k)
  BY SameQueue DEF Enter
<1>4. TypeOK'
  BY <1>0, <1>1, <1>2, TypePartsNext DEF Enter, Labels, flags, Delivered, RaceKept
<1>5. RaceKept'
  BY <1>0, <1>2 DEF Enter, RaceKept, flags, Labels
<1>6. LossKnown' /\ TimeoutFirst'
  BY <1>0, <1>2 DEF Enter, RaceKept, LossKnown, TimeoutFirst, flags, Labels
<1>7. Delivered'
  BY <1>0, <1>2 DEF Enter, RaceKept, LossKnown, Delivered, flags, Labels
<1> QED BY <1>2, <1>4, <1>5, <1>6, <1>7

(* A child is delivered. *)
LEMMA CreatedStep == ASSUME IInv, Created PROVE IInv'
<1> USE DEF IInv
<1>0. Flags /\ Labels
  BY TypeParts
<1>1. Flags'
  BY <1>0, Zenon DEF Created, Flags, flags
<1>3. jobs' = Append(jobs, "created") /\ "created" \in Jobs /\ ~Due("created")
  BY DEF Created, Jobs, RaceKept
<1>2. /\ jobs' \in Seq(Jobs) /\ DueOnce' /\ jobs' # <<>>
      /\ \A k : Due(k)' <=> (Due(k) \/ k = "created")
      /\ jobs # <<>> => jobs'[1] = jobs[1]
  BY <1>3, MadeDue
<1>4. TypeOK'
  BY <1>0, <1>1, <1>2, TypePartsNext DEF Created, Labels, flags, Delivered, RaceKept
<1>5. RaceKept'
  BY <1>0, <1>2 DEF Created, RaceKept, flags, Labels
<1>6. LossKnown' /\ TimeoutFirst'
  BY <1>0, <1>2 DEF Created, RaceKept, LossKnown, TimeoutFirst, flags, Labels
<1>7. Delivered'
  BY <1>0, <1>2 DEF Created, RaceKept, LossKnown, Delivered, flags, Labels
<1> QED BY <1>2, <1>4, <1>5, <1>6, <1>7

(* No child is delivered. *)
LEMMA CreateFailsStep == ASSUME IInv, CreateFails PROVE IInv'
<1> USE DEF IInv
<1>0. Flags /\ Labels
  BY TypeParts
<1>1. Flags'
  BY <1>0, Zenon DEF CreateFails, Flags, flags
<1>3. jobs' = Append(jobs, "createFailed") /\ "createFailed" \in Jobs
  BY DEF CreateFails, Jobs, RaceKept
<1>2. /\ jobs' \in Seq(Jobs) /\ DueOnce' /\ jobs' # <<>>
      /\ \A k : Due(k)' <=> (Due(k) \/ k = "createFailed")
      /\ jobs # <<>> => jobs'[1] = jobs[1]
  BY <1>3, MadeDue
<1>4. TypeOK'
  BY <1>0, <1>1, <1>2, TypePartsNext DEF CreateFails, Labels, flags, Delivered, RaceKept
<1>5. RaceKept'
  BY <1>0, <1>2 DEF CreateFails, RaceKept, flags, Labels
<1>6. LossKnown' /\ TimeoutFirst'
  BY <1>0, <1>2 DEF CreateFails, RaceKept, LossKnown, TimeoutFirst, flags, Labels
<1>7. Delivered'
  BY <1>0, <1>2 DEF CreateFails, RaceKept, LossKnown, Delivered, flags, Labels
<1> QED BY <1>2, <1>4, <1>5, <1>6, <1>7

(* A disposal settles. *)
LEMMA DisposedStep == ASSUME IInv, Disposed PROVE IInv'
<1> USE DEF IInv
<1>0. Flags /\ Labels
  BY TypeParts
<1>1. Flags'
  BY <1>0, Zenon DEF Disposed, Flags, flags
<1>2. jobs' \in Seq(Jobs) /\ DueOnce' /\ \A k : Due(k)' <=> Due(k)
  BY SameQueue DEF Disposed
<1>4. TypeOK'
  BY <1>0, <1>1, <1>2, TypePartsNext DEF Disposed, Labels, flags, Delivered, RaceKept
<1>5. RaceKept'
  BY <1>0, <1>2 DEF Disposed, RaceKept, flags, Labels
<1>6. LossKnown' /\ TimeoutFirst'
  BY <1>0, <1>2 DEF Disposed, RaceKept, LossKnown, TimeoutFirst, flags, Labels
<1>7. Delivered'
  BY <1>0, <1>2 DEF Disposed, RaceKept, LossKnown, Delivered, flags, Labels
<1> QED BY <1>2, <1>4, <1>5, <1>6, <1>7

(* The signal of the caller. *)
LEMMA AbortStep == ASSUME IInv, Abort PROVE IInv'
<1> USE DEF IInv
<1>0. Flags /\ Labels
  BY TypeParts
<1>1. Flags'
  BY <1>0, Zenon DEF Abort, Flags, flags
<1>2. CASE pc = "creating"
  <2>1. jobs' = Append(jobs, "parentAborted") /\ "parentAborted" \in Jobs
    BY <1>2 DEF Abort, Jobs
  <2>2. /\ jobs' \in Seq(Jobs) /\ DueOnce' /\ jobs' # <<>>
        /\ \A k : Due(k)' <=> (Due(k) \/ k = "parentAborted")
        /\ jobs # <<>> => jobs'[1] = jobs[1]
    BY <2>1, MadeDue
  <2>3. TypeOK'
    BY <1>0, <1>1, <2>2, TypePartsNext DEF Abort, Labels, flags
  <2>4. RaceKept' /\ LossKnown' /\ TimeoutFirst' /\ Delivered'
    BY <1>0, <1>2, <2>2 DEF Abort, RaceKept, LossKnown, TimeoutFirst, Delivered, flags, Labels
  <2> QED BY <2>2, <2>3, <2>4
<1>3. CASE pc # "creating"
  <2>2. jobs' \in Seq(Jobs) /\ DueOnce' /\ \A k : Due(k)' <=> Due(k)
    BY <1>3, SameQueue DEF Abort
  <2>3. TypeOK'
    BY <1>0, <1>1, <1>3, <2>2, TypePartsNext DEF Abort, Labels, flags
  <2>4. RaceKept' /\ LossKnown' /\ TimeoutFirst' /\ Delivered'
    BY <1>0, <1>3, <2>2 DEF Abort, RaceKept, LossKnown, TimeoutFirst, Delivered, flags, Labels
  <2> QED BY <2>2, <2>3, <2>4
<1> QED BY <1>2, <1>3

(* The factory is called late. *)
LEMMA InvokeStep == ASSUME IInv, Invoke PROVE IInv'
<1> USE DEF IInv
<1>0. Flags /\ Labels
  BY TypeParts
<1>1. Flags'
  BY <1>0, Zenon DEF Invoke, Flags, flags
<1>9. jobs = <<>>
  BY DEF Invoke
<1>2. \A k : ~Due(k)
  BY <1>9, EmptyQueue DEF Due
<1>3. CASE createAborted
  <2>1. jobs' = <<"createFailed">> /\ "createFailed" \in Jobs
    BY <1>3 DEF Invoke, Jobs
  <2>2. /\ jobs' \in Seq(Jobs) /\ DueOnce' /\ jobs' # <<>>
        /\ \A k : Due(k)' <=> k = "createFailed"
    BY <2>1, Single DEF DueOnce, Due
  <2>3. TypeOK'
    BY <1>0, <1>1, <2>2, <1>3, TypePartsNext DEF Invoke, Labels, flags
  <2>4. RaceKept' /\ LossKnown' /\ TimeoutFirst' /\ Delivered'
    BY <1>0, <1>2, <1>3, <2>2 DEF Invoke, RaceKept, LossKnown, TimeoutFirst, Delivered, flags, Labels
  <2> QED BY <2>2, <2>3, <2>4
<1>4. CASE ~createAborted
  <2>2. jobs' \in Seq(Jobs) /\ DueOnce' /\ \A k : Due(k)' <=> Due(k)
    BY <1>4, SameQueue DEF Invoke
  <2>3. TypeOK'
    BY <1>0, <1>1, <1>4, <2>2, TypePartsNext DEF Invoke, Labels, flags
  <2>4. RaceKept' /\ LossKnown' /\ TimeoutFirst' /\ Delivered'
    BY <1>0, <1>4, <2>2 DEF Invoke, RaceKept, LossKnown, TimeoutFirst, Delivered, flags, Labels
  <2> QED BY <2>2, <2>3, <2>4
<1> QED BY <1>3, <1>4

(* The creation timer. *)
LEMMA CreateTimeoutStep == ASSUME IInv, CreateTimeout PROVE IInv'
<1> USE DEF IInv
<1>0. Flags /\ Labels
  BY TypeParts
<1>1. Flags'
  BY <1>0, Zenon DEF CreateTimeout, Flags, flags
<1>9. jobs = <<>>
  BY DEF CreateTimeout
<1>8. \A k : ~Due(k)
  BY <1>9, EmptyQueue DEF Due
<1>3. jobs' = <<"timedOut">> /\ "timedOut" \in Jobs
  BY DEF CreateTimeout, Jobs
<1>2. /\ jobs' \in Seq(Jobs) /\ DueOnce' /\ jobs' # <<>> /\ jobs'[1] = "timedOut"
      /\ \A k : Due(k)' <=> k = "timedOut"
  BY <1>3, Single DEF DueOnce, Due
<1>4. TypeOK'
  BY <1>0, <1>1, <1>2, TypePartsNext DEF CreateTimeout, Labels, flags, Delivered, RaceKept
<1>5. RaceKept'
  BY <1>0, <1>2, <1>8 DEF CreateTimeout, RaceKept, flags, Labels
<1>6. LossKnown' /\ TimeoutFirst'
  BY <1>0, <1>2, <1>8 DEF CreateTimeout, RaceKept, LossKnown, TimeoutFirst, flags, Labels
<1>7. Delivered'
  BY <1>0, <1>2, <1>8 DEF CreateTimeout, RaceKept, LossKnown, Delivered, flags, Labels
<1> QED BY <1>2, <1>4, <1>5, <1>6, <1>7

(* The handle reaches the race. *)
LEMMA CreatedReactionStep == ASSUME IInv, CreatedReaction PROVE IInv'
<1> USE DEF IInv
<1>0. Flags /\ Labels
  BY TypeParts
<1>1. Flags'
  BY <1>0, Zenon DEF CreatedReaction, Flags, flags, LateHandle, Settles
<1>2. CASE race = "open"
  <2>1. jobs # <<>> /\ jobs' = Append(Tail(jobs), "continue") /\ ~Due("continue")
    BY <1>0, <1>2 DEF CreatedReaction, Settles, RaceKept
  <2>2. /\ jobs' \in Seq(Jobs) /\ DueOnce' /\ jobs[1] = Head(jobs) /\ Due(Head(jobs))
        /\ Due("continue")'
        /\ \A k : Due(k)' => (Due(k) \/ k = "continue")
        /\ \A k : Due(k) /\ k # Head(jobs) => Due(k)'
        /\ \A k : k = Head(jobs) /\ k \in {"created", "continue"} => ~Due(k)'
    BY <2>1, RanOn
  <2>3. TypeOK'
    BY <1>0, <1>1, <1>2, <2>2, TypePartsNext DEF CreatedReaction, Labels, flags, LateHandle, Settles, Delivered
  <2>4. RaceKept'
    BY <1>0, <1>2, <2>2 DEF CreatedReaction, RaceKept, flags, LateHandle, Settles, Labels
  <2>5. LossKnown' /\ TimeoutFirst'
    BY <1>0, <1>2, <2>2 DEF CreatedReaction, RaceKept, LossKnown, TimeoutFirst, flags, LateHandle, Settles, Labels
  <2>6. Delivered'
    BY <1>0, <1>2, <2>2 DEF CreatedReaction, RaceKept, LossKnown, TimeoutFirst, Delivered, flags, LateHandle, Settles, Labels
  <2> QED BY <2>2, <2>3, <2>4, <2>5, <2>6
<1>3. CASE race # "open"
  <2>1. jobs # <<>> /\ jobs' = Tail(jobs)
    BY <1>3 DEF CreatedReaction, Settles
  <2>2. /\ jobs' \in Seq(Jobs) /\ DueOnce' /\ jobs[1] = Head(jobs) /\ Due(Head(jobs))
        /\ \A k : Due(k)' => Due(k)
        /\ \A k : Due(k) /\ k # Head(jobs) => Due(k)'
        /\ \A k : k = Head(jobs) /\ k \in {"created", "continue"} => ~Due(k)'
    BY <2>1, Ran
  <2>3. TypeOK'
    BY <1>0, <1>1, <1>3, <2>2, TypePartsNext DEF CreatedReaction, Labels, flags, LateHandle, Settles, Delivered
  <2>4. RaceKept'
    BY <1>0, <1>3, <2>2 DEF CreatedReaction, RaceKept, flags, LateHandle, Settles, Labels
  <2>5. LossKnown' /\ TimeoutFirst'
    BY <1>0, <1>3, <2>2 DEF CreatedReaction, RaceKept, LossKnown, TimeoutFirst, flags, LateHandle, Settles, Labels
  <2>6. Delivered'
    BY <1>0, <1>3, <2>2 DEF CreatedReaction, RaceKept, LossKnown, TimeoutFirst, Delivered, flags, LateHandle, Settles, Labels
  <2> QED BY <2>2, <2>3, <2>4, <2>5, <2>6
<1> QED BY <1>2, <1>3

(* Another outcome reaches the race. *)
LEMMA LosingReactionStep == ASSUME IInv, LosingReaction PROVE IInv'
<1> USE DEF IInv
<1>0. Flags /\ Labels
  BY TypeParts
<1>1. Flags'
  BY <1>0, Zenon DEF LosingReaction, Flags, flags, Settles
<1>2. CASE race = "open"
  <2>1. jobs # <<>> /\ jobs' = Append(Tail(jobs), "continue") /\ ~Due("continue")
    BY <1>0, <1>2 DEF LosingReaction, Settles, RaceKept
  <2>2. /\ jobs' \in Seq(Jobs) /\ DueOnce' /\ jobs[1] = Head(jobs) /\ Due(Head(jobs))
        /\ Due("continue")'
        /\ \A k : Due(k)' => (Due(k) \/ k = "continue")
        /\ \A k : Due(k) /\ k # Head(jobs) => Due(k)'
        /\ \A k : k = Head(jobs) /\ k \in {"created", "continue"} => ~Due(k)'
    BY <2>1, RanOn
  <2>3. TypeOK'
    BY <1>0, <1>1, <1>2, <2>2, TypePartsNext DEF LosingReaction, Labels, flags, Settles, Delivered
  <2>4. RaceKept'
    BY <1>0, <1>2, <2>2 DEF LosingReaction, RaceKept, flags, Settles, Labels
  <2>5. LossKnown' /\ TimeoutFirst'
    BY <1>0, <1>2, <2>2 DEF LosingReaction, RaceKept, LossKnown, TimeoutFirst, flags, Settles, Labels
  <2>6. Delivered'
    BY <1>0, <1>2, <2>2 DEF LosingReaction, RaceKept, LossKnown, TimeoutFirst, Delivered, flags, Settles, Labels
  <2> QED BY <2>2, <2>3, <2>4, <2>5, <2>6
<1>3. CASE race # "open"
  <2>1. jobs # <<>> /\ jobs' = Tail(jobs)
    BY <1>3 DEF LosingReaction, Settles
  <2>2. /\ jobs' \in Seq(Jobs) /\ DueOnce' /\ jobs[1] = Head(jobs) /\ Due(Head(jobs))
        /\ \A k : Due(k)' => Due(k)
        /\ \A k : Due(k) /\ k # Head(jobs) => Due(k)'
        /\ \A k : k = Head(jobs) /\ k \in {"created", "continue"} => ~Due(k)'
    BY <2>1, Ran
  <2>3. TypeOK'
    BY <1>0, <1>1, <1>3, <2>2, TypePartsNext DEF LosingReaction, Labels, flags, Settles, Delivered
  <2>4. RaceKept'
    BY <1>0, <1>3, <2>2 DEF LosingReaction, RaceKept, flags, Settles, Labels
  <2>5. LossKnown' /\ TimeoutFirst'
    BY <1>0, <1>3, <2>2 DEF LosingReaction, RaceKept, LossKnown, TimeoutFirst, flags, Settles, Labels
  <2>6. Delivered'
    BY <1>0, <1>3, <2>2 DEF LosingReaction, RaceKept, LossKnown, TimeoutFirst, Delivered, flags, Settles, Labels
  <2> QED BY <2>2, <2>3, <2>4, <2>5, <2>6
<1> QED BY <1>2, <1>3

(* The lost race ends the run. *)
LEMMA NoChildStep == ASSUME IInv, NoChild PROVE IInv'
<1> USE DEF IInv
<1>0. Flags /\ Labels
  BY TypeParts
<1>1. Flags'
  BY <1>0, Zenon DEF NoChild, Flags, flags
<1>3. jobs # <<>> /\ jobs' = Tail(jobs) /\ Head(jobs) = "continue"
  BY DEF NoChild
<1>2. /\ jobs' \in Seq(Jobs) /\ DueOnce' /\ Due("continue") /\ ~Due("continue")'
      /\ \A k : Due(k)' => Due(k)
      /\ \A k : Due(k) /\ k # "continue" => Due(k)'
  BY <1>3, Ran
<1>4. TypeOK'
  BY <1>0, <1>1, <1>2, TypePartsNext DEF NoChild, Labels, flags, Delivered, RaceKept
<1>5. RaceKept'
  BY <1>0, <1>2 DEF NoChild, RaceKept, flags, Labels
<1>6. LossKnown' /\ TimeoutFirst'
  BY <1>0, <1>2 DEF NoChild, RaceKept, LossKnown, TimeoutFirst, flags, Labels
<1>7. Delivered'
  BY <1>0, <1>2 DEF NoChild, RaceKept, LossKnown, Delivered, flags, Labels
<1> QED BY <1>2, <1>4, <1>5, <1>6, <1>7

(* The won race goes on. *)
LEMMA TakeChildStep == ASSUME IInv, TakeChild PROVE IInv'
<1> USE DEF IInv
<1>0. Flags /\ Labels
  BY TypeParts
<1>1. Flags'
  BY <1>0, Zenon DEF TakeChild, Flags, flags, Followup, Dispose
<1>3. jobs # <<>> /\ jobs' = Tail(jobs) /\ Head(jobs) = "continue"
  BY DEF TakeChild
<1>2. /\ jobs' \in Seq(Jobs) /\ DueOnce' /\ Due("continue") /\ ~Due("continue")'
      /\ \A k : Due(k)' => Due(k)
      /\ \A k : Due(k) /\ k # "continue" => Due(k)'
  BY <1>3, Ran
<1>4. TypeOK'
  BY <1>0, <1>1, <1>2, TypePartsNext DEF TakeChild, Labels, flags, Followup, Dispose, Delivered, RaceKept
<1>5. RaceKept'
  BY <1>0, <1>2 DEF TakeChild, RaceKept, flags, Followup, Dispose, Labels
<1>6. LossKnown' /\ TimeoutFirst'
  BY <1>0, <1>2 DEF TakeChild, RaceKept, LossKnown, TimeoutFirst, flags, Followup, Dispose, Labels
<1>7. Delivered'
  BY <1>0, <1>2 DEF TakeChild, RaceKept, LossKnown, Delivered, flags, Followup, Dispose, Labels
<1> QED BY <1>2, <1>4, <1>5, <1>6, <1>7

(* The task is sent. *)
LEMMA BecomesIdleStep == ASSUME IInv, BecomesIdle PROVE IInv'
<1> USE DEF IInv
<1>0. Flags /\ Labels
  BY TypeParts
<1>1. Flags'
  BY <1>0, Zenon DEF BecomesIdle, Flags, flags, Followup, Dispose
<1>2. jobs' \in Seq(Jobs) /\ DueOnce' /\ \A k : Due(k)' <=> Due(k)
  BY SameQueue DEF BecomesIdle, Followup, Dispose
<1>4. TypeOK'
  BY <1>0, <1>1, <1>2, TypePartsNext DEF BecomesIdle, Labels, flags, Followup, Dispose, Delivered, RaceKept
<1>5. RaceKept'
  BY <1>0, <1>2 DEF BecomesIdle, RaceKept, flags, Followup, Dispose, Labels
<1>6. LossKnown' /\ TimeoutFirst'
  BY <1>0, <1>2 DEF BecomesIdle, RaceKept, LossKnown, TimeoutFirst, flags, Followup, Dispose, Labels
<1>7. Delivered'
  BY <1>0, <1>2 DEF BecomesIdle, RaceKept, LossKnown, Delivered, flags, Followup, Dispose, Labels
<1> QED BY <1>2, <1>4, <1>5, <1>6, <1>7

(* The child has answered. *)
LEMMA AnswersStep == ASSUME IInv, Answers PROVE IInv'
<1> USE DEF IInv
<1>0. Flags /\ Labels
  BY TypeParts
<1>1. Flags'
  BY <1>0, Zenon DEF Answers, Flags, flags, Dispose
<1>2. jobs' \in Seq(Jobs) /\ DueOnce' /\ \A k : Due(k)' <=> Due(k)
  BY SameQueue DEF Answers, Dispose
<1>4. TypeOK'
  BY <1>0, <1>1, <1>2, TypePartsNext DEF Answers, Labels, flags, Dispose, Delivered, RaceKept
<1>5. RaceKept'
  BY <1>0, <1>2 DEF Answers, RaceKept, flags, Dispose, Labels
<1>6. LossKnown' /\ TimeoutFirst'
  BY <1>0, <1>2 DEF Answers, RaceKept, LossKnown, TimeoutFirst, flags, Dispose, Labels
<1>7. Delivered'
  BY <1>0, <1>2 DEF Answers, RaceKept, LossKnown, Delivered, flags, Dispose, Labels
<1> QED BY <1>2, <1>4, <1>5, <1>6, <1>7

(* The run is aborted. *)
LEMMA StopWaitingStep == ASSUME IInv, StopWaiting PROVE IInv'
<1> USE DEF IInv
<1>0. Flags /\ Labels
  BY TypeParts
<1>1. Flags'
  BY <1>0, Zenon DEF StopWaiting, Flags, flags, Dispose, runAborted
<1>2. jobs' \in Seq(Jobs) /\ DueOnce' /\ \A k : Due(k)' <=> Due(k)
  BY SameQueue DEF StopWaiting, Dispose, runAborted
<1>4. TypeOK'
  BY <1>0, <1>1, <1>2, TypePartsNext DEF StopWaiting, Labels, flags, Dispose, runAborted, Delivered, RaceKept
<1>5. RaceKept'
  BY <1>0, <1>2 DEF StopWaiting, RaceKept, flags, Dispose, runAborted, Labels
<1>6. LossKnown' /\ TimeoutFirst'
  BY <1>0, <1>2 DEF StopWaiting, RaceKept, LossKnown, TimeoutFirst, flags, Dispose, runAborted, Labels
<1>7. Delivered'
  BY <1>0, <1>2 DEF StopWaiting, RaceKept, LossKnown, Delivered, flags, Dispose, runAborted, Labels
<1> QED BY <1>2, <1>4, <1>5, <1>6, <1>7

(* The disposal or its limit. *)
LEMMA DisposeReturnsStep == ASSUME IInv, DisposeReturns PROVE IInv'
<1> USE DEF IInv
<1>0. Flags /\ Labels
  BY TypeParts
<1>1. Flags'
  BY <1>0, Zenon DEF DisposeReturns, Flags, flags
<1>2. jobs' \in Seq(Jobs) /\ DueOnce' /\ \A k : Due(k)' <=> Due(k)
  BY SameQueue DEF DisposeReturns
<1>4. TypeOK'
  BY <1>0, <1>1, <1>2, TypePartsNext DEF DisposeReturns, Labels, flags, Delivered, RaceKept
<1>5. RaceKept'
  BY <1>0, <1>2 DEF DisposeReturns, RaceKept, flags, Labels
<1>6. LossKnown' /\ TimeoutFirst'
  BY <1>0, <1>2 DEF DisposeReturns, RaceKept, LossKnown, TimeoutFirst, flags, Labels
<1>7. Delivered'
  BY <1>0, <1>2 DEF DisposeReturns, RaceKept, LossKnown, Delivered, flags, Labels
<1> QED BY <1>2, <1>4, <1>5, <1>6, <1>7

(* A step that changes nothing. *)
LEMMA Stutter == ASSUME IInv, UNCHANGED vars PROVE IInv'
<1> USE DEF IInv, vars, flags
<1>0. Flags /\ Labels
  BY TypeParts
<1>1. Flags'
  BY <1>0, Zenon DEF Flags
<1>2. jobs' \in Seq(Jobs) /\ DueOnce' /\ \A k : Due(k)' <=> Due(k)
  BY SameQueue
<1>3. TypeOK'
  BY <1>0, <1>1, <1>2, TypePartsNext DEF Labels
<1>4. RaceKept' /\ LossKnown' /\ TimeoutFirst' /\ Delivered'
  BY <1>0, <1>2 DEF RaceKept, LossKnown, TimeoutFirst, Delivered, Labels
<1> QED BY <1>2, <1>3, <1>4

(* Every step keeps the invariant. *)
LEMMA Inductive == IInv /\ [Next]_vars => IInv'
<1> SUFFICES ASSUME IInv, [Next]_vars PROVE IInv'
  OBVIOUS
<1>1. CASE Enter
  BY <1>1, EnterStep
<1>2. CASE Created
  BY <1>2, CreatedStep
<1>3. CASE CreateFails
  BY <1>3, CreateFailsStep
<1>4. CASE Disposed
  BY <1>4, DisposedStep
<1>5. CASE Abort
  BY <1>5, AbortStep
<1>6. CASE Invoke
  BY <1>6, InvokeStep
<1>7. CASE CreateTimeout
  BY <1>7, CreateTimeoutStep
<1>8. CASE CreatedReaction
  BY <1>8, CreatedReactionStep
<1>9. CASE LosingReaction
  BY <1>9, LosingReactionStep
<1>10. CASE NoChild
  BY <1>10, NoChildStep
<1>11. CASE TakeChild
  BY <1>11, TakeChildStep
<1>12. CASE BecomesIdle
  BY <1>12, BecomesIdleStep
<1>13. CASE Answers
  BY <1>13, AnswersStep
<1>14. CASE StopWaiting
  BY <1>14, StopWaitingStep
<1>15. CASE DisposeReturns
  BY <1>15, DisposeReturnsStep
<1>16. CASE UNCHANGED vars
  BY <1>16, Stutter
<1> QED
  BY <1>1, <1>2, <1>3, <1>4, <1>5, <1>6, <1>7, <1>8, <1>9, <1>10, <1>11, <1>12, <1>13, <1>14, <1>15, <1>16 DEF Next, Loop

(* The invariant, in every state. *)
LEMMA Invariant == Spec => []IInv
BY Initially, Inductive, PTL DEF Spec

-----------------------------------------------------------------------------
(* In every order of creation, abort, timers and continuation, a child the *)
(* host delivered has been disposed of when the run has ended and its      *)
(* reactions have run, and a run whose child is disposed of under it has   *)
(* been aborted (runDshSubagentV3).                                        *)
THEOREM ChildrenReleased == Spec => []ChildrenAccounted
<1>1. IInv => ChildrenAccounted
  <2> SUFFICES ASSUME IInv PROVE ChildrenAccounted
    OBVIOUS
  <2>1. NoChildLeft
    <3> SUFFICES ASSUME pc = "ended", jobs = <<>>, creation = "resolved" PROVE disposals > 0
      BY DEF NoChildLeft
    <3>1. ~Due("created")
      BY EmptyQueue DEF Due
    <3>2. disposals # 0 /\ disposals \in 0 .. 2
      BY <3>1 DEF IInv, Delivered, TypeOK
    <3> QED BY <3>2
  <2>2. UsedChildIsLive
    BY DEF IInv, UsedChildIsLive, Delivered, RaceKept
  <2> QED BY <2>1, <2>2 DEF ChildrenAccounted, IInv
<1> QED BY <1>1, Invariant, PTL

-----------------------------------------------------------------------------
(* The run as the call it promises to be.                                  *)

(* The safety of ImplementsCall: its initial condition and its steps. *)
StepsOfCall == Abstract!Init /\ [][Abstract!Next]_<<callBar, childBar>>

(* A run that has not begun is a call that has not. *)
LEMMA CallInit == Init => Abstract!Init
BY DEF Init, Abstract!Init, callBar, childBar

(* Where the run has come to, where the call has. *)
LEMMA CallIs ==
    ASSUME IInv
    PROVE  /\ pc = "start" => callBar = "idle" /\ childBar = "none"
           /\ pc \in {"creating", "ended"} => callBar = pc
           /\ pc \in {"waiting", "working"} => callBar = "running"
           /\ pc = "disposing" => callBar = "releasing"
           /\ disposals > 0 => childBar = "released"
           /\ disposals = 0 /\ creation \in {"deferred", "pending"} => childBar = "pending"
           /\ disposals = 0 /\ creation = "resolved" => childBar = "live"
           /\ disposals = 0 /\ creation = "rejected" => childBar = "never"
           /\ disposals = 0 /\ creation = "none" => childBar = "none"
<1>1. Labels /\ (creation # "resolved" => disposals = 0) /\ (pc = "start" => creation = "none")
  BY TypeParts DEF IInv, Delivered, RaceKept
<1>2. /\ pc = "start" => callBar = "idle"
      /\ pc \in {"waiting", "working"} => callBar = "running"
      /\ pc = "disposing" => callBar = "releasing"
  BY DEF callBar
<1>3. pc \in {"creating", "ended"} => callBar = pc
  BY DEF callBar
<1>4. disposals > 0 => childBar = "released"
  BY DEF childBar
<1>5. ASSUME disposals = 0
      PROVE  /\ creation \in {"deferred", "pending"} => childBar = "pending"
             /\ creation = "resolved" => childBar = "live"
             /\ creation = "rejected" => childBar = "never"
             /\ creation = "none" => childBar = "none"
  <2>1. ~(disposals > 0)
    BY <1>5
  <2> QED BY <2>1 DEF childBar
<1> QED BY <1>1, <1>2, <1>3, <1>4, <1>5

(* The same of the next state. *)
LEMMA CallIsNext ==
    ASSUME IInv'
    PROVE  /\ pc' \in {"creating", "ended"} => callBar' = pc'
           /\ pc' \in {"waiting", "working"} => callBar' = "running"
           /\ pc' = "disposing" => callBar' = "releasing"
           /\ disposals' > 0 => childBar' = "released"
           /\ disposals' = 0 /\ creation' \in {"deferred", "pending"} => childBar' = "pending"
           /\ disposals' = 0 /\ creation' = "resolved" => childBar' = "live"
           /\ disposals' = 0 /\ creation' = "rejected" => childBar' = "never"
           /\ disposals' = 0 /\ creation' = "none" => childBar' = "none"
<1>1. /\ pc' \in {"waiting", "working"} => callBar' = "running"
      /\ pc' = "disposing" => callBar' = "releasing"
  BY DEF callBar
<1>2. pc' \in {"creating", "ended"} => callBar' = pc'
  BY DEF callBar
<1>3. disposals' > 0 => childBar' = "released"
  BY DEF childBar
<1>4. ASSUME disposals' = 0
      PROVE  /\ creation' \in {"deferred", "pending"} => childBar' = "pending"
             /\ creation' = "resolved" => childBar' = "live"
             /\ creation' = "rejected" => childBar' = "never"
             /\ creation' = "none" => childBar' = "none"
  <2>1. ~(disposals' > 0)
    BY <1>4
  <2> QED BY <2>1 DEF childBar
<1> QED BY <1>1, <1>2, <1>3, <1>4

(* What the invariant says of labels and counts, for the steps. *)
LEMMA Counted ==
    ASSUME IInv
    PROVE  /\ Labels
           /\ creation # "resolved" \/ Due("created") => disposals = 0
           /\ race = "handle" => creation = "resolved" /\ ~Due("created")
           /\ pc \in {"waiting", "working", "disposing"} => race = "handle"
           /\ pc = "start" => creation = "none"
           /\ creation = "none" => jobs = <<>>
           /\ pc = "disposing" => disposals > 0
           /\ Due("created") => creation = "resolved"
           /\ Due("continue") => pc = "creating"
BY TypeParts DEF IInv, Delivered, RaceKept

(* The reaction that runs is due. *)
LEMMA HeadDue == ASSUME IInv, jobs # <<>> PROVE Due(Head(jobs))
BY Taken DEF IInv, TypeOK, Due

(* Every step of a run is a step of the call, or none. *)
LEMMA StepOfCall == ASSUME IInv, IInv', [Next]_vars PROVE [Abstract!Next]_<<callBar, childBar>>
<1> USE DEF Abstract!Next
<1>0. Labels /\ Labels'
  BY DEF IInv, TypeOK, Labels
<1>1. CASE Enter
  <2>1. CASE aborted
    <3>1. pc' = "ended" /\ creation' = creation /\ disposals' = disposals /\ pc = "start"
      BY <1>1, <2>1, Zenon DEF Enter
    <3>2. callBar = "idle" /\ childBar = "none" /\ callBar' = "ended" /\ childBar' = "none"
      BY <3>1, CallIs, CallIsNext, Counted
    <3> QED BY <3>2 DEF Abstract!Begin
  <2>2. CASE ~aborted
    <3>1. /\ pc' = "creating" /\ creation' \in {"deferred", "pending"} /\ disposals' = disposals
          /\ pc = "start"
      BY <1>1, <2>2 DEF Enter
    <3>2. callBar = "idle" /\ childBar = "none" /\ callBar' = "creating" /\ childBar' = "pending"
      BY <3>1, CallIs, CallIsNext, Counted
    <3> QED BY <3>2 DEF Abstract!Begin
  <2> QED BY <2>1, <2>2
<1>2. CASE Created
  <2>1. creation = "pending" /\ creation' = "resolved" /\ pc' = pc /\ disposals' = disposals
    BY <1>2 DEF Created
  <2>2. childBar = "pending" /\ childBar' = "live" /\ callBar' = callBar
    BY <2>1, CallIs, CallIsNext, Counted DEF callBar
  <2> QED BY <2>2 DEF Abstract!Answer
<1>3. CASE CreateFails
  <2>1. creation = "pending" /\ creation' = "rejected" /\ pc' = pc /\ disposals' = disposals
    BY <1>3 DEF CreateFails
  <2>2. childBar = "pending" /\ childBar' = "never" /\ callBar' = callBar
    BY <2>1, CallIs, CallIsNext, Counted DEF callBar
  <2> QED BY <2>2 DEF Abstract!Answer
<1>4. CASE Disposed \/ Abort \/ CreateTimeout
  <2>1. pc' = pc /\ creation' = creation /\ disposals' = disposals
    BY <1>4 DEF Disposed, Abort, CreateTimeout
  <2> QED BY <2>1 DEF callBar, childBar
<1>5. CASE Invoke
  <2>1. /\ creation = "deferred" /\ creation' \in {"rejected", "pending"} /\ pc' = pc
        /\ disposals' = disposals
    BY <1>5 DEF Invoke
  <2>2. childBar = "pending" /\ childBar' \in {"never", "pending"} /\ callBar' = callBar
    BY <2>1, CallIs, CallIsNext, Counted DEF callBar
  <2> QED BY <2>2 DEF Abstract!Answer
<1>6. CASE CreatedReaction
  <2>1. Due("created") /\ pc' = pc /\ creation' = creation /\ disposals' \in {disposals, disposals + 1}
    BY <1>6, HeadDue DEF CreatedReaction, LateHandle
  <2>2. disposals = 0 /\ creation = "resolved" /\ pc \in {"creating", "ended"}
    BY <2>1, <1>0, Counted DEF Labels
  <2>3. /\ callBar \in {"creating", "ended"} /\ callBar' = callBar
        /\ childBar = "live" /\ childBar' \in {"live", "released"}
    BY <2>1, <2>2, CallIs, CallIsNext
  <2> QED BY <2>3 DEF Abstract!ReleaseLate
<1>7. CASE LosingReaction
  <2>1. pc' = pc /\ creation' = creation /\ disposals' = disposals
    BY <1>7 DEF LosingReaction
  <2> QED BY <2>1 DEF callBar, childBar
<1>8. CASE NoChild
  <2>1. Due("continue") /\ pc' = "ended" /\ creation' = creation /\ disposals' = disposals
    BY <1>8, HeadDue DEF NoChild
  <2>2. callBar = "creating" /\ callBar' = "ended"
    BY <2>1, CallIs, CallIsNext, Counted
  <2>3. childBar' = childBar
    BY <2>1 DEF childBar
  <2> QED BY <2>2, <2>3 DEF Abstract!GiveUp
<1>9. CASE TakeChild \/ BecomesIdle \/ Answers \/ StopWaiting
  <2>1. pc \in {"creating", "waiting", "working"} /\ race = "handle" /\ creation' = creation
    BY <1>9, HeadDue, Counted DEF TakeChild, BecomesIdle, Answers, StopWaiting, runAborted
  <2>2. \/ pc' \in {"waiting", "working"} /\ disposals' = disposals
        \/ pc' \in {"disposing", "ended"} /\ disposals' = disposals + 1
    BY <1>9 DEF TakeChild, BecomesIdle, Answers, StopWaiting, Followup, Dispose
  <2>3. creation = "resolved" /\ disposals \in 0 .. 2
    BY <1>0, <2>1, Counted DEF Labels
  <2>4. callBar \in {"creating", "running"} /\ childBar \in {"live", "released"}
    BY <2>1, <2>3, CallIs
  <2>5. CASE pc' \in {"waiting", "working"} /\ disposals' = disposals
    <3>1. callBar' = "running" /\ childBar' = childBar
      BY <2>1, <2>3, <2>5, CallIs, CallIsNext
    <3> QED BY <2>4, <3>1 DEF Abstract!Take
  <2>6. CASE pc' \in {"disposing", "ended"} /\ disposals' = disposals + 1
    <3>1. callBar' \in {"releasing", "ended"} /\ childBar' = "released"
      BY <2>3, <2>6, CallIsNext
    <3> QED BY <2>4, <3>1 DEF Abstract!Finish
  <2> QED BY <2>2, <2>5, <2>6
<1>10. CASE DisposeReturns
  <2>1. pc = "disposing" /\ pc' = "ended" /\ creation' = creation /\ disposals' = disposals
    BY <1>10 DEF DisposeReturns
  <2>2. callBar = "releasing" /\ callBar' = "ended" /\ childBar' = childBar
    BY <2>1, CallIs, CallIsNext DEF childBar
  <2> QED BY <2>2 DEF Abstract!Return
<1>11. CASE UNCHANGED vars
  BY <1>11 DEF vars, callBar, childBar
<1> QED
  BY <1>1, <1>2, <1>3, <1>4, <1>5, <1>6, <1>7, <1>8, <1>9, <1>10, <1>11 DEF Next, Loop

(* Every run of a child agent is, step by step, the call that ChildCall    *)
(* promises to the session: it asks for one child, uses it or gives it up, *)
(* and releases what it was given (runDshSubagentV3; the fairness of       *)
(* ImplementsCall stays with the run).                                     *)
THEOREM RunIsCall == Spec => StepsOfCall
<1>1. IInv /\ IInv' /\ [Next]_vars => [Abstract!Next]_<<callBar, childBar>>
  BY StepOfCall
<1> QED BY <1>1, CallInit, Invariant, PTL DEF Spec, StepsOfCall

=============================================================================
