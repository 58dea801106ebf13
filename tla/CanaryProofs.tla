---------------------------- MODULE CanaryProofs ----------------------------
(***************************************************************************)
(* Proofs about the real canary of the evaluation and its planning gate,   *)
(* for any dry runs, executions, worlds, runs and numbers of calls:        *)
(*                                                                         *)
(*   - the traps of a dry run (DryRun);                                    *)
(*   - what the disk says of the spending (Canary);                        *)
(*   - every summary an execution builds passes its own check (Canary).    *)
(*                                                                         *)
(* The last two rest on one invariant, CInv: the memory of an execution    *)
(* against its ledger, by where it is (ExecutionHolds), and the files on   *)
(* disk against the memories (OnDisk).                                     *)
(***************************************************************************)
EXTENDS Canary, DryRun, SequenceTheorems, FunctionTheorems, FiniteSetTheorems,
        WellFoundedInduction, TLAPS

-----------------------------------------------------------------------------
(* Sequences: FlattenSeq is defined by a function chosen with a recursive  *)
(* property; by induction on the length there is one, and one only.        *)

(* A set that holds 0 and every successor of its numbers holds every       *)
(* number.                                                                 *)
LEMMA NaturalsIn ==
    ASSUME NEW S, 0 \in S, \A n \in Nat : n \in S => n + 1 \in S
    PROVE  Nat \subseteq S
<1> SUFFICES ASSUME ~(Nat \subseteq S) PROVE FALSE
  OBVIOUS
<1> DEFINE B == Nat \ S
<1>1. PICK m \in B : \A y \in B : <<y, m>> \notin OpToRel(<, Nat)
  BY NatLessThanWellFounded, WFMin
<1>2. \A y \in B : ~ (y < m)
  BY <1>1, Zenon DEF OpToRel
<1>3. m \in Nat /\ m \notin S /\ m # 0
  OBVIOUS
<1>4. m - 1 \in Nat /\ m - 1 < m /\ (m - 1) + 1 = m
  BY <1>3
<1> QED BY <1>2, <1>3, <1>4

Layer(f, s, n) == f = [i \in 1 .. n |-> IF i = 1 THEN s[i] ELSE f[i - 1] \o s[i]]

(* FlattenSeq is the last of the layers it builds. *)
LEMMA LayerIs == ASSUME NEW s, Len(s) # 0 PROVE FlattenSeq(s) = (CHOOSE f : Layer(f, s, Len(s)))[Len(s)]
BY DEF FlattenSeq, Layer

(* Layers of the same sequence agree. *)
LEMMA LayerUnique ==
    ASSUME NEW s, NEW n \in Nat, NEW m \in Nat, m <= n, NEW f, NEW g, Layer(f, s, n), Layer(g, s, m)
    PROVE  \A i \in 1 .. m : f[i] = g[i]
<1> DEFINE N == {k \in Nat : k \in 1 .. m => f[k] = g[k]}
<1>1. 0 \in N
  OBVIOUS
<1>2. \A k \in Nat : k \in N => k + 1 \in N
  <2> SUFFICES ASSUME NEW k \in Nat, k \in N, k + 1 \in 1 .. m PROVE f[k + 1] = g[k + 1]
    OBVIOUS
  <2>1. CASE k = 0
    BY <2>1 DEF Layer
  <2>2. CASE k # 0
    <3> DEFINE j == k + 1
    <3>1. j \in 1 .. m /\ j \in 1 .. n /\ j # 1 /\ j - 1 = k /\ k \in 1 .. m
      BY <2>2
    <3>2. f[k] = g[k]
      BY <3>1
    <3> HIDE DEF j, N
    <3>3. f[j] = f[j - 1] \o s[j] /\ g[j] = g[j - 1] \o s[j]
      BY <3>1 DEF Layer
    <3>4. f[j] = g[j]
      BY <3>1, <3>2, <3>3
    <3> QED BY <3>4 DEF j
  <2> QED BY <2>1, <2>2
<1> HIDE DEF N
<1>3. Nat \subseteq N
  BY <1>1, <1>2, NaturalsIn
<1> QED BY <1>3 DEF N

(* What a layer is, entry by entry. *)
LEMMA LayerFacts ==
    ASSUME NEW f, NEW s, NEW n \in Nat, Layer(f, s, n)
    PROVE  /\ n # 0 => f[1] = s[1]
           /\ \A i \in 2 .. n : f[i] = f[i - 1] \o s[i]
<1> DEFINE e(i) == IF i = 1 THEN s[i] ELSE f[i - 1] \o s[i]
<1>1. f = [i \in 1 .. n |-> e(i)]
  BY DEF Layer
<1> HIDE DEF e
<1>2. \A i \in 1 .. n : f[i] = e(i)
  BY <1>1
<1>3. ASSUME n # 0 PROVE f[1] = s[1]
  <2>1. f[1] = e(1)
    BY <1>2, <1>3
  <2> QED BY <2>1 DEF e
<1>4. ASSUME NEW i \in 2 .. n PROVE f[i] = f[i - 1] \o s[i]
  <2>1. f[i] = e(i) /\ i # 1
    BY <1>2
  <2> QED BY <2>1, Zenon DEF e
<1> QED BY <1>3, <1>4

(* A function with those entries is a layer. *)
LEMMA LayerFrom ==
    ASSUME NEW S, NEW s, NEW n \in Nat, NEW f \in [1 .. n -> Seq(S)], n # 0 => f[1] = s[1],
           \A i \in 2 .. n : f[i] = f[i - 1] \o s[i]
    PROVE  Layer(f, s, n)
<1>1. \A i \in 1 .. n : f[i] = IF i = 1 THEN s[i] ELSE f[i - 1] \o s[i]
  <2> TAKE i \in 1 .. n
  <2>1. CASE i = 1
    BY <2>1
  <2>2. CASE i # 1
    <3>1. i \in 2 .. n
      BY <2>2
    <3>2. f[i] = f[i - 1] \o s[i]
      BY <3>1
    <3> QED BY <3>2, <2>2, Zenon
  <2> QED BY <2>1, <2>2
<1>2. f = [i \in 1 .. n |-> f[i]]
  OBVIOUS
<1> QED BY <1>1, <1>2 DEF Layer

(* There is a layer for every length. *)
LEMMA LayerExists ==
    ASSUME NEW S, NEW s \in Seq(Seq(S)), NEW n \in 1 .. Len(s)
    PROVE  \E f \in [1 .. n -> Seq(S)] : Layer(f, s, n)
<1> DEFINE N == {k \in Nat : k \in 1 .. Len(s) => \E f \in [1 .. k -> Seq(S)] : Layer(f, s, k)}
<1>1. 0 \in N
  OBVIOUS
<1>2. ASSUME NEW k \in Nat, k \in N, k + 1 \in 1 .. Len(s)
      PROVE  \E f \in [1 .. k + 1 -> Seq(S)] : Layer(f, s, k + 1)
  <2>1. CASE k = 0
    <3> DEFINE g == [i \in 1 .. 1 |-> s[1]]
    <3>1. g \in [1 .. 1 -> Seq(S)] /\ g[1] = s[1]
      BY <2>1, <1>2
    <3> HIDE DEF g
    <3>2. \A i \in 2 .. 1 : g[i] = g[i - 1] \o s[i]
      OBVIOUS
    <3>3. Layer(g, s, 1)
      BY <3>1, <3>2, LayerFrom
    <3> QED BY <3>1, <3>3, <2>1
  <2>2. CASE k # 0
    <3>1. PICK f \in [1 .. k -> Seq(S)] : Layer(f, s, k)
      BY <1>2, <2>2
    <3> DEFINE g == [i \in 1 .. k + 1 |-> IF i = k + 1 THEN f[k] \o s[k + 1] ELSE f[i]]
    <3>2. f[k] \o s[k + 1] \in Seq(S)
      BY <1>2, <2>2
    <3>3. g \in [1 .. k + 1 -> Seq(S)]
      BY <3>2
    <3>4. g[k + 1] = f[k] \o s[k + 1] /\ \A i \in 1 .. k : g[i] = f[i]
      <4>1. k + 1 \in 1 .. k + 1 /\ \A i \in 1 .. k : i \in 1 .. k + 1 /\ i # k + 1
        OBVIOUS
      <4> HIDE DEF N
      <4> QED BY <4>1
    <3> HIDE DEF g
    <3>5. f[1] = s[1] /\ \A i \in 2 .. k : f[i] = f[i - 1] \o s[i]
      BY <3>1, <2>2, LayerFacts
    <3>6. g[1] = s[1]
      BY <3>4, <3>5, <2>2
    <3>7. \A i \in 2 .. k + 1 : g[i] = g[i - 1] \o s[i]
      <4> TAKE i \in 2 .. k + 1
      <4>1. CASE i = k + 1
        <5>1. i - 1 = k /\ g[i - 1] = f[k]
          BY <4>1, <3>4, <2>2
        <5> QED BY <5>1, <4>1, <3>4
      <4>2. CASE i # k + 1
        <5>1. i \in 2 .. k /\ g[i] = f[i] /\ g[i - 1] = f[i - 1]
          BY <4>2, <3>4
        <5> QED BY <5>1, <3>5
      <4> QED BY <4>1, <4>2
    <3>8. Layer(g, s, k + 1)
      <4>1. k + 1 \in Nat /\ k + 1 # 0
        OBVIOUS
      <4> HIDE DEF N
      <4> QED BY <4>1, <3>3, <3>6, <3>7, LayerFrom
    <3> QED BY <3>3, <3>8
  <2> QED BY <2>1, <2>2
<1>3. \A k \in Nat : k \in N => k + 1 \in N
  <2> SUFFICES ASSUME NEW k \in Nat, k \in N PROVE k + 1 \in N
    OBVIOUS
  <2>1. k + 1 \in 1 .. Len(s) => \E f \in [1 .. k + 1 -> Seq(S)] : Layer(f, s, k + 1)
    BY <1>2
  <2>2. k + 1 \in Nat
    OBVIOUS
  <2> QED BY <2>1, <2>2, Zenon
<1> HIDE DEF N
<1>4. Nat \subseteq N
  BY <1>1, <1>3, NaturalsIn
<1> QED BY <1>4 DEF N

(* The value of FlattenSeq by a layer. *)
LEMMA LayerOf ==
    ASSUME NEW S, NEW s \in Seq(Seq(S)), Len(s) # 0
    PROVE  \E f \in [1 .. Len(s) -> Seq(S)] : Layer(f, s, Len(s)) /\ FlattenSeq(s) = f[Len(s)]
<1>1. PICK f \in [1 .. Len(s) -> Seq(S)] : Layer(f, s, Len(s))
  BY LayerExists
<1> DEFINE c == CHOOSE g : Layer(g, s, Len(s))
<1>2. Layer(c, s, Len(s))
  BY <1>1
<1> HIDE DEF c
<1>3. c[Len(s)] = f[Len(s)]
  BY <1>1, <1>2, LayerUnique
<1>4. FlattenSeq(s) = c[Len(s)]
  BY LayerIs DEF c
<1> QED BY <1>1, <1>3, <1>4

(* Nothing to flatten. *)
LEMMA FlattenEmpty == ASSUME NEW s, Len(s) = 0 PROVE FlattenSeq(s) = s
BY DEF FlattenSeq

(* Flattening sequences of S gives a sequence of S. *)
LEMMA FlattenType ==
    ASSUME NEW S, NEW s \in Seq(Seq(S)) PROVE FlattenSeq(s) \in Seq(S)
<1>1. CASE Len(s) = 0
  <2>1. FlattenSeq(s) = s /\ s = <<>>
    BY <1>1, FlattenEmpty
  <2> QED BY <2>1
<1>2. CASE Len(s) # 0
  <2>1. PICK f \in [1 .. Len(s) -> Seq(S)] : FlattenSeq(s) = f[Len(s)]
    BY <1>2, LayerOf
  <2>2. Len(s) \in 1 .. Len(s)
    BY <1>2
  <2> QED BY <2>1, <2>2
<1> QED BY <1>1, <1>2

(* A sequence appended is flattened after the others. *)
LEMMA FlattenAppend ==
    ASSUME NEW S, NEW s \in Seq(Seq(S)), NEW q \in Seq(S)
    PROVE  FlattenSeq(Append(s, q)) = FlattenSeq(s) \o q
<1> DEFINE t == Append(s, q)
<1>1. /\ t \in Seq(Seq(S)) /\ Len(t) = Len(s) + 1 /\ t[Len(t)] = q
      /\ \A i \in 1 .. Len(s) : t[i] = s[i]
  OBVIOUS
<1> HIDE DEF t
<1>2. PICK g \in [1 .. Len(t) -> Seq(S)] : Layer(g, t, Len(t)) /\ FlattenSeq(t) = g[Len(t)]
  BY <1>1, LayerOf
<1>3. g[1] = t[1] /\ \A i \in 2 .. Len(t) : g[i] = g[i - 1] \o t[i]
  <2>1. Len(t) \in Nat /\ Len(t) # 0
    BY <1>1
  <2>2. Layer(g, t, Len(t))
    BY <1>2
  <2>3. /\ Len(t) # 0 => g[1] = t[1]
        /\ \A i \in 2 .. Len(t) : g[i] = g[i - 1] \o t[i]
    BY ONLY <2>1, <2>2, LayerFacts, Zenon
  <2> QED BY ONLY <2>1, <2>3
<1>4. CASE Len(s) = 0
  <2>1. FlattenSeq(t) = q
    BY <1>1, <1>2, <1>3, <1>4
  <2>2. FlattenSeq(s) = s /\ s = <<>>
    BY <1>4, FlattenEmpty
  <2> QED BY <2>1, <2>2 DEF t
<1>5. CASE Len(s) # 0
  <2>1. PICK f \in [1 .. Len(s) -> Seq(S)] : Layer(f, s, Len(s)) /\ FlattenSeq(s) = f[Len(s)]
    BY <1>5, LayerOf
  <2> DEFINE h == [i \in 1 .. Len(s) |-> g[i]]
  <2>2. Len(s) \in Nat /\ h \in [1 .. Len(s) -> Seq(S)] /\ \A i \in 1 .. Len(s) : h[i] = g[i]
    BY <1>1
  <2> HIDE DEF h
  <2>3. h[1] = s[1]
    BY <2>2, <1>1, <1>3, <1>5
  <2>4. \A i \in 2 .. Len(s) : h[i] = h[i - 1] \o s[i]
    <3> TAKE i \in 2 .. Len(s)
    <3>1. i \in 1 .. Len(s) /\ i - 1 \in 1 .. Len(s) /\ i \in 2 .. Len(t)
      BY <1>1
    <3>2. h[i] = g[i] /\ h[i - 1] = g[i - 1] /\ t[i] = s[i]
      BY <3>1, <2>2, <1>1
    <3> QED BY <3>1, <3>2, <1>3
  <2>5. Layer(h, s, Len(s))
    BY <2>2, <2>3, <2>4, LayerFrom
  <2>6. h[Len(s)] = f[Len(s)]
    BY <2>1, <2>5, <1>5, LayerUnique
  <2>7. Len(t) \in 2 .. Len(t) /\ Len(t) - 1 = Len(s) /\ h[Len(s)] = g[Len(s)]
    BY <1>1, <1>5, <2>2
  <2>8. g[Len(t)] = g[Len(s)] \o q
    BY <1>1, <1>3, <2>7
  <2> QED BY <2>1, <2>6, <2>7, <2>8, <1>2 DEF t
<1> QED BY <1>4, <1>5

-----------------------------------------------------------------------------
(***************************************************************************)
(* The execution of an approval.  What is kept about the calls: b is its   *)
(* book, and the first m calls have a receipt, one of n.                   *)
(***************************************************************************)
RunRecord == [group : {"no_memory", "tool_only", "auto_inject"},
              task : {"task_build_recovery", "task_control_format"}]

ClaimRecord == [kind : Kinds, status : Statuses]

Class == [stage : {"runner_protocol", "provider_stream"} \cup OutputStages,
          category : {"runner_protocol_error", "model_output_schema_error", "of_code",
                      "unknown_provider_error"}]

DiagnosticRecord == [sequence : Nat, call_kind : Kinds, of : Class]

Book == [claims : Seq(ClaimRecord), consecutive : 0 .. Breaker, circuit : BOOLEAN,
         diagnostics : SUBSET DiagnosticRecord]

ReceiptRecord == [run : RunRecord, claim_sequence : Seq(Nat), evidence : Evidence]

(* The calls without a receipt. *)
Left(b, m) == (m + 1) .. Len(b.claims)

Acquisitions(b, m) == {q \in 1 .. m : b.claims[q].kind = "acquisition"}

(* The calls with a receipt are done, one acquisition for each receipt; of *)
(* the others only the last can be an acquisition, and there is a          *)
(* diagnostic of each that has failed.                                     *)
Reported(b, m) ==
    /\ \A d \in b.diagnostics :
          /\ d.sequence \in Left(b, m) /\ d.call_kind = b.claims[d.sequence].kind
          /\ b.claims[d.sequence].status = "failed" /\ ValidDiagnostic(d)
    /\ \A q \in Left(b, m) : b.claims[q].status = "failed" =>
          \E d \in b.diagnostics : d.sequence = q
    /\ \A d, f \in b.diagnostics : d.sequence = f.sequence => d = f

Limited(b) == \A k \in Kinds : Cardinality(Among(b, {k}, Statuses)) <= PLAN_LIMITS[k]

LedgerHolds(b, m, n) ==
    /\ m \in Nat /\ n \in Nat /\ m <= Len(b.claims)
    /\ \A q \in 1 .. m : b.claims[q].status = "completed"
    /\ Cardinality(Acquisitions(b, m)) = n
    /\ \A q \in Left(b, m) : b.claims[q].status # "completed"
    /\ \A q \in Left(b, m) : q # Len(b.claims) => b.claims[q].kind = "task"
    /\ Reported(b, m) /\ Limited(b)

Unfailed(b) == b.diagnostics = {} /\ b.consecutive = 0 /\ ~b.circuit

FinishedTo(b, m, n) == \A q \in (m + 1) .. n : b.claims[q].status = "transport_finished"

(* At most one call fails before the catch. *)
OneFailed(b, m) ==
    /\ ~b.circuit
    /\ \/ b.consecutive = 0 /\ \A q \in Left(b, m) : b.claims[q].status # "failed"
       \/ /\ b.consecutive = 1
          /\ \E p \in Left(b, m) : \A q \in Left(b, m) : b.claims[q].status = "failed" <=> q = p

(* After it, every call has a receipt or has failed. *)
Settled(b, m) ==
    /\ \A q \in Left(b, m) : b.claims[q].status = "failed"
    /\ b.consecutive = Lesser(Breaker, Len(b.claims) - m)

(***************************************************************************)
(* The memory of an execution, by where it is.                             *)
(***************************************************************************)
Unspent   == {"idle", "claim", "isolate", "bridge", "abandon", "refused", "ended", "crashed"}
Asking    == {"agent", "call", "idled"}
Acquiring == {"acquire", "dispose", "receipt"}
RunOpen   == Asking \cup Acquiring \cup {"caught"}
Winding   == {"finally", "summary"}

Errors  == {"none", "coded", "protocol", "other", "schema", "batch", "call", "budget"}
Stopped == {"none", "cleanup_failed"} \cup Reasons.fail

State == [pc : Unspent \cup {"head"} \cup RunOpen \cup Winding, run : Nat \ {0}, book : Book,
          receipts : Seq(ReceiptRecord), current : Seq(Nat), fault : Errors, err : Errors,
          reason : Stopped, late : BOOLEAN, batchFirst : BOOLEAN, answered : BOOLEAN,
          orphan : Nat, clean : BOOLEAN]

Done(s) == Len(ClaimSequences(s.receipts))
Size(s) == Len(s.book.claims)

(* The receipts are those of the first runs, and tell of the first calls,  *)
(* in order.                                                               *)
ReceiptsHold(s) ==
    /\ ClaimSequences(s.receipts) = [i \in 1 .. Done(s) |-> i]
    /\ Len(s.receipts) <= Len(Runs)
    /\ \A i \in 1 .. Len(s.receipts) :
          ValidReceipt(s.receipts[i]) /\ s.receipts[i].run = Runs[i]

FreshHolds(s) ==
    s.pc \in Unspent =>
        /\ s.book = EmptyBook /\ s.receipts = <<>> /\ s.run = 1 /\ s.orphan = 0
        /\ s.reason = "none" /\ s.err = "none"

RunHolds(s) ==
    /\ s.pc \in {"head"} \cup RunOpen => s.run = Len(s.receipts) + 1 /\ s.reason = "none"
    /\ s.pc = "head" =>
         Size(s) = Done(s) /\ Unfailed(s.book) /\ s.orphan = 0 /\ s.err = "none"
    /\ s.pc \in RunOpen =>
         /\ s.run <= Len(Runs)
         /\ Done(s) + Len(s.current) = Size(s)
         /\ \A i \in 1 .. Len(s.current) : s.current[i] = Done(s) + i
         /\ OneFailed(s.book, Done(s))

(* Nothing has failed yet: the calls of the run are finished, all but the  *)
(* one being made.                                                         *)
Going(s) == \/ s.pc \in {"agent", "call", "acquire", "receipt"}
            \/ s.pc = "idled" /\ s.fault = "none"
            \/ s.pc = "dispose" /\ s.err = "none"

GoingHolds(s) ==
    /\ Going(s) => Unfailed(s.book) /\ s.orphan = 0
    /\ Going(s) /\ s.pc \notin {"call", "acquire"} => FinishedTo(s.book, Done(s), Size(s))
    /\ s.pc \in {"call", "acquire"} =>
         /\ FinishedTo(s.book, Done(s), Size(s) - 1)
         /\ Size(s) > Done(s) /\ s.book.claims[Size(s)].status = "pending"
    /\ s.pc \in {"agent", "call", "acquire"} => s.fault = "none"
    /\ s.pc \in Asking \cup {"acquire", "receipt"} => s.err = "none"
    /\ s.pc \in Asking =>
         s.orphan = 0 /\ \A q \in Left(s.book, Done(s)) : s.book.claims[q].kind = "task"
    /\ s.pc \in Acquiring /\ s.err = "none" =>
         Size(s) > Done(s) /\ s.book.claims[Size(s)].kind = "acquisition"

(* A stream that is still open is that of a call that has not failed. *)
OrphanHolds(s) ==
    s.orphan # 0 =>
        /\ s.orphan \in Left(s.book, Done(s)) /\ s.pc \in {"dispose", "caught"} \cup Winding
        /\ s.pc \in {"dispose", "caught"} => s.err # "none" /\ s.book.consecutive = 0

WindingHolds(s) ==
    s.pc \in Winding =>
        /\ Settled(s.book, Done(s))
        /\ s.reason = "circuit_open" => s.book.consecutive = Breaker
        /\ s.reason = "none" => Len(s.receipts) = Len(Runs) /\ Size(s) = Done(s)
        /\ s.reason = "none" /\ s.pc = "summary" => s.clean
        /\ s.reason = "cleanup_failed" => s.pc = "summary"

ExecutionHolds(s) ==
    /\ ReceiptsHold(s) /\ LedgerHolds(s.book, Done(s), Len(s.receipts))
    /\ FreshHolds(s) /\ RunHolds(s) /\ GoingHolds(s) /\ OrphanHolds(s) /\ WindingHolds(s)

(***************************************************************************)
(* The disk.                                                               *)
(***************************************************************************)
OwnReceipts(e) == {n \in DOMAIN Runs : receiptFile[n] = e}

PastClaim == {"isolate", "bridge", "abandon", "head"} \cup RunOpen \cup Winding

(* The receipts of an execution are those it knows of, and at most one it  *)
(* published and was told it had not.                                      *)
OnDisk(e) ==
    /\ e \in callers => e \in claimed
    /\ e \in claimed => WorldHolds(input[e])
    /\ x[e].pc = "claim" => WorldHolds(input[e])
    /\ x[e].pc \in PastClaim => e \in claimed
    /\ x[e].pc \in {"idle", "claim", "isolate", "bridge", "abandon"} => OwnReceipts(e) = {}
    /\ x[e].pc \in {"head"} \cup Asking \cup Acquiring =>
         OwnReceipts(e) = 1 .. Len(x[e].receipts)
    /\ x[e].pc \in {"caught"} \cup Winding =>
         /\ 1 .. Len(x[e].receipts) \subseteq OwnReceipts(e)
         /\ OwnReceipts(e) \subseteq 1 .. Len(x[e].receipts) + 1
    /\ x[e].pc = "summary" /\ x[e].clean => isolation[e] = "absent"

(* A summary is the last thing its execution does. *)
SummaryOnDisk ==
    summaryFile # None =>
        LET f == summaryFile IN
        /\ f.by \in Execution /\ x[f.by].pc = "ended"
        /\ \E k \in 0 .. Len(Runs) :
              /\ f.receipts = 1 .. k
              /\ 1 .. k \subseteq OwnReceipts(f.by) /\ OwnReceipts(f.by) \subseteq 1 .. k + 1
              /\ f.status = "pass" => k = Len(Runs) /\ isolation[f.by] = "absent"

OnceClaimed ==
    \A e, f \in claimed : ExecutionId(input[e]) = ExecutionId(input[f]) => e = f

CanaryType ==
    /\ x \in [Execution -> State]
    /\ claimed \in SUBSET Execution /\ callers \in SUBSET Execution
    /\ receiptFile \in [DOMAIN Runs -> Execution \cup {None}]
    /\ isolation \in [Execution -> {"absent", "present"}]

DiskInv ==
    /\ OnceClaimed /\ SummaryOnDisk
    /\ \A e \in Execution : OnDisk(e)

CInv ==
    /\ CanaryType /\ DiskInv
    /\ \A e \in Execution : ExecutionHolds(x[e])

-----------------------------------------------------------------------------
(***************************************************************************)
(* What the operators of the ledger do to a book.                          *)
(***************************************************************************)
SameKinds(b, c) ==
    /\ Len(c.claims) = Len(b.claims)
    /\ \A q \in 1 .. Len(b.claims) : c.claims[q].kind = b.claims[q].kind

(* The parts of a book. *)
LEMMA BookFields ==
    ASSUME NEW b \in Book
    PROVE  /\ b.claims \in Seq(ClaimRecord) /\ b.consecutive \in 0 .. 2 /\ b.circuit \in BOOLEAN
           /\ b.diagnostics \in SUBSET DiagnosticRecord /\ Len(b.claims) \in Nat
           /\ DOMAIN b.claims = 1 .. Len(b.claims)
           /\ \A q \in 1 .. Len(b.claims) :
                /\ b.claims[q] \in ClaimRecord
                /\ b.claims[q].kind \in Kinds /\ b.claims[q].status \in Statuses
<1>1. /\ b.claims \in Seq(ClaimRecord) /\ b.consecutive \in 0 .. 2 /\ b.circuit \in BOOLEAN
      /\ b.diagnostics \in SUBSET DiagnosticRecord
  BY DEF Book, Breaker
<1>2. /\ Len(b.claims) \in Nat /\ DOMAIN b.claims = 1 .. Len(b.claims)
      /\ \A q \in 1 .. Len(b.claims) : b.claims[q] \in ClaimRecord
  BY <1>1
<1>3. \A r \in ClaimRecord : r.kind \in Kinds /\ r.status \in Statuses
  BY DEF ClaimRecord
<1> QED BY <1>1, <1>2, <1>3

(* The book of an execution that has claimed nothing. *)
LEMMA EmptyBookIs ==
    /\ EmptyBook \in Book /\ Len(EmptyBook.claims) = 0
    /\ EmptyBook.consecutive = 0 /\ EmptyBook.circuit = FALSE /\ EmptyBook.diagnostics = {}
BY DEF EmptyBook, Book, Breaker

(* BudgetLedger.claim adds one pending call. *)
LEMMA ClaimIs ==
    ASSUME NEW b \in Book, NEW kind \in Kinds, NEW c, c = Claim(b, kind)
    PROVE  /\ c \in Book /\ Len(c.claims) = Len(b.claims) + 1
           /\ \A q \in 1 .. Len(b.claims) : c.claims[q] = b.claims[q]
           /\ c.claims[Len(b.claims) + 1].kind = kind
           /\ c.claims[Len(b.claims) + 1].status = "pending"
           /\ c.consecutive = b.consecutive /\ c.circuit = b.circuit
           /\ c.diagnostics = b.diagnostics
<1>1. PICK r : r = [kind |-> kind, status |-> "pending"]
  OBVIOUS
<1>2. r \in ClaimRecord /\ r.kind = kind /\ r.status = "pending"
  BY <1>1 DEF ClaimRecord, Statuses, Open
<1>3. c = [b EXCEPT !.claims = Append(b.claims, r)]
  BY <1>1 DEF Claim
<1>4. c.claims = Append(b.claims, r) /\ c.consecutive = b.consecutive
      /\ c.circuit = b.circuit /\ c.diagnostics = b.diagnostics
  BY <1>3 DEF Book
<1>5. b.claims \in Seq(ClaimRecord) /\ Append(b.claims, r) \in Seq(ClaimRecord)
  BY <1>2 DEF Book
<1>6. c \in Book
  BY <1>3, <1>5 DEF Book
<1>7. /\ Len(c.claims) = Len(b.claims) + 1 /\ c.claims[Len(b.claims) + 1] = r
      /\ \A q \in 1 .. Len(b.claims) : c.claims[q] = b.claims[q]
  BY <1>2, <1>4, <1>5
<1> QED BY <1>2, <1>4, <1>6, <1>7

(* BudgetLedger.transportFinished changes the status of its call only. *)
LEMMA TransportIs ==
    ASSUME NEW b \in Book, NEW p \in 1 .. Len(b.claims), NEW c, c = TransportFinished(b, p)
    PROVE  /\ c \in Book /\ SameKinds(b, c) /\ c.claims[p].status = "transport_finished"
           /\ \A q \in 1 .. Len(b.claims) : q # p => c.claims[q] = b.claims[q]
           /\ c.consecutive = b.consecutive /\ c.circuit = b.circuit
           /\ c.diagnostics = b.diagnostics
<1>1. PICK r : r = [b.claims[p] EXCEPT !.status = "transport_finished"]
  OBVIOUS
<1>2. b.claims \in Seq(ClaimRecord) /\ b.claims[p] \in ClaimRecord
  BY BookFields
<1>3. r \in ClaimRecord /\ r.kind = b.claims[p].kind /\ r.status = "transport_finished"
  BY <1>1, <1>2 DEF ClaimRecord, Statuses, Open
<1>4. PICK s : s = [b.claims EXCEPT ![p] = r]
  OBVIOUS
<1>5. /\ s \in Seq(ClaimRecord) /\ Len(s) = Len(b.claims) /\ s[p] = r
      /\ \A q \in 1 .. Len(b.claims) : q # p => s[q] = b.claims[q]
  BY <1>2, <1>3, <1>4
<1>6. c = [b EXCEPT !.claims = s]
  BY <1>1, <1>4 DEF TransportFinished
<1>7. /\ c.claims = s /\ c.consecutive = b.consecutive /\ c.circuit = b.circuit
      /\ c.diagnostics = b.diagnostics /\ c \in Book
  BY <1>5, <1>6 DEF Book
<1> QED BY <1>3, <1>5, <1>7 DEF SameKinds

(* Setting the status of some calls. *)
LEMMA StatusesSet ==
    ASSUME NEW b \in Book, NEW Q, NEW status \in Statuses, NEW s,
           s = [q \in DOMAIN b.claims |->
                  IF q \in Q THEN [b.claims[q] EXCEPT !.status = status] ELSE b.claims[q]]
    PROVE  /\ s \in Seq(ClaimRecord) /\ Len(s) = Len(b.claims)
           /\ \A q \in 1 .. Len(b.claims) :
                /\ s[q].kind = b.claims[q].kind
                /\ q \in Q => s[q].status = status
                /\ q \notin Q => s[q] = b.claims[q]
<1>1. /\ DOMAIN b.claims = 1 .. Len(b.claims) /\ Len(b.claims) \in Nat
      /\ \A q \in 1 .. Len(b.claims) : b.claims[q] \in ClaimRecord
  BY BookFields
<1>2. ASSUME NEW r \in ClaimRecord
      PROVE  /\ [r EXCEPT !.status = status] \in ClaimRecord
             /\ [r EXCEPT !.status = status].kind = r.kind
             /\ [r EXCEPT !.status = status].status = status
  BY DEF ClaimRecord
<1>3. ASSUME NEW q \in 1 .. Len(b.claims)
      PROVE  /\ s[q] \in ClaimRecord /\ s[q].kind = b.claims[q].kind
             /\ q \in Q => s[q].status = status
             /\ q \notin Q => s[q] = b.claims[q]
  <2>1. PICK r \in ClaimRecord : r = b.claims[q]
    BY <1>1
  <2>2. CASE q \in Q
    <3>1. s[q] = [r EXCEPT !.status = status]
      BY <1>1, <2>1, <2>2
    <3> QED BY <1>2, <2>1, <2>2, <3>1
  <2>3. CASE q \notin Q
    <3>1. s[q] = r
      BY <1>1, <2>1, <2>3
    <3> QED BY <2>1, <2>3, <3>1
  <2> QED BY <2>2, <2>3
<1>4. s = [q \in 1 .. Len(b.claims) |-> s[q]]
  BY <1>1
<1>5. s \in Seq(ClaimRecord) /\ Len(s) = Len(b.claims)
  BY ONLY <1>1, <1>3, <1>4
<1> QED BY <1>3, <1>5

(* FailedCalls fails the calls it is given and counts them towards the     *)
(* breaker.                                                                *)
LEMMA FailedIs ==
    ASSUME NEW b \in Book, NEW Q \in SUBSET (1 .. Len(b.claims)), NEW c, c = FailedCalls(b, Q)
    PROVE  /\ c \in Book /\ SameKinds(b, c) /\ c.diagnostics = b.diagnostics
           /\ \A q \in 1 .. Len(b.claims) : /\ q \in Q => c.claims[q].status = "failed"
                                            /\ q \notin Q => c.claims[q] = b.claims[q]
           /\ c.consecutive = Lesser(Breaker, b.consecutive + Cardinality(Q))
           /\ c.circuit <=> b.circuit \/ c.consecutive = Breaker
<1>1. IsFiniteSet(Q) /\ Cardinality(Q) \in Nat
  <2>1. 1 \in Int /\ Len(b.claims) \in Int
    BY BookFields
  <2>2. IsFiniteSet(1 .. Len(b.claims))
    BY <2>1, FS_Interval
  <2> QED BY <2>2, FS_Subset, FS_CardinalityType
<1>2. PICK s : s = [q \in DOMAIN b.claims |->
                      IF q \in Q THEN [b.claims[q] EXCEPT !.status = "failed"] ELSE b.claims[q]]
  OBVIOUS
<1>3. "failed" \in Statuses
  BY DEF Statuses
<1>4. /\ s \in Seq(ClaimRecord) /\ Len(s) = Len(b.claims)
      /\ \A q \in 1 .. Len(b.claims) :
           /\ s[q].kind = b.claims[q].kind
           /\ q \in Q => s[q].status = "failed"
           /\ q \notin Q => s[q] = b.claims[q]
  BY ONLY b \in Book, <1>2, <1>3, StatusesSet
<1>5. PICK k : k = Lesser(Breaker, b.consecutive + Cardinality(Q))
  OBVIOUS
<1>6. k \in 0 .. Breaker
  BY <1>1, <1>5, BookFields DEF Lesser, Breaker
<1>7. PICK o : o = (b.circuit \/ k = Breaker)
  OBVIOUS
<1>8. c = [b EXCEPT !.claims = s, !.consecutive = k, !.circuit = o]
  BY <1>2, <1>5, <1>7 DEF FailedCalls
<1>9. /\ c.claims = s /\ c.consecutive = k /\ c.circuit = o /\ c.diagnostics = b.diagnostics
  BY <1>8 DEF Book
<1>10. o \in BOOLEAN
  BY <1>7
<1>11. c \in Book
  BY <1>4, <1>6, <1>8, <1>10 DEF Book
<1> QED BY <1>4, <1>5, <1>7, <1>9, <1>11 DEF SameKinds

(* The diagnostic of a failure names its call and passes its own check. *)
LEMMA DiagnosticIs ==
    ASSUME NEW b \in Book, NEW q \in 1 .. Len(b.claims),
           NEW err \in {"coded", "protocol", "other", "schema", "batch", "call"},
           NEW stage \in {"provider_stream", "runner_protocol"} \cup OutputStages,
           err = "schema" => stage \in OutputStages,
           NEW d, d = Diagnostic(b, q, err, stage)
    PROVE  /\ d \in DiagnosticRecord /\ d.sequence = q /\ d.call_kind = b.claims[q].kind
           /\ ValidDiagnostic(d)
<1>1. b.claims[q].kind \in Kinds /\ q \in Nat
  BY BookFields
<1>2. PICK o : o = ClassifyFailure(err, stage)
  OBVIOUS
<1>3. /\ o \in Class
      /\ o.category = "of_code" => o.stage = "provider_stream"
      /\ o.category = "model_output_schema_error" => o.stage \in OutputStages
      /\ o.category = "runner_protocol_error" => o.stage = "runner_protocol"
  <2>1. CASE err \in {"protocol", "batch", "call"}
    <3>1. o = [stage |-> "runner_protocol", category |-> "runner_protocol_error"]
      BY <1>2, <2>1 DEF ClassifyFailure
    <3> QED BY <3>1 DEF Class
  <2>2. CASE err \notin {"protocol", "batch", "call"} /\ (err = "schema" \/ stage \in OutputStages)
    <3>1. o = [stage |-> stage, category |-> "model_output_schema_error"]
      BY <1>2, <2>2 DEF ClassifyFailure
    <3>2. stage \in OutputStages
      BY <2>2
    <3> QED BY <3>1, <3>2 DEF Class
  <2>3. CASE err = "coded" /\ stage \notin OutputStages
    <3>1. o = [stage |-> "provider_stream", category |-> "of_code"]
      BY <1>2, <2>3 DEF ClassifyFailure
    <3> QED BY <3>1 DEF Class
  <2>4. CASE err = "other" /\ stage = "provider_stream"
    <3>1. o = [stage |-> "provider_stream", category |-> "unknown_provider_error"]
      BY <1>2, <2>4 DEF ClassifyFailure, OutputStages
    <3> QED BY <3>1 DEF Class
  <2>5. CASE err = "other" /\ stage = "runner_protocol"
    <3>1. o = [stage |-> "runner_protocol", category |-> "runner_protocol_error"]
      BY <1>2, <2>5 DEF ClassifyFailure, OutputStages
    <3> QED BY <3>1 DEF Class
  <2> QED BY <2>1, <2>2, <2>3, <2>4, <2>5
<1>4. d = [sequence |-> q, call_kind |-> b.claims[q].kind, of |-> o]
  BY <1>2 DEF Diagnostic
<1> QED BY <1>1, <1>3, <1>4 DEF DiagnosticRecord, ValidDiagnostic

FailingErrors == {"coded", "protocol", "other", "schema", "batch", "call"}
Stages        == {"provider_stream", "runner_protocol"} \cup OutputStages

(* onFail of an open call fails it and records one diagnostic of it. *)
LEMMA OnFailIs ==
    ASSUME NEW b \in Book, NEW q \in 1 .. Len(b.claims), NEW err \in FailingErrors,
           NEW stage \in Stages, err = "schema" => stage \in OutputStages,
           b.claims[q].status \in Open, NEW c, c = OnFail(b, q, err, stage)
    PROVE  /\ c \in Book /\ SameKinds(b, c) /\ c.claims[q].status = "failed"
           /\ \A p \in 1 .. Len(b.claims) : p # q => c.claims[p] = b.claims[p]
           /\ c.consecutive = Lesser(2, b.consecutive + 1)
           /\ c.circuit <=> b.circuit \/ c.consecutive = 2
           /\ \E d \in DiagnosticRecord :
                 /\ c.diagnostics = b.diagnostics \cup {d}
                 /\ d.sequence = q /\ d.call_kind = b.claims[q].kind /\ ValidDiagnostic(d)
<1>1. PICK f : f = FailedCalls(b, {q})
  OBVIOUS
<1>2. {q} \in SUBSET (1 .. Len(b.claims)) /\ Cardinality({q}) = 1
  BY FS_Singleton
<1>3. /\ f \in Book /\ SameKinds(b, f) /\ f.diagnostics = b.diagnostics
      /\ \A p \in 1 .. Len(b.claims) : /\ p \in {q} => f.claims[p].status = "failed"
                                       /\ p \notin {q} => f.claims[p] = b.claims[p]
      /\ f.consecutive = Lesser(Breaker, b.consecutive + Cardinality({q}))
      /\ f.circuit <=> b.circuit \/ f.consecutive = Breaker
  BY <1>1, <1>2, FailedIs
<1>4. PICK d : d = Diagnostic(b, q, err, stage)
  OBVIOUS
<1>5. /\ d \in DiagnosticRecord /\ d.sequence = q /\ d.call_kind = b.claims[q].kind
      /\ ValidDiagnostic(d)
  BY <1>4, DiagnosticIs DEF FailingErrors, Stages
<1>6. c = [f EXCEPT !.diagnostics = b.diagnostics \cup {d}]
  BY <1>1, <1>3, <1>4 DEF OnFail
<1>7. /\ c.claims = f.claims /\ c.consecutive = f.consecutive /\ c.circuit = f.circuit
      /\ c.diagnostics = b.diagnostics \cup {d}
  BY <1>3, <1>6 DEF Book
<1>8. b.diagnostics \cup {d} \in SUBSET DiagnosticRecord
  BY <1>5, BookFields
<1>9. c \in Book
  BY <1>3, <1>6, <1>8 DEF Book
<1>10. f.consecutive = Lesser(2, b.consecutive + 1) /\ (f.circuit <=> b.circuit \/ f.consecutive = 2)
  BY <1>2, <1>3 DEF Breaker
<1>11. SameKinds(b, c)
  BY <1>3, <1>7 DEF SameKinds
<1>12. \A p \in 1 .. Len(b.claims) : p # q => c.claims[p] = b.claims[p]
  BY <1>3, <1>7
<1>13. c.claims[q].status = "failed"
  <2>1. q \in {q} /\ q \in 1 .. Len(b.claims)
    OBVIOUS
  <2>2. f.claims[q].status = "failed"
    BY ONLY <1>3, <2>1
  <2> QED BY ONLY <1>7, <2>2
<1> QED BY <1>5, <1>7, <1>9, <1>10, <1>11, <1>12, <1>13

(* onFail of a settled call does nothing. *)
LEMMA SettledStays ==
    ASSUME NEW b, NEW q, NEW err, NEW stage, b.claims[q].status \notin Open
    PROVE  OnFail(b, q, err, stage) = b
BY DEF OnFail

(* CompleteCalls of finished calls completes all of them. *)
LEMMA CompleteIs ==
    ASSUME NEW b \in Book, NEW Q \in SUBSET (1 .. Len(b.claims)), Q # {},
           \A q \in Q : b.claims[q].status = "transport_finished",
           NEW c, c = CompleteCalls(b, Q)
    PROVE  /\ Completable(b, Q) = Q
           /\ c \in Book /\ SameKinds(b, c) /\ c.consecutive = 0 /\ c.circuit = b.circuit
           /\ c.diagnostics = b.diagnostics
           /\ \A q \in 1 .. Len(b.claims) : /\ q \in Q => c.claims[q].status = "completed"
                                            /\ q \notin Q => c.claims[q] = b.claims[q]
<1>1. Completable(b, Q) = Q
  BY DEF Completable
<1>2. PICK s : s = [q \in DOMAIN b.claims |->
                      IF q \in Q THEN [b.claims[q] EXCEPT !.status = "completed"] ELSE b.claims[q]]
  OBVIOUS
<1>3. "completed" \in Statuses
  BY DEF Statuses
<1>4. /\ s \in Seq(ClaimRecord) /\ Len(s) = Len(b.claims)
      /\ \A q \in 1 .. Len(b.claims) :
           /\ s[q].kind = b.claims[q].kind
           /\ q \in Q => s[q].status = "completed"
           /\ q \notin Q => s[q] = b.claims[q]
  BY <1>2, <1>3, StatusesSet
<1>5. c = [b EXCEPT !.claims = s, !.consecutive = 0]
  BY <1>1, <1>2 DEF CompleteCalls
<1>6. /\ c.claims = s /\ c.consecutive = 0 /\ c.circuit = b.circuit
      /\ c.diagnostics = b.diagnostics
  BY <1>5 DEF Book
<1>7. c \in Book
  <2>1. 0 \in 0 .. Breaker
    BY DEF Breaker
  <2> QED BY <1>4, <1>5, <2>1 DEF Book
<1> QED BY <1>1, <1>4, <1>6, <1>7 DEF SameKinds

OpenCalls(b) == {q \in 1 .. Len(b.claims) : b.claims[q].status \in Open}

(* One diagnostic more for each call of the book that has none and is not  *)
(* in R.                                                                   *)
Added(b, R, D) ==
    /\ \A d \in D :
         /\ d.sequence \in 1 .. Len(b.claims) /\ d.sequence \notin R
         /\ \A e \in b.diagnostics : e.sequence # d.sequence
         /\ d.call_kind = b.claims[d.sequence].kind /\ ValidDiagnostic(d)
         /\ \A f \in D : f.sequence = d.sequence => f = d
    /\ \A q \in (1 .. Len(b.claims)) \ R :
         \/ \E e \in b.diagnostics : e.sequence = q
         \/ \E d \in D : d.sequence = q

(* The catch fails every open call, with a diagnostic of each that had     *)
(* none.                                                                   *)
LEMMA SettleIs ==
    ASSUME NEW b \in Book, NEW R, NEW c, c = Settle(b, R)
    PROVE  /\ c \in Book /\ SameKinds(b, c)
           /\ \A q \in 1 .. Len(b.claims) :
                 /\ b.claims[q].status \in Open => c.claims[q].status = "failed"
                 /\ b.claims[q].status \notin Open => c.claims[q] = b.claims[q]
           /\ c.consecutive = Lesser(Breaker, b.consecutive + Cardinality(OpenCalls(b)))
           /\ c.circuit <=> b.circuit \/ c.consecutive = Breaker
           /\ \E D \in SUBSET DiagnosticRecord :
                 c.diagnostics = b.diagnostics \cup D /\ Added(b, R, D)
<1> DEFINE O == OpenCalls(b)
           left == ((1 .. Len(b.claims)) \ R) \ {d.sequence : d \in b.diagnostics}
           D == {Diagnostic(b, q, "protocol", "runner_protocol") : q \in left}
<1>1. Among(b, Kinds, Open) = O
  BY BookFields DEF Among, OpenCalls
<1>2. PICK s : s = FailedCalls(b, O)
  OBVIOUS
<1>3. /\ s \in Book /\ SameKinds(b, s) /\ s.diagnostics = b.diagnostics
      /\ \A q \in 1 .. Len(b.claims) : /\ q \in O => s.claims[q].status = "failed"
                                       /\ q \notin O => s.claims[q] = b.claims[q]
      /\ s.consecutive = Lesser(Breaker, b.consecutive + Cardinality(O))
      /\ s.circuit <=> b.circuit \/ s.consecutive = Breaker
  <2>1. O \in SUBSET (1 .. Len(b.claims))
    BY DEF OpenCalls
  <2> HIDE DEF O
  <2> QED BY ONLY b \in Book, <1>2, <2>1, FailedIs, ZenonT(60)
<1>4. SettleAllPendingAsFailed(b) = s
  BY <1>1, <1>2 DEF SettleAllPendingAsFailed
<1>5. c = [s EXCEPT !.diagnostics = b.diagnostics \cup D]
  BY <1>3, <1>4, BookFields DEF Settle
<1>6. ASSUME NEW q \in left, NEW d, d = Diagnostic(b, q, "protocol", "runner_protocol")
      PROVE  /\ d \in DiagnosticRecord /\ d.sequence = q /\ d.call_kind = b.claims[q].kind
             /\ ValidDiagnostic(d)
  BY <1>6, DiagnosticIs
<1>7. D \in SUBSET DiagnosticRecord
  BY <1>6
<1>8. \A d \in D : \E q \in left : d = Diagnostic(b, q, "protocol", "runner_protocol")
  OBVIOUS
<1>9. \A q \in left : \E d \in D : d = Diagnostic(b, q, "protocol", "runner_protocol")
  OBVIOUS
<1> HIDE DEF D
<1>10. \A d \in D : /\ d.sequence \in left /\ d.call_kind = b.claims[d.sequence].kind
                    /\ ValidDiagnostic(d)
                    /\ d = Diagnostic(b, d.sequence, "protocol", "runner_protocol")
  BY <1>6, <1>8
<1>11. \A q \in left : \E d \in D : d.sequence = q
  BY <1>6, <1>9
<1>12. /\ c.claims = s.claims /\ c.consecutive = s.consecutive /\ c.circuit = s.circuit
       /\ c.diagnostics = b.diagnostics \cup D
  BY <1>3, <1>5 DEF Book
<1>13. b.diagnostics \cup D \in SUBSET DiagnosticRecord
  BY <1>7, BookFields
<1>14. c \in Book
  BY <1>3, <1>5, <1>13 DEF Book
<1>15. \A d, f \in D : f.sequence = d.sequence => f = d
  BY <1>10
<1>16. \A d \in D : /\ d.sequence \in 1 .. Len(b.claims) /\ d.sequence \notin R
                    /\ \A e \in b.diagnostics : e.sequence # d.sequence
  BY <1>10
<1>17. \A q \in (1 .. Len(b.claims)) \ R : \/ \E e \in b.diagnostics : e.sequence = q
                                          \/ \E d \in D : d.sequence = q
  BY <1>11
<1>18. \A q \in 1 .. Len(b.claims) :
          /\ b.claims[q].status \in Open => c.claims[q].status = "failed"
          /\ b.claims[q].status \notin Open => c.claims[q] = b.claims[q]
  <2> TAKE q \in 1 .. Len(b.claims)
  <2>1. q \in O <=> b.claims[q].status \in Open
    BY DEF OpenCalls
  <2>2. /\ q \in O => s.claims[q].status = "failed"
        /\ q \notin O => s.claims[q] = b.claims[q]
    BY ONLY <1>3
  <2>3. c.claims = s.claims
    BY <1>12
  <2> HIDE DEF O
  <2> QED BY <2>1, <2>2, <2>3
<1>19. SameKinds(b, c)
  BY <1>3, <1>12 DEF SameKinds
<1>20. Added(b, R, D)
  BY <1>10, <1>15, <1>16, <1>17 DEF Added
<1> HIDE DEF left
<1> QED BY <1>3, <1>7, <1>12, <1>14, <1>18, <1>19, <1>20

-----------------------------------------------------------------------------
(***************************************************************************)
(* What is kept about the calls survives every operator.                   *)
(***************************************************************************)
LEMMA AmongFinite ==
    ASSUME NEW b \in Book, NEW K, NEW S
    PROVE  IsFiniteSet(Among(b, K, S)) /\ Cardinality(Among(b, K, S)) \in Nat
<1>1. 1 \in Int /\ Len(b.claims) \in Int
  BY BookFields
<1>2. IsFiniteSet(1 .. Len(b.claims))
  BY <1>1, FS_Interval
<1>3. Among(b, K, S) \in SUBSET (1 .. Len(b.claims))
  BY BookFields DEF Among
<1> QED BY <1>2, <1>3, FS_Subset, FS_CardinalityType

(* The calls of a kind. *)
LEMMA OfKind ==
    ASSUME NEW b \in Book, NEW k
    PROVE  Among(b, {k}, Statuses) = {q \in 1 .. Len(b.claims) : b.claims[q].kind = k}
BY BookFields DEF Among

(* A change of statuses that keeps what is reported keeps the ledger. *)
LEMMA LedgerStatus ==
    ASSUME NEW b \in Book, NEW c \in Book, NEW m, NEW n, LedgerHolds(b, m, n), SameKinds(b, c),
           \A q \in 1 .. m : c.claims[q].status = "completed",
           \A q \in Left(b, m) : c.claims[q].status # "completed", Reported(c, m)
    PROVE  LedgerHolds(c, m, n)
<1>1. Len(b.claims) \in Nat /\ m \in Nat /\ m <= Len(b.claims)
  BY BookFields DEF LedgerHolds
<1>2. Acquisitions(c, m) = Acquisitions(b, m)
  BY <1>1 DEF Acquisitions, SameKinds
<1>3. \A k : Among(c, {k}, Statuses) = Among(b, {k}, Statuses)
  <2> SUFFICES ASSUME NEW k PROVE Among(c, {k}, Statuses) = Among(b, {k}, Statuses)
    OBVIOUS
  <2>1. /\ Among(b, {k}, Statuses) = {q \in 1 .. Len(b.claims) : b.claims[q].kind = k}
        /\ Among(c, {k}, Statuses) = {q \in 1 .. Len(c.claims) : c.claims[q].kind = k}
    BY OfKind
  <2> QED BY <2>1 DEF SameKinds
<1>4. Limited(c)
  BY <1>3 DEF Limited, LedgerHolds
<1>5. Left(c, m) = Left(b, m) /\ Len(c.claims) = Len(b.claims)
  BY DEF Left, SameKinds
<1>6. \A q \in Left(c, m) : q # Len(c.claims) => c.claims[q].kind = "task"
  BY <1>1, <1>5 DEF LedgerHolds, SameKinds, Left
<1> QED BY <1>1, <1>2, <1>4, <1>5, <1>6 DEF LedgerHolds

(* The ledger holds after a claim. *)
LEMMA LedgerClaim ==
    ASSUME NEW b \in Book, NEW m, NEW n, LedgerHolds(b, m, n), NEW kind \in Kinds,
           Claimable(b, kind), \A q \in Left(b, m) : b.claims[q].kind = "task",
           NEW c, c = Claim(b, kind)
    PROVE  LedgerHolds(c, m, n)
<1> DEFINE N == Len(b.claims)
<1>1. N \in Nat /\ m \in Nat /\ m <= N /\ n \in Nat
  BY BookFields DEF LedgerHolds
<1>2. /\ c \in Book /\ Len(c.claims) = N + 1
      /\ \A q \in 1 .. N : c.claims[q] = b.claims[q]
      /\ c.claims[N + 1].kind = kind /\ c.claims[N + 1].status = "pending"
      /\ c.diagnostics = b.diagnostics
  BY ClaimIs
<1>3. Acquisitions(c, m) = Acquisitions(b, m)
  BY <1>1, <1>2 DEF Acquisitions
<1>4. Left(c, m) = Left(b, m) \cup {N + 1} /\ Left(b, m) \subseteq 1 .. N
      /\ N + 1 \notin Left(b, m)
  <2>1. Left(c, m) = (m + 1) .. (N + 1) /\ Left(b, m) = (m + 1) .. N
    BY <1>2 DEF Left
  <2> HIDE DEF N
  <2> QED BY ONLY <1>1, <2>1
<1>5. Reported(c, m)
  <2>1. c.claims[N + 1].status # "failed"
    BY <1>2
  <2>2. \A q \in Left(b, m) : c.claims[q] = b.claims[q]
    BY <1>2, <1>4
  <2>3. Reported(b, m) /\ c.diagnostics = b.diagnostics
    BY <1>2 DEF LedgerHolds
  <2> HIDE DEF N
  <2> QED BY ONLY <1>4, <2>1, <2>2, <2>3 DEF Reported
<1>6. Limited(c)
  <2> SUFFICES ASSUME NEW k \in Kinds PROVE Cardinality(Among(c, {k}, Statuses)) <= PLAN_LIMITS[k]
    BY DEF Limited
  <2> DEFINE A == {q \in 1 .. N : b.claims[q].kind = k}
  <2>1. Among(b, {k}, Statuses) = A
    BY OfKind
  <2>2. IsFiniteSet(A) /\ Cardinality(A) \in Nat
    BY <2>1, AmongFinite
  <2>3. CASE k = kind
    <3>1. Among(c, {k}, Statuses) = A \cup {N + 1}
      <4>1. Among(c, {k}, Statuses) = {q \in 1 .. N + 1 : c.claims[q].kind = k}
        <5>1. c \in Book /\ Len(c.claims) = N + 1
          BY <1>2
        <5>2. Among(c, {k}, Statuses) = {q \in 1 .. Len(c.claims) : c.claims[q].kind = k}
          BY ONLY <5>1, OfKind
        <5> QED BY ONLY <5>1, <5>2
      <4>2. \A q : q \in 1 .. N + 1 <=> q \in 1 .. N \/ q = N + 1
        BY <1>1
      <4>3. (\A q \in 1 .. N : c.claims[q] = b.claims[q]) /\ c.claims[N + 1].kind = k
        BY <1>2, <2>3
      <4> HIDE DEF N
      <4> QED BY ONLY <4>1, <4>2, <4>3
    <3>2. N + 1 \notin A
      BY <1>1
    <3> HIDE DEF A
    <3>3. Cardinality(A \cup {N + 1}) = Cardinality(A) + 1
      BY <2>2, <3>2, FS_AddElement
    <3>4. Cardinality(A) < PLAN_LIMITS[k]
      BY <2>1, <2>3 DEF Claimable
    <3>5. PLAN_LIMITS[k] \in Nat
      BY RunsAssumption DEF PLAN_LIMITS, Kinds
    <3>6. \A i, j \in Nat : i < j => i + 1 <= j
      OBVIOUS
    <3> QED BY <2>2, <3>1, <3>3, <3>4, <3>5, <3>6
  <2>4. CASE k # kind
    <3>1. Among(c, {k}, Statuses) = A
      <4>1. Among(c, {k}, Statuses) = {q \in 1 .. N + 1 : c.claims[q].kind = k}
        <5>1. c \in Book /\ Len(c.claims) = N + 1
          BY <1>2
        <5>2. Among(c, {k}, Statuses) = {q \in 1 .. Len(c.claims) : c.claims[q].kind = k}
          BY ONLY <5>1, OfKind
        <5> QED BY ONLY <5>1, <5>2
      <4>2. \A q : q \in 1 .. N + 1 <=> q \in 1 .. N \/ q = N + 1
        BY <1>1
      <4>3. (\A q \in 1 .. N : c.claims[q] = b.claims[q]) /\ c.claims[N + 1].kind # k
        BY <1>2, <2>4
      <4> HIDE DEF N
      <4> QED BY ONLY <4>1, <4>2, <4>3
    <3> QED BY <2>1, <3>1 DEF LedgerHolds, Limited
  <2> QED BY <2>3, <2>4
<1>7. \A q \in 1 .. m : c.claims[q].status = "completed"
  <2>1. \A q \in 1 .. m : b.claims[q].status = "completed" /\ q \in 1 .. N
    BY <1>1 DEF LedgerHolds
  <2> QED BY ONLY <1>2, <2>1
<1>8. \A q \in Left(c, m) : c.claims[q].status # "completed"
                            /\ (q # N + 1 => c.claims[q].kind = "task")
  BY <1>2, <1>4 DEF LedgerHolds
<1>9. m <= N + 1 /\ Cardinality(Acquisitions(c, m)) = n
  BY <1>1, <1>3 DEF LedgerHolds
<1> HIDE DEF N
<1> QED BY <1>1, <1>2, <1>5, <1>6, <1>7, <1>8, <1>9 DEF LedgerHolds

(* The ledger holds after an answer. *)
LEMMA LedgerTransport ==
    ASSUME NEW b \in Book, NEW m, NEW n, LedgerHolds(b, m, n), NEW p \in Left(b, m),
           b.claims[p].status # "failed", NEW c, c = TransportFinished(b, p)
    PROVE  LedgerHolds(c, m, n)
<1>1. Len(b.claims) \in Nat /\ m \in Nat /\ m <= Len(b.claims)
  BY BookFields DEF LedgerHolds
<1>2. p \in 1 .. Len(b.claims) /\ p \notin 1 .. m /\ 1 .. m \subseteq 1 .. Len(b.claims)
      /\ Left(b, m) \subseteq 1 .. Len(b.claims)
  BY <1>1 DEF Left
<1>3. /\ c \in Book /\ SameKinds(b, c) /\ c.claims[p].status = "transport_finished"
      /\ \A q \in 1 .. Len(b.claims) : q # p => c.claims[q] = b.claims[q]
      /\ c.diagnostics = b.diagnostics
  BY <1>2, TransportIs
<1>4. Left(c, m) = Left(b, m)
  BY <1>3 DEF Left, SameKinds
<1>5. Reported(c, m)
  <2>1. Reported(b, m) /\ \A d \in b.diagnostics : d.sequence # p
    BY DEF Reported, LedgerHolds
  <2>2. \A q \in Left(b, m) : q # p => c.claims[q] = b.claims[q]
    BY <1>2, <1>3
  <2>3. c.diagnostics = b.diagnostics /\ c.claims[p].status # "failed"
    BY <1>3
  <2> QED BY ONLY <1>4, <2>1, <2>2, <2>3 DEF Reported
<1>6. \A q \in 1 .. m : c.claims[q].status = "completed"
  BY <1>2, <1>3 DEF LedgerHolds
<1>7. \A q \in Left(b, m) : c.claims[q].status # "completed"
  BY <1>2, <1>3 DEF LedgerHolds
<1> QED BY <1>3, <1>5, <1>6, <1>7, LedgerStatus

(* The ledger holds after a failure. *)
LEMMA LedgerFail ==
    ASSUME NEW b \in Book, NEW m, NEW n, LedgerHolds(b, m, n), NEW p \in Left(b, m),
           NEW err \in FailingErrors, NEW stage \in Stages, err = "schema" => stage \in OutputStages,
           b.claims[p].status \in Open, NEW c, c = OnFail(b, p, err, stage)
    PROVE  LedgerHolds(c, m, n)
<1>1. Len(b.claims) \in Nat /\ m \in Nat /\ m <= Len(b.claims)
  BY BookFields DEF LedgerHolds
<1>2. p \in 1 .. Len(b.claims) /\ p \notin 1 .. m /\ 1 .. m \subseteq 1 .. Len(b.claims)
      /\ Left(b, m) \subseteq 1 .. Len(b.claims)
  BY <1>1 DEF Left
<1>3. /\ c \in Book /\ SameKinds(b, c) /\ c.claims[p].status = "failed"
      /\ \A q \in 1 .. Len(b.claims) : q # p => c.claims[q] = b.claims[q]
  BY <1>2, OnFailIs
<1>4. PICK d \in DiagnosticRecord :
         /\ c.diagnostics = b.diagnostics \cup {d}
         /\ d.sequence = p /\ d.call_kind = b.claims[p].kind /\ ValidDiagnostic(d)
  BY <1>2, OnFailIs
<1>5. Left(c, m) = Left(b, m)
  BY <1>3 DEF Left, SameKinds
<1>6. \A q \in 1 .. Len(b.claims) : c.claims[q].kind = b.claims[q].kind
  BY <1>3 DEF SameKinds
<1>7. \A e \in b.diagnostics :
         /\ e.sequence # p /\ e.sequence \in Left(b, m)
         /\ e.call_kind = b.claims[e.sequence].kind /\ b.claims[e.sequence].status = "failed"
         /\ ValidDiagnostic(e)
  BY DEF Reported, LedgerHolds, Open
<1>8. Reported(c, m)
  <2>1. \A e \in c.diagnostics :
          /\ e.sequence \in Left(c, m) /\ e.call_kind = c.claims[e.sequence].kind
          /\ c.claims[e.sequence].status = "failed" /\ ValidDiagnostic(e)
    BY <1>2, <1>3, <1>4, <1>5, <1>6, <1>7
  <2>2. \A q \in Left(c, m) : c.claims[q].status = "failed" =>
            \E e \in c.diagnostics : e.sequence = q
    BY <1>2, <1>3, <1>4, <1>5 DEF Reported, LedgerHolds
  <2>3. \A e, f \in c.diagnostics : e.sequence = f.sequence => e = f
    BY <1>4, <1>7 DEF Reported, LedgerHolds
  <2> QED BY <2>1, <2>2, <2>3 DEF Reported
<1>9. \A q \in 1 .. m : c.claims[q].status = "completed"
  BY <1>2, <1>3 DEF LedgerHolds
<1>10. \A q \in Left(b, m) : c.claims[q].status # "completed"
  BY <1>2, <1>3 DEF LedgerHolds
<1> QED BY <1>3, <1>8, <1>9, <1>10, LedgerStatus

(* A receipt takes every call without one, and nothing has failed. *)
LEMMA LedgerReceipt ==
    ASSUME NEW b \in Book, NEW m, NEW n, LedgerHolds(b, m, n), Unfailed(b), Len(b.claims) > m,
           FinishedTo(b, m, Len(b.claims)), b.claims[Len(b.claims)].kind = "acquisition",
           NEW c, c = CompleteCalls(b, Left(b, m))
    PROVE  /\ Completable(b, Left(b, m)) = Left(b, m)
           /\ c \in Book /\ Len(c.claims) = Len(b.claims) /\ Unfailed(c)
           /\ LedgerHolds(c, Len(b.claims), n + 1)
<1> DEFINE N == Len(b.claims)
<1>1. N \in Nat /\ m \in Nat /\ m <= N /\ m < N /\ n \in Nat
  BY BookFields DEF LedgerHolds
<1>2. /\ Left(b, m) \in SUBSET (1 .. N) /\ N \in Left(b, m)
      /\ \A q \in 1 .. N : q \in Left(b, m) <=> q \notin 1 .. m
  BY <1>1 DEF Left
<1>3. \A q \in Left(b, m) : b.claims[q].status = "transport_finished"
  BY DEF FinishedTo, Left
<1>4. /\ Completable(b, Left(b, m)) = Left(b, m)
      /\ c \in Book /\ SameKinds(b, c) /\ c.consecutive = 0 /\ c.circuit = b.circuit
      /\ c.diagnostics = b.diagnostics
      /\ \A q \in 1 .. N :
           /\ q \in Left(b, m) => c.claims[q].status = "completed"
           /\ q \notin Left(b, m) => c.claims[q] = b.claims[q]
  BY <1>2, <1>3, CompleteIs
<1>5. Len(c.claims) = N /\ \A q \in 1 .. N : c.claims[q].kind = b.claims[q].kind
  BY <1>4 DEF SameKinds
<1>6. Unfailed(c)
  BY <1>4 DEF Unfailed
<1>7. \A q \in 1 .. N : c.claims[q].status = "completed"
  BY <1>1, <1>2, <1>4 DEF LedgerHolds
<1>8. Cardinality(Acquisitions(c, N)) = n + 1
  <2>1. \A q \in (m + 1) .. N : q \in Left(b, m) /\ (q # N => c.claims[q].kind = "task")
    BY <1>1, <1>2, <1>5 DEF LedgerHolds, Left
  <2>2. \A q : q \in 1 .. N <=> q \in 1 .. m \/ q \in (m + 1) .. N
    BY <1>1
  <2>3. c.claims[N].kind = "acquisition" /\ N \in (m + 1) .. N /\ N \notin 1 .. m
    BY <1>1, <1>5
  <2>4. Acquisitions(c, N) = Acquisitions(b, m) \cup {N}
    <3> HIDE DEF N
    <3>1. \A q \in (m + 1) .. N : c.claims[q].kind = "acquisition" <=> q = N
      BY <2>1, <2>3
    <3>2. \A q \in 1 .. m : c.claims[q].kind = b.claims[q].kind
      BY <1>5, <2>2
    <3> QED BY <2>2, <2>3, <3>1, <3>2 DEF Acquisitions
  <2>5. IsFiniteSet(Acquisitions(b, m)) /\ N \notin Acquisitions(b, m)
    <3>1. IsFiniteSet(1 .. m)
      <4>1. 1 \in Int /\ m \in Int
        BY <1>1
      <4> QED BY <4>1, FS_Interval
    <3> QED BY <3>1, <2>3, FS_Subset DEF Acquisitions
  <2>6. Cardinality(Acquisitions(b, m)) = n
    BY DEF LedgerHolds
  <2> QED BY <2>4, <2>5, <2>6, FS_AddElement
<1>9. Limited(c)
  <2>1. \A k : Among(c, {k}, Statuses) = Among(b, {k}, Statuses)
    <3> SUFFICES ASSUME NEW k PROVE Among(c, {k}, Statuses) = Among(b, {k}, Statuses)
      OBVIOUS
    <3>1. /\ Among(b, {k}, Statuses) = {q \in 1 .. N : b.claims[q].kind = k}
          /\ Among(c, {k}, Statuses) = {q \in 1 .. Len(c.claims) : c.claims[q].kind = k}
      BY <1>4, OfKind
    <3> QED BY <1>5, <3>1
  <2> QED BY <2>1 DEF Limited, LedgerHolds
<1>10. Left(c, N) = {}
  BY <1>1, <1>5 DEF Left
<1>11. Reported(c, N)
  BY <1>6, <1>10 DEF Reported, Unfailed
<1> HIDE DEF N
<1>12. LedgerHolds(c, N, n + 1)
  BY <1>1, <1>5, <1>7, <1>8, <1>9, <1>10, <1>11 DEF LedgerHolds
<1> QED BY <1>4, <1>5, <1>6, <1>12 DEF N

(* After the catch every call without a receipt has failed. *)
LEMMA LedgerSettle ==
    ASSUME NEW b \in Book, NEW m, NEW n, LedgerHolds(b, m, n), OneFailed(b, m),
           NEW c, c = Settle(b, 1 .. m)
    PROVE  /\ c \in Book /\ Len(c.claims) = Len(b.claims)
           /\ LedgerHolds(c, m, n) /\ Settled(c, m)
           /\ c.circuit => c.consecutive = Breaker
<1> DEFINE N == Len(b.claims)
           O == OpenCalls(b)
<1>1. N \in Nat /\ m \in Nat /\ m <= N
  BY BookFields DEF LedgerHolds
<1>2. \A q : q \in 1 .. N <=> q \in 1 .. m \/ q \in Left(b, m)
  BY <1>1 DEF Left
<1>3. \A q : q \in Left(b, m) => q \notin 1 .. m
  BY <1>1 DEF Left
<1>4. /\ c \in Book /\ SameKinds(b, c)
      /\ \A q \in 1 .. N :
            /\ b.claims[q].status \in Open => c.claims[q].status = "failed"
            /\ b.claims[q].status \notin Open => c.claims[q] = b.claims[q]
      /\ c.consecutive = Lesser(Breaker, b.consecutive + Cardinality(O))
      /\ c.circuit <=> b.circuit \/ c.consecutive = Breaker
  BY SettleIs
<1>5. PICK D \in SUBSET DiagnosticRecord :
         c.diagnostics = b.diagnostics \cup D /\ Added(b, 1 .. m, D)
  BY SettleIs
<1>6. Len(c.claims) = N /\ \A q \in 1 .. N : c.claims[q].kind = b.claims[q].kind
  BY <1>4 DEF SameKinds
<1>7. \A q \in 1 .. m : c.claims[q].status = "completed"
  <2>1. \A q \in 1 .. m : q \in 1 .. N /\ b.claims[q].status = "completed"
    BY <1>2 DEF LedgerHolds
  <2> QED BY <1>4, <2>1 DEF Open
<1>8. \A q \in Left(b, m) : b.claims[q].status \in Open \/ b.claims[q].status = "failed"
  BY <1>2, BookFields DEF LedgerHolds, Statuses
<1>9. \A q \in Left(b, m) : c.claims[q].status = "failed"
  BY <1>2, <1>4, <1>8
<1>10. Left(c, m) = Left(b, m)
  BY <1>6 DEF Left
<1> HIDE DEF N
<1>11. Reported(c, m)
  <2>1. ASSUME NEW d \in c.diagnostics
        PROVE  /\ d.sequence \in Left(c, m) /\ d.call_kind = c.claims[d.sequence].kind
               /\ c.claims[d.sequence].status = "failed" /\ ValidDiagnostic(d)
    <3>1. CASE d \in b.diagnostics
      <4>1. d.sequence \in Left(b, m) /\ d.call_kind = b.claims[d.sequence].kind
            /\ ValidDiagnostic(d)
        BY <3>1 DEF LedgerHolds, Reported
      <4> QED BY <4>1, <1>2, <1>6, <1>9, <1>10
    <3>2. CASE d \in D
      <4>1. d.sequence \in Left(b, m) /\ d.call_kind = b.claims[d.sequence].kind
            /\ ValidDiagnostic(d)
        BY <3>2, <1>2, <1>5 DEF Added, N
      <4> QED BY <4>1, <1>2, <1>6, <1>9, <1>10
    <3> QED BY <1>5, <3>1, <3>2
  <2>2. \A q \in Left(c, m) : \E d \in c.diagnostics : d.sequence = q
  BY <1>2, <1>3, <1>5, <1>10 DEF Added, N
  <2>3. \A d, f \in c.diagnostics : d.sequence = f.sequence => d = f
    BY <1>5 DEF LedgerHolds, Reported, Added
  <2> QED BY <2>1, <2>2, <2>3 DEF Reported
<1>12. LedgerHolds(c, m, n)
  BY <1>4, <1>7, <1>9, <1>11, LedgerStatus
<1>13. c.consecutive = Lesser(Breaker, N - m)
  <2>1. IsFiniteSet(Left(b, m)) /\ Cardinality(Left(b, m)) = N - m
    <3>1. m + 1 \in Int /\ N \in Int
      BY <1>1
    <3>2. IsFiniteSet((m + 1) .. N)
          /\ Cardinality((m + 1) .. N) = IF m + 1 > N THEN 0 ELSE N - (m + 1) + 1
      BY <3>1, FS_Interval
    <3> QED BY <1>1, <3>2 DEF Left, N
  <2>2. \A q \in 1 .. m : b.claims[q].status \notin Open
    BY DEF LedgerHolds, Open
  <2>3. CASE b.consecutive = 0 /\ \A q \in Left(b, m) : b.claims[q].status # "failed"
    <3>1. O = Left(b, m)
      BY <1>2, <1>8, <2>2, <2>3 DEF OpenCalls, N
    <3> HIDE DEF O
    <3>2. b.consecutive + Cardinality(O) = N - m
      BY <1>1, <2>1, <2>3, <3>1
    <3> QED BY <1>4, <3>2
  <2>4. CASE /\ b.consecutive = 1
             /\ \E p \in Left(b, m) : \A q \in Left(b, m) : b.claims[q].status = "failed" <=> q = p
    <3>1. PICK p \in Left(b, m) :
             \A q \in Left(b, m) : b.claims[q].status = "failed" <=> q = p
      BY <2>4
    <3>2. O = Left(b, m) \ {p}
      BY <1>2, <1>8, <2>2, <3>1 DEF Open, OpenCalls, N
    <3> HIDE DEF O
    <3>3. Cardinality(O) = N - m - 1
      <4>1. IsFiniteSet(Left(b, m)) /\ Cardinality(Left(b, m)) = N - m
        BY <2>1
      <4>2. Cardinality(Left(b, m) \ {p}) = Cardinality(Left(b, m)) - 1
        BY ONLY <4>1, p \in Left(b, m), FS_RemoveElement
      <4> QED BY ONLY <3>2, <4>1, <4>2
    <3>4. b.consecutive + Cardinality(O) = N - m
      BY <1>1, <2>4, <3>3
    <3> QED BY <1>4, <3>4
  <2> QED BY <2>3, <2>4 DEF OneFailed
<1>14. Settled(c, m)
  BY <1>6, <1>9, <1>10, <1>13 DEF Settled
<1> HIDE DEF O
<1> QED BY <1>4, <1>6, <1>12, <1>14 DEF OneFailed, N

-----------------------------------------------------------------------------
(***************************************************************************)
(* Every step of an execution keeps what its memory holds.                 *)
(***************************************************************************)
LEMMA StateFields ==
    ASSUME NEW s \in State
    PROVE  /\ s.book \in Book /\ s.receipts \in Seq(ReceiptRecord) /\ s.current \in Seq(Nat)
           /\ s.run \in Nat \ {0} /\ s.orphan \in Nat /\ s.reason \in Stopped
           /\ s.fault \in Errors /\ s.err \in Errors /\ s.clean \in BOOLEAN
           /\ Len(s.receipts) \in Nat /\ Len(s.current) \in Nat /\ Size(s) \in Nat
           /\ s.pc \in Unspent \cup {"head"} \cup RunOpen \cup Winding
<1>1. /\ s.book \in Book /\ s.receipts \in Seq(ReceiptRecord) /\ s.current \in Seq(Nat)
      /\ s.run \in Nat \ {0} /\ s.orphan \in Nat /\ s.reason \in Stopped
      /\ s.fault \in Errors /\ s.err \in Errors /\ s.clean \in BOOLEAN
      /\ s.pc \in Unspent \cup {"head"} \cup RunOpen \cup Winding
  BY DEF State
<1> QED BY <1>1, BookFields DEF Size

(* No receipts tell of no calls. *)
LEMMA NoClaims == ClaimSequences(<<>>) = <<>>
<1>1. [i \in DOMAIN <<>> |-> <<>>[i].claim_sequence] = <<>>
  OBVIOUS
<1> QED BY <1>1, FlattenEmpty DEF ClaimSequences

(* The runs of the plan. *)
LEMMA RunsFacts ==
    /\ Len(Runs) \in Nat /\ Len(Runs) > 0 /\ DOMAIN Runs = 1 .. Len(Runs)
    /\ \A n \in 1 .. Len(Runs) : Runs[n] \in RunRecord
<1>1. Runs \in Seq(RunRecord) /\ Len(Runs) > 0
  BY RunsAssumption DEF RunRecord
<1> QED BY <1>1

(* The ledger of an execution that has claimed nothing. *)
LEMMA EmptyLedger == LedgerHolds(EmptyBook, 0, 0) /\ Unfailed(EmptyBook)
<1>1. \A k : Among(EmptyBook, {k}, Statuses) = {}
  <2> SUFFICES ASSUME NEW k PROVE Among(EmptyBook, {k}, Statuses) = {}
    OBVIOUS
  <2>1. Among(EmptyBook, {k}, Statuses)
          = {q \in 1 .. Len(EmptyBook.claims) : EmptyBook.claims[q].kind = k}
    BY EmptyBookIs, OfKind
  <2>2. \A q : q \notin 1 .. Len(EmptyBook.claims)
    BY EmptyBookIs
  <2> QED BY <2>1, <2>2
<1>2. Acquisitions(EmptyBook, 0) = {} /\ Left(EmptyBook, 0) = {}
  BY EmptyBookIs DEF Acquisitions, Left
<1>3. \A k \in Kinds : PLAN_LIMITS[k] \in Nat
  BY RunsAssumption DEF PLAN_LIMITS, Kinds
<1>4. Limited(EmptyBook)
  <2>1. Cardinality({}) = 0 /\ \A i \in Nat : 0 <= i
    BY FS_EmptySet
  <2> QED BY <1>1, <1>3, <2>1 DEF Limited
<1>5. Reported(EmptyBook, 0) /\ Unfailed(EmptyBook)
  BY <1>2, EmptyBookIs DEF Reported, Unfailed
<1>6. Cardinality(Acquisitions(EmptyBook, 0)) = 0
  BY <1>2, FS_EmptySet
<1>7. \A q \in 1 .. 0 : EmptyBook.claims[q].status = "completed"
  OBVIOUS
<1> QED BY <1>2, <1>4, <1>5, <1>6, <1>7, EmptyBookIs DEF LedgerHolds

(* An execution that has claimed nothing. *)
LEMMA FreshState ==
    ASSUME NEW t \in State, t.book = EmptyBook, t.receipts = <<>>, t.run = 1, t.orphan = 0,
           t.err = "none",
           \/ t.pc \in Unspent \cup {"head"} /\ t.reason = "none"
           \/ t.pc = "finally" /\ t.reason = "credential_unavailable"
    PROVE  ExecutionHolds(t)
<1>1. Done(t) = 0 /\ Size(t) = 0 /\ Len(t.receipts) = 0 /\ ClaimSequences(t.receipts) = <<>>
  BY NoClaims, EmptyBookIs DEF Done, Size
<1>2. ReceiptsHold(t)
  BY <1>1, RunsFacts DEF ReceiptsHold
<1>3. LedgerHolds(t.book, Done(t), Len(t.receipts)) /\ Unfailed(t.book)
  BY <1>1, EmptyLedger
<1>4. FreshHolds(t) /\ RunHolds(t)
  BY <1>1, <1>3 DEF FreshHolds, RunHolds, Unspent, RunOpen, Asking, Acquiring
<1>5. GoingHolds(t) /\ OrphanHolds(t)
  BY DEF GoingHolds, OrphanHolds, Going, Unspent, Asking, Acquiring
<1>6. WindingHolds(t)
  <2>1. Settled(t.book, Done(t))
    BY <1>1, EmptyBookIs DEF Settled, Left, Lesser, Breaker
  <2> QED BY <2>1 DEF WindingHolds, Winding, Unspent
<1> QED BY <1>2, <1>3, <1>4, <1>5, <1>6 DEF ExecutionHolds

(* The memory of an execution that has not begun or is over. *)
LEMMA BlankState ==
    ASSUME NEW pc \in Unspent
    PROVE  Blank(pc) \in State /\ ExecutionHolds(Blank(pc)) /\ Blank(pc).pc = pc
<1>1. PICK t : t = Blank(pc)
  OBVIOUS
<1>2. /\ t.book = EmptyBook /\ t.receipts = <<>> /\ t.run = 1 /\ t.orphan = 0
      /\ t.err = "none" /\ t.reason = "none" /\ t.pc = pc
  BY <1>1 DEF Blank
<1>3. t \in State
  <2>1. EmptyBook \in Book
    BY EmptyBookIs
  <2> QED BY <1>1, <2>1 DEF Blank, State, Errors, Stopped
<1> QED BY <1>1, <1>2, <1>3, FreshState

(* A step that makes no call and publishes no receipt. *)
LEMMA SameLedger ==
    ASSUME NEW s \in State, ExecutionHolds(s), NEW t \in State, t.book = s.book,
           t.receipts = s.receipts
    PROVE  /\ Done(t) = Done(s) /\ Size(t) = Size(s)
           /\ ReceiptsHold(t) /\ LedgerHolds(t.book, Done(t), Len(t.receipts))
BY DEF ExecutionHolds, ReceiptsHold, Done, Size

(* What a book that nothing failed in, or whose last call just failed, is. *)
LEMMA NoneFailed ==
    ASSUME NEW b, NEW m, NEW n, LedgerHolds(b, m, n), Unfailed(b)
    PROVE  OneFailed(b, m)
<1>1. \A q \in Left(b, m) : b.claims[q].status # "failed"
  BY DEF LedgerHolds, Reported, Unfailed
<1> QED BY <1>1 DEF OneFailed, Unfailed

(* The calls a receipt will tell of are not those that earlier ones do. *)
LEMMA Sizes ==
    ASSUME NEW s \in State, ExecutionHolds(s)
    PROVE  /\ Done(s) \in Nat /\ Size(s) \in Nat /\ Done(s) <= Size(s)
           /\ Len(s.receipts) \in Nat /\ Len(s.receipts) <= Len(Runs)
           /\ \A q : q \in Left(s.book, Done(s)) <=> q \in (Done(s) + 1) .. Size(s)
BY StateFields DEF ExecutionHolds, ReceiptsHold, LedgerHolds, Left, Size

-----------------------------------------------------------------------------
(* One execution moves to a state its steps keep; the others stay.         *)
Kept(e) ==
    /\ x' \in [Execution -> State] /\ ExecutionHolds(x'[e])
    /\ \A f \in Execution : f # e => x'[f] = x[f]

(* A step to a memory that holds. *)
LEMMA SetKeeps ==
    ASSUME CanaryType, NEW e \in Execution, NEW t \in State, ExecutionHolds(t), Set(e, t)
    PROVE  Kept(e)
<1>1. x' \in [Execution -> State] /\ x'[e] = t /\ \A f \in Execution : f # e => x'[f] = x[f]
  BY DEF Set, CanaryType
<1> QED BY <1>1 DEF Kept

(* A step that ends the execution. *)
LEMMA EndKeeps ==
    ASSUME CanaryType, NEW e \in Execution, NEW pc \in Unspent, End(e, pc)
    PROVE  Kept(e)
BY BlankState, SetKeeps DEF End

(* The memory of an execution holds. *)
LEMMA Memory ==
    ASSUME CInv, NEW e \in Execution
    PROVE  CanaryType /\ x[e] \in State /\ ExecutionHolds(x[e])
BY DEF CInv, CanaryType

(* The memory of an execution that has not claimed a call. *)
LEMMA FreshFields ==
    ASSUME NEW s \in State, ExecutionHolds(s), s.pc \in {"idle", "claim", "isolate", "bridge", "abandon"}
    PROVE  /\ s.book = EmptyBook /\ s.receipts = <<>> /\ s.run = 1 /\ s.orphan = 0
           /\ s.reason = "none" /\ s.err = "none"
BY DEF ExecutionHolds, FreshHolds, Unspent

(* It moves on without a call. *)
LEMMA FreshMove ==
    ASSUME NEW s \in State, ExecutionHolds(s), s.pc \in {"idle", "claim", "isolate", "bridge", "abandon"},
           NEW pc \in {"claim", "isolate", "bridge", "abandon"}
    PROVE  Goto(s, pc) \in State /\ ExecutionHolds(Goto(s, pc))
<1>1. PICK t : t = Goto(s, pc)
  OBVIOUS
<1>2. /\ t \in State /\ t.pc = pc /\ t.book = s.book /\ t.receipts = s.receipts
      /\ t.run = s.run /\ t.orphan = s.orphan /\ t.reason = s.reason /\ t.err = s.err
  BY <1>1 DEF Goto, State, Unspent
<1>3. ExecutionHolds(t)
  BY <1>2, FreshFields, FreshState DEF Unspent
<1> QED BY <1>1, <1>2, <1>3

(* The steps before the runs. *)
LEMMA BeforeKept ==
    ASSUME CInv, NEW e \in Execution,
           Validate(e) \/ PersistClaim(e) \/ PrepareIsolation(e) \/ OpenBridge(e)
    PROVE  Kept(e)
<1>1. PICK s \in State : s = x[e] /\ ExecutionHolds(s) /\ CanaryType
  BY Memory
<1> USE DEF Unspent
<1>2. CASE Validate(e)
  <2>1. s.pc = "idle" /\ (Set(e, Goto(s, "claim")) \/ End(e, "refused"))
    BY <1>1, <1>2 DEF Validate, At
  <2> QED BY <1>1, <2>1, FreshMove, SetKeeps, EndKeeps
<1>3. CASE PersistClaim(e)
  <2>1. s.pc = "claim" /\ (Set(e, Goto(s, "isolate")) \/ End(e, "refused"))
    BY <1>1, <1>3 DEF PersistClaim, At
  <2> QED BY <1>1, <2>1, FreshMove, SetKeeps, EndKeeps
<1>4. CASE PrepareIsolation(e)
  <2>1. s.pc = "isolate" /\ (Set(e, Goto(s, "bridge")) \/ End(e, "ended"))
    BY <1>1, <1>4 DEF PrepareIsolation, At
  <2> QED BY <1>1, <2>1, FreshMove, SetKeeps, EndKeeps
<1>5. CASE OpenBridge(e)
  <2>1. /\ s.pc = "bridge"
        /\ \/ Set(e, Goto(s, "head"))
           \/ Set(e, [s EXCEPT !.reason = "credential_unavailable", !.pc = "finally"])
           \/ Set(e, Goto(s, "abandon"))
           \/ End(e, "ended")
    BY <1>1, <1>5 DEF OpenBridge, At
  <2>2. PICK t, u : /\ t = Goto(s, "head")
                    /\ u = [s EXCEPT !.reason = "credential_unavailable", !.pc = "finally"]
    OBVIOUS
  <2>3. /\ t \in State /\ t.pc = "head" /\ t.book = s.book /\ t.receipts = s.receipts
        /\ t.run = s.run /\ t.orphan = s.orphan /\ t.reason = s.reason /\ t.err = s.err
    BY <2>2 DEF State, Goto
  <2>4. /\ u \in State /\ u.pc = "finally" /\ u.book = s.book /\ u.receipts = s.receipts
        /\ u.run = s.run /\ u.orphan = s.orphan /\ u.reason = "credential_unavailable"
        /\ u.err = s.err
    BY <2>2 DEF State, Winding, Stopped, Reasons
  <2>5. ExecutionHolds(t) /\ ExecutionHolds(u)
    BY <1>1, <2>1, <2>3, <2>4, FreshFields, FreshState
  <2> QED BY <1>1, <2>1, <2>2, <2>3, <2>4, <2>5, FreshMove, SetKeeps, EndKeeps
<1> QED BY <1>2, <1>3, <1>4, <1>5

(* The last step, whichever it is, and a crash. *)
LEMMA EndsKept ==
    ASSUME CInv, NEW e \in Execution, PersistSummary(e) \/ Abandon(e) \/ Crash(e)
    PROVE  Kept(e)
BY Memory, EndKeeps DEF PersistSummary, Abandon, Crash, Unspent

(* The batch's deadline passes. *)
LEMMA ElapsesKept ==
    ASSUME CInv, NEW e \in Execution, BatchElapses(e)
    PROVE  Kept(e)
<1>1. PICK s \in State : s = x[e] /\ ExecutionHolds(s) /\ CanaryType
  BY Memory
<1>2. PICK t : t = [s EXCEPT !.late = TRUE]
  OBVIOUS
<1>3. /\ t \in State /\ t.pc = s.pc /\ t.book = s.book /\ t.receipts = s.receipts
      /\ t.run = s.run /\ t.orphan = s.orphan /\ t.reason = s.reason /\ t.err = s.err
      /\ t.fault = s.fault /\ t.current = s.current /\ t.clean = s.clean
  BY <1>2 DEF State
<1>4. Done(t) = Done(s) /\ Size(t) = Size(s)
  BY <1>1, <1>3, SameLedger
<1>5. ReceiptsHold(t) /\ LedgerHolds(t.book, Done(t), Len(t.receipts))
  BY <1>1, <1>3, SameLedger
<1>6. FreshHolds(t) /\ RunHolds(t) /\ OrphanHolds(t) /\ WindingHolds(t)
  BY ONLY <1>1, <1>3, <1>4 DEF ExecutionHolds, FreshHolds, RunHolds, OrphanHolds, WindingHolds
<1>7. GoingHolds(t)
  BY ONLY <1>1, <1>3, <1>4 DEF ExecutionHolds, GoingHolds, Going
<1>8. ExecutionHolds(t)
  BY <1>5, <1>6, <1>7 DEF ExecutionHolds
<1>9. Set(e, t)
  BY <1>1, <1>2 DEF BatchElapses
<1> QED BY <1>1, <1>3, <1>8, <1>9, SetKeeps

(* A run begins, or no run is left to begin. *)
LEMMA HeadKept ==
    ASSUME CInv, NEW e \in Execution, NextRun(e)
    PROVE  Kept(e)
<1>1. PICK s \in State : s = x[e] /\ ExecutionHolds(s) /\ CanaryType
  BY Memory
<1>2. /\ s.pc = "head" /\ Size(s) = Done(s) /\ Unfailed(s.book) /\ s.orphan = 0
      /\ s.err = "none"
      /\ s.run = Len(s.receipts) + 1 /\ s.reason = "none"
      /\ LedgerHolds(s.book, Done(s), Len(s.receipts))
  BY <1>1 DEF NextRun, At, ExecutionHolds, RunHolds
<1>3. /\ Done(s) \in Nat /\ Len(s.receipts) \in Nat /\ Len(s.receipts) <= Len(Runs)
      /\ \A q : q \notin Left(s.book, Done(s))
  <2>1. \A k \in Nat : \A q : q \notin (k + 1) .. k
    OBVIOUS
  <2> QED BY <1>1, <1>2, <2>1, Sizes
<1>4. s.book.circuit = FALSE /\ s.book.consecutive = 0
  BY <1>2, StateFields, BookFields DEF Unfailed
<1>5. PICK t : t = Head_(s)
  OBVIOUS
<1>6. Set(e, t)
  BY <1>1, <1>5 DEF NextRun
<1>7. CASE s.run > Len(Runs) \/ s.late
  <2>1. \/ s.run > Len(Runs) /\ t = Goto(s, "finally")
        \/ t = Stop(s, "batch_timeout")
    <3>1. CASE s.run > Len(Runs)
      BY <1>5, <3>1 DEF Head_
    <3>2. CASE ~(s.run > Len(Runs)) /\ s.late
      BY <1>5, <3>2 DEF Head_
    <3> QED BY <1>7, <3>1, <3>2
  <2>2. /\ t \in State /\ t.pc = "finally" /\ t.book = s.book /\ t.receipts = s.receipts
        /\ t.orphan = s.orphan /\ t.reason \in {"none", "batch_timeout"}
        /\ t.reason = "none" => s.run > Len(Runs)
    <3>1. s \in State /\ s.reason = "none"
      BY <1>2
    <3>2. CASE s.run > Len(Runs) /\ t = [s EXCEPT !.pc = "finally"]
      BY ONLY <3>1, <3>2 DEF State, Winding
    <3>3. CASE t = [s EXCEPT !.reason = "batch_timeout", !.pc = "finally"]
      BY ONLY <3>1, <3>3 DEF State, Winding, Stopped, Reasons
    <3> QED BY <2>1, <3>2, <3>3 DEF Goto, Stop
  <2>3. /\ Done(t) = Done(s) /\ Size(t) = Size(s)
        /\ ReceiptsHold(t) /\ LedgerHolds(t.book, Done(t), Len(t.receipts))
    BY <1>1, <2>2, SameLedger
  <2>4. FreshHolds(t) /\ RunHolds(t)
    BY <2>2 DEF FreshHolds, RunHolds, Unspent, RunOpen, Asking, Acquiring
  <2>5. GoingHolds(t) /\ OrphanHolds(t)
    BY <1>2, <2>2 DEF GoingHolds, OrphanHolds, Going, Asking, Acquiring
  <2>6. WindingHolds(t)
    <3>1. Settled(t.book, Done(t))
      BY <1>2, <1>3, <1>4, <2>2, <2>3 DEF Settled, Lesser, Breaker, Size
    <3>2. t.reason = "none" => Len(t.receipts) = Len(Runs)
      BY <1>2, <1>3, <2>2, RunsFacts
    <3> QED BY <1>2, <2>2, <2>3, <3>1, <3>2 DEF WindingHolds
  <2>7. ExecutionHolds(t)
    BY <2>3, <2>4, <2>5, <2>6 DEF ExecutionHolds
  <2> QED BY <1>1, <1>6, <2>2, <2>7, SetKeeps
<1>8. CASE ~(s.run > Len(Runs)) /\ ~s.late
  <2>1. t = [s EXCEPT !.pc = "agent", !.current = <<>>, !.fault = "none",
                      !.answered = FALSE, !.orphan = 0]
    BY <1>4, <1>5, <1>8 DEF Head_
  <2>2. /\ t \in State /\ t.pc = "agent" /\ t.book = s.book /\ t.receipts = s.receipts
        /\ t.run = s.run /\ t.orphan = 0 /\ t.reason = s.reason /\ t.err = s.err
        /\ t.fault = "none" /\ t.current = <<>>
    <3>1. <<>> \in Seq(Nat) /\ 0 \in Nat
      OBVIOUS
    <3> QED BY <2>1, <3>1 DEF State, RunOpen, Asking, Errors
  <2>3. /\ Done(t) = Done(s) /\ Size(t) = Size(s)
        /\ ReceiptsHold(t) /\ LedgerHolds(t.book, Done(t), Len(t.receipts))
    BY <1>1, <2>2, SameLedger
  <2>4. FreshHolds(t) /\ OrphanHolds(t) /\ WindingHolds(t)
    BY <2>2 DEF FreshHolds, OrphanHolds, WindingHolds, Unspent, Winding
  <2>5. RunHolds(t)
    <3>1. OneFailed(t.book, Done(t))
      BY <1>2, <2>2, <2>3, NoneFailed
    <3>2. t.run <= Len(Runs)
      BY <1>2, <1>3, <1>8, <2>2, RunsFacts
    <3> QED BY <1>2, <1>3, <2>2, <2>3, <3>1, <3>2 DEF RunHolds
  <2>6. GoingHolds(t)
    <3>1. \A q : q \notin (Done(s) + 1) .. Size(s)
      BY <1>3 DEF Left, Size
    <3> QED BY <1>2, <1>3, <2>2, <2>3, <3>1
         DEF GoingHolds, Going, FinishedTo, Asking, Acquiring
  <2>7. ExecutionHolds(t)
    BY <2>3, <2>4, <2>5, <2>6 DEF ExecutionHolds
  <2> QED BY <1>1, <1>6, <2>2, <2>7, SetKeeps
<1> QED BY <1>7, <1>8

(* A step within a run. *)
LEMMA OpenMove ==
    ASSUME NEW s \in State, ExecutionHolds(s), s.pc \in RunOpen, NEW t \in State,
           t.pc \in RunOpen, t.run = s.run, t.receipts = s.receipts, t.reason = s.reason,
           Done(s) + Len(t.current) = Size(t),
           \A i \in 1 .. Len(t.current) : t.current[i] = Done(s) + i,
           LedgerHolds(t.book, Done(s), Len(s.receipts)), OneFailed(t.book, Done(s)),
           GoingHolds(t), OrphanHolds(t)
    PROVE  ExecutionHolds(t)
<1>1. Done(t) = Done(s) /\ ReceiptsHold(t)
  BY DEF Done, ReceiptsHold, ExecutionHolds
<1>2. RunHolds(t)
  BY <1>1 DEF RunHolds, ExecutionHolds, RunOpen, Asking, Acquiring
<1>3. FreshHolds(t) /\ WindingHolds(t)
  BY DEF FreshHolds, WindingHolds, Unspent, Winding, RunOpen, Asking, Acquiring
<1> QED BY <1>1, <1>2, <1>3 DEF ExecutionHolds

(* What holds while a run is open. *)
LEMMA OpenFacts ==
    ASSUME NEW s \in State, ExecutionHolds(s), s.pc \in RunOpen
    PROVE  /\ Done(s) + Len(s.current) = Size(s)
           /\ \A i \in 1 .. Len(s.current) : s.current[i] = Done(s) + i
           /\ LedgerHolds(s.book, Done(s), Len(s.receipts)) /\ OneFailed(s.book, Done(s))
           /\ GoingHolds(s) /\ OrphanHolds(s)
           /\ s.run <= Len(Runs) /\ s.run = Len(s.receipts) + 1 /\ s.reason = "none"
BY DEF ExecutionHolds, RunHolds

(* The last call of a run that has made one. *)
LEMMA LastCall ==
    ASSUME NEW s \in State, ExecutionHolds(s), s.pc \in RunOpen, s.current # <<>>
    PROVE  /\ Last(s.current) = Size(s) /\ Size(s) \in Left(s.book, Done(s))
           /\ Size(s) \in 1 .. Len(s.book.claims) /\ Done(s) < Size(s) /\ Size(s) # 0
<1>1. s.current \in Seq(Nat) /\ Len(s.current) \in Nat /\ Len(s.current) # 0
  BY StateFields
<1>2. Done(s) \in Nat /\ Size(s) \in Nat /\ Done(s) + Len(s.current) = Size(s)
  BY Sizes, OpenFacts
<1>3. Last(s.current) = s.current[Len(s.current)] /\ Len(s.current) \in 1 .. Len(s.current)
  BY <1>1 DEF Last
<1>4. Last(s.current) = Size(s)
  BY <1>2, <1>3, OpenFacts
<1> QED BY <1>1, <1>2, <1>4 DEF Left, Size

(* A run with calls without a receipt has made one. *)
LEMMA HasCalled ==
    ASSUME NEW s \in State, ExecutionHolds(s), s.pc \in RunOpen, Size(s) > Done(s)
    PROVE  s.current # <<>>
<1>1. Done(s) \in Nat /\ Size(s) \in Nat /\ Done(s) + Len(s.current) = Size(s)
  BY Sizes, OpenFacts
<1> QED BY <1>1

(* A call that fails, where none had. *)
LEMMA FailOnce ==
    ASSUME NEW b \in Book, NEW m, NEW n, LedgerHolds(b, m, n), Unfailed(b), NEW p \in Left(b, m),
           NEW err \in FailingErrors, NEW stage \in Stages, err = "schema" => stage \in OutputStages,
           b.claims[p].status \in Open, NEW c, c = OnFail(b, p, err, stage)
    PROVE  /\ c \in Book /\ Len(c.claims) = Len(b.claims) /\ LedgerHolds(c, m, n)
           /\ OneFailed(c, m) /\ c.consecutive = 1
           /\ \A q \in 1 .. Len(b.claims) : c.claims[q].kind = b.claims[q].kind
<1>1. Len(b.claims) \in Nat /\ m \in Nat /\ m <= Len(b.claims)
  BY BookFields DEF LedgerHolds
<1>2. p \in 1 .. Len(b.claims) /\ Left(b, m) \subseteq 1 .. Len(b.claims)
  BY <1>1 DEF Left
<1>3. /\ c \in Book /\ SameKinds(b, c) /\ c.claims[p].status = "failed"
      /\ \A q \in 1 .. Len(b.claims) : q # p => c.claims[q] = b.claims[q]
      /\ c.consecutive = Lesser(2, b.consecutive + 1)
      /\ c.circuit <=> b.circuit \/ c.consecutive = 2
  BY <1>2, OnFailIs
<1>4. LedgerHolds(c, m, n)
  BY LedgerFail
<1>5. c.consecutive = 1 /\ ~c.circuit
  BY <1>3 DEF Lesser, Unfailed
<1>6. \A q \in Left(b, m) : b.claims[q].status # "failed"
  BY DEF LedgerHolds, Reported, Unfailed
<1>7. Left(c, m) = Left(b, m)
  BY <1>3 DEF Left, SameKinds
<1>8. \A q \in Left(c, m) : c.claims[q].status = "failed" <=> q = p
  BY <1>2, <1>3, <1>6, <1>7
<1>9. OneFailed(c, m)
  BY <1>5, <1>7, <1>8 DEF OneFailed
<1> QED BY <1>3, <1>4, <1>5, <1>9 DEF SameKinds

(* The run ends with an error: its stream may stay open. *)
LEMMA ToDispose ==
    ASSUME NEW s \in State, ExecutionHolds(s), s.pc \in Asking \cup {"acquire"}, NEW t \in State,
           t.pc = "dispose", t.err # "none", t.run = s.run, t.receipts = s.receipts,
           t.reason = s.reason, t.current = s.current, Size(t) = Size(s),
           LedgerHolds(t.book, Done(s), Len(s.receipts)), OneFailed(t.book, Done(s)),
           t.orphan = 0 \/ (t.orphan \in Left(s.book, Done(s)) /\ t.book.consecutive = 0)
    PROVE  ExecutionHolds(t)
<1>1. s.pc \in RunOpen
  BY DEF RunOpen, Acquiring
<1>2. Done(t) = Done(s) /\ Left(t.book, Done(t)) = Left(s.book, Done(s))
  BY DEF Done, Left, Size
<1>3. GoingHolds(t)
  BY DEF GoingHolds, Going, Asking, Acquiring
<1>4. OrphanHolds(t)
  BY <1>2 DEF OrphanHolds
<1> QED BY <1>1, <1>3, <1>4, OpenMove, OpenFacts DEF RunOpen, Acquiring

(* The agent's turn ends with a fault. *)
LEMMA ToIdled ==
    ASSUME NEW s \in State, ExecutionHolds(s), s.pc \in {"agent", "call"}, NEW t \in State,
           t.pc = "idled", t.fault # "none", t.run = s.run, t.receipts = s.receipts,
           t.reason = s.reason, t.current = s.current, Size(t) = Size(s), t.err = s.err,
           t.orphan = s.orphan, LedgerHolds(t.book, Done(s), Len(s.receipts)),
           OneFailed(t.book, Done(s)),
           \A q \in 1 .. Size(s) : t.book.claims[q].kind = s.book.claims[q].kind
    PROVE  ExecutionHolds(t)
<1>1. s.pc \in RunOpen
  BY DEF RunOpen, Asking
<1>2. Done(t) = Done(s) /\ Left(t.book, Done(t)) = Left(s.book, Done(s))
      /\ Left(s.book, Done(s)) \subseteq 1 .. Size(s)
  BY Sizes DEF Done, Left, Size
<1>3. /\ s.err = "none" /\ s.orphan = 0
      /\ \A q \in Left(s.book, Done(s)) : s.book.claims[q].kind = "task"
  BY DEF ExecutionHolds, GoingHolds, Asking
<1>4. GoingHolds(t)
  BY <1>2, <1>3 DEF GoingHolds, Going, Asking, Acquiring
<1>5. OrphanHolds(t)
  BY <1>3 DEF OrphanHolds
<1> QED BY <1>1, <1>4, <1>5, OpenMove, OpenFacts DEF RunOpen, Asking

(* A call is claimed and begun. *)
LEMMA ClaimMove ==
    ASSUME NEW s \in State, ExecutionHolds(s), NEW kind, NEW pc, NEW first \in BOOLEAN,
           Claimable(s.book, kind),
           \/ s.pc = "agent" /\ kind = "task" /\ pc = "call"
           \/ s.pc = "idled" /\ s.fault = "none" /\ kind = "acquisition" /\ pc = "acquire",
           NEW t, t = [s EXCEPT !.book = Claim(s.book, kind), !.current = Append(s.current, Number(s)),
                                !.batchFirst = first, !.pc = pc]
    PROVE  t \in State /\ ExecutionHolds(t)
<1>1. s.pc \in RunOpen /\ Going(s) /\ kind \in Kinds /\ pc \in RunOpen
  BY DEF RunOpen, Asking, Acquiring, Going, Kinds
<1>2. PICK c : c = Claim(s.book, kind)
  OBVIOUS
<1>3. /\ Done(s) \in Nat /\ Size(s) \in Nat /\ Done(s) <= Size(s)
      /\ Len(s.current) \in Nat /\ s.current \in Seq(Nat)
  BY Sizes, StateFields
<1>4. /\ Done(s) + Len(s.current) = Size(s)
      /\ \A i \in 1 .. Len(s.current) : s.current[i] = Done(s) + i
      /\ LedgerHolds(s.book, Done(s), Len(s.receipts)) /\ GoingHolds(s) /\ OrphanHolds(s)
  BY <1>1, OpenFacts
<1>5. /\ Unfailed(s.book) /\ s.orphan = 0 /\ s.err = "none" /\ s.fault = "none"
      /\ FinishedTo(s.book, Done(s), Size(s))
      /\ \A q \in Left(s.book, Done(s)) : s.book.claims[q].kind = "task"
  BY <1>1, <1>4 DEF GoingHolds, Asking
<1>6. /\ c \in Book /\ Len(c.claims) = Size(s) + 1
      /\ \A q \in 1 .. Size(s) : c.claims[q] = s.book.claims[q]
      /\ c.claims[Size(s) + 1].kind = kind /\ c.claims[Size(s) + 1].status = "pending"
      /\ c.consecutive = s.book.consecutive /\ c.circuit = s.book.circuit
      /\ c.diagnostics = s.book.diagnostics
  <2>1. s.book \in Book
    BY StateFields
  <2> QED BY ONLY <1>1, <1>2, <2>1, kind \in Kinds, ClaimIs DEF Size
<1>7. LedgerHolds(c, Done(s), Len(s.receipts))
  BY <1>1, <1>2, <1>4, <1>5, StateFields, LedgerClaim
<1>8. Unfailed(c) /\ OneFailed(c, Done(s))
  BY <1>5, <1>6, <1>7, NoneFailed DEF Unfailed
<1>9. PICK u : u = Append(s.current, Number(s))
  OBVIOUS
<1>10. /\ u \in Seq(Nat) /\ Len(u) = Len(s.current) + 1
       /\ \A i \in 1 .. Len(u) : u[i] = Done(s) + i
  <2>1. Number(s) = Size(s) + 1 /\ Number(s) \in Nat
    BY <1>3 DEF Number, Size
  <2> QED BY <1>3, <1>4, <1>9, <2>1
<1>11. t = [s EXCEPT !.book = c, !.current = u, !.batchFirst = first, !.pc = pc]
  BY <1>2, <1>9
<1>12. /\ t \in State /\ t.pc = pc /\ t.book = c /\ t.current = u /\ t.receipts = s.receipts
       /\ t.run = s.run /\ t.orphan = s.orphan /\ t.reason = s.reason /\ t.err = s.err
       /\ t.fault = s.fault
  <2>1. pc \in RunOpen /\ c \in Book /\ u \in Seq(Nat)
    BY <1>1, <1>6, <1>10
  <2>2. t \in State
    BY ONLY s \in State, first \in BOOLEAN, <1>11, <2>1 DEF State
  <2>3. /\ t.pc = pc /\ t.book = c /\ t.current = u /\ t.receipts = s.receipts
        /\ t.run = s.run /\ t.orphan = s.orphan /\ t.reason = s.reason /\ t.err = s.err
        /\ t.fault = s.fault
    BY ONLY s \in State, <1>11 DEF State
  <2> QED BY <2>2, <2>3
<1>13. Done(t) = Done(s) /\ Size(t) = Size(s) + 1
  BY <1>6, <1>12 DEF Done, Size
<1>14. FinishedTo(t.book, Done(t), Size(t) - 1)
  <2>1. \A q \in (Done(s) + 1) .. Size(s) : q \in 1 .. Size(s)
    BY <1>3
  <2>2. Size(t) - 1 = Size(s)
    BY <1>3, <1>13
  <2>3. FinishedTo(c, Done(s), Size(s))
    BY <1>5, <1>6, <2>1 DEF FinishedTo
  <2> QED BY <1>12, <1>13, <2>2, <2>3
<1>15. Size(t) > Done(t) /\ t.book.claims[Size(t)].status = "pending"
       /\ t.book.claims[Size(t)].kind = kind
  BY <1>3, <1>6, <1>12, <1>13
<1>16. pc = "call" => \A q \in Left(t.book, Done(t)) : t.book.claims[q].kind = "task"
  <2>1. Left(t.book, Done(t)) = Left(s.book, Done(s)) \cup {Size(s) + 1}
        /\ Left(s.book, Done(s)) \subseteq 1 .. Size(s)
    <3>1. /\ Left(t.book, Done(t)) = (Done(t) + 1) .. Size(t)
          /\ Left(s.book, Done(s)) = (Done(s) + 1) .. Size(s)
      BY DEF Left, Size
    <3>2. Done(s) \in Nat /\ Size(s) \in Nat /\ Done(s) <= Size(s)
      BY <1>3
    <3> QED BY ONLY <1>13, <3>1, <3>2
  <2>2. pc = "call" => kind = "task"
    OBVIOUS
  <2> QED BY <1>5, <1>6, <1>12, <2>1, <2>2
<1>17. GoingHolds(t)
  BY <1>5, <1>8, <1>12, <1>14, <1>15, <1>16 DEF GoingHolds, Going, Asking, Acquiring
<1>18. OrphanHolds(t)
  BY <1>5, <1>12 DEF OrphanHolds
<1>19. Done(s) + Len(t.current) = Size(t)
       /\ \A i \in 1 .. Len(t.current) : t.current[i] = Done(s) + i
  <2>1. t.current = u
    BY <1>12
  <2>2. Done(s) + Len(s.current) = Size(s)
    BY <1>4
  <2> QED BY ONLY <1>3, <1>10, <1>13, <2>1, <2>2
<1>20. t.pc \in RunOpen /\ LedgerHolds(t.book, Done(s), Len(s.receipts))
       /\ OneFailed(t.book, Done(s))
  BY <1>1, <1>7, <1>8, <1>12
<1> QED BY <1>1, <1>12, <1>17, <1>18, <1>19, <1>20, OpenMove

-----------------------------------------------------------------------------
(* The agent's setup fails, or it calls, or its turn ends before a claim. *)
LEMMA AgentKept ==
    ASSUME CInv, NEW e \in Execution, SetupFails(e) \/ StreamTask(e)
    PROVE  Kept(e)
<1>1. PICK s \in State : s = x[e] /\ ExecutionHolds(s) /\ CanaryType
  BY Memory
<1>2. s.pc = "agent"
  BY <1>1 DEF SetupFails, StreamTask, At
<1>3. /\ LedgerHolds(s.book, Done(s), Len(s.receipts)) /\ OneFailed(s.book, Done(s))
      /\ s.orphan = 0 /\ s.err = "none" /\ s.fault = "none" /\ Unfailed(s.book)
      /\ FinishedTo(s.book, Done(s), Size(s))
      /\ \A q \in Left(s.book, Done(s)) : s.book.claims[q].kind = "task"
  BY <1>1, <1>2, OpenFacts DEF RunOpen, Asking, GoingHolds, Going
<1>4. CASE SetupFails(e)
  <2>1. PICK t : t = Throw(s, "protocol", "dispose")
    OBVIOUS
  <2>2. /\ t \in State /\ t.pc = "dispose" /\ t.err = "protocol" /\ t.book = s.book
        /\ t.run = s.run /\ t.orphan = s.orphan /\ t.reason = s.reason
        /\ t.receipts = s.receipts /\ t.current = s.current
    BY <2>1 DEF Throw, State, RunOpen, Acquiring, Errors
  <2>3. Set(e, t)
    BY <1>1, <1>4, <2>1 DEF SetupFails
  <2>4. ExecutionHolds(t)
    BY <1>1, <1>2, <1>3, <2>2, ToDispose DEF Asking, Size
  <2> QED BY <1>1, <2>2, <2>3, <2>4, SetKeeps
<1>5. CASE StreamTask(e) /\ s.late
  <2>1. PICK t : t = [s EXCEPT !.pc = "idled", !.fault = "batch"]
    OBVIOUS
  <2>2. /\ t \in State /\ t.pc = "idled" /\ t.fault = "batch" /\ t.book = s.book
        /\ t.run = s.run /\ t.orphan = s.orphan /\ t.reason = s.reason /\ t.err = s.err
        /\ t.receipts = s.receipts /\ t.current = s.current
    BY <2>1 DEF State, RunOpen, Asking, Errors
  <2>3. Set(e, t)
    <3>1. Set(e, [s EXCEPT !.pc = "idled", !.fault = IF s.fault = "none" THEN "batch" ELSE s.fault])
      BY <1>1, <1>5 DEF StreamTask
    <3> QED BY <1>3, <2>1, <3>1
  <2>4. ExecutionHolds(t)
    BY <1>1, <1>2, <1>3, <2>2, ToIdled DEF Size
  <2> QED BY <1>1, <2>2, <2>3, <2>4, SetKeeps
<1>6. CASE StreamTask(e) /\ ~s.late /\ (Len(s.current) >= TaskCalls \/ ~Claimable(s.book, "task"))
  <2>1. PICK t : t = Goto(s, "idled")
    OBVIOUS
  <2>2. /\ t \in State /\ t.pc = "idled" /\ t.fault = s.fault /\ t.book = s.book
        /\ t.run = s.run /\ t.orphan = s.orphan /\ t.reason = s.reason /\ t.err = s.err
        /\ t.receipts = s.receipts /\ t.current = s.current
    BY <2>1 DEF Goto, State, RunOpen, Asking
  <2>3. Set(e, t)
    BY <1>1, <1>3, <1>6, <2>1 DEF StreamTask
  <2>4. Done(t) = Done(s) /\ Size(t) = Size(s)
    BY <2>2 DEF Done, Size
  <2>5. GoingHolds(t) /\ OrphanHolds(t)
    BY <1>3, <2>2, <2>4 DEF GoingHolds, OrphanHolds, Going, Asking, Acquiring
  <2>6. s.pc \in RunOpen /\ t.pc \in RunOpen
    BY <1>2, <2>2 DEF RunOpen, Asking
  <2>7. ExecutionHolds(t)
    BY <1>1, <1>3, <2>2, <2>4, <2>5, <2>6, OpenFacts, OpenMove
  <2> QED BY <1>1, <2>2, <2>3, <2>7, SetKeeps
<1>7. CASE StreamTask(e) /\ ~s.late /\ ~(Len(s.current) >= TaskCalls \/ ~Claimable(s.book, "task"))
  <2>1. BeginCall(e, s, "task", "call") /\ Claimable(s.book, "task")
    BY <1>1, <1>3, <1>7 DEF StreamTask
  <2>2. PICK first \in BOOLEAN :
           Set(e, [s EXCEPT !.book = Claim(s.book, "task"), !.current = Append(s.current, Number(s)),
                            !.batchFirst = first, !.pc = "call"])
    BY <2>1 DEF BeginCall
  <2>3. PICK t : t = [s EXCEPT !.book = Claim(s.book, "task"), !.current = Append(s.current, Number(s)),
                               !.batchFirst = first, !.pc = "call"]
    OBVIOUS
  <2>4. t \in State /\ ExecutionHolds(t)
    BY <1>1, <1>2, <2>1, <2>3, ClaimMove
  <2> QED BY <1>1, <2>2, <2>3, <2>4, SetKeeps
<1> QED BY <1>4, <1>5, <1>6, <1>7

(* The call being made by the agent. *)
LEMMA CallFacts ==
    ASSUME NEW s \in State, ExecutionHolds(s), s.pc \in {"call", "acquire"}
    PROVE  /\ LedgerHolds(s.book, Done(s), Len(s.receipts)) /\ Unfailed(s.book)
           /\ OneFailed(s.book, Done(s)) /\ s.current # <<>> /\ Last(s.current) = Size(s)
           /\ Size(s) \in Left(s.book, Done(s)) /\ Size(s) \in 1 .. Len(s.book.claims)
           /\ s.book.claims[Size(s)].status = "pending"
           /\ FinishedTo(s.book, Done(s), Size(s) - 1)
           /\ s.orphan = 0 /\ s.err = "none" /\ s.fault = "none" /\ s.pc \in RunOpen
<1>1. s.pc \in RunOpen /\ Going(s)
  BY DEF RunOpen, Asking, Acquiring, Going
<1>2. /\ LedgerHolds(s.book, Done(s), Len(s.receipts)) /\ OneFailed(s.book, Done(s))
      /\ GoingHolds(s)
  BY <1>1, OpenFacts
<1>3. /\ Unfailed(s.book) /\ s.orphan = 0 /\ s.err = "none" /\ s.fault = "none"
      /\ Size(s) > Done(s) /\ s.book.claims[Size(s)].status = "pending"
      /\ FinishedTo(s.book, Done(s), Size(s) - 1)
  BY <1>1, <1>2 DEF GoingHolds, Asking
<1> QED BY <1>1, <1>2, <1>3, HasCalled, LastCall

(* The call is answered. *)
LEMMA AnsweredFacts ==
    ASSUME NEW s \in State, ExecutionHolds(s), s.pc \in {"call", "acquire"},
           NEW c, c = TransportFinished(s.book, Size(s))
    PROVE  /\ c \in Book /\ Len(c.claims) = Size(s) /\ Unfailed(c)
           /\ LedgerHolds(c, Done(s), Len(s.receipts)) /\ FinishedTo(c, Done(s), Size(s))
           /\ \A q \in 1 .. Size(s) : c.claims[q].kind = s.book.claims[q].kind
<1>1. s.book \in Book /\ Size(s) \in 1 .. Len(s.book.claims) /\ Size(s) \in Left(s.book, Done(s))
      /\ s.book.claims[Size(s)].status = "pending" /\ Unfailed(s.book)
  BY CallFacts, StateFields
<1>2. /\ c \in Book /\ SameKinds(s.book, c) /\ c.claims[Size(s)].status = "transport_finished"
      /\ \A q \in 1 .. Len(s.book.claims) : q # Size(s) => c.claims[q] = s.book.claims[q]
      /\ c.consecutive = s.book.consecutive /\ c.circuit = s.book.circuit
      /\ c.diagnostics = s.book.diagnostics
  BY <1>1, TransportIs
<1>3. Unfailed(c)
  BY <1>1, <1>2 DEF Unfailed
<1>4. LedgerHolds(c, Done(s), Len(s.receipts))
  BY <1>1, CallFacts, LedgerTransport
<1>5. Done(s) \in Nat /\ Size(s) \in Nat
  BY Sizes
<1>6. \A q \in (Done(s) + 1) .. Size(s) :
        q \in 1 .. Len(s.book.claims) /\ (q # Size(s) => q \in (Done(s) + 1) .. (Size(s) - 1))
  BY <1>5 DEF Size
<1>7. FinishedTo(s.book, Done(s), Size(s) - 1)
  BY CallFacts
<1>8. FinishedTo(c, Done(s), Size(s))
  BY <1>2, <1>6, <1>7 DEF FinishedTo
<1>9. Len(c.claims) = Size(s) /\ \A q \in 1 .. Size(s) : c.claims[q].kind = s.book.claims[q].kind
  BY <1>2 DEF SameKinds, Size
<1> QED BY <1>2, <1>3, <1>4, <1>8, <1>9

(* The provider answers. *)
LEMMA AnsweredKept ==
    ASSUME CInv, NEW e \in Execution, TaskAnswered(e)
    PROVE  Kept(e)
<1>1. PICK s \in State : s = x[e] /\ ExecutionHolds(s) /\ CanaryType /\ s.pc = "call"
  BY Memory DEF TaskAnswered, At
<1>2. PICK c : c = TransportFinished(s.book, Size(s))
  OBVIOUS
<1>3. /\ c \in Book /\ Len(c.claims) = Size(s) /\ Unfailed(c)
      /\ LedgerHolds(c, Done(s), Len(s.receipts)) /\ FinishedTo(c, Done(s), Size(s))
      /\ \A q \in 1 .. Size(s) : c.claims[q].kind = s.book.claims[q].kind
  BY <1>1, <1>2, AnsweredFacts
<1>4. /\ s.orphan = 0 /\ s.err = "none" /\ s.fault = "none" /\ s.pc \in RunOpen
      /\ Last(s.current) = Size(s)
  BY <1>1, CallFacts
<1>5. PICK text \in BOOLEAN :
         Set(e, [s EXCEPT !.book = c, !.answered = text, !.pc = IF text THEN "idled" ELSE "agent"])
  BY <1>1, <1>2, <1>4 DEF TaskAnswered
<1>6. PICK pc : pc = IF text THEN "idled" ELSE "agent"
  OBVIOUS
<1>7. PICK t : t = [s EXCEPT !.book = c, !.answered = text, !.pc = pc]
  OBVIOUS
<1>8. pc \in {"idled", "agent"} /\ pc \in RunOpen
  BY <1>6 DEF RunOpen, Asking
<1>9. /\ t \in State /\ t.pc = pc /\ t.fault = s.fault /\ t.book = c
      /\ t.run = s.run /\ t.orphan = s.orphan /\ t.reason = s.reason /\ t.err = s.err
      /\ t.receipts = s.receipts /\ t.current = s.current
  BY <1>3, <1>7, <1>8 DEF State
<1>10. Done(t) = Done(s) /\ Size(t) = Size(s)
  BY <1>3, <1>9 DEF Done, Size
<1>11. OneFailed(c, Done(s))
  BY <1>3, NoneFailed
<1>12. \A q \in Left(t.book, Done(t)) : t.book.claims[q].kind = "task"
  <2>1. \A q \in Left(s.book, Done(s)) : s.book.claims[q].kind = "task"
    BY <1>1, <1>4, OpenFacts DEF GoingHolds, Asking
  <2>2. Left(t.book, Done(t)) = Left(s.book, Done(s)) /\ Left(s.book, Done(s)) \subseteq 1 .. Size(s)
    BY <1>1, <1>3, <1>9, <1>10, Sizes DEF Left, Size
  <2> QED BY <1>3, <1>9, <2>1, <2>2
<1>13. GoingHolds(t) /\ OrphanHolds(t)
  BY <1>3, <1>4, <1>8, <1>9, <1>10, <1>12 DEF GoingHolds, OrphanHolds, Going, Asking, Acquiring
<1>14. ExecutionHolds(t)
  <2>1. t.pc \in RunOpen /\ t.run = s.run /\ t.receipts = s.receipts /\ t.reason = s.reason
    BY <1>8, <1>9
  <2>2. /\ Done(s) + Len(s.current) = Size(s)
        /\ \A i \in 1 .. Len(s.current) : s.current[i] = Done(s) + i
    BY <1>1, <1>4, OpenFacts
  <2>3. /\ Done(s) + Len(t.current) = Size(t)
        /\ \A i \in 1 .. Len(t.current) : t.current[i] = Done(s) + i
    BY ONLY <1>9, <1>10, <2>2
  <2>4. LedgerHolds(t.book, Done(s), Len(s.receipts)) /\ OneFailed(t.book, Done(s))
    BY <1>3, <1>9, <1>11
  <2> QED BY <1>1, <1>4, <1>9, <1>13, <2>1, <2>3, <2>4, OpenMove
<1>15. Set(e, t)
  BY <1>5, <1>6, <1>7
<1> QED BY <1>1, <1>9, <1>14, <1>15, SetKeeps

(* The agent's call fails, or its timer runs out. *)
LEMMA CallFailsKept ==
    ASSUME CInv, NEW e \in Execution, TaskFails(e) \/ TaskTimesOut(e)
    PROVE  Kept(e)
<1>1. PICK s \in State : s = x[e] /\ ExecutionHolds(s) /\ CanaryType /\ s.pc = "call"
  <2>1. CanaryType /\ x[e] \in State /\ ExecutionHolds(x[e])
    BY Memory
  <2>2. x[e].pc = "call"
    BY DEF TaskFails, TaskTimesOut, At
  <2> QED BY ONLY <2>1, <2>2
<1>2. /\ LedgerHolds(s.book, Done(s), Len(s.receipts)) /\ Unfailed(s.book)
      /\ Last(s.current) = Size(s) /\ Size(s) \in Left(s.book, Done(s))
      /\ s.book.claims[Size(s)].status = "pending"
  <2>1. ExecutionHolds(s) /\ s.pc \in {"call", "acquire"}
    BY <1>1, Zenon
  <2> QED BY ONLY s \in State, <2>1, CallFacts, Zenon
<1>3. PICK err \in {"coded", "protocol", "other", "batch", "call"}, late \in BOOLEAN :
         Set(e, [s EXCEPT !.book = OnFail(s.book, Size(s), err, "provider_stream"),
                          !.fault = err, !.late = late, !.pc = "idled"])
  <2>1. CASE TaskFails(e)
    <3>1. PICK err \in Failures :
             Set(e, [s EXCEPT !.book = OnFail(s.book, Size(s), err, "provider_stream"),
                              !.fault = err, !.pc = "idled"])
      BY <1>1, <1>2, <2>1 DEF TaskFails
    <3>2. s.late \in BOOLEAN
      BY DEF State
    <3>3. [s EXCEPT !.book = OnFail(s.book, Size(s), err, "provider_stream"),
                    !.fault = err, !.pc = "idled"]
            = [s EXCEPT !.book = OnFail(s.book, Size(s), err, "provider_stream"),
                        !.fault = err, !.late = s.late, !.pc = "idled"]
      BY DEF State
    <3> QED BY <3>1, <3>2, <3>3 DEF Failures
  <2>2. CASE TaskTimesOut(e)
    <3>1. Set(e, [s EXCEPT !.book = OnFail(s.book, Size(s), TimerError(s), "provider_stream"),
                           !.fault = TimerError(s), !.late = s.late \/ s.batchFirst,
                           !.pc = "idled"])
      BY <1>1, <1>2, <2>2 DEF TaskTimesOut
    <3>2. PICK err, late : err = TimerError(s) /\ late = (s.late \/ s.batchFirst)
      OBVIOUS
    <3>3. err \in {"batch", "call"}
      BY <3>2 DEF TimerError
    <3>4. late \in BOOLEAN
      BY <3>2
    <3>5. Set(e, [s EXCEPT !.book = OnFail(s.book, Size(s), err, "provider_stream"),
                           !.fault = err, !.late = late, !.pc = "idled"])
      BY ONLY <3>1, <3>2
    <3>6. err \in {"coded", "protocol", "other", "batch", "call"}
      BY ONLY <3>3
    <3> QED BY ONLY <3>4, <3>5, <3>6
  <2> QED BY ONLY TaskFails(e) \/ TaskTimesOut(e), <2>1, <2>2, Zenon
<1>4. PICK c : c = OnFail(s.book, Size(s), err, "provider_stream")
  OBVIOUS
<1>5. /\ c \in Book /\ Len(c.claims) = Len(s.book.claims)
      /\ LedgerHolds(c, Done(s), Len(s.receipts)) /\ OneFailed(c, Done(s))
      /\ \A q \in 1 .. Len(s.book.claims) : c.claims[q].kind = s.book.claims[q].kind
  <2>1. s.book \in Book /\ err \in FailingErrors /\ "provider_stream" \in Stages /\ err # "schema"
        /\ s.book.claims[Size(s)].status \in Open
    BY <1>2, StateFields DEF FailingErrors, Stages, Open
  <2> QED BY <1>2, <1>4, <2>1, FailOnce
<1>6. PICK t : t = [s EXCEPT !.book = c, !.fault = err, !.late = late, !.pc = "idled"]
  OBVIOUS
<1>7. /\ t \in State /\ t.pc = "idled" /\ t.fault = err /\ t.book = c
      /\ t.run = s.run /\ t.orphan = s.orphan /\ t.reason = s.reason /\ t.err = s.err
      /\ t.receipts = s.receipts /\ t.current = s.current
  BY <1>5, <1>6 DEF State, RunOpen, Asking, Errors
<1>8. ExecutionHolds(t)
  BY <1>1, <1>5, <1>7, ToIdled DEF Size
<1>9. Set(e, t)
  BY <1>3, <1>4, <1>6
<1> QED BY <1>1, <1>7, <1>8, <1>9, SetKeeps

(* The wait for the agent ends, its stream may stay open. *)
LEMMA IdleKept ==
    ASSUME CInv, NEW e \in Execution, IdleTimesOut(e)
    PROVE  Kept(e)
<1>1. PICK s \in State : s = x[e] /\ ExecutionHolds(s) /\ CanaryType /\ s.pc \in {"agent", "call"}
  BY Memory DEF IdleTimesOut
<1>2. s.pc \in RunOpen /\ Going(s)
  BY <1>1 DEF RunOpen, Asking, Going
<1>3. /\ LedgerHolds(s.book, Done(s), Len(s.receipts)) /\ OneFailed(s.book, Done(s))
      /\ Unfailed(s.book)
  BY <1>1, <1>2, OpenFacts DEF GoingHolds
<1>4. PICK o : o = IF s.pc = "call" THEN Last(s.current) ELSE 0
  OBVIOUS
<1>5. o = 0 \/ o \in Left(s.book, Done(s))
  BY <1>1, <1>4, CallFacts
<1>6. o \in Nat
  <2>1. \A q \in Left(s.book, Done(s)) : q \in Nat
    BY <1>1, Sizes DEF Left
  <2> QED BY <1>5, <2>1
<1>7. PICK t : t = [s EXCEPT !.err = "batch", !.pc = "dispose", !.orphan = o]
  OBVIOUS
<1>8. Set(e, t)
  BY <1>1, <1>4, <1>7 DEF IdleTimesOut, Throw, At, State
<1>9. /\ t \in State /\ t.pc = "dispose" /\ t.err = "batch" /\ t.book = s.book /\ t.orphan = o
      /\ t.run = s.run /\ t.reason = s.reason /\ t.receipts = s.receipts /\ t.current = s.current
  BY <1>6, <1>7 DEF State, RunOpen, Acquiring, Errors
<1>10. ExecutionHolds(t)
  BY <1>1, <1>3, <1>5, <1>9, ToDispose DEF Size, Unfailed, Asking
<1> QED BY <1>1, <1>8, <1>9, <1>10, SetKeeps

(* The acquisition call. *)
LEMMA AcquiredKept ==
    ASSUME CInv, NEW e \in Execution, Acquired(e)
    PROVE  Kept(e)
<1>1. PICK s \in State : s = x[e] /\ ExecutionHolds(s) /\ CanaryType /\ s.pc = "acquire"
  BY Memory DEF Acquired, At
<1>2. PICK c : c = TransportFinished(s.book, Size(s))
  OBVIOUS
<1>3. /\ c \in Book /\ Len(c.claims) = Size(s) /\ Unfailed(c)
      /\ LedgerHolds(c, Done(s), Len(s.receipts)) /\ FinishedTo(c, Done(s), Size(s))
      /\ \A q \in 1 .. Size(s) : c.claims[q].kind = s.book.claims[q].kind
  BY <1>1, <1>2, AnsweredFacts
<1>4. /\ s.orphan = 0 /\ s.err = "none" /\ s.fault = "none" /\ s.pc \in RunOpen
      /\ Last(s.current) = Size(s) /\ Size(s) \in 1 .. Size(s)
  BY <1>1, CallFacts DEF Size
<1>5. AssertionFailure(c) = c
  <2>1. AssertionFailure(c) = [c EXCEPT !.consecutive = 0] /\ c.consecutive = 0
    BY <1>3 DEF AssertionFailure, Unfailed
  <2> QED BY <1>3, <2>1 DEF Book
<1>6. PICK t : t = [s EXCEPT !.book = c, !.pc = "dispose"]
  OBVIOUS
<1>7. Set(e, t)
  BY <1>1, <1>2, <1>4, <1>5, <1>6 DEF Acquired
<1>8. /\ t \in State /\ t.pc = "dispose" /\ t.fault = s.fault /\ t.book = c
      /\ t.run = s.run /\ t.orphan = s.orphan /\ t.reason = s.reason /\ t.err = s.err
      /\ t.receipts = s.receipts /\ t.current = s.current
  BY <1>3, <1>6 DEF State, RunOpen, Acquiring
<1>9. Done(t) = Done(s) /\ Size(t) = Size(s)
  BY <1>3, <1>8 DEF Done, Size
<1>10. Size(s) > Done(s) /\ s.book.claims[Size(s)].kind = "acquisition"
  BY <1>1, <1>4, OpenFacts DEF GoingHolds, Acquiring
<1>11. GoingHolds(t) /\ OrphanHolds(t)
  BY <1>3, <1>4, <1>8, <1>9, <1>10 DEF GoingHolds, OrphanHolds, Going, Asking, Acquiring
<1>12. OneFailed(c, Done(s))
  BY <1>3, NoneFailed
<1>13. t.pc \in RunOpen
  BY <1>8 DEF RunOpen, Acquiring
<1>14. ExecutionHolds(t)
  BY <1>1, <1>3, <1>4, <1>8, <1>9, <1>11, <1>12, <1>13, OpenFacts, OpenMove
<1> QED BY <1>1, <1>7, <1>8, <1>14, SetKeeps

(* The acquisition fails or runs out of time. *)
LEMMA AcquireFailsKept ==
    ASSUME CInv, NEW e \in Execution, AcquireFails(e) \/ AcquireTimesOut(e)
    PROVE  Kept(e)
<1>1. PICK s \in State : s = x[e] /\ ExecutionHolds(s) /\ CanaryType /\ s.pc = "acquire"
  BY Memory DEF AcquireFails, AcquireTimesOut, At
<1>2. /\ LedgerHolds(s.book, Done(s), Len(s.receipts)) /\ Unfailed(s.book)
      /\ Last(s.current) = Size(s) /\ Size(s) \in Left(s.book, Done(s))
      /\ s.book.claims[Size(s)].status = "pending" /\ s.orphan = 0
  BY <1>1, CallFacts
<1>3. PICK err \in FailingErrors : AcquisitionFails(e, err)
  <2>1. CASE AcquireFails(e)
    BY <2>1 DEF AcquireFails, Failures, FailingErrors
  <2>2. CASE AcquireTimesOut(e)
    <3>1. TimerError(x[e]) \in {"batch", "call"} /\ AcquisitionFails(e, TimerError(x[e]))
      BY <2>2 DEF AcquireTimesOut, TimerError
    <3> QED BY <3>1 DEF FailingErrors
  <2> QED BY <1>1, <2>1, <2>2
<1>4. PICK stage : stage = IF err = "schema" THEN "acquisition_output_validation" ELSE "provider_stream"
  OBVIOUS
<1>5. stage \in Stages /\ (err = "schema" => stage \in OutputStages)
  BY <1>4 DEF Stages, OutputStages
<1>6. PICK c : c = OnFail(s.book, Size(s), err, stage)
  OBVIOUS
<1>7. /\ c \in Book /\ Len(c.claims) = Len(s.book.claims)
      /\ LedgerHolds(c, Done(s), Len(s.receipts)) /\ OneFailed(c, Done(s))
  <2>1. s.book \in Book /\ s.book.claims[Size(s)].status \in Open
    BY <1>2, StateFields DEF Open
  <2> QED BY <1>2, <1>5, <1>6, <2>1, FailOnce
<1>8. PICK late : late = (s.late \/ err = "batch")
  OBVIOUS
<1>9. late \in BOOLEAN
  BY <1>8
<1>10. PICK t : t = [s EXCEPT !.err = err, !.pc = "dispose", !.book = c, !.late = late]
  OBVIOUS
<1>11. Set(e, t)
  <2>1. Set(e, [Throw(s, err, "dispose") EXCEPT
                   !.book = OnFail(Throw(s, err, "dispose").book, Last(s.current), err, stage),
                   !.late = Throw(s, err, "dispose").late \/ err = "batch"])
    BY <1>1, <1>3, <1>4 DEF AcquisitionFails
  <2>2. PICK u : u = Throw(s, err, "dispose")
    OBVIOUS
  <2>3. u = [s EXCEPT !.err = err, !.pc = "dispose"] /\ u.book = s.book /\ u.late = s.late
    BY <2>2 DEF Throw, State
  <2>4. t = [u EXCEPT !.book = c, !.late = late]
    BY <1>10, <2>3 DEF State
  <2> QED BY <1>2, <1>6, <1>8, <2>1, <2>2, <2>3, <2>4
<1>12. /\ t \in State /\ t.pc = "dispose" /\ t.err = err /\ t.book = c
       /\ t.run = s.run /\ t.orphan = s.orphan /\ t.reason = s.reason
       /\ t.receipts = s.receipts /\ t.current = s.current
  BY <1>7, <1>9, <1>10 DEF State, RunOpen, Acquiring, Errors, FailingErrors
<1>13. ExecutionHolds(t)
  BY <1>1, <1>2, <1>7, <1>12, ToDispose DEF Size, FailingErrors
<1> QED BY <1>1, <1>11, <1>12, <1>13, SetKeeps

(* The agent's turn is judged, and the acquisition begins. *)
LEMMA JudgeKept ==
    ASSUME CInv, NEW e \in Execution, Judge(e)
    PROVE  Kept(e)
<1>1. PICK s \in State : s = x[e] /\ ExecutionHolds(s) /\ CanaryType /\ s.pc = "idled"
  BY Memory DEF Judge, At
<1>2. s.pc \in RunOpen /\ (s.fault = "none" => Going(s))
  BY <1>1 DEF RunOpen, Asking, Going
<1>3. /\ LedgerHolds(s.book, Done(s), Len(s.receipts)) /\ OneFailed(s.book, Done(s))
      /\ s.err = "none" /\ s.orphan = 0
      /\ s.fault = "none" =>
           Unfailed(s.book) /\ FinishedTo(s.book, Done(s), Size(s))
  BY <1>1, <1>2, OpenFacts DEF GoingHolds, Asking
<1>4. ASSUME NEW err \in Errors \ {"none"}, Set(e, Throw(s, err, "dispose"))
      PROVE  Kept(e)
  <2>1. PICK t : t = Throw(s, err, "dispose")
    OBVIOUS
  <2>2. /\ t \in State /\ t.pc = "dispose" /\ t.err = err /\ t.book = s.book
        /\ t.run = s.run /\ t.orphan = s.orphan /\ t.reason = s.reason
        /\ t.receipts = s.receipts /\ t.current = s.current
    BY <2>1 DEF Throw, State, RunOpen, Acquiring
  <2>3. ExecutionHolds(t)
    BY <1>1, <1>3, <1>4, <2>2, ToDispose DEF Asking, Size
  <2> QED BY <1>1, <1>4, <2>1, <2>2, <2>3, SetKeeps
<1>5. CASE s.fault # "none" /\ Set(e, Throw(s, s.fault, "dispose"))
  <2>1. s.fault \in Errors \ {"none"}
    BY <1>5, StateFields
  <2> QED BY <1>4, <1>5, <2>1
<1>6. CASE \/ Set(e, Throw(s, "protocol", "dispose")) \/ Set(e, Throw(s, "batch", "dispose"))
           \/ Set(e, Throw(s, "budget", "dispose"))
  BY <1>4, <1>6 DEF Errors
<1>7. CASE /\ s.fault = "none" /\ s.current # <<>>
           /\ Set(e, [Throw(s, "schema", "dispose") EXCEPT
                        !.book = OnFail(Throw(s, "schema", "dispose").book, Last(s.current),
                                        "schema", "task_output_validation")])
  <2>1. /\ Last(s.current) = Size(s) /\ Size(s) \in Left(s.book, Done(s))
        /\ s.book.claims[Size(s)].status = "transport_finished"
    BY <1>1, <1>2, <1>3, <1>7, LastCall DEF FinishedTo, Left, Size
  <2>2. PICK c : c = OnFail(s.book, Size(s), "schema", "task_output_validation")
    OBVIOUS
  <2>3. /\ c \in Book /\ Len(c.claims) = Len(s.book.claims)
        /\ LedgerHolds(c, Done(s), Len(s.receipts)) /\ OneFailed(c, Done(s))
    <3>1. /\ s.book \in Book /\ "schema" \in FailingErrors
          /\ "task_output_validation" \in Stages /\ "task_output_validation" \in OutputStages
          /\ s.book.claims[Size(s)].status \in Open
      BY <2>1, StateFields DEF FailingErrors, Stages, OutputStages, Open
    <3> QED BY <1>3, <1>7, <2>1, <2>2, <3>1, FailOnce
  <2>4. PICK t : t = [s EXCEPT !.err = "schema", !.pc = "dispose", !.book = c]
    OBVIOUS
  <2>5. Set(e, t)
    <3>1. PICK u : u = Throw(s, "schema", "dispose")
      OBVIOUS
    <3>2. u = [s EXCEPT !.err = "schema", !.pc = "dispose"] /\ u.book = s.book
      BY <3>1 DEF Throw, State
    <3>3. t = [u EXCEPT !.book = c]
      BY <2>4, <3>2 DEF State
    <3> QED BY <1>7, <2>1, <2>2, <3>1, <3>2, <3>3
  <2>6. /\ t \in State /\ t.pc = "dispose" /\ t.err = "schema" /\ t.book = c
        /\ t.run = s.run /\ t.orphan = s.orphan /\ t.reason = s.reason
        /\ t.receipts = s.receipts /\ t.current = s.current
    BY <2>3, <2>4 DEF State, RunOpen, Acquiring, Errors
  <2>7. ExecutionHolds(t)
    BY <1>1, <1>3, <2>3, <2>6, ToDispose DEF Size, Asking
  <2> QED BY <1>1, <2>5, <2>6, <2>7, SetKeeps
<1>8. CASE /\ s.fault = "none" /\ Claimable(s.book, "acquisition")
           /\ BeginCall(e, s, "acquisition", "acquire")
  <2>1. PICK first \in BOOLEAN :
           Set(e, [s EXCEPT !.book = Claim(s.book, "acquisition"),
                            !.current = Append(s.current, Number(s)),
                            !.batchFirst = first, !.pc = "acquire"])
    BY <1>8 DEF BeginCall
  <2>2. PICK t : t = [s EXCEPT !.book = Claim(s.book, "acquisition"),
                               !.current = Append(s.current, Number(s)),
                               !.batchFirst = first, !.pc = "acquire"]
    OBVIOUS
  <2>3. t \in State /\ ExecutionHolds(t)
    BY <1>1, <1>8, <2>2, ClaimMove
  <2> QED BY <1>1, <2>1, <2>2, <2>3, SetKeeps
<1>9. CASE /\ s.fault = "none" /\ ~s.late /\ ~Claimable(s.book, "acquisition")
           /\ Set(e, Throw(s, IF s.book.circuit THEN "circuit" ELSE "budget", "dispose"))
  BY <1>3, <1>6, <1>9 DEF Unfailed
<1> QED BY <1>1, <1>5, <1>6, <1>7, <1>8, <1>9 DEF Judge

(* A stream that is still open ends after its run. *)
LEMMA OrphanKept ==
    ASSUME CInv, NEW e \in Execution, OrphanEnds(e)
    PROVE  Kept(e)
<1>1. PICK s \in State : s = x[e] /\ ExecutionHolds(s) /\ CanaryType /\ s.orphan # 0
  BY Memory DEF OrphanEnds
<1>2. /\ s.orphan \in Left(s.book, Done(s)) /\ s.pc \in {"dispose", "caught"} \cup Winding
      /\ s.pc \in {"dispose", "caught"} => s.err # "none" /\ s.book.consecutive = 0
      /\ LedgerHolds(s.book, Done(s), Len(s.receipts)) /\ s.book \in Book
  BY <1>1, StateFields DEF ExecutionHolds, OrphanHolds
<1>3. PICK q : q = s.orphan
  BY Zenon
<1>4. PICK finished : finished = IF s.book.claims[q].status = "pending"
                                 THEN TransportFinished(s.book, q) ELSE s.book
  BY Zenon
<1>5. PICK b \in {finished} \cup {OnFail(s.book, q, err, "provider_stream") : err \in Failures} :
         Set(e, [s EXCEPT !.book = b, !.orphan = 0])
  BY <1>1, <1>3, <1>4 DEF OrphanEnds
<1>6. PICK t : t = [s EXCEPT !.book = b, !.orphan = 0]
  OBVIOUS
<1>7. q \in 1 .. Len(s.book.claims) /\ Left(s.book, Done(s)) \subseteq 1 .. Len(s.book.claims)
  BY <1>1, <1>2, <1>3, Sizes DEF Left, Size
<1>8. CASE s.pc \in {"dispose", "caught"}
  <2>1. Unfailed(s.book)
    <3>1. OneFailed(s.book, Done(s))
      BY <1>1, <1>8, OpenFacts DEF RunOpen, Acquiring
    <3>2. ~s.book.circuit /\ \A p \in Left(s.book, Done(s)) : s.book.claims[p].status # "failed"
      BY <1>2, <1>8, <3>1 DEF OneFailed
    <3>3. \A d : d \notin s.book.diagnostics
      BY <1>2, <3>2 DEF LedgerHolds, Reported
    <3> QED BY <1>2, <1>8, <3>2, <3>3 DEF Unfailed
  <2>2. s.book.claims[q].status \in Open
    <3>1. s.book.claims[q].status \in Statuses
      BY <1>2, <1>7, BookFields
    <3>2. s.book.claims[q].status # "completed"
      BY <1>2, <1>3 DEF LedgerHolds
    <3>3. s.book.claims[q].status # "failed"
      BY <1>2, <1>3, <2>1 DEF LedgerHolds, Reported, Unfailed
    <3> QED BY <3>1, <3>2, <3>3 DEF Statuses
  <2>3. /\ b \in Book /\ Len(b.claims) = Len(s.book.claims)
        /\ LedgerHolds(b, Done(s), Len(s.receipts)) /\ OneFailed(b, Done(s))
    <3>1. CASE b = s.book
      BY <1>2, <2>1, <3>1, NoneFailed
    <3>2. CASE b = TransportFinished(s.book, q) /\ s.book.claims[q].status = "pending"
      <4>1. b \in Book /\ SameKinds(s.book, b) /\ b.consecutive = s.book.consecutive
            /\ b.circuit = s.book.circuit /\ b.diagnostics = s.book.diagnostics
        BY <1>2, <1>7, <3>2, TransportIs
      <4>2. LedgerHolds(b, Done(s), Len(s.receipts))
        BY <1>2, <1>3, <3>2, LedgerTransport
      <4>3. Unfailed(b)
        BY <2>1, <4>1 DEF Unfailed
      <4> QED BY <4>1, <4>2, <4>3, NoneFailed DEF SameKinds
    <3>3. CASE \E err \in Failures : b = OnFail(s.book, q, err, "provider_stream")
      <4>1. PICK err \in Failures : b = OnFail(s.book, q, err, "provider_stream")
        BY <3>3
      <4>2. err \in FailingErrors /\ err # "schema" /\ "provider_stream" \in Stages
        BY DEF Failures, FailingErrors, Stages
      <4> QED BY <1>2, <1>3, <2>1, <2>2, <4>1, <4>2, FailOnce
    <3> QED BY <1>4, <1>5, <3>1, <3>2, <3>3
  <2>4. /\ t \in State /\ t.pc = s.pc /\ t.err = s.err /\ t.book = b /\ t.orphan = 0
        /\ t.run = s.run /\ t.reason = s.reason
        /\ t.receipts = s.receipts /\ t.current = s.current
    <3>1. 0 \in Nat
      OBVIOUS
    <3> QED BY <1>6, <2>3, <3>1 DEF State
  <2>5. Size(t) = Size(s)
    BY <2>3, <2>4 DEF Size
  <2>6. GoingHolds(t) /\ OrphanHolds(t)
    BY <1>2, <1>8, <2>4 DEF GoingHolds, OrphanHolds, Going, Asking, Acquiring
  <2>7. s.pc \in RunOpen /\ t.pc \in RunOpen
    BY <1>8, <2>4 DEF RunOpen, Acquiring
  <2>8. ExecutionHolds(t)
    BY <1>1, <2>3, <2>4, <2>5, <2>6, <2>7, OpenFacts, OpenMove
  <2> QED BY <1>1, <1>5, <1>6, <2>4, <2>8, SetKeeps
<1>9. CASE s.pc \in Winding
  <2>1. s.book.claims[q].status = "failed"
    BY <1>1, <1>2, <1>3, <1>9 DEF ExecutionHolds, WindingHolds, Settled
  <2>2. b = s.book
    BY <1>4, <1>5, <2>1, SettledStays DEF Open
  <2>3. /\ t \in State /\ t.pc = s.pc /\ t.err = s.err /\ t.book = s.book /\ t.orphan = 0
        /\ t.run = s.run /\ t.reason = s.reason
        /\ t.receipts = s.receipts /\ t.current = s.current /\ t.clean = s.clean
    <3>1. 0 \in Nat
      OBVIOUS
    <3> QED BY <1>6, <2>2, <3>1, StateFields DEF State
  <2>4. Done(t) = Done(s) /\ Size(t) = Size(s)
        /\ ReceiptsHold(t) /\ LedgerHolds(t.book, Done(t), Len(t.receipts))
    BY <1>1, <2>3, SameLedger
  <2>5. FreshHolds(t) /\ RunHolds(t) /\ GoingHolds(t) /\ OrphanHolds(t)
    BY <1>9, <2>3 DEF FreshHolds, RunHolds, GoingHolds, OrphanHolds, Going, Unspent, Winding,
       RunOpen, Asking, Acquiring
  <2>6. WindingHolds(t)
    BY ONLY <1>1, <2>3, <2>4 DEF ExecutionHolds, WindingHolds
  <2>7. ExecutionHolds(t)
    BY <2>4, <2>5, <2>6 DEF ExecutionHolds
  <2> QED BY <1>1, <1>5, <1>6, <2>3, <2>7, SetKeeps
<1> QED BY <1>2, <1>8, <1>9

(* The run is disposed of. *)
LEMMA DisposeKept ==
    ASSUME CInv, NEW e \in Execution, DisposeRun(e)
    PROVE  Kept(e)
<1>1. PICK s \in State : s = x[e] /\ ExecutionHolds(s) /\ CanaryType /\ s.pc = "dispose"
  BY Memory DEF DisposeRun, At
<1>2. s.pc \in RunOpen
  BY <1>1 DEF RunOpen, Acquiring
<1>3. /\ LedgerHolds(s.book, Done(s), Len(s.receipts)) /\ OneFailed(s.book, Done(s))
      /\ GoingHolds(s) /\ OrphanHolds(s)
  BY <1>1, <1>2, OpenFacts
<1>4. CASE s.err = "none" /\ Set(e, Goto(s, "receipt"))
  <2>1. PICK t : t = Goto(s, "receipt")
    OBVIOUS
  <2>2. /\ t \in State /\ t.pc = "receipt" /\ t.err = s.err /\ t.book = s.book
        /\ t.run = s.run /\ t.orphan = s.orphan /\ t.reason = s.reason
        /\ t.receipts = s.receipts /\ t.current = s.current
    BY <2>1 DEF Goto, State, RunOpen, Acquiring
  <2>3. Done(t) = Done(s) /\ Size(t) = Size(s)
    BY <2>2 DEF Done, Size
  <2>4. Going(s) /\ s.pc \notin {"call", "acquire"} /\ s.pc \in Acquiring
    BY <1>1, <1>4 DEF Going, Acquiring
  <2>5. GoingHolds(t) /\ OrphanHolds(t)
    BY <1>3, <1>4, <2>2, <2>3, <2>4 DEF GoingHolds, OrphanHolds, Going, Asking, Acquiring
  <2>6. t.pc \in RunOpen
    BY <2>2 DEF RunOpen, Acquiring
  <2>7. ExecutionHolds(t)
    BY <1>1, <1>2, <1>3, <2>2, <2>3, <2>5, <2>6, OpenFacts, OpenMove
  <2> QED BY <1>1, <1>4, <2>1, <2>2, <2>7, SetKeeps
<1>5. ASSUME NEW err \in Errors \ {"none"}, Set(e, [s EXCEPT !.err = err, !.pc = "caught"]),
             s.err = "none" \/ err = s.err \/ err = "other"
      PROVE  Kept(e)
  <2>1. PICK t : t = [s EXCEPT !.err = err, !.pc = "caught"]
    OBVIOUS
  <2>2. /\ t \in State /\ t.pc = "caught" /\ t.err = err /\ t.book = s.book
        /\ t.run = s.run /\ t.orphan = s.orphan /\ t.reason = s.reason
        /\ t.receipts = s.receipts /\ t.current = s.current
    BY <2>1 DEF State, RunOpen
  <2>3. Done(t) = Done(s) /\ Size(t) = Size(s)
    BY <2>2 DEF Done, Size
  <2>4. GoingHolds(t)
    BY <2>2 DEF GoingHolds, Going, Asking, Acquiring
  <2>5. OrphanHolds(t)
    BY <1>1, <1>3, <1>5, <2>2, <2>3 DEF OrphanHolds
  <2>6. t.pc \in RunOpen
    BY <2>2 DEF RunOpen
  <2>7. ExecutionHolds(t)
    BY <1>1, <1>2, <1>3, <2>2, <2>3, <2>4, <2>5, <2>6, OpenFacts, OpenMove
  <2> QED BY <1>1, <1>5, <2>1, <2>2, <2>7, SetKeeps
<1>6. CASE Set(e, Throw(s, "other", "caught"))
  BY <1>5, <1>6 DEF Throw, Errors
<1>7. CASE s.err # "none" /\ Set(e, Goto(s, "caught"))
  <2>1. Goto(s, "caught") = [s EXCEPT !.err = s.err, !.pc = "caught"]
    BY DEF Goto, State
  <2>2. s.err \in Errors \ {"none"}
    BY <1>7, StateFields
  <2> QED BY <1>5, <1>7, <2>1, <2>2
<1> QED BY <1>1, <1>4, <1>6, <1>7 DEF DisposeRun

(* Sequences with the same entries. *)
LEMMA SameEntries ==
    ASSUME NEW t, NEW n \in Nat, DOMAIN t = 1 .. n, NEW A,
           \A i \in 1 .. n : t[i].claim_sequence = A[i], A = [i \in 1 .. n |-> A[i]]
    PROVE  [i \in DOMAIN t |-> t[i].claim_sequence] = A
OBVIOUS

(* A receipt appended to those that hold. *)
LEMMA SequencesAppend ==
    ASSUME NEW rs \in Seq(ReceiptRecord), NEW r \in ReceiptRecord
    PROVE  /\ ClaimSequences(Append(rs, r)) = ClaimSequences(rs) \o r.claim_sequence
           /\ ClaimSequences(rs) \in Seq(Nat)
<1> DEFINE cs == [i \in DOMAIN rs |-> rs[i].claim_sequence]
           t  == Append(rs, r)
           ct == [i \in DOMAIN t |-> t[i].claim_sequence]
           q  == r.claim_sequence
<1>1. \A u \in ReceiptRecord : u.claim_sequence \in Seq(Nat)
  BY DEF ReceiptRecord
<1>2. /\ DOMAIN rs = 1 .. Len(rs) /\ Len(rs) \in Nat
      /\ \A i \in 1 .. Len(rs) : rs[i] \in ReceiptRecord
  OBVIOUS
<1>3. cs \in Seq(Seq(Nat)) /\ Len(cs) = Len(rs)
      /\ \A i \in 1 .. Len(rs) : cs[i] = rs[i].claim_sequence
  BY <1>1, <1>2
<1>4. /\ t \in Seq(ReceiptRecord) /\ Len(t) = Len(rs) + 1 /\ t[Len(rs) + 1] = r
      /\ \A i \in 1 .. Len(rs) : t[i] = rs[i]
  OBVIOUS
<1>5. q \in Seq(Nat)
  BY <1>1
<1>6. ct = Append(cs, q)
  <2>1. DOMAIN t = 1 .. Len(rs) + 1
    BY <1>2, <1>4
  <2>2. /\ Append(cs, q) \in Seq(Seq(Nat)) /\ Len(Append(cs, q)) = Len(rs) + 1
        /\ DOMAIN Append(cs, q) = 1 .. Len(rs) + 1
        /\ Append(cs, q)[Len(rs) + 1] = q
        /\ \A i \in 1 .. Len(rs) : Append(cs, q)[i] = cs[i]
    <3> HIDE DEF cs, q
    <3> QED BY <1>2, <1>3, <1>5
  <2>3. \A i \in 1 .. Len(rs) + 1 : t[i].claim_sequence = Append(cs, q)[i]
    <3> TAKE i \in 1 .. Len(rs) + 1
    <3>1. CASE i = Len(rs) + 1
      BY <1>4, <2>2, <3>1
    <3>2. CASE i # Len(rs) + 1
      <4>1. i \in 1 .. Len(rs)
        BY <1>2, <3>2
      <4> QED BY <1>3, <1>4, <2>2, <4>1
    <3> QED BY <3>1, <3>2
  <2> HIDE DEF cs, q, t
  <2>4. Append(cs, q) = [i \in 1 .. Len(rs) + 1 |-> Append(cs, q)[i]]
    <3>1. PICK A : A = Append(cs, q)
      OBVIOUS
    <3>2. A \in Seq(Seq(Nat)) /\ DOMAIN A = 1 .. Len(rs) + 1
      BY <2>2, <3>1
    <3>3. A = [i \in 1 .. Len(rs) + 1 |-> A[i]]
      BY <3>2
    <3> QED BY <3>1, <3>3
  <2> QED BY <1>2, <2>1, <2>3, <2>4, SameEntries
<1>7. ClaimSequences(rs) = FlattenSeq(cs) /\ ClaimSequences(t) = FlattenSeq(ct)
  BY DEF ClaimSequences
<1> HIDE DEF cs, ct, q, t
<1>8. FlattenSeq(cs) \in Seq(Nat) /\ FlattenSeq(Append(cs, q)) = FlattenSeq(cs) \o q
  BY <1>3, <1>5, FlattenType, FlattenAppend
<1> QED BY <1>6, <1>7, <1>8 DEF t, q

(* Numbers counted on where others end. *)
LEMMA CountedTo ==
    ASSUME NEW a \in Seq(Nat), a = [i \in 1 .. Len(a) |-> i], NEW b \in Seq(Nat),
           \A i \in 1 .. Len(b) : b[i] = Len(a) + i
    PROVE  a \o b = [i \in 1 .. Len(a) + Len(b) |-> i] /\ Len(a \o b) = Len(a) + Len(b)
<1> DEFINE c == a \o b
<1>1. /\ c \in Seq(Nat) /\ Len(c) = Len(a) + Len(b) /\ DOMAIN c = 1 .. Len(c)
      /\ \A i \in 1 .. Len(a) : c[i] = a[i]
      /\ \A i \in 1 .. Len(b) : c[Len(a) + i] = b[i]
  OBVIOUS
<1>2. \A i \in 1 .. Len(a) : a[i] = i
  OBVIOUS
<1> HIDE DEF c
<1>3. \A i \in 1 .. Len(c) : c[i] = i
  <2> TAKE i \in 1 .. Len(c)
  <2>1. CASE i <= Len(a)
    BY <1>1, <1>2, <2>1
  <2>2. CASE ~(i <= Len(a))
    <3>1. i - Len(a) \in 1 .. Len(b) /\ Len(a) + (i - Len(a)) = i
      BY <1>1, <2>2
    <3> QED BY <1>1, <3>1
  <2> QED BY <2>1, <2>2
<1>4. c = [i \in 1 .. Len(c) |-> c[i]]
  BY <1>1
<1>5. c = [i \in 1 .. Len(c) |-> i]
  BY <1>3, <1>4
<1> QED BY <1>1, <1>5 DEF c

(* A step of a run to its catch. *)
LEMMA ToCaught ==
    ASSUME CanaryType, NEW e \in Execution, NEW s \in State, ExecutionHolds(s), s.pc \in RunOpen,
           s.orphan = 0, NEW err \in Errors \ {"none"}, Set(e, Throw(s, err, "caught"))
    PROVE  Kept(e)
<1>1. PICK t : t = Throw(s, err, "caught")
  OBVIOUS
<1>2. /\ t \in State /\ t.pc = "caught" /\ t.err = err /\ t.book = s.book
      /\ t.run = s.run /\ t.orphan = s.orphan /\ t.reason = s.reason
      /\ t.receipts = s.receipts /\ t.current = s.current
  BY <1>1 DEF Throw, State, RunOpen
<1>3. Done(t) = Done(s) /\ Size(t) = Size(s)
  BY <1>2 DEF Done, Size
<1>4. GoingHolds(t) /\ OrphanHolds(t)
  BY <1>2 DEF GoingHolds, OrphanHolds, Going, Asking, Acquiring
<1>5. t.pc \in RunOpen
  BY <1>2 DEF RunOpen
<1>6. ExecutionHolds(t)
  BY <1>2, <1>3, <1>4, <1>5, OpenFacts, OpenMove
<1> QED BY <1>1, <1>2, <1>6, SetKeeps

(* The receipt is published, or it is not known to be. *)
LEMMA ReceiptKept ==
    ASSUME CInv, NEW e \in Execution, PersistReceipt(e)
    PROVE  Kept(e)
<1>1. PICK s \in State : s = x[e] /\ ExecutionHolds(s) /\ CanaryType /\ s.pc = "receipt"
  BY Memory DEF PersistReceipt, At
<1>2. s.pc \in RunOpen /\ s.pc \in Acquiring /\ Going(s)
  BY <1>1 DEF RunOpen, Acquiring, Going
<1>3. /\ LedgerHolds(s.book, Done(s), Len(s.receipts)) /\ Unfailed(s.book)
      /\ s.err = "none" /\ s.orphan = 0 /\ FinishedTo(s.book, Done(s), Size(s))
      /\ Size(s) > Done(s) /\ s.book.claims[Size(s)].kind = "acquisition"
  BY <1>1, <1>2, OpenFacts DEF GoingHolds
<1>4. /\ Done(s) + Len(s.current) = Size(s) /\ s.run = Len(s.receipts) + 1
      /\ \A i \in 1 .. Len(s.current) : s.current[i] = Done(s) + i
      /\ s.run <= Len(Runs) /\ s.reason = "none"
  BY <1>1, <1>2, OpenFacts
<1>5. /\ Done(s) \in Nat /\ Size(s) \in Nat /\ Len(s.receipts) \in Nat
      /\ s.current \in Seq(Nat) /\ Len(s.current) \in Nat /\ s.receipts \in Seq(ReceiptRecord)
      /\ s.book \in Book
  BY <1>1, Sizes, StateFields
<1>6. CASE Set(e, Throw(s, "protocol", "caught"))
  BY <1>1, <1>2, <1>3, <1>6, ToCaught DEF Errors
<1>7. {s.current[i] : i \in DOMAIN s.current} = Left(s.book, Done(s))
  <2>1. DOMAIN s.current = 1 .. Len(s.current)
    BY <1>5
  <2>2. ASSUME NEW q PROVE q \in Left(s.book, Done(s)) <=> \E i \in 1 .. Len(s.current) : s.current[i] = q
    <3>1. q \in Left(s.book, Done(s)) <=> q \in (Done(s) + 1) .. Size(s)
      BY DEF Left, Size
    <3>2. ASSUME q \in (Done(s) + 1) .. Size(s)
          PROVE  \E i \in 1 .. Len(s.current) : s.current[i] = q
      <4>1. q - Done(s) \in 1 .. Len(s.current) /\ Done(s) + (q - Done(s)) = q
        BY <1>4, <1>5, <3>2
      <4> QED BY <1>4, <4>1
    <3>3. ASSUME NEW i \in 1 .. Len(s.current) PROVE s.current[i] \in (Done(s) + 1) .. Size(s)
      <4>1. s.current[i] = Done(s) + i /\ Done(s) + Len(s.current) = Size(s)
        BY <1>4
      <4>2. i \in Nat /\ 1 <= i /\ i <= Len(s.current)
        BY <1>5
      <4> QED BY ONLY <1>5, <4>1, <4>2
    <3> QED BY <3>1, <3>2, <3>3
  <2> QED BY <2>1, <2>2
<1>8. PICK Q : Q = Left(s.book, Done(s))
  OBVIOUS
<1>9. PICK c : c = CompleteCalls(s.book, Q)
  OBVIOUS
<1>10. /\ Completable(s.book, Q) = Q
       /\ c \in Book /\ Len(c.claims) = Size(s) /\ Unfailed(c)
       /\ LedgerHolds(c, Size(s), Len(s.receipts) + 1)
  BY <1>3, <1>5, <1>8, <1>9, LedgerReceipt DEF Size
<1>11. ASSUME NEW ev \in Evidence, ValidReceipt(Receipt(s.run, s.current, ev)),
              Set(e, [[s EXCEPT !.receipts = Append(s.receipts, Receipt(s.run, s.current, ev)),
                                !.book = c] EXCEPT !.run = s.run + 1, !.pc = "head"])
       PROVE  Kept(e)
  <2>1. PICK r : r = Receipt(s.run, s.current, ev)
    OBVIOUS
  <2>2. r.run = Runs[s.run] /\ r.claim_sequence = s.current /\ r \in ReceiptRecord
    <3>1. s.run \in 1 .. Len(Runs)
      BY <1>4, <1>5
    <3>2. Runs[s.run] \in RunRecord
      BY <3>1, RunsFacts
    <3>3. r = [run |-> Runs[s.run], claim_sequence |-> s.current, evidence |-> ev]
      BY <2>1 DEF Receipt
    <3> QED BY <1>5, <3>2, <3>3 DEF ReceiptRecord
  <2>3. PICK rs : rs = Append(s.receipts, r)
    OBVIOUS
  <2>4. /\ rs \in Seq(ReceiptRecord) /\ Len(rs) = Len(s.receipts) + 1 /\ rs[Len(rs)] = r
        /\ \A i \in 1 .. Len(s.receipts) : rs[i] = s.receipts[i]
    BY <1>5, <2>2, <2>3
  <2>5. PICK t : t = [s EXCEPT !.receipts = rs, !.book = c, !.run = s.run + 1, !.pc = "head"]
    OBVIOUS
  <2>6. Set(e, t)
    <3>1. [[s EXCEPT !.receipts = rs, !.book = c] EXCEPT !.run = s.run + 1, !.pc = "head"] = t
      BY <2>5 DEF State
    <3> QED BY <1>11, <2>1, <2>3, <3>1
  <2>7. /\ t \in State /\ t.pc = "head" /\ t.err = "none" /\ t.book = c
        /\ t.run = s.run + 1 /\ t.orphan = 0 /\ t.reason = "none" /\ t.receipts = rs
    <3>1. s.run + 1 \in Nat \ {0}
      BY <1>4, <1>5
    <3> QED BY <1>3, <1>4, <1>10, <2>4, <2>5, <3>1 DEF State
  <2>8. /\ ClaimSequences(rs) = [i \in 1 .. Size(s) |-> i] /\ Len(ClaimSequences(rs)) = Size(s)
    <3>1. PICK a : a = ClaimSequences(s.receipts)
      OBVIOUS
    <3>2. ClaimSequences(rs) = a \o s.current /\ a \in Seq(Nat)
      BY <1>5, <2>2, <2>3, <3>1, SequencesAppend
    <3>3. Len(a) = Done(s) /\ a = [i \in 1 .. Len(a) |-> i]
      BY <1>1, <3>1 DEF Done, ExecutionHolds, ReceiptsHold
    <3>4. \A i \in 1 .. Len(s.current) : s.current[i] = Len(a) + i
      BY <1>4, <3>3
    <3>5. /\ a \o s.current = [i \in 1 .. Len(a) + Len(s.current) |-> i]
          /\ Len(a \o s.current) = Len(a) + Len(s.current)
      BY <1>5, <3>2, <3>3, <3>4, CountedTo
    <3>6. Len(a) + Len(s.current) = Size(s)
      BY <1>4, <3>3
    <3> QED BY <3>2, <3>5, <3>6
  <2>9. Done(t) = Size(s) /\ Size(t) = Size(s) /\ Len(t.receipts) = Len(s.receipts) + 1
    BY <1>10, <2>4, <2>7, <2>8 DEF Done, Size
  <2>10. ReceiptsHold(t)
    <3>1. \A i \in 1 .. Len(s.receipts) : ValidReceipt(s.receipts[i]) /\ s.receipts[i].run = Runs[i]
      BY <1>1 DEF ExecutionHolds, ReceiptsHold
    <3>2. ASSUME NEW i \in 1 .. Len(rs) PROVE ValidReceipt(rs[i]) /\ rs[i].run = Runs[i]
      <4>1. CASE i = Len(rs)
        BY <1>4, <1>11, <2>1, <2>2, <2>4, <4>1
      <4>2. CASE i # Len(rs)
        <5>1. i \in 1 .. Len(s.receipts)
          BY <1>5, <2>4, <4>2
        <5> QED BY <2>4, <3>1, <5>1
      <4> QED BY <4>1, <4>2
    <3> QED BY <1>4, <2>4, <2>7, <2>8, <2>9, <3>2 DEF ReceiptsHold
  <2>11. LedgerHolds(t.book, Done(t), Len(t.receipts))
    BY <1>10, <2>7, <2>9
  <2>12. RunHolds(t)
    BY <1>4, <1>10, <2>7, <2>9 DEF RunHolds, RunOpen, Asking, Acquiring
  <2>13. FreshHolds(t) /\ GoingHolds(t) /\ OrphanHolds(t) /\ WindingHolds(t)
    BY <2>7 DEF FreshHolds, GoingHolds, OrphanHolds, WindingHolds, Going, Unspent, Asking,
                Acquiring, Winding
  <2>14. ExecutionHolds(t)
    BY <2>10, <2>11, <2>12, <2>13 DEF ExecutionHolds
  <2> QED BY <1>1, <2>6, <2>7, <2>14, SetKeeps
<1>12. PICK ev \in Evidence, o \in Outcomes(receiptFile[s.run] # None) :
          \/ Set(e, Throw(s, "protocol", "caught"))
          \/ /\ ValidReceipt(Receipt(s.run, s.current, ev))
             /\ Set(e, [[s EXCEPT !.receipts = Append(s.receipts, Receipt(s.run, s.current, ev)),
                                  !.book = c] EXCEPT !.run = s.run + 1, !.pc = "head"])
  <2> DEFINE made == {s.current[i] : i \in DOMAIN s.current}
             t(ev) == [s EXCEPT !.receipts = Append(s.receipts, Receipt(s.run, s.current, ev)),
                                !.book = CompleteCalls(s.book, made)]
  <2>1. PICK ev \in Evidence, o \in Outcomes(receiptFile[s.run] # None) :
          \/ Set(e, Throw(s, "protocol", "caught"))
          \/ /\ ValidReceipt(Receipt(s.run, s.current, ev))
             /\ Set(e, IF Completable(s.book, made) = made
                       THEN [t(ev) EXCEPT !.run = t(ev).run + 1, !.pc = "head"]
                       ELSE Throw(t(ev), "protocol", "caught"))
    <3> DEFINE Q0 == {x[e].current[i] : i \in DOMAIN x[e].current}
               t0(ev) == [x[e] EXCEPT !.receipts = Append(x[e].receipts, Receipt(x[e].run, x[e].current, ev)),
                                      !.book = CompleteCalls(x[e].book, Q0)]
    <3>1. PICK ev \in Evidence, o \in Outcomes(receiptFile[x[e].run] # None) :
            IF ~ValidReceipt(Receipt(x[e].run, x[e].current, ev)) \/ o = "failed"
            THEN Set(e, Throw(x[e], "protocol", "caught")) /\ UNCHANGED receiptFile
            ELSE /\ receiptFile' = [receiptFile EXCEPT ![x[e].run] = e]
                 /\ IF o = "unsynced" THEN Set(e, Throw(x[e], "protocol", "caught"))
                    ELSE Set(e, IF Completable(x[e].book, Q0) = Q0
                                THEN [t0(ev) EXCEPT !.run = t0(ev).run + 1, !.pc = "head"]
                                ELSE Throw(t0(ev), "protocol", "caught"))
      BY Zenon DEF PersistReceipt
    <3>2. made = Q0 /\ t(ev) = t0(ev)
      BY <1>1
    <3> HIDE DEF t, t0, made, Q0
    <3>3. \/ Set(e, Throw(x[e], "protocol", "caught"))
          \/ /\ ValidReceipt(Receipt(x[e].run, x[e].current, ev))
             /\ Set(e, IF Completable(x[e].book, Q0) = Q0
                       THEN [t0(ev) EXCEPT !.run = t0(ev).run + 1, !.pc = "head"]
                       ELSE Throw(t0(ev), "protocol", "caught"))
      BY <3>1, Zenon
    <3> QED BY <1>1, <3>2, <3>3, Zenon
  <2>2. t(ev).run = s.run
    BY DEF State
  <2>3. made = Q
    BY <1>7, <1>8
  <2> HIDE DEF made
  <2> QED BY <1>9, <1>10, <2>1, <2>2, <2>3
<1> QED BY <1>6, <1>11, <1>12

(* The calls that receipts of the first m calls tell of. *)
LEMMA ReceiptedIs ==
    ASSUME NEW rs, NEW m \in Nat, ClaimSequences(rs) = [i \in 1 .. m |-> i]
    PROVE  Receipted(rs) = 1 .. m
BY DEF Receipted

(* The catch settles what is left. *)
LEMMA CatchKept ==
    ASSUME CInv, NEW e \in Execution, Catch(e)
    PROVE  Kept(e)
<1>1. PICK s \in State : s = x[e] /\ ExecutionHolds(s) /\ CanaryType /\ s.pc = "caught"
  BY Memory DEF Catch, At
<1>2. /\ LedgerHolds(s.book, Done(s), Len(s.receipts)) /\ OneFailed(s.book, Done(s))
      /\ OrphanHolds(s) /\ s.book \in Book /\ Done(s) \in Nat
  BY <1>1, OpenFacts, Sizes, StateFields DEF RunOpen
<1>3. Receipted(s.receipts) = 1 .. Done(s)
  BY <1>1, <1>2, ReceiptedIs DEF ExecutionHolds, ReceiptsHold
<1>4. PICK c : c = Settle(s.book, 1 .. Done(s))
  OBVIOUS
<1>5. /\ c \in Book /\ Len(c.claims) = Len(s.book.claims)
      /\ LedgerHolds(c, Done(s), Len(s.receipts)) /\ Settled(c, Done(s))
      /\ c.circuit => c.consecutive = Breaker
  BY <1>2, <1>4, LedgerSettle
<1>6. PICK u : u = [s EXCEPT !.book = c]
  OBVIOUS
<1>7. Set(e, Stop(u, ReasonOf(u)))
  BY <1>1, <1>3, <1>4, <1>6 DEF Catch
<1>8. /\ u.book = c /\ u.err = s.err /\ u.receipts = s.receipts /\ u.orphan = s.orphan
      /\ u.run = s.run /\ u.pc = "caught" /\ u \in State
  BY <1>1, <1>5, <1>6 DEF State
<1>9. PICK why : why = ReasonOf(u)
  OBVIOUS
<1>10. /\ why \in {"circuit_open", "budget_exhausted", "batch_timeout", "call_timeout",
                   "protocol_error"}
       /\ why = "circuit_open" => c.consecutive = Breaker
  <2>1. u.err \in Errors
    BY <1>8, StateFields
  <2>2. CASE u.err \in {"budget", "batch", "call"}
    BY <1>9, <2>2 DEF ReasonOf
  <2>3. CASE u.err \notin {"budget", "batch", "call"}
    <3>1. why = IF u.book.circuit THEN "circuit_open" ELSE "protocol_error"
      BY <1>9, <2>1, <2>3 DEF ReasonOf, Errors
    <3> QED BY <1>5, <1>8, <3>1
  <2> QED BY <2>2, <2>3
<1>11. PICK t : t = Stop(u, why)
  OBVIOUS
<1>12. /\ t \in State /\ t.pc = "finally" /\ t.book = c /\ t.receipts = s.receipts
       /\ t.orphan = s.orphan /\ t.reason = why
  <2>1. why \in Stopped
    BY <1>10 DEF Stopped, Reasons
  <2> QED BY <1>8, <1>11, <2>1 DEF Stop, State, Winding
<1>13. Done(t) = Done(s) /\ Left(t.book, Done(t)) = Left(s.book, Done(s))
  BY <1>5, <1>12 DEF Done, Left
<1>14. ReceiptsHold(t) /\ LedgerHolds(t.book, Done(t), Len(t.receipts))
  BY <1>1, <1>5, <1>12, <1>13 DEF ExecutionHolds, ReceiptsHold
<1>15. FreshHolds(t) /\ RunHolds(t) /\ GoingHolds(t)
  BY <1>12 DEF FreshHolds, RunHolds, GoingHolds, Going, Unspent, RunOpen, Asking, Acquiring
<1>16. OrphanHolds(t)
  BY <1>2, <1>12, <1>13 DEF OrphanHolds, Winding
<1>17. WindingHolds(t)
  BY <1>5, <1>10, <1>12, <1>13 DEF WindingHolds
<1>18. ExecutionHolds(t)
  BY <1>14, <1>15, <1>16, <1>17 DEF ExecutionHolds
<1> QED BY <1>1, <1>7, <1>9, <1>11, <1>12, <1>18, SetKeeps

(* The provider and the temporary root go. *)
LEMMA CleanUpKept ==
    ASSUME CInv, NEW e \in Execution, CleanUp(e)
    PROVE  Kept(e)
<1>1. PICK s \in State : s = x[e] /\ ExecutionHolds(s) /\ CanaryType /\ s.pc = "finally"
  BY Memory DEF CleanUp, At
<1>2. PICK disposed \in BOOLEAN, removed \in BOOLEAN :
        Set(e, [s EXCEPT
                 !.reason = IF s.reason = "none" /\ ~(disposed /\ removed) THEN "cleanup_failed"
                            ELSE s.reason,
                 !.clean = disposed /\ removed, !.pc = "summary"])
  BY <1>1 DEF CleanUp
<1>3. PICK why : why = IF s.reason = "none" /\ ~(disposed /\ removed) THEN "cleanup_failed"
                       ELSE s.reason
  OBVIOUS
<1>4. PICK clean \in BOOLEAN : clean = (disposed /\ removed)
  OBVIOUS
<1>5. PICK t : t = [s EXCEPT !.reason = why, !.clean = clean, !.pc = "summary"]
  OBVIOUS
<1>6. Set(e, t)
  BY <1>2, <1>3, <1>4, <1>5
<1>7. why \in Stopped /\ (why = "none" => s.reason = "none" /\ clean)
      /\ (why = "circuit_open" => s.reason = "circuit_open")
  BY <1>3, <1>4, StateFields DEF Stopped
<1>8. /\ t \in State /\ t.pc = "summary" /\ t.book = s.book /\ t.receipts = s.receipts
      /\ t.orphan = s.orphan /\ t.reason = why /\ t.clean = clean
  BY <1>5, <1>7 DEF State, Winding
<1>9. /\ Done(t) = Done(s) /\ Size(t) = Size(s)
      /\ ReceiptsHold(t) /\ LedgerHolds(t.book, Done(t), Len(t.receipts))
  BY <1>1, <1>8, SameLedger
<1>10. FreshHolds(t) /\ RunHolds(t) /\ GoingHolds(t)
  BY <1>8 DEF FreshHolds, RunHolds, GoingHolds, Going, Unspent, RunOpen, Asking, Acquiring
<1>11. OrphanHolds(t)
  BY <1>1, <1>8, <1>9 DEF ExecutionHolds, OrphanHolds, Winding
<1>12. WindingHolds(t)
  BY <1>1, <1>7, <1>8, <1>9 DEF ExecutionHolds, WindingHolds, Winding
<1>13. ExecutionHolds(t)
  BY <1>9, <1>10, <1>11, <1>12 DEF ExecutionHolds
<1> QED BY <1>1, <1>6, <1>8, <1>13, SetKeeps

(* Every step of an execution keeps what its memory holds, and those of    *)
(* the others as they are.                                                 *)
Step(e) == Own(e) \/ Agent(e) \/ Timers(e) \/ BatchElapses(e) \/ Crash(e)

(* Every step keeps the memory of its execution, and leaves the others     *)
(* alone.                                                                  *)
LEMMA ExecutionStep ==
    ASSUME CInv, NEW e \in Execution, Step(e)
    PROVE  Kept(e)
<1>1. CASE Own(e)
  BY <1>1, BeforeKept, HeadKept, JudgeKept, DisposeKept, ReceiptKept, CatchKept, CleanUpKept,
     EndsKept DEF Own
<1>2. CASE Agent(e)
  BY <1>2, AgentKept, AnsweredKept, CallFailsKept, AcquiredKept, AcquireFailsKept, OrphanKept
     DEF Agent
<1>3. CASE Timers(e)
  BY <1>3, CallFailsKept, IdleKept, AcquireFailsKept DEF Timers
<1> QED BY <1>1, <1>2, <1>3, ElapsesKept, EndsKept DEF Step

-----------------------------------------------------------------------------
(* What a step of an execution can do to the disk.                         *)
Apart(e) ==
    /\ input' = input /\ x[e].pc # "ended"
    /\ claimed' \in {claimed, claimed \cup {e}} /\ callers' \in {callers, callers \cup {e}}
    /\ \/ receiptFile' = receiptFile
       \/ \E n \in DOMAIN Runs :
            receiptFile[n] = None /\ receiptFile' = [receiptFile EXCEPT ![n] = e]
    /\ \/ isolation' = isolation
       \/ \E v \in {"absent", "present"} : isolation' = [isolation EXCEPT ![e] = v]

Untouched == input' = input /\ claimed' = claimed /\ receiptFile' = receiptFile
             /\ isolation' = isolation /\ summaryFile' = summaryFile

Early == {"idle", "claim", "isolate", "bridge", "abandon"}
Tries == {"head"} \cup Asking \cup Acquiring
After == {"caught", "finally"}

(* A step within the runs. *)
Quiet(e) ==
    /\ Untouched
    /\ x'[e].receipts = x[e].receipts
    /\ \/ /\ x[e].pc \in Tries /\ x'[e].pc \in Tries \cup After
          /\ callers' \in {callers, callers \cup {e}}
       \/ x[e].pc \in After /\ x'[e].pc \in After /\ callers' = callers
       \/ x'[e].pc = x[e].pc /\ x'[e].clean = x[e].clean /\ callers' = callers /\ Live(e)

RunStep(e) ==
    \/ NextRun(e) \/ Judge(e) \/ DisposeRun(e) \/ Catch(e) \/ Agent(e) \/ Timers(e)
    \/ BatchElapses(e)

(* The steps of a run and of its catch leave the disk alone. *)
LEMMA QuietStep ==
    ASSUME CInv, NEW e \in Execution, RunStep(e)
    PROVE  Quiet(e)
<1>1. PICK s \in State : s = x[e] /\ ExecutionHolds(s) /\ CanaryType
  BY Memory
<1>2. ASSUME NEW t, Set(e, t) PROVE x'[e] = t
  BY <1>1, <1>2 DEF Set, CanaryType
<1> USE DEF Tries, After, Asking, Acquiring
<1>3. ASSUME NextRun(e) \/ DisposeRun(e) \/ Catch(e) PROVE Quiet(e)
  <2>1. Untouched /\ callers' = callers
    BY <1>3 DEF NextRun, DisposeRun, Catch, Untouched, disk
  <2>2. CASE NextRun(e)
    <3>1. s.pc = "head" /\ x'[e] = Head_(s)
      BY <1>1, <1>2, <2>2 DEF NextRun, At
    <3>2. Head_(s).receipts = s.receipts /\ Head_(s).pc \in {"finally", "agent"}
      BY DEF Head_, Goto, Stop, State
    <3> QED BY <1>1, <2>1, <3>1, <3>2 DEF Quiet
  <2>3. CASE DisposeRun(e)
    <3>1. s.pc = "dispose" /\ (\/ x'[e] = Goto(s, "receipt") \/ x'[e] = Goto(s, "caught")
                               \/ x'[e] = Throw(s, "other", "caught"))
      BY <1>1, <1>2, <2>3 DEF DisposeRun, At
    <3>2. x'[e].receipts = s.receipts /\ x'[e].pc \in {"receipt", "caught"}
      BY <3>1 DEF Goto, Throw, State
    <3> QED BY <1>1, <2>1, <3>1, <3>2 DEF Quiet
  <2>4. CASE Catch(e)
    <3>1. PICK u : u = [s EXCEPT !.book = Settle(s.book, Receipted(s.receipts))]
      OBVIOUS
    <3>2. s.pc = "caught" /\ x'[e] = Stop(u, ReasonOf(u))
      BY <1>1, <1>2, <2>4, <3>1 DEF Catch, At
    <3>3. x'[e].receipts = s.receipts /\ x'[e].pc = "finally"
      BY <3>1, <3>2 DEF Stop, State
    <3> QED BY <1>1, <2>1, <3>2, <3>3 DEF Quiet
  <2> QED BY <1>3, <2>2, <2>3, <2>4
<1>4. ASSUME SetupFails(e) \/ StreamTask(e) \/ Judge(e) PROVE Quiet(e)
  <2>1. Untouched /\ s.pc \in {"agent", "idled"}
    BY <1>1, <1>4 DEF SetupFails, StreamTask, Judge, Untouched, disk, At
  <2>2. ASSUME NEW t, Set(e, t), callers' = callers, t.receipts = s.receipts,
               t.pc \in {"agent", "call", "idled", "acquire", "dispose"}
        PROVE  Quiet(e)
    BY <1>1, <1>2, <2>1, <2>2 DEF Quiet
  <2>3. ASSUME NEW kind, NEW pc \in {"call", "acquire"}, BeginCall(e, s, kind, pc)
        PROVE  Quiet(e)
    <3>1. PICK first \in BOOLEAN :
            x'[e] = [s EXCEPT !.book = Claim(s.book, kind),
                              !.current = Append(s.current, Number(s)),
                              !.batchFirst = first, !.pc = pc]
      BY <1>2, <2>3 DEF BeginCall
    <3>2. x'[e].receipts = s.receipts /\ x'[e].pc = pc
      BY <3>1 DEF State
    <3> QED BY <1>1, <2>1, <2>3, <3>2 DEF Quiet, BeginCall
  <2>4. CASE SetupFails(e)
    <3>1. Throw(s, "protocol", "dispose").receipts = s.receipts
          /\ Throw(s, "protocol", "dispose").pc = "dispose"
      BY DEF Throw, State
    <3> QED BY <1>1, <2>2, <2>4, <3>1 DEF SetupFails
  <2>5. CASE StreamTask(e)
    <3>1. PICK t : t = [s EXCEPT !.pc = "idled",
                                 !.fault = IF s.fault = "none" THEN "batch" ELSE s.fault]
      OBVIOUS
    <3>2. /\ t.receipts = s.receipts /\ t.pc = "idled"
          /\ Goto(s, "idled").receipts = s.receipts /\ Goto(s, "idled").pc = "idled"
      BY <3>1 DEF State, Goto
    <3>3. \/ Set(e, t) /\ callers' = callers
          \/ Set(e, Goto(s, "idled")) /\ callers' = callers
          \/ BeginCall(e, s, "task", "call")
      BY <1>1, <2>5, <3>1 DEF StreamTask
    <3> QED BY <2>2, <2>3, <3>2, <3>3
  <2>6. CASE Judge(e)
    <3>1. PICK u : u = Throw(s, "schema", "dispose")
      OBVIOUS
    <3>2. PICK t : t = [u EXCEPT !.book = OnFail(u.book, Last(s.current), "schema",
                                                 "task_output_validation")]
      OBVIOUS
    <3>3. t.receipts = s.receipts /\ t.pc = "dispose"
      BY <3>1, <3>2 DEF Throw, State
    <3>4. \A err : /\ Throw(s, err, "dispose").receipts = s.receipts
                   /\ Throw(s, err, "dispose").pc = "dispose"
      BY DEF Throw, State
    <3>5. \/ \E err : Set(e, Throw(s, err, "dispose")) /\ callers' = callers
          \/ Set(e, t) /\ callers' = callers
          \/ BeginCall(e, s, "acquisition", "acquire")
      BY <1>1, <2>6, <3>1, <3>2 DEF Judge
    <3> QED BY <2>2, <2>3, <3>3, <3>4, <3>5
  <2> QED BY <1>4, <2>4, <2>5, <2>6
<1>5. ASSUME TaskAnswered(e) \/ TaskFails(e) \/ TaskTimesOut(e) PROVE Quiet(e)
  <2>1. Untouched /\ callers' = callers /\ s.pc = "call"
    <3>1. CASE TaskAnswered(e)
      BY <1>1, <3>1 DEF TaskAnswered, Untouched, disk, At
    <3>2. CASE TaskFails(e)
      BY <1>1, <3>2 DEF TaskFails, Untouched, disk, At
    <3>3. CASE TaskTimesOut(e)
      BY <1>1, <3>3 DEF TaskTimesOut, Untouched, disk, At
    <3> QED BY <1>5, <3>1, <3>2, <3>3
  <2>2. x'[e].receipts = s.receipts /\ x'[e].pc \in {"idled", "agent"}
    <3>1. CASE TaskAnswered(e)
      <4>1. PICK text \in BOOLEAN, pc \in {"idled", "agent"} :
              x'[e] = [s EXCEPT !.book = TransportFinished(s.book, Last(s.current)),
                                !.answered = text, !.pc = pc]
        BY <1>1, <1>2, <3>1 DEF TaskAnswered
      <4> QED BY <4>1 DEF State
    <3>2. CASE TaskFails(e)
      <4>1. PICK err :
              x'[e] = [s EXCEPT !.book = OnFail(s.book, Last(s.current), err, "provider_stream"),
                                !.fault = err, !.pc = "idled"]
        BY <1>1, <1>2, <3>2 DEF TaskFails
      <4> QED BY <4>1 DEF State
    <3>3. CASE TaskTimesOut(e)
      <4>1. PICK late : late = (s.late \/ s.batchFirst)
        OBVIOUS
      <4>2. x'[e] = [s EXCEPT !.book = OnFail(s.book, Last(s.current), TimerError(s),
                                              "provider_stream"),
                              !.fault = TimerError(s), !.late = late, !.pc = "idled"]
        BY <1>1, <1>2, <3>3, <4>1 DEF TaskTimesOut
      <4> QED BY <4>2 DEF State
    <3> QED BY <1>5, <3>1, <3>2, <3>3
  <2> QED BY <1>1, <2>1, <2>2 DEF Quiet
<1>6. ASSUME Acquired(e) \/ AcquireFails(e) \/ AcquireTimesOut(e) \/ IdleTimesOut(e)
      PROVE  Quiet(e)
  <2>1. Untouched /\ callers' = callers /\ s.pc \in {"agent", "call", "acquire"}
    BY <1>1, <1>6 DEF Acquired, AcquireFails, AcquireTimesOut, IdleTimesOut, Untouched, disk, At
  <2>2. x'[e].receipts = s.receipts /\ x'[e].pc = "dispose"
    <3>1. CASE Acquired(e)
      <4>1. x'[e] = [s EXCEPT !.book = AssertionFailure(TransportFinished(s.book, Last(s.current))),
                              !.pc = "dispose"]
        BY <1>1, <1>2, <3>1 DEF Acquired
      <4> QED BY <4>1 DEF State
    <3>2. ASSUME NEW err, AcquisitionFails(e, err) PROVE x'[e].receipts = s.receipts /\ x'[e].pc = "dispose"
      <4>1. PICK u : u = Throw(s, err, "dispose")
        OBVIOUS
      <4>2. PICK book, late : x'[e] = [u EXCEPT !.book = book, !.late = late]
        BY <1>1, <1>2, <3>2, <4>1 DEF AcquisitionFails
      <4> QED BY <4>1, <4>2 DEF Throw, State
    <3>3. CASE IdleTimesOut(e)
      <4>1. PICK u : u = Throw(s, "batch", "dispose")
        OBVIOUS
      <4>2. PICK orphan : x'[e] = [u EXCEPT !.orphan = orphan]
        BY <1>1, <1>2, <3>3, <4>1 DEF IdleTimesOut
      <4> QED BY <4>1, <4>2 DEF Throw, State
    <3> QED BY <1>6, <3>1, <3>2, <3>3 DEF AcquireFails, AcquireTimesOut
  <2> QED BY <1>1, <2>1, <2>2 DEF Quiet
<1>7. ASSUME OrphanEnds(e) \/ BatchElapses(e) PROVE Quiet(e)
  <2>1. Untouched /\ callers' = callers
    BY <1>1, <1>7 DEF OrphanEnds, BatchElapses, Untouched, disk
  <2>2. x'[e].receipts = s.receipts /\ x'[e].pc = s.pc /\ x'[e].clean = s.clean
    <3>1. CASE OrphanEnds(e)
      <4>1. PICK b : x'[e] = [s EXCEPT !.book = b, !.orphan = 0]
        BY <1>1, <1>2, <3>1 DEF OrphanEnds
      <4> QED BY <4>1 DEF State
    <3>2. CASE BatchElapses(e)
      BY <1>1, <1>2, <3>2 DEF BatchElapses, State
    <3> QED BY <1>7, <3>1, <3>2
  <2>3. Live(e)
    <3>1. CASE OrphanEnds(e)
      <4>1. s.pc \notin Unspent
        BY <1>1, <3>1 DEF OrphanEnds, ExecutionHolds, FreshHolds
      <4> QED BY <1>1, <4>1 DEF Live, Unspent
    <3> QED BY <1>7, <3>1 DEF BatchElapses
  <2> QED BY <1>1, <2>1, <2>2, <2>3, Zenon DEF Quiet
<1> QED BY <1>3, <1>4, <1>5, <1>6, <1>7 DEF RunStep, Agent, Timers

(* No step touches what is another execution's. *)
LEMMA ApartStep ==
    ASSUME CInv, NEW e \in Execution, Step(e)
    PROVE  Apart(e)
<1>1. CASE RunStep(e)
  <2>1. Quiet(e)
    BY <1>1, QuietStep
  <2>2. x[e].pc # "ended"
    BY <2>1 DEF Quiet, Live, Tries, After, Asking, Acquiring
  <2> QED BY <2>1, <2>2 DEF Quiet, Untouched, Apart
<1>2. CASE Validate(e) \/ OpenBridge(e) \/ Crash(e)
  <2>1. input' = input /\ claimed' = claimed /\ receiptFile' = receiptFile
        /\ isolation' = isolation /\ callers' = callers
    BY <1>2 DEF Validate, OpenBridge, Crash, disk
  <2>2. x[e].pc # "ended"
    BY <1>2 DEF Validate, OpenBridge, Crash, At, Live
  <2> QED BY <2>1, <2>2 DEF Apart
<1>3. CASE PersistClaim(e)
  BY <1>3 DEF PersistClaim, At, Apart
<1>4. CASE PrepareIsolation(e) \/ Abandon(e)
  BY <1>4 DEF PrepareIsolation, Abandon, At, Apart
<1>5. CASE PersistReceipt(e)
  <2>1. input' = input /\ claimed' = claimed /\ isolation' = isolation /\ callers' = callers
        /\ x[e].pc = "receipt"
    BY <1>5 DEF PersistReceipt, At
  <2>2. \/ receiptFile' = receiptFile
        \/ /\ receiptFile[x[e].run] = None
           /\ receiptFile' = [receiptFile EXCEPT ![x[e].run] = e]
    <3>1. PICK o \in Outcomes(receiptFile[x[e].run] # None) :
            \/ receiptFile' = receiptFile
            \/ o # "failed" /\ receiptFile' = [receiptFile EXCEPT ![x[e].run] = e]
      BY <1>5, Zenon DEF PersistReceipt
    <3> QED BY <3>1 DEF Outcomes
  <2>3. x[e].run \in DOMAIN Runs
    <3>1. /\ x[e] \in State /\ x[e].run <= Len(Runs) /\ x[e].run \in Nat \ {0}
      BY <2>1, Memory, OpenFacts, StateFields DEF RunOpen, Acquiring
    <3> QED BY <3>1, RunsFacts
  <2> QED BY <2>1, <2>2, <2>3 DEF Apart
<1>6. CASE CleanUp(e)
  <2>1. input' = input /\ claimed' = claimed /\ receiptFile' = receiptFile /\ callers' = callers
        /\ x[e].pc = "finally"
    BY <1>6 DEF CleanUp, At
  <2>2. PICK removed \in BOOLEAN :
          isolation' = [isolation EXCEPT ![e] = IF removed THEN "absent" ELSE isolation[e]]
    BY <1>6 DEF CleanUp
  <2>3. isolation[e] \in {"absent", "present"}
    BY DEF CInv, CanaryType
  <2> QED BY <2>1, <2>2, <2>3 DEF Apart
<1>7. CASE PersistSummary(e)
  BY <1>7 DEF PersistSummary, At, Apart
<1> QED BY <1>1, <1>2, <1>3, <1>4, <1>5, <1>6, <1>7 DEF Step, Own, RunStep

(* The variables keep their types. *)
LEMMA TypeKept ==
    ASSUME CInv, NEW e \in Execution, Kept(e), Apart(e)
    PROVE  CanaryType'
<1>1. CanaryType
  BY DEF CInv
<1>2. x' \in [Execution -> State] /\ claimed' \in SUBSET Execution /\ callers' \in SUBSET Execution
  BY <1>1 DEF CanaryType, Kept, Apart
<1>3. receiptFile' \in [DOMAIN Runs -> Execution \cup {None}]
  BY <1>1 DEF CanaryType, Apart
<1>4. isolation' \in [Execution -> {"absent", "present"}]
  BY <1>1 DEF CanaryType, Apart
<1> QED BY <1>2, <1>3, <1>4 DEF CanaryType

(* The receipts and the root of an execution are touched by it alone.      *)
LEMMA OthersFiles ==
    ASSUME CInv, NEW e \in Execution, Apart(e), NEW f \in Execution, f # e
    PROVE  /\ OwnReceipts(f)' = OwnReceipts(f) /\ isolation'[f] = isolation[f]
           /\ f \in claimed' <=> f \in claimed
           /\ f \in callers' <=> f \in callers
<1>1. CanaryType
  BY DEF CInv
<1>2. isolation'[f] = isolation[f]
  BY <1>1 DEF CanaryType, Apart
<1>3. \A n \in DOMAIN Runs : receiptFile'[n] = f <=> receiptFile[n] = f
  BY <1>1, NoneAssumption DEF CanaryType, Apart
<1>4. OwnReceipts(f)' = OwnReceipts(f)
  BY <1>3 DEF OwnReceipts
<1> QED BY <1>2, <1>4 DEF Apart

(* What the disk says of the other executions stays. *)
LEMMA OthersDisk ==
    ASSUME CInv, NEW e \in Execution, Kept(e), Apart(e), NEW f \in Execution, f # e
    PROVE  OnDisk(f)'
<1>1. OnDisk(f) /\ x'[f] = x[f] /\ input' = input
  BY DEF CInv, DiskInv, Kept, Apart
<1> QED BY <1>1, OthersFiles DEF OnDisk

(* What it says of an execution after a step within the runs. *)
LEMMA QuietDisk ==
    ASSUME CInv, NEW e \in Execution, Kept(e), Quiet(e)
    PROVE  OnDisk(e)'
<1>1. OnDisk(e) /\ OwnReceipts(e)' = OwnReceipts(e) /\ input' = input /\ isolation' = isolation
      /\ claimed' = claimed /\ x'[e].receipts = x[e].receipts
  BY DEF CInv, DiskInv, Quiet, Untouched, OwnReceipts
<1>2. PICK k : k = Len(x[e].receipts)
  OBVIOUS
<1>3. k \in Nat
  BY <1>2, Memory, StateFields
<1>4. CASE /\ x[e].pc \in Tries /\ x'[e].pc \in Tries \cup After
           /\ callers' \in {callers, callers \cup {e}}
  <2>1. e \in claimed /\ OwnReceipts(e) = 1 .. k /\ WorldHolds(input[e])
    BY <1>1, <1>2, <1>4 DEF OnDisk, PastClaim, Tries, RunOpen
  <2>2. 1 .. k \subseteq 1 .. k + 1
    BY <1>3
  <2>3. x'[e].pc \notin {"summary", "claim"} \cup Early
    BY <1>4 DEF Tries, After, Asking, Acquiring, Early
  <2> QED BY <1>1, <1>2, <2>1, <2>2, <2>3 DEF OnDisk, Early
<1>5. CASE x[e].pc \in After /\ x'[e].pc \in After /\ callers' = callers
  BY <1>1, <1>5 DEF OnDisk, After, PastClaim, Winding, RunOpen, Asking, Acquiring
<1>6. CASE x'[e].pc = x[e].pc /\ x'[e].clean = x[e].clean /\ callers' = callers
  BY ONLY <1>1, <1>6 DEF OnDisk
<1> QED BY <1>4, <1>5, <1>6 DEF Quiet

(* What it says of the execution that steps. *)
LEMMA ActorDisk ==
    ASSUME CInv, NEW e \in Execution, Step(e), Kept(e)
    PROVE  OnDisk(e)'
<1>1. CanaryType /\ OnDisk(e) /\ x[e] \in State /\ ExecutionHolds(x[e])
  BY Memory DEF CInv, DiskInv
<1>2. ASSUME NEW t, Set(e, t) PROVE x'[e] = t
  BY <1>1, <1>2 DEF Set, CanaryType
<1>3. CASE RunStep(e)
  BY <1>3, QuietStep, QuietDisk
<1>4. \A pc : Blank(pc).pc = pc /\ Blank(pc).receipts = <<>>
  BY DEF Blank
<1>5. \A pc : Goto(x[e], pc).pc = pc /\ Goto(x[e], pc).receipts = x[e].receipts
  BY <1>1 DEF Goto, State
<1>6. ASSUME NEW pc \in {"refused", "ended", "crashed"}, End(e, pc),
             e \in callers' => e \in claimed', e \in claimed' => WorldHolds(input'[e])
      PROVE  OnDisk(e)'
  <2>1. x'[e].pc = pc
    BY <1>2, <1>4, <1>6 DEF End
  <2> QED BY <1>6, <2>1 DEF OnDisk, PastClaim, RunOpen, Asking, Acquiring, Winding
<1>7. CASE Validate(e)
  <2>1. Untouched /\ callers' = callers /\ x[e].pc = "idle" /\ OwnReceipts(e)' = OwnReceipts(e)
    BY <1>7 DEF Validate, Untouched, disk, At, OwnReceipts
  <2>2. CASE End(e, "refused")
    BY <1>1, <1>6, <2>1, <2>2 DEF OnDisk, Untouched
  <2>3. CASE WorldHolds(input[e]) /\ Set(e, Goto(x[e], "claim"))
    <3>1. x'[e].pc = "claim"
      BY <1>2, <1>5, <2>3
    <3> QED BY <1>1, <2>1, <2>3, <3>1
            DEF OnDisk, Untouched, PastClaim, RunOpen, Asking, Acquiring, Winding
  <2> QED BY <1>7, <2>2, <2>3 DEF Validate
<1>8. CASE PersistClaim(e)
  <2>1. /\ input' = input /\ callers' = callers /\ x[e].pc = "claim"
        /\ OwnReceipts(e)' = OwnReceipts(e) /\ claimed' \in {claimed, claimed \cup {e}}
        /\ \/ End(e, "refused")
           \/ Set(e, Goto(x[e], "isolate")) /\ claimed' = claimed \cup {e}
    BY <1>8 DEF PersistClaim, At, OwnReceipts
  <2>2. WorldHolds(input[e]) /\ OwnReceipts(e) = {} /\ (e \in callers => e \in claimed)
    BY <1>1, <2>1 DEF OnDisk
  <2>3. CASE End(e, "refused")
    BY <1>6, <2>1, <2>2, <2>3
  <2>4. CASE Set(e, Goto(x[e], "isolate")) /\ claimed' = claimed \cup {e}
    <3>1. x'[e].pc = "isolate"
      BY <1>2, <1>5, <2>4
    <3> QED BY <2>1, <2>2, <2>4, <3>1 DEF OnDisk, RunOpen, Asking, Acquiring, Winding
  <2> QED BY <2>1, <2>3, <2>4
<1>9. CASE PrepareIsolation(e) \/ OpenBridge(e)
  <2>1. /\ input' = input /\ claimed' = claimed /\ callers' = callers
        /\ x[e].pc \in {"isolate", "bridge"} /\ OwnReceipts(e)' = OwnReceipts(e)
    BY <1>9 DEF PrepareIsolation, OpenBridge, disk, At, OwnReceipts
  <2>2. /\ e \in claimed /\ WorldHolds(input[e]) /\ OwnReceipts(e) = {}
        /\ x[e].receipts = <<>>
    BY <1>1, <2>1, FreshFields DEF OnDisk, PastClaim
  <2>3. PICK t, u : /\ t = Goto(x[e], "head")
                    /\ u = [x[e] EXCEPT !.reason = "credential_unavailable", !.pc = "finally"]
    OBVIOUS
  <2>4. /\ t.pc = "head" /\ t.receipts = x[e].receipts
        /\ u.pc = "finally" /\ u.receipts = x[e].receipts
    BY <1>1, <2>3 DEF State, Goto
  <2>5. \/ End(e, "ended")
        \/ x'[e].pc \in {"bridge", "abandon", "head", "finally"} /\ x'[e].receipts = <<>>
    <3>1. \/ Set(e, Goto(x[e], "bridge")) \/ Set(e, Goto(x[e], "abandon"))
          \/ Set(e, t) \/ Set(e, u) \/ End(e, "ended")
      BY <1>9, <2>3 DEF PrepareIsolation, OpenBridge
    <3> QED BY <1>2, <1>5, <2>2, <2>4, <3>1
  <2>6. CASE End(e, "ended")
    BY <1>6, <2>1, <2>2, <2>6
  <2>7. CASE x'[e].pc \in {"bridge", "abandon", "head", "finally"} /\ x'[e].receipts = <<>>
    <3>1. 1 .. Len(x'[e].receipts) = {}
      BY <2>7
    <3> QED BY <2>1, <2>2, <2>7, <3>1 DEF OnDisk
  <2> QED BY <2>5, <2>6, <2>7
<1>10. CASE PersistReceipt(e)
  <2>1. /\ input' = input /\ claimed' = claimed /\ callers' = callers /\ x[e].pc = "receipt"
    BY <1>10 DEF PersistReceipt, At
  <2>2. PICK k \in Nat : k = Len(x[e].receipts)
    BY <1>1, StateFields
  <2>3. e \in claimed /\ WorldHolds(input[e]) /\ OwnReceipts(e) = 1 .. k
    BY <1>1, <2>1, <2>2 DEF OnDisk, PastClaim, RunOpen, Asking, Acquiring
  <2>4. x[e].run = k + 1 /\ k + 1 \in DOMAIN Runs
    BY <1>1, <2>1, <2>2, OpenFacts, RunsFacts DEF RunOpen, Acquiring
  <2>5. \A err : Throw(x[e], err, "caught").pc = "caught"
                 /\ Throw(x[e], err, "caught").receipts = x[e].receipts
    BY <1>1 DEF Throw, State
  <2>6. PICK ev \in Evidence, o \in Outcomes(receiptFile[x[e].run] # None) :
          \/ receiptFile' = receiptFile /\ Set(e, Throw(x[e], "protocol", "caught"))
          \/ /\ receiptFile' = [receiptFile EXCEPT ![k + 1] = e]
             /\ \/ Set(e, Throw(x[e], "protocol", "caught"))
                \/ x'[e].pc \in {"head", "caught"} /\ Len(x'[e].receipts) = k + 1
    <3> DEFINE r(ev) == Receipt(x[e].run, x[e].current, ev)
               Q == {x[e].current[i] : i \in DOMAIN x[e].current}
               t(ev) == [x[e] EXCEPT !.receipts = Append(x[e].receipts, r(ev)),
                                     !.book = CompleteCalls(x[e].book, Q)]
               u(ev) == [t(ev) EXCEPT !.run = t(ev).run + 1, !.pc = "head"]
               w(ev) == Throw(t(ev), "protocol", "caught")
    <3>1. PICK ev \in Evidence, o \in Outcomes(receiptFile[x[e].run] # None) :
            IF ~ValidReceipt(r(ev)) \/ o = "failed"
            THEN Set(e, Throw(x[e], "protocol", "caught")) /\ UNCHANGED receiptFile
            ELSE /\ receiptFile' = [receiptFile EXCEPT ![x[e].run] = e]
                 /\ IF o = "unsynced" THEN Set(e, Throw(x[e], "protocol", "caught"))
                    ELSE Set(e, IF Completable(x[e].book, Q) = Q THEN u(ev) ELSE w(ev))
      BY <1>10, Zenon DEF PersistReceipt
    <3>2. ASSUME NEW v PROVE /\ u(v).pc = "head" /\ u(v).receipts = Append(x[e].receipts, r(v))
                             /\ w(v).pc = "caught" /\ w(v).receipts = Append(x[e].receipts, r(v))
      BY <1>1 DEF Throw, State
    <3> HIDE DEF r, Q, t, u, w
    <3>3. \A v : Len(Append(x[e].receipts, v)) = k + 1
      BY <1>1, <2>2, StateFields
    <3>4. \/ receiptFile' = receiptFile /\ Set(e, Throw(x[e], "protocol", "caught"))
          \/ /\ receiptFile' = [receiptFile EXCEPT ![x[e].run] = e]
             /\ \/ Set(e, Throw(x[e], "protocol", "caught"))
                \/ Set(e, u(ev)) \/ Set(e, w(ev))
      BY <3>1
    <3> QED BY <1>2, <2>4, <3>2, <3>3, <3>4
  <2>7. 1 .. k + 1 = (1 .. k) \cup {k + 1} /\ 1 .. k \subseteq 1 .. k + 1
    BY <2>2
  <2>8. CASE receiptFile' = receiptFile
    <3>1. OwnReceipts(e)' = 1 .. k
      BY <2>3, <2>8 DEF OwnReceipts
    <3>2. receiptFile[k + 1] # e
      <4>1. k + 1 \notin 1 .. k
        BY <2>2
      <4> QED BY <2>3, <2>4, <4>1 DEF OwnReceipts
    <3>3. receiptFile' # [receiptFile EXCEPT ![k + 1] = e]
      BY <1>1, <2>4, <2>8, <3>2 DEF CanaryType
    <3>4. x'[e].pc = "caught" /\ x'[e].receipts = x[e].receipts
      BY <1>2, <2>5, <2>6, <3>3
    <3> QED BY <2>1, <2>2, <2>3, <2>7, <3>1, <3>4 DEF OnDisk, Winding, Asking, Acquiring
  <2>9. CASE receiptFile' = [receiptFile EXCEPT ![k + 1] = e]
    <3>1. OwnReceipts(e)' = 1 .. k + 1
      <4>1. \A n \in DOMAIN Runs : receiptFile'[n] = e <=> receiptFile[n] = e \/ n = k + 1
        BY <1>1, <2>9 DEF CanaryType
      <4>2. OwnReceipts(e)' = OwnReceipts(e) \cup {k + 1}
        BY <2>4, <4>1 DEF OwnReceipts
      <4> QED BY <2>3, <2>7, <4>2
    <3>2. \/ x'[e].pc = "caught" /\ Len(x'[e].receipts) = k
          \/ x'[e].pc \in {"head", "caught"} /\ Len(x'[e].receipts) = k + 1
      BY <1>2, <2>2, <2>5, <2>6
    <3>3. 1 .. k + 1 \subseteq 1 .. (k + 1) + 1
      BY <2>2
    <3> QED BY <2>1, <2>3, <2>7, <3>1, <3>2, <3>3 DEF OnDisk, Winding, Asking, Acquiring
  <2> QED BY <2>6, <2>8, <2>9
<1>11. CASE CleanUp(e)
  <2>1. /\ input' = input /\ claimed' = claimed /\ receiptFile' = receiptFile
        /\ callers' = callers /\ x[e].pc = "finally" /\ OwnReceipts(e)' = OwnReceipts(e)
    BY <1>11 DEF CleanUp, At, OwnReceipts
  <2>2. /\ x'[e].pc = "summary" /\ x'[e].receipts = x[e].receipts
        /\ x'[e].clean => isolation'[e] = "absent"
    <3> PICK s \in State : s = x[e]
      BY <1>1
    <3>1. PICK disposed \in BOOLEAN, removed \in BOOLEAN :
            /\ isolation' = [isolation EXCEPT ![e] = IF removed THEN "absent" ELSE isolation[e]]
            /\ Set(e, [s EXCEPT
                        !.reason = IF s.reason = "none" /\ ~(disposed /\ removed)
                                   THEN "cleanup_failed" ELSE s.reason,
                        !.clean = disposed /\ removed, !.pc = "summary"])
      BY <1>11 DEF CleanUp
    <3>2. PICK why, clean :
            /\ clean = (disposed /\ removed)
            /\ x'[e] = [s EXCEPT !.reason = why, !.clean = clean, !.pc = "summary"]
      <4>1. PICK clean \in BOOLEAN : clean = (disposed /\ removed)
        OBVIOUS
      <4>2. PICK why : why = IF s.reason = "none" /\ ~(disposed /\ removed)
                             THEN "cleanup_failed" ELSE s.reason
        OBVIOUS
      <4>3. PICK t : t = [s EXCEPT !.reason = why, !.clean = clean, !.pc = "summary"]
        OBVIOUS
      <4>4. Set(e, t)
        BY <3>1, <4>1, <4>2, <4>3
      <4> QED BY <1>2, <4>1, <4>3, <4>4
    <3>3. x'[e].pc = "summary" /\ x'[e].receipts = x[e].receipts /\ x'[e].clean = clean
      BY <1>1, <3>2 DEF State
    <3>4. clean => isolation'[e] = "absent"
      BY <1>1, <3>1, <3>2 DEF CanaryType
    <3> QED BY <3>3, <3>4
  <2> QED BY <1>1, <2>1, <2>2 DEF OnDisk, PastClaim, Winding, RunOpen, Asking, Acquiring
<1>12. CASE PersistSummary(e) \/ Abandon(e) \/ Crash(e)
  <2>1. input' = input /\ claimed' = claimed /\ callers' = callers
    BY <1>12 DEF PersistSummary, Abandon, Crash, disk
  <2> QED BY <1>1, <1>6, <1>12, <2>1 DEF PersistSummary, Abandon, Crash, OnDisk
<1> QED BY <1>3, <1>7, <1>8, <1>9, <1>10, <1>11, <1>12 DEF Step, Own, RunStep

(* No two of the claims are of one approval. *)
LEMMA ClaimsKept ==
    ASSUME CInv, NEW e \in Execution, Step(e), Apart(e)
    PROVE  OnceClaimed'
<1>1. OnceClaimed /\ input' = input
  BY DEF CInv, DiskInv, Apart
<1>2. CASE claimed' = claimed
  BY ONLY <1>1, <1>2 DEF OnceClaimed
<1>3. CASE claimed' # claimed
  <2>1. PersistClaim(e)
    BY <1>3, QuietStep, Zenon DEF Step, Own, RunStep, Quiet, Untouched, Validate, PrepareIsolation,
       OpenBridge, Abandon, PersistReceipt, CleanUp, PersistSummary, Crash, disk
  <2>2. PICK o \in Outcomes(ClaimExists(ExecutionId(input[e]))) :
          claimed' = IF o = "failed" THEN claimed ELSE claimed \cup {e}
    BY ONLY <2>1, Zenon DEF PersistClaim
  <2>3. claimed' = claimed \cup {e} /\ ~ClaimExists(ExecutionId(input[e]))
    BY <1>3, <2>2 DEF Outcomes
  <2>4. \A f \in claimed : ExecutionId(input[f]) # ExecutionId(input[e])
    BY ONLY <2>3, Zenon DEF ClaimExists
  <2>5. ASSUME NEW f \in claimed', NEW g \in claimed', ExecutionId(input[f]) = ExecutionId(input[g])
        PROVE  f = g
    <3>1. CASE f = e \/ g = e
      BY ONLY <2>3, <2>4, <2>5, <3>1
    <3>2. CASE f # e /\ g # e
      BY ONLY <1>1, <2>3, <2>5, <3>2, Zenon DEF OnceClaimed
    <3> QED BY ONLY <3>1, <3>2
  <2> QED BY ONLY <1>1, <2>5, Zenon DEF OnceClaimed
<1> QED BY <1>2, <1>3

(* The execution of a summary has ended: no step is its.                   *)
LEMMA SummaryStays ==
    ASSUME CInv, NEW e \in Execution, Kept(e), Apart(e), summaryFile' = summaryFile
    PROVE  SummaryOnDisk'
<1> SUFFICES ASSUME summaryFile # None
             PROVE  SummaryOnDisk'
  BY DEF SummaryOnDisk
<1>1. SummaryOnDisk
  BY DEF CInv, DiskInv
<1>2. PICK f : f = summaryFile
  OBVIOUS
<1>3. PICK k \in 0 .. Len(Runs) :
        /\ f.by \in Execution /\ x[f.by].pc = "ended" /\ f.receipts = 1 .. k
        /\ 1 .. k \subseteq OwnReceipts(f.by) /\ OwnReceipts(f.by) \subseteq 1 .. k + 1
        /\ f.status = "pass" => k = Len(Runs) /\ isolation[f.by] = "absent"
  BY <1>1, <1>2 DEF SummaryOnDisk
<1>4. f.by # e
  BY <1>3 DEF Apart
<1>5. x'[f.by] = x[f.by] /\ OwnReceipts(f.by)' = OwnReceipts(f.by)
      /\ isolation'[f.by] = isolation[f.by]
  BY <1>3, <1>4, OthersFiles DEF Kept
<1> QED BY <1>2, <1>3, <1>5 DEF SummaryOnDisk

(* What it says of the summary. *)
LEMMA SummaryKept ==
    ASSUME CInv, NEW e \in Execution, Step(e), Kept(e), Apart(e)
    PROVE  SummaryOnDisk'
<1>1. CASE summaryFile' = summaryFile
  BY <1>1, SummaryStays
<1>2. CASE summaryFile' # summaryFile
  <2>1. PersistSummary(e)
    BY <1>2, QuietStep DEF Step, Own, RunStep, Quiet, Untouched, Validate, PrepareIsolation,
       OpenBridge, Abandon, PersistReceipt, CleanUp, PersistClaim, Crash, disk
  <2>2. PICK s \in State : s = x[e] /\ ExecutionHolds(s) /\ CanaryType /\ s.pc = "summary"
    BY <2>1, Memory DEF PersistSummary, At
  <2>3. summaryFile' = [by |-> e, status |-> SummaryOf(s).status, receipts |-> DOMAIN s.receipts]
    BY <1>2, <2>1, <2>2 DEF PersistSummary
  <2>4. PICK k : k = Len(s.receipts)
    OBVIOUS
  <2>5. k \in 0 .. Len(Runs) /\ DOMAIN s.receipts = 1 .. k
    BY <2>2, <2>4, Sizes, StateFields, RunsFacts
  <2>6. /\ 1 .. k \subseteq OwnReceipts(e) /\ OwnReceipts(e) \subseteq 1 .. k + 1
        /\ s.clean => isolation[e] = "absent"
    BY <2>2, <2>4 DEF CInv, DiskInv, OnDisk, Winding
  <2>7. OwnReceipts(e)' = OwnReceipts(e) /\ isolation' = isolation
    BY <2>1 DEF PersistSummary, OwnReceipts
  <2>8. x'[e].pc = "ended"
    BY <2>1, <2>2 DEF PersistSummary, End, Set, Blank, CanaryType
  <2>9. SummaryOf(s).status = "pass" => k = Len(Runs) /\ s.clean
    <3>1. SummaryOf(s).status = StatusOf(s.receipts, s.reason, s.clean)
      BY DEF SummaryOf, Summary
    <3>2. CASE Len(s.receipts) = Len(Runs) /\ s.reason = "none" /\ s.clean
      BY <2>4, <3>2
    <3>3. CASE ~(Len(s.receipts) = Len(Runs) /\ s.reason = "none" /\ s.clean)
      BY <3>1, <3>3 DEF StatusOf
    <3> QED BY <3>2, <3>3
  <2>10. PICK f : f = summaryFile'
    OBVIOUS
  <2>11. f.by = e /\ f.receipts = 1 .. k /\ f.status = SummaryOf(s).status
    BY <2>3, <2>5, <2>10
  <2> QED BY ONLY <2>5, <2>6, <2>7, <2>8, <2>9, <2>10, <2>11 DEF SummaryOnDisk
<1> QED BY <1>1, <1>2

-----------------------------------------------------------------------------
(* The first k numbers are k. *)
LEMMA CountTo == ASSUME NEW k \in Nat PROVE IsFiniteSet(1 .. k) /\ Cardinality(1 .. k) = k
<1>1. IsFiniteSet(1 .. k) /\ Cardinality(1 .. k) = IF 1 > k THEN 0 ELSE k - 1 + 1
  BY FS_Interval
<1> QED BY <1>1

(* The invariant holds at first. *)
LEMMA CInvInit == ASSUME Init PROVE CInv
<1>1. \A e \in Execution : x[e] = Blank("idle")
  BY DEF Init
<1>2. Blank("idle") \in State /\ ExecutionHolds(Blank("idle")) /\ Blank("idle").pc = "idle"
  BY BlankState DEF Unspent
<1>3. CanaryType
  <2>1. x \in [Execution -> State]
    BY <1>2 DEF Init
  <2> QED BY <2>1 DEF Init, CanaryType
<1>4. \A e \in Execution : OnDisk(e)
  <2>1. \A e \in Execution : OwnReceipts(e) = {}
    BY NoneAssumption DEF Init, OwnReceipts
  <2> QED BY <1>1, <1>2, <2>1
          DEF Init, OnDisk, PastClaim, RunOpen, Asking, Acquiring, Winding
<1>5. OnceClaimed /\ SummaryOnDisk
  BY DEF Init, OnceClaimed, SummaryOnDisk
<1> QED BY <1>1, <1>2, <1>3, <1>4, <1>5 DEF CInv, DiskInv

(* It is kept by every step of an execution. *)
LEMMA CInvStep ==
    ASSUME CInv, NEW e \in Execution, Step(e)
    PROVE  CInv'
<1>1. Kept(e) /\ Apart(e)
  BY ExecutionStep, ApartStep
<1>2. CanaryType'
  BY <1>1, TypeKept
<1>3. \A f \in Execution : ExecutionHolds(x'[f])
  BY <1>1 DEF Kept, CInv
<1>4. \A f \in Execution : OnDisk(f)'
  BY <1>1, OthersDisk, ActorDisk
<1>5. OnceClaimed' /\ SummaryOnDisk'
  BY <1>1, ClaimsKept, SummaryKept
<1>6. DiskInv'
  BY <1>4, <1>5 DEF DiskInv
<1> QED BY <1>2, <1>3, <1>6 DEF CInv

(* It is kept when nothing changes. *)
LEMMA CInvStutters ==
    ASSUME CInv, UNCHANGED vars
    PROVE  CInv'
BY DEF CInv, CanaryType, DiskInv, OnceClaimed, SummaryOnDisk, OnDisk, OwnReceipts, vars

(* The inductive invariant of the executions and of the disk they share. *)
THEOREM CanaryInvariant == Spec => []CInv
<1>1. Init => CInv
  BY CInvInit
<1>2. CInv /\ [Next]_vars => CInv'
  <2>1. ASSUME CInv, Next PROVE CInv'
    BY <2>1, CInvStep DEF Next, Step
  <2> QED BY <2>1, CInvStutters
<1> QED BY <1>1, <1>2, PTL DEF Spec

-----------------------------------------------------------------------------
(* Over crashes, concurrent and repeated executions: the provider was      *)
(* called only under a claim of an approval in force, by one execution of  *)
(* each approval; a summary's receipts are files its execution wrote, with *)
(* at most one more, and a pass left no temporary root (runRealCanaryD2).  *)
THEOREM DiskSound == Spec => []DiskAccounts
<1>1. CInv => DiskAccounts
  <2> SUFFICES ASSUME CInv PROVE DiskAccounts
    OBVIOUS
  <2>1. /\ \A e \in Execution : OnDisk(e)
        /\ OnceClaimed /\ SummaryOnDisk /\ callers \in SUBSET Execution
    BY DEF CInv, DiskInv, CanaryType
  <2>2. \A e \in callers : e \in claimed /\ WorldHolds(input[e])
    BY <2>1 DEF OnDisk
  <2>3. ASSUME NEW e \in callers, NEW f \in callers, input[e].approval = input[f].approval
        PROVE  e = f
    <3>1. \A w : WorldHolds(w) => w.approval.request = w.request
      BY DEF WorldHolds, Binds
    <3>2. input[e].request = input[f].request
      BY <2>2, <2>3, <3>1
    <3>3. ExecutionId(input[e]) = ExecutionId(input[f])
      BY <2>3, <3>2 DEF ExecutionId
    <3> QED BY <2>1, <2>2, <3>3 DEF OnceClaimed
  <2>4. ASSUME summaryFile # None
        PROVE  LET s   == summaryFile
                   own == {n \in DOMAIN Runs : receiptFile[n] = s.by}
               IN /\ s.receipts \subseteq own /\ own \subseteq 1 .. Cardinality(s.receipts) + 1
                  /\ s.status = "pass" => isolation[s.by] = "absent" /\ own = DOMAIN Runs
    <3>1. PICK f : f = summaryFile
      OBVIOUS
    <3>2. PICK k \in 0 .. Len(Runs) :
            /\ f.receipts = 1 .. k
            /\ 1 .. k \subseteq OwnReceipts(f.by) /\ OwnReceipts(f.by) \subseteq 1 .. k + 1
            /\ f.status = "pass" => k = Len(Runs) /\ isolation[f.by] = "absent"
      BY <2>1, <2>4, <3>1 DEF SummaryOnDisk
    <3>3. Cardinality(f.receipts) = k
      <4>1. k \in Nat
        BY RunsFacts
      <4>2. Cardinality(1 .. k) = k
        BY <4>1, CountTo
      <4> QED BY <3>2, <4>2
    <3>4. OwnReceipts(f.by) \subseteq DOMAIN Runs
      BY DEF OwnReceipts
    <3>5. k = Len(Runs) => OwnReceipts(f.by) = DOMAIN Runs
      BY <3>2, <3>4, RunsFacts
    <3> QED BY <3>1, <3>2, <3>3, <3>5 DEF OwnReceipts
  <2> QED BY <2>2, <2>3, <2>4 DEF DiskAccounts
<1> QED BY <1>1, CanaryInvariant, PTL

-----------------------------------------------------------------------------
(***************************************************************************)
(* The counts of a summary.                                                *)
(***************************************************************************)
(* Diagnostics that name the calls of Q, each once, are as many as Q.      *)
LEMMA OneEach ==
    ASSUME NEW D, NEW Q, IsFiniteSet(Q), \A d \in D : d.sequence \in Q,
           \A q \in Q : \E d \in D : d.sequence = q,
           \A d, f \in D : d.sequence = f.sequence => d = f
    PROVE  Cardinality(D) = Cardinality(Q)
<1> DEFINE g == [q \in Q |-> CHOOSE d \in D : d.sequence = q]
<1>1. \A q \in Q : g[q] \in D /\ g[q].sequence = q
  OBVIOUS
<1>2. g \in [Q -> D]
  BY <1>1
<1> HIDE DEF g
<1>3. \A p, q \in Q : g[p] = g[q] => p = q
  BY <1>1
<1>4. \A d \in D : \E q \in Q : g[q] = d
  BY <1>1
<1>5. g \in Bijection(Q, D)
  BY <1>2, <1>3, <1>4, Fun_IsBij
<1>6. ExistsBijection(Q, D)
  BY <1>5 DEF ExistsBijection
<1> QED BY <1>6, FS_Bijection

(* Two sets that have nothing in common. *)
LEMMA Apartness ==
    ASSUME NEW S, NEW T, IsFiniteSet(S), IsFiniteSet(T), \A q \in S : q \notin T
    PROVE  Cardinality(S \cup T) = Cardinality(S) + Cardinality(T)
<1>1. S \cap T = {}
  OBVIOUS
<1>2. /\ Cardinality(S \cup T) = Cardinality(S) + Cardinality(T) - Cardinality(S \cap T)
      /\ Cardinality(S) \in Nat /\ Cardinality(T) \in Nat
  BY FS_Union, FS_CardinalityType
<1>3. Cardinality(S \cap T) = 0
  BY <1>1, FS_EmptySet
<1> QED BY <1>2, <1>3

(* What the counts of a settled book are: m calls with a receipt, n of them*)
(* acquisitions, and r that failed, a of them acquisitions.                *)
LEMMA Counts ==
    ASSUME NEW b \in Book, NEW m, NEW n, LedgerHolds(b, m, n), Settled(b, m)
    PROVE  \E a \in {0, 1} : \E r \in Nat :
             /\ Len(b.claims) = m + r /\ a <= r /\ m \in Nat /\ n \in Nat /\ n <= m
             /\ Cardinality(Among(b, {"task"}, Statuses)) = m + r - n - a
             /\ Cardinality(Among(b, {"acquisition"}, Statuses)) = n + a
             /\ Cardinality(Among(b, Kinds, {"completed"})) = m
             /\ Cardinality(Among(b, Kinds, {"failed"})) = r
             /\ Cardinality(b.diagnostics) = r
             /\ Cardinality({d \in b.diagnostics : d.call_kind = "task"}) = r - a
             /\ Cardinality({d \in b.diagnostics : d.call_kind = "acquisition"}) = a
<1>1. PICK N \in Nat : N = Len(b.claims)
  BY BookFields
<1>2. m \in Nat /\ n \in Nat /\ m <= N /\ N - m \in Nat
  BY <1>1 DEF LedgerHolds
<1> DEFINE L == Left(b, m)
           K(k, Q) == {q \in Q : b.claims[q].kind = k}
<1>3. \A q : q \in 1 .. N <=> q \in 1 .. m \/ q \in L
  BY <1>1, <1>2 DEF Left
<1>4. \A q \in L : q \notin 1 .. m
  BY <1>1, <1>2 DEF Left
<1>5. IsFiniteSet(L) /\ Cardinality(L) = N - m
  <2>1. m + 1 \in Int /\ N \in Int
    BY <1>2
  <2>2. IsFiniteSet((m + 1) .. N)
        /\ Cardinality((m + 1) .. N) = IF m + 1 > N THEN 0 ELSE N - (m + 1) + 1
    BY <2>1, FS_Interval
  <2> QED BY <1>1, <1>2, <2>2 DEF Left
<1>6. IsFiniteSet(1 .. m) /\ Cardinality(1 .. m) = m
  BY <1>2, CountTo
<1> HIDE DEF L
<1>7. \A q \in 1 .. N : /\ b.claims[q].kind \in Kinds /\ b.claims[q].status \in Statuses
                        /\ q \in L => b.claims[q].status = "failed"
                        /\ q \notin L => b.claims[q].status = "completed"
  BY <1>1, <1>3, BookFields DEF LedgerHolds, Settled, L
<1>8. Among(b, Kinds, {"completed"}) = 1 .. m /\ Among(b, Kinds, {"failed"}) = L
  BY <1>1, <1>3, <1>4, <1>7, BookFields DEF Among
<1>9. K("acquisition", 1 .. m) = Acquisitions(b, m) /\ Cardinality(Acquisitions(b, m)) = n
  BY DEF LedgerHolds, Acquisitions
<1>10. ASSUME NEW Q \in SUBSET (1 .. N), IsFiniteSet(Q)
       PROVE  /\ IsFiniteSet(K("task", Q)) /\ IsFiniteSet(K("acquisition", Q))
              /\ Cardinality(K("task", Q)) \in Nat /\ Cardinality(K("acquisition", Q)) \in Nat
              /\ Cardinality(K("task", Q)) + Cardinality(K("acquisition", Q)) = Cardinality(Q)
  <2>1. IsFiniteSet(K("task", Q)) /\ IsFiniteSet(K("acquisition", Q))
    BY <1>10, FS_Subset
  <2>2. K("task", Q) \cup K("acquisition", Q) = Q
    BY <1>7, <1>10 DEF Kinds
  <2>3. \A q \in K("task", Q) : q \notin K("acquisition", Q)
    OBVIOUS
  <2> HIDE DEF K
  <2> QED BY <2>1, <2>2, <2>3, Apartness, FS_CardinalityType
<1>11. (1 .. m) \in SUBSET (1 .. N) /\ L \in SUBSET (1 .. N)
  BY <1>3
<1>12. PICK a : a = Cardinality(K("acquisition", L))
  OBVIOUS
<1>13. a \in {0, 1} /\ a <= N - m
  <2>1. ASSUME NEW q \in K("acquisition", L) PROVE q = N
    <3>1. q \in L /\ b.claims[q].kind = "acquisition"
      OBVIOUS
    <3> QED BY <1>1, <3>1 DEF LedgerHolds, L
  <2>2. K("acquisition", L) = {} \/ K("acquisition", L) = {N}
    BY <2>1
  <2>3. a \in {0, 1}
    BY <1>12, <2>2, FS_EmptySet, FS_Singleton
  <2>4. a <= Cardinality(L)
    BY <1>5, <1>12, FS_Subset
  <2> QED BY <1>5, <2>3, <2>4
<1>14. ASSUME NEW k \in Kinds
       PROVE  Cardinality(Among(b, {k}, Statuses))
              = Cardinality(K(k, 1 .. m)) + Cardinality(K(k, L))
  <2>1. Among(b, {k}, Statuses) = K(k, 1 .. m) \cup K(k, L)
    <3>1. Among(b, {k}, Statuses) = {q \in 1 .. N : b.claims[q].kind = k}
      BY <1>1, OfKind
    <3>2. {q \in 1 .. N : b.claims[q].kind = k} = K(k, 1 .. m) \cup K(k, L)
      BY <1>3
    <3> QED BY <3>1, <3>2
  <2>2. \A q \in K(k, 1 .. m) : q \notin K(k, L)
    BY <1>4
  <2>3. IsFiniteSet(K(k, 1 .. m)) /\ IsFiniteSet(K(k, L))
    BY <1>5, <1>6, FS_Subset
  <2> HIDE DEF K
  <2> QED BY <2>1, <2>2, <2>3, Apartness
<1>15. /\ \A d \in b.diagnostics : d.sequence \in L /\ d.call_kind = b.claims[d.sequence].kind
       /\ \A q \in L : \E d \in b.diagnostics : d.sequence = q
       /\ \A d, f \in b.diagnostics : d.sequence = f.sequence => d = f
  BY <1>3, <1>7 DEF LedgerHolds, Reported, L, Settled
<1>16. Cardinality(b.diagnostics) = N - m
  BY <1>5, <1>15, OneEach
<1>17. ASSUME NEW k
       PROVE  Cardinality({d \in b.diagnostics : d.call_kind = k}) = Cardinality(K(k, L))
  <2> DEFINE D == {d \in b.diagnostics : d.call_kind = k}
             Q == K(k, L)
  <2>1. IsFiniteSet(Q)
    BY <1>5, FS_Subset
  <2>2. /\ \A d \in D : d.sequence \in Q
        /\ \A q \in Q : \E d \in D : d.sequence = q
        /\ \A d, f \in D : d.sequence = f.sequence => d = f
    BY <1>15
  <2> HIDE DEF D, Q
  <2> QED BY <2>1, <2>2, OneEach DEF D, Q
<1>18. /\ Cardinality(K("task", 1 .. m)) = m - n /\ n <= m
       /\ Cardinality(K("task", L)) = N - m - a
  <2>1. /\ Cardinality(K("task", 1 .. m)) + Cardinality(K("acquisition", 1 .. m)) = m
        /\ Cardinality(K("task", 1 .. m)) \in Nat
    BY <1>6, <1>10, <1>11
  <2>2. /\ Cardinality(K("task", L)) + Cardinality(K("acquisition", L)) = N - m
        /\ Cardinality(K("task", L)) \in Nat
    BY <1>5, <1>10, <1>11
  <2> HIDE DEF K
  <2> QED BY <1>2, <1>9, <1>12, <1>13, <2>1, <2>2
<1> HIDE DEF K
<1>19. PICK r \in Nat : r = N - m
  BY <1>2
<1>20. /\ Cardinality(Among(b, {"task"}, Statuses)) = m + r - n - a
       /\ Cardinality(Among(b, {"acquisition"}, Statuses)) = n + a
  <2>1. "task" \in Kinds /\ "acquisition" \in Kinds
    BY DEF Kinds
  <2>2. Cardinality(Among(b, {"task"}, Statuses))
        = Cardinality(K("task", 1 .. m)) + Cardinality(K("task", L))
    BY <1>14, <2>1
  <2>3. Cardinality(Among(b, {"acquisition"}, Statuses))
        = Cardinality(K("acquisition", 1 .. m)) + Cardinality(K("acquisition", L))
    BY <1>14, <2>1
  <2>4. Cardinality(K("acquisition", 1 .. m)) = n
    BY <1>9
  <2>5. Cardinality(Among(b, {"task"}, Statuses)) = (m - n) + (N - m - a)
    BY <1>18, <2>2
  <2>6. Cardinality(Among(b, {"acquisition"}, Statuses)) = n + a
    BY <1>12, <2>3, <2>4
  <2>7. (m - n) + (N - m - a) = m + r - n - a
    BY <1>2, <1>13, <1>19
  <2> QED BY <2>5, <2>6, <2>7
<1>21. Len(b.claims) = m + r /\ a <= r /\ n <= m
  BY <1>1, <1>2, <1>13, <1>18, <1>19
<1>22. /\ Cardinality(Among(b, Kinds, {"completed"})) = m
       /\ Cardinality(Among(b, Kinds, {"failed"})) = r
       /\ Cardinality(b.diagnostics) = r
  BY <1>5, <1>6, <1>8, <1>16, <1>19
<1>23. Cardinality({d \in b.diagnostics : d.call_kind = "task"}) = r - a
  BY <1>2, <1>13, <1>17, <1>18, <1>19
<1>24. Cardinality({d \in b.diagnostics : d.call_kind = "acquisition"}) = a
  BY <1>12, <1>17
<1> QED BY <1>2, <1>13, <1>20, <1>21, <1>22, <1>23, <1>24

-----------------------------------------------------------------------------
(* Whatever failed and in which order, the summary an execution builds     *)
(* passes the check it must pass to be published (runner.ts:1881-1912).    *)
THEOREM SummarySound == Spec => []SummaryAccepted
<1>1. ASSUME CInv, NEW e \in Execution, At(e, "summary")
      PROVE  ValidSummary(SummaryOf(x[e]))
  <2>1. PICK s \in State : s = x[e] /\ ExecutionHolds(s) /\ s.pc = "summary"
    BY <1>1, Memory DEF At
  <2>2. PICK b, n, m : b = s.book /\ n = Len(s.receipts) /\ m = Done(s)
    OBVIOUS
  <2>3. /\ b \in Book /\ n \in Nat /\ n <= Len(Runs)
        /\ LedgerHolds(b, m, n) /\ Settled(b, m)
        /\ s.reason = "circuit_open" => b.consecutive = Breaker
        /\ s.reason = "none" => n = Len(Runs) /\ Len(b.claims) = m /\ s.clean
    BY <2>1, <2>2, StateFields DEF ExecutionHolds, ReceiptsHold, WindingHolds, Winding, Size
  <2>4. /\ Len(ClaimSequences(s.receipts)) = m
        /\ ClaimSequences(s.receipts) = [i \in 1 .. m |-> i]
        /\ \A i \in DOMAIN s.receipts :
             ValidReceipt(s.receipts[i]) /\ s.receipts[i].run = Runs[i]
    <3>1. ReceiptsHold(s) /\ DOMAIN s.receipts = 1 .. Len(s.receipts)
      BY <2>1, StateFields DEF ExecutionHolds
    <3> QED BY ONLY <2>2, <3>1 DEF ReceiptsHold, Done
  <2>5. PICK a \in {0, 1}, r \in Nat :
          /\ Len(b.claims) = m + r /\ a <= r /\ m \in Nat /\ n \in Nat /\ n <= m
          /\ Cardinality(Among(b, {"task"}, Statuses)) = m + r - n - a
          /\ Cardinality(Among(b, {"acquisition"}, Statuses)) = n + a
          /\ Cardinality(Among(b, Kinds, {"completed"})) = m
          /\ Cardinality(Among(b, Kinds, {"failed"})) = r
          /\ Cardinality(b.diagnostics) = r
          /\ Cardinality({d \in b.diagnostics : d.call_kind = "task"}) = r - a
          /\ Cardinality({d \in b.diagnostics : d.call_kind = "acquisition"}) = a
    BY <2>3, Counts
  <2>6. PICK t : t = SummaryOf(s)
    OBVIOUS
  <2>7. /\ t.status = StatusOf(s.receipts, s.reason, s.clean)
        /\ t.receipts = s.receipts /\ t.reason = s.reason /\ t.clean = s.clean
        /\ t.diagnostics = b.diagnostics /\ t.consecutive = b.consecutive
        /\ t.task = m + r - n - a /\ t.acquisition = n + a /\ t.completed = m /\ t.failed = r
    BY <2>2, <2>5, <2>6 DEF SummaryOf, Summary
  <2>8. /\ b.consecutive = Lesser(Breaker, r)
        /\ \A d \in b.diagnostics :
              /\ d.sequence \in Left(b, m) /\ ValidDiagnostic(d)
              /\ d.call_kind = b.claims[d.sequence].kind
        /\ \A q \in Left(b, m) : \E d \in b.diagnostics : d.sequence = q
        /\ \A q \in Left(b, m) : q # Len(b.claims) => b.claims[q].kind = "task"
    <3>1. Len(b.claims) - m = r
      BY <2>5
    <3> QED BY <2>3, <3>1 DEF LedgerHolds, Reported, Settled
  <2>9. LedgerFits(t)
    <3>1. t.task <= PLAN_LIMITS.task /\ t.acquisition <= PLAN_LIMITS.acquisition
      <4>1. \A k \in Kinds : Cardinality(Among(b, {k}, Statuses)) <= PLAN_LIMITS[k]
        BY <2>3 DEF LedgerHolds, Limited
      <4> QED BY <2>5, <2>7, <4>1 DEF Kinds
    <3>2. t.completed + t.failed = t.task + t.acquisition
      BY <2>5, <2>7
    <3>3. t.consecutive <= t.failed /\ (t.reason = "circuit_open" => t.failed >= 2 /\ t.consecutive = Breaker)
      BY <2>3, <2>5, <2>7, <2>8 DEF Lesser, Breaker
    <3> QED BY <3>1, <3>2, <3>3 DEF LedgerFits
  <2>10. t.status = "pass" => /\ s.reason = "none" /\ s.clean /\ n = Len(Runs) /\ r = 0
    <3>1. CASE n = Len(Runs) /\ s.reason = "none" /\ s.clean
      BY <2>3, <2>5, <3>1
    <3>2. CASE ~(n = Len(Runs) /\ s.reason = "none" /\ s.clean)
      <4>1. t.status # "pass"
        BY <2>2, <2>7, <3>2 DEF StatusOf
      <4> QED BY <4>1
    <3> QED BY <3>1, <3>2
  <2>11. r = 0 => b.diagnostics = {} /\ a = 0
    <3>1. r = 0 => Left(b, m) = {}
      BY <2>5 DEF Left
    <3> QED BY <2>5, <2>8, <3>1
  <2>12. DiagnosticsFit(t)
    <3>1. t.task + t.acquisition = m + r
      BY <2>5, <2>7
    <3>2. {d.sequence : d \in b.diagnostics} = (m + 1) .. (m + r)
      <4>1. Left(b, m) = (m + 1) .. (m + r)
        BY <2>5 DEF Left
      <4>2. {d.sequence : d \in b.diagnostics} = Left(b, m)
        BY <2>8
      <4> QED BY <4>1, <4>2
    <3>3. \A d \in b.diagnostics : d.call_kind = "acquisition" => d.sequence = m + r
      BY <2>5, <2>8
    <3>4. /\ t.task - (Len(ClaimSequences(t.receipts)) - Len(t.receipts)) = r - a
          /\ t.acquisition - Len(t.receipts) = a /\ a <= 1
      <4>1. Len(ClaimSequences(t.receipts)) = m /\ Len(t.receipts) = n
        BY <2>2, <2>4, <2>7
      <4>2. (m + r - n - a) - (m - n) = r - a /\ (n + a) - n = a /\ a <= 1
        BY <2>5
      <4> QED BY <2>7, <4>1, <4>2
    <3>5. t.status = "pass" => t.diagnostics = {}
      BY <2>7, <2>10, <2>11
    <3> QED BY <2>5, <2>7, <2>8, <3>1, <3>2, <3>3, <3>4, <3>5 DEF DiagnosticsFit
  <2>13. StatusFits(t)
    <3>1. s.reason \in {"none", "cleanup_failed"} \cup Reasons.fail
      BY StateFields DEF Stopped
    <3>2. CASE s.reason = "none"
      <4>1. t.status = "pass"
        <5>1. Len(s.receipts) = Len(Runs) /\ s.clean
          BY <2>2, <2>3, <3>2
        <5>2. s.reason \notin Reasons.abort
          BY <3>2 DEF Reasons
        <5> QED BY <2>7, <3>2, <5>1, <5>2 DEF StatusOf
      <4>2. /\ t.reason = "none" /\ t.clean /\ Len(t.receipts) = Len(Runs)
            /\ t.failed = 0 /\ t.consecutive = 0 /\ t.acquisition = Len(Runs)
            /\ t.task = Len(ClaimSequences(t.receipts)) - Len(Runs)
        BY <2>2, <2>3, <2>4, <2>5, <2>7, <2>8, <2>10, <2>11, <4>1 DEF Lesser, Breaker
      <4> QED BY <4>1, <4>2 DEF StatusFits
    <3>3. CASE s.reason = "cleanup_failed"
      <4>1. s.reason \in Reasons.abort /\ s.reason # "none"
        BY <3>3 DEF Reasons
      <4>2. t.status = "aborted"
        BY <2>7, <4>1 DEF StatusOf
      <4> QED BY <2>7, <4>1, <4>2 DEF StatusFits
    <3>4. CASE s.reason \in Reasons.fail
      <4>1. s.reason \notin Reasons.abort /\ s.reason # "none"
        BY <3>4 DEF Reasons
      <4>2. t.status = "fail"
        BY <2>7, <4>1 DEF StatusOf
      <4> QED BY <2>7, <3>4, <4>2 DEF StatusFits
    <3> QED BY <3>1, <3>2, <3>3, <3>4
  <2>14. /\ \A i \in DOMAIN t.receipts : ValidReceipt(t.receipts[i]) /\ t.receipts[i].run = Runs[i]
         /\ ClaimSequences(t.receipts) = [i \in 1 .. t.completed |-> i]
    BY <2>4, <2>7
  <2> QED BY <2>1, <2>6, <2>9, <2>12, <2>13, <2>14 DEF ValidSummary
<1>2. CInv => SummaryAccepted
  BY <1>1 DEF SummaryAccepted
<1> QED BY <1>2, CanaryInvariant, PTL

-----------------------------------------------------------------------------
(* The dry run: who has begun and has not restored holds the traps.        *)

Trapping == {"prepare", "install", "smoke", "provider", "runtime", "remove", "verify",
             "unwind", "restore"}

DryState == [pc : Trapping \cup {"idle", "refused", "threw", "success"},
             saved : Dry \cup {"original"}, fibers : SUBSET {"runtime", "provider"},
             alive : SUBSET {"runtime", "provider"},
             observer : BOOLEAN, streams : Nat, resolves : Nat, network : Nat,
             clean : BOOLEAN, paths : BOOLEAN, failed : BOOLEAN]

DryType ==
    /\ active \in BOOLEAN
    /\ network \in Dry \cup {"original"}
    /\ dry \in [Dry -> DryState]
    /\ root \in SUBSET Dry

(* What a call has counted and left behind, by where it is. *)
DryHolds(d) ==
    LET s == dry[d] IN
    /\ s.pc \in Trapping => active /\ network = d /\ s.saved = "original"
    /\ s.fibers # {} => s.pc \in {"smoke", "provider", "runtime", "unwind"}
    /\ s.pc = "runtime" => s.fibers \subseteq {"runtime"}
    /\ s.pc \in {"provider", "runtime", "remove", "verify"} => s.streams = 1
    /\ s.pc = "verify" => s.clean /\ d \notin root
    /\ s.pc \in {"unwind", "restore"} /\ ~s.failed =>
          s.clean /\ d \notin root /\ s.streams = 1 /\ s.resolves = 0
    /\ s.pc = "success" => d \notin root /\ s.streams = 1 /\ s.resolves = 0
    /\ s.pc \in {"idle", "refused", "prepare", "success"} => s.alive = {}
    /\ s.pc \in {"smoke", "provider", "runtime", "remove", "verify"} => s.alive = s.fibers
    /\ s.pc \in {"unwind", "restore"} /\ ~s.failed => s.alive = {}

DInv ==
    /\ DryType
    /\ \A d \in Dry : DryHolds(d)
    /\ (\A d \in Dry : dry[d].pc \notin Trapping) => network = "original" /\ ~active

(* A step of a call writes the memory of that call. *)
LEMMA DrySets == ASSUME NEW d \in Dry, Call(d) PROVE \E u : DrySet(d, u)
<1>1. CASE Begin(d)
  BY ONLY <1>1, Zenon DEF Begin
<1>2. CASE Prepare(d)
  BY ONLY <1>2, Zenon DEF Prepare
<1>3. CASE Install(d) \/ Smoke(d)
  BY ONLY <1>3, Zenon DEF Install, Smoke
<1>4. CASE DisposeProvider(d) \/ DisposeRuntime(d)
  BY ONLY <1>4, Zenon DEF DisposeProvider, DisposeRuntime, DisposeFiber
<1>5. CASE RemoveRoot(d) \/ Verify(d)
  BY ONLY <1>5, Zenon DEF RemoveRoot, Verify
<1>6. CASE Unwind(d) \/ Restore(d)
  BY ONLY <1>6, Zenon DEF Unwind, Restore
<1> QED BY ONLY Call(d), <1>1, <1>2, <1>3, <1>4, <1>5, <1>6 DEF Call

(* And no root but its own. *)
LEMMA DryRoot ==
    ASSUME NEW d \in Dry, Call(d)
    PROVE  root' \in {root, root \cup {d}, root \ {d}}
<1>1. CASE RemoveRoot(d) \/ Restore(d) \/ Prepare(d)
  BY ONLY <1>1, Zenon DEF RemoveRoot, Restore, Prepare
<1>2. CASE ~(RemoveRoot(d) \/ Restore(d) \/ Prepare(d))
  BY ONLY Call(d), <1>2, Zenon DEF Call, Begin, Install, Smoke, DisposeProvider, DisposeRuntime,
     DisposeFiber, Verify, Unwind
<1> QED BY ONLY <1>1, <1>2

(* Another call's step leaves this one where it was. *)
LEMMA DryOthers ==
    ASSUME DInv, NEW d \in Dry, Call(d), NEW e \in Dry, e # d
    PROVE  dry'[e] = dry[e] /\ (e \in root' <=> e \in root)
<1>1. dry \in [Dry -> DryState]
  BY DEF DInv, DryType
<1>2. root' \in {root, root \cup {d}, root \ {d}}
  BY DryRoot
<1>3. \E u : DrySet(d, u)
  BY DrySets
<1> QED BY ONLY <1>1, <1>2, <1>3, d \in Dry, e \in Dry, e # d DEF DrySet

(* A step of a call keeps what is known of every call. *)
LEMMA DryOwn == ASSUME DInv, NEW d \in Dry, Call(d) PROVE DInv'
<1> DryType /\ DryHolds(d) /\ (\A e \in Dry : DryHolds(e))
  BY DEF DInv
<1>1. PICK s \in DryState : s = dry[d]
  BY DEF DryType
<1>2. \A u : DrySet(d, u) => dry'[d] = u /\ (u \in DryState => dry' \in [Dry -> DryState])
  BY DEF DrySet, DryType
<1>3. CASE Begin(d) /\ active
  <2>1. UNCHANGED <<active, network, root>> /\ s.pc = "idle"
        /\ DrySet(d, [s EXCEPT !.pc = "refused"])
    BY <1>1, <1>3 DEF Begin, DryAt
  <2>2. PICK t \in DryState : t = [s EXCEPT !.pc = "refused"]
    BY ONLY s \in DryState DEF DryState
  <2>3. t.pc = "refused" /\ t.fibers = s.fibers /\ t.alive = s.alive
    BY <2>2 DEF DryState
  <2>4. dry'[d] = t /\ dry' \in [Dry -> DryState]
    BY <1>2, <2>1, <2>2
  <2>5. DryHolds(d)'
    BY <1>1, <2>1, <2>3, <2>4 DEF DryHolds, Trapping
  <2>6. \A e \in Dry \ {d} : DryHolds(e)'
    BY <2>1, DryOthers DEF DryHolds
  <2>7. \E e \in Dry : dry[e].pc \in Trapping
    BY <1>3 DEF DInv
  <2>8. \E e \in Dry : dry'[e].pc \in Trapping
    BY <1>1, <2>1, <2>7, DryOthers DEF Trapping
  <2> QED BY <2>1, <2>4, <2>5, <2>6, <2>8 DEF DInv, DryType
<1>4. CASE Begin(d) /\ ~active
  <2>1. \A e \in Dry : dry[e].pc \notin Trapping
    BY <1>4 DEF DryHolds
  <2>2. network = "original"
    BY <2>1 DEF DInv
  <2>3. /\ active' = TRUE /\ network' = d /\ root' = root /\ s.pc = "idle"
        /\ DrySet(d, [s EXCEPT !.pc = "prepare", !.saved = "original"])
    BY <1>1, <1>4, <2>2 DEF Begin, DryAt
  <2>4. PICK t \in DryState : t = [s EXCEPT !.pc = "prepare", !.saved = "original"]
    BY DEF DryState, Trapping
  <2>5. t.pc = "prepare" /\ t.fibers = s.fibers /\ t.saved = "original" /\ t.alive = s.alive
    BY ONLY s \in DryState, <2>4 DEF DryState
  <2>6. dry'[d] = t /\ dry' \in [Dry -> DryState]
    BY <1>2, <2>3, <2>4
  <2>7. DryHolds(d)'
    BY <1>1, <2>3, <2>5, <2>6 DEF DryHolds, Trapping
  <2>8. \A e \in Dry \ {d} : DryHolds(e)'
    BY <2>1, DryOthers DEF DryHolds, Trapping
  <2> QED BY <2>3, <2>5, <2>6, <2>7, <2>8 DEF DInv, DryType, Trapping
<1>5. CASE ~Begin(d)
  <2>1. s.pc \in Trapping /\ active /\ network = d /\ s.saved = "original"
    <3>1. s.pc \in {"prepare", "install", "smoke", "provider", "runtime", "remove",
                    "verify", "unwind", "restore"}
      <4>1. CASE Prepare(d) \/ Install(d) \/ Smoke(d)
        BY ONLY <1>1, <4>1, Zenon DEF Prepare, Install, Smoke, DryAt
      <4>2. CASE DisposeProvider(d) \/ DisposeRuntime(d) \/ RemoveRoot(d)
        BY ONLY <1>1, <4>2, Zenon DEF DisposeProvider, DisposeRuntime, RemoveRoot, DryAt
      <4>3. CASE Verify(d) \/ Unwind(d) \/ Restore(d)
        BY ONLY <1>1, <4>3, Zenon DEF Verify, Unwind, Restore, DryAt
      <4> QED BY ONLY Call(d), <1>5, <4>1, <4>2, <4>3 DEF Call
    <3>2. s.pc \in Trapping
      BY ONLY <3>1 DEF Trapping
    <3> QED BY ONLY <1>1, <3>2, DryHolds(d) DEF DryHolds
  <2>2. \A e \in Dry \ {d} : dry[e].pc \notin Trapping
    BY <2>1 DEF DryHolds
  <2>3. \A e \in Dry \ {d} : DryHolds(e)'
    BY <2>2, DryOthers DEF DryHolds, Trapping
  <2>4. CASE Restore(d)
    <3>1. /\ active' = FALSE /\ network' = "original" /\ s.pc = "restore"
          /\ DrySet(d, [s EXCEPT !.pc = IF s.failed THEN "threw" ELSE "success"])
          /\ root' = root \/ root' = root \ {d}
      BY <1>1, <2>1, <2>4 DEF Restore, DryAt
    <3>2. PICK t : t = [s EXCEPT !.pc = IF s.failed THEN "threw" ELSE "success"]
      OBVIOUS
    <3>3. /\ t \in DryState /\ t.fibers = s.fibers /\ t.streams = s.streams
          /\ t.resolves = s.resolves /\ t.alive = s.alive
          /\ t.pc \in {"threw", "success"} /\ (t.pc = "success" => ~s.failed)
      <4>1. CASE s.failed
        BY <3>2, <4>1 DEF DryState
      <4>2. CASE ~s.failed
        BY <3>2, <4>2 DEF DryState
      <4> QED BY <4>1, <4>2
    <3>4. dry'[d] = t /\ dry' \in [Dry -> DryState]
      BY <1>2, <3>1, <3>2, <3>3
    <3>5. DryHolds(d)'
      BY <1>1, <3>1, <3>3, <3>4 DEF DryHolds, Trapping
    <3>6. \A e \in Dry : dry'[e].pc \notin Trapping
      BY <2>2, <3>3, <3>4, DryOthers DEF Trapping
    <3> QED BY <2>3, <3>1, <3>4, <3>5, <3>6 DEF DInv, DryType
  <2>5. CASE ~Restore(d)
    <3>1. UNCHANGED <<active, network>> /\ root' \in SUBSET Dry
      <4>1. UNCHANGED <<active, network>>
        <5>1. CASE Prepare(d) \/ Install(d) \/ Smoke(d)
          BY ONLY <5>1, Zenon DEF Prepare, Install, Smoke
        <5>2. CASE DisposeProvider(d) \/ DisposeRuntime(d)
          BY ONLY <5>2, Zenon DEF DisposeProvider, DisposeRuntime, DisposeFiber
        <5>3. CASE RemoveRoot(d) \/ Verify(d) \/ Unwind(d)
          BY ONLY <5>3, Zenon DEF RemoveRoot, Verify, Unwind
        <5> QED BY ONLY Call(d), <1>5, <2>5, <5>1, <5>2, <5>3, Zenon DEF Call
      <4>2. root' \in {root, root \cup {d}, root \ {d}}
        BY DryRoot, Zenon
      <4>3. root \in SUBSET Dry
        BY DEF DryType
      <4> QED BY ONLY d \in Dry, <4>1, <4>2, <4>3
    <3>2. SUFFICES dry'[d] \in DryState /\ dry'[d].pc \in Trapping /\ dry'[d].saved = s.saved
                   /\ DryHolds(d)'
      <4>1. \E u : DrySet(d, u)
        BY DrySets, Zenon
      <4>2. dry'[d] \in DryState => dry' \in [Dry -> DryState]
        BY <1>2, <4>1
      <4> QED BY <2>3, <3>1, <4>2 DEF DInv, DryType
    <3> USE DEF DryState, Trapping
    <3>3. CASE Prepare(d)
      <4>1. PICK t : /\ dry'[d] = t
                     /\ \/ t = [s EXCEPT !.paths = TRUE, !.pc = "install"]
                        \/ t = [s EXCEPT !.failed = TRUE, !.pc = "restore"]
        BY <1>1, <1>2, <3>3 DEF Prepare, Fails
      <4>2. /\ t \in DryState /\ t.saved = s.saved /\ t.fibers = s.fibers
            /\ t.alive = s.alive
            /\ t.pc = "install" \/ (t.pc = "restore" /\ t.failed)
        <5>1. CASE t = [s EXCEPT !.paths = TRUE, !.pc = "install"]
          BY ONLY s \in DryState, <5>1 DEF DryState
        <5>2. CASE t = [s EXCEPT !.failed = TRUE, !.pc = "restore"]
          BY ONLY s \in DryState, <5>2 DEF DryState
        <5> QED BY ONLY <4>1, <5>1, <5>2
      <4>3. s.pc = "prepare"
        BY <1>1, <3>3 DEF Prepare, DryAt
      <4> QED BY <1>1, <2>1, <3>1, <4>1, <4>2, <4>3 DEF DryHolds
    <3>4. CASE Install(d)
      <4>1. \/ DrySet(d, [s EXCEPT !.fibers = Plugins, !.alive = Plugins,
                                   !.observer = TRUE, !.pc = "smoke"])
            \/ \E had, live \in {{}, {"runtime"}, Plugins} :
                 DrySet(d, [[s EXCEPT !.fibers = had, !.alive = live, !.observer = had # {}]
                              EXCEPT !.failed = TRUE, !.pc = "unwind"])
        BY ONLY <1>1, <3>4, Zenon DEF Install, Fails
      <4>2. PICK t : t = dry'[d]
        OBVIOUS
      <4>3. /\ t \in DryState /\ t.saved = s.saved
            /\ (t.pc = "smoke" /\ t.alive = t.fibers) \/ (t.pc = "unwind" /\ t.failed)
        <5>1. CASE DrySet(d, [s EXCEPT !.fibers = Plugins, !.alive = Plugins,
                                       !.observer = TRUE, !.pc = "smoke"])
          <6>1. t = [s EXCEPT !.fibers = Plugins, !.alive = Plugins, !.observer = TRUE,
                              !.pc = "smoke"]
            BY ONLY <1>2, <4>2, <5>1, Zenon
          <6> QED BY ONLY s \in DryState, <6>1 DEF DryState, Plugins
        <5>2. ASSUME NEW had \in {{}, {"runtime"}, Plugins},
                     NEW live \in {{}, {"runtime"}, Plugins},
                     DrySet(d, [[s EXCEPT !.fibers = had, !.alive = live, !.observer = had # {}]
                                  EXCEPT !.failed = TRUE, !.pc = "unwind"])
              PROVE  t \in DryState /\ t.saved = s.saved /\ t.pc = "unwind" /\ t.failed
          <6>1. t = [[s EXCEPT !.fibers = had, !.alive = live, !.observer = had # {}]
                       EXCEPT !.failed = TRUE, !.pc = "unwind"]
            BY ONLY <1>2, <4>2, <5>2, Zenon
          <6>2. PICK watched \in BOOLEAN : watched = (had # {})
            OBVIOUS
          <6>3. had \in SUBSET {"runtime", "provider"} /\ live \in SUBSET {"runtime", "provider"}
            BY DEF Plugins
          <6>4. PICK v \in DryState :
                  v = [s EXCEPT !.fibers = had, !.alive = live, !.observer = watched]
            BY ONLY s \in DryState, <6>3, watched \in BOOLEAN DEF DryState
          <6>5. v.saved = s.saved
            BY ONLY s \in DryState, <6>4 DEF DryState
          <6>6. t = [v EXCEPT !.failed = TRUE, !.pc = "unwind"]
            BY ONLY <6>1, <6>2, <6>4
          <6> QED BY ONLY v \in DryState, <6>5, <6>6 DEF DryState
        <5> QED BY <4>1, <5>1, <5>2
      <4> QED BY <1>1, <2>1, <3>1, <4>2, <4>3 DEF DryHolds
    <3>5. CASE Smoke(d)
      <4>1. PICK n \in 0 .. 2 :
              DrySet(d, IF Counted([s EXCEPT !.streams = n])
                        THEN [[s EXCEPT !.streams = n] EXCEPT !.pc = "provider"]
                        ELSE Fails([s EXCEPT !.streams = n], "unwind"))
        BY <1>1, <3>5, Zenon DEF Smoke
      <4>2. PICK u \in DryState : u = [s EXCEPT !.streams = n]
        <5>1. [s EXCEPT !.streams = n] \in DryState
          OBVIOUS
        <5> QED BY <5>1
      <4>3. u.streams = n /\ u.saved = s.saved /\ u.fibers = s.fibers /\ u.alive = s.alive
        BY <4>2
      <4>4. DrySet(d, IF Counted(u) THEN [u EXCEPT !.pc = "provider"] ELSE Fails(u, "unwind"))
        BY ONLY <4>1, <4>2, Zenon
      <4>5. PICK t : /\ dry'[d] = t
                     /\ \/ Counted(u) /\ t = [u EXCEPT !.pc = "provider"]
                        \/ t = [u EXCEPT !.failed = TRUE, !.pc = "unwind"]
        BY <1>2, <4>4 DEF Fails
      <4>6. /\ t \in DryState /\ t.saved = s.saved /\ t.streams = n
            /\ t.fibers = s.fibers /\ t.alive = s.alive
            /\ (t.pc = "provider" /\ n = 1) \/ (t.pc = "unwind" /\ t.failed)
        <5>1. CASE Counted(u) /\ t = [u EXCEPT !.pc = "provider"]
          BY ONLY u \in DryState, <4>3, <5>1 DEF DryState, Counted
        <5>2. CASE t = [u EXCEPT !.failed = TRUE, !.pc = "unwind"]
          BY ONLY u \in DryState, <4>3, <5>2 DEF DryState
        <5> QED BY ONLY <4>5, <5>1, <5>2
      <4>7. s.pc = "smoke"
        BY <1>1, <3>5 DEF Smoke, DryAt
      <4> QED BY <1>1, <2>1, <3>1, <4>5, <4>6, <4>7 DEF DryHolds
    <3>6. CASE DisposeProvider(d) \/ DisposeRuntime(d)
      <4>1. PICK fiber \in {"provider", "runtime"}, next \in {"runtime", "remove"} :
                DisposeFiber(d, fiber, next) /\ s.pc = fiber
                /\ (fiber = "provider" => next = "runtime")
                /\ (fiber = "runtime" => next = "remove")
        BY <1>1, <3>6 DEF DisposeProvider, DisposeRuntime, DryAt
      <4>2. PICK u \in {s} \cup Touched(s), left \in SUBSET {fiber}, fails \in BOOLEAN :
                /\ left # {} => fails
                /\ DrySet(d, IF fails
                             THEN Fails([u EXCEPT !.fibers = @ \ {fiber},
                                                  !.alive = (@ \ {fiber}) \cup left], "unwind")
                             ELSE [[u EXCEPT !.fibers = @ \ {fiber},
                                             !.alive = (@ \ {fiber}) \cup left]
                                     EXCEPT !.pc = next])
        BY <1>1, <4>1, Zenon DEF DisposeFiber
      <4>3. /\ u \in DryState /\ u.saved = s.saved /\ u.fibers = s.fibers
            /\ u.streams = s.streams /\ u.alive = s.alive
        BY <4>2 DEF Touched
      <4>4. PICK v : v = [u EXCEPT !.fibers = @ \ {fiber}, !.alive = (@ \ {fiber}) \cup left]
        OBVIOUS
      <4>5. /\ v \in DryState /\ v.saved = s.saved /\ v.fibers = s.fibers \ {fiber}
            /\ v.streams = s.streams /\ v.alive = (s.alive \ {fiber}) \cup left
        BY ONLY <4>3, <4>4, fiber \in {"provider", "runtime"}, left \in SUBSET {fiber} DEF DryState
      <4>6. PICK t : /\ dry'[d] = t
                     /\ \/ t = [v EXCEPT !.failed = TRUE, !.pc = "unwind"]
                        \/ left = {} /\ t = [v EXCEPT !.pc = next]
        <5>1. DrySet(d, IF fails THEN Fails(v, "unwind") ELSE [v EXCEPT !.pc = next])
          BY ONLY <4>2, <4>4, Zenon
        <5> QED BY ONLY <1>2, <4>2, <5>1 DEF Fails
      <4>7. /\ t \in DryState /\ t.saved = s.saved /\ t.fibers = s.fibers \ {fiber}
            /\ t.streams = s.streams
            /\ \/ t.pc = next /\ t.alive = s.alive \ {fiber}
               \/ t.pc = "unwind" /\ t.failed
        <5>1. CASE t = [v EXCEPT !.failed = TRUE, !.pc = "unwind"]
          BY ONLY <4>5, <5>1 DEF DryState
        <5>2. CASE left = {} /\ t = [v EXCEPT !.pc = next]
          BY ONLY next \in {"runtime", "remove"}, <4>5, <5>2 DEF DryState
        <5> QED BY ONLY <4>6, <5>1, <5>2
      <4>8. /\ s.streams = 1 /\ (fiber = "runtime" => s.fibers \subseteq {"runtime"})
            /\ s.alive = s.fibers
        BY <1>1, <4>1 DEF DryHolds
      <4>9. s.fibers \subseteq {"runtime", "provider"}
        OBVIOUS
      <4> QED BY <1>1, <2>1, <3>1, <4>1, <4>6, <4>7, <4>8, <4>9 DEF DryHolds
    <3>7. CASE RemoveRoot(d)
      <4>1. PICK t : /\ dry'[d] = t
                     /\ \/ d \notin root' /\ t = [s EXCEPT !.clean = TRUE, !.pc = "verify"]
                        \/ t = [s EXCEPT !.failed = TRUE, !.pc = "unwind"]
        BY <1>1, <1>2, <3>7 DEF RemoveRoot, Fails
      <4>2. /\ t \in DryState /\ t.saved = s.saved /\ t.fibers = s.fibers
            /\ t.streams = s.streams /\ t.alive = s.alive
            /\ (d \notin root' /\ t.clean /\ t.pc = "verify") \/ (t.pc = "unwind" /\ t.failed)
        <5>1. CASE d \notin root' /\ t = [s EXCEPT !.clean = TRUE, !.pc = "verify"]
          BY ONLY s \in DryState, <5>1 DEF DryState
        <5>2. CASE t = [s EXCEPT !.failed = TRUE, !.pc = "unwind"]
          BY ONLY s \in DryState, <5>2 DEF DryState
        <5> QED BY ONLY <4>1, <5>1, <5>2
      <4>3. s.pc = "remove"
        BY <1>1, <3>7 DEF RemoveRoot, DryAt
      <4> QED BY <1>1, <2>1, <3>1, <4>1, <4>2, <4>3 DEF DryHolds
    <3>8. CASE Verify(d)
      <4>1. PICK t : /\ dry'[d] = t
                     /\ \/ s.resolves = 0 /\ t = [s EXCEPT !.pc = "unwind"]
                        \/ t = [s EXCEPT !.failed = TRUE, !.pc = "unwind"]
        BY <1>1, <1>2, <3>8 DEF Verify, Fails, Counted
      <4>2. /\ t \in DryState /\ t.saved = s.saved /\ t.fibers = s.fibers
            /\ t.streams = s.streams /\ t.resolves = s.resolves /\ t.clean = s.clean
            /\ t.alive = s.alive
            /\ t.pc = "unwind" /\ (s.resolves = 0 \/ t.failed)
        <5>1. CASE s.resolves = 0 /\ t = [s EXCEPT !.pc = "unwind"]
          BY ONLY s \in DryState, <5>1 DEF DryState
        <5>2. CASE t = [s EXCEPT !.failed = TRUE, !.pc = "unwind"]
          BY ONLY s \in DryState, <5>2 DEF DryState
        <5> QED BY ONLY <4>1, <5>1, <5>2
      <4>3. s.pc = "verify" /\ root' = root
        BY <1>1, <3>8 DEF Verify, DryAt
      <4> QED BY <1>1, <2>1, <3>1, <4>1, <4>2, <4>3 DEF DryHolds
    <3>9. CASE Unwind(d)
      <4>1. PICK left \in SUBSET s.fibers, throws \in BOOLEAN :
               /\ left # {} => throws
               /\ DrySet(d, [s EXCEPT !.alive = (s.alive \ s.fibers) \cup left, !.fibers = {},
                                      !.observer = FALSE, !.failed = s.failed \/ throws,
                                      !.pc = "restore"])
        BY ONLY <1>1, <3>9, Zenon DEF Unwind
      <4>2. PICK failed \in BOOLEAN : failed = (s.failed \/ throws)
        OBVIOUS
      <4>3. PICK live : live = (s.alive \ s.fibers) \cup left
        OBVIOUS
      <4>4. live \in SUBSET {"runtime", "provider"}
        <5>1. s.alive \subseteq {"runtime", "provider"} /\ s.fibers \subseteq {"runtime", "provider"}
          BY ONLY s \in DryState DEF DryState
        <5> QED BY ONLY <4>3, <5>1, left \in SUBSET s.fibers
      <4>5. PICK t : /\ dry'[d] = t
                     /\ t = [s EXCEPT !.alive = live, !.fibers = {}, !.observer = FALSE,
                                      !.failed = failed, !.pc = "restore"]
        BY ONLY <1>2, <4>1, <4>2, <4>3, Zenon
      <4>6. /\ t \in DryState /\ t.saved = s.saved /\ t.fibers = {}
            /\ t.streams = s.streams /\ t.resolves = s.resolves /\ t.clean = s.clean
            /\ t.pc = "restore" /\ t.failed = failed
            /\ t.alive = live
        <5>1. PICK u : u = [s EXCEPT !.alive = live, !.fibers = {}, !.observer = FALSE]
          OBVIOUS
        <5>2. /\ u \in DryState /\ u.saved = s.saved /\ u.fibers = {} /\ u.alive = live
              /\ u.streams = s.streams /\ u.resolves = s.resolves /\ u.clean = s.clean
          BY ONLY s \in DryState, live \in SUBSET {"runtime", "provider"}, <5>1 DEF DryState
        <5>3. t = [u EXCEPT !.failed = failed, !.pc = "restore"]
          BY ONLY <4>5, <5>1
        <5> QED BY ONLY failed \in BOOLEAN, <5>2, <5>3 DEF DryState
      <4>7. ~t.failed => ~s.failed /\ (s.alive = {} => t.alive = {})
        BY ONLY <4>1, <4>2, <4>6, <4>3
      <4>8. s.pc = "unwind" /\ root' = root
        BY ONLY <1>1, <3>9, Zenon DEF Unwind, DryAt
      <4> QED BY <1>1, <2>1, <3>1, <4>6, <4>8, <4>5, <4>7 DEF DryHolds
    <3> QED BY ONLY Call(d), <1>5, <2>5, <3>3, <3>4, <3>5, <3>6, <3>7, <3>8, <3>9, Zenon DEF Call
  <2> QED BY <2>4, <2>5
<1> QED BY <1>3, <1>4, <1>5

(* Every step of the dry runs keeps it. *)
LEMMA DryStep == DInv /\ [DryNext]_dryVars => DInv'
<1> SUFFICES ASSUME DInv, [DryNext]_dryVars PROVE DInv'
  OBVIOUS
<1> DryType /\ \A d \in Dry : DryHolds(d)
  BY DEF DInv
<1>1. CASE UNCHANGED dryVars
  BY <1>1 DEF dryVars, DInv, DryType, DryHolds
<1>2. CASE Trapped
  <2>1. /\ network \in Dry /\ UNCHANGED <<active, network, root>>
        /\ dry' = [dry EXCEPT ![network].network = @ + 1]
    BY <1>2 DEF Trapped
  <2>2. dry' \in [Dry -> DryState]
    BY <2>1 DEF DryType, DryState
  <2>3. \A d \in Dry : /\ dry'[d].pc = dry[d].pc /\ dry'[d].saved = dry[d].saved
                       /\ dry'[d].fibers = dry[d].fibers /\ dry'[d].streams = dry[d].streams
                       /\ dry'[d].resolves = dry[d].resolves /\ dry'[d].clean = dry[d].clean
                       /\ dry'[d].failed = dry[d].failed /\ dry'[d].alive = dry[d].alive
    BY <2>1 DEF DryType, DryState
  <2>4. \A d \in Dry : DryHolds(d)'
    BY <2>1, <2>3 DEF DryHolds
  <2> QED BY <2>1, <2>2, <2>3, <2>4 DEF DInv, DryType
<1>3. ASSUME NEW d \in Dry, Call(d) PROVE DInv'
  BY <1>3, DryOwn
<1> QED BY <1>1, <1>2, <1>3 DEF DryNext

(* Whatever throws in a dry run, and however many are started: a plugin    *)
(* outlives the traps of its own call only if that call threw, the process *)
(* gets its network functions back when the last call has ended, and a     *)
(* call that succeeded streamed once, resolved nothing and left nothing.   *)
THEOREM TrapsSound == DrySpec => []TrapsHold
<1>1. DryInit => DInv
  <2> SUFFICES ASSUME DryInit PROVE DInv
    OBVIOUS
  <2>1. Resting \in DryState
    BY DEF Resting, DryState
  <2> QED BY <2>1 DEF DryInit, DInv, DryType, DryHolds, Resting, Trapping
<1>2. DInv => TrapsHold
  BY DEF DInv, DryType, DryHolds, TrapsHold, Trapping, DryState, DryAt, Result
<1> QED BY <1>1, <1>2, DryStep, PTL DEF DrySpec
=============================================================================
