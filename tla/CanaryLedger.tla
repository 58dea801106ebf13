---------------------------- MODULE CanaryLedger ----------------------------
(***************************************************************************)
(* What the real canary of the evaluation keeps about the calls it makes   *)
(* to a paid provider (src/src/m05e/index.ts, src/src/m05d2/diagnostics.ts *)
(* and the records of src/src/m05d2/runner.ts): the budget ledger, one     *)
(* diagnostic per failed call, the receipt of a run and the summary, and   *)
(* the checks a receipt and a summary must pass before they are published. *)
(*                                                                         *)
(* A book is the part of the runner's memory these operators change:       *)
(* claims (a sequence, the number of a claim is its place), consecutive,   *)
(* circuit and diagnostics.  The counters of the source are the counts of  *)
(* its claims.                                                             *)
(***************************************************************************)
EXTENDS Integers, Sequences, FiniteSets, SequencesExt

CONSTANTS
    Runs,       \* CANONICAL_CANARY_RUNS: a sequence of [group, task] records
    TaskCalls   \* calls a task may make in one run (4)

ASSUME RunsAssumption ==
    /\ Runs \in Seq([group : {"no_memory", "tool_only", "auto_inject"},
                     task : {"task_build_recovery", "task_control_format"}])
    /\ Len(Runs) > 0
    /\ TaskCalls \in Nat \ {0}

Breaker == 2   \* consecutive failures that open the circuit

PLAN_LIMITS == [task |-> Len(Runs) * TaskCalls, acquisition |-> Len(Runs),
                total |-> Len(Runs) * (TaskCalls + 1)]

EmptyBook == [claims |-> <<>>, consecutive |-> 0, circuit |-> FALSE, diagnostics |-> {}]

Among(b, kinds, statuses) ==
    {q \in DOMAIN b.claims : b.claims[q].kind \in kinds /\ b.claims[q].status \in statuses}

Kinds    == {"task", "acquisition"}
Open     == {"pending", "transport_finished"}
Statuses == Open \cup {"completed", "failed"}

(***************************************************************************)
(* BudgetLedger.                                                           *)
(***************************************************************************)
Lesser(m, n) == IF m <= n THEN m ELSE n

Claimable(b, kind) ==
    /\ ~b.circuit
    /\ Cardinality(Among(b, {kind}, Statuses)) < PLAN_LIMITS[kind]
    /\ Len(b.claims) < PLAN_LIMITS.total

Claim(b, kind) ==
    [b EXCEPT !.claims = Append(@, [kind |-> kind, status |-> "pending"])]

TransportFinished(b, q) == [b EXCEPT !.claims[q].status = "transport_finished"]

(* The calls of Q, one after the other: the first that is not finished     *)
(* throws, and those after it are left.                                    *)
Completable(b, Q) ==
    {q \in Q : \A p \in Q : p <= q => b.claims[p].status = "transport_finished"}

CompleteCalls(b, Q) ==
    [b EXCEPT !.claims = [q \in DOMAIN @ |->
                            IF q \in Completable(b, Q) THEN [@[q] EXCEPT !.status = "completed"]
                            ELSE @[q]],
              !.consecutive = IF Completable(b, Q) = {} THEN @ ELSE 0]

FailedCalls(b, Q) ==
    LET c == Lesser(Breaker, b.consecutive + Cardinality(Q)) IN
    [b EXCEPT !.claims = [q \in DOMAIN @ |->
                            IF q \in Q THEN [@[q] EXCEPT !.status = "failed"] ELSE @[q]],
              !.consecutive = c,
              !.circuit = @ \/ c = Breaker]

AssertionFailure(b) == [b EXCEPT !.consecutive = 0]

(* Mutant of SettleAllPendingAsFailed: only calls without an answer.       *)
SettleUnanswered(b) == FailedCalls(b, Among(b, Kinds, {"pending"}))

SettleAllPendingAsFailed(b) == FailedCalls(b, Among(b, Kinds, Open))

(***************************************************************************)
(* Diagnostics.  An error is known by its class: the runner's own ones     *)
(* (circuit, budget, batch, call), a ProtocolValidationError (protocol;    *)
(* both timeouts are one too), a ModelOutputValidationError (schema), an   *)
(* LlmError with an allowed provider code (coded), any other (other).      *)
(***************************************************************************)
OutputStages == {"task_output_validation", "acquisition_output_validation"}

ClassifyFailure(err, stage) ==
    LET As(st, category) == [stage |-> st, category |-> category] IN
    IF err \in {"protocol", "batch", "call"} THEN As("runner_protocol", "runner_protocol_error")
    ELSE IF err = "schema" \/ stage \in OutputStages THEN As(stage, "model_output_schema_error")
    ELSE IF err = "coded" THEN As("provider_stream", "of_code")
    ELSE IF stage = "provider_stream" THEN As(stage, "unknown_provider_error")
    ELSE As("runner_protocol", "runner_protocol_error")

Diagnostic(b, q, err, stage) ==
    [sequence |-> q, call_kind |-> b.claims[q].kind, of |-> ClassifyFailure(err, stage)]

ValidDiagnostic(d) ==
    /\ d.call_kind \in Kinds
    /\ d.of.category = "of_code" => d.of.stage = "provider_stream"
    /\ d.of.category = "model_output_schema_error" => d.of.stage \in OutputStages
    /\ d.of.category = "runner_protocol_error" => d.of.stage = "runner_protocol"

(* onFail: a call that is settled already makes failedCall throw, before   *)
(* the diagnostic is recorded.                                             *)
OnFail(b, q, err, stage) ==
    IF b.claims[q].status \notin Open THEN b
    ELSE [FailedCalls(b, {q}) EXCEPT !.diagnostics = @ \cup {Diagnostic(b, q, err, stage)}]

(* What the runner's catch does: every call still open fails, and a call   *)
(* without a diagnostic and without a receipt gets one.                    *)
Settle(b, receipted) ==
    LET s    == SettleAllPendingAsFailed(b)
        left == (DOMAIN b.claims \ receipted) \ {d.sequence : d \in b.diagnostics}
    IN [s EXCEPT !.diagnostics = @ \cup {Diagnostic(b, q, "protocol", "runner_protocol") : q \in left}]

(***************************************************************************)
(* The receipt of a run.  Evidence is what the run's session showed: the   *)
(* tools that were called, whether a recall was injected, and which        *)
(* memories the model saw.                                                 *)
(***************************************************************************)
Evidence == [tools : {"fixture", "fixture_search_open", "other"}, recalled : BOOLEAN,
             opened : {"none", "allowed", "forbidden"}]

EvidenceFits(run, ev) ==
    LET recovery == run.task = "task_build_recovery" IN
    /\ ev.tools = IF recovery /\ run.group = "tool_only" THEN "fixture_search_open" ELSE "fixture"
    /\ ev.recalled = (recovery /\ run.group = "auto_inject")
    /\ ev.opened # "forbidden"
    /\ (~recovery \/ run.group = "no_memory") => ev.opened = "none"
    /\ (recovery /\ run.group = "tool_only") => ev.opened = "allowed"

Receipt(n, numbers, ev) == [run |-> Runs[n], claim_sequence |-> numbers, evidence |-> ev]

ValidReceipt(r) ==
    /\ Len(r.claim_sequence) - 1 \in 1 .. TaskCalls
    /\ \A i \in 2 .. Len(r.claim_sequence) : r.claim_sequence[i] = r.claim_sequence[i - 1] + 1
    /\ EvidenceFits(r.run, r.evidence)

ClaimSequences(rs) == FlattenSeq([i \in DOMAIN rs |-> rs[i].claim_sequence])
Receipted(rs)      == {ClaimSequences(rs)[i] : i \in DOMAIN ClaimSequences(rs)}

(***************************************************************************)
(* The summary.                                                            *)
(***************************************************************************)
Reasons ==
    [fail  |-> {"protocol_error", "call_timeout", "batch_timeout", "budget_exhausted",
                "circuit_open", "credential_unavailable"},
     abort |-> {"isolation_error", "cleanup_failed", "claim_conflict", "unauthorized", "expired"}]

StatusOf(receipts, reason, clean) ==
    CASE Len(receipts) = Len(Runs) /\ reason = "none" /\ clean -> "pass"
      [] reason \in Reasons.abort -> "aborted"
      [] OTHER -> "fail"

Summary(b, receipts, reason, clean) ==
    [status |-> StatusOf(receipts, reason, clean), receipts |-> receipts, reason |-> reason,
     clean |-> clean, diagnostics |-> b.diagnostics, consecutive |-> b.consecutive,
     task |-> Cardinality(Among(b, {"task"}, Statuses)),
     acquisition |-> Cardinality(Among(b, {"acquisition"}, Statuses)),
     completed |-> Cardinality(Among(b, Kinds, {"completed"})),
     failed |-> Cardinality(Among(b, Kinds, {"failed"}))]

(* The calls the diagnostics name, against those the receipts leave over.  *)
DiagnosticsFit(s) ==
    LET Of(kind)    == {d \in s.diagnostics : d.call_kind = kind}
        leftTask    == s.task - (Len(ClaimSequences(s.receipts)) - Len(s.receipts))
        leftAcquire == s.acquisition - Len(s.receipts)
        total       == s.task + s.acquisition
    IN  /\ Cardinality(s.diagnostics) = s.failed
        /\ \A d \in s.diagnostics : ValidDiagnostic(d)
        /\ {d.sequence : d \in s.diagnostics} = (s.completed + 1) .. total
        /\ Cardinality(Of("task")) = leftTask
        /\ Cardinality(Of("acquisition")) = leftAcquire
        /\ leftAcquire <= 1
        /\ \A d \in Of("acquisition") : d.sequence = total
        /\ s.status = "pass" => s.diagnostics = {}

LedgerFits(s) ==
    /\ s.task <= PLAN_LIMITS.task /\ s.acquisition <= PLAN_LIMITS.acquisition
    /\ s.completed + s.failed = s.task + s.acquisition
    /\ s.consecutive <= s.failed
    /\ s.reason = "circuit_open" => s.failed >= 2 /\ s.consecutive = Breaker

StatusFits(s) ==
    CASE s.status = "pass" ->
           /\ s.reason = "none" /\ s.clean /\ Len(s.receipts) = Len(Runs)
           /\ s.failed = 0 /\ s.consecutive = 0 /\ s.acquisition = Len(Runs)
           /\ s.task = Len(ClaimSequences(s.receipts)) - Len(Runs)
      [] s.status = "fail"    -> s.reason \in Reasons.fail
      [] s.status = "aborted" -> s.reason \in Reasons.abort

ValidSummary(s) ==
    /\ LedgerFits(s) /\ DiagnosticsFit(s) /\ StatusFits(s)
    /\ \A i \in DOMAIN s.receipts : ValidReceipt(s.receipts[i]) /\ s.receipts[i].run = Runs[i]
    /\ ClaimSequences(s.receipts) = [i \in 1 .. s.completed |-> i]
=============================================================================
