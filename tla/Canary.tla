------------------------------- MODULE Canary -------------------------------
(***************************************************************************)
(* The real canary of the evaluation (src/src/m05d2/runner.ts): executions *)
(* that spend an approved budget of calls to a paid provider.  An          *)
(* execution validates what it was given, spends its approval with a claim *)
(* on disk, makes a temporary root, opens the provider and runs each task: *)
(* an agent calls the provider some times, then one acquisition call.      *)
(* Every call is claimed in the ledger first.  Each finished run leaves a  *)
(* receipt on disk, and the execution a summary.                           *)
(*                                                                         *)
(* Executions are calls of runRealCanaryD2, in processes of their own, that*)
(* share one persistence root.  A process may die at any step.             *)
(***************************************************************************)
EXTENDS CanaryLedger, CanaryApproval

CONSTANTS
    Execution,  \* calls of runRealCanaryD2
    World,      \* what an execution may be given
    None

ASSUME NoneAssumption == None \notin Execution

VARIABLES
    input,       \* what each execution was given
    x,           \* its memory
    claimed,     \* executions whose claims/<execution id>.json is there
    receiptFile, \* receipts/<run id>.json: who wrote it
    summaryFile, \* summary.json: who wrote it, its status and receipts
    isolation,   \* the temporary root of each execution
    callers      \* history: executions that have called the provider

vars == <<input, x, claimed, receiptFile, summaryFile, isolation, callers>>
disk == <<claimed, receiptFile, summaryFile, isolation>>

(* fault: what the run's timeoutState remembers; orphan: a stream that is  *)
(* still open although its run has ended.                                  *)
Blank(pc) ==
    [pc |-> pc, run |-> 1, book |-> EmptyBook, receipts |-> <<>>, current |-> <<>>,
     fault |-> "none", err |-> "none", reason |-> "none", late |-> FALSE,
     batchFirst |-> FALSE, answered |-> FALSE, orphan |-> 0, clean |-> FALSE]

Init ==
    /\ input \in [Execution -> World]
    /\ x = [e \in Execution |-> Blank("idle")]
    /\ claimed = {}
    /\ receiptFile = [n \in DOMAIN Runs |-> None]
    /\ summaryFile = None
    /\ isolation = [e \in Execution |-> "absent"]
    /\ callers = {}

Live(e) == x[e].pc \notin {"idle", "refused", "ended", "crashed"}
At(e, pc) == x[e].pc = pc
Set(e, s) == x' = [x EXCEPT ![e] = s]
Goto(s, pc) == [s EXCEPT !.pc = pc]
End(e, pc) == Set(e, Blank(pc))
Throw(s, err, pc) == [s EXCEPT !.err = err, !.pc = pc]

(***************************************************************************)
(* Before anything is spent.                                               *)
(***************************************************************************)
Validate(e) ==
    /\ At(e, "idle")
    /\ IF WorldHolds(input[e]) THEN Set(e, Goto(x[e], "claim")) ELSE End(e, "refused")
    /\ UNCHANGED <<input, disk, callers>>

(* safeWriteFileNoOverwrite: the file is linked in, never over another; it *)
(* may fail before the link, or after it, with the file published.         *)
Outcomes(there) == {"failed"} \cup IF there THEN {} ELSE {"written", "unsynced"}

ClaimExists(id) == \E f \in claimed : ExecutionId(input[f]) = id

PersistClaim(e) ==
    /\ At(e, "claim")
    /\ \E o \in Outcomes(ClaimExists(ExecutionId(input[e]))) :
         /\ claimed' = IF o = "failed" THEN claimed ELSE claimed \cup {e}
         /\ IF o = "written" THEN Set(e, Goto(x[e], "isolate")) ELSE End(e, "refused")
    /\ UNCHANGED <<input, receiptFile, summaryFile, isolation, callers>>

(* The root must not exist; a failure may leave a part of it.              *)
PrepareIsolation(e) ==
    /\ At(e, "isolate")
    /\ \/ /\ isolation' = [isolation EXCEPT ![e] = "present"]
          /\ Set(e, Goto(x[e], "bridge"))
       \/ /\ \E left \in {"absent", "present"} : isolation' = [isolation EXCEPT ![e] = left]
          /\ End(e, "ended")
    /\ UNCHANGED <<input, claimed, receiptFile, summaryFile, callers>>

(* The bridge is made outside the runner's try: when the provider's plugin *)
(* throws, the temporary root stays and no summary is written.  The        *)
(* fixtures are loaded inside it: when that throws, what was made is       *)
(* cleaned up, and there is no summary either.                             *)
OpenBridge(e) ==
    /\ At(e, "bridge")
    /\ \/ Set(e, Goto(x[e], "head"))
       \/ Set(e, [x[e] EXCEPT !.reason = "credential_unavailable", !.pc = "finally"])
       \/ Set(e, Goto(x[e], "abandon"))
       \/ End(e, "ended")
    /\ UNCHANGED <<input, disk, callers>>

Abandon(e) ==
    /\ At(e, "abandon") /\ End(e, "ended")
    /\ isolation' \in {isolation, [isolation EXCEPT ![e] = "absent"]}
    /\ UNCHANGED <<input, claimed, receiptFile, summaryFile, callers>>

(***************************************************************************)
(* The runs.                                                               *)
(***************************************************************************)
Stop(s, reason) == [s EXCEPT !.reason = reason, !.pc = "finally"]

Head_(s) ==
    IF s.run > Len(Runs) THEN Goto(s, "finally")
    ELSE IF s.late THEN Stop(s, "batch_timeout")
    ELSE IF s.book.circuit THEN Stop(s, "circuit_open")
    ELSE [s EXCEPT !.pc = "agent", !.current = <<>>, !.fault = "none",
                   !.answered = FALSE, !.orphan = 0]

NextRun(e) ==
    /\ At(e, "head") /\ Set(e, Head_(x[e]))
    /\ UNCHANGED <<input, disk, callers>>

(* The run cannot be set up: a plugin throws, or nothing can be recalled.  *)
SetupFails(e) ==
    /\ At(e, "agent") /\ x[e].current = <<>>
    /\ Set(e, Throw(x[e], "protocol", "dispose"))
    /\ UNCHANGED <<input, disk, callers>>

Number(s) == Len(s.book.claims) + 1

(* A new claim, and a call under it with the shorter of two timers.        *)
BeginCall(e, s, kind, pc) ==
    \E first \in BOOLEAN :
      /\ Set(e, [s EXCEPT !.book = Claim(@, kind), !.current = Append(@, Number(s)),
                          !.batchFirst = first, !.pc = pc])
      /\ callers' = callers \cup {e}

(* ClaimingTaskAdapter.stream, up to the claim.  What is thrown before the *)
(* claim ends the agent's turn; only a batch timeout is remembered.        *)
StreamTask(e) ==
    /\ At(e, "agent")
    /\ LET s == x[e] IN
       IF s.fault # "none" \/ s.late
       THEN /\ Set(e, [s EXCEPT !.pc = "idled", !.fault = IF @ = "none" THEN "batch" ELSE @])
            /\ UNCHANGED callers
       ELSE IF Len(s.current) >= TaskCalls \/ ~Claimable(s.book, "task")
       THEN Set(e, Goto(s, "idled")) /\ UNCHANGED callers
       ELSE BeginCall(e, s, "task", "call")
    /\ UNCHANGED <<input, disk>>

(* The provider answers: with tool calls, after which the agent calls      *)
(* again, or with the text that ends its turn.                             *)
TaskAnswered(e) ==
    /\ At(e, "call")
    /\ \E text \in BOOLEAN :
         Set(e, [x[e] EXCEPT !.book = TransportFinished(@, Last(x[e].current)),
                             !.answered = text, !.pc = IF text THEN "idled" ELSE "agent"])
    /\ UNCHANGED <<input, disk, callers>>

Failures == {"coded", "protocol", "other"}

TaskFails(e) ==
    /\ At(e, "call")
    /\ \E err \in Failures :
         Set(e, [x[e] EXCEPT !.book = OnFail(@, Last(x[e].current), err, "provider_stream"),
                             !.fault = err, !.pc = "idled"])
    /\ UNCHANGED <<input, disk, callers>>

(* The call's timer runs out; when the batch's end is nearer, it is that.  *)
TimerError(s) == IF s.batchFirst THEN "batch" ELSE "call"

TaskTimesOut(e) ==
    /\ At(e, "call")
    /\ LET s == x[e] IN
       Set(e, [s EXCEPT !.book = OnFail(@, Last(s.current), TimerError(s), "provider_stream"),
                        !.fault = TimerError(s), !.late = @ \/ s.batchFirst, !.pc = "idled"])
    /\ UNCHANGED <<input, disk, callers>>

(* whenIdle has its own timer; the stream the agent was reading stays open.*)
IdleTimesOut(e) ==
    /\ x[e].pc \in {"agent", "call"} /\ x[e].late
    /\ Set(e, [Throw(x[e], "batch", "dispose") EXCEPT
                  !.orphan = IF At(e, "call") THEN Last(x[e].current) ELSE 0])
    /\ UNCHANGED <<input, disk, callers>>

OrphanEnds(e) ==
    /\ x[e].orphan # 0
    /\ LET s == x[e]
           q == s.orphan
           finished == IF s.book.claims[q].status = "pending" THEN TransportFinished(s.book, q)
                       ELSE s.book
       IN \E b \in {finished} \cup {OnFail(s.book, q, err, "provider_stream") : err \in Failures} :
            Set(e, [s EXCEPT !.book = b, !.orphan = 0])
    /\ UNCHANGED <<input, disk, callers>>

(* The agent is idle: the fault the run remembers, then what its session   *)
(* shows, then the answer, are checked, and the acquisition call begins.   *)
Judge(e) ==
    /\ At(e, "idled")
    /\ LET s == x[e] IN
       \/ /\ s.fault # "none"
          /\ Set(e, Throw(s, s.fault, "dispose")) /\ UNCHANGED callers
       \/ /\ s.fault = "none"
          /\ Set(e, Throw(s, "protocol", "dispose")) /\ UNCHANGED callers
       \/ /\ s.fault = "none" /\ s.current # <<>>
          /\ Set(e, [Throw(s, "schema", "dispose") EXCEPT
                       !.book = OnFail(@, Last(s.current), "schema", "task_output_validation")])
          /\ UNCHANGED callers
       \/ /\ s.fault = "none" /\ s.answered
          /\ IF s.late THEN Set(e, Throw(s, "batch", "dispose")) /\ UNCHANGED callers
             ELSE IF ~Claimable(s.book, "acquisition")
             THEN /\ Set(e, Throw(s, IF s.book.circuit THEN "circuit" ELSE "budget", "dispose"))
                  /\ UNCHANGED callers
             ELSE BeginCall(e, s, "acquisition", "acquire")
    /\ UNCHANGED <<input, disk>>

Acquired(e) ==
    /\ At(e, "acquire")
    /\ Set(e, [x[e] EXCEPT !.book = AssertionFailure(TransportFinished(@, Last(x[e].current))),
                           !.pc = "dispose"])
    /\ UNCHANGED <<input, disk, callers>>

AcquisitionFails(e, err) ==
    LET s     == x[e]
        stage == IF err = "schema" THEN "acquisition_output_validation" ELSE "provider_stream"
    IN Set(e, [Throw(s, err, "dispose") EXCEPT !.book = OnFail(@, Last(s.current), err, stage),
                                               !.late = @ \/ err = "batch"])

AcquireFails(e) ==
    /\ At(e, "acquire") /\ \E err \in Failures \cup {"schema"} : AcquisitionFails(e, err)
    /\ UNCHANGED <<input, disk, callers>>

AcquireTimesOut(e) ==
    /\ At(e, "acquire") /\ AcquisitionFails(e, TimerError(x[e]))
    /\ UNCHANGED <<input, disk, callers>>

(* The finally of a run: its plugins and its agent loop are disposed of.   *)
DisposeRun(e) ==
    /\ At(e, "dispose")
    /\ \/ Set(e, Goto(x[e], IF x[e].err = "none" THEN "receipt" ELSE "caught"))
       \/ Set(e, Throw(x[e], "other", "caught"))
    /\ UNCHANGED <<input, disk, callers>>

(* The receipt is built, checked and published; only then its calls count  *)
(* as completed.                                                           *)
PersistReceipt(e) ==
    /\ At(e, "receipt")
    /\ \E ev \in Evidence, o \in Outcomes(receiptFile[x[e].run] # None) :
         LET s == x[e]
             r == Receipt(s.run, s.current, ev)
             Q == {s.current[i] : i \in DOMAIN s.current}
         IN IF ~ValidReceipt(r) \/ o = "failed"
            THEN Set(e, Throw(s, "protocol", "caught")) /\ UNCHANGED receiptFile
            ELSE /\ receiptFile' = [receiptFile EXCEPT ![s.run] = e]
                 /\ IF o = "unsynced" THEN Set(e, Throw(s, "protocol", "caught"))
                    ELSE LET t == [s EXCEPT !.receipts = Append(@, r),
                                            !.book = CompleteCalls(@, Q)]
                         IN Set(e, IF Completable(s.book, Q) = Q
                                   THEN [t EXCEPT !.run = @ + 1, !.pc = "head"]
                                   ELSE Throw(t, "protocol", "caught"))
    /\ UNCHANGED <<input, claimed, summaryFile, isolation, callers>>

ReasonOf(s) ==
    CASE s.err = "circuit" -> "circuit_open"
      [] s.err = "budget"  -> "budget_exhausted"
      [] s.err = "batch"   -> "batch_timeout"
      [] s.err = "call"    -> "call_timeout"
      [] OTHER -> IF s.book.circuit THEN "circuit_open" ELSE "protocol_error"

Catch(e) ==
    /\ At(e, "caught")
    /\ LET s == [x[e] EXCEPT !.book = Settle(@, Receipted(x[e].receipts))]
       IN Set(e, Stop(s, ReasonOf(s)))
    /\ UNCHANGED <<input, disk, callers>>

(***************************************************************************)
(* The end: the provider and the temporary root go, and the summary is     *)
(* checked and published.                                                  *)
(***************************************************************************)
CleanUp(e) ==
    /\ At(e, "finally")
    /\ \E disposed, removed \in BOOLEAN :
         /\ isolation' = [isolation EXCEPT ![e] = IF removed THEN "absent" ELSE @]
         /\ Set(e, [x[e] EXCEPT
                      !.reason = IF @ = "none" /\ ~(disposed /\ removed) THEN "cleanup_failed" ELSE @,
                      !.clean = disposed /\ removed, !.pc = "summary"])
    /\ UNCHANGED <<input, claimed, receiptFile, summaryFile, callers>>

SummaryOf(s) == Summary(s.book, s.receipts, s.reason, s.clean)

PersistSummary(e) ==
    /\ At(e, "summary")
    /\ \E o \in Outcomes(summaryFile # None) :
         summaryFile' = IF o # "failed" /\ ValidSummary(SummaryOf(x[e]))
                        THEN [by |-> e, status |-> SummaryOf(x[e]).status,
                              receipts |-> DOMAIN x[e].receipts] ELSE summaryFile
    /\ End(e, "ended")
    /\ UNCHANGED <<input, claimed, receiptFile, isolation, callers>>

(* Time passes to the batch's deadline, at any moment of an execution.     *)
BatchElapses(e) ==
    /\ Live(e) /\ x[e].pc \notin {"claim", "isolate", "bridge", "abandon", "finally", "summary"}
    /\ ~x[e].late
    /\ Set(e, [x[e] EXCEPT !.late = TRUE])
    /\ UNCHANGED <<input, disk, callers>>

Crash(e) ==
    /\ Live(e) /\ End(e, "crashed")
    /\ UNCHANGED <<input, disk, callers>>

Own(e) ==
    \/ Validate(e) \/ PersistClaim(e) \/ PrepareIsolation(e) \/ OpenBridge(e) \/ Abandon(e)
    \/ NextRun(e) \/ Judge(e) \/ DisposeRun(e) \/ PersistReceipt(e) \/ Catch(e) \/ CleanUp(e)
    \/ PersistSummary(e)

Agent(e) ==
    SetupFails(e) \/ StreamTask(e) \/ TaskAnswered(e) \/ TaskFails(e) \/ Acquired(e)
    \/ AcquireFails(e) \/ OrphanEnds(e)

(* Mutant of Timers: nothing ends the wait for the agent.                  *)
CallTimersOnly(e) == TaskTimesOut(e) \/ AcquireTimesOut(e)

Timers(e) == TaskTimesOut(e) \/ IdleTimesOut(e) \/ AcquireTimesOut(e)

Next == \E e \in Execution : Own(e) \/ Agent(e) \/ Timers(e) \/ BatchElapses(e) \/ Crash(e)

Fairness ==
    \A e \in Execution : WF_vars(Own(e)) /\ WF_vars(Timers(e)) /\ WF_vars(BatchElapses(e))

Spec == Init /\ [][Next]_vars /\ Fairness

(***************************************************************************)
(* Properties.                                                             *)
(***************************************************************************)
(* Whatever failed, in the provider, in a run or on the disk, and in which *)
(* order, the summary the execution builds passes the check it must pass   *)
(* to be published: no call that was claimed is missing from its receipts  *)
(* and diagnostics (runner.ts:1881-1912).                                  *)
SummaryAccepted == \A e \in Execution : At(e, "summary") => ValidSummary(SummaryOf(x[e]))

(* What the disk says of the spending holds, over crashes, concurrent and  *)
(* repeated executions: the provider was called only under the approval's  *)
(* claim, by one execution of each approval and only with an approval in   *)
(* force; a summary's receipts are those files its execution wrote, at most*)
(* one more receipt is its own, and a pass left no temporary root.         *)
DiskAccounts ==
    /\ \A e \in callers : e \in claimed /\ WorldHolds(input[e])
    /\ \A e, f \in callers : input[e].approval = input[f].approval => e = f
    /\ summaryFile # None =>
         LET s   == summaryFile
             own == {n \in DOMAIN Runs : receiptFile[n] = s.by}
         IN /\ s.receipts \subseteq own /\ own \subseteq 1 .. Cardinality(s.receipts) + 1
            /\ s.status = "pass" => isolation[s.by] = "absent" /\ own = DOMAIN Runs

(* An execution that starts ends, even if the provider and the agent never *)
(* answer: the timers of the call and of the batch end every wait.         *)
ExecutionsEnd == \A e \in Execution : Live(e) ~> ~Live(e)
=============================================================================
