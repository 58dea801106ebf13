------------------------------ MODULE Harness -------------------------------
(***************************************************************************)
(* The end-to-end canary harness (src/src/m07b): a root prepared for one   *)
(* plan, an approval that one execution may spend, six runs of the agent,  *)
(* each a process group of its own, the evidence they leave under the      *)
(* root, a report, and the removal of the root.                            *)
(*                                                                         *)
(* The harness process, its child and the child's streams run on their     *)
(* own; all they share is the disk.  A child is detached: it outlives a    *)
(* harness that dies, and may outlive an attempt to kill it.  The agent    *)
(* may load only some of the patches, whatever it was asked to.            *)
(***************************************************************************)
EXTENDS HarnessLedger, HarnessEvidence

CONSTANTS
    Execution,      \* calls of executeCanary, each in a process of its own
    Stream,         \* streams a child may have open at once
    Input,          \* what an execution is asked: an approval and a level
    Plans(_, _),    \* what the agent of a run may do; what it was asked to comes first
    Thing,          \* what the manifest seals and a precheck compares
    MaxTrouble,     \* bound: deaths, survivors, failures, tampering, disobedience, passed by
    None

Runs == <<"run_1", "run_2", "run_3", "run_4", "run_5", "run_6">>
Resumed(i) == Runs[i] \in {"run_2", "run_3"}
ProjectOf(i) == IF Runs[i] = "run_6" THEN "b" ELSE "a"

(* An agent calls the tool that promotes with a short-term memory.         *)
ASSUME HarnessAssumption ==
    /\ MaxRequests \in Nat
    /\ None \notin Execution \X Range(Runs)
    /\ \A input \in Input : input.level \in {"wiring", "business"}
    /\ \A input \in Input, n \in Range(Runs) : \A i \in DOMAIN Plans(input.level, n) :
          LET todo == Plans(input.level, n)[i].todo IN
          /\ todo \in Seq(Range(todo))
          /\ \A t \in Range(todo) : t.tool = "promote" => t.ref = Short(t.ref.m)

VARIABLES
    asked,     \* the input of each execution
    disk,      \* everything under the root
    tampered,  \* sealed things that changed since they were sealed
    late,      \* the approval has expired
    x,         \* the memory of each execution
    child,     \* the process group each execution spawned last
    stream,    \* the streams of that process
    calls,     \* history: calls made under each number of the ledger
    trouble

harnessVars == <<asked, disk, tampered, late, x, child, stream, calls, trouble>>

Nothing == [n \in Range(Runs) |-> None]

EmptyDisk == [root |-> "none", approval |-> 1, spent |-> {}, ledger |-> EmptyLedger,
              sidecar |-> {}, resumed |-> Nothing, evidence |-> Nothing,
              log |-> [e \in Execution |-> <<>>],    \* the session of its first run
              memory |-> [p \in {"a", "b"} |-> Blank]]

(* The last three fields are history: whether the root is this execution's *)
(* alone, the requests its runs made (but for those the sidecar passed     *)
(* by), and what the finished ones did.                                    *)
Idle == [pc |-> "idle", at |-> 1, status |-> "pass", reason |-> "none", executed |-> 0,
         requests |-> 0, checks |-> NotRun, known |-> NoIdentities, prior |-> None, report |-> None,
         alone |-> FALSE, made |-> 0, did |-> <<>>]

NoChild == [pc |-> "none", at |-> 1, has |-> {}, session |-> None, asks |-> 0, todo |-> <<>>,
            events |-> <<>>, answered |-> FALSE, due |-> FALSE, code |-> None]

Quiet == [s \in Stream |-> [pc |-> "idle", seq |-> 0]]

HarnessInit ==
    /\ asked \in [Execution -> Input]
    /\ disk = EmptyDisk /\ tampered = {} /\ late = FALSE
    /\ x = [e \in Execution |-> Idle]
    /\ child = [e \in Execution |-> NoChild]
    /\ stream = [e \in Execution |-> Quiet]
    /\ calls = [n \in Seqs |-> 0] /\ trouble = 0

AtStep(e, pc) == x[e].pc = pc
Becomes(e, m) == x' = [x EXCEPT ![e] = m]
Trouble == trouble < MaxTrouble /\ trouble' = trouble + 1

-----------------------------------------------------------------------------
(* Around the executions.                                                  *)

(* Preparation makes the layout and at its very end the plan; one that     *)
(* fails before leaves what it made.                                       *)
PrepareFails ==
    /\ disk.root = "none" /\ (\A e \in Execution : AtStep(e, "idle")) /\ Trouble
    /\ disk' = [disk EXCEPT !.root = "partial"]
    /\ UNCHANGED <<asked, tampered, late, x, child, stream, calls>>

PrepareRoot ==
    /\ disk.root = "none" /\ \A e \in Execution : AtStep(e, "idle")
    /\ disk' = [disk EXCEPT !.root = "ready"]
    /\ UNCHANGED <<asked, tampered, late, x, child, stream, calls, trouble>>

(* Another approval of the same plan is put in place of the first.         *)
Approve ==
    /\ Trouble /\ disk.root = "ready" /\ disk.approval = 1
    /\ disk' = [disk EXCEPT !.approval = 2]
    /\ UNCHANGED <<asked, tampered, late, x, child, stream, calls>>

Tamper(thing) ==
    /\ Trouble /\ thing \notin tampered /\ tampered' = tampered \cup {thing}
    /\ UNCHANGED <<asked, disk, late, x, child, stream, calls>>

Expire ==
    /\ Trouble /\ ~late /\ late' = TRUE
    /\ UNCHANGED <<asked, disk, tampered, x, child, stream, calls>>

-----------------------------------------------------------------------------
(* An execution.                                                           *)

(* Plan, approval, manifest, the files it seals and the credentials are    *)
(* compared before anything is spent.                                      *)
PlanHolds        == "plan" \notin tampered
ApprovalHolds(e) == disk.approval = asked[e].approval
Binding          == ~late
ManifestHolds    == "manifest" \notin tampered
FilesHold        == tampered \cap {"sidecar", "driver"} = {}
CredentialsHold  == "credentials" \notin tampered

Precheck(e) ==
    /\ AtStep(e, "idle") /\ disk.root # "none"
    /\ LET holds == /\ disk.root = "ready" /\ PlanHolds /\ ApprovalHolds(e) /\ Binding
                    /\ ManifestHolds /\ FilesHold /\ CredentialsHold
       IN Becomes(e, [x[e] EXCEPT !.pc = IF holds THEN "claim" ELSE "refused"])
    /\ UNCHANGED <<asked, disk, tampered, late, child, stream, calls, trouble>>

(* One execution spends an approval: the claim is a file of its name.      *)
ClaimApproval(e) ==
    /\ AtStep(e, "claim")
    /\ IF disk.root = "ready" /\ Binding /\ asked[e].approval \notin disk.spent
       THEN /\ disk' = [disk EXCEPT !.spent = @ \cup {asked[e].approval}]
            /\ x' = [o \in Execution |->
                        IF o = e THEN [x[e] EXCEPT !.pc = "next", !.alone = disk.spent = {}]
                        ELSE [x[o] EXCEPT !.alone = FALSE]]
       ELSE Becomes(e, [x[e] EXCEPT !.pc = "refused"]) /\ UNCHANGED disk
    /\ UNCHANGED <<asked, tampered, late, child, stream, calls, trouble>>

Fails(e, reason) ==
    Becomes(e, [x[e] EXCEPT !.pc = "sum", !.status = "fail", !.reason = reason])

(* The head of the loop: the next run is spawned unless there is none, the *)
(* time is over, or its directory is gone.                                 *)
NextRun(e) ==
    /\ AtStep(e, "next")
    /\ IF x[e].at > Len(Runs) THEN Becomes(e, [x[e] EXCEPT !.pc = "sum"]) /\ UNCHANGED <<child, trouble>>
       ELSE \/ Trouble /\ Fails(e, "subprocess_timeout") /\ UNCHANGED child
            \/ /\ disk.root # "ready" /\ Fails(e, "dsh_compatibility_failed")
               /\ UNCHANGED <<child, trouble>>
            \/ /\ disk.root = "ready"
               /\ child' = [child EXCEPT ![e] = [NoChild EXCEPT !.pc = "start", !.at = x[e].at]]
               /\ Becomes(e, [x[e] EXCEPT !.pc = "running"]) /\ UNCHANGED trouble
    /\ UNCHANGED <<asked, disk, tampered, late, stream, calls>>

(* The child closed: its exit code decides.                                *)
RunEnds(e) ==
    /\ AtStep(e, "running") /\ child[e].pc = "over"
    /\ IF child[e].code = 0
       THEN Becomes(e, [x[e] EXCEPT !.pc = "wiring",
                                    !.did = Append(@, [session |-> child[e].session,
                                        has |-> child[e].has, events |-> child[e].events])])
       ELSE Fails(e, "dsh_compatibility_failed")
    /\ UNCHANGED <<asked, disk, tampered, late, child, stream, calls, trouble>>

Closed(e, code) ==
    /\ child' = [child EXCEPT ![e].pc = "over", ![e].code = code]
    /\ stream' = [stream EXCEPT ![e] = Quiet]

(* The timer kills the group, and fails the run whether or not it died.    *)
RunTimesOut(e) ==
    /\ AtStep(e, "running") /\ child[e].pc \in {"start", "live", "closing"} /\ Trouble
    /\ Closed(e, 1) \/ UNCHANGED <<child, stream>>
    /\ Fails(e, "dsh_compatibility_failed")
    /\ UNCHANGED <<asked, disk, tampered, late, calls>>

SameSession(i) ==
    /\ disk.resumed[Runs[i]] # None /\ disk.evidence["run_1"] # None
    /\ disk.resumed[Runs[i]] = disk.evidence["run_1"].session

Receipted(i) == Runs[i] \in disk.sidecar

Counted(e) == [x[e] EXCEPT !.pc = "next", !.at = @ + 1, !.executed = @ + 1]

(* Mutant of Wired: a run without a receipt of the resume driver passes.   *)
WiredUnlessRefuted(i) ==
    /\ Receipted(i)
    /\ Readable(disk.ledger) /\ ClaimsOf(disk.ledger, Runs[i]) # {}
    /\ Resumed(i) /\ disk.resumed[Runs[i]] # None => SameSession(i)

(* The receipts of the patches, and a claim of this run.                   *)
Wired(i) ==
    /\ Receipted(i)
    /\ Readable(disk.ledger) /\ ClaimsOf(disk.ledger, Runs[i]) # {}
    /\ Resumed(i) => SameSession(i)

VerifyWiring(e) ==
    /\ AtStep(e, "wiring")
    /\ IF ~Wired(x[e].at) THEN Fails(e, "dsh_compatibility_failed")
       ELSE Becomes(e, IF asked[e].level = "business" THEN [x[e] EXCEPT !.pc = "judge"] ELSE Counted(e))
    /\ UNCHANGED <<asked, disk, tampered, late, child, stream, calls, trouble>>

(* The business predicate of the run over its evidence and a snapshot.  A *)
(* snapshot of a store that cannot be read throws: the budget is not read. *)
Judge(e) ==
    /\ AtStep(e, "judge")
    /\ LET run   == Runs[x[e].at]
           ev    == disk.evidence[run]
           after == Snapshot(disk.memory["a"])
           other == Snapshot(disk.memory["b"])
           thrown == [x[e] EXCEPT !.pc = "clean", !.status = "fail", !.reason = "product_invariant_failed",
                                  !.checks = Marked(@, {"execution_wiring"}, "fail")]
           decided(verdict) == Marked(x[e].checks, Decides(run), verdict)
       IN \/ ev = None /\ Fails(e, "product_invariant_failed") /\ UNCHANGED trouble
          \/ ev # None /\ Trouble /\ Becomes(e, thrown)
          \/ /\ ev # None /\ UNCHANGED trouble
             /\ \E target \in Targets(run, ev, after, x[e].known) :
                  IF Judgement(run, ev, x[e].prior, after, other, x[e].known, target)
                  THEN Becomes(e, [Counted(e) EXCEPT !.checks = decided("pass"), !.prior = after,
                                       !.known = Advance(run, ev, x[e].known, target)])
                  ELSE Becomes(e, [x[e] EXCEPT !.pc = "sum", !.status = "fail",
                           !.reason = "product_invariant_failed", !.checks = decided("fail")])
    /\ UNCHANGED <<asked, disk, tampered, late, child, stream, calls>>

Reported(m, status, clean, reason) ==
    LET earned == /\ m.executed = Len(Runs) /\ m.requests > 0
                  /\ \A c \in Checks : m.checks[c] = "pass"
        final  == IF m.level = "business" /\ ~earned THEN "fail" ELSE status
    IN [level |-> m.level, runs |-> m.executed, requests |-> m.requests, checks |-> m.checks,
        clean |-> clean, status |-> final,
        reason |-> IF final = "pass" THEN "none"
                   ELSE IF reason \in Reasons THEN reason ELSE "product_invariant_failed"]

(* The budget is read before the root is removed; a ledger that cannot be  *)
(* read fails the execution, and counts no request.                        *)
Sum(e) ==
    /\ AtStep(e, "sum")
    /\ LET readable == Readable(disk.ledger)
           n   == IF readable THEN TotalClaimed(disk.ledger) ELSE 0
           ok  == readable /\ x[e].status = "pass" /\ x[e].executed = Len(Runs) /\ n > 0
           why == IF ok \/ x[e].reason # "none" THEN x[e].reason
                  ELSE IF readable THEN "dsh_compatibility_failed" ELSE "product_invariant_failed"
       IN Becomes(e, [x[e] EXCEPT !.pc = "clean", !.requests = n,
              !.status = IF ok THEN "pass" ELSE "fail", !.reason = why,
              !.checks = Marked(@, {"execution_wiring"}, IF ok THEN "pass" ELSE "fail")])
    /\ UNCHANGED <<asked, disk, tampered, late, child, stream, calls, trouble>>

(* The root is removed by its owner's receipt, which a removal that failed *)
(* half-way may have taken along.                                          *)
Removal(clean) ==
    IF clean THEN disk.root = "ready" /\ disk' = EmptyDisk /\ UNCHANGED trouble
    ELSE IF disk.root = "ready"
         THEN Trouble /\ disk' \in {disk, [disk EXCEPT !.root = "partial"]}
         ELSE UNCHANGED <<disk, trouble>>

CleanUp(e) ==
    /\ AtStep(e, "clean")
    /\ \E clean \in BOOLEAN :
         LET checks == IF clean THEN x[e].checks ELSE Marked(x[e].checks, {"execution_wiring"}, "fail")
             m == [executed |-> x[e].executed, requests |-> x[e].requests, checks |-> checks,
                   level |-> asked[e].level]
         IN /\ Removal(clean)
            /\ Becomes(e, [x[e] EXCEPT !.pc = "done", !.checks = checks, !.report =
                   IF clean THEN Reported(m, x[e].status, TRUE, x[e].reason)
                   ELSE Reported(m, "fail", FALSE, "cleanup_failed")])
    /\ UNCHANGED <<asked, tampered, late, child, stream, calls>>

(* The harness dies; what it spawned lives on.                             *)
Die(e) ==
    /\ x[e].pc \in {"next", "running", "wiring", "judge", "sum", "clean"} /\ Trouble
    /\ Becomes(e, [x[e] EXCEPT !.pc = "dead"])
    /\ UNCHANGED <<asked, disk, tampered, late, child, stream, calls>>

Executes(e) ==
    \/ Precheck(e) \/ ClaimApproval(e) \/ NextRun(e) \/ RunEnds(e) \/ RunTimesOut(e)
    \/ VerifyWiring(e) \/ Judge(e) \/ Sum(e) \/ CleanUp(e) \/ Die(e)

-----------------------------------------------------------------------------
(* The agent of a run, and the two patches in it.                          *)

RunOf(e)  == Runs[child[e].at]
Live(e)   == child[e].pc = "live"
Child(e, c) == child' = [child EXCEPT ![e] = c]
Silent(e) == \A s \in Stream : stream[e][s].pc = "idle"
Over(c, code) == [c EXCEPT !.pc = "over", !.code = code]

(* Every writer makes the directories it needs.                            *)
Made(d) == [d EXCEPT !.root = IF @ = "none" THEN "partial" ELSE @]

SidecarRefused(e) == "sidecar" \in tampered \/ RunOf(e) \in disk.sidecar
DriverRefused(e)  == "driver" \in tampered \/ disk.evidence["run_1"] = None

(* The agent loads the patches it was given, or (tests/m07b) only some;    *)
(* the driver resumes the session of the first run or ends the process,    *)
(* an agent without it starts a session.  A sidecar that refuses may take  *)
(* the agent down or leave it running.                                     *)
Load(e) ==
    /\ child[e].pc = "start"
    /\ LET wanted == IF Resumed(child[e].at) THEN {"sidecar", "driver"} ELSE {"sidecar"}
           plans  == Plans(asked[e].level, RunOf(e))
       IN \E has \in SUBSET wanted, i \in DOMAIN plans :
            LET heard == IF SidecarRefused(e) THEN has \ {"sidecar"} ELSE has
                first == disk.evidence["run_1"].session
                sess  == IF "driver" \in has THEN first ELSE <<e, RunOf(e)>>
                lives == [child[e] EXCEPT !.pc = "live", !.has = heard, !.session = sess,
                            !.asks = plans[i].asks, !.todo = plans[i].todo,
                            !.events = IF "driver" \in has THEN disk.log[first[1]] ELSE <<>>]
            IN /\ has = wanted \/ i = 1
               /\ IF has = wanted /\ i = 1 THEN UNCHANGED trouble ELSE Trouble
               /\ IF disk.root = "none" \/ ("driver" \in has /\ DriverRefused(e))
                  THEN Child(e, Over(child[e], 1))
                  ELSE Child(e, lives) \/ (heard # has /\ Child(e, Over(child[e], 1)))
               /\ disk' = IF "sidecar" \in heard /\ disk.root # "none"
                          THEN [disk EXCEPT !.sidecar = @ \cup {RunOf(e)}] ELSE disk
    /\ UNCHANGED <<asked, tampered, late, x, stream, calls>>

Moves(e, s, pc, n) == stream' = [stream EXCEPT ![e][s] = [pc |-> pc, seq |-> n]]
Counts(e) == Becomes(e, [x[e] EXCEPT !.made = @ + 1])

(* The sidecar passes by what asks for a title or an acquisition, by its   *)
(* purpose, and what mentions either in its text: nothing is claimed, and  *)
(* the model is called.  One of the turn's own may be among them; another  *)
(* changes nothing here.                                                   *)
PassBy(e) ==
    /\ Live(e) /\ child[e].asks > 0 /\ ~child[e].due /\ "sidecar" \in child[e].has
    /\ ~child[e].answered /\ Trouble /\ Child(e, [child[e] EXCEPT !.answered = TRUE])
    /\ UNCHANGED <<asked, disk, tampered, late, x, stream, calls>>

(* Any other request: the ledger is read first, and read whole.  Without a *)
(* sidecar in the agent nothing is claimed.                                *)
Look(e, s) ==
    /\ Live(e) /\ child[e].asks > 0 /\ ~child[e].due /\ stream[e][s].pc = "idle"
    /\ IF "sidecar" \in child[e].has
       THEN /\ IF Readable(disk.ledger) /\ ~CircuitBroken(disk.ledger)
               THEN Moves(e, s, "claim", TotalClaimed(disk.ledger)) ELSE UNCHANGED stream
            /\ disk' = Made(disk) /\ Child(e, [child[e] EXCEPT !.asks = @ - 1]) /\ UNCHANGED x
       ELSE /\ Child(e, [child[e] EXCEPT !.asks = @ - 1, !.answered = TRUE]) /\ Counts(e)
            /\ UNCHANGED <<disk, stream>>
    /\ UNCHANGED <<asked, tampered, late, calls, trouble>>

(* Mutant of Create: the number is the one after those counted.            *)
CreateByCount(e, s) ==
    /\ stream[e][s].pc = "claim"
    /\ IF disk.root = "none" \/ stream[e][s].seq = MaxRequests
       THEN Moves(e, s, "idle", 0) /\ UNCHANGED disk
       ELSE LET n == stream[e][s].seq + 1 IN
            Moves(e, s, "write", n) /\ disk' = [disk EXCEPT !.ledger.claims[n] = Unwritten]
    /\ UNCHANGED <<asked, tampered, late, x, child, calls, trouble>>

(* The lowest number whose file could be created, whoever else creates.    *)
Create(e, s) ==
    /\ stream[e][s].pc = "claim"
    /\ IF disk.root = "none" \/ Free(disk.ledger) = {}
       THEN Moves(e, s, "idle", 0) /\ UNCHANGED disk
       ELSE \E n \in Lowest(Free(disk.ledger)) :
            Moves(e, s, "write", n) /\ disk' = [disk EXCEPT !.ledger.claims[n] = Unwritten]
    /\ UNCHANGED <<asked, tampered, late, x, child, calls, trouble>>

(* The claim is complete, and the model is called.                         *)
Write(e, s) ==
    /\ stream[e][s].pc = "write"
    /\ LET n == stream[e][s].seq IN
       /\ disk' = [disk EXCEPT !.ledger.claims[n] = IF @ = Unwritten THEN RunOf(e) ELSE @]
       /\ calls' = [calls EXCEPT ![n] = @ + 1] /\ Moves(e, s, "called", n)
    /\ Counts(e) /\ UNCHANGED <<asked, tampered, late, child, trouble>>

(* The outcome is recorded once; then the evidence is due.                 *)
Finish(e, s) ==
    /\ stream[e][s].pc = "called"
    /\ \E outcome \in {"completed", "error", "aborted"} :
         /\ IF outcome = "completed" THEN UNCHANGED trouble ELSE Trouble
         /\ disk' = [Made(disk) EXCEPT !.ledger.outcomes[stream[e][s].seq] =
                         IF @ = NoFile THEN outcome ELSE @]
         /\ Child(e, [child[e] EXCEPT !.answered = @ \/ outcome = "completed", !.due = TRUE])
    /\ Moves(e, s, "idle", 0)
    /\ UNCHANGED <<asked, tampered, late, x, calls>>

(* The agent does the next thing: a capture in the background of the       *)
(* product, the end of its turn, or a call of a tool and its result.       *)
Step(e) ==
    /\ Live(e) /\ Silent(e) /\ child[e].answered /\ ~child[e].due /\ child[e].todo # <<>>
    /\ LET todo  == Head(child[e].todo)
           p     == ProjectOf(child[e].at)
           reply == Answer(disk.memory[p], child[e].session, todo)
           after == [child[e] EXCEPT !.todo = Tail(@)]
       IN CASE todo.tool = "capture" ->
                 /\ disk' = [disk EXCEPT !.memory[p] = Remember(@, child[e].session, todo.ref.m)]
                 /\ Child(e, after)
            [] todo.tool = "end" ->
                 /\ Child(e, [after EXCEPT !.due = "sidecar" \in child[e].has,
                                          !.events = Append(@, [kind |-> "end"])])
                 /\ UNCHANGED disk
            [] OTHER ->
                 /\ disk' = [disk EXCEPT !.memory[p] = reply.world]
                 /\ Child(e, [after EXCEPT !.events = @ \o <<[kind |-> "call", call |-> todo],
                        [kind |-> "result", id |-> todo.id, reply |->
                            [ok |-> reply.ok, status |-> reply.status, refs |-> reply.refs]]>>])
    /\ UNCHANGED <<asked, tampered, late, x, stream, calls, trouble>>

(* Evidence of the whole session so far, if it can be extracted; what was  *)
(* written before stands otherwise, and nobody is told.                    *)
Evident(e, d) ==
    LET ev == Extract(RunOf(e), child[e].session, child[e].events) IN
    IF ev.refused THEN d ELSE [Made(d) EXCEPT !.evidence[RunOf(e)] = ev]

Flush(e) ==
    /\ Live(e) /\ child[e].due
    /\ \/ disk' = Evident(e, disk) /\ UNCHANGED trouble
       \/ Trouble /\ UNCHANGED disk
    /\ Child(e, [child[e] EXCEPT !.due = FALSE])
    /\ UNCHANGED <<asked, tampered, late, x, stream, calls>>

(* The session is kept with the product's own files.                       *)
Logged(e, d) ==
    IF child[e].session = None \/ d.root = "none" \/ child[e].session[2] # "run_1" THEN d
    ELSE [d EXCEPT !.log[child[e].session[1]] = child[e].events]

Finished(e) == Live(e) /\ Silent(e) /\ ~child[e].due /\ child[e].answered /\ child[e].todo = <<>>

(* The driver writes the evidence once more, then its receipt, once.       *)
Receipt(e) ==
    /\ Finished(e) /\ "driver" \in child[e].has
    /\ LET d == Logged(e, Evident(e, disk)) IN
       IF d.resumed[RunOf(e)] # None THEN disk' = d /\ Child(e, Over(child[e], 1))
       ELSE /\ disk' = [Made(d) EXCEPT !.resumed[RunOf(e)] = child[e].session]
            /\ Child(e, [child[e] EXCEPT !.pc = "closing"])
    /\ UNCHANGED <<asked, tampered, late, x, stream, calls, trouble>>

(* The process ends: well when it did everything, either way when its      *)
(* requests were refused, and badly at any time.                           *)
Exit(e) ==
    /\ child[e].pc \in {"live", "closing"}
    /\ LET refused == Live(e) /\ Silent(e) /\ child[e].asks = 0 /\ ~child[e].answered
           done == \/ child[e].pc = "closing"
                   \/ Finished(e) /\ "driver" \notin child[e].has
       IN \/ (done \/ refused) /\ Closed(e, 0) /\ UNCHANGED trouble
          \/ refused /\ Closed(e, 1) /\ UNCHANGED trouble
          \/ Trouble /\ Closed(e, 1)
    /\ disk' = Logged(e, disk)
    /\ UNCHANGED <<asked, tampered, late, x, calls>>

Agent(e) ==
    \/ Load(e) \/ Step(e) \/ Flush(e) \/ Receipt(e) \/ Exit(e) \/ PassBy(e)
    \/ \E s \in Stream : Look(e, s) \/ Create(e, s) \/ Write(e, s) \/ Finish(e, s)

-----------------------------------------------------------------------------
HarnessNext ==
    \/ PrepareFails \/ PrepareRoot \/ Approve \/ Expire \/ \E thing \in Thing : Tamper(thing)
    \/ \E e \in Execution : Executes(e) \/ Agent(e)

HarnessSpec == HarnessInit /\ [][HarnessNext]_harnessVars

-----------------------------------------------------------------------------
(* While the root stands, every number of the ledger serves at most one    *)
(* call to a model, whichever processes and streams claim at once; a call  *)
(* made under a number has a claim that names a run, an outcome has a      *)
(* call, and so no more than MaxRequests calls are ever made under the     *)
(* ledger (claimLlmRequest, recordLlmOutcome).  Nothing is said of calls   *)
(* made without a number: those the sidecar passes by, and those of an     *)
(* agent that runs without it.                                             *)
BudgetHolds ==
    disk.root = "ready" =>
        \A n \in Seqs :
            /\ calls[n] <= 1
            /\ calls[n] = 1 => disk.ledger.claims[n] \in Range(Runs)
            /\ disk.ledger.outcomes[n] # NoFile => calls[n] = 1

Asked(did, tool, ref) ==
    \E i \in DOMAIN did.events : LET ev == did.events[i] IN
        ev.kind = "call" /\ ev.call.tool = tool /\ ev.call.ref = ref

(* Every report is one its validator accepts; and where one execution had  *)
(* the root to itself, a report that passes was earned: the sidecar was in *)
(* all six runs, the resumed ones went on in the session of the first,     *)
(* every request the runs made is counted but those the sidecar passes by  *)
(* (audit-sidecar.js 149-159), and at the business level one memory was    *)
(* opened in the resumed session, and one promoted in it was opened in     *)
(* another session, and forgotten there or in the next: the fifth run is   *)
(* not asked which memory it forgot (executeCanary, predicates.js 371-396).*)
PassEarned ==
    \A e \in Execution : LET r == x[e].report
                             did == x[e].did IN
        r # None =>
            /\ ValidReport(r, Len(Runs), MaxRequests)
            /\ r.status = "pass" /\ x[e].alone =>
                 /\ Len(did) = Len(Runs) /\ r.requests = x[e].made
                 /\ \A i \in DOMAIN did : "sidecar" \in did[i].has
                 /\ \A i \in DOMAIN did : Resumed(i) => did[i].session = did[1].session
                 /\ r.level = "business" =>
                      /\ \E ref \in x[e].prior.short : Asked(did[2], "open", Short(ref))
                      /\ did[4].session # did[1].session
                      /\ \E m \in x[e].prior.long :
                            /\ Asked(did[3], "promote", Short(m)) /\ Asked(did[4], "open", Long(m))
                            /\ \E i \in {4, 5} : Asked(did[i], "forget", Long(m))
=============================================================================
