-------------------------- MODULE HarnessEvidence ---------------------------
(***************************************************************************)
(* What the end-to-end harness (src/src/m07b) believes of a run: the       *)
(* evidence extracted from the events of its session                       *)
(* (business-evidence.js), the snapshot of a project's memory              *)
(* (state-evidence.js), the predicates of the six runs over both           *)
(* (predicates.js), the identities carried from one run to the next, and   *)
(* the report (canary-protocol.js).                                        *)
(*                                                                         *)
(* A memory is named by its source: Short(m) is the fact captured, Long(m) *)
(* the fact it was promoted to.  Hashes are the values they are taken of.  *)
(***************************************************************************)
EXTENDS Naturals, FiniteSets, SequencesExt

Short(m) == [tier |-> "short", m |-> m]
Long(m)  == [tier |-> "long", m |-> m]

-----------------------------------------------------------------------------
(* A project's memory, and the tools of the product as the harness meets   *)
(* them: what a call of a session does to the memory, and what it answers. *)
(* (FactWorld and FactRetrieval have the calls in full; here each is one   *)
(* step of an agent that runs alone.)  own: whose a short-term fact is.    *)

Blank == [short |-> {}, long |-> {}, forget |-> {}, own |-> {}]

OfSession(w, s) == {m \in w.short : <<s, m>> \in w.own}

(* What the compiler puts in the index, and what of it a session is shown. *)
Served(w) ==
    {Short(m) : m \in {n \in w.short \ w.long : Short(n) \notin w.forget}}
    \cup {Long(m) : m \in {n \in w.long : Long(n) \notin w.forget}}

Shown(w, s) == {ref \in Served(w) : ref.tier = "short" => ref.m \in OfSession(w, s)}

Exists(w, s, ref) == ref.m \in IF ref.tier = "short" THEN OfSession(w, s) ELSE w.long

(* A candidate is written unless the session, or a promotion, has it.      *)
Duplicate(w, s, m) == m \in OfSession(w, s) \cup w.long
Remember(w, s, m) ==
    IF Duplicate(w, s, m) THEN w
    ELSE [w EXCEPT !.short = @ \cup {m}, !.own = @ \cup {<<s, m>>}]

Reply(w, status, refs) == [world |-> w, ok |-> TRUE, status |-> status, refs |-> refs]
Error(w) == [Reply(w, "error", {}) EXCEPT !.ok = FALSE]
Written(w, there, new) == Reply(new, IF there THEN "noop" ELSE "created", {})

(* An open follows a search of its session with nothing written between,   *)
(* so the generation of its grant is the one in force.                     *)
Answer(w, s, call) ==
    LET ref == call.ref IN
    CASE call.tool = "status" -> Reply(w, "ready", {})
      [] call.tool \in {"list", "search"} -> Reply(w, "pass", Shown(w, s))
      [] call.tool = "open" -> IF ref \in Shown(w, s) THEN Reply(w, "pass", {ref}) ELSE Error(w)
      [] call.tool = "promote" ->
           IF Exists(w, s, Short(ref.m))
           THEN Written(w, ref.m \in w.long, [w EXCEPT !.long = @ \cup {ref.m}]) ELSE Error(w)
      [] call.tool = "forget" ->
           IF Exists(w, s, ref)
           THEN Written(w, ref \in w.forget, [w EXCEPT !.forget = @ \cup {ref}]) ELSE Error(w)
      [] call.tool = "remember" ->
           Written(w, Duplicate(w, s, ref.m), Remember(w, s, ref.m))
      [] OTHER -> Reply(w, "unknown", {})

-----------------------------------------------------------------------------
(* Evidence: the events of the session folded into executions.  Anything   *)
(* unexpected refuses the whole of it.                                     *)

Tools == {"status", "list", "search", "open", "promote", "forget", "remember"}

Refused == [refused |-> TRUE]

Statuses(tool) ==
    CASE tool = "status" -> {"ready", "degraded", "empty", "unavailable", "invalid", "uninitialized", "disabled"}
      [] tool = "promote" -> {"promoted", "noop"}
      [] tool = "forget" -> {"forgotten", "noop"}
      [] tool = "remember" -> {"created", "noop"}
      [] OTHER -> {"pass"}

(* What is kept of a call and its answer; an error is no answer at all.    *)
Projection(call, reply) ==
    [tool |-> call.tool, id |-> call.id, ref |-> call.ref, grant |-> call.grant, refs |-> reply.refs,
     status |-> CASE reply.status = "created" /\ call.tool = "promote" -> "promoted"
                  [] reply.status = "created" /\ call.tool = "forget" -> "forgotten"
                  [] OTHER -> reply.status]

ValidExecution(exec) == exec.tool \in Tools /\ exec.status \in Statuses(exec.tool)

(* An answer no record can be read from.                                   *)
Unparsed(reply) == ~reply.ok

Start == [pending |-> {}, done |-> {}, execs |-> <<>>, turns |-> 0, bad |-> FALSE]
Bad(acc) == [acc EXCEPT !.bad = TRUE]

Taken(acc, event) ==
    IF event.kind = "call" THEN
        IF event.call.tool \notin Tools \/ event.call.id \in acc.done THEN Bad(acc)
        ELSE [acc EXCEPT !.pending = {c \in @ : c.id # event.call.id} \cup {event.call}]
    ELSE IF event.kind = "end" THEN [acc EXCEPT !.turns = @ + 1]
    ELSE LET mine == {c \in acc.pending : c.id = event.id} IN
         IF mine = {} \/ Unparsed(event.reply) THEN Bad(acc)
         ELSE LET call == CHOOSE c \in mine : TRUE IN
              [acc EXCEPT !.pending = @ \ mine, !.done = @ \cup {event.id},
                          !.execs = Append(@, Projection(call, event.reply))]

Extract(run, session, events) ==
    LET acc[i \in 0 .. Len(events)] ==
          IF i = 0 THEN Start
          ELSE LET a == acc[i - 1] IN IF a.bad THEN a ELSE Taken(a, events[i])
        all == acc[Len(events)]
    IN IF all.bad \/ all.pending # {} \/ (\E i \in DOMAIN all.execs : ~ValidExecution(all.execs[i]))
       THEN Refused
       ELSE [refused |-> FALSE, run |-> run, session |-> session, turns |-> all.turns,
             execs |-> all.execs]

Snapshot(w) ==
    [short |-> w.short, long |-> w.long, forget |-> w.forget, index |-> Served(w),
     current |-> w # Blank]

-----------------------------------------------------------------------------
(* The predicates.  First finds the ordinal of a tool's first call, 0 when *)
(* it was never called.                                                    *)

First(ev, tool) == SelectInSeq(ev.execs, LAMBDA x : x.tool = tool)
FirstWith(ev, tool, status) ==
    SelectInSeq(ev.execs, LAMBDA x : x.tool = tool /\ x.status = status)
InOrder(ordinals) ==
    ordinals[1] > 0 /\ \A i \in 2 .. Len(ordinals) : ordinals[i - 1] < ordinals[i]

SearchOpenBinding(search, open) == open.grant = search.id /\ open.ref \in search.refs

AutomaticCapture(ev, after, target) ==
    /\ ev.turns >= 1 /\ First(ev, "remember") = 0
    /\ target \in after.short
    /\ after.current /\ Short(target) \in after.index

RestartPersistence(ev, target) ==
    LET s == First(ev, "search")
        o == First(ev, "open") IN
    /\ InOrder(<<First(ev, "status"), First(ev, "list"), s, o>>)
    /\ Short(target) \in ev.execs[s].refs
    /\ SearchOpenBinding(ev.execs[s], ev.execs[o]) /\ ev.execs[o].ref = Short(target)

PromotedBy(ev) == ev.execs[FirstWith(ev, "promote", "promoted")].ref.m

(* The promoted memory may be another than the one the run before opened.  *)
Promotion(ev, after, source, target) ==
    LET promotes == SelectSeq(ev.execs, LAMBDA x : x.tool = "promote") IN
    /\ First(ev, "list") > 0 /\ First(ev, "list") < First(ev, "promote") /\ Len(promotes) >= 2
    /\ promotes[1].status = "promoted" /\ promotes[2].status = "noop"
    /\ source \in after.short /\ Short(source) \notin after.index
    /\ target \in after.long /\ Long(target) \in after.index

CrossSessionReading(ev, after, known) ==
    LET s == First(ev, "search")
        o == First(ev, "open") IN
    /\ after.current /\ ev.session # known.session
    /\ InOrder(<<s, o>>)
    /\ ev.execs[o].grant # known.grant
    /\ SearchOpenBinding(ev.execs[s], ev.execs[o])
    /\ ev.execs[o].ref = Long(known.long)

ForgetAndGrantInvalidation(ev, after, target) ==
    /\ InOrder(<<First(ev, "search"), FirstWith(ev, "forget", "forgotten"),
                 FirstWith(ev, "forget", "noop")>>)
    /\ target \in after.long /\ Long(target) \in after.forget
    /\ Long(target) \notin after.index

ScopeIsolation(ev, before, after, other) ==
    /\ before = after
    /\ other.short = {} /\ other.long = {} /\ other.forget = {}

-----------------------------------------------------------------------------
(* The identities, the checks and the report.                              *)

BusinessChecks == <<"automatic_capture", "restart_persistence", "progressive_disclosure",
                    "promotion", "forget_and_grant", "scope_isolation">>
Checks == {"execution_wiring"} \cup Range(BusinessChecks)
NotRun == [c \in Checks |-> "not_run"]
Marked(checks, names, verdict) == [c \in Checks |-> IF c \in names THEN verdict ELSE checks[c]]

Unknown == "unknown"
NoIdentities == [session |-> Unknown, short |-> Unknown, grant |-> Unknown, long |-> Unknown]

OrUnknown(ms) == IF ms = {} THEN {Unknown} ELSE ms

(* The memory a run is judged on: the last short-term fact of the store,   *)
(* or a long-term one that the session, or anybody, promoted.              *)
Targets(run, ev, after, known) ==
    CASE run = "run_1" -> OrUnknown(after.short)
      [] run = "run_3" ->
           OrUnknown(after.long \cap ({known.short} \cup
               IF FirstWith(ev, "promote", "promoted") > 0 THEN {PromotedBy(ev)} ELSE {}))
      [] OTHER -> {Unknown}

(* What each run is judged by, what it adds to the identities, and which   *)
(* checks it decides.                                                      *)
Judgement(run, ev, before, after, other, known, target) ==
    CASE run = "run_1" -> AutomaticCapture(ev, after, target)
      [] run = "run_2" -> RestartPersistence(ev, known.short)
      [] run = "run_3" -> Promotion(ev, after, known.short, target)
      [] run = "run_4" -> CrossSessionReading(ev, after, known)
      [] run = "run_5" -> ForgetAndGrantInvalidation(ev, after, known.long)
      [] run = "run_6" -> ScopeIsolation(ev, before, after, other)

Advance(run, ev, known, target) ==
    CASE run = "run_1" -> [known EXCEPT !.session = ev.session, !.short = target]
      [] run = "run_2" -> [known EXCEPT !.grant = ev.execs[First(ev, "open")].grant]
      [] run = "run_3" -> [known EXCEPT !.long = target]
      [] OTHER -> known

Decides(run) ==
    CASE run = "run_1" -> {"automatic_capture"}
      [] run = "run_2" -> {"restart_persistence", "progressive_disclosure"}
      [] run \in {"run_3", "run_4"} -> {"promotion"}
      [] run = "run_5" -> {"forget_and_grant"}
      [] run = "run_6" -> {"scope_isolation"}

Reasons == {"product_invariant_failed", "dsh_compatibility_failed", "subprocess_timeout",
            "cleanup_failed"}

(* The validators of the two levels, which every report has to pass before *)
(* it is written.                                                          *)
Verdict(r, i) == r.checks[BusinessChecks[i]]

ValidWiringReport(r) ==
    /\ \A i \in 1 .. 6 : Verdict(r, i) = "not_run"
    /\ r.checks["execution_wiring"] = r.status
    /\ r.status = "pass" => r.clean

ValidBusinessReport(r) ==
    /\ \A i, j \in 1 .. 6 : i < j /\ Verdict(r, j) = "pass" => Verdict(r, i) = "pass"
    /\ r.status = "pass" => \A c \in Checks : r.checks[c] = "pass"

ValidReport(r, runs, requests) ==
    /\ r.runs \in 0 .. runs /\ r.requests \in 0 .. requests
    /\ IF r.level = "wiring" THEN ValidWiringReport(r) ELSE ValidBusinessReport(r)
    /\ r.status = "pass" => r.runs = runs /\ r.requests > 0 /\ r.reason = "none"
    /\ r.status = "fail" => r.reason \in Reasons
=============================================================================
