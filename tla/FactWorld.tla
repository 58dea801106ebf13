------------------------------ MODULE FactWorld ------------------------------
(***************************************************************************)
(* The first-generation memory of a project: calls that remember, promote  *)
(* and forget (src/src/candidate-writer.ts, management-runtime.ts), the    *)
(* immutable facts they add to the store (memory-store.ts), and the        *)
(* compiler that turns all facts into a generation and switches CURRENT to *)
(* it (okf-compiler.ts, generation-store.ts).                              *)
(*                                                                         *)
(* A fact is named by the call that remembered it: its identity is a hash  *)
(* of the call's event and of the content, so no two calls write the same  *)
(* short-term fact.  The promotion of a fact has an identity derived from  *)
(* the fact's.  FactStore shows that a write of one file is atomic; here   *)
(* it is one step.  CompilerLock shows what the lock does; here it is free *)
(* again when its owner has died.                                          *)
(***************************************************************************)
EXTENDS Naturals, FiniteSets

CONSTANTS
    Call,           \* tool calls, and turns captured automatically
    SessionOf,      \* the session of each call
    CoordinatorOf,  \* the mutation coordinator it runs under, one per process
    Work,           \* Work[c]: what the call may be asked to do
    TTL,            \* SEVEN_DAYS_MS, in the units of `at'
    None,
    MaxFailures     \* bound: file operations that fail, and processes that die

Tier == {"short_term", "long_term"}
Ref  == Tier \X Call
Task == [kind : {"remember", "promote", "forget"}, at : Nat, content : STRING, target : Ref]
Generation == [at : Nat, short : SUBSET Call, long : SUBSET Call]
Session == {SessionOf[c] : c \in Call}

ASSUME WorkAssumption == Work \in [Call -> SUBSET Task]
ASSUME NoneAssumption == None \notin Task /\ None \notin Generation /\ None \notin Call
ASSUME TTLAssumption == TTL \in Nat \ {0}

VARIABLES
    pc, task, result,
    match,      \* remember: the fact found that has the same content
    short, long,\* facts stored, and facts whose promotion is stored
    forgotten,  \* refs with a forget record
    snap,       \* what a compilation has read of the store
    next,       \* the generation it is publishing
    manifests, generations, current,
    lock,       \* the call that holds the compiler lock
    failures

store  == <<short, long, forgotten>>
disk   == <<manifests, generations, current>>
vars == <<pc, task, result, match, store, snap, next, disk, lock, failures>>

PC == {"idle", "listShort", "listLong", "put", "getSource", "putLong", "getTarget",
       "putForget", "lock", "readShort", "readLong", "readForget", "stage", "describe", "manifest",
       "rename", "verify", "switch", "release", "done"}

EmptySnap == [left |-> {}, short |-> {}, long |-> {}]

Init ==
    /\ pc = [c \in Call |-> "idle"]
    /\ task = [c \in Call |-> None]
    /\ result = [c \in Call |-> "none"]
    /\ match = [c \in Call |-> None]
    /\ short = {} /\ long = {} /\ forgotten = {}
    /\ snap = [c \in Call |-> EmptySnap]
    /\ next = [c \in Call |-> None]
    /\ manifests = {} /\ generations = {} /\ current = None
    /\ lock = None /\ failures = 0

Goto(c, label) == pc' = [pc EXCEPT ![c] = label]

(* Mutant of Running: the chain does not go on after a call that fails. *)
RunningUntilOk(c) == pc[c] # "idle" /\ result[c] # "ok"

Running(c) == pc[c] \notin {"idle", "done"}

(* The call settles; a held lock is released in the `finally' of compile.  *)
Settle(c, outcome) ==
    /\ Goto(c, "done")
    /\ result' = [result EXCEPT ![c] = outcome]
    /\ lock' = IF lock = c THEN None ELSE lock

(* The fact's text and the end of its life are those of its call.          *)
ContentOf(m) == task[m].content
ExpiresAt(m) == task[m].at + TTL

(***************************************************************************)
(* The calls                                                               *)
(***************************************************************************)

(* coordinator.run: the mutations of one coordinator go one at a time. *)
Begin(c) ==
    /\ pc[c] = "idle"
    /\ \A d \in Call : CoordinatorOf[d] = CoordinatorOf[c] => ~Running(d)
    /\ \E t \in Work[c] :
        /\ task' = [task EXCEPT ![c] = t]
        /\ Goto(c, CASE t.kind = "remember" -> "listShort"
                     [] t.kind = "promote"  -> "getSource"
                     [] t.kind = "forget"   -> "getTarget")
    /\ UNCHANGED <<result, match, store, snap, next, disk, lock, failures>>

(* Duplicates are looked for among the session's facts that have not       *)
(* expired, then among the promotions; a forgotten fact is one of them.    *)
ListShort(c) ==
    /\ pc[c] = "listShort"
    /\ LET same == {m \in short : /\ SessionOf[m] = SessionOf[c]
                                  /\ ContentOf(m) = task[c].content
                                  /\ task[c].at < ExpiresAt(m)} IN
       IF same = {} THEN UNCHANGED match
                    ELSE \E m \in same : match' = [match EXCEPT ![c] = <<"short_term", m>>]
    /\ Goto(c, "listLong")
    /\ UNCHANGED <<task, result, store, snap, next, disk, lock, failures>>

ListLong(c) ==
    /\ pc[c] = "listLong"
    /\ LET same == {m \in long : ContentOf(m) = task[c].content} IN
       IF match[c] # None \/ same = {} THEN UNCHANGED match
       ELSE \E m \in same : match' = [match EXCEPT ![c] = <<"long_term", m>>]
    /\ Goto(c, IF match'[c] = None THEN "put" ELSE "lock")
    /\ UNCHANGED <<task, result, store, snap, next, disk, lock, failures>>

Put(c) ==
    /\ pc[c] = "put"
    /\ short' = short \cup {c}
    /\ Goto(c, "lock")
    /\ UNCHANGED <<task, result, match, long, forgotten, snap, next, disk, lock, failures>>

Target(c) == task[c].target[2]

(* The record of the target is read: its own session's, if it is           *)
(* short-term.  Nobody asks whether it has expired or is forgotten.        *)
Found(c) ==
    IF task[c].target[1] = "short_term"
    THEN Target(c) \in short /\ SessionOf[Target(c)] = SessionOf[c]
    ELSE Target(c) \in long

GetSource(c) ==
    /\ pc[c] = "getSource"
    /\ IF Found(c) THEN Goto(c, "putLong") /\ UNCHANGED <<result, lock>>
                   ELSE Settle(c, "failed")
    /\ UNCHANGED <<task, match, store, snap, next, disk, failures>>

PutLong(c) ==
    /\ pc[c] = "putLong"
    /\ long' = long \cup {Target(c)}
    /\ Goto(c, "lock")
    /\ UNCHANGED <<task, result, match, short, forgotten, snap, next, disk, lock, failures>>

GetTarget(c) ==
    /\ pc[c] = "getTarget"
    /\ IF Found(c) THEN Goto(c, "putForget") /\ UNCHANGED <<result, lock>>
                   ELSE Settle(c, "failed")
    /\ UNCHANGED <<task, match, store, snap, next, disk, failures>>

PutForget(c) ==
    /\ pc[c] = "putForget"
    /\ forgotten' = forgotten \cup {task[c].target}
    /\ Goto(c, "lock")
    /\ UNCHANGED <<task, result, match, short, long, snap, next, disk, lock, failures>>

(***************************************************************************)
(* compiler.compile, which every mutation calls                            *)
(***************************************************************************)

AcquireLock(c) ==
    /\ pc[c] = "lock"
    /\ IF lock = None
       THEN /\ lock' = c /\ Goto(c, "readShort") /\ UNCHANGED result
            /\ snap' = [snap EXCEPT ![c] = [EmptySnap EXCEPT !.left = Session]]
       ELSE Settle(c, "busy") /\ UNCHANGED snap
    /\ UNCHANGED <<task, match, store, next, disk, failures>>

(* Mutant of ReadShort: only the session of the call is listed. *)
ReadShortOwn(c) ==
    /\ pc[c] = "readShort"
    /\ snap' = [snap EXCEPT ![c].left = {}, ![c].short = {m \in short : SessionOf[m] = SessionOf[c]}]
    /\ Goto(c, "readLong")
    /\ UNCHANGED <<task, result, match, store, next, disk, lock, failures>>

(* One session's directory is listed, expired facts included. *)
ReadShort(c) ==
    /\ pc[c] = "readShort"
    /\ \E s \in snap[c].left :
        snap' = [snap EXCEPT ![c].left = @ \ {s},
                             ![c].short = @ \cup {m \in short : SessionOf[m] = s}]
    /\ Goto(c, IF snap'[c].left = {} THEN "readLong" ELSE "readShort")
    /\ UNCHANGED <<task, result, match, store, next, disk, lock, failures>>

ReadLong(c) ==
    /\ pc[c] = "readLong"
    /\ snap' = [snap EXCEPT ![c].long = long]
    /\ Goto(c, "readForget")
    /\ UNCHANGED <<task, result, match, store, next, disk, lock, failures>>

(* Every forget record and every promotion names a fact that was read. *)
Closed(s, l, f) ==
    /\ \A m \in Call : <<"short_term", m>> \in f => m \in s
    /\ \A m \in Call : <<"long_term", m>> \in f => m \in l
    /\ l \subseteq s

(* What is left of the facts read: neither forgotten nor, for a short-term *)
(* fact, promoted or expired at the time the call gives.                   *)
Compiled(s, l, f, at) ==
    [at    |-> at,
     short |-> {m \in s \ l : <<"short_term", m>> \notin f /\ at < ExpiresAt(m)},
     long  |-> {m \in l : <<"long_term", m>> \notin f}]

(* The facts a manifest names are in the store. *)
Resolves(g) == g.short \cup g.long \subseteq short /\ g.long \subseteq long

(* verifyAndLoadGenerationWorld: the directory is there with every page    *)
(* (only complete ones are renamed there), the permanent manifest is the   *)
(* same as its own, and the facts resolve.                                 *)
Verifies(g) == g \in generations /\ g \in manifests /\ Resolves(g)

ReadForget(c) ==
    /\ pc[c] = "readForget"
    /\ LET s == snap[c].short
           l == snap[c].long
           g == Compiled(s, l, forgotten, task[c].at) IN
       IF ~Closed(s, l, forgotten)
       THEN Settle(c, "failed") /\ UNCHANGED next
       ELSE /\ next' = [next EXCEPT ![c] = g]
            /\ Goto(c, IF current = g /\ Verifies(g) THEN "release" ELSE "stage")
            /\ UNCHANGED <<result, lock>>
    /\ snap' = [snap EXCEPT ![c] = EmptySnap]
    /\ UNCHANGED <<task, match, store, disk, failures>>

(* The pages are written in a directory of their own under tmp/, which     *)
(* nobody else reads.                                                      *)
Stage(c) ==
    /\ pc[c] = "stage"
    /\ Goto(c, "describe")
    /\ UNCHANGED <<task, result, match, store, snap, next, disk, lock, failures>>

(* They are read back and hashed, the manifest and the metadata are added, *)
(* and the directories are synced.                                         *)
Describe(c) ==
    /\ pc[c] = "describe"
    /\ Goto(c, "manifest")
    /\ UNCHANGED <<task, result, match, store, snap, next, disk, lock, failures>>

(* Mutant of PublishManifest: CURRENT is switched with the manifest, before *)
(* the generation is in its place.                                         *)
PublishManifestAndSwitch(c) ==
    /\ pc[c] = "manifest"
    /\ manifests' = manifests \cup {next[c]} /\ current' = next[c]
    /\ Goto(c, "rename")
    /\ UNCHANGED <<task, result, match, store, snap, next, generations, lock, failures>>

PublishManifest(c) ==
    /\ pc[c] = "manifest"
    /\ manifests' = manifests \cup {next[c]}
    /\ Goto(c, "rename")
    /\ UNCHANGED <<task, result, match, store, snap, next, generations, current, lock, failures>>

(* The staged directory is renamed to generations/<id>, unless a           *)
(* compilation of the same facts at the same time has put one there.       *)
RenameGeneration(c) ==
    /\ pc[c] = "rename"
    /\ generations' = generations \cup {next[c]}
    /\ Goto(c, "verify")
    /\ UNCHANGED <<task, result, match, store, snap, next, manifests, current, lock, failures>>

VerifyGeneration(c) ==
    /\ pc[c] = "verify"
    /\ IF Verifies(next[c]) THEN Goto(c, "switch") /\ UNCHANGED <<result, lock>>
                            ELSE Settle(c, "failed")
    /\ UNCHANGED <<task, match, store, snap, next, disk, failures>>

SwitchCurrent(c) ==
    /\ pc[c] = "switch"
    /\ current' = next[c]
    /\ Goto(c, "release")
    /\ UNCHANGED <<task, result, match, store, snap, next, manifests, generations, lock, failures>>

(* compile returns, the lock is released, and the call answers. *)
Release(c) ==
    /\ pc[c] = "release"
    /\ Settle(c, "ok")
    /\ UNCHANGED <<task, match, store, snap, next, disk, failures>>

Step(c) ==
    \/ ListShort(c) \/ ListLong(c) \/ Put(c)
    \/ GetSource(c) \/ PutLong(c) \/ GetTarget(c) \/ PutForget(c)
    \/ AcquireLock(c) \/ ReadShort(c) \/ ReadLong(c) \/ ReadForget(c)
    \/ Stage(c) \/ Describe(c) \/ PublishManifest(c) \/ RenameGeneration(c)
    \/ VerifyGeneration(c) \/ SwitchCurrent(c) \/ Release(c)

(* A file operation of the call fails: what it has published stays, the    *)
(* staging directory goes, and the call throws.                            *)
Fault(c) ==
    /\ Running(c) /\ failures < MaxFailures
    /\ failures' = failures + 1
    /\ Settle(c, "failed")
    /\ UNCHANGED <<task, match, store, snap, next, disk>>

(* The process of a coordinator dies; its lock is reclaimed. *)
Crash(p) ==
    /\ failures < MaxFailures
    /\ failures' = failures + 1
    /\ LET dying == {c \in Call : CoordinatorOf[c] = p /\ Running(c)} IN
       /\ dying # {}
       /\ pc' = [c \in Call |-> IF c \in dying THEN "done" ELSE pc[c]]
       /\ result' = [c \in Call |-> IF c \in dying THEN "lost" ELSE result[c]]
       /\ lock' = IF lock \in dying THEN None ELSE lock
    /\ UNCHANGED <<task, match, store, snap, next, disk>>

Next ==
    \/ \E c \in Call : Begin(c) \/ Step(c) \/ Fault(c)
    \/ \E p \in {CoordinatorOf[c] : c \in Call} : Crash(p)

Spec == Init /\ [][Next]_vars

(* A promise that is due settles: the host gives the process its turns.    *)
Fairness == \A c \in Call : WF_vars(Begin(c)) /\ WF_vars(Step(c))

FairSpec == Spec /\ Fairness

(***************************************************************************)
(* Properties                                                              *)
(***************************************************************************)

TypeOK ==
    /\ pc \in [Call -> PC]
    /\ task \in [Call -> Task \cup {None}]
    /\ result \in [Call -> {"none", "ok", "failed", "busy", "lost"}]
    /\ match \in [Call -> Ref \cup {None}]
    /\ short \subseteq Call /\ long \subseteq Call /\ forgotten \subseteq Ref
    /\ snap \in [Call -> [left : SUBSET Session, short : SUBSET Call, long : SUBSET Call]]
    /\ next \in [Call -> Generation \cup {None}]
    /\ manifests \subseteq Generation /\ generations \subseteq Generation
    /\ current \in Generation \cup {None}
    /\ lock \in Call \cup {None}
    /\ failures \in Nat

Answered(c, kind) == result[c] = "ok" /\ task[c].kind = kind

(* The memory a call has been told is remembered. *)
Remembered(c) == IF match[c] = None THEN <<"short_term", c>> ELSE match[c]

Serves(g, ref) == g # None /\ ref[2] \in (IF ref[1] = "short_term" THEN g.short ELSE g.long)

(* What was acknowledged is served: CURRENT holds every memory that a      *)
(* remember or a promote has answered for, unless it was forgotten,        *)
(* promoted or had expired at the time of CURRENT, whichever process       *)
(* compiled last.  (The second generation of the store does not keep this: *)
(* see the run WorldLostMemory.)                                           *)
AcknowledgedServed ==
    \A c \in Call :
        /\ Answered(c, "remember") =>
              LET m == Remembered(c) IN
              \/ Serves(current, m) \/ m \in forgotten
              \/ /\ m[1] = "short_term"
                 /\ current # None
                 /\ m[2] \in long \/ current.at >= ExpiresAt(m[2])
        /\ Answered(c, "promote") =>
              LET l == <<"long_term", Target(c)>> IN Serves(current, l) \/ l \in forgotten

(* What a forget has answered for is not in CURRENT any more, and no later *)
(* compilation, of any process, brings it back.                            *)
ForgottenHidden ==
    \A c \in Call : Answered(c, "forget") => ~Serves(current, task[c].target)

(* A promoted memory is served once, as the long-term fact: the source is  *)
(* out of CURRENT for ever, even when the promotion is forgotten later.    *)
PromotionReplacesSource ==
    \A c \in Call : Answered(c, "promote") => ~Serves(current, <<"short_term", Target(c)>>)

(* CURRENT is what the calls have been answered, in every respect. *)
ServesAnswers == AcknowledgedServed /\ ForgottenHidden /\ PromotionReplacesSource

(* Whatever has failed or died on the way, CURRENT names a generation that *)
(* verifies, and the store refers to no fact it does not hold: an          *)
(* inconsistent reading of the store is a race that the next compilation   *)
(* does not meet.                                                          *)
CurrentVerifies ==
    TypeOK /\ (current # None => Verifies(current)) /\ Closed(short, long, forgotten)

(* Every call comes to an end, none waits for a lock that nobody holds.    *)
CallsEnd == \A c \in Call : (Work[c] # {}) ~> (pc[c] = "done")
=============================================================================
