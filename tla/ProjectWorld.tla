---------------------------- MODULE ProjectWorld ----------------------------
(***************************************************************************)
(* The durable world of one project and every writer and reader of its     *)
(* CURRENT pointer:                                                        *)
(*                                                                         *)
(*   - consolidate (src/src/v2/consolidation-runtime.ts), which stores a   *)
(*     memory, a catalog and a generation and switches CURRENT, either as  *)
(*     a legacy generation (okf-compiler.ts) or as a governed one          *)
(*     (rebuildGovernedGenerationV1);                                      *)
(*   - commit and applyProposal (src/src/governance/runtime.ts), which     *)
(*     append a governance event and publish a governed generation;        *)
(*   - readCurrentRecallWorldV1, the reader of recall.                     *)
(*                                                                         *)
(* The state is what is on disk plus what each running call remembers.     *)
(* Calls run in processes: the mutation coordinator of a process runs its  *)
(* mutations one after the other, the compiler lock (here the abstract     *)
(* ProjectMutex) excludes publishers of all processes.  A step is the work *)
(* between two points where another call can get in.                       *)
(*                                                                         *)
(* Abstracted: a catalog is the set of memories attached anywhere in its   *)
(* tree and the call that wrote it (updated_at); an event is the chain     *)
(* that ends with it; the only effect of an event kept is which memory it  *)
(* deactivates; staged files are one generation; the bytes of CURRENT are  *)
(* the generation it names (generation ids are content hashes that include *)
(* created_at, here the call that made it).                                *)
(***************************************************************************)
EXTENDS Naturals, Sequences, FiniteSets

CONSTANTS
    Op,          \* calls of consolidate, commit, applyProposal and recall
    Kind,        \* what each call is
    Proc, Home,  \* processes, and the one each call runs in
    Memory,      \* memory fingerprints (memory_id is derived from them)
    Subject,     \* the memory a call adds or deactivates
    Seed,        \* the call that left the world the behaviour starts from
    SeedMemory,  \* the memory in that world
    SeedWorld,   \* "empty", "legacy" or "governed"
    None,
    IOFaults,    \* file operations may fail
    MaxCrash     \* bound: how many processes may die

ASSUME WorldAssumption ==
    /\ Kind \in [Op -> {"consolidate", "commit", "apply", "recall"}]
    /\ Home \in [Op -> Proc]
    /\ Subject \in [Op -> Memory]
    /\ SeedMemory \in Memory
    /\ Seed \notin Op
    /\ None \notin Op \cup {Seed}
    /\ SeedWorld \in {"empty", "legacy", "governed"}
    /\ IOFaults \in BOOLEAN
    /\ MaxCrash \in Nat

Stamp == Op \cup {Seed}

Catalog == [refs : SUBSET Memory, by : Stamp \cup {None}]

Generation == [kind : {"legacy", "governed"}, catalog : Catalog,
               head : Seq(Stamp), by : Stamp]

ASSUME NoneNotGeneration == None \notin Generation

VARIABLES
    current,      \* what v2/CURRENT names: a generation, or None
    generations,  \* v2/generations
    catalogs,     \* v2/catalogs
    memories,     \* v2/memories: who wrote the record of a memory, or None
    events,       \* v2/governance/events, each as the chain ending with it
    lock,         \* holder of the compiler lock
    dead,         \* processes that have died
    pc,           \* where each call is
    reviewed,     \* the generation a proposal was written against
    view,         \* the CURRENT snapshot a call has last read
    base,         \* the catalog consolidate works on
    known,        \* consolidate found the memory on disk (duplicate)
    governed,     \* consolidate took the project for a governed one
    target,       \* the generation a call is publishing
    result        \* what a call has returned

disk  == <<generations, catalogs, memories, events>>
local == <<reviewed, view, base, known, governed, target>>
vars  == <<current, disk, lock, dead, pc, local, result>>

NoCatalog == [refs |-> {}, by |-> None]   \* initialCatalog

SeedCatalog == [refs |-> {SeedMemory}, by |-> Seed]

SeedGeneration ==
    IF SeedWorld = "legacy"
      THEN [kind |-> "legacy", catalog |-> SeedCatalog, head |-> <<>>, by |-> Seed]
      ELSE [kind |-> "governed", catalog |-> SeedCatalog, head |-> <<Seed>>, by |-> Seed]

Init ==
    /\ current = IF SeedWorld = "empty" THEN None ELSE SeedGeneration
    /\ generations = IF SeedWorld = "empty" THEN {} ELSE {SeedGeneration}
    /\ catalogs = IF SeedWorld = "empty" THEN {} ELSE {SeedCatalog}
    /\ memories = [m \in Memory |->
                      IF SeedWorld # "empty" /\ m = SeedMemory THEN Seed ELSE None]
    /\ events = IF SeedWorld = "governed" THEN {<<Seed>>} ELSE {}
    /\ lock = None
    /\ dead = {}
    /\ pc = [o \in Op |-> "idle"]
    /\ reviewed = [o \in Op |-> None]
    /\ view = [o \in Op |-> None]
    /\ base = [o \in Op |-> NoCatalog]
    /\ known = [o \in Op |-> FALSE]
    /\ governed = [o \in Op |-> FALSE]
    /\ target = [o \in Op |-> None]
    /\ result = [o \in Op |-> "none"]

Mutex == INSTANCE ProjectMutex WITH Caller <- Op, holder <- lock

IsGoverned(g) == g # None /\ g.kind = "governed"

HeadOf(g) == IF g = None THEN <<>> ELSE g.head

(* The memories an event chain deactivates; the event of the seed hides    *)
(* nothing.                                                                *)
Hidden(chain) == { Subject[o] : o \in { p \in Op : \E i \in DOMAIN chain : chain[i] = p } }

Goto(o, label) == pc' = [pc EXCEPT ![o] = label]

Return(o, value) ==
    /\ Goto(o, "done")
    /\ result' = [result EXCEPT ![o] = value]

(* Give the compiler lock back in `finally`, then return. *)
ReturnUnlock(o, value) ==
    /\ Goto(o, "unlock")
    /\ result' = [result EXCEPT ![o] = value]

Keep(o, label) == Goto(o, label) /\ UNCHANGED result

-----------------------------------------------------------------------------
(* A call begins.  coordinator.run lets one mutation of a process run at a *)
(* time; recall does not go through it.                                    *)

Waiting == {"idle", "proposed", "done"}

(* Mutant of CoordinatorFree: a settled mutation keeps its place. *)
CoordinatorNeverFreed(o) ==
    \A p \in Op : Home[p] = Home[o] /\ Kind[p] # "recall" => pc[p] \in {"idle", "proposed"}

CoordinatorFree(o) ==
    \A p \in Op : Home[p] = Home[o] /\ Kind[p] # "recall" => pc[p] \in Waiting

(* A proposal is written against the generation its author has read. *)
Propose(o) ==
    /\ pc[o] = "idle" /\ Kind[o] = "apply" /\ current # None
    /\ reviewed' = [reviewed EXCEPT ![o] = current]
    /\ Keep(o, "proposed")
    /\ UNCHANGED <<current, disk, lock, dead, view, base, known, governed, target>>

Begin(o) ==
    /\ pc[o] = IF Kind[o] = "apply" THEN "proposed" ELSE "idle"
    /\ Kind[o] # "recall" => CoordinatorFree(o)
    /\ Keep(o, CASE Kind[o] = "consolidate" -> "judge"
                 [] Kind[o] = "recall" -> "readPointer"
                 [] OTHER -> "lockTransaction")
    /\ UNCHANGED <<current, disk, lock, dead, local>>

-----------------------------------------------------------------------------
(* readCurrentRecallWorldV1: reads CURRENT to choose a reader by the marker *)
(* of the manifest; the reader reads CURRENT again.                        *)

ReadPointer(o) ==
    /\ pc[o] = "readPointer"
    /\ view' = [view EXCEPT ![o] = current]
    /\ Keep(o, "readWorld")
    /\ UNCHANGED <<current, disk, lock, dead, reviewed, base, known, governed, target>>

(* The legacy reader refuses a governed manifest, the governed one reads   *)
(* both.                                                                   *)
ReaderAccepts(o) == IsGoverned(view[o]) \/ ~IsGoverned(current)

ReadWorld(o) ==
    /\ pc[o] = "readWorld"
    /\ view' = [view EXCEPT ![o] = current]
    /\ IF ~ReaderAccepts(o)
         THEN Return(o, "hash_mismatch") /\ UNCHANGED base
       ELSE IF Kind[o] = "recall"
         THEN Return(o, IF current = None THEN "not_found" ELSE "served")
              /\ UNCHANGED base
       ELSE /\ base' = [base EXCEPT ![o] = IF current = None THEN NoCatalog
                                           ELSE current.catalog]
            /\ Keep(o, "listMemories")
    /\ UNCHANGED <<current, disk, lock, dead, reviewed, known, governed, target>>
-----------------------------------------------------------------------------
(* consolidate, until it publishes *)

(* The judgment of the model: create, or skip / fail. *)
Judge(o) ==
    /\ pc[o] = "judge"
    /\ Keep(o, "readPointer") \/ Return(o, "skipped")
    /\ UNCHANGED <<current, disk, lock, dead, local>>

ListMemories(o) ==
    /\ pc[o] = "listMemories"
    /\ known' = [known EXCEPT ![o] = memories[Subject[o]] # None]
    /\ Keep(o, "readGoverned")
    /\ UNCHANGED <<current, disk, lock, dead, reviewed, view, base, governed, target>>

(* governedWorld is read on its own; every failure of that read is taken   *)
(* for a project that has not been published yet.                          *)
ReadGoverned(o) ==
    /\ pc[o] = "readGoverned"
    /\ \E seen \in {current} \cup (IF IOFaults THEN {None} ELSE {}) :
         LET visible == IF IsGoverned(seen)
                        THEN seen.catalog.refs \ Hidden(seen.head)
                        ELSE base[o].refs
         IN /\ governed' = [governed EXCEPT ![o] = IsGoverned(seen)]
            /\ IF known[o] /\ Subject[o] \in visible THEN Return(o, "noop")
               ELSE IF known[o] /\ IsGoverned(seen) THEN Return(o, "hidden_duplicate")
               ELSE Keep(o, "navigate")
    /\ UNCHANGED <<current, disk, lock, dead, reviewed, view, base, known, target>>

(* The category is chosen in the catalog read above; the model may fail.   *)
Navigate(o) ==
    /\ pc[o] = "navigate"
    /\ \/ Keep(o, IF governed[o] THEN "lockGoverned" ELSE "putMemory")
       \/ Return(o, "category_failed")
    /\ UNCHANGED <<current, disk, lock, dead, local>>

-----------------------------------------------------------------------------
(* Acquiring the compiler lock fails at once when it is held. *)

Lock(o, from, to) ==
    /\ pc[o] = from
    /\ \/ Mutex!Acquire(o) /\ Keep(o, to)
       \/ lock # None /\ UNCHANGED lock /\ Return(o, "busy")
    /\ UNCHANGED <<current, disk, dead, local>>

LockGoverned(o)    == Lock(o, "lockGoverned", "recheck")
LockLegacy(o)      == Lock(o, "lockLegacy", "compileLegacy")
LockTransaction(o) == Lock(o, "lockTransaction", "load")

Unlock(o) ==
    /\ pc[o] = "unlock"
    /\ Mutex!GiveUp(o)
    /\ Keep(o, "done")
    /\ UNCHANGED <<current, disk, dead, local>>

-----------------------------------------------------------------------------
(* consolidate publishes *)

(* lockedWorld: still governed and still the catalog that was read. *)
Recheck(o) ==
    /\ pc[o] = "recheck"
    /\ IF IsGoverned(current) /\ current.catalog = base[o]
         THEN Keep(o, "putMemory") ELSE ReturnUnlock(o, "busy")
    /\ UNCHANGED <<current, disk, lock, dead, local>>

(* Mutant of NewCatalog: starts over instead of extending what was read. *)
NewCatalogAlone(o) == [refs |-> {Subject[o]}, by |-> o]

NewCatalog(o) == [refs |-> base[o].refs \cup {Subject[o]}, by |-> o]

(* A record that exists with another created_at is an identity conflict;   *)
(* a duplicate that was found is written as it was.                        *)
PutMemory(o) ==
    /\ pc[o] = "putMemory"
    /\ IF memories[Subject[o]] # None /\ ~known[o]
         THEN /\ IF governed[o] THEN ReturnUnlock(o, "identity_conflict")
                                ELSE Return(o, "identity_conflict")
              /\ UNCHANGED memories
         ELSE /\ memories' = [memories EXCEPT ![Subject[o]] = IF known[o] THEN @ ELSE o]
              /\ Keep(o, "putCatalog")
    /\ UNCHANGED <<current, generations, catalogs, events, lock, dead, local>>

PutCatalog(o) ==
    /\ pc[o] = "putCatalog"
    /\ catalogs' = catalogs \cup {NewCatalog(o)}
    /\ Keep(o, IF governed[o] THEN "rebuild" ELSE "lockLegacy")
    /\ UNCHANGED <<current, generations, memories, events, lock, dead, local>>

(* publishOKFGenerationV2 compiles the catalog it was given. *)
CompileLegacy(o) ==
    /\ pc[o] = "compileLegacy"
    /\ target' = [target EXCEPT ![o] =
          [kind |-> "legacy", catalog |-> NewCatalog(o), head |-> <<>>, by |-> o]]
    /\ Keep(o, "stage")
    /\ UNCHANGED <<current, disk, lock, dead, reviewed, view, base, known, governed>>

(* Mutant of Rebuild: the head is not inherited. *)
RebuildWithoutHead(o) ==
    /\ pc[o] = "rebuild"
    /\ target' = [target EXCEPT ![o] =
          [kind |-> "governed", catalog |-> NewCatalog(o), head |-> <<>>, by |-> o]]
    /\ Keep(o, "snapshot")
    /\ UNCHANGED <<current, disk, lock, dead, reviewed, view, base, known, governed>>

(* rebuildGovernedGenerationV1 inherits the head that CURRENT has now. *)
Rebuild(o) ==
    /\ pc[o] = "rebuild"
    /\ IF IsGoverned(current)
         THEN /\ target' = [target EXCEPT ![o] =
                   [kind |-> "governed", catalog |-> NewCatalog(o),
                    head |-> current.head, by |-> o]]
              /\ Keep(o, "snapshot")
         ELSE /\ UNCHANGED target
              /\ ReturnUnlock(o, "failed")
    /\ UNCHANGED <<current, disk, lock, dead, reviewed, view, base, known, governed>>

-----------------------------------------------------------------------------
(* commitWithinCurrentTransaction and applyProposal, the lock held *)

(* The event must refer to a memory of the raw world that is not inactive, *)
(* or replay rejects it.                                                   *)
Replays(o, g) == Subject[o] \in g.catalog.refs \ Hidden(g.head)

(* Mutant of Stale: only the governance head is compared. *)
StaleHeadOnly(o) == Kind[o] = "apply" /\ HeadOf(current) # HeadOf(reviewed[o])

Stale(o) == Kind[o] = "apply" /\ current # reviewed[o]

Load(o) ==
    /\ pc[o] = "load"
    /\ IF current = None THEN ReturnUnlock(o, "not_found") /\ UNCHANGED target
       ELSE IF Stale(o) THEN ReturnUnlock(o, "stale") /\ UNCHANGED target
       ELSE IF ~Replays(o, current) THEN ReturnUnlock(o, "rejected") /\ UNCHANGED target
       ELSE /\ target' = [target EXCEPT ![o] =
                 [kind |-> "governed", catalog |-> current.catalog,
                  head |-> Append(current.head, o), by |-> o]]
            /\ Keep(o, "writeEvent")
    /\ UNCHANGED <<current, disk, lock, dead, reviewed, view, base, known, governed>>

WriteEvent(o) ==
    /\ pc[o] = "writeEvent"
    /\ events' = events \cup {target[o].head}
    /\ Keep(o, "snapshot")
    /\ UNCHANGED <<current, generations, catalogs, memories, lock, dead, local>>

-----------------------------------------------------------------------------
(* Publishing: stage, rename into generations, switch CURRENT *)

Snapshot(o) ==
    /\ pc[o] = "snapshot"
    /\ view' = [view EXCEPT ![o] = current]
    /\ Keep(o, "stage")
    /\ UNCHANGED <<current, disk, lock, dead, reviewed, base, known, governed, target>>

(* Mutant of Stage: CURRENT is switched to a generation not yet renamed.   *)
StageNotRenamed(o) ==
    /\ pc[o] = "stage"
    /\ Keep(o, "switch")
    /\ UNCHANGED <<current, disk, lock, dead, local>>

Stage(o) ==
    /\ pc[o] = "stage"
    /\ generations' = generations \cup {target[o]}
    /\ Keep(o, "switch")
    /\ UNCHANGED <<current, catalogs, memories, events, lock, dead, local>>

(* Where a call is about to use the file system; a failure in readGoverned *)
(* does not end the call.                                                  *)
Touching == { "readPointer", "readWorld", "listMemories", "lockGoverned", "lockLegacy",
              "lockTransaction", "recheck", "putMemory", "putCatalog", "compileLegacy",
              "rebuild", "load", "writeEvent", "snapshot", "stage", "switch" }

(* The governed switch compares CURRENT with its snapshot; writeCurrent of *)
(* the legacy publisher does not.                                          *)
Switch(o) ==
    /\ pc[o] = "switch"
    /\ IF target[o].kind = "legacy" \/ current = view[o]
         THEN /\ current' = target[o]
              /\ ReturnUnlock(o, IF Kind[o] = "consolidate" THEN "created" ELSE "committed")
         ELSE /\ UNCHANGED current
              /\ ReturnUnlock(o, "busy")
    /\ UNCHANGED <<disk, lock, dead, local>>

(* The rename is done but syncDirectory fails: the call reports a failure  *)
(* of what has been published.                                             *)
SwitchNotSynced(o) ==
    /\ IOFaults
    /\ pc[o] = "switch"
    /\ target[o].kind = "legacy" \/ current = view[o]
    /\ current' = target[o]
    /\ ReturnUnlock(o, "failed")
    /\ UNCHANGED <<disk, lock, dead, local>>

(* A file operation of the step a call is about to do fails: the call      *)
(* returns, through `finally` if it has the compiler lock.  A write that   *)
(* fails after its link or rename is this failure one step later.          *)
IOFails(o) ==
    /\ IOFaults
    /\ pc[o] \in Touching
    /\ IF lock = o THEN ReturnUnlock(o, "failed") ELSE Return(o, "failed")
    /\ UNCHANGED <<current, disk, lock, dead, local>>

-----------------------------------------------------------------------------
(* A process dies with all its calls.  Its compiler lock is reclaimed by   *)
(* the next caller, so it counts as given up.                              *)
Crash(p) ==
    /\ p \notin dead
    /\ Cardinality(dead) < MaxCrash
    /\ dead' = dead \cup {p}
    /\ pc' = [o \in Op |-> IF Home[o] = p THEN "done" ELSE pc[o]]
    /\ result' = [o \in Op |-> IF Home[o] = p /\ result[o] = "none"
                               THEN "crashed" ELSE result[o]]
    /\ lock' = IF lock \in Op /\ Home[lock] = p THEN None ELSE lock
    /\ UNCHANGED <<current, disk, local>>

Step(o) ==
    \/ Judge(o)
    \/ ReadPointer(o)
    \/ ReadWorld(o)
    \/ ListMemories(o)
    \/ ReadGoverned(o)
    \/ Navigate(o)
    \/ LockGoverned(o)
    \/ LockLegacy(o)
    \/ LockTransaction(o)
    \/ Recheck(o)
    \/ PutMemory(o)
    \/ PutCatalog(o)
    \/ CompileLegacy(o)
    \/ Rebuild(o)
    \/ Load(o)
    \/ WriteEvent(o)
    \/ Snapshot(o)
    \/ Stage(o)
    \/ Switch(o)
    \/ SwitchNotSynced(o)
    \/ IOFails(o)
    \/ Unlock(o)

Next ==
    \/ \E o \in Op : Propose(o)
    \/ \E o \in Op : Begin(o)
    \/ \E o \in Op : Step(o)
    \/ \E p \in Proc : Crash(p)

Spec == Init /\ [][Next]_vars

(* The event loop finishes what it has begun, and the coordinator starts   *)
(* the next queued call.                                                   *)
FairSpec == Spec /\ \A o \in Op : WF_vars(Begin(o)) /\ WF_vars(Step(o))

-----------------------------------------------------------------------------
(* Properties *)

PC == { "idle", "proposed", "judge", "readPointer", "readWorld", "listMemories",
        "readGoverned", "navigate", "lockGoverned", "lockLegacy", "lockTransaction",
        "recheck", "putMemory", "putCatalog", "compileLegacy", "rebuild", "load",
        "writeEvent", "snapshot", "stage", "switch", "unlock", "done" }

Results == { "none", "skipped", "noop", "hidden_duplicate", "category_failed", "busy",
             "identity_conflict", "failed", "not_found", "stale", "rejected",
             "created", "committed", "hash_mismatch", "served", "crashed" }

TypeOK ==
    /\ current \in Generation \cup {None}
    /\ generations \in SUBSET Generation
    /\ catalogs \in SUBSET Catalog
    /\ memories \in [Memory -> Stamp \cup {None}]
    /\ events \in SUBSET Seq(Stamp)
    /\ lock \in Op \cup {None}
    /\ dead \in SUBSET Proc
    /\ pc \in [Op -> PC]
    /\ reviewed \in [Op -> Generation \cup {None}]
    /\ view \in [Op -> Generation \cup {None}]
    /\ base \in [Op -> Catalog]
    /\ known \in [Op -> BOOLEAN]
    /\ governed \in [Op -> BOOLEAN]
    /\ target \in [Op -> Generation \cup {None}]
    /\ result \in [Op -> Results]

(* Everything a generation refers to is on disk: its catalog, the record   *)
(* of each memory of the catalog, and each event of its committed chain.   *)
Closed(g) ==
    /\ g.catalog \in catalogs
    /\ \A m \in g.catalog.refs : memories[m] # None
    /\ \A n \in 1..Len(g.head) : SubSeq(g.head, 1, n) \in events

(* Whatever was killed and wherever, CURRENT names a complete generation   *)
(* whose references all resolve, so recall and the next writer can load it.*)
CurrentClosed ==
    current # None => current \in generations /\ Closed(current)

(* What a call has acknowledged stays in force: a created memory is in the *)
(* raw catalog being served, a committed event is in the chain.            *)
AcknowledgedServed ==
    \A o \in Op :
        /\ result[o] = "created" => current # None /\ Subject[o] \in current.catalog.refs
        /\ result[o] = "committed" => \E i \in DOMAIN HeadOf(current) : HeadOf(current)[i] = o

(* A governed project never falls back to a legacy generation, and its     *)
(* committed chain only grows, one event at a time.                        *)
NeverBack ==
    [][/\ IsGoverned(current) => IsGoverned(current')
       /\ \/ HeadOf(current') = HeadOf(current)
          \/ \E o \in Op : HeadOf(current') = Append(HeadOf(current), o)]_vars

(* A proposal takes effect only on the very generation it was reviewed     *)
(* against, up to the instant CURRENT is switched.                         *)
AppliedAsReviewed ==
    [][\A o \in Op : Kind[o] = "apply" /\ current' # current /\ current' = target[o]
                         => current = reviewed[o]]_vars

(* Every call that has begun returns: nobody waits for a lock, and a call  *)
(* that fails lets the next one of its process run.                        *)
CallsReturn == \A o \in Op : pc[o] # "idle" ~> pc[o] = "done"

(* The world of readers is an append-only history. *)
History == INSTANCE ProjectHistory WITH
    Event <- Stamp,
    known <- IF current = None THEN {} ELSE current.catalog.refs,
    ledger <- HeadOf(current)

ImplementsHistory == [][History!Next]_(History!vars)
=============================================================================
