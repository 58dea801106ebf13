# Verification of dsh-Mnemosyne

TLA+ models, TLC runs and TLAPS proofs for dsh-Mnemosyne, the plugin that turns
the finished turns of coding-agent sessions into project memories and offers
them to later turns. Paths below are relative to the repository's root
(`src/observer.ts` is the plugin's source; `PROJECT.json` names the same file
`src/src/observer.ts`).

To check a run: `tlc -config <run>.cfg <MC module>`; to check the proofs: `tlapm
<module>Proofs.tla`. `PROJECT.json` holds the machine-readable side of this
document: components, runs, the mutant that each property is tested with, the
source lines of every definition, hazards, findings and theorems.

## 1. The system

### 1.1 Components

| component | state it keeps | operations |
|---|---|---|
| **compiler lock** (`generation-store.ts` 204-526) | `<project>/locks/compiler.lock`: pid, token, device and inode | `acquireCompilerLock`, the release closure it returns, the reclaim of a dead owner's lock |
| **memory and catalog store, generations** (`v2/okf-memory-store.ts`, `v2/okf-compiler.ts`, `v2/versioned-generation-store.ts`, `v2/current-transaction.ts`) | the files of a project: memories, catalogs, governance events, generations, and `CURRENT`, the pointer to the generation being served | put a memory or a catalog (hard link of a synced temporary file), stage a generation (rename), switch `CURRENT` (rename, with or without comparing), read the world |
| **consolidation runtime** (`v2/consolidation-runtime.ts`) | nothing of its own | `consolidate`: judge a turn, look for duplicates, walk the category tree, store and publish |
| **governance runtime** (`governance/`) | a chain of events under the files; the chain a generation commits to; the lock file of a file boundary | `commit`, `applyProposal`, `rebuildGovernedGenerationV1`, replay and projection of the chain |
| **mutation coordinator** (`mutation-coordinator.ts`) | per project, the promise of the last operation | `run` |
| **project consolidation barrier** (`v2/project-consolidation-barrier.ts`) | per project, the consolidations that have not settled | `track`, `wait`, `waitAll` |
| **parent task sets** (`v3/subagent-lifecycle.ts`) | per parent agent, an abort controller and the tracked promises | `for`, `track`, `wait`, `waitAll`, `cancel`, `dispose` |
| **child agent runs** (`v3/dsh-subagent.ts`) | per run: flags, timers, the child's handle | `runDshSubagentV3`: create, wait for idle, follow up, wait for the answer, dispose |
| **plugin** (`observer.ts`) | agents by session, handled turns, abort controllers of the consolidations | handlers of `turn/end`, `session/flush`, `agent/pre-step`, `agent/disposed`, `session/disposed`, and the cleanup |
| **recall** (`v3/map-*.ts`, `v3/recall-pre-step.ts`; `v2/recall-runtime.ts`) | per turn of an agent, the binding of the tool: the pinned generation, its state, what was selected | offer a map before a step, answer the recall tool through child agents, fall back on the earlier walk, tell a turn's consolidation what was used |
| **first generation** (`memory-store.ts`, `candidate-writer.ts`, `management-*.ts`, `okf-compiler.ts`, `generation-store.ts`, `okf-retrieval-runtime.ts`, `okf-search.ts`) | fact files, promotions, forget records, generations with manifests, `CURRENT`, a registry of grants | remember, promote, forget, list, compile, search, open |
| **planning gate** (`m05f/`) | process-wide network traps while a dry run lasts | audit a provider, plan, request, dry run |
| **real canary** (`m05d2/`, the ledger of `m05e/`) | claims, receipts and a summary on disk; a budget ledger and diagnostics in memory | run six paid runs under one approval |
| **end-to-end harness** (`m07b/`) | a root: spent approvals, request ledger, receipts of the sidecar, resume receipts, evidence, report | prepare, execute six agent processes, judge, report, clean up |
| **protocol records** (`protocol/`) | none | validation and hashing of records |

### 1.2 How they interact

- `turn/end` *registers* a consolidation with the parent's task set and the
  barrier, and schedules it with `setImmediate`; the callback asks the mutation
  coordinator to *run* it; it makes *model calls*, each a child agent created
  through the host; then it stores a memory and a catalog and *publishes* a
  generation under the compiler lock.
- The child agent has a session of its own, whose flush fires the same handler
  as the parent's: the handler must not wait for the consolidation that waits
  for the child.
- `session/flush` and the pre-step before recall *wait* at the barrier;
  `agent/disposed` *cancels* the parent's task set and waits for it; the cleanup
  *aborts* everything and waits for the sets, then for the barrier.
- The pre-step *pins* the generation `CURRENT` names and offers its map; the
  recall tool walks that generation through child agents, whatever `CURRENT` has
  become, unless no child is to be had: the earlier walk then reads `CURRENT`
  itself. The handler of `turn/end` takes what the turn was told from the
  binding and gives it to the consolidation.
- Several processes may open one project. They share only the files: the
  coordinator orders the mutations of one process, the compiler lock excludes
  publishers of all of them, `CURRENT` is what readers see.
- The first generation has the same shape (coordinator, files written by link,
  compiler lock, `CURRENT`) and compiles all its facts each time. Its runtimes
  are exported and tested, and no entry point of this version starts them.
- The canary and the harness are programs around the plugin. They spend an
  approval a person gave for a budget; what they did is read off the disk later.
  The harness starts the agent as processes of their own, which may outlive it.

### 1.3 What is hard, and what makes each part correct

- *Lock.* Every file operation is an await; a process may die between any two; a
  failed creation removes a path that may be somebody else's, a failed release
  leaves its file. Correct: two calls never hold the project, nobody's lock file
  is taken away, a call leaves one behind only where giving it up itself failed,
  a dead process does not block the project for ever.
- *World.* What a call read before it had the lock is stale when it publishes; a
  crash leaves any prefix of memory, catalog, event, generation and switch; a
  reader meets a switch in the middle of its reads; a failed read looks like an
  absent file. Correct: `CURRENT` always names something complete, acknowledged
  memories and events stay, governed never becomes legacy again, proposals take
  effect only as reviewed.
- *Governance.* Events refer to events, a revert takes one out of the middle of
  a chain, and a commit may be raced, fail or die between the event and the
  switch. Correct: what `CURRENT` names can be replayed, projected and undone,
  and an event changes only what its footprint says.
- *Child runs.* Creation, abort, creation timeout and promise reactions come in
  any order; the host may answer after the run gave up. Correct: no child is
  left behind, none is taken from a run that uses it, an abort always ends it.
- *Session.* Handlers of several sessions interleave at every await; a turn may
  be delivered twice; endings race with work that has been scheduled, queued or
  is at work. Correct: a turn is consolidated once, one consolidation of a
  project at a time, in order; a wait covers what was registered before it; no
  wait is for ever; after an ending nothing is at work.
- *Recall.* A tool call works while its turn is aborted, ends, or its session
  goes; calls come at once or with a map of an earlier turn; the project changes
  under them; two walks have limits of their own. Correct: what is told was
  served in the turn, once, and is what the turn is said to have used; no limit
  cuts a walk short of what it could reach.
- *First generation.* Power is lost between a link and the sync of its entry,
  or with a directory nobody has synced; two writers race for a path; a
  compilation reads the store scope by scope, and a list kind by kind, while
  others change it; a grant is used long after its search. Correct: an
  acknowledged fact stays as far as directories are synced, `CURRENT` serves what
  calls were answered and verifies whatever failed, disclosed is openable, and a
  list shows what was active at one time.
- *Canary and harness.* Calls settle late, twice or never; executions die, are
  repeated or run at once under one approval; agents disobey and outlive their
  runs; the harness's sidecar lets some requests through uncounted. Correct: no
  more is spent under an approval or a ledger than it allows, every call that is
  claimed is accounted for in what is published, and a report that passes was
  earned.

`PROJECT.json` lists each hazard at its line with the property that covers it,
or the reason why none does.

## 2. The modules

```
ProjectMutex     <-- CompilerLock   <-- CompilerLockProofs    <- MCCompilerLock
  ^ (instance)
ProjectHistory   <-- ProjectWorld   <-- ProjectWorldProofs    <- MCProjectWorld
ChildCall        <-- SubagentRun    <-- SubagentProofs        <- MCSubagentRun
  ^ (instance)
               Session                                        <- MCSession <- MCSessionTurns
                    \               <-- SessionProofs
                     MapRecall                                <- MCSessionTurns
FactStore                           <-- FactStoreProofs       <- MCFactStore
FactWorld <-- FactRetrieval         <-- FactWorldProofs       <- MCFactWorld
CanaryLedger, CanaryApproval <-- Canary
                                    <-- CanaryProofs          <- MCCanary
              CanaryApproval <-- DryRun
Governance <-- GovernanceLedger
                                    <-- GovernanceProofs      <- MCGovernance
HarnessLedger, HarnessEvidence <-- Harness
               HarnessEvidence <-- HarnessPlans               <- MCGovernance
```

The middle column holds the proofs, the right one what TLC runs; neither depends
on the other. A run that checks two specifications side by side has one module
of proofs for the two.

Three abstract specifications say what one level promises the next:

- **ProjectMutex**: one caller at a time holds the project. `CompilerLock`
  implements it (as long as no reclaim hits a live process), `ProjectWorld` uses
  it in place of the lock protocol.
- **ProjectHistory**: memories are only added, the committed chain of events
  only grows by one. `ProjectWorld` implements it when the project is governed.
- **ChildCall**: a model call may give up while its child is still being
  created, and every child that turns up is released. `SubagentRun` implements
  it, liveness included; `Session` runs one per model call, and
  `CallsKeepPromise` checks that it keeps to it.

Two more abstractions are one level's step in the next: `FactStore` shows that
a file written by link is there whole and unchanged once it is there, and lost
only to a loss of power, and in `FactWorld`, where power is not lost, it is one
step; `Governance` says what a chain means, and in
`ProjectWorld` an event deactivates a memory.

### CompilerLock (`generation-store.ts`)

A caller is one call of `acquireCompilerLock`. Each action is the work between
two awaits on the file system, so calls of one process interleave as well as
processes. `file` is what the path names (inode, owner, whether the record is
complete); an inode number is free again once no path and no handle refers to
it, so reuse, which the code defends against by comparing device and inode, does
happen. The path through the code is `TryCreate`, `WriteRecord`, `SyncRecord`
(or `CreateFails`, `UndoCreate`); on EEXIST `OpenExisting`, `VerifyExisting`,
`JudgeOwner`, `RestatDeadLock`, `UnlinkDeadLock`, and one more `TryCreate`; the
release closure is `BeginRelease` to `ReleaseUnlink`. `Fails` is any file
operation of the inspection or the reclaim that fails: the call throws, and the
path stays as it is. `ReleaseFails` is one of the release, which `Swallow`s the
error; `UndoCreate` may fail likewise. `Crash` kills a process.
The history variable `stolen` records that a reclaim has unlinked the file of a
live process. Not modelled: files planted by others (links, modes), and reuse of
a pid by the operating system.

### ProjectWorld (`v2/`, `governance/`)

State: what is on disk, who holds the lock, and what each running call
remembers. One program counter per call; `consolidate` goes `judge - readPointer
- readWorld - listMemories - readGoverned - navigate`, then for a governed
project `lockGoverned - recheck - putMemory - putCatalog - rebuild`, for a
legacy one `putMemory - putCatalog - lockLegacy - compileLegacy`; `commit` and
`applyProposal` go `lockTransaction - load - writeEvent`; all publish by
`snapshot - stage - switch - unlock`. Where the code swallows an error (the
catch around the governed read) so does the model. `IOFails` lets any file
operation of the step ahead fail, `SwitchNotSynced` the sync after a successful
rename, `Crash` kills a process with its calls. Abstracted: a catalog is the set
of memories attached in its tree and the call that wrote it; an event is the
chain that ends with it, and its effect is which memory it deactivates; the walk
through the category tree attaches or fails.

### Governance and GovernanceLedger (`governance/replay.ts`, `projection.ts`, `ledger-store.ts`)

`Governance` is the meaning of a chain, without state: `Payloads` are the events
whose references resolve, `World` folds the six actions over the chain and
leaves out what a revert masks, `Visible` is what the projection serves, and
`Footprint` the memories whose history lists an event, which follows references
through the chain. A replay is a recursive function over the places of the
chain. An event is its place in the chain, since its hash covers its place and
its predecessor. `GovernanceLedger` is `commit` over a file boundary: each
process enters the boundary by its lock file, reads the head, writes the event,
loads the chain again, replays it with the candidate, and switches; the
`finally` of the boundary removes the lock file whoever made it, so two
processes do meet inside. A process may fail at any step, die, and be asked
again.

### SubagentRun (`v3/dsh-subagent.ts`)

One run of `runDshSubagentV3` with the host around it. JavaScript is single
threaded, so what interleaves are promise reactions: `jobs` is the first-in
first-out queue of this run's reactions; an abort or a host event may fall
between any two, a timer fires only when the queue is empty. Every await, flag
(`createCancelled`, `createTimedOut`), listener and the `finally` of the code
has its counterpart. There are no parameters, and TLC explores all of it. Two
effects of an abort that falls between the creation's victory in the race and
the reaction to it are visible in the state space and harmless: the child may be
disposed of twice (each disposal has its time limit, and a failure of it is
swallowed or logged), and a follow-up may be sent to a child that is being
disposed of; the run ends all the same (`CallerReleased`).

### Session (`observer.ts`, coordinator, barrier, task sets)

The plugin in one process, v3 mode (the only one an entry point selects). Each
consolidation and each call of the recall tool has a `stage`, each model call a
`ChildCall`. `TurnEnd`, `RunScheduled`, `Start`, `Finish` are the event handler,
the `setImmediate` callback and the two ends of `MutationCoordinator.run`;
`tail` is its map `queues`, and `prev` the promise an operation is chained to.
`WaitAtBarrier`, `DisposeAgent`, `BeginCleanup` take the snapshots the code
takes, at the instant it takes them; `...Returns` and `ContinueCleanup` are the
code after the await. An agent that is gone may still be resolved through the
host's registry, so `TurnEnd` does not require it to be up. The host awaits the
flush of a session before it disposes of it, as the comment in `observer.ts`
(392-394) says. `count`, `rank`, `known` are history: the order of registration,
and what had been registered when a wait began.

Two facts about wiring that a reader should know. The governance runtime takes
its coordinator as an optional parameter, and no entry point of this version
creates one with the plugin's; `ProjectWorld` gives all the mutations of a
process one coordinator, as the governance protocol (its section 11, line 609)
requires. And in v2 mode the observer calls `consolidate` without the
`setImmediate` step; that mode is not modelled.

### MapRecall (`v3/map-recall-tool.ts`, `map-first-recall.ts`, `map-offer.ts`, `recall-pre-step.ts`, `v2/recall-runtime.ts`)

Recall in the turns of one agent. A generation is a catalog tree, no deeper than
`validateTree` allows, with memories at its nodes; `current` is the one
`CURRENT` names, and `Switch` replaces it (a consolidation attaches a memory,
governance hides one). `BeginTurn`, `ReadWorld` and `Bind` are the pre-step
handler around its two awaits; the signal is looked at before the read of the
world and not after it, so a bind may come after an abort or even after the
agent is gone. A page is the set of the entries whose rank in the order of their
ids falls into it; the titles a decision takes are a sequence. `CallTool` takes
the binding from `offered` to `running` or refuses; `ChooseRoot`, `Expand`,
`ChooseTitles`, `Confirm` are the four stages, with pages, limits and depth, of
the walk over the map, and of the earlier walk with its budget of steps instead
(`Exhausted`); `FallBack` goes from one to the other. What a child answers is
any selection: `Decisions`. `TurnEnded` is `consumeUsedRefs`, `Dispose` is
`clearAgent`. `served`, `aims`, `seen`, `read` and `due` are history.

### FactStore, FactWorld, FactRetrieval (the first generation)

`FactStore` is `atomicWriteFact` and `readFactFile` for one path: make the
directories that are missing, create a temporary file, write, sync, link, sync
the directory, unlink, read back; EEXIST leads to the winner's file. Any step
fails, a process dies, and `Outage` loses what was not synced: bytes, the entry
of the path, and the directory itself when it was made since the last start,
because `ensureDirectoryChain` does not sync what names it. `syncs` says whether
the platform syncs directories at all (on win32 the code goes on without).
`FactWorld` composes the calls that remember, promote and
forget, each a sequence of reads and one write followed by `compile` under the
compiler lock: the store is read scope by scope (`ReadShort`, `ReadLong`,
`ReadForget`), an inconsistent reading is refused (`Closed`), and generation,
manifest and `CURRENT` follow one another (`Stage` ... `SwitchCurrent`). Calls of
one process go through its coordinator; `Fault` and `Crash` end a call anywhere.
`FactRetrieval` adds `Search`, which leaves a grant in a registry of fixed size,
`Clear`, as an operator what `open` answers at any moment (`OpenOutcome`), and
the list: `ListBegin`, one `ListRead` for each of the three kinds of records in
the order of the code, `ListReturn`, with the steps of all other calls between
them; `Listed` is what it shows of what it has read.

### Canary, DryRun and their documents (`m05d2/`, `m05e/`, `m05f/`)

`CanaryApproval` is the chain of documents from an audit of the provider to a
person's approval, each holding the ones it names, and the conditions under
which an execution finds its world unchanged (`WorldHolds`). `CanaryLedger` is
the budget ledger, the diagnostics of failed calls, and the validation of
receipts and summary. `Canary` is `runRealCanaryD2`: claim, isolation, bridge,
per run a task whose agent calls the provider some times and an acquisition
call, the timers of call and batch, late settlements, receipts, summary, and the
death of the process; `Abandon` is the end without a summary when the fixtures
cannot be loaded. `DryRun` is `runIsolatedProfileDryRun` with the traps it puts
in place of the process's network functions: `fibers` are the plugins whose
handle the call holds, `alive` those installed, and a disposal, which clears the
handle first, may throw and leave its plugin installed.

### Harness (`m07b/`)

`Harness` composes the harness process of each execution, the process group it
spawned last, and that agent's streams; they share the disk (`disk`) and
nothing else. `PrepareRoot`, `ClaimApproval`, `NextRun`, `Executes`, `CleanUp`
are the runner; `Load`, `Look`, `Flush`, `Receipt`, `Exit` the agent with the
patches it loaded (sidecar, resume driver); `Create`, `Write`, `Finish` a
stream that claims a request by creating the lowest free number, calls the
model, and records the outcome (`HarnessLedger`). `PassBy` is a request the
sidecar sends on without a claim: one for a title or an acquisition, or whose
text mentions either. `HarnessEvidence` holds the product's tools as the agent
meets them, each one step, since `FactWorld` has them in full (`Answer`: a
session is shown its own short-term memories, may promote and forget only
those, and remembers nothing it or a promotion has), and what is believed of a
run: evidence from the session's events, snapshots of the project's memory, the
predicates of the six runs and the report's validation. What an agent does is a
constant `Plans`, of which `HarnessAssumption` asks no more than that a call to
promote names a short-term memory; `HarnessPlans` has the tasks done right
first and then ways of doing them wrongly. `trouble` bounds deaths, survivors,
failures, tampering and disobedience.

## 3. The runs

| run | instance | states | shows |
|---|---|---|---|
| `Lock` | 3 calls, 2 of them in one process, 3 inodes, 1 crash, any file operation may fail | 87,763 | `ExclusionBeforeCrash`, `OwnerKeepsFile`, `MutexSteps`, `NoLockLeft`, `DeadLockReclaimed` |
| `LockReclaimRace` | 3 processes, 1 crash | violation | `MutualExclusion` fails: two reclaims of one dead lock |
| `WorldOneProcess` | 6 calls (3 consolidations, 2 of them of the same memory, commit, proposal, recall) in one process, legacy project | 147,471 | `AcknowledgedServed`, `NeverBack`, `ImplementsHistory` |
| `WorldFaults` | 4 calls in 2 processes, empty project, one may die, any file operation may fail | 237,560 | `CurrentClosed`, `CallsReturn`, `AppliedAsReviewed` |
| `WorldLostMemory` | 2 consolidations in 2 processes, legacy project | violation | `AcknowledgedServed` fails |
| `Subagent` | everything | 494 | `ChildrenAccounted`, `CallerReleased`, `ImplementsCall` |
| `SessionTurns` | 2 sessions of one project, 3 deliveries of 2 turns, a recall wait, a session that closes; and, apart, recalls of one agent | 1,339,942 | `TurnOnce`, `OneAtATime`, `PublishedInOrder`, `BarrierCovers`; `ToldAndUsed`, `SteadyFinds` |
| `SessionEndings` | 1 consolidation and 1 recall tool call against flush, close, disposal and cleanup | 270,668 | `DisposeCovers`, `QuietAfterCleanup`, `HandlersReturn`, `CallsKeepPromise` |
| `FactStore` | 3 writers of one path, 2 calls each, any step fails, processes die, 1 loss of power; a directory old or new, synced or not | 3,987,113 | `CreatedIsDurable`, `AnswersAreTrue`, `PublishedForEver` |
| `FactCalls` | 3 calls about one memory, 2 processes, 2 sessions, 1 failure or death, a registry of 1 grant, 2 searches, 1 list | 361,124 | `ServesAnswers`, `CurrentVerifies`, `DisclosedOpens`, `ListIsOfOneInstant`, `CallsEnd` |
| `Canary` | 2 executions under one approval, 2 runs of 2 task calls; and, apart, a dry run | 339,137 | `SummaryAccepted`, `DiskAccounts`, `ExecutionsEnd`; `TrapsHold` |
| `Governance` | 3 memories, 5 events, 2 processes; and, apart, executions of the harness | 451,790 | `ChainServes`, `BudgetHolds`, `FootprintTold`; `PassEarned` |

Three runs check two specifications that share no variable, each in behaviours
of its own (one of the two stands still), so that each space is explored in
full and their product is not: `SessionTurns` (391,102 of its states are
`Session`'s), `Canary` and `Governance`.

The type invariants of `CompilerLock`, `ProjectWorld`, `Session` and
`FactStore` are theorems; `FactWorld`'s is a part of `CurrentVerifies`,
`SubagentRun`'s of `ChildrenAccounted`. The proofs of the other specifications
type the variables in their own invariants.

**Bounds.**

- *Lock, world, session.* `MaxCrash = 1`: the hazards of a crash are what the
  dead process left and who cleans up after it; what two crashes could add is a
  second dead lock, and there is one path. Three callers are what a reclaim race
  takes (a dead one and two that reclaim) and what it takes to see a call of the
  same process among the others. Three memories and three consolidations allow a
  duplicate, a foreign memory and a seed. Few inodes force reuse: `Lock` has
  three, `LockReclaimRace` four, which its three processes can hold open at
  once. `MaxCalls = 1`: a second model call of a consolidation begins from the
  same stage as the first, in the same sets. `Occurs` names the waits and
  endings that may come; the two runs of `Session` split the question, since the
  turn chain and the endings together are beyond a few minutes.
- *Recall.* Undisturbed recalls: every tree of four nodes and depth three, up to
  names, with two memories anywhere in it. Disturbed ones (two turns, two tool
  calls, one switch, abort, disposal): a flat tree that takes two pages. The
  limits 6, 5 and 3 of titles, summaries and bodies are 2, 1 and 1, the page is
  3, so each limit is reached; the budget of steps of the earlier walk is the
  code's 8.
- *First generation.* One path in `FactStore`: files do not interact before
  `FactWorld`. Three writers: a winner, one that lost to it, and one that comes
  when both are gone. In `FactCalls` one call of the three adds the memory, one
  promotes, forgets or repeats it, and one of another process and session forgets
  the promotion or adds a memory of the same text; a registry of one is full at
  once. One list (`MaxLists = 1`) at each time a call may give, begun and read
  between any steps of the calls: lists do not see one another.
- *Canary and harness.* Two runs with two task calls have a call that is first,
  one that is last, and a run that must not begin after a failed one; two
  executions, one spending after the other, are what a spent approval takes.
  One use of the network by something else in the process (`MaxTrapped = 1`)
  makes a count go wrong. The harness has its six runs in full, and 6 requests
  for the code's 18: the first run past the budget is then within reach. Agents
  follow one of the plans of `HarnessPlans`; that other plans may show more is
  why the proof is for any. Two executions have at most one trouble once both
  take part, one execution at business level at most two.
- *Governance.* Five events are a deactivation, a merge or replacement of its
  result, a revert, a revert of that and one more. Two processes race only on
  deactivations: what they may publish does not depend on the action.

The proofs of section 5 need none of these bounds.

**Deadlock** is not checked except in the runs of `CompilerLock`: elsewhere
every call ends and nothing remains to be done. `CallsReturn`, `CallerReleased`,
`HandlersReturn`, `CallsEnd` and `ExecutionsEnd` say that nobody is stuck.

**Fairness.**

- `CompilerLock`, `ProjectWorld`, `FactWorld`: weak fairness of each call's
  steps. A process that is alive runs its event loop; a file operation returns,
  well or badly. For the two worlds also of `Begin`: the coordinator starts the
  next call of its queue. `DeadLockReclaimed` assumes in its own statement that
  live processes keep asking and that file operations fail only so often.
- `SubagentRun`: weak fairness of the reactions and the timers (creation
  timeout, disposal timeout). Nothing of the host: a creation may stay open, a
  child may never become idle, a disposal may never settle.
- `Session`: weak fairness of the callbacks, the handlers, each consolidation
  and each call. A child that may finish does, which is an assumption about the
  model behind it: the code has no time limit on a child that works, by design
  (only an abort ends it). Creations and disposals by the host get no fairness:
  their time limits are `GiveUp` and `Return`. Without fairness of
  `HostAnswers`, `HandlersReturn` still holds.
- `Canary`: weak fairness of the program's own steps and of its timers. Nothing
  of the provider and the agent: a call may never settle.
- `MapRecall`, `FactStore`, `Governance`, `Harness` have safety properties only.

## 4. What disagrees with the documents

| run | the code | what is said |
|---|---|---|
| `LockReclaimRace` | `generation-store.ts` 486-488 checks the inode, then unlinks the path; a second reclaim between the two removes the new lock | `tests/generation-store-security.spec.ts:181`: "Compiler Lock with dead PID is safely reclaimed after inode verification" |
| `WorldLostMemory` | the legacy publisher (`v2/okf-compiler.ts` 213) locks only to publish and does not compare `CURRENT` with what `consolidate` read | governance protocol, line 609: shared serialisation "避免 CURRENT lost update" |

Three more, which the same models show under an instance of their own and which
have no run:

- any failure of the governed read counts as a project not yet published
  (`consolidation-runtime.ts` 279); the governance protocol, line 568: "不允许退回
  legacy manifest";
- a memory that was written and never published is refused as
  `governance_hidden_duplicate` for ever, where
  `tests/governance-production.spec.ts:46` means a memory hidden by governance;
- a call that gives up leaves the child being created to a reaction nobody
  awaits (`dsh-subagent.ts` 192); the lifecycle design, lines 58 and 78, waits
  for their final release before the parent exits.

Behaviours met while modelling that a maintainer may want to know of, none of
them against a property checked here:

- *World.* A reader that has read the marker of a legacy generation when
  `CURRENT` is switched to the first governed one reads that as a legacy one and
  fails (`versioned-generation-store.ts` 71). A legacy consolidation that read
  the project before another process governed it publishes a legacy generation
  over it, the same unguarded switch as in `WorldLostMemory`. The release
  closure checks and unlinks in two steps (`generation-store.ts` 517-519), like
  the reclaim. A release that fails is swallowed (522), as is a failed undo
  (445): the lock of a process that lives on then stays, and every call is busy
  until that process ends; `NoLockLeft` says that nothing else leaves one.
- *Governance.* The lock file of the file boundary is removed by whoever leaves,
  even one that found it there (`ledger-store.ts` 211): of two commits that
  answered, the chain may then hold one, and no property here catches that:
  `ChainServes` speaks of what `CURRENT` names. A commit that died between event and
  switch can be repeated only with another `created_at`.
- *Endings.* The lifecycle design, section 4, waits first and cancels then, the
  code cancels first. The recall tool's children get the host's signal only
  (`map-recall-tool.ts` 100), so a disposal waits for them instead of aborting
  them.
- *Recall.* After a fallback the answer names the pinned generation, though the
  memories come from the one `CURRENT` names by then. The receipt's
  `summary_refs` hold only confirmed memories. A turn that ends while its tool
  runs loses the refs that are used later. A memory hidden between offer and
  answer is still told, since the turn is pinned. A child selected together with
  memories wins over them; six titles may be selected and five summaries are
  read. `createRecallPreStepHandlerV3` and `runRecallSubagentV3` have no caller.
- *First generation.* A remember that matches a forgotten fact answers that the
  memory is known, though it is not served. A promotion asks neither whether its
  source has expired nor whether it is forgotten. `evaluation_at` is the
  caller's, so the time of `CURRENT` may go back. The directories a fact needs
  are made without syncing the ones that name them (`memory-store-path.ts`
  174-195; only the fact's own directory is synced, `memory-store.ts` 355), and
  on win32 a directory that cannot be synced is passed over (94, 104): a loss of
  power may take a fact that was acknowledged as created together with a new
  directory. `CreatedIsDurable` and `PublishedForEver` except both. A list reads
  short-term facts, promotions and forget records in this order
  (`management-runtime.ts` 104-106): a memory that is promoted after the second
  reading and whose source is forgotten before the third is missing from that
  list, though its promotion is served throughout. A writer that meets a link
  whose directory entry is not yet synced answers before it is durable. A
  compilation that reads the store in the middle of a promotion elsewhere may
  fail with `invalid_input`. A disclosed memory can be opened after it was
  forgotten. The registry forgets the oldest of 256 grants.
- *Canary.* The bridge is made before the `try` whose `finally` removes the
  isolation (`m05d2/runner.ts` 1641): if that throws, the root stays, the claim
  is spent and there is no summary. A receipt may stand on disk although its
  write was answered with an error. A second approval on the same root spends
  calls whose receipts collide with the first's, and its summary can never be
  published (1791, 1912). A fifth task call is refused without the circuit being
  told. A network function that is trapped between check and restore appears in
  a result that succeeded. A plugin whose disposal threw in a dry run is not
  disposed of again, for its handle was cleared first (`m05f/dry-run.ts`
  117-122), and the network functions are restored all the same (362-368): it
  may stay installed without traps, and the dry run throws.
- *Harness.* The sidecar sends requests on without a claim when their purpose
  is a title or an acquisition, or when their text mentions a session title or
  memory extraction (`m07b/audit-sidecar.js` 149-159): neither the budget nor
  the report counts them, a turn may be answered by one, and nothing bounds how
  many there are. An agent that runs without the sidecar claims nothing either;
  its report does not pass. A second approval on a root where another execution
  runs or has died: the sidecar refuses its own receipt as existing, the agent
  goes on, and what the other execution left is taken as evidence; `PassEarned`
  needs an execution to have the root to itself. Evidence covers a whole
  session, so calls of run 2 count in run 3. A flush that fails is swallowed.
  The circuit breaker may close again when a late `completed` falls between two
  errors. A ledger that cannot be read counts as no requests. The predicate of
  run 5 (`predicates.js` 345-408) asks for a forget that is answered and
  repeated, and for the promoted memory to have a forget record and to be out
  of the index, and not which memory the forget named: an agent that forgets
  the promoted one in run 4 and another in run 5 passes, and so `PassEarned`
  says run 4 or run 5. An agent that survives its run recreates the root and
  gets a fresh budget. Run 3 does not tie the promoted memory to run 1's except
  through the index. A failed prepare leaves its root.

## 5. What is proved

All theorems are about the specifications without liveness. They hold for every
value of the constants that satisfies the modules' assumptions: functions are
total, `None` and its like are not among the other values, limits are natural
numbers, and (`SessionAssumption`, `RunsAssumption`, `GovernanceAssumption`,
`RecallAssumption`, `HarnessAssumption`) what the code's own validation gives: a
canary has runs of the known kinds, memories are finitely many and not nodes,
pages and limits are not zero, a call to promote names a short-term memory. TLC
evaluates the assumptions in every run.

Every invariant that a run checks is stated by a theorem, and so is every action
property. Steps are split until a leaf takes a fraction of the time the
provers have for it, so that the proofs do not hang on the speed of a machine;
one leaf of `CanaryProofs` states a limit of its own.

**CompilerLockProofs.** `IInv` strengthens the type invariant by: calls of dead
processes are idle (`DeadAreIdle`), a call inspects a record it has opened
(`SeenIsRecord`), and `OwnerKeepsFile`. Mutual exclusion alone is not
inductive: it does not say that a holder's file is at the path, so another call
could create one. `ReclaimAfterCrash` adds that a reclaim takes a death.
`TypeCorrect`, `OwnerKeeps`, `ExclusiveBeforeCrash`; then, with crashes, that
exclusion (`ExclusionUnlessStolen`) and the hand-over of the abstract mutex
(`HandsOver`, `Refinement`) hold until a reclaim hits a live process, which is
what `LockReclaimRace` exhibits. `NothingLeft`: a call that ends leaves its
lock behind only by a release or an undo that failed, or by a death. Every
theorem of `ProjectWorld`, which uses the abstract mutex, is under that same
condition when read of the code.

**ProjectWorldProofs.** Without any hypothesis:

- `CrashConsistent`: whatever fails or dies and wherever, `CURRENT` names a
  complete generation whose references are on disk. `IInv` adds, per call, what
  it has put on disk by where it is (`OpReady`); the lemma `DiskGrows` (nothing
  is ever removed) carries each call's part over the steps of the others.
- `ProposalsAsReviewed`: a proposal takes effect only on the very generation it
  was reviewed against. `SInv` adds who has the lock while a call publishes,
  hence that `CURRENT` is still what the proposal was compared with.

On a governed project whose files can be read (`SeedWorld = "governed"`,
`IOFaults = FALSE`), for any number of processes: `GovernedHistory` (the world
implements `ProjectHistory`), `GovernedNeverBack`, and `GovernedAcknowledged`
(what a call was answered stays in force). `GInv` adds that every call took the
project for a governed one, works on the catalog of `CURRENT`, and publishes one
step of history; `AInv`, that what it publishes holds what it was called for
(`Carries`) and what was answered is served (`Acked`).

From any world, when one process makes all the mutations (`OneMutator`, any
number of others recall) and its files can be read: `OneProcessAcknowledged`,
`OneProcessHidden` (which no run checks: a memory answered as hidden is in the
raw catalog), `OneProcessNeverBack`, `OneProcessHistory`, the latter two also
while an empty or legacy project becomes governed. The coordinator gives one
mutation at a time to the world (`Alone`), so what it has read is current until
it publishes (`OpFresh`), it publishes an extension of `CURRENT` (`Extends`),
and a memory on disk is served or about to be (`Reached`). When that process
dies its mutations end; one that is started after it counts as a second.

None of these hypotheses can be dropped. A second process loses a memory of a
legacy project (`WorldLostMemory`), and takes a memory that the first has
stored and not yet published, or will never publish, for one that governance
hides. A read that fails makes `consolidate` take a governed project for a
legacy one (section 4).

**SubagentProofs.** `ChildrenReleased` is `ChildrenAccounted`; `RunIsCall`: each
step of a run is a step of `ChildCall` or none. TLC covers all of this model,
which has no parameters; the proof gives the reason. What is behind it is the
queue of reactions: no reaction is due twice (`DueOnce`), the function waits
exactly as long as its continuation is due (`RaceKept`), a race is lost only for
a reason that sends a late child away (`LossKnown`), a timer that has fired is
first in the queue (`TimeoutFirst`), and a delivered child waits for its
reaction, is in use, or was disposed of (`Delivered`).

**SessionProofs: endings and turns.** `TypeCorrect`; `BarrierSound`,
`DisposeSound`, `CleanupSound` from `WInv`: the barrier holds exactly what is
registered and has not settled (`Books`), each wait covers what it is due
(`Covered`), a parent's set tracks all its consolidations while the agent is up
(`Tracked`), and the cleanup waits for all the barrier holds (`Emptied`).
`OnceOnly` from `Remembered`: what was registered is among the handled turns
until its session closes. `CallsAreChildCalls`: no step does anything to a model
call but what `ChildCall` allows, since a call that has not begun has no child
and one that runs has a live one (`CallInv`).

**SessionProofs: order.** `ChainInvariant`, `NeverTwo` (one consolidation of a
project at a time) and `InOrder` (memories are published in the order their
turns ended). That two operations are not at work at once is not inductive: an
entry of `tail` removed too early would let a third one start. `SInv` says how
the chain hangs together by age: a project's tail is its youngest chained
operation (`Tails`); an operation with an older one in the chain hangs on a
chained one not older than that (`Links`); what is at work hangs on nothing that
is chained (`Going`); callbacks are younger than all that is chained (`InLine`);
what is published is older than what is chained (`Written`).

**SessionProofs: recall.** `RecallInvariant`, `ToldWasServed`,
`SteadyRecallFinds` (a recall whose decisions lead to one memory finds it), for
every catalog the code accepts, every page size and limit. `RInv`: what a
handler read or a tool is bound to was served in its turn (`Timely`); a binding
has one call, and is found until the turn's end was handled or the agent cleared
(`Owned`); a walk is at the depth and step its stage says, has what it aims at
below the node where it is, and nothing in sight that is not attached
(`Guided`); what was taken as used was told (`UsedIsDue`). That no walk runs out
needs the levels of the tree (`Level`: a node is at most three below the root),
which give the earlier walk at most 7 of its 8 steps; that a page never hides
the memory sought needs that every entry is on exactly one page, from its rank.

**FactStoreProofs.** `Typed`, `Durable` (where directories are synced, what a
creation has answered for stays, a loss of power included, for as long as the
directory it lies in does), `Truthful` (nobody is given another content than
the one at the path), `Published` (what is at a path never changes, and goes
only with a loss of power: if its entry was not yet synced, or with a directory
made since the last start, whose own entry the code never syncs). The invariant
adds how far each writer's temporary file has come (`Progress`) and that what
is linked was synced in full before (`Whole`).

**FactWorldProofs.** `Answers`: what remember, promote and forget were answered
is what `CURRENT` serves, for any calls in any processes and whatever fails or
dies. That an answered call is served is not inductive, since another call may
be about to switch `CURRENT` to what it compiled of an earlier reading. The
argument is the lock's: a call is answered while it holds the lock, so the one
that compiles acquired it after every answered call had stored its fact
(`Prepared`), reads all of those (`Covers`, scope by scope), and what it is
publishing serves them as well as `CURRENT` does (`Serving`). Fits-what-was-
answered is kept by the growth of the store (`FitsStays`), since a fact is only
added, promoted or forgotten. `Verified` rests on `Compiling` and `Whole`: facts,
manifests and generations never go, and `CURRENT` is switched to what was
verified. `Openable` adds to them that a grant is of a generation that verified
and for what its session sees in it (`Granted`). `ListsOneInstant` relates what a
list in the middle of its readings holds to the store at three times: when it
began, when it read the promotions, and now. The store only grows, so what is
active now and was active at the first reading was active in between, and the
promotions are read after the sources and before the forget records.

**CanaryProofs.** For any executions, approvals, runs and limits, crashes
included: `DiskSound` (`DiskAccounts`) and `SummarySound` (the summary an
execution builds passes the validation it must pass, whatever failed and in
which order). The validation recounts everything from receipts and diagnostics,
so `CInv` relates an execution's memory to its ledger by where it is
(`ExecutionHolds`): receipts tell of the first calls in order (`ReceiptsHold`),
the run at work has the calls after those (`RunHolds`), all of them are finished
but the one being made until something fails (`GoingHolds`), a stream left open
is that of a call that has not failed (`OrphanHolds`), and an execution that
winds up has settled what it left (`WindingHolds`). And it relates files to
memories: the receipts on disk are those the execution knows of and at most one
more, whose write was answered with an error (`OnDisk`), an approval has one
claim (`OnceClaimed`), a summary is the last thing its execution does
(`SummaryOnDisk`). `TrapsSound` is about the dry run: who has begun and has not
restored is alone and holds the traps, and what is installed without a handle is
of a call that has failed (`DInv`); a plugin may so outlive the traps, but never
after a dry run that succeeded.

**GovernanceProofs: the ledger.** `ChainAlwaysServes` and `FootprintIsTold`, for
chains of any length and any number of processes. `LedgerInv` is about the
commits: what `CURRENT` names, and what a process is about to publish, are
chains whose references resolve (`Formed`), that are stored and can be replayed.
The rest is about what a chain means:

- every world a replay reaches is `Sound`: its conflicts are unresolved
  `add_conflict` events between active memories, and following replacements ends
  (`Acyclic`: each memory has a set closed under replacement that it is not in);
  `Projects` and the absence of cycles follow;
- replays of two chains with the same beginning and the same masks are the same
  up to there (`ReplayAlike`), so a revert of the latest event in force leaves a
  chain that was accepted before, and is accepted (`AcceptsLatest`);
- an event writes to the same memories in every world in which it goes through
  (`RevertedApart`, `OthersUnchanged`), so the worlds with and without it differ
  in the memories of its footprint only, also when later events were built on it.

**GovernanceProofs: the requests of the harness.** `BudgetIsBound`: while a root
stands, every number of its ledger serves at most one call to a model, a call
made under a number has its claim, and an outcome its call; so at most
`MaxRequests` calls are made under the ledger. Nothing is said of calls made
without a number: those of an agent without the sidecar, and those the sidecar
passes by. `HInv`: while the root stands, the ledger accounts for
the streams, each claim is of one stream (`Claims`, `Apart`), and what was sent
was claimed before (`Paid`). `Beginnings` is needed for the first step: before
an execution has begun nothing runs, so a new root starts with an empty ledger.

**GovernanceProofs: a report that passes.** `PassIsEarned`, whatever the agents
plan and whatever dies, fails or is tampered with. `PInv` adds to `HInv` when an
execution is alone on its root (`Untouched`, `Outside`, `SpentOnce`, `Lone`) and,
for one that is and has not failed, what each file under the root proves. A
receipt, a resume receipt or evidence of a run is of the process that was
spawned for it (`Receipts`, `Evidence`, `Sessions`), evidence is `Backed` by
what was said in that session, what was promoted before run 3 was promoted in
run 1's session (`Promotes`), the memories it goes by are kept and the promoted
one is forgotten in runs 4 and 5 only (`Keeps`), and every request made has a
claim, those passed by excepted (`Counting`). `Found` is what the judgements
have then established, run by run; `Reports`, that the report's counts are those
of the execution.

**How far induction over data goes.** The library's induction theorems cannot be
instantiated here, but the well-foundedness of `<` on the naturals can be cited
as a fact about sets (`NatLessThanWellFounded`, `WFMin`), and "a set that holds 0
and every successor holds every number" follows from it. With that the lemmas
about recursive functions are proved: the claims of a sequence of receipts, the
pages of a node, the fold of a session's events, the replay of a chain. This is
why those are recursive functions of a set of numbers in the models. `RECURSIVE`
operators, which tlapm does not take, are in none of the modules a theorem is
about.

**Model-checked only.** Liveness: `DeadLockReclaimed`, `CallsReturn`,
`CallerReleased`, `HandlersReturn`, `CallsEnd`, `ExecutionsEnd`, and the release
of late children in `ImplementsCall` and `CallsKeepPromise`, whose steps
`RunIsCall` and `CallsAreChildCalls` prove. The provers do not do liveness under
fairness.

## 6. Not modelled

- *Validation field by field* (`protocol/`, `okf-schema.ts`, `okf-render.ts`,
  the schemas of the canaries): pure functions on one record, without state or
  order, which unit tests reach. Where a validation ties records of different
  moments together (replay of a chain, receipts against a summary, evidence
  against a run) it is modelled.
- *Scopes, configuration, display, logs* (`scope.ts`, `config.ts`, `tools.ts`,
  `status`): no state beyond what `Session` has.
- *The queue of `acquisition-runtime.ts`* and the extraction of evidence from a
  session: no entry point of this version starts the queue, and the extraction
  is a function on text.
- *Bytes*: rendering of pages and maps, hashes, encodings; identity of content
  is equality of values.
- *Offline batches* (`m05c/`, `m05d/`, the fixture retrieval) and the preflight
  of `m07`: they run on fixtures, sequentially, and keep no state that another
  run reads.
- *`scripts/` and test hooks*.
- *v2 observer mode*, which no entry point selects.
- *Planted files and reuse of a pid*: links, modes and processes the program
  does not make. A lock left empty by a death between creation and record, and
  one whose pid was given to another process, have no property: such a lock
  stays busy, as the code intends.
