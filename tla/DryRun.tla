------------------------------- MODULE DryRun -------------------------------
(***************************************************************************)
(* The isolated dry run of the planning gate (src/src/m05f/dry-run.ts):    *)
(* the provider's plugin is installed and streamed through once in a       *)
(* temporary root while the network functions of the process are replaced  *)
(* by traps that count and throw.  The traps are global: one dry run at a  *)
(* time holds them, and whatever else the process does meets them too.     *)
(* What it counted makes a plan (CanaryApproval), or no plan.              *)
(***************************************************************************)
EXTENDS CanaryApproval

CONSTANTS
    Dry,       \* calls of runIsolatedProfileDryRun
    MaxTrapped \* bound: trapped calls of one dry run

VARIABLES
    active,    \* isDryRunActive
    network,   \* who holds globalThis.fetch and its like: "original" or a call
    dry,       \* the memory of each call
    root       \* calls whose temporary root exists

dryVars == <<active, network, dry, root>>

(* fibers: the handles the call still has; alive: what is installed.       *)
Resting == [pc |-> "idle", saved |-> "original", fibers |-> {}, alive |-> {},
            observer |-> FALSE, streams |-> 0, resolves |-> 0, network |-> 0, clean |-> FALSE, paths |-> FALSE,
            failed |-> FALSE]

DryInit ==
    /\ active = FALSE /\ network = "original" /\ root = {}
    /\ dry = [d \in Dry |-> Resting]

DrySet(d, s) == dry' = [dry EXCEPT ![d] = s]
DryAt(d, pc) == dry[d].pc = pc

(* Mutant of Begin: two calls may run at once.                             *)
BeginUngated(d) ==
    /\ DryAt(d, "idle")
    /\ active' = TRUE /\ network' = d
    /\ DrySet(d, [dry[d] EXCEPT !.pc = "prepare", !.saved = network])
    /\ UNCHANGED root

(* One call at a time: another is refused, and changes nothing.            *)
Begin(d) ==
    /\ DryAt(d, "idle")
    /\ IF active THEN DrySet(d, [dry[d] EXCEPT !.pc = "refused"]) /\ UNCHANGED <<active, network>>
       ELSE /\ active' = TRUE /\ network' = d
            /\ DrySet(d, [dry[d] EXCEPT !.pc = "prepare", !.saved = network])
    /\ UNCHANGED root

Plugins == {"runtime", "provider"}

Fails(s, pc) == [s EXCEPT !.failed = TRUE, !.pc = pc]

(* A root that could only be made in part is not removed.                  *)
Prepare(d) ==
    /\ DryAt(d, "prepare")
    /\ \/ /\ root' = root \cup {d}
          /\ DrySet(d, [dry[d] EXCEPT !.paths = TRUE, !.pc = "install"])
       \/ DrySet(d, Fails(dry[d], "restore")) /\ root' \in {root, root \cup {d}}
    /\ UNCHANGED <<active, network>>

(* The runtime, the observer of streams, and the provider, in this order;  *)
(* any of them may throw, and what throws while it is installed may be     *)
(* left there without a handle.                                            *)
Install(d) ==
    /\ DryAt(d, "install")
    /\ \/ DrySet(d, [dry[d] EXCEPT !.fibers = Plugins, !.alive = Plugins,
                                   !.observer = TRUE, !.pc = "smoke"])
       \/ \E had, live \in {{}, {"runtime"}, Plugins} :
            /\ had \subseteq live /\ ("provider" \in live => had # {})
            /\ DrySet(d, Fails([dry[d] EXCEPT !.fibers = had, !.alive = live,
                                              !.observer = had # {}], "unwind"))
    /\ UNCHANGED <<active, network, root>>

Counted(s) == s.resolves = 0 /\ s.streams = 1 /\ s.network = 0

(* The stream of the safe adapter, seen by the observer; then the counts.  *)
Smoke(d) ==
    /\ DryAt(d, "smoke")
    /\ \E n \in 0 .. 2 :
         LET s == [dry[d] EXCEPT !.streams = n] IN
         DrySet(d, IF Counted(s) THEN [s EXCEPT !.pc = "provider"] ELSE Fails(s, "unwind"))
    /\ UNCHANGED <<active, network, root>>

(* What was trapped: a use of the network or of the credentials.           *)
Touched(s) == {[s EXCEPT !.network = @ + 1], [s EXCEPT !.resolves = @ + 1]}

(* A fiber leaves the call's hands before it is disposed of, which may     *)
(* throw, and may meet the traps.  A dispose that threw may have left its  *)
(* plugin installed, and nobody tries again.  The provider's route may     *)
(* also still be listed afterwards, which counts as a failure.             *)
DisposeFiber(d, fiber, next) ==
    /\ \E s \in {dry[d]} \cup Touched(dry[d]), left \in SUBSET {fiber}, fails \in BOOLEAN :
         /\ left # {} => fails
         /\ LET t == [s EXCEPT !.fibers = @ \ {fiber}, !.alive = (@ \ {fiber}) \cup left] IN
            DrySet(d, IF fails THEN Fails(t, "unwind") ELSE [t EXCEPT !.pc = next])
    /\ UNCHANGED <<active, network, root>>

DisposeProvider(d) == DryAt(d, "provider") /\ DisposeFiber(d, "provider", "runtime")
DisposeRuntime(d)  == DryAt(d, "runtime") /\ DisposeFiber(d, "runtime", "remove")

RemoveRoot(d) ==
    /\ DryAt(d, "remove")
    /\ \/ /\ root' = root \ {d}
          /\ DrySet(d, [dry[d] EXCEPT !.clean = TRUE, !.pc = "verify"])
       \/ DrySet(d, Fails(dry[d], "unwind")) /\ UNCHANGED root
    /\ UNCHANGED <<active, network>>

Verify(d) ==
    /\ DryAt(d, "verify")
    /\ LET s == dry[d] IN
       DrySet(d, IF Counted(s) THEN [s EXCEPT !.pc = "unwind"] ELSE Fails(s, "unwind"))
    /\ UNCHANGED <<active, network, root>>

(* The inner finally: every handle that is left is used once, and a        *)
(* dispose that throws may again leave its plugin.                         *)
Unwind(d) ==
    /\ DryAt(d, "unwind")
    /\ \E left \in SUBSET dry[d].fibers,
          throws \in {FALSE} \cup {dry[d].fibers # {} \/ dry[d].observer} :
         /\ left # {} => throws
         /\ DrySet(d, [dry[d] EXCEPT !.alive = (@ \ dry[d].fibers) \cup left, !.fibers = {},
                                     !.observer = FALSE, !.failed = @ \/ throws,
                                     !.pc = "restore"])
    /\ UNCHANGED <<active, network, root>>

(* The outer finally: the gate and the functions first, whatever is still  *)
(* installed, then the root of a call that did not remove it.              *)
Restore(d) ==
    /\ DryAt(d, "restore")
    /\ active' = FALSE /\ network' = dry[d].saved
    /\ \E left \in BOOLEAN :
         root' = IF dry[d].paths /\ ~dry[d].clean /\ ~left THEN root \ {d} ELSE root
    /\ DrySet(d, [dry[d] EXCEPT !.pc = IF dry[d].failed THEN "threw" ELSE "success"])

(* Anything in the process that uses the network meets the traps.          *)
Trapped ==
    /\ network \in Dry /\ dry[network].network < MaxTrapped
    /\ dry' = [dry EXCEPT ![network].network = @ + 1]
    /\ UNCHANGED <<active, network, root>>

Call(d) ==
    \/ Begin(d) \/ Prepare(d) \/ Install(d) \/ Smoke(d) \/ DisposeProvider(d)
    \/ DisposeRuntime(d) \/ RemoveRoot(d) \/ Verify(d) \/ Unwind(d) \/ Restore(d)

DryNext == Trapped \/ \E d \in Dry : Call(d)

DrySpec == DryInit /\ [][DryNext]_dryVars

Result(d) == [streams |-> dry[d].streams, resolves |-> dry[d].resolves,
              network |-> dry[d].network, clean |-> dry[d].clean]

(* As long as a call can still dispose of a plugin its own traps are in    *)
(* place, and what outlives them, because its installation or its disposal *)
(* threw, is what a call left that threw itself: no success is reported of *)
(* it.  Once every call has ended, however it failed and whatever else was *)
(* started, the process has its own network functions back; and a call     *)
(* that succeeded left nothing behind (dry-run.ts:73-76, 112-150, 335-373).*)
TrapsHold ==
    LET over == {"idle", "refused", "threw", "success"} IN
    /\ \A d \in Dry : dry[d].fibers # {} => network = d
    /\ \A d \in Dry : dry[d].alive # {} /\ network # d => DryAt(d, "threw")
    /\ (\A d \in Dry : dry[d].pc \in over) => network = "original" /\ ~active
    /\ \A d \in Dry : DryAt(d, "success") =>
         /\ d \notin root /\ dry[d].alive = {} /\ Result(d).streams = 1 /\ Result(d).resolves = 0
=============================================================================
