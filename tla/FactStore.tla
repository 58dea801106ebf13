------------------------------ MODULE FactStore ------------------------------
(***************************************************************************)
(* How one file of the first-generation store is written: atomicWriteFact  *)
(* and readFactFile of src/src/memory-store.ts.  A writer fills a file of  *)
(* its own under tmp/, syncs it, and publishes it with link(2), which      *)
(* refuses a path that exists; it then syncs the directory, unlinks the    *)
(* temporary name and reads the fact back.  Facts, promotions, forget      *)
(* records and manifests are all written this way.                         *)
(*                                                                         *)
(* The module follows one target path and the directory it lies in: the    *)
(* contents that writers may want there stand for facts of one identity    *)
(* and different hashes.  Any step may fail, a writer's process may die,   *)
(* and the machine may lose power: what was not synced is then lost or     *)
(* torn.  The writer syncs the directory, and never the ones above it that *)
(* name it; on win32 a directory that cannot be synced is no error.        *)
(***************************************************************************)
EXTENDS Naturals

CONSTANTS
    Writer,     \* calls that write to the path
    Content,    \* facts of this identity, told apart by content_sha256
    None,       \* no file
    Torn,       \* bytes that are no fact: a file partly written
    MaxCalls,   \* bound: calls each writer makes
    MaxOutages  \* bound: losses of power

ASSUME ContentAssumption ==
    /\ Torn \notin Content
    /\ None \notin [data : Content \cup {Torn}, synced : BOOLEAN]
ASSUME BoundAssumption == MaxCalls \in Nat /\ MaxOutages \in Nat

VARIABLES
    pc,         \* where each call stands
    want,       \* the fact it writes
    result,     \* how the writer's last call ended
    temp,       \* its file under tmp/
    directory,  \* the path's directory: "missing", "made" by a writer since
                \* the last start of the machine, or "kept" on disk before it
    syncs,      \* the platform syncs directories, or reports that it did not
    target,     \* what the path names
    entrySynced,\* the path's entry in its directory is on disk
    acked,      \* history: facts acknowledged as created in this directory
    calls, outages

place == <<directory, syncs, target, entrySynced, acked>>
vars  == <<pc, want, result, temp, place, calls, outages>>

File == [data : Content \cup {Torn}, synced : BOOLEAN]

PC == {"idle", "read", "mkdir", "create", "write", "sync", "link", "winner",
       "dirsync", "unlink", "readback"}

Init ==
    /\ pc = [w \in Writer |-> "idle"]
    /\ want \in [Writer -> Content]
    /\ result = [w \in Writer |-> "none"]
    /\ temp = [w \in Writer |-> None]
    /\ directory \in {"missing", "kept"} /\ syncs \in BOOLEAN
    /\ target = None /\ entrySynced = FALSE /\ acked = {}
    /\ calls = [w \in Writer |-> 0] /\ outages = 0

Goto(w, label) == pc' = [pc EXCEPT ![w] = label]

(* The call returns or throws. *)
Settle(w, outcome) ==
    /\ Goto(w, "idle")
    /\ result' = [result EXCEPT ![w] = outcome]

Begin(w) ==
    /\ pc[w] = "idle" /\ calls[w] < MaxCalls
    /\ calls' = [calls EXCEPT ![w] = @ + 1]
    /\ \E c \in Content : want' = [want EXCEPT ![w] = c]
    /\ result' = [result EXCEPT ![w] = "none"]
    /\ Goto(w, "read")
    /\ UNCHANGED <<temp, place, outages>>

(* What the reader makes of the file at the path: it decodes and checks    *)
(* the whole of it, and compares its hash with the wanted one.             *)
Verdict(w) ==
    IF target.data = Torn THEN "corrupt"
    ELSE IF target.data = want[w] THEN "noop" ELSE "conflict"

(* The look before the write: a fact that is there ends the call. *)
ReadExisting(w) ==
    /\ pc[w] = "read"
    /\ IF target = None THEN Goto(w, "mkdir") /\ UNCHANGED result
                        ELSE Settle(w, Verdict(w))
    /\ UNCHANGED <<want, temp, place, calls, outages>>

(* ensureDirectoryChain: every directory that is missing is made; nothing  *)
(* of this is synced.                                                      *)
MakeDirectories(w) ==
    /\ pc[w] = "mkdir"
    /\ directory' = IF directory = "missing" THEN "made" ELSE directory
    /\ Goto(w, "create")
    /\ UNCHANGED <<want, result, temp, syncs, target, entrySynced, acked, calls, outages>>

CreateTemp(w) ==
    /\ pc[w] = "create"
    /\ temp' = [temp EXCEPT ![w] = [data |-> Torn, synced |-> FALSE]]
    /\ Goto(w, "write")
    /\ UNCHANGED <<want, result, place, calls, outages>>

(* Mutant of WriteTemp: the file is linked without having been synced. *)
WriteTempUnsynced(w) ==
    /\ pc[w] = "write"
    /\ temp' = [temp EXCEPT ![w].data = want[w]]
    /\ Goto(w, "link")
    /\ UNCHANGED <<want, result, place, calls, outages>>

WriteTemp(w) ==
    /\ pc[w] = "write"
    /\ temp' = [temp EXCEPT ![w].data = want[w]]
    /\ Goto(w, "sync")
    /\ UNCHANGED <<want, result, place, calls, outages>>

SyncTemp(w) ==
    /\ pc[w] = "sync"
    /\ temp' = [temp EXCEPT ![w].synced = TRUE]
    /\ Goto(w, "link")
    /\ UNCHANGED <<want, result, place, calls, outages>>

(* Mutant of Link: rename in place of link, which replaces what is there. *)
LinkByRename(w) ==
    /\ pc[w] = "link"
    /\ target' = temp[w] /\ entrySynced' = FALSE
    /\ Goto(w, "dirsync")
    /\ UNCHANGED <<want, result, temp, directory, syncs, acked, calls, outages>>

(* link(temp, target): publishes, or fails with EEXIST and drops the       *)
(* temporary file.                                                         *)
Link(w) ==
    /\ pc[w] = "link"
    /\ IF target = None
       THEN /\ target' = temp[w] /\ entrySynced' = FALSE
            /\ Goto(w, "dirsync") /\ UNCHANGED temp
       ELSE /\ temp' = [temp EXCEPT ![w] = None]
            /\ Goto(w, "winner") /\ UNCHANGED <<target, entrySynced>>
    /\ UNCHANGED <<want, result, directory, syncs, acked, calls, outages>>

(* Another writer was first: its fact is read and compared. *)
ReadWinner(w) ==
    /\ pc[w] = "winner"
    /\ Settle(w, IF target = None THEN "failed" ELSE Verdict(w))
    /\ UNCHANGED <<want, temp, place, calls, outages>>

(* Mutant of SyncEntry: the directory is not synced. *)
SyncEntrySkipped(w) ==
    /\ pc[w] = "dirsync"
    /\ Goto(w, "unlink")
    /\ UNCHANGED <<want, result, temp, place, calls, outages>>

(* syncDirectory of the target's own directory. *)
SyncEntry(w) ==
    /\ pc[w] = "dirsync"
    /\ entrySynced' \in {TRUE} \cup IF syncs THEN {} ELSE {entrySynced}
    /\ Goto(w, "unlink")
    /\ UNCHANGED <<want, result, temp, directory, syncs, target, acked, calls, outages>>

UnlinkTemp(w) ==
    /\ pc[w] = "unlink"
    /\ temp' = [temp EXCEPT ![w] = None]
    /\ Goto(w, "readback")
    /\ UNCHANGED <<want, result, place, calls, outages>>

ReadBack(w) ==
    /\ pc[w] = "readback"
    /\ IF target # None /\ target.data = want[w]
       THEN Settle(w, "created") /\ acked' = acked \cup {want[w]}
       ELSE Settle(w, "failed") /\ UNCHANGED acked
    /\ UNCHANGED <<want, temp, directory, syncs, target, entrySynced, calls, outages>>

(* A file operation fails: the temporary file goes if it can, the link     *)
(* stays where it was made, and the caller gets memory_store_io_failed.    *)
Fail(w) ==
    /\ pc[w] # "idle"
    /\ Settle(w, "failed")
    /\ temp' \in {temp, [temp EXCEPT ![w] = None]}
    /\ UNCHANGED <<want, place, calls, outages>>

(* The writer's process dies.  Its temporary file stays under a random     *)
(* name that nothing reads again.                                          *)
Crash(w) ==
    /\ pc[w] # "idle"
    /\ Settle(w, "none")
    /\ UNCHANGED <<want, temp, place, calls, outages>>

(* Power is lost: every process dies, a directory made since the last      *)
(* start may be gone with all that is in it, an entry that was not synced  *)
(* may be gone, data that were not synced may be torn, and what is found   *)
(* after the restart is what the disk holds.                               *)
Outage ==
    /\ outages < MaxOutages
    /\ outages' = outages + 1
    /\ pc' = [w \in Writer |-> "idle"]
    /\ result' = [w \in Writer |-> "none"]
    /\ temp' = [w \in Writer |-> None]
    /\ \/ /\ directory = "made" /\ directory' = "missing" /\ acked' = {}
          /\ target' = None /\ entrySynced' = FALSE
       \/ /\ directory' = IF directory = "made" THEN "kept" ELSE directory
          /\ \/ ~entrySynced /\ target' = None /\ entrySynced' = FALSE
             \/ /\ target # None
                /\ \E d \in {target.data} \cup (IF target.synced THEN {} ELSE {Torn}) :
                      target' = [data |-> d, synced |-> TRUE]
                /\ entrySynced' = TRUE
          /\ UNCHANGED acked
    /\ UNCHANGED <<want, syncs, calls>>

Step(w) ==
    \/ ReadExisting(w) \/ MakeDirectories(w) \/ CreateTemp(w) \/ WriteTemp(w) \/ SyncTemp(w)
    \/ Link(w) \/ ReadWinner(w) \/ SyncEntry(w) \/ UnlinkTemp(w) \/ ReadBack(w)

Next == Outage \/ \E w \in Writer : Begin(w) \/ Step(w) \/ Fail(w) \/ Crash(w)

Spec == Init /\ [][Next]_vars

(***************************************************************************)
(* Properties                                                              *)
(***************************************************************************)

TypeOK ==
    /\ pc \in [Writer -> PC]
    /\ want \in [Writer -> Content]
    /\ result \in [Writer -> {"none", "created", "noop", "conflict", "corrupt", "failed"}]
    /\ temp \in [Writer -> File \cup {None}]
    /\ directory \in {"missing", "made", "kept"} /\ syncs \in BOOLEAN
    /\ target \in File \cup {None} /\ entrySynced \in BOOLEAN
    /\ acked \subseteq Content
    /\ calls \in [Writer -> Nat] /\ outages \in Nat

(* Where directories can be synced, a fact that was acknowledged as        *)
(* created is at the path for as long as the directory of the path stays,  *)
(* over any loss of power, and no other writer has replaced it: fsync of   *)
(* the temporary file, link, fsync of the directory, in this order         *)
(* (memory-store.ts 309-355).  The code promises no more: a directory it   *)
(* has just made can be lost with the acknowledged facts in it.            *)
CreatedIsDurable ==
    syncs => \A c \in acked : target # None /\ target.data = c

(* No reader ever meets a file that is no fact, whatever died or failed    *)
(* while it was written: the verdict "corrupt" is never given.  A call     *)
(* that answers "noop" leaves its own fact at the path, one that answers   *)
(* "conflict" another's.                                                   *)
AnswersAreTrue ==
    /\ target # None => target.data # Torn
    /\ \A w \in Writer :
        /\ result[w] # "corrupt"
        /\ result[w] = "noop" => target # None /\ target.data = want[w]
        /\ result[w] = "conflict" => target # None /\ target.data # want[w]

(* A published fact is never changed, and once its entry is on disk it     *)
(* goes only when a loss of power takes a directory that was made since    *)
(* the one before: among any number of racing writers one wins, and what   *)
(* lies in a directory that has survived a restart is there for ever.      *)
PublishedForEver ==
    [][ /\ target # None /\ target' # None => target'.data = target.data
        /\ entrySynced /\ directory' # "missing" => entrySynced' /\ target' # None
        /\ entrySynced /\ directory = "kept" => target' # None ]_vars
=============================================================================
