-------------------------- MODULE GovernanceLedger --------------------------
(***************************************************************************)
(* commit of the governance ledger over its file boundary                  *)
(* (src/src/governance/ledger-store.ts): processes that each read the head *)
(* in CURRENT, publish an event after it, check that the longer chain can  *)
(* be replayed, and switch CURRENT, under a lock file of the boundary.     *)
(*                                                                         *)
(* An event is its chain: its hash covers its payload and its predecessor. *)
(* So events, the files, is a set of chains, and CURRENT holds one.        *)
(***************************************************************************)
EXTENDS Governance

CONSTANTS
    Process,
    MaxEvents   \* bound: the length of the chain

VARIABLES
    events,     \* v2/governance/events/<id>.json
    current,    \* the head that CURRENT names
    lockFile,   \* CURRENT.lock
    commit      \* the commit of each process

vars == <<events, current, lockFile, commit>>

Away == [pc |-> "idle", snapshot |-> <<>>, candidate |-> <<>>]

Init ==
    /\ events = {} /\ current = <<>> /\ lockFile = FALSE
    /\ commit = [p \in Process |-> Away]

Is(p, pc) == commit[p].pc = pc
Set(p, c) == commit' = [commit EXCEPT ![p] = c]
Goto(p, pc) == Set(p, [commit[p] EXCEPT !.pc = pc])

(* withExclusive: the lock file is made, or is there.  Its finally removes *)
(* it in either case, whoever made it.                                     *)
Enter(p) ==
    /\ Is(p, "idle") /\ Len(current) < MaxEvents
    /\ lockFile' = TRUE /\ Goto(p, IF lockFile THEN "leave" ELSE "read")
    /\ UNCHANGED <<events, current>>

Leave(p) ==
    /\ Is(p, "leave")
    /\ lockFile' = FALSE /\ Set(p, Away)
    /\ UNCHANGED <<events, current>>

(* A commit that fails leaves the boundary without switching.              *)
ReadHead(p) ==
    /\ Is(p, "read")
    /\ \/ Set(p, [commit[p] EXCEPT !.snapshot = current, !.pc = "write"])
       \/ Goto(p, "leave")
    /\ UNCHANGED <<events, current, lockFile>>

(* writeEventExclusive: links the event's file, or finds it there; it may  *)
(* fail before the link, or after it with the file published.              *)
WriteEvent(p) ==
    /\ Is(p, "write")
    /\ \E e \in Payloads(commit[p].snapshot) :
         LET c == Append(commit[p].snapshot, e) IN
         \/ /\ c \notin events
            /\ events' = events \cup {c}
            /\ \/ Set(p, [commit[p] EXCEPT !.candidate = c, !.pc = "replay"])
               \/ Goto(p, "leave")
         \/ Goto(p, "leave") /\ UNCHANGED events
    /\ UNCHANGED <<current, lockFile>>

(* Mutant of ReplayCandidate: the chain is replayed without the new event. *)
ReplayCommitted(p) ==
    /\ Is(p, "replay")
    /\ Goto(p, IF Accepts(commit[p].snapshot) THEN "reread" ELSE "leave")
    /\ UNCHANGED <<events, current, lockFile>>

ReplayCandidate(p) ==
    /\ Is(p, "replay")
    /\ Goto(p, IF Accepts(commit[p].candidate) THEN "reread" ELSE "leave")
    /\ UNCHANGED <<events, current, lockFile>>

(* CURRENT is read again by commit, and once more by compareAndSwitch.     *)
Reread(p) ==
    /\ Is(p, "reread")
    /\ Goto(p, IF current = commit[p].snapshot THEN "switch" ELSE "leave")
    /\ UNCHANGED <<events, current, lockFile>>

Switch(p) ==
    /\ Is(p, "switch")
    /\ current' = commit[p].candidate /\ Goto(p, "leave")
    /\ UNCHANGED <<events, lockFile>>

Crash(p) ==
    /\ ~Is(p, "idle") /\ Set(p, Away)
    /\ UNCHANGED <<events, current, lockFile>>

Next == \E p \in Process :
    \/ Enter(p) \/ Leave(p) \/ ReadHead(p) \/ WriteEvent(p) \/ ReplayCandidate(p) \/ Reread(p)
    \/ Switch(p) \/ Crash(p)

Spec == Init /\ [][Next]_vars

(***************************************************************************)
(* Properties.                                                             *)
(***************************************************************************)
InForce(chain) == DOMAIN chain \ (At(chain, "revert") \cup Masks(chain))

(* Whatever was committed, by processes that race, fail and die, and       *)
(* whatever was reverted out of the middle of it, CURRENT names a chain    *)
(* that is whole on disk, can be replayed and projected, in which no       *)
(* memory replaces itself through others, and whose latest event in force  *)
(* can still be undone (replay.ts:274-290, ledger-store.ts:124-143).       *)
ChainServes ==
    /\ \A n \in DOMAIN current : SubSeq(current, 1, n) \in events
    /\ Accepts(current) /\ Projects(current)
    /\ \A m \in Memory : LET by == World(current).supersededBy[m] IN
         by # Nobody => m \notin Replacements(World(current), by)
    /\ LET left == InForce(current) IN
       left # {} => Accepts(Append(current, Revert(CHOOSE n \in left : \A k \in left : k <= n)))

(* An event changes the state of no memory but those whose history lists   *)
(* it, also when it reverts an event that others were built on             *)
(* (collectFootprint, replay.ts:212-225).                                  *)
FootprintTold ==
    [][ Len(current') = Len(current) + 1 /\ SubSeq(current', 1, Len(current)) = current =>
          \A m \in Memory :
            LET Known(chain) == [Effective(chain, m) EXCEPT !.history = {}] IN
            Known(current) # Known(current') => Len(current') \in Effective(current', m).history
      ]_current
=============================================================================
