--------------------------- MODULE ProjectHistory ---------------------------
(***************************************************************************)
(* What a project's memory promises its readers: memories are only ever    *)
(* added, governance events are only ever appended to the one committed    *)
(* chain, one at a time.                                                   *)
(***************************************************************************)
EXTENDS Sequences

CONSTANTS Memory, Event

VARIABLES
    known,   \* the memories of the raw catalog that is being served
    ledger   \* the committed chain of governance events

vars == <<known, ledger>>

AddMemory ==
    \E m \in Memory : known' = known \cup {m} /\ UNCHANGED ledger

AppendEvent ==
    \E e \in Event : ledger' = Append(ledger, e) /\ UNCHANGED known

Next == AddMemory \/ AppendEvent

(* The world a project starts from is whatever earlier runs have left. *)
Init == known \in SUBSET Memory /\ ledger \in Seq(Event)

Spec == Init /\ [][Next]_vars
=============================================================================
