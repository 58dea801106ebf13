--------------------------- MODULE HarnessLedger ----------------------------
(***************************************************************************)
(* The request ledger of the harness (src/src/m07b/budget-ledger.js): one  *)
(* file for each request of a model, created with O_EXCL under the lowest  *)
(* free number and written afterwards, and one for its outcome.  Readers   *)
(* refuse the whole ledger over one file they cannot read.                 *)
(***************************************************************************)
EXTENDS Naturals, FiniteSets

CONSTANT MaxRequests   \* MAX_MODEL_REQUESTS

Seqs == 1 .. MaxRequests

NoFile    == "none"
Unwritten == "unwritten"

EmptyLedger == [claims |-> [n \in Seqs |-> NoFile], outcomes |-> [n \in Seqs |-> NoFile]]

Created(ledger) == {n \in Seqs : ledger.claims[n] # NoFile}

(* readValidLlmClaims: every file written, numbers without a gap.          *)
Readable(ledger) ==
    /\ \A n \in Seqs : ledger.claims[n] # Unwritten
    /\ Created(ledger) = 1 .. Cardinality(Created(ledger))

TotalClaimed(ledger) == Cardinality(Created(ledger))

Failed(ledger, n) == ledger.outcomes[n] = "error"

(* Two failures with nothing completed between them; a call that was       *)
(* aborted, or whose outcome is not known, neither counts nor clears.      *)
CircuitBroken(ledger) ==
    \E i, j \in 1 .. TotalClaimed(ledger) :
        /\ i < j /\ Failed(ledger, i) /\ Failed(ledger, j)
        /\ \A k \in i + 1 .. j - 1 : ledger.outcomes[k] # "completed"

Free(ledger) == Seqs \ Created(ledger)
Lowest(numbers) == {n \in numbers : \A k \in numbers : n <= k}

ClaimsOf(ledger, run) == {n \in Seqs : ledger.claims[n] = run}
=============================================================================
