------------------------- MODULE TransactionContract -------------------------
(***************************************************************************)
(* What a user of apply_file_transaction may count on about one file of a  *)
(* call (the docstrings and messages of atomic_files.py say no more).  The *)
(* modules whose transactions are one step, or a few, take their outcomes  *)
(* from here; FileTransaction shows that a call has no others.             *)
(***************************************************************************)
CONSTANTS Absent, Torn

\* What a reader may find in the file while the call runs.
Visible(old, new) == {Absent, Torn, old, new}

\* The text a call may leave in a file that held old and was to hold new,
\* and whether it leaves a sidecar, which refuses every later call.
Endings(outcome, old, new) ==
  CASE outcome = "updated" -> [text : {new}, sidecar : BOOLEAN]
    [] outcome = "unchanged" -> [text : {old}, sidecar : BOOLEAN]
    [] outcome = "interrupted" ->
         {end \in [text : Visible(old, new), sidecar : BOOLEAN] :
            end.text \in {old, new} \/ old = Absent \/ end.sidecar}
=============================================================================
