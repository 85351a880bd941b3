---------------------------- MODULE AtomicUpdate ----------------------------
(***************************************************************************)
(* What a caller of apply_file_transaction relies on: the files it names   *)
(* hold, as far as they can be recovered, either what they held before the *)
(* call or what the call was asked to write, and they change from the one  *)
(* to the other in a single step.  A call that reports a clean failure has *)
(* put back what it had touched; only a call that died, or that reported   *)
(* "manual recovery may be needed", may leave the files themselves         *)
(* (shown) different from what can be recovered (held).                    *)
(***************************************************************************)
CONSTANTS Files, Values

VARIABLES
  held,     \* the content of each file that can be recovered
  shown,    \* the content of each file as a reader finds it
  wanted,   \* the contents the caller asked for
  outcome   \* "open" while the call runs, then how it ended

absVars == <<held, shown, wanted, outcome>>

Outcomes == {"open", "updated", "unchanged", "interrupted"}

AbsInit ==
  /\ held \in [Files -> Values] /\ shown = held
  /\ wanted \in [Files -> Values]
  /\ outcome = "open"

\* While the call runs a reader may see anything.
Work ==
  /\ outcome = "open"
  /\ shown' \in [Files -> Values]
  /\ UNCHANGED <<held, wanted, outcome>>

Commit ==
  /\ outcome = "open"
  /\ held' = wanted /\ shown' = wanted
  /\ outcome' = "updated"
  /\ UNCHANGED wanted

Abandon ==
  /\ outcome = "open"
  /\ shown = held
  /\ outcome' = "unchanged"
  /\ UNCHANGED <<held, shown, wanted>>

Interrupt ==
  /\ outcome = "open"
  /\ outcome' = "interrupted"
  /\ UNCHANGED <<held, shown, wanted>>

AbsNext == Work \/ Commit \/ Abandon \/ Interrupt
AbsSpec == AbsInit /\ [][AbsNext]_absVars
=============================================================================
