---------------------------- MODULE ClaimLedger ----------------------------
(***************************************************************************)
(* What a caller of `claim --apply` relies on: one ledger on which         *)
(* requests take effect in a single step, one at a time, whatever the      *)
(* processes, the checks, the lock and the files behind it do.  A write    *)
(* that is cut short took effect, or did not, or has lost the record: no   *)
(* claim is recorded under that id, and none will ever be.                 *)
(***************************************************************************)
CONSTANTS
  Ids, Records,
  Absent,         \* no record yet
  Lost,           \* no record any more
  Conflict(_, _)  \* two records that may not be there together

VARIABLES
  ledger,  \* the record of each id
  damaged  \* the ids a write of which was cut short

ledgerVars == <<ledger, damaged>>

LedgerInit == ledger = [c \in Ids |-> Absent] /\ damaged = {}

Recorded(c) == ledger[c] \notin {Absent, Lost}

Grant(c) ==
  /\ ledger[c] = Absent
  /\ ledger'[c] \in Records /\ ledger'[c].status = "active"
  /\ \A d \in Ids \ {c} : Recorded(d) => ~Conflict(ledger'[c], ledger[d])

\* Only the lease of an active claim changes.
Extend(c) ==
  /\ Recorded(c) /\ ledger[c].status = "active"
  /\ ledger'[c] \in Records
  /\ ledger'[c] = [ledger[c] EXCEPT !.lease = ledger'[c].lease]

Release(c) ==
  /\ Recorded(c)
  /\ ledger'[c] = [ledger[c] EXCEPT !.status = "released"]

\* A create that failed may have used up its id.
UseUp(c) == ledger[c] = Absent /\ ledger'[c] = Lost

Takes(c) == Grant(c) \/ Extend(c) \/ Release(c) \/ UseUp(c)

CutOff(c) ==
  /\ Takes(c) \/ ledger'[c] \in {ledger[c], Lost}
  /\ damaged' = damaged \union {c}

LedgerNext ==
  \E c \in Ids :
    /\ ledger' = [ledger EXCEPT ![c] = ledger'[c]]
    /\ (Takes(c) /\ UNCHANGED damaged) \/ CutOff(c)

LedgerSpec == LedgerInit /\ [][LedgerNext]_ledgerVars
=============================================================================
