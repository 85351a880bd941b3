----------------------------- MODULE WorkClaims -----------------------------
(***************************************************************************)
(* The work-claim ledger (claims.py): any number of processes running      *)
(* `claim --apply` against the same records.  A request is checked without *)
(* the lock, checked again under the mutation lock, and then written with  *)
(* one file transaction.  The transaction appears here through what        *)
(* FileTransaction establishes: the record may look like anything while it *)
(* runs, it is the new one if the call commits, the old one if it fails    *)
(* cleanly, and in a sidecar at worst.  A process may die at any point.    *)
(***************************************************************************)
EXTENDS Naturals, FiniteSets, SequencesExt

CONSTANTS
  Procs,     \* the processes
  Ids,       \* claim ids, the names of the records
  Scopes,    \* what claims claim: routes, paths (as their parts), resources
  Requests,  \* the requests that are made
  MaxTime,   \* bound on the clock
  MaxTrouble, \* bound on the number of records whose write is cut short
  Absent,    \* no record of that name
  Torn,      \* a record that is not readable as JSON
  NoRequest  \* what a process that runs no command is asked

WORK_CLAIM_KINDS ==
  {"read", "write", "lifecycle", "route", "path", "resource", "port",
   "database", "external_service", "generated_cache"}
EXCLUSIVE_CLAIM_KINDS ==
  {"write", "lifecycle", "route", "path", "resource", "port", "database",
   "external_service"}

\* A lease of 0 is the empty one, which never expires.
Records == [kind : WORK_CLAIM_KINDS, scope : Scopes,
            status : {"active", "released"}, lease : Nat]

ASSUME RequestsAssumption ==
  /\ Requests \subseteq
       [action : {"create", "extend", "release"}, id : Ids,
        kind : WORK_CLAIM_KINDS, scope : Scopes, ttl : Nat, at : Nat]
  /\ MaxTime \in Nat /\ MaxTrouble \in Nat
  /\ Absent # Torn /\ Absent \notin Records /\ Torn \notin Records

VARIABLES
  claims,    \* the record of each id
  sidecars,  \* the ids whose record has a left-over .tmp or .bak
  lock,      \* the file .work-claim-mutation.lock exists
  now,       \* the clock
  pc, req,   \* where each process is, and its request
  old, next, \* before_data and after_data of each process
  granted,   \* history: the claims created and not released since
  ended,     \* history: the ids of the claims that were released
  troubled   \* history: the ids a write of which failed or was cut short

disk == <<claims, sidecars>>
history == <<granted, ended, troubled>>
vars == <<disk, lock, now, pc, req, old, next, history>>

Critical == {"locked", "rechecked", "write", "unlock"}
Holders == {p \in Procs : pc[p] \in Critical}

Init ==
  /\ claims = [c \in Ids |-> Absent] /\ sidecars = {}
  /\ lock = FALSE /\ now = 1
  /\ pc = [p \in Procs |-> "idle"]
  /\ req = [p \in Procs |-> NoRequest]
  /\ old = [p \in Procs |-> Absent] /\ next = [p \in Procs |-> Absent]
  /\ granted = {} /\ ended = {} /\ troubled = {}

-----------------------------------------------------------------------------
(* When two claims overlap.                                                *)

\* src/a overlaps with src and with src/a/b, but not with src/ab.
PathsOverlap(left, right) == IsPrefix(left, right) \/ IsPrefix(right, left)

Overlap(s, t) ==
  \/ s.routes \intersect t.routes # {}
  \/ \E l \in s.paths, r \in t.paths : PathsOverlap(l, r)
  \/ s.resources \intersect t.resources # {}

Readable(c) == claims[c] \notin {Absent, Torn}

\* A record that cannot be read blocks nobody, and a stale one does.
Blocks(c) ==
  /\ Readable(c)
  /\ claims[c].status = "active" /\ claims[c].kind \in EXCLUSIVE_CLAIM_KINDS

Stale(c) == claims[c].lease # 0 /\ claims[c].lease < now

-----------------------------------------------------------------------------
(* _request_findings, run before the lock is taken and again under it.     *)

\* Faults: an id can be created again, always or once it is released.
MayCreateAgain(r) ==
  r.kind \in EXCLUSIVE_CLAIM_KINDS =>
    \A c \in Ids \ {r.id} : Blocks(c) => ~Overlap(claims[c].scope, r.scope)
MayCreateOverReleased(r) ==
  /\ claims[r.id] # Absent => Readable(r.id) /\ claims[r.id].status = "released"
  /\ MayCreateAgain(r)

MayCreate(r) ==
  /\ claims[r.id] = Absent
  /\ r.kind \in EXCLUSIVE_CLAIM_KINDS =>
       \A c \in Ids \ {r.id} : Blocks(c) => ~Overlap(claims[c].scope, r.scope)

MayExtend(r) ==
  /\ Readable(r.id) /\ claims[r.id].status = "active" /\ ~Stale(r.id)
  /\ r.ttl # 0 \/ r.at # 0

MayRelease(r) == Readable(r.id)

Allowed(r) ==
  CASE r.action = "create"  -> MayCreate(r)
    [] r.action = "extend"  -> MayExtend(r)
    [] r.action = "release" -> MayRelease(r)

locals == <<req, old, next>>

Goto(p, stage) == pc' = [pc EXCEPT ![p] = stage]

\* The command ends, and its locals with it.
Finish(p) ==
  /\ Goto(p, "idle")
  /\ req' = [req EXCEPT ![p] = NoRequest]
  /\ old' = [old EXCEPT ![p] = Absent] /\ next' = [next EXCEPT ![p] = Absent]

\* A request that is refused here changes nothing: the process stays idle.
Check(p) ==
  /\ pc[p] = "idle"
  /\ \E r \in Requests : Allowed(r) /\ req' = [req EXCEPT ![p] = r]
  /\ Goto(p, "checked")
  /\ UNCHANGED <<disk, lock, now, old, next, history>>

\* Faults: the lock file is opened without O_EXCL, or waited for.
AcquireLockShared(p) ==
  /\ pc[p] = "checked"
  /\ lock' = TRUE /\ Goto(p, "locked")
  /\ UNCHANGED <<disk, now, locals, history>>
AcquireLockWaiting(p) ==
  /\ pc[p] = "checked" /\ ~lock
  /\ lock' = TRUE /\ Goto(p, "locked")
  /\ UNCHANGED <<disk, now, locals, history>>

\* O_CREAT | O_EXCL; a lock that is held, or an OSError, refuses the request.
AcquireLock(p) ==
  /\ pc[p] = "checked"
  /\ \/ ~lock /\ lock' = TRUE /\ Goto(p, "locked") /\ UNCHANGED locals
     \/ Finish(p) /\ UNCHANGED lock
  /\ UNCHANGED <<disk, now, history>>

\* Fault: the first check is trusted.
RecheckNothing(p) ==
  /\ pc[p] = "locked"
  /\ Goto(p, "rechecked")
  /\ UNCHANGED <<disk, lock, now, locals, history>>

Recheck(p) ==
  /\ pc[p] = "locked"
  /\ Goto(p, IF Allowed(req[p]) THEN "rechecked" ELSE "unlock")
  /\ UNCHANGED <<disk, lock, now, locals, history>>

-----------------------------------------------------------------------------
(* The new record, from the one that is there (read again) or from scratch. *)

LeaseExpiresAt(r) ==
  IF r.at # 0 THEN r.at ELSE IF r.ttl # 0 THEN now + r.ttl ELSE 0

Created(r) ==
  [kind |-> r.kind, scope |-> r.scope, status |-> "active",
   lease |-> LeaseExpiresAt(r)]

\* Fault: the status of a released record is the name of the action.
ChangedToAction(record, r) ==
  IF r.action = "release" THEN [record EXCEPT !.status = r.action]
                          ELSE [record EXCEPT !.lease = LeaseExpiresAt(r)]

Changed(record, r) ==
  IF r.action = "release" THEN [record EXCEPT !.status = "released"]
                          ELSE [record EXCEPT !.lease = LeaseExpiresAt(r)]

Prepare(p) ==
  LET r == req[p] IN
  /\ pc[p] = "rechecked"
  /\ \/ r.action = "create"
        /\ next' = [next EXCEPT ![p] = Created(r)]
        /\ old' = [old EXCEPT ![p] = claims[r.id]] /\ Goto(p, "write")
     \/ r.action # "create" /\ Readable(r.id)
        /\ next' = [next EXCEPT ![p] = Changed(claims[r.id], r)]
        /\ old' = [old EXCEPT ![p] = claims[r.id]] /\ Goto(p, "write")
     \/ r.action # "create" /\ ~Readable(r.id)
        /\ Goto(p, "unlock") /\ UNCHANGED <<old, next>>
  /\ UNCHANGED <<disk, lock, now, req, history>>

-----------------------------------------------------------------------------
(* apply_file_transaction on the one record, seen from outside.            *)

Contract == INSTANCE TransactionContract

Show(p, record) == claims' = [claims EXCEPT ![req[p].id] = record]

Leave(p, sidecar) ==
  sidecars' = IF sidecar THEN sidecars \union {req[p].id} ELSE sidecars

EndWrite(p, outcome) ==
  \E end \in Contract!Endings(outcome, old[p], next[p]) :
    Show(p, end.text) /\ Leave(p, end.sidecar)

\* The validation of the transaction: a left-over sidecar refuses the write.
RefuseWrite(p) ==
  /\ pc[p] = "write" /\ req[p].id \in sidecars
  /\ Goto(p, "unlock")
  /\ UNCHANGED <<disk, lock, now, locals, history>>

Writing(p) == pc[p] = "write" /\ req[p].id \notin sidecars

\* What a reader that does not hold the lock may see in the meantime.
Expose(p) ==
  /\ Writing(p)
  /\ \E record \in Contract!Visible(old[p], next[p]) : Show(p, record)
  /\ UNCHANGED <<sidecars, lock, now, pc, locals, history>>

Commit(p) ==
  LET r == req[p]
      grant == [id |-> r.id, kind |-> next[p].kind, scope |-> next[p].scope]
  IN
  /\ Writing(p)
  /\ EndWrite(p, "updated")
  /\ granted' = IF r.action = "release" THEN granted \ {grant}
                                        ELSE granted \union {grant}
  /\ ended' = IF r.action = "release" THEN ended \union {r.id} ELSE ended
  /\ Goto(p, "unlock")
  /\ UNCHANGED <<lock, now, locals, troubled>>

RollBack(p) ==
  /\ Writing(p)
  /\ EndWrite(p, "unchanged")
  /\ Goto(p, "unlock")
  /\ UNCHANGED <<lock, now, locals, history>>

\* A transaction that is cut short.
CutShort(p) ==
  /\ EndWrite(p, "interrupted")
  /\ troubled' = troubled \union {req[p].id}
  /\ Cardinality(troubled') <= MaxTrouble
  /\ UNCHANGED <<granted, ended>>

\* The rollback itself fails; the error message says so.
FailToRollBack(p) ==
  /\ Writing(p)
  /\ CutShort(p)
  /\ Goto(p, "unlock")
  /\ UNCHANGED <<lock, now, locals>>

-----------------------------------------------------------------------------
\* The finally clause; an OSError of the unlink is ignored.
ReleaseLock(p) ==
  /\ pc[p] = "unlock"
  /\ lock' \in {FALSE, lock}
  /\ Finish(p)
  /\ UNCHANGED <<disk, now, history>>

\* The process dies: the finally clause does not run, the lock file stays.
Crash(p) ==
  /\ pc[p] # "idle"
  /\ IF Writing(p) THEN CutShort(p) ELSE UNCHANGED <<disk, history>>
  /\ Finish(p)
  /\ UNCHANGED <<lock, now>>

\* Somebody deletes the lock file of a process that is gone: the program
\* itself has no way to.
DeleteStaleLock ==
  /\ lock /\ Holders = {}
  /\ lock' = FALSE
  /\ UNCHANGED <<disk, now, pc, locals, history>>

Tick ==
  /\ now < MaxTime /\ now' = now + 1
  /\ UNCHANGED <<disk, lock, pc, locals, history>>

Run(p) ==
  \/ AcquireLock(p) \/ Recheck(p) \/ Prepare(p)
  \/ RefuseWrite(p) \/ Commit(p) \/ RollBack(p) \/ FailToRollBack(p)
  \/ ReleaseLock(p)

Next ==
  \/ \E p \in Procs : Check(p) \/ Run(p) \/ Expose(p) \/ Crash(p)
  \/ DeleteStaleLock \/ Tick

\* A request that was begun runs on; nobody is obliged to make one.
Spec == Init /\ [][Next]_vars /\ \A p \in Procs : WF_vars(Run(p))

-----------------------------------------------------------------------------
(* What the ledger guarantees.                                             *)

Grants == [id : Ids, kind : WORK_CLAIM_KINDS, scope : Scopes]

\* Type correctness of the records and of the locals of the processes.
TypeOK ==
  /\ claims \in [Ids -> Records \union {Absent, Torn}]
  /\ sidecars \subseteq Ids
  /\ lock \in BOOLEAN /\ now \in Nat
  /\ pc \in [Procs -> Critical \union {"idle", "checked"}]
  /\ req \in [Procs -> Requests \union {NoRequest}]
  /\ old \in [Procs -> Records \union {Absent, Torn}]
  /\ next \in [Procs -> Records \union {Absent, Torn}]
  /\ granted \subseteq Grants /\ ended \subseteq Ids /\ troubled \subseteq Ids

\* Two active exclusive claims never overlap, whatever writes failed, however
\* stale a claim is, and whenever the requests were first checked.
ActiveClaimsAreDisjoint ==
  \A c, d \in Ids :
    c # d /\ Blocks(c) /\ Blocks(d) => ~Overlap(claims[c].scope, claims[d].scope)

\* A claim that was granted keeps its record, kind and scope until it is
\* released; only a write that fails with a recovery error, or a process
\* that dies writing it, can take it away.
GrantsAreKept ==
  \A g \in granted :
    \/ g.id \in troubled
    \/ \E p \in Holders : pc[p] = "write" /\ req[p].id = g.id
    \/ /\ Readable(g.id) /\ claims[g.id].status = "active"
       /\ claims[g.id].kind = g.kind /\ claims[g.id].scope = g.scope

\* No later extension, and no create with the same id, makes a claim whose
\* release was reported active again.
ReleasedStaysReleased ==
  \A c \in ended : Readable(c) => claims[c].status = "released"

\* A request ends, granted or refused, even if the lock is never given back.
RequestsEnd == \A p \in Procs : pc[p] # "idle" ~> pc[p] = "idle"

-----------------------------------------------------------------------------
(* The ledger as its callers see it.                                       *)

\* A record counts as it was until its write is done.  One that is torn, or
\* missing with a sidecar that refuses every later write, is lost.
Standing(c) ==
  IF \E p \in Procs : Writing(p) /\ req[p].id = c
  THEN old[CHOOSE p \in Procs : Writing(p) /\ req[p].id = c]
  ELSE IF claims[c] = Absent /\ c \in sidecars THEN Torn ELSE claims[c]

Exclusive(record) ==
  record.status = "active" /\ record.kind \in EXCLUSIVE_CLAIM_KINDS
Conflict(record, other) ==
  /\ Exclusive(record) /\ Exclusive(other)
  /\ Overlap(record.scope, other.scope)

Ledger == INSTANCE ClaimLedger
  WITH ledger <- [c \in Ids |-> Standing(c)], damaged <- troubled, Lost <- Torn

\* Every request takes effect in one step, on the ledger as it is then: not
\* as it was when the request was first checked, and not on a record half
\* written.
IsClaimLedger == Ledger!LedgerSpec

-----------------------------------------------------------------------------
(* The inductive invariant behind the safety properties.                   *)

\* The lock excludes: one process is past AcquireLock, and the file is there.
Exclusion ==
  /\ \A p, q \in Holders : p = q
  /\ Holders # {} => lock

Asked == \A p \in Procs : pc[p] # "idle" => req[p] \in Requests

\* What the second check found still holds when the record is made.
StillAllowed ==
  \A p \in Procs : pc[p] = "rechecked" =>
    /\ req[p].action = "create" => MayCreate(req[p])
    /\ req[p].action = "extend" =>
         Readable(req[p].id) /\ claims[req[p].id].status = "active"

\* The record could be written under the id without an overlap.
Fits(id, record) ==
  record \in Records /\ record.status = "active"
  /\ record.kind \in EXCLUSIVE_CLAIM_KINDS =>
    \A c \in Ids \ {id} : Blocks(c) => ~Overlap(claims[c].scope, record.scope)

\* The locals of a process that is about to write, or writing.
Prepared ==
  \A p \in Procs : pc[p] = "write" =>
    /\ Fits(req[p].id, old[p]) /\ Fits(req[p].id, next[p])
    /\ next[p] \in Records
    /\ next[p].status = IF req[p].action = "release" THEN "released" ELSE "active"
    /\ IF req[p].action = "create" THEN old[p] = Absent
       ELSE /\ old[p] \in Records
            /\ old[p].kind = next[p].kind /\ old[p].scope = next[p].scope
            /\ IF req[p].action = "release" THEN old[p].lease = next[p].lease
               ELSE old[p].status = "active"
    /\ req[p].id \in sidecars => claims[req[p].id] = old[p]

\* A released record that is missing is being written, or has a sidecar, and
\* who writes it is releasing it once more.
EndsAreGuarded ==
  /\ \A c \in ended : claims[c] = Absent =>
       \/ c \in sidecars
       \/ \E p \in Holders : pc[p] = "write" /\ req[p].id = c
  /\ \A p \in Procs :
       pc[p] = "write" /\ req[p].id \in ended /\ req[p].id \notin sidecars =>
         req[p].action = "release" /\ old[p].status = "released"

\* Who writes the record of a granted claim found it as it was granted.
GrantsAreRead ==
  \A p \in Procs, g \in granted : pc[p] = "write" /\ req[p].id = g.id =>
    \/ g.id \in troubled
    \/ /\ req[p].action # "create" /\ old[p].status = "active"
       /\ old[p].kind = g.kind /\ old[p].scope = g.scope

IInv ==
  /\ TypeOK /\ Exclusion /\ Asked /\ StillAllowed /\ Prepared
  /\ ActiveClaimsAreDisjoint
  /\ EndsAreGuarded /\ ReleasedStaysReleased
  /\ GrantsAreRead /\ GrantsAreKept
=============================================================================
