-------------------------- MODULE WorkClaims_proofs --------------------------
(***************************************************************************)
(* Proofs about WorkClaims, for any number of processes, claims and        *)
(* requests: IInv is inductive, and with it the three guarantees of the    *)
(* ledger.  Each lemma establishes one part of IInv after a step; its      *)
(* steps are the actions.                                                  *)
(***************************************************************************)
EXTENDS WorkClaims, TLAPS

\* Overlap does not depend on which claim was there first (_claim_overlap).
LEMMA OverlapIsSymmetric ==
  \A s, t : Overlap(s, t) => Overlap(t, s)
BY DEF Overlap, PathsOverlap

\* Under the mutation lock a process is alone: nobody else is past it.
LEMMA Alone ==
  ASSUME IInv, NEW p \in Procs, pc[p] \in Critical
  PROVE  /\ Holders = {p} /\ lock
         /\ \A q \in Procs : pc[q] \in Critical => q = p
BY DEF IInv, Exclusion, Holders

\* The records a request leads to are records (_created_claim_record,
\* _extend_fields, _release_fields).
LEMMA RecordsMade ==
  ASSUME NEW r \in Requests, now \in Nat
  PROVE  /\ Created(r) \in Records
         /\ Created(r).kind = r.kind /\ Created(r).scope = r.scope
         /\ Created(r).status = "active"
         /\ \A old_ \in Records :
              /\ Changed(old_, r) \in Records
              /\ Changed(old_, r).kind = old_.kind
              /\ Changed(old_, r).scope = old_.scope
              /\ Changed(old_, r).status =
                   IF r.action = "release" THEN "released" ELSE old_.status
              /\ r.action = "release" => Changed(old_, r).lease = old_.lease
<1>1. /\ r.kind \in WORK_CLAIM_KINDS /\ r.scope \in Scopes
      /\ r.ttl \in Nat /\ r.at \in Nat
  BY RequestsAssumption
<1>2. LeaseExpiresAt(r) \in Nat
  BY <1>1 DEF LeaseExpiresAt
<1>3. QED
  BY <1>1, <1>2 DEF Created, Changed, Records

\* The ways a transaction on the record can end (TransactionContract).
LEMMA WriteEndings ==
  ASSUME NEW p
  PROVE  /\ EndWrite(p, "updated") => Show(p, next[p])
         /\ EndWrite(p, "unchanged") => Show(p, old[p])
         /\ EndWrite(p, "interrupted") =>
              \E record \in {Absent, Torn, old[p], next[p]} :
                /\ Show(p, record)
                /\ record \notin {old[p], next[p]} /\ old[p] # Absent =>
                     sidecars' = sidecars \union {req[p].id}
         /\ \A outcome \in {"updated", "unchanged", "interrupted"} :
              EndWrite(p, outcome) =>
                sidecars' \in {sidecars, sidecars \union {req[p].id}}
<1> USE DEF EndWrite, Leave, Contract!Endings, Contract!Visible
<1>1. EndWrite(p, "updated") => Show(p, next[p])
  OBVIOUS
<1>2. EndWrite(p, "unchanged") => Show(p, old[p])
  OBVIOUS
<1>3. ASSUME EndWrite(p, "interrupted")
      PROVE  \E record \in {Absent, Torn, old[p], next[p]} :
               /\ Show(p, record)
               /\ record \notin {old[p], next[p]} /\ old[p] # Absent =>
                    sidecars' = sidecars \union {req[p].id}
  <2>1. PICK end \in Contract!Endings("interrupted", old[p], next[p]) :
          Show(p, end.text) /\ Leave(p, end.sidecar)
    BY <1>3
  <2>2. /\ end.text \in {Absent, Torn, old[p], next[p]}
        /\ end.text \in {old[p], next[p]} \/ old[p] = Absent \/ end.sidecar
    BY <2>1
  <2>3. QED
    BY <2>1, <2>2
<1>4. QED
  BY <1>1, <1>2, <1>3

\* Type correctness is kept by every step.
LEMMA Typing ==
  ASSUME IInv, [Next]_vars
  PROVE  TypeOK'
<1> USE DEF TypeOK, Critical, Goto, locals, history, disk
<1>0. TypeOK /\ Asked /\ Prepared
  BY DEF IInv
<1>a. ASSUME NEW p \in Procs, Finish(p)
      PROVE  /\ pc' \in [Procs -> Critical \union {"idle", "checked"}]
             /\ req' \in [Procs -> Requests \union {NoRequest}]
             /\ old' \in [Procs -> Records \union {Absent, Torn}]
             /\ next' \in [Procs -> Records \union {Absent, Torn}]
  BY <1>0, <1>a DEF Finish
<1>b. ASSUME NEW p \in Procs, CutShort(p), pc[p] # "idle"
      PROVE  /\ claims' \in [Ids -> Records \union {Absent, Torn}]
             /\ sidecars' \subseteq Ids /\ troubled' \subseteq Ids
             /\ granted' \subseteq Grants /\ ended' \subseteq Ids
  <2>1. req[p].id \in Ids
    BY <1>0, <1>b, RequestsAssumption DEF Asked
  <2>2. QED
    BY <1>0, <1>b, <2>1, WriteEndings DEF CutShort, Show
<1>c. \A p \in Procs : pc[p] # "idle" => req[p] \in Requests /\ req[p].id \in Ids
  BY <1>0, RequestsAssumption DEF Asked
<1>1. CASE UNCHANGED vars
  BY <1>0, <1>1 DEF vars
<1>2. ASSUME NEW p \in Procs, Check(p) PROVE TypeOK'
  BY <1>0, <1>2 DEF Check
<1>3. ASSUME NEW p \in Procs, AcquireLock(p) PROVE TypeOK'
  BY <1>0, <1>a, <1>3 DEF AcquireLock
<1>4. ASSUME NEW p \in Procs, Recheck(p) PROVE TypeOK'
  BY <1>0, <1>4 DEF Recheck
<1>5. ASSUME NEW p \in Procs, Prepare(p) PROVE TypeOK'
  <2>1. req[p] \in Requests /\ req[p].id \in Ids
    BY <1>5, <1>c DEF Prepare
  <2>2. /\ Created(req[p]) \in Records
        /\ Readable(req[p].id) => Changed(claims[req[p].id], req[p]) \in Records
    BY <1>0, <2>1, RecordsMade DEF Readable
  <2>3. QED
    BY <1>0, <1>5, <2>1, <2>2 DEF Prepare
<1>6. ASSUME NEW p \in Procs, RefuseWrite(p) PROVE TypeOK'
  BY <1>0, <1>6 DEF RefuseWrite
<1>7. ASSUME NEW p \in Procs, Expose(p) PROVE TypeOK'
  BY <1>0, <1>7 DEF Expose, Contract!Visible, Show
<1>8. ASSUME NEW p \in Procs, Commit(p) PROVE TypeOK'
  <2>1. next[p] \in Records /\ req[p].id \in Ids
    BY <1>0, <1>8, <1>c DEF Commit, Writing, Prepared
  <2>2. [id |-> req[p].id, kind |-> next[p].kind, scope |-> next[p].scope]
          \in Grants
    BY <2>1 DEF Grants, Records
  <2>3. granted' \subseteq Grants
    BY <1>0, <1>8, <2>2 DEF Commit
  <2>4. ended' \subseteq Ids /\ sidecars' \subseteq Ids
    BY <1>0, <1>8, <2>1, WriteEndings DEF Commit
  <2>5. QED
    BY <1>0, <1>8, <2>1, <2>3, <2>4, WriteEndings DEF Commit, Show
<1>9. ASSUME NEW p \in Procs, RollBack(p) PROVE TypeOK'
  <2>1. req[p].id \in Ids
    BY <1>9, <1>c DEF RollBack, Writing
  <2>2. QED
    BY <1>0, <1>9, <2>1, WriteEndings DEF RollBack, Show
<1>10. ASSUME NEW p \in Procs, FailToRollBack(p) PROVE TypeOK'
  BY <1>0, <1>b, <1>10 DEF FailToRollBack, Writing
<1>11. ASSUME NEW p \in Procs, ReleaseLock(p) PROVE TypeOK'
  BY <1>0, <1>a, <1>11 DEF ReleaseLock
<1>12. ASSUME NEW p \in Procs, Crash(p) PROVE TypeOK'
  <2>1. CASE Writing(p)
    BY <1>0, <1>a, <1>b, <1>12, <2>1 DEF Crash
  <2>2. CASE ~Writing(p)
    BY <1>0, <1>a, <1>12, <2>2 DEF Crash
  <2>3. QED
    BY <2>1, <2>2
<1>13. CASE DeleteStaleLock
  BY <1>0, <1>13 DEF DeleteStaleLock
<1>14. CASE Tick
  BY <1>0, <1>14 DEF Tick
<1>15. QED
  BY <1>1, <1>2, <1>3, <1>4, <1>5, <1>6, <1>7, <1>8, <1>9, <1>10, <1>11,
     <1>12, <1>13, <1>14 DEF Next, Run

\* At most one process is past AcquireLock, and the lock file is there while
\* one is, whoever dies and whenever a left-over lock file is deleted.
LEMMA ExclusionKept ==
  ASSUME IInv, [Next]_vars
  PROVE  Exclusion'
<1> USE DEF Exclusion, Holders, Critical, Goto, TypeOK
<1>0. TypeOK /\ Exclusion
  BY DEF IInv
<1>a. ASSUME NEW p \in Procs, NEW s, pc' = [pc EXCEPT ![p] = s], lock' = lock,
             s \in Critical => pc[p] \in Critical
      PROVE  Exclusion'
  BY <1>0, <1>a
<1>1. CASE UNCHANGED vars
  BY <1>0, <1>1 DEF vars
<1>2. ASSUME NEW p \in Procs, Check(p) PROVE Exclusion'
  BY <1>2, <1>a DEF Check
<1>3. ASSUME NEW p \in Procs, AcquireLock(p) PROVE Exclusion'
  <2>1. CASE ~lock /\ lock' = TRUE /\ Goto(p, "locked")
    BY <1>0, <2>1
  <2>2. CASE Finish(p) /\ UNCHANGED lock
    BY <2>2, <1>a DEF Finish
  <2>3. QED
    BY <1>3, <2>1, <2>2 DEF AcquireLock
<1>4. ASSUME NEW p \in Procs, Recheck(p) PROVE Exclusion'
  BY <1>4, <1>a DEF Recheck
<1>5. ASSUME NEW p \in Procs, Prepare(p) PROVE Exclusion'
  BY <1>5, <1>a DEF Prepare
<1>6. ASSUME NEW p \in Procs, RefuseWrite(p) PROVE Exclusion'
  BY <1>6, <1>a DEF RefuseWrite
<1>7. ASSUME NEW p \in Procs, Expose(p) PROVE Exclusion'
  BY <1>0, <1>7 DEF Expose
<1>8. ASSUME NEW p \in Procs, Commit(p) PROVE Exclusion'
  BY <1>8, <1>a DEF Commit, Writing
<1>9. ASSUME NEW p \in Procs, RollBack(p) PROVE Exclusion'
  BY <1>9, <1>a DEF RollBack, Writing
<1>10. ASSUME NEW p \in Procs, FailToRollBack(p) PROVE Exclusion'
  BY <1>10, <1>a DEF FailToRollBack, Writing
<1>11. ASSUME NEW p \in Procs, ReleaseLock(p) PROVE Exclusion'
  BY <1>0, <1>11 DEF ReleaseLock, Finish
<1>12. ASSUME NEW p \in Procs, Crash(p) PROVE Exclusion'
  BY <1>12, <1>a DEF Crash, Finish
<1>13. CASE DeleteStaleLock
  BY <1>0, <1>13 DEF DeleteStaleLock
<1>14. CASE Tick
  BY <1>0, <1>14 DEF Tick
<1>15. QED
  BY <1>1, <1>2, <1>3, <1>4, <1>5, <1>6, <1>7, <1>8, <1>9, <1>10, <1>11,
     <1>12, <1>13, <1>14 DEF Next, Run

\* A process that runs a command runs one of the requests.
LEMMA AskedKept ==
  ASSUME IInv, [Next]_vars
  PROVE  Asked'
<1> USE DEF Asked, Goto, locals, TypeOK
<1>0. TypeOK /\ Asked
  BY DEF IInv
<1>1. CASE UNCHANGED vars
  BY <1>0, <1>1 DEF vars
<1>2. ASSUME NEW p \in Procs, Check(p) PROVE Asked'
  BY <1>0, <1>2 DEF Check
<1>3. ASSUME NEW p \in Procs, Run(p) PROVE Asked'
  BY <1>0, <1>3 DEF Run, AcquireLock, Finish, Recheck, Prepare, RefuseWrite,
     Commit, RollBack, FailToRollBack, Writing, ReleaseLock
<1>4. ASSUME NEW p \in Procs, Expose(p) PROVE Asked'
  BY <1>0, <1>4 DEF Expose
<1>5. ASSUME NEW p \in Procs, Crash(p) PROVE Asked'
  BY <1>0, <1>5 DEF Crash, Finish
<1>6. CASE DeleteStaleLock \/ Tick
  BY <1>0, <1>6 DEF DeleteStaleLock, Tick
<1>7. QED
  BY <1>1, <1>2, <1>3, <1>4, <1>5, <1>6 DEF Next

\* The ledger changes only under the lock, one record at a time: the record
\* of the process that writes becomes the old or the new one, unreadable or
\* missing, and every other record stays.
LEMMA OneRecordChanges ==
  ASSUME IInv, [Next]_vars
  PROVE  \/ claims' = claims
         \/ \E p \in Procs, record \in Records \union {Absent, Torn} :
              /\ Writing(p)
              /\ claims' = [claims EXCEPT ![req[p].id] = record]
              /\ record \in {Absent, Torn, old[p], next[p]}
<1>0. TypeOK /\ Prepared
  BY DEF IInv
<1>a. ASSUME NEW p \in Procs, Writing(p),
             NEW record \in {Absent, Torn, old[p], next[p]}, Show(p, record)
      PROVE  \E record_ \in Records \union {Absent, Torn} :
               /\ claims' = [claims EXCEPT ![req[p].id] = record_]
               /\ record_ \in {Absent, Torn, old[p], next[p]}
  BY <1>0, <1>a DEF Show, TypeOK
<1>1. ASSUME NEW p \in Procs, Expose(p) \/ Commit(p) \/ RollBack(p)
      PROVE  Writing(p) /\ \E record \in {Absent, Torn, old[p], next[p]} :
               Show(p, record)
  BY <1>1, WriteEndings DEF Expose, Contract!Visible, Commit, RollBack
<1>2. ASSUME NEW p \in Procs, FailToRollBack(p)
      PROVE  Writing(p) /\ \E record \in {Absent, Torn, old[p], next[p]} :
               Show(p, record)
  BY <1>2, WriteEndings DEF FailToRollBack, CutShort
<1>3. ASSUME NEW p \in Procs, Crash(p), Writing(p)
      PROVE  \E record \in {Absent, Torn, old[p], next[p]} : Show(p, record)
  BY <1>3, WriteEndings DEF Crash, CutShort
<1>4. ASSUME NEW p \in Procs, Crash(p), ~Writing(p)
      PROVE  claims' = claims
  BY <1>4 DEF Crash, disk
<1>5. ASSUME NEW p \in Procs,
             Check(p) \/ AcquireLock(p) \/ Recheck(p) \/ Prepare(p)
               \/ RefuseWrite(p) \/ ReleaseLock(p)
      PROVE  claims' = claims
  BY <1>5 DEF Check, AcquireLock, Recheck, Prepare, RefuseWrite, ReleaseLock, disk
<1>6. CASE UNCHANGED vars \/ DeleteStaleLock \/ Tick
  BY <1>6 DEF vars, disk, DeleteStaleLock, Tick
<1>7. QED
  BY <1>a, <1>1, <1>2, <1>3, <1>4, <1>5, <1>6 DEF Next, Run

\* No step of any process makes two active exclusive claims overlap.
LEMMA DisjointKept ==
  ASSUME IInv, [Next]_vars
  PROVE  ActiveClaimsAreDisjoint'
<1>0. TypeOK /\ Prepared /\ ActiveClaimsAreDisjoint
  BY DEF IInv
<1>1. CASE claims' = claims
  BY <1>0, <1>1 DEF ActiveClaimsAreDisjoint, Blocks, Readable
<1>2. ASSUME NEW p \in Procs, NEW record \in Records \union {Absent, Torn},
             Writing(p), claims' = [claims EXCEPT ![req[p].id] = record],
             record \in {Absent, Torn, old[p], next[p]}
      PROVE  ActiveClaimsAreDisjoint'
  <2> DEFINE id == req[p].id
  <2>1. record \in Records => Fits(id, record)
    BY <1>0, <1>2, RequestsAssumption DEF Prepared, Writing
  <2>2. ASSUME NEW c \in Ids, c # id
        PROVE  claims'[c] = claims[c] /\ (Blocks(c)' <=> Blocks(c))
    BY <1>0, <1>2, <2>2 DEF TypeOK, Blocks, Readable
  <2>3. ASSUME NEW c \in Ids, c = id, Blocks(c)'
        PROVE  /\ claims'[c] = record /\ record \in Records
               /\ record.status = "active" /\ record.kind \in EXCLUSIVE_CLAIM_KINDS
    BY <1>0, <1>2, <2>3 DEF TypeOK, Blocks, Readable
  <2>4. SUFFICES ASSUME NEW c \in Ids, NEW d \in Ids, c # d, Blocks(c)', Blocks(d)'
                 PROVE  ~Overlap(claims'[c].scope, claims'[d].scope)
    BY DEF ActiveClaimsAreDisjoint
  <2>5. CASE c # id /\ d # id
    BY <1>0, <2>2, <2>4, <2>5 DEF ActiveClaimsAreDisjoint
  <2>6. CASE c # id /\ d = id
    BY <2>1, <2>2, <2>3, <2>4, <2>6 DEF Fits
  <2>7. CASE c = id /\ d # id
    <3>1. ~Overlap(claims'[d].scope, claims'[c].scope)
      BY <2>1, <2>2, <2>3, <2>4, <2>7 DEF Fits
    <3>2. QED
      BY <3>1, OverlapIsSymmetric
  <2>8. QED
    BY <2>4, <2>5, <2>6, <2>7
<1>3. QED
  BY <1>1, <1>2, OneRecordChanges

\* What a process relies on between its second check and the end of its
\* write changes only by its own steps.
LEMMA NobodyInterferes ==
  ASSUME IInv, [Next]_vars, NEW q \in Procs, pc'[q] \in {"rechecked", "write"}
  PROVE  \/ Recheck(q) \/ Prepare(q) \/ Expose(q)
         \/ /\ UNCHANGED <<claims, sidecars, granted, ended, troubled>>
            /\ pc'[q] = pc[q] /\ req'[q] = req[q]
            /\ old'[q] = old[q] /\ next'[q] = next[q]
<1> USE DEF TypeOK, Critical, Goto, locals, disk, history
<1>0. TypeOK /\ Exclusion
  BY DEF IInv
<1>a. ASSUME NEW p \in Procs, p # q, pc' = [pc EXCEPT ![p] = pc'[p]]
      PROVE  pc[p] \notin Critical /\ pc'[q] = pc[q]
  BY <1>0, <1>a DEF Exclusion, Holders
<1>1. CASE UNCHANGED vars
  BY <1>1 DEF vars
<1>2. ASSUME NEW p \in Procs, Check(p)
      PROVE  /\ UNCHANGED <<claims, sidecars, granted, ended, troubled, old, next>>
             /\ pc'[q] = pc[q] /\ req'[q] = req[q]
  BY <1>0, <1>2 DEF Check
<1>3. ASSUME NEW p \in Procs, AcquireLock(p)
      PROVE  /\ UNCHANGED <<claims, sidecars, granted, ended, troubled>>
             /\ pc'[q] = pc[q] /\ req'[q] = req[q]
             /\ old'[q] = old[q] /\ next'[q] = next[q]
  BY <1>0, <1>3 DEF AcquireLock, Finish
<1>4. ASSUME NEW p \in Procs, p # q,
             Recheck(p) \/ Prepare(p) \/ RefuseWrite(p) \/ Expose(p)
               \/ Commit(p) \/ RollBack(p) \/ FailToRollBack(p) \/ ReleaseLock(p)
      PROVE  FALSE
  BY <1>0, <1>4, <1>a DEF Recheck, Prepare, RefuseWrite, Expose, Commit,
     RollBack, FailToRollBack, ReleaseLock, Writing, Finish
<1>5. RefuseWrite(q) \/ Commit(q) \/ RollBack(q) \/ FailToRollBack(q)
        \/ ReleaseLock(q) \/ Crash(q) => FALSE
  BY <1>0 DEF RefuseWrite, Commit, RollBack, FailToRollBack, ReleaseLock,
     Finish, Crash, Writing
<1>6. ASSUME NEW p \in Procs, p # q, Crash(p)
      PROVE  /\ UNCHANGED <<claims, sidecars, granted, ended, troubled>>
             /\ pc'[q] = pc[q] /\ req'[q] = req[q]
             /\ old'[q] = old[q] /\ next'[q] = next[q]
  BY <1>0, <1>6, <1>a DEF Crash, Finish, Writing
<1>7. CASE DeleteStaleLock \/ Tick
  BY <1>7 DEF DeleteStaleLock, Tick
<1>8. ASSUME NEW p \in Procs, Check(p) \/ Run(p) \/ Expose(p) \/ Crash(p)
      PROVE  \/ Recheck(q) \/ Prepare(q) \/ Expose(q)
             \/ /\ UNCHANGED <<claims, sidecars, granted, ended, troubled>>
                /\ pc'[q] = pc[q] /\ req'[q] = req[q]
                /\ old'[q] = old[q] /\ next'[q] = next[q]
  BY <1>2, <1>3, <1>4, <1>5, <1>6, <1>8 DEF Run
<1>9. QED
  BY <1>1, <1>7, <1>8 DEF Next

\* The verdict of the second check stays true until the record is made.
LEMMA VerdictKept ==
  ASSUME IInv, [Next]_vars
  PROVE  StillAllowed'
<1>0. TypeOK /\ StillAllowed /\ Asked
  BY DEF IInv
<1>1. SUFFICES ASSUME NEW q \in Procs, pc'[q] = "rechecked"
               PROVE  /\ req'[q].action = "create" => MayCreate(req[q])'
                      /\ req'[q].action = "extend" =>
                           /\ Readable(req[q].id)'
                           /\ claims'[req'[q].id].status = "active"
  BY DEF StillAllowed
<1>2. CASE Recheck(q)
  <2>1. Allowed(req[q]) /\ UNCHANGED <<claims, req>>
    BY <1>0, <1>1, <1>2 DEF Recheck, Goto, TypeOK, disk, locals
  <2>2. CASE req[q].action = "create"
    BY <2>1, <2>2 DEF Allowed, MayCreate, Blocks, Readable
  <2>3. CASE req[q].action = "extend"
    BY <2>1, <2>3 DEF Allowed, MayExtend, Readable
  <2>4. QED
    BY <2>1, <2>2, <2>3
<1>3. ~Prepare(q) /\ ~Expose(q)
  BY <1>0, <1>1 DEF Prepare, Expose, Goto, TypeOK, Writing
<1>4. CASE claims' = claims /\ pc'[q] = pc[q] /\ req'[q] = req[q]
  BY <1>0, <1>1, <1>4 DEF StillAllowed, MayCreate, Blocks, Readable
<1>5. QED
  BY <1>1, <1>2, <1>3, <1>4, NobodyInterferes

\* A record is written only where it fits, and over the record it was made
\* from.
LEMMA PreparedKept ==
  ASSUME IInv, [Next]_vars
  PROVE  Prepared'
<1> USE DEF TypeOK
<1>0. /\ TypeOK /\ StillAllowed /\ Asked /\ Prepared
      /\ ActiveClaimsAreDisjoint
  BY DEF IInv
<1> DEFINE Ready(p) ==
      /\ Fits(req[p].id, old[p]) /\ Fits(req[p].id, next[p])
      /\ next[p] \in Records
      /\ next[p].status =
           IF req[p].action = "release" THEN "released" ELSE "active"
      /\ IF req[p].action = "create" THEN old[p] = Absent
         ELSE /\ old[p] \in Records
              /\ old[p].kind = next[p].kind /\ old[p].scope = next[p].scope
              /\ IF req[p].action = "release" THEN old[p].lease = next[p].lease
                 ELSE old[p].status = "active"
      /\ req[p].id \in sidecars => claims[req[p].id] = old[p]
<1>1. SUFFICES ASSUME NEW q \in Procs, pc'[q] = "write"
               PROVE  Ready(q)'
  BY DEF Prepared
<1>2. CASE Prepare(q)
  <2> DEFINE r == req[q]
  <2>1. /\ UNCHANGED <<claims, sidecars, req>> /\ pc[q] = "rechecked"
        /\ old'[q] = claims[r.id]
    BY <1>0, <1>1, <1>2 DEF Prepare, Goto, disk
  <2>2. r \in Requests /\ r.id \in Ids /\ r.kind \in WORK_CLAIM_KINDS
        /\ r.action \in {"create", "extend", "release"}
    BY <1>0, <2>1, RequestsAssumption DEF Asked
  <2>3. CASE r.action = "create"
    <3>1. next'[q] = Created(r) /\ MayCreate(r)
      BY <1>0, <1>2, <2>1, <2>3 DEF Prepare, StillAllowed
    <3>2. /\ old'[q] = Absent /\ next'[q] \in Records
          /\ next'[q].kind = r.kind /\ next'[q].scope = r.scope
          /\ next'[q].status = "active"
      BY <1>0, <2>1, <2>2, <3>1, RecordsMade DEF MayCreate
    <3>3. Fits(req[q].id, old[q])' /\ Fits(req[q].id, next[q])'
      BY <2>1, <3>1, <3>2, RequestsAssumption DEF Fits, MayCreate, Blocks, Readable
    <3>4. QED
      BY <2>1, <2>3, <3>2, <3>3
  <2>4. CASE r.action # "create"
    <3>1. next'[q] = Changed(claims[r.id], r) /\ Readable(r.id)
      BY <1>0, <1>1, <1>2, <2>4 DEF Prepare, Goto
    <3>2. claims[r.id] \in Records
      BY <1>0, <2>2, <3>1 DEF Readable
    <3>3. /\ next'[q] \in Records
          /\ next'[q].kind = claims[r.id].kind
          /\ next'[q].scope = claims[r.id].scope
          /\ next'[q].status =
               IF r.action = "release" THEN "released" ELSE claims[r.id].status
          /\ r.action = "release" => next'[q].lease = claims[r.id].lease
      BY <1>0, <2>2, <3>1, <3>2, RecordsMade
    <3>4. r.action = "extend" => claims[r.id].status = "active"
      BY <1>0, <2>1 DEF StillAllowed
    <3>5. Fits(r.id, claims[r.id])
      BY <1>0, <2>2, <3>1, <3>2 DEF Fits, ActiveClaimsAreDisjoint, Blocks
    <3>6. Fits(req[q].id, old[q])' /\ Fits(req[q].id, next[q])'
      BY <2>1, <3>2, <3>3, <3>4, <3>5 DEF Fits, Blocks, Readable
    <3>7. QED
      BY <2>1, <2>2, <2>4, <3>2, <3>3, <3>4, <3>6
  <2>5. QED
    BY <2>3, <2>4
<1>3. CASE Expose(q)
  <2>1. /\ Ready(q) /\ UNCHANGED <<sidecars, req, old, next>>
        /\ req[q].id \notin sidecars
    BY <1>0, <1>3 DEF Prepared, Expose, Writing, locals
  <2>2. \A c \in Ids \ {req[q].id} : claims'[c] = claims[c]
    BY <1>0, <1>3 DEF Expose, Contract!Visible, Show
  <2>3. Fits(req[q].id, old[q])' /\ Fits(req[q].id, next[q])'
    BY <2>1, <2>2 DEF Fits, Blocks, Readable
  <2>4. QED
    BY <2>1, <2>3
<1>4. CASE /\ UNCHANGED <<claims, sidecars>> /\ pc'[q] = pc[q]
           /\ req'[q] = req[q] /\ old'[q] = old[q] /\ next'[q] = next[q]
  <2>1. Ready(q)
    BY <1>0, <1>1, <1>4 DEF Prepared
  <2>2. Fits(req[q].id, old[q])' /\ Fits(req[q].id, next[q])'
    BY <1>4, <2>1 DEF Fits, Blocks, Readable
  <2>3. QED
    BY <1>4, <2>1, <2>2
<1>5. ~Recheck(q)
  BY <1>0, <1>1 DEF Recheck, Goto
<1>6. QED
  BY <1>1, <1>2, <1>3, <1>4, <1>5, NobodyInterferes

\* A claim that was released does not come back, and what protects it while
\* its record is missing is not lost.
LEMMA EndsKept ==
  ASSUME IInv, [Next]_vars
  PROVE  EndsAreGuarded' /\ ReleasedStaysReleased'
<1> USE DEF TypeOK, Goto, locals, disk, history, Critical
<1>0. /\ TypeOK /\ Asked /\ StillAllowed /\ Prepared
      /\ EndsAreGuarded /\ ReleasedStaysReleased
  BY DEF IInv
<1> DEFINE Safe(c) ==
      /\ claims[c] = Absent =>
           \/ c \in sidecars
           \/ \E p \in Holders : pc[p] = "write" /\ req[p].id = c
      /\ Readable(c) => claims[c].status = "released"
<1>a. \A c \in ended : Safe(c)
  BY <1>0 DEF EndsAreGuarded, ReleasedStaysReleased
\* A step that is nobody's write.
<1>b. ASSUME UNCHANGED <<claims, sidecars, ended>>,
             \A p \in Procs : pc[p] = "write" /\ req[p].id \notin sidecars =>
               pc'[p] = "write" /\ req'[p] = req[p]
      PROVE  \A c \in ended' : Safe(c)'
  <2>1. SUFFICES ASSUME NEW c \in ended PROVE Safe(c)'
    BY <1>b
  <2>2. Safe(c)
    BY <1>a
  <2>3. QED
    BY <1>b, <2>2 DEF Holders, Readable
\* What is written over a record whose claim has ended.
<1>c. ASSUME NEW p \in Procs, Writing(p), req[p].id \in ended
      PROVE  /\ old[p] \in Records /\ old[p].status = "released"
             /\ next[p] \in Records /\ next[p].status = "released"
  BY <1>0, <1>c DEF Writing, EndsAreGuarded, Prepared
\* The other records while somebody writes.
<1>d. ASSUME NEW p \in Procs, Writing(p), NEW record, Show(p, record),
             sidecars \subseteq sidecars',
             NEW c \in ended, c # req[p].id
      PROVE  Safe(c)'
  <2>1. claims'[c] = claims[c]
    BY <1>0, <1>d DEF Show
  <2>2. claims[c] = Absent => c \in sidecars
    BY <1>a, <1>d, Alone DEF Writing
  <2>3. Safe(c)
    BY <1>a
  <2>4. QED
    BY <1>d, <2>1, <2>2, <2>3 DEF Readable
<1>e. ASSUME NEW p \in Procs, Writing(p), NEW record \in Records, Show(p, record),
             record.status = "released", NEW c, c = req[p].id
      PROVE  Safe(c)'
  BY <1>0, <1>e, RequestsAssumption DEF Show, Writing, Readable, Asked
<1>f. ASSUME NEW p \in Procs, Writing(p), CutShort(p)
      PROVE  \A c \in ended' : Safe(c)'
  <2>1. PICK record \in {Absent, Torn, old[p], next[p]} :
          /\ Show(p, record)
          /\ record \notin {old[p], next[p]} /\ old[p] # Absent =>
               sidecars' = sidecars \union {req[p].id}
    BY <1>f, WriteEndings DEF CutShort
  <2>2. ended' = ended /\ sidecars \subseteq sidecars'
    BY <1>f, WriteEndings DEF CutShort
  <2>3. ASSUME NEW c \in ended, c = req[p].id PROVE Safe(c)'
    <3>1. CASE record \in Records
      BY <1>c, <1>e, <1>f, <2>1, <2>3, <3>1, RequestsAssumption
    <3>2. CASE record \notin Records
      <4>1. old[p] \in Records /\ next[p] \in Records /\ record \in {Absent, Torn}
        BY <1>c, <1>f, <2>1, <2>3, <3>2
      <4>2. c \in sidecars'
        BY <2>1, <2>3, <4>1, RequestsAssumption
      <4>3. claims'[c] \in {Absent, Torn}
        BY <1>0, <1>f, <2>1, <2>3, <4>1, RequestsAssumption DEF Show, Writing, Asked
      <4>4. QED
        BY <4>2, <4>3, RequestsAssumption DEF Readable
    <3>3. QED
      BY <3>1, <3>2
  <2>4. QED
    BY <1>d, <1>f, <2>1, <2>2, <2>3
<1>1. ASSUME UNCHANGED vars PROVE \A c \in ended' : Safe(c)'
  BY <1>1, <1>b DEF vars
<1>2. ASSUME NEW p \in Procs, Check(p) PROVE \A c \in ended' : Safe(c)'
  BY <1>0, <1>2, <1>b DEF Check
<1>3. ASSUME NEW p \in Procs, AcquireLock(p) PROVE \A c \in ended' : Safe(c)'
  BY <1>0, <1>3, <1>b DEF AcquireLock, Finish
<1>4. ASSUME NEW p \in Procs, Recheck(p) PROVE \A c \in ended' : Safe(c)'
  BY <1>0, <1>4, <1>b DEF Recheck
<1>5. ASSUME NEW p \in Procs, Prepare(p) PROVE \A c \in ended' : Safe(c)'
  BY <1>0, <1>5, <1>b DEF Prepare
<1>6. ASSUME NEW p \in Procs, RefuseWrite(p) PROVE \A c \in ended' : Safe(c)'
  BY <1>0, <1>6, <1>b DEF RefuseWrite
<1>7. ASSUME NEW p \in Procs, Expose(p) PROVE \A c \in ended' : Safe(c)'
  <2>1. Writing(p) /\ UNCHANGED <<sidecars, ended, pc, req>>
    BY <1>7 DEF Expose
  <2>2. PICK record \in {Absent, Torn, old[p], next[p]} : Show(p, record)
    BY <1>7 DEF Expose, Contract!Visible
  <2>3. req[p].id \in Ids /\ claims'[req[p].id] = record
    BY <1>0, <2>1, <2>2, RequestsAssumption DEF Writing, Asked, Show
  <2>4. ASSUME NEW c \in ended, c = req[p].id PROVE Safe(c)'
    BY <1>c, <2>1, <2>2, <2>3, <2>4, RequestsAssumption DEF Writing, Holders, Readable
  <2>5. QED
    BY <1>d, <2>1, <2>2, <2>4
<1>8. ASSUME NEW p \in Procs, Commit(p) PROVE \A c \in ended' : Safe(c)'
  <2>1. Writing(p) /\ Show(p, next[p]) /\ sidecars \subseteq sidecars'
    BY <1>8, WriteEndings DEF Commit
  <2>2. ended' \subseteq ended \union {req[p].id}
    BY <1>8 DEF Commit
  <2>3. ASSUME NEW c \in ended', c = req[p].id PROVE Safe(c)'
    <3>1. next[p] \in Records /\ next[p].status = "released"
      BY <1>0, <1>8, <1>c, <2>1, <2>3 DEF Commit, Writing, Prepared
    <3>2. QED
      BY <1>e, <2>1, <2>3, <3>1
  <2>4. QED
    BY <1>d, <2>1, <2>2, <2>3
<1>9. ASSUME NEW p \in Procs, RollBack(p) PROVE \A c \in ended' : Safe(c)'
  <2>1. /\ Writing(p) /\ Show(p, old[p]) /\ sidecars \subseteq sidecars'
        /\ ended' = ended
    BY <1>9, WriteEndings DEF RollBack
  <2>2. ASSUME NEW c \in ended, c = req[p].id PROVE Safe(c)'
    BY <1>c, <1>e, <2>1, <2>2
  <2>3. QED
    BY <1>d, <2>1, <2>2
<1>10. ASSUME NEW p \in Procs, FailToRollBack(p) PROVE \A c \in ended' : Safe(c)'
  BY <1>10, <1>f DEF FailToRollBack
<1>11. ASSUME NEW p \in Procs, ReleaseLock(p) PROVE \A c \in ended' : Safe(c)'
  BY <1>0, <1>11, <1>b DEF ReleaseLock, Finish
<1>12. ASSUME NEW p \in Procs, Crash(p) PROVE \A c \in ended' : Safe(c)'
  <2>1. CASE Writing(p)
    BY <1>12, <1>f, <2>1 DEF Crash
  <2>2. CASE ~Writing(p)
    BY <1>0, <1>12, <1>b, <2>2 DEF Crash, Finish, Writing
  <2>3. QED
    BY <2>1, <2>2
<1>13. ASSUME DeleteStaleLock PROVE \A c \in ended' : Safe(c)'
  BY <1>13, <1>b DEF DeleteStaleLock
<1>14. ASSUME Tick PROVE \A c \in ended' : Safe(c)'
  BY <1>14, <1>b DEF Tick
<1>15. \A c \in ended' : Safe(c)'
  BY <1>1, <1>2, <1>3, <1>4, <1>5, <1>6, <1>7, <1>8, <1>9, <1>10, <1>11,
     <1>12, <1>13, <1>14 DEF Next, Run
<1>16. ASSUME NEW q \in Procs, pc'[q] = "write", req'[q].id \in ended',
              req'[q].id \notin sidecars'
       PROVE  req'[q].action = "release" /\ old'[q].status = "released"
  <2>1. CASE Prepare(q)
    <3>1. /\ pc[q] = "rechecked" /\ UNCHANGED <<claims, sidecars, ended, req>>
          /\ old'[q] = claims[req[q].id]
      BY <1>0, <1>16, <2>1 DEF Prepare
    <3>2. claims[req[q].id] # Absent
      BY <1>a, <1>16, <3>1, Alone
    <3>3. Readable(req[q].id)
      BY <1>0, <1>16, <2>1, <3>1, <3>2 DEF Prepare, StillAllowed, MayCreate
    <3>4. claims[req[q].id].status = "released"
      BY <1>a, <1>16, <3>1, <3>3
    <3>5. req[q] \in Requests
      BY <1>0, <3>1 DEF Asked
    <3>6. req[q].action \in {"create", "extend", "release"}
      BY <3>5, RequestsAssumption
    <3>7. req[q].action = "release"
      BY <1>0, <3>1, <3>2, <3>4, <3>6 DEF StillAllowed, MayCreate
    <3>8. QED
      BY <3>1, <3>4, <3>7
  <2>2. CASE Expose(q)
    BY <1>0, <1>16, <2>2 DEF Expose, Writing, EndsAreGuarded
  <2>3. ~Recheck(q)
    BY <1>0, <1>16 DEF Recheck
  <2>4. CASE /\ UNCHANGED <<sidecars, granted, ended>> /\ pc'[q] = pc[q]
             /\ req'[q] = req[q] /\ old'[q] = old[q]
    <3>1. ended' = ended
      BY <2>4
    <3>2. QED
      BY <1>0, <1>16, <2>4, <3>1 DEF EndsAreGuarded
  <2>5. QED
    BY <1>16, <2>1, <2>2, <2>3, <2>4, NobodyInterferes
<1>17. QED
  BY <1>15, <1>16 DEF EndsAreGuarded, ReleasedStaysReleased

\* A granted claim keeps its record through every step that is not a broken
\* write of that record.
LEMMA GrantsKept ==
  ASSUME IInv, [Next]_vars
  PROVE  GrantsAreRead' /\ GrantsAreKept'
<1> USE DEF TypeOK, Goto, locals, disk, history, Critical
<1>0. /\ TypeOK /\ Asked /\ StillAllowed /\ Prepared
      /\ GrantsAreRead /\ GrantsAreKept
  BY DEF IInv
<1> DEFINE Shown(g) == /\ Readable(g.id) /\ claims[g.id].status = "active"
                       /\ claims[g.id].kind = g.kind
                       /\ claims[g.id].scope = g.scope
           Written(g) == \E p \in Holders : pc[p] = "write" /\ req[p].id = g.id
           Kept(g) == g.id \in troubled \/ Written(g) \/ Shown(g)
<1>a. \A g \in granted : Kept(g)
  BY <1>0 DEF GrantsAreKept
<1>x. \A c \in Ids : Readable(c) <=> claims[c] \in Records
  BY <1>0, RequestsAssumption DEF Readable
\* A step that is nobody's write.
<1>b. ASSUME UNCHANGED <<claims, sidecars, granted, troubled>>,
             \A p \in Procs : pc[p] = "write" /\ req[p].id \notin sidecars =>
               pc'[p] = "write" /\ req'[p] = req[p]
      PROVE  \A g \in granted' : Kept(g)'
  <2>1. SUFFICES ASSUME NEW g \in granted PROVE Kept(g)'
    BY <1>b
  <2>2. g.id \in troubled \/ Shown(g) => Kept(g)'
    BY <1>b DEF Readable
  <2>3. ASSUME NEW p \in Holders, pc[p] = "write", req[p].id = g.id
        PROVE  Kept(g)'
    <3>1. CASE g.id \in sidecars
      <4>1. claims[g.id] = old[p] /\ g.id \in Ids
        BY <1>0, <2>3, <3>1, RequestsAssumption DEF Prepared, Asked, Holders
      <4>2. g.id \in troubled \/ Shown(g)
        BY <1>0, <1>x, <2>3, <4>1 DEF GrantsAreRead, Prepared, Holders
      <4>3. QED
        BY <2>2, <4>2
    <3>2. CASE g.id \notin sidecars
      BY <1>b, <2>3, <3>2 DEF Holders
    <3>3. QED
      BY <3>1, <3>2
  <2>4. QED
    BY <1>a, <2>2, <2>3
\* What is written over the record of a granted claim.
<1>c. ASSUME NEW p \in Procs, Writing(p), NEW g \in granted, g.id = req[p].id,
             g.id \notin troubled
      PROVE  /\ old[p] \in Records /\ next[p] \in Records
             /\ old[p].status = "active" /\ req[p].action # "create"
             /\ old[p].kind = g.kind /\ old[p].scope = g.scope
             /\ next[p].kind = g.kind /\ next[p].scope = g.scope
  BY <1>0, <1>c DEF Writing, GrantsAreRead, Prepared
\* The other records while somebody writes.
<1>d. ASSUME NEW p \in Procs, Writing(p), NEW record, Show(p, record),
             troubled \subseteq troubled',
             NEW g \in granted, g.id # req[p].id
      PROVE  Kept(g)'
  <2>1. claims'[g.id] = claims[g.id]
    BY <1>0, <1>d DEF Show, Grants
  <2>2. ~Written(g)
    BY <1>d, Alone DEF Writing
  <2>3. QED
    BY <1>a, <1>d, <2>1, <2>2 DEF Readable
<1>e. ASSUME NEW p \in Procs, Writing(p), NEW record \in Records, Show(p, record),
             record.status = "active", NEW g, g.id = req[p].id,
             record.kind = g.kind, record.scope = g.scope
      PROVE  Kept(g)'
  BY <1>0, <1>e, RequestsAssumption DEF Show, Writing, Readable, Asked
<1>f. ASSUME NEW p \in Procs, Writing(p), CutShort(p)
      PROVE  \A g \in granted' : Kept(g)'
  <2>1. PICK record \in {Absent, Torn, old[p], next[p]} : Show(p, record)
    BY <1>f, WriteEndings DEF CutShort
  <2>2. granted' = granted /\ troubled' = troubled \union {req[p].id}
    BY <1>f DEF CutShort
  <2>3. QED
    BY <1>d, <1>f, <2>1, <2>2
<1>1. ASSUME UNCHANGED vars PROVE \A g \in granted' : Kept(g)'
  BY <1>1, <1>b DEF vars
<1>2. ASSUME NEW p \in Procs, Check(p) PROVE \A g \in granted' : Kept(g)'
  BY <1>0, <1>2, <1>b DEF Check
<1>3. ASSUME NEW p \in Procs, AcquireLock(p) PROVE \A g \in granted' : Kept(g)'
  BY <1>0, <1>3, <1>b DEF AcquireLock, Finish
<1>4. ASSUME NEW p \in Procs, Recheck(p) PROVE \A g \in granted' : Kept(g)'
  BY <1>0, <1>4, <1>b DEF Recheck
<1>5. ASSUME NEW p \in Procs, Prepare(p) PROVE \A g \in granted' : Kept(g)'
  BY <1>0, <1>5, <1>b DEF Prepare
<1>6. ASSUME NEW p \in Procs, RefuseWrite(p) PROVE \A g \in granted' : Kept(g)'
  BY <1>0, <1>6, <1>b DEF RefuseWrite
<1>7. ASSUME NEW p \in Procs, Expose(p) PROVE \A g \in granted' : Kept(g)'
  <2>1. Writing(p) /\ UNCHANGED <<troubled, granted, pc, req>>
    BY <1>7 DEF Expose
  <2>2. PICK record \in {Absent, Torn, old[p], next[p]} : Show(p, record)
    BY <1>7 DEF Expose, Contract!Visible
  <2>3. ASSUME NEW g \in granted, g.id = req[p].id PROVE Kept(g)'
    BY <2>1, <2>3 DEF Writing, Holders
  <2>4. QED
    BY <1>d, <2>1, <2>2, <2>3
<1>8. ASSUME NEW p \in Procs, Commit(p) PROVE \A g \in granted' : Kept(g)'
  <2> DEFINE grant == [id |-> req[p].id, kind |-> next[p].kind,
                       scope |-> next[p].scope]
  <2>1. Writing(p) /\ Show(p, next[p]) /\ troubled' = troubled
    BY <1>8, WriteEndings DEF Commit
  <2>2. /\ req[p].action = "release" => granted' = granted \ {grant}
        /\ req[p].action # "release" => granted' = granted \union {grant}
    BY <1>8 DEF Commit
  <2>3. /\ next[p] \in Records
        /\ req[p].action # "release" => next[p].status = "active"
    BY <1>0, <2>1 DEF Writing, Prepared
  <2>4. ASSUME NEW g, g = grant, req[p].action # "release" PROVE Kept(g)'
    <3>1. g.id = req[p].id /\ g.kind = next[p].kind /\ g.scope = next[p].scope
      BY <2>4
    <3>2. QED
      BY <1>e, <2>1, <2>3, <2>4, <3>1
  <2>5. ASSUME NEW g \in granted, g.id = req[p].id, g.id \notin troubled
        PROVE  g = grant
    <3>1. g \in [id : Ids, kind : WORK_CLAIM_KINDS, scope : Scopes]
      BY <1>0 DEF Grants
    <3>2. next[p].kind = g.kind /\ next[p].scope = g.scope
      BY <1>c, <2>1, <2>5
    <3>3. g = [id |-> g.id, kind |-> g.kind, scope |-> g.scope]
      BY <3>1
    <3>4. QED
      BY <2>5, <3>2, <3>3
  <2>6. ASSUME NEW g \in granted', g.id = req[p].id PROVE Kept(g)'
    <3>1. CASE g \in granted /\ g.id \in troubled
      BY <2>1, <3>1
    <3>2. CASE g \in granted /\ g.id \notin troubled
      BY <2>2, <2>4, <2>5, <2>6, <3>2
    <3>3. CASE g \notin granted
      BY <2>2, <2>4, <2>6, <3>3
    <3>4. QED
      BY <3>1, <3>2, <3>3
  <2>7. ASSUME NEW g \in granted', g.id # req[p].id PROVE Kept(g)'
    BY <1>d, <2>1, <2>2, <2>7
  <2>8. QED
    BY <2>6, <2>7
<1>9. ASSUME NEW p \in Procs, RollBack(p) PROVE \A g \in granted' : Kept(g)'
  <2>1. /\ Writing(p) /\ Show(p, old[p])
        /\ UNCHANGED <<granted, troubled>>
    BY <1>9, WriteEndings DEF RollBack
  <2>2. ASSUME NEW g \in granted, g.id = req[p].id PROVE Kept(g)'
    <3>1. CASE g.id \in troubled
      BY <2>1, <3>1
    <3>2. CASE g.id \notin troubled
      BY <1>c, <1>e, <2>1, <2>2, <3>2
    <3>3. QED
      BY <3>1, <3>2
  <2>3. QED
    BY <1>d, <2>1, <2>2
<1>10. ASSUME NEW p \in Procs, FailToRollBack(p) PROVE \A g \in granted' : Kept(g)'
  BY <1>10, <1>f DEF FailToRollBack
<1>11. ASSUME NEW p \in Procs, ReleaseLock(p) PROVE \A g \in granted' : Kept(g)'
  BY <1>0, <1>11, <1>b DEF ReleaseLock, Finish
<1>12. ASSUME NEW p \in Procs, Crash(p) PROVE \A g \in granted' : Kept(g)'
  <2>1. CASE Writing(p)
    BY <1>12, <1>f, <2>1 DEF Crash
  <2>2. CASE ~Writing(p)
    BY <1>0, <1>12, <1>b, <2>2 DEF Crash, Finish, Writing
  <2>3. QED
    BY <2>1, <2>2
<1>13. ASSUME DeleteStaleLock PROVE \A g \in granted' : Kept(g)'
  BY <1>13, <1>b DEF DeleteStaleLock
<1>14. ASSUME Tick PROVE \A g \in granted' : Kept(g)'
  BY <1>14, <1>b DEF Tick
<1>15. \A g \in granted' : Kept(g)'
  BY <1>1, <1>2, <1>3, <1>4, <1>5, <1>6, <1>7, <1>8, <1>9, <1>10, <1>11,
     <1>12, <1>13, <1>14 DEF Next, Run
<1>16. ASSUME NEW q \in Procs, NEW g \in granted', pc'[q] = "write",
              req'[q].id = g.id, g.id \notin troubled'
       PROVE  /\ req'[q].action # "create" /\ old'[q].status = "active"
              /\ old'[q].kind = g.kind /\ old'[q].scope = g.scope
  <2>1. CASE Prepare(q)
    <3>1. /\ pc[q] = "rechecked" /\ UNCHANGED <<claims, granted, troubled, req>>
          /\ old'[q] = claims[req[q].id]
      BY <1>0, <1>16, <2>1 DEF Prepare
    <3>2. ~Written(g)
      BY <3>1, Alone
    <3>3. Shown(g)
      BY <1>a, <1>16, <3>1, <3>2
    <3>4. QED
      BY <1>0, <1>16, <3>1, <3>3 DEF StillAllowed, MayCreate, Readable
  <2>2. CASE Expose(q)
    BY <1>0, <1>16, <2>2 DEF Expose, Writing, GrantsAreRead
  <2>3. ~Recheck(q)
    BY <1>0, <1>16 DEF Recheck
  <2>4. CASE /\ UNCHANGED <<granted, troubled>> /\ pc'[q] = pc[q]
             /\ req'[q] = req[q] /\ old'[q] = old[q]
    BY <1>0, <1>16, <2>4 DEF GrantsAreRead
  <2>5. QED
    BY <1>16, <2>1, <2>2, <2>3, <2>4, NobodyInterferes
<1>17. QED
  BY <1>15, <1>16 DEF GrantsAreRead, GrantsAreKept

-----------------------------------------------------------------------------
(* The inductive invariant.                                                *)

LEMMA InitHolds == Init => IInv
<1> SUFFICES ASSUME Init PROVE IInv
  OBVIOUS
<1>1. TypeOK
  BY DEF Init, TypeOK, Critical
<1>2. \A p \in Procs : pc[p] = "idle"
  BY DEF Init
<1>3. Exclusion /\ Asked /\ StillAllowed /\ Prepared /\ EndsAreGuarded
  BY <1>2 DEF Init, Exclusion, Holders, Critical, Asked, StillAllowed,
     Prepared, EndsAreGuarded
<1>4. GrantsAreRead /\ GrantsAreKept /\ ReleasedStaysReleased
  BY DEF Init, GrantsAreRead, GrantsAreKept, ReleasedStaysReleased
<1>5. ActiveClaimsAreDisjoint
  BY DEF Init, ActiveClaimsAreDisjoint, Blocks, Readable
<1>6. QED
  BY <1>1, <1>3, <1>4, <1>5 DEF IInv

LEMMA Inductive == IInv /\ [Next]_vars => IInv'
<1>1. SUFFICES ASSUME IInv, [Next]_vars PROVE IInv'
  OBVIOUS
<1>2. TypeOK' /\ Exclusion' /\ Asked'
  BY <1>1, Typing, ExclusionKept, AskedKept
<1>3. StillAllowed' /\ Prepared' /\ ActiveClaimsAreDisjoint'
  BY <1>1, VerdictKept, PreparedKept, DisjointKept
<1>4. EndsAreGuarded' /\ ReleasedStaysReleased'
  BY <1>1, EndsKept
<1>5. GrantsAreRead' /\ GrantsAreKept'
  BY <1>1, GrantsKept
<1>6. QED
  BY <1>2, <1>3, <1>4, <1>5 DEF IInv

\* IInv holds in every reachable state, for any number of processes.
THEOREM Invariance == Spec => []IInv
BY InitHolds, Inductive, PTL DEF Spec

\* The types of the ledger, of its lock and of what every process has in hand.
THEOREM TypeCorrect == Spec => []TypeOK
<1>1. IInv => TypeOK
  BY DEF IInv
<1>2. QED
  BY <1>1, Invariance, PTL

\* No interleaving of claim commands grants two active exclusive claims that
\* overlap (claims.py, the second check under the lock).
THEOREM Disjointness == Spec => []ActiveClaimsAreDisjoint
<1>1. IInv => ActiveClaimsAreDisjoint
  BY DEF IInv
<1>2. QED
  BY <1>1, Invariance, PTL

\* A granted claim keeps its record, kind and scope until it is released,
\* unless a write of that very record breaks.
THEOREM NoGrantIsLost == Spec => []GrantsAreKept
<1>1. IInv => GrantsAreKept
  BY DEF IInv
<1>2. QED
  BY <1>1, Invariance, PTL

\* A claim that was released is never active again.
THEOREM ReleaseIsFinal == Spec => []ReleasedStaysReleased
<1>1. IInv => ReleasedStaysReleased
  BY DEF IInv
<1>2. QED
  BY <1>1, Invariance, PTL

-----------------------------------------------------------------------------
(* The ledger as its callers see it.                                       *)

\* What a record counts as while nobody writes it.
Settled(c) ==
  IF claims[c] = Absent /\ c \in sidecars THEN Torn ELSE claims[c]

Writes(p, c) == Writing(p) /\ req[p].id = c

LEMMA StandingIs ==
  ASSUME IInv, NEW c
  PROVE  /\ \A p \in Procs : Writes(p, c) => Standing(c) = old[p]
         /\ (\A p \in Procs : ~Writes(p, c)) => Standing(c) = Settled(c)
<1>1. ASSUME NEW p \in Procs, Writes(p, c) PROVE Standing(c) = old[p]
  <2>1. PICK q : q = CHOOSE w \in Procs : Writing(w) /\ req[w].id = c
    OBVIOUS
  <2>2. q \in Procs /\ Writing(q)
    BY <1>1, <2>1, Zenon DEF Writes
  <2>3. q = p
    BY <1>1, <2>2 DEF IInv, Exclusion, Holders, Critical, Writing, Writes
  <2>4. QED
    BY <1>1, <2>1, <2>3 DEF Standing, Writes
<1>2. QED
  BY <1>1 DEF Standing, Settled, Writes

\* The same of the next state.
LEMMA StandingIsNext ==
  ASSUME IInv', NEW c
  PROVE  /\ \A p \in Procs : Writes(p, c)' => Standing(c)' = old'[p]
         /\ (\A p \in Procs : ~Writes(p, c)') => Standing(c)' = Settled(c)'
<1>1. ASSUME NEW p \in Procs, Writes(p, c)' PROVE Standing(c)' = old'[p]
  <2>1. PICK q : q = CHOOSE w \in Procs : Writing(w)' /\ req'[w].id = c
    OBVIOUS
  <2>2. q \in Procs /\ Writing(q)'
    BY <1>1, <2>1, Zenon DEF Writes
  <2>3. q = p
    BY <1>1, <2>2 DEF IInv, Exclusion, Holders, Critical, Writing, Writes
  <2>4. QED
    BY <1>1, <2>1, <2>3 DEF Standing, Writes
<1>2. QED
  BY <1>1 DEF Standing, Settled, Writes

\* A step that is nobody's write leaves the ledger as it is.
LEMMA LedgerStands ==
  ASSUME IInv, IInv', UNCHANGED <<claims, sidecars>>,
         \A p \in Procs : Writing(p)' <=> Writing(p),
         \A p \in Procs : Writing(p) => req'[p] = req[p] /\ old'[p] = old[p],
         NEW c \in Ids
  PROVE  Standing(c)' = Standing(c)
<1>1. CASE \E p \in Procs : Writes(p, c)
  <2>1. PICK p \in Procs : Writes(p, c)
    BY <1>1
  <2>2. Writes(p, c)' /\ old'[p] = old[p]
    BY <2>1 DEF Writes
  <2>3. QED
    BY <2>1, <2>2, StandingIs, StandingIsNext
<1>2. CASE \A p \in Procs : ~Writes(p, c)
  <2>1. \A p \in Procs : ~Writes(p, c)'
    BY <1>2 DEF Writes
  <2>2. QED
    BY <1>2, <2>1, StandingIs, StandingIsNext DEF Settled
<1>3. QED
  BY <1>1, <1>2

\* The end of a write: the record counts as what is left of it, and the
\* others as before.
LEMMA WriteEnds ==
  ASSUME IInv, IInv', NEW p \in Procs, NEW c, Writes(p, c),
         NEW record, Show(p, record), \A q \in Procs : ~Writing(q)',
         sidecars' \in {sidecars, sidecars \union {c}}
  PROVE  /\ c \in Ids /\ Standing(c) = old[p]
         /\ Standing(c)' =
              IF record = Absent /\ c \in sidecars' THEN Torn ELSE record
         /\ \A d \in Ids \ {c} : Standing(d)' = Standing(d)
<1>1. TypeOK /\ c \in Ids /\ req[p].id = c
  BY RequestsAssumption DEF IInv, Asked, Writing, Writes
<1>2. \A d : Standing(d)' = Settled(d)'
  BY StandingIsNext DEF Writes
<1>3. claims'[c] = record /\ \A d \in Ids \ {c} : claims'[d] = claims[d]
  BY <1>1 DEF Show, TypeOK
<1>4. Standing(c) = old[p]
  BY StandingIs DEF Writes
<1>5. ASSUME NEW d \in Ids \ {c} PROVE Standing(d) = Settled(d)
  <2>1. \A q \in Procs : ~Writes(q, d)
    BY <1>5 DEF IInv, Exclusion, Holders, Critical, Writing, Writes
  <2>2. QED
    BY <2>1, StandingIs
<1>6. \A d \in Ids \ {c} : Settled(d)' = Settled(d)
  BY <1>3 DEF Settled
<1>7. QED
  BY <1>1, <1>2, <1>3, <1>4, <1>5, <1>6 DEF Settled

\* A write that is done grants, extends or releases what the ledger says.
LEMMA WriteTakes ==
  ASSUME IInv, NEW p \in Procs, NEW c, Writes(p, c),
         Standing(c) = old[p], Standing(c)' = next[p]
  PROVE  Ledger!Takes(c)
<1>1. /\ c \in Ids /\ req[p].action \in {"create", "extend", "release"}
      /\ TypeOK /\ Prepared /\ pc[p] = "write" /\ req[p].id = c
  BY RequestsAssumption DEF IInv, Asked, Writing, Writes
<1>2. next[p] \in Records /\ Fits(c, next[p])
  BY <1>1 DEF Prepared
<1>3. CASE req[p].action = "create"
  <2>1. old[p] = Absent /\ next[p].status = "active"
    BY <1>1, <1>3 DEF Prepared
  <2>2. ASSUME NEW d \in Ids \ {c}, Standing(d) \notin {Absent, Torn}
        PROVE  ~Conflict(next[p], Standing(d))
    <3>1. \A q \in Procs : ~Writes(q, d)
      BY <2>2 DEF IInv, Exclusion, Holders, Critical, Writing, Writes
    <3>2. Standing(d) = claims[d]
      BY <2>2, <3>1, StandingIs DEF Settled
    <3>3. Exclusive(claims[d]) => Blocks(d)
      BY <2>2, <3>2 DEF Exclusive, Blocks, Readable
    <3>4. Exclusive(next[p]) /\ Blocks(d) =>
            ~Overlap(claims[d].scope, next[p].scope)
      BY <1>2, <2>2 DEF Fits, Exclusive
    <3>5. QED
      BY <3>2, <3>3, <3>4, OverlapIsSymmetric DEF Conflict
  <2>3. Ledger!Grant(c)
    BY <1>1, <1>2, <2>1, <2>2 DEF Ledger!Grant, Ledger!Recorded
  <2>4. QED
    BY <2>3 DEF Ledger!Takes
<1>4. CASE req[p].action = "extend"
  <2>1. /\ old[p] \in Records /\ old[p].status = "active"
        /\ next[p].status = "active"
        /\ old[p].kind = next[p].kind /\ old[p].scope = next[p].scope
    BY <1>1, <1>4 DEF Prepared
  <2>2. next[p] = [old[p] EXCEPT !.lease = next[p].lease]
    BY <1>2, <2>1 DEF Records
  <2>3. Ledger!Extend(c)
    BY <1>1, <1>2, <2>1, <2>2, RequestsAssumption
    DEF Ledger!Extend, Ledger!Recorded
  <2>4. QED
    BY <2>3 DEF Ledger!Takes
<1>5. CASE req[p].action = "release"
  <2>1. /\ old[p] \in Records /\ next[p].status = "released"
        /\ old[p].kind = next[p].kind /\ old[p].scope = next[p].scope
        /\ old[p].lease = next[p].lease
    BY <1>1, <1>5 DEF Prepared
  <2>2. next[p] = [old[p] EXCEPT !.status = "released"]
    BY <1>2, <2>1 DEF Records
  <2>3. Ledger!Release(c)
    BY <1>1, <2>1, <2>2, RequestsAssumption
    DEF Ledger!Release, Ledger!Recorded
  <2>4. QED
    BY <2>3 DEF Ledger!Takes
<1>6. QED
  BY <1>1, <1>3, <1>4, <1>5

\* A step of the ledger is one of one record.
LEMMA OneEntry ==
  ASSUME NEW c \in Ids, \A d \in Ids \ {c} : Standing(d)' = Standing(d),
         (Ledger!Takes(c) /\ UNCHANGED troubled) \/ Ledger!CutOff(c)
  PROVE  Ledger!LedgerNext
<1>1. [d \in Ids |-> Standing(d)]' =
        [[d \in Ids |-> Standing(d)] EXCEPT
           ![c] = [d \in Ids |-> Standing(d)]'[c]]
  OBVIOUS
<1>2. QED
  BY <1>1 DEF Ledger!LedgerNext

LEMMA CommitTakes ==
  ASSUME IInv, IInv', NEW p \in Procs, Commit(p)
  PROVE  Ledger!LedgerNext
<1>c. PICK c : c = req[p].id
  OBVIOUS
<1>1. /\ Writing(p) /\ Writes(p, c) /\ Show(p, next[p])
      /\ EndWrite(p, "updated") /\ Goto(p, "unlock")
  BY <1>c, WriteEndings DEF Commit, Writes
<1>2. UNCHANGED <<req, troubled>>
  BY DEF Commit, locals
<1>3. sidecars' \in {sidecars, sidecars \union {c}}
  BY <1>c, <1>1, WriteEndings
<1>4. \A q \in Procs : ~Writing(q)'
  BY <1>1 DEF IInv, TypeOK, Exclusion, Holders, Critical, Writing, Goto
<1>5. next[p] \in Records
  BY <1>1 DEF IInv, Prepared, Writing
<1>6. /\ c \in Ids /\ Standing(c) = old[p]
      /\ Standing(c)' = next[p]
      /\ \A d \in Ids \ {c} : Standing(d)' = Standing(d)
  BY <1>1, <1>3, <1>4, <1>5, WriteEnds, RequestsAssumption
<1>7. Ledger!Takes(c)
  BY <1>1, <1>6, WriteTakes
<1>8. QED
  BY <1>2, <1>6, <1>7, OneEntry

LEMMA RollBackTakes ==
  ASSUME IInv, IInv', NEW p \in Procs, RollBack(p)
  PROVE  [Ledger!LedgerNext]_(Ledger!ledgerVars)
<1>c. PICK c : c = req[p].id
  OBVIOUS
<1>1. /\ Writing(p) /\ Writes(p, c) /\ Show(p, old[p])
      /\ EndWrite(p, "unchanged") /\ Goto(p, "unlock")
  BY <1>c, WriteEndings DEF RollBack, Writes
<1>2. UNCHANGED <<req, troubled>>
  BY DEF RollBack, locals, history
<1>3. sidecars' \in {sidecars, sidecars \union {c}}
  BY <1>c, <1>1, WriteEndings
<1>4. \A q \in Procs : ~Writing(q)'
  BY <1>1 DEF IInv, TypeOK, Exclusion, Holders, Critical, Writing, Goto
<1>5. /\ c \in Ids /\ Standing(c) = old[p]
      /\ Standing(c)' =
           IF old[p] = Absent /\ c \in sidecars' THEN Torn ELSE old[p]
      /\ \A d \in Ids \ {c} : Standing(d)' = Standing(d)
  BY <1>1, <1>3, <1>4, WriteEnds
<1>6. CASE old[p] = Absent /\ c \in sidecars'
  <2>1. Ledger!UseUp(c)
    BY <1>5, <1>6 DEF Ledger!UseUp
  <2>2. QED
    BY <1>2, <1>5, <2>1, OneEntry DEF Ledger!Takes
<1>7. CASE ~(old[p] = Absent /\ c \in sidecars')
  <2>1. \A d \in Ids : Standing(d)' = Standing(d)
    BY <1>5, <1>7
  <2>2. QED
    BY <1>2, <2>1 DEF Ledger!ledgerVars
<1>8. QED
  BY <1>6, <1>7

LEMMA CutShortCutsOff ==
  ASSUME IInv, IInv', NEW p \in Procs, Writing(p), CutShort(p),
         \A q \in Procs : ~Writing(q)'
  PROVE  Ledger!LedgerNext
<1>c. PICK c : c = req[p].id /\ Writes(p, c)
  BY DEF Writes
<1>1. PICK record \in {Absent, Torn, old[p], next[p]} :
        /\ Show(p, record)
        /\ record \notin {old[p], next[p]} /\ old[p] # Absent =>
             sidecars' = sidecars \union {c}
  BY <1>c, WriteEndings DEF CutShort
<1>2. troubled' = troubled \union {c}
  BY <1>c DEF CutShort
<1>3. sidecars' \in {sidecars, sidecars \union {c}}
  BY <1>c, WriteEndings DEF CutShort
<1>4. /\ c \in Ids /\ Standing(c) = old[p]
      /\ Standing(c)' =
           IF record = Absent /\ c \in sidecars' THEN Torn ELSE record
      /\ \A d \in Ids \ {c} : Standing(d)' = Standing(d)
  BY <1>c, <1>1, <1>3, WriteEnds
<1>5. next[p] \in Records /\ next[p] # Absent
  BY RequestsAssumption DEF IInv, Prepared, Writing
<1>6. Ledger!Takes(c) \/ Standing(c)' \in {Standing(c), Torn}
  <2>1. CASE record = next[p]
    <3>1. Standing(c)' = next[p]
      BY <1>4, <1>5, <2>1
    <3>2. QED
      BY <1>c, <1>4, <3>1, WriteTakes
  <2>2. CASE record = Absent /\ c \notin sidecars'
    <3>1. old[p] = Absent
      BY <1>c, <1>1, <1>5, <2>2
    <3>2. QED
      BY <1>4, <2>2, <3>1
  <2>3. CASE record = Absent /\ c \in sidecars'
    BY <1>4, <2>3
  <2>4. CASE record = Torn \/ record = old[p]
    BY <1>4, <2>4
  <2>5. QED
    BY <1>1, <2>1, <2>2, <2>3, <2>4
<1>7. Ledger!CutOff(c)
  BY <1>2, <1>4, <1>6 DEF Ledger!CutOff
<1>8. QED
  BY <1>4, <1>7, OneEntry

\* Every step of the processes is a step of the ledger, or none of it.
LEMMA LedgerSteps ==
  ASSUME IInv, IInv', [Next]_vars
  PROVE  [Ledger!LedgerNext]_(Ledger!ledgerVars)
<1> USE DEF TypeOK, Goto, locals, disk, history
<1>0. TypeOK
  BY DEF IInv
\* A step that is nobody's write.
<1>a. ASSUME UNCHANGED <<claims, sidecars, troubled>>,
             \A p \in Procs : Writing(p)' <=> Writing(p),
             \A p \in Procs :
               Writing(p) => req'[p] = req[p] /\ old'[p] = old[p]
      PROVE  UNCHANGED (Ledger!ledgerVars)
  BY <1>a, LedgerStands DEF Ledger!ledgerVars
<1>1. CASE UNCHANGED vars
  BY <1>1, <1>a DEF vars, Writing
<1>2. ASSUME NEW p \in Procs, Check(p) PROVE UNCHANGED (Ledger!ledgerVars)
  BY <1>0, <1>2, <1>a DEF Check, Writing
<1>3. ASSUME NEW p \in Procs, AcquireLock(p)
      PROVE  UNCHANGED (Ledger!ledgerVars)
  BY <1>0, <1>3, <1>a DEF AcquireLock, Finish, Writing
<1>4. ASSUME NEW p \in Procs, Recheck(p) PROVE UNCHANGED (Ledger!ledgerVars)
  BY <1>0, <1>4, <1>a DEF Recheck, Writing
<1>5. ASSUME NEW p \in Procs, Prepare(p) PROVE UNCHANGED (Ledger!ledgerVars)
  <2>1. /\ pc[p] = "rechecked"
        /\ UNCHANGED <<claims, sidecars, req, troubled>>
    BY <1>5 DEF Prepare
  <2>2. \A q \in Procs : ~Writing(q)
    BY <2>1 DEF IInv, Exclusion, Holders, Critical, Writing
  <2>3. \A q \in Procs : Writing(q)' => q = p /\ old'[p] = claims[req[p].id]
    BY <1>0, <1>5, <2>1, <2>2 DEF Prepare, Writing
  <2>4. ASSUME NEW c \in Ids PROVE Standing(c)' = Standing(c)
    <3>1. Standing(c) = Settled(c) /\ Settled(c)' = Settled(c)
      BY <2>1, <2>2, StandingIs DEF Writes, Settled
    <3>2. CASE Writes(p, c)'
      <4>1. Standing(c)' = claims[c]
        BY <2>1, <2>3, <3>2, StandingIsNext DEF Writes
      <4>2. c \notin sidecars
        BY <2>1, <3>2 DEF Writes, Writing
      <4>3. QED
        BY <3>1, <4>1, <4>2 DEF Settled
    <3>3. CASE ~Writes(p, c)'
      <4>1. \A q \in Procs : ~Writes(q, c)'
        BY <2>3, <3>3 DEF Writes
      <4>2. QED
        BY <3>1, <4>1, StandingIsNext
    <3>4. QED
      BY <3>2, <3>3
  <2>5. QED
    BY <2>1, <2>4 DEF Ledger!ledgerVars
<1>6. ASSUME NEW p \in Procs, RefuseWrite(p)
      PROVE  UNCHANGED (Ledger!ledgerVars)
  BY <1>0, <1>6, <1>a DEF RefuseWrite, Writing
<1>7. ASSUME NEW p \in Procs, Expose(p) PROVE UNCHANGED (Ledger!ledgerVars)
  <2>1. /\ Writing(p) /\ Writing(p)'
        /\ UNCHANGED <<sidecars, pc, req, old, troubled>>
    BY <1>7 DEF Expose, Writing
  <2>2. \A d \in Ids \ {req[p].id} : claims'[d] = claims[d]
    BY <1>0, <1>7 DEF Expose, Show
  <2>3. ASSUME NEW c \in Ids PROVE Standing(c)' = Standing(c)
    <3>1. CASE c = req[p].id
      BY <2>1, <3>1, StandingIs, StandingIsNext DEF Writes
    <3>2. CASE c # req[p].id
      <4>1. \A q \in Procs : ~Writes(q, c) /\ ~Writes(q, c)'
        BY <2>1, <3>2
        DEF IInv, Exclusion, Holders, Critical, Writing, Writes
      <4>2. Settled(c)' = Settled(c)
        BY <2>1, <2>2, <3>2 DEF Settled
      <4>3. QED
        BY <4>1, <4>2, StandingIs, StandingIsNext
    <3>3. QED
      BY <3>1, <3>2
  <2>4. QED
    BY <2>1, <2>3 DEF Ledger!ledgerVars
<1>8. ASSUME NEW p \in Procs, FailToRollBack(p) PROVE Ledger!LedgerNext
  <2>1. Writing(p) /\ CutShort(p) /\ Goto(p, "unlock")
    BY <1>8 DEF FailToRollBack
  <2>2. \A q \in Procs : ~Writing(q)'
    BY <1>0, <2>1 DEF IInv, Exclusion, Holders, Critical, Writing
  <2>3. QED
    BY <2>1, <2>2, CutShortCutsOff
<1>9. ASSUME NEW p \in Procs, ReleaseLock(p)
      PROVE  UNCHANGED (Ledger!ledgerVars)
  BY <1>0, <1>9, <1>a DEF ReleaseLock, Finish, Writing
<1>10. ASSUME NEW p \in Procs, Crash(p)
       PROVE  [Ledger!LedgerNext]_(Ledger!ledgerVars)
  <2>1. CASE Writing(p)
    <3>1. CutShort(p) /\ Finish(p)
      BY <1>10, <2>1 DEF Crash
    <3>2. \A q \in Procs : ~Writing(q)'
      BY <1>0, <2>1, <3>1
      DEF IInv, Exclusion, Holders, Critical, Writing, Finish
    <3>3. QED
      BY <2>1, <3>1, <3>2, CutShortCutsOff
  <2>2. CASE ~Writing(p)
    BY <1>0, <1>10, <1>a, <2>2 DEF Crash, Finish, Writing
  <2>3. QED
    BY <2>1, <2>2
<1>11. CASE DeleteStaleLock \/ Tick
  BY <1>11, <1>a DEF DeleteStaleLock, Tick, Writing
<1>12. QED
  BY <1>1, <1>2, <1>3, <1>4, <1>5, <1>6, <1>7, <1>8, <1>9, <1>10, <1>11,
     CommitTakes, RollBackTakes DEF Next, Run

\* The processes, with their two checks, their lock, their file transactions
\* and their crashes, are one ledger on which every request takes effect at
\* once, or loses its record.
THEOREM OneLedger == Spec => IsClaimLedger
<1>1. Init => Ledger!LedgerInit
  <2> SUFFICES ASSUME Init PROVE Ledger!LedgerInit
    OBVIOUS
  <2>1. ASSUME NEW c \in Ids PROVE Standing(c) = Absent
    <3>1. \A p \in Procs : ~Writes(p, c)
      BY DEF Init, Writes, Writing
    <3>2. Settled(c) = Absent
      BY <2>1 DEF Init, Settled
    <3>3. QED
      BY <3>1, <3>2, InitHolds, StandingIs
  <2>2. QED
    BY <2>1 DEF Init, Ledger!LedgerInit
<1>2. IInv /\ IInv' /\ [Next]_vars =>
        [Ledger!LedgerNext]_(Ledger!ledgerVars)
  BY LedgerSteps
<1>3. QED
  BY <1>1, <1>2, Invariance, PTL DEF Spec, IsClaimLedger, Ledger!LedgerSpec
=============================================================================
