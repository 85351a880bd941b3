-------------------------- MODULE Closeout_proofs --------------------------
(***************************************************************************)
(* Closeout facts stay under the id of the plan they are about, for any    *)
(* titles, plans and requests, in every step but the refresh of an archive *)
(* while the plan file is one of another title.  The inductive invariant   *)
(* says that the plan file is there while a plan is active, that a plan    *)
(* file and an archive have the title their serial number was opened with, *)
(* and that last_archived_plan names an archive.  Every step is looked at  *)
(* once, with ok for what is wanted of it: the types only (FALSE), or that *)
(* facts that were right stay right (TRUE).                                *)
(***************************************************************************)
EXTENDS Closeout, TLAPS

\* The plan with this serial number was opened with this title.
Opened(serial, title) ==
  serial \in DOMAIN opened /\ opened[serial] = title

IInv ==
  /\ TypeOK
  /\ active => plan # Absent
  /\ plan # Absent => Opened(plan.serial, plan.title) /\ plan.block = NoBlock
  /\ \A a \in Archives : archives[a] # Absent =>
       Opened(archives[a].serial, a[1])
  /\ last # NoPath => archives[last] # Absent

\* The invariant, and the facts under the right id if ok.
Sound(ok) == IInv /\ (ok => FactsFitTheirId /\ StateFactsFitTheirId)

\* Facts that may be written under this id.
Right(ok, facts, id) ==
  facts \in Facts /\ (ok /\ id # NoTitle => About(facts, id))

LEMMA PathIsNotNone == \A a \in Archives : a # NoPath
<1> TAKE a \in Archives
<1>1. PICK t \in Titles, n \in 1 .. MaxCopy : a = <<t, n>> BY DEF Archives
<1>2. Len(a) = 2 BY <1>1
<1>3. Len(NoPath) = 0 BY DEF NoPath
<1>4. Len(a) # Len(NoPath) BY <1>2, <1>3
<1> QED BY <1>4, Zenon

LEMMA NoFactsRight == NoFacts \in Facts /\ \A id : About(NoFacts, id)
<1>1. NoFacts \in Facts
  BY CloseoutAssumption DEF NoFacts, NoFact, Facts
<1>2. \A id : About(NoFacts, id) BY DEF NoFacts, About, NoFact
<1> QED BY <1>1, <1>2

LEMMA MergedRight ==
  ASSUME NEW ok \in BOOLEAN, NEW id, NEW old, NEW new,
         Right(ok, old, id), Right(ok, new, id)
  PROVE  Right(ok, Merged(old, new), id)
<1>1. Merged(old, new) \in Facts BY DEF Right, Merged, Facts
<1>2. ASSUME ok, id # NoTitle PROVE About(Merged(old, new), id)
  BY <1>2 DEF Right, About, Merged
<1> QED BY <1>1, <1>2 DEF Right

LEMMA SyncedRight ==
  ASSUME NEW ok \in BOOLEAN, NEW id, NEW body, NEW values,
         Right(ok, body, id), Right(ok, values, id)
  PROVE  Right(ok, Synced(body, values), id)
<1>1. Synced(body, values) \in Facts BY DEF Right, Synced, Facts
<1>2. ASSUME ok, id # NoTitle PROVE About(Synced(body, values), id)
  BY <1>2 DEF Right, About, Synced
<1> QED BY <1>1, <1>2 DEF Right

LEMMA GivenRight ==
  ASSUME NEW ok \in BOOLEAN, NEW r \in Requests, NEW id,
         NEW serial \in 0 .. MaxPlans,
         ok /\ id # NoTitle => Opened(serial, id)
  PROVE  Right(ok, GivenFacts(r, serial), id)
<1>1. GivenFacts(r, serial) \in Facts
  <2>1. NoFact \in [of : 0 .. MaxPlans, final : BOOLEAN, there : BOOLEAN]
    BY CloseoutAssumption DEF NoFact
  <2>2. \A b \in BOOLEAN :
          Fact(serial, b) \in
            [of : 0 .. MaxPlans, final : BOOLEAN, there : BOOLEAN]
    BY DEF Fact
  <2> QED BY <2>1, <2>2 DEF GivenFacts, Facts
<1>2. ASSUME ok, id # NoTitle PROVE About(GivenFacts(r, serial), id)
  BY <1>2 DEF GivenFacts, About, Fact, NoFact, Opened
<1> QED BY <1>1, <1>2 DEF Right

LEMMA PlanRight ==
  ASSUME NEW ok \in BOOLEAN, Sound(ok), plan # Absent
  PROVE  /\ plan \in PlanTexts /\ plan.title \in Titles
         /\ plan.title # NoTitle /\ plan.serial \in 0 .. MaxPlans
         /\ Opened(plan.serial, plan.title) /\ Right(ok, plan.body, plan.title)
<1>1. plan \in PlanTexts BY DEF Sound, IInv, TypeOK
<1>2. /\ plan.title \in Titles /\ plan.serial \in 0 .. MaxPlans
      /\ plan.body \in Facts
  BY <1>1 DEF PlanTexts, Serials
<1>3. ok => About(plan.body, plan.title) BY DEF Sound, FactsFitTheirId
<1> QED BY <1>1, <1>2, <1>3, CloseoutAssumption DEF Sound, IInv, Right

LEMMA ArchiveRight ==
  ASSUME NEW ok \in BOOLEAN, Sound(ok), NEW a \in Archives,
         archives[a] # Absent
  PROVE  /\ archives[a] \in PlanTexts /\ archives[a].title = a[1]
         /\ a[1] \in Titles /\ a[1] # NoTitle
         /\ archives[a].serial \in 0 .. MaxPlans
         /\ Opened(archives[a].serial, a[1])
         /\ Right(ok, archives[a].body, a[1])
         /\ Right(ok, archives[a].block.facts, a[1])
<1>1. archives[a] \in PlanTexts /\ archives[a].title = a[1]
  BY DEF Sound, IInv, TypeOK
<1>2. /\ archives[a].title \in Titles /\ archives[a].serial \in 0 .. MaxPlans
      /\ archives[a].body \in Facts /\ archives[a].block.facts \in Facts
  BY <1>1 DEF PlanTexts, Serials, Blocks
<1>3. ok => /\ About(archives[a].body, a[1])
            /\ About(archives[a].block.facts, a[1])
  BY DEF Sound, FactsFitTheirId
<1> QED BY <1>1, <1>2, <1>3, CloseoutAssumption DEF Sound, IInv, Right

LEMMA BlockRight ==
  ASSUME NEW ok \in BOOLEAN, Sound(ok)
  PROVE  Right(ok, block.facts, block.identity.id)
<1>1. block.facts \in Facts BY DEF Sound, IInv, TypeOK, Blocks
<1> QED BY <1>1 DEF Sound, StateFactsFitTheirId, Right

\* Whatever archive is named, the identity is one, and it has the id of the
\* plan file if there is one.
LEMMA IdentityRight ==
  ASSUME NEW ok \in BOOLEAN, Sound(ok), NEW a \in Archives \cup {NoPath},
         a # NoPath => archives[a] # Absent \/ plan # Absent
  PROVE  /\ Identity(a) \in Identities
         /\ plan # Absent => Identity(a).id = plan.title
         /\ plan = Absent /\ a # NoPath => Identity(a).id = a[1]
         /\ plan = Absent /\ a = NoPath /\ Identity(a).id # NoTitle =>
              last # NoPath /\ Identity(a).id = last[1]
<1> DEFINE path == IF a = NoPath /\ ~active THEN last ELSE a
<1>1. last \in Archives \cup {NoPath} /\ active \in BOOLEAN
  BY DEF Sound, IInv, TypeOK
<1>2. path \in Archives \cup {NoPath} BY <1>1
<1>3. CASE plan # Absent
  <2>1. Identity(a) = [id |-> plan.title, active |-> active, archived |-> path]
    BY <1>3 DEF Identity
  <2> HIDE DEF path
  <2> QED BY <1>1, <1>2, <1>3, <2>1, PlanRight DEF Identities
<1>4. CASE plan = Absent /\ path = NoPath
  <2>1. Identity(a) = [id |-> NoTitle, active |-> active, archived |-> path]
    BY <1>4 DEF Identity
  <2>2. a = NoPath BY <1>4, PathIsNotNone
  <2> HIDE DEF path
  <2> QED BY <1>1, <1>2, <1>4, <2>1, <2>2 DEF Identities
<1>5. CASE plan = Absent /\ path # NoPath
  <2>1. archives[path] # Absent BY <1>5 DEF Sound, IInv
  <2>2. path \in Archives BY <1>2, <1>5
  <2>3. archives[path].title = path[1] /\ path[1] \in Titles
    BY <2>1, <2>2, ArchiveRight
  <2>4. Identity(a) = [id |-> path[1], active |-> active, archived |-> path]
    BY <1>5, <2>3 DEF Identity
  <2>5. a # NoPath => path = a OBVIOUS
  <2>6. a = NoPath => path = last BY <1>5
  <2> HIDE DEF path
  <2> QED BY <1>1, <1>2, <1>5, <2>3, <2>4, <2>5, <2>6 DEF Identities
<1> QED BY <1>3, <1>4, <1>5

\* The plan meant is the one the identity is of.
LEMMA MeantRight ==
  ASSUME NEW ok \in BOOLEAN, Sound(ok), NEW a \in Archives \cup {NoPath},
         a # NoPath => /\ archives[a] # Absent
                       /\ ok => plan = Absent \/ plan.title = a[1]
  PROVE  /\ Meant(a) \in 0 .. MaxPlans
         /\ ok /\ Identity(a).id # NoTitle =>
              Opened(Meant(a), Identity(a).id)
<1>1. last \in Archives \cup {NoPath} /\ MaxPlans \in Nat
  BY CloseoutAssumption DEF Sound, IInv, TypeOK
<1>2. CASE a # NoPath
  BY <1>2, IdentityRight, ArchiveRight DEF Meant
<1>3. CASE a = NoPath /\ plan # Absent
  BY <1>3, IdentityRight, PlanRight DEF Meant
<1>4. CASE a = NoPath /\ plan = Absent /\ last # NoPath
  <2>1. archives[last] # Absent BY <1>4 DEF Sound, IInv
  <2> QED BY <1>1, <1>4, <2>1, IdentityRight, ArchiveRight DEF Meant
<1>5. CASE a = NoPath /\ plan = Absent /\ last = NoPath
  <2>1. Identity(a).id = NoTitle BY <1>5, IdentityRight
  <2>2. Meant(a) = 0 BY <1>5 DEF Meant
  <2> QED BY <1>1, <2>1, <2>2
<1> QED BY <1>2, <1>3, <1>4, <1>5

\* A block of a matching identity has facts of the same id.
LEMMA MatchingRight ==
  ASSUME NEW ok \in BOOLEAN, NEW existing, NEW current, NEW facts,
         Right(ok, facts, existing.id), Matches(existing, current),
         current.id # NoTitle
  PROVE  Right(ok, facts, current.id)
<1>1. Anchored(current)
  <2>1. NoIdentity.id = NoTitle BY DEF NoIdentity
  <2> QED BY <2>1 DEF Anchored
<1>2. existing.id = current.id BY <1>1 DEF Matches
<1> QED BY <1>2

LEMMA CarriedBlockRight ==
  ASSUME NEW ok \in BOOLEAN, Sound(ok), NEW identity,
         Matches(block.identity, identity)
  PROVE  Right(ok, block.facts, identity.id)
<1>1. CASE identity.id # NoTitle BY <1>1, BlockRight, MatchingRight
<1>2. CASE identity.id = NoTitle BY <1>2, BlockRight DEF Right
<1> QED BY <1>1, <1>2

LEMMA HarvestedRight ==
  ASSUME NEW ok \in BOOLEAN, Sound(ok), plan # Absent, NEW given,
         Right(ok, given, plan.title),
         NEW facts \in Harvested(given)
  PROVE  Right(ok, facts, plan.title)
<1> DEFINE own == Merged(plan.body, given)
<1>1. Right(ok, own, plan.title) BY PlanRight, MergedRight
<1>2. CASE facts = own BY <1>1, <1>2
<1>3. CASE facts # own
  <2>1. Identity(NoPath).id = plan.title BY IdentityRight
  <2>2. /\ facts = Merged(block.facts, own)
        /\ Matches(block.identity, Identity(NoPath))
    BY <1>3 DEF Harvested
  <2>3. Right(ok, block.facts, plan.title) BY <2>1, <2>2, CarriedBlockRight
  <2> HIDE DEF own
  <2> QED BY <1>1, <2>2, <2>3, MergedRight
<1> QED BY <1>2, <1>3

\* The facts of a request are of the plan of the identity.
LEMMA SuppliedRight ==
  ASSUME NEW ok \in BOOLEAN, Sound(ok), NEW a \in Archives \cup {NoPath},
         a # NoPath => /\ archives[a] # Absent
                       /\ ok => plan = Absent \/ plan.title = a[1],
         NEW r \in Requests, NEW facts \in Supplied(r, a)
  PROVE  Right(ok, facts, Identity(a).id)
<1> DEFINE given == GivenFacts(r, Meant(a))
<1>1. Right(ok, given, Identity(a).id) BY MeantRight, GivenRight
<1>2. CASE ~r.harvest BY <1>1, <1>2 DEF Supplied
<1>3. CASE r.harvest
  <2>1. facts \in Harvested(given) BY <1>3 DEF Supplied
  <2>2. plan # Absent BY <2>1 DEF Harvested
  <2>3. Identity(a).id = plan.title BY <2>2, IdentityRight
  <2> HIDE DEF given
  <2> QED BY <1>1, <2>1, <2>2, <2>3, HarvestedRight
<1> QED BY <1>2, <1>3

LEMMA PlannedRight ==
  ASSUME NEW ok \in BOOLEAN, Sound(ok), NEW identity, NEW r,
         NEW facts, NEW archiving, Right(ok, facts, identity.id),
         NEW values \in Planned(r, facts, identity, archiving)
  PROVE  Right(ok, values, identity.id)
<1>1. CASE values = facts BY <1>1
<1>2. CASE values # facts
  <2>1. /\ values = Merged(block.facts, facts)
        /\ Matches(block.identity, identity)
    BY <1>2 DEF Planned
  <2> QED BY <2>1, CarriedBlockRight, MergedRight
<1> QED BY <1>1, <1>2

LEMMA CarriedRight ==
  ASSUME NEW ok \in BOOLEAN, Sound(ok), NEW identity
  PROVE  Right(ok, Carried(identity), identity.id)
<1>1. Right(ok, NoFacts, identity.id) BY NoFactsRight DEF Right
<1> QED BY <1>1, CarriedBlockRight DEF Carried

LEMMA RefreshableRight ==
  ASSUME NEW ok \in BOOLEAN, Sound(ok), NEW a \in Archives,
         archives[a] # Absent, NEW identity, ok => identity.id = a[1],
         NEW values \in Refreshable(a, identity)
  PROVE  Right(ok, values, a[1])
<1>1. CASE Carried(identity) # NoFacts
  <2>1. Carried(identity) = block.facts BY <1>1 DEF Carried
  <2>2. values = Carried(identity) BY <1>1, <2>1 DEF Refreshable
  <2> QED BY <2>2, CarriedRight DEF Right
<1>2. CASE Carried(identity) = NoFacts
  <2>1. values = archives[a].block.facts BY <1>2 DEF Refreshable
  <2> QED BY <2>1, ArchiveRight
<1> QED BY <1>1, <1>2

LEMMA RewrittenRight ==
  ASSUME NEW ok \in BOOLEAN, NEW old \in Blocks, NEW values,
         NEW identity \in Identities, NEW id, Right(ok, values, id)
  PROVE  /\ Rewritten(old, values, identity) \in Blocks
         /\ \/ Rewritten(old, values, identity) = old
            \/ /\ Rewritten(old, values, identity).identity = identity
               /\ Rewritten(old, values, identity).facts = values
BY DEF Rewritten, Blocks, Right

-----------------------------------------------------------------------------
(* What the commands write, file by file.                                  *)

LEMMA BlockStep ==
  ASSUME NEW ok \in BOOLEAN, Sound(ok), NEW values,
         NEW identity \in Identities, Right(ok, values, identity.id),
         opened' = opened, block' = Rewritten(block, values, identity)
  PROVE  block' \in Blocks /\ (ok => StateFactsFitTheirId')
<1>1. block \in Blocks BY DEF Sound, IInv, TypeOK
<1>2. block' \in Blocks BY <1>1, RewrittenRight
<1>3. CASE block' = block
  <2>1. ok => StateFactsFitTheirId BY DEF Sound
  <2> QED BY <1>2, <1>3, <2>1 DEF StateFactsFitTheirId, About
<1>4. CASE block'.identity = identity /\ block'.facts = values
  <2>1. ok /\ identity.id # NoTitle => About(values, identity.id) BY DEF Right
  <2> QED BY <1>2, <1>4, <2>1 DEF StateFactsFitTheirId, About
<1> QED BY <1>1, <1>2, <1>3, <1>4, RewrittenRight

\* The plan file as it has to be.
PlanFits(ok) ==
  /\ plan \in PlanTexts \cup {Absent}
  /\ plan # Absent => /\ Opened(plan.serial, plan.title)
                      /\ plan.block = NoBlock
                      /\ ok => About(plan.body, plan.title)

LEMMA PlanStep ==
  ASSUME NEW ok \in BOOLEAN, Sound(ok), NEW values,
         plan # Absent => Right(ok, values, plan.title),
         opened' = opened,
         plan' = IF plan = Absent THEN Absent
                 ELSE [plan EXCEPT !.body = Synced(@, values)]
  PROVE  PlanFits(ok)' /\ (plan = Absent <=> plan' = Absent)
<1>1. CASE plan = Absent BY <1>1 DEF PlanFits
<1>2. CASE plan # Absent
  <2> DEFINE body == Synced(plan.body, values)
  <2>1. Right(ok, body, plan.title) BY <1>2, PlanRight, SyncedRight
  <2>2. plan \in PlanTexts /\ plan.title # NoTitle BY <1>2, PlanRight
  <2>3. plan' = [plan EXCEPT !.body = body] BY <1>2
  <2> HIDE DEF body
  <2>4. /\ plan' \in PlanTexts /\ plan'.body = body
        /\ plan'.title = plan.title /\ plan'.serial = plan.serial
        /\ plan'.block = plan.block
    BY <2>1, <2>2, <2>3 DEF PlanTexts, Right
  <2>5. plan' # Absent BY <2>4, CloseoutAssumption
  <2>6. Opened(plan.serial, plan.title) /\ plan.block = NoBlock
    BY <1>2 DEF Sound, IInv
  <2> QED BY <1>2, <2>1, <2>2, <2>4, <2>5, <2>6
      DEF PlanFits, Opened, About, Right
<1> QED BY <1>1, <1>2

\* An archive as it has to be, of a title.
Fits(ok, text, title) ==
  /\ text \in PlanTexts /\ text.title = title
  /\ Opened(text.serial, title)
  /\ ok => About(text.body, title) /\ About(text.block.facts, title)

ArchivesFit(ok) ==
  /\ DOMAIN archives = Archives
  /\ \A a \in Archives : archives[a] # Absent => Fits(ok, archives[a], a[1])

LEMMA ArchivesFitNow ==
  ASSUME NEW ok \in BOOLEAN, Sound(ok)
  PROVE  ArchivesFit(ok)
<1>1. DOMAIN archives = Archives BY DEF Sound, IInv, TypeOK
<1> QED BY <1>1, ArchiveRight DEF ArchivesFit, Fits, Right

\* Nothing happens to the archives and the plans opened.
LEMMA ArchivesStay ==
  ASSUME NEW ok \in BOOLEAN, Sound(ok), UNCHANGED <<archives, opened>>
  PROVE  ArchivesFit(ok)'
BY ArchivesFitNow DEF ArchivesFit, Fits, Opened, About

LEMMA ArchiveStep ==
  ASSUME NEW ok \in BOOLEAN, Sound(ok), opened' = opened,
         NEW a \in Archives, NEW text, Fits(ok, text, a[1]),
         archives' = [archives EXCEPT ![a] = text]
  PROVE  ArchivesFit(ok)' /\ \A b \in Archives : archives[b] # Absent =>
                                                   archives'[b] # Absent
<1>1. ArchivesFit(ok) BY ArchivesFitNow
<1>2. /\ DOMAIN archives' = Archives /\ archives'[a] = text
      /\ \A b \in Archives : b # a => archives'[b] = archives[b]
  BY <1>1 DEF ArchivesFit
<1>3. text # Absent BY CloseoutAssumption DEF Fits
<1> QED BY <1>1, <1>2, <1>3 DEF ArchivesFit, Fits, About, Opened

\* The parts together.
LEMMA Together ==
  ASSUME NEW ok \in BOOLEAN, active' \in BOOLEAN,
         last' \in Archives \cup {NoPath}, block' \in Blocks,
         opened' \in Seq(Titles), Len(opened') <= MaxPlans,
         PlanFits(ok)', ArchivesFit(ok)', ok => StateFactsFitTheirId',
         active' => plan' # Absent, last' # NoPath => archives'[last'] # Absent
  PROVE  Sound(ok)'
<1>1. TypeOK' BY DEF TypeOK, PlanFits, ArchivesFit, Fits
<1>2. ok => FactsFitTheirId'
  BY DEF FactsFitTheirId, PlanFits, ArchivesFit, Fits
<1>3. IInv' BY <1>1 DEF IInv, PlanFits, ArchivesFit, Fits
<1> QED BY <1>2, <1>3 DEF Sound

LEMMA PlanFitsNow ==
  ASSUME NEW ok \in BOOLEAN, Sound(ok)
  PROVE  PlanFits(ok)
BY DEF Sound, IInv, TypeOK, PlanFits, FactsFitTheirId

\* Nothing happens to the project state.
LEMMA StateStays ==
  ASSUME NEW ok \in BOOLEAN, Sound(ok), UNCHANGED <<block, opened>>
  PROVE  ok => StateFactsFitTheirId'
BY DEF Sound, StateFactsFitTheirId, About

-----------------------------------------------------------------------------
(* The steps.                                                              *)

LEMMA OpenStep ==
  ASSUME NEW ok \in BOOLEAN, Sound(ok), Open PROVE Sound(ok)'
<1>1. PICK title \in Titles :
        /\ Len(opened) < MaxPlans /\ plan' = NewPlan(title)
        /\ active' = TRUE /\ opened' = Append(opened, title)
        /\ UNCHANGED <<last, block, archives>>
  BY DEF Open
<1>2. opened \in Seq(Titles) /\ MaxPlans \in Nat
  BY CloseoutAssumption DEF Sound, IInv, TypeOK
<1>n. PICK n : n = Len(opened) + 1 OBVIOUS
<1>3. /\ opened' \in Seq(Titles) /\ Len(opened') = n /\ n <= MaxPlans
      /\ n \in Serials /\ n \in DOMAIN opened' /\ opened'[n] = title
      /\ DOMAIN opened \subseteq DOMAIN opened'
      /\ \A j \in DOMAIN opened : opened'[j] = opened[j]
  BY <1>1, <1>2, <1>n DEF Serials
<1>4. \A facts, id : About(facts, id) => About(facts, id)'
  BY <1>3 DEF About
<1>5. \A serial, id : Opened(serial, id) => Opened(serial, id)'
  BY <1>3 DEF Opened
<1>6. PlanFits(ok)' /\ plan' \in PlanTexts
  <2>b. PICK body : body = [NoFacts EXCEPT !["docs"] = Fact(n, FALSE)]
    OBVIOUS
  <2>1. plan' = [serial |-> n, title |-> title, body |-> body,
                 block |-> NoBlock]
    BY <1>1, <1>n, <2>b DEF NewPlan
  <2>2. Fact(n, FALSE) \in
          [of : 0 .. MaxPlans, final : BOOLEAN, there : BOOLEAN]
    BY <1>2, <1>3 DEF Fact, Serials
  <2>3. body \in Facts BY <2>b, <2>2, NoFactsRight DEF Facts
  <2>4. \A f \in Fields : body[f] = Fact(n, FALSE) \/ body[f] = NoFact
    BY <2>b DEF NoFacts, Fields
  <2>5. About(body, title)' BY <2>4, <1>3 DEF About, Fact, NoFact
  <2>6. NoBlock \in Blocks
    BY NoFactsRight DEF NoBlock, Blocks, NoIdentity, Identities
  <2>7. plan' \in PlanTexts BY <2>1, <2>3, <2>6, <1>3 DEF PlanTexts
  <2>8. plan'.serial = n /\ plan'.title = title /\ plan'.body = body
        /\ plan'.block = NoBlock
    BY <2>1
  <2>9. Opened(n, title)' BY <1>3 DEF Opened
  <2> QED BY <2>5, <2>7, <2>8, <2>9 DEF PlanFits
<1>7. ArchivesFit(ok)'
  BY <1>1, <1>4, <1>5, ArchivesFitNow DEF ArchivesFit, Fits
<1>8. ok => StateFactsFitTheirId'
  BY <1>1, <1>4 DEF Sound, IInv, StateFactsFitTheirId
<1>9. plan' # Absent BY <1>6, CloseoutAssumption
<1> QED BY <1>1, <1>3, <1>6, <1>7, <1>8, <1>9, Together DEF Sound, IInv, TypeOK

LEMMA CancelStep ==
  ASSUME NEW ok \in BOOLEAN, Sound(ok), Cancel PROVE Sound(ok)'
<1>1. plan' \in {plan, Absent} /\ active' = FALSE
      /\ UNCHANGED <<last, block, archives, opened>>
  BY DEF Cancel
<1>2. PlanFits(ok)'
  BY <1>1, PlanFitsNow DEF PlanFits, Opened, About
<1>3. ArchivesFit(ok)' BY <1>1, ArchivesStay
<1>4. ok => StateFactsFitTheirId' BY <1>1, StateStays
<1> QED BY <1>1, <1>2, <1>3, <1>4, Together DEF Sound, IInv, TypeOK

LEMMA RemovePlanStep ==
  ASSUME NEW ok \in BOOLEAN, Sound(ok), RemovePlan PROVE Sound(ok)'
<1>1. /\ plan' = Absent /\ ~active
      /\ UNCHANGED <<active, last, block, archives, opened>>
  BY DEF RemovePlan
<1>2. PlanFits(ok)' BY <1>1 DEF PlanFits
<1>3. ArchivesFit(ok)' BY <1>1, ArchivesStay
<1>4. ok => StateFactsFitTheirId' BY <1>1, StateStays
<1> QED BY <1>1, <1>2, <1>3, <1>4, Together DEF Sound, IInv, TypeOK

LEMMA EditPlanStep ==
  ASSUME NEW ok \in BOOLEAN, Sound(ok), EditPlan PROVE Sound(ok)'
<1>1. PICK final \in BOOLEAN :
        plan' = [plan EXCEPT !.body = [f \in Fields |->
                                         Fact(plan.serial, final)]]
  BY DEF EditPlan
<1>2. plan # Absent /\ UNCHANGED <<active, last, block, archives, opened>>
  BY DEF EditPlan
<1>3. PICK body : body = [f \in Fields |-> Fact(plan.serial, final)] OBVIOUS
<1>4. body \in Facts
  <2>1. Fact(plan.serial, final) \in
          [of : 0 .. MaxPlans, final : BOOLEAN, there : BOOLEAN]
    BY <1>2, PlanRight DEF Fact
  <2> QED BY <1>3, <2>1 DEF Facts
<1>5. About(body, plan.title)
  BY <1>2, <1>3, PlanRight DEF About, Opened, Fact
<1>6. /\ plan' \in PlanTexts /\ plan'.body = body
      /\ plan'.title = plan.title /\ plan'.serial = plan.serial
      /\ plan'.block = plan.block
  <2>1. plan' = [plan EXCEPT !.body = body] BY <1>1, <1>3
  <2> QED BY <1>2, <1>4, <2>1, PlanRight DEF PlanTexts
<1>7. PlanFits(ok)'
  <2>1. Opened(plan.serial, plan.title) /\ plan.block = NoBlock
    BY <1>2 DEF Sound, IInv
  <2> QED BY <1>2, <1>5, <1>6, <2>1 DEF PlanFits, Opened, About
<1>8. ArchivesFit(ok)' BY <1>2, ArchivesStay
<1>9. ok => StateFactsFitTheirId' BY <1>2, StateStays
<1>10. plan' # Absent BY <1>6, CloseoutAssumption
<1> QED BY <1>2, <1>7, <1>8, <1>9, <1>10, Together DEF Sound, IInv, TypeOK

LEMMA WritebackStep ==
  ASSUME NEW ok \in BOOLEAN, Sound(ok), Writeback PROVE Sound(ok)'
<1>1. PICK r \in Asked :
        \E facts \in Supplied(r, NoPath) :
        \E values \in IF facts = NoFacts THEN {NoFacts}
                      ELSE Planned(r, facts, Identity(NoPath), FALSE) :
          /\ block' = Rewritten(block, values, Identity(NoPath))
          /\ plan' = IF plan = Absent THEN Absent
                     ELSE [plan EXCEPT !.body = Synced(@, values)]
          /\ UNCHANGED <<active, last, archives, opened>>
  BY DEF Writeback
<1>2. PICK identity : identity = Identity(NoPath) OBVIOUS
<1>f. PICK facts \in Supplied(r, NoPath) :
        \E values \in IF facts = NoFacts THEN {NoFacts}
                      ELSE Planned(r, facts, identity, FALSE) :
          /\ block' = Rewritten(block, values, identity)
          /\ plan' = IF plan = Absent THEN Absent
                     ELSE [plan EXCEPT !.body = Synced(@, values)]
          /\ UNCHANGED <<active, last, archives, opened>>
  BY <1>1, <1>2
<1>3. PICK values \in IF facts = NoFacts THEN {NoFacts}
                      ELSE Planned(r, facts, identity, FALSE) :
        /\ block' = Rewritten(block, values, identity)
        /\ plan' = IF plan = Absent THEN Absent
                   ELSE [plan EXCEPT !.body = Synced(@, values)]
        /\ UNCHANGED <<active, last, archives, opened>>
  BY <1>f
<1>4. r \in Requests BY <1>1, CloseoutAssumption
<1>5. Right(ok, facts, identity.id) BY <1>f, <1>2, <1>4, SuppliedRight
<1>6. Right(ok, values, identity.id)
  BY <1>3, <1>5, PlannedRight, NoFactsRight DEF Right
<1>7. identity \in Identities /\ (plan # Absent => identity.id = plan.title)
  BY <1>2, IdentityRight
<1>8. block' \in Blocks /\ (ok => StateFactsFitTheirId')
  BY <1>3, <1>6, <1>7, BlockStep
<1>9. PlanFits(ok)' /\ (plan = Absent <=> plan' = Absent)
  BY <1>3, <1>6, <1>7, PlanStep
<1>10. ArchivesFit(ok)' BY <1>3, ArchivesStay
<1> QED BY <1>3, <1>8, <1>9, <1>10, Together DEF Sound, IInv, TypeOK

LEMMA RefreshStep ==
  ASSUME NEW ok \in BOOLEAN, Sound(ok), NEW a \in Archives, Refresh(a),
         ok => plan = Absent \/ plan.title = a[1]
  PROVE  Sound(ok)'
<1>1. PICK r \in Asked :
        /\ archives[a] # Absent
        /\ \E facts \in Supplied(r, a) :
           \E values \in IF facts = NoFacts THEN Refreshable(a, Identity(a))
                         ELSE Planned(r, facts, Identity(a), FALSE) :
             /\ block' = Rewritten(block, values, Identity(a))
             /\ archives' = [archives EXCEPT
                  ![a].body = Synced(@, values),
                  ![a].block = Rewritten(@, values, Identity(a))]
             /\ plan' = IF plan = Absent THEN Absent
                        ELSE [plan EXCEPT !.body = Synced(@, values)]
             /\ UNCHANGED <<active, last, opened>>
  BY DEF Refresh
<1>2. PICK identity : identity = Identity(a) OBVIOUS
<1>3. PICK facts \in Supplied(r, a) :
           \E values \in IF facts = NoFacts THEN Refreshable(a, identity)
                         ELSE Planned(r, facts, identity, FALSE) :
             /\ block' = Rewritten(block, values, identity)
             /\ archives' = [archives EXCEPT
                  ![a].body = Synced(@, values),
                  ![a].block = Rewritten(@, values, identity)]
             /\ plan' = IF plan = Absent THEN Absent
                        ELSE [plan EXCEPT !.body = Synced(@, values)]
             /\ UNCHANGED <<active, last, opened>>
  BY <1>1, <1>2
<1>4. PICK values \in IF facts = NoFacts THEN Refreshable(a, identity)
                      ELSE Planned(r, facts, identity, FALSE) :
             /\ block' = Rewritten(block, values, identity)
             /\ archives' = [archives EXCEPT
                  ![a].body = Synced(@, values),
                  ![a].block = Rewritten(@, values, identity)]
             /\ plan' = IF plan = Absent THEN Absent
                        ELSE [plan EXCEPT !.body = Synced(@, values)]
             /\ UNCHANGED <<active, last, opened>>
  BY <1>3
<1>5. r \in Requests /\ a # NoPath
  BY <1>1, CloseoutAssumption, PathIsNotNone
<1>6. /\ identity \in Identities
      /\ ok => identity.id = a[1]
      /\ plan # Absent => identity.id = plan.title
  BY <1>1, <1>2, <1>5, IdentityRight
<1>7. Right(ok, facts, identity.id)
  BY <1>1, <1>2, <1>3, <1>5, SuppliedRight
<1>8. Right(ok, values, a[1])
  <2>1. CASE facts = NoFacts
    <3>1. values \in Refreshable(a, identity) BY <1>4, <2>1
    <3> QED BY <1>1, <1>6, <3>1, RefreshableRight
  <2>2. CASE facts # NoFacts
    <3>1. values \in Planned(r, facts, identity, FALSE) BY <1>4, <2>2
    <3>2. Right(ok, values, identity.id) BY <1>7, <3>1, PlannedRight
    <3> QED BY <1>6, <3>2 DEF Right
  <2> QED BY <2>1, <2>2
<1>v. Right(ok, values, identity.id) BY <1>6, <1>8 DEF Right
<1>9. block' \in Blocks /\ (ok => StateFactsFitTheirId')
  BY <1>4, <1>6, <1>v, BlockStep
<1>10. PICK text : text = [archives[a] EXCEPT
                  !.body = Synced(archives[a].body, values),
                  !.block = Rewritten(archives[a].block, values, identity)]
  OBVIOUS
<1>11. Fits(ok, text, a[1])
  <2>1. /\ archives[a] \in PlanTexts /\ archives[a].title = a[1]
        /\ a[1] # NoTitle /\ Opened(archives[a].serial, a[1])
        /\ Right(ok, archives[a].body, a[1])
        /\ Right(ok, archives[a].block.facts, a[1])
    BY <1>1, ArchiveRight
  <2>2. PICK body : body = Synced(archives[a].body, values) OBVIOUS
  <2>3. Right(ok, body, a[1]) BY <1>8, <2>1, <2>2, SyncedRight
  <2>4. PICK new : new = Rewritten(archives[a].block, values, identity) OBVIOUS
  <2>5. archives[a].block \in Blocks BY <2>1 DEF PlanTexts
  <2>6. new \in Blocks /\ (ok => About(new.facts, a[1]))
    BY <1>6, <1>8, <2>1, <2>4, <2>5, RewrittenRight DEF Right
  <2>7. text = [archives[a] EXCEPT !.body = body, !.block = new]
    BY <1>10, <2>2, <2>4
  <2>8. /\ text \in PlanTexts /\ text.body = body /\ text.block = new
        /\ text.title = archives[a].title /\ text.serial = archives[a].serial
    BY <2>1, <2>3, <2>6, <2>7 DEF PlanTexts, Right
  <2> QED BY <2>1, <2>3, <2>6, <2>8 DEF Fits, Right
<1>12. archives' = [archives EXCEPT ![a] = text]
  <2>1. a \in DOMAIN archives BY DEF Sound, IInv, TypeOK
  <2> QED BY <1>4, <1>10, <2>1
<1>13. ArchivesFit(ok)' /\ \A b \in Archives : archives[b] # Absent =>
                                             archives'[b] # Absent
  <2>1. opened' = opened BY <1>4
  <2> QED BY <1>11, <1>12, <2>1, ArchiveStep
<1>14. PlanFits(ok)' /\ (plan = Absent <=> plan' = Absent)
  <2>1. plan # Absent => Right(ok, values, plan.title) BY <1>6, <1>v
  <2> QED BY <1>4, <2>1, PlanStep
<1> QED BY <1>4, <1>9, <1>13, <1>14, Together DEF Sound, IInv, TypeOK

LEMMA NamesFit ==
  ASSUME NEW ok \in BOOLEAN, Sound(ok), plan # Absent, NEW a \in Names
  PROVE  a \in Archives /\ a[1] = plan.title /\ a # NoPath
<1>1. PICK n \in 1 .. MaxCopy : a = <<plan.title, n>>
  <2>1. 1 \in 1 .. MaxCopy BY CloseoutAssumption
  <2>2. \A n \in 2 .. MaxCopy : n \in 1 .. MaxCopy BY CloseoutAssumption
  <2>3. a = <<plan.title, 1>> \/ \E n \in 2 .. MaxCopy : a = <<plan.title, n>>
    BY Zenon DEF Names
  <2> QED BY <2>1, <2>2, <2>3
<1>2. a \in Archives BY <1>1, PlanRight DEF Archives
<1> QED BY <1>1, <1>2, PathIsNotNone

LEMMA ArchivePlanStep ==
  ASSUME NEW ok \in BOOLEAN, Sound(ok), ArchivePlan PROVE Sound(ok)'
<1>1. PICK r \in Asked :
        /\ active /\ plan # Absent
        /\ \E a \in Names :
           \E facts \in Supplied(r, NoPath) :
           \E values \in IF facts = NoFacts THEN {Carried(Identity(a))}
                         ELSE Planned(r, facts, Identity(a), TRUE) :
             /\ block' = Rewritten(block, values, Identity(a))
             /\ archives' = [archives EXCEPT ![a] =
                               Archived(values, Identity(a))]
             /\ plan' = Absent /\ active' = FALSE /\ last' = a
             /\ UNCHANGED opened
  BY DEF ArchivePlan
<1>2. PICK a \in Names :
           \E facts \in Supplied(r, NoPath) :
           \E values \in IF facts = NoFacts THEN {Carried(Identity(a))}
                         ELSE Planned(r, facts, Identity(a), TRUE) :
             /\ block' = Rewritten(block, values, Identity(a))
             /\ archives' = [archives EXCEPT ![a] =
                               Archived(values, Identity(a))]
             /\ plan' = Absent /\ active' = FALSE /\ last' = a
             /\ UNCHANGED opened
  BY <1>1
<1>3. PICK identity : identity = Identity(a) OBVIOUS
<1>4. PICK facts \in Supplied(r, NoPath) :
           \E values \in IF facts = NoFacts THEN {Carried(identity)}
                         ELSE Planned(r, facts, identity, TRUE) :
             /\ block' = Rewritten(block, values, identity)
             /\ archives' = [archives EXCEPT ![a] = Archived(values, identity)]
             /\ plan' = Absent /\ active' = FALSE /\ last' = a
             /\ UNCHANGED opened
  BY <1>2, <1>3
<1>5. PICK values \in IF facts = NoFacts THEN {Carried(identity)}
                      ELSE Planned(r, facts, identity, TRUE) :
             /\ block' = Rewritten(block, values, identity)
             /\ archives' = [archives EXCEPT ![a] = Archived(values, identity)]
             /\ plan' = Absent /\ active' = FALSE /\ last' = a
             /\ UNCHANGED opened
  BY <1>4
<1>6. r \in Requests BY <1>1, CloseoutAssumption
<1>7. a \in Archives /\ a[1] = plan.title /\ a # NoPath
  BY <1>1, <1>2, NamesFit
<1>8. identity \in Identities /\ identity.id = a[1]
  BY <1>1, <1>3, <1>7, IdentityRight
<1>9. Right(ok, facts, identity.id)
  <2>1. Identity(NoPath).id = identity.id BY <1>1, <1>7, <1>8, IdentityRight
  <2> QED BY <1>4, <1>6, <2>1, SuppliedRight
<1>10. Right(ok, values, a[1])
  BY <1>5, <1>8, <1>9, PlannedRight, CarriedRight
<1>11. block' \in Blocks /\ (ok => StateFactsFitTheirId')
  BY <1>5, <1>8, <1>10, BlockStep
<1>12. PICK text : text = Archived(values, identity) OBVIOUS
<1>13. Fits(ok, text, a[1])
  <2>1. /\ plan \in PlanTexts /\ plan.title # NoTitle
        /\ Opened(plan.serial, plan.title) /\ Right(ok, plan.body, plan.title)
    BY <1>1, PlanRight
  <2>2. PICK body : body = Synced(plan.body, values) OBVIOUS
  <2>3. Right(ok, body, a[1]) BY <1>7, <1>10, <2>1, <2>2, SyncedRight
  <2>4. PICK new : new = Rewritten(plan.block, values, identity) OBVIOUS
  <2>5. plan.block \in Blocks /\ plan.block = NoBlock
    BY <1>1, <2>1 DEF Sound, PlanTexts, IInv
  <2>6. NoBlock.facts = NoFacts BY DEF NoBlock
  <2>7. new \in Blocks /\ (ok => About(new.facts, a[1]))
    BY <1>7, <1>8, <1>10, <2>1, <2>4, <2>5, <2>6, RewrittenRight, NoFactsRight
    DEF Right
  <2>8. text = [plan EXCEPT !.body = body, !.block = new]
    BY <1>12, <2>2, <2>4 DEF Archived
  <2>9. /\ text \in PlanTexts /\ text.body = body /\ text.block = new
        /\ text.title = plan.title /\ text.serial = plan.serial
    BY <2>1, <2>3, <2>7, <2>8 DEF PlanTexts, Right
  <2> QED BY <1>7, <2>1, <2>3, <2>7, <2>9 DEF Fits, Right
<1>14. ArchivesFit(ok)' /\ archives'[a] # Absent
  <2>1. archives' = [archives EXCEPT ![a] = text] BY <1>5, <1>12
  <2>2. a \in DOMAIN archives BY <1>7 DEF Sound, IInv, TypeOK
  <2>3. archives'[a] = text BY <2>1, <2>2
  <2>4. text # Absent BY <1>13, CloseoutAssumption DEF Fits
  <2> QED BY <1>5, <1>7, <1>13, <2>1, <2>3, <2>4, ArchiveStep
<1>15. PlanFits(ok)' BY <1>5 DEF PlanFits
<1> QED BY <1>5, <1>7, <1>11, <1>14, <1>15, Together DEF Sound, IInv, TypeOK

LEMMA InitHolds == Init => Sound(TRUE)
<1> SUFFICES ASSUME Init PROVE Sound(TRUE) OBVIOUS
<1>1. NoBlock \in Blocks
  BY NoFactsRight DEF NoBlock, Blocks, NoIdentity, Identities
<1>2. TypeOK
  <2>1. opened \in Seq(Titles) /\ Len(opened) <= MaxPlans
    BY CloseoutAssumption DEF Init
  <2>2. /\ DOMAIN archives = Archives
        /\ \A a \in Archives : archives[a] = Absent
    BY DEF Init
  <2> QED BY <1>1, <2>1, <2>2 DEF Init, TypeOK
<1>3. FactsFitTheirId BY DEF Init, FactsFitTheirId
<1>4. StateFactsFitTheirId
  BY DEF Init, StateFactsFitTheirId, NoBlock, NoIdentity
<1>5. IInv BY <1>2 DEF Init, IInv
<1> QED BY <1>3, <1>4, <1>5 DEF Sound

LEMMA StutterStep ==
  ASSUME NEW ok \in BOOLEAN, Sound(ok), UNCHANGED vars PROVE Sound(ok)'
<1>1. UNCHANGED <<active, last, block, plan, archives, opened>> BY DEF vars
<1>2. PlanFits(ok)' BY <1>1, PlanFitsNow DEF PlanFits, Opened, About
<1>3. ArchivesFit(ok)' BY <1>1, ArchivesStay
<1>4. ok => StateFactsFitTheirId' BY <1>1, StateStays
<1> QED BY <1>1, <1>2, <1>3, <1>4, Together DEF Sound, IInv, TypeOK

\* Every step keeps the types, and the facts right but for a crossing.
LEMMA Steps ==
  ASSUME NEW ok \in BOOLEAN, Sound(ok), [Next]_vars, ok => ~Crossing
  PROVE  Sound(ok)'
<1>1. CASE UNCHANGED vars BY <1>1, StutterStep
<1>2. CASE Open BY <1>2, OpenStep
<1>3. CASE Cancel BY <1>3, CancelStep
<1>4. CASE Writeback BY <1>4, WritebackStep
<1>5. ASSUME NEW a \in Archives, Refresh(a) PROVE Sound(ok)'
  <2>1. ok => plan = Absent \/ plan.title = a[1] BY <1>5 DEF Crossing
  <2> QED BY <1>5, <2>1, RefreshStep
<1>6. CASE ArchivePlan BY <1>6, ArchivePlanStep
<1>7. CASE EditPlan BY <1>7, EditPlanStep
<1>8. CASE RemovePlan BY <1>8, RemovePlanStep
<1> QED BY <1>1, <1>2, <1>3, <1>4, <1>5, <1>6, <1>7, <1>8 DEF Next

-----------------------------------------------------------------------------
\* The inductive invariant of closeout facts, whatever is refreshed when and
\* whatever titles are used again.
THEOREM Invariance == Spec => []IInv
<1>1. Init => IInv BY InitHolds DEF Sound
<1>2. IInv /\ [Next]_vars => IInv'
  <2> SUFFICES ASSUME IInv, [Next]_vars PROVE IInv' OBVIOUS
  <2>1. Sound(FALSE) BY DEF Sound
  <2>2. Sound(FALSE)' BY <2>1, Steps
  <2> QED BY <2>2 DEF Sound
<1> QED BY <1>1, <1>2, PTL DEF Spec

\* Types.
THEOREM TypeCorrect == Spec => []TypeOK
<1>1. IInv => TypeOK BY DEF IInv
<1> QED BY <1>1, Invariance, PTL

LEMMA FactsStayRight ==
  ASSUME IInv, [Next]_vars, FactsFit, ~Crossing PROVE FactsFit'
<1>1. Sound(TRUE) BY DEF Sound, FactsFit
<1>2. Sound(TRUE)' BY <1>1, Steps
<1> QED BY <1>2 DEF Sound, FactsFit

\* However facts get into the plan file or an archive, they are about plans
\* of that id, but for the refresh of an archive while the plan file is one
\* of another title.
THEOREM CopiesRight == Spec => CopiesStayRight
<1>1. IInv /\ [Next]_vars =>
        [FactsFit => FactsFitTheirId' \/ Crossing]_vars
  BY FactsStayRight DEF FactsFit
<1> QED BY <1>1, Invariance, PTL DEF Spec, CopiesStayRight

\* The same for the block of the project state: a partial closeout, a cancel
\* or a new plan never leaves facts under the id of another plan in it.
THEOREM StateRight == Spec => StateStaysRight
<1>1. IInv /\ [Next]_vars =>
        [FactsFit => StateFactsFitTheirId' \/ Crossing]_vars
  BY FactsStayRight DEF FactsFit
<1> QED BY <1>1, Invariance, PTL DEF Spec, StateStaysRight

\* In a history without such a refresh all facts are always under the id of
\* the plan they are about.
THEOREM AlwaysRight == Spec /\ [][~Crossing]_vars => []FactsFit
<1>1. Init => FactsFit BY InitHolds DEF Sound, FactsFit
<1>2. IInv /\ FactsFit /\ [Next]_vars /\ [~Crossing]_vars => FactsFit'
  <2> SUFFICES ASSUME IInv, FactsFit, [Next]_vars, [~Crossing]_vars
               PROVE  FactsFit'
    OBVIOUS
  <2>1. CASE ~Crossing BY <2>1, FactsStayRight
  <2>2. CASE UNCHANGED vars
    <3>1. Sound(TRUE) BY DEF Sound, FactsFit
    <3>2. Sound(TRUE)' BY <2>2, <3>1, StutterStep
    <3> QED BY <3>2 DEF Sound, FactsFit
  <2> QED BY <2>1, <2>2
<1> QED BY <1>1, <1>2, Invariance, PTL DEF Spec
=============================================================================
