------------------------------ MODULE Closeout ------------------------------
(***************************************************************************)
(* Closeout facts: what writeback.py records of the end of a plan (the     *)
(* docs decision, the verification, ...) in a block of the project state,  *)
(* in the fields of the plan file and in a block of the archived plan, and *)
(* the identity in each block by which a later command decides whether     *)
(* these facts may be carried on, must be replaced, or are refused.        *)
(* A fact remembers the plan it is about, which no file does: the model    *)
(* says whether the identities get that right.  A command is one step, as  *)
(* Lifecycle has its transactions; gates that may refuse one besides are   *)
(* left out.  All of it happens on one day, of which plan ids and archive  *)
(* names are made.                                                         *)
(***************************************************************************)
EXTENDS Naturals, Sequences

CONSTANTS
  Titles,   \* titles, and the plan ids made of a title and the day
  MaxPlans, \* bound on the plans ever opened
  MaxCopy,  \* bound on the archives of a day with the same title
  Asked,    \* the requests that are made
  Absent,   \* there is no such file
  NoTitle   \* no plan id

\* docs_decision, and the other facts a complete closeout needs.
Fields == {"docs", "proof"}
Serials == 1 .. MaxPlans
NoFact == [of |-> 0, final |-> FALSE, there |-> FALSE]
Fact(of, final) == [of |-> of, final |-> final, there |-> TRUE]
Facts == [Fields -> [of : 0 .. MaxPlans, final : BOOLEAN, there : BOOLEAN]]
NoFacts == [f \in Fields |-> NoFact]

Archives == Titles \X (1 .. MaxCopy)
NoPath == <<>>
Identities == [id : Titles \cup {NoTitle}, active : BOOLEAN,
               archived : Archives \cup {NoPath}]
NoIdentity == [id |-> NoTitle, active |-> FALSE, archived |-> NoPath]
Blocks == [identity : Identities, facts : Facts]
NoBlock == [identity |-> NoIdentity, facts |-> NoFacts]
PlanTexts == [serial : Serials, title : Titles, body : Facts, block : Blocks]

Phases == {"", "pending", "complete"}
\* What a request gives of a field: nothing, an undecided or a final value.
Givens == [Fields -> {"", "open", "final"}]
Requests == [given : Givens, harvest : BOOLEAN, sync : BOOLEAN,
             phase : Phases]

ASSUME CloseoutAssumption ==
  /\ MaxPlans \in Nat /\ MaxCopy \in Nat \ {0}
  /\ Asked \subseteq Requests
  /\ NoTitle \notin Titles
  /\ Absent \notin PlanTexts

VARIABLES
  active,   \* plan_status is active and active_plan the default path
  last,     \* last_archived_plan
  block,    \* the closeout block of the project state
  plan,     \* the plan file
  archives, \* the archived plans
  opened    \* history: the titles of the plans opened, in that order

vars == <<active, last, block, plan, archives, opened>>

Init ==
  /\ active = FALSE
  /\ last = NoPath
  /\ block = NoBlock
  /\ plan = Absent
  /\ archives = [a \in Archives |-> Absent]
  /\ opened = <<>>

(***************************************************************************)
(* Facts and identities.                                                   *)
(***************************************************************************)
Complete(facts) == \A f \in Fields : facts[f].there /\ facts[f].final
Merged(old, new) ==
  [f \in Fields |-> IF new[f].there THEN new[f] ELSE old[f]]
\* Fields of a text that has a line for them.
Synced(body, values) ==
  [f \in Fields |-> IF body[f].there /\ values[f].there THEN values[f]
                    ELSE body[f]]

\* Fault: without a plan and an archive the empty path becomes the id.
IdentityUnset(archived) ==
  LET path == IF archived = NoPath /\ ~active THEN last ELSE archived
  IN [id |-> IF plan # Absent THEN plan.title
             ELSE IF path # NoPath THEN archives[path].title ELSE NoPath,
      active |-> active,
      archived |-> path]

\* _current_closeout_identity: an archive given or written goes first, and
\* the plan file there is gives the id, whatever its state.
Identity(archived) ==
  LET path == IF archived = NoPath /\ ~active THEN last ELSE archived
  IN [id |-> IF plan # Absent THEN plan.title
             ELSE IF path # NoPath THEN archives[path].title ELSE NoTitle,
      active |-> active,
      archived |-> path]

Anchored(identity) == identity # NoIdentity

\* Fault: the plan id is not compared.
MatchesAnyId(existing, current) ==
  \/ ~Anchored(current)
  \/ /\ Anchored(existing)
     /\ \/ current.active /\ existing.active
        \/ current.archived # NoPath /\ existing.archived = current.archived

Matches(existing, current) ==
  \/ ~Anchored(current)
  \/ /\ Anchored(existing)
     /\ current.id # NoTitle => existing.id = current.id
     /\ \/ current.active /\ existing.active
        \/ current.archived # NoPath /\ existing.archived = current.archived
        \/ /\ current.id # NoTitle
           /\ ~current.active /\ current.archived = NoPath

\* The plan the person who gives facts means: that of the archive named, or
\* of the plan file, or the last one archived.
Meant(archived) ==
  IF archived # NoPath THEN archives[archived].serial
  ELSE IF plan # Absent THEN plan.serial
  ELSE IF last # NoPath THEN archives[last].serial ELSE 0

GivenFacts(r, serial) ==
  [f \in Fields |-> IF r.given[f] = "" THEN NoFact
                    ELSE Fact(serial, r.given[f] = "final")]

(***************************************************************************)
(* What a command may write: a set of facts, empty when it is refused.     *)
(***************************************************************************)
\* --from-active-plan: what the plan file says, else a complete and matching
\* block of the state under it.
Harvested(given) ==
  LET own == Merged(plan.body, given)
  IN IF plan = Absent THEN {}
     ELSE IF Complete(own) THEN {own}
     ELSE IF /\ Complete(block.facts)
             /\ Matches(block.identity, Identity(NoPath))
     THEN {Merged(block.facts, own)} ELSE {}

\* The facts of the request.
Supplied(r, archived) ==
  LET given == GivenFacts(r, Meant(archived))
  IN IF r.harvest THEN Harvested(given) ELSE {given}

\* The only partial facts that may replace those of another plan.
PhaseOnly(r, facts) ==
  /\ ~r.sync /\ facts["docs"].there /\ ~facts["docs"].final
  /\ r.phase \in IF facts["proof"].there THEN {"complete", "pending"}
                                         ELSE {"complete"}

\* A request with facts: with a roadmap item they stand alone.
Planned(r, facts, identity, archiving) ==
  IF r.sync \/ block.facts = NoFacts THEN {facts}
  ELSE IF Matches(block.identity, identity) THEN {Merged(block.facts, facts)}
  ELSE IF Complete(facts) \/ (~archiving /\ PhaseOnly(r, facts))
  THEN {facts} ELSE {}

\* Fault: the block of the state is carried into any archive.
CarriedByAnyone(identity) ==
  IF Complete(block.facts) THEN block.facts ELSE NoFacts

\* A request without facts that archives the plan carries the block.
Carried(identity) ==
  IF Complete(block.facts) /\ Matches(block.identity, identity)
  THEN block.facts ELSE NoFacts

\* A request without facts that refreshes an archive: the block of the state
\* or else that of the archive.
Refreshable(a, identity) ==
  IF Carried(identity) # NoFacts THEN {block.facts}
  ELSE IF /\ Complete(archives[a].block.facts)
          /\ Matches(archives[a].block.identity, identity)
  THEN {archives[a].block.facts} ELSE {}

\* Without facts to write a block stays as it is.
Rewritten(old, values, identity) ==
  IF values = NoFacts THEN old ELSE [identity |-> identity, facts |-> values]

(***************************************************************************)
(* The commands.                                                           *)
(***************************************************************************)
\* The docs decision of a new plan is undecided.
NewPlan(title) ==
  [serial |-> Len(opened) + 1, title |-> title,
   body |-> [NoFacts EXCEPT !["docs"] = Fact(Len(opened) + 1, FALSE)],
   block |-> NoBlock]

Open ==
  \E title \in Titles :
    /\ Len(opened) < MaxPlans
    /\ (active /\ plan # Absent) \/ (~active /\ plan = Absent)
    /\ plan' = NewPlan(title)
    /\ active' = TRUE
    /\ opened' = Append(opened, title)
    /\ UNCHANGED <<last, block, archives>>

Cancel ==
  /\ active
  /\ active' = FALSE
  /\ plan' \in {plan, Absent}
  /\ UNCHANGED <<last, block, archives, opened>>

Writeback ==
  \E r \in Asked : \E facts \in Supplied(r, NoPath) :
    LET identity == Identity(NoPath)
    IN \E values \in IF facts = NoFacts THEN {NoFacts}
                     ELSE Planned(r, facts, identity, FALSE) :
         /\ block' = Rewritten(block, values, identity)
         /\ plan' = IF plan = Absent THEN Absent
                    ELSE [plan EXCEPT !.body = Synced(@, values)]
         /\ UNCHANGED <<active, last, archives, opened>>

\* An archive is refreshed if it is the last one or its identity fits, or a
\* roadmap item speaks for it.
Bound(r, a) ==
  \/ r.sync \/ last = a
  \/ Matches(block.identity, Identity(a))
  \/ Matches(archives[a].block.identity, Identity(a))

Refresh(a) ==
  \E r \in Asked :
    /\ archives[a] # Absent
    /\ Bound(r, a)
    /\ LET identity == Identity(a)
       IN \E facts \in Supplied(r, a) :
          \E values \in IF facts = NoFacts THEN Refreshable(a, identity)
                        ELSE Planned(r, facts, identity, FALSE) :
            /\ block' = Rewritten(block, values, identity)
            /\ archives' = [archives EXCEPT
                 ![a].body = Synced(@, values),
                 ![a].block = Rewritten(@, values, identity)]
            /\ plan' = IF plan = Absent THEN Absent
                       ELSE [plan EXCEPT !.body = Synced(@, values)]
            /\ UNCHANGED <<active, last, opened>>

\* The plan as it is archived with these facts.
Archived(values, identity) ==
  [plan EXCEPT !.body = Synced(@, values),
               !.block = Rewritten(@, values, identity)]

\* The names a plan may be archived under: the name of the day, or the next
\* free one if another plan has it and that was asked for.
Names ==
  LET free == {n \in 2 .. MaxCopy : archives[<<plan.title, n>>] = Absent}
  IN {<<plan.title, 1>>}
     \cup {<<plan.title, n>> : n \in {n \in free : \A m \in free : n <= m}}

ArchivePlan ==
  \E r \in Asked :
    /\ active /\ plan # Absent
    /\ \E a \in Names :
       LET identity == Identity(a)
       IN \E facts \in Supplied(r, NoPath) :
          \E values \in IF facts = NoFacts THEN {Carried(identity)}
                        ELSE Planned(r, facts, identity, TRUE) :
            /\ archives[a] \in {Absent, plan, Archived(values, identity)}
            /\ block' = Rewritten(block, values, identity)
            /\ archives' = [archives EXCEPT
                              ![a] = Archived(values, identity)]
            /\ plan' = Absent
            /\ active' = FALSE
            /\ last' = a
            /\ UNCHANGED opened

(***************************************************************************)
(* A person writes facts into the plan file, or removes one that a cancel  *)
(* has left.                                                               *)
(***************************************************************************)
EditPlan ==
  /\ plan # Absent
  /\ \E final \in BOOLEAN :
       plan' = [plan EXCEPT !.body = [f \in Fields |->
                                        Fact(plan.serial, final)]]
  /\ UNCHANGED <<active, last, block, archives, opened>>

RemovePlan ==
  /\ ~active /\ plan # Absent
  /\ plan' = Absent
  /\ UNCHANGED <<active, last, block, archives, opened>>

Next ==
  \/ Open \/ Cancel \/ Writeback \/ ArchivePlan
  \/ \E a \in Archives : Refresh(a)
  \/ EditPlan \/ RemovePlan

Spec == Init /\ [][Next]_vars

(***************************************************************************)
(* Properties.                                                             *)
(***************************************************************************)
\* Types.
TypeOK ==
  /\ active \in BOOLEAN
  /\ last \in Archives \cup {NoPath}
  /\ block \in Blocks
  /\ plan \in PlanTexts \cup {Absent}
  /\ DOMAIN archives = Archives
  /\ \A a \in Archives : archives[a] # Absent =>
       archives[a] \in PlanTexts /\ archives[a].title = a[1]
  /\ opened \in Seq(Titles) /\ Len(opened) <= MaxPlans

\* Facts about plans of this title only.
About(facts, title) ==
  \A f \in Fields : facts[f].there =>
    facts[f].of \in DOMAIN opened /\ opened[facts[f].of] = title

\* The plan file and the archives have facts about plans of their id only.
FactsFitTheirId ==
  /\ plan # Absent => About(plan.body, plan.title)
  /\ \A a \in Archives : archives[a] # Absent =>
       About(archives[a].body, a[1]) /\ About(archives[a].block.facts, a[1])

\* The block of the project state has facts about plans of the id it gives.
StateFactsFitTheirId ==
  block.identity.id # NoTitle => About(block.facts, block.identity.id)

FactsFit == FactsFitTheirId /\ StateFactsFitTheirId

\* An archive is refreshed while the plan file is one of another title.
Crossing ==
  \E a \in Archives : plan # Absent /\ plan.title # a[1] /\ Refresh(a)

\* Facts get into a plan file or an archive in many ways (given, harvested,
\* carried, synchronised or refreshed): none brings in those of another plan
\* id, but for the refresh of an archive while another plan is open.
CopiesStayRight == [][FactsFit => FactsFitTheirId' \/ Crossing]_vars

\* No partial closeout, cancel or new plan puts facts about one plan into the
\* project state under the id of another; only such a refresh does.
StateStaysRight == [][FactsFit => StateFactsFitTheirId' \/ Crossing]_vars

\* docs/specs/attach-repair-status-cli.md:208: a refresh without a roadmap
\* item "is target-bound by archived-plan identity": "the path must match
\* `last_archived_plan` or matching project-state/archived-plan closeout
\* identity".  It leaves no facts about another plan in an archive that had
\* none.
RefreshIsBound ==
  [][\A a \in Archives :
       archives[a] # Absent /\ About(archives[a].block.facts, a[1]) =>
         \A f \in Fields : archives'[a].block.facts[f].there =>
           opened[archives'[a].block.facts[f].of] = a[1]]_vars
=============================================================================
