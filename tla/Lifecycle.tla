----------------------------- MODULE Lifecycle -----------------------------
(***************************************************************************)
(* The life of a plan: planning.py opens it and cancels it, writeback.py   *)
(* records its phases, archives it and compacts the project state,         *)
(* roadmap.py keeps the item it serves, and `transition` (cli.py) runs     *)
(* several of these one after the other.  Every command reads the files,   *)
(* decides, and replaces several of them with one file transaction; the    *)
(* operations of a transaction reach the disk one at a time, an operation  *)
(* that fails takes the earlier ones back, and the process may die at any  *)
(* point.  A transaction is seen here through what FileTransaction shows   *)
(* of it: the first operations done, the rest not (its CutInOrder).  Left  *)
(* out are torn copies and rollbacks that fail themselves, which the       *)
(* command reports and FileTransaction has.  What a text says is kept to   *)
(* what the commands read back.                                            *)
(* All of it happens on one day: the files a day adds have names made of   *)
(* that day, so it is within a day that names collide.                     *)
(* Assumed: no other command reads or writes between a command's look at   *)
(* the files and the end of its transaction; between the transactions of   *)
(* one command the others run freely.                                      *)
(***************************************************************************)
EXTENDS Naturals, Sequences, FiniteSets

CONSTANTS
  Procs,      \* the processes
  Titles,     \* the titles plans are given, one per slug
  Items,      \* the ids of roadmap items
  Commands,   \* the commands each process is given: sequences of requests
  TailLimit,  \* DETAILED_DONE_TAIL_LIMIT
  NoteLimit,  \* the number of notes past which the state is compacted
  MaxCopy,    \* bound on the files whose names differ only in a number
  MaxNotes,   \* bound on the notes a person writes into the state
  MaxTrouble, \* bound on the transactions that fail or are cut short
  Absent,     \* there is no such file, or no such item
  NoItem,     \* a request or a plan without a roadmap item
  NoTx        \* no transaction runs

State == <<"state">>
Plan == <<"plan">>
Roadmap == <<"roadmap">>
Archive(title, n) == <<"archive", title, n>>
History(n) == <<"history", n>>
ArchivePaths == {Archive(title, n) : title \in Titles, n \in 1 .. MaxCopy}
HistoryPaths == {History(n) : n \in 1 .. MaxCopy}
Files == {State, Plan, Roadmap} \cup ArchivePaths \cup HistoryPaths
NoPath == <<>>

ArchivablePhases == {"complete", "blocked", "skipped", "deferred", "abandoned"}
PhaseStatuses ==
  {"", "pending", "active", "in_progress", "paused"} \cup ArchivablePhases
Terminal == {"blocked", "done", "rejected", "superseded"}
ItemStatuses == {"proposed", "accepted", "active", "deferred"} \cup Terminal
\* What a request says of an item's docs decision: nothing, that it is open, or
\* what it is; in the last case it comes with the verification summary.
Facts == {"", "uncertain", "settled"}

StateTexts == [status : {"none", "active"}, phase : PhaseStatuses,
               notes : SUBSET (1 .. MaxNotes), links : SUBSET HistoryPaths]
PlanTexts == [title : Titles, item : Items \cup {NoItem},
              phase : PhaseStatuses]
ItemTexts == [status : ItemStatuses,
              related : ArchivePaths \cup {Plan, NoPath},
              archived : ArchivePaths \cup {NoPath}, proved : BOOLEAN]
RoadmapTexts == [items : [Items -> ItemTexts \cup {Absent}],
                 history : [Items -> ArchivePaths \cup {NoPath}]]

FileTexts(f) ==
  CASE f = State -> StateTexts
    [] f = Plan -> PlanTexts
    [] f = Roadmap -> RoadmapTexts
    [] f \in ArchivePaths -> PlanTexts
    [] OTHER -> SUBSET (1 .. MaxNotes)
Texts == {Absent} \cup UNION {FileTexts(f) : f \in Files}

\* The transaction of a command: the files it found, its operations, how
\* many of them are done (n) and were done when one failed (done), whether
\* it rolls back, and whether a file is away while its backup moves back.
Kinds == {"plan", "plan-cancel", "writeback", "roadmap", "compact"}
Transactions ==
  [proc : Procs, kind : Kinds, old : [Files -> Texts],
   ops : Seq([file : Files, text : Texts]), n : Nat, done : Nat,
   rolling : BOOLEAN, gap : BOOLEAN]

\* What a request asks of one roadmap item; "" and NoPath leave a field be.
Updates == [item : Items \cup {NoItem}, status : ItemStatuses \cup {""},
            related : ArchivePaths \cup {Plan, NoPath},
            archived : ArchivePaths \cup {NoPath},
            facts : Facts, clear : BOOLEAN]

Requests ==
  [do : {"open"}, title : Titles, item : Items \cup {NoItem},
   update : BOOLEAN]
  \cup [do : {"cancel"}, item : Items \cup {NoItem}, keep : BOOLEAN]
  \cup [do : {"writeback"}, phase : PhaseStatuses \ {""},
        item : Items \cup {NoItem}, status : ItemStatuses \cup {""},
        facts : Facts, allow : BOOLEAN]
  \cup [do : {"archive"}, phase : ArchivablePhases \cup {""},
        item : Items \cup {NoItem}, status : ItemStatuses \cup {""},
        facts : Facts, preserve : BOOLEAN]
  \cup [do : {"add"}, item : Items, status : ItemStatuses,
        evidence : BOOLEAN, facts : Facts]
  \cup [do : {"update"}, item : Items, status : ItemStatuses \cup {""},
        evidence : BOOLEAN, facts : Facts, moves : BOOLEAN]
  \cup [do : {"compact"}]

ASSUME LifecycleAssumption ==
  /\ \A p \in Procs : \A c \in Commands[p] : c \in Seq(Requests) /\ c # <<>>
  /\ TailLimit \in Nat /\ NoteLimit \in Nat /\ NoteLimit > 0
  /\ MaxCopy \in Nat \ {0}
  /\ MaxNotes \in Nat /\ MaxTrouble \in Nat
  /\ IsFiniteSet(Items)
  /\ NoItem \notin Items
  /\ Absent \notin ItemTexts
  /\ Absent \notin StateTexts \cup PlanTexts \cup RoadmapTexts
  /\ \A x \in SUBSET (1 .. MaxNotes) : x # Absent
  /\ NoTx \notin Transactions

VARIABLES
  disk,       \* the text of each file
  tx,         \* the transaction that runs
  todo,       \* what is left of the command of each process
  leftovers,  \* the sidecar names taken: <<kind, file, "tmp" or "backup">>
  unrestored, \* files an interrupted rollback left only in their backup
  written,    \* history: how many notes have been written
  trouble     \* history: how many transactions failed or were cut short

files == <<disk, leftovers, unrestored>>
vars == <<files, tx, todo, written, trouble>>

EmptyRoadmap == [items |-> [i \in Items |-> Absent],
                 history |-> [i \in Items |-> NoPath]]

Init ==
  /\ disk = [f \in Files |->
       CASE f = State -> [status |-> "none", phase |-> "", notes |-> {},
                          links |-> {}]
         [] f = Roadmap -> EmptyRoadmap
         [] OTHER -> Absent]
  /\ tx = NoTx
  /\ todo = [p \in Procs |-> <<>>]
  /\ leftovers = {}
  /\ unrestored = {}
  /\ written = 0
  /\ trouble = 0

(***************************************************************************)
(* Transactions.                                                           *)
(***************************************************************************)
Op(file, text) == [file |-> file, text |-> text]
Delete(file) == Op(file, Absent)

\* The files when the first n operations have been done to those of d.
After(d, ops, n) ==
  [f \in Files |->
     IF \E j \in 1 .. n : ops[j].file = f
     THEN ops[CHOOSE j \in 1 .. n : ops[j].file = f].text
     ELSE d[f]]

\* The sidecar names an operation uses; plan names its sidecars so that no
\* left-over one is ever in the way.
Sidecars(kind, op) ==
  {<<kind, op.file, side>> :
     side \in IF kind = "plan" THEN {}
              ELSE IF op.text = Absent THEN {"backup"} ELSE {"backup", "tmp"}}

\* A command has decided what to write: its transaction starts.
Begin(p, kind, ops, rest) ==
  /\ tx = NoTx
  /\ \A j \in DOMAIN ops : Sidecars(kind, ops[j]) \cap leftovers = {}
  /\ tx' = [proc |-> p, kind |-> kind, old |-> disk, ops |-> ops,
            n |-> 0, done |-> 0, rolling |-> FALSE, gap |-> FALSE]
  /\ todo' = [todo EXCEPT ![p] = rest]
  /\ UNCHANGED <<files, written, trouble>>

Running == tx # NoTx /\ ~tx.rolling
RollingBack == tx # NoTx /\ tx.rolling

Install ==
  /\ Running /\ tx.n < Len(tx.ops)
  /\ disk' = After(tx.old, tx.ops, tx.n + 1)
  /\ tx' = [tx EXCEPT !.n = @ + 1, !.done = @ + 1]
  /\ UNCHANGED <<leftovers, unrestored, todo, written, trouble>>

Commit ==
  /\ Running /\ tx.n = Len(tx.ops)
  /\ tx' = NoTx
  /\ UNCHANGED <<files, todo, written, trouble>>

\* An operation raises.  If it got as far as its backup it is taken back
\* like those before it, although its target is still the old one.
Fail ==
  /\ Running /\ tx.n < Len(tx.ops)
  /\ trouble < MaxTrouble
  /\ trouble' = trouble + 1
  /\ \E applied \in {tx.n, tx.n + 1} :
       tx' = [tx EXCEPT !.rolling = TRUE, !.n = applied]
  /\ UNCHANGED <<files, todo, written>>

\* A file that was written is taken away before its backup is moved back.
Remove ==
  /\ RollingBack /\ ~tx.gap /\ tx.n > 0 /\ tx.ops[tx.n].text # Absent
  /\ disk' = [disk EXCEPT ![tx.ops[tx.n].file] = Absent]
  /\ tx' = [tx EXCEPT !.gap = TRUE]
  /\ UNCHANGED <<leftovers, unrestored, todo, written, trouble>>

Restore ==
  /\ RollingBack /\ tx.n > 0
  /\ tx.gap \/ tx.ops[tx.n].text = Absent
  /\ disk' = After(tx.old, tx.ops, tx.n - 1)
  /\ tx' = [tx EXCEPT !.gap = FALSE, !.n = @ - 1]
  /\ UNCHANGED <<leftovers, unrestored, todo, written, trouble>>

\* A failed compaction is a warning, and the command goes on; any other
\* command ends in a refusal.  A sidecar of the operation that raised may stay.
GiveUp ==
  /\ RollingBack /\ tx.n = 0
  /\ \E left \in {{}} \cup {{s} : s \in Sidecars(tx.kind, tx.ops[tx.done + 1])} :
       leftovers' = leftovers \cup left
  /\ tx' = NoTx
  /\ \/ tx.kind = "compact" /\ UNCHANGED todo
     \/ tx.kind # "compact" /\ todo' = [todo EXCEPT ![tx.proc] = <<>>]
  /\ UNCHANGED <<disk, unrestored, written, trouble>>

\* The temporary files not moved yet, and the backups still held.
Held ==
  UNION {{s \in Sidecars(tx.kind, tx.ops[j]) :
            \/ s[3] = "tmp" /\ j > tx.done
            \/ s[3] = "backup" /\ j <= tx.n /\ tx.old[s[2]] # Absent} :
         j \in DOMAIN tx.ops}

\* Before the first operation and after the last there may be none of them.
Crash ==
  /\ tx # NoTx
  /\ trouble < MaxTrouble
  /\ trouble' = trouble + 1
  /\ \/ leftovers' = leftovers \cup Held
     \/ tx.n \in {0, Len(tx.ops)} /\ UNCHANGED leftovers
  /\ unrestored' = IF tx.gap THEN unrestored \cup {tx.ops[tx.n].file}
                             ELSE unrestored
  /\ tx' = NoTx
  /\ todo' = [todo EXCEPT ![tx.proc] = <<>>]
  /\ UNCHANGED <<disk, written>>

(***************************************************************************)
(* The roadmap.                                                            *)
(***************************************************************************)
\* The item the open plan serves.
ActiveItems(d) ==
  IF d[State].status = "active" /\ d[Plan] # Absent
  THEN {d[Plan].item} \ {NoItem} ELSE {}

Done(r) == {i \in Items : r.items[i] # Absent /\ r.items[i].status = "done"}
Evident(r) ==
  {i \in Done(r) : r.items[i].archived # NoPath /\ r.items[i].proved}

\* Done items past the tail become history entries if they have their
\* evidence; an item that is back among the items loses its entry.  Which
\* done items come first in the file is left open.
Refreshed(r) ==
  LET excess == Cardinality(Done(r)) - TailLimit
      Moved(S) == \/ excess <= 0 /\ S = {}
                  \/ excess > 0 /\ Cardinality(S) = excess
                  \/ excess > Cardinality(S) /\ S = Evident(r)
  IN {[items |-> [i \in Items |-> IF i \in S THEN Absent ELSE r.items[i]],
       history |-> [i \in Items |->
         IF i \in S THEN r.items[i].archived
         ELSE IF r.items[i] # Absent THEN NoPath ELSE r.history[i]]] :
      S \in {S \in SUBSET Evident(r) : Moved(S)}}

\* A terminal item no longer points at the plan file.
Retargeted(r, active) ==
  [r EXCEPT !.items = [i \in Items |->
     IF /\ r.items[i] # Absent /\ r.items[i].status \in Terminal
        /\ i \notin active /\ r.items[i].related = Plan
     THEN [r.items[i] EXCEPT !.related = r.items[i].archived]
     ELSE r.items[i]]]

Updated(old, u) ==
  [status |-> IF u.status = "" THEN old.status ELSE u.status,
   related |-> IF u.clear THEN NoPath
               ELSE IF u.related = NoPath THEN old.related ELSE u.related,
   archived |-> IF u.archived = NoPath THEN old.archived ELSE u.archived,
   proved |-> IF u.facts = "" THEN old.proved ELSE u.facts = "settled"]

\* Fault: an item that comes back has only what the request says.
ReplayedAsAsked(entry, u) ==
  [status |-> u.status, related |-> u.related, archived |-> u.archived,
   proved |-> u.facts = "settled"]

\* A compacted item comes back accepted, with the path of its entry.
Replayed(entry, u) ==
  [status |-> IF u.status = "" THEN "accepted" ELSE u.status,
   related |-> u.related,
   archived |-> IF u.archived = NoPath THEN entry ELSE u.archived,
   proved |-> u.facts = "settled"]

\* While a plan is open for an item, no other item changes its status or
\* moves in the queue; plans, evidence and facts may still be recorded.
Permitted(d, i, changes) ==
  ~changes \/ ActiveItems(d) = {} \/ i \in ActiveItems(d)

Put(d, r, i, text) ==
  {Retargeted(new, ActiveItems(d)) :
     new \in Refreshed([r EXCEPT !.items[i] = text])}

\* The roadmaps an update may leave: none when it is refused.
Changed(d, u) ==
  LET r == d[Roadmap]
      old == r.items[u.item]
      entry == r.history[u.item]
  IN IF u.item = NoItem THEN {r}
     ELSE IF r = Absent THEN {}
     ELSE IF old # Absent
     THEN IF Permitted(d, u.item, Updated(old, u).status # old.status)
          THEN Put(d, r, u.item, Updated(old, u)) ELSE {}
     ELSE IF /\ entry # NoPath /\ d[entry] # Absent
             /\ u.status \in {"", "accepted", "active"}
             /\ Permitted(d, u.item, TRUE)
     THEN Put(d, r, u.item, Replayed(entry, u)) ELSE {}

Update(item, status, related, archived, facts, clear) ==
  [item |-> item, status |-> status, related |-> related,
   archived |-> archived, facts |-> facts, clear |-> clear]

\* A write that would change nothing is left out of the transaction.
Write(d, file, text) == IF d[file] = text THEN <<>> ELSE <<Op(file, text)>>

(***************************************************************************)
(* The commands.  A process that is done takes a new one; the requests of  *)
(* a transition are decided one by one, on the files as they then are.     *)
(***************************************************************************)
Pending(p) == IF todo[p] = <<>> THEN Commands[p] ELSE {todo[p]}
Compaction == <<[do |-> "compact"]>>

Asked(p, do, c) == c \in Pending(p) /\ Head(c).do = do /\ disk[State] # Absent

\* A plan is open and is to be replaced, or none is.
Openable(r) ==
  IF r.update THEN disk[State].status = "active" /\ disk[Plan] # Absent
              ELSE disk[State].status = "none" /\ disk[Plan] = Absent

\* The item is live, and next to be worked on.
Eligible(item) ==
  /\ disk[Roadmap] # Absent
  /\ disk[Roadmap].items[item] # Absent
  /\ disk[Roadmap].items[item].status \in {"accepted", "active"}

Open(p) ==
  \E c \in Pending(p) :
    /\ Asked(p, "open", c)
    /\ LET r == Head(c)
           state == disk[State]
           new == [title |-> r.title, item |-> r.item,
                   phase |-> "pending"]
       IN /\ Openable(r)
          /\ r.item # NoItem => Eligible(r.item)
          /\ \E map \in Changed(disk, Update(r.item, "", Plan, NoPath,
                                             "", FALSE)) :
               Begin(p, "plan",
                 <<Op(Plan, new),
                   Op(State, [state EXCEPT !.status = "active",
                                           !.phase = "pending"])>>
                 \o (IF r.item = NoItem THEN <<>>
                     ELSE Write(disk, Roadmap, Retargeted(map, {r.item}))),
                 Compaction \o Tail(c))

\* Fault: the plan file goes before the state.
CancelOpsPlanFirst(state, delete, map) ==
  delete \o <<Op(State, [state EXCEPT !.status = "none", !.phase = ""])>>
  \o Write(disk, Roadmap, map)

CancelOps(state, delete, map) ==
  <<Op(State, [state EXCEPT !.status = "none", !.phase = ""])>> \o delete
  \o Write(disk, Roadmap, map)

\* An activation that nothing has been done for yet.
Cancellable(r) ==
  /\ disk[State].status = "active" /\ disk[State].phase \in {"", "pending"}
  /\ r.keep \/ disk[Plan] # Absent

Cancel(p) ==
  \E c \in Pending(p) :
    /\ Asked(p, "cancel", c)
    /\ LET r == Head(c)
           state == disk[State]
       IN /\ Cancellable(r)
          /\ \E map \in Changed(disk, Update(r.item, "accepted", NoPath,
                                             NoPath, "", TRUE)) :
               Begin(p, "plan-cancel",
                 CancelOps(state, IF r.keep THEN <<>> ELSE <<Delete(Plan)>>,
                           map),
                 Tail(c))

\* The state would be compacted: enough notes, and a free name.
FreeHistory(d) == {n \in 1 .. MaxCopy : d[History(n)] = Absent}
WouldCompact(d) ==
  Cardinality(d[State].notes) > NoteLimit /\ FreeHistory(d) # {}

\* Without leave a writeback does nothing that ends in a compaction.
Allowed(r) == WouldCompact(disk) => r.allow

Writeback(p) ==
  \E c \in Pending(p) :
    /\ Asked(p, "writeback", c)
    /\ LET r == Head(c)
           state == disk[State]
           plan == disk[Plan]
           new == [state EXCEPT !.phase = r.phase]
       IN /\ Allowed(r)
          /\ r.item # NoItem => plan # Absent
          /\ \E map \in Changed(disk, Update(r.item, r.status, Plan, NoPath,
                                             r.facts, FALSE)) :
               Begin(p, "writeback",
                 Write(disk, State, new)
                 \o (IF plan = Absent THEN <<>>
                     ELSE Write(disk, Plan, [plan EXCEPT !.phase = r.phase]))
                 \o (IF r.item = NoItem THEN <<>>
                     ELSE Write(disk, Roadmap, map)),
                 (IF new = state THEN <<>> ELSE Compaction) \o Tail(c))

\* The phase that a status of the item stands for if its plan did not succeed.
Unsuccessful == [blocked |-> "blocked", deferred |-> "deferred",
                 rejected |-> "abandoned", superseded |-> "skipped"]

\* The phase that decides whether the plan may be archived.
FinalPhase(r, state) ==
  IF r.status \in DOMAIN Unsuccessful THEN Unsuccessful[r.status]
  ELSE IF r.phase # "" THEN r.phase ELSE state.phase

\* The phase the plan is archived with: what was asked for comes first.
WrittenPhase(r, state) == IF r.phase # "" THEN r.phase ELSE FinalPhase(r, state)

\* Fault: an archive that is there already is written over.
TargetsTaken(r, text) == {Archive(text.title, 1)}

\* Where the plan may go: the name of the day if nothing is there or what is
\* there is this plan, else the next free number if that was asked for.
Targets(r, text) ==
  LET there == disk[Archive(text.title, 1)]
      free == {n \in 2 .. MaxCopy :
                 disk[Archive(text.title, n)] = Absent}
  IN IF there \in {Absent, text, disk[Plan]}
     THEN {Archive(text.title, 1)}
     ELSE IF r.preserve
     THEN {Archive(text.title, n) :
             n \in {n \in free : \A m \in free : n <= m}}
     ELSE {}

\* Fault: the plan is deleted before it is archived.
ArchiveOpsDeleteFirst(state, phase, a, text, roadmap) ==
  <<Op(State, [state EXCEPT !.status = "none", !.phase = phase]),
    Delete(Plan)>> \o Write(disk, a, text) \o roadmap

\* Fault: the roadmap names the archive before it is written.
ArchiveOpsRoadmapFirst(state, phase, a, text, roadmap) ==
  <<Op(State, [state EXCEPT !.status = "none", !.phase = phase])>>
  \o roadmap \o Write(disk, a, text) \o <<Delete(Plan)>>

ArchiveOps(state, phase, a, text, roadmap) ==
  <<Op(State, [state EXCEPT !.status = "none", !.phase = phase])>>
  \o Write(disk, a, text) \o <<Delete(Plan)>> \o roadmap

Archivable(r) ==
  /\ disk[State].status = "active" /\ disk[Plan] # Absent
  /\ FinalPhase(r, disk[State]) \in ArchivablePhases

ArchivePlan(p) ==
  \E c \in Pending(p) :
    /\ Asked(p, "archive", c)
    /\ Archivable(Head(c))
    /\ LET r == Head(c)
           state == disk[State]
           phase == WrittenPhase(r, state)
           text == [disk[Plan] EXCEPT !.phase = phase]
           status == IF r.status = "" THEN "done" ELSE r.status
       IN \E a \in Targets(r, text) :
          \E map \in Changed(disk, Update(r.item, status, a, a, r.facts,
                                          FALSE)) :
            Begin(p, "writeback",
              ArchiveOps(state, phase, a, text,
                IF r.item = NoItem THEN <<>>
                ELSE Write(disk, Roadmap, Retargeted(map, {}))),
              Compaction \o Tail(c))

\* roadmap --action add or update: a path it is given has to be there.
Given(r) ==
  IF r.evidence THEN {a \in ArchivePaths : disk[a] # Absent} ELSE {NoPath}

AddItem(p) ==
  \E c \in Pending(p) :
    /\ Asked(p, "add", c)
    /\ LET r == Head(c)
           roadmap == IF disk[Roadmap] = Absent THEN EmptyRoadmap
                      ELSE disk[Roadmap]
       IN /\ roadmap.items[r.item] = Absent
          /\ Permitted(disk, r.item, TRUE)
          /\ \E a \in Given(r) :
             \E map \in Put(disk, roadmap, r.item,
                            [status |-> r.status, related |-> NoPath,
                             archived |-> a, proved |-> r.facts = "settled"]) :
               Begin(p, "roadmap", Write(disk, Roadmap, map), Tail(c))

UpdateItem(p) ==
  \E c \in Pending(p) :
    /\ Asked(p, "update", c)
    /\ LET r == Head(c)
       IN /\ r.moves => Permitted(disk, r.item, TRUE)
          /\ \E a \in Given(r) :
             \E map \in Changed(disk, Update(r.item, r.status, NoPath, a,
                                             r.facts, FALSE)) :
               Begin(p, "roadmap", Write(disk, Roadmap, map), Tail(c))

\* Fault: the state lets go of its notes first.
CompactOpsStateFirst(h, old, new) == <<Op(State, new), Op(h, old)>>

\* The history archive goes first.
CompactOps(h, old, new) == <<Op(h, old), Op(State, new)>>

\* The state keeps the latest note and a link to the archive.
Compact(p) ==
  \E c \in Pending(p) :
    /\ Asked(p, "compact", c)
    /\ WouldCompact(disk)
    /\ LET state == disk[State]
           kept == {n \in state.notes : \A m \in state.notes : m <= n}
           n == CHOOSE n \in FreeHistory(disk) :
                  \A m \in FreeHistory(disk) : n <= m
           h == History(n)
       IN Begin(p, "compact",
            CompactOps(h, state.notes \ kept,
              [state EXCEPT !.notes = kept, !.links = @ \cup {h}]),
            Tail(c))

\* A compaction that is not due or cannot be done lets the command go on.
SkipCompaction(p) ==
  /\ tx = NoTx
  /\ todo[p] # <<>> /\ Head(todo[p]).do = "compact"
  /\ todo' = [todo EXCEPT ![p] = Tail(@)]
  /\ UNCHANGED <<files, tx, written, trouble>>

\* The next request is refused, here or by a gate that is not modelled, or
\* the process dies between two transactions: the rest is not done.
Stop(p) ==
  /\ tx = NoTx
  /\ todo[p] # <<>>
  /\ todo' = [todo EXCEPT ![p] = <<>>]
  /\ UNCHANGED <<files, tx, written, trouble>>

(***************************************************************************)
(* The environment.                                                        *)
(***************************************************************************)
\* A person adds a note to the project state.
Note ==
  /\ tx = NoTx /\ written < MaxNotes /\ disk[State] # Absent
  /\ written' = written + 1
  /\ disk' = [disk EXCEPT ![State].notes = @ \cup {written + 1}]
  /\ UNCHANGED <<tx, todo, leftovers, unrestored, trouble>>

Command(p) ==
  \/ Open(p) \/ Cancel(p) \/ Writeback(p) \/ ArchivePlan(p)
  \/ AddItem(p) \/ UpdateItem(p) \/ Compact(p)
  \/ SkipCompaction(p) \/ Stop(p)
Transaction ==
  Install \/ Commit \/ Fail \/ Remove \/ Restore \/ GiveUp \/ Crash
Next == (\E p \in Procs : Command(p)) \/ Transaction \/ Note

Spec == Init /\ [][Next]_vars

(***************************************************************************)
(* Properties.                                                             *)
(***************************************************************************)
DiskOK(d) ==
  DOMAIN d = Files /\ \A f \in Files : d[f] \in FileTexts(f) \cup {Absent}
TxOK ==
  /\ tx.proc \in Procs /\ tx.kind \in Kinds /\ DiskOK(tx.old)
  /\ \A j \in DOMAIN tx.ops :
       /\ tx.ops[j].file \in Files
       /\ tx.ops[j].text \in FileTexts(tx.ops[j].file) \cup {Absent}
  /\ tx.n \in 0 .. Len(tx.ops) /\ tx.done \in 0 .. Len(tx.ops)
  /\ tx.rolling \in BOOLEAN /\ tx.gap \in BOOLEAN

\* Types.
TypeOK ==
  /\ DiskOK(disk)
  /\ tx # NoTx => TxOK
  /\ \A p \in Procs : \A j \in DOMAIN todo[p] : todo[p][j] \in Requests
  /\ leftovers \subseteq Kinds \X Files \X {"tmp", "backup"}
  /\ unrestored \subseteq Files
  /\ written \in 0 .. MaxNotes /\ trouble \in 0 .. MaxTrouble

\* What a rollback has taken away and not put back; it is in a backup.
Missing ==
  unrestored \cup (IF tx # NoTx /\ tx.gap THEN {tx.ops[tx.n].file} ELSE {})
There(f) == disk[f] # Absent \/ f \in Missing

\* Whenever the project state says that a plan is active, in the middle of a
\* transaction and after a crash too, the plan file is there.
ActivePlanIsThere ==
  disk[State] # Absent /\ disk[State].status = "active" => There(Plan)

\* Every archive the roadmap names as the evidence of an item, live or
\* compacted, exists: no transaction is cut short between naming it and
\* writing it, and none deletes it.
EvidenceIsThere ==
  disk[Roadmap] # Absent =>
    \A i \in Items :
      /\ disk[Roadmap].history[i] # NoPath => There(disk[Roadmap].history[i])
      /\ disk[Roadmap].items[i] # Absent =>
           LET item == disk[Roadmap].items[i]
           IN /\ item.archived # NoPath => There(item.archived)
              /\ item.related \in ArchivePaths => There(item.related)

\* Compaction loses no note, wherever it is cut short: each is in the state
\* or in a history archive the state links to.
NotesAreKept ==
  disk[State] # Absent =>
    /\ \A h \in disk[State].links : disk[h] # Absent
    /\ 1 .. written \subseteq
         disk[State].notes \cup UNION {disk[h] : h \in disk[State].links}

\* The same plan, whatever its phase.
SamePlan(a, b) == a.title = b.title /\ a.item = b.item

\* When the plan file goes away by writeback, the plan is in an archive: the
\* file is not deleted before the archive is written, nor under a name that
\* another plan keeps.
PlansAreArchived ==
  [][/\ tx # NoTx /\ ~tx.rolling /\ tx.kind = "writeback"
     /\ disk[Plan] # Absent /\ disk'[Plan] = Absent
     => \E a \in ArchivePaths :
          disk[a] # Absent /\ SamePlan(disk[a], disk[Plan])]_vars

\* An archive is never overwritten by another plan, however often plans of
\* the same title are archived on a day, and nothing deletes it but the
\* rollback of the transaction that wrote it.
ArchivesAreKept ==
  [][\A a \in ArchivePaths :
       disk[a] # Absent =>
         \/ disk'[a] # Absent /\ SamePlan(disk[a], disk'[a])
         \/ /\ tx # NoTx /\ tx.rolling
            /\ \E j \in DOMAIN tx.ops : tx.ops[j].file = a]_vars
=============================================================================
