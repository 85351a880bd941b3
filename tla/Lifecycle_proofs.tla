-------------------------- MODULE Lifecycle_proofs --------------------------
(***************************************************************************)
(* The files of a plan's life, for any processes, titles, items, commands  *)
(* and bounds: no plan, archive, evidence or note is lost, wherever a      *)
(* transaction fails or is cut short.  Every state of the disk during a    *)
(* transaction is the old files with the first operations done, or that    *)
(* with one file away; so it is enough that a command decides on           *)
(* operations each of whose prefixes leaves good files.                    *)
(***************************************************************************)
EXTENDS Lifecycle, SequenceTheorems, WellFoundedInduction, TLAPS

(***************************************************************************)
(* Good files.                                                             *)
(***************************************************************************)
\* f is there, or away with a backup (U).
Kept(d, U, f) == d[f] # Absent \/ f \in U

ActiveOK(d, U) ==
  d[State] # Absent /\ d[State].status = "active" => Kept(d, U, Plan)

\* The roadmap r names the archive a.
Naming(r, a) ==
  \E i \in Items :
    \/ r.history[i] = a
    \/ /\ r.items[i] # Absent
       /\ r.items[i].archived = a \/ r.items[i].related = a

EvidenceOK(d, U) ==
  d[Roadmap] # Absent =>
    \A a \in ArchivePaths : Naming(d[Roadmap], a) => Kept(d, U, a)

NotesOK(d, w) ==
  d[State] # Absent =>
    /\ \A h \in d[State].links : d[h] # Absent
    /\ 1 .. w \subseteq d[State].notes \cup UNION {d[h] : h \in d[State].links}

Good(d, U, w) ==
  /\ d \in [Files -> Texts] /\ DiskOK(d)
  /\ ActiveOK(d, U) /\ EvidenceOK(d, U) /\ NotesOK(d, w)

(***************************************************************************)
(* What a command may decide to write.                                     *)
(***************************************************************************)
Operations == [file : Files, text : Texts]
Typed(ops) ==
  /\ ops \in Seq(Operations)
  /\ \A j \in 1 .. Len(ops) : ops[j].text \in FileTexts(ops[j].file) \cup {Absent}
Distinct(ops) ==
  \A i, j \in 1 .. Len(ops) : ops[i].file = ops[j].file => i = j

\* A history archive is new; an archive is written, over nothing but itself.
Respectful(d, ops) ==
  \A j \in 1 .. Len(ops) :
    /\ ops[j].file \in HistoryPaths => d[ops[j].file] = Absent
    /\ ops[j].file \in ArchivePaths =>
         /\ ops[j].text # Absent
         /\ d[ops[j].file] # Absent =>
              SamePlan(d[ops[j].file], ops[j].text)

\* A plan is archived before writeback deletes it.
ArchivedFirst(d, ops, kind) ==
  kind = "writeback" =>
    \A j \in 1 .. Len(ops) :
      ops[j].file = Plan /\ ops[j].text = Absent =>
        \E a \in ArchivePaths :
          /\ After(d, ops, j - 1)[a] # Absent
          /\ SamePlan(After(d, ops, j - 1)[a], d[Plan])

\* No operation breaks what those before it leave.
ActiveFollows(d, U, ops, j) ==
  /\ ops[j].file = State =>
       /\ ops[j].text # Absent
       /\ ops[j].text.status = "active" =>
            \/ \E k \in 1 .. j - 1 : ops[k].file = Plan /\ ops[k].text # Absent
            \/ /\ Kept(d, U, Plan)
               /\ \A k \in 1 .. Len(ops) :
                    ops[k].file = Plan => ops[k].text # Absent
  /\ ops[j].file = Plan /\ ops[j].text = Absent =>
       \E k \in 1 .. j - 1 :
         ops[k].file = State /\ ops[k].text.status # "active"

EvidenceFollows(d, U, ops, j) ==
  ops[j].file = Roadmap =>
    /\ ops[j].text # Absent
    /\ \A a \in ArchivePaths :
         Naming(ops[j].text, a) =>
           Kept(d, U, a) \/ \E k \in 1 .. j - 1 : ops[k].file = a

NotesFollow(d, ops, j) ==
  ops[j].file = State =>
    /\ d[State] # Absent /\ ops[j].text # Absent
    /\ \/ /\ ops[j].text.notes = d[State].notes
          /\ ops[j].text.links = d[State].links
       \/ \E k \in 1 .. j - 1 :
            /\ ops[k].file \in HistoryPaths /\ ops[k].text # Absent
            /\ ops[j].text.links = d[State].links \cup {ops[k].file}
            /\ d[State].notes \subseteq ops[j].text.notes \cup ops[k].text

Careful(d, U, ops) ==
  /\ Typed(ops) /\ Distinct(ops) /\ Respectful(d, ops)
  /\ \A j \in 1 .. Len(ops) :
       /\ ActiveFollows(d, U, ops, j)
       /\ EvidenceFollows(d, U, ops, j)
       /\ NotesFollow(d, ops, j)

Decided(d, ops, kind, U, w) ==
  /\ Typed(ops) /\ Distinct(ops)
  /\ \A j \in 0 .. Len(ops) : Good(After(d, ops, j), U, w)
  /\ Respectful(d, ops)
  /\ ArchivedFirst(d, ops, kind)

\* Where the transaction is, and the disk with it.
Position ==
  /\ ~tx.rolling =>
       /\ tx.n = tx.done /\ tx.n \in 0 .. Len(tx.ops) /\ ~tx.gap
       /\ disk = After(tx.old, tx.ops, tx.n)
  /\ tx.rolling =>
       /\ tx.done \in 0 .. Len(tx.ops) - 1 /\ tx.n \in 0 .. tx.done + 1
       /\ ~tx.gap =>
            \/ disk = After(tx.old, tx.ops, tx.n)
            \/ tx.n > 0 /\ disk = After(tx.old, tx.ops, tx.n - 1)
       /\ tx.gap =>
            /\ tx.n > 0
            /\ disk = [After(tx.old, tx.ops, tx.n - 1)
                         EXCEPT ![tx.ops[tx.n].file] = Absent]

OtherTypes ==
  /\ todo \in [Procs -> Seq(Requests)]
  /\ leftovers \subseteq Kinds \X Files \X {"tmp", "backup"}
  /\ unrestored \subseteq Files
  /\ written \in 0 .. MaxNotes /\ trouble \in 0 .. MaxTrouble

IInv ==
  /\ OtherTypes
  /\ tx = NoTx => Good(disk, unrestored, written)
  /\ tx # NoTx =>
       /\ tx \in Transactions
       /\ Decided(tx.old, tx.ops, tx.kind, unrestored, written)
       /\ Position

(***************************************************************************)
(* Files.                                                                  *)
(***************************************************************************)
LEMMA FilesDiffer ==
  /\ State \in Files /\ Plan \in Files /\ Roadmap \in Files
  /\ ArchivePaths \subseteq Files /\ HistoryPaths \subseteq Files
  /\ State # Plan /\ State # Roadmap /\ Plan # Roadmap
  /\ {State, Plan, Roadmap} \cap ArchivePaths = {}
  /\ {State, Plan, Roadmap} \cap HistoryPaths = {}
  /\ ArchivePaths \cap HistoryPaths = {}
  /\ Plan # NoPath /\ NoPath \notin ArchivePaths
<1>1. State[1] = "state" /\ Plan[1] = "plan" /\ Roadmap[1] = "roadmap"
  BY DEF State, Plan, Roadmap
<1>2. \A a \in ArchivePaths : a[1] = "archive" /\ Len(a) = 3
  BY DEF ArchivePaths, Archive
<1>3. \A h \in HistoryPaths : h[1] = "history"
  BY DEF HistoryPaths, History
<1>4. Len(NoPath) = 0 /\ Len(Plan) = 1 BY DEF NoPath, Plan
<1> QED BY <1>1, <1>2, <1>3, <1>4 DEF Files

LEMMA TextsOfFiles ==
  /\ FileTexts(State) = StateTexts /\ FileTexts(Plan) = PlanTexts
  /\ FileTexts(Roadmap) = RoadmapTexts
  /\ \A a \in ArchivePaths : FileTexts(a) = PlanTexts
  /\ \A h \in HistoryPaths : FileTexts(h) = SUBSET (1 .. MaxNotes)
BY FilesDiffer DEF FileTexts

LEMMA TextsAreThere ==
  \A f \in Files : \A x \in FileTexts(f) : x # Absent /\ x \in Texts
<1>1. \A f \in Files : \A x \in FileTexts(f) : x # Absent
  BY LifecycleAssumption, FilesDiffer, TextsOfFiles DEF Files
<1>2. \A f \in Files : \A x \in FileTexts(f) : x \in Texts BY DEF Texts
<1> QED BY <1>1, <1>2

(***************************************************************************)
(* The files after some operations.                                        *)
(***************************************************************************)
LEMMA AfterDone ==
  ASSUME NEW d, NEW ops, Distinct(ops), NEW n \in 0 .. Len(ops),
         NEW j \in 1 .. n, ops[j].file \in Files
  PROVE  After(d, ops, n)[ops[j].file] = ops[j].text
<1> DEFINE f == ops[j].file
           k == CHOOSE k \in 1 .. n : ops[k].file = f
<1>1. k \in 1 .. n /\ ops[k].file = f OBVIOUS
<1>2. k = j BY <1>1 DEF Distinct
<1> QED BY <1>2 DEF After

LEMMA AfterElse ==
  ASSUME NEW d, NEW ops, NEW n \in Nat, NEW f \in Files,
         \A j \in 1 .. n : ops[j].file # f
  PROVE  After(d, ops, n)[f] = d[f]
BY DEF After

LEMMA AfterNone ==
  ASSUME NEW d \in [Files -> Texts], NEW ops
  PROVE  After(d, ops, 0) = d
BY DEF After

\* The operation n changes its own file only, which was not changed before.
OneMore(d, ops, n) ==
  /\ \A f \in Files :
       f # ops[n].file => After(d, ops, n)[f] = After(d, ops, n - 1)[f]
  /\ ops[n].file \in Files =>
       After(d, ops, n - 1)[ops[n].file] = d[ops[n].file]

LEMMA AfterStep ==
  \A d, ops : \A n \in 1 .. Len(ops) :
    Distinct(ops) /\ Len(ops) \in Nat => OneMore(d, ops, n)
<1> SUFFICES ASSUME NEW d, NEW ops, Distinct(ops), NEW n \in 1 .. Len(ops),
                    Len(ops) \in Nat
             PROVE  OneMore(d, ops, n)
  OBVIOUS
<1>1. ASSUME NEW f \in Files, f # ops[n].file
      PROVE  After(d, ops, n)[f] = After(d, ops, n - 1)[f]
  <2>1. CASE \E j \in 1 .. n - 1 : ops[j].file = f
    <3>1. PICK j \in 1 .. n - 1 : ops[j].file = f BY <2>1
    <3>2. After(d, ops, n)[f] = ops[j].text
      BY <1>1, <3>1, AfterDone, j \in 1 .. n, n \in 0 .. Len(ops)
    <3>3. After(d, ops, n - 1)[f] = ops[j].text
      BY <1>1, <3>1, AfterDone, n - 1 \in 0 .. Len(ops)
    <3> QED BY <3>2, <3>3
  <2>2. CASE \A j \in 1 .. n - 1 : ops[j].file # f
    <3>1. \A j \in 1 .. n : ops[j].file # f BY <1>1, <2>2
    <3> QED BY <2>2, <3>1, AfterElse, n - 1 \in Nat, n \in Nat
  <2> QED BY <2>1, <2>2
<1>2. ASSUME ops[n].file \in Files
      PROVE  After(d, ops, n - 1)[ops[n].file] = d[ops[n].file]
  <2>1. \A j \in 1 .. n - 1 : ops[j].file # ops[n].file
    BY DEF Distinct
  <2> QED BY <1>2, <2>1, AfterElse, n - 1 \in Nat
<1> QED BY <1>1, <1>2 DEF OneMore

\* What a file holds after n operations: its operation's text or its own.
LEMMA AfterCases ==
  ASSUME NEW d, NEW ops, Typed(ops), Distinct(ops), NEW n \in 0 .. Len(ops),
         NEW f \in Files
  PROVE  \/ /\ \A j \in 1 .. n : ops[j].file # f
            /\ After(d, ops, n)[f] = d[f]
         \/ \E j \in 1 .. n :
              ops[j].file = f /\ After(d, ops, n)[f] = ops[j].text
<1>1. Len(ops) \in Nat BY DEF Typed
<1>2. CASE \A j \in 1 .. n : ops[j].file # f
  BY <1>1, <1>2, AfterElse, n \in Nat
<1>3. CASE \E j \in 1 .. n : ops[j].file = f
  <2>1. PICK j \in 1 .. n : ops[j].file = f BY <1>3
  <2> QED BY <2>1, AfterDone
<1> QED BY <1>2, <1>3

LEMMA AfterTypes ==
  ASSUME NEW d \in [Files -> Texts], DiskOK(d),
         NEW ops, Typed(ops), Distinct(ops), NEW n \in 0 .. Len(ops)
  PROVE  /\ After(d, ops, n) \in [Files -> Texts]
         /\ DiskOK(After(d, ops, n))
<1>1. \A f \in Files :
        After(d, ops, n)[f] \in FileTexts(f) \cup {Absent}
  <2> TAKE f \in Files
  <2>1. d[f] \in FileTexts(f) \cup {Absent} BY DEF DiskOK
  <2>2. Len(ops) \in Nat BY DEF Typed
  <2>3. \A j \in 1 .. n :
          ops[j].text \in FileTexts(ops[j].file) \cup {Absent}
    BY <2>2 DEF Typed
  <2>4. \/ After(d, ops, n)[f] = d[f]
        \/ \E j \in 1 .. n :
             ops[j].file = f /\ After(d, ops, n)[f] = ops[j].text
    BY AfterCases
  <2> QED BY <2>1, <2>3, <2>4
<1>2. \A f \in Files : After(d, ops, n)[f] \in Texts
  BY <1>1, TextsAreThere DEF Texts
<1>3. After(d, ops, n) = [f \in Files |-> After(d, ops, n)[f]]
  BY DEF After
<1> QED BY <1>1, <1>2, <1>3 DEF DiskOK

LEMMA CarefulActive ==
  ASSUME NEW d, NEW U, NEW ops, Careful(d, U, ops), ActiveOK(d, U),
         NEW n \in 0 .. Len(ops)
  PROVE  ActiveOK(After(d, ops, n), U)
<1> DEFINE e == After(d, ops, n)
<1>1. SUFFICES ASSUME e[State] # Absent, e[State].status = "active",
                      Plan \notin U
               PROVE  e[Plan] # Absent
  BY DEF ActiveOK, Kept
<1>2. Typed(ops) /\ Distinct(ops) /\ Len(ops) \in Nat
  BY DEF Careful, Typed
<1>3. \A j \in 1 .. Len(ops) : ActiveFollows(d, U, ops, j) BY DEF Careful
<1>4. State \in Files /\ Plan \in Files BY FilesDiffer
<1>5. \/ e[Plan] = d[Plan] /\ \A j \in 1 .. n : ops[j].file # Plan
      \/ \E j \in 1 .. n : ops[j].file = Plan /\ e[Plan] = ops[j].text
  BY <1>2, <1>4, AfterCases
<1>6. \/ /\ e[State] = d[State]
         /\ \A j \in 1 .. n : ops[j].file # State
      \/ \E j \in 1 .. n : ops[j].file = State /\ e[State] = ops[j].text
  BY <1>2, <1>4, AfterCases
<1> HIDE DEF e
<1>7. CASE e[State] = d[State] /\ \A j \in 1 .. n : ops[j].file # State
  <2>1. d[Plan] # Absent BY <1>1, <1>7 DEF ActiveOK, Kept
  <2>2. ASSUME NEW j \in 1 .. n, ops[j].file = Plan, ops[j].text = Absent
        PROVE  FALSE
    <3>1. j \in 1 .. Len(ops) BY <1>2
    <3>2. \E k \in 1 .. j - 1 : ops[k].file = State
      BY <2>2, <3>1, <1>3 DEF ActiveFollows
    <3> QED BY <3>2, <1>7
  <2> QED BY <2>1, <2>2, <1>5
<1>8. ASSUME NEW i \in 1 .. n, ops[i].file = State, e[State] = ops[i].text
      PROVE  e[Plan] # Absent
  <2>1. i \in 1 .. Len(ops) BY <1>2
  <2>2. \/ \E k \in 1 .. i - 1 : ops[k].file = Plan /\ ops[k].text # Absent
        \/ /\ Kept(d, U, Plan)
           /\ \A k \in 1 .. Len(ops) :
                ops[k].file = Plan => ops[k].text # Absent
    BY <1>1, <1>3, <1>8, <2>1 DEF ActiveFollows
  <2>3. ASSUME NEW k \in 1 .. i - 1, ops[k].file = Plan,
               ops[k].text # Absent
        PROVE  e[Plan] # Absent
    <3>1. k \in 1 .. n /\ k \in 1 .. Len(ops) BY <1>2
    <3>2. \A j \in 1 .. n : ops[j].file = Plan => j = k
      BY <1>2, <2>3, <3>1 DEF Distinct
    <3> QED BY <1>5, <2>3, <3>1, <3>2
  <2>4. ASSUME Kept(d, U, Plan),
               \A k \in 1 .. Len(ops) :
                 ops[k].file = Plan => ops[k].text # Absent
        PROVE  e[Plan] # Absent
    <3>1. d[Plan] # Absent BY <1>1, <2>4 DEF Kept
    <3>2. \A j \in 1 .. n : ops[j].file = Plan => ops[j].text # Absent
      BY <1>2, <2>4
    <3> QED BY <1>5, <3>1, <3>2
  <2> QED BY <2>2, <2>3, <2>4
<1> QED BY <1>6, <1>7, <1>8

LEMMA CarefulEvidence ==
  ASSUME NEW d, NEW U, NEW ops, Careful(d, U, ops), EvidenceOK(d, U),
         NEW n \in 0 .. Len(ops)
  PROVE  EvidenceOK(After(d, ops, n), U)
<1> DEFINE e == After(d, ops, n)
<1>1. SUFFICES ASSUME e[Roadmap] # Absent, NEW a \in ArchivePaths,
                      Naming(e[Roadmap], a), a \notin U
               PROVE  e[a] # Absent
  BY DEF EvidenceOK, Kept
<1>2. Typed(ops) /\ Distinct(ops) /\ Len(ops) \in Nat
  BY DEF Careful, Typed
<1>3. a \in Files /\ Roadmap \in Files BY FilesDiffer
<1>4. \/ e[a] = d[a] /\ \A j \in 1 .. n : ops[j].file # a
      \/ \E j \in 1 .. n : ops[j].file = a /\ e[a] = ops[j].text
  <2>1. \A f \in Files :
          \/ e[f] = d[f] /\ \A j \in 1 .. n : ops[j].file # f
          \/ \E j \in 1 .. n : ops[j].file = f /\ e[f] = ops[j].text
    BY <1>2, AfterCases
  <2> QED BY <1>3, <2>1
<1>5. \A j \in 1 .. n : ops[j].file = a => ops[j].text # Absent
  BY <1>2 DEF Careful, Respectful
<1>6. \/ e[Roadmap] = d[Roadmap]
      \/ \E j \in 1 .. n : ops[j].file = Roadmap /\ e[Roadmap] = ops[j].text
  BY <1>2, <1>3, AfterCases
<1> HIDE DEF e
<1>7. CASE e[Roadmap] = d[Roadmap]
  <2>1. d[a] # Absent BY <1>1, <1>7 DEF EvidenceOK, Kept
  <2> QED BY <2>1, <1>4, <1>5
<1>8. ASSUME NEW j \in 1 .. n, ops[j].file = Roadmap,
             e[Roadmap] = ops[j].text
      PROVE  e[a] # Absent
  <2>1. j \in 1 .. Len(ops) BY <1>2
  <2>2. EvidenceFollows(d, U, ops, j) BY <2>1 DEF Careful
  <2>3. d[a] # Absent \/ \E k \in 1 .. j - 1 : ops[k].file = a
    BY <1>1, <1>8, <2>2 DEF EvidenceFollows, Kept
  <2>4. (\E k \in 1 .. j - 1 : ops[k].file = a)
          => \E k \in 1 .. n : ops[k].file = a
    OBVIOUS
  <2> QED BY <2>3, <2>4, <1>4, <1>5
<1> QED BY <1>6, <1>7, <1>8

LEMMA CarefulHistory ==
  ASSUME NEW d, NEW U, NEW ops, Careful(d, U, ops),
         NEW n \in 0 .. Len(ops), NEW h \in HistoryPaths, d[h] # Absent
  PROVE  After(d, ops, n)[h] = d[h]
<1>1. Typed(ops) /\ Distinct(ops) /\ Len(ops) \in Nat
  BY DEF Careful, Typed
<1>2. \A j \in 1 .. n : ops[j].file # h
  BY <1>1 DEF Careful, Respectful
<1>3. h \in Files BY FilesDiffer
<1>4. n \in Nat BY <1>1
<1> QED BY <1>2, <1>3, <1>4, AfterElse

LEMMA CarefulNotes ==
  ASSUME NEW d, NEW U, NEW ops, Careful(d, U, ops), DiskOK(d), NEW w,
         NotesOK(d, w), NEW n \in 0 .. Len(ops)
  PROVE  NotesOK(After(d, ops, n), w)
<1> DEFINE e == After(d, ops, n)
<1>1. SUFFICES ASSUME e[State] # Absent
               PROVE  /\ \A h \in e[State].links : e[h] # Absent
                      /\ 1 .. w \subseteq e[State].notes
                                \cup UNION {e[h] : h \in e[State].links}
  BY DEF NotesOK
<1>2. Typed(ops) /\ Distinct(ops) /\ Len(ops) \in Nat
  BY DEF Careful, Typed
<1>3. State \in Files BY FilesDiffer
<1>4. \A h \in HistoryPaths : d[h] # Absent => e[h] = d[h]
  BY CarefulHistory
<1>5. d[State] # Absent =>
        /\ d[State].links \subseteq HistoryPaths
        /\ \A h \in d[State].links : e[h] = d[h] /\ d[h] # Absent
  <2>1. d[State] # Absent => d[State] \in StateTexts
    BY <1>3, TextsOfFiles DEF DiskOK
  <2> QED BY <2>1, <1>4 DEF StateTexts, NotesOK
<1>6. \/ e[State] = d[State]
      \/ \E j \in 1 .. n : ops[j].file = State /\ e[State] = ops[j].text
  BY <1>2, <1>3, AfterCases
<1>7. \A j \in 1 .. n : e[ops[j].file] = ops[j].text
  <2> TAKE j \in 1 .. n
  <2>1. j \in 1 .. Len(ops) BY <1>2
  <2>2. ops[j] \in Operations BY <1>2, <2>1 DEF Typed
  <2>3. ops[j].file \in Files BY <2>2 DEF Operations
  <2> QED BY <1>2, <2>3, AfterDone
<1> HIDE DEF e
<1>8. CASE e[State] = d[State]
  <2>1. UNION {e[h] : h \in e[State].links} = UNION {d[h] : h \in d[State].links}
    BY <1>1, <1>5, <1>8
  <2> QED BY <1>1, <1>5, <1>8, <2>1 DEF NotesOK
<1>9. ASSUME NEW j \in 1 .. n, ops[j].file = State, e[State] = ops[j].text
      PROVE  /\ \A h \in e[State].links : e[h] # Absent
             /\ 1 .. w \subseteq e[State].notes
                       \cup UNION {e[h] : h \in e[State].links}
  <2>1. j \in 1 .. Len(ops) BY <1>2
  <2>2. NotesFollow(d, ops, j) BY <2>1 DEF Careful
  <2>3. d[State] # Absent BY <1>9, <2>2 DEF NotesFollow
  <2>4. 1 .. w \subseteq d[State].notes \cup UNION {d[h] : h \in d[State].links}
    BY <2>3 DEF NotesOK
  <2>5. CASE /\ e[State].notes = d[State].notes
             /\ e[State].links = d[State].links
    <3>1. UNION {e[h] : h \in e[State].links}
            = UNION {d[h] : h \in d[State].links}
      BY <1>5, <2>3, <2>5
    <3> QED BY <1>5, <2>3, <2>4, <2>5, <3>1
  <2>6. ASSUME NEW k \in 1 .. j - 1, ops[k].text # Absent,
               e[State].links = d[State].links \cup {ops[k].file},
               d[State].notes \subseteq e[State].notes \cup ops[k].text
        PROVE  /\ \A h \in e[State].links : e[h] # Absent
               /\ 1 .. w \subseteq e[State].notes
                         \cup UNION {e[h] : h \in e[State].links}
    <3>1. e[ops[k].file] = ops[k].text /\ e[ops[k].file] # Absent
      BY <1>7, <2>6, k \in 1 .. n
    <3>2. \A h \in e[State].links : e[h] # Absent
      BY <3>1, <1>5, <2>3, <2>6
    <3>3. ops[k].text \subseteq UNION {e[h] : h \in e[State].links}
      BY <2>6, <3>1
    <3>4. UNION {d[h] : h \in d[State].links}
            \subseteq UNION {e[h] : h \in e[State].links}
      BY <1>5, <2>3, <2>6
    <3> QED BY <3>2, <3>3, <3>4, <2>4, <2>6
  <2> QED BY <1>9, <2>2, <2>5, <2>6 DEF NotesFollow
<1> QED BY <1>6, <1>8, <1>9

\* Wherever it is cut short, a careful transaction leaves good files.
LEMMA CarefulIsGood ==
  ASSUME NEW d, NEW U, NEW w, Good(d, U, w), NEW ops, Careful(d, U, ops)
  PROVE  \A n \in 0 .. Len(ops) : Good(After(d, ops, n), U, w)
<1> TAKE n \in 0 .. Len(ops)
<1>1. Typed(ops) /\ Distinct(ops) BY DEF Careful
<1>2. After(d, ops, n) \in [Files -> Texts] /\ DiskOK(After(d, ops, n))
  BY <1>1, AfterTypes DEF Good
<1> QED BY <1>2, CarefulActive, CarefulEvidence, CarefulNotes DEF Good

(***************************************************************************)
(* The roadmap names no archive but those it named and those it is told.   *)
(***************************************************************************)
LEMMA RoadmapFields ==
  ASSUME NEW r \in RoadmapTexts, NEW i \in Items
  PROVE  /\ r.items[i] \in ItemTexts \cup {Absent}
         /\ r.history[i] \in ArchivePaths \cup {NoPath}
         /\ r.items[i] # Absent =>
              /\ r.items[i].status \in ItemStatuses
              /\ r.items[i].related \in ArchivePaths \cup {Plan, NoPath}
              /\ r.items[i].archived \in ArchivePaths \cup {NoPath}
              /\ r.items[i].proved \in BOOLEAN
BY DEF RoadmapTexts, ItemTexts

LEMMA RefreshedKeeps ==
  ASSUME NEW r \in RoadmapTexts, NEW new \in Refreshed(r)
  PROVE  /\ new \in RoadmapTexts
         /\ \A a \in ArchivePaths : Naming(new, a) => Naming(r, a)
<1>1. PICK S \in SUBSET Evident(r) :
        new = [items |-> [i \in Items |-> IF i \in S THEN Absent
                                         ELSE r.items[i]],
               history |-> [i \in Items |->
                 IF i \in S THEN r.items[i].archived
                 ELSE IF r.items[i] # Absent THEN NoPath ELSE r.history[i]]]
  BY DEF Refreshed
<1>2. \A i \in S : i \in Items /\ r.items[i] # Absent
  BY DEF Evident, Done
<1>3. new.items \in [Items -> ItemTexts \cup {Absent}]
  BY <1>1, RoadmapFields
<1>4. new.history \in [Items -> ArchivePaths \cup {NoPath}]
  BY <1>1, <1>2, RoadmapFields
<1>5. new \in RoadmapTexts BY <1>1, <1>3, <1>4 DEF RoadmapTexts
<1>6. ASSUME NEW a \in ArchivePaths, Naming(new, a) PROVE Naming(r, a)
  <2>1. PICK i \in Items :
          \/ new.history[i] = a
          \/ /\ new.items[i] # Absent
             /\ new.items[i].archived = a \/ new.items[i].related = a
    BY <1>6 DEF Naming
  <2>2. a # NoPath BY FilesDiffer
  <2>3. CASE i \in S
    <3>1. r.items[i].archived = a BY <1>1, <2>1, <2>3
    <3> QED BY <1>2, <2>3, <3>1 DEF Naming
  <2>4. CASE i \notin S
    <3>1. new.items[i] = r.items[i] BY <1>1, <2>4
    <3>2. new.history[i] \in {NoPath, r.history[i]} BY <1>1, <2>4
    <3> QED BY <2>1, <2>2, <3>1, <3>2 DEF Naming
  <2> QED BY <2>3, <2>4
<1> QED BY <1>5, <1>6

LEMMA RetargetedKeeps ==
  ASSUME NEW r \in RoadmapTexts, NEW active
  PROVE  /\ Retargeted(r, active) \in RoadmapTexts
         /\ \A a \in ArchivePaths :
              Naming(Retargeted(r, active), a) => Naming(r, a)
<1> DEFINE new == Retargeted(r, active)
<1>1. new.history = r.history /\ new = [items |-> new.items,
                                        history |-> new.history]
  BY DEF Retargeted, RoadmapTexts
<1>2. \A i \in Items :
        \/ new.items[i] = r.items[i]
        \/ /\ r.items[i] # Absent
           /\ new.items[i] = [r.items[i] EXCEPT !.related = r.items[i].archived]
  BY DEF Retargeted, RoadmapTexts
<1>3. new.items = [i \in Items |-> new.items[i]]
  BY DEF Retargeted, RoadmapTexts
<1> HIDE DEF new
<1>4. \A i \in Items :
        /\ new.items[i] \in ItemTexts \cup {Absent}
        /\ new.items[i] # r.items[i] =>
             /\ r.items[i] # Absent
             /\ new.items[i].archived = r.items[i].archived
             /\ new.items[i].related = r.items[i].archived
  <2> TAKE i \in Items
  <2>1. CASE new.items[i] = r.items[i] BY <2>1, RoadmapFields
  <2>2. CASE /\ r.items[i] # Absent
             /\ new.items[i] = [r.items[i] EXCEPT !.related = r.items[i].archived]
    <3>1. r.items[i] \in ItemTexts BY <2>2, RoadmapFields
    <3> QED BY <2>2, <3>1 DEF ItemTexts
  <2> QED BY <1>2, <2>1, <2>2
<1>5. new \in RoadmapTexts
  <2>1. new.history \in [Items -> ArchivePaths \cup {NoPath}]
    BY <1>1 DEF RoadmapTexts
  <2>2. new.items \in [Items -> ItemTexts \cup {Absent}] BY <1>3, <1>4
  <2> QED BY <1>1, <2>1, <2>2 DEF RoadmapTexts
<1>6. ASSUME NEW a \in ArchivePaths, Naming(new, a) PROVE Naming(r, a)
  <2>1. PICK i \in Items :
          \/ new.history[i] = a
          \/ /\ new.items[i] # Absent
             /\ new.items[i].archived = a \/ new.items[i].related = a
    BY <1>6 DEF Naming
  <2> QED BY <1>1, <1>4, <2>1 DEF Naming
<1> QED BY <1>5, <1>6 DEF new

LEMMA PutKeeps ==
  ASSUME NEW d, NEW r \in RoadmapTexts, NEW i \in Items,
         NEW text \in ItemTexts, NEW map \in Put(d, r, i, text)
  PROVE  /\ map \in RoadmapTexts
         /\ \A a \in ArchivePaths :
              Naming(map, a) =>
                Naming(r, a) \/ text.archived = a \/ text.related = a
<1> DEFINE mid == [r EXCEPT !.items[i] = text]
<1>1. mid \in RoadmapTexts /\ mid.history = r.history
      /\ mid.items = [r.items EXCEPT ![i] = text]
  BY DEF RoadmapTexts
<1>2. PICK new \in Refreshed(mid) : map = Retargeted(new, ActiveItems(d))
  BY DEF Put
<1> HIDE DEF mid
<1>3. new \in RoadmapTexts
      /\ \A a \in ArchivePaths : Naming(new, a) => Naming(mid, a)
  BY <1>1, RefreshedKeeps
<1>4. map \in RoadmapTexts
      /\ \A a \in ArchivePaths : Naming(map, a) => Naming(new, a)
  BY <1>2, <1>3, RetargetedKeeps
<1>5. ASSUME NEW a \in ArchivePaths, Naming(mid, a)
      PROVE  Naming(r, a) \/ text.archived = a \/ text.related = a
  <2>1. PICK k \in Items :
          \/ mid.history[k] = a
          \/ /\ mid.items[k] # Absent
             /\ mid.items[k].archived = a \/ mid.items[k].related = a
    BY <1>5 DEF Naming
  <2>2. r.items \in [Items -> ItemTexts \cup {Absent}] BY DEF RoadmapTexts
  <2>3. mid.items[k] = IF k = i THEN text ELSE r.items[k]
    BY <1>1, <2>2
  <2> QED BY <1>1, <2>1, <2>3 DEF Naming
<1> QED BY <1>3, <1>4, <1>5

LEMMA UpdatedTypes ==
  ASSUME NEW u \in Updates, u.item # NoItem
  PROVE  /\ \A old \in ItemTexts :
              /\ Updated(old, u) \in ItemTexts
              /\ Updated(old, u).archived \in {old.archived, u.archived}
              /\ Updated(old, u).related \in {NoPath, old.related, u.related}
         /\ \A entry \in ArchivePaths \cup {NoPath} :
              /\ Replayed(entry, u) \in ItemTexts
              /\ Replayed(entry, u).archived \in {entry, u.archived}
              /\ Replayed(entry, u).related = u.related
<1>1. /\ u.status \in ItemStatuses \cup {""}
      /\ u.related \in ArchivePaths \cup {Plan, NoPath}
      /\ u.archived \in ArchivePaths \cup {NoPath}
      /\ u.facts \in Facts /\ u.clear \in BOOLEAN
  BY DEF Updates
<1>2. ASSUME NEW old \in ItemTexts
      PROVE  /\ Updated(old, u) \in ItemTexts
             /\ Updated(old, u).archived \in {old.archived, u.archived}
             /\ Updated(old, u).related \in {NoPath, old.related, u.related}
  <2>1. /\ old.status \in ItemStatuses
        /\ old.related \in ArchivePaths \cup {Plan, NoPath}
        /\ old.archived \in ArchivePaths \cup {NoPath}
        /\ old.proved \in BOOLEAN
    BY DEF ItemTexts
  <2>2. (IF u.facts = "" THEN old.proved ELSE u.facts = "settled") \in BOOLEAN
    BY <2>1
  <2> QED BY <1>1, <2>1, <2>2 DEF Updated, ItemTexts
<1>3. ASSUME NEW entry \in ArchivePaths \cup {NoPath}
      PROVE  /\ Replayed(entry, u) \in ItemTexts
             /\ Replayed(entry, u).archived \in {entry, u.archived}
             /\ Replayed(entry, u).related = u.related
  <2>1. "accepted" \in ItemStatuses BY DEF ItemStatuses
  <2>2. (u.facts = "settled") \in BOOLEAN OBVIOUS
  <2> QED BY <1>1, <2>1, <2>2 DEF Replayed, ItemTexts
<1> QED BY <1>2, <1>3

LEMMA ChangedKeeps ==
  ASSUME NEW d, DiskOK(d), NEW u \in Updates, NEW map \in Changed(d, u)
  PROVE  /\ u.item = NoItem => map = d[Roadmap]
         /\ u.item # NoItem =>
              /\ d[Roadmap] # Absent /\ map \in RoadmapTexts
              /\ \A a \in ArchivePaths :
                   Naming(map, a) =>
                     \/ Naming(d[Roadmap], a)
                     \/ u.related = a \/ u.archived = a
<1>1. CASE u.item = NoItem BY <1>1 DEF Changed
<1>2. CASE u.item # NoItem
  <2> DEFINE r == d[Roadmap]
             i == u.item
  <2>1. i \in Items BY <1>2 DEF Updates
  <2>2. r # Absent BY <1>2 DEF Changed
  <2>3. r \in RoadmapTexts
    BY <2>2, FilesDiffer, TextsOfFiles DEF DiskOK
  <2>4. \/ r.items[i] # Absent /\ map \in Put(d, r, i, Updated(r.items[i], u))
        \/ r.items[i] = Absent /\ map \in Put(d, r, i, Replayed(r.history[i], u))
    BY <1>2 DEF Changed
  <2>5. CASE r.items[i] # Absent /\ map \in Put(d, r, i, Updated(r.items[i], u))
    <3> DEFINE old == r.items[i]
               text == Updated(old, u)
    <3>1. old \in ItemTexts BY <2>1, <2>3, <2>5, RoadmapFields
    <3>2. /\ text \in ItemTexts
          /\ text.archived \in {old.archived, u.archived}
          /\ text.related \in {NoPath, old.related, u.related}
      BY <1>2, <3>1, UpdatedTypes
    <3> HIDE DEF text
    <3>3. /\ map \in RoadmapTexts
          /\ \A a \in ArchivePaths :
               Naming(map, a) =>
                 Naming(r, a) \/ text.archived = a \/ text.related = a
      BY <2>1, <2>3, <2>5, <3>2, PutKeeps DEF text
    <3>4. \A a \in ArchivePaths :
            old.archived = a \/ old.related = a => Naming(r, a)
      BY <2>1, <2>5 DEF Naming
    <3>5. NoPath \notin ArchivePaths BY FilesDiffer
    <3> QED BY <1>2, <2>2, <3>2, <3>3, <3>4, <3>5
  <2>6. CASE r.items[i] = Absent /\ map \in Put(d, r, i, Replayed(r.history[i], u))
    <3> DEFINE entry == r.history[i]
               text == Replayed(entry, u)
    <3>1. entry \in ArchivePaths \cup {NoPath} BY <2>1, <2>3, RoadmapFields
    <3>2. /\ text \in ItemTexts
          /\ text.archived \in {entry, u.archived}
          /\ text.related = u.related
      BY <1>2, <3>1, UpdatedTypes
    <3> HIDE DEF text
    <3>3. /\ map \in RoadmapTexts
          /\ \A a \in ArchivePaths :
               Naming(map, a) =>
                 Naming(r, a) \/ text.archived = a \/ text.related = a
      BY <2>1, <2>3, <2>6, <3>2, PutKeeps DEF text
    <3>4. \A a \in ArchivePaths : entry = a => Naming(r, a)
      BY <2>1 DEF Naming
    <3> QED BY <1>2, <2>2, <3>2, <3>3, <3>4
  <2> QED BY <2>4, <2>5, <2>6
<1> QED BY <1>1, <1>2

(***************************************************************************)
(* Requests, and the operations a command makes of them.                   *)
(***************************************************************************)
LEMMA PendingTypes ==
  ASSUME OtherTypes, NEW p \in Procs, NEW c \in Pending(p)
  PROVE  /\ c \in Seq(Requests) /\ Head(c) \in Requests
         /\ Tail(c) \in Seq(Requests)
<1>1. c \in Seq(Requests) /\ c # <<>>
  BY LifecycleAssumption DEF OtherTypes, Pending
<1> QED BY <1>1

LEMMA RequestFields ==
  ASSUME NEW r \in Requests
  PROVE  /\ r.do = "open" => r.title \in Titles /\ r.item \in Items \cup {NoItem}
         /\ r.do = "cancel" => r.item \in Items \cup {NoItem}
         /\ r.do = "writeback" =>
              /\ r.phase \in PhaseStatuses /\ r.item \in Items \cup {NoItem}
              /\ r.status \in ItemStatuses \cup {""} /\ r.facts \in Facts
         /\ r.do = "archive" =>
              /\ r.phase \in ArchivablePhases \cup {""}
              /\ r.item \in Items \cup {NoItem}
              /\ r.status \in ItemStatuses \cup {""} /\ r.facts \in Facts
         /\ r.do = "add" => r.item \in Items /\ r.status \in ItemStatuses
         /\ r.do = "update" =>
              /\ r.item \in Items /\ r.status \in ItemStatuses \cup {""}
              /\ r.facts \in Facts
BY DEF Requests

LEMMA CompactionTypes ==
  ASSUME NEW c \in Seq(Requests)
  PROVE  Compaction \in Seq(Requests) /\ Compaction \o c \in Seq(Requests)
<1>1. [do |-> "compact"] \in Requests BY DEF Requests
<1>2. Compaction \in Seq(Requests) BY <1>1 DEF Compaction
<1> QED BY <1>2

\* t is s and then x, if X holds it.
Appends(s, x, X, t) ==
  /\ t \in Seq(Operations) /\ Distinct(t)
  /\ Len(s) \in Nat /\ Len(t) \in Nat /\ Len(s) <= Len(t)
  /\ \A i \in 1 .. Len(s) : t[i] = s[i]
  /\ \A i \in 1 .. Len(t) :
       i \in 1 .. Len(s) \/ (X = <<x>> /\ t[i] = x /\ i > Len(s))
  /\ X = <<x>> => \E i \in 1 .. Len(t) : i > Len(s) /\ t[i] = x

LEMMA Appended ==
  ASSUME NEW s \in Seq(Operations), Distinct(s),
         NEW x \in Operations, NEW X \in {<<>>, <<x>>},
         \A i \in 1 .. Len(s) : s[i].file # x.file,
         NEW t, t = s \o X
  PROVE  Appends(s, x, X, t)
<1>1. X \in Seq(Operations) /\ Len(X) \in {0, 1}
  <2>1. CASE X = <<>> BY <2>1
  <2>2. CASE X = <<x>> BY <2>2
  <2> QED BY <2>1, <2>2
<1>2. X = <<x>> => Len(X) = 1 /\ X[1] = x OBVIOUS
<1>3. X # <<x>> => Len(X) = 0 OBVIOUS
<1>4. /\ t \in Seq(Operations) /\ Len(t) = Len(s) + Len(X)
      /\ \A i \in 1 .. Len(s) + Len(X) :
           t[i] = IF i <= Len(s) THEN s[i] ELSE X[i - Len(s)]
  BY <1>1, ConcatProperties
<1>5. Len(s) \in Nat /\ Len(t) \in Nat /\ Len(s) <= Len(t) BY <1>1, <1>4
<1>6. \A i \in 1 .. Len(s) : t[i] = s[i] BY <1>1, <1>4, <1>5
<1>7. \A i \in 1 .. Len(t) :
        i \in 1 .. Len(s) \/ (X = <<x>> /\ t[i] = x /\ i = Len(s) + 1)
  <2> TAKE i \in 1 .. Len(t)
  <2> SUFFICES ASSUME i \notin 1 .. Len(s)
               PROVE  X = <<x>> /\ t[i] = x /\ i = Len(s) + 1
    BY Zenon
  <2>1. Len(X) = 1 /\ i = Len(s) + 1 BY <1>1, <1>4, <1>5
  <2>2. X = <<x>> BY <1>3, <2>1
  <2>3. t[i] = X[1] BY <1>4, <1>5, <2>1
  <2> QED BY <1>2, <2>1, <2>2, <2>3
<1>8. X = <<x>> => \E i \in 1 .. Len(t) : i > Len(s) /\ t[i] = x
  <2>1. X = <<x>> => /\ Len(s) + 1 \in 1 .. Len(t)
                     /\ Len(s) + 1 > Len(s) /\ t[Len(s) + 1] = x
    BY <1>2, <1>4, <1>5
  <2> QED BY <2>1
<1>9. Distinct(t)
  <2> SUFFICES ASSUME NEW i \in 1 .. Len(t), NEW j \in 1 .. Len(t),
                      t[i].file = t[j].file
               PROVE  i = j
    BY DEF Distinct
  <2>1. CASE i \in 1 .. Len(s) /\ j \in 1 .. Len(s)
    BY <1>6, <2>1 DEF Distinct
  <2>2. CASE i \in 1 .. Len(s) /\ j \notin 1 .. Len(s)
    BY <1>6, <1>7, <2>2
  <2>3. CASE i \notin 1 .. Len(s) /\ j \in 1 .. Len(s)
    BY <1>6, <1>7, <2>3
  <2>4. CASE i \notin 1 .. Len(s) /\ j \notin 1 .. Len(s)
    BY <1>7, <2>4
  <2> QED BY <2>1, <2>2, <2>3, <2>4
<1> QED
  <2>1. \A i \in 1 .. Len(t) :
          i \in 1 .. Len(s) \/ (X = <<x>> /\ t[i] = x /\ i > Len(s))
    BY <1>5, <1>7
  <2> QED BY <1>4, <1>5, <1>6, <1>8, <1>9, <2>1 DEF Appends

\* x comes before y.
Precedes(ops, x, y) ==
  \A j \in 1 .. Len(ops) : ops[j] = y => \E k \in 1 .. j - 1 : ops[k] = x

Optional(X, x) == X \in {<<>>, <<x>>}

\* The operations a, b, c, e, each there or not, in this order.
Arranged(ops, a, b, c, e, A, B, C, E) ==
  /\ ops \in Seq(Operations) /\ Distinct(ops)
  /\ \A j \in 1 .. Len(ops) :
       \/ ops[j] = a /\ A = <<a>>
       \/ ops[j] = b /\ B = <<b>>
       \/ ops[j] = c /\ C = <<c>>
       \/ ops[j] = e /\ E = <<e>>
  /\ A = <<a>> =>
       Precedes(ops, a, b) /\ Precedes(ops, a, c) /\ Precedes(ops, a, e)
  /\ B = <<b>> => Precedes(ops, b, c) /\ Precedes(ops, b, e)
  /\ C = <<c>> => Precedes(ops, c, e)

LEMMA InOrder ==
  ASSUME NEW a \in Operations, NEW b \in Operations,
         NEW c \in Operations, NEW e \in Operations,
         a.file # b.file, a.file # c.file, a.file # e.file,
         b.file # c.file, b.file # e.file, c.file # e.file,
         NEW A, Optional(A, a), NEW B, Optional(B, b),
         NEW C, Optional(C, c), NEW E, Optional(E, e),
         NEW ops, ops = A \o B \o C \o E
  PROVE  Arranged(ops, a, b, c, e, A, B, C, E)
<1>1. /\ A \in {<<>>, <<a>>} /\ B \in {<<>>, <<b>>}
      /\ C \in {<<>>, <<c>>} /\ E \in {<<>>, <<e>>}
  BY DEF Optional
<1>2. PICK s : s = A \o B OBVIOUS
<1>3. PICK t : t = s \o C OBVIOUS
<1>0. ops = t \o E BY <1>2, <1>3
<1>4. /\ A \in Seq(Operations) /\ Distinct(A) /\ Len(A) \in Nat
      /\ \A i \in 1 .. Len(A) : A = <<a>> /\ A[i] = a
      /\ A = <<a>> => \E i \in 1 .. Len(A) : A[i] = a
  <2>1. CASE A = <<>> BY <2>1 DEF Distinct
  <2>2. CASE A = <<a>>
    <3>1. Len(A) = 1 /\ A[1] = a BY <2>2
    <3> QED BY <2>2, <3>1 DEF Distinct
  <2> QED BY <1>1, <2>1, <2>2
<1>5. Appends(A, b, B, s)
  <2>1. \A i \in 1 .. Len(A) : A[i].file # b.file BY <1>4
  <2>2. A \in Seq(Operations) /\ Distinct(A) BY <1>4
  <2> QED BY <1>1, <1>2, <2>1, <2>2, Appended
<1>6. /\ \A i \in 1 .. Len(s) :
           (A = <<a>> /\ s[i] = a) \/ (B = <<b>> /\ s[i] = b)
      /\ A = <<a>> => \E i \in 1 .. Len(s) : s[i] = a
      /\ B = <<b>> => \E i \in 1 .. Len(s) : s[i] = b
  <2>1. ASSUME NEW i \in 1 .. Len(s)
        PROVE  (A = <<a>> /\ s[i] = a) \/ (B = <<b>> /\ s[i] = b)
    <3>1. CASE i \in 1 .. Len(A) BY <1>4, <1>5, <3>1 DEF Appends
    <3>2. CASE i \notin 1 .. Len(A) BY <1>5, <3>2 DEF Appends
    <3> QED BY <3>1, <3>2
  <2>2. ASSUME A = <<a>> PROVE \E i \in 1 .. Len(s) : s[i] = a
    BY <1>4, <1>5, <2>2 DEF Appends
  <2>3. ASSUME B = <<b>> PROVE \E i \in 1 .. Len(s) : s[i] = b
    BY <1>5, <2>3 DEF Appends
  <2> QED BY <2>1, <2>2, <2>3
<1>7. Appends(s, c, C, t)
  <2>1. \A i \in 1 .. Len(s) : s[i].file # c.file BY <1>6
  <2>2. s \in Seq(Operations) /\ Distinct(s) BY <1>5 DEF Appends
  <2> QED BY <1>1, <1>3, <2>1, <2>2, Appended
<1>8. /\ \A i \in 1 .. Len(t) :
           \/ A = <<a>> /\ t[i] = a
           \/ B = <<b>> /\ t[i] = b
           \/ C = <<c>> /\ t[i] = c
      /\ A = <<a>> => \E i \in 1 .. Len(t) : t[i] = a
      /\ B = <<b>> => \E i \in 1 .. Len(t) : t[i] = b
      /\ C = <<c>> => \E i \in 1 .. Len(t) : t[i] = c
  <2>1. ASSUME NEW i \in 1 .. Len(t)
        PROVE  \/ A = <<a>> /\ t[i] = a
               \/ B = <<b>> /\ t[i] = b
               \/ C = <<c>> /\ t[i] = c
    <3>1. CASE i \in 1 .. Len(s) BY <1>6, <1>7, <3>1 DEF Appends
    <3>2. CASE i \notin 1 .. Len(s) BY <1>7, <3>2 DEF Appends
    <3> QED BY <3>1, <3>2
  <2>2. ASSUME A = <<a>> PROVE \E i \in 1 .. Len(t) : t[i] = a
    BY <1>6, <1>7, <2>2 DEF Appends
  <2>3. ASSUME B = <<b>> PROVE \E i \in 1 .. Len(t) : t[i] = b
    BY <1>6, <1>7, <2>3 DEF Appends
  <2>4. ASSUME C = <<c>> PROVE \E i \in 1 .. Len(t) : t[i] = c
    BY <1>7, <2>4 DEF Appends
  <2> QED BY <2>1, <2>2, <2>3, <2>4
<1>9. Appends(t, e, E, ops)
  <2>1. \A i \in 1 .. Len(t) : t[i].file # e.file BY <1>8
  <2>2. t \in Seq(Operations) /\ Distinct(t) BY <1>7 DEF Appends
  <2> QED BY <1>1, <1>0, <2>1, <2>2, Appended
<1>10. \A j \in 1 .. Len(ops) :
         \/ ops[j] = a /\ A = <<a>>
         \/ ops[j] = b /\ B = <<b>>
         \/ ops[j] = c /\ C = <<c>>
         \/ ops[j] = e /\ E = <<e>>
  BY <1>8, <1>9 DEF Appends
<1>11. /\ \A i \in 1 .. Len(s) : s[i] = t[i] /\ t[i] = ops[i]
       /\ \A i \in 1 .. Len(A) : A[i] = s[i] /\ s[i] = t[i] /\ t[i] = ops[i]
  <2>1. \A i \in 1 .. Len(s) : s[i] = t[i] /\ t[i] = ops[i]
    <3> TAKE i \in 1 .. Len(s)
    <3>1. s[i] = t[i] /\ i \in 1 .. Len(t) BY <1>5, <1>7 DEF Appends
    <3>2. t[i] = ops[i] BY <1>9, <3>1 DEF Appends
    <3> QED BY <3>1, <3>2
  <2>2. \A i \in 1 .. Len(A) : A[i] = s[i] /\ i \in 1 .. Len(s)
    BY <1>5 DEF Appends
  <2> QED BY <2>1, <2>2
<1>12. A = <<a>> => \A j \in 1 .. Len(ops) :
                      ops[j] # a => \E k \in 1 .. j - 1 : ops[k] = a
  <2> SUFFICES ASSUME A = <<a>>, NEW j \in 1 .. Len(ops), ops[j] # a
               PROVE  \E k \in 1 .. j - 1 : ops[k] = a
    OBVIOUS
  <2>1. PICK k \in 1 .. Len(A) : A[k] = a BY <1>4
  <2>2. ops[k] = a BY <1>11, <2>1
  <2>3. j \notin 1 .. Len(A) BY <1>4, <1>11
  <2> QED BY <1>4, <2>2, <2>3 DEF Appends
<1>13. B = <<b>> => \A j \in 1 .. Len(ops) :
                      ops[j] # a /\ ops[j] # b =>
                        \E k \in 1 .. j - 1 : ops[k] = b
  <2> SUFFICES ASSUME B = <<b>>, NEW j \in 1 .. Len(ops),
                      ops[j] # a, ops[j] # b
               PROVE  \E k \in 1 .. j - 1 : ops[k] = b
    OBVIOUS
  <2>1. PICK k \in 1 .. Len(s) : s[k] = b BY <1>6
  <2>2. ops[k] = b BY <1>11, <2>1
  <2>3. j \notin 1 .. Len(s) BY <1>6, <1>11
  <2> QED BY <1>5, <2>2, <2>3 DEF Appends
<1>14. C = <<c>> => \A j \in 1 .. Len(ops) :
                      ops[j] # a /\ ops[j] # b /\ ops[j] # c =>
                        \E k \in 1 .. j - 1 : ops[k] = c
  <2> SUFFICES ASSUME C = <<c>>, NEW j \in 1 .. Len(ops),
                      ops[j] # a, ops[j] # b, ops[j] # c
               PROVE  \E k \in 1 .. j - 1 : ops[k] = c
    OBVIOUS
  <2>1. PICK k \in 1 .. Len(t) : t[k] = c BY <1>8
  <2>2. ops[k] = c BY <1>9, <2>1 DEF Appends
  <2>3. j \notin 1 .. Len(t) BY <1>8, <1>9 DEF Appends
  <2> QED BY <1>7, <2>2, <2>3 DEF Appends
<1>15. ops \in Seq(Operations) /\ Distinct(ops) BY <1>9 DEF Appends
<1>16. /\ A = <<a>> => Precedes(ops, a, b) /\ Precedes(ops, a, c)
                       /\ Precedes(ops, a, e)
       /\ B = <<b>> => Precedes(ops, b, c) /\ Precedes(ops, b, e)
       /\ C = <<c>> => Precedes(ops, c, e)
  BY <1>12, <1>13, <1>14 DEF Precedes
<1> QED BY <1>10, <1>15, <1>16 DEF Arranged

LEMMA EmptyFirst ==
  ASSUME NEW x, NEW X \in {<<>>, <<x>>}
  PROVE  <<>> \o X = X /\ X \o <<>> = X
OBVIOUS

LEMMA WriteCases ==
  ASSUME NEW d, NEW f, NEW x
  PROVE  /\ Write(d, f, x) \in {<<>>, <<Op(f, x)>>}
         /\ Write(d, f, x) = <<>> => d[f] = x
BY DEF Write

(***************************************************************************)
(* A command that decides carefully keeps the invariant.                   *)
(***************************************************************************)
LEMMA BeginKeeps ==
  ASSUME OtherTypes, Good(disk, unrestored, written), NEW p \in Procs,
         NEW kind \in Kinds, NEW ops, NEW rest \in Seq(Requests),
         Careful(disk, unrestored, ops), ArchivedFirst(disk, ops, kind),
         Begin(p, kind, ops, rest)
  PROVE  IInv'
<1>1. tx' = [proc |-> p, kind |-> kind, old |-> disk, ops |-> ops,
             n |-> 0, done |-> 0, rolling |-> FALSE, gap |-> FALSE]
  BY DEF Begin
<1>2. /\ disk' = disk /\ leftovers' = leftovers
      /\ unrestored' = unrestored /\ written' = written
      /\ trouble' = trouble /\ todo' = [todo EXCEPT ![p] = rest]
  BY DEF Begin, files
<1>3. OtherTypes' BY <1>2 DEF OtherTypes
<1>4. disk \in [Files -> Texts] BY DEF Good
<1>5. ops \in Seq(Operations) /\ Typed(ops) /\ Distinct(ops)
      /\ Respectful(disk, ops)
  BY DEF Careful, Typed
<1>6. tx' \in Transactions
  BY <1>1, <1>4, <1>5 DEF Transactions, Operations
<1>7. tx' # NoTx BY <1>6, LifecycleAssumption
<1>8. Decided(disk, ops, kind, unrestored, written)
  BY <1>5, CarefulIsGood DEF Decided
<1>9. Decided(tx.old, tx.ops, tx.kind, unrestored, written)'
  BY <1>1, <1>2, <1>8
<1>10. disk = After(disk, ops, 0) BY <1>4, AfterNone
<1>11. Len(ops) \in Nat BY <1>5
<1>12. Position' BY <1>1, <1>2, <1>10, <1>11 DEF Position
<1> QED BY <1>3, <1>6, <1>7, <1>9, <1>12 DEF IInv

LEMMA InOrderOfThree ==
  ASSUME NEW a \in Operations, NEW b \in Operations, NEW c \in Operations,
         a.file \notin HistoryPaths, b.file \notin HistoryPaths,
         c.file \notin HistoryPaths,
         a.file # b.file, a.file # c.file, b.file # c.file,
         NEW A, Optional(A, a), NEW B, Optional(B, b), NEW C, Optional(C, c),
         NEW ops, ops = A \o B \o C
  PROVE  \E e : Arranged(ops, a, b, c, e, A, B, C, <<>>)
<1>1. PICK e : e = Op(History(1), Absent) OBVIOUS
<1>2. History(1) \in HistoryPaths
  <2>1. 1 \in 1 .. MaxCopy BY LifecycleAssumption
  <2> QED BY <2>1 DEF HistoryPaths
<1>3. e \in Operations /\ e.file \in HistoryPaths
  BY <1>1, <1>2, FilesDiffer DEF Op, Operations, Texts
<1>4. ops \in Seq(Operations)
  <2>1. A \in Seq(Operations)
    <3>1. CASE A = <<>> BY <3>1
    <3>2. CASE A = <<a>> BY <3>2
    <3> QED BY <3>1, <3>2 DEF Optional
  <2>2. B \in Seq(Operations)
    <3>1. CASE B = <<>> BY <3>1
    <3>2. CASE B = <<b>> BY <3>2
    <3> QED BY <3>1, <3>2 DEF Optional
  <2>3. C \in Seq(Operations)
    <3>1. CASE C = <<>> BY <3>1
    <3>2. CASE C = <<c>> BY <3>2
    <3> QED BY <3>1, <3>2 DEF Optional
  <2> QED BY <2>1, <2>2, <2>3
<1>5. PICK E : E = <<>> OBVIOUS
<1>6. ops = A \o B \o C \o E BY <1>4, <1>5
<1>7. Optional(E, e) BY <1>5 DEF Optional
<1>8. a.file # e.file /\ b.file # e.file /\ c.file # e.file BY <1>3
<1>9. Arranged(ops, a, b, c, e, A, B, C, E)
  BY <1>3, <1>6, <1>7, <1>8, InOrder
<1> QED BY <1>5, <1>9

\* What an update may do to the roadmap file: nothing or one operation.
RoadmapPart(d, u, E) ==
  \E x \in Operations :
    /\ x.file = Roadmap /\ E \in {<<>>, <<x>>}
    /\ E = <<x>> =>
         /\ d[Roadmap] # Absent /\ x.text \in RoadmapTexts
         /\ \A a \in ArchivePaths :
              Naming(x.text, a) =>
                \/ Naming(d[Roadmap], a)
                \/ u.related = a \/ u.archived = a

LEMMA OneRoadmapOperation ==
  ASSUME NEW d, NEW u, NEW new \in RoadmapTexts, d[Roadmap] # Absent,
         \A a \in ArchivePaths :
           Naming(new, a) =>
             Naming(d[Roadmap], a) \/ u.related = a \/ u.archived = a
  PROVE  RoadmapPart(d, u, Write(d, Roadmap, new))
<1> DEFINE x == Op(Roadmap, new)
<1>1. new \in Texts BY FilesDiffer, TextsOfFiles, TextsAreThere
<1>2. x \in Operations /\ x.file = Roadmap /\ x.text = new
  BY <1>1, FilesDiffer DEF Op, Operations
<1>3. Write(d, Roadmap, new) \in {<<>>, <<x>>} BY WriteCases
<1> QED BY <1>2, <1>3 DEF RoadmapPart

LEMMA NoRoadmapOperation ==
  ASSUME NEW d, NEW u
  PROVE  RoadmapPart(d, u, <<>>)
<1> DEFINE x == Op(Roadmap, Absent)
<1>1. x \in Operations /\ x.file = Roadmap
  BY FilesDiffer DEF Op, Operations, Texts
<1>2. <<>> # <<x>> OBVIOUS
<1> QED BY <1>1, <1>2 DEF RoadmapPart

LEMMA UpdateRoadmap ==
  ASSUME NEW d, DiskOK(d), NEW u \in Updates, NEW map \in Changed(d, u)
  PROVE  /\ RoadmapPart(d, u, IF u.item = NoItem THEN <<>>
                               ELSE Write(d, Roadmap, map))
         /\ RoadmapPart(d, u, Write(d, Roadmap, map))
         /\ \A active :
              RoadmapPart(d, u, IF u.item = NoItem THEN <<>>
                ELSE Write(d, Roadmap, Retargeted(map, active)))
<1>1. CASE u.item = NoItem
  <2>1. Write(d, Roadmap, map) = <<>> BY <1>1, ChangedKeeps DEF Write
  <2> QED BY <1>1, <2>1, NoRoadmapOperation
<1>2. CASE u.item # NoItem
  <2>1. /\ d[Roadmap] # Absent /\ map \in RoadmapTexts
        /\ \A a \in ArchivePaths :
             Naming(map, a) =>
               Naming(d[Roadmap], a) \/ u.related = a \/ u.archived = a
    BY <1>2, ChangedKeeps
  <2>2. RoadmapPart(d, u, Write(d, Roadmap, map))
    BY <2>1, OneRoadmapOperation
  <2>3. ASSUME NEW active
        PROVE  RoadmapPart(d, u, Write(d, Roadmap, Retargeted(map, active)))
    <3> DEFINE new == Retargeted(map, active)
    <3>1. new \in RoadmapTexts
          /\ \A a \in ArchivePaths : Naming(new, a) => Naming(map, a)
      BY <2>1, RetargetedKeeps
    <3> HIDE DEF new
    <3>2. \A a \in ArchivePaths :
            Naming(new, a) =>
              Naming(d[Roadmap], a) \/ u.related = a \/ u.archived = a
      BY <2>1, <3>1
    <3>3. RoadmapPart(d, u, Write(d, Roadmap, new))
      BY <2>1, <3>1, <3>2, OneRoadmapOperation
    <3> QED BY <3>3 DEF new
  <2> QED BY <1>2, <2>2, <2>3
<1> QED BY <1>1, <1>2

\* A command that names archives that are there and keeps the notes.
LEMMA ThreeFilesCareful ==
  ASSUME NEW d, NEW U, NEW w, Good(d, U, w),
         NEW ops \in Seq(Operations), Distinct(ops),
         \A j \in 1 .. Len(ops) :
           \/ ops[j].file = Plan /\ ops[j].text \in PlanTexts \cup {Absent}
           \/ /\ ops[j].file = State /\ d[State] # Absent
              /\ ops[j].text \in StateTexts
              /\ ops[j].text.notes = d[State].notes
              /\ ops[j].text.links = d[State].links
           \/ /\ ops[j].file = Roadmap /\ ops[j].text \in RoadmapTexts
              /\ \A a \in ArchivePaths :
                   Naming(ops[j].text, a) => Kept(d, U, a),
         \A j \in 1 .. Len(ops) : ActiveFollows(d, U, ops, j)
  PROVE  Careful(d, U, ops)
<1>1. Typed(ops)
  <2>1. \A j \in 1 .. Len(ops) :
          ops[j].text \in FileTexts(ops[j].file) \cup {Absent}
    BY TextsOfFiles
  <2> QED BY <2>1 DEF Typed
<1>2. \A j \in 1 .. Len(ops) : ops[j].file \in {State, Plan, Roadmap}
  OBVIOUS
<1>3. Respectful(d, ops) BY <1>2, FilesDiffer DEF Respectful
<1>4. ASSUME NEW j \in 1 .. Len(ops) PROVE EvidenceFollows(d, U, ops, j)
  <2> SUFFICES ASSUME ops[j].file = Roadmap
               PROVE  /\ ops[j].text # Absent
                      /\ \A a \in ArchivePaths :
                           Naming(ops[j].text, a) => Kept(d, U, a)
    BY DEF EvidenceFollows
  <2>1. /\ ops[j].text \in RoadmapTexts
        /\ \A a \in ArchivePaths :
             Naming(ops[j].text, a) => Kept(d, U, a)
    BY FilesDiffer
  <2>2. ops[j].text # Absent
    BY <2>1, FilesDiffer, TextsOfFiles, TextsAreThere
  <2> QED BY <2>1, <2>2
<1>5. ASSUME NEW j \in 1 .. Len(ops) PROVE NotesFollow(d, ops, j)
  <2>1. ops[j].file = State => ops[j].text # Absent
    BY FilesDiffer, TextsOfFiles, TextsAreThere
  <2> QED BY <2>1, FilesDiffer DEF NotesFollow
<1> QED BY <1>1, <1>3, <1>4, <1>5 DEF Careful

\* What the files say when a command looks at them.
LEMMA Found ==
  ASSUME IInv, tx = NoTx
  PROVE  /\ OtherTypes /\ Good(disk, unrestored, written) /\ DiskOK(disk)
         /\ disk[State] # Absent => disk[State] \in StateTexts
         /\ disk[Plan] # Absent => disk[Plan] \in PlanTexts
         /\ disk[Roadmap] # Absent => disk[Roadmap] \in RoadmapTexts
<1>1. OtherTypes /\ Good(disk, unrestored, written) BY DEF IInv
<1>2. DiskOK(disk) BY <1>1 DEF Good
<1> QED BY <1>1, <1>2, FilesDiffer, TextsOfFiles DEF DiskOK

LEMMA OperationTypes ==
  /\ \A x \in PlanTexts \cup {Absent} :
       /\ Op(Plan, x) \in Operations
       /\ Op(Plan, x).file = Plan /\ Op(Plan, x).text = x
  /\ \A x \in StateTexts :
       /\ Op(State, x) \in Operations /\ x # Absent
       /\ Op(State, x).file = State /\ Op(State, x).text = x
  /\ \A x \in PlanTexts : x # Absent
  /\ \A f \in ArchivePaths : \A x \in PlanTexts :
       /\ Op(f, x) \in Operations
       /\ Op(f, x).file = f /\ Op(f, x).text = x
<1>1. StateTexts \subseteq Texts /\ PlanTexts \subseteq Texts
      /\ Absent \in Texts
  BY FilesDiffer, TextsOfFiles, TextsAreThere DEF Texts
<1>2. \A x \in StateTexts \cup PlanTexts : x # Absent
  BY FilesDiffer, TextsOfFiles, TextsAreThere
<1> QED BY <1>1, <1>2, FilesDiffer DEF Op, Operations

LEMMA OpenKeeps ==
  ASSUME IInv, NEW p \in Procs, Open(p)
  PROVE  IInv'
<1>1. PICK c \in Pending(p) :
        /\ Asked(p, "open", c)
        /\ \E map \in Changed(disk, Update(Head(c).item, "", Plan, NoPath,
                                           "", FALSE)) :
             Begin(p, "plan",
               <<Op(Plan, [title |-> Head(c).title, item |-> Head(c).item,
                           phase |-> "pending"]),
                 Op(State, [disk[State] EXCEPT !.status = "active",
                                               !.phase = "pending"])>>
               \o (IF Head(c).item = NoItem THEN <<>>
                   ELSE Write(disk, Roadmap, Retargeted(map, {Head(c).item}))),
               Compaction \o Tail(c))
  BY DEF Open
<1>2. PICK r : r = Head(c) OBVIOUS
<1>3. PICK u : u = Update(r.item, "", Plan, NoPath, "", FALSE) OBVIOUS
<1>4. PICK map \in Changed(disk, u) :
             Begin(p, "plan",
               <<Op(Plan, [title |-> r.title, item |-> r.item,
                           phase |-> "pending"]),
                 Op(State, [disk[State] EXCEPT !.status = "active",
                                               !.phase = "pending"])>>
               \o (IF r.item = NoItem THEN <<>>
                   ELSE Write(disk, Roadmap, Retargeted(map, {r.item}))),
               Compaction \o Tail(c))
  BY <1>1, <1>2, <1>3
<1>5. PICK a : a = Op(Plan, [title |-> r.title, item |-> r.item,
                             phase |-> "pending"])
  OBVIOUS
<1>6. PICK b : b = Op(State, [disk[State] EXCEPT !.status = "active",
                                                 !.phase = "pending"])
  OBVIOUS
<1>7. PICK C : C = IF r.item = NoItem THEN <<>>
                   ELSE Write(disk, Roadmap, Retargeted(map, {r.item}))
  OBVIOUS
<1>8. PICK ops : ops = <<a, b>> \o C OBVIOUS
<1>9. Begin(p, "plan", ops, Compaction \o Tail(c))
  BY <1>4, <1>5, <1>6, <1>7, <1>8
<1>10. tx = NoTx BY <1>9 DEF Begin
<1>11. disk[State] \in StateTexts /\ disk[State] # Absent
       /\ Good(disk, unrestored, written) /\ OtherTypes /\ DiskOK(disk)
  BY <1>1, <1>10, Found DEF Asked
<1>12. Tail(c) \in Seq(Requests) /\ r \in Requests /\ r.do = "open"
  BY <1>1, <1>2, <1>11, PendingTypes DEF Asked
<1>13. r.title \in Titles /\ r.item \in Items \cup {NoItem}
  BY <1>12, RequestFields
<1>14. /\ a \in Operations /\ a.file = Plan
       /\ a.text \in PlanTexts /\ a.text # Absent
  <2>1. [title |-> r.title, item |-> r.item, phase |-> "pending"] \in PlanTexts
    BY <1>13 DEF PlanTexts, PhaseStatuses
  <2> QED BY <1>5, <2>1, OperationTypes
<1>15. /\ b \in Operations /\ b.file = State
       /\ b.text \in StateTexts /\ b.text # Absent
       /\ b.text.notes = disk[State].notes
       /\ b.text.links = disk[State].links
  <2> DEFINE x == [disk[State] EXCEPT !.status = "active", !.phase = "pending"]
  <2>1. x \in StateTexts /\ x.notes = disk[State].notes
        /\ x.links = disk[State].links
    BY <1>11 DEF StateTexts, PhaseStatuses
  <2>2. b = Op(State, x) BY <1>6
  <2> HIDE DEF x
  <2> QED BY <2>1, <2>2, OperationTypes
<1>16. u \in Updates /\ u.item = r.item /\ u.related = Plan
       /\ u.archived = NoPath
  BY <1>3, <1>13 DEF Update, Updates, Facts
<1>17. RoadmapPart(disk, u, C)
  BY <1>4, <1>7, <1>11, <1>16, UpdateRoadmap
<1>18. PICK e \in Operations :
         /\ e.file = Roadmap /\ Optional(C, e)
         /\ C = <<e>> =>
              /\ disk[Roadmap] # Absent /\ e.text \in RoadmapTexts
              /\ \A f \in ArchivePaths :
                   Naming(e.text, f) =>
                     \/ Naming(disk[Roadmap], f)
                     \/ u.related = f \/ u.archived = f
  BY <1>17 DEF RoadmapPart, Optional
<1>19. PICK o : Arranged(ops, a, b, e, o, <<a>>, <<b>>, C, <<>>)
  <2>1. ops = <<a>> \o <<b>> \o C BY <1>8, <1>14, <1>15
  <2>2. Optional(<<a>>, a) /\ Optional(<<b>>, b) BY DEF Optional
  <2>3. /\ a.file # b.file /\ a.file # e.file /\ b.file # e.file
        /\ a.file \notin HistoryPaths /\ b.file \notin HistoryPaths
        /\ e.file \notin HistoryPaths
    BY <1>14, <1>15, <1>18, FilesDiffer
  <2> QED BY <1>14, <1>15, <1>18, <2>1, <2>2, <2>3, InOrderOfThree
<1>20. /\ ops \in Seq(Operations) /\ Distinct(ops)
       /\ Precedes(ops, a, b)
       /\ \A j \in 1 .. Len(ops) :
            ops[j] = a \/ ops[j] = b \/ (ops[j] = e /\ C = <<e>>)
  BY <1>19 DEF Arranged
<1>21. \A f \in ArchivePaths :
         C = <<e>> /\ Naming(e.text, f) => Kept(disk, unrestored, f)
  BY <1>11, <1>16, <1>18, FilesDiffer DEF Good, EvidenceOK
<1>22. ASSUME NEW j \in 1 .. Len(ops)
       PROVE  ActiveFollows(disk, unrestored, ops, j)
  <2>1. CASE ops[j] = a BY <2>1, <1>14, FilesDiffer DEF ActiveFollows
  <2>2. CASE ops[j] = b
    BY <2>2, <1>14, <1>15, <1>20, FilesDiffer DEF ActiveFollows, Precedes
  <2>3. CASE ops[j] = e BY <2>3, <1>18, FilesDiffer DEF ActiveFollows
  <2> QED BY <1>20, <2>1, <2>2, <2>3
<1>23. ASSUME NEW j \in 1 .. Len(ops)
       PROVE  \/ ops[j].file = Plan /\ ops[j].text \in PlanTexts \cup {Absent}
              \/ /\ ops[j].file = State /\ disk[State] # Absent
                 /\ ops[j].text \in StateTexts
                 /\ ops[j].text.notes = disk[State].notes
                 /\ ops[j].text.links = disk[State].links
              \/ /\ ops[j].file = Roadmap /\ ops[j].text \in RoadmapTexts
                 /\ \A f \in ArchivePaths :
                      Naming(ops[j].text, f) => Kept(disk, unrestored, f)
  BY <1>11, <1>14, <1>15, <1>18, <1>20, <1>21
<1>24. Careful(disk, unrestored, ops)
  BY <1>11, <1>20, <1>22, <1>23, ThreeFilesCareful
<1>25. ArchivedFirst(disk, ops, "plan") BY DEF ArchivedFirst
<1>26. Compaction \o Tail(c) \in Seq(Requests) BY <1>12, CompactionTypes
<1>27. "plan" \in Kinds BY DEF Kinds
<1> QED BY <1>9, <1>11, <1>24, <1>25, <1>26, <1>27, BeginKeeps

LEMMA CancelKeeps ==
  ASSUME IInv, NEW p \in Procs, Cancel(p)
  PROVE  IInv'
<1>1. PICK c \in Pending(p) :
        /\ Asked(p, "cancel", c)
        /\ \E map \in Changed(disk, Update(Head(c).item, "accepted", NoPath,
                                           NoPath, "", TRUE)) :
             Begin(p, "plan-cancel",
               CancelOps(disk[State],
                         IF Head(c).keep THEN <<>> ELSE <<Delete(Plan)>>, map),
               Tail(c))
  BY DEF Cancel
<1>2. PICK r : r = Head(c) OBVIOUS
<1>3. PICK u : u = Update(r.item, "accepted", NoPath, NoPath, "", TRUE)
  OBVIOUS
<1>4. PICK map \in Changed(disk, u) :
        Begin(p, "plan-cancel",
          CancelOps(disk[State], IF r.keep THEN <<>> ELSE <<Delete(Plan)>>, map),
          Tail(c))
  BY <1>1, <1>2, <1>3
<1>5. PICK a : a = Op(State, [disk[State] EXCEPT !.status = "none",
                                                 !.phase = ""])
  OBVIOUS
<1>6. PICK b : b = Delete(Plan) OBVIOUS
<1>7. PICK C : C = Write(disk, Roadmap, map) OBVIOUS
<1>8. PICK B : B = IF r.keep THEN <<>> ELSE <<b>> OBVIOUS
<1>9. PICK ops : ops = <<a>> \o B \o C OBVIOUS
<1>10. Begin(p, "plan-cancel", ops, Tail(c)) /\ tx = NoTx
  BY <1>4, <1>5, <1>6, <1>7, <1>8, <1>9 DEF CancelOps, Begin
<1>11. disk[State] \in StateTexts /\ disk[State] # Absent
       /\ Good(disk, unrestored, written) /\ OtherTypes /\ DiskOK(disk)
  BY <1>1, <1>10, Found DEF Asked
<1>12. Tail(c) \in Seq(Requests) /\ r \in Requests /\ r.do = "cancel"
  BY <1>1, <1>2, <1>11, PendingTypes DEF Asked
<1>13. r.item \in Items \cup {NoItem}
  BY <1>12, RequestFields
<1>14. /\ a \in Operations /\ a.file = State
       /\ a.text \in StateTexts /\ a.text # Absent
       /\ a.text.notes = disk[State].notes
       /\ a.text.links = disk[State].links /\ a.text.status = "none"
  <2> DEFINE x == [disk[State] EXCEPT !.status = "none", !.phase = ""]
  <2>1. x \in StateTexts /\ x.notes = disk[State].notes
        /\ x.links = disk[State].links /\ x.status = "none"
    BY <1>11 DEF StateTexts, PhaseStatuses
  <2>2. a = Op(State, x) BY <1>5
  <2> HIDE DEF x
  <2> QED BY <2>1, <2>2, OperationTypes
<1>15. b \in Operations /\ b.file = Plan /\ b.text = Absent
  BY <1>6, OperationTypes DEF Delete
<1>16. u \in Updates /\ u.item = r.item /\ u.related = NoPath
       /\ u.archived = NoPath
  BY <1>3, <1>13 DEF Update, Updates, ItemStatuses, Facts
<1>17. RoadmapPart(disk, u, C)
  BY <1>4, <1>7, <1>11, <1>16, UpdateRoadmap
<1>18. PICK e \in Operations :
         /\ e.file = Roadmap /\ Optional(C, e)
         /\ C = <<e>> =>
              /\ disk[Roadmap] # Absent /\ e.text \in RoadmapTexts
              /\ \A f \in ArchivePaths :
                   Naming(e.text, f) =>
                     \/ Naming(disk[Roadmap], f)
                     \/ u.related = f \/ u.archived = f
  BY <1>17 DEF RoadmapPart, Optional
<1>19. PICK o : Arranged(ops, a, b, e, o, <<a>>, B, C, <<>>)
  <2>1. Optional(<<a>>, a) /\ Optional(B, b) BY <1>8 DEF Optional
  <2>2. /\ a.file # b.file /\ a.file # e.file /\ b.file # e.file
        /\ a.file \notin HistoryPaths /\ b.file \notin HistoryPaths
        /\ e.file \notin HistoryPaths
    BY <1>14, <1>15, <1>18, FilesDiffer
  <2> QED BY <1>9, <1>14, <1>15, <1>18, <2>1, <2>2, InOrderOfThree
<1>20. /\ ops \in Seq(Operations) /\ Distinct(ops)
       /\ Precedes(ops, a, b)
       /\ \A j \in 1 .. Len(ops) :
            ops[j] = a \/ ops[j] = b \/ (ops[j] = e /\ C = <<e>>)
  BY <1>19 DEF Arranged
<1>21. \A f \in ArchivePaths :
         C = <<e>> /\ Naming(e.text, f) => Kept(disk, unrestored, f)
  BY <1>11, <1>16, <1>18, FilesDiffer DEF Good, EvidenceOK
<1>22. ASSUME NEW j \in 1 .. Len(ops)
       PROVE  ActiveFollows(disk, unrestored, ops, j)
  <2>1. CASE ops[j] = a BY <2>1, <1>14, FilesDiffer DEF ActiveFollows
  <2>2. CASE ops[j] = b
    <3>1. PICK k \in 1 .. j - 1 : ops[k] = a BY <1>20, <2>2 DEF Precedes
    <3>2. ops[k].file = State /\ ops[k].text.status # "active"
      BY <3>1, <1>14
    <3> QED BY <2>2, <3>2, <1>15, FilesDiffer DEF ActiveFollows
  <2>3. CASE ops[j] = e BY <2>3, <1>18, FilesDiffer DEF ActiveFollows
  <2> QED BY <1>20, <2>1, <2>2, <2>3
<1>23. ASSUME NEW j \in 1 .. Len(ops)
       PROVE  \/ ops[j].file = Plan /\ ops[j].text \in PlanTexts \cup {Absent}
              \/ /\ ops[j].file = State /\ disk[State] # Absent
                 /\ ops[j].text \in StateTexts
                 /\ ops[j].text.notes = disk[State].notes
                 /\ ops[j].text.links = disk[State].links
              \/ /\ ops[j].file = Roadmap /\ ops[j].text \in RoadmapTexts
                 /\ \A f \in ArchivePaths :
                      Naming(ops[j].text, f) => Kept(disk, unrestored, f)
  BY <1>11, <1>14, <1>15, <1>18, <1>20, <1>21
<1>24. Careful(disk, unrestored, ops)
  BY <1>11, <1>20, <1>22, <1>23, ThreeFilesCareful
<1>25. ArchivedFirst(disk, ops, "plan-cancel") BY DEF ArchivedFirst
<1>26. "plan-cancel" \in Kinds BY DEF Kinds
<1> QED BY <1>10, <1>11, <1>12, <1>24, <1>25, <1>26, BeginKeeps

LEMMA WritebackKeeps ==
  ASSUME IInv, NEW p \in Procs, Writeback(p)
  PROVE  IInv'
<1>1. PICK c \in Pending(p) :
        /\ Asked(p, "writeback", c)
        /\ \E map \in Changed(disk, Update(Head(c).item, Head(c).status, Plan,
                                           NoPath, Head(c).facts, FALSE)) :
             Begin(p, "writeback",
               Write(disk, State, [disk[State] EXCEPT !.phase = Head(c).phase])
               \o (IF disk[Plan] = Absent THEN <<>>
                   ELSE Write(disk, Plan,
                              [disk[Plan] EXCEPT !.phase = Head(c).phase]))
               \o (IF Head(c).item = NoItem THEN <<>>
                   ELSE Write(disk, Roadmap, map)),
               (IF [disk[State] EXCEPT !.phase = Head(c).phase] = disk[State]
                THEN <<>> ELSE Compaction) \o Tail(c))
  BY DEF Writeback
<1>2. PICK r : r = Head(c) OBVIOUS
<1>3. PICK u : u = Update(r.item, r.status, Plan, NoPath, r.facts, FALSE)
  OBVIOUS
<1>5. PICK x : x = [disk[State] EXCEPT !.phase = r.phase] OBVIOUS
<1>6. PICK y : y = IF disk[Plan] = Absent THEN Absent
                   ELSE [disk[Plan] EXCEPT !.phase = r.phase]
  OBVIOUS
<1>4. PICK map \in Changed(disk, u) :
        Begin(p, "writeback",
          Write(disk, State, x)
          \o (IF disk[Plan] = Absent THEN <<>> ELSE Write(disk, Plan, y))
          \o (IF r.item = NoItem THEN <<>> ELSE Write(disk, Roadmap, map)),
          (IF x = disk[State] THEN <<>> ELSE Compaction) \o Tail(c))
  <2>1. CASE disk[Plan] = Absent BY <1>1, <1>2, <1>3, <1>5, <1>6, <2>1
  <2>2. CASE disk[Plan] # Absent BY <1>1, <1>2, <1>3, <1>5, <1>6, <2>2
  <2> QED BY <2>1, <2>2
<1>7. PICK C : C = IF r.item = NoItem THEN <<>> ELSE Write(disk, Roadmap, map)
  OBVIOUS
<1>8. PICK A, B, ops, rest :
        /\ A = Write(disk, State, x)
        /\ B = IF disk[Plan] = Absent THEN <<>> ELSE Write(disk, Plan, y)
        /\ ops = A \o B \o C
        /\ rest = (IF x = disk[State] THEN <<>> ELSE Compaction) \o Tail(c)
  OBVIOUS
<1>9. PICK a, b : a = Op(State, x) /\ b = Op(Plan, y) OBVIOUS
<1>10. Begin(p, "writeback", ops, rest) /\ tx = NoTx
  BY <1>4, <1>7, <1>8 DEF Begin
<1>11. disk[State] \in StateTexts /\ disk[State] # Absent
       /\ Good(disk, unrestored, written) /\ OtherTypes /\ DiskOK(disk)
       /\ (disk[Plan] # Absent => disk[Plan] \in PlanTexts)
  BY <1>1, <1>10, Found DEF Asked
<1>12. Tail(c) \in Seq(Requests) /\ r \in Requests /\ r.do = "writeback"
  BY <1>1, <1>2, <1>11, PendingTypes DEF Asked
<1>13. r.item \in Items \cup {NoItem} /\ r.phase \in PhaseStatuses
       /\ r.status \in ItemStatuses \cup {""} /\ r.facts \in Facts
  BY <1>12, RequestFields
<1>14. /\ a \in Operations /\ a.file = State
       /\ a.text \in StateTexts /\ a.text # Absent
       /\ a.text.notes = disk[State].notes
       /\ a.text.links = disk[State].links
       /\ a.text.status = disk[State].status
  <2>1. x \in StateTexts /\ x.notes = disk[State].notes
        /\ x.links = disk[State].links /\ x.status = disk[State].status
    BY <1>5, <1>11, <1>13 DEF StateTexts
  <2> QED BY <1>9, <2>1, OperationTypes
<1>15. /\ b \in Operations /\ b.file = Plan
       /\ b.text \in PlanTexts \cup {Absent}
       /\ B = <<b>> => b.text \in PlanTexts /\ b.text # Absent
  <2>1. CASE disk[Plan] = Absent
    <3>1. y = Absent /\ B = <<>> BY <1>6, <1>8, <2>1
    <3>2. B # <<b>> BY <3>1
    <3> QED BY <1>9, <3>1, <3>2, OperationTypes
  <2>2. CASE disk[Plan] # Absent
    <3>1. y \in PlanTexts BY <1>6, <1>11, <1>13, <2>2 DEF PlanTexts
    <3> QED BY <1>9, <3>1, OperationTypes
  <2> QED BY <2>1, <2>2
<1>16. u \in Updates /\ u.item = r.item /\ u.related = Plan
       /\ u.archived = NoPath
  BY <1>3, <1>13 DEF Update, Updates, Facts
<1>17. RoadmapPart(disk, u, C)
  BY <1>4, <1>7, <1>11, <1>16, UpdateRoadmap
<1>18. PICK e \in Operations :
         /\ e.file = Roadmap /\ Optional(C, e)
         /\ C = <<e>> =>
              /\ disk[Roadmap] # Absent /\ e.text \in RoadmapTexts
              /\ \A f \in ArchivePaths :
                   Naming(e.text, f) =>
                     \/ Naming(disk[Roadmap], f)
                     \/ u.related = f \/ u.archived = f
  BY <1>17 DEF RoadmapPart, Optional
<1>19. PICK o : Arranged(ops, a, b, e, o, A, B, C, <<>>)
  <2>1. Optional(A, a) /\ Optional(B, b)
    BY <1>8, <1>9, WriteCases DEF Optional
  <2>2. /\ a.file # b.file /\ a.file # e.file /\ b.file # e.file
        /\ a.file \notin HistoryPaths /\ b.file \notin HistoryPaths
        /\ e.file \notin HistoryPaths
    BY <1>14, <1>15, <1>18, FilesDiffer
  <2> QED BY <1>8, <1>14, <1>15, <1>18, <2>1, <2>2, InOrderOfThree
<1>20. /\ ops \in Seq(Operations) /\ Distinct(ops)
       /\ \A j \in 1 .. Len(ops) :
            \/ ops[j] = a
            \/ ops[j] = b /\ B = <<b>>
            \/ ops[j] = e /\ C = <<e>>
  BY <1>19 DEF Arranged
<1>21. \A f \in ArchivePaths :
         C = <<e>> /\ Naming(e.text, f) => Kept(disk, unrestored, f)
  BY <1>11, <1>16, <1>18, FilesDiffer DEF Good, EvidenceOK
<1>27. \A j \in 1 .. Len(ops) : ops[j].file = Plan => ops[j].text # Absent
  BY <1>14, <1>15, <1>18, <1>20, FilesDiffer
<1>22. ASSUME NEW j \in 1 .. Len(ops)
       PROVE  ActiveFollows(disk, unrestored, ops, j)
  <2>1. CASE ops[j] = a
    <3>1. a.text.status = "active" => Kept(disk, unrestored, Plan)
      BY <1>11, <1>14 DEF Good, ActiveOK
    <3> QED BY <2>1, <3>1, <1>14, <1>27, FilesDiffer DEF ActiveFollows
  <2>2. CASE ops[j] # a
    BY <2>2, <1>15, <1>18, <1>20, <1>27, FilesDiffer DEF ActiveFollows
  <2> QED BY <2>1, <2>2
<1>23. ASSUME NEW j \in 1 .. Len(ops)
       PROVE  \/ ops[j].file = Plan /\ ops[j].text \in PlanTexts \cup {Absent}
              \/ /\ ops[j].file = State /\ disk[State] # Absent
                 /\ ops[j].text \in StateTexts
                 /\ ops[j].text.notes = disk[State].notes
                 /\ ops[j].text.links = disk[State].links
              \/ /\ ops[j].file = Roadmap /\ ops[j].text \in RoadmapTexts
                 /\ \A f \in ArchivePaths :
                      Naming(ops[j].text, f) => Kept(disk, unrestored, f)
  BY <1>11, <1>14, <1>15, <1>18, <1>20, <1>21
<1>24. Careful(disk, unrestored, ops)
  BY <1>11, <1>20, <1>22, <1>23, ThreeFilesCareful
<1>25. ArchivedFirst(disk, ops, "writeback") BY <1>27 DEF ArchivedFirst
<1>26. rest \in Seq(Requests)
  <2>1. CASE x = disk[State]
    <3>1. rest = <<>> \o Tail(c) BY <1>8, <2>1
    <3> QED BY <1>12, <3>1
  <2>2. CASE x # disk[State]
    <3>1. rest = Compaction \o Tail(c) BY <1>8, <2>2
    <3> QED BY <1>12, <3>1, CompactionTypes
  <2> QED BY <2>1, <2>2
<1>28. "writeback" \in Kinds BY DEF Kinds
<1> QED BY <1>10, <1>11, <1>24, <1>25, <1>26, <1>28, BeginKeeps

LEMMA RoadmapAloneCareful ==
  ASSUME NEW d, NEW U, NEW w, Good(d, U, w), NEW x \in Operations,
         x.file = Roadmap, NEW ops, Optional(ops, x),
         ops = <<x>> =>
           /\ x.text \in RoadmapTexts
           /\ \A f \in ArchivePaths : Naming(x.text, f) => Kept(d, U, f)
  PROVE  Careful(d, U, ops)
<1>1. /\ ops \in Seq(Operations) /\ Distinct(ops)
      /\ \A j \in 1 .. Len(ops) : ops[j] = x /\ ops = <<x>>
  <2>1. CASE ops = <<>> BY <2>1 DEF Distinct
  <2>2. CASE ops = <<x>>
    <3>1. Len(ops) = 1 /\ ops[1] = x BY <2>2
    <3> QED BY <2>2, <3>1 DEF Distinct
  <2> QED BY <2>1, <2>2 DEF Optional
<1>2. ASSUME NEW j \in 1 .. Len(ops) PROVE ActiveFollows(d, U, ops, j)
  BY <1>1, FilesDiffer DEF ActiveFollows
<1>3. \A j \in 1 .. Len(ops) :
        /\ ops[j].file = Roadmap /\ ops[j].text \in RoadmapTexts
        /\ \A f \in ArchivePaths : Naming(ops[j].text, f) => Kept(d, U, f)
  BY <1>1
<1> QED BY <1>1, <1>2, <1>3, ThreeFilesCareful

LEMMA UpdateItemKeeps ==
  ASSUME IInv, NEW p \in Procs, UpdateItem(p)
  PROVE  IInv'
<1>0. PICK c \in Pending(p) :
        \E a \in Given(Head(c)) :
          /\ Asked(p, "update", c)
          /\ \E map \in Changed(disk, Update(Head(c).item, Head(c).status, NoPath,
                                             a, Head(c).facts, FALSE)) :
               Begin(p, "roadmap", Write(disk, Roadmap, map), Tail(c))
  BY DEF UpdateItem
<1>1. PICK a \in Given(Head(c)) :
        /\ Asked(p, "update", c)
        /\ \E map \in Changed(disk, Update(Head(c).item, Head(c).status, NoPath,
                                           a, Head(c).facts, FALSE)) :
             Begin(p, "roadmap", Write(disk, Roadmap, map), Tail(c))
  BY <1>0
<1>2. PICK r : r = Head(c) OBVIOUS
<1>3. PICK u : u = Update(r.item, r.status, NoPath, a, r.facts, FALSE)
  OBVIOUS
<1>4. PICK map \in Changed(disk, u) :
        Begin(p, "roadmap", Write(disk, Roadmap, map), Tail(c))
  BY <1>1, <1>2, <1>3
<1>5. PICK ops : ops = Write(disk, Roadmap, map) OBVIOUS
<1>6. Begin(p, "roadmap", ops, Tail(c)) /\ tx = NoTx
  BY <1>4, <1>5 DEF Begin
<1>7. /\ Good(disk, unrestored, written) /\ OtherTypes /\ DiskOK(disk)
  BY <1>6, Found
<1>8. Tail(c) \in Seq(Requests) /\ r \in Requests /\ r.do = "update"
  BY <1>1, <1>2, <1>7, PendingTypes DEF Asked
<1>9. r.item \in Items /\ r.status \in ItemStatuses \cup {""} /\ r.facts \in Facts
  BY <1>8, RequestFields
<1>10. a = NoPath \/ (a \in ArchivePaths /\ disk[a] # Absent)
  BY DEF Given
<1>11. u \in Updates /\ u.item = r.item /\ u.related = NoPath
       /\ u.archived = a
  BY <1>3, <1>9, <1>10 DEF Update, Updates
<1>12. RoadmapPart(disk, u, ops)
  BY <1>4, <1>5, <1>7, <1>11, UpdateRoadmap
<1>13. PICK x \in Operations :
         /\ x.file = Roadmap /\ Optional(ops, x)
         /\ ops = <<x>> =>
              /\ disk[Roadmap] # Absent /\ x.text \in RoadmapTexts
              /\ \A f \in ArchivePaths :
                   Naming(x.text, f) =>
                     \/ Naming(disk[Roadmap], f)
                     \/ u.related = f \/ u.archived = f
  BY <1>12 DEF RoadmapPart, Optional
<1>14. \A f \in ArchivePaths :
         ops = <<x>> /\ Naming(x.text, f) => Kept(disk, unrestored, f)
  BY <1>7, <1>10, <1>11, <1>13, FilesDiffer DEF Good, EvidenceOK, Kept
<1>15. Careful(disk, unrestored, ops)
  BY <1>7, <1>13, <1>14, RoadmapAloneCareful
<1>16. ArchivedFirst(disk, ops, "roadmap") BY DEF ArchivedFirst
<1>17. "roadmap" \in Kinds BY DEF Kinds
<1> QED BY <1>6, <1>7, <1>8, <1>15, <1>16, <1>17, BeginKeeps

LEMMA AddItemKeeps ==
  ASSUME IInv, NEW p \in Procs, AddItem(p)
  PROVE  IInv'
<1>0. PICK c \in Pending(p) :
        \E a \in Given(Head(c)) :
          /\ Asked(p, "add", c)
          /\ \E map \in Put(disk, IF disk[Roadmap] = Absent THEN EmptyRoadmap
                                 ELSE disk[Roadmap],
                           Head(c).item,
                           [status |-> Head(c).status, related |-> NoPath,
                            archived |-> a, proved |-> Head(c).facts = "settled"]) :
               Begin(p, "roadmap", Write(disk, Roadmap, map), Tail(c))
  BY DEF AddItem
<1>1. PICK a \in Given(Head(c)) :
        /\ Asked(p, "add", c)
        /\ \E map \in Put(disk, IF disk[Roadmap] = Absent THEN EmptyRoadmap
                               ELSE disk[Roadmap],
                         Head(c).item,
                         [status |-> Head(c).status, related |-> NoPath,
                          archived |-> a, proved |-> Head(c).facts = "settled"]) :
             Begin(p, "roadmap", Write(disk, Roadmap, map), Tail(c))
  BY <1>0
<1>2. PICK r : r = Head(c) OBVIOUS
<1>3. PICK roadmap, text :
        /\ roadmap = IF disk[Roadmap] = Absent THEN EmptyRoadmap
                     ELSE disk[Roadmap]
        /\ text = [status |-> r.status, related |-> NoPath,
                   archived |-> a, proved |-> r.facts = "settled"]
  OBVIOUS
<1>4. PICK map \in Put(disk, roadmap, r.item, text) :
        Begin(p, "roadmap", Write(disk, Roadmap, map), Tail(c))
  BY <1>1, <1>2, <1>3
<1>5. PICK ops : ops = Write(disk, Roadmap, map) OBVIOUS
<1>6. Begin(p, "roadmap", ops, Tail(c)) /\ tx = NoTx
  BY <1>4, <1>5 DEF Begin
<1>7. /\ Good(disk, unrestored, written) /\ OtherTypes /\ DiskOK(disk)
      /\ (disk[Roadmap] # Absent => disk[Roadmap] \in RoadmapTexts)
  BY <1>6, Found
<1>8. Tail(c) \in Seq(Requests) /\ r \in Requests /\ r.do = "add"
  BY <1>1, <1>2, <1>7, PendingTypes DEF Asked
<1>9. r.item \in Items /\ r.status \in ItemStatuses /\ (r.facts = "settled") \in BOOLEAN
  BY <1>8, RequestFields
<1>10. a = NoPath \/ (a \in ArchivePaths /\ disk[a] # Absent)
  BY DEF Given
<1>11. text \in ItemTexts /\ text.related = NoPath /\ text.archived = a
  BY <1>3, <1>9, <1>10 DEF ItemTexts
<1>12. /\ EmptyRoadmap \in RoadmapTexts
       /\ \A f \in ArchivePaths : ~Naming(EmptyRoadmap, f)
  BY FilesDiffer DEF EmptyRoadmap, RoadmapTexts, Naming
<1>13. /\ roadmap \in RoadmapTexts
       /\ \A f \in ArchivePaths :
            Naming(roadmap, f) => Kept(disk, unrestored, f)
  <2>1. CASE disk[Roadmap] = Absent BY <1>3, <1>12, <2>1
  <2>2. CASE disk[Roadmap] # Absent
    BY <1>3, <1>7, <2>2 DEF Good, EvidenceOK
  <2> QED BY <2>1, <2>2
<1>14. /\ map \in RoadmapTexts
       /\ \A f \in ArchivePaths :
            Naming(map, f) =>
              Naming(roadmap, f) \/ text.archived = f \/ text.related = f
  BY <1>4, <1>9, <1>11, <1>13, PutKeeps
<1>15. \A f \in ArchivePaths :
         Naming(map, f) => Kept(disk, unrestored, f)
  BY <1>10, <1>11, <1>13, <1>14, FilesDiffer DEF Kept
<1>16. PICK x : x = Op(Roadmap, map) OBVIOUS
<1>17. /\ x \in Operations /\ x.file = Roadmap /\ x.text = map
       /\ Optional(ops, x)
  <2>1. map \in Texts BY <1>14, FilesDiffer, TextsOfFiles, TextsAreThere
  <2> QED BY <1>5, <1>16, <2>1, FilesDiffer, WriteCases
       DEF Op, Operations, Optional
<1>18. Careful(disk, unrestored, ops)
  BY <1>7, <1>14, <1>15, <1>17, RoadmapAloneCareful
<1>19. ArchivedFirst(disk, ops, "roadmap") BY DEF ArchivedFirst
<1>20. "roadmap" \in Kinds BY DEF Kinds
<1> QED BY <1>6, <1>7, <1>8, <1>18, <1>19, <1>20, BeginKeeps

LEMMA CompactKeeps ==
  ASSUME IInv, NEW p \in Procs, Compact(p)
  PROVE  IInv'
<1>1. PICK c \in Pending(p) :
        /\ Asked(p, "compact", c) /\ WouldCompact(disk)
        /\ Begin(p, "compact",
             CompactOps(
               History(CHOOSE n \in FreeHistory(disk) :
                         \A m \in FreeHistory(disk) : n <= m),
               disk[State].notes
                 \ {n \in disk[State].notes :
                      \A m \in disk[State].notes : m <= n},
               [disk[State] EXCEPT
                  !.notes = {n \in disk[State].notes :
                               \A m \in disk[State].notes : m <= n},
                  !.links = @ \cup
                    {History(CHOOSE n \in FreeHistory(disk) :
                               \A m \in FreeHistory(disk) : n <= m)}]),
             Tail(c))
  BY DEF Compact
<1>2. PICK state, kept, k : 
        /\ state = disk[State]
        /\ kept = {n \in disk[State].notes :
                    \A m \in disk[State].notes : m <= n}
        /\ k = CHOOSE n \in FreeHistory(disk) :
                 \A m \in FreeHistory(disk) : n <= m
  OBVIOUS
<1>3. PICK h, x, y :
        /\ h = History(k) /\ x = disk[State].notes \ kept
        /\ y = [disk[State] EXCEPT !.notes = kept, !.links = @ \cup {h}]
  OBVIOUS
<1>4. PICK a, b, ops : a = Op(h, x) /\ b = Op(State, y) /\ ops = <<a, b>>
  OBVIOUS
<1>5. Begin(p, "compact", ops, Tail(c)) /\ tx = NoTx
  BY <1>1, <1>2, <1>3, <1>4 DEF CompactOps, Begin
<1>6. state \in StateTexts /\ disk[State] # Absent
      /\ Good(disk, unrestored, written) /\ OtherTypes /\ DiskOK(disk)
  BY <1>1, <1>2, <1>5, Found DEF Asked
<1>7. Tail(c) \in Seq(Requests) BY <1>6, PendingTypes
<1>8. h \in HistoryPaths /\ disk[h] = Absent
  <2>1. FreeHistory(disk) # {} /\ FreeHistory(disk) \subseteq Nat
    BY <1>1 DEF WouldCompact, FreeHistory
  <2>2. \E n \in FreeHistory(disk) : \A m \in FreeHistory(disk) : n <= m
    <3>1. PICK n \in FreeHistory(disk) :
            \A m \in FreeHistory(disk) : ~(<<m, n>> \in OpToRel(<, Nat))
      <4>1. IsWellFoundedOn(OpToRel(<, Nat), Nat) BY NatLessThanWellFounded
      <4> QED BY <2>1, <4>1, WFMin
    <3>2. \A m \in FreeHistory(disk) : n <= m
      <4> TAKE m \in FreeHistory(disk)
      <4>1. n \in Nat /\ m \in Nat BY <2>1
      <4>2. m < n => <<m, n>> \in OpToRel(<, Nat) BY <4>1 DEF OpToRel
      <4>3. ~(m < n) BY <3>1, <4>2, Zenon
      <4> QED BY <4>1, <4>3
    <3> QED BY <3>2
  <2>3. k \in FreeHistory(disk) BY <1>2, <2>2
  <2> QED BY <1>3, <2>3 DEF FreeHistory, HistoryPaths
<1>9. /\ a \in Operations /\ a.file = h /\ a.text = x
      /\ x \in SUBSET (1 .. MaxNotes) /\ x # Absent
  <2>1. x \in SUBSET (1 .. MaxNotes) BY <1>2, <1>3, <1>6 DEF StateTexts
  <2>2. x # Absent /\ x \in Texts
    BY <1>8, <2>1, FilesDiffer, TextsOfFiles, TextsAreThere
  <2> QED BY <1>4, <1>8, <2>1, <2>2, FilesDiffer DEF Op, Operations
<1>10. /\ b \in Operations /\ b.file = State /\ b.text = y
       /\ y \in StateTexts /\ y # Absent
       /\ y.status = state.status /\ y.notes = kept
       /\ y.links = state.links \cup {h}
  <2>1. kept \subseteq 1 .. MaxNotes BY <1>2, <1>6 DEF StateTexts
  <2>2. /\ y \in StateTexts /\ y.status = state.status /\ y.notes = kept
        /\ y.links = state.links \cup {h}
    BY <1>2, <1>3, <1>6, <1>8, <2>1 DEF StateTexts
  <2> QED BY <1>4, <2>2, OperationTypes
<1>11. /\ ops \in Seq(Operations) /\ Len(ops) = 2
       /\ ops[1] = a /\ ops[2] = b
  BY <1>4, <1>9, <1>10
<1>12. a.file # b.file BY <1>8, <1>9, <1>10, FilesDiffer
<1>13. \A j \in 1 .. Len(ops) : j = 1 \/ j = 2 BY <1>11
<1>14. Typed(ops)
  BY <1>8, <1>9, <1>10, <1>11, <1>13, TextsOfFiles DEF Typed
<1>15. Distinct(ops) BY <1>11, <1>12, <1>13 DEF Distinct
<1>16. Respectful(disk, ops)
  BY <1>8, <1>9, <1>10, <1>11, <1>13, FilesDiffer DEF Respectful
<1>17. ASSUME NEW j \in 1 .. Len(ops)
       PROVE  /\ ActiveFollows(disk, unrestored, ops, j)
              /\ EvidenceFollows(disk, unrestored, ops, j)
  <2>1. \A i \in 1 .. Len(ops) : ops[i].file # Plan /\ ops[i].file # Roadmap
    BY <1>8, <1>9, <1>10, <1>11, <1>13, FilesDiffer
  <2>2. y.status = "active" => Kept(disk, unrestored, Plan)
    BY <1>2, <1>6, <1>10 DEF Good, ActiveOK
  <2>3. ops[j].file = State => ops[j].text = y
    BY <1>8, <1>9, <1>10, <1>11, <1>13, FilesDiffer
  <2> QED BY <1>10, <2>1, <2>2, <2>3 DEF ActiveFollows, EvidenceFollows
<1>18. ASSUME NEW j \in 1 .. Len(ops) PROVE NotesFollow(disk, ops, j)
  <2>1. CASE j = 1
    BY <1>8, <1>9, <1>11, <2>1, FilesDiffer DEF NotesFollow
  <2>2. CASE j = 2
    <3>1. disk[State].notes \subseteq y.notes \cup x BY <1>2, <1>3, <1>10
    <3>2. 1 \in 1 .. j - 1 BY <2>2
    <3>3. /\ ops[1].file \in HistoryPaths /\ ops[1].text # Absent
          /\ ops[j].text.links = disk[State].links \cup {ops[1].file}
          /\ disk[State].notes \subseteq ops[j].text.notes \cup ops[1].text
      BY <1>2, <1>8, <1>9, <1>10, <1>11, <2>2, <3>1
    <3> QED BY <1>6, <1>10, <1>11, <2>2, <3>2, <3>3 DEF NotesFollow
  <2> QED BY <1>13, <2>1, <2>2
<1>19. Careful(disk, unrestored, ops)
  BY <1>14, <1>15, <1>16, <1>17, <1>18 DEF Careful
<1>20. ArchivedFirst(disk, ops, "compact") BY DEF ArchivedFirst
<1>21. "compact" \in Kinds BY DEF Kinds
<1> QED BY <1>5, <1>6, <1>7, <1>19, <1>20, <1>21, BeginKeeps

\* Where a plan is archived there is nothing, or the same plan.
LEMMA TargetsAreOwn ==
  ASSUME NEW r, DiskOK(disk), disk[Plan] \in PlanTexts, NEW phase,
         NEW text \in PlanTexts, text = [disk[Plan] EXCEPT !.phase = phase],
         NEW a \in Targets(r, text)
  PROVE  /\ a \in ArchivePaths
         /\ disk[a] # Absent => SamePlan(disk[a], text)
<1>1. text.title \in Titles BY DEF PlanTexts
<1>2. 1 \in 1 .. MaxCopy BY LifecycleAssumption
<1>3. CASE disk[Archive(text.title, 1)] \in {Absent, text, disk[Plan]}
  <2>1. a = Archive(text.title, 1) BY <1>3 DEF Targets
  <2>2. a \in ArchivePaths BY <1>1, <1>2, <2>1 DEF ArchivePaths
  <2>3. SamePlan(text, text) /\ SamePlan(disk[Plan], text)
    BY DEF SamePlan, PlanTexts
  <2> QED BY <1>3, <2>1, <2>2, <2>3
<1>4. CASE disk[Archive(text.title, 1)] \notin {Absent, text, disk[Plan]}
  <2>1. PICK n \in 2 .. MaxCopy :
          a = Archive(text.title, n) /\ disk[Archive(text.title, n)] = Absent
    BY <1>4 DEF Targets
  <2>2. n \in 1 .. MaxCopy BY LifecycleAssumption
  <2> QED BY <1>1, <2>1, <2>2 DEF ArchivePaths
<1> QED BY <1>3, <1>4

LEMMA ArchiveKeeps ==
  ASSUME IInv, NEW p \in Procs, ArchivePlan(p)
  PROVE  IInv'
<1>1. PICK c \in Pending(p) :
        /\ Asked(p, "archive", c) /\ Archivable(Head(c))
        /\ \E f \in Targets(Head(c),
                [disk[Plan] EXCEPT !.phase = WrittenPhase(Head(c), disk[State])]) :
           \E map \in Changed(disk, Update(Head(c).item,
                IF Head(c).status = "" THEN "done" ELSE Head(c).status,
                f, f, Head(c).facts, FALSE)) :
             Begin(p, "writeback",
               ArchiveOps(disk[State], WrittenPhase(Head(c), disk[State]), f,
                 [disk[Plan] EXCEPT !.phase = WrittenPhase(Head(c), disk[State])],
                 IF Head(c).item = NoItem THEN <<>>
                 ELSE Write(disk, Roadmap, Retargeted(map, {}))),
               Compaction \o Tail(c))
  BY DEF ArchivePlan
<1>2. PICK r, phase, status :
        /\ r = Head(c) /\ phase = WrittenPhase(Head(c), disk[State])
        /\ status = IF Head(c).status = "" THEN "done" ELSE Head(c).status
  OBVIOUS
<1>3. PICK text : text = [disk[Plan] EXCEPT !.phase = phase] OBVIOUS
<1>4. PICK f \in Targets(r, text) :
        \E map \in Changed(disk, Update(r.item, status, f, f, r.facts, FALSE)) :
          Begin(p, "writeback",
            ArchiveOps(disk[State], phase, f, text,
              IF r.item = NoItem THEN <<>>
              ELSE Write(disk, Roadmap, Retargeted(map, {}))),
            Compaction \o Tail(c))
  BY <1>1, <1>2, <1>3
<1>5. PICK u : u = Update(r.item, status, f, f, r.facts, FALSE) OBVIOUS
<1>6. PICK map \in Changed(disk, u) :
        Begin(p, "writeback",
          ArchiveOps(disk[State], phase, f, text,
            IF r.item = NoItem THEN <<>>
            ELSE Write(disk, Roadmap, Retargeted(map, {}))),
          Compaction \o Tail(c))
  BY <1>4, <1>5
<1>7. PICK a, b, d :
        /\ a = Op(State, [disk[State] EXCEPT !.status = "none", !.phase = phase])
        /\ b = Op(f, text) /\ d = Delete(Plan)
  OBVIOUS
<1>8. PICK B, E, ops :
        /\ B = Write(disk, f, text)
        /\ E = IF r.item = NoItem THEN <<>>
               ELSE Write(disk, Roadmap, Retargeted(map, {}))
        /\ ops = <<a>> \o B \o <<d>> \o E
  OBVIOUS
<1>9. Begin(p, "writeback", ops, Compaction \o Tail(c)) /\ tx = NoTx
  BY <1>6, <1>7, <1>8 DEF ArchiveOps, Begin
<1>10. /\ disk[State] \in StateTexts /\ disk[State] # Absent
       /\ Good(disk, unrestored, written) /\ OtherTypes /\ DiskOK(disk)
       /\ disk[Plan] \in PlanTexts
  BY <1>1, <1>9, Found DEF Asked, Archivable
<1>11. Tail(c) \in Seq(Requests) /\ r \in Requests /\ r.do = "archive"
  BY <1>1, <1>2, <1>10, PendingTypes DEF Asked
<1>12. /\ r.item \in Items \cup {NoItem} /\ r.facts \in Facts
       /\ status \in ItemStatuses \cup {""} /\ phase \in PhaseStatuses
  <2>1. /\ r.item \in Items \cup {NoItem} /\ r.facts \in Facts
        /\ r.status \in ItemStatuses \cup {""}
        /\ r.phase \in ArchivablePhases \cup {""}
    BY <1>11, RequestFields
  <2>2. phase \in ArchivablePhases
    BY <1>1, <1>2, <2>1 DEF Archivable, WrittenPhase
  <2>3. "done" \in ItemStatuses BY DEF ItemStatuses, Terminal
  <2> QED BY <1>2, <2>1, <2>2, <2>3 DEF PhaseStatuses
<1>13. text \in PlanTexts /\ SamePlan(text, disk[Plan])
  BY <1>3, <1>10, <1>12 DEF PlanTexts, SamePlan
<1>14. /\ f \in ArchivePaths
       /\ disk[f] # Absent => SamePlan(disk[f], text)
  BY <1>3, <1>10, <1>13, TargetsAreOwn
<1>15. /\ a \in Operations /\ a.file = State
       /\ a.text \in StateTexts /\ a.text # Absent
       /\ a.text.notes = disk[State].notes
       /\ a.text.links = disk[State].links /\ a.text.status = "none"
  <2> DEFINE x == [disk[State] EXCEPT !.status = "none", !.phase = phase]
  <2>1. x \in StateTexts /\ x.notes = disk[State].notes
        /\ x.links = disk[State].links /\ x.status = "none"
    BY <1>10, <1>12 DEF StateTexts
  <2>2. a = Op(State, x) BY <1>7
  <2> HIDE DEF x
  <2> QED BY <2>1, <2>2, OperationTypes
<1>16. b \in Operations /\ b.file = f /\ b.text = text /\ text # Absent
  BY <1>7, <1>13, <1>14, OperationTypes
<1>17. d \in Operations /\ d.file = Plan /\ d.text = Absent
  BY <1>7, OperationTypes DEF Delete
<1>18. u \in Updates /\ u.item = r.item /\ u.related = f /\ u.archived = f
  BY <1>5, <1>12, <1>14 DEF Update, Updates
<1>19. RoadmapPart(disk, u, E)
  BY <1>6, <1>8, <1>10, <1>18, UpdateRoadmap
<1>20. PICK e \in Operations :
         /\ e.file = Roadmap /\ Optional(E, e)
         /\ E = <<e>> =>
              /\ disk[Roadmap] # Absent /\ e.text \in RoadmapTexts
              /\ \A g \in ArchivePaths :
                   Naming(e.text, g) =>
                     \/ Naming(disk[Roadmap], g)
                     \/ u.related = g \/ u.archived = g
  BY <1>19 DEF RoadmapPart, Optional
<1>21. Arranged(ops, a, b, d, e, <<a>>, B, <<d>>, E)
  <2>1. Optional(<<a>>, a) /\ Optional(B, b) /\ Optional(<<d>>, d)
    BY <1>7, <1>8, WriteCases DEF Optional
  <2>2. /\ a.file # b.file /\ a.file # d.file /\ a.file # e.file
        /\ b.file # d.file /\ b.file # e.file /\ d.file # e.file
    BY <1>14, <1>15, <1>16, <1>17, <1>20, FilesDiffer
  <2> QED BY <1>8, <1>15, <1>16, <1>17, <1>20, <2>1, <2>2, InOrder
<1>22. /\ ops \in Seq(Operations) /\ Distinct(ops)
       /\ Precedes(ops, a, d)
       /\ B = <<b>> => Precedes(ops, b, d) /\ Precedes(ops, b, e)
       /\ \A j \in 1 .. Len(ops) :
            \/ ops[j] = a \/ ops[j] = d
            \/ ops[j] = b /\ B = <<b>>
            \/ ops[j] = e /\ E = <<e>>
  BY <1>21 DEF Arranged
<1>23. B = <<b>> \/ disk[f] = text
  BY <1>7, <1>8, WriteCases
<1>24. Typed(ops)
  <2>1. \A j \in 1 .. Len(ops) :
          ops[j].text \in FileTexts(ops[j].file) \cup {Absent}
    <3> TAKE j \in 1 .. Len(ops)
    <3>1. CASE ops[j] = a BY <3>1, <1>15, TextsOfFiles
    <3>2. CASE ops[j] = d BY <3>2, <1>17
    <3>3. CASE ops[j] = b BY <3>3, <1>13, <1>14, <1>16, TextsOfFiles
    <3>4. CASE ops[j] = e /\ E = <<e>> BY <3>4, <1>20, TextsOfFiles
    <3> QED BY <1>22, <3>1, <3>2, <3>3, <3>4
  <2> QED BY <1>22, <2>1 DEF Typed
<1>25. Respectful(disk, ops)
  <2> SUFFICES ASSUME NEW j \in 1 .. Len(ops)
               PROVE  /\ ops[j].file \in HistoryPaths => disk[ops[j].file] = Absent
                      /\ ops[j].file \in ArchivePaths =>
                           /\ ops[j].text # Absent
                           /\ disk[ops[j].file] # Absent =>
                                SamePlan(disk[ops[j].file], ops[j].text)
    BY DEF Respectful
  <2>1. CASE ops[j] = b BY <2>1, <1>14, <1>16, FilesDiffer
  <2>2. CASE ops[j] # b
    BY <2>2, <1>15, <1>17, <1>20, <1>22, FilesDiffer
  <2> QED BY <2>1, <2>2
<1>26. ASSUME NEW j \in 1 .. Len(ops)
       PROVE  ActiveFollows(disk, unrestored, ops, j)
  <2>1. CASE ops[j] = a BY <2>1, <1>15, FilesDiffer DEF ActiveFollows
  <2>2. CASE ops[j] = d
    <3>1. PICK k \in 1 .. j - 1 : ops[k] = a BY <1>22, <2>2 DEF Precedes
    <3>2. ops[k].file = State /\ ops[k].text.status # "active"
      BY <3>1, <1>15
    <3> QED BY <2>2, <3>2, <1>17, FilesDiffer DEF ActiveFollows
  <2>3. CASE ops[j] = b BY <2>3, <1>14, <1>16, FilesDiffer DEF ActiveFollows
  <2>4. CASE ops[j] = e BY <2>4, <1>20, FilesDiffer DEF ActiveFollows
  <2> QED BY <1>22, <2>1, <2>2, <2>3, <2>4
<1>27. ASSUME NEW j \in 1 .. Len(ops)
       PROVE  EvidenceFollows(disk, unrestored, ops, j)
  <2> SUFFICES ASSUME ops[j].file = Roadmap
               PROVE  /\ ops[j].text # Absent
                      /\ \A g \in ArchivePaths :
                           Naming(ops[j].text, g) =>
                             \/ Kept(disk, unrestored, g)
                             \/ \E k \in 1 .. j - 1 : ops[k].file = g
    BY DEF EvidenceFollows
  <2>1. ops[j] = e /\ E = <<e>>
    BY <1>14, <1>15, <1>16, <1>17, <1>22, FilesDiffer
  <2>2. ops[j].text # Absent
    BY <1>20, <2>1, FilesDiffer, TextsOfFiles, TextsAreThere
  <2>3. \/ Kept(disk, unrestored, f)
        \/ \E k \in 1 .. j - 1 : ops[k].file = f
    <3>1. CASE B = <<b>> BY <1>16, <1>22, <2>1, <3>1 DEF Precedes
    <3>2. CASE disk[f] = text BY <1>16, <3>2 DEF Kept
    <3> QED BY <1>23, <3>1, <3>2
  <2>4. \A g \in ArchivePaths :
          Naming(ops[j].text, g) => Kept(disk, unrestored, g) \/ g = f
    BY <1>10, <1>18, <1>20, <2>1 DEF Good, EvidenceOK
  <2> QED BY <2>2, <2>3, <2>4
<1>28. ASSUME NEW j \in 1 .. Len(ops) PROVE NotesFollow(disk, ops, j)
  <2>1. ops[j].file = State => ops[j] = a
    BY <1>14, <1>15, <1>16, <1>17, <1>20, <1>22, FilesDiffer
  <2> QED BY <1>10, <1>15, <2>1 DEF NotesFollow
<1>29. Careful(disk, unrestored, ops)
  BY <1>22, <1>24, <1>25, <1>26, <1>27, <1>28 DEF Careful
<1>30. ArchivedFirst(disk, ops, "writeback")
  <2> SUFFICES ASSUME NEW j \in 1 .. Len(ops),
                      ops[j].file = Plan, ops[j].text = Absent
               PROVE  After(disk, ops, j - 1)[f] = text
    BY <1>13, <1>14, <1>16 DEF ArchivedFirst
  <2>1. ops[j] = d
    BY <1>14, <1>15, <1>16, <1>17, <1>20, <1>22, FilesDiffer
  <2>2. Len(ops) \in Nat /\ j - 1 \in 0 .. Len(ops) BY <1>22
  <2>3. f \in Files BY <1>14, FilesDiffer
  <2>4. CASE B = <<b>>
    <3>1. PICK k \in 1 .. j - 1 : ops[k] = b
      BY <1>22, <2>1, <2>4 DEF Precedes
    <3>2. After(disk, ops, j - 1)[ops[k].file] = ops[k].text
      BY <1>16, <1>22, <2>2, <2>3, <3>1, AfterDone
    <3> QED BY <1>16, <3>1, <3>2
  <2>5. CASE B # <<b>>
    <3>1. \A k \in 1 .. j - 1 : ops[k].file # f
      BY <1>14, <1>15, <1>17, <1>20, <1>22, <2>2, <2>5, FilesDiffer
    <3>2. After(disk, ops, j - 1)[f] = disk[f]
      BY <2>2, <2>3, <3>1, AfterElse
    <3> QED BY <1>23, <2>5, <3>2
  <2> QED BY <2>4, <2>5
<1>31. Compaction \o Tail(c) \in Seq(Requests) BY <1>11, CompactionTypes
<1>32. "writeback" \in Kinds BY DEF Kinds
<1> QED BY <1>9, <1>10, <1>29, <1>30, <1>31, <1>32, BeginKeeps

(***************************************************************************)
(* The steps of a transaction.                                             *)
(***************************************************************************)
LEMMA Ongoing ==
  ASSUME IInv, tx # NoTx
  PROVE  /\ OtherTypes /\ tx \in Transactions /\ Position
         /\ Decided(tx.old, tx.ops, tx.kind, unrestored, written)
         /\ Typed(tx.ops) /\ Distinct(tx.ops)
         /\ Len(tx.ops) \in Nat /\ tx.n \in Nat /\ tx.done \in Nat
         /\ tx.rolling \in BOOLEAN /\ tx.gap \in BOOLEAN
         /\ tx.proc \in Procs /\ tx.kind \in Kinds
         /\ tx.old \in [Files -> Texts]
<1>1. OtherTypes /\ tx \in Transactions /\ Position
      /\ Decided(tx.old, tx.ops, tx.kind, unrestored, written)
  BY DEF IInv
<1>2. /\ tx.n \in Nat /\ tx.done \in Nat
      /\ tx.proc \in Procs /\ tx.kind \in Kinds
      /\ tx.old \in [Files -> Texts]
  BY <1>1 DEF Transactions
<1>3. tx.rolling \in BOOLEAN /\ tx.gap \in BOOLEAN
  BY <1>1 DEF Transactions
<1>4. Typed(tx.ops) /\ Distinct(tx.ops) BY <1>1 DEF Decided
<1>5. Len(tx.ops) \in Nat BY <1>4 DEF Typed
<1> QED BY <1>1, <1>2, <1>3, <1>4, <1>5

\* A transaction goes on with the operations it has decided on.
LEMMA GoesOn ==
  ASSUME IInv, tx # NoTx,
         NEW n \in Nat, NEW done \in Nat, NEW rolling \in BOOLEAN,
         NEW gap \in BOOLEAN,
         tx' = [proc |-> tx.proc, kind |-> tx.kind, old |-> tx.old,
                ops |-> tx.ops, n |-> n, done |-> done,
                rolling |-> rolling, gap |-> gap],
         OtherTypes', unrestored' = unrestored, written' = written,
         Position'
  PROVE  IInv'
<1>1. tx \in Transactions BY DEF IInv
<1>2. tx' \in Transactions BY <1>1 DEF Transactions
<1>3. tx' # NoTx BY <1>2, LifecycleAssumption
<1>4. Decided(tx.old, tx.ops, tx.kind, unrestored, written) BY DEF IInv
<1>5. tx'.old = tx.old /\ tx'.ops = tx.ops /\ tx'.kind = tx.kind OBVIOUS
<1>6. Decided(tx.old, tx.ops, tx.kind, unrestored, written)' BY <1>4, <1>5
<1> QED BY <1>2, <1>3, <1>6 DEF IInv

LEMMA TransactionRecord ==
  ASSUME tx \in Transactions
  PROVE  tx = [proc |-> tx.proc, kind |-> tx.kind, old |-> tx.old,
               ops |-> tx.ops, n |-> tx.n, done |-> tx.done,
               rolling |-> tx.rolling, gap |-> tx.gap]
BY DEF Transactions

LEMMA InstallKeeps ==
  ASSUME IInv, Install
  PROVE  IInv'
<1>1. tx # NoTx /\ ~tx.rolling BY DEF Install, Running
<1>2. /\ OtherTypes /\ tx \in Transactions /\ Position
      /\ Len(tx.ops) \in Nat /\ tx.n \in Nat /\ tx.done \in Nat
  BY <1>1, Ongoing
<1>3. tx.n = tx.done /\ ~tx.gap BY <1>1, <1>2 DEF Position
<1>4. tx' = [proc |-> tx.proc, kind |-> tx.kind, old |-> tx.old,
             ops |-> tx.ops, n |-> tx.n + 1, done |-> tx.n + 1,
             rolling |-> FALSE, gap |-> FALSE]
  <2>1. tx.rolling = FALSE /\ tx.gap = FALSE
    BY <1>1, <1>2, <1>3 DEF Transactions
  <2> QED BY <1>2, <1>3, <2>1, TransactionRecord DEF Install
<1>5. OtherTypes' BY <1>2 DEF OtherTypes, Install
<1>6. /\ tx.n + 1 \in Nat /\ tx.n + 1 \in 0 .. Len(tx.ops)
      /\ disk' = After(tx.old, tx.ops, tx.n + 1)
      /\ unrestored' = unrestored /\ written' = written
  BY <1>2 DEF Install
<1>7. Position' BY <1>4, <1>6 DEF Position
<1>8. FALSE \in BOOLEAN OBVIOUS
<1> QED BY <1>1, <1>4, <1>5, <1>6, <1>7, <1>8, GoesOn

LEMMA FailKeeps ==
  ASSUME IInv, Fail
  PROVE  IInv'
<1>1. tx # NoTx /\ ~tx.rolling BY DEF Fail, Running
<1>2. /\ OtherTypes /\ tx \in Transactions /\ Position
      /\ Len(tx.ops) \in Nat /\ tx.n \in Nat /\ tx.done \in Nat
  BY <1>1, Ongoing
<1>3. tx.n = tx.done /\ ~tx.gap /\ disk = After(tx.old, tx.ops, tx.n)
  BY <1>1, <1>2 DEF Position
<1>4. PICK n \in {tx.n, tx.n + 1} : tx' = [tx EXCEPT !.rolling = TRUE, !.n = n]
  BY DEF Fail
<1>5. tx' = [proc |-> tx.proc, kind |-> tx.kind, old |-> tx.old,
             ops |-> tx.ops, n |-> n, done |-> tx.done,
             rolling |-> TRUE, gap |-> FALSE]
  <2>1. tx.gap = FALSE BY <1>2, <1>3 DEF Transactions
  <2> QED BY <1>2, <1>4, <2>1, TransactionRecord
<1>6. trouble' \in 0 .. MaxTrouble
  <2>1. trouble \in 0 .. MaxTrouble /\ trouble < MaxTrouble
        /\ trouble' = trouble + 1
    BY <1>2 DEF OtherTypes, Fail
  <2> QED BY <2>1, LifecycleAssumption
<1>7. /\ todo' = todo /\ leftovers' = leftovers
      /\ unrestored' = unrestored /\ written' = written /\ disk' = disk
  BY DEF Fail, files
<1>8. OtherTypes' BY <1>2, <1>6, <1>7 DEF OtherTypes
<1>9. Position' BY <1>2, <1>3, <1>4, <1>5 DEF Position, Fail, files
<1>10. n \in Nat /\ TRUE \in BOOLEAN /\ FALSE \in BOOLEAN BY <1>2, <1>4
<1> QED BY <1>1, <1>2, <1>5, <1>7, <1>8, <1>9, <1>10, GoesOn

LEMMA RemoveKeeps ==
  ASSUME IInv, Remove
  PROVE  IInv'
<1>1. tx # NoTx /\ tx.rolling /\ ~tx.gap /\ tx.n > 0
  BY DEF Remove, RollingBack
<1>2. /\ OtherTypes /\ tx \in Transactions /\ Position
      /\ Typed(tx.ops) /\ Distinct(tx.ops)
      /\ Len(tx.ops) \in Nat /\ tx.n \in Nat /\ tx.done \in Nat
      /\ tx.old \in [Files -> Texts]
  BY <1>1, Ongoing
<1>3. PICK n, f : n = tx.n /\ f = tx.ops[tx.n].file OBVIOUS
<1>4. /\ n \in 1 .. Len(tx.ops) /\ tx.done \in 0 .. Len(tx.ops) - 1
      /\ n \in 0 .. tx.done + 1
      /\ \/ disk = After(tx.old, tx.ops, n)
         \/ disk = After(tx.old, tx.ops, n - 1)
  BY <1>1, <1>2, <1>3 DEF Position
<1>5. f \in Files
  <2>1. tx.ops[n] \in Operations BY <1>2, <1>4 DEF Typed
  <2> QED BY <1>3, <2>1 DEF Operations
<1>6. \A g \in Files :
        g # f => After(tx.old, tx.ops, n)[g] = After(tx.old, tx.ops, n - 1)[g]
  BY <1>2, <1>3, <1>4, AfterStep DEF OneMore
<1>7. disk' = [After(tx.old, tx.ops, n - 1) EXCEPT ![f] = Absent]
  <2>1. disk' = [disk EXCEPT ![f] = Absent] BY <1>3 DEF Remove
  <2>2. /\ After(tx.old, tx.ops, n)
            = [g \in Files |-> After(tx.old, tx.ops, n)[g]]
        /\ After(tx.old, tx.ops, n - 1)
            = [g \in Files |-> After(tx.old, tx.ops, n - 1)[g]]
    BY DEF After
  <2> QED BY <1>4, <1>6, <2>1, <2>2
<1>8. tx' = [proc |-> tx.proc, kind |-> tx.kind, old |-> tx.old,
             ops |-> tx.ops, n |-> tx.n, done |-> tx.done,
             rolling |-> TRUE, gap |-> TRUE]
  <2>1. tx.rolling = TRUE BY <1>1, <1>2 DEF Transactions
  <2> QED BY <1>2, <2>1, TransactionRecord DEF Remove
<1>9. OtherTypes' BY <1>2 DEF OtherTypes, Remove
<1>10. Position' BY <1>2, <1>3, <1>4, <1>7, <1>8 DEF Position
<1> QED BY <1>1, <1>2, <1>8, <1>9, <1>10, GoesOn DEF Remove

LEMMA RestoreKeeps ==
  ASSUME IInv, Restore
  PROVE  IInv'
<1>1. tx # NoTx /\ tx.rolling /\ tx.n > 0 BY DEF Restore, RollingBack
<1>2. /\ OtherTypes /\ tx \in Transactions /\ Position
      /\ Len(tx.ops) \in Nat /\ tx.n \in Nat /\ tx.done \in Nat
  BY <1>1, Ongoing
<1>3. /\ tx.done \in 0 .. Len(tx.ops) - 1 /\ tx.n \in 0 .. tx.done + 1
  BY <1>1, <1>2 DEF Position
<1>4. tx' = [proc |-> tx.proc, kind |-> tx.kind, old |-> tx.old,
             ops |-> tx.ops, n |-> tx.n - 1, done |-> tx.done,
             rolling |-> TRUE, gap |-> FALSE]
  <2>1. tx.rolling = TRUE BY <1>1, <1>2 DEF Transactions
  <2> QED BY <1>2, <2>1, TransactionRecord DEF Restore
<1>5. disk' = After(tx.old, tx.ops, tx.n - 1) BY DEF Restore
<1>6. OtherTypes' BY <1>2 DEF OtherTypes, Restore
<1>7. tx.n - 1 \in Nat BY <1>1, <1>2
<1>8. Position' BY <1>2, <1>3, <1>4, <1>5, <1>7 DEF Position
<1> QED BY <1>1, <1>2, <1>4, <1>6, <1>7, <1>8, GoesOn DEF Restore

LEMMA CommitKeeps ==
  ASSUME IInv, Commit
  PROVE  IInv'
<1>1. tx # NoTx /\ ~tx.rolling /\ tx' = NoTx BY DEF Commit, Running
<1>2. /\ OtherTypes /\ Position /\ Len(tx.ops) \in Nat
      /\ Decided(tx.old, tx.ops, tx.kind, unrestored, written)
  BY <1>1, Ongoing
<1>3. Good(disk, unrestored, written)
  <2>1. disk = After(tx.old, tx.ops, tx.n) /\ tx.n \in 0 .. Len(tx.ops)
    BY <1>1, <1>2 DEF Position
  <2> QED BY <1>2, <2>1 DEF Decided
<1>4. /\ disk' = disk /\ unrestored' = unrestored /\ written' = written
  BY DEF Commit, files
<1>5. OtherTypes' BY <1>2 DEF OtherTypes, Commit, files
<1>6. Good(disk, unrestored, written)' BY <1>3, <1>4
<1> QED BY <1>1, <1>5, <1>6 DEF IInv

LEMMA SidecarTypes ==
  ASSUME NEW kind \in Kinds, NEW op, op.file \in Files
  PROVE  Sidecars(kind, op) \subseteq Kinds \X Files \X {"tmp", "backup"}
BY DEF Sidecars

LEMMA GiveUpKeeps ==
  ASSUME IInv, GiveUp
  PROVE  IInv'
<1>1. tx # NoTx /\ tx.rolling /\ tx.n = 0 /\ tx' = NoTx
  BY DEF GiveUp, RollingBack
<1>2. /\ OtherTypes /\ Position /\ Typed(tx.ops) /\ Len(tx.ops) \in Nat
      /\ Decided(tx.old, tx.ops, tx.kind, unrestored, written)
      /\ tx.kind \in Kinds /\ tx.proc \in Procs /\ tx.done \in Nat
  BY <1>1, Ongoing
<1>3. Good(disk, unrestored, written)
  <2>1. disk = After(tx.old, tx.ops, 0) BY <1>1, <1>2 DEF Position
  <2> QED BY <1>2, <2>1 DEF Decided
<1>4. /\ disk' = disk /\ unrestored' = unrestored /\ written' = written
  BY DEF GiveUp
<1>5. Good(disk, unrestored, written)' BY <1>3, <1>4
<1>6. tx.ops[tx.done + 1].file \in Files
  <2>1. tx.done \in 0 .. Len(tx.ops) - 1 BY <1>1, <1>2 DEF Position
  <2>2. tx.ops[tx.done + 1] \in Operations BY <1>2, <2>1 DEF Typed
  <2> QED BY <2>2 DEF Operations
<1>7. leftovers' \subseteq Kinds \X Files \X {"tmp", "backup"}
  <2>1. PICK left \in {{}} \cup
               {{s} : s \in Sidecars(tx.kind, tx.ops[tx.done + 1])} :
          leftovers' = leftovers \cup left
    BY DEF GiveUp
  <2>2. Sidecars(tx.kind, tx.ops[tx.done + 1])
          \subseteq Kinds \X Files \X {"tmp", "backup"}
    BY <1>2, <1>6, SidecarTypes
  <2>3. left \subseteq Kinds \X Files \X {"tmp", "backup"} BY <2>1, <2>2
  <2> QED BY <1>2, <2>1, <2>3 DEF OtherTypes
<1>8. todo' \in [Procs -> Seq(Requests)]
  <2>1. UNCHANGED todo \/ todo' = [todo EXCEPT ![tx.proc] = <<>>] BY DEF GiveUp
  <2>2. <<>> \in Seq(Requests) OBVIOUS
  <2> QED BY <1>2, <2>1, <2>2 DEF OtherTypes
<1>9. OtherTypes' BY <1>2, <1>7, <1>8 DEF OtherTypes, GiveUp
<1> QED BY <1>1, <1>5, <1>9 DEF IInv

(***************************************************************************)
(* A crash may leave one file only in its backup.                          *)
(***************************************************************************)
LEMMA GapIsGood ==
  ASSUME IInv, tx # NoTx, tx.gap
  PROVE  Good(disk, unrestored \cup {tx.ops[tx.n].file}, written)
<1>1. /\ Position /\ Typed(tx.ops) /\ Distinct(tx.ops)
      /\ Len(tx.ops) \in Nat /\ tx.n \in Nat /\ tx.done \in Nat
      /\ Decided(tx.old, tx.ops, tx.kind, unrestored, written)
  BY Ongoing
<1>2. PICK n, f, d, U :
        /\ n = tx.n /\ f = tx.ops[tx.n].file
        /\ d = After(tx.old, tx.ops, tx.n - 1)
        /\ U = unrestored \cup {tx.ops[tx.n].file}
  OBVIOUS
<1>3. n \in 1 .. Len(tx.ops) /\ disk = [d EXCEPT ![f] = Absent]
  BY <1>1, <1>2 DEF Position
<1>4. Good(d, unrestored, written)
  <2>1. n - 1 \in 0 .. Len(tx.ops) BY <1>1, <1>3
  <2> QED BY <1>1, <1>2, <2>1 DEF Decided
<1>5. d \in [Files -> Texts] /\ DiskOK(d) /\ ActiveOK(d, unrestored)
      /\ EvidenceOK(d, unrestored) /\ NotesOK(d, written)
  BY <1>4 DEF Good
<1>6. f \in Files
  <2>1. tx.ops[n] \in Operations BY <1>1, <1>3 DEF Typed
  <2> QED BY <1>2, <2>1 DEF Operations
<1>7. f \in HistoryPaths => d[f] = Absent
  <2>1. d[f] = tx.old[f]
    <3>1. f = tx.ops[n].file /\ d = After(tx.old, tx.ops, n - 1) BY <1>2
    <3>2. OneMore(tx.old, tx.ops, n) BY <1>1, <1>3, AfterStep
    <3> QED BY <1>6, <3>1, <3>2 DEF OneMore
  <2>2. f \in HistoryPaths => tx.old[f] = Absent
    BY <1>1, <1>2, <1>3 DEF Decided, Respectful
  <2> QED BY <2>1, <2>2
<1>8. /\ disk[f] = Absent
      /\ \A g \in Files : g # f => disk[g] = d[g]
      /\ \A g \in HistoryPaths : disk[g] = d[g]
  BY <1>3, <1>5, <1>6, <1>7, FilesDiffer
<1>9. disk \in [Files -> Texts] /\ DiskOK(disk)
  BY <1>3, <1>5, <1>8 DEF DiskOK, Texts
<1>10. /\ \A g \in Files : Kept(d, unrestored, g) => Kept(disk, U, g)
       /\ \A g \in {State, Plan, Roadmap} :
            disk[g] # Absent => disk[g] = d[g]
  BY <1>2, <1>8, FilesDiffer DEF Kept
<1>11. ActiveOK(disk, U)
  BY <1>5, <1>10, FilesDiffer DEF ActiveOK
<1>12. EvidenceOK(disk, U)
  BY <1>5, <1>10, FilesDiffer DEF EvidenceOK
<1>13. NotesOK(disk, written)
  <2> SUFFICES ASSUME disk[State] # Absent
               PROVE  /\ \A h \in disk[State].links : disk[h] # Absent
                      /\ 1 .. written \subseteq disk[State].notes
                           \cup UNION {disk[h] : h \in disk[State].links}
    BY DEF NotesOK
  <2>1. disk[State] = d[State] BY <1>10
  <2>2. d[State] \in StateTexts
    BY <1>5, <2>1, FilesDiffer, TextsOfFiles DEF DiskOK
  <2>3. \A h \in disk[State].links : disk[h] = d[h]
    BY <1>8, <2>1, <2>2 DEF StateTexts
  <2>4. UNION {disk[h] : h \in disk[State].links}
          = UNION {d[h] : h \in d[State].links}
    BY <2>1, <2>3
  <2> QED BY <1>5, <2>1, <2>3, <2>4 DEF NotesOK
<1> QED BY <1>2, <1>9, <1>11, <1>12, <1>13 DEF Good

LEMMA NoGapIsGood ==
  ASSUME IInv, tx # NoTx, ~tx.gap
  PROVE  Good(disk, unrestored, written)
<1>1. /\ Position /\ Len(tx.ops) \in Nat /\ tx.n \in Nat /\ tx.done \in Nat
      /\ tx.rolling \in BOOLEAN
      /\ Decided(tx.old, tx.ops, tx.kind, unrestored, written)
  BY Ongoing
<1>2. PICK k \in 0 .. Len(tx.ops) : disk = After(tx.old, tx.ops, k)
  <2>1. \/ /\ tx.n \in 0 .. Len(tx.ops)
           /\ disk = After(tx.old, tx.ops, tx.n)
        \/ /\ tx.n - 1 \in 0 .. Len(tx.ops)
           /\ disk = After(tx.old, tx.ops, tx.n - 1)
    BY <1>1 DEF Position
  <2> QED BY <2>1
<1> QED BY <1>1, <1>2 DEF Decided

LEMMA CrashKeeps ==
  ASSUME IInv, Crash
  PROVE  IInv'
<1>1. tx # NoTx /\ tx' = NoTx BY DEF Crash
<1>2. /\ OtherTypes /\ Position /\ Typed(tx.ops) /\ Len(tx.ops) \in Nat
      /\ tx.n \in Nat /\ tx.done \in Nat /\ tx.rolling \in BOOLEAN
      /\ tx.kind \in Kinds /\ tx.proc \in Procs
  BY <1>1, Ongoing
<1>3. Good(disk, unrestored', written)
  <2>1. CASE tx.gap
    <3>1. unrestored' = unrestored \cup {tx.ops[tx.n].file}
      BY <2>1 DEF Crash
    <3> QED BY <1>1, <2>1, <3>1, GapIsGood
  <2>2. CASE ~tx.gap
    <3>1. unrestored' = unrestored BY <2>2 DEF Crash
    <3> QED BY <1>1, <2>2, <3>1, NoGapIsGood
  <2> QED BY <2>1, <2>2
<1>4. disk' = disk /\ written' = written BY DEF Crash
<1>5. Good(disk, unrestored, written)' BY <1>3, <1>4
<1>6. \A j \in 1 .. Len(tx.ops) : tx.ops[j].file \in Files
  <2> TAKE j \in 1 .. Len(tx.ops)
  <2>1. tx.ops[j] \in Operations BY <1>2 DEF Typed
  <2> QED BY <2>1 DEF Operations
<1>7. unrestored' \subseteq Files
  <2>1. CASE tx.gap
    <3>1. tx.n \in 1 .. Len(tx.ops) BY <1>2, <2>1 DEF Position
    <3> QED BY <1>2, <1>6, <3>1 DEF Crash, OtherTypes
  <2>2. CASE ~tx.gap BY <1>2, <2>2 DEF Crash, OtherTypes
  <2> QED BY <2>1, <2>2
<1>8. leftovers' \subseteq Kinds \X Files \X {"tmp", "backup"}
  <2>1. DOMAIN tx.ops = 1 .. Len(tx.ops) BY <1>2 DEF Typed
  <2>2. \A j \in DOMAIN tx.ops :
          Sidecars(tx.kind, tx.ops[j])
            \subseteq Kinds \X Files \X {"tmp", "backup"}
    BY <1>2, <1>6, <2>1, SidecarTypes
  <2>3. Held \subseteq Kinds \X Files \X {"tmp", "backup"}
    BY <2>2 DEF Held
  <2>4. leftovers' = leftovers \cup Held \/ leftovers' = leftovers
    BY DEF Crash
  <2> QED BY <1>2, <2>3, <2>4 DEF OtherTypes
<1>9. todo' \in [Procs -> Seq(Requests)]
  <2>1. todo' = [todo EXCEPT ![tx.proc] = <<>>] BY DEF Crash
  <2>2. <<>> \in Seq(Requests) OBVIOUS
  <2> QED BY <1>2, <2>1, <2>2 DEF OtherTypes
<1>10. trouble' \in 0 .. MaxTrouble
  <2>1. trouble \in 0 .. MaxTrouble /\ trouble < MaxTrouble
        /\ trouble' = trouble + 1
    BY <1>2 DEF OtherTypes, Crash
  <2> QED BY <2>1, LifecycleAssumption
<1>11. OtherTypes' BY <1>2, <1>4, <1>7, <1>8, <1>9, <1>10 DEF OtherTypes
<1> QED BY <1>1, <1>5, <1>11 DEF IInv

(***************************************************************************)
(* The other steps, and the beginning.                                     *)
(***************************************************************************)
LEMMA NoteKeeps ==
  ASSUME IInv, Note
  PROVE  IInv'
<1>1. tx = NoTx /\ written < MaxNotes /\ disk[State] # Absent BY DEF Note
<1>2. /\ Good(disk, unrestored, written) /\ OtherTypes /\ DiskOK(disk)
      /\ disk[State] \in StateTexts
  BY <1>1, Found
<1>3. PICK x : x = [disk[State] EXCEPT !.notes = @ \cup {written + 1}] OBVIOUS
<1>4. disk \in [Files -> Texts] BY <1>2 DEF Good
<1>5. disk' = [disk EXCEPT ![State] = x] BY <1>3, <1>4 DEF Note
<1>6. /\ x \in StateTexts /\ x # Absent /\ x \in Texts
      /\ x.status = disk[State].status /\ x.links = disk[State].links
      /\ x.notes = disk[State].notes \cup {written + 1}
  <2>1. written + 1 \in 1 .. MaxNotes
    BY <1>1, <1>2, LifecycleAssumption DEF OtherTypes
  <2>2. /\ x \in StateTexts
        /\ x.status = disk[State].status /\ x.links = disk[State].links
        /\ x.notes = disk[State].notes \cup {written + 1}
    BY <1>2, <1>3, <2>1 DEF StateTexts
  <2> QED BY <2>2, FilesDiffer, TextsOfFiles, TextsAreThere
<1>7. /\ disk'[State] = x
      /\ \A f \in Files : f # State => disk'[f] = disk[f]
      /\ disk' \in [Files -> Texts]
  BY <1>4, <1>5, <1>6, FilesDiffer
<1>8. DiskOK(disk')
  <2>1. \A f \in Files : disk'[f] \in FileTexts(f) \cup {Absent}
    BY <1>2, <1>6, <1>7, TextsOfFiles DEF DiskOK
  <2> QED BY <1>7, <2>1 DEF DiskOK
<1>9. ActiveOK(disk', unrestored)
  BY <1>1, <1>2, <1>6, <1>7, FilesDiffer DEF Good, ActiveOK, Kept
<1>10. EvidenceOK(disk', unrestored)
  BY <1>2, <1>7, FilesDiffer DEF Good, EvidenceOK, Kept
<1>11. NotesOK(disk', written + 1)
  <2>1. /\ \A h \in disk[State].links : disk[h] # Absent
        /\ 1 .. written \subseteq disk[State].notes
              \cup UNION {disk[h] : h \in disk[State].links}
    BY <1>1, <1>2 DEF Good, NotesOK
  <2>2. \A h \in x.links : h # State /\ h \in Files
    BY <1>2, <1>6, FilesDiffer DEF StateTexts
  <2>3. \A h \in x.links : disk'[h] = disk[h] BY <1>7, <2>2
  <2>4. UNION {disk'[h] : h \in x.links}
          = UNION {disk[h] : h \in disk[State].links}
    BY <1>6, <2>3
  <2>5. written \in Nat BY <1>2 DEF OtherTypes
  <2>6. 1 .. written + 1 \subseteq (1 .. written) \cup {written + 1} BY <2>5
  <2>7. /\ \A h \in x.links : disk'[h] # Absent
        /\ 1 .. written + 1 \subseteq x.notes
              \cup UNION {disk'[h] : h \in x.links}
    BY <1>6, <2>1, <2>3, <2>4, <2>6
  <2> QED BY <1>7, <2>7 DEF NotesOK
<1>12. Good(disk', unrestored, written + 1)
  BY <1>7, <1>8, <1>9, <1>10, <1>11 DEF Good
<1>13. /\ tx' = tx /\ unrestored' = unrestored /\ written' = written + 1
       /\ leftovers' = leftovers /\ todo' = todo /\ trouble' = trouble
  BY DEF Note
<1>14. Good(disk, unrestored, written)' BY <1>12, <1>13
<1>15. OtherTypes'
  <2>1. written + 1 \in 0 .. MaxNotes
    BY <1>1, <1>2, LifecycleAssumption DEF OtherTypes
  <2> QED BY <1>2, <1>13, <2>1 DEF OtherTypes
<1> QED BY <1>1, <1>13, <1>14, <1>15 DEF IInv

LEMMA LetGoKeeps ==
  ASSUME IInv, NEW p \in Procs, SkipCompaction(p) \/ Stop(p)
  PROVE  IInv'
<1>1. /\ tx = NoTx /\ tx' = tx /\ disk' = disk /\ unrestored' = unrestored
      /\ written' = written /\ leftovers' = leftovers /\ trouble' = trouble
      /\ todo[p] # <<>>
      /\ \/ todo' = [todo EXCEPT ![p] = Tail(todo[p])]
         \/ todo' = [todo EXCEPT ![p] = <<>>]
  BY DEF SkipCompaction, Stop, files
<1>2. OtherTypes /\ Good(disk, unrestored, written) BY <1>1 DEF IInv
<1>3. todo' \in [Procs -> Seq(Requests)]
  <2>1. todo \in [Procs -> Seq(Requests)] BY <1>2 DEF OtherTypes
  <2>2. Tail(todo[p]) \in Seq(Requests) /\ <<>> \in Seq(Requests)
    BY <1>1, <2>1
  <2> QED BY <1>1, <2>1, <2>2
<1>4. OtherTypes' BY <1>1, <1>2, <1>3 DEF OtherTypes
<1>5. Good(disk, unrestored, written)' BY <1>1, <1>2
<1> QED BY <1>1, <1>4, <1>5 DEF IInv

LEMMA InitHolds ==
  ASSUME Init
  PROVE  IInv
<1>1. PICK s : s = [status |-> "none", phase |-> "", notes |-> {}, links |-> {}]
  OBVIOUS
<1>0. s.status = "none" /\ s.notes = {} /\ s.links = {} BY <1>1
<1>2. /\ disk[State] = s /\ disk[Roadmap] = EmptyRoadmap
      /\ \A f \in Files : f # State /\ f # Roadmap => disk[f] = Absent
      /\ disk = [f \in Files |-> disk[f]]
  BY <1>1, FilesDiffer, Zenon DEF Init
<1>3. s \in StateTexts BY <1>1 DEF StateTexts, PhaseStatuses
<1>4. EmptyRoadmap \in RoadmapTexts
      /\ \A f \in ArchivePaths : ~Naming(EmptyRoadmap, f)
  BY FilesDiffer DEF EmptyRoadmap, RoadmapTexts, Naming
<1>5. \A f \in Files : disk[f] \in FileTexts(f) \cup {Absent}
  BY <1>2, <1>3, <1>4, TextsOfFiles
<1>6. disk \in [Files -> Texts] /\ DiskOK(disk)
  <2>1. \A f \in Files : disk[f] \in Texts
    BY <1>5, TextsAreThere DEF Texts
  <2> QED BY <1>2, <1>5, <2>1 DEF DiskOK
<1>7. unrestored = {} /\ written = 0 /\ trouble = 0 /\ leftovers = {}
      /\ tx = NoTx /\ todo = [p \in Procs |-> <<>>]
  BY DEF Init
<1>8. ActiveOK(disk, unrestored)
  <2>0. disk[State] = s BY <1>2
  <2>1. disk[State].status = "none" BY <1>0, <2>0
  <2> QED BY <2>1 DEF ActiveOK
<1>9. EvidenceOK(disk, unrestored) BY <1>2, <1>4 DEF EvidenceOK
<1>10. NotesOK(disk, written)
  <2>0. disk[State] = s BY <1>2
  <2>1. disk[State].notes = {} /\ disk[State].links = {} BY <1>0, <2>0
  <2>2. 1 .. written = {} BY <1>7
  <2> QED BY <2>1, <2>2 DEF NotesOK
<1>11. Good(disk, unrestored, written)
  BY <1>6, <1>8, <1>9, <1>10 DEF Good
<1>12. OtherTypes
  <2>1. <<>> \in Seq(Requests) OBVIOUS
  <2> QED BY <1>7, <2>1, LifecycleAssumption DEF OtherTypes
<1> QED BY <1>7, <1>11, <1>12 DEF IInv

LEMMA StutterKeeps ==
  ASSUME IInv, UNCHANGED vars
  PROVE  IInv'
<1>1. /\ disk' = disk /\ leftovers' = leftovers /\ unrestored' = unrestored
      /\ tx' = tx /\ todo' = todo /\ written' = written /\ trouble' = trouble
  BY DEF vars, files
<1>2. OtherTypes' BY <1>1 DEF IInv, OtherTypes
<1>3. tx = NoTx => Good(disk, unrestored, written)' BY <1>1 DEF IInv
<1>4. tx # NoTx => Decided(tx.old, tx.ops, tx.kind, unrestored, written)'
  BY <1>1 DEF IInv
<1>5. tx # NoTx => Position' /\ tx' \in Transactions
  BY <1>1 DEF IInv, Position
<1> QED BY <1>1, <1>2, <1>3, <1>4, <1>5 DEF IInv

LEMMA NextKeeps ==
  ASSUME IInv, [Next]_vars
  PROVE  IInv'
<1>1. ASSUME NEW p \in Procs, Command(p) PROVE IInv'
  BY <1>1, OpenKeeps, CancelKeeps, WritebackKeeps, ArchiveKeeps,
     AddItemKeeps, UpdateItemKeeps, CompactKeeps, LetGoKeeps DEF Command
<1>2. CASE Transaction
  BY <1>2, InstallKeeps, CommitKeeps, FailKeeps, RemoveKeeps, RestoreKeeps,
     GiveUpKeeps, CrashKeeps DEF Transaction
<1>3. CASE Note BY <1>3, NoteKeeps
<1>4. CASE UNCHANGED vars BY <1>4, StutterKeeps
<1> QED BY <1>1, <1>2, <1>3, <1>4 DEF Next

\* Whatever has happened, every file is good but for those a rollback has
\* taken away: what planning.py, writeback.py and roadmap.py decide on stays
\* consistent wherever their transactions are cut short.
THEOREM Invariance == Spec => []IInv
<1>1. Init => IInv BY InitHolds
<1>2. IInv /\ [Next]_vars => IInv' BY NextKeeps
<1> QED BY <1>1, <1>2, PTL DEF Spec

(***************************************************************************)
(* What the invariant says.                                                *)
(***************************************************************************)
LEMMA AlwaysGood ==
  ASSUME IInv
  PROVE  Good(disk, Missing, written)
<1>1. CASE tx = NoTx
  <2>1. Missing = unrestored BY <1>1 DEF Missing
  <2> QED BY <1>1, <2>1 DEF IInv
<1>2. CASE tx # NoTx /\ tx.gap
  <2>1. Missing = unrestored \cup {tx.ops[tx.n].file} BY <1>2 DEF Missing
  <2> QED BY <1>2, <2>1, GapIsGood
<1>3. CASE tx # NoTx /\ ~tx.gap
  <2>1. Missing = unrestored BY <1>3 DEF Missing
  <2> QED BY <1>3, <2>1, NoGapIsGood
<1> QED BY <1>1, <1>2, <1>3

LEMMA InvariantTypes ==
  ASSUME IInv
  PROVE  TypeOK
<1>1. DiskOK(disk) BY AlwaysGood DEF Good
<1>2. OtherTypes BY DEF IInv
<1>3. \A p \in Procs : \A j \in DOMAIN todo[p] : todo[p][j] \in Requests
  <2>1. \A p \in Procs : todo[p] \in Seq(Requests) BY <1>2 DEF OtherTypes
  <2> QED BY <2>1
<1>4. ASSUME tx # NoTx PROVE TxOK
  <2>1. /\ Position /\ Typed(tx.ops) /\ Len(tx.ops) \in Nat
        /\ Decided(tx.old, tx.ops, tx.kind, unrestored, written)
        /\ tx.n \in Nat /\ tx.done \in Nat
        /\ tx.rolling \in BOOLEAN /\ tx.gap \in BOOLEAN
        /\ tx.proc \in Procs /\ tx.kind \in Kinds
        /\ tx.old \in [Files -> Texts]
    BY <1>4, Ongoing
  <2>2. DiskOK(tx.old)
    <3>1. Good(After(tx.old, tx.ops, 0), unrestored, written)
      BY <2>1 DEF Decided
    <3>2. After(tx.old, tx.ops, 0) = tx.old BY <2>1, AfterNone
    <3> QED BY <3>1, <3>2 DEF Good
  <2>3. tx.n \in 0 .. Len(tx.ops) /\ tx.done \in 0 .. Len(tx.ops)
    BY <2>1 DEF Position
  <2>4. \A j \in DOMAIN tx.ops :
          /\ tx.ops[j].file \in Files
          /\ tx.ops[j].text \in FileTexts(tx.ops[j].file) \cup {Absent}
    <3>1. DOMAIN tx.ops = 1 .. Len(tx.ops) BY <2>1 DEF Typed
    <3> SUFFICES ASSUME NEW j \in 1 .. Len(tx.ops)
                 PROVE  /\ tx.ops[j].file \in Files
                        /\ tx.ops[j].text \in FileTexts(tx.ops[j].file)
                                               \cup {Absent}
      BY <3>1
    <3>2. tx.ops[j] \in Operations BY <2>1 DEF Typed
    <3>3. tx.ops[j].file \in Files BY <3>2 DEF Operations
    <3> QED BY <2>1, <3>3 DEF Typed
  <2>5. tx.proc \in Procs /\ tx.kind \in Kinds BY <2>1
  <2>6. tx.rolling \in BOOLEAN /\ tx.gap \in BOOLEAN BY <2>1
  <2> QED BY <2>2, <2>3, <2>4, <2>5, <2>6 DEF TxOK
<1> QED BY <1>1, <1>2, <1>3, <1>4 DEF TypeOK, OtherTypes

\* Types, whatever the processes, titles, items, commands and bounds.
THEOREM TypeCorrect == Spec => []TypeOK
<1>1. IInv => TypeOK BY InvariantTypes
<1> QED BY <1>1, Invariance, PTL

\* Whenever the state says that a plan is active the plan file is there, in
\* every state of every transaction of planning.py and writeback.py.
THEOREM ActivePlan == Spec => []ActivePlanIsThere
<1>1. IInv => ActivePlanIsThere
  <2>1. IInv => ActiveOK(disk, Missing) BY AlwaysGood DEF Good
  <2> QED BY <2>1 DEF ActiveOK, ActivePlanIsThere, Kept, There
<1> QED BY <1>1, Invariance, PTL

\* Every archive the roadmap names exists, whatever order the requests of
\* `transition` come in and wherever they are cut short.
THEOREM Evidence == Spec => []EvidenceIsThere
<1>1. ASSUME IInv PROVE EvidenceIsThere
  <2> SUFFICES ASSUME disk[Roadmap] # Absent, NEW i \in Items
               PROVE  /\ disk[Roadmap].history[i] # NoPath =>
                           There(disk[Roadmap].history[i])
                      /\ disk[Roadmap].items[i] # Absent =>
                           /\ disk[Roadmap].items[i].archived # NoPath =>
                                There(disk[Roadmap].items[i].archived)
                           /\ disk[Roadmap].items[i].related \in ArchivePaths =>
                                There(disk[Roadmap].items[i].related)
    BY DEF EvidenceIsThere
  <2>1. EvidenceOK(disk, Missing) /\ DiskOK(disk)
    BY <1>1, AlwaysGood DEF Good
  <2>2. disk[Roadmap] \in RoadmapTexts
    BY <2>1, FilesDiffer, TextsOfFiles DEF DiskOK
  <2>3. \A a \in ArchivePaths : Naming(disk[Roadmap], a) => There(a)
    BY <2>1 DEF EvidenceOK, Kept, There
  <2> QED BY <2>2, <2>3, RoadmapFields DEF Naming
<1> QED BY <1>1, Invariance, PTL

\* No compaction of the state loses a note, wherever it is cut short.
THEOREM Notes == Spec => []NotesAreKept
<1>1. IInv => NotesAreKept
  <2>1. IInv => NotesOK(disk, written) BY AlwaysGood DEF Good
  <2> QED BY <2>1 DEF NotesOK, NotesAreKept
<1> QED BY <1>1, Invariance, PTL

LEMMA BeginWaits ==
  \A p, kind, ops, rest : Begin(p, kind, ops, rest) => tx = NoTx /\ disk' = disk
BY DEF Begin, files

LEMMA CommandsWait ==
  ASSUME NEW p \in Procs, Command(p)
  PROVE  tx = NoTx /\ disk' = disk
<1> DEFINE Started == \E kind, ops, rest : Begin(p, kind, ops, rest)
<1>1. CASE Open(p)
  <2>1. Started BY <1>1, Zenon DEF Open
  <2> QED BY <2>1, BeginWaits
<1>2. CASE Cancel(p)
  <2>1. Started BY <1>2, Zenon DEF Cancel
  <2> QED BY <2>1, BeginWaits
<1>3. CASE Writeback(p)
  <2>1. Started BY <1>3, Zenon DEF Writeback
  <2> QED BY <2>1, BeginWaits
<1>4. CASE ArchivePlan(p)
  <2>1. Started BY <1>4, Zenon DEF ArchivePlan
  <2> QED BY <2>1, BeginWaits
<1>5. CASE AddItem(p)
  <2>1. Started BY <1>5, Zenon DEF AddItem
  <2> QED BY <2>1, BeginWaits
<1>6. CASE UpdateItem(p)
  <2>1. Started BY <1>6, Zenon DEF UpdateItem
  <2> QED BY <2>1, BeginWaits
<1>7. CASE Compact(p)
  <2>1. Started BY <1>7, Zenon DEF Compact
  <2> QED BY <2>1, BeginWaits
<1>8. CASE SkipCompaction(p) \/ Stop(p)
  BY <1>8 DEF SkipCompaction, Stop, files
<1> QED
  BY <1>1, <1>2, <1>3, <1>4, <1>5, <1>6, <1>7, <1>8 DEF Command

\* What an installed operation changes.
LEMMA InstallStep ==
  ASSUME IInv, Install
  PROVE  \E j \in 1 .. Len(tx.ops) :
           /\ disk = After(tx.old, tx.ops, j - 1)
           /\ tx.ops[j].file \in Files
           /\ disk[tx.ops[j].file] = tx.old[tx.ops[j].file]
           /\ disk'[tx.ops[j].file] = tx.ops[j].text
           /\ \A f \in Files : f # tx.ops[j].file => disk'[f] = disk[f]
<1>1. tx # NoTx /\ ~tx.rolling /\ tx.n < Len(tx.ops)
      /\ disk' = After(tx.old, tx.ops, tx.n + 1)
  BY DEF Install, Running
<1>2. /\ Position /\ Typed(tx.ops) /\ Distinct(tx.ops)
      /\ Len(tx.ops) \in Nat /\ tx.n \in Nat
  BY <1>1, Ongoing
<1>3. PICK j : j = tx.n + 1 OBVIOUS
<1>4. /\ j \in 1 .. Len(tx.ops) /\ disk = After(tx.old, tx.ops, j - 1)
      /\ disk' = After(tx.old, tx.ops, j)
  BY <1>1, <1>2, <1>3 DEF Position
<1>5. tx.ops[j].file \in Files
  <2>1. tx.ops[j] \in Operations BY <1>2, <1>4 DEF Typed
  <2> QED BY <2>1 DEF Operations
<1>6. disk'[tx.ops[j].file] = tx.ops[j].text
  BY <1>2, <1>4, <1>5, AfterDone, j \in 1 .. j, j \in 0 .. Len(tx.ops)
<1>7. /\ disk[tx.ops[j].file] = tx.old[tx.ops[j].file]
      /\ \A f \in Files : f # tx.ops[j].file => disk'[f] = disk[f]
  BY <1>2, <1>4, <1>5, AfterStep DEF OneMore
<1> QED BY <1>4, <1>5, <1>6, <1>7

LEMMA PlansStep ==
  ASSUME IInv, [Next]_vars, tx # NoTx, ~tx.rolling, tx.kind = "writeback",
         disk[Plan] # Absent, disk'[Plan] = Absent
  PROVE  \E a \in ArchivePaths :
           disk[a] # Absent /\ SamePlan(disk[a], disk[Plan])
<1>1. Install
  <2>1. disk' # disk OBVIOUS
  <2>2. ASSUME NEW p \in Procs, Command(p) PROVE FALSE
    BY <2>2, CommandsWait
  <2> QED BY <2>1, <2>2
       DEF Next, Transaction, Commit, Fail, Remove, Restore, GiveUp, Crash,
           RollingBack, Note, vars, files
<1>2. PICK j \in 1 .. Len(tx.ops) :
        /\ disk = After(tx.old, tx.ops, j - 1)
        /\ disk[tx.ops[j].file] = tx.old[tx.ops[j].file]
        /\ disk'[tx.ops[j].file] = tx.ops[j].text
        /\ \A f \in Files : f # tx.ops[j].file => disk'[f] = disk[f]
  BY <1>1, InstallStep
<1>3. tx.ops[j].file = Plan BY <1>2, FilesDiffer
<1>4. tx.ops[j].text = Absent /\ disk[Plan] = tx.old[Plan] BY <1>2, <1>3
<1>5. ArchivedFirst(tx.old, tx.ops, tx.kind) BY Ongoing DEF Decided
<1> QED BY <1>2, <1>3, <1>4, <1>5 DEF ArchivedFirst

\* A plan that writeback takes away is in an archive, whatever order its
\* operations are installed in and whatever else is on the disk.
THEOREM PlansArchived == Spec => PlansAreArchived
<1>1. IInv /\ [Next]_vars =>
        [/\ tx # NoTx /\ ~tx.rolling /\ tx.kind = "writeback"
         /\ disk[Plan] # Absent /\ disk'[Plan] = Absent
         => \E a \in ArchivePaths :
              disk[a] # Absent /\ SamePlan(disk[a], disk[Plan])]_vars
  BY PlansStep
<1> QED BY <1>1, Invariance, PTL DEF Spec, PlansAreArchived

LEMMA ArchivesStep ==
  ASSUME IInv, [Next]_vars, NEW a \in ArchivePaths, disk[a] # Absent
  PROVE  \/ disk'[a] # Absent /\ SamePlan(disk[a], disk'[a])
         \/ /\ tx # NoTx /\ tx.rolling
            /\ \E j \in DOMAIN tx.ops : tx.ops[j].file = a
<1>1. a \in Files /\ a # State BY FilesDiffer
<1>2. SamePlan(disk[a], disk[a]) BY DEF SamePlan
<1>3. CASE disk'[a] = disk[a] BY <1>2, <1>3
<1>4. CASE Install
  <2>1. PICK j \in 1 .. Len(tx.ops) :
          /\ disk[tx.ops[j].file] = tx.old[tx.ops[j].file]
          /\ disk'[tx.ops[j].file] = tx.ops[j].text
          /\ \A f \in Files : f # tx.ops[j].file => disk'[f] = disk[f]
    BY <1>4, InstallStep
  <2>2. CASE tx.ops[j].file = a
    <3>1. tx # NoTx BY <1>4 DEF Install, Running
    <3>2. Respectful(tx.old, tx.ops) BY <3>1, Ongoing DEF Decided
    <3> QED BY <2>1, <2>2, <3>2 DEF Respectful
  <2>3. CASE tx.ops[j].file # a BY <1>1, <1>3, <2>1, <2>3
  <2> QED BY <2>2, <2>3
<1>5. ASSUME Remove \/ Restore, disk'[a] # disk[a]
      PROVE  /\ tx # NoTx /\ tx.rolling
             /\ \E j \in DOMAIN tx.ops : tx.ops[j].file = a
  <2>1. tx # NoTx /\ tx.rolling /\ tx.n > 0
    BY <1>5 DEF Remove, Restore, RollingBack
  <2>2. /\ Position /\ Typed(tx.ops) /\ Distinct(tx.ops)
        /\ Len(tx.ops) \in Nat /\ tx.n \in Nat /\ tx.done \in Nat
        /\ tx \in Transactions /\ tx.old \in [Files -> Texts]
    BY <2>1, Ongoing
  <2>3. tx.n \in 1 .. Len(tx.ops) /\ DOMAIN tx.ops = 1 .. Len(tx.ops)
    BY <2>1, <2>2 DEF Position, Typed
  <2>4. ASSUME tx.ops[tx.n].file # a PROVE disk'[a] = disk[a]
    <3>1. After(tx.old, tx.ops, tx.n)[a] = After(tx.old, tx.ops, tx.n - 1)[a]
      <4>1. \A f \in Files :
              f # tx.ops[tx.n].file =>
                After(tx.old, tx.ops, tx.n)[f]
                  = After(tx.old, tx.ops, tx.n - 1)[f]
        <5>1. PICK n, f : n = tx.n /\ f = tx.ops[tx.n].file OBVIOUS
        <5>2. n \in 1 .. Len(tx.ops) /\ f = tx.ops[n].file BY <2>3, <5>1
        <5>3. \A g \in Files :
                g # f =>
                  After(tx.old, tx.ops, n)[g] = After(tx.old, tx.ops, n - 1)[g]
          BY <2>2, <5>2, AfterStep DEF OneMore
        <5> QED BY <5>1, <5>3
      <4> QED BY <1>1, <2>4, <4>1
    <3>2. disk[a] = After(tx.old, tx.ops, tx.n - 1)[a]
      <4>1. [After(tx.old, tx.ops, tx.n - 1)
               EXCEPT ![tx.ops[tx.n].file] = Absent][a]
              = After(tx.old, tx.ops, tx.n - 1)[a]
        BY <1>1, <2>4 DEF After
      <4> QED BY <2>1, <2>2, <3>1, <4>1 DEF Position
    <3>3. CASE Remove
      <4>1. disk' = [disk EXCEPT ![tx.ops[tx.n].file] = Absent]
        BY <3>3 DEF Remove
      <4>2. DOMAIN disk = Files BY AlwaysGood DEF Good, DiskOK
      <4> QED BY <1>1, <2>4, <4>1, <4>2
    <3>4. CASE Restore BY <3>2, <3>4 DEF Restore
    <3> QED BY <1>5, <3>3, <3>4
  <2> QED BY <1>5, <2>1, <2>3, <2>4
<1>6. ASSUME NEW p \in Procs, Command(p) PROVE disk'[a] = disk[a]
  BY <1>6, CommandsWait
<1>7. CASE Note
  <2>1. DOMAIN disk = Files BY AlwaysGood DEF Good, DiskOK
  <2>2. disk'[a] = disk[a] BY <1>1, <1>7, <2>1 DEF Note
  <2> QED BY <1>3, <2>2
<1>8. CASE Commit \/ Fail \/ GiveUp \/ Crash \/ UNCHANGED vars
  <2>1. disk' = disk
    BY <1>8 DEF Commit, Fail, GiveUp, Crash, vars, files
  <2> QED BY <1>3, <2>1
<1> QED BY <1>3, <1>4, <1>5, <1>6, <1>7, <1>8 DEF Next, Transaction

\* However many plans of a title are archived, an archive is never written
\* over by another plan nor deleted, but by the rollback of its own write.
THEOREM ArchivesKept == Spec => ArchivesAreKept
<1>1. IInv /\ [Next]_vars =>
        [\A a \in ArchivePaths :
           disk[a] # Absent =>
             \/ disk'[a] # Absent /\ SamePlan(disk[a], disk'[a])
             \/ /\ tx # NoTx /\ tx.rolling
                /\ \E j \in DOMAIN tx.ops : tx.ops[j].file = a]_vars
  BY ArchivesStep
<1> QED BY <1>1, Invariance, PTL DEF Spec, ArchivesAreKept
=============================================================================
