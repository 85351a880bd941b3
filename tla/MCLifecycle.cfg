SPECIFICATION Spec
CONSTANTS
  Procs = {"p1", "p2"}
  Titles = {"t"}
  Items = {"a", "b"}
  Commands <- MCCommands
  TailLimit = 0
  NoteLimit = 1
  MaxCopy = 2
  MaxNotes = 2
  MaxTrouble = 1
  Absent = Absent
  NoItem = NoItem
  NoTx = NoTx
INVARIANTS
  TypeOK
  ActivePlanIsThere
  EvidenceIsThere
  NotesAreKept
PROPERTIES
  PlansAreArchived
  ArchivesAreKept
CHECK_DEADLOCK FALSE
