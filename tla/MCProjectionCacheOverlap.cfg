CONSTANTS
  Sources = {state}
  Cold = {}
  Versions = {v1, v2}
  N = 2
  Procs = {mlhd, person}
  Worker = mlhd
  Writers = {writer}
  Commands <- AllCommands
  Absent = Absent
  None = None
  MaxChanges = 1
  MaxCommands = 1
  MaxTrouble = 0
  MaxKilled = 0
SPECIFICATION Spec
PROPERTIES Settles
