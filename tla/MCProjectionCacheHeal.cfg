CONSTANTS
  Sources = {state}
  Cold = {}
  Versions = {v1, v2}
  N = 1
  Procs = {mlhd}
  Worker = mlhd
  Writers = {writer}
  Commands <- Ticks
  Absent = Absent
  None = None
  MaxChanges = 1
  MaxCommands = 0
  MaxTrouble = 0
  MaxKilled = 1
SPECIFICATION Spec
PROPERTIES SelfHeals
