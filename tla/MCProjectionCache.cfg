CONSTANTS
  Sources = {state, archive}
  Cold = {archive}
  Versions = {v1, v2}
  N = 2
  Procs = {mlhd}
  Worker = mlhd
  Writers = {writer}
  Commands <- Ticks
  Absent = Absent
  None = None
  MaxChanges = 2
  MaxCommands = 0
  MaxTrouble = 1
  MaxKilled = 1
SPECIFICATION Spec
INVARIANTS TypeOK IInv
PROPERTIES IndexIsOneProjection CommandsDescend Settles
