SPECIFICATION Spec
CONSTANTS
  Titles = {alpha, beta}
  MaxPlans = 2
  MaxCopy = 2
  Asked <- MCAsked
  Absent = Absent
  NoTitle = NoTitle
PROPERTY
  RefreshIsBound
CHECK_DEADLOCK FALSE
