SPECIFICATION Spec
CONSTANTS
  Titles = {alpha, beta}
  MaxPlans = 2
  MaxCopy = 2
  Asked <- MCAsked
  Absent = Absent
  NoTitle = NoTitle
SYMMETRY TitleSymmetry
INVARIANT
  TypeOK
PROPERTIES
  CopiesStayRight
  StateStaysRight
CHECK_DEADLOCK FALSE
