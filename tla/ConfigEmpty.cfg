SPECIFICATION Spec
CONSTANTS
  Configs = {c1, c2}
  Comments = {}
  Modes = {m1, m2}
  FirstMode = m1
  MaxPuts = 2
  MaxEdits = 0
PROPERTY
  NoEmptyLanding
CHECK_DEADLOCK FALSE
