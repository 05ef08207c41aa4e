SPECIFICATION FilterSpec
CONSTANTS
  Fixed = fixed
  Others = {other}
  Ports = {22, 8080}
  Offered <- MCOffered
  Named = {f, g}
  MaxSteps = 5
INVARIANTS PlainFiltersMeanWhatTheySay NoOrNeverWidens
SYMMETRY Symmetry
CHECK_DEADLOCK FALSE
