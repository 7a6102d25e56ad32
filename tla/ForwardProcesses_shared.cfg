\* Two runs share the directory of pid files.
SPECIFICATION Spec
CONSTANTS
  None = None
  Runs = {r1, r2}
  Pids = {p1, p2, p3}
SYMMETRY Symmetry
INVARIANTS
  NoSshIsLost
PROPERTIES
  FileOutlivesSsh
  SignalsSpareOthers
