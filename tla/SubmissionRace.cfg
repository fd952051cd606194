SPECIFICATION Spec
CONSTANTS
  Calls = {c1, c2}
  Keys = {k1}
  Digests = {d1, d2}
  Absent = Absent
SYMMETRY Symmetry
PROPERTIES
  AcknowledgedIsStarted
CHECK_DEADLOCK FALSE
