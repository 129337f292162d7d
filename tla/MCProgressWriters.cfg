SPECIFICATION Spec
CONSTANTS
  N = 2
  Evidence = {e1, e2}
  NoEvidence = NoEvidence
  Executions = {"SUCCEEDED", "PARTIAL"}
  Verifications = {"PASS", "AMBIGUOUS"}
  Start = 1
  End = 3
  MaxTime = 3
  Writers = {w1, w2}
  NoFile = NoFile
  MaxStale = 1
PROPERTY NoStaleWrite
CHECK_DEADLOCK FALSE
SYMMETRY MCSymmetry
