SPECIFICATION MCSpec
CONSTANTS
  N = 3
  Evidence = {e1}
  NoEvidence = NoEvidence
  Executions = {"SUCCEEDED", "PARTIAL"}
  Verifications = {"PASS"}
  Start = 1
  End = 2
  MaxTime = 2
  Writers = {w1, w2}
  NoFile = NoFile
  MaxStale = 1
  Entries <- MCEntries
  FailingSteps = {"bind", "inspect", "execute"}
  MaxValidations = 2
  Stretches <- MCStretches
  MaxRuns = 2
INVARIANTS
  GrantedOnce
  PredecessorsGone
  OneLifecyclePerKey
  SessionsAccounted
  
PROPERTIES
  ImplementsSequentialPlan
  LifecyclesInOrder
CHECK_DEADLOCK FALSE
SYMMETRY MCSymmetry
