SPECIFICATION Spec
CONSTANTS
    e1 = e1
    e2 = e2
    e3 = e3
    a1 = a1
    a2 = a2
    s0 = s0
    s1 = s1
    s2 = s2
    Execs = {e1, e2, e3}
    Approvals = {a1, a2}
    ApprovalOf <- SharedApprovalOf
    States = {s0, s1, s2}
    Expected <- SameExpected
    Desired <- SameDesired
    Bump <- DriftAway
    Legacy = {}
    Executors = {x1, x2}
    NoExec = NoExec
    Cases = {c1, c2}
    NoCase = NoCase
    NoState = NoState
    Recoverers = {r1}
INVARIANTS
    RecoveryIsJustified
PROPERTIES
    RevokeStopsAction
    ImplementsSingleUse
SYMMETRY Symmetry
CHECK_DEADLOCK FALSE
