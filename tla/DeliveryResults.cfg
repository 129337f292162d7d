SPECIFICATION RaceSpec
CONSTANTS
    Handoffs = {h}
    Briefs = {b}
    Authorizations = {a}
    Packages = {p}
    Deployments = {d}
    MaxHandoffVersion = 1
    MaxVersion = 1
    MaxDeploymentVersion = 2
    MaxBuilds = 1
    MaxQA = 1
    MaxDecisions = 1
    MaxExecutions = 1
    MaxVerifications = 1
    MaxVerified = 1
    NoExecution = NoExecution
    MaxOpen = 1
INVARIANTS
    CorrectionsHaveCause
CHECK_DEADLOCK FALSE
