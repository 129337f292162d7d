SPECIFICATION RaceSpec
CONSTANTS
    Handoffs = {h}
    Briefs = {b}
    Authorizations = {a}
    Packages = {p}
    Deployments = {d}
    MaxHandoffVersion = 1
    MaxVersion = 1
    MaxDeploymentVersion = 1
    MaxBuilds = 1
    MaxQA = 1
    MaxDecisions = 1
    MaxExecutions = 1
    MaxVerifications = 0
    MaxVerified = 0
    NoExecution = NoExecution
    MaxOpen = 1
INVARIANTS
    StartsOnlyWithAuthority
CHECK_DEADLOCK FALSE
