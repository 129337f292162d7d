SPECIFICATION RaceSpec
CONSTANTS
    Handoffs = {h}
    Briefs = {b}
    Authorizations = {a}
    Packages = {p}
    Deployments = {d}
    MaxHandoffVersion = 1
    MaxVersion = 1
    MaxDeploymentVersion = 1
    MaxBuilds = 2
    MaxQA = 2
    MaxDecisions = 1
    MaxExecutions = 1
    MaxVerifications = 0
    MaxVerified = 0
    NoExecution = NoExecution
    MaxOpen = 1
INVARIANTS
    DeploymentDescends
    ResultsInOrder
PROPERTIES
    AuthorityLostForGood
    StrandedBuildStays
    AttemptsUseAuthority
CHECK_DEADLOCK FALSE
