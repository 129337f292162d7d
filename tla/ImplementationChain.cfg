SPECIFICATION ChainSpec
CONSTANTS
    Handoffs = {h}
    Briefs = {b}
    Authorizations = {a}
    Packages = {p}
    MaxHandoffVersion = 2
    MaxVersion = 2
INVARIANTS
    OneCurrentVersion
    EveryRecordDescends
    NothingWithoutBothSides
PROPERTIES
    LostForGood
CHECK_DEADLOCK FALSE
