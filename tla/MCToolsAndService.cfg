SPECIFICATION MCSpec
CONSTANTS
    Processes = {p1, p2, p3}
    NoProcess = NoProcess
    MaxFaults = 3
    NoState = NoState
    Documents <- MCDocuments
    NoDocument = NoDocument
    MaxTime = 2
    Manifests <- MCManifests
    NoRecord = NoRecord
    NoClaim = NoClaim
    NoCall = NoCall
    Runs = {r1, r2}
    Grants <- MCGrants
    NoGrant = NoGrant
    MaxOthers = 1
    Unread = Unread
    Servers = {s1, s2}
    Requests = {q}
    Contents = {c1, c2}
    NoContent = NoContent
    Window = 2
    MaxRequests = 2
    MaxClock = 3
    Principals = {a, b}
    Items = {i}
    Keys = {k1, k2, k3}
    Callers = {x}
    NoItem = NoItem
    NoReceipt = NoReceipt
    Nobody = Nobody
    MaxRevision = 4
    Workers = {w1, w2}
    Events = {e}
    Digests = {g1, g2}
    Nothing = Nothing
    MaxRestarts = 1
INVARIANTS
    HeldIsVerified
    AdmittedOnceForGood
    QueueStaysLoadable
    ConsumedOnce
    NothingUnaccounted
    CleanedMeansGone
    OneIntakePerRequest
    QuotaPerWindow
    OwnershipByConsent
    BothEffectsOnce
PROPERTIES
    IntakeWhileActive
    RetriesAnswered
CHECK_DEADLOCK FALSE
SYMMETRY KeySymmetry
