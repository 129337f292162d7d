SPECIFICATION FairSpec
CONSTANTS
    d1 = d1
    d2 = d2
    w1 = w1
    w2 = w2
    Rows = {d1, d2}
    Workers = {w1, w2}
    MaxAttempts <- TwoAttempts
    Missing = {d2}
    NoWorker = NoWorker
    NoRow = NoRow
INVARIANTS
    PublishedMeansReceived
    AttemptsAccounted
PROPERTIES
    OutcomeOfOwnAttempt
    ImplementsPromise
    EveryDeliverySettles
