SPECIFICATION FairSpec
CONSTANTS
    p1 = p1
    p2 = p2
    draft = draft
    again = again
    other = other
    approve = approve
    revise = revise
    Processes = {p1, p2}
    Commands = {draft, again, other, approve, revise}
    Subjects <- MCSubjects
    Keys <- MCKeys
    Bodies <- MCBodies
    Key <- MCKey
    Body <- MCBody
    Subject <- MCSubject
    Expected <- MCExpected
    Guarded <- Transitions
    NoCommand = NoCommand
INVARIANTS
    OneEffectPerKey
PROPERTIES
    ImplementsAtomicCommands
    EveryExecutionEnds
