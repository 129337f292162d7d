-------------------------- MODULE MCCommandExecutor --------------------------
(* Small instances of the command executor for TLC.                         *)
EXTENDS CommandExecutor, TLC

CONSTANTS p1, p2, draft, again, other, approve, revise

\* Subject "brief": a draft, its exact replay under another command identity,
\* another request under the same key, and two transitions from version 1.
MCKey == [c \in Commands |->
    CASE c \in {draft, again, other} -> "k1" [] c = approve -> "k2" [] c = revise -> "k3"]
MCBody == [c \in Commands |->
    CASE c \in {draft, again} -> "b1" [] c = other -> "b2" [] c = approve -> "b3" [] c = revise -> "b4"]
MCSubject  == [c \in Commands |-> IF c = other THEN "handoff" ELSE "brief"]
MCExpected == [c \in Commands |-> IF c \in {approve, revise} THEN 1 ELSE 0]
MCKeys     == {"k1", "k2", "k3"}
MCBodies   == {"b1", "b2", "b3", "b4"}
MCSubjects == {"brief", "handoff"}

\* Transitions are guarded by the snapshot; of the creating commands only
\* OpenEngagement is.
Transitions == {approve, revise} \cap Commands
=============================================================================
