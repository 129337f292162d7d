-------------------------- MODULE SingleUseAuthority --------------------------
(***************************************************************************)
(* What the LOCAL authority loop promises about the resource, with no      *)
(* processes, tables or evidence: an approval authorises at most one       *)
(* physical write, through one of its executions; an execution that is     *)
(* revoked or whose outcome is uncertain is closed and writes nothing any  *)
(* more; and nothing else ever changes the resource.                       *)
(***************************************************************************)
CONSTANTS Execs, Approvals, ApprovalOf, States, Expected, Desired, Bump

VARIABLES
    state,   \* the resource
    used,    \* approvals that have been spent on a write
    closed   \* executions that may write no more

Init == state \in States /\ used = {} /\ closed = {}

\* What one write under the authority of e may do to the resource: the CAS,
\* the interference fixture, or the fixture and then the CAS.
Write(e) ==
    \/ state = Expected[e] /\ state' = Desired[e]
    \/ state' = Bump[state]
    \/ Bump[state] = Expected[e] /\ state' = Desired[e]

Use(e) ==
    /\ e \notin closed
    /\ ApprovalOf[e] \notin used
    /\ Write(e)
    /\ used' = used \cup {ApprovalOf[e]}
    /\ UNCHANGED closed

Close(e) ==
    /\ closed' = closed \cup {e}
    /\ UNCHANGED <<state, used>>

Next == \E e \in Execs : Use(e) \/ Close(e)

Spec == Init /\ [][Next]_<<state, used, closed>>
=============================================================================
