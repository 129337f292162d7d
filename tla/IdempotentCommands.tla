-------------------------- MODULE IdempotentCommands --------------------------
(***************************************************************************)
(* What a command service promises, with no transactions or processes: a   *)
(* command takes effect in one step, at most once per idempotency key and  *)
(* only on the version of its subject that it expects; and what callers    *)
(* are told about it is true.                                              *)
(***************************************************************************)
EXTENDS Naturals

CONSTANTS
    Commands,   \* command identities
    Subjects,   \* authoritative records
    Key,        \* the scoped idempotency key of a command
    Body,       \* its semantic request fingerprint
    Subject,    \* the record it is about
    Expected    \* the version it expects there, 0 for "does not exist yet"

VARIABLES
    applied,    \* commands that took effect
    version,    \* the version of each subject, 0 before it exists
    replies     \* what callers were told

Init ==
    /\ applied = {}
    /\ version = [s \in Subjects |-> 0]
    /\ replies = {}

Told(c, result, prior) == [command |-> c, result |-> result, prior |-> prior]

Apply(c) ==
    /\ \A d \in applied : Key[d] # Key[c]
    /\ version[Subject[c]] = Expected[c]
    /\ applied' = applied \cup {c}
    /\ version' = [version EXCEPT ![Subject[c]] = @ + 1]
    /\ replies' \in {replies, replies \cup {Told(c, "ACCEPTED", c)}}

\* The same request was carried out already, as command d.
Duplicate(c, d) ==
    /\ d \in applied
    /\ Key[d] = Key[c]
    /\ Body[d] = Body[c]
    /\ replies' = replies \cup {Told(c, "DUPLICATE", d)}
    /\ UNCHANGED <<applied, version>>

\* The key was used already, for another request.
Conflict(c, d) ==
    /\ d \in applied
    /\ Key[d] = Key[c]
    /\ Body[d] # Body[c]
    /\ replies' = replies \cup {Told(c, "CONFLICT", d)}
    /\ UNCHANGED <<applied, version>>

Reject(c) ==
    /\ replies' = replies \cup {Told(c, "REJECTED", c)}
    /\ UNCHANGED <<applied, version>>

Next ==
    \E c \in Commands :
        \/ Apply(c)
        \/ \E d \in Commands : Duplicate(c, d) \/ Conflict(c, d)
        \/ Reject(c)

Spec == Init /\ [][Next]_<<applied, version, replies>>
=============================================================================
