-------------------------- MODULE RevocableAuthority --------------------------
(***************************************************************************)
(* What an authority record of the Phase 5D chain promises to whoever acts *)
(* on it.  An operation is accepted only while the authority is usable,    *)
(* and once it has stopped being usable, for whatever reason upstream, it  *)
(* never is again.  The promise ends there: an operation that was accepted *)
(* in time may still begin when the authority is dead.                     *)
(***************************************************************************)
EXTENDS Naturals

CONSTANTS
    Authorities,
    Operations

VARIABLES
    status,    \* "none" not in force yet, "usable", "dead" for good
    accepted,  \* operations accepted under each that have not begun
    uses       \* operations begun under each

vars == <<status, accepted, uses>>

Status == {"none", "usable", "dead"}

Init ==
    /\ status = [a \in Authorities |-> "none"]
    /\ accepted = [a \in Authorities |-> {}]
    /\ uses = [a \in Authorities |-> 0]

\* One event may bring authorities into force and end any number of them.
Follows(new, old) ==
    \/ new = old
    \/ old = "none"
    \/ old = "usable" /\ new = "dead"

Change ==
    /\ status' \in [Authorities -> Status]
    /\ \A a \in Authorities : Follows(status'[a], status[a])
    /\ UNCHANGED <<accepted, uses>>

Accept(a) ==
    /\ status[a] = "usable"
    /\ \E op \in Operations \ accepted[a] : accepted' = [accepted EXCEPT ![a] = @ \cup {op}]
    /\ UNCHANGED <<status, uses>>

\* An operation accepted and begun in one step.
Use(a) ==
    /\ status[a] = "usable"
    /\ uses' = [uses EXCEPT ![a] = @ + 1]
    /\ UNCHANGED <<status, accepted>>

\* An accepted operation begins, or is given up.
Conclude(a) ==
    /\ \E op \in accepted[a] : accepted' = [accepted EXCEPT ![a] = @ \ {op}]
    /\ uses' \in {uses, [uses EXCEPT ![a] = @ + 1]}
    /\ UNCHANGED status

Next == Change \/ \E a \in Authorities : Accept(a) \/ Use(a) \/ Conclude(a)

Spec == Init /\ [][Next]_vars
=============================================================================
