--------------------------- MODULE SequentialPlan ---------------------------
(* What an authorization plan promises its owner: its steps are granted one  *)
(* at a time and in order, each only after the previous one succeeded, and   *)
(* the first failure ends the plan for good.                                 *)
EXTENDS Naturals

CONSTANT N

VARIABLE phase      \* what has become of each step

PlanInit == phase = [i \in 1..N |-> "waiting"]

Grant(i) ==
  /\ phase[i] = "waiting"
  /\ \A j \in 1..(i-1) : phase[j] = "done"
  /\ phase' = [phase EXCEPT ![i] = "open"]

Succeed(i) ==
  /\ phase[i] = "open"
  /\ phase' = [phase EXCEPT ![i] = "done"]

Fail(i) ==
  /\ phase[i] = "open"
  /\ phase' = [j \in 1..N |-> IF j < i THEN phase[j]
                              ELSE IF j = i THEN "failed" ELSE "blocked"]

PlanNext == \E i \in 1..N : Grant(i) \/ Succeed(i) \/ Fail(i)

\* The states that these steps lead to.
Lawful ==
  \A i \in 1..N :
    /\ phase[i] \in {"open", "done", "failed"} => \A j \in 1..(i-1) : phase[j] = "done"
    /\ phase[i] = "failed" => \A j \in (i+1)..N : phase[j] = "blocked"
    /\ phase[i] = "blocked" => \E j \in 1..(i-1) : phase[j] = "failed"

\* A plan whose progress nobody overwrites.
PlanSpec == PlanInit /\ [][PlanNext]_phase
=============================================================================
