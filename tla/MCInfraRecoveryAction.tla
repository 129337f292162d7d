------------------------ MODULE MCInfraRecoveryAction ------------------------
(* Small instances of the whole authority loop for TLC.                    *)
EXTENDS InfraRecoveryAction, TLC

CONSTANTS e1, e2, e3, a1, a2, s0, s1, s2

\* Two executions compete for one approval, and a third makes the same change
\* under an approval of its own.
SharedApprovalOf == e1 :> a1 @@ e2 :> a2 @@ e3 :> a1
SameExpected     == e1 :> s0 @@ e2 :> s0 @@ e3 :> s0
SameDesired      == e1 :> s1 @@ e2 :> s1 @@ e3 :> s1

\* The interference fixture takes every state to one no manifest names.
DriftAway == s0 :> s2 @@ s1 :> s2 @@ s2 :> s2

\* e1 and e3 differ in nothing but their names.
Symmetry == Permutations(Cases) \cup Permutations(Executors) \cup Permutations(Recoverers)
              \cup Permutations({e1, e3})
=============================================================================
