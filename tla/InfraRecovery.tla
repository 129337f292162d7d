---------------------------- MODULE InfraRecovery ----------------------------
(***************************************************************************)
(* Reconciliation (local_infrastructure_recovery.py): a case is opened     *)
(* after the audit, an independent observer reads the resource once for    *)
(* it, and a human consents to exactly one terminal disposition of the     *)
(* attempt.  Nothing here writes the resource.                             *)
(*                                                                         *)
(* Clocks: every stage carries a fixture clock and the code demands        *)
(* strictly increasing stamps along the chain                              *)
(*     audit < case opened < observed < consent <= decision                *)
(* Each stage needs the stored row of the one before, so the order of the  *)
(* steps stands for the order of the stamps; the one comparison no row     *)
(* implies, a case opened after the decision, is kept in "late".  A clock  *)
(* outside a grant's window only denies the call.                          *)
(***************************************************************************)
EXTENDS InfraEvidence

CONSTANTS
    Cases,    \* recovery case ids
    NoCase,   \* "no case"
    NoState   \* "not observed"

ASSUME RecoveryAssumption ==
    /\ NoCase \notin Cases
    /\ NoState \notin States

VARIABLES
    caseOf,       \* local_recovery_cases: the execution a case is opened for
    late,         \* cases opened after their execution's decision was recorded
    observation,  \* local_recovery_observations: the state read for a case
    consents,     \* dispositions a human has consented to, per case (in memory)
    decision,     \* local_recovery_decisions: the terminal disposition
    decidedOn     \* the case that decision is bound to

recoveryVars == <<caseOf, late, observation, consents, decision, decidedOn>>

Decisions == {"HOLD", "REVIEW_REQUIRED", "NO_RETRY_AUTHORIZED"}

RecoveryTypeOK ==
    /\ caseOf \in [Cases -> Execs \cup {NoExec}]
    /\ late \subseteq Cases
    /\ observation \in [Cases -> States \cup {NoState}]
    /\ consents \in [Cases -> SUBSET Decisions]
    /\ decision \in [Execs -> Decisions \cup {"none"}]
    /\ decidedOn \in [Execs -> Cases \cup {NoCase}]

RecoveryInit ==
    /\ caseOf = [c \in Cases |-> NoExec]
    /\ late = {}
    /\ observation = [c \in Cases |-> NoState]
    /\ consents = [c \in Cases |-> {}]
    /\ decision = [e \in Execs |-> "none"]
    /\ decidedOn = [e \in Execs |-> NoCase]

\* open_recovery_case: needs the audit record and its sources as they are now.
OpenCase(c, e) ==
    /\ caseOf[c] = NoExec
    /\ audit[e] # NoAudit
    /\ AuditSources(e)
    /\ caseOf' = [caseOf EXCEPT ![c] = e]
    /\ late' = IF decision[e] # "none" THEN late \cup {c} ELSE late
    /\ UNCHANGED <<observation, consents, decision, decidedOn>>

\* collect_recovery_observation: one physical read per case.
Collect(c) ==
    /\ caseOf[c] # NoExec
    /\ AuditSources(caseOf[c])
    /\ observation[c] = NoState
    /\ observation' = [observation EXCEPT ![c] = state]
    /\ UNCHANGED <<caseOf, late, consents, decision, decidedOn>>

\* The evidence chain LocalTestInfrastructureRecovery._sources validates.
RecoveryEvidence(e, c) ==
    /\ AuditSources(e)
    /\ audit[e] # NoAudit
    /\ audit[e].attempt = "UNCERTAIN" => outcome[e] = "UNCERTAIN"
    /\ c \in Cases
    /\ caseOf[c] = e
    /\ observation[c] # NoState

\* The disposition _sources computes from the attempt and the observation.
Disposition(e, c) ==
    IF outcome[e] = "UNCERTAIN" THEN "REVIEW_REQUIRED"
    ELSE IF observation[c] = Desired[e] THEN "NO_RETRY_AUTHORIZED"
    ELSE IF observation[c] = Expected[e] THEN "HOLD"
    ELSE "REVIEW_REQUIRED"

\* The constructor registers a consent that names the disposition as it is
\* then; the instance keeps it until reconcile() is called, or never is.
Consent(e, c) ==
    /\ RecoveryEvidence(e, c)
    /\ consents' = [consents EXCEPT ![c] = @ \cup {Disposition(e, c)}]
    /\ UNCHANGED <<caseOf, late, observation, decision, decidedOn>>

\* The consented disposition is still the computed one.
ConsentHolds(e, c, d) == d \in consents[c] /\ d = Disposition(e, c)

\* reconcile(): the disposition is recomputed in this transaction, and a
\* consent to any other one is a conflict.  One decision per execution.
Reconcile(e, c) ==
    /\ RecoveryEvidence(e, c)
    /\ decision[e] = "none"
    /\ \E d \in Decisions :
         /\ ConsentHolds(e, c, d)
         /\ decision' = [decision EXCEPT ![e] = d]
    /\ decidedOn' = [decidedOn EXCEPT ![e] = c]
    /\ UNCHANGED <<caseOf, late, observation, consents>>

RecoveryNext ==
    \E c \in Cases :
        \/ Collect(c)
        \/ \E e \in Execs : OpenCase(c, e) \/ Consent(e, c) \/ Reconcile(e, c)
=============================================================================
