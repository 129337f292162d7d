---------------------------- MODULE InfraEvidence ----------------------------
(***************************************************************************)
(* Independent evidence about an attempt: the verifier's one observation   *)
(* (local_infrastructure_verification.py) and the auditor's one record     *)
(* (local_infrastructure_audit.py).  Both tables are append-only and both  *)
(* copy the attempt's outcome as it stands when the row is written, which  *)
(* may be before the executor has recorded what happened.                  *)
(***************************************************************************)
EXTENDS InfraExecution

VARIABLES
    verification,  \* local_verification_evidence: reason and sampled outcome
    audit          \* local_audit_evidence: attempt outcome and verifier's sample

evidenceVars == <<verification, audit>>

Reasons == {"LOCAL_STATE_MATCH", "PENDING", "MISMATCH"}

NoVerification == [reason |-> "none", outcome |-> "none"]
NoAudit        == [attempt |-> "none", sampled |-> "none"]

EvidenceTypeOK ==
    /\ verification \in [Execs -> [reason  : Reasons \cup {"none"},
                                   outcome : Outcomes \cup {"none"}]]
    /\ audit \in [Execs -> [attempt : Outcomes \cup {"none"},
                            sampled : Outcomes \cup {"none"}]]

EvidenceInit ==
    /\ verification = [e \in Execs |-> NoVerification]
    /\ audit = [e \in Execs |-> NoAudit]

\* _reason: the physical state against the two pins of the manifest.
Reason(e) ==
    IF state = Desired[e] THEN "LOCAL_STATE_MATCH"
    ELSE IF state = Expected[e] THEN "PENDING"
    ELSE "MISMATCH"

\* _snapshot: an unrevoked, consumed registration with an attempt row.
Attempted(e) ==
    /\ Active(e)
    /\ e \in consumed
    /\ outcome[e] \in Outcomes

\* verify(): the first call stores its observation, later calls return it.
VerifyExecution(e) ==
    /\ Attempted(e)
    /\ verification[e] = NoVerification
    /\ verification' = [verification EXCEPT ![e] = [reason |-> Reason(e), outcome |-> outcome[e]]]
    /\ UNCHANGED audit

\* LocalTestInfrastructureAudit._sources: the chain every later stage relies
\* on.  A sample may be older than the attempt row, never ahead of it.
AuditSources(e) ==
    /\ Attempted(e)
    /\ verification[e] # NoVerification
    /\ verification[e].outcome = "UNCERTAIN" => outcome[e] = "UNCERTAIN"

\* append(): one immutable row per execution; replays return history.
AppendAudit(e) ==
    /\ AuditSources(e)
    /\ audit[e] = NoAudit
    /\ audit' = [audit EXCEPT ![e] = [attempt |-> outcome[e], sampled |-> verification[e].outcome]]
    /\ UNCHANGED verification

EvidenceNext ==
    \E e \in Execs : VerifyExecution(e) \/ AppendAudit(e)
=============================================================================
