---------------------------- MODULE PlanProgress ----------------------------
(* The authorization-plan engine as the functions it consists of: a progress *)
(* document of N ordered steps, what makes one valid, which step comes next, *)
(* and the two transitions that produce the next version of it.              *)
(*                                                                           *)
(* The plan itself is fixed and READY_FOR_APPROVAL.  A digest stands for the *)
(* whole document, so comparing digests is comparing documents.  Evidence is *)
(* one value per step, and a step is bound to the evidence of every step     *)
(* before it.                                                                *)
EXTENDS Naturals, Sequences, SequencesExt

CONSTANTS
  N,              \* the number of steps of the plan
  Evidence,       \* what the evidence of a step may be
  NoEvidence,     \* the evidence of a step that has no outcome yet
  Executions,     \* the execution outcomes considered, "SUCCEEDED" among them
  Verifications,  \* the verification outcomes considered, "PASS" among them
  Start, End,     \* the authorization window is Start..(End - 1)
  MaxTime         \* bound: the clock stops here

ASSUME StepsAssumption == N \in Nat \ {0}
ASSUME EvidenceAssumption == NoEvidence \notin Evidence
ASSUME OutcomesAssumption ==
  /\ Executions \subseteq {"SUCCEEDED", "FAILED", "PARTIAL", "AMBIGUOUS"}
  /\ Verifications \subseteq {"PASS", "FAIL", "AMBIGUOUS"}
ASSUME WindowAssumption ==
  Start \in Nat /\ End \in Nat /\ Start < End /\ MaxTime \in Nat

StepIds == 1..N

\* expected: the observed postcondition is the plan's.  error: a safe_error_code
\* is recorded.  bound: the evidence its authorization was bound to.
FreshStep ==
  [auth |-> "PENDING", exec |-> "NOT_STARTED", verif |-> "NOT_STARTED",
   expected |-> FALSE, error |-> FALSE, evidence |-> NoEvidence, bound |-> <<>>]

\* The certified baseline, made before the window opens.
InitialProgress ==
  [version |-> 1, overall |-> "NOT_STARTED",
   steps |-> [i \in StepIds |-> FreshStep], at |-> 0]

\* The documents the engine makes of this plan: it writes none of the EXPIRED
\* states that the schema also has.
StepStates ==
  [auth : {"PENDING", "AUTHORIZED", "CONSUMED", "BLOCKED"},
   exec : Executions \cup {"NOT_STARTED"}, verif : Verifications \cup {"NOT_STARTED"},
   expected : BOOLEAN, error : BOOLEAN, evidence : Evidence \cup {NoEvidence},
   bound : Seq(Evidence \cup {NoEvidence})]

Progresses ==
  [version : Nat, overall : {"NOT_STARTED", "IN_PROGRESS", "STOPPED", "COMPLETED"},
   steps : [StepIds -> StepStates], at : Nat]

-----------------------------------------------------------------------------

\* What the sequence check and the choice of the next step call completed.
Completed(s) == s.auth = "CONSUMED" /\ s.exec = "SUCCEEDED" /\ s.verif = "PASS"

\* What the engine calls success: stricter than Completed.
Successful(s) == Completed(s) /\ s.expected /\ ~s.error

\* The evidence a step relies on: that of all steps before it.
PriorEvidence(p, i) == [j \in 1..(i-1) |-> p.steps[j].evidence]

\* An authorized or consumed step holds exactly its sources' evidence, and the
\* sources succeeded; evidence exists only where an outcome was recorded.
BindingsValid(p) ==
  \A i \in StepIds : LET s == p.steps[i] IN
    /\ s.auth \in {"PENDING", "BLOCKED"} => s.bound = <<>>
    /\ s.auth \in {"AUTHORIZED", "CONSUMED"} =>
         /\ \A j \in 1..(i-1) : Successful(p.steps[j])
         /\ s.bound = PriorEvidence(p, i)
    /\ (s.evidence # NoEvidence) <=> (s.auth = "CONSUMED")

ValidProgress(p) ==
  /\ BindingsValid(p)
  /\ \A i, j \in StepIds :
       i < j /\ Completed(p.steps[j]) => Completed(p.steps[i])
  /\ p.overall = "NOT_STARTED" => \A i \in StepIds : p.steps[i].auth = "PENDING"
  /\ p.overall = "COMPLETED" => \A i \in StepIds : Completed(p.steps[i])

\* The first step that is not completed, as a set with at most one member.
NextIndex(p) ==
  {i \in StepIds : /\ ~Completed(p.steps[i])
                   /\ \A j \in 1..(i-1) : Completed(p.steps[j])}

\* The approval is for this plan; what varies is whether it is active, and now.
ApprovalValid(active, now) == active /\ Start <= now /\ now < End

\* The progress with step i in the new state.
Advanced(p, i, state, overall, now) ==
  [p EXCEPT !.steps[i] = state, !.overall = overall,
            !.version = @ + 1, !.at = now]

\* Mutant: an authorized step is authorized again.
MayAuthorizeAgain(p, i, active, now) ==
  /\ ApprovalValid(active, now)
  /\ p.overall \notin {"STOPPED", "COMPLETED"}
  /\ p.steps[i].auth # "CONSUMED"

\* The checks authorize_step makes of step i, the next one.
MayAuthorize(p, i, active, now) ==
  /\ ApprovalValid(active, now)
  /\ p.overall \notin {"STOPPED", "COMPLETED"}
  /\ p.steps[i].auth = "PENDING"
  /\ \A j \in 1..(i-1) : Successful(p.steps[j])

\* What authorize_step makes of p, as a set with at most one member.
Authorize(p, active, now) ==
  {Advanced(p, i, [p.steps[i] EXCEPT !.auth = "AUTHORIZED",
                                     !.bound = PriorEvidence(p, i)],
            "IN_PROGRESS", now)
    : i \in {k \in NextIndex(p) : MayAuthorize(p, k, active, now)}}

\* What a caller may report of the step it carried out.
Outcomes ==
  [exec : Executions, verif : Verifications, expected : BOOLEAN, error : BOOLEAN,
   evidence : Evidence]

OutcomeSuccess(o) ==
  o.exec = "SUCCEEDED" /\ o.verif = "PASS" /\ o.expected /\ ~o.error

\* Everything after a step that did not succeed is blocked.
BlockedAfter(p, i) ==
  [p EXCEPT !.steps = [j \in StepIds |->
      IF j > i THEN [p.steps[j] EXCEPT !.auth = "BLOCKED"] ELSE p.steps[j]]]

\* Mutant: an outcome without authorization.
MayRecordUnasked(p, i, o, active, now) ==
  /\ ApprovalValid(active, now)
  /\ p.steps[i].auth \in {"PENDING", "AUTHORIZED"}
  /\ OutcomeSuccess(o) \/ o.error

\* The checks record_step_outcome makes of step i, the next one.
MayRecord(p, i, o, active, now) ==
  /\ ApprovalValid(active, now)
  /\ p.steps[i].auth = "AUTHORIZED"
  /\ OutcomeSuccess(o) \/ o.error

\* What record_step_outcome makes of p for step i and outcome o.
RecordOutcome(p, i, o, active, now) ==
  LET state == [p.steps[i] EXCEPT
                  !.auth = "CONSUMED", !.exec = o.exec, !.verif = o.verif,
                  !.expected = o.expected, !.error = o.error,
                  !.evidence = o.evidence]
  IN {IF OutcomeSuccess(o)
      THEN Advanced(p, i, state, IF i = N THEN "COMPLETED" ELSE "IN_PROGRESS", now)
      ELSE Advanced(BlockedAfter(p, i), i, state, "STOPPED", now)
        : k \in {m \in NextIndex(p) : m = i /\ MayRecord(p, m, o, active, now)}}
=============================================================================
