-------------------------- MODULE DeliveryChainProofs --------------------------
(***************************************************************************)
(* Proofs about the delivery half of the chain, whose commands take effect *)
(* some time after they were judged (AuthorityRace).                       *)
(*                                                                         *)
(* The argument.  DeliveryMoves says what one step may do to each record.  *)
(* The invariants, and that what is lost stays lost, follow from it alone. *)
(* Every command of DeliveryChain is such a step.  So is every commit of a *)
(* slow one: StillHolds is what is left of the judgement of a command when *)
(* it commits, and that is enough for the step to have the same form.      *)
(***************************************************************************)
EXTENDS AuthorityRace, ImplementationChainProofs

-----------------------------------------------------------------------------
(* Types.                                                                  *)

\* A QA result, the build attempt it is about and its status.
QARecord == [build : Nat, status : {"PASSED", "FAILED", "BLOCKED"}]
\* A client decision and the QA result it is about.
DecisionRecord == [qa : Nat, decision : {"ACCEPTED", "REJECTED"}]
\* A version of a deployment authorization.
DeploymentRecord == [state : {"PROPOSED", "ACTIVE", "REVOKED", "SUPERSEDED"},
                     package : PackageRef, acceptance : Nat, window : Windows]
\* A deployment attempt.
ExecutionRecord == [status : {"IN_PROGRESS", "SUCCEEDED", "PARTIAL", "FAILED", "BLOCKED"},
                    rollbackOf : ExecutionRef \cup {NoExecution}]
\* A build attempt is its status.
BuildStatus == {"IN_PROGRESS", "SUCCEEDED", "FAILED"}
\* What derive_verification_status gives.
VerificationStatus == {"VERIFIED", "FAILED", "BLOCKED", "PARTIAL"}

\* The type of the six stores.
DeliveryTypeOK ==
    /\ builds \in [PackageRef -> Seq(BuildStatus)]
    /\ qa \in [PackageRef -> Seq(QARecord)]
    /\ acceptances \in [PackageRef -> Seq(DecisionRecord)]
    /\ deployments \in [Deployments -> Seq(DeploymentRecord)]
    /\ executions \in [DeploymentRef -> Seq(ExecutionRecord)]
    /\ verifications \in [ExecutionRef -> Seq(VerificationStatus)]

-----------------------------------------------------------------------------
(* What a step may do.                                                     *)

\* The package was released, whatever became of it since.
ReleasedOnce(p) == InState(packages, p, {"RELEASED", "SUPERSEDED"})

\* A QA result that passed.
Passing(p, m) == m \in DOMAIN qa[p] /\ qa[p][m].status = "PASSED"

\* A decision to accept.
Supporting(p, n) == n \in DOMAIN acceptances[p] /\ acceptances[p][n].decision = "ACCEPTED"

\* Attempts are added, one at a time, under a package that was released and when
\* the last one has ended; a terminal one is never written again.
BuildsMove ==
    /\ builds' \in [PackageRef -> Seq(BuildStatus)]
    /\ \A p \in PackageRef :
         /\ Len(builds'[p]) \in {Len(builds[p]), Len(builds[p]) + 1}
         /\ \A n \in 1..Len(builds[p]) : builds[p][n] # "IN_PROGRESS" => builds'[p][n] = builds[p][n]
         /\ Len(builds'[p]) = Len(builds[p]) + 1 => ReleasedOnce(p) /\ NextAttempt(builds[p])

\* A QA result is never written again.  A new one is about a build that succeeded
\* and that no earlier result is newer than.
QAMoves ==
    /\ qa' \in [PackageRef -> Seq(QARecord)]
    /\ \A p \in PackageRef :
         /\ Len(qa'[p]) \in {Len(qa[p]), Len(qa[p]) + 1}
         /\ \A m \in 1..Len(qa[p]) : qa'[p][m] = qa[p][m]
         /\ Len(qa'[p]) = Len(qa[p]) + 1 =>
              LET about == qa'[p][Len(qa'[p])].build
              IN  BuildSucceeded(p, about) /\ \A m \in 1..Len(qa[p]) : qa[p][m].build <= about

\* A decision is never written again.  A new one is about a QA result that passed
\* and that no earlier decision is newer than.
AcceptancesMove ==
    /\ acceptances' \in [PackageRef -> Seq(DecisionRecord)]
    /\ \A p \in PackageRef :
         /\ Len(acceptances'[p]) \in {Len(acceptances[p]), Len(acceptances[p]) + 1}
         /\ \A n \in 1..Len(acceptances[p]) : acceptances'[p][n] = acceptances[p][n]
         /\ Len(acceptances'[p]) = Len(acceptances[p]) + 1 =>
              LET about == acceptances'[p][Len(acceptances'[p])].qa
              IN  Passing(p, about) /\ \A n \in 1..Len(acceptances[p]) : acceptances[p][n].qa <= about

\* A version of a deployment authorization is kept, activated with both signatures
\* once its window has opened, revoked, met by the clock or replaced when it was
\* active; a new one is proposed from a decision to accept.
DeploymentAfter(d, v) ==
    LET n == Len(deployments[d])
        old == deployments[d][v]
        new == deployments'[d][v]
    IN  \/ /\ v \in 1..n
           /\ \/ new = old
              \/ /\ old.state = "PROPOSED" /\ old.window # "early" /\ new = [old EXCEPT !.state = "ACTIVE"]
                 /\ SignedByAll("deployment", [id |-> d, version |-> v])
              \/ old.state \in {"PROPOSED", "ACTIVE"} /\ new = [old EXCEPT !.state = "REVOKED"]
              \/ old.window = "early" /\ new = [old EXCEPT !.window = "open"]
              \/ old.window = "open" /\ new = [old EXCEPT !.window = "over"]
              \/ old.state = "ACTIVE" /\ new = Superseded(old)
        \/ v = n + 1 /\ new.state = "PROPOSED" /\ Supporting(new.package, new.acceptance)

\* A step of the deployment authorizations.
DeploymentsMove ==
    /\ deployments' \in [Deployments -> Seq(DeploymentRecord)]
    /\ \A d \in Deployments :
         /\ Len(deployments[d]) <= Len(deployments'[d])
         /\ \A v \in 1..Len(deployments'[d]) : DeploymentAfter(d, v)

\* A deployment attempt keeps what it corrects, and its status once that is
\* terminal.  A new one has an authorization that was activated and signed, and
\* corrects only what may be rolled back.
ExecutionsMove ==
    /\ executions' \in [DeploymentRef -> Seq(ExecutionRecord)]
    /\ \A ref \in DeploymentRef :
         /\ Len(executions'[ref]) \in {Len(executions[ref]), Len(executions[ref]) + 1}
         /\ \A n \in 1..Len(executions[ref]) :
              /\ executions'[ref][n].rollbackOf = executions[ref][n].rollbackOf
              /\ \/ executions[ref][n].status = "IN_PROGRESS"
                 \/ executions'[ref][n].status = executions[ref][n].status
         /\ Len(executions'[ref]) = Len(executions[ref]) + 1 =>
              LET cause == executions'[ref][Len(executions'[ref])].rollbackOf
              IN  /\ InState(deployments, ref, Activated) /\ SignedByAll("deployment", ref)
                  /\ cause # NoExecution => CanBeRolledBack(cause)

\* Only an attempt that may have applied something is verified.
VerificationsMove ==
    /\ verifications' \in [ExecutionRef -> Seq(VerificationStatus)]
    /\ \A e \in ExecutionRef : verifications'[e] = verifications[e] \/ Verifiable(e)

\* What one step may do to every record of the chain.
DeliveryMoves ==
    /\ ChainMoves
    /\ BuildsMove /\ QAMoves /\ AcceptancesMove
    /\ DeploymentsMove /\ ExecutionsMove /\ VerificationsMove

-----------------------------------------------------------------------------
(* What is not written moves trivially.                                    *)

\* No write: every result is kept.
LEMMA ResultsStay ==
    ASSUME DeliveryTypeOK
    PROVE  /\ UNCHANGED builds => BuildsMove
           /\ UNCHANGED qa => QAMoves
           /\ UNCHANGED acceptances => AcceptancesMove
<1>1. ASSUME NEW p \in PackageRef
      PROVE  Len(builds[p]) \in Nat /\ Len(qa[p]) \in Nat /\ Len(acceptances[p]) \in Nat
  BY DEF DeliveryTypeOK
<1> QED
  BY <1>1 DEF DeliveryTypeOK, BuildsMove, QAMoves, AcceptancesMove

\* No write: every authorization, attempt and verification is kept.
LEMMA DeploymentsStay ==
    ASSUME DeliveryTypeOK
    PROVE  /\ UNCHANGED deployments => DeploymentsMove
           /\ UNCHANGED executions => ExecutionsMove
           /\ UNCHANGED verifications => VerificationsMove
<1>1. ASSUME UNCHANGED deployments PROVE DeploymentsMove
  <2>1. deployments' = deployments /\ \A d \in Deployments : Len(deployments[d]) \in Nat
    BY <1>1 DEF DeliveryTypeOK
  <2> QED
    BY <2>1 DEF DeliveryTypeOK, DeploymentsMove, DeploymentAfter
<1>2. ASSUME UNCHANGED executions PROVE ExecutionsMove
  <2>1. executions' = executions /\ \A d \in DeploymentRef : Len(executions[d]) \in Nat
    BY <1>2 DEF DeliveryTypeOK
  <2> QED
    BY <2>1 DEF DeliveryTypeOK, ExecutionsMove
<1>3. ASSUME UNCHANGED verifications PROVE VerificationsMove
  BY <1>3 DEF DeliveryTypeOK, VerificationsMove
<1> QED
  BY <1>1, <1>2, <1>3

\* Appending to one of many sequences.
LEMMA Appended ==
    ASSUME NEW Ids, NEW R, NEW store \in [Ids -> Seq(R)], NEW id \in Ids, NEW r \in R,
           NEW new, new = Added(store, id, r)
    PROVE  /\ new \in [Ids -> Seq(R)]
           /\ Len(new[id]) = Len(store[id]) + 1 /\ Len(store[id]) \in Nat
           /\ new[id][Len(store[id]) + 1] = r
           /\ \A v \in 1..Len(store[id]) : new[id][v] = store[id][v]
           /\ \A o \in Ids \ {id} : new[o] = store[o]
<1>1. new = [store EXCEPT ![id] = Append(@, r)] /\ Len(store[id]) \in Nat
  BY DEF Added
<1> QED
  BY <1>1, AddedRecord

-----------------------------------------------------------------------------
(* Builds, QA results and decisions.                                       *)

\* create of phase5d_build_execution.py, of a released package.
LEMMA BuildAdded ==
    ASSUME DeliveryTypeOK, NEW p \in PackageRef, AddBuild(p), ReleasedOnce(p)
    PROVE  BuildsMove
<1>1. /\ builds \in [PackageRef -> Seq(BuildStatus)] /\ "IN_PROGRESS" \in BuildStatus
      /\ builds' = Added(builds, p, "IN_PROGRESS")
  BY DEF DeliveryTypeOK, AddBuild, BuildStatus
<1>2. /\ builds' \in [PackageRef -> Seq(BuildStatus)]
      /\ Len(builds'[p]) = Len(builds[p]) + 1 /\ Len(builds[p]) \in Nat
      /\ \A n \in 1..Len(builds[p]) : builds'[p][n] = builds[p][n]
      /\ \A o \in PackageRef \ {p} : builds'[o] = builds[o]
  BY <1>1, Appended
<1>3. ASSUME NEW o \in PackageRef
      PROVE  /\ Len(builds'[o]) \in {Len(builds[o]), Len(builds[o]) + 1}
             /\ \A n \in 1..Len(builds[o]) : builds'[o][n] = builds[o][n]
             /\ Len(builds'[o]) = Len(builds[o]) + 1 => ReleasedOnce(o) /\ NextAttempt(builds[o])
  <2>1. Len(builds[o]) \in Nat
    BY <1>1
  <2>2. CASE o = p
    BY <1>2, <2>2 DEF AddBuild
  <2>3. CASE o # p
    BY <1>2, <2>1, <2>3
  <2> QED
    BY <2>2, <2>3
<1> QED
  BY <1>2, <1>3 DEF BuildsMove

\* complete of phase5d_build_execution.py writes an attempt that is in progress.
LEMMA BuildCompleted ==
    ASSUME DeliveryTypeOK, NEW p \in PackageRef, NEW n, NEW status \in {"SUCCEEDED", "FAILED"},
           EndBuild(p, n, status)
    PROVE  BuildsMove /\ \A o \in PackageRef : Len(builds'[o]) = Len(builds[o])
<1>1. /\ builds \in [PackageRef -> Seq(BuildStatus)] /\ status \in BuildStatus
      /\ n \in DOMAIN builds[p] /\ builds[p][n] = "IN_PROGRESS"
      /\ builds' = [builds EXCEPT ![p] = [builds[p] EXCEPT ![n] = status]]
  BY DEF DeliveryTypeOK, EndBuild, BuildStatus
<1>2. /\ builds' \in [PackageRef -> Seq(BuildStatus)]
      /\ Len(builds'[p]) = Len(builds[p])
      /\ \A k \in 1..Len(builds[p]) : builds[p][k] # "IN_PROGRESS" => builds'[p][k] = builds[p][k]
      /\ \A o \in PackageRef \ {p} : builds'[o] = builds[o]
  BY <1>1
<1>3. \A o \in PackageRef : Len(builds[o]) \in Nat
  BY <1>1
<1>4. \A o \in PackageRef : Len(builds'[o]) = Len(builds[o])
  BY <1>2
<1> QED
  BY <1>2, <1>3, <1>4 DEF BuildsMove

\* create of phase5d_qa_result.py, about a build that succeeded and is not older
\* than what earlier results are about.
LEMMA QAAdded ==
    ASSUME DeliveryTypeOK, NEW p \in PackageRef, NEW n \in Nat, NEW status \in {"PASSED", "FAILED", "BLOCKED"},
           AddQA(p, n, status), BuildSucceeded(p, n),
           \A m \in DOMAIN qa[p] : qa[p][m].build <= n
    PROVE  QAMoves
<1> DEFINE r == [build |-> n, status |-> status]
<1>1. /\ qa \in [PackageRef -> Seq(QARecord)] /\ r \in QARecord /\ r.build = n
      /\ qa' = Added(qa, p, r)
  BY DEF DeliveryTypeOK, AddQA, QARecord
<1> HIDE DEF r
<1>2. /\ qa' \in [PackageRef -> Seq(QARecord)]
      /\ Len(qa'[p]) = Len(qa[p]) + 1 /\ Len(qa[p]) \in Nat /\ qa'[p][Len(qa[p]) + 1] = r
      /\ \A m \in 1..Len(qa[p]) : qa'[p][m] = qa[p][m]
      /\ \A o \in PackageRef \ {p} : qa'[o] = qa[o]
  BY <1>1, Appended
<1>3. \A o \in PackageRef : Len(qa[o]) \in Nat /\ DOMAIN qa[o] = 1..Len(qa[o])
  BY <1>1
<1>4. qa'[p][Len(qa'[p])].build = n
  BY <1>1, <1>2
<1>5. \A m \in 1..Len(qa[p]) : qa[p][m].build <= n
  BY <1>3
<1>6. ASSUME NEW o \in PackageRef
      PROVE  /\ Len(qa'[o]) \in {Len(qa[o]), Len(qa[o]) + 1}
             /\ \A m \in 1..Len(qa[o]) : qa'[o][m] = qa[o][m]
             /\ Len(qa'[o]) = Len(qa[o]) + 1 =>
                  LET about == qa'[o][Len(qa'[o])].build
                  IN  BuildSucceeded(o, about) /\ \A m \in 1..Len(qa[o]) : qa[o][m].build <= about
  <2>1. CASE o = p
    BY <1>2, <1>4, <1>5, <2>1
  <2>2. CASE o # p
    BY <1>2, <1>3, <2>2
  <2> QED
    BY <2>1, <2>2
<1> QED
  BY <1>2, <1>6 DEF QAMoves

\* create of phase5d_client_acceptance.py, about a QA result that passed and is not
\* older than what earlier decisions are about.
LEMMA AcceptanceAdded ==
    ASSUME DeliveryTypeOK, NEW p \in PackageRef, NEW m \in Nat, NEW decision \in {"ACCEPTED", "REJECTED"},
           AddAcceptance(p, m, decision), Passing(p, m),
           \A n \in DOMAIN acceptances[p] : acceptances[p][n].qa <= m
    PROVE  AcceptancesMove
<1> DEFINE r == [qa |-> m, decision |-> decision]
<1>1. /\ acceptances \in [PackageRef -> Seq(DecisionRecord)] /\ r \in DecisionRecord /\ r.qa = m
      /\ acceptances' = Added(acceptances, p, r)
  BY DEF DeliveryTypeOK, AddAcceptance, DecisionRecord
<1> HIDE DEF r
<1>2. /\ acceptances' \in [PackageRef -> Seq(DecisionRecord)]
      /\ Len(acceptances'[p]) = Len(acceptances[p]) + 1 /\ Len(acceptances[p]) \in Nat
      /\ acceptances'[p][Len(acceptances[p]) + 1] = r
      /\ \A n \in 1..Len(acceptances[p]) : acceptances'[p][n] = acceptances[p][n]
      /\ \A o \in PackageRef \ {p} : acceptances'[o] = acceptances[o]
  BY <1>1, Appended
<1>3. \A o \in PackageRef : Len(acceptances[o]) \in Nat /\ DOMAIN acceptances[o] = 1..Len(acceptances[o])
  BY <1>1
<1>4. acceptances'[p][Len(acceptances'[p])].qa = m
  BY <1>1, <1>2
<1>5. \A n \in 1..Len(acceptances[p]) : acceptances[p][n].qa <= m
  BY <1>3
<1>6. ASSUME NEW o \in PackageRef
      PROVE  /\ Len(acceptances'[o]) \in {Len(acceptances[o]), Len(acceptances[o]) + 1}
             /\ \A n \in 1..Len(acceptances[o]) : acceptances'[o][n] = acceptances[o][n]
             /\ Len(acceptances'[o]) = Len(acceptances[o]) + 1 =>
                  LET about == acceptances'[o][Len(acceptances'[o])].qa
                  IN  Passing(o, about) /\ \A n \in 1..Len(acceptances[o]) : acceptances[o][n].qa <= about
  <2>1. CASE o = p
    BY <1>2, <1>4, <1>5, <2>1
  <2>2. CASE o # p
    BY <1>2, <1>3, <2>2
  <2> QED
    BY <2>1, <2>2
<1> QED
  BY <1>2, <1>6 DEF AcceptancesMove

-----------------------------------------------------------------------------
(* Deployment authorizations.                                              *)

\* revise of an active deployment authorization supersedes it and adds a version.
LEMMA DeploymentRevised ==
    ASSUME DeliveryTypeOK, NEW d \in Deployments, NEW r \in DeploymentRecord,
           r.state = "PROPOSED", Supporting(r.package, r.acceptance),
           deployments[d] # <<>>, Latest(deployments, d).state = "ACTIVE",
           deployments' = Revised(deployments, d, r)
    PROVE  DeploymentsMove
<1>1. /\ deployments \in [Deployments -> Seq(DeploymentRecord)]
      /\ \A o \in Deployments : Len(deployments[o]) \in Nat
  BY DEF DeliveryTypeOK
<1>2. \A x \in DeploymentRecord : Superseded(x) \in DeploymentRecord
  BY DEF DeploymentRecord, Superseded
<1>3. /\ deployments' \in [Deployments -> Seq(DeploymentRecord)]
      /\ \A o \in Deployments : /\ Grows(deployments, deployments', o)
                             /\ \A v \in 1..Len(deployments'[o]) :
                                  \/ Kept(deployments, deployments', o, v)
                                  \/ o = d /\ ReplacedAt(deployments, deployments', o, v)
                                  \/ o = d /\ AddedAt(deployments, deployments', o, v) /\ deployments'[o][v] = r
  BY <1>1, <1>2, RevisedMoves
<1>4. deployments[d][Len(deployments[d])].state = "ACTIVE"
  BY DEF Latest
<1> QED
  BY <1>1, <1>3, <1>4 DEF DeploymentsMove, DeploymentAfter, Grows, Kept, ReplacedAt, AddedAt

\* create_initial and revise of a deployment authorization keep, replace or add.
LEMMA DeploymentAdded ==
    ASSUME DeliveryTypeOK, NEW d \in Deployments, NEW r \in DeploymentRecord,
           r.state = "PROPOSED", Supporting(r.package, r.acceptance),
           AddInitial(d, r) \/ AddRevision(d, r)
    PROVE  DeploymentsMove
<1>1. deployments \in [Deployments -> Seq(DeploymentRecord)] /\ \A o \in Deployments : Len(deployments[o]) \in Nat
  BY DEF DeliveryTypeOK
<1>2. CASE deployments[d] = <<>> /\ deployments' = Initial(deployments, d, r)
  <2>1. /\ deployments' \in [Deployments -> Seq(DeploymentRecord)]
        /\ \A o \in Deployments : /\ Grows(deployments, deployments', o)
                             /\ \A v \in 1..Len(deployments'[o]) :
                                  \/ Kept(deployments, deployments', o, v)
                                  \/ o = d /\ AddedAt(deployments, deployments', o, v) /\ deployments'[o][v] = r
    BY <1>1, <1>2, InitialMoves
  <2> QED
    BY <1>1, <2>1 DEF DeploymentsMove, DeploymentAfter, Grows, Kept, AddedAt
<1>3. CASE /\ deployments[d] # <<>> /\ Latest(deployments, d).state = "ACTIVE"
           /\ deployments' = Revised(deployments, d, r)
  BY <1>3, DeploymentRevised
<1>4. CASE deployments' = Added(deployments, d, r)
  <2>1. /\ deployments' \in [Deployments -> Seq(DeploymentRecord)]
        /\ Len(deployments'[d]) = Len(deployments[d]) + 1
        /\ deployments'[d][Len(deployments[d]) + 1] = r
        /\ \A v \in 1..Len(deployments[d]) : deployments'[d][v] = deployments[d][v]
        /\ \A o \in Deployments \ {d} : deployments'[o] = deployments[o]
    <3>1. deployments' = [deployments EXCEPT ![d] = Append(@, r)]
      BY <1>4 DEF Added
    <3> QED
      BY <1>1, <3>1, AddedRecord
  <2> QED
    BY <1>1, <2>1 DEF DeploymentsMove, DeploymentAfter
<1> QED
  BY <1>2, <1>3, <1>4 DEF AddInitial, AddRevision, MayRevise

\* A write in place changes that version and no other.
LEMMA DeploymentWritten ==
    ASSUME DeliveryTypeOK, NEW d \in Deployments, NEW v \in 1..Len(deployments[d]),
           NEW r \in DeploymentRecord, deployments' = Written(deployments, d, v, r),
           deployments'[d][v] = r => DeploymentAfter(d, v)
    PROVE  DeploymentsMove
<1>1. deployments \in [Deployments -> Seq(DeploymentRecord)] /\ \A o \in Deployments : Len(deployments[o]) \in Nat
  BY DEF DeliveryTypeOK
<1>2. /\ deployments' \in [Deployments -> Seq(DeploymentRecord)]
      /\ \A o \in Deployments :
           /\ Grows(deployments, deployments', o)
           /\ \A u \in 1..Len(deployments'[o]) :
                \/ Kept(deployments, deployments', o, u)
                \/ /\ o = d /\ u = v
                   /\ ChangedAt(deployments, deployments', o, u) /\ deployments'[o][u] = r
  BY <1>1, ChangedMoves
<1>3. \A o \in Deployments : \A u \in 1..Len(deployments'[o]) :
        Kept(deployments, deployments', o, u) => DeploymentAfter(o, u)
  BY DEF DeploymentAfter, Kept
<1> QED
  BY <1>1, <1>2, <1>3 DEF DeploymentsMove, Grows

\* activate of phase5d_deployment_authorization.py.
LEMMA DeploymentActivated ==
    ASSUME DeliveryTypeOK, NEW ref \in DeploymentRef, MakeActive(ref),
           SignedByAll("deployment", ref), Version(deployments, ref).window # "early"
    PROVE  DeploymentsMove
<1> DEFINE d == ref.id
           v == ref.version
           r == [deployments[d][v] EXCEPT !.state = "ACTIVE"]
<1>1. d \in Deployments /\ v \in 1..Len(deployments[d]) /\ deployments[d][v] \in DeploymentRecord
  BY DEF DeliveryTypeOK, MakeActive, InState, Stored, DeploymentRef
<1>2. /\ deployments[d][v].state = "PROPOSED" /\ deployments' = Written(deployments, d, v, r)
      /\ deployments[d][v].window # "early"
  BY DEF MakeActive, InState, Version, SetState, Written
<1>3. r \in DeploymentRecord /\ ref = [id |-> d, version |-> v]
  BY <1>1 DEF DeploymentRecord, DeploymentRef
<1>4. deployments'[d][v] = r => DeploymentAfter(d, v)
  BY <1>1, <1>2, <1>3 DEF DeploymentAfter
<1> HIDE DEF r, d, v
<1> QED
  BY <1>1, <1>2, <1>3, <1>4, DeploymentWritten

\* The commands of phase5d_deployment_authorization.py, and the clock, do nothing
\* else.
LEMMA DeploymentMoves ==
    ASSUME DeliveryTypeOK, DeploymentNext
    PROVE  DeploymentsMove
<1>1. ASSUME NEW d \in Deployments, NEW p \in PackageRef, NEW decision \in 1..MaxDecisions,
             NEW window \in Windows,
             ProposeDeployment(d, p, decision, window) \/ ReviseDeployment(d, p, decision, window)
      PROVE  DeploymentsMove
  <2> DEFINE r == NewDeployment(p, decision, window)
  <2>1. Prerequisites(p, decision) /\ decision \in Nat
    BY <1>1, AttemptAssumption DEF ProposeDeployment, ReviseDeployment
  <2>2. Supporting(p, decision)
    BY <2>1 DEF Prerequisites, Supporting
  <2>3. r \in DeploymentRecord /\ r.state = "PROPOSED" /\ Supporting(r.package, r.acceptance)
    BY <2>1, <2>2 DEF NewDeployment, DeploymentRecord
  <2>4. AddInitial(d, r) \/ AddRevision(d, r)
    BY <1>1 DEF ProposeDeployment, ReviseDeployment
  <2> HIDE DEF r
  <2> QED
    BY <2>3, <2>4, DeploymentAdded
<1>2. ASSUME NEW ref \in DeploymentRef, ActivateDeployment(ref)
      PROVE  DeploymentsMove
  BY <1>2, DeploymentActivated, SignaturesMeet DEF ActivateDeployment, MayActivateDeployment
<1>3. ASSUME NEW ref \in DeploymentRef, RevokeDeployment(ref)
      PROVE  DeploymentsMove
  <2> DEFINE d == ref.id
             v == ref.version
             r == [deployments[d][v] EXCEPT !.state = "REVOKED"]
  <2>1. d \in Deployments /\ v \in 1..Len(deployments[d]) /\ deployments[d][v] \in DeploymentRecord
    BY <1>3 DEF DeliveryTypeOK, RevokeDeployment, InState, Stored, DeploymentRef
  <2>2. /\ deployments[d][v].state \in {"PROPOSED", "ACTIVE"}
        /\ deployments' = Written(deployments, d, v, r)
    BY <1>3 DEF RevokeDeployment, InState, Version, SetState, Written
  <2>3. r \in DeploymentRecord
    BY <2>1 DEF DeploymentRecord
  <2>4. deployments'[d][v] = r => DeploymentAfter(d, v)
    BY <2>1, <2>2 DEF DeploymentAfter
  <2> HIDE DEF r, d, v
  <2> QED
    BY <2>1, <2>2, <2>3, <2>4, DeploymentWritten
<1>4. ASSUME NEW ref \in DeploymentRef, DeploymentClock(ref)
      PROVE  DeploymentsMove
  <2> DEFINE d == ref.id
             v == ref.version
             old == deployments[d][v]
  <2>1. d \in Deployments /\ v \in 1..Len(deployments[d]) /\ old \in DeploymentRecord
    BY <1>4 DEF DeliveryTypeOK, DeploymentClock, Stored, DeploymentRef
  <2>2. PICK step \in {<<"early", "open">>, <<"open", "over">>} :
          /\ old.window = step[1]
          /\ deployments' = [deployments EXCEPT ![d][v].window = step[2]]
    BY <1>4 DEF DeploymentClock, Version
  <2> DEFINE r == [old EXCEPT !.window = step[2]]
  <2>3. /\ step[2] \in {"open", "over"}
        /\ \/ old.window = "early" /\ step[2] = "open"
           \/ old.window = "open" /\ step[2] = "over"
    BY <2>2
  <2>4. r \in DeploymentRecord
    BY <2>1, <2>3 DEF DeploymentRecord, Windows
  <2>5. deployments' = Written(deployments, d, v, r)
    BY <2>2 DEF Written
  <2>6. deployments'[d][v] = r => DeploymentAfter(d, v)
    BY <2>1, <2>3 DEF DeploymentAfter
  <2> HIDE DEF r, d, v
  <2> QED
    BY <2>1, <2>4, <2>5, <2>6, DeploymentWritten
<1>5. ASSUME NEW ref \in DeploymentRef, NEW role \in Roles, RecordDeploymentApproval(ref, role)
      PROVE  DeploymentsMove
  BY <1>5, DeploymentsStay DEF RecordDeploymentApproval, AddDeploymentApproval
<1> QED
  BY <1>1, <1>2, <1>3, <1>4, <1>5 DEF DeploymentNext

-----------------------------------------------------------------------------
(* Deployment attempts and verifications.                                  *)

\* create of phase5d_deployment_execution.py, under an authorization that was
\* activated and signed.
LEMMA ExecutionAdded ==
    ASSUME DeliveryTypeOK, NEW ref \in DeploymentRef, NEW cause \in ExecutionRef \cup {NoExecution},
           AddExecution(ref, cause), InState(deployments, ref, Activated), SignedByAll("deployment", ref),
           cause # NoExecution => CanBeRolledBack(cause)
    PROVE  ExecutionsMove
<1> DEFINE r == [status |-> "IN_PROGRESS", rollbackOf |-> cause]
<1>1. /\ executions \in [DeploymentRef -> Seq(ExecutionRecord)] /\ r \in ExecutionRecord
      /\ r.rollbackOf = cause
      /\ executions' = Added(executions, ref, r)
  BY DEF DeliveryTypeOK, AddExecution, ExecutionRecord
<1> HIDE DEF r
<1>2. /\ executions' \in [DeploymentRef -> Seq(ExecutionRecord)]
      /\ Len(executions'[ref]) = Len(executions[ref]) + 1 /\ Len(executions[ref]) \in Nat
      /\ executions'[ref][Len(executions[ref]) + 1] = r
      /\ \A n \in 1..Len(executions[ref]) : executions'[ref][n] = executions[ref][n]
      /\ \A o \in DeploymentRef \ {ref} : executions'[o] = executions[o]
  <2>1. executions' = [executions EXCEPT ![ref] = Append(@, r)] /\ Len(executions[ref]) \in Nat
    BY <1>1 DEF Added
  <2> QED
    BY <1>1, <2>1, AddedRecord
<1>3. executions'[ref][Len(executions'[ref])].rollbackOf = cause
  BY <1>1, <1>2
<1>4. ASSUME NEW o \in DeploymentRef
      PROVE  /\ Len(executions'[o]) \in {Len(executions[o]), Len(executions[o]) + 1}
             /\ \A n \in 1..Len(executions[o]) : executions'[o][n] = executions[o][n]
             /\ Len(executions'[o]) = Len(executions[o]) + 1 => o = ref
  <2>1. Len(executions[o]) \in Nat
    BY <1>1
  <2>2. CASE o = ref
    BY <1>2, <2>2
  <2>3. CASE o # ref
    BY <1>2, <2>1, <2>3
  <2> QED
    BY <2>2, <2>3
<1> QED
  BY <1>2, <1>3, <1>4 DEF ExecutionsMove

\* complete of phase5d_deployment_execution.py writes the attempt that is in
\* progress, and keeps what it corrects.
LEMMA ExecutionCompleted ==
    ASSUME DeliveryTypeOK, NEW ref \in DeploymentRef, NEW status \in Endings,
           CompleteExecution(ref, status)
    PROVE  ExecutionsMove
<1> DEFINE n == Len(executions[ref])
           r == [executions[ref][n] EXCEPT !.status = status]
<1>1. /\ executions \in [DeploymentRef -> Seq(ExecutionRecord)]
      /\ executions[ref] # <<>> /\ executions[ref][n].status = "IN_PROGRESS"
  BY DEF DeliveryTypeOK, CompleteExecution, Last
<1>2. n \in 1..n /\ n \in Nat /\ executions[ref][n] \in ExecutionRecord
  BY <1>1
<1>3. status \in {"SUCCEEDED", "PARTIAL", "FAILED", "BLOCKED"}
  BY DEF Endings, TerminalTruth
<1>4. executions' = Written(executions, ref, n, r)
  BY DEF CompleteExecution, Written
<1>5. r \in ExecutionRecord /\ r.rollbackOf = executions[ref][n].rollbackOf
  BY <1>2, <1>3 DEF ExecutionRecord
<1> HIDE DEF r, n
<1>6. /\ executions' \in [DeploymentRef -> Seq(ExecutionRecord)]
      /\ \A o \in DeploymentRef :
           /\ Grows(executions, executions', o)
           /\ \A v \in 1..Len(executions'[o]) :
                \/ Kept(executions, executions', o, v)
                \/ /\ o = ref /\ v = n
                   /\ ChangedAt(executions, executions', o, v) /\ executions'[o][v] = r
  <2>1. executions \in [DeploymentRef -> Seq(ExecutionRecord)] /\ n \in 1..Len(executions[ref])
    BY <1>1, <1>2 DEF n
  <2>2. PICK new : new = Written(executions, ref, n, r)
    OBVIOUS
  <2>3. /\ new \in [DeploymentRef -> Seq(ExecutionRecord)]
        /\ \A o \in DeploymentRef :
             /\ Grows(executions, new, o)
             /\ \A v \in 1..Len(new[o]) :
                  \/ Kept(executions, new, o, v)
                  \/ /\ o = ref /\ v = n
                     /\ ChangedAt(executions, new, o, v) /\ new[o][v] = r
    BY <1>5, <2>1, <2>2, ChangedMoves
  <2> QED
    BY <1>4, <2>2, <2>3
<1>7. ASSUME NEW o \in DeploymentRef
      PROVE  /\ Len(executions'[o]) = Len(executions[o]) /\ Len(executions[o]) \in Nat
             /\ \A v \in 1..Len(executions[o]) :
                  \/ executions'[o][v] = executions[o][v]
                  \/ o = ref /\ v = n /\ executions'[o][v] = r
  <2>1. Len(executions[o]) \in Nat /\ Len(executions'[o]) \in Nat
    BY <1>1, <1>6
  <2>2. Len(executions'[o]) = Len(executions[o])
    <3>1. CASE Len(executions'[o]) = 0
      BY <1>6, <2>1, <3>1 DEF Grows
    <3>2. CASE Len(executions'[o]) # 0
      <4>1. Len(executions'[o]) \in 1..Len(executions'[o])
        BY <2>1, <3>2
      <4> QED
        BY <1>6, <2>1, <4>1 DEF Grows, Kept, ChangedAt
    <3> QED
      BY <3>1, <3>2
  <2> QED
    BY <1>6, <2>1, <2>2 DEF Kept
<1>8. \A o \in DeploymentRef : \A v \in 1..Len(executions[o]) :
        /\ executions'[o][v].rollbackOf = executions[o][v].rollbackOf
        /\ executions[o][v].status = "IN_PROGRESS" \/ executions'[o][v].status = executions[o][v].status
  BY <1>1, <1>5, <1>7 DEF n
<1> QED
  BY <1>6, <1>7, <1>8 DEF ExecutionsMove

\* create of phase5d_deployment_verification.py.
LEMMA VerificationAdded ==
    ASSUME DeliveryTypeOK, NEW e \in ExecutionRef, NEW status \in Findings, RecordVerification(e, status)
    PROVE  VerificationsMove
<1>1. /\ verifications \in [ExecutionRef -> Seq(VerificationStatus)] /\ status \in VerificationStatus
      /\ verifications' = Added(verifications, e, status)
  BY DEF DeliveryTypeOK, RecordVerification, Findings, DerivedVerification, VerificationStatus
<1>2. /\ verifications' \in [ExecutionRef -> Seq(VerificationStatus)]
      /\ \A o \in ExecutionRef \ {e} : verifications'[o] = verifications[o]
  BY <1>1, Appended
<1> QED
  BY <1>2 DEF VerificationsMove, RecordVerification

-----------------------------------------------------------------------------
(* What the results say.                                                   *)

\* What is recorded about a result stays true: its package was released, its build
\* succeeded, its QA result passed; and only the last build can be in progress.
ResultsRest ==
    \A p \in PackageRef :
      /\ builds[p] # <<>> => ReleasedOnce(p)
      /\ \A n \in 1..Len(builds[p]) : builds[p][n] = "IN_PROGRESS" => n = Len(builds[p])
      /\ \A m \in DOMAIN qa[p] : BuildSucceeded(p, qa[p][m].build)
      /\ \A n \in DOMAIN acceptances[p] : Passing(p, acceptances[p][n].qa)

\* What an authorization and the attempts under it were made from.
DeploymentsRest ==
    \A ref \in DeploymentRef :
      /\ Stored(deployments, ref) =>
           LET record == Version(deployments, ref)
           IN  /\ Supporting(record.package, record.acceptance)
               /\ record.state \in {"ACTIVE", "SUPERSEDED"} => SignedByAll("deployment", ref)
               /\ record.state = "ACTIVE" => record.window # "early"
      /\ executions[ref] # <<>> =>
           InState(deployments, ref, Activated) /\ SignedByAll("deployment", ref)

\* The inductive invariant: the checked invariants and what they rest on.
DeliverySafe ==
    /\ ChainSafe
    /\ DeliveryTypeOK
    /\ ResultsRest
    /\ DeploymentsRest
    /\ ResultsInOrder
    /\ CorrectionsHaveCause

\* What the types say of each place of a store.
LEMMA ResultPlaces ==
    ASSUME DeliveryTypeOK
    PROVE  /\ \A p \in PackageRef :
                /\ DOMAIN builds[p] = 1..Len(builds[p]) /\ Len(builds[p]) \in Nat
                /\ DOMAIN qa[p] = 1..Len(qa[p]) /\ Len(qa[p]) \in Nat
                /\ \A m \in 1..Len(qa[p]) : qa[p][m] \in QARecord
                /\ DOMAIN acceptances[p] = 1..Len(acceptances[p]) /\ Len(acceptances[p]) \in Nat
                /\ \A n \in 1..Len(acceptances[p]) : acceptances[p][n] \in DecisionRecord
                /\ builds[p] # <<>> <=> Len(builds[p]) > 0
           /\ \A d \in Deployments :
                /\ DOMAIN deployments[d] = 1..Len(deployments[d]) /\ Len(deployments[d]) \in Nat
                /\ \A v \in 1..Len(deployments[d]) : deployments[d][v] \in DeploymentRecord
           /\ \A ref \in DeploymentRef :
                /\ DOMAIN executions[ref] = 1..Len(executions[ref]) /\ Len(executions[ref]) \in Nat
                /\ \A n \in 1..Len(executions[ref]) : executions[ref][n] \in ExecutionRecord
                /\ executions[ref] # <<>> <=> Len(executions[ref]) > 0
  BY DEF DeliveryTypeOK

\* The same after a step.
LEMMA ResultPlacesNext ==
    ASSUME DeliveryTypeOK'
    PROVE  /\ \A p \in PackageRef :
                /\ DOMAIN builds'[p] = 1..Len(builds'[p]) /\ Len(builds'[p]) \in Nat
                /\ DOMAIN qa'[p] = 1..Len(qa'[p]) /\ Len(qa'[p]) \in Nat
                /\ \A m \in 1..Len(qa'[p]) : qa'[p][m] \in QARecord
                /\ DOMAIN acceptances'[p] = 1..Len(acceptances'[p]) /\ Len(acceptances'[p]) \in Nat
                /\ \A n \in 1..Len(acceptances'[p]) : acceptances'[p][n] \in DecisionRecord
                /\ builds'[p] # <<>> <=> Len(builds'[p]) > 0
           /\ \A d \in Deployments :
                /\ DOMAIN deployments'[d] = 1..Len(deployments'[d]) /\ Len(deployments'[d]) \in Nat
                /\ \A v \in 1..Len(deployments'[d]) : deployments'[d][v] \in DeploymentRecord
           /\ \A ref \in DeploymentRef :
                /\ DOMAIN executions'[ref] = 1..Len(executions'[ref]) /\ Len(executions'[ref]) \in Nat
                /\ \A n \in 1..Len(executions'[ref]) : executions'[ref][n] \in ExecutionRecord
                /\ executions'[ref] # <<>> <=> Len(executions'[ref]) > 0
  BY DEF DeliveryTypeOK

\* A step keeps the types.
LEMMA DeliveryTypesKept ==
    ASSUME DeliveryMoves
    PROVE  ChainTypeOK' /\ DeliveryTypeOK'
<1>1. ChainTypeOK'
  BY TypesKept DEF DeliveryMoves
<1>2. DeliveryTypeOK'
  BY DEF DeliveryMoves, BuildsMove, QAMoves, AcceptancesMove, DeploymentsMove, ExecutionsMove,
         VerificationsMove, DeliveryTypeOK
<1> QED
  BY <1>1, <1>2

\* A package that was released stays released or superseded.
LEMMA ReleasedStable ==
    ASSUME ChainTypeOK, ChainMoves, NEW p \in PackageRef, ReleasedOnce(p)
    PROVE  ReleasedOnce(p)'
<1>1. /\ p.id \in Packages /\ p.version \in 1..Len(packages[p.id])
      /\ packages[p.id][p.version].state # "DRAFT"
  BY Places DEF ReleasedOnce, InState, Stored, Version, PackageRef, Ref
<1>2. p.version \in 1..Len(packages'[p.id]) /\ packages'[p.id][p.version].state # "DRAFT"
  BY <1>1, PackageStable
<1>3. p.version \in DOMAIN packages'[p.id] /\ packages'[p.id][p.version] \in PackageRecord
  BY <1>1, <1>2, TypesKept, PlacesNext
<1> QED
  BY <1>2, <1>3 DEF ReleasedOnce, InState, Stored, Version, PackageRecord

\* A build that succeeded stays so.
LEMMA SucceededStable ==
    ASSUME DeliveryTypeOK, DeliveryMoves, NEW p \in PackageRef, NEW n, BuildSucceeded(p, n)
    PROVE  BuildSucceeded(p, n)'
<1>1. n \in 1..Len(builds[p]) /\ builds[p][n] = "SUCCEEDED" /\ Len(builds[p]) \in Nat
  BY ResultPlaces DEF BuildSucceeded
<1>2. Len(builds[p]) <= Len(builds'[p]) /\ builds'[p][n] = builds[p][n]
  BY <1>1 DEF DeliveryMoves, BuildsMove
<1>3. DOMAIN builds'[p] = 1..Len(builds'[p]) /\ Len(builds'[p]) \in Nat
  BY DeliveryTypesKept, ResultPlacesNext
<1> QED
  BY <1>1, <1>2, <1>3 DEF BuildSucceeded

\* A QA result that passed stays so.
LEMMA PassingStable ==
    ASSUME DeliveryTypeOK, DeliveryMoves, NEW p \in PackageRef, NEW m, Passing(p, m)
    PROVE  Passing(p, m)'
<1>1. m \in 1..Len(qa[p]) /\ qa[p][m].status = "PASSED" /\ Len(qa[p]) \in Nat
  BY ResultPlaces DEF Passing
<1>2. Len(qa[p]) <= Len(qa'[p]) /\ qa'[p][m] = qa[p][m]
  BY <1>1 DEF DeliveryMoves, QAMoves
<1>3. DOMAIN qa'[p] = 1..Len(qa'[p]) /\ Len(qa'[p]) \in Nat
  BY DeliveryTypesKept, ResultPlacesNext
<1> QED
  BY <1>1, <1>2, <1>3 DEF Passing

\* A decision to accept stays so.
LEMMA SupportingStable ==
    ASSUME DeliveryTypeOK, DeliveryMoves, NEW p \in PackageRef, NEW n, Supporting(p, n)
    PROVE  Supporting(p, n)'
<1>1. n \in 1..Len(acceptances[p]) /\ acceptances[p][n].decision = "ACCEPTED" /\ Len(acceptances[p]) \in Nat
  BY ResultPlaces DEF Supporting
<1>2. Len(acceptances[p]) <= Len(acceptances'[p]) /\ acceptances'[p][n] = acceptances[p][n]
  BY <1>1 DEF DeliveryMoves, AcceptancesMove
<1>3. DOMAIN acceptances'[p] = 1..Len(acceptances'[p]) /\ Len(acceptances'[p]) \in Nat
  BY DeliveryTypesKept, ResultPlacesNext
<1> QED
  BY <1>1, <1>2, <1>3 DEF Supporting

\* What a step never takes from a version of an authorization.
LEMMA DeploymentStable ==
    ASSUME DeliveryTypeOK, DeliveryMoves, NEW d \in Deployments, NEW v \in 1..Len(deployments[d])
    PROVE  LET old == deployments[d][v]
               new == deployments'[d][v]
           IN  /\ v \in 1..Len(deployments'[d])
               /\ new.package = old.package /\ new.acceptance = old.acceptance
               /\ old.state \in Activated => new.state \in Activated
               /\ old.state \in {"REVOKED", "SUPERSEDED"} => new.state = old.state
               /\ old.window # "early" => new.window # "early"
               /\ old.window = "over" => new.window = "over"
<1> DEFINE old == deployments[d][v]
           new == deployments'[d][v]
<1>1. Len(deployments[d]) \in Nat /\ Len(deployments'[d]) \in Nat /\ Len(deployments[d]) <= Len(deployments'[d])
  BY ResultPlaces, DeliveryTypesKept, ResultPlacesNext DEF DeliveryMoves, DeploymentsMove
<1>2. v \in 1..Len(deployments'[d]) /\ DeploymentAfter(d, v)
  BY <1>1 DEF DeliveryMoves, DeploymentsMove
<1>3. old \in DeploymentRecord /\ old.state \in {"PROPOSED", "ACTIVE", "REVOKED", "SUPERSEDED"}
  BY ResultPlaces DEF DeploymentRecord
<1>4. CASE new = old
  BY <1>2, <1>4
<1>5. CASE old.state = "PROPOSED" /\ new = [old EXCEPT !.state = "ACTIVE"]
  BY <1>2, <1>3, <1>5 DEF DeploymentRecord, Activated
<1>6. CASE old.state \in {"PROPOSED", "ACTIVE"} /\ new = [old EXCEPT !.state = "REVOKED"]
  BY <1>2, <1>3, <1>6 DEF DeploymentRecord, Activated
<1>7. CASE \/ old.window = "early" /\ new = [old EXCEPT !.window = "open"]
           \/ old.window = "open" /\ new = [old EXCEPT !.window = "over"]
  BY <1>2, <1>3, <1>7 DEF DeploymentRecord
<1>8. CASE old.state = "ACTIVE" /\ new = Superseded(old)
  BY <1>2, <1>3, <1>8 DEF DeploymentRecord, Superseded, Activated
<1> QED
  BY <1>1, <1>2, <1>4, <1>5, <1>6, <1>7, <1>8 DEF DeploymentAfter

\* A terminal attempt keeps its status.
LEMMA AttemptStable ==
    ASSUME DeliveryTypeOK, DeliveryMoves, NEW e \in ExecutionRef, Attempted(e)
    PROVE  /\ Attempted(e)'
           /\ StatusOf(e) # "IN_PROGRESS" => StatusOf(e)' = StatusOf(e)
<1> DEFINE ref == e.authority
           n == e.attempt
<1>1. ref \in DeploymentRef /\ n \in 1..Len(executions[ref]) /\ Len(executions[ref]) \in Nat
  BY ResultPlaces DEF Attempted, ExecutionRef
<1>2. /\ Len(executions'[ref]) \in {Len(executions[ref]), Len(executions[ref]) + 1}
      /\ \/ executions[ref][n].status = "IN_PROGRESS"
         \/ executions'[ref][n].status = executions[ref][n].status
  BY <1>1 DEF DeliveryMoves, ExecutionsMove
<1>3. DOMAIN executions'[ref] = 1..Len(executions'[ref])
  BY <1>1, DeliveryTypesKept, ResultPlacesNext
<1> QED
  BY <1>1, <1>2, <1>3 DEF Attempted, StatusOf

\* A step keeps what results rest on: old results by the lemmas above, a new one
\* because of what it had to be about.
LEMMA ResultsRestKept ==
    ASSUME ChainTypeOK, DeliveryTypeOK, ResultsRest, DeliveryMoves
    PROVE  ResultsRest'
<1>1. ASSUME NEW p \in PackageRef, builds'[p] # <<>>
      PROVE  ReleasedOnce(p)'
  <2>1. Len(builds'[p]) > 0 /\ Len(builds[p]) \in Nat
    BY <1>1, DeliveryTypesKept, ResultPlaces, ResultPlacesNext
  <2>2. ReleasedOnce(p)
    <3>1. CASE Len(builds[p]) = 0
      <4>1. Len(builds'[p]) \in {Len(builds[p]), Len(builds[p]) + 1}
        BY DEF DeliveryMoves, BuildsMove
      <4>2. Len(builds'[p]) = Len(builds[p]) + 1
        BY <2>1, <3>1, <4>1
      <4> QED
        BY <4>2 DEF DeliveryMoves, BuildsMove
    <3>2. CASE Len(builds[p]) > 0
      BY <3>2, ResultPlaces DEF ResultsRest
    <3> QED
      BY <2>1, <3>1, <3>2
  <2> QED
    BY <2>2, ReleasedStable DEF DeliveryMoves
<1>2. ASSUME NEW p \in PackageRef, NEW m \in DOMAIN qa'[p]
      PROVE  qa'[p][m].build \in DOMAIN builds'[p] /\ builds'[p][qa'[p][m].build] = "SUCCEEDED"
  <2>1. /\ m \in 1..Len(qa'[p]) /\ Len(qa[p]) \in Nat
        /\ Len(qa'[p]) \in {Len(qa[p]), Len(qa[p]) + 1}
    BY DeliveryTypesKept, ResultPlaces, ResultPlacesNext DEF DeliveryMoves, QAMoves
  <2>2. PICK n : n = qa'[p][m].build
    OBVIOUS
  <2>3. BuildSucceeded(p, n)
    <3>1. CASE m \in 1..Len(qa[p])
      <4>1. qa'[p][m] = qa[p][m] /\ m \in DOMAIN qa[p]
        BY <3>1, ResultPlaces DEF DeliveryMoves, QAMoves
      <4> QED
        BY <2>2, <4>1 DEF ResultsRest
    <3>2. CASE m \notin 1..Len(qa[p])
      <4>1. m = Len(qa'[p]) /\ Len(qa'[p]) = Len(qa[p]) + 1
        BY <2>1, <3>2
      <4> QED
        BY <2>2, <4>1 DEF DeliveryMoves, QAMoves
    <3> QED
      BY <3>1, <3>2
  <2>4. BuildSucceeded(p, n)'
    BY <2>3, SucceededStable
  <2> QED
    BY <2>2, <2>4 DEF BuildSucceeded
<1>3. ASSUME NEW p \in PackageRef, NEW n \in DOMAIN acceptances'[p]
      PROVE  LET m == acceptances'[p][n].qa IN m \in DOMAIN qa'[p] /\ qa'[p][m].status = "PASSED"
  <2>1. /\ n \in 1..Len(acceptances'[p]) /\ Len(acceptances[p]) \in Nat
        /\ Len(acceptances'[p]) \in {Len(acceptances[p]), Len(acceptances[p]) + 1}
    BY DeliveryTypesKept, ResultPlaces, ResultPlacesNext DEF DeliveryMoves, AcceptancesMove
  <2>2. PICK m : m = acceptances'[p][n].qa
    OBVIOUS
  <2>3. Passing(p, m)
    <3>1. CASE n \in 1..Len(acceptances[p])
      <4>1. acceptances'[p][n] = acceptances[p][n] /\ n \in DOMAIN acceptances[p]
        BY <3>1, ResultPlaces DEF DeliveryMoves, AcceptancesMove
      <4> QED
        BY <2>2, <4>1 DEF ResultsRest
    <3>2. CASE n \notin 1..Len(acceptances[p])
      <4>1. n = Len(acceptances'[p]) /\ Len(acceptances'[p]) = Len(acceptances[p]) + 1
        BY <2>1, <3>2
      <4> QED
        BY <2>2, <4>1 DEF DeliveryMoves, AcceptancesMove
    <3> QED
      BY <3>1, <3>2
  <2>4. Passing(p, m)'
    BY <2>3, PassingStable
  <2> QED
    BY <2>2, <2>4 DEF Passing
<1>4. ASSUME NEW p \in PackageRef, NEW n \in 1..Len(builds'[p]), builds'[p][n] = "IN_PROGRESS"
      PROVE  n = Len(builds'[p])
  <2>1. /\ Len(builds[p]) \in Nat /\ Len(builds'[p]) \in {Len(builds[p]), Len(builds[p]) + 1}
        /\ DOMAIN builds[p] = 1..Len(builds[p]) /\ (builds[p] # <<>> <=> Len(builds[p]) > 0)
    BY ResultPlaces DEF DeliveryMoves, BuildsMove
  <2>2. CASE n = Len(builds[p]) + 1
    BY <2>1, <2>2
  <2>3. CASE n # Len(builds[p]) + 1
    <3>1. n \in 1..Len(builds[p]) /\ builds[p][n] = "IN_PROGRESS"
      BY <1>4, <2>1, <2>3 DEF DeliveryMoves, BuildsMove
    <3>2. n = Len(builds[p])
      BY <3>1 DEF ResultsRest
    <3>3. ~NextAttempt(builds[p])
      BY <2>1, <3>1, <3>2 DEF NextAttempt, Last
    <3> QED
      BY <2>1, <3>2, <3>3 DEF DeliveryMoves, BuildsMove
  <2> QED
    BY <2>2, <2>3
<1> QED
  BY <1>1, <1>2, <1>3, <1>4 DEF ResultsRest, BuildSucceeded, Passing

\* A step keeps what authorizations and attempts rest on.
LEMMA DeploymentsRestKept ==
    ASSUME ChainTypeOK, DeliveryTypeOK, DeploymentsRest, DeliveryMoves
    PROVE  DeploymentsRest'
<1>0. ASSUME NEW ref \in DeploymentRef, SignedByAll("deployment", ref)
      PROVE  SignedByAll("deployment", ref)'
  BY <1>0, SignaturesStay DEF DeliveryMoves
<1>1. ASSUME NEW ref \in DeploymentRef, Stored(deployments', ref)
      PROVE  LET record == Version(deployments', ref)
             IN  /\ record.acceptance \in DOMAIN acceptances'[record.package]
                 /\ acceptances'[record.package][record.acceptance].decision = "ACCEPTED"
                 /\ record.state \in {"ACTIVE", "SUPERSEDED"} => SignedByAll("deployment", ref)'
                 /\ record.state = "ACTIVE" => record.window # "early"
  <2> DEFINE d == ref.id
             v == ref.version
             old == deployments[d][v]
             new == deployments'[d][v]
  <2>1. /\ d \in Deployments /\ v \in 1..Len(deployments'[d]) /\ ref = [id |-> d, version |-> v]
        /\ Len(deployments[d]) \in Nat /\ new \in DeploymentRecord
    BY <1>1, DeliveryTypesKept, ResultPlaces, ResultPlacesNext DEF Stored, DeploymentRef
  <2>2. DeploymentAfter(d, v)
    BY <2>1 DEF DeliveryMoves, DeploymentsMove
  <2>3. PICK p \in PackageRef, n \in Nat : p = new.package /\ n = new.acceptance
    BY <2>1 DEF DeploymentRecord
  <2>4. CASE v \in 1..Len(deployments[d])
    <3>1. /\ Stored(deployments, ref) /\ Version(deployments, ref) = old
          /\ new.package = old.package /\ new.acceptance = old.acceptance /\ old \in DeploymentRecord
      BY <2>1, <2>4, ResultPlaces, DeploymentStable DEF Stored, Version
    <3>2. /\ Supporting(p, n)
          /\ old.state \in {"ACTIVE", "SUPERSEDED"} => SignedByAll("deployment", ref)
          /\ old.state = "ACTIVE" => old.window # "early"
      BY <2>3, <3>1 DEF DeploymentsRest
    <3>3. /\ new.state \in {"ACTIVE", "SUPERSEDED"} => SignedByAll("deployment", ref)
          /\ new.state = "ACTIVE" => new.window # "early"
      BY <2>1, <2>2, <2>4, <3>1, <3>2 DEF DeploymentAfter, DeploymentRecord, Superseded
    <3>4. Supporting(p, n)'
      BY <3>2, SupportingStable
    <3> QED
      BY <1>0, <2>3, <3>3, <3>4 DEF Version, Supporting
  <2>5. CASE v \notin 1..Len(deployments[d])
    <3>1. new.state = "PROPOSED" /\ Supporting(p, n)
      BY <2>2, <2>3, <2>5 DEF DeploymentAfter
    <3>2. Supporting(p, n)'
      BY <3>1, SupportingStable
    <3> QED
      BY <2>3, <3>1, <3>2 DEF Version, Supporting
  <2> QED
    BY <2>4, <2>5
<1>2. ASSUME NEW ref \in DeploymentRef, executions'[ref] # <<>>
      PROVE  InState(deployments', ref, Activated) /\ SignedByAll("deployment", ref)'
  <2>1. InState(deployments, ref, Activated) /\ SignedByAll("deployment", ref)
    <3>1. /\ Len(executions'[ref]) > 0 /\ Len(executions[ref]) \in Nat
          /\ Len(executions'[ref]) \in {Len(executions[ref]), Len(executions[ref]) + 1}
      BY <1>2, DeliveryTypesKept, ResultPlaces, ResultPlacesNext DEF DeliveryMoves, ExecutionsMove
    <3>2. CASE Len(executions[ref]) > 0
      BY <3>2, ResultPlaces DEF DeploymentsRest
    <3>3. CASE Len(executions[ref]) = 0
      BY <3>1, <3>3 DEF DeliveryMoves, ExecutionsMove
    <3> QED
      BY <3>1, <3>2, <3>3
  <2>2. /\ ref.id \in Deployments /\ ref.version \in 1..Len(deployments[ref.id])
        /\ deployments[ref.id][ref.version].state \in Activated
    BY <2>1, ResultPlaces DEF InState, Stored, Version, DeploymentRef
  <2>3. /\ ref.version \in 1..Len(deployments'[ref.id])
        /\ deployments'[ref.id][ref.version].state \in Activated
    BY <2>2, DeploymentStable
  <2>4. ref.version \in DOMAIN deployments'[ref.id]
    BY <2>2, <2>3, DeliveryTypesKept, ResultPlacesNext
  <2> QED
    BY <1>0, <2>1, <2>3, <2>4 DEF InState, Stored, Version
<1> QED
  BY <1>1, <1>2 DEF DeploymentsRest, Supporting

\* A step keeps the order of results.
LEMMA OrderKept ==
    ASSUME ChainTypeOK, DeliveryTypeOK, ResultsInOrder, DeliveryMoves
    PROVE  ResultsInOrder'
<1>1. ASSUME NEW p \in PackageRef, NEW m \in DOMAIN qa'[p], NEW n \in DOMAIN qa'[p], m < n
      PROVE  qa'[p][m].build <= qa'[p][n].build
  <2>1. /\ m \in 1..Len(qa'[p]) /\ n \in 1..Len(qa'[p]) /\ Len(qa[p]) \in Nat
        /\ Len(qa'[p]) \in {Len(qa[p]), Len(qa[p]) + 1}
        /\ \A k \in 1..Len(qa[p]) : qa'[p][k] = qa[p][k]
    BY DeliveryTypesKept, ResultPlaces, ResultPlacesNext DEF DeliveryMoves, QAMoves
  <2>2. m \in 1..Len(qa[p])
    BY <1>1, <2>1
  <2>3. CASE n \in 1..Len(qa[p])
    BY <1>1, <2>1, <2>2, <2>3, ResultPlaces DEF ResultsInOrder
  <2>4. CASE n \notin 1..Len(qa[p])
    <3>1. n = Len(qa'[p]) /\ Len(qa'[p]) = Len(qa[p]) + 1
      BY <2>1, <2>4
    <3> QED
      BY <2>1, <2>2, <3>1 DEF DeliveryMoves, QAMoves
  <2> QED
    BY <2>3, <2>4
<1>2. ASSUME NEW p \in PackageRef, NEW m \in DOMAIN acceptances'[p], NEW n \in DOMAIN acceptances'[p], m < n
      PROVE  acceptances'[p][m].qa <= acceptances'[p][n].qa
  <2>1. /\ m \in 1..Len(acceptances'[p]) /\ n \in 1..Len(acceptances'[p]) /\ Len(acceptances[p]) \in Nat
        /\ Len(acceptances'[p]) \in {Len(acceptances[p]), Len(acceptances[p]) + 1}
        /\ \A k \in 1..Len(acceptances[p]) : acceptances'[p][k] = acceptances[p][k]
    BY DeliveryTypesKept, ResultPlaces, ResultPlacesNext DEF DeliveryMoves, AcceptancesMove
  <2>2. m \in 1..Len(acceptances[p])
    BY <1>2, <2>1
  <2>3. CASE n \in 1..Len(acceptances[p])
    BY <1>2, <2>1, <2>2, <2>3, ResultPlaces DEF ResultsInOrder
  <2>4. CASE n \notin 1..Len(acceptances[p])
    <3>1. n = Len(acceptances'[p]) /\ Len(acceptances'[p]) = Len(acceptances[p]) + 1
      BY <2>1, <2>4
    <3> QED
      BY <2>1, <2>2, <3>1 DEF DeliveryMoves, AcceptancesMove
  <2> QED
    BY <2>3, <2>4
<1> QED
  BY <1>1, <1>2 DEF ResultsInOrder

\* A step keeps the causes of corrections.
LEMMA CorrectionsKept ==
    ASSUME ChainTypeOK, DeliveryTypeOK, CorrectionsHaveCause, DeliveryMoves
    PROVE  CorrectionsHaveCause'
<1>0. ASSUME NEW e \in ExecutionRef, Attempted(e), StatusOf(e) # "IN_PROGRESS"
      PROVE  Attempted(e)' /\ StatusOf(e)' = StatusOf(e)
  BY <1>0, AttemptStable
<1>1. ASSUME NEW ref \in DeploymentRef, NEW n \in DOMAIN executions'[ref],
             executions'[ref][n].rollbackOf # NoExecution
      PROVE  LET cause == executions'[ref][n].rollbackOf
             IN  /\ cause.attempt \in DOMAIN executions'[cause.authority]
                 /\ executions'[cause.authority][cause.attempt].status \in {"SUCCEEDED", "PARTIAL"}
                 /\ cause # [authority |-> ref, attempt |-> n]
  <2>1. /\ n \in 1..Len(executions'[ref]) /\ Len(executions[ref]) \in Nat
        /\ Len(executions'[ref]) \in {Len(executions[ref]), Len(executions[ref]) + 1}
        /\ executions'[ref][n] \in ExecutionRecord
    BY DeliveryTypesKept, ResultPlaces, ResultPlacesNext DEF DeliveryMoves, ExecutionsMove
  <2>2. PICK cause \in ExecutionRef : cause = executions'[ref][n].rollbackOf
    BY <1>1, <2>1 DEF ExecutionRecord
  <2>3. cause # NoExecution
    BY <1>1, <2>2
  <2>4. /\ Attempted(cause) /\ StatusOf(cause) \in {"SUCCEEDED", "PARTIAL"}
        /\ cause # [authority |-> ref, attempt |-> n]
    <3>1. CASE n \in 1..Len(executions[ref])
      <4>1. cause = executions[ref][n].rollbackOf /\ n \in DOMAIN executions[ref]
        BY <2>2, <3>1, ResultPlaces DEF DeliveryMoves, ExecutionsMove
      <4> QED
        BY <2>3, <4>1 DEF CorrectionsHaveCause
    <3>2. CASE n \notin 1..Len(executions[ref])
      <4>1. n = Len(executions'[ref]) /\ Len(executions'[ref]) = Len(executions[ref]) + 1
        BY <2>1, <3>2
      <4>2. CanBeRolledBack(cause)
        BY <2>2, <2>3, <4>1 DEF DeliveryMoves, ExecutionsMove
      <4>3. ASSUME cause = [authority |-> ref, attempt |-> n] PROVE FALSE
        <5>1. n \in DOMAIN executions[ref]
          BY <4>2, <4>3 DEF CanBeRolledBack, Attempted
        <5> QED
          BY <3>2, <5>1, ResultPlaces
      <4> QED
        BY <4>2, <4>3 DEF CanBeRolledBack
    <3> QED
      BY <3>1, <3>2
  <2>5. Attempted(cause)' /\ StatusOf(cause)' = StatusOf(cause)
    BY <1>0, <2>4
  <2> QED
    BY <2>2, <2>4, <2>5 DEF Attempted, StatusOf
<1>2. ASSUME NEW e \in ExecutionRef, verifications'[e] # <<>>
      PROVE  Attempted(e)' /\ StatusOf(e)' \notin {"IN_PROGRESS", "BLOCKED"}
  <2>1. verifications'[e] = verifications[e] \/ Verifiable(e)
    BY DEF DeliveryMoves, VerificationsMove
  <2>2. Attempted(e) /\ StatusOf(e) \notin {"IN_PROGRESS", "BLOCKED"}
    BY <1>2, <2>1 DEF CorrectionsHaveCause, Verifiable
  <2> QED
    BY <1>0, <2>2
<1> QED
  BY <1>1, <1>2 DEF CorrectionsHaveCause, Attempted, StatusOf

\* Any step of the given form keeps the invariant.
LEMMA DeliverySafeKept ==
    ASSUME DeliverySafe, DeliveryMoves
    PROVE  DeliverySafe'
<1>0. ChainTypeOK /\ ChainSafe /\ ChainMoves
  BY DEF DeliverySafe, ChainSafe, DeliveryMoves
<1> QED
  BY <1>0, ChainSafeKept, DeliveryTypesKept, ResultsRestKept, DeploymentsRestKept, OrderKept, CorrectionsKept
     DEF DeliverySafe

\* The empty chain is safe.
LEMMA DeliveryInitSafe ==
    ASSUME DeliveryInit
    PROVE  DeliverySafe
<1>1. \A R, Ids : [x \in Ids |-> <<>>] \in [Ids -> Seq(R)]
  OBVIOUS
<1>2. DeliveryTypeOK
  BY <1>1 DEF DeliveryInit, DeliveryTypeOK
<1>3. /\ \A p \in PackageRef : builds[p] = <<>> /\ qa[p] = <<>> /\ acceptances[p] = <<>>
      /\ \A d \in Deployments : deployments[d] = <<>>
      /\ \A ref \in DeploymentRef : executions[ref] = <<>>
      /\ \A e \in ExecutionRef : verifications[e] = <<>>
  BY DEF DeliveryInit
<1>4. DOMAIN <<>> = {}
  OBVIOUS
<1>5. ResultsRest /\ ResultsInOrder /\ CorrectionsHaveCause
  BY <1>3, <1>4 DEF ResultsRest, ResultsInOrder, CorrectionsHaveCause
<1>6. DeploymentsRest
  BY <1>3, <1>4 DEF DeploymentsRest, Stored, DeploymentRef
<1> QED
  BY <1>2, <1>5, <1>6, ChainInitSafe DEF DeliveryInit, DeliverySafe

-----------------------------------------------------------------------------
(* Every step of DeliveryChain is such a move.                             *)

\* A result is about one that is already there.
LEMMA OldResults ==
    ASSUME DeliveryTypeOK, ResultsRest, NEW p \in PackageRef
    PROVE  /\ \A m \in DOMAIN qa[p] : qa[p][m].build \in 1..Len(builds[p])
           /\ \A n \in DOMAIN acceptances[p] : acceptances[p][n].qa \in 1..Len(qa[p])
  BY ResultPlaces DEF ResultsRest, BuildSucceeded, Passing

\* A package that is ready is released.
LEMMA ReadyReleased ==
    ASSUME NEW p, PackageReady(p)
    PROVE  ReleasedOnce(p)
  BY DEF PackageReady, ReleasedOnce, InState

\* Every command on results is such a step.
LEMMA ResultStep ==
    ASSUME DeliverySafe, ResultNext
    PROVE  DeliveryMoves
<1>0. ChainTypeOK /\ DeliveryTypeOK /\ ResultsRest
  BY DEF DeliverySafe, ChainSafe
<1>1. PICK p \in PackageRef :
        \/ StartBuild(p)
        \/ \E status \in {"SUCCEEDED", "FAILED"} : CompleteBuild(p, status)
        \/ \E n \in 1..MaxBuilds, status \in {"PASSED", "FAILED", "BLOCKED"} : RecordQA(p, n, status)
        \/ \E m \in 1..MaxQA, decision \in {"ACCEPTED", "REJECTED"} : RecordAcceptance(p, m, decision)
  BY DEF ResultNext
<1>2. UNCHANGED <<chainVars, deployments, deployedVars>>
  BY <1>1 DEF StartBuild, AddBuild, CompleteBuild, EndBuild, RecordQA, AddQA, RecordAcceptance, AddAcceptance
<1>3. ChainMoves /\ DeploymentsMove /\ ExecutionsMove /\ VerificationsMove
  BY <1>0, <1>2, RecordsStay, DeploymentsStay DEF chainVars, deployedVars
<1>4. CASE StartBuild(p)
  <2>1. BuildsMove
    BY <1>0, <1>4, BuildAdded, ReadyReleased DEF StartBuild, MayStartBuild
  <2> QED
    BY <1>0, <1>3, <1>4, <2>1, ResultsStay DEF StartBuild, AddBuild, DeliveryMoves
<1>5. ASSUME NEW status \in {"SUCCEEDED", "FAILED"}, CompleteBuild(p, status)
      PROVE  DeliveryMoves
  <2>1. BuildsMove
    BY <1>0, <1>5, BuildCompleted DEF CompleteBuild
  <2> QED
    BY <1>0, <1>3, <1>5, <2>1, ResultsStay DEF CompleteBuild, EndBuild, DeliveryMoves
<1>6. ASSUME NEW n \in 1..MaxBuilds, NEW status \in {"PASSED", "FAILED", "BLOCKED"}, RecordQA(p, n, status)
      PROVE  DeliveryMoves
  <2>1. /\ n \in Nat /\ AddQA(p, n, status) /\ BuildSucceeded(p, n) /\ n = Len(builds[p])
    BY <1>6, AttemptAssumption DEF RecordQA, QASourcesReady, BuildCurrent, BuildSucceeded
  <2>2. \A m \in DOMAIN qa[p] : qa[p][m].build <= n
    BY <1>0, <2>1, OldResults
  <2>3. QAMoves
    BY <1>0, <2>1, <2>2, QAAdded
  <2> QED
    BY <1>0, <1>3, <2>1, <2>3, ResultsStay DEF AddQA, DeliveryMoves
<1>7. ASSUME NEW m \in 1..MaxQA, NEW decision \in {"ACCEPTED", "REJECTED"}, RecordAcceptance(p, m, decision)
      PROVE  DeliveryMoves
  <2>1. /\ m \in Nat /\ AddAcceptance(p, m, decision) /\ Passing(p, m) /\ m = Len(qa[p])
    BY <1>7, AttemptAssumption DEF RecordAcceptance, QACurrent, Passing
  <2>2. \A n \in DOMAIN acceptances[p] : acceptances[p][n].qa <= m
    BY <1>0, <2>1, OldResults
  <2>3. AcceptancesMove
    BY <1>0, <2>1, <2>2, AcceptanceAdded
  <2> QED
    BY <1>0, <1>3, <2>1, <2>3, ResultsStay DEF AddAcceptance, DeliveryMoves
<1> QED
  BY <1>1, <1>4, <1>5, <1>6, <1>7

\* Every command on attempts and verifications is such a step.
LEMMA ExecutionStep ==
    ASSUME DeliverySafe, ExecutionNext
    PROVE  DeliveryMoves
<1>0. ChainTypeOK /\ DeliveryTypeOK
  BY DEF DeliverySafe, ChainSafe
<1>1. UNCHANGED <<chainVars, resultVars, deployments>>
  BY DEF ExecutionNext, StartExecution, AddExecution, CompleteExecution, RecordVerification
<1>2. ChainMoves /\ BuildsMove /\ QAMoves /\ AcceptancesMove /\ DeploymentsMove
  BY <1>0, <1>1, RecordsStay, ResultsStay, DeploymentsStay DEF chainVars, resultVars
<1>3. ASSUME NEW ref \in DeploymentRef, NEW cause \in ExecutionRef \cup {NoExecution},
             StartExecution(ref, cause)
      PROVE  DeliveryMoves
  <2>1. AddExecution(ref, cause) /\ (cause # NoExecution => CanBeRolledBack(cause))
    BY <1>3 DEF StartExecution
  <2>2. InState(deployments, ref, Activated) /\ SignedByAll("deployment", ref)
    BY <1>3, SignaturesMeet DEF StartExecution, MayStart, DeploymentAuthorized, InState, Activated
  <2>3. ExecutionsMove
    BY <1>0, <2>1, <2>2, ExecutionAdded
  <2> QED
    BY <1>0, <1>2, <2>1, <2>3, DeploymentsStay DEF AddExecution, DeliveryMoves
<1>4. ASSUME NEW ref \in DeploymentRef, NEW status \in Endings, CompleteExecution(ref, status)
      PROVE  DeliveryMoves
  <2>1. ExecutionsMove
    BY <1>0, <1>4, ExecutionCompleted
  <2> QED
    BY <1>0, <1>2, <1>4, <2>1, DeploymentsStay DEF CompleteExecution, DeliveryMoves
<1>5. ASSUME NEW e \in ExecutionRef, NEW status \in Findings, RecordVerification(e, status)
      PROVE  DeliveryMoves
  <2>1. VerificationsMove
    BY <1>0, <1>5, VerificationAdded
  <2> QED
    BY <1>0, <1>2, <1>5, <2>1, DeploymentsStay DEF RecordVerification, DeliveryMoves
<1> QED
  BY <1>3, <1>4, <1>5 DEF ExecutionNext

\* A step of something else is such a step.
LEMMA DeliveryStays ==
    ASSUME DeliverySafe, UNCHANGED deliveryVars
    PROVE  DeliveryMoves
<1>0. ChainTypeOK /\ DeliveryTypeOK
  BY DEF DeliverySafe, ChainSafe
<1>1. /\ UNCHANGED <<handoffs, briefs, authorizations, packages>> /\ approvals \subseteq approvals'
      /\ UNCHANGED <<builds, qa, acceptances, deployments, executions, verifications>>
  BY DEF deliveryVars, chainVars, resultVars, deployedVars
<1> QED
  BY <1>0, <1>1, RecordsStay, ResultsStay, DeploymentsStay DEF DeliveryMoves

\* Every step of DeliveryChain is of that form.
LEMMA DeliveryStep ==
    ASSUME DeliverySafe, [DeliveryNext]_deliveryVars
    PROVE  DeliveryMoves
<1>0. ChainTypeOK /\ DeliveryTypeOK
  BY DEF DeliverySafe, ChainSafe
<1>1. CASE UpstreamNext
  <2>1. UNCHANGED <<builds, qa, acceptances, deployments, executions, verifications>>
    BY <1>1 DEF UpstreamNext, resultVars, deployedVars
  <2>2. ChainMoves
    BY <1>0, <1>1, ChainStep DEF UpstreamNext
  <2> QED
    BY <1>0, <2>1, <2>2, ResultsStay, DeploymentsStay DEF DeliveryMoves
<1>2. CASE DeploymentNext
  <2>1. /\ UNCHANGED <<handoffs, briefs, authorizations, packages>> /\ approvals \subseteq approvals'
        /\ UNCHANGED <<builds, qa, acceptances, executions, verifications>>
    BY <1>2 DEF DeploymentNext, ProposeDeployment, AddInitial, ReviseDeployment, AddRevision,
                RecordDeploymentApproval, AddDeploymentApproval, Approve,
                ActivateDeployment, MakeActive, RevokeDeployment, DeploymentClock,
                chainVars, resultVars, deployedVars
  <2>2. ChainMoves
    BY <1>0, <2>1, RecordsStay
  <2> QED
    BY <1>0, <1>2, <2>1, <2>2, DeploymentMoves, ResultsStay, DeploymentsStay DEF DeliveryMoves
<1> QED
  BY <1>1, <1>2, ResultStep, ExecutionStep, DeliveryStays DEF DeliveryNext

-----------------------------------------------------------------------------
(* What is lost stays lost.                                                *)

\* The invariant gives the descent of every deployment.
LEMMA Descent ==
    ASSUME DeliverySafe
    PROVE  DeploymentDescends
<1>0. DeliveryTypeOK /\ ResultsRest /\ DeploymentsRest
  BY DEF DeliverySafe
<1>1. ASSUME NEW ref \in DeploymentRef, Stored(deployments, ref)
      PROVE  LET record == Version(deployments, ref)
                 p      == record.package
                 decided == acceptances[p][record.acceptance]
             IN  /\ InState(packages, p, {"RELEASED", "SUPERSEDED"})
                 /\ record.acceptance \in DOMAIN acceptances[p]
                 /\ decided.decision = "ACCEPTED"
                 /\ decided.qa \in DOMAIN qa[p]
                 /\ qa[p][decided.qa].status = "PASSED"
                 /\ qa[p][decided.qa].build \in DOMAIN builds[p]
                 /\ builds[p][qa[p][decided.qa].build] = "SUCCEEDED"
                 /\ executions[ref] # <<>> =>
                      record.state \in Activated /\ SignedByAll("deployment", ref)
  <2> DEFINE record == Version(deployments, ref)
             p == record.package
             decided == acceptances[p][record.acceptance]
  <2>1. p \in PackageRef
    BY <1>0, <1>1, ResultPlaces DEF Stored, Version, DeploymentRef, DeploymentRecord
  <2>2. record.acceptance \in DOMAIN acceptances[p] /\ decided.decision = "ACCEPTED"
    BY <1>0, <1>1 DEF DeploymentsRest, Supporting
  <2>3. decided.qa \in DOMAIN qa[p] /\ qa[p][decided.qa].status = "PASSED"
    BY <1>0, <2>1, <2>2 DEF ResultsRest, Passing
  <2>4. /\ qa[p][decided.qa].build \in DOMAIN builds[p]
        /\ builds[p][qa[p][decided.qa].build] = "SUCCEEDED"
    BY <1>0, <2>1, <2>3 DEF ResultsRest, BuildSucceeded
  <2>5. InState(packages, p, {"RELEASED", "SUPERSEDED"})
    <3>1. builds[p] # <<>>
      <4>1. DOMAIN builds[p] = 1..Len(builds[p]) /\ (builds[p] # <<>> <=> Len(builds[p]) > 0)
        BY <1>0, <2>1, ResultPlaces
      <4>2. PICK k : k \in DOMAIN builds[p]
        BY <2>4
      <4>3. Len(builds[p]) \in Nat /\ k \in 1..Len(builds[p])
        BY <1>0, <2>1, <4>1, <4>2, ResultPlaces
      <4> QED
        BY <4>1, <4>3
    <3> QED
      BY <1>0, <2>1, <3>1 DEF ResultsRest, ReleasedOnce
  <2>6. executions[ref] # <<>> => record.state \in Activated /\ SignedByAll("deployment", ref)
    BY <1>0 DEF DeploymentsRest, InState
  <2> QED
    BY <2>2, <2>3, <2>4, <2>5, <2>6
<1> QED
  BY <1>1 DEF DeploymentDescends

\* A package that was released and is still in force was in force before.
LEMMA ReleasedBefore ==
    ASSUME ChainTypeOK, ChainMoves, NEW p \in PackageRef, ReleasedOnce(p), InState(packages', p, {"RELEASED"})
    PROVE  InState(packages, p, {"RELEASED"})
<1>1. /\ p.id \in Packages /\ p.version \in DOMAIN packages[p.id] /\ p.version \in 1..Len(packages[p.id])
      /\ packages[p.id][p.version].state \in {"RELEASED", "SUPERSEDED"}
  BY Places DEF ReleasedOnce, InState, Stored, Version, PackageRef, Ref
<1>2. packages[p.id][p.version].state # "SUPERSEDED"
  BY <1>1, PackageStable DEF InState, Version
<1> QED
  BY <1>1, <1>2 DEF InState, Stored, Version

\* A package that was released and is ready was ready before.
LEMMA ReadyBefore ==
    ASSUME ChainSafe, ChainMoves, NEW p \in PackageRef, ReleasedOnce(p), PackageReady(p)'
    PROVE  PackageReady(p)
  BY PackageLost DEF ReleasedOnce

\* A result that a step did not write, and that is the newest after it, was
\* the newest before it.
LEMMA NewestBefore ==
    ASSUME DeliverySafe, DeliveryMoves, NEW p \in PackageRef
    PROVE  /\ \A k \in 1..Len(builds[p]) : k = Len(builds'[p]) => k = Len(builds[p])
           /\ \A m \in 1..Len(qa[p]) : /\ m = Len(qa'[p]) => m = Len(qa[p])
                                       /\ qa'[p][m] = qa[p][m]
                                       /\ BuildSucceeded(p, qa[p][m].build)
                                       /\ qa[p][m].build \in 1..Len(builds[p])
                                       /\ ReleasedOnce(p)
           /\ \A n \in 1..Len(acceptances[p]) : /\ n = Len(acceptances'[p]) => n = Len(acceptances[p])
                                                /\ acceptances'[p][n] = acceptances[p][n]
                                                /\ Passing(p, acceptances[p][n].qa)
                                                /\ acceptances[p][n].qa \in 1..Len(qa[p])
<1>0. DeliveryTypeOK /\ ResultsRest
  BY DEF DeliverySafe
<1>1. /\ Len(builds[p]) \in Nat /\ Len(builds'[p]) \in Nat
      /\ Len(qa[p]) \in Nat /\ Len(qa'[p]) \in Nat
      /\ Len(acceptances[p]) \in Nat /\ Len(acceptances'[p]) \in Nat
  BY <1>0, ResultPlaces, DeliveryTypesKept, ResultPlacesNext
<1>2. /\ Len(builds[p]) <= Len(builds'[p])
      /\ Len(qa[p]) <= Len(qa'[p]) /\ \A m \in 1..Len(qa[p]) : qa'[p][m] = qa[p][m]
      /\ Len(acceptances[p]) <= Len(acceptances'[p])
      /\ \A n \in 1..Len(acceptances[p]) : acceptances'[p][n] = acceptances[p][n]
  <2>1. Len(builds'[p]) \in {Len(builds[p]), Len(builds[p]) + 1}
    BY DEF DeliveryMoves, BuildsMove
  <2>2. /\ Len(qa'[p]) \in {Len(qa[p]), Len(qa[p]) + 1}
        /\ \A m \in 1..Len(qa[p]) : qa'[p][m] = qa[p][m]
    BY DEF DeliveryMoves, QAMoves
  <2>3. /\ Len(acceptances'[p]) \in {Len(acceptances[p]), Len(acceptances[p]) + 1}
        /\ \A n \in 1..Len(acceptances[p]) : acceptances'[p][n] = acceptances[p][n]
    BY DEF DeliveryMoves, AcceptancesMove
  <2> QED
    BY <1>1, <2>1, <2>2, <2>3
<1>3. ASSUME NEW m \in 1..Len(qa[p])
      PROVE  /\ BuildSucceeded(p, qa[p][m].build) /\ qa[p][m].build \in 1..Len(builds[p])
             /\ ReleasedOnce(p)
  <2>1. BuildSucceeded(p, qa[p][m].build) /\ qa[p][m].build \in 1..Len(builds[p])
    BY <1>0, ResultPlaces, OldResults DEF ResultsRest
  <2>2. builds[p] # <<>>
    BY <1>0, <1>1, <2>1, ResultPlaces
  <2> QED
    BY <1>0, <2>1, <2>2 DEF ResultsRest
<1>4. ASSUME NEW n \in 1..Len(acceptances[p])
      PROVE  Passing(p, acceptances[p][n].qa) /\ acceptances[p][n].qa \in 1..Len(qa[p])
  BY <1>0, ResultPlaces, OldResults DEF ResultsRest
<1> QED
  BY <1>1, <1>2, <1>3, <1>4

\* A QA result that is reported to count was reported to count before.
LEMMA QALost ==
    ASSUME DeliverySafe, DeliveryMoves, NEW p \in PackageRef, NEW m \in DOMAIN qa[p], QAPassed(p, m)'
    PROVE  QAPassed(p, m)
<1>0. ChainTypeOK /\ ChainMoves /\ DeliveryTypeOK
  BY DEF DeliverySafe, ChainSafe, DeliveryMoves
<1>1. m \in 1..Len(qa[p])
  BY <1>0, ResultPlaces
<1>2. /\ qa'[p][m] = qa[p][m] /\ BuildSucceeded(p, qa[p][m].build)
      /\ qa[p][m].build \in 1..Len(builds[p]) /\ ReleasedOnce(p)
  BY <1>1, NewestBefore
<1>3. /\ qa[p][m].status = "PASSED" /\ InState(packages', p, {"RELEASED"})
      /\ qa[p][m].build = Len(builds'[p]) /\ m = Len(qa'[p])
  BY <1>2 DEF QAPassed
<1>4. qa[p][m].build = Len(builds[p]) /\ m = Len(qa[p])
  BY <1>1, <1>2, <1>3, NewestBefore
<1>5. InState(packages, p, {"RELEASED"})
  BY <1>0, <1>2, <1>3, ReleasedBefore
<1> QED
  BY <1>2, <1>3, <1>4, <1>5 DEF QAPassed

\* A decision that is reported to count was reported to count before.
LEMMA DecisionLost ==
    ASSUME DeliverySafe, DeliveryMoves, NEW p \in PackageRef, NEW n \in DOMAIN acceptances[p],
           ClientAccepted(p, n)'
    PROVE  ClientAccepted(p, n)
<1> DEFINE m == acceptances[p][n].qa
<1>0. ChainTypeOK /\ ChainMoves /\ DeliveryTypeOK
  BY DEF DeliverySafe, ChainSafe, DeliveryMoves
<1>1. n \in 1..Len(acceptances[p])
  BY <1>0, ResultPlaces
<1>2. acceptances'[p][n] = acceptances[p][n] /\ Passing(p, m) /\ m \in 1..Len(qa[p])
  BY <1>1, NewestBefore
<1>3. /\ qa'[p][m] = qa[p][m] /\ BuildSucceeded(p, qa[p][m].build)
      /\ qa[p][m].build \in 1..Len(builds[p]) /\ ReleasedOnce(p)
  BY <1>2, NewestBefore
<1>4. /\ acceptances[p][n].decision = "ACCEPTED" /\ InState(packages', p, {"RELEASED"})
      /\ qa[p][m].build = Len(builds'[p]) /\ m = Len(qa'[p]) /\ n = Len(acceptances'[p])
  BY <1>2, <1>3 DEF ClientAccepted
<1>5. qa[p][m].build = Len(builds[p]) /\ m = Len(qa[p]) /\ n = Len(acceptances[p])
  BY <1>1, <1>2, <1>3, <1>4, NewestBefore
<1>6. InState(packages, p, {"RELEASED"})
  BY <1>0, <1>3, <1>4, ReleasedBefore
<1> QED
  BY <1>2, <1>3, <1>4, <1>5, <1>6 DEF ClientAccepted, Passing

\* The prerequisites of a deployment that hold held before, if the decision was
\* there.
LEMMA PrerequisitesLost ==
    ASSUME DeliverySafe, DeliveryMoves, NEW p \in PackageRef, NEW n, Supporting(p, n),
           Prerequisites(p, n)'
    PROVE  Prerequisites(p, n)
<1> DEFINE m == acceptances[p][n].qa
           k == qa[p][m].build
<1>0. ChainSafe /\ ChainMoves /\ DeliveryTypeOK
  BY DEF DeliverySafe, DeliveryMoves
<1>1. n \in 1..Len(acceptances[p]) /\ n \in DOMAIN acceptances[p]
  BY <1>0, ResultPlaces DEF Supporting
<1>2. acceptances'[p][n] = acceptances[p][n] /\ Passing(p, m) /\ m \in 1..Len(qa[p])
  BY <1>1, NewestBefore
<1>3. qa'[p][m] = qa[p][m] /\ BuildSucceeded(p, k) /\ k \in 1..Len(builds[p]) /\ ReleasedOnce(p)
  BY <1>2, NewestBefore
<1>4. n = Len(acceptances'[p]) /\ m = Len(qa'[p]) /\ k = Len(builds'[p]) /\ PackageReady(p)'
  BY <1>2, <1>3 DEF Prerequisites, QACurrent, QASourcesReady, BuildCurrent
<1>5. n = Len(acceptances[p]) /\ m = Len(qa[p]) /\ k = Len(builds[p])
  BY <1>1, <1>2, <1>3, <1>4, NewestBefore
<1>6. PackageReady(p)
  BY <1>0, <1>3, <1>4, ReadyBefore
<1> QED
  BY <1>1, <1>2, <1>3, <1>5, <1>6
     DEF Prerequisites, Supporting, QACurrent, Passing, QASourcesReady, BuildCurrent, BuildSucceeded

\* An authorization that was activated and is usable was usable before: a newer
\* build, QA result, decision or version, a revocation or the clock is not undone.
LEMMA DeploymentLost ==
    ASSUME DeliverySafe, DeliveryMoves, NEW ref \in DeploymentRef, InState(deployments, ref, Activated),
           DeploymentAuthorized(ref)'
    PROVE  DeploymentAuthorized(ref)
<1> DEFINE d == ref.id
           v == ref.version
           old == deployments[d][v]
           new == deployments'[d][v]
<1>0. DeliveryTypeOK /\ DeploymentsRest
  BY DEF DeliverySafe
<1>1. /\ d \in Deployments /\ v \in 1..Len(deployments[d]) /\ Stored(deployments, ref)
      /\ old \in DeploymentRecord /\ old.state \in Activated /\ Version(deployments, ref) = old
  BY <1>0, ResultPlaces DEF InState, Stored, Version, DeploymentRef
<1>2. /\ new.package = old.package /\ new.acceptance = old.acceptance
      /\ old.state \in {"REVOKED", "SUPERSEDED"} => new.state = old.state
      /\ old.window = "over" => new.window = "over"
  BY <1>0, <1>1, DeploymentStable
<1>3. new.state = "ACTIVE" /\ new.window = "open"
  BY DEF DeploymentAuthorized, InState, Version
<1>4. old.state = "ACTIVE"
  BY <1>1, <1>2, <1>3 DEF Activated
<1>5. /\ Supporting(old.package, old.acceptance) /\ SignedByAll("deployment", ref)
      /\ old.window # "early"
  BY <1>0, <1>1, <1>4 DEF DeploymentsRest
<1>6. old.window = "open"
  BY <1>1, <1>2, <1>3, <1>5 DEF DeploymentRecord, Windows
<1>7. PICK p \in PackageRef, n \in Nat : p = old.package /\ n = old.acceptance
  BY <1>1 DEF DeploymentRecord
<1>8. Prerequisites(p, n)'
  BY <1>2, <1>7 DEF DeploymentAuthorized, Version
<1>9. Prerequisites(p, n)
  BY <1>5, <1>7, <1>8, PrerequisitesLost
<1> QED
  BY <1>1, <1>4, <1>5, <1>6, <1>7, <1>9, SignaturesMeet DEF DeploymentAuthorized, InState

-----------------------------------------------------------------------------
(* Slow transactions: what still holds of a command that was judged.       *)

\* Of a start of a deployment attempt: not that its authority is still usable, only
\* that it was activated with both signatures, and that what it corrects ended
\* with a change.
StartHolds(c) ==
    /\ c.ref \in DeploymentRef /\ c.rollbackOf \in ExecutionRef \cup {NoExecution}
    /\ InState(deployments, c.ref, Activated) /\ SignedByAll("deployment", c.ref)
    /\ c.rollbackOf # NoExecution => CanBeRolledBack(c.rollbackOf)

\* Of an activation: the window has opened and both sides have signed.
ActivationHolds(c) ==
    /\ c.ref \in DeploymentRef
    /\ Stored(deployments, c.ref) /\ Version(deployments, c.ref).window # "early"
    /\ SignedByAll("deployment", c.ref)

\* Of a proposal: the decision it is made from was to accept.
ProposalHolds(c) ==
    /\ c.ref \in Deployments /\ c.package \in PackageRef /\ c.about \in Nat
    /\ Supporting(c.package, c.about)

\* Of a command on the builds of a package: the package was released.
BuildHolds(c) == c.ref \in PackageRef /\ ReleasedOnce(c.ref)

\* Of a QA result: its build succeeded and, while its number is free, no result is
\* about a newer one.
QAHolds(c) ==
    /\ c.ref \in PackageRef /\ c.number \in Nat /\ c.about \in Nat
    /\ c.result \in {"PASSED", "FAILED", "BLOCKED"}
    /\ BuildSucceeded(c.ref, c.about)
    /\ c.number <= Len(qa[c.ref]) + 1
    /\ c.number = Len(qa[c.ref]) + 1 => \A m \in DOMAIN qa[c.ref] : qa[c.ref][m].build <= c.about

\* Of a decision: its QA result passed and, while its number is free, no decision is
\* about a newer one.
DecisionHolds(c) ==
    /\ c.ref \in PackageRef /\ c.number \in Nat /\ c.about \in Nat
    /\ c.result \in {"ACCEPTED", "REJECTED"}
    /\ Passing(c.ref, c.about)
    /\ c.number <= Len(acceptances[c.ref]) + 1
    /\ c.number = Len(acceptances[c.ref]) + 1 =>
         \A n \in DOMAIN acceptances[c.ref] : acceptances[c.ref][n].qa <= c.about

\* What is left, at the commit, of what the handler checked when it read.
StillHolds(c) ==
    \/ c.type = "StartExecution" /\ StartHolds(c)
    \/ c.type = "Activate" /\ ActivationHolds(c)
    \/ c.type \in {"Propose", "Revise"} /\ ProposalHolds(c)
    \/ c.type = "Approve"
    \/ c.type = "StartBuild" /\ BuildHolds(c)
    \/ c.type = "CompleteBuild" /\ BuildHolds(c) /\ c.result \in {"SUCCEEDED", "FAILED"}
    \/ c.type = "RecordQA" /\ QAHolds(c)
    \/ c.type = "RecordAcceptance" /\ DecisionHolds(c)

\* The inductive invariant with open transactions.
RaceSafe == DeliverySafe /\ \A c \in judged : StillHolds(c)

\* No step takes that from an open start or activation.
LEMMA StartKept ==
    ASSUME DeliverySafe, DeliveryMoves, NEW c
    PROVE  /\ StartHolds(c) => StartHolds(c)'
           /\ ActivationHolds(c) => ActivationHolds(c)'
<1> DEFINE ref == c.ref
           d == ref.id
           v == ref.version
           old == deployments[d][v]
           new == deployments'[d][v]
<1>0. DeliveryTypeOK
  BY DEF DeliverySafe
<1>1. ASSUME ref \in DeploymentRef, SignedByAll("deployment", ref), Stored(deployments, ref)
      PROVE  /\ SignedByAll("deployment", ref)' /\ Stored(deployments, ref)'
             /\ old.state \in Activated => new.state \in Activated
             /\ old.window # "early" => new.window # "early"
  <2>1. d \in Deployments /\ v \in 1..Len(deployments[d])
    BY <1>0, <1>1, ResultPlaces DEF Stored, DeploymentRef
  <2>2. /\ v \in 1..Len(deployments'[d])
        /\ old.state \in Activated => new.state \in Activated
        /\ old.window # "early" => new.window # "early"
    BY <1>0, <2>1, DeploymentStable
  <2>3. v \in DOMAIN deployments'[d]
    BY <1>0, <2>1, <2>2, DeliveryTypesKept, ResultPlacesNext
  <2>4. SignedByAll("deployment", ref)'
    BY <1>1, SignaturesStay DEF DeliveryMoves
  <2> QED
    BY <2>2, <2>3, <2>4 DEF Stored
<1>2. ASSUME NEW cause \in ExecutionRef, CanBeRolledBack(cause)
      PROVE  CanBeRolledBack(cause)'
  BY <1>0, <1>2, AttemptStable DEF CanBeRolledBack
<1>3. ASSUME StartHolds(c) PROVE StartHolds(c)'
  <2>1. InState(deployments, ref, Activated)' /\ SignedByAll("deployment", ref)'
    BY <1>1, <1>3 DEF StartHolds, InState, Version
  <2>2. c.rollbackOf # NoExecution => CanBeRolledBack(c.rollbackOf)'
    BY <1>2, <1>3 DEF StartHolds
  <2> QED
    BY <1>3, <2>1, <2>2 DEF StartHolds, CanBeRolledBack, Attempted, StatusOf
<1>4. ASSUME ActivationHolds(c) PROVE ActivationHolds(c)'
  BY <1>1, <1>4 DEF ActivationHolds, Version
<1> QED
  BY <1>3, <1>4

\* No step takes that from an open QA result: a newer result takes its number.
LEMMA QAKept ==
    ASSUME DeliverySafe, DeliveryMoves, NEW c, QAHolds(c)
    PROVE  QAHolds(c)'
<1> DEFINE p == c.ref
<1>0. DeliveryTypeOK /\ p \in PackageRef /\ c.number \in Nat /\ c.about \in Nat
  BY DEF DeliverySafe, QAHolds
<1>1. BuildSucceeded(p, c.about)'
  BY <1>0, SucceededStable DEF QAHolds
<1>2. /\ Len(qa[p]) \in Nat /\ Len(qa'[p]) \in {Len(qa[p]), Len(qa[p]) + 1}
      /\ DOMAIN qa'[p] = 1..Len(qa'[p]) /\ DOMAIN qa[p] = 1..Len(qa[p])
      /\ \A m \in 1..Len(qa[p]) : qa'[p][m] = qa[p][m]
  BY <1>0, DeliveryTypesKept, ResultPlaces, ResultPlacesNext DEF DeliveryMoves, QAMoves
<1>3. /\ c.number <= Len(qa'[p]) + 1
      /\ c.number = Len(qa'[p]) + 1 => \A m \in DOMAIN qa'[p] : qa'[p][m].build <= c.about
  BY <1>0, <1>2 DEF QAHolds
<1> QED
  BY <1>0, <1>1, <1>3 DEF QAHolds

\* No step takes that from an open decision: a newer decision takes its number.
LEMMA DecisionKept ==
    ASSUME DeliverySafe, DeliveryMoves, NEW c, DecisionHolds(c)
    PROVE  DecisionHolds(c)'
<1> DEFINE p == c.ref
<1>0. DeliveryTypeOK /\ p \in PackageRef /\ c.number \in Nat /\ c.about \in Nat
  BY DEF DeliverySafe, DecisionHolds
<1>1. Passing(p, c.about)'
  BY <1>0, PassingStable DEF DecisionHolds
<1>2. /\ Len(acceptances[p]) \in Nat
      /\ Len(acceptances'[p]) \in {Len(acceptances[p]), Len(acceptances[p]) + 1}
      /\ DOMAIN acceptances'[p] = 1..Len(acceptances'[p]) /\ DOMAIN acceptances[p] = 1..Len(acceptances[p])
      /\ \A n \in 1..Len(acceptances[p]) : acceptances'[p][n] = acceptances[p][n]
  BY <1>0, DeliveryTypesKept, ResultPlaces, ResultPlacesNext DEF DeliveryMoves, AcceptancesMove
<1>3. /\ c.number <= Len(acceptances'[p]) + 1
      /\ c.number = Len(acceptances'[p]) + 1 =>
           \A n \in DOMAIN acceptances'[p] : acceptances'[p][n].qa <= c.about
  BY <1>0, <1>2 DEF DecisionHolds
<1> QED
  BY <1>0, <1>1, <1>3 DEF DecisionHolds

\* No step takes that from any open command.
LEMMA CommandKept ==
    ASSUME DeliverySafe, DeliveryMoves, NEW c, StillHolds(c)
    PROVE  StillHolds(c)'
<1>0. DeliveryTypeOK
  BY DEF DeliverySafe
<1>1. BuildHolds(c) => BuildHolds(c)'
  BY ReleasedStable DEF BuildHolds, DeliverySafe, ChainSafe, DeliveryMoves
<1>2. ASSUME ProposalHolds(c) PROVE ProposalHolds(c)'
  BY <1>0, <1>2, SupportingStable DEF ProposalHolds
<1> QED
  BY <1>1, <1>2, StartKept, QAKept, DecisionKept DEF StillHolds

\* The handler judged it on what holds when it reads: a QA result or a decision.
LEMMA AcceptedResultHolds ==
    ASSUME DeliverySafe, NEW p \in PackageRef, NEW c \in AcceptableTests(p) \cup AcceptableDecisions(p)
    PROVE  StillHolds(c)
<1>0. DeliveryTypeOK /\ ResultsRest
  BY DEF DeliverySafe
<1>1. ASSUME NEW n \in 1..MaxBuilds, QASourcesReady(p, n),
             NEW status \in {"PASSED", "FAILED", "BLOCKED"}, c = Tests(p, n, status)
      PROVE  c.type = "RecordQA" /\ QAHolds(c)
  <2>1. /\ c.type = "RecordQA" /\ c.ref = p /\ c.about = n /\ c.result = status
        /\ c.number = Len(qa[p]) + 1
    BY <1>1 DEF Tests
  <2>2. BuildSucceeded(p, n) /\ n = Len(builds[p]) /\ n \in Nat /\ Len(qa[p]) \in Nat
    BY <1>0, <1>1, AttemptAssumption, ResultPlaces DEF QASourcesReady, BuildCurrent, BuildSucceeded
  <2>3. \A m \in DOMAIN qa[p] : qa[p][m].build <= n
    BY <1>0, <2>2, OldResults
  <2> QED
    BY <2>1, <2>2, <2>3 DEF QAHolds
<1>2. ASSUME NEW m \in 1..MaxQA, QACurrent(p, m),
             NEW decision \in {"ACCEPTED", "REJECTED"}, c = Decides(p, m, decision)
      PROVE  c.type = "RecordAcceptance" /\ DecisionHolds(c)
  <2>1. /\ c.type = "RecordAcceptance" /\ c.ref = p /\ c.about = m /\ c.result = decision
        /\ c.number = Len(acceptances[p]) + 1
    BY <1>2 DEF Decides
  <2>2. Passing(p, m) /\ m = Len(qa[p]) /\ m \in Nat /\ Len(acceptances[p]) \in Nat
    BY <1>0, <1>2, AttemptAssumption, ResultPlaces DEF QACurrent, Passing
  <2>3. \A n \in DOMAIN acceptances[p] : acceptances[p][n].qa <= m
    BY <1>0, <2>2, OldResults
  <2> QED
    BY <2>1, <2>2, <2>3 DEF DecisionHolds
<1>3. CASE c \in AcceptableTests(p)
  BY <1>1, <1>3 DEF AcceptableTests, StillHolds
<1>4. CASE c \in AcceptableDecisions(p)
  BY <1>2, <1>4 DEF AcceptableDecisions, StillHolds
<1> QED
  BY <1>3, <1>4

\* The same of a proposal.
LEMMA AcceptedProposalHolds ==
    ASSUME NEW p \in PackageRef, NEW c \in AcceptableProposals(p)
    PROVE  StillHolds(c)
<1>1. PICK decision \in 1..MaxDecisions :
        /\ Prerequisites(p, decision)
        /\ \/ \E d \in Deployments : c = Proposes(d, p, decision)
           \/ \E d \in Deployments : c = Revises(d, p, decision)
  BY DEF AcceptableProposals
<1>2. Supporting(p, decision) /\ decision \in Nat
  BY <1>1, AttemptAssumption DEF Prerequisites, Supporting
<1>3. /\ c.type \in {"Propose", "Revise"} /\ c.ref \in Deployments
      /\ c.package = p /\ c.about = decision
  BY <1>1 DEF Proposes, Revises
<1> QED
  BY <1>2, <1>3 DEF StillHolds, ProposalHolds

\* The same of a command on an attempt.
LEMMA AcceptedAttemptHolds ==
    ASSUME NEW c \in AcceptableBuilds \cup AcceptableCompletions \cup AcceptableStarts
    PROVE  StillHolds(c)
<1>1. ASSUME NEW p \in PackageRef, MayStartBuild(p), c = Builds(p)
      PROVE  StillHolds(c)
  <2>1. c.type = "StartBuild" /\ c.ref = p
    BY <1>1 DEF Builds
  <2> QED
    BY <1>1, <2>1, ReadyReleased DEF StillHolds, BuildHolds, MayStartBuild
<1>2. ASSUME NEW p \in PackageRef, MayCompleteBuild(p), NEW status \in {"SUCCEEDED", "FAILED"},
             c = Completes(p, status)
      PROVE  StillHolds(c)
  <2>1. c.type = "CompleteBuild" /\ c.ref = p /\ c.result = status
    BY <1>2 DEF Completes
  <2> QED
    BY <1>2, <2>1, ReadyReleased DEF StillHolds, BuildHolds, MayCompleteBuild
<1>3. ASSUME NEW ref \in DeploymentRef, MayStart(ref), NEW cause \in ExecutionRef \cup {NoExecution},
             cause # NoExecution => CanBeRolledBack(cause), c = Starts(ref, cause)
      PROVE  StillHolds(c)
  <2>1. c.type = "StartExecution" /\ c.ref = ref /\ c.rollbackOf = cause
    BY <1>3 DEF Starts
  <2>2. InState(deployments, ref, Activated) /\ SignedByAll("deployment", ref)
    BY <1>3, SignaturesMeet DEF MayStart, DeploymentAuthorized, InState, Activated
  <2> QED
    BY <1>3, <2>1, <2>2 DEF StillHolds, StartHolds
<1>4. CASE c \in AcceptableBuilds
  BY <1>1, <1>4 DEF AcceptableBuilds
<1>5. CASE c \in AcceptableCompletions
  BY <1>2, <1>5 DEF AcceptableCompletions
<1>6. CASE c \in AcceptableStarts
  BY <1>3, <1>6 DEF AcceptableStarts
<1> QED
  BY <1>4, <1>5, <1>6

\* The same of a command that activates or is on the way to it.
LEMMA AcceptedActivationHolds ==
    ASSUME NEW c \in AcceptableActivations
    PROVE  StillHolds(c)
<1>1. ASSUME NEW ref \in DeploymentRef, MayActivateDeployment(ref), c = Activates(ref)
      PROVE  StillHolds(c)
  <2>1. c.type = "Activate" /\ c.ref = ref
    BY <1>1 DEF Activates
  <2>2. /\ Stored(deployments, ref) /\ Version(deployments, ref).window # "early"
        /\ SignedByAll("deployment", ref)
    BY <1>1, SignaturesMeet DEF MayActivateDeployment, InState
  <2> QED
    BY <2>1, <2>2 DEF StillHolds, ActivationHolds
<1>2. ASSUME NEW ref, NEW role, c = Approves(ref, role)
      PROVE  StillHolds(c)
  BY <1>2 DEF Approves, StillHolds
<1> QED
  BY <1>1, <1>2 DEF AcceptableActivations

\* The same of every command.
LEMMA AcceptedHolds ==
    ASSUME DeliverySafe, NEW c \in Acceptable
    PROVE  StillHolds(c)
<1>1. \/ c \in AcceptableBuilds \cup AcceptableCompletions \cup AcceptableStarts
      \/ c \in AcceptableActivations
      \/ \E p \in PackageRef : \/ c \in AcceptableTests(p) \cup AcceptableDecisions(p)
                               \/ c \in AcceptableProposals(p)
  BY DEF Acceptable
<1> QED
  BY <1>1, AcceptedResultHolds, AcceptedProposalHolds, AcceptedAttemptHolds, AcceptedActivationHolds

\* What is committed then, in spite of all that happened since, is one of the
\* moves the records make.
LEMMA CommitMoves ==
    ASSUME DeliverySafe, NEW c, StillHolds(c), Writes(c)
    PROVE  DeliveryMoves
<1>0. ChainTypeOK /\ DeliveryTypeOK
  BY DEF DeliverySafe, ChainSafe
<1>1. CASE c.type = "StartExecution"
  <2>1. AddExecution(c.ref, c.rollbackOf)
    BY <1>1 DEF Writes, WritesDeployment
  <2>2. StartHolds(c)
    BY <1>1 DEF StillHolds
  <2>3. ExecutionsMove
    BY <1>0, <2>1, <2>2, ExecutionAdded DEF StartHolds
  <2>4. /\ UNCHANGED <<handoffs, briefs, authorizations, packages>> /\ approvals \subseteq approvals'
        /\ UNCHANGED <<builds, qa, acceptances, deployments, verifications>>
    BY <2>1 DEF AddExecution, chainVars, resultVars
  <2> QED
    BY <1>0, <2>3, <2>4, RecordsStay, ResultsStay, DeploymentsStay DEF DeliveryMoves
<1>2. CASE c.type = "Activate"
  <2>1. MakeActive(c.ref)
    BY <1>2 DEF Writes, WritesDeployment
  <2>2. ActivationHolds(c)
    BY <1>2 DEF StillHolds
  <2>3. DeploymentsMove
    BY <1>0, <2>1, <2>2, DeploymentActivated DEF ActivationHolds
  <2>4. /\ UNCHANGED <<handoffs, briefs, authorizations, packages>> /\ approvals \subseteq approvals'
        /\ UNCHANGED <<builds, qa, acceptances, executions, verifications>>
    BY <2>1 DEF MakeActive, chainVars, resultVars, deployedVars
  <2> QED
    BY <1>0, <2>3, <2>4, RecordsStay, ResultsStay, DeploymentsStay DEF DeliveryMoves
<1>3. CASE c.type \in {"Propose", "Revise"}
  <2>1. PICK window \in Windows :
          \/ AddInitial(c.ref, NewDeployment(c.package, c.about, window))
          \/ AddRevision(c.ref, NewDeployment(c.package, c.about, window))
    BY <1>3 DEF Writes, WritesDeployment
  <2> DEFINE r == NewDeployment(c.package, c.about, window)
  <2>2. ProposalHolds(c)
    BY <1>3 DEF StillHolds
  <2>3. r \in DeploymentRecord /\ r.state = "PROPOSED" /\ Supporting(r.package, r.acceptance)
    BY <2>2 DEF ProposalHolds, NewDeployment, DeploymentRecord
  <2>4. AddInitial(c.ref, r) \/ AddRevision(c.ref, r)
    BY <2>1
  <2>5. /\ UNCHANGED <<handoffs, briefs, authorizations, packages>> /\ approvals \subseteq approvals'
        /\ UNCHANGED <<builds, qa, acceptances, executions, verifications>>
    BY <2>4 DEF AddInitial, AddRevision, chainVars, resultVars, deployedVars
  <2> HIDE DEF r
  <2>6. DeploymentsMove
    BY <1>0, <2>2, <2>3, <2>4, DeploymentAdded DEF ProposalHolds
  <2> QED
    BY <1>0, <2>5, <2>6, RecordsStay, ResultsStay, DeploymentsStay DEF DeliveryMoves
<1>4. CASE c.type = "Approve"
  <2>1. AddDeploymentApproval(c.ref, c.role)
    BY <1>4 DEF Writes, WritesDeployment
  <2>2. /\ UNCHANGED <<handoffs, briefs, authorizations, packages>> /\ approvals \subseteq approvals'
        /\ UNCHANGED <<builds, qa, acceptances, deployments, executions, verifications>>
    BY <2>1 DEF AddDeploymentApproval, Approve, resultVars, deployedVars
  <2> QED
    BY <1>0, <2>2, RecordsStay, ResultsStay, DeploymentsStay DEF DeliveryMoves
<1>5. CASE c.type \in {"StartBuild", "CompleteBuild"}
  <2>1. \/ AddBuild(c.ref)
        \/ EndBuild(c.ref, c.number, c.result) /\ c.result \in {"SUCCEEDED", "FAILED"}
    BY <1>5 DEF Writes, WritesDeployment, StillHolds
  <2>2. c.ref \in PackageRef /\ ReleasedOnce(c.ref)
    BY <1>5 DEF StillHolds, BuildHolds
  <2>3. BuildsMove
    BY <1>0, <2>1, <2>2, BuildAdded, BuildCompleted
  <2>4. /\ UNCHANGED <<handoffs, briefs, authorizations, packages>> /\ approvals \subseteq approvals'
        /\ UNCHANGED <<qa, acceptances, deployments, executions, verifications>>
    BY <2>1 DEF AddBuild, EndBuild, chainVars, deployedVars
  <2> QED
    BY <1>0, <2>3, <2>4, RecordsStay, ResultsStay, DeploymentsStay DEF DeliveryMoves
<1>6. CASE c.type = "RecordQA"
  <2>1. AddQA(c.ref, c.about, c.result) /\ c.number = Len(qa[c.ref]) + 1
    BY <1>6 DEF Writes, WritesDeployment, StillNext
  <2>2. QAHolds(c)
    BY <1>6 DEF StillHolds
  <2>3. QAMoves
    BY <1>0, <2>1, <2>2, QAAdded DEF QAHolds
  <2>4. /\ UNCHANGED <<handoffs, briefs, authorizations, packages>> /\ approvals \subseteq approvals'
        /\ UNCHANGED <<builds, acceptances, deployments, executions, verifications>>
    BY <2>1 DEF AddQA, chainVars, deployedVars
  <2> QED
    BY <1>0, <2>3, <2>4, RecordsStay, ResultsStay, DeploymentsStay DEF DeliveryMoves
<1>7. CASE c.type = "RecordAcceptance"
  <2>1. AddAcceptance(c.ref, c.about, c.result) /\ c.number = Len(acceptances[c.ref]) + 1
    BY <1>7 DEF Writes, WritesDeployment, StillNext
  <2>2. DecisionHolds(c)
    BY <1>7 DEF StillHolds
  <2>3. AcceptancesMove
    BY <1>0, <2>1, <2>2, AcceptanceAdded DEF DecisionHolds
  <2>4. /\ UNCHANGED <<handoffs, briefs, authorizations, packages>> /\ approvals \subseteq approvals'
        /\ UNCHANGED <<builds, qa, deployments, executions, verifications>>
    BY <2>1 DEF AddAcceptance, chainVars, deployedVars
  <2> QED
    BY <1>0, <2>3, <2>4, RecordsStay, ResultsStay, DeploymentsStay DEF DeliveryMoves
<1> QED
  BY <1>1, <1>2, <1>3, <1>4, <1>5, <1>6, <1>7 DEF StillHolds

\* Every step with open transactions is one of the moves, and keeps the invariant.
LEMMA RaceStep ==
    ASSUME RaceSafe, [RaceNext]_raceVars
    PROVE  DeliveryMoves /\ RaceSafe'
<1>0. DeliverySafe
  BY DEF RaceSafe
<1>1. DeliveryMoves
  <2>1. CASE DeliveryNext \/ UNCHANGED deliveryVars
    BY <1>0, <2>1, DeliveryStep
  <2>2. CASE \E c \in judged : Commit(c)
    BY <1>0, <2>2, CommitMoves DEF RaceSafe, Commit
  <2>3. CASE Judge \/ UNCHANGED raceVars \/ \E c \in judged : Abort(c)
    <3>1. UNCHANGED deliveryVars
      BY <2>3 DEF Judge, raceVars, Abort
    <3> QED
      BY <1>0, <3>1, DeliveryStays
  <2> QED
    BY <2>1, <2>2, <2>3 DEF RaceNext
<1>2. DeliverySafe'
  BY <1>0, <1>1, DeliverySafeKept
<1>3. \A c \in judged : StillHolds(c)'
  BY <1>0, <1>1, CommandKept DEF RaceSafe
<1>4. ASSUME NEW c \in judged' PROVE StillHolds(c)'
  <2>1. CASE c \in judged
    BY <1>3, <2>1
  <2>2. CASE c \notin judged
    <3>1. c \in Acceptable
      BY <1>4, <2>2 DEF RaceNext, Judge, Commit, Abort, raceVars
    <3> QED
      BY <1>0, <1>1, <3>1, AcceptedHolds, CommandKept
  <2> QED
    BY <2>1, <2>2
<1> QED
  BY <1>1, <1>2, <1>4 DEF RaceSafe

-----------------------------------------------------------------------------
(* The theorems.                                                           *)

\* The invariant holds in every state, for any number of identities, versions,
\* attempts and open transactions.
THEOREM RaceInvariant == RaceSpec => []RaceSafe
<1>1. RaceInit => RaceSafe
  BY DeliveryInitSafe DEF RaceInit, RaceSafe
<1> QED
  BY <1>1, RaceStep, PTL DEF RaceSpec

\* Whatever was deployed descends from what was decided, link by link, however
\* late a command commits.
THEOREM DeploymentsDescend == RaceSpec => []DeploymentDescends
<1>1. RaceSafe => DeploymentDescends
  BY Descent DEF RaceSafe
<1> QED
  BY <1>1, RaceInvariant, PTL

\* Results are in the order of what they are about, however late a command
\* commits: the unique number of a result is enough.
THEOREM OrderOfResults == RaceSpec => []ResultsInOrder
<1>1. RaceSafe => ResultsInOrder
  BY DEF RaceSafe, DeliverySafe
<1> QED
  BY <1>1, RaceInvariant, PTL

\* Only what an attempt may have changed is rolled back or verified, however late
\* the rollback begins.
THEOREM CausesOfCorrections == RaceSpec => []CorrectionsHaveCause
<1>1. RaceSafe => CorrectionsHaveCause
  BY DEF RaceSafe, DeliverySafe
<1> QED
  BY <1>1, RaceInvariant, PTL

\* What one step does to authority, as the property states it.
LossKept ==
    /\ \A ref \in DeploymentRef :
         /\ InState(deployments, ref, Activated) /\ ~DeploymentAuthorized(ref)
            => ~DeploymentAuthorized(ref)'
         /\ RestsOnReports(ref)'
    /\ \A p \in PackageRef :
         /\ \A m \in DOMAIN qa[p] : ~QAPassed(p, m) => ~QAPassed(p, m)'
         /\ \A n \in DOMAIN acceptances[p] : ~ClientAccepted(p, n) => ~ClientAccepted(p, n)'

\* Every step with open transactions does that.
LEMMA LossIsKept ==
    ASSUME RaceSafe, [RaceNext]_raceVars
    PROVE  LossKept
<1>1. DeliverySafe /\ DeliveryMoves
  BY RaceStep DEF RaceSafe
<1>2. ASSUME NEW ref \in DeploymentRef
      PROVE  /\ InState(deployments, ref, Activated) /\ ~DeploymentAuthorized(ref)
                => ~DeploymentAuthorized(ref)'
             /\ RestsOnReports(ref)'
  <2>1. RestsOnReports(ref)'
    BY DEF RestsOnReports, DeploymentAuthorized, Prerequisites, QACurrent, QASourcesReady, BuildCurrent,
           PackageReady, ClientAccepted, QAPassed, BuildSucceeded
  <2> QED
    BY <1>1, <2>1, DeploymentLost
<1>3. ASSUME NEW p \in PackageRef, NEW m \in DOMAIN qa[p], ~QAPassed(p, m)
      PROVE  ~QAPassed(p, m)'
  BY <1>1, <1>3, QALost
<1>4. ASSUME NEW p \in PackageRef, NEW n \in DOMAIN acceptances[p], ~ClientAccepted(p, n)
      PROVE  ~ClientAccepted(p, n)'
  BY <1>1, <1>4, DecisionLost
<1> QED
  BY <1>2, <1>3, <1>4 DEF LossKept

\* Authority that was lost is lost for good, and a usable authorization rests on
\* reports that count, however late a command commits.
THEOREM LostAuthorityStays == RaceSpec => AuthorityLostForGood
<1>1. RaceSpec => [][LossKept]_deliveryVars
  BY LossIsKept, RaceInvariant, PTL DEF RaceSpec
<1> QED
  BY <1>1, PTL DEF LossKept, AuthorityLostForGood

-----------------------------------------------------------------------------
(* Builds and deployment attempts under an authority that was lost.        *)

\* What the handlers demand of a command that starts or ends an attempt.
LEMMA AcceptedAttempt ==
    ASSUME NEW c \in Acceptable
    PROVE  /\ c.type = "StartBuild" =>
                \E p \in PackageRef :
                   /\ PackageReady(p) /\ Len(builds[p]) < MaxBuilds /\ c = Builds(p)
           /\ c.type = "CompleteBuild" => c.ref \in PackageRef /\ PackageReady(c.ref)
           /\ c.type = "StartExecution" =>
                \E d \in DeploymentRef, cause \in ExecutionRef \cup {NoExecution} :
                   /\ DeploymentAuthorized(d) /\ Len(executions[d]) < MaxExecutions /\ c = Starts(d, cause)
<1>1. CASE c \in AcceptableBuilds
  <2>1. PICK p \in PackageRef : MayStartBuild(p) /\ Len(builds[p]) < MaxBuilds /\ c = Builds(p)
    BY <1>1 DEF AcceptableBuilds
  <2>2. c.type = "StartBuild"
    BY <2>1 DEF Builds
  <2> QED
    BY <2>1, <2>2 DEF MayStartBuild
<1>2. CASE c \in AcceptableCompletions
  <2>1. PICK p \in PackageRef, status \in {"SUCCEEDED", "FAILED"} : MayCompleteBuild(p) /\ c = Completes(p, status)
    BY <1>2 DEF AcceptableCompletions
  <2>2. c.type = "CompleteBuild" /\ c.ref = p
    BY <2>1 DEF Completes
  <2> QED
    BY <2>1, <2>2 DEF MayCompleteBuild
<1>3. CASE c \in AcceptableStarts
  <2>1. PICK d \in DeploymentRef, cause \in ExecutionRef \cup {NoExecution} :
          MayStart(d) /\ MayAttempt(d) /\ c = Starts(d, cause)
    BY <1>3 DEF AcceptableStarts
  <2>2. c.type = "StartExecution"
    BY <2>1 DEF Starts
  <2> QED
    BY <2>1, <2>2 DEF MayStart, MayAttempt
<1>4. CASE c \in AcceptableActivations
  <2>1. c.type \in {"Approve", "Activate"}
    BY <1>4 DEF AcceptableActivations, Approves, Activates
  <2> QED
    BY <2>1
<1>5. ASSUME NEW p \in PackageRef, c \in AcceptableTests(p) \cup AcceptableDecisions(p) \cup AcceptableProposals(p)
      PROVE  c.type \in {"RecordQA", "RecordAcceptance", "Propose", "Revise"}
  <2>1. c \in AcceptableTests(p) => c.type = "RecordQA"
    BY DEF AcceptableTests, Tests
  <2>2. c \in AcceptableDecisions(p) => c.type = "RecordAcceptance"
    BY DEF AcceptableDecisions, Decides
  <2>3. c \in AcceptableProposals(p) => c.type \in {"Propose", "Revise"}
    BY DEF AcceptableProposals, Proposes, Revises
  <2> QED
    BY <1>5, <2>1, <2>2, <2>3
<1> QED
  BY <1>1, <1>2, <1>3, <1>4, <1>5 DEF Acceptable

\* What one step does to the builds of a package that is not ready any more.
StrandedKept ==
    \A p \in PackageRef :
        builds[p] # <<>> /\ Last(builds[p]) = "IN_PROGRESS" /\ ~PackageReady(p)
        => /\ ~PackageReady(p)'
           /\ Open("StartBuild", p)' \cup Open("CompleteBuild", p)'
                \subseteq Open("StartBuild", p) \cup Open("CompleteBuild", p)
           /\ builds'[p] # builds[p] =>
                \E command \in Open("CompleteBuild", p) :
                    /\ command \notin judged'
                    /\ builds'[p] = [builds[p] EXCEPT ![Len(builds[p])] = command.result]

\* Every step does that: the atomic commands and the judgements ask that the
\* package is ready, and no start commits beside a build that is in progress.
LEMMA StrandedIsKept ==
    ASSUME RaceSafe, [RaceNext]_raceVars
    PROVE  StrandedKept
<1> SUFFICES ASSUME NEW p \in PackageRef, builds[p] # <<>>, Last(builds[p]) = "IN_PROGRESS",
                    ~PackageReady(p)
             PROVE  /\ ~PackageReady(p)'
                    /\ Open("StartBuild", p)' \cup Open("CompleteBuild", p)'
                         \subseteq Open("StartBuild", p) \cup Open("CompleteBuild", p)
                    /\ builds'[p] # builds[p] =>
                         \E command \in Open("CompleteBuild", p) :
                             /\ command \notin judged'
                             /\ builds'[p] = [builds[p] EXCEPT ![Len(builds[p])] = command.result]
  BY DEF StrandedKept
<1>0. DeliverySafe /\ DeliveryTypeOK /\ ResultsRest /\ ChainSafe /\ ChainMoves
  BY RaceStep DEF RaceSafe, DeliverySafe, DeliveryMoves
<1>1. ~PackageReady(p)'
  BY <1>0, ReadyBefore DEF ResultsRest
<1>2. ASSUME NEW c \in judged', c \notin judged, c.type \in {"StartBuild", "CompleteBuild"}
      PROVE  c.ref # p
  <2>1. c \in Acceptable
    BY <1>2 DEF RaceNext, Judge, Commit, Abort, raceVars
  <2>2. c.type = "StartBuild" => \E o \in PackageRef : PackageReady(o) /\ c = Builds(o)
    BY <2>1, AcceptedAttempt
  <2>3. c.type = "CompleteBuild" => PackageReady(c.ref)
    BY <2>1, AcceptedAttempt
  <2> QED
    BY <1>2, <2>2, <2>3 DEF Builds
<1>3. Open("StartBuild", p)' \cup Open("CompleteBuild", p)' \subseteq Open("StartBuild", p) \cup Open("CompleteBuild", p)
  BY <1>2 DEF Open
<1>4. CASE DeliveryNext \/ UNCHANGED deliveryVars
  <2>1. CASE UpstreamNext \/ DeploymentNext \/ ExecutionNext \/ UNCHANGED deliveryVars
    BY <1>1, <1>3, <2>1
       DEF UpstreamNext, DeploymentNext, ProposeDeployment, AddInitial, ReviseDeployment, AddRevision,
           RecordDeploymentApproval, AddDeploymentApproval,
           ActivateDeployment, MakeActive, RevokeDeployment, DeploymentClock, ExecutionNext,
           StartExecution, AddExecution, CompleteExecution, RecordVerification,
           deliveryVars, resultVars
  <2>2. ASSUME NEW o \in PackageRef, StartBuild(o)
        PROVE  builds'[p] = builds[p]
    <3>1. o # p
      BY <2>2 DEF StartBuild, MayStartBuild
    <3> QED
      BY <2>2, <3>1, <1>0 DEF StartBuild, AddBuild, Added, DeliveryTypeOK
  <2>3. ASSUME NEW o \in PackageRef, NEW status \in {"SUCCEEDED", "FAILED"}, CompleteBuild(o, status)
        PROVE  builds'[p] = builds[p]
    <3>1. o # p
      BY <2>3 DEF CompleteBuild, MayCompleteBuild
    <3> QED
      BY <2>3, <3>1, <1>0 DEF CompleteBuild, EndBuild, DeliveryTypeOK
  <2>4. ASSUME NEW o \in PackageRef, NEW n, NEW status,
               RecordQA(o, n, status) \/ RecordAcceptance(o, n, status)
        PROVE  builds'[p] = builds[p]
    BY <2>4 DEF RecordQA, AddQA, RecordAcceptance, AddAcceptance
  <2> QED
    BY <1>1, <1>3, <1>4, <2>1, <2>2, <2>3, <2>4 DEF DeliveryNext, ResultNext
<1>5. ASSUME NEW c \in judged, Commit(c), builds'[p] # builds[p]
      PROVE  \E command \in Open("CompleteBuild", p) :
                /\ command \notin judged'
                /\ builds'[p] = [builds[p] EXCEPT ![Len(builds[p])] = command.result]
  <2>1. StillHolds(c) /\ Writes(c) /\ c \notin judged'
    BY <1>5 DEF RaceSafe, Commit
  <2>2. CASE c.type = "StartBuild"
    <3>1. AddBuild(c.ref) /\ c.ref \in PackageRef
      BY <2>1, <2>2 DEF Writes, WritesDeployment, StillHolds, BuildHolds
    <3>2. c.ref # p
      BY <3>1 DEF AddBuild, NextAttempt
    <3> QED
      BY <1>0, <1>5, <3>1, <3>2 DEF AddBuild, Added, DeliveryTypeOK
  <2>3. CASE c.type = "CompleteBuild"
    <3>1. EndBuild(c.ref, c.number, c.result) /\ c.ref \in PackageRef
      BY <2>1, <2>3 DEF Writes, WritesDeployment, StillHolds, BuildHolds
    <3>2. c.ref = p
      BY <1>0, <1>5, <3>1 DEF EndBuild, DeliveryTypeOK
    <3>3. c.number \in 1..Len(builds[p]) /\ builds[p][c.number] = "IN_PROGRESS"
      BY <1>0, <3>1, <3>2, ResultPlaces DEF EndBuild
    <3>4. c.number = Len(builds[p])
      BY <1>0, <3>3 DEF ResultsRest
    <3>5. builds'[p] = [builds[p] EXCEPT ![Len(builds[p])] = c.result]
      BY <1>0, <3>1, <3>2, <3>4 DEF EndBuild, DeliveryTypeOK
    <3>6. c \in Open("CompleteBuild", p)
      BY <2>3, <3>2 DEF Open
    <3> QED
      BY <2>1, <3>5, <3>6
  <2>4. CASE c.type \notin {"StartBuild", "CompleteBuild"}
    <3>1. UNCHANGED builds
      BY <2>1, <2>4 DEF Writes, WritesDeployment, AddQA, AddAcceptance, AddInitial, AddRevision,
                        AddDeploymentApproval, MakeActive, AddExecution, resultVars
    <3> QED
      BY <1>5, <3>1
  <2> QED
    BY <2>2, <2>3, <2>4
<1>6. CASE Judge \/ UNCHANGED raceVars \/ \E c \in judged : Abort(c)
  <2>1. UNCHANGED builds
    BY <1>6 DEF Judge, Abort, raceVars, deliveryVars, resultVars
  <2> QED
    BY <1>1, <1>3, <2>1
<1> QED
  BY <1>1, <1>3, <1>4, <1>5, <1>6 DEF RaceNext

\* A build in progress whose package is not ready any more ends only by a
\* completion that was accepted while the package still was.
THEOREM StrandedStays == RaceSpec => StrandedBuildStays
<1>1. RaceSpec => [][StrandedKept]_raceVars
  BY StrandedIsKept, RaceInvariant, PTL DEF RaceSpec
<1> QED
  BY <1>1, PTL DEF StrandedKept, StrandedBuildStays

-----------------------------------------------------------------------------
(* The refinements: packages and deployment authorizations are revocable   *)
(* authorities.                                                            *)

\* The status of a package in the abstract authority.
PackageStatus(p) == AuthorityStatus(PackageReady(p), ReleasedOnce(p))

\* The status of a deployment authorization in the abstract authority.
DeploymentStatus(d) == AuthorityStatus(DeploymentAuthorized(d), InState(deployments, d, Activated))

\* The three cases of it, before and after a step.
LEMMA PackageStatuses ==
    ASSUME NEW p
    PROVE  /\ PackageStatus(p) = IF PackageReady(p) THEN "usable" ELSE IF ReleasedOnce(p) THEN "dead" ELSE "none"
           /\ PackageStatus(p)' = IF PackageReady(p)' THEN "usable" ELSE IF ReleasedOnce(p)' THEN "dead" ELSE "none"
  BY DEF PackageStatus, AuthorityStatus

\* The three cases of it, before and after a step.
LEMMA DeploymentStatuses ==
    ASSUME NEW d
    PROVE  /\ DeploymentStatus(d) = IF DeploymentAuthorized(d) THEN "usable"
                                    ELSE IF InState(deployments, d, Activated) THEN "dead" ELSE "none"
           /\ DeploymentStatus(d)' = IF DeploymentAuthorized(d)' THEN "usable"
                                     ELSE IF InState(deployments, d, Activated)' THEN "dead" ELSE "none"
  BY DEF DeploymentStatus, AuthorityStatus

\* A step moves a package as the abstract authority may move.
LEMMA PackageFollows ==
    ASSUME ChainSafe, ChainMoves, NEW p \in PackageRef
    PROVE  /\ PackageStatus(p)' \in {"none", "usable", "dead"}
           /\ PackageAuthority!Follows(PackageStatus(p)', PackageStatus(p))
<1>0. ChainTypeOK
  BY DEF ChainSafe
<1>1. PackageReady(p) => ReleasedOnce(p)
  BY ReadyReleased
<1>2. ReleasedOnce(p) => ReleasedOnce(p)'
  BY <1>0, ReleasedStable
<1>3. ReleasedOnce(p) /\ ~PackageReady(p) => ~PackageReady(p)'
  BY ReadyBefore
<1> QED
  BY <1>1, <1>2, <1>3, PackageStatuses DEF PackageAuthority!Follows

\* A step moves a deployment authorization as the abstract authority may move.
LEMMA DeploymentFollows ==
    ASSUME DeliverySafe, DeliveryMoves, NEW d \in DeploymentRef
    PROVE  /\ DeploymentStatus(d)' \in {"none", "usable", "dead"}
           /\ DeploymentAuthority!Follows(DeploymentStatus(d)', DeploymentStatus(d))
<1> DEFINE past == InState(deployments, d, Activated)
<1>0. DeliveryTypeOK
  BY DEF DeliverySafe
<1>1. DeploymentAuthorized(d) => past
  BY DEF DeploymentAuthorized, InState, Activated
<1>2. ASSUME past PROVE past'
  <2>1. /\ d.id \in Deployments /\ d.version \in 1..Len(deployments[d.id])
        /\ deployments[d.id][d.version].state \in Activated
    BY <1>0, <1>2, ResultPlaces DEF InState, Stored, Version, DeploymentRef
  <2>2. d.version \in 1..Len(deployments'[d.id]) /\ deployments'[d.id][d.version].state \in Activated
    BY <1>0, <2>1, DeploymentStable
  <2>3. d.version \in DOMAIN deployments'[d.id]
    BY <2>1, <2>2, DeliveryTypesKept, ResultPlacesNext
  <2> QED
    BY <2>2, <2>3 DEF InState, Stored, Version
<1>3. past /\ ~DeploymentAuthorized(d) => ~DeploymentAuthorized(d)'
  BY DeploymentLost
<1> QED
  BY <1>1, <1>2, <1>3, DeploymentStatuses DEF DeploymentAuthority!Follows

\* A step that leaves the upstream half alone leaves every package as it was.
LEMMA PackagesRest ==
    ASSUME UNCHANGED chainVars, NEW p
    PROVE  /\ PackageReady(p)' <=> PackageReady(p)
           /\ PackageStatus(p)' = PackageStatus(p)
<1>1. /\ handoffs' = handoffs /\ briefs' = briefs /\ authorizations' = authorizations
      /\ packages' = packages /\ approvals' = approvals
  BY DEF chainVars
<1>2. ASSUME NEW h PROVE HandoffCurrent(h)' <=> HandoffCurrent(h)
  BY <1>1 DEF HandoffCurrent, Version
<1>3. ASSUME NEW subject, NEW ref PROVE ApprovedByBoth(subject, ref)' <=> ApprovedByBoth(subject, ref)
  BY <1>1 DEF ApprovedByBoth
<1>4. ASSUME NEW b PROVE BriefReady(b)' <=> BriefReady(b)
  <2>1. /\ InState(briefs, b, {"APPROVED"})' <=> InState(briefs, b, {"APPROVED"})
        /\ Version(briefs, b)' = Version(briefs, b)
    BY <1>1 DEF InState, Stored, Version
  <2>2. HandoffCurrent(Version(briefs, b).handoff)' <=> HandoffCurrent(Version(briefs, b).handoff)
    BY <1>1 DEF HandoffCurrent, Version
  <2> QED
    BY <1>3, <2>1, <2>2 DEF BriefReady
<1>5. ASSUME NEW a PROVE AuthorizationUsable(a)' <=> AuthorizationUsable(a)
  BY <1>1, <1>3, <1>4 DEF AuthorizationUsable, InState, Stored, Version, BriefReady, HandoffCurrent
<1>6. ASSUME NEW b, NEW a PROVE SourcesReady(b, a)' <=> SourcesReady(b, a)
  BY <1>1, <1>4, <1>5 DEF SourcesReady, Version
<1>7. PackageReady(p)' <=> PackageReady(p)
  BY <1>1, <1>3, <1>6 DEF PackageReady, InState, Stored, Version
<1>8. ReleasedOnce(p)' <=> ReleasedOnce(p)
  BY <1>1 DEF ReleasedOnce, InState, Stored, Version
<1> QED
  BY <1>7, <1>8, PackageStatuses

\* A step that leaves the sources alone leaves every authorization as it was.
LEMMA DeploymentStatusRests ==
    ASSUME UNCHANGED <<chainVars, resultVars, deployments>>, NEW d
    PROVE  DeploymentStatus(d)' = DeploymentStatus(d)
<1>1. UNCHANGED chainVars
  OBVIOUS
<1>2. /\ builds' = builds /\ qa' = qa /\ acceptances' = acceptances
      /\ deployments' = deployments /\ approvals' = approvals
  BY DEF chainVars, resultVars
<1>5. ASSUME NEW p, NEW n PROVE Prerequisites(p, n)' <=> Prerequisites(p, n)
  <2> DEFINE m == acceptances[p][n].qa
  <2>1. QACurrent(p, m)' <=> QACurrent(p, m)
    BY <1>1, <1>2, PackagesRest DEF QACurrent, QASourcesReady, BuildCurrent
  <2> QED
    BY <1>2, <2>1 DEF Prerequisites
<1>6. InState(deployments, d, Activated)' <=> InState(deployments, d, Activated)
  BY <1>2 DEF InState, Stored, Version
<1>7. DeploymentAuthorized(d)' <=> DeploymentAuthorized(d)
  <2> DEFINE record == Version(deployments, d)
  <2>1. Version(deployments, d)' = record /\ InState(deployments, d, {"ACTIVE"})' <=> InState(deployments, d, {"ACTIVE"})
    BY <1>2 DEF InState, Stored, Version
  <2>2. \A r : (r = record) => (Prerequisites(r.package, r.acceptance)' <=> Prerequisites(r.package, r.acceptance))
    BY <1>5
  <2>3. ApprovedByBoth("deployment", d)' <=> ApprovedByBoth("deployment", d)
    BY <1>2 DEF ApprovedByBoth
  <2> QED
    BY <2>1, <2>2, <2>3 DEF DeploymentAuthorized
<1> QED
  BY <1>6, <1>7, DeploymentStatuses

\* No build attempt begins.
NoBuildBegins == \A p \in PackageRef : Len(builds'[p]) = Len(builds[p])

\* One build attempt of that package begins.
BuildBegins(p) ==
    \A o \in PackageRef : Len(builds'[o]) = IF o = p THEN Len(builds[o]) + 1 ELSE Len(builds[o])

\* No deployment attempt begins.
NoExecutionBegins == \A d \in DeploymentRef : Len(executions'[d]) = Len(executions[d])

\* One deployment attempt under that authorization begins.
ExecutionBegins(d) ==
    \A o \in DeploymentRef : Len(executions'[o]) = IF o = d THEN Len(executions[o]) + 1 ELSE Len(executions[o])

\* A start adds an attempt.
LEMMA AttemptBegins ==
    ASSUME DeliveryTypeOK
    PROVE  /\ \A p \in PackageRef : AddBuild(p) => BuildBegins(p)
           /\ \A d \in DeploymentRef : \A cause : AddExecution(d, cause) => ExecutionBegins(d)
<1>0. /\ builds \in [PackageRef -> Seq(BuildStatus)] /\ executions \in [DeploymentRef -> Seq(ExecutionRecord)]
      /\ \A p \in PackageRef : Len(builds[p]) \in Nat
      /\ \A d \in DeploymentRef : Len(executions[d]) \in Nat
  BY DEF DeliveryTypeOK
<1>1. ASSUME NEW p \in PackageRef, AddBuild(p)
      PROVE  BuildBegins(p)
  <2>1. builds' = [builds EXCEPT ![p] = Append(@, "IN_PROGRESS")] /\ "IN_PROGRESS" \in BuildStatus
    BY <1>1 DEF AddBuild, Added, BuildStatus
  <2> QED
    BY <1>0, <2>1 DEF BuildBegins
<1>2. ASSUME NEW d \in DeploymentRef, NEW cause, AddExecution(d, cause)
      PROVE  ExecutionBegins(d)
  <2>1. PICK r : executions' = [executions EXCEPT ![d] = Append(@, r)]
    BY <1>2 DEF AddExecution, Added
  <2>2. Len(Append(executions[d], r)) = Len(executions[d]) + 1
    BY <1>0
  <2> QED
    BY <1>0, <2>1, <2>2 DEF ExecutionBegins
<1> QED
  BY <1>1, <1>2

\* Of the commands that are one step, only a start does, and it writes nothing else.
LEMMA AttemptsCounted ==
    ASSUME DeliverySafe, [DeliveryNext]_deliveryVars
    PROVE  /\ \/ NoBuildBegins
              \/ \E p \in PackageRef : PackageReady(p) /\ UNCHANGED chainVars /\ BuildBegins(p)
           /\ \/ NoExecutionBegins
              \/ \E d \in DeploymentRef :
                   DeploymentAuthorized(d) /\ UNCHANGED <<chainVars, resultVars, deployments>> /\ ExecutionBegins(d)
<1>0. DeliveryTypeOK /\ executions \in [DeploymentRef -> Seq(ExecutionRecord)]
  BY DEF DeliverySafe, DeliveryTypeOK
<1>1. CASE UpstreamNext \/ DeploymentNext \/ UNCHANGED deliveryVars
  <2>1. UNCHANGED <<builds, executions>>
    BY <1>1 DEF UpstreamNext, DeploymentNext, ProposeDeployment, AddInitial, ReviseDeployment, AddRevision,
                RecordDeploymentApproval, AddDeploymentApproval, ActivateDeployment, MakeActive, RevokeDeployment, DeploymentClock,
                deliveryVars, resultVars, deployedVars
  <2> QED
    BY <2>1 DEF NoBuildBegins, NoExecutionBegins
<1>2. CASE ResultNext
  <2>1. UNCHANGED executions
    BY <1>2 DEF ResultNext, StartBuild, AddBuild, CompleteBuild, EndBuild, RecordQA, AddQA,
                RecordAcceptance, AddAcceptance, deployedVars
  <2>2. ASSUME NEW p \in PackageRef, StartBuild(p)
        PROVE  PackageReady(p) /\ UNCHANGED chainVars /\ BuildBegins(p)
    BY <1>0, <2>2, AttemptBegins DEF StartBuild, MayStartBuild, AddBuild
  <2>3. ASSUME NEW p \in PackageRef, NEW status \in {"SUCCEEDED", "FAILED"}, CompleteBuild(p, status)
        PROVE  NoBuildBegins
    BY <1>0, <2>3, BuildCompleted DEF CompleteBuild, NoBuildBegins
  <2>4. ASSUME NEW p \in PackageRef, NEW n, NEW result, RecordQA(p, n, result) \/ RecordAcceptance(p, n, result)
        PROVE  UNCHANGED builds
    BY <2>4 DEF RecordQA, AddQA, RecordAcceptance, AddAcceptance
  <2>5. NoBuildBegins \/ \E p \in PackageRef : StartBuild(p)
    BY <1>2, <2>3, <2>4 DEF ResultNext, NoBuildBegins
  <2> QED
    BY <2>1, <2>2, <2>5 DEF NoExecutionBegins
<1>3. CASE ExecutionNext
  <2>1. UNCHANGED <<builds, chainVars, resultVars, deployments>>
    BY <1>3 DEF ExecutionNext, StartExecution, AddExecution, CompleteExecution, RecordVerification, resultVars
  <2>2. ASSUME NEW d \in DeploymentRef, NEW cause, StartExecution(d, cause)
        PROVE  DeploymentAuthorized(d) /\ ExecutionBegins(d)
    BY <1>0, <2>2, AttemptBegins DEF StartExecution, MayStart
  <2>3. ASSUME NEW d \in DeploymentRef, NEW status, CompleteExecution(d, status)
        PROVE  NoExecutionBegins
    <3>1. PICK r : executions' = [executions EXCEPT ![d] = [executions[d] EXCEPT ![Len(executions[d])] = r]]
      BY <2>3 DEF CompleteExecution
    <3>2. Len([executions[d] EXCEPT ![Len(executions[d])] = r]) = Len(executions[d])
      BY <1>0
    <3> QED
      BY <1>0, <3>1, <3>2 DEF NoExecutionBegins
  <2>4. ASSUME NEW e, NEW status, RecordVerification(e, status)
        PROVE  UNCHANGED executions
    BY <2>4 DEF RecordVerification
  <2>5. \/ NoExecutionBegins
        \/ \E d \in DeploymentRef, cause \in ExecutionRef \cup {NoExecution} : StartExecution(d, cause)
    BY <1>3, <2>3, <2>4 DEF ExecutionNext, NoExecutionBegins
  <2> QED
    BY <2>1, <2>2, <2>5 DEF NoBuildBegins
<1> QED
  BY <1>1, <1>2, <1>3 DEF DeliveryNext

\* The same of a command at its commit: it may not look at the authority any more.
LEMMA CommitCounted ==
    ASSUME DeliverySafe, NEW c, StillHolds(c), Writes(c)
    PROVE  /\ IF c.type = "StartBuild"
                 THEN c.ref \in PackageRef /\ UNCHANGED chainVars /\ BuildBegins(c.ref)
                 ELSE NoBuildBegins
           /\ IF c.type = "StartExecution"
                 THEN /\ c.ref \in DeploymentRef /\ UNCHANGED <<chainVars, resultVars, deployments>>
                      /\ ExecutionBegins(c.ref)
                 ELSE NoExecutionBegins
<1>0. DeliveryTypeOK
  BY DEF DeliverySafe
<1>1. CASE c.type = "StartBuild"
  <2>1. AddBuild(c.ref) /\ c.ref \in PackageRef
    BY <1>1 DEF Writes, WritesDeployment, StillHolds, BuildHolds
  <2>2. UNCHANGED chainVars /\ UNCHANGED executions
    BY <2>1 DEF AddBuild, deployedVars
  <2> QED
    BY <1>0, <1>1, <2>1, <2>2, AttemptBegins DEF NoExecutionBegins
<1>2. CASE c.type = "CompleteBuild"
  <2>1. EndBuild(c.ref, c.number, c.result) /\ c.ref \in PackageRef /\ c.result \in {"SUCCEEDED", "FAILED"}
    BY <1>2 DEF Writes, WritesDeployment, StillHolds, BuildHolds
  <2>2. UNCHANGED executions
    BY <2>1 DEF EndBuild, deployedVars
  <2> QED
    BY <1>0, <1>2, <2>1, <2>2, BuildCompleted DEF NoBuildBegins, NoExecutionBegins
<1>3. CASE c.type = "StartExecution"
  <2>1. AddExecution(c.ref, c.rollbackOf) /\ c.ref \in DeploymentRef
    BY <1>3 DEF Writes, WritesDeployment, StillHolds, StartHolds
  <2>2. UNCHANGED <<chainVars, resultVars, deployments>> /\ UNCHANGED builds
    BY <2>1 DEF AddExecution, resultVars
  <2> QED
    BY <1>0, <1>3, <2>1, <2>2, AttemptBegins DEF NoBuildBegins
<1>4. CASE c.type \notin {"StartBuild", "CompleteBuild", "StartExecution"}
  <2>1. UNCHANGED <<builds, executions>>
    BY <1>4 DEF Writes, WritesDeployment, AddQA, AddAcceptance, AddInitial, AddRevision,
                AddDeploymentApproval, MakeActive, resultVars, deployedVars
  <2> QED
    BY <1>4, <2>1 DEF NoBuildBegins, NoExecutionBegins
<1> QED
  BY <1>1, <1>2, <1>3, <1>4

\* A judgement adds its command to the open ones, an end takes it away.
LEMMA OpenMoves ==
    ASSUME NEW c, NEW type
    PROVE  /\ judged' = judged =>
                \A r : Open(type, r)' = Open(type, r)
           /\ judged' = judged \cup {c} =>
                \A r : Open(type, r)' = IF c.type = type /\ c.ref = r THEN Open(type, r) \cup {c} ELSE Open(type, r)
           /\ judged' = judged \ {c} =>
                \A r : Open(type, r)' = IF c.type = type /\ c.ref = r THEN Open(type, r) \ {c} ELSE Open(type, r)
  BY DEF Open

\* Every step is one of the abstract authority: of a package over build attempts.
LEMMA PackageRefines ==
    ASSUME RaceSafe, [RaceNext]_raceVars
    PROVE  PackageAuthority!Next
<1> DEFINE Same == \A a \in PackageRef : Open("StartBuild", a)' = Open("StartBuild", a)
           Rest == \A a \in PackageRef : PackageStatus(a)' = PackageStatus(a)
<1>0. /\ DeliverySafe /\ DeliveryMoves /\ ChainSafe /\ ChainMoves
      /\ \A a \in PackageRef : Len(builds[a]) \in Nat
  BY RaceStep DEF RaceSafe, DeliverySafe, DeliveryMoves, DeliveryTypeOK
<1>1. ASSUME Same, NoBuildBegins
      PROVE  PackageAuthority!Next
  <2>1. PackageAuthority!Change
    BY <1>0, <1>1, PackageFollows
       DEF PackageAuthority!Change, PackageAuthority!Status, PackageStatus, ReleasedOnce, NoBuildBegins
  <2> QED
    BY <2>1 DEF PackageAuthority!Next
<1>2. ASSUME NEW p \in PackageRef, PackageReady(p), Same, Rest, BuildBegins(p)
      PROVE  PackageAuthority!Next
  <2>1. PackageStatus(p) = "usable"
    BY <1>2, PackageStatuses
  <2>2. [a \in PackageRef |-> Len(builds'[a])] = [[a \in PackageRef |-> Len(builds[a])] EXCEPT ![p] = @ + 1]
    BY <1>2 DEF BuildBegins
  <2>3. [a \in PackageRef |-> PackageStatus(a)]' = [a \in PackageRef |-> PackageStatus(a)]
    BY <1>2
  <2>4. [a \in PackageRef |-> PackageStatus(a)][p] = "usable"
    BY <2>1
  <2>5. [a \in PackageRef |-> Open("StartBuild", a)]' = [a \in PackageRef |-> Open("StartBuild", a)]
    BY <1>2
  <2>6. PackageAuthority!Use(p)
    BY <2>2, <2>3, <2>4, <2>5 DEF PackageAuthority!Use, PackageStatus, ReleasedOnce
  <2> QED
    BY <2>6 DEF PackageAuthority!Next
<1>3. ASSUME NEW p \in PackageRef, NEW c \in judged, c.type = "StartBuild", c.ref = p,
             judged' = judged \ {c}, Rest, NoBuildBegins \/ BuildBegins(p)
      PROVE  PackageAuthority!Next
  <2>1. c \in Open("StartBuild", p)
    BY <1>3 DEF Open
  <2>2. [a \in PackageRef |-> Open("StartBuild", a)]'
        = [[a \in PackageRef |-> Open("StartBuild", a)] EXCEPT ![p] = @ \ {c}]
    <3>1. \A a \in PackageRef : Open("StartBuild", a)' = IF a = p THEN Open("StartBuild", a) \ {c} ELSE Open("StartBuild", a)
      BY <1>3, OpenMoves
    <3> QED
      BY <3>1
  <2>3. \/ [a \in PackageRef |-> Len(builds'[a])] = [a \in PackageRef |-> Len(builds[a])]
        \/ [a \in PackageRef |-> Len(builds'[a])] = [[a \in PackageRef |-> Len(builds[a])] EXCEPT ![p] = @ + 1]
    BY <1>3 DEF NoBuildBegins, BuildBegins
  <2>4. [a \in PackageRef |-> PackageStatus(a)]' = [a \in PackageRef |-> PackageStatus(a)]
    BY <1>3
  <2>5. c \in [a \in PackageRef |-> Open("StartBuild", a)][p]
    BY <2>1
  <2>6. PackageAuthority!Conclude(p)
    BY <2>2, <2>3, <2>4, <2>5 DEF PackageAuthority!Conclude, PackageStatus, ReleasedOnce
  <2> QED
    BY <2>6 DEF PackageAuthority!Next
<1>4. ASSUME NEW p \in PackageRef, PackageReady(p), Len(builds[p]) < MaxBuilds,
             NEW c, c = Builds(p), c \notin judged, judged' = judged \cup {c}, Rest, NoBuildBegins
      PROVE  PackageAuthority!Next
  <2>1. /\ c.type = "StartBuild" /\ c.ref = p /\ c \notin Open("StartBuild", p)
        /\ c \in [type : {"StartBuild"}, ref : PackageRef, number : 1..MaxBuilds]
    <3>1. Len(builds[p]) + 1 \in 1..MaxBuilds
      BY <1>0, <1>4, AttemptAssumption
    <3> QED
      BY <1>4, <3>1 DEF Builds, Open
  <2>2. [a \in PackageRef |-> Open("StartBuild", a)]'
        = [[a \in PackageRef |-> Open("StartBuild", a)] EXCEPT ![p] = @ \cup {c}]
    <3>1. \A a \in PackageRef : Open("StartBuild", a)' = IF a = p THEN Open("StartBuild", a) \cup {c} ELSE Open("StartBuild", a)
      BY <1>4, <2>1, OpenMoves
    <3> QED
      BY <3>1
  <2>3. [a \in PackageRef |-> Len(builds'[a])] = [a \in PackageRef |-> Len(builds[a])]
    BY <1>4 DEF NoBuildBegins
  <2>4. [a \in PackageRef |-> PackageStatus(a)]' = [a \in PackageRef |-> PackageStatus(a)]
    BY <1>4
  <2>5. [a \in PackageRef |-> PackageStatus(a)][p] = "usable"
    BY <1>4, PackageStatuses
  <2>6. c \notin [a \in PackageRef |-> Open("StartBuild", a)][p]
    BY <2>1
  <2>7. PackageAuthority!Accept(p)
    BY <2>1, <2>2, <2>3, <2>4, <2>5, <2>6 DEF PackageAuthority!Accept, PackageStatus, ReleasedOnce
  <2> QED
    BY <2>7 DEF PackageAuthority!Next
<1>5. UNCHANGED chainVars => Rest
  BY PackagesRest
<1>6. UNCHANGED deliveryVars => Rest /\ NoBuildBegins
  BY <1>5 DEF deliveryVars, resultVars, NoBuildBegins
<1>7. CASE ([DeliveryNext]_deliveryVars) /\ UNCHANGED judged
  <2>1. Same
    BY <1>7, OpenMoves
  <2>2. \/ NoBuildBegins
        \/ \E p \in PackageRef : PackageReady(p) /\ UNCHANGED chainVars /\ BuildBegins(p)
    BY <1>0, <1>7, AttemptsCounted
  <2> HIDE DEF Same, Rest
  <2> QED
    BY <1>1, <1>2, <1>5, <2>1, <2>2
<1>8. CASE Judge
  <2>1. PICK c \in Acceptable : c \notin judged /\ judged' = judged \cup {c}
    BY <1>8 DEF Judge
  <2>2. Rest /\ NoBuildBegins
    BY <1>6, <1>8 DEF Judge
  <2>3. CASE c.type = "StartBuild"
    <3>1. PICK p \in PackageRef : PackageReady(p) /\ Len(builds[p]) < MaxBuilds /\ c = Builds(p)
      BY <2>1, <2>3, AcceptedAttempt
    <3> HIDE DEF Same, Rest
    <3> QED
      BY <1>4, <2>1, <2>2, <3>1
  <2>4. CASE c.type # "StartBuild"
    <3>1. Same
      BY <2>1, <2>4, OpenMoves
    <3> QED
      BY <1>1, <2>2, <3>1
  <2> QED
    BY <2>3, <2>4
<1>9. ASSUME NEW c \in judged, Commit(c) \/ Abort(c)
      PROVE  PackageAuthority!Next
  <2>1. judged' = judged \ {c} /\ StillHolds(c)
    BY <1>9 DEF Commit, Abort, RaceSafe
  <2>2. \/ Writes(c)
        \/ Rest /\ NoBuildBegins
    BY <1>6, <1>9 DEF Commit, Abort
  <2>3. CASE c.type = "StartBuild"
    <3>1. c.ref \in PackageRef
      BY <2>1, <2>3 DEF StillHolds, BuildHolds
    <3>2. Rest /\ (NoBuildBegins \/ BuildBegins(c.ref))
      BY <1>0, <1>5, <2>1, <2>2, <2>3, CommitCounted
    <3> HIDE DEF Same, Rest
    <3> QED
      BY <1>3, <2>1, <2>3, <3>1, <3>2
  <2>4. CASE c.type # "StartBuild"
    <3>1. Same
      BY <2>1, <2>4, OpenMoves
    <3>2. NoBuildBegins
      BY <1>0, <2>1, <2>2, <2>4, CommitCounted
    <3> QED
      BY <1>1, <3>1, <3>2
  <2> QED
    BY <2>3, <2>4
<1> QED
  BY <1>7, <1>8, <1>9 DEF RaceNext, raceVars

\* Every step is one of the abstract authority: of a deployment authorization over deployment attempts.
LEMMA DeploymentRefines ==
    ASSUME RaceSafe, [RaceNext]_raceVars
    PROVE  DeploymentAuthority!Next
<1> DEFINE Same == \A a \in DeploymentRef : Open("StartExecution", a)' = Open("StartExecution", a)
           Rest == \A a \in DeploymentRef : DeploymentStatus(a)' = DeploymentStatus(a)
<1>0. /\ DeliverySafe /\ DeliveryMoves /\ ChainSafe /\ ChainMoves
      /\ \A a \in DeploymentRef : Len(executions[a]) \in Nat
  BY RaceStep DEF RaceSafe, DeliverySafe, DeliveryMoves, DeliveryTypeOK
<1>1. ASSUME Same, NoExecutionBegins
      PROVE  DeploymentAuthority!Next
  <2>1. DeploymentAuthority!Change
    BY <1>0, <1>1, DeploymentFollows
       DEF DeploymentAuthority!Change, DeploymentAuthority!Status, DeploymentStatus, NoExecutionBegins
  <2> QED
    BY <2>1 DEF DeploymentAuthority!Next
<1>2. ASSUME NEW p \in DeploymentRef, DeploymentAuthorized(p), Same, Rest, ExecutionBegins(p)
      PROVE  DeploymentAuthority!Next
  <2>1. DeploymentStatus(p) = "usable"
    BY <1>2, DeploymentStatuses
  <2>2. [a \in DeploymentRef |-> Len(executions'[a])] = [[a \in DeploymentRef |-> Len(executions[a])] EXCEPT ![p] = @ + 1]
    BY <1>2 DEF ExecutionBegins
  <2>3. [a \in DeploymentRef |-> DeploymentStatus(a)]' = [a \in DeploymentRef |-> DeploymentStatus(a)]
    BY <1>2
  <2>4. [a \in DeploymentRef |-> DeploymentStatus(a)][p] = "usable"
    BY <2>1
  <2>5. [a \in DeploymentRef |-> Open("StartExecution", a)]' = [a \in DeploymentRef |-> Open("StartExecution", a)]
    BY <1>2
  <2>6. DeploymentAuthority!Use(p)
    BY <2>2, <2>3, <2>4, <2>5 DEF DeploymentAuthority!Use, DeploymentStatus
  <2> QED
    BY <2>6 DEF DeploymentAuthority!Next
<1>3. ASSUME NEW p \in DeploymentRef, NEW c \in judged, c.type = "StartExecution", c.ref = p,
             judged' = judged \ {c}, Rest, NoExecutionBegins \/ ExecutionBegins(p)
      PROVE  DeploymentAuthority!Next
  <2>1. c \in Open("StartExecution", p)
    BY <1>3 DEF Open
  <2>2. [a \in DeploymentRef |-> Open("StartExecution", a)]'
        = [[a \in DeploymentRef |-> Open("StartExecution", a)] EXCEPT ![p] = @ \ {c}]
    <3>1. \A a \in DeploymentRef : Open("StartExecution", a)' = IF a = p THEN Open("StartExecution", a) \ {c} ELSE Open("StartExecution", a)
      BY <1>3, OpenMoves
    <3> QED
      BY <3>1
  <2>3. \/ [a \in DeploymentRef |-> Len(executions'[a])] = [a \in DeploymentRef |-> Len(executions[a])]
        \/ [a \in DeploymentRef |-> Len(executions'[a])] = [[a \in DeploymentRef |-> Len(executions[a])] EXCEPT ![p] = @ + 1]
    BY <1>3 DEF NoExecutionBegins, ExecutionBegins
  <2>4. [a \in DeploymentRef |-> DeploymentStatus(a)]' = [a \in DeploymentRef |-> DeploymentStatus(a)]
    BY <1>3
  <2>5. c \in [a \in DeploymentRef |-> Open("StartExecution", a)][p]
    BY <2>1
  <2>6. DeploymentAuthority!Conclude(p)
    BY <2>2, <2>3, <2>4, <2>5 DEF DeploymentAuthority!Conclude, DeploymentStatus
  <2> QED
    BY <2>6 DEF DeploymentAuthority!Next
<1>4. ASSUME NEW p \in DeploymentRef, DeploymentAuthorized(p), Len(executions[p]) < MaxExecutions,
             NEW cause \in ExecutionRef \cup {NoExecution},
             NEW c, c = Starts(p, cause), c \notin judged, judged' = judged \cup {c}, Rest, NoExecutionBegins
      PROVE  DeploymentAuthority!Next
  <2>1. /\ c.type = "StartExecution" /\ c.ref = p /\ c \notin Open("StartExecution", p)
        /\ c \in [type : {"StartExecution"}, ref : DeploymentRef, number : 1..MaxExecutions,
              rollbackOf : ExecutionRef \cup {NoExecution}]
    <3>1. Len(executions[p]) + 1 \in 1..MaxExecutions
      BY <1>0, <1>4, AttemptAssumption
    <3> QED
      BY <1>4, <3>1 DEF Starts, Open
  <2>2. [a \in DeploymentRef |-> Open("StartExecution", a)]'
        = [[a \in DeploymentRef |-> Open("StartExecution", a)] EXCEPT ![p] = @ \cup {c}]
    <3>1. \A a \in DeploymentRef : Open("StartExecution", a)' = IF a = p THEN Open("StartExecution", a) \cup {c} ELSE Open("StartExecution", a)
      BY <1>4, <2>1, OpenMoves
    <3> QED
      BY <3>1
  <2>3. [a \in DeploymentRef |-> Len(executions'[a])] = [a \in DeploymentRef |-> Len(executions[a])]
    BY <1>4 DEF NoExecutionBegins
  <2>4. [a \in DeploymentRef |-> DeploymentStatus(a)]' = [a \in DeploymentRef |-> DeploymentStatus(a)]
    BY <1>4
  <2>5. [a \in DeploymentRef |-> DeploymentStatus(a)][p] = "usable"
    BY <1>4, DeploymentStatuses
  <2>6. c \notin [a \in DeploymentRef |-> Open("StartExecution", a)][p]
    BY <2>1
  <2>7. DeploymentAuthority!Accept(p)
    BY <2>1, <2>2, <2>3, <2>4, <2>5, <2>6 DEF DeploymentAuthority!Accept, DeploymentStatus
  <2> QED
    BY <2>7 DEF DeploymentAuthority!Next
<1>5. (UNCHANGED <<chainVars, resultVars, deployments>>) => Rest
  BY DeploymentStatusRests
<1>6. UNCHANGED deliveryVars => Rest /\ NoExecutionBegins
  BY <1>5 DEF deliveryVars, deployedVars, NoExecutionBegins
<1>7. CASE ([DeliveryNext]_deliveryVars) /\ UNCHANGED judged
  <2>1. Same
    BY <1>7, OpenMoves
  <2>2. \/ NoExecutionBegins
        \/ \E p \in DeploymentRef : DeploymentAuthorized(p) /\ (UNCHANGED <<chainVars, resultVars, deployments>>) /\ ExecutionBegins(p)
    BY <1>0, <1>7, AttemptsCounted
  <2> HIDE DEF Same, Rest
  <2> QED
    BY <1>1, <1>2, <1>5, <2>1, <2>2
<1>8. CASE Judge
  <2>1. PICK c \in Acceptable : c \notin judged /\ judged' = judged \cup {c}
    BY <1>8 DEF Judge
  <2>2. Rest /\ NoExecutionBegins
    BY <1>6, <1>8 DEF Judge
  <2>3. CASE c.type = "StartExecution"
    <3>1. PICK p \in DeploymentRef, cause \in ExecutionRef \cup {NoExecution} : DeploymentAuthorized(p) /\ Len(executions[p]) < MaxExecutions /\ c = Starts(p, cause)
      BY <2>1, <2>3, AcceptedAttempt
    <3> HIDE DEF Same, Rest
    <3> QED
      BY <1>4, <2>1, <2>2, <3>1
  <2>4. CASE c.type # "StartExecution"
    <3>1. Same
      BY <2>1, <2>4, OpenMoves
    <3> QED
      BY <1>1, <2>2, <3>1
  <2> QED
    BY <2>3, <2>4
<1>9. ASSUME NEW c \in judged, Commit(c) \/ Abort(c)
      PROVE  DeploymentAuthority!Next
  <2>1. judged' = judged \ {c} /\ StillHolds(c)
    BY <1>9 DEF Commit, Abort, RaceSafe
  <2>2. \/ Writes(c)
        \/ Rest /\ NoExecutionBegins
    BY <1>6, <1>9 DEF Commit, Abort
  <2>3. CASE c.type = "StartExecution"
    <3>1. c.ref \in DeploymentRef
      BY <2>1, <2>3 DEF StillHolds, StartHolds
    <3>2. Rest /\ (NoExecutionBegins \/ ExecutionBegins(c.ref))
      BY <1>0, <1>5, <2>1, <2>2, <2>3, CommitCounted
    <3> HIDE DEF Same, Rest
    <3> QED
      BY <1>3, <2>1, <2>3, <3>1, <3>2
  <2>4. CASE c.type # "StartExecution"
    <3>1. Same
      BY <2>1, <2>4, OpenMoves
    <3>2. NoExecutionBegins
      BY <1>0, <2>1, <2>2, <2>4, CommitCounted
    <3> QED
      BY <1>1, <3>1, <3>2
  <2> QED
    BY <2>3, <2>4
<1> QED
  BY <1>7, <1>8, <1>9 DEF RaceNext, raceVars

\* The chain implements the abstract authority twice: no build attempt is accepted
\* before its package is ready or after it stopped being so, no deployment attempt
\* outside the life of its authorization, each begins at most once and by a start
\* that was accepted, and no authority revives.
THEOREM AttemptsRefine == RaceSpec => AttemptsUseAuthority
<1>1. RaceInit => PackageAuthority!Init /\ DeploymentAuthority!Init
  <2> SUFFICES ASSUME RaceInit PROVE PackageAuthority!Init /\ DeploymentAuthority!Init
    OBVIOUS
  <2>1. DOMAIN <<>> = {} /\ Len(<<>>) = 0
    OBVIOUS
  <2>2. ASSUME NEW p \in PackageRef
        PROVE  /\ ~PackageReady(p) /\ ~InState(packages, p, {"RELEASED", "SUPERSEDED"})
               /\ Open("StartBuild", p) = {} /\ Len(builds[p]) = 0
    BY <2>1 DEF RaceInit, DeliveryInit, ChainInit, PackageReady, InState, Stored, PackageRef, Ref, Open
  <2>3. ASSUME NEW d \in DeploymentRef
        PROVE  /\ ~DeploymentAuthorized(d) /\ ~InState(deployments, d, Activated)
               /\ Open("StartExecution", d) = {} /\ Len(executions[d]) = 0
    BY <2>1 DEF RaceInit, DeliveryInit, DeploymentAuthorized, InState, Stored, DeploymentRef, Open
  <2>4. PackageAuthority!Init
    BY <2>2 DEF PackageAuthority!Init, AuthorityStatus
  <2>5. DeploymentAuthority!Init
    BY <2>3 DEF DeploymentAuthority!Init, AuthorityStatus
  <2> QED
    BY <2>4, <2>5
<1>2. RaceSafe /\ [RaceNext]_raceVars => [PackageAuthority!Next]_(PackageAuthority!vars)
  BY PackageRefines
<1>3. RaceSafe /\ [RaceNext]_raceVars => [DeploymentAuthority!Next]_(DeploymentAuthority!vars)
  BY DeploymentRefines
<1> QED
  BY <1>1, <1>2, <1>3, RaceInvariant, PTL
     DEF RaceSpec, AttemptsUseAuthority, PackageAuthority!Spec, DeploymentAuthority!Spec
=============================================================================
