----------------------------- MODULE DeliveryChain -----------------------------
(***************************************************************************)
(* The delivery half of the Phase 5D authority chain: build attempts of a  *)
(* released package, QA results, client acceptances, the deployment        *)
(* authorization made from them, deployment attempts and verifications     *)
(* (src/avuhz_runtime/phase5d_build_execution.py to                        *)
(* phase5d_deployment_verification.py), on top of ImplementationChain.     *)
(*                                                                         *)
(* Results are numbered by attempt per package version, executions by      *)
(* attempt per deployment authorization version: create refuses a number   *)
(* that is taken and a predecessor is demanded, so each is a sequence.     *)
(*                                                                         *)
(* A command is what its handler demands of the records it reads (May...,  *)
(* ...Ready, Prerequisites) and what it writes (Add..., End..., Make...).  *)
(* Here the two are one step, which is what happens when nothing commits   *)
(* between them; AuthorityRace lets anything commit between them.          *)
(***************************************************************************)
EXTENDS ImplementationChain, FiniteSets

CONSTANTS
    Deployments,           \* deployment_authorization_id
    MaxDeploymentVersion,  \* bound: versions of one deployment authorization
    MaxBuilds,             \* bounds: attempts of each kind of one subject
    MaxQA,
    MaxDecisions,
    MaxExecutions,
    MaxVerifications,
    MaxVerified,           \* bound: attempts that are verified
    NoExecution            \* no rollback_of reference

ASSUME AttemptAssumption ==
    /\ MaxDeploymentVersion \in Nat
    /\ MaxBuilds \in Nat /\ MaxQA \in Nat /\ MaxDecisions \in Nat
    /\ MaxExecutions \in Nat /\ MaxVerifications \in Nat /\ MaxVerified \in Nat

VARIABLES
    builds,          \* build attempts of each package version
    qa,              \* QA results of each package version
    acceptances,     \* client decisions on each package version
    deployments,     \* the versions of each deployment authorization
    executions,      \* deployment attempts under each version of one
    verifications    \* verifications of each deployment attempt

resultVars   == <<builds, qa, acceptances>>
deployedVars == <<executions, verifications>>
deliveryVars == <<chainVars, resultVars, deployments, deployedVars>>

DeploymentRef == [id : Deployments, version : 1..MaxDeploymentVersion]
ExecutionRef  == [authority : DeploymentRef, attempt : 1..MaxExecutions]

ASSUME NoExecutionAssumption == NoExecution \notin ExecutionRef

DeliveryInit ==
    /\ ChainInit
    /\ builds = [p \in PackageRef |-> <<>>]
    /\ qa = [p \in PackageRef |-> <<>>]
    /\ acceptances = [p \in PackageRef |-> <<>>]
    /\ deployments = [d \in Deployments |-> <<>>]
    /\ executions = [d \in DeploymentRef |-> <<>>]
    /\ verifications = [e \in ExecutionRef |-> <<>>]

Last(seq) == seq[Len(seq)]

Added(store, ref, record) == [store EXCEPT ![ref] = Append(@, record)]

-----------------------------------------------------------------------------
(* Builds.                                                                 *)

\* The first attempt, or the one after a terminal predecessor.
NextAttempt(attempts) == attempts # <<>> => Last(attempts) # "IN_PROGRESS"

\* Mutant: the state of the package is all that is looked at.
MayStartReleased(p) == InState(packages, p, {"RELEASED"})

\* _exact_sources
MayStartBuild(p) == PackageReady(p)

\* create: the number of the attempt is still free.
AddBuild(p) ==
    /\ Len(builds[p]) < MaxBuilds
    /\ NextAttempt(builds[p])
    /\ builds' = Added(builds, p, "IN_PROGRESS")
    /\ UNCHANGED <<chainVars, qa, acceptances, deployments, deployedVars>>

StartBuild(p) == MayStartBuild(p) /\ AddBuild(p)

\* Mutant: a completion is accepted whatever became of the package.
MayCompleteAnyBuild(p) == builds[p] # <<>> /\ Last(builds[p]) = "IN_PROGRESS"

\* The exact sources are checked again: a completion is refused once the
\* package is no longer ready.
MayCompleteBuild(p) ==
    /\ builds[p] # <<>>
    /\ Last(builds[p]) = "IN_PROGRESS"
    /\ PackageReady(p)

\* complete: the attempt's own row is still in progress.
EndBuild(p, n, status) ==
    /\ n \in DOMAIN builds[p]
    /\ builds[p][n] = "IN_PROGRESS"
    /\ builds' = [builds EXCEPT ![p][n] = status]
    /\ UNCHANGED <<chainVars, qa, acceptances, deployments, deployedVars>>

CompleteBuild(p, status) == MayCompleteBuild(p) /\ EndBuild(p, Len(builds[p]), status)

-----------------------------------------------------------------------------
(* QA results and client decisions, each naming what it is about.          *)

\* Attempt n succeeded and there is no later one.
BuildCurrent(p, n) ==
    /\ n \in DOMAIN builds[p]
    /\ builds[p][n] = "SUCCEEDED"
    /\ n = Len(builds[p])

QASourcesReady(p, n) == BuildCurrent(p, n) /\ PackageReady(p)

AddQA(p, n, status) ==
    /\ Len(qa[p]) < MaxQA
    /\ qa' = Added(qa, p, [build |-> n, status |-> status])
    /\ UNCHANGED <<chainVars, builds, acceptances, deployments, deployedVars>>

RecordQA(p, n, status) == QASourcesReady(p, n) /\ AddQA(p, n, status)

\* QA result m passed, is the newest, and is about a build that still counts.
QACurrent(p, m) ==
    /\ m \in DOMAIN qa[p]
    /\ m = Len(qa[p])
    /\ qa[p][m].status = "PASSED"
    /\ QASourcesReady(p, qa[p][m].build)

AddAcceptance(p, m, decision) ==
    /\ Len(acceptances[p]) < MaxDecisions
    /\ acceptances' = Added(acceptances, p, [qa |-> m, decision |-> decision])
    /\ UNCHANGED <<chainVars, builds, qa, deployments, deployedVars>>

RecordAcceptance(p, m, decision) == QACurrent(p, m) /\ AddAcceptance(p, m, decision)

\* Mutant: the newest QA result need not be the one that was accepted.
AcceptedEarlier(p, decision) ==
    /\ decision = Len(acceptances[p])
    /\ decision \in DOMAIN acceptances[p]
    /\ acceptances[p][decision].decision = "ACCEPTED"
    /\ QACurrent(p, Len(qa[p]))

\* Mutant: a decision was made, whichever it was.
Decided(p, decision) ==
    /\ decision \in DOMAIN acceptances[p]
    /\ decision = Len(acceptances[p])
    /\ QACurrent(p, acceptances[p][decision].qa)

\* _exact_prerequisites: the newest decision accepts a QA result that counts.
Prerequisites(p, decision) ==
    /\ decision \in DOMAIN acceptances[p]
    /\ decision = Len(acceptances[p])
    /\ acceptances[p][decision].decision = "ACCEPTED"
    /\ QACurrent(p, acceptances[p][decision].qa)

-----------------------------------------------------------------------------
(* Deployment authorizations.                                              *)

DeploymentAuthorized(ref) ==
    /\ InState(deployments, ref, {"ACTIVE"})
    /\ Version(deployments, ref).window = "open"
    /\ Prerequisites(Version(deployments, ref).package, Version(deployments, ref).acceptance)
    /\ ApprovedByBoth("deployment", ref)

NewDeployment(p, decision, window) ==
    [state |-> "PROPOSED", package |-> p, acceptance |-> decision, window |-> window]

\* create_initial: the identity has no version yet.
AddInitial(d, record) ==
    /\ deployments[d] = <<>>
    /\ MaxDeploymentVersion > 0
    /\ deployments' = Initial(deployments, d, record)
    /\ UNCHANGED <<chainVars, resultVars, deployedVars>>

ProposeDeployment(d, p, decision, window) ==
    Prerequisites(p, decision) /\ AddInitial(d, NewDeployment(p, decision, window))

\* The newest version can be replaced.
MayRevise(d) ==
    /\ deployments[d] # <<>>
    /\ Len(deployments[d]) < MaxDeploymentVersion
    /\ Latest(deployments, d).state \in {"ACTIVE", "REVOKED"}

\* revise: an active version is superseded; a revoked one stays revoked.
AddRevision(d, record) ==
    /\ MayRevise(d)
    /\ deployments' = IF Latest(deployments, d).state = "ACTIVE"
                         THEN Revised(deployments, d, record) ELSE Added(deployments, d, record)
    /\ UNCHANGED <<chainVars, resultVars, deployedVars>>

ReviseDeployment(d, p, decision, window) ==
    Prerequisites(p, decision) /\ AddRevision(d, NewDeployment(p, decision, window))

\* record_phase5d: no active approval of that role yet.
AddDeploymentApproval(ref, role) ==
    /\ Approve("deployment", ref, role)
    /\ UNCHANGED <<handoffs, briefs, authorizations, packages, resultVars, deployments, deployedVars>>

RecordDeploymentApproval(ref, role) ==
    InState(deployments, ref, {"PROPOSED"}) /\ AddDeploymentApproval(ref, role)

\* The proposal is judged again, with its window and its approvals.
MayActivateDeployment(ref) ==
    /\ InState(deployments, ref, {"PROPOSED"})
    /\ Prerequisites(Version(deployments, ref).package, Version(deployments, ref).acceptance)
    /\ Version(deployments, ref).window = "open"
    /\ ApprovedByBoth("deployment", ref)

\* activate: the version is still proposed.
MakeActive(ref) ==
    /\ InState(deployments, ref, {"PROPOSED"})
    /\ deployments' = SetState(deployments, ref, "ACTIVE")
    /\ UNCHANGED <<chainVars, resultVars, deployedVars>>

ActivateDeployment(ref) == MayActivateDeployment(ref) /\ MakeActive(ref)

RevokeDeployment(ref) ==
    /\ InState(deployments, ref, {"PROPOSED", "ACTIVE"})
    /\ deployments' = SetState(deployments, ref, "REVOKED")
    /\ UNCHANGED <<chainVars, resultVars, deployedVars>>

\* effective_at, then expires_at is reached.
DeploymentClock(ref) ==
    /\ Stored(deployments, ref)
    /\ \E step \in {<<"early", "open">>, <<"open", "over">>} :
         /\ Version(deployments, ref).window = step[1]
         /\ deployments' = [deployments EXCEPT ![ref.id][ref.version].window = step[2]]
    /\ UNCHANGED <<chainVars, resultVars, deployedVars>>

-----------------------------------------------------------------------------
(* Deployment attempts and verifications.                                  *)

Attempted(e) == e.attempt \in DOMAIN executions[e.authority]

StatusOf(e) == executions[e.authority][e.attempt].status

\* What a rollback corrects: a completed attempt that applied something,
\* under any authorization.
CanBeRolledBack(e) == Attempted(e) /\ StatusOf(e) \in {"SUCCEEDED", "PARTIAL"}

\* _exact_authority
MayStart(ref) == DeploymentAuthorized(ref)

\* create: the number of the attempt is still free.
AddExecution(ref, rollbackOf) ==
    /\ Len(executions[ref]) < MaxExecutions
    /\ executions[ref] # <<>> => Last(executions[ref]).status # "IN_PROGRESS"
    /\ executions' = Added(executions, ref, [status |-> "IN_PROGRESS", rollbackOf |-> rollbackOf])
    /\ UNCHANGED <<chainVars, resultVars, deployments, verifications>>

StartExecution(ref, rollbackOf) ==
    /\ MayStart(ref)
    /\ rollbackOf # NoExecution => CanBeRolledBack(rollbackOf)
    /\ AddExecution(ref, rollbackOf)

\* _terminal_truth, from the outcomes of the targets.
TerminalTruth(outcomes) ==
    CASE outcomes \subseteq {"APPLIED", "UNCHANGED"} -> "SUCCEEDED"
      [] "APPLIED" \in outcomes /\ outcomes \cap {"FAILED", "BLOCKED"} # {} -> "PARTIAL"
      [] "APPLIED" \notin outcomes /\ "FAILED" \in outcomes -> "FAILED"
      [] OTHER -> "BLOCKED"

\* How an attempt can end, by what happened to its targets.
Endings == {TerminalTruth(outcomes) :
              outcomes \in SUBSET {"APPLIED", "UNCHANGED", "FAILED", "BLOCKED"} \ {{}}}

\* What happened is recorded whatever has become of the authority since.
CompleteExecution(ref, status) ==
    /\ executions[ref] # <<>>
    /\ Last(executions[ref]).status = "IN_PROGRESS"
    /\ executions' = [executions EXCEPT ![ref][Len(executions[ref])].status = status]
    /\ UNCHANGED <<chainVars, resultVars, deployments, verifications>>

\* derive_verification_status, from the results of the targets.
DerivedVerification(results) ==
    CASE results = {"MATCHED"} -> "VERIFIED"
      [] "MISMATCHED" \in results -> "FAILED"
      [] results = {"BLOCKED"} -> "BLOCKED"
      [] OTHER -> "PARTIAL"

\* Mutant: a blocked attempt is verified like any other.
Ended(e) == Attempted(e) /\ StatusOf(e) # "IN_PROGRESS"

\* A terminal attempt that was not blocked.
Verifiable(e) == Attempted(e) /\ StatusOf(e) \in {"SUCCEEDED", "PARTIAL", "FAILED"}

\* What a verification can find, by what it found at the targets.
Findings == {DerivedVerification(results) :
               results \in SUBSET {"MATCHED", "MISMATCHED", "BLOCKED"} \ {{}}}

RecordVerification(e, status) ==
    /\ Verifiable(e)
    /\ Len(verifications[e]) < MaxVerifications
    /\ Cardinality({f \in ExecutionRef : verifications[f] # <<>>} \cup {e}) <= MaxVerified
    /\ verifications' = Added(verifications, e, status)
    /\ UNCHANGED <<chainVars, resultVars, deployments, executions>>

-----------------------------------------------------------------------------
(* What the read services report of a result.  They look at the state of   *)
(* the package only, and not at what the package was made from.            *)

BuildSucceeded(p, n) == n \in DOMAIN builds[p] /\ builds[p][n] = "SUCCEEDED"

\* qa_passed: of a build that no later one superseded, the newest result.
QAPassed(p, m) ==
    /\ m \in DOMAIN qa[p]
    /\ qa[p][m].status = "PASSED"
    /\ InState(packages, p, {"RELEASED"})
    /\ BuildSucceeded(p, qa[p][m].build)
    /\ qa[p][m].build = Len(builds[p])
    /\ m = Len(qa[p])

\* client_accepted: the newest decision, on sources that are still exact and
\* not superseded.
ClientAccepted(p, decision) ==
    /\ decision \in DOMAIN acceptances[p]
    /\ acceptances[p][decision].decision = "ACCEPTED"
    /\ LET m == acceptances[p][decision].qa IN
         /\ InState(packages, p, {"RELEASED"})
         /\ BuildSucceeded(p, qa[p][m].build)
         /\ qa[p][m].status = "PASSED"
         /\ qa[p][m].build = Len(builds[p])
         /\ m = Len(qa[p])
    /\ decision = Len(acceptances[p])

-----------------------------------------------------------------------------
UpstreamNext == ChainNext /\ UNCHANGED <<resultVars, deployments, deployedVars>>

ResultNext ==
    \E p \in PackageRef :
        \/ StartBuild(p)
        \/ \E status \in {"SUCCEEDED", "FAILED"} : CompleteBuild(p, status)
        \/ \E n \in 1..MaxBuilds, status \in {"PASSED", "FAILED", "BLOCKED"} : RecordQA(p, n, status)
        \/ \E m \in 1..MaxQA, decision \in {"ACCEPTED", "REJECTED"} : RecordAcceptance(p, m, decision)

DeploymentNext ==
    \/ \E d \in Deployments, p \in PackageRef, decision \in 1..MaxDecisions, window \in Windows :
         ProposeDeployment(d, p, decision, window) \/ ReviseDeployment(d, p, decision, window)
    \/ \E ref \in DeploymentRef :
         \/ \E role \in Roles : RecordDeploymentApproval(ref, role)
         \/ ActivateDeployment(ref)
         \/ RevokeDeployment(ref)
         \/ DeploymentClock(ref)

ExecutionNext ==
    \/ \E ref \in DeploymentRef :
         \/ \E rollbackOf \in ExecutionRef \cup {NoExecution} : StartExecution(ref, rollbackOf)
         \/ \E status \in Endings : CompleteExecution(ref, status)
    \/ \E e \in ExecutionRef, status \in Findings : RecordVerification(e, status)

DeliveryNext == UpstreamNext \/ ResultNext \/ DeploymentNext \/ ExecutionNext

-----------------------------------------------------------------------------
(* Properties of the records, whatever the order in which commands commit. *)

\* Whatever was deployed descends, link by link, from what was decided: the
\* attempt from an activated deployment authorization with both approvals,
\* it from an acceptance of a passing QA result of a successful build of a
\* package that was released, and that from the chain above it.
DeploymentDescends ==
    \A ref \in DeploymentRef : Stored(deployments, ref) =>
        LET record == Version(deployments, ref)
            p      == record.package
        IN  /\ InState(packages, p, {"RELEASED", "SUPERSEDED"})
            /\ record.acceptance \in DOMAIN acceptances[p]
            /\ LET decided == acceptances[p][record.acceptance]
               IN  /\ decided.decision = "ACCEPTED"
                   /\ decided.qa \in DOMAIN qa[p]
                   /\ qa[p][decided.qa].status = "PASSED"
                   /\ qa[p][decided.qa].build \in DOMAIN builds[p]
                   /\ builds[p][qa[p][decided.qa].build] = "SUCCEEDED"
            /\ executions[ref] # <<>> =>
                 /\ record.state \in Activated
                 /\ SignedByAll("deployment", ref)

\* Results come in the order of what they are about: an older build never
\* gets a QA result after a newer one did, and the same for decisions.
ResultsInOrder ==
    \A p \in PackageRef :
        /\ \A m, n \in DOMAIN qa[p] : m < n => qa[p][m].build <= qa[p][n].build
        /\ \A m, n \in DOMAIN acceptances[p] : m < n => acceptances[p][m].qa <= acceptances[p][n].qa

\* Only what an attempt may have changed is rolled back or verified, and the
\* attempt that is corrected has ended first.
CorrectionsHaveCause ==
    /\ \A ref \in DeploymentRef : \A n \in DOMAIN executions[ref] :
         LET cause == executions[ref][n].rollbackOf
         IN  cause # NoExecution => /\ Attempted(cause) /\ StatusOf(cause) \in {"SUCCEEDED", "PARTIAL"}
                                    /\ cause # [authority |-> ref, attempt |-> n]
    /\ \A e \in ExecutionRef : verifications[e] # <<>> => Attempted(e) /\ StatusOf(e) \notin {"IN_PROGRESS", "BLOCKED"}

RestsOnReports(ref) ==
    DeploymentAuthorized(ref) =>
        LET record == Version(deployments, ref) IN
        /\ ClientAccepted(record.package, record.acceptance)
        /\ QAPassed(record.package, acceptances[record.package][record.acceptance].qa)

\* A deployment authorization that a newer build, QA result or decision, an
\* upstream change, a revocation or the clock made unusable stays unusable,
\* and a QA result or decision that is reported as superseded, or its sources
\* as withdrawn, is never reported to count again.  A usable authorization
\* rests on a decision and a QA result that are reported to count.
AuthorityLostForGood ==
    [][/\ \A ref \in DeploymentRef :
            /\ InState(deployments, ref, Activated) /\ ~DeploymentAuthorized(ref)
               => ~DeploymentAuthorized(ref)'
            /\ RestsOnReports(ref)'
       /\ \A p \in PackageRef :
            /\ \A m \in DOMAIN qa[p] : ~QAPassed(p, m) => ~QAPassed(p, m)'
            /\ \A n \in DOMAIN acceptances[p] : ~ClientAccepted(p, n) => ~ClientAccepted(p, n)'
      ]_deliveryVars
=============================================================================
