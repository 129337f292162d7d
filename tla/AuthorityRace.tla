----------------------------- MODULE AuthorityRace -----------------------------
(***************************************************************************)
(* The delivery half of the chain on PostgreSQL, where a command is judged *)
(* on what is committed when its transaction reads (READ COMMITTED, plain  *)
(* selects) and takes effect when the transaction commits.  At the commit  *)
(* only its own row is checked again, by the unique key of the record it   *)
(* inserts or the state and record_version it updates                      *)
(* (postgres_phase5d_*.py): the records it relied on may have changed.     *)
(*                                                                         *)
(* Every delivery command that relies on a record it does not write can be *)
(* slow, but the recording of a verification, which reads nothing that can *)
(* still change.  Quick commands, and those that look at their own row     *)
(* only, are the steps of DeliveryChain.                                   *)
(***************************************************************************)
EXTENDS DeliveryChain

CONSTANT MaxOpen    \* bound: transactions that were judged and did not commit yet

ASSUME OpenAssumption == MaxOpen \in Nat

VARIABLES
    judged,       \* open transactions whose command was accepted by its handler
    unauthorized  \* history: deployment attempts that began without authority

raceVars == <<deliveryVars, judged, unauthorized>>

RaceInit == DeliveryInit /\ judged = {} /\ unauthorized = {}

-----------------------------------------------------------------------------
(* A command, with the number its own record has or will have.             *)

Builds(p) == [type |-> "StartBuild", ref |-> p, number |-> Len(builds[p]) + 1]

Completes(p, status) ==
    [type |-> "CompleteBuild", ref |-> p, number |-> Len(builds[p]), result |-> status]

Tests(p, n, status) ==
    [type |-> "RecordQA", ref |-> p, about |-> n, result |-> status, number |-> Len(qa[p]) + 1]

Decides(p, m, decision) ==
    [type |-> "RecordAcceptance", ref |-> p, about |-> m, result |-> decision,
     number |-> Len(acceptances[p]) + 1]

Proposes(d, p, decision) == [type |-> "Propose", ref |-> d, package |-> p, about |-> decision]

\* The row it replaces is compared by its state and its record_version.
Revises(d, p, decision) ==
    [type |-> "Revise", ref |-> d, package |-> p, about |-> decision,
     from |-> Latest(deployments, d).state, number |-> Len(deployments[d]) + 1]

Approves(ref, role) == [type |-> "Approve", ref |-> ref, role |-> role]

Activates(ref) == [type |-> "Activate", ref |-> ref]

Starts(ref, rollbackOf) ==
    [type |-> "StartExecution", ref |-> ref, number |-> Len(executions[ref]) + 1,
     rollbackOf |-> rollbackOf]

-----------------------------------------------------------------------------
(* What the handlers accept on what is committed now.                      *)

AcceptableBuilds ==
    {Builds(p) : p \in {q \in PackageRef :
        MayStartBuild(q) /\ NextAttempt(builds[q]) /\ Len(builds[q]) < MaxBuilds}}

AcceptableCompletions ==
    UNION {{Completes(p, status) : status \in {"SUCCEEDED", "FAILED"}} :
           p \in {q \in PackageRef : MayCompleteBuild(q)}}

AcceptableTests(p) ==
    {Tests(p, n, status) : n \in {k \in 1..MaxBuilds : QASourcesReady(p, k)},
                           status \in {"PASSED", "FAILED", "BLOCKED"}}

AcceptableDecisions(p) ==
    {Decides(p, m, decision) : m \in {k \in 1..MaxQA : QACurrent(p, k)}, decision \in {"ACCEPTED", "REJECTED"}}

AcceptableProposals(p) ==
    UNION {{Proposes(d, p, decision) : d \in {e \in Deployments : deployments[e] = <<>>}}
           \cup {Revises(d, p, decision) : d \in {e \in Deployments : MayRevise(e)}} :
           decision \in {k \in 1..MaxDecisions : Prerequisites(p, k)}}

AcceptableActivations ==
    {Approves(ref, role) : ref \in {r \in DeploymentRef : InState(deployments, r, {"PROPOSED"})}, role \in Roles}
    \cup {Activates(ref) : ref \in {r \in DeploymentRef : MayActivateDeployment(r)}}

\* No attempt under this authorization is in progress, and one more fits.
MayAttempt(ref) ==
    /\ executions[ref] # <<>> => Last(executions[ref]).status # "IN_PROGRESS"
    /\ Len(executions[ref]) < MaxExecutions

AcceptableStarts ==
    {Starts(ref, rollbackOf) : ref \in {r \in DeploymentRef : MayStart(r) /\ MayAttempt(r)},
                               rollbackOf \in {e \in ExecutionRef : CanBeRolledBack(e)} \cup {NoExecution}}

Acceptable ==
    AcceptableBuilds \cup AcceptableCompletions \cup AcceptableActivations \cup AcceptableStarts
    \cup UNION {AcceptableTests(p) \cup AcceptableDecisions(p) \cup AcceptableProposals(p) : p \in PackageRef}

Judge ==
    /\ Cardinality(judged) < MaxOpen
    /\ \E command \in Acceptable \ judged : judged' = judged \cup {command}
    /\ UNCHANGED <<deliveryVars, unauthorized>>

-----------------------------------------------------------------------------
(* What is checked again, and written, at the commit.                      *)

\* Mutant: rows are inserted without a unique number.
AnyNumber(number, attempts) == TRUE

\* The unique key: nobody else took the number.
StillNext(number, attempts) == number = Len(attempts) + 1

\* The window of a new authorization is where the clock stands by now.
WritesDeployment(command) ==
    \E window \in Windows :
        LET record == NewDeployment(command.package, command.about, window) IN
        \/ /\ command.type = "Propose"
           /\ AddInitial(command.ref, record)
        \/ /\ command.type = "Revise"
           /\ StillNext(command.number, deployments[command.ref])
           /\ AddRevision(command.ref, record)
           /\ Latest(deployments, command.ref).state = command.from

Writes(command) ==
    \/ /\ command.type = "StartBuild"
       /\ StillNext(command.number, builds[command.ref])
       /\ AddBuild(command.ref)
    \/ /\ command.type = "CompleteBuild"
       /\ EndBuild(command.ref, command.number, command.result)
    \/ /\ command.type = "RecordQA"
       /\ StillNext(command.number, qa[command.ref])
       /\ AddQA(command.ref, command.about, command.result)
    \/ /\ command.type = "RecordAcceptance"
       /\ StillNext(command.number, acceptances[command.ref])
       /\ AddAcceptance(command.ref, command.about, command.result)
    \/ WritesDeployment(command)
    \/ command.type = "Approve" /\ AddDeploymentApproval(command.ref, command.role)
    \/ command.type = "Activate" /\ MakeActive(command.ref)
    \/ /\ command.type = "StartExecution"
       /\ StillNext(command.number, executions[command.ref])
       /\ AddExecution(command.ref, command.rollbackOf)

Commit(command) ==
    /\ command \in judged
    /\ judged' = judged \ {command}
    /\ Writes(command)
    /\ unauthorized' = unauthorized \cup
         {ref \in {command.ref} : command.type = "StartExecution" /\ ~MayStart(command.ref)}

\* A conflict on its own row, or any failure: nothing happened.
Abort(command) ==
    /\ command \in judged
    /\ judged' = judged \ {command}
    /\ UNCHANGED <<deliveryVars, unauthorized>>

RaceNext ==
    \/ DeliveryNext /\ UNCHANGED <<judged, unauthorized>>
    \/ Judge
    \/ \E command \in judged : Commit(command) \/ Abort(command)

RaceSpec == RaceInit /\ [][RaceNext]_raceVars

-----------------------------------------------------------------------------
(* Properties, with those of the records in DeliveryChain.                 *)

\* "An execution may start only while that exact DeploymentAuthorization is
\* ACTIVE, within its validity window" with its prerequisites.
StartsOnlyWithAuthority == unauthorized = {}

\* The open commands of one type on one record.
Open(type, ref) == {command \in judged : command.type = type /\ command.ref = ref}

\* A build in progress whose package is not ready any more never has a ready
\* package again; no command about the builds of that package is accepted any
\* more, and nothing ends or follows the build but a completion that had been
\* accepted before.  Without one in hand it stays in progress for ever.
StrandedBuildStays ==
    [][\A p \in PackageRef :
        builds[p] # <<>> /\ Last(builds[p]) = "IN_PROGRESS" /\ ~PackageReady(p)
        => /\ ~PackageReady(p)'
           /\ Open("StartBuild", p)' \cup Open("CompleteBuild", p)'
                \subseteq Open("StartBuild", p) \cup Open("CompleteBuild", p)
           /\ builds'[p] # builds[p] =>
                \E command \in Open("CompleteBuild", p) :
                    /\ command \notin judged'
                    /\ builds'[p] = [builds[p] EXCEPT ![Len(builds[p])] = command.result]
      ]_raceVars

\* Released packages are authorities for build attempts, and active
\* deployment authorizations for deployment attempts.
AuthorityStatus(usable, past) == IF usable THEN "usable" ELSE IF past THEN "dead" ELSE "none"

PackageAuthority == INSTANCE RevocableAuthority WITH
    Authorities <- PackageRef,
    Operations <- [type : {"StartBuild"}, ref : PackageRef, number : 1..MaxBuilds],
    status <- [p \in PackageRef |->
        AuthorityStatus(PackageReady(p), InState(packages, p, {"RELEASED", "SUPERSEDED"}))],
    accepted <- [p \in PackageRef |-> Open("StartBuild", p)],
    uses <- [p \in PackageRef |-> Len(builds[p])]

DeploymentAuthority == INSTANCE RevocableAuthority WITH
    Authorities <- DeploymentRef,
    Operations <- [type : {"StartExecution"}, ref : DeploymentRef, number : 1..MaxExecutions,
                   rollbackOf : ExecutionRef \cup {NoExecution}],
    status <- [d \in DeploymentRef |->
        AuthorityStatus(DeploymentAuthorized(d), InState(deployments, d, Activated))],
    accepted <- [d \in DeploymentRef |-> Open("StartExecution", d)],
    uses <- [d \in DeploymentRef |-> Len(executions[d])]

\* Both implement the abstract authority: no start of an attempt is accepted
\* before its authority is usable or after it stopped being so, no attempt
\* begins but by an accepted start, each start begins at most one, and no
\* authority becomes usable again.
AttemptsUseAuthority == PackageAuthority!Spec /\ DeploymentAuthority!Spec
=============================================================================
