------------------------- MODULE InfraRecoveryAction -------------------------
(***************************************************************************)
(* The recovery action (local_infrastructure_recovery_action.py) and the   *)
(* whole authority loop: execution, evidence, reconciliation and recovery  *)
(* over one SQLite file.  After a HOLD decision a separately authorised    *)
(* action may perform the write the original never dispatched.  Its two    *)
(* transactions race the original executor, which may be alive and slow.   *)
(***************************************************************************)
EXTENDS InfraRecovery

CONSTANT Recoverers  \* processes that may call execute() of the action

VARIABLES
    registration,   \* ..._registrations: the fresh case the action is bound to
    reservations,   \* ..._reservations: actions irrevocably consumed
    events,         \* ..._events: the append-only event log of each action
    revocations,    \* ..._revocations
    verdict,        \* ..._verifications: VERIFIED or UNVERIFIED, once
    recoverer,      \* where each process is between its transactions
    recoveryWrites  \* history: recovery transactions that wrote the resource

actionVars == <<registration, reservations, events, revocations, verdict,
                recoverer, recoveryWrites>>
vars == <<execVars, evidenceVars, recoveryVars, actionVars>>

Resting == [step |-> "idle", exec |-> NoExec]

ActionTypeOK ==
    /\ registration \in [Execs -> Cases \cup {NoCase}]
    /\ reservations \subseteq Execs
    /\ events \in [Execs -> SUBSET {"PROPOSED", "AUTHORIZED", "RESERVED", "ATTEMPTED", "UNCERTAIN"}]
    /\ revocations \subseteq Execs
    /\ verdict \in [Execs -> {"none", "VERIFIED", "UNVERIFIED"}]
    /\ recoverer \in [Recoverers -> [step : {"idle", "reserved", "failed"},
                                     exec : Execs \cup {NoExec}]]
    /\ \A r \in Recoverers : recoverer[r].step # "idle" => recoverer[r].exec \in Execs
    /\ recoveryWrites \in [Execs -> Nat]

\* Every variable of the loop holds values of its type.
TypeOK == ExecTypeOK /\ EvidenceTypeOK /\ RecoveryTypeOK /\ ActionTypeOK

ActionInit ==
    /\ registration = [e \in Execs |-> NoCase]
    /\ reservations = {}
    /\ events = [e \in Execs |-> {}]
    /\ revocations = {}
    /\ verdict = [e \in Execs |-> "none"]
    /\ recoverer = [r \in Recoverers |-> Resting]
    /\ recoveryWrites = [e \in Execs |-> 0]

-----------------------------------------------------------------------------
\* The reconciliation evaluated again, on the case it was decided on.
StillHold(e) ==
    /\ decision[e] = "HOLD"
    /\ RecoveryEvidence(e, decidedOn[e])
    /\ Disposition(e, decidedOn[e]) = "HOLD"

\* Mutant: any observed case of the execution will do, even the decided one.
ActionSourcesAnyCase(e, c) ==
    /\ e \notin revocations
    /\ StillHold(e)
    /\ caseOf[c] = e
    /\ observation[c] # NoState

\* Mutant: the revocation table is not consulted.
ActionSourcesUnrevoked(e, c) ==
    /\ StillHold(e)
    /\ c \in late
    /\ caseOf[c] = e
    /\ observation[c] # NoState

\* _sources: what every call of the action checks first.  The action's own
\* case was opened after the decision it relies on.
ActionSources(e, c) ==
    /\ e \notin revocations
    /\ StillHold(e)
    /\ c \in late
    /\ caseOf[c] = e
    /\ observation[c] # NoState

\* The constructor: one action per original execution, bound to a fresh
\* observation of the expected pre-state.
Propose(e, c) ==
    /\ registration[e] = NoCase
    /\ ActionSources(e, c)
    /\ observation[c] = Expected[e]
    /\ registration' = [registration EXCEPT ![e] = c]
    /\ events' = [events EXCEPT ![e] = @ \cup {"PROPOSED", "AUTHORIZED"}]
    /\ UNCHANGED <<reservations, revocations, verdict, recoverer, recoveryWrites, state, fences>>

Sources(e) == registration[e] # NoCase /\ ActionSources(e, registration[e])

\* Nothing reserved yet, and the pre-state is the one that was observed.
MayReserveAction(e) ==
    /\ Sources(e)
    /\ e \notin reservations
    /\ state = Expected[e]
    /\ MayFence(e)

\* Transaction 1 of execute(): consumption and fence commit together.  A
\* prior reservation answers UNCERTAIN and changes nothing.  A commit whose
\* reply is lost leaves the caller on its failure path.
ReserveAction(r, e) ==
    /\ recoverer[r].step = "idle"
    /\ MayReserveAction(e)
    /\ fences' = fences \cup {e}
    /\ reservations' = reservations \cup {e}
    /\ events' = [events EXCEPT ![e] = @ \cup {"RESERVED"}]
    /\ \E step \in {"reserved", "failed"} :
         recoverer' = [recoverer EXCEPT ![r] = [step |-> step, exec |-> e]]
    /\ UNCHANGED <<registration, revocations, verdict, recoveryWrites, state>>

\* Transaction 1 rolled back after the caller had marked itself reserved.
ReserveActionFails(r, e) ==
    /\ recoverer[r].step = "idle"
    /\ MayReserveAction(e)
    /\ recoverer' = [recoverer EXCEPT ![r] = [step |-> "failed", exec |-> e]]
    /\ UNCHANGED <<registration, reservations, events, revocations, verdict,
                   recoveryWrites, state, fences>>

\* Mutant: what transaction 1 checked is not checked again.
MayRecoverReserved(e) == e \in reservations /\ state = Expected[e] /\ "ATTEMPTED" \notin events[e]

\* Sources, fence, reservation, pre-state and the one ATTEMPTED event.
MayRecover(e) ==
    /\ Sources(e)
    /\ MayFence(e)
    /\ e \in reservations
    /\ state = Expected[e]
    /\ "ATTEMPTED" \notin events[e]

\* Transaction 2: everything is checked again; the CAS and the ATTEMPTED
\* event, which the log accepts once, commit together.
Recover(r) ==
    LET e == recoverer[r].exec IN
    /\ recoverer[r].step = "reserved"
    /\ MayRecover(e)
    /\ fences' = fences \cup {e}
    /\ state' = Desired[e]
    /\ recoveryWrites' = [recoveryWrites EXCEPT ![e] = @ + 1]
    /\ events' = [events EXCEPT ![e] = @ \cup {"ATTEMPTED"}]
    /\ \E replied \in BOOLEAN :
         recoverer' = [recoverer EXCEPT ![r] = IF replied THEN Resting
                                               ELSE [step |-> "failed", exec |-> e]]
    /\ UNCHANGED <<registration, reservations, revocations, verdict>>

\* Transaction 2 denied or rolled back.
RecoverRefused(r) ==
    /\ recoverer[r].step = "reserved"
    /\ recoverer' = [recoverer EXCEPT ![r] = [step |-> "failed", exec |-> recoverer[r].exec]]
    /\ UNCHANGED <<registration, reservations, events, revocations, verdict,
                   recoveryWrites, state, fences>>

\* _record_uncertain: best effort, and only beside a durable reservation.
RecordUncertain(r) ==
    LET e == recoverer[r].exec IN
    /\ recoverer[r].step = "failed"
    /\ events' = IF e \in reservations
                   THEN [events EXCEPT ![e] = @ \cup {"UNCERTAIN"}] ELSE events
    /\ recoverer' = [recoverer EXCEPT ![r] = Resting]
    /\ UNCHANGED <<registration, reservations, revocations, verdict,
                   recoveryWrites, state, fences>>

\* The process dies between its transactions.
RecovererStops(r) ==
    /\ recoverer[r].step # "idle"
    /\ recoverer' = [recoverer EXCEPT ![r] = Resting]
    /\ UNCHANGED <<registration, reservations, events, revocations, verdict,
                   recoveryWrites, state, fences>>

\* revoke() answers DENIED whether it recorded the revocation, or its source
\* check (the clock window and the age of the evidence included) or the
\* storage stopped it: then nothing is recorded and the action is as able to
\* write as before.  A commit whose reply is lost is recorded.
RevokeAction(e) ==
    /\ registration[e] # NoCase
    /\ \/ Sources(e) /\ revocations' = revocations \cup {e}
       \/ UNCHANGED revocations
    /\ UNCHANGED <<registration, reservations, events, verdict, recoverer,
                   recoveryWrites, state, fences>>

\* Only an attempted action has anything to verify.
MayVerify(e) == Sources(e) /\ "ATTEMPTED" \in events[e]

\* verify(): needs the ATTEMPTED event, reads the resource itself, records once.
VerifyAction(e) ==
    /\ MayVerify(e)
    /\ verdict[e] = "none"
    /\ verdict' = [verdict EXCEPT ![e] = IF state = Desired[e] THEN "VERIFIED" ELSE "UNVERIFIED"]
    /\ UNCHANGED <<registration, reservations, events, revocations, recoverer,
                   recoveryWrites, state, fences>>

\* The action writes of the shared tables only the resource and the fences.
ActionNext ==
    /\ \/ \E e \in Execs :
            \/ \E c \in Cases : Propose(e, c)
            \/ RevokeAction(e)
            \/ VerifyAction(e)
       \/ \E r \in Recoverers :
            \/ \E e \in Execs : ReserveAction(r, e) \/ ReserveActionFails(r, e)
            \/ Recover(r)
            \/ RecoverRefused(r)
            \/ RecordUncertain(r)
            \/ RecovererStops(r)
    /\ UNCHANGED <<registered, revoked, consumed, outcome, protocol, dispatches,
                   executor, originalWrites>>

-----------------------------------------------------------------------------
Init == ExecInit /\ EvidenceInit /\ RecoveryInit /\ ActionInit

Next ==
    \/ ExecNext /\ UNCHANGED <<evidenceVars, recoveryVars, actionVars>>
    \/ EvidenceNext /\ UNCHANGED <<execVars, recoveryVars, actionVars>>
    \/ RecoveryNext /\ UNCHANGED <<execVars, evidenceVars, actionVars>>
    \/ ActionNext /\ UNCHANGED <<evidenceVars, recoveryVars>>

Spec == Init /\ [][Next]_vars

-----------------------------------------------------------------------------
(* Properties.                                                             *)

\* Physical writes made under the authority of e, by either path.
Writes(e) == originalWrites[e] + recoveryWrites[e]

\* The processes that hold e between two of their transactions.
Holders(e) == {x \in Executors : executor[x].step # "idle" /\ executor[x].exec = e}
ActionHolders(e) == {r \in Recoverers : recoverer[r].step = "reserved" /\ recoverer[r].exec = e}

\* An approval authorises at most one physical write, whichever of its
\* executions, processes and paths (execute() or the recovery action) try.
OneWritePerApproval ==
    \A e, f \in Execs :
        ApprovalOf[e] = ApprovalOf[f] /\ Writes(e) > 0 /\ Writes(f) > 0
            => e = f /\ Writes(e) = 1

\* fencing.dispatch and fencing.fence exclude each other for ever: no
\* execution has both a dispatch receipt and a fence.
FenceExcludesDispatch == fences \cap dispatches = {}

\* Once the fence has committed, a slow original executor changes nothing
\* physical, its interference fixture included.
FencedOriginalNeverWrites ==
    [][\A e \in fences : originalWrites'[e] = originalWrites[e]]_vars

\* A revoked execution writes nothing from the revocation on, although its
\* reservation, HOLD decision or action reservation came before it.
RevokedNeverWrites ==
    [][\A e \in revoked : Writes(e)' = Writes(e)]_vars

\* A registration the fence protocol never enrolled writes nothing.
LegacyNeverWrites == \A e \in Legacy : Writes(e) = 0

\* Once the outcome is UNCERTAIN nobody writes for that execution, not even
\* an action that had been reserved while it was still ATTEMPTED.
UncertainNeverWrites ==
    [][\A e \in Execs : outcome[e] = "UNCERTAIN" => Writes(e)' = Writes(e)]_vars

\* A recovery write rests on a HOLD decision, a later fresh case, a durable
\* fence and a durable reservation, and the original never dispatched.
RecoveryIsJustified ==
    \A e \in Execs : recoveryWrites[e] > 0 =>
        /\ decision[e] = "HOLD"
        /\ registration[e] \in late
        /\ e \in fences \cap reservations
        /\ e \notin dispatches
        /\ originalWrites[e] = 0

\* Once a revocation is recorded, whether or not its answer reached the caller,
\* the action of that execution reserves nothing, writes nothing and gets no
\* verdict any more, although it may have been reserved before.  A revoke()
\* that recorded nothing stops nothing.
RevokeStopsAction ==
    [][\A e \in revocations :
         /\ e \in reservations' => e \in reservations
         /\ recoveryWrites'[e] = recoveryWrites[e]
         /\ verdict'[e] = verdict[e]]_vars

\* VERIFIED says that this action's own write happened, not merely that the
\* resource reached the desired state by another execution.
VerifiedMeansRecovered ==
    \A e \in Execs : verdict[e] = "VERIFIED" => recoveryWrites[e] = 1

\* What an attempt or an action reservation leaves behind when its process
\* stops is never taken up again by a restart or by another process.
AbandonedStaysAbandoned ==
    [][\A e \in Execs :
         /\ outcome[e] # "none" /\ Holders(e) = {} => Holders(e)' = {}
         /\ e \in reservations /\ ActionHolders(e) = {} => ActionHolders(e)' = {}]_vars

\* A terminal disposition agrees with the ledger when it is recorded, however
\* old the human's consent is: only REVIEW_REQUIRED for an UNCERTAIN attempt.
DecisionAgreesWithLedger ==
    [][\A e \in Execs : decision'[e] # decision[e] /\ outcome[e] = "UNCERTAIN"
            => decision'[e] = "REVIEW_REQUIRED"]_vars

\* Stored evidence is never replaced, by a replay, by another case or by a
\* later verifier run.
EvidenceIsImmutable ==
    [][\A e \in Execs :
         /\ verification[e] # NoVerification => verification'[e] = verification[e]
         /\ audit[e] # NoAudit => audit'[e] = audit[e]
         /\ decision[e] # "none" => decision'[e] = decision[e] /\ decidedOn'[e] = decidedOn[e]
         /\ verdict[e] # "none" => verdict'[e] = verdict[e]]_vars

\* No sampled outcome is ahead of the ledger, and the audit is not behind the
\* verification it cites: ATTEMPTED may become UNCERTAIN, never the reverse.
EvidenceFollowsLedger ==
    \A e \in Execs :
        /\ "UNCERTAIN" \in {verification[e].outcome, audit[e].attempt} => outcome[e] = "UNCERTAIN"
        /\ audit[e].sampled = "UNCERTAIN" => audit[e].attempt = "UNCERTAIN"

\* The inductive invariant behind the properties above.  Every write is
\* accounted for by a permanent receipt or fence of an enrolled registration...
WriteLedger ==
    /\ FenceExcludesDispatch
    /\ fences \cup dispatches \subseteq protocol
    /\ protocol \subseteq registered \ Legacy
    /\ Legacy \subseteq registered
    /\ \A e, f \in registered : ApprovalOf[e] = ApprovalOf[f] => e = f
    /\ \A e \in Execs :
         /\ originalWrites[e] \in {0, 1}
         /\ originalWrites[e] = 1 => e \in dispatches
         /\ recoveryWrites[e] = IF "ATTEMPTED" \in events[e] THEN 1 ELSE 0
         /\ recoveryWrites[e] = 1 => e \in fences \cap reservations

\* What the source check of a registered action reads, apart from the
\* revocations and the outcome UNCERTAIN that close the action.
ActionGrounds(e) ==
    /\ e \in registered \cap consumed
    /\ outcome[e] \in Outcomes
    /\ verification[e] # NoVerification
    /\ audit[e] # NoAudit
    /\ decision[e] = "HOLD"
    /\ decidedOn[e] \in Cases
    /\ caseOf[decidedOn[e]] = e
    /\ observation[decidedOn[e]] = Expected[e]
    /\ Expected[e] # Desired[e]
    /\ registration[e] \in late
    /\ caseOf[registration[e]] = e
    /\ observation[registration[e]] # NoState

\* ... and what an action was registered on stays in place.
RecoveryChain ==
    \A e \in Execs :
        /\ registration[e] # NoCase => ActionGrounds(e)
        /\ recoveryWrites[e] = 1 => registration[e] # NoCase
        /\ verdict[e] # "none" => recoveryWrites[e] = 1

\* Writes are accounted for, and the grounds of a recovery stay in place.
LoopInvariant == WriteLedger /\ RecoveryChain

\* The abstract state: the approvals that have been spent on a write, and the
\* executions that may write no more.
Spent  == {ApprovalOf[e] : e \in {f \in Execs : Writes(f) > 0}}
Closed == revoked \cup {e \in Execs : outcome[e] = "UNCERTAIN"}

Authority == INSTANCE SingleUseAuthority WITH used <- Spent, closed <- Closed

\* The loop implements the abstract single-use authority: every step of every
\* process is one use of an approval, one closing, or invisible.
ImplementsSingleUse == Authority!Spec
=============================================================================
