------------------------ MODULE InfraLoopSafetyProofs ------------------------
(***************************************************************************)
(* The safety of the whole authority loop, for any sets of executions,     *)
(* approvals, states, cases and processes, from the inductive invariant    *)
(* TypeOK /\ LoopInvariant /\ EvidenceFollowsLedger; and the promises of   *)
(* the loop, each from that invariant or from what a single step needs.    *)
(***************************************************************************)
EXTENDS InfraRecoveryAction, TLAPS

-----------------------------------------------------------------------------
(* Type correctness.                                                       *)

\* A transaction of the executor leaves its own tables well typed.
LEMMA ExecTypeStep == ExecTypeOK /\ ExecNext => ExecTypeOK'
<1> SUFFICES ASSUME ExecTypeOK, ExecNext PROVE ExecTypeOK'
  OBVIOUS
<1> USE ExecutionAssumption DEF ExecTypeOK, Outcomes
<1>1. ASSUME NEW e \in Execs, Register(e) PROVE ExecTypeOK'
  BY <1>1 DEF Register
<1>2. ASSUME NEW e \in Execs, RevokeExecution(e) PROVE ExecTypeOK'
  BY <1>2 DEF RevokeExecution
<1>3. ASSUME NEW x \in Executors, NEW e \in Execs, Reserve(x, e) PROVE ExecTypeOK'
  BY <1>3 DEF Reserve, registryVars
<1>4. ASSUME NEW x \in Executors, Dispatch(x) PROVE ExecTypeOK'
  <2> DEFINE e == executor[x].exec
  <2>1. e \in Execs
    BY <1>4 DEF Dispatch
  <2>2. PICK interfere \in BOOLEAN, acknowledged \in BOOLEAN :
          LET before  == IF interfere THEN Bump[state] ELSE state
              swapped == before = Expected[e]
          IN  /\ state' = IF swapped THEN Desired[e] ELSE before
              /\ originalWrites' = IF swapped \/ interfere
                                     THEN [originalWrites EXCEPT ![e] = @ + 1]
                                     ELSE originalWrites
              /\ executor' = [executor EXCEPT
                                ![x] = [step  |-> "dispatched", exec |-> e,
                                        acked |-> swapped /\ acknowledged]]
    BY <1>4 DEF Dispatch
  <2>3. state' \in States /\ originalWrites' \in [Execs -> Nat]
    BY <2>1, <2>2
  <2>4. /\ executor' \in [Executors -> [step  : {"idle", "reserved", "dispatched"},
                                        exec  : Execs \cup {NoExec}, acked : BOOLEAN]]
        /\ \A y \in Executors : executor'[y].step # "idle" => executor'[y].exec \in Execs
    BY <2>1, <2>2
  <2> QED
    BY <1>4, <2>1, <2>3, <2>4 DEF Dispatch, registryVars
<1>5. ASSUME NEW x \in Executors, DispatchRefused(x) PROVE ExecTypeOK'
  BY <1>5 DEF DispatchRefused, ledgerVars
<1>6. ASSUME NEW x \in Executors, RecordOutcome(x) PROVE ExecTypeOK'
  BY <1>6 DEF RecordOutcome, registryVars, Recorded, Idle
<1>7. ASSUME NEW x \in Executors, ExecutorStops(x) PROVE ExecTypeOK'
  BY <1>7 DEF ExecutorStops, ledgerVars, Idle
<1> QED
  BY <1>1, <1>2, <1>3, <1>4, <1>5, <1>6, <1>7 DEF ExecNext

\* A verifier's or auditor's transaction leaves the evidence well typed.
LEMMA EvidenceTypeStep == ExecTypeOK /\ EvidenceTypeOK /\ EvidenceNext => EvidenceTypeOK'
<1> SUFFICES ASSUME ExecTypeOK, EvidenceTypeOK, NEW e \in Execs,
                    VerifyExecution(e) \/ AppendAudit(e)
             PROVE  EvidenceTypeOK'
  BY DEF EvidenceNext
<1>1. outcome[e] \in Outcomes \cup {"none"} /\ Reason(e) \in Reasons
  BY DEF ExecTypeOK, Reason, Reasons
<1>2. CASE VerifyExecution(e)
  BY <1>1, <1>2 DEF VerifyExecution, EvidenceTypeOK
<1>3. CASE AppendAudit(e)
  BY <1>1, <1>3 DEF AppendAudit, EvidenceTypeOK
<1> QED
  BY <1>2, <1>3

\* Case, observation, consent and decision rows stay well typed.
LEMMA RecoveryTypeStep == ExecTypeOK /\ RecoveryTypeOK /\ RecoveryNext => RecoveryTypeOK'
<1> SUFFICES ASSUME ExecTypeOK, RecoveryTypeOK, RecoveryNext PROVE RecoveryTypeOK'
  OBVIOUS
<1> USE DEF RecoveryTypeOK
<1>1. ASSUME NEW c \in Cases, Collect(c) PROVE RecoveryTypeOK'
  BY <1>1 DEF Collect, ExecTypeOK
<1>2. ASSUME NEW c \in Cases, NEW e \in Execs, OpenCase(c, e) PROVE RecoveryTypeOK'
  BY <1>2 DEF OpenCase
<1>3. ASSUME NEW c \in Cases, NEW e \in Execs, Consent(e, c) PROVE RecoveryTypeOK'
  <2>1. Disposition(e, c) \in Decisions
    BY DEF Disposition, Decisions
  <2> QED
    BY <1>3, <2>1 DEF Consent
<1>4. ASSUME NEW c \in Cases, NEW e \in Execs, Reconcile(e, c) PROVE RecoveryTypeOK'
  BY <1>4 DEF Reconcile
<1> QED
  BY <1>1, <1>2, <1>3, <1>4 DEF RecoveryNext

\* A recovery-action transaction leaves its tables, the fences and the
\* resource well typed.
LEMMA ActionTypeStep == TypeOK /\ ActionNext => ActionTypeOK' /\ ExecTypeOK'
<1> SUFFICES ASSUME TypeOK, ActionNext PROVE ActionTypeOK' /\ ExecTypeOK'
  OBVIOUS
<1> USE ExecutionAssumption, RecoveryAssumption DEF TypeOK, ActionTypeOK
<1>a. ASSUME fences' \subseteq Execs, state' \in States PROVE ExecTypeOK'
  BY <1>a DEF ExecTypeOK, ActionNext
<1>b. fences \subseteq Execs /\ state \in States
  BY DEF ExecTypeOK
<1>1. ASSUME NEW e \in Execs, NEW c \in Cases, Propose(e, c) PROVE ActionTypeOK' /\ ExecTypeOK'
  BY <1>1, <1>a, <1>b DEF Propose
<1>2. ASSUME NEW e \in Execs, RevokeAction(e) PROVE ActionTypeOK' /\ ExecTypeOK'
  BY <1>2, <1>a, <1>b DEF RevokeAction
<1>3. ASSUME NEW e \in Execs, VerifyAction(e) PROVE ActionTypeOK' /\ ExecTypeOK'
  BY <1>3, <1>a, <1>b DEF VerifyAction
<1>4. ASSUME NEW r \in Recoverers, NEW e \in Execs, ReserveAction(r, e)
      PROVE  ActionTypeOK' /\ ExecTypeOK'
  BY <1>4, <1>a, <1>b DEF ReserveAction
<1>5. ASSUME NEW r \in Recoverers, NEW e \in Execs, ReserveActionFails(r, e)
      PROVE  ActionTypeOK' /\ ExecTypeOK'
  BY <1>5, <1>a, <1>b DEF ReserveActionFails
<1>6. ASSUME NEW r \in Recoverers, Recover(r) PROVE ActionTypeOK' /\ ExecTypeOK'
  <2>1. recoverer[r].exec \in Execs
    BY <1>6 DEF Recover
  <2>2. fences' \subseteq Execs /\ state' \in States
    BY <1>6, <1>b, <2>1 DEF Recover
  <2>3. recoverer' \in [Recoverers -> [step : {"idle", "reserved", "failed"},
                                       exec : Execs \cup {NoExec}]]
    BY <1>6, <2>1 DEF Recover, Resting
  <2>4. \A q \in Recoverers : recoverer'[q].step # "idle" => recoverer'[q].exec \in Execs
    BY <1>6, <2>1 DEF Recover, Resting
  <2> QED
    BY <1>6, <1>a, <2>1, <2>2, <2>3, <2>4 DEF Recover
<1>7. ASSUME NEW r \in Recoverers, RecoverRefused(r) PROVE ActionTypeOK' /\ ExecTypeOK'
  BY <1>7, <1>a, <1>b DEF RecoverRefused
<1>8. ASSUME NEW r \in Recoverers, RecordUncertain(r) PROVE ActionTypeOK' /\ ExecTypeOK'
  BY <1>8, <1>a, <1>b DEF RecordUncertain, Resting
<1>9. ASSUME NEW r \in Recoverers, RecovererStops(r) PROVE ActionTypeOK' /\ ExecTypeOK'
  BY <1>9, <1>a, <1>b DEF RecovererStops, Resting
<1> QED
  BY <1>1, <1>2, <1>3, <1>4, <1>5, <1>6, <1>7, <1>8, <1>9 DEF ActionNext

\* The initial database and the idle processes are well typed.
LEMMA TypeInit == Init => TypeOK
  BY ExecutionAssumption, RecoveryAssumption
  DEF Init, ExecInit, EvidenceInit, RecoveryInit, ActionInit, TypeOK, ExecTypeOK,
      EvidenceTypeOK, RecoveryTypeOK, ActionTypeOK, Idle, Resting, NoVerification, NoAudit

\* Every step of every process preserves the types.
LEMMA TypeStep == TypeOK /\ [Next]_vars => TypeOK'
<1> SUFFICES ASSUME TypeOK, [Next]_vars PROVE TypeOK'
  OBVIOUS
<1>a. UNCHANGED execVars => ExecTypeOK'
  BY DEF TypeOK, ExecTypeOK, execVars, ledgerVars
<1>b. UNCHANGED evidenceVars => EvidenceTypeOK'
  BY DEF TypeOK, EvidenceTypeOK, evidenceVars
<1>c. UNCHANGED recoveryVars => RecoveryTypeOK'
  BY DEF TypeOK, RecoveryTypeOK, recoveryVars
<1>d. UNCHANGED actionVars => ActionTypeOK'
  BY DEF TypeOK, ActionTypeOK, actionVars
<1>1. CASE ExecNext /\ UNCHANGED <<evidenceVars, recoveryVars, actionVars>>
  BY <1>1, <1>b, <1>c, <1>d, ExecTypeStep DEF TypeOK
<1>2. CASE EvidenceNext /\ UNCHANGED <<execVars, recoveryVars, actionVars>>
  BY <1>2, <1>a, <1>c, <1>d, EvidenceTypeStep DEF TypeOK
<1>3. CASE RecoveryNext /\ UNCHANGED <<execVars, evidenceVars, actionVars>>
  BY <1>3, <1>a, <1>b, <1>d, RecoveryTypeStep DEF TypeOK
<1>4. CASE ActionNext /\ UNCHANGED <<evidenceVars, recoveryVars>>
  BY <1>4, <1>b, <1>c, ActionTypeStep DEF TypeOK
<1>5. CASE UNCHANGED vars
  BY <1>5, <1>a, <1>b, <1>c, <1>d DEF TypeOK, vars
<1> QED
  BY <1>1, <1>2, <1>3, <1>4, <1>5 DEF Next

\* Every table, process record and history counter of the loop keeps its type.
THEOREM TypeCorrect == Spec => []TypeOK
<1>1. Init => TypeOK
  BY TypeInit
<1>2. TypeOK /\ [Next]_vars => TypeOK'
  BY TypeStep
<1> QED
  BY <1>1, <1>2, PTL DEF Spec

-----------------------------------------------------------------------------
(* The tables of the ledger.                                               *)

\* What WriteLedger reads.
ledgerReads == <<registered, protocol, dispatches, fences, originalWrites,
                 recoveryWrites, events, reservations>>

\* A step that touches none of the ledger's tables keeps WriteLedger.
LEMMA LedgerUnread == WriteLedger /\ UNCHANGED ledgerReads => WriteLedger'
  BY DEF WriteLedger, FenceExcludesDispatch, ledgerReads

\* Every write is one increment of a history counter that was zero.
LEMMA LedgerExecStep ==
  ASSUME TypeOK, WriteLedger, ExecNext, UNCHANGED actionVars
  PROVE  WriteLedger'
<1> USE DEF TypeOK, ExecTypeOK, WriteLedger, FenceExcludesDispatch, actionVars
<1>1. ASSUME NEW e \in Execs, Register(e) PROVE WriteLedger'
  BY <1>1 DEF Register, ApprovalFree
<1>2. ASSUME NEW e \in Execs, RevokeExecution(e) PROVE WriteLedger'
  BY <1>2 DEF RevokeExecution
<1>3. ASSUME NEW x \in Executors, NEW e \in Execs, Reserve(x, e) PROVE WriteLedger'
  BY <1>3 DEF Reserve, registryVars
<1>4. ASSUME NEW x \in Executors, Dispatch(x) PROVE WriteLedger'
  <2> DEFINE e == executor[x].exec
  <2>1. /\ e \in Execs /\ e \in protocol /\ e \notin fences /\ e \notin dispatches
        /\ dispatches' = dispatches \cup {e}
        /\ UNCHANGED <<registered, protocol, fences>>
    BY <1>4 DEF Dispatch, MayDispatch, Unresolved, registryVars
  <2>2. originalWrites' = originalWrites \/ originalWrites' = [originalWrites EXCEPT ![e] = @ + 1]
    BY <1>4 DEF Dispatch
  <2>3. \A f \in Execs : originalWrites'[f] \in {0, 1} /\ (originalWrites'[f] = 1 => f \in dispatches')
    BY <2>1, <2>2
  <2> QED
    BY <2>1, <2>3
<1>5. ASSUME NEW x \in Executors, DispatchRefused(x) \/ ExecutorStops(x) PROVE WriteLedger'
  BY <1>5 DEF DispatchRefused, ExecutorStops, ledgerVars
<1>6. ASSUME NEW x \in Executors, RecordOutcome(x) PROVE WriteLedger'
  BY <1>6 DEF RecordOutcome, registryVars
<1> QED
  BY <1>1, <1>2, <1>3, <1>4, <1>5, <1>6 DEF ExecNext

\* A recovery-action transaction keeps every write accounted for.
LEMMA LedgerActionStep ==
  ASSUME TypeOK, WriteLedger, ActionNext
  PROVE  WriteLedger'
<1> USE DEF TypeOK, ActionTypeOK, WriteLedger, FenceExcludesDispatch
<1>a. UNCHANGED <<registered, protocol, dispatches, originalWrites>>
  BY DEF ActionNext
<1>1. ASSUME NEW e \in Execs, NEW c \in Cases, Propose(e, c) PROVE WriteLedger'
  BY <1>1, <1>a DEF Propose
<1>2. ASSUME NEW e \in Execs, RevokeAction(e) \/ VerifyAction(e) PROVE WriteLedger'
  BY <1>2, <1>a DEF RevokeAction, VerifyAction
<1>3. ASSUME NEW r \in Recoverers, NEW e \in Execs, ReserveAction(r, e) PROVE WriteLedger'
  <2>1. e \in protocol /\ e \notin dispatches
    BY <1>3 DEF ReserveAction, MayReserveAction, MayFence, Unresolved
  <2> QED
    BY <1>3, <1>a, <2>1 DEF ReserveAction
<1>4. ASSUME NEW r \in Recoverers, NEW e \in Execs, ReserveActionFails(r, e) PROVE WriteLedger'
  BY <1>4, <1>a DEF ReserveActionFails
<1>5. ASSUME NEW r \in Recoverers, Recover(r) PROVE WriteLedger'
  <2> DEFINE e == recoverer[r].exec
  <2>1. /\ e \in Execs /\ e \in protocol /\ e \notin dispatches /\ e \in reservations
        /\ "ATTEMPTED" \notin events[e]
        /\ fences' = fences \cup {e}
        /\ recoveryWrites' = [recoveryWrites EXCEPT ![e] = @ + 1]
        /\ events' = [events EXCEPT ![e] = @ \cup {"ATTEMPTED"}]
        /\ UNCHANGED reservations
    BY <1>5 DEF Recover, MayRecover, MayFence, Unresolved
  <2>2. \A f \in Execs :
          /\ recoveryWrites'[f] = IF "ATTEMPTED" \in events'[f] THEN 1 ELSE 0
          /\ recoveryWrites'[f] = 1 => f \in fences' \cap reservations'
    BY <2>1
  <2> QED
    BY <1>a, <2>1, <2>2
<1>6. ASSUME NEW r \in Recoverers, RecoverRefused(r) \/ RecovererStops(r) PROVE WriteLedger'
  BY <1>6, <1>a DEF RecoverRefused, RecovererStops
<1>7. ASSUME NEW r \in Recoverers, RecordUncertain(r) PROVE WriteLedger'
  BY <1>7, <1>a DEF RecordUncertain
<1> QED
  BY <1>1, <1>2, <1>3, <1>4, <1>5, <1>6, <1>7 DEF ActionNext

\* WriteLedger is inductive, given the types.
LEMMA LedgerStep == TypeOK /\ WriteLedger /\ [Next]_vars => WriteLedger'
<1> SUFFICES ASSUME TypeOK, WriteLedger, [Next]_vars PROVE WriteLedger'
  OBVIOUS
<1>1. CASE ExecNext /\ UNCHANGED <<evidenceVars, recoveryVars, actionVars>>
  BY <1>1, LedgerExecStep
<1>2. CASE EvidenceNext /\ UNCHANGED <<execVars, recoveryVars, actionVars>>
  BY <1>2, LedgerUnread DEF ledgerReads, execVars, ledgerVars, actionVars
<1>3. CASE RecoveryNext /\ UNCHANGED <<execVars, evidenceVars, actionVars>>
  BY <1>3, LedgerUnread DEF ledgerReads, execVars, ledgerVars, actionVars
<1>4. CASE ActionNext /\ UNCHANGED <<evidenceVars, recoveryVars>>
  BY <1>4, LedgerActionStep
<1>5. CASE UNCHANGED vars
  BY <1>5, LedgerUnread DEF ledgerReads, vars, execVars, ledgerVars, actionVars
<1> QED
  BY <1>1, <1>2, <1>3, <1>4, <1>5 DEF Next

\* An empty or legacy database accounts for its (absent) writes.
LEMMA LedgerInit == Init => WriteLedger
  BY ExecutionAssumption
  DEF Init, ExecInit, ActionInit, WriteLedger, FenceExcludesDispatch
-----------------------------------------------------------------------------
(* Who changes what, and what no step undoes.                              *)

\* Only the named action changes the named entry of a table.
LEMMA Actors ==
  ASSUME TypeOK, [Next]_vars, NEW e \in Execs
  PROVE  /\ originalWrites'[e] # originalWrites[e] =>
              \E x \in Executors : executor[x].exec = e /\ Dispatch(x)
         /\ recoveryWrites'[e] # recoveryWrites[e] =>
              \E r \in Recoverers : recoverer[r].exec = e /\ Recover(r)
         /\ verification'[e] # verification[e] => VerifyExecution(e)
         /\ audit'[e] # audit[e] => AppendAudit(e) /\ UNCHANGED outcome
         /\ (decision'[e] # decision[e] \/ decidedOn'[e] # decidedOn[e]) =>
              \E c \in Cases : Reconcile(e, c)
         /\ registration'[e] # registration[e] =>
              \E c \in Cases : Propose(e, c) /\ UNCHANGED <<execVars, evidenceVars, recoveryVars>>
         /\ verdict'[e] # verdict[e] => VerifyAction(e)
         /\ e \in reservations' \ reservations => MayReserveAction(e)
<1> USE DEF TypeOK
<1>1. CASE ExecNext /\ UNCHANGED <<evidenceVars, recoveryVars, actionVars>>
  <2>1. UNCHANGED originalWrites \/ \E x \in Executors : Dispatch(x)
    BY <1>1 DEF ExecNext, Register, RevokeExecution, Reserve, DispatchRefused,
                RecordOutcome, ExecutorStops
  <2>2. ASSUME NEW x \in Executors, Dispatch(x), originalWrites'[e] # originalWrites[e]
        PROVE  executor[x].exec = e
    BY <2>2 DEF Dispatch, ExecTypeOK
  <2>3. originalWrites'[e] # originalWrites[e] =>
          \E x \in Executors : executor[x].exec = e /\ Dispatch(x)
    BY <2>1, <2>2
  <2> QED
    BY <1>1, <2>3 DEF evidenceVars, recoveryVars, actionVars
<1>2. CASE EvidenceNext /\ UNCHANGED <<execVars, recoveryVars, actionVars>>
  <2>1. PICK f \in Execs : VerifyExecution(f) \/ AppendAudit(f)
    BY <1>2 DEF EvidenceNext
  <2>2. CASE VerifyExecution(f)
    BY <1>2, <2>2 DEF VerifyExecution, EvidenceTypeOK, execVars, ledgerVars, recoveryVars, actionVars
  <2>3. CASE AppendAudit(f)
    BY <1>2, <2>3 DEF AppendAudit, EvidenceTypeOK, execVars, ledgerVars, recoveryVars, actionVars
  <2> QED
    BY <2>1, <2>2, <2>3
<1>3. CASE RecoveryNext /\ UNCHANGED <<execVars, evidenceVars, actionVars>>
  <2>1. (decision'[e] # decision[e] \/ decidedOn'[e] # decidedOn[e]) =>
          \E c \in Cases : Reconcile(e, c)
    BY <1>3 DEF RecoveryNext, Collect, OpenCase, Consent, Reconcile, RecoveryTypeOK
  <2> QED
    BY <1>3, <2>1 DEF execVars, ledgerVars, evidenceVars, actionVars
<1>4. CASE ActionNext /\ UNCHANGED <<evidenceVars, recoveryVars>>
  <2> USE DEF ActionTypeOK
  <2>1. CASE \E f \in Execs, c \in Cases : Propose(f, c)
    <3>1. PICK f \in Execs, c \in Cases : Propose(f, c)
      BY <2>1
    <3>2. UNCHANGED <<execVars, evidenceVars, recoveryVars>>
      BY <1>4, <3>1 DEF Propose, ActionNext, execVars, ledgerVars
    <3>3. registration'[e] # registration[e] => f = e
      BY <3>1 DEF Propose
    <3>4. UNCHANGED <<originalWrites, verification, audit, decision, decidedOn>>
      BY <3>2 DEF execVars, evidenceVars, recoveryVars
    <3> QED
      BY <3>1, <3>2, <3>3, <3>4 DEF Propose
  <2>2. CASE \E f \in Execs : RevokeAction(f)
    BY <1>4, <2>2 DEF RevokeAction, ActionNext, evidenceVars, recoveryVars
  <2>3. CASE \E f \in Execs : VerifyAction(f)
    BY <1>4, <2>3 DEF VerifyAction, ActionNext, evidenceVars, recoveryVars
  <2>4. CASE \E r \in Recoverers, f \in Execs : ReserveAction(r, f) \/ ReserveActionFails(r, f)
    BY <1>4, <2>4 DEF ReserveAction, ReserveActionFails, ActionNext, evidenceVars, recoveryVars
  <2>5. CASE \E r \in Recoverers : Recover(r)
    BY <1>4, <2>5 DEF Recover, ActionNext, evidenceVars, recoveryVars
  <2>6. CASE \E r \in Recoverers : RecoverRefused(r) \/ RecordUncertain(r) \/ RecovererStops(r)
    BY <1>4, <2>6 DEF RecoverRefused, RecordUncertain, RecovererStops, ActionNext,
                      evidenceVars, recoveryVars
  <2> QED
    BY <1>4, <2>1, <2>2, <2>3, <2>4, <2>5, <2>6 DEF ActionNext
<1>5. CASE UNCHANGED vars
  BY <1>5 DEF vars, execVars, evidenceVars, recoveryVars, actionVars
<1> QED
  BY <1>1, <1>2, <1>3, <1>4, <1>5 DEF Next

\* What is once recorded stays: flags, receipts, cases, observations, and an
\* outcome that moves only from ATTEMPTED to UNCERTAIN.
LEMMA Permanent ==
  ASSUME TypeOK, [Next]_vars
  PROVE  /\ registered \subseteq registered' /\ revoked \subseteq revoked'
         /\ consumed \subseteq consumed' /\ late \subseteq late'
         /\ fences \subseteq fences' /\ reservations \subseteq reservations'
         /\ revocations \subseteq revocations'
         /\ \A e \in Execs :
              /\ outcome[e] \in Outcomes => outcome'[e] \in Outcomes
              /\ outcome[e] = "UNCERTAIN" => outcome'[e] = "UNCERTAIN"
         /\ \A c \in Cases :
              /\ caseOf[c] # NoExec => caseOf'[c] = caseOf[c]
              /\ observation[c] # NoState => observation'[c] = observation[c]
<1> USE DEF TypeOK
<1>1. CASE ExecNext /\ UNCHANGED <<evidenceVars, recoveryVars, actionVars>>
  <2>1. /\ registered \subseteq registered' /\ revoked \subseteq revoked'
        /\ consumed \subseteq consumed' /\ fences \subseteq fences'
    BY <1>1 DEF ExecNext, Register, RevokeExecution, Reserve, Dispatch, DispatchRefused,
                RecordOutcome, ExecutorStops, registryVars, ledgerVars
  <2>2. \A e \in Execs :
          /\ outcome[e] \in Outcomes => outcome'[e] \in Outcomes
          /\ outcome[e] = "UNCERTAIN" => outcome'[e] = "UNCERTAIN"
    <3>1. CASE \E x \in Executors, e \in Execs : Reserve(x, e)
      BY <3>1 DEF Reserve, MayReserve, ExecTypeOK, Outcomes
    <3>2. CASE \E x \in Executors : RecordOutcome(x)
      BY <3>2 DEF RecordOutcome, Recorded, ExecTypeOK, Outcomes
    <3>3. UNCHANGED outcome \/ (\E x \in Executors : RecordOutcome(x) \/ \E e \in Execs : Reserve(x, e))
      BY <1>1 DEF ExecNext, Register, RevokeExecution, Dispatch, DispatchRefused,
                  ExecutorStops, ledgerVars
    <3> QED
      BY <3>1, <3>2, <3>3
  <2> QED
    BY <1>1, <2>1, <2>2 DEF recoveryVars, actionVars
<1>2. CASE EvidenceNext /\ UNCHANGED <<execVars, recoveryVars, actionVars>>
  BY <1>2 DEF execVars, ledgerVars, recoveryVars, actionVars
<1>3. CASE RecoveryNext /\ UNCHANGED <<execVars, evidenceVars, actionVars>>
  <2>1. late \subseteq late'
    BY <1>3 DEF RecoveryNext, Collect, OpenCase, Consent, Reconcile
  <2>2. \A c \in Cases :
          /\ caseOf[c] # NoExec => caseOf'[c] = caseOf[c]
          /\ observation[c] # NoState => observation'[c] = observation[c]
    BY <1>3 DEF RecoveryNext, Collect, OpenCase, Consent, Reconcile, RecoveryTypeOK
  <2> QED
    BY <1>3, <2>1, <2>2 DEF execVars, ledgerVars, actionVars
<1>4. CASE ActionNext /\ UNCHANGED <<evidenceVars, recoveryVars>>
  <2>1. fences \subseteq fences' /\ reservations \subseteq reservations' /\ revocations \subseteq revocations'
    BY <1>4 DEF ActionNext, Propose, RevokeAction, VerifyAction, ReserveAction,
                ReserveActionFails, Recover, RecoverRefused, RecordUncertain, RecovererStops
  <2> QED
    BY <1>4, <2>1 DEF ActionNext, recoveryVars
<1>5. CASE UNCHANGED vars
  BY <1>5 DEF vars, execVars, ledgerVars, recoveryVars, actionVars
<1> QED
  BY <1>1, <1>2, <1>3, <1>4, <1>5 DEF Next
-----------------------------------------------------------------------------
(* Evidence and the grounds of a recovery.                                 *)

\* Sampled outcomes never get ahead of the ledger.
LEMMA EvidenceStep ==
  ASSUME TypeOK, EvidenceFollowsLedger, [Next]_vars
  PROVE  EvidenceFollowsLedger'
<1> SUFFICES ASSUME NEW e \in Execs
             PROVE  /\ verification'[e].outcome = "UNCERTAIN" => outcome'[e] = "UNCERTAIN"
                    /\ audit'[e].attempt = "UNCERTAIN" => outcome'[e] = "UNCERTAIN"
                    /\ audit'[e].sampled = "UNCERTAIN" => audit'[e].attempt = "UNCERTAIN"
  BY DEF EvidenceFollowsLedger
<1>1. outcome[e] = "UNCERTAIN" => outcome'[e] = "UNCERTAIN"
  BY Permanent
<1>2. verification'[e] # verification[e] => verification'[e].outcome = outcome[e]
  BY Actors DEF VerifyExecution, TypeOK, EvidenceTypeOK
<1>3. audit'[e] # audit[e] =>
        /\ audit'[e].attempt = outcome[e]
        /\ audit'[e].sampled = verification[e].outcome
        /\ verification[e].outcome = "UNCERTAIN" => outcome[e] = "UNCERTAIN"
  BY Actors DEF AppendAudit, AuditSources, TypeOK, EvidenceTypeOK
<1> QED
  BY <1>1, <1>2, <1>3 DEF EvidenceFollowsLedger

\* Rows of evidence and decisions are written once.
LEMMA WrittenOnce ==
  ASSUME TypeOK, [Next]_vars, NEW e \in Execs
  PROVE  /\ verification[e] # NoVerification => verification'[e] = verification[e]
         /\ audit[e] # NoAudit => audit'[e] = audit[e]
         /\ decision[e] # "none" => decision'[e] = decision[e] /\ decidedOn'[e] = decidedOn[e]
         /\ verdict[e] # "none" => verdict'[e] = verdict[e]
         /\ registration[e] # NoCase => registration'[e] = registration[e]
  BY Actors DEF VerifyExecution, AppendAudit, Reconcile, VerifyAction, Propose

\* Nothing an action is registered on is ever taken away.
LEMMA GroundsStep ==
  ASSUME TypeOK, RecoveryChain, [Next]_vars, NEW e \in Execs, registration'[e] # NoCase
  PROVE  ActionGrounds(e)'
<1>1. CASE registration[e] # NoCase
  <2>1. ActionGrounds(e)
    BY <1>1 DEF RecoveryChain
  <2>2. /\ registration[e] \in Cases
        /\ caseOf[registration[e]] # NoExec
        /\ caseOf[decidedOn[e]] # NoExec
        /\ observation[decidedOn[e]] # NoState
    BY <1>1, <2>1, ExecutionAssumption, RecoveryAssumption
    DEF ActionGrounds, TypeOK, ActionTypeOK
  <2>3. /\ UNCHANGED <<verification[e], audit[e], decision[e], decidedOn[e], registration[e]>>
    BY <1>1, <2>1, WrittenOnce DEF ActionGrounds
  <2> QED
    BY <2>1, <2>2, <2>3, Permanent DEF ActionGrounds
<1>2. CASE registration[e] = NoCase
  <2>1. PICK c \in Cases : Propose(e, c) /\ UNCHANGED <<execVars, evidenceVars, recoveryVars>>
    BY <1>2, Actors
  <2>2. registration'[e] = c
    BY <2>1 DEF Propose, TypeOK, ActionTypeOK
  <2>3. /\ e \in registered \cap consumed
        /\ outcome[e] \in Outcomes
        /\ verification[e] # NoVerification
        /\ audit[e] # NoAudit
        /\ decision[e] = "HOLD"
        /\ decidedOn[e] \in Cases
        /\ caseOf[decidedOn[e]] = e
        /\ c \in late
        /\ caseOf[c] = e
        /\ observation[c] # NoState
    BY <2>1 DEF Propose, ActionSources, StillHold, RecoveryEvidence, AuditSources, Attempted, Active
  <2>4. observation[decidedOn[e]] = Expected[e] /\ Expected[e] # Desired[e]
    BY <2>1 DEF Propose, ActionSources, StillHold, Disposition
  <2> QED
    BY <2>1, <2>2, <2>3, <2>4 DEF ActionGrounds, execVars, ledgerVars, evidenceVars, recoveryVars
<1> QED
  BY <1>1, <1>2

\* RecoveryChain is inductive, given the ledger and the evidence.
LEMMA ChainStep ==
  ASSUME TypeOK, WriteLedger, WriteLedger', EvidenceFollowsLedger, RecoveryChain, [Next]_vars
  PROVE  RecoveryChain'
<1> SUFFICES ASSUME NEW e \in Execs
             PROVE  /\ registration'[e] # NoCase => ActionGrounds(e)'
                    /\ recoveryWrites'[e] = 1 => registration'[e] # NoCase
                    /\ verdict'[e] # "none" => recoveryWrites'[e] = 1
  BY DEF RecoveryChain
<1>1. registration'[e] # NoCase => ActionGrounds(e)'
  BY GroundsStep
<1>2. ASSUME recoveryWrites'[e] = 1 PROVE registration'[e] # NoCase
  <2>1. registration[e] # NoCase
    BY <1>2, Actors DEF RecoveryChain, Recover, MayRecover, Sources
  <2> QED
    BY <2>1, WrittenOnce
<1>3. ASSUME recoveryWrites[e] = 1 PROVE recoveryWrites'[e] = 1
  BY <1>3, Actors DEF WriteLedger, Recover, MayRecover
<1>4. ASSUME verdict'[e] # "none" PROVE recoveryWrites'[e] = 1
  BY <1>3, <1>4, Actors DEF RecoveryChain, VerifyAction, MayVerify, WriteLedger
<1> QED
  BY <1>1, <1>2, <1>4

-----------------------------------------------------------------------------
(* The inductive invariant.                                                *)

LoopIInv == TypeOK /\ LoopInvariant /\ EvidenceFollowsLedger

\* The inductive invariant holds in a new database.
LEMMA LoopIInit == Init => LoopIInv
<1> SUFFICES ASSUME Init PROVE LoopIInv
  OBVIOUS
<1>1. RecoveryChain
  <2>1. /\ \A e \in Execs : registration[e] = NoCase /\ verdict[e] = "none"
        /\ \A e \in Execs : recoveryWrites[e] # 1
    BY DEF Init, ActionInit
  <2> QED
    BY <2>1, Zenon DEF RecoveryChain
<1>2. EvidenceFollowsLedger
  BY DEF Init, EvidenceInit, NoVerification, NoAudit, EvidenceFollowsLedger
<1> QED
  BY <1>1, <1>2, TypeInit, LedgerInit DEF LoopIInv, LoopInvariant

\* Every step of every process preserves the inductive invariant.
LEMMA LoopIStep == LoopIInv /\ [Next]_vars => LoopIInv'
  BY TypeStep, LedgerStep, EvidenceStep, ChainStep DEF LoopIInv, LoopInvariant

\* The inductive invariant holds throughout.
LEMMA LoopIInvHolds == Spec => []LoopIInv
<1>1. Init => LoopIInv
  BY LoopIInit
<1>2. LoopIInv /\ [Next]_vars => LoopIInv'
  BY LoopIStep
<1> QED
  BY <1>1, <1>2, PTL DEF Spec

\* Writes are accounted for and the grounds of a recovery stay in place.
THEOREM LoopInvariantHolds == Spec => []LoopInvariant
<1>1. LoopIInv => LoopInvariant
  BY DEF LoopIInv
<1> QED
  BY <1>1, LoopIInvHolds, PTL

-----------------------------------------------------------------------------
(* What a write needs.                                                     *)

\* The dispatch transaction writes for an active, unresolved, enrolled
\* execution that is neither fenced nor dispatched.
LEMMA OriginalWriteNeeds ==
  ASSUME TypeOK, [Next]_vars, NEW e \in Execs, originalWrites'[e] # originalWrites[e]
  PROVE  /\ MayDispatch(e) /\ UNCHANGED recoveryWrites
         /\ originalWrites' = [originalWrites EXCEPT ![e] = @ + 1]
         /\ UNCHANGED <<revoked, outcome>>
<1>1. PICK x \in Executors : executor[x].exec = e /\ Dispatch(x)
  BY Actors
<1>2. UNCHANGED recoveryWrites
  <2>1. ~ UNCHANGED originalWrites
    OBVIOUS
  <2> QED
    BY <2>1 DEF Next, execVars, ActionNext, actionVars, vars
<1>3. originalWrites' = [originalWrites EXCEPT ![e] = @ + 1]
  BY <1>1 DEF Dispatch
<1> QED
  BY <1>1, <1>2, <1>3 DEF Dispatch, registryVars

\* The recovery transaction writes under all its checks.
LEMMA RecoveryWriteNeeds ==
  ASSUME TypeOK, [Next]_vars, NEW e \in Execs, recoveryWrites'[e] # recoveryWrites[e]
  PROVE  /\ MayRecover(e) /\ state' = Desired[e]
         /\ recoveryWrites' = [recoveryWrites EXCEPT ![e] = @ + 1]
         /\ UNCHANGED <<revoked, outcome, originalWrites, dispatches, evidenceVars, recoveryVars>>
<1>1. PICK r \in Recoverers : recoverer[r].exec = e /\ Recover(r)
  BY Actors
<1>2. UNCHANGED <<revoked, outcome, originalWrites, dispatches, evidenceVars, recoveryVars>>
  <2>1. ~ UNCHANGED recoveryWrites
    OBVIOUS
  <2> QED
    BY <2>1 DEF Next, ActionNext, actionVars, vars
<1> QED
  BY <1>1, <1>2 DEF Recover

\* Both counters of an execution are natural numbers.
LEMMA WritesNat == ASSUME TypeOK, NEW e \in Execs
                   PROVE originalWrites[e] \in Nat /\ recoveryWrites[e] \in Nat
  BY DEF TypeOK, ExecTypeOK, ActionTypeOK

\* A write of e comes from an active execution whose outcome is ATTEMPTED.
LEMMA WriteNeeds ==
  ASSUME TypeOK, [Next]_vars, NEW e \in Execs, Writes(e)' # Writes(e)
  PROVE  Unresolved(e)
<1>1. originalWrites'[e] # originalWrites[e] \/ recoveryWrites'[e] # recoveryWrites[e]
  BY DEF Writes
<1> QED
  BY <1>1, OriginalWriteNeeds, RecoveryWriteNeeds DEF MayDispatch, MayRecover, MayFence

-----------------------------------------------------------------------------
(* Invariants.                                                             *)

\* An execution that has written is registered.
LEMMA WriterRegistered ==
  ASSUME TypeOK, WriteLedger, NEW e \in Execs, Writes(e) > 0
  PROVE  e \in protocol /\ Writes(e) = 1
<1>1. originalWrites[e] \in {0, 1} /\ recoveryWrites[e] \in {0, 1}
  BY DEF WriteLedger
<1>2. ~(originalWrites[e] = 1 /\ recoveryWrites[e] = 1)
  BY DEF WriteLedger, FenceExcludesDispatch
<1>3. originalWrites[e] = 1 \/ recoveryWrites[e] = 1
  BY <1>1 DEF Writes
<1>4. Writes(e) = 1
  BY <1>1, <1>2, <1>3 DEF Writes
<1>5. e \in protocol
  BY <1>3 DEF WriteLedger
<1> QED
  BY <1>4, <1>5

\* Two writers of one approval are one execution, and it wrote once.
LEMMA OneWriteFromIInv == LoopIInv => OneWritePerApproval
<1> SUFFICES ASSUME LoopIInv, NEW e \in Execs, NEW f \in Execs,
                    ApprovalOf[e] = ApprovalOf[f], Writes(e) > 0, Writes(f) > 0
             PROVE  e = f /\ Writes(e) = 1
  BY DEF OneWritePerApproval
<1>1. e \in protocol /\ f \in protocol /\ Writes(e) = 1
  BY WriterRegistered DEF LoopIInv, LoopInvariant
<1> QED
  BY <1>1 DEF LoopIInv, LoopInvariant, WriteLedger

\* An approval authorises one physical write at most.
THEOREM OneWritePerApprovalHolds == Spec => []OneWritePerApproval
  BY LoopIInvHolds, OneWriteFromIInv, PTL

\* The exclusion of receipts and fences is part of the invariant.
LEMMA FenceFromIInv == LoopIInv => FenceExcludesDispatch
  BY DEF LoopIInv, LoopInvariant, WriteLedger

\* No execution ever has both a dispatch receipt and a fence.
THEOREM FenceExcludesDispatchHolds == Spec => []FenceExcludesDispatch
  BY LoopIInvHolds, FenceFromIInv, PTL

\* A legacy registration is never enrolled, and only enrolled ones write.
LEMMA LegacyFromIInv == LoopIInv => LegacyNeverWrites
<1> SUFFICES ASSUME LoopIInv, NEW e \in Legacy PROVE Writes(e) = 0
  BY DEF LegacyNeverWrites
<1>1. e \in Execs /\ e \notin protocol
  BY ExecutionAssumption DEF LoopIInv, LoopInvariant, WriteLedger
<1>2. Writes(e) \in Nat
  BY <1>1, WritesNat DEF LoopIInv, Writes
<1>3. ~(Writes(e) > 0)
  BY <1>1, WriterRegistered DEF LoopIInv, LoopInvariant
<1> QED
  BY <1>2, <1>3

\* An execution registered before the fence protocol writes nothing.
THEOREM LegacyNeverWritesHolds == Spec => []LegacyNeverWrites
  BY LoopIInvHolds, LegacyFromIInv, PTL

\* An ATTEMPTED event carries its reservation, fence and grounds.
LEMMA JustifiedFromIInv == LoopIInv => RecoveryIsJustified
<1> SUFFICES ASSUME LoopIInv, NEW e \in Execs, recoveryWrites[e] > 0
             PROVE  /\ decision[e] = "HOLD"
                    /\ registration[e] \in late
                    /\ e \in fences \cap reservations
                    /\ e \notin dispatches
                    /\ originalWrites[e] = 0
  BY DEF RecoveryIsJustified
<1> USE DEF LoopIInv, LoopInvariant
<1>1. recoveryWrites[e] = 1
  BY DEF WriteLedger
<1>2. e \in fences \cap reservations /\ e \notin dispatches /\ originalWrites[e] = 0
  BY <1>1 DEF WriteLedger, FenceExcludesDispatch
<1>3. ActionGrounds(e)
  BY <1>1 DEF RecoveryChain
<1> QED
  BY <1>2, <1>3 DEF ActionGrounds

\* A recovery write has its HOLD decision, fresh case, fence and reservation,
\* and the original never dispatched.
THEOREM RecoveryIsJustifiedHolds == Spec => []RecoveryIsJustified
  BY LoopIInvHolds, JustifiedFromIInv, PTL

\* A verdict needs the ATTEMPTED event, which commits with the write.
LEMMA VerifiedFromIInv == LoopIInv => VerifiedMeansRecovered
  BY DEF LoopIInv, LoopInvariant, RecoveryChain, VerifiedMeansRecovered

\* VERIFIED says that this action's own write happened.
THEOREM VerifiedMeansRecoveredHolds == Spec => []VerifiedMeansRecovered
  BY LoopIInvHolds, VerifiedFromIInv, PTL

\* EvidenceFollowsLedger is part of the invariant.
LEMMA EvidenceFromIInv == LoopIInv => EvidenceFollowsLedger
  BY DEF LoopIInv

\* No sampled outcome is ahead of the ledger.
THEOREM EvidenceFollowsLedgerHolds == Spec => []EvidenceFollowsLedger
  BY LoopIInvHolds, EvidenceFromIInv, PTL

-----------------------------------------------------------------------------
(* What no step may do.                                                    *)

\* No step writes for a revoked execution: every write needs Active.
LEMMA RevokedStep ==
  TypeOK /\ [Next]_vars => [\A e \in revoked : Writes(e)' = Writes(e)]_vars
  BY WriteNeeds DEF Unresolved, Active, TypeOK, ExecTypeOK

\* Nothing is written for a revoked execution.
THEOREM RevokedNeverWritesHolds == Spec => RevokedNeverWrites
  BY TypeCorrect, RevokedStep, PTL DEF Spec, RevokedNeverWrites

\* No step writes for an UNCERTAIN execution: every write needs ATTEMPTED.
LEMMA UncertainStep ==
  TypeOK /\ [Next]_vars =>
    [\A e \in Execs : outcome[e] = "UNCERTAIN" => Writes(e)' = Writes(e)]_vars
  BY WriteNeeds DEF Unresolved

\* Nothing is written for an execution whose outcome is UNCERTAIN.
THEOREM UncertainNeverWritesHolds == Spec => UncertainNeverWrites
  BY TypeCorrect, UncertainStep, PTL DEF Spec, UncertainNeverWrites

\* No step writes by the original path for a fenced execution.
LEMMA FencedStep ==
  TypeOK /\ [Next]_vars => [\A e \in fences : originalWrites'[e] = originalWrites[e]]_vars
  BY OriginalWriteNeeds DEF MayDispatch, TypeOK, ExecTypeOK

\* A fenced original executor changes nothing physical.
THEOREM FencedOriginalNeverWritesHolds == Spec => FencedOriginalNeverWrites
  BY TypeCorrect, FencedStep, PTL DEF Spec, FencedOriginalNeverWrites

\* An action whose revocation is recorded passes no check of its sources.
LEMMA RevokeStep ==
  TypeOK /\ [Next]_vars =>
    [\A e \in revocations :
       /\ e \in reservations' => e \in reservations
       /\ recoveryWrites'[e] = recoveryWrites[e]
       /\ verdict'[e] = verdict[e]]_vars
<1> SUFFICES ASSUME TypeOK, [Next]_vars, NEW e \in revocations
             PROVE  /\ e \in reservations' => e \in reservations
                    /\ recoveryWrites'[e] = recoveryWrites[e]
                    /\ verdict'[e] = verdict[e]
  OBVIOUS
<1>1. e \in Execs /\ ~Sources(e)
  BY DEF TypeOK, ActionTypeOK, Sources, ActionSources
<1> QED
  BY <1>1, Actors DEF MayReserveAction, Recover, MayRecover, VerifyAction, MayVerify

\* Once a revocation is recorded the action reserves, writes and concludes
\* nothing any more.
THEOREM RevokeStopsActionHolds == Spec => RevokeStopsAction
  BY TypeCorrect, RevokeStep, PTL DEF Spec, RevokeStopsAction

\* No step replaces a stored row.
LEMMA ImmutableStep ==
  TypeOK /\ [Next]_vars =>
    [\A e \in Execs :
       /\ verification[e] # NoVerification => verification'[e] = verification[e]
       /\ audit[e] # NoAudit => audit'[e] = audit[e]
       /\ decision[e] # "none" => decision'[e] = decision[e] /\ decidedOn'[e] = decidedOn[e]
       /\ verdict[e] # "none" => verdict'[e] = verdict[e]]_vars
  BY WrittenOnce

\* Stored evidence and decisions are never replaced.
THEOREM EvidenceIsImmutableHolds == Spec => EvidenceIsImmutable
  BY TypeCorrect, ImmutableStep, PTL DEF Spec, EvidenceIsImmutable

\* reconcile() recomputes the disposition in its own transaction.
LEMMA DecisionStep ==
  TypeOK /\ [Next]_vars =>
    [\A e \in Execs : decision'[e] # decision[e] /\ outcome[e] = "UNCERTAIN"
        => decision'[e] = "REVIEW_REQUIRED"]_vars
  BY Actors DEF Reconcile, ConsentHolds, Disposition, TypeOK, RecoveryTypeOK

\* A disposition recorded for an UNCERTAIN attempt is REVIEW_REQUIRED,
\* however old the consent to another one is.
THEOREM DecisionAgreesWithLedgerHolds == Spec => DecisionAgreesWithLedger
  BY TypeCorrect, DecisionStep, PTL DEF Spec, DecisionAgreesWithLedger

\* An action holder appears only by reserving, an original one likewise.
LEMMA AbandonedStep ==
  TypeOK /\ [Next]_vars =>
    [\A e \in Execs :
       /\ outcome[e] # "none" /\ Holders(e) = {} => Holders(e)' = {}
       /\ e \in reservations /\ ActionHolders(e) = {} => ActionHolders(e)' = {}]_vars
<1> SUFFICES ASSUME TypeOK, [Next]_vars, NEW e \in Execs
             PROVE  /\ outcome[e] # "none" /\ Holders(e) = {} => Holders(e)' = {}
                    /\ e \in reservations /\ ActionHolders(e) = {} => ActionHolders(e)' = {}
  OBVIOUS
<1> USE DEF TypeOK
<1>1. ASSUME ExecNext, outcome[e] # "none", NEW y \in Holders(e)' PROVE y \in Holders(e)
  BY <1>1 DEF ExecNext, Register, RevokeExecution, Reserve, MayReserve, Dispatch, DispatchRefused,
              RecordOutcome, ExecutorStops, Idle, Holders, ExecTypeOK
<1>2. ASSUME ActionNext, e \in reservations, NEW y \in ActionHolders(e)' PROVE y \in ActionHolders(e)
  BY <1>2 DEF ActionNext, Propose, RevokeAction, VerifyAction, ReserveAction, MayReserveAction,
              ReserveActionFails, Recover, RecoverRefused, RecordUncertain, RecovererStops,
              Resting, ActionHolders, ActionTypeOK
<1>3. UNCHANGED executor \/ ExecNext
  BY DEF Next, ActionNext, vars, execVars
<1>4. UNCHANGED recoverer \/ ActionNext
  BY DEF Next, vars, actionVars
<1> QED
  BY <1>1, <1>2, <1>3, <1>4 DEF Holders, ActionHolders

\* What a stopped process leaves behind is never taken up again.
THEOREM AbandonedStaysAbandonedHolds == Spec => AbandonedStaysAbandoned
  BY TypeCorrect, AbandonedStep, PTL DEF Spec, AbandonedStaysAbandoned

-----------------------------------------------------------------------------
(* The loop implements the single-use authority.                           *)

\* Nothing but a write changes the resource.
LEMMA StateOnlyByWrite ==
  ASSUME TypeOK, [Next]_vars, UNCHANGED <<originalWrites, recoveryWrites>>
  PROVE  UNCHANGED state
<1>1. ASSUME NEW x \in Executors, Dispatch(x) PROVE UNCHANGED state
  <2> DEFINE e == executor[x].exec
  <2>1. e \in Execs /\ originalWrites[e] \in Nat
    BY <1>1, WritesNat DEF Dispatch, TypeOK, ExecTypeOK
  <2>2. [originalWrites EXCEPT ![e] = @ + 1] # originalWrites
    BY <2>1 DEF TypeOK, ExecTypeOK
  <2> QED
    BY <1>1, <2>2 DEF Dispatch
<1>2. ASSUME NEW r \in Recoverers, Recover(r) PROVE FALSE
  <2> DEFINE e == recoverer[r].exec
  <2>1. e \in Execs /\ recoveryWrites[e] \in Nat
    BY <1>2, WritesNat DEF Recover, TypeOK, ActionTypeOK
  <2>2. [recoveryWrites EXCEPT ![e] = @ + 1] # recoveryWrites
    BY <2>1 DEF TypeOK, ActionTypeOK
  <2> QED
    BY <1>2, <2>2 DEF Recover
<1>3. CASE ExecNext
  BY <1>1, <1>3 DEF ExecNext, Register, RevokeExecution, Reserve, DispatchRefused,
                    RecordOutcome, ExecutorStops
<1>4. CASE ActionNext
  BY <1>2, <1>4 DEF ActionNext, Propose, RevokeAction, VerifyAction, ReserveAction,
                    ReserveActionFails, RecoverRefused, RecordUncertain, RecovererStops
<1> QED
  BY <1>3, <1>4 DEF Next, vars, execVars

\* A step closes one execution at most.
LEMMA ClosesOneAtMost ==
  ASSUME TypeOK, [Next]_vars
  PROVE  UNCHANGED Closed \/ \E e \in Execs : Closed' = Closed \cup {e}
<1> USE DEF Closed, TypeOK, ExecTypeOK
<1>1. ASSUME NEW e \in Execs, Register(e) \/ RevokeExecution(e)
      PROVE  UNCHANGED Closed \/ Closed' = Closed \cup {e}
  <2>1. UNCHANGED outcome /\ (UNCHANGED revoked \/ revoked' = revoked \cup {e})
    BY <1>1 DEF Register, RevokeExecution
  <2> QED
    BY <2>1
<1>2. ASSUME NEW x \in Executors, NEW e \in Execs, Reserve(x, e) PROVE UNCHANGED Closed
  BY <1>2 DEF Reserve, MayReserve, registryVars
<1>3. ASSUME NEW x \in Executors, RecordOutcome(x)
      PROVE  UNCHANGED Closed \/ \E e \in Execs : Closed' = Closed \cup {e}
  <2> DEFINE e == executor[x].exec
  <2>1. e \in Execs /\ UNCHANGED revoked /\ outcome[e] = "ATTEMPTED"
    BY <1>3 DEF RecordOutcome, registryVars
  <2>2. \/ outcome' = [outcome EXCEPT ![e] = "ATTEMPTED"]
        \/ outcome' = [outcome EXCEPT ![e] = "UNCERTAIN"]
    BY <1>3 DEF RecordOutcome, Recorded
  <2> QED
    BY <2>1, <2>2
<1>4. CASE ExecNext
  <2>1. CASE \E x \in Executors : Dispatch(x) \/ DispatchRefused(x) \/ ExecutorStops(x)
    BY <2>1 DEF Dispatch, DispatchRefused, ExecutorStops, registryVars, ledgerVars
  <2> QED
    BY <1>1, <1>2, <1>3, <1>4, <2>1 DEF ExecNext
<1>5. CASE UNCHANGED <<revoked, outcome>>
  BY <1>5
<1> QED
  BY <1>4, <1>5 DEF Next, vars, execVars, ledgerVars, ActionNext

\* The first write of an execution spends an approval nobody has spent.
LEMMA FirstWriteSpends ==
  ASSUME LoopIInv, NEW e \in Execs, e \in protocol, Writes(e) = 0, Writes(e)' = 1,
         \A f \in Execs \ {e} : Writes(f)' = Writes(f)
  PROVE  ApprovalOf[e] \notin Spent /\ Spent' = Spent \cup {ApprovalOf[e]}
<1>1. ASSUME NEW f \in Execs, Writes(f) > 0 PROVE ApprovalOf[f] # ApprovalOf[e]
  <2>1. f \in protocol
    BY <1>1, WriterRegistered DEF LoopIInv, LoopInvariant
  <2>2. f # e
    BY <1>1
  <2> QED
    BY <2>1, <2>2 DEF LoopIInv, LoopInvariant, WriteLedger
<1>2. {f \in Execs : Writes(f)' > 0} = {f \in Execs : Writes(f) > 0} \cup {e}
  OBVIOUS
<1>3. Spent' = {ApprovalOf[f] : f \in {g \in Execs : Writes(g)' > 0}}
  BY DEF Spent
<1> QED
  BY <1>1, <1>2, <1>3 DEF Spent

\* An execution that holds no receipt and no ATTEMPTED event has not written.
LEMMA NothingWritten ==
  ASSUME TypeOK, WriteLedger, NEW e \in Execs, e \notin dispatches, "ATTEMPTED" \notin events[e]
  PROVE  originalWrites[e] = 0 /\ recoveryWrites[e] = 0
  BY DEF WriteLedger

\* A step that writes is a use of the approval.
LEMMA WriteIsUse ==
  ASSUME LoopIInv, [Next]_vars, NEW e \in Execs, Writes(e)' # Writes(e)
  PROVE  Authority!Use(e)
<1> USE DEF LoopIInv, LoopInvariant
<1>1. CASE originalWrites'[e] # originalWrites[e]
  <2>1. /\ MayDispatch(e) /\ UNCHANGED recoveryWrites
        /\ originalWrites' = [originalWrites EXCEPT ![e] = @ + 1]
        /\ UNCHANGED <<revoked, outcome>>
    BY <1>1, OriginalWriteNeeds
  <2>2. e \notin fences /\ e \notin dispatches /\ Unresolved(e)
    BY <2>1 DEF MayDispatch
  <2>3. recoveryWrites[e] = 0 /\ originalWrites[e] = 0
    BY <2>2 DEF WriteLedger
  <2>4. originalWrites'[e] = 1 /\ \A f \in Execs \ {e} : originalWrites'[f] = originalWrites[f]
    BY <2>1, <2>3 DEF TypeOK, ExecTypeOK
  <2>5. ApprovalOf[e] \notin Spent /\ Spent' = Spent \cup {ApprovalOf[e]}
    BY <2>1, <2>2, <2>3, <2>4, FirstWriteSpends DEF Writes, Unresolved
  <2>6. e \notin Closed /\ UNCHANGED Closed
    BY <2>1, <2>2 DEF Closed, Unresolved, Active
  <2>7. Authority!Write(e)
    <3>1. PICK x \in Executors : executor[x].exec = e /\ Dispatch(x)
      BY <1>1, Actors
    <3> QED
      BY <1>1, <3>1 DEF Dispatch, Authority!Write
  <2> QED
    BY <2>5, <2>6, <2>7 DEF Authority!Use
<1>2. CASE recoveryWrites'[e] # recoveryWrites[e]
  <2>1. /\ MayRecover(e) /\ state' = Desired[e]
        /\ recoveryWrites' = [recoveryWrites EXCEPT ![e] = @ + 1]
        /\ UNCHANGED <<revoked, outcome, originalWrites>>
    BY <1>2, RecoveryWriteNeeds
  <2>2. /\ e \notin dispatches /\ Unresolved(e) /\ "ATTEMPTED" \notin events[e]
        /\ state = Expected[e]
    BY <2>1 DEF MayRecover, MayFence
  <2>3. originalWrites[e] = 0 /\ recoveryWrites[e] = 0
    BY <2>2, NothingWritten
  <2>4. recoveryWrites'[e] = 1 /\ \A f \in Execs \ {e} : recoveryWrites'[f] = recoveryWrites[f]
    BY <2>1, <2>3 DEF TypeOK, ActionTypeOK
  <2>5. ApprovalOf[e] \notin Spent /\ Spent' = Spent \cup {ApprovalOf[e]}
    BY <2>1, <2>2, <2>3, <2>4, FirstWriteSpends DEF Writes, Unresolved
  <2>6. e \notin Closed /\ UNCHANGED Closed
    BY <2>1, <2>2 DEF Closed, Unresolved, Active
  <2> QED
    BY <2>1, <2>2, <2>5, <2>6 DEF Authority!Use, Authority!Write
<1> QED
  BY <1>1, <1>2 DEF Writes

\* Every step is a step of the authority, or invisible to it.
LEMMA StepRefines == LoopIInv /\ [Next]_vars => [Authority!Next]_<<state, Spent, Closed>>
<1> SUFFICES ASSUME LoopIInv, [Next]_vars
             PROVE  Authority!Next \/ UNCHANGED <<state, Spent, Closed>>
  OBVIOUS
<1>1. CASE \E e \in Execs : Writes(e)' # Writes(e)
  BY <1>1, WriteIsUse DEF Authority!Next
<1>2. CASE \A e \in Execs : Writes(e)' = Writes(e)
  <2>1. \A e \in Execs : originalWrites'[e] = originalWrites[e] /\ recoveryWrites'[e] = recoveryWrites[e]
    <3> SUFFICES ASSUME NEW e \in Execs,
                        originalWrites'[e] # originalWrites[e] \/ recoveryWrites'[e] # recoveryWrites[e]
                 PROVE  Writes(e)' # Writes(e)
      BY <1>2
    <3>1. TypeOK /\ originalWrites[e] \in Nat /\ recoveryWrites[e] \in Nat
      BY WritesNat DEF LoopIInv
    <3>2. CASE originalWrites'[e] # originalWrites[e]
      BY <3>1, <3>2, OriginalWriteNeeds DEF Writes, TypeOK, ExecTypeOK
    <3>3. CASE recoveryWrites'[e] # recoveryWrites[e]
      BY <3>1, <3>3, RecoveryWriteNeeds DEF Writes, TypeOK, ActionTypeOK
    <3> QED
      BY <3>2, <3>3
  <2>2. UNCHANGED <<originalWrites, recoveryWrites>>
    <3>1. TypeOK /\ TypeOK'
      BY TypeStep DEF LoopIInv
    <3> QED
      BY <2>1, <3>1 DEF TypeOK, ExecTypeOK, ActionTypeOK
  <2>3. UNCHANGED state
    BY <2>2, StateOnlyByWrite DEF LoopIInv
  <2>4. UNCHANGED Spent
    BY <1>2 DEF Spent
  <2>5. UNCHANGED Closed \/ \E e \in Execs : Closed' = Closed \cup {e}
    BY ClosesOneAtMost DEF LoopIInv
  <2> QED
    BY <2>3, <2>4, <2>5 DEF Authority!Next, Authority!Close
<1> QED
  BY <1>1, <1>2

\* A new database is an unused authority.
LEMMA InitRefines == Init => Authority!Init
<1> SUFFICES ASSUME Init PROVE state \in States /\ Spent = {} /\ Closed = {}
  BY DEF Authority!Init
<1>1. \A e \in Execs : outcome[e] = "none"
  BY DEF Init, ExecInit
<1>2. ASSUME NEW e \in Execs PROVE ~(Writes(e) > 0)
  <2>1. originalWrites[e] = 0
    BY DEF Init, ExecInit
  <2>2. recoveryWrites[e] = 0
    BY DEF Init, ActionInit
  <2> QED
    BY <2>1, <2>2, SMT DEF Writes
<1> QED
  BY <1>1, <1>2 DEF Init, ExecInit, Spent, Closed

\* Every behaviour of the loop is, seen from the resource, one of the
\* single-use authority.
THEOREM SingleUseRefined == Spec => ImplementsSingleUse
<1>1. Init => Authority!Init
  BY InitRefines
<1>2. LoopIInv /\ [Next]_vars => [Authority!Next]_<<state, Spent, Closed>>
  BY StepRefines
<1> QED
  BY <1>1, <1>2, LoopIInvHolds, PTL DEF Spec, ImplementsSingleUse, Authority!Spec
=============================================================================
