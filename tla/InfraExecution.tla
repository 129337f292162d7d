--------------------------- MODULE InfraExecution ---------------------------
(***************************************************************************)
(* The one-attempt executor of the LOCAL infrastructure authority loop     *)
(* (src/avuhz_runtime/local_infrastructure_execution.py) and the durable   *)
(* fence protocol it shares with recovery (local_infrastructure_fencing).  *)
(*                                                                         *)
(* All state is in one SQLite file.  Every transaction starts with BEGIN   *)
(* IMMEDIATE, so each is one atomic step here; what interleaves are the    *)
(* transactions of different processes, and a process may die between its  *)
(* own.  A storage error, a full immutable table (256 rows) or a denied    *)
(* guard rolls the transaction back: the step is then not taken, or, where *)
(* the caller goes on in spite of it, an action of its own.                *)
(***************************************************************************)
EXTENDS Naturals

CONSTANTS
    Execs,       \* execution ids
    Approvals,   \* diagnostic approval ids
    ApprovalOf,  \* the approval each execution is registered for
    States,      \* (digest, version) pairs of the simulated resource
    Expected,    \* the pre-state each execution's manifest pins
    Desired,     \* the post-state each execution's manifest pins
    Bump,        \* a state with its version advanced by the interference fixture
    Legacy,      \* executions registered before the fence protocol existed
    Executors,   \* processes that may call execute()
    NoExec       \* "no execution": an idle process

ASSUME ExecutionAssumption ==
    /\ ApprovalOf \in [Execs -> Approvals]
    /\ Expected \in [Execs -> States]
    /\ Desired \in [Execs -> States]
    /\ Bump \in [States -> States]
    /\ Legacy \subseteq Execs
    /\ \A e, f \in Legacy : ApprovalOf[e] = ApprovalOf[f] => e = f
    /\ NoExec \notin Execs

VARIABLES
    registered,     \* execution_registry: rows
    revoked,        \* execution_registry: rows with revoked = 1
    consumed,       \* execution_registry: rows with consumed = 1
    outcome,        \* local_attempts: the outcome column, "none" without a row
    protocol,       \* local_execution_fence_protocol
    dispatches,     \* local_execution_dispatches: receipts
    fences,         \* local_execution_fences
    state,          \* simulated_resource_state: the one scoped row
    executor,       \* where each process is between its transactions
    originalWrites  \* history: dispatch transactions that wrote the resource

registryVars == <<registered, revoked, protocol>>
ledgerVars   == <<registered, revoked, consumed, outcome, protocol, dispatches, fences>>
execVars     == <<ledgerVars, state, executor, originalWrites>>

Outcomes == {"ATTEMPTED", "UNCERTAIN"}

Idle == [step |-> "idle", exec |-> NoExec, acked |-> FALSE]

ExecTypeOK ==
    /\ registered \subseteq Execs
    /\ revoked \subseteq Execs
    /\ consumed \subseteq Execs
    /\ outcome \in [Execs -> Outcomes \cup {"none"}]
    /\ protocol \subseteq Execs
    /\ dispatches \subseteq Execs
    /\ fences \subseteq Execs
    /\ state \in States
    /\ executor \in [Executors -> [step  : {"idle", "reserved", "dispatched"},
                                   exec  : Execs \cup {NoExec},
                                   acked : BOOLEAN]]
    /\ \A x \in Executors : executor[x].step # "idle" => executor[x].exec \in Execs
    /\ originalWrites \in [Execs -> Nat]

\* A database whose only rows, if any, are unconsumed legacy registrations.
ExecInit ==
    /\ registered = Legacy
    /\ revoked = {}
    /\ consumed = {}
    /\ outcome = [e \in Execs |-> "none"]
    /\ protocol = {}
    /\ dispatches = {}
    /\ fences = {}
    /\ state \in States
    /\ executor = [x \in Executors |-> Idle]
    /\ originalWrites = [e \in Execs |-> 0]

-----------------------------------------------------------------------------
(* Provisioning: the constructor of LocalTestInfrastructureExecution.      *)

\* The UNIQUE columns: no other execution holds this approval.
ApprovalFree(e) == \A f \in registered : ApprovalOf[f] # ApprovalOf[e]

\* A new registry row and its fence-protocol row commit together; only a new
\* row is enrolled, so a legacy one never is.
Register(e) ==
    /\ e \notin registered
    /\ ApprovalFree(e)
    /\ registered' = registered \cup {e}
    /\ protocol' = protocol \cup {e}
    /\ \E status \in {"ACTIVE", "REVOKED"} :
         revoked' = IF status = "REVOKED" THEN revoked \cup {e} ELSE revoked
    /\ UNCHANGED <<consumed, outcome, dispatches, fences, state, executor, originalWrites>>

\* Provisioning an existing row again with a REVOKED approval.
RevokeExecution(e) ==
    /\ e \in registered
    /\ revoked' = revoked \cup {e}
    /\ UNCHANGED <<registered, consumed, outcome, protocol, dispatches, fences,
                   state, executor, originalWrites>>

-----------------------------------------------------------------------------
(* The fence protocol: checks made inside the caller's transaction.        *)

\* A registry row with revoked = 0.
Active(e) == e \in registered \ revoked

\* _registered: enrolled, not revoked, consumed, and the attempt unresolved.
Unresolved(e) ==
    /\ e \in protocol
    /\ Active(e)
    /\ e \in consumed
    /\ outcome[e] = "ATTEMPTED"

\* dispatch: neither fenced nor dispatched before.
MayDispatch(e) ==
    /\ Unresolved(e)
    /\ e \notin fences
    /\ e \notin dispatches

\* fence: no committed dispatch; fencing again is idempotent.
MayFence(e) ==
    /\ Unresolved(e)
    /\ e \notin dispatches

-----------------------------------------------------------------------------
(* execute(): three transactions.                                          *)

\* Neither an attempt row nor consumption, and the expected pre-state.
MayReserve(e) ==
    /\ Active(e)
    /\ outcome[e] = "none"
    /\ e \notin consumed
    /\ state = Expected[e]

\* Transaction 1: the attempt row and the consumption commit together, with
\* the pre-state observed under the writer lock.  A replay of a reserved
\* execution returns the stored outcome and changes nothing.
Reserve(x, e) ==
    /\ executor[x].step = "idle"
    /\ MayReserve(e)
    /\ outcome' = [outcome EXCEPT ![e] = "ATTEMPTED"]
    /\ consumed' = consumed \cup {e}
    /\ executor' = [executor EXCEPT ![x] = [step |-> "reserved", exec |-> e, acked |-> FALSE]]
    /\ UNCHANGED <<registryVars, dispatches, fences, state, originalWrites>>

\* Transaction 2: receipt, interference fixture, revocation recheck and CAS.
\* The receipt commits even when the CAS finds another state; an
\* acknowledgment may be lost after the commit.
Dispatch(x) ==
    LET e == executor[x].exec IN
    /\ executor[x].step = "reserved"
    /\ MayDispatch(e)
    /\ e \notin revoked
    /\ dispatches' = dispatches \cup {e}
    /\ \E interfere, acknowledged \in BOOLEAN :
         LET before  == IF interfere THEN Bump[state] ELSE state
             swapped == before = Expected[e]
         IN  /\ state' = IF swapped THEN Desired[e] ELSE before
             /\ originalWrites' = IF swapped \/ interfere
                                    THEN [originalWrites EXCEPT ![e] = @ + 1]
                                    ELSE originalWrites
             /\ executor' = [executor EXCEPT
                               ![x] = [step  |-> "dispatched", exec |-> e,
                                       acked |-> swapped /\ acknowledged]]
    /\ UNCHANGED <<registryVars, consumed, outcome, fences>>

\* Transaction 2 denied or rolled back: the executor goes on, uncertain.
DispatchRefused(x) ==
    /\ executor[x].step = "reserved"
    /\ executor' = [executor EXCEPT ![x] = [step |-> "dispatched", exec |-> executor[x].exec,
                                            acked |-> FALSE]]
    /\ UNCHANGED <<ledgerVars, state, originalWrites>>

\* What the executor may say about its own write: never that it is verified.
Recorded(acked) == IF acked THEN "ATTEMPTED" ELSE "UNCERTAIN"

\* Transaction 3: UPDATE ... WHERE outcome = 'ATTEMPTED'.
RecordOutcome(x) ==
    LET e == executor[x].exec IN
    /\ executor[x].step = "dispatched"
    /\ outcome[e] = "ATTEMPTED"
    /\ outcome' = [outcome EXCEPT ![e] = Recorded(executor[x].acked)]
    /\ executor' = [executor EXCEPT ![x] = Idle]
    /\ UNCHANGED <<registryVars, consumed, dispatches, fences, state, originalWrites>>

\* The process dies, or returns early: after the reservation (a crash, or a
\* commit whose reply is lost) or with the outcome unrecorded.
ExecutorStops(x) ==
    /\ executor[x].step # "idle"
    /\ executor' = [executor EXCEPT ![x] = Idle]
    /\ UNCHANGED <<ledgerVars, state, originalWrites>>

ExecNext ==
    \/ \E e \in Execs : Register(e) \/ RevokeExecution(e)
    \/ \E x \in Executors :
         \/ \E e \in Execs : Reserve(x, e)
         \/ Dispatch(x)
         \/ DispatchRefused(x)
         \/ RecordOutcome(x)
         \/ ExecutorStops(x)
=============================================================================
