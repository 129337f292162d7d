--------------------------- MODULE EngineeringTools ---------------------------
(* The engineering layer's tools side by side: the worktree lease, the       *)
(* admission database, the queue file, the one-shot hand-off and the token   *)
(* lifecycle.  They share no state and no call of one waits for another, so  *)
(* whatever each reaches it reaches with the others at rest; a behaviour     *)
(* works with one of them.                                                   *)
EXTENDS Naturals

CONSTANTS
  Processes, NoProcess, MaxFaults,
  NoState,
  Documents, NoDocument, MaxTime,
  Manifests, NoRecord, NoClaim, NoCall,
  Runs, Grants, NoGrant,
  MaxOthers, Unread

VARIABLES
  lockFile, holder, sharers, state, temporary, proc, faults,
  claims, durable, writer, callers, admitted, clock, failures,
  queue, drifted, call,
  rows, shared, runs, done, pending, sessions,
  own, others, late, flow, report,
  tool          \* the one that this behaviour works with

Lease     == INSTANCE WorktreeLease
Admission == INSTANCE CodexAdmission
Queue     == INSTANCE EngineeringQueue
Handoff   == INSTANCE HandoffDispatch
Token     == INSTANCE TokenLifecycle

\* The "nothing" values are none of the things, and a count that failed is none.
ASSUME ToolsAssumption ==
  /\ NoProcess \notin Processes
  /\ NoDocument \notin Documents
  /\ NoClaim \notin {m.id : m \in Manifests}
  /\ NoRecord \notin Queue!Records
  /\ MaxOthers \in Nat
  /\ Unread \notin Nat

leaseVars     == <<lockFile, holder, sharers, state, temporary, proc, faults>>
admissionVars == <<claims, durable, writer, callers, admitted, clock, failures>>
queueVars     == <<queue, drifted, call>>
handoffVars   == <<rows, shared, runs, done, pending, sessions>>
tokenVars     == <<own, others, late, flow, report>>
vars == <<leaseVars, admissionVars, queueVars, handoffVars, tokenVars, tool>>

Init ==
  /\ Lease!Init /\ Admission!Init /\ Queue!Init /\ Handoff!Init /\ Token!Init
  /\ tool \in {"lease", "admission", "queue", "handoff", "token"}

LeaseStep ==
  /\ tool = "lease"
  /\ Lease!Next
  /\ UNCHANGED <<admissionVars, queueVars, handoffVars, tokenVars, tool>>

AdmissionStep ==
  /\ tool = "admission"
  /\ Admission!Next
  /\ UNCHANGED <<leaseVars, queueVars, handoffVars, tokenVars, tool>>

QueueStep ==
  /\ tool = "queue"
  /\ Queue!Next
  /\ UNCHANGED <<leaseVars, admissionVars, handoffVars, tokenVars, tool>>

HandoffStep ==
  /\ tool = "handoff"
  /\ Handoff!Next
  /\ UNCHANGED <<leaseVars, admissionVars, queueVars, tokenVars, tool>>

TokenStep ==
  /\ tool = "token"
  /\ Token!Next
  /\ UNCHANGED <<leaseVars, admissionVars, queueVars, handoffVars, tool>>

Next == LeaseStep \/ AdmissionStep \/ QueueStep \/ HandoffStep \/ TokenStep

Spec == Init /\ [][Next]_vars

-----------------------------------------------------------------------------

\* WorktreeLease: who was given the lease can prove it until it gives it back,
\* and one process at a time is between locking and unlocking.
HeldIsVerified == Lease!HeldIsVerified

\* CodexAdmission: a nonce admits once, over all documents that carry it, and
\* who was admitted keeps its claim through a power failure.
AdmittedOnceForGood == Admission!AdmittedOnceForGood

\* EngineeringQueue: the state file always passes the shape check of its load.
QueueStaysLoadable == Queue!QueueStaysLoadable

\* HandoffDispatch: no two runs rely on one approval.
ConsumedOnce == Handoff!ConsumedOnce

\* HandoffDispatch: what a run left behind is claimed for and reported.
NothingUnaccounted == Handoff!NothingUnaccounted

\* TokenLifecycle: a verified cleanup means that the session is gone.
CleanedMeansGone == Token!CleanedMeansGone
=============================================================================
