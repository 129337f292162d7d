----------------------------- MODULE PositiveAuth -----------------------------
(* The forward-only campaign of positive-authentication plans.  Each version  *)
(* of the plan creates a key of its own, binds it, lets a workflow run the    *)
(* version's executor once, and removes the key again.  The executor issues a *)
(* session, probes the live service with it and logs the identity out.  A     *)
(* version that did not end well is never run again: a later one may run once *)
(* its executor finds the earlier ones stopped, retired, rejected or expired. *)
(* The owner's steps and the provider are external; the plan files are taken  *)
(* as what the owner has committed, which nobody changes afterwards.          *)
EXTENDS Integers, Sequences, FiniteSets

CONSTANTS
  Entries,     \* the stretches of versions followed: pairs of first and last
  FailingSteps \* the steps of the owner's plans that may be recorded as failed

Versions == 1..15

\* The continuations, each of an earlier version's unfinished plan.
C2 == 16
C4 == 17
C14 == 18
Continuations == {C2, C4, C14}

Boundaries == Versions \cup Continuations

\* The version whose key and binding a boundary uses.
KeyOf(b) == CASE b = C2 -> 2 [] b = C4 -> 4 [] b = C14 -> 14 [] OTHER -> b

VARIABLES
  stretch,     \* the stretch of the campaign this behaviour follows
  phase,       \* each plan: its documents, approval, window and overall state
  done,        \* how many of its steps are recorded as succeeded and verified
  key,         \* each version's provider key
  binding,     \* and its binding in the repository's secrets
  retired,     \* how far a stopped version's retirement is recorded
  fallback,    \* the separately approved cleanup plan of version 15
  run,         \* each executor: its workflow runs and where the first one is
  alive,       \* the executors whose session lives at the provider
  late,        \* the executors whose unanswered call may still issue one
  lifecycles,  \* how many lifecycles were started with each version's key
  logouts      \* how many global logouts each executor has asked for

vars == <<stretch, phase, done, key, binding, retired, fallback, run,
          alive, late, lifecycles, logouts>>

-----------------------------------------------------------------------------
(* Plans *)

LongPlan == <<"create", "bind", "see", "inspect", "execute", "inspect",
              "deleteKey", "deleteBinding", "keyAbsent", "bindingAbsent">>

StepsOf(b) ==
  CASE b = 15 -> <<"inspect", "create", "bind", "execute", "inspect",
                   "deleteKey", "deleteBinding", "keyAbsent", "bindingAbsent">>
    [] b = C4 -> SubSeq(LongPlan, 5, 6)
    [] b \in {C2, C14} -> SubSeq(LongPlan, 5, 10)
    [] OTHER -> LongPlan

NextStep(b) == IF done[b] < Len(StepsOf(b)) THEN StepsOf(b)[done[b] + 1] ELSE "none"

NoRun == [number |-> 0, pc |-> "idle", report |-> "none"]

Running(b) == run[b].pc \notin {"idle", "ended"}

Stopped(v) == phase[v] = "STOPPED"
Retired(v) == retired[v] \in {"once", "twice", "reconciled"}
RejectedLate(v) == phase[v] = "REJECTED_LATE"
ExpiredUnexecuted(v) == phase[v] = "EXPIRED"

-----------------------------------------------------------------------------
(* What each executor requires of the versions before it *)

PredecessorsV5 == Stopped(4) /\ Stopped(C4) /\ Retired(4)
PredecessorsV6 == Stopped(4) /\ Stopped(C4) /\ Retired(4)
PredecessorsV7 == retired[4] = "reconciled" /\ Stopped(6) /\ Retired(6)
PredecessorsV8 == PredecessorsV7 /\ RejectedLate(7)

\* Mutant: version 8 need not have been retired.
PredecessorsV9Stopped == PredecessorsV8 /\ Stopped(8)

PredecessorsV9 == PredecessorsV8 /\ Stopped(8) /\ Retired(8)
PredecessorsV10 == PredecessorsV9 /\ Stopped(9) /\ Retired(9)

\* Version 10 must have stopped before its executor touched the provider, its
\* first retirement stopped half way and its second one have finished.
PredecessorsV11 ==
  /\ PredecessorsV10
  /\ Stopped(10)
  /\ lifecycles[10] = 0
  /\ retired[10] = "twice"

PredecessorsV12 == PredecessorsV11 /\ RejectedLate(11)
PredecessorsV13 == PredecessorsV12 /\ RejectedLate(12)
PredecessorsV14 == PredecessorsV13 /\ ExpiredUnexecuted(13)

\* The continuations require the plan they continue to be as it was left.
OriginalOfC2 == phase[2] \in {"open", "over"} /\ done[2] = 3
OriginalOfC4 == Stopped(4) /\ done[4] = 3
OriginalOfC14 ==
  /\ phase[14] \in {"open", "over"}
  /\ done[14] = 4
  /\ run[14].report = "refused"
  /\ lifecycles[14] = 0

Predecessors(b) ==
  CASE b = 5 -> PredecessorsV5   [] b = 6 -> PredecessorsV6
    [] b = 7 -> PredecessorsV7   [] b = 8 -> PredecessorsV8
    [] b = 9 -> PredecessorsV9   [] b = 10 -> PredecessorsV10
    [] b = 11 -> PredecessorsV11 [] b = 12 -> PredecessorsV12
    [] b = 13 -> PredecessorsV13 [] b = 14 -> PredecessorsV14
    [] b = C2 -> OriginalOfC2    [] b = C4 -> OriginalOfC4
    [] b = C14 -> OriginalOfC14
    [] OTHER -> TRUE

-----------------------------------------------------------------------------
(* The gates: an executor reads the files, checks its boundary and has the    *)
(* engine authorize its step, in memory and for this process only.            *)

Authorizable(b) == phase[b] = "open" /\ NextStep(b) = "execute"

\* Version 6 demands the resource version of version 5 of its own plan.
RequiredResourceVersion(v) == IF v = 6 THEN 5 ELSE v
ResourceVersionMatches(v) == RequiredResourceVersion(v) = v

GateV1 == Authorizable(1)
GateV3 == Authorizable(3)
GateV4 == Authorizable(4)

BoundaryV5 == PredecessorsV5 /\ ResourceVersionMatches(5)
BoundaryV6 == PredecessorsV6 /\ ResourceVersionMatches(6)
BoundaryV7 == PredecessorsV7 /\ ResourceVersionMatches(7)
BoundaryV8 == PredecessorsV8 /\ ResourceVersionMatches(8)
BoundaryV9 == PredecessorsV9 /\ ResourceVersionMatches(9)
BoundaryV10 == PredecessorsV10 /\ ResourceVersionMatches(10)
BoundaryV11 == PredecessorsV11 /\ ResourceVersionMatches(11)
BoundaryV12 == PredecessorsV12 /\ ResourceVersionMatches(12)
BoundaryV13 == PredecessorsV13 /\ ResourceVersionMatches(13)
BoundaryV14 == PredecessorsV14 /\ ResourceVersionMatches(14)

GateV5 == BoundaryV5 /\ Authorizable(5)
GateV6 == BoundaryV6 /\ Authorizable(6)
GateV7 == BoundaryV7 /\ Authorizable(7)
GateV8 == BoundaryV8 /\ Authorizable(8)
GateV9 == BoundaryV9 /\ Authorizable(9)
GateV10 == BoundaryV10 /\ Authorizable(10)
GateV11 == BoundaryV11 /\ Authorizable(11)
GateV12 == BoundaryV12 /\ Authorizable(12)
GateV13 == BoundaryV13 /\ Authorizable(13)
GateV14 == BoundaryV14 /\ Authorizable(14)

\* Version 15 looks at no earlier version, but at its own way back.
FallbackReady == fallback = "ready"
GateV15 == Authorizable(15) /\ FallbackReady

GateC2 == OriginalOfC2 /\ Authorizable(C2)
GateC4 == OriginalOfC4 /\ Authorizable(C4)
GateC14 == OriginalOfC14 /\ Authorizable(C14)

\* Version 2 has a plan but no executor of its own.
Gate(b) ==
  CASE b = 1 -> GateV1   [] b = 3 -> GateV3   [] b = 4 -> GateV4
    [] b = 5 -> GateV5   [] b = 6 -> GateV6   [] b = 7 -> GateV7
    [] b = 8 -> GateV8   [] b = 9 -> GateV9   [] b = 10 -> GateV10
    [] b = 11 -> GateV11 [] b = 12 -> GateV12 [] b = 13 -> GateV13
    [] b = 14 -> GateV14 [] b = 15 -> GateV15
    [] b = C2 -> GateC2  [] b = C4 -> GateC4  [] b = C14 -> GateC14
    [] OTHER -> FALSE

\* Mutant: any run may.
AnyRun(n) == n > 0

\* Only the first run of a workflow, and its first attempt, may do anything.
FirstRun(n) == n = 1

-----------------------------------------------------------------------------
(* Entering the campaign: the versions before the first one followed are as   *)
(* the repository's own record has them.                                      *)

Earlier(b) == KeyOf(b) < stretch[1]

RecordedPhase(b) ==
  CASE b \in {4, 6, 8, 9, 10} \cup Continuations -> "STOPPED"
    [] b \in {7, 11, 12} -> "REJECTED_LATE"
    [] b \in {2, 14} -> "over"
    [] OTHER -> "EXPIRED"

RecordedDone(b) ==
  CASE b \in {2, 4} -> 3 [] b \in {6, 8} -> 1 [] b \in {9, 10, 14} -> 4 [] OTHER -> 0

RecordedRetirement(b) ==
  CASE b = 4 -> "reconciled" [] b = 10 -> "twice"
    [] b \in {2, 6, 8, 9, 14} -> "once" [] OTHER -> "none"

Init ==
  /\ stretch \in Entries
  /\ phase = [b \in Boundaries |-> IF Earlier(b) THEN RecordedPhase(b) ELSE "none"]
  /\ done = [b \in Boundaries |-> IF Earlier(b) THEN RecordedDone(b) ELSE 0]
  /\ retired = [v \in Versions |-> IF Earlier(v) THEN RecordedRetirement(v) ELSE "none"]
  /\ key = [v \in Versions |->
              IF Earlier(v) /\ RecordedDone(v) >= 1 THEN "gone" ELSE "none"]
  /\ binding = [v \in Versions |->
              IF Earlier(v) /\ RecordedDone(v) >= 2 THEN "gone" ELSE "none"]
  /\ fallback = "none"
  /\ run = [b \in Boundaries |-> NoRun]
  /\ alive = {}
  /\ late = {}
  /\ lifecycles = [v \in Versions |->
              IF Earlier(v) /\ v \in {2, 4, 14} THEN 1 ELSE 0]
  /\ logouts = [b \in Boundaries |-> 0]

-----------------------------------------------------------------------------
(* The owner, who works by the plans; external *)

SetPhase(b, p) ==
  /\ phase' = [phase EXCEPT ![b] = p]
  /\ UNCHANGED <<stretch, done, retired, fallback, key, binding, run,
                 alive, late, lifecycles, logouts>>

\* The documents pin the digests of what they follow, so that ones written
\* earlier could never pass.
Prepare(b) ==
  /\ phase[b] = "none"
  /\ KeyOf(b) \in stretch[1]..stretch[2]
  /\ b \in Versions /\ b > stretch[1] => phase[b - 1] \notin {"none", "prepared", "approved"}
  /\ b \in Continuations => alive = {}
  /\ Predecessors(b)
  /\ SetPhase(b, "prepared")

\* The approval's deadline is the start of the window.
Approve(b) == phase[b] = "prepared" /\ SetPhase(b, "approved")

WindowOpens(b) ==
  \/ phase[b] = "approved" /\ SetPhase(b, "open")
  \/ phase[b] = "prepared" /\ SetPhase(b, "late")

WindowCloses(b) == phase[b] = "open" /\ SetPhase(b, "over")

RejectLate(b) == phase[b] = "late" /\ SetPhase(b, "REJECTED_LATE")

\* Nothing was done and no workflow run: the plan is recorded as expired.
Expire(b) ==
  /\ b \in Versions /\ phase[b] = "over"
  /\ done[b] = 0 /\ key[b] = "none" /\ run[b].number = 0
  /\ SetPhase(b, "EXPIRED")

\* A step is recorded as failed, by a review of the plan or for its outcome.
Stop(b) ==
  /\ phase[b] = "open" /\ ~Running(b)
  /\ NextStep(b) \in FailingSteps
  /\ SetPhase(b, "STOPPED")

\* What a step of the owner does at the provider and in the repository.
Act(b) ==
  LET v == KeyOf(b)  s == NextStep(b)
  IN /\ phase[b] = "open"
     /\ \/ /\ s = "create" /\ key[v] = "none"
           /\ key' = [key EXCEPT ![v] = "live"] /\ UNCHANGED binding
        \/ /\ s = "bind" /\ key[v] = "live" /\ binding[v] = "none"
           /\ binding' = [binding EXCEPT ![v] = "live"] /\ UNCHANGED key
        \/ /\ s = "deleteKey" /\ key[v] = "live"
           /\ key' = [key EXCEPT ![v] = "gone"] /\ UNCHANGED binding
        \/ /\ s = "deleteBinding" /\ binding[v] = "live"
           /\ binding' = [binding EXCEPT ![v] = "gone"] /\ UNCHANGED key
     /\ UNCHANGED <<stretch, phase, done, retired, fallback, run,
                    alive, late, lifecycles, logouts>>

Evident(b, s) ==
  LET v == KeyOf(b)
  IN CASE s = "create" -> key[v] = "live"
       [] s \in {"bind", "see"} -> binding[v] = "live"
       [] s = "inspect" -> alive = {}
       [] s = "execute" -> run[b].pc = "ended" /\ run[b].report = "accepted"
       [] s \in {"deleteKey", "keyAbsent"} -> key[v] = "gone"
       [] s \in {"deleteBinding", "bindingAbsent"} -> binding[v] = "gone"
       [] OTHER -> FALSE

\* The step's success is recorded, while the window is open.
Record(b) ==
  /\ phase[b] = "open"
  /\ Evident(b, NextStep(b))
  /\ done' = [done EXCEPT ![b] = @ + 1]
  /\ phase' = IF done[b] + 1 = Len(StepsOf(b))
              THEN [phase EXCEPT ![b] = "COMPLETED"] ELSE phase
  /\ UNCHANGED <<stretch, retired, fallback, key, binding, run,
                 alive, late, lifecycles, logouts>>

\* A retirement is a plan of its own: delete the key, verify that, delete the
\* binding, verify that.  Its window may close half way; then a second one does
\* no more than verify.
Retirable(v) ==
  \/ Stopped(v)
  \/ \E c \in Continuations : KeyOf(c) = v /\ Stopped(c)

RetireSecrets(v) ==
  /\ Retirable(v)
  /\ \/ /\ retired[v] = "none" /\ key[v] = "live"
        /\ key' = [key EXCEPT ![v] = "gone"] /\ UNCHANGED binding
     \/ /\ retired[v] \in {"begun", "lapsed"} /\ binding[v] = "live"
        /\ binding' = [binding EXCEPT ![v] = "gone"] /\ UNCHANGED key
  /\ UNCHANGED <<stretch, phase, done, retired, fallback, run,
                 alive, late, lifecycles, logouts>>

RecordRetirement(v) ==
  /\ Retirable(v)
  /\ \/ /\ retired[v] = "none" /\ key[v] # "live"
        /\ retired' = [retired EXCEPT ![v] = "begun"]
     \/ /\ retired[v] = "begun"
        /\ retired' = [retired EXCEPT ![v] = "lapsed"]
     \/ /\ retired[v] = "begun" /\ binding[v] # "live"
        /\ retired' = [retired EXCEPT ![v] = "once"]
     \/ /\ retired[v] = "lapsed" /\ binding[v] # "live"
        /\ retired' = [retired EXCEPT ![v] = "twice"]
     \/ /\ v = 4 /\ retired[v] \in {"once", "twice"} /\ binding[v] # "live"
        /\ retired' = [retired EXCEPT ![v] = "reconciled"]
  /\ UNCHANGED <<stretch, phase, done, fallback, key, binding, run,
                 alive, late, lifecycles, logouts>>

\* The cleanup plan of version 15 is approved, and its own window closes.
Fallback ==
  /\ phase[15] # "none"
  /\ \/ fallback = "none" /\ fallback' = "ready"
     \/ fallback = "ready" /\ fallback' = "over"
  /\ UNCHANGED <<stretch, phase, done, retired, key, binding, run,
                 alive, late, lifecycles, logouts>>

-----------------------------------------------------------------------------
(* The executor's process, one workflow run at a time *)

SetRun(b, pc, report) == run' = [run EXCEPT ![b].pc = pc, ![b].report = report]

Ends(b, report) == SetRun(b, "ended", report)

\* The owner starts the workflow; its first part holds no secret.  A gate may
\* always refuse: the documents may break a schema or a digest binding.
Dispatch(b) ==
  LET n == run[b].number + 1
  IN /\ phase[b] \in {"open", "over"}
     /\ b # 2 /\ ~Running(b) /\ n <= 2
     /\ \/ /\ FirstRun(n) /\ Gate(b)
           /\ run' = [run EXCEPT ![b] = [number |-> n, pc |-> "cleared", report |-> "none"]]
        \/ run' = [run EXCEPT ![b] = [number |-> n, pc |-> "ended",
                     report |-> IF @.report = "none" THEN "refused" ELSE @.report]]
     /\ UNCHANGED <<stretch, phase, done, retired, fallback, key, binding,
                    alive, late, lifecycles, logouts>>

\* The second part reads everything again, then its secrets.
Proceed(b) ==
  /\ run[b].pc = "cleared"
  /\ \/ Gate(b) /\ binding[KeyOf(b)] = "live" /\ SetRun(b, "authorized", "none")
     \/ Ends(b, "refused")
  /\ UNCHANGED <<stretch, phase, done, retired, fallback, key, binding,
                 alive, late, lifecycles, logouts>>

\* The recovery credential is asked for with the version's key.
Generate(b) ==
  /\ run[b].pc = "authorized"
  /\ lifecycles' = [lifecycles EXCEPT ![KeyOf(b)] = @ + 1]
  /\ \/ key[KeyOf(b)] = "live" /\ SetRun(b, "generated", "none")
     \/ Ends(b, "failed")
  /\ UNCHANGED <<stretch, phase, done, retired, fallback, key, binding,
                 alive, late, logouts>>

\* The credential is exchanged for a session, once; the answer may be lost
\* with the session issued, not issued, or issued later.
Verify(b) ==
  /\ run[b].pc = "generated"
  /\ \/ SetRun(b, "held", "none") /\ alive' = alive \cup {b} /\ UNCHANGED late
     \/ Ends(b, "failed") /\ alive' \in {alive, alive \cup {b}} /\ UNCHANGED late
     \/ Ends(b, "failed") /\ late' = late \cup {b} /\ UNCHANGED alive
  /\ UNCHANGED <<stretch, phase, done, retired, fallback, key, binding,
                 lifecycles, logouts>>

LateSession(b) ==
  /\ b \in late
  /\ late' = late \ {b}
  /\ alive' = alive \cup {b}
  /\ UNCHANGED <<stretch, phase, done, retired, fallback, key, binding,
                 run, lifecycles, logouts>>

\* The token is validated and the live service probed with it.
Probe(b) ==
  /\ run[b].pc = "held"
  /\ \E pc \in {"probed", "failing"} : SetRun(b, pc, "none")
  /\ UNCHANGED <<stretch, phase, done, retired, fallback, key, binding,
                 alive, late, lifecycles, logouts>>

\* What an executor may claim after a logout the provider accepted.
AfterLogout(b) == IF run[b].pc = "probed" THEN "accepted" ELSE "failed"

\* Mutant: a logout that failed is taken for one that was accepted.
AfterAnyLogout(b) == AfterLogout(b)

\* A logout that fails on the way out is told apart from any other failure.
AfterFailedLogout(b) == IF run[b].pc = "probed" THEN "failed" ELSE "unverified"

\* A logout is asked for once, on either path; nothing is tried after it.
Logout(b) ==
  /\ run[b].pc \in {"probed", "failing"}
  /\ logouts' = [logouts EXCEPT ![b] = @ + 1]
  /\ \/ alive' = {} /\ Ends(b, AfterLogout(b))
     \/ alive' \in {alive, {}} /\ Ends(b, AfterFailedLogout(b))
  /\ UNCHANGED <<stretch, phase, done, retired, fallback, key, binding,
                 late, lifecycles>>

\* The workflow is cancelled or runs out of its minutes.
Die(b) ==
  /\ Running(b)
  /\ Ends(b, "silent")
  /\ UNCHANGED <<stretch, phase, done, retired, fallback, key, binding,
                 alive, late, lifecycles, logouts>>

\* The provider ends a session that nobody logged out.
SessionExpires(b) ==
  /\ b \in alive /\ ~Running(b)
  /\ alive' = alive \ {b}
  /\ UNCHANGED <<stretch, phase, done, retired, fallback, key, binding,
                 run, late, lifecycles, logouts>>

Next ==
  \/ \E b \in Boundaries :
       \/ Prepare(b) \/ Approve(b) \/ WindowOpens(b) \/ WindowCloses(b)
       \/ RejectLate(b) \/ Expire(b) \/ Stop(b) \/ Act(b) \/ Record(b)
       \/ Dispatch(b) \/ Proceed(b) \/ Generate(b) \/ Verify(b)
       \/ LateSession(b) \/ Probe(b) \/ Logout(b) \/ Die(b) \/ SessionExpires(b)
  \/ \E v \in Versions : RetireSecrets(v) \/ RecordRetirement(v)
  \/ Fallback

Spec == Init /\ [][Next]_vars

-----------------------------------------------------------------------------

\* While an executor of version 7 to 14 runs, version 4's binding is not in force,
\* of the versions from 6 to the one before it neither key nor binding is, and
\* none of their executors runs: each later file repeats the checks of the one
\* before and adds its own.  From version 7 on no file checks the key of version 4
\* or anything of version 5, so nothing is said of those.
PredecessorsGone ==
  \A v \in 7..14 :
    Running(v) =>
      /\ binding[4] # "live"
      /\ \A u \in 6..(v - 1) :
           key[u] # "live" /\ binding[u] # "live" /\ ~Running(u)

\* One key sees at most one lifecycle, over repeated workflow runs and over a
\* plan and its continuation, although nothing the executor does is recorded
\* before its process has ended.
OneLifecyclePerKey == \A v \in Versions : lifecycles[v] <= 1

\* No executor asks for a second logout, and what it reports is never less than
\* what may be left: after an accepted logout its session is gone for good, and
\* one that may still live was reported as an attempt that needs a readback.
SessionsAccounted ==
  \A b \in Boundaries :
    /\ logouts[b] <= 1
    /\ run[b].report = "accepted" => logouts[b] = 1 /\ b \notin alive \cup late
    /\ b \in alive \cup late /\ ~Running(b) =>
         run[b].report \in {"failed", "unverified", "silent"}
    /\ run[b].report = "unverified" => logouts[b] = 1
=============================================================================
