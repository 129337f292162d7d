---------------------------- MODULE SessionCleanup ----------------------------
(* What followed the last token validation, whose session was left at the     *)
(* provider: an inspection, three cleanups, two diagnostics of the provider's *)
(* answer, and the repaired lifecycle with its validation, each under a plan  *)
(* of its own whose documents pin what went before.  All but the inspection   *)
(* begin a session; the diagnostics leave it, the others log the user out     *)
(* everywhere, if they get that far.  A workflow run works on the files of    *)
(* the commit it was dispatched at, however long it was queued.               *)
EXTENDS Naturals, FiniteSets

CONSTANTS
  Stretches,   \* the parts of the sequence followed: sets of executors
  MaxRuns      \* bound: workflow runs of each executor

Readers == {"inspection"}
Diagnostics == {"shape", "predicate"}
Cleanups == {"v1", "v2", "v4", "repaired", "v3"}
Executors == Readers \cup Diagnostics \cup Cleanups
Jobs == Executors \X (1..MaxRuns)

\* In the order of their windows.
Position == [inspection |-> 1, v1 |-> 2, v2 |-> 3, v4 |-> 4, shape |-> 5,
             predicate |-> 6, repaired |-> 7, v3 |-> 8]

\* The session of the last token validation.
Leftover == <<"v32", 1>>

VARIABLES
  followed,    \* the part of the sequence this behaviour follows
  progress,    \* each plan's progress, as the owner has committed it
  window,      \* each plan's approval and window
  credential,  \* the repair of the cleanup credential, itself a plan
  job,         \* each workflow run: where it is and what it has reported
  sessions,    \* whose sessions live at the provider
  pending      \* the runs whose unanswered verification may still begin one

vars == <<followed, progress, window, credential, job, sessions, pending>>

NoJob == [pc |-> "none", seen |-> FALSE, attempted |-> FALSE, asked |-> FALSE,
          report |-> "none"]

Earlier(b) == \A c \in followed : Position[b] < Position[c]

\* What comes before the part followed is as the repository's record has it.
RecordedProgress(b) ==
  IF b \in {"inspection", "v1", "v2", "v4"} THEN "STOPPED" ELSE "COMPLETED"

Init ==
  /\ followed \in Stretches
  /\ progress = [b \in Executors |-> IF Earlier(b) THEN RecordedProgress(b) ELSE "none"]
  /\ window = [b \in Executors |-> IF Earlier(b) THEN "over" ELSE "none"]
  /\ credential = IF Earlier("v1") THEN "repaired" ELSE "unusable"
  /\ job = [j \in Jobs |-> NoJob]
  /\ sessions = {Leftover}
  /\ pending = {}

Ended(j) == job[j].pc = "ended"
Active(j) == job[j].pc \notin {"none", "queued", "ended"}

Goes(j, pc) == job' = [job EXCEPT ![j].pc = pc]
Reports(j, report) == job' = [job EXCEPT ![j].pc = "ended", ![j].report = report]

\* What a report gives the owner to act on: that a mutation was attempted or,
\* from the first cleanup whatever happened, that a readback is required.
Warns(j) == job[j].attempted \/ j[1] = "v1"

\* What the read of the user's sessions comes to.
Classification ==
  IF sessions = {} THEN "CLEAN_0_0" ELSE "SESSION_AND_REFRESH_PRESENT"

-----------------------------------------------------------------------------
(* What the files must say                                                    *)

Finished(b) == progress[b] \in {"COMPLETED", "STOPPED"}

CredentialRepaired == credential = "repaired"

InspectionFiles == progress["inspection"] = "none"
CleanupV1Files == progress["v1"] = "counted"
CleanupV2Files == progress["v2"] = "counted" /\ CredentialRepaired
ShapeFiles == progress["shape"] = "none" /\ progress["v2"] = "STOPPED"
PredicateFiles == progress["predicate"] = "none" /\ Finished("shape")

CleanupV4Bindings == progress["v2"] = "STOPPED" /\ CredentialRepaired
CleanupV4Files == progress["v4"] = "none" /\ CleanupV4Bindings

RepairedBindings == Finished("predicate") /\ progress["v4"] = "STOPPED"
RepairedFiles == progress["repaired"] = "none" /\ RepairedBindings

ValidationV3Bindings == progress["repaired"] = "COMPLETED"
ValidationV3Files == progress["v3"] = "none" /\ ValidationV3Bindings

Files(b) ==
  CASE b = "inspection" -> InspectionFiles [] b = "v1" -> CleanupV1Files
    [] b = "v2" -> CleanupV2Files          [] b = "v4" -> CleanupV4Files
    [] b = "shape" -> ShapeFiles           [] b = "predicate" -> PredicateFiles
    [] b = "repaired" -> RepairedFiles     [] OTHER -> ValidationV3Files

\* The executors that run only as the first run of their workflow.
OnceOnly == {"v2", "v4", "repaired", "v3"}

\* Mutant: any run will do.
AnyInvocation(b, n) == n \in Nat

ValidInvocation(b, n) == b \in OnceOnly => n = 1

-----------------------------------------------------------------------------
(* A workflow run                                                             *)

\* The owner dispatches it at the commit that is there now.
Dispatch(b, n) ==
  /\ job[<<b, n>>].pc = "none"
  /\ \A m \in 1..(n - 1) : job[<<b, m>>].pc # "none"
  /\ window[b] = "open"
  /\ job' = [job EXCEPT ![<<b, n>>].pc = "queued", ![<<b, n>>].seen = Files(b)]
  /\ UNCHANGED <<followed, progress, window, credential, sessions, pending>>

\* When the workflow's earlier runs are over the files are looked at, without
\* any secret at hand; the documents may also have other faults.
Preflight(b, n) ==
  LET j == <<b, n>>
  IN /\ job[j].pc = "queued"
     /\ \A m \in 1..(n - 1) : Ended(<<b, m>>)
     /\ \/ /\ ValidInvocation(b, n) /\ job[j].seen /\ window[b] = "open"
           /\ Goes(j, "cleared")
        \/ Reports(j, "refused")
     /\ UNCHANGED <<followed, progress, window, credential, sessions, pending>>

\* Looked at once more, and the secrets read: from here on a report says that
\* a mutation was attempted, but for the first cleanup's, which never says so.
Proceed(b, n) ==
  LET j == <<b, n>>
  IN /\ job[j].pc = "cleared"
     /\ \/ /\ window[b] = "open"
           /\ \/ b \in Readers /\ Goes(j, "inspect")
              \/ /\ b \notin Readers /\ (b \in OnceOnly => CredentialRepaired)
                 /\ job' = [job EXCEPT ![j].pc = "generate", ![j].attempted = b # "v1"]
        \/ Reports(j, "refused")
     /\ UNCHANGED <<followed, progress, window, credential, sessions, pending>>

\* The inspection reads and never mutates.
Inspect(j) ==
  /\ job[j].pc = "inspect"
  /\ Reports(j, Classification) \/ Reports(j, "unverified")
  /\ UNCHANGED <<followed, progress, window, credential, sessions, pending>>

\* The recovery credential is asked for.
Generate(j) ==
  /\ job[j].pc = "generate"
  /\ \E pc \in {"verify", "ended"} :
       job' = [job EXCEPT ![j].asked = TRUE, ![j].pc = pc,
                          ![j].report = IF pc = "ended" THEN "failed" ELSE @]
  /\ UNCHANGED <<followed, progress, window, credential, sessions, pending>>

\* A diagnostic looks at the answer's shape and has nothing to log out with;
\* the answer to the others may be a session they do not recognize.
Verify(j) ==
  /\ job[j].pc = "verify"
  /\ \/ /\ sessions' = sessions \cup {j} /\ UNCHANGED pending
        /\ IF j[1] \in Diagnostics THEN Reports(j, "observed") ELSE Goes(j, "validate")
     \/ /\ Reports(j, "failed")
        /\ \/ sessions' \in {sessions, sessions \cup {j}} /\ UNCHANGED pending
           \/ pending' = pending \cup {j} /\ UNCHANGED sessions
  /\ UNCHANGED <<followed, progress, window, credential>>

\* A token that does not validate ends the run, without a logout.
ValidateJwt(j) ==
  /\ job[j].pc = "validate"
  /\ Goes(j, "logout") \/ Reports(j, "failed")
  /\ UNCHANGED <<followed, progress, window, credential, sessions, pending>>

LogoutGlobal(j) ==
  /\ job[j].pc = "logout"
  /\ \/ sessions' = {} /\ Reports(j, "accepted")
     \/ sessions' \in {sessions, {}} /\ Reports(j, "failed")
  /\ UNCHANGED <<followed, progress, window, credential, pending>>

Die(j) ==
  /\ Active(j)
  /\ Reports(j, "silent")
  /\ UNCHANGED <<followed, progress, window, credential, sessions, pending>>

-----------------------------------------------------------------------------
(* The owner and the provider; external                                       *)

Commit(b, state) ==
  /\ progress' = [progress EXCEPT ![b] = state]
  /\ UNCHANGED <<followed, window, credential, job, sessions, pending>>

\* Only the windows of the second diagnostic and the repaired lifecycle meet.
\* The documents are written on what they pin, so not before it is there.
OpenWindow(b) ==
  /\ window[b] = "none" /\ b \in followed
  /\ \A c \in Executors \ {b} :
       window[c] = "open" => <<c, b>> = <<"predicate", "repaired">>
  /\ \A c \in Executors : Position[c] > Position[b] => window[c] = "none"
  /\ \/ b \in {"v1", "inspection"}
     \/ b = "v2" /\ progress["v1"] = "STOPPED" /\ CredentialRepaired
     \/ b \notin {"v1", "v2", "inspection"} /\ Files(b)
  /\ window' = [window EXCEPT ![b] = "open"]
  /\ UNCHANGED <<followed, progress, credential, job, sessions, pending>>

CloseWindow(b) ==
  /\ window[b] = "open"
  /\ window' = [window EXCEPT ![b] = "over"]
  /\ UNCHANGED <<followed, progress, credential, job, sessions, pending>>

\* The first step of the first two cleanups: exactly one session to end.
CountFirst(b) ==
  /\ b \in {"v1", "v2"} /\ window[b] = "open" /\ progress[b] = "none"
  /\ Commit(b, IF Cardinality(sessions) = 1 THEN "counted" ELSE "STOPPED")

\* A run that ended is recorded for what it reported, while none is under way.
RecordRun(b) ==
  /\ progress[b] = IF b \in {"v1", "v2"} THEN "counted" ELSE "none"
  /\ \A m \in 1..MaxRuns : ~Active(<<b, m>>)
  /\ \E n \in 1..MaxRuns :
       /\ Ended(<<b, n>>)
       /\ Commit(b, CASE job[<<b, n>>].report = "accepted" -> "executed"
                      [] job[<<b, n>>].report = "observed" -> "COMPLETED"
                      [] job[<<b, n>>].report = "CLEAN_0_0" -> "COMPLETED"
                      [] OTHER -> "STOPPED")

\* The last step of a cleanup: no session is left, as read back.
Readback(b) ==
  /\ progress[b] = "executed"
  /\ Commit(b, IF sessions = {} THEN "COMPLETED" ELSE "STOPPED")

RepairCredential ==
  /\ credential = "unusable" /\ progress["v1"] = "STOPPED"
  /\ credential' = "repaired"
  /\ UNCHANGED <<followed, progress, window, job, sessions, pending>>

SessionBeginsLate(j) ==
  /\ j \in pending
  /\ pending' = pending \ {j}
  /\ sessions' = sessions \cup {j}
  /\ UNCHANGED <<followed, progress, window, credential, job>>

SessionExpires(s) ==
  /\ s \in sessions
  /\ s # Leftover => Ended(s)
  /\ sessions' = sessions \ {s}
  /\ UNCHANGED <<followed, progress, window, credential, job, pending>>

Next ==
  \/ \E j \in Jobs :
       \/ Dispatch(j[1], j[2]) \/ Preflight(j[1], j[2]) \/ Proceed(j[1], j[2])
       \/ Inspect(j) \/ Generate(j) \/ Verify(j) \/ ValidateJwt(j)
       \/ LogoutGlobal(j) \/ Die(j) \/ SessionBeginsLate(j)
  \/ \E s \in sessions : SessionExpires(s)
  \/ \E b \in Executors :
       \/ OpenWindow(b) \/ CloseWindow(b) \/ CountFirst(b) \/ RecordRun(b) \/ Readback(b)
  \/ RepairCredential

Spec == Init /\ [][Next]_vars

-----------------------------------------------------------------------------

\* A session that lives, or may still begin, after its run ended was warned of
\* and not reported as ended; an accepted logout ended the leftover too.
LeftoversReported ==
  \A j \in Jobs :
    /\ Ended(j) /\ j \in sessions \cup pending =>
         Warns(j) /\ job[j].report \in {"failed", "observed", "silent"}
    /\ job[j].report = "accepted" => Leftover \notin sessions

\* Each of these pins the outcome of the other in its bindings.
BuiltOn == {<<"v4", "v2">>, <<"shape", "v2">>, <<"repaired", "v4">>, <<"v3", "repaired">>}

\* The executors bound to the first run of their workflow ask the provider once
\* for all, and never after one that was built on their outcome has asked: a
\* run that waited in the queue with files since overtaken does nothing.
LifecyclesInOrder ==
  [][\A j \in OnceOnly \X (1..MaxRuns) :
       job'[j].asked /\ ~job[j].asked =>
         \A k \in Jobs : job[k].asked => k[1] # j[1] /\ <<k[1], j[1]>> \notin BuiltOn]_vars
=============================================================================
