--------------------------- MODULE TokenValidation ---------------------------
(* The executors of the token validation plans, revisions 30 to 32: one       *)
(* program, the later ones derived from its text.  A run has the provider     *)
(* make a recovery link for the synthetic user, consumes it for a session,    *)
(* ends that session, and validates the token it has left.  Progress lives in *)
(* the process; the owner commits what it printed.  Each revision's workflow  *)
(* runs one at a time, but the windows of 30 and 31 overlap, and a session    *)
(* count is of the user, not of the run.                                      *)
EXTENDS Naturals, FiniteSets

CONSTANT MaxValidations   \* bound: workflow runs, in the order they start

Runs == 1..MaxValidations
Revisions == 30..32

VARIABLES
  exec,        \* each run: its revision, where it is, and what it has noted
  verdict,     \* what a run that ended said of its session
  live,        \* the runs whose session lives at the provider
  unanswered,  \* the runs whose unanswered request may still begin one
  recorded,    \* the revisions whose execution progress the owner committed
  drift        \* what of the project is not as the plans assume

vars == <<exec, verdict, live, unanswered, recorded, drift>>

NotStarted == [revision |-> 0, pc |-> "none", authorized |-> FALSE,
               held |-> FALSE, cleaned |-> FALSE]

Init ==
  /\ exec = [r \in Runs |-> NotStarted]
  /\ verdict = [r \in Runs |-> "none"]
  /\ live = {}
  /\ unanswered = {}
  /\ recorded = {}
  /\ drift = {}

At(r, pc) == exec[r].pc = pc
Started(r) == ~At(r, "none")
Ended(r) == At(r, "ended")
Running(r) == Started(r) /\ ~Ended(r)

Goes(r, pc) == exec' = [exec EXCEPT ![r].pc = pc] /\ UNCHANGED verdict

\* The run ends, having noted what is in e.
EndsWith(r, e, v) ==
  /\ exec' = [exec EXCEPT ![r] = [e EXCEPT !.pc = "ended"]]
  /\ verdict' = [verdict EXCEPT ![r] = v]

Ends(r, v) == EndsWith(r, exec[r], v)

-----------------------------------------------------------------------------
(* What a run reads of the project                                            *)

\* One row: the user's sessions, each with its refresh token.
SessionCount == Cardinality(live)
ZeroSessions == SessionCount = 0

ProjectAndHookConfigVerified == "config" \notin drift
IdentityVerified == "identity" \notin drift
HookStateVerified == "hook" \notin drift

-----------------------------------------------------------------------------
(* How a run fails                                                            *)

\* Mutant: the session counts as cleaned up once its logout was asked for.
RescuesOnlyBeforeLogout(e) == e.authorized /\ e.held /\ ~e.cleaned /\ e.pc # "logout"

NeedsRescue(e) == e.authorized /\ e.held /\ ~e.cleaned

\* SafeStop: a call that fails, or an answer that is not the one expected.
StopsWith(r, e) ==
  IF NeedsRescue(e)
  THEN exec' = [exec EXCEPT ![r] = [e EXCEPT !.pc = "rescue"]] /\ UNCHANGED verdict
  ELSE EndsWith(r, e, "NOT_NEEDED")

Stops(r) == StopsWith(r, exec[r])

\* Anything else that is raised ends the run where it is: the plan engine refuses,
\* its window closed say, or int() a count that is null, or urlparse() a Location.
\* Only SafeStop is caught, so there is no cleanup and no outcome is printed.
Escapes(r) == Ends(r, "escaped")

\* Any request may fail, and any answer be unusable: the plain continuation,
\* where its condition holds, or a stop.
Either(r, condition, pc) ==
  \/ condition /\ Goes(r, pc)
  \/ Stops(r)

-----------------------------------------------------------------------------
(* A run                                                                      *)

WindowsMeet(v, w) == v = w \/ {v, w} = {30, 31}

\* Its revision is approved, its window open, its progress not yet committed;
\* the files checked out and the credentials are as expected.
MayStart(v) ==
  /\ v \notin recorded
  /\ \A q \in Runs : Started(q) =>
       /\ exec[q].revision > v => WindowsMeet(exec[q].revision, v)
       /\ Running(q) => exec[q].revision # v /\ WindowsMeet(exec[q].revision, v)

StartRun(r) ==
  /\ At(r, "none")
  /\ \A q \in 1..(r - 1) : Started(q)
  /\ \E v \in Revisions :
       /\ MayStart(v)
       /\ exec' = [exec EXCEPT ![r].pc = "preflight", ![r].revision = v]
  /\ UNCHANGED <<verdict, live, unanswered, recorded, drift>>

\* The project, the identity, the hook, and no session; then step 1 is
\* authorized.
Preflight(r) ==
  /\ At(r, "preflight")
  /\ \/ Either(r, /\ ProjectAndHookConfigVerified /\ IdentityVerified
                  /\ HookStateVerified /\ ZeroSessions, "generate")
     \/ Escapes(r)
  /\ UNCHANGED <<live, unanswered, recorded, drift>>

\* The recovery link is asked for once; making it begins no session.
GenerateLink(r) ==
  /\ At(r, "generate")
  /\ Either(r, IdentityVerified, "linked")
  /\ UNCHANGED <<live, unanswered, recorded, drift>>

\* Still no session: step 1 is recorded and step 2 authorized.
RecordLink(r) ==
  /\ At(r, "linked")
  /\ Either(r, ZeroSessions, "consume") \/ Escapes(r)
  /\ UNCHANGED <<live, unanswered, recorded, drift>>

\* The link is opened without following the redirect that holds the tokens.
ConsumeLink(r) ==
  LET noted == [exec[r] EXCEPT !.authorized = TRUE]
  IN /\ At(r, "consume")
     /\ \/ /\ exec' = [exec EXCEPT ![r] = [noted EXCEPT !.held = TRUE, !.pc = "issued"]]
           /\ live' = live \cup {r}
           /\ UNCHANGED <<verdict, unanswered>>
        \/ /\ EndsWith(r, noted, "escaped")
           /\ live' \in {live, live \cup {r}}
           /\ UNCHANGED unanswered
        \/ /\ StopsWith(r, noted)
           /\ \/ live' \in {live, live \cup {r}} /\ UNCHANGED unanswered
              \/ unanswered' = unanswered \cup {r} /\ UNCHANGED live
     /\ UNCHANGED <<recorded, drift>>

\* The token's header, and exactly one session.  A count that is no number
\* escapes, and the session is left alive.
CheckIssued(r) ==
  /\ At(r, "issued")
  /\ Either(r, SessionCount = 1, "logout") \/ Escapes(r)
  /\ UNCHANGED <<live, unanswered, recorded, drift>>

\* A local logout: it ends the session of the token and no other.
Logout(r) ==
  /\ At(r, "logout")
  /\ \/ live' = live \ {r} /\ Goes(r, "confirm")
     \/ live' \in {live, live \ {r}} /\ Stops(r)
  /\ UNCHANGED <<unanswered, recorded, drift>>

\* No session is left: step 2 is recorded, and step 3 authorized.  An unusable
\* count escapes before the cleanup is noted.
Confirm(r) ==
  LET noted == [exec[r] EXCEPT !.cleaned = TRUE]
  IN /\ At(r, "confirm")
     /\ \/ /\ ZeroSessions
           /\ \/ exec' = [exec EXCEPT ![r] = [noted EXCEPT !.pc = "validate"]] /\ UNCHANGED verdict
              \/ EndsWith(r, noted, "escaped")
        \/ Stops(r)
        \/ Escapes(r)
     /\ UNCHANGED <<live, unanswered, recorded, drift>>

\* The token's claims and policy, and once more the session, hook and project.
Validate(r) ==
  /\ At(r, "validate")
  /\ \/ ZeroSessions /\ HookStateVerified /\ ProjectAndHookConfigVerified /\ Ends(r, "PASS")
     \/ Stops(r)
     \/ Escapes(r)
  /\ UNCHANGED <<live, unanswered, recorded, drift>>

-----------------------------------------------------------------------------
(* The emergency cleanup, whose own failures only name it failed              *)

\* The state is read first.
Rescue(r) ==
  /\ At(r, "rescue")
  /\ \/ ZeroSessions /\ Ends(r, "PASS_ALREADY_CLEAN")
     \/ ~ZeroSessions /\ Goes(r, "rescueLogout")
     \/ Ends(r, "FAILED")
  /\ UNCHANGED <<live, unanswered, recorded, drift>>

RescueLogout(r) ==
  /\ At(r, "rescueLogout")
  /\ \/ live' = live \ {r} /\ Goes(r, "rescueConfirm")
     \/ live' \in {live, live \ {r}} /\ Ends(r, "FAILED")
  /\ UNCHANGED <<unanswered, recorded, drift>>

RescueConfirm(r) ==
  /\ At(r, "rescueConfirm")
  /\ \/ ZeroSessions /\ Ends(r, "RESCUED")
     \/ Ends(r, "FAILED")
  /\ UNCHANGED <<live, unanswered, recorded, drift>>

-----------------------------------------------------------------------------
(* The workflow, the owner, the provider and whoever configures the project;  *)
(* external                                                                   *)

\* The job is cancelled or its minutes are over.
Die(r) ==
  /\ Running(r)
  /\ Ends(r, "silent")
  /\ UNCHANGED <<live, unanswered, recorded, drift>>

CommitProgress(v) ==
  /\ v \notin recorded
  /\ \E r \in Runs : exec[r].revision = v
  /\ \A r \in Runs : exec[r].revision = v => Ended(r)
  /\ recorded' = recorded \cup {v}
  /\ UNCHANGED <<exec, verdict, live, unanswered, drift>>

SessionBeginsLate(r) ==
  /\ r \in unanswered
  /\ unanswered' = unanswered \ {r}
  /\ live' = live \cup {r}
  /\ UNCHANGED <<exec, verdict, recorded, drift>>

SessionExpires(r) ==
  /\ r \in live /\ Ended(r)
  /\ live' = live \ {r}
  /\ UNCHANGED <<exec, verdict, unanswered, recorded, drift>>

Drift ==
  /\ drift = {}
  /\ \E d \in {"config", "identity", "hook"} : drift' = {d}
  /\ UNCHANGED <<exec, verdict, live, unanswered, recorded>>

Next ==
  \/ \E r \in Runs :
       \/ StartRun(r) \/ Preflight(r) \/ GenerateLink(r) \/ RecordLink(r)
       \/ ConsumeLink(r) \/ CheckIssued(r) \/ Logout(r) \/ Confirm(r) \/ Validate(r)
       \/ Rescue(r) \/ RescueLogout(r) \/ RescueConfirm(r)
       \/ Die(r) \/ SessionBeginsLate(r) \/ SessionExpires(r)
  \/ \E v \in Revisions : CommitProgress(v)
  \/ Drift

Spec == Init /\ [][Next]_vars

-----------------------------------------------------------------------------

\* What a run says of its session is so.  A run that reported the session's end
\* - it passed, found it gone or cleaned it up - left none and none that may still
\* begin, also when it overlapped another run.  A run that said no cleanup was
\* needed never held a token it had not cleaned up after: it can have left a
\* session only where the link was consumed and no token came back.  That case is
\* not warned of, a run that failed to clean up says so, and a run that escaped
\* or was killed says nothing.
ReportsTrue ==
  \A r \in Runs :
    Ended(r) /\ r \in live \cup unanswered =>
      /\ verdict[r] \notin {"PASS", "PASS_ALREADY_CLEAN", "RESCUED"}
      /\ verdict[r] = "NOT_NEEDED" => exec[r].authorized /\ ~exec[r].held
=============================================================================
