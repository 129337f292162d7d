--------------------------- MODULE HandoffDispatch ---------------------------
(* The one-shot development hand-off: a run verifies the owner's four signed *)
(* stage approvals, claims them in a ledger that keeps each for ever, and    *)
(* then calls, at most once each, the provider that generates a recovery     *)
(* credential, the one that verifies it into a session, the command service  *)
(* and, whatever happened, the global logout.                                *)
(*                                                                           *)
(* A call that raises may have been carried out, or may be carried out later *)
(* or never.  A run may die at any point.  The checks before a claim that    *)
(* look at one document (invocation, trust anchor, signature, window) are    *)
(* runs that do not claim.                                                   *)
CONSTANTS
  Runs,       \* calls of the executor, each with its own process
  Grants,     \* authorization sets: a command and the approvals of its stages
  NoGrant

Stages == {"AUTH_GENERATE", "AUTH_VERIFY", "DATA_COMMAND", "AUTH_GLOBAL_LOGOUT"}

VARIABLES
  rows,       \* the SQLite ledger: claimed approvals, and by whom
  shared,     \* the PostgreSQL ledger of the candidate adapter
  runs,       \* where each run is and what it knows
  done,       \* the calls that were carried out
  pending,    \* the calls that raised and may still be carried out
  sessions    \* the runs whose session is alive at the provider

ledgers == <<rows, shared>>
remote  == <<done, pending, sessions>>
vars    == <<ledgers, runs, remote>>

Init ==
  /\ rows = {} /\ shared = {}
  /\ runs = [r \in Runs |-> [pc |-> "ready", grant |-> NoGrant, claims |-> {},
                             attempted |-> {}, session |-> FALSE, logout |-> "none"]]
  /\ done = {} /\ pending = {} /\ sessions = {}

At(r, pc) == runs[r].pc = pc

-----------------------------------------------------------------------------
(* Claims: one transaction, whose commit may fail with an unknown outcome.   *)

\* The set is complete, and this stage's approval is for it and the command.
StagePrepared(g, stage) ==
  /\ DOMAIN g.approvals = Stages
  /\ g.approvals[stage].stage = stage
  /\ g.approvals[stage].command = g.command

\* What a run verifies before it claims a whole set.
Prepared(g) == \A stage \in Stages : StagePrepared(g, stage)

Row(r, g, stage) == [approval |-> g.approvals[stage], run |-> r]

\* Mutant: a set is recognised by its first stage.
FirstUnclaimed(g, stages) ==
  \A row \in rows : row.approval # g.approvals["AUTH_GENERATE"]

\* The unique approval and the primary key of the plan's one step.
Unclaimed(g, stages) ==
  \A row \in rows : \A stage \in stages : row.approval # g.approvals[stage]

\* _claim_four_stages_once, and _claim_once for a single stage.
Claim(r, g, stages, pc) ==
  /\ At(r, "ready")
  /\ \E answer \in {pc, "denied", "uncertain"} :
       /\ answer = pc => Unclaimed(g, stages)
       /\ answer = "denied" => ~Unclaimed(g, stages)
       /\ runs' = [runs EXCEPT ![r].pc = answer, ![r].grant = g, ![r].claims = stages]
       /\ \/ answer # pc /\ UNCHANGED rows
          \/ answer # "denied" /\ Unclaimed(g, stages)
               /\ rows' = rows \cup {Row(r, g, stage) : stage \in stages}
  /\ UNCHANGED <<shared, remote>>

\* The shared ledger also keeps each stage of a command, and of a set, once.
SharedRow(r, g, stage) ==
  [approval |-> g.approvals[stage], command |-> g.command, stage |-> stage, run |-> r]

SharedUnclaimed(g) ==
  \A row \in shared : row.approval # g.approvals[row.stage] /\ row.command # g.command

\* claim_four_stages_candidate: a receipt, which grants nothing.
ClaimCandidate(r, g) ==
  /\ At(r, "ready")
  /\ \E answer \in {"candidate", "denied", "uncertain"} :
       /\ answer = "candidate" => SharedUnclaimed(g)
       /\ runs' = [runs EXCEPT ![r].pc = answer, ![r].grant = g, ![r].claims = Stages]
       /\ \/ answer # "candidate" /\ UNCHANGED shared
          \/ answer # "denied" /\ SharedUnclaimed(g)
               /\ shared' = shared \cup {SharedRow(r, g, stage) : stage \in Stages}
  /\ UNCHANGED <<rows, remote>>

-----------------------------------------------------------------------------
(* Calls.  A global logout ends every session of the user.                   *)

CarriedOut(r, stage) ==
  /\ done' = done \cup {<<r, stage>>}
  /\ sessions' = CASE stage = "AUTH_VERIFY"        -> sessions \cup {r}
                   [] stage = "AUTH_GLOBAL_LOGOUT" -> {}
                   [] OTHER                        -> sessions

Answered(r, stage) == CarriedOut(r, stage) /\ UNCHANGED pending

Unanswered(r, stage) ==
  \/ Answered(r, stage)
  \/ /\ pending' = pending \cup {<<r, stage>>}
     /\ UNCHANGED <<done, sessions>>

Late ==
  \E call \in pending :
    /\ pending' = pending \ {call}
    /\ CarriedOut(call[1], call[2])
    /\ UNCHANGED <<ledgers, runs>>

-----------------------------------------------------------------------------
(* execute_source_bound_handoff, after the claim.                            *)

Moves(r, pc) == runs' = [runs EXCEPT ![r].pc = pc]

\* HANDOFF_CONSUMED_EXECUTION_UNVERIFIED: stopped before the first call.
Unstarted(r) ==
  /\ At(r, "claimed")
  /\ Moves(r, "consumed")
  /\ UNCHANGED <<ledgers, remote>>

\* A supplier, the JWT policy or the dispatcher's own checks stop the run.
Stops(r) ==
  /\ runs[r].pc \in {"claimed", "verified", "validated"}
  /\ Moves(r, "cleanup")
  /\ UNCHANGED <<ledgers, remote>>

\* Mutant: the attempt is noted when the call has been answered.
NotedWhenAnswered(r, stage, pc) ==
  [runs[r] EXCEPT !.pc = pc, !.attempted = IF pc = "cleanup" THEN @ ELSE @ \cup {stage}]

\* An attempt is noted before its call is made.
Noted(r, stage, pc) == [runs[r] EXCEPT !.pc = pc, !.attempted = @ \cup {stage}]

Generate(r) ==
  /\ At(r, "claimed")
  /\ \/ /\ Answered(r, "AUTH_GENERATE")
        /\ runs' = [runs EXCEPT ![r] = Noted(r, "AUTH_GENERATE", "generated")]
     \/ /\ Unanswered(r, "AUTH_GENERATE")
        /\ runs' = [runs EXCEPT ![r] = Noted(r, "AUTH_GENERATE", "cleanup")]
  /\ UNCHANGED ledgers

\* Only an answer leaves the run with a session to log out of.
Verify(r) ==
  /\ At(r, "generated")
  /\ \/ /\ Answered(r, "AUTH_VERIFY")
        /\ runs' = [runs EXCEPT ![r] = [Noted(r, "AUTH_VERIFY", "verified") EXCEPT !.session = TRUE]]
     \/ /\ Unanswered(r, "AUTH_VERIFY")
        /\ runs' = [runs EXCEPT ![r] = Noted(r, "AUTH_VERIFY", "cleanup")]
  /\ UNCHANGED ledgers

Validate(r) ==
  /\ At(r, "verified")
  /\ Moves(r, "validated")
  /\ UNCHANGED <<ledgers, remote>>

\* dispatch_one_synthetic_handoff: whatever the answer, or none.
Send(r) ==
  /\ At(r, "validated")
  /\ Unanswered(r, "DATA_COMMAND")
  /\ runs' = [runs EXCEPT ![r].pc = "cleanup", ![r].attempted = @ \cup {"DATA_COMMAND"}]
  /\ UNCHANGED ledgers

\* The finally block and the result.
Cleanup(r) ==
  /\ At(r, "cleanup")
  /\ \/ /\ ~runs[r].session
        /\ Moves(r, "reported")
        /\ UNCHANGED remote
     \/ /\ runs[r].session
        /\ \E answer \in {"accepted", "unverified"} :
             /\ runs' = [runs EXCEPT ![r] = [Noted(r, "AUTH_GLOBAL_LOGOUT", "reported")
                                             EXCEPT !.logout = answer]]
             /\ IF answer = "accepted" THEN Answered(r, "AUTH_GLOBAL_LOGOUT")
                                       ELSE Unanswered(r, "AUTH_GLOBAL_LOGOUT")
  /\ UNCHANGED ledgers

\* The call a run is about to make, or is making when it dies.
NextCall(r) ==
  CASE At(r, "claimed")   -> {"AUTH_GENERATE"}
    [] At(r, "generated") -> {"AUTH_VERIFY"}
    [] At(r, "validated") -> {"DATA_COMMAND"}
    [] At(r, "cleanup") /\ runs[r].session -> {"AUTH_GLOBAL_LOGOUT"}
    [] OTHER -> {}

Die(r) ==
  /\ runs[r].pc \in {"claimed", "generated", "verified", "validated", "cleanup"}
  /\ Moves(r, "dead")
  /\ \E calls \in SUBSET NextCall(r) : pending' = pending \cup {<<r, stage>> : stage \in calls}
  /\ UNCHANGED <<ledgers, done, sessions>>

Next ==
  \/ \E r \in Runs :
       \/ Unstarted(r) \/ Stops(r) \/ Generate(r) \/ Verify(r) \/ Validate(r)
       \/ Send(r) \/ Cleanup(r) \/ Die(r)
       \/ \E g \in Grants :
            \/ Prepared(g) /\ Claim(r, g, Stages, "claimed")
            \/ \E stage \in Stages :
                 StagePrepared(g, stage) /\ Claim(r, g, {stage}, "receipt")
            \/ Prepared(g) /\ ClaimCandidate(r, g)
  \/ Late

Spec == Init /\ [][Next]_vars

-----------------------------------------------------------------------------

\* What a run was told it may rely on, through either ledger.
Relies(r) == runs[r].pc \notin {"ready", "denied", "uncertain"}
OnShared(r) == runs[r].pc = "candidate"
ReliedOn(r) == {runs[r].grant.approvals[stage] : stage \in runs[r].claims}

\* "Single-use": two runs never rely on one approval, also when sets of
\* approvals overlap, claims of one stage and of four compete, or a commit
\* failed; and the shared ledger never answers twice for one command.
ConsumedOnce ==
  \A r, q \in Runs :
    r # q /\ Relies(r) /\ Relies(q) /\ (OnShared(r) <=> OnShared(q)) =>
      /\ ReliedOn(r) \cap ReliedOn(q) = {}
      /\ OnShared(r) => runs[r].grant.command # runs[q].grant.command

\* Nothing is left behind that nobody knows of.  What a run did, or what the
\* providers do for it after it stopped, stands behind the four claims of
\* approvals for its command, and
\* when it reports, its readback flags name all of it: no credential, session
\* or command comes to exist that the report called not attempted.  After an
\* accepted logout its session is gone.
NothingUnaccounted ==
  \A r \in Runs :
    LET touched == {stage \in Stages : <<r, stage>> \in done}
    IN  /\ touched # {} => \A stage \in Stages :
             \E row \in rows : /\ row.run = r
                               /\ row.approval = runs[r].grant.approvals[stage]
                               /\ row.approval.command = runs[r].grant.command
        /\ At(r, "reported") => touched \subseteq runs[r].attempted
        /\ runs[r].logout = "accepted" => r \notin sessions
=============================================================================
