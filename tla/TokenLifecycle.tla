--------------------------- MODULE TokenLifecycle ---------------------------
(* The development token lifecycle: issue one recovery session, count the    *)
(* user's sessions, log the session out, count again, and report what the    *)
(* counts proved.  After a failure past the verification call the lifecycle  *)
(* reconciles: it counts, logs out if it holds the session, counts again and *)
(* stops with a classification of what is left.                              *)
(*                                                                           *)
(* A call that raises may have been carried out, or may be carried out later *)
(* or never; a count may fail; others sign the same user in and out, also    *)
(* everywhere at once.                                                       *)
EXTENDS Naturals

CONSTANTS
  MaxOthers,   \* bound: other sessions of the user
  Unread       \* the answer of a count that failed

VARIABLES
  own,         \* the session of this lifecycle at the provider
  others,      \* the user's other sessions
  late,        \* calls that raised and may still be carried out
  flow,        \* where the lifecycle is, whether it got the session, whether a
               \* logout counts as attempted
  report       \* the session state it ended with

vars == <<own, others, late, flow, report>>

Init ==
  /\ own = "none"
  /\ others \in 0..MaxOthers
  /\ late = {}
  /\ flow = [pc |-> "generate", held |-> FALSE, tried |-> FALSE]
  /\ report = "none"

At(pc) == flow.pc = pc

Goes(pc) == flow' = [flow EXCEPT !.pc = pc] /\ UNCHANGED report

Ends(state) == flow' = [flow EXCEPT !.pc = "end"] /\ report' = state

\* Zero, one and more sessions is all that a count is asked for.
Counts == {Unread, others + (IF own = "alive" THEN 1 ELSE 0)}

CarriedOut(call) == own' = IF call = "verify" THEN "alive" ELSE "ended"

Unanswered(call) ==
  \/ CarriedOut(call) /\ UNCHANGED late
  \/ late' = late \cup {call} /\ UNCHANGED own

-----------------------------------------------------------------------------
(* What the calls come to.                                                   *)

\* The answer names the expected user and holds a credential.
CredentialIssued == Goes("verify")

\* The answer is a session of the expected user, in the expected shape.
SessionReceived == CarriedOut("verify") /\ UNCHANGED late

\* The credential is used once; an answer that is lost, or is no such
\* session, says nothing of whether one began.
RequestVerification(received) ==
  IF received THEN SessionReceived ELSE Unanswered("verify")

LoggedOut == CarriedOut("logout") /\ UNCHANGED late

-----------------------------------------------------------------------------
Generate ==
  /\ At("generate")
  /\ CredentialIssued \/ Ends("none")
  /\ UNCHANGED <<own, others, late>>

\* The session is held only if it was received.
Verify ==
  /\ At("verify")
  /\ \E received \in BOOLEAN :
       /\ RequestVerification(received)
       /\ flow' = [flow EXCEPT !.pc = IF received THEN "count" ELSE "reconcile",
                               !.held = received]
  /\ UNCHANGED <<others, report>>

Logout ==
  /\ At("logout")
  /\ \/ LoggedOut /\ flow' = [flow EXCEPT !.pc = "recount"]
     \/ Unanswered("logout") /\ flow' = [flow EXCEPT !.pc = "reconcile", !.tried = TRUE]
  /\ UNCHANGED <<others, report>>

\* Both outcomes of the JWT check come after the cleanup was proved.
Validate ==
  /\ At("validate")
  /\ Ends("SESSION_CLEANUP_VERIFIED")
  /\ UNCHANGED <<own, others, late>>

-----------------------------------------------------------------------------
(* _raise_after_possible_session                                             *)

\* Mutant: no session means cleaned up.
ClassifyAllCleaned(tried) == "SESSION_CLEANUP_VERIFIED"

\* What a count of zero proves.
Classify(tried) == IF tried THEN "SESSION_CLEANUP_VERIFIED" ELSE "NO_SESSION_OBSERVED"

\* With a count in hand: nothing left, nothing to log out with, or clean up.
Judge(count) ==
  IF count = 0 THEN Ends(Classify(flow.tried))
  ELSE IF ~flow.held THEN Ends("SESSION_PRESENT")
  ELSE Goes(IF flow.tried THEN "final" ELSE "clean")

\* One count, by the point it is made at.
Count ==
  /\ \E count \in Counts :
       \/ /\ At("count")
          /\ CASE count = Unread -> Goes("reconcile")
               [] count = 1      -> Goes("logout")
               [] OTHER          -> Judge(count)
       \/ /\ At("recount")
          /\ CASE count = Unread -> Ends("SESSION_STATE_UNVERIFIED")
               [] count = 0      -> Goes("validate")
               [] OTHER          -> Ends("SESSION_PRESENT")
       \/ /\ At("reconcile")
          /\ IF count # Unread THEN Judge(count)
             ELSE IF flow.held /\ ~flow.tried THEN Goes("retry")
             ELSE Ends("SESSION_STATE_UNVERIFIED")
       \/ /\ At("reread")
          /\ IF count = Unread THEN Ends("SESSION_STATE_UNVERIFIED") ELSE Judge(count)
       \/ /\ At("final")
          /\ CASE count = Unread -> Ends("SESSION_STATE_UNVERIFIED")
               [] count = 0      -> Ends("SESSION_CLEANUP_VERIFIED")
               [] OTHER          -> Ends("SESSION_PRESENT")
  /\ UNCHANGED <<own, others, late>>

\* A logout whose failure is passed over counts as attempted only if it
\* did not raise.
ReconcilingLogout ==
  /\ \E step \in {<<"retry", "reread">>, <<"clean", "final">>} :
       /\ At(step[1])
       /\ \/ LoggedOut /\ flow' = [flow EXCEPT !.pc = step[2], !.tried = TRUE]
          \/ Unanswered("logout") /\ flow' = [flow EXCEPT !.pc = step[2]]
  /\ UNCHANGED <<others, report>>

-----------------------------------------------------------------------------
Late ==
  \E call \in late :
    /\ late' = late \ {call}
    /\ CarriedOut(call)
    /\ UNCHANGED <<others, flow, report>>

OthersChange ==
  /\ others' \in {others - 1, others + 1} \cap (0..MaxOthers)
  /\ UNCHANGED <<own, late, flow, report>>

\* The hand-off of another run, or the user, signs out everywhere.
GlobalLogout ==
  /\ own = "alive"
  /\ own' = "ended" /\ others' = 0
  /\ UNCHANGED <<late, flow, report>>

Next ==
  \/ Generate \/ Verify \/ Logout \/ Validate \/ Count \/ ReconcilingLogout
  \/ Late \/ OthersChange \/ GlobalLogout

Spec == Init /\ [][Next]_vars

-----------------------------------------------------------------------------

\* "None imply more than readback proved": a cleanup is called verified only
\* when the session existed and is gone for good, also if a logout raised or
\* a call is carried out late, and a session that was received and lives on is
\* never reported as absent.
CleanedMeansGone ==
  /\ report = "SESSION_CLEANUP_VERIFIED" => own = "ended"
  /\ At("end") /\ flow.held /\ own = "alive" =>
       report \in {"SESSION_PRESENT", "SESSION_STATE_UNVERIFIED"}
=============================================================================
