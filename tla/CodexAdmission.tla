--------------------------- MODULE CodexAdmission ---------------------------
(* The admission of a signed local task: every input is validated at the     *)
(* caller's time, and the nonce is then consumed in an exclusive transaction *)
(* of a local database, followed by a sync of its directory.  Only then is   *)
(* the caller admitted.  Processes may die, and storage may fail, at any     *)
(* step; a power failure may undo a commit that was not yet synced.          *)
(*                                                                           *)
(* A document is a record of its nonce and its validity window; every other  *)
(* check of it is a call denied before the database is opened.               *)
EXTENDS Naturals, FiniteSets

CONSTANTS
  Processes,
  NoProcess,    \* the database is not locked
  Documents,    \* signed documents, several with one nonce
  NoDocument,
  MaxTime,      \* bound: the clock stops here
  MaxFaults     \* bound on deaths and storage failures

Nonces == {d.nonce : d \in Documents}

VARIABLES
  claims,       \* the committed rows: the document that consumed each nonce
  durable,      \* those that survive a power failure
  writer,       \* the process inside the exclusive transaction
  callers,         \* where each process is, and with which document
  admitted,     \* how often each document was answered PREFLIGHT_ADMITTED
  clock, failures

vars == <<claims, durable, writer, callers, admitted, clock, failures>>

Idle == [pc |-> "idle", document |-> NoDocument]

Init ==
  /\ claims = [n \in Nonces |-> NoDocument]
  /\ durable = claims
  /\ writer = NoProcess
  /\ callers = [p \in Processes |-> Idle]
  /\ admitted = [d \in Documents |-> 0]
  /\ clock = 0
  /\ failures = 0

At(p, pc) == callers[p].pc = pc
Leaves(p) == callers' = [callers EXCEPT ![p] = Idle]

\* validate_signed_admission at the time of the call.
Validate(p, d) ==
  /\ At(p, "idle")
  /\ d.from <= clock /\ clock < d.until
  /\ callers' = [callers EXCEPT ![p] = [pc |-> "validated", document |-> d]]
  /\ UNCHANGED <<claims, durable, writer, admitted, clock, failures>>

\* BEGIN EXCLUSIVE, or a wait until the other transaction ends.
Begin(p) ==
  /\ At(p, "validated")
  /\ writer = NoProcess
  /\ writer' = p
  /\ callers' = [callers EXCEPT ![p].pc = "begun"]
  /\ UNCHANGED <<claims, durable, admitted, clock, failures>>

\* The primary key admits a nonce once.
Unclaimed(p) == claims[callers[p].document.nonce] = NoDocument

\* INSERT and COMMIT.
Commit(p) ==
  /\ At(p, "begun")
  /\ Unclaimed(p)
  /\ claims' = [claims EXCEPT ![callers[p].document.nonce] = callers[p].document]
  /\ writer' = NoProcess
  /\ callers' = [callers EXCEPT ![p].pc = "committed"]
  /\ UNCHANGED <<durable, admitted, clock, failures>>

\* NONCE_REPLAY
Replay(p) ==
  /\ At(p, "begun")
  /\ ~Unclaimed(p)
  /\ writer' = NoProcess
  /\ Leaves(p)
  /\ UNCHANGED <<claims, durable, admitted, clock, failures>>

\* Mutant: answered before the directory is synced.
AnswerUnsynced(p) ==
  /\ At(p, "committed")
  /\ admitted' = [admitted EXCEPT ![callers[p].document] = @ + 1]
  /\ Leaves(p)
  /\ UNCHANGED <<claims, durable, writer, clock, failures>>

\* The directory is synced and the caller admitted.
Answer(p) ==
  /\ At(p, "committed")
  /\ durable' = claims
  /\ admitted' = [admitted EXCEPT ![callers[p].document] = @ + 1]
  /\ Leaves(p)
  /\ UNCHANGED <<claims, writer, clock, failures>>

\* REPLAY_STORE_UNVERIFIED at any point, or the process dies: an open
\* transaction is rolled back, a committed one stays.
Fail(p) ==
  /\ ~At(p, "idle")
  /\ failures < MaxFaults
  /\ failures' = failures + 1
  /\ writer' = IF writer = p THEN NoProcess ELSE writer
  /\ Leaves(p)
  /\ UNCHANGED <<claims, durable, admitted, clock>>

\* The machine fails; a commit whose journal removal was not synced may be
\* rolled back when the database is next opened.
PowerFailure ==
  /\ failures < MaxFaults
  /\ failures' = failures + 1
  /\ claims' \in {claims, durable}
  /\ durable' = claims'
  /\ writer' = NoProcess
  /\ callers' = [p \in Processes |-> Idle]
  /\ UNCHANGED <<admitted, clock>>

Tick ==
  /\ clock < MaxTime
  /\ clock' = clock + 1
  /\ UNCHANGED <<claims, durable, writer, callers, admitted, failures>>

Next ==
  \/ \E p \in Processes :
       \/ Begin(p) \/ Commit(p) \/ Replay(p) \/ Answer(p) \/ Fail(p)
       \/ \E d \in Documents : Validate(p, d)
  \/ PowerFailure
  \/ Tick

Spec == Init /\ [][Next]_vars

-----------------------------------------------------------------------------

\* A nonce admits once: over all documents that carry it, all processes, retries
\* and failures of the machine, at most one answer PREFLIGHT_ADMITTED is given.
AdmitsOnce ==
  \A d, e \in Documents : d.nonce = e.nonce /\ admitted[d] > 0 =>
    admitted[d] = 1 /\ (e # d => admitted[e] = 0)

\* Who was admitted finds its own document in the database, there to stay even
\* if the machine fails the next moment.
KeepsAdmitted ==
  \A d \in Documents : admitted[d] > 0 => durable[d.nonce] = d

\* Both: what was admitted was admitted once and for good.
AdmittedOnceForGood == AdmitsOnce /\ KeepsAdmitted

=============================================================================
