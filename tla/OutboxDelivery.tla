---------------------------- MODULE OutboxDelivery ----------------------------
(***************************************************************************)
(* Delivery of committed lifecycle events: the transitions of a delivery   *)
(* row (src/avuhz_runtime/outbox_delivery.py), the claim of the PostgreSQL *)
(* repository (postgres.py), the worker that claims, delivers and reports  *)
(* in three separate transactions (src/avuhz_worker/outbox.py), the n8n    *)
(* sink and the durable receipt store behind it.                           *)
(*                                                                         *)
(* Time.  A row whose lease_expires_at or next_attempt_at has passed is in *)
(* "due"; the claim query orders rows by coalesce(next_attempt_at,         *)
(* created_at), which the logical stamps "created" and "retryAt" keep.     *)
(* A lease token is a fresh UUID per claim and every claim increments      *)
(* attempt_count, so the attempt number stands for the token.              *)
(***************************************************************************)
EXTENDS Naturals, Sequences, FiniteSets

CONSTANTS
    Rows,         \* outbox deliveries, one per lifecycle event
    Workers,      \* worker references
    MaxAttempts,  \* WorkerSettings.max_attempts of each worker
    Missing,      \* rows whose event lacks the canonical envelope
    NoWorker,     \* "no lease owner"
    NoRow         \* "no delivery in hand"

ASSUME DeliveryAssumption ==
    /\ IsFiniteSet(Workers)
    /\ MaxAttempts \in [Workers -> 1..16]
    /\ Missing \subseteq Rows
    /\ NoWorker \notin Workers
    /\ NoRow \notin Rows

VARIABLES
    status,    \* avuhz_outbox_deliveries.status, "ABSENT" without a row
    attempts,  \* attempt_count
    owner,     \* lease_owner_reference
    history,   \* attempt_history: worker and outcome of each finished attempt
    due,       \* rows whose lease or backoff has run out
    created,   \* created_at
    retryAt,   \* next_attempt_at, once it has been reached
    clock,     \* the next time stamp
    worker,    \* what each worker has in hand between its transactions
    received   \* rows with a durable receipt at the receiver

rowVars == <<status, attempts, owner, history, created, retryAt>>
vars    == <<rowVars, due, clock, worker, received>>

Terminal == {"PUBLISHED", "FAILED_TERMINAL"}
Statuses == {"ABSENT", "PENDING", "PUBLISHING", "FAILED_RETRYABLE"} \cup Terminal

Stopped == [step |-> "stopped", row |-> NoRow, attempt |-> 0]
Polling == [step |-> "polling", row |-> NoRow, attempt |-> 0]

\* What a worker learnt from the sink, or from a claim without an event.
Reports == {"acknowledged", "rejected", "unavailable", "no event"}

Init ==
    /\ status = [d \in Rows |-> "ABSENT"]
    /\ attempts = [d \in Rows |-> 0]
    /\ owner = [d \in Rows |-> NoWorker]
    /\ history = [d \in Rows |-> <<>>]
    /\ due = {}
    /\ created = [d \in Rows |-> 0]
    /\ retryAt = [d \in Rows |-> 0]
    /\ clock = 0
    /\ worker = [w \in Workers |-> Stopped]
    /\ received = {}

-----------------------------------------------------------------------------
(* The passing of time and the command runtime.                            *)

\* A command transaction commits its event and its PENDING delivery together.
AppendIntent(d) ==
    /\ status[d] = "ABSENT"
    /\ status' = [status EXCEPT ![d] = "PENDING"]
    /\ created' = [created EXCEPT ![d] = clock]
    /\ clock' = clock + 1
    /\ UNCHANGED <<attempts, owner, history, retryAt, due, worker, received>>

\* next_attempt_at is reached.
BackoffElapses(d) ==
    /\ status[d] = "FAILED_RETRYABLE"
    /\ d \notin due
    /\ due' = due \cup {d}
    /\ retryAt' = [retryAt EXCEPT ![d] = clock]
    /\ clock' = clock + 1
    /\ UNCHANGED <<status, attempts, owner, history, created, worker, received>>

\* lease_expires_at is reached, whether or not the worker is still at work.
LeaseExpires(d) ==
    /\ status[d] = "PUBLISHING"
    /\ d \notin due
    /\ due' = due \cup {d}
    /\ UNCHANGED <<rowVars, clock, worker, received>>

-----------------------------------------------------------------------------
(* Claiming.                                                               *)

\* Mutant: a PUBLISHING row belongs to its worker for ever.
EligibleUnleased(d) == status[d] = "PENDING" \/ (status[d] = "FAILED_RETRYABLE" /\ d \in due)

\* The rows the claim query selects.
Eligible(d) ==
    \/ status[d] = "PENDING"
    \/ status[d] \in {"FAILED_RETRYABLE", "PUBLISHING"} /\ d \in due

Key(d) == IF status[d] = "FAILED_RETRYABLE" THEN retryAt[d] ELSE created[d]

\* ORDER BY ... FOR UPDATE SKIP LOCKED LIMIT 1: the first eligible row that
\* no open transaction of another worker has locked.
FirstUnlocked(d) ==
    /\ Eligible(d)
    /\ \E locked \in SUBSET {e \in Rows \ {d} : Eligible(e)} :
         /\ Cardinality(locked) < Cardinality(Workers)
         /\ \A e \in Rows \ (locked \cup {d}) : Eligible(e) => Key(d) <= Key(e)

Exhausted(w, d) == attempts[d] >= MaxAttempts[w]

\* Mutant: an expired attempt leaves no trace.
ExpiredUnrecorded(d) == history[d]

\* claim_delivery appends LEASE_EXPIRED for an attempt nobody reported.
Expired(d) ==
    IF status[d] = "PUBLISHING"
      THEN Append(history[d], [worker |-> owner[d], outcome |-> "LEASE_EXPIRED"])
      ELSE history[d]

\* A claim that finds attempts left: a new lease, under a new token.
ClaimRow(w, d) ==
    /\ worker[w].step = "polling"
    /\ FirstUnlocked(d)
    /\ ~Exhausted(w, d)
    /\ history' = [history EXCEPT ![d] = Expired(d)]
    /\ status' = [status EXCEPT ![d] = "PUBLISHING"]
    /\ attempts' = [attempts EXCEPT ![d] = @ + 1]
    /\ owner' = [owner EXCEPT ![d] = w]
    /\ due' = due \ {d}
    /\ worker' = [worker EXCEPT ![w] =
                    [step    |-> IF d \in Missing THEN "no event" ELSE "holding",
                     row     |-> d,
                     attempt |-> attempts[d] + 1]]
    /\ UNCHANGED <<created, retryAt, clock, received>>

\* A claim that finds an expired lease and no attempt left: dead-lettered.
\* An exhausted row that is merely due for retry ends the cycle instead, and
\* changes nothing.
DeadLetter(w, d) ==
    /\ worker[w].step = "polling"
    /\ FirstUnlocked(d)
    /\ status[d] = "PUBLISHING"
    /\ Exhausted(w, d)
    /\ history' = [history EXCEPT ![d] = Expired(d)]
    /\ status' = [status EXCEPT ![d] = "FAILED_TERMINAL"]
    /\ owner' = [owner EXCEPT ![d] = NoWorker]
    /\ due' = due \ {d}
    /\ UNCHANGED <<attempts, created, retryAt, clock, worker, received>>

-----------------------------------------------------------------------------
(* Delivering and reporting.                                               *)

\* Mutant: any 2xx answer is taken for the durable acknowledgment.
AcknowledgedBy(stored) == TRUE

\* The sink answers 202 only after the receipt is durable.
Acknowledged(stored) == stored

\* One call of the sink.  The receipt may be stored and its acknowledgment
\* lost; a receiver that has the receipt already may still refuse, because
\* the credential is checked first.
Deliver(w) ==
    LET d == worker[w].row IN
    /\ worker[w].step = "holding"
    /\ \E stored \in BOOLEAN, report \in {"acknowledged", "rejected", "unavailable"} :
         /\ report = "acknowledged" => Acknowledged(stored)
         /\ report = "rejected" => ~stored
         /\ received' = IF stored THEN received \cup {d} ELSE received
         /\ worker' = [worker EXCEPT ![w] = [step |-> report, row |-> d, attempt |-> worker[w].attempt]]
    /\ UNCHANGED <<rowVars, due, clock>>

\* Mutant: the status column alone is compared.
LeaseByStatus(w) == status[worker[w].row] = "PUBLISHING"

\* Mutant: the token alone is compared, and it outlives the lease.
LeaseByToken(w) == attempts[worker[w].row] = worker[w].attempt

\* publish_delivery and fail_delivery: the row is still leased to this claim.
\* A lease that has expired but was not claimed anew still counts.
LeaseHeld(w) ==
    /\ status[worker[w].row] = "PUBLISHING"
    /\ attempts[worker[w].row] = worker[w].attempt

\* The row leaves PUBLISHING with the outcome of this attempt.
Finish(w, outcome) ==
    LET d == worker[w].row IN
    /\ LeaseHeld(w)
    /\ history' = [history EXCEPT ![d] = Append(@, [worker |-> owner[d], outcome |-> outcome])]
    /\ status' = [status EXCEPT ![d] = outcome]
    /\ owner' = [owner EXCEPT ![d] = NoWorker]
    /\ due' = due \ {d}
    /\ worker' = [worker EXCEPT ![w] = Polling]
    /\ UNCHANGED <<attempts, created, retryAt, clock, received>>

Published(w) ==
    /\ worker[w].step = "acknowledged"
    /\ Finish(w, "PUBLISHED")

\* _failed: a rejection and a missing event are final, an unavailable sink is
\* retried while attempts are left.
Failed(w) ==
    /\ worker[w].step \in {"rejected", "unavailable", "no event"}
    /\ Finish(w, IF worker[w].step = "unavailable" /\ worker[w].attempt < MaxAttempts[w]
                    THEN "FAILED_RETRYABLE" ELSE "FAILED_TERMINAL")

\* The lease is stale: ValueError leaves run_once and ends the session.
StaleReport(w) ==
    /\ worker[w].step \in Reports
    /\ ~LeaseHeld(w)
    /\ worker' = [worker EXCEPT ![w] = Stopped]
    /\ UNCHANGED <<rowVars, due, clock, received>>

\* The process dies, a report is rolled back, or the cycle limit is reached.
SessionEnds(w) ==
    /\ worker[w].step # "stopped"
    /\ worker' = [worker EXCEPT ![w] = Stopped]
    /\ UNCHANGED <<rowVars, due, clock, received>>

SessionStarts(w) ==
    /\ worker[w].step = "stopped"
    /\ worker' = [worker EXCEPT ![w] = Polling]
    /\ UNCHANGED <<rowVars, due, clock, received>>

Claim(w) == \E d \in Rows : ClaimRow(w, d) \/ DeadLetter(w, d)
Report(w) == Published(w) \/ Failed(w) \/ StaleReport(w)

Next ==
    \/ \E d \in Rows : AppendIntent(d) \/ BackoffElapses(d) \/ LeaseExpires(d)
    \/ \E w \in Workers :
         \/ Claim(w)
         \/ Deliver(w)
         \/ Report(w)
         \/ SessionEnds(w)
         \/ SessionStarts(w)

Spec == Init /\ [][Next]_vars

\* Time passes; a call of the sink returns (its transport has a timeout) and is
\* reported unless the session ends first; sessions are started again, and one
\* that is started again and again gets through a claim.
Fairness ==
    /\ \A d \in Rows : WF_vars(BackoffElapses(d)) /\ WF_vars(LeaseExpires(d))
    /\ \A w \in Workers :
         /\ WF_vars(SessionStarts(w)) /\ SF_vars(Claim(w))
         /\ WF_vars(Deliver(w)) /\ WF_vars(Report(w))

FairSpec == Spec /\ Fairness

-----------------------------------------------------------------------------
(* Properties.                                                             *)

\* The receiver holds a durable receipt of every PUBLISHED event, whatever
\* was retried, lost or reported late.
PublishedMeansReceived == \A d \in Rows : status[d] = "PUBLISHED" => d \in received

\* Every attempt is counted when it begins and leaves exactly one outcome in
\* the history when it ends, reported or not; only the open one is missing,
\* and the row has an owner exactly while there is one.
AttemptsAccounted ==
    \A d \in Rows :
        /\ attempts[d] = Len(history[d]) + (IF status[d] = "PUBLISHING" THEN 1 ELSE 0)
        /\ status[d] = "PUBLISHING" <=> owner[d] # NoWorker

\* An outcome is recorded for an attempt only by the worker that made it: a
\* late report never speaks for the attempt of the worker that took over.
OutcomeOfOwnAttempt ==
    [][\A d \in Rows, w \in Workers :
         /\ history'[d] # history[d]
         /\ worker[w].step \in Reports
         /\ worker'[w] # worker[w]
         => worker[w].row = d /\ worker[w].attempt = Len(history'[d])]_vars

\* Every committed delivery ends published or dead-lettered, however often
\* sinks fail and sessions end.
EveryDeliverySettles ==
    \A d \in Rows : status[d] = "PENDING" ~> status[d] \in Terminal

Promise == INSTANCE DeliveryPromise WITH
    Events    <- Rows,
    committed <- {d \in Rows : status[d] # "ABSENT"},
    published <- {d \in Rows : status[d] = "PUBLISHED"},
    abandoned <- {d \in Rows : status[d] = "FAILED_TERMINAL"}

\* The outbox implements the promise: receipt before publication, one verdict.
ImplementsPromise == Promise!Spec
=============================================================================
