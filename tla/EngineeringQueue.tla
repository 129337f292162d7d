-------------------------- MODULE EngineeringQueue --------------------------
(* The local engineering queue: one state file of manifest records and task  *)
(* claims, advanced by one process at a time (the repository supports no     *)
(* more), each call loading the file, checking the manifest and the targets  *)
(* in the worktree, and replacing the file.  The process may die before the  *)
(* write; the targets are edited by others at any moment.                    *)
(*                                                                           *)
(* A manifest is a record of its id, its tasks, its target paths and its     *)
(* body; its digest is the whole of it.  Only valid manifests are submitted. *)
EXTENDS Naturals, Sequences, SequencesExt

CONSTANTS
  Manifests,     \* manifests that may be submitted, several of one id
  NoRecord,      \* an id that was never enqueued
  NoClaim,       \* a task that no manifest claimed
  NoCall         \* the process is between calls

Ids == {m.id : m \in Manifests}
Tasks == UNION {m.tasks : m \in Manifests}
Paths == UNION {m.paths : m \in Manifests}

VARIABLES
  queue,         \* the state file: records by id, claims by task
  drifted,       \* the targets that differ from their approved baseline
  call           \* the state the process is about to write

vars == <<queue, drifted, call>>

Normal == <<"QUEUED", "READY", "DRY_RUN_VERIFIED">>

Statuses == {"QUEUED", "READY", "DRY_RUN_VERIFIED", "BLOCKED"}
Codes    == {"none", "manifest_mismatch", "target_baseline_mismatch"}

Records == [status : Statuses, code : Codes, digest : Manifests, transitions : Seq(Statuses)]

EmptyState == [records |-> [i \in Ids |-> NoRecord], claims |-> [t \in Tasks |-> NoClaim]]

Init ==
  /\ queue = EmptyState
  /\ drifted = {}
  /\ call = NoCall

\* The shape a record must have to be loaded.
RecordLoads(r) ==
  IF r.status = "BLOCKED"
  THEN /\ r.code # "none"
       /\ \E k \in 1..3 : r.transitions = Append(SubSeq(Normal, 1, k), "BLOCKED")
  ELSE /\ r.code = "none"
       /\ \E k \in 1..3 : r.transitions = SubSeq(Normal, 1, k) /\ r.status = Normal[k]

\* _load_state accepts the file: records of a legal history, and claims that
\* are exactly the tasks of the records, each in one of them.
Loads(q) ==
  /\ \A i \in Ids : q.records[i] # NoRecord => RecordLoads(q.records[i])
  /\ \A i, j \in Ids :
       q.records[i] # NoRecord /\ q.records[j] # NoRecord /\ i # j =>
         q.records[i].digest.tasks \cap q.records[j].digest.tasks = {}
  /\ \A t \in Tasks :
       q.claims[t] = IF \E i \in Ids : q.records[i] # NoRecord /\ t \in q.records[i].digest.tasks
                     THEN CHOOSE i \in Ids :
                            q.records[i] # NoRecord /\ t \in q.records[i].digest.tasks
                     ELSE NoClaim

\* The process goes to write q.
Writes(q) == call' = q /\ UNCHANGED <<queue, drifted>>

\* Mutant: a record that is blocked already is blocked once more.
BlockedAgain(r, code) ==
  [r EXCEPT !.status = "BLOCKED", !.code = code,
            !.transitions = Append(r.transitions, "BLOCKED")]

Blocked(r, code) ==
  [r EXCEPT !.status = "BLOCKED", !.code = code,
            !.transitions = IF Last(@) = "BLOCKED" THEN @ ELSE Append(@, "BLOCKED")]

Advance(r, status) ==
  [r EXCEPT !.status = status, !.transitions = Append(@, status)]

-----------------------------------------------------------------------------

\* No replay of the manifest's id or of any of its tasks.
MayEnqueue(m) ==
  /\ queue.records[m.id] = NoRecord
  /\ \A t \in m.tasks : queue.claims[t] = NoClaim

Enqueue(m) ==
  /\ call = NoCall
  /\ Loads(queue)
  /\ MayEnqueue(m)
  /\ Writes([records |-> [queue.records EXCEPT ![m.id] =
                [status |-> "QUEUED", code |-> "none", digest |-> m,
                 transitions |-> <<"QUEUED">>]],
             claims |-> [t \in Tasks |-> IF t \in m.tasks THEN m.id ELSE queue.claims[t]]])

\* A manifest that is not the one enqueued under its id blocks that record,
\* whatever has become of it.
Mismatch(m) ==
  /\ call = NoCall
  /\ Loads(queue)
  /\ queue.records[m.id] # NoRecord
  /\ queue.records[m.id].digest # m
  /\ Writes([queue EXCEPT !.records[m.id] = Blocked(@, "manifest_mismatch")])

\* Neither blocked nor beyond this transition.
MayAdvance(r, from) == r.status = from

\* prepare and verify_dry_run: the next status if every target is as approved,
\* a block if one is not.
Boundary(m, from, to) ==
  /\ call = NoCall
  /\ Loads(queue)
  /\ queue.records[m.id] # NoRecord
  /\ queue.records[m.id].digest = m
  /\ MayAdvance(queue.records[m.id], from)
  /\ \/ /\ m.paths \cap drifted = {}
        /\ Writes([queue EXCEPT !.records[m.id] = Advance(@, to)])
     \/ /\ m.paths \cap drifted # {}
        /\ Writes([queue EXCEPT !.records[m.id] = Blocked(@, "target_baseline_mismatch")])

Prepare(m) == Boundary(m, "QUEUED", "READY")
VerifyDryRun(m) == Boundary(m, "READY", "DRY_RUN_VERIFIED")

\* os.replace: the caller is answered after it.
Replace ==
  /\ call # NoCall
  /\ queue' = call
  /\ call' = NoCall
  /\ UNCHANGED drifted

\* The process dies before the replace; a temporary file has a name of its own.
Die ==
  /\ call # NoCall
  /\ call' = NoCall
  /\ UNCHANGED <<queue, drifted>>

\* Somebody edits a target, or restores it; external to the queue.
Edit(f) ==
  /\ drifted' = IF f \in drifted THEN drifted \ {f} ELSE drifted \cup {f}
  /\ UNCHANGED <<queue, call>>

\* run_resumable_dry_run takes up whichever of these steps is next.
Next ==
  \/ \E m \in Manifests : Enqueue(m) \/ Mismatch(m) \/ Prepare(m) \/ VerifyDryRun(m)
  \/ Replace \/ Die
  \/ \E f \in Paths : Edit(f)

Spec == Init /\ [][Next]_vars

-----------------------------------------------------------------------------

\* Whatever sequence of calls, mismatches, drifts and restarts produced it, the
\* state file passes the full shape check of the next load: the queue is never
\* locked out of its own file.
QueueStaysLoadable == Loads(queue)

=============================================================================
