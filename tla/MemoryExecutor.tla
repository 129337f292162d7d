---------------------------- MODULE MemoryExecutor ----------------------------
(***************************************************************************)
(* The same executor over the in-memory unit of work                       *)
(* (src/avuhz_runtime/in_memory.py): an execution works on a deep copy of  *)
(* the whole store and its commit overwrites the whole store with it.      *)
(* Keys are not reserved and nothing is locked.                            *)
(*                                                                         *)
(* Copying the store is one step here; under threads even a copy can be    *)
(* torn, which only adds behaviours to those shown.                        *)
(***************************************************************************)
EXTENDS Naturals

CONSTANTS Processes, Commands, Subjects, Keys, Bodies, Key, Body, Subject,
          Expected, Guarded, NoCommand

VARIABLES
    store,    \* MemoryStore: versions, idempotency results, events, outbox
    work,     \* the execution each thread is in the middle of, with its copy
    replies   \* history: what callers were told

vars == <<store, work, replies>>

Empty ==
    [version  |-> [s \in Subjects |-> 0],
     reserved |-> [k \in Keys |-> NoCommand],
     events   |-> {},
     outbox   |-> {}]

Idle == [step |-> "idle", command |-> NoCommand, copy |-> Empty]

Init ==
    /\ store = Empty
    /\ work = [p \in Processes |-> Idle]
    /\ replies = {}

Told(c, result, prior) ==
    replies' = replies \cup {[command |-> c, result |-> result, prior |-> prior]}

Verdict(c, prior) == IF Body[c] = Body[prior] THEN "DUPLICATE" ELSE "CONFLICT"

\* The UnitOfWork copies the store; the look-up reads the copy.
Begin(p, c) ==
    LET prior == store.reserved[Key[c]] IN
    /\ work[p].step = "idle"
    /\ IF prior = NoCommand
         THEN /\ work' = [work EXCEPT ![p] = [step |-> "begun", command |-> c, copy |-> store]]
              /\ UNCHANGED replies
         ELSE /\ Told(c, Verdict(c, prior), prior)
              /\ UNCHANGED work
    /\ UNCHANGED store

\* The guards look at the live store.
Guard(p) ==
    LET c == work[p].command IN
    /\ work[p].step = "begun"
    /\ IF c \in Guarded /\ store.version[Subject[c]] # Expected[c]
         THEN Told(c, "REJECTED", c) /\ work' = [work EXCEPT ![p] = Idle]
         ELSE work' = [work EXCEPT ![p].step = "guarded"] /\ UNCHANGED replies
    /\ UNCHANGED store

\* uow.idempotency.save_result: command_id is the command.
Result(c) == c

\* uow.outbox.append
Staged(copy, c) == copy.outbox \cup {c}

\* The handler's own checks, on the copy.
MayWrite(copy, c) == copy.version[Subject[c]] = Expected[c]

\* What the handler, the event, the delivery and the result make of the copy.
Executed(copy, c) ==
    [version  |-> [copy.version EXCEPT ![Subject[c]] = @ + 1],
     reserved |-> [copy.reserved EXCEPT ![Key[c]] = Result(c)],
     events   |-> copy.events \cup {[command |-> c, version |-> copy.version[Subject[c]] + 1]},
     outbox   |-> Staged(copy, c)]

\* The handler works on the copy; store.__dict__.update(working.__dict__).
Commit(p) ==
    LET c == work[p].command IN
    /\ work[p].step = "guarded"
    /\ IF MayWrite(work[p].copy, c)
         THEN store' = Executed(work[p].copy, c) /\ Told(c, "ACCEPTED", c)
         ELSE UNCHANGED store /\ Told(c, "REJECTED", c)
    /\ work' = [work EXCEPT ![p] = Idle]

\* An exception ends the execution; the copy is dropped.
Abort(p) ==
    /\ work[p].step # "idle"
    /\ work' = [work EXCEPT ![p] = Idle]
    /\ UNCHANGED <<store, replies>>

Next ==
    \E p \in Processes :
        \/ \E c \in Commands : Begin(p, c)
        \/ Guard(p)
        \/ Commit(p)
        \/ Abort(p)

Spec == Init /\ [][Next]_vars

-----------------------------------------------------------------------------
(* Properties.                                                             *)

\* "Accepted transitions atomically persist authoritative state, idempotency,
\* one schema-valid lifecycle event, and one PENDING outbox intent"
\* (docs/phase5d-implementation-package-architecture.md:116): what a caller
\* was told is accepted stays in the store.
AcceptedPersists ==
    \A r \in replies : r.result = "ACCEPTED" =>
        /\ r.command \in {e.command : e \in store.events}
        /\ r.command \in store.outbox
        /\ store.reserved[Key[r.command]] = r.command
=============================================================================
