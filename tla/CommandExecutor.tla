--------------------------- MODULE CommandExecutor ---------------------------
(***************************************************************************)
(* The governed command executor (Executor.execute in                      *)
(* src/avuhz_runtime/in_memory.py) over the PostgreSQL unit of work        *)
(* (src/avuhz_runtime/postgres.py): idempotency look-up, guards on a       *)
(* snapshot that another connection reads, reservation of the key, the     *)
(* handler's compare-and-set on the authoritative record, one lifecycle    *)
(* event, one pending delivery, and the commit of all of them.             *)
(*                                                                         *)
(* Every statement sees what is committed when it starts (READ COMMITTED). *)
(* An INSERT of a key, or an UPDATE of a row, that another open            *)
(* transaction has written waits for that transaction to end.              *)
(*                                                                         *)
(* A subject stands for one authoritative record and its version for the   *)
(* number of commands that have taken effect on it.                        *)
(***************************************************************************)
EXTENDS Naturals

CONSTANTS
    Processes,   \* threads of the command service, one connection each
    Commands,    \* command identities (command_id)
    Subjects,    \* authoritative records
    Keys,        \* idempotency keys with tenant, principal, type and scope
    Bodies,      \* semantic request fingerprints
    Key,         \* the key of each command
    Body,        \* the fingerprint of each command
    Subject,     \* the subject of each command
    Expected,    \* expected_record_version, 0 for a command that creates
    Guarded,     \* commands whose guards look at the subject's snapshot
    NoCommand    \* "no completed idempotency record"

\* A fingerprint covers the subject and the expected version.
ASSUME CommandAssumption ==
    /\ Key \in [Commands -> Keys]
    /\ Body \in [Commands -> Bodies]
    /\ Subject \in [Commands -> Subjects]
    /\ Expected \in [Commands -> Nat]
    /\ Guarded \subseteq Commands
    /\ NoCommand \notin Commands
    /\ \A c, d \in Commands :
         Body[c] = Body[d] => Subject[c] = Subject[d] /\ Expected[c] = Expected[d]

VARIABLES
    version,    \* committed record version of each subject, 0 without a record
    reserved,   \* result_reference of each committed idempotency record
    events,     \* committed lifecycle events
    outbox,     \* commands whose event has a committed PENDING delivery
    work,       \* the execution each process is in the middle of
    replies     \* history: what callers were told

committed == <<version, reserved, events, outbox>>
vars      == <<committed, work, replies>>

Idle == [step |-> "idle", command |-> NoCommand]

Steps == {"begun", "new", "guarded", "reserved", "read", "written"}
Results == {"ACCEPTED", "DUPLICATE", "CONFLICT", "REJECTED"}

Event == [command : Commands, version : Nat]
Reply == [command : Commands, result : Results, prior : Commands]

\* Every table, execution and reply has values of its type.
TypeOK ==
    /\ version \in [Subjects -> Nat]
    /\ reserved \in [Keys -> Commands \cup {NoCommand}]
    /\ events \subseteq Event
    /\ outbox \subseteq Commands
    /\ work \in [Processes -> [step : Steps, command : Commands] \cup {Idle}]
    /\ replies \subseteq Reply

Init ==
    /\ version = [s \in Subjects |-> 0]
    /\ reserved = [k \in Keys |-> NoCommand]
    /\ events = {}
    /\ outbox = {}
    /\ work = [p \in Processes |-> Idle]
    /\ replies = {}

-----------------------------------------------------------------------------
(* Answers.                                                                *)

At(p, step) == work[p].step = step
Cmd(p)      == work[p].command

Advance(p, step) == work' = [work EXCEPT ![p].step = step]

\* The transaction ends, rolled back or committed, and the caller is told.
Answer(p, result, prior) ==
    /\ replies' = replies \cup {[command |-> Cmd(p), result |-> result, prior |-> prior]}
    /\ work' = [work EXCEPT ![p] = Idle]

\* Mutant: a key that was used answers for any request.
VerdictByKey(c, prior) == "DUPLICATE"

Verdict(c, prior) == IF Body[c] = Body[prior] THEN "DUPLICATE" ELSE "CONFLICT"

\* Another command completed under this key.
AnswerPrior(p) ==
    /\ Answer(p, Verdict(Cmd(p), reserved[Key[Cmd(p)]]), reserved[Key[Cmd(p)]])
    /\ UNCHANGED committed

Refuse(p) ==
    /\ Answer(p, "REJECTED", Cmd(p))
    /\ UNCHANGED committed

-----------------------------------------------------------------------------
(* One execution.                                                          *)

Begin(p, c) ==
    /\ At(p, "idle")
    /\ work' = [work EXCEPT ![p] = [step |-> "begun", command |-> c]]
    /\ UNCHANGED <<committed, replies>>

Completed(c) == reserved[Key[c]] # NoCommand

\* uow.idempotency.get
LookUp(p) ==
    /\ At(p, "begun")
    /\ IF Completed(Cmd(p)) THEN AnswerPrior(p)
       ELSE Advance(p, "new") /\ UNCHANGED <<committed, replies>>

AsExpected(c) == version[Subject[c]] = Expected[c]

\* The guard pipeline, on the snapshot another connection has just read.
Guard(p) ==
    /\ At(p, "new")
    /\ IF Cmd(p) \in Guarded /\ ~AsExpected(Cmd(p)) THEN Refuse(p)
       ELSE Advance(p, "guarded") /\ UNCHANGED <<committed, replies>>

HoldsKey(q) == work[q].step \in {"reserved", "read", "written"}

\* Mutant: whoever wants the key keeps the others away from it.
KeyFreeEager(p) ==
    \A q \in Processes \ {p} :
        work[q].step \in {"guarded", "reserved", "read", "written"} => Key[Cmd(q)] # Key[Cmd(p)]

\* No open transaction has inserted this key.
KeyFree(p) == \A q \in Processes \ {p} : HoldsKey(q) => Key[Cmd(q)] # Key[Cmd(p)]

\* Mutant: the key is inserted without looking for a conflict.
MayReserveBlindly(p) == TRUE

MayReserve(p) == ~Completed(Cmd(p))

\* INSERT ... ON CONFLICT DO NOTHING: waits for another inserter, and answers
\* for the command that completed under the key in the meantime.
Reserve(p) ==
    /\ At(p, "guarded")
    /\ KeyFree(p)
    /\ IF MayReserve(p) THEN Advance(p, "reserved") /\ UNCHANGED <<committed, replies>>
       ELSE AnswerPrior(p)

\* The handler reads the authoritative record and checks it again.
Read(p) ==
    /\ At(p, "reserved")
    /\ IF AsExpected(Cmd(p)) THEN Advance(p, "read") /\ UNCHANGED <<committed, replies>>
       ELSE Refuse(p)

\* No open transaction has written this row.
RowFree(p) ==
    \A q \in Processes \ {p} : At(q, "written") => Subject[Cmd(q)] # Subject[Cmd(p)]

\* WHERE ... record_version = current, or INSERT ... ON CONFLICT DO NOTHING.
Matches(c) == AsExpected(c)

\* The write waits for the row, then takes effect only on the version read.
Write(p) ==
    /\ At(p, "read")
    /\ RowFree(p)
    /\ IF Matches(Cmd(p)) THEN Advance(p, "written") /\ UNCHANGED <<committed, replies>>
       ELSE Refuse(p)

\* uow.outbox.append
Staged(c) == outbox \cup {c}

\* uow.idempotency.save_result: result_reference is the command.
Result(c) == c

\* The event, its delivery and the result become visible with the record;
\* the caller may never hear of it.
Commit(p) ==
    LET c == Cmd(p) IN
    /\ At(p, "written")
    /\ version' = [version EXCEPT ![Subject[c]] = @ + 1]
    /\ reserved' = [reserved EXCEPT ![Key[c]] = Result(c)]
    /\ events' = events \cup {[command |-> c, version |-> version[Subject[c]] + 1]}
    /\ outbox' = Staged(c)
    /\ \/ Answer(p, "ACCEPTED", c)
       \/ work' = [work EXCEPT ![p] = Idle] /\ UNCHANGED replies

\* The process or its connection dies: the server rolls back.
Abort(p) ==
    /\ ~At(p, "idle")
    /\ work' = [work EXCEPT ![p] = Idle]
    /\ UNCHANGED <<committed, replies>>

Step(p) ==
    \/ LookUp(p)
    \/ Guard(p)
    \/ Reserve(p)
    \/ Read(p)
    \/ Write(p)
    \/ Commit(p)

Next ==
    \E p \in Processes :
        \/ \E c \in Commands : Begin(p, c)
        \/ Step(p)
        \/ Abort(p)

Spec == Init /\ [][Next]_vars

\* Statements return and transactions end; one that waits for another
\* transaction is woken when that ends, and is not overtaken for ever.
Fairness == \A p \in Processes : WF_vars(Step(p)) /\ SF_vars(Reserve(p)) /\ SF_vars(Write(p))

FairSpec == Spec /\ Fairness

-----------------------------------------------------------------------------
(* Properties.                                                             *)

\* A key, and a row, is in the hands of one open transaction; a held key has
\* no result yet and a written row is still as its command expected.
LocksExclude ==
    /\ \A p, q \in Processes : p # q =>
         /\ HoldsKey(p) /\ HoldsKey(q) => Key[Cmd(p)] # Key[Cmd(q)]
         /\ At(p, "written") /\ At(q, "written") => Subject[Cmd(p)] # Subject[Cmd(q)]
    /\ \A p \in Processes :
         /\ HoldsKey(p) => ~Completed(Cmd(p))
         /\ At(p, "written") => AsExpected(Cmd(p))

\* A key takes effect once: whatever was retried or raced, two events never
\* share an idempotency key.
OneEffectPerKey ==
    \A e, f \in events : Key[e.command] = Key[f.command] => e = f

\* Record, idempotency result, event and delivery are committed together:
\* each of them names exactly the same commands.
CommittedTogether ==
    LET effects == {e.command : e \in events} IN
    /\ outbox = effects
    /\ {reserved[k] : k \in Keys} \ {NoCommand} = effects
    /\ \A c \in effects : reserved[Key[c]] = c

\* No update is lost: the events of a subject carry the versions 1 to its
\* current one, each once, and each command found the version it expected.
NoLostUpdate ==
    /\ \A s \in Subjects :
         {e.version : e \in {f \in events : Subject[f.command] = s}} = 1..version[s]
    /\ \A e, f \in events :
         Subject[e.command] = Subject[f.command] /\ e.version = f.version => e = f
    /\ \A e \in events : e.version = Expected[e.command] + 1

\* Every execution ends: nobody waits for a key or a row for ever.
EveryExecutionEnds == \A p \in Processes : ~At(p, "idle") ~> At(p, "idle")

Atomic == INSTANCE IdempotentCommands WITH applied <- {e.command : e \in events}

\* The executor implements atomic commands: whatever the interleaving, what
\* callers are told is true of one serial history.
ImplementsAtomicCommands == Atomic!Spec

\* "Exact replay returns DUPLICATE"
\* (docs/phase5d-implementation-package-architecture.md:116): a request that
\* has been carried out is not answered REJECTED.
ExactReplayIsDuplicate ==
    [][\A r \in replies' \ replies :
         r.result = "REJECTED" /\ reserved[Key[r.command]] # NoCommand
         => Body[reserved[Key[r.command]]] # Body[r.command]]_vars
=============================================================================
