# Verification of the governed runtime

This directory is the formal-methods companion of the repository: TLA+ modules
translated from the Python sources, TLC configurations that check them on small
instances, and TLAPS proofs of the properties that matter most. `PROJECT.json`
says which definition models which lines, which run checks what, which hazard
each property is aimed at, and which theorem stands behind which property.

The sources are four packages under `src/src/`: `avuhz_runtime` (the governed
runtime: commands, authority records, the LOCAL infrastructure loop),
`avuhz_worker` (outbox workers and the local n8n receiver), `avuhz_engineering`
(plans, queue, leases and hand-offs of the engineering control layer) and
`avuhz_service` (the HTTP service); and the executors of the governed work on
the DEVELOPMENT project under `src/scripts/`.

## 1. Inventory

### A. LOCAL infrastructure authority loop (modelled, proved)

`local_infrastructure_{execution,fencing,verification,audit,recovery,recovery_action}.py`.

* State: one SQLite file with the execution registry (registered, revoked,
  consumed), the attempts and their outcome, the fence protocol (enrolled,
  dispatched, fenced), the simulated resource, verification and audit evidence,
  recovery cases, decisions and recovery actions; and, in each process, what it
  is between two of its transactions.
* Operations: register, revoke, execute (reserve, dispatch, record), verify,
  append audit evidence, open and reconcile a case, propose, execute, verify and
  revoke a recovery action.
* Interaction: processes share the file and nothing else. Each transaction is
  `BEGIN IMMEDIATE`, so what interleaves are whole transactions.
* Hard: a crash between two transactions, a commit whose reply is lost, a
  revocation at any point, an executor and a recovery racing for one execution,
  a resource that changes back to a state seen before.
* Correct when: an approval leads to at most one physical write, whichever
  process makes it; nothing fenced, uncertain or recorded as revoked writes; every
  decision
  and every piece of evidence agrees with the ledger it was taken from.

### B. Governed command executor (modelled, proved)

`in_memory.py` (`Executor.execute`, the in-memory unit of work), `postgres.py`
(the PostgreSQL unit of work), `guards.py`.

* State: authoritative records with versions, idempotency records, lifecycle
  events, pending outbox deliveries; in each thread, the command in progress.
* Operations: look up the idempotency key, judge the guards on a snapshot that
  another connection reads, reserve the key, read the record, compare and set,
  append event and delivery, save the result, commit.
* Hard: two connections with the same key or the same row, a snapshot that is
  older than the reservation, a connection that dies around the commit; in
  memory, a store that is copied and swapped on a server with several threads.
* Correct when: a key takes effect at most once, record, result, event and
  delivery appear together, no version is overwritten, and callers are told
  what some serial history would have told them.

### C. Outbox delivery (modelled, proved)

`outbox_delivery.py`, the claim in `postgres.py`, `avuhz_worker/outbox.py`,
`n8n_event_sink.py`, `local_n8n_receipt_store.py`.

* State: the delivery row (status, attempt count, lease, history), the worker's
  attempt in hand, the durable receipts of the receiver.
* Operations: claim, deliver, publish, fail, dead-letter an exhausted claim.
* Hard: leases that expire during the call, late reports, lost acknowledgments,
  workers that die with a claim.
* Correct when: published means received, every attempt has exactly one outcome
  in the history and only of the worker that made it, attempts are bounded and
  every delivery settles.

### D. Phase 5D authority chain (modelled, proved)

`implementation_handoff.py`, `phase5d_*.py` and their memory and PostgreSQL
repositories.

* State: versioned records that bind each other by id, version and digest:
  accepted handoff, implementation brief, implementation authorization, build
  package, build executions, QA results, client acceptances, deployment
  authorization, deployment executions and verifications; human approvals.
* Operations: draft or propose, revise, record an approval, approve / activate /
  release, revoke; start and complete a build; record a QA result, a decision;
  start, complete and roll back a deployment; record its verification.
* Interaction: every command runs in the executor of B and resolves all of its
  upstream records again before it writes. Authorities also end by the clock.
* Hard: an upstream record that changes between two stages or between the
  judgement of a command and its commit; attempts left in progress; approvals
  that belong to another version; rollbacks across attempts and versions.
* Correct when: each identity has one current version, every record descends
  from records that had authority, nothing takes effect without both signatures,
  authority once lost is never regained, results and decisions stay in order.

### E. Engineering control layer (modelled, proved)

`avuhz_engineering`: a package that works on local files, called by one-off
tools; nothing in it is started by the service.

* `authorization_plan.py` + `progress_repository.py`: a fixed plan of steps, each
  authorized and then given an outcome, in a JSON file that is replaced whole
  after a digest comparison. Hard: two processes between the comparison and the
  replace, the window closing on an authorized step, a process dying before its
  answer. Correct when the steps are granted once, in order, each after the
  success of those before it, and a failure stops the plan; what the code keeps
  of that when two processes meet is that every stale write costs at most one
  grant too many and still leaves a lawful plan.
* `local_worktree_lease.py`: a kernel lock on a file that is never removed, and a
  state file replaced through an `O_EXCL` temporary. Hard: deaths between the
  steps, forks, a leftover temporary, the first use of a key. Correct when there
  is one owner and the owner can prove it until it releases.
* `local_codex_admission.py`: signed documents, each admitted once by an
  exclusive SQLite transaction on its nonce. Hard: crash and power failure
  between commit, directory sync and answer.
* `local_engineering_queue.py`: manifests, tasks and two validation boundaries in
  a JSON file with a strict shape check at every load. Hard: histories of blocks
  and mismatches that the check must still accept.
* `development_handoff_*.py`, `development_source_bound_handoff_lifecycle.py`,
  `development_one_shot_handoff_dispatch.py`: the owner's approvals of four stages
  are verified, claimed in a ledger (SQLite, or PostgreSQL for the candidate) and
  followed by at most one call each: generate, verify, command, global logout.
  Hard: overlapping sets of approvals, a commit of unknown outcome, a call that
  raises and was, or will be, carried out. Correct when no approval is relied on
  twice and whatever exists at a provider is claimed for and reported.
* `development_auth_token_lifecycle.py`: issues one session, counts, logs out,
  counts again; a failure starts a reconciliation. Hard: lost and late answers,
  counts that fail, others who sign the same user in. Correct when a cleanup is
  called verified only if the session is gone.
* `local_worktree_observer.py`, `pipeline.py`, `evidence*.py`, provider reads: no
  state of their own. Not modelled.

The plan engine is also what the executors of H run under: each loads it, has it
authorize its step and leaves it to the owner to commit what happened.

### F. Service (partly modelled, and what is modelled proved)

`avuhz_service`: a threaded WSGI application over the executor of B, and a
number of modules that describe themselves as dormant candidates.

* Application, composition, server: routing and response shapes around the
  executor. That the server is threaded is modelled (MemoryExecutor).
* Identity, registration, activation (`development_tenant_registration.py`,
  `development_company_activation.py`, `development_active_owner_membership.py`):
  a company and its owner's membership, registered pending and activated
  together. Hard: an operator changes either row at any time. Correct when both
  rows become active together and only from pending.
* Acquisition intake (`acquisition_intake_command.py`,
  `development_acquisition_{ingress,rate_limit}.py`): a request is counted against
  the quota of its window, then inserted once with its event and delivery, under
  shared locks on the company's and the owner's row. Hard: several servers with
  the same request, a replay with other contents, the window turning, suspension
  between look-up and insert. Correct when there is one row, one event and one
  "new" answer for each request, at most the quota per window, and only while
  company and owner are active.
* Work intake (`shared_work_intake_candidate.py`, its PostgreSQL writer, the
  hand-off from acquisition): items with an owner, a status and a version,
  handed over by offer and acceptance, under an advisory lock per item. Hard:
  offers withdrawn and repeated, retries of keys whose effect is superseded, a
  caller who loses membership while waiting. Correct when nobody becomes the
  owner without consent on both sides, and a retry is answered with what its
  key did.
* Booking, follow-up review, onboarding readiness, due work: reads,
  classifications and a prototype in memory. Not modelled.

### G. Local communications, engagements and usage billing (modelled, proved)

`avuhz_worker/shared_{communications,engagement_delivery,usage_billing}_local.py`:
a sink that gives one lifecycle event two effects, a communication and a
measurement, each kept by an in-memory ledger with its own lock and identified
by the delivery. Hard: two workers that deliver the same event after an expired
lease, a failure between the two effects, a restart that forgets. Correct when
a delivery is confirmed only after both effects, and each of them happens once
as long as the process lives.

### H. Governed work on the DEVELOPMENT project (modelled, proved)

About forty programs under `src/scripts/`, each started once by the owner as a
GitHub workflow under an approved plan, and each written after the last one had
failed. A workflow takes the repository's default branch, has a concurrency group
in which runs wait for each other, a limit in minutes, and two parts: one without
secrets that checks the files, one with them that checks again and acts. What an
executor did is in its process and in the report it prints; the owner commits it
to the plan's progress afterwards. Three families share the shape:

* Positive-authentication campaign (`development_provider_adapter_positive_auth_*`,
  versions 1 to 15 and three continuations). State: a provider key and its binding
  for each version, the progress of its plan, the retirements of failed versions;
  the session of the lifecycle. Operations: the owner creates, binds, inspects,
  deletes and records; the executor generates a credential, exchanges it for a
  session, probes the live service with it and logs out. Hard: a run is cancelled,
  or repeated, with its lifecycle half done; an answer is lost and the session
  begins later; a version starts while a predecessor's secret is in force. Correct
  when a key sees one lifecycle, the versions followed are gone for good, and a
  report never says less than what may be left.
* Token validation (`development_auth_v3{0,1,2}_token_executor.py`). State: the
  user's sessions, counted by one query; what a run holds and has noted. Hard: an
  overlap of two runs, whose sessions are counted together; an emergency cleanup
  that itself fails; an exception that is not the handled one, raised while a
  session lives. Correct when a report that the session ended is true, and one
  that no cleanup was needed at least never covers a token that was held.
* Sessions left behind (`development_auth_v32_*`, `development_auth_v33_*`: an
  inspection, three cleanups, two diagnostics, the repaired lifecycle and its
  validation). Hard: a queued run works on the files of the commit it was
  dispatched at; a retry of a cleanup that asked for its logout already; plans
  that bind each other's outcome. Correct when a lifecycle begins once, in the
  order of the plans, and what is left was reported.

### I. Local plumbing (not modelled)

Projections of the outbox, the local n8n receiver's HTTP, TLS and credential
modules, telemetry, readiness; the pinned-manifest checks of the LOCAL
infrastructure (`policy`, `trust`, `authority`, `state_review`), which deny a
call before it touches state.

## 2. Modules and how they correspond to the code

A denied call that changes nothing is a step not taken. A transaction that
fails is a step not taken; a transaction whose answer is lost is a step taken
without telling the caller. A digest is the value digested. Operators named in
a `Mutant:` comment are plausible bugs used to show that a property can fail;
no action refers to them.

| Module | Code | Notes |
| --- | --- | --- |
| `SingleUseAuthority` | what an approval promises | abstract specification |
| `InfraExecution` | `execution.py`, `fencing.py` | registry, receipts, fence protocol, executor processes |
| `InfraEvidence` | `verification.py`, `audit.py` | one verifier per execution; replays stutter |
| `InfraRecovery` | `recovery.py` | cases, consents, decisions |
| `InfraRecoveryAction` | `recovery_action.py`, and the whole loop | composes the three above |
| `IdempotentCommands` | what commands promise | abstract specification |
| `CommandExecutor` | `Executor.execute` on PostgreSQL | READ COMMITTED, waits for keys and rows, abort anywhere |
| `MemoryExecutor` | the same in memory | the copy of the store is one step |
| `DeliveryPromise` | what the outbox promises | abstract specification |
| `OutboxDelivery` | claim, sink, report | `SKIP LOCKED`; time is the order of due rows |
| `ImplementationChain` | handoff to package | a command is judged and committed in one step, a simplification (below) |
| `DeliveryChain` | builds to deployment verification | the records, the handlers' conditions and the writes; its own steps are the quick commands |
| `RevocableAuthority` | what an authority promises | abstract specification |
| `AuthorityRace` | the delivery half under READ COMMITTED | every command that relies on a record it does not write is judged on one snapshot and committed later |
| `SequentialPlan` | what a plan promises | abstract specification |
| `PlanProgress` | the engine of `authorization_plan.py` | pure operators |
| `ProgressStore` | `progress_repository.py` and its callers | load, compare, replace, confirm |
| `WorktreeLease` | `local_worktree_lease.py` | lock, state and temporary file, descriptors |
| `CodexAdmission` | `local_codex_admission.py` | committed rows and durable rows |
| `EngineeringQueue` | `local_engineering_queue.py` | one process, as its document demands |
| `HandoffDispatch` | claims, executor, lifecycle, dispatch | two ledgers; a call that raises may still be carried out |
| `TokenLifecycle` | `development_auth_token_lifecycle.py` | sessions as none, own and others |
| `EngineeringTools` | the five above side by side | they share no state |
| `TenantActivation` | registration, activation, operator changes | two rows |
| `AcquisitionIntake` | look-up, rate limit, writer | extends `TenantActivation`; several servers |
| `WorkIntake` | reducer and PostgreSQL writer | from lock to commit is one step |
| `LifecycleFanout` | the sink with its two effects | ledgers are lost at a restart |
| `SharedService` | the three above side by side | a behaviour works with one |
| `PositiveAuth` | the executors of the campaign, versions 1 to 15 | the plans' documents are phases; the owner is external |
| `TokenValidation` | the executors of revisions 30 to 32 | one program with its emergency cleanup |
| `SessionCleanup` | inspection, cleanups, diagnostics, repaired lifecycle | a run sees the files of its dispatch |
| `MCDevelopmentWork` | these three and `ProgressStore` side by side | a behaviour works with one |

**Infrastructure loop.** Every transaction is `BEGIN IMMEDIATE` on one SQLite
file, so a transaction is an action and nothing finer interleaves. Between its
transactions a process is in `executor[x]` or `recoverer[r]`; `ExecutorStops`
and `RecovererStops` lose exactly that. The physical write and its receipt are
one transaction in the code and one action here; `originalWrites` and
`recoveryWrites` are history. `revoke()` of a recovery action answers `DENIED`
whether it recorded the revocation or a source check or the storage stopped it;
`RevokeAction` has both, and after the second the action may still write. A
receipt from before the fence protocol is a member of `Legacy`. `Bump` is the
interference fixture.

**Executor.** `work[p]` is what a connection holds: its command, what it read
and which of the key and the row it has locked. The guards read another
connection's snapshot (`Guard`), the key is an insert that waits for a
conflicting one (`KeyFree`), the row an update that waits for its lock
(`RowFree`) and compares the version (`Matches`). `version` counts the commands
applied to a subject. `Abort` covers exceptions, crashes and lost connections
and gives no answer; a commit may go unanswered too.

**Outbox.** `due` holds the rows whose lease or backoff has run out; both pass
by themselves. `created` and `retryAt` are stamps that give the claim its
order. A claim token is the attempt number with its worker. The sink stores a
receipt and may lose its answer; it may refuse what it has stored already.

**Authority chain.** A record is a function of id and version; the digests it
binds are the references it names, so a tampered body is a record that does not
exist. A validity window is early, open or over, and moves on at any time. What
the read services report of a build, a QA result and a decision
(`BuildSucceeded`, `QAPassed`, `ClientAccepted`) is an operator of its own: they
ask whether the package is `RELEASED` and not, as the commands do, whether
everything above it still holds.
Attempts are sequences. In `AuthorityRace` a transaction holds the verdict it
reached on one committed state; of what it read, only its own row is compared
again when it commits: the number it takes (`StillNext`, the unique key) or the
state and record version it updates. Starts and completions of builds, QA
results, decisions, proposals, approvals, activations and starts of deployments
are all split so. Ending a deployment reads only its own row, and recording a
verification only records that no longer change, so these two stay quick. A
judged command (`judged`) commits or is given up whatever has become of its
sources. Two simplifications are left. The commands of the implementation half
(handoff to package) are judged and committed in one step, so what the run
`implementation_chain` shows of them is shown for handlers that do not overlap.
And a judgement is one snapshot, although a handler's selects are separate
statements under READ COMMITTED.

**Progress store.** A process reviews the file, the approval and the time
(`Review`), enters the store with what it reviewed, replaces the file and reads
it back. Evidence and bindings are one value per step; `overall` and each
step's states are kept, because the code decides by them. Nothing keeps two
processes out of the store at once: between the comparison (`Enter`) and the
replacement (`Replace`) the file may be replaced by another. `stale` counts the
writes over a file that was no longer what the writer had loaded (`MaxStale`
bounds them). The properties say what is true with them: a step is granted once
and once more for each stale write, and every other change of the file is a
step of `SequentialPlan`, while a stale one leaves a state such a plan can be in.

**Lease.** The holder is the process whose open file description has the lock;
`sharers` are the processes with a descriptor of it, forked children included.
Files survive deaths, locks do not. **Admission.** `claims` is what the database
shows, `durable` what a power failure leaves; a failed sync is a `Fail`.
**Queue.** `call` is the state a process is about to write; the targets drift.

**Hand-off.** A claim is one transaction; its answer is a success, a denial or
an unknown outcome, after which the rows may be there or not. `done` are the
calls that were carried out, `pending` those that raised and may yet be, and
`runs[r].attempted` the flags of the result. `Die` loses the process, with the
call it is making left pending. **Token lifecycle.** `flow` is the place in the
code, with whether the session was received and whether a logout counts as
attempted, the two things by which the reconciliation decides; `own` and
`others` are the provider's. No retry and no cleanup is promised for a process
that dies here, so it has no such step.

**Intake.** A call reads the tenant, counts itself in a transaction of its own
and writes in another: `calls` says which of them is next and what the call
holds. The quota is taken by an upsert, the window turns with the database's
clock. The writer's transaction holds shared row locks on company and membership
from its read to its commit and is one step. **Work items.** A call's
membership check comes before it waits for the advisory lock; all that the
transaction reads after the lock only holders of the lock write, so the rest is
one step on the state of that moment. A member who is removed while the call
waits is still served; no property speaks of it, because no document says
otherwise. Roles, deadlines and the text of an item are left out except where a
command asks for them; `due` is where the clock sees a deadline. **Fan-out.**
Each ledger's call is a step; `confirmed` is what the outbox recorded. `log`,
`sent`, `recorded`, `admittedIn`, `originals` and `accepted` are history.

**Positive-authentication campaign.** `phase[b]` is what the plan's files say of
version or continuation `b` (prepared, approved, its window open or over, and how
it was closed), `done[b]` how many of its steps are recorded. Each executor
repeats the checks of the one it was copied from and adds its own: the operators
`PredecessorsV5` to `PredecessorsV14` and the `OriginalOf` of the continuations
are those checks, `Gate` what must hold before an executor acts. The digests by
which the files pin each other come to this: documents written before their
predecessors were closed never pass (`Prepare`). `run[b]` is the workflow:
`Dispatch` its first part, `Proceed` its second, then the calls. `Generate`,
`Verify` and `Logout` may each fail with their effect taken or not, `late` keeps
the sessions that an unanswered exchange may still begin, `Die` is a cancelled
job. The executors' logout is global, so it ends every session of the user.
**Token validation.** `exec[r]` is the process: where it is and the three flags by
which a failure decides about the emergency cleanup. `StopsWith` is the handler of
`SafeStop`; `Escapes` is everything that handler does not catch: a refusal of the
plan engine, `int()` of a count that is null or no number, `urlparse()` of a
`Location` it cannot take. A run that escapes with a session alive does no cleanup
and prints no outcome. A logout here is local to its session. The windows of revisions 30 and 31
overlap and their workflows have different concurrency groups, so two runs may
interleave at every call. **Sessions left behind.** `job` holds a workflow run
with what it saw at its dispatch (`seen`), whether it has begun its lifecycle,
whether it reported that, and its report; a report warns (`Warns`) when it tells
the owner that something was attempted or that the state must be read again.

## 3. Runs

Every passing run checks all of its state space; the bounds are those of its
cfg. Deadlock is checked where nothing is used up (executor, outbox). Elsewhere
approvals, versions, attempts or the clock run out and the system stops, which
is what it should do, so the cfg says `CHECK_DEADLOCK FALSE`. Symmetry is used
only with safety properties, on sets whose members the model never tells apart.

| Run | Instance | Shows |
| --- | --- | --- |
| `authority_loop` | three executions of one change, two of them competing for one approval; two executors, one recoverer, two cases | recovery is justified and stops once its revocation is recorded; one write per approval through crash, fence, decision and recovery (refines `SingleUseAuthority`) |
| `command_executor` | two connections, five commands: creation, its replay, another request with its key, two rival transitions | once per key; refines `IdempotentCommands`; every execution ends |
| `outbox_delivery` | two workers with two attempts, two rows, one of them without its event | published means received; attempts accounted for; late reports harmless; refines `DeliveryPromise`; every row settles |
| `implementation_chain` | one identity of each kind, two versions | one current version, descent, both sides, authority lost for good |
| `delivery_results` | one package with one build, one QA result and one decision; two versions of the deployment authorization, each with an attempt (a rollback of the other's among them), one of which is verified; one slow transaction among the quick ones | corrections have a cause, also when judged before and committed after other commands |
| `authority_race` | two builds and two QA results of one package, one deployment authorization, one slow transaction among the quick ones | descent, order and loss of authority survive stale judgements; a build stranded by its package is ended only by a completion accepted before; attempts are accepted only under usable authority, though they may begin after its end (both refine `RevocableAuthority`); a usable authorization rests on a decision and a QA result that the read services report to count, and neither counts again once it stopped |
| `development_work` | the store: three steps, two processes, a window of one tick, one stale write; the campaign: each stretch of versions in which one checks another, every version in some stretch; token validation: two runs; sessions left behind: five parts of the sequence, two workflow runs of each executor | a step is granted once but for stale writes, and the store refines `SequentialPlan` but for stale writes, which leave a state of such a plan: a step waits for the success of those before it and a failure stops the plan; predecessors are gone while a later version runs, a key sees one lifecycle, lifecycles begin once and in order, what a report says of the session's end is true, and a cleanup run that may leave a session warns |
| `tools_and_service` | tools: three processes and three faults on lease and admission; four manifests in the queue; two hand-off runs and three overlapping sets of approvals, one of them with an approval for another command; one token lifecycle and another session. Service: two servers, one request with two contents, a quota of two, three ticks; two people, one item, three keys; two workers, one event with two contents, one restart | the lease is exclusive and its owner can prove it; a nonce admits once, durably; the queue always loads; an approval is consumed once and no call goes unaccounted; a verified cleanup means gone; one intake per request, at most the quota per window, only for the active; owners by consent and retries answered; both effects once |
| `revoked_while_starting` | one deployment, one open start | violated: finding 1 |
| `command_replay` | as `command_executor` | violated: finding 2 |
| `memory_threads` | two threads in memory | violated: finding 3 |
| `progress_writers` | two processes in the store | violated: finding 4 |

*Why the bounds are enough to be of interest.* A race needs two parties and a
third only to profit from it: two executors and a recoverer, two connections
with rival commands, two workers with a lease that can change hands twice, a
slow transaction beside the quick ones (of two transactions that overlap one
can always be taken as quick, so every pair is covered: `MaxOpen = 1`). Verifications do
not meet each other, so one attempt that is verified does (`MaxVerified`). Two versions
distinguish current, replaced and never written. Two attempts distinguish first,
repeated and exhausted. The clock has
a tick before, inside and after every window. Faults are capped at three where
they are counted, so a crash during the repair of a crash is included. In
`tools_and_service` a behaviour works with one of the tools or of the service's
parts, since none reads what another wrote, or reads only what the model lets
happen freely. Two runs and two sets that share three approvals of four are the
least in which half a set can be taken. An owner needs three keys to open an
item, offer it and withdraw the offer, which the other's acceptance must not
overtake; keys are only compared, so they are a symmetry set. One waiting caller
of a work item is enough, because the lock makes everything after the wait one
step and only the membership check is carried over it. Three ticks and a window
of two let a window turn with a call under way.

In `development_work` a stretch (`MCEntries`) is a version and those whose state
it checks itself; what lies before is as the repository's own record has it, which
is the only history there was. Three steps of the owner's plans may be recorded as
failed (`FailingSteps`: bind, inspect, execute, the ones that did fail or that
leave a secret in force). One stale write of the store (`MaxStale = 1`) undoes or
repeats at most one grant; the theorems are about any number. The store reads
of a step's evidence whether it is there and that later steps are bound to the
same, so one value does; the theorems are about any set. A second dispatch of a workflow is the first that its run
number must stop; a third is no different. Two validation runs suffice for their
overlap, since a count cannot tell two foreign sessions from one. The parts of the
cleanup sequence (`MCStretches`) are each an executor with those built on its
outcome, without the pair of the fourth cleanup and the repaired lifecycle, whose
order the same condition keeps as that of the second and the fourth.

What a run checks on such an instance is, for every safety and action property,
also a theorem about every instance (section 4); the type invariants are part of the
inductive invariants there and have no run of their own. The runs are where a
property is shown to be about something: that its cases occur and that it fails
when the code is changed.

*Fairness.* The outbox: the clock (leases and backoffs end), a call of the sink
returns within its timeout, a worker that has an outcome reports it and a
session that ended is started again (weak fairness of each; the dispatcher
polls in a loop and its operator restarts it), and a session that is started
again and again gets through a claim before it ends (strong fairness). The
executor: a connection in the middle of a command goes on or aborts (weak
fairness of its step), and a lock that becomes free again and again is granted
(strong fairness of the key and of the row, PostgreSQL's lock queues). No
fairness is assumed of anyone who would have to begin something, nor anywhere
else; the other components promise safety only. Liveness is model-checked.

## 4. Theorems

Proved with TLAPS: every invariant and every action property that a passing run
checks, and every refinement, for every value of the constants. The named
assumptions of the modules (`ExecutionAssumption`, `RecoveryAssumption`,
`CommandAssumption`, `DeliveryAssumption`, `VersionAssumption`,
`AttemptAssumption`, `NoExecutionAssumption`, `OpenAssumption`, `ToolsAssumption`,
`ServiceAssumption`, `StepsAssumption`, `EvidenceAssumption`,
`OutcomesAssumption`, `WindowAssumption`, `NoFileAssumption`, `WritersAssumption`,
`RunsAssumption`)
give the types of the constants and say that the "nothing" values are none of the
things. Those that say more are the code's own: a worker's attempt limit is
between 1 and 16 and the workers are finitely many (`DeliveryAssumption`), two
commands with one request digest are about one record (`CommandAssumption`), a
window has a length, and the processes at a store are finitely many
(`WritersAssumption`). No theorem has a hypothesis of its own.

Where a component has many actions, the proofs are built alike: an operator says
what one step may do to the state (`ChainMoves`, `DeliveryMoves`, `CampaignMoves`,
`JobMoves`, `Follows`), each action is shown to be such a step, once, and the
invariants are proved from that operator. The invariant of a part is a conjunction
of named parts, the type first.

*Infrastructure loop* (`InfraLoopSafetyProofs`). `OneWritePerApproval` is not
inductive: that a recovery will not write after an original did rests on the
fence, that the fence meets no dispatch rests on the receipt protocol, and that a
decision is about the right execution rests on the evidence chain. The inductive
invariant is `LoopIInv == TypeOK /\ LoopInvariant /\ EvidenceFollowsLedger`, where
`LoopInvariant` relates receipts, fences, the outcome, what each process has in
hand, decisions, registrations and events. From it follow the state properties
and, step by step, the action properties (what is fenced, uncertain, abandoned or
recorded as revoked never writes; evidence never changes; decisions agree with the ledger),
and `SingleUseRefined`: every step of the loop is a step or a stutter of
`SingleUseAuthority`.

*Command executor* (`CommandExecutorProofs`). `OneEffectPerKey` rests on the
exclusion of connections that hold a key and on each result lying under its own
key: `ExecutorIInv == TypeOK /\ LocksExclude /\ ResultsUnderTheirKeys /\
OneEffectPerKey /\ CommittedTogether /\ NoLostUpdate`. `AtomicCommandsRefined`
shows that the executor implements `IdempotentCommands`.

*Authority chain* (`ImplementationChainProofs`, `DeliveryChainProofs`).
`ChainMoves` and `DeliveryMoves` say what a step may do to a record: keep it,
change it in place, replace it by a newer version, add it, and under which
condition each. `ChainSafe` adds to the three checked invariants that what is
active has had its window opened (`NoneActiveEarly`), without which a lost
authority could come back by the clock; `LostForGood` follows from it and
`ChainMoves`. `DeliverySafe` adds that what a result, an authorization or an
attempt was made from stays true (`ResultsRest`, `DeploymentsRest`). All theorems
about the delivery half are about `RaceSpec`, with any number of slow transactions
beside the quick ones. The invariant there, `RaceSafe`, adds what is left of each
judgement when it commits: `StillHolds`, which does not say that an upstream
authority is usable, only that it once took effect with both signatures, or that
the number of a result is free and no result is about a newer build. That this is
enough is why descent, order and the finality of a loss survive, and that it is no
more is finding 1. `StrandedStays` looks at the transactions in hand: once its
package is not ready, no start or completion is accepted, so a build in progress is
ended by a completion accepted before or never. `AttemptsRefine` shows that build
attempts under packages and deployment attempts under deployment authorizations
each implement `RevocableAuthority`, whose promise is about the acceptance: an
attempt that begins late was accepted in time.

*Outbox* (`OutboxDeliveryProofs`). A row and a worker meet only through the number
of the attempt. `HandsAgree` says what a worker that comes back may rely on: its
attempt was counted, while it is the newest and open the row is leased to this
worker, and an acknowledgment stands for a receipt. With it `OutboxSafe` is
inductive and every step is one of `DeliveryPromise` (`PromiseRefined`).

*Tools and service* (`ToolsAndServiceProofs`), one section each, about any number
of processes, documents, runs, servers and workers.

* Lease (`LeaseSafe`): who is between locking and unlocking holds the lock through
  a descriptor of its own, and what it was given is what the file says.
* Admission (`AdmissionSafe`): the power takes back no more than what was not
  synced, and who waits for its answer has its row and its nonce to itself.
* Queue (`QueueSafe`): what a process holds in hand loads as well as what the file
  holds. `Loads` chooses the owner of a task; `LegalLoads` replaces the choice by
  the uniqueness it rests on, which is what the calls preserve.
* Hand-off (`HandoffSafe`): what a run relies on is claimed in its name; nothing
  is called before all claims; what may be carried out was noted (`RunSafe`); no
  approval is claimed twice, in two ledgers, also when sets overlap
  (`LedgersSafe`).
* Token lifecycle (`TokenSafe`): who counts a logout has received a session, and a
  session that was received cannot begin again.
* Intake (`IntakeSafe`, `QuotaSafe`): who inserted found no row and, like everyone
  between binding and commit, has an active company and owner; the counter row
  agrees with the admissions whatever ticks came between.
* Work items (`WorkSafe`): an open offer is what the last commit of its item made
  (`ItemsSafe`), and a receipt is for an item that is there (`AskedSafe`).
* Fan-out (`FanoutSafe`): the history agrees with what the ledgers of a process
  hold.

`PartsBehaveAsAlone` lifts all of them to the specification of the run.

*Governed work on DEVELOPMENT* (`DevelopmentWorkProofs`), for any number of steps,
processes and runs, any stretches, and whichever steps fail.

* Progress store (`PlanSafe`), with any number of processes inside at once. `Holds`
  says what a process in a call has: a document that follows, by one transition of
  the engine (`Follows`), a lawful one it compared; whether the file still is that
  one is not said. `Lawful` is what the phases of a plan can be, and
  `FollowsKeeps` that a transition keeps it, so whatever is written over whatever,
  the file is lawful. `Spent` counts for a step the callers told, the processes
  that wrote its authorization and were not told yet (`Untold`), and one more while
  it waits; only a stale write can raise it, by one. From it `GrantedOnceHolds`,
  and from `FileStep` `ImplementsSequentialPlanHolds`.
* Campaign. `SessionsAccounted` needs only each executor's own steps
  (`AccountIInv`): one that has not ended has asked for no logout and reported
  nothing; a logout of another version may take its session away but never adds
  one (`Apart`). The other two need the owner: `CampaignMoves` is what a step does
  to plans, secrets, retirements and runs. `PlansSafe` closes the plans from
  before the stretch; `LifecyclesSafe` says that between a plan and its
  continuation the gate of the one stays shut once the other has passed;
  `SecretsSafe` and `BehindSafe` say that the files a gate reads and what the
  provider has agree for every version it looks back at.
* Token validation (`SessionIInv`): a session is that of a run which is at a step
  that accounts for it (`AccountedFor`), with the flags that lead to the emergency
  cleanup or inside it, or of a run that has ended without a claim about it: it
  escaped, was killed, or failed to clean up. A run that reads a count of zero may
  report itself clean, also where others overlap with it (`NoSessions`). That a
  report of the session's end is true is `ReportsTrueHolds`.
* Sessions left behind. `CleanupSafe`: from the moment a run may leave a session,
  it warns (`Warned`). `OrderSafe`: only the first run of a bound workflow gets
  past the queue, and none once the plan's progress is past it (`InTurn`),
  whatever older files it was dispatched on.

`WorkBehavesAsAlone` lifts them to the specification of the run.

`PROJECT.json` lists the theorems a reader should know of; where a run checks the
same property the entry names it. Those without a run are inductive invariants,
compositions, and properties of the loop, the executor and the store that hold for
every instance by their proof (`OneWritePerApproval`, `FenceExcludesDispatch`,
`VerifiedMeansRecovered`, `EvidenceFollowsLedger`, `RevokedNeverWrites`,
`UncertainNeverWrites`, `DecisionAgreesWithLedger`, `LocksExclude`,
`NoLostUpdate`; and in the modules only `LegacyNeverWrites`,
`EvidenceIsImmutable`, `AbandonedStaysAbandoned`, `FencedOriginalNeverWrites`,
`CommittedTogether`).

Out of the prover's reach and left to TLC: liveness under fairness
(`EveryExecutionEnds`, `EveryDeliverySettles`). The four violations are
counterexamples, which TLC finds.

The proofs corrected a model in one place: the verdict of the token lifecycle's
reconciliation (`Judge`) was a `CASE` with overlapping guards, which TLC reads in
order and TLA+ does not; it is written by its conditions now.

## 5. Findings

1. `revoked_while_starting`: a deployment start is judged on an authorization
   that a concurrent transaction revokes before the start commits; nothing
   locks or re-reads it.
2. `command_replay`: an exact replay that overtakes the idempotency look-up can
   be answered `REJECTED` instead of `DUPLICATE`.
3. `memory_threads`: on the threaded local server a commit of the in-memory
   unit of work overwrites what another thread was just told is accepted.
4. `progress_writers`: the digest check of the progress store does not keep
   concurrent writers out.

Met while modelling and not stated as a finding, because no document promises
otherwise: a worktree lease whose lock file was created by a process that lost
the first lock, or died before its first state write, is denied for ever
(`StateAccepted`); a build stranded by its package, a deployment whose process
died and a plan step whose window closed have no command that ends them;
a `revoke()` of a recovery action that failed, by a storage error or because its
sources were out of their window for the moment, answers `DENIED` like one that was
recorded and differs only in the digest it lacks, and the action may still write.

Met in the scripts:

* Version 6 of the campaign demands the resource version of version 5
  (`development_provider_adapter_positive_auth_v6.py:146`), so its gate can never
  pass, as its recorded stop has it (`RequiredResourceVersion`).
* The chain of checks has gaps that the record happens not to need: version 6
  checks nothing of version 5, version 15 nothing of version 14, and only the
  binding of version 4 is checked from version 7 on. `PredecessorsGone` says what
  the chain does keep.
* A cleanup whose token fails validation after the exchange does not log out
  (the first, second and fourth cleanup, the repaired lifecycle and its validation);
  the diagnostics never do. A session is left, and the report says that one was
  attempted; the first cleanup's says only that the state must be read again.
* The first cleanup and the two diagnostics have no check of the run number: a
  second run that was queued works on the files of its dispatch and may begin a
  second lifecycle. `LifecyclesInOrder` is about those that have the check, and
  about none beginning after a plan built on its outcome.
* The emergency cleanup of revisions 30 to 32 reports `NOT_NEEDED` when the link was
  opened and no token came back, although a session may live then. It happened:
  `contracts/plans/v1/development-auth-step2-v32-failure.evidence.json`.
  `SessionReportsTrue` claims nothing of that case.
* A count that is null or no number makes `int()` raise what the handler of
  `SafeStop` does not catch (`development_auth_v30_token_executor.py:383`, `:766`).
  After the token was received the run then ends with its session alive, without a
  cleanup and without an outcome (`Escapes`).
* A token validation may be run again until the owner commits its progress.

## 6. What is not modelled

Section 1 names the parts. Of the modelled ones: signatures, schemas, formats
and pinned manifests (a document that fails them is a call not made), tenants
(records of two tenants never meet), retention and read models, the time stamps
recorded in histories, torn writes inside one SQLite or PostgreSQL transaction,
and power failures outside the admission database. Of the scripts: the second
workflow of version 15 with its own run number, how a secret is fetched, masked
and compared, the catalogue reads, and the operator's scripts for the local
systems, which start processes and files and keep no state that another step
relies on.

Some properties say less than their subject would allow. An owner of a lease whose
directory sync failed is not counted among its holders, and nothing is claimed of
it. `verify` of the hand-off always answers with an issued session or raises. Work
items have two people, so an offer made again to a third person is left to the
theorems. The fan-out's history `sent` is by identity and digest; that two digests
of one identity both get through is excluded by its agreement with the ledgers. Of
what a later version of the campaign could have left behind, `PredecessorsGone`
names only what the gates look at: the binding of version 4 and the versions from 6
on.

## 7. Plan

Done, in this order: the infrastructure loop with its proofs; the command
executor with its proofs; the outbox; the authority chain, first over atomic
commands, then over concurrent ones; the progress store; lease, admission,
queue, hand-off and token lifecycle; tenant activation, acquisition intake, work
intake and the fan-out of lifecycle events; the three families of executors on the
DEVELOPMENT project; the proofs of all that the passing runs check but liveness.

Next:

1. Proofs: that the executors of the campaign, taken with the store, record no step
   its plan does not grant; which gaps of `PredecessorsGone` versions 6 and 15
   leave open; of `MemoryExecutor`, what does hold with one thread.
2. Model: the provisioning of the acquisition role; onboarding readiness over
   the records of the chain; the in-memory prototypes of outbox relay and work
   intake.
