---------------------------- MODULE ProgressStore ----------------------------
(* The file that holds a plan's progress and the processes that advance it:   *)
(* each reviews the current progress, then loads it again, compares digests,  *)
(* applies one engine transition, replaces the file, and reads it back.       *)
(* A process may stop between any two of these steps.  os.replace is atomic;  *)
(* the temporary file has a name of its own, so one left behind is harmless.  *)
(* Nothing keeps two processes from being in a call at once: what a process   *)
(* compared may be stale when it writes.                                      *)
EXTENDS PlanProgress, FiniteSets

CONSTANTS
  Writers,     \* the processes that use the store
  NoFile,      \* the execution progress file does not exist
  MaxStale     \* bound: so many stale writes

ASSUME WritersAssumption == IsFiniteSet(Writers) /\ MaxStale \in Nat
ASSUME NoFileAssumption == NoFile \notin Progresses

VARIABLES
  file,        \* the execution progress file
  approval,    \* the status of the owner's approval
  clock,
  proc,        \* each process: where it is in its call and what it holds
  granted,     \* history: how often a caller was told that a step is authorized
  stale        \* history: writes over a file that was no longer what the writer loaded

vars == <<file, approval, clock, proc, granted, stale>>

\* load_current: the latest progress, or the baseline.
Current == IF file = NoFile THEN InitialProgress ELSE file

Idle == [pc |-> "idle", seen |-> InitialProgress, active |-> FALSE, now |-> 0,
         next |-> InitialProgress]

Init ==
  /\ file = NoFile
  /\ approval = "ACTIVE"
  /\ clock = 0
  /\ proc = [w \in Writers |-> Idle]
  /\ granted = [i \in StepIds |-> 0]
  /\ stale = 0

\* The caller reads the progress, the approval and the time it will act on.
Review(w) ==
  /\ proc[w].pc = "idle"
  /\ proc' = [proc EXCEPT ![w] = [Idle EXCEPT
                !.pc = "reviewed", !.seen = Current,
                !.active = (approval = "ACTIVE"), !.now = clock]]
  /\ UNCHANGED <<file, approval, clock, granted, stale>>

\* persist_transition up to the write: p is the engine's answer.
Enter(w, p) ==
  /\ proc[w].pc = "reviewed"
  /\ Current = proc[w].seen
  /\ ValidProgress(p)
  /\ p.version = Current.version + 1
  /\ p.at >= Current.at
  /\ proc' = [proc EXCEPT ![w].pc = "loaded", ![w].next = p]
  /\ UNCHANGED <<file, approval, clock, granted, stale>>

EnterAuthorize(w) ==
  \E p \in Authorize(Current, proc[w].active, proc[w].now) : Enter(w, p)

EnterOutcome(w) ==
  \E i \in StepIds, o \in Outcomes :
    \E p \in RecordOutcome(Current, i, o, proc[w].active, proc[w].now) : Enter(w, p)

\* bootstrap_execution_progress finds no file; otherwise it only loads.
EnterBootstrap(w) ==
  /\ proc[w].pc = "idle"
  /\ file = NoFile
  /\ proc' = [proc EXCEPT ![w] = [Idle EXCEPT !.pc = "bootstrapping"]]
  /\ UNCHANGED <<file, approval, clock, granted, stale>>

\* os.replace: of whatever the file holds by now.
Replace(w) ==
  /\ proc[w].pc \in {"loaded", "bootstrapping"}
  /\ file' = proc[w].next
  /\ stale' = IF Current = proc[w].seen THEN stale ELSE stale + 1
  /\ stale' <= MaxStale
  /\ proc' = [proc EXCEPT ![w].pc = "replaced"]
  /\ UNCHANGED <<approval, clock, granted>>

\* What the process wrote is an authorization of step i.
Authorizes(w, i) == proc[w].next.steps[i].auth = "AUTHORIZED"

\* The file is read back; only if it is what was written is the caller told so.
Confirm(w) ==
  /\ proc[w].pc = "replaced"
  /\ granted' = [i \in StepIds |->
       IF Current = proc[w].next /\ Authorizes(w, i)
       THEN granted[i] + 1 ELSE granted[i]]
  /\ proc' = [proc EXCEPT ![w] = Idle]
  /\ UNCHANGED <<file, approval, clock, stale>>

\* The process dies, or its call is denied, and holds nothing any more.
Stop(w) ==
  /\ proc[w].pc # "idle"
  /\ proc' = [proc EXCEPT ![w] = Idle]
  /\ UNCHANGED <<file, approval, clock, granted, stale>>

\* The owner withdraws the approval; external to the store.
Revoke ==
  /\ approval = "ACTIVE"
  /\ approval' = "REVOKED"
  /\ UNCHANGED <<file, clock, proc, granted, stale>>

Tick ==
  /\ clock < MaxTime
  /\ clock' = clock + 1
  /\ UNCHANGED <<file, approval, proc, granted, stale>>

Next ==
  \/ \E w \in Writers :
       \/ Review(w) \/ EnterAuthorize(w) \/ EnterOutcome(w) \/ EnterBootstrap(w)
       \/ Replace(w) \/ Confirm(w) \/ Stop(w)
  \/ Revoke
  \/ Tick

Spec == Init /\ [][Next]_vars

-----------------------------------------------------------------------------

\* A step is granted again only where a stale write undid or repeated the grant:
\* over all processes, restarts and denied calls a caller is told at most once,
\* and once more for each write over a file the writer had not loaded.
GrantedOnce == \A i \in StepIds : granted[i] <= 1 + stale

\* What persist_transition says of itself: "the optimistic digest check prevents
\* stale or concurrent writers", so the file still is what the process compared.
NoStaleWrite ==
  [][\A w \in Writers :
       proc[w].pc = "loaded" /\ proc'[w].pc = "replaced" => Current = proc[w].seen]_vars

\* The plan as its owner understands it.
PhaseOf(s) ==
  CASE s.auth = "PENDING" -> "waiting"
    [] s.auth = "AUTHORIZED" -> "open"
    [] s.auth = "BLOCKED" -> "blocked"
    [] OTHER -> IF Successful(s) THEN "done" ELSE "failed"

Phases(p) == [i \in StepIds |-> PhaseOf(p.steps[i])]

Plan == INSTANCE SequentialPlan WITH phase <- Phases(Current)

\* Every change of the file is a grant, a success or a failure of one step, or a
\* stale write; and a stale write too leaves a state that the plan can be in.
ImplementsSequentialPlan ==
  /\ Plan!PlanInit
  /\ [][Plan!PlanNext \/ (stale' > stale /\ Plan!Lawful')]_(Phases(Current))
=============================================================================
