------------------------ MODULE DevelopmentWorkProofs ------------------------
(***************************************************************************)
(* Proofs about the governed work on the DEVELOPMENT project: the store of *)
(* a plan's progress and the three families of executors, one section      *)
(* each, for any number of steps, writers, runs and stretches.             *)
(***************************************************************************)
EXTENDS MCDevelopmentWork, FiniteSetTheorems, SequenceTheorems, TLAPS

-----------------------------------------------------------------------------
(* The store of a plan's progress.                                         *)

ProcStates ==
  [pc : {"idle", "reviewed", "bootstrapping", "loaded", "replaced"}, seen : Progresses,
   active : BOOLEAN, now : Nat, next : Progresses]

\* What a transition of the engine does to them.
Follows(p, q) ==
  \E i \in StepIds :
    \/ /\ Phases(p)[i] = "waiting" /\ \A j \in 1..(i - 1) : Phases(p)[j] = "done"
       /\ Phases(q) = [Phases(p) EXCEPT ![i] = "open"]
    \/ /\ Phases(p)[i] = "open"
       /\ Phases(q) = [Phases(p) EXCEPT ![i] = "done"]
    \/ /\ Phases(p)[i] = "open"
       /\ Phases(q) = [j \in StepIds |-> IF j < i THEN Phases(p)[j]
                                         ELSE IF j = i THEN "failed" ELSE "blocked"]

\* The documents whose phases the plan can be in.
Lawful(p) ==
  \A i \in StepIds :
    /\ Phases(p)[i] \in {"open", "done", "failed"} =>
         \A j \in 1..(i - 1) : Phases(p)[j] = "done"
    /\ Phases(p)[i] = "failed" => \A j \in (i + 1)..N : Phases(p)[j] = "blocked"
    /\ Phases(p)[i] = "blocked" => \E j \in 1..(i - 1) : Phases(p)[j] = "failed"

\* What a process in a call will write follows what it loaded, which was lawful;
\* whether the file still holds that is another matter.
Holds(w) ==
  /\ proc[w].pc = "bootstrapping" =>
       proc[w].seen = InitialProgress /\ proc[w].next = InitialProgress
  /\ proc[w].pc = "loaded" => Lawful(proc[w].seen) /\ Follows(proc[w].seen, proc[w].next)

\* The processes that wrote an authorization of step i and were not told so yet.
Untold(i) == {w \in Writers : proc[w].pc = "replaced" /\ Authorizes(w, i)}

\* What step i has used up of its grants: those told, those that are still to be
\* told, and the one that may follow while it waits.
Spent(i) ==
  granted[i] + Cardinality(Untold(i)) + (IF Phases(Current)[i] = "waiting" THEN 1 ELSE 0)

PlanTyped ==
  /\ file \in Progresses \cup {NoFile}
  /\ clock \in Nat
  /\ proc \in [Writers -> ProcStates]
  /\ granted \in [StepIds -> Nat]
  /\ stale \in Nat

PlanSafe ==
  /\ PlanTyped
  /\ \A w \in Writers : Holds(w)
  /\ Lawful(Current)
  /\ \A i \in StepIds : Spent(i) <= 1 + stale

LEMMA InitialProgressTyped ==
  /\ InitialProgress \in Progresses
  /\ Phases(InitialProgress) = [i \in StepIds |-> "waiting"]
<1>1. FreshStep \in StepStates
  BY DEF FreshStep, StepStates
<1>2. InitialProgress \in Progresses
  BY <1>1 DEF InitialProgress, Progresses
<1>3. \A i \in StepIds : InitialProgress.steps[i].auth = "PENDING"
  BY DEF InitialProgress, FreshStep
<1> QED
  BY <1>2, <1>3 DEF Phases, PhaseOf

LEMMA CurrentTyped == PlanTyped => Current \in Progresses
BY InitialProgressTyped DEF PlanTyped, Current

\* The next version with one step changed.
LEMMA AdvancedStep ==
  ASSUME NEW p \in Progresses, NEW i \in StepIds, NEW state \in StepStates,
         NEW overall \in {"IN_PROGRESS", "STOPPED", "COMPLETED"}, NEW now \in Nat
  PROVE  /\ Advanced(p, i, state, overall, now) \in Progresses
         /\ Advanced(p, i, state, overall, now).steps[i] = state
         /\ \A j \in StepIds \ {i} : Advanced(p, i, state, overall, now).steps[j] = p.steps[j]
<1> DEFINE steps == [p.steps EXCEPT ![i] = state]
<1>1. /\ p.steps \in [StepIds -> StepStates] /\ p.version \in Nat
  BY DEF Progresses
<1>2. /\ steps \in [StepIds -> StepStates] /\ steps[i] = state
      /\ \A j \in StepIds \ {i} : steps[j] = p.steps[j]
  BY <1>1
<1>3. Advanced(p, i, state, overall, now)
        = [p EXCEPT !.steps = steps, !.overall = overall, !.version = @ + 1, !.at = now]
  BY DEF Advanced, Progresses
<1> HIDE DEF steps
<1>4. PICK v \in Nat : v = p.version + 1
  BY <1>1
<1>5. PICK all : all = {"NOT_STARTED", "IN_PROGRESS", "STOPPED", "COMPLETED"}
  OBVIOUS
<1>6. overall \in all
  BY <1>5
<1>7. PICK new : new = [p EXCEPT !.steps = steps, !.overall = overall,
                                 !.version = v, !.at = now]
  OBVIOUS
<1>8. p \in [version : Nat, overall : all, steps : [StepIds -> StepStates], at : Nat]
  BY <1>5 DEF Progresses
<1>9. new \in [version : Nat, overall : all, steps : [StepIds -> StepStates], at : Nat]
  BY <1>2, <1>6, <1>7, <1>8
<1>10. new.steps = steps
  BY <1>7, <1>8
<1>11. Advanced(p, i, state, overall, now) = new
  BY <1>3, <1>4, <1>7
<1> QED
  BY <1>2, <1>5, <1>9, <1>10, <1>11 DEF Progresses

LEMMA EvidenceTyped ==
  ASSUME NEW p \in Progresses, NEW i \in StepIds
  PROVE  PriorEvidence(p, i) \in Seq(Evidence \cup {NoEvidence})
<1>1. i - 1 \in Nat /\ 1..(i - 1) \subseteq StepIds
  BY StepsAssumption DEF StepIds
<1>2. \A j \in StepIds : p.steps[j].evidence \in Evidence \cup {NoEvidence}
  BY DEF Progresses, StepStates
<1>3. PriorEvidence(p, i) \in [1..(i - 1) -> Evidence \cup {NoEvidence}]
  BY <1>1, <1>2 DEF PriorEvidence
<1> QED
  BY <1>1, <1>3

\* authorize_step grants the next step.
LEMMA AuthorizeFollows ==
  ASSUME NEW p \in Progresses, NEW active \in BOOLEAN, NEW now \in Nat,
         NEW q \in Authorize(p, active, now)
  PROVE  q \in Progresses /\ Follows(p, q)
<1>1. PICK i \in StepIds :
        /\ MayAuthorize(p, i, active, now)
        /\ q = Advanced(p, i, [p.steps[i] EXCEPT !.auth = "AUTHORIZED",
                                                 !.bound = PriorEvidence(p, i)],
                        "IN_PROGRESS", now)
  BY DEF Authorize, NextIndex
<1> DEFINE state == [p.steps[i] EXCEPT !.auth = "AUTHORIZED", !.bound = PriorEvidence(p, i)]
<1>2. state \in StepStates /\ state.auth = "AUTHORIZED"
  <2>1. p.steps[i] \in StepStates
    BY DEF Progresses
  <2> QED
    BY <2>1, EvidenceTyped DEF StepStates
<1>3. q = Advanced(p, i, state, "IN_PROGRESS", now)
  BY <1>1
<1> HIDE DEF state
<1>4. /\ q \in Progresses /\ q.steps[i] = state
      /\ \A j \in StepIds \ {i} : q.steps[j] = p.steps[j]
  BY <1>2, <1>3, AdvancedStep
<1>5. p.steps[i].auth = "PENDING" /\ \A j \in 1..(i - 1) : Successful(p.steps[j])
  BY <1>1 DEF MayAuthorize
<1>6. 1..(i - 1) \subseteq StepIds
  BY StepsAssumption DEF StepIds
<1>7. Phases(p)[i] = "waiting" /\ \A j \in 1..(i - 1) : Phases(p)[j] = "done"
  BY <1>5, <1>6 DEF Phases, PhaseOf, Successful, Completed
<1>8. Phases(q) = [Phases(p) EXCEPT ![i] = "open"]
  BY <1>2, <1>4 DEF Phases, PhaseOf
<1> QED
  BY <1>4, <1>7, <1>8 DEF Follows

LEMMA BlockedAfterTyped ==
  ASSUME NEW p \in Progresses, NEW i \in StepIds
  PROVE  /\ BlockedAfter(p, i) \in Progresses
         /\ \A j \in StepIds : j > i => BlockedAfter(p, i).steps[j].auth = "BLOCKED"
         /\ \A j \in StepIds : ~(j > i) => BlockedAfter(p, i).steps[j] = p.steps[j]
<1> DEFINE steps == [j \in StepIds |->
                       IF j > i THEN [p.steps[j] EXCEPT !.auth = "BLOCKED"] ELSE p.steps[j]]
<1>1. \A j \in StepIds : p.steps[j] \in StepStates
  BY DEF Progresses
<1>2. \A j \in StepIds : /\ [p.steps[j] EXCEPT !.auth = "BLOCKED"] \in StepStates
                         /\ [p.steps[j] EXCEPT !.auth = "BLOCKED"].auth = "BLOCKED"
  BY <1>1 DEF StepStates
<1>3. /\ steps \in [StepIds -> StepStates]
      /\ \A j \in StepIds : j > i => steps[j].auth = "BLOCKED"
      /\ \A j \in StepIds : ~(j > i) => steps[j] = p.steps[j]
  BY <1>1, <1>2
<1>4. BlockedAfter(p, i) = [p EXCEPT !.steps = steps]
  BY DEF BlockedAfter
<1> HIDE DEF steps
<1> QED
  BY <1>3, <1>4 DEF Progresses

\* record_step_outcome ends the step that is open, one way or the other.
LEMMA RecordOutcomeFollows ==
  ASSUME NEW p \in Progresses, NEW active \in BOOLEAN, NEW now \in Nat,
         NEW i \in StepIds, NEW o \in Outcomes, NEW q \in RecordOutcome(p, i, o, active, now)
  PROVE  q \in Progresses /\ Follows(p, q)
<1> DEFINE state == [p.steps[i] EXCEPT
                       !.auth = "CONSUMED", !.exec = o.exec, !.verif = o.verif,
                       !.expected = o.expected, !.error = o.error, !.evidence = o.evidence]
           end == IF i = N THEN "COMPLETED" ELSE "IN_PROGRESS"
<1>1. /\ MayRecord(p, i, o, active, now)
      /\ q = IF OutcomeSuccess(o) THEN Advanced(p, i, state, end, now)
             ELSE Advanced(BlockedAfter(p, i), i, state, "STOPPED", now)
  BY DEF RecordOutcome
<1>2. /\ state \in StepStates /\ state.auth = "CONSUMED" /\ state.exec = o.exec
      /\ state.verif = o.verif /\ state.expected = o.expected /\ state.error = o.error
  <2>1. p.steps[i] \in StepStates
    BY DEF Progresses
  <2> QED
    BY <2>1 DEF StepStates, Outcomes
<1> HIDE DEF state
<1>3. PhaseOf(state) = IF OutcomeSuccess(o) THEN "done" ELSE "failed"
  BY <1>2 DEF PhaseOf, Successful, Completed, OutcomeSuccess
<1>4. Phases(p)[i] = "open"
  BY <1>1 DEF MayRecord, Phases, PhaseOf
<1>5. CASE OutcomeSuccess(o)
  <2>1. /\ q \in Progresses /\ q.steps[i] = state
        /\ \A j \in StepIds \ {i} : q.steps[j] = p.steps[j]
    BY <1>1, <1>2, <1>5, AdvancedStep
  <2>2. Phases(q) = [Phases(p) EXCEPT ![i] = "done"]
    BY <1>3, <1>5, <2>1 DEF Phases
  <2> QED
    BY <1>4, <2>1, <2>2 DEF Follows
<1>6. CASE ~OutcomeSuccess(o)
  <2> DEFINE b == BlockedAfter(p, i)
  <2>1. /\ b \in Progresses
        /\ \A j \in StepIds : j > i => b.steps[j].auth = "BLOCKED"
        /\ \A j \in StepIds : ~(j > i) => b.steps[j] = p.steps[j]
    BY BlockedAfterTyped
  <2>2. q = Advanced(b, i, state, "STOPPED", now)
    BY <1>1, <1>6
  <2> HIDE DEF b
  <2>3. /\ q \in Progresses /\ q.steps[i] = state
        /\ \A j \in StepIds \ {i} : q.steps[j] = b.steps[j]
    BY <1>2, <2>1, <2>2, AdvancedStep
  <2>4. ASSUME NEW j \in StepIds
        PROVE  PhaseOf(q.steps[j]) = IF j < i THEN PhaseOf(p.steps[j])
                                     ELSE IF j = i THEN "failed" ELSE "blocked"
    <3>1. j \in Int /\ i \in Int
      BY DEF StepIds
    <3>2. CASE j = i
      BY <1>3, <1>6, <2>3, <3>1, <3>2
    <3>3. CASE j < i
      BY <2>1, <2>3, <3>1, <3>3
    <3>4. CASE j > i
      <4>1. q.steps[j].auth = "BLOCKED"
        BY <2>1, <2>3, <3>1, <3>4
      <4> QED
        BY <3>1, <3>4, <4>1 DEF PhaseOf
    <3> QED
      BY <3>1, <3>2, <3>3, <3>4
  <2>5. Phases(q) = [j \in StepIds |-> IF j < i THEN Phases(p)[j]
                                       ELSE IF j = i THEN "failed" ELSE "blocked"]
    BY <2>4 DEF Phases
  <2> QED
    BY <1>4, <2>3, <2>5 DEF Follows
<1> QED
  BY <1>5, <1>6

\* A transition of a lawful document leaves a lawful one, and only a step that
\* waits is granted.
LEMMA FollowsKeeps ==
  ASSUME NEW p, NEW q, Lawful(p), Follows(p, q)
  PROVE  /\ Lawful(q)
         /\ \A i \in StepIds : Phases(q)[i] \in {"waiting", "open"} => Phases(p)[i] = "waiting"
<1> DEFINE P == Phases(p)
           Q == Phases(q)
<1>1. /\ P = [i \in StepIds |-> PhaseOf(p.steps[i])]
      /\ Q = [i \in StepIds |-> PhaseOf(q.steps[i])]
  BY DEF Phases
<1>2. /\ StepIds \subseteq Int
      /\ \A k \in StepIds : \A j : j \in 1..(k - 1) <=> j \in StepIds /\ j < k
      /\ \A k \in StepIds : \A j : j \in (k + 1)..N <=> j \in StepIds /\ k < j
  BY StepsAssumption DEF StepIds
<1>3. /\ \A k, j \in StepIds : P[k] \in {"open", "done", "failed"} /\ j < k => P[j] = "done"
      /\ \A k, j \in StepIds : P[k] = "failed" /\ k < j => P[j] = "blocked"
      /\ \A k \in StepIds : P[k] = "blocked" => \E j \in StepIds : j < k /\ P[j] = "failed"
  BY <1>2 DEF Lawful
<1>4. PICK i \in StepIds :
        \/ /\ P[i] = "waiting" /\ \A j \in 1..(i - 1) : P[j] = "done"
           /\ Q = [P EXCEPT ![i] = "open"]
        \/ /\ P[i] = "open" /\ Q = [P EXCEPT ![i] = "done"]
        \/ /\ P[i] = "open"
           /\ Q = [j \in StepIds |-> IF j < i THEN P[j] ELSE IF j = i THEN "failed" ELSE "blocked"]
  BY DEF Follows
<1>5. /\ \A j \in StepIds : P[j] \in {"waiting", "open", "blocked", "done", "failed"}
      /\ DOMAIN P = StepIds
  BY <1>1 DEF PhaseOf
<1> HIDE DEF P, Q
<1> DEFINE LawfulQ ==
      /\ \A k, j \in StepIds : Q[k] \in {"open", "done", "failed"} /\ j < k => Q[j] = "done"
      /\ \A k, j \in StepIds : Q[k] = "failed" /\ k < j => Q[j] = "blocked"
      /\ \A k \in StepIds : Q[k] = "blocked" => \E j \in StepIds : j < k /\ Q[j] = "failed"
           Reopens == \A k \in StepIds : Q[k] \in {"waiting", "open"} => P[k] = "waiting"
<1>6. ASSUME P[i] = "open" \/ (P[i] = "waiting" /\ \A j \in 1..(i - 1) : P[j] = "done")
      PROVE  /\ \A j \in StepIds : j < i => P[j] = "done"
             /\ \A j \in StepIds : i < j => P[j] = "waiting"
  <2>1. \A j \in StepIds : j < i => P[j] = "done"
    BY <1>2, <1>3, <1>6
  <2>2. ASSUME NEW j \in StepIds, i < j PROVE P[j] = "waiting"
    <3>1. P[j] \notin {"open", "done", "failed"}
      BY <1>3, <1>6, <2>2
    <3>2. P[j] # "blocked"
      <4>1. SUFFICES ASSUME P[j] = "blocked" PROVE FALSE
        OBVIOUS
      <4>2. PICK h \in StepIds : P[h] = "failed"
        BY <1>3, <4>1
      <4>3. h < i \/ h = i \/ i < h
        BY <1>2
      <4>4. CASE i < h
        BY <1>3, <1>6, <4>2, <4>4
      <4> QED
        BY <1>6, <2>1, <4>2, <4>3, <4>4
    <3> QED
      BY <1>5, <3>1, <3>2
  <2> QED
    BY <2>1, <2>2
<1>7. \A j \in StepIds : j < i \/ j = i \/ i < j
  BY <1>2
<1>8. ASSUME P[i] = "waiting", \A j \in 1..(i - 1) : P[j] = "done", Q = [P EXCEPT ![i] = "open"]
      PROVE  LawfulQ /\ Reopens
  <2>1. /\ \A j \in StepIds : j < i => P[j] = "done" /\ Q[j] = "done"
        /\ \A j \in StepIds : i < j => P[j] = "waiting" /\ Q[j] = "waiting"
        /\ P[i] = "waiting" /\ Q[i] = "open"
    <3>1. /\ \A j \in StepIds : j < i => P[j] = "done"
          /\ \A j \in StepIds : i < j => P[j] = "waiting"
      BY <1>6, <1>8
    <3> QED
      BY <1>2, <1>5, <1>8, <3>1
  <2> QED
    BY <1>2, <1>7, <2>1
<1>9. ASSUME P[i] = "open", Q = [P EXCEPT ![i] = "done"] PROVE LawfulQ /\ Reopens
  <2>1. /\ \A j \in StepIds : j < i => P[j] = "done" /\ Q[j] = "done"
        /\ \A j \in StepIds : i < j => P[j] = "waiting" /\ Q[j] = "waiting"
        /\ Q[i] = "done"
    <3>1. /\ \A j \in StepIds : j < i => P[j] = "done"
          /\ \A j \in StepIds : i < j => P[j] = "waiting"
      BY <1>6, <1>9
    <3> QED
      BY <1>2, <1>5, <1>9, <3>1
  <2> QED
    BY <1>2, <1>7, <2>1
<1>10. ASSUME P[i] = "open",
              Q = [j \in StepIds |-> IF j < i THEN P[j] ELSE IF j = i THEN "failed" ELSE "blocked"]
       PROVE  LawfulQ /\ Reopens
  <2>1. /\ \A j \in StepIds : j < i => P[j] = "done" /\ Q[j] = "done"
        /\ \A j \in StepIds : i < j => Q[j] = "blocked"
        /\ Q[i] = "failed"
    <3>1. /\ \A j \in StepIds : j < i => P[j] = "done"
          /\ \A j \in StepIds : i < j => P[j] = "waiting"
      BY <1>6, <1>10
    <3> QED
      BY <1>2, <1>10, <3>1
  <2> QED
    BY <1>2, <1>7, <2>1
<1>11. LawfulQ /\ Reopens
  BY <1>4, <1>8, <1>9, <1>10
<1>12. Lawful(q)
  BY <1>2, <1>11 DEF Lawful, Q
<1> QED
  BY <1>11, <1>12 DEF P, Q

LEMMA ProcSet ==
  ASSUME PlanTyped, NEW w \in Writers, NEW new \in ProcStates, proc' = [proc EXCEPT ![w] = new]
  PROVE  /\ proc' \in [Writers -> ProcStates] /\ proc'[w] = new
         /\ \A v \in Writers \ {w} : proc'[v] = proc[v]
BY DEF PlanTyped

LEMMA IdleTyped ==
  /\ Idle \in ProcStates /\ Idle.pc = "idle" /\ Idle.next = InitialProgress
BY InitialProgressTyped DEF Idle, ProcStates

\* Who is still to be told changes by one process at a time.
LEMMA UntoldStep ==
  ASSUME PlanTyped, PlanTyped', NEW w \in Writers, NEW i \in StepIds,
         \A v \in Writers \ {w} : proc'[v] = proc[v]
  PROVE  /\ Cardinality(Untold(i)) \in Nat /\ Cardinality(Untold(i)') \in Nat
         /\ (w \in Untold(i)' => w \in Untold(i)) =>
              Cardinality(Untold(i)') <= Cardinality(Untold(i))
         /\ w \in Untold(i) /\ w \notin Untold(i)' =>
              Cardinality(Untold(i)') + 1 = Cardinality(Untold(i))
         /\ Cardinality(Untold(i)') <= Cardinality(Untold(i)) + 1
<1> DEFINE U == Untold(i)
           V == Untold(i)'
<1>1. IsFiniteSet(U) /\ IsFiniteSet(V)
  <2>1. U \subseteq Writers /\ V \subseteq Writers
    BY DEF Untold
  <2> QED
    BY <2>1, WritersAssumption, FS_Subset
<1>2. \A v \in Writers \ {w} : v \in V <=> v \in U
  BY DEF Untold, Authorizes
<1>3. U \subseteq Writers /\ V \subseteq Writers
  BY DEF Untold
<1> HIDE DEF U, V
<1>4. V \ {w} = U \ {w}
  BY <1>2, <1>3
<1>5. /\ Cardinality(U) \in Nat /\ Cardinality(V) \in Nat
  BY <1>1, FS_CardinalityType
<1>6. \A S : IsFiniteSet(S) => Cardinality(S \ {w})
                                 = IF w \in S THEN Cardinality(S) - 1 ELSE Cardinality(S)
  BY FS_RemoveElement
<1>7. /\ Cardinality(V \ {w}) = IF w \in V THEN Cardinality(V) - 1 ELSE Cardinality(V)
      /\ Cardinality(U \ {w}) = IF w \in U THEN Cardinality(U) - 1 ELSE Cardinality(U)
  BY <1>1, <1>6
<1>8. /\ (w \in V => w \in U) => Cardinality(V) <= Cardinality(U)
      /\ w \in U /\ w \notin V => Cardinality(V) + 1 = Cardinality(U)
      /\ Cardinality(V) <= Cardinality(U) + 1
  BY <1>4, <1>5, <1>7
<1> QED
  BY <1>5, <1>8 DEF U, V

LEMMA PlanStarts == Init => PlanSafe
<1> SUFFICES ASSUME Init PROVE PlanSafe
  OBVIOUS
<1>1. PlanTyped
  BY IdleTyped DEF Init, PlanTyped
<1>2. Current = InitialProgress
  BY DEF Init, Current
<1>3. \A i \in StepIds : Phases(Current)[i] = "waiting"
  BY <1>2, InitialProgressTyped
<1>4. \A w \in Writers : proc[w].pc = "idle"
  BY IdleTyped DEF Init
<1>5. \A w \in Writers : Holds(w)
  BY <1>4 DEF Holds
<1>6. Lawful(Current)
  BY <1>3 DEF Lawful
<1>7. ASSUME NEW i \in StepIds PROVE Spent(i) <= 1 + stale
  <2>1. Untold(i) = {}
    BY <1>4 DEF Untold
  <2>2. Cardinality(Untold(i)) = 0
    BY <2>1, FS_EmptySet
  <2>3. granted[i] = 0 /\ stale = 0
    BY DEF Init
  <2> QED
    BY <1>3, <2>2, <2>3 DEF Spent
<1> QED
  BY <1>1, <1>5, <1>6, <1>7 DEF PlanSafe

\* What a step of the file's history is: the file stands, or a process that
\* compared it writes the next version, or a stale write leaves a lawful one.
FileStep ==
  \/ Current' = Current /\ stale' = stale
  \/ Follows(Current, Current') /\ stale' = stale
  \/ stale' > stale

\* One process takes a step, whatever the others are in the middle of.
LEMMA ProcessStep ==
  ASSUME PlanSafe, NEW w \in Writers,
         \/ Review(w) \/ EnterAuthorize(w) \/ EnterOutcome(w) \/ EnterBootstrap(w)
         \/ Replace(w) \/ Confirm(w) \/ Stop(w)
  PROVE  PlanSafe' /\ FileStep
<1>a. PlanTyped /\ Current \in Progresses /\ proc[w] \in ProcStates
  BY CurrentTyped DEF PlanSafe, PlanTyped
<1>b. stale \in Nat /\ \A i \in StepIds : granted[i] \in Nat
  BY <1>a DEF PlanTyped
\* The file stands and nobody is told.
<1>1. ASSUME NEW new \in ProcStates, proc' = [proc EXCEPT ![w] = new],
             UNCHANGED <<file, clock, granted, stale>>,
             \/ new.pc \in {"idle", "reviewed"}
             \/ /\ new.pc = "bootstrapping"
                /\ new.seen = InitialProgress /\ new.next = InitialProgress
             \/ new.pc = "loaded" /\ Current = new.seen /\ Follows(Current, new.next)
      PROVE  PlanSafe' /\ FileStep
  <2>1. /\ proc' \in [Writers -> ProcStates] /\ proc'[w] = new
        /\ \A v \in Writers \ {w} : proc'[v] = proc[v]
    BY <1>1, <1>a, ProcSet
  <2>2. PlanTyped' /\ Current' = Current
    BY <1>1, <1>a, <2>1 DEF PlanTyped, Current
  <2>3. ASSUME NEW v \in Writers PROVE Holds(v)'
    <3>1. CASE v = w
      BY <1>1, <2>1, <3>1 DEF Holds, PlanSafe
    <3>2. CASE v # w
      <4>1. Holds(v) /\ proc'[v] = proc[v]
        BY <2>1, <3>2 DEF PlanSafe
      <4> QED
        BY <4>1 DEF Holds
    <3> QED
      BY <3>1, <3>2
  <2>4. ASSUME NEW i \in StepIds PROVE Spent(i)' <= 1 + stale'
    <3>1. w \notin Untold(i)'
      BY <1>1, <2>1 DEF Untold
    <3>2. /\ Cardinality(Untold(i)) \in Nat /\ Cardinality(Untold(i)') \in Nat
          /\ Cardinality(Untold(i)') <= Cardinality(Untold(i))
      BY <1>a, <2>1, <2>2, <3>1, UntoldStep
    <3>3. Spent(i) <= 1 + stale
      BY DEF PlanSafe
    <3> QED
      BY <1>1, <1>b, <2>2, <3>2, <3>3 DEF Spent
  <2>5. Lawful(Current)'
    BY <2>2 DEF PlanSafe
  <2> QED
    BY <1>1, <2>2, <2>3, <2>4, <2>5 DEF PlanSafe, FileStep
<1>2. CASE Review(w)
  <2> DEFINE new == [Idle EXCEPT !.pc = "reviewed", !.seen = Current,
                                 !.active = (approval = "ACTIVE"), !.now = clock]
  <2>1. new \in ProcStates /\ new.pc = "reviewed"
    BY <1>a, InitialProgressTyped DEF Idle, ProcStates, PlanTyped
  <2>2. proc' = [proc EXCEPT ![w] = new] /\ UNCHANGED <<file, clock, granted, stale>>
    BY <1>2 DEF Review
  <2> HIDE DEF new
  <2> QED
    BY <1>1, <2>1, <2>2
<1>3. ASSUME NEW p \in Progresses, Follows(Current, p), Enter(w, p)
      PROVE  PlanSafe' /\ FileStep
  <2> DEFINE new == [proc[w] EXCEPT !.pc = "loaded", !.next = p]
  <2>1. /\ new \in ProcStates /\ new.pc = "loaded" /\ new.next = p
        /\ new.seen = proc[w].seen
    BY <1>a DEF ProcStates
  <2>2. proc' = [proc EXCEPT ![w] = new] /\ UNCHANGED <<file, clock, granted, stale>>
    BY <1>3 DEF Enter
  <2>3. Current = proc[w].seen
    BY <1>3 DEF Enter
  <2> HIDE DEF new
  <2> QED
    BY <1>1, <1>3, <2>1, <2>2, <2>3
<1>4. proc[w].active \in BOOLEAN /\ proc[w].now \in Nat
  BY <1>a DEF ProcStates
<1>5. CASE EnterAuthorize(w)
  <2>1. PICK p \in Authorize(Current, proc[w].active, proc[w].now) : Enter(w, p)
    BY <1>5 DEF EnterAuthorize
  <2>2. p \in Progresses /\ Follows(Current, p)
    BY <1>a, <1>4, AuthorizeFollows
  <2> QED
    BY <1>3, <2>1, <2>2
<1>6. CASE EnterOutcome(w)
  <2>1. PICK i \in StepIds, o \in Outcomes :
          \E p \in RecordOutcome(Current, i, o, proc[w].active, proc[w].now) : Enter(w, p)
    BY <1>6 DEF EnterOutcome
  <2>2. PICK p \in RecordOutcome(Current, i, o, proc[w].active, proc[w].now) : Enter(w, p)
    BY <2>1
  <2>3. p \in Progresses /\ Follows(Current, p)
    BY <1>a, <1>4, RecordOutcomeFollows
  <2> QED
    BY <1>3, <2>2, <2>3
<1>7. CASE EnterBootstrap(w)
  <2> DEFINE new == [Idle EXCEPT !.pc = "bootstrapping"]
  <2>1. /\ new \in ProcStates /\ new.pc = "bootstrapping"
        /\ new.next = InitialProgress /\ new.seen = InitialProgress
    BY InitialProgressTyped DEF Idle, ProcStates
  <2>2. proc' = [proc EXCEPT ![w] = new] /\ UNCHANGED <<file, clock, granted, stale>>
    BY <1>7 DEF EnterBootstrap
  <2> HIDE DEF new
  <2> QED
    BY <1>1, <2>1, <2>2
<1>8. CASE Stop(w)
  BY <1>1, <1>8, IdleTyped DEF Stop
<1>9. CASE Replace(w)
  <2> DEFINE new == [proc[w] EXCEPT !.pc = "replaced"]
             q == proc[w].next
             fresh == Current = proc[w].seen
  <2>1. /\ new \in ProcStates /\ new.pc = "replaced" /\ new.next = q /\ q \in Progresses
    BY <1>a DEF ProcStates
  <2>2. /\ proc' = [proc EXCEPT ![w] = new] /\ UNCHANGED <<clock, granted>>
        /\ file' = q /\ proc[w].pc \in {"loaded", "bootstrapping"}
        /\ stale' = IF fresh THEN stale ELSE stale + 1
    BY <1>9 DEF Replace
  <2>3. Holds(w) /\ Lawful(Current)
    BY DEF PlanSafe
  <2>4. /\ \/ proc[w].seen = InitialProgress /\ q = InitialProgress
           \/ Lawful(proc[w].seen) /\ Follows(proc[w].seen, q)
    BY <2>2, <2>3 DEF Holds
  <2> HIDE DEF new, q
  <2>5. /\ proc' \in [Writers -> ProcStates] /\ proc'[w] = new
        /\ \A v \in Writers \ {w} : proc'[v] = proc[v]
    BY <1>a, <2>1, <2>2, ProcSet
  <2>6. Current' = q
    BY <2>1, <2>2, NoFileAssumption DEF Current
  <2>7. PlanTyped'
    BY <1>a, <1>b, <2>1, <2>2, <2>5 DEF PlanTyped
  <2>8. Lawful(q)
    <3>1. CASE q = InitialProgress
      BY <3>1, InitialProgressTyped DEF Lawful
    <3> QED
      BY <2>4, <3>1, FollowsKeeps
  <2>9. Lawful(Current)'
    BY <2>6, <2>8 DEF Lawful
  <2>10. fresh => Current' = Current \/ Follows(Current, Current')
    BY <2>4, <2>6
  <2>11. fresh => \A i \in StepIds :
                    Phases(Current')[i] \in {"waiting", "open"} => Phases(Current)[i] = "waiting" \/ Current' = Current
    BY <2>3, <2>10, FollowsKeeps
  <2>12. ASSUME NEW v \in Writers PROVE Holds(v)'
    <3>1. CASE v = w
      BY <2>1, <2>5, <3>1 DEF Holds
    <3>2. CASE v # w
      <4>1. Holds(v) /\ proc'[v] = proc[v]
        BY <2>5, <3>2 DEF PlanSafe
      <4> QED
        BY <4>1 DEF Holds
    <3> QED
      BY <3>1, <3>2
  <2>13. ASSUME NEW i \in StepIds PROVE Spent(i)' <= 1 + stale'
    <3> DEFINE u == Cardinality(Untold(i))
               v == Cardinality(Untold(i)')
    <3>1. w \in Untold(i)' <=> q.steps[i].auth = "AUTHORIZED"
      BY <2>1, <2>5 DEF Untold, Authorizes
    <3>2. /\ w \in Untold(i)' => Phases(Current')[i] = "open"
      BY <2>6, <3>1 DEF Phases, PhaseOf
    <3>3. w \notin Untold(i)
      BY <2>2 DEF Untold
    <3>4. /\ u \in Nat /\ v \in Nat /\ v <= u + 1
          /\ w \notin Untold(i)' => v <= u
      BY <1>a, <2>5, <2>7, UntoldStep
    <3>5. Spent(i) = granted[i] + u + (IF Phases(Current)[i] = "waiting" THEN 1 ELSE 0)
      BY DEF Spent
    <3>6. Spent(i)' = granted[i] + v + (IF Phases(Current')[i] = "waiting" THEN 1 ELSE 0)
      BY <2>2 DEF Spent
    <3>7. Spent(i) <= 1 + stale
      BY DEF PlanSafe
    <3>8. v + (IF Phases(Current')[i] = "waiting" THEN 1 ELSE 0) <= u + 1
      BY <3>2, <3>4
    <3>9. CASE ~fresh
      BY <1>b, <2>2, <3>4, <3>5, <3>6, <3>7, <3>8, <3>9
    <3>10. CASE fresh
      <4>1. w \in Untold(i)' => Phases(Current)[i] = "waiting"
        <5>1. SUFFICES ASSUME w \in Untold(i)', Current' = Current PROVE FALSE
          BY <2>11, <3>2, <3>10
        <5>2. Lawful(Current) /\ Phases(Current)[i] = "open"
          BY <2>3, <3>2, <5>1
        <5>3. proc[w].seen = Current /\ q = Current
          BY <2>6, <3>10, <5>1
        <5>4. Follows(Current, Current)
          BY <2>4, <5>2, <5>3, InitialProgressTyped
        <5> QED
          BY <5>2, <5>4, FollowsKeeps
      <4>2. Phases(Current')[i] = "waiting" => Phases(Current)[i] = "waiting"
        BY <2>11, <3>10
      <4>3. stale' = stale
        BY <2>2, <3>10
      <4>4. v + (IF Phases(Current')[i] = "waiting" THEN 1 ELSE 0)
              <= u + (IF Phases(Current)[i] = "waiting" THEN 1 ELSE 0)
        BY <3>2, <3>4, <4>1, <4>2
      <4> QED
        BY <1>b, <3>4, <3>5, <3>6, <3>7, <4>3, <4>4
    <3> QED
      BY <3>9, <3>10
  <2>14. FileStep
    BY <1>b, <2>2, <2>10 DEF FileStep
  <2> QED
    BY <2>7, <2>9, <2>12, <2>13, <2>14 DEF PlanSafe
<1>10. CASE Confirm(w)
  <2>1. /\ proc' = [proc EXCEPT ![w] = Idle] /\ UNCHANGED <<file, clock, stale>>
        /\ proc[w].pc = "replaced"
        /\ granted' = [i \in StepIds |->
              IF Current = proc[w].next /\ Authorizes(w, i) THEN granted[i] + 1 ELSE granted[i]]
    BY <1>10 DEF Confirm
  <2>2. /\ proc' \in [Writers -> ProcStates] /\ proc'[w] = Idle
        /\ \A v \in Writers \ {w} : proc'[v] = proc[v]
    BY <1>a, <2>1, IdleTyped, ProcSet
  <2>3. Current' = Current /\ PlanTyped'
    BY <1>a, <1>b, <2>1, <2>2 DEF Current, PlanTyped
  <2>4. ASSUME NEW i \in StepIds PROVE Spent(i)' <= 1 + stale'
    <3>1. w \notin Untold(i)' /\ (w \in Untold(i) <=> Authorizes(w, i))
      BY <2>1, <2>2, IdleTyped DEF Untold
    <3>2. /\ Cardinality(Untold(i)) \in Nat /\ Cardinality(Untold(i)') \in Nat
          /\ Cardinality(Untold(i)') <= Cardinality(Untold(i))
          /\ w \in Untold(i) => Cardinality(Untold(i)') + 1 = Cardinality(Untold(i))
      BY <1>a, <2>2, <2>3, <3>1, UntoldStep
    <3>3. /\ granted'[i] \in Nat /\ granted'[i] <= granted[i] + 1
          /\ ~Authorizes(w, i) => granted'[i] = granted[i]
      BY <1>b, <2>1
    <3>4. granted'[i] + Cardinality(Untold(i)') <= granted[i] + Cardinality(Untold(i))
      BY <1>b, <3>1, <3>2, <3>3
    <3>5. Spent(i) <= 1 + stale
      BY DEF PlanSafe
    <3> QED
      BY <1>b, <2>1, <2>3, <3>2, <3>3, <3>4, <3>5 DEF Spent
  <2>5. ASSUME NEW v \in Writers PROVE Holds(v)'
    <3>1. CASE v = w
      BY <2>2, <3>1, IdleTyped DEF Holds
    <3>2. CASE v # w
      <4>1. Holds(v) /\ proc'[v] = proc[v]
        BY <2>2, <3>2 DEF PlanSafe
      <4> QED
        BY <4>1 DEF Holds
    <3> QED
      BY <3>1, <3>2
  <2>6. Lawful(Current)'
    BY <2>3 DEF PlanSafe
  <2> QED
    BY <2>1, <2>3, <2>4, <2>5, <2>6 DEF PlanSafe, FileStep
<1> QED
  BY <1>2, <1>5, <1>6, <1>7, <1>8, <1>9, <1>10

LEMMA PlanStepKeeps ==
  ASSUME PlanSafe, [Next]_vars
  PROVE  PlanSafe' /\ FileStep
<1>1. ASSUME UNCHANGED <<file, proc, granted, stale>>, clock' \in Nat
      PROVE  PlanSafe' /\ FileStep
  <2>1. Current' = Current /\ PlanTyped'
    BY <1>1 DEF PlanSafe, PlanTyped, Current
  <2>2. \A i \in StepIds : Spent(i)' = Spent(i)
    BY <1>1, <2>1 DEF Spent, Untold, Authorizes
  <2> QED
    BY <1>1, <2>1, <2>2 DEF PlanSafe, Holds, FileStep
<1>2. Revoke \/ Tick \/ UNCHANGED vars =>
        UNCHANGED <<file, proc, granted, stale>> /\ clock' \in Nat
  BY WindowAssumption DEF Revoke, Tick, vars, PlanSafe, PlanTyped
<1> QED
  BY <1>1, <1>2, ProcessStep DEF Next

\* A caller is told at most once that a step is authorized, and once more for each
\* write over a file the writer had not loaded: any number of processes may be in
\* a call at once, die in it or be denied.
THEOREM GrantedOnceHolds == Spec => []GrantedOnce
<1>1. PlanSafe => GrantedOnce
  <2> SUFFICES ASSUME PlanSafe, NEW i \in StepIds PROVE granted[i] <= 1 + stale
    BY DEF GrantedOnce
  <2>1. granted[i] \in Nat /\ stale \in Nat /\ Spent(i) <= 1 + stale
    BY DEF PlanSafe, PlanTyped
  <2>2. Cardinality(Untold(i)) \in Nat
    <3>1. IsFiniteSet(Untold(i))
      BY WritersAssumption, FS_Subset DEF Untold
    <3> QED
      BY <3>1, FS_CardinalityType
  <2> QED
    BY <2>1, <2>2 DEF Spent
<1>2. PlanSafe /\ [Next]_vars => PlanSafe'
  BY PlanStepKeeps
<1> QED
  BY <1>1, <1>2, PlanStarts, PTL DEF Spec

\* What the store holds is the plan as its owner understands it: one step at a
\* time, in order, each behind a success, and nothing after a failure; and a stale
\* write takes it to a state of the plan as well.
THEOREM ImplementsSequentialPlanHolds == Spec => ImplementsSequentialPlan
<1> DEFINE seen == Phases(Current)
           Change == Plan!PlanNext \/ (stale' > stale /\ Plan!Lawful')
<1>1. Init => Plan!PlanInit
  BY InitialProgressTyped DEF Init, Current, Plan!PlanInit, StepIds
<1>2. ASSUME PlanSafe, [Next]_vars PROVE [Change]_seen
  <2>1. CASE Current' = Current
    BY <2>1
  <2>2. CASE Follows(Current, Current')
    <3>1. PICK i \in StepIds :
            \/ /\ seen[i] = "waiting" /\ \A j \in 1..(i - 1) : seen[j] = "done"
               /\ seen' = [seen EXCEPT ![i] = "open"]
            \/ /\ seen[i] = "open" /\ seen' = [seen EXCEPT ![i] = "done"]
            \/ /\ seen[i] = "open"
               /\ seen' = [j \in StepIds |-> IF j < i THEN seen[j]
                                              ELSE IF j = i THEN "failed" ELSE "blocked"]
      BY <2>2 DEF Follows
    <3>2. i \in 1..N
      BY DEF StepIds
    <3> HIDE DEF seen
    <3>3. Plan!Grant(i) \/ Plan!Succeed(i) \/ Plan!Fail(i)
      BY <3>1 DEF Plan!Grant, Plan!Succeed, Plan!Fail, StepIds, seen
    <3> QED
      BY <3>2, <3>3 DEF Plan!PlanNext
  <2>3. CASE stale' > stale
    <3>1. Lawful(Current)'
      BY <1>2, PlanStepKeeps DEF PlanSafe
    <3>2. Plan!Lawful'
      BY <3>1 DEF Lawful, Plan!Lawful, StepIds
    <3> QED
      BY <2>3, <3>2
  <2> QED
    BY <1>2, <2>1, <2>2, <2>3, PlanStepKeeps DEF FileStep
<1>3. PlanSafe /\ [Next]_vars => PlanSafe'
  BY PlanStepKeeps
<1>4. Plan!PlanInit /\ [][Change]_seen => ImplementsSequentialPlan
  BY DEF ImplementsSequentialPlan
<1> HIDE DEF Change, seen
<1> QED
  BY <1>1, <1>2, <1>3, <1>4, PlanStarts, PTL DEF Spec

-----------------------------------------------------------------------------
(* The positive-authentication campaign.                                   *)

\* Where an executor's run is before it may have a session, and while it may.
Sessionless == {"idle", "cleared", "authorized", "generated"}
InSession == {"held", "probed", "failing"}
ExecutorPCs == Sessionless \cup InSession \cup {"ended"}
Reports == {"none", "refused", "failed", "unverified", "accepted", "silent"}

\* What the proof needs to know of the types.
ExecutorsTyped ==
  /\ run \in [Auth!Boundaries -> [number : Nat, pc : ExecutorPCs, report : Reports]]
  /\ alive \subseteq Auth!Boundaries
  /\ late \subseteq Auth!Boundaries
  /\ logouts \in [Auth!Boundaries -> Nat]

\* An executor that has not ended has asked for no logout and reported nothing,
\* and it has a session only when it holds one.  A run that has ended stays: its
\* workflow has a number and a report, and a further run of it changes neither
\* what is left nor, once there is one, the report.
Accounted(b) ==
  /\ run[b].pc = "idle" <=> run[b].number = 0
  /\ run[b].pc = "ended" => run[b].report # "none"
  /\ run[b].pc # "ended" => logouts[b] = 0 /\ run[b].report = "none" /\ b \notin late
  /\ run[b].pc \in Sessionless => b \notin alive
  /\ logouts[b] <= 1
  /\ run[b].report = "accepted" => logouts[b] = 1 /\ b \notin alive \cup late
  /\ b \in alive \cup late /\ run[b].pc = "ended" =>
       run[b].report \in {"failed", "unverified", "silent"}
  /\ run[b].report = "unverified" => logouts[b] = 1

AccountIInv == ExecutorsTyped /\ \A b \in Auth!Boundaries : Accounted(b)

-----------------------------------------------------------------------------

\* The steps of one executor's runs, of its session and of its caller's logout.
ExecutorStep(b) ==
  \/ Auth!Dispatch(b) \/ Auth!Proceed(b) \/ Auth!Generate(b) \/ Auth!Verify(b) \/ Auth!LateSession(b)
  \/ Auth!Probe(b) \/ Auth!Logout(b) \/ Auth!Die(b) \/ Auth!SessionExpires(b)

\* A step of one executor gives another no session and touches none of its state;
\* a logout may take the other's session away, for it is of the user everywhere.
Apart(b) ==
  \A c \in Auth!Boundaries \ {b} :
    /\ run'[c] = run[c] /\ logouts'[c] = logouts[c]
    /\ c \in alive' => c \in alive
    /\ c \in late' <=> c \in late

LEMMA OthersAccounted ==
  ASSUME AccountIInv, NEW b \in Auth!Boundaries, Apart(b), NEW c \in Auth!Boundaries \ {b}
  PROVE  Accounted(c)'
BY DEF AccountIInv, Accounted, Apart

\* Where a run goes and what it reports is of the type.
LEMMA SetRunType ==
  ASSUME ExecutorsTyped, NEW b \in Auth!Boundaries, NEW pc \in ExecutorPCs, NEW report \in Reports,
         Auth!SetRun(b, pc, report)
  PROVE  run' \in [Auth!Boundaries -> [number : Nat, pc : ExecutorPCs, report : Reports]]
<1>1. run' = [run EXCEPT ![b] = [run[b] EXCEPT !.pc = pc, !.report = report]]
  BY DEF Auth!SetRun
<1>2. [run[b] EXCEPT !.pc = pc, !.report = report]
        \in [number : Nat, pc : ExecutorPCs, report : Reports]
  BY DEF ExecutorsTyped
<1> QED
  BY <1>1, <1>2 DEF ExecutorsTyped

\* After its own step an executor is accounted for, and the types are kept.
LEMMA OwnAccount ==
  ASSUME AccountIInv, NEW b \in Auth!Boundaries, ExecutorStep(b)
  PROVE  ExecutorsTyped' /\ Apart(b) /\ Accounted(b)'
<1> USE DEF AccountIInv, ExecutorsTyped, Accounted, Apart, Auth!SetRun, Auth!Ends, Auth!Running,
            ExecutorPCs, Reports, Sessionless, InSession
<1>1. CASE Auth!Dispatch(b)
  <2>1. run[b] \in [number : Nat, pc : ExecutorPCs, report : Reports]
    OBVIOUS
  <2>2. UNCHANGED <<alive, late, logouts>> /\ ~Auth!Running(b)
    BY <1>1 DEF Auth!Dispatch
  <2>3. CASE /\ Auth!FirstRun(run[b].number + 1)
             /\ run' = [run EXCEPT ![b] = [number |-> run[b].number + 1, pc |-> "cleared",
                                           report |-> "none"]]
    BY <2>1, <2>2, <2>3 DEF Auth!FirstRun
  <2>4. CASE run' = [run EXCEPT ![b] =
               [number |-> run[b].number + 1, pc |-> "ended",
                report |-> IF run[b].report = "none" THEN "refused" ELSE run[b].report]]
    BY <2>1, <2>2, <2>4
  <2> QED
    BY <1>1, <2>3, <2>4 DEF Auth!Dispatch
<1>2. CASE Auth!Proceed(b)
  BY <1>2 DEF Auth!Proceed
<1>3. CASE Auth!Generate(b)
  BY <1>3 DEF Auth!Generate
<1>4. CASE Auth!Verify(b)
  <2>1. run[b].pc = "generated" /\ run[b].number # 0 /\ UNCHANGED logouts
    BY <1>4 DEF Auth!Verify
  <2>2. CASE Auth!SetRun(b, "held", "none") /\ alive' = alive \cup {b} /\ UNCHANGED late
    BY <2>1, <2>2
  <2>3. CASE Auth!Ends(b, "failed") /\ alive' \in {alive, alive \cup {b}} /\ UNCHANGED late
    BY <2>1, <2>3
  <2>4. CASE Auth!Ends(b, "failed") /\ late' = late \cup {b} /\ UNCHANGED alive
    BY <2>1, <2>4
  <2> QED
    BY <1>4, <2>2, <2>3, <2>4 DEF Auth!Verify
<1>5. CASE Auth!LateSession(b)
  <2>1. b \in late /\ late' = late \ {b} /\ alive' = alive \cup {b} /\ UNCHANGED <<run, logouts>>
    BY <1>5 DEF Auth!LateSession
  <2>2. run[b].pc = "ended" /\ run[b].report \in {"failed", "unverified", "silent"}
    BY <2>1
  <2>3. ExecutorsTyped' /\ Apart(b)
    BY <2>1
  <2>4. Accounted(b)'
    BY <2>1, <2>2
  <2> QED
    BY <2>3, <2>4
<1>6. CASE Auth!Probe(b)
  <2>1. PICK pc \in {"probed", "failing"} : Auth!SetRun(b, pc, "none")
    BY <1>6 DEF Auth!Probe
  <2>2. run[b].pc = "held" /\ UNCHANGED <<alive, late, logouts>>
    BY <1>6 DEF Auth!Probe
  <2>3. run'[b].pc = pc /\ run'[b].report = "none" /\ run'[b].number = run[b].number
    BY <2>1
  <2>4. ExecutorsTyped'
    <3>1. pc \in ExecutorPCs /\ "none" \in Reports
      OBVIOUS
    <3>2. run' \in [Auth!Boundaries -> [number : Nat, pc : ExecutorPCs, report : Reports]]
      BY <2>1, <3>1, SetRunType
    <3> QED
      BY <2>2, <3>2
  <2>5. Apart(b)
    BY <2>1, <2>2
  <2>6. Accounted(b)'
    BY <2>2, <2>3
  <2> QED
    BY <2>4, <2>5, <2>6
<1>7. CASE Auth!Logout(b)
  <2>1. /\ run[b].pc \in {"probed", "failing"} /\ UNCHANGED late
        /\ logouts' = [logouts EXCEPT ![b] = @ + 1]
    BY <1>7 DEF Auth!Logout
  <2>2. logouts'[b] = 1 /\ b \notin late' /\ run[b].number # 0
    BY <2>1
  <2>3. CASE alive' = {} /\ Auth!Ends(b, Auth!AfterLogout(b))
    BY <2>1, <2>2, <2>3 DEF Auth!AfterLogout
  <2>4. CASE alive' \in {alive, {}} /\ Auth!Ends(b, Auth!AfterFailedLogout(b))
    BY <2>1, <2>2, <2>4 DEF Auth!AfterFailedLogout
  <2> QED
    BY <1>7, <2>3, <2>4 DEF Auth!Logout
<1>8. CASE Auth!Die(b)
  BY <1>8 DEF Auth!Die
<1>9. CASE Auth!SessionExpires(b)
  BY <1>9 DEF Auth!SessionExpires
<1> QED
  BY <1>1, <1>2, <1>3, <1>4, <1>5, <1>6, <1>7, <1>8, <1>9 DEF ExecutorStep

\* The owner's steps touch neither a run nor a session.
LEMMA OwnerStep ==
  ASSUME NEW b \in Auth!Boundaries,
         \/ Auth!Prepare(b) \/ Auth!Approve(b) \/ Auth!WindowOpens(b) \/ Auth!WindowCloses(b)
         \/ Auth!RejectLate(b) \/ Auth!Expire(b) \/ Auth!Stop(b) \/ Auth!Act(b) \/ Auth!Record(b)
  PROVE  UNCHANGED <<run, alive, late, logouts>>
BY DEF Auth!Prepare, Auth!Approve, Auth!WindowOpens, Auth!WindowCloses, Auth!RejectLate, Auth!Expire, Auth!Stop, Auth!Act, Auth!Record,
       Auth!SetPhase

LEMMA AccountInit == Auth!Init => AccountIInv
BY DEF Auth!Init, AccountIInv, ExecutorsTyped, Accounted, Auth!NoRun, ExecutorPCs, Reports, Sessionless, InSession

LEMMA AccountStep == AccountIInv /\ [Auth!Next]_(Auth!vars) => AccountIInv'
<1> SUFFICES ASSUME AccountIInv, [Auth!Next]_(Auth!vars) PROVE AccountIInv'
  OBVIOUS
<1>1. ASSUME NEW b \in Auth!Boundaries, ExecutorStep(b) PROVE AccountIInv'
  <2>1. ExecutorsTyped' /\ Apart(b) /\ Accounted(b)'
    BY <1>1, OwnAccount
  <2>2. \A c \in Auth!Boundaries \ {b} : Accounted(c)'
    BY <2>1, OthersAccounted
  <2> QED
    BY <2>1, <2>2 DEF AccountIInv
<1>2. CASE UNCHANGED <<run, alive, late, logouts>>
  BY <1>2 DEF AccountIInv, ExecutorsTyped, Accounted
<1>3. ASSUME NEW v \in Auth!Versions, Auth!RetireSecrets(v) \/ Auth!RecordRetirement(v)
      PROVE  UNCHANGED <<run, alive, late, logouts>>
  BY <1>3 DEF Auth!RetireSecrets, Auth!RecordRetirement
<1>4. Auth!Fallback \/ UNCHANGED Auth!vars => UNCHANGED <<run, alive, late, logouts>>
  BY DEF Auth!Fallback, Auth!vars
<1> QED
  BY <1>1, <1>2, <1>3, <1>4, OwnerStep DEF Auth!Next, ExecutorStep

\* At most one logout, and no report of less than what may be left, in every
\* stretch of the campaign (the executors' main(), lifecycle and logout).
THEOREM SessionsAccountedHolds == Auth!Spec => []SessionsAccounted
<1>1. AccountIInv => SessionsAccounted
  BY DEF AccountIInv, ExecutorsTyped, Accounted, SessionsAccounted, Auth!SessionsAccounted, Auth!Running,
         ExecutorPCs, Sessionless, InSession
<1> QED
  BY <1>1, AccountInit, AccountStep, PTL DEF Auth!Spec

-----------------------------------------------------------------------------
(* What the campaign does to its plans, keys and executors, in five kinds of *)
(* steps.                                                                   *)

Unopened == {"none", "prepared", "approved", "late", "REJECTED_LATE", "EXPIRED"}
Closed == {"STOPPED", "REJECTED_LATE", "over", "EXPIRED"}
PlanPhases == Unopened \cup Closed \cup {"open", "COMPLETED"}
Secrets == {"none", "live", "gone"}
Retirements == {"none", "begun", "lapsed", "once", "twice", "reconciled"}

CampaignTyped ==
  /\ phase \in [Auth!Boundaries -> PlanPhases]
  /\ done \in [Auth!Boundaries -> Nat]
  /\ retired \in [Auth!Versions -> Retirements]
  /\ key \in [Auth!Versions -> Secrets]
  /\ binding \in [Auth!Versions -> Secrets]
  /\ lifecycles \in [Auth!Versions -> Nat]

\* The owner takes a plan on.
PhaseMove(b) ==
  /\ UNCHANGED <<stretch, done, retired, key, binding, run, lifecycles>>
  /\ \A c \in Auth!Boundaries \ {b} : phase'[c] = phase[c]
  /\ \/ phase[b] = "none" /\ Auth!Predecessors(b) /\ phase'[b] = "prepared"
     \/ phase[b] = "prepared" /\ phase'[b] \in {"approved", "late"}
     \/ phase[b] = "approved" /\ phase'[b] = "open"
     \/ phase[b] = "late" /\ phase'[b] = "REJECTED_LATE"
     \/ phase[b] = "open" /\ phase'[b] = "over"
     \/ /\ phase[b] = "over" /\ phase'[b] = "EXPIRED" /\ b \in Auth!Versions
        /\ key[b] = "none" /\ run[b].number = 0
     \/ phase[b] = "open" /\ ~Auth!Running(b) /\ phase'[b] = "STOPPED"

\* A step is recorded.
RecordMove(b) ==
  /\ UNCHANGED <<stretch, retired, key, binding, run, lifecycles>>
  /\ phase[b] = "open" /\ phase'[b] \in {"open", "COMPLETED"}
  /\ done'[b] = done[b] + 1
  /\ \A c \in Auth!Boundaries \ {b} : phase'[c] = phase[c] /\ done'[c] = done[c]

\* The owner works on a version's key or its binding.
ActMove(b) ==
  /\ UNCHANGED <<stretch, phase, done, retired, run, lifecycles>>
  /\ phase[b] = "open"
  /\ \A v \in Auth!Versions \ {Auth!KeyOf(b)} : key'[v] = key[v] /\ binding'[v] = binding[v]
  /\ \/ /\ Auth!NextStep(b) \in {"create", "bind"}
        /\ key'[Auth!KeyOf(b)] # "none"
        /\ binding'[Auth!KeyOf(b)] # binding[Auth!KeyOf(b)] => key[Auth!KeyOf(b)] = "live"
     \/ /\ key'[Auth!KeyOf(b)] \in {key[Auth!KeyOf(b)], "gone"}
        /\ binding'[Auth!KeyOf(b)] \in {binding[Auth!KeyOf(b)], "gone"}
        /\ binding'[Auth!KeyOf(b)] = "gone" /\ binding[Auth!KeyOf(b)] # "gone" =>
             binding[Auth!KeyOf(b)] = "live"

\* A stopped version's secrets go, or that is recorded.
RetireMove(v) ==
  /\ UNCHANGED <<stretch, phase, done, run, lifecycles>>
  /\ Auth!Retirable(v)
  /\ \A u \in Auth!Versions \ {v} : /\ key'[u] = key[u] /\ binding'[u] = binding[u]
                               /\ retired'[u] = retired[u]
  /\ key'[v] \in {key[v], "gone"}
  /\ binding'[v] \in {binding[v], "gone"}
  /\ binding'[v] # binding[v] => binding[v] = "live"
  /\ \/ retired'[v] = retired[v]
     \/ /\ UNCHANGED <<key, binding>>
        /\ \/ retired[v] = "none" /\ key[v] # "live" /\ retired'[v] = "begun"
           \/ retired[v] = "begun" /\ retired'[v] = "lapsed"
           \/ /\ retired[v] \in {"begun", "lapsed", "once", "twice"} /\ binding[v] # "live"
              /\ retired'[v] \in {"once", "twice", "reconciled"}

\* An executor's run goes on.
RunMove(b) ==
  /\ UNCHANGED <<stretch, phase, done, retired, key, binding>>
  /\ \A c \in Auth!Boundaries \ {b} : run'[c] = run[c]
  /\ \/ /\ phase[b] = "open" /\ Auth!Gate(b) /\ ~Auth!Running(b)
        /\ run[b].number = 0 /\ run'[b].number = 1 /\ run'[b].pc = "cleared"
        /\ UNCHANGED lifecycles
     \/ /\ phase[b] \in {"open", "over"} /\ ~Auth!Running(b)
        /\ run'[b].number = run[b].number + 1 /\ run'[b].pc = "ended"
        /\ UNCHANGED lifecycles
     \/ /\ run[b].pc = "cleared" /\ run'[b].pc \in {"authorized", "ended"}
        /\ run'[b].number = run[b].number
        /\ UNCHANGED lifecycles
     \/ /\ run[b].pc = "authorized" /\ run'[b].pc \in {"generated", "ended"}
        /\ run'[b].number = run[b].number
        /\ lifecycles' = [lifecycles EXCEPT ![Auth!KeyOf(b)] = @ + 1]
     \/ /\ Auth!Running(b) /\ run'[b].pc \notin {"idle", "cleared", "authorized"}
        /\ run'[b].number = run[b].number
        /\ UNCHANGED lifecycles

CampaignMoves ==
  \/ \E b \in Auth!Boundaries : PhaseMove(b) \/ RecordMove(b) \/ ActMove(b) \/ RunMove(b)
  \/ \E v \in Auth!Versions : RetireMove(v)
  \/ UNCHANGED <<stretch, phase, done, retired, key, binding, run, lifecycles>>

LEMMA KeysAreVersions ==
  ASSUME NEW b \in Auth!Boundaries
  PROVE  /\ Auth!KeyOf(b) \in Auth!Versions
         /\ b \in Auth!Versions => Auth!KeyOf(b) = b
BY DEF Auth!KeyOf, Auth!Boundaries, Auth!Versions, Auth!Continuations, Auth!C2, Auth!C4, Auth!C14

LEMMA PhaseMoves ==
  ASSUME CampaignTyped, NEW b \in Auth!Boundaries,
         \/ Auth!Prepare(b) \/ Auth!Approve(b) \/ Auth!WindowOpens(b) \/ Auth!WindowCloses(b)
         \/ Auth!RejectLate(b) \/ Auth!Expire(b) \/ Auth!Stop(b)
  PROVE  PhaseMove(b)
<1> USE DEF CampaignTyped, PhaseMove, Auth!SetPhase
<1>1. CASE Auth!Prepare(b)
  BY <1>1 DEF Auth!Prepare
<1>2. CASE Auth!Approve(b)
  BY <1>2 DEF Auth!Approve
<1>3. CASE Auth!WindowOpens(b)
  BY <1>3 DEF Auth!WindowOpens
<1>4. CASE Auth!WindowCloses(b)
  BY <1>4 DEF Auth!WindowCloses
<1>5. CASE Auth!RejectLate(b)
  BY <1>5 DEF Auth!RejectLate
<1>6. CASE Auth!Expire(b)
  BY <1>6 DEF Auth!Expire
<1>7. CASE Auth!Stop(b)
  BY <1>7 DEF Auth!Stop
<1> QED
  BY <1>1, <1>2, <1>3, <1>4, <1>5, <1>6, <1>7

LEMMA OwnerMoves ==
  ASSUME CampaignTyped, NEW b \in Auth!Boundaries, Auth!Record(b) \/ Auth!Act(b)
  PROVE  RecordMove(b) \/ ActMove(b)
<1>1. CASE Auth!Record(b)
  <2>1. /\ UNCHANGED <<stretch, retired, key, binding, run, lifecycles>>
        /\ phase[b] = "open" /\ done' = [done EXCEPT ![b] = done[b] + 1]
        /\ phase' = [phase EXCEPT ![b] = "COMPLETED"] \/ phase' = phase
    BY <1>1 DEF Auth!Record
  <2> QED
    BY <2>1 DEF CampaignTyped, RecordMove
<1>2. CASE Auth!Act(b)
  <2>1. PICK v \in Auth!Versions : v = Auth!KeyOf(b)
    BY KeysAreVersions
  <2>2. /\ UNCHANGED <<stretch, phase, done, retired, run, lifecycles>>
        /\ phase[b] = "open"
    BY <1>2 DEF Auth!Act
  <2>3. \/ /\ Auth!NextStep(b) = "create" /\ key[v] = "none"
           /\ key' = [key EXCEPT ![v] = "live"] /\ UNCHANGED binding
        \/ /\ Auth!NextStep(b) = "bind" /\ key[v] = "live" /\ binding[v] = "none"
           /\ binding' = [binding EXCEPT ![v] = "live"] /\ UNCHANGED key
        \/ /\ key[v] = "live"
           /\ key' = [key EXCEPT ![v] = "gone"] /\ UNCHANGED binding
        \/ /\ binding[v] = "live"
           /\ binding' = [binding EXCEPT ![v] = "gone"] /\ UNCHANGED key
    BY <1>2, <2>1 DEF Auth!Act
  <2>4. /\ \A u \in Auth!Versions \ {v} : key'[u] = key[u] /\ binding'[u] = binding[u]
        /\ \/ /\ Auth!NextStep(b) \in {"create", "bind"}
              /\ key'[v] # "none"
              /\ binding'[v] # binding[v] => key[v] = "live"
           \/ /\ key'[v] \in {key[v], "gone"}
              /\ binding'[v] \in {binding[v], "gone"}
              /\ binding'[v] = "gone" /\ binding[v] # "gone" => binding[v] = "live"
    BY <2>3 DEF CampaignTyped
  <2> QED
    BY <2>1, <2>2, <2>4 DEF ActMove
<1> QED
  BY <1>1, <1>2

LEMMA RetireMoves ==
  ASSUME CampaignTyped, NEW v \in Auth!Versions, Auth!RetireSecrets(v) \/ Auth!RecordRetirement(v)
  PROVE  RetireMove(v)
<1>1. CASE Auth!RetireSecrets(v)
  BY <1>1 DEF Auth!RetireSecrets, RetireMove, CampaignTyped
<1>2. CASE Auth!RecordRetirement(v)
  <2>1. /\ UNCHANGED <<stretch, phase, done, run, lifecycles, key, binding>>
        /\ Auth!Retirable(v)
    BY <1>2 DEF Auth!RecordRetirement
  <2>2. PICK to \in Retirements :
          /\ retired' = [retired EXCEPT ![v] = to]
          /\ \/ retired[v] = "none" /\ key[v] # "live" /\ to = "begun"
             \/ retired[v] = "begun" /\ to = "lapsed"
             \/ /\ retired[v] \in {"begun", "lapsed", "once", "twice"} /\ binding[v] # "live"
                /\ to \in {"once", "twice", "reconciled"}
    BY <1>2 DEF Auth!RecordRetirement, Retirements
  <2> QED
    BY <2>1, <2>2 DEF RetireMove, CampaignTyped
<1> QED
  BY <1>1, <1>2

LEMMA GateIsOpen ==
  ASSUME NEW b \in Auth!Boundaries, Auth!Gate(b)
  PROVE  /\ phase[b] = "open" /\ Auth!NextStep(b) = "execute" /\ b # 2
         /\ b = Auth!C4 => Auth!OriginalOfC4
         /\ b = Auth!C14 => Auth!OriginalOfC14
<1> USE DEF Auth!Authorizable, Auth!Boundaries, Auth!Versions, Auth!Continuations, Auth!C2, Auth!C4, Auth!C14
<1>1. b \in 1..18
  OBVIOUS
<1>2. Auth!Authorizable(b) /\ b # 2 /\ (b = Auth!C4 => Auth!OriginalOfC4) /\ (b = Auth!C14 => Auth!OriginalOfC14)
  BY <1>1 DEF Auth!Gate, Auth!GateV1, Auth!GateV3, Auth!GateV4, Auth!GateV5, Auth!GateV6, Auth!GateV7, Auth!GateV8, Auth!GateV9,
              Auth!GateV10, Auth!GateV11, Auth!GateV12, Auth!GateV13, Auth!GateV14, Auth!GateV15, Auth!GateC2, Auth!GateC4,
              Auth!GateC14
<1> QED
  BY <1>2

LEMMA RunMoves ==
  ASSUME CampaignTyped, AccountIInv, NEW b \in Auth!Boundaries,
         \/ Auth!Dispatch(b) \/ Auth!Proceed(b) \/ Auth!Generate(b) \/ Auth!Verify(b)
         \/ Auth!Probe(b) \/ Auth!Logout(b) \/ Auth!Die(b)
  PROVE  RunMove(b)
<1>a. /\ run \in [Auth!Boundaries -> [number : Nat, pc : ExecutorPCs, report : Reports]]
      /\ run[b] \in [number : Nat, pc : ExecutorPCs, report : Reports]
  BY DEF AccountIInv, ExecutorsTyped
<1>b. ASSUME NEW pc, NEW report, Auth!SetRun(b, pc, report)
      PROVE  /\ run'[b].pc = pc /\ run'[b].number = run[b].number
             /\ \A c \in Auth!Boundaries \ {b} : run'[c] = run[c]
  BY <1>a, <1>b DEF Auth!SetRun
<1>1. CASE Auth!Dispatch(b)
  <2>1. /\ UNCHANGED <<stretch, phase, done, retired, key, binding, lifecycles>>
        /\ phase[b] \in {"open", "over"} /\ ~Auth!Running(b)
    BY <1>1 DEF Auth!Dispatch
  <2>2. CASE /\ Auth!FirstRun(run[b].number + 1) /\ Auth!Gate(b)
             /\ run' = [run EXCEPT ![b] = [number |-> run[b].number + 1, pc |-> "cleared",
                                           report |-> "none"]]
    <3>1. run[b].number = 0
      BY <1>a, <2>2 DEF Auth!FirstRun
    <3> QED
      BY <1>a, <2>1, <2>2, <3>1, GateIsOpen DEF RunMove
  <2>3. CASE \E report : run' = [run EXCEPT ![b] =
               [number |-> run[b].number + 1, pc |-> "ended", report |-> report]]
    BY <1>a, <2>1, <2>3 DEF RunMove
  <2>4. run' = [run EXCEPT ![b] = [number |-> run[b].number + 1, pc |-> "ended",
                     report |-> IF @.report = "none" THEN "refused" ELSE @.report]]
          => \E report : run' = [run EXCEPT ![b] =
               [number |-> run[b].number + 1, pc |-> "ended", report |-> report]]
    OBVIOUS
  <2> QED
    BY <1>1, <2>2, <2>3, <2>4 DEF Auth!Dispatch
<1>2. CASE Auth!Proceed(b)
  <2>1. /\ UNCHANGED <<stretch, phase, done, retired, key, binding, lifecycles>>
        /\ run[b].pc = "cleared"
    BY <1>2 DEF Auth!Proceed
  <2>2. \/ Auth!SetRun(b, "authorized", "none")
        \/ Auth!SetRun(b, "ended", "refused")
    BY <1>2 DEF Auth!Proceed, Auth!Ends
  <2> QED
    BY <1>b, <2>1, <2>2 DEF RunMove
<1>3. CASE Auth!Generate(b)
  <2>1. /\ UNCHANGED <<stretch, phase, done, retired, key, binding>>
        /\ run[b].pc = "authorized"
        /\ lifecycles' = [lifecycles EXCEPT ![Auth!KeyOf(b)] = @ + 1]
    BY <1>3 DEF Auth!Generate
  <2>2. \/ Auth!SetRun(b, "generated", "none")
        \/ Auth!SetRun(b, "ended", "failed")
    BY <1>3 DEF Auth!Generate, Auth!Ends
  <2> QED
    BY <1>b, <2>1, <2>2 DEF RunMove
<1>4. CASE Auth!Verify(b) \/ Auth!Probe(b) \/ Auth!Logout(b) \/ Auth!Die(b)
  <2>1. /\ UNCHANGED <<stretch, phase, done, retired, key, binding, lifecycles>>
        /\ Auth!Running(b)
    BY <1>4 DEF Auth!Verify, Auth!Probe, Auth!Logout, Auth!Die, Auth!Running
  <2>2. \/ \E report : Auth!SetRun(b, "ended", report)
        \/ Auth!SetRun(b, "held", "none")
        \/ Auth!SetRun(b, "probed", "none")
        \/ Auth!SetRun(b, "failing", "none")
    BY <1>4 DEF Auth!Verify, Auth!Probe, Auth!Logout, Auth!Die, Auth!Ends
  <2> QED
    BY <1>b, <2>1, <2>2 DEF RunMove
<1> QED
  BY <1>1, <1>2, <1>3, <1>4

LEMMA CampaignStepMoves ==
  ASSUME CampaignTyped, AccountIInv, [Auth!Next]_(Auth!vars)
  PROVE  CampaignMoves
<1>1. ASSUME NEW b \in Auth!Boundaries, Auth!LateSession(b) \/ Auth!SessionExpires(b)
      PROVE  UNCHANGED <<stretch, phase, done, retired, key, binding, run, lifecycles>>
  BY <1>1 DEF Auth!LateSession, Auth!SessionExpires
<1>2. Auth!Fallback \/ UNCHANGED Auth!vars =>
        UNCHANGED <<stretch, phase, done, retired, key, binding, run, lifecycles>>
  BY DEF Auth!Fallback, Auth!vars
<1> QED
  BY <1>1, <1>2, PhaseMoves, OwnerMoves, RunMoves, RetireMoves DEF Auth!Next, CampaignMoves

-----------------------------------------------------------------------------
(* The plans.                                                               *)

\* Plans of before the stretch are closed; one that never opened, or closed
\* with nothing done, has seen no workflow run; one that stopped has none under
\* way; and version 4 was left as its continuation found it.
PlansSafe ==
  /\ CampaignTyped
  /\ \A b \in Auth!Boundaries :
       /\ Auth!Earlier(b) => phase[b] \in Closed
       /\ phase[b] \in Unopened => run[b].number = 0
       /\ phase[b] = "STOPPED" => ~Auth!Running(b)
  /\ phase[Auth!C4] # "none" => phase[4] = "STOPPED" /\ done[4] = 3

LEMMA PlansStart == Auth!Init => PlansSafe
<1> SUFFICES ASSUME Auth!Init PROVE PlansSafe
  OBVIOUS
<1>1. /\ phase = [b \in Auth!Boundaries |-> IF Auth!Earlier(b) THEN Auth!RecordedPhase(b) ELSE "none"]
      /\ done = [b \in Auth!Boundaries |-> IF Auth!Earlier(b) THEN Auth!RecordedDone(b) ELSE 0]
      /\ retired = [v \in Auth!Versions |-> IF Auth!Earlier(v) THEN Auth!RecordedRetirement(v) ELSE "none"]
      /\ run = [b \in Auth!Boundaries |-> Auth!NoRun]
  BY DEF Auth!Init
<1>2. /\ key \in [Auth!Versions -> Secrets] /\ binding \in [Auth!Versions -> Secrets]
      /\ lifecycles \in [Auth!Versions -> Nat]
  BY DEF Auth!Init, Secrets
<1>3. \A b \in Auth!Boundaries : Auth!RecordedPhase(b) \in Closed /\ Auth!RecordedDone(b) \in Nat
  BY DEF Auth!RecordedPhase, Auth!RecordedDone, Closed
<1>4. \A v \in Auth!Versions : Auth!RecordedRetirement(v) \in Retirements
  BY DEF Auth!RecordedRetirement, Retirements
<1>5. CampaignTyped
  BY <1>1, <1>2, <1>3, <1>4 DEF CampaignTyped, PlanPhases, Unopened, Retirements
<1>6. \A b \in Auth!Boundaries : run[b].number = 0 /\ ~Auth!Running(b)
  BY <1>1 DEF Auth!NoRun, Auth!Running
<1>7. \A b \in Auth!Boundaries : Auth!Earlier(b) => phase[b] \in Closed
  BY <1>1, <1>3
<1>8. ASSUME phase[Auth!C4] # "none" PROVE phase[4] = "STOPPED" /\ done[4] = 3
  <2>1. Auth!C4 \in Auth!Boundaries /\ 4 \in Auth!Boundaries /\ Auth!KeyOf(Auth!C4) = 4 /\ Auth!KeyOf(4) = 4
    BY DEF Auth!Boundaries, Auth!Versions, Auth!Continuations, Auth!KeyOf, Auth!C2, Auth!C4, Auth!C14
  <2>2. Auth!Earlier(Auth!C4)
    BY <1>1, <1>8, <2>1
  <2>3. Auth!Earlier(4)
    BY <2>1, <2>2 DEF Auth!Earlier
  <2> QED
    BY <1>1, <2>1, <2>3 DEF Auth!RecordedPhase, Auth!RecordedDone
<1> QED
  BY <1>5, <1>6, <1>7, <1>8 DEF PlansSafe

LEMMA PredecessorsOfC4 == Auth!Predecessors(Auth!C4) => phase[4] = "STOPPED" /\ done[4] = 3
BY DEF Auth!Predecessors, Auth!OriginalOfC4, Auth!Stopped, Auth!C2, Auth!C4, Auth!C14

LEMMA CampaignTypedStep ==
  ASSUME CampaignTyped, Auth!Next \/ UNCHANGED Auth!vars
  PROVE  CampaignTyped'
<1> USE DEF CampaignTyped, PlanPhases, Unopened, Closed, Secrets, Retirements, Auth!SetPhase, Auth!SetRun,
            Auth!Ends
<1>1. ASSUME NEW b \in Auth!Boundaries,
             \/ Auth!Prepare(b) \/ Auth!Approve(b) \/ Auth!WindowOpens(b) \/ Auth!WindowCloses(b)
             \/ Auth!RejectLate(b) \/ Auth!Expire(b) \/ Auth!Stop(b)
      PROVE  CampaignTyped'
  BY <1>1 DEF Auth!Prepare, Auth!Approve, Auth!WindowOpens, Auth!WindowCloses, Auth!RejectLate, Auth!Expire, Auth!Stop
<1>2. ASSUME NEW b \in Auth!Boundaries, Auth!Record(b) PROVE CampaignTyped'
  BY <1>2 DEF Auth!Record
<1>3. ASSUME NEW b \in Auth!Boundaries, Auth!Act(b) PROVE CampaignTyped'
  BY <1>3 DEF Auth!Act
<1>4. ASSUME NEW b \in Auth!Boundaries, Auth!Generate(b) PROVE CampaignTyped'
  <2>1. /\ UNCHANGED <<phase, done, retired, key, binding>>
        /\ lifecycles' = [lifecycles EXCEPT ![Auth!KeyOf(b)] = @ + 1]
    BY <1>4 DEF Auth!Generate
  <2>2. PICK v \in Auth!Versions : v = Auth!KeyOf(b)
    BY KeysAreVersions
  <2>3. lifecycles' = [lifecycles EXCEPT ![v] = lifecycles[v] + 1] /\ lifecycles[v] + 1 \in Nat
    BY <2>1, <2>2
  <2> QED
    BY <2>1, <2>3
<1>5. ASSUME NEW b \in Auth!Boundaries,
             \/ Auth!Dispatch(b) \/ Auth!Proceed(b) \/ Auth!Verify(b) \/ Auth!LateSession(b)
             \/ Auth!Probe(b) \/ Auth!Logout(b) \/ Auth!Die(b) \/ Auth!SessionExpires(b)
      PROVE  UNCHANGED <<phase, done, retired, key, binding, lifecycles>>
  BY <1>5 DEF Auth!Dispatch, Auth!Proceed, Auth!Verify, Auth!LateSession, Auth!Probe, Auth!Logout, Auth!Die, Auth!SessionExpires
<1>6. ASSUME NEW v \in Auth!Versions, Auth!RetireSecrets(v) PROVE CampaignTyped'
  BY <1>6 DEF Auth!RetireSecrets
<1>7. ASSUME NEW v \in Auth!Versions, Auth!RecordRetirement(v) PROVE CampaignTyped'
  BY <1>7 DEF Auth!RecordRetirement
<1>8. Auth!Fallback \/ UNCHANGED Auth!vars => UNCHANGED <<phase, done, retired, key, binding, lifecycles>>
  BY DEF Auth!Fallback, Auth!vars
<1> QED
  BY <1>1, <1>2, <1>3, <1>4, <1>5, <1>6, <1>7, <1>8 DEF Auth!Next

LEMMA PlansStep ==
  ASSUME PlansSafe, AccountIInv, [Auth!Next]_(Auth!vars)
  PROVE  PlansSafe'
<1>0. CampaignMoves /\ CampaignTyped'
  BY CampaignStepMoves, CampaignTypedStep DEF PlansSafe
<1>a. Auth!C4 \in Auth!Boundaries /\ 4 \in Auth!Boundaries /\ Auth!C4 # 4
  BY DEF Auth!C4, Auth!Boundaries, Auth!Versions, Auth!Continuations
<1>b. UNCHANGED stretch => \A b : Auth!Earlier(b)' <=> Auth!Earlier(b)
  BY DEF Auth!Earlier
<1>c. /\ CampaignTyped
      /\ \A b \in Auth!Boundaries :
           /\ Auth!Earlier(b) => phase[b] \in Closed
           /\ phase[b] \in Unopened => run[b].number = 0
           /\ phase[b] = "STOPPED" => ~Auth!Running(b)
      /\ phase[Auth!C4] # "none" => phase[4] = "STOPPED" /\ done[4] = 3
  BY DEF PlansSafe
<1>d. \A b \in Auth!Boundaries : done[b] \in Nat /\ run[b].number \in Nat
  BY <1>c DEF CampaignTyped, AccountIInv, ExecutorsTyped
<1> DEFINE OK(b) == /\ Auth!Earlier(b) => phase[b] \in Closed
                    /\ phase[b] \in Unopened => run[b].number = 0
                    /\ phase[b] = "STOPPED" => ~Auth!Running(b)
<1>e. \A b \in Auth!Boundaries : OK(b)
  BY <1>c
<1>1. ASSUME NEW b \in Auth!Boundaries, PhaseMove(b) PROVE PlansSafe'
  <2>1. \A c \in Auth!Boundaries \ {b} : OK(c)'
    BY <1>1, <1>b, <1>c DEF PhaseMove, Auth!Running
  <2>2. OK(b)'
    BY <1>1, <1>b, <1>c DEF PhaseMove, Auth!Running, Unopened, Closed
  <2>3. phase'[Auth!C4] # "none" => phase'[4] = "STOPPED" /\ done'[4] = 3
    <3>1. phase'[4] = "STOPPED" \/ phase'[4] = phase[4] \/ phase[4] # "STOPPED"
      BY <1>1, <1>a DEF PhaseMove
    <3>2. CASE phase[Auth!C4] # "none"
      BY <1>1, <1>a, <1>c, <3>2 DEF PhaseMove
    <3>3. CASE phase[Auth!C4] = "none" /\ phase'[Auth!C4] # "none"
      <4>1. b = Auth!C4 /\ Auth!Predecessors(b)
        BY <1>1, <1>a, <3>3 DEF PhaseMove
      <4> QED
        BY <1>1, <1>a, <4>1, PredecessorsOfC4 DEF PhaseMove
    <3> QED
      BY <3>2, <3>3
  <2> QED
    BY <1>0, <2>1, <2>2, <2>3 DEF PlansSafe
<1>2. ASSUME NEW b \in Auth!Boundaries, RecordMove(b) PROVE PlansSafe'
  <2>1. \A c \in Auth!Boundaries : OK(c)'
    BY <1>2, <1>b, <1>c DEF RecordMove, Auth!Running, Unopened, Closed
  <2>2. phase'[Auth!C4] # "none" => phase'[4] = "STOPPED" /\ done'[4] = 3
    BY <1>2, <1>a, <1>c DEF RecordMove
  <2> QED
    BY <1>0, <2>1, <2>2 DEF PlansSafe
<1>3. ASSUME NEW b \in Auth!Boundaries, RunMove(b) PROVE PlansSafe'
  <2>1. \A c \in Auth!Boundaries \ {b} : OK(c)'
    BY <1>3, <1>b, <1>c DEF RunMove, Auth!Running
  <2>2. phase[b] \in Unopened => ~Auth!Running(b)
    BY <1>c DEF AccountIInv, Accounted, Auth!Running
  <2>3. OK(b)'
    BY <1>3, <1>b, <1>c, <2>2 DEF RunMove, Auth!Running, Unopened
  <2>4. phase'[Auth!C4] # "none" => phase'[4] = "STOPPED" /\ done'[4] = 3
    BY <1>3, <1>c DEF RunMove
  <2> QED
    BY <1>0, <2>1, <2>3, <2>4 DEF PlansSafe
<1>4. CASE UNCHANGED <<stretch, phase, done, run>>
  <2>1. \A c \in Auth!Boundaries : OK(c)'
    BY <1>4, <1>b, <1>c DEF Auth!Running
  <2> QED
    BY <1>0, <1>4, <1>c, <2>1 DEF PlansSafe
<1> QED
  BY <1>0, <1>1, <1>2, <1>3, <1>4 DEF CampaignMoves, ActMove, RetireMove

-----------------------------------------------------------------------------
(* Lifecycles.                                                              *)

Waiting(b) == run[b].pc \in {"cleared", "authorized"}

\* What stays true of an executor that was cleared: its workflow has run, and
\* between a plan and its continuation, that the other's gate stays shut.
Passed(b) ==
  /\ run[b].number >= 1 /\ b # 2
  /\ b = 4 => done[4] >= 4
  /\ b = Auth!C4 => phase[4] = "STOPPED" /\ done[4] = 3
  /\ b = Auth!C14 => run[14].number >= 1

LifecyclesSafe ==
  /\ \A b \in Auth!Boundaries : Waiting(b) => Passed(b) /\ lifecycles[Auth!KeyOf(b)] = 0
  /\ \A b, c \in Auth!Boundaries :
       Waiting(b) /\ Waiting(c) /\ Auth!KeyOf(b) = Auth!KeyOf(c) => b = c
  /\ \A v \in Auth!Versions :
       /\ lifecycles[v] <= 1
       /\ lifecycles[v] # 0 =>
            Auth!Earlier(v) \/ \E b \in Auth!Boundaries : Auth!KeyOf(b) = v /\ Passed(b)

LEMMA Siblings ==
  ASSUME NEW b \in Auth!Boundaries, NEW c \in Auth!Boundaries, Auth!KeyOf(b) = Auth!KeyOf(c), b # c
  PROVE  \/ b = 2
         \/ c = 2
         \/ b = 4 /\ c = Auth!C4
         \/ b = Auth!C4 /\ c = 4
         \/ b = 14 /\ c = Auth!C14
         \/ b = Auth!C14 /\ c = 14
<1>1. b \in 1..18 /\ c \in 1..18
  BY DEF Auth!Boundaries, Auth!Versions, Auth!Continuations, Auth!C2, Auth!C4, Auth!C14
<1>2. \A d : Auth!KeyOf(d) = IF d = 16 THEN 2 ELSE IF d = 17 THEN 4 ELSE IF d = 18 THEN 14 ELSE d
  BY DEF Auth!KeyOf, Auth!C2, Auth!C4, Auth!C14
<1>3. \/ Auth!KeyOf(b) = b /\ b \notin {16, 17, 18}
      \/ b = 16 /\ Auth!KeyOf(b) = 2
      \/ b = 17 /\ Auth!KeyOf(b) = 4
      \/ b = 18 /\ Auth!KeyOf(b) = 14
  BY <1>2
<1>4. \/ Auth!KeyOf(c) = c /\ c \notin {16, 17, 18}
      \/ c = 16 /\ Auth!KeyOf(c) = 2
      \/ c = 17 /\ Auth!KeyOf(c) = 4
      \/ c = 18 /\ Auth!KeyOf(c) = 14
  BY <1>2
<1> QED
  BY <1>3, <1>4 DEF Auth!C4, Auth!C14

LEMMA EarlierIsOfTheKey ==
  ASSUME NEW b \in Auth!Boundaries
  PROVE  Auth!Earlier(Auth!KeyOf(b)) <=> Auth!Earlier(b)
<1>1. Auth!KeyOf(Auth!KeyOf(b)) = Auth!KeyOf(b)
  BY KeysAreVersions DEF Auth!KeyOf, Auth!Boundaries, Auth!Versions, Auth!Continuations, Auth!C2, Auth!C4, Auth!C14
<1> QED
  BY <1>1 DEF Auth!Earlier

\* At version 4's execution step four steps are done.
LEMMA ExecutionOf4 ==
  ASSUME done[4] \in Nat, Auth!NextStep(4) = "execute"
  PROVE  done[4] = 4
<1>1. Auth!StepsOf(4) = <<"create", "bind", "see", "inspect", "execute", "inspect",
                      "deleteKey", "deleteBinding", "keyAbsent", "bindingAbsent">>
  BY DEF Auth!StepsOf, Auth!LongPlan, Auth!C2, Auth!C4, Auth!C14
<1>2. Len(Auth!StepsOf(4)) = 10
  BY <1>1
<1>3. done[4] < 10 /\ Auth!StepsOf(4)[done[4] + 1] = "execute"
  BY <1>2 DEF Auth!NextStep
<1>4. done[4] + 1 \in 1..10
  BY <1>3
<1> QED
  BY <1>1, <1>3, <1>4

\* A gate that opens is the first with its key.
LEMMA GateIsFirst ==
  ASSUME PlansSafe, AccountIInv, LifecyclesSafe,
         NEW b \in Auth!Boundaries, Auth!Gate(b), run[b].number = 0, NEW c \in Auth!Boundaries,
         Auth!KeyOf(c) = Auth!KeyOf(b)
  PROVE  /\ \/ ~Passed(c)
            \/ b = Auth!C14 /\ c = 14
         /\ ~Waiting(c)
         /\ ~Auth!Earlier(b)
<1>1. /\ phase[b] = "open" /\ Auth!NextStep(b) = "execute" /\ b # 2
      /\ b = Auth!C4 => Auth!OriginalOfC4
      /\ b = Auth!C14 => Auth!OriginalOfC14
  BY GateIsOpen
<1>2. ~Auth!Earlier(b)
  BY <1>1 DEF PlansSafe, Closed
<1>3. done[4] \in Nat
  BY DEF PlansSafe, CampaignTyped, Auth!Boundaries, Auth!Versions
<1>4. CASE c = b
  <2>1. ~Passed(c)
    BY <1>4 DEF Passed
  <2>2. ~Waiting(c)
    BY <1>4, <2>1 DEF LifecyclesSafe
  <2> QED
    BY <1>2, <2>1, <2>2
<1>5. CASE c # b /\ ~(b = Auth!C14 /\ c = 14)
  <2>1. ~Passed(c)
    <3>1. CASE c = 2
      BY <3>1 DEF Passed
    <3>2. CASE b = 4 /\ c = Auth!C4
      BY <1>1, <3>2 DEF Passed
    <3>3. CASE b = Auth!C4 /\ c = 4
      BY <1>1, <1>3, <3>3 DEF Passed, Auth!OriginalOfC4
    <3>4. CASE b = 14 /\ c = Auth!C14
      BY <3>4 DEF Passed
    <3> QED
      BY <1>1, <1>5, <3>1, <3>2, <3>3, <3>4, Siblings
  <2> QED
    BY <1>2, <2>1 DEF LifecyclesSafe
<1>6. CASE b = Auth!C14 /\ c = 14
  <2>1. run[14].report = "refused"
    BY <1>1, <1>6 DEF Auth!OriginalOfC14
  <2>2. run[14].pc = "ended"
    BY <1>6, <2>1 DEF AccountIInv, Accounted
  <2> QED
    BY <1>2, <1>6, <2>2 DEF Waiting
<1> QED
  BY <1>4, <1>5, <1>6

LEMMA LifecyclesStart == Auth!Init => LifecyclesSafe
BY DEF Auth!Init, LifecyclesSafe, Waiting, Auth!NoRun

\* What a cleared executor leaves true stays true.
LEMMA PassedStays ==
  ASSUME PlansSafe, AccountIInv, CampaignMoves, NEW b \in Auth!Boundaries, Passed(b)
  PROVE  Passed(b)'
<1>a. 4 \in Auth!Boundaries /\ 14 \in Auth!Boundaries
  BY DEF Auth!Boundaries, Auth!Versions
<1>b. \A c \in Auth!Boundaries : run[c].number \in Nat /\ done[c] \in Nat
  BY DEF PlansSafe, CampaignTyped, AccountIInv, ExecutorsTyped
<1>2. \/ done'[4] = done[4]
      \/ done'[4] = done[4] + 1 /\ phase[4] = "open"
  BY <1>a DEF CampaignMoves, PhaseMove, RecordMove, ActMove, RetireMove, RunMove
<1>3. phase[4] = "STOPPED" => phase'[4] = "STOPPED"
  BY <1>a DEF CampaignMoves, PhaseMove, RecordMove, ActMove, RetireMove, RunMove
<1>4. \A c \in Auth!Boundaries : run[c].number >= 1 => run'[c].number >= 1
  <2>1. ASSUME NEW c \in Auth!Boundaries, run[c].number >= 1 PROVE run'[c].number >= 1
    <3>1. run'[c] = run[c] \/ run'[c].number = run[c].number
            \/ run'[c].number = run[c].number + 1 \/ run'[c].number = 1
      BY DEF CampaignMoves, PhaseMove, RecordMove, ActMove, RetireMove, RunMove
    <3> QED
      BY <1>b, <2>1, <3>1
  <2> QED
    BY <2>1
<1> QED
  BY <1>a, <1>b, <1>2, <1>3, <1>4 DEF Passed

LEMMA LifecyclesStep ==
  ASSUME PlansSafe, AccountIInv, LifecyclesSafe, [Auth!Next]_(Auth!vars)
  PROVE  LifecyclesSafe'
<1>0. CampaignMoves /\ (\A v : Auth!Earlier(v)' <=> Auth!Earlier(v))
  <2>1. CampaignMoves
    BY CampaignStepMoves DEF PlansSafe
  <2>2. UNCHANGED stretch
    BY <2>1 DEF CampaignMoves, PhaseMove, RecordMove, ActMove, RetireMove, RunMove
  <2> QED
    BY <2>1, <2>2 DEF Auth!Earlier
<1>a. \A v \in Auth!Versions :
        /\ lifecycles[v] \in Nat /\ lifecycles[v] <= 1
        /\ lifecycles[v] # 0 =>
             Auth!Earlier(v) \/ \E c \in Auth!Boundaries : Auth!KeyOf(c) = v /\ Passed(c)
  BY DEF LifecyclesSafe, PlansSafe, CampaignTyped
<1>b. \A c \in Auth!Boundaries : Passed(c) => Passed(c)'
  BY <1>0, PassedStays
<1>1. CASE UNCHANGED <<run, lifecycles>>
  <2>1. \A c \in Auth!Boundaries : Waiting(c)' <=> Waiting(c)
    BY <1>1 DEF Waiting
  <2>2. \A c \in Auth!Boundaries : Waiting(c)' => Passed(c)' /\ lifecycles'[Auth!KeyOf(c)] = 0
    BY <1>1, <1>b, <2>1 DEF LifecyclesSafe
  <2>3. \A c, d \in Auth!Boundaries : Waiting(c)' /\ Waiting(d)' /\ Auth!KeyOf(c) = Auth!KeyOf(d) => c = d
    BY <2>1 DEF LifecyclesSafe
  <2>4. \A v \in Auth!Versions :
          /\ lifecycles'[v] <= 1
          /\ lifecycles'[v] # 0 =>
               Auth!Earlier(v)' \/ \E c \in Auth!Boundaries : Auth!KeyOf(c) = v /\ Passed(c)'
    BY <1>0, <1>1, <1>a, <1>b
  <2> QED
    BY <2>2, <2>3, <2>4 DEF LifecyclesSafe
<1>2. ASSUME NEW b \in Auth!Boundaries, RunMove(b) PROVE LifecyclesSafe'
  <2>0. \A c \in Auth!Boundaries \ {b} : Waiting(c)' <=> Waiting(c)
    BY <1>2 DEF RunMove, Waiting
  <2>1. CASE UNCHANGED lifecycles /\ (Waiting(b)' => Waiting(b))
    <3>1. \A c \in Auth!Boundaries : Waiting(c)' => Waiting(c)
      BY <2>0, <2>1
    <3>2. \A c \in Auth!Boundaries : Waiting(c)' => Passed(c)' /\ lifecycles'[Auth!KeyOf(c)] = 0
      BY <1>b, <2>1, <3>1 DEF LifecyclesSafe
    <3>3. \A c, d \in Auth!Boundaries :
            Waiting(c)' /\ Waiting(d)' /\ Auth!KeyOf(c) = Auth!KeyOf(d) => c = d
      BY <3>1 DEF LifecyclesSafe
    <3>4. \A v \in Auth!Versions :
            /\ lifecycles'[v] <= 1
            /\ lifecycles'[v] # 0 =>
                 Auth!Earlier(v)' \/ \E c \in Auth!Boundaries : Auth!KeyOf(c) = v /\ Passed(c)'
      BY <1>0, <1>a, <1>b, <2>1
    <3> QED
      BY <3>2, <3>3, <3>4 DEF LifecyclesSafe
  <2>2. CASE /\ Auth!Gate(b) /\ run[b].number = 0 /\ run'[b].number = 1
             /\ UNCHANGED <<phase, done, lifecycles>>
             /\ \A c \in Auth!Boundaries \ {b} : run'[c] = run[c]
    <3>1. /\ Auth!NextStep(b) = "execute" /\ b # 2
          /\ b = Auth!C4 => Auth!OriginalOfC4
          /\ b = Auth!C14 => Auth!OriginalOfC14
      BY <2>2, GateIsOpen
    <3>2. \A c \in Auth!Boundaries : Auth!KeyOf(c) = Auth!KeyOf(b) =>
            /\ \/ ~Passed(c)
               \/ b = Auth!C14 /\ c = 14
            /\ ~Waiting(c)
            /\ ~Auth!Earlier(b)
      BY <2>2, GateIsFirst
    <3>a. 14 \in Auth!Boundaries /\ 14 # Auth!C14 /\ 4 \in Auth!Boundaries /\ done[4] \in Nat
      BY DEF Auth!Boundaries, Auth!Versions, Auth!C14, PlansSafe, CampaignTyped
    <3>3. Passed(b)'
      <4>1. b = 4 => done[4] = 4
        BY <3>1, <3>a, ExecutionOf4
      <4>2. b = Auth!C4 => phase[4] = "STOPPED" /\ done[4] = 3
        BY <3>1 DEF Auth!OriginalOfC4, Auth!Stopped
      <4>3. b = Auth!C14 => run[14].number >= 1
        BY <3>1, <3>a DEF Auth!OriginalOfC14, AccountIInv, ExecutorsTyped, Accounted
      <4> QED
        BY <2>2, <3>1, <3>a, <4>1, <4>2, <4>3 DEF Passed
    <3>4. lifecycles[Auth!KeyOf(b)] = 0
      <4>1. SUFFICES ASSUME lifecycles[Auth!KeyOf(b)] # 0 PROVE FALSE
        OBVIOUS
      <4>2. Auth!KeyOf(b) \in Auth!Versions /\ ~Auth!Earlier(Auth!KeyOf(b))
        BY <3>2, KeysAreVersions, EarlierIsOfTheKey
      <4>3. PICK c \in Auth!Boundaries : Auth!KeyOf(c) = Auth!KeyOf(b) /\ Passed(c)
        BY <1>a, <4>1, <4>2
      <4>4. b = Auth!C14
        BY <3>2, <4>3
      <4>5. Auth!KeyOf(b) = 14 /\ lifecycles[14] = 0
        BY <3>1, <4>4 DEF Auth!OriginalOfC14, Auth!KeyOf, Auth!C2, Auth!C4, Auth!C14
      <4> QED
        BY <4>1, <4>5
    <3>5. \A c \in Auth!Boundaries : Waiting(c)' => Passed(c)' /\ lifecycles'[Auth!KeyOf(c)] = 0
      BY <1>b, <2>0, <2>2, <3>3, <3>4 DEF LifecyclesSafe
    <3>6. \A c, d \in Auth!Boundaries :
            Waiting(c)' /\ Waiting(d)' /\ Auth!KeyOf(c) = Auth!KeyOf(d) => c = d
      BY <2>0, <3>2 DEF LifecyclesSafe
    <3>7. \A v \in Auth!Versions :
            /\ lifecycles'[v] <= 1
            /\ lifecycles'[v] # 0 =>
                 Auth!Earlier(v)' \/ \E c \in Auth!Boundaries : Auth!KeyOf(c) = v /\ Passed(c)'
      BY <1>0, <1>a, <1>b, <2>2
    <3> QED
      BY <3>5, <3>6, <3>7 DEF LifecyclesSafe
  <2>3. CASE /\ run[b].pc = "authorized" /\ run'[b].pc \in {"generated", "ended"}
             /\ lifecycles' = [lifecycles EXCEPT ![Auth!KeyOf(b)] = @ + 1]
    <3>1. Waiting(b) /\ ~Waiting(b)'
      BY <2>3 DEF Waiting
    <3>2. Passed(b) /\ lifecycles[Auth!KeyOf(b)] = 0 /\ Auth!KeyOf(b) \in Auth!Versions
      BY <3>1, KeysAreVersions DEF LifecyclesSafe
    <3>3. PICK k \in Auth!Versions : k = Auth!KeyOf(b) /\ lifecycles[k] = 0
      BY <3>2
    <3>4. lifecycles' = [lifecycles EXCEPT ![k] = lifecycles[k] + 1]
      BY <2>3, <3>3
    <3>5. /\ lifecycles'[k] = 1
          /\ \A v \in Auth!Versions \ {k} : lifecycles'[v] = lifecycles[v]
      BY <3>3, <3>4 DEF PlansSafe, CampaignTyped
    <3>6. ASSUME NEW c \in Auth!Boundaries, Waiting(c)'
          PROVE  Passed(c)' /\ lifecycles'[Auth!KeyOf(c)] = 0
      <4>1. c # b /\ Waiting(c)
        BY <2>0, <3>1, <3>6
      <4>2. Auth!KeyOf(c) # k
        BY <3>1, <3>3, <4>1 DEF LifecyclesSafe
      <4>3. Auth!KeyOf(c) \in Auth!Versions
        BY KeysAreVersions
      <4> QED
        BY <1>b, <3>5, <4>1, <4>2, <4>3 DEF LifecyclesSafe
    <3>7. \A c, d \in Auth!Boundaries :
            Waiting(c)' /\ Waiting(d)' /\ Auth!KeyOf(c) = Auth!KeyOf(d) => c = d
      BY <2>0, <3>1 DEF LifecyclesSafe
    <3>8. ASSUME NEW v \in Auth!Versions
          PROVE  /\ lifecycles'[v] <= 1
                 /\ lifecycles'[v] # 0 =>
                      Auth!Earlier(v)' \/ \E c \in Auth!Boundaries : Auth!KeyOf(c) = v /\ Passed(c)'
      <4>1. CASE v = k
        <5>1. Auth!KeyOf(b) = v /\ Passed(b)'
          BY <1>b, <3>2, <3>3, <4>1
        <5>2. lifecycles'[v] = 1
          BY <3>5, <4>1
        <5> QED
          BY <5>1, <5>2
      <4>2. CASE v # k
        BY <1>0, <1>a, <1>b, <3>5, <4>2
      <4> QED
        BY <4>1, <4>2
    <3> QED
      BY <3>6, <3>7, <3>8 DEF LifecyclesSafe
  <2>4. \/ UNCHANGED lifecycles /\ (Waiting(b)' => Waiting(b))
        \/ /\ Auth!Gate(b) /\ run[b].number = 0 /\ run'[b].number = 1
           /\ UNCHANGED <<phase, done, lifecycles>>
           /\ \A c \in Auth!Boundaries \ {b} : run'[c] = run[c]
        \/ /\ run[b].pc = "authorized" /\ run'[b].pc \in {"generated", "ended"}
           /\ lifecycles' = [lifecycles EXCEPT ![Auth!KeyOf(b)] = @ + 1]
    <3>1. Waiting(b)' <=> run'[b].pc \in {"cleared", "authorized"}
      BY DEF Waiting
    <3>2. Waiting(b) <=> run[b].pc \in {"cleared", "authorized"}
      BY DEF Waiting
    <3>3. run'[b].pc = "cleared" \/ run'[b].pc # "cleared"
      OBVIOUS
    <3>4. run'[b].pc \in ExecutorPCs
      BY AccountStep DEF AccountIInv, ExecutorsTyped
    <3> QED
      BY <1>2, <3>1, <3>2, <3>4 DEF RunMove, ExecutorPCs, Sessionless, InSession
  <2> QED
    BY <2>1, <2>2, <2>3, <2>4
<1> QED
  BY <1>0, <1>1, <1>2 DEF CampaignMoves, PhaseMove, RecordMove, ActMove, RetireMove

\* One key sees at most one lifecycle: whatever the stretch of the campaign,
\* over repeated runs of a workflow and over a plan and its continuation.
THEOREM OneLifecyclePerKeyHolds == Auth!Spec => []OneLifecyclePerKey
<1>1. Auth!Init => AccountIInv /\ PlansSafe /\ LifecyclesSafe
  BY AccountInit, PlansStart, LifecyclesStart
<1>2. AccountIInv /\ PlansSafe /\ LifecyclesSafe /\ [Auth!Next]_(Auth!vars)
        => (AccountIInv /\ PlansSafe /\ LifecyclesSafe)'
  BY AccountStep, PlansStep, LifecyclesStep
<1>3. LifecyclesSafe => OneLifecyclePerKey
  BY DEF LifecyclesSafe, OneLifecyclePerKey, Auth!OneLifecyclePerKey
<1> QED
  BY <1>1, <1>2, <1>3, PTL DEF Auth!Spec

-----------------------------------------------------------------------------
(* What a version leaves behind.                                            *)

\* The versions of the chain that versions 7 to 14 look back at.
Chain == {4} \cup 6..13

\* The key and binding of a plan that never opened, or closed untouched, were
\* never made; and retirement is recorded of what has stopped, in its order.
SecretsSafe ==
  \A u \in Chain :
    /\ u # 4 /\ phase[u] \in Unopened => key[u] = "none"
    /\ key[u] = "none" => binding[u] = "none"
    /\ retired[u] # "none" => phase[u] = "STOPPED" /\ key[u] # "live"
    /\ Auth!Retired(u) => binding[u] # "live"

LEMMA ChainMembers ==
  ASSUME NEW u \in Chain
  PROVE  /\ u \in Auth!Versions /\ u \in Auth!Boundaries /\ Auth!KeyOf(u) = u
         /\ \A b \in Auth!Boundaries : Auth!KeyOf(b) = u => b = u \/ (b = Auth!C4 /\ u = 4)
<1>1. u \in Auth!Versions /\ u \in Auth!Boundaries /\ Auth!KeyOf(u) = u /\ u \notin {2, 14}
  BY DEF Chain, Auth!Versions, Auth!Boundaries, Auth!KeyOf, Auth!C2, Auth!C4, Auth!C14
<1>2. Auth!C14 # u /\ Auth!C4 # u
  BY DEF Chain, Auth!C4, Auth!C14
<1>3. ASSUME NEW b \in Auth!Boundaries, Auth!KeyOf(b) = u, b # u PROVE b = Auth!C4 /\ u = 4
  <2>1. b # 2
    BY <1>1, <1>3 DEF Auth!KeyOf, Auth!C2, Auth!C4, Auth!C14
  <2>2. b # 4 /\ b # 14
    BY <1>1, <1>3 DEF Auth!KeyOf, Auth!C2, Auth!C4, Auth!C14
  <2> QED
    BY <1>1, <1>2, <1>3, <2>1, <2>2, Siblings
<1> QED
  BY <1>1, <1>3

\* The continuation of version 4 neither makes a key nor binds one.
LEMMA StepsOfC4 == CampaignTyped => Auth!NextStep(Auth!C4) \notin {"create", "bind"}
<1> SUFFICES ASSUME CampaignTyped PROVE Auth!NextStep(Auth!C4) \notin {"create", "bind"}
  OBVIOUS
<1>0. done[Auth!C4] \in Nat
  BY DEF CampaignTyped, Auth!Boundaries, Auth!Continuations
<1>1. Auth!StepsOf(Auth!C4) = SubSeq(Auth!LongPlan, 5, 6)
  BY DEF Auth!StepsOf, Auth!C2, Auth!C4, Auth!C14
<1>2. Auth!LongPlan \in Seq({"create", "bind", "see", "inspect", "execute", "deleteKey",
                        "deleteBinding", "keyAbsent", "bindingAbsent"}) /\ Len(Auth!LongPlan) = 10
  BY DEF Auth!LongPlan
<1>3. /\ Len(SubSeq(Auth!LongPlan, 5, 6)) = 2
      /\ \A i \in 1..2 : SubSeq(Auth!LongPlan, 5, 6)[i] = Auth!LongPlan[5 + i - 1]
  BY <1>2, SubSeqProperties
<1>4. Auth!LongPlan[5] = "execute" /\ Auth!LongPlan[6] = "inspect"
  BY DEF Auth!LongPlan
<1>5. SubSeq(Auth!LongPlan, 5, 6)[1] = "execute" /\ SubSeq(Auth!LongPlan, 5, 6)[2] = "inspect"
  BY <1>3, <1>4
<1>6. PICK s : s = SubSeq(Auth!LongPlan, 5, 6)
  OBVIOUS
<1>7. Auth!NextStep(Auth!C4) = IF done[Auth!C4] < 2 THEN s[done[Auth!C4] + 1] ELSE "none"
  BY <1>1, <1>3, <1>6 DEF Auth!NextStep
<1>8. s[1] = "execute" /\ s[2] = "inspect"
  BY <1>5, <1>6
<1>9. done[Auth!C4] = 0 \/ done[Auth!C4] = 1 \/ ~(done[Auth!C4] < 2)
  BY <1>0
<1> QED
  BY <1>7, <1>8, <1>9

LEMMA SecretsStart == Auth!Init => SecretsSafe
<1> SUFFICES ASSUME Auth!Init, NEW u \in Chain
             PROVE  /\ u # 4 /\ phase[u] \in Unopened => key[u] = "none"
                    /\ key[u] = "none" => binding[u] = "none"
                    /\ retired[u] # "none" => phase[u] = "STOPPED" /\ key[u] # "live"
                    /\ Auth!Retired(u) => binding[u] # "live"
  BY DEF SecretsSafe
<1>1. u \in Auth!Versions /\ u \in Auth!Boundaries
  BY ChainMembers
<1>2. /\ phase[u] = IF Auth!Earlier(u) THEN Auth!RecordedPhase(u) ELSE "none"
      /\ retired[u] = IF Auth!Earlier(u) THEN Auth!RecordedRetirement(u) ELSE "none"
      /\ key[u] = IF Auth!Earlier(u) /\ Auth!RecordedDone(u) >= 1 THEN "gone" ELSE "none"
      /\ binding[u] = IF Auth!Earlier(u) /\ Auth!RecordedDone(u) >= 2 THEN "gone" ELSE "none"
  BY <1>1 DEF Auth!Init
<1>3. /\ u \in {4, 6, 8, 9, 10} => Auth!RecordedPhase(u) = "STOPPED" /\ Auth!RecordedDone(u) >= 1
      /\ u \in {7, 11, 12, 13} => Auth!RecordedRetirement(u) = "none" /\ Auth!RecordedDone(u) = 0
  BY DEF Auth!RecordedPhase, Auth!RecordedDone, Auth!RecordedRetirement, Auth!Continuations, Auth!C2, Auth!C4, Auth!C14
<1>4. u \in {4, 6, 8, 9, 10} \/ u \in {7, 11, 12, 13}
  BY DEF Chain
<1>5. Auth!RecordedDone(u) \in Nat
  BY DEF Auth!RecordedDone
<1> QED
  BY <1>2, <1>3, <1>4, <1>5 DEF Unopened, Auth!Retired

LEMMA SecretsStep ==
  ASSUME PlansSafe, AccountIInv, SecretsSafe, [Auth!Next]_(Auth!vars)
  PROVE  SecretsSafe'
<1> DEFINE Kept(u) == /\ u # 4 /\ phase[u] \in Unopened => key[u] = "none"
                      /\ key[u] = "none" => binding[u] = "none"
                      /\ retired[u] # "none" => phase[u] = "STOPPED" /\ key[u] # "live"
                      /\ Auth!Retired(u) => binding[u] # "live"
<1>0. CampaignMoves
  BY CampaignStepMoves DEF PlansSafe
<1> SUFFICES ASSUME NEW u \in Chain PROVE Kept(u)'
  BY DEF SecretsSafe
<1>a. /\ Kept(u) /\ u \in Auth!Versions /\ u \in Auth!Boundaries /\ Auth!KeyOf(u) = u
      /\ \A b \in Auth!Boundaries : Auth!KeyOf(b) = u => b = u \/ (b = Auth!C4 /\ u = 4)
  BY ChainMembers DEF SecretsSafe
<1>1. ASSUME NEW b \in Auth!Boundaries, PhaseMove(b) PROVE Kept(u)'
  <2>1. /\ key' = key /\ binding' = binding /\ retired' = retired
        /\ phase[u] = "STOPPED" => phase'[u] = "STOPPED"
    BY <1>1, <1>a DEF PhaseMove
  <2>2. phase'[u] \in Unopened => phase[u] \in Unopened \/ key[u] = "none"
    BY <1>1, <1>a DEF PhaseMove, Unopened
  <2> QED
    BY <1>a, <2>1, <2>2 DEF Auth!Retired
<1>2. ASSUME NEW b \in Auth!Boundaries, RecordMove(b) PROVE Kept(u)'
  BY <1>2, <1>a DEF RecordMove, Auth!Retired, Unopened
<1>3. ASSUME NEW b \in Auth!Boundaries, ActMove(b) PROVE Kept(u)'
  <2>1. CASE Auth!KeyOf(b) # u
    BY <1>3, <1>a, <2>1 DEF ActMove, Auth!Retired
  <2>2. CASE b = u
    <3>1. phase[u] = "open" /\ phase' = phase /\ retired' = retired
      BY <1>3, <2>2 DEF ActMove
    <3>2. retired[u] = "none" /\ phase'[u] \notin Unopened
      BY <1>a, <3>1 DEF Unopened
    <3>3. key'[u] = "none" => binding'[u] = "none"
      BY <1>3, <1>a, <2>2 DEF ActMove
    <3> QED
      BY <3>1, <3>2, <3>3 DEF Auth!Retired
  <2>3. CASE b = Auth!C4 /\ u = 4
    <3>1. Auth!NextStep(b) \notin {"create", "bind"}
      BY <2>3, StepsOfC4 DEF PlansSafe
    <3>2. /\ phase' = phase /\ retired' = retired
          /\ key'[u] \in {key[u], "gone"} /\ binding'[u] \in {binding[u], "gone"}
          /\ binding'[u] = "gone" /\ binding[u] # "gone" => binding[u] = "live"
      BY <1>3, <1>a, <2>3, <3>1 DEF ActMove, Auth!KeyOf, Auth!C2, Auth!C4, Auth!C14
    <3> QED
      BY <1>a, <2>3, <3>2 DEF Auth!Retired
  <2> QED
    BY <1>a, <2>1, <2>2, <2>3
<1>4. ASSUME NEW b \in Auth!Boundaries, RunMove(b) PROVE Kept(u)'
  BY <1>4, <1>a DEF RunMove, Auth!Retired
<1>5. ASSUME NEW v \in Auth!Versions, RetireMove(v) PROVE Kept(u)'
  <2>1. CASE v # u
    BY <1>5, <1>a, <2>1 DEF RetireMove, Auth!Retired
  <2>2. CASE v = u
    <3>1. phase[u] = "STOPPED"
      <4>1. Auth!Retirable(u)
        BY <1>5, <2>2 DEF RetireMove
      <4>2. ASSUME NEW c \in Auth!Continuations, Auth!KeyOf(c) = u, Auth!Stopped(c) PROVE phase[u] = "STOPPED"
        <5>1. c \in Auth!Boundaries /\ c # u
          BY <1>a DEF Auth!Boundaries, Auth!Continuations, Auth!Versions, Auth!C2, Auth!C4, Auth!C14
        <5>2. c = Auth!C4 /\ u = 4
          BY <1>a, <4>2, <5>1
        <5> QED
          BY <4>2, <5>2 DEF PlansSafe, Auth!Stopped
      <4> QED
        BY <4>1, <4>2 DEF Auth!Retirable, Auth!Stopped
    <3>2. /\ phase' = phase
          /\ key'[u] \in {key[u], "gone"} /\ binding'[u] \in {binding[u], "gone"}
          /\ binding'[u] # binding[u] => binding[u] = "live"
          /\ \/ retired'[u] = retired[u]
             \/ /\ key'[u] = key[u] /\ binding'[u] = binding[u]
                /\ \/ retired[u] = "none" /\ key[u] # "live" /\ retired'[u] = "begun"
                   \/ retired[u] = "begun" /\ retired'[u] = "lapsed"
                   \/ /\ retired[u] \in {"begun", "lapsed", "once", "twice"}
                      /\ binding[u] # "live"
                      /\ retired'[u] \in {"once", "twice", "reconciled"}
      BY <1>5, <2>2 DEF RetireMove
    <3>3. phase'[u] \notin Unopened
      BY <3>1, <3>2 DEF Unopened
    <3>4. key'[u] = "none" => binding'[u] = "none"
      BY <1>a, <3>2
    <3>5. retired'[u] # "none" => key'[u] # "live"
      BY <1>a, <3>2
    <3>6. Auth!Retired(u)' => binding'[u] # "live"
      BY <1>a, <3>2 DEF Auth!Retired
    <3> QED
      BY <3>1, <3>2, <3>3, <3>4, <3>5, <3>6
  <2> QED
    BY <2>1, <2>2
<1>6. CASE UNCHANGED <<stretch, phase, done, retired, key, binding, run, lifecycles>>
  BY <1>6, <1>a DEF Auth!Retired
<1> QED
  BY <1>0, <1>1, <1>2, <1>3, <1>4, <1>5, <1>6 DEF CampaignMoves

\* How the versions of the chain ended.
Settled(u) ==
  \/ u \in {6, 8, 9, 10} /\ phase[u] = "STOPPED" /\ Auth!Retired(u)
  \/ u \in {7, 11, 12} /\ phase[u] = "REJECTED_LATE"
  \/ u = 13 /\ phase[u] = "EXPIRED"

\* All of what a version of the chain looks back at.
Behind(v) == retired[4] = "reconciled" /\ \A u \in 6..(v - 1) : Settled(u)

BehindSafe == \A v \in 7..14 : Auth!Running(v) => Behind(v)

LEMMA SettledIsGone ==
  ASSUME PlansSafe, AccountIInv, SecretsSafe, NEW u \in 6..13, Settled(u)
  PROVE  key[u] # "live" /\ binding[u] # "live" /\ ~Auth!Running(u)
<1>1. u \in Chain /\ u \in Auth!Boundaries /\ u # 4
  BY DEF Chain, Auth!Boundaries, Auth!Versions
<1>2. CASE phase[u] = "STOPPED" /\ Auth!Retired(u)
  BY <1>1, <1>2 DEF SecretsSafe, PlansSafe, Auth!Retired
<1>3. CASE phase[u] \in Unopened
  <2>1. key[u] = "none" /\ binding[u] = "none" /\ run[u].number = 0
    BY <1>1, <1>3 DEF SecretsSafe, PlansSafe
  <2> QED
    BY <1>1, <2>1 DEF AccountIInv, Accounted, Auth!Running
<1> QED
  BY <1>2, <1>3 DEF Settled, Unopened

LEMMA SettledStays ==
  ASSUME CampaignMoves, NEW u \in 6..13, Settled(u)
  PROVE  Settled(u)'
<1>1. u \in Auth!Versions /\ u \in Auth!Boundaries
  BY DEF Auth!Boundaries, Auth!Versions
<1>2. ASSUME phase[u] \in {"STOPPED", "REJECTED_LATE", "EXPIRED"} PROVE phase'[u] = phase[u]
  BY <1>1, <1>2 DEF CampaignMoves, PhaseMove, RecordMove, ActMove, RetireMove, RunMove
<1>3. Auth!Retired(u) => Auth!Retired(u)'
  BY <1>1 DEF CampaignMoves, PhaseMove, RecordMove, ActMove, RetireMove, RunMove, Auth!Retired
<1> QED
  BY <1>2, <1>3 DEF Settled

LEMMA BehindStays ==
  ASSUME CampaignMoves, NEW v \in 7..14, Behind(v)
  PROVE  Behind(v)'
<1>1. 4 \in Auth!Versions
  BY DEF Auth!Versions
<1>2. retired'[4] = "reconciled"
  BY <1>1 DEF CampaignMoves, PhaseMove, RecordMove, ActMove, RetireMove, RunMove, Behind
<1>3. \A u \in 6..(v - 1) : u \in 6..13
  OBVIOUS
<1> QED
  BY <1>2, <1>3, SettledStays DEF Behind

\* A gate of the chain finds everything before it settled.
LEMMA GateLooksBack ==
  ASSUME NEW v \in 7..14, Auth!Gate(v)
  PROVE  Behind(v)
<1>1. \/ v = 7 /\ Auth!PredecessorsV7
      \/ v = 8 /\ Auth!PredecessorsV8
      \/ v = 9 /\ Auth!PredecessorsV9
      \/ v = 10 /\ Auth!PredecessorsV10
      \/ v = 11 /\ Auth!PredecessorsV11
      \/ v = 12 /\ Auth!PredecessorsV12
      \/ v = 13 /\ Auth!PredecessorsV13
      \/ v = 14 /\ Auth!PredecessorsV14
  <2>1. v \in {7, 8, 9, 10, 11, 12, 13, 14}
    OBVIOUS
  <2>2. v = 7 => Auth!PredecessorsV7
    BY DEF Auth!Gate, Auth!GateV7, Auth!BoundaryV7, Auth!C2, Auth!C4, Auth!C14
  <2>3. v = 8 => Auth!PredecessorsV8
    BY DEF Auth!Gate, Auth!GateV8, Auth!BoundaryV8, Auth!C2, Auth!C4, Auth!C14
  <2>4. v = 9 => Auth!PredecessorsV9
    BY DEF Auth!Gate, Auth!GateV9, Auth!BoundaryV9, Auth!C2, Auth!C4, Auth!C14
  <2>5. v = 10 => Auth!PredecessorsV10
    BY DEF Auth!Gate, Auth!GateV10, Auth!BoundaryV10, Auth!C2, Auth!C4, Auth!C14
  <2>6. v = 11 => Auth!PredecessorsV11
    BY DEF Auth!Gate, Auth!GateV11, Auth!BoundaryV11, Auth!C2, Auth!C4, Auth!C14
  <2>7. v = 12 => Auth!PredecessorsV12
    BY DEF Auth!Gate, Auth!GateV12, Auth!BoundaryV12, Auth!C2, Auth!C4, Auth!C14
  <2>8. v = 13 => Auth!PredecessorsV13
    BY DEF Auth!Gate, Auth!GateV13, Auth!BoundaryV13, Auth!C2, Auth!C4, Auth!C14
  <2>9. v = 14 => Auth!PredecessorsV14
    BY DEF Auth!Gate, Auth!GateV14, Auth!BoundaryV14, Auth!C2, Auth!C4, Auth!C14
  <2> QED
    BY <2>1, <2>2, <2>3, <2>4, <2>5, <2>6, <2>7, <2>8, <2>9
<1> USE DEF Auth!PredecessorsV14, Auth!PredecessorsV13, Auth!PredecessorsV12, Auth!PredecessorsV11,
            Auth!PredecessorsV10, Auth!PredecessorsV9, Auth!PredecessorsV8, Auth!PredecessorsV7,
            Auth!Stopped, Auth!RejectedLate, Auth!ExpiredUnexecuted
<1>2. retired[4] = "reconciled" /\ Settled(6)
  BY <1>1 DEF Settled
<1>3. v >= 8 => Settled(7)
  BY <1>1 DEF Settled
<1>4. v >= 9 => Settled(8)
  BY <1>1 DEF Settled
<1>5. v >= 10 => Settled(9)
  BY <1>1 DEF Settled
<1>6. v >= 11 => Settled(10)
  BY <1>1 DEF Settled, Auth!Retired
<1>7. v >= 12 => Settled(11)
  BY <1>1 DEF Settled
<1>8. v >= 13 => Settled(12)
  BY <1>1 DEF Settled
<1>9. v >= 14 => Settled(13)
  BY <1>1 DEF Settled
<1>10. ASSUME NEW u \in 6..(v - 1) PROVE Settled(u)
  <2>1. u \in {6, 7, 8, 9, 10, 11, 12, 13} /\ v > u
    OBVIOUS
  <2> QED
    BY <2>1, <1>2, <1>3, <1>4, <1>5, <1>6, <1>7, <1>8, <1>9
<1> QED
  BY <1>2, <1>10 DEF Behind

LEMMA BehindStep ==
  ASSUME PlansSafe, AccountIInv, BehindSafe, [Auth!Next]_(Auth!vars)
  PROVE  BehindSafe'
<1>0. CampaignMoves
  BY CampaignStepMoves DEF PlansSafe
<1> SUFFICES ASSUME NEW v \in 7..14, Auth!Running(v)' PROVE Behind(v)'
  BY DEF BehindSafe
<1>a. v \in Auth!Boundaries
  BY DEF Auth!Boundaries, Auth!Versions
<1>1. CASE Auth!Running(v)
  BY <1>0, <1>1, BehindStays DEF BehindSafe
<1>2. CASE ~Auth!Running(v)
  <2>1. run'[v] # run[v]
    BY <1>2 DEF Auth!Running
  <2>2. RunMove(v)
    BY <1>0, <1>a, <2>1 DEF CampaignMoves, PhaseMove, RecordMove, ActMove, RetireMove, RunMove
  <2>3. Auth!Gate(v)
    BY <1>2, <2>2 DEF RunMove, Auth!Running
  <2> QED
    BY <1>0, <2>3, GateLooksBack, BehindStays
<1> QED
  BY <1>1, <1>2

\* While a version of the chain runs, version 4's binding is not in force, nor is
\* anything of the versions from 6 to the one before it: each gate's checks, made
\* of files, hold for what the provider has as well.
THEOREM PredecessorsGoneHolds == Auth!Spec => []PredecessorsGone
<1> DEFINE CampaignSafe == AccountIInv /\ PlansSafe /\ SecretsSafe /\ BehindSafe
<1>1. Auth!Init => CampaignSafe
  <2>1. Auth!Init => BehindSafe
    BY DEF Auth!Init, BehindSafe, Auth!Running, Auth!NoRun, Auth!Boundaries, Auth!Versions
  <2> QED
    BY <2>1, AccountInit, PlansStart, SecretsStart
<1>2. CampaignSafe /\ [Auth!Next]_(Auth!vars) => CampaignSafe'
  BY AccountStep, PlansStep, SecretsStep, BehindStep
<1>3. CampaignSafe => PredecessorsGone
  <2> SUFFICES ASSUME CampaignSafe, NEW v \in 7..14, Auth!Running(v)
               PROVE  /\ binding[4] # "live"
                      /\ \A u \in 6..(v - 1) :
                           key[u] # "live" /\ binding[u] # "live" /\ ~Auth!Running(u)
    BY DEF PredecessorsGone, Auth!PredecessorsGone
  <2>1. Behind(v)
    BY DEF BehindSafe
  <2>2. \A u \in 6..(v - 1) : u \in 6..13 /\ Settled(u)
    BY <2>1 DEF Behind
  <2>3. binding[4] # "live"
    BY <2>1 DEF Behind, SecretsSafe, Chain, Auth!Retired
  <2> QED
    BY <2>2, <2>3, SettledIsGone
<1> HIDE DEF CampaignSafe
<1> QED
  BY <1>1, <1>2, <1>3, PTL DEF Auth!Spec
-----------------------------------------------------------------------------
(* The token validation runs.                                              *)

\* The steps a run can be at.
RunPCs ==
  {"none", "preflight", "generate", "linked", "consume", "issued", "logout",
   "confirm", "validate", "rescue", "rescueLogout", "rescueConfirm", "ended"}

\* The steps before the link is opened, and those at which a session may live.
BeforeLink == {"none", "preflight", "generate", "linked", "consume"}
Holding == {"issued", "logout", "rescue", "rescueLogout", "ended"}

\* What a run has noted.
Notes == [revision : {0} \cup Validation!Revisions, pc : RunPCs, authorized : BOOLEAN,
          held : BOOLEAN, cleaned : BOOLEAN]

\* The runs keep their types; of the verdicts only that each run has one.
RunsTyped ==
  /\ exec \in [Validation!Runs -> Notes]
  /\ DOMAIN verdict = Validation!Runs
  /\ live \subseteq Validation!Runs
  /\ unanswered \subseteq Validation!Runs

\* A session is that of a run which accounts for it from where it is: it holds a
\* token it must still clean up after, or its cleanup has begun, or it has ended
\* and did not report the session gone.  An unanswered request ends its run, and before the link is
\* opened there is no token.
AccountedFor(r) ==
  /\ r \in live => exec[r].pc \in Holding
  /\ r \in unanswered => Validation!Ended(r)
  /\ exec[r].pc \in {"issued", "logout"} => Validation!NeedsRescue(exec[r])
  /\ exec[r].pc \in BeforeLink => ~exec[r].held /\ ~exec[r].cleaned
  /\ Validation!Ended(r) /\ r \in live \cup unanswered =>
       \/ verdict[r] \in {"FAILED", "escaped", "silent"}
       \/ verdict[r] = "NOT_NEEDED" /\ exec[r].authorized /\ ~exec[r].held

SessionIInv == RunsTyped /\ \A r \in Validation!Runs : AccountedFor(r)

-----------------------------------------------------------------------------
(* What a run reads, and whose state a step touches                           *)

\* A run that reads no session may conclude that none lives, its own or another's.
LEMMA NoSessions == ASSUME RunsTyped, MaxValidations \in Nat, Validation!ZeroSessions PROVE live = {}
<1>1. IsFiniteSet(1..MaxValidations)
  BY FS_Interval
<1>2. IsFiniteSet(live)
  BY <1>1, FS_Subset DEF RunsTyped, Validation!Runs
<1>3. Validation!Cardinality(live) = Cardinality(live)
  BY DEF Validation!Cardinality, Cardinality
<1> QED
  BY <1>2, <1>3, FS_EmptySet DEF Validation!ZeroSessions, Validation!SessionCount

\* What a step of one run leaves alone.
OthersUnchanged(r) ==
  /\ \A q \in Validation!Runs \ {r} : exec'[q] = exec[q] /\ verdict'[q] = verdict[q]
  /\ \A q \in Validation!Runs \ {r} : q \in live' => q \in live
  /\ \A q \in Validation!Runs \ {r} : q \in unanswered' => q \in unanswered

\* For another run's step the invariant is kept.
LEMMA OtherRunsAccountedFor ==
  ASSUME SessionIInv, NEW r \in Validation!Runs, OthersUnchanged(r), NEW q \in Validation!Runs \ {r}
  PROVE  AccountedFor(q)'
BY DEF SessionIInv, AccountedFor, OthersUnchanged, Validation!NeedsRescue, Validation!Ended, Validation!At

\* The steps that are of one run.
OwnRunStep(r) ==
  \/ Validation!StartRun(r) \/ Validation!Preflight(r) \/ Validation!GenerateLink(r) \/ Validation!RecordLink(r)
  \/ Validation!ConsumeLink(r) \/ Validation!CheckIssued(r) \/ Validation!Logout(r) \/ Validation!Confirm(r) \/ Validation!Validate(r)
  \/ Validation!Rescue(r) \/ Validation!RescueLogout(r) \/ Validation!RescueConfirm(r)
  \/ Validation!Die(r) \/ Validation!SessionBeginsLate(r) \/ Validation!SessionExpires(r)

\* A run's step keeps the types and leaves the other runs alone.
LEMMA RunStepType ==
  ASSUME RunsTyped, NEW r \in Validation!Runs, OwnRunStep(r) PROVE RunsTyped' /\ OthersUnchanged(r)
<1> USE DEF RunsTyped, OthersUnchanged, Validation!Goes, Validation!EndsWith, Validation!Ends, Validation!Stops, Validation!StopsWith, Validation!Escapes, Validation!Either,
            Validation!At, RunPCs, Notes
<1>1. CASE Validation!StartRun(r)
  <2>1. PICK v \in Validation!Revisions :
          exec' = [exec EXCEPT ![r].pc = "preflight", ![r].revision = v]
    BY <1>1 DEF Validation!StartRun
  <2>2. exec' = [exec EXCEPT ![r] = [exec[r] EXCEPT !.pc = "preflight", !.revision = v]]
    BY <2>1
  <2>3. [exec[r] EXCEPT !.pc = "preflight", !.revision = v] \in Notes
    OBVIOUS
  <2> QED BY <1>1, <2>2, <2>3 DEF Validation!StartRun
<1>2. CASE Validation!Preflight(r) BY <1>2 DEF Validation!Preflight
<1>3. CASE Validation!GenerateLink(r) BY <1>3 DEF Validation!GenerateLink
<1>4. CASE Validation!RecordLink(r) BY <1>4 DEF Validation!RecordLink
<1>5. CASE Validation!ConsumeLink(r)
  <2> DEFINE noted == [exec[r] EXCEPT !.authorized = TRUE]
  <2>1. noted \in Notes BY DEF Notes
  <2>2. CASE /\ exec' = [exec EXCEPT ![r] = [noted EXCEPT !.held = TRUE, !.pc = "issued"]]
             /\ live' = live \cup {r}
             /\ UNCHANGED <<verdict, unanswered>>
    <3>1. [noted EXCEPT !.held = TRUE, !.pc = "issued"] \in Notes BY <2>1
    <3> HIDE DEF noted
    <3> QED BY <2>2, <3>1
  <2>3. CASE /\ Validation!StopsWith(r, noted) \/ Validation!EndsWith(r, noted, "escaped")
             /\ live' \subseteq live \cup {r}
             /\ unanswered' \subseteq unanswered \cup {r}
    <3>1. /\ [noted EXCEPT !.pc = "rescue"] \in Notes
          /\ [noted EXCEPT !.pc = "ended"] \in Notes
      BY <2>1
    <3> HIDE DEF noted
    <3> QED BY <2>3, <3>1
  <2> QED BY <1>5, <2>2, <2>3 DEF Validation!ConsumeLink
<1>6. CASE Validation!CheckIssued(r) BY <1>6 DEF Validation!CheckIssued
<1>7. CASE Validation!Logout(r) BY <1>7 DEF Validation!Logout
<1>8. CASE Validation!Confirm(r)
  <2> DEFINE noted == [exec[r] EXCEPT !.cleaned = TRUE]
  <2>1. noted \in Notes BY DEF Notes
  <2>2. CASE /\ exec' = [exec EXCEPT ![r] = [noted EXCEPT !.pc = "validate"]]
             /\ UNCHANGED verdict
    <3>1. [noted EXCEPT !.pc = "validate"] \in Notes BY <2>1
    <3> HIDE DEF noted
    <3> QED BY <1>8, <2>2, <3>1 DEF Validation!Confirm
  <2>3. CASE Validation!EndsWith(r, noted, "escaped")
    <3>1. [noted EXCEPT !.pc = "ended"] \in Notes BY <2>1
    <3> HIDE DEF noted
    <3> QED BY <1>8, <2>3, <3>1 DEF Validation!Confirm
  <2>4. CASE Validation!Stops(r) BY <1>8, <2>4 DEF Validation!Confirm
  <2>5. CASE Validation!Escapes(r) BY <1>8, <2>5 DEF Validation!Confirm
  <2> QED BY <1>8, <2>2, <2>3, <2>4, <2>5 DEF Validation!Confirm
<1>9. CASE Validation!Validate(r) BY <1>9 DEF Validation!Validate
<1>10. CASE Validation!Rescue(r) BY <1>10 DEF Validation!Rescue
<1>11. CASE Validation!RescueLogout(r) BY <1>11 DEF Validation!RescueLogout
<1>12. CASE Validation!RescueConfirm(r) BY <1>12 DEF Validation!RescueConfirm
<1>13. CASE Validation!Die(r) BY <1>13 DEF Validation!Die
<1>14. CASE Validation!SessionBeginsLate(r) BY <1>14 DEF Validation!SessionBeginsLate
<1>15. CASE Validation!SessionExpires(r) BY <1>15 DEF Validation!SessionExpires
<1> QED BY <1>1, <1>2, <1>3, <1>4, <1>5, <1>6, <1>7, <1>8, <1>9, <1>10,
          <1>11, <1>12, <1>13, <1>14, <1>15 DEF OwnRunStep

\* After its own step a run still accounts for its session.  Where it may have
\* begun one it holds the token, or the step ends it with the report for that;
\* where it ends without a warning its session was logged out before.
LEMMA OwnRunAccountedFor ==
  ASSUME SessionIInv, MaxValidations \in Nat, NEW r \in Validation!Runs, OwnRunStep(r)
  PROVE  AccountedFor(r)'
<1> USE DEF SessionIInv, RunsTyped, AccountedFor, Validation!Goes, Validation!EndsWith, Validation!Ends, Validation!Stops,
            Validation!StopsWith, Validation!Escapes, Validation!Either, Validation!At, Validation!Ended, Notes, Validation!NeedsRescue, BeforeLink, Holding
<1>1. CASE Validation!StartRun(r)
  <2>1. exec'[r].pc = "preflight" BY <1>1 DEF Validation!StartRun
  <2> QED BY <1>1, <2>1 DEF Validation!StartRun
<1>2. CASE Validation!Preflight(r) BY <1>2 DEF Validation!Preflight
<1>3. CASE Validation!GenerateLink(r) BY <1>3 DEF Validation!GenerateLink
<1>4. CASE Validation!RecordLink(r) BY <1>4 DEF Validation!RecordLink
<1>5. CASE Validation!ConsumeLink(r)
  <2> DEFINE noted == [exec[r] EXCEPT !.authorized = TRUE]
  <2>1. noted \in Notes BY DEF Notes
  <2>2. noted.authorized /\ (noted.held <=> exec[r].held) /\ exec[r].pc = "consume"
    BY <1>5 DEF Validation!ConsumeLink
  <2>3. r \notin live /\ r \notin unanswered BY <2>2
  <2>4. CASE /\ exec' = [exec EXCEPT ![r] = [noted EXCEPT !.held = TRUE, !.pc = "issued"]]
             /\ live' = live \cup {r}
             /\ UNCHANGED <<verdict, unanswered>>
    <3>1. [noted EXCEPT !.held = TRUE, !.pc = "issued"] = exec'[r] BY <2>4
    <3> QED BY <2>2, <2>3, <2>4, <3>1
  <2>5. CASE Validation!StopsWith(r, noted)
    <3>1. ~exec[r].held BY <2>2
    <3>2. ~Validation!NeedsRescue(noted) BY <2>2, <3>1
    <3>3. Validation!EndsWith(r, noted, "NOT_NEEDED") BY <2>5, <3>2
    <3>4. exec'[r] = [noted EXCEPT !.pc = "ended"] /\ verdict'[r] = "NOT_NEEDED" BY <3>3
    <3>5. exec'[r].pc = "ended" /\ exec'[r].authorized /\ ~exec'[r].held
      BY <2>1, <2>2, <3>1, <3>4
    <3> QED BY <3>4, <3>5
  <2>6. CASE Validation!EndsWith(r, noted, "escaped")
    <3>1. exec'[r] = [noted EXCEPT !.pc = "ended"] /\ verdict'[r] = "escaped" BY <2>6
    <3>2. exec'[r].pc = "ended" BY <2>1, <3>1
    <3> QED BY <3>1, <3>2
  <2> QED BY <1>5, <2>4, <2>5, <2>6 DEF Validation!ConsumeLink
<1>6. CASE Validation!CheckIssued(r) BY <1>6 DEF Validation!CheckIssued
<1>7. CASE Validation!Logout(r) BY <1>7 DEF Validation!Logout
<1>8. CASE Validation!Confirm(r)
  <2> DEFINE noted == [exec[r] EXCEPT !.cleaned = TRUE]
  <2>1. r \notin live' /\ r \notin unanswered' BY <1>8 DEF Validation!Confirm
  <2>2. noted \in Notes BY DEF Notes
  <2>3. CASE exec' = [exec EXCEPT ![r] = [noted EXCEPT !.pc = "validate"]]
    BY <2>1, <2>2, <2>3
  <2>4. CASE Validation!EndsWith(r, noted, "escaped") BY <2>1, <2>2, <2>4
  <2>5. CASE Validation!Stops(r) BY <2>1, <2>5
  <2>6. CASE Validation!Escapes(r) BY <2>1, <2>6
  <2> QED BY <1>8, <2>3, <2>4, <2>5, <2>6 DEF Validation!Confirm
<1>9. CASE Validation!Validate(r) BY <1>9 DEF Validation!Validate
<1>10. CASE Validation!Rescue(r) BY <1>10, NoSessions DEF Validation!Rescue
<1>11. CASE Validation!RescueLogout(r) BY <1>11 DEF Validation!RescueLogout
<1>12. CASE Validation!RescueConfirm(r) BY <1>12, NoSessions DEF Validation!RescueConfirm
<1>13. CASE Validation!Die(r) BY <1>13 DEF Validation!Die, Validation!Running
<1>14. CASE Validation!SessionBeginsLate(r) BY <1>14 DEF Validation!SessionBeginsLate
<1>15. CASE Validation!SessionExpires(r) BY <1>15 DEF Validation!SessionExpires
<1> QED BY <1>1, <1>2, <1>3, <1>4, <1>5, <1>6, <1>7, <1>8, <1>9, <1>10,
          <1>11, <1>12, <1>13, <1>14, <1>15 DEF OwnRunStep

\* Every step keeps the invariant; the owner's and the project's touch no run.
LEMMA SessionStep ==
  ASSUME MaxValidations \in Nat, SessionIInv, [Validation!Next]_(Validation!vars)
  PROVE  SessionIInv'
<1>1. ASSUME NEW r \in Validation!Runs, OwnRunStep(r) PROVE SessionIInv'
  <2>1. RunsTyped' /\ OthersUnchanged(r) BY <1>1, RunStepType DEF SessionIInv
  <2> QED BY <1>1, <2>1, OwnRunAccountedFor, OtherRunsAccountedFor DEF SessionIInv, AccountedFor, Validation!Ended, Validation!At
<1>2. CASE UNCHANGED <<exec, verdict, live, unanswered>>
  BY <1>2 DEF SessionIInv, RunsTyped, AccountedFor, Validation!Ended, Validation!At
<1> QED
  BY <1>1, <1>2 DEF Validation!Next, OwnRunStep, Validation!vars, Validation!CommitProgress, Validation!Drift

\* No run has started and no session lives.
LEMMA SessionInit == Validation!Init => SessionIInv
BY DEF Validation!Init, SessionIInv, RunsTyped, AccountedFor, Validation!NotStarted, Notes, RunPCs, Validation!Ended, Validation!At, Validation!NeedsRescue,
       BeforeLink

\* A run that reported its session's end left none, and one that called a cleanup
\* not needed left none it held a token of: however many runs there are, and however
\* they overlap, fail, escape or are killed (the executors of the token validation
\* plans, main() and its emergency cleanup).
THEOREM ReportsTrueHolds == Validation!Spec => []Validation!ReportsTrue
<1>1. SessionIInv => Validation!ReportsTrue BY DEF SessionIInv, AccountedFor, Validation!ReportsTrue
<1>2. SessionIInv /\ [Validation!Next]_(Validation!vars) => SessionIInv' BY RunsAssumption, SessionStep
<1> QED BY <1>1, <1>2, SessionInit, PTL DEF Validation!Spec
-----------------------------------------------------------------------------
(* The cleanups and diagnostics that followed.                             *)

JobPCs == {"none", "queued", "cleared", "inspect", "generate", "verify", "validate",
           "logout", "ended"}

JobReports == {"none", "refused", "CLEAN_0_0", "SESSION_AND_REFRESH_PRESENT", "unverified",
               "failed", "observed", "accepted", "silent"}

JobRecords == [pc : JobPCs, seen : BOOLEAN, attempted : BOOLEAN, asked : BOOLEAN,
               report : JobReports]

JobsTyped == job \in [Cleanup!Jobs -> JobRecords]

\* A run has no session before it verifies, an unanswered call only when it has
\* ended, and from the moment it may leave one it warns.
Warned(j) ==
  /\ j \in sessions => job[j].pc \in {"validate", "logout", "ended"}
  /\ j \in pending => job[j].pc = "ended"
  /\ job[j].pc \in {"generate", "verify", "validate", "logout"} => Cleanup!Warns(j)
  /\ j \in sessions \cup pending /\ job[j].pc = "ended" =>
       Cleanup!Warns(j) /\ job[j].report \in {"failed", "observed", "silent"}
  /\ job[j].report = "accepted" => job[j].pc = "ended" /\ Cleanup!Leftover \notin sessions

CleanupSafe ==
  /\ JobsTyped
  /\ pending \subseteq Cleanup!Jobs
  /\ \A j \in Cleanup!Jobs : Warned(j)

LEMMA CleanupStarts == Cleanup!Init => CleanupSafe
<1> SUFFICES ASSUME Cleanup!Init PROVE CleanupSafe
  OBVIOUS
<1>1. job = [j \in Cleanup!Jobs |-> Cleanup!NoJob] /\ sessions = {Cleanup!Leftover} /\ pending = {}
  BY DEF Cleanup!Init
<1>2. Cleanup!NoJob \in JobRecords
  BY DEF Cleanup!NoJob, JobRecords, JobPCs, JobReports
<1>3. Cleanup!Leftover \notin Cleanup!Jobs
  BY DEF Cleanup!Leftover, Cleanup!Jobs, Cleanup!Executors, Cleanup!Readers, Cleanup!Diagnostics, Cleanup!Cleanups
<1> QED
  BY <1>1, <1>2, <1>3 DEF CleanupSafe, JobsTyped, Warned, Cleanup!NoJob

\* The steps of a run and the end of its session.
JobStep(j) ==
  \/ Cleanup!Dispatch(j[1], j[2]) \/ Cleanup!Preflight(j[1], j[2]) \/ Cleanup!Proceed(j[1], j[2])
  \/ Cleanup!Inspect(j) \/ Cleanup!Generate(j) \/ Cleanup!Verify(j) \/ Cleanup!ValidateJwt(j)
  \/ Cleanup!LogoutGlobal(j) \/ Cleanup!Die(j) \/ Cleanup!SessionBeginsLate(j)

LEMMA JobIsPair == ASSUME NEW j \in Cleanup!Jobs PROVE /\ <<j[1], j[2]>> = j
                                                /\ j[1] \in Cleanup!Executors /\ j[2] \in 1..MaxRuns
BY DEF Cleanup!Jobs

\* Where a run goes.
LEMMA GoesTo ==
  ASSUME JobsTyped, NEW j \in Cleanup!Jobs, NEW pc \in JobPCs, Cleanup!Goes(j, pc)
  PROVE  /\ JobsTyped'
         /\ job'[j].pc = pc /\ job'[j].seen = job[j].seen /\ job'[j].asked = job[j].asked
         /\ job'[j].attempted = job[j].attempted /\ job'[j].report = job[j].report
         /\ \A k \in Cleanup!Jobs \ {j} : job'[k] = job[k]
<1> DEFINE new == [job[j] EXCEPT !.pc = pc]
<1>1. job' = [job EXCEPT ![j] = new]
  BY DEF Cleanup!Goes
<1>2. /\ new \in JobRecords
      /\ new.pc = pc /\ new.seen = job[j].seen /\ new.asked = job[j].asked
      /\ new.attempted = job[j].attempted /\ new.report = job[j].report
  BY DEF JobsTyped, JobRecords
<1> HIDE DEF new
<1> QED
  BY <1>1, <1>2 DEF JobsTyped

\* How it ends.
LEMMA ReportsAs ==
  ASSUME JobsTyped, NEW j \in Cleanup!Jobs, NEW report \in JobReports, Cleanup!Reports(j, report)
  PROVE  /\ JobsTyped'
         /\ job'[j].pc = "ended" /\ job'[j].seen = job[j].seen /\ job'[j].asked = job[j].asked
         /\ job'[j].attempted = job[j].attempted /\ job'[j].report = report
         /\ \A k \in Cleanup!Jobs \ {j} : job'[k] = job[k]
<1> DEFINE new == [job[j] EXCEPT !.pc = "ended", !.report = report]
<1>1. job' = [job EXCEPT ![j] = new]
  BY DEF Cleanup!Reports
<1>2. /\ new \in JobRecords
      /\ new.pc = "ended" /\ new.seen = job[j].seen /\ new.asked = job[j].asked
      /\ new.attempted = job[j].attempted /\ new.report = report
  BY DEF JobsTyped, JobRecords, JobPCs
<1> HIDE DEF new
<1> QED
  BY <1>1, <1>2 DEF JobsTyped

\* What a step of a run does, whatever else it does: the cases that the two
\* properties tell apart.
JobMoves(j) ==
  /\ JobsTyped'
  /\ \A k \in Cleanup!Jobs \ {j} : job'[k] = job[k]
  /\ job[j].pc # "none" => job'[j].seen = job[j].seen
  /\ \/ job'[j].attempted = job[j].attempted
     \/ job[j].pc = "cleared" /\ job'[j].attempted = (j[1] # "v1")
  /\ \/ /\ job[j].pc = "none" /\ job'[j].pc = "queued" /\ window[j[1]] = "open"
        /\ job'[j].seen = Cleanup!Files(j[1])
        /\ job'[j].asked = job[j].asked /\ job'[j].report = job[j].report
        /\ UNCHANGED <<sessions, pending>>
     \/ /\ job[j].pc = "queued" /\ job'[j].pc = "cleared"
        /\ Cleanup!ValidInvocation(j[1], j[2]) /\ job[j].seen
        /\ job'[j].asked = job[j].asked /\ job'[j].report = job[j].report
        /\ UNCHANGED <<sessions, pending>>
     \/ /\ job[j].pc = "cleared" /\ job'[j].pc \in {"inspect", "generate"}
        /\ job'[j].pc = "generate" => job'[j].attempted = (j[1] # "v1")
        /\ job'[j].asked = job[j].asked /\ job'[j].report = job[j].report
        /\ UNCHANGED <<sessions, pending>>
     \/ /\ job[j].pc = "generate" /\ job'[j].pc = "verify" /\ job'[j].asked
        /\ job'[j].report = job[j].report
        /\ UNCHANGED <<sessions, pending>>
     \/ /\ job[j].pc = "verify" /\ job'[j].pc = "validate"
        /\ sessions' = sessions \cup {j} /\ UNCHANGED pending
        /\ job'[j].asked = job[j].asked /\ job'[j].report = job[j].report
     \/ /\ job[j].pc = "validate" /\ job'[j].pc = "logout"
        /\ job'[j].asked = job[j].asked /\ job'[j].report = job[j].report
        /\ UNCHANGED <<sessions, pending>>
     \/ /\ job'[j].pc = "ended"
        /\ \/ /\ job[j].pc \in {"queued", "cleared", "inspect"}
              /\ job'[j].report # "accepted" /\ job'[j].asked = job[j].asked
              /\ UNCHANGED <<sessions, pending>>
           \/ /\ job[j].pc \in {"generate", "verify", "validate", "logout"}
              /\ job'[j].report \in {"failed", "observed", "silent"}
              /\ job[j].pc # "generate" => job'[j].asked = job[j].asked
              /\ sessions' \in {sessions, sessions \cup {j}, {}}
              /\ pending' \in {pending, pending \cup {j}}
           \/ /\ job[j].pc = "logout" /\ job'[j].report = "accepted"
              /\ job'[j].asked = job[j].asked
              /\ sessions' = {} /\ UNCHANGED pending
           \/ /\ job[j].pc \notin {"none", "queued"} /\ job[j].pc # "ended"
              /\ job'[j].report = "silent" /\ job'[j].asked = job[j].asked
              /\ UNCHANGED <<sessions, pending>>
     \/ /\ j \in pending /\ pending' = pending \ {j} /\ sessions' = sessions \cup {j}
        /\ UNCHANGED job

LEMMA JobStepMoves ==
  ASSUME JobsTyped, NEW j \in Cleanup!Jobs, JobStep(j)
  PROVE  JobMoves(j) /\ UNCHANGED <<followed, progress, window, credential>>
<1> DEFINE b == j[1]
           n == j[2]
<1>0. <<b, n>> = j
  BY JobIsPair
<1> HIDE DEF b, n
<1>a. j[1] = b /\ j[2] = n
  BY DEF b, n
<1>b. job[j] \in JobRecords /\ job \in [Cleanup!Jobs -> JobRecords]
  BY DEF JobsTyped
<1>1. CASE Cleanup!Dispatch(b, n)
  <2> DEFINE new == [job[j] EXCEPT !.pc = "queued", !.seen = Cleanup!Files(b)]
  <2>0. Cleanup!Files(b) \in BOOLEAN
    BY DEF Cleanup!Files, Cleanup!InspectionFiles, Cleanup!CleanupV1Files, Cleanup!CleanupV2Files, Cleanup!ShapeFiles,
           Cleanup!PredicateFiles, Cleanup!CleanupV4Files, Cleanup!RepairedFiles, Cleanup!ValidationV3Files
  <2>1. /\ job[j].pc = "none" /\ window[b] = "open"
        /\ job' = [job EXCEPT ![j] = new]
        /\ UNCHANGED <<followed, progress, window, credential, sessions, pending>>
    BY <1>0, <1>1 DEF Cleanup!Dispatch
  <2>2. /\ new \in JobRecords /\ new.pc = "queued" /\ new.seen = Cleanup!Files(b)
        /\ new.asked = job[j].asked /\ new.attempted = job[j].attempted
        /\ new.report = job[j].report
    BY <1>b, <2>0 DEF JobRecords, JobPCs
  <2> HIDE DEF new
  <2>3. JobsTyped' /\ job'[j] = new /\ \A k \in Cleanup!Jobs \ {j} : job'[k] = job[k]
    BY <1>b, <2>1, <2>2 DEF JobsTyped
  <2> QED
    BY <1>a, <2>1, <2>2, <2>3 DEF JobMoves
<1>2. CASE Cleanup!Preflight(b, n)
  <2>1. /\ job[j].pc = "queued"
        /\ UNCHANGED <<followed, progress, window, credential, sessions, pending>>
    BY <1>0, <1>2 DEF Cleanup!Preflight
  <2>2. CASE Cleanup!ValidInvocation(b, n) /\ job[j].seen /\ Cleanup!Goes(j, "cleared")
    <3>1. "cleared" \in JobPCs
      BY DEF JobPCs
    <3> QED
      BY <1>a, <2>1, <2>2, <3>1, GoesTo DEF JobMoves
  <2>3. CASE Cleanup!Reports(j, "refused")
    <3>1. "refused" \in JobReports
      BY DEF JobReports
    <3> QED
      BY <1>a, <2>1, <2>3, <3>1, ReportsAs DEF JobMoves
  <2> QED
    BY <1>0, <1>2, <2>2, <2>3 DEF Cleanup!Preflight
<1>3. CASE Cleanup!Proceed(b, n)
  <2>1. /\ job[j].pc = "cleared"
        /\ UNCHANGED <<followed, progress, window, credential, sessions, pending>>
    BY <1>0, <1>3 DEF Cleanup!Proceed
  <2>2. CASE Cleanup!Goes(j, "inspect")
    <3>1. "inspect" \in JobPCs
      BY DEF JobPCs
    <3> QED
      BY <1>a, <2>1, <2>2, <3>1, GoesTo DEF JobMoves
  <2>3. CASE job' = [job EXCEPT ![j].pc = "generate", ![j].attempted = b # "v1"]
    <3> DEFINE new == [job[j] EXCEPT !.pc = "generate", !.attempted = (b # "v1")]
    <3>1. job' = [job EXCEPT ![j] = new]
      BY <2>3
    <3>2. /\ new \in JobRecords /\ new.pc = "generate" /\ new.seen = job[j].seen
          /\ new.asked = job[j].asked /\ new.attempted = (b # "v1")
          /\ new.report = job[j].report
      BY <1>b DEF JobRecords, JobPCs
    <3> HIDE DEF new
    <3>3. JobsTyped' /\ job'[j] = new /\ \A k \in Cleanup!Jobs \ {j} : job'[k] = job[k]
      BY <1>b, <3>1, <3>2 DEF JobsTyped
    <3> QED
      BY <1>a, <2>1, <3>2, <3>3 DEF JobMoves
  <2>4. CASE Cleanup!Reports(j, "refused")
    <3>1. "refused" \in JobReports
      BY DEF JobReports
    <3> QED
      BY <1>a, <2>1, <2>4, <3>1, ReportsAs DEF JobMoves
  <2> QED
    BY <1>0, <1>3, <2>2, <2>3, <2>4 DEF Cleanup!Proceed
<1>4. CASE Cleanup!Inspect(j)
  <2>1. /\ job[j].pc = "inspect"
        /\ UNCHANGED <<followed, progress, window, credential, sessions, pending>>
    BY <1>4 DEF Cleanup!Inspect
  <2>2. PICK report \in JobReports \ {"accepted"} : Cleanup!Reports(j, report)
    BY <1>4 DEF Cleanup!Inspect, Cleanup!Classification, JobReports
  <2> QED
    BY <2>1, <2>2, ReportsAs DEF JobMoves
<1>5. CASE Cleanup!Generate(j)
  <2>1. /\ job[j].pc = "generate"
        /\ UNCHANGED <<followed, progress, window, credential, sessions, pending>>
    BY <1>5 DEF Cleanup!Generate
  <2>2. PICK pc \in {"verify", "ended"} :
          job' = [job EXCEPT ![j].asked = TRUE, ![j].pc = pc,
                             ![j].report = IF pc = "ended" THEN "failed" ELSE @]
    BY <1>5 DEF Cleanup!Generate
  <2>3. PICK report : report = IF pc = "ended" THEN "failed" ELSE job[j].report
    OBVIOUS
  <2> DEFINE new == [job[j] EXCEPT !.asked = TRUE, !.pc = pc, !.report = report]
  <2>4. job' = [job EXCEPT ![j] = new]
    BY <2>2, <2>3
  <2>5. /\ new \in JobRecords /\ new.pc = pc /\ new.seen = job[j].seen
        /\ new.asked /\ new.attempted = job[j].attempted /\ new.report = report
    BY <1>b, <2>3 DEF JobRecords, JobPCs, JobReports
  <2> HIDE DEF new
  <2>6. JobsTyped' /\ job'[j] = new /\ \A k \in Cleanup!Jobs \ {j} : job'[k] = job[k]
    BY <1>b, <2>4, <2>5 DEF JobsTyped
  <2> QED
    BY <2>1, <2>3, <2>5, <2>6 DEF JobMoves
<1>6. CASE Cleanup!Verify(j)
  <2>1. job[j].pc = "verify" /\ UNCHANGED <<followed, progress, window, credential>>
    BY <1>6 DEF Cleanup!Verify
  <2>2. CASE Cleanup!Goes(j, "validate") /\ sessions' = sessions \cup {j} /\ UNCHANGED pending
    <3>1. "validate" \in JobPCs
      BY DEF JobPCs
    <3> QED
      BY <2>1, <2>2, <3>1, GoesTo DEF JobMoves
  <2>3. ASSUME NEW report \in {"failed", "observed"}, Cleanup!Reports(j, report),
               sessions' \in {sessions, sessions \cup {j}}, pending' \in {pending, pending \cup {j}}
        PROVE  JobMoves(j)
    <3>1. report \in JobReports
      BY DEF JobReports
    <3>2. /\ JobsTyped'
          /\ job'[j].pc = "ended" /\ job'[j].seen = job[j].seen /\ job'[j].asked = job[j].asked
          /\ job'[j].attempted = job[j].attempted /\ job'[j].report = report
          /\ \A k \in Cleanup!Jobs \ {j} : job'[k] = job[k]
      BY <2>3, <3>1, ReportsAs
    <3> QED
      BY <2>1, <2>3, <3>2 DEF JobMoves
  <2> QED
    BY <1>6, <2>1, <2>2, <2>3 DEF Cleanup!Verify
<1>7. CASE Cleanup!ValidateJwt(j)
  <2>1. /\ job[j].pc = "validate"
        /\ UNCHANGED <<followed, progress, window, credential, sessions, pending>>
    BY <1>7 DEF Cleanup!ValidateJwt
  <2>2. "logout" \in JobPCs /\ "failed" \in JobReports
    BY DEF JobPCs, JobReports
  <2>3. CASE Cleanup!Goes(j, "logout")
    BY <2>1, <2>2, <2>3, GoesTo DEF JobMoves
  <2>4. CASE Cleanup!Reports(j, "failed")
    BY <2>1, <2>2, <2>4, ReportsAs DEF JobMoves
  <2> QED
    BY <1>7, <2>1, <2>3, <2>4 DEF Cleanup!ValidateJwt
<1>8. CASE Cleanup!LogoutGlobal(j)
  <2>1. job[j].pc = "logout" /\ UNCHANGED <<followed, progress, window, credential, pending>>
    BY <1>8 DEF Cleanup!LogoutGlobal
  <2>2. "accepted" \in JobReports /\ "failed" \in JobReports
    BY DEF JobReports
  <2>3. CASE sessions' = {} /\ Cleanup!Reports(j, "accepted")
    BY <2>1, <2>2, <2>3, ReportsAs DEF JobMoves
  <2>4. CASE sessions' \in {sessions, {}} /\ Cleanup!Reports(j, "failed")
    BY <2>1, <2>2, <2>4, ReportsAs DEF JobMoves
  <2> QED
    BY <1>8, <2>1, <2>3, <2>4 DEF Cleanup!LogoutGlobal
<1>9. CASE Cleanup!Die(j)
  <2>1. /\ job[j].pc \notin {"none", "queued", "ended"} /\ Cleanup!Reports(j, "silent")
        /\ UNCHANGED <<followed, progress, window, credential, sessions, pending>>
    BY <1>9 DEF Cleanup!Die, Cleanup!Active
  <2>2. "silent" \in JobReports
    BY DEF JobReports
  <2> QED
    BY <2>1, <2>2, ReportsAs DEF JobMoves
<1>10. CASE Cleanup!SessionBeginsLate(j)
  <2>1. /\ j \in pending /\ pending' = pending \ {j} /\ sessions' = sessions \cup {j}
        /\ job' = job
        /\ UNCHANGED <<followed, progress, window, credential>>
    BY <1>10 DEF Cleanup!SessionBeginsLate
  <2> QED
    BY <2>1 DEF JobMoves, JobsTyped
<1> QED
  BY <1>1, <1>2, <1>3, <1>4, <1>5, <1>6, <1>7, <1>8, <1>9, <1>10 DEF JobStep, b, n

\* The owner's steps and the provider's touch no run.
LEMMA OthersMove ==
  ASSUME Cleanup!Next, ~\E j \in Cleanup!Jobs : JobStep(j)
  PROVE  /\ UNCHANGED <<job, pending>> /\ sessions' \subseteq sessions
BY DEF Cleanup!Next, JobStep, Cleanup!SessionExpires, Cleanup!OpenWindow, Cleanup!CloseWindow, Cleanup!CountFirst, Cleanup!RecordRun,
       Cleanup!Readback, Cleanup!Commit, Cleanup!RepairCredential

LEMMA CleanupStepKeeps == CleanupSafe /\ [Cleanup!Next]_(Cleanup!vars) => CleanupSafe'
<1> SUFFICES ASSUME CleanupSafe, [Cleanup!Next]_(Cleanup!vars) PROVE CleanupSafe'
  OBVIOUS
<1>1. ASSUME NEW j \in Cleanup!Jobs, JobStep(j) PROVE CleanupSafe'
  <2>1. JobMoves(j) /\ JobsTyped /\ pending \subseteq Cleanup!Jobs /\ Warned(j)
    BY <1>1, JobStepMoves DEF CleanupSafe
  <2>2. JobsTyped' /\ \A k \in Cleanup!Jobs \ {j} : job'[k] = job[k]
    BY <2>1 DEF JobMoves
  <2>3. Cleanup!Leftover \notin Cleanup!Jobs
    BY DEF Cleanup!Leftover, Cleanup!Jobs, Cleanup!Executors, Cleanup!Readers, Cleanup!Diagnostics, Cleanup!Cleanups
  <2>4. /\ sessions' \subseteq sessions \cup {j} /\ pending' \subseteq pending \cup {j}
    BY <2>1 DEF JobMoves
  <2>5. Cleanup!Leftover \in sessions' => Cleanup!Leftover \in sessions
    BY <2>3, <2>4
  <2>6. ASSUME NEW k \in Cleanup!Jobs \ {j} PROVE Warned(k)'
    <3>1. job'[k] = job[k] /\ Warned(k) /\ (k \in sessions' => k \in sessions)
          /\ (k \in pending' => k \in pending)
      BY <2>2, <2>4 DEF CleanupSafe
    <3> QED
      BY <2>5, <3>1 DEF Warned, Cleanup!Warns
  <2>7. Warned(j)'
    <3>1. \/ job'[j].attempted = job[j].attempted
          \/ job[j].pc = "cleared" /\ job'[j].attempted = (j[1] # "v1")
      BY <2>1 DEF JobMoves
    <3>2. job[j].pc # "ended" => j \notin pending
      BY <2>1 DEF Warned
    <3>3. job[j].pc \notin {"validate", "logout", "ended"} => j \notin sessions
      BY <2>1 DEF Warned
    <3>4. job[j] \in JobRecords
      BY <2>1 DEF JobsTyped
    <3>5. CASE UNCHANGED job
      BY <2>1, <2>4, <2>5, <3>2, <3>5 DEF JobMoves, Warned, Cleanup!Warns
    <3>6. CASE job'[j].pc # "ended" /\ ~UNCHANGED job
      BY <2>1, <2>4, <2>5, <3>1, <3>2, <3>3, <3>4, <3>6 DEF JobMoves, Warned, Cleanup!Warns
    <3>7. CASE job'[j].pc = "ended" /\ ~UNCHANGED job
      BY <2>1, <2>4, <2>5, <3>1, <3>2, <3>3, <3>4, <3>7 DEF JobMoves, Warned, Cleanup!Warns
    <3> QED
      BY <3>5, <3>6, <3>7
  <2> QED
    BY <2>1, <2>2, <2>4, <2>6, <2>7 DEF CleanupSafe
<1>2. CASE UNCHANGED <<job, pending>> /\ sessions' \subseteq sessions
  BY <1>2 DEF CleanupSafe, JobsTyped, Warned, Cleanup!Warns
<1>3. UNCHANGED Cleanup!vars => UNCHANGED <<job, pending>> /\ sessions' \subseteq sessions
  BY DEF Cleanup!vars
<1> QED
  BY <1>1, <1>2, <1>3, OthersMove

\* Whatever the runs of the cleanups and diagnostics leave behind was warned of:
\* however often each is run, and however late a verification takes effect.
THEOREM LeftoversReportedHolds == Cleanup!Spec => []Cleanup!LeftoversReported
<1>1. CleanupSafe => Cleanup!LeftoversReported
  BY DEF CleanupSafe, Warned, Cleanup!LeftoversReported, Cleanup!Ended
<1> QED
  BY <1>1, CleanupStarts, CleanupStepKeeps, PTL DEF Cleanup!Spec

\* What the progress says before the plan's own run is recorded.
Fresh(b) == IF b = "v2" THEN "counted" ELSE "none"

\* Only the first run of such a workflow gets past the queue, and none does once
\* the plan's progress is past it: what waits then was dispatched on older files.
InTurn(j) ==
  /\ job[j].asked => job[j].pc # "none"
  /\ job[j].pc # "none" => window[j[1]] # "none"
  /\ j[1] \in Cleanup!OnceOnly =>
       /\ Cleanup!Active(j) \/ job[j].asked => j[2] = 1
       /\ Cleanup!Ended(j) => Cleanup!Ended(<<j[1], 1>>)
       /\ progress[j[1]] # Fresh(j[1]) =>
            \/ Cleanup!Ended(j)
            \/ job[j].pc \in {"none", "queued"} /\ (job[j].seen => j[2] # 1)

OwnerTyped ==
  /\ progress \in [Cleanup!Executors -> {"none", "counted", "executed", "STOPPED", "COMPLETED"}]
  /\ window \in [Cleanup!Executors -> {"none", "open", "over"}]

OrderSafe ==
  /\ JobsTyped
  /\ OwnerTyped
  /\ \A j \in Cleanup!Jobs : InTurn(j)
  /\ \A p \in Cleanup!BuiltOn : window[p[1]] # "none" => Cleanup!Finished(p[2])

LEMMA BuiltOnPairs ==
  ASSUME NEW p \in Cleanup!BuiltOn
  PROVE  /\ p = <<p[1], p[2]>> /\ p[1] \in Cleanup!Executors /\ p[2] \in Cleanup!OnceOnly
         /\ p[1] \notin {"v1", "v2", "inspection"} /\ p[2] \in Cleanup!Executors
         /\ Cleanup!Position[p[2]] < Cleanup!Position[p[1]]
BY DEF Cleanup!BuiltOn, Cleanup!Executors, Cleanup!Readers, Cleanup!Diagnostics, Cleanup!Cleanups, Cleanup!OnceOnly, Cleanup!Position

LEMMA BuiltOnOutcome ==
  ASSUME NEW p \in Cleanup!BuiltOn, Cleanup!Files(p[1])
  PROVE  Cleanup!Finished(p[2])
BY DEF Cleanup!BuiltOn, Cleanup!Files, Cleanup!Finished, Cleanup!CleanupV4Files, Cleanup!CleanupV4Bindings, Cleanup!ShapeFiles,
       Cleanup!RepairedFiles, Cleanup!RepairedBindings, Cleanup!ValidationV3Files, Cleanup!ValidationV3Bindings

LEMMA FilesAreFresh ==
  ASSUME NEW b \in Cleanup!OnceOnly, Cleanup!Files(b)
  PROVE  progress[b] = Fresh(b)
BY DEF Cleanup!OnceOnly, Cleanup!Files, Fresh, Cleanup!CleanupV2Files, Cleanup!CleanupV4Files, Cleanup!RepairedFiles,
       Cleanup!ValidationV3Files

LEMMA OrderStarts == Cleanup!Init => OrderSafe
<1> SUFFICES ASSUME Cleanup!Init PROVE OrderSafe
  OBVIOUS
<1>1. /\ progress = [b \in Cleanup!Executors |-> IF Cleanup!Earlier(b) THEN Cleanup!RecordedProgress(b) ELSE "none"]
      /\ window = [b \in Cleanup!Executors |-> IF Cleanup!Earlier(b) THEN "over" ELSE "none"]
      /\ job = [j \in Cleanup!Jobs |-> Cleanup!NoJob]
  BY DEF Cleanup!Init
<1>2. JobsTyped /\ OwnerTyped
  BY <1>1 DEF JobsTyped, JobRecords, JobPCs, JobReports, Cleanup!NoJob, OwnerTyped, Cleanup!RecordedProgress
<1>3. \A j \in Cleanup!Jobs : InTurn(j)
  BY <1>1 DEF InTurn, Cleanup!NoJob, Cleanup!Active, Cleanup!Ended
<1>4. ASSUME NEW p \in Cleanup!BuiltOn, window[p[1]] # "none" PROVE Cleanup!Finished(p[2])
  <2>1. Cleanup!Earlier(p[1])
    BY <1>1, <1>4, BuiltOnPairs
  <2>2. \A b \in Cleanup!Executors : Cleanup!Position[b] \in Nat
    BY DEF Cleanup!Executors, Cleanup!Readers, Cleanup!Diagnostics, Cleanup!Cleanups, Cleanup!Position
  <2>3. followed \subseteq Cleanup!Executors
    BY RunsAssumption DEF Cleanup!Init
  <2>4. Cleanup!Earlier(p[2])
    BY <2>1, <2>2, <2>3, BuiltOnPairs DEF Cleanup!Earlier
  <2>5. progress[p[2]] = Cleanup!RecordedProgress(p[2])
    BY <1>1, <2>4, BuiltOnPairs
  <2> QED
    BY <2>5 DEF Cleanup!Finished, Cleanup!RecordedProgress
<1> QED
  BY <1>2, <1>3, <1>4 DEF OrderSafe

\* A step of a run keeps the order.
LEMMA JobStepInTurn ==
  ASSUME OrderSafe, NEW j \in Cleanup!Jobs, JobStep(j)
  PROVE  InTurn(j)'
<1> DEFINE b == j[1]
           n == j[2]
<1>a. <<b, n>> = j /\ n \in 1..MaxRuns /\ b \in Cleanup!Executors
  BY JobIsPair
<1>b. JobMoves(j) /\ UNCHANGED <<progress, window>> /\ InTurn(j) /\ JobsTyped
  BY JobStepMoves DEF OrderSafe
<1>c. <<b, 1>> \in Cleanup!Jobs
  BY <1>a, RunsAssumption DEF Cleanup!Jobs
<1>d. job[j] \in JobRecords /\ job'[j] \in JobRecords
  BY <1>b DEF JobsTyped, JobMoves
<1>1. job'[j].asked => job'[j].pc # "none"
  BY <1>b DEF JobMoves, InTurn
<1>2. job'[j].pc # "none" => window'[j[1]] # "none"
  BY <1>b DEF JobMoves, InTurn
<1>3. ASSUME b \in Cleanup!OnceOnly, Cleanup!Active(j)' \/ job'[j].asked PROVE n = 1
  BY <1>3, <1>b, <1>d DEF JobMoves, InTurn, Cleanup!Active, Cleanup!ValidInvocation, JobRecords
<1>4. ASSUME b \in Cleanup!OnceOnly, Cleanup!Ended(j)' PROVE Cleanup!Ended(<<b, 1>>)'
  <2>1. CASE n = 1
    BY <2>1, <1>4, <1>a
  <2>2. CASE n # 1
    <3>1. <<b, 1>> # j /\ job'[<<b, 1>>] = job[<<b, 1>>]
      BY <2>2, <1>a, <1>b, <1>c DEF JobMoves
    <3>2. CASE Cleanup!Ended(j)
      BY <3>1, <3>2, <1>4, <1>b DEF InTurn, Cleanup!Ended
    <3>3. CASE job[j].pc = "queued" /\ ~UNCHANGED job
      <4>1. Cleanup!Preflight(b, n)
        BY <3>3, <1>a DEF JobStep, Cleanup!Dispatch, Cleanup!Preflight, Cleanup!Proceed, Cleanup!Inspect, Cleanup!Generate, Cleanup!Verify,
                    Cleanup!ValidateJwt, Cleanup!LogoutGlobal, Cleanup!Die, Cleanup!Active, Cleanup!SessionBeginsLate
      <4>2. 1 \in 1..(n - 1)
        BY <2>2, <1>a, RunsAssumption
      <4> QED
        BY <4>1, <4>2, <3>1 DEF Cleanup!Preflight, Cleanup!Ended
    <3>4. job[j].pc = "none" => job'[j].pc # "ended"
      BY <1>b DEF JobMoves, InTurn
    <3>5. CASE job[j].pc \notin {"none", "queued", "ended"}
      BY <3>5, <2>2, <1>4, <1>b DEF InTurn, Cleanup!Active
    <3> QED
      BY <3>2, <3>3, <3>4, <3>5, <1>4 DEF Cleanup!Ended
  <2> QED
    BY <2>1, <2>2
<1>5. ASSUME b \in Cleanup!OnceOnly, progress'[b] # Fresh(b)
      PROVE  \/ Cleanup!Ended(j)'
             \/ job'[j].pc \in {"none", "queued"} /\ (job'[j].seen => n # 1)
  <2>1. \/ Cleanup!Ended(j)
        \/ job[j].pc \in {"none", "queued"} /\ (job[j].seen => n # 1)
    BY <1>5, <1>b DEF InTurn
  <2>2. ~Cleanup!Files(b)
    BY <1>5, <1>b, FilesAreFresh
  <2>3. CASE Cleanup!Ended(j)
    BY <2>3, <1>b DEF JobMoves, Cleanup!Ended
  <2>4. CASE job[j].pc = "none"
    BY <2>1, <2>2, <2>4, <1>b DEF JobMoves, Cleanup!Ended
  <2>5. CASE job[j].pc = "queued"
    BY <2>1, <2>5, <1>5, <1>b DEF JobMoves, Cleanup!Ended, Cleanup!ValidInvocation
  <2> QED
    BY <2>1, <2>3, <2>4, <2>5
<1> QED
  BY <1>1, <1>2, <1>3, <1>4, <1>5 DEF InTurn

\* And one of the owner.
LEMMA OwnerKeepsOrder ==
  ASSUME OrderSafe, Cleanup!Next, ~\E j \in Cleanup!Jobs : JobStep(j)
  PROVE  OrderSafe'
<1>a. UNCHANGED job /\ JobsTyped'
  BY OthersMove DEF OrderSafe, JobsTyped
<1>1. ASSUME NEW b \in Cleanup!Executors, NEW state, Cleanup!Commit(b, state),
             state \in {"none", "counted", "executed", "STOPPED", "COMPLETED"},
             ~Cleanup!Finished(b),
             b \in Cleanup!OnceOnly /\ progress[b] = Fresh(b) /\ state # Fresh(b) =>
               \A j \in Cleanup!Jobs : j[1] = b =>
                 \/ Cleanup!Ended(j)
                 \/ job[j].pc \in {"none", "queued"} /\ (job[j].seen => j[2] # 1)
      PROVE  OrderSafe'
  <2>1. progress' = [progress EXCEPT ![b] = state] /\ UNCHANGED window
    BY <1>1 DEF Cleanup!Commit
  <2>2. /\ OwnerTyped' /\ progress'[b] = state
        /\ \A c \in Cleanup!Executors \ {b} : progress'[c] = progress[c]
    BY <1>1, <2>1 DEF OrderSafe, OwnerTyped
  <2>3. ASSUME NEW j \in Cleanup!Jobs PROVE InTurn(j)'
    <3>1. InTurn(j) /\ j[1] \in Cleanup!Executors
      BY JobIsPair DEF OrderSafe
    <3> QED
      BY <3>1, <2>1, <2>2, <1>1, <1>a DEF InTurn, Cleanup!Active, Cleanup!Ended
  <2>4. ASSUME NEW p \in Cleanup!BuiltOn, window'[p[1]] # "none" PROVE Cleanup!Finished(p[2])'
    <3>1. Cleanup!Finished(p[2]) /\ p[2] \in Cleanup!Executors
      BY <2>1, <2>4, BuiltOnPairs DEF OrderSafe
    <3> QED
      BY <3>1, <2>2, <1>1 DEF Cleanup!Finished
  <2> QED
    BY <1>a, <2>2, <2>3, <2>4 DEF OrderSafe
<1>2. ASSUME NEW b \in Cleanup!Executors, NEW to \in {"open", "over"},
             window' = [window EXCEPT ![b] = to], UNCHANGED progress,
             window[b] # "none" \/ \A p \in Cleanup!BuiltOn : p[1] = b => Cleanup!Finished(p[2])
      PROVE  OrderSafe'
  <2>1. /\ OwnerTyped' /\ window'[b] = to
        /\ \A c \in Cleanup!Executors \ {b} : window'[c] = window[c]
    BY <1>2 DEF OrderSafe, OwnerTyped
  <2>2. ASSUME NEW j \in Cleanup!Jobs PROVE InTurn(j)'
    <3>1. InTurn(j) /\ j[1] \in Cleanup!Executors
      BY JobIsPair DEF OrderSafe
    <3> QED
      BY <3>1, <2>1, <1>2, <1>a DEF InTurn, Cleanup!Active, Cleanup!Ended
  <2>3. ASSUME NEW p \in Cleanup!BuiltOn, window'[p[1]] # "none" PROVE Cleanup!Finished(p[2])'
    <3>1. Cleanup!Finished(p[2])
      BY <1>2, <2>1, <2>3, BuiltOnPairs DEF OrderSafe
    <3> QED
      BY <3>1, <1>2 DEF Cleanup!Finished
  <2> QED
    BY <1>a, <2>1, <2>2, <2>3 DEF OrderSafe
<1>3. CASE UNCHANGED <<progress, window>>
  BY <1>3, <1>a DEF OrderSafe, OwnerTyped, InTurn, Cleanup!Active, Cleanup!Ended, Cleanup!Finished
<1>4. ASSUME NEW b \in Cleanup!Executors, Cleanup!OpenWindow(b) PROVE OrderSafe'
  <2>1. ASSUME NEW p \in Cleanup!BuiltOn, p[1] = b PROVE Cleanup!Finished(p[2])
    BY <1>4, <2>1, BuiltOnPairs, BuiltOnOutcome DEF Cleanup!OpenWindow
  <2> QED
    BY <1>4, <2>1, <1>2 DEF Cleanup!OpenWindow
<1>5. ASSUME NEW b \in Cleanup!Executors, Cleanup!CloseWindow(b) PROVE OrderSafe'
  BY <1>5, <1>2 DEF Cleanup!CloseWindow
<1>6. ASSUME NEW b \in Cleanup!Executors, Cleanup!CountFirst(b) PROVE OrderSafe'
  <2>1. PICK state \in {"counted", "STOPPED"} : Cleanup!Commit(b, state)
    BY <1>6 DEF Cleanup!CountFirst
  <2>2. b \in {"v1", "v2"} /\ progress[b] = "none"
    BY <1>6 DEF Cleanup!CountFirst
  <2> QED
    BY <1>1, <2>1, <2>2 DEF Cleanup!Finished, Fresh, Cleanup!OnceOnly
<1>7. ASSUME NEW b \in Cleanup!Executors, Cleanup!RecordRun(b) PROVE OrderSafe'
  <2>1. PICK state \in {"executed", "COMPLETED", "STOPPED"} : Cleanup!Commit(b, state)
    BY <1>7 DEF Cleanup!RecordRun
  <2>2. PICK n \in 1..MaxRuns : Cleanup!Ended(<<b, n>>)
    BY <1>7 DEF Cleanup!RecordRun
  <2>3. /\ progress[b] = IF b \in {"v1", "v2"} THEN "counted" ELSE "none"
        /\ \A m \in 1..MaxRuns : ~Cleanup!Active(<<b, m>>)
    BY <1>7 DEF Cleanup!RecordRun
  <2>4. ASSUME b \in Cleanup!OnceOnly, NEW j \in Cleanup!Jobs, j[1] = b
        PROVE  \/ Cleanup!Ended(j)
               \/ job[j].pc \in {"none", "queued"} /\ (job[j].seen => j[2] # 1)
    <3>1. <<b, n>> \in Cleanup!Jobs
      BY DEF Cleanup!Jobs
    <3>2. Cleanup!Ended(<<b, 1>>)
      BY <2>2, <2>4, <3>1 DEF OrderSafe, InTurn
    <3>3. j = <<b, j[2]>> /\ j[2] \in 1..MaxRuns
      BY <2>4, JobIsPair
    <3>4. ~Cleanup!Active(j)
      BY <2>3, <3>3
    <3> QED
      BY <3>2, <3>3, <3>4 DEF Cleanup!Active, Cleanup!Ended
  <2> QED
    BY <1>1, <2>1, <2>3, <2>4 DEF Cleanup!Finished
<1>8. ASSUME NEW b \in Cleanup!Executors, Cleanup!Readback(b) PROVE OrderSafe'
  <2>1. PICK state \in {"COMPLETED", "STOPPED"} : Cleanup!Commit(b, state)
    BY <1>8 DEF Cleanup!Readback
  <2>2. progress[b] = "executed"
    BY <1>8 DEF Cleanup!Readback
  <2> QED
    BY <1>1, <2>1, <2>2 DEF Cleanup!Finished, Fresh
<1>9. \/ \E b \in Cleanup!Executors : \/ Cleanup!OpenWindow(b) \/ Cleanup!CloseWindow(b) \/ Cleanup!CountFirst(b)
                              \/ Cleanup!RecordRun(b) \/ Cleanup!Readback(b)
      \/ UNCHANGED <<progress, window>>
  BY DEF Cleanup!Next, JobStep, Cleanup!SessionExpires, Cleanup!RepairCredential
<1> QED
  BY <1>3, <1>4, <1>5, <1>6, <1>7, <1>8, <1>9

LEMMA OrderStepKeeps == OrderSafe /\ [Cleanup!Next]_(Cleanup!vars) => OrderSafe'
<1> SUFFICES ASSUME OrderSafe, [Cleanup!Next]_(Cleanup!vars) PROVE OrderSafe'
  OBVIOUS
<1>1. ASSUME NEW j \in Cleanup!Jobs, JobStep(j) PROVE OrderSafe'
  <2>1. JobMoves(j) /\ UNCHANGED <<progress, window>> /\ InTurn(j)'
    BY <1>1, JobStepMoves, JobStepInTurn DEF OrderSafe
  <2>2. ASSUME NEW k \in Cleanup!Jobs \ {j} PROVE InTurn(k)'
    <3>1. InTurn(k) /\ job'[k] = job[k]
      BY <2>1 DEF OrderSafe, JobMoves
    <3>2. Cleanup!Ended(<<k[1], 1>>) => Cleanup!Ended(<<k[1], 1>>)'
      <4>1. <<k[1], 1>> \in Cleanup!Jobs
        BY JobIsPair, RunsAssumption DEF Cleanup!Jobs
      <4>2. Cleanup!Ended(j) => Cleanup!Ended(j)'
        BY <2>1 DEF JobMoves, Cleanup!Ended
      <4> QED
        BY <4>1, <4>2, <2>1 DEF JobMoves, Cleanup!Ended
    <3> QED
      BY <2>1, <3>1, <3>2 DEF InTurn, Cleanup!Active, Cleanup!Ended
  <2>3. JobsTyped' /\ OwnerTyped'
    BY <2>1 DEF JobMoves, OrderSafe, OwnerTyped
  <2>4. \A p \in Cleanup!BuiltOn : window'[p[1]] # "none" => Cleanup!Finished(p[2])'
    BY <2>1 DEF OrderSafe, Cleanup!Finished
  <2> QED
    BY <2>1, <2>2, <2>3, <2>4 DEF OrderSafe
<1>2. CASE UNCHANGED Cleanup!vars
  BY <1>2 DEF Cleanup!vars, OrderSafe, JobsTyped, OwnerTyped, InTurn, Cleanup!Active, Cleanup!Ended, Cleanup!Finished
<1> QED
  BY <1>1, <1>2, OwnerKeepsOrder

\* The executors bound to the first run of their workflow ask the provider once
\* for all, and never after one built on their outcome has asked: however many
\* runs were dispatched, and on whatever older commit they waited.
THEOREM CleanupsInOrder == Cleanup!Spec => Cleanup!LifecyclesInOrder
<1> DEFINE Asks == \A j \in Cleanup!OnceOnly \X (1..MaxRuns) :
                     job'[j].asked /\ ~job[j].asked =>
                       \A k \in Cleanup!Jobs : job[k].asked =>
                         k[1] # j[1] /\ <<k[1], j[1]>> \notin Cleanup!BuiltOn
<1>1. ASSUME OrderSafe, [Cleanup!Next]_(Cleanup!vars) PROVE [Asks]_(Cleanup!vars)
  <2> SUFFICES ASSUME NEW j \in Cleanup!OnceOnly \X (1..MaxRuns),
                      job'[j].asked, ~job[j].asked, NEW k \in Cleanup!Jobs, job[k].asked
               PROVE  k[1] # j[1] /\ <<k[1], j[1]>> \notin Cleanup!BuiltOn
    BY DEF Asks
  <2>1. j \in Cleanup!Jobs
    BY DEF Cleanup!OnceOnly, Cleanup!Jobs, Cleanup!Executors, Cleanup!Cleanups
  <2>2. ~UNCHANGED Cleanup!vars
    BY DEF Cleanup!vars
  <2>3. PICK i \in Cleanup!Jobs : JobStep(i)
    BY <1>1, <2>2, OthersMove
  <2>4. JobMoves(i)
    BY <1>1, <2>3, JobStepMoves DEF OrderSafe
  <2>5. i = j
    BY <2>1, <2>4 DEF JobMoves
  <2>6. InTurn(j) /\ InTurn(k) /\ j[1] \in Cleanup!OnceOnly
    BY <1>1, <2>1 DEF OrderSafe
  <2>7. job[j].pc = "generate"
    BY <2>4, <2>5, <2>6 DEF JobMoves, InTurn
  <2>8. j[2] = 1 /\ progress[j[1]] = Fresh(j[1])
    BY <2>6, <2>7 DEF InTurn, Cleanup!Active, Cleanup!Ended
  <2>9. k[1] # j[1]
    <3>1. SUFFICES ASSUME k[1] = j[1] PROVE FALSE
      OBVIOUS
    <3>2. k[2] = 1
      BY <3>1, <2>6 DEF InTurn
    <3> QED
      BY <3>1, <3>2, <2>1, <2>8, JobIsPair
  <2>10. <<k[1], j[1]>> \notin Cleanup!BuiltOn
    <3>1. SUFFICES ASSUME <<k[1], j[1]>> \in Cleanup!BuiltOn PROVE FALSE
      OBVIOUS
    <3>2. window[k[1]] # "none"
      BY <2>6 DEF InTurn
    <3>3. Cleanup!Finished(j[1])
      BY <1>1, <3>1, <3>2 DEF OrderSafe
    <3> QED
      BY <3>3, <2>8 DEF Cleanup!Finished, Fresh
  <2> QED
    BY <2>9, <2>10
<1> HIDE DEF Asks
<1>2. Cleanup!Spec => [][Asks]_(Cleanup!vars)
  BY <1>1, OrderStarts, OrderStepKeeps, PTL DEF Cleanup!Spec
<1> QED
  BY <1>2 DEF Asks, Cleanup!LifecyclesInOrder
-----------------------------------------------------------------------------
(* The run's own specification.                                            *)

\* A behaviour of MCDevelopmentWork works with one part and leaves the others
\* alone, so that whatever is proved of a part above holds in it.
THEOREM WorkBehavesAsAlone ==
  MCSpec => Spec /\ Auth!Spec /\ Validation!Spec /\ Cleanup!Spec
<1> DEFINE all == <<vars, authVars, validationVars, cleanupVars, work>>
<1>1. MCInit => Init /\ Auth!Init /\ Validation!Init /\ Cleanup!Init
  BY DEF MCInit
<1>2. [MCNext]_all => [Next]_vars
  BY DEF MCNext, PlanStep, AuthStep, ValidationStep, CleanupStep
<1>3. [MCNext]_all => [Auth!Next]_(Auth!vars)
  BY DEF MCNext, PlanStep, AuthStep, ValidationStep, CleanupStep, authVars, Auth!vars
<1>4. [MCNext]_all => [Validation!Next]_(Validation!vars)
  BY DEF MCNext, PlanStep, AuthStep, ValidationStep, CleanupStep, validationVars, Validation!vars
<1>5. [MCNext]_all => [Cleanup!Next]_(Cleanup!vars)
  BY DEF MCNext, PlanStep, AuthStep, ValidationStep, CleanupStep, cleanupVars, Cleanup!vars
<1>6. MCSpec => MCInit /\ [][MCNext]_all
  BY DEF MCSpec
<1> HIDE DEF all
<1> QED
  BY <1>1, <1>2, <1>3, <1>4, <1>5, <1>6, PTL
  DEF Spec, Auth!Spec, Validation!Spec, Cleanup!Spec

\* What the token validation runs and the cleanups report of the sessions they
\* began or were to end is so, beside whatever other work there is.
THEOREM SessionReportsTrueHolds == MCSpec => []SessionReportsTrue
BY WorkBehavesAsAlone, ReportsTrueHolds, LeftoversReportedHolds, PTL DEF SessionReportsTrue

\* The executors bound to the first run of their workflow begin one lifecycle
\* each, before any that is built on its outcome, beside whatever other work
\* the run's specification does.
THEOREM LifecyclesInOrderHolds == MCSpec => LifecyclesInOrder
BY WorkBehavesAsAlone, CleanupsInOrder, PTL DEF LifecyclesInOrder
=============================================================================
