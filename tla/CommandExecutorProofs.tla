------------------------ MODULE CommandExecutorProofs ------------------------
(***************************************************************************)
(* Proofs about the PostgreSQL command executor, for any number of         *)
(* connections, commands, keys and subjects.                               *)
(***************************************************************************)
EXTENDS CommandExecutor, TLAPS

\* A result is kept under the key of the command it names.
ResultsUnderTheirKeys == \A k \in Keys : reserved[k] # NoCommand => Key[reserved[k]] = k

\* The strengthening under which every property below is inductive: locks
\* exclude each other and a held key has no result yet.
ExecutorIInv ==
    /\ TypeOK
    /\ LocksExclude
    /\ ResultsUnderTheirKeys
    /\ OneEffectPerKey
    /\ CommittedTogether
    /\ NoLostUpdate

-----------------------------------------------------------------------------
(* Type correctness.                                                       *)

\* A process that is not idle has a command, with a key, a body, a subject
\* and an expected version.
LEMMA CommandInHand ==
    ASSUME TypeOK, NEW p \in Processes, ~At(p, "idle")
    PROVE  /\ Cmd(p) \in Commands
           /\ Key[Cmd(p)] \in Keys
           /\ Body[Cmd(p)] \in Bodies
           /\ Subject[Cmd(p)] \in Subjects
           /\ Expected[Cmd(p)] \in Nat
<1>1. Cmd(p) \in Commands
  BY DEF TypeOK, At, Cmd, Idle
<1> QED
  BY <1>1, CommandAssumption

\* An execution that goes on keeps its type.
LEMMA AdvanceType ==
    ASSUME TypeOK, NEW p \in Processes, ~At(p, "idle"), NEW s \in Steps, Advance(p, s)
    PROVE  work' \in [Processes -> [step : Steps, command : Commands] \cup {Idle}]
<1>1. work[p] \in [step : Steps, command : Commands]
  BY DEF TypeOK, At, Idle
<1>2. [work[p] EXCEPT !.step = s] \in [step : Steps, command : Commands]
  BY <1>1
<1> QED
  BY <1>2 DEF Advance, TypeOK

\* Every answer has its type.
LEMMA AnswerType ==
    ASSUME TypeOK, NEW p \in Processes, ~At(p, "idle"),
           NEW result \in Results, NEW prior \in Commands, Answer(p, result, prior)
    PROVE  /\ work' \in [Processes -> [step : Steps, command : Commands] \cup {Idle}]
           /\ replies' \subseteq Reply
BY CommandInHand DEF TypeOK, Answer, Reply

LEMMA AnswerPriorType ==
    ASSUME TypeOK, NEW p \in Processes, ~At(p, "idle"), Completed(Cmd(p)), AnswerPrior(p)
    PROVE  TypeOK'
<1>1. reserved[Key[Cmd(p)]] \in Commands
  BY CommandInHand DEF TypeOK, Completed
<1>2. Verdict(Cmd(p), reserved[Key[Cmd(p)]]) \in Results
  BY DEF Verdict, Results
<1> QED
  BY <1>1, <1>2, AnswerType DEF AnswerPrior, committed, TypeOK

LEMMA RefuseType ==
    ASSUME TypeOK, NEW p \in Processes, ~At(p, "idle"), Refuse(p)
    PROVE  TypeOK'
BY CommandInHand, AnswerType DEF Refuse, Results, committed, TypeOK

\* A step that only moves on keeps every type.
LEMMA MoveOnType ==
    ASSUME TypeOK, NEW p \in Processes, ~At(p, "idle"), NEW s \in Steps,
           Advance(p, s), UNCHANGED <<committed, replies>>
    PROVE  TypeOK'
BY AdvanceType DEF committed, TypeOK

LEMMA CommitType ==
    ASSUME TypeOK, NEW p \in Processes, Commit(p)
    PROVE  TypeOK'
<1> DEFINE c == Cmd(p)
<1>1. /\ c \in Commands
      /\ Key[c] \in Keys
      /\ Subject[c] \in Subjects
      /\ ~At(p, "idle")
  BY CommandInHand DEF Commit, At
<1>2. version[Subject[c]] \in Nat
  BY <1>1 DEF TypeOK
<1>3. /\ version' \in [Subjects -> Nat]
      /\ reserved' \in [Keys -> Commands \cup {NoCommand}]
      /\ events' \subseteq Event
      /\ outbox' \subseteq Commands
  BY <1>1, <1>2 DEF Commit, TypeOK, Result, Staged, Event
<1>4. /\ work' \in [Processes -> [step : Steps, command : Commands] \cup {Idle}]
      /\ replies' \subseteq Reply
  <2>1. CASE Answer(p, "ACCEPTED", c)
    BY <1>1, <2>1, AnswerType DEF Results
  <2>2. CASE work' = [work EXCEPT ![p] = Idle] /\ UNCHANGED replies
    BY <2>2 DEF TypeOK
  <2> QED
    BY <2>1, <2>2 DEF Commit
<1> QED
  BY <1>3, <1>4 DEF TypeOK

LEMMA TypeStep == TypeOK /\ [Next]_vars => TypeOK'
<1> SUFFICES ASSUME TypeOK, [Next]_vars PROVE TypeOK'
  OBVIOUS
<1> USE DEF Steps
<1>1. ASSUME NEW p \in Processes, NEW c \in Commands, Begin(p, c) PROVE TypeOK'
  BY <1>1 DEF Begin, TypeOK, committed
<1>2. ASSUME NEW p \in Processes, LookUp(p) PROVE TypeOK'
  BY <1>2, AnswerPriorType, MoveOnType DEF LookUp, At
<1>3. ASSUME NEW p \in Processes, Guard(p) PROVE TypeOK'
  BY <1>3, RefuseType, MoveOnType DEF Guard, At
<1>4. ASSUME NEW p \in Processes, Reserve(p) PROVE TypeOK'
  BY <1>4, AnswerPriorType, MoveOnType DEF Reserve, MayReserve, At
<1>5. ASSUME NEW p \in Processes, Read(p) PROVE TypeOK'
  BY <1>5, RefuseType, MoveOnType DEF Read, At
<1>6. ASSUME NEW p \in Processes, Write(p) PROVE TypeOK'
  BY <1>6, RefuseType, MoveOnType DEF Write, At
<1>7. ASSUME NEW p \in Processes, Commit(p) PROVE TypeOK'
  BY <1>7, CommitType
<1>8. ASSUME NEW p \in Processes, Abort(p) PROVE TypeOK'
  BY <1>8 DEF Abort, TypeOK, committed
<1>9. CASE UNCHANGED vars
  BY <1>9 DEF vars, committed, TypeOK
<1> QED
  BY <1>1, <1>2, <1>3, <1>4, <1>5, <1>6, <1>7, <1>8, <1>9 DEF Next, Step

\* Every table, execution and reply keeps values of its type.
THEOREM ExecutorTypeCorrect == Spec => []TypeOK
<1>1. Init => TypeOK
  BY CommandAssumption DEF Init, TypeOK
<1> QED
  BY <1>1, TypeStep, PTL DEF Spec

-----------------------------------------------------------------------------
(* The steps that commit nothing.                                          *)

\* Only a commit changes a table.
LEMMA OnlyCommitCommits ==
    ASSUME [Next]_vars, \A p \in Processes : ~Commit(p)
    PROVE  UNCHANGED committed
BY DEF Next, Step, Begin, LookUp, Guard, Reserve, Read, Write, Abort, AnswerPrior, Refuse, vars

\* What the other processes have in hand is left alone.
LEMMA OthersUntouched ==
    ASSUME TypeOK, NEW p \in Processes, (\E c \in Commands : Begin(p, c)) \/ Step(p) \/ Abort(p),
           NEW q \in Processes, q # p
    PROVE  work'[q] = work[q]
BY DEF TypeOK, Step, Begin, LookUp, Guard, Reserve, Read, Write, Commit, Abort,
       AnswerPrior, Refuse, Answer, Advance

\* A key comes into a process's hands only by its reservation, a row only by
\* its write; and both stay with the command they were taken for.
LEMMA LockTaken ==
    ASSUME TypeOK, NEW p \in Processes, (\E c \in Commands : Begin(p, c)) \/ Step(p) \/ Abort(p)
    PROVE  /\ HoldsKey(p)' => /\ Cmd(p)' = Cmd(p)
                              /\ HoldsKey(p) \/ (KeyFree(p) /\ ~Completed(Cmd(p)))
           /\ At(p, "written")' => /\ Cmd(p)' = Cmd(p)
                                   /\ HoldsKey(p)
                                   /\ RowFree(p) /\ AsExpected(Cmd(p))
<1> USE DEF TypeOK, At, Cmd, HoldsKey, Idle, Steps
<1>1. CASE \E c \in Commands : Begin(p, c)
  BY <1>1 DEF Begin
<1>2. CASE LookUp(p)
  BY <1>2 DEF LookUp, AnswerPrior, Answer, Advance
<1>3. CASE Guard(p)
  BY <1>3 DEF Guard, Refuse, Answer, Advance
<1>4. CASE Reserve(p)
  BY <1>4 DEF Reserve, MayReserve, AnswerPrior, Answer, Advance
<1>5. CASE Read(p)
  BY <1>5 DEF Read, Refuse, Answer, Advance
<1>6. CASE Write(p)
  BY <1>6 DEF Write, Matches, Refuse, Answer, Advance
<1>7. CASE Commit(p)
  BY <1>7 DEF Commit, Answer
<1>8. CASE Abort(p)
  BY <1>8 DEF Abort
<1> QED
  BY <1>1, <1>2, <1>3, <1>4, <1>5, <1>6, <1>7, <1>8 DEF Step

\* A commit touches its own key and its own subject only.
LEMMA CommitTables ==
    ASSUME TypeOK, NEW p \in Processes, Commit(p)
    PROVE  /\ At(p, "written") /\ HoldsKey(p) /\ Cmd(p) \in Commands
           /\ \A k \in Keys : reserved'[k] = IF k = Key[Cmd(p)] THEN Cmd(p) ELSE reserved[k]
           /\ \A s \in Subjects :
                version'[s] = IF s = Subject[Cmd(p)] THEN version[s] + 1 ELSE version[s]
           /\ events' = events \cup {[command |-> Cmd(p), version |-> version[Subject[Cmd(p)]] + 1]}
           /\ outbox' = outbox \cup {Cmd(p)}
<1>1. Cmd(p) \in Commands
  BY CommandInHand DEF Commit, At
<1> QED
  BY <1>1 DEF TypeOK, Commit, Result, Staged, HoldsKey, At

\* Locks exclude each other: a taken lock was free, and a commit gives up the
\* only locks whose key or row it changes.
LEMMA LocksStep == TypeOK /\ LocksExclude /\ [Next]_vars => LocksExclude'
<1> SUFFICES ASSUME TypeOK, LocksExclude, [Next]_vars PROVE LocksExclude'
  OBVIOUS
<1>1. CASE UNCHANGED vars
  BY <1>1 DEF vars, committed, LocksExclude, HoldsKey, At, Cmd, Completed, AsExpected
<1>2. ASSUME NEW p \in Processes, (\E c \in Commands : Begin(p, c)) \/ Step(p) \/ Abort(p)
      PROVE  LocksExclude'
  <2>1. ASSUME NEW q \in Processes, q # p
        PROVE  /\ HoldsKey(q)' <=> HoldsKey(q)
               /\ At(q, "written")' <=> At(q, "written")
               /\ Cmd(q)' = Cmd(q)
    BY <1>2, <2>1, OthersUntouched DEF HoldsKey, At, Cmd
  <2>2. /\ HoldsKey(p)' => Cmd(p)' = Cmd(p) /\ (HoldsKey(p) \/ (KeyFree(p) /\ ~Completed(Cmd(p))))
        /\ At(p, "written")' => Cmd(p)' = Cmd(p) /\ HoldsKey(p) /\ RowFree(p) /\ AsExpected(Cmd(p))
    BY <1>2, LockTaken
  <2>3. ASSUME NEW q \in Processes, q # p
        PROVE  /\ HoldsKey(p)' /\ HoldsKey(q)' => Key[Cmd(p)'] # Key[Cmd(q)']
               /\ At(p, "written")' /\ At(q, "written")' => Subject[Cmd(p)'] # Subject[Cmd(q)']
    BY <2>1, <2>2, <2>3 DEF LocksExclude, KeyFree, RowFree
  <2>4. ASSUME NEW q \in Processes, NEW r \in Processes, q # r
        PROVE  /\ HoldsKey(q)' /\ HoldsKey(r)' => Key[Cmd(q)'] # Key[Cmd(r)']
               /\ At(q, "written")' /\ At(r, "written")' => Subject[Cmd(q)'] # Subject[Cmd(r)']
    BY <2>1, <2>3, <2>4 DEF LocksExclude
  <2>5. CASE ~Commit(p)
    <3>1. UNCHANGED committed
      BY <1>2, <2>5 DEF Step, Begin, LookUp, Guard, Reserve, Read, Write, Abort, AnswerPrior, Refuse
    <3>2. \A c : Completed(c)' = Completed(c) /\ AsExpected(c)' = AsExpected(c)
      BY <3>1 DEF committed, Completed, AsExpected
    <3>3. ASSUME NEW q \in Processes
          PROVE  /\ HoldsKey(q)' => ~Completed(Cmd(q))'
                 /\ At(q, "written")' => AsExpected(Cmd(q))'
      <4>1. CASE q = p
        BY <2>2, <3>1, <4>1 DEF LocksExclude, committed, Completed, AsExpected
      <4>2. CASE q # p
        BY <2>1, <3>1, <4>2 DEF LocksExclude, committed, Completed, AsExpected
      <4> QED
        BY <4>1, <4>2
    <3> QED
      BY <2>4, <3>3 DEF LocksExclude
  <2>6. CASE Commit(p)
    <3>1. ~HoldsKey(p)' /\ ~At(p, "written")'
      BY <2>6 DEF Commit, Answer, TypeOK, HoldsKey, At, Idle
    <3>2. ASSUME NEW q \in Processes, HoldsKey(q)'
          PROVE  ~Completed(Cmd(q))'
      <4>1. q # p /\ HoldsKey(q) /\ Cmd(q)' = Cmd(q)
        BY <2>1, <3>1, <3>2
      <4>2. Cmd(q) \in Commands /\ Key[Cmd(q)] \in Keys
        BY <4>1, CommandInHand DEF HoldsKey, At
      <4>3. Key[Cmd(q)] # Key[Cmd(p)]
        BY <2>6, <4>1, CommitTables DEF LocksExclude
      <4> QED
        BY <2>6, <4>1, <4>2, <4>3, CommitTables DEF LocksExclude, Completed
    <3>3. ASSUME NEW q \in Processes, At(q, "written")'
          PROVE  AsExpected(Cmd(q))'
      <4>1. q # p /\ At(q, "written") /\ Cmd(q)' = Cmd(q)
        BY <2>1, <3>1, <3>3
      <4>2. Cmd(q) \in Commands /\ Subject[Cmd(q)] \in Subjects
        BY <4>1, CommandInHand DEF At
      <4>3. Subject[Cmd(q)] # Subject[Cmd(p)]
        BY <2>6, <4>1, CommitTables DEF LocksExclude
      <4> QED
        BY <2>6, <4>1, <4>2, <4>3, CommitTables DEF LocksExclude, AsExpected
    <3> QED
      BY <2>4, <3>2, <3>3 DEF LocksExclude
  <2> QED
    BY <2>5, <2>6
<1> QED
  BY <1>1, <1>2 DEF Next

-----------------------------------------------------------------------------
(* The steps that commit.                                                  *)

\* The key of a committing command has no event yet, and its event carries
\* the next version of its subject.
LEMMA CommitIsNew ==
    ASSUME ExecutorIInv, NEW p \in Processes, Commit(p)
    PROVE  /\ \A e \in events : Key[e.command] # Key[Cmd(p)]
           /\ version[Subject[Cmd(p)]] = Expected[Cmd(p)]
<1>1. At(p, "written") /\ HoldsKey(p)
  BY CommitTables DEF ExecutorIInv
<1>2. reserved[Key[Cmd(p)]] = NoCommand /\ AsExpected(Cmd(p))
  BY <1>1 DEF ExecutorIInv, LocksExclude, Completed
<1>3. ASSUME NEW e \in events PROVE Key[e.command] # Key[Cmd(p)]
  <2>1. e.command \in Commands /\ reserved[Key[e.command]] = e.command
    BY DEF ExecutorIInv, CommittedTogether, TypeOK, Event
  <2> QED
    BY <1>2, <2>1, CommandAssumption
<1> QED
  BY <1>2, <1>3 DEF AsExpected

LEMMA OneEffectStep == ExecutorIInv /\ [Next]_vars => OneEffectPerKey'
<1> SUFFICES ASSUME ExecutorIInv, [Next]_vars PROVE OneEffectPerKey'
  OBVIOUS
<1>1. CASE \A p \in Processes : ~Commit(p)
  BY <1>1, OnlyCommitCommits DEF ExecutorIInv, OneEffectPerKey, committed
<1>2. ASSUME NEW p \in Processes, Commit(p) PROVE OneEffectPerKey'
  <2> DEFINE new == [command |-> Cmd(p), version |-> version[Subject[Cmd(p)]] + 1]
  <2>1. events' = events \cup {new} /\ new.command = Cmd(p)
    BY <1>2, CommitTables DEF ExecutorIInv
  <2>2. \A e \in events : Key[e.command] # Key[new.command]
    BY <1>2, <2>1, CommitIsNew
  <2> HIDE DEF new
  <2> QED
    BY <2>1, <2>2 DEF ExecutorIInv, OneEffectPerKey
<1> QED
  BY <1>1, <1>2

LEMMA TogetherStep == ExecutorIInv /\ [Next]_vars => CommittedTogether'
<1> SUFFICES ASSUME ExecutorIInv, [Next]_vars PROVE CommittedTogether'
  OBVIOUS
<1>1. CASE \A p \in Processes : ~Commit(p)
  <2>1. events' = events /\ outbox' = outbox /\ reserved' = reserved
    BY <1>1, OnlyCommitCommits DEF ExecutorIInv, committed
  <2>2. {e.command : e \in events'} = {e.command : e \in events}
    BY <2>1
  <2> QED
    BY <2>1, <2>2 DEF ExecutorIInv, CommittedTogether
<1>2. ASSUME NEW p \in Processes, Commit(p) PROVE CommittedTogether'
  <2> DEFINE c == Cmd(p)
             effects == {e.command : e \in events}
             results == {reserved[k] : k \in Keys} \ {NoCommand}
             new == [command |-> c, version |-> version[Subject[c]] + 1]
  <2>1. /\ c \in Commands /\ c # NoCommand
        /\ Key[c] \in Keys
        /\ events' = events \cup {new}
        /\ outbox' = outbox \cup {c}
        /\ \A k \in Keys : reserved'[k] = IF k = Key[c] THEN c ELSE reserved[k]
    BY <1>2, CommitTables, CommandAssumption DEF ExecutorIInv
  <2>2. effects' = effects \cup {c}
    <3>1. new.command = c
      OBVIOUS
    <3> HIDE DEF new
    <3> QED
      BY <2>1, <3>1
  <2>3. reserved[Key[c]] = NoCommand
    BY <1>2, CommitTables DEF ExecutorIInv, LocksExclude, Completed
  <2>4. results' = results \cup {c}
    BY <2>1, <2>3
  <2>5. outbox = effects /\ results = effects /\ \A d \in effects : reserved[Key[d]] = d
    BY DEF ExecutorIInv, CommittedTogether
  <2>6. \A d \in effects : Key[d] \in Keys /\ Key[d] # Key[c]
    BY <1>2, CommitIsNew, CommandAssumption DEF ExecutorIInv, TypeOK, Event
  <2>7. \A d \in effects' : reserved'[Key[d]] = d
    BY <2>1, <2>2, <2>5, <2>6
  <2> QED
    BY <2>1, <2>2, <2>4, <2>5, <2>7 DEF CommittedTogether
<1> QED
  BY <1>1, <1>2

LEMMA ResultStep == ExecutorIInv /\ [Next]_vars => ResultsUnderTheirKeys'
<1> SUFFICES ASSUME ExecutorIInv, [Next]_vars PROVE ResultsUnderTheirKeys'
  OBVIOUS
<1>1. CASE \A p \in Processes : ~Commit(p)
  BY <1>1, OnlyCommitCommits DEF ExecutorIInv, ResultsUnderTheirKeys, committed
<1>2. ASSUME NEW p \in Processes, Commit(p) PROVE ResultsUnderTheirKeys'
  BY <1>2, CommitTables DEF ExecutorIInv, ResultsUnderTheirKeys
<1> QED
  BY <1>1, <1>2

LEMMA UpdateStep == ExecutorIInv /\ [Next]_vars => NoLostUpdate'
<1> SUFFICES ASSUME ExecutorIInv, [Next]_vars PROVE NoLostUpdate'
  OBVIOUS
<1>1. CASE \A p \in Processes : ~Commit(p)
  BY <1>1, OnlyCommitCommits DEF ExecutorIInv, NoLostUpdate, committed
<1>2. ASSUME NEW p \in Processes, Commit(p) PROVE NoLostUpdate'
  <2> DEFINE c == Cmd(p)
             t == Subject[c]
             new == [command |-> c, version |-> version[t] + 1]
             Versions(s) == {e.version : e \in {f \in events : Subject[f.command] = s}}
  <2>1. /\ c \in Commands /\ t \in Subjects
        /\ events' = events \cup {new}
        /\ \A s \in Subjects : version'[s] = IF s = t THEN version[s] + 1 ELSE version[s]
        /\ version[t] = Expected[c]
        /\ version[t] \in Nat
    BY <1>2, CommitTables, CommitIsNew, CommandAssumption DEF ExecutorIInv, TypeOK
  <2>2. \A s \in Subjects : Versions(s) = 1..version[s] /\ version[s] \in Nat
    BY DEF ExecutorIInv, NoLostUpdate, TypeOK
  <2>3. new.command = c /\ new.version = version[t] + 1
    OBVIOUS
  <2> HIDE DEF new
  <2>4. ASSUME NEW s \in Subjects PROVE Versions(s)' = 1..version'[s]
    <3>1. CASE s = t
      <4>1. Versions(s)' = Versions(s) \cup {version[t] + 1}
        BY <2>1, <2>3, <3>1
      <4> QED
        BY <2>1, <2>2, <3>1, <4>1
    <3>2. CASE s # t
      <4>1. Versions(s)' = Versions(s)
        BY <2>1, <2>3, <3>2
      <4> QED
        BY <2>1, <2>2, <3>2, <4>1
    <3> QED
      BY <3>1, <3>2
  <2>5. ASSUME NEW e \in events, Subject[e.command] = t PROVE e.version # new.version
    <3>1. e.version \in Versions(t)
      BY <2>5
    <3> QED
      BY <2>1, <2>2, <2>3, <3>1
  <2>6. ASSUME NEW e \in events', NEW f \in events',
               Subject[e.command] = Subject[f.command], e.version = f.version
        PROVE  e = f
    BY <2>1, <2>3, <2>5, <2>6 DEF ExecutorIInv, NoLostUpdate
  <2>7. \A e \in events' : e.version = Expected[e.command] + 1
    BY <2>1, <2>3 DEF ExecutorIInv, NoLostUpdate
  <2> QED
    BY <2>4, <2>6, <2>7 DEF NoLostUpdate
<1> QED
  BY <1>1, <1>2

-----------------------------------------------------------------------------
(* The theorems.                                                           *)

LEMMA ExecutorInit == Init => ExecutorIInv
<1> SUFFICES ASSUME Init PROVE ExecutorIInv
  OBVIOUS
<1>1. TypeOK
  BY CommandAssumption DEF Init, TypeOK
<1>2. LocksExclude
  BY DEF Init, LocksExclude, HoldsKey, At, Idle
<1>3. OneEffectPerKey
  BY DEF Init, OneEffectPerKey
<1>4. CommittedTogether
  BY DEF Init, CommittedTogether
<1>5. NoLostUpdate
  BY DEF Init, NoLostUpdate
<1>6. ResultsUnderTheirKeys
  BY DEF Init, ResultsUnderTheirKeys
<1> QED
  BY <1>1, <1>2, <1>3, <1>4, <1>5, <1>6 DEF ExecutorIInv

LEMMA ExecutorStep == ExecutorIInv /\ [Next]_vars => ExecutorIInv'
BY TypeStep, LocksStep, OneEffectStep, TogetherStep, ResultStep, UpdateStep DEF ExecutorIInv

LEMMA ExecutorIInvHolds == Spec => []ExecutorIInv
BY ExecutorInit, ExecutorStep, PTL DEF Spec

\* Idempotency keys and rows are held by one transaction at a time.
THEOREM LocksExcludeHolds == Spec => []LocksExclude
<1>1. ExecutorIInv => LocksExclude
  BY DEF ExecutorIInv
<1> QED
  BY <1>1, ExecutorIInvHolds, PTL

\* An idempotency key takes effect at most once.
THEOREM OneEffectPerKeyHolds == Spec => []OneEffectPerKey
<1>1. ExecutorIInv => OneEffectPerKey
  BY DEF ExecutorIInv
<1> QED
  BY <1>1, ExecutorIInvHolds, PTL

\* Record, result, event and delivery always agree.
THEOREM CommittedTogetherHolds == Spec => []CommittedTogether
<1>1. ExecutorIInv => CommittedTogether
  BY DEF ExecutorIInv
<1> QED
  BY <1>1, ExecutorIInvHolds, PTL

\* No update of an authoritative record is lost.
THEOREM NoLostUpdateHolds == Spec => []NoLostUpdate
<1>1. ExecutorIInv => NoLostUpdate
  BY DEF ExecutorIInv
<1> QED
  BY <1>1, ExecutorIInvHolds, PTL

-----------------------------------------------------------------------------
(* Refinement of atomic commands.                                          *)

\* A commit is the one step in which the command takes effect.
LEMMA CommitApplies ==
    ASSUME ExecutorIInv, NEW p \in Processes, Commit(p)
    PROVE  Cmd(p) \in Commands /\ Atomic!Apply(Cmd(p))
<1> DEFINE c == Cmd(p)
           new == [command |-> c, version |-> version[Subject[c]] + 1]
<1>1. c \in Commands /\ events' = events \cup {new}
  BY CommitTables DEF ExecutorIInv
<1>2. {e.command : e \in events'} = {e.command : e \in events} \cup {c}
  <2>1. new.command = c
    OBVIOUS
  <2> HIDE DEF new
  <2> QED
    BY <1>1, <2>1
<1>3. \A d \in {e.command : e \in events} : Key[d] # Key[c]
  BY CommitIsNew
<1>4. version[Subject[c]] = Expected[c]
  BY CommitIsNew
<1>5. version' = [version EXCEPT ![Subject[c]] = @ + 1]
  BY DEF Commit
<1>6. replies' \in {replies, replies \cup {[command |-> c, result |-> "ACCEPTED", prior |-> c]}}
  BY DEF Commit, Answer
<1> QED
  BY <1>1, <1>2, <1>3, <1>4, <1>5, <1>6 DEF Atomic!Apply, Atomic!Told

\* A replay is answered for a command that did take effect under the key.
LEMMA PriorIsTrue ==
    ASSUME ExecutorIInv, NEW p \in Processes, ~At(p, "idle"), Completed(Cmd(p)), AnswerPrior(p)
    PROVE  Atomic!Next
<1> DEFINE c == Cmd(p)
           d == reserved[Key[c]]
<1>1. c \in Commands /\ Key[c] \in Keys
  BY CommandInHand DEF ExecutorIInv
<1>2. d \in Commands /\ Key[d] = Key[c]
  BY <1>1 DEF ExecutorIInv, TypeOK, ResultsUnderTheirKeys, Completed
<1>3. d \in {e.command : e \in events}
  BY <1>1 DEF ExecutorIInv, CommittedTogether, Completed
<1>4. /\ replies' = replies \cup {[command |-> c, result |-> Verdict(c, d), prior |-> d]}
      /\ version' = version
      /\ events' = events
  BY DEF AnswerPrior, Answer, committed
<1>5. {e.command : e \in events'} = {e.command : e \in events}
  BY <1>4
<1>6. CASE Body[c] = Body[d]
  <2>1. Atomic!Duplicate(c, d)
    BY <1>2, <1>3, <1>4, <1>5, <1>6 DEF Atomic!Duplicate, Atomic!Told, Verdict
  <2> QED
    BY <1>1, <1>2, <2>1 DEF Atomic!Next
<1>7. CASE Body[c] # Body[d]
  <2>1. Atomic!Conflict(c, d)
    BY <1>2, <1>3, <1>4, <1>5, <1>7 DEF Atomic!Conflict, Atomic!Told, Verdict
  <2> QED
    BY <1>1, <1>2, <2>1 DEF Atomic!Next
<1> QED
  BY <1>6, <1>7

LEMMA RefuseRejects ==
    ASSUME ExecutorIInv, NEW p \in Processes, ~At(p, "idle"), Refuse(p)
    PROVE  Atomic!Next
<1>1. Cmd(p) \in Commands
  BY CommandInHand DEF ExecutorIInv
<1>2. /\ replies' = replies \cup {[command |-> Cmd(p), result |-> "REJECTED", prior |-> Cmd(p)]}
      /\ version' = version
      /\ events' = events
  BY DEF Refuse, Answer, committed
<1>3. Atomic!Reject(Cmd(p))
  BY <1>2 DEF Atomic!Reject, Atomic!Told
<1> QED
  BY <1>1, <1>3 DEF Atomic!Next

LEMMA SilentStep ==
    ASSUME UNCHANGED <<committed, replies>>
    PROVE  UNCHANGED <<{e.command : e \in events}, version, replies>>
BY DEF committed

\* Every step of the executor is a step of the atomic commands, or none.
LEMMA ExecutorRefines ==
    ASSUME ExecutorIInv, [Next]_vars
    PROVE  [Atomic!Next]_<<{e.command : e \in events}, version, replies>>
<1>1. CASE UNCHANGED vars
  BY <1>1, SilentStep DEF vars
<1>2. ASSUME NEW p \in Processes, NEW c \in Commands, Begin(p, c)
      PROVE  UNCHANGED <<committed, replies>>
  BY <1>2 DEF Begin
<1>3. ASSUME NEW p \in Processes, Abort(p)
      PROVE  UNCHANGED <<committed, replies>>
  BY <1>3 DEF Abort
<1>4. ASSUME NEW p \in Processes, Commit(p)
      PROVE  Atomic!Next
  <2>1. Cmd(p) \in Commands /\ Atomic!Apply(Cmd(p))
    BY <1>4, CommitApplies
  <2> QED
    BY <2>1 DEF Atomic!Next, Atomic!Apply, Atomic!Told
<1>5. ASSUME NEW p \in Processes, LookUp(p) \/ Guard(p) \/ Reserve(p) \/ Read(p) \/ Write(p)
      PROVE  \/ UNCHANGED <<committed, replies>>
             \/ Completed(Cmd(p)) /\ AnswerPrior(p)
             \/ Refuse(p)
  BY <1>5 DEF LookUp, Guard, Reserve, MayReserve, Read, Write
<1>6. ASSUME NEW p \in Processes, LookUp(p) \/ Guard(p) \/ Reserve(p) \/ Read(p) \/ Write(p)
      PROVE  UNCHANGED <<committed, replies>> \/ Atomic!Next
  <2>1. ~At(p, "idle")
    BY <1>6 DEF LookUp, Guard, Reserve, Read, Write, At
  <2> QED
    BY <1>5, <1>6, <2>1, PriorIsTrue, RefuseRejects
<1> QED
  BY <1>1, <1>2, <1>3, <1>4, <1>6, SilentStep DEF Next, Step

\* The PostgreSQL executor implements atomic commands: a command takes effect
\* in one step, once per key, on the version it expects, and every answer is
\* true of that history.
THEOREM AtomicCommandsRefined == Spec => ImplementsAtomicCommands
<1>1. Init => Atomic!Init
  BY DEF Init, Atomic!Init
<1>2. ExecutorIInv /\ [Next]_vars => [Atomic!Next]_<<{e.command : e \in events}, version, replies>>
  BY ExecutorRefines
<1> QED
  BY <1>1, <1>2, ExecutorIInvHolds, PTL DEF Spec, ImplementsAtomicCommands, Atomic!Spec
=============================================================================
