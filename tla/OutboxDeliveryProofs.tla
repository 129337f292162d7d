------------------------- MODULE OutboxDeliveryProofs -------------------------
(***************************************************************************)
(* Proofs about the outbox, for any sets of rows and workers and any       *)
(* attempt limits.  A row and a worker meet only through the number of the *)
(* attempt, which stands for the lease token: the inductive invariant says *)
(* what a worker may still rely on when it comes back with a report.       *)
(***************************************************************************)
EXTENDS OutboxDelivery, TLAPS

Steps == {"stopped", "polling", "holding"} \cup Reports
Recorded == Terminal \cup {"FAILED_RETRYABLE", "LEASE_EXPIRED"}
InHand(w) == worker[w].step \notin {"stopped", "polling"}

DeliveryTypes ==
    /\ status \in [Rows -> Statuses]
    /\ attempts \in [Rows -> Nat]
    /\ owner \in [Rows -> Workers \cup {NoWorker}]
    /\ history \in [Rows -> Seq([worker : Workers, outcome : Recorded])]
    /\ due \subseteq Rows
    /\ created \in [Rows -> Nat]
    /\ retryAt \in [Rows -> Nat]
    /\ clock \in Nat
    /\ worker \in [Workers -> [step : Steps, row : Rows \cup {NoRow}, attempt : Nat]]
    /\ received \subseteq Rows

\* What a worker has in hand is an attempt at a committed row that was counted;
\* while it is the newest and open, the row is leased to this worker; and an
\* acknowledgment stands for a receipt.
HandsAgree ==
    \A w \in Workers : InHand(w) =>
        /\ worker[w].row \in Rows
        /\ status[worker[w].row] # "ABSENT"
        /\ worker[w].attempt \in 1..attempts[worker[w].row]
        /\ LeaseHeld(w) => owner[worker[w].row] = w
        /\ worker[w].step = "acknowledged" => worker[w].row \in received

\* Nothing is received that was not committed.
ReceivedCommitted == \A d \in received : status[d] # "ABSENT"

OutboxSafe ==
    /\ DeliveryTypes
    /\ AttemptsAccounted
    /\ HandsAgree
    /\ PublishedMeansReceived
    /\ ReceivedCommitted

-----------------------------------------------------------------------------
(* The initial state.                                                      *)

LEMMA InitSafe == Init => OutboxSafe
<1> SUFFICES ASSUME Init PROVE OutboxSafe
  OBVIOUS
<1> USE DEF Init, Stopped, Polling
<1>1. DeliveryTypes
  <2>1. <<>> \in Seq([worker : Workers, outcome : Recorded])
    OBVIOUS
  <2> QED
    BY <2>1 DEF DeliveryTypes, Statuses, Terminal, Steps
<1>2. AttemptsAccounted
  BY DEF AttemptsAccounted
<1>3. HandsAgree /\ PublishedMeansReceived /\ ReceivedCommitted
  BY DEF HandsAgree, InHand, PublishedMeansReceived, ReceivedCommitted
<1> QED
  BY <1>1, <1>2, <1>3 DEF OutboxSafe

-----------------------------------------------------------------------------
(* What the transactions do to a row and to a worker.                      *)

\* A report that finds its lease: the row was leased to this worker, and its
\* attempt ends with one outcome.
LEMMA FinishMoves ==
  ASSUME OutboxSafe, NEW w \in Workers, InHand(w), NEW outcome, Finish(w, outcome)
  PROVE  LET d == worker[w].row IN
         /\ d \in Rows /\ status[d] = "PUBLISHING" /\ owner[d] = w
         /\ attempts[d] = worker[w].attempt
         /\ attempts[d] = Len(history[d]) + 1
<1>1. LeaseHeld(w)
  BY DEF Finish
<1>2. /\ worker[w].row \in Rows
      /\ LeaseHeld(w) => owner[worker[w].row] = w
  BY DEF OutboxSafe, HandsAgree
<1>3. attempts[worker[w].row] = Len(history[worker[w].row]) + 1
  BY <1>1, <1>2 DEF OutboxSafe, AttemptsAccounted, LeaseHeld
<1> QED
  BY <1>1, <1>2, <1>3 DEF LeaseHeld

\* A claim appends the expiry of an open attempt, whose worker is known, and
\* nothing else.
LEMMA ExpiredMoves ==
  ASSUME OutboxSafe, NEW d \in Rows
  PROVE  /\ Expired(d) \in Seq([worker : Workers, outcome : Recorded])
         /\ status[d] = "PUBLISHING" => attempts[d] = Len(Expired(d))
         /\ status[d] # "PUBLISHING" => attempts[d] = Len(Expired(d))
<1>1. /\ history[d] \in Seq([worker : Workers, outcome : Recorded])
      /\ owner[d] \in Workers \cup {NoWorker}
  BY DEF OutboxSafe, DeliveryTypes
<1>2. /\ attempts[d] = Len(history[d]) + (IF status[d] = "PUBLISHING" THEN 1 ELSE 0)
      /\ status[d] = "PUBLISHING" <=> owner[d] # NoWorker
  BY DEF OutboxSafe, AttemptsAccounted
<1>3. CASE status[d] = "PUBLISHING"
  <2>1. [worker |-> owner[d], outcome |-> "LEASE_EXPIRED"] \in [worker : Workers, outcome : Recorded]
    BY <1>1, <1>2, <1>3 DEF Recorded
  <2> QED
    BY <1>1, <1>2, <1>3, <2>1 DEF Expired
<1>4. CASE status[d] # "PUBLISHING"
  BY <1>1, <1>2, <1>4 DEF Expired
<1> QED
  BY <1>3, <1>4

-----------------------------------------------------------------------------
(* The invariant is kept.                                                  *)

\* A report that finds its lease keeps the types.
LEMMA FinishTypes ==
  ASSUME OutboxSafe, NEW w \in Workers, InHand(w), NEW outcome \in Terminal \cup {"FAILED_RETRYABLE"}, Finish(w, outcome)
  PROVE  DeliveryTypes'
<1>0. /\ status \in [Rows -> Statuses] /\ attempts \in [Rows -> Nat]
      /\ owner \in [Rows -> Workers \cup {NoWorker}]
      /\ history \in [Rows -> Seq([worker : Workers, outcome : Recorded])]
      /\ due \subseteq Rows /\ created \in [Rows -> Nat] /\ retryAt \in [Rows -> Nat] /\ clock \in Nat
      /\ worker \in [Workers -> [step : Steps, row : Rows \cup {NoRow}, attempt : Nat]]
      /\ received \subseteq Rows
  BY DEF OutboxSafe, DeliveryTypes
<1> DEFINE d == worker[w].row
<1>1. d \in Rows /\ owner[d] = w
  BY FinishMoves
<1>2. [worker |-> owner[d], outcome |-> outcome] \in [worker : Workers, outcome : Recorded]
  BY <1>1 DEF Recorded
<1>3. history' \in [Rows -> Seq([worker : Workers, outcome : Recorded])]
  <2>0. history[d] \in Seq([worker : Workers, outcome : Recorded])
    BY <1>0, <1>1
  <2>1. Append(history[d], [worker |-> owner[d], outcome |-> outcome]) \in Seq([worker : Workers, outcome : Recorded])
    BY <1>2, <2>0
  <2>2. history' = [history EXCEPT ![d] = Append(@, [worker |-> owner[d], outcome |-> outcome])]
    BY DEF Finish
  <2> QED
    BY <1>0, <1>1, <2>1, <2>2
<1>4. worker' \in [Workers -> [step : Steps, row : Rows \cup {NoRow}, attempt : Nat]]
  BY <1>0 DEF Finish, Polling, Steps
<1> QED
  BY <1>0, <1>3, <1>4 DEF Finish, DeliveryTypes, Statuses

\* Every step keeps the types.
LEMMA TypesKept == OutboxSafe /\ [Next]_vars => DeliveryTypes'
<1> SUFFICES ASSUME OutboxSafe, [Next]_vars PROVE DeliveryTypes'
  OBVIOUS
<1>0. /\ status \in [Rows -> Statuses] /\ attempts \in [Rows -> Nat]
      /\ owner \in [Rows -> Workers \cup {NoWorker}]
      /\ history \in [Rows -> Seq([worker : Workers, outcome : Recorded])]
      /\ due \subseteq Rows /\ created \in [Rows -> Nat] /\ retryAt \in [Rows -> Nat] /\ clock \in Nat
      /\ worker \in [Workers -> [step : Steps, row : Rows \cup {NoRow}, attempt : Nat]]
      /\ received \subseteq Rows
  BY DEF OutboxSafe, DeliveryTypes
<1>1. ASSUME NEW d \in Rows, AppendIntent(d) PROVE DeliveryTypes'
  <2>1. /\ status' \in [Rows -> Statuses]
        /\ created' \in [Rows -> Nat]
        /\ clock' \in Nat
    BY <1>0, <1>1 DEF AppendIntent, Statuses
  <2> QED
    BY <1>0, <1>1, <2>1 DEF AppendIntent, DeliveryTypes
<1>2. ASSUME NEW d \in Rows, BackoffElapses(d) PROVE DeliveryTypes'
  <2>1. /\ retryAt' \in [Rows -> Nat]
        /\ clock' \in Nat
    BY <1>0, <1>2 DEF BackoffElapses
  <2> QED
    BY <1>0, <1>2, <2>1 DEF BackoffElapses, DeliveryTypes
<1>3. ASSUME NEW d \in Rows, LeaseExpires(d) PROVE DeliveryTypes'
  BY <1>0, <1>3 DEF LeaseExpires, DeliveryTypes, Statuses, Terminal, rowVars
<1>4. ASSUME NEW w \in Workers, NEW d \in Rows, ClaimRow(w, d) PROVE DeliveryTypes'
  <2>1. Expired(d) \in Seq([worker : Workers, outcome : Recorded])
    BY ExpiredMoves
  <2>2. history' \in [Rows -> Seq([worker : Workers, outcome : Recorded])]
    BY <1>0, <1>4, <2>1 DEF ClaimRow
  <2>3. worker' \in [Workers -> [step : Steps, row : Rows \cup {NoRow}, attempt : Nat]]
    <3>1. attempts[d] + 1 \in Nat
      BY <1>0
    <3>2. [step    |-> IF d \in Missing THEN "no event" ELSE "holding",
           row     |-> d,
           attempt |-> attempts[d] + 1] \in [step : Steps, row : Rows \cup {NoRow}, attempt : Nat]
      BY <3>1 DEF Steps, Reports
    <3> QED
      BY <1>0, <1>4, <3>2 DEF ClaimRow
  <2> QED
    BY <1>0, <1>4, <2>2, <2>3 DEF ClaimRow, DeliveryTypes, Statuses
<1>5. ASSUME NEW w \in Workers, NEW d \in Rows, DeadLetter(w, d) PROVE DeliveryTypes'
  <2>1. Expired(d) \in Seq([worker : Workers, outcome : Recorded])
    BY ExpiredMoves
  <2>2. history' \in [Rows -> Seq([worker : Workers, outcome : Recorded])]
    BY <1>0, <1>5, <2>1 DEF DeadLetter
  <2> QED
    BY <1>0, <1>5, <2>2 DEF DeadLetter, DeliveryTypes, Statuses, Terminal
<1>6. ASSUME NEW w \in Workers, Deliver(w) PROVE DeliveryTypes'
  <2>1. worker[w].row \in Rows
    BY <1>6 DEF OutboxSafe, HandsAgree, InHand, Deliver
  <2>2. worker' \in [Workers -> [step : Steps, row : Rows \cup {NoRow}, attempt : Nat]]
    <3>1. PICK report \in {"acknowledged", "rejected", "unavailable"} :
            worker' = [worker EXCEPT ![w] = [step |-> report, row |-> worker[w].row, attempt |-> worker[w].attempt]]
      BY <1>6 DEF Deliver
    <3>2. worker[w].attempt \in Nat
      BY <1>0
    <3>3. [step |-> report, row |-> worker[w].row, attempt |-> worker[w].attempt]
            \in [step : Steps, row : Rows \cup {NoRow}, attempt : Nat]
      BY <2>1, <3>2 DEF Steps, Reports
    <3> QED
      BY <1>0, <3>1, <3>3
  <2>3. received' \subseteq Rows
    BY <1>0, <1>6, <2>1 DEF Deliver
  <2> QED
    BY <1>0, <1>6, <2>2, <2>3 DEF Deliver, DeliveryTypes, rowVars
<1>7. ASSUME NEW w \in Workers, Published(w) PROVE DeliveryTypes'
  <2>1. PICK outcome \in Terminal \cup {"FAILED_RETRYABLE"} : Finish(w, outcome)
    BY <1>7 DEF Published, Terminal
  <2>2. InHand(w)
    BY <1>7 DEF Published, InHand
  <2> QED
    BY <2>1, <2>2, FinishTypes
<1>8. ASSUME NEW w \in Workers, Failed(w) PROVE DeliveryTypes'
  <2>1. PICK outcome \in Terminal \cup {"FAILED_RETRYABLE"} : Finish(w, outcome)
    BY <1>8 DEF Failed, Terminal
  <2>2. InHand(w)
    BY <1>8 DEF Failed, InHand
  <2> QED
    BY <2>1, <2>2, FinishTypes
<1>9. ASSUME NEW w \in Workers, StaleReport(w) PROVE DeliveryTypes'
  <2>1. worker' \in [Workers -> [step : Steps, row : Rows \cup {NoRow}, attempt : Nat]]
    BY <1>0, <1>9 DEF StaleReport, Steps, Stopped, Polling
  <2> QED
    BY <1>0, <1>9, <2>1 DEF StaleReport, DeliveryTypes, rowVars
<1>10. ASSUME NEW w \in Workers, SessionEnds(w) PROVE DeliveryTypes'
  <2>1. worker' \in [Workers -> [step : Steps, row : Rows \cup {NoRow}, attempt : Nat]]
    BY <1>0, <1>10 DEF SessionEnds, Steps, Stopped, Polling
  <2> QED
    BY <1>0, <1>10, <2>1 DEF SessionEnds, DeliveryTypes, rowVars
<1>11. ASSUME NEW w \in Workers, SessionStarts(w) PROVE DeliveryTypes'
  <2>1. worker' \in [Workers -> [step : Steps, row : Rows \cup {NoRow}, attempt : Nat]]
    BY <1>0, <1>11 DEF SessionStarts, Steps, Stopped, Polling
  <2> QED
    BY <1>0, <1>11, <2>1 DEF SessionStarts, DeliveryTypes, rowVars
<1>12. ASSUME UNCHANGED vars PROVE DeliveryTypes'
  BY <1>0, <1>12 DEF vars, rowVars, DeliveryTypes
<1> QED
  BY <1>1, <1>2, <1>3, <1>4, <1>5, <1>6, <1>7, <1>8, <1>9, <1>10, <1>11, <1>12 DEF Next, Claim, Report

\* AttemptsAccounted, of one row.
Accounted(d) ==
    /\ attempts[d] = Len(history[d]) + (IF status[d] = "PUBLISHING" THEN 1 ELSE 0)
    /\ status[d] = "PUBLISHING" <=> owner[d] # NoWorker

\* A report that finds its lease closes the attempt it accounts for.
LEMMA FinishAccounts ==
  ASSUME OutboxSafe, NEW w \in Workers, InHand(w), NEW outcome \in Terminal \cup {"FAILED_RETRYABLE"}, Finish(w, outcome)
  PROVE  AttemptsAccounted'
<1>0. /\ status \in [Rows -> Statuses] /\ attempts \in [Rows -> Nat]
      /\ owner \in [Rows -> Workers \cup {NoWorker}]
      /\ history \in [Rows -> Seq([worker : Workers, outcome : Recorded])]
      /\ \A x \in Rows : Accounted(x)
      /\ AttemptsAccounted
  BY DEF OutboxSafe, DeliveryTypes, AttemptsAccounted, Accounted
<1> DEFINE d == worker[w].row
<1>1. d \in Rows /\ attempts[d] = Len(history[d]) + 1
  BY FinishMoves
<1>2. history[d] \in Seq([worker : Workers, outcome : Recorded])
  BY <1>0, <1>1
<1>3. Len(Append(history[d], [worker |-> owner[d], outcome |-> outcome])) = Len(history[d]) + 1
  BY <1>2
<1> SUFFICES ASSUME NEW x \in Rows PROVE Accounted(x)'
  BY DEF AttemptsAccounted, Accounted
<1>4. CASE x = d
  <2>1. /\ status'[x] = outcome /\ owner'[x] = NoWorker /\ attempts'[x] = attempts[x]
        /\ history'[x] = Append(history[x], [worker |-> owner[x], outcome |-> outcome])
    BY <1>0, <1>1, <1>4 DEF Finish
  <2>2. outcome # "PUBLISHING"
    BY DEF Terminal
  <2>3. Len(history'[x]) = Len(history[x]) + 1 /\ Len(history[x]) \in Nat
    BY <1>2, <1>3, <1>4, <2>1
  <2> QED
    BY <1>1, <1>4, <2>1, <2>2, <2>3 DEF Accounted
<1>5. CASE x # d
  BY <1>0, <1>1, <1>5 DEF Finish, Accounted
<1> QED
  BY <1>4, <1>5

\* Every step keeps the accounts: an attempt is counted when its row is claimed
\* and closed when it is reported, or when it is found expired.
LEMMA AccountsKept == OutboxSafe /\ [Next]_vars => AttemptsAccounted'
<1> SUFFICES ASSUME OutboxSafe, [Next]_vars PROVE AttemptsAccounted'
  OBVIOUS
<1>0. /\ status \in [Rows -> Statuses] /\ attempts \in [Rows -> Nat]
      /\ owner \in [Rows -> Workers \cup {NoWorker}]
      /\ history \in [Rows -> Seq([worker : Workers, outcome : Recorded])]
      /\ \A x \in Rows : Accounted(x)
      /\ AttemptsAccounted
  BY DEF OutboxSafe, DeliveryTypes, AttemptsAccounted, Accounted
<1>1. ASSUME NEW d \in Rows, AppendIntent(d) PROVE AttemptsAccounted'
  <2> SUFFICES ASSUME NEW x \in Rows PROVE Accounted(x)'
    BY DEF AttemptsAccounted, Accounted
  <2> QED
    BY <1>0, <1>1 DEF AppendIntent, Accounted
<1>2. ASSUME NEW d \in Rows, BackoffElapses(d) PROVE AttemptsAccounted'
  BY <1>0, <1>2 DEF BackoffElapses, rowVars, AttemptsAccounted
<1>3. ASSUME NEW d \in Rows, LeaseExpires(d) PROVE AttemptsAccounted'
  BY <1>0, <1>3 DEF LeaseExpires, rowVars, AttemptsAccounted
<1>4. ASSUME NEW w \in Workers, NEW d \in Rows, ClaimRow(w, d) PROVE AttemptsAccounted'
  <2>1. attempts[d] = Len(Expired(d))
    BY ExpiredMoves
  <2> SUFFICES ASSUME NEW x \in Rows PROVE Accounted(x)'
    BY DEF AttemptsAccounted, Accounted
  <2>2. CASE x = d
    BY <1>0, <1>4, <2>1, <2>2, DeliveryAssumption DEF ClaimRow, Accounted
  <2>3. CASE x # d
    BY <1>0, <1>4, <2>3 DEF ClaimRow, Accounted
  <2> QED
    BY <2>2, <2>3
<1>5. ASSUME NEW w \in Workers, NEW d \in Rows, DeadLetter(w, d) PROVE AttemptsAccounted'
  <2>1. attempts[d] = Len(Expired(d))
    BY ExpiredMoves
  <2> SUFFICES ASSUME NEW x \in Rows PROVE Accounted(x)'
    BY DEF AttemptsAccounted, Accounted
  <2>2. CASE x = d
    BY <1>0, <1>5, <2>1, <2>2, DeliveryAssumption DEF DeadLetter, Accounted
  <2>3. CASE x # d
    BY <1>0, <1>5, <2>3 DEF DeadLetter, Accounted
  <2> QED
    BY <2>2, <2>3
<1>6. ASSUME NEW w \in Workers, Deliver(w) PROVE AttemptsAccounted'
  BY <1>0, <1>6 DEF Deliver, rowVars, AttemptsAccounted
<1>7. ASSUME NEW w \in Workers, Published(w) PROVE AttemptsAccounted'
  <2>1. PICK outcome \in Terminal \cup {"FAILED_RETRYABLE"} : Finish(w, outcome)
    BY <1>7 DEF Published, Terminal
  <2>2. InHand(w)
    BY <1>7 DEF Published, InHand
  <2> QED
    BY <2>1, <2>2, FinishAccounts
<1>8. ASSUME NEW w \in Workers, Failed(w) PROVE AttemptsAccounted'
  <2>1. PICK outcome \in Terminal \cup {"FAILED_RETRYABLE"} : Finish(w, outcome)
    BY <1>8 DEF Failed, Terminal
  <2>2. InHand(w)
    BY <1>8 DEF Failed, InHand
  <2> QED
    BY <2>1, <2>2, FinishAccounts
<1>9. ASSUME NEW w \in Workers, StaleReport(w) PROVE AttemptsAccounted'
  BY <1>0, <1>9 DEF StaleReport, rowVars, AttemptsAccounted
<1>10. ASSUME NEW w \in Workers, SessionEnds(w) PROVE AttemptsAccounted'
  BY <1>0, <1>10 DEF SessionEnds, rowVars, AttemptsAccounted
<1>11. ASSUME NEW w \in Workers, SessionStarts(w) PROVE AttemptsAccounted'
  BY <1>0, <1>11 DEF SessionStarts, rowVars, AttemptsAccounted
<1>12. ASSUME UNCHANGED vars PROVE AttemptsAccounted'
  BY <1>0, <1>12 DEF vars, rowVars, AttemptsAccounted
<1> QED
  BY <1>1, <1>2, <1>3, <1>4, <1>5, <1>6, <1>7, <1>8, <1>9, <1>10, <1>11, <1>12 DEF Next, Claim, Report
\* HandsAgree, of one worker.
Hand(w) ==
    InHand(w) =>
        /\ worker[w].row \in Rows
        /\ status[worker[w].row] # "ABSENT"
        /\ worker[w].attempt \in 1..attempts[worker[w].row]
        /\ LeaseHeld(w) => owner[worker[w].row] = w
        /\ worker[w].step = "acknowledged" => worker[w].row \in received

\* A worker that a step leaves alone keeps what it has in hand, if the row is
\* never uncommitted, its attempts are only ever added to, and an open attempt
\* changes hands only with a new number.
LEMMA HandKept ==
  ASSUME OutboxSafe, NEW x \in Workers, worker'[x] = worker[x],
         \A d \in Rows : /\ status[d] # "ABSENT" => status'[d] # "ABSENT"
                         /\ attempts'[d] \in Nat /\ attempts[d] <= attempts'[d]
                         /\ status'[d] = "PUBLISHING" /\ attempts'[d] = attempts[d]
                            => status[d] = "PUBLISHING" /\ owner'[d] = owner[d],
         received \subseteq received'
  PROVE  Hand(x)'
<1>0. /\ attempts \in [Rows -> Nat]
      /\ Hand(x)
  BY DEF OutboxSafe, DeliveryTypes, HandsAgree, Hand
<1> SUFFICES ASSUME InHand(x)' PROVE /\ worker[x].row \in Rows
                                     /\ status'[worker[x].row] # "ABSENT"
                                     /\ worker[x].attempt \in 1..attempts'[worker[x].row]
                                     /\ LeaseHeld(x)' => owner'[worker[x].row] = x
                                     /\ worker[x].step = "acknowledged" => worker[x].row \in received'
  BY DEF Hand
<1>1. InHand(x)
  BY DEF InHand
<1>2. /\ worker[x].row \in Rows
      /\ status[worker[x].row] # "ABSENT"
      /\ worker[x].attempt \in 1..attempts[worker[x].row]
      /\ LeaseHeld(x) => owner[worker[x].row] = x
      /\ worker[x].step = "acknowledged" => worker[x].row \in received
  BY <1>0, <1>1 DEF Hand
<1>3. worker[x].attempt \in 1..attempts'[worker[x].row]
  BY <1>0, <1>2
<1>4. ASSUME LeaseHeld(x)' PROVE owner'[worker[x].row] = x
  <2>1. status'[worker[x].row] = "PUBLISHING" /\ attempts'[worker[x].row] = worker[x].attempt
    BY <1>4 DEF LeaseHeld
  <2>2. attempts'[worker[x].row] = attempts[worker[x].row]
    BY <1>0, <1>2, <2>1
  <2> QED
    BY <1>2, <2>1, <2>2 DEF LeaseHeld
<1> QED
  BY <1>2, <1>3, <1>4

\* A report that finds its lease leaves the other workers what they had: the
\* attempt is over, and its number is not used again.
LEMMA FinishHands ==
  ASSUME OutboxSafe, NEW w \in Workers, InHand(w), NEW outcome \in Terminal \cup {"FAILED_RETRYABLE"}, Finish(w, outcome)
  PROVE  HandsAgree'
<1>0. /\ status \in [Rows -> Statuses] /\ attempts \in [Rows -> Nat]
      /\ owner \in [Rows -> Workers \cup {NoWorker}]
      /\ worker \in [Workers -> [step : Steps, row : Rows \cup {NoRow}, attempt : Nat]]
      /\ received \subseteq Rows
      /\ \A x \in Workers : Hand(x)
  BY DEF OutboxSafe, DeliveryTypes, HandsAgree, Hand
<1> SUFFICES ASSUME NEW x \in Workers PROVE Hand(x)'
  BY DEF HandsAgree, Hand
<1>1. worker[w].row \in Rows
  BY FinishMoves
<1>2. outcome \notin {"ABSENT", "PUBLISHING"}
  BY DEF Terminal
<1>3. /\ \A e \in Rows : /\ status[e] # "ABSENT" => status'[e] # "ABSENT"
                         /\ attempts'[e] \in Nat /\ attempts[e] <= attempts'[e]
                         /\ status'[e] = "PUBLISHING" /\ attempts'[e] = attempts[e]
                            => status[e] = "PUBLISHING" /\ owner'[e] = owner[e]
      /\ received \subseteq received'
  BY <1>0, <1>1, <1>2 DEF Finish
<1>4. CASE x # w
  <2>1. worker'[x] = worker[x]
    BY <1>0, <1>4 DEF Finish
  <2> QED
    BY <1>3, <2>1, HandKept
<1>5. CASE x = w
  BY <1>0, <1>5 DEF Finish, Hand, InHand, Polling
<1> QED
  BY <1>4, <1>5

\* Every step leaves every worker with something it may rely on.
LEMMA HandsKept == OutboxSafe /\ [Next]_vars => HandsAgree'
<1> SUFFICES ASSUME OutboxSafe, [Next]_vars PROVE HandsAgree'
  OBVIOUS
<1>0. /\ status \in [Rows -> Statuses] /\ attempts \in [Rows -> Nat]
      /\ owner \in [Rows -> Workers \cup {NoWorker}]
      /\ worker \in [Workers -> [step : Steps, row : Rows \cup {NoRow}, attempt : Nat]]
      /\ received \subseteq Rows
      /\ \A x \in Workers : Hand(x)
  BY DEF OutboxSafe, DeliveryTypes, HandsAgree, Hand
<1>1. ASSUME NEW d \in Rows, AppendIntent(d) PROVE HandsAgree'
  <2> SUFFICES ASSUME NEW x \in Workers PROVE Hand(x)'
    BY DEF HandsAgree, Hand
  <2>1. /\ \A e \in Rows : /\ status[e] # "ABSENT" => status'[e] # "ABSENT"
                           /\ attempts'[e] \in Nat /\ attempts[e] <= attempts'[e]
                           /\ status'[e] = "PUBLISHING" /\ attempts'[e] = attempts[e]
                              => status[e] = "PUBLISHING" /\ owner'[e] = owner[e]
        /\ received \subseteq received'
    BY <1>0, <1>1 DEF AppendIntent, rowVars
  <2>2. worker'[x] = worker[x]
    BY <1>1 DEF AppendIntent
  <2> QED
    BY <2>1, <2>2, HandKept
<1>2. ASSUME NEW d \in Rows, BackoffElapses(d) PROVE HandsAgree'
  <2> SUFFICES ASSUME NEW x \in Workers PROVE Hand(x)'
    BY DEF HandsAgree, Hand
  <2>1. /\ \A e \in Rows : /\ status[e] # "ABSENT" => status'[e] # "ABSENT"
                           /\ attempts'[e] \in Nat /\ attempts[e] <= attempts'[e]
                           /\ status'[e] = "PUBLISHING" /\ attempts'[e] = attempts[e]
                              => status[e] = "PUBLISHING" /\ owner'[e] = owner[e]
        /\ received \subseteq received'
    BY <1>0, <1>2 DEF BackoffElapses, rowVars
  <2>2. worker'[x] = worker[x]
    BY <1>2 DEF BackoffElapses
  <2> QED
    BY <2>1, <2>2, HandKept
<1>3. ASSUME NEW d \in Rows, LeaseExpires(d) PROVE HandsAgree'
  <2> SUFFICES ASSUME NEW x \in Workers PROVE Hand(x)'
    BY DEF HandsAgree, Hand
  <2>1. /\ \A e \in Rows : /\ status[e] # "ABSENT" => status'[e] # "ABSENT"
                           /\ attempts'[e] \in Nat /\ attempts[e] <= attempts'[e]
                           /\ status'[e] = "PUBLISHING" /\ attempts'[e] = attempts[e]
                              => status[e] = "PUBLISHING" /\ owner'[e] = owner[e]
        /\ received \subseteq received'
    BY <1>0, <1>3 DEF LeaseExpires, rowVars
  <2>2. worker'[x] = worker[x]
    BY <1>3 DEF LeaseExpires
  <2> QED
    BY <2>1, <2>2, HandKept
<1>4. ASSUME NEW w \in Workers, NEW d \in Rows, ClaimRow(w, d) PROVE HandsAgree'
  <2> SUFFICES ASSUME NEW x \in Workers PROVE Hand(x)'
    BY DEF HandsAgree, Hand
  <2>1. /\ \A e \in Rows : /\ status[e] # "ABSENT" => status'[e] # "ABSENT"
                           /\ attempts'[e] \in Nat /\ attempts[e] <= attempts'[e]
                           /\ status'[e] = "PUBLISHING" /\ attempts'[e] = attempts[e]
                              => status[e] = "PUBLISHING" /\ owner'[e] = owner[e]
        /\ received \subseteq received'
    <3>1. /\ attempts' = [attempts EXCEPT ![d] = @ + 1]
          /\ status' = [status EXCEPT ![d] = "PUBLISHING"]
          /\ owner' = [owner EXCEPT ![d] = w]
          /\ received' = received
      BY <1>4 DEF ClaimRow
    <3>2. ASSUME NEW e \in Rows, e # d
          PROVE  status'[e] = status[e] /\ attempts'[e] = attempts[e] /\ owner'[e] = owner[e]
      BY <1>0, <3>1, <3>2
    <3>3. /\ status'[d] = "PUBLISHING" /\ attempts'[d] = attempts[d] + 1
          /\ attempts[d] \in Nat
      BY <1>0, <3>1
    <3> QED
      BY <1>0, <3>1, <3>2, <3>3
  <2>2. CASE x # w
    <3>1. worker'[x] = worker[x]
      BY <1>0, <1>4, <2>2 DEF ClaimRow
    <3> QED
      BY <2>1, <3>1, HandKept
  <2>3. CASE x = w
    <3>1. /\ worker'[w].row = d /\ worker'[w].attempt = attempts[d] + 1
          /\ worker'[w].step \in {"no event", "holding"}
          /\ status'[d] = "PUBLISHING" /\ attempts'[d] = attempts[d] + 1 /\ owner'[d] = w
      BY <1>0, <1>4 DEF ClaimRow
    <3>2. attempts[d] \in Nat
      BY <1>0
    <3>3. worker'[w].attempt \in 1..attempts'[d]
      <4>1. attempts[d] + 1 \in 1..(attempts[d] + 1)
        BY <3>2
      <4> QED
        BY <3>1, <4>1
    <3> QED
      BY <2>3, <3>1, <3>3 DEF Hand
  <2> QED
    BY <2>2, <2>3
<1>5. ASSUME NEW w \in Workers, NEW d \in Rows, DeadLetter(w, d) PROVE HandsAgree'
  <2> SUFFICES ASSUME NEW x \in Workers PROVE Hand(x)'
    BY DEF HandsAgree, Hand
  <2>1. /\ \A e \in Rows : /\ status[e] # "ABSENT" => status'[e] # "ABSENT"
                           /\ attempts'[e] \in Nat /\ attempts[e] <= attempts'[e]
                           /\ status'[e] = "PUBLISHING" /\ attempts'[e] = attempts[e]
                              => status[e] = "PUBLISHING" /\ owner'[e] = owner[e]
        /\ received \subseteq received'
    BY <1>0, <1>5 DEF DeadLetter, rowVars
  <2>2. worker'[x] = worker[x]
    BY <1>5 DEF DeadLetter
  <2> QED
    BY <2>1, <2>2, HandKept
<1>6. ASSUME NEW w \in Workers, Deliver(w) PROVE HandsAgree'
  <2> SUFFICES ASSUME NEW x \in Workers PROVE Hand(x)'
    BY DEF HandsAgree, Hand
  <2>1. /\ \A e \in Rows : /\ status[e] # "ABSENT" => status'[e] # "ABSENT"
                           /\ attempts'[e] \in Nat /\ attempts[e] <= attempts'[e]
                           /\ status'[e] = "PUBLISHING" /\ attempts'[e] = attempts[e]
                              => status[e] = "PUBLISHING" /\ owner'[e] = owner[e]
        /\ received \subseteq received'
    BY <1>0, <1>6 DEF Deliver, rowVars
  <2>2. CASE x # w
    <3>1. worker'[x] = worker[x]
      BY <1>0, <1>6, <2>2 DEF Deliver
    <3> QED
      BY <2>1, <3>1, HandKept
  <2>3. CASE x = w
    <3>1. PICK stored \in BOOLEAN, report \in {"acknowledged", "rejected", "unavailable"} :
            /\ report = "acknowledged" => stored
            /\ received' = IF stored THEN received \cup {worker[w].row} ELSE received
            /\ worker' = [worker EXCEPT ![w] = [step |-> report, row |-> worker[w].row, attempt |-> worker[w].attempt]]
      BY <1>6 DEF Deliver, Acknowledged
    <3>2. worker'[w] = [step |-> report, row |-> worker[w].row, attempt |-> worker[w].attempt]
      BY <1>0, <3>1
    <3>3. Hand(w) /\ InHand(w)
      BY <1>0, <1>6 DEF InHand, Deliver
    <3>4. report = "acknowledged" => worker[w].row \in received'
      BY <3>1
    <3>5. UNCHANGED <<status, attempts, owner>>
      BY <1>6 DEF Deliver, rowVars
    <3> QED
      BY <2>3, <3>2, <3>3, <3>4, <3>5 DEF Hand, LeaseHeld
  <2> QED
    BY <2>2, <2>3
<1>7. ASSUME NEW w \in Workers, Published(w) PROVE HandsAgree'
  <2>0. PICK outcome \in Terminal \cup {"FAILED_RETRYABLE"} : Finish(w, outcome)
    BY <1>7 DEF Published, Terminal
  <2> QED
    BY <1>7, <2>0, FinishHands DEF Published, InHand
<1>8. ASSUME NEW w \in Workers, Failed(w) PROVE HandsAgree'
  <2>0. PICK outcome \in Terminal \cup {"FAILED_RETRYABLE"} : Finish(w, outcome)
    BY <1>8 DEF Failed, Terminal
  <2> QED
    BY <1>8, <2>0, FinishHands DEF Failed, InHand
<1>9. ASSUME NEW w \in Workers, StaleReport(w) PROVE HandsAgree'
  <2> SUFFICES ASSUME NEW x \in Workers PROVE Hand(x)'
    BY DEF HandsAgree, Hand
  <2>1. /\ \A e \in Rows : /\ status[e] # "ABSENT" => status'[e] # "ABSENT"
                           /\ attempts'[e] \in Nat /\ attempts[e] <= attempts'[e]
                           /\ status'[e] = "PUBLISHING" /\ attempts'[e] = attempts[e]
                              => status[e] = "PUBLISHING" /\ owner'[e] = owner[e]
        /\ received \subseteq received'
    BY <1>0, <1>9 DEF StaleReport, rowVars
  <2>2. CASE x # w
    <3>1. worker'[x] = worker[x]
      BY <1>0, <1>9, <2>2 DEF StaleReport
    <3> QED
      BY <2>1, <3>1, HandKept
  <2>3. CASE x = w
    BY <1>0, <1>9, <2>3 DEF StaleReport, Hand, InHand, Stopped, Polling
  <2> QED
    BY <2>2, <2>3
<1>10. ASSUME NEW w \in Workers, SessionEnds(w) PROVE HandsAgree'
  <2> SUFFICES ASSUME NEW x \in Workers PROVE Hand(x)'
    BY DEF HandsAgree, Hand
  <2>1. /\ \A e \in Rows : /\ status[e] # "ABSENT" => status'[e] # "ABSENT"
                           /\ attempts'[e] \in Nat /\ attempts[e] <= attempts'[e]
                           /\ status'[e] = "PUBLISHING" /\ attempts'[e] = attempts[e]
                              => status[e] = "PUBLISHING" /\ owner'[e] = owner[e]
        /\ received \subseteq received'
    BY <1>0, <1>10 DEF SessionEnds, rowVars
  <2>2. CASE x # w
    <3>1. worker'[x] = worker[x]
      BY <1>0, <1>10, <2>2 DEF SessionEnds
    <3> QED
      BY <2>1, <3>1, HandKept
  <2>3. CASE x = w
    BY <1>0, <1>10, <2>3 DEF SessionEnds, Hand, InHand, Stopped, Polling
  <2> QED
    BY <2>2, <2>3
<1>11. ASSUME NEW w \in Workers, SessionStarts(w) PROVE HandsAgree'
  <2> SUFFICES ASSUME NEW x \in Workers PROVE Hand(x)'
    BY DEF HandsAgree, Hand
  <2>1. /\ \A e \in Rows : /\ status[e] # "ABSENT" => status'[e] # "ABSENT"
                           /\ attempts'[e] \in Nat /\ attempts[e] <= attempts'[e]
                           /\ status'[e] = "PUBLISHING" /\ attempts'[e] = attempts[e]
                              => status[e] = "PUBLISHING" /\ owner'[e] = owner[e]
        /\ received \subseteq received'
    BY <1>0, <1>11 DEF SessionStarts, rowVars
  <2>2. CASE x # w
    <3>1. worker'[x] = worker[x]
      BY <1>0, <1>11, <2>2 DEF SessionStarts
    <3> QED
      BY <2>1, <3>1, HandKept
  <2>3. CASE x = w
    BY <1>0, <1>11, <2>3 DEF SessionStarts, Hand, InHand, Stopped, Polling
  <2> QED
    BY <2>2, <2>3
<1>12. ASSUME UNCHANGED vars PROVE HandsAgree'
  <2> SUFFICES ASSUME NEW x \in Workers PROVE Hand(x)'
    BY DEF HandsAgree, Hand
  <2>1. /\ \A e \in Rows : /\ status[e] # "ABSENT" => status'[e] # "ABSENT"
                           /\ attempts'[e] \in Nat /\ attempts[e] <= attempts'[e]
                           /\ status'[e] = "PUBLISHING" /\ attempts'[e] = attempts[e]
                              => status[e] = "PUBLISHING" /\ owner'[e] = owner[e]
        /\ received \subseteq received'
    BY <1>0, <1>12 DEF vars, rowVars
  <2>2. worker'[x] = worker[x]
    BY <1>12 DEF vars
  <2> QED
    BY <2>1, <2>2, HandKept
<1> QED
  BY <1>1, <1>2, <1>3, <1>4, <1>5, <1>6, <1>7, <1>8, <1>9, <1>10, <1>11, <1>12 DEF Next, Claim, Report

\* No receipt is ever lost, and a row is published only by a worker whose
\* acknowledgment stood for one.
LEMMA ReceiptsKept == OutboxSafe /\ [Next]_vars => PublishedMeansReceived' /\ ReceivedCommitted'
<1> SUFFICES ASSUME OutboxSafe, [Next]_vars PROVE PublishedMeansReceived' /\ ReceivedCommitted'
  OBVIOUS
<1>0. /\ status \in [Rows -> Statuses] /\ received \subseteq Rows
      /\ PublishedMeansReceived /\ ReceivedCommitted
  BY DEF OutboxSafe, DeliveryTypes
<1>1. ASSUME NEW d \in Rows, AppendIntent(d) PROVE PublishedMeansReceived' /\ ReceivedCommitted'
  BY <1>0, <1>1 DEF AppendIntent, rowVars, PublishedMeansReceived, ReceivedCommitted
<1>2. ASSUME NEW d \in Rows, BackoffElapses(d) PROVE PublishedMeansReceived' /\ ReceivedCommitted'
  BY <1>0, <1>2 DEF BackoffElapses, rowVars, PublishedMeansReceived, ReceivedCommitted
<1>3. ASSUME NEW d \in Rows, LeaseExpires(d) PROVE PublishedMeansReceived' /\ ReceivedCommitted'
  BY <1>0, <1>3 DEF LeaseExpires, rowVars, PublishedMeansReceived, ReceivedCommitted
<1>4. ASSUME NEW w \in Workers, NEW d \in Rows, ClaimRow(w, d) PROVE PublishedMeansReceived' /\ ReceivedCommitted'
  BY <1>0, <1>4 DEF ClaimRow, rowVars, PublishedMeansReceived, ReceivedCommitted
<1>5. ASSUME NEW w \in Workers, NEW d \in Rows, DeadLetter(w, d) PROVE PublishedMeansReceived' /\ ReceivedCommitted'
  BY <1>0, <1>5 DEF DeadLetter, rowVars, PublishedMeansReceived, ReceivedCommitted
<1>6. ASSUME NEW w \in Workers, Deliver(w) PROVE PublishedMeansReceived' /\ ReceivedCommitted'
  <2>1. worker[w].row \in Rows /\ status[worker[w].row] # "ABSENT"
    BY <1>6 DEF OutboxSafe, HandsAgree, InHand, Deliver
  <2>2. /\ received \subseteq received' /\ received' \subseteq received \cup {worker[w].row}
        /\ status' = status
    BY <1>6 DEF Deliver, rowVars
  <2> QED
    BY <1>0, <2>1, <2>2 DEF PublishedMeansReceived, ReceivedCommitted
<1>7. ASSUME NEW w \in Workers, Published(w) PROVE PublishedMeansReceived' /\ ReceivedCommitted'
  <2>1. worker[w].row \in Rows
    BY <1>7 DEF OutboxSafe, HandsAgree, InHand, Published
  <2>2. worker[w].step = "acknowledged" => worker[w].row \in received
    BY <1>7 DEF OutboxSafe, HandsAgree, InHand, Published
  <2> QED
    BY <1>0, <1>7, <2>1, <2>2 DEF Published, Finish, PublishedMeansReceived, ReceivedCommitted
<1>8. ASSUME NEW w \in Workers, Failed(w) PROVE PublishedMeansReceived' /\ ReceivedCommitted'
  <2>1. worker[w].row \in Rows
    BY <1>8 DEF OutboxSafe, HandsAgree, InHand, Failed
  <2> QED
    BY <1>0, <1>8, <2>1 DEF Failed, Finish, PublishedMeansReceived, ReceivedCommitted
<1>9. ASSUME NEW w \in Workers, StaleReport(w) PROVE PublishedMeansReceived' /\ ReceivedCommitted'
  BY <1>0, <1>9 DEF StaleReport, rowVars, PublishedMeansReceived, ReceivedCommitted
<1>10. ASSUME NEW w \in Workers, SessionEnds(w) PROVE PublishedMeansReceived' /\ ReceivedCommitted'
  BY <1>0, <1>10 DEF SessionEnds, rowVars, PublishedMeansReceived, ReceivedCommitted
<1>11. ASSUME NEW w \in Workers, SessionStarts(w) PROVE PublishedMeansReceived' /\ ReceivedCommitted'
  BY <1>0, <1>11 DEF SessionStarts, rowVars, PublishedMeansReceived, ReceivedCommitted
<1>12. ASSUME UNCHANGED vars PROVE PublishedMeansReceived' /\ ReceivedCommitted'
  BY <1>0, <1>12 DEF vars, rowVars, PublishedMeansReceived, ReceivedCommitted
<1> QED
  BY <1>1, <1>2, <1>3, <1>4, <1>5, <1>6, <1>7, <1>8, <1>9, <1>10, <1>11, <1>12 DEF Next, Claim, Report

-----------------------------------------------------------------------------
(* The theorems.                                                           *)

\* The invariant holds in every state of the outbox, for any number of rows and
\* workers and any attempt limits.
THEOREM OutboxInvariant == Spec => []OutboxSafe
<1>1. OutboxSafe /\ [Next]_vars => OutboxSafe'
  <2> SUFFICES ASSUME OutboxSafe, [Next]_vars PROVE OutboxSafe'
    OBVIOUS
  <2>1. DeliveryTypes' /\ AttemptsAccounted' /\ HandsAgree'
    BY TypesKept, AccountsKept, HandsKept
  <2>2. PublishedMeansReceived' /\ ReceivedCommitted'
    BY ReceiptsKept
  <2> QED
    BY <2>1, <2>2 DEF OutboxSafe
<1> QED
  BY <1>1, InitSafe, PTL DEF Spec

\* Nothing is published without a durable receipt at the receiver.
THEOREM PublishedIsReceived == Spec => []PublishedMeansReceived
<1>1. OutboxSafe => PublishedMeansReceived
  BY DEF OutboxSafe
<1> QED
  BY <1>1, OutboxInvariant, PTL

\* Every attempt leaves exactly one outcome, reported or expired.
THEOREM AttemptsAreAccounted == Spec => []AttemptsAccounted
<1>1. OutboxSafe => AttemptsAccounted
  BY DEF OutboxSafe
<1> QED
  BY <1>1, OutboxInvariant, PTL

\* A late report never speaks for the attempt of the worker that took over.
THEOREM OutcomesAreOwn == Spec => OutcomeOfOwnAttempt
<1> DEFINE Own ==
      \A d \in Rows, w \in Workers :
         /\ history'[d] # history[d]
         /\ worker[w].step \in Reports
         /\ worker'[w] # worker[w]
         => worker[w].row = d /\ worker[w].attempt = Len(history'[d])
<1>1. OutboxSafe /\ [Next]_vars => [Own]_vars
  <2> SUFFICES ASSUME OutboxSafe, Next, NEW x \in Rows, NEW v \in Workers,
                      history'[x] # history[x], worker[v].step \in Reports, worker'[v] # worker[v]
               PROVE  worker[v].row = x /\ worker[v].attempt = Len(history'[x])
    OBVIOUS
  <2>0. /\ worker \in [Workers -> [step : Steps, row : Rows \cup {NoRow}, attempt : Nat]]
        /\ history \in [Rows -> Seq([worker : Workers, outcome : Recorded])]
    BY DEF OutboxSafe, DeliveryTypes
  <2>1. PICK w \in Workers : \/ \E d \in Rows : ClaimRow(w, d) \/ DeadLetter(w, d)
                            \/ Published(w) \/ Failed(w)
    BY DEF Next, Claim, Report, AppendIntent, BackoffElapses, LeaseExpires, Deliver, StaleReport,
           SessionEnds, SessionStarts, rowVars
  <2>2. ASSUME NEW d \in Rows, ClaimRow(w, d) PROVE FALSE
    <3>1. worker[w].step = "polling" /\ (v # w => worker'[v] = worker[v])
      BY <2>0, <2>2 DEF ClaimRow
    <3> QED
      BY <3>1 DEF Reports
  <2>3. ASSUME NEW d \in Rows, DeadLetter(w, d) PROVE FALSE
    BY <2>3 DEF DeadLetter
  <2>4. CASE Published(w) \/ Failed(w)
    <3>1. PICK outcome : Finish(w, outcome)
      BY <2>4 DEF Published, Failed
    <3>2. InHand(w)
      BY <2>4 DEF Published, Failed, InHand
    <3>3. /\ worker[w].row \in Rows
          /\ attempts[worker[w].row] = worker[w].attempt
          /\ attempts[worker[w].row] = Len(history[worker[w].row]) + 1
      BY <3>1, <3>2, FinishMoves
    <3>4. v = w /\ x = worker[w].row
      BY <2>0, <3>1, <3>3 DEF Finish
    <3>5. history'[x] = Append(history[x], [worker |-> owner[x], outcome |-> outcome])
      BY <2>0, <3>1, <3>4 DEF Finish
    <3>6. history[x] \in Seq([worker : Workers, outcome : Recorded])
      BY <2>0
    <3>7. Len(history'[x]) = Len(history[x]) + 1
      BY <3>5, <3>6
    <3> QED
      BY <3>3, <3>4, <3>7
  <2> QED
    BY <2>1, <2>2, <2>3, <2>4
<1>2. [][Own]_vars => OutcomeOfOwnAttempt
  BY DEF OutcomeOfOwnAttempt
<1> QED
  BY <1>1, <1>2, OutboxInvariant, PTL DEF Spec

\* The outbox implements its promise: an event is published only after it was
\* received, and published or given up is said once.
THEOREM PromiseRefined == Spec => ImplementsPromise
<1> DEFINE committed == {d \in Rows : status[d] # "ABSENT"}
           published == {d \in Rows : status[d] = "PUBLISHED"}
           abandoned == {d \in Rows : status[d] = "FAILED_TERMINAL"}
<1>1. Init => Promise!Init
  BY DEF Init, Promise!Init
<1>2. OutboxSafe /\ [Next]_vars => [Promise!Next]_<<committed, received, published, abandoned>>
  <2> SUFFICES ASSUME OutboxSafe, [Next]_vars
               PROVE  \/ \E e \in Rows : \/ Promise!Commit(e) \/ Promise!Receive(e)
                                         \/ Promise!Publish(e) \/ Promise!Abandon(e)
                      \/ UNCHANGED <<committed, received, published, abandoned>>
    BY DEF Promise!Next
  <2>0. status \in [Rows -> Statuses] /\ received \subseteq Rows
    BY DEF OutboxSafe, DeliveryTypes
  <2>1. ASSUME NEW d \in Rows, AppendIntent(d) PROVE Promise!Commit(d)
    <3>1. /\ committed' = committed \cup {d} /\ published' = published /\ abandoned' = abandoned
      BY <2>0, <2>1 DEF AppendIntent
    <3> QED
      BY <2>1, <3>1 DEF AppendIntent, Promise!Commit
  <2>2. ASSUME NEW w \in Workers, NEW d \in Rows, DeadLetter(w, d) PROVE Promise!Abandon(d)
    <3>1. /\ committed' = committed /\ published' = published /\ abandoned' = abandoned \cup {d}
      BY <2>0, <2>2 DEF DeadLetter
    <3> QED
      BY <2>2, <3>1 DEF DeadLetter, Promise!Abandon
  <2>3. ASSUME NEW w \in Workers, NEW d \in Rows, ClaimRow(w, d)
        PROVE  UNCHANGED <<committed, received, published, abandoned>>
    <3>1. status[d] \notin {"ABSENT"} \cup Terminal
      BY <2>3 DEF ClaimRow, FirstUnlocked, Eligible, Terminal
    <3>2. status' = [status EXCEPT ![d] = "PUBLISHING"] /\ received' = received
      BY <2>3 DEF ClaimRow
    <3> QED
      BY <2>0, <3>1, <3>2 DEF Terminal
  <2>4. ASSUME NEW w \in Workers, Deliver(w)
        PROVE  \/ \E e \in Rows : Promise!Receive(e)
               \/ UNCHANGED <<committed, received, published, abandoned>>
    <3>1. PICK e \in Rows : e = worker[w].row /\ status[e] # "ABSENT"
      BY <2>4 DEF OutboxSafe, HandsAgree, InHand, Deliver
    <3>2. /\ status' = status
          /\ received' \in {received, received \cup {e}}
      BY <2>4, <3>1 DEF Deliver, rowVars
    <3>3. CASE received' = received \cup {e}
      <4>1. Promise!Receive(e)
        BY <3>1, <3>2, <3>3 DEF Promise!Receive
      <4> QED
        BY <4>1
    <3>4. CASE received' = received
      BY <3>2, <3>4
    <3> QED
      BY <3>2, <3>3, <3>4
  <2>5. ASSUME NEW w \in Workers, Published(w) PROVE \E e \in Rows : Promise!Publish(e)
    <3>1. PICK e \in Rows : e = worker[w].row /\ e \in received
      BY <2>5 DEF OutboxSafe, HandsAgree, InHand, Published
    <3>2. /\ status[e] = "PUBLISHING"
          /\ status' = [status EXCEPT ![e] = "PUBLISHED"]
          /\ received' = received
      BY <2>5, <3>1 DEF Published, Finish, LeaseHeld
    <3>3. committed' = committed /\ published' = published \cup {e} /\ abandoned' = abandoned
      BY <2>0, <3>1, <3>2
    <3>4. Promise!Publish(e)
      BY <3>1, <3>2, <3>3 DEF Promise!Publish
    <3> QED
      BY <3>4
  <2>6. ASSUME NEW w \in Workers, Failed(w)
        PROVE  \/ \E e \in Rows : Promise!Abandon(e)
               \/ UNCHANGED <<committed, received, published, abandoned>>
    <3>1. PICK e \in Rows : e = worker[w].row
      BY <2>6 DEF OutboxSafe, HandsAgree, InHand, Failed
    <3>2. PICK outcome \in {"FAILED_RETRYABLE", "FAILED_TERMINAL"} : Finish(w, outcome)
      BY <2>6 DEF Failed
    <3>3. /\ status[e] = "PUBLISHING"
          /\ status' = [status EXCEPT ![e] = outcome]
          /\ received' = received
      BY <3>1, <3>2 DEF Finish, LeaseHeld
    <3>4. committed' = committed /\ published' = published
      BY <2>0, <3>3
    <3>5. CASE outcome = "FAILED_RETRYABLE"
      <4>1. abandoned' = abandoned
        BY <2>0, <3>3, <3>5
      <4> QED
        BY <3>3, <3>4, <4>1
    <3>6. CASE outcome = "FAILED_TERMINAL"
      <4>1. abandoned' = abandoned \cup {e}
        BY <2>0, <3>3, <3>6
      <4>2. Promise!Abandon(e)
        BY <3>3, <3>4, <4>1 DEF Promise!Abandon
      <4> QED
        BY <4>2
    <3> QED
      BY <3>5, <3>6
  <2>7. ASSUME NEW d \in Rows, BackoffElapses(d) \/ LeaseExpires(d)
        PROVE  UNCHANGED <<committed, received, published, abandoned>>
    BY <2>7 DEF BackoffElapses, LeaseExpires, rowVars
  <2>8. ASSUME NEW w \in Workers, StaleReport(w) \/ SessionEnds(w) \/ SessionStarts(w)
        PROVE  UNCHANGED <<committed, received, published, abandoned>>
    BY <2>8 DEF StaleReport, SessionEnds, SessionStarts, rowVars
  <2>9. CASE UNCHANGED vars
    BY <2>9 DEF vars, rowVars
  <2> HIDE DEF committed, published, abandoned
  <2>10. CASE \E d \in Rows : AppendIntent(d) \/ BackoffElapses(d) \/ LeaseExpires(d)
    BY <2>1, <2>7, <2>10
  <2>11. CASE \E w \in Workers, d \in Rows : ClaimRow(w, d) \/ DeadLetter(w, d)
    BY <2>2, <2>3, <2>11
  <2>12. CASE \E w \in Workers : Deliver(w)
    BY <2>4, <2>12
  <2>13. CASE \E w \in Workers : Published(w)
    BY <2>5, <2>13
  <2>14. CASE \E w \in Workers : Failed(w)
    BY <2>6, <2>14
  <2>15. CASE \E w \in Workers : StaleReport(w) \/ SessionEnds(w) \/ SessionStarts(w)
    BY <2>8, <2>15
  <2> QED
    BY <2>9, <2>10, <2>11, <2>12, <2>13, <2>14, <2>15 DEF Next, Claim, Report
<1>3. Promise!Init /\ [][Promise!Next]_<<committed, received, published, abandoned>> => ImplementsPromise
  BY DEF ImplementsPromise, Promise!Spec
<1> QED
  BY <1>1, <1>2, <1>3, OutboxInvariant, PTL DEF Spec
=============================================================================
