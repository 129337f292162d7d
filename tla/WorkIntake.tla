------------------------------ MODULE WorkIntake ------------------------------
(* Work items and their hand-overs.  A call checks that its caller is a       *)
(* member, waits for the advisory lock of the item, and does the rest under   *)
(* it: who may know the item, whether the key was used, what the command      *)
(* makes of the item, and the item, receipt, event and delivery together.     *)
(* Whatever the transaction reads after the lock only a holder of the lock    *)
(* writes, so from the lock to the commit it is one step; the receipt that    *)
(* reserve could find in between cannot appear there.  Received intakes are   *)
(* never changed by the code, so its two looks at an intake are one.          *)
EXTENDS Integers, SequencesExt

CONSTANTS
  Principals,    \* human callers
  Items,         \* work items; one opened from an intake has the intake's id
  Keys,          \* idempotency keys
  Callers,       \* calls that may be under way together
  NoItem, NoReceipt, Nobody,
  MaxRevision    \* bound: record versions

VARIABLES
  received,      \* intakes that were received
  due,           \* where the clock sees each item's requested deadline
  members,       \* the tenant's directory of members
  items,         \* committed work items
  receipts,      \* the idempotency ledger: by principal, item and key
  waiting,       \* the command of each call between its check and its lock
  answers,       \* the last answer of each call
  log            \* history: what became of each item, commit by commit

workVars == <<received, due, members, items, receipts, waiting, answers, log>>

NoCommand == [kind |-> "none"]
Unanswered == [outcome |-> "none", version |-> 0]

\* A validated command.  An item is opened on request, with or without a
\* deadline, or from an intake, always with one.
Commands ==
  [kind : {"OPEN"}, who : Principals, item : Items, key : Keys,
   from : {"request", "dated request", "intake"}]
    \cup
  [kind : {"OFFER"}, who : Principals, item : Items, key : Keys,
   expected : 1..MaxRevision, recipient : Principals]
    \cup
  [kind : {"ACCEPT", "CANCEL", "BLOCK", "RESUME", "RESOLVE"},
   who : Principals, item : Items, key : Keys, expected : 1..MaxRevision]

Scope(c) == <<c.who, c.item, c.key>>

\* A work item, with the offer that is open, if any.
ItemRecords ==
  [owner : Principals, pending : Principals \cup {Nobody},
   state : {"OPEN", "BLOCKED", "RESOLVED"}, version : Nat]

WorkInit ==
  /\ received = {}
  /\ due = [w \in Items |-> "far"]
  /\ members = Principals
  /\ items = [w \in Items |-> NoItem]
  /\ receipts = [k \in Principals \X Items \X Keys |-> NoReceipt]
  /\ waiting = [x \in Callers |-> NoCommand]
  /\ answers = [x \in Callers |-> Unanswered]
  /\ log = [w \in Items |-> <<>>]

Involved(item) == {item.owner, item.pending}

-----------------------------------------------------------------------------
(* evolve_work_item: what a command makes of an item, nothing if refused.    *)

Opened(c) == [owner |-> c.who, pending |-> Nobody, state |-> "OPEN", version |-> 1]

Revised(item) == [item EXCEPT !.version = @ + 1]

\* The owner, or who accepts an offer, acts on the version it knows.
Current(item, c) ==
  /\ c.who = IF c.kind = "ACCEPT" THEN item.pending ELSE item.owner
  /\ item.version = c.expected

Accepted(item, c) ==
  IF c.kind = "ACCEPT" /\ item.state = "OPEN"
  THEN {[Revised(item) EXCEPT !.owner = c.who, !.pending = Nobody]} ELSE {}

\* The recipient is looked up in the directory.
Offered(item, c) ==
  IF /\ c.kind = "OFFER" /\ item.state = "OPEN" /\ item.pending = Nobody
     /\ c.recipient # c.who /\ c.recipient \in members
  THEN {[Revised(item) EXCEPT !.pending = c.recipient]} ELSE {}

\* Mutant: a cancelled offer stays on the item.
CancelledInName(item, c) ==
  IF c.kind = "CANCEL" /\ item.state = "OPEN" /\ item.pending # Nobody
  THEN {Revised(item)} ELSE {}

\* The owner withdraws its offer.
Cancelled(item, c) ==
  IF c.kind = "CANCEL" /\ item.state = "OPEN" /\ item.pending # Nobody
  THEN {[Revised(item) EXCEPT !.pending = Nobody]} ELSE {}

Moves == {<<"BLOCK", "OPEN", "BLOCKED">>, <<"RESUME", "BLOCKED", "OPEN">>,
          <<"RESOLVE", "OPEN", "RESOLVED">>}

\* Only while nobody is being asked to take over.
Moved(item, c) ==
  {[Revised(item) EXCEPT !.state = m[3]] :
     m \in {n \in Moves : <<c.kind, item.state, item.pending>> = <<n[1], n[2], Nobody>>}}

Evolved(item, c) ==
  IF c.kind = "OPEN" THEN IF item = NoItem THEN {Opened(c)} ELSE {}
  ELSE IF item # NoItem /\ Current(item, c)
  THEN Accepted(item, c) \cup Offered(item, c) \cup Cancelled(item, c) \cup Moved(item, c)
  ELSE {}

-----------------------------------------------------------------------------

\* The state that the metadata of an intake is read in.
Received(w) == w \in received

FromIntake(c) == c.kind = "OPEN" /\ c.from = "intake"

\* The hand-off looks before it makes the command, the writer under the lock.
HandedOver(c) == FromIntake(c) => Received(c.item)
Admitted(c) == FromIntake(c) => Received(c.item)

\* The transaction begins and finds its caller in the directory.
Ask(x, c) ==
  /\ waiting[x] = NoCommand
  /\ c.who \in members
  /\ HandedOver(c)
  /\ waiting' = [waiting EXCEPT ![x] = c]
  /\ answers' = [answers EXCEPT ![x] = Unanswered]
  /\ UNCHANGED <<received, due, members, items, receipts, log>>

\* Mutant: whoever is a member may ask.
KnowsAny(c) == TRUE

\* Under the lock: an item is nobody's business but its owner's and of whom
\* it is offered to.
Knows(c) == items[c.item] # NoItem => c.who \in Involved(items[c.item])

Locked(x) ==
  LET c == waiting[x] IN c # NoCommand /\ Admitted(c) /\ Knows(c)

Answer(x, outcome, version) ==
  /\ waiting' = [waiting EXCEPT ![x] = NoCommand]
  /\ answers' = [answers EXCEPT ![x] = [outcome |-> outcome, version |-> version]]

\* The key was used: an exact retry is told the version it was accepted at.
Replay(x) ==
  LET c == waiting[x]  r == receipts[Scope(c)] IN
  /\ Locked(x)
  /\ r # NoReceipt
  /\ IF r.command = c THEN Answer(x, "replayed", r.version) ELSE Answer(x, "conflict", 0)
  /\ UNCHANGED <<received, due, members, items, receipts, log>>

\* The clock is asked only about a new command: from a minute to 30 days.
Timely(c) == c.kind = "OPEN" /\ c.from # "request" => due[c.item] = "allowed"

\* Item, receipt, event and delivery are committed; the answer may be lost.
Accept(x) ==
  LET c == waiting[x] IN
  /\ Locked(x)
  /\ receipts[Scope(c)] = NoReceipt
  /\ Timely(c)
  /\ \E new \in Evolved(items[c.item], c) :
       /\ new.version <= MaxRevision
       /\ items' = [items EXCEPT ![c.item] = new]
       /\ receipts' = [receipts EXCEPT ![Scope(c)] = [command |-> c, version |-> new.version]]
       /\ log' = [log EXCEPT ![c.item] = Append(@, [command |-> c, item |-> new])]
       /\ \/ Answer(x, "accepted", new.version)
          \/ waiting' = [waiting EXCEPT ![x] = NoCommand] /\ UNCHANGED answers
  /\ UNCHANGED <<received, due, members>>

Refuse(x) ==
  LET c == waiting[x] IN
  /\ c # NoCommand
  /\ \/ ~Admitted(c) \/ ~Knows(c)
     \/ /\ receipts[Scope(c)] = NoReceipt
        /\ ~Timely(c) \/ Evolved(items[c.item], c) = {}
  /\ Answer(x, "refused", 0)
  /\ UNCHANGED <<received, due, members, items, receipts, log>>

\* The call fails or dies and is rolled back.
Lapse(x) ==
  /\ waiting[x] # NoCommand
  /\ waiting' = [waiting EXCEPT ![x] = NoCommand]
  /\ UNCHANGED <<received, due, members, items, receipts, answers, log>>

\* Around the calls: an intake is received, a deadline comes nearer, and
\* the directory, which is others', loses and regains members.
IntakeReceived(w) ==
  /\ received' = received \cup {w}
  /\ UNCHANGED <<due, members, items, receipts, waiting, answers, log>>

DeadlineNears(w) ==
  /\ due[w] # "near"
  /\ due' = [due EXCEPT ![w] = IF @ = "far" THEN "allowed" ELSE "near"]
  /\ UNCHANGED <<received, members, items, receipts, waiting, answers, log>>

MembersChange(m) ==
  /\ members' = IF m \in members THEN members \ {m} ELSE members \cup {m}
  /\ UNCHANGED <<received, due, items, receipts, waiting, answers, log>>

WorkNext ==
  \/ \E x \in Callers :
       (\E c \in Commands : Ask(x, c)) \/ Replay(x) \/ Accept(x) \/ Refuse(x) \/ Lapse(x)
  \/ \E w \in Items : IntakeReceived(w) \/ DeadlineNears(w)
  \/ \E m \in Principals : MembersChange(m)

WorkSpec == WorkInit /\ [][WorkNext]_workVars

-----------------------------------------------------------------------------

\* Over the whole life of an item, of several principals' commands, retries
\* and lost answers: commits make its versions one by one, it changes hands
\* only to whom its owner was offering it, an offer that was withdrawn gives
\* nothing, and what is resolved stays so.
Consented(history) ==
  \A i \in 2..Len(history) :
    LET before == history[i-1].item  after == history[i].item IN
    /\ after.version = before.version + 1
    /\ before.state # "RESOLVED"
    /\ after.owner # before.owner =>
         /\ history[i-1].command.kind = "OFFER"
         /\ history[i-1].command.who = before.owner
         /\ history[i-1].command.recipient = after.owner

OwnershipByConsent ==
  \A w \in Items :
    /\ Consented(log[w])
    /\ items[w] = IF log[w] = <<>> THEN NoItem ELSE Last(log[w]).item

\* A retry of an accepted command is answered with the version it was accepted
\* at for as long as its caller is involved in the item, whatever became of
\* the item, the deadline or the directory since its check; and who is not
\* involved any more learns nothing of the item.
RetriesAnswered ==
  [][\A x \in Callers :
       answers[x].outcome = "none" /\ answers'[x].outcome # "none" =>
         LET c == waiting[x]  r == receipts[Scope(c)] IN
         /\ r # NoReceipt /\ r.command = c /\ c.who \in Involved(items[c.item]) =>
              answers'[x] = [outcome |-> "replayed", version |-> r.version]
         /\ answers'[x].outcome # "refused" => c.who \in Involved(items'[c.item])]_workVars
=============================================================================
