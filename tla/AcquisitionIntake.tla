--------------------------- MODULE AcquisitionIntake ---------------------------
(* The website's acquisition requests: a call finds the one active company    *)
(* of its tenant, is counted against the tenant's quota in a transaction of   *)
(* its own, and then, in another, shares the company's and the owner's row,   *)
(* inserts the request once, and appends its event and delivery.              *)
(* Calls run on several servers over one PostgreSQL database.                 *)
EXTENDS TenantActivation, Naturals

CONSTANTS
  Servers,       \* calls that may be under way together
  Requests,      \* external_request_id
  Contents,      \* the nine fields that a replay is compared by
  NoContent,     \* no row
  Window,        \* length of a window, in ticks
  MaxRequests,   \* requests a window admits
  MaxClock       \* bound: the database clock

VARIABLES
  counter,       \* the counter row: start of the window and requests in it
  dbClock,       \* the clock of the database
  calls,         \* where each call is and what it holds
  intakes,       \* committed intake rows, by request
  appended,      \* event and delivery pairs appended for each request
  \* history
  admittedIn,    \* admissions, by the start of the window they fell into
  originals,     \* how often a caller was told that the request is new
  accepted       \* contents that callers were told are received

acquisitionVars ==
  <<company, membership, counter, dbClock, calls, intakes, appended,
    admittedIn, originals, accepted>>

Times == 0..MaxClock

NoCounter == [start |-> 0, count |-> 0]
Idle(s) == [step |-> "idle"]

AcquisitionInit ==
  /\ TenantInit
  /\ counter = NoCounter
  /\ dbClock = 0
  /\ calls = [s \in Servers |-> Idle(s)]
  /\ intakes = [r \in Requests |-> NoContent]
  /\ appended = [r \in Requests |-> 0]
  /\ admittedIn = [t \in Times |-> 0]
  /\ originals = [r \in Requests |-> 0]
  /\ accepted = [r \in Requests |-> {}]

At(s, step) == calls[s].step = step

Goes(s, step) == calls' = [calls EXCEPT ![s].step = step]
Ends(s) == calls' = [calls EXCEPT ![s] = Idle(s)]

historyVars == <<admittedIn, originals, accepted>>

\* DevelopmentAuthenticatedAcquisitionIngress.receive: a validated request of
\* an authenticated service; the tenant has one active company.
Locate(s, r, c) ==
  /\ At(s, "idle")
  /\ ActiveOwner
  /\ calls' = [calls EXCEPT ![s] = [step |-> "located", request |-> r, content |-> c]]
  /\ UNCHANGED <<tenantVars, counter, dbClock, intakes, appended, historyVars>>

\* The upsert begins: its clock is read once, before it meets the row.
Strike(s) ==
  /\ At(s, "located")
  /\ calls' = [calls EXCEPT ![s] =
       [step |-> "struck", request |-> @.request, content |-> @.content, tick |-> dbClock]]
  /\ UNCHANGED <<tenantVars, counter, dbClock, intakes, appended, historyVars>>

\* The row does not exist yet, or its window is over for the tick t.
RollsOver(t) == counter.count = 0 \/ counter.start + Window <= t

Counted(t) ==
  IF RollsOver(t) THEN [start |-> t, count |-> 1]
  ELSE [counter EXCEPT !.count = @ + 1]

\* Mutant: one request too many.
QuotaPlusOne(t) == RollsOver(t) \/ counter.count <= MaxRequests

\* The condition of the update: within the quota, or another window.
Quota(t) == RollsOver(t) \/ counter.count < MaxRequests

\* The upsert and its commit; the caller may not hear of it, and is denied.
Admit(s) ==
  /\ At(s, "struck")
  /\ Quota(calls[s].tick)
  /\ counter' = Counted(calls[s].tick)
  /\ admittedIn' = [admittedIn EXCEPT ![counter'.start] = @ + 1]
  /\ Goes(s, "admitted") \/ Ends(s)
  /\ UNCHANGED <<tenantVars, dbClock, intakes, appended, originals, accepted>>

\* The transaction of the writer begins: the pair is read again and shared.
Bind(s) ==
  /\ At(s, "admitted")
  /\ ActiveOwner
  /\ Goes(s, "bound")
  /\ UNCHANGED <<tenantVars, counter, dbClock, intakes, appended, historyVars>>

\* Mutant: the rows are read without being locked.
ReadOnly == FALSE

\* Nobody may change the pair while a transaction shares it.
Shared == \E s \in Servers : calls[s].step \in {"bound", "inserted"}

\* The insert waits for another one of the same request to commit or abort.
RequestFree(s) ==
  \A o \in Servers \ {s} :
    At(o, "inserted") => calls[o].request # calls[s].request

Insert(s) ==
  /\ At(s, "bound")
  /\ RequestFree(s)
  /\ intakes[calls[s].request] = NoContent
  /\ Goes(s, "inserted")
  /\ UNCHANGED <<tenantVars, counter, dbClock, intakes, appended, historyVars>>

\* Mutant: the request alone is compared.
SameRequest(s) == TRUE

\* _content_matches
SameContent(s) == intakes[calls[s].request] = calls[s].content

Tell(s, new) ==
  LET r == calls[s].request IN
  /\ accepted' = [accepted EXCEPT ![r] = @ \cup {calls[s].content}]
  /\ originals' = [originals EXCEPT ![r] = @ + new]

\* The row is there: an exact replay is answered, its commit changes nothing.
AnswerReplay(s) ==
  /\ At(s, "bound")
  /\ RequestFree(s)
  /\ intakes[calls[s].request] # NoContent
  /\ SameContent(s)
  /\ Tell(s, 0)
  /\ Ends(s)
  /\ UNCHANGED <<tenantVars, counter, dbClock, intakes, appended, admittedIn>>

\* Intake, event and delivery are committed; the answer may be lost.
Receive(s) ==
  LET r == calls[s].request IN
  /\ At(s, "inserted")
  /\ intakes' = [intakes EXCEPT ![r] = calls[s].content]
  /\ appended' = [appended EXCEPT ![r] = @ + 1]
  /\ Tell(s, 1) \/ UNCHANGED <<originals, accepted>>
  /\ Ends(s)
  /\ UNCHANGED <<tenantVars, counter, dbClock, admittedIn>>

\* Denied, conflicting, failed or dead: what was not committed is rolled back.
GiveUp(s) ==
  /\ ~At(s, "idle")
  /\ Ends(s)
  /\ UNCHANGED <<tenantVars, counter, dbClock, intakes, appended, historyVars>>

Tick ==
  /\ dbClock < MaxClock
  /\ dbClock' = dbClock + 1
  /\ UNCHANGED <<tenantVars, counter, calls, intakes, appended, historyVars>>

\* An update of the pair waits for those who share it.
TenantStep ==
  /\ ~Shared
  /\ TenantNext
  /\ UNCHANGED <<counter, dbClock, calls, intakes, appended, historyVars>>

AcquisitionNext ==
  \/ \E s \in Servers :
       \/ \E r \in Requests, c \in Contents : Locate(s, r, c)
       \/ Strike(s) \/ Admit(s) \/ Bind(s)
       \/ Insert(s) \/ AnswerReplay(s) \/ Receive(s) \/ GiveUp(s)
  \/ TenantStep
  \/ Tick

AcquisitionSpec == AcquisitionInit /\ [][AcquisitionNext]_acquisitionVars

-----------------------------------------------------------------------------

\* However often a request is sent, lost and sent again, it is received once,
\* with one content, one event and one delivery; nobody is told that another
\* content was received, and at most one caller that it was the first.
OneIntakePerRequest ==
  \A r \in Requests :
    /\ accepted[r] \subseteq {intakes[r]} \ {NoContent}
    /\ originals[r] <= 1
    /\ appended[r] = IF intakes[r] = NoContent THEN 0 ELSE 1

\* A request is committed only while the company and its owner are active,
\* although both were read in earlier steps: whoever suspends or revokes waits.
IntakeWhileActive == [][intakes' # intakes => ActiveOwner]_acquisitionVars

\* No window admits more than its quota and windows do not overlap, whatever
\* ticks the calls carry that waited for each other at the counter.
QuotaPerWindow ==
  \A t \in Times : admittedIn[t] > 0 =>
    /\ admittedIn[t] <= MaxRequests
    /\ \A u \in Times : u > t /\ admittedIn[u] > 0 => u >= t + Window
=============================================================================
