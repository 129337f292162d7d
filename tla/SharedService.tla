----------------------------- MODULE SharedService -----------------------------
(* The shared service's parts side by side: acquisition intake, work intake   *)
(* and the fan-out of lifecycle events.  The first hands over to the second   *)
(* through a committed intake row, both to the third through the outbox;      *)
(* each sees of the one before it what its own module lets happen freely, so  *)
(* a behaviour works with one of them.                                        *)
EXTENDS Naturals

CONSTANTS
  Servers, Requests, Contents, NoContent, Window, MaxRequests, MaxClock,
  Principals, Items, Keys, Callers, NoItem, NoReceipt, Nobody, MaxRevision,
  Workers, Events, Digests, Nothing, MaxRestarts

VARIABLES
  company, membership, counter, dbClock, calls, intakes, appended,
  admittedIn, originals, accepted,
  received, due, members, items, receipts, waiting, answers, log,
  communicated, measured, deliveries, restarts, sent, recorded, confirmed,
  part          \* the one that this behaviour works with

Acquisition == INSTANCE AcquisitionIntake
Work        == INSTANCE WorkIntake
Fanout      == INSTANCE LifecycleFanout

\* The "nothing" values are none of the things; a window has a length and a quota.
ASSUME ServiceAssumption ==
  /\ NoContent \notin Contents
  /\ Window \in Nat \ {0}
  /\ MaxRequests \in Nat \ {0}
  /\ MaxClock \in Nat
  /\ Nothing \notin Digests
  /\ Nobody \notin Principals
  /\ NoItem \notin Work!ItemRecords

acquisitionVars ==
  <<company, membership, counter, dbClock, calls, intakes, appended,
    admittedIn, originals, accepted>>
workVars == <<received, due, members, items, receipts, waiting, answers, log>>
fanoutVars ==
  <<communicated, measured, deliveries, restarts, sent, recorded, confirmed>>
serviceVars == <<acquisitionVars, workVars, fanoutVars, part>>

ServiceInit ==
  /\ Acquisition!AcquisitionInit /\ Work!WorkInit /\ Fanout!FanoutInit
  /\ part \in {"acquisition", "work", "fanout", "none"}

AcquisitionStep ==
  /\ part = "acquisition"
  /\ Acquisition!AcquisitionNext
  /\ UNCHANGED <<workVars, fanoutVars, part>>

WorkStep ==
  /\ part = "work"
  /\ Work!WorkNext
  /\ UNCHANGED <<acquisitionVars, fanoutVars, part>>

FanoutStep ==
  /\ part = "fanout"
  /\ Fanout!FanoutNext
  /\ UNCHANGED <<acquisitionVars, workVars, part>>

ServiceNext == AcquisitionStep \/ WorkStep \/ FanoutStep

-----------------------------------------------------------------------------

\* AcquisitionIntake: a request is received once, as its callers were told.
OneIntakePerRequest == Acquisition!OneIntakePerRequest

\* AcquisitionIntake: nothing is received for a company that is not active.
IntakeWhileActive == Acquisition!IntakeWhileActive

\* AcquisitionIntake: no window admits more than its quota.
QuotaPerWindow == Acquisition!QuotaPerWindow

\* WorkIntake: an item changes hands only as its owner and the recipient agreed.
OwnershipByConsent == Work!OwnershipByConsent

\* WorkIntake: a retry is answered as the first call was, or not at all.
RetriesAnswered == Work!RetriesAnswered

\* LifecycleFanout: both effects, each once in a process, before it is confirmed.
BothEffectsOnce == Fanout!BothEffectsOnce
=============================================================================
