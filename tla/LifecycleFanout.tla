---------------------------- MODULE LifecycleFanout ----------------------------
(* The sink behind the outbox that gives one lifecycle event two effects: a   *)
(* communication and then a measurement.  Each is kept in memory by a fake    *)
(* with a lock of its own, once per delivery identity; the delivery is        *)
(* reported only after both.  A lease that runs out lets two workers deliver  *)
(* the same event, and a restart forgets what the fakes hold.                 *)
EXTENDS Naturals

CONSTANTS
  Workers,       \* outbox workers
  Events,        \* delivery identities
  Digests,       \* what an event may say
  Nothing,       \* no receipt, no record
  MaxRestarts    \* bound: restarts of the process

VARIABLES
  communicated,  \* receipts of the communications fake: a digest by identity
  measured,      \* records of the usage fake: a digest by identity
  deliveries,    \* where each worker's delivery is
  restarts,
  \* history
  sent,          \* communications, by identity and digest
  recorded,      \* measurements, by identity and digest
  confirmed      \* identities and digests that the outbox was told are done

fanoutVars ==
  <<communicated, measured, deliveries, restarts, sent, recorded, confirmed>>

AtRest == [step |-> "rest"]

FanoutInit ==
  /\ communicated = [e \in Events |-> Nothing]
  /\ measured = [e \in Events |-> Nothing]
  /\ deliveries = [w \in Workers |-> AtRest]
  /\ restarts = 0
  /\ sent = [p \in Events \X Digests |-> 0]
  /\ recorded = [p \in Events \X Digests |-> 0]
  /\ confirmed = {}

\* A kept effect is of this event, or there is none: no collision.
Agrees(kept, d) == kept[d.event] \in {Nothing, d.digest}

Does(w, step) == deliveries[w].step = step

Subject(d) == <<d.event, d.digest>>

\* The preflight of both sinks.  Each looks under its own lock, but an entry
\* never changes and is compared again, so the two looks are one.
Preflight(w, e, g) ==
  LET d == [step |-> "communicate", event |-> e, digest |-> g] IN
  /\ Does(w, "rest")
  /\ Agrees(communicated, d)
  /\ Agrees(measured, d)
  /\ deliveries' = [deliveries EXCEPT ![w] = d]
  /\ UNCHANGED <<communicated, measured, restarts, sent, recorded, confirmed>>

\* Either way the fake holds the event's effect from then on.
Kept(kept, d) == [kept EXCEPT ![d.event] = d.digest]

\* Mutant: a retry has its effect again.
CountAgain(effects, kept, d) == [effects EXCEPT ![Subject(d)] = @ + 1]

\* The effect happens unless it was kept.
Count(effects, kept, d) ==
  IF kept[d.event] = Nothing THEN [effects EXCEPT ![Subject(d)] = @ + 1] ELSE effects

Communicate(w) ==
  LET d == deliveries[w] IN
  /\ Does(w, "communicate")
  /\ Agrees(communicated, d)
  /\ communicated' = Kept(communicated, d)
  /\ sent' = Count(sent, communicated, d)
  /\ deliveries' = [deliveries EXCEPT ![w].step = "measure"]
  /\ UNCHANGED <<measured, restarts, recorded, confirmed>>

Measure(w) ==
  LET d == deliveries[w] IN
  /\ Does(w, "measure")
  /\ Agrees(measured, d)
  /\ measured' = Kept(measured, d)
  /\ recorded' = Count(recorded, measured, d)
  /\ confirmed' = confirmed \cup {Subject(d)}
  /\ deliveries' = [deliveries EXCEPT ![w] = AtRest]
  /\ UNCHANGED <<communicated, restarts, sent>>

\* Unavailable or colliding: the worker is told, what was done stays done.
Abandon(w) ==
  LET d == deliveries[w] IN
  /\ \/ Does(w, "communicate") /\ communicated[d.event] # d.digest
     \/ Does(w, "measure") /\ measured[d.event] # d.digest
  /\ deliveries' = [deliveries EXCEPT ![w] = AtRest]
  /\ UNCHANGED <<communicated, measured, restarts, sent, recorded, confirmed>>

\* The process ends and starts again with empty fakes.
Restart ==
  /\ restarts < MaxRestarts
  /\ restarts' = restarts + 1
  /\ communicated' = [e \in Events |-> Nothing]
  /\ measured' = [e \in Events |-> Nothing]
  /\ deliveries' = [w \in Workers |-> AtRest]
  /\ UNCHANGED <<sent, recorded, confirmed>>

FanoutNext ==
  \/ \E w \in Workers :
       \/ \E e \in Events, g \in Digests : Preflight(w, e, g)
       \/ Communicate(w) \/ Measure(w) \/ Abandon(w)
  \/ Restart

FanoutSpec == FanoutInit /\ [][FanoutNext]_fanoutVars

-----------------------------------------------------------------------------

\* Through partial failures, retries and two workers with the same event: no
\* process gives an identity more than one effect of a kind, nothing is
\* measured that was not communicated with the same digest, and what is
\* confirmed has had both effects.
BothEffectsOnce ==
  /\ \A e \in Events, g \in Digests :
       sent[<<e, g>>] <= restarts + 1 /\ recorded[<<e, g>>] <= sent[<<e, g>>]
  /\ \A e \in Events : measured[e] \in {Nothing, communicated[e]}
  /\ \A p \in confirmed : sent[p] > 0 /\ recorded[p] > 0
=============================================================================
