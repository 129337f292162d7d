-------------------------- MODULE MCDevelopmentWork --------------------------
(* The governed work on the DEVELOPMENT project: the store of a plan's        *)
(* progress, and the three families of workflow executors that carry steps of *)
(* such plans out.  They share nothing in one campaign, so a behaviour works  *)
(* with one of them.                                                          *)
EXTENDS MCProgressStore, Integers

CONSTANTS Entries, FailingSteps, MaxValidations, Stretches, MaxRuns

VARIABLES
  stretch, phase, done, key, binding, retired, fallback, run, alive, late,
  lifecycles, logouts,
  exec, verdict, live, unanswered, recorded, drift,
  followed, progress, window, credential, job, sessions, pending,
  work          \* the one that this behaviour works with

Auth       == INSTANCE PositiveAuth
Validation == INSTANCE TokenValidation
Cleanup    == INSTANCE SessionCleanup

authVars == <<stretch, phase, done, key, binding, retired, fallback, run, alive, late,
              lifecycles, logouts>>
validationVars == <<exec, verdict, live, unanswered, recorded, drift>>
cleanupVars == <<followed, progress, window, credential, job, sessions, pending>>

\* The stretches of versions: what a version checks of earlier ones and what
\* the earlier ones do meanwhile, alone where there is nothing to check.
MCEntries ==
  {<<1, 1>>, <<2, 2>>, <<3, 3>>, <<4, 5>>, <<5, 6>>, <<6, 8>>, <<8, 9>>, <<9, 10>>,
   <<10, 12>>, <<12, 14>>, <<15, 15>>}

MCStretches ==
  {{"inspection"}, {"v1", "v2"}, {"v2", "v4"}, {"v2", "shape"},
   {"predicate", "repaired", "v3"}}

ASSUME RunsAssumption ==
  /\ MaxValidations \in Nat /\ MaxRuns \in Nat
  /\ Stretches \subseteq SUBSET Cleanup!Executors

MCInit ==
  /\ Init /\ Auth!Init /\ Validation!Init /\ Cleanup!Init
  /\ work \in {"plan", "auth", "validation", "cleanup"}
  /\ work # "auth" => stretch = <<1, 1>>
  /\ work # "cleanup" => followed = {"inspection"}

PlanStep ==
  /\ work = "plan" /\ Next
  /\ UNCHANGED <<authVars, validationVars, cleanupVars, work>>

AuthStep ==
  /\ work = "auth" /\ Auth!Next
  /\ UNCHANGED <<vars, validationVars, cleanupVars, work>>

ValidationStep ==
  /\ work = "validation" /\ Validation!Next
  /\ UNCHANGED <<vars, authVars, cleanupVars, work>>

CleanupStep ==
  /\ work = "cleanup" /\ Cleanup!Next
  /\ UNCHANGED <<vars, authVars, validationVars, work>>

MCNext == PlanStep \/ AuthStep \/ ValidationStep \/ CleanupStep

MCSpec ==
  MCInit /\ [][MCNext]_<<vars, authVars, validationVars, cleanupVars, work>>

-----------------------------------------------------------------------------

\* PositiveAuth: while version 7 or a later one runs, version 4's secret is not
\* bound, none of the versions 6 and later before it has a secret in force, and
\* their executors are gone.
PredecessorsGone == Auth!PredecessorsGone

\* PositiveAuth: a version's key sees at most one lifecycle.
OneLifecyclePerKey == Auth!OneLifecyclePerKey

\* PositiveAuth: one logout at most, and no report of less than what may be left.
SessionsAccounted == Auth!SessionsAccounted

\* TokenValidation: a run that reported its session's end left none, and one that
\* called a cleanup not needed left none that it held a token of.
\* SessionCleanup: a cleanup that left a session warned of it, and none that
\* reported an accepted logout left the leftover.
SessionReportsTrue == Validation!ReportsTrue /\ Cleanup!LeftoversReported

\* SessionCleanup: a plan's lifecycle begins once, and not after that of a plan
\* built on its outcome.
LifecyclesInOrder == Cleanup!LifecyclesInOrder
=============================================================================
