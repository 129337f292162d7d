---------------------------- MODULE WorktreeLease ----------------------------
(* The exclusive lease of one worktree: an advisory lock on a file that is   *)
(* created on first use and never removed, and beside it a state file that   *)
(* is replaced through a temporary file created with O_EXCL.  A process may  *)
(* die between any two steps; its descriptors close, and the kernel lock     *)
(* goes with the last of them, a forked child's included.                    *)
(*                                                                           *)
(* The checks of paths, modes, source pins and owners that only deny a call  *)
(* before it touches a file are calls not made.  A process holds at most one *)
(* lease at a time.                                                          *)
EXTENDS Naturals, FiniteSets

CONSTANTS
  Processes,
  NoProcess,     \* nobody holds the lock
  NoState,       \* the state file does not exist
  MaxFaults      \* bound on deaths and failed writes

VARIABLES
  lockFile,      \* the lock file exists
  holder,        \* the process whose open file description holds the lock
  sharers,       \* the processes with a descriptor of that description
  state,         \* the state file: its status and whose it is
  temporary,     \* the temporary state file exists
  proc,          \* where each process is in its call, and whether it created the lock file
  faults

vars == <<lockFile, holder, sharers, state, temporary, proc, faults>>

Acquired(p) == [status |-> "ACQUIRED", owner |-> p]

Released(p) == [status |-> "RELEASED", owner |-> p]

Outside == [pc |-> "outside", created |-> FALSE]

Init ==
  /\ lockFile = FALSE
  /\ holder = NoProcess
  /\ sharers = {}
  /\ state = NoState
  /\ temporary = FALSE
  /\ proc = [p \in Processes |-> Outside]
  /\ faults = 0

At(p, pc) == proc[p].pc = pc
Goes(p, pc) == proc' = [proc EXCEPT ![p].pc = pc]

\* p's descriptors are closed; the lock goes with the last one.
Closes(p) ==
  /\ sharers' = sharers \ {p}
  /\ holder' = IF sharers \subseteq {p} THEN NoProcess ELSE holder
  /\ proc' = [proc EXCEPT ![p] = Outside]

-----------------------------------------------------------------------------
(* acquire_local_worktree_lease *)

\* The lock file is created, or opened if another process was first.
OpenLock(p) ==
  /\ At(p, "outside")
  /\ proc' = [proc EXCEPT ![p] = [pc |-> "opened", created |-> ~lockFile]]
  /\ lockFile' = TRUE
  /\ UNCHANGED <<holder, sharers, state, temporary, faults>>

Flock(p) ==
  /\ At(p, "opened")
  /\ holder = NoProcess
  /\ holder' = p
  /\ sharers' = {p}
  /\ Goes(p, "locked")
  /\ UNCHANGED <<lockFile, state, temporary, faults>>

\* LEASE_CONTENDED
Contended(p) ==
  /\ At(p, "opened")
  /\ holder # NoProcess
  /\ proc' = [proc EXCEPT ![p] = Outside]
  /\ UNCHANGED <<lockFile, holder, sharers, state, temporary, faults>>

\* A state file is demanded of everyone but the creator of the lock file.
StateAccepted(p) == state # NoState \/ proc[p].created

StartAcquire(p) ==
  /\ At(p, "locked")
  /\ StateAccepted(p)
  /\ ~temporary
  /\ temporary' = TRUE
  /\ Goes(p, "acquiring")
  /\ UNCHANGED <<lockFile, holder, sharers, state, faults>>

\* LEASE_STATE_CORRUPT, or the temporary file of a write that never ended.
AcquireDenied(p) ==
  /\ At(p, "locked")
  /\ ~StateAccepted(p) \/ temporary
  /\ Closes(p)
  /\ UNCHANGED <<lockFile, state, temporary, faults>>

\* The state is replaced and the new owner verifies its lease.
FinishAcquire(p) ==
  /\ At(p, "acquiring")
  /\ state' = Acquired(p)
  /\ temporary' = FALSE
  /\ Goes(p, "held")
  /\ UNCHANGED <<lockFile, holder, sharers, faults>>

\* Writing fails before the replace, and the temporary file stays, or after it.
FailAcquire(p) ==
  /\ At(p, "acquiring")
  /\ faults < MaxFaults
  /\ faults' = faults + 1
  /\ \/ UNCHANGED <<state, temporary>>
     \/ state' = Acquired(p) /\ temporary' = FALSE
  /\ Closes(p)
  /\ UNCHANGED lockFile

-----------------------------------------------------------------------------
(* verify_live_owner and release *)

\* The descriptors and the kernel's record name p as the owner of the lock, and
\* the state file is the one p wrote.
Verified(p) == holder = p /\ p \in sharers /\ state = Acquired(p)

\* Mutant: released without looking at the state file.
StartReleaseUnverified(p) ==
  /\ At(p, "held") \/ At(p, "stranded")
  /\ ~temporary
  /\ temporary' = TRUE
  /\ Goes(p, "releasing")
  /\ UNCHANGED <<lockFile, holder, sharers, state, faults>>

\* A leftover temporary file denies the write; the lease stays held.
StartRelease(p) ==
  /\ At(p, "held") \/ At(p, "stranded")
  /\ Verified(p)
  /\ ~temporary
  /\ temporary' = TRUE
  /\ Goes(p, "releasing")
  /\ UNCHANGED <<lockFile, holder, sharers, state, faults>>

WriteReleased(p) ==
  /\ At(p, "releasing")
  /\ state' = Released(p)
  /\ temporary' = FALSE
  /\ Goes(p, "unlocking")
  /\ UNCHANGED <<lockFile, holder, sharers, faults>>

\* Before the replace the lease stays as it was; after it the directory sync
\* failed, and the owner is left with a lease it can no longer verify.
FailRelease(p) ==
  /\ At(p, "releasing")
  /\ faults < MaxFaults
  /\ faults' = faults + 1
  /\ \/ Goes(p, "held") /\ UNCHANGED <<state, temporary>>
     \/ Goes(p, "stranded") /\ state' = Released(p) /\ temporary' = FALSE
  /\ UNCHANGED <<lockFile, holder, sharers>>

\* LOCK_UN frees the lock whoever else has the descriptor.
Unlock(p) ==
  /\ At(p, "unlocking")
  /\ holder' = NoProcess
  /\ sharers' = {}
  /\ proc' = [proc EXCEPT ![p] = Outside]
  /\ UNCHANGED <<lockFile, state, temporary, faults>>

-----------------------------------------------------------------------------
(* What happens around the calls *)

\* The owner forks; the child has the descriptor and may use none of the lease.
Fork(p, c) ==
  /\ At(p, "held") /\ At(c, "outside")
  /\ sharers' = sharers \cup {c}
  /\ Goes(c, "child")
  /\ UNCHANGED <<lockFile, holder, state, temporary, faults>>

\* A child that has the lock's descriptor, or had it before an unlock, ends.
ChildEnds(c) ==
  /\ At(c, "child")
  /\ Closes(c)
  /\ UNCHANGED <<lockFile, state, temporary, faults>>

Die(p) ==
  /\ proc[p].pc \notin {"outside", "child"}
  /\ faults < MaxFaults
  /\ faults' = faults + 1
  /\ Closes(p)
  /\ UNCHANGED <<lockFile, state, temporary>>

Writing(p) == At(p, "acquiring") \/ At(p, "releasing")

\* A temporary file that nobody is writing any more.
Leftover == temporary /\ \A p \in Processes : ~Writing(p)

\* The operator inspects and removes it while no lease is in use.
OperatorClears ==
  /\ Leftover
  /\ \A p \in Processes : At(p, "outside")
  /\ temporary' = FALSE
  /\ UNCHANGED <<lockFile, holder, sharers, state, proc, faults>>

Next ==
  \/ \E p \in Processes :
       \/ OpenLock(p) \/ Flock(p) \/ Contended(p)
       \/ StartAcquire(p) \/ AcquireDenied(p) \/ FinishAcquire(p) \/ FailAcquire(p)
       \/ StartRelease(p) \/ WriteReleased(p) \/ FailRelease(p) \/ Unlock(p)
       \/ ChildEnds(p) \/ Die(p)
       \/ \E c \in Processes : Fork(p, c)
  \/ OperatorClears

Spec == Init /\ [][Next]_vars

-----------------------------------------------------------------------------

\* A process between locking and unlocking has the worktree to itself.
OneOwner ==
  \A p, q \in Processes :
    proc[p].pc \notin {"outside", "opened", "child"} /\
    proc[q].pc \notin {"outside", "opened", "child"} => p = q

\* A process that was given the lease can prove it at any time until it gives
\* it back: nobody displaces it, writes over its state or frees its lock,
\* whoever else crashes, forks or contends meanwhile, and nobody else is
\* between locking and unlocking.
HeldIsVerified ==
  /\ \A p \in Processes : At(p, "held") \/ At(p, "releasing") => Verified(p)
  /\ OneOwner

=============================================================================
