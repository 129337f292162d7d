------------------------- MODULE ToolsAndServiceProofs -------------------------
(***************************************************************************)
(* Proofs about the engineering layer's tools and the shared service's     *)
(* parts, one section each, for any sets of processes, documents, runs,    *)
(* servers and workers.                                                    *)
(***************************************************************************)
EXTENDS MCToolsAndService, SequenceTheorems, TLAPS

-----------------------------------------------------------------------------
(* The worktree lease.                                                     *)

LeasePCs == {"outside", "opened", "child", "locked", "acquiring", "held", "stranded",
             "releasing", "unlocking"}

\* Between locking and unlocking.
Inside(p) == proc[p].pc \notin {"outside", "opened", "child"}

\* Who is inside holds the lock through a descriptor of its own, and what it was
\* given is its own state in the file.
LeaseSafe ==
  /\ proc \in [Processes -> [pc : LeasePCs, created : BOOLEAN]]
  /\ holder \in Processes \cup {NoProcess}
  /\ sharers \subseteq Processes
  /\ lockFile \in BOOLEAN
  /\ \A p \in Processes :
       /\ Inside(p) => holder = p /\ p \in sharers
       /\ proc[p].pc \in {"held", "releasing"} => state = Lease!Acquired(p)

LEMMA LeaseInit == Lease!Init => LeaseSafe
<1> SUFFICES ASSUME Lease!Init PROVE LeaseSafe
  OBVIOUS
<1>1. /\ proc = [p \in Processes |-> [pc |-> "outside", created |-> FALSE]]
      /\ holder = NoProcess /\ sharers = {} /\ lockFile = FALSE
  BY DEF Lease!Init, Lease!Outside
<1>2. [pc |-> "outside", created |-> FALSE] \in [pc : LeasePCs, created : BOOLEAN]
  BY DEF LeasePCs
<1>3. /\ proc \in [Processes -> [pc : LeasePCs, created : BOOLEAN]]
      /\ \A p \in Processes : proc[p].pc = "outside"
  BY <1>1, <1>2
<1> QED
  BY <1>1, <1>3 DEF LeaseSafe, Inside

\* Whoever closes its descriptors and is not the one inside frees no lock that
\* is in use.
LEMMA ClosesKeeps ==
  ASSUME LeaseSafe, NEW p \in Processes, Lease!Closes(p), UNCHANGED lockFile,
         \A q \in Processes \ {p} :
           proc[q].pc \in {"held", "releasing"} => UNCHANGED state
  PROVE  LeaseSafe'
<1>1. /\ proc' = [proc EXCEPT ![p] = [pc |-> "outside", created |-> FALSE]]
      /\ sharers' = sharers \ {p}
      /\ holder' = IF sharers \subseteq {p} THEN NoProcess ELSE holder
  BY DEF Lease!Closes, Lease!Outside
<1>2. /\ proc' \in [Processes -> [pc : LeasePCs, created : BOOLEAN]]
      /\ proc'[p].pc = "outside"
      /\ \A q \in Processes \ {p} : proc'[q] = proc[q]
  BY <1>1 DEF LeaseSafe, LeasePCs
<1>3. ASSUME NEW q \in Processes, Inside(q)' PROVE holder' = q /\ q \in sharers'
  <2>1. q # p /\ Inside(q)
    BY <1>2, <1>3 DEF Inside
  <2>2. holder = q /\ q \in sharers
    BY <2>1 DEF LeaseSafe
  <2> QED
    BY <1>1, <2>1, <2>2
<1>4. ASSUME NEW q \in Processes, proc'[q].pc \in {"held", "releasing"} PROVE state' = Lease!Acquired(q)'
  <2>1. q # p /\ proc[q].pc \in {"held", "releasing"}
    BY <1>2, <1>4
  <2> QED
    BY <2>1 DEF LeaseSafe, Lease!Acquired
<1> QED
  BY <1>1, <1>2, <1>3, <1>4 DEF LeaseSafe

\* Every step keeps the invariant, whoever dies, forks or contends.
LEMMA LeaseStepKeeps == LeaseSafe /\ [Lease!Next]_(Lease!vars) => LeaseSafe'
<1> SUFFICES ASSUME LeaseSafe, [Lease!Next]_(Lease!vars) PROVE LeaseSafe'
  OBVIOUS
<1> USE ToolsAssumption DEF Lease!At, Lease!Goes, Inside, LeasePCs, Lease!Acquired
<1>0. /\ proc \in [Processes -> [pc : LeasePCs, created : BOOLEAN]]
      /\ holder \in Processes \cup {NoProcess}
      /\ sharers \subseteq Processes
      /\ lockFile \in BOOLEAN
      /\ \A p \in Processes :
           /\ Inside(p) => holder = p /\ p \in sharers
           /\ proc[p].pc \in {"held", "releasing"} => state = Lease!Acquired(p)
  BY DEF LeaseSafe
<1>1. ASSUME NEW p \in Processes, Lease!OpenLock(p) PROVE LeaseSafe'
  BY <1>0, <1>1 DEF Lease!OpenLock, LeaseSafe
<1>2. ASSUME NEW p \in Processes, Lease!Flock(p) PROVE LeaseSafe'
  BY <1>0, <1>2 DEF Lease!Flock, LeaseSafe
<1>3. ASSUME NEW p \in Processes, Lease!Contended(p) PROVE LeaseSafe'
  BY <1>0, <1>3 DEF Lease!Contended, LeaseSafe, Lease!Outside
<1>4. ASSUME NEW p \in Processes, Lease!StartAcquire(p) PROVE LeaseSafe'
  BY <1>0, <1>4 DEF Lease!StartAcquire, LeaseSafe
<1>5. ASSUME NEW p \in Processes, Lease!AcquireDenied(p) PROVE LeaseSafe'
  BY <1>5, ClosesKeeps DEF Lease!AcquireDenied
<1>6. ASSUME NEW p \in Processes, Lease!FinishAcquire(p) PROVE LeaseSafe'
  BY <1>0, <1>6 DEF Lease!FinishAcquire, LeaseSafe
<1>7. ASSUME NEW p \in Processes, Lease!FailAcquire(p) PROVE LeaseSafe'
  <2>1. \A q \in Processes \ {p} : proc[q].pc \notin {"held", "releasing"}
    BY <1>0, <1>7 DEF Lease!FailAcquire
  <2> QED
    BY <1>7, <2>1, ClosesKeeps DEF Lease!FailAcquire
<1>8. ASSUME NEW p \in Processes, Lease!StartRelease(p) PROVE LeaseSafe'
  BY <1>0, <1>8 DEF Lease!StartRelease, Lease!Verified, LeaseSafe
<1>9. ASSUME NEW p \in Processes, Lease!WriteReleased(p) PROVE LeaseSafe'
  BY <1>0, <1>9 DEF Lease!WriteReleased, LeaseSafe
<1>10. ASSUME NEW p \in Processes, Lease!FailRelease(p) PROVE LeaseSafe'
  BY <1>0, <1>10 DEF Lease!FailRelease, LeaseSafe
<1>11. ASSUME NEW p \in Processes, Lease!Unlock(p) PROVE LeaseSafe'
  BY <1>0, <1>11 DEF Lease!Unlock, LeaseSafe, Lease!Outside
<1>12. ASSUME NEW p \in Processes, Lease!ChildEnds(p) PROVE LeaseSafe'
  BY <1>12, ClosesKeeps DEF Lease!ChildEnds
<1>13. ASSUME NEW p \in Processes, Lease!Die(p) PROVE LeaseSafe'
  BY <1>13, ClosesKeeps DEF Lease!Die
<1>14. ASSUME NEW p \in Processes, NEW c \in Processes, Lease!Fork(p, c) PROVE LeaseSafe'
  BY <1>0, <1>14 DEF Lease!Fork, LeaseSafe
<1>15. CASE Lease!OperatorClears
  BY <1>0, <1>15 DEF Lease!OperatorClears, LeaseSafe
<1>16. CASE UNCHANGED Lease!vars
  BY <1>0, <1>16 DEF Lease!vars, LeaseSafe
<1> QED
  BY <1>1, <1>2, <1>3, <1>4, <1>5, <1>6, <1>7, <1>8, <1>9, <1>10, <1>11, <1>12, <1>13, <1>14,
     <1>15, <1>16 DEF Lease!Next

\* Who was given the lease can prove it until it gives it back, and one process
\* at a time is between locking and unlocking, for any number of processes.
THEOREM LeaseIsHeld == Lease!Spec => []HeldIsVerified
<1>1. LeaseSafe => HeldIsVerified
  BY DEF LeaseSafe, HeldIsVerified, Lease!HeldIsVerified, Lease!OneOwner, Lease!At, Lease!Verified, Inside
<1> QED
  BY <1>1, LeaseInit, LeaseStepKeeps, PTL DEF Lease!Spec

-----------------------------------------------------------------------------
(* The admission database.                                                 *)

DocumentOf(p) == callers[p].document

CallerRecords ==
  [pc : {"idle", "validated", "begun", "committed"}, document : Documents \cup {NoDocument}]

\* What the power may take back is no more than what was not synced; who waits
\* for its answer has its row, its nonce was never answered, and nobody else
\* waits for that nonce.
AdmissionSafe ==
  /\ claims \in [Admission!Nonces -> Documents \cup {NoDocument}]
  /\ durable \in [Admission!Nonces -> Documents \cup {NoDocument}]
  /\ callers \in [Processes -> CallerRecords]
  /\ admitted \in [Documents -> Nat]
  /\ \A n \in Admission!Nonces : durable[n] # NoDocument => claims[n] = durable[n]
  /\ \A p \in Processes : callers[p].pc # "idle" => DocumentOf(p) \in Documents
  /\ \A p \in Processes : callers[p].pc = "committed" =>
       /\ claims[DocumentOf(p).nonce] = DocumentOf(p)
       /\ \A d \in Documents : d.nonce = DocumentOf(p).nonce => admitted[d] = 0
       /\ \A q \in Processes \ {p} :
            callers[q].pc = "committed" => DocumentOf(q).nonce # DocumentOf(p).nonce
  /\ \A d \in Documents : admitted[d] > 0 => admitted[d] = 1 /\ durable[d.nonce] = d

LEMMA AdmissionInit == Admission!Init => AdmissionSafe
<1> SUFFICES ASSUME Admission!Init PROVE AdmissionSafe
  OBVIOUS
<1>1. /\ callers = [p \in Processes |-> [pc |-> "idle", document |-> NoDocument]]
      /\ claims = [n \in Admission!Nonces |-> NoDocument] /\ durable = claims
      /\ admitted = [d \in Documents |-> 0]
  BY DEF Admission!Init, Admission!Idle
<1>2. [pc |-> "idle", document |-> NoDocument] \in CallerRecords
  BY DEF CallerRecords
<1> QED
  BY <1>1, <1>2 DEF AdmissionSafe

\* What changes when callers only leave, and rows and answers stay.
LEMMA LeavingKeeps ==
  ASSUME AdmissionSafe, NEW p \in Processes, Admission!Leaves(p), UNCHANGED <<claims, durable, admitted>>
  PROVE  AdmissionSafe'
<1>1. callers' = [callers EXCEPT ![p] = [pc |-> "idle", document |-> NoDocument]]
  BY DEF Admission!Leaves, Admission!Idle
<1>2. [pc |-> "idle", document |-> NoDocument] \in CallerRecords
  BY DEF CallerRecords
<1>3. /\ callers' \in [Processes -> CallerRecords]
      /\ callers'[p].pc = "idle"
      /\ \A q \in Processes \ {p} : callers'[q] = callers[q]
  BY <1>1, <1>2 DEF AdmissionSafe
<1> QED
  BY <1>3 DEF AdmissionSafe, DocumentOf

\* Every step keeps the invariant, a failure of the machine included.
LEMMA AdmissionStepKeeps == AdmissionSafe /\ [Admission!Next]_(Admission!vars) => AdmissionSafe'
<1> SUFFICES ASSUME AdmissionSafe, [Admission!Next]_(Admission!vars) PROVE AdmissionSafe'
  OBVIOUS
<1> USE ToolsAssumption
<1>0. /\ claims \in [Admission!Nonces -> Documents \cup {NoDocument}]
      /\ durable \in [Admission!Nonces -> Documents \cup {NoDocument}]
      /\ callers \in [Processes -> CallerRecords]
      /\ admitted \in [Documents -> Nat]
      /\ \A d \in Documents : d.nonce \in Admission!Nonces
  BY DEF AdmissionSafe, Admission!Nonces
<1>1. ASSUME NEW p \in Processes, NEW d \in Documents, Admission!Validate(p, d) PROVE AdmissionSafe'
  <2>1. callers' = [callers EXCEPT ![p] = [pc |-> "validated", document |-> d]]
    BY <1>1 DEF Admission!Validate
  <2>2. [pc |-> "validated", document |-> d] \in CallerRecords
    BY DEF CallerRecords
  <2>3. /\ callers' \in [Processes -> CallerRecords]
        /\ callers'[p] = [pc |-> "validated", document |-> d]
        /\ \A q \in Processes \ {p} : callers'[q] = callers[q]
    BY <1>0, <2>1, <2>2
  <2>4. UNCHANGED <<claims, durable, admitted>>
    BY <1>1 DEF Admission!Validate
  <2> QED
    BY <2>3, <2>4 DEF AdmissionSafe, DocumentOf
<1>2. ASSUME NEW p \in Processes, Admission!Begin(p) PROVE AdmissionSafe'
  <2>1. /\ callers[p].pc = "validated"
        /\ callers' = [callers EXCEPT ![p].pc = "begun"]
        /\ UNCHANGED <<claims, durable, admitted>>
    BY <1>2 DEF Admission!Begin, Admission!At
  <2>2. /\ callers' \in [Processes -> CallerRecords]
        /\ callers'[p].pc = "begun" /\ callers'[p].document = callers[p].document
        /\ \A q \in Processes \ {p} : callers'[q] = callers[q]
    BY <1>0, <2>1 DEF CallerRecords
  <2> QED
    BY <2>1, <2>2 DEF AdmissionSafe, DocumentOf
<1>3. ASSUME NEW p \in Processes, Admission!Commit(p) PROVE AdmissionSafe'
  <2> DEFINE d == DocumentOf(p)
  <2>1. /\ callers[p].pc = "begun"
        /\ claims[d.nonce] = NoDocument
        /\ claims' = [claims EXCEPT ![d.nonce] = d]
        /\ callers' = [callers EXCEPT ![p].pc = "committed"]
        /\ UNCHANGED <<durable, admitted>>
    BY <1>3 DEF Admission!Commit, Admission!At, Admission!Unclaimed, DocumentOf
  <2>2. d \in Documents /\ d.nonce \in Admission!Nonces
    BY <1>0, <2>1 DEF AdmissionSafe
  <2>3. /\ callers' \in [Processes -> CallerRecords]
        /\ callers'[p].pc = "committed" /\ callers'[p].document = d
        /\ \A q \in Processes \ {p} : callers'[q] = callers[q]
    BY <1>0, <2>1 DEF CallerRecords, DocumentOf
  <2>4. /\ claims' \in [Admission!Nonces -> Documents \cup {NoDocument}]
        /\ claims'[d.nonce] = d
        /\ \A n \in Admission!Nonces \ {d.nonce} : claims'[n] = claims[n]
    BY <1>0, <2>1, <2>2
  <2>5. durable[d.nonce] = NoDocument
    BY <2>1, <2>2 DEF AdmissionSafe
  <2>6. \A e \in Documents : e.nonce = d.nonce => admitted[e] = 0
    BY <1>0, <2>5 DEF AdmissionSafe
  <2>7. \A q \in Processes \ {p} :
          callers[q].pc = "committed" => DocumentOf(q).nonce # d.nonce
    BY <1>0, <2>1 DEF AdmissionSafe
  <2>8. \A n \in Admission!Nonces : durable'[n] # NoDocument => claims'[n] = durable'[n]
    BY <2>1, <2>4, <2>5 DEF AdmissionSafe
  <2>9. \A q \in Processes : callers'[q].pc # "idle" => DocumentOf(q)' \in Documents
    BY <2>2, <2>3 DEF AdmissionSafe, DocumentOf
  <2>10. ASSUME NEW q \in Processes, callers'[q].pc = "committed"
         PROVE  /\ claims'[DocumentOf(q)'.nonce] = DocumentOf(q)'
                /\ \A e \in Documents : e.nonce = DocumentOf(q)'.nonce => admitted'[e] = 0
                /\ \A r \in Processes \ {q} :
                     callers'[r].pc = "committed" => DocumentOf(r)'.nonce # DocumentOf(q)'.nonce
    <3>1. CASE q = p
      <4>1. DocumentOf(q)' = d
        BY <2>3, <3>1 DEF DocumentOf
      <4>2. \A r \in Processes \ {q} : DocumentOf(r)' = DocumentOf(r) /\ callers'[r] = callers[r]
        BY <2>3, <3>1 DEF DocumentOf
      <4> HIDE DEF d
      <4> QED
        BY <2>1, <2>4, <2>6, <2>7, <3>1, <4>1, <4>2
    <3>2. CASE q # p
      <4>1. callers[q].pc = "committed" /\ DocumentOf(q)' = DocumentOf(q)
        BY <2>3, <2>10, <3>2 DEF DocumentOf
      <4>2. DocumentOf(q).nonce # d.nonce /\ DocumentOf(q) \in Documents
        BY <2>7, <3>2, <4>1 DEF AdmissionSafe
      <4>3. \A r \in Processes \ {q} :
              callers'[r].pc = "committed" => DocumentOf(r)'.nonce # DocumentOf(q).nonce
        <5> SUFFICES ASSUME NEW r \in Processes \ {q}, callers'[r].pc = "committed"
                     PROVE  DocumentOf(r)'.nonce # DocumentOf(q).nonce
          OBVIOUS
        <5>1. CASE r = p
          BY <2>3, <4>2, <5>1 DEF DocumentOf
        <5>2. CASE r # p
          BY <2>3, <4>1, <5>2 DEF AdmissionSafe, DocumentOf
        <5> QED
          BY <5>1, <5>2
      <4> HIDE DEF d
      <4> QED
        BY <1>0, <2>1, <2>4, <4>1, <4>2, <4>3 DEF AdmissionSafe
    <3> QED
      BY <3>1, <3>2
  <2> HIDE DEF d
  <2> QED
    BY <2>1, <2>3, <2>4, <2>8, <2>9, <2>10 DEF AdmissionSafe
<1>4. ASSUME NEW p \in Processes, Admission!Replay(p) PROVE AdmissionSafe'
  BY <1>4, LeavingKeeps DEF Admission!Replay
<1>5. ASSUME NEW p \in Processes, Admission!Answer(p) PROVE AdmissionSafe'
  <2> DEFINE d == DocumentOf(p)
  <2>1. /\ callers[p].pc = "committed"
        /\ durable' = claims /\ claims' = claims
        /\ admitted' = [admitted EXCEPT ![d] = @ + 1]
        /\ callers' = [callers EXCEPT ![p] = [pc |-> "idle", document |-> NoDocument]]
    BY <1>5 DEF Admission!Answer, Admission!At, Admission!Leaves, Admission!Idle, DocumentOf
  <2>2. /\ d \in Documents /\ d.nonce \in Admission!Nonces
        /\ claims[d.nonce] = d
        /\ \A e \in Documents : e.nonce = d.nonce => admitted[e] = 0
        /\ \A q \in Processes \ {p} :
             callers[q].pc = "committed" => DocumentOf(q).nonce # d.nonce
    BY <1>0, <2>1 DEF AdmissionSafe
  <2>3. /\ admitted' \in [Documents -> Nat]
        /\ admitted'[d] = 1
        /\ \A e \in Documents \ {d} : admitted'[e] = admitted[e]
    BY <1>0, <2>1, <2>2
  <2>4. [pc |-> "idle", document |-> NoDocument] \in CallerRecords
    BY DEF CallerRecords
  <2>5. /\ callers' \in [Processes -> CallerRecords]
        /\ callers'[p].pc = "idle"
        /\ \A q \in Processes \ {p} : callers'[q] = callers[q] /\ DocumentOf(q)' = DocumentOf(q)
    BY <1>0, <2>1, <2>4 DEF DocumentOf
  <2>6. \A e \in Documents : admitted'[e] > 0 => admitted'[e] = 1 /\ claims[e.nonce] = e
    <3> SUFFICES ASSUME NEW e \in Documents, admitted'[e] > 0
                 PROVE  admitted'[e] = 1 /\ claims[e.nonce] = e
      OBVIOUS
    <3>1. CASE e = d
      BY <2>2, <2>3, <3>1
    <3>2. CASE e # d
      <4>1. admitted[e] = 1 /\ durable[e.nonce] = e
        BY <2>3, <3>2 DEF AdmissionSafe
      <4> QED
        BY <1>0, <2>3, <3>2, <4>1 DEF AdmissionSafe
    <3> QED
      BY <3>1, <3>2
  <2>7. \A q \in Processes : callers'[q].pc = "committed" =>
          /\ claims[DocumentOf(q)'.nonce] = DocumentOf(q)'
          /\ \A e \in Documents : e.nonce = DocumentOf(q)'.nonce => admitted'[e] = 0
          /\ \A r \in Processes \ {q} :
               callers'[r].pc = "committed" => DocumentOf(r)'.nonce # DocumentOf(q)'.nonce
    BY <2>2, <2>3, <2>5 DEF AdmissionSafe
  <2>8. \A q \in Processes : callers'[q].pc # "idle" => DocumentOf(q)' \in Documents
    BY <2>5 DEF AdmissionSafe
  <2> HIDE DEF d
  <2> QED
    BY <1>0, <2>1, <2>3, <2>5, <2>6, <2>7, <2>8 DEF AdmissionSafe
<1>6. ASSUME NEW p \in Processes, Admission!Fail(p) PROVE AdmissionSafe'
  BY <1>6, LeavingKeeps DEF Admission!Fail
<1>7. CASE Admission!PowerFailure
  <2>1. /\ claims' \in {claims, durable} /\ durable' = claims' /\ admitted' = admitted
        /\ callers' = [p \in Processes |-> [pc |-> "idle", document |-> NoDocument]]
    BY <1>7 DEF Admission!PowerFailure, Admission!Idle
  <2>2. [pc |-> "idle", document |-> NoDocument] \in CallerRecords
    BY DEF CallerRecords
  <2>3. /\ callers' \in [Processes -> CallerRecords]
        /\ \A p \in Processes : callers'[p].pc = "idle"
    BY <2>1, <2>2
  <2>4. \A d \in Documents : admitted[d] > 0 => claims'[d.nonce] = d
    BY <1>0, <2>1 DEF AdmissionSafe
  <2> QED
    BY <1>0, <2>1, <2>3, <2>4 DEF AdmissionSafe
<1>8. CASE Admission!Tick
  BY <1>8 DEF Admission!Tick, AdmissionSafe, DocumentOf
<1>9. CASE UNCHANGED Admission!vars
  BY <1>9 DEF Admission!vars, AdmissionSafe, DocumentOf
<1> QED
  BY <1>1, <1>2, <1>3, <1>4, <1>5, <1>6, <1>7, <1>8, <1>9 DEF Admission!Next

\* A nonce admits once, over all documents that carry it, and who was admitted
\* keeps its claim through a failure of the machine.
THEOREM AdmissionIsOnceForGood == Admission!Spec => []AdmittedOnceForGood
<1>1. AdmissionSafe => AdmittedOnceForGood
  <2> SUFFICES ASSUME AdmissionSafe PROVE AdmittedOnceForGood
    OBVIOUS
  <2>1. admitted \in [Documents -> Nat]
    BY DEF AdmissionSafe
  <2>2. ASSUME NEW d \in Documents, NEW e \in Documents, d.nonce = e.nonce, admitted[d] > 0
        PROVE  admitted[d] = 1 /\ (e # d => admitted[e] = 0)
    BY <2>1, <2>2 DEF AdmissionSafe
  <2> QED
    BY <2>2 DEF AdmissionSafe, AdmittedOnceForGood, Admission!AdmittedOnceForGood, Admission!AdmitsOnce,
                Admission!KeepsAdmitted
<1> QED
  BY <1>1, AdmissionInit, AdmissionStepKeeps, PTL DEF Admission!Spec

-----------------------------------------------------------------------------
(* The queue file.                                                         *)

QueueShapes == [records : [Queue!Ids -> Queue!Records \cup {NoRecord}],
                claims : [Queue!Tasks -> Queue!Ids \cup {NoClaim}]]

Owns(q, i, t) == q.records[i] # NoRecord /\ t \in q.records[i].digest.tasks

\* Loads without its choice: a task's claim is its one owner's.
Legal(q) ==
  /\ \A i \in Queue!Ids : q.records[i] # NoRecord => Queue!RecordLoads(q.records[i])
  /\ \A i, j \in Queue!Ids :
       q.records[i] # NoRecord /\ q.records[j] # NoRecord /\ i # j =>
         q.records[i].digest.tasks \cap q.records[j].digest.tasks = {}
  /\ \A t \in Queue!Tasks :
       /\ \A i \in Queue!Ids : Owns(q, i, t) => q.claims[t] = i
       /\ (\A i \in Queue!Ids : ~Owns(q, i, t)) => q.claims[t] = NoClaim

\* What the process holds in hand loads as well as what the file holds.
QueueSafe ==
  /\ queue \in QueueShapes /\ Legal(queue)
  /\ call # NoCall => call \in QueueShapes /\ Legal(call)

\* The shape check accepts exactly what is legal.
LEMMA LegalLoads == ASSUME NEW q PROVE Legal(q) <=> Queue!Loads(q)
<1> DEFINE disjoint == \A i, j \in Queue!Ids :
             q.records[i] # NoRecord /\ q.records[j] # NoRecord /\ i # j =>
               q.records[i].digest.tasks \cap q.records[j].digest.tasks = {}
           owner(t) == CHOOSE i \in Queue!Ids : q.records[i] # NoRecord /\ t \in q.records[i].digest.tasks
           owned(t) == \E i \in Queue!Ids : q.records[i] # NoRecord /\ t \in q.records[i].digest.tasks
<1>1. ASSUME NEW t, owned(t)
      PROVE  owner(t) \in Queue!Ids /\ q.records[owner(t)] # NoRecord /\ t \in q.records[owner(t)].digest.tasks
  BY <1>1
<1>2. ASSUME disjoint, NEW t, NEW i \in Queue!Ids, Owns(q, i, t)
      PROVE  owned(t) /\ owner(t) = i
  <2>1. owned(t)
    BY <1>2 DEF Owns
  <2>2. owner(t) \in Queue!Ids /\ q.records[owner(t)] # NoRecord /\ t \in q.records[owner(t)].digest.tasks
    BY <1>1, <2>1
  <2> HIDE DEF owner, owned
  <2> QED
    BY <1>2, <2>1, <2>2 DEF Owns
<1>3. ASSUME NEW t PROVE owned(t) <=> \E i \in Queue!Ids : Owns(q, i, t)
  BY DEF Owns
<1>4. Legal(q) => Queue!Loads(q)
  <2> SUFFICES ASSUME Legal(q) PROVE Queue!Loads(q)
    OBVIOUS
  <2>1. disjoint
    BY DEF Legal
  <2>2. ASSUME NEW t \in Queue!Tasks PROVE q.claims[t] = IF owned(t) THEN owner(t) ELSE NoClaim
    <3>1. CASE owned(t)
      <4>1. PICK i \in Queue!Ids : Owns(q, i, t)
        BY <1>3, <3>1
      <4>2. owner(t) = i
        BY <1>2, <2>1, <4>1
      <4> HIDE DEF owner, owned
      <4> QED
        BY <3>1, <4>1, <4>2 DEF Legal
    <3>2. CASE ~owned(t)
      <4> HIDE DEF owner
      <4> QED
        BY <1>3, <3>2 DEF Legal
    <3> QED
      BY <3>1, <3>2
  <2> QED
    BY <2>2 DEF Legal, Queue!Loads
<1>5. Queue!Loads(q) => Legal(q)
  <2> SUFFICES ASSUME Queue!Loads(q) PROVE Legal(q)
    OBVIOUS
  <2>1. disjoint
    BY DEF Queue!Loads
  <2>2. \A t \in Queue!Tasks : q.claims[t] = IF owned(t) THEN owner(t) ELSE NoClaim
    BY DEF Queue!Loads
  <2>3. ASSUME NEW t \in Queue!Tasks, NEW i \in Queue!Ids, Owns(q, i, t) PROVE q.claims[t] = i
    <3>1. owned(t) /\ owner(t) = i
      BY <1>2, <2>1, <2>3
    <3> HIDE DEF owned, owner
    <3> QED
      BY <2>2, <3>1
  <2>4. ASSUME NEW t \in Queue!Tasks, \A i \in Queue!Ids : ~Owns(q, i, t) PROVE q.claims[t] = NoClaim
    <3>1. ~owned(t)
      BY <1>3, <2>4
    <3> HIDE DEF owned, owner
    <3> QED
      BY <2>2, <3>1
  <2> QED
    BY <2>3, <2>4 DEF Legal, Queue!Loads
<1> QED
  BY <1>4, <1>5

\* The histories a record can have.
LEMMA Histories ==
  /\ SubSeq(Queue!Normal, 1, 1) = <<"QUEUED">>
  /\ SubSeq(Queue!Normal, 1, 2) = <<"QUEUED", "READY">>
  /\ SubSeq(Queue!Normal, 1, 3) = <<"QUEUED", "READY", "DRY_RUN_VERIFIED">>
  /\ \A k \in 1..3 : SubSeq(Queue!Normal, 1, k) \in Seq(Queue!Statuses)
<1>1. Queue!Normal \in Seq(Queue!Statuses) /\ Len(Queue!Normal) = 3
  BY DEF Queue!Normal, Queue!Statuses
<1>2. SubSeq(Queue!Normal, 1, 3) = Queue!Normal
  BY <1>1, SubSeqFull
<1>3. ASSUME NEW k \in 1..3 PROVE SubSeq(Queue!Normal, 1, k) \in Seq(Queue!Statuses)
  BY <1>1
<1>4. /\ SubSeq(Queue!Normal, 1, 1) \in Seq(Queue!Statuses) /\ Len(SubSeq(Queue!Normal, 1, 1)) = 1
      /\ SubSeq(Queue!Normal, 1, 1)[1] = Queue!Normal[1]
      /\ SubSeq(Queue!Normal, 1, 2) \in Seq(Queue!Statuses) /\ Len(SubSeq(Queue!Normal, 1, 2)) = 2
      /\ SubSeq(Queue!Normal, 1, 2)[1] = Queue!Normal[1]
      /\ SubSeq(Queue!Normal, 1, 2)[2] = Queue!Normal[2]
  BY <1>1
<1>5. Queue!Normal[1] = "QUEUED" /\ Queue!Normal[2] = "READY"
  BY DEF Queue!Normal
<1>6. SubSeq(Queue!Normal, 1, 1) = <<"QUEUED">>
  <2>1. <<"QUEUED">> \in Seq(Queue!Statuses) /\ Len(<<"QUEUED">>) = 1
    BY DEF Queue!Statuses
  <2>2. \A i \in 1..1 : SubSeq(Queue!Normal, 1, 1)[i] = <<"QUEUED">>[i]
    BY <1>4, <1>5
  <2> QED
    BY <1>4, <2>1, <2>2, SeqEqual
<1>7. SubSeq(Queue!Normal, 1, 2) = <<"QUEUED", "READY">>
  <2>1. <<"QUEUED", "READY">> \in Seq(Queue!Statuses) /\ Len(<<"QUEUED", "READY">>) = 2
    BY DEF Queue!Statuses
  <2>2. \A i \in 1..2 : SubSeq(Queue!Normal, 1, 2)[i] = <<"QUEUED", "READY">>[i]
    BY <1>4, <1>5
  <2> QED
    BY <1>4, <2>1, <2>2, SeqEqual
<1>8. SubSeq(Queue!Normal, 1, 3) = <<"QUEUED", "READY", "DRY_RUN_VERIFIED">>
  BY <1>2 DEF Queue!Normal
<1> QED
  BY <1>3, <1>6, <1>7, <1>8

\* Blocking a record, again or for the first time, leaves it loadable.
LEMMA BlockedRecordLoads ==
  ASSUME NEW r \in Queue!Records, Queue!RecordLoads(r), NEW code \in Queue!Codes, code # "none"
  PROVE  Queue!Blocked(r, code) \in Queue!Records /\ Queue!RecordLoads(Queue!Blocked(r, code))
<1> DEFINE last == r.transitions[Len(r.transitions)]
           new == IF last = "BLOCKED" THEN r.transitions ELSE Append(r.transitions, "BLOCKED")
<1>0. /\ r = [status |-> r.status, code |-> r.code, digest |-> r.digest,
               transitions |-> r.transitions]
      /\ r.digest \in Manifests /\ r.transitions \in Seq(Queue!Statuses)
  BY DEF Queue!Records, Queue!Statuses, Queue!Codes
<1>1. Queue!Blocked(r, code) = [r EXCEPT !.status = "BLOCKED", !.code = code, !.transitions = new]
  BY DEF Queue!Blocked, Queue!Last
<1>2. new \in Seq(Queue!Statuses)
  BY <1>0, AppendProperties DEF Queue!Statuses
<1>3. \E k \in 1..3 : new = Append(SubSeq(Queue!Normal, 1, k), "BLOCKED")
  <2>1. CASE r.status = "BLOCKED"
    <3>1. PICK k \in 1..3 : r.transitions = Append(SubSeq(Queue!Normal, 1, k), "BLOCKED")
      BY <2>1 DEF Queue!RecordLoads
    <3>2. last = "BLOCKED"
      BY <3>1, Histories, AppendProperties DEF Queue!Statuses
    <3> QED
      BY <3>1, <3>2
  <2>2. CASE r.status # "BLOCKED"
    <3>1. PICK k \in 1..3 : r.transitions = SubSeq(Queue!Normal, 1, k)
      BY <2>2 DEF Queue!RecordLoads
    <3>2. last # "BLOCKED"
      <4>1. Queue!Normal \in Seq(Queue!Statuses) /\ Len(Queue!Normal) = 3
        BY DEF Queue!Normal, Queue!Statuses
      <4>2. Len(r.transitions) = k /\ r.transitions[k] = Queue!Normal[k]
        <5>0. \A i \in 1..3 : Queue!Normal[i] \in Queue!Statuses
          BY DEF Queue!Normal, Queue!Statuses
        <5>1. \A i \in 1..k : Queue!Normal[i] \in Queue!Statuses
          BY <5>0
        <5>2. Len(SubSeq(Queue!Normal, 1, k)) = k /\ k \in 1..(k - 1 + 1)
              /\ SubSeq(Queue!Normal, 1, k)[k] = Queue!Normal[1 + k - 1]
          BY <5>1, SubSeqProperties
        <5> QED
          BY <3>1, <5>2
      <4>3. Queue!Normal[k] # "BLOCKED"
        BY DEF Queue!Normal
      <4> QED
        BY <4>2, <4>3
    <3> QED
      BY <3>1, <3>2
  <2> QED
    BY <2>1, <2>2
<1> HIDE DEF new
<1>4. /\ Queue!Blocked(r, code) \in Queue!Records
      /\ Queue!Blocked(r, code).status = "BLOCKED" /\ Queue!Blocked(r, code).code = code
      /\ Queue!Blocked(r, code).transitions = new
  BY <1>1, <1>2 DEF Queue!Records, Queue!Statuses, Queue!Codes
<1> QED
  BY <1>3, <1>4 DEF Queue!RecordLoads

\* So does advancing it to the next status.
LEMMA AdvancedRecordLoads ==
  ASSUME NEW r \in Queue!Records, Queue!RecordLoads(r),
         NEW to \in {"READY", "DRY_RUN_VERIFIED"},
         r.status = (IF to = "READY" THEN "QUEUED" ELSE "READY")
  PROVE  Queue!Advance(r, to) \in Queue!Records /\ Queue!RecordLoads(Queue!Advance(r, to))
<1> DEFINE new == Append(r.transitions, to)
<1>0. /\ r = [status |-> r.status, code |-> r.code, digest |-> r.digest,
               transitions |-> r.transitions]
      /\ r.digest \in Manifests /\ r.code \in Queue!Codes /\ r.transitions \in Seq(Queue!Statuses)
  BY DEF Queue!Records, Queue!Statuses, Queue!Codes
<1>a. new \in Seq(Queue!Statuses)
  BY <1>0, AppendProperties DEF Queue!Statuses
<1>b. Queue!Advance(r, to) = [r EXCEPT !.status = to, !.transitions = new]
  BY DEF Queue!Advance
<1> HIDE DEF new
<1>1. /\ Queue!Advance(r, to) \in Queue!Records
      /\ Queue!Advance(r, to).status = to /\ Queue!Advance(r, to).code = r.code
      /\ Queue!Advance(r, to).transitions = new
  BY <1>a, <1>b DEF Queue!Records, Queue!Statuses, Queue!Codes
<1> USE DEF new
<1>2. r.status # "BLOCKED"
  OBVIOUS
<1>3. PICK k \in 1..3 : r.transitions = SubSeq(Queue!Normal, 1, k) /\ r.status = Queue!Normal[k]
  BY <1>2 DEF Queue!RecordLoads
<1>4. r.code = "none"
  BY <1>2 DEF Queue!RecordLoads
<1>5. CASE to = "READY"
  <2>1. k = 1
    BY <1>3, <1>5 DEF Queue!Normal
  <2>2. new = SubSeq(Queue!Normal, 1, 2) /\ Queue!Normal[2] = "READY"
    BY <1>3, <1>5, <2>1, Histories DEF Queue!Normal
  <2> HIDE DEF new
  <2>3. \E n \in 1..3 : new = SubSeq(Queue!Normal, 1, n) /\ to = Queue!Normal[n]
    BY <1>5, <2>2
  <2> QED
    BY <1>1, <1>4, <1>5, <2>3 DEF Queue!RecordLoads
<1>6. CASE to = "DRY_RUN_VERIFIED"
  <2>1. k = 2
    BY <1>3, <1>6 DEF Queue!Normal
  <2>2. new = SubSeq(Queue!Normal, 1, 3) /\ Queue!Normal[3] = "DRY_RUN_VERIFIED"
    BY <1>3, <1>6, <2>1, Histories DEF Queue!Normal
  <2> HIDE DEF new
  <2>3. \E n \in 1..3 : new = SubSeq(Queue!Normal, 1, n) /\ to = Queue!Normal[n]
    BY <1>6, <2>2
  <2> QED
    BY <1>1, <1>4, <1>6, <2>3 DEF Queue!RecordLoads
<1> QED
  BY <1>5, <1>6

\* A record that is replaced by one of the same manifest leaves a legal state.
LEMMA ReplacedRecordLegal ==
  ASSUME NEW q \in QueueShapes, Legal(q), NEW i \in Queue!Ids, q.records[i] # NoRecord,
         NEW r \in Queue!Records, Queue!RecordLoads(r), r.digest = q.records[i].digest,
         NEW n, n = [q EXCEPT !.records[i] = r]
  PROVE  n \in QueueShapes /\ Legal(n)
<1>1. /\ n \in QueueShapes /\ n.claims = q.claims
      /\ n.records[i] = r
      /\ \A j \in Queue!Ids \ {i} : n.records[j] = q.records[j]
  BY DEF QueueShapes
<1>2. r # NoRecord
  BY ToolsAssumption
<1>3. \A j \in Queue!Ids : /\ n.records[j] # NoRecord <=> q.records[j] # NoRecord
                      /\ n.records[j] # NoRecord => n.records[j].digest = q.records[j].digest
  BY <1>1, <1>2
<1>4. ASSUME NEW j \in Queue!Ids, NEW t PROVE Owns(n, j, t) <=> Owns(q, j, t)
  <2>1. CASE n.records[j] = NoRecord
    <3>1. ~Owns(n, j, t)
      BY <2>1 DEF Owns
    <3>2. q.records[j] = NoRecord
      BY <1>1, <1>2, <2>1
    <3>3. ~Owns(q, j, t)
      BY <3>2 DEF Owns
    <3> QED
      BY <3>1, <3>3
  <2>2. CASE n.records[j] # NoRecord
    BY <1>3, <2>2 DEF Owns
  <2> QED
    BY <2>1, <2>2
<1>5. \A j \in Queue!Ids : n.records[j] # NoRecord => Queue!RecordLoads(n.records[j])
  BY <1>1 DEF Legal
<1>6. Legal(n)
  BY <1>1, <1>3, <1>4, <1>5 DEF Legal
<1> QED
  BY <1>1, <1>6

\* A manifest none of whose tasks is claimed.
LEMMA EnqueuedLegal ==
  ASSUME NEW q \in QueueShapes, Legal(q), NEW m \in Manifests, q.records[m.id] = NoRecord,
         \A t \in m.tasks : q.claims[t] = NoClaim,
         NEW n, n = [records |-> [q.records EXCEPT ![m.id] =
                        [status |-> "QUEUED", code |-> "none", digest |-> m,
                         transitions |-> <<"QUEUED">>]],
                     claims |-> [t \in Queue!Tasks |-> IF t \in m.tasks THEN m.id ELSE q.claims[t]]]
  PROVE  n \in QueueShapes /\ Legal(n)
<1> DEFINE r == [status |-> "QUEUED", code |-> "none", digest |-> m, transitions |-> <<"QUEUED">>]
<1>1. m.id \in Queue!Ids /\ m.tasks \subseteq Queue!Tasks /\ NoClaim \notin Queue!Ids
  BY ToolsAssumption DEF Queue!Ids, Queue!Tasks
<1>2. r \in Queue!Records
  <2>1. <<"QUEUED">> \in Seq(Queue!Statuses)
    BY DEF Queue!Statuses
  <2> QED
    BY <2>1 DEF Queue!Records, Queue!Statuses, Queue!Codes
<1>3. r # NoRecord
  BY <1>2, ToolsAssumption
<1>4. Queue!RecordLoads(r)
  <2>1. r.transitions = SubSeq(Queue!Normal, 1, 1) /\ r.status = Queue!Normal[1]
    BY Histories DEF Queue!Normal
  <2>2. \E k \in 1..3 : r.transitions = SubSeq(Queue!Normal, 1, k) /\ r.status = Queue!Normal[k]
    BY <2>1
  <2> QED
    BY <2>2 DEF Queue!RecordLoads
<1>5. r.digest = m
  OBVIOUS
<1>6. n = [records |-> [q.records EXCEPT ![m.id] = r],
           claims |-> [t \in Queue!Tasks |-> IF t \in m.tasks THEN m.id ELSE q.claims[t]]]
  OBVIOUS
<1> HIDE DEF r
<1>7. /\ n.records = [q.records EXCEPT ![m.id] = r]
      /\ n.claims = [t \in Queue!Tasks |-> IF t \in m.tasks THEN m.id ELSE q.claims[t]]
      /\ n = [records |-> n.records, claims |-> n.claims]
  BY <1>6
<1>8. q.records \in [Queue!Ids -> Queue!Records \cup {NoRecord}] /\ q.claims \in [Queue!Tasks -> Queue!Ids \cup {NoClaim}]
  BY DEF QueueShapes
<1>9. /\ n.records \in [Queue!Ids -> Queue!Records \cup {NoRecord}]
      /\ n.records[m.id] = r
      /\ \A j \in Queue!Ids \ {m.id} : n.records[j] = q.records[j]
  BY <1>1, <1>2, <1>7, <1>8
<1>10. /\ n.claims \in [Queue!Tasks -> Queue!Ids \cup {NoClaim}]
       /\ \A t \in Queue!Tasks : n.claims[t] = IF t \in m.tasks THEN m.id ELSE q.claims[t]
  BY <1>1, <1>7, <1>8
<1>11. n \in QueueShapes
  BY <1>7, <1>9, <1>10 DEF QueueShapes
<1>12. ASSUME NEW j \in Queue!Ids \ {m.id}, NEW t \in m.tasks PROVE ~Owns(n, j, t)
  <2>1. q.claims[t] = NoClaim /\ t \in Queue!Tasks
    BY <1>1
  <2>2. ~Owns(q, j, t)
    BY <1>1, <2>1 DEF Legal
  <2> QED
    BY <1>9, <2>2 DEF Owns
<1>13. /\ \A t : Owns(n, m.id, t) <=> t \in m.tasks
       /\ \A t : ~Owns(q, m.id, t)
       /\ \A j \in Queue!Ids \ {m.id} : \A t : Owns(n, j, t) <=> Owns(q, j, t)
  BY <1>3, <1>5, <1>9 DEF Owns
<1>14. \A j \in Queue!Ids : n.records[j] # NoRecord => Queue!RecordLoads(n.records[j])
  BY <1>4, <1>9 DEF Legal
<1>15. ASSUME NEW i \in Queue!Ids, NEW j \in Queue!Ids, n.records[i] # NoRecord, n.records[j] # NoRecord, i # j
       PROVE  n.records[i].digest.tasks \cap n.records[j].digest.tasks = {}
  <2>1. CASE i # m.id /\ j # m.id
    BY <1>9, <1>15, <2>1 DEF Legal
  <2>2. CASE i = m.id
    <3>1. \A t \in n.records[i].digest.tasks : t \notin n.records[j].digest.tasks
      BY <1>5, <1>9, <1>12, <1>15, <2>2 DEF Owns
    <3> QED
      BY <3>1
  <2>3. CASE j = m.id
    <3>1. \A t \in n.records[j].digest.tasks : t \notin n.records[i].digest.tasks
      BY <1>5, <1>9, <1>12, <1>15, <2>3 DEF Owns
    <3> QED
      BY <3>1
  <2> QED
    BY <2>1, <2>2, <2>3
<1>16. ASSUME NEW t \in Queue!Tasks
       PROVE  /\ \A i \in Queue!Ids : Owns(n, i, t) => n.claims[t] = i
              /\ (\A i \in Queue!Ids : ~Owns(n, i, t)) => n.claims[t] = NoClaim
  <2>1. CASE t \in m.tasks
    BY <1>1, <1>10, <1>12, <1>13, <2>1
  <2>2. CASE t \notin m.tasks
    <3>1. n.claims[t] = q.claims[t]
      BY <1>10, <2>2
    <3>2. \A i \in Queue!Ids : Owns(n, i, t) <=> Owns(q, i, t)
      BY <1>13, <2>2
    <3> QED
      BY <3>1, <3>2 DEF Legal
  <2> QED
    BY <2>1, <2>2
<1> QED
  BY <1>11, <1>14, <1>15, <1>16 DEF Legal

LEMMA QueueInit == Queue!Init => QueueSafe
<1> SUFFICES ASSUME Queue!Init PROVE QueueSafe
  OBVIOUS
<1>1. /\ queue = [records |-> [i \in Queue!Ids |-> NoRecord], claims |-> [t \in Queue!Tasks |-> NoClaim]]
      /\ call = NoCall
  BY DEF Queue!Init, Queue!EmptyState
<1>2. /\ queue.records = [i \in Queue!Ids |-> NoRecord] /\ queue.claims = [t \in Queue!Tasks |-> NoClaim]
      /\ queue \in QueueShapes
  BY <1>1 DEF QueueShapes
<1> QED
  BY <1>1, <1>2 DEF QueueSafe, Legal, Owns

\* Every step keeps the invariant.
LEMMA QueueStepKeeps == QueueSafe /\ [Queue!Next]_(Queue!vars) => QueueSafe'
<1> SUFFICES ASSUME QueueSafe, [Queue!Next]_(Queue!vars) PROVE QueueSafe'
  OBVIOUS
<1>1. queue \in QueueShapes /\ Legal(queue) /\ \A m \in Manifests : m.id \in Queue!Ids
  BY DEF QueueSafe, Queue!Ids
<1>2. ASSUME NEW q, Queue!Writes(q), q \in QueueShapes, Legal(q) PROVE QueueSafe'
  BY <1>1, <1>2 DEF Queue!Writes, QueueSafe
<1>3. \A i \in Queue!Ids : queue.records[i] # NoRecord =>
        queue.records[i] \in Queue!Records /\ Queue!RecordLoads(queue.records[i])
  BY <1>1 DEF Legal, QueueShapes
<1>4. ASSUME NEW m \in Manifests, Queue!Enqueue(m) PROVE QueueSafe'
  BY <1>1, <1>2, <1>4, EnqueuedLegal DEF Queue!Enqueue, Queue!MayEnqueue
<1>5. ASSUME NEW i \in Queue!Ids, queue.records[i] # NoRecord, NEW code \in Queue!Codes, code # "none",
             Queue!Writes([queue EXCEPT !.records[i] = Queue!Blocked(queue.records[i], code)])
      PROVE  QueueSafe'
  <2> DEFINE r == Queue!Blocked(queue.records[i], code)
  <2>1. r \in Queue!Records /\ Queue!RecordLoads(r)
    BY <1>3, <1>5, BlockedRecordLoads
  <2>2. r.digest = queue.records[i].digest
    BY <1>3, <1>5 DEF Queue!Blocked, Queue!Records, Queue!Statuses, Queue!Codes
  <2>3. PICK n : n = [queue EXCEPT !.records[i] = r] /\ Queue!Writes(n)
    BY <1>5
  <2> HIDE DEF r
  <2> QED
    BY <1>1, <1>2, <1>5, <2>1, <2>2, <2>3, ReplacedRecordLegal
<1>6. ASSUME NEW m \in Manifests, Queue!Mismatch(m) PROVE QueueSafe'
  <2>1. /\ queue.records[m.id] # NoRecord
        /\ Queue!Writes([queue EXCEPT !.records[m.id] =
                      Queue!Blocked(queue.records[m.id], "manifest_mismatch")])
    BY <1>6 DEF Queue!Mismatch
  <2>2. "manifest_mismatch" \in Queue!Codes
    BY DEF Queue!Codes
  <2> QED
    BY <1>1, <1>5, <2>1, <2>2
<1>7. ASSUME NEW m \in Manifests, NEW to \in {"READY", "DRY_RUN_VERIFIED"},
             Queue!Boundary(m, IF to = "READY" THEN "QUEUED" ELSE "READY", to)
      PROVE  QueueSafe'
  <2> DEFINE i == m.id
             r == Queue!Advance(queue.records[i], to)
  <2>1. /\ queue.records[i] # NoRecord /\ i \in Queue!Ids
        /\ queue.records[i].status = (IF to = "READY" THEN "QUEUED" ELSE "READY")
    BY <1>1, <1>7 DEF Queue!Boundary, Queue!MayAdvance
  <2>2. r \in Queue!Records /\ Queue!RecordLoads(r)
    BY <1>3, <2>1, AdvancedRecordLoads
  <2>3. r.digest = queue.records[i].digest
    BY <1>3, <2>1 DEF Queue!Advance, Queue!Records, Queue!Statuses, Queue!Codes
  <2>4. \/ Queue!Writes([queue EXCEPT !.records[i] = r])
        \/ Queue!Writes([queue EXCEPT !.records[i] =
                      Queue!Blocked(queue.records[i], "target_baseline_mismatch")])
    BY <1>7 DEF Queue!Boundary
  <2> HIDE DEF r, i
  <2>5. CASE Queue!Writes([queue EXCEPT !.records[i] = r])
    <3>1. PICK n : n = [queue EXCEPT !.records[i] = r] /\ Queue!Writes(n)
      BY <2>5
    <3> QED
      BY <1>1, <1>2, <2>1, <2>2, <2>3, <3>1, ReplacedRecordLegal
  <2>6. CASE Queue!Writes([queue EXCEPT !.records[i] =
                        Queue!Blocked(queue.records[i], "target_baseline_mismatch")])
    <3>1. "target_baseline_mismatch" \in Queue!Codes
      BY DEF Queue!Codes
    <3> QED
      BY <1>5, <2>1, <2>6, <3>1
  <2> QED
    BY <2>4, <2>5, <2>6
<1>8. ASSUME NEW m \in Manifests, Queue!Prepare(m) \/ Queue!VerifyDryRun(m) PROVE QueueSafe'
  BY <1>7, <1>8 DEF Queue!Prepare, Queue!VerifyDryRun
<1>9. CASE Queue!Replace
  BY <1>9 DEF Queue!Replace, QueueSafe
<1>10. CASE Queue!Die
  BY <1>10 DEF Queue!Die, QueueSafe
<1>11. ASSUME NEW f \in Queue!Paths, Queue!Edit(f) PROVE QueueSafe'
  BY <1>11 DEF Queue!Edit, QueueSafe
<1>12. CASE UNCHANGED Queue!vars
  BY <1>12 DEF Queue!vars, QueueSafe
<1> QED
  BY <1>4, <1>6, <1>8, <1>9, <1>10, <1>11, <1>12 DEF Queue!Next

\* Whatever calls, mismatches, drifts and restarts produced it, the state file
\* passes the shape check of its next load.
THEOREM QueueFileLoads == Queue!Spec => []QueueStaysLoadable
<1>1. QueueSafe => QueueStaysLoadable
  BY LegalLoads DEF QueueSafe, QueueStaysLoadable, Queue!QueueStaysLoadable
<1> QED
  BY <1>1, QueueInit, QueueStepKeeps, PTL DEF Queue!Spec

-----------------------------------------------------------------------------
(* The one-shot hand-off.                                                  *)

RunPCs == {"ready", "receipt", "candidate", "denied", "uncertain", "claimed", "generated",
           "verified", "validated", "cleanup", "consumed", "reported", "dead"}

RunRecords ==
  [pc : RunPCs, grant : Grants \cup {NoGrant}, claims : SUBSET Handoff!Stages,
   attempted : SUBSET Handoff!Stages, session : BOOLEAN,
   logout : {"none", "accepted", "unverified"}]

\* The places of a run that claimed a whole set for itself.
Started == {"claimed", "generated", "verified", "validated", "cleanup", "consumed",
            "reported", "dead"}

\* No session can yet have been received.
Sessionless == {"ready", "receipt", "candidate", "denied", "uncertain", "claimed", "generated"}

Called(r) == {stage \in Handoff!Stages : <<r, stage>> \in done \cup pending}

\* Where one run is: what it relies on is claimed in its name; nothing is called
\* before all four claims, and what is or may be carried out was noted, unless
\* the run is dead; a session that was received cannot begin again, and after an
\* accepted logout it is gone.
RunSafe(r) ==
  /\ runs[r].pc \in Started \cup {"receipt"} =>
       \A stage \in runs[r].claims : Handoff!Row(r, runs[r].grant, stage) \in rows
  /\ runs[r].pc = "candidate" =>
       /\ runs[r].claims = Handoff!Stages
       /\ \A stage \in Handoff!Stages : Handoff!SharedRow(r, runs[r].grant, stage) \in shared
  /\ runs[r].pc \in Started => runs[r].claims = Handoff!Stages /\ Handoff!Prepared(runs[r].grant)
  /\ Called(r) # {} => runs[r].pc \in Started
  /\ runs[r].pc # "dead" => Called(r) \subseteq runs[r].attempted
  /\ runs[r].pc \in Sessionless => ~runs[r].session /\ "AUTH_VERIFY" \notin runs[r].attempted
  /\ runs[r].session => <<r, "AUTH_VERIFY">> \notin pending
  /\ runs[r].logout = "accepted" => runs[r].session /\ r \notin sessions

\* No approval is claimed by two runs, nor a command in the shared ledger.
LedgersSafe ==
  /\ \A x, y \in rows : x.approval = y.approval => x.run = y.run
  /\ \A x, y \in shared : x.approval = y.approval \/ x.command = y.command => x.run = y.run
  /\ \A x \in shared : x.approval.stage = x.stage /\ x.stage \in Handoff!Stages

HandoffSafe ==
  /\ runs \in [Runs -> RunRecords]
  /\ done \subseteq Runs \X Handoff!Stages
  /\ pending \subseteq Runs \X Handoff!Stages
  /\ LedgersSafe
  /\ \A r \in Runs : RunSafe(r)

LEMMA HandoffInit == Handoff!Init => HandoffSafe
<1> SUFFICES ASSUME Handoff!Init PROVE HandoffSafe
  OBVIOUS
<1> DEFINE first == [pc |-> "ready", grant |-> NoGrant, claims |-> {}, attempted |-> {},
                     session |-> FALSE, logout |-> "none"]
<1>1. /\ runs = [r \in Runs |-> first]
      /\ rows = {} /\ shared = {} /\ done = {} /\ pending = {} /\ sessions = {}
  BY DEF Handoff!Init
<1>2. first \in RunRecords
  BY DEF RunRecords, RunPCs
<1>3. \A r \in Runs : RunSafe(r)
  BY <1>1 DEF RunSafe, Called, Started
<1> QED
  BY <1>1, <1>2, <1>3 DEF HandoffSafe, LedgersSafe

\* A run that nothing happens to stays safe while the ledgers grow and nothing is
\* called in its name.
LEMMA OthersStaySafe ==
  ASSUME NEW q \in Runs, RunSafe(q), runs'[q] = runs[q],
         rows \subseteq rows', shared \subseteq shared',
         Called(q)' \subseteq Called(q),
         <<q, "AUTH_VERIFY">> \in pending' => <<q, "AUTH_VERIFY">> \in pending,
         q \in sessions' => q \in sessions
  PROVE  RunSafe(q)'
<1>1. \A stage : Handoff!Row(q, runs[q].grant, stage)' = Handoff!Row(q, runs[q].grant, stage)
  BY DEF Handoff!Row
<1>2. \A stage : Handoff!SharedRow(q, runs[q].grant, stage)' = Handoff!SharedRow(q, runs[q].grant, stage)
  BY DEF Handoff!SharedRow
<1> QED
  BY <1>1, <1>2 DEF RunSafe, Handoff!Row, Handoff!SharedRow, Handoff!Prepared, Handoff!StagePrepared

\* What a call in the name of r changes, answered or not.
LEMMA CallChanges ==
  ASSUME NEW r \in Runs, NEW stage \in Handoff!Stages, Handoff!Unanswered(r, stage),
         done \subseteq Runs \X Handoff!Stages, pending \subseteq Runs \X Handoff!Stages
  PROVE  /\ done' \subseteq Runs \X Handoff!Stages /\ pending' \subseteq Runs \X Handoff!Stages
         /\ \A q \in Runs \ {r} : /\ Called(q)' = Called(q)
                                  /\ <<q, "AUTH_VERIFY">> \in pending' => <<q, "AUTH_VERIFY">> \in pending
                                  /\ q \in sessions' => q \in sessions
         /\ Called(r)' \subseteq Called(r) \cup {stage}
         /\ stage # "AUTH_VERIFY" =>
              /\ <<r, "AUTH_VERIFY">> \in pending' => <<r, "AUTH_VERIFY">> \in pending
              /\ r \in sessions' => r \in sessions
<1>1. CASE Handoff!Answered(r, stage)
  <2>1. done' = done \cup {<<r, stage>>} /\ pending' = pending
    BY <1>1 DEF Handoff!Answered, Handoff!CarriedOut
  <2>2. sessions' \subseteq sessions \cup {r} /\ (stage # "AUTH_VERIFY" => sessions' \subseteq sessions)
    BY <1>1 DEF Handoff!Answered, Handoff!CarriedOut
  <2> QED
    BY <2>1, <2>2 DEF Called
<1>2. CASE pending' = pending \cup {<<r, stage>>} /\ UNCHANGED <<done, sessions>>
  BY <1>2 DEF Called
<1> QED
  BY <1>1, <1>2 DEF Handoff!Unanswered

\* A call that was answered is one of those.
LEMMA AnsweredCall ==
  ASSUME NEW r, NEW stage, Handoff!Answered(r, stage) PROVE Handoff!Unanswered(r, stage) /\ pending' = pending
BY DEF Handoff!Answered, Handoff!Unanswered

\* The others stay safe when r calls.
LEMMA CallerAlone ==
  ASSUME HandoffSafe, NEW r \in Runs, NEW stage \in Handoff!Stages, Handoff!Unanswered(r, stage),
         UNCHANGED <<rows, shared>>, NEW record \in RunRecords,
         runs' = [runs EXCEPT ![r] = record], RunSafe(r)'
  PROVE  HandoffSafe'
<1>1. done \subseteq Runs \X Handoff!Stages /\ pending \subseteq Runs \X Handoff!Stages
  BY DEF HandoffSafe
<1>2. /\ runs' \in [Runs -> RunRecords]
      /\ \A q \in Runs \ {r} : runs'[q] = runs[q]
  BY DEF HandoffSafe
<1>3. \A q \in Runs \ {r} : RunSafe(q)'
  <2> SUFFICES ASSUME NEW q \in Runs \ {r} PROVE RunSafe(q)'
    OBVIOUS
  <2>1. RunSafe(q)
    BY DEF HandoffSafe
  <2>2. /\ Called(q)' = Called(q)
        /\ <<q, "AUTH_VERIFY">> \in pending' => <<q, "AUTH_VERIFY">> \in pending
        /\ q \in sessions' => q \in sessions
    BY <1>1, CallChanges
  <2> QED
    BY <1>2, <2>1, <2>2, OthersStaySafe
<1>4. LedgersSafe'
  BY DEF HandoffSafe, LedgersSafe
<1> QED
  BY <1>1, <1>2, <1>3, <1>4, CallChanges DEF HandoffSafe

\* The others stay safe when r moves and nothing is called.
LEMMA MoverAlone ==
  ASSUME HandoffSafe, NEW r \in Runs, rows \subseteq rows', shared \subseteq shared', LedgersSafe',
         UNCHANGED <<done, pending, sessions>>, NEW record \in RunRecords,
         runs' = [runs EXCEPT ![r] = record], RunSafe(r)'
  PROVE  HandoffSafe'
<1>1. /\ runs' \in [Runs -> RunRecords]
      /\ \A q \in Runs \ {r} : runs'[q] = runs[q]
  BY DEF HandoffSafe
<1>2. \A q \in Runs \ {r} : RunSafe(q)'
  BY <1>1, OthersStaySafe DEF HandoffSafe, Called
<1> QED
  BY <1>1, <1>2 DEF HandoffSafe

\* A claim in the SQLite ledger, of four stages or of one.
LEMMA ClaimKeeps ==
  ASSUME HandoffSafe, NEW r \in Runs, NEW g \in Grants, NEW stages \in SUBSET Handoff!Stages,
         NEW pc \in {"claimed", "receipt"}, pc = "claimed" => stages = Handoff!Stages /\ Handoff!Prepared(g),
         Handoff!Claim(r, g, stages, pc)
  PROVE  HandoffSafe'
<1>1. PICK answer \in {pc, "denied", "uncertain"} :
        /\ answer = pc => Handoff!Unclaimed(g, stages)
        /\ runs' = [runs EXCEPT ![r].pc = answer, ![r].grant = g, ![r].claims = stages]
        /\ \/ answer # pc /\ UNCHANGED rows
           \/ Handoff!Unclaimed(g, stages) /\ rows' = rows \cup {Handoff!Row(r, g, stage) : stage \in stages}
  BY DEF Handoff!Claim
<1>2. /\ runs[r].pc = "ready" /\ runs[r] \in RunRecords
      /\ UNCHANGED <<shared, done, pending, sessions>>
      /\ RunSafe(r)
  BY DEF Handoff!Claim, Handoff!At, HandoffSafe, Handoff!remote
<1> DEFINE new == [runs[r] EXCEPT !.pc = answer, !.grant = g, !.claims = stages]
<1>3. new \in RunRecords
  BY <1>1, <1>2 DEF RunRecords, RunPCs
<1>4. runs' = [runs EXCEPT ![r] = new]
  BY <1>1, <1>2
<1>5. rows \subseteq rows' /\ shared \subseteq shared'
  BY <1>1, <1>2
<1>6. LedgersSafe'
  <2>1. ASSUME NEW x \in rows', NEW y \in rows', x.approval = y.approval PROVE x.run = y.run
    <3>1. CASE rows' = rows
      BY <2>1, <3>1 DEF HandoffSafe, LedgersSafe
    <3>2. CASE Handoff!Unclaimed(g, stages) /\ rows' = rows \cup {Handoff!Row(r, g, stage) : stage \in stages}
      <4>1. ASSUME NEW z \in rows', z \notin rows
            PROVE  z.run = r /\ \E stage \in stages : z.approval = g.approvals[stage]
        BY <3>2, <4>1 DEF Handoff!Row
      <4>2. ASSUME NEW z \in rows, NEW stage \in stages PROVE z.approval # g.approvals[stage]
        BY <3>2 DEF Handoff!Unclaimed
      <4>3. CASE x \in rows /\ y \in rows
        BY <2>1, <4>3 DEF HandoffSafe, LedgersSafe
      <4>4. CASE x \notin rows /\ y \notin rows
        BY <4>1, <4>4
      <4>5. CASE x \in rows /\ y \notin rows
        BY <2>1, <4>1, <4>2, <4>5
      <4>6. CASE x \notin rows /\ y \in rows
        BY <2>1, <4>1, <4>2, <4>6
      <4> QED
        BY <4>3, <4>4, <4>5, <4>6
    <3> QED
      BY <1>1, <3>1, <3>2
  <2> QED
    BY <1>2, <2>1 DEF HandoffSafe, LedgersSafe
<1>7. RunSafe(r)'
  <2>1. runs'[r] = new
    BY <1>3, <1>4 DEF HandoffSafe
  <2>2. Called(r)' = Called(r) /\ Called(r) = {}
    BY <1>2 DEF Called, RunSafe, Started
  <2>3. /\ new.pc = answer /\ new.grant = g /\ new.claims = stages
        /\ new.attempted = runs[r].attempted /\ new.session = runs[r].session
        /\ new.logout = runs[r].logout
    BY <1>2 DEF RunRecords
  <2>4. runs[r].session = FALSE /\ "AUTH_VERIFY" \notin runs[r].attempted
    BY <1>2 DEF RunSafe, Sessionless, RunRecords
  <2>5. answer = pc => \A stage \in stages : Handoff!Row(r, g, stage) \in rows'
    BY <1>1
  <2>6. answer \in Started => answer = "claimed" /\ pc = "claimed"
    BY <1>1 DEF Started
  <2>7. answer \in Started \cup {"receipt"} => answer = pc
    BY <1>1 DEF Started
  <2>8. answer # "candidate"
    BY <1>1
  <2>9. runs[r].logout # "accepted"
    BY <1>2, <2>4 DEF RunSafe
  <2>10. \A stage : Handoff!Row(r, runs[r].grant, stage)' = Handoff!Row(r, runs'[r].grant, stage)
    BY DEF Handoff!Row
  <2>11. Handoff!Prepared(runs[r].grant)' <=> Handoff!Prepared(runs'[r].grant)
    BY DEF Handoff!Prepared, Handoff!StagePrepared
  <2> HIDE DEF new
  <2> QED
    BY <1>2, <2>1, <2>2, <2>3, <2>4, <2>5, <2>6, <2>7, <2>8, <2>9, <2>10, <2>11 DEF RunSafe
<1> HIDE DEF new
<1> QED
  BY <1>2, <1>3, <1>4, <1>5, <1>6, <1>7, MoverAlone

\* A claim in the shared ledger.
LEMMA CandidateKeeps ==
  ASSUME HandoffSafe, NEW r \in Runs, NEW g \in Grants, Handoff!Prepared(g), Handoff!ClaimCandidate(r, g)
  PROVE  HandoffSafe'
<1>1. PICK answer \in {"candidate", "denied", "uncertain"} :
        /\ runs' = [runs EXCEPT ![r].pc = answer, ![r].grant = g, ![r].claims = Handoff!Stages]
        /\ \/ answer # "candidate" /\ UNCHANGED shared
           \/ /\ Handoff!SharedUnclaimed(g)
              /\ shared' = shared \cup {Handoff!SharedRow(r, g, stage) : stage \in Handoff!Stages}
  BY DEF Handoff!ClaimCandidate
<1>2. /\ runs[r].pc = "ready" /\ runs[r] \in RunRecords
      /\ UNCHANGED <<rows, done, pending, sessions>>
      /\ RunSafe(r)
  BY DEF Handoff!ClaimCandidate, Handoff!At, HandoffSafe, Handoff!remote
<1> DEFINE new == [runs[r] EXCEPT !.pc = answer, !.grant = g, !.claims = Handoff!Stages]
<1>3. new \in RunRecords
  BY <1>1, <1>2 DEF RunRecords, RunPCs
<1>4. runs' = [runs EXCEPT ![r] = new]
  BY <1>1, <1>2
<1>5. rows \subseteq rows' /\ shared \subseteq shared'
  BY <1>1, <1>2
<1>6. LedgersSafe'
  <2>1. CASE shared' = shared
    BY <1>2, <2>1 DEF HandoffSafe, LedgersSafe
  <2>2. CASE /\ Handoff!SharedUnclaimed(g)
             /\ shared' = shared \cup {Handoff!SharedRow(r, g, stage) : stage \in Handoff!Stages}
    <3>1. ASSUME NEW z \in shared', z \notin shared
          PROVE  /\ z.run = r /\ z.command = g.command /\ z.stage \in Handoff!Stages
                 /\ z.approval = g.approvals[z.stage] /\ z.approval.stage = z.stage
      BY <2>2, <3>1 DEF Handoff!SharedRow, Handoff!Prepared, Handoff!StagePrepared
    <3>2. ASSUME NEW z \in shared PROVE z.command # g.command /\ z.approval # g.approvals[z.stage]
      BY <2>2 DEF Handoff!SharedUnclaimed
    <3>3. \A x \in shared' : x.approval.stage = x.stage /\ x.stage \in Handoff!Stages
      BY <3>1 DEF HandoffSafe, LedgersSafe
    <3>4. ASSUME NEW x \in shared, NEW y \in shared', y \notin shared
          PROVE  x.approval # y.approval /\ x.command # y.command
      BY <3>1, <3>2, <3>3, <3>4, <1>5
    <3>5. ASSUME NEW x \in shared', NEW y \in shared', x.approval = y.approval \/ x.command = y.command
          PROVE  x.run = y.run
      BY <3>1, <3>4, <3>5 DEF HandoffSafe, LedgersSafe
    <3> QED
      BY <1>2, <3>3, <3>5 DEF HandoffSafe, LedgersSafe
  <2> QED
    BY <1>1, <2>1, <2>2
<1>7. RunSafe(r)'
  <2>1. runs'[r] = new
    BY <1>3, <1>4 DEF HandoffSafe
  <2>2. Called(r)' = Called(r) /\ Called(r) = {}
    BY <1>2 DEF Called, RunSafe, Started
  <2>3. /\ new.pc = answer /\ new.grant = g /\ new.claims = Handoff!Stages
        /\ new.attempted = runs[r].attempted /\ new.session = runs[r].session
        /\ new.logout = runs[r].logout
    BY <1>2 DEF RunRecords
  <2>4. runs[r].session = FALSE /\ "AUTH_VERIFY" \notin runs[r].attempted
    BY <1>2 DEF RunSafe, Sessionless, RunRecords
  <2>5. answer = "candidate" => \A stage \in Handoff!Stages : Handoff!SharedRow(r, g, stage) \in shared'
    BY <1>1
  <2>6. answer \notin Started \cup {"receipt"}
    BY <1>1 DEF Started
  <2>7. runs[r].logout # "accepted"
    BY <1>2, <2>4 DEF RunSafe
  <2>8. \A stage : Handoff!SharedRow(r, runs[r].grant, stage)' = Handoff!SharedRow(r, runs'[r].grant, stage)
    BY DEF Handoff!SharedRow
  <2> HIDE DEF new
  <2> QED
    BY <1>2, <2>1, <2>2, <2>3, <2>4, <2>5, <2>6, <2>7, <2>8 DEF RunSafe
<1> HIDE DEF new
<1> QED
  BY <1>2, <1>3, <1>4, <1>5, <1>6, <1>7, MoverAlone

\* What a started run must keep to stay safe as it goes on.
LEMMA RunGoesOn ==
  ASSUME HandoffSafe, NEW r \in Runs, runs[r].pc \in Started, UNCHANGED <<rows, shared>>,
         NEW record \in RunRecords, runs' = [runs EXCEPT ![r] = record],
         record.pc \in Started, record.grant = runs[r].grant, record.claims = runs[r].claims,
         record.pc # "dead" => Called(r)' \subseteq record.attempted,
         record.pc \in Sessionless => ~record.session /\ "AUTH_VERIFY" \notin record.attempted,
         record.session => <<r, "AUTH_VERIFY">> \notin pending',
         record.logout = "accepted" => record.session /\ r \notin sessions'
  PROVE  RunSafe(r)'
<1>1. runs'[r] = record
  BY DEF HandoffSafe
<1>2. RunSafe(r)
  BY DEF HandoffSafe
<1>3. record.pc # "candidate"
  BY DEF Started
<1>4. \A stage : Handoff!Row(r, runs[r].grant, stage)' = Handoff!Row(r, runs'[r].grant, stage)
  BY DEF Handoff!Row
<1>5. Handoff!Prepared(runs[r].grant)' <=> Handoff!Prepared(runs'[r].grant)
  BY DEF Handoff!Prepared, Handoff!StagePrepared
<1> QED
  BY <1>1, <1>2, <1>3, <1>4, <1>5 DEF RunSafe

\* What is known of a started run.
LEMMA StartedRun ==
  ASSUME HandoffSafe, NEW r \in Runs, runs[r].pc \in Started
  PROVE  /\ runs[r] \in RunRecords
         /\ runs[r].pc # "dead" => Called(r) \subseteq runs[r].attempted
         /\ runs[r].pc \in Sessionless =>
              ~runs[r].session /\ "AUTH_VERIFY" \notin runs[r].attempted
         /\ runs[r].session => <<r, "AUTH_VERIFY">> \notin pending
         /\ runs[r].logout = "accepted" => runs[r].session /\ r \notin sessions
         /\ runs[r].pc \in Sessionless => runs[r].logout # "accepted"
BY DEF HandoffSafe, RunSafe

\* A run that goes on without a call.
LEMMA MoveKeeps ==
  ASSUME HandoffSafe, NEW r \in Runs, NEW pc \in Started \ {"dead", "claimed", "generated"},
         runs[r].pc \in Started \ {"dead"},
         Handoff!Moves(r, pc), UNCHANGED <<rows, shared, done, pending, sessions>>
  PROVE  HandoffSafe'
<1> DEFINE new == [runs[r] EXCEPT !.pc = pc]
<1>1. runs[r] \in RunRecords
  BY StartedRun
<1>2. new \in RunRecords
  BY <1>1 DEF RunRecords, RunPCs, Started
<1>3. runs' = [runs EXCEPT ![r] = new]
  BY DEF Handoff!Moves
<1>4. /\ new.pc = pc /\ new.grant = runs[r].grant /\ new.claims = runs[r].claims
      /\ new.attempted = runs[r].attempted /\ new.session = runs[r].session
      /\ new.logout = runs[r].logout
  BY <1>1 DEF RunRecords
<1> HIDE DEF new
<1>5. Called(r)' = Called(r)
  BY DEF Called
<1>6. new.pc \notin Sessionless
  BY <1>4 DEF Sessionless, Started
<1>7. RunSafe(r)'
  BY <1>2, <1>3, <1>4, <1>5, <1>6, StartedRun, RunGoesOn
<1>8. LedgersSafe'
  BY DEF HandoffSafe, LedgersSafe
<1> QED
  BY <1>2, <1>3, <1>7, <1>8, MoverAlone

\* A run that makes a call other than the verification, notes it and goes on.
LEMMA NotedCallKeeps ==
  ASSUME HandoffSafe, NEW r \in Runs, NEW stage \in Handoff!Stages \ {"AUTH_VERIFY"},
         Handoff!Unanswered(r, stage), UNCHANGED <<rows, shared>>,
         NEW new \in RunRecords, runs' = [runs EXCEPT ![r] = new],
         runs[r].pc \in Started \ {"dead"}, new.pc \in Started \ {"dead"},
         new.pc \in Sessionless => runs[r].pc \in Sessionless,
         new.grant = runs[r].grant, new.claims = runs[r].claims,
         new.attempted = runs[r].attempted \cup {stage}, new.session = runs[r].session,
         new.logout = "accepted" => new.session /\ r \notin sessions'
  PROVE  HandoffSafe'
<1>1. done \subseteq Runs \X Handoff!Stages /\ pending \subseteq Runs \X Handoff!Stages
  BY DEF HandoffSafe
<1>2. /\ Called(r)' \subseteq Called(r) \cup {stage}
      /\ <<r, "AUTH_VERIFY">> \in pending' => <<r, "AUTH_VERIFY">> \in pending
  BY <1>1, CallChanges
<1>3. RunSafe(r)'
  BY <1>2, StartedRun, RunGoesOn
<1> QED
  BY <1>3, CallerAlone

LEMMA GenerateKeeps ==
  ASSUME HandoffSafe, NEW r \in Runs, Handoff!Generate(r) PROVE HandoffSafe'
<1>1. /\ runs[r].pc = "claimed" /\ UNCHANGED <<rows, shared>>
      /\ Handoff!Unanswered(r, "AUTH_GENERATE")
  BY AnsweredCall DEF Handoff!Generate, Handoff!At, Handoff!ledgers
<1>2. runs[r].pc \in Started \ {"dead"} /\ runs[r].pc \in Sessionless
  BY <1>1 DEF Started, Sessionless
<1>3. /\ runs[r] \in RunRecords /\ runs[r].logout # "accepted"
  BY <1>2, StartedRun
<1>4. PICK pc \in {"generated", "cleanup"} :
        runs' = [runs EXCEPT ![r] = Handoff!Noted(r, "AUTH_GENERATE", pc)]
  BY DEF Handoff!Generate
<1> DEFINE new == Handoff!Noted(r, "AUTH_GENERATE", pc)
<1>5. new \in RunRecords
  BY <1>3 DEF Handoff!Noted, RunRecords, RunPCs, Handoff!Stages
<1>6. /\ new.pc = pc /\ new.grant = runs[r].grant /\ new.claims = runs[r].claims
      /\ new.attempted = runs[r].attempted \cup {"AUTH_GENERATE"}
      /\ new.session = runs[r].session /\ new.logout = runs[r].logout
  BY <1>3 DEF Handoff!Noted, RunRecords
<1>7. pc \in Started \ {"dead"} /\ "AUTH_GENERATE" \in Handoff!Stages \ {"AUTH_VERIFY"}
  BY DEF Started, Handoff!Stages
<1>8. runs' = [runs EXCEPT ![r] = new]
  BY <1>4
<1> HIDE DEF new
<1> QED
  BY <1>1, <1>2, <1>3, <1>5, <1>6, <1>7, <1>8, NotedCallKeeps

LEMMA SendKeeps ==
  ASSUME HandoffSafe, NEW r \in Runs, Handoff!Send(r) PROVE HandoffSafe'
<1>1. /\ runs[r].pc = "validated" /\ UNCHANGED <<rows, shared>>
      /\ Handoff!Unanswered(r, "DATA_COMMAND")
      /\ runs' = [runs EXCEPT ![r].pc = "cleanup", ![r].attempted = @ \cup {"DATA_COMMAND"}]
  BY DEF Handoff!Send, Handoff!At, Handoff!ledgers
<1>2. runs[r].pc \in Started \ {"dead"}
  BY <1>1 DEF Started
<1>3. /\ runs[r] \in RunRecords
      /\ runs[r].logout = "accepted" => runs[r].session /\ r \notin sessions
  BY <1>2, StartedRun
<1> DEFINE new == [runs[r] EXCEPT !.pc = "cleanup", !.attempted = @ \cup {"DATA_COMMAND"}]
<1>5. new \in RunRecords
  BY <1>3 DEF RunRecords, RunPCs, Handoff!Stages
<1>6. /\ new.pc = "cleanup" /\ new.grant = runs[r].grant /\ new.claims = runs[r].claims
      /\ new.attempted = runs[r].attempted \cup {"DATA_COMMAND"}
      /\ new.session = runs[r].session /\ new.logout = runs[r].logout
  BY <1>3 DEF RunRecords
<1>7. /\ "cleanup" \in Started \ {"dead"} /\ "cleanup" \notin Sessionless
      /\ "DATA_COMMAND" \in Handoff!Stages \ {"AUTH_VERIFY"}
  BY DEF Started, Sessionless, Handoff!Stages
<1>8. runs' = [runs EXCEPT ![r] = new]
  BY <1>1, <1>3 DEF HandoffSafe, RunRecords
<1>9. r \in sessions' => r \in sessions
  BY <1>1, <1>7, CallChanges DEF HandoffSafe
<1> HIDE DEF new
<1>10. /\ new.logout = "accepted" => new.session /\ r \notin sessions'
       /\ new.pc \in Started \ {"dead"} /\ new.pc \notin Sessionless
  BY <1>3, <1>6, <1>7, <1>9
<1>11. "DATA_COMMAND" \in Handoff!Stages \ {"AUTH_VERIFY"}
  BY <1>7
<1>12. /\ Handoff!Unanswered(r, "DATA_COMMAND") /\ UNCHANGED <<rows, shared>>
       /\ new \in RunRecords /\ runs' = [runs EXCEPT ![r] = new]
       /\ runs[r].pc \in Started \ {"dead"} /\ new.pc \in Started \ {"dead"}
       /\ new.pc \in Sessionless => runs[r].pc \in Sessionless
       /\ new.grant = runs[r].grant /\ new.claims = runs[r].claims
       /\ new.attempted = runs[r].attempted \cup {"DATA_COMMAND"}
       /\ new.session = runs[r].session
       /\ new.logout = "accepted" => new.session /\ r \notin sessions'
  BY <1>1, <1>2, <1>5, <1>6, <1>8, <1>10
<1> QED
  BY <1>11, <1>12, NotedCallKeeps

LEMMA VerifyKeeps ==
  ASSUME HandoffSafe, NEW r \in Runs, Handoff!Verify(r) PROVE HandoffSafe'
<1>1. /\ runs[r].pc = "generated" /\ UNCHANGED <<rows, shared>>
      /\ Handoff!Unanswered(r, "AUTH_VERIFY")
  BY AnsweredCall DEF Handoff!Verify, Handoff!At, Handoff!ledgers
<1>2. runs[r].pc \in Started \ {"dead"} /\ runs[r].pc \in Sessionless
  BY <1>1 DEF Started, Sessionless
<1>3. /\ runs[r] \in RunRecords /\ runs[r].logout # "accepted"
      /\ ~runs[r].session /\ "AUTH_VERIFY" \notin runs[r].attempted
      /\ Called(r) \subseteq runs[r].attempted
  BY <1>2, StartedRun
<1>4. <<r, "AUTH_VERIFY">> \notin pending /\ "AUTH_VERIFY" \in Handoff!Stages
  BY <1>3 DEF Called, Handoff!Stages
<1>5. Called(r)' \subseteq Called(r) \cup {"AUTH_VERIFY"}
  BY <1>1, <1>4, CallChanges DEF HandoffSafe
<1>6. ASSUME NEW new \in RunRecords, runs' = [runs EXCEPT ![r] = new],
             new.pc \in {"verified", "cleanup"},
             new.grant = runs[r].grant, new.claims = runs[r].claims,
             new.attempted = runs[r].attempted \cup {"AUTH_VERIFY"},
             new.session => pending' = pending, new.logout = runs[r].logout
      PROVE  HandoffSafe'
  <2>1. new.pc \in Started \ {"dead"} /\ new.pc \notin Sessionless
    BY <1>6 DEF Started, Sessionless
  <2>2. RunSafe(r)'
    BY <1>1, <1>2, <1>3, <1>4, <1>5, <1>6, <2>1, RunGoesOn
  <2> QED
    BY <1>1, <1>4, <1>6, <2>2, CallerAlone
<1>7. CASE /\ Handoff!Answered(r, "AUTH_VERIFY")
           /\ runs' = [runs EXCEPT ![r] = [Handoff!Noted(r, "AUTH_VERIFY", "verified") EXCEPT !.session = TRUE]]
  <2> DEFINE new == [Handoff!Noted(r, "AUTH_VERIFY", "verified") EXCEPT !.session = TRUE]
  <2>1. new \in RunRecords
    BY <1>3 DEF Handoff!Noted, RunRecords, RunPCs, Handoff!Stages
  <2>2. /\ new.pc = "verified" /\ new.grant = runs[r].grant /\ new.claims = runs[r].claims
        /\ new.attempted = runs[r].attempted \cup {"AUTH_VERIFY"} /\ new.logout = runs[r].logout
    BY <1>3 DEF Handoff!Noted, RunRecords
  <2>3. pending' = pending /\ runs' = [runs EXCEPT ![r] = new]
    BY <1>7, AnsweredCall
  <2> HIDE DEF new
  <2> QED
    BY <1>6, <2>1, <2>2, <2>3
<1>8. CASE runs' = [runs EXCEPT ![r] = Handoff!Noted(r, "AUTH_VERIFY", "cleanup")]
  <2> DEFINE new == Handoff!Noted(r, "AUTH_VERIFY", "cleanup")
  <2>1. new \in RunRecords
    BY <1>3 DEF Handoff!Noted, RunRecords, RunPCs, Handoff!Stages
  <2>2. /\ new.pc = "cleanup" /\ new.grant = runs[r].grant /\ new.claims = runs[r].claims
        /\ new.attempted = runs[r].attempted \cup {"AUTH_VERIFY"} /\ new.logout = runs[r].logout
        /\ new.session = runs[r].session
    BY <1>3 DEF Handoff!Noted, RunRecords
  <2>3. runs' = [runs EXCEPT ![r] = new]
    BY <1>8
  <2> HIDE DEF new
  <2> QED
    BY <1>3, <1>6, <2>1, <2>2, <2>3
<1> QED
  BY <1>7, <1>8 DEF Handoff!Verify

LEMMA CleanupKeeps ==
  ASSUME HandoffSafe, NEW r \in Runs, Handoff!Cleanup(r) PROVE HandoffSafe'
<1>1. runs[r].pc = "cleanup" /\ UNCHANGED <<rows, shared>>
  BY DEF Handoff!Cleanup, Handoff!At, Handoff!ledgers
<1>2. runs[r].pc \in Started \ {"dead"}
  BY <1>1 DEF Started
<1>3. runs[r] \in RunRecords
  BY <1>2, StartedRun
<1>4. /\ "reported" \in Started \ {"dead", "claimed", "generated"}
      /\ "reported" \notin Sessionless
      /\ "AUTH_GLOBAL_LOGOUT" \in Handoff!Stages \ {"AUTH_VERIFY"}
  BY DEF Started, Sessionless, Handoff!Stages
<1>5. CASE Handoff!Moves(r, "reported") /\ UNCHANGED Handoff!remote
  BY <1>1, <1>2, <1>4, <1>5, MoveKeeps DEF Handoff!remote
<1>6. ASSUME runs[r].session, NEW answer \in {"accepted", "unverified"},
             runs' = [runs EXCEPT ![r] = [Handoff!Noted(r, "AUTH_GLOBAL_LOGOUT", "reported")
                                          EXCEPT !.logout = answer]],
             IF answer = "accepted" THEN Handoff!Answered(r, "AUTH_GLOBAL_LOGOUT")
                                    ELSE Handoff!Unanswered(r, "AUTH_GLOBAL_LOGOUT")
      PROVE  HandoffSafe'
  <2> DEFINE new == [Handoff!Noted(r, "AUTH_GLOBAL_LOGOUT", "reported") EXCEPT !.logout = answer]
  <2>1. new \in RunRecords
    BY <1>3 DEF Handoff!Noted, RunRecords, RunPCs, Handoff!Stages
  <2>2. /\ new.pc = "reported" /\ new.grant = runs[r].grant /\ new.claims = runs[r].claims
        /\ new.attempted = runs[r].attempted \cup {"AUTH_GLOBAL_LOGOUT"}
        /\ new.session = runs[r].session /\ new.logout = answer
    BY <1>3 DEF Handoff!Noted, RunRecords
  <2>3. runs' = [runs EXCEPT ![r] = new]
    BY <1>6
  <2>4. Handoff!Unanswered(r, "AUTH_GLOBAL_LOGOUT")
    BY <1>6, AnsweredCall
  <2>5. answer = "accepted" => r \notin sessions'
    BY <1>6 DEF Handoff!Answered, Handoff!CarriedOut
  <2> HIDE DEF new
  <2>6. new.pc \in Started \ {"dead"} /\ new.pc \notin Sessionless
    BY <1>4, <2>2
  <2>7. new.logout = "accepted" => new.session /\ r \notin sessions'
    BY <1>6, <2>2, <2>5
  <2>8. "AUTH_GLOBAL_LOGOUT" \in Handoff!Stages \ {"AUTH_VERIFY"}
    BY <1>4
  <2> QED
    BY <1>1, <1>2, <2>1, <2>2, <2>3, <2>4, <2>6, <2>7, <2>8, NotedCallKeeps
<1> QED
  BY <1>5, <1>6 DEF Handoff!Cleanup

\* A run dies, perhaps in the middle of its call.
LEMMA DieKeeps ==
  ASSUME HandoffSafe, NEW r \in Runs, Handoff!Die(r) PROVE HandoffSafe'
<1>1. /\ runs[r].pc \in {"claimed", "generated", "verified", "validated", "cleanup"}
      /\ runs' = [runs EXCEPT ![r].pc = "dead"]
      /\ UNCHANGED <<rows, shared, done, sessions>>
  BY DEF Handoff!Die, Handoff!Moves, Handoff!ledgers
<1>2. PICK raised \in SUBSET Handoff!NextCall(r) : pending' = pending \cup {<<r, stage>> : stage \in raised}
  BY DEF Handoff!Die
<1>3. /\ runs[r].pc \in Started \ {"dead"}
      /\ "dead" \in Started /\ "dead" \notin Sessionless
  BY <1>1 DEF Started, Sessionless
<1>4. /\ runs[r] \in RunRecords
      /\ runs[r].session => <<r, "AUTH_VERIFY">> \notin pending
      /\ runs[r].pc = "generated" => ~runs[r].session
      /\ runs[r].logout = "accepted" => runs[r].session /\ r \notin sessions
  BY <1>3, StartedRun DEF Sessionless
<1>5. /\ Handoff!NextCall(r) \subseteq Handoff!Stages
      /\ "AUTH_VERIFY" \in Handoff!NextCall(r) => runs[r].pc = "generated"
  BY <1>1 DEF Handoff!NextCall, Handoff!At, Handoff!Stages
<1> DEFINE new == [runs[r] EXCEPT !.pc = "dead"]
<1>6. new \in RunRecords
  BY <1>4 DEF RunRecords, RunPCs
<1>7. /\ new.pc = "dead" /\ new.grant = runs[r].grant /\ new.claims = runs[r].claims
      /\ new.session = runs[r].session /\ new.logout = runs[r].logout
  BY <1>4 DEF RunRecords
<1>8. runs' = [runs EXCEPT ![r] = new]
  BY <1>1
<1> HIDE DEF new
<1>9. new.session => <<r, "AUTH_VERIFY">> \notin pending'
  BY <1>2, <1>4, <1>5, <1>7
<1>10. RunSafe(r)'
  BY <1>1, <1>3, <1>4, <1>6, <1>7, <1>8, <1>9, RunGoesOn
<1>11. /\ runs' \in [Runs -> RunRecords]
       /\ \A q \in Runs \ {r} : runs'[q] = runs[q]
  BY <1>6, <1>8 DEF HandoffSafe
<1>12. ASSUME NEW q \in Runs \ {r} PROVE RunSafe(q)'
  <2>1. Called(q)' \subseteq Called(q) /\ (<<q, "AUTH_VERIFY">> \in pending' => <<q, "AUTH_VERIFY">> \in pending)
    BY <1>1, <1>2 DEF Called
  <2> QED
    BY <1>1, <1>11, <2>1, OthersStaySafe DEF HandoffSafe
<1>13. pending' \subseteq Runs \X Handoff!Stages
  BY <1>2, <1>5 DEF HandoffSafe
<1>14. LedgersSafe'
  BY <1>1 DEF HandoffSafe, LedgersSafe
<1> QED
  BY <1>1, <1>10, <1>11, <1>12, <1>13, <1>14 DEF HandoffSafe

\* A call that raised is carried out after all.
LEMMA LateKeeps == HandoffSafe /\ Handoff!Late => HandoffSafe'
<1> SUFFICES ASSUME HandoffSafe, Handoff!Late PROVE HandoffSafe'
  OBVIOUS
<1>1. PICK reply \in pending : pending' = pending \ {reply} /\ Handoff!CarriedOut(reply[1], reply[2])
  BY DEF Handoff!Late
<1>2. UNCHANGED <<rows, shared, runs>>
  BY DEF Handoff!Late, Handoff!ledgers
<1>3. reply \in Runs \X Handoff!Stages
  BY DEF HandoffSafe
<1>4. PICK r \in Runs, stage \in Handoff!Stages : reply = <<r, stage>>
  BY <1>3
<1>5. /\ done' = done \cup {<<r, stage>>} /\ pending' = pending \ {<<r, stage>>}
      /\ <<r, stage>> \in pending
      /\ sessions' \subseteq sessions \cup {r}
      /\ stage # "AUTH_VERIFY" => sessions' \subseteq sessions
  BY <1>1, <1>4 DEF Handoff!CarriedOut
<1>6. \A q \in Runs : Called(q)' = Called(q)
  BY <1>5 DEF Called
<1>7. ASSUME NEW q \in Runs PROVE RunSafe(q)'
  <2>1. RunSafe(q)
    BY DEF HandoffSafe
  <2>2. q \in sessions' => q \in sessions \/ (q = r /\ stage = "AUTH_VERIFY")
    BY <1>5
  <2>3. CASE q \in sessions' => q \in sessions
    BY <1>2, <1>5, <1>6, <2>1, <2>3, OthersStaySafe
  <2>4. CASE q = r /\ stage = "AUTH_VERIFY"
    <3>1. ~runs[r].session
      BY <1>5, <2>1, <2>4 DEF RunSafe
    <3>2. runs[r].logout # "accepted"
      BY <2>1, <2>4, <3>1 DEF RunSafe
    <3> QED
      BY <1>2, <1>5, <1>6, <2>1, <2>4, <3>1, <3>2 DEF RunSafe, Handoff!Row, Handoff!SharedRow, Handoff!Prepared, Handoff!StagePrepared
  <2> QED
    BY <2>2, <2>3, <2>4
<1> QED
  BY <1>2, <1>5, <1>7 DEF HandoffSafe, LedgersSafe

\* Every step keeps the invariant.
LEMMA HandoffStepKeeps == HandoffSafe /\ [Handoff!Next]_(Handoff!vars) => HandoffSafe'
<1> SUFFICES ASSUME HandoffSafe, [Handoff!Next]_(Handoff!vars) PROVE HandoffSafe'
  OBVIOUS
<1>1. ASSUME NEW r \in Runs, Handoff!Unstarted(r) PROVE HandoffSafe'
  BY <1>1, MoveKeeps DEF Handoff!Unstarted, Handoff!At, Started, Handoff!ledgers, Handoff!remote
<1>2. ASSUME NEW r \in Runs, Handoff!Stops(r) PROVE HandoffSafe'
  BY <1>2, MoveKeeps DEF Handoff!Stops, Started, Handoff!ledgers, Handoff!remote
<1>3. ASSUME NEW r \in Runs, Handoff!Validate(r) PROVE HandoffSafe'
  BY <1>3, MoveKeeps DEF Handoff!Validate, Handoff!At, Started, Handoff!ledgers, Handoff!remote
<1>4. ASSUME NEW r \in Runs, NEW g \in Grants, Handoff!Prepared(g), Handoff!Claim(r, g, Handoff!Stages, "claimed")
      PROVE  HandoffSafe'
  BY <1>4, ClaimKeeps
<1>5. ASSUME NEW r \in Runs, NEW g \in Grants, NEW stage \in Handoff!Stages,
             Handoff!Claim(r, g, {stage}, "receipt")
      PROVE  HandoffSafe'
  <2>1. {stage} \in SUBSET Handoff!Stages
    OBVIOUS
  <2> QED
    BY <1>5, <2>1, ClaimKeeps
<1>6. ASSUME NEW r \in Runs, NEW g \in Grants, Handoff!Prepared(g), Handoff!ClaimCandidate(r, g)
      PROVE  HandoffSafe'
  BY <1>6, CandidateKeeps
<1>7. CASE UNCHANGED Handoff!vars
  <2>1. UNCHANGED <<rows, shared, runs, done, pending, sessions>>
    BY <1>7 DEF Handoff!vars, Handoff!ledgers, Handoff!remote
  <2>2. \A r \in Runs : Called(r)' = Called(r)
    BY <2>1 DEF Called
  <2>3. \A r \in Runs : RunSafe(r)'
    BY <2>1, <2>2, OthersStaySafe DEF HandoffSafe
  <2> QED
    BY <2>1, <2>3 DEF HandoffSafe, LedgersSafe
<1> QED
  BY <1>1, <1>2, <1>3, <1>4, <1>5, <1>6, <1>7, GenerateKeeps, VerifyKeeps, SendKeeps,
     CleanupKeeps, DieKeeps, LateKeeps DEF Handoff!Next

THEOREM HandoffInvariant == Handoff!Spec => []HandoffSafe
BY HandoffInit, HandoffStepKeeps, PTL DEF Handoff!Spec

\* No two runs rely on one approval, also when sets overlap, claims of one stage
\* and of four compete, or a commit's outcome is unknown.
THEOREM ApprovalsConsumedOnce == Handoff!Spec => []ConsumedOnce
<1>1. HandoffSafe => ConsumedOnce
  <2> SUFFICES ASSUME HandoffSafe, NEW r \in Runs, NEW q \in Runs, r # q,
                      Handoff!Relies(r), Handoff!Relies(q), Handoff!OnShared(r) <=> Handoff!OnShared(q)
               PROVE  /\ Handoff!ReliedOn(r) \cap Handoff!ReliedOn(q) = {}
                      /\ Handoff!OnShared(r) => runs[r].grant.command # runs[q].grant.command
    BY DEF ConsumedOnce, Handoff!ConsumedOnce
  <2>1. /\ RunSafe(r) /\ RunSafe(q) /\ LedgersSafe
        /\ runs[r] \in RunRecords /\ runs[q] \in RunRecords
    BY DEF HandoffSafe
  <2>2. CASE runs[r].pc = "candidate" /\ runs[q].pc = "candidate"
    <3>1. \A stage \in Handoff!Stages : /\ Handoff!SharedRow(r, runs[r].grant, stage) \in shared
                                 /\ Handoff!SharedRow(q, runs[q].grant, stage) \in shared
      BY <2>1, <2>2 DEF RunSafe
    <3>2. ASSUME NEW s \in Handoff!Stages, NEW t \in Handoff!Stages
          PROVE  /\ runs[r].grant.approvals[s] # runs[q].grant.approvals[t]
                 /\ runs[r].grant.command # runs[q].grant.command
      BY <2>1, <3>1 DEF LedgersSafe, Handoff!SharedRow
    <3>3. runs[r].claims = Handoff!Stages /\ runs[q].claims = Handoff!Stages /\ "AUTH_VERIFY" \in Handoff!Stages
      BY <2>1, <2>2 DEF RunSafe, Handoff!Stages
    <3> QED
      BY <3>2, <3>3 DEF Handoff!ReliedOn
  <2>3. CASE runs[r].pc # "candidate" /\ runs[q].pc # "candidate"
    <3>1. runs[r].pc \in Started \cup {"receipt"} /\ runs[q].pc \in Started \cup {"receipt"}
      BY <2>1, <2>3 DEF Handoff!Relies, RunRecords, RunPCs, Started
    <3>2. /\ \A stage \in runs[r].claims : Handoff!Row(r, runs[r].grant, stage) \in rows
          /\ \A stage \in runs[q].claims : Handoff!Row(q, runs[q].grant, stage) \in rows
      BY <2>1, <3>1 DEF RunSafe
    <3>3. ASSUME NEW s \in runs[r].claims, NEW t \in runs[q].claims
          PROVE  runs[r].grant.approvals[s] # runs[q].grant.approvals[t]
      BY <2>1, <3>2 DEF LedgersSafe, Handoff!Row
    <3> QED
      BY <2>3, <3>3 DEF Handoff!ReliedOn, Handoff!OnShared, Handoff!At
  <2> QED
    BY <2>2, <2>3 DEF Handoff!OnShared, Handoff!At
<1> QED
  BY <1>1, HandoffInvariant, PTL

\* What a run left behind is claimed for and, unless the run died, reported; and
\* after an accepted logout its session is gone, late calls included.
THEOREM LeftBehindIsAccounted == Handoff!Spec => []NothingUnaccounted
<1>1. HandoffSafe => NothingUnaccounted
  <2> SUFFICES ASSUME HandoffSafe, NEW r \in Runs
               PROVE  LET touched == {stage \in Handoff!Stages : <<r, stage>> \in done}
                      IN  /\ touched # {} => \A stage \in Handoff!Stages :
                               \E row \in rows : /\ row.run = r
                                                 /\ row.approval = runs[r].grant.approvals[stage]
                                                 /\ row.approval.command = runs[r].grant.command
                          /\ Handoff!At(r, "reported") => touched \subseteq runs[r].attempted
                          /\ runs[r].logout = "accepted" => r \notin sessions
    BY DEF NothingUnaccounted, Handoff!NothingUnaccounted
  <2> DEFINE touched == {stage \in Handoff!Stages : <<r, stage>> \in done}
  <2>1. RunSafe(r) /\ touched \subseteq Called(r)
    BY DEF HandoffSafe, Called
  <2>2. ASSUME touched # {}, NEW stage \in Handoff!Stages
        PROVE  \E row \in rows : /\ row.run = r
                                 /\ row.approval = runs[r].grant.approvals[stage]
                                 /\ row.approval.command = runs[r].grant.command
    <3>1. runs[r].pc \in Started
      BY <2>1, <2>2 DEF RunSafe
    <3>2. runs[r].claims = Handoff!Stages /\ Handoff!Prepared(runs[r].grant)
      BY <2>1, <3>1 DEF RunSafe
    <3>3. Handoff!Row(r, runs[r].grant, stage) \in rows
      BY <2>1, <3>1, <3>2 DEF RunSafe
    <3>4. runs[r].grant.approvals[stage].command = runs[r].grant.command
      BY <3>2 DEF Handoff!Prepared, Handoff!StagePrepared
    <3> QED
      BY <3>3, <3>4 DEF Handoff!Row
  <2>3. Handoff!At(r, "reported") => touched \subseteq runs[r].attempted
    BY <2>1 DEF RunSafe, Handoff!At
  <2>4. runs[r].logout = "accepted" => r \notin sessions
    BY <2>1 DEF RunSafe
  <2> QED
    BY <2>2, <2>3, <2>4
<1> QED
  BY <1>1, HandoffInvariant, PTL

-----------------------------------------------------------------------------
(* The token lifecycle.                                                    *)

TokenPCs == {"generate", "verify", "count", "logout", "recount", "reconcile", "retry",
             "reread", "clean", "final", "validate", "end"}

FlowRecords == [pc : TokenPCs, held : BOOLEAN, tried : BOOLEAN]

\* A session that was received has begun and cannot begin again; only who
\* received one ever counts a logout; and what is reported of it stays true.
TokenSafe ==
  /\ own \in {"none", "alive", "ended"}
  /\ others \in Nat
  /\ late \subseteq {"verify", "logout"}
  /\ flow \in FlowRecords
  /\ flow.pc \in {"generate", "verify"} => ~flow.held /\ late = {}
  /\ flow.held => own # "none" /\ "verify" \notin late
  /\ ~flow.held => ~flow.tried /\ flow.pc \in {"generate", "verify", "reconcile", "end"}
  /\ flow.pc = "validate" => own = "ended"
  /\ report = "SESSION_CLEANUP_VERIFIED" => flow.held /\ own = "ended"
  /\ flow.pc = "end" /\ flow.held =>
       own = "ended" \/ report \in {"SESSION_PRESENT", "SESSION_STATE_UNVERIFIED"}

LEMMA TokenInit == Token!Init => TokenSafe
BY ToolsAssumption DEF Token!Init, TokenSafe, FlowRecords, TokenPCs

\* A count that came back says zero only if the session is not alive.
LEMMA CountsZero ==
  ASSUME TokenSafe, 0 \in Token!Counts PROVE own # "alive"
BY ToolsAssumption DEF TokenSafe, Token!Counts

\* Judging a count keeps the invariant.
LEMMA JudgeKeeps ==
  ASSUME TokenSafe, NEW count \in Token!Counts, count # Unread, Token!Judge(count),
         flow.pc \in {"count", "reconcile", "reread"}, UNCHANGED <<own, others, late>>
  PROVE  TokenSafe'
<1>1. count = 0 => own # "alive"
  BY CountsZero
<1>2. CASE count = 0
  BY <1>1, <1>2 DEF Token!Judge, Token!Ends, Token!Classify, TokenSafe, FlowRecords, TokenPCs
<1>3. CASE count # 0 /\ ~flow.held
  BY <1>3 DEF Token!Judge, Token!Ends, TokenSafe, FlowRecords, TokenPCs
<1>4. CASE count # 0 /\ flow.held
  BY <1>4 DEF Token!Judge, Token!Goes, TokenSafe, FlowRecords, TokenPCs
<1> QED
  BY <1>2, <1>3, <1>4

\* Every step keeps the invariant.
LEMMA TokenStepKeeps == TokenSafe /\ [Token!Next]_(Token!vars) => TokenSafe'
<1> SUFFICES ASSUME TokenSafe, [Token!Next]_(Token!vars) PROVE TokenSafe'
  OBVIOUS
<1> USE DEF FlowRecords, TokenPCs, Token!At
<1>1. CASE Token!Generate
  BY <1>1 DEF Token!Generate, Token!CredentialIssued, Token!Goes, Token!Ends, TokenSafe
<1>2. CASE Token!Verify
  <2>1. PICK arrived \in BOOLEAN :
          /\ Token!RequestVerification(arrived)
          /\ flow' = [flow EXCEPT !.pc = IF arrived THEN "count" ELSE "reconcile",
                                  !.held = arrived]
    BY <1>2 DEF Token!Verify
  <2>2. UNCHANGED <<others, report>> /\ flow.pc = "verify"
    BY <1>2 DEF Token!Verify
  <2>3. late = {} /\ ~flow.held /\ ~flow.tried /\ flow \in FlowRecords
    BY <2>2 DEF TokenSafe
  <2>4. CASE arrived = TRUE
    <3>1. own' = "alive" /\ late' = {}
      BY <2>1, <2>3, <2>4 DEF Token!RequestVerification, Token!SessionReceived, Token!CarriedOut
    <3>2. flow' = [pc |-> "count", held |-> TRUE, tried |-> FALSE]
      BY <2>1, <2>3, <2>4
    <3> QED
      BY <2>2, <3>1, <3>2 DEF TokenSafe
  <2>5. CASE arrived = FALSE
    <3>1. own' \in {"none", "alive", "ended"} /\ late' \subseteq {"verify"}
      BY <2>1, <2>3, <2>5 DEF Token!RequestVerification, Token!Unanswered, Token!CarriedOut, TokenSafe
    <3>2. flow' = [pc |-> "reconcile", held |-> FALSE, tried |-> FALSE]
      BY <2>1, <2>3, <2>5
    <3> QED
      BY <2>2, <3>1, <3>2 DEF TokenSafe
  <2> QED
    BY <2>4, <2>5
<1>3. CASE Token!Logout
  BY <1>3 DEF Token!Logout, Token!LoggedOut, Token!Unanswered, Token!CarriedOut, TokenSafe
<1>4. CASE Token!Validate
  BY <1>4 DEF Token!Validate, Token!Ends, TokenSafe
<1>5. CASE Token!Count
  <2>1. UNCHANGED <<own, others, late>>
    BY <1>5 DEF Token!Count
  <2>2. PICK count \in Token!Counts :
          \/ /\ flow.pc = "count"
             /\ CASE count = Unread -> Token!Goes("reconcile")
                  [] count = 1      -> Token!Goes("logout")
                  [] OTHER          -> Token!Judge(count)
          \/ /\ flow.pc = "recount"
             /\ CASE count = Unread -> Token!Ends("SESSION_STATE_UNVERIFIED")
                  [] count = 0      -> Token!Goes("validate")
                  [] OTHER          -> Token!Ends("SESSION_PRESENT")
          \/ /\ flow.pc = "reconcile"
             /\ IF count # Unread THEN Token!Judge(count)
                ELSE IF flow.held /\ ~flow.tried THEN Token!Goes("retry")
                ELSE Token!Ends("SESSION_STATE_UNVERIFIED")
          \/ /\ flow.pc = "reread"
             /\ IF count = Unread THEN Token!Ends("SESSION_STATE_UNVERIFIED") ELSE Token!Judge(count)
          \/ /\ flow.pc = "final"
             /\ CASE count = Unread -> Token!Ends("SESSION_STATE_UNVERIFIED")
                  [] count = 0      -> Token!Ends("SESSION_CLEANUP_VERIFIED")
                  [] OTHER          -> Token!Ends("SESSION_PRESENT")
    BY <1>5 DEF Token!Count
  <2>3. count = 0 => own # "alive"
    BY CountsZero
  <2>4. Unread \notin Nat
    BY ToolsAssumption
  <2>5. CASE flow.pc = "count" \/ flow.pc = "reread"
    <3>1. CASE count = Unread
      BY <2>1, <2>2, <2>4, <2>5, <3>1 DEF Token!Goes, Token!Ends, TokenSafe
    <3>2. CASE count = 1 /\ flow.pc = "count"
      BY <2>1, <2>2, <2>4, <2>5, <3>2 DEF Token!Goes, TokenSafe
    <3>3. CASE count # Unread /\ ~(count = 1 /\ flow.pc = "count")
      <4>1. Token!Judge(count)
        BY <2>2, <2>5, <3>3
      <4> QED
        BY <2>1, <2>5, <3>3, <4>1, JudgeKeeps
    <3> QED
      BY <3>1, <3>2, <3>3
  <2>6. CASE flow.pc = "recount" \/ flow.pc = "final"
    <3>1. CASE flow.pc = "recount"
      BY <2>1, <2>2, <2>3, <2>4, <3>1 DEF Token!Goes, Token!Ends, TokenSafe
    <3>2. CASE flow.pc = "final"
      BY <2>1, <2>2, <2>3, <2>4, <3>2 DEF Token!Goes, Token!Ends, TokenSafe
    <3> QED
      BY <2>6, <3>1, <3>2
  <2>7. CASE flow.pc = "reconcile"
    <3>1. CASE count = Unread
      BY <2>1, <2>2, <2>7, <3>1 DEF Token!Goes, Token!Ends, TokenSafe
    <3>2. CASE count # Unread
      <4>1. Token!Judge(count)
        BY <2>2, <2>7, <3>2
      <4> QED
        BY <2>1, <2>7, <3>2, <4>1, JudgeKeeps
    <3> QED
      BY <3>1, <3>2
  <2> QED
    BY <2>2, <2>5, <2>6, <2>7
<1>6. CASE Token!ReconcilingLogout
  <2>1. PICK step \in {<<"retry", "reread">>, <<"clean", "final">>} :
          /\ flow.pc = step[1]
          /\ \/ Token!LoggedOut /\ flow' = [flow EXCEPT !.pc = step[2], !.tried = TRUE]
             \/ Token!Unanswered("logout") /\ flow' = [flow EXCEPT !.pc = step[2]]
    BY <1>6 DEF Token!ReconcilingLogout
  <2>2. flow.held /\ step[2] \in {"reread", "final"}
    BY <2>1 DEF TokenSafe
  <2>3. UNCHANGED <<others, report>>
    BY <1>6 DEF Token!ReconcilingLogout
  <2> QED
    BY <2>1, <2>2, <2>3 DEF Token!LoggedOut, Token!Unanswered, Token!CarriedOut, TokenSafe
<1>7. CASE Token!Late
  BY <1>7 DEF Token!Late, Token!CarriedOut, TokenSafe
<1>8. CASE Token!OthersChange
  BY <1>8, ToolsAssumption DEF Token!OthersChange, TokenSafe
<1>9. CASE Token!GlobalLogout
  BY <1>9 DEF Token!GlobalLogout, TokenSafe
<1>10. CASE UNCHANGED Token!vars
  BY <1>10 DEF Token!vars, TokenSafe
<1> QED
  BY <1>1, <1>2, <1>3, <1>4, <1>5, <1>6, <1>7, <1>8, <1>9, <1>10 DEF Token!Next

\* A verified cleanup means that the session existed and is gone, however the
\* calls that raised come out and whoever else signs in and out.
THEOREM CleanupIsTrue == Token!Spec => []CleanedMeansGone
<1>1. TokenSafe => CleanedMeansGone
  BY DEF TokenSafe, CleanedMeansGone, Token!CleanedMeansGone, Token!At
<1> QED
  BY <1>1, TokenInit, TokenStepKeeps, PTL DEF Token!Spec

-----------------------------------------------------------------------------
(* Acquisition intake.                                                     *)

CallRecords ==
  [step : {"idle"}]
    \cup [step : {"located"}, request : Requests, content : Contents]
    \cup [step : {"struck", "admitted", "bound", "inserted"}, request : Requests,
          content : Contents, tick : Acquisition!Times]

CallsTyped == calls \in [Servers -> CallRecords] /\ dbClock \in Acquisition!Times

Once(r) == IF intakes[r] = NoContent THEN 0 ELSE 1

\* Who inserted found no row, waits for nobody else's insert, and like everyone
\* between binding and commit still has an active company and owner.
IntakeSafe ==
  /\ intakes \in [Requests -> Contents \cup {NoContent}]
  /\ appended \in [Requests -> Nat]
  /\ originals \in [Requests -> Nat]
  /\ accepted \in [Requests -> SUBSET Contents]
  /\ \A s \in Servers : calls[s].step = "inserted" =>
       /\ intakes[calls[s].request] = NoContent
       /\ \A o \in Servers \ {s} :
            calls[o].step = "inserted" => calls[o].request # calls[s].request
  /\ \A s \in Servers : calls[s].step \in {"bound", "inserted"} => Acquisition!ActiveOwner
  /\ \A r \in Requests :
       /\ originals[r] <= Once(r)
       /\ appended[r] = Once(r)
       /\ \A c \in accepted[r] : c = intakes[r]

\* The window from t is that from u, or over when it begins.
Before(t, u) == t = u \/ t + Window <= u

\* The counter row and the admissions agree, whatever tick was struck before.
QuotaSafe ==
  /\ counter \in [start : Acquisition!Times, count : Nat]
  /\ admittedIn \in [Acquisition!Times -> Nat]
  /\ counter.count <= MaxRequests
  /\ counter.count = 0 => \A t \in Acquisition!Times : admittedIn[t] = 0
  /\ counter.count > 0 => admittedIn[counter.start] = counter.count
  /\ \A t \in Acquisition!Times : admittedIn[t] <= MaxRequests
  /\ \A t \in Acquisition!Times : admittedIn[t] > 0 => Before(t, counter.start)
  /\ \A t, u \in Acquisition!Times : admittedIn[t] > 0 /\ admittedIn[u] > 0 /\ u > t => u >= t + Window

LEMMA AcquisitionStarts == Acquisition!AcquisitionInit => CallsTyped /\ IntakeSafe /\ QuotaSafe
<1> SUFFICES ASSUME Acquisition!AcquisitionInit PROVE CallsTyped /\ IntakeSafe /\ QuotaSafe
  OBVIOUS
<1>1. /\ calls = [s \in Servers |-> [step |-> "idle"]]
      /\ dbClock = 0 /\ counter = [start |-> 0, count |-> 0]
      /\ intakes = [r \in Requests |-> NoContent]
      /\ appended = [r \in Requests |-> 0]
      /\ admittedIn = [t \in Acquisition!Times |-> 0]
      /\ originals = [r \in Requests |-> 0]
      /\ accepted = [r \in Requests |-> {}]
  BY DEF Acquisition!AcquisitionInit, Acquisition!Idle, Acquisition!NoCounter
<1>2. 0 \in Acquisition!Times
  BY ServiceAssumption DEF Acquisition!Times
<1>3. [step |-> "idle"] \in CallRecords
  BY DEF CallRecords
<1>4. CallsTyped
  BY <1>1, <1>2, <1>3 DEF CallsTyped
<1>5. IntakeSafe
  BY <1>1 DEF IntakeSafe, Once
<1>6. QuotaSafe
  <2>1. counter \in [start : Acquisition!Times, count : Nat] /\ counter.count = 0
    BY <1>1, <1>2
  <2>2. admittedIn \in [Acquisition!Times -> Nat] /\ \A t \in Acquisition!Times : admittedIn[t] = 0
    BY <1>1
  <2> QED
    BY <2>1, <2>2, ServiceAssumption DEF QuotaSafe
<1> QED
  BY <1>4, <1>5, <1>6

\* What a call holds at each step.
LEMMA CallHolds ==
  ASSUME CallsTyped, NEW s \in Servers
  PROVE  /\ calls[s].step \in {"idle", "located", "struck", "admitted", "bound", "inserted"}
         /\ calls[s].step # "idle" => calls[s].request \in Requests /\ calls[s].content \in Contents
         /\ calls[s].step \notin {"idle", "located"} =>
              /\ calls[s].tick \in Acquisition!Times
              /\ calls[s] \in [step : {"struck", "admitted", "bound", "inserted"},
                               request : Requests, content : Contents, tick : Acquisition!Times]
BY DEF CallsTyped, CallRecords

\* The call of s goes on with what it holds.
LEMMA CallGoesOn ==
  ASSUME CallsTyped, NEW s \in Servers, calls[s].step \notin {"idle", "located"},
         NEW step \in {"struck", "admitted", "bound", "inserted"}, Acquisition!Goes(s, step), UNCHANGED dbClock
  PROVE  /\ CallsTyped'
         /\ calls'[s].step = step /\ calls'[s].request = calls[s].request
         /\ calls'[s].content = calls[s].content
         /\ \A o \in Servers \ {s} : calls'[o] = calls[o]
<1> DEFINE held == [step : {"struck", "admitted", "bound", "inserted"}, request : Requests,
                    content : Contents, tick : Acquisition!Times]
           new == [calls[s] EXCEPT !.step = step]
<1>1. calls[s] \in held
  BY CallHolds
<1>2. /\ new \in held
      /\ new.step = step /\ new.request = calls[s].request /\ new.content = calls[s].content
  BY <1>1
<1>3. calls' = [calls EXCEPT ![s] = new]
  BY DEF Acquisition!Goes
<1>4. new \in CallRecords
  BY <1>2 DEF CallRecords
<1> HIDE DEF new
<1> QED
  BY <1>2, <1>3, <1>4 DEF CallsTyped

\* The call of s ends.
LEMMA CallEnds ==
  ASSUME CallsTyped, NEW s \in Servers, Acquisition!Ends(s), UNCHANGED dbClock
  PROVE  /\ CallsTyped' /\ calls'[s].step = "idle"
         /\ \A o \in Servers \ {s} : calls'[o] = calls[o]
<1>1. calls' = [calls EXCEPT ![s] = [step |-> "idle"]]
  BY DEF Acquisition!Ends, Acquisition!Idle
<1>2. [step |-> "idle"] \in CallRecords
  BY DEF CallRecords
<1> QED
  BY <1>1, <1>2 DEF CallsTyped

\* A call that begins, or reads the clock.
LEMMA LocateAndStrike ==
  ASSUME CallsTyped, NEW s \in Servers,
         \/ \E r \in Requests, c \in Contents : Acquisition!Locate(s, r, c)
         \/ Acquisition!Strike(s)
  PROVE  /\ CallsTyped' /\ calls'[s].step \in {"located", "struck"}
         /\ \A o \in Servers \ {s} : calls'[o] = calls[o]
<1>1. CASE \E r \in Requests, c \in Contents : Acquisition!Locate(s, r, c)
  <2>1. PICK r \in Requests, c \in Contents : Acquisition!Locate(s, r, c)
    BY <1>1
  <2> DEFINE new == [step |-> "located", request |-> r, content |-> c]
  <2>2. new \in CallRecords
    BY DEF CallRecords
  <2>3. calls' = [calls EXCEPT ![s] = new] /\ dbClock' = dbClock /\ new.step = "located"
    BY <2>1 DEF Acquisition!Locate
  <2> HIDE DEF new
  <2> QED
    BY <2>2, <2>3 DEF CallsTyped
<1>2. CASE Acquisition!Strike(s)
  <2> DEFINE new == [step |-> "struck", request |-> calls[s].request, content |-> calls[s].content,
                     tick |-> dbClock]
  <2>1. calls[s].step = "located" /\ calls' = [calls EXCEPT ![s] = new] /\ dbClock' = dbClock
    BY <1>2 DEF Acquisition!Strike, Acquisition!At
  <2>2. calls[s].request \in Requests /\ calls[s].content \in Contents
    BY <2>1, CallHolds
  <2>3. new \in CallRecords /\ new.step = "struck"
    BY <2>2 DEF CallRecords, CallsTyped
  <2> HIDE DEF new
  <2> QED
    BY <2>1, <2>3 DEF CallsTyped
<1> QED
  BY <1>1, <1>2

LEMMA CallsStepKeeps == CallsTyped /\ [Acquisition!AcquisitionNext]_(Acquisition!acquisitionVars) => CallsTyped'
<1> SUFFICES ASSUME CallsTyped, [Acquisition!AcquisitionNext]_(Acquisition!acquisitionVars) PROVE CallsTyped'
  OBVIOUS
<1>1. ASSUME NEW s \in Servers, \/ \E r \in Requests, c \in Contents : Acquisition!Locate(s, r, c)
                                \/ Acquisition!Strike(s)
      PROVE  CallsTyped'
  BY <1>1, LocateAndStrike
<1>2. ASSUME NEW s \in Servers, Acquisition!Admit(s) PROVE CallsTyped'
  <2>1. calls[s].step \notin {"idle", "located"} /\ dbClock' = dbClock
    BY <1>2 DEF Acquisition!Admit, Acquisition!At
  <2> QED
    BY <1>2, <2>1, CallGoesOn, CallEnds DEF Acquisition!Admit
<1>3. ASSUME NEW s \in Servers, Acquisition!Bind(s) PROVE CallsTyped'
  BY <1>3, CallGoesOn DEF Acquisition!Bind, Acquisition!At
<1>4. ASSUME NEW s \in Servers, Acquisition!Insert(s) PROVE CallsTyped'
  BY <1>4, CallGoesOn DEF Acquisition!Insert, Acquisition!At
<1>5. ASSUME NEW s \in Servers, Acquisition!AnswerReplay(s) \/ Acquisition!Receive(s) \/ Acquisition!GiveUp(s) PROVE CallsTyped'
  BY <1>5, CallEnds DEF Acquisition!AnswerReplay, Acquisition!Receive, Acquisition!GiveUp
<1>6. CASE Acquisition!TenantStep
  BY <1>6 DEF Acquisition!TenantStep, CallsTyped
<1>7. CASE Acquisition!Tick
  BY <1>7, ServiceAssumption DEF Acquisition!Tick, CallsTyped, Acquisition!Times
<1>8. CASE UNCHANGED Acquisition!acquisitionVars
  BY <1>8 DEF Acquisition!acquisitionVars, CallsTyped
<1> QED
  BY <1>1, <1>2, <1>3, <1>4, <1>5, <1>6, <1>7, <1>8 DEF Acquisition!AcquisitionNext

\* Nothing of an intake changes while calls come and go short of the insert.
LEMMA IntakeStands ==
  ASSUME IntakeSafe, NEW s \in Servers, calls'[s].step \notin {"bound", "inserted"},
         \A o \in Servers \ {s} : calls'[o] = calls[o],
         UNCHANGED <<company, membership, intakes, appended, originals, accepted>>
  PROVE  IntakeSafe'
<1>1. \A r : Once(r)' = Once(r)
  BY DEF Once
<1>2. Acquisition!ActiveOwner' = Acquisition!ActiveOwner
  BY DEF Acquisition!ActiveOwner
<1>3. \A o \in Servers : calls'[o].step \in {"bound", "inserted"} => o # s /\ calls'[o] = calls[o]
  OBVIOUS
<1>4. \A o \in Servers : calls'[o].step = "inserted" =>
        /\ intakes'[calls'[o].request] = NoContent
        /\ \A q \in Servers \ {o} :
             calls'[q].step = "inserted" => calls'[q].request # calls'[o].request
  BY <1>3 DEF IntakeSafe
<1>5. \A o \in Servers : calls'[o].step \in {"bound", "inserted"} => Acquisition!ActiveOwner'
  BY <1>2, <1>3 DEF IntakeSafe
<1> QED
  BY <1>1, <1>4, <1>5 DEF IntakeSafe

LEMMA InsertKeeps ==
  ASSUME CallsTyped, IntakeSafe, NEW s \in Servers, Acquisition!Insert(s) PROVE IntakeSafe'
<1>1. /\ calls[s].step = "bound" /\ Acquisition!RequestFree(s)
      /\ intakes[calls[s].request] = NoContent /\ Acquisition!Goes(s, "inserted")
      /\ UNCHANGED <<company, membership, dbClock, intakes, appended, originals, accepted>>
  BY DEF Acquisition!Insert, Acquisition!At, Acquisition!tenantVars, Acquisition!historyVars
<1>2. /\ calls'[s].step = "inserted" /\ calls'[s].request = calls[s].request
      /\ \A o \in Servers \ {s} : calls'[o] = calls[o]
  BY <1>1, CallGoesOn
<1>3. \A o \in Servers \ {s} : calls[o].step = "inserted" => calls[o].request # calls[s].request
  BY <1>1 DEF Acquisition!RequestFree, Acquisition!At
<1>4. \A o \in Servers : calls'[o].step = "inserted" =>
        /\ intakes'[calls'[o].request] = NoContent
        /\ \A q \in Servers \ {o} :
             calls'[q].step = "inserted" => calls'[q].request # calls'[o].request
  BY <1>1, <1>2, <1>3 DEF IntakeSafe
<1>5. Acquisition!ActiveOwner' /\ Acquisition!ActiveOwner
  BY <1>1 DEF IntakeSafe, Acquisition!ActiveOwner
<1>6. \A r : Once(r)' = Once(r)
  BY <1>1 DEF Once
<1> QED
  BY <1>1, <1>4, <1>5, <1>6 DEF IntakeSafe

LEMMA BindKeeps ==
  ASSUME CallsTyped, IntakeSafe, NEW s \in Servers, Acquisition!Bind(s) PROVE IntakeSafe'
<1>1. /\ calls[s].step = "admitted" /\ Acquisition!ActiveOwner /\ Acquisition!Goes(s, "bound")
      /\ UNCHANGED <<company, membership, dbClock, intakes, appended, originals, accepted>>
  BY DEF Acquisition!Bind, Acquisition!At, Acquisition!tenantVars, Acquisition!historyVars
<1>2. /\ calls'[s].step = "bound"
      /\ \A o \in Servers \ {s} : calls'[o] = calls[o]
  BY <1>1, CallGoesOn
<1>3. Acquisition!ActiveOwner'
  BY <1>1 DEF Acquisition!ActiveOwner
<1>4. \A o \in Servers : calls'[o].step = "inserted" => o # s /\ calls'[o] = calls[o]
  BY <1>2
<1>5. \A r : Once(r)' = Once(r)
  BY <1>1 DEF Once
<1>6. \A o \in Servers : calls'[o].step = "inserted" =>
        /\ intakes'[calls'[o].request] = NoContent
        /\ \A q \in Servers \ {o} :
             calls'[q].step = "inserted" => calls'[q].request # calls'[o].request
  BY <1>1, <1>4 DEF IntakeSafe
<1> QED
  BY <1>1, <1>3, <1>5, <1>6 DEF IntakeSafe

\* A replay is told of the content that is there.
LEMMA AnswerReplayKeeps ==
  ASSUME CallsTyped, IntakeSafe, NEW s \in Servers, Acquisition!AnswerReplay(s) PROVE IntakeSafe'
<1> DEFINE r == calls[s].request
           c == calls[s].content
<1>1. /\ calls[s].step = "bound" /\ intakes[r] = c
      /\ accepted' = [accepted EXCEPT ![r] = @ \cup {c}]
      /\ originals' = [originals EXCEPT ![r] = @ + 0]
      /\ Acquisition!Ends(s)
      /\ UNCHANGED <<company, membership, dbClock, intakes, appended>>
  BY DEF Acquisition!AnswerReplay, Acquisition!At, Acquisition!tenantVars, Acquisition!SameContent, Acquisition!Tell
<1>2. r \in Requests /\ c \in Contents
  BY <1>1, CallHolds
<1>3. /\ calls'[s].step = "idle"
      /\ \A o \in Servers \ {s} : calls'[o] = calls[o]
  BY <1>1, CallEnds
<1> HIDE DEF r, c
<1>4. originals' = originals
  BY <1>1, <1>2 DEF IntakeSafe
<1>5. /\ accepted' \in [Requests -> SUBSET Contents]
      /\ accepted'[r] = accepted[r] \cup {c}
      /\ \A q \in Requests \ {r} : accepted'[q] = accepted[q]
  BY <1>1, <1>2 DEF IntakeSafe
<1>6. \A q \in Requests : \A d \in accepted'[q] : d = intakes'[q]
  BY <1>1, <1>5 DEF IntakeSafe
<1>7. Acquisition!ActiveOwner' = Acquisition!ActiveOwner /\ \A q : Once(q)' = Once(q)
  BY <1>1 DEF Acquisition!ActiveOwner, Once
<1>8. \A o \in Servers : calls'[o].step \in {"bound", "inserted"} => o # s /\ calls'[o] = calls[o]
  BY <1>3
<1>9. \A o \in Servers : calls'[o].step = "inserted" =>
        /\ intakes'[calls'[o].request] = NoContent
        /\ \A q \in Servers \ {o} :
             calls'[q].step = "inserted" => calls'[q].request # calls'[o].request
  BY <1>1, <1>8 DEF IntakeSafe
<1> QED
  BY <1>1, <1>4, <1>5, <1>6, <1>7, <1>8, <1>9 DEF IntakeSafe

\* The commit of an insert.
LEMMA ReceiveKeeps ==
  ASSUME CallsTyped, IntakeSafe, NEW s \in Servers, Acquisition!Receive(s) PROVE IntakeSafe'
<1>0. calls[s].step = "inserted"
  BY DEF Acquisition!Receive, Acquisition!At
<1>a. PICK r \in Requests : r = calls[s].request
  BY <1>0, CallHolds
<1>b. PICK c \in Contents : c = calls[s].content
  BY <1>0, CallHolds
<1>1. /\ calls[s].step = "inserted"
      /\ intakes' = [intakes EXCEPT ![r] = c]
      /\ appended' = [appended EXCEPT ![r] = @ + 1]
      /\ \/ /\ accepted' = [accepted EXCEPT ![r] = @ \cup {c}]
            /\ originals' = [originals EXCEPT ![r] = @ + 1]
         \/ UNCHANGED <<originals, accepted>>
      /\ Acquisition!Ends(s)
      /\ UNCHANGED <<company, membership, dbClock>>
  BY <1>a, <1>b DEF Acquisition!Receive, Acquisition!At, Acquisition!tenantVars, Acquisition!Tell
<1>2. c # NoContent
  BY ServiceAssumption
<1>3. /\ calls'[s].step = "idle"
      /\ \A o \in Servers \ {s} : calls'[o] = calls[o]
  BY <1>1, CallEnds
<1>4. /\ intakes[r] = NoContent
      /\ \A o \in Servers \ {s} : calls[o].step = "inserted" => calls[o].request # r
  BY <1>1, <1>a DEF IntakeSafe
<1>5. /\ intakes' \in [Requests -> Contents \cup {NoContent}]
      /\ intakes'[r] = c
      /\ \A q \in Requests \ {r} : intakes'[q] = intakes[q]
  BY <1>1, <1>2 DEF IntakeSafe
<1>6. /\ Once(r) = 0 /\ Once(r)' = 1
      /\ \A q \in Requests \ {r} : Once(q)' = Once(q)
  BY <1>2, <1>4, <1>5 DEF Once
<1>7. originals[r] = 0 /\ appended[r] = 0 /\ accepted[r] = {}
  <2>1. originals[r] <= 0 /\ originals[r] \in Nat /\ appended[r] = 0
    BY <1>2, <1>6 DEF IntakeSafe
  <2>2. \A d \in accepted[r] : d = NoContent /\ d \in Contents
    BY <1>2, <1>4 DEF IntakeSafe
  <2> QED
    BY <2>1, <2>2, ServiceAssumption
<1>8. /\ appended' \in [Requests -> Nat] /\ appended'[r] = 1
      /\ \A q \in Requests \ {r} : appended'[q] = appended[q]
  BY <1>1, <1>2, <1>7 DEF IntakeSafe
<1>9. /\ originals' \in [Requests -> Nat] /\ originals'[r] <= 1
      /\ \A q \in Requests \ {r} : originals'[q] = originals[q]
  BY <1>1, <1>2, <1>7 DEF IntakeSafe
<1>10. /\ accepted' \in [Requests -> SUBSET Contents] /\ accepted'[r] \subseteq {c}
       /\ \A q \in Requests \ {r} : accepted'[q] = accepted[q]
  BY <1>1, <1>2, <1>7 DEF IntakeSafe
<1>11. ASSUME NEW q \in Requests
       PROVE  /\ originals'[q] <= Once(q)' /\ appended'[q] = Once(q)'
              /\ \A d \in accepted'[q] : d = intakes'[q]
  <2>1. CASE q = r
    BY <1>5, <1>6, <1>8, <1>9, <1>10, <2>1
  <2>2. CASE q # r
    BY <1>5, <1>6, <1>8, <1>9, <1>10, <2>2 DEF IntakeSafe
  <2> QED
    BY <2>1, <2>2
<1>12. Acquisition!ActiveOwner' = Acquisition!ActiveOwner
  BY <1>1 DEF Acquisition!ActiveOwner
<1>13. \A o \in Servers : calls'[o].step \in {"bound", "inserted"} => o # s /\ calls'[o] = calls[o]
  BY <1>3
<1>14. ASSUME NEW o \in Servers, calls'[o].step = "inserted"
       PROVE  /\ intakes'[calls'[o].request] = NoContent
              /\ \A q \in Servers \ {o} :
                   calls'[q].step = "inserted" => calls'[q].request # calls'[o].request
  <2>1. o # s /\ calls'[o] = calls[o] /\ calls[o].step = "inserted"
    BY <1>13, <1>14
  <2>2. calls[o].request \in Requests /\ calls[o].request # r
    BY <1>4, <2>1, CallHolds
  <2>3. intakes[calls[o].request] = NoContent
    BY <2>1 DEF IntakeSafe
  <2>4. \A q \in Servers \ {o} :
          calls'[q].step = "inserted" => calls'[q].request # calls'[o].request
    BY <1>13, <2>1 DEF IntakeSafe
  <2> QED
    BY <1>5, <2>1, <2>2, <2>3, <2>4
<1> QED
  BY <1>5, <1>8, <1>9, <1>10, <1>11, <1>12, <1>13, <1>14 DEF IntakeSafe

LEMMA IntakeStepKeeps ==
  CallsTyped /\ IntakeSafe /\ [Acquisition!AcquisitionNext]_(Acquisition!acquisitionVars) => IntakeSafe'
<1> SUFFICES ASSUME CallsTyped, IntakeSafe, [Acquisition!AcquisitionNext]_(Acquisition!acquisitionVars) PROVE IntakeSafe'
  OBVIOUS
<1> USE DEF Acquisition!tenantVars, Acquisition!historyVars
<1>1. ASSUME NEW s \in Servers, NEW r \in Requests, NEW c \in Contents, Acquisition!Locate(s, r, c)
      PROVE  IntakeSafe'
  <2>1. UNCHANGED <<company, membership, intakes, appended, originals, accepted>>
    BY <1>1 DEF Acquisition!Locate
  <2> QED
    BY <1>1, <2>1, LocateAndStrike, IntakeStands
<1>2. ASSUME NEW s \in Servers, Acquisition!Strike(s) PROVE IntakeSafe'
  <2>1. UNCHANGED <<company, membership, intakes, appended, originals, accepted>>
    BY <1>2 DEF Acquisition!Strike
  <2> QED
    BY <1>2, <2>1, LocateAndStrike, IntakeStands
<1>3. ASSUME NEW s \in Servers, Acquisition!Admit(s) PROVE IntakeSafe'
  <2>1. /\ calls[s].step \notin {"idle", "located"} /\ dbClock' = dbClock
        /\ UNCHANGED <<company, membership, intakes, appended, originals, accepted>>
    BY <1>3 DEF Acquisition!Admit, Acquisition!At
  <2>2. /\ calls'[s].step \in {"admitted", "idle"}
        /\ \A o \in Servers \ {s} : calls'[o] = calls[o]
    BY <1>3, <2>1, CallGoesOn, CallEnds DEF Acquisition!Admit
  <2> QED
    BY <2>1, <2>2, IntakeStands
<1>4. ASSUME NEW s \in Servers, Acquisition!GiveUp(s) PROVE IntakeSafe'
  <2>1. UNCHANGED <<company, membership, intakes, appended, originals, accepted>>
    BY <1>4 DEF Acquisition!GiveUp
  <2>2. /\ calls'[s].step = "idle"
        /\ \A o \in Servers \ {s} : calls'[o] = calls[o]
    BY <1>4, CallEnds DEF Acquisition!GiveUp
  <2> QED
    BY <2>1, <2>2, IntakeStands
<1>5. CASE Acquisition!TenantStep
  <2>1. /\ ~Acquisition!Shared
        /\ UNCHANGED <<calls, intakes, appended, originals, accepted>>
    BY <1>5 DEF Acquisition!TenantStep
  <2>2. \A s \in Servers : calls'[s].step \notin {"bound", "inserted"}
    BY <2>1 DEF Acquisition!Shared
  <2>3. \A r : Once(r)' = Once(r)
    BY <2>1 DEF Once
  <2> QED
    BY <2>1, <2>2, <2>3 DEF IntakeSafe
<1>6. CASE Acquisition!Tick \/ UNCHANGED Acquisition!acquisitionVars
  <2>1. UNCHANGED <<company, membership, calls, intakes, appended, originals, accepted>>
    BY <1>6 DEF Acquisition!Tick, Acquisition!acquisitionVars
  <2>2. Acquisition!ActiveOwner' = Acquisition!ActiveOwner /\ \A r : Once(r)' = Once(r)
    BY <2>1 DEF Acquisition!ActiveOwner, Once
  <2> QED
    BY <2>1, <2>2 DEF IntakeSafe
<1> QED
  BY <1>1, <1>2, <1>3, <1>4, <1>5, <1>6, BindKeeps, InsertKeeps, AnswerReplayKeeps, ReceiveKeeps
  DEF Acquisition!AcquisitionNext

\* An admission within the quota, or in a window of its own.
LEMMA AdmitKeeps ==
  ASSUME CallsTyped, QuotaSafe, NEW s \in Servers, Acquisition!Admit(s) PROVE QuotaSafe'
<1> DEFINE t == calls[s].tick
<1>1. /\ calls[s].step = "struck" /\ Acquisition!Quota(t) /\ counter' = Acquisition!Counted(t)
      /\ admittedIn' = [admittedIn EXCEPT ![counter'.start] = @ + 1]
  BY DEF Acquisition!Admit, Acquisition!At
<1>2. t \in Acquisition!Times
  BY <1>1, CallHolds
<1> HIDE DEF t
<1>3. /\ Window \in Nat \ {0} /\ MaxRequests \in Nat \ {0} /\ MaxClock \in Nat
      /\ \A u \in Acquisition!Times : u \in Nat
  BY ServiceAssumption DEF Acquisition!Times
<1>4. /\ counter.start \in Acquisition!Times /\ counter.count \in Nat
      /\ counter.count <= MaxRequests
      /\ admittedIn \in [Acquisition!Times -> Nat]
  BY DEF QuotaSafe
<1>5. CASE Acquisition!RollsOver(t)
  <2>1. counter' = [start |-> t, count |-> 1]
    BY <1>1, <1>5 DEF Acquisition!Counted
  <2>2. counter'.start = t /\ counter'.count = 1 /\ counter' \in [start : Acquisition!Times, count : Nat]
    BY <1>2, <2>1
  <2>3. \A u \in Acquisition!Times : admittedIn[u] > 0 => u + Window <= t
    <3> SUFFICES ASSUME NEW u \in Acquisition!Times, admittedIn[u] > 0 PROVE u + Window <= t
      OBVIOUS
    <3>1. counter.count # 0
      BY <1>4 DEF QuotaSafe
    <3>2. counter.start + Window <= t
      BY <1>5, <3>1 DEF Acquisition!RollsOver
    <3>3. Before(u, counter.start)
      BY DEF QuotaSafe
    <3> QED
      BY <1>2, <1>3, <1>4, <3>2, <3>3 DEF Before
  <2>4. ~(admittedIn[t] > 0)
    BY <1>2, <1>3, <2>3
  <2>5. /\ admittedIn' \in [Acquisition!Times -> Nat] /\ admittedIn'[t] = 1
        /\ \A u \in Acquisition!Times \ {t} : admittedIn'[u] = admittedIn[u]
    BY <1>1, <1>2, <1>4, <2>2, <2>4
  <2>6. \A u \in Acquisition!Times : admittedIn'[u] <= MaxRequests
    BY <1>3, <2>5 DEF QuotaSafe
  <2>8. \A u \in Acquisition!Times : admittedIn'[u] > 0 => Before(u, t)
    BY <1>3, <2>3, <2>5 DEF QuotaSafe, Before
  <2>7. ASSUME NEW u \in Acquisition!Times, NEW v \in Acquisition!Times, admittedIn'[u] > 0, admittedIn'[v] > 0, v > u
        PROVE  v >= u + Window
    <3>a. Before(u, t)
      BY <2>7, <2>8
    <3>b. Before(v, t)
      BY <2>7, <2>8
    <3>0. u \in Nat /\ v \in Nat /\ t \in Nat /\ Before(u, t) /\ Before(v, t)
      BY <1>2, <1>3, <3>a, <3>b
    <3>1. CASE u = t
      BY <1>3, <2>7, <3>0, <3>1 DEF Before
    <3>2. CASE v = t /\ u # t
      BY <1>3, <3>0, <3>2 DEF Before
    <3>3. CASE v # t /\ u # t
      BY <2>5, <2>7, <3>3 DEF QuotaSafe
    <3> QED
      BY <3>1, <3>2, <3>3
  <2> QED
    BY <1>3, <2>2, <2>5, <2>6, <2>7, <2>8 DEF QuotaSafe
<1>6. CASE ~Acquisition!RollsOver(t)
  <2>1. counter.count # 0 /\ counter.count < MaxRequests
    BY <1>1, <1>6 DEF Acquisition!Quota, Acquisition!RollsOver
  <2>2. /\ counter' = [counter EXCEPT !.count = @ + 1]
        /\ counter \in [start : Acquisition!Times, count : Nat]
    BY <1>1, <1>6 DEF Acquisition!Counted, QuotaSafe
  <2>3. /\ counter'.start = counter.start /\ counter'.count = counter.count + 1
        /\ counter' \in [start : Acquisition!Times, count : Nat]
    BY <2>2
  <2>4. admittedIn[counter.start] = counter.count
    BY <1>4, <2>1 DEF QuotaSafe
  <2>5. /\ admittedIn' \in [Acquisition!Times -> Nat] /\ admittedIn'[counter.start] = counter.count + 1
        /\ \A u \in Acquisition!Times \ {counter.start} : admittedIn'[u] = admittedIn[u]
    BY <1>1, <1>4, <2>3, <2>4
  <2>6. \A u \in Acquisition!Times : admittedIn'[u] > 0 <=> admittedIn[u] > 0
    BY <1>4, <2>1, <2>4, <2>5
  <2>7. \A u \in Acquisition!Times : /\ admittedIn'[u] <= MaxRequests
                          /\ admittedIn'[u] > 0 => Before(u, counter'.start)
    BY <1>3, <1>4, <2>1, <2>3, <2>5, <2>6 DEF QuotaSafe
  <2>8. \A u, v \in Acquisition!Times : admittedIn'[u] > 0 /\ admittedIn'[v] > 0 /\ v > u => v >= u + Window
    BY <2>6 DEF QuotaSafe
  <2>9. counter'.count <= MaxRequests /\ counter'.count > 0
    BY <1>3, <1>4, <2>1, <2>3
  <2> QED
    BY <2>3, <2>5, <2>7, <2>8, <2>9 DEF QuotaSafe
<1> QED
  BY <1>5, <1>6

LEMMA QuotaStepKeeps ==
  CallsTyped /\ QuotaSafe /\ [Acquisition!AcquisitionNext]_(Acquisition!acquisitionVars) => QuotaSafe'
<1> SUFFICES ASSUME CallsTyped, QuotaSafe, [Acquisition!AcquisitionNext]_(Acquisition!acquisitionVars) PROVE QuotaSafe'
  OBVIOUS
<1>1. ASSUME UNCHANGED <<counter, admittedIn>> PROVE QuotaSafe'
  BY <1>1 DEF QuotaSafe
<1>2. ASSUME NEW s \in Servers,
             \/ \E r \in Requests, c \in Contents : Acquisition!Locate(s, r, c)
             \/ Acquisition!Strike(s) \/ Acquisition!Bind(s) \/ Acquisition!Insert(s)
             \/ Acquisition!AnswerReplay(s) \/ Acquisition!Receive(s) \/ Acquisition!GiveUp(s)
      PROVE  UNCHANGED <<counter, admittedIn>>
  BY <1>2 DEF Acquisition!Locate, Acquisition!Strike, Acquisition!Bind, Acquisition!Insert, Acquisition!AnswerReplay, Acquisition!Receive, Acquisition!GiveUp, Acquisition!historyVars
<1>3. CASE Acquisition!TenantStep \/ Acquisition!Tick \/ UNCHANGED Acquisition!acquisitionVars
  BY <1>1, <1>3 DEF Acquisition!TenantStep, Acquisition!Tick, Acquisition!acquisitionVars, Acquisition!historyVars
<1> QED
  BY <1>1, <1>2, <1>3, AdmitKeeps DEF Acquisition!AcquisitionNext

\* A request is received once and its callers were told of what was received,
\* for any number of servers over one database.
THEOREM RequestsReceivedOnce == Acquisition!AcquisitionSpec => []OneIntakePerRequest
<1>1. IntakeSafe => OneIntakePerRequest
  <2> SUFFICES ASSUME IntakeSafe, NEW r \in Requests
               PROVE  /\ accepted[r] \subseteq {intakes[r]} \ {NoContent}
                      /\ originals[r] <= 1
                      /\ appended[r] = IF intakes[r] = NoContent THEN 0 ELSE 1
    BY DEF OneIntakePerRequest, Acquisition!OneIntakePerRequest
  <2> QED
    BY ServiceAssumption DEF IntakeSafe, Once
<1> QED
  BY <1>1, AcquisitionStarts, CallsStepKeeps, IntakeStepKeeps, PTL DEF Acquisition!AcquisitionSpec

\* Nothing is committed for a company that is not active, although it was read
\* in earlier steps.
THEOREM CommitsWhileActive == Acquisition!AcquisitionSpec => IntakeWhileActive
<1>1. CallsTyped /\ IntakeSafe /\ [Acquisition!AcquisitionNext]_(Acquisition!acquisitionVars) =>
        [intakes' # intakes => Acquisition!ActiveOwner]_(Acquisition!acquisitionVars)
  <2> SUFFICES ASSUME IntakeSafe, Acquisition!AcquisitionNext, intakes' # intakes PROVE Acquisition!ActiveOwner
    OBVIOUS
  <2>1. PICK s \in Servers : Acquisition!Receive(s)
    BY DEF Acquisition!AcquisitionNext, Acquisition!Locate, Acquisition!Strike, Acquisition!Admit, Acquisition!Bind, Acquisition!Insert, Acquisition!AnswerReplay, Acquisition!GiveUp,
           Acquisition!TenantStep, Acquisition!Tick
  <2> QED
    BY <2>1 DEF Acquisition!Receive, Acquisition!At, IntakeSafe
<1> QED
  BY <1>1, AcquisitionStarts, CallsStepKeeps, IntakeStepKeeps, PTL
  DEF Acquisition!AcquisitionSpec, IntakeWhileActive, Acquisition!IntakeWhileActive

\* No window admits more than its quota, and windows do not overlap.
THEOREM WindowsKeepQuota == Acquisition!AcquisitionSpec => []QuotaPerWindow
<1>1. QuotaSafe => QuotaPerWindow
  <2> SUFFICES ASSUME QuotaSafe, NEW t \in Acquisition!Times, admittedIn[t] > 0
               PROVE  /\ admittedIn[t] <= MaxRequests
                      /\ \A u \in Acquisition!Times : u > t /\ admittedIn[u] > 0 => u >= t + Window
    BY DEF QuotaPerWindow, Acquisition!QuotaPerWindow
  <2> QED
    BY ServiceAssumption DEF QuotaSafe, Acquisition!Times
<1> QED
  BY <1>1, AcquisitionStarts, CallsStepKeeps, QuotaStepKeeps, PTL DEF Acquisition!AcquisitionSpec

-----------------------------------------------------------------------------
(* Work items.                                                             *)

Receipts == [command : Work!Commands, version : Nat]

Entries == [command : Work!Commands, item : Work!ItemRecords]

\* The commit that made an item wait for its recipient.
Offering(e) ==
  /\ e.command.kind = "OFFER"
  /\ e.command.who = e.item.owner
  /\ e.command.recipient = e.item.pending

WorkTyped ==
  /\ waiting \in [Callers -> Work!Commands \cup {Work!NoCommand}]
  /\ answers \in [Callers -> [outcome : {"none", "replayed", "conflict", "accepted", "refused"},
                              version : Nat]]
  /\ receipts \in [Principals \X Items \X Keys -> Receipts \cup {NoReceipt}]

\* An offer that is open is what the last commit of its item made.
ItemsSafe ==
  /\ items \in [Items -> Work!ItemRecords \cup {NoItem}]
  /\ log \in [Items -> Seq(Entries)]
  /\ \A w \in Items : items[w] = IF log[w] = <<>> THEN NoItem ELSE log[w][Len(log[w])].item
  /\ \A w \in Items : Work!Consented(log[w])
  /\ \A w \in Items : items[w] # NoItem /\ items[w].pending # Nobody =>
       Offering(log[w][Len(log[w])])

\* A receipt is for an item that is there, and what a call waits to open from
\* an intake was received.
AskedSafe ==
  /\ \A k \in Principals \X Items \X Keys : receipts[k] # NoReceipt => items[k[2]] # NoItem
  /\ \A x \in Callers : Work!FromIntake(waiting[x]) => waiting[x].item \in received

WorkSafe == WorkTyped /\ ItemsSafe /\ AskedSafe

LEMMA CommandHolds ==
  ASSUME NEW c \in Work!Commands
  PROVE  /\ c.who \in Principals /\ c.item \in Items /\ c.key \in Keys
         /\ c.kind = "OFFER" => c.recipient \in Principals
         /\ Work!Scope(c) \in Principals \X Items \X Keys /\ Work!Scope(c)[2] = c.item
<1>1. /\ c.who \in Principals /\ c.item \in Items /\ c.key \in Keys
      /\ c.kind = "OFFER" => c.recipient \in Principals
  BY DEF Work!Commands
<1> QED
  BY <1>1 DEF Work!Scope

LEMMA WorkStarts == Work!WorkInit => WorkSafe
<1> SUFFICES ASSUME Work!WorkInit PROVE WorkSafe
  OBVIOUS
<1>1. WorkTyped
  BY DEF Work!WorkInit, WorkTyped, Work!Unanswered
<1>2. ItemsSafe
  <2>1. /\ log = [w \in Items |-> <<>>] /\ items = [w \in Items |-> NoItem]
    BY DEF Work!WorkInit
  <2>2. Len(<<>>) = 0 /\ <<>> \in Seq(Entries)
    BY EmptySeq
  <2>3. Work!Consented(<<>>)
    BY <2>2 DEF Work!Consented
  <2> QED
    BY <2>1, <2>2, <2>3 DEF ItemsSafe
<1>3. AskedSafe
  BY DEF Work!WorkInit, AskedSafe, Work!NoCommand, Work!FromIntake
<1> QED
  BY <1>1, <1>2, <1>3 DEF WorkSafe

\* What evolve_work_item makes of an item: the next version of one that is not
\* resolved, its caller's own, and offered only by its owner.
LEMMA EvolvedHolds ==
  ASSUME NEW item \in Work!ItemRecords \cup {NoItem}, NEW c \in Work!Commands,
         NEW new \in Work!Evolved(item, c)
  PROVE  /\ new \in Work!ItemRecords
         /\ c.who \in Work!Involved(new)
         /\ item # NoItem =>
              /\ new.version = item.version + 1
              /\ item.state # "RESOLVED"
              /\ new.owner # item.owner => item.pending = new.owner /\ item.pending # Nobody
         /\ new.pending # Nobody => Offering([command |-> c, item |-> new])
<1>0. c.who \in Principals /\ (c.kind = "OFFER" => c.recipient \in Principals)
  BY CommandHolds
<1>1. CASE c.kind = "OPEN"
  <2>1. item = NoItem /\ new = [owner |-> c.who, pending |-> Nobody, state |-> "OPEN", version |-> 1]
    BY <1>1 DEF Work!Evolved, Work!Opened
  <2> QED
    BY <1>0, <2>1 DEF Work!ItemRecords, Work!Involved
<1>2. CASE c.kind # "OPEN"
  <2>1. /\ item \in Work!ItemRecords /\ item # NoItem /\ Work!Current(item, c)
        /\ \/ new \in Work!Accepted(item, c) \/ new \in Work!Offered(item, c)
           \/ new \in Work!Cancelled(item, c) \/ new \in Work!Moved(item, c)
    BY <1>2 DEF Work!Evolved
  <2> DEFINE next == Work!Revised(item)
  <2>2. /\ next \in Work!ItemRecords /\ next.version = item.version + 1
        /\ next.owner = item.owner /\ next.pending = item.pending /\ next.state = item.state
    BY <2>1 DEF Work!Revised, Work!ItemRecords
  <2>3. CASE new \in Work!Accepted(item, c)
    <3>1. /\ c.kind = "ACCEPT" /\ item.state = "OPEN"
          /\ new = [next EXCEPT !.owner = c.who, !.pending = Nobody]
      BY <2>3 DEF Work!Accepted
    <3>2. c.who = item.pending
      BY <2>1, <3>1 DEF Work!Current
    <3> HIDE DEF next
    <3>3. /\ new \in Work!ItemRecords /\ new.owner = c.who /\ new.pending = Nobody
          /\ new.version = next.version
      BY <1>0, <2>2, <3>1 DEF Work!ItemRecords
    <3> QED
      BY <1>0, <2>2, <3>1, <3>2, <3>3, ServiceAssumption DEF Work!Involved
  <2>4. CASE new \in Work!Offered(item, c)
    <3>1. /\ c.kind = "OFFER" /\ item.state = "OPEN"
          /\ new = [next EXCEPT !.pending = c.recipient]
      BY <2>4 DEF Work!Offered
    <3>2. c.who = item.owner
      BY <2>1, <3>1 DEF Work!Current
    <3> HIDE DEF next
    <3>3. /\ new \in Work!ItemRecords /\ new.owner = next.owner /\ new.pending = c.recipient
          /\ new.version = next.version
      BY <1>0, <2>2, <3>1 DEF Work!ItemRecords
    <3> QED
      BY <2>2, <3>1, <3>2, <3>3 DEF Work!Involved, Offering
  <2>5. CASE new \in Work!Cancelled(item, c)
    <3>1. /\ c.kind = "CANCEL" /\ item.state = "OPEN"
          /\ new = [next EXCEPT !.pending = Nobody]
      BY <2>5 DEF Work!Cancelled
    <3>2. c.who = item.owner
      BY <2>1, <3>1 DEF Work!Current
    <3> HIDE DEF next
    <3>3. /\ new \in Work!ItemRecords /\ new.owner = next.owner /\ new.pending = Nobody
          /\ new.version = next.version
      BY <2>2, <3>1 DEF Work!ItemRecords
    <3> QED
      BY <2>2, <3>1, <3>2, <3>3 DEF Work!Involved
  <2>6. CASE new \in Work!Moved(item, c)
    <3>1. PICK m \in Work!Moves : /\ <<c.kind, item.state, item.pending>> = <<m[1], m[2], Nobody>>
                              /\ new = [next EXCEPT !.state = m[3]]
      BY <2>6 DEF Work!Moved
    <3>2. /\ c.kind \in {"BLOCK", "RESUME", "RESOLVE"} /\ item.state \in {"OPEN", "BLOCKED"}
          /\ item.pending = Nobody /\ m[3] \in {"OPEN", "BLOCKED", "RESOLVED"}
      BY <3>1 DEF Work!Moves
    <3>3. c.who = item.owner
      BY <2>1, <3>2 DEF Work!Current
    <3> HIDE DEF next
    <3>4. /\ new \in Work!ItemRecords /\ new.owner = next.owner /\ new.pending = next.pending
          /\ new.version = next.version
      BY <2>2, <3>1, <3>2 DEF Work!ItemRecords
    <3> QED
      BY <2>2, <3>2, <3>3, <3>4 DEF Work!Involved
  <2> QED
    BY <2>1, <2>3, <2>4, <2>5, <2>6
<1> QED
  BY <1>1, <1>2

\* A history to which a commit is added that follows from the last one.
LEMMA ConsentGoesOn ==
  ASSUME NEW h \in Seq(Entries), NEW e \in Entries, Work!Consented(h),
         NEW b, h # <<>> => b = h[Len(h)],
         h # <<>> => /\ e.item.version = b.item.version + 1
                     /\ b.item.state # "RESOLVED"
                     /\ e.item.owner # b.item.owner =>
                          Offering(b) /\ b.item.pending = e.item.owner
  PROVE  /\ Work!Consented(Append(h, e))
         /\ Append(h, e) \in Seq(Entries) /\ Append(h, e) # <<>>
         /\ Append(h, e)[Len(Append(h, e))] = e
<1> DEFINE g == Append(h, e)
<1>1. /\ g \in Seq(Entries) /\ Len(g) = Len(h) + 1 /\ Len(h) \in Nat
      /\ g[Len(h) + 1] = e
      /\ \A i \in 1..Len(h) : g[i] = h[i]
  BY AppendProperties, LenProperties
<1>2. g # <<>> /\ g[Len(g)] = e
  BY <1>1, EmptySeq
<1> HIDE DEF g
<1>3. ASSUME NEW i \in 2..Len(g)
      PROVE  LET before == g[i-1].item  after == g[i].item IN
             /\ after.version = before.version + 1
             /\ before.state # "RESOLVED"
             /\ after.owner # before.owner =>
                  /\ g[i-1].command.kind = "OFFER"
                  /\ g[i-1].command.who = before.owner
                  /\ g[i-1].command.recipient = after.owner
  <2>1. CASE i <= Len(h)
    <3>1. i \in 2..Len(h) /\ i - 1 \in 1..Len(h) /\ g[i] = h[i] /\ g[i-1] = h[i-1]
      BY <1>1, <2>1
    <3> QED
      BY <3>1 DEF Work!Consented
  <2>2. CASE ~(i <= Len(h))
    <3>1. i = Len(h) + 1 /\ i - 1 = Len(h) /\ Len(h) \in 1..Len(h)
      BY <1>1, <2>2
    <3>2. g[i] = e /\ h # <<>> /\ g[i-1] = b
      BY <1>1, <3>1, EmptySeq
    <3> QED
      BY <3>2 DEF Offering
  <2> QED
    BY <2>1, <2>2
<1>4. Work!Consented(g)
  BY <1>3 DEF Work!Consented
<1> QED
  BY <1>1, <1>2, <1>4 DEF g

\* What an accepted command commits.
LEMMA AcceptCommits ==
  ASSUME WorkSafe, NEW x \in Callers, Work!Accept(x)
  PROVE  \E c \in Work!Commands, new \in Work!ItemRecords :
           /\ c = waiting[x] /\ c # Work!NoCommand
           /\ new \in Work!Evolved(items[c.item], c)
           /\ receipts[Work!Scope(c)] = NoReceipt
           /\ items' = [items EXCEPT ![c.item] = new]
           /\ receipts' = [receipts EXCEPT ![Work!Scope(c)] = [command |-> c, version |-> new.version]]
           /\ log' = [log EXCEPT ![c.item] = Append(@, [command |-> c, item |-> new])]
           /\ \/ /\ waiting' = [waiting EXCEPT ![x] = Work!NoCommand]
                 /\ answers' = [answers EXCEPT ![x] = [outcome |-> "accepted",
                                                       version |-> new.version]]
              \/ waiting' = [waiting EXCEPT ![x] = Work!NoCommand] /\ UNCHANGED answers
           /\ UNCHANGED <<received, due, members>>
<1>1. PICK c : c = waiting[x]
  OBVIOUS
<1>2. c # Work!NoCommand
  BY <1>1 DEF Work!Accept, Work!Locked
<1>3. c \in Work!Commands
  BY <1>1, <1>2 DEF WorkSafe, WorkTyped
<1>4. PICK new \in Work!Evolved(items[c.item], c) :
        /\ items' = [items EXCEPT ![c.item] = new]
        /\ receipts' = [receipts EXCEPT ![Work!Scope(c)] = [command |-> c, version |-> new.version]]
        /\ log' = [log EXCEPT ![c.item] = Append(@, [command |-> c, item |-> new])]
        /\ \/ Work!Answer(x, "accepted", new.version)
           \/ waiting' = [waiting EXCEPT ![x] = Work!NoCommand] /\ UNCHANGED answers
  BY <1>1 DEF Work!Accept
<1>5. items[c.item] \in Work!ItemRecords \cup {NoItem}
  BY <1>3, CommandHolds DEF WorkSafe, ItemsSafe
<1>6. new \in Work!ItemRecords
  BY <1>3, <1>4, <1>5, EvolvedHolds
<1>7. receipts[Work!Scope(c)] = NoReceipt /\ UNCHANGED <<received, due, members>>
  BY <1>1 DEF Work!Accept
<1> QED
  BY <1>1, <1>2, <1>3, <1>4, <1>6, <1>7 DEF Work!Answer

LEMMA AcceptKeeps ==
  ASSUME WorkSafe, NEW x \in Callers, Work!Accept(x) PROVE WorkSafe'
<1>1. PICK c \in Work!Commands, new \in Work!ItemRecords :
           /\ c = waiting[x] /\ c # Work!NoCommand
           /\ new \in Work!Evolved(items[c.item], c)
           /\ receipts[Work!Scope(c)] = NoReceipt
           /\ items' = [items EXCEPT ![c.item] = new]
           /\ receipts' = [receipts EXCEPT ![Work!Scope(c)] = [command |-> c, version |-> new.version]]
           /\ log' = [log EXCEPT ![c.item] = Append(@, [command |-> c, item |-> new])]
           /\ \/ /\ waiting' = [waiting EXCEPT ![x] = Work!NoCommand]
                 /\ answers' = [answers EXCEPT ![x] = [outcome |-> "accepted",
                                                       version |-> new.version]]
              \/ waiting' = [waiting EXCEPT ![x] = Work!NoCommand] /\ UNCHANGED answers
           /\ UNCHANGED <<received, due, members>>
  BY AcceptCommits
<1>2. new.version \in Nat /\ new # NoItem
  BY ServiceAssumption DEF Work!ItemRecords
<1>3. c.item \in Items /\ Work!Scope(c) \in Principals \X Items \X Keys /\ Work!Scope(c)[2] = c.item
  BY CommandHolds
<1>4. waiting' = [waiting EXCEPT ![x] = Work!NoCommand]
  BY <1>1
<1>5. WorkTyped'
  <2>1. [command |-> c, version |-> new.version] \in Receipts
    BY <1>2 DEF Receipts
  <2>2. receipts' \in [Principals \X Items \X Keys -> Receipts \cup {NoReceipt}]
    BY <1>1, <1>3, <2>1 DEF WorkSafe, WorkTyped
  <2>3. waiting' \in [Callers -> Work!Commands \cup {Work!NoCommand}]
    BY <1>4 DEF WorkSafe, WorkTyped
  <2>4. answers' \in [Callers -> [outcome : {"none", "replayed", "conflict", "accepted", "refused"},
                                  version : Nat]]
    <3>1. \/ answers' = [answers EXCEPT ![x] = [outcome |-> "accepted", version |-> new.version]]
          \/ answers' = answers
      BY <1>1
    <3> QED
      BY <1>2, <3>1 DEF WorkSafe, WorkTyped
  <2> QED
    BY <2>2, <2>3, <2>4 DEF WorkTyped
<1>6. ItemsSafe'
  <2> DEFINE h == log[c.item]
             e == [command |-> c, item |-> new]
             b == h[Len(h)]
  <2>1. e \in Entries /\ e.item = new /\ e.command = c
    BY DEF Entries
  <2>2. /\ h \in Seq(Entries) /\ Work!Consented(h)
        /\ items[c.item] \in Work!ItemRecords \cup {NoItem}
        /\ items[c.item] = IF h = <<>> THEN NoItem ELSE b.item
        /\ items[c.item] # NoItem /\ items[c.item].pending # Nobody => Offering(b)
    BY <1>3 DEF WorkSafe, ItemsSafe
  <2>3. h # <<>> => items[c.item] # NoItem /\ items[c.item] = b.item
    <3> SUFFICES ASSUME h # <<>> PROVE b.item # NoItem
      BY <2>2
    <3>1. Len(h) \in 1..Len(h)
      BY <2>2, EmptySeq, LenProperties
    <3>2. b \in Entries
      BY <2>2, <3>1, ElementOfSeq
    <3> QED
      BY <3>2, ServiceAssumption DEF Entries
  <2>4. /\ items[c.item] # NoItem =>
              /\ new.version = items[c.item].version + 1
              /\ items[c.item].state # "RESOLVED"
              /\ new.owner # items[c.item].owner =>
                   items[c.item].pending = new.owner /\ items[c.item].pending # Nobody
        /\ new.pending # Nobody => Offering(e)
    BY <1>1, <2>2, EvolvedHolds
  <2>5. h # <<>> => /\ e.item.version = b.item.version + 1
                    /\ b.item.state # "RESOLVED"
                    /\ e.item.owner # b.item.owner =>
                         Offering(b) /\ b.item.pending = e.item.owner
    BY <2>1, <2>2, <2>3, <2>4
  <2>6. log' = [log EXCEPT ![c.item] = Append(h, e)]
    BY <1>1
  <2> HIDE DEF h, e, b
  <2>7. PICK last : last = b
    OBVIOUS
  <2>8. /\ Work!Consented(Append(h, e))
        /\ Append(h, e) \in Seq(Entries) /\ Append(h, e) # <<>>
        /\ Append(h, e)[Len(Append(h, e))] = e
    <3>1. h # <<>> => last = h[Len(h)]
      BY <2>7 DEF b
    <3> QED
      BY <2>1, <2>2, <2>5, <2>7, <3>1, ConsentGoesOn
  <2>9. PICK g : g = Append(h, e)
    OBVIOUS
  <2>10. log' = [log EXCEPT ![c.item] = g] /\ items' = [items EXCEPT ![c.item] = new]
    BY <1>1, <2>6, <2>9
  <2>11. Work!Consented(g) /\ g \in Seq(Entries) /\ g # <<>> /\ g[Len(g)] = e
    BY <2>8, <2>9
  <2>12. /\ log' \in [Items -> Seq(Entries)] /\ items' \in [Items -> Work!ItemRecords \cup {NoItem}]
         /\ log'[c.item] = g /\ items'[c.item] = new
         /\ \A w \in Items \ {c.item} : log'[w] = log[w] /\ items'[w] = items[w]
    BY <1>3, <2>10, <2>11 DEF WorkSafe, ItemsSafe
  <2>13. ASSUME NEW w \in Items
         PROVE  /\ items'[w] = IF log'[w] = <<>> THEN NoItem ELSE log'[w][Len(log'[w])].item
                /\ Work!Consented(log'[w])
                /\ items'[w] # NoItem /\ items'[w].pending # Nobody =>
                     Offering(log'[w][Len(log'[w])])
    <3>1. CASE w = c.item
      BY <2>1, <2>4, <2>11, <2>12, <3>1
    <3>2. CASE w # c.item
      BY <2>12, <3>2 DEF WorkSafe, ItemsSafe
    <3> QED
      BY <3>1, <3>2
  <2> QED
    BY <2>12, <2>13 DEF ItemsSafe
<1>7. AskedSafe'
  <2>1. ASSUME NEW k \in Principals \X Items \X Keys, receipts'[k] # NoReceipt
        PROVE  items'[k[2]] # NoItem
    <3>1. k[2] \in Items
      OBVIOUS
    <3>2. CASE k[2] = c.item
      BY <1>1, <1>2, <1>3, <3>2 DEF WorkSafe, ItemsSafe
    <3>3. CASE k[2] # c.item
      <4>1. k # Work!Scope(c)
        BY <1>3, <3>3
      <4>2. receipts'[k] = receipts[k]
        BY <1>1, <4>1 DEF WorkSafe, WorkTyped
      <4>3. items'[k[2]] = items[k[2]]
        BY <1>1, <3>1, <3>3 DEF WorkSafe, ItemsSafe
      <4> QED
        BY <2>1, <4>2, <4>3 DEF WorkSafe, AskedSafe
    <3> QED
      BY <3>2, <3>3
  <2>2. \A y \in Callers : Work!FromIntake(waiting'[y]) => waiting'[y] = waiting[y]
    BY <1>4 DEF WorkSafe, WorkTyped, Work!FromIntake, Work!NoCommand
  <2> QED
    BY <1>1, <2>1, <2>2 DEF WorkSafe, AskedSafe
<1> QED
  BY <1>5, <1>6, <1>7 DEF WorkSafe

\* Whoever stops waiting, with or without an answer.
LEMMA StopsWaiting ==
  ASSUME WorkSafe, NEW x \in Callers, waiting' = [waiting EXCEPT ![x] = Work!NoCommand],
         answers' \in [Callers -> [outcome : {"none", "replayed", "conflict", "accepted", "refused"},
                                   version : Nat]],
         UNCHANGED <<received, items, receipts, log>>
  PROVE  WorkSafe'
<1>1. WorkTyped'
  BY DEF WorkSafe, WorkTyped
<1>2. \A y \in Callers : Work!FromIntake(waiting'[y]) => waiting'[y] = waiting[y]
  BY DEF WorkSafe, WorkTyped, Work!FromIntake, Work!NoCommand
<1> QED
  BY <1>1, <1>2 DEF WorkSafe, ItemsSafe, AskedSafe

LEMMA WorkStepKeeps == WorkSafe /\ [Work!WorkNext]_(Work!workVars) => WorkSafe'
<1> SUFFICES ASSUME WorkSafe, [Work!WorkNext]_(Work!workVars) PROVE WorkSafe'
  OBVIOUS
<1>1. ASSUME NEW x \in Callers, NEW c \in Work!Commands, Work!Ask(x, c) PROVE WorkSafe'
  <2>1. /\ waiting' = [waiting EXCEPT ![x] = c]
        /\ answers' = [answers EXCEPT ![x] = [outcome |-> "none", version |-> 0]]
        /\ Work!FromIntake(c) => c.item \in received
        /\ UNCHANGED <<received, items, receipts, log>>
    BY <1>1 DEF Work!Ask, Work!HandedOver, Work!Received, Work!Unanswered
  <2>2. WorkTyped'
    BY <2>1 DEF WorkSafe, WorkTyped
  <2>3. \A y \in Callers : waiting'[y] = IF y = x THEN c ELSE waiting[y]
    BY <2>1 DEF WorkSafe, WorkTyped
  <2> QED
    BY <2>1, <2>2, <2>3 DEF WorkSafe, ItemsSafe, AskedSafe
<1>2. ASSUME NEW x \in Callers, Work!Replay(x) PROVE WorkSafe'
  <2>1. PICK c : c = waiting[x]
    OBVIOUS
  <2>2. PICK r : r = receipts[Work!Scope(c)]
    OBVIOUS
  <2>3. /\ c # Work!NoCommand /\ r # NoReceipt
        /\ \/ Work!Answer(x, "replayed", r.version) \/ Work!Answer(x, "conflict", 0)
        /\ UNCHANGED <<received, items, receipts, log>>
    BY <1>2, <2>1, <2>2 DEF Work!Replay, Work!Locked
  <2>4. c \in Work!Commands
    BY <2>1, <2>3 DEF WorkSafe, WorkTyped
  <2>5. r.version \in Nat
    BY <2>2, <2>3, <2>4, CommandHolds DEF WorkSafe, WorkTyped, Receipts
  <2>6. /\ waiting' = [waiting EXCEPT ![x] = Work!NoCommand]
        /\ answers' \in [Callers -> [outcome : {"none", "replayed", "conflict", "accepted", "refused"},
                                     version : Nat]]
    BY <2>3, <2>5 DEF Work!Answer, WorkSafe, WorkTyped
  <2> QED
    BY <2>3, <2>6, StopsWaiting
<1>3. ASSUME NEW x \in Callers, Work!Refuse(x) PROVE WorkSafe'
  <2>1. Work!Answer(x, "refused", 0) /\ UNCHANGED <<received, items, receipts, log>>
    BY <1>3 DEF Work!Refuse
  <2>2. /\ waiting' = [waiting EXCEPT ![x] = Work!NoCommand]
        /\ answers' \in [Callers -> [outcome : {"none", "replayed", "conflict", "accepted", "refused"},
                                     version : Nat]]
    BY <2>1 DEF Work!Answer, WorkSafe, WorkTyped
  <2> QED
    BY <2>1, <2>2, StopsWaiting
<1>4. ASSUME NEW x \in Callers, Work!Lapse(x) PROVE WorkSafe'
  <2>1. waiting' = [waiting EXCEPT ![x] = Work!NoCommand] /\ answers' = answers
        /\ UNCHANGED <<received, items, receipts, log>>
    BY <1>4 DEF Work!Lapse
  <2> QED
    BY <2>1, StopsWaiting DEF WorkSafe, WorkTyped
<1>5. ASSUME UNCHANGED <<items, receipts, waiting, answers, log>>, received \subseteq received'
      PROVE  WorkSafe'
  BY <1>5 DEF WorkSafe, WorkTyped, ItemsSafe, AskedSafe
<1>6. ASSUME NEW w \in Items, Work!IntakeReceived(w) \/ Work!DeadlineNears(w) PROVE WorkSafe'
  BY <1>5, <1>6 DEF Work!IntakeReceived, Work!DeadlineNears
<1>7. ASSUME NEW m \in Principals, Work!MembersChange(m) PROVE WorkSafe'
  BY <1>5, <1>7 DEF Work!MembersChange
<1>8. CASE UNCHANGED Work!workVars
  BY <1>5, <1>8 DEF Work!workVars
<1> QED
  BY <1>1, <1>2, <1>3, <1>4, <1>6, <1>7, <1>8, AcceptKeeps DEF Work!WorkNext

\* An item changes hands only to whom its owner was offering it, and its commits
\* make its versions one by one, whoever's commands, retries and lost answers
\* there are.
THEOREM ItemsPassByConsent == Work!WorkSpec => []OwnershipByConsent
<1>1. WorkSafe => OwnershipByConsent
  BY DEF WorkSafe, ItemsSafe, OwnershipByConsent, Work!OwnershipByConsent, Work!Last
<1> QED
  BY <1>1, WorkStarts, WorkStepKeeps, PTL DEF Work!WorkSpec

\* A retry is told the version its command was accepted at, and who is involved
\* no more is told nothing.
THEOREM RetriesToldTheSame == Work!WorkSpec => RetriesAnswered
<1>1. WorkSafe /\ [Work!WorkNext]_(Work!workVars) =>
        [\A x \in Callers :
           answers[x].outcome = "none" /\ answers'[x].outcome # "none" =>
             LET c == waiting[x]  r == receipts[Work!Scope(c)] IN
             /\ r # NoReceipt /\ r.command = c /\ c.who \in Work!Involved(items[c.item]) =>
                  answers'[x] = [outcome |-> "replayed", version |-> r.version]
             /\ answers'[x].outcome # "refused" => c.who \in Work!Involved(items'[c.item])]_(Work!workVars)
  <2> SUFFICES ASSUME WorkSafe, Work!WorkNext, NEW x \in Callers,
                      answers[x].outcome = "none", answers'[x].outcome # "none",
                      NEW c, c = waiting[x], NEW r, r = receipts[Work!Scope(c)]
               PROVE  /\ r # NoReceipt /\ r.command = c /\ c.who \in Work!Involved(items[c.item]) =>
                           answers'[x] = [outcome |-> "replayed", version |-> r.version]
                      /\ answers'[x].outcome # "refused" => c.who \in Work!Involved(items'[c.item])
    OBVIOUS
  <2>0. answers \in [Callers -> [outcome : {"none", "replayed", "conflict", "accepted", "refused"},
                                 version : Nat]]
    BY DEF WorkSafe, WorkTyped
  <2>1. ~UNCHANGED answers
    OBVIOUS
  <2>2. \A y \in Callers : \A outcome, version : Work!Answer(y, outcome, version) =>
          y = x /\ answers'[x] = [outcome |-> outcome, version |-> version]
    BY <2>0 DEF Work!Answer
  <2>3. CASE Work!Replay(x)
    <3>1. /\ c # Work!NoCommand /\ r # NoReceipt /\ Work!Knows(c) /\ items' = items
          /\ IF r.command = c THEN Work!Answer(x, "replayed", r.version) ELSE Work!Answer(x, "conflict", 0)
      BY <2>3 DEF Work!Replay, Work!Locked
    <3>2. c \in Work!Commands
      BY <3>1 DEF WorkSafe, WorkTyped
    <3>3. items[c.item] # NoItem
      BY <3>1, <3>2, CommandHolds DEF WorkSafe, AskedSafe
    <3> QED
      BY <2>2, <3>1, <3>3 DEF Work!Knows
  <2>4. CASE Work!Accept(x)
    <3>1. PICK d \in Work!Commands, new \in Work!ItemRecords :
            /\ d = waiting[x] /\ d # Work!NoCommand
            /\ new \in Work!Evolved(items[d.item], d)
            /\ receipts[Work!Scope(d)] = NoReceipt
            /\ items' = [items EXCEPT ![d.item] = new]
            /\ receipts' = [receipts EXCEPT ![Work!Scope(d)] = [command |-> d, version |-> new.version]]
            /\ log' = [log EXCEPT ![d.item] = Append(@, [command |-> d, item |-> new])]
            /\ \/ /\ waiting' = [waiting EXCEPT ![x] = Work!NoCommand]
                  /\ answers' = [answers EXCEPT ![x] = [outcome |-> "accepted",
                                                        version |-> new.version]]
               \/ waiting' = [waiting EXCEPT ![x] = Work!NoCommand] /\ UNCHANGED answers
            /\ UNCHANGED <<received, due, members>>
      BY <2>4, AcceptCommits
    <3>2. c \in Work!Commands /\ c.item \in Items /\ r = NoReceipt
      BY <3>1, CommandHolds
    <3>3. items[c.item] \in Work!ItemRecords \cup {NoItem}
      BY <3>2 DEF WorkSafe, ItemsSafe
    <3>4. c.who \in Work!Involved(new)
      BY <3>1, <3>2, <3>3, EvolvedHolds
    <3>5. items'[c.item] = new
      BY <3>1, <3>2 DEF WorkSafe, ItemsSafe
    <3> QED
      BY <3>2, <3>4, <3>5 DEF Work!Involved
  <2>5. CASE Work!Refuse(x)
    <3>1. /\ c # Work!NoCommand /\ Work!Answer(x, "refused", 0)
          /\ ~Work!Admitted(c) \/ ~Work!Knows(c) \/ r = NoReceipt
      BY <2>5 DEF Work!Refuse
    <3>2. Work!Admitted(c)
      BY DEF WorkSafe, AskedSafe, Work!Admitted, Work!Received
    <3>3. answers'[x] = [outcome |-> "refused", version |-> 0]
      BY <2>2, <3>1
    <3>4. r # NoReceipt => c.who \notin Work!Involved(items[c.item])
      BY <3>1, <3>2 DEF Work!Knows
    <3> QED
      BY <3>3, <3>4
  <2>6. ASSUME NEW y \in Callers, y # x PROVE ~(Work!Replay(y) \/ Work!Accept(y) \/ Work!Refuse(y))
    BY <2>0, <2>1, <2>2, <2>6 DEF Work!Replay, Work!Accept, Work!Refuse
  <2>7. ASSUME NEW y \in Callers, NEW d \in Work!Commands, Work!Ask(y, d) PROVE FALSE
    BY <2>0, <2>7 DEF Work!Ask, Work!Unanswered
  <2>8. \A y \in Callers : ~Work!Lapse(y)
    BY <2>1 DEF Work!Lapse
  <2>9. \A w \in Items : ~Work!IntakeReceived(w) /\ ~Work!DeadlineNears(w)
    BY <2>1 DEF Work!IntakeReceived, Work!DeadlineNears
  <2>10. \A m \in Principals : ~Work!MembersChange(m)
    BY <2>1 DEF Work!MembersChange
  <2> QED
    BY <2>3, <2>4, <2>5, <2>6, <2>7, <2>8, <2>9, <2>10 DEF Work!WorkNext
<1> QED
  BY <1>1, WorkStarts, WorkStepKeeps, PTL
  DEF Work!WorkSpec, RetriesAnswered, Work!RetriesAnswered
-----------------------------------------------------------------------------
(* The fan-out of lifecycle events.                                        *)

UnderWay == [step : {"communicate", "measure"}, event : Events, digest : Digests]

\* A communication that is kept and not yet measured, of this event and digest.
Unmeasured(e, g) == IF measured[e] = Nothing /\ communicated[e] = g THEN 1 ELSE 0

\* The history and the fakes agree: what a process sent it still holds, what it
\* holds unmeasured it sent once more than it recorded, and who measures has
\* communicated the same.
FanoutSafe ==
  /\ communicated \in [Events -> Digests \cup {Nothing}]
  /\ measured \in [Events -> Digests \cup {Nothing}]
  /\ deliveries \in [Workers -> UnderWay \cup {Fanout!AtRest}]
  /\ restarts \in Nat
  /\ sent \in [Events \X Digests -> Nat]
  /\ recorded \in [Events \X Digests -> Nat]
  /\ \A e \in Events, g \in Digests :
       /\ sent[<<e, g>>] <= restarts + (IF communicated[e] = g THEN 1 ELSE 0)
       /\ recorded[<<e, g>>] + Unmeasured(e, g) <= sent[<<e, g>>]
       /\ measured[e] = g => recorded[<<e, g>>] > 0
  /\ \A e \in Events : measured[e] \in {Nothing, communicated[e]}
  /\ \A w \in Workers : deliveries[w].step = "measure" =>
       communicated[deliveries[w].event] = deliveries[w].digest
  /\ confirmed \subseteq Events \X Digests
  /\ \A p \in confirmed : recorded[p] > 0

LEMMA FanoutStarts == Fanout!FanoutInit => FanoutSafe
<1> SUFFICES ASSUME Fanout!FanoutInit PROVE FanoutSafe
  OBVIOUS
<1>1. /\ communicated = [e \in Events |-> Nothing] /\ measured = [e \in Events |-> Nothing]
      /\ deliveries = [w \in Workers |-> Fanout!AtRest] /\ restarts = 0
      /\ sent = [p \in Events \X Digests |-> 0] /\ recorded = [p \in Events \X Digests |-> 0]
      /\ confirmed = {}
  BY DEF Fanout!FanoutInit
<1>2. \A w \in Workers : deliveries[w].step # "measure"
  BY <1>1 DEF Fanout!AtRest
<1>3. \A e \in Events, g \in Digests :
        /\ sent[<<e, g>>] = 0 /\ recorded[<<e, g>>] = 0
        /\ communicated[e] # g /\ measured[e] # g
  BY <1>1, ServiceAssumption
<1> QED
  BY <1>1, <1>2, <1>3 DEF FanoutSafe, Unmeasured

\* A worker whose delivery begins or ends, with no effect.
LEMMA DeliveryMovesKeep ==
  ASSUME FanoutSafe, NEW w \in Workers, NEW d \in UnderWay \cup {Fanout!AtRest}, d.step # "measure",
         deliveries' = [deliveries EXCEPT ![w] = d],
         UNCHANGED <<communicated, measured, restarts, sent, recorded, confirmed>>
  PROVE  FanoutSafe'
<1>1. /\ deliveries' \in [Workers -> UnderWay \cup {Fanout!AtRest}]
      /\ deliveries'[w] = d
      /\ \A v \in Workers \ {w} : deliveries'[v] = deliveries[v]
  BY DEF FanoutSafe
<1>2. \A v \in Workers : deliveries'[v].step = "measure" =>
        communicated'[deliveries'[v].event] = deliveries'[v].digest
  BY <1>1 DEF FanoutSafe
<1>3. \A e, g : Unmeasured(e, g)' = Unmeasured(e, g)
  BY DEF Unmeasured
<1> QED
  BY <1>1, <1>2, <1>3 DEF FanoutSafe

LEMMA CommunicateKeeps ==
  ASSUME FanoutSafe, NEW w \in Workers, Fanout!Communicate(w) PROVE FanoutSafe'
<1>1. deliveries[w].step = "communicate"
  BY DEF Fanout!Communicate, Fanout!Does
<1>2. deliveries[w] \in UnderWay
  BY <1>1 DEF FanoutSafe, Fanout!AtRest
<1>3. PICK e \in Events, g \in Digests : deliveries[w].event = e /\ deliveries[w].digest = g
  BY <1>2 DEF UnderWay
<1>4. /\ communicated[e] \in {Nothing, g}
      /\ communicated' = [communicated EXCEPT ![e] = g]
      /\ sent' = IF communicated[e] = Nothing THEN [sent EXCEPT ![<<e, g>>] = @ + 1] ELSE sent
      /\ deliveries' = [deliveries EXCEPT ![w].step = "measure"]
      /\ UNCHANGED <<measured, restarts, recorded, confirmed>>
  BY <1>3 DEF Fanout!Communicate, Fanout!Agrees, Fanout!Kept, Fanout!Count, Fanout!Subject
<1>5. /\ communicated' \in [Events -> Digests \cup {Nothing}]
      /\ communicated'[e] = g
      /\ \A f \in Events \ {e} : communicated'[f] = communicated[f]
  BY <1>4 DEF FanoutSafe
<1>6. /\ sent' \in [Events \X Digests -> Nat]
      /\ sent'[<<e, g>>] = sent[<<e, g>>] + (IF communicated[e] = Nothing THEN 1 ELSE 0)
      /\ \A p \in Events \X Digests : p # <<e, g>> => sent'[p] = sent[p]
  BY <1>4 DEF FanoutSafe
<1>7. /\ deliveries' \in [Workers -> UnderWay \cup {Fanout!AtRest}]
      /\ deliveries'[w].event = e /\ deliveries'[w].digest = g
      /\ \A v \in Workers \ {w} : deliveries'[v] = deliveries[v]
  BY <1>2, <1>3, <1>4 DEF FanoutSafe, UnderWay
<1>8. g # Nothing
  BY ServiceAssumption
<1>9. \A v \in Workers : deliveries'[v].step = "measure" =>
        communicated'[deliveries'[v].event] = deliveries'[v].digest
  <2> SUFFICES ASSUME NEW v \in Workers \ {w}, deliveries[v].step = "measure"
               PROVE  communicated'[deliveries[v].event] = deliveries[v].digest
    BY <1>5, <1>7
  <2>1. deliveries[v] \in UnderWay
    BY DEF FanoutSafe, Fanout!AtRest
  <2>2. PICK f \in Events, h \in Digests : deliveries[v].event = f /\ deliveries[v].digest = h
    BY <2>1 DEF UnderWay
  <2>3. communicated[f] = h
    BY <2>2 DEF FanoutSafe
  <2>4. h # Nothing
    BY ServiceAssumption
  <2> QED
    BY <1>4, <1>5, <2>2, <2>3, <2>4
<1>10. \A f \in Events : measured[f] \in {Nothing, communicated'[f]}
  BY <1>4, <1>5 DEF FanoutSafe
<1>11. ASSUME NEW f \in Events, NEW h \in Digests
       PROVE  /\ sent'[<<f, h>>] <= restarts + (IF communicated'[f] = h THEN 1 ELSE 0)
              /\ recorded[<<f, h>>] + Unmeasured(f, h)' <= sent'[<<f, h>>]
  <2>0. /\ sent[<<f, h>>] \in Nat /\ recorded[<<f, h>>] \in Nat /\ restarts \in Nat
        /\ sent[<<f, h>>] <= restarts + (IF communicated[f] = h THEN 1 ELSE 0)
        /\ recorded[<<f, h>>] + Unmeasured(f, h) <= sent[<<f, h>>]
        /\ h # Nothing
    BY ServiceAssumption DEF FanoutSafe
  <2>1. CASE f = e /\ h = g
    <3>1. CASE communicated[e] = Nothing
      BY <1>4, <1>5, <1>6, <1>8, <2>0, <2>1, <3>1 DEF Unmeasured
    <3>2. CASE communicated[e] = g
      BY <1>4, <1>5, <1>6, <1>8, <2>0, <2>1, <3>2 DEF Unmeasured
    <3> QED
      BY <1>4, <3>1, <3>2
  <2>2. CASE f = e /\ h # g
    <3>1. sent'[<<f, h>>] = sent[<<f, h>>]
      BY <1>6, <2>2
    <3> QED
      BY <1>4, <1>5, <2>0, <2>2, <3>1 DEF Unmeasured
  <2>3. CASE f # e
    <3>1. sent'[<<f, h>>] = sent[<<f, h>>]
      BY <1>6, <2>3
    <3> QED
      BY <1>4, <1>5, <2>0, <2>3, <3>1 DEF Unmeasured
  <2> QED
    BY <2>1, <2>2, <2>3
<1>12. /\ communicated' \in [Events -> Digests \cup {Nothing}]
       /\ measured' \in [Events -> Digests \cup {Nothing}]
       /\ deliveries' \in [Workers -> UnderWay \cup {Fanout!AtRest}]
       /\ restarts' \in Nat
       /\ sent' \in [Events \X Digests -> Nat]
       /\ recorded' \in [Events \X Digests -> Nat]
  BY <1>4, <1>5, <1>6, <1>7 DEF FanoutSafe
<1>13. \A f \in Events, h \in Digests :
         /\ sent'[<<f, h>>] <= restarts' + (IF communicated'[f] = h THEN 1 ELSE 0)
         /\ recorded'[<<f, h>>] + Unmeasured(f, h)' <= sent'[<<f, h>>]
         /\ measured'[f] = h => recorded'[<<f, h>>] > 0
  BY <1>4, <1>11 DEF FanoutSafe
<1>14. /\ \A f \in Events : measured'[f] \in {Nothing, communicated'[f]}
       /\ confirmed' \subseteq Events \X Digests
       /\ \A p \in confirmed' : recorded'[p] > 0
  BY <1>4, <1>10 DEF FanoutSafe
<1> QED
  BY <1>9, <1>12, <1>13, <1>14 DEF FanoutSafe

LEMMA MeasureKeeps ==
  ASSUME FanoutSafe, NEW w \in Workers, Fanout!Measure(w) PROVE FanoutSafe'
<1>1. deliveries[w].step = "measure"
  BY DEF Fanout!Measure, Fanout!Does
<1>2. deliveries[w] \in UnderWay
  BY <1>1 DEF FanoutSafe, Fanout!AtRest
<1>3. PICK e \in Events, g \in Digests : deliveries[w].event = e /\ deliveries[w].digest = g
  BY <1>2 DEF UnderWay
<1>4. /\ measured[e] \in {Nothing, g}
      /\ measured' = [measured EXCEPT ![e] = g]
      /\ recorded' = IF measured[e] = Nothing THEN [recorded EXCEPT ![<<e, g>>] = @ + 1] ELSE recorded
      /\ confirmed' = confirmed \cup {<<e, g>>}
      /\ deliveries' = [deliveries EXCEPT ![w] = Fanout!AtRest]
      /\ UNCHANGED <<communicated, restarts, sent>>
  BY <1>3 DEF Fanout!Measure, Fanout!Agrees, Fanout!Kept, Fanout!Count, Fanout!Subject
<1>5. /\ measured' \in [Events -> Digests \cup {Nothing}]
      /\ measured'[e] = g
      /\ \A f \in Events \ {e} : measured'[f] = measured[f]
  BY <1>4 DEF FanoutSafe
<1>6. /\ recorded' \in [Events \X Digests -> Nat]
      /\ recorded'[<<e, g>>] = recorded[<<e, g>>] + (IF measured[e] = Nothing THEN 1 ELSE 0)
      /\ \A p \in Events \X Digests : p # <<e, g>> => recorded'[p] = recorded[p]
  BY <1>4 DEF FanoutSafe
<1>7. /\ deliveries' \in [Workers -> UnderWay \cup {Fanout!AtRest}]
      /\ deliveries'[w] = Fanout!AtRest
      /\ \A v \in Workers \ {w} : deliveries'[v] = deliveries[v]
  BY <1>4 DEF FanoutSafe
<1>8. communicated[e] = g /\ g # Nothing
  BY <1>1, <1>3, ServiceAssumption DEF FanoutSafe
<1>9. \A v \in Workers : deliveries'[v].step = "measure" =>
        communicated'[deliveries'[v].event] = deliveries'[v].digest
  BY <1>4, <1>7 DEF FanoutSafe, Fanout!AtRest
<1>10. \A f \in Events : measured'[f] \in {Nothing, communicated[f]}
  BY <1>5, <1>8 DEF FanoutSafe
<1>11. ASSUME NEW f \in Events, NEW h \in Digests
       PROVE  /\ recorded'[<<f, h>>] + Unmeasured(f, h)' <= sent[<<f, h>>]
              /\ measured'[f] = h => recorded'[<<f, h>>] > 0
  <2>0. /\ sent[<<f, h>>] \in Nat /\ recorded[<<f, h>>] \in Nat
        /\ recorded[<<f, h>>] + Unmeasured(f, h) <= sent[<<f, h>>]
        /\ measured[f] = h => recorded[<<f, h>>] > 0
    BY DEF FanoutSafe
  <2>1. CASE f = e /\ h = g
    <3>1. CASE measured[e] = Nothing
      BY <1>4, <1>5, <1>6, <1>8, <2>0, <2>1, <3>1 DEF Unmeasured
    <3>2. CASE measured[e] = g
      BY <1>4, <1>5, <1>6, <1>8, <2>0, <2>1, <3>2 DEF Unmeasured
    <3> QED
      BY <1>4, <3>1, <3>2
  <2>2. CASE f = e /\ h # g
    <3>1. recorded'[<<f, h>>] = recorded[<<f, h>>]
      BY <1>6, <2>2
    <3> QED
      BY <1>4, <1>5, <1>8, <2>0, <2>2, <3>1 DEF Unmeasured
  <2>3. CASE f # e
    <3>1. recorded'[<<f, h>>] = recorded[<<f, h>>]
      BY <1>6, <2>3
    <3> QED
      BY <1>4, <1>5, <2>0, <2>3, <3>1 DEF Unmeasured
  <2> QED
    BY <2>1, <2>2, <2>3
<1>12. confirmed' \subseteq Events \X Digests /\ \A p \in confirmed' : recorded'[p] > 0
  <2>1. recorded'[<<e, g>>] > 0
    BY <1>5, <1>11
  <2>2. ASSUME NEW p \in confirmed PROVE p \in Events \X Digests /\ recorded'[p] > 0
    BY <1>6, <2>1 DEF FanoutSafe
  <2> QED
    BY <1>4, <2>1, <2>2
<1>13. \A f \in Events, h \in Digests :
         sent[<<f, h>>] <= restarts + (IF communicated[f] = h THEN 1 ELSE 0)
  BY DEF FanoutSafe
<1>14. \A f \in Events, h \in Digests :
         /\ sent'[<<f, h>>] <= restarts' + (IF communicated'[f] = h THEN 1 ELSE 0)
         /\ recorded'[<<f, h>>] + Unmeasured(f, h)' <= sent'[<<f, h>>]
         /\ measured'[f] = h => recorded'[<<f, h>>] > 0
  BY <1>4, <1>11, <1>13
<1>15. /\ communicated' \in [Events -> Digests \cup {Nothing}]
       /\ restarts' \in Nat /\ sent' \in [Events \X Digests -> Nat]
       /\ \A f \in Events : measured'[f] \in {Nothing, communicated'[f]}
  BY <1>4, <1>10 DEF FanoutSafe
<1> QED
  BY <1>5, <1>6, <1>7, <1>9, <1>12, <1>14, <1>15 DEF FanoutSafe

\* Every step keeps the invariant.
LEMMA FanoutStepKeeps == FanoutSafe /\ [Fanout!FanoutNext]_(Fanout!fanoutVars) => FanoutSafe'
<1> SUFFICES ASSUME FanoutSafe, [Fanout!FanoutNext]_(Fanout!fanoutVars) PROVE FanoutSafe'
  OBVIOUS
<1>1. ASSUME NEW w \in Workers, NEW e \in Events, NEW g \in Digests, Fanout!Preflight(w, e, g)
      PROVE  FanoutSafe'
  <2> DEFINE d == [step |-> "communicate", event |-> e, digest |-> g]
  <2>1. d \in UnderWay /\ d.step # "measure"
    BY DEF UnderWay
  <2>2. deliveries' = [deliveries EXCEPT ![w] = d]
    BY <1>1 DEF Fanout!Preflight
  <2>3. UNCHANGED <<communicated, measured, restarts, sent, recorded, confirmed>>
    BY <1>1 DEF Fanout!Preflight
  <2> HIDE DEF d
  <2> QED
    BY <2>1, <2>2, <2>3, DeliveryMovesKeep
<1>2. ASSUME NEW w \in Workers, Fanout!Abandon(w) PROVE FanoutSafe'
  <2>1. Fanout!AtRest.step # "measure"
    BY DEF Fanout!AtRest
  <2> QED
    BY <1>2, <2>1, DeliveryMovesKeep DEF Fanout!Abandon
<1>3. CASE Fanout!Restart
  <2>1. /\ restarts' = restarts + 1
        /\ communicated' = [e \in Events |-> Nothing] /\ measured' = [e \in Events |-> Nothing]
        /\ deliveries' = [w \in Workers |-> Fanout!AtRest]
        /\ UNCHANGED <<sent, recorded, confirmed>>
    BY <1>3 DEF Fanout!Restart
  <2>2. ASSUME NEW e \in Events, NEW g \in Digests
        PROVE  /\ sent[<<e, g>>] <= restarts' + (IF communicated'[e] = g THEN 1 ELSE 0)
               /\ recorded[<<e, g>>] + Unmeasured(e, g)' <= sent[<<e, g>>]
               /\ measured'[e] = g => recorded[<<e, g>>] > 0
    <3>1. /\ sent[<<e, g>>] \in Nat /\ recorded[<<e, g>>] \in Nat /\ restarts \in Nat
          /\ sent[<<e, g>>] <= restarts + (IF communicated[e] = g THEN 1 ELSE 0)
          /\ recorded[<<e, g>>] + Unmeasured(e, g) <= sent[<<e, g>>]
      BY DEF FanoutSafe
    <3>2. communicated'[e] # g /\ measured'[e] # g
      BY <2>1, ServiceAssumption
    <3> QED
      BY <2>1, <3>1, <3>2 DEF Unmeasured
  <2>3. \A w \in Workers : deliveries'[w].step # "measure"
    BY <2>1 DEF Fanout!AtRest
  <2> QED
    BY <2>1, <2>2, <2>3 DEF FanoutSafe
<1>4. CASE UNCHANGED Fanout!fanoutVars
  <2>1. \A e, g : Unmeasured(e, g)' = Unmeasured(e, g)
    BY <1>4 DEF Fanout!fanoutVars, Unmeasured
  <2> QED
    BY <1>4, <2>1 DEF Fanout!fanoutVars, FanoutSafe
<1> QED
  BY <1>1, <1>2, <1>3, <1>4, CommunicateKeeps, MeasureKeeps DEF Fanout!FanoutNext

\* No process gives a delivery more than one effect of a kind, nothing is
\* measured that was not communicated, and what is confirmed has had both.
THEOREM FanoutEffectsOnce == Fanout!FanoutSpec => []BothEffectsOnce
<1>1. FanoutSafe => BothEffectsOnce
  <2> SUFFICES ASSUME FanoutSafe PROVE BothEffectsOnce
    OBVIOUS
  <2>1. ASSUME NEW e \in Events, NEW g \in Digests
        PROVE  sent[<<e, g>>] <= restarts + 1 /\ recorded[<<e, g>>] <= sent[<<e, g>>]
    BY DEF FanoutSafe, Unmeasured
  <2>2. ASSUME NEW p \in confirmed PROVE sent[p] > 0 /\ recorded[p] > 0
    <3>1. PICK e \in Events, g \in Digests : p = <<e, g>>
      BY DEF FanoutSafe
    <3>2. recorded[p] > 0 /\ recorded[<<e, g>>] <= sent[<<e, g>>]
      BY <2>1 DEF FanoutSafe
    <3>3. recorded[<<e, g>>] \in Nat /\ sent[<<e, g>>] \in Nat
      BY DEF FanoutSafe
    <3> QED
      BY <3>1, <3>2, <3>3
  <2> QED
    BY <2>1, <2>2 DEF FanoutSafe, BothEffectsOnce, Fanout!BothEffectsOnce
<1> QED
  BY <1>1, FanoutStarts, FanoutStepKeeps, PTL DEF Fanout!FanoutSpec

-----------------------------------------------------------------------------
(* The run's own specification.                                            *)

\* Put side by side the parts behave as each does alone, so that whatever is
\* proved of a part above holds in MCToolsAndService.
THEOREM PartsBehaveAsAlone ==
  MCSpec => /\ Lease!Spec /\ Admission!Spec /\ Queue!Spec /\ Handoff!Spec /\ Token!Spec
            /\ Acquisition!AcquisitionSpec /\ Work!WorkSpec /\ Fanout!FanoutSpec
<1>1. MCInit => /\ Lease!Init /\ Admission!Init /\ Queue!Init /\ Handoff!Init /\ Token!Init
                /\ Acquisition!AcquisitionInit /\ Work!WorkInit /\ Fanout!FanoutInit
  BY DEF MCInit, Init, ServiceInit
<1>2. [MCNext]_<<vars, serviceVars>> => [Lease!Next]_(Lease!vars)
  BY DEF MCNext, Next, ServiceNext, LeaseStep, AdmissionStep, QueueStep, HandoffStep, TokenStep,
         vars, leaseVars, serviceVars, Lease!vars
<1>3. [MCNext]_<<vars, serviceVars>> => [Admission!Next]_(Admission!vars)
  BY DEF MCNext, Next, ServiceNext, LeaseStep, AdmissionStep, QueueStep, HandoffStep, TokenStep,
         vars, admissionVars, serviceVars, Admission!vars
<1>4. [MCNext]_<<vars, serviceVars>> => [Queue!Next]_(Queue!vars)
  BY DEF MCNext, Next, ServiceNext, LeaseStep, AdmissionStep, QueueStep, HandoffStep, TokenStep,
         vars, queueVars, serviceVars, Queue!vars
<1>5. [MCNext]_<<vars, serviceVars>> => [Handoff!Next]_(Handoff!vars)
  BY DEF MCNext, Next, ServiceNext, LeaseStep, AdmissionStep, QueueStep, HandoffStep, TokenStep,
         vars, handoffVars, serviceVars, Handoff!vars, Handoff!ledgers, Handoff!remote
<1>6. [MCNext]_<<vars, serviceVars>> => [Token!Next]_(Token!vars)
  BY DEF MCNext, Next, ServiceNext, LeaseStep, AdmissionStep, QueueStep, HandoffStep, TokenStep,
         vars, tokenVars, serviceVars, Token!vars
<1>7. [MCNext]_<<vars, serviceVars>> => [Acquisition!AcquisitionNext]_(Acquisition!acquisitionVars)
  BY DEF MCNext, ServiceNext, AcquisitionStep, WorkStep, FanoutStep, vars, serviceVars,
         acquisitionVars, Acquisition!acquisitionVars, Acquisition!tenantVars,
         Acquisition!historyVars
<1>8. [MCNext]_<<vars, serviceVars>> => [Work!WorkNext]_(Work!workVars)
  BY DEF MCNext, ServiceNext, AcquisitionStep, WorkStep, FanoutStep, vars, serviceVars,
         workVars, Work!workVars
<1>9. [MCNext]_<<vars, serviceVars>> => [Fanout!FanoutNext]_(Fanout!fanoutVars)
  BY DEF MCNext, ServiceNext, AcquisitionStep, WorkStep, FanoutStep, vars, serviceVars,
         fanoutVars, Fanout!fanoutVars
<1> QED
  BY <1>1, <1>2, <1>3, <1>4, <1>5, <1>6, <1>7, <1>8, <1>9, PTL
  DEF MCSpec, Lease!Spec, Admission!Spec, Queue!Spec, Handoff!Spec, Token!Spec,
      Acquisition!AcquisitionSpec, Work!WorkSpec, Fanout!FanoutSpec
=============================================================================
