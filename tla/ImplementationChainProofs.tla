----------------------- MODULE ImplementationChainProofs -----------------------
(***************************************************************************)
(* Proofs about ImplementationChain: the invariants that the run checks    *)
(* and the finality of every loss of authority.                            *)
(*                                                                         *)
(* The argument.  ChainMoves says what one step may do to each record of   *)
(* each store; every command is shown to be such a step, once.  The        *)
(* invariants and the action property are then proved from ChainMoves      *)
(* alone, so that they also hold where the chain is the upstream half of   *)
(* another specification (DeliveryChainProofs).                            *)
(***************************************************************************)
EXTENDS ImplementationChain, TLAPS

-----------------------------------------------------------------------------
(* Versioned records.                                                      *)

\* Mark a record as replaced.
Superseded(record) == [record EXCEPT !.state = "SUPERSEDED"]

\* Write a record at its place.
Written(store, id, v, record) == [store EXCEPT ![id][v] = record]

\* create_initial leaves one version of the identity, the new one.
LEMMA InitialRecord ==
    ASSUME NEW Ids, NEW R, NEW store \in [Ids -> Seq(R)], NEW id \in Ids, NEW r \in R
    PROVE  /\ Initial(store, id, r) \in [Ids -> Seq(R)]
           /\ Len(Initial(store, id, r)[id]) = 1 /\ Initial(store, id, r)[id][1] = r
           /\ \A o \in Ids \ {id} : Initial(store, id, r)[o] = store[o]
<1>1. <<r>> \in Seq(R) /\ Len(<<r>>) = 1 /\ <<r>>[1] = r
  OBVIOUS
<1> QED
  BY <1>1 DEF Initial

\* Appending adds one version and keeps every other.
LEMMA AddedRecord ==
    ASSUME NEW Ids, NEW R, NEW store \in [Ids -> Seq(R)], NEW id \in Ids, NEW r \in R,
           NEW new, new = [store EXCEPT ![id] = Append(@, r)]
    PROVE  /\ new \in [Ids -> Seq(R)]
           /\ Len(new[id]) = Len(store[id]) + 1
           /\ new[id][Len(store[id]) + 1] = r
           /\ \A v \in 1..Len(store[id]) : new[id][v] = store[id][v]
           /\ \A o \in Ids \ {id} : new[o] = store[o]
<1>1. /\ Append(store[id], r) \in Seq(R)
      /\ Len(Append(store[id], r)) = Len(store[id]) + 1
      /\ Append(store[id], r)[Len(store[id]) + 1] = r
      /\ \A v \in 1..Len(store[id]) : Append(store[id], r)[v] = store[id][v]
  OBVIOUS
<1> QED
  BY <1>1

\* revise marks the last version SUPERSEDED, adds one, and keeps every other.
LEMMA RevisedRecord ==
    ASSUME NEW Ids, NEW R, NEW store \in [Ids -> Seq(R)], NEW id \in Ids, store[id] # <<>>,
           NEW r \in R, Superseded(Latest(store, id)) \in R
    PROVE  /\ Revised(store, id, r) \in [Ids -> Seq(R)]
           /\ Len(Revised(store, id, r)[id]) = Len(store[id]) + 1
           /\ Revised(store, id, r)[id][Len(store[id]) + 1] = r
           /\ Revised(store, id, r)[id][Len(store[id])] = Superseded(Latest(store, id))
           /\ \A v \in 1..(Len(store[id]) - 1) : Revised(store, id, r)[id][v] = store[id][v]
           /\ \A o \in Ids \ {id} : Revised(store, id, r)[o] = store[o]
<1> DEFINE n == Len(store[id])
           last == Superseded(Latest(store, id))
           old == [store[id] EXCEPT ![n] = last]
<1>1. n \in 1..n /\ n \in Nat
  OBVIOUS
<1>2. [store[id] EXCEPT ![n].state = "SUPERSEDED"] = old
  BY DEF Latest, Superseded
<1>3. /\ old \in Seq(R) /\ Len(old) = n
      /\ \A u \in 1..n : old[u] = IF u = n THEN last ELSE store[id][u]
  BY <1>1
<1>4. Revised(store, id, r) = [store EXCEPT ![id] = Append(old, r)]
  BY <1>2 DEF Revised
<1> HIDE DEF old, last
<1>5. /\ Append(old, r) \in Seq(R) /\ Len(Append(old, r)) = n + 1
      /\ Append(old, r)[n + 1] = r
      /\ \A v \in 1..n : Append(old, r)[v] = old[v]
  BY <1>3
<1>6. Append(old, r)[n] = last /\ \A v \in 1..(n - 1) : Append(old, r)[v] = store[id][v]
  BY <1>1, <1>3, <1>5
<1>7. /\ Revised(store, id, r)[id] = Append(old, r)
      /\ Revised(store, id, r) \in [Ids -> Seq(R)]
      /\ \A o \in Ids \ {id} : Revised(store, id, r)[o] = store[o]
  BY <1>4, <1>5
<1> QED
  BY <1>5, <1>6, <1>7 DEF last

-----------------------------------------------------------------------------
(* What one write does to the record at a place of a store.                *)

\* The four things that one write does to the record at a place: it keeps it, and
\* nothing was added behind it; it changes it in place; it replaces it by a newer
\* version; it adds it.
Kept(old, new, id, v) ==
    /\ v \in 1..Len(old[id])
    /\ new[id][v] = old[id][v]
    /\ v = Len(old[id]) => Len(new[id]) = Len(old[id])

\* The record is written in place.
ChangedAt(old, new, id, v) == v \in 1..Len(old[id]) /\ Len(new[id]) = Len(old[id])

\* A newer version was added behind the record, which is marked.
ReplacedAt(old, new, id, v) ==
    /\ v \in 1..Len(old[id]) /\ v = Len(old[id])
    /\ Len(new[id]) = v + 1
    /\ new[id][v] = Superseded(old[id][v])

\* The record is the new version.
AddedAt(old, new, id, v) == v = Len(old[id]) + 1 /\ Len(new[id]) = v

\* A write adds at most one version.
Grows(old, new, id) == Len(new[id]) \in {Len(old[id]), Len(old[id]) + 1}

\* A store that is not written keeps every record.
LEMMA SameMoves ==
    ASSUME NEW Ids, NEW R, NEW store \in [Ids -> Seq(R)], NEW new, new = store
    PROVE  \A o \in Ids : Grows(store, new, o) /\ \A v \in 1..Len(new[o]) : Kept(store, new, o, v)
  BY DEF Grows, Kept

\* create_initial keeps or adds.
LEMMA InitialMoves ==
    ASSUME NEW Ids, NEW R, NEW store \in [Ids -> Seq(R)], NEW id \in Ids, NEW r \in R,
           store[id] = <<>>, NEW new, new = Initial(store, id, r)
    PROVE  /\ new \in [Ids -> Seq(R)]
           /\ \A o \in Ids : /\ Grows(store, new, o)
                             /\ \A v \in 1..Len(new[o]) :
                                  \/ Kept(store, new, o, v)
                                  \/ o = id /\ AddedAt(store, new, o, v) /\ new[o][v] = r
<1>1. Len(store[id]) = 0
  OBVIOUS
<1>2. /\ new \in [Ids -> Seq(R)] /\ Len(new[id]) = 1 /\ new[id][1] = r
      /\ \A o \in Ids \ {id} : new[o] = store[o]
  BY InitialRecord
<1>3. /\ Grows(store, new, id)
      /\ \A v \in 1..Len(new[id]) : AddedAt(store, new, id, v) /\ new[id][v] = r
  BY <1>1, <1>2 DEF Grows, AddedAt
<1>4. \A o \in Ids \ {id} : Grows(store, new, o) /\ \A v \in 1..Len(new[o]) : Kept(store, new, o, v)
  BY <1>2 DEF Grows, Kept
<1> QED
  BY <1>2, <1>3, <1>4

\* A write in place keeps or changes.
LEMMA ChangedMoves ==
    ASSUME NEW Ids, NEW R, NEW store \in [Ids -> Seq(R)], NEW id \in Ids,
           NEW u \in 1..Len(store[id]), NEW r \in R,
           NEW new, new = Written(store, id, u, r)
    PROVE  /\ new \in [Ids -> Seq(R)]
           /\ \A o \in Ids : /\ Grows(store, new, o)
                             /\ \A v \in 1..Len(new[o]) :
                                  \/ Kept(store, new, o, v)
                                  \/ o = id /\ v = u /\ ChangedAt(store, new, o, v) /\ new[o][v] = r
<1>1. /\ new \in [Ids -> Seq(R)] /\ Len(new[id]) = Len(store[id]) /\ new[id][u] = r
      /\ \A v \in 1..Len(store[id]) : v # u => new[id][v] = store[id][v]
      /\ \A o \in Ids \ {id} : new[o] = store[o]
  <2>1. \A v \in 1..Len(store[id]) :
          Written(store, id, u, r)[id][v] = IF v = u THEN r ELSE store[id][v]
    BY DEF Written
  <2>2. new = [store EXCEPT ![id] = [store[id] EXCEPT ![u] = r]]
    BY DEF Written
  <2>3. [store[id] EXCEPT ![u] = r] \in Seq(R) /\ Len([store[id] EXCEPT ![u] = r]) = Len(store[id])
    OBVIOUS
  <2> QED
    BY <2>1, <2>2, <2>3
<1>a. Len(store[id]) \in Nat
  OBVIOUS
<1>2. ASSUME NEW v \in 1..Len(new[id])
      PROVE  \/ Kept(store, new, id, v)
             \/ v = u /\ ChangedAt(store, new, id, v) /\ new[id][v] = r
  <2>1. CASE v = u
    BY <1>1, <2>1 DEF ChangedAt
  <2>2. CASE v # u
    BY <1>1, <2>2 DEF Kept
  <2> QED
    BY <2>1, <2>2
<1>b. Grows(store, new, id)
  BY <1>a, <1>1 DEF Grows
<1>3. \A o \in Ids \ {id} : Grows(store, new, o) /\ \A v \in 1..Len(new[o]) : Kept(store, new, o, v)
  BY <1>1 DEF Grows, Kept
<1> QED
  BY <1>1, <1>2, <1>b, <1>3

\* revise keeps, replaces or adds.
LEMMA RevisedMoves ==
    ASSUME NEW Ids, NEW R, NEW store \in [Ids -> Seq(R)], NEW id \in Ids, store[id] # <<>>,
           NEW r \in R, \A x \in R : Superseded(x) \in R,
           NEW new, new = Revised(store, id, r)
    PROVE  /\ new \in [Ids -> Seq(R)]
           /\ \A o \in Ids : /\ Grows(store, new, o)
                             /\ \A v \in 1..Len(new[o]) :
                                  \/ Kept(store, new, o, v)
                                  \/ o = id /\ ReplacedAt(store, new, o, v)
                                  \/ o = id /\ AddedAt(store, new, o, v) /\ new[o][v] = r
<1> DEFINE n == Len(store[id])
<1>1. n \in 1..n /\ n \in Nat /\ Latest(store, id) = store[id][n] /\ store[id][n] \in R
  BY DEF Latest
<1>2. Superseded(Latest(store, id)) \in R
  BY <1>1
<1>3. /\ new \in [Ids -> Seq(R)] /\ Len(new[id]) = n + 1 /\ new[id][n + 1] = r
      /\ new[id][n] = Superseded(store[id][n])
      /\ \A v \in 1..(n - 1) : new[id][v] = store[id][v]
      /\ \A o \in Ids \ {id} : new[o] = store[o]
  BY <1>1, <1>2, RevisedRecord
<1>4. Grows(store, new, id)
  BY <1>3 DEF Grows
<1>5. ASSUME NEW v \in 1..Len(new[id])
      PROVE  \/ Kept(store, new, id, v)
             \/ ReplacedAt(store, new, id, v)
             \/ AddedAt(store, new, id, v) /\ new[id][v] = r
  <2>1. CASE v < n
    BY <1>1, <1>3, <2>1 DEF Kept
  <2>2. CASE v = n
    BY <1>1, <1>3, <2>2 DEF ReplacedAt
  <2>3. CASE v = n + 1
    BY <1>1, <1>3, <2>3 DEF AddedAt
  <2> QED
    BY <1>1, <1>3, <2>1, <2>2, <2>3
<1>6. \A o \in Ids \ {id} : Grows(store, new, o) /\ \A v \in 1..Len(new[o]) : Kept(store, new, o, v)
  BY <1>3 DEF Grows, Kept
<1> QED
  BY <1>3, <1>4, <1>5, <1>6

-----------------------------------------------------------------------------
(* Types.                                                                  *)

\* What a brief holds.
BriefRecord == [state : {"DRAFT", "APPROVED", "SUPERSEDED"}, handoff : HandoffRef]
\* What an authorization holds.
AuthorityRecord == [state : {"PROPOSED", "ACTIVE", "REVOKED", "SUPERSEDED"},
                    brief : BriefRef, window : Windows]
\* What a package holds.
PackageRecord == [state : {"DRAFT", "RELEASED", "SUPERSEDED"},
                  brief : BriefRef, authorization : AuthorityRef]

\* The type of the four stores.
ChainTypeOK ==
    /\ handoffs \in [Handoffs -> Seq({"APPROVED", "REVOKED"})]
    /\ briefs \in [Briefs -> Seq(BriefRecord)]
    /\ authorizations \in [Authorizations -> Seq(AuthorityRecord)]
    /\ packages \in [Packages -> Seq(PackageRecord)]

-----------------------------------------------------------------------------
(* What a step may do to a record.                                         *)

\* A version of a brief is kept, approved with both signatures, replaced when it
\* was approved, or drafted from a handoff that is current.
BriefAfter(b, v) ==
    \/ Kept(briefs, briefs', b, v)
    \/ /\ ChangedAt(briefs, briefs', b, v)
       /\ briefs[b][v].state = "DRAFT" /\ briefs'[b][v] = [briefs[b][v] EXCEPT !.state = "APPROVED"]
       /\ ApprovedByBoth("brief", [id |-> b, version |-> v])
    \/ ReplacedAt(briefs, briefs', b, v) /\ briefs[b][v].state = "APPROVED"
    \/ /\ AddedAt(briefs, briefs', b, v)
       /\ briefs'[b][v].state = "DRAFT" /\ HandoffCurrent(briefs'[b][v].handoff)

\* A step of the briefs.
BriefsMove ==
    /\ briefs' \in [Briefs -> Seq(BriefRecord)]
    /\ \A b \in Briefs : /\ Grows(briefs, briefs', b)
                         /\ \A v \in 1..Len(briefs'[b]) : BriefAfter(b, v)

\* No write: every brief is kept.
LEMMA BriefsStay ==
    ASSUME briefs \in [Briefs -> Seq(BriefRecord)], UNCHANGED briefs
    PROVE  BriefsMove
<1>1. \A b \in Briefs : /\ Grows(briefs, briefs', b)
                        /\ \A v \in 1..Len(briefs'[b]) : Kept(briefs, briefs', b, v)
  BY SameMoves
<1> QED
  BY <1>1 DEF BriefsMove, BriefAfter

\* The commands of phase5d_brief.py do nothing else.
LEMMA BriefMoves ==
    ASSUME ChainTypeOK, BriefNext
    PROVE  BriefsMove
<1>0. briefs \in [Briefs -> Seq(BriefRecord)]
  BY DEF ChainTypeOK
<1>1. ASSUME NEW b \in Briefs, NEW handoff \in HandoffRef, DraftBrief(b, handoff)
      PROVE  BriefsMove
  <2> DEFINE r == NewBrief(handoff)
  <2>1. /\ r \in BriefRecord /\ r.state = "DRAFT" /\ HandoffCurrent(r.handoff)
        /\ briefs[b] = <<>> /\ briefs' = Initial(briefs, b, r)
    BY <1>1 DEF DraftBrief, Fresh, NewBrief, BriefRecord
  <2> HIDE DEF r
  <2>2. /\ briefs' \in [Briefs -> Seq(BriefRecord)]
        /\ \A o \in Briefs : /\ Grows(briefs, briefs', o)
                             /\ \A v \in 1..Len(briefs'[o]) :
                                  \/ Kept(briefs, briefs', o, v)
                                  \/ o = b /\ AddedAt(briefs, briefs', o, v) /\ briefs'[o][v] = r
    BY <1>0, <2>1, InitialMoves
  <2> QED
    BY <2>1, <2>2 DEF BriefsMove, BriefAfter
<1>2. ASSUME NEW b \in Briefs, NEW handoff \in HandoffRef, ReviseBrief(b, handoff)
      PROVE  BriefsMove
  <2> DEFINE r == NewBrief(handoff)
  <2>1. /\ r \in BriefRecord /\ r.state = "DRAFT" /\ HandoffCurrent(r.handoff)
        /\ briefs[b] # <<>> /\ briefs' = Revised(briefs, b, r)
        /\ briefs[b][Len(briefs[b])].state = "APPROVED"
    BY <1>2 DEF ReviseBrief, Revisable, NewBrief, BriefRecord, Latest
  <2>2. \A x \in BriefRecord : Superseded(x) \in BriefRecord
    BY DEF BriefRecord, Superseded
  <2> HIDE DEF r
  <2>3. /\ briefs' \in [Briefs -> Seq(BriefRecord)]
        /\ \A o \in Briefs : /\ Grows(briefs, briefs', o)
                             /\ \A v \in 1..Len(briefs'[o]) :
                                  \/ Kept(briefs, briefs', o, v)
                                  \/ o = b /\ ReplacedAt(briefs, briefs', o, v)
                                  \/ o = b /\ AddedAt(briefs, briefs', o, v) /\ briefs'[o][v] = r
    BY <1>0, <2>1, <2>2, RevisedMoves
  <2>4. \A v \in 1..Len(briefs'[b]) :
          ReplacedAt(briefs, briefs', b, v) => briefs[b][v].state = "APPROVED"
    BY <2>1 DEF ReplacedAt
  <2> QED
    BY <2>1, <2>3, <2>4 DEF BriefsMove, BriefAfter
<1>3. ASSUME NEW ref \in BriefRef, ApproveBrief(ref)
      PROVE  BriefsMove
  <2> DEFINE b == ref.id
             v == ref.version
             r == [briefs[b][v] EXCEPT !.state = "APPROVED"]
  <2>1. b \in Briefs /\ v \in 1..Len(briefs[b]) /\ briefs[b][v] \in BriefRecord
    BY <1>0, <1>3 DEF ApproveBrief, InState, Stored, BriefRef, Ref
  <2>2. /\ briefs[b][v].state = "DRAFT" /\ ApprovedByBoth("brief", ref)
        /\ briefs' = Written(briefs, b, v, r)
    BY <1>3 DEF ApproveBrief, InState, Version, SetState, Written
  <2>3. r \in BriefRecord /\ ref = [id |-> b, version |-> v]
    BY <2>1 DEF BriefRecord, BriefRef, Ref
  <2> HIDE DEF r
  <2>4. /\ briefs' \in [Briefs -> Seq(BriefRecord)]
        /\ \A o \in Briefs : /\ Grows(briefs, briefs', o)
                             /\ \A u \in 1..Len(briefs'[o]) :
                                  \/ Kept(briefs, briefs', o, u)
                                  \/ /\ o = b /\ u = v
                                     /\ ChangedAt(briefs, briefs', o, u) /\ briefs'[o][u] = r
    BY <1>0, <2>1, <2>2, <2>3, ChangedMoves
  <2> QED
    BY <2>2, <2>3, <2>4 DEF BriefsMove, BriefAfter, r
<1>4. ASSUME NEW ref \in BriefRef, NEW role \in Roles, RecordBriefApproval(ref, role)
      PROVE  BriefsMove
  BY <1>0, <1>4, BriefsStay DEF RecordBriefApproval
<1> QED
  BY <1>1, <1>2, <1>3, <1>4 DEF BriefNext

-----------------------------------------------------------------------------
\* A version of an authorization is kept, activated inside its window with both
\* signatures, revoked, met by the clock, replaced when it was active, or
\* proposed from a brief that is ready.
AuthorityAfter(a, v) ==
    LET old == authorizations[a][v]
        new == authorizations'[a][v]
    IN  \/ Kept(authorizations, authorizations', a, v)
        \/ /\ ChangedAt(authorizations, authorizations', a, v)
           /\ \/ /\ old.state = "PROPOSED" /\ old.window = "open"
                 /\ new = [old EXCEPT !.state = "ACTIVE"]
                 /\ ApprovedByBoth("authorization", [id |-> a, version |-> v])
              \/ old.state \in {"PROPOSED", "ACTIVE"} /\ new = [old EXCEPT !.state = "REVOKED"]
              \/ old.window = "early" /\ new = [old EXCEPT !.window = "open"]
              \/ old.window = "open" /\ new = [old EXCEPT !.window = "over"]
        \/ ReplacedAt(authorizations, authorizations', a, v) /\ old.state = "ACTIVE"
        \/ /\ AddedAt(authorizations, authorizations', a, v)
           /\ new.state = "PROPOSED" /\ BriefReady(new.brief)

\* A step of the authorizations.
AuthoritiesMove ==
    /\ authorizations' \in [Authorizations -> Seq(AuthorityRecord)]
    /\ \A a \in Authorizations :
         /\ Grows(authorizations, authorizations', a)
         /\ \A v \in 1..Len(authorizations'[a]) : AuthorityAfter(a, v)

\* No write: every authorization is kept.
LEMMA AuthoritiesStay ==
    ASSUME authorizations \in [Authorizations -> Seq(AuthorityRecord)], UNCHANGED authorizations
    PROVE  AuthoritiesMove
<1>1. \A a \in Authorizations :
         /\ Grows(authorizations, authorizations', a)
         /\ \A v \in 1..Len(authorizations'[a]) : Kept(authorizations, authorizations', a, v)
  BY SameMoves
<1> QED
  BY <1>1 DEF AuthoritiesMove, AuthorityAfter

\* A write at one place is a step of the store when it is one of that record.
LEMMA AuthorityWritten ==
    ASSUME authorizations \in [Authorizations -> Seq(AuthorityRecord)],
           NEW a \in Authorizations, NEW v \in 1..Len(authorizations[a]), NEW r \in AuthorityRecord,
           authorizations' = Written(authorizations, a, v, r),
           ChangedAt(authorizations, authorizations', a, v) /\ authorizations'[a][v] = r
           => AuthorityAfter(a, v)
    PROVE  AuthoritiesMove
<1>1. /\ authorizations' \in [Authorizations -> Seq(AuthorityRecord)]
      /\ \A o \in Authorizations :
           /\ Grows(authorizations, authorizations', o)
           /\ \A u \in 1..Len(authorizations'[o]) :
                \/ Kept(authorizations, authorizations', o, u)
                \/ /\ o = a /\ u = v
                   /\ ChangedAt(authorizations, authorizations', o, u) /\ authorizations'[o][u] = r
  BY ChangedMoves
<1>2. \A o \in Authorizations : \A u \in 1..Len(authorizations'[o]) :
        Kept(authorizations, authorizations', o, u) => AuthorityAfter(o, u)
  BY DEF AuthorityAfter
<1> QED
  BY <1>1, <1>2 DEF AuthoritiesMove

\* The commands of phase5d_authorization.py, and the clock, do nothing else.
LEMMA AuthorityMoves ==
    ASSUME ChainTypeOK, AuthorizationNext
    PROVE  AuthoritiesMove
<1>0. authorizations \in [Authorizations -> Seq(AuthorityRecord)]
  BY DEF ChainTypeOK
<1>1. ASSUME NEW a \in Authorizations, NEW brief \in BriefRef, NEW window \in Windows,
             ProposeAuthorization(a, brief, window)
      PROVE  AuthoritiesMove
  <2> DEFINE r == NewAuthorization(brief, window)
  <2>1. /\ r \in AuthorityRecord /\ r.state = "PROPOSED" /\ BriefReady(r.brief)
        /\ authorizations[a] = <<>> /\ authorizations' = Initial(authorizations, a, r)
    BY <1>1 DEF ProposeAuthorization, Fresh, NewAuthorization, AuthorityRecord
  <2> HIDE DEF r
  <2>2. /\ authorizations' \in [Authorizations -> Seq(AuthorityRecord)]
        /\ \A o \in Authorizations :
             /\ Grows(authorizations, authorizations', o)
             /\ \A v \in 1..Len(authorizations'[o]) :
                  \/ Kept(authorizations, authorizations', o, v)
                  \/ o = a /\ AddedAt(authorizations, authorizations', o, v) /\ authorizations'[o][v] = r
    BY <1>0, <2>1, InitialMoves
  <2> QED
    BY <2>1, <2>2 DEF AuthoritiesMove, AuthorityAfter
<1>2. ASSUME NEW a \in Authorizations, NEW brief \in BriefRef, NEW window \in Windows,
             ReviseAuthorization(a, brief, window)
      PROVE  AuthoritiesMove
  <2> DEFINE r == NewAuthorization(brief, window)
  <2>1. /\ r \in AuthorityRecord /\ r.state = "PROPOSED" /\ BriefReady(r.brief)
        /\ authorizations[a] # <<>> /\ authorizations' = Revised(authorizations, a, r)
        /\ authorizations[a][Len(authorizations[a])].state = "ACTIVE"
    BY <1>2 DEF ReviseAuthorization, Revisable, NewAuthorization, AuthorityRecord, Latest
  <2>2. \A x \in AuthorityRecord : Superseded(x) \in AuthorityRecord
    BY DEF AuthorityRecord, Superseded
  <2> HIDE DEF r
  <2>3. /\ authorizations' \in [Authorizations -> Seq(AuthorityRecord)]
        /\ \A o \in Authorizations :
             /\ Grows(authorizations, authorizations', o)
             /\ \A v \in 1..Len(authorizations'[o]) :
                  \/ Kept(authorizations, authorizations', o, v)
                  \/ o = a /\ ReplacedAt(authorizations, authorizations', o, v)
                  \/ o = a /\ AddedAt(authorizations, authorizations', o, v) /\ authorizations'[o][v] = r
    BY <1>0, <2>1, <2>2, RevisedMoves
  <2>4. \A v \in 1..Len(authorizations'[a]) :
          ReplacedAt(authorizations, authorizations', a, v) => authorizations[a][v].state = "ACTIVE"
    BY <2>1 DEF ReplacedAt
  <2> QED
    BY <2>1, <2>3, <2>4 DEF AuthoritiesMove, AuthorityAfter
<1>3. ASSUME NEW a \in Authorizations, RevokeAuthorization(a)
      PROVE  AuthoritiesMove
  <2> DEFINE v == Len(authorizations[a])
             r == [authorizations[a][v] EXCEPT !.state = "REVOKED"]
  <2>1. v \in 1..Len(authorizations[a]) /\ authorizations[a][v] \in AuthorityRecord
    BY <1>0, <1>3 DEF RevokeAuthorization
  <2>2. /\ authorizations[a][v].state \in {"PROPOSED", "ACTIVE"}
        /\ authorizations' = Written(authorizations, a, v, r)
    BY <1>3 DEF RevokeAuthorization, Latest, Written
  <2>3. r \in AuthorityRecord
    BY <2>1 DEF AuthorityRecord
  <2>4. ChangedAt(authorizations, authorizations', a, v) /\ authorizations'[a][v] = r
        => AuthorityAfter(a, v)
    BY <2>2 DEF AuthorityAfter
  <2> HIDE DEF r, v
  <2> QED
    BY <1>0, <2>1, <2>2, <2>3, <2>4, AuthorityWritten
<1>4. ASSUME NEW ref \in AuthorityRef, ActivateAuthorization(ref)
      PROVE  AuthoritiesMove
  <2> DEFINE a == ref.id
             v == ref.version
             r == [authorizations[a][v] EXCEPT !.state = "ACTIVE"]
  <2>1. /\ a \in Authorizations /\ v \in 1..Len(authorizations[a])
        /\ authorizations[a][v] \in AuthorityRecord
    BY <1>0, <1>4 DEF ActivateAuthorization, MayActivate, InState, Stored, AuthorityRef, Ref
  <2>2. /\ authorizations[a][v].state = "PROPOSED" /\ authorizations[a][v].window = "open"
        /\ ApprovedByBoth("authorization", ref)
        /\ authorizations' = Written(authorizations, a, v, r)
    BY <1>4 DEF ActivateAuthorization, MayActivate, InState, Version, SetState, Written
  <2>3. r \in AuthorityRecord /\ ref = [id |-> a, version |-> v]
    BY <2>1 DEF AuthorityRecord, AuthorityRef, Ref
  <2>4. ChangedAt(authorizations, authorizations', a, v) /\ authorizations'[a][v] = r
        => AuthorityAfter(a, v)
    BY <2>2, <2>3 DEF AuthorityAfter
  <2> HIDE DEF r, v, a
  <2> QED
    BY <1>0, <2>1, <2>2, <2>3, <2>4, AuthorityWritten
<1>5. ASSUME NEW ref \in AuthorityRef, AuthorizationClock(ref)
      PROVE  AuthoritiesMove
  <2> DEFINE a == ref.id
             v == ref.version
             old == authorizations[a][v]
  <2>1. a \in Authorizations /\ v \in 1..Len(authorizations[a]) /\ old \in AuthorityRecord
    BY <1>0, <1>5 DEF AuthorizationClock, Stored, AuthorityRef, Ref
  <2>2. ASSUME old.window = "early", authorizations' = [authorizations EXCEPT ![a][v].window = "open"]
        PROVE  AuthoritiesMove
    <3> DEFINE r == [old EXCEPT !.window = "open"]
    <3>1. r \in AuthorityRecord
      BY <2>1 DEF AuthorityRecord, Windows
    <3>2. authorizations' = Written(authorizations, a, v, r)
      BY <2>2 DEF Written
    <3>3. ChangedAt(authorizations, authorizations', a, v) /\ authorizations'[a][v] = r
          => AuthorityAfter(a, v)
      BY <2>2 DEF AuthorityAfter
    <3> HIDE DEF r, v, a
    <3> QED
      BY <1>0, <2>1, <3>1, <3>2, <3>3, AuthorityWritten
  <2>3. ASSUME old.window = "open", authorizations' = [authorizations EXCEPT ![a][v].window = "over"]
        PROVE  AuthoritiesMove
    <3> DEFINE r == [old EXCEPT !.window = "over"]
    <3>1. r \in AuthorityRecord
      BY <2>1 DEF AuthorityRecord, Windows
    <3>2. authorizations' = Written(authorizations, a, v, r)
      BY <2>3 DEF Written
    <3>3. ChangedAt(authorizations, authorizations', a, v) /\ authorizations'[a][v] = r
          => AuthorityAfter(a, v)
      BY <2>3 DEF AuthorityAfter
    <3> HIDE DEF r, v, a
    <3> QED
      BY <1>0, <2>1, <3>1, <3>2, <3>3, AuthorityWritten
  <2> QED
    BY <1>5, <2>2, <2>3 DEF AuthorizationClock, Version
<1>6. ASSUME NEW ref \in AuthorityRef, NEW role \in Roles, RecordAuthorizationApproval(ref, role)
      PROVE  AuthoritiesMove
  BY <1>0, <1>6, AuthoritiesStay DEF RecordAuthorizationApproval
<1> QED
  BY <1>1, <1>2, <1>3, <1>4, <1>5, <1>6 DEF AuthorizationNext

-----------------------------------------------------------------------------
\* A version of a package is kept, released with both signatures, replaced when it
\* was released, or drafted from sources that are ready.
PackageAfter(p, v) ==
    LET old == packages[p][v]
        new == packages'[p][v]
    IN  \/ Kept(packages, packages', p, v)
        \/ /\ ChangedAt(packages, packages', p, v)
           /\ old.state = "DRAFT" /\ new = [old EXCEPT !.state = "RELEASED"]
           /\ ApprovedByBoth("package", [id |-> p, version |-> v])
        \/ ReplacedAt(packages, packages', p, v) /\ old.state = "RELEASED"
        \/ /\ AddedAt(packages, packages', p, v)
           /\ new.state = "DRAFT" /\ SourcesReady(new.brief, new.authorization)

\* A step of the packages.
PackagesMove ==
    /\ packages' \in [Packages -> Seq(PackageRecord)]
    /\ \A p \in Packages : /\ Grows(packages, packages', p)
                           /\ \A v \in 1..Len(packages'[p]) : PackageAfter(p, v)

\* No write: every package is kept.
LEMMA PackagesStay ==
    ASSUME packages \in [Packages -> Seq(PackageRecord)], UNCHANGED packages
    PROVE  PackagesMove
<1>1. \A p \in Packages : /\ Grows(packages, packages', p)
                          /\ \A v \in 1..Len(packages'[p]) : Kept(packages, packages', p, v)
  BY SameMoves
<1> QED
  BY <1>1 DEF PackagesMove, PackageAfter

\* The commands of phase5d_package.py do nothing else.
LEMMA PackageMoves ==
    ASSUME ChainTypeOK, PackageNext
    PROVE  PackagesMove
<1>0. packages \in [Packages -> Seq(PackageRecord)]
  BY DEF ChainTypeOK
<1>1. ASSUME NEW p \in Packages, NEW brief \in BriefRef, NEW authorization \in AuthorityRef,
             DraftPackage(p, brief, authorization)
      PROVE  PackagesMove
  <2> DEFINE r == NewPackage(brief, authorization)
  <2>1. /\ r \in PackageRecord /\ r.state = "DRAFT" /\ SourcesReady(r.brief, r.authorization)
        /\ packages[p] = <<>> /\ packages' = Initial(packages, p, r)
    BY <1>1 DEF DraftPackage, Fresh, NewPackage, PackageRecord
  <2> HIDE DEF r
  <2>a. r \in PackageRecord /\ packages[p] = <<>> /\ packages' = Initial(packages, p, r)
    BY <2>1
  <2>2. /\ packages' \in [Packages -> Seq(PackageRecord)]
        /\ \A o \in Packages :
             /\ Grows(packages, packages', o)
             /\ \A v \in 1..Len(packages'[o]) :
                  \/ Kept(packages, packages', o, v)
                  \/ o = p /\ AddedAt(packages, packages', o, v) /\ packages'[o][v] = r
    BY <1>0, <2>a, InitialMoves
  <2> QED
    BY <2>1, <2>2 DEF PackagesMove, PackageAfter
<1>2. ASSUME NEW p \in Packages, NEW brief \in BriefRef, NEW authorization \in AuthorityRef,
             RevisePackage(p, brief, authorization)
      PROVE  PackagesMove
  <2> DEFINE r == NewPackage(brief, authorization)
  <2>1. /\ r \in PackageRecord /\ r.state = "DRAFT" /\ SourcesReady(r.brief, r.authorization)
        /\ packages[p] # <<>> /\ packages' = Revised(packages, p, r)
        /\ packages[p][Len(packages[p])].state = "RELEASED"
    BY <1>2 DEF RevisePackage, Revisable, NewPackage, PackageRecord, Latest
  <2>2. \A x \in PackageRecord : Superseded(x) \in PackageRecord
    BY DEF PackageRecord, Superseded
  <2> HIDE DEF r
  <2>3. /\ packages' \in [Packages -> Seq(PackageRecord)]
        /\ \A o \in Packages :
             /\ Grows(packages, packages', o)
             /\ \A v \in 1..Len(packages'[o]) :
                  \/ Kept(packages, packages', o, v)
                  \/ o = p /\ ReplacedAt(packages, packages', o, v)
                  \/ o = p /\ AddedAt(packages, packages', o, v) /\ packages'[o][v] = r
    BY <1>0, <2>1, <2>2, RevisedMoves
  <2>4. \A v \in 1..Len(packages'[p]) :
          ReplacedAt(packages, packages', p, v) => packages[p][v].state = "RELEASED"
    BY <2>1 DEF ReplacedAt
  <2> QED
    BY <2>1, <2>3, <2>4 DEF PackagesMove, PackageAfter
<1>3. ASSUME NEW ref \in PackageRef, ReleasePackage(ref)
      PROVE  PackagesMove
  <2> DEFINE p == ref.id
             v == ref.version
             r == [packages[p][v] EXCEPT !.state = "RELEASED"]
  <2>1. p \in Packages /\ v \in 1..Len(packages[p]) /\ packages[p][v] \in PackageRecord
    BY <1>0, <1>3 DEF ReleasePackage, MayRelease, InState, Stored, PackageRef, Ref
  <2>2. /\ packages[p][v].state = "DRAFT" /\ ApprovedByBoth("package", ref)
        /\ packages' = Written(packages, p, v, r)
    BY <1>3 DEF ReleasePackage, MayRelease, InState, Version, SetState, Written
  <2>3. r \in PackageRecord /\ ref = [id |-> p, version |-> v]
    BY <2>1 DEF PackageRecord, PackageRef, Ref
  <2> HIDE DEF r
  <2>4. /\ packages' \in [Packages -> Seq(PackageRecord)]
        /\ \A o \in Packages :
             /\ Grows(packages, packages', o)
             /\ \A u \in 1..Len(packages'[o]) :
                  \/ Kept(packages, packages', o, u)
                  \/ o = p /\ u = v /\ ChangedAt(packages, packages', o, u) /\ packages'[o][u] = r
    BY <1>0, <2>1, <2>2, <2>3, ChangedMoves
  <2> QED
    BY <2>2, <2>3, <2>4 DEF PackagesMove, PackageAfter, r
<1>4. ASSUME NEW ref \in PackageRef, NEW role \in Roles, RecordPackageApproval(ref, role)
      PROVE  PackagesMove
  BY <1>0, <1>4, PackagesStay DEF RecordPackageApproval
<1> QED
  BY <1>1, <1>2, <1>3, <1>4 DEF PackageNext

-----------------------------------------------------------------------------
\* A version of a handoff, once accepted, is never written again.
HandoffsGrow ==
    /\ handoffs' \in [Handoffs -> Seq({"APPROVED", "REVOKED"})]
    /\ \A h \in Handoffs :
         /\ Len(handoffs[h]) <= Len(handoffs'[h])
         /\ \A v \in 1..Len(handoffs[h]) : handoffs'[h][v] = handoffs[h][v]

\* No write: every handoff is kept.
LEMMA HandoffsStay ==
    ASSUME handoffs \in [Handoffs -> Seq({"APPROVED", "REVOKED"})], UNCHANGED handoffs
    PROVE  HandoffsGrow
  BY DEF HandoffsGrow

\* accept of implementation_handoff.py does nothing else.
LEMMA HandoffMoves ==
    ASSUME ChainTypeOK, HandoffNext
    PROVE  HandoffsGrow
<1> DEFINE R == {"APPROVED", "REVOKED"}
<1>0. handoffs \in [Handoffs -> Seq(R)] /\ \A h \in Handoffs : Len(handoffs[h]) \in Nat
  BY DEF ChainTypeOK
<1>1. PICK h \in Handoffs : AcceptHandoff(h)
  BY DEF HandoffNext
<1>2. CASE handoffs[h] = <<>> /\ handoffs' = [handoffs EXCEPT ![h] = <<"APPROVED">>]
  <2>1. Len(handoffs[h]) = 0
    BY <1>2
  <2>2. "APPROVED" \in R /\ handoffs' = Initial(handoffs, h, "APPROVED")
    BY <1>2 DEF Initial
  <2> HIDE DEF R
  <2>3. /\ handoffs' \in [Handoffs -> Seq(R)] /\ Len(handoffs'[h]) = 1
        /\ \A o \in Handoffs \ {h} : handoffs'[o] = handoffs[o]
    BY <1>0, <2>2, InitialRecord
  <2>4. \A v \in 1..Len(handoffs[h]) : handoffs'[h][v] = handoffs[h][v]
    BY <2>1
  <2>5. \A o \in Handoffs : Len(handoffs[o]) <= Len(handoffs'[o])
    BY <1>0, <2>1, <2>3
  <2> QED
    BY <2>3, <2>4, <2>5 DEF HandoffsGrow, R
<1>3. ASSUME NEW state \in R, handoffs' = [handoffs EXCEPT ![h] = Append(@, state)]
      PROVE  HandoffsGrow
  <2> HIDE DEF R
  <2>1. /\ handoffs' \in [Handoffs -> Seq(R)]
        /\ Len(handoffs'[h]) = Len(handoffs[h]) + 1
        /\ \A v \in 1..Len(handoffs[h]) : handoffs'[h][v] = handoffs[h][v]
        /\ \A o \in Handoffs \ {h} : handoffs'[o] = handoffs[o]
    BY <1>0, <1>3, AddedRecord
  <2>2. ASSUME NEW o \in Handoffs PROVE Len(handoffs[o]) <= Len(handoffs'[o])
    <3>1. Len(handoffs[o]) \in Nat
      BY <1>0
    <3> QED
      BY <2>1, <3>1
  <2> QED
    BY <2>1, <2>2 DEF HandoffsGrow, R
<1> QED
  BY <1>1, <1>2, <1>3 DEF AcceptHandoff

-----------------------------------------------------------------------------
\* What a step of the chain, and of all that is built on it, does.
ChainMoves ==
    /\ HandoffsGrow /\ BriefsMove /\ AuthoritiesMove /\ PackagesMove
    /\ approvals \subseteq approvals'

\* Recording an approval is such a step as well.
LEMMA RecordsStay ==
    ASSUME ChainTypeOK, UNCHANGED <<handoffs, briefs, authorizations, packages>>,
           approvals \subseteq approvals'
    PROVE  ChainMoves
  BY HandoffsStay, BriefsStay, AuthoritiesStay, PackagesStay DEF ChainTypeOK, ChainMoves

\* Every step of the chain is of that form.
LEMMA ChainStep ==
    ASSUME ChainTypeOK, [ChainNext]_chainVars
    PROVE  ChainMoves
<1>0. /\ UNCHANGED handoffs => HandoffsGrow
      /\ UNCHANGED briefs => BriefsMove
      /\ UNCHANGED authorizations => AuthoritiesMove
      /\ UNCHANGED packages => PackagesMove
  BY HandoffsStay, BriefsStay, AuthoritiesStay, PackagesStay DEF ChainTypeOK
<1>1. CASE HandoffNext
  <2>1. UNCHANGED <<briefs, authorizations, packages, approvals>>
    BY <1>1 DEF HandoffNext, AcceptHandoff
  <2> QED
    BY <1>0, <1>1, <2>1, HandoffMoves DEF ChainMoves
<1>2. CASE BriefNext
  <2>1. UNCHANGED <<handoffs, authorizations, packages>> /\ approvals \subseteq approvals'
    BY <1>2 DEF BriefNext, DraftBrief, ReviseBrief, RecordBriefApproval, ApproveBrief, Approve
  <2> QED
    BY <1>0, <1>2, <2>1, BriefMoves DEF ChainMoves
<1>3. CASE AuthorizationNext
  <2>1. UNCHANGED <<handoffs, briefs, packages>> /\ approvals \subseteq approvals'
    BY <1>3 DEF AuthorizationNext, ProposeAuthorization, ReviseAuthorization, RevokeAuthorization,
                RecordAuthorizationApproval, ActivateAuthorization, AuthorizationClock, Approve
  <2> QED
    BY <1>0, <1>3, <2>1, AuthorityMoves DEF ChainMoves
<1>4. CASE PackageNext
  <2>1. UNCHANGED <<handoffs, briefs, authorizations>> /\ approvals \subseteq approvals'
    BY <1>4 DEF PackageNext, DraftPackage, RevisePackage, RecordPackageApproval, ReleasePackage, Approve
  <2> QED
    BY <1>0, <1>4, <2>1, PackageMoves DEF ChainMoves
<1>5. CASE UNCHANGED chainVars
  BY <1>5, RecordsStay DEF chainVars
<1> QED
  BY <1>1, <1>2, <1>3, <1>4, <1>5 DEF ChainNext

-----------------------------------------------------------------------------
(* What the records say.                                                   *)

\* What activation checks of the clock stays true: it never goes back.
NoneActiveEarly ==
    \A a \in Authorizations : \A v \in 1..Len(authorizations[a]) :
      authorizations[a][v].state = "ACTIVE" => authorizations[a][v].window # "early"

\* The inductive invariant: the checked invariants, with what the loss of an
\* authority needs to be final.
ChainSafe ==
    /\ ChainTypeOK
    /\ OneCurrentVersion
    /\ EveryRecordDescends
    /\ NothingWithoutBothSides
    /\ NoneActiveEarly

\* What the types say of each place of a store.
LEMMA Places ==
    ASSUME ChainTypeOK
    PROVE  /\ \A h \in Handoffs : DOMAIN handoffs[h] = 1..Len(handoffs[h]) /\ Len(handoffs[h]) \in Nat
           /\ \A b \in Briefs : /\ DOMAIN briefs[b] = 1..Len(briefs[b]) /\ Len(briefs[b]) \in Nat
                                /\ \A v \in 1..Len(briefs[b]) : briefs[b][v] \in BriefRecord
           /\ \A a \in Authorizations :
                /\ DOMAIN authorizations[a] = 1..Len(authorizations[a]) /\ Len(authorizations[a]) \in Nat
                /\ \A v \in 1..Len(authorizations[a]) : authorizations[a][v] \in AuthorityRecord
           /\ \A p \in Packages : /\ DOMAIN packages[p] = 1..Len(packages[p]) /\ Len(packages[p]) \in Nat
                                  /\ \A v \in 1..Len(packages[p]) : packages[p][v] \in PackageRecord
  BY DEF ChainTypeOK

\* The same after a step.
LEMMA PlacesNext ==
    ASSUME ChainTypeOK'
    PROVE  /\ \A h \in Handoffs : DOMAIN handoffs'[h] = 1..Len(handoffs'[h]) /\ Len(handoffs'[h]) \in Nat
           /\ \A b \in Briefs : /\ DOMAIN briefs'[b] = 1..Len(briefs'[b]) /\ Len(briefs'[b]) \in Nat
                                /\ \A v \in 1..Len(briefs'[b]) : briefs'[b][v] \in BriefRecord
           /\ \A a \in Authorizations :
                /\ DOMAIN authorizations'[a] = 1..Len(authorizations'[a]) /\ Len(authorizations'[a]) \in Nat
                /\ \A v \in 1..Len(authorizations'[a]) : authorizations'[a][v] \in AuthorityRecord
           /\ \A p \in Packages : /\ DOMAIN packages'[p] = 1..Len(packages'[p]) /\ Len(packages'[p]) \in Nat
                                  /\ \A v \in 1..Len(packages'[p]) : packages'[p][v] \in PackageRecord
  BY DEF ChainTypeOK

\* A step keeps the types.
LEMMA TypesKept ==
    ASSUME ChainMoves
    PROVE  ChainTypeOK'
  BY DEF ChainMoves, HandoffsGrow, BriefsMove, AuthoritiesMove, PackagesMove, ChainTypeOK

\* What a step never takes from a version of a brief.
LEMMA BriefStable ==
    ASSUME ChainTypeOK, ChainMoves, NEW b \in Briefs, NEW v \in 1..Len(briefs[b])
    PROVE  /\ v \in 1..Len(briefs'[b])
           /\ briefs'[b][v].handoff = briefs[b][v].handoff
           /\ briefs[b][v].state \in Accepted => briefs'[b][v].state \in Accepted
           /\ briefs[b][v].state = "SUPERSEDED" => briefs'[b][v].state = "SUPERSEDED"
<1>1. /\ Len(briefs[b]) \in Nat /\ briefs[b][v] \in BriefRecord
      /\ Grows(briefs, briefs', b) /\ \A u \in 1..Len(briefs'[b]) : BriefAfter(b, u)
  BY Places DEF ChainMoves, BriefsMove
<1>2. v \in 1..Len(briefs'[b]) /\ BriefAfter(b, v)
  BY <1>1 DEF Grows
<1> QED
  BY <1>1, <1>2 DEF BriefAfter, Kept, ReplacedAt, AddedAt, Superseded, BriefRecord, Accepted

\* What a step never takes from a version of an authorization.
LEMMA AuthorityStable ==
    ASSUME ChainTypeOK, ChainMoves, NEW a \in Authorizations, NEW v \in 1..Len(authorizations[a])
    PROVE  LET old == authorizations[a][v]
               new == authorizations'[a][v]
           IN  /\ v \in 1..Len(authorizations'[a])
               /\ new.brief = old.brief
               /\ old.state \in Activated => new.state \in Activated
               /\ old.state \in {"REVOKED", "SUPERSEDED"} => new.state = old.state
               /\ old.window # "early" => new.window # "early"
               /\ old.window = "over" => new.window = "over"
<1>1. /\ Len(authorizations[a]) \in Nat /\ authorizations[a][v] \in AuthorityRecord
      /\ Grows(authorizations, authorizations', a)
      /\ \A u \in 1..Len(authorizations'[a]) : AuthorityAfter(a, u)
  BY Places DEF ChainMoves, AuthoritiesMove
<1>2. v \in 1..Len(authorizations'[a]) /\ AuthorityAfter(a, v)
  BY <1>1 DEF Grows
<1> DEFINE old == authorizations[a][v]
           new == authorizations'[a][v]
<1>3. old \in AuthorityRecord /\ old.state \in {"PROPOSED", "ACTIVE", "REVOKED", "SUPERSEDED"}
  BY <1>1 DEF AuthorityRecord
<1>4. CASE new = old
  BY <1>2, <1>4
<1>5. CASE old.state = "PROPOSED" /\ new = [old EXCEPT !.state = "ACTIVE"]
  BY <1>2, <1>3, <1>5 DEF AuthorityRecord, Activated
<1>6. CASE old.state \in {"PROPOSED", "ACTIVE"} /\ new = [old EXCEPT !.state = "REVOKED"]
  BY <1>2, <1>3, <1>6 DEF AuthorityRecord, Activated
<1>7. CASE \/ old.window = "early" /\ new = [old EXCEPT !.window = "open"]
           \/ old.window = "open" /\ new = [old EXCEPT !.window = "over"]
  BY <1>2, <1>3, <1>7 DEF AuthorityRecord
<1>8. CASE old.state = "ACTIVE" /\ new = Superseded(old)
  BY <1>2, <1>3, <1>8 DEF AuthorityRecord, Superseded, Activated
<1> QED
  BY <1>1, <1>2, <1>4, <1>5, <1>6, <1>7, <1>8 DEF AuthorityAfter, Kept, ReplacedAt, AddedAt

\* What a step never takes from a version of a package.
LEMMA PackageStable ==
    ASSUME ChainTypeOK, ChainMoves, NEW p \in Packages, NEW v \in 1..Len(packages[p])
    PROVE  LET old == packages[p][v]
               new == packages'[p][v]
           IN  /\ v \in 1..Len(packages'[p])
               /\ new.brief = old.brief /\ new.authorization = old.authorization
               /\ old.state = "SUPERSEDED" => new.state = "SUPERSEDED"
               /\ old.state # "DRAFT" => new.state # "DRAFT"
<1>1. /\ Len(packages[p]) \in Nat /\ packages[p][v] \in PackageRecord
      /\ Grows(packages, packages', p) /\ \A u \in 1..Len(packages'[p]) : PackageAfter(p, u)
  BY Places DEF ChainMoves, PackagesMove
<1>2. v \in 1..Len(packages'[p]) /\ PackageAfter(p, v)
  BY <1>1 DEF Grows
<1> QED
  BY <1>1, <1>2 DEF PackageAfter, Kept, ReplacedAt, AddedAt, Superseded, PackageRecord

\* A step keeps one version current: a new one comes only with the mark on the old.
LEMMA CurrentKept ==
    ASSUME ChainTypeOK, OneCurrentVersion, ChainMoves
    PROVE  OneCurrentVersion'
<1>0. ChainTypeOK'
  BY TypesKept
<1>1. ASSUME NEW b \in Briefs, NEW v \in DOMAIN briefs'[b]
      PROVE  briefs'[b][v].state = "SUPERSEDED" <=> v < Len(briefs'[b])
  <2>1. v \in 1..Len(briefs'[b]) /\ Len(briefs'[b]) \in Nat /\ Len(briefs[b]) \in Nat
    BY <1>0, <1>1, Places, PlacesNext
  <2>2. Grows(briefs, briefs', b) /\ BriefAfter(b, v)
    BY <2>1 DEF ChainMoves, BriefsMove
  <2>3. v \in 1..Len(briefs[b]) => (briefs[b][v].state = "SUPERSEDED" <=> v < Len(briefs[b]))
    BY Places DEF OneCurrentVersion
  <2>4. v \in 1..Len(briefs[b]) => briefs[b][v] \in BriefRecord
    BY Places
  <2> QED
    BY <2>1, <2>2, <2>3, <2>4
       DEF BriefAfter, Grows, Kept, ChangedAt, ReplacedAt, AddedAt, Superseded, BriefRecord
<1>2. ASSUME NEW a \in Authorizations, NEW v \in DOMAIN authorizations'[a]
      PROVE  authorizations'[a][v].state = "SUPERSEDED" <=> v < Len(authorizations'[a])
  <2>1. /\ v \in 1..Len(authorizations'[a]) /\ Len(authorizations'[a]) \in Nat
        /\ Len(authorizations[a]) \in Nat
    BY <1>0, <1>2, Places, PlacesNext
  <2>2. Grows(authorizations, authorizations', a) /\ AuthorityAfter(a, v)
    BY <2>1 DEF ChainMoves, AuthoritiesMove
  <2>3. v \in 1..Len(authorizations[a])
        => (authorizations[a][v].state = "SUPERSEDED" <=> v < Len(authorizations[a]))
    BY Places DEF OneCurrentVersion
  <2>4. v \in 1..Len(authorizations[a]) => authorizations[a][v] \in AuthorityRecord
    BY Places
  <2> QED
    BY <2>1, <2>2, <2>3, <2>4
       DEF AuthorityAfter, Grows, Kept, ChangedAt, ReplacedAt, AddedAt, Superseded, AuthorityRecord
<1>3. ASSUME NEW p \in Packages, NEW v \in DOMAIN packages'[p]
      PROVE  packages'[p][v].state = "SUPERSEDED" <=> v < Len(packages'[p])
  <2>1. v \in 1..Len(packages'[p]) /\ Len(packages'[p]) \in Nat /\ Len(packages[p]) \in Nat
    BY <1>0, <1>3, Places, PlacesNext
  <2>2. Grows(packages, packages', p) /\ PackageAfter(p, v)
    BY <2>1 DEF ChainMoves, PackagesMove
  <2>3. v \in 1..Len(packages[p]) => (packages[p][v].state = "SUPERSEDED" <=> v < Len(packages[p]))
    BY Places DEF OneCurrentVersion
  <2>4. v \in 1..Len(packages[p]) => packages[p][v] \in PackageRecord
    BY Places
  <2> QED
    BY <2>1, <2>2, <2>3, <2>4
       DEF PackageAfter, Grows, Kept, ChangedAt, ReplacedAt, AddedAt, Superseded, PackageRecord
<1> QED
  BY <1>1, <1>2, <1>3 DEF OneCurrentVersion

\* What a step never takes from a version of a handoff.
LEMMA HandoffStable ==
    ASSUME ChainTypeOK, ChainMoves, NEW ref \in HandoffRef, ref.version \in 1..Len(handoffs[ref.id])
    PROVE  /\ ref.version \in 1..Len(handoffs'[ref.id])
           /\ handoffs'[ref.id][ref.version] = handoffs[ref.id][ref.version]
           /\ ref.version < Len(handoffs[ref.id]) => ref.version < Len(handoffs'[ref.id])
<1>1. /\ ref.id \in Handoffs /\ Len(handoffs[ref.id]) \in Nat /\ Len(handoffs'[ref.id]) \in Nat
  BY TypesKept, Places, PlacesNext DEF HandoffRef
<1>2. Len(handoffs[ref.id]) <= Len(handoffs'[ref.id])
  BY <1>1 DEF ChainMoves, HandoffsGrow
<1>3. handoffs'[ref.id][ref.version] = handoffs[ref.id][ref.version]
  BY <1>1 DEF ChainMoves, HandoffsGrow
<1> QED
  BY <1>1, <1>2, <1>3

\* An accepted brief stays accepted.
LEMMA AcceptedStable ==
    ASSUME ChainTypeOK, ChainMoves, NEW ref \in BriefRef, InState(briefs, ref, Accepted)
    PROVE  InState(briefs', ref, Accepted)
<1>1. ref.id \in Briefs /\ ref.version \in 1..Len(briefs[ref.id])
  BY Places DEF InState, Stored, BriefRef, Ref
<1>2. briefs[ref.id][ref.version].state \in Accepted
  BY DEF InState, Version
<1>3. ref.version \in 1..Len(briefs'[ref.id]) /\ briefs'[ref.id][ref.version].state \in Accepted
  BY <1>1, <1>2, BriefStable
<1>4. ref.version \in DOMAIN briefs'[ref.id]
  BY <1>1, <1>3, TypesKept, PlacesNext
<1> QED
  BY <1>3, <1>4 DEF InState, Stored, Version

\* An activated authorization stays activated, for the same brief.
LEMMA ActivatedStable ==
    ASSUME ChainTypeOK, ChainMoves, NEW ref \in AuthorityRef, InState(authorizations, ref, Activated)
    PROVE  /\ InState(authorizations', ref, Activated)
           /\ Version(authorizations', ref).brief = Version(authorizations, ref).brief
<1>1. ref.id \in Authorizations /\ ref.version \in 1..Len(authorizations[ref.id])
  BY Places DEF InState, Stored, AuthorityRef, Ref
<1>2. authorizations[ref.id][ref.version].state \in Activated
  BY DEF InState, Version
<1>3. /\ ref.version \in 1..Len(authorizations'[ref.id])
      /\ authorizations'[ref.id][ref.version].state \in Activated
      /\ authorizations'[ref.id][ref.version].brief = authorizations[ref.id][ref.version].brief
  BY <1>1, <1>2, AuthorityStable
<1>4. ref.version \in DOMAIN authorizations'[ref.id]
  BY <1>1, <1>3, TypesKept, PlacesNext
<1> QED
  BY <1>3, <1>4 DEF InState, Stored, Version

\* A step keeps every record below what it descends from: an old record by the
\* lemmas above, a new one because its sources were ready when it was made.
LEMMA DescentKept ==
    ASSUME ChainTypeOK, EveryRecordDescends, ChainMoves
    PROVE  EveryRecordDescends'
<1>1. ASSUME NEW b \in Briefs, NEW v \in DOMAIN briefs'[b]
      PROVE  /\ Stored(handoffs', briefs'[b][v].handoff)
             /\ Version(handoffs', briefs'[b][v].handoff) = "APPROVED"
  <2> DEFINE ref == briefs'[b][v].handoff
  <2>1. v \in 1..Len(briefs'[b]) /\ BriefAfter(b, v)
    BY TypesKept, PlacesNext DEF ChainMoves, BriefsMove
  <2>2. briefs'[b][v] \in BriefRecord /\ ref \in HandoffRef /\ ref.id \in Handoffs
    BY <2>1, TypesKept, PlacesNext DEF BriefRecord, HandoffRef
  <2>3. ref.version \in 1..Len(handoffs[ref.id]) /\ handoffs[ref.id][ref.version] = "APPROVED"
    <3>1. CASE v \in 1..Len(briefs[b])
      <4>1. ref = briefs[b][v].handoff
        BY <3>1, BriefStable
      <4>2. v \in DOMAIN briefs[b]
        BY <3>1, Places
      <4>3. Stored(handoffs, briefs[b][v].handoff) /\ Version(handoffs, briefs[b][v].handoff) = "APPROVED"
        BY <4>2 DEF EveryRecordDescends
      <4> QED
        BY <2>2, <4>1, <4>3, Places DEF Stored, Version
    <3>2. CASE v \notin 1..Len(briefs[b])
      <4>1. HandoffCurrent(ref)
        BY <2>1, <3>2 DEF BriefAfter, Kept, ChangedAt, ReplacedAt
      <4>2. ref.version \in 1..MaxHandoffVersion /\ MaxHandoffVersion \in Nat
        BY <2>2, VersionAssumption DEF HandoffRef
      <4> QED
        BY <4>1, <4>2 DEF HandoffCurrent, Version
    <3> QED
      BY <3>1, <3>2
  <2>4. ref.version \in 1..Len(handoffs'[ref.id]) /\ handoffs'[ref.id][ref.version] = "APPROVED"
    BY <2>2, <2>3, HandoffStable
  <2>5. DOMAIN handoffs'[ref.id] = 1..Len(handoffs'[ref.id])
    BY <2>2, TypesKept, PlacesNext
  <2> QED
    BY <2>4, <2>5 DEF Stored, Version
<1>2. ASSUME NEW a \in Authorizations, NEW v \in DOMAIN authorizations'[a]
      PROVE  InState(briefs', authorizations'[a][v].brief, Accepted)
  <2> DEFINE ref == authorizations'[a][v].brief
  <2>1. v \in 1..Len(authorizations'[a]) /\ AuthorityAfter(a, v)
    BY TypesKept, PlacesNext DEF ChainMoves, AuthoritiesMove
  <2>2. authorizations'[a][v] \in AuthorityRecord /\ ref \in BriefRef
    BY <2>1, TypesKept, PlacesNext DEF AuthorityRecord
  <2>3. InState(briefs, ref, Accepted)
    <3>1. CASE v \in 1..Len(authorizations[a])
      <4>1. ref = authorizations[a][v].brief
        BY <3>1, AuthorityStable
      <4>2. v \in DOMAIN authorizations[a]
        BY <3>1, Places
      <4> QED
        BY <4>1, <4>2 DEF EveryRecordDescends
    <3>2. CASE v \notin 1..Len(authorizations[a])
      <4>1. BriefReady(ref)
        BY <2>1, <3>2 DEF AuthorityAfter, Kept, ChangedAt, ReplacedAt
      <4> QED
        BY <4>1 DEF BriefReady, InState, Accepted
    <3> QED
      BY <3>1, <3>2
  <2>4. InState(briefs', ref, Accepted)
    BY <2>2, <2>3, AcceptedStable
  <2> QED
    BY <2>4
<1>3. ASSUME NEW p \in Packages, NEW v \in DOMAIN packages'[p]
      PROVE  /\ InState(briefs', packages'[p][v].brief, Accepted)
             /\ InState(authorizations', packages'[p][v].authorization, Activated)
             /\ Version(authorizations', packages'[p][v].authorization).brief = packages'[p][v].brief
  <2> DEFINE brief == packages'[p][v].brief
             authorization == packages'[p][v].authorization
  <2>1. v \in 1..Len(packages'[p]) /\ PackageAfter(p, v)
    BY TypesKept, PlacesNext DEF ChainMoves, PackagesMove
  <2>2. packages'[p][v] \in PackageRecord /\ brief \in BriefRef /\ authorization \in AuthorityRef
    BY <2>1, TypesKept, PlacesNext DEF PackageRecord
  <2>3. /\ InState(briefs, brief, Accepted) /\ InState(authorizations, authorization, Activated)
        /\ Version(authorizations, authorization).brief = brief
    <3>1. CASE v \in 1..Len(packages[p])
      <4>1. brief = packages[p][v].brief /\ authorization = packages[p][v].authorization
        BY <3>1, PackageStable
      <4>2. v \in DOMAIN packages[p]
        BY <3>1, Places
      <4> QED
        BY <4>1, <4>2 DEF EveryRecordDescends
    <3>2. CASE v \notin 1..Len(packages[p])
      <4>1. SourcesReady(brief, authorization)
        BY <2>1, <3>2 DEF PackageAfter, Kept, ChangedAt, ReplacedAt
      <4> QED
        BY <4>1 DEF SourcesReady, AuthorizationUsable, BriefReady, InState, Accepted, Activated
    <3> QED
      BY <3>1, <3>2
  <2>4. InState(briefs', brief, Accepted)
    BY <2>2, <2>3, AcceptedStable
  <2>5. /\ InState(authorizations', authorization, Activated)
        /\ Version(authorizations', authorization).brief = brief
    BY <2>2, <2>3, ActivatedStable
  <2> QED
    BY <2>4, <2>5
<1> QED
  BY <1>1, <1>2, <1>3 DEF EveryRecordDescends

\* Approvals are never withdrawn.
LEMMA SignaturesStay ==
    ASSUME ChainMoves, NEW subject, NEW ref, SignedByAll(subject, ref)
    PROVE  SignedByAll(subject, ref)'
  BY DEF ChainMoves, SignedByAll

\* The two ways to say that both sides have signed.
LEMMA SignaturesMeet ==
    ASSUME NEW subject, NEW ref
    PROVE  ApprovedByBoth(subject, ref) <=> SignedByAll(subject, ref)
  BY DEF ApprovedByBoth, SignedByAll

\* A step keeps the signatures under what took effect.
LEMMA SignedKept ==
    ASSUME ChainTypeOK, NothingWithoutBothSides, ChainMoves
    PROVE  NothingWithoutBothSides'
<1>1. ASSUME NEW ref \in BriefRef, InState(briefs, ref, Accepted)'
      PROVE  SignedByAll("brief", ref)'
  <2> DEFINE b == ref.id
             v == ref.version
  <2>1. b \in Briefs /\ v \in 1..Len(briefs'[b]) /\ ref = [id |-> b, version |-> v]
    BY <1>1, TypesKept, PlacesNext DEF InState, Stored, BriefRef, Ref
  <2>2. BriefAfter(b, v) /\ briefs'[b][v].state \in Accepted
    BY <1>1, <2>1 DEF ChainMoves, BriefsMove, InState, Version
  <2>3. \/ v \in 1..Len(briefs[b]) /\ briefs[b][v].state \in Accepted
        \/ ApprovedByBoth("brief", ref)
    BY <2>1, <2>2 DEF BriefAfter, Kept, ReplacedAt, Accepted
  <2>4. CASE v \in 1..Len(briefs[b]) /\ briefs[b][v].state \in Accepted
    <3>1. InState(briefs, ref, Accepted)
      BY <2>1, <2>4, Places DEF InState, Stored, Version
    <3> QED
      BY <3>1, SignaturesStay DEF NothingWithoutBothSides
  <2> QED
    BY <2>3, <2>4, SignaturesMeet, SignaturesStay
<1>2. ASSUME NEW ref \in AuthorityRef, InState(authorizations, ref, {"ACTIVE", "SUPERSEDED"})'
      PROVE  SignedByAll("authorization", ref)'
  <2> DEFINE a == ref.id
             v == ref.version
             S == {"ACTIVE", "SUPERSEDED"}
  <2>1. a \in Authorizations /\ v \in 1..Len(authorizations'[a]) /\ ref = [id |-> a, version |-> v]
    BY <1>2, TypesKept, PlacesNext DEF InState, Stored, AuthorityRef, Ref
  <2>2. AuthorityAfter(a, v) /\ authorizations'[a][v].state \in S
    BY <1>2, <2>1 DEF ChainMoves, AuthoritiesMove, InState, Version
  <2>a. v \in 1..Len(authorizations[a]) => authorizations[a][v] \in AuthorityRecord
    BY <2>1, Places
  <2>3. \/ v \in 1..Len(authorizations[a]) /\ authorizations[a][v].state \in S
        \/ ApprovedByBoth("authorization", ref)
    BY <2>1, <2>2, <2>a DEF AuthorityAfter, Kept, ChangedAt, ReplacedAt, AuthorityRecord
  <2>4. CASE v \in 1..Len(authorizations[a]) /\ authorizations[a][v].state \in S
    <3>1. InState(authorizations, ref, S)
      BY <2>1, <2>4, Places DEF InState, Stored, Version
    <3> QED
      BY <3>1, SignaturesStay DEF NothingWithoutBothSides
  <2> QED
    BY <2>3, <2>4, SignaturesMeet, SignaturesStay
<1>3. ASSUME NEW ref \in PackageRef, InState(packages, ref, {"RELEASED", "SUPERSEDED"})'
      PROVE  SignedByAll("package", ref)'
  <2> DEFINE p == ref.id
             v == ref.version
             S == {"RELEASED", "SUPERSEDED"}
  <2>1. p \in Packages /\ v \in 1..Len(packages'[p]) /\ ref = [id |-> p, version |-> v]
    BY <1>3, TypesKept, PlacesNext DEF InState, Stored, PackageRef, Ref
  <2>2. PackageAfter(p, v) /\ packages'[p][v].state \in S
    BY <1>3, <2>1 DEF ChainMoves, PackagesMove, InState, Version
  <2>3. \/ v \in 1..Len(packages[p]) /\ packages[p][v].state \in S
        \/ ApprovedByBoth("package", ref)
    BY <2>1, <2>2 DEF PackageAfter, Kept, ReplacedAt
  <2>4. CASE v \in 1..Len(packages[p]) /\ packages[p][v].state \in S
    <3>1. InState(packages, ref, S)
      BY <2>1, <2>4, Places DEF InState, Stored, Version
    <3> QED
      BY <3>1, SignaturesStay DEF NothingWithoutBothSides
  <2> QED
    BY <2>3, <2>4, SignaturesMeet, SignaturesStay
<1> QED
  BY <1>1, <1>2, <1>3 DEF NothingWithoutBothSides

\* A step keeps active authorizations past the start of their window.
LEMMA EarlyKept ==
    ASSUME ChainTypeOK, NoneActiveEarly, ChainMoves
    PROVE  NoneActiveEarly'
<1>1. ASSUME NEW a \in Authorizations, NEW v \in 1..Len(authorizations'[a]),
             authorizations'[a][v].state = "ACTIVE"
      PROVE  authorizations'[a][v].window # "early"
  <2>1. AuthorityAfter(a, v)
    BY DEF ChainMoves, AuthoritiesMove
  <2>2. v \in 1..Len(authorizations[a]) => authorizations[a][v] \in AuthorityRecord
    BY Places
  <2> QED
    BY <1>1, <2>1, <2>2
       DEF AuthorityAfter, Kept, ChangedAt, ReplacedAt, Superseded, AuthorityRecord, NoneActiveEarly
<1> QED
  BY <1>1 DEF NoneActiveEarly

\* The empty chain is safe.
LEMMA ChainInitSafe ==
    ASSUME ChainInit
    PROVE  ChainSafe
<1>1. \A R, Ids : [x \in Ids |-> <<>>] \in [Ids -> Seq(R)]
  OBVIOUS
<1>2. ChainTypeOK
  BY <1>1 DEF ChainInit, ChainTypeOK
<1>3. /\ \A b \in Briefs : briefs[b] = <<>>
      /\ \A a \in Authorizations : authorizations[a] = <<>>
      /\ \A p \in Packages : packages[p] = <<>>
  BY DEF ChainInit
<1>4. DOMAIN <<>> = {} /\ Len(<<>>) = 0
  OBVIOUS
<1>5. OneCurrentVersion /\ EveryRecordDescends /\ NoneActiveEarly
  BY <1>3, <1>4 DEF OneCurrentVersion, EveryRecordDescends, NoneActiveEarly
<1>6. NothingWithoutBothSides
  BY <1>3, <1>4 DEF NothingWithoutBothSides, InState, Stored, BriefRef, AuthorityRef, PackageRef, Ref
<1> QED
  BY <1>2, <1>5, <1>6 DEF ChainSafe

\* Any step of the given form keeps the invariant.
LEMMA ChainSafeKept ==
    ASSUME ChainSafe, ChainMoves
    PROVE  ChainSafe'
  BY TypesKept, CurrentKept, DescentKept, SignedKept, EarlyKept DEF ChainSafe

-----------------------------------------------------------------------------
(* What is lost stays lost.                                                *)

\* A brief that was accepted and is not ready never becomes ready: it was replaced,
\* or its handoff was, and neither is undone.
LEMMA BriefLost ==
    ASSUME ChainSafe, ChainMoves, NEW ref \in BriefRef,
           InState(briefs, ref, Accepted), ~BriefReady(ref)
    PROVE  ~BriefReady(ref)'
<1> DEFINE b == ref.id
           v == ref.version
           handoff == briefs[b][v].handoff
<1>0. ChainTypeOK /\ EveryRecordDescends /\ NothingWithoutBothSides
  BY DEF ChainSafe
<1>1. /\ b \in Briefs /\ v \in DOMAIN briefs[b] /\ v \in 1..Len(briefs[b])
      /\ briefs[b][v].state \in Accepted
  BY <1>0, Places DEF InState, Stored, Version, BriefRef, Ref
<1>2. /\ briefs[b][v].state = "SUPERSEDED" => briefs'[b][v].state = "SUPERSEDED"
      /\ briefs'[b][v].handoff = handoff
  BY <1>0, <1>1, BriefStable
<1>3. CASE briefs[b][v].state = "SUPERSEDED"
  BY <1>2, <1>3 DEF BriefReady, InState, Version
<1>4. CASE briefs[b][v].state = "APPROVED"
  <2>1. ApprovedByBoth("brief", ref)
    BY <1>0, SignaturesMeet DEF NothingWithoutBothSides
  <2>2. ~HandoffCurrent(handoff)
    BY <1>1, <1>4, <2>1 DEF BriefReady, InState, Stored, Version
  <2>3. /\ handoff \in HandoffRef /\ handoff.id \in Handoffs
    BY <1>0, <1>1, Places DEF BriefRecord, HandoffRef
  <2>4. /\ handoff.version \in 1..Len(handoffs[handoff.id])
        /\ handoffs[handoff.id][handoff.version] = "APPROVED"
    BY <1>0, <1>1, <2>3, Places DEF EveryRecordDescends, Stored, Version
  <2>5. Len(handoffs[handoff.id]) \in Nat /\ Len(handoffs'[handoff.id]) \in Nat
    BY <1>0, <2>3, Places, PlacesNext, TypesKept
  <2>6. handoff.version < Len(handoffs[handoff.id])
    BY <2>2, <2>4, <2>5 DEF HandoffCurrent, Version
  <2>7. handoff.version < Len(handoffs'[handoff.id])
    BY <1>0, <2>3, <2>4, <2>6, HandoffStable
  <2> QED
    BY <1>2, <2>4, <2>5, <2>7 DEF BriefReady, HandoffCurrent, Version
<1> QED
  BY <1>1, <1>3, <1>4 DEF Accepted

\* An authorization that was activated and is not usable never becomes usable: it
\* was replaced or revoked, it expired, or its brief was lost.
LEMMA AuthorityLost ==
    ASSUME ChainSafe, ChainMoves, NEW ref \in AuthorityRef,
           InState(authorizations, ref, Activated), ~AuthorizationUsable(ref)
    PROVE  ~AuthorizationUsable(ref)'
<1> DEFINE a == ref.id
           v == ref.version
           old == authorizations[a][v]
           new == authorizations'[a][v]
<1>0. ChainTypeOK /\ EveryRecordDescends /\ NothingWithoutBothSides /\ NoneActiveEarly
  BY DEF ChainSafe
<1>1. /\ a \in Authorizations /\ v \in DOMAIN authorizations[a] /\ v \in 1..Len(authorizations[a])
      /\ old.state \in Activated /\ old \in AuthorityRecord
  BY <1>0, Places DEF InState, Stored, Version, AuthorityRef, Ref
<1>2. /\ old.state \in {"REVOKED", "SUPERSEDED"} => new.state = old.state
      /\ new.brief = old.brief
      /\ old.window = "over" => new.window = "over"
  BY <1>0, <1>1, AuthorityStable
<1>3. CASE old.state \in {"REVOKED", "SUPERSEDED"}
  BY <1>2, <1>3 DEF AuthorizationUsable, InState, Version
<1>4. CASE old.state = "ACTIVE"
  <2>1. ApprovedByBoth("authorization", ref)
    <3>1. InState(authorizations, ref, {"ACTIVE", "SUPERSEDED"})
      BY <1>4, <1>1 DEF InState, Stored, Version
    <3> QED
      BY <1>0, <3>1, SignaturesMeet DEF NothingWithoutBothSides
  <2>2. old.window # "early" /\ old.window \in Windows
    BY <1>0, <1>1, <1>4 DEF NoneActiveEarly, AuthorityRecord
  <2>3. CASE old.window = "over"
    BY <1>2, <2>3 DEF AuthorizationUsable, Version
  <2>4. CASE old.window = "open"
    <3>1. ~BriefReady(old.brief)
      BY <1>1, <1>4, <2>1, <2>4 DEF AuthorizationUsable, InState, Stored, Version
    <3>2. old.brief \in BriefRef /\ InState(briefs, old.brief, Accepted)
      BY <1>0, <1>1 DEF EveryRecordDescends, AuthorityRecord
    <3>3. PICK brief \in BriefRef : brief = old.brief
      BY <3>2
    <3>4. ~BriefReady(brief)'
      BY <3>1, <3>2, <3>3, BriefLost
    <3>5. AuthorizationUsable(ref)' => BriefReady(brief)'
      BY <1>2, <3>3 DEF AuthorizationUsable, Version
    <3> QED
      BY <3>4, <3>5
  <2> QED
    BY <2>2, <2>3, <2>4 DEF Windows
<1> QED
  BY <1>1, <1>3, <1>4 DEF Activated

\* A package that was released and is not ready never becomes ready: it was
\* replaced, or its brief or its authorization was lost.
LEMMA PackageLost ==
    ASSUME ChainSafe, ChainMoves, NEW ref \in PackageRef,
           InState(packages, ref, {"RELEASED", "SUPERSEDED"}), ~PackageReady(ref)
    PROVE  ~PackageReady(ref)'
<1> DEFINE p == ref.id
           v == ref.version
           old == packages[p][v]
           new == packages'[p][v]
<1>0. ChainTypeOK /\ EveryRecordDescends /\ NothingWithoutBothSides
  BY DEF ChainSafe
<1>1. /\ p \in Packages /\ v \in DOMAIN packages[p] /\ v \in 1..Len(packages[p])
      /\ old.state \in {"RELEASED", "SUPERSEDED"} /\ old \in PackageRecord
  BY <1>0, Places DEF InState, Stored, Version, PackageRef, Ref
<1>2. /\ old.state = "SUPERSEDED" => new.state = "SUPERSEDED"
      /\ new.brief = old.brief /\ new.authorization = old.authorization
  BY <1>0, <1>1, PackageStable
<1>3. CASE old.state = "SUPERSEDED"
  BY <1>2, <1>3 DEF PackageReady, InState, Version
<1>4. CASE old.state = "RELEASED"
  <2>1. ApprovedByBoth("package", ref)
    BY <1>0, SignaturesMeet DEF NothingWithoutBothSides
  <2>2. ~SourcesReady(old.brief, old.authorization)
    BY <1>1, <1>4, <2>1 DEF PackageReady, InState, Stored, Version
  <2>3. PICK brief \in BriefRef, authorization \in AuthorityRef :
          brief = old.brief /\ authorization = old.authorization
    BY <1>1 DEF PackageRecord
  <2>4. /\ InState(briefs, brief, Accepted) /\ InState(authorizations, authorization, Activated)
        /\ Version(authorizations, authorization).brief = brief
    BY <1>0, <1>1, <2>3 DEF EveryRecordDescends
  <2>5. ~BriefReady(brief) \/ ~AuthorizationUsable(authorization)
    BY <2>2, <2>3, <2>4 DEF SourcesReady
  <2>6. ~BriefReady(brief)' \/ ~AuthorizationUsable(authorization)'
    BY <2>4, <2>5, BriefLost, AuthorityLost
  <2>7. PackageReady(ref)' => BriefReady(brief)' /\ AuthorizationUsable(authorization)'
    BY <1>2, <2>3 DEF PackageReady, SourcesReady, Version
  <2> QED
    BY <2>6, <2>7
<1> QED
  BY <1>1, <1>3, <1>4

-----------------------------------------------------------------------------
(* The theorems.                                                           *)

\* The invariant holds in every state of the chain, for any number of identities,
\* versions and any interleaving of the commands of the two sides.
THEOREM ChainInvariant == ChainSpec => []ChainSafe
<1>1. ChainSafe /\ [ChainNext]_chainVars => ChainSafe'
  BY ChainStep, ChainSafeKept DEF ChainSafe
<1> QED
  BY <1>1, ChainInitSafe, PTL DEF ChainSpec

\* At most the last version of an identity is open: revise leaves no second
\* current version behind.
THEOREM OneVersionIsCurrent == ChainSpec => []OneCurrentVersion
<1>1. ChainSafe => OneCurrentVersion
  BY DEF ChainSafe
<1> QED
  BY <1>1, ChainInvariant, PTL

\* Every record of the chain descends from records that had authority.
THEOREM RecordsDescend == ChainSpec => []EveryRecordDescends
<1>1. ChainSafe => EveryRecordDescends
  BY DEF ChainSafe
<1> QED
  BY <1>1, ChainInvariant, PTL

\* Nothing took effect without an approval of the client and one of the provider.
THEOREM BothSidesSigned == ChainSpec => []NothingWithoutBothSides
<1>1. ChainSafe => NothingWithoutBothSides
  BY DEF ChainSafe
<1> QED
  BY <1>1, ChainInvariant, PTL

\* A brief, an authorization or a package that stopped being usable is never usable
\* again: every read service of the chain can rely on its last answer "no".
THEOREM LossIsFinal == ChainSpec => LostForGood
<1> DEFINE Lost ==
      /\ \A ref \in BriefRef : InState(briefs, ref, Accepted) /\ ~BriefReady(ref) => ~BriefReady(ref)'
      /\ \A ref \in AuthorityRef :
           InState(authorizations, ref, Activated) /\ ~AuthorizationUsable(ref)
           => ~AuthorizationUsable(ref)'
      /\ \A ref \in PackageRef :
           InState(packages, ref, {"RELEASED", "SUPERSEDED"}) /\ ~PackageReady(ref) => ~PackageReady(ref)'
<1>1. ChainSafe /\ [ChainNext]_chainVars => Lost
  BY ChainStep, BriefLost, AuthorityLost, PackageLost DEF ChainSafe
<1> QED
  BY <1>1, ChainInvariant, PTL DEF ChainSpec, LostForGood
=============================================================================
