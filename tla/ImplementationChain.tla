-------------------------- MODULE ImplementationChain --------------------------
(***************************************************************************)
(* The implementation half of the Phase 5D authority chain: the accepted   *)
(* ImplementationHandoff, the brief made from it, the authorization made   *)
(* from the brief, and the build package made from both                    *)
(* (src/avuhz_runtime/implementation_handoff.py, phase5d_brief.py,         *)
(* phase5d_authorization.py, phase5d_package.py).                          *)
(*                                                                         *)
(* A command is judged and committed in one step.  CommandExecutor         *)
(* justifies that for the record a command writes; that the records it     *)
(* only reads stand still meanwhile is a simplification of this module,    *)
(* which AuthorityRace drops for the delivery half.  A record is known by  *)
(* its identity and version; its body never changes, so the digests that   *)
(* bind one record to another are the references themselves, and           *)
(* expected_record_version always names the state that is read.            *)
(***************************************************************************)
EXTENDS Naturals, Sequences

CONSTANTS
    Handoffs,           \* implementation_handoff_id
    Briefs,             \* implementation_brief_id
    Authorizations,     \* implementation_authorization_id
    Packages,           \* codex_build_package_id
    MaxHandoffVersion,  \* bound: versions of one handoff
    MaxVersion          \* bound: versions of one brief, authorization or package

ASSUME VersionAssumption == MaxHandoffVersion \in Nat /\ MaxVersion \in Nat

VARIABLES
    handoffs,        \* the versions of each identity, oldest first
    briefs,
    authorizations,
    packages,
    approvals        \* active Phase 5D human approvals

chainVars == <<handoffs, briefs, authorizations, packages, approvals>>

Versions == 1..MaxVersion

Ref(Ids)      == [id : Ids, version : Versions]
HandoffRef    == [id : Handoffs, version : 1..MaxHandoffVersion]
BriefRef      == Ref(Briefs)
AuthorityRef  == Ref(Authorizations)
PackageRef    == Ref(Packages)

Roles == {"CLIENT", "PROVIDER"}

\* Where the clock stands in the validity window of an authorization.
Windows == {"early", "open", "over"}

\* What an approval is recorded for.
Approval(subject, ref, role) == [subject |-> subject, ref |-> ref, role |-> role]

ChainInit ==
    /\ handoffs = [h \in Handoffs |-> <<>>]
    /\ briefs = [b \in Briefs |-> <<>>]
    /\ authorizations = [a \in Authorizations |-> <<>>]
    /\ packages = [p \in Packages |-> <<>>]
    /\ approvals = {}

-----------------------------------------------------------------------------
(* Versioned records.                                                      *)

\* get_version finds a record.
Stored(store, ref) == ref.version \in DOMAIN store[ref.id]

\* get_version
Version(store, ref) == store[ref.id][ref.version]

\* A version in this state.
InState(store, ref, states) == Stored(store, ref) /\ Version(store, ref).state \in states

\* get_current is the last version: every earlier one is SUPERSEDED, or was
\* REVOKED before a replacement.
Latest(store, id) == store[id][Len(store[id])]

\* create_initial: the identity has no version yet.
Fresh(store, id) == store[id] = <<>> /\ MaxVersion > 0

\* The current version is in this state, and a replacement fits.
Revisable(store, id, states) ==
    /\ store[id] # <<>>
    /\ Latest(store, id).state \in states
    /\ Len(store[id]) < MaxVersion

Initial(store, id, record) == [store EXCEPT ![id] = <<record>>]

SetState(store, ref, state) == [store EXCEPT ![ref.id][ref.version].state = state]

\* Mutant: the version that is replaced keeps its state.
RevisedBeside(store, id, record) == [store EXCEPT ![id] = Append(@, record)]

\* revise: the replaced version becomes SUPERSEDED, its replacement is added.
Revised(store, id, record) ==
    [store EXCEPT ![id] = Append([@ EXCEPT ![Len(store[id])].state = "SUPERSEDED"], record)]

\* A human of one side approves exactly one version, once.
Approve(subject, ref, role) ==
    /\ Approval(subject, ref, role) \notin approvals
    /\ approvals' = approvals \cup {Approval(subject, ref, role)}

\* Mutant: one signature is enough.
ApprovedByEither(subject, ref) == \E role \in Roles : Approval(subject, ref, role) \in approvals

ApprovedByBoth(subject, ref) == \A role \in Roles : Approval(subject, ref, role) \in approvals

-----------------------------------------------------------------------------
(* Readiness: what each read service derives from the records.             *)

\* resolve_implementation_brief_sources: the exact version is the current one
\* and it is approved.
HandoffCurrent(ref) ==
    /\ ref.version = Len(handoffs[ref.id])
    /\ Version(handoffs, ref) = "APPROVED"

\* Mutant: both signatures are enough.
BriefSigned(ref) ==
    /\ Stored(briefs, ref)
    /\ HandoffCurrent(Version(briefs, ref).handoff)
    /\ ApprovedByBoth("brief", ref)

BriefReady(ref) ==
    /\ InState(briefs, ref, {"APPROVED"})
    /\ HandoffCurrent(Version(briefs, ref).handoff)
    /\ ApprovedByBoth("brief", ref)

AuthorizationUsable(ref) ==
    /\ InState(authorizations, ref, {"ACTIVE"})
    /\ Version(authorizations, ref).window = "open"
    /\ BriefReady(Version(authorizations, ref).brief)
    /\ ApprovedByBoth("authorization", ref)

\* _exact_sources: the authorization is usable and made from the same brief.
SourcesReady(brief, authorization) ==
    /\ BriefReady(brief)
    /\ AuthorizationUsable(authorization)
    /\ Version(authorizations, authorization).brief = brief

PackageReady(ref) ==
    /\ InState(packages, ref, {"RELEASED"})
    /\ SourcesReady(Version(packages, ref).brief, Version(packages, ref).authorization)
    /\ ApprovedByBoth("package", ref)

-----------------------------------------------------------------------------
(* The handoff.                                                            *)

\* accept: first an approved version; later ones supersede the exact current
\* version, and a revocation is the last.
AcceptHandoff(h) ==
    /\ Len(handoffs[h]) < MaxHandoffVersion
    /\ \/ handoffs[h] = <<>> /\ handoffs' = [handoffs EXCEPT ![h] = <<"APPROVED">>]
       \/ /\ handoffs[h] # <<>>
          /\ handoffs[h][Len(handoffs[h])] # "REVOKED"
          /\ \E state \in {"APPROVED", "REVOKED"} :
               handoffs' = [handoffs EXCEPT ![h] = Append(@, state)]
    /\ UNCHANGED <<briefs, authorizations, packages, approvals>>

-----------------------------------------------------------------------------
(* The brief.                                                              *)

NewBrief(handoff) == [state |-> "DRAFT", handoff |-> handoff]

DraftBrief(b, handoff) ==
    /\ HandoffCurrent(handoff)
    /\ Fresh(briefs, b)
    /\ briefs' = Initial(briefs, b, NewBrief(handoff))
    /\ UNCHANGED <<handoffs, authorizations, packages, approvals>>

ReviseBrief(b, handoff) ==
    /\ HandoffCurrent(handoff)
    /\ Revisable(briefs, b, {"APPROVED"})
    /\ briefs' = Revised(briefs, b, NewBrief(handoff))
    /\ UNCHANGED <<handoffs, authorizations, packages, approvals>>

RecordBriefApproval(ref, role) ==
    /\ InState(briefs, ref, {"DRAFT"})
    /\ Approve("brief", ref, role)
    /\ UNCHANGED <<handoffs, briefs, authorizations, packages>>

\* The sources are resolved again, with the approvals over this version.
ApproveBrief(ref) ==
    /\ InState(briefs, ref, {"DRAFT"})
    /\ HandoffCurrent(Version(briefs, ref).handoff)
    /\ ApprovedByBoth("brief", ref)
    /\ briefs' = SetState(briefs, ref, "APPROVED")
    /\ UNCHANGED <<handoffs, authorizations, packages, approvals>>

-----------------------------------------------------------------------------
(* The implementation authorization.                                       *)

NewAuthorization(brief, window) == [state |-> "PROPOSED", brief |-> brief, window |-> window]

ProposeAuthorization(a, brief, window) ==
    /\ BriefReady(brief)
    /\ Fresh(authorizations, a)
    /\ authorizations' = Initial(authorizations, a, NewAuthorization(brief, window))
    /\ UNCHANGED <<handoffs, briefs, packages, approvals>>

ReviseAuthorization(a, brief, window) ==
    /\ BriefReady(brief)
    /\ Revisable(authorizations, a, {"ACTIVE"})
    /\ authorizations' = Revised(authorizations, a, NewAuthorization(brief, window))
    /\ UNCHANGED <<handoffs, briefs, packages, approvals>>

RecordAuthorizationApproval(ref, role) ==
    /\ InState(authorizations, ref, {"PROPOSED"})
    /\ Approve("authorization", ref, role)
    /\ UNCHANGED <<handoffs, briefs, authorizations, packages>>

\* Mutant: both sides signed, whatever the time is.
MayActivateEarly(ref) ==
    /\ InState(authorizations, ref, {"PROPOSED"})
    /\ BriefReady(Version(authorizations, ref).brief)
    /\ ApprovedByBoth("authorization", ref)

MayActivate(ref) ==
    /\ InState(authorizations, ref, {"PROPOSED"})
    /\ BriefReady(Version(authorizations, ref).brief)
    /\ Version(authorizations, ref).window = "open"
    /\ ApprovedByBoth("authorization", ref)

ActivateAuthorization(ref) ==
    /\ MayActivate(ref)
    /\ authorizations' = SetState(authorizations, ref, "ACTIVE")
    /\ UNCHANGED <<handoffs, briefs, packages, approvals>>

\* A human of either side revokes the current version; the identity ends here.
RevokeAuthorization(a) ==
    /\ authorizations[a] # <<>>
    /\ Latest(authorizations, a).state \in {"PROPOSED", "ACTIVE"}
    /\ authorizations' = [authorizations EXCEPT ![a][Len(authorizations[a])].state = "REVOKED"]
    /\ UNCHANGED <<handoffs, briefs, packages, approvals>>

\* effective_at, then expires_at is reached.
AuthorizationClock(ref) ==
    /\ Stored(authorizations, ref)
    /\ \/ /\ Version(authorizations, ref).window = "early"
          /\ authorizations' = [authorizations EXCEPT ![ref.id][ref.version].window = "open"]
       \/ /\ Version(authorizations, ref).window = "open"
          /\ authorizations' = [authorizations EXCEPT ![ref.id][ref.version].window = "over"]
    /\ UNCHANGED <<handoffs, briefs, packages, approvals>>

-----------------------------------------------------------------------------
(* The build package.                                                      *)

NewPackage(brief, authorization) ==
    [state |-> "DRAFT", brief |-> brief, authorization |-> authorization]

DraftPackage(p, brief, authorization) ==
    /\ SourcesReady(brief, authorization)
    /\ Fresh(packages, p)
    /\ packages' = Initial(packages, p, NewPackage(brief, authorization))
    /\ UNCHANGED <<handoffs, briefs, authorizations, approvals>>

RevisePackage(p, brief, authorization) ==
    /\ SourcesReady(brief, authorization)
    /\ Revisable(packages, p, {"RELEASED"})
    /\ packages' = Revised(packages, p, NewPackage(brief, authorization))
    /\ UNCHANGED <<handoffs, briefs, authorizations, approvals>>

RecordPackageApproval(ref, role) ==
    /\ InState(packages, ref, {"DRAFT"})
    /\ Approve("package", ref, role)
    /\ UNCHANGED <<handoffs, briefs, authorizations, packages>>

MayRelease(ref) ==
    /\ InState(packages, ref, {"DRAFT"})
    /\ SourcesReady(Version(packages, ref).brief, Version(packages, ref).authorization)
    /\ ApprovedByBoth("package", ref)

ReleasePackage(ref) ==
    /\ MayRelease(ref)
    /\ packages' = SetState(packages, ref, "RELEASED")
    /\ UNCHANGED <<handoffs, briefs, authorizations, approvals>>

-----------------------------------------------------------------------------
HandoffNext == \E h \in Handoffs : AcceptHandoff(h)

BriefNext ==
    \/ \E b \in Briefs, handoff \in HandoffRef : DraftBrief(b, handoff) \/ ReviseBrief(b, handoff)
    \/ \E ref \in BriefRef :
         \/ \E role \in Roles : RecordBriefApproval(ref, role)
         \/ ApproveBrief(ref)

AuthorizationNext ==
    \/ \E a \in Authorizations :
         \/ \E brief \in BriefRef, window \in Windows :
              ProposeAuthorization(a, brief, window) \/ ReviseAuthorization(a, brief, window)
         \/ RevokeAuthorization(a)
    \/ \E ref \in AuthorityRef :
         \/ \E role \in Roles : RecordAuthorizationApproval(ref, role)
         \/ ActivateAuthorization(ref)
         \/ AuthorizationClock(ref)

PackageNext ==
    \/ \E p \in Packages, brief \in BriefRef, authorization \in AuthorityRef :
         DraftPackage(p, brief, authorization) \/ RevisePackage(p, brief, authorization)
    \/ \E ref \in PackageRef :
         \/ \E role \in Roles : RecordPackageApproval(ref, role)
         \/ ReleasePackage(ref)

ChainNext == HandoffNext \/ BriefNext \/ AuthorizationNext \/ PackageNext

ChainSpec == ChainInit /\ [][ChainNext]_chainVars

-----------------------------------------------------------------------------
(* Properties.                                                             *)

\* Every version but the last is history: SUPERSEDED, never still open.
OneCurrentVersion ==
    /\ \A b \in Briefs : \A v \in DOMAIN briefs[b] :
         briefs[b][v].state = "SUPERSEDED" <=> v < Len(briefs[b])
    /\ \A a \in Authorizations : \A v \in DOMAIN authorizations[a] :
         authorizations[a][v].state = "SUPERSEDED" <=> v < Len(authorizations[a])
    /\ \A p \in Packages : \A v \in DOMAIN packages[p] :
         packages[p][v].state = "SUPERSEDED" <=> v < Len(packages[p])

Accepted == {"APPROVED", "SUPERSEDED"}
Activated == {"ACTIVE", "REVOKED", "SUPERSEDED"}

\* Every record descends from records that had authority: a brief from an
\* approved version of its handoff, an authorization from an approved brief,
\* a package from an approved brief and an activated authorization for it.
EveryRecordDescends ==
    /\ \A b \in Briefs : \A v \in DOMAIN briefs[b] :
         Stored(handoffs, briefs[b][v].handoff) /\ Version(handoffs, briefs[b][v].handoff) = "APPROVED"
    /\ \A a \in Authorizations : \A v \in DOMAIN authorizations[a] :
         InState(briefs, authorizations[a][v].brief, Accepted)
    /\ \A p \in Packages : \A v \in DOMAIN packages[p] :
         /\ InState(briefs, packages[p][v].brief, Accepted)
         /\ InState(authorizations, packages[p][v].authorization, Activated)
         /\ Version(authorizations, packages[p][v].authorization).brief = packages[p][v].brief

\* There is an approval of each side.
SignedByAll(subject, ref) == {Approval(subject, ref, role) : role \in Roles} \subseteq approvals

\* Nothing took effect without both sides: what left DRAFT or PROPOSED
\* (otherwise than by a revocation) carries an approval of each.
NothingWithoutBothSides ==
    /\ \A ref \in BriefRef : InState(briefs, ref, Accepted) => SignedByAll("brief", ref)
    /\ \A ref \in AuthorityRef :
         InState(authorizations, ref, {"ACTIVE", "SUPERSEDED"}) => SignedByAll("authorization", ref)
    /\ \A ref \in PackageRef :
         InState(packages, ref, {"RELEASED", "SUPERSEDED"}) => SignedByAll("package", ref)

\* What a revision, a revocation or an expiry anywhere upstream made unusable
\* never becomes usable again: a correction is always a new version.
LostForGood ==
    [][/\ \A ref \in BriefRef : InState(briefs, ref, Accepted) /\ ~BriefReady(ref) => ~BriefReady(ref)'
       /\ \A ref \in AuthorityRef :
            InState(authorizations, ref, Activated) /\ ~AuthorizationUsable(ref) => ~AuthorizationUsable(ref)'
       /\ \A ref \in PackageRef :
            InState(packages, ref, {"RELEASED", "SUPERSEDED"}) /\ ~PackageReady(ref)
            => ~PackageReady(ref)']_chainVars
=============================================================================
