--------------------------- MODULE TenantActivation ---------------------------
(* One tenant's company and its owner's membership, two rows that a           *)
(* registration creates pending and an activation makes active.  The          *)
(* candidates do both in one transaction each; suspension, reinstatement and  *)
(* revocation are states of the tables that only an operator can set.         *)
(* The owner's token, factor and business are vouched for by others before    *)
(* either transaction begins: a caller they refuse does not call.             *)
VARIABLES
  company,      \* lifecycle_state of the organization, "NONE" without a row
  membership    \* membership_state of its owner, "NONE" without a row

tenantVars == <<company, membership>>

TenantInit == company = "NONE" /\ membership = "NONE"

\* propose: two inserts, the first refused by the unique business reference.
Register ==
  /\ company = "NONE"
  /\ company' = "PENDING_VERIFICATION"
  /\ membership' = "PENDING_VERIFICATION"

\* activate: both rows locked for update and both still pending.  An active
\* pair is a replay and read only, anything else a conflict.
Activate ==
  /\ company = "PENDING_VERIFICATION"
  /\ membership = "PENDING_VERIFICATION"
  /\ company' = "ACTIVE"
  /\ membership' = "ACTIVE"

\* An operator changes one of the rows.
Suspend ==
  /\ company \in {"PENDING_VERIFICATION", "ACTIVE"}
  /\ company' = "SUSPENDED"
  /\ UNCHANGED membership

Reinstate ==
  /\ company = "SUSPENDED"
  /\ company' = "ACTIVE"
  /\ UNCHANGED membership

RevokeOwner ==
  /\ membership \in {"PENDING_VERIFICATION", "ACTIVE"}
  /\ membership' = "REVOKED"
  /\ UNCHANGED company

\* The join that every reader of the pair asks for: an active company with an
\* active, verified owner.
ActiveOwner == company = "ACTIVE" /\ membership = "ACTIVE"

\* Every one of these updates a row, so it waits for whoever shares it.
TenantNext == Register \/ Activate \/ Suspend \/ Reinstate \/ RevokeOwner
=============================================================================
