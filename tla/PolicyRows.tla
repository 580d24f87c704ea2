------------------------------ MODULE PolicyRows ------------------------------
(***************************************************************************)
(* The rows of the policy store (internal/policystore): which drafts       *)
(* exist, and the active pointer of each tenant.  The operators give the   *)
(* new row each store operation writes; both backends write the same rows  *)
(* and differ in how the reads and the write are made atomic.              *)
(***************************************************************************)
CONSTANTS Drafts,     \* draft ids
          Operators,  \* operator labels
          Tenants,    \* tenants with an active pointer
          Default,    \* the tenant "" of the fallback slot
          None        \* the empty string of a draft id or an operator label

ASSUME NoneAssumption == None \notin Drafts \cup Operators

Label == Operators \cup {None}
DraftRef == Drafts \cup {None}

\* type Active, without its tenant and its timestamps.
Row == [cur : DraftRef, prev : DraftRef, by : Label, approved : Label,
        prop : DraftRef, propBy : Label]

\* A tenant without a row, and the zero value GetActive returns for it.
Empty == [cur |-> None, prev |-> None, by |-> None, approved |-> None,
          prop |-> None, propBy |-> None]

\* Mutant: the approver of the previous policy is inherited.
PromotedInheriting(row, d, prior, by) ==
  [row EXCEPT !.cur = d, !.prev = prior, !.by = by]

\* A direct promotion clears the approver and keeps a pending proposal.
Promoted(row, d, prior, by) ==
  [row EXCEPT !.cur = d, !.prev = prior, !.by = by, !.approved = None]

Proposed(row, d, by) == [row EXCEPT !.prop = d, !.propBy = by]

\* The proposer stays the promoter; the approver is the second signature.
Approved(row, d, prior, by, approver) ==
  [row EXCEPT !.cur = d, !.prev = prior, !.by = by, !.approved = approver,
              !.prop = None, !.propBy = None]

Rejected(row) == [row EXCEPT !.prop = None, !.propBy = None]

\* One step back only: there is no previous draft afterwards.
RolledBack(row, prior, by) ==
  [row EXCEPT !.cur = prior, !.prev = None, !.by = by, !.approved = None]
=============================================================================
