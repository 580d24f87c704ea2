------------------------------ MODULE PolicyStore ------------------------------
(***************************************************************************)
(* The policy store as its interface promises it and as                    *)
(* internal/policystore/memory.go implements it: every operation is one    *)
(* critical section of the store's mutex.  An operation that returns an    *)
(* error changes nothing, so only the successful ones are actions.         *)
(***************************************************************************)
EXTENDS PolicyRows

VARIABLES drafts,  \* "new" (never created), "stored" or "deleted", by draft id
          active   \* the active row of each tenant
vars == <<drafts, active>>

Stored(d) == drafts[d] = "stored"
Pinned(d) == \E t \in Tenants : d \in {active[t].cur, active[t].prev}

Init == /\ drafts = [d \in Drafts |-> "new"]
        /\ active = [t \in Tenants |-> Empty]

\* Ids are random and never used again.
CreateDraft(d) ==
  /\ drafts[d] = "new"
  /\ drafts' = [drafts EXCEPT ![d] = "stored"]
  /\ UNCHANGED active

DeleteDraft(d) ==
  /\ Stored(d)
  /\ ~Pinned(d)
  /\ drafts' = [drafts EXCEPT ![d] = "deleted"]
  /\ UNCHANGED active

\* Promoting the draft that is already current writes nothing.
Promote(d, by, t) ==
  /\ Stored(d)
  /\ active[t].cur # d
  /\ active' = [active EXCEPT ![t] = Promoted(@, d, @.cur, by)]
  /\ UNCHANGED drafts

Propose(d, by, t) ==
  /\ by # None
  /\ Stored(d)
  /\ active' = [active EXCEPT ![t] = Proposed(@, d, by)]
  /\ UNCHANGED drafts

Approve(approver, t) ==
  /\ approver # None
  /\ active[t].prop # None
  /\ active[t].propBy # None
  /\ active[t].propBy # approver
  /\ Stored(active[t].prop)
  /\ active' = [active EXCEPT ![t] = Approved(@, @.prop, @.cur, @.propBy, approver)]
  /\ UNCHANGED drafts

RejectProposal(t) ==
  /\ active[t].prop # None
  /\ active' = [active EXCEPT ![t] = Rejected(@)]
  /\ UNCHANGED drafts

Rollback(by, t) ==
  /\ active[t].prev # None
  /\ active' = [active EXCEPT ![t] = RolledBack(@, @.prev, by)]
  /\ UNCHANGED drafts

\* The fallback slot is never cleared.
DeleteActive(t) ==
  /\ t # Default
  /\ active' = [active EXCEPT ![t] = Empty]
  /\ UNCHANGED drafts

Next ==
  \/ \E d \in Drafts : CreateDraft(d) \/ DeleteDraft(d)
  \/ \E t \in Tenants :
       \/ \E d \in Drafts, by \in Label : Promote(d, by, t) \/ Propose(d, by, t)
       \/ \E by \in Label : Approve(by, t) \/ Rollback(by, t)
       \/ RejectProposal(t) \/ DeleteActive(t)

Spec == Init /\ [][Next]_vars
=============================================================================
