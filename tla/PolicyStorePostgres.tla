-------------------------- MODULE PolicyStorePostgres --------------------------
(***************************************************************************)
(* The PostgreSQL policy store (internal/policystore/postgres.go): the     *)
(* operations of PolicyStore as transactions of several statements.        *)
(*                                                                         *)
(* BeginTx takes the default isolation, READ COMMITTED: each statement     *)
(* sees what is committed when it starts, a write waits for the row lock   *)
(* of another transaction and then updates the row that one left behind.   *)
(* A transaction's writes and its COMMIT are one step; locks matter only   *)
(* where they are taken earlier, in Approve's SELECT ... FOR UPDATE.       *)
(***************************************************************************)
EXTENDS PolicyRows

CONSTANT Txs  \* database sessions of the replicas' admin handlers

ASSUME TxsAssumption == None \notin Txs

VARIABLES
  drafts,  \* policy_drafts: "new", "stored" or "deleted", by draft id
  rows,    \* the tenants with a row of policy_active
  active,  \* policy_active: what a SELECT reads of each tenant; Empty without a row
  tx,      \* of each session: the operation it runs, its step and what it read
  lock,    \* the session that holds the tenant's row FOR UPDATE, or None
  overlapped  \* history: open transactions during which another one committed
vars == <<drafts, rows, active, tx, lock, overlapped>>

Idle == [op |-> "idle"]

\* The operation and the inputs of a transaction, its next step, and the
\* columns its statements have read.
PromoteTx == [op : {"promote"}, step : {"read", "write"},
              draft : Drafts, by : Label, tenant : Tenants, cur : DraftRef]
ProposeTx == [op : {"propose"}, step : {"write"},
              draft : Drafts, by : Operators, tenant : Tenants, cur : {None}]
ApproveTx == [op : {"approve"}, step : {"check", "write"}, by : Operators, tenant : Tenants,
              cur : DraftRef, prop : Drafts, propBy : Operators]
RollbackTx == [op : {"rollback"}, step : {"write"}, by : Label, tenant : Tenants, prev : Drafts]
DeleteTx == [op : {"delete"}, step : {"read", "write"}, draft : Drafts]
Tx == PromoteTx \cup ProposeTx \cup ApproveTx \cup RollbackTx \cup DeleteTx \cup {Idle}

TypeOK ==
  /\ drafts \in [Drafts -> {"new", "stored", "deleted"}]
  /\ rows \subseteq Tenants
  /\ active \in [Tenants -> Row]
  /\ tx \in [Txs -> Tx]
  /\ lock \in [Tenants -> Txs \cup {None}]
  /\ overlapped \subseteq {x \in Txs : tx[x] # Idle}
  /\ \A t \in Tenants :
       /\ t \notin rows => active[t] = Empty
       /\ active[t].prop = None <=> active[t].propBy = None
       /\ lock[t] # None => tx[lock[t]].op = "approve" /\ tx[lock[t]].tenant = t

\* The migration seeds the row of the fallback slot.
Init ==
  /\ drafts = [d \in Drafts |-> "new"]
  /\ rows = Tenants \cap {Default}
  /\ active = [t \in Tenants |-> Empty]
  /\ tx = [x \in Txs |-> Idle]
  /\ lock = [t \in Tenants |-> None]
  /\ overlapped = {}

Stored(d) == drafts[d] = "stored"
Free(t) == lock[t] = None
At(x, op, step) == tx[x].op = op /\ tx[x].step = step
Step(x, step) == tx' = [tx EXCEPT ![x].step = step]
Done(x) == tx' = [tx EXCEPT ![x] = Idle]

\* x ends without having written, or commits a write.
Ends(x) == overlapped' = overlapped \ {x}
Commits(x) == overlapped' = {y \in Txs \ {x} : tx[y] # Idle}

-----------------------------------------------------------------------------
CreateDraft(x, d) ==
  /\ tx[x] = Idle
  /\ drafts[d] = "new"
  /\ drafts' = [drafts EXCEPT ![d] = "stored"]
  /\ Commits(x)
  /\ UNCHANGED <<rows, active, tx, lock>>

(* Promote: check the draft, read the row, upsert it and commit.           *)

\* Promote and Propose check that the draft exists; Propose refuses an
\* unnamed proposer before.
BeginPromote(x, op, d, by, t) ==
  /\ tx[x] = Idle
  /\ op = "propose" => by # None
  /\ Stored(d)
  /\ tx' = [tx EXCEPT ![x] =
              [op |-> op, step |-> IF op = "promote" THEN "read" ELSE "write",
               draft |-> d, by |-> by, tenant |-> t, cur |-> None]]
  /\ UNCHANGED <<drafts, rows, active, lock, overlapped>>

\* A draft that is current already is left alone.
PromoteRead(x) ==
  /\ At(x, "promote", "read")
  /\ LET cur == active[tx[x].tenant].cur IN
       IF cur = tx[x].draft
         THEN Done(x) /\ Ends(x)
         ELSE /\ tx' = [tx EXCEPT ![x].cur = cur, ![x].step = "write"]
              /\ UNCHANGED overlapped
  /\ UNCHANGED <<drafts, rows, active, lock>>

\* INSERT ... ON CONFLICT DO UPDATE: the columns it sets have the values of
\* this transaction, the others those of the row as it is now.
PromoteWrite(x) ==
  LET t == tx[x].tenant IN
  /\ At(x, "promote", "write")
  /\ Free(t)
  /\ rows' = rows \cup {t}
  /\ active' = [active EXCEPT ![t] = Promoted(@, tx[x].draft, tx[x].cur, tx[x].by)]
  /\ Done(x)
  /\ Commits(x)
  /\ UNCHANGED <<drafts, lock>>

ProposeWrite(x) ==
  LET t == tx[x].tenant IN
  /\ At(x, "propose", "write")
  /\ Free(t)
  /\ rows' = rows \cup {t}
  /\ active' = [active EXCEPT ![t] = Proposed(@, tx[x].draft, tx[x].by)]
  /\ Done(x)
  /\ Commits(x)
  /\ UNCHANGED <<drafts, lock>>

-----------------------------------------------------------------------------
(* Approve: lock and read the row, check the draft, update and commit.     *)

\* Mutant: a plain SELECT.
ApproveReadUnlocked(x, approver, t) ==
  LET row == active[t] IN
  /\ tx[x] = Idle
  /\ approver # None
  /\ row.prop # None
  /\ row.propBy \notin {None, approver}
  /\ tx' = [tx EXCEPT ![x] =
              [op |-> "approve", step |-> "check", by |-> approver, tenant |-> t,
               cur |-> row.cur, prop |-> row.prop, propBy |-> row.propBy]]
  /\ UNCHANGED <<drafts, rows, active, lock, overlapped>>

ApproveRead(x, approver, t) ==
  LET row == active[t] IN
  /\ tx[x] = Idle
  /\ approver # None
  /\ Free(t)
  /\ row.prop # None
  /\ row.propBy \notin {None, approver}
  /\ lock' = [lock EXCEPT ![t] = x]
  /\ tx' = [tx EXCEPT ![x] =
              [op |-> "approve", step |-> "check", by |-> approver, tenant |-> t,
               cur |-> row.cur, prop |-> row.prop, propBy |-> row.propBy]]
  /\ UNCHANGED <<drafts, rows, active, overlapped>>

Unlocked(x) == [t \in Tenants |-> IF lock[t] = x THEN None ELSE lock[t]]

\* The draft may have been deleted while it was pending.
ApproveCheck(x) ==
  /\ At(x, "approve", "check")
  /\ IF Stored(tx[x].prop)
       THEN Step(x, "write") /\ UNCHANGED <<lock, overlapped>>
       ELSE Done(x) /\ Ends(x) /\ lock' = Unlocked(x)
  /\ UNCHANGED <<drafts, rows, active>>

ApproveWrite(x) ==
  LET t == tx[x].tenant IN
  /\ At(x, "approve", "write")
  /\ lock[t] \in {x, None}
  /\ active' = [active EXCEPT ![t] = IF t \notin rows THEN @ ELSE
                  Approved(@, tx[x].prop, tx[x].cur, tx[x].propBy, tx[x].by)]
  /\ Done(x)
  /\ lock' = Unlocked(x)
  /\ Commits(x)
  /\ UNCHANGED <<drafts, rows>>

-----------------------------------------------------------------------------
(* One UPDATE; two statements; one DELETE; three statements.               *)

RejectProposal(x, t) ==
  /\ tx[x] = Idle
  /\ Free(t)
  /\ active[t].prop # None
  /\ active' = [active EXCEPT ![t] = Rejected(@)]
  /\ Commits(x)
  /\ UNCHANGED <<drafts, rows, tx, lock>>

RollbackRead(x, by, t) ==
  /\ tx[x] = Idle
  /\ active[t].prev # None
  /\ tx' = [tx EXCEPT ![x] = [op |-> "rollback", step |-> "write", by |-> by,
                              tenant |-> t, prev |-> active[t].prev]]
  /\ UNCHANGED <<drafts, rows, active, lock, overlapped>>

\* The UPDATE has nothing to do when the row was deleted meanwhile.
RollbackWrite(x) ==
  LET t == tx[x].tenant IN
  /\ At(x, "rollback", "write")
  /\ Free(t)
  /\ active' = [active EXCEPT ![t] =
                  IF t \in rows THEN RolledBack(@, tx[x].prev, tx[x].by) ELSE @]
  /\ Done(x)
  /\ Commits(x)
  /\ UNCHANGED <<drafts, rows, lock>>

DeleteActive(x, t) ==
  /\ tx[x] = Idle
  /\ t # Default
  /\ Free(t)
  /\ rows' = rows \ {t}
  /\ active' = [active EXCEPT ![t] = Empty]
  /\ Commits(x)
  /\ UNCHANGED <<drafts, tx, lock>>

BeginDelete(x, d) ==
  /\ tx[x] = Idle
  /\ Stored(d)
  /\ tx' = [tx EXCEPT ![x] = [op |-> "delete", step |-> "read", draft |-> d]]
  /\ UNCHANGED <<drafts, rows, active, lock, overlapped>>

Pinned(d) == \E t \in Tenants : d \in {active[t].cur, active[t].prev}

\* Mutant: the rollback target is not looked at.
DeleteReadCurrent(x) ==
  /\ At(x, "delete", "read")
  /\ IF \E t \in Tenants : active[t].cur = tx[x].draft
       THEN Done(x) /\ Ends(x)
       ELSE Step(x, "write") /\ UNCHANGED overlapped
  /\ UNCHANGED <<drafts, rows, active, lock>>

DeleteRead(x) ==
  /\ At(x, "delete", "read")
  /\ IF Pinned(tx[x].draft)
       THEN Done(x) /\ Ends(x)
       ELSE Step(x, "write") /\ UNCHANGED overlapped
  /\ UNCHANGED <<drafts, rows, active, lock>>

DeleteWrite(x) ==
  /\ At(x, "delete", "write")
  /\ drafts' = [drafts EXCEPT ![tx[x].draft] = "deleted"]
  /\ Done(x)
  /\ Commits(x)
  /\ UNCHANGED <<rows, active, lock>>

\* A statement or the COMMIT fails, or the request's context ends.
Abort(x) ==
  /\ tx[x] # Idle
  /\ Done(x)
  /\ Ends(x)
  /\ lock' = Unlocked(x)
  /\ UNCHANGED <<drafts, rows, active>>

-----------------------------------------------------------------------------
Begin(x) ==
  \/ \E t \in Tenants :
       \/ \E d \in Drafts, by \in Label, op \in {"promote", "propose"} :
            BeginPromote(x, op, d, by, t)
       \/ \E by \in Label : ApproveRead(x, by, t) \/ RollbackRead(x, by, t)
  \/ \E d \in Drafts : BeginDelete(x, d)

\* Operations of a single statement.
Single(x) ==
  \/ \E d \in Drafts : CreateDraft(x, d)
  \/ \E t \in Tenants : RejectProposal(x, t) \/ DeleteActive(x, t)

Continue(x) ==
  \/ PromoteRead(x) \/ PromoteWrite(x) \/ ProposeWrite(x)
  \/ ApproveCheck(x) \/ ApproveWrite(x) \/ RollbackWrite(x)
  \/ DeleteRead(x) \/ DeleteWrite(x) \/ Abort(x)

Next == \E x \in Txs : Begin(x) \/ Continue(x) \/ Single(x)

Spec == Init /\ [][Next]_vars

-----------------------------------------------------------------------------
(* Properties.                                                             *)

\* As in PolicyStore: a row that names an approver names someone else as the
\* one who asked, however proposals, promotions and approvals interleave.
TwoPersonRule ==
  \A t \in Tenants :
    active[t].approved # None =>
      active[t].cur # None /\ active[t].by \notin {None, active[t].approved}

\* The draft an approval makes live is the one that is proposed at that
\* moment, by the operator the row then names as its promoter, who is not
\* the approver: no re-proposal slips between the check and the update.
ApprovesWhatIsProposed ==
  [][\A t \in Tenants :
       LET old == active[t]
           new == active'[t] IN
       /\ new.approved # None
       /\ <<new.cur, new.by, new.approved>> # <<old.cur, old.by, old.approved>>
       => /\ new.cur = old.prop /\ new.by = old.propBy
          /\ new.prev = old.cur
          /\ new.approved # old.propBy]_vars

\* A transaction that no other commit overlaps acts as the one atomic
\* operation of PolicyStore, whatever it interleaved with: only a commit
\* between its first read and its own can make it do anything else.
Store == INSTANCE PolicyStore
QuietTransactionsAtomic ==
  [][\/ Store!Next
     \/ UNCHANGED <<drafts, active>>
     \/ \E x \in overlapped : tx'[x] = Idle]_vars
=============================================================================
