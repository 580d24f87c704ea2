---------------------------- MODULE PolicyProofs -----------------------------
(***************************************************************************)
(* The two-person rule of the policy store and the atomicity of its quiet  *)
(* transactions, for both backends, every set of drafts, operators and     *)
(* tenants and any number of database sessions.                            *)
(***************************************************************************)
EXTENDS PolicyBackends, TLAPS

\* What an open approval has read is still so: it holds the lock of its row.
ApprovalStands(x) ==
  LET t == tx[x].tenant IN
  /\ lock[t] = x
  /\ t \in rows
  /\ active[t].cur = tx[x].cur
  /\ active[t].prop = tx[x].prop
  /\ active[t].propBy = tx[x].propBy
  /\ tx[x].by # tx[x].propBy

ReadsStand == \A x \in Txs : tx[x].op = "approve" => ApprovalStands(x)

PostgresInv == TypeOK /\ ReadsStand /\ TwoPersonRule

\* The in-process store opens no transactions.
MemoryInv ==
  /\ active \in [Tenants -> Row]
  /\ TwoPersonRule

PolicyInv ==
  /\ backend \in {"memory", "postgres"}
  /\ backend = "postgres" => PostgresInv
  /\ backend = "memory" => MemoryInv

-----------------------------------------------------------------------------
\* The new rows are rows.
LEMMA PromotedRow ==
  ASSUME NEW row \in Row, NEW d \in DraftRef, NEW prior \in DraftRef, NEW by \in Label
  PROVE  Promoted(row, d, prior, by) \in Row
  BY Zenon DEF Promoted, Row, Label

LEMMA RolledBackRow ==
  ASSUME NEW row \in Row, NEW prior \in DraftRef, NEW by \in Label
  PROVE  RolledBack(row, prior, by) \in Row
  BY Zenon DEF RolledBack, Row, Label, DraftRef

LEMMA ProposedRow ==
  ASSUME NEW row \in Row, NEW d \in DraftRef, NEW by \in Label
  PROVE  Proposed(row, d, by) \in Row
  BY Zenon DEF Proposed, Row

LEMMA RejectedRow ==
  ASSUME NEW row \in Row
  PROVE  Rejected(row) \in Row
  BY Zenon DEF Rejected, Row, Label, DraftRef

LEMMA ApprovedRow ==
  ASSUME NEW row \in Row, NEW d \in DraftRef, NEW prior \in DraftRef,
         NEW by \in Label, NEW approver \in Label
  PROVE  Approved(row, d, prior, by, approver) \in Row
  BY Zenon DEF Approved, Row, Label, DraftRef

LEMMA EmptyRow == Empty \in Row
  BY DEF Empty, Row, Label, DraftRef

\* What each operation does with a proposal and with the signatures.
LEMMA PromotedFields ==
  ASSUME NEW row \in Row, NEW d, NEW prior, NEW by
  PROVE  /\ Promoted(row, d, prior, by).approved = None
         /\ Promoted(row, d, prior, by).prop = row.prop
         /\ Promoted(row, d, prior, by).propBy = row.propBy
  BY DEF Promoted, Row

LEMMA RolledBackFields ==
  ASSUME NEW row \in Row, NEW prior, NEW by
  PROVE  /\ RolledBack(row, prior, by).approved = None
         /\ RolledBack(row, prior, by).prop = row.prop
         /\ RolledBack(row, prior, by).propBy = row.propBy
  BY DEF RolledBack, Row

LEMMA ProposedFields ==
  ASSUME NEW row \in Row, NEW d, NEW by
  PROVE  /\ Proposed(row, d, by).prop = d
         /\ Proposed(row, d, by).propBy = by
         /\ Proposed(row, d, by).cur = row.cur
         /\ Proposed(row, d, by).by = row.by
         /\ Proposed(row, d, by).approved = row.approved
  BY DEF Proposed, Row

LEMMA RejectedFields ==
  ASSUME NEW row \in Row
  PROVE  /\ Rejected(row).prop = None
         /\ Rejected(row).propBy = None
         /\ Rejected(row).cur = row.cur
         /\ Rejected(row).by = row.by
         /\ Rejected(row).approved = row.approved
  BY DEF Rejected, Row

LEMMA ApprovedFields ==
  ASSUME NEW row \in Row, NEW d, NEW prior, NEW by, NEW approver
  PROVE  /\ Approved(row, d, prior, by, approver).prop = None
         /\ Approved(row, d, prior, by, approver).propBy = None
         /\ Approved(row, d, prior, by, approver).cur = d
         /\ Approved(row, d, prior, by, approver).prev = prior
         /\ Approved(row, d, prior, by, approver).by = by
         /\ Approved(row, d, prior, by, approver).approved = approver
  BY DEF Approved, Row

LEMMA EmptyFields ==
  Empty.prop = None /\ Empty.propBy = None /\ Empty.approved = None
  BY DEF Empty

\* The operation of a transaction tells which record it is.
LEMMA TxKinds ==
  ASSUME NEW v \in Tx
  PROVE  /\ v.op = "promote" => v \in PromoteTx
         /\ v.op = "propose" => v \in ProposeTx
         /\ v.op = "approve" => v \in ApproveTx
         /\ v.op = "rollback" => v \in RollbackTx
         /\ v.op = "delete" => v \in DeleteTx
  BY DEF Tx, PromoteTx, ProposeTx, ApproveTx, RollbackTx, DeleteTx, Idle

-----------------------------------------------------------------------------
\* A step that opens or advances a transaction and leaves the rows alone keeps
\* the invariant, if the transaction it leaves behind is well formed and
\* stands.
LEMMA TxStep ==
  ASSUME PostgresInv, NEW x \in Txs, NEW v \in Tx,
         tx' = [tx EXCEPT ![x] = v], UNCHANGED <<rows, active, lock>>,
         \A t \in Tenants : lock[t] = x => v.op = "approve" /\ v.tenant = t,
         v.op = "approve" => ApprovalStands(x)',
         drafts' \in [Drafts -> {"new", "stored", "deleted"}],
         v # Idle, overlapped' = overlapped
  PROVE  PostgresInv'
<1>1. TypeOK'
  BY DEF PostgresInv, TypeOK
<1>2. ReadsStand'
  BY DEF PostgresInv, TypeOK, ReadsStand, ApprovalStands
<1>3. TwoPersonRule'
  BY DEF PostgresInv, TwoPersonRule
<1> QED BY <1>1, <1>2, <1>3 DEF PostgresInv

\* The end of a transaction releases its lock and keeps the invariant, if the
\* row it leaves is one and the lock let it write.
LEMMA EndStep ==
  ASSUME PostgresInv, NEW x \in Txs,
         tx' = [tx EXCEPT ![x] = Idle], lock' = Unlocked(x),
         drafts' \in [Drafts -> {"new", "stored", "deleted"}],
         overlapped' \subseteq {y \in Txs \ {x} : tx[y] # Idle},
         \/ UNCHANGED <<rows, active>>
         \/ \E t \in Tenants, row \in Row :
              /\ lock[t] \in {x, None}
              /\ active' = [active EXCEPT ![t] = row]
              /\ rows' \in {rows, rows \cup {t}, rows \ {t}}
              /\ t \notin rows' => row = Empty
              /\ row.prop = None <=> row.propBy = None
              /\ row.approved # None =>
                   row.cur # None /\ row.by \notin {None, row.approved}
  PROVE  PostgresInv'
<1> USE DEF PostgresInv
<1>1. tx' \in [Txs -> Tx] /\ lock' \in [Tenants -> Txs \cup {None}]
  BY DEF TypeOK, Unlocked, Tx
<1>2. \A t \in Tenants :
        lock'[t] # None => tx'[lock'[t]].op = "approve" /\ tx'[lock'[t]].tenant = t
  BY DEF TypeOK, Unlocked
<1>3. CASE UNCHANGED <<rows, active>>
  <2>1. TypeOK'
    BY <1>1, <1>2, <1>3 DEF TypeOK
  <2>2. ReadsStand'
    <3> SUFFICES ASSUME NEW y \in Txs, tx'[y].op = "approve"
                 PROVE  ApprovalStands(y)'
      BY DEF ReadsStand
    <3>1. y # x /\ tx'[y] = tx[y]
      BY DEF Idle, TypeOK
    <3>2. ApprovalStands(y) /\ tx[y].tenant \in Tenants
      BY <3>1, TxKinds DEF ReadsStand, TypeOK, ApproveTx
    <3> QED BY <1>3, <3>1, <3>2 DEF ApprovalStands, Unlocked
  <2>3. TwoPersonRule'
    BY <1>3 DEF TwoPersonRule
  <2> QED BY <2>1, <2>2, <2>3
<1>4. ASSUME NEW t \in Tenants, NEW row \in Row,
             lock[t] \in {x, None},
             active' = [active EXCEPT ![t] = row],
             rows' \in {rows, rows \cup {t}, rows \ {t}},
             t \notin rows' => row = Empty,
             row.prop = None <=> row.propBy = None,
             row.approved # None => row.cur # None /\ row.by \notin {None, row.approved}
      PROVE  PostgresInv'
  <2>1. TypeOK'
    <3>1. rows' \subseteq Tenants /\ active' \in [Tenants -> Row]
      BY <1>4 DEF TypeOK
    <3>2. \A u \in Tenants : /\ u \notin rows' => active'[u] = Empty
                             /\ active'[u].prop = None <=> active'[u].propBy = None
      BY <1>4 DEF TypeOK
    <3>3. overlapped' \subseteq {y \in Txs : tx'[y] # Idle}
      BY DEF TypeOK
    <3> QED BY <1>1, <1>2, <3>1, <3>2, <3>3 DEF TypeOK
  <2>2. ReadsStand'
    <3> SUFFICES ASSUME NEW y \in Txs, tx'[y].op = "approve"
                 PROVE  ApprovalStands(y)'
      BY Zenon DEF ReadsStand
    <3>1. y # x /\ tx'[y] = tx[y]
      BY DEF Idle, TypeOK
    <3>2. ApprovalStands(y) /\ tx[y].tenant \in Tenants
      BY <3>1, TxKinds DEF ReadsStand, TypeOK, ApproveTx
    <3>3. tx[y].tenant # t
      BY <1>4, <3>1, <3>2, TxsAssumption DEF ApprovalStands
    <3>4. lock'[tx[y].tenant] = y /\ active'[tx[y].tenant] = active[tx[y].tenant]
      BY <1>4, <3>1, <3>2, <3>3 DEF ApprovalStands, Unlocked, TypeOK
    <3>5. tx[y].tenant \in rows'
      BY <1>4, <3>2, <3>3 DEF ApprovalStands
    <3> QED BY <3>1, <3>2, <3>4, <3>5 DEF ApprovalStands
  <2>3. TwoPersonRule'
    BY <1>4 DEF TwoPersonRule, TypeOK
  <2> QED BY <2>1, <2>2, <2>3
<1> QED BY <1>3, <1>4

-----------------------------------------------------------------------------
\* A session that runs no approval holds no lock.
LEMMA OnlyApprovalsLock ==
  ASSUME TypeOK, NEW x \in Txs, tx[x].op # "approve"
  PROVE  (\A t \in Tenants : lock[t] # x) /\ Unlocked(x) = lock
<1>1. \A t \in Tenants : lock[t] # x
  BY TxsAssumption DEF TypeOK
<1> QED BY <1>1 DEF TypeOK, Unlocked

\* The statements that open a transaction keep the invariant.
LEMMA BeginKeeps ==
  ASSUME PostgresInv, NEW x \in Txs, Begin(x)
  PROVE  PostgresInv'
<1> USE DEF PostgresInv
<1>1. tx[x] = Idle /\ tx[x].op # "approve"
  BY DEF Begin, BeginPromote, ApproveRead, RollbackRead, BeginDelete, Idle
<1>2. \A t \in Tenants : lock[t] # x
  BY <1>1, OnlyApprovalsLock
<1>3. ASSUME NEW t \in Tenants, NEW d \in Drafts, NEW by \in Label,
             NEW op \in {"promote", "propose"}, BeginPromote(x, op, d, by, t)
      PROVE  PostgresInv'
  <2>0. PICK v : v = [op |-> op, step |-> IF op = "promote" THEN "read" ELSE "write",
                      draft |-> d, by |-> by, tenant |-> t, cur |-> None]
    BY Zenon
  <2>1. v \in Tx /\ v.op # "approve" /\ v # Idle
    BY Zenon, <1>3, <2>0 DEF BeginPromote, Tx, PromoteTx, ProposeTx, DraftRef, Label, Idle
  <2>2. tx' = [tx EXCEPT ![x] = v] /\ UNCHANGED <<drafts, rows, active, lock, overlapped>>
    BY <1>3, <2>0 DEF BeginPromote
  <2> QED BY Zenon, <1>2, <2>1, <2>2, TxStep DEF TypeOK
<1>4. ASSUME NEW t \in Tenants, NEW by \in Label, RollbackRead(x, by, t)
      PROVE  PostgresInv'
  <2>0. PICK v : v = [op |-> "rollback", step |-> "write", by |-> by,
                      tenant |-> t, prev |-> active[t].prev]
    BY Zenon
  <2>1. v \in Tx /\ v.op # "approve" /\ v # Idle
    BY <1>4, <2>0 DEF RollbackRead, TypeOK, Row, Tx, RollbackTx, DraftRef, Idle
  <2>2. tx' = [tx EXCEPT ![x] = v] /\ UNCHANGED <<drafts, rows, active, lock, overlapped>>
    BY Zenon, <1>4, <2>0 DEF RollbackRead
  <2> QED BY Zenon, <1>2, <2>1, <2>2, TxStep DEF TypeOK
<1>5. ASSUME NEW d \in Drafts, BeginDelete(x, d)
      PROVE  PostgresInv'
  <2>0. PICK v : v = [op |-> "delete", step |-> "read", draft |-> d]
    BY Zenon
  <2>1. v \in Tx /\ v.op # "approve" /\ v # Idle
    BY <2>0 DEF Tx, DeleteTx, Idle
  <2>2. tx' = [tx EXCEPT ![x] = v] /\ UNCHANGED <<drafts, rows, active, lock, overlapped>>
    BY Zenon, <1>5, <2>0 DEF BeginDelete
  <2> QED BY Zenon, <1>2, <2>1, <2>2, TxStep DEF TypeOK
<1>6. ASSUME NEW t \in Tenants, NEW by \in Label, ApproveRead(x, by, t)
      PROVE  PostgresInv'
  <2>1. PICK v : v = [op |-> "approve", step |-> "check", by |-> by, tenant |-> t,
                      cur |-> active[t].cur, prop |-> active[t].prop,
                      propBy |-> active[t].propBy]
    BY Zenon
  <2>2. /\ by # None /\ active[t].prop # None /\ active[t].propBy \notin {None, by}
        /\ lock[t] = None /\ lock' = [lock EXCEPT ![t] = x]
        /\ tx' = [tx EXCEPT ![x] = v]
        /\ UNCHANGED <<drafts, rows, active, overlapped>>
    BY Zenon, <1>6, <2>1 DEF ApproveRead, Free
  <2>3. active[t] \in Row /\ t \in rows
    BY <2>2 DEF TypeOK, Empty
  <2>4. v \in ApproveTx /\ v.op = "approve" /\ v.tenant = t
    BY Zenon, <2>1, <2>2, <2>3 DEF ApproveTx, Row, DraftRef, Label
  <2>5. TypeOK'
    BY <1>1, <1>2, <2>2, <2>4 DEF TypeOK, Tx, Idle
  <2>6. ReadsStand'
    <3> SUFFICES ASSUME NEW y \in Txs, tx'[y].op = "approve"
                 PROVE  ApprovalStands(y)'
      BY Zenon DEF ReadsStand
    <3>1. CASE y = x
      <4>1. tx'[x] = v /\ lock'[t] = x
        BY <2>2 DEF TypeOK
      <4> QED BY <2>1, <2>2, <2>3, <2>4, <3>1, <4>1 DEF ApprovalStands
    <3>2. CASE y # x
      <4>1. tx'[y] = tx[y]
        BY <2>2, <3>2 DEF TypeOK
      <4>2. ApprovalStands(y) /\ tx[y].tenant \in Tenants
        BY <4>1, TxKinds DEF ReadsStand, TypeOK, ApproveTx
      <4>3. tx[y].tenant # t
        BY Zenon, <2>2, <4>2, TxsAssumption DEF ApprovalStands
      <4> QED BY <2>2, <4>1, <4>2, <4>3 DEF ApprovalStands, TypeOK
    <3> QED BY <3>1, <3>2
  <2>7. TwoPersonRule'
    BY Zenon, <2>2 DEF TwoPersonRule
  <2> QED BY <2>5, <2>6, <2>7
<1> QED BY <1>3, <1>4, <1>5, <1>6 DEF Begin

\* The operations of a single statement keep the invariant.
LEMMA SingleKeeps ==
  ASSUME PostgresInv, NEW x \in Txs, Single(x)
  PROVE  PostgresInv'
<1> USE DEF PostgresInv
<1>1. tx[x] = Idle /\ tx[x].op # "approve"
  BY DEF Single, CreateDraft, RejectProposal, DeleteActive, Idle
<1>2. Unlocked(x) = lock /\ tx = [tx EXCEPT ![x] = Idle]
  BY <1>1, OnlyApprovalsLock DEF TypeOK
<1>3. ASSUME NEW d \in Drafts, CreateDraft(x, d)
      PROVE  PostgresInv'
  <2>1. /\ tx' = [tx EXCEPT ![x] = Idle] /\ lock' = Unlocked(x)
        /\ drafts' \in [Drafts -> {"new", "stored", "deleted"}]
        /\ overlapped' \subseteq {y \in Txs \ {x} : tx[y] # Idle}
        /\ UNCHANGED <<rows, active>>
    BY Zenon, <1>2, <1>3 DEF CreateDraft, Commits, TypeOK
  <2> QED BY Zenon, <2>1, EndStep
<1>4. ASSUME NEW t \in Tenants, RejectProposal(x, t) \/ DeleteActive(x, t)
      PROVE  PostgresInv'
  <2>1. /\ tx' = [tx EXCEPT ![x] = Idle] /\ lock' = Unlocked(x)
        /\ drafts' \in [Drafts -> {"new", "stored", "deleted"}]
        /\ overlapped' \subseteq {y \in Txs \ {x} : tx[y] # Idle}
        /\ lock[t] \in {x, None}
    BY <1>2, <1>4 DEF RejectProposal, DeleteActive, Commits, Free, TypeOK
  <2>2. PICK row : row = IF RejectProposal(x, t) THEN Rejected(active[t]) ELSE Empty
    OBVIOUS
  <2>3. active' = [active EXCEPT ![t] = row] /\ rows' \in {rows, rows \ {t}}
    BY Zenon, <1>4, <2>2 DEF RejectProposal, DeleteActive
  <2>4. active[t] \in Row /\ None \in DraftRef /\ None \in Label
    BY Zenon DEF TypeOK, DraftRef, Label
  <2>5. /\ row \in Row
        /\ row.prop = None <=> row.propBy = None
        /\ row.approved # None => row.cur # None /\ row.by \notin {None, row.approved}
    <3>1. row \in Row
      BY <2>2, <2>4, RejectedRow, EmptyRow
    <3>2. row.prop = None <=> row.propBy = None
      BY Zenon, <2>2, <2>4, RejectedFields, EmptyFields
    <3>3. row.approved # None => row.cur # None /\ row.by \notin {None, row.approved}
      BY <2>2, <2>4, RejectedFields, EmptyFields DEF TwoPersonRule
    <3> QED BY Zenon, <3>1, <3>2, <3>3
  <2>6. t \notin rows' => row = Empty
    BY <1>4, <2>2 DEF RejectProposal, DeleteActive, TypeOK, Empty
  <2> QED BY Zenon, <2>1, <2>3, <2>5, <2>6, EndStep
<1> QED BY <1>3, <1>4 DEF Single

\* The statements that go on with a transaction or end it keep the invariant.
LEMMA ContinueKeeps ==
  ASSUME PostgresInv, NEW x \in Txs, Continue(x)
  PROVE  PostgresInv'
<1> USE DEF PostgresInv
<1>0. tx[x] \in Tx /\ None \in DraftRef /\ None \in Label
  BY Zenon DEF TypeOK, DraftRef, Label
<1>1. CASE PromoteRead(x)
  <2>1. tx[x] \in PromoteTx /\ tx[x].op # "approve" /\ active[tx[x].tenant].cur \in DraftRef
    BY <1>0, <1>1, TxKinds DEF PromoteRead, At, PromoteTx, TypeOK, Row
  <2>2. CASE active[tx[x].tenant].cur = tx[x].draft
    <3>1. /\ tx' = [tx EXCEPT ![x] = Idle] /\ lock' = Unlocked(x)
          /\ drafts' \in [Drafts -> {"new", "stored", "deleted"}]
          /\ overlapped' \subseteq {y \in Txs \ {x} : tx[y] # Idle}
          /\ UNCHANGED <<rows, active>>
      BY <1>1, <2>1, <2>2, OnlyApprovalsLock DEF PromoteRead, Done, Ends, TypeOK
    <3> QED BY Zenon, <3>1, EndStep
  <2>3. CASE active[tx[x].tenant].cur # tx[x].draft
    <3>1. PICK v : v = [tx[x] EXCEPT !.cur = active[tx[x].tenant].cur, !.step = "write"]
      OBVIOUS
    <3>2. v \in PromoteTx
      BY Zenon, <2>1, <3>1 DEF PromoteTx
    <3>3. v \in Tx /\ v.op # "approve" /\ v # Idle
      BY <3>2 DEF Tx, PromoteTx, Idle
    <3>4. tx' = [tx EXCEPT ![x] = v] /\ UNCHANGED <<drafts, rows, active, lock, overlapped>>
      BY Zenon, <1>1, <2>3, <3>1 DEF PromoteRead, TypeOK
    <3>5. \A t \in Tenants : lock[t] # x
      BY Zenon, <2>1, OnlyApprovalsLock
    <3> QED BY Zenon, <3>3, <3>4, <3>5, TxStep DEF TypeOK
  <2> QED BY Zenon, <2>2, <2>3
<1>2. CASE PromoteWrite(x) \/ ProposeWrite(x) \/ RollbackWrite(x)
  <2>1. PICK t : t = tx[x].tenant
    OBVIOUS
  <2>2. /\ t \in Tenants /\ tx[x].op # "approve"
        /\ PromoteWrite(x) => tx[x] \in PromoteTx
        /\ ProposeWrite(x) => tx[x] \in ProposeTx
        /\ RollbackWrite(x) => tx[x] \in RollbackTx
    BY Zenon, <1>0, <1>2, <2>1, TxKinds DEF PromoteWrite, ProposeWrite, RollbackWrite, At,
       PromoteTx, ProposeTx, RollbackTx
  <2>3. /\ tx' = [tx EXCEPT ![x] = Idle] /\ lock' = Unlocked(x)
        /\ drafts' \in [Drafts -> {"new", "stored", "deleted"}]
        /\ overlapped' \subseteq {y \in Txs \ {x} : tx[y] # Idle}
        /\ lock[t] \in {x, None}
    BY <1>2, <2>1, <2>2, OnlyApprovalsLock DEF PromoteWrite, ProposeWrite, RollbackWrite,
       Done, Commits, Free, TypeOK
  <2>4. active[t] \in Row
    BY Zenon, <2>2 DEF TypeOK
  <2>5. CASE PromoteWrite(x)
    <3>1. PICK row : row = Promoted(active[t], tx[x].draft, tx[x].cur, tx[x].by)
      OBVIOUS
    <3>2. active' = [active EXCEPT ![t] = row] /\ rows' = rows \cup {t}
      BY Zenon, <2>1, <2>2, <2>5, <3>1 DEF PromoteWrite, TypeOK
    <3>3. tx[x].draft \in DraftRef /\ tx[x].cur \in DraftRef /\ tx[x].by \in Label
      BY Zenon, <2>2, <2>5 DEF PromoteTx, DraftRef
    <3>4. row \in Row /\ row.approved = None
      <4>1. row \in Row
        BY Zenon, <2>4, <3>1, <3>3, PromotedRow
      <4>2. row.approved = None
        BY <2>4, <3>1, PromotedFields
      <4> QED BY <4>1, <4>2
    <3>5. row.prop = active[t].prop /\ row.propBy = active[t].propBy
      BY <2>4, <3>1, PromotedFields
    <3>6. row.prop = None <=> row.propBy = None
      BY <2>2, <3>5 DEF TypeOK
    <3> QED BY Zenon, <2>2, <2>3, <3>2, <3>4, <3>6, EndStep
  <2>6. CASE ProposeWrite(x)
    <3>1. PICK row : row = Proposed(active[t], tx[x].draft, tx[x].by)
      OBVIOUS
    <3>2. active' = [active EXCEPT ![t] = row] /\ rows' = rows \cup {t}
      BY Zenon, <2>1, <2>2, <2>6, <3>1 DEF ProposeWrite, TypeOK
    <3>3. /\ tx[x].draft \in DraftRef /\ tx[x].by \in Label
          /\ tx[x].draft # None /\ tx[x].by # None
      BY Zenon, <2>2, <2>6, NoneAssumption DEF ProposeTx, DraftRef, Label
    <3>4. /\ row \in Row /\ row.prop = tx[x].draft /\ row.propBy = tx[x].by
          /\ row.approved # None => row.cur # None /\ row.by \notin {None, row.approved}
      <4>1. row \in Row
        BY Zenon, <2>4, <3>1, <3>3, ProposedRow
      <4>2. /\ row.prop = tx[x].draft /\ row.propBy = tx[x].by /\ row.cur = active[t].cur
            /\ row.by = active[t].by /\ row.approved = active[t].approved
        BY <2>4, <3>1, ProposedFields
      <4> QED BY Zenon, <2>2, <4>1, <4>2 DEF TwoPersonRule
    <3> QED BY Zenon, <2>2, <2>3, <3>2, <3>3, <3>4, EndStep
  <2>7. CASE RollbackWrite(x)
    <3>1. PICK row : row = IF t \in rows THEN RolledBack(active[t], tx[x].prev, tx[x].by)
                           ELSE active[t]
      OBVIOUS
    <3>2. active' = [active EXCEPT ![t] = row] /\ rows' = rows
      BY Zenon, <2>1, <2>2, <2>7, <3>1 DEF RollbackWrite, TypeOK
    <3>3. tx[x].prev \in DraftRef /\ tx[x].by \in Label
      BY Zenon, <2>2, <2>7 DEF RollbackTx, DraftRef
    <3>4. /\ row \in Row
          /\ row = active[t] \/ row.approved = None
          /\ row.prop = active[t].prop /\ row.propBy = active[t].propBy
      <4>1. CASE t \in rows
        <5>1. row = RolledBack(active[t], tx[x].prev, tx[x].by)
          BY <3>1, <4>1
        <5>2. row \in Row
          BY Zenon, <1>0, <2>4, <3>3, <5>1, RolledBackRow
        <5>3. /\ row.approved = None
              /\ row.prop = active[t].prop /\ row.propBy = active[t].propBy
          BY <2>4, <5>1, RolledBackFields
        <5> QED BY <5>2, <5>3
      <4>2. CASE t \notin rows
        BY Zenon, <2>4, <3>1, <4>2
      <4> QED BY <4>1, <4>2
    <3>5. /\ row.prop = None <=> row.propBy = None
          /\ row.approved # None => row.cur # None /\ row.by \notin {None, row.approved}
      BY <2>2, <3>4 DEF TypeOK, TwoPersonRule
    <3>6. t \notin rows' => row = Empty
      BY Zenon, <2>2, <3>1, <3>2 DEF TypeOK
    <3> QED BY Zenon, <2>2, <2>3, <3>2, <3>4, <3>5, <3>6, EndStep
  <2> QED BY <1>2, <2>5, <2>6, <2>7
<1>3. CASE ApproveCheck(x)
  <2>1. tx[x] \in ApproveTx /\ ApprovalStands(x)
    BY Zenon, <1>0, <1>3, TxKinds DEF ApproveCheck, At, ReadsStand
  <2>2. CASE Stored(tx[x].prop)
    <3>1. PICK v : v = [tx[x] EXCEPT !.step = "write"]
      BY Zenon
    <3>2. /\ v \in ApproveTx /\ v.tenant = tx[x].tenant /\ v.by = tx[x].by
          /\ v.cur = tx[x].cur /\ v.prop = tx[x].prop /\ v.propBy = tx[x].propBy
      BY <2>1, <3>1 DEF ApproveTx
    <3>3. v \in Tx /\ v.op = "approve" /\ v # Idle
      BY <3>2 DEF Tx, ApproveTx, Idle
    <3>4. tx' = [tx EXCEPT ![x] = v] /\ UNCHANGED <<drafts, rows, active, lock, overlapped>>
      BY <1>3, <2>2, <3>1 DEF ApproveCheck, Step, TypeOK
    <3>5. \A t \in Tenants : lock[t] = x => v.tenant = t
      BY <3>2, TxsAssumption DEF TypeOK
    <3>6. ApprovalStands(x)'
      BY Zenon, <2>1, <3>2, <3>4 DEF ApprovalStands, TypeOK
    <3> QED BY Zenon, <3>3, <3>4, <3>5, <3>6, TxStep DEF TypeOK
  <2>3. CASE ~Stored(tx[x].prop)
    <3>1. /\ tx' = [tx EXCEPT ![x] = Idle] /\ lock' = Unlocked(x)
          /\ drafts' \in [Drafts -> {"new", "stored", "deleted"}]
          /\ overlapped' \subseteq {y \in Txs \ {x} : tx[y] # Idle}
          /\ UNCHANGED <<rows, active>>
      BY Zenon, <1>3, <2>3 DEF ApproveCheck, Done, Ends, TypeOK
    <3> QED BY Zenon, <3>1, EndStep
  <2> QED BY <2>2, <2>3
<1>4. CASE ApproveWrite(x)
  <2>1. tx[x] \in ApproveTx /\ ApprovalStands(x)
    BY Zenon, <1>0, <1>4, TxKinds DEF ApproveWrite, At, ReadsStand
  <2>2. PICK t : t = tx[x].tenant
    OBVIOUS
  <2>3. PICK row : row = Approved(active[t], tx[x].prop, tx[x].cur, tx[x].propBy, tx[x].by)
    OBVIOUS
  <2>4. t \in Tenants /\ t \in rows /\ lock[t] = x /\ active[t] \in Row
    BY Zenon, <2>1, <2>2 DEF ApproveTx, ApprovalStands, TypeOK
  <2>5. /\ tx' = [tx EXCEPT ![x] = Idle] /\ lock' = Unlocked(x)
        /\ drafts' \in [Drafts -> {"new", "stored", "deleted"}]
        /\ overlapped' \subseteq {y \in Txs \ {x} : tx[y] # Idle}
        /\ rows' = rows /\ active' = [active EXCEPT ![t] = row]
    BY Zenon, <1>4, <2>2, <2>3, <2>4 DEF ApproveWrite, Done, Commits, TypeOK
  <2>6. /\ tx[x].prop \in DraftRef /\ tx[x].prop # None /\ tx[x].cur \in DraftRef
        /\ tx[x].propBy \in Label /\ tx[x].propBy \notin {None, tx[x].by} /\ tx[x].by \in Label
    BY Zenon, <2>1, NoneAssumption DEF ApproveTx, ApprovalStands, DraftRef, Label
  <2>7. /\ row \in Row
        /\ row.prop = None <=> row.propBy = None
        /\ row.approved # None => row.cur # None /\ row.by \notin {None, row.approved}
    <3>1. row \in Row
      BY Zenon, <2>3, <2>4, <2>6, ApprovedRow
    <3>2. /\ row.prop = None /\ row.propBy = None /\ row.cur = tx[x].prop
          /\ row.by = tx[x].propBy /\ row.approved = tx[x].by
      BY <2>3, <2>4, ApprovedFields
    <3> QED BY Zenon, <2>6, <3>1, <3>2
  <2> QED BY Zenon, <2>4, <2>5, <2>7, EndStep
<1>5. CASE DeleteRead(x)
  <2>1. tx[x] \in DeleteTx /\ tx[x].op # "approve"
    BY Zenon, <1>0, <1>5, TxKinds DEF DeleteRead, At
  <2>2. CASE Pinned(tx[x].draft)
    <3>1. /\ tx' = [tx EXCEPT ![x] = Idle] /\ lock' = Unlocked(x)
          /\ drafts' \in [Drafts -> {"new", "stored", "deleted"}]
          /\ overlapped' \subseteq {y \in Txs \ {x} : tx[y] # Idle}
          /\ UNCHANGED <<rows, active>>
      BY <1>5, <2>1, <2>2, OnlyApprovalsLock DEF DeleteRead, Done, Ends, TypeOK
    <3> QED BY Zenon, <3>1, EndStep
  <2>3. CASE ~Pinned(tx[x].draft)
    <3>1. PICK v : v = [tx[x] EXCEPT !.step = "write"]
      BY Zenon
    <3>2. v \in DeleteTx
      BY <2>1, <3>1 DEF DeleteTx
    <3>3. v \in Tx /\ v.op # "approve" /\ v # Idle
      BY <3>2 DEF Tx, DeleteTx, Idle
    <3>4. tx' = [tx EXCEPT ![x] = v] /\ UNCHANGED <<drafts, rows, active, lock, overlapped>>
      BY <1>5, <2>3, <3>1 DEF DeleteRead, Step, TypeOK
    <3>5. \A t \in Tenants : lock[t] # x
      BY Zenon, <2>1, OnlyApprovalsLock
    <3> QED BY Zenon, <3>3, <3>4, <3>5, TxStep DEF TypeOK
  <2> QED BY Zenon, <2>2, <2>3
<1>6. CASE DeleteWrite(x)
  <2>1. tx[x] \in DeleteTx /\ tx[x].op # "approve"
    BY Zenon, <1>0, <1>6, TxKinds DEF DeleteWrite, At
  <2>2. /\ tx' = [tx EXCEPT ![x] = Idle] /\ lock' = Unlocked(x)
        /\ drafts' \in [Drafts -> {"new", "stored", "deleted"}]
        /\ overlapped' \subseteq {y \in Txs \ {x} : tx[y] # Idle}
        /\ UNCHANGED <<rows, active>>
    BY Zenon, <1>6, <2>1, OnlyApprovalsLock DEF DeleteWrite, Done, Commits, TypeOK
  <2> QED BY Zenon, <2>2, EndStep
<1>7. CASE Abort(x)
  <2>1. /\ tx' = [tx EXCEPT ![x] = Idle] /\ lock' = Unlocked(x)
        /\ drafts' \in [Drafts -> {"new", "stored", "deleted"}]
        /\ overlapped' \subseteq {y \in Txs \ {x} : tx[y] # Idle}
        /\ UNCHANGED <<rows, active>>
    BY Zenon, <1>7 DEF Abort, Done, Ends, TypeOK
  <2> QED BY Zenon, <2>1, EndStep
<1> QED BY Zenon, <1>1, <1>2, <1>3, <1>4, <1>5, <1>6, <1>7 DEF Continue

-----------------------------------------------------------------------------
\* A step of the in-process store changes at most one row, and what it makes
\* of it.
LEMMA MemoryRows ==
  ASSUME active \in [Tenants -> Row], Store!Next
  PROVE  \/ UNCHANGED active
         \/ \E t \in Tenants :
              \/ \E d \in Drafts, by \in Label :
                   active' = [active EXCEPT ![t] = Promoted(active[t], d, active[t].cur, by)]
              \/ \E d \in Drafts, by \in Label :
                   active' = [active EXCEPT ![t] = Proposed(active[t], d, by)]
              \/ \E by \in Label :
                   /\ active[t].prop # None
                   /\ active[t].propBy \notin {None, by}
                   /\ active' = [active EXCEPT ![t] =
                        Approved(active[t], active[t].prop, active[t].cur, active[t].propBy, by)]
              \/ \E by \in Label :
                   active' = [active EXCEPT ![t] = RolledBack(active[t], active[t].prev, by)]
              \/ active' = [active EXCEPT ![t] = Rejected(active[t])]
              \/ active' = [active EXCEPT ![t] = Empty]
  BY DEF Store!Next, Store!CreateDraft, Store!DeleteDraft, Store!Promote, Store!Propose,
         Store!Approve, Store!RejectProposal, Store!Rollback, Store!DeleteActive,
         Store!Promoted, Store!Proposed, Store!Approved, Store!Rejected, Store!RolledBack,
         Store!Empty, Store!Label, Label, Promoted, Proposed, Approved, Rejected, RolledBack,
         Empty

\* The in-process store keeps the rows well formed and the two-person rule.
LEMMA MemoryKeeps ==
  ASSUME MemoryInv, Store!Next
  PROVE  MemoryInv'
<1>0. active \in [Tenants -> Row] /\ TwoPersonRule
  BY DEF MemoryInv
<1>1. CASE UNCHANGED active
  BY Zenon, <1>0, <1>1 DEF MemoryInv, TwoPersonRule
<1>2. ASSUME NEW t \in Tenants, NEW row \in Row, active' = [active EXCEPT ![t] = row],
             row.approved # None => row.cur # None /\ row.by \notin {None, row.approved}
      PROVE  MemoryInv'
  BY Zenon, <1>0, <1>2 DEF MemoryInv, TwoPersonRule
<1>3. ASSUME NEW t \in Tenants, NEW d \in Drafts, NEW by \in Label,
             active' = [active EXCEPT ![t] = Promoted(active[t], d, active[t].cur, by)]
      PROVE  MemoryInv'
  <2>1. PICK row : row = Promoted(active[t], d, active[t].cur, by)
    OBVIOUS
  <2>2. active[t] \in Row /\ active[t].cur \in DraftRef /\ d \in DraftRef
    BY Zenon, <1>0 DEF Row, DraftRef
  <2>3. row \in Row /\ row.approved = None
    <3>1. row \in Row
      BY Zenon, <2>1, <2>2, PromotedRow
    <3>2. row.approved = None
      BY <2>1, <2>2, PromotedFields
    <3> QED BY <3>1, <3>2
  <2> QED BY Zenon, <1>2, <1>3, <2>1, <2>3
<1>4. ASSUME NEW t \in Tenants, NEW d \in Drafts, NEW by \in Label,
             active' = [active EXCEPT ![t] = Proposed(active[t], d, by)]
      PROVE  MemoryInv'
  <2>1. PICK row : row = Proposed(active[t], d, by)
    OBVIOUS
  <2>2. active[t] \in Row /\ d \in DraftRef
    BY <1>0 DEF DraftRef
  <2>3. row \in Row
    BY Zenon, <2>1, <2>2, ProposedRow
  <2>4. row.cur = active[t].cur /\ row.by = active[t].by /\ row.approved = active[t].approved
    BY <2>1, <2>2, ProposedFields
  <2> QED BY Zenon, <1>0, <1>2, <1>4, <2>1, <2>3, <2>4 DEF TwoPersonRule
<1>5. ASSUME NEW t \in Tenants, NEW by \in Label,
             active[t].prop # None, active[t].propBy \notin {None, by},
             active' = [active EXCEPT ![t] =
               Approved(active[t], active[t].prop, active[t].cur, active[t].propBy, by)]
      PROVE  MemoryInv'
  <2>1. PICK row :
          row = Approved(active[t], active[t].prop, active[t].cur, active[t].propBy, by)
    BY Zenon
  <2>2. /\ active[t] \in Row /\ active[t].cur \in DraftRef /\ active[t].prop \in DraftRef
        /\ active[t].propBy \in Label
    BY Zenon, <1>0 DEF Row
  <2>3. row \in Row
    BY Zenon, <2>1, <2>2, ApprovedRow
  <2>4. row.cur = active[t].prop /\ row.by = active[t].propBy /\ row.approved = by
    BY <2>1, <2>2, ApprovedFields
  <2> QED BY Zenon, <1>2, <1>5, <2>1, <2>3, <2>4
<1>6. ASSUME NEW t \in Tenants, NEW by \in Label,
             active' = [active EXCEPT ![t] = RolledBack(active[t], active[t].prev, by)]
      PROVE  MemoryInv'
  <2>1. PICK row : row = RolledBack(active[t], active[t].prev, by)
    OBVIOUS
  <2>2. active[t] \in Row /\ active[t].prev \in DraftRef
    BY <1>0 DEF Row
  <2>3. row \in Row
    BY Zenon, <2>1, <2>2, RolledBackRow
  <2>4. row.approved = None
    BY <2>1, <2>2, RolledBackFields
  <2> QED BY Zenon, <1>2, <1>6, <2>1, <2>3, <2>4
<1>7. ASSUME NEW t \in Tenants, active' = [active EXCEPT ![t] = Rejected(active[t])]
      PROVE  MemoryInv'
  <2>1. PICK row : row = Rejected(active[t])
    OBVIOUS
  <2>2. active[t] \in Row /\ None \in DraftRef /\ None \in Label
    BY Zenon, <1>0 DEF DraftRef, Label
  <2>3. row \in Row
    BY Zenon, <2>1, <2>2, RejectedRow
  <2>4. row.cur = active[t].cur /\ row.by = active[t].by /\ row.approved = active[t].approved
    BY Zenon, <2>1, <2>2, RejectedFields
  <2> QED BY Zenon, <1>0, <1>2, <1>7, <2>1, <2>3, <2>4 DEF TwoPersonRule
<1>8. ASSUME NEW t \in Tenants, active' = [active EXCEPT ![t] = Empty]
      PROVE  MemoryInv'
  <2>1. Empty \in Row /\ Empty.approved = None
    BY Zenon DEF Empty, Row, DraftRef, Label
  <2> QED BY Zenon, <1>2, <1>8, <2>1
<1> QED BY Zenon, <1>0, <1>1, <1>3, <1>4, <1>5, <1>6, <1>7, <1>8, MemoryRows

\* The invariant holds at the start and so for ever.
LEMMA PolicyAlways == BackendsSpec => []PolicyInv
<1>1. BackendsInit => PolicyInv
  <2> SUFFICES ASSUME BackendsInit PROVE PolicyInv
    OBVIOUS
  <2>1. active = [t \in Tenants |-> Empty] /\ Empty \in Row /\ Empty.approved = None
    BY Zenon DEF BackendsInit, Init, Empty, Row, DraftRef, Label
  <2>2. TwoPersonRule
    BY Zenon, <2>1 DEF TwoPersonRule
  <2>3. TypeOK
    BY <2>1 DEF BackendsInit, Init, TypeOK, Tx, Empty
  <2>4. ReadsStand
    BY Zenon DEF BackendsInit, Init, ReadsStand, Idle
  <2> QED BY Zenon, <2>1, <2>2, <2>3, <2>4 DEF BackendsInit, PolicyInv, PostgresInv, MemoryInv
<1>2. PolicyInv /\ [BackendsNext]_allVars => PolicyInv'
  <2> SUFFICES ASSUME PolicyInv, [BackendsNext]_allVars PROVE PolicyInv'
    OBVIOUS
  <2>1. CASE backend = "postgres" /\ Next /\ UNCHANGED backend
    <3>1. PostgresInv'
      BY Zenon, <2>1, BeginKeeps, ContinueKeeps, SingleKeeps DEF PolicyInv, Next
    <3> QED BY Zenon, <2>1, <3>1 DEF PolicyInv
  <2>2. CASE backend = "memory" /\ Store!Next /\ UNCHANGED backend
    <3>1. MemoryInv'
      BY Zenon, <2>2, MemoryKeeps DEF PolicyInv
    <3> QED BY Zenon, <2>2, <3>1 DEF PolicyInv
  <2>3. CASE UNCHANGED allVars
    BY Zenon, <2>3 DEF allVars, vars, PolicyInv, PostgresInv, MemoryInv, TypeOK, ReadsStand,
                ApprovalStands, TwoPersonRule
  <2> QED BY Zenon, <2>1, <2>2, <2>3 DEF BackendsNext
<1> QED BY <1>1, <1>2, PTL DEF BackendsSpec

\* For both backends, every set of drafts, operators and tenants and any number
\* of sessions: a row that names an approver names someone else as the one who
\* asked (Propose, Approve, Promote, Rollback).
THEOREM TwoPersonAlways == BackendsSpec => []TwoPersonRule
<1>1. PolicyInv => TwoPersonRule
  BY DEF PolicyInv, PostgresInv, MemoryInv
<1> QED BY <1>1, PolicyAlways, PTL

\* What a step may do to the approval of a row.
ApprovesProposed(old, new) ==
  /\ new.approved # None
  /\ <<new.cur, new.by, new.approved>> # <<old.cur, old.by, old.approved>>
  => /\ new.cur = old.prop /\ new.by = old.propBy
     /\ new.prev = old.cur
     /\ new.approved # old.propBy

\* A PostgreSQL transaction that approves, approves what is proposed when it
\* writes.
LEMMA PostgresApproves ==
  ASSUME PostgresInv, NEW x \in Txs, Begin(x) \/ Continue(x) \/ Single(x), NEW u \in Tenants
  PROVE  ApprovesProposed(active[u], active'[u])
<1> USE DEF PostgresInv
<1>0. tx[x] \in Tx /\ active \in [Tenants -> Row]
  BY Zenon DEF TypeOK
<1>1. CASE UNCHANGED active
  BY Zenon, <1>1 DEF ApprovesProposed
<1>2. ASSUME NEW t \in Tenants, NEW row, active' = [active EXCEPT ![t] = row],
             row.approved = None \/ ApprovesProposed(active[t], row)
      PROVE  ApprovesProposed(active[u], active'[u])
  BY Zenon, <1>0, <1>2 DEF ApprovesProposed
<1>3. CASE PromoteWrite(x)
  <2>1. tx[x].tenant \in Tenants
    BY Zenon, <1>0, <1>3, TxKinds DEF PromoteWrite, At, PromoteTx
  <2>2. PICK t \in Tenants : t = tx[x].tenant
    BY Zenon, <2>1
  <2>3. PICK row : row = Promoted(active[t], tx[x].draft, tx[x].cur, tx[x].by)
    BY Zenon
  <2>4. active' = [active EXCEPT ![t] = row]
    BY Zenon, <1>0, <1>3, <2>2, <2>3 DEF PromoteWrite
  <2>5. row.approved = None
    <3>1. active[t] \in Row
      BY Zenon, <1>0
    <3> QED BY <2>3, <3>1, PromotedFields
  <2> QED BY Zenon, <1>2, <2>4, <2>5
<1>4. CASE ProposeWrite(x)
  <2>1. tx[x].tenant \in Tenants
    BY Zenon, <1>0, <1>4, TxKinds DEF ProposeWrite, At, ProposeTx
  <2>2. PICK t \in Tenants : t = tx[x].tenant
    BY Zenon, <2>1
  <2>3. PICK row : row = Proposed(active[t], tx[x].draft, tx[x].by)
    BY Zenon
  <2>4. active' = [active EXCEPT ![t] = row]
    BY Zenon, <1>0, <1>4, <2>2, <2>3 DEF ProposeWrite
  <2>5. row.cur = active[t].cur /\ row.by = active[t].by /\ row.approved = active[t].approved
    <3>1. active[t] \in Row
      BY Zenon, <1>0
    <3> QED BY <2>3, <3>1, ProposedFields
  <2> QED BY Zenon, <1>2, <2>4, <2>5 DEF ApprovesProposed
<1>5. CASE RollbackWrite(x)
  <2>1. tx[x].tenant \in Tenants
    BY Zenon, <1>0, <1>5, TxKinds DEF RollbackWrite, At, RollbackTx
  <2>2. PICK t \in Tenants : t = tx[x].tenant
    BY <2>1
  <2>3. CASE t \in rows
    <3>1. PICK row : row = RolledBack(active[t], tx[x].prev, tx[x].by)
      BY Zenon
    <3>2. active' = [active EXCEPT ![t] = row]
      BY Zenon, <1>0, <1>5, <2>2, <2>3, <3>1 DEF RollbackWrite
    <3>3. row.approved = None
      <4>1. active[t] \in Row
        BY Zenon, <1>0
      <4> QED BY <3>1, <4>1, RolledBackFields
    <3> QED BY Zenon, <1>2, <3>2, <3>3
  <2>4. CASE t \notin rows
    BY Zenon, <1>0, <1>1, <1>5, <2>2, <2>4 DEF RollbackWrite
  <2> QED BY Zenon, <2>3, <2>4
<1>6. CASE ApproveWrite(x)
  <2>1. tx[x] \in ApproveTx /\ ApprovalStands(x)
    BY Zenon, <1>0, <1>6, TxKinds DEF ApproveWrite, At, ReadsStand
  <2>2. PICK t : t = tx[x].tenant
    BY Zenon
  <2>3. PICK row : row = Approved(active[t], tx[x].prop, tx[x].cur, tx[x].propBy, tx[x].by)
    BY Zenon
  <2>4. t \in Tenants /\ t \in rows
    BY Zenon, <2>1, <2>2 DEF ApproveTx, ApprovalStands
  <2>5. active' = [active EXCEPT ![t] = row]
    BY Zenon, <1>0, <1>6, <2>2, <2>3, <2>4 DEF ApproveWrite
  <2>6. /\ row.cur = active[t].prop /\ row.by = active[t].propBy /\ row.prev = active[t].cur
        /\ row.approved # active[t].propBy
    <3>1. /\ row.cur = tx[x].prop /\ row.by = tx[x].propBy /\ row.prev = tx[x].cur
          /\ row.approved = tx[x].by
      <4>1. active[t] \in Row
        BY Zenon, <1>0, <2>4
      <4> QED BY <2>3, <4>1, ApprovedFields
    <3> QED BY Zenon, <2>1, <2>2, <3>1 DEF ApprovalStands
  <2> QED BY Zenon, <1>2, <2>4, <2>5, <2>6 DEF ApprovesProposed
<1>7. ASSUME NEW t \in Tenants, RejectProposal(x, t) PROVE ApprovesProposed(active[u], active'[u])
  <2>1. PICK row : row = Rejected(active[t])
    OBVIOUS
  <2>2. active' = [active EXCEPT ![t] = row]
    BY Zenon, <1>0, <1>7, <2>1 DEF RejectProposal
  <2>3. row.cur = active[t].cur /\ row.by = active[t].by /\ row.approved = active[t].approved
    BY Zenon, <1>0, <2>1, RejectedFields
  <2> QED BY Zenon, <1>2, <2>2, <2>3 DEF ApprovesProposed
<1>8. ASSUME NEW t \in Tenants, DeleteActive(x, t) PROVE ApprovesProposed(active[u], active'[u])
  <2>1. active' = [active EXCEPT ![t] = Empty] /\ Empty.approved = None
    BY Zenon, <1>8 DEF DeleteActive, Empty
  <2> QED BY Zenon, <1>2, <2>1
<1>9. CASE Begin(x)
  BY Zenon, <1>1, <1>9 DEF Begin, BeginPromote, ApproveRead, RollbackRead, BeginDelete
<1>10. CASE Single(x)
  BY Zenon, <1>1, <1>7, <1>8, <1>10 DEF Single, CreateDraft
<1>11. CASE PromoteRead(x) \/ ApproveCheck(x) \/ DeleteRead(x) \/ DeleteWrite(x) \/ Abort(x)
  BY Zenon, <1>1, <1>11 DEF PromoteRead, ApproveCheck, DeleteRead, DeleteWrite, Abort
<1> QED BY Zenon, <1>3, <1>4, <1>5, <1>6, <1>9, <1>10, <1>11 DEF Continue

\* The in-process store approves what is proposed.
LEMMA MemoryApproves ==
  ASSUME MemoryInv, Store!Next, NEW u \in Tenants
  PROVE  ApprovesProposed(active[u], active'[u])
<1>0. active \in [Tenants -> Row]
  BY DEF MemoryInv
<1>1. CASE UNCHANGED active
  BY Zenon, <1>1 DEF ApprovesProposed
<1>2. ASSUME NEW t \in Tenants, NEW row, active' = [active EXCEPT ![t] = row],
             row.approved = None \/ ApprovesProposed(active[t], row)
      PROVE  ApprovesProposed(active[u], active'[u])
  BY Zenon, <1>0, <1>2 DEF ApprovesProposed
<1>3. ASSUME NEW t \in Tenants, NEW d \in Drafts, NEW by \in Label,
             active' = [active EXCEPT ![t] = Promoted(active[t], d, active[t].cur, by)]
      PROVE  ApprovesProposed(active[u], active'[u])
  <2>1. Promoted(active[t], d, active[t].cur, by).approved = None
    BY <1>0, PromotedFields
  <2>2. PICK row : active' = [active EXCEPT ![t] = row] /\ row.approved = None
    BY Zenon, <1>3, <2>1
  <2> QED BY Zenon, <1>2, <2>2
<1>4. ASSUME NEW t \in Tenants, NEW by \in Label,
             active' = [active EXCEPT ![t] = RolledBack(active[t], active[t].prev, by)]
      PROVE  ApprovesProposed(active[u], active'[u])
  <2>1. RolledBack(active[t], active[t].prev, by).approved = None
    BY <1>0, RolledBackFields
  <2>2. PICK row : active' = [active EXCEPT ![t] = row] /\ row.approved = None
    BY Zenon, <1>4, <2>1
  <2> QED BY Zenon, <1>2, <2>2
<1>5. ASSUME NEW t \in Tenants, NEW row, row \in {Rejected(active[t])} \cup
                {Proposed(active[t], d, by) : d \in Drafts, by \in Label},
             active' = [active EXCEPT ![t] = row]
      PROVE  ApprovesProposed(active[u], active'[u])
  <2>1. row.cur = active[t].cur /\ row.by = active[t].by /\ row.approved = active[t].approved
    BY <1>0, <1>5, RejectedFields, ProposedFields
  <2> QED BY Zenon, <1>2, <1>5, <2>1 DEF ApprovesProposed
<1>6. ASSUME NEW t \in Tenants, NEW by \in Label, active[t].propBy \notin {None, by},
             active' = [active EXCEPT ![t] =
               Approved(active[t], active[t].prop, active[t].cur, active[t].propBy, by)]
      PROVE  ApprovesProposed(active[u], active'[u])
  <2>1. PICK row :
          row = Approved(active[t], active[t].prop, active[t].cur, active[t].propBy, by)
    BY Zenon
  <2>2. /\ row.cur = active[t].prop /\ row.by = active[t].propBy /\ row.prev = active[t].cur
        /\ row.approved = by
    BY <1>0, <2>1, ApprovedFields
  <2> QED BY Zenon, <1>2, <1>6, <2>1, <2>2 DEF ApprovesProposed
<1>7. ASSUME NEW t \in Tenants, active' = [active EXCEPT ![t] = Empty]
      PROVE  ApprovesProposed(active[u], active'[u])
  BY Zenon, <1>2, <1>7 DEF Empty
<1> QED BY <1>0, <1>1, <1>3, <1>4, <1>5, <1>6, <1>7, MemoryRows

\* For both backends, every set of drafts, operators and tenants and any number
\* of sessions: the draft an approval makes live is the one proposed at that
\* moment, by the operator the row then names, who is not the approver
\* (Approve's SELECT ... FOR UPDATE, and the mutex of the in-process store).
THEOREM ApprovalsAlwaysOfProposed == BackendsSpec => ApprovesWhatIsProposed
<1>1. PolicyInv /\ [BackendsNext]_allVars =>
        [\A t \in Tenants :
           LET old == active[t]
               new == active'[t] IN
           /\ new.approved # None
           /\ <<new.cur, new.by, new.approved>> # <<old.cur, old.by, old.approved>>
           => /\ new.cur = old.prop /\ new.by = old.propBy
              /\ new.prev = old.cur
              /\ new.approved # old.propBy]_vars
  <2> SUFFICES ASSUME PolicyInv, BackendsNext, NEW t \in Tenants
               PROVE  ApprovesProposed(active[t], active'[t])
    BY Zenon DEF ApprovesProposed, allVars
  <2>1. CASE backend = "postgres" /\ Next
    BY Zenon, <2>1, PostgresApproves DEF PolicyInv, Next
  <2>2. CASE backend = "memory" /\ Store!Next
    BY Zenon, <2>2, MemoryApproves DEF PolicyInv
  <2> QED BY Zenon, <2>1, <2>2 DEF BackendsNext
<1> QED BY <1>1, PolicyAlways, PTL DEF BackendsSpec, ApprovesWhatIsProposed

-----------------------------------------------------------------------------
\* What an open transaction has read, and checked, is still so.
Fresh(x) ==
  /\ tx[x].op = "promote" =>
       /\ Stored(tx[x].draft)
       /\ tx[x].step = "write" => /\ active[tx[x].tenant].cur = tx[x].cur
                                  /\ tx[x].cur # tx[x].draft
  /\ tx[x].op = "propose" => Stored(tx[x].draft)
  /\ tx[x].op = "approve" => (tx[x].step = "write" => Stored(tx[x].prop))
  /\ tx[x].op = "rollback" => active[tx[x].tenant].prev = tx[x].prev
  /\ tx[x].op = "delete" =>
       /\ Stored(tx[x].draft)
       /\ tx[x].step = "write" => ~Pinned(tx[x].draft)

\* Only a commit of another session makes what a transaction has read stale.
QuietFresh == \A x \in Txs \ overlapped : Fresh(x)

\* A transaction that only reads leaves what the others have read as it was.
LEMMA ReadFresh ==
  ASSUME TypeOK, QuietFresh, NEW x \in Txs,
         \A y \in Txs \ {x} : tx'[y] = tx[y], UNCHANGED <<drafts, active>>,
         overlapped \ {x} \subseteq overlapped',
         x \in overlapped' \/ Fresh(x)'
  PROVE  QuietFresh'
<1> SUFFICES ASSUME NEW y \in Txs, y \notin overlapped' PROVE Fresh(y)'
  BY Zenon DEF QuietFresh
<1>1. CASE y = x
  BY Zenon, <1>1
<1>2. CASE y # x
  <2>1. Fresh(y) /\ tx'[y] = tx[y]
    BY Zenon, <1>2 DEF QuietFresh
  <2>2. UNCHANGED <<drafts, active>>
    OBVIOUS
  <2> QED BY Zenon, <2>1, <2>2 DEF Fresh, Stored, Pinned
<1> QED BY Zenon, <1>1, <1>2

\* A commit overlaps every other open transaction.
LEMMA CommitFresh ==
  ASSUME NEW x \in Txs, tx'[x] = Idle, \A y \in Txs \ {x} : tx'[y] = tx[y], Commits(x)
  PROVE  QuietFresh'
<1> SUFFICES ASSUME NEW y \in Txs, y \notin overlapped' PROVE Fresh(y)'
  BY Zenon DEF QuietFresh
<1>1. tx'[y] = Idle
  BY Zenon DEF Commits
<1> QED BY <1>1 DEF Fresh, Idle

\* A transaction that begins has just read what it knows.
LEMMA BeginFresh ==
  ASSUME PostgresInv, QuietFresh, NEW x \in Txs, Begin(x)
  PROVE  QuietFresh'
<1> USE DEF PostgresInv
<1>1. tx \in [Txs -> Tx] /\ UNCHANGED <<drafts, active, overlapped>>
  BY Zenon DEF TypeOK, Begin, BeginPromote, ApproveRead, RollbackRead, BeginDelete
<1>2. ASSUME NEW v, tx' = [tx EXCEPT ![x] = v], Fresh(x)' PROVE QuietFresh'
  <2>1. \A y \in Txs \ {x} : tx'[y] = tx[y]
    BY Zenon, <1>1, <1>2
  <2> QED BY Zenon, <1>1, <1>2, <2>1, ReadFresh
<1>3. ASSUME NEW d \in Drafts, NEW by \in Label, NEW op \in {"promote", "propose"},
             NEW t \in Tenants, BeginPromote(x, op, d, by, t)
      PROVE  QuietFresh'
  <2>1. PICK v : v = [op |-> op, step |-> IF op = "promote" THEN "read" ELSE "write",
                      draft |-> d, by |-> by, tenant |-> t, cur |-> None]
    BY Zenon
  <2>2. tx' = [tx EXCEPT ![x] = v] /\ tx'[x] = v /\ Stored(d)'
    BY Zenon, <1>1, <1>3, <2>1 DEF BeginPromote, Stored
  <2>3. v.op = op /\ v.draft = d /\ (op = "promote" => v.step = "read")
    BY Zenon, <2>1
  <2>4. op \in {"promote", "propose"}
    OBVIOUS
  <2>5. Fresh(x)'
    BY <2>2, <2>3, <2>4 DEF Fresh, Stored
  <2> QED BY Zenon, <1>2, <2>2, <2>5
<1>4. ASSUME NEW by \in Label, NEW t \in Tenants, ApproveRead(x, by, t) PROVE QuietFresh'
  <2>1. PICK v : v = [op |-> "approve", step |-> "check", by |-> by, tenant |-> t,
               cur |-> active[t].cur, prop |-> active[t].prop, propBy |-> active[t].propBy]
    BY Zenon
  <2>2. tx' = [tx EXCEPT ![x] = v] /\ tx'[x] = v
    BY Zenon, <1>1, <1>4, <2>1 DEF ApproveRead
  <2>3. v.op = "approve" /\ v.step = "check"
    BY Zenon, <2>1
  <2>4. Fresh(x)'
    BY Zenon, <2>2, <2>3 DEF Fresh
  <2> QED BY Zenon, <1>2, <2>2, <2>4
<1>5. ASSUME NEW by \in Label, NEW t \in Tenants, RollbackRead(x, by, t) PROVE QuietFresh'
  <2>1. PICK v : v = [op |-> "rollback", step |-> "write", by |-> by,
                      tenant |-> t, prev |-> active[t].prev]
    BY Zenon
  <2>2. tx' = [tx EXCEPT ![x] = v] /\ tx'[x] = v
    BY Zenon, <1>1, <1>5, <2>1 DEF RollbackRead
  <2>3. v.op = "rollback" /\ v.tenant = t /\ v.prev = active'[t].prev
    BY Zenon, <1>1, <2>1
  <2>4. Fresh(x)'
    BY Zenon, <2>2, <2>3 DEF Fresh
  <2> QED BY Zenon, <1>2, <2>2, <2>4
<1>6. ASSUME NEW d \in Drafts, BeginDelete(x, d) PROVE QuietFresh'
  <2>1. PICK v : v = [op |-> "delete", step |-> "read", draft |-> d]
    BY Zenon
  <2>2. tx' = [tx EXCEPT ![x] = v] /\ tx'[x] = v /\ Stored(d)'
    BY Zenon, <1>1, <1>6, <2>1 DEF BeginDelete, Stored
  <2>3. v.op = "delete" /\ v.step = "read" /\ v.draft = d
    BY Zenon, <2>1
  <2>4. Fresh(x)'
    BY Zenon, <2>2, <2>3 DEF Fresh, Stored
  <2> QED BY Zenon, <1>2, <2>2, <2>4
<1> QED BY Zenon, <1>3, <1>4, <1>5, <1>6 DEF Begin

\* A further statement adds what it reads; a commit overlaps the others.
LEMMA ContinueFresh ==
  ASSUME PostgresInv, QuietFresh, NEW x \in Txs, Continue(x)
  PROVE  QuietFresh'
<1> USE DEF PostgresInv
<1>1. tx \in [Txs -> Tx]
  BY Zenon DEF TypeOK
<1>2. ASSUME NEW v, tx' = [tx EXCEPT ![x] = v], UNCHANGED <<drafts, active>>,
             overlapped \ {x} \subseteq overlapped', x \in overlapped' \/ Fresh(x)'
      PROVE  QuietFresh'
  <2>1. \A y \in Txs \ {x} : tx'[y] = tx[y]
    BY Zenon, <1>1, <1>2
  <2>2. UNCHANGED <<drafts, active>>
    BY Zenon, <1>2
  <2> QED BY Zenon, <1>2, <2>1, <2>2, ReadFresh
<1>3. CASE Done(x) /\ Commits(x)
  <2>1. tx'[x] = Idle /\ \A y \in Txs \ {x} : tx'[y] = tx[y]
    BY Zenon, <1>1, <1>3 DEF Done
  <2> QED BY Zenon, <1>3, <2>1, CommitFresh
<1>4. CASE Done(x) /\ Ends(x) /\ UNCHANGED <<drafts, active>>
  <2>1. tx' = [tx EXCEPT ![x] = Idle] /\ tx'[x] = Idle
    BY Zenon, <1>1, <1>4 DEF Done
  <2>2. Fresh(x)'
    BY <2>1 DEF Fresh, Idle
  <2>3. overlapped \ {x} \subseteq overlapped' /\ UNCHANGED <<drafts, active>>
    BY Zenon, <1>4 DEF Ends
  <2> QED BY Zenon, <1>2, <2>1, <2>2, <2>3
<1>5. ASSUME NEW v, tx' = [tx EXCEPT ![x] = v], UNCHANGED <<drafts, active, overlapped>>,
             x \notin overlapped => Fresh(x)'
      PROVE  QuietFresh'
  <2>1. UNCHANGED <<drafts, active>> /\ overlapped' = overlapped
    BY Zenon, <1>5
  <2> QED BY Zenon, <1>2, <1>5, <2>1
<1>6. x \notin overlapped => Fresh(x)
  BY Zenon DEF QuietFresh
<1>7. CASE PromoteRead(x)
  <2>1. tx[x] \in PromoteTx
    BY Zenon, <1>1, <1>7, TxKinds DEF PromoteRead, At
  <2>2. CASE active[tx[x].tenant].cur = tx[x].draft
    BY Zenon, <1>4, <1>7, <2>2 DEF PromoteRead
  <2>3. CASE active[tx[x].tenant].cur # tx[x].draft
    <3>1. PICK v : v = [tx[x] EXCEPT !.cur = active[tx[x].tenant].cur, !.step = "write"]
      BY Zenon
    <3>2. tx' = [tx EXCEPT ![x] = v] /\ tx'[x] = v
      BY <1>1, <1>7, <2>3, <3>1 DEF PromoteRead
    <3>3. /\ v.op = "promote" /\ v.draft = tx[x].draft /\ v.tenant = tx[x].tenant
          /\ v.cur = active[tx[x].tenant].cur
      BY <2>1, <3>1 DEF PromoteTx
    <3>4. UNCHANGED <<drafts, active, overlapped>> /\ tx[x].op = "promote"
      BY Zenon, <1>7, <2>3 DEF PromoteRead, At
    <3>5. ASSUME x \notin overlapped PROVE Fresh(x)'
      <4>1. Stored(v.draft)'
        BY Zenon, <1>6, <3>3, <3>4, <3>5 DEF Fresh, Stored
      <4> QED BY <2>3, <3>2, <3>3, <3>4, <4>1 DEF Fresh
    <3> QED BY Zenon, <1>5, <3>2, <3>4, <3>5
  <2> QED BY Zenon, <2>2, <2>3
<1>8. CASE ApproveCheck(x)
  <2>1. tx[x] \in ApproveTx
    BY Zenon, <1>1, <1>8, TxKinds DEF ApproveCheck, At
  <2>2. CASE ~Stored(tx[x].prop)
    BY Zenon, <1>4, <1>8, <2>2 DEF ApproveCheck
  <2>3. CASE Stored(tx[x].prop)
    <3>1. PICK v : v = [tx[x] EXCEPT !.step = "write"]
      BY Zenon
    <3>2. tx' = [tx EXCEPT ![x] = v] /\ tx'[x] = v
      BY <1>1, <1>8, <2>3, <3>1 DEF ApproveCheck, Step
    <3>3. v.op = "approve" /\ v.prop = tx[x].prop
      BY <2>1, <3>1 DEF ApproveTx
    <3>4. UNCHANGED <<drafts, active, overlapped>>
      BY Zenon, <1>8, <2>3 DEF ApproveCheck
    <3>5. Stored(v.prop)'
      BY Zenon, <2>3, <3>3, <3>4 DEF Stored
    <3>6. Fresh(x)'
      BY <3>2, <3>3, <3>5 DEF Fresh
    <3> QED BY Zenon, <1>5, <3>2, <3>4, <3>6
  <2> QED BY Zenon, <2>2, <2>3
<1>9. CASE DeleteRead(x)
  <2>1. tx[x] \in DeleteTx
    BY Zenon, <1>1, <1>9, TxKinds DEF DeleteRead, At
  <2>2. CASE Pinned(tx[x].draft)
    BY Zenon, <1>4, <1>9, <2>2 DEF DeleteRead
  <2>3. CASE ~Pinned(tx[x].draft)
    <3>1. PICK v : v = [tx[x] EXCEPT !.step = "write"]
      BY Zenon
    <3>2. tx' = [tx EXCEPT ![x] = v] /\ tx'[x] = v
      BY <1>1, <1>9, <2>3, <3>1 DEF DeleteRead, Step
    <3>3. v.op = "delete" /\ v.draft = tx[x].draft
      BY <2>1, <3>1 DEF DeleteTx
    <3>4. UNCHANGED <<drafts, active, overlapped>> /\ tx[x].op = "delete"
      BY Zenon, <1>9, <2>3 DEF DeleteRead, At
    <3>5. ASSUME x \notin overlapped PROVE Fresh(x)'
      <4>1. Stored(v.draft)'
        BY Zenon, <1>6, <3>3, <3>4, <3>5 DEF Fresh, Stored
      <4>2. ~Pinned(v.draft)'
        BY Zenon, <2>3, <3>3, <3>4 DEF Pinned
      <4> QED BY <3>2, <3>3, <4>1, <4>2 DEF Fresh
    <3> QED BY Zenon, <1>5, <3>2, <3>4, <3>5
  <2> QED BY Zenon, <2>2, <2>3
<1>10. CASE PromoteWrite(x) \/ ProposeWrite(x) \/ ApproveWrite(x) \/ RollbackWrite(x)
            \/ DeleteWrite(x)
  BY Zenon, <1>3, <1>10 DEF PromoteWrite, ProposeWrite, ApproveWrite, RollbackWrite, DeleteWrite
<1>11. CASE Abort(x)
  BY Zenon, <1>4, <1>11 DEF Abort
<1> QED BY Zenon, <1>7, <1>8, <1>9, <1>10, <1>11 DEF Continue

\* So does the commit of a single statement.
LEMMA SingleFresh ==
  ASSUME NEW x \in Txs, Single(x)
  PROVE  QuietFresh'
<1>1. tx[x] = Idle /\ UNCHANGED tx /\ Commits(x)
  BY Zenon DEF Single, CreateDraft, RejectProposal, DeleteActive
<1> QED BY Zenon, <1>1, CommitFresh

\* The write of a transaction whose reads still hold is the operation of the
\* in-process store.
LEMMA FreshWrites ==
  ASSUME PostgresInv, NEW x \in Txs, Fresh(x), Continue(x)
  PROVE  Store!Next \/ UNCHANGED <<drafts, active>>
<1> USE DEF PostgresInv
<1>1. tx[x] \in Tx /\ active \in [Tenants -> Row]
  BY Zenon DEF TypeOK
<1>2. CASE PromoteWrite(x)
  <2>1. tx[x] \in PromoteTx /\ tx[x].op = "promote" /\ tx[x].step = "write"
    BY Zenon, <1>1, <1>2, TxKinds DEF PromoteWrite, At
  <2>2. PICK t \in Tenants, d \in Drafts, by \in Label :
          t = tx[x].tenant /\ d = tx[x].draft /\ by = tx[x].by
    BY <2>1 DEF PromoteTx
  <2>3. Stored(d) /\ active[t].cur = tx[x].cur /\ active[t].cur # d
    BY Zenon, <2>1, <2>2 DEF Fresh
  <2>4. active' = [active EXCEPT ![t] = Promoted(active[t], d, active[t].cur, by)]
    BY Zenon, <1>1, <1>2, <2>2, <2>3 DEF PromoteWrite
  <2>5. Store!Promote(d, by, t)
    BY Zenon, <1>1, <1>2, <2>3, <2>4
       DEF Store!Promote, Store!Promoted, Promoted, Store!Stored, Stored, PromoteWrite
  <2> QED BY Zenon, <2>2, <2>5 DEF Store!Next, Store!Label, Label
<1>3. CASE ProposeWrite(x)
  <2>1. tx[x] \in ProposeTx /\ tx[x].op = "propose"
    BY Zenon, <1>1, <1>3, TxKinds DEF ProposeWrite, At
  <2>2. PICK t \in Tenants, d \in Drafts, by \in Operators :
          t = tx[x].tenant /\ d = tx[x].draft /\ by = tx[x].by
    BY <2>1 DEF ProposeTx
  <2>3. Stored(d) /\ by # None /\ by \in Label
    BY Zenon, <2>1, <2>2, NoneAssumption DEF Fresh, Label
  <2>4. active' = [active EXCEPT ![t] = Proposed(active[t], d, by)]
    BY Zenon, <1>1, <1>3, <2>2 DEF ProposeWrite
  <2>5. Store!Propose(d, by, t)
    BY Zenon, <1>1, <1>3, <2>3, <2>4
       DEF Store!Propose, Store!Proposed, Proposed, Store!Stored, Stored, ProposeWrite
  <2> QED BY Zenon, <2>2, <2>3, <2>5 DEF Store!Next, Store!Label, Label
<1>4. CASE ApproveWrite(x)
  <2>1. tx[x] \in ApproveTx /\ tx[x].op = "approve" /\ tx[x].step = "write" /\ ApprovalStands(x)
    BY Zenon, <1>1, <1>4, TxKinds DEF ApproveWrite, At, ReadsStand
  <2>2. PICK t \in Tenants, by \in Operators : t = tx[x].tenant /\ by = tx[x].by
    BY <2>1 DEF ApproveTx
  <2>3. /\ t \in rows /\ active[t].cur = tx[x].cur /\ active[t].prop = tx[x].prop
        /\ active[t].propBy = tx[x].propBy /\ active[t].propBy # by
    BY Zenon, <2>1, <2>2 DEF ApprovalStands
  <2>4. tx[x].prop \in Drafts /\ tx[x].propBy \in Operators
    BY Zenon, <2>1 DEF ApproveTx
  <2>5. active[t].prop # None /\ active[t].propBy # None /\ by # None /\ by \in Label
    BY Zenon, <2>3, <2>4, NoneAssumption DEF Label
  <2>6. Stored(active[t].prop)
    BY Zenon, <2>1, <2>3 DEF Fresh
  <2>7. active' = [active EXCEPT ![t] =
                     Approved(active[t], active[t].prop, active[t].cur, active[t].propBy, by)]
    BY Zenon, <1>1, <1>4, <2>2, <2>3 DEF ApproveWrite
  <2>8. Store!Approve(by, t)
    BY Zenon, <1>1, <1>4, <2>3, <2>5, <2>6, <2>7
       DEF Store!Approve, Store!Approved, Approved, Store!Stored, Stored, ApproveWrite
  <2> QED BY Zenon, <2>2, <2>5, <2>8 DEF Store!Next, Store!Label, Label
<1>5. CASE RollbackWrite(x)
  <2>1. tx[x] \in RollbackTx /\ tx[x].op = "rollback"
    BY Zenon, <1>1, <1>5, TxKinds DEF RollbackWrite, At
  <2>2. PICK t \in Tenants, by \in Label : t = tx[x].tenant /\ by = tx[x].by
    BY <2>1 DEF RollbackTx
  <2>3. active[t].prev = tx[x].prev /\ tx[x].prev \in Drafts
    BY Zenon, <2>1, <2>2 DEF Fresh, RollbackTx
  <2>4. active[t].prev # None
    BY Zenon, <2>3, NoneAssumption
  <2>5. t \in rows
    <3>1. Empty.prev = None
      BY Zenon DEF Empty
    <3> QED BY Zenon, <2>4, <3>1 DEF TypeOK
  <2>6. active' = [active EXCEPT ![t] = RolledBack(active[t], active[t].prev, by)]
    BY Zenon, <1>1, <1>5, <2>2, <2>3, <2>5 DEF RollbackWrite
  <2>7. Store!Rollback(by, t)
    BY Zenon, <1>1, <1>5, <2>4, <2>6 DEF Store!Rollback, Store!RolledBack, RolledBack, RollbackWrite
  <2> QED BY Zenon, <2>2, <2>7 DEF Store!Next, Store!Label, Label
<1>6. CASE DeleteWrite(x)
  <2>1. tx[x] \in DeleteTx /\ tx[x].op = "delete" /\ tx[x].step = "write"
    BY Zenon, <1>1, <1>6, TxKinds DEF DeleteWrite, At
  <2>2. PICK d \in Drafts : d = tx[x].draft
    BY Zenon, <2>1 DEF DeleteTx
  <2>3. Stored(d) /\ ~Pinned(d)
    BY Zenon, <2>1, <2>2 DEF Fresh
  <2>4. Store!DeleteDraft(d)
    BY Zenon, <1>6, <2>2, <2>3
       DEF Store!DeleteDraft, Store!Stored, Store!Pinned, Stored, Pinned, DeleteWrite
  <2> QED BY Zenon, <2>2, <2>4 DEF Store!Next
<1>7. CASE PromoteRead(x) \/ ApproveCheck(x) \/ DeleteRead(x) \/ Abort(x)
  BY Zenon, <1>7 DEF PromoteRead, ApproveCheck, DeleteRead, Abort
<1> QED BY Zenon, <1>2, <1>3, <1>4, <1>5, <1>6, <1>7 DEF Continue

\* An operation of a single statement is that of the in-process store.
LEMMA SingleWrites ==
  ASSUME PostgresInv, NEW x \in Txs, Single(x)
  PROVE  Store!Next
<1>1. active \in [Tenants -> Row]
  BY Zenon DEF PostgresInv, TypeOK
<1>2. ASSUME NEW d \in Drafts, CreateDraft(x, d) PROVE Store!Next
  <2>1. Store!CreateDraft(d)
    BY Zenon, <1>2 DEF Store!CreateDraft, CreateDraft
  <2> QED BY Zenon, <2>1 DEF Store!Next
<1>3. ASSUME NEW t \in Tenants, RejectProposal(x, t) PROVE Store!Next
  <2>1. Store!RejectProposal(t)
    BY Zenon, <1>1, <1>3 DEF Store!RejectProposal, Store!Rejected, Rejected, RejectProposal
  <2> QED BY Zenon, <2>1 DEF Store!Next
<1>4. ASSUME NEW t \in Tenants, DeleteActive(x, t) PROVE Store!Next
  <2>1. Store!DeleteActive(t)
    BY Zenon, <1>4 DEF Store!DeleteActive, Store!Empty, Empty, DeleteActive
  <2> QED BY Zenon, <2>1 DEF Store!Next
<1> QED BY Zenon, <1>2, <1>3, <1>4 DEF Single

\* A step of an open transaction ends it or leaves the rows and the drafts alone.
LEMMA ContinueEnds ==
  ASSUME PostgresInv, NEW x \in Txs, Continue(x)
  PROVE  tx'[x] = Idle \/ UNCHANGED <<drafts, active>>
<1>1. tx \in [Txs -> Tx]
  BY Zenon DEF PostgresInv, TypeOK
<1> QED BY Zenon, <1>1 DEF Continue, Done, PromoteRead, PromoteWrite, ProposeWrite, ApproveCheck,
             ApproveWrite, RollbackWrite, DeleteRead, DeleteWrite, Abort

\* For every set of drafts, operators and tenants and any number of sessions: a
\* transaction of the PostgreSQL store acts as the one atomic operation of the
\* in-process store unless another transaction committed since it began
\* (Promote, Propose, Approve, Rollback and DeleteDraft under READ COMMITTED).
THEOREM QuietTransactionsRefine == BackendsSpec => QuietTransactionsAtomic
<1> DEFINE QuietInv == backend = "postgres" => QuietFresh
<1>1. BackendsInit => QuietInv
  <2> SUFFICES ASSUME BackendsInit, NEW x \in Txs PROVE Fresh(x)
    BY Zenon DEF QuietFresh
  <2>1. tx[x] = Idle
    BY Zenon DEF BackendsInit, Init
  <2> QED BY <2>1 DEF Fresh, Idle
<1>2. PolicyInv /\ QuietInv /\ [BackendsNext]_allVars => QuietInv'
  <2> SUFFICES ASSUME PolicyInv, QuietInv, [BackendsNext]_allVars, backend' = "postgres"
               PROVE  QuietFresh'
    OBVIOUS
  <2>1. CASE UNCHANGED allVars
    BY Zenon, <2>1 DEF allVars, vars, QuietFresh, Fresh, Stored, Pinned
  <2>2. CASE BackendsNext
    <3>1. backend = "postgres" /\ Next
      BY <2>2 DEF BackendsNext
    <3> QED BY Zenon, <3>1, BeginFresh, ContinueFresh, SingleFresh DEF PolicyInv, Next
  <2> QED BY Zenon, <2>1, <2>2
<1>3. PolicyInv /\ QuietInv /\ [BackendsNext]_allVars =>
        [\/ Store!Next
         \/ UNCHANGED <<drafts, active>>
         \/ \E x \in overlapped : tx'[x] = Idle]_vars
  <2> SUFFICES ASSUME PolicyInv, QuietInv, BackendsNext
               PROVE  \/ Store!Next
                      \/ UNCHANGED <<drafts, active>>
                      \/ \E x \in overlapped : tx'[x] = Idle
    BY Zenon DEF allVars
  <2>1. CASE backend = "memory" /\ Store!Next
    BY Zenon, <2>1
  <2>2. CASE backend = "postgres" /\ Next
    <3>1. PostgresInv /\ QuietFresh
      BY Zenon, <2>2 DEF PolicyInv
    <3>2. ASSUME NEW x \in Txs, Begin(x) PROVE UNCHANGED <<drafts, active>>
      BY Zenon, <3>2 DEF Begin, BeginPromote, ApproveRead, RollbackRead, BeginDelete
    <3>3. ASSUME NEW x \in Txs \ overlapped, Continue(x)
          PROVE  Store!Next \/ UNCHANGED <<drafts, active>>
      BY Zenon, <3>1, <3>3, FreshWrites DEF QuietFresh
    <3>4. ASSUME NEW x \in Txs, x \in overlapped, Continue(x)
          PROVE  tx'[x] = Idle \/ UNCHANGED <<drafts, active>>
      BY Zenon, <3>1, <3>4, ContinueEnds
    <3> QED BY Zenon, <2>2, <3>1, <3>2, <3>3, <3>4, SingleWrites DEF Next
  <2> QED BY Zenon, <2>1, <2>2 DEF BackendsNext
<1> HIDE DEF QuietInv
<1>4. BackendsSpec => []QuietInv
  BY <1>1, <1>2, PolicyAlways, PTL DEF BackendsSpec
<1> QED BY <1>3, <1>4, PolicyAlways, PTL DEF BackendsSpec, QuietTransactionsAtomic
=============================================================================
