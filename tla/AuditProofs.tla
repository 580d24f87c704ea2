---------------------------- MODULE AuditProofs -----------------------------
(***************************************************************************)
(* The audit trail.  For every set of workers, events, tenants, timestamps *)
(* and bundles, the row lock on the head makes the inserts of a chain a    *)
(* single line, whichever transactions are rolled back; for every set of   *)
(* requests, sinks, buffers and batches, an emitted event is in one place  *)
(* of a sink, and a shutdown within its budget leaves none behind.         *)
(***************************************************************************)
EXTENDS AuditChain, AuditSinks, TLAPS

\* The chain an event belongs to.
ChainOf(e) == ChainTenant(body[e].tenant)

Hashes == Seq(Events \X EventTenants \X Times \X Bundles)

StoredBodies == [tenant : EventTenants, ts : Times, bundle : Bundles \cup {""}]

Rows == [id : Nat, event : Events, stored : StoredBodies, prev : Hashes, hash : Hashes]

Transactions == {Idle} \cup [at : {"locked"}, event : Events, prev : Hashes]
                       \cup [at : {"inserted"}, row : Rows]

\* The types TypeOK leaves out because TLC cannot enumerate them.
Types ==
  /\ body \in [Events -> Bodies]
  /\ heads \in [Chains -> Hashes]
  /\ lock \in [Chains -> Workers \cup {"none"}]
  /\ rows \subseteq Rows
  /\ nextId \in Nat
  /\ tx \in [Workers -> Transactions]
  /\ emitted \subseteq Events

\* A transaction that has read the head holds its lock, and the head is still
\* what it read.
ReadsStand ==
  \A w \in Workers : tx[w].at = "locked" =>
    lock[ChainOf(tx[w].event)] = w /\ tx[w].prev = heads[ChainOf(tx[w].event)]

\* The row of a transaction extends the head by one link, and its id is above
\* those of the chain.
InsertStands(row, w) ==
  /\ lock[ChainOf(row.event)] = w
  /\ row.prev = heads[ChainOf(row.event)]
  /\ Len(row.hash) = Len(row.prev) + 1
  /\ row.id \in 1..nextId
  /\ \A q \in ChainRows(ChainOf(row.event)) : q.id < row.id

InsertsStand == \A w \in Workers : tx[w].at = "inserted" => InsertStands(tx[w].row, w)

\* Every committed row lies below the head of its chain.
RowsBelowHead ==
  \A r \in rows : r.id \in 1..nextId /\ Len(r.prev) < Len(heads[ChainOf(r.event)])

IInv == Types /\ ReadsStand /\ InsertsStand /\ RowsBelowHead /\ NoFork /\ HeadIsNewest

-----------------------------------------------------------------------------
\* Every event has a chain.
LEMMA ChainOfType ==
  ASSUME Types, NEW e \in Events
  PROVE  ChainOf(e) \in Chains
BY DEF Types, ChainOf, Chains, Bodies

\* What a transaction record looks like, by where it is.
LEMMA TxShape ==
  ASSUME Types, NEW w \in Workers
  PROVE  /\ tx[w].at \in {"idle", "locked", "inserted"}
         /\ tx[w].at = "locked" => tx[w].event \in Events /\ tx[w].prev \in Hashes
         /\ tx[w].at = "inserted" => tx[w].row \in Rows
BY DEF Types, Transactions, Idle

\* An insert stands as long as its chain is left alone.
LEMMA InsertKept ==
  ASSUME Types, InsertsStand, NEW v \in Workers,
         tx'[v] = tx[v], tx[v].at = "inserted",
         body' = body, nextId' >= nextId, nextId' \in Nat,
         NEW c, c = ChainOf(tx[v].row.event),
         lock'[c] = lock[c], heads'[c] = heads[c], ChainRows(c)' = ChainRows(c)
  PROVE  InsertStands(tx[v].row, v)'
<1>1. InsertStands(tx[v].row, v)
  BY DEF InsertsStand
<1>2. ChainOf(tx[v].row.event)' = c
  BY Zenon DEF ChainOf
<1>3. tx[v].row.id \in 1..nextId'
  BY <1>1 DEF InsertStands, Types
<1> QED BY Zenon, <1>1, <1>2, <1>3 DEF InsertStands

LEMMA InitIInv == Init => IInv
BY DEF Init, IInv, Types, ReadsStand, InsertsStand, RowsBelowHead, NoFork,
       HeadIsNewest, ChainRows, Hashes, Transactions, Idle

\* A hash covers one body more than the hash before it.
LEMMA HashExtends ==
  ASSUME Types, NEW e \in Events, NEW prev \in Hashes
  PROVE  /\ ComputeHash(prev, CanonicalForHash(e, body[e])) \in Hashes
         /\ Len(ComputeHash(prev, CanonicalForHash(e, body[e]))) = Len(prev) + 1
<1>1. CanonicalForHash(e, body[e]) \in Events \X EventTenants \X Times \X Bundles
  BY DEF Types, Bodies, CanonicalForHash
<1> QED BY <1>1 DEF ComputeHash, Hashes

LEMMA LockHeadIInv ==
  ASSUME IInv, NEW w \in Workers, NEW e \in Events, LockHead(w, e)
  PROVE  IInv'
<1> USE DEF IInv, LockHead
<1>0. ChainOf(e) \in Chains /\ (\A d : ChainOf(d)' = ChainOf(d))
  BY ChainOfType DEF ChainOf
<1>1. Types'
  BY <1>0 DEF Types, Transactions, ChainOf
<1>2. ReadsStand'
  BY <1>0, TxShape, WorkersAssumption DEF ReadsStand, Types, ChainOf, Idle
<1>3. InsertsStand'
  <2> SUFFICES ASSUME NEW v \in Workers, tx'[v].at = "inserted"
               PROVE  InsertStands(tx[v].row, v)' /\ tx'[v] = tx[v]
    BY Zenon DEF InsertsStand
  <2>1. tx'[v] = tx[v]
    BY Zenon DEF Types
  <2>2. tx[v].row \in Rows /\ lock[ChainOf(tx[v].row.event)] = v
    BY Zenon, <2>1, TxShape DEF InsertsStand, InsertStands
  <2>3. ChainOf(tx[v].row.event) \in Chains
    BY Zenon, <2>2, ChainOfType DEF Rows
  <2>4. lock[ChainOf(e)] = "none" /\ lock' = [lock EXCEPT ![ChainOf(e)] = w]
    BY DEF ChainOf
  <2>5. lock'[ChainOf(tx[v].row.event)] = lock[ChainOf(tx[v].row.event)]
    BY <2>2, <2>3, <2>4, WorkersAssumption DEF Types
  <2>6. \A c : ChainRows(c)' = ChainRows(c)
    BY Zenon DEF ChainRows
  <2> QED
    <3>1. PICK c : c = ChainOf(tx[v].row.event)
      BY Zenon
    <3> QED BY <3>1, <2>1, <2>5, <2>6, InsertKept DEF Types
<1>4. RowsBelowHead'
  BY Zenon DEF RowsBelowHead, ChainOf
<1>5. NoFork' /\ HeadIsNewest'
  BY DEF NoFork, HeadIsNewest, ChainRows
<1> QED BY <1>1, <1>2, <1>3, <1>4, <1>5

LEMMA RowType ==
  ASSUME NEW i \in Nat, NEW e \in Events, NEW p \in Hashes, NEW h \in Hashes,
         NEW b \in StoredBodies
  PROVE  [id |-> i + 1, event |-> e, stored |-> b, prev |-> p, hash |-> h] \in Rows
BY DEF Rows

LEMMA InsertRowIInv ==
  ASSUME IInv, NEW w \in Workers, InsertRow(w)
  PROVE  IInv'
<1> USE DEF IInv, InsertRow
<1> DEFINE e == tx[w].event
<1>0. /\ e \in Events /\ tx[w].prev \in Hashes
      /\ ChainOf(e) \in Chains /\ (\A d : ChainOf(d)' = ChainOf(d))
  BY Zenon, ChainOfType, TxShape DEF ChainOf
<1>1. Types'
  <2>1. Stored(body[e]) \in StoredBodies
    BY Zenon, <1>0 DEF Stored, Types, Bodies, StoredBodies
  <2> DEFINE hash == ComputeHash(tx[w].prev, CanonicalForHash(e, body[e]))
             row == [id |-> nextId + 1, event |-> e, stored |-> Stored(body[e]),
                     prev |-> tx[w].prev, hash |-> hash]
  <2>2. hash \in Hashes
    BY Zenon, <1>0, HashExtends
  <2>3. row \in Rows
    BY Zenon, <1>0, <2>1, <2>2, RowType DEF Types
  <2>4. tx' = [tx EXCEPT ![w] = [at |-> "inserted", row |-> row]]
    BY Zenon
  <2>5. tx' \in [Workers -> Transactions]
    <3> HIDE DEF row
    <3> QED BY <2>3, <2>4 DEF Types, Transactions
  <2> QED BY <2>5 DEF Types
<1>2. ReadsStand'
  BY <1>0, TxShape DEF ReadsStand, Types
<1>3. InsertsStand'
  <2>0. \A c : ChainRows(c)' = ChainRows(c)
    BY Zenon DEF ChainRows
  <2> SUFFICES ASSUME NEW v \in Workers, tx'[v].at = "inserted"
               PROVE  InsertStands(tx[v].row, v)'
    BY Zenon DEF InsertsStand
  <2>1. CASE v = w
    <3>1. /\ tx'[w].row.event = e /\ tx'[w].row.prev = tx[w].prev
          /\ tx'[w].row.id = nextId + 1
          /\ tx'[w].row.hash = ComputeHash(tx[w].prev, CanonicalForHash(e, body[e]))
      BY Zenon DEF Types
    <3>2. lock[ChainOf(e)] = w /\ tx[w].prev = heads[ChainOf(e)]
      BY Zenon DEF ReadsStand
    <3>3. \A q \in ChainRows(ChainOf(e)) : q.id < nextId + 1
      BY DEF RowsBelowHead, ChainRows, Types
    <3>4. Len(tx'[w].row.hash) = Len(tx'[w].row.prev) + 1
      BY Zenon, <3>1, <1>0, HashExtends
    <3> QED BY <2>0, <2>1, <3>1, <3>2, <3>3, <3>4, <1>0 DEF InsertStands, Types
  <2>2. CASE v # w
    <3>1. tx'[v] = tx[v]
      BY Zenon, <2>2 DEF Types
    <3>2. PICK c : c = ChainOf(tx[v].row.event)
      BY Zenon
    <3> QED BY <2>0, <3>1, <3>2, InsertKept DEF Types
  <2> QED BY Zenon, <2>1, <2>2
<1>4. RowsBelowHead'
  BY DEF RowsBelowHead, ChainOf, Types
<1>5. NoFork' /\ HeadIsNewest'
  BY DEF NoFork, HeadIsNewest, ChainRows
<1> QED BY Zenon, <1>1, <1>2, <1>3, <1>4, <1>5

\* The crucial step.  The committed row extends the head, which no other row
\* of the chain does: all of them lie below it.
LEMMA CommitIInv ==
  ASSUME IInv, NEW w \in Workers, Commit(w)
  PROVE  IInv'
<1>i. Types /\ ReadsStand /\ InsertsStand /\ RowsBelowHead /\ NoFork /\ HeadIsNewest
  BY DEF IInv
<1>u. /\ tx[w].at = "inserted" /\ tx' = [tx EXCEPT ![w] = Idle]
      /\ UNCHANGED <<body, nextId, emitted>>
  BY Zenon DEF Commit
<1>a. PICK row : row = tx[w].row
  OBVIOUS
<1>b. PICK c : c = ChainOf(row.event)
  OBVIOUS
<1>0. /\ row \in Rows /\ c \in Chains /\ (\A d : ChainOf(d)' = ChainOf(d))
  <2>1. row \in Rows
    BY <1>i, <1>u, <1>a, TxShape
  <2>2. c \in Chains
    BY <1>i, <2>1, <1>b, ChainOfType DEF Rows
  <2> QED BY <1>u, <2>1, <2>2 DEF ChainOf
<1>1. /\ lock[c] = w /\ row.prev = heads[c]
      /\ Len(row.hash) = Len(row.prev) + 1 /\ row.id \in 1..nextId
      /\ \A q \in ChainRows(c) : q.id < row.id
  BY Zenon, <1>i, <1>u, <1>a, <1>b DEF InsertsStand, InsertStands
<1>2. /\ heads' = [heads EXCEPT ![c] = row.hash] /\ lock' = [lock EXCEPT ![c] = "none"]
      /\ rows' = rows \cup {row}
  BY Zenon, <1>a, <1>b DEF ChainOf, Commit
<1>3. Types'
  BY Zenon, <1>i, <1>u, <1>0, <1>2 DEF Types, Transactions, Rows
\* No other transaction is on this chain.
<1>4. \A v \in Workers \ {w} :
        /\ tx'[v] = tx[v]
        /\ tx[v].at = "locked" => ChainOf(tx[v].event) \in Chains \ {c}
        /\ tx[v].at = "inserted" => ChainOf(tx[v].row.event) \in Chains \ {c}
  <2> SUFFICES ASSUME NEW v \in Workers \ {w}
               PROVE  /\ tx'[v] = tx[v]
                      /\ tx[v].at = "locked" => ChainOf(tx[v].event) \in Chains \ {c}
                      /\ tx[v].at = "inserted" => ChainOf(tx[v].row.event) \in Chains \ {c}
    BY Zenon
  <2>1. tx'[v] = tx[v]
    BY <1>i, <1>u DEF Types
  <2>2. ASSUME tx[v].at = "locked" PROVE ChainOf(tx[v].event) \in Chains \ {c}
    BY <1>i, <2>2, <1>1, ChainOfType, TxShape DEF ReadsStand
  <2>3. ASSUME tx[v].at = "inserted" PROVE ChainOf(tx[v].row.event) \in Chains \ {c}
    <3>1. tx[v].row.event \in Events
      BY Zenon, <1>i, <2>3, TxShape DEF Rows
    <3> QED BY Zenon, <1>i, <2>3, <3>1, <1>1, ChainOfType DEF InsertsStand, InsertStands
  <2> QED BY Zenon, <2>1, <2>2, <2>3
<1>5. \A d \in Chains \ {c} : /\ heads'[d] = heads[d] /\ lock'[d] = lock[d]
                              /\ ChainRows(d)' = ChainRows(d)
  <2> SUFFICES ASSUME NEW d \in Chains \ {c}
               PROVE  heads'[d] = heads[d] /\ lock'[d] = lock[d] /\ ChainRows(d)' = ChainRows(d)
    OBVIOUS
  <2>1. heads'[d] = heads[d] /\ lock'[d] = lock[d]
    BY <1>i, <1>2 DEF Types
  <2>2. /\ ChainRows(d) = {r \in rows : ChainOf(r.event) = d}
        /\ ChainRows(d)' = {r \in rows' : ChainOf(r.event) = d}
    BY <1>u DEF ChainRows, ChainOf
  <2> QED BY <2>1, <2>2, <1>2, <1>b
<1>6. ChainRows(c)' = ChainRows(c) \cup {row} /\ heads'[c] = row.hash
  <2>1. \A d : ChainRows(d) = {r \in rows : ChainOf(r.event) = d}
    BY <1>u DEF ChainRows, ChainOf
  <2>2. ChainRows(c)' = {r \in rows' : ChainOf(r.event) = c}
    BY <1>u DEF ChainRows, ChainOf
  <2>3. ChainRows(c)' = ChainRows(c) \cup {row}
    BY <2>1, <2>2, <1>2, <1>b
  <2>4. heads'[c] = row.hash
    BY <1>i, <1>0, <1>2 DEF Types
  <2> QED BY <2>3, <2>4
<1>w. tx'[w] = Idle
  BY <1>i, <1>u DEF Types
<1>7. ReadsStand'
  <2> SUFFICES ASSUME NEW v \in Workers, tx'[v].at = "locked"
               PROVE  /\ lock'[ChainOf(tx'[v].event)] = v
                      /\ tx'[v].prev = heads'[ChainOf(tx'[v].event)]
    BY Zenon, <1>0 DEF ReadsStand
  <2>1. v # w /\ tx'[v] = tx[v]
    BY <1>4, <1>w DEF Idle
  <2>2. ChainOf(tx[v].event) \in Chains \ {c}
    BY Zenon, <2>1, <1>4
  <2> QED BY <1>i, <2>1, <2>2, <1>5 DEF ReadsStand
<1>8. InsertsStand'
  <2> SUFFICES ASSUME NEW v \in Workers, tx'[v].at = "inserted"
               PROVE  InsertStands(tx[v].row, v)'
    BY Zenon, <1>i DEF InsertsStand
  <2>1. v # w /\ tx'[v] = tx[v]
    BY <1>4, <1>w DEF Idle
  <2>2. ChainOf(tx[v].row.event) \in Chains \ {c}
    BY Zenon, <2>1, <1>4
  <2>3. PICK d : d = ChainOf(tx[v].row.event)
    BY Zenon
  <2> QED BY <1>i, <1>u, <2>1, <2>2, <2>3, <1>5, InsertKept DEF Types
<1>9. RowsBelowHead'
  <2> SUFFICES ASSUME NEW r \in rows'
               PROVE  r.id \in 1..nextId /\ Len(r.prev) < Len(heads'[ChainOf(r.event)])
    BY <1>i, <1>u, <1>0 DEF RowsBelowHead
  <2>0. heads[c] \in Hashes /\ Len(heads[c]) \in Nat
    BY <1>i, <1>0 DEF Types, Hashes
  <2>1. CASE r = row
    BY <2>0, <2>1, <1>1, <1>6, <1>b
  <2>2. CASE r \in rows /\ ChainOf(r.event) = c
    <3>1. Len(r.prev) \in Nat /\ Len(r.prev) < Len(heads[c]) /\ r.id \in 1..nextId
      <4>1. r.prev \in Hashes
        BY Zenon, <1>i, <2>2 DEF Types, Rows
      <4>2. Len(r.prev) \in Nat
        BY <4>1 DEF Hashes
      <4> QED BY <1>i, <2>2, <4>2 DEF RowsBelowHead
    <3> QED BY <2>0, <2>2, <3>1, <1>1, <1>6
  <2>3. CASE r \in rows /\ ChainOf(r.event) # c
    <3>1. ChainOf(r.event) \in Chains \ {c}
      BY Zenon, <1>i, <2>3, ChainOfType DEF Types, Rows
    <3> QED BY Zenon, <1>i, <2>3, <3>1, <1>5 DEF RowsBelowHead
  <2> QED BY Zenon, <2>1, <2>2, <2>3, <1>2
<1>10. NoFork'
  <2>1. \A r \in rows : ChainOf(r.event) = c => r.prev # row.prev
    <3> SUFFICES ASSUME NEW r \in rows, ChainOf(r.event) = c PROVE r.prev # heads[c]
      BY Zenon, <1>1
    <3>1. heads[c] \in Hashes
      BY Zenon, <1>i, <1>0 DEF Types
    <3>2. Len(heads[c]) \in Nat
      BY <3>1 DEF Hashes
    <3>3. Len(r.prev) < Len(heads[c])
      BY <1>i DEF RowsBelowHead
    <3> QED BY <3>2, <3>3
  <2>2. \A q, r \in rows' : ChainOf(q.event) = ChainOf(r.event) /\ q.prev = r.prev => q = r
    BY Zenon, <1>i, <2>1, <1>2, <1>b DEF NoFork, ChainOf
  <2> QED BY Zenon, <1>i, <2>2, <1>0 DEF NoFork, ChainOf
<1>11. HeadIsNewest'
  <2> SUFFICES ASSUME NEW d \in Chains
               PROVE  IF ChainRows(d)' = {} THEN heads'[d] = <<>>
                      ELSE \E r \in ChainRows(d)' : /\ heads'[d] = r.hash
                                                    /\ \A q \in ChainRows(d)' : q.id <= r.id
    BY Zenon, <1>i DEF HeadIsNewest
  <2>1. CASE d = c
    <3>1. \A q \in ChainRows(c)' : q.id <= row.id
      <4>1. row.id \in Nat /\ \A q \in ChainRows(c) : q.id \in Nat
        <5>1. ChainRows(c) \subseteq Rows
          BY <1>i DEF ChainRows, Types
        <5> QED BY <1>0, <5>1 DEF Rows
      <4>2. \A q \in ChainRows(c) : q.id <= row.id
        <5> QED BY <4>1, <1>1
      <4> QED BY <4>1, <4>2, <1>6
    <3> QED BY Zenon, <2>1, <3>1, <1>6
  <2>2. CASE d # c
    BY <1>i, <2>2, <1>5 DEF HeadIsNewest
  <2> QED BY Zenon, <2>1, <2>2
<1> QED BY <1>3, <1>7, <1>8, <1>9, <1>10, <1>11 DEF IInv

LEMMA RollbackIInv ==
  ASSUME IInv, NEW w \in Workers, Rollback(w)
  PROVE  IInv'
<1> USE DEF IInv, Rollback
<1>0. \A d : ChainOf(d)' = ChainOf(d)
  BY Zenon DEF ChainOf
<1>1. Types'
  BY Zenon DEF Types, Transactions
<1>2. /\ tx'[w] = Idle
      /\ \A v \in Workers \ {w} : tx'[v] = tx[v]
      /\ \A d \in Chains : lock[d] # w => lock'[d] = lock[d]
  BY Zenon DEF Types
<1>3. ReadsStand'
  BY <1>0, <1>2, ChainOfType, TxShape DEF ReadsStand, Idle
<1>4. InsertsStand'
  <2> SUFFICES ASSUME NEW v \in Workers, tx'[v].at = "inserted"
               PROVE  InsertStands(tx[v].row, v)'
    BY Zenon DEF InsertsStand
  <2>1. v # w /\ tx'[v] = tx[v]
    BY <1>2 DEF Idle
  <2>2. ChainOf(tx[v].row.event) \in Chains /\ lock[ChainOf(tx[v].row.event)] = v
    <3>1. tx[v].row.event \in Events
      BY Zenon, <2>1, TxShape DEF Rows
    <3> QED BY Zenon, <2>1, <3>1, ChainOfType DEF InsertsStand, InsertStands
  <2>3. lock'[ChainOf(tx[v].row.event)] = lock[ChainOf(tx[v].row.event)]
    BY Zenon, <2>1, <2>2, <1>2
  <2>4. \A c : ChainRows(c)' = ChainRows(c)
    BY Zenon DEF ChainRows
  <2> QED
    <3>1. PICK c : c = ChainOf(tx[v].row.event)
      BY Zenon
    <3> QED BY <3>1, <2>1, <2>3, <2>4, InsertKept DEF Types
<1>5. RowsBelowHead'
  BY Zenon DEF RowsBelowHead, ChainOf
<1>6. NoFork' /\ HeadIsNewest'
  BY DEF NoFork, HeadIsNewest, ChainRows
<1> QED BY Zenon, <1>1, <1>3, <1>4, <1>5, <1>6

LEMMA NextIInv == IInv /\ [Next]_vars => IInv'
<1> SUFFICES ASSUME IInv, [Next]_vars PROVE IInv'
  OBVIOUS
<1>1. CASE UNCHANGED vars
  <2>1. /\ Types' /\ UNCHANGED <<heads, lock, rows, nextId, tx>>
        /\ \A e : ChainOf(e)' = ChainOf(e)
        /\ \A c : ChainRows(c)' = ChainRows(c)
    BY Zenon, <1>1 DEF vars, IInv, Types, ChainOf, ChainRows
  <2>2. ReadsStand' /\ RowsBelowHead'
    BY Zenon, <2>1 DEF IInv, ReadsStand, RowsBelowHead
  <2>3. InsertsStand'
    BY Zenon, <2>1 DEF IInv, InsertsStand, InsertStands
  <2>4. NoFork' /\ HeadIsNewest'
    BY Zenon, <1>1, <2>1 DEF vars, IInv, NoFork, HeadIsNewest
  <2> QED BY Zenon, <2>1, <2>2, <2>3, <2>4 DEF IInv
<1>2. CASE Next
  BY Zenon, <1>2, LockHeadIInv, InsertRowIInv, CommitIInv, RollbackIInv DEF Next
<1> QED BY <1>1, <1>2

THEOREM Invariance == Spec => []IInv
BY InitIInv, NextIInv, PTL DEF Spec

-----------------------------------------------------------------------------
\* The type invariant of the audit chain.
THEOREM TypeCorrect == Spec => []TypeOK
<1>1. IInv => TypeOK
  <2> SUFFICES ASSUME IInv PROVE TypeOK
    OBVIOUS
  <2>1. \A w \in Workers : tx[w].at \in {"idle", "locked", "inserted"}
    BY Zenon, TxShape DEF IInv
  <2>2. \A r \in rows : r.id \in 1..nextId /\ r.event \in Events
    BY DEF IInv, Types, RowsBelowHead, Rows
  <2> QED BY Zenon, <2>1, <2>2 DEF IInv, Types, TypeOK
<1> QED BY <1>1, Invariance, PTL

\* No two rows of a chain share a predecessor: Insert's lock on the head row
\* serializes the writers of a chain, any number of them.
THEOREM ChainNeverForks == Spec => []NoFork
<1>1. IInv => NoFork
  BY DEF IInv
<1> QED BY <1>1, Invariance, PTL

\* The head is the hash of the row of its chain with the greatest id, or the
\* empty hash: ids and links agree on the order of the chain.
THEOREM HeadAlwaysNewest == Spec => []HeadIsNewest
<1>1. IInv => HeadIsNewest
  BY DEF IInv
<1> QED BY <1>1, Invariance, PTL

-----------------------------------------------------------------------------
(* An untouched log verifies.  On top of IInv: rows keep what was hashed,  *)
(* and the rows of a chain are linked in the order of their ids.           *)

Faithful(row) ==
  /\ row.hash = ComputeHash(row.prev, CanonicalForHash(row.event, body[row.event]))
  /\ row.stored = Stored(body[row.event])

RowsFaithful ==
  /\ \A r \in rows : Faithful(r)
  /\ \A w \in Workers : tx[w].at = "inserted" => Faithful(tx[w].row)

Linked ==
  \A c \in Chains : \A q, r \in ChainRows(c) :
    /\ q.id = r.id => q = r
    /\ Before(ChainRows(c), q, r) => r.prev = q.hash

\* Only an insert makes a row and only a commit publishes one.
LEMMA RowsFaithfulKept ==
  ASSUME IInv, RowsFaithful, [Next]_vars
  PROVE  RowsFaithful'
<1>0. body' = body
  BY Zenon DEF Next, LockHead, InsertRow, Commit, Rollback, vars
<1>f. ASSUME NEW r PROVE Faithful(r)' <=> Faithful(r)
  BY Zenon, <1>0 DEF Faithful
<1>1. ASSUME NEW w \in Workers, NEW e \in Events, LockHead(w, e) PROVE RowsFaithful'
  BY Zenon, <1>0, <1>1 DEF RowsFaithful, LockHead, IInv, Types, Faithful
<1>2. ASSUME NEW w \in Workers, InsertRow(w) PROVE RowsFaithful'
  <2>1. \A v \in Workers \ {w} : tx'[v] = tx[v]
    BY Zenon, <1>2 DEF InsertRow, IInv, Types
  <2>2. /\ tx'[w].row.event = tx[w].event /\ tx'[w].row.prev = tx[w].prev
        /\ tx'[w].row.stored = Stored(body[tx[w].event])
        /\ tx'[w].row.hash = ComputeHash(tx[w].prev, CanonicalForHash(tx[w].event, body[tx[w].event]))
    BY Zenon, <1>2 DEF InsertRow, IInv, Types
  <2>3. Faithful(tx[w].row)'
    BY Zenon, <2>2, <1>0 DEF Faithful
  <2>4. rows' = rows
    BY Zenon, <1>2 DEF InsertRow
  <2> QED BY <2>1, <2>3, <2>4, <1>0 DEF RowsFaithful, Faithful
<1>3. ASSUME NEW w \in Workers, Commit(w) PROVE RowsFaithful'
  <2>1. /\ rows' = rows \cup {tx[w].row} /\ tx[w].at = "inserted"
        /\ tx'[w] = Idle /\ \A v \in Workers \ {w} : tx'[v] = tx[v]
    BY Zenon, <1>3 DEF Commit, IInv, Types
  <2> QED BY <2>1, <1>0 DEF RowsFaithful, Faithful, Idle
<1>4. ASSUME NEW w \in Workers, Rollback(w) PROVE RowsFaithful'
  <2>1. /\ rows' = rows /\ tx'[w] = Idle /\ \A v \in Workers \ {w} : tx'[v] = tx[v]
    BY Zenon, <1>4 DEF Rollback, IInv, Types
  <2> QED BY <2>1, <1>0 DEF RowsFaithful, Faithful, Idle
<1>5. ASSUME UNCHANGED vars PROVE RowsFaithful'
  BY Zenon, <1>5 DEF RowsFaithful, Faithful, vars
<1> QED BY Zenon, <1>1, <1>2, <1>3, <1>4, <1>5 DEF Next

\* The committed row has the greatest id of its chain and links to the row
\* that had it before, because the head is that row's hash.
LEMMA CommitLinked ==
  ASSUME IInv, Linked, NEW w \in Workers, Commit(w)
  PROVE  Linked'
<1>a. PICK row : row = tx[w].row
  OBVIOUS
<1>b. PICK c : c = ChainOf(row.event)
  OBVIOUS
<1>0. /\ rows' = rows \cup {row} /\ body' = body
      /\ row \in Rows /\ row.prev = heads[c] /\ \A q \in ChainRows(c) : q.id < row.id
  <2>1. row \in Rows
    BY Zenon, <1>a, TxShape DEF IInv, Commit
  <2> QED BY Zenon, <2>1, <1>a, <1>b DEF IInv, Commit, InsertsStand, InsertStands
<1>1. \A d : /\ ChainRows(d) = {r \in rows : ChainOf(r.event) = d}
             /\ ChainRows(d)' = {r \in rows' : ChainOf(r.event) = d}
             /\ ChainRows(d) \subseteq Rows
  BY Zenon, <1>0 DEF ChainRows, ChainOf, IInv, Types
<1> SUFFICES ASSUME NEW d \in Chains, NEW q \in ChainRows(d)', NEW r \in ChainRows(d)'
             PROVE  /\ q.id = r.id => q = r
                    /\ Before(ChainRows(d)', q, r) => r.prev = q.hash
  BY Zenon DEF Linked, Before
<1>2. CASE d # c
  <2>1. ChainRows(d)' = ChainRows(d)
    BY Zenon, <1>0, <1>1, <1>b, <1>2
  <2> QED BY <2>1 DEF Linked
<1>3. CASE d = c
  <2>1. ChainRows(c)' = ChainRows(c) \cup {row}
    BY Zenon, <1>0, <1>1, <1>b
  <2>2. row.id \in Nat /\ \A s \in ChainRows(c) : s.id \in Nat
    BY <1>0, <1>1 DEF Rows
  <2>3. CASE q \in ChainRows(c) /\ r \in ChainRows(c)
    <3>1. Before(ChainRows(c)', q, r) => Before(ChainRows(c), q, r)
      BY Zenon, <2>1 DEF Before
    <3> QED BY <1>3, <2>3, <3>1 DEF Linked
  <2>4. CASE q = row /\ r \in ChainRows(c)
    BY <2>2, <2>4, <1>0 DEF Before
  <2>5. CASE q = row /\ r = row
    BY <2>2, <2>5 DEF Before
  <2>6. CASE q \in ChainRows(c) /\ r = row
    <3>1. q.id # r.id
      BY <2>2, <2>6, <1>0
    <3>2. ASSUME Before(ChainRows(c)', q, row) PROVE row.prev = q.hash
      <4>1. PICK h \in ChainRows(c) : heads[c] = h.hash /\ \A s \in ChainRows(c) : s.id <= h.id
        BY Zenon, <1>3, <2>6 DEF IInv, HeadIsNewest
      <4>2. h.id <= q.id
        BY <3>2, <2>1, <2>2, <1>0 DEF Before
      <4>3. h.id = q.id
        BY <4>1, <4>2, <2>2, <2>6
      <4> QED BY <4>1, <4>3, <1>0, <1>3, <2>6 DEF Linked
    <3> QED BY Zenon, <3>1, <3>2, <1>3, <2>6
  <2> QED BY Zenon, <1>3, <2>1, <2>3, <2>4, <2>5, <2>6
<1> QED BY Zenon, <1>2, <1>3

LEMMA LinkedKept ==
  ASSUME IInv, Linked, [Next]_vars
  PROVE  Linked'
<1>1. ASSUME UNCHANGED <<rows, body>> PROVE Linked'
  BY <1>1 DEF Linked, ChainRows, Before
<1>2. ASSUME NEW w \in Workers, Commit(w) PROVE Linked'
  BY <1>2, CommitLinked
<1> QED BY Zenon, <1>1, <1>2 DEF Next, LockHead, InsertRow, Rollback, vars

LEMMA LogStart == Init => RowsFaithful /\ Linked
<1> SUFFICES ASSUME Init PROVE RowsFaithful /\ Linked
  OBVIOUS
<1>1. \A w \in Workers : tx[w].at = "idle"
  BY Zenon DEF Init, Idle
<1>2. rows = {} /\ \A c : ChainRows(c) = {}
  BY DEF Init, ChainRows
<1> QED BY Zenon, <1>1, <1>2 DEF RowsFaithful, Linked

LEMMA InvariantOfLog == Spec => [](IInv /\ RowsFaithful /\ Linked)
<1>1. IInv /\ RowsFaithful /\ Linked /\ [Next]_vars => (RowsFaithful /\ Linked)'
  BY RowsFaithfulKept, LinkedKept
<1> QED BY <1>1, LogStart, Invariance, PTL DEF Spec

\* Every row that Insert wrote has a hash.
LEMMA RowsHaveHash ==
  ASSUME Types, RowsFaithful, NEW r \in rows
  PROVE  r.hash # <<>>
<1>1. r.prev \in Hashes /\ r.hash = Append(r.prev, CanonicalForHash(r.event, body[r.event]))
  BY Zenon DEF Types, Rows, RowsFaithful, Faithful, ComputeHash
<1>2. PICK y : y = CanonicalForHash(r.event, body[r.event])
  BY Zenon
<1>3. Len(Append(r.prev, y)) = Len(r.prev) + 1 /\ Len(r.prev) \in Nat
  BY <1>1 DEF Hashes
<1>4. ASSUME Append(r.prev, y) = <<>> PROVE FALSE
  <2>1. PICK l \in Nat : l = Len(r.prev)
    BY Zenon, <1>3
  <2>2. Len(<<>>) = l + 1
    BY Zenon, <1>3, <1>4, <2>1
  <2> QED BY <2>2
<1> QED BY Zenon, <1>1, <1>2, <1>4

\* What VerifyChain reads of an untouched log is what Insert hashed, when no
\* event has bundle fields and the window covers every timestamp.
LEMMA LogVerifies ==
  ASSUME \A b \in Bodies : Stored(b) = b,
         \E lo, hi \in Times : \A u \in Times : lo <= u /\ u <= hi,
         Types, RowsFaithful, Linked
  PROVE  UntouchedLogVerifies
<1>1. \A u \in Times : MinTime <= u /\ u <= MaxTime
  BY DEF MinTime, MaxTime
<1>2. \A e \in Events : Stored(body[e]) = body[e] /\ body[e].ts \in Times
  BY Zenon DEF Types, Bodies
<1>3. \A r \in rows : r.event \in Events
  BY Zenon DEF Types, Rows
<1> SUFFICES ASSUME NEW c \in Chains PROVE VerifyChain(rows, c, MinTime, MaxTime)
  BY DEF UntouchedLogVerifies
<1>4. \A r \in rows : /\ r.stored = body[r.event]
                      /\ r.hash = ComputeHash(r.prev, CanonicalForHash(r.event, r.stored))
  BY <1>2, <1>3 DEF RowsFaithful, Faithful
<1>5. Chained(rows, c, MinTime, MaxTime) = ChainRows(c)
  BY Zenon, <1>1, <1>2, <1>3, <1>4, RowsHaveHash DEF Chained, Window, ChainRows
<1>6. \A q, r \in ChainRows(c) : Before(ChainRows(c), q, r) => r.prev = q.hash
  BY DEF Linked
<1>7. \A r \in ChainRows(c) : r.hash = ComputeHash(r.prev, CanonicalForHash(r.event, r.stored))
  BY Zenon, <1>4 DEF ChainRows
<1> QED BY Zenon, <1>5, <1>6, <1>7 DEF VerifyChain

\* A log that nobody edited verifies, for any number of writers, chains and
\* rolled back inserts, as long as no event has bundle fields (which Insert
\* hashes and does not store) and the timestamps have a least and a greatest.
THEOREM UntouchedLogAlwaysVerifies ==
  ASSUME Bundles = {""},
         \E lo, hi \in Times : \A u \in Times : lo <= u /\ u <= hi
  PROVE  Spec => []UntouchedLogVerifies
<1>1. \A b \in Bodies : Stored(b) = b
  BY Zenon DEF Bodies, Stored
<1>2. IInv /\ RowsFaithful /\ Linked => UntouchedLogVerifies
  BY Zenon, <1>1, LogVerifies DEF IInv
<1> QED BY <1>2, InvariantOfLog, PTL

-----------------------------------------------------------------------------
(* An edited log does not verify. *)

Orders == INSTANCE WellFoundedInduction

\* Numbers have a least one among them, and bounded numbers a greatest.
LEMMA LeastNumber ==
  ASSUME NEW T, T \subseteq Nat, T # {}
  PROVE  \E m \in T : \A k \in T : m <= k
<1>1. PICK R : R = Orders!OpToRel(<, Nat)
  BY Zenon
<1>2. R = {p \in Nat \X Nat : p[1] < p[2]}
  BY <1>1 DEF Orders!OpToRel
<1>3. Orders!IsWellFoundedOn(R, Nat)
  BY Zenon, <1>1, Orders!NatLessThanWellFounded
<1>4. PICK m \in T : \A k \in T : ~(<<k, m>> \in R)
  BY Zenon, <1>3, Orders!WFMin
<1>5. \A k \in T : ~(k < m)
  BY Zenon, <1>2, <1>4
<1> QED BY <1>5

LEMMA GreatestNumber ==
  ASSUME NEW T, NEW n \in Nat, T \subseteq 0..n, T # {}
  PROVE  \E m \in T : \A k \in T : k <= m
<1>1. PICK U : U = {x \in 0..n : n - x \in T}
  BY Zenon
<1>2. \A k \in T : k \in Int /\ k <= n /\ n - k \in U
  BY <1>1
<1>3. U \subseteq Nat /\ U # {}
  <2>1. U # {}
    BY Zenon, <1>2
  <2> QED BY <1>1, <2>1
<1>4. PICK l \in U : \A k \in U : l <= k
  BY Zenon, <1>3, LeastNumber
<1>5. n - l \in T /\ \A k \in T : k <= n - l
  BY <1>1, <1>2, <1>4
<1> QED BY Zenon, <1>5

\* Two links on the same predecessor that are equal cover the same event.
LEMMA HashInjective ==
  ASSUME NEW prev \in Hashes, NEW e \in Events, NEW a \in Bodies, NEW b \in Bodies,
         ComputeHash(prev, CanonicalForHash(e, a)) = ComputeHash(prev, CanonicalForHash(e, b))
  PROVE  a = b
<1>1. CanonicalForHash(e, a) = CanonicalForHash(e, b)
  <2>1. PICK x, y : x = CanonicalForHash(e, a) /\ y = CanonicalForHash(e, b)
    BY Zenon
  <2>2. Append(prev, x) = Append(prev, y)
    BY Zenon, <2>1 DEF ComputeHash
  <2>3. Append(prev, x)[Len(prev) + 1] = x /\ Append(prev, y)[Len(prev) + 1] = y
    BY DEF Hashes
  <2> QED BY Zenon, <2>1, <2>2, <2>3
<1>2. a.tenant = b.tenant /\ a.ts = b.ts /\ a.bundle = b.bundle
  BY Zenon, <1>1 DEF CanonicalForHash
<1> QED BY <1>2 DEF Bodies

\* A row whose columns were changed no longer has the hash of its columns.
LEMMA ChangedRowFails ==
  ASSUME \A b \in Bodies : Stored(b) = b,
         \E lo, hi \in Times : \A u \in Times : lo <= u /\ u <= hi,
         Types, RowsFaithful,
         NEW c \in Chains, NEW r \in ChainRows(c), NEW b \in Bodies,
         b # r.stored, ChainTenant(b.tenant) = c
  PROVE  ~VerifyChain((rows \ {r}) \cup {[r EXCEPT !.stored = b]}, c, MinTime, MaxTime)
<1>1. MinTime <= b.ts /\ b.ts <= MaxTime
  BY Zenon DEF MinTime, MaxTime, Bodies
<1>2. /\ r \in Rows /\ r.prev \in Hashes /\ r.event \in Events /\ body[r.event] \in Bodies
      /\ Faithful(r)
  BY Zenon DEF ChainRows, Types, Rows, RowsFaithful
<1>3. PICK x : x = [r EXCEPT !.stored = b]
  BY Zenon
<1>4. x.stored = b /\ x.prev = r.prev /\ x.event = r.event /\ x.hash = r.hash
  BY Zenon, <1>2, <1>3 DEF Rows
<1>5. PICK T : T = (rows \ {r}) \cup {x}
  BY Zenon
<1>a. r.hash # <<>>
  BY Zenon, RowsHaveHash DEF ChainRows
<1>6. x \in Chained(T, c, MinTime, MaxTime)
  BY Zenon, <1>1, <1>4, <1>5, <1>a DEF Chained, Window
<1>7. ASSUME VerifyChain(T, c, MinTime, MaxTime) PROVE FALSE
  <2>1. r.hash = ComputeHash(r.prev, CanonicalForHash(r.event, b))
    BY Zenon, <1>4, <1>6, <1>7 DEF VerifyChain
  <2>2. r.hash = ComputeHash(r.prev, CanonicalForHash(r.event, body[r.event]))
    BY Zenon, <1>2 DEF Faithful
  <2>3. b = body[r.event]
    BY Zenon, <1>2, <2>1, <2>2, HashInjective
  <2>4. r.stored = Stored(b) /\ Stored(b) = b
    BY Zenon, <1>2, <2>3 DEF Faithful, Stored, Bodies
  <2> QED BY Zenon, <2>4
<1> QED BY Zenon, <1>3, <1>5, <1>7

\* The row above a missing one links to the missing one, not to the one below.
LEMMA MissingRowFails ==
  ASSUME \A b \in Bodies : Stored(b) = b,
         \E lo, hi \in Times : \A u \in Times : lo <= u /\ u <= hi,
         Types, RowsFaithful, Linked,
         NEW c \in Chains, NEW r \in ChainRows(c),
         \E q, s \in ChainRows(c) : q.id < r.id /\ r.id < s.id
  PROVE  ~VerifyChain(rows \ {r}, c, MinTime, MaxTime)
<1>1. \A u \in Times : MinTime <= u /\ u <= MaxTime
  BY Zenon DEF MinTime, MaxTime
<1>2. ASSUME NEW x \in rows
      PROVE  x \in Rows /\ x.id \in Nat /\ x.stored = body[x.event] /\ x.stored.ts \in Times
  <2>1. x \in Rows /\ x.id \in Nat /\ x.event \in Events
    BY Zenon DEF Types, Rows
  <2>2. body[x.event] \in Bodies
    BY Zenon, <2>1 DEF Types
  <2>3. x.stored = body[x.event]
    BY Zenon, <2>2 DEF RowsFaithful, Faithful
  <2> QED BY Zenon, <2>1, <2>2, <2>3 DEF Bodies
<1>3. PICK W : W = ChainRows(c)
  BY Zenon
<1>4. r \in W /\ W \subseteq rows /\ \A x \in W : x.id \in Nat
  BY Zenon, <1>2, <1>3 DEF ChainRows
<1>5. Chained(rows \ {r}, c, MinTime, MaxTime) = W \ {r}
  BY Zenon, <1>1, <1>2, <1>3, RowsHaveHash DEF Chained, Window, ChainRows
<1>6. PICK p \in W : p.id < r.id /\ \A x \in W : x.id < r.id => x.id <= p.id
  <2>1. PICK B : B = {x.id : x \in {y \in W : y.id < r.id}}
    BY Zenon
  <2>2. \A x \in W : x.id < r.id => x.id \in B
    BY Zenon, <2>1
  <2>3. B \subseteq 0..r.id /\ B # {} /\ r.id \in Nat
    BY <1>3, <1>4, <2>1, <2>2
  <2>4. PICK m \in B : \A k \in B : k <= m
    BY Zenon, <2>3, GreatestNumber
  <2> QED BY Zenon, <2>1, <2>2, <2>4
<1>7. PICK t \in W : r.id < t.id /\ \A x \in W : r.id < x.id => t.id <= x.id
  <2>1. PICK B : B = {x.id : x \in {y \in W : r.id < y.id}}
    BY Zenon
  <2>2. \A x \in W : r.id < x.id => x.id \in B
    BY Zenon, <2>1
  <2>3. B \subseteq Nat /\ B # {}
    BY Zenon, <1>3, <1>4, <2>1, <2>2
  <2>4. PICK m \in B : \A k \in B : m <= k
    BY Zenon, <2>3, LeastNumber
  <2> QED BY <2>1, <2>2, <2>4
<1>8. Before(W, p, r) /\ Before(W, r, t)
  BY <1>4, <1>6, <1>7 DEF Before
<1>9. r.prev = p.hash /\ t.prev = r.hash
  BY <1>3, <1>4, <1>6, <1>7, <1>8 DEF Linked
<1>10. r.hash # r.prev
  <2>1. r.prev \in Hashes /\ r.hash = Append(r.prev, CanonicalForHash(r.event, body[r.event]))
    BY Zenon, <1>2, <1>4 DEF Rows, RowsFaithful, Faithful, ComputeHash
  <2>2. PICK y : y = CanonicalForHash(r.event, body[r.event])
    BY Zenon
  <2>3. Len(Append(r.prev, y)) = Len(r.prev) + 1 /\ Len(r.prev) \in Nat
    BY <2>1 DEF Hashes
  <2> QED BY <2>1, <2>2, <2>3
<1>11. \A x \in W \ {r} : x.id <= p.id \/ t.id <= x.id
  <2>1. \A x \in W : x.id = r.id => x = r
    BY <1>3, <1>4 DEF Linked
  <2> QED BY <1>4, <1>6, <1>7, <2>1
<1>12. p \in W \ {r} /\ t \in W \ {r} /\ Before(W \ {r}, p, t)
  BY <1>4, <1>6, <1>7, <1>11 DEF Before
<1> QED BY Zenon, <1>5, <1>9, <1>10, <1>12 DEF VerifyChain

\* A row without its hash is skipped, as if it were missing.
LEMMA BlankedRowSkipped ==
  ASSUME Types, NEW c, NEW r \in rows
  PROVE  VerifyChain((rows \ {r}) \cup {[r EXCEPT !.hash = <<>>]}, c, MinTime, MaxTime)
           <=> VerifyChain(rows \ {r}, c, MinTime, MaxTime)
<1>1. PICK x, T : x = [r EXCEPT !.hash = <<>>] /\ T = (rows \ {r}) \cup {x}
  BY Zenon
<1>2. x.hash = <<>>
  BY Zenon, <1>1 DEF Types, Rows
<1>3. Chained(T, c, MinTime, MaxTime) = Chained(rows \ {r}, c, MinTime, MaxTime)
  BY Zenon, <1>1, <1>2 DEF Chained, Window
<1> QED BY Zenon, <1>1, <1>3 DEF VerifyChain

LEMMA EditShows ==
  ASSUME \A b \in Bodies : Stored(b) = b,
         \E lo, hi \in Times : \A u \in Times : lo <= u /\ u <= hi,
         IInv, RowsFaithful, Linked
  PROVE  EditedLogFails
<1>1. ASSUME NEW c \in Chains, NEW r \in ChainRows(c) PROVE r \in rows
  BY Zenon DEF ChainRows
<1> QED BY Zenon, <1>1, ChangedRowFails, MissingRowFails, BlankedRowSkipped DEF EditedLogFails, IInv

\* docs/04-audit-verify.md: a row that was changed, or taken out or stripped of
\* its hash between two others, makes VerifyChain fail, for any log that any writers produced, as
\* long as no event has bundle fields and the timestamps have a least and a
\* greatest.
THEOREM EditsAlwaysShow ==
  ASSUME Bundles = {""},
         \E lo, hi \in Times : \A u \in Times : lo <= u /\ u <= hi
  PROVE  Spec => []EditedLogFails
<1>1. \A b \in Bodies : Stored(b) = b
  BY Zenon DEF Bodies, Stored
<1>2. IInv /\ RowsFaithful /\ Linked => EditedLogFails
  BY Zenon, <1>1, EditShows
<1> QED BY <1>2, InvariantOfLog, PTL

-----------------------------------------------------------------------------
(* The audit sinks and the shutdown. *)

SinkTypes ==
  /\ phase \in {"serving", "draining", "stopping", "exited"} /\ stopAt \in Nat \ {0}
  /\ step \in [Requests -> {"idle", "active", "check", "send", "done"}]
  /\ at \in [Requests -> Nat \ {0}]
  /\ queue \in [Sinks -> Seq(Requests)]
  /\ closed \subseteq Sinks /\ chClosed \subseteq Sinks
  /\ worker \in [Sinks -> {"loop", "exited"}]
  /\ pending \in [Sinks -> SUBSET Requests] /\ delivered \in [Sinks -> SUBSET Requests]
  /\ failed \in [Sinks -> SUBSET Requests] /\ dropped \in [Sinks -> SUBSET Requests]

\* A sink is stopped only when no handler runs, and a worker that has ended
\* has nothing left.
StopInv ==
  /\ phase = "stopping" \/ closed # {} \/ chClosed # {} =>
       \A r \in Requests : step[r] \in {"idle", "done"}
  /\ closed # {} \/ chClosed # {} => phase \in {"stopping", "exited"}
  /\ ~panicked /\ lost = [s \in Sinks |-> {}]
  /\ \A s \in Sinks : worker[s] = "exited" => s \in chClosed /\ queue[s] = <<>> /\ pending[s] = {}
  /\ ~tight => \A k \in 1..Len(StopOrder) : k < stopAt => worker[StopOrder[k]] = "exited"
  /\ clean => stopAt > Len(StopOrder)

\* The request has been through the Emit of the sink.
Emitted(r, s) == step[r] = "done" \/ \E k \in 1..Len(EmitOrder) : EmitOrder[k] = s /\ k < at[r]

Queued(r, s) == \E k \in 1..Len(queue[s]) : queue[s][k] = r

\* No place of the sink holds the event, or one holds it and no other does.
Nowhere(r, s) ==
  ~Queued(r, s) /\ r \notin pending[s] /\ r \notin delivered[s] /\ r \notin failed[s]
                /\ r \notin dropped[s]
OnePlace(r, s) ==
  \/ Queued(r, s) /\ r \notin pending[s] /\ r \notin delivered[s] /\ r \notin failed[s]
                  /\ r \notin dropped[s]
  \/ ~Queued(r, s) /\ r \in pending[s] /\ r \notin delivered[s] /\ r \notin failed[s]
                   /\ r \notin dropped[s]
  \/ ~Queued(r, s) /\ r \notin pending[s] /\ r \in delivered[s] /\ r \notin failed[s]
                   /\ r \notin dropped[s]
  \/ ~Queued(r, s) /\ r \notin pending[s] /\ r \notin delivered[s] /\ r \in failed[s]
                   /\ r \notin dropped[s]
  \/ ~Queued(r, s) /\ r \notin pending[s] /\ r \notin delivered[s] /\ r \notin failed[s]
                   /\ r \in dropped[s]

QueuedOnce(s) == \A j, k \in 1..Len(queue[s]) : queue[s][j] = queue[s][k] => j = k

\* A handler goes through the sinks in order, and leaves one event in each.
PlaceInv ==
  /\ \A r \in Requests : /\ at[r] = 1 \/ at[r] <= Len(EmitOrder)
                         /\ step[r] \in {"idle", "active"} => at[r] = 1
  /\ \A s \in Sinks : QueuedOnce(s)
  /\ \A r \in Requests, s \in Sinks : IF Emitted(r, s) THEN OnePlace(r, s) ELSE Nowhere(r, s)

SinkInv == SinkTypes /\ StopInv /\ PlaceInv

\* Every sink has its turn to be stopped.
LEMMA StopTurns ==
  /\ Len(StopOrder) \in Nat /\ \A k \in 1..Len(StopOrder) : StopOrder[k] \in Sinks
  /\ \A s \in Sinks : \E k \in 1..Len(StopOrder) : s = StopOrder[k]
<1>1. Len(StopOrder) \in Nat /\ DOMAIN StopOrder = 1..Len(StopOrder)
  BY OrdersAssumption
<1> QED BY Zenon, <1>1, OrdersAssumption

LEMMA SinksStart == SinksInit => SinkInv
<1> SUFFICES ASSUME SinksInit PROVE SinkInv
  OBVIOUS
<1>1. SinkTypes
  BY DEF SinksInit, SinkTypes
<1>2. StopInv
  BY DEF SinksInit, StopInv
<1>3. \A s \in Sinks : Len(queue[s]) = 0
  BY DEF SinksInit
<1>4. PlaceInv
  BY <1>3 DEF SinksInit, PlaceInv, QueuedOnce, Emitted, Nowhere, Queued
<1> QED BY <1>1, <1>2, <1>4 DEF SinkInv

\* What PlaceInv says of a request and a sink depends on these alone.
LEMMA PlacesSame ==
  ASSUME UNCHANGED <<queue, pending, delivered, failed, dropped>>
  PROVE  \A q, s : /\ OnePlace(q, s)' <=> OnePlace(q, s)
                   /\ Nowhere(q, s)' <=> Nowhere(q, s)
                   /\ QueuedOnce(s)' <=> QueuedOnce(s)
<1>1. \A q, s : Queued(q, s)' <=> Queued(q, s)
  BY DEF Queued
<1>2. \A s : QueuedOnce(s)' <=> QueuedOnce(s)
  BY DEF QueuedOnce
<1>3. \A q, s : Nowhere(q, s)' <=> Nowhere(q, s)
  BY Zenon, <1>1 DEF Nowhere
<1>4. \A q, s : OnePlace(q, s)' <=> OnePlace(q, s)
  BY <1>1 DEF OnePlace
<1> QED BY Zenon, <1>2, <1>3, <1>4

LEMMA PlacesKept ==
  ASSUME PlaceInv, UNCHANGED <<step, at, queue, pending, delivered, failed, dropped>>
  PROVE  PlaceInv'
<1>1. \A q, s : Emitted(q, s)' <=> Emitted(q, s)
  BY Zenon DEF Emitted
<1>2. \A q, s : /\ OnePlace(q, s)' <=> OnePlace(q, s)
                /\ Nowhere(q, s)' <=> Nowhere(q, s)
                /\ QueuedOnce(s)' <=> QueuedOnce(s)
  BY Zenon, PlacesSame
<1> QED BY Zenon, <1>1, <1>2 DEF PlaceInv

LEMMA SinkKept ==
  ASSUME NEW t, queue'[t] = queue[t], pending'[t] = pending[t], delivered'[t] = delivered[t],
         failed'[t] = failed[t], dropped'[t] = dropped[t]
  PROVE  /\ QueuedOnce(t)' <=> QueuedOnce(t)
         /\ \A q : (OnePlace(q, t)' <=> OnePlace(q, t)) /\ (Nowhere(q, t)' <=> Nowhere(q, t))
<1>1. (QueuedOnce(t)' <=> QueuedOnce(t)) /\ \A q : Queued(q, t)' <=> Queued(q, t)
  BY Zenon DEF QueuedOnce, Queued
<1> QED BY Zenon, <1>1 DEF OnePlace, Nowhere

\* A handler's steps that emit nothing.
LEMMA HandlerStep ==
  ASSUME SinkInv, NEW r \in Requests, Accept(r) \/ StartEmit(r) \/ CheckClosed(r)
  PROVE  SinkInv'
<1>1. /\ UNCHANGED <<mainVars, at, queue, closed, chClosed, workerVars, dropped, lost, panicked>>
      /\ step[r] \in {"idle", "active", "check"} /\ (step[r] = "idle" => phase = "serving")
      /\ \E p \in {"active", "check", "send"} :
           /\ step' = [step EXCEPT ![r] = p]
           /\ p = "active" => step[r] = "idle"
  <2>1. CASE Accept(r)
    BY Zenon, <2>1 DEF Accept
  <2>2. CASE StartEmit(r)
    BY Zenon, <2>2 DEF StartEmit
  <2>3. CASE CheckClosed(r)
    <3>1. closed = {}
      BY Zenon, <2>3 DEF CheckClosed, SinkInv, StopInv, SinkTypes
    <3> QED BY <2>3, <3>1 DEF CheckClosed
  <2> QED BY Zenon, <2>1, <2>2, <2>3
<1>2. PICK p \in {"active", "check", "send"} :
        step' = [step EXCEPT ![r] = p] /\ (p = "active" => step[r] = "idle")
  BY Zenon, <1>1
<1>3. SinkTypes'
  <2>1. step' \in [Requests -> {"idle", "active", "check", "send", "done"}]
    BY Zenon, <1>2 DEF SinkInv, SinkTypes
  <2> QED BY Zenon, <1>1, <2>1 DEF SinkInv, SinkTypes, mainVars, workerVars
<1>4. closed = {} /\ chClosed = {} /\ phase # "stopping"
  BY Zenon, <1>1, <1>2 DEF SinkInv, StopInv, SinkTypes
<1>5. StopInv'
  BY Zenon, <1>1, <1>4 DEF SinkInv, StopInv, mainVars, workerVars
<1>6. PlaceInv'
  <2>1. \A q \in Requests : /\ at'[q] = at[q] /\ (step'[q] = "done" <=> step[q] = "done")
                            /\ step'[q] \in {"idle", "active"} => step[q] \in {"idle", "active"}
    BY Zenon, <1>1, <1>2 DEF SinkInv, SinkTypes
  <2>2. \A q \in Requests, s \in Sinks : Emitted(q, s)' <=> Emitted(q, s)
    BY Zenon, <2>1 DEF Emitted
  <2>3. \A q, s : /\ OnePlace(q, s)' <=> OnePlace(q, s)
                  /\ Nowhere(q, s)' <=> Nowhere(q, s)
                  /\ QueuedOnce(s)' <=> QueuedOnce(s)
    BY Zenon, <1>1, PlacesSame DEF workerVars
  <2>4. \A q \in Requests : /\ at'[q] = 1 \/ at'[q] <= Len(EmitOrder)
                            /\ step'[q] \in {"idle", "active"} => at'[q] = 1
    BY Zenon, <2>1 DEF SinkInv, PlaceInv
  <2> QED BY Zenon, <2>2, <2>3, <2>4 DEF SinkInv, PlaceInv
<1> QED BY Zenon, <1>3, <1>5, <1>6 DEF SinkInv

\* The handler whose turn is this sink has not been through its Emit, and is
\* through those before it.
LEMMA Turn ==
  ASSUME SinkInv, NEW r \in Requests, step[r] = "send", NextSink(r), NEW s \in Sinks
  PROVE  /\ Emitted(r, EmitOrder[at[r]]) => FALSE
         /\ Emitted(r, s)' <=> Emitted(r, s) \/ s = EmitOrder[at[r]]
         /\ EmitOrder[at[r]] \in Sinks
         /\ \A q \in Requests \ {r} : Emitted(q, s)' <=> Emitted(q, s)
<1>1. /\ EmitOrder \in Seq(Sinks) /\ Len(EmitOrder) \in Nat
      /\ DOMAIN EmitOrder = 1..Len(EmitOrder)
      /\ \A j, k \in 1..Len(EmitOrder) : EmitOrder[j] = EmitOrder[k] => j = k
  BY OrdersAssumption
<1>2. PICK i \in 1..Len(EmitOrder) : EmitOrder[i] = s
  BY Zenon, <1>1 DEF Sinks
<1>3. at[r] \in 1..Len(EmitOrder)
  BY <1>1, <1>2 DEF SinkInv, SinkTypes, PlaceInv
<1>4. EmitOrder[at[r]] \in Sinks
  BY <1>1, <1>3
<1>5. ~Emitted(r, EmitOrder[at[r]])
  BY <1>1, <1>3 DEF Emitted
<1>6. \/ at[r] < Len(EmitOrder) /\ at'[r] = at[r] + 1 /\ step'[r] = "check"
      \/ at[r] = Len(EmitOrder) /\ step'[r] = "done"
  BY <1>1, <1>3 DEF NextSink, SinkInv, SinkTypes
<1>7. Emitted(r, s)' <=> Emitted(r, s) \/ s = EmitOrder[at[r]]
  <2>1. Emitted(r, s) <=> i < at[r]
    BY Zenon, <1>1, <1>2 DEF Emitted
  <2>2. s = EmitOrder[at[r]] <=> i = at[r]
    BY Zenon, <1>1, <1>2, <1>3
  <2>3. CASE at'[r] = at[r] + 1 /\ step'[r] = "check"
    <3>1. Emitted(r, s)' <=> i < at[r] + 1
      BY Zenon, <1>1, <1>2, <2>3 DEF Emitted
    <3> QED BY <1>3, <2>1, <2>2, <3>1
  <2>4. CASE at[r] = Len(EmitOrder) /\ step'[r] = "done"
    <3>1. Emitted(r, s)'
      BY Zenon, <2>4 DEF Emitted
    <3>2. i < at[r] \/ i = at[r]
      <4>1. i \in 1..Len(EmitOrder) /\ Len(EmitOrder) \in Nat
        BY Zenon, <1>1, <1>2
      <4> QED BY <2>4, <4>1
    <3> QED BY Zenon, <2>1, <2>2, <3>1, <3>2
  <2> QED BY Zenon, <1>6, <2>3, <2>4
<1>8. \A q \in Requests \ {r} : at'[q] = at[q] /\ step'[q] = step[q]
  BY DEF NextSink, SinkInv, SinkTypes
<1> QED BY Zenon, <1>4, <1>5, <1>7, <1>8 DEF Emitted

LEMMA SendStep ==
  ASSUME SinkInv, NEW r \in Requests, Send(r)
  PROVE  SinkInv'
<1>0. PICK s : s = EmitOrder[at[r]]
  BY Zenon
<1>1. /\ UNCHANGED <<mainVars, closed, chClosed, workerVars, lost>> /\ step[r] = "send" /\ NextSink(r)
  BY Zenon DEF Send
<1>2. closed = {} /\ chClosed = {} /\ phase # "stopping"
  BY Zenon, <1>1 DEF SinkInv, StopInv
<1>3. /\ UNCHANGED panicked
      /\ \/ Len(queue[s]) < BufferSize[s] /\ queue' = [queue EXCEPT ![s] = Append(@, r)] /\ dropped' = dropped
         \/ dropped' = [dropped EXCEPT ![s] = @ \cup {r}] /\ queue' = queue
  BY Zenon, <1>0, <1>2 DEF Send
<1>4. SinkTypes'
  <2>0. /\ step \in [Requests -> {"idle", "active", "check", "send", "done"}]
        /\ at \in [Requests -> Nat \ {0}] /\ queue \in [Sinks -> Seq(Requests)]
    BY Zenon DEF SinkInv, SinkTypes
  <2>1. /\ step' \in [Requests -> {"idle", "active", "check", "send", "done"}]
        /\ at' \in [Requests -> Nat \ {0}]
    <3>1. at[r] + 1 \in Nat \ {0} /\ 1 \in Nat \ {0}
      BY <2>0
    <3>2. \E n \in Nat \ {0} : at' = [at EXCEPT ![r] = n]
      BY Zenon, <1>1, <3>1 DEF NextSink
    <3>3. \E p \in {"check", "done"} : step' = [step EXCEPT ![r] = p]
      BY Zenon, <1>1 DEF NextSink
    <3> QED BY <2>0, <3>2, <3>3
  <2>2. queue' \in [Sinks -> Seq(Requests)]
    <3>1. CASE queue' = [queue EXCEPT ![s] = Append(@, r)]
      <4>1. s \in Sinks => Append(queue[s], r) \in Seq(Requests)
        BY <2>0
      <4> QED BY Zenon, <2>0, <3>1, <4>1
    <3> QED BY Zenon, <1>3, <2>0, <3>1
  <2>3. dropped' \in [Sinks -> SUBSET Requests]
    BY <1>3 DEF SinkInv, SinkTypes
  <2> QED BY Zenon, <1>1, <2>1, <2>2, <2>3 DEF SinkInv, SinkTypes, mainVars, workerVars
<1>5. StopInv'
  <2>1. \A t \in Sinks : worker[t] # "exited"
    BY Zenon, <1>2 DEF SinkInv, StopInv
  <2> QED BY Zenon, <1>1, <1>2, <1>3, <2>1 DEF SinkInv, StopInv, mainVars, workerVars
<1>6. ASSUME NEW t \in Sinks
      PROVE  /\ QueuedOnce(t)'
             /\ \A q \in Requests : IF Emitted(q, t)' THEN OnePlace(q, t)' ELSE Nowhere(q, t)'
  <2>1. QueuedOnce(t) /\ \A q \in Requests : IF Emitted(q, t) THEN OnePlace(q, t) ELSE Nowhere(q, t)
    BY Zenon, <1>6 DEF SinkInv, PlaceInv
  <2>2. /\ \A q \in Requests \ {r} : Emitted(q, t)' <=> Emitted(q, t)
        /\ Emitted(r, t)' <=> Emitted(r, t) \/ t = s
        /\ t = s => ~Emitted(r, t)
    BY Zenon, <1>0, <1>1, <1>6, Turn
  <2>3. /\ pending'[t] = pending[t] /\ delivered'[t] = delivered[t] /\ failed'[t] = failed[t]
    BY Zenon, <1>1 DEF workerVars
  <2>4. CASE t # s
    <3>1. queue'[t] = queue[t] /\ dropped'[t] = dropped[t]
      BY Zenon, <1>3, <2>4 DEF SinkInv, SinkTypes
    <3>2. QueuedOnce(t)' /\ \A q : (OnePlace(q, t)' <=> OnePlace(q, t)) /\ (Nowhere(q, t)' <=> Nowhere(q, t))
      BY Zenon, <2>1, <2>3, <3>1, SinkKept
    <3> QED BY <2>1, <2>2, <2>4, <3>2
  <2>5. CASE t = s /\ queue' = [queue EXCEPT ![s] = Append(@, r)] /\ dropped' = dropped
    <3>1. /\ Len(queue[t]) \in Nat /\ Len(queue'[t]) = Len(queue[t]) + 1
          /\ queue'[t][Len(queue[t]) + 1] = r
          /\ \A k \in 1..Len(queue[t]) : queue'[t][k] = queue[t][k]
      BY <2>5 DEF SinkInv, SinkTypes
    <3>2. ~Queued(r, t)
      BY Zenon, <2>1, <2>2, <2>5 DEF Nowhere
    <3>3. QueuedOnce(t)'
      <4> SUFFICES ASSUME NEW i \in 1..Len(queue'[t]), NEW j \in 1..Len(queue'[t]),
                          queue'[t][i] = queue'[t][j]
                   PROVE  i = j
        BY Zenon DEF QueuedOnce
      <4>1. \A k \in 1..Len(queue'[t]) : k \in 1..Len(queue[t]) \/ k = Len(queue[t]) + 1
        BY <3>1
      <4>2. \A k \in 1..Len(queue[t]) : queue'[t][k] # r
        BY Zenon, <3>1, <3>2 DEF Queued
      <4> QED BY Zenon, <2>1, <3>1, <4>1, <4>2 DEF QueuedOnce
    <3>4. \A q \in Requests : Queued(q, t)' <=> Queued(q, t) \/ q = r
      <4>1. \A k \in 1..Len(queue'[t]) : k \in 1..Len(queue[t]) \/ k = Len(queue[t]) + 1
        BY <3>1
      <4>2. 1..Len(queue[t]) \subseteq 1..Len(queue'[t]) /\ Len(queue[t]) + 1 \in 1..Len(queue'[t])
        BY <3>1
      <4> QED BY Zenon, <3>1, <4>1, <4>2 DEF Queued
    <3> QED BY Zenon, <2>1, <2>2, <2>3, <2>5, <3>3, <3>4 DEF OnePlace, Nowhere
  <2>6. CASE t = s /\ dropped' = [dropped EXCEPT ![s] = @ \cup {r}] /\ queue' = queue
    <3>1. dropped'[t] = dropped[t] \cup {r} /\ queue'[t] = queue[t]
      BY Zenon, <2>6 DEF SinkInv, SinkTypes
    <3>2. QueuedOnce(t)' /\ \A q \in Requests : Queued(q, t)' <=> Queued(q, t)
      BY Zenon, <2>1, <3>1 DEF QueuedOnce, Queued
    <3> QED BY Zenon, <2>1, <2>2, <2>3, <2>6, <3>1, <3>2 DEF OnePlace, Nowhere
  <2> QED BY Zenon, <1>3, <2>4, <2>5, <2>6
<1>7. \A q \in Requests : /\ at'[q] = 1 \/ at'[q] <= Len(EmitOrder)
                          /\ step'[q] \in {"idle", "active"} => at'[q] = 1
  <2>1. Len(EmitOrder) \in Nat
    BY OrdersAssumption
  <2>2. \A q \in Requests : /\ at[q] = 1 \/ at[q] <= Len(EmitOrder)
                            /\ step[q] \in {"idle", "active"} => at[q] = 1
    BY Zenon DEF SinkInv, PlaceInv
  <2>3. \A q \in Requests : q # r => at'[q] = at[q] /\ step'[q] = step[q]
    BY <1>1 DEF NextSink, SinkInv, SinkTypes
  <2>4. \/ at'[r] = 1 /\ step'[r] = "done"
        \/ at[r] < Len(EmitOrder) /\ at'[r] = at[r] + 1 /\ step'[r] = "check"
    BY <1>1 DEF NextSink, SinkInv, SinkTypes
  <2>5. at[r] \in Nat
    BY Zenon DEF SinkInv, SinkTypes
  <2> QED BY <2>1, <2>2, <2>3, <2>4, <2>5
<1> QED BY Zenon, <1>4, <1>5, <1>6, <1>7 DEF SinkInv, PlaceInv

LEMMA ReceiveStep ==
  ASSUME SinkInv, NEW s \in Sinks, Receive(s)
  PROVE  SinkInv'
<1>1. PICK h, batch : h = Head(queue[s]) /\ batch = pending[s] \cup {h}
  BY Zenon
<1>2. /\ UNCHANGED <<mainVars, step, at, closed, chClosed, worker, dropped, lost, panicked>>
      /\ worker[s] = "loop" /\ queue[s] # <<>> /\ queue' = [queue EXCEPT ![s] = Tail(@)]
      /\ \/ Flush(s, batch)
         \/ pending' = [pending EXCEPT ![s] = batch] /\ UNCHANGED <<delivered, failed>>
  BY Zenon, <1>1 DEF Receive
<1>3. queue[s] \in Seq(Requests) /\ Tail(queue[s]) \in Seq(Requests)
  BY <1>2 DEF SinkInv, SinkTypes
<1>4. /\ Len(queue[s]) \in Nat /\ Len(queue[s]) >= 1 /\ h = queue[s][1] /\ h \in Requests
      /\ Len(Tail(queue[s])) = Len(queue[s]) - 1
      /\ \A j \in 1..Len(Tail(queue[s])) : Tail(queue[s])[j] = queue[s][j + 1]
  BY <1>1, <1>2, <1>3
<1>5. queue'[s] = Tail(queue[s]) /\ \A t \in Sinks \ {s} : queue'[t] = queue[t]
  BY Zenon, <1>2 DEF SinkInv, SinkTypes
<1>6. /\ \A t \in Sinks \ {s} : /\ pending'[t] = pending[t] /\ delivered'[t] = delivered[t]
                                /\ failed'[t] = failed[t]
      /\ \/ pending'[s] = {} /\ delivered'[s] = delivered[s] \cup batch /\ failed'[s] = failed[s]
         \/ pending'[s] = {} /\ failed'[s] = failed[s] \cup batch /\ delivered'[s] = delivered[s]
         \/ pending'[s] = batch /\ delivered'[s] = delivered[s] /\ failed'[s] = failed[s]
      /\ pending' \in [Sinks -> SUBSET Requests] /\ delivered' \in [Sinks -> SUBSET Requests]
      /\ failed' \in [Sinks -> SUBSET Requests]
  <2>1. batch \in SUBSET Requests
    BY Zenon, <1>1, <1>4 DEF SinkInv, SinkTypes
  <2>2. /\ pending \in [Sinks -> SUBSET Requests] /\ delivered \in [Sinks -> SUBSET Requests]
        /\ failed \in [Sinks -> SUBSET Requests]
    BY Zenon DEF SinkInv, SinkTypes
  <2>3. CASE Flush(s, batch)
    BY Zenon, <2>1, <2>2, <2>3 DEF Flush
  <2>4. CASE pending' = [pending EXCEPT ![s] = batch] /\ UNCHANGED <<delivered, failed>>
    BY Zenon, <2>1, <2>2, <2>4
  <2> QED BY Zenon, <1>2, <2>3, <2>4
<1>7. SinkTypes'
  <2>1. queue' \in [Sinks -> Seq(Requests)]
    BY Zenon, <1>2, <1>3 DEF SinkInv, SinkTypes
  <2> QED BY Zenon, <1>2, <1>6, <2>1 DEF SinkInv, SinkTypes, mainVars
<1>8. StopInv'
  <2>1. \A t \in Sinks : worker'[t] = "exited" => worker[t] = "exited" /\ t # s
    BY Zenon, <1>2
  <2>2. \A t \in Sinks : worker'[t] = "exited" =>
          t \in chClosed' /\ queue'[t] = <<>> /\ pending'[t] = {}
    <3>1. \A t \in Sinks : worker[t] = "exited" => t \in chClosed /\ queue[t] = <<>> /\ pending[t] = {}
      BY Zenon DEF SinkInv, StopInv
    <3> QED BY Zenon, <1>2, <1>5, <1>6, <2>1, <3>1
  <2> QED BY Zenon, <1>2, <2>2 DEF SinkInv, StopInv, mainVars
<1>9. \A t : (\A q : Emitted(q, t)' <=> Emitted(q, t)) /\ dropped'[t] = dropped[t]
  BY Zenon, <1>2 DEF Emitted
<1>10. ASSUME NEW t \in Sinks \ {s}
       PROVE  /\ QueuedOnce(t)'
              /\ \A q \in Requests : IF Emitted(q, t)' THEN OnePlace(q, t)' ELSE Nowhere(q, t)'
  <2>1. QueuedOnce(t) /\ \A q \in Requests : IF Emitted(q, t) THEN OnePlace(q, t) ELSE Nowhere(q, t)
    BY Zenon, <1>10 DEF SinkInv, PlaceInv
  <2>2. /\ queue'[t] = queue[t] /\ pending'[t] = pending[t] /\ delivered'[t] = delivered[t]
        /\ failed'[t] = failed[t]
    BY Zenon, <1>5, <1>6, <1>10
  <2>3. QueuedOnce(t)' /\ \A q : (OnePlace(q, t)' <=> OnePlace(q, t)) /\ (Nowhere(q, t)' <=> Nowhere(q, t))
    BY Zenon, <1>9, <2>1, <2>2, SinkKept
  <2> QED BY Zenon, <1>9, <2>1, <2>3
<1>11. /\ QueuedOnce(s)'
       /\ \A q \in Requests : IF Emitted(q, s)' THEN OnePlace(q, s)' ELSE Nowhere(q, s)'
  <2>1. QueuedOnce(s) /\ \A q \in Requests : IF Emitted(q, s) THEN OnePlace(q, s) ELSE Nowhere(q, s)
    BY Zenon DEF SinkInv, PlaceInv
  <2>2. QueuedOnce(s)'
    <3> SUFFICES ASSUME NEW i \in 1..Len(Tail(queue[s])), NEW j \in 1..Len(Tail(queue[s])),
                        Tail(queue[s])[i] = Tail(queue[s])[j]
                 PROVE  i = j
      BY Zenon, <1>5 DEF QueuedOnce
    <3>1. i + 1 \in 1..Len(queue[s]) /\ j + 1 \in 1..Len(queue[s])
      BY <1>4
    <3>2. queue[s][i + 1] = queue[s][j + 1]
      BY Zenon, <1>4
    <3>3. i + 1 = j + 1
      BY Zenon, <2>1, <3>1, <3>2 DEF QueuedOnce
    <3> QED BY <3>3
  <2>3. Queued(h, s) /\ ~Queued(h, s)'
    <3>1. Queued(h, s)
      BY <1>4 DEF Queued
    <3>2. ASSUME NEW k \in 1..Len(Tail(queue[s])), Tail(queue[s])[k] = h PROVE FALSE
      <4>1. 1 \in 1..Len(queue[s]) /\ k + 1 \in 1..Len(queue[s]) /\ k + 1 # 1
        BY <1>4
      <4>2. queue[s][k + 1] = queue[s][1]
        BY Zenon, <1>4, <3>2
      <4> QED BY Zenon, <2>1, <4>1, <4>2 DEF QueuedOnce
    <3> QED BY Zenon, <1>5, <3>1, <3>2 DEF Queued
  <2>4. ASSUME NEW q \in Requests, q # h PROVE Queued(q, s)' <=> Queued(q, s)
    <3>1. ASSUME NEW k \in 1..Len(queue[s]), queue[s][k] = q PROVE Queued(q, s)'
      <4>1. k # 1 /\ k - 1 \in 1..Len(Tail(queue[s])) /\ Tail(queue[s])[k - 1] = q
        BY <1>4, <2>4, <3>1
      <4> QED BY Zenon, <1>5, <4>1 DEF Queued
    <3>2. ASSUME NEW k \in 1..Len(Tail(queue[s])), Tail(queue[s])[k] = q PROVE Queued(q, s)
      <4>1. k + 1 \in 1..Len(queue[s]) /\ queue[s][k + 1] = q
        BY <1>4, <3>2
      <4> QED BY Zenon, <4>1 DEF Queued
    <3> QED BY Zenon, <1>5, <3>1, <3>2 DEF Queued
  <2>5. Emitted(h, s) /\ h \notin pending[s] /\ h \notin delivered[s] /\ h \notin failed[s]
                      /\ h \notin dropped[s]
    BY Zenon, <1>4, <2>1, <2>3 DEF OnePlace, Nowhere
  <2>6. OnePlace(h, s)'
    BY Zenon, <1>1, <1>6, <1>9, <2>3, <2>5 DEF OnePlace
  <2>7. ASSUME NEW q \in Requests, q # h
        PROVE  IF Emitted(q, s)' THEN OnePlace(q, s)' ELSE Nowhere(q, s)'
    BY Zenon, <1>1, <1>6, <1>9, <2>1, <2>4, <2>7 DEF OnePlace, Nowhere
  <2> QED BY Zenon, <1>9, <2>2, <2>5, <2>6, <2>7
<1>12. PlaceInv'
  BY Zenon, <1>2, <1>10, <1>11 DEF SinkInv, PlaceInv
<1> QED BY Zenon, <1>7, <1>8, <1>12 DEF SinkInv

\* A hand-over of all that is pending, on a tick or at the end.
LEMMA HandOverStep ==
  ASSUME SinkInv, NEW s \in Sinks, FlushTick(s) \/ WorkerEnds(s)
  PROVE  SinkInv'
<1>1. /\ UNCHANGED <<mainVars, step, at, queue, closed, chClosed, dropped, lost, panicked>>
      /\ Flush(s, pending[s]) \/ (pending[s] = {} /\ UNCHANGED <<pending, delivered, failed>>)
      /\ worker[s] = "loop"
      /\ worker' = worker \/ (worker' = [worker EXCEPT ![s] = "exited"] /\ s \in chClosed /\ queue[s] = <<>>)
  BY Zenon DEF FlushTick, WorkerEnds
<1>2. /\ \A t \in Sinks \ {s} : /\ pending'[t] = pending[t] /\ delivered'[t] = delivered[t]
                                /\ failed'[t] = failed[t] /\ worker'[t] = worker[t]
      /\ pending'[s] = {}
      /\ \/ delivered'[s] = delivered[s] \cup pending[s] /\ failed'[s] = failed[s]
         \/ failed'[s] = failed[s] \cup pending[s] /\ delivered'[s] = delivered[s]
      /\ pending' \in [Sinks -> SUBSET Requests] /\ delivered' \in [Sinks -> SUBSET Requests]
      /\ failed' \in [Sinks -> SUBSET Requests] /\ worker' \in [Sinks -> {"loop", "exited"}]
  <2>1. /\ pending \in [Sinks -> SUBSET Requests] /\ delivered \in [Sinks -> SUBSET Requests]
        /\ failed \in [Sinks -> SUBSET Requests] /\ worker \in [Sinks -> {"loop", "exited"}]
    BY Zenon DEF SinkInv, SinkTypes
  <2>2. /\ worker' \in [Sinks -> {"loop", "exited"}]
        /\ \A t \in Sinks \ {s} : worker'[t] = worker[t]
    BY Zenon, <1>1, <2>1
  <2>3. CASE Flush(s, pending[s])
    BY <2>1, <2>2, <2>3 DEF Flush
  <2>4. CASE pending[s] = {} /\ UNCHANGED <<pending, delivered, failed>>
    BY Zenon, <2>1, <2>2, <2>4
  <2> QED BY Zenon, <1>1, <2>3, <2>4
<1>3. SinkTypes'
  BY Zenon, <1>1, <1>2 DEF SinkInv, SinkTypes, mainVars
<1>4. StopInv'
  <2>1. \A t \in Sinks : worker[t] = "exited" => worker'[t] = "exited" /\ t # s
    BY Zenon, <1>1, <1>2
  <2>2. \A t \in Sinks : worker'[t] = "exited" => t \in chClosed' /\ queue'[t] = <<>> /\ pending'[t] = {}
    <3>1. \A t \in Sinks : worker[t] = "exited" => t \in chClosed /\ queue[t] = <<>> /\ pending[t] = {}
      BY Zenon DEF SinkInv, StopInv
    <3> QED BY Zenon, <1>1, <1>2, <3>1
  <2>3. \A k \in 1..Len(StopOrder) : StopOrder[k] \in Sinks
    BY Zenon, StopTurns
  <2> QED BY Zenon, <1>1, <2>1, <2>2, <2>3 DEF SinkInv, StopInv, mainVars
<1>5. ASSUME NEW t \in Sinks, NEW q \in Requests
      PROVE  IF Emitted(q, t)' THEN OnePlace(q, t)' ELSE Nowhere(q, t)'
  <2>1. IF Emitted(q, t) THEN OnePlace(q, t) ELSE Nowhere(q, t)
    BY Zenon DEF SinkInv, PlaceInv
  <2>2. (Emitted(q, t)' <=> Emitted(q, t)) /\ (Queued(q, t)' <=> Queued(q, t)) /\ dropped'[t] = dropped[t]
    BY Zenon, <1>1 DEF Emitted, Queued
  <2> QED BY Zenon, <1>2, <2>1, <2>2 DEF OnePlace, Nowhere
<1>6. PlaceInv'
  BY Zenon, <1>1, <1>5 DEF SinkInv, PlaceInv, QueuedOnce
<1> QED BY <1>3, <1>4, <1>6 DEF SinkInv

LEMMA StopSinkStep ==
  ASSUME SinkInv, StopSink
  PROVE  SinkInv'
<1>1. /\ UNCHANGED <<phase, stopAt, tight, clean, step, at, queue, workerVars, dropped, lost, panicked>>
      /\ phase = "stopping" /\ closed \subseteq closed' /\ chClosed \subseteq chClosed'
      /\ closed' \subseteq Sinks /\ chClosed' \subseteq Sinks
  <2>1. stopAt <= Len(StopOrder) => StopOrder[stopAt] \in Sinks
    BY StopTurns DEF SinkInv, SinkTypes
  <2> QED BY Zenon, <2>1 DEF StopSink, SinkInv, SinkTypes
<1>2. SinkTypes'
  BY Zenon, <1>1 DEF SinkInv, SinkTypes, workerVars
<1>3. StopInv'
  BY Zenon, <1>1 DEF SinkInv, StopInv, workerVars
<1> QED BY Zenon, <1>1, <1>2, <1>3, PlacesKept DEF SinkInv, workerVars

LEMMA MainOnly ==
  ASSUME SinkInv, SigTerm \/ ShutdownDone \/ ShutdownTimesOut \/ StopReturns \/ MainReturns
                  \/ TightDeadline
  PROVE  SinkInv'
<1>1. UNCHANGED deliveryVars
  BY Zenon DEF SigTerm, ShutdownDone, ShutdownTimesOut, StopReturns, MainReturns, TightDeadline
<1>2. SinkTypes'
  <2>1. phase' \in {"serving", "draining", "stopping", "exited"} /\ stopAt' \in Nat \ {0}
    BY DEF SinkInv, SinkTypes, SigTerm, ShutdownDone, ShutdownTimesOut, StopReturns, MainReturns,
           TightDeadline
  <2> QED BY Zenon, <1>1, <2>1 DEF SinkInv, SinkTypes, deliveryVars, workerVars
<1>3. StopInv'
  <2>1. /\ phase' = "stopping" => \A r \in Requests : step[r] \in {"idle", "done"}
        /\ phase \in {"stopping", "exited"} => phase' \in {"stopping", "exited"}
    BY Zenon
       DEF SinkInv, StopInv, SigTerm, ShutdownDone, ShutdownTimesOut, StopReturns, MainReturns,
           TightDeadline
  <2>2. clean' => stopAt' > Len(StopOrder)
    <3>1. Len(StopOrder) \in Nat /\ stopAt \in Nat
      BY Zenon, StopTurns DEF SinkInv, SinkTypes
    <3>2. \/ (clean' => clean) /\ stopAt' \in {stopAt, stopAt + 1}
          \/ stopAt > Len(StopOrder) /\ stopAt' = stopAt
      BY Zenon DEF SigTerm, ShutdownDone, ShutdownTimesOut, StopReturns, MainReturns, TightDeadline
    <3>3. clean => stopAt > Len(StopOrder)
      BY Zenon DEF SinkInv, StopInv
    <3> QED BY <3>1, <3>2, <3>3
  <2>3. ASSUME ~tight', NEW k \in 1..Len(StopOrder), k < stopAt'
        PROVE  worker[StopOrder[k]] = "exited"
    <3>1. ~tight /\ (k < stopAt \/ (k = stopAt /\ worker[StopOrder[stopAt]] = "exited"))
      BY <2>3 DEF SinkInv, SinkTypes, SigTerm, ShutdownDone, ShutdownTimesOut, StopReturns,
                  MainReturns, TightDeadline
    <3> QED BY Zenon, <3>1 DEF SinkInv, StopInv
  <2> QED BY Zenon, <1>1, <2>1, <2>2, <2>3 DEF SinkInv, StopInv, deliveryVars, workerVars
<1> QED BY Zenon, <1>1, <1>2, <1>3, PlacesKept DEF SinkInv, deliveryVars, workerVars

LEMMA SinksStep == SinkInv /\ [SinksNext]_sinkVars => SinkInv'
<1> SUFFICES ASSUME SinkInv, [SinksNext]_sinkVars PROVE SinkInv'
  OBVIOUS
<1>1. CASE UNCHANGED sinkVars
  <2>1. SinkTypes'
    BY Zenon, <1>1 DEF SinkInv, SinkTypes, sinkVars, mainVars, workerVars
  <2>2. StopInv'
    BY Zenon, <1>1 DEF SinkInv, StopInv, sinkVars, mainVars, workerVars
  <2> QED BY Zenon, <1>1, <2>1, <2>2, PlacesKept DEF SinkInv, sinkVars, workerVars
<1> QED BY Zenon, <1>1, HandlerStep, SendStep, ReceiveStep, HandOverStep, StopSinkStep, MainOnly
        DEF SinksNext, RequestStep, WorkerStep, MainStep

\* What main's order of shutdown is for: with any sinks, buffers, batches and
\* handlers, no Emit meets a closed channel or a stopped sink, and a main that
\* returns within its budget leaves every sink drained.
THEOREM StopIsSafe == SinksSpec => []StopLosesNothing
<1>1. SinkInv => StopLosesNothing
  <2> SUFFICES ASSUME SinkInv PROVE StopLosesNothing
    OBVIOUS
  <2>1. ASSUME clean, ~tight, NEW s \in Sinks PROVE queue[s] = <<>> /\ pending[s] = {}
    <3>1. PICK k \in 1..Len(StopOrder) : s = StopOrder[k]
      BY Zenon, StopTurns
    <3>2. k < stopAt
      <4>1. stopAt > Len(StopOrder) /\ stopAt \in Nat /\ Len(StopOrder) \in Nat
        BY Zenon, <2>1, StopTurns DEF SinkInv, StopInv, SinkTypes
      <4> QED BY <4>1
    <3> QED BY Zenon, <2>1, <3>1, <3>2 DEF SinkInv, StopInv
  <2> QED BY Zenon, <2>1 DEF StopLosesNothing, SinkInv, StopInv
<1> QED BY <1>1, SinksStart, SinksStep, PTL DEF SinksSpec

INSTANCE FiniteSetTheorems

\* One place of five, as a count.
LEMMA OneOfFive ==
  ASSUME NEW r, NEW A, NEW B, NEW C, NEW D, NEW E,
         \/ r \in A /\ r \notin B /\ r \notin C /\ r \notin D /\ r \notin E
         \/ r \notin A /\ r \in B /\ r \notin C /\ r \notin D /\ r \notin E
         \/ r \notin A /\ r \notin B /\ r \in C /\ r \notin D /\ r \notin E
         \/ r \notin A /\ r \notin B /\ r \notin C /\ r \in D /\ r \notin E
         \/ r \notin A /\ r \notin B /\ r \notin C /\ r \notin D /\ r \in E
  PROVE  Cardinality({p \in {<<"queue", A>>, <<"pending", B>>, <<"delivered", C>>, <<"failed", D>>,
                             <<"dropped", E>>} : r \in p[2]}) = 1
<1> DEFINE All == {<<"queue", A>>, <<"pending", B>>, <<"delivered", C>>, <<"failed", D>>,
                   <<"dropped", E>>}
           Here == {p \in All : r \in p[2]}
<1>1. PICK p : Here = {p}
  <2>1. CASE r \in A /\ r \notin B /\ r \notin C /\ r \notin D /\ r \notin E
    <3>1. Here = {<<"queue", A>>}
      BY <2>1
    <3> QED BY Zenon, <3>1
  <2>2. CASE r \notin A /\ r \in B /\ r \notin C /\ r \notin D /\ r \notin E
    <3>1. Here = {<<"pending", B>>}
      BY <2>2
    <3> QED BY Zenon, <3>1
  <2>3. CASE r \notin A /\ r \notin B /\ r \in C /\ r \notin D /\ r \notin E
    <3>1. Here = {<<"delivered", C>>}
      BY <2>3
    <3> QED BY Zenon, <3>1
  <2>4. CASE r \notin A /\ r \notin B /\ r \notin C /\ r \in D /\ r \notin E
    <3>1. Here = {<<"failed", D>>}
      BY <2>4
    <3> QED BY Zenon, <3>1
  <2>5. CASE r \notin A /\ r \notin B /\ r \notin C /\ r \notin D /\ r \in E
    <3>1. Here = {<<"dropped", E>>}
      BY <2>5
    <3> QED BY Zenon, <3>1
  <2> QED BY Zenon, <2>1, <2>2, <2>3, <2>4, <2>5
<1> HIDE DEF Here
<1>2. Cardinality(Here) = 1
  BY Zenon, <1>1, FS_Singleton
<1> QED BY Zenon, <1>2 DEF Here

\* Every event of a finished request is in exactly one place of each sink, with
\* any sinks, buffer and batch sizes, and whatever is handed over, fails or is
\* dropped (Emit, the worker loop and its flush).
THEOREM NoEventVanishes == SinksSpec => []EventsAccountedFor
<1>1. SinkInv => EventsAccountedFor
  <2> SUFFICES ASSUME SinkInv, NEW r \in Requests, NEW s \in Sinks, step[r] = "done"
               PROVE  Cardinality({p \in {<<"queue", InQueue(s)>>, <<"pending", pending[s]>>,
                                          <<"delivered", delivered[s]>>, <<"failed", failed[s]>>,
                                          <<"dropped", dropped[s]>>} : r \in p[2]}) = 1
    BY Zenon DEF EventsAccountedFor
  <2>1. OnePlace(r, s)
    BY Zenon DEF SinkInv, PlaceInv, Emitted
  <2>2. r \in InQueue(s) <=> Queued(r, s)
    <3>1. DOMAIN queue[s] = 1..Len(queue[s])
      BY DEF SinkInv, SinkTypes
    <3> QED BY Zenon, <3>1 DEF InQueue, Queued
  <2>3. PICK A, B, C, D, E : /\ A = InQueue(s) /\ B = pending[s] /\ C = delivered[s]
                             /\ D = failed[s] /\ E = dropped[s]
    BY Zenon
  <2>4. \/ r \in A /\ r \notin B /\ r \notin C /\ r \notin D /\ r \notin E
        \/ r \notin A /\ r \in B /\ r \notin C /\ r \notin D /\ r \notin E
        \/ r \notin A /\ r \notin B /\ r \in C /\ r \notin D /\ r \notin E
        \/ r \notin A /\ r \notin B /\ r \notin C /\ r \in D /\ r \notin E
        \/ r \notin A /\ r \notin B /\ r \notin C /\ r \notin D /\ r \in E
    BY Zenon, <2>1, <2>2, <2>3 DEF OnePlace
  <2>5. Cardinality({p \in {<<"queue", A>>, <<"pending", B>>, <<"delivered", C>>, <<"failed", D>>,
                            <<"dropped", E>>} : r \in p[2]}) = 1
    BY <2>4, OneOfFive
  <2> QED BY Zenon, <2>3, <2>5
<1> QED BY <1>1, SinksStart, SinksStep, PTL DEF SinksSpec
=============================================================================
