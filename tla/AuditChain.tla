------------------------------ MODULE AuditChain ------------------------------
(***************************************************************************)
(* The tamper-evident audit chain (internal/auditstore/postgres.go Insert  *)
(* and VerifyChain, internal/audit/canonical.go).  The emitter workers of  *)
(* several replicas insert at once; each insert is a transaction that      *)
(* locks the head row of the event's tenant, appends a row that hashes the *)
(* head, and moves the head.                                               *)
(*                                                                         *)
(* SHA-256 is taken to be free of collisions: a hash is the sequence of    *)
(* the canonical bodies it covers.                                         *)
(***************************************************************************)
EXTENDS Integers, Sequences

CONSTANTS Workers,       \* one emitter worker per replica
          Events,        \* audit events, each emitted once
          EventTenants,  \* values of Event.Tenant; "" is none
          Times,         \* event timestamps
          Bundles        \* values of BundleID and BundleDigest; "" is none

ASSUME WorkersAssumption == "none" \notin Workers
ASSUME EventTenantsAssumption == EventTenants \subseteq STRING
ASSUME TimesAssumption == Times \subseteq Nat
ASSUME BundlesAssumption == Bundles \subseteq STRING

VARIABLES
  body,    \* the fields of each event: tenant, ts (when it was made), bundle
  heads,   \* audit_chain_heads.head_hash of each chain
  lock,    \* who holds the head row's lock ("none": nobody)
  rows,    \* audit_events, committed
  nextId,  \* the BIGSERIAL; an id used by a rolled back insert is not reused
  tx,      \* each worker's transaction
  emitted  \* events a worker has taken

vars == <<body, heads, lock, rows, nextId, tx, emitted>>

Bodies == [tenant : EventTenants, ts : Times, bundle : Bundles]

\* The chain key: an event without a tenant belongs to chain "default".
ChainTenant(t) == IF t = "" THEN "default" ELSE t
Chains == {ChainTenant(t) : t \in EventTenants}

\* CanonicalForHash: every field of the event that the chain covers.
CanonicalForHash(e, b) == <<e, b.tenant, b.ts, b.bundle>>

ComputeHash(prev, canon) == Append(prev, canon)

\* What the columns of audit_events keep of an event: no bundle fields.
Stored(b) == [b EXCEPT !.bundle = ""]

Idle == [at |-> "idle"]

\* (The sets of hashes and of rows are infinite: TypeOK bounds what TLC needs.)
TypeOK ==
  /\ body \in [Events -> Bodies]
  /\ DOMAIN heads = Chains
  /\ lock \in [Chains -> Workers \cup {"none"}]
  /\ nextId \in Nat
  /\ emitted \subseteq Events
  /\ \A w \in Workers : tx[w].at \in {"idle", "locked", "inserted"}
  /\ \A r \in rows : r.id \in 1..nextId /\ r.event \in Events

Init ==
  /\ body \in [Events -> Bodies]
  /\ heads = [c \in Chains |-> <<>>]
  /\ lock = [c \in Chains |-> "none"]
  /\ rows = {}
  /\ nextId = 0
  /\ tx = [w \in Workers |-> Idle]
  /\ emitted = {}

-----------------------------------------------------------------------------
(* Insert.                                                                 *)

\* Mutant: the head is read without FOR UPDATE.
ReadHeadUnlocked(w, e) ==
  LET c == ChainTenant(body[e].tenant) IN
  /\ tx[w] = Idle
  /\ e \notin emitted
  /\ emitted' = emitted \cup {e}
  /\ tx' = [tx EXCEPT ![w] = [at |-> "locked", event |-> e, prev |-> heads[c]]]
  /\ UNCHANGED <<body, heads, lock, rows, nextId>>

\* BEGIN, make sure the head row exists, and SELECT head_hash FOR UPDATE.
LockHead(w, e) ==
  LET c == ChainTenant(body[e].tenant) IN
  /\ tx[w] = Idle
  /\ e \notin emitted
  /\ lock[c] = "none"
  /\ emitted' = emitted \cup {e}
  /\ lock' = [lock EXCEPT ![c] = w]
  /\ tx' = [tx EXCEPT ![w] = [at |-> "locked", event |-> e, prev |-> heads[c]]]
  /\ UNCHANGED <<body, heads, rows, nextId>>

\* INSERT ... RETURNING id, with prev_hash and the new hash.
InsertRow(w) ==
  LET e == tx[w].event IN
  /\ tx[w].at = "locked"
  /\ nextId' = nextId + 1
  /\ tx' = [tx EXCEPT ![w] =
              [at |-> "inserted",
               row |-> [id |-> nextId + 1, event |-> e, stored |-> Stored(body[e]),
                        prev |-> tx[w].prev,
                        hash |-> ComputeHash(tx[w].prev, CanonicalForHash(e, body[e]))]]]
  /\ UNCHANGED <<body, heads, lock, rows, emitted>>

\* UPDATE of the head and COMMIT, which makes both visible and unlocks.
Commit(w) ==
  LET c == ChainTenant(body[tx[w].row.event].tenant) IN
  /\ tx[w].at = "inserted"
  /\ rows' = rows \cup {tx[w].row}
  /\ heads' = [heads EXCEPT ![c] = tx[w].row.hash]
  /\ lock' = [lock EXCEPT ![c] = "none"]
  /\ tx' = [tx EXCEPT ![w] = Idle]
  /\ UNCHANGED <<body, nextId, emitted>>

\* A statement fails, the 2s insert timeout passes or the replica dies: the
\* transaction is rolled back and the event is lost.
Rollback(w) ==
  /\ tx[w] # Idle
  /\ lock' = [c \in Chains |-> IF lock[c] = w THEN "none" ELSE lock[c]]
  /\ tx' = [tx EXCEPT ![w] = Idle]
  /\ UNCHANGED <<body, heads, rows, nextId, emitted>>

Next == \E w \in Workers : \/ \E e \in Events : LockHead(w, e)
                           \/ InsertRow(w) \/ Commit(w) \/ Rollback(w)

Spec == Init /\ [][Next]_vars

-----------------------------------------------------------------------------
(* VerifyChain.                                                            *)

\* WHERE COALESCE(tenant, 'default') = c AND ts >= from AND ts <= to.
Window(table, c, from, to) ==
  {r \in table : /\ ChainTenant(r.stored.tenant) = c
                 /\ from <= r.stored.ts /\ r.stored.ts <= to}

\* A row without a hash is from before the chain and is skipped.
Chained(table, c, from, to) == {r \in Window(table, c, from, to) : r.hash # <<>>}

\* q is the row before r in ORDER BY id ASC.
Before(W, q, r) == /\ q.id < r.id
                   /\ \A s \in W : s.id <= q.id \/ r.id <= s.id

\* Mutant: only the rows' own hashes are recomputed.
VerifyHashesOnly(table, c, from, to) ==
  \A r \in Chained(table, c, from, to) :
    r.hash = ComputeHash(r.prev, CanonicalForHash(r.event, r.stored))

\* The link of every row but the first, and every row's own hash, recomputed
\* from the columns.
VerifyChain(table, c, from, to) ==
  LET W == Chained(table, c, from, to) IN
  /\ \A q, r \in W : Before(W, q, r) => r.prev = q.hash
  /\ \A r \in W : r.hash = ComputeHash(r.prev, CanonicalForHash(r.event, r.stored))

MinTime == CHOOSE t \in Times : \A u \in Times : t <= u
MaxTime == CHOOSE t \in Times : \A u \in Times : u <= t

-----------------------------------------------------------------------------
(* Properties.                                                             *)

ChainRows(c) == {r \in rows : ChainTenant(body[r.event].tenant) = c}

\* "Concurrent inserts for the same tenant MUST serialize on the chain so two
\* events never share a prev_hash" (Store.Insert), whatever the replicas do
\* and whichever transactions are rolled back.
NoFork ==
  \A q, r \in rows :
    /\ ChainTenant(body[q.event].tenant) = ChainTenant(body[r.event].tenant)
    /\ q.prev = r.prev
    => q = r

\* The head is the hash of the newest row of its chain, so that the next
\* insert extends the chain and HeadID and HeadAt tell how fresh it is.
HeadIsNewest ==
  \A c \in Chains :
    IF ChainRows(c) = {} THEN heads[c] = <<>>
    ELSE \E r \in ChainRows(c) : /\ heads[c] = r.hash
                                 /\ \A q \in ChainRows(c) : q.id <= r.id

\* A log that nobody edited verifies, at every moment, for every tenant: the
\* ids VerifyChain orders by are the order of the chain although a rolled
\* back insert leaves a gap in them.
UntouchedLogVerifies == \A c \in Chains : VerifyChain(rows, c, MinTime, MaxTime)

\* docs/04-audit-verify.md: taking a row out of the middle of a chain, or
\* changing what it says, is reported ("prev_hash mismatch", "hash mismatch"),
\* and so is taking away its hash, which makes VerifyChain skip it.
EditedLogFails ==
  \A c \in Chains : \A r \in ChainRows(c) :
    /\ \A b \in Bodies :
         b # r.stored /\ ChainTenant(b.tenant) = c
           => ~VerifyChain((rows \ {r}) \cup {[r EXCEPT !.stored = b]}, c, MinTime, MaxTime)
    /\ (\E q, s \in ChainRows(c) : q.id < r.id /\ r.id < s.id)
         => /\ ~VerifyChain(rows \ {r}, c, MinTime, MaxTime)
            /\ ~VerifyChain((rows \ {r}) \cup {[r EXCEPT !.hash = <<>>]}, c, MinTime, MaxTime)
=============================================================================
