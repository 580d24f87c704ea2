------------------------------- MODULE Budget --------------------------------
(***************************************************************************)
(* The call counter behind max_calls caveats (internal/budget): Check      *)
(* increments the counter of a token once per call and compares the new    *)
(* value with every cap.  MemoryStore keeps entries that expire a fixed    *)
(* time after they were made and are replaced by compare-and-swap;         *)
(* RedisStore sends INCR and EXPIRE as two commands of one pipeline.       *)
(***************************************************************************)
EXTENDS Naturals, Sequences, FiniteSets

CONSTANTS Callers,      \* the calls that present the token
          Caveats,      \* MaxCalls of the token's caveats, 0 = not declared
          TTL,          \* lifetime of a counter, in ticks
          MaxClock      \* bound on time

\* MaxCalls is a count and Check passes a lifetime of 24 hours.
ASSUME BudgetAssumption == Caveats \subseteq Nat /\ TTL \in Nat \ {0} /\ MaxClock \in Nat

VARIABLES store,      \* "memory" or "redis"
          clock,
          entries,    \* every counter ever made; expires = 0: no expiry set
          cell,       \* the counter last put under the key, 0 for none
          caller,     \* progress of a call: its time, counter and new count
          admitted    \* history: the calls allowed

budgetVars == <<store, clock, entries, cell, caller, admitted>>

Idle == [pc |-> "idle", now |-> 0, entry |-> 0, used |-> 0]

BudgetTypeOK ==
  /\ store \in {"memory", "redis"}
  /\ clock \in 0..MaxClock
  /\ entries \in Seq([count : Nat, born : Nat, expires : Nat])
  /\ cell \in 0..Len(entries)
  /\ caller \in [Callers -> [pc : {"idle", "load", "count", "expire", "done"},
                             now : Nat, entry : 0..Len(entries), used : Nat]]
  /\ admitted \in SUBSET [by : Callers, now : Nat, used : Nat]

BudgetInit ==
  /\ store \in {"memory", "redis"}
  /\ clock = 0
  /\ entries = <<>>
  /\ cell = 0
  /\ caller = [c \in Callers |-> Idle]
  /\ admitted = {}

-----------------------------------------------------------------------------
extractMaxCalls == {m \in Caveats : m > 0}

\* Check, after Increment returned: the call is allowed unless a cap is
\* exceeded.
Decide(c, used) ==
  /\ caller' = [caller EXCEPT ![c].pc = "done"]
  /\ admitted' = IF \E limit \in extractMaxCalls : used > limit THEN admitted
                 ELSE admitted \cup {[by |-> c, now |-> caller[c].now, used |-> used]}

\* Tokens without a cap never reach the store: Check returns at once.
Check(c) ==
  /\ caller[c].pc = "idle"
  /\ extractMaxCalls # {}
  /\ caller' = [caller EXCEPT ![c].pc = "load", ![c].now = clock]
  /\ UNCHANGED <<store, clock, entries, cell, admitted>>

Fresh(now, n) == [count |-> n, born |-> now, expires |-> now + TTL]

\* MemoryStore.Increment, LoadOrStore: the entry under the key, or a new one.
LoadOrStore(c) ==
  /\ store = "memory" /\ caller[c].pc = "load"
  /\ IF cell = 0
       THEN /\ entries' = Append(entries, Fresh(caller[c].now, 0))
            /\ cell' = Len(entries')
       ELSE UNCHANGED <<entries, cell>>
  /\ caller' = [caller EXCEPT ![c].pc = "count", ![c].entry = cell']
  /\ UNCHANGED <<store, clock, admitted>>

\* Mutant of Swap: the entry is replaced whatever is under the key by now.
SwapBlindly(c) ==
  /\ entries' = Append(entries, Fresh(caller[c].now, 1))
  /\ cell' = Len(entries')
  /\ Decide(c, 1)

\* CompareAndSwap of an expired entry: the winner starts a new counter at 1,
\* a loser loads again.
Swap(c) ==
  \/ /\ cell = caller[c].entry
     /\ entries' = Append(entries, Fresh(caller[c].now, 1))
     /\ cell' = Len(entries')
     /\ Decide(c, 1)
  \/ /\ cell # caller[c].entry
     /\ caller' = [caller EXCEPT ![c].pc = "load"]
     /\ UNCHANGED <<entries, cell, admitted>>

Increment(c) ==
  /\ store = "memory" /\ caller[c].pc = "count"
  /\ LET e == caller[c].entry IN
       IF caller[c].now > entries[e].expires THEN Swap(c)
       ELSE /\ entries' = [entries EXCEPT ![e].count = @ + 1]
            /\ Decide(c, entries[e].count + 1)
            /\ UNCHANGED cell
  /\ UNCHANGED <<store, clock>>

\* The key of the counter is still there.
Live == cell # 0 /\ (entries[cell].expires # 0 => clock < entries[cell].expires)

\* RedisStore.Increment, INCR: an expired or absent key starts at 1 without
\* an expiry; when the pipeline breaks after it, the call is counted and
\* refused.
Incr(c) ==
  /\ store = "redis" /\ caller[c].pc = "load"
  /\ IF Live
       THEN entries' = [entries EXCEPT ![cell].count = @ + 1] /\ UNCHANGED cell
       ELSE /\ entries' = Append(entries, [count |-> 1, born |-> clock, expires |-> 0])
            /\ cell' = Len(entries')
  /\ \/ caller' = [caller EXCEPT ![c].pc = "expire", ![c].used = entries'[cell'].count]
     \/ caller' = [caller EXCEPT ![c].pc = "done"]
  /\ UNCHANGED <<store, clock, admitted>>

\* EXPIRE renews the lifetime of whatever is under the key.
Expire(c) ==
  /\ store = "redis" /\ caller[c].pc = "expire"
  /\ entries' = IF Live THEN [entries EXCEPT ![cell].expires = clock + TTL] ELSE entries
  /\ Decide(c, caller[c].used)
  /\ UNCHANGED <<store, clock, cell>>

BudgetTick ==
  /\ clock < MaxClock
  /\ clock' = clock + 1
  /\ UNCHANGED <<store, entries, cell, caller, admitted>>

BudgetNext ==
  \/ BudgetTick
  \/ \E c \in Callers : \/ Check(c) \/ LoadOrStore(c) \/ Increment(c)
                        \/ Incr(c) \/ Expire(c)

BudgetSpec == BudgetInit /\ [][BudgetNext]_budgetVars

-----------------------------------------------------------------------------
\* budget.Check admits no more calls than the strictest cap in the lifetime
\* of a counter: of the calls that started since the counter now under the
\* key was made, at most that many are allowed, however the calls race with
\* its expiry, its replacement and each other.
BudgetPerWindow ==
  cell # 0 => \A limit \in extractMaxCalls :
                Cardinality({a \in admitted : a.now >= entries[cell].born}) <= limit
=============================================================================
