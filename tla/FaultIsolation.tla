--------------------------- MODULE FaultIsolation ---------------------------
(***************************************************************************)
(* The per-tool circuit breaker and bulkhead of internal/faultisolation,   *)
(* as internal/handlers/mcp.go uses it around one upstream forward:        *)
(*                                                                         *)
(*   Acquire:  the breaker (one critical section of toolState.mu), then    *)
(*             the bulkhead (a load and a compare-and-swap of inFlight);   *)
(*   Forward:  the upstream answers, or the HTTP client gives up;          *)
(*   release:  inFlight is decremented, and only then is the outcome       *)
(*             recorded, in a second critical section.                     *)
(*                                                                         *)
(* Each call is a goroutine; pc says where it is.  Between any two of its  *)
(* steps the other calls may run.                                          *)
(***************************************************************************)
EXTENDS Integers, FiniteSets

CONSTANTS Tools,                 \* tool names
          Calls,                 \* concurrent request goroutines
          MaxConcurrentPerTool,  \* Config, as the operator set it
          FailureThreshold,      \* Config, as the operator set it
          Cooldown,              \* Config, in clock ticks
          Replies                \* what the upstream may answer

\* "ok": below 400; "4xx"; "5xx"; "lost": timeout, transport error or an
\* answer over the size limit.
AllReplies == {"ok", "4xx", "5xx", "lost"}

ASSUME ConfigAssumption ==
  /\ MaxConcurrentPerTool \in Int
  /\ FailureThreshold \in Int
  /\ Cooldown \in Int
ASSUME CallsAssumption == IsFiniteSet(Calls)
ASSUME RepliesAssumption == Replies \subseteq AllReplies

\* Config.applyDefaults: a zero or negative field takes its default.
Capacity == IF MaxConcurrentPerTool <= 0 THEN 20 ELSE MaxConcurrentPerTool
Threshold == IF FailureThreshold <= 0 THEN 5 ELSE FailureThreshold
CooldownTicks == IF Cooldown <= 0 THEN 30 ELSE Cooldown

VARIABLES
  state,                \* toolState.state of each tool
  consecutiveFailures,  \* counted up to Threshold: more is never told apart
  sinceOpened,          \* now - openedAt in ticks, up to CooldownTicks
  inFlight,             \* toolState.inFlight
  pc,                   \* where each call is
  tool,                 \* the tool each call is for
  cur,                  \* the local cur of the compare-and-swap loop
  reply                 \* what the upstream answered the call

vars == <<state, consecutiveFailures, sinceOpened, inFlight, pc, tool, cur, reply>>

TypeOK ==
  /\ state \in [Tools -> {"closed", "open", "half_open"}]
  /\ consecutiveFailures \in [Tools -> 0..Threshold]
  /\ sinceOpened \in [Tools -> 0..CooldownTicks]
  /\ inFlight \in [Tools -> 0..Capacity]
  /\ pc \in [Calls -> {"idle", "bulkhead", "cas", "forward", "record"}]
  /\ tool \in [Calls -> Tools]
  /\ cur \in [Calls -> 0..(Capacity - 1)]
  /\ reply \in [Calls -> AllReplies]

\* toolState starts zeroed: closed, no failures, no permit taken.
Init ==
  /\ state = [t \in Tools |-> "closed"]
  /\ consecutiveFailures = [t \in Tools |-> 0]
  /\ sinceOpened = [t \in Tools |-> CooldownTicks]
  /\ inFlight = [t \in Tools |-> 0]
  /\ pc = [c \in Calls |-> "idle"]
  /\ tool \in [Calls -> Tools]
  /\ cur = [c \in Calls |-> 0]
  /\ reply = [c \in Calls |-> "ok"]

-----------------------------------------------------------------------------
(* Acquire: the breaker.                                                   *)

\* A closed breaker lets the call through to the bulkhead.
BreakerClosed(c, t) ==
  /\ pc[c] = "idle"
  /\ state[t] = "closed"
  /\ pc' = [pc EXCEPT ![c] = "bulkhead"]
  /\ tool' = [tool EXCEPT ![c] = t]
  /\ UNCHANGED <<state, consecutiveFailures, sinceOpened, inFlight, cur, reply>>

\* The cooldown has elapsed: this call makes the breaker half-open and is
\* its probe.
BreakerProbe(c, t) ==
  /\ pc[c] = "idle"
  /\ state[t] = "open"
  /\ sinceOpened[t] >= CooldownTicks
  /\ state' = [state EXCEPT ![t] = "half_open"]
  /\ pc' = [pc EXCEPT ![c] = "bulkhead"]
  /\ tool' = [tool EXCEPT ![c] = t]
  /\ UNCHANGED <<consecutiveFailures, sinceOpened, inFlight, cur, reply>>

\* ErrCircuitOpen: the cooldown is running, or somebody else is probing.
\* The call is over and changes nothing.
BreakerRefuses(c, t) ==
  /\ pc[c] = "idle"
  /\ \/ state[t] = "open" /\ sinceOpened[t] < CooldownTicks
     \/ state[t] = "half_open"
  /\ UNCHANGED vars

(* Acquire: the bulkhead.                                                  *)

\* (cur, reply and tool are locals of the call: cur and reply are set back
\* when they go out of scope.)
\*
\* cur := inFlight.Load(), and ErrBulkheadFull when no permit is left.  The
\* breaker keeps whatever state the first half of Acquire gave it.
BulkheadLoad(c) ==
  /\ pc[c] = "bulkhead"
  /\ IF inFlight[tool[c]] >= Capacity
       THEN /\ pc' = [pc EXCEPT ![c] = "idle"]
            /\ UNCHANGED cur
       ELSE /\ pc' = [pc EXCEPT ![c] = "cas"]
            /\ cur' = [cur EXCEPT ![c] = inFlight[tool[c]]]
  /\ UNCHANGED <<state, consecutiveFailures, sinceOpened, inFlight, tool, reply>>

\* A compare-and-swap that never loses (for the mutants).
BulkheadBlindSwap(c) ==
  /\ pc[c] = "cas"
  /\ inFlight' = [inFlight EXCEPT ![tool[c]] = cur[c] + 1]
  /\ pc' = [pc EXCEPT ![c] = "forward"]
  /\ cur' = [cur EXCEPT ![c] = 0]
  /\ UNCHANGED <<state, consecutiveFailures, sinceOpened, tool, reply>>

\* inFlight.CompareAndSwap(cur, cur+1): won, or back to the load.
BulkheadSwap(c) ==
  /\ pc[c] = "cas"
  /\ IF inFlight[tool[c]] = cur[c]
       THEN /\ inFlight' = [inFlight EXCEPT ![tool[c]] = cur[c] + 1]
            /\ pc' = [pc EXCEPT ![c] = "forward"]
       ELSE /\ pc' = [pc EXCEPT ![c] = "bulkhead"]
            /\ UNCHANGED inFlight
  /\ cur' = [cur EXCEPT ![c] = 0]
  /\ UNCHANGED <<state, consecutiveFailures, sinceOpened, tool, reply>>

-----------------------------------------------------------------------------
(* Forward and release.                                                    *)

\* Forward returns r and the release closure gives the permit back.
ForwardReturns(c, r) ==
  /\ pc[c] = "forward"
  /\ reply' = [reply EXCEPT ![c] = r]
  /\ inFlight' = [inFlight EXCEPT ![tool[c]] = @ - 1]
  /\ pc' = [pc EXCEPT ![c] = "record"]
  /\ UNCHANGED <<state, consecutiveFailures, sinceOpened, tool, cur>>

\* The outcome forwardToUpstream reports.  upstream.Client.Forward returns
\* an error for every status from 400 up, and an error is a failure.
OutcomeSuccess(r) == r = "ok"

\* record(OutcomeSuccess): whatever call it was, the breaker closes.
RecordSuccess(c) ==
  /\ pc[c] = "record"
  /\ OutcomeSuccess(reply[c])
  /\ consecutiveFailures' = [consecutiveFailures EXCEPT ![tool[c]] = 0]
  /\ state' = [state EXCEPT ![tool[c]] = "closed"]
  /\ pc' = [pc EXCEPT ![c] = "idle"]
  /\ reply' = [reply EXCEPT ![c] = "ok"]
  /\ UNCHANGED <<sinceOpened, inFlight, tool, cur>>

\* A half-open breaker that a failed probe leaves alone (for the mutants).
TripsAtThresholdOnly(t) ==
  state[t] = "closed" /\ consecutiveFailures[t] + 1 >= Threshold

\* A half-open breaker re-opens, a closed one opens at the threshold.
Trips(t) ==
  \/ state[t] = "half_open"
  \/ state[t] = "closed" /\ consecutiveFailures[t] + 1 >= Threshold

RecordFailure(c) ==
  LET t == tool[c] IN
  /\ pc[c] = "record"
  /\ ~OutcomeSuccess(reply[c])
  /\ consecutiveFailures' = [consecutiveFailures EXCEPT ![t] =
                               IF @ < Threshold THEN @ + 1 ELSE @]
  /\ state' = [state EXCEPT ![t] = IF Trips(t) THEN "open" ELSE @]
  /\ sinceOpened' = [sinceOpened EXCEPT ![t] = IF Trips(t) THEN 0 ELSE @]
  /\ pc' = [pc EXCEPT ![c] = "idle"]
  /\ reply' = [reply EXCEPT ![c] = "ok"]
  /\ UNCHANGED <<inFlight, tool, cur>>

\* Time passes (the clock the isolator reads with now()).
Tick ==
  /\ \E t \in Tools : sinceOpened[t] < CooldownTicks
  /\ sinceOpened' = [t \in Tools |-> IF sinceOpened[t] < CooldownTicks
                                       THEN sinceOpened[t] + 1
                                       ELSE sinceOpened[t]]
  /\ UNCHANGED <<state, consecutiveFailures, inFlight, pc, tool, cur, reply>>

-----------------------------------------------------------------------------
Acquire(c) == \E t \in Tools :
                BreakerClosed(c, t) \/ BreakerProbe(c, t) \/ BreakerRefuses(c, t)

\* What a call does once the breaker let it through.
Proceed(c) ==
  \/ BulkheadLoad(c)
  \/ BulkheadSwap(c)
  \/ \E r \in Replies : ForwardReturns(c, r)
  \/ RecordSuccess(c)
  \/ RecordFailure(c)

Next == Tick \/ \E c \in Calls : Acquire(c) \/ Proceed(c)

Spec == Init /\ [][Next]_vars

\* A goroutine that may run does run, the upstream client gives up after its
\* timeout, and time passes.  Nobody is obliged to make calls.
Fairness == WF_vars(Tick) /\ \A c \in Calls : WF_vars(Proceed(c))

FairSpec == Spec /\ Fairness

-----------------------------------------------------------------------------
(* Properties.                                                             *)

\* The calls of tool t that hold a permit.
Holders(t) == {c \in Calls : tool[c] = t /\ pc[c] = "forward"}

\* inFlight is exactly the number of calls being forwarded: no permit is
\* lost or given back twice, whatever the interleaving of the swaps and the
\* releases.
PermitsCounted == \A t \in Tools : inFlight[t] = Cardinality(Holders(t))

\* The bulkhead is a counting semaphore of Capacity permits per tool
\* (docs/09-fault-isolation.md: "at most N concurrent forwards to X").
Sem == INSTANCE Semaphore WITH holders <- [t \in Tools |-> Holders(t)]
ImplementsSemaphore == Sem!Spec

\* The calls of tool t that are past the breaker and will still record.
Pending(t) == {c \in Calls : /\ tool[c] = t
                             /\ pc[c] \in {"bulkhead", "cas", "forward", "record"}}

\* A half-open breaker refuses everybody, and only a recorded outcome moves
\* it.  So as long as it is half-open some call must still be on its way to
\* record one, also when the probe itself was turned away by a full bulkhead
\* after it had made the breaker half-open.
HalfOpenAttended == \A t \in Tools : state[t] = "half_open" => Pending(t) # {}

\* A half-open breaker does not stay half-open: the tool cannot be refused
\* for ever because of a probe that never reported.
HalfOpenResolves == \A t \in Tools : state[t] = "half_open" ~> state[t] # "half_open"
=============================================================================
