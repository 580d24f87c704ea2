------------------------------ MODULE Velocity -------------------------------
(***************************************************************************)
(* The rolling-window breaker (internal/velocity).  Limiter.Check counts   *)
(* the events of the trailing window and then adds one: it reads the       *)
(* clock, counts and adds in three steps, so calls of one key may all      *)
(* count before any of them is recorded.                                   *)
(***************************************************************************)
EXTENDS Naturals, FiniteSets, FiniteSetsExt

CONSTANTS Attempts,      \* calls made under one key
          Cents,         \* amounts a call may move
          Limits,        \* configurations: MaxCalls, MaxCents, Window, and
                         \* MaxInFlight, the calls of the key checked at one time
          MaxTime        \* bound on time

VARIABLES limits, time,
          attempt,    \* progress of a call, its time, amount and what it counted
          recorded,   \* the events kept under the key
          passed      \* history: the events of every call allowed

velocityVars == <<limits, time, attempt, recorded, passed>>

Verdicts == {"allowed", "rate_velocity_exceeded", "monetary_velocity_exceeded"}

VelocityInit ==
  /\ limits \in Limits
  /\ time = 0
  /\ attempt \in [Attempts -> [pc : {"idle"}, now : {0}, cents : Cents,
                               calls : {0}, sum : {0}]]
  /\ recorded = {}
  /\ passed = {}

-----------------------------------------------------------------------------
enabled == limits.Window > 0 /\ (limits.MaxCalls > 0 \/ limits.MaxCents > 0)

SumOfCents(evs) == MapThenSumSet(LAMBDA e : e.cents, evs)

\* Events newer than the cutoff now - Window.
InWindow(evs, now) == {e \in evs : e.ts + limits.Window > now}

\* Limiter.Check reads its clock.
Now(a) ==
  /\ attempt[a].pc = "idle"
  /\ enabled
  /\ Cardinality({b \in Attempts : attempt[b].pc \in {"timed", "counted"}}) < limits.MaxInFlight
  /\ attempt' = [attempt EXCEPT ![a].pc = "timed", ![a].now = time]
  /\ UNCHANGED <<limits, time, recorded, passed>>

\* MemoryStore.Count: prunes what fell out of the window, returns the rest.
Count(a) ==
  LET kept == InWindow(recorded, attempt[a].now) IN
  /\ attempt[a].pc = "timed"
  /\ recorded' = kept
  /\ attempt' = [attempt EXCEPT ![a].pc = "counted",
                                ![a].calls = Cardinality(kept),
                                ![a].sum = SumOfCents(kept)]
  /\ UNCHANGED <<limits, time, passed>>

\* Mutant of Verdict: the caps are compared with the events before this call.
VerdictWithoutThisCall(a) ==
  IF limits.MaxCalls > 0 /\ attempt[a].calls > limits.MaxCalls THEN "rate_velocity_exceeded"
  ELSE IF limits.MaxCents > 0 /\ attempt[a].sum > limits.MaxCents
    THEN "monetary_velocity_exceeded"
  ELSE "allowed"

Verdict(a) ==
  IF limits.MaxCalls > 0 /\ attempt[a].calls + 1 > limits.MaxCalls THEN "rate_velocity_exceeded"
  ELSE IF limits.MaxCents > 0 /\ attempt[a].sum + attempt[a].cents > limits.MaxCents
    THEN "monetary_velocity_exceeded"
  ELSE "allowed"

\* The rest of Limiter.Check: the caps, and Add only when the call is allowed.
VelocityCheck(a) ==
  LET event == [by |-> a, ts |-> attempt[a].now, cents |-> attempt[a].cents]
      added == IF Verdict(a) = "allowed" THEN {event} ELSE {}
  IN  /\ attempt[a].pc = "counted"
      /\ attempt' = [attempt EXCEPT ![a].pc = Verdict(a)]
      /\ recorded' = recorded \cup added
      /\ passed' = passed \cup added
      /\ UNCHANGED <<limits, time>>

VelocityTick ==
  /\ time < MaxTime
  /\ time' = time + 1
  /\ UNCHANGED <<limits, attempt, recorded, passed>>

VelocityNext == VelocityTick \/ \E a \in Attempts : Now(a) \/ Count(a) \/ VelocityCheck(a)

-----------------------------------------------------------------------------
\* Limiter.Check reads the clock, counts and adds in separate steps, so its
\* caps are not exact under concurrency, but what they let through is bounded
\* by the calls in flight together: no trailing window ever holds more than
\* MaxCalls allowed calls plus twice MaxInFlight - 1, once for calls that
\* counted before one another's Add and once for calls with an older clock
\* that counted after a newer one had pruned the window.  The amounts
\* likewise exceed MaxCents by no more than that many calls.
OvershootOnlyByRacing ==
  \A t \in 0..time :
    LET window == InWindow({e \in passed : e.ts <= t}, t)
        slack == 2 * (limits.MaxInFlight - 1)
    IN  /\ limits.MaxCalls > 0 => Cardinality(window) <= limits.MaxCalls + slack
        /\ limits.MaxCents > 0 =>
             SumOfCents(window) <= limits.MaxCents + slack * Max(Cents)
=============================================================================
