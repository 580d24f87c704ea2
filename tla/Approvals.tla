------------------------------ MODULE Approvals ------------------------------
(***************************************************************************)
(* The Postgres approvals queue with several gateway replicas              *)
(* (internal/approvals/postgres.go) as the synchronous escalation path of  *)
(* internal/handlers/mcp.go uses it: the call enqueues a row, waits for it *)
(* with LISTEN/NOTIFY and a polling fallback, and goes on or is blocked.   *)
(* Operators decide through the admin API of any replica.                  *)
(*                                                                         *)
(* A row update is atomic (UPDATE ... WHERE status = 'pending' holds the   *)
(* row lock until commit) and NOTIFY is delivered at commit.  Everything   *)
(* else interleaves.                                                       *)
(***************************************************************************)
EXTENDS Naturals

CONSTANTS Replicas,   \* gateway processes
          Ids,        \* pending ids: NewPendingID never repeats one
          Faults,     \* TRUE: the database may fail a statement
          MaxCrashes  \* bound on replica restarts

VARIABLES
  status,     \* pending_approvals.status; "none" before the insert
  acks,       \* the verdicts for which an operator got a 200
  home,       \* the replica that runs the call of each id
  at,         \* where that call is
  expired,    \* the calls whose waitCtx is done (deadline or disconnect)
  waits,      \* PostgresStore.waits of each replica (open channels only)
  woken,      \* the ids whose channel the listener closed
  listening,  \* the replicas whose listener holds a LISTEN session
  inbox,      \* notifications sent to that session, not yet read
  crashes,
  outcome     \* what runApprovalFlow did with the call

queueVars == <<status, acks, home, at, expired, waits, woken, listening, inbox,
          crashes, outcome>>
dbVars == <<status, acks>>
listenerVars == <<waits, woken, listening, inbox>>

Final == {"approved", "rejected", "timeout"}
Verdicts == {"approved", "rejected"}
InWait == {"registered", "select", "woken", "polled", "marking", "marked"}

QueueInit ==
  /\ status = [i \in Ids |-> "none"]
  /\ acks = [i \in Ids |-> {}]
  /\ home \in [Ids -> Replicas]
  /\ at = [i \in Ids |-> "idle"]
  /\ expired = {}
  /\ waits = [r \in Replicas |-> {}]
  /\ woken = {}
  /\ listening = {}
  /\ inbox = [r \in Replicas |-> {}]
  /\ crashes = 0
  /\ outcome = [i \in Ids |-> "none"]

-----------------------------------------------------------------------------
(* The end of runApprovalFlow and of Wait.                                 *)

\* Wait returns: its deferred function takes the channel out of waits, and
\* the locals of the call go out of scope.
Returns(i, result) ==
  /\ at' = [at EXCEPT ![i] = "done"]
  /\ outcome' = [outcome EXCEPT ![i] = result]
  /\ waits' = [waits EXCEPT ![home[i]] = @ \ {i}]
  /\ woken' = woken \ {i}
  /\ expired' = expired \ {i}
  /\ UNCHANGED <<status, acks, home, listening, inbox, crashes>>

\* The switch on final.Status: only an approved row lets the call go on.
FlowResult(s) == IF s = "approved" THEN "proceed" ELSE "blocked"

\* Get(ctx) fails when the context is done, or when the database does.
GetFails(i) == i \in expired \/ Faults

-----------------------------------------------------------------------------
(* The waiting call.                                                       *)

\* Enqueue inserts the row.
Enqueue(i) ==
  /\ at[i] = "idle"
  /\ status' = [status EXCEPT ![i] = "pending"]
  /\ at' = [at EXCEPT ![i] = "enqueued"]
  /\ UNCHANGED <<acks, home, expired, listenerVars, crashes, outcome>>

\* Enqueue returns an error; the insert may have been committed all the same.
EnqueueFails(i) ==
  /\ Faults
  /\ at[i] = "idle"
  /\ status' = status \/ status' = [status EXCEPT ![i] = "pending"]
  /\ at' = [at EXCEPT ![i] = "done"]
  /\ outcome' = [outcome EXCEPT ![i] = "blocked"]
  /\ UNCHANGED <<acks, home, expired, listenerVars, crashes>>

\* Wait registers its channel before the first read.
Register(i) ==
  /\ at[i] = "enqueued"
  /\ waits' = [waits EXCEPT ![home[i]] = @ \cup {i}]
  /\ at' = [at EXCEPT ![i] = "registered"]
  /\ UNCHANGED <<dbVars, home, expired, woken, listening, inbox, crashes, outcome>>

\* The first, synchronous Get, and the Get after a tick of the poll.
ReadsRow(i, from) ==
  /\ at[i] = from
  /\ \/ /\ i \notin expired
        /\ IF status[i] = "pending"
             THEN /\ at' = [at EXCEPT ![i] = "select"]
                  /\ UNCHANGED <<dbVars, home, expired, listenerVars, crashes, outcome>>
             ELSE Returns(i, FlowResult(status[i]))
     \/ GetFails(i) /\ Returns(i, "blocked")

FirstGet(i) == ReadsRow(i, "registered")

\* The select takes any case that is ready.
SelectWake(i) ==
  /\ at[i] = "select"
  /\ i \in woken
  /\ at' = [at EXCEPT ![i] = "woken"]
  /\ UNCHANGED <<dbVars, home, expired, listenerVars, crashes, outcome>>

\* Mutant: the poll only runs while the listener is down.
PollWhenNotListening(i) ==
  /\ at[i] = "select"
  /\ home[i] \notin listening
  /\ at' = [at EXCEPT ![i] = "polled"]
  /\ UNCHANGED <<dbVars, home, expired, listenerVars, crashes, outcome>>

SelectPoll(i) ==
  /\ at[i] = "select"
  /\ at' = [at EXCEPT ![i] = "polled"]
  /\ UNCHANGED <<dbVars, home, expired, listenerVars, crashes, outcome>>

SelectDone(i) ==
  /\ at[i] = "select"
  /\ i \in expired
  /\ at' = [at EXCEPT ![i] = "marking"]
  /\ UNCHANGED <<dbVars, home, expired, listenerVars, crashes, outcome>>

\* Mutant: a woken call goes on without reading what was decided.
WokenProceeds(i) ==
  /\ at[i] = "woken"
  /\ Returns(i, "proceed")

\* case <-ch: one Get, whose row or error is returned as it is.
WokenGet(i) ==
  /\ at[i] = "woken"
  /\ \/ i \notin expired /\ Returns(i, FlowResult(status[i]))
     \/ GetFails(i) /\ Returns(i, "blocked")

\* case <-poll.C: a Get; a row still pending goes back to the select.
PollGet(i) == ReadsRow(i, "polled")

\* Mutant: the timeout is written without AND status = 'pending'.
MarkTimeoutBlind(i) ==
  /\ at[i] = "marking"
  /\ status' = [status EXCEPT ![i] = "timeout"]
  /\ at' = [at EXCEPT ![i] = "marked"]
  /\ UNCHANGED <<acks, home, expired, listenerVars, crashes, outcome>>

\* case <-ctx.Done(): markTimeout's UPDATE, with a background context.
MarkTimeout(i) ==
  /\ at[i] = "marking"
  /\ status' = [status EXCEPT ![i] = IF @ = "pending" THEN "timeout" ELSE @]
  /\ at' = [at EXCEPT ![i] = "marked"]
  /\ UNCHANGED <<acks, home, expired, listenerVars, crashes, outcome>>

MarkTimeoutFails(i) ==
  /\ Faults
  /\ at[i] = "marking"
  /\ Returns(i, "blocked")

\* ... and its Get: whatever the row's final state is.
MarkedGet(i) ==
  /\ at[i] = "marked"
  /\ \/ Returns(i, FlowResult(status[i]))
     \/ Faults /\ Returns(i, "blocked")

\* The wait deadline passes, or the agent closes its connection.
Expire(i) ==
  /\ at[i] \in {"enqueued"} \cup InWait
  /\ i \notin expired
  /\ expired' = expired \cup {i}
  /\ UNCHANGED <<dbVars, home, at, listenerVars, crashes, outcome>>

-----------------------------------------------------------------------------
(* The operators and the listeners.                                        *)

\* Decide refuses a decision that is neither approved nor rejected; it commits
\* the verdict and its NOTIFY.  The operator is told, unless
\* the commit's answer or the Get that follows fails.  On a row that is not
\* pending Decide changes nothing (409 Conflict, or 404).
Decide(i, v) ==
  /\ v \in Verdicts
  /\ status[i] = "pending"
  /\ status' = [status EXCEPT ![i] = v]
  /\ inbox' = [r \in Replicas |-> IF r \in listening THEN inbox[r] \cup {i} ELSE inbox[r]]
  /\ \/ acks' = [acks EXCEPT ![i] = @ \cup {v}]
     \/ Faults /\ UNCHANGED acks
  /\ UNCHANGED <<home, at, expired, waits, woken, listening, crashes, outcome>>

\* runListener gets a connection and LISTENs.
Listen(r) ==
  /\ r \notin listening
  /\ listening' = listening \cup {r}
  /\ UNCHANGED <<dbVars, home, at, expired, waits, woken, inbox, crashes, outcome>>

\* WaitForNotification fails: what the session had not read is lost.
ListenerDrops(r) ==
  /\ r \in listening
  /\ listening' = listening \ {r}
  /\ inbox' = [inbox EXCEPT ![r] = {}]
  /\ UNCHANGED <<dbVars, home, at, expired, waits, woken, crashes, outcome>>

\* runListener reads one notification and closes the channel, if there is one.
Deliver(r, i) ==
  /\ i \in inbox[r]
  /\ inbox' = [inbox EXCEPT ![r] = @ \ {i}]
  /\ waits' = [waits EXCEPT ![r] = @ \ {i}]
  /\ woken' = IF i \in waits[r] THEN woken \cup {i} ELSE woken
  /\ UNCHANGED <<dbVars, home, at, expired, listening, crashes, outcome>>

\* A replica dies and comes back: its calls and its listener are gone, the
\* rows stay.
Crash(r) ==
  LET lost == {i \in Ids : home[i] = r /\ at[i] \in {"enqueued"} \cup InWait} IN
  /\ crashes < MaxCrashes
  /\ crashes' = crashes + 1
  /\ at' = [i \in Ids |-> IF i \in lost THEN "gone" ELSE at[i]]
  /\ waits' = [waits EXCEPT ![r] = {}]
  /\ inbox' = [inbox EXCEPT ![r] = {}]
  /\ listening' = listening \ {r}
  /\ woken' = woken \ lost
  /\ expired' = expired \ lost
  /\ UNCHANGED <<dbVars, home, outcome>>

-----------------------------------------------------------------------------
\* What the waiting call does by itself.
CallStep(i) ==
  \/ Register(i) \/ FirstGet(i)
  \/ SelectWake(i) \/ SelectPoll(i) \/ SelectDone(i)
  \/ WokenGet(i) \/ PollGet(i)
  \/ MarkTimeout(i) \/ MarkTimeoutFails(i) \/ MarkedGet(i)

QueueNext ==
  \/ \E i \in Ids : \/ Enqueue(i) \/ EnqueueFails(i) \/ CallStep(i) \/ Expire(i)
                    \/ \E v \in Final : Decide(i, v)
                    \/ \E r \in Replicas : Deliver(r, i)
  \/ \E r \in Replicas : Listen(r) \/ ListenerDrops(r) \/ Crash(r)

-----------------------------------------------------------------------------
(* Properties.                                                             *)

\* The queue keeps the Store contract: a row is settled once, whichever of
\* the deadline and the operators comes first, and a call goes on only if its
\* row was settled as approved.
Queue == INSTANCE ApprovalQueue WITH verdict <- status
ImplementsQueue == Queue!Spec

\* The verdict an operator was told is recorded stands: the deadline of the
\* waiting call and the other operators cannot overrule it, so that no two
\* operators are told different things.
VerdictStands == \A i \in Ids : acks[i] \subseteq {status[i]}

\* A call whose row is decided comes to an end whatever happens to the
\* listener: the poll covers a lost session and a notification sent while
\* nobody listened.
DecidedCallEnds ==
  \A i \in Ids : status[i] \in Verdicts /\ at[i] \in {"enqueued"} \cup InWait
                   ~> at[i] \in {"done", "gone"}
=============================================================================
