--------------------------- MODULE ApprovalsMemory ---------------------------
(***************************************************************************)
(* The in-process approvals queue (internal/approvals/memory.go).  Every   *)
(* access to a row is a critical section of MemoryStore.mu; the wake       *)
(* channel is closed when the row leaves pending.  Each id is waited for   *)
(* by the one call that enqueued it.                                       *)
(***************************************************************************)
CONSTANT Ids

VARIABLES
  status,    \* row.req.Status; "none": no row
  closed,    \* the ids whose wake channel is closed
  panicked,  \* close of a channel that was already closed
  acks,      \* the verdicts an operator was told are recorded
  expired,   \* the calls whose context is done
  at, outcome

vars == <<status, closed, panicked, acks, expired, at, outcome>>

Verdicts == {"approved", "rejected"}

Init ==
  /\ status = [i \in Ids |-> "none"]
  /\ closed = {}
  /\ panicked = FALSE
  /\ acks = [i \in Ids |-> {}]
  /\ expired = {}
  /\ at = [i \in Ids |-> "idle"]
  /\ outcome = [i \in Ids |-> "none"]

\* close(row.wake).
CloseWake(i) ==
  /\ closed' = closed \cup {i}
  /\ panicked' = (panicked \/ i \in closed)

\* The switch of runApprovalFlow on the status Wait returned.
Returns(i, s) ==
  /\ at' = [at EXCEPT ![i] = "done"]
  /\ outcome' = [outcome EXCEPT ![i] = IF s = "approved" THEN "proceed" ELSE "blocked"]
  /\ expired' = expired \ {i}

Enqueue(i) ==
  /\ at[i] = "idle"
  /\ status' = [status EXCEPT ![i] = "pending"]
  /\ at' = [at EXCEPT ![i] = "enqueued"]
  /\ UNCHANGED <<closed, panicked, acks, expired, outcome>>

\* Wait finds the row and gives the lock back before its select.
WaitLookup(i) ==
  /\ at[i] = "enqueued"
  /\ at' = [at EXCEPT ![i] = "select"]
  /\ UNCHANGED <<status, closed, panicked, acks, expired, outcome>>

SelectWake(i) ==
  /\ at[i] = "select"
  /\ i \in closed
  /\ at' = [at EXCEPT ![i] = "woken"]
  /\ UNCHANGED <<status, closed, panicked, acks, expired, outcome>>

SelectDone(i) ==
  /\ at[i] = "select"
  /\ i \in expired
  /\ at' = [at EXCEPT ![i] = "marking"]
  /\ UNCHANGED <<status, closed, panicked, acks, expired, outcome>>

WakeReturns(i) ==
  /\ at[i] = "woken"
  /\ Returns(i, status[i])
  /\ UNCHANGED <<status, closed, panicked, acks>>

\* case <-ctx.Done(), under the lock again.
TimeoutReturns(i) ==
  /\ at[i] = "marking"
  /\ IF status[i] = "pending"
       THEN /\ status' = [status EXCEPT ![i] = "timeout"]
            /\ CloseWake(i)
       ELSE UNCHANGED <<status, closed, panicked>>
  /\ Returns(i, status'[i])
  /\ UNCHANGED acks

\* The deadline passes or the agent disconnects.
Expire(i) ==
  /\ at[i] \in {"enqueued", "select", "woken"}
  /\ i \notin expired
  /\ expired' = expired \cup {i}
  /\ UNCHANGED <<status, closed, panicked, acks, at, outcome>>

\* Decide, of an approved or rejected decision; on a row that is not pending
\* it is ErrAlreadyDecided or ErrNotFound.
Decide(i, v) ==
  /\ v \in Verdicts
  /\ status[i] = "pending"
  /\ status' = [status EXCEPT ![i] = v]
  /\ acks' = [acks EXCEPT ![i] = @ \cup {v}]
  /\ CloseWake(i)
  /\ UNCHANGED <<expired, at, outcome>>

WaitStep(i) == WaitLookup(i) \/ SelectWake(i) \/ SelectDone(i)
                 \/ WakeReturns(i) \/ TimeoutReturns(i)

Next == \E i \in Ids : \/ Enqueue(i) \/ WaitStep(i) \/ Expire(i)
                       \/ \E v \in {"timeout"} \cup Verdicts : Decide(i, v)

Spec == Init /\ [][Next]_vars

-----------------------------------------------------------------------------
=============================================================================
