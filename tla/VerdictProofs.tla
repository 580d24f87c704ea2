--------------------------- MODULE VerdictProofs ----------------------------
(***************************************************************************)
(* Verdicts from outside, and who gets to see and to give them.  The calls *)
(* that wait for one: an operator's, in either approval queue and for a    *)
(* call that is resumed, and the control plane's, at the IntentGrant       *)
(* endpoint.  The administrators who read and decide.  For every set of    *)
(* calls, replicas, agents, tools and tenants and any number of crashes.   *)
(***************************************************************************)
EXTENDS ApprovalModes, IntentGrant, AdminReads, TLAPS

HoldStatuses == {"none", "pending"} \cup Final

WaitTypes ==
  /\ mode \in {"postgres", "memory", "async"}
  /\ status \in [Ids -> HoldStatuses]
  /\ acks \in [Ids -> SUBSET Verdicts]
  /\ DOMAIN at = Ids
  /\ outcome \in [Ids -> {"none", "proceed", "blocked"}]

\* A call that has not enqueued has no row, and one that has not returned has
\* no outcome.
Ahead ==
  \A i \in Ids : /\ at[i] = "idle" => status[i] = "none"
                 /\ at[i] # "done" => outcome[i] = "none"

\* A wake channel is closed when its row is settled, and once.
ClosedSettled == ~panicked /\ \A i \in Ids : i \in closed => status[i] \in Final

WaitInv == WaitTypes /\ Ahead /\ ClosedSettled /\ VerdictStands

\* What a step of a waiting call, an operator or a replica may do to the rows
\* and to the outcomes.
QueueStep(i) ==
  \/ UNCHANGED <<status, outcome>>
  \/ Queue!Enqueue(i) \/ Queue!Proceed(i) \/ Queue!Block(i)
  \/ \E v \in Final : Queue!Settle(i, v)

\* The row of a held call holds what the queue gives back for a call that was
\* escalated under its id.
ResumeInv ==
  /\ rows \in [HeldIds -> {Resume!NoRow} \cup Resume!Rows]
  /\ escalated \in [HeldIds -> SUBSET Resume!Requests]
  /\ ran \subseteq HeldIds \X Resume!Requests
  /\ \A i \in HeldIds : rows[i] # Resume!NoRow =>
       \E c \in escalated[i] : rows[i].call = [c EXCEPT !.args = Resume!StoredArgs(c.args)]
  /\ RunsWhatWasApproved

-----------------------------------------------------------------------------
\* The rows and the calls of the PostgreSQL queue.
LEMMA ReturnsKeeps ==
  ASSUME WaitInv, NEW i \in Ids, at[i] \notin {"idle", "done"}, NEW s,
         s = FlowResult(status[i]) \/ s = "blocked", Returns(i, s), UNCHANGED <<mode, memoryVars>>
  PROVE  WaitInv' /\ QueueStep(i)
<1> USE DEF WaitInv
<1>1. s \in {"proceed", "blocked"} /\ (s = "proceed" => status[i] = "approved")
  BY DEF FlowResult
<1>2. /\ at' = [at EXCEPT ![i] = "done"] /\ outcome' = [outcome EXCEPT ![i] = s]
      /\ UNCHANGED <<status, acks, mode, closed, panicked>>
  BY Zenon DEF Returns, memoryVars
<1>3. WaitTypes'
  BY <1>1, <1>2 DEF WaitTypes
<1>4. Ahead'
  BY <1>2 DEF Ahead, WaitTypes
<1>5. ClosedSettled' /\ VerdictStands'
  BY <1>2 DEF ClosedSettled, VerdictStands
<1>6. QueueStep(i)
  BY Zenon, <1>1, <1>2 DEF QueueStep, Queue!Proceed, Queue!Block, Ahead
<1> QED BY <1>3, <1>4, <1>5, <1>6

\* A step that only moves the call on.
LEMMA MovesKeeps ==
  ASSUME WaitInv, NEW i \in Ids, at[i] \notin {"idle", "done"},
         at'[i] \notin {"idle", "done"}, at' = [at EXCEPT ![i] = at'[i]],
         UNCHANGED <<mode, status, acks, outcome, closed, panicked>>
  PROVE  WaitInv' /\ QueueStep(i)
  BY DEF WaitInv, WaitTypes, Ahead, ClosedSettled, VerdictStands, QueueStep

\* A step of the PostgreSQL queue keeps the invariant and the contract.
LEMMA PostgresKeeps ==
  ASSUME WaitInv, QueueNext, UNCHANGED <<mode, memoryVars>>
  PROVE  WaitInv' /\ (UNCHANGED <<status, outcome>> \/ \E i \in Ids : QueueStep(i))
<1> USE DEF WaitInv
<1>1. ASSUME NEW i \in Ids, Enqueue(i) PROVE WaitInv' /\ QueueStep(i)
  <2>1. WaitTypes'
    BY <1>1 DEF Enqueue, WaitTypes, HoldStatuses
  <2>2. Ahead'
    BY <1>1 DEF Enqueue, Ahead, WaitTypes
  <2>3. ClosedSettled'
    BY <1>1 DEF Enqueue, Ahead, WaitTypes, ClosedSettled, memoryVars, Final
  <2>4. VerdictStands'
    BY <1>1 DEF Enqueue, Ahead, WaitTypes, VerdictStands, Verdicts
  <2>5. QueueStep(i)
    BY Zenon, <1>1 DEF Enqueue, Ahead, QueueStep, Queue!Enqueue
  <2> QED BY <2>1, <2>2, <2>3, <2>4, <2>5
<1>2. ASSUME NEW i \in Ids, EnqueueFails(i) PROVE WaitInv' /\ QueueStep(i)
  <2>0. /\ at[i] = "idle" /\ status[i] = "none" /\ outcome[i] = "none" /\ acks[i] = {}
        /\ at' = [at EXCEPT ![i] = "done"] /\ outcome' = [outcome EXCEPT ![i] = "blocked"]
        /\ status' = status \/ status' = [status EXCEPT ![i] = "pending"]
        /\ UNCHANGED <<acks, mode, closed, panicked>>
    BY <1>2 DEF EnqueueFails, Ahead, VerdictStands, Verdicts, WaitTypes, memoryVars
  <2>1. WaitTypes'
    BY <2>0 DEF WaitTypes, HoldStatuses
  <2>2. Ahead'
    BY <2>0 DEF Ahead, WaitTypes
  <2>3. ClosedSettled'
    BY <2>0 DEF WaitTypes, ClosedSettled, Final
  <2>4. VerdictStands'
    BY <2>0 DEF WaitTypes, VerdictStands
  <2>5. QueueStep(i)
    BY Zenon, <2>0 DEF QueueStep, Queue!Block
  <2> QED BY <2>1, <2>2, <2>3, <2>4, <2>5
<1>3. ASSUME NEW i \in Ids, CallStep(i) PROVE WaitInv' /\ QueueStep(i)
  <2>1. CASE Register(i)
    <3>1. /\ at[i] \notin {"idle", "done"} /\ at'[i] \notin {"idle", "done"}
          /\ at' = [at EXCEPT ![i] = at'[i]]
          /\ UNCHANGED <<mode, status, acks, outcome, closed, panicked>>
      BY <2>1 DEF Register, dbVars, memoryVars, WaitTypes
    <3> QED BY Zenon, <3>1, MovesKeeps
  <2>2. ASSUME NEW from \in {"registered", "polled"}, ReadsRow(i, from)
        PROVE  WaitInv' /\ QueueStep(i)
    <3>1. at[i] \notin {"idle", "done"}
      BY <2>2 DEF ReadsRow
    <3>2. CASE /\ at' = [at EXCEPT ![i] = "select"]
               /\ UNCHANGED <<dbVars, home, expired, listenerVars, crashes, outcome>>
      <4>1. /\ at'[i] \notin {"idle", "done"} /\ at' = [at EXCEPT ![i] = at'[i]]
            /\ UNCHANGED <<mode, status, acks, outcome, closed, panicked>>
        BY <3>2 DEF dbVars, memoryVars, WaitTypes
      <4> QED BY Zenon, <3>1, <4>1, MovesKeeps
    <3>3. CASE Returns(i, FlowResult(status[i])) \/ Returns(i, "blocked")
      BY Zenon, <3>1, <3>3, ReturnsKeeps
    <3> QED BY Zenon, <2>2, <3>2, <3>3 DEF ReadsRow
  <2>3. CASE SelectWake(i) \/ SelectPoll(i) \/ SelectDone(i)
    <3>1. /\ at[i] \notin {"idle", "done"} /\ at'[i] \notin {"idle", "done"}
          /\ at' = [at EXCEPT ![i] = at'[i]]
          /\ UNCHANGED <<mode, status, acks, outcome, closed, panicked>>
      BY <2>3 DEF SelectWake, SelectPoll, SelectDone, dbVars, memoryVars, WaitTypes
    <3> QED BY Zenon, <3>1, MovesKeeps
  <2>4. CASE WokenGet(i) \/ MarkTimeoutFails(i) \/ MarkedGet(i)
    <3>1. at[i] \notin {"idle", "done"}
      BY Zenon, <2>4 DEF WokenGet, MarkTimeoutFails, MarkedGet
    <3>2. Returns(i, FlowResult(status[i])) \/ Returns(i, "blocked")
      BY <2>4 DEF WokenGet, MarkTimeoutFails, MarkedGet
    <3> QED BY Zenon, <3>1, <3>2, ReturnsKeeps
  <2>5. CASE MarkTimeout(i)
    <3>1. CASE status[i] = "pending"
      <4>0. /\ at[i] = "marking" /\ status' = [status EXCEPT ![i] = "timeout"]
            /\ at' = [at EXCEPT ![i] = "marked"] /\ acks[i] = {}
            /\ UNCHANGED <<acks, outcome, mode, closed, panicked>>
        BY <2>5, <3>1 DEF MarkTimeout, VerdictStands, WaitTypes, Verdicts, memoryVars
      <4>1. WaitTypes' /\ Ahead'
        BY <4>0 DEF WaitTypes, Ahead, HoldStatuses, Final
      <4>2. ClosedSettled' /\ VerdictStands'
        BY <4>0 DEF WaitTypes, ClosedSettled, VerdictStands, Final
      <4>3. QueueStep(i)
        BY Zenon, <3>1, <4>0 DEF QueueStep, Queue!Settle, Final
      <4> QED BY <4>1, <4>2, <4>3
    <3>2. CASE status[i] # "pending"
      <4>1. UNCHANGED status
        BY <2>5, <3>2 DEF MarkTimeout, WaitTypes
      <4>2. /\ at[i] \notin {"idle", "done"} /\ at'[i] \notin {"idle", "done"}
            /\ at' = [at EXCEPT ![i] = at'[i]]
            /\ UNCHANGED <<mode, acks, outcome, closed, panicked>>
        BY <2>5 DEF MarkTimeout, memoryVars, WaitTypes
      <4> QED BY Zenon, <4>1, <4>2, MovesKeeps
    <3> QED BY <3>1, <3>2
  <2> QED BY Zenon, <1>3, <2>1, <2>2, <2>3, <2>4, <2>5 DEF CallStep, FirstGet, PollGet
<1>4. ASSUME NEW i \in Ids, NEW v \in Final, Decide(i, v) PROVE WaitInv' /\ QueueStep(i)
  <2>0. /\ v \in Verdicts /\ status[i] = "pending" /\ acks[i] = {}
        /\ status' = [status EXCEPT ![i] = v]
        /\ acks' = [acks EXCEPT ![i] = @ \cup {v}] \/ acks' = acks
        /\ UNCHANGED <<at, outcome, mode, closed, panicked>>
    BY Zenon, <1>4 DEF Decide, VerdictStands, WaitTypes, Verdicts, memoryVars
  <2>1. WaitTypes'
    BY <2>0 DEF WaitTypes, HoldStatuses, Final, Verdicts
  <2>2. Ahead'
    BY <2>0 DEF WaitTypes, Ahead
  <2>3. ClosedSettled'
    BY <2>0 DEF WaitTypes, ClosedSettled, Final, Verdicts
  <2>4. VerdictStands'
    BY <2>0 DEF WaitTypes, VerdictStands
  <2>5. QueueStep(i)
    BY Zenon, <1>4, <2>0 DEF QueueStep, Queue!Settle
  <2> QED BY <2>1, <2>2, <2>3, <2>4, <2>5
<1>5. CASE UNCHANGED <<status, acks, at, outcome>>
  BY <1>5 DEF WaitTypes, Ahead, ClosedSettled, VerdictStands, memoryVars
<1>6. ASSUME NEW r \in Replicas, Crash(r) PROVE WaitInv' /\ UNCHANGED <<status, outcome>>
  <2>1. UNCHANGED <<status, acks, outcome, mode, closed, panicked>>
    BY Zenon, <1>6 DEF Crash, dbVars, memoryVars
  <2>2. /\ DOMAIN at' = Ids
        /\ \A i \in Ids : \/ at'[i] = at[i]
                          \/ at[i] \notin {"idle", "done"} /\ at'[i] = "gone"
    <3>1. PICK lost : /\ lost = {i \in Ids : home[i] = r /\ at[i] \in {"enqueued"} \cup InWait}
                      /\ at' = [i \in Ids |-> IF i \in lost THEN "gone" ELSE at[i]]
      BY Zenon, <1>6 DEF Crash
    <3>2. \A i \in lost : at[i] \notin {"idle", "done"}
      BY Zenon, <3>1 DEF InWait
    <3> QED BY Zenon, <3>1, <3>2
  <2> QED BY <2>1, <2>2 DEF WaitTypes, Ahead, ClosedSettled, VerdictStands
<1>7. (\E i \in Ids : Expire(i) \/ \E r \in Replicas : Deliver(r, i))
        \/ (\E r \in Replicas : Listen(r) \/ ListenerDrops(r))
      => UNCHANGED <<status, acks, at, outcome>>
  BY Zenon DEF Expire, Deliver, Listen, ListenerDrops, dbVars
<1> QED BY Zenon, <1>1, <1>2, <1>3, <1>4, <1>5, <1>6, <1>7 DEF QueueNext

-----------------------------------------------------------------------------
\* A row of the in-process queue is settled, and its channel closed, while
\* it is pending and so while the channel is open.
LEMMA ClosesOnce ==
  ASSUME ClosedSettled, NEW i \in Ids, status[i] = "pending", Memory!CloseWake(i)
  PROVE  ~panicked' /\ closed' = closed \cup {i}
<1>1. i \notin closed
  BY DEF ClosedSettled, Final
<1> QED BY Zenon, <1>1 DEF ClosedSettled, Memory!CloseWake

\* A step of the in-process queue keeps the invariant and the contract.
LEMMA MemoryKeeps ==
  ASSUME WaitInv, Memory!Next, UNCHANGED mode
  PROVE  WaitInv' /\ (UNCHANGED <<status, outcome>> \/ \E i \in Ids : QueueStep(i))
<1> USE DEF WaitInv
<1>1. ASSUME NEW i \in Ids, Memory!Enqueue(i) PROVE WaitInv' /\ QueueStep(i)
  <2>0. /\ at[i] = "idle" /\ status[i] = "none" /\ acks[i] = {}
        /\ status' = [status EXCEPT ![i] = "pending"] /\ at' = [at EXCEPT ![i] = "enqueued"]
        /\ UNCHANGED <<acks, outcome, closed, panicked>>
    BY <1>1 DEF Memory!Enqueue, Ahead, VerdictStands, WaitTypes, Verdicts
  <2>1. WaitTypes' /\ Ahead'
    BY <2>0 DEF WaitTypes, Ahead, HoldStatuses
  <2>2. ClosedSettled' /\ VerdictStands'
    BY <2>0 DEF WaitTypes, ClosedSettled, VerdictStands, Final
  <2>3. QueueStep(i)
    BY Zenon, <2>0 DEF QueueStep, Queue!Enqueue
  <2> QED BY <2>1, <2>2, <2>3
<1>2. ASSUME NEW i \in Ids,
             Memory!WaitLookup(i) \/ Memory!SelectWake(i) \/ Memory!SelectDone(i)
      PROVE  WaitInv' /\ QueueStep(i)
  <2>1. /\ at[i] \notin {"idle", "done"} /\ at'[i] \notin {"idle", "done"}
        /\ at' = [at EXCEPT ![i] = at'[i]]
        /\ UNCHANGED <<mode, status, acks, outcome, closed, panicked>>
    BY Zenon, <1>2 DEF Memory!WaitLookup, Memory!SelectWake, Memory!SelectDone, WaitTypes
  <2> QED BY Zenon, <2>1, MovesKeeps
<1>3. ASSUME NEW i \in Ids, at[i] \notin {"idle", "done"},
             Memory!Returns(i, status[i]), UNCHANGED <<status, closed, panicked, acks>>
      PROVE  WaitInv' /\ QueueStep(i)
  <2>0. PICK s \in {"proceed", "blocked"} :
          /\ s = "proceed" => status[i] = "approved"
          /\ at' = [at EXCEPT ![i] = "done"] /\ outcome' = [outcome EXCEPT ![i] = s]
    BY Zenon, <1>3 DEF Memory!Returns
  <2>1. WaitTypes' /\ Ahead'
    BY <1>3, <2>0 DEF WaitTypes, Ahead
  <2>2. ClosedSettled' /\ VerdictStands'
    BY Zenon, <1>3 DEF ClosedSettled, VerdictStands
  <2>3. QueueStep(i)
    BY Zenon, <1>3, <2>0 DEF QueueStep, Queue!Proceed, Queue!Block, Ahead
  <2> QED BY <2>1, <2>2, <2>3
<1>4. ASSUME NEW i \in Ids, Memory!WakeReturns(i) PROVE WaitInv' /\ QueueStep(i)
  <2>1. /\ at[i] \notin {"idle", "done"} /\ Memory!Returns(i, status[i])
        /\ UNCHANGED <<status, closed, panicked, acks>>
    BY Zenon, <1>4 DEF Memory!WakeReturns
  <2> QED BY Zenon, <1>3, <2>1
<1>5. ASSUME NEW i \in Ids, Memory!TimeoutReturns(i) PROVE WaitInv' /\ QueueStep(i)
  <2>1. CASE status[i] = "pending"
    <3>1. /\ at[i] = "marking" /\ acks[i] = {} /\ status' = [status EXCEPT ![i] = "timeout"]
          /\ Memory!CloseWake(i) /\ Memory!Returns(i, status'[i]) /\ UNCHANGED acks
      BY <1>5, <2>1 DEF Memory!TimeoutReturns, VerdictStands, WaitTypes, Verdicts
    <3>2. ~panicked' /\ closed' = closed \cup {i}
      BY Zenon, <2>1, <3>1, ClosesOnce
    <3>3. at' = [at EXCEPT ![i] = "done"] /\ outcome' = [outcome EXCEPT ![i] = "blocked"]
      BY Zenon, <3>1 DEF Memory!Returns, WaitTypes
    <3>4. WaitTypes' /\ Ahead'
      BY Zenon, <3>1, <3>3 DEF WaitTypes, Ahead, HoldStatuses, Final
    <3>5. ClosedSettled'
      BY Zenon, <3>1, <3>2 DEF WaitTypes, ClosedSettled, Final
    <3>6. VerdictStands'
      BY Zenon, <3>1 DEF WaitTypes, VerdictStands
    <3>7. QueueStep(i)
      BY Zenon, <2>1, <3>1, <3>3 DEF QueueStep, Queue!Block, Ahead
    <3> QED BY <3>4, <3>5, <3>6, <3>7
  <2>2. CASE status[i] # "pending"
    <3>1. /\ at[i] \notin {"idle", "done"} /\ Memory!Returns(i, status[i])
          /\ UNCHANGED <<status, closed, panicked, acks>>
      BY Zenon, <1>5, <2>2 DEF Memory!TimeoutReturns
    <3> QED BY Zenon, <1>3, <3>1
  <2> QED BY Zenon, <2>1, <2>2
<1>6. ASSUME NEW i \in Ids, NEW v, Memory!Decide(i, v) PROVE WaitInv' /\ QueueStep(i)
  <2>1. /\ v \in Verdicts /\ status[i] = "pending" /\ acks[i] = {}
        /\ status' = [status EXCEPT ![i] = v] /\ acks' = [acks EXCEPT ![i] = @ \cup {v}]
        /\ Memory!CloseWake(i) /\ UNCHANGED <<at, outcome>>
    BY <1>6 DEF Memory!Decide, Memory!Verdicts, Verdicts, VerdictStands, WaitTypes
  <2>2. ~panicked' /\ closed' = closed \cup {i}
    BY Zenon, <2>1, ClosesOnce
  <2>3. WaitTypes' /\ Ahead'
    BY Zenon, <2>1 DEF WaitTypes, Ahead, HoldStatuses, Final, Verdicts
  <2>4. ClosedSettled'
    BY Zenon, <2>1, <2>2 DEF WaitTypes, ClosedSettled, Final, Verdicts
  <2>5. VerdictStands'
    BY Zenon, <2>1 DEF WaitTypes, VerdictStands
  <2>6. QueueStep(i)
    BY Zenon, <2>1 DEF QueueStep, Queue!Settle, Final, Verdicts
  <2> QED BY <2>3, <2>4, <2>5, <2>6
<1>7. ASSUME NEW i \in Ids, Memory!Expire(i) PROVE WaitInv' /\ UNCHANGED <<status, outcome>>
  BY Zenon, <1>7 DEF Memory!Expire, WaitTypes, Ahead, ClosedSettled, VerdictStands
<1> QED BY Zenon, <1>1, <1>2, <1>4, <1>5, <1>6, <1>7 DEF Memory!Next, Memory!WaitStep

-----------------------------------------------------------------------------
\* What storage does to the arguments does not change what they mean.
LEMMA StoredMeansTheSame ==
  ASSUME NEW c \in Resume!Requests
  PROVE  Resume!Meaning([c EXCEPT !.args = Resume!StoredArgs(c.args)]) = Resume!Meaning(c)
  BY DEF Resume!Requests, Resume!Meaning, Resume!StoredArgs

\* A row that is not NoRow has a status of its own.
LEMMA RowOrNone ==
  ASSUME NEW row \in {Resume!NoRow} \cup Resume!Rows
  PROVE  /\ row.status # "none" => row \in Resume!Rows
         /\ row = Resume!NoRow => row.status = "none"
         /\ row \in Resume!Rows => row # Resume!NoRow
  BY DEF Resume!NoRow, Resume!Rows

\* A step of a deployment that resumes held calls keeps ResumeInv.
LEMMA ResumeKeeps ==
  ASSUME ResumeInv, Resume!Next
  PROVE  ResumeInv'
<1> USE DEF ResumeInv, RunsWhatWasApproved, Resume!RunsWhatWasApproved
<1>1. ASSUME NEW i \in HeldIds, NEW c \in Resume!Requests, Resume!Hold(i, c)
      PROVE  ResumeInv'
  <2>1. PICK row : /\ row = [status |-> "pending",
                             call |-> [c EXCEPT !.args = Resume!StoredArgs(c.args)]]
                   /\ rows' = [rows EXCEPT ![i] = row]
    BY Zenon, <1>1 DEF Resume!Hold
  <2>2. /\ row \in Resume!Rows
        /\ row.call = [c EXCEPT !.args = Resume!StoredArgs(c.args)]
    BY <2>1 DEF Resume!Rows, Resume!Requests, Resume!StoredArgs, Resume!ArgMaps
  <2>3. /\ rows[i].status = "none" /\ escalated' = [escalated EXCEPT ![i] = {c}]
        /\ UNCHANGED <<backend, ran>>
    BY <1>1, RowOrNone DEF Resume!Hold
  <2>4. /\ rows' \in [HeldIds -> {Resume!NoRow} \cup Resume!Rows]
        /\ escalated' \in [HeldIds -> SUBSET Resume!Requests]
        /\ ran' \subseteq HeldIds \X Resume!Requests
    BY <2>1, <2>2, <2>3
  <2>5. \A j \in HeldIds : rows'[j] # Resume!NoRow =>
          \E d \in escalated'[j] : rows'[j].call = [d EXCEPT !.args = Resume!StoredArgs(d.args)']
    BY <2>1, <2>2, <2>3 DEF Resume!StoredArgs
  <2>6. \A x \in ran : x[1] \in HeldIds /\ x[1] # i
    BY <2>3
  <2>7. RunsWhatWasApproved'
    BY <2>1, <2>3, <2>6 DEF Resume!Meaning
  <2> QED BY Zenon, <2>4, <2>5, <2>7
<1>2. ASSUME NEW i \in HeldIds, NEW v, Resume!Decide(i, v) PROVE ResumeInv'
  <2>1. /\ v \in {"approved", "rejected"} /\ rows[i].status = "pending"
        /\ rows' = [rows EXCEPT ![i] = [rows[i] EXCEPT !.status = v]]
        /\ UNCHANGED <<backend, escalated, ran>>
    BY <1>2 DEF Resume!Decide
  <2>2. rows[i] \in Resume!Rows /\ rows[i] # Resume!NoRow
    BY <2>1, RowOrNone
  <2>3. PICK row : /\ row = [rows[i] EXCEPT !.status = v]
                   /\ rows' = [rows EXCEPT ![i] = row]
    BY Zenon, <2>1
  <2>4. row \in Resume!Rows /\ row.call = rows[i].call
    BY Zenon, <2>1, <2>2, <2>3 DEF Resume!Rows
  <2>5. rows' \in [HeldIds -> {Resume!NoRow} \cup Resume!Rows]
    BY Zenon, <2>3, <2>4
  <2>6. \A j \in HeldIds : rows'[j] # Resume!NoRow =>
          \E d \in escalated'[j] : rows'[j].call = [d EXCEPT !.args = Resume!StoredArgs(d.args)']
    <3> TAKE j \in HeldIds
    <3> HAVE rows'[j] # Resume!NoRow
    <3>1. rows[j] # Resume!NoRow /\ rows'[j].call = rows[j].call
      BY <2>2, <2>3, <2>4
    <3>2. PICK d \in escalated[j] : rows[j].call = [d EXCEPT !.args = Resume!StoredArgs(d.args)]
      BY Zenon, <3>1
    <3>3. d \in escalated'[j] /\ Resume!StoredArgs(d.args)' = Resume!StoredArgs(d.args)
      BY Zenon, <2>1, <3>2 DEF Resume!StoredArgs
    <3> QED BY Zenon, <3>1, <3>2, <3>3
  <2>7. \A x \in ran : x[1] \in HeldIds /\ x[1] # i
    BY <2>1
  <2>8. RunsWhatWasApproved'
    BY Zenon, <2>1, <2>3, <2>7 DEF Resume!Meaning
  <2> QED BY Zenon, <2>1, <2>5, <2>6, <2>8
<1>3. ASSUME NEW i \in HeldIds, NEW c \in Resume!Requests, Resume!ResumeApproved(i, c)
      PROVE  ResumeInv'
  <2>1. /\ rows[i] # Resume!NoRow /\ rows[i].call = c /\ rows[i].status = "approved"
        /\ ran' = ran \cup {<<i, c>>} /\ UNCHANGED <<backend, rows, escalated>>
    BY Zenon, <1>3 DEF Resume!ResumeApproved, Resume!sameApprovalCall
  <2>2. PICK d \in escalated[i] : c = [d EXCEPT !.args = Resume!StoredArgs(d.args)]
    BY Zenon, <2>1
  <2>3. Resume!Meaning(d) = Resume!Meaning(c)
    BY <2>2, StoredMeansTheSame
  <2>4. RunsWhatWasApproved'
    <3>1. \A x \in ran : \E e \in escalated[x[1]] : Resume!Meaning(e) = Resume!Meaning(x[2])
      OBVIOUS
    <3>2. \A x \in ran : rows[x[1]].status = "approved"
      OBVIOUS
    <3>3. PICK y : y = <<i, c>>
      BY Zenon
    <3> y[1] = i /\ y[2] = c
      BY <3>3
    <3>4. \E e \in escalated[y[1]] : Resume!Meaning(e) = Resume!Meaning(y[2])
      BY <2>2, <2>3, <3>3
    <3>5. \A x \in ran' : /\ rows[x[1]].status = "approved"
                          /\ \E e \in escalated[x[1]] : Resume!Meaning(e) = Resume!Meaning(x[2])
      BY <2>1, <3>1, <3>2, <3>3, <3>4
    <3> QED BY Zenon, <2>1, <3>5 DEF Resume!Meaning
  <2>5. ran' \subseteq HeldIds \X Resume!Requests
    BY <2>1
  <2> QED BY Zenon, <2>1, <2>4, <2>5 DEF Resume!StoredArgs
<1>4. ASSUME UNCHANGED <<backend, rows, escalated, ran>> PROVE ResumeInv'
  BY <1>4 DEF Resume!StoredArgs, Resume!Meaning
<1>5. ASSUME NEW i \in HeldIds, NEW c \in Resume!Requests,
             Resume!ResumeMismatch(i, c) \/ Resume!ResumeAnswered(i, c)
      PROVE  UNCHANGED <<backend, rows, escalated, ran>>
  BY <1>5 DEF Resume!ResumeMismatch, Resume!ResumeAnswered, Resume!vars
<1> QED BY Zenon, <1>1, <1>2, <1>3, <1>4, <1>5 DEF Resume!Next

-----------------------------------------------------------------------------
\* A step of any deployment.
LEMMA ModesKeep ==
  ASSUME WaitInv, ResumeInv, [ModesNext]_modesVars
  PROVE  WaitInv' /\ ResumeInv' /\ [Queue!Next]_(Queue!vars)
<1>0. ASSUME UNCHANGED resumeVars PROVE ResumeInv'
  BY <1>0 DEF resumeVars, ResumeInv, RunsWhatWasApproved, Resume!RunsWhatWasApproved,
              Resume!StoredArgs, Resume!Meaning
<1>1. ASSUME UNCHANGED <<queueVars, memoryVars, mode>>
      PROVE  WaitInv' /\ UNCHANGED <<status, outcome>>
  BY Zenon, <1>1 DEF queueVars, memoryVars, WaitInv, WaitTypes, Ahead, ClosedSettled, VerdictStands
<1>2. ASSUME UNCHANGED <<status, outcome>> \/ \E i \in Ids : QueueStep(i)
      PROVE  [Queue!Next]_(Queue!vars)
  BY <1>2 DEF QueueStep, Queue!Next, Queue!vars, Queue!Final, Final
<1>3. CASE InPostgres(QueueNext)
  <2>1. QueueNext /\ UNCHANGED <<mode, memoryVars>> /\ UNCHANGED resumeVars
    BY <1>3 DEF InPostgres, Uses
  <2> QED BY <1>0, <1>2, <2>1, PostgresKeeps
<1>4. CASE InMemory(Memory!Next)
  <2>1. Memory!Next /\ UNCHANGED mode /\ UNCHANGED resumeVars
    BY <1>4 DEF InMemory, Uses
  <2> QED BY Zenon, <1>0, <1>2, <2>1, MemoryKeeps
<1>5. CASE Uses("async", Resume!Next, <<queueVars, memoryVars>>)
  <2>1. Resume!Next /\ UNCHANGED <<queueVars, memoryVars, mode>>
    BY <1>5 DEF Uses
  <2> QED BY Zenon, <1>1, <1>2, <2>1, ResumeKeeps
<1>6. CASE UNCHANGED modesVars
  <2>1. UNCHANGED <<queueVars, memoryVars, mode>> /\ UNCHANGED resumeVars
    BY <1>6 DEF modesVars
  <2> QED BY Zenon, <1>0, <1>1, <1>2, <2>1
<1> QED BY Zenon, <1>3, <1>4, <1>5, <1>6 DEF ModesNext

\* ... and its start.
LEMMA ModesStart ==
  ASSUME ModesInit
  PROVE  WaitInv /\ ResumeInv /\ Queue!Init
<1>1. WaitTypes /\ Ahead
  BY Zenon DEF ModesInit, QueueInit, WaitTypes, Ahead, HoldStatuses
<1>2. ClosedSettled /\ VerdictStands
  BY Zenon DEF ModesInit, QueueInit, Memory!Init, ClosedSettled, VerdictStands
<1>3. ResumeInv
  BY DEF ModesInit, Resume!Init, ResumeInv, RunsWhatWasApproved, Resume!RunsWhatWasApproved
<1>4. Queue!Init
  BY Zenon DEF ModesInit, QueueInit, Queue!Init
<1> QED BY <1>1, <1>2, <1>3, <1>4 DEF WaitInv

\* The verdict an operator was told is recorded stands, whichever queue the
\* gateway runs with, however many replicas wait, decide, crash and come back;
\* and the in-process queue never closes a wake channel twice.
THEOREM VerdictAlwaysStands == ModesSpec => []AckedVerdictStands
<1>1. WaitInv => AckedVerdictStands
  BY DEF WaitInv, ClosedSettled, AckedVerdictStands
<1> QED BY <1>1, ModesStart, ModesKeep, PTL DEF ModesSpec

\* Both queues implement the Store contract: a row is settled once, and a call
\* goes on only if its row was settled as approved.
THEOREM QueuesImplementContract == ModesSpec => ImplementsQueue
  BY ModesStart, ModesKeep, PTL DEF ModesSpec, ImplementsQueue, Queue!Spec

\* A retry that resumeApproval lets through means what was escalated under
\* its id, and that row was approved, with either store.
THEOREM ResumesOnlyApproved == ModesSpec => []RunsWhatWasApproved
<1>1. ResumeInv => RunsWhatWasApproved
  BY DEF ResumeInv
<1> QED BY <1>1, ModesStart, ModesKeep, PTL DEF ModesSpec

-----------------------------------------------------------------------------
(* The IntentGrant endpoint. *)

\* What an outcome says of its call, which is over.
TrueOutcome(o) ==
  /\ o.call \in IGCalls /\ igStep[o.call] = "done"
  /\ o.status = "BLOCKED" => decided[o.call] = "DENY" /\ atTool[o.call] = "none"
  /\ o.status = "EXECUTED" /\ o.http < 300 => atTool[o.call] = "ran"
  /\ o.status = "FAILED" => decided[o.call] = "ALLOW"
  /\ igReply[o.call] # "authorization unavailable"

IGTypes ==
  /\ igStep \in [IGCalls -> {"idle", "authorize", "forward", "done"}]
  /\ DOMAIN igReply = IGCalls /\ DOMAIN emitting = IGCalls
  /\ DOMAIN decided = IGCalls /\ DOMAIN atTool = IGCalls

\* The tool server sees a call only after an ALLOW.
AllowedFirst ==
  \A c \in IGCalls :
    /\ Consequential(c) /\ (igStep[c] = "forward" \/ atTool[c] # "none") => decided[c] = "ALLOW"
    /\ igStep[c] \in {"idle", "authorize"} => atTool[c] = "none"

\* An outcome on its way is true and is the first of its call.
EmissionsTrue ==
  \A c \in IGCalls : emitting[c] # <<>> =>
    /\ emitting[c][1].call = c /\ TrueOutcome(emitting[c][1])
    /\ \A o \in outcomes : o.call # c

OutcomesTrue ==
  \A o \in outcomes : TrueOutcome(o) /\ \A p \in outcomes : p.call = o.call => p = o

IGInv == IGTypes /\ AllowedFirst /\ EmissionsTrue /\ OutcomesTrue

\* A step of a call that is not over, and records no outcome, falsifies none.
LEMMA OutcomesStay ==
  ASSUME IGInv, NEW c \in IGCalls, igStep[c] # "done",
         outcomes' = outcomes, igReq' = igReq,
         \A d \in IGCalls \ {c} : /\ igStep'[d] = igStep[d] /\ igReply'[d] = igReply[d]
                                  /\ decided'[d] = decided[d] /\ atTool'[d] = atTool[d]
                                  /\ emitting'[d] = emitting[d],
         emitting'[c] # <<>> => emitting'[c][1].call = c /\ TrueOutcome(emitting[c][1])'
  PROVE  EmissionsTrue' /\ OutcomesTrue'
<1> USE DEF IGInv, IGTypes
<1>1. ASSUME NEW o, TrueOutcome(o) PROVE o.call # c /\ TrueOutcome(o)'
  BY Zenon, <1>1 DEF TrueOutcome
<1>2. OutcomesTrue'
  BY Zenon, <1>1 DEF OutcomesTrue
<1>3. ASSUME NEW d \in IGCalls, emitting'[d] # <<>>
      PROVE  /\ emitting'[d][1].call = d /\ TrueOutcome(emitting[d][1])'
             /\ \A o \in outcomes' : o.call # d
  <2>1. CASE d = c
    BY Zenon, <1>1, <1>3, <2>1 DEF OutcomesTrue
  <2>2. CASE d # c
    <3>1. PICK e : e = emitting[d][1] /\ e = emitting'[d][1]
      BY Zenon, <2>2
    <3>2. TrueOutcome(e) /\ e.call = d /\ \A o \in outcomes : o.call # d
      BY <1>3, <2>2, <3>1 DEF EmissionsTrue
    <3>3. TrueOutcome(e)'
      BY Zenon, <1>1, <3>2
    <3> QED BY Zenon, <3>1, <3>2, <3>3
  <2> QED BY Zenon, <2>1, <2>2
<1> QED BY Zenon, <1>2, <1>3 DEF EmissionsTrue

LEMMA IGStep == IGInv /\ [IGNext]_igVars => IGInv'
<1> SUFFICES ASSUME IGInv, [IGNext]_igVars PROVE IGInv'
  OBVIOUS
<1> USE DEF IGInv, IGTypes
<1>1. ASSUME NEW c \in IGCalls, Receive(c) PROVE IGInv'
  <2>1. IGTypes' /\ AllowedFirst'
    BY Zenon, <1>1 DEF Receive, AllowedFirst, Consequential
  <2>2. EmissionsTrue' /\ OutcomesTrue'
    <3>1. emitting'[c] = <<>>
      BY Zenon, <1>1 DEF Receive, EmissionsTrue, TrueOutcome
    <3> QED BY Zenon, <1>1, <3>1, OutcomesStay DEF Receive
  <2> QED BY Zenon, <2>1, <2>2
<1>2. ASSUME NEW c \in IGCalls, Observe(c) PROVE IGInv'
  <2>1. UNCHANGED <<igReq, igStep, igReply, decided, atTool, emitting, outcomes>>
    BY Zenon, <1>2 DEF Observe
  <2>2. IGTypes' /\ AllowedFirst'
    BY Zenon, <2>1 DEF AllowedFirst, Consequential
  <2>3. \A o : TrueOutcome(o) => TrueOutcome(o)'
    BY Zenon, <2>1 DEF TrueOutcome
  <2>4. EmissionsTrue' /\ OutcomesTrue'
    BY <2>1, <2>3, Zenon DEF EmissionsTrue, OutcomesTrue
  <2> QED BY Zenon, <2>2, <2>4
<1>3. ASSUME NEW c \in IGCalls, PlaneDecides(c) PROVE IGInv'
  <2>1. IGTypes' /\ AllowedFirst'
    BY <1>3 DEF PlaneDecides, AllowedFirst, Consequential
  <2>2. emitting'[c] = <<>>
    BY Zenon, <1>3 DEF PlaneDecides, EmissionsTrue, TrueOutcome
  <2>3. EmissionsTrue' /\ OutcomesTrue'
    BY Zenon, <1>3, <2>2, OutcomesStay DEF PlaneDecides
  <2> QED BY Zenon, <2>1, <2>3
<1>4. ASSUME NEW c \in IGCalls, AuthorizeReturns(c) PROVE IGInv'
  <2>1. PICK answer \in Authorize(c) : Answered(c, answer)
    BY Zenon, <1>4 DEF AuthorizeReturns
  <2>2. answer \in {"error", "ALLOW", "DENY"} /\ (answer # "error" => decided[c] = answer)
    BY Zenon, <2>1 DEF Authorize
  <2>3. IGTypes' /\ AllowedFirst'
    BY Zenon, <1>4, <2>1, <2>2 DEF AuthorizeReturns, Answered, AllowedFirst, Consequential
  <2>4. emitting'[c] # <<>> => emitting'[c][1].call = c /\ TrueOutcome(emitting[c][1])'
    <3>1. SUFFICES ASSUME emitting'[c] # <<>>
                   PROVE  emitting'[c][1].call = c /\ TrueOutcome(emitting[c][1])'
      BY Zenon
    <3>2. answer = "DENY" /\ emitting'[c][1] = [call |-> c, status |-> "BLOCKED", http |-> 0]
      BY Zenon, <2>1, <3>1 DEF Answered, Emitted
    <3>3. PICK e : e = emitting'[c][1]
      BY Zenon
    <3>4. igStep'[c] = "done" /\ igReply'[c] = "denied" /\ decided'[c] = "DENY" /\ atTool'[c] = "none"
      BY <1>4, <2>1, <2>2, <3>2 DEF AuthorizeReturns, Answered, AllowedFirst
    <3>5. e.call = c /\ e.status = "BLOCKED"
      BY <3>2, <3>3
    <3>6. TrueOutcome(e)'
      BY Zenon, <3>4, <3>5 DEF TrueOutcome
    <3> QED BY Zenon, <3>3, <3>5, <3>6
  <2>5. EmissionsTrue' /\ OutcomesTrue'
    BY Zenon, <1>4, <2>1, <2>4, OutcomesStay DEF AuthorizeReturns, Answered
  <2> QED BY Zenon, <2>3, <2>5
<1>5. ASSUME NEW c \in IGCalls, ToolReceives(c) PROVE IGInv'
  <2>1. IGTypes' /\ AllowedFirst'
    BY Zenon, <1>5 DEF ToolReceives, AllowedFirst, Consequential
  <2>2. emitting'[c] = <<>>
    BY Zenon, <1>5 DEF ToolReceives, EmissionsTrue, TrueOutcome
  <2>3. EmissionsTrue' /\ OutcomesTrue'
    BY Zenon, <1>5, <2>2, OutcomesStay DEF ToolReceives
  <2> QED BY Zenon, <2>1, <2>3
<1>6. ASSUME NEW c \in IGCalls, ToolRuns(c) PROVE IGInv'
  <2>1. IGTypes' /\ AllowedFirst'
    BY Zenon, <1>6 DEF ToolRuns, AllowedFirst, Consequential
  <2>2. ASSUME NEW o, TrueOutcome(o) PROVE TrueOutcome(o)'
    BY Zenon, <1>6, <2>2 DEF ToolRuns, TrueOutcome
  <2>3. OutcomesTrue'
    BY Zenon, <1>6, <2>2 DEF ToolRuns, OutcomesTrue
  <2>4. ASSUME NEW d \in IGCalls, emitting'[d] # <<>>
        PROVE  /\ emitting'[d][1].call = d /\ TrueOutcome(emitting[d][1])'
               /\ \A o \in outcomes' : o.call # d
    <3>1. PICK e : e = emitting[d][1] /\ e = emitting'[d][1]
      BY Zenon, <1>6 DEF ToolRuns
    <3> QED BY Zenon, <1>6, <2>2, <2>4, <3>1 DEF ToolRuns, EmissionsTrue
  <2>5. EmissionsTrue'
    BY Zenon, <2>4 DEF EmissionsTrue
  <2> QED BY Zenon, <2>1, <2>3, <2>5
<1>7. ASSUME NEW c \in IGCalls, ForwardReturns(c) PROVE IGInv'
  <2>1. PICK r \in IF igUpstream THEN Forward(c) ELSE {[ok |-> FALSE, kind |-> "no_upstream", http |-> 0]} :
          /\ igReply' = [igReply EXCEPT ![c] = IF r.ok THEN "result" ELSE r.kind]
          /\ emitting' = [emitting EXCEPT ![c] =
               IF ~Consequential(c) THEN <<>>
               ELSE Emitted(c, [call |-> c, status |-> IF r.ok THEN "EXECUTED" ELSE "FAILED",
                                http |-> r.http])]
    BY Zenon, <1>7 DEF ForwardReturns
  <2>2. /\ r.ok /\ r.http < 300 => atTool[c] = "ran"
        /\ r.kind # "authorization unavailable"
    <3>1. \/ r \in {[ok |-> FALSE, kind |-> k, http |-> 0] : k \in {"transport", "timeout"}}
          \/ r \in {[ok |-> TRUE, kind |-> "none", http |-> 200],
                   [ok |-> FALSE, kind |-> "transport", http |-> 200]} /\ atTool[c] = "ran"
          \/ r \in {[ok |-> FALSE, kind |-> "upstream_http", http |-> 500],
                   [ok |-> TRUE, kind |-> "none", http |-> 304]}
          \/ r = [ok |-> FALSE, kind |-> "no_upstream", http |-> 0]
      <4>1. CASE igUpstream
        <5>1. r \in Forward(c)
          BY Zenon, <2>1, <4>1
        <5> QED BY Zenon, <5>1 DEF Forward
      <4>2. CASE ~igUpstream
        BY <2>1, <4>2, Zenon
      <4> QED BY <4>1, <4>2
    <3>2. \/ ~r.ok /\ r.kind \in {"transport", "timeout", "upstream_http", "no_upstream"}
          \/ r.ok /\ r.kind = "none" /\ r.http = 200 /\ atTool[c] = "ran"
          \/ r.ok /\ r.kind = "none" /\ r.http = 304
      BY <3>1
    <3>3. ~(304 < 300)
      OBVIOUS
    <3> QED BY <3>2, <3>3, Zenon
  <2>3. IGTypes' /\ AllowedFirst'
    BY Zenon, <1>7 DEF ForwardReturns, AllowedFirst, Consequential
  <2>4. emitting'[c] # <<>> => emitting'[c][1].call = c /\ TrueOutcome(emitting[c][1])'
    <3>1. SUFFICES ASSUME emitting'[c] # <<>>
                   PROVE  emitting'[c][1].call = c /\ TrueOutcome(emitting[c][1])'
      BY Zenon
    <3>2. PICK e : e = emitting'[c][1]
      BY Zenon
    <3>3. /\ Consequential(c)
          /\ e = [call |-> c, status |-> IF r.ok THEN "EXECUTED" ELSE "FAILED", http |-> r.http]
      BY Zenon, <2>1, <3>1, <3>2 DEF Emitted
    <3>4. /\ igStep'[c] = "done" /\ igReply'[c] # "authorization unavailable"
          /\ decided'[c] = "ALLOW" /\ atTool'[c] = atTool[c]
      BY Zenon, <1>7, <2>1, <2>2, <3>3 DEF ForwardReturns, AllowedFirst
    <3>5. TrueOutcome(e)'
      BY Zenon, <2>2, <3>3, <3>4 DEF TrueOutcome
    <3> QED BY <3>2, <3>3, <3>5
  <2>5. EmissionsTrue' /\ OutcomesTrue'
    BY Zenon, <1>7, <2>1, <2>4, OutcomesStay DEF ForwardReturns
  <2> QED BY Zenon, <2>3, <2>5
<1>8. ASSUME NEW c \in IGCalls, EmitOutcome(c) PROVE IGInv'
  <2>1. PICK e : e = emitting[c][1]
    BY Zenon
  <2>2. e.call = c /\ TrueOutcome(e) /\ \A o \in outcomes : o.call # c
    BY Zenon, <1>8, <2>1 DEF EmitOutcome, EmissionsTrue
  <2>3. ASSUME NEW o PROVE TrueOutcome(o)' <=> TrueOutcome(o)
    BY <1>8 DEF EmitOutcome, TrueOutcome
  <2>4. OutcomesTrue'
    BY Zenon, <1>8, <2>1, <2>2, <2>3 DEF EmitOutcome, OutcomesTrue
  <2>5. ASSUME NEW d \in IGCalls, emitting'[d] # <<>>
        PROVE  /\ emitting'[d][1].call = d /\ TrueOutcome(emitting[d][1])'
               /\ \A o \in outcomes' : o.call # d
    <3>1. d # c
      BY Zenon, <1>8, <2>5 DEF EmitOutcome
    <3>2. PICK f : f = emitting[d][1] /\ f = emitting'[d][1]
      BY Zenon, <1>8, <3>1 DEF EmitOutcome
    <3> QED BY Zenon, <1>8, <2>1, <2>2, <2>3, <2>5, <3>1, <3>2 DEF EmitOutcome, EmissionsTrue
  <2>6. IGTypes' /\ AllowedFirst' /\ EmissionsTrue'
    BY Zenon, <1>8, <2>5 DEF EmitOutcome, AllowedFirst, Consequential, EmissionsTrue
  <2> QED BY Zenon, <2>4, <2>6
<1>9. ASSUME UNCHANGED igVars PROVE IGInv'
  BY Zenon, <1>9 DEF igVars, AllowedFirst, Consequential, EmissionsTrue, OutcomesTrue, TrueOutcome
<1> QED BY Zenon, <1>1, <1>2, <1>3, <1>4, <1>5, <1>6, <1>7, <1>8, <1>9 DEF IGNext

\* The IntentGrant handler forwards a tools/call only after an ALLOW, and the
\* outcomes it posts tell what happened, however late the control plane and
\* the tool server act and whatever answers are lost.
THEOREM OutcomesTrueAlways == IGSpec => []OutcomesTellTheTruth
<1>1. IGInit => IGInv
  BY Zenon DEF IGInit, IGInv, IGTypes, AllowedFirst, EmissionsTrue, OutcomesTrue
<1>2. IGInv /\ [IGNext]_igVars => IGInv'
  BY IGStep
<1>3. IGInv => OutcomesTellTheTruth
  BY Zenon DEF IGInv, AllowedFirst, OutcomesTrue, TrueOutcome, OutcomesTellTheTruth
<1> QED BY <1>1, <1>2, <1>3, PTL DEF IGSpec

-----------------------------------------------------------------------------
(* The read side of the admin API. *)

AuditRows == [n : Nat, ts : EventTimes, tenant : Tenants]

\* The rows an administrator may be shown.
Seen(admin) == {e \in AuditRows : admin # None => e.tenant = admin}

StoreTypes == events \in Seq(AuditRows) /\ IsFiniteSet(Range(events)) /\ inserted \in Nat

\* What a paging request has collected was found under its administrator's
\* tenant.
ReaderInv ==
  /\ reader = [op |-> reader.op, admin |-> reader.admin, filter |-> reader.filter,
               limit |-> reader.limit, offset |-> reader.offset, got |-> reader.got,
               present |-> reader.present, cut |-> reader.cut, pc |-> reader.pc]
  /\ reader.limit \in Int /\ reader.offset \in Nat
  /\ reader.admin # None => reader.filter.tenant = reader.admin
  /\ reader.got \in Seq(Seen(reader.admin))

DecidingInv == deciding.admin # "idle" => OwnRow(deciding.admin, deciding.tenant)

ReadInv == StoreTypes /\ ReaderInv /\ DecidingInv /\ AnswersWithinTenant

\* A query scoped to an administrator finds rows of their tenant.
LEMMA MatchingSeen ==
  ASSUME StoreTypes, NEW f, NEW admin, admin # None => f.tenant = admin
  PROVE  Matching(f) \subseteq Seen(admin)
<1>1. \A e \in Range(events) : e \in AuditRows
  BY DEF Range, StoreTypes
<1> QED BY <1>1 DEF Matching, matchesFilter, Seen

LEMMA BeginStep ==
  ASSUME ReadInv, NEW op, NEW tok, NEW asked, NEW from, NEW limit \in Nat,
         Begin(op, tok, asked, from, limit)
  PROVE  ReadInv'
<1>0. PICK admin \in Auth(tok) :
        LET f == [tenant |-> Scope(admin, asked), from |-> from, to |-> 0] IN
        reader' = [IdleReader EXCEPT !.op = op, !.admin = admin, !.filter = f, !.limit = limit,
                                     !.present = IF op = "export" THEN Matching(f) ELSE {},
                                     !.pc = "page"]
  BY Zenon DEF Begin
<1>1. PICK f, seen :
        /\ f = [tenant |-> Scope(admin, asked), from |-> from, to |-> 0]
        /\ reader' = [IdleReader EXCEPT !.op = op, !.admin = admin, !.filter = f, !.limit = limit,
                                        !.present = seen, !.pc = "page"]
  BY Zenon, <1>0
<1>2. UNCHANGED <<events, inserted, deciding, reply>>
  BY DEF Begin, rowVars
<1>3. reader' = [op |-> op, admin |-> admin, filter |-> f, limit |-> limit, offset |-> 0,
                 got |-> <<>>, present |-> seen, cut |-> FALSE, pc |-> "page"]
  BY Zenon, <1>1 DEF IdleReader
<1>4. admin # None => f.tenant = admin
  BY <1>1 DEF Scope
<1>5. ReaderInv'
  BY <1>3, <1>4 DEF ReaderInv
<1> QED BY Zenon, <1>2, <1>5 DEF ReadInv, StoreTypes, DecidingInv, AnswersWithinTenant

\* Answers that come from one look at a row.
LEMMA AnswerStep ==
  ASSUME ReadInv, UNCHANGED <<events, inserted, reader, deciding>>,
         NEW op, NEW admin, NEW tenants, Answer(op, admin, tenants),
         admin # None => tenants \subseteq {admin}
  PROVE  ReadInv'
<1>1. AnswersWithinTenant'
  BY DEF Answer, AnswersWithinTenant
<1> QED BY Zenon, <1>1 DEF ReadInv, StoreTypes, ReaderInv, DecidingInv

LEMMA RowStep ==
  ASSUME ReadInv,
         NEW tok, NEW asked, NEW wanted, NEW id,
         AuditVerify(tok, asked) \/ TenantsList(tok) \/ Integrations(tok)
           \/ ApprovalsList(tok, wanted) \/ PayloadRead(tok, asked, id)
  PROVE  ReadInv'
<1>0. UNCHANGED <<events, inserted, reader, deciding>>
  BY Zenon DEF AuditVerify, TenantsList, Integrations, ApprovalsList, PayloadRead, pageVars, rowVars
<1>1. CASE AuditVerify(tok, asked)
  BY Zenon, <1>0, <1>1, AnswerStep DEF AuditVerify, Scope
<1>2. CASE TenantsList(tok)
  BY Zenon, <1>0, <1>2, AnswerStep DEF TenantsList
<1>3. CASE Integrations(tok)
  BY Zenon, <1>0, <1>3, AnswerStep DEF Integrations
<1>4. CASE ApprovalsList(tok, wanted)
  BY Zenon, <1>0, <1>4, AnswerStep DEF ApprovalsList
<1>5. CASE PayloadRead(tok, asked, id)
  BY Zenon, <1>0, <1>5, AnswerStep DEF PayloadRead, Get, TenantsOf, Scope
<1> QED BY Zenon, <1>1, <1>2, <1>3, <1>4, <1>5

LEMMA DecideStep ==
  ASSUME ReadInv,
         DecideRow \/ \E tok, t, verdict : DecideLookup(tok, t, verdict)
  PROVE  ReadInv'
<1>0. UNCHANGED <<events, inserted, reader>>
  BY Zenon DEF DecideRow, DecideLookup, pageVars
<1>1. CASE DecideRow
  <2>1. DecidingInv'
    BY Zenon, <1>1 DEF DecideRow, DecidingInv, NoDecision
  <2>2. AnswersWithinTenant'
    BY Zenon, <1>1 DEF DecideRow, Answer, ReadInv, DecidingInv, OwnRow, AnswersWithinTenant
  <2> QED BY Zenon, <1>0, <2>1, <2>2 DEF ReadInv, StoreTypes, ReaderInv
<1>2. CASE \E tok, t, verdict : DecideLookup(tok, t, verdict)
  <2>1. DecidingInv'
    BY <1>2 DEF DecideLookup, DecidingInv, OwnRow
  <2>2. UNCHANGED reply
    BY Zenon, <1>2 DEF DecideLookup
  <2> QED BY Zenon, <1>0, <2>1, <2>2 DEF ReadInv, StoreTypes, ReaderInv, AnswersWithinTenant
<1> QED BY Zenon, <1>1, <1>2

INSTANCE FiniteSetTheorems

LEMMA ReadStart == AdminInit => ReadInv
<1> SUFFICES ASSUME AdminInit PROVE ReadInv
  OBVIOUS
<1>1. Range(events) = {}
  BY DEF AdminInit, Range
<1>2. StoreTypes
  BY <1>1, FS_EmptySet DEF AdminInit, StoreTypes
<1>3. ReaderInv
  BY DEF AdminInit, ReaderInv, IdleReader
<1>4. DecidingInv /\ AnswersWithinTenant
  BY DEF AdminInit, DecidingInv, NoDecision, NoReply, AnswersWithinTenant
<1> QED BY <1>2, <1>3, <1>4 DEF ReadInv

LEMMA InsertStep ==
  ASSUME ReadInv, NEW ts \in EventTimes, NEW tenant \in Tenants, Insert(ts, tenant)
  PROVE  ReadInv'
<1>1. PICK e, old : /\ e = [n |-> inserted + 1, ts |-> ts, tenant |-> tenant]
                    /\ old = (IF auditKind = "memory" /\ Len(events) = MemoryCapacity
                              THEN Tail(events) ELSE events)
  BY Zenon
<1>2. inserted' = inserted + 1 /\ events' = Append(old, e) /\ UNCHANGED <<reader, deciding, reply>>
  BY Zenon, <1>1 DEF Insert, rowVars
<1>3. e \in AuditRows
  BY <1>1 DEF ReadInv, StoreTypes, AuditRows
<1>4. old \in Seq(AuditRows) /\ Range(old) \subseteq Range(events)
  <2>1. events \in Seq(AuditRows)
    BY Zenon DEF ReadInv, StoreTypes
  <2>2. CASE old = events
    BY <2>1, <2>2
  <2>3. CASE old = Tail(events) /\ events # <<>>
    BY <2>1, <2>3 DEF Range
  <2>4. CASE old = Tail(events) /\ events = <<>>
    BY <2>1, <2>4 DEF Range
  <2> QED BY Zenon, <1>1, <2>2, <2>3, <2>4
<1>5. events' \in Seq(AuditRows) /\ Range(events)' = Range(old) \cup {e}
  BY <1>2, <1>3, <1>4 DEF Range
<1>6. IsFiniteSet(Range(events)')
  BY Zenon, <1>4, <1>5, FS_Subset, FS_AddElement DEF ReadInv, StoreTypes
<1>7. StoreTypes'
  BY <1>2, <1>5, <1>6 DEF ReadInv, StoreTypes
<1> QED BY Zenon, <1>2, <1>7 DEF ReadInv, ReaderInv, DecidingInv, AnswersWithinTenant

\* A page holds rows that match.
LEMMA PageRows ==
  ASSUME StoreTypes, NEW f, NEW offset \in Nat, NEW limit \in Int,
         NEW page \in Query(f, offset, limit)
  PROVE  page \in Seq(Matching(f))
<1>1. PICK q \in Newest(f) : page = Page(q, offset, limit)
  BY DEF Query
<1>2. PICK N, M : N = Cardinality(M) /\ M = Matching(f)
  OBVIOUS
<1>3. N \in Nat
  <2>1. M \subseteq Range(events)
    BY Zenon, <1>2 DEF Matching
  <2>2. IsFiniteSet(M)
    BY <2>1, FS_Subset DEF StoreTypes
  <2> QED BY <1>2, <2>2, FS_CardinalityType
<1>4. q \in [1..N -> M]
  <2>1. q \in Injection(1..Cardinality(M), M)
    BY Zenon, <1>1, <1>2 DEF Newest, Count
  <2>2. q \in [1..Cardinality(M) -> M]
    BY Zenon, <2>1 DEF Injection
  <2> QED BY Zenon, <1>2, <2>2
<1>5. Len(q) = N
  BY <1>3, <1>4
<1>6. PICK m, n : m = offset + 1 /\ n = IF offset + limit > Len(q) THEN Len(q) ELSE offset + limit
  BY Zenon
<1>7. page = SubSeq(q, m, n)
  BY Zenon, <1>1, <1>6 DEF Page
<1>8. m \in Int /\ n \in Int /\ m >= 1 /\ n <= N
  BY <1>3, <1>5, <1>6
<1>9. \A i \in m..n : q[i] \in M
  BY <1>3, <1>4, <1>8
<1>10. SubSeq(q, m, n) \in Seq(M)
  BY <1>8, <1>9
<1> QED BY Zenon, <1>2, <1>7, <1>10

LEMMA OneQueryStep ==
  ASSUME ReadInv, NEW op, NEW tok, NEW asked, NEW limit \in Int, NEW wanted,
         OneQuery(op, tok, asked, limit, wanted)
  PROVE  ReadInv'
<1>1. PICK admin, f, page :
        /\ f = [tenant |-> Scope(admin, asked), from |-> 0, to |-> 0] /\ page \in Query(f, 0, limit)
        /\ Answer(op, admin, TenantsOf({e \in Range(page) : e.n \in wanted}))
  BY Zenon DEF OneQuery
<1>2. UNCHANGED <<events, inserted, reader, deciding>>
  BY DEF OneQuery, pageVars, rowVars
<1>3. page \in Seq(Seen(admin))
  <2>1. page \in Seq(Matching(f))
    BY Zenon, <1>1, PageRows DEF ReadInv
  <2>2. Matching(f) \subseteq Seen(admin)
    BY <1>1, MatchingSeen DEF ReadInv, Scope
  <2> QED BY <2>1, <2>2
<1>4. admin # None => TenantsOf({e \in Range(page) : e.n \in wanted}) \subseteq {admin}
  BY <1>3 DEF TenantsOf, Range, Seen
<1>5. AnswersWithinTenant'
  BY Zenon, <1>1, <1>4 DEF Answer, AnswersWithinTenant
<1> QED BY Zenon, <1>2, <1>5 DEF ReadInv, StoreTypes, ReaderInv, DecidingInv

LEMMA NextPageStep ==
  ASSUME ReadInv, NextPage
  PROVE  ReadInv'
<1>1. PICK page \in Query(reader.filter, reader.offset, PageLimit(reader)) :
        /\ reader' = [reader EXCEPT
             !.got = reader.got \o Kept(reader, page),
             !.offset = @ + (IF reader.op = "dryrun" THEN Len(page) ELSE PageSize),
             !.cut = Len(Kept(reader, page)) < Len(page),
             !.pc = IF LastPage(reader, page) THEN "done" ELSE "page"]
        /\ \/ Answer(reader.op, reader.admin, TenantsOf(Range(reader.got \o Kept(reader, page))))
           \/ UNCHANGED reply
  BY Zenon DEF NextPage
<1>2. UNCHANGED <<events, inserted, deciding>>
  BY DEF NextPage, rowVars
<1>3. PICK admin, S : admin = reader.admin /\ S = Seen(reader.admin)
  OBVIOUS
<1>4. page \in Seq(Matching(reader.filter))
  <2>1. reader.offset \in Nat /\ PageLimit(reader) \in Int
    BY PagesAssumption DEF ReadInv, ReaderInv, PageLimit, Room
  <2>2. PICK f, offset, limit : /\ f = reader.filter /\ offset = reader.offset
                                /\ limit = PageLimit(reader)
    OBVIOUS
  <2> QED BY Zenon, <2>1, <2>2, PageRows DEF ReadInv
<1>5. page \in Seq(S)
  <2>1. PICK f : f = reader.filter
    OBVIOUS
  <2>2. Matching(f) \subseteq S
    BY Zenon, <1>3, <2>1, MatchingSeen DEF ReadInv, ReaderInv
  <2> QED BY <1>4, <2>1, <2>2
<1>6. PICK kept \in Seq(S) : kept = Kept(reader, page)
  <2>0. PICK n : n = IF Room(reader) < Len(page) THEN Room(reader) ELSE Len(page)
    OBVIOUS
  <2>1. Kept(reader, page) = page \/ Kept(reader, page) = SubSeq(page, 1, n)
    BY Zenon, <2>0 DEF Kept
  <2>2. Len(page) \in Nat /\ Room(reader) \in Int
    BY <1>5 DEF Room, ReadInv, ReaderInv
  <2>3. n \in Int /\ n <= Len(page)
    BY <2>0, <2>2
  <2>4. \A i \in 1..n : page[i] \in S
    BY <1>5, <2>3
  <2>5. SubSeq(page, 1, n) \in Seq(S)
    BY <2>3, <2>4
  <2> QED BY Zenon, <1>5, <2>1, <2>5
<1>7. PICK got \in Seq(S) : got = reader.got \o kept
  <2>1. PICK g : g = reader.got
    OBVIOUS
  <2>2. g \in Seq(S)
    BY Zenon, <1>3, <2>1 DEF ReadInv, ReaderInv
  <2>3. g \o kept \in Seq(S)
    BY <1>6, <2>2
  <2> QED BY Zenon, <2>1, <2>3
<1>8. ReaderInv'
  <2>1. PICK offset, cut, pc :
          /\ offset = reader.offset + (IF reader.op = "dryrun" THEN Len(page) ELSE PageSize)
          /\ reader' = [reader EXCEPT !.got = got, !.offset = offset, !.cut = cut, !.pc = pc]
    BY Zenon, <1>1, <1>6, <1>7
  <2>2. offset \in Nat
    BY <1>5, <2>1, PagesAssumption DEF ReadInv, ReaderInv
  <2>3. reader' = [op |-> reader.op, admin |-> reader.admin, filter |-> reader.filter,
                   limit |-> reader.limit, offset |-> offset, got |-> got,
                   present |-> reader.present, cut |-> cut, pc |-> pc]
    BY Zenon, <2>1 DEF ReadInv, ReaderInv
  <2> QED BY Zenon, <1>3, <1>7, <2>2, <2>3 DEF ReadInv, ReaderInv
<1>9. AnswersWithinTenant'
  <2>1. admin # None => TenantsOf(Range(got)) \subseteq {admin}
    BY <1>3, <1>7 DEF TenantsOf, Range, Seen
  <2>2. Answer(reader.op, admin, TenantsOf(Range(got))) \/ UNCHANGED reply
    BY Zenon, <1>1, <1>3, <1>6, <1>7
  <2> QED BY <2>1, <2>2 DEF Answer, AnswersWithinTenant, ReadInv
<1> QED BY Zenon, <1>2, <1>8, <1>9 DEF ReadInv, StoreTypes, DecidingInv

LEMMA ReadStep == ReadInv /\ [AdminNext]_adminVars => ReadInv'
<1> SUFFICES ASSUME ReadInv, [AdminNext]_adminVars PROVE ReadInv'
  OBVIOUS
<1>1. CASE PagesNext
  <2>1. CASE PageFails
    <3>1. ReaderInv'
      BY Zenon, <2>1 DEF PageFails, ReadInv, ReaderInv
    <3>2. UNCHANGED <<events, inserted, deciding, reply>>
      BY Zenon, <2>1 DEF PageFails, rowVars
    <3> QED BY Zenon, <3>1, <3>2 DEF ReadInv, StoreTypes, DecidingInv, AnswersWithinTenant
  <2>2. CASE Hangup
    <3>1. ReaderInv' /\ AnswersWithinTenant'
      BY <2>2 DEF Hangup, ReaderInv, IdleReader, NoReply, AnswersWithinTenant
    <3>2. UNCHANGED <<events, inserted, deciding>>
      BY Zenon, <2>2 DEF Hangup, rowVars
    <3> QED BY Zenon, <3>1, <3>2 DEF ReadInv, StoreTypes, DecidingInv
  <2>3. \A limit \in DryRunLimits \cup {ExportMaxRows, AgentsMaxEvents} : limit \in Nat
    BY PagesAssumption
  <2> QED BY Zenon, <1>1, <2>1, <2>2, <2>3, InsertStep, BeginStep, NextPageStep
          DEF PagesNext, AuditExport, AgentsList, PoliciesDryRun
<1>2. CASE QueriesNext
  <2>1. PageSize \in Int /\ \A limit \in 1..PageSize : limit \in Int
    BY PagesAssumption
  <2> QED BY Zenon, <1>2, <2>1, InsertStep, OneQueryStep, RowStep
          DEF QueriesNext, AuditQuery, FlowMapEvents, ProofOfIntent
<1>3. CASE HoldsNext
  <2>1. CASE \/ \E t \in Tenants : HoldTimesOut(t)
             \/ \E t \in Tenants, id \in PayloadIds : Put(t, id)
             \/ Purge \/ ReaderTick
    <3>1. UNCHANGED <<events, inserted, reader, deciding, reply>>
      BY Zenon, <2>1 DEF HoldTimesOut, Put, Purge, ReaderTick, pageVars
    <3> QED BY Zenon, <3>1 DEF ReadInv, StoreTypes, ReaderInv, DecidingInv, AnswersWithinTenant
  <2> QED BY Zenon, <1>3, <2>1, RowStep, DecideStep DEF HoldsNext
<1>4. CASE UNCHANGED adminVars
  BY Zenon, <1>4 DEF ReadInv, StoreTypes, ReaderInv, DecidingInv, AnswersWithinTenant, adminVars,
     pageVars, rowVars
<1> QED BY Zenon, <1>1, <1>2, <1>3, <1>4 DEF AdminNext

\* No administrator of a tenant is shown, or decides, a row of another: for any
\* tenants, tokens, page sizes and stores, with every handler interleaved with
\* every other between its store calls.
THEOREM TenantsKeptApart == AdminSpec => []AnswersWithinTenant
<1>1. ReadInv => AnswersWithinTenant
  BY DEF ReadInv
<1> QED BY <1>1, ReadStart, ReadStep, PTL DEF AdminSpec
=============================================================================
