---------------------------- MODULE ApprovalModes ----------------------------
(***************************************************************************)
(* How one deployment handles escalated calls: main picks the Postgres or  *)
(* the in-process queue, and a held call waits in its request or, with     *)
(* ApprovalAsync, is answered at once and resumed by a retry.  The two     *)
(* queues share the variables of Approvals, so that what is promised of a  *)
(* waiting call is stated once for both.                                   *)
(***************************************************************************)
EXTENDS Approvals

CONSTANTS HeldIds,  \* pending ids of calls that are resumed, not waited for
          Agents, HeldTools, MaxRuns

VARIABLES mode,              \* "postgres", "memory": a call waits; "async"
          closed, panicked,  \* of ApprovalsMemory
          backend, rows, escalated, runs, ran  \* of ApprovalResume

Memory == INSTANCE ApprovalsMemory
Resume == INSTANCE ApprovalResume WITH Ids <- HeldIds, Tools <- HeldTools

memoryVars == <<closed, panicked>>
resumeVars == <<backend, rows, escalated, runs, ran>>
modesVars == <<mode, queueVars, memoryVars, resumeVars>>

ModesInit ==
  /\ mode \in {"postgres", "memory", "async"}
  /\ QueueInit
  /\ mode # "postgres" => home = [i \in Ids |-> CHOOSE r \in Replicas : TRUE]
  /\ Memory!Init
  /\ Resume!Init
  /\ mode = "memory" => backend = "memory"
  /\ mode = "postgres" => backend = "postgres"

\* A step of the queue a deployment uses leaves the rest of the state alone.
Uses(m, step, others) == mode = m /\ step /\ UNCHANGED <<mode, others>>

InPostgres(step) == Uses("postgres", step, <<memoryVars, resumeVars>>)
InMemory(step) == Uses("memory", step, <<home, waits, woken, listening, inbox,
                                         crashes, resumeVars>>)

ModesNext == \/ InPostgres(QueueNext)
             \/ InMemory(Memory!Next)
             \/ Uses("async", Resume!Next, <<queueVars, memoryVars>>)

ModesSpec == ModesInit /\ [][ModesNext]_modesVars

\* The waiting goroutine of either queue, which runs and whose poll ticker
\* ticks.  Nothing is assumed of the operators, the listeners, the
\* notifications or the deadline.
WaiterRuns(i) == InPostgres(CallStep(i)) \/ InMemory(Memory!WaitStep(i))

-----------------------------------------------------------------------------
\* The verdict an operator was told is recorded stands, with either queue;
\* and whoever settles a row of the in-process queue, the deadline or an
\* operator, is the only one to close its wake channel (a second close would
\* panic).
AckedVerdictStands == VerdictStands /\ ~panicked

\* resumeApproval lets through only what was approved under the id.
RunsWhatWasApproved == Resume!RunsWhatWasApproved
=============================================================================
