---------------------------- MODULE TaskBinding ------------------------------
(***************************************************************************)
(* Task-level intent binding (internal/task): Binder.Bind reads the row of *)
(* a task, scores one call against the declared plan and writes the row    *)
(* back, with nothing held in between.  Calls of one task race with each   *)
(* other and with the operator who clears it.                              *)
(***************************************************************************)
EXTENDS Naturals, FiniteSets

CONSTANTS TaskCalls,      \* calls that carry the task id
          TaskTools,
          BindConfig,     \* task.Config: the weights and thresholds
          MaxClears       \* bound on how often an operator clears the task

VARIABLES taskBackend,    \* "memory" or "postgres"
          row,            \* the stored task, NoTask when there is none
          binding,        \* per call: its tool, declared plan, the row it read
          operator,       \* the clear handler: the row it read
          clears,
          taskLog         \* history: the plan first stored, the calls the row counts,
                          \* a block was stored since the last clear, and a row that
                          \* had changed since it was read was written over

taskVars == <<taskBackend, row, binding, operator, clears, taskLog>>

NoTask == [status |-> "none", plan |-> {}, tools |-> {}, calls |-> 0, drift |-> 0]

TaskInit ==
  /\ taskBackend \in {"memory", "postgres"}
  /\ row = NoTask
  /\ binding \in [TaskCalls -> [pc : {"new"}, tool : TaskTools,
                                plan : SUBSET TaskTools, task : {NoTask}]]
  /\ operator = [pc |-> "idle", task |-> NoTask]
  /\ clears = 0
  /\ taskLog = [plan |-> {}, counted |-> {}, halt |-> FALSE, raced |-> FALSE]

-----------------------------------------------------------------------------
\* MemoryStore.Upsert stores a copy of the whole task.
UpsertMemory(t) == t

\* PostgresStore.Upsert: on conflict the plan and the intent are kept.
UpsertPostgres(t) == IF row.status = "none" THEN t ELSE [t EXCEPT !.plan = row.plan]

Upsert(t) == IF taskBackend = "memory" THEN UpsertMemory(t) ELSE UpsertPostgres(t)

\* Bind, the score of one call of tool that the task t already counts.
Delta(t, tool) ==
  LET limit == BindConfig.PlanSlack + Cardinality(t.plan)
  IN    (IF t.plan # {} /\ tool \notin t.plan THEN BindConfig.OffPlanWeight ELSE 0)
      + (IF BindConfig.MaxCalls > 0 /\ t.calls > BindConfig.MaxCalls
           THEN BindConfig.OverBudgetWeight ELSE 0)
      + (IF limit > 0 /\ Cardinality(t.tools) > limit
           THEN BindConfig.DistinctWeight ELSE 0)

\* Bind, the thresholds: the status and the outcome of a drift score.
Threshold(t) ==
  IF BindConfig.BlockScore > 0 /\ t.drift >= BindConfig.BlockScore
    THEN [task |-> [t EXCEPT !.status = "halted"], outcome |-> "block"]
  ELSE IF BindConfig.WarnScore > 0 /\ t.drift >= BindConfig.WarnScore
    THEN [task |-> [t EXCEPT !.status = IF @ = "active" THEN "flagged" ELSE @], outcome |-> "flag"]
  ELSE [task |-> t, outcome |-> "allow"]

\* A map in memory never fails.
StoreFails == taskBackend = "postgres"

\* Mutant: a halted task is scored like any other.
ScoredAgain(t, tool) ==
  LET counted == [t EXCEPT !.calls = @ + 1, !.tools = @ \cup {tool}]
  IN  Threshold([counted EXCEPT !.drift = @ + Delta(counted, tool)])

\* Bind after the read: a halted task blocks unscored, others are scored.
Scored(t, tool) ==
  IF t.status = "halted" THEN [task |-> t, outcome |-> "block"]
  ELSE LET counted == [t EXCEPT !.calls = @ + 1, !.tools = @ \cup {tool}]
       IN  Threshold([counted EXCEPT !.drift = @ + Delta(counted, tool)])

\* The first call of a task declares its plan.
Envelope(plan) == [NoTask EXCEPT !.status = "active", !.plan = plan]

\* Bind, store.Get; a failing read lets the call through unbound.
BindGet(c) ==
  /\ binding[c].pc = "new"
  /\ \/ binding' = [binding EXCEPT ![c].pc = "read",
                      ![c].task = IF row.status = "none" THEN Envelope(binding[c].plan) ELSE row]
     \/ StoreFails /\ binding' = [binding EXCEPT ![c].pc = "allow"]
  /\ UNCHANGED <<taskBackend, row, operator, clears, taskLog>>

\* The history of a write: t was read as the row, or made when there was none.
Logs(t, counted, halt) ==
  taskLog' = [plan |-> IF row.status = "none" THEN t.plan ELSE taskLog.plan,
              counted |-> counted, halt |-> halt,
              raced |-> taskLog.raced \/ t # IF row.status = "none" THEN Envelope(t.plan) ELSE row]

\* Bind, store.Upsert; the outcome stands when the write fails.
BindUpsert(c) ==
  LET t == binding[c].task
      bound == Scored(t, binding[c].tool) IN
  /\ binding[c].pc = "read"
  /\ binding' = [binding EXCEPT ![c].pc = bound.outcome, ![c].task = bound.task]
  /\ \/ /\ row' = Upsert(bound.task)
        /\ Logs(t, IF t.status = "halted" THEN taskLog.counted ELSE taskLog.counted \cup {c},
                taskLog.halt \/ bound.outcome = "block")
     \/ StoreFails /\ UNCHANGED <<row, taskLog>>
  /\ UNCHANGED <<taskBackend, operator, clears>>

\* NewAdminTaskClearHandler reads the task and, when it is there, writes it
\* back with its drift reset.
ClearGet ==
  /\ operator.pc = "idle" /\ clears < MaxClears
  /\ row.status # "none"
  /\ operator' = [pc |-> "read", task |-> row]
  /\ clears' = clears + 1
  /\ UNCHANGED <<taskBackend, row, binding, taskLog>>

ClearUpsert ==
  /\ operator.pc = "read"
  /\ \/ /\ row' = Upsert([operator.task EXCEPT !.drift = 0, !.status = "active"])
        /\ Logs(operator.task, taskLog.counted, FALSE)
     \/ StoreFails /\ UNCHANGED <<row, taskLog>>
  /\ operator' = [pc |-> "idle", task |-> NoTask]
  /\ UNCHANGED <<taskBackend, binding, clears>>

TaskNext == \/ \E c \in TaskCalls : BindGet(c) \/ BindUpsert(c)
            \/ ClearGet \/ ClearUpsert

TaskSpec == TaskInit /\ [][TaskNext]_taskVars

-----------------------------------------------------------------------------
\* "the passed plan is ignored once set, so an agent cannot widen its own plan
\* mid-task", "a halted task stays halted until an operator clears it": with
\* either store the row of a task keeps the plan of its first call, counts
\* every call that was scored, with its tool, and stays halted until it is
\* cleared, unless a call or a clear has written over a row that had changed
\* since it was read.  With the Postgres store the plan is kept even then.
TaskKeptUnlessRaced ==
  row.status # "none" =>
    /\ row.plan = taskLog.plan \/ (taskLog.raced /\ taskBackend = "memory")
    /\ ~taskLog.raced =>
         /\ row.calls = Cardinality(taskLog.counted)
         /\ row.tools = {binding[c].tool : c \in taskLog.counted}
         /\ taskLog.halt => row.status = "halted"
=============================================================================
