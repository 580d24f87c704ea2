---------------------------- MODULE LimitProofs -----------------------------
(***************************************************************************)
(* What two limiters hold a call to: the row of its task and the call      *)
(* budget of its token, for any number of racing calls, caps and ticks.    *)
(***************************************************************************)
EXTENDS TaskBinding, Budget, TLAPS

(* Task binding. *)

INSTANCE FiniteSetTheorems

TaskFields == {"status", "plan", "tools", "calls", "drift"}
IsTask(t) == TaskFields \subseteq DOMAIN t /\ t.calls \in Nat

TaskTypes ==
  /\ IsTask(row) /\ IsTask(operator.task) /\ DOMAIN binding = TaskCalls
  /\ \A c \in TaskCalls : /\ {"pc", "tool", "plan", "task"} \subseteq DOMAIN binding[c]
                          /\ IsTask(binding[c].task)
  /\ taskLog.counted \subseteq TaskCalls /\ IsFiniteSet(taskLog.counted)

\* A call is counted when it is through, and nothing is before the first write.
TaskInv ==
  /\ TaskTypes
  /\ \A c \in TaskCalls : /\ binding[c].pc \in {"new", "read"} => c \notin taskLog.counted
                          /\ binding[c].pc = "read" => binding[c].task.status # "none"
  /\ row.status = "none" => taskLog.counted = {} /\ ~taskLog.halt
  /\ taskLog.halt \in BOOLEAN
  /\ TaskKeptUnlessRaced

\* What Bind makes of the row it has read.
LEMMA ScoredRow ==
  ASSUME NEW t, IsTask(t), NEW tool, NEW b, b = Scored(t, tool)
  PROVE  /\ IsTask(b.task) /\ b.task.plan = t.plan
         /\ t.status = "halted" => b.task = t
         /\ t.status # "halted" => b.task.calls = t.calls + 1 /\ b.task.tools = t.tools \cup {tool}
         /\ b.outcome = "block" => b.task.status = "halted"
         /\ b.task.status \in {"halted", "flagged", t.status}
         /\ b.outcome \in {"block", "flag", "allow"}
<1> USE DEF IsTask, TaskFields
<1>1. CASE t.status = "halted"
  BY <1>1 DEF Scored
<1>2. CASE t.status # "halted"
  <2>1. PICK n : n = [t EXCEPT !.calls = @ + 1, !.tools = @ \cup {tool}]
    OBVIOUS
  <2>2. PICK u : u = [n EXCEPT !.drift = @ + Delta(n, tool)]
    BY Zenon
  <2>3. /\ IsTask(u) /\ u.plan = t.plan /\ u.status = t.status
        /\ u.calls = t.calls + 1 /\ u.tools = t.tools \cup {tool}
    BY <2>1, <2>2
  <2>4. b = Threshold(u)
    BY Zenon, <1>2, <2>1, <2>2 DEF Scored
  <2>5. \/ b = [task |-> [u EXCEPT !.status = "halted"], outcome |-> "block"]
        \/ b = [task |-> [u EXCEPT !.status = IF @ = "active" THEN "flagged" ELSE @],
                outcome |-> "flag"]
        \/ b = [task |-> u, outcome |-> "allow"]
    BY <2>4 DEF Threshold
  <2>6. \/ b.task = [u EXCEPT !.status = "halted"] /\ b.outcome = "block"
        \/ b.task = [u EXCEPT !.status = IF @ = "active" THEN "flagged" ELSE @] /\ b.outcome = "flag"
        \/ b.task = u /\ b.outcome = "allow"
    BY <2>5
  <2> QED BY <1>2, <2>3, <2>6
<1> QED BY <1>1, <1>2

\* Upsert writes the row it is given, with the plan of the row there was.
LEMMA UpsertRow ==
  ASSUME NEW t, IsTask(t), NEW u, u = Upsert(t), IsTask(row)
  PROVE  /\ IsTask(u) /\ u.status = t.status /\ u.calls = t.calls /\ u.tools = t.tools
         /\ taskBackend = "memory" \/ row.status = "none" => u.plan = t.plan
         /\ taskBackend # "memory" /\ row.status # "none" => u.plan = row.plan
  BY DEF Upsert, UpsertMemory, UpsertPostgres, IsTask, TaskFields

\* A write that was read as the row, or that finds none, leaves what its
\* history says; any other write is a race.
LEMMA WriteKept ==
  ASSUME TaskInv, NEW t, IsTask(t), NEW u, IsTask(u), u.plan = t.plan,
         NEW counted, NEW halt \in BOOLEAN, Logs(t, counted, halt), row' = Upsert(u),
         UNCHANGED taskBackend,
         t.calls = Cardinality(taskLog.counted) /\ t.tools = {binding[c].tool : c \in taskLog.counted}
           => u.calls = Cardinality(counted) /\ u.tools = {binding[c].tool : c \in counted}',
         (t.status # "halted" => ~taskLog.halt) => (halt => u.status = "halted")
  PROVE  TaskKeptUnlessRaced' /\ IsTask(row') /\ row'.status = u.status
<1>1. PICK w : w = row'
  OBVIOUS
<1>2. /\ IsTask(w) /\ w.status = u.status /\ w.calls = u.calls /\ w.tools = u.tools
      /\ taskBackend = "memory" \/ row.status = "none" => w.plan = u.plan
      /\ taskBackend # "memory" /\ row.status # "none" => w.plan = row.plan
  BY <1>1, UpsertRow DEF TaskInv, TaskTypes
<1>3. PICK was : was = IF row.status = "none" THEN Envelope(t.plan) ELSE row
  BY Zenon
<1>4. /\ taskLog'.plan = IF row.status = "none" THEN t.plan ELSE taskLog.plan
      /\ taskLog'.counted = counted /\ taskLog'.halt = halt
      /\ taskLog'.raced = (taskLog.raced \/ t # was)
  BY Zenon, <1>3 DEF Logs
<1>5. w.plan = taskLog'.plan \/ (taskLog'.raced /\ taskBackend = "memory")
  <2>1. CASE row.status = "none"
    BY Zenon, <1>2, <1>4, <2>1
  <2>2. CASE row.status # "none"
    <3>1. row.plan = taskLog.plan \/ (taskLog.raced /\ taskBackend = "memory")
      BY Zenon, <2>2 DEF TaskInv, TaskKeptUnlessRaced
    <3>2. CASE taskBackend = "memory"
      BY Zenon, <1>2, <1>3, <1>4, <2>2, <3>1, <3>2
    <3>3. CASE taskBackend # "memory"
      BY Zenon, <1>2, <1>4, <2>2, <3>1, <3>3
    <3> QED BY Zenon, <3>2, <3>3
  <2> QED BY Zenon, <2>1, <2>2
<1>6. ASSUME ~taskLog'.raced
      PROVE  /\ w.calls = Cardinality(counted) /\ w.tools = {binding[c].tool : c \in counted}'
             /\ halt => w.status = "halted"
  <2>1. ~taskLog.raced /\ t = was
    BY Zenon, <1>4, <1>6
  <2>2. CASE row.status = "none"
    <3>1. t.calls = 0 /\ t.tools = {} /\ taskLog.counted = {} /\ ~taskLog.halt
      BY <1>3, <2>1, <2>2 DEF TaskInv, Envelope, NoTask
    <3>2. t.calls = Cardinality(taskLog.counted) /\ t.tools = {binding[c].tool : c \in taskLog.counted}
      BY <3>1, FS_EmptySet
    <3> QED BY Zenon, <1>2, <3>1, <3>2
  <2>3. CASE row.status # "none"
    <3>1. /\ t.calls = Cardinality(taskLog.counted)
          /\ t.tools = {binding[c].tool : c \in taskLog.counted}
          /\ t.status # "halted" => ~taskLog.halt
      BY Zenon, <1>3, <2>1, <2>3 DEF TaskInv, TaskKeptUnlessRaced
    <3> QED BY Zenon, <1>2, <3>1
  <2> QED BY Zenon, <2>2, <2>3
<1>7. TaskKeptUnlessRaced'
  BY Zenon, <1>1, <1>4, <1>5, <1>6 DEF TaskKeptUnlessRaced
<1> QED BY Zenon, <1>1, <1>2, <1>7

\* No step changes the tool of a call.
LEMMA SameTools ==
  ASSUME NEW S, NEW f, NEW g, \A d \in S : g[d].tool = f[d].tool
  PROVE  {g[d].tool : d \in S} = {f[d].tool : d \in S}
  OBVIOUS

LEMMA BindGetKept ==
  ASSUME TaskInv, NEW c \in TaskCalls, BindGet(c)
  PROVE  TaskInv'
<1>1. PICK t : t = IF row.status = "none" THEN Envelope(binding[c].plan) ELSE row
  BY Zenon
<1>2. IsTask(t) /\ t.status # "none"
  BY <1>1 DEF TaskInv, TaskTypes, IsTask, TaskFields, Envelope, NoTask
<1>3. /\ binding[c].pc = "new" /\ UNCHANGED <<taskBackend, row, operator, taskLog>>
      /\ \/ binding' = [binding EXCEPT ![c].pc = "read", ![c].task = t]
         \/ binding' = [binding EXCEPT ![c].pc = "allow"]
  BY Zenon, <1>1 DEF BindGet
<1>4. \A d \in TaskCalls : /\ binding'[d].tool = binding[d].tool
                           /\ d # c => binding'[d] = binding[d]
  BY <1>3 DEF TaskInv, TaskTypes
<1>5. /\ DOMAIN binding' = TaskCalls /\ {"pc", "tool", "plan", "task"} \subseteq DOMAIN binding'[c]
      /\ IsTask(binding'[c].task)
      /\ binding'[c].pc = "read" => binding'[c].task.status # "none"
  BY <1>2, <1>3 DEF TaskInv, TaskTypes
<1>6. TaskTypes'
  BY Zenon, <1>3, <1>4, <1>5 DEF TaskInv, TaskTypes
<1>7. {binding[d].tool : d \in taskLog.counted}' = {binding[d].tool : d \in taskLog.counted}
  <2>1. /\ taskLog'.counted = taskLog.counted
        /\ \A d \in taskLog.counted : binding'[d].tool = binding[d].tool
    BY <1>3, <1>4 DEF TaskInv, TaskTypes
  <2> QED BY <2>1, SameTools
<1>8. TaskKeptUnlessRaced'
  BY Zenon, <1>3, <1>7 DEF TaskInv, TaskKeptUnlessRaced
<1>9. c \notin taskLog.counted
  BY Zenon, <1>3 DEF TaskInv
<1> QED BY Zenon, <1>3, <1>4, <1>5, <1>6, <1>8, <1>9 DEF TaskInv

\* The call that was scored is the one more that the row counts.
LEMMA BindUpsertKept ==
  ASSUME TaskInv, NEW c \in TaskCalls, BindUpsert(c)
  PROVE  TaskInv'
<1>1. PICK t : t = binding[c].task
  OBVIOUS
<1>2. PICK b : b = Scored(t, binding[c].tool)
  OBVIOUS
<1>3. PICK counted : counted = IF t.status = "halted" THEN taskLog.counted
                                                     ELSE taskLog.counted \cup {c}
  BY Zenon
<1>4. /\ binding[c].pc = "read" /\ UNCHANGED <<taskBackend, operator>>
      /\ binding' = [binding EXCEPT ![c].pc = b.outcome, ![c].task = b.task]
      /\ \/ row' = Upsert(b.task) /\ Logs(t, counted, taskLog.halt \/ b.outcome = "block")
         \/ UNCHANGED <<row, taskLog>>
  BY Zenon, <1>1, <1>2, <1>3 DEF BindUpsert
<1>5. IsTask(t) /\ t.status # "none" /\ c \notin taskLog.counted
  BY Zenon, <1>1, <1>4 DEF TaskInv, TaskTypes
<1>6. /\ IsTask(b.task) /\ b.task.plan = t.plan
      /\ t.status = "halted" => b.task = t
      /\ t.status # "halted" => /\ b.task.calls = t.calls + 1
                                /\ b.task.tools = t.tools \cup {binding[c].tool}
      /\ b.outcome = "block" => b.task.status = "halted"
      /\ b.task.status \in {"halted", "flagged", t.status}
      /\ b.outcome \in {"block", "flag", "allow"}
  BY <1>2, <1>5, ScoredRow
<1>7. /\ \A d \in TaskCalls : /\ binding'[d].tool = binding[d].tool
                              /\ d # c => binding'[d] = binding[d]
      /\ DOMAIN binding' = TaskCalls /\ {"pc", "tool", "plan", "task"} \subseteq DOMAIN binding'[c]
      /\ binding'[c].task = b.task /\ binding'[c].pc = b.outcome
  BY <1>4 DEF TaskInv, TaskTypes
<1>8. binding'[c].pc \notin {"new", "read"}
  BY <1>6, <1>7
<1>9. CASE UNCHANGED <<row, taskLog>>
  <2>1. {binding[d].tool : d \in taskLog.counted}' = {binding[d].tool : d \in taskLog.counted}
    <3>1. /\ taskLog'.counted = taskLog.counted
          /\ \A d \in taskLog.counted : binding'[d].tool = binding[d].tool
      BY <1>7, <1>9 DEF TaskInv, TaskTypes
    <3> QED BY <3>1, SameTools
  <2>2. TaskKeptUnlessRaced' /\ TaskTypes'
    BY Zenon, <1>4, <1>6, <1>7, <1>9, <2>1 DEF TaskInv, TaskTypes, TaskKeptUnlessRaced
  <2> QED BY Zenon, <1>7, <1>8, <1>9, <2>2 DEF TaskInv
<1>10. CASE row' = Upsert(b.task) /\ Logs(t, counted, taskLog.halt \/ b.outcome = "block")
  <2>1. PICK halt \in BOOLEAN : halt = (taskLog.halt \/ b.outcome = "block")
    BY Zenon DEF TaskInv
  <2>2. /\ IsFiniteSet(counted) /\ counted \subseteq TaskCalls
        /\ t.status # "halted" => Cardinality(counted) = Cardinality(taskLog.counted) + 1
    BY <1>3, <1>5, FS_AddElement DEF TaskInv, TaskTypes
  <2>3. {binding[d].tool : d \in counted}' = {binding[d].tool : d \in counted}
    <3>1. \A d \in counted : binding'[d].tool = binding[d].tool
      BY Zenon, <1>7, <2>2
    <3> QED BY <3>1, SameTools
  <2>4. ASSUME t.calls = Cardinality(taskLog.counted),
               t.tools = {binding[d].tool : d \in taskLog.counted}
        PROVE  /\ b.task.calls = Cardinality(counted)
               /\ b.task.tools = {binding[d].tool : d \in counted}'
    <3>1. CASE t.status = "halted"
      BY Zenon, <1>3, <1>6, <2>3, <2>4, <3>1
    <3>2. CASE t.status # "halted"
      <4>1. {binding[d].tool : d \in counted}
              = {binding[d].tool : d \in taskLog.counted} \cup {binding[c].tool}
        BY <1>3, <3>2
      <4>2. b.task.calls = t.calls + 1 /\ Cardinality(counted) = Cardinality(taskLog.counted) + 1
        BY Zenon, <1>6, <2>2, <3>2
      <4> QED BY Zenon, <1>6, <2>3, <2>4, <3>2, <4>1, <4>2
    <3> QED BY Zenon, <3>1, <3>2
  <2>5. (t.status # "halted" => ~taskLog.halt) => (halt => b.task.status = "halted")
    <3>1. halt => taskLog.halt \/ b.outcome = "block"
      BY <2>1
    <3> QED BY Zenon, <1>6, <3>1
  <2>6. PICK u : u = b.task
    OBVIOUS
  <2>7. TaskKeptUnlessRaced' /\ IsTask(row') /\ row'.status = b.task.status
    BY Zenon, <1>4, <1>5, <1>6, <1>10, <2>1, <2>4, <2>5, <2>6, WriteKept
  <2>8. taskLog'.counted = counted /\ taskLog'.halt = halt
    BY Zenon, <1>10, <2>1 DEF Logs
  <2>9. row'.status # "none"
    BY <1>5, <1>6, <2>7
  <2>10. \A d \in TaskCalls : d # c /\ d \notin taskLog.counted => d \notin counted
    BY Zenon, <1>3
  <2>11. TaskTypes'
    BY Zenon, <1>4, <1>6, <1>7, <2>2, <2>7, <2>8 DEF TaskInv, TaskTypes
  <2> QED BY Zenon, <1>7, <1>8, <2>7, <2>8, <2>9, <2>10, <2>11 DEF TaskInv
<1> QED BY Zenon, <1>4, <1>9, <1>10

\* A clear counts nothing and ends a halt.
LEMMA ClearUpsertKept ==
  ASSUME TaskInv, ClearUpsert
  PROVE  TaskInv'
<1>1. PICK t : t = operator.task
  OBVIOUS
<1>2. PICK u : u = [t EXCEPT !.drift = 0, !.status = "active"]
  OBVIOUS
<1>3. /\ UNCHANGED <<taskBackend, binding>> /\ operator' = [pc |-> "idle", task |-> NoTask]
      /\ \/ row' = Upsert(u) /\ Logs(t, taskLog.counted, FALSE)
         \/ UNCHANGED <<row, taskLog>>
  BY Zenon, <1>1, <1>2 DEF ClearUpsert
<1>4. IsTask(t)
  BY Zenon, <1>1 DEF TaskInv, TaskTypes
<1>5. IsTask(u) /\ u.plan = t.plan /\ u.calls = t.calls /\ u.tools = t.tools /\ u.status = "active"
  BY <1>2, <1>4 DEF IsTask, TaskFields
<1>6. IsTask(operator'.task)
  BY <1>3 DEF NoTask, IsTask, TaskFields
<1>7. CASE UNCHANGED <<row, taskLog>>
  BY Zenon, <1>3, <1>6, <1>7 DEF TaskInv, TaskTypes, TaskKeptUnlessRaced
<1>8. CASE row' = Upsert(u) /\ Logs(t, taskLog.counted, FALSE)
  <2>1. {binding[d].tool : d \in taskLog.counted} = {binding'[d].tool : d \in taskLog.counted}
    BY Zenon, <1>3
  <2>2. PICK counted : counted = taskLog.counted
    OBVIOUS
  <2>3. /\ FALSE \in BOOLEAN
        /\ t.calls = Cardinality(taskLog.counted) /\ t.tools = {binding[d].tool : d \in taskLog.counted}
             => u.calls = Cardinality(counted) /\ u.tools = {binding[d].tool : d \in counted}'
    BY Zenon, <1>3, <1>5, <2>1, <2>2
  <2>4. TaskKeptUnlessRaced' /\ IsTask(row') /\ row'.status = u.status
    BY Zenon, <1>3, <1>4, <1>5, <1>8, <2>2, <2>3, WriteKept
  <2>5. taskLog'.counted = taskLog.counted /\ taskLog'.halt = FALSE
    BY Zenon, <1>8 DEF Logs
  <2>6. row'.status # "none"
    BY <1>5, <2>4
  <2> QED BY Zenon, <1>3, <1>6, <2>4, <2>5, <2>6 DEF TaskInv, TaskTypes
<1> QED BY Zenon, <1>3, <1>7, <1>8

\* Binder.Bind and the clear: with any number of calls of a task, any weights
\* and either store, the row keeps its plan, its counts and its halt unless a
\* write was raced; with the Postgres store it keeps the plan in any case.
THEOREM TaskKept == TaskSpec => []TaskKeptUnlessRaced
<1>1. TaskInit => TaskInv
  <2> SUFFICES ASSUME TaskInit PROVE TaskInv
    OBVIOUS
  <2>1. TaskTypes
    BY FS_EmptySet DEF TaskInit, TaskTypes, NoTask, IsTask, TaskFields
  <2> QED BY <2>1 DEF TaskInit, TaskInv, TaskKeptUnlessRaced, NoTask
<1>2. TaskInv /\ [TaskNext]_taskVars => TaskInv'
  <2>1. ASSUME TaskInv, ClearGet PROVE TaskInv'
    <3>1. UNCHANGED <<taskBackend, row, binding, taskLog>> /\ operator'.task = row
      BY Zenon, <2>1 DEF ClearGet
    <3> QED BY Zenon, <2>1, <3>1 DEF TaskInv, TaskTypes, TaskKeptUnlessRaced
  <2>2. ASSUME TaskInv, UNCHANGED taskVars PROVE TaskInv'
    BY Zenon, <2>2 DEF taskVars, TaskInv, TaskTypes, TaskKeptUnlessRaced
  <2> QED BY Zenon, <2>1, <2>2, BindGetKept, BindUpsertKept, ClearUpsertKept DEF TaskNext
<1>3. TaskInv => TaskKeptUnlessRaced
  BY DEF TaskInv
<1> QED BY <1>1, <1>2, <1>3, PTL DEF TaskSpec

-----------------------------------------------------------------------------
(* The call budget. *)

\* The call started in the lifetime of the counter that is under the key.
Current(now) == now >= entries[cell].born

\* Of the calls that count in it, admitted or about to be, each has a number
\* of its own up to the counter, and an admitted one is within every cap.
Numbered ==
  /\ \A a \in admitted : \A limit \in extractMaxCalls : a.used <= limit
  /\ cell # 0 =>
       /\ \A a \in admitted : Current(a.now) => a.used >= 1 /\ a.used <= entries[cell].count
       /\ \A a, b \in admitted : Current(a.now) /\ Current(b.now) /\ a.used = b.used => a = b
       /\ \A c \in Callers : caller[c].pc = "expire" /\ Current(caller[c].now) =>
            /\ caller[c].used >= 1 /\ caller[c].used <= entries[cell].count
            /\ \A a \in admitted : Current(a.now) => a.used # caller[c].used
            /\ \A d \in Callers : caller[d].pc = "expire" /\ Current(caller[d].now)
                                  /\ caller[d].used = caller[c].used => d = c

\* In memory a counter is made only after its predecessor has expired, and
\* nobody is admitted who is later than the newest counter.
MemoryInv ==
  /\ \A i \in 1..Len(entries) : entries[i].born <= entries[i].expires
  /\ \A i, j \in 1..Len(entries) : i < j => entries[i].expires < entries[j].born
  /\ \A c \in Callers : /\ caller[c].pc # "expire"
                        /\ caller[c].pc = "count" => caller[c].entry # 0
  /\ \A a \in admitted : cell # 0 /\ a.now <= entries[cell].expires

\* In Redis a key that is gone has expired since the last call that counted
\* under it began.
RedisInv ==
  /\ \A c \in Callers : caller[c].now <= clock /\ caller[c].pc # "count"
  /\ \A a \in admitted : a.now <= clock
  /\ ~Live => /\ \A c \in Callers : caller[c].pc = "expire" => caller[c].now < clock
              /\ \A a \in admitted : a.now < clock
  /\ cell = 0 => admitted = {} /\ \A c \in Callers : caller[c].pc # "expire"

Counters == [count : Nat, born : Nat, expires : Nat]

BudgetTypes ==
  /\ store \in {"memory", "redis"} /\ clock \in Nat
  /\ entries \in Seq(Counters) /\ cell = Len(entries)
  /\ DOMAIN caller = Callers
  /\ \A c \in Callers : DOMAIN caller[c] = {"pc", "now", "entry", "used"}
  /\ \A c \in Callers : /\ caller[c].now \in Nat /\ caller[c].used \in Nat
                        /\ caller[c].entry \in Nat /\ caller[c].entry <= Len(entries)
  /\ \A a \in admitted : a.now \in Nat /\ a.used \in Nat

BudgetInv == BudgetTypes /\ Numbered /\ (IF store = "memory" THEN MemoryInv ELSE RedisInv)

\* The numbers of the counters.
BudgetNats ==
  /\ clock \in Nat /\ cell \in Nat /\ Len(entries) \in Nat
  /\ \A c \in Callers : /\ caller[c].now \in Nat /\ caller[c].used \in Nat
                        /\ caller[c].entry \in Nat /\ caller[c].entry <= Len(entries)
  /\ \A a \in admitted : a.now \in Nat /\ a.used \in Nat
  /\ \A i \in 1..Len(entries) :
       entries[i].count \in Nat /\ entries[i].born \in Nat /\ entries[i].expires \in Nat

LEMMA BudgetNumbers == BudgetTypes => BudgetNats
<1> SUFFICES ASSUME BudgetTypes PROVE BudgetNats
  OBVIOUS
<1>1. ASSUME NEW i \in 1..Len(entries)
      PROVE  entries[i].count \in Nat /\ entries[i].born \in Nat /\ entries[i].expires \in Nat
  <2>1. PICK x \in Counters : x = entries[i]
    BY DEF BudgetTypes
  <2> QED BY Zenon, <2>1 DEF Counters
<1> QED BY <1>1 DEF BudgetNats, BudgetTypes

LEMMA CounterBumped ==
  ASSUME NEW x \in Counters
  PROVE  /\ [x EXCEPT !.count = @ + 1] \in Counters
         /\ [x EXCEPT !.count = @ + 1].count = x.count + 1
         /\ [x EXCEPT !.count = @ + 1].born = x.born
         /\ [x EXCEPT !.count = @ + 1].expires = x.expires
  BY DEF Counters

LEMMA EntryBumped ==
  ASSUME entries \in Seq(Counters), NEW e \in 1..Len(entries),
         entries' = [entries EXCEPT ![e].count = @ + 1]
  PROVE  /\ entries' \in Seq(Counters) /\ Len(entries') = Len(entries)
         /\ \A i \in 1..Len(entries) : /\ entries'[i].born = entries[i].born
                                       /\ entries'[i].expires = entries[i].expires
                                       /\ i # e => entries'[i].count = entries[i].count
         /\ entries'[e].count = entries[e].count + 1
<1>1. PICK x \in Counters : x = entries[e]
  OBVIOUS
<1>2. PICK r : r = [x EXCEPT !.count = x.count + 1]
  BY Zenon
<1>3. r \in Counters /\ r.count = x.count + 1 /\ r.born = x.born /\ r.expires = x.expires
  BY <1>2, CounterBumped
<1>4. entries' = [entries EXCEPT ![e] = r]
  BY <1>1, <1>2
<1>5. entries' \in Seq(Counters) /\ Len(entries') = Len(entries)
  BY <1>3, <1>4
<1>6. entries'[e] = r /\ \A i \in 1..Len(entries) : i # e => entries'[i] = entries[i]
  BY <1>4
<1> QED BY <1>1, <1>3, <1>5, <1>6

LEMMA EntryAdded ==
  ASSUME entries \in Seq(Counters), NEW x \in Counters, entries' = Append(entries, x)
  PROVE  /\ entries' \in Seq(Counters) /\ Len(entries') = Len(entries) + 1
         /\ \A i \in 1..Len(entries) : entries'[i] = entries[i]
         /\ entries'[Len(entries')] = x
  BY DEF Counters

\* What a call's step does to its own record and leaves alone of the others.
CallerMoves(c, phase, now, entry, used) ==
  /\ DOMAIN caller' = Callers /\ DOMAIN caller'[c] = {"pc", "now", "entry", "used"}
  /\ caller'[c].pc = phase /\ caller'[c].now = now /\ caller'[c].entry = entry /\ caller'[c].used = used
  /\ \A d \in Callers \ {c} : caller'[d] = caller[d]

LEMMA CallerEffects ==
  ASSUME BudgetTypes, NEW c \in Callers, NEW a, NEW b
  PROVE  /\ caller' = [caller EXCEPT ![c].pc = a] =>
              CallerMoves(c, a, caller[c].now, caller[c].entry, caller[c].used)
         /\ caller' = [caller EXCEPT ![c].pc = a, ![c].now = b] =>
              CallerMoves(c, a, b, caller[c].entry, caller[c].used)
         /\ caller' = [caller EXCEPT ![c].pc = a, ![c].entry = b] =>
              CallerMoves(c, a, caller[c].now, b, caller[c].used)
         /\ caller' = [caller EXCEPT ![c].pc = a, ![c].used = b] =>
              CallerMoves(c, a, caller[c].now, caller[c].entry, b)
  BY DEF BudgetTypes, CallerMoves

\* Decide adds at most one call, within the caps.
Admits(c, used) ==
  \/ admitted' = admitted
  \/ \E x : /\ admitted' = admitted \cup {x} /\ x.now = caller[c].now /\ x.used = used
            /\ \A limit \in extractMaxCalls : x.used <= limit

LEMMA DecideEffects ==
  ASSUME BudgetTypes, NEW c \in Callers, NEW used \in Nat, Decide(c, used)
  PROVE  /\ CallerMoves(c, "done", caller[c].now, caller[c].entry, caller[c].used)
         /\ Admits(c, used)
<1>1. CallerMoves(c, "done", caller[c].now, caller[c].entry, caller[c].used)
  BY Zenon, CallerEffects DEF Decide
<1>2. CASE \E limit \in extractMaxCalls : used > limit
  BY Zenon, <1>1, <1>2 DEF Decide, Admits
<1>3. CASE ~\E limit \in extractMaxCalls : used > limit
  <2>1. PICK x : x = [by |-> c, now |-> caller[c].now, used |-> used]
    BY Zenon
  <2>2. admitted' = admitted \cup {x}
    BY <1>3, <2>1 DEF Decide
  <2>3. x.now = caller[c].now /\ x.used = used
    BY <2>1
  <2>4. \A limit \in extractMaxCalls : used <= limit
    BY <1>3, BudgetAssumption DEF extractMaxCalls
  <2> QED BY Zenon, <1>1, <2>2, <2>3, <2>4 DEF Admits
<1> QED BY <1>2, <1>3

LEMMA TypesKept ==
  ASSUME BudgetTypes, NEW c \in Callers, NEW phase, NEW now \in Nat,
         NEW entry \in Nat, entry <= Len(entries'), NEW used \in Nat,
         CallerMoves(c, phase, now, entry, used),
         entries' \in Seq(Counters), Len(entries) <= Len(entries'),
         cell' = Len(entries'), store' = store, clock' = clock,
         NEW n \in Nat, Admits(c, n)
  PROVE  BudgetTypes'
<1>1. \A a \in admitted' : a.now \in Nat /\ a.used \in Nat
  BY Zenon DEF Admits, BudgetTypes
<1>2. Len(entries) \in Nat /\ Len(entries') \in Nat
  BY DEF BudgetTypes
<1>3. \A d \in Callers : /\ caller'[d].now \in Nat /\ caller'[d].used \in Nat
                         /\ caller'[d].entry \in Nat /\ caller'[d].entry <= Len(entries')
  <2> SUFFICES ASSUME NEW d \in Callers
               PROVE  /\ caller'[d].now \in Nat /\ caller'[d].used \in Nat
                      /\ caller'[d].entry \in Nat /\ caller'[d].entry <= Len(entries')
    BY Zenon
  <2>1. CASE d = c
    BY Zenon, <2>1 DEF CallerMoves
  <2>2. CASE d # c
    BY <1>2, <2>2 DEF CallerMoves, BudgetTypes
  <2> QED BY Zenon, <2>1, <2>2
<1>4. DOMAIN caller' = Callers /\ \A d \in Callers : DOMAIN caller'[d] = {"pc", "now", "entry", "used"}
  BY Zenon DEF CallerMoves, BudgetTypes
<1> QED BY Zenon, <1>1, <1>3, <1>4 DEF BudgetTypes

\* Check.
LEMMA CheckStep ==
  ASSUME BudgetInv, NEW c \in Callers, Check(c)
  PROVE  BudgetInv'
<1>1. CallerMoves(c, "load", clock, caller[c].entry, caller[c].used)
  BY Zenon, CallerEffects DEF Check, BudgetInv
<1>2. UNCHANGED <<store, clock, entries, cell, admitted>>
  BY DEF Check
<1>3. BudgetTypes'
  <2>1. /\ clock \in Nat /\ caller[c].entry \in Nat /\ caller[c].entry <= Len(entries')
        /\ caller[c].used \in Nat /\ entries' \in Seq(Counters) /\ Len(entries) <= Len(entries')
        /\ cell' = Len(entries') /\ Admits(c, 0)
    BY <1>2, BudgetAssumption DEF BudgetInv, BudgetTypes, Counters, Admits
  <2>2. PICK now, entry, used : now = clock /\ entry = caller[c].entry /\ used = caller[c].used
    BY Zenon
  <2> QED BY Zenon, <1>1, <1>2, <2>1, <2>2, TypesKept DEF BudgetInv
<1>4. Numbered'
  BY <1>1, <1>2 DEF BudgetInv, Numbered, Current, CallerMoves
<1>5. store = "memory" => MemoryInv'
  BY <1>1, <1>2 DEF BudgetInv, MemoryInv, CallerMoves
<1>6. store # "memory" => RedisInv'
  <2> SUFFICES ASSUME store # "memory" PROVE RedisInv'
    BY Zenon
  <2>1. RedisInv /\ clock \in Nat /\ (Live' <=> Live)
    BY Zenon, <1>2, BudgetNumbers DEF BudgetInv, BudgetNats, Live
  <2>2. \A d \in Callers : /\ caller'[d].now <= clock /\ caller'[d].pc # "count"
                           /\ caller'[d].pc = "expire" => caller'[d] = caller[d]
    BY <1>1, <2>1 DEF RedisInv, CallerMoves
  <2> QED BY Zenon, <1>2, <2>1, <2>2 DEF RedisInv
<1> QED BY <1>2, <1>3, <1>4, <1>5, <1>6 DEF BudgetInv

LEMMA BudgetTickStep ==
  ASSUME BudgetInv, BudgetTick
  PROVE  BudgetInv'
<1>1. BudgetTypes' /\ cell' = Len(entries')
  BY BudgetAssumption DEF BudgetInv, BudgetTypes, BudgetTick
<1>2. Numbered'
  BY DEF BudgetInv, Numbered, Current, BudgetTick
<1>3. store = "memory" => MemoryInv'
  BY Zenon DEF BudgetInv, MemoryInv, BudgetTick
<1>4. store # "memory" => RedisInv'
  BY BudgetNumbers DEF BudgetInv, BudgetNats, RedisInv, BudgetTick, Live
<1> QED BY Zenon, <1>1, <1>2, <1>3, <1>4 DEF BudgetInv, BudgetTick

\* MemoryStore.Increment.
LEMMA LoadOrStoreStep ==
  ASSUME BudgetInv, NEW c \in Callers, LoadOrStore(c)
  PROVE  BudgetInv'
<1> USE BudgetAssumption
<1>1. BudgetNats /\ entries \in Seq(Counters) /\ store = "memory" /\ cell = Len(entries)
  BY Zenon, BudgetNumbers DEF BudgetInv, BudgetTypes, LoadOrStore, Counters
<1>2. /\ UNCHANGED <<store, clock, admitted>>
      /\ CallerMoves(c, "count", caller[c].now, cell', caller[c].used)
  <2>1. PICK e : e = cell'
    OBVIOUS
  <2> QED BY Zenon, <2>1, CallerEffects DEF LoadOrStore, BudgetInv
<1>3. CASE cell # 0 /\ UNCHANGED <<entries, cell>>
  <2>1. BudgetTypes'
    <3>1. PICK now, entry, used : now = caller[c].now /\ entry = cell /\ used = caller[c].used
      BY Zenon
    <3>2. Admits(c, 0)
      BY <1>2 DEF Admits
    <3> QED BY <1>1, <1>2, <1>3, <3>1, <3>2, TypesKept DEF BudgetInv, BudgetNats
  <2>2. Numbered'
    BY <1>2, <1>3 DEF BudgetInv, Numbered, Current, CallerMoves
  <2>3. MemoryInv'
    BY Zenon, <1>1, <1>2, <1>3 DEF BudgetInv, MemoryInv, CallerMoves
  <2> QED BY <1>1, <1>2, <1>3, <2>1, <2>2, <2>3 DEF BudgetInv
<1>4. CASE /\ cell = 0 /\ entries' = Append(entries, Fresh(caller[c].now, 0))
           /\ cell' = Len(entries')
  <2>1. PICK x : x = Fresh(caller[c].now, 0)
    OBVIOUS
  <2>2. x \in Counters /\ x.born <= x.expires
    BY <1>1, <2>1 DEF Fresh, Counters, BudgetNats
  <2>3. /\ entries' \in Seq(Counters) /\ Len(entries') = 1 /\ entries'[1] = x
    BY <1>1, <1>4, <2>1, <2>2, EntryAdded
  <2>4. BudgetTypes'
    <3>1. PICK now, entry, used : now = caller[c].now /\ entry = cell' /\ used = caller[c].used
      BY Zenon
    <3>2. Admits(c, 0)
      BY Zenon, <1>2 DEF Admits
    <3> QED BY <1>1, <1>2, <1>4, <2>3, <3>1, <3>2, TypesKept DEF BudgetInv, BudgetNats
  <2>5. admitted = {} /\ \A d \in Callers : caller[d].pc # "expire"
    BY Zenon, <1>1, <1>4 DEF BudgetInv, MemoryInv
  <2>6. Numbered'
    BY <1>2, <2>5 DEF Numbered, CallerMoves
  <2>7. MemoryInv'
    BY <1>1, <1>2, <1>4, <2>2, <2>3, <2>5 DEF BudgetInv, MemoryInv, CallerMoves
  <2> QED BY Zenon, <1>1, <1>2, <1>4, <2>4, <2>6, <2>7 DEF BudgetInv
<1> QED BY Zenon, <1>3, <1>4 DEF LoadOrStore

\* A call that has loaded a counter has loaded one that was made.
LEMMA LoadedCounter ==
  ASSUME BudgetInv, NEW c \in Callers, store = "memory", caller[c].pc = "count"
  PROVE  caller[c].entry \in 1..Len(entries) /\ cell \in 1..Len(entries)
<1>1. /\ Len(entries) \in Nat /\ caller[c].entry \in Nat /\ caller[c].entry <= Len(entries)
      /\ cell = Len(entries)
  BY Zenon, BudgetNumbers DEF BudgetInv, BudgetNats, BudgetTypes
<1>2. caller[c].entry # 0
  BY Zenon DEF BudgetInv, MemoryInv
<1> QED BY <1>1, <1>2

\* In memory: a call that counts on the counter under the key gets the next
\* number, one that counts on an older one started before it was made.
LEMMA NumberedInMemory ==
  ASSUME BudgetInv, store = "memory", NEW c \in Callers, NEW n \in Nat, Admits(c, n),
         cell \in 1..Len(entries), cell' = cell, entries'[cell].born = entries[cell].born,
         \/ caller[c].now < entries[cell].born /\ entries'[cell].count = entries[cell].count
         \/ n = entries[cell].count + 1 /\ entries'[cell].count = n,
         \A d \in Callers : caller'[d].pc # "expire"
  PROVE  Numbered'
<1>1. BudgetNats
  BY Zenon, BudgetNumbers DEF BudgetInv
<1>2. PICK b \in Nat, k \in Nat : b = entries[cell].born /\ k = entries[cell].count
  BY Zenon, <1>1 DEF BudgetNats
<1>3. \A a \in admitted : /\ a.now \in Nat /\ a.used \in Nat
                          /\ a.now >= b => a.used >= 1 /\ a.used <= k
                          /\ \A limit \in extractMaxCalls : a.used <= limit
  BY <1>1, <1>2 DEF BudgetInv, BudgetNats, Numbered, Current
<1>4. \A x, y \in admitted : x.now >= b /\ y.now >= b /\ x.used = y.used => x = y
  BY <1>2 DEF BudgetInv, Numbered, Current
<1>5. CASE admitted' = admitted
  BY <1>2, <1>3, <1>4, <1>5 DEF Numbered, Current
<1>6. CASE admitted' # admitted
  <2>1. PICK x : /\ admitted' = admitted \cup {x} /\ x.now = caller[c].now /\ x.used = n
                 /\ \A limit \in extractMaxCalls : x.used <= limit
    BY Zenon, <1>6 DEF Admits
  <2>2. caller[c].now \in Nat
    BY Zenon, <1>1 DEF BudgetNats
  <2>3. x.now >= b => /\ x.used >= 1 /\ x.used <= entries'[cell].count
                      /\ \A a \in admitted : a.now >= b => a.used # x.used
    BY <1>2, <1>3, <2>1, <2>2
  <2>4. \A a \in admitted' : a.now >= b => a.used >= 1 /\ a.used <= entries'[cell].count
    BY <1>2, <1>3, <2>1, <2>3
  <2>5. \A p, q \in admitted' : p.now >= b /\ q.now >= b /\ p.used = q.used => p = q
    BY <1>4, <2>1, <2>3
  <2>6. \A a \in admitted' : \A limit \in extractMaxCalls : a.used <= limit
    BY Zenon, <1>3, <2>1
  <2> QED BY Zenon, <1>2, <2>4, <2>5, <2>6 DEF Numbered, Current
<1> QED BY Zenon, <1>5, <1>6

LEMMA SwapStep ==
  ASSUME BudgetInv, NEW c \in Callers, store = "memory", caller[c].pc = "count",
         caller[c].now > entries[caller[c].entry].expires, Swap(c), UNCHANGED <<store, clock>>
  PROVE  BudgetInv'
<1> USE BudgetAssumption
<1>1. /\ BudgetNats /\ entries \in Seq(Counters) /\ cell = Len(entries)
      /\ caller[c].entry \in 1..Len(entries) /\ cell \in 1..Len(entries)
  BY Zenon, BudgetNumbers, LoadedCounter DEF BudgetInv, BudgetTypes, Counters
<1>2. CASE cell # caller[c].entry
  <2>1. UNCHANGED <<entries, cell, admitted>>
    BY Zenon, <1>2 DEF Swap
  <2>2. CallerMoves(c, "load", caller[c].now, caller[c].entry, caller[c].used)
    BY Zenon, <1>2, CallerEffects DEF Swap, BudgetInv
  <2>3. BudgetTypes'
    <3>1. PICK now, entry, used : now = caller[c].now /\ entry = caller[c].entry /\ used = caller[c].used
      BY Zenon
    <3>2. Admits(c, 0)
      BY Zenon, <2>1 DEF Admits
    <3>3. /\ now \in Nat /\ entry \in Nat /\ entry <= Len(entries') /\ used \in Nat
          /\ Len(entries) <= Len(entries')
      BY <1>1, <2>1, <3>1 DEF BudgetNats
    <3> QED BY Zenon, <1>1, <2>1, <2>2, <3>1, <3>2, <3>3, TypesKept DEF BudgetInv
  <2>4. Numbered'
    BY <2>1, <2>2 DEF BudgetInv, Numbered, Current, CallerMoves
  <2>5. MemoryInv'
    BY Zenon, <2>1, <2>2 DEF BudgetInv, MemoryInv, CallerMoves
  <2> QED BY Zenon, <1>1, <2>1, <2>3, <2>4, <2>5 DEF BudgetInv
<1>3. CASE cell = caller[c].entry
  <2>1. /\ entries' = Append(entries, Fresh(caller[c].now, 1)) /\ cell' = Len(entries')
        /\ Decide(c, 1)
    BY <1>3 DEF Swap
  <2>2. PICK x : x = Fresh(caller[c].now, 1)
    BY Zenon
  <2>3. x \in Counters /\ x.count = 1 /\ x.born = caller[c].now /\ x.born <= x.expires
    <3>1. PICK now \in Nat : now = caller[c].now
      BY Zenon, <1>1 DEF BudgetNats
    <3> QED BY <2>2, <3>1 DEF Fresh, Counters
  <2>4. /\ entries' \in Seq(Counters) /\ Len(entries') = Len(entries) + 1
        /\ \A i \in 1..Len(entries) : entries'[i] = entries[i]
        /\ entries'[cell'] = x
    BY Zenon, <1>1, <2>1, <2>2, <2>3, EntryAdded
  <2>5. /\ CallerMoves(c, "done", caller[c].now, caller[c].entry, caller[c].used)
        /\ Admits(c, 1)
    BY Zenon, <2>1, DecideEffects DEF BudgetInv
  <2>6. BudgetTypes'
    <3>1. PICK now, entry, used : now = caller[c].now /\ entry = caller[c].entry /\ used = caller[c].used
      BY Zenon
    <3>2. /\ now \in Nat /\ entry \in Nat /\ entry <= Len(entries') /\ used \in Nat
          /\ Len(entries) <= Len(entries')
      BY <1>1, <2>1, <2>4, <3>1 DEF BudgetNats
    <3> QED BY Zenon, <1>1, <2>1, <2>4, <2>5, <3>1, <3>2, TypesKept DEF BudgetInv
  <2>7. /\ \A a \in admitted : a.now < x.born
        /\ \A i \in 1..Len(entries) : entries[i].expires < x.born
    <3>1. entries[cell].expires < x.born
      BY Zenon, <1>1, <1>3, <2>3 DEF BudgetNats
    <3>2. \A a \in admitted : a.now <= entries[cell].expires
      BY Zenon DEF BudgetInv, MemoryInv
    <3>3. \A i \in 1..Len(entries) : entries[i].expires <= entries[cell].expires
      <4>1. \A i \in 1..Len(entries) : i = cell \/ entries[i].expires < entries[cell].born
        BY <1>1 DEF BudgetInv, MemoryInv, BudgetNats
      <4>2. cell \in 1..Len(entries) => entries[cell].born <= entries[cell].expires
        BY Zenon DEF BudgetInv, MemoryInv
      <4> QED BY <1>1, <4>1, <4>2 DEF BudgetNats
    <3>4. x.born \in Nat
      BY Zenon, <1>1, <2>3 DEF BudgetNats
    <3>5. \A a \in admitted : a.now < x.born
      BY <1>1, <3>1, <3>2, <3>4 DEF BudgetNats
    <3>6. \A i \in 1..Len(entries) : entries[i].expires < x.born
      BY <1>1, <3>1, <3>3, <3>4 DEF BudgetNats
    <3> QED BY Zenon, <3>5, <3>6
  <2>8. \A d \in Callers : caller'[d].pc # "expire" /\ (caller'[d].pc = "count" => caller'[d].entry # 0)
    BY <2>5 DEF BudgetInv, MemoryInv, CallerMoves
  <2>9. Numbered'
    <3>1. PICK b \in Nat : b = x.born
      BY Zenon, <2>3 DEF Counters
    <3>2. entries'[cell'].born = b /\ entries'[cell'].count = 1 /\ \A a \in admitted : ~(a.now >= b)
      BY <1>1, <2>3, <2>4, <2>7, <3>1 DEF BudgetNats
    <3>3. \A a \in admitted : \A limit \in extractMaxCalls : a.used <= limit
      BY Zenon DEF BudgetInv, Numbered
    <3>4. \A a \in admitted' : /\ a.now >= b => a.used = 1 /\ a \notin admitted
                               /\ \A limit \in extractMaxCalls : a.used <= limit
      BY Zenon, <2>5, <3>2, <3>3 DEF Admits
    <3>5. \A p, q \in admitted' : p.now >= b /\ q.now >= b => p = q
      BY Zenon, <2>5, <3>2 DEF Admits
    <3> QED BY <2>8, <3>2, <3>4, <3>5 DEF Numbered, Current
  <2>10. MemoryInv'
    <3>1. \A i \in 1..Len(entries') : i \in 1..Len(entries) \/ i = cell'
      BY <1>1, <2>1, <2>4 DEF BudgetNats
    <3>2. \A i \in 1..Len(entries') : entries'[i].born <= entries'[i].expires
      BY Zenon, <2>3, <2>4, <3>1 DEF BudgetInv, MemoryInv
    <3>3. \A i, j \in 1..Len(entries') : i < j => entries'[i].expires < entries'[j].born
      BY <1>1, <2>1, <2>4, <2>7, <3>1 DEF BudgetInv, BudgetNats, MemoryInv
    <3>4. \A a \in admitted' : cell' # 0 /\ a.now <= entries'[cell'].expires
      <4>1. x.born \in Nat /\ x.expires \in Nat /\ cell' # 0
        BY <1>1, <2>1, <2>3, <2>4 DEF BudgetNats, Counters
      <4>2. \A a \in admitted : a.now \in Nat
        BY Zenon, <1>1 DEF BudgetNats
      <4> QED BY <2>3, <2>4, <2>5, <2>7, <4>1, <4>2 DEF Admits
    <3> QED BY Zenon, <2>8, <3>2, <3>3, <3>4 DEF MemoryInv
  <2> QED BY Zenon, <2>1, <2>6, <2>9, <2>10 DEF BudgetInv
<1> QED BY Zenon, <1>2, <1>3

LEMMA IncrementStep ==
  ASSUME BudgetInv, NEW c \in Callers, Increment(c)
  PROVE  BudgetInv'
<1> USE BudgetAssumption
<1>1. /\ BudgetNats /\ entries \in Seq(Counters) /\ cell = Len(entries) /\ store = "memory"
      /\ caller[c].pc = "count" /\ caller[c].entry \in 1..Len(entries) /\ cell \in 1..Len(entries)
      /\ UNCHANGED <<store, clock>>
  BY Zenon, BudgetNumbers, LoadedCounter DEF BudgetInv, BudgetTypes, Counters, Increment
<1>2. CASE caller[c].now > entries[caller[c].entry].expires
  BY Zenon, <1>1, <1>2, SwapStep DEF Increment
<1>3. CASE ~(caller[c].now > entries[caller[c].entry].expires)
  <2>1. PICK e \in 1..Len(entries) : e = caller[c].entry
    BY Zenon, <1>1
  <2>2. PICK n \in Nat : n = entries[e].count + 1
    BY <1>1 DEF BudgetNats
  <2>3. entries' = [entries EXCEPT ![e].count = @ + 1] /\ Decide(c, n) /\ cell' = cell
    BY Zenon, <1>3, <2>1, <2>2 DEF Increment
  <2>4. /\ entries' \in Seq(Counters) /\ Len(entries') = Len(entries)
        /\ \A i \in 1..Len(entries) : /\ entries'[i].born = entries[i].born
                                      /\ entries'[i].expires = entries[i].expires
                                      /\ i # e => entries'[i].count = entries[i].count
        /\ entries'[e].count = n
    BY Zenon, <1>1, <2>2, <2>3, EntryBumped
  <2>5. /\ CallerMoves(c, "done", caller[c].now, caller[c].entry, caller[c].used)
        /\ Admits(c, n)
    BY Zenon, <2>3, DecideEffects DEF BudgetInv
  <2>6. BudgetTypes'
    <3>1. PICK now, entry, used : now = caller[c].now /\ entry = caller[c].entry /\ used = caller[c].used
      BY Zenon
    <3>2. /\ now \in Nat /\ entry \in Nat /\ entry <= Len(entries') /\ used \in Nat
          /\ Len(entries) <= Len(entries')
      BY <1>1, <2>3, <2>4, <3>1 DEF BudgetNats
    <3> QED BY Zenon, <1>1, <2>3, <2>4, <2>5, <3>1, <3>2, TypesKept DEF BudgetInv
  <2>7. \A d \in Callers : caller'[d].pc # "expire" /\ (caller'[d].pc = "count" => caller'[d].entry # 0)
    BY <2>5, <1>1 DEF BudgetInv, MemoryInv, CallerMoves
  <2>8. caller[c].now <= entries[e].expires /\ (e # cell => entries[e].expires < entries[cell].born)
    BY <1>1, <1>3, <2>1 DEF BudgetInv, MemoryInv, BudgetNats
  <2>9. Numbered'
    <3>1. \/ caller[c].now < entries[cell].born /\ entries'[cell].count = entries[cell].count
          \/ n = entries[cell].count + 1 /\ entries'[cell].count = n
      <4>1. CASE e = cell
        BY Zenon, <2>2, <2>4, <4>1
      <4>2. CASE e # cell
        <5>1. /\ caller[c].now \in Nat /\ entries[e].expires \in Nat /\ entries[cell].born \in Nat
          BY Zenon, <1>1 DEF BudgetNats
        <5>2. caller[c].now < entries[cell].born
          BY <2>8, <4>2, <5>1
        <5>3. entries'[cell].count = entries[cell].count
          BY Zenon, <1>1, <2>4, <4>2
        <5> QED BY Zenon, <5>2, <5>3
      <4> QED BY Zenon, <4>1, <4>2
    <3> QED BY Zenon, <1>1, <2>3, <2>4, <2>5, <2>7, <3>1, NumberedInMemory
  <2>10. MemoryInv'
    <3>1. caller[c].now <= entries[cell].expires
      BY <1>1, <2>1, <2>8 DEF BudgetInv, BudgetNats, MemoryInv
    <3>2. \A a \in admitted' : cell' # 0 /\ a.now <= entries'[cell'].expires
      BY <1>1, <2>3, <2>4, <2>5, <3>1 DEF BudgetInv, BudgetNats, MemoryInv, Admits
    <3>3. \A i, j \in 1..Len(entries') : i < j => entries'[i].expires < entries'[j].born
      BY Zenon, <1>1, <2>4 DEF BudgetInv, MemoryInv
    <3>4. \A i \in 1..Len(entries') : entries'[i].born <= entries'[i].expires
      BY Zenon, <1>1, <2>4 DEF BudgetInv, MemoryInv
    <3> QED BY Zenon, <2>7, <3>2, <3>3, <3>4 DEF MemoryInv
  <2> QED BY Zenon, <1>1, <2>3, <2>4, <2>6, <2>9, <2>10 DEF BudgetInv
<1> QED BY Zenon, <1>2, <1>3

\* RedisStore.Increment: INCR.
LEMMA IncrStep ==
  ASSUME BudgetInv, NEW c \in Callers, Incr(c)
  PROVE  BudgetInv'
<1> USE BudgetAssumption
<1>1. /\ BudgetNats /\ entries \in Seq(Counters) /\ cell = Len(entries) /\ store = "redis"
      /\ UNCHANGED <<store, clock, admitted>> /\ caller[c].pc = "load"
  BY Zenon, BudgetNumbers DEF BudgetInv, BudgetTypes, Counters, Incr
<1>2. RedisInv /\ Numbered
  BY Zenon, <1>1 DEF BudgetInv
<1>3. CASE ~Live
  <2>1. PICK x : x = [count |-> 1, born |-> clock, expires |-> 0]
    BY Zenon
  <2>2. x \in Counters /\ x.count = 1 /\ x.born = clock /\ x.expires = 0
    BY Zenon, <1>1, <2>1 DEF Counters, BudgetNats
  <2>3. entries' = Append(entries, x) /\ cell' = Len(entries')
    BY Zenon, <1>3, <2>1 DEF Incr
  <2>4. /\ entries' \in Seq(Counters) /\ Len(entries') = Len(entries) + 1
        /\ entries'[cell'] = x /\ cell' # 0
    BY <1>1, <2>2, <2>3, EntryAdded DEF BudgetNats
  <2>5. PICK phase \in {"expire", "done"}, used \in Nat :
          /\ CallerMoves(c, phase, caller[c].now, caller[c].entry, used)
          /\ phase = "expire" => used = 1
    <3>1. PICK u : u = entries'[cell'].count
      OBVIOUS
    <3>2. u = 1 /\ caller[c].used \in Nat
      BY Zenon, <1>1, <2>2, <2>4, <3>1 DEF BudgetNats
    <3>3. \/ CallerMoves(c, "expire", caller[c].now, caller[c].entry, u)
          \/ CallerMoves(c, "done", caller[c].now, caller[c].entry, caller[c].used)
      BY Zenon, <3>1, CallerEffects DEF Incr, BudgetInv
    <3> QED BY Zenon, <3>2, <3>3
  <2>6. BudgetTypes'
    <3>1. PICK now, entry : now = caller[c].now /\ entry = caller[c].entry
      BY Zenon
    <3>2. /\ now \in Nat /\ entry \in Nat /\ entry <= Len(entries')
          /\ Len(entries) <= Len(entries') /\ Admits(c, 0)
      BY <1>1, <2>4, <3>1 DEF BudgetNats, Admits
    <3> QED BY Zenon, <1>1, <2>3, <2>4, <2>5, <3>1, <3>2, TypesKept DEF BudgetInv
  <2>7. /\ \A a \in admitted : ~(a.now >= clock)
        /\ \A d \in Callers : caller[d].pc = "expire" => ~(caller[d].now >= clock)
    BY <1>1, <1>2, <1>3 DEF RedisInv, BudgetNats
  <2>8. entries'[cell'].born = clock /\ entries'[cell'].count = 1 /\ entries'[cell'].expires = 0
    BY Zenon, <2>2, <2>4
  <2>9. \A d \in Callers : caller'[d].pc = "expire" /\ caller'[d].now >= clock =>
                             d = c /\ caller'[d].used = 1
    BY Zenon, <2>5, <2>7 DEF CallerMoves
  <2>10. Numbered'
    <3>1. admitted' = admitted /\ \A a \in admitted' : ~Current(a.now)'
      BY Zenon, <1>1, <2>7, <2>8 DEF Current
    <3>2. \A d \in Callers : caller'[d].pc = "expire" /\ Current(caller[d].now)' =>
                               d = c /\ caller'[d].used = 1
      BY Zenon, <2>8, <2>9 DEF Current
    <3>3. \A a \in admitted' : \A limit \in extractMaxCalls : a.used <= limit
      BY Zenon, <1>2, <3>1 DEF Numbered
    <3>4. \A d \in Callers : caller'[d].pc = "expire" /\ Current(caller[d].now)' =>
            d = c /\ caller'[d].used >= 1 /\ caller'[d].used <= entries'[cell'].count
      BY <2>8, <3>2
    <3> QED BY Zenon, <3>1, <3>3, <3>4 DEF Numbered
  <2>11. RedisInv'
    <3>1. Live'
      BY Zenon, <2>4, <2>8 DEF Live
    <3>2. \A d \in Callers : caller'[d].now <= clock /\ caller'[d].pc # "count"
      BY Zenon, <1>2, <2>5 DEF CallerMoves, RedisInv
    <3> QED BY Zenon, <1>1, <1>2, <2>4, <3>1, <3>2 DEF RedisInv
  <2> QED BY Zenon, <1>1, <2>3, <2>6, <2>10, <2>11 DEF BudgetInv
<1>4. CASE Live
  <2>1. cell \in 1..Len(entries)
    BY <1>1, <1>4 DEF Live, BudgetNats
  <2>2. PICK e \in 1..Len(entries) : e = cell
    BY <2>1
  <2>3. entries' = [entries EXCEPT ![e].count = @ + 1] /\ cell' = cell
    BY Zenon, <1>4, <2>2 DEF Incr
  <2>4. /\ entries' \in Seq(Counters) /\ Len(entries') = Len(entries)
        /\ entries'[cell].born = entries[cell].born /\ entries'[cell].expires = entries[cell].expires
        /\ entries'[cell].count = entries[cell].count + 1
    BY Zenon, <1>1, <2>2, <2>3, EntryBumped
  <2>5. PICK phase \in {"expire", "done"}, used \in Nat :
          /\ CallerMoves(c, phase, caller[c].now, caller[c].entry, used)
          /\ phase = "expire" => used = entries[cell].count + 1
    <3>1. PICK u : u = entries'[cell'].count
      OBVIOUS
    <3>2. u = entries[cell].count + 1 /\ u \in Nat /\ caller[c].used \in Nat
      BY <1>1, <2>1, <2>3, <2>4, <3>1 DEF BudgetNats
    <3>3. \/ CallerMoves(c, "expire", caller[c].now, caller[c].entry, u)
          \/ CallerMoves(c, "done", caller[c].now, caller[c].entry, caller[c].used)
      BY Zenon, <3>1, CallerEffects DEF Incr, BudgetInv
    <3> QED BY Zenon, <3>2, <3>3
  <2>6. BudgetTypes'
    <3>1. PICK now, entry : now = caller[c].now /\ entry = caller[c].entry
      BY Zenon
    <3>2. /\ now \in Nat /\ entry \in Nat /\ entry <= Len(entries')
          /\ Len(entries) <= Len(entries') /\ Admits(c, 0)
      BY <1>1, <2>3, <2>4, <3>1 DEF BudgetNats, Admits
    <3> QED BY Zenon, <1>1, <2>3, <2>4, <2>5, <3>1, <3>2, TypesKept DEF BudgetInv
  <2>7. PICK b \in Nat, k \in Nat : b = entries[cell].born /\ k = entries[cell].count
    BY Zenon, <1>1, <2>1 DEF BudgetNats
  <2>8. /\ \A a \in admitted : /\ a.used \in Nat /\ \A limit \in extractMaxCalls : a.used <= limit
                               /\ a.now >= b => a.used >= 1 /\ a.used <= k
        /\ \A p, q \in admitted : p.now >= b /\ q.now >= b /\ p.used = q.used => p = q
    BY <1>1, <1>2, <2>1, <2>7 DEF Numbered, Current, BudgetNats
  <2>9. \A d \in Callers : caller[d].pc = "expire" /\ caller[d].now >= b =>
          /\ caller[d].used >= 1 /\ caller[d].used <= k
          /\ \A a \in admitted : a.now >= b => a.used # caller[d].used
          /\ \A f \in Callers : caller[f].pc = "expire" /\ caller[f].now >= b
                                /\ caller[f].used = caller[d].used => f = d
    BY <1>1, <1>2, <2>1, <2>7 DEF Numbered, Current, BudgetNats
  <2>10. \A d \in Callers : caller'[d].pc = "expire" =>
           \/ d = c /\ caller'[d].used = k + 1
           \/ d # c /\ caller'[d] = caller[d]
    BY Zenon, <2>5, <2>7 DEF CallerMoves
  <2>11. \A d \in Callers : caller'[d].pc = "expire" /\ caller'[d].now >= b =>
          /\ caller'[d].used >= 1 /\ caller'[d].used <= k + 1
          /\ \A a \in admitted : a.now >= b => a.used # caller'[d].used
          /\ \A f \in Callers : caller'[f].pc = "expire" /\ caller'[f].now >= b
                                /\ caller'[f].used = caller'[d].used => f = d
    <3>1. \A d \in Callers : caller[d].used \in Nat
      BY Zenon, <1>1 DEF BudgetNats
    <3> SUFFICES ASSUME NEW d \in Callers, caller'[d].pc = "expire", caller'[d].now >= b
                 PROVE  /\ caller'[d].used >= 1 /\ caller'[d].used <= k + 1
                        /\ \A a \in admitted : a.now >= b => a.used # caller'[d].used
                        /\ \A f \in Callers : caller'[f].pc = "expire" /\ caller'[f].now >= b
                                              /\ caller'[f].used = caller'[d].used => f = d
      BY Zenon
    <3>2. \A f \in Callers : f # c /\ caller[f].pc = "expire" /\ caller[f].now >= b =>
                             caller[f].used # k + 1
      BY <2>7, <2>9, <3>1
    <3>3. CASE d = c
      BY <2>7, <2>8, <2>10, <3>2, <3>3
    <3>4. CASE d # c
      <4>1. caller'[d] = caller[d]
        BY Zenon, <2>10, <3>4
      <4>2. /\ caller'[d].used >= 1 /\ caller'[d].used <= k + 1
            /\ \A a \in admitted : a.now >= b => a.used # caller'[d].used
        BY <2>7, <2>9, <3>1, <4>1
      <4>3. ASSUME NEW f \in Callers, caller'[f].pc = "expire", caller'[f].now >= b,
                   caller'[f].used = caller'[d].used
            PROVE  f = d
        <5>1. f # c
          BY Zenon, <2>10, <3>2, <3>4, <4>1, <4>3
        <5> QED BY Zenon, <2>9, <2>10, <4>1, <4>3, <5>1
      <4> QED BY Zenon, <4>2, <4>3
    <3> QED BY Zenon, <3>3, <3>4
  <2>12. Numbered'
    <3>1. entries'[cell'].born = b /\ entries'[cell'].count = k + 1
      BY Zenon, <2>3, <2>4, <2>7
    <3>2. \A a \in admitted : a.now >= b => a.used >= 1 /\ a.used <= k + 1
      BY <2>7, <2>8
    <3> QED BY <1>1, <2>8, <2>11, <3>1, <3>2 DEF Numbered, Current
  <2>13. RedisInv'
    <3>1. Live'
      BY Zenon, <1>1, <1>4, <2>3, <2>4 DEF Live
    <3>2. \A d \in Callers : caller'[d].now <= clock /\ caller'[d].pc # "count"
      BY Zenon, <1>2, <2>5 DEF CallerMoves, RedisInv
    <3>3. cell' # 0
      BY <2>1, <2>3
    <3> QED BY Zenon, <1>1, <1>2, <3>1, <3>2, <3>3 DEF RedisInv
  <2> QED BY Zenon, <1>1, <2>3, <2>4, <2>6, <2>12, <2>13 DEF BudgetInv
<1> QED BY Zenon, <1>3, <1>4

LEMMA EntryRenewed ==
  ASSUME entries \in Seq(Counters), NEW e \in 1..Len(entries), NEW t \in Nat,
         entries' = [entries EXCEPT ![e].expires = t]
  PROVE  /\ entries' \in Seq(Counters) /\ Len(entries') = Len(entries)
         /\ entries'[e].born = entries[e].born /\ entries'[e].count = entries[e].count
         /\ entries'[e].expires = t
<1>1. PICK x \in Counters : x = entries[e]
  OBVIOUS
<1>2. PICK r : r = [x EXCEPT !.expires = t]
  BY Zenon
<1>3. r \in Counters /\ r.count = x.count /\ r.born = x.born /\ r.expires = t
  <2>1. \A y \in Counters : /\ [y EXCEPT !.expires = t] \in Counters
                            /\ [y EXCEPT !.expires = t].count = y.count
                            /\ [y EXCEPT !.expires = t].born = y.born
                            /\ [y EXCEPT !.expires = t].expires = t
    BY Zenon DEF Counters
  <2> QED BY <1>2, <2>1
<1>4. entries' = [entries EXCEPT ![e] = r]
  BY <1>1, <1>2
<1>5. entries' \in Seq(Counters) /\ Len(entries') = Len(entries)
  BY <1>3, <1>4
<1>6. entries'[e] = r
  BY <1>4
<1> QED BY <1>1, <1>3, <1>5, <1>6

\* EXPIRE, and the decision.
LEMMA ExpireStep ==
  ASSUME BudgetInv, NEW c \in Callers, Expire(c)
  PROVE  BudgetInv'
<1> USE BudgetAssumption
<1>1. /\ BudgetNats /\ entries \in Seq(Counters) /\ cell = Len(entries) /\ store = "redis"
      /\ UNCHANGED <<store, clock, cell>> /\ caller[c].pc = "expire"
  BY Zenon, BudgetNumbers DEF BudgetInv, BudgetTypes, Counters, Expire
<1>2. RedisInv /\ Numbered
  BY Zenon, <1>1 DEF BudgetInv
<1>3. cell \in 1..Len(entries)
  BY <1>1, <1>2 DEF RedisInv, BudgetNats
<1>4. /\ entries' \in Seq(Counters) /\ Len(entries') = Len(entries)
      /\ entries'[cell].born = entries[cell].born /\ entries'[cell].count = entries[cell].count
      /\ (Live' <=> Live)
  <2>1. CASE ~Live
    BY Zenon, <1>1, <2>1 DEF Expire, Live
  <2>2. CASE Live
    <3>1. PICK e \in 1..Len(entries), t \in Nat : e = cell /\ t = clock + TTL
      BY <1>1, <1>3 DEF BudgetNats
    <3>2. entries' = [entries EXCEPT ![e].expires = t]
      BY <2>2, <3>1 DEF Expire
    <3>3. /\ entries' \in Seq(Counters) /\ Len(entries') = Len(entries)
          /\ entries'[e].born = entries[e].born /\ entries'[e].count = entries[e].count
          /\ entries'[e].expires = t
      BY Zenon, <1>1, <3>2, EntryRenewed
    <3>4. Live'
      BY <1>1, <1>3, <3>1, <3>3 DEF Live, BudgetNats
    <3> QED BY Zenon, <2>2, <3>1, <3>3, <3>4
  <2> QED BY Zenon, <2>1, <2>2
<1>5. PICK n \in Nat : n = caller[c].used
  BY Zenon, <1>1 DEF BudgetNats
<1>6. CallerMoves(c, "done", caller[c].now, caller[c].entry, caller[c].used) /\ Admits(c, n)
  BY Zenon, <1>5, DecideEffects DEF Expire, BudgetInv
<1>7. BudgetTypes'
  <2>1. PICK now, entry, used : now = caller[c].now /\ entry = caller[c].entry /\ used = caller[c].used
    BY Zenon
  <2>2. /\ now \in Nat /\ entry \in Nat /\ entry <= Len(entries') /\ used \in Nat
        /\ Len(entries) <= Len(entries')
    BY <1>1, <1>4, <2>1 DEF BudgetNats
  <2> QED BY Zenon, <1>1, <1>4, <1>6, <2>1, <2>2, TypesKept DEF BudgetInv
<1>8. \A d \in Callers : /\ caller'[d].pc = "expire" => d # c
                         /\ d # c => caller'[d] = caller[d]
                         /\ caller'[d].now = caller[d].now /\ caller'[d].pc # "count"
  BY Zenon, <1>2, <1>6 DEF CallerMoves, RedisInv
<1>9. ASSUME NEW x \in admitted'
      PROVE  x \in admitted \/ (x.now = caller[c].now /\ x.used = caller[c].used
                                /\ admitted' = admitted \cup {x}
                                /\ \A limit \in extractMaxCalls : x.used <= limit)
  BY Zenon, <1>5, <1>6, <1>9 DEF Admits
<1>10. Numbered'
  <2>1. PICK b \in Nat, k \in Nat : /\ b = entries[cell].born /\ k = entries[cell].count
                                    /\ b = entries'[cell'].born /\ k = entries'[cell'].count
    BY Zenon, <1>1, <1>3, <1>4 DEF BudgetNats
  <2>2. /\ \A a \in admitted : /\ \A limit \in extractMaxCalls : a.used <= limit
                               /\ a.now >= b => a.used >= 1 /\ a.used <= k
        /\ \A p, q \in admitted : p.now >= b /\ q.now >= b /\ p.used = q.used => p = q
    <3>1. Numbered /\ cell # 0
      BY <1>2, <1>3
    <3>2. \A when : Current(when) <=> when >= b
      BY Zenon, <2>1 DEF Current
    <3> QED BY Zenon, <2>1, <3>1, <3>2 DEF Numbered
  <2>3. \A d \in Callers : caller[d].pc = "expire" /\ caller[d].now >= b =>
          /\ caller[d].used >= 1 /\ caller[d].used <= k
          /\ \A a \in admitted : a.now >= b => a.used # caller[d].used
          /\ \A f \in Callers : caller[f].pc = "expire" /\ caller[f].now >= b
                                /\ caller[f].used = caller[d].used => f = d
    BY <1>2, <1>3, <2>1 DEF Numbered, Current
  <2>4. \A a \in admitted' : /\ \A limit \in extractMaxCalls : a.used <= limit
                             /\ a.now >= b => a.used >= 1 /\ a.used <= k
    BY Zenon, <1>1, <1>9, <2>2, <2>3
  <2>5. \A p, q \in admitted' : p.now >= b /\ q.now >= b /\ p.used = q.used => p = q
    BY <1>1, <1>9, <2>2, <2>3
  <2>6. \A d \in Callers : caller'[d].pc = "expire" /\ caller'[d].now >= b =>
          /\ caller'[d].used >= 1 /\ caller'[d].used <= k
          /\ \A a \in admitted' : a.now >= b => a.used # caller'[d].used
          /\ \A f \in Callers : caller'[f].pc = "expire" /\ caller'[f].now >= b
                                /\ caller'[f].used = caller'[d].used => f = d
    BY <1>1, <1>8, <1>9, <2>3
  <2> QED BY <2>1, <2>4, <2>5, <2>6 DEF Numbered, Current
<1>11. RedisInv'
  <2>1. \A a \in admitted' : a.now <= clock /\ (~Live => a.now < clock)
    BY Zenon, <1>1, <1>2, <1>9 DEF RedisInv
  <2>2. cell' # 0
    BY <1>1, <1>3
  <2> QED BY Zenon, <1>1, <1>2, <1>4, <1>8, <2>1, <2>2 DEF RedisInv
<1> QED BY Zenon, <1>1, <1>4, <1>7, <1>10, <1>11 DEF BudgetInv

Sets == INSTANCE FiniteSetTheorems

LEMMA DistinctNumbers ==
  ASSUME NEW S, NEW n \in Nat,
         \A a \in S : a.used \in 1..n,
         \A a, b \in S : a.used = b.used => a = b
  PROVE  Cardinality(S) <= n
<1>1. [a \in S |-> a.used] \in Sets!Injection(S, 1..n)
  BY DEF Sets!Injection, Sets!IsInjective
<1>2. Sets!IsFiniteSet(1..n) /\ Sets!Cardinality(1..n) = n
  BY Sets!FS_Interval
<1>3. Sets!Cardinality(S) <= n
  BY <1>1, <1>2, Sets!FS_Injection
<1>4. Sets!Cardinality(S) = Cardinality(S)
  BY Zenon DEF Sets!Cardinality, Cardinality
<1> QED BY Zenon, <1>3, <1>4

LEMMA BudgetFromInv == BudgetInv => BudgetPerWindow
<1> SUFFICES ASSUME BudgetInv, cell # 0, NEW limit \in extractMaxCalls
             PROVE  Cardinality({a \in admitted : a.now >= entries[cell].born}) <= limit
  BY Zenon DEF BudgetPerWindow
<1> DEFINE S == {a \in admitted : a.now >= entries[cell].born}
<1>1. limit \in Nat
  BY BudgetAssumption DEF extractMaxCalls
<1>2. \A a \in S : a.used \in 1..limit
  BY <1>1 DEF BudgetInv, BudgetTypes, Numbered, Current
<1>3. \A a, b \in S : a.used = b.used => a = b
  BY Zenon DEF BudgetInv, Numbered, Current
<1> HIDE DEF S
<1>4. Cardinality(S) <= limit
  BY Zenon, <1>1, <1>2, <1>3, DistinctNumbers
<1> QED BY Zenon, <1>4 DEF S

\* budget.Check admits no more calls than the strictest cap in the lifetime of
\* a counter, for any number of racing calls, caps and ticks and with both
\* stores.
THEOREM CapHolds == BudgetSpec => []BudgetPerWindow
<1>1. BudgetInit => BudgetInv
  <2> SUFFICES ASSUME BudgetInit PROVE BudgetInv
    OBVIOUS
  <2>1. BudgetTypes /\ cell = Len(entries)
    BY BudgetAssumption DEF BudgetInit, BudgetTypes, Idle
  <2>2. Numbered
    BY Zenon DEF BudgetInit, Numbered
  <2>3. \A c \in Callers : caller[c].pc = "idle" /\ caller[c].now = 0
    BY Zenon DEF BudgetInit, Idle
  <2>4. MemoryInv /\ RedisInv
    BY <2>3 DEF BudgetInit, MemoryInv, RedisInv
  <2> QED BY <2>1, <2>2, <2>4 DEF BudgetInv
<1>2. BudgetInv /\ [BudgetNext]_budgetVars => BudgetInv'
  <2> SUFFICES ASSUME BudgetInv, [BudgetNext]_budgetVars PROVE BudgetInv'
    OBVIOUS
  <2>1. CASE UNCHANGED budgetVars
    BY Zenon, <2>1
       DEF budgetVars, BudgetInv, BudgetTypes, Numbered, Current, MemoryInv, RedisInv, Live
  <2> QED BY Zenon, <2>1, BudgetTickStep, CheckStep, LoadOrStoreStep, IncrementStep, IncrStep, ExpireStep
          DEF BudgetNext
<1> QED BY <1>1, <1>2, BudgetFromInv, PTL DEF BudgetSpec
=============================================================================
