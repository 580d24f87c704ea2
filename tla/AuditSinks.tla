------------------------------ MODULE AuditSinks ------------------------------
(***************************************************************************)
(* The asynchronous audit sinks and the end of the process: the store      *)
(* emitter (internal/auditstore/emitter.go), the SIEM batch emitter        *)
(* (internal/siem/batch.go) and the webhook emitter                        *)
(* (internal/webhook/emitter.go) behind one fan-out, and the shutdown in   *)
(* cmd/gateway/main.go.                                                    *)
(*                                                                         *)
(* The three emitters are the same machine: a bounded channel that drops   *)
(* when full, a flag, and a worker that hands what it receives to its      *)
(* destination in batches (of one, for the store and the webhook).         *)
(***************************************************************************)
EXTENDS Naturals, Sequences, FiniteSets

CONSTANTS Requests,    \* request handlers; each makes one audit event
          EmitOrder,   \* the sinks in the order of the fan-out
          StopOrder,   \* the sinks in the order main stops them
          BufferSize,  \* channel capacity of each sink
          BatchSize    \* batch size of each sink

Sinks == {EmitOrder[k] : k \in DOMAIN EmitOrder}

\* Each sink is in each order, and once.
ASSUME OrdersAssumption ==
  /\ EmitOrder \in Seq(Sinks) /\ StopOrder \in Seq(Sinks)
  /\ Sinks = {StopOrder[k] : k \in DOMAIN StopOrder}
  /\ \A j, k \in DOMAIN EmitOrder : EmitOrder[j] = EmitOrder[k] => j = k
  /\ \A j, k \in DOMAIN StopOrder : StopOrder[j] = StopOrder[k] => j = k
ASSUME SizesAssumption ==
  /\ BufferSize \in [Sinks -> Nat \ {0}]
  /\ BatchSize \in [Sinks -> Nat \ {0}]

VARIABLES
  phase,     \* of main: serving, draining (Shutdown waits), stopping, exited
  stopAt,    \* index in StopOrder of the sink main is stopping
  waiting,   \* main has closed that sink's channel and waits for its worker
  tight,     \* the 5s shutdown context is done
  clean,     \* main returned; FALSE: os.Exit(1)
  step,        \* of each request: idle, active, check, send, done
  at,        \* index in EmitOrder of the sink the request emits to
  queue,     \* each sink's channel
  closed,    \* its closed/stopped flag
  chClosed,  \* its channel is closed
  pending,   \* what its worker has taken and not handed over
  worker,    \* loop or exited
  delivered, failed, dropped,  \* what became of the events of each sink
  lost,      \* events Emit ignored because the sink was stopped: not counted
  panicked   \* a send on a closed channel

mainVars == <<phase, stopAt, waiting, tight, clean>>
workerVars == <<pending, worker, delivered, failed>>
sinkVars == <<mainVars, step, at, queue, closed, chClosed, workerVars, dropped, lost, panicked>>

SinksInit ==
  /\ phase = "serving" /\ stopAt = 1 /\ waiting = FALSE /\ tight = FALSE /\ clean = FALSE
  /\ step = [r \in Requests |-> "idle"]
  /\ at = [r \in Requests |-> 1]
  /\ queue = [s \in Sinks |-> <<>>]
  /\ closed = {} /\ chClosed = {}
  /\ pending = [s \in Sinks |-> {}]
  /\ worker = [s \in Sinks |-> "loop"]
  /\ delivered = [s \in Sinks |-> {}] /\ failed = [s \in Sinks |-> {}]
  /\ dropped = [s \in Sinks |-> {}] /\ lost = [s \in Sinks |-> {}]
  /\ panicked = FALSE

-----------------------------------------------------------------------------
(* A request and its Emit.                                                 *)

Running == phase # "exited"

\* The server accepts requests until it is told to shut down.
Accept(r) ==
  /\ phase = "serving"
  /\ step[r] = "idle"
  /\ step' = [step EXCEPT ![r] = "active"]
  /\ UNCHANGED <<mainVars, at, queue, closed, chClosed, workerVars, dropped, lost, panicked>>

\* The handler reaches its emitAudit and FanOutEmitter.Emit starts.  (The
\* webhook's filter passes events by kind; the ones modelled here pass.)
StartEmit(r) ==
  /\ Running
  /\ step[r] = "active"
  /\ step' = [step EXCEPT ![r] = "check"]
  /\ UNCHANGED <<mainVars, at, queue, closed, chClosed, workerVars, dropped, lost, panicked>>

\* On to the next sink, or back to the handler, which ends.
NextSink(r) ==
  IF at[r] < Len(EmitOrder)
    THEN /\ at' = [at EXCEPT ![r] = @ + 1]
         /\ step' = [step EXCEPT ![r] = "check"]
    ELSE /\ at' = [at EXCEPT ![r] = 1]
         /\ step' = [step EXCEPT ![r] = "done"]

\* if closed.Load() { return }
CheckClosed(r) ==
  LET s == EmitOrder[at[r]] IN
  /\ Running
  /\ step[r] = "check"
  /\ IF s \in closed
       THEN lost' = [lost EXCEPT ![s] = @ \cup {r}] /\ NextSink(r)
       ELSE step' = [step EXCEPT ![r] = "send"] /\ UNCHANGED <<at, lost>>
  /\ UNCHANGED <<mainVars, queue, closed, chClosed, workerVars, dropped, panicked>>

\* select { case ch <- ev: default: dropped++ }
Send(r) ==
  LET s == EmitOrder[at[r]] IN
  /\ Running
  /\ step[r] = "send"
  /\ IF s \in chClosed
       THEN panicked' = TRUE /\ UNCHANGED <<queue, dropped>>
       ELSE /\ IF Len(queue[s]) < BufferSize[s]
                 THEN /\ queue' = [queue EXCEPT ![s] = Append(@, r)]
                      /\ UNCHANGED dropped
                 ELSE /\ dropped' = [dropped EXCEPT ![s] = @ \cup {r}]
                      /\ UNCHANGED queue
            /\ UNCHANGED panicked
  /\ NextSink(r)
  /\ UNCHANGED <<mainVars, closed, chClosed, workerVars, lost>>

-----------------------------------------------------------------------------
(* A sink's worker.                                                        *)

\* Mutant: a failed batch is kept and handed over again later.
FlushKeepsBatch(s, batch) ==
  \/ /\ delivered' = [delivered EXCEPT ![s] = @ \cup batch]
     /\ pending' = [pending EXCEPT ![s] = {}]
     /\ UNCHANGED failed
  \/ /\ failed' = [failed EXCEPT ![s] = @ \cup batch]
     /\ pending' = [pending EXCEPT ![s] = batch]
     /\ UNCHANGED delivered

\* The hand-over of what is pending, with a timeout: it works or it fails,
\* and either way the batch is over.
Flush(s, batch) ==
  /\ \/ /\ delivered' = [delivered EXCEPT ![s] = @ \cup batch]
        /\ UNCHANGED failed
     \/ /\ failed' = [failed EXCEPT ![s] = @ \cup batch]
        /\ UNCHANGED delivered
  /\ pending' = [pending EXCEPT ![s] = {}]

\* Receive one event; a full batch is handed over at once.
Receive(s) ==
  LET batch == pending[s] \cup {Head(queue[s])} IN
  /\ Running
  /\ worker[s] = "loop"
  /\ queue[s] # <<>>
  /\ queue' = [queue EXCEPT ![s] = Tail(@)]
  /\ IF Cardinality(batch) >= BatchSize[s]
       THEN Flush(s, batch)
       ELSE /\ pending' = [pending EXCEPT ![s] = batch]
            /\ UNCHANGED <<delivered, failed>>
  /\ UNCHANGED <<mainVars, step, at, closed, chClosed, worker, dropped, lost, panicked>>

\* The flush interval passes.
FlushTick(s) ==
  /\ Running
  /\ worker[s] = "loop"
  /\ pending[s] # {}
  /\ Flush(s, pending[s])
  /\ UNCHANGED <<mainVars, step, at, queue, closed, chClosed, worker, dropped, lost, panicked>>

\* The channel is closed and empty: a last flush, and the worker ends.
WorkerEnds(s) ==
  /\ Running
  /\ worker[s] = "loop"
  /\ s \in chClosed
  /\ queue[s] = <<>>
  /\ worker' = [worker EXCEPT ![s] = "exited"]
  /\ IF pending[s] = {} THEN UNCHANGED <<pending, delivered, failed>>
                        ELSE Flush(s, pending[s])
  /\ UNCHANGED <<mainVars, step, at, queue, closed, chClosed, dropped, lost, panicked>>

-----------------------------------------------------------------------------
(* main.                                                                   *)

deliveryVars == <<step, at, queue, closed, chClosed, workerVars, dropped, lost, panicked>>

SigTerm ==
  /\ phase = "serving"
  /\ phase' = "draining"
  /\ UNCHANGED <<stopAt, waiting, tight, clean, deliveryVars>>

\* Mutant: main does not wait for the handlers.
ShutdownAtOnce ==
  /\ phase = "draining"
  /\ phase' = "stopping"
  /\ UNCHANGED <<stopAt, waiting, tight, clean, deliveryVars>>

\* srv.Shutdown returns nil: every connection is idle.
ShutdownDone ==
  /\ phase = "draining"
  /\ \A r \in Requests : step[r] \in {"idle", "done"}
  /\ phase' = "stopping"
  /\ UNCHANGED <<stopAt, waiting, tight, clean, deliveryVars>>

\* Mutant: Shutdown has no deadline.
ShutdownWaits ==
  /\ phase = "draining"
  /\ UNCHANGED sinkVars

\* The 15s pass with a handler still running: os.Exit(1) runs no deferred call.
ShutdownTimesOut ==
  /\ phase = "draining"
  /\ \E r \in Requests : step[r] \notin {"idle", "done"}
  /\ phase' = "exited"
  /\ UNCHANGED <<stopAt, waiting, tight, clean, deliveryVars>>

\* Stop of one sink: set the flag, close the channel ...
StopSink ==
  LET s == StopOrder[stopAt] IN
  /\ phase = "stopping"
  /\ stopAt <= Len(StopOrder)
  /\ ~waiting
  /\ closed' = closed \cup {s}
  /\ chClosed' = chClosed \cup {s}
  /\ waiting' = TRUE
  /\ UNCHANGED <<phase, stopAt, tight, clean, step, at, queue, workerVars, dropped, lost, panicked>>

\* ... and wait for the worker, or for the shutdown context.
StopReturns ==
  /\ phase = "stopping"
  /\ waiting
  /\ worker[StopOrder[stopAt]] = "exited" \/ tight
  /\ stopAt' = stopAt + 1
  /\ waiting' = FALSE
  /\ UNCHANGED <<phase, tight, clean, deliveryVars>>

TightDeadline ==
  /\ phase = "stopping"
  /\ ~tight
  /\ tight' = TRUE
  /\ UNCHANGED <<phase, stopAt, waiting, clean, deliveryVars>>

MainReturns ==
  /\ phase = "stopping"
  /\ stopAt > Len(StopOrder)
  /\ phase' = "exited"
  /\ clean' = TRUE
  /\ UNCHANGED <<stopAt, waiting, tight, deliveryVars>>

-----------------------------------------------------------------------------
RequestStep(r) == Accept(r) \/ StartEmit(r) \/ CheckClosed(r) \/ Send(r)
WorkerStep(s) == Receive(s) \/ FlushTick(s) \/ WorkerEnds(s)
MainStep == ShutdownDone \/ ShutdownTimesOut \/ StopSink \/ StopReturns \/ MainReturns

SinksNext == \/ \E r \in Requests : RequestStep(r)
        \/ \E s \in Sinks : WorkerStep(s)
        \/ SigTerm \/ MainStep \/ TightDeadline

SinksSpec == SinksInit /\ [][SinksNext]_sinkVars

\* main and the workers run and the two shutdown deadlines pass; a handler
\* may be held for ever (an open event stream, a call waiting for approval).
SinksFair == /\ WF_sinkVars(MainStep) /\ WF_sinkVars(TightDeadline)
             /\ \A s \in Sinks : WF_sinkVars(WorkerStep(s))

-----------------------------------------------------------------------------
(* Properties.                                                             *)

InQueue(s) == {queue[s][k] : k \in DOMAIN queue[s]}

\* Every event a finished request emitted is, in each sink, in exactly one
\* place: waiting, taken by the worker, handed over, failed or counted as
\* dropped.  None vanishes and none is handed over twice.
EventsAccountedFor ==
  \A r \in Requests, s \in Sinks :
    step[r] = "done" =>
      Cardinality({p \in {<<"queue", InQueue(s)>>, <<"pending", pending[s]>>,
                          <<"delivered", delivered[s]>>, <<"failed", failed[s]>>,
                          <<"dropped", dropped[s]>>} : r \in p[2]}) = 1

\* The flag check and the send of an Emit are two steps, and Stop may come in
\* between; main stops the sinks only after every handler has ended.  So no
\* event is sent on a closed channel, none is ignored uncounted, and when main
\* returns within its shutdown budget every sink has been drained.
StopLosesNothing ==
  /\ ~panicked
  /\ \A s \in Sinks : lost[s] = {}
  /\ phase = "exited" /\ clean /\ ~tight => \A s \in Sinks : queue[s] = <<>> /\ pending[s] = {}

\* After a signal the process ends, whatever the handlers and sinks do.
ShutdownEnds == phase = "draining" ~> phase = "exited"
=============================================================================
