------------------------------ MODULE PolicyReload ------------------------------
(***************************************************************************)
(* How a change of the active policy reaches the engine every replica      *)
(* evaluates with: the admin handlers that write the store and swap their  *)
(* own engine (internal/handlers/admin_policies.go), the LISTEN session    *)
(* with its polling fallback and its fan-out                               *)
(* (internal/policystore/postgres.go), the watcher and the start-up        *)
(* (cmd/gateway/main.go), and the engines (internal/policy/reloader.go).   *)
(*                                                                         *)
(* The store's operations are atomic here (PolicyStore); one tenant slot,  *)
(* not the fallback slot, is modelled: slots share no state but the queue. *)
(***************************************************************************)
EXTENDS Naturals, Sequences

CONSTANTS
  Replicas,    \* gateway processes
  Admins,      \* the replicas the operators' calls go to
  Drafts,      \* stored drafts
  None,        \* no draft: the fallback slot's engine evaluates
  Calls,       \* admin calls, each made at most once
  Scenarios    \* bounds on what happens, as records of
               \*   replicas, calls: the ones there are
               \*   kinds: of calls: promote, rollback, clear, propose, approve
               \*   buffer: capacity of a watch channel (4 in the code)
               \*   edits: times a stored draft is edited
               \*   restarts: of a replica
               \*   drops: lost listener connections and failed reads of the row
               \*   readFails: failed reads of a draft, by a watcher or at start-up

ASSUME NoneAssumption == None \notin Drafts
ASSUME ScenariosAssumption ==
  \A s \in Scenarios : /\ Admins \subseteq s.replicas /\ s.replicas \subseteq Replicas
                       /\ s.calls \subseteq Calls
                       /\ s.buffer \in Nat \ {0}

VARIABLES
  scenario,    \* the bounds, chosen once
  row,         \* the slot's row: does it exist, its current, previous and proposed draft
  version,     \* of each draft's source: how often it was edited
  everLive,    \* drafts that have been current
  call,        \* the admin calls: step, and what they have read
  engine,      \* each replica's compiled slot: draft and version, draft None if empty
  phase,       \* of each replica: open (store), hydrated, seeded, up; or down
  listening,   \* its LISTEN session is connected
  notes,       \* NOTIFYs sent to the session and not taken
  lastActive,  \* what the session last saw current
  chan,        \* the watcher's channel: current drafts
  loading,     \* the draft the watcher has taken and not yet swapped in, or None
  lastApplied, \* what the watcher last swapped in
  missed,      \* history: the newest value for the watcher was lost on its way
  edits, restarts, drops, readFails

storeVars == <<row, version, everLive>>
listenVars == <<listening, notes, lastActive>>
watchVars == <<chan, loading, lastApplied, missed>>
counters == <<edits, restarts, drops, readFails>>
vars == <<scenario, storeVars, call, engine, phase, listenVars, watchVars, counters>>

NoEngine == [draft |-> None, version |-> 0]
NoRow == [exists |-> FALSE, cur |-> None, prev |-> None, prop |-> None]
Compiled(d) == [draft |-> d, version |-> version[d]]
FreshCall == [step |-> "new", at |-> CHOOSE r \in Replicas : TRUE,
              kind |-> "clear", engine |-> NoEngine]

\* Every replica is up and nothing has been promoted.
Init ==
  /\ scenario \in Scenarios
  /\ row = NoRow
  /\ version = [d \in Drafts |-> 0]
  /\ everLive = {}
  /\ call = [c \in Calls |-> FreshCall]
  /\ engine = [r \in Replicas |-> NoEngine]
  /\ phase = [r \in Replicas |-> "up"]
  /\ listening = [r \in Replicas |-> TRUE]
  /\ notes = [r \in Replicas |-> 0]
  /\ lastActive = [r \in Replicas |-> None]
  /\ chan = [r \in Replicas |-> <<>>]
  /\ loading = [r \in Replicas |-> None]
  /\ lastApplied = [r \in Replicas |-> None]
  /\ missed = [r \in Replicas |-> FALSE]
  /\ edits = 0 /\ restarts = 0 /\ drops = 0 /\ readFails = 0

-----------------------------------------------------------------------------
(* The admin handlers: read and compile; write the store; swap.            *)

\* pg_notify in the transaction: every connected session gets one.
Notify == notes' = [r \in Replicas |-> IF listening[r] /\ r \in scenario.replicas THEN notes[r] + 1 ELSE notes[r]]

\* The draft a call is about: the one it names, the one to go back to, or the
\* one that is proposed.
Target(kind, d) == CASE kind = "promote" -> d
                     [] kind = "rollback" -> row.prev
                     [] kind = "approve" -> row.prop
                     [] kind = "clear" -> None

\* GetDraft and NewEngine, before the store is written.  Clearing compiles
\* nothing.
CallCompiles(c, r, kind, d) ==
  LET target == Target(kind, d) IN
  /\ call[c].step = "new"
  /\ phase[r] = "up" /\ r \in Admins
  /\ kind \in scenario.kinds
  /\ kind # "clear" => target # None
  /\ call' = [call EXCEPT ![c] = [step |-> "write", at |-> r, kind |-> kind,
                engine |-> IF kind = "clear" THEN NoEngine ELSE Compiled(target)]]
  /\ UNCHANGED <<storeVars, engine, phase, listenVars, watchVars, counters>>

\* The store operation succeeds, on the row as it is now.
Written(c) ==
  LET d == call[c].engine.draft IN
  CASE call[c].kind = "promote" ->
         IF row.cur = d THEN row
                        ELSE [row EXCEPT !.exists = TRUE, !.cur = d, !.prev = row.cur]
    [] call[c].kind = "rollback" -> [row EXCEPT !.cur = row.prev, !.prev = None]
    [] call[c].kind = "approve" -> [row EXCEPT !.cur = row.prop, !.prev = row.cur, !.prop = None]
    [] call[c].kind = "clear" -> NoRow

CallWrites(c) ==
  /\ call[c].step = "write"
  /\ call[c].kind = "rollback" => row.prev # None
  /\ call[c].kind = "approve" => row.prop # None
  /\ row' = Written(c)
  /\ everLive' = everLive \cup ({row'.cur} \ {None})
  /\ call' = [call EXCEPT ![c].step = "swap"]
  /\ IF call[c].kind = "promote" /\ row' = row THEN UNCHANGED notes ELSE Notify
  /\ UNCHANGED <<version, engine, phase, listening, lastActive, watchVars, counters>>

\* There is nothing to roll back to or to approve any more, or the store fails.
CallRefused(c) ==
  /\ call[c].step = "write"
  /\ call' = [call EXCEPT ![c] = [FreshCall EXCEPT !.step = "done"]]
  /\ UNCHANGED <<storeVars, engine, phase, listenVars, watchVars, counters>>

\* Mutant: the engine is swapped before the store accepts the change.
SwapsFirst(c) ==
  /\ call[c].step \in {"write", "swap"}
  /\ engine' = [engine EXCEPT ![call[c].at] = call[c].engine]
  /\ call' = IF call[c].step = "swap"
               THEN [call EXCEPT ![c] = [FreshCall EXCEPT !.step = "done"]] ELSE call
  /\ UNCHANGED <<storeVars, phase, listenVars, watchVars, counters>>

\* Reloader.SwapFor, or RemoveFor, with the engine compiled before.
CallSwaps(c) ==
  /\ call[c].step = "swap"
  /\ engine' = [engine EXCEPT ![call[c].at] = call[c].engine]
  /\ call' = [call EXCEPT ![c] = [FreshCall EXCEPT !.step = "done"]]
  /\ UNCHANGED <<storeVars, phase, listenVars, watchVars, counters>>

\* A proposal writes its columns and notifies nobody.
CallProposes(c, d) ==
  /\ call[c].step = "new"
  /\ "propose" \in scenario.kinds
  /\ row' = [row EXCEPT !.exists = TRUE, !.prop = d]
  /\ call' = [call EXCEPT ![c].step = "done"]
  /\ UNCHANGED <<version, everLive, engine, phase, listenVars, watchVars, counters>>

\* PUT of a draft: nothing looks at whether it is live.
UpdateDraft(d) ==
  /\ edits < scenario.edits
  /\ version' = [version EXCEPT ![d] = @ + 1]
  /\ edits' = edits + 1
  /\ UNCHANGED <<row, everLive, call, engine, phase, listenVars, watchVars, restarts, drops, readFails>>

-----------------------------------------------------------------------------
(* listenerSession.                                                        *)

\* fanOut: without a subscriber, or into a full buffer, the value is dropped.
FanOut(r, d) ==
  LET taken == phase[r] = "up" /\ Len(chan[r]) < scenario.buffer IN
  /\ chan' = IF taken THEN [chan EXCEPT ![r] = Append(@, d)] ELSE chan
  /\ missed' = [missed EXCEPT ![r] = ~taken]

\* A NOTIFY: read the row again and pass it on.
TakeNote(r) ==
  /\ listening[r] /\ notes[r] > 0
  /\ notes' = [notes EXCEPT ![r] = @ - 1]
  /\ lastActive' = [lastActive EXCEPT ![r] = row.cur]
  /\ FanOut(r, row.cur)
  /\ UNCHANGED <<storeVars, call, engine, phase, listening, loading, lastApplied, counters>>

\* The read after a NOTIFY fails: the notification is lost, lastActive stays.
TakeNoteFails(r) ==
  /\ listening[r] /\ notes[r] > 0
  /\ drops < scenario.drops
  /\ drops' = drops + 1
  /\ notes' = [notes EXCEPT ![r] = @ - 1]
  /\ UNCHANGED <<storeVars, call, engine, phase, listening, lastActive, watchVars, edits, restarts, readFails>>

\* Mutant: the poll compares and does not pass on.
PollQuietly(r) ==
  /\ listening[r]
  /\ row.exists /\ row.cur # lastActive[r]
  /\ lastActive' = [lastActive EXCEPT ![r] = row.cur]
  /\ UNCHANGED <<storeVars, call, engine, phase, listening, notes, watchVars, counters>>

\* The wait times out: every existing row that differs is passed on.
Poll(r) ==
  /\ listening[r]
  /\ row.exists /\ row.cur # lastActive[r]
  /\ lastActive' = [lastActive EXCEPT ![r] = row.cur]
  /\ FanOut(r, row.cur)
  /\ UNCHANGED <<storeVars, call, engine, phase, listening, notes, loading, lastApplied, counters>>

\* The connection is lost, with what was sent to it ...
ListenerDrops(r) ==
  /\ listening[r]
  /\ drops < scenario.drops
  /\ drops' = drops + 1
  /\ listening' = [listening EXCEPT ![r] = FALSE]
  /\ notes' = [notes EXCEPT ![r] = 0]
  /\ UNCHANGED <<storeVars, call, engine, phase, lastActive, watchVars, edits, restarts, readFails>>

\* ... and runListener starts a new session, which has seen nothing yet.
Listen(r) ==
  /\ ~listening[r] /\ phase[r] # "down"
  /\ listening' = [listening EXCEPT ![r] = TRUE]
  /\ lastActive' = [lastActive EXCEPT ![r] = None]
  /\ UNCHANGED <<storeVars, call, engine, phase, notes, watchVars, counters>>

-----------------------------------------------------------------------------
(* watchAndReloadPolicy.                                                   *)

\* The watcher is left without the newest value it was given.
LosesLast(r, on) == missed' = [missed EXCEPT ![r] = @ \/ (on /\ Len(chan'[r]) = 0)]

\* An empty draft id clears the slot; one that was applied last, or is taken
\* for that, is skipped; another is loaded and compiled.
WatchReceives(r) ==
  LET d == Head(chan[r]) IN
  /\ phase[r] = "up"
  /\ loading[r] = None
  /\ chan[r] # <<>>
  /\ chan' = [chan EXCEPT ![r] = Tail(@)]
  /\ IF d = None
       THEN /\ engine' = [engine EXCEPT ![r] = NoEngine]
            /\ lastApplied' = [lastApplied EXCEPT ![r] = None]
            /\ UNCHANGED <<loading, missed>>
       ELSE /\ loading' = [loading EXCEPT ![r] = IF d = lastApplied[r] THEN None ELSE d]
            /\ LosesLast(r, d = lastApplied[r] /\ engine[r].draft # d)
            /\ UNCHANGED <<engine, lastApplied>>
  /\ UNCHANGED <<storeVars, call, phase, listenVars, counters>>

WatchSwaps(r) ==
  /\ loading[r] # None
  /\ engine' = [engine EXCEPT ![r] = Compiled(loading[r])]
  /\ lastApplied' = [lastApplied EXCEPT ![r] = loading[r]]
  /\ loading' = [loading EXCEPT ![r] = None]
  /\ UNCHANGED <<storeVars, call, phase, listenVars, chan, missed, counters>>

\* GetDraft fails: the engine in place keeps serving.
WatchFails(r) ==
  /\ loading[r] # None
  /\ readFails < scenario.readFails
  /\ readFails' = readFails + 1
  /\ loading' = [loading EXCEPT ![r] = None]
  /\ UNCHANGED chan /\ LosesLast(r, TRUE)
  /\ UNCHANGED <<storeVars, call, engine, phase, listenVars, lastApplied, edits, restarts, drops>>

-----------------------------------------------------------------------------
(* A replica restarts: the store is opened, with its listener; what is     *)
(* active is loaded, read once more for the watcher, and watched.          *)

Restart(r) ==
  /\ restarts < scenario.restarts
  /\ restarts' = restarts + 1
  /\ phase' = [phase EXCEPT ![r] = "open"]
  /\ engine' = [engine EXCEPT ![r] = NoEngine]
  /\ listening' = [listening EXCEPT ![r] = FALSE]
  /\ notes' = [notes EXCEPT ![r] = 0]
  /\ lastActive' = [lastActive EXCEPT ![r] = None]
  /\ chan' = [chan EXCEPT ![r] = <<>>]
  /\ loading' = [loading EXCEPT ![r] = None]
  /\ lastApplied' = [lastApplied EXCEPT ![r] = None]
  /\ missed' = [missed EXCEPT ![r] = FALSE]
  /\ call' = [c \in Calls |-> IF call[c].at = r /\ call[c].step \in {"write", "swap"}
                                THEN [FreshCall EXCEPT !.step = "done"] ELSE call[c]]
  /\ UNCHANGED <<storeVars, edits, drops, readFails>>

\* reloadActivePolicy
Hydrate(r) ==
  /\ phase[r] = "open"
  /\ phase' = [phase EXCEPT ![r] = "hydrated"]
  /\ engine' = [engine EXCEPT ![r] = IF row.cur = None THEN NoEngine ELSE Compiled(row.cur)]
  /\ missed' = [missed EXCEPT ![r] = FALSE]
  /\ UNCHANGED <<storeVars, call, listenVars, chan, loading, lastApplied, counters>>

\* ... or the rows or a draft cannot be read, and the process exits.
HydrateFails(r) ==
  /\ phase[r] = "open"
  /\ readFails < scenario.readFails
  /\ readFails' = readFails + 1
  /\ phase' = [phase EXCEPT ![r] = "down"]
  /\ listening' = [listening EXCEPT ![r] = FALSE]
  /\ notes' = [notes EXCEPT ![r] = 0]
  /\ UNCHANGED <<storeVars, call, engine, lastActive, watchVars, edits, restarts, drops>>

\* startupDraftIDs
Seed(r) ==
  /\ phase[r] = "hydrated"
  /\ phase' = [phase EXCEPT ![r] = "seeded"]
  /\ lastApplied' = [lastApplied EXCEPT ![r] = row.cur]
  /\ UNCHANGED <<storeVars, call, engine, listenVars, chan, loading, missed, counters>>

\* store.Watch
Watch(r) ==
  /\ phase[r] = "seeded"
  /\ phase' = [phase EXCEPT ![r] = "up"]
  /\ UNCHANGED <<storeVars, call, engine, listenVars, watchVars, counters>>

-----------------------------------------------------------------------------
CallStep(c) == CallWrites(c) \/ CallRefused(c) \/ CallSwaps(c)
ListenerStep(r) == TakeNote(r) \/ Poll(r) \/ Listen(r)
WatcherStep(r) == WatchReceives(r) \/ WatchSwaps(r)
StartStep(r) == Hydrate(r) \/ Seed(r) \/ Watch(r)

Next ==
  /\ \/ \E c \in scenario.calls :
          \/ \E r \in scenario.replicas, kind \in scenario.kinds \ {"propose"}, d \in Drafts :
               CallCompiles(c, r, kind, d)
          \/ \E d \in Drafts : CallProposes(c, d)
          \/ CallStep(c)
     \/ \E d \in Drafts : UpdateDraft(d)
     \/ \E r \in scenario.replicas :
          \/ ListenerStep(r) \/ WatcherStep(r) \/ StartStep(r)
          \/ TakeNoteFails(r) \/ WatchFails(r) \/ HydrateFails(r) \/ ListenerDrops(r) \/ Restart(r)
  /\ UNCHANGED scenario

Spec == Init /\ [][Next]_vars

\* The listener, the watcher and a start-up of the replicas that only follow
\* run.  A call may stop for ever between two of its steps.
FairSpec ==
  /\ Spec
  /\ \A r \in Replicas \ Admins :
       LET There == r \in scenario.replicas /\ UNCHANGED scenario IN
       /\ WF_vars(There /\ ListenerStep(r)) /\ WF_vars(There /\ WatcherStep(r))
       /\ WF_vars(There /\ StartStep(r))

-----------------------------------------------------------------------------
(* Properties.                                                             *)

\* No replica evaluates with a draft that was never made active, whatever
\* calls, reloads, restarts and failures interleave: handlers and watcher
\* swap only after the store has the change.
OnlyActivatedDraftsRun ==
  \A r \in Replicas : engine[r].draft \in everLive \cup {None}

Current(r) == engine[r] = IF row.cur = None THEN NoEngine ELSE Compiled(row.cur)

\* Once the operators stop, every replica their calls do not go to, if it is
\* up, comes to run the draft that is active and stays with it, whatever
\* notifications and connections were lost, unless the watcher was left
\* without the newest value: it was dropped at a full channel or before the
\* watcher was there, reading the draft failed, or start-up had recorded it
\* as applied.  The poll does not bring back such a value, for lastActive
\* counts it as delivered.  (The replicas operators call also change their
\* engine in the handlers; a cleared slot is not polled.)
FollowersConverge ==
  \A r \in Replicas \ Admins :
    <>[](r \in scenario.replicas /\ phase[r] = "up" /\ row.cur # None
           => Current(r) \/ missed[r])

\* Of a consumer that misses a notification store.go says that "the polling
\* fallback (PostgresStore)" ... "eventually delivers a fresh value for the
\* same field": a replica that stays up comes to run the active draft.
ReplicasComeToAgree ==
  \A r \in Replicas \ Admins :
    <>[](r \in scenario.replicas /\ phase[r] = "up" /\ row.cur # None => Current(r))
=============================================================================
