----------------------------- MODULE AuditStream -----------------------------
(***************************************************************************)
(* The live audit stream: StreamHub (internal/audit/stream.go) and the SSE *)
(* handler that serves it (internal/handlers/audit_stream.go).  Emit and   *)
(* Subscribe are critical sections of StreamHub.mu.  A client that loses   *)
(* its connection comes back with the id of the last frame it received.    *)
(***************************************************************************)
EXTENDS Naturals, Sequences

CONSTANTS Clients,
          RingSize,   \* events the hub keeps for replay
          Buffer,     \* frames a subscriber's channel holds
          MaxSeq      \* bound on the number of events

ASSUME RingAssumption == /\ RingSize \in Nat \ {0}
                          /\ Buffer \in Nat \ {0}
                          /\ MaxSeq \in Nat

VARIABLES
  seq,        \* StreamHub.seq
  ring,       \* sequence numbers of the events in the ring
  connected,  \* the clients with a subscription
  replay,     \* what the handler still has to replay to each client
  chan,       \* the subscriber's channel
  lastId,     \* the client's Last-Event-ID (0: none yet)
  received,   \* the frames each client received, in order
  excused     \* history: frames dropped on a full channel, or gone from the
              \* ring before the client came back

streamVars == <<seq, ring, connected, replay, chan, lastId, received, excused>>

StreamInit ==
  /\ seq = 0
  /\ ring = <<>>
  /\ connected = {}
  /\ replay = [c \in Clients |-> <<>>]
  /\ chan = [c \in Clients |-> <<>>]
  /\ lastId = [c \in Clients |-> 0]
  /\ received = [c \in Clients |-> <<>>]
  /\ excused = [c \in Clients |-> {}]

\* The ring keeps the newest RingSize events.
Pushed(r, n) == Append(IF Len(r) >= RingSize THEN Tail(r) ELSE r, n)

Full(c) == Len(chan[c]) >= Buffer

\* Emit: number the event, keep it, and offer it to every subscriber.
Emit ==
  /\ seq < MaxSeq
  /\ seq' = seq + 1
  /\ ring' = Pushed(ring, seq + 1)
  /\ chan' = [c \in Clients |-> IF c \in connected /\ ~Full(c)
                                  THEN Append(chan[c], seq + 1) ELSE chan[c]]
  /\ excused' = [c \in Clients |-> IF c \in connected /\ Full(c)
                                     THEN excused[c] \cup {seq + 1} ELSE excused[c]]
  /\ UNCHANGED <<connected, replay, lastId, received>>

\* Mutant: the replay starts at the resume point instead of after it.
NewerOrSame(n, afterSeq) == n >= afterSeq

\* se.Seq > afterSeq.
Newer(n, afterSeq) == n > afterSeq

\* Subscribe(Last-Event-ID): the replay and the channel, under one lock.
Subscribe(c) ==
  LET Missed(n) == Newer(n, lastId[c]) IN
  /\ c \notin connected
  /\ connected' = connected \cup {c}
  /\ replay' = [replay EXCEPT ![c] = SelectSeq(ring, Missed)]
  /\ excused' = [excused EXCEPT ![c] = @ \cup
                   {n \in (lastId[c] + 1)..seq : \A k \in DOMAIN ring : ring[k] # n}]
  /\ UNCHANGED <<seq, ring, chan, lastId, received>>

\* A frame reaches the client.
Receives(c, n) ==
  /\ received' = [received EXCEPT ![c] = Append(@, n)]
  /\ lastId' = [lastId EXCEPT ![c] = n]

\* The handler writes the replay first ...
WriteReplay(c) ==
  /\ c \in connected
  /\ replay[c] # <<>>
  /\ Receives(c, Head(replay[c]))
  /\ replay' = [replay EXCEPT ![c] = Tail(@)]
  /\ UNCHANGED <<seq, ring, connected, chan, excused>>

\* ... and then what the channel holds.
WriteLive(c) ==
  /\ c \in connected
  /\ replay[c] = <<>>
  /\ chan[c] # <<>>
  /\ Receives(c, Head(chan[c]))
  /\ chan' = [chan EXCEPT ![c] = Tail(@)]
  /\ UNCHANGED <<seq, ring, connected, replay, excused>>

\* The connection ends: cancel unregisters the channel, what it held is lost.
Disconnect(c) ==
  /\ c \in connected
  /\ connected' = connected \ {c}
  /\ replay' = [replay EXCEPT ![c] = <<>>]
  /\ chan' = [chan EXCEPT ![c] = <<>>]
  /\ UNCHANGED <<seq, ring, lastId, received, excused>>

StreamNext == \/ Emit
        \/ \E c \in Clients : Subscribe(c) \/ WriteReplay(c) \/ WriteLive(c) \/ Disconnect(c)

-----------------------------------------------------------------------------
Got(c) == {received[c][k] : k \in DOMAIN received[c]}

\* Whatever the disconnects and resumes, a client receives the events in the
\* order they were emitted and none twice, and it misses only what the hub had
\* to give up: a frame dropped on its full channel, or one that had left the
\* ring before the client came back.
StreamResumesInOrder ==
  \A c \in Clients :
    /\ \A k \in 2..Len(received[c]) : received[c][k - 1] < received[c][k]
    /\ 1..lastId[c] \subseteq Got(c) \cup excused[c]
=============================================================================
