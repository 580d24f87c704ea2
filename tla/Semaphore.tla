----------------------------- MODULE Semaphore -----------------------------
(***************************************************************************)
(* What the bulkhead of internal/faultisolation promises: for every tool a *)
(* counting semaphore of Capacity permits.  At most Capacity calls hold a  *)
(* permit of one tool, and a tool's permits are its own.                   *)
(***************************************************************************)
EXTENDS Integers, FiniteSets

CONSTANTS Tools,     \* the tools of the upstream
          Calls,     \* the calls being handled
          Capacity   \* permits per tool

VARIABLE holders     \* holders[t]: the calls holding a permit of tool t

Init == holders = [t \in Tools |-> {}]

\* Call c takes a permit of tool t; it holds none, and one is left.
Enter(c, t) ==
  /\ \A u \in Tools : c \notin holders[u]
  /\ Cardinality(holders[t]) < Capacity
  /\ holders' = [holders EXCEPT ![t] = @ \cup {c}]

\* Call c gives its permit of tool t back.
Leave(c, t) ==
  /\ c \in holders[t]
  /\ holders' = [holders EXCEPT ![t] = @ \ {c}]

Next == \E c \in Calls, t \in Tools : Enter(c, t) \/ Leave(c, t)

Spec == Init /\ [][Next]_holders
=============================================================================
