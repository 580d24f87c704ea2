--------------------------- MODULE ApprovalQueue ---------------------------
(***************************************************************************)
(* What the human-approval queue promises (the Store contract of           *)
(* internal/approvals/approvals.go): a row is settled at most once, and an *)
(* escalated call goes on only if its row was settled as approved.  A call *)
(* may be blocked at any time: every error fails closed.                   *)
(***************************************************************************)
CONSTANT Ids            \* pending ids; each belongs to one escalated call

VARIABLES verdict,      \* the row's status, "none" before it is enqueued
          outcome       \* what became of the call

vars == <<verdict, outcome>>

Final == {"approved", "rejected", "timeout"}

Init == /\ verdict = [i \in Ids |-> "none"]
        /\ outcome = [i \in Ids |-> "none"]

Enqueue(i) == /\ verdict[i] = "none"
              /\ verdict' = [verdict EXCEPT ![i] = "pending"]
              /\ UNCHANGED outcome

Settle(i, v) == /\ verdict[i] = "pending"
                /\ verdict' = [verdict EXCEPT ![i] = v]
                /\ UNCHANGED outcome

Proceed(i) == /\ outcome[i] = "none"
              /\ verdict[i] = "approved"
              /\ outcome' = [outcome EXCEPT ![i] = "proceed"]
              /\ UNCHANGED verdict

\* The row may be inserted by the very call that fails, and settled as timed
\* out in the step that blocks the call.
Block(i) == /\ outcome[i] = "none"
            /\ outcome' = [outcome EXCEPT ![i] = "blocked"]
            /\ \/ UNCHANGED verdict
               \/ verdict[i] = "none" /\ verdict' = [verdict EXCEPT ![i] = "pending"]
               \/ verdict[i] = "pending" /\ verdict' = [verdict EXCEPT ![i] = "timeout"]

Next == \E i \in Ids : \/ Enqueue(i) \/ Proceed(i) \/ Block(i)
                       \/ \E v \in Final : Settle(i, v)

Spec == Init /\ [][Next]_vars
=============================================================================
