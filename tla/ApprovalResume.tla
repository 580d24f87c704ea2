--------------------------- MODULE ApprovalResume ---------------------------
(***************************************************************************)
(* Asynchronous approval (ApprovalAsync of internal/handlers/mcp.go): an   *)
(* escalated call is answered at once with its pending id, and the agent   *)
(* retries it with that id in a header.  A retry is compared with the row  *)
(* by the JSON of its arguments, which went through the queue's storage.   *)
(***************************************************************************)
EXTENDS Naturals

CONSTANTS Ids, Agents, Tools,
          MaxRuns    \* bound on how often one id lets a call go on

\* params.arguments: left out (a nil map), the empty object, or some object.
ArgMaps == {"nil", "{}", "{x}", "{y}"}
Requests == [agent : Agents, tool : Tools, args : ArgMaps]
NoRow == [status |-> "none"]
Rows == [status : {"pending", "approved", "rejected"}, call : Requests]

VARIABLES
  backend,   \* the store the gateway was started with
  rows,      \* the queue; a row's call is what Get returns for it
  escalated, \* history: the calls each id was handed out for, as received
  runs,      \* how often each id let a call go on
  ran        \* history: <<id, call>> of the calls that went on

vars == <<backend, rows, escalated, runs, ran>>

Init ==
  /\ backend \in {"memory", "postgres"}
  /\ rows = [i \in Ids |-> NoRow]
  /\ escalated = [i \in Ids |-> {}]
  /\ runs = [i \in Ids |-> 0]
  /\ ran = {}

\* What the queue gives back for the arguments it was handed.  Postgres
\* stores no arguments as NULL and reads NULL as a nil map.
StoredArgs(a) == IF backend = "postgres" /\ a = "{}" THEN "nil" ELSE a

\* Escalation of a call without the header: one new row.
Hold(i, c) ==
  /\ rows[i] = NoRow
  /\ rows' = [rows EXCEPT ![i] = [status |-> "pending",
                                  call |-> [c EXCEPT !.args = StoredArgs(@)]]]
  /\ escalated' = [escalated EXCEPT ![i] = {c}]
  /\ UNCHANGED <<backend, runs, ran>>

\* Only an approved or rejected decision is recorded; in this mode nothing
\* ever sets timeout.
Decide(i, v) ==
  /\ v \in {"approved", "rejected"}
  /\ rows[i].status = "pending"
  /\ rows' = [rows EXCEPT ![i].status = v]
  /\ UNCHANGED <<backend, escalated, runs, ran>>

\* Mutant: the arguments are not compared.
SameAgentAndTool(row, c) == row.call.agent = c.agent /\ row.call.tool = c.tool

\* json.Marshal of a nil map is null, of an empty one {}: the texts differ
\* exactly where the maps do.
sameApprovalCall(row, c) == row.call = c

\* resumeApproval on an id with a row (an unknown id is blocked).  A call
\* that is not the held one is blocked as an approval mismatch; so is, with
\* Postgres, the held one when its arguments were an empty object.
ResumeMismatch(i, c) ==
  /\ rows[i] # NoRow
  /\ ~sameApprovalCall(rows[i], c)
  /\ UNCHANGED vars

ResumeApproved(i, c) ==
  /\ rows[i] # NoRow
  /\ sameApprovalCall(rows[i], c)
  /\ rows[i].status = "approved"
  /\ runs[i] < MaxRuns
  /\ runs' = [runs EXCEPT ![i] = @ + 1]
  /\ ran' = ran \cup {<<i, c>>}
  /\ UNCHANGED <<backend, rows, escalated>>

\* A matching call whose row is pending is told to wait, and a rejected one
\* is blocked; neither changes the queue.
ResumeAnswered(i, c) ==
  /\ rows[i] # NoRow
  /\ sameApprovalCall(rows[i], c)
  /\ rows[i].status \in {"pending", "rejected"}
  /\ UNCHANGED vars

Next == \E i \in Ids :
          \/ \E v \in {"approved", "rejected", "timeout"} : Decide(i, v)
          \/ \E c \in Requests : \/ Hold(i, c) \/ ResumeMismatch(i, c)
                                 \/ ResumeApproved(i, c) \/ ResumeAnswered(i, c)

Spec == Init /\ [][Next]_vars

-----------------------------------------------------------------------------
\* An argument list that was left out is an empty one.
Meaning(c) == [c EXCEPT !.args = IF @ = "nil" THEN "{}" ELSE @]

\* "an approval can never be replayed against a different action"
\* (resumeApproval): every call an id let through means what was escalated
\* under that id, and its row was approved.
RunsWhatWasApproved ==
  \A x \in ran : /\ rows[x[1]].status = "approved"
                 /\ \E c \in escalated[x[1]] : Meaning(c) = Meaning(x[2])
=============================================================================
