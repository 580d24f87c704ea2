---------------------------- MODULE MCAuditTrail -----------------------------
(***************************************************************************)
(* What becomes of an audit event: the chained rows of the store, the      *)
(* asynchronous sinks and the end of the process, and the live stream.     *)
(* They share no state but the event itself, so one specification takes    *)
(* each in turn: path is chosen once and the others stay as they began.    *)
(***************************************************************************)
EXTENDS AuditChain, AuditSinks, AuditStream, TLC

VARIABLE path   \* the way of the event that is looked at

trailVars == <<path, vars, sinkVars, streamVars>>

ChainOff == body = [e \in Events |-> CHOOSE b \in Bodies : TRUE]

TrailInit ==
  /\ path \in {"chain", "sinks", "stream"}
  /\ path = "chain" \/ ChainOff
  /\ Init /\ SinksInit /\ StreamInit

TrailNext ==
  /\ \/ path = "chain" /\ Next /\ UNCHANGED <<sinkVars, streamVars>>
     \/ path = "sinks" /\ SinksNext /\ UNCHANGED <<vars, streamVars>>
     \/ path = "stream" /\ StreamNext /\ UNCHANGED <<vars, sinkVars>>
  /\ UNCHANGED path

-----------------------------------------------------------------------------
(* The instance that is checked. *)

MCEmitOrder == <<"store", "siem">>
MCStopOrder == <<"siem", "store">>
MCBufferSize == ("store" :> 1) @@ ("siem" :> 2)
MCBatchSize == ("store" :> 1) @@ ("siem" :> 2)
=============================================================================
