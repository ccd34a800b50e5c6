---------------------------- MODULE MCBackground ----------------------------
(***************************************************************************)
(* Background services on small instances, under fairness: the worker's    *)
(* ingestion queue and the broker gateway's authorization.  They share no  *)
(* state; a behaviour runs one of them and the other stays as it starts.   *)
(***************************************************************************)
EXTENDS IngestionQueue, BrokerGateway

VARIABLE part   \* the service that runs

vars == <<part, queueVars, gatewayVars>>

Init == QueueInit /\ GatewayInit /\ part \in {"queue", "gateway"}

QueueStep == part = "queue" /\ QueueNext /\ UNCHANGED <<part, gatewayVars>>
GatewayStep == part = "gateway" /\ GatewayNext /\ UNCHANGED <<part, queueVars>>

Next ==
  \/ QueueStep
  \/ GatewayStep

(* The worker's loop never ends, and time passes; the gateway's event loop *)
(* resumes every task that can go on, and its timeouts expire.  Nothing is *)
(* assumed of the operator, of the API or of the broker's user.            *)
BackgroundSpec ==
  /\ Init /\ [][Next]_vars
  /\ WF_vars(part = "queue" /\ WorkerStep /\ UNCHANGED <<part, gatewayVars>>)
  /\ WF_vars(part = "queue" /\ Elapse /\ UNCHANGED <<part, gatewayVars>>)
  /\ WF_vars(part = "queue" /\ Midnight /\ UNCHANGED <<part, gatewayVars>>)
  /\ WF_vars(/\ part = "gateway" /\ UNCHANGED <<part, queueVars>>
             /\ \E n \in Attempts : FlowStep(n))
  /\ WF_vars(/\ part = "gateway" /\ UNCHANGED <<part, queueVars>>
             /\ \E n \in Attempts : CallbackTimeout(n))
  /\ WF_vars(part = "gateway" /\ Handlers /\ UNCHANGED <<part, queueVars>>)

(* Every row, counter, task and future has its type.                       *)
TypeOK == QueueTypeOK /\ GatewayTypeOK
=============================================================================
