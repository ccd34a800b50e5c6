-------------------------- MODULE AtMostOnceOrder --------------------------
(***************************************************************************)
(* What controlled execution promises, without any of its machinery.       *)
(*                                                                         *)
(* For every approved intent there is at most one request to the broker,   *)
(* what the ledger says of it is never better than what the broker did,    *)
(* and a refusal, once recorded, is the last word.  The promise says       *)
(* nothing about threads, locks, snapshots, the circuit breaker or the     *)
(* operator: ControlledExecution shows that its steps implement this one.  *)
(***************************************************************************)
CONSTANT Intents        \* the immutable trade intents

VARIABLES
  ledger,               \* what the execution ledger believes of each intent
  broker                \* what became of the one request for each intent

vars == <<ledger, broker>>

Beliefs == {"unsent", "uncertain", "known", "refused"}
Outcomes == {"none", "asked", "held", "refused"}

TypeOK ==
  /\ ledger \in [Intents -> Beliefs]
  /\ broker \in [Intents -> Outcomes]

Init ==
  /\ ledger = [i \in Intents |-> "unsent"]
  /\ broker = [i \in Intents |-> "none"]

-----------------------------------------------------------------------------
\* The one request for intent i leaves; until an answer is recorded nobody
\* on this side knows what became of it.
Submit(i) ==
  /\ ledger[i] = "unsent" /\ broker[i] = "none"
  /\ ledger' = [ledger EXCEPT ![i] = "uncertain"]
  /\ broker' = [broker EXCEPT ![i] = "asked"]

\* The broker takes the order or refuses it, once.
Answer(i) ==
  /\ broker[i] = "asked"
  /\ \E o \in {"held", "refused"} : broker' = [broker EXCEPT ![i] = o]
  /\ UNCHANGED ledger

\* A refusal is recorded only for a request the broker did refuse.
RecordRefusal(i) ==
  /\ ledger[i] = "uncertain" /\ broker[i] = "refused"
  /\ ledger' = [ledger EXCEPT ![i] = "refused"]
  /\ UNCHANGED broker

\* An order is recorded on evidence of an order the broker holds.  Which one
\* is the operator's word when the reference was supplied by hand.
RecordOrder(i) ==
  /\ ledger[i] = "uncertain"
  /\ \E r \in Intents : broker[r] = "held"
  /\ ledger' = [ledger EXCEPT ![i] = "known"]
  /\ UNCHANGED broker

\* Conflicting evidence puts a recorded order back in doubt.
Doubt(i) ==
  /\ ledger[i] = "known"
  /\ ledger' = [ledger EXCEPT ![i] = "uncertain"]
  /\ UNCHANGED broker

Next ==
  \E i \in Intents :
    Submit(i) \/ Answer(i) \/ RecordRefusal(i) \/ RecordOrder(i) \/ Doubt(i)

Spec == Init /\ [][Next]_vars
=============================================================================
