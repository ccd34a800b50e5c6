------------------------- MODULE MCExecutionSafety -------------------------
(* The two instances on which the safety of execution is checked, told     *)
(* apart by how much the operator authorizes.                              *)
EXTENDS MCControlledExecution

Busy == {h \in Handlers : req[h].pc # "idle"}

\* Under an authorization of 1 two handlers race without the worker, and the
\* order keeps its own terms, lives, and fills in part.
Racing ==
  /\ req[Worker] = Idle
  /\ \A i \in Intents :
       /\ order[i].state # "dead" /\ order[i].filled < Qty
       /\ order[i].terms \in {None, Ordered}

\* Under one of 2 one handler at a time runs beside the worker, and the order
\* does whatever it may.
Beside == Cardinality(Busy) <= 1

\* The kill switch stays clear: it is read only together with the breaker, and
\* written only by the operator.
InSetup ==
  /\ ~kill
  /\ CASE authCap = 0 -> (Racing \/ Beside) /\ \A i \in Intents : calls[i] = 0
       [] authCap = 1 -> Racing
       [] authCap = 2 -> Beside

\* Once an order was placed the authorization stays: nothing reads it then but
\* a request that would place again.
StaysAuthorized == (\E i \in Intents : calls[i] > 0) => authCap' = authCap

\* A thread that is on its way leaves the setup only where the order is placed
\* after the authorization ended; InSetup, a constraint, stops it there.
SafetyNext ==
  \/ (Requests \/ Sweeps \/ Environment) /\ StaysAuthorized /\ InSetup'
  \/ \E t \in Threads : Continues(t) \/ Dies(t)

SafetySpec == Init /\ [][SafetyNext]_vars
=============================================================================
