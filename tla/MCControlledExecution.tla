----------------------- MODULE MCControlledExecution -----------------------
(* ControlledExecution with small sets for TLC. *)
EXTENDS ControlledExecution, TLC

CONSTANT Unit     \* notional of every intent

UnitNotional == [i \in Intents |-> Unit]
Ordered == CHOOSE v \in TermValues : TRUE
SameTerms == [i \in Intents |-> Ordered]

\* API threads are interchangeable.
HandlerSymmetry == Permutations(Handlers)
=============================================================================
