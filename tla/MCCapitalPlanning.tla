------------------------- MODULE MCCapitalPlanning -------------------------
(***************************************************************************)
(* Instances of CapitalPlanning for TLC: two decisions of one symbol, and  *)
(* three reservations that fit two readings of the capacity but not three; *)
(* or a plan of each origin next to a legacy plan that cannot pay.         *)
(***************************************************************************)
EXTENDS CapitalPlanning, TLC

CONSTANTS d1, d2, e1, a1, planner, wording

Terms(d, why) == [dec |-> d, amt |-> 1, why |-> why]

CreatedPlans == {Terms(d1, wording), Terms(d2, wording), Terms(d2, planner)}
WithLegacyPlan == {Terms(d1, wording), Terms(d2, wording)}
ForCollision == {Terms(d1, wording), Terms(d1, planner)}

SameEntry == [d \in Decisions |-> e1]
AllPay == Decisions \X {1}
OnlyFirstPays == {<<d1, 1>>}
AssessesFirst == a1 :> d1
=============================================================================
