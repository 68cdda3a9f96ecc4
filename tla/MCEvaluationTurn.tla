--------------------------- MODULE MCEvaluationTurn ---------------------------
(***************************************************************************)
(* Two candidates and four answers of the dimension model: one dimension   *)
(* with two requirements, two dimensions, weights that miss 100, and three *)
(* dimensions, which exceed the capacity with two candidates.              *)
(***************************************************************************)
EXTENDS EvaluationTurn

D(weight, requirements) == [weight_percent |-> weight, requirements |-> requirements]

MCDimensionPlans ==
    { <<D(100, 2)>>,
      <<D(60, 1), D(40, 1)>>,
      <<D(50, 1), D(40, 1)>>,
      <<D(40, 1), D(30, 1), D(30, 1)>> }
===============================================================================
