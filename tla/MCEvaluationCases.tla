-------------------------- MODULE MCEvaluationCases --------------------------
(***************************************************************************)
(* All calls are of one module of one run.  Calls and requests are         *)
(* interchangeable.                                                        *)
(***************************************************************************)
EXTENDS EvaluationCases, TLC

MCkey == [c \in Calls |-> "fact_extraction"]
MCSymmetry == Permutations(Calls) \cup Permutations(Judges) \cup Permutations(Confirmers)
==============================================================================
