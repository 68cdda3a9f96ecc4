------------------------------ MODULE MCRunPage ------------------------------
(***************************************************************************)
(* Instances of RunPage for TLC.                                           *)
(***************************************************************************)
EXTENDS RunPage

\* Runs are interchangeable: their ids are uuids nobody compares.
RunSymmetry == Permutations(Run)
=============================================================================
