------------------------------- MODULE MCARC --------------------------------
(***************************************************************************)
(* ARC for model checking. The pages are interchangeable: no action and no *)
(* property names one or compares two.                                     *)
(***************************************************************************)
EXTENDS ARC, TLC

Symmetry == Permutations(Page)
=============================================================================
