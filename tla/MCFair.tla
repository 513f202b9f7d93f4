------------------------------- MODULE MCFair -------------------------------
(***************************************************************************)
(* RoundRobin on the instances of MCKernel.                                *)
(***************************************************************************)
EXTENDS MCKernel, RoundRobin
=============================================================================
