------------------------------- MODULE MCPsci -------------------------------
(***************************************************************************)
(* Instances of Psci for TLC: Psci.cfg has the two cores of the EN7523 and *)
(* calls in any order, Psci_lost.cfg an OS that changes one CPU at a time. *)
(***************************************************************************)
EXTENDS Psci
=============================================================================
