------------------------------- MODULE MCNmrp -------------------------------
(* Instances of Nmrp for TLC. *)
EXTENDS Nmrp

MCFileLen == <<5, 2, 8>>
=============================================================================
