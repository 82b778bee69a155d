------------------------------ MODULE MCXModem ------------------------------
(***************************************************************************)
(* Instances of XModem for TLC: the constants are given in XModem*.cfg.    *)
(***************************************************************************)
EXTENDS XModem
=============================================================================
