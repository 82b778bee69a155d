---------------------------- MODULE MCUbootFlash ----------------------------
(* Instances of UbootFlash for TLC. *)
EXTENDS UbootFlash

MCJobs == {"writeimg", "kernel", "uboot", "allinone"}
=============================================================================
