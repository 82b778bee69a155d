--------------------------- MODULE MCMultiUpgrade ---------------------------
(***************************************************************************)
(* A kernel that fits, an image of the whole flash and a kernel that is    *)
(* too big for its partition.                                              *)
(***************************************************************************)
EXTENDS MultiUpgrade, TLC

MCImages == {"kernel", "whole", "big"}
MCPkts == "kernel" :> 3 @@ "whole" :> 4 @@ "big" :> 5
=============================================================================
