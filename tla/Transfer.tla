------------------------------ MODULE Transfer ------------------------------
(***************************************************************************)
(* What an upgrade over an unreliable line promises: the blocks of an      *)
(* image arrive one by one, in their order, each of them once, and the     *)
(* flash is touched only when all of them are there.  How blocks, answers  *)
(* and retransmissions travel is left to the specification that implements *)
(* this one.                                                               *)
(***************************************************************************)
EXTENDS Naturals, Sequences

CONSTANT ImgLen     \* blocks of the image

VARIABLES
    buf,    \* the blocks that arrived
    phase,  \* "idle", "open", "whole", "erased" or "over"
    flash   \* what the flash holds

vars == <<buf, phase, flash>>

Init == buf = <<>> /\ phase = "idle" /\ flash = [state |-> "old", img |-> <<>>]

Open == phase = "idle" /\ phase' = "open" /\ buf' = <<>> /\ UNCHANGED flash

Deliver ==
    /\ phase = "open" /\ Len(buf) < ImgLen
    /\ buf' = Append(buf, Len(buf) + 1)
    /\ UNCHANGED <<phase, flash>>

\* Nothing came at all, and the user is asked again; or the transfer failed.
Refuse ==
    /\ phase = "open"
    /\ phase' = "over" \/ (buf = <<>> /\ phase' = "idle")
    /\ UNCHANGED <<buf, flash>>

Complete ==
    /\ phase = "open" /\ Len(buf) = ImgLen /\ phase' = "whole"
    /\ UNCHANGED <<buf, flash>>

Erase ==
    /\ phase = "whole" /\ phase' = "erased"
    /\ flash' = [state |-> "erased", img |-> <<>>]
    /\ UNCHANGED buf

Write ==
    /\ phase = "erased" /\ phase' = "over"
    /\ flash' = [state |-> "new", img |-> buf]
    /\ UNCHANGED buf

Next == Open \/ Deliver \/ Refuse \/ Complete \/ Erase \/ Write

Spec == Init /\ [][Next]_vars
=============================================================================
