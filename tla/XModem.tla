------------------------------- MODULE XModem -------------------------------
(***************************************************************************)
(* The emergency upgrade of BL2 over the serial line: xmodemReceive of     *)
(* xmodem.c, called by bl2_plat_preload_setup, which writes the flash with *)
(* what it received.  The sender on the other end is a program of the      *)
(* user's and is modelled as the protocol has it.                          *)
(*                                                                         *)
(* The line carries one packet at a time: the receiver reads each byte as  *)
(* it arrives, and the sender starts a packet only after the last one.     *)
(* Responses wait until the sender reads them.  A timeout may come at any  *)
(* time the line is silent.                                                *)
(***************************************************************************)
EXTENDS Integers, Sequences

CONSTANTS
    ImgLen,      \* fwu_img_len, in packets
    MaxFileLen,  \* bound: packets of the file the user sends
    SeqMod,      \* values of the sequence number, an unsigned char
    RetryLimit,  \* XMODEM_RETRY_LIMIT
    MaxFaults    \* bound: packets and responses lost or damaged on the line

ASSUME XModemAssumption ==
    /\ ImgLen \in Nat \ {0} /\ MaxFileLen \in Nat \ {0}
    /\ SeqMod \in Nat /\ RetryLimit \in Nat \ {0} /\ MaxFaults \in Nat
    /\ MaxFaults + 1 < SeqMod

VARIABLES
    pc,        \* of BL2 and of xmodemReceive
    seqnum, response, retry,
    got,       \* the packets written to the buffer
    len,       \* what xmodemReceive returned
    flash,     \* the old image, none, or the one that was written
    snd,       \* the sender: what it waits for
    fileLen,   \* packets of its file
    k,         \* packet it sent last
    line,      \* what is on the line to the receiver
    replies,   \* responses the sender has not read
    faults

receiver == <<seqnum, response, retry>>
sender == <<snd, fileLen, k>>
vars == <<pc, receiver, got, len, flash, sender, line, replies, faults>>

Silence == [kind |-> "silence", seq |-> 0, blk |-> 0]
Packet(n) == [kind |-> "packet", seq |-> n % SeqMod, blk |-> n]
Eot == [kind |-> "EOT", seq |-> 0, blk |-> 0]
Cancel == [kind |-> "CAN", seq |-> 0, blk |-> 0]     \* two of them
Damaged == [kind |-> "damaged", seq |-> 0, blk |-> 0]

\* What xmodemReceive returns instead of a length.
REMOTECANCEL == -1
OUTOFSYNC == -2
RETRYEXCEED == -3
OUTOFMEMORY == -4

-----------------------------------------------------------------------------
(* xmodemReceive *)

\* ReadByte loops until the user presses x: the transfer starts at both ends.
PressX ==
    /\ pc = "press"
    /\ seqnum' = 1 /\ response' = "C" /\ retry' = RetryLimit
    /\ got' = <<>>
    /\ snd' = "start" /\ k' = 0 /\ line' = Silence /\ replies' = <<>>
    /\ pc' = "loop"
    /\ UNCHANGED <<len, flash, fileLen, faults>>

Solicit ==
    /\ pc = "loop" /\ retry > 0
    /\ replies' = Append(replies, response)
    /\ pc' = "wait"
    /\ UNCHANGED <<receiver, got, len, flash, sender, line, faults>>

\* Mutant: an image of any length is written to flash.
ReturnMutant(r) ==
    /\ len' = r
    /\ line' = Silence
    /\ replies' = Append(replies, IF r >= 0 \/ r = REMOTECANCEL THEN "ACK" ELSE "CAN")
    /\ pc' = IF r = 0 THEN "press" ELSE IF r > 0 THEN "erase" ELSE "header"
    /\ UNCHANGED <<receiver, got, flash, sender, faults>>

\* xmodemReceive returns r; bl2_plat_preload_setup looks at it.
Return(r) ==
    /\ len' = r
    /\ line' = Silence
    /\ replies' = Append(replies, IF r >= 0 \/ r = REMOTECANCEL THEN "ACK" ELSE "CAN")
    /\ pc' = IF r = 0 THEN "press" ELSE IF r = ImgLen THEN "erase" ELSE "header"
    /\ UNCHANGED <<receiver, got, flash, sender, faults>>

RetriesExceeded == pc = "loop" /\ retry = 0 /\ Return(RETRYEXCEED)

\* Mutant: a timeout asks for the packet again.
TimeoutMutant ==
    /\ pc = "wait" /\ line = Silence
    /\ pc' = "loop" /\ response' = "NAK"
    /\ UNCHANGED <<seqnum, retry, got, len, flash, sender, line, replies, faults>>

\* The response is sent again as it is: the assignment of NAK is commented out.
Timeout ==
    /\ pc = "wait" /\ line = Silence
    /\ retry' = retry - 1
    /\ pc' = "loop"
    /\ UNCHANGED <<seqnum, response, got, len, flash, sender, line, replies, faults>>

\* Mutant: the sequence number does not wrap.
AcceptMutant ==
    \/ Len(got) + 1 > ImgLen /\ Return(OUTOFMEMORY)
    \/ /\ Len(got) + 1 <= ImgLen
       /\ got' = Append(got, line.blk)
       /\ seqnum' = seqnum + 1
       /\ retry' = RetryLimit /\ response' = "ACK"
       /\ line' = Silence /\ pc' = "loop"
       /\ UNCHANGED <<len, flash, sender, replies, faults>>

\* The packet that was waited for.
Accept ==
    \/ Len(got) + 1 > ImgLen /\ Return(OUTOFMEMORY)
    \/ /\ Len(got) + 1 <= ImgLen
       /\ got' = Append(got, line.blk)
       /\ seqnum' = (seqnum + 1) % SeqMod
       /\ retry' = RetryLimit /\ response' = "ACK"
       /\ line' = Silence /\ pc' = "loop"
       /\ UNCHANGED <<len, flash, sender, replies, faults>>

\* Mutant: a packet that was written already is written again.
ReceivePacketMutant ==
    /\ pc = "wait" /\ line.kind = "packet"
    /\ \/ line.seq \in {seqnum, (seqnum - 1) % SeqMod} /\ Accept
       \/ line.seq \notin {seqnum, (seqnum - 1) % SeqMod} /\ Return(OUTOFSYNC)

\* A retransmission of the last packet is acknowledged and dropped.
ReceivePacket ==
    /\ pc = "wait" /\ line.kind = "packet"
    /\ \/ line.seq = seqnum /\ Accept
       \/ /\ line.seq = (seqnum - 1) % SeqMod
          /\ response' = "ACK" /\ line' = Silence /\ pc' = "loop"
          /\ UNCHANGED <<seqnum, retry, got, len, flash, sender, replies, faults>>
       \/ /\ line.seq \notin {seqnum, (seqnum - 1) % SeqMod}
          /\ Return(OUTOFSYNC)

\* Too short, or the complement of the number or the CRC does not fit.
ReceiveDamaged ==
    /\ pc = "wait" /\ line.kind = "damaged"
    /\ retry' = retry - 1 /\ response' = "NAK"
    /\ line' = Silence /\ pc' = "loop"
    /\ UNCHANGED <<seqnum, got, len, flash, sender, replies, faults>>

ReceiveEnd ==
    /\ pc = "wait"
    /\ \/ line.kind = "EOT" /\ Return(Len(got))
       \/ line.kind = "CAN" /\ Return(REMOTECANCEL)

-----------------------------------------------------------------------------
(* bl2_plat_preload_setup *)

EraseFlash ==
    /\ pc = "erase"
    /\ flash' = [state |-> "erased", img |-> <<>>] /\ pc' = "write"
    /\ UNCHANGED <<receiver, got, len, sender, line, replies, faults>>

WriteFlash ==
    /\ pc = "write"
    /\ flash' = [state |-> "new", img |-> got] /\ pc' = "header"
    /\ UNCHANGED <<receiver, got, len, sender, line, replies, faults>>

-----------------------------------------------------------------------------
(* The sender and the line *)

\* The sender puts m on the line.
Send(m, state, n) == line' = m /\ snd' = state /\ k' = n

\* The sender reads a response.
SenderReads ==
    /\ line = Silence /\ replies # <<>>
    /\ replies' = Tail(replies)
    /\ LET r == Head(replies)
       IN  \/ snd = "start" /\ r = "C" /\ fileLen > 0 /\ Send(Packet(1), "data", 1)
           \/ snd = "start" /\ r = "C" /\ fileLen = 0 /\ Send(Eot, "eot", 0)
           \/ snd = "data" /\ (r = "NAK" \/ (r = "C" /\ k = 1)) /\ Send(Packet(k), "data", k)
           \/ snd = "data" /\ r = "ACK" /\ k < fileLen /\ Send(Packet(k + 1), "data", k + 1)
           \/ snd = "data" /\ r = "ACK" /\ k = fileLen /\ Send(Eot, "eot", k)
           \/ snd = "eot" /\ r = "NAK" /\ Send(Eot, "eot", k)
           \/ snd = "eot" /\ r = "ACK" /\ Send(Silence, "end", k)
           \/ r = "CAN" /\ Send(Silence, "end", k)
           \/ /\ \/ snd = "data" /\ r = "C" /\ k # 1
                 \/ snd = "eot" /\ r = "C"
                 \/ snd = "end" /\ r # "CAN"
              /\ UNCHANGED <<line, snd, k>>
    /\ UNCHANGED <<pc, receiver, got, len, flash, fileLen, faults>>

\* The sender waited long enough for a response, or its user gives up.
SenderTimeout ==
    /\ line = Silence /\ replies = <<>>
    /\ \/ snd = "data" /\ Send(Packet(k), "data", k)
       \/ snd = "eot" /\ Send(Eot, "eot", k)
       \/ snd \in {"start", "data"} /\ Send(Cancel, "end", k)
    /\ UNCHANGED <<pc, receiver, got, len, flash, fileLen, replies, faults>>

LineFault ==
    /\ faults < MaxFaults
    /\ faults' = faults + 1
    /\ \/ line # Silence /\ line' \in {Silence, Damaged} /\ UNCHANGED replies
       \/ replies # <<>> /\ replies' = Tail(replies) /\ UNCHANGED line
    /\ UNCHANGED <<pc, receiver, got, len, flash, sender>>

-----------------------------------------------------------------------------
Init ==
    /\ pc = "press" /\ seqnum = 1 /\ response = "C" /\ retry = RetryLimit
    /\ got = <<>> /\ len = 0 /\ flash = [state |-> "old", img |-> <<>>]
    /\ fileLen \in 0..MaxFileLen
    /\ snd = "end" /\ k = 0 /\ line = Silence /\ replies = <<>>
    /\ faults = 0

Receive == \/ Solicit \/ RetriesExceeded \/ Timeout \/ ReceivePacket
           \/ ReceiveDamaged \/ ReceiveEnd

Bl2 == EraseFlash \/ WriteFlash

Environment == SenderReads \/ SenderTimeout \/ LineFault

Next == PressX \/ Receive \/ Bl2 \/ Environment

Spec == Init /\ [][Next]_vars

\* BL2 runs on whatever the other end does: its waits time out.
FairSpec == Spec /\ WF_vars(Receive) /\ WF_vars(Bl2)

-----------------------------------------------------------------------------
(* Properties *)

Message == [kind : {"silence", "packet", "EOT", "CAN", "damaged"},
            seq : 0..(SeqMod - 1), blk : Nat]

TypeOK ==
    /\ pc \in {"press", "loop", "wait", "erase", "write", "header"}
    /\ seqnum \in 0..(SeqMod - 1) /\ response \in {"C", "ACK", "NAK"}
    /\ retry \in 0..RetryLimit
    /\ got \in Seq(Nat) /\ len \in Int
    /\ flash \in [state : {"old", "erased", "new"}, img : Seq(Nat)]
    /\ snd \in {"start", "data", "eot", "end"} /\ fileLen \in Nat /\ k \in Nat
    /\ line \in Message /\ replies \in Seq({"C", "ACK", "NAK", "CAN"})
    /\ faults \in 0..MaxFaults

\* The buffer holds the packets of the file from the first one on, none missing,
\* none twice: the sequence number, although it wraps, tells every duplicate and
\* every gap as long as at least two packets fewer are lost than it has values.
InOrder == \A i \in 1..Len(got) : got[i] = i

\* BL2 erases the flash only when it holds an image of the right length, and
\* writes that image: an aborted or short transfer leaves the flash alone.
FlashWhole ==
    /\ flash.state = "erased" => pc = "write" /\ Len(got) = ImgLen
    /\ flash.state = "new" => /\ Len(flash.img) = ImgLen
                              /\ \A i \in 1..ImgLen : flash.img[i] = i

\* The transfer as its user sees it.
Phase == CASE pc = "press" -> "idle"
           [] pc \in {"loop", "wait"} -> "open"
           [] pc = "erase" -> "whole"
           [] pc = "write" -> "erased"
           [] pc = "header" -> "over"

T == INSTANCE Transfer WITH buf <- got, phase <- Phase

\* xmodemReceive and bl2_plat_preload_setup are a transfer: behind timeouts,
\* retransmissions and a sequence number that wraps, a block is delivered once
\* and in its order, and the flash changes for a complete image only.
ImplementsTransfer == T!Spec

\* The receive always ends: with the file, by cancellation, or by giving up.
ReceiveReturns == pc \in {"loop", "wait"} ~> pc \notin {"loop", "wait"}
=============================================================================
