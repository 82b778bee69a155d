---------------------------- MODULE XModemProofs ----------------------------
(***************************************************************************)
(* For every length of the image and of the file, every retry limit and    *)
(* every number of values of the sequence number: what xmodemReceive puts  *)
(* in the buffer, and what BL2 puts in flash, is the file, as long as at   *)
(* least two packets fewer are lost than the sequence number has values.   *)
(***************************************************************************)
EXTENDS XModem, TLAPS

-----------------------------------------------------------------------------
(* The inductive invariant *)

Receiving == pc \in {"loop", "wait"}

OnLine == IF line.kind = "packet" THEN 1 ELSE 0

\* The packet on the line is the one the sender sent last.
LineInv == line.kind = "packet" => line = Packet(k)

\* The sender is never behind the receiver, and ahead of it only by the packets
\* the line has lost and the one on it.
StepInv ==
    Receiving => /\ seqnum = (Len(got) + 1) % SeqMod
                 /\ Len(got) <= k
                 /\ k <= Len(got) + faults + OnLine

\* A packet is only waited for while retries are left; the sender starts at 0.
WaitInv == (pc = "wait" => retry > 0) /\ (snd = "start" => k = 0)

WholeInv == pc \in {"erase", "write"} => Len(got) = ImgLen

XInv == TypeOK /\ LineInv /\ StepInv /\ WaitInv /\ WholeInv /\ InOrder /\ FlashWhole

-----------------------------------------------------------------------------
\* Numbers less than M apart with the same remainder are equal.
LEMMA SameRemainder ==
    ASSUME NEW M \in Nat \ {0}, NEW a \in Nat, NEW b \in Nat,
           a - b < M, b - a < M, a % M = b % M
    PROVE  a = b
<1> DEFINE p == a \div M
           q == b \div M
<1>1. /\ p \in Int /\ q \in Int
      /\ a = M * p + (a % M)
      /\ b = M * q + (b % M)
    OBVIOUS
<1> HIDE DEF p, q
<1>2. a - b = M * (p - q)
    BY <1>1
<1>3. CASE p - q >= 1
    <2>1. M * (p - q) >= M
        BY <1>1, <1>3
    <2> QED BY <2>1, <1>2, <1>1
<1>4. CASE p - q <= -1
    <2>1. M * (p - q) <= -M
        BY <1>1, <1>4
    <2> QED BY <2>1, <1>2, <1>1
<1>5. CASE p = q
    BY <1>5, <1>1
<1> QED BY <1>1, <1>3, <1>4, <1>5

\* The next sequence number is the next remainder.
LEMMA NextRemainder ==
    ASSUME NEW M \in Nat \ {0}, NEW a \in Nat
    PROVE  ((a % M) + 1) % M = (a + 1) % M
<1> DEFINE p == a \div M
           r == a % M
<1>1. p \in Int /\ r \in 0..(M - 1) /\ a = M * p + r
    OBVIOUS
<1> HIDE DEF p, r
<1>2. CASE r + 1 < M
    <2>1. a + 1 = M * p + (r + 1)
        BY <1>1
    <2>2. (a + 1) % M = r + 1
        BY <2>1, <1>1, <1>2
    <2>3. (r + 1) % M = r + 1
        BY <1>1, <1>2
    <2> QED BY <2>2, <2>3 DEF r
<1>3. CASE r + 1 = M
    <2>1. a + 1 = M * (p + 1)
        BY <1>1, <1>3
    <2>2. (a + 1) % M = 0
        BY <2>1, <1>1
    <2>3. (r + 1) % M = 0
        BY <1>1, <1>3
    <2> QED BY <2>2, <2>3 DEF r
<1> QED BY <1>1, <1>2, <1>3
\* And the last one the last remainder.
LEMMA LastRemainder ==
    ASSUME NEW M \in Nat \ {0}, NEW a \in Nat
    PROVE  (((a + 1) % M) - 1) % M = a % M
<1> DEFINE p == (a + 1) \div M
           r == (a + 1) % M
<1>1. p \in Int /\ r \in 0..(M - 1) /\ a + 1 = M * p + r
    OBVIOUS
<1> HIDE DEF p, r
<1>2. CASE r >= 1
    <2>1. a = M * p + (r - 1)
        BY <1>1
    <2>2. a % M = r - 1
        BY <2>1, <1>1, <1>2
    <2>3. (r - 1) % M = r - 1
        BY <1>1, <1>2
    <2> QED BY <2>2, <2>3 DEF r
<1>3. CASE r = 0
    <2>1. a = M * (p - 1) + (M - 1)
        BY <1>1, <1>3
    <2>2. a % M = M - 1
        BY <2>1, <1>1
    <2>3. (r - 1) % M = M - 1
        BY <1>1, <1>3
    <2> QED BY <2>2, <2>3 DEF r
<1> QED BY <1>1, <1>2, <1>3

-----------------------------------------------------------------------------
\* The sequence number identifies the packet on the line.
LEMMA PacketKnown ==
    ASSUME TypeOK, LineInv, StepInv, pc = "wait", line.kind = "packet"
    PROVE  /\ line.blk = k /\ k \in Nat
           /\ line.seq = seqnum => k = Len(got) + 1
           /\ line.seq = (seqnum - 1) % SeqMod => k = Len(got)
<1> DEFINE n == Len(got)
<1>1. n \in Nat /\ k \in Nat /\ faults \in Nat /\ faults <= MaxFaults
    BY XModemAssumption DEF TypeOK
<1>2. line.blk = k /\ line.seq = k % SeqMod
    BY DEF LineInv, Packet
<1>3. seqnum = (n + 1) % SeqMod /\ n <= k /\ k <= n + faults + 1
    BY DEF StepInv, Receiving, OnLine
<1>4. SeqMod \in Nat \ {0} /\ SeqMod >= 2 /\ MaxFaults \in Nat /\ MaxFaults + 1 < SeqMod
    BY XModemAssumption
<1> HIDE DEF n
<1>5. ASSUME line.seq = seqnum PROVE k = n + 1
    <2>1. k - (n + 1) < SeqMod /\ (n + 1) - k < SeqMod /\ n + 1 \in Nat
        BY <1>1, <1>3, <1>4
    <2>2. k % SeqMod = (n + 1) % SeqMod
        BY <1>2, <1>3, <1>5
    <2> QED BY <2>1, <2>2, <1>1, <1>4, SameRemainder
<1>6. ASSUME line.seq = (seqnum - 1) % SeqMod PROVE k = n
    <2>1. k - n < SeqMod /\ n - k < SeqMod
        BY <1>1, <1>3, <1>4
    <2>2. (seqnum - 1) % SeqMod = n % SeqMod
        BY <1>1, <1>3, <1>4, LastRemainder
    <2>3. k % SeqMod = n % SeqMod
        BY <1>2, <1>6, <2>2
    <2> QED BY <2>1, <2>3, <1>1, <1>4, SameRemainder
<1> QED BY <1>1, <1>2, <1>5, <1>6 DEF n

\* xmodemReceive may return the length of the image only if it has the image.
LEMMA ReturnKeeps ==
    ASSUME XInv, Receiving, NEW r \in Int, r = ImgLen => Len(got) = ImgLen, Return(r)
    PROVE  XInv'
<1> USE XModemAssumption
<1>1. TypeOK'
    BY DEF XInv, TypeOK, Return, Silence, Message, Receiving, sender, receiver
<1>2. LineInv' /\ StepInv' /\ WaitInv'
    BY DEF XInv, LineInv, StepInv, WaitInv, Return, Silence, Receiving, sender
<1>3. WholeInv'
    BY DEF XInv, WholeInv, Return
<1>4. InOrder' /\ FlashWhole'
    BY DEF XInv, InOrder, FlashWhole, Return, Receiving, TypeOK
<1> QED BY <1>1, <1>2, <1>3, <1>4 DEF XInv

\* A packet that is accepted is the next one of the file.
LEMMA AcceptKeeps ==
    ASSUME XInv, pc = "wait", line.kind = "packet", line.seq = seqnum, Accept
    PROVE  XInv'
<1> USE XModemAssumption
<1>1. line.blk = k /\ k \in Nat /\ k = Len(got) + 1
    BY PacketKnown DEF XInv
<1>2. CASE Len(got) + 1 > ImgLen /\ Return(OUTOFMEMORY)
    <2>1. OUTOFMEMORY \in Int /\ OUTOFMEMORY # ImgLen
        BY DEF OUTOFMEMORY
    <2> QED BY <1>2, <2>1, ReturnKeeps DEF Receiving
<1>3. CASE /\ Len(got) + 1 <= ImgLen
           /\ got' = Append(got, line.blk)
           /\ seqnum' = (seqnum + 1) % SeqMod
           /\ retry' = RetryLimit /\ response' = "ACK"
           /\ line' = Silence /\ pc' = "loop"
           /\ UNCHANGED <<len, flash, sender, replies, faults>>
    <2>1. got \in Seq(Nat) /\ Len(got) \in Nat /\ faults \in Nat
        BY DEF XInv, TypeOK
    <2>2. got' \in Seq(Nat) /\ Len(got') = Len(got) + 1
        BY <1>1, <1>3, <2>1
    <2>3. \A i \in 1..Len(got') : got'[i] = i
        BY <1>1, <1>3, <2>1, <2>2 DEF XInv, InOrder
    <2>4. seqnum' = (Len(got') + 1) % SeqMod
        <3>1. seqnum = (Len(got) + 1) % SeqMod
            BY DEF XInv, StepInv, Receiving
        <3>2. seqnum' = (((Len(got) + 1) % SeqMod) + 1) % SeqMod
            BY <1>3, <3>1
        <3>3. Len(got) + 1 \in Nat /\ SeqMod \in Nat \ {0}
            BY <2>1
        <3>4. seqnum' = ((Len(got) + 1) + 1) % SeqMod
            BY <3>2, <3>3, NextRemainder
        <3> QED BY <3>4, <2>2
    <2>5. TypeOK'
        BY <1>3, <2>2, <2>4 DEF XInv, TypeOK, Silence, Message, sender
    <2>6. LineInv' /\ WaitInv' /\ WholeInv'
        BY <1>3 DEF XInv, LineInv, WaitInv, WholeInv, Silence, sender
    <2>7. StepInv'
        BY <1>1, <1>3, <2>1, <2>2, <2>4 DEF StepInv, OnLine, Silence, sender
    <2>8. FlashWhole'
        BY <1>3 DEF XInv, FlashWhole
    <2> QED BY <2>3, <2>5, <2>6, <2>7, <2>8 DEF XInv, InOrder
<1> QED BY <1>2, <1>3 DEF Accept

-----------------------------------------------------------------------------
\* The invariant holds when BL2 waits for the user.
LEMMA XInit == Init => XInv
<1> SUFFICES ASSUME Init PROVE XInv
    OBVIOUS
<1> USE XModemAssumption DEF Init
<1>1. TypeOK
    BY DEF TypeOK, Silence, Message
<1>2. LineInv /\ StepInv /\ WaitInv /\ WholeInv
    BY DEF LineInv, StepInv, WaitInv, WholeInv, Silence, Receiving
<1>3. InOrder /\ FlashWhole
    BY DEF InOrder, FlashWhole
<1> QED BY <1>1, <1>2, <1>3 DEF XInv

\* Every step of the receiver keeps the invariant.
LEMMA ReceiveStep ==
    ASSUME XInv, Receive
    PROVE  XInv'
<1> USE XModemAssumption DEF XInv
<1>1. CASE Solicit
    <2>1. TypeOK'
        BY <1>1 DEF Solicit, TypeOK, receiver, sender
    <2>2. LineInv' /\ StepInv' /\ WaitInv' /\ WholeInv'
        BY <1>1 DEF Solicit, LineInv, StepInv, WaitInv, WholeInv, Receiving, OnLine, Packet, receiver, sender
    <2> QED BY <1>1, <2>1, <2>2 DEF Solicit, InOrder, FlashWhole
<1>2. CASE RetriesExceeded
    BY <1>2, ReturnKeeps DEF RetriesExceeded, RETRYEXCEED, Receiving
<1>3. CASE Timeout
    <2>1. TypeOK'
        BY <1>3 DEF Timeout, TypeOK, WaitInv, sender
    <2>2. LineInv' /\ StepInv' /\ WaitInv' /\ WholeInv'
        BY <1>3 DEF Timeout, LineInv, StepInv, WaitInv, WholeInv, Receiving, OnLine, Packet, sender
    <2> QED BY <1>3, <2>1, <2>2 DEF Timeout, InOrder, FlashWhole
<1>4. CASE ReceivePacket
    <2>1. CASE line.seq = seqnum /\ Accept
        BY <1>4, <2>1, AcceptKeeps DEF ReceivePacket
    <2>2. CASE line.seq = (seqnum - 1) % SeqMod
               /\ response' = "ACK" /\ line' = Silence /\ pc' = "loop"
               /\ UNCHANGED <<seqnum, retry, got, len, flash, sender, replies, faults>>
        <3>1. k = Len(got)
            BY <1>4, <2>2, PacketKnown DEF ReceivePacket
        <3>2. TypeOK'
            BY <2>2 DEF TypeOK, Silence, Message, sender
        <3>3. StepInv'
            BY <1>4, <2>2, <3>1 DEF ReceivePacket, StepInv, TypeOK, Receiving, OnLine, Silence, sender
        <3>4. LineInv' /\ WaitInv' /\ WholeInv' /\ InOrder' /\ FlashWhole'
            BY <1>4, <2>2 DEF ReceivePacket, LineInv, WaitInv, WholeInv, InOrder, FlashWhole, Silence, sender
        <3> QED BY <3>2, <3>3, <3>4
    <2>3. CASE Return(OUTOFSYNC)
        BY <1>4, <2>3, ReturnKeeps DEF ReceivePacket, OUTOFSYNC, Receiving
    <2> QED BY <1>4, <2>1, <2>2, <2>3 DEF ReceivePacket
<1>5. CASE ReceiveDamaged
    <2>1. TypeOK'
        BY <1>5 DEF ReceiveDamaged, TypeOK, WaitInv, Silence, Message, sender
    <2>2. LineInv' /\ StepInv' /\ WaitInv' /\ WholeInv'
        BY <1>5 DEF ReceiveDamaged, LineInv, StepInv, WaitInv, WholeInv, Receiving, OnLine, Silence, sender
    <2> QED BY <1>5, <2>1, <2>2 DEF ReceiveDamaged, InOrder, FlashWhole
<1>6. CASE ReceiveEnd
    <2>1. Len(got) \in Int
        BY DEF TypeOK
    <2> QED BY <1>6, <2>1, ReturnKeeps DEF ReceiveEnd, REMOTECANCEL, Receiving
<1> QED BY <1>1, <1>2, <1>3, <1>4, <1>5, <1>6 DEF Receive

\* BL2 writes the image that it was sent.
LEMMA Bl2Step ==
    ASSUME XInv, PressX \/ Bl2
    PROVE  XInv'
<1> USE XModemAssumption DEF XInv
<1>1. CASE PressX
    <2>1. TypeOK'
        BY <1>1 DEF PressX, TypeOK, Silence, Message
    <2>2. LineInv' /\ StepInv' /\ WaitInv' /\ WholeInv'
        <3>1. Len(got') = 0 /\ (0 + 1) % SeqMod = 1
            BY <1>1 DEF PressX
        <3> QED BY <1>1, <3>1 DEF PressX, TypeOK, LineInv, StepInv, WaitInv, WholeInv, Receiving, OnLine, Silence
    <2> QED BY <1>1, <2>1, <2>2 DEF PressX, InOrder, FlashWhole
<1>2. CASE EraseFlash
    <2>1. TypeOK'
        BY <1>2 DEF EraseFlash, TypeOK, receiver, sender
    <2>2. LineInv' /\ StepInv' /\ WaitInv' /\ WholeInv'
        BY <1>2 DEF EraseFlash, LineInv, StepInv, WaitInv, WholeInv, Receiving, Packet, sender
    <2> QED BY <1>2, <2>1, <2>2 DEF EraseFlash, InOrder, FlashWhole, WholeInv
<1>3. CASE WriteFlash
    <2>1. TypeOK'
        BY <1>3 DEF WriteFlash, TypeOK, receiver, sender
    <2>2. LineInv' /\ StepInv' /\ WaitInv' /\ WholeInv'
        BY <1>3 DEF WriteFlash, LineInv, StepInv, WaitInv, WholeInv, Receiving, Packet, sender
    <2> QED BY <1>3, <2>1, <2>2 DEF WriteFlash, InOrder, FlashWhole, WholeInv
<1> QED BY <1>1, <1>2, <1>3 DEF Bl2

\* The sender gets ahead only by sending the packet that is then on the line.
LEMMA SendKeeps ==
    ASSUME XInv, line = Silence,
           NEW m \in Message, NEW state \in {"data", "eot", "end"}, NEW n \in Nat,
           \/ m = Packet(n) /\ n \in {k, k + 1}
           \/ m.kind # "packet" /\ n = k,
           Send(m, state, n),
           replies' \in Seq({"C", "ACK", "NAK", "CAN"}),
           UNCHANGED <<pc, receiver, got, len, flash, fileLen, faults>>
    PROVE  XInv'
<1> USE XModemAssumption DEF XInv
<1>0. faults \in Nat /\ k \in Nat /\ Len(got) \in Nat
    BY DEF TypeOK
<1>1. TypeOK'
    BY DEF TypeOK, Send, receiver
<1>2. LineInv'
    BY DEF LineInv, Send, Packet
<1>3. StepInv'
    BY <1>0 DEF StepInv, Send, Receiving, OnLine, Packet, Silence, receiver
<1>4. WaitInv' /\ WholeInv' /\ InOrder' /\ FlashWhole'
    BY DEF WaitInv, WholeInv, InOrder, FlashWhole, Send, receiver
<1> QED BY <1>1, <1>2, <1>3, <1>4

\* What the sender and the line do keeps the invariant; the line takes a packet
\* only by a fault.
LEMMA EnvironmentStep ==
    ASSUME XInv, Environment
    PROVE  XInv'
<1> USE XModemAssumption DEF XInv
<1>0. /\ faults \in Nat /\ k \in Nat /\ Len(got) \in Nat /\ k + 1 \in Nat
      /\ replies \in Seq({"C", "ACK", "NAK", "CAN"})
    BY DEF TypeOK
<1>1. Packet(k) \in Message /\ Packet(k + 1) \in Message
      /\ Eot \in Message /\ Silence \in Message /\ Cancel \in Message /\ Damaged \in Message
    BY <1>0 DEF Packet, Message, Eot, Silence, Cancel, Damaged
<1>2. Eot.kind # "packet" /\ Silence.kind # "packet" /\ Cancel.kind # "packet"
      /\ Damaged.kind # "packet"
    BY DEF Eot, Silence, Cancel, Damaged
<1>3. CASE SenderReads
    <2>0. /\ line = Silence
          /\ replies' \in Seq({"C", "ACK", "NAK", "CAN"})
          /\ UNCHANGED <<pc, receiver, got, len, flash, fileLen, faults>>
        BY <1>0, <1>3 DEF SenderReads
    <2>1. CASE UNCHANGED <<line, snd, k>>
        <3>1. TypeOK'
            BY <2>0, <2>1 DEF TypeOK, receiver
        <3>2. LineInv' /\ StepInv' /\ WaitInv' /\ WholeInv'
            BY <2>0, <2>1 DEF LineInv, StepInv, WaitInv, WholeInv, Receiving, OnLine, Packet, receiver
        <3> QED BY <2>0, <3>1, <3>2 DEF InOrder, FlashWhole
    <2>2. CASE Send(Packet(k), "data", k)
        BY <2>0, <2>2, <1>0, <1>1, SendKeeps
    <2>3. CASE Send(Packet(k + 1), "data", k + 1)
        BY <2>0, <2>3, <1>0, <1>1, SendKeeps
    <2>4. CASE Send(Eot, "eot", k)
        BY <2>0, <2>4, <1>0, <1>1, <1>2, SendKeeps
    <2>5. CASE Send(Silence, "end", k)
        BY <2>0, <2>5, <1>0, <1>1, <1>2, SendKeeps
    <2>6. snd = "start" => k = 0
        BY DEF WaitInv
    <2> QED BY <1>3, <2>1, <2>2, <2>3, <2>4, <2>5, <2>6 DEF SenderReads
<1>4. CASE SenderTimeout
    <2>0. /\ line = Silence
          /\ replies' \in Seq({"C", "ACK", "NAK", "CAN"})
          /\ UNCHANGED <<pc, receiver, got, len, flash, fileLen, faults>>
        BY <1>0, <1>4 DEF SenderTimeout
    <2>1. CASE Send(Packet(k), "data", k)
        BY <2>0, <2>1, <1>0, <1>1, SendKeeps
    <2>2. CASE Send(Eot, "eot", k)
        BY <2>0, <2>2, <1>0, <1>1, <1>2, SendKeeps
    <2>3. CASE Send(Cancel, "end", k)
        BY <2>0, <2>3, <1>0, <1>1, <1>2, SendKeeps
    <2> QED BY <1>4, <2>1, <2>2, <2>3 DEF SenderTimeout
<1>5. CASE LineFault
    <2>1. TypeOK'
        <3>1. faults' \in 0..MaxFaults
            BY <1>5 DEF LineFault, TypeOK
        <3>2. line' \in Message /\ replies' \in Seq({"C", "ACK", "NAK", "CAN"})
            <4>1. CASE line' \in {Silence, Damaged} /\ UNCHANGED replies
                BY <1>0, <1>1, <4>1
            <4>2. CASE replies # <<>> /\ replies' = Tail(replies) /\ UNCHANGED line
                <5>1. replies' \in Seq({"C", "ACK", "NAK", "CAN"})
                    BY <1>0, <4>2
                <5>2. line' \in Message
                    BY <4>2 DEF TypeOK
                <5> QED BY <5>1, <5>2
            <4> QED BY <1>5, <4>1, <4>2 DEF LineFault
        <3> QED BY <1>5, <3>1, <3>2 DEF LineFault, TypeOK, receiver, sender
    <2>2. LineInv'
        BY <1>2, <1>5 DEF LineFault, LineInv, Packet, sender
    <2>3. StepInv'
        BY <1>0, <1>5 DEF LineFault, StepInv, Receiving, OnLine, receiver, sender
    <2>4. WaitInv' /\ WholeInv' /\ InOrder' /\ FlashWhole'
        BY <1>5 DEF LineFault, WaitInv, WholeInv, InOrder, FlashWhole, receiver, sender
    <2> QED BY <2>1, <2>2, <2>3, <2>4
<1> QED BY <1>3, <1>4, <1>5 DEF Environment

\* Every step keeps the invariant.
LEMMA XStep == XInv /\ [Next]_vars => XInv'
<1> SUFFICES ASSUME XInv, [Next]_vars PROVE XInv'
    OBVIOUS
<1>1. CASE Receive
    BY <1>1, ReceiveStep
<1>2. CASE PressX \/ Bl2
    BY <1>2, Bl2Step
<1>3. CASE Environment
    BY <1>3, EnvironmentStep
<1>4. CASE UNCHANGED vars
    BY <1>4 DEF vars, receiver, sender, XInv, TypeOK, LineInv, StepInv, WaitInv, WholeInv,
                InOrder, FlashWhole, Receiving, OnLine, Packet
<1> QED BY <1>1, <1>2, <1>3, <1>4 DEF Next

\* A buffer in its order is extended by the next block.
LEMMA AcceptDelivers ==
    ASSUME XInv, pc = "wait", line.kind = "packet", line.seq = seqnum, Accept
    PROVE  T!Next
<1>1. line.blk = Len(got) + 1 /\ Len(got) \in Nat
    BY PacketKnown DEF XInv, TypeOK
<1>2. CASE Len(got) + 1 > ImgLen /\ Return(OUTOFMEMORY)
    <2>1. OUTOFMEMORY # 0 /\ OUTOFMEMORY # ImgLen
        BY XModemAssumption DEF OUTOFMEMORY
    <2>2. T!Refuse
        BY <1>2, <2>1 DEF Return, T!Refuse, Phase
    <2> QED BY <2>2 DEF T!Next
<1>3. CASE /\ Len(got) + 1 <= ImgLen
           /\ got' = Append(got, line.blk)
           /\ pc' = "loop" /\ UNCHANGED flash
    <2>1. T!Deliver
        BY <1>1, <1>3, XModemAssumption DEF T!Deliver, Phase
    <2> QED BY <2>1 DEF T!Next
<1> QED BY <1>2, <1>3 DEF Accept

\* A return ends the transfer, with the image or without it.
LEMMA ReturnEnds ==
    ASSUME Receiving, NEW r \in Int, r \in {0, ImgLen} => Len(got) = r, Return(r),
           got \in Seq(Nat)
    PROVE  T!Next
<1>1. CASE r = ImgLen
    <2>1. ImgLen # 0 /\ Phase = "open" /\ Phase' = "whole"
        BY <1>1, XModemAssumption DEF Return, Receiving, Phase
    <2>2. T!Complete
        BY <1>1, <2>1 DEF Return, T!Complete
    <2> QED BY <2>2 DEF T!Next
<1>2. CASE r = 0
    <2>1. got = <<>> /\ Phase = "open" /\ Phase' = "idle"
        BY <1>2 DEF Return, Receiving, Phase
    <2>2. T!Refuse
        BY <2>1 DEF Return, T!Refuse
    <2> QED BY <2>2 DEF T!Next
<1>3. CASE r \notin {0, ImgLen}
    <2>1. Phase = "open" /\ Phase' = "over"
        BY <1>3 DEF Return, Receiving, Phase
    <2>2. T!Refuse
        BY <2>1 DEF Return, T!Refuse
    <2> QED BY <2>2 DEF T!Next
<1> QED BY <1>1, <1>2, <1>3

\* Every step is a step of the transfer, or none.
LEMMA TransferStep ==
    ASSUME XInv, [Next]_vars
    PROVE  [T!Next]_(T!vars)
<1> USE XModemAssumption
<1>0. got \in Seq(Nat) /\ Len(got) \in Int /\ Len(got) \in Nat
    BY DEF XInv, TypeOK
<1>1. CASE PressX
    <2>1. T!Open
        BY <1>1 DEF PressX, T!Open, Phase
    <2> QED BY <2>1 DEF T!Next
<1>2. CASE Solicit \/ Timeout \/ ReceiveDamaged
    BY <1>2 DEF Solicit, Timeout, ReceiveDamaged, T!vars, Phase
<1>3. CASE RetriesExceeded
    BY <1>0, <1>3, ReturnEnds DEF RetriesExceeded, RETRYEXCEED, Receiving
<1>4. CASE ReceivePacket
    <2>1. CASE line.seq = seqnum /\ Accept
        BY <1>4, <2>1, AcceptDelivers DEF ReceivePacket
    <2>2. CASE pc' = "loop" /\ UNCHANGED <<got, flash>>
        BY <1>4, <2>2 DEF ReceivePacket, T!vars, Phase
    <2>3. CASE Return(OUTOFSYNC)
        BY <1>0, <1>4, <2>3, ReturnEnds DEF ReceivePacket, OUTOFSYNC, Receiving
    <2> QED BY <1>4, <2>1, <2>2, <2>3 DEF ReceivePacket
<1>5. CASE ReceiveEnd
    <2>1. CASE Return(Len(got))
        BY <1>0, <1>5, <2>1, ReturnEnds DEF ReceiveEnd, Receiving
    <2>2. CASE Return(REMOTECANCEL)
        BY <1>0, <1>5, <2>2, ReturnEnds DEF ReceiveEnd, REMOTECANCEL, Receiving
    <2> QED BY <1>5, <2>1, <2>2 DEF ReceiveEnd
<1>6. CASE EraseFlash
    <2>1. T!Erase
        BY <1>6 DEF EraseFlash, T!Erase, Phase
    <2> QED BY <2>1 DEF T!Next
<1>7. CASE WriteFlash
    <2>1. T!Write
        BY <1>7 DEF WriteFlash, T!Write, Phase
    <2> QED BY <2>1 DEF T!Next
<1>8. CASE Environment
    BY <1>8 DEF Environment, SenderReads, SenderTimeout, LineFault, T!vars, Phase
<1>9. CASE UNCHANGED vars
    BY <1>9 DEF vars, T!vars, Phase
<1> QED BY <1>1, <1>2, <1>3, <1>4, <1>5, <1>6, <1>7, <1>8, <1>9 DEF Next, Receive, Bl2

\* The variables of the transfer and of the sender keep their types.
THEOREM XModemTypeCorrect == Spec => []TypeOK
<1>1. XInv => TypeOK
    BY DEF XInv
<1> QED BY XInit, XStep, <1>1, PTL DEF Spec

\* xmodemReceive and BL2 implement the abstract transfer, for every image, file,
\* retry limit and range of the sequence number: with a line that loses packets
\* and responses it behaves as one that delivers each block once, in order.
THEOREM XModemImplements == Spec => ImplementsTransfer
<1>1. Init => T!Init
    BY DEF Init, T!Init, Phase
<1>2. XInv /\ [Next]_vars => [T!Next]_(T!vars)
    BY TransferStep
<1> QED BY XInit, XStep, <1>1, <1>2, PTL DEF Spec, T!Spec, ImplementsTransfer

\* xmodemReceive puts the packets of the file in the buffer in their order, none
\* twice and none left out, although the sequence number wraps and although
\* packets, responses and retransmissions are lost.
THEOREM BufferInOrder == Spec => []InOrder
<1>1. XInv => InOrder
    BY DEF XInv
<1> QED BY XInit, XStep, <1>1, PTL DEF Spec

\* bl2_plat_preload_setup erases the flash only with a whole image in its buffer,
\* and what it writes is that image.
THEOREM FlashGetsImage == Spec => []FlashWhole
<1>1. XInv => FlashWhole
    BY DEF XInv
<1> QED BY XInit, XStep, <1>1, PTL DEF Spec
=============================================================================
