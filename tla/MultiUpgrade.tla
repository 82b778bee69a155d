---------------------------- MODULE MultiUpgrade ----------------------------
(***************************************************************************)
(* The multicast upgrade of U-Boot, multiupgrade.c: one station broadcasts *)
(* an image over and over, and every device on the link collects it,       *)
(* beginning with whichever packet it hears first, and writes it to flash. *)
(*                                                                         *)
(* Nothing is acknowledged.  Packets are lost, and arrive late or twice;   *)
(* the station may begin again with another image, and the power may fail  *)
(* while the flash is written.  An image is a set of packets numbered from *)
(* 1; the sequence number on the wire is the packet's modulo SeqMod.       *)
(***************************************************************************)
EXTENDS Integers, Sequences

CONSTANTS
    Images,
    Pkts,        \* the packets of each image
    AllInOne,    \* the images of the whole flash; the others are kernels
    Capacity,    \* packets the kernel partition holds
    SeqMod,      \* values of the sequence number: pktseqMask + 1
    MaxFaults,   \* bound: packets lost, late or duplicated
    MaxSwitches, \* bound: times the station begins again
    MaxCrashes   \* bound: power losses

ASSUME MultiUpgradeAssumption ==
    /\ AllInOne \subseteq Images
    /\ Images \cap {"old", "erased", "cut", "mixed", "none"} = {}
    /\ Pkts \in [Images -> Nat \ {0}]
    /\ \A i \in Images : Pkts[i] < SeqMod
    /\ Capacity \in Nat /\ SeqMod \in Nat
    /\ MaxFaults \in Nat /\ MaxSwitches \in Nat /\ MaxCrashes \in Nat

VARIABLES
    startMultiUpgrade, finishMultiUpgrade,
    startSeq, oldSeq, maxSeq, recvSeq, receive_len,
    buf,     \* MULTI_BUF_BASE, by slots of one packet
    job,     \* what MultiWriteImage was called for
    step,    \* the erase or write it has come to
    flash,   \* the contents of each part of the flash
    heard,   \* ghost: the images of the packets the attempt has taken
    image, pos,  \* what the station sends, and the packet that is next
    faults, switches, crashes

seqs == <<startSeq, oldSeq, maxSeq, recvSeq, receive_len>>
station == <<image, pos>>
bounds == <<faults, switches, crashes>>
writing == <<job, step>>
vars == <<startMultiUpgrade, finishMultiUpgrade, seqs, buf, writing, flash, heard, station, bounds>>

Slots == 0..(SeqMod - 2)
Piece(i, n) == [img |-> i, blk |-> n]
Nothing == [img |-> "none", blk |-> 0]

NoJob == [img |-> "none", content |-> "none", env |-> "none"]

\* The device does not start any more without its boot loader.
Dead == job = NoJob /\ flash.boot \notin {"old"} \cup AllInOne

-----------------------------------------------------------------------------
(* MultiWriteImage *)

Erase(p) == [part |-> p, to |-> "erased"]
Write(p, c) == [part |-> p, to |-> c]

\* The erases and writes in the order the code makes them; the ones of an image of
\* the whole flash go through the boot loader, its environment, the settings and
\* the kernel, and carry the environment read from flash before.
MultiWriteImage(j) ==
    IF j.img \in AllInOne
    THEN << Erase("boot"), Erase("env"), Erase("romfile"), Erase("linux"),
            Write("boot", j.content), Write("env", j.env), Write("romfile", j.content),
            Write("linux", j.content), Erase("backup") >>
    ELSE << Erase("romfile"), Erase("backup"), Erase("linux"), Write("linux", j.content) >>

\* An erase or a write goes block by block and page by page: the part is cut, and then
\* it is done.  The last one finishes the upgrade.
FlashStep ==
    LET w == MultiWriteImage(job)[step] IN
    /\ job # NoJob
    /\ \/ /\ flash[w.part] # "cut"
          /\ flash' = [flash EXCEPT ![w.part] = "cut"]
          /\ UNCHANGED <<finishMultiUpgrade, writing>>
       \/ /\ flash[w.part] = "cut"
          /\ flash' = [flash EXCEPT ![w.part] = w.to]
          /\ \/ /\ step < Len(MultiWriteImage(job))
                /\ step' = step + 1
                /\ UNCHANGED <<finishMultiUpgrade, job>>
             \/ /\ step = Len(MultiWriteImage(job))
                /\ job' = NoJob /\ step' = 1
                /\ finishMultiUpgrade' = TRUE
    /\ UNCHANGED <<startMultiUpgrade, seqs, buf, heard, station, bounds>>

-----------------------------------------------------------------------------
(* MultiUpgradeHandle *)

\* Mutant: the count of packets goes on after an error.
ErrorMutant ==
    /\ startSeq' = -1 /\ maxSeq' = 0
    /\ heard' = {}
    /\ UNCHANGED recvSeq

\* error: the next packet, whichever it is, begins a new attempt.
Error ==
    /\ startSeq' = -1 /\ maxSeq' = 0 /\ recvSeq' = 0
    /\ heard' = {}

\* Mutant: no way back from the last packet to the first.
InSequenceMutant(pktseq, old, max) == pktseq = (old + 1) % SeqMod

\* check seq
InSequence(pktseq, old, max) ==
    \/ pktseq = (old + 1) % SeqMod
    \/ pktseq = 1 /\ old = max % SeqMod

\* Mutant: packets are stored in the order they come.
SlotMutant(recv, start, max) == (recv - 1) % max

\* Where the recv-th packet of an attempt goes.
Slot(recv, start, max) == ((recv - 1) + (start - 1)) % max

Whole(b, i) == \A n \in 1..Pkts[i] : b[n - 1] = Piece(i, n)

\* Mutant: the checksum of an image of the whole flash is not compared.
VerifiedMutant(b, i, imagelen) ==
    /\ b[0] = Piece(i, 1)
    /\ i \in AllInOne \/ imagelen <= Capacity

\* A kernel is recognised by the magic number in its first packet, and must fit its
\* partition.  Its hashes are computed, but fit_all_image_verify returns 0 for wrong
\* ones and the code expects -1.  An image of the whole flash has its checksum at
\* imagelen.
Verified(b, i, imagelen) ==
    \/ i \notin AllInOne /\ b[0] = Piece(i, 1) /\ imagelen <= Capacity
    \/ i \in AllInOne /\ Whole(b, i) /\ imagelen = Pkts[i]

\* What is written for image i: imagelen of what is in the buffer.
Job(b, i, imagelen) ==
    [img |-> i,
     content |-> IF Whole(b, i) /\ imagelen >= Pkts[i] THEN i ELSE "mixed",
     env |-> flash.env]

\* Packet n of image img comes in.
MultiUpgradeHandle(img, n) ==
    LET pktseq == n % SeqMod
        imagelen == Pkts[img]
        first == startSeq = -1
        start == IF first THEN pktseq ELSE startSeq
        old == IF first THEN pktseq - 1 ELSE oldSeq
        max == IF first THEN imagelen ELSE maxSeq
        recv == recvSeq + 1
        rlen == (IF first THEN 0 ELSE receive_len) + 1
        newbuf == [buf EXCEPT ![Slot(recv, start, max)] = Piece(img, n)]
        found == {i \in Images : Verified(newbuf, i, imagelen)}
    IN  \/ /\ finishMultiUpgrade
           /\ UNCHANGED <<seqs, buf, job, heard>>
        \/ /\ ~finishMultiUpgrade /\ ~InSequence(pktseq, old, max)
           /\ Error
           /\ UNCHANGED <<oldSeq, receive_len, buf, job>>
        \/ /\ ~finishMultiUpgrade /\ InSequence(pktseq, old, max)
           /\ oldSeq' = pktseq
           /\ buf' = newbuf
           /\ \/ /\ recv = max /\ rlen < imagelen
                 /\ receive_len' = 0
                 /\ Error
                 /\ UNCHANGED job
              \/ /\ recv = max /\ rlen >= imagelen /\ found = {}
                 /\ receive_len' = rlen
                 /\ Error
                 /\ UNCHANGED job
              \/ /\ \/ recv # max /\ UNCHANGED job
                    \/ recv = max /\ rlen >= imagelen
                       /\ \E i \in found : job' = Job(newbuf, i, imagelen)
                 /\ startSeq' = start /\ maxSeq' = max /\ recvSeq' = recv
                 /\ receive_len' = rlen
                 /\ heard' = (IF first THEN {} ELSE heard) \cup {img}

\* A frame with the tag of the upgrade; the handler is not interrupted by another.
multiupgrade_process(img, n) ==
    /\ job = NoJob /\ ~Dead
    /\ startMultiUpgrade' = TRUE
    /\ MultiUpgradeHandle(img, n)
    /\ UNCHANGED <<finishMultiUpgrade, step, flash>>

-----------------------------------------------------------------------------
(* The station, the link and the power supply *)

NextPos == IF pos = Pkts[image] THEN 1 ELSE pos + 1

Broadcast ==
    /\ multiupgrade_process(image, pos)
    /\ pos' = NextPos
    /\ UNCHANGED <<image, bounds>>

Lose ==
    /\ faults < MaxFaults /\ faults' = faults + 1
    /\ pos' = NextPos
    /\ UNCHANGED <<startMultiUpgrade, finishMultiUpgrade, seqs, buf, writing, flash, heard,
                   image, switches, crashes>>

\* A packet that was sent before comes late, or again.
Late ==
    /\ faults < MaxFaults /\ faults' = faults + 1
    /\ \E n \in 1..Pkts[image] : multiupgrade_process(image, n)
    /\ UNCHANGED <<station, switches, crashes>>

Switch ==
    /\ switches < MaxSwitches /\ switches' = switches + 1
    /\ image' \in Images /\ pos' \in 1..Pkts[image']
    /\ UNCHANGED <<startMultiUpgrade, finishMultiUpgrade, seqs, buf, writing, flash, heard,
                   faults, crashes>>

\* The boot loader starts again with its variables as the compiler set them.
PowerLoss ==
    /\ crashes < MaxCrashes /\ crashes' = crashes + 1
    /\ startMultiUpgrade' = FALSE /\ finishMultiUpgrade' = FALSE
    /\ startSeq' = -1 /\ oldSeq' = -1 /\ maxSeq' = 0 /\ recvSeq' = 0 /\ receive_len' = 0
    /\ buf' = [s \in Slots |-> Nothing]
    /\ job' = NoJob /\ step' = 1 /\ heard' = {}
    /\ UNCHANGED <<flash, station, faults, switches>>

-----------------------------------------------------------------------------
Init ==
    /\ startMultiUpgrade = FALSE /\ finishMultiUpgrade = FALSE
    /\ startSeq = -1 /\ oldSeq = -1 /\ maxSeq = 0 /\ recvSeq = 0 /\ receive_len = 0
    /\ buf = [s \in Slots |-> Nothing]
    /\ job = NoJob /\ step = 1 /\ heard = {}
    /\ flash = [p \in {"boot", "env", "romfile", "backup", "linux"} |-> "old"]
    /\ image \in Images /\ pos \in 1..Pkts[image]
    /\ faults = 0 /\ switches = 0 /\ crashes = 0

Next == Broadcast \/ FlashStep \/ Lose \/ Late \/ Switch \/ PowerLoss

Spec == Init /\ [][Next]_vars

\* The station goes on sending and the device goes on running.
FairSpec == Spec /\ WF_vars(Broadcast) /\ WF_vars(FlashStep)

-----------------------------------------------------------------------------
(* Properties *)

TypeOK ==
    /\ startMultiUpgrade \in BOOLEAN /\ finishMultiUpgrade \in BOOLEAN
    /\ startSeq \in -1..(SeqMod - 1) /\ oldSeq \in -1..(SeqMod - 1)
    /\ maxSeq \in 0..(SeqMod - 1) /\ recvSeq \in 0..maxSeq
    /\ receive_len \in 0..(SeqMod - 1)
    /\ buf \in [Slots -> [img : Images \cup {"none"}, blk : 0..(SeqMod - 1)]]
    /\ job.img \in Images \cup {"none"} /\ step \in 1..9 /\ heard \subseteq Images
    /\ flash \in [{"boot", "env", "romfile", "backup", "linux"}
                     -> Images \cup {"old", "erased", "cut", "mixed"}]
    /\ image \in Images /\ pos \in 1..Pkts[image]
    /\ faults \in 0..MaxFaults /\ switches \in 0..MaxSwitches /\ crashes \in 0..MaxCrashes

\* While an attempt hears one image, every packet of it is in its own place,
\* wherever the device joined and whatever was lost, late or doubled, and whatever
\* an attempt given up before has left in the buffer.
InPlace ==
    \A i \in Images : startSeq # -1 /\ heard = {i} =>
        \A j \in 0..(recvSeq - 1) :
            LET s == (startSeq - 1 + j) % maxSeq IN buf[s] = Piece(i, s + 1)

\* When MultiWriteImage has finished, the image that an attempt heard alone is on the
\* flash, whole.  An image of the whole flash is never one with packets of another; a
\* kernel leaves the boot loader alone.  The settings are back to their defaults.
\* The environment stays, or was lost with the old boot loader in a power loss.
FlashSound ==
    /\ finishMultiUpgrade =>
          /\ \A i \in Images : heard = {i} => flash.linux = i
          /\ flash.linux \in AllInOne => flash.boot = flash.linux /\ flash.romfile = flash.linux
          /\ flash.linux \notin AllInOne => flash.boot \in {"old"} \cup AllInOne
                                            /\ flash.romfile = "erased"
          /\ flash.backup = "erased"
    /\ job = NoJob /\ ~Dead => flash.env = "old" \/ (crashes > 0 /\ flash.boot # "old")

\* The kernel an upgrade has put on the flash is one image, as the check of its hashes
\* ("hash check error!!!", multiupgrade.c:599) is there to see to.
KernelWhole == finishMultiUpgrade => flash.linux \in Images

\* A device that goes on hearing an image that fits finishes an upgrade: an attempt
\* that failed, by a lost packet, the size of the kernel or the checksum, is given up
\* and the next one begins with any packet.  Only the loss of the boot loader by a
\* power failure ends that.
Finishes ==
    <>[](image \in AllInOne \/ Pkts[image] <= Capacity) => <>(finishMultiUpgrade \/ Dead)
=============================================================================
