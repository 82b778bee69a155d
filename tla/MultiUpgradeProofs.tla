------------------------- MODULE MultiUpgradeProofs -------------------------
(***************************************************************************)
(* Proofs about the multicast upgrade, for any set of images, any lengths  *)
(* below SeqMod and any number of faults.                                  *)
(*                                                                         *)
(* That a packet is in its own place (InPlace) follows from how far the    *)
(* attempt has come: AttemptInv ties oldSeq, the number of the last packet *)
(* taken, to startSeq and recvSeq, so that the packet InSequence lets      *)
(* through and the slot the code computes from recvSeq belong together.    *)
(* That the flash is sound (FlashSound) when the upgrade is finished needs *)
(* to be known at every erase and write before, complete or cut: WriteInv  *)
(* says how far MultiWriteImage has come and what the flash holds then.    *)
(***************************************************************************)
EXTENDS MultiUpgrade, TLAPS

-----------------------------------------------------------------------------
(* The inductive invariant *)

\* What a part of the flash may hold.
Contents == Images \cup {"old", "erased", "cut", "mixed"}

\* What a slot of the buffer may hold.
Pieces == [img : Images \cup {"none"}, blk : 0..(SeqMod - 1)]

\* The packet the attempt has come to, counted on beyond maxSeq.
Reached == startSeq + recvSeq - 1

\* An attempt under way: recvSeq packets have come since startSeq, the last of them
\* oldSeq; when all have come they are written, or were.
AttemptInv ==
    /\ startSeq = -1 => recvSeq = 0 /\ maxSeq = 0
    /\ startSeq # -1 => /\ startSeq \in 1..maxSeq /\ recvSeq \in 1..maxSeq
                        /\ receive_len = recvSeq
                        /\ oldSeq \in {Reached, Reached - maxSeq} /\ oldSeq >= 1
                        /\ recvSeq = maxSeq => job # NoJob \/ finishMultiUpgrade

\* An attempt that has heard one image counts that image's packets.
OneImage ==
    startSeq # -1 => /\ heard # {}
                     /\ \A i \in Images : heard = {i} => maxSeq = Pkts[i]

\* The environment is there, unless the power was lost.
EnvKept(c) == c = "old" \/ crashes > 0

\* How far the write of an image of the whole flash has come.
WritingWhole ==
    /\ step \in 1..9 /\ job.content = job.img
    /\ step >= 2 => flash.boot # "old"
    /\ step >= 6 => flash.boot = job.img
    /\ step >= 7 => flash.env = job.env
    /\ step >= 8 => flash.romfile = job.img
    /\ step >= 9 => flash.linux = job.img

\* How far the write of a kernel has come.
WritingKernel ==
    /\ step \in 1..4
    /\ flash.boot \in {"old"} \cup AllInOne /\ EnvKept(flash.env)
    /\ step >= 2 => flash.romfile = "erased"
    /\ step >= 3 => flash.backup = "erased"

\* What is being written: the one image the attempt has heard, or what is in the buffer.
JobInv ==
    /\ job.img \in Images /\ job.content \in {job.img, "mixed"}
    /\ job.env \in Contents /\ EnvKept(job.env)
    /\ \A i \in Images : heard = {i} => job.content = i
    /\ job.img \in AllInOne => WritingWhole
    /\ job.img \notin AllInOne => WritingKernel

\* Whoever writes is in the middle of one image, and has not reported its end; the
\* environment is never lost before the old boot loader is.
WriteInv ==
    /\ flash.boot = "old" => flash.env = "old"
    /\ job = NoJob => step = 1 /\ EnvKept(flash.env)
    /\ job # NoJob => ~finishMultiUpgrade /\ JobInv

\* The inductive invariant.
Inv == TypeOK /\ AttemptInv /\ OneImage /\ InPlace /\ WriteInv /\ FlashSound

-----------------------------------------------------------------------------
(* Arithmetic of the sequence numbers *)

\* A number below M is its own remainder, one below 2 * M loses M at most once.
LEMMA Remainder ==
    ASSUME NEW M \in Nat \ {0}, NEW a \in Nat, a < M + M
    PROVE  /\ a < M => a % M = a
           /\ a >= M => a % M = a - M
OBVIOUS

\* The sequence number on the wire is the number of the packet.
LEMMA Packets ==
    ASSUME NEW i \in Images
    PROVE  /\ Pkts[i] \in Nat \ {0} /\ Pkts[i] < SeqMod /\ SeqMod \in Nat \ {0, 1}
           /\ \A n \in 1..Pkts[i] : n % SeqMod = n
<1>1. Pkts[i] \in Nat \ {0} /\ Pkts[i] < SeqMod /\ SeqMod \in Nat \ {0, 1}
  BY MultiUpgradeAssumption
<1>2. ASSUME NEW n \in 1..Pkts[i] PROVE n % SeqMod = n
  <2>1. n \in Nat /\ n < SeqMod /\ n < SeqMod + SeqMod /\ SeqMod \in Nat \ {0}
    BY <1>1
  <2> QED
    BY <2>1, Remainder
<1> QED
  BY <1>1, <1>2

\* A packet of an image, and no packet at all, is what a slot may hold.
LEMMA PieceType ==
    ASSUME NEW i \in Images, NEW n \in 1..Pkts[i]
    PROVE  Piece(i, n) \in Pieces /\ Nothing \in Pieces
<1>1. n \in 0..(SeqMod - 1) /\ 0 \in 0..(SeqMod - 1)
  BY Packets
<1> QED
  BY <1>1 DEF Piece, Nothing, Pieces

\* What MultiUpgradeHandle finds in its variables when packet n of image i comes: the
\* first packet of an attempt sets them.
First == startSeq = -1
Start(n) == IF First THEN n ELSE startSeq
Old(n) == IF First THEN n - 1 ELSE oldSeq
Max(i) == IF First THEN Pkts[i] ELSE maxSeq

\* A packet n that InSequence lets through is the one the attempt waits for, and its slot
\* is not behind its number: y counts on from startSeq, beyond the last packet too.
LEMMA NextPacket ==
    ASSUME TypeOK, AttemptInv, job = NoJob, ~finishMultiUpgrade,
           NEW i \in Images, NEW n \in 1..Pkts[i], InSequence(n, Old(n), Max(i)),
           NEW y, y = Start(n) + recvSeq - 1, NEW s, s = Slot(recvSeq + 1, Start(n), Max(i))
    PROVE  /\ Max(i) \in 1..(SeqMod - 1) /\ Start(n) \in 1..Max(i) /\ recvSeq + 1 \in 1..Max(i)
           /\ n \in {y + 1, y + 1 - Max(i)}
           /\ y \in Nat /\ s = IF y < Max(i) THEN y ELSE y - Max(i)
           /\ s \in 0..(Max(i) - 1) /\ s + 1 <= n
<1>0. Pkts[i] \in Nat \ {0} /\ Pkts[i] < SeqMod /\ SeqMod \in Nat \ {0, 1}
  BY Packets
<1>1. /\ Max(i) \in 1..(SeqMod - 1) /\ Start(n) \in 1..Max(i) /\ recvSeq + 1 \in 1..Max(i)
      /\ Old(n) \in 0..(SeqMod - 1) /\ recvSeq \in 0..(Max(i) - 1)
  <2>1. CASE First
    BY <1>0, <2>1 DEF AttemptInv, First, Start, Old, Max
  <2>2. CASE ~First
    BY <1>0, <2>2 DEF TypeOK, AttemptInv, First, Start, Old, Max
  <2> QED
    BY <2>1, <2>2
<1>2. Old(n) \in {y, y - Max(i)}
  BY DEF AttemptInv, First, Start, Old, Max, Reached, TypeOK
<1>3. n = Old(n) + 1 \/ (n = 1 /\ Old(n) = Max(i))
  <2>1. Max(i) % SeqMod = Max(i)
    BY <1>1, Packets, Remainder
  <2>2. (Old(n) + 1) % SeqMod = IF Old(n) + 1 < SeqMod THEN Old(n) + 1 ELSE 0
    <3>1. PICK o \in Nat : o = Old(n) + 1 /\ o < SeqMod + SeqMod /\ o <= SeqMod
      BY <1>0, <1>1
    <3>2. o % SeqMod = IF o < SeqMod THEN o ELSE 0
      BY <1>0, <3>1, Remainder
    <3> QED
      BY <3>1, <3>2
  <2> QED
    BY <2>1, <2>2, <1>1 DEF InSequence
<1>4. y \in Nat /\ y < Max(i) + Max(i)
  BY <1>1
<1>5. s = IF y < Max(i) THEN y ELSE y - Max(i)
  <2>1. s = y % Max(i) /\ Max(i) \in Nat \ {0}
    BY <1>1 DEF Slot
  <2> QED
    BY <2>1, <1>4, Remainder
<1> QED
  BY <1>1, <1>2, <1>3, <1>4, <1>5

-----------------------------------------------------------------------------
(* The handler *)

\* MultiUpgradeHandle, given packet n of image i, fails and begins anew, or stores the
\* packet and counts it; the last packet of an image that verifies starts the write.
LEMMA HandlerCases ==
    ASSUME TypeOK, ~finishMultiUpgrade, NEW i \in Images, NEW n \in 1..Pkts[i],
           MultiUpgradeHandle(i, n),
           NEW s, s = Slot(recvSeq + 1, Start(n), Max(i))
    PROVE  \/ /\ Error /\ ~InSequence(n, Old(n), Max(i))
              /\ UNCHANGED <<oldSeq, receive_len, buf, job>>
           \/ /\ InSequence(n, Old(n), Max(i))
              /\ oldSeq' = n /\ buf' = [buf EXCEPT ![s] = Piece(i, n)]
              /\ \/ /\ Error /\ UNCHANGED job
                    /\ receive_len' \in {0, (IF First THEN 0 ELSE receive_len) + 1}
                 \/ /\ startSeq' = Start(n) /\ maxSeq' = Max(i) /\ recvSeq' = recvSeq + 1
                    /\ receive_len' = (IF First THEN 0 ELSE receive_len) + 1
                    /\ heard' = (IF First THEN {} ELSE heard) \cup {i}
                    /\ \/ recvSeq' # maxSeq' /\ UNCHANGED job
                       \/ /\ recvSeq' = maxSeq'
                          /\ \E j \in Images : /\ Verified(buf', j, Pkts[i])
                                               /\ job' = Job(buf', j, Pkts[i])
<1>1. n % SeqMod = n
  BY Packets
<1> QED
  BY <1>1 DEF MultiUpgradeHandle, First, Start, Old, Max

\* MultiUpgradeHandle stores the packet in its own place, and the earlier ones stay in theirs.
LEMMA PlaceKept ==
    ASSUME TypeOK, AttemptInv, OneImage, InPlace, job = NoJob, ~finishMultiUpgrade,
           NEW i \in Images, NEW n \in 1..Pkts[i], InSequence(n, Old(n), Max(i)),
           startSeq' = Start(n), maxSeq' = Max(i), recvSeq' = recvSeq + 1,
           heard' = (IF First THEN {} ELSE heard) \cup {i},
           buf' = [buf EXCEPT ![Slot(recvSeq + 1, Start(n), Max(i))] = Piece(i, n)]
    PROVE  InPlace' /\ OneImage'
<1> DEFINE y == Start(n) + recvSeq - 1
           s == Slot(recvSeq + 1, Start(n), Max(i))
           m == Max(i)
<1>1. SUFFICES ASSUME heard' = {i} PROVE InPlace' /\ OneImage'
  BY DEF InPlace, OneImage
<1>2. m = Pkts[i] /\ (First \/ heard = {i})
  BY <1>1 DEF OneImage, Max, First
<1>3. /\ m \in 1..(SeqMod - 1) /\ Start(n) \in 1..m /\ recvSeq + 1 \in 1..m
      /\ n \in {y + 1, y + 1 - m}
      /\ y \in Nat /\ s = (IF y < m THEN y ELSE y - m)
      /\ s \in 0..(m - 1) /\ s + 1 <= n
  BY NextPacket
<1>4. n = s + 1
  BY <1>2, <1>3
<1>5. \A q \in Slots : buf'[q] = IF q = s THEN Piece(i, n) ELSE buf[q]
  BY DEF TypeOK
<1> HIDE DEF s, m
<1>6. /\ recvSeq \in 0..(m - 1) /\ m \in Nat \ {0} /\ SeqMod \in Nat
      /\ y = Start(n) - 1 + recvSeq /\ Start(n) \in Nat
  <2>1. SeqMod \in Nat /\ recvSeq \in Nat
    BY MultiUpgradeAssumption DEF TypeOK
  <2> QED
    BY <1>3, <2>1
<1> HIDE DEF y
<1>7. ASSUME NEW j \in 0..recvSeq, NEW q, q = (Start(n) - 1 + j) % m
      PROVE  buf'[q] = Piece(i, q + 1)
  <2>1. PICK z \in Nat : z = Start(n) - 1 + j /\ z < m + m
    BY <1>3, <1>6
  <2>2. q = IF z < m THEN z ELSE z - m
    <3>1. q = z % m
      BY <1>7, <2>1
    <3> QED
      BY <2>1, <3>1, <1>6, Remainder
  <2>3. q \in Slots
    <3>1. q \in 0..(m - 1)
      BY <1>6, <2>1, <2>2
    <3> QED
      BY <1>3, <1>6, <3>1 DEF Slots
  <2>4. CASE j = recvSeq
    <3>1. q = s
      BY <1>3, <1>6, <2>1, <2>2, <2>4
    <3> QED
      BY <1>4, <1>5, <2>3, <3>1
  <2>5. CASE j # recvSeq
    <3>1. ~First /\ j \in 0..(recvSeq - 1)
      BY <2>5 DEF First, AttemptInv, TypeOK
    <3>2. buf[q] = Piece(i, q + 1)
      BY <1>2, <1>7, <3>1 DEF InPlace, m, Max, Start, First
    <3>3. q # s
      BY <1>3, <1>6, <2>1, <2>2, <2>5
    <3> QED
      BY <1>5, <2>3, <3>2, <3>3
  <2> QED
    BY <2>4, <2>5
<1>8. recvSeq' - 1 = recvSeq
  BY DEF TypeOK
<1>9. InPlace'
  BY <1>1, <1>7, <1>8 DEF InPlace, m
<1>10. OneImage'
  BY <1>1, <1>2 DEF OneImage, m
<1> QED
  BY <1>9, <1>10

\* When the last packet of an image heard alone has come, the image is whole in the buffer.
LEMMA AllInPlace ==
    ASSUME NEW i \in Images, NEW b, NEW f \in 1..Pkts[i],
           \A j \in 0..(Pkts[i] - 1) :
               b[(f - 1 + j) % Pkts[i]] = Piece(i, ((f - 1 + j) % Pkts[i]) + 1)
    PROVE  Whole(b, i)
<1>1. Pkts[i] \in Nat \ {0}
  BY Packets
<1>2. ASSUME NEW n \in 1..Pkts[i] PROVE b[n - 1] = Piece(i, n)
  <2>1. PICK j \in 0..(Pkts[i] - 1), z \in Nat :
          z = f - 1 + j /\ z < Pkts[i] + Pkts[i] /\ (z = n - 1 \/ z = n - 1 + Pkts[i])
    <3>1. CASE f <= n
      <4>1. /\ n - f \in 0..(Pkts[i] - 1) /\ n - 1 \in Nat /\ n - 1 = f - 1 + (n - f)
            /\ n - 1 < Pkts[i] + Pkts[i]
        BY <1>1, <3>1
      <4> QED
        BY <4>1
    <3>2. CASE n < f
      <4>1. /\ n - f + Pkts[i] \in 0..(Pkts[i] - 1) /\ n - 1 + Pkts[i] \in Nat
            /\ n - 1 + Pkts[i] = f - 1 + (n - f + Pkts[i])
            /\ n - 1 + Pkts[i] < Pkts[i] + Pkts[i]
        BY <1>1, <3>2
      <4> QED
        BY <4>1
    <3> QED
      BY <3>1, <3>2
  <2>2. z % Pkts[i] = n - 1
    BY <1>1, <2>1, Remainder
  <2>3. (n - 1) + 1 = n
    OBVIOUS
  <2> QED
    BY <2>1, <2>2, <2>3
<1> QED
  BY <1>2 DEF Whole

\* MultiWriteImage starts with a device that can boot, and with the image itself if the
\* attempt has heard no other.
LEMMA WriteStarts ==
    ASSUME TypeOK, AttemptInv, WriteInv, OneImage', InPlace', job = NoJob, ~Dead,
           ~finishMultiUpgrade, startSeq' \in 1..maxSeq', recvSeq' = maxSeq',
           NEW i \in Images, i \in heard', NEW j \in Images, Verified(buf', j, Pkts[i]),
           job' = Job(buf', j, Pkts[i]),
           UNCHANGED <<flash, step, finishMultiUpgrade, crashes>>
    PROVE  WriteInv' /\ job' # NoJob
<1>1. /\ job'.img = j /\ job'.env = flash.env
      /\ job'.content = IF Whole(buf', j) /\ Pkts[i] >= Pkts[j] THEN j ELSE "mixed"
  BY DEF Job
<1>2. job' # NoJob
  BY <1>1, MultiUpgradeAssumption DEF NoJob
<1>3. step = 1 /\ EnvKept(flash.env) /\ (flash.boot = "old" => flash.env = "old")
  BY DEF WriteInv
<1>4. flash.boot \in {"old"} \cup AllInOne /\ flash.env \in Contents
  BY DEF Dead, TypeOK, Contents
<1>5. ASSUME NEW k \in Images, heard' = {k} PROVE job'.content = k
  <2>1. k = i /\ maxSeq' = Pkts[i] /\ Pkts[i] \in Nat \ {0}
    BY <1>5, Packets DEF OneImage, AttemptInv
  <2>2. Whole(buf', i)
    <3>1. startSeq' # -1 /\ recvSeq' - 1 = Pkts[i] - 1
      BY <2>1
    <3>2. \A q \in 0..(Pkts[i] - 1) :
            buf'[(startSeq' - 1 + q) % Pkts[i]] = Piece(i, ((startSeq' - 1 + q) % Pkts[i]) + 1)
      BY <1>5, <2>1, <3>1 DEF InPlace
    <3> QED
      BY <2>1, <3>2, AllInPlace
  <2>3. buf'[0] = Piece(i, 1)
    <3>1. 1 \in 1..Pkts[i] /\ 1 - 1 = 0
      BY <2>1
    <3> QED
      BY <2>2, <3>1 DEF Whole
  <2>4. buf'[0] = Piece(j, 1)
    <3>1. 1 \in 1..Pkts[j] /\ 1 - 1 = 0
      BY Packets
    <3> QED
      BY <3>1 DEF Verified, Whole
  <2>5. i = j
    BY <2>3, <2>4 DEF Piece
  <2> QED
    BY <1>1, <2>1, <2>2, <2>5
<1>6. j \in AllInOne => job'.content = j
  BY <1>1, Packets DEF Verified
<1> QED
  BY <1>1, <1>2, <1>3, <1>4, <1>5, <1>6
    DEF WriteInv, JobInv, WritingWhole, WritingKernel, EnvKept

\* A frame of the upgrade, in or out of sequence, keeps the invariant.
LEMMA ProcessKeeps ==
    ASSUME Inv, NEW n \in 1..Pkts[image], multiupgrade_process(image, n),
           pos' \in 1..Pkts[image], faults' \in 0..MaxFaults,
           UNCHANGED <<image, switches, crashes>>
    PROVE  Inv'
<1>1. /\ TypeOK /\ AttemptInv /\ OneImage /\ InPlace /\ WriteInv /\ FlashSound
      /\ image \in Images /\ job = NoJob /\ ~Dead
      /\ UNCHANGED <<finishMultiUpgrade, step, flash>>
      /\ startMultiUpgrade' \in BOOLEAN
  BY DEF Inv, TypeOK, multiupgrade_process
<1> DEFINE s == Slot(recvSeq + 1, Start(n), Max(image))
<1>2. CASE finishMultiUpgrade
  <2>1. UNCHANGED <<seqs, buf, job, heard>>
    BY <1>2 DEF multiupgrade_process, MultiUpgradeHandle
  <2>2. TypeOK'
    BY <1>1, <2>1 DEF TypeOK, seqs
  <2>3. AttemptInv' /\ OneImage' /\ InPlace'
    BY <1>1, <2>1 DEF AttemptInv, Reached, OneImage, InPlace, seqs
  <2>4. WriteInv' /\ FlashSound'
    BY <1>1, <2>1 DEF WriteInv, EnvKept, FlashSound, Dead
  <2> QED
    BY <2>2, <2>3, <2>4 DEF Inv
<1>3. CASE /\ ~finishMultiUpgrade /\ Error /\ UNCHANGED job
           /\ oldSeq' \in -1..(SeqMod - 1) /\ receive_len' \in 0..(SeqMod - 1)
           /\ buf' \in [Slots -> Pieces]
  <2>1. TypeOK'
    <3>1. SeqMod \in Nat \ {0, 1}
      BY <1>1, Packets
    <3> QED
      BY <1>1, <1>3, <3>1 DEF TypeOK, Pieces, Error
  <2>2. AttemptInv' /\ OneImage' /\ InPlace'
    BY <1>3 DEF AttemptInv, OneImage, InPlace, Error
  <2>3. WriteInv' /\ FlashSound'
    BY <1>1, <1>3 DEF WriteInv, EnvKept, FlashSound, Dead
  <2> QED
    BY <2>1, <2>2, <2>3 DEF Inv
<1>4. CASE /\ ~finishMultiUpgrade /\ InSequence(n, Old(n), Max(image))
           /\ oldSeq' = n /\ buf' = [buf EXCEPT ![s] = Piece(image, n)]
           /\ startSeq' = Start(n) /\ maxSeq' = Max(image) /\ recvSeq' = recvSeq + 1
           /\ receive_len' = (IF First THEN 0 ELSE receive_len) + 1
           /\ heard' = (IF First THEN {} ELSE heard) \cup {image}
           /\ \/ recvSeq' # maxSeq' /\ UNCHANGED job
              \/ /\ recvSeq' = maxSeq'
                 /\ \E j \in Images : /\ Verified(buf', j, Pkts[image])
                                      /\ job' = Job(buf', j, Pkts[image])
  <2> DEFINE y == Start(n) + recvSeq - 1
  <2>1. /\ Max(image) \in 1..(SeqMod - 1) /\ Start(n) \in 1..Max(image)
        /\ recvSeq + 1 \in 1..Max(image) /\ n \in {y + 1, y + 1 - Max(image)}
        /\ s \in 0..(Max(image) - 1)
    BY <1>1, <1>4, NextPacket
  <2>2. SeqMod \in Nat /\ Pkts[image] \in Nat /\ Pkts[image] < SeqMod /\ recvSeq \in Nat
    BY <1>1, Packets DEF TypeOK
  <2>3. receive_len' = recvSeq'
    BY <1>1, <1>4 DEF AttemptInv, First
  <2>4. InPlace' /\ OneImage'
    BY <1>1, <1>4, PlaceKept
  <2>5. \/ job' # NoJob /\ WriteInv' /\ recvSeq' = maxSeq'
        \/ recvSeq' # maxSeq' /\ UNCHANGED job
    <3>1. startSeq' \in 1..maxSeq' /\ image \in heard'
      BY <1>4, <2>1
    <3> QED
      BY <1>1, <1>4, <2>4, <3>1, WriteStarts
  <2>6. AttemptInv'
    BY <1>1, <1>4, <2>1, <2>2, <2>3, <2>5 DEF AttemptInv, Reached
  <2>7. job'.img \in Images \cup {"none"}
    BY <1>1, <1>4 DEF TypeOK, Job
  <2>8. TypeOK'
    <3>1. buf' \in [Slots -> Pieces]
      BY <1>1, <1>4, PieceType DEF TypeOK, Pieces
    <3>2. /\ startSeq' \in -1..(SeqMod - 1) /\ oldSeq' \in -1..(SeqMod - 1)
          /\ maxSeq' \in 0..(SeqMod - 1) /\ recvSeq' \in 0..maxSeq'
          /\ receive_len' \in 0..(SeqMod - 1)
      BY <1>4, <2>1, <2>2, <2>3
    <3>3. heard' \subseteq Images
      BY <1>1, <1>4 DEF TypeOK
    <3> QED
      BY <1>1, <2>7, <3>1, <3>2, <3>3 DEF TypeOK, Pieces
  <2>9. WriteInv'
    BY <1>1, <2>5 DEF WriteInv, EnvKept
  <2>10. FlashSound'
    BY <1>1, <1>4, <2>9 DEF WriteInv, EnvKept, FlashSound, Dead
  <2> QED
    BY <2>4, <2>6, <2>8, <2>9, <2>10 DEF Inv
<1>5. ASSUME ~finishMultiUpgrade, Error, UNCHANGED <<oldSeq, receive_len, buf, job>>
      PROVE  Inv'
  BY <1>1, <1>3, <1>5 DEF TypeOK, Pieces
<1>6. ASSUME ~finishMultiUpgrade, InSequence(n, Old(n), Max(image)), Error, UNCHANGED job,
             oldSeq' = n, buf' = [buf EXCEPT ![s] = Piece(image, n)],
             receive_len' \in {0, (IF First THEN 0 ELSE receive_len) + 1}
      PROVE  Inv'
  <2>1. SeqMod \in Nat /\ Pkts[image] \in Nat /\ Pkts[image] < SeqMod /\ recvSeq \in Nat
    BY <1>1, Packets DEF TypeOK
  <2>2. receive_len' \in 0..(SeqMod - 1)
    <3>1. Max(image) \in 1..(SeqMod - 1) /\ recvSeq + 1 \in 1..Max(image)
      BY <1>1, <1>6, NextPacket
    <3>2. (IF First THEN 0 ELSE receive_len) = recvSeq
      BY <1>1 DEF AttemptInv, First
    <3> QED
      BY <1>6, <2>1, <3>1, <3>2
  <2>3. buf' \in [Slots -> Pieces]
    BY <1>1, <1>6, PieceType DEF TypeOK, Pieces
  <2> QED
    BY <1>3, <1>6, <2>1, <2>2, <2>3
<1> QED
  <2> SUFFICES ASSUME ~finishMultiUpgrade PROVE Inv'
    BY <1>2
  <2>1. MultiUpgradeHandle(image, n)
    BY DEF multiupgrade_process
  <2> QED
    BY <1>1, <1>4, <1>5, <1>6, <2>1, HandlerCases

\* The order of the erases and writes.
LEMMA Order ==
    ASSUME TypeOK, JobInv, NEW w, w = MultiWriteImage(job)[step]
    PROVE  /\ job.img \in AllInOne =>
                /\ Len(MultiWriteImage(job)) = 9
                /\ step = 1 => w.part = "boot" /\ w.to = "erased"
                /\ step = 2 => w.part = "env" /\ w.to = "erased"
                /\ step = 3 => w.part = "romfile" /\ w.to = "erased"
                /\ step = 4 => w.part = "linux" /\ w.to = "erased"
                /\ step = 5 => w.part = "boot" /\ w.to = job.content
                /\ step = 6 => w.part = "env" /\ w.to = job.env
                /\ step = 7 => w.part = "romfile" /\ w.to = job.content
                /\ step = 8 => w.part = "linux" /\ w.to = job.content
                /\ step = 9 => w.part = "backup" /\ w.to = "erased"
           /\ job.img \notin AllInOne =>
                /\ Len(MultiWriteImage(job)) = 4
                /\ step = 1 => w.part = "romfile" /\ w.to = "erased"
                /\ step = 2 => w.part = "backup" /\ w.to = "erased"
                /\ step = 3 => w.part = "linux" /\ w.to = "erased"
                /\ step = 4 => w.part = "linux" /\ w.to = job.content
BY DEF MultiWriteImage, Erase, Write

\* Every erase and every write of MultiWriteImage, begun or done, keeps the invariant.
LEMMA FlashStepKeeps ==
    ASSUME Inv, FlashStep
    PROVE  Inv'
<1> DEFINE P == {"boot", "env", "romfile", "backup", "linux"}
           w == MultiWriteImage(job)[step]
           last == Len(MultiWriteImage(job))
<1>1. /\ TypeOK /\ AttemptInv /\ OneImage /\ InPlace /\ WriteInv /\ FlashSound
      /\ job # NoJob /\ ~finishMultiUpgrade /\ JobInv
      /\ flash' = [flash EXCEPT ![w.part] = IF flash[w.part] = "cut" THEN w.to ELSE "cut"]
      /\ UNCHANGED <<startMultiUpgrade, startSeq, oldSeq, maxSeq, recvSeq, receive_len, buf,
                     heard, image, pos, faults, switches, crashes>>
  BY DEF Inv, FlashStep, WriteInv, seqs, station, bounds
<1>2. \/ flash[w.part] # "cut" /\ UNCHANGED <<finishMultiUpgrade, job, step>>
      \/ flash[w.part] = "cut" /\ step < last /\ step' = step + 1
         /\ UNCHANGED <<finishMultiUpgrade, job>>
      \/ flash[w.part] = "cut" /\ step = last /\ step' = 1 /\ job' = NoJob
         /\ finishMultiUpgrade' = TRUE
  BY DEF FlashStep, writing
<1>3. /\ step \in 1..9 /\ (job.img \notin AllInOne => step \in 1..4)
      /\ DOMAIN flash = P /\ \A p \in P : flash[p] \in Contents
  BY <1>1 DEF TypeOK, Contents, JobInv, WritingKernel
<1>4. w.part \in P /\ w.to \in Contents
  BY <1>1, <1>3, Order DEF JobInv, Contents
<1>5. /\ flash' \in [P -> Contents]
      /\ \A p \in P : flash'[p] = IF p # w.part THEN flash[p]
                                   ELSE IF flash[p] = "cut" THEN w.to ELSE "cut"
  BY <1>1, <1>3, <1>4 DEF Contents
<1>6. Images \cap {"old", "erased", "cut", "mixed", "none"} = {} /\ AllInOne \subseteq Images
  BY MultiUpgradeAssumption
<1> HIDE DEF w, last
<1>7. ASSUME job.img \in AllInOne PROVE WriteInv' /\ FlashSound'
  <2>1. WritingWhole /\ last = 9
    BY <1>1, <1>7, Order DEF JobInv, last
  <2>2. /\ step \in {1, 5} => w.part = "boot"
        /\ step \in {2, 6} => w.part = "env"
        /\ step \in {3, 7} => w.part = "romfile"
        /\ step \in {4, 8} => w.part = "linux"
        /\ step = 9 => w.part = "backup"
    BY <1>1, <1>7, Order DEF w
  <2>3. /\ step \in {1, 2, 3, 4, 9} => w.to = "erased"
        /\ step \in {5, 7, 8} => w.to = job.content
        /\ step = 6 => w.to = job.env
    BY <1>1, <1>7, Order DEF w
  <2>4. (flash.boot = "old" => flash.env = "old")'
    BY <1>1, <1>3, <1>5, <1>6, <2>1, <2>2, <2>3 DEF WriteInv, WritingWhole, JobInv
  <2>5. CASE UNCHANGED <<finishMultiUpgrade, job, step>> /\ flash[w.part] # "cut"
    <3>1. JobInv'
      BY <1>1, <1>3, <1>5, <1>7, <2>1, <2>2, <2>5 DEF JobInv, WritingWhole, EnvKept
    <3> QED
      BY <1>1, <2>4, <2>5, <3>1 DEF WriteInv, FlashSound
  <2>6. CASE /\ flash[w.part] = "cut" /\ step < last /\ step' = step + 1
             /\ UNCHANGED <<finishMultiUpgrade, job>>
    <3>1. WritingWhole'
      BY <1>1, <1>3, <1>5, <1>6, <1>7, <2>1, <2>2, <2>3, <2>6 DEF WritingWhole
    <3>2. JobInv'
      BY <1>1, <1>7, <2>6, <3>1 DEF JobInv, EnvKept
    <3> QED
      BY <1>1, <2>4, <2>6, <3>2 DEF WriteInv, FlashSound
  <2>7. CASE /\ flash[w.part] = "cut" /\ step = last /\ step' = 1 /\ job' = NoJob
             /\ finishMultiUpgrade' = TRUE
    <3>1. /\ flash'.boot = job.img /\ flash'.env = job.env /\ flash'.romfile = job.img
          /\ flash'.linux = job.img /\ flash'.backup = "erased" /\ job.content = job.img
      BY <1>5, <2>1, <2>2, <2>3, <2>7 DEF WritingWhole
    <3>2. WriteInv'
      BY <1>1, <2>4, <2>7, <3>1 DEF WriteInv, JobInv, EnvKept
    <3> QED
      BY <1>1, <1>6, <1>7, <2>7, <3>1, <3>2 DEF WriteInv, JobInv, FlashSound, EnvKept
  <2> QED
    BY <1>2, <2>5, <2>6, <2>7
<1>8. ASSUME job.img \notin AllInOne PROVE WriteInv' /\ FlashSound'
  <2>1. WritingKernel /\ last = 4
    BY <1>1, <1>8, Order DEF JobInv, last
  <2>2. /\ step = 1 => w.part = "romfile" /\ w.to = "erased"
        /\ step = 2 => w.part = "backup" /\ w.to = "erased"
        /\ step = 3 => w.part = "linux" /\ w.to = "erased"
        /\ step = 4 => w.part = "linux" /\ w.to = job.content
    BY <1>1, <1>8, Order DEF w
  <2>3. flash'.boot = flash.boot /\ flash'.env = flash.env
    BY <1>3, <1>5, <1>8, <2>2
  <2>4. CASE UNCHANGED <<finishMultiUpgrade, job, step>> /\ flash[w.part] # "cut"
    <3>1. WritingKernel'
      BY <1>1, <1>3, <1>5, <1>8, <2>1, <2>2, <2>3, <2>4 DEF WritingKernel, EnvKept
    <3>2. JobInv'
      BY <1>1, <1>8, <2>4, <3>1 DEF JobInv, EnvKept
    <3> QED
      BY <1>1, <2>3, <2>4, <3>2 DEF WriteInv, FlashSound
  <2>5. CASE /\ flash[w.part] = "cut" /\ step < last /\ step' = step + 1
             /\ UNCHANGED <<finishMultiUpgrade, job>>
    <3>1. WritingKernel'
      BY <1>1, <1>3, <1>5, <1>8, <2>1, <2>2, <2>3, <2>5 DEF WritingKernel, EnvKept
    <3>2. JobInv'
      BY <1>1, <1>8, <2>5, <3>1 DEF JobInv, EnvKept
    <3> QED
      BY <1>1, <2>3, <2>5, <3>2 DEF WriteInv, FlashSound
  <2>6. CASE /\ flash[w.part] = "cut" /\ step = last /\ step' = 1 /\ job' = NoJob
             /\ finishMultiUpgrade' = TRUE
    <3>1. /\ flash'.romfile = "erased" /\ flash'.backup = "erased"
          /\ flash'.linux = job.content
      BY <1>5, <2>1, <2>2, <2>6 DEF WritingKernel
    <3>2. WriteInv'
      BY <1>1, <2>1, <2>3, <2>6 DEF WriteInv, WritingKernel, EnvKept
    <3>3. flash'.linux \notin AllInOne
      BY <1>1, <1>6, <1>8, <3>1 DEF JobInv
    <3> QED
      BY <1>1, <2>1, <2>3, <2>6, <3>1, <3>2, <3>3
        DEF WriteInv, WritingKernel, JobInv, FlashSound, EnvKept
  <2> QED
    BY <1>2, <2>4, <2>5, <2>6
<1>9. TypeOK'
  <2>1. job'.img \in Images \cup {"none"}
    BY <1>1, <1>2 DEF NoJob, JobInv
  <2>2. last \in {4, 9}
    BY <1>1, Order DEF last
  <2>3. step' \in 1..9
    BY <1>2, <1>3, <2>2
  <2>4. finishMultiUpgrade' \in BOOLEAN
    BY <1>1, <1>2 DEF TypeOK
  <2> QED
    BY <1>1, <1>5, <2>1, <2>3, <2>4 DEF TypeOK, Contents
<1>10. AttemptInv' /\ OneImage' /\ InPlace'
  BY <1>1, <1>2 DEF AttemptInv, Reached, OneImage, InPlace
<1> QED
  BY <1>7, <1>8, <1>9, <1>10 DEF Inv

\* A lost packet, another image of the station's and a power loss keep the invariant.
LEMMA OthersKeep ==
    ASSUME Inv, Lose \/ Switch \/ PowerLoss \/ UNCHANGED vars
    PROVE  Inv'
<1> USE DEF Inv
<1>1. CASE Lose
  <2>1. TypeOK'
    BY <1>1, Packets, MultiUpgradeAssumption DEF TypeOK, Lose, NextPos, seqs, writing
  <2>2. AttemptInv' /\ OneImage' /\ InPlace'
    BY <1>1 DEF Lose, AttemptInv, Reached, OneImage, InPlace, seqs, writing
  <2>3. WriteInv' /\ FlashSound'
    BY <1>1 DEF Lose, writing, WriteInv, JobInv, WritingWhole, WritingKernel, EnvKept,
       FlashSound, Dead
  <2> QED
    BY <2>1, <2>2, <2>3
<1>2. CASE Switch
  <2>1. TypeOK'
    BY <1>2, MultiUpgradeAssumption DEF TypeOK, Switch, seqs, writing
  <2>2. AttemptInv' /\ OneImage' /\ InPlace'
    BY <1>2 DEF Switch, TypeOK, AttemptInv, Reached, OneImage, InPlace, seqs, writing
  <2>3. WriteInv' /\ FlashSound'
    BY <1>2 DEF Switch, writing, WriteInv, JobInv, WritingWhole, WritingKernel, EnvKept,
       FlashSound, Dead
  <2> QED
    BY <2>1, <2>2, <2>3
<1>3. CASE PowerLoss
  <2>1. TypeOK'
    <3>1. SeqMod \in Nat \ {0, 1} /\ Nothing \in Pieces
      BY Packets, PieceType DEF TypeOK
    <3> QED
      <4>1. buf' \in [Slots -> Pieces]
        BY <1>3, <3>1 DEF PowerLoss
      <4>2. crashes' \in 0..MaxCrashes
        BY <1>3, MultiUpgradeAssumption DEF TypeOK, PowerLoss
      <4>3. -1 \in -1..(SeqMod - 1) /\ 0 \in 0..(SeqMod - 1) /\ 0 \in 0..0
        BY <3>1
      <4>4. NoJob.img \in Images \cup {"none"} /\ 1 \in 1..9
        BY DEF NoJob
      <4> QED
        BY <1>3, <3>1, <4>1, <4>2, <4>3, <4>4 DEF TypeOK, PowerLoss, station, Pieces
  <2>2. AttemptInv' /\ OneImage' /\ InPlace'
    BY <1>3 DEF PowerLoss, AttemptInv, OneImage, InPlace
  <2>3. WriteInv' /\ FlashSound'
    <3>1. crashes' > 0
      BY <1>3 DEF PowerLoss, TypeOK
    <3> QED
      BY <1>3, <3>1 DEF PowerLoss, WriteInv, EnvKept, FlashSound, Dead
  <2> QED
    BY <2>1, <2>2, <2>3
<1>4. CASE UNCHANGED vars
  <2>1. TypeOK'
    BY <1>4 DEF TypeOK, vars, seqs, writing, station, bounds
  <2>2. AttemptInv' /\ OneImage' /\ InPlace'
    BY <1>4 DEF AttemptInv, Reached, OneImage, InPlace, vars, seqs, writing,
       station, bounds
  <2>3. WriteInv' /\ FlashSound'
    BY <1>4 DEF WriteInv, JobInv, WritingWhole, WritingKernel, EnvKept, FlashSound,
       Dead, vars, writing, bounds
  <2> QED
    BY <2>1, <2>2, <2>3
<1> QED
  BY <1>1, <1>2, <1>3, <1>4

\* The invariant holds when the device was powered on.
LEMMA InvInit == Init => Inv
<1> SUFFICES ASSUME Init PROVE Inv
  OBVIOUS
<1>1. TypeOK
  <2>1. SeqMod \in Nat \ {0, 1} /\ Nothing \in Pieces
    BY Packets, PieceType DEF Init
  <2> QED
    <3>1. /\ buf \in [Slots -> Pieces]
          /\ flash \in [{"boot", "env", "romfile", "backup", "linux"} -> Contents]
      BY <2>1 DEF Init, Contents
    <3>2. /\ -1 \in -1..(SeqMod - 1) /\ 0 \in 0..(SeqMod - 1) /\ 0 \in 0..0
          /\ 0 \in 0..MaxFaults /\ 0 \in 0..MaxSwitches /\ 0 \in 0..MaxCrashes
      BY <2>1, MultiUpgradeAssumption
    <3>3. NoJob.img \in Images \cup {"none"} /\ 1 \in 1..9
      BY DEF NoJob
    <3> QED
      BY <3>1, <3>2, <3>3 DEF Init, TypeOK, Pieces, Contents
<1>2. AttemptInv /\ OneImage /\ InPlace
  BY DEF Init, AttemptInv, OneImage, InPlace
<1>3. WriteInv /\ FlashSound
  BY DEF Init, WriteInv, EnvKept, FlashSound, Dead
<1> QED
  BY <1>1, <1>2, <1>3 DEF Inv

-----------------------------------------------------------------------------
(* The theorems *)

\* Every step keeps the invariant.
LEMMA InvStep == Inv /\ [Next]_vars => Inv'
<1> SUFFICES ASSUME Inv, [Next]_vars PROVE Inv'
  OBVIOUS
<1>1. image \in Images /\ pos \in 1..Pkts[image] /\ faults \in 0..MaxFaults
  BY DEF Inv, TypeOK
<1>2. CASE Broadcast
  <2>1. NextPos \in 1..Pkts[image]
    BY <1>1, Packets DEF NextPos
  <2> QED
    BY <1>1, <1>2, <2>1, ProcessKeeps DEF Broadcast, bounds
<1>3. CASE Late
  <2>1. faults' \in 0..MaxFaults
    BY <1>1, <1>3, MultiUpgradeAssumption DEF Late
  <2> QED
    BY <1>1, <1>3, <2>1, ProcessKeeps DEF Late, station
<1> QED
  BY <1>2, <1>3, FlashStepKeeps, OthersKeep DEF Next

\* The invariant holds in every reachable state.
LEMMA InvAlways == Spec => []Inv
BY InvInit, InvStep, PTL DEF Spec

\* MultiUpgradeHandle never counts more packets than the image has, and never
\* stores one outside of the slots of the buffer.
THEOREM TypeCorrect == Spec => []TypeOK
<1>1. Inv => TypeOK
  BY DEF Inv
<1> QED
  BY <1>1, InvAlways, PTL

\* While an attempt hears one image, every packet MultiUpgradeHandle has counted is in its own
\* place in the buffer, whichever packet was the first, whatever was lost or doubled, and
\* whatever other images were heard before.
THEOREM PacketsInPlace == Spec => []InPlace
<1>1. Inv => InPlace
  BY DEF Inv
<1> QED
  BY <1>1, InvAlways, PTL

\* An upgrade that MultiWriteImage finished leaves the image on the flash if the attempt has
\* heard no other one, and never one of the whole flash with packets of another, however often
\* the power fails in the middle of an erase or a write; the environment is lost only by a
\* power loss, and only together with the old boot loader.  A kernel of an attempt that heard
\* two images is not claimed to be whole: the code does not see that it is not.
THEOREM FlashAlwaysSound == Spec => []FlashSound
<1>1. Inv => FlashSound
  BY DEF Inv
<1> QED
  BY <1>1, InvAlways, PTL
=============================================================================
