----------------------------- MODULE NmrpProofs -----------------------------
(***************************************************************************)
(* Theorems about the upgrades over the network: the session of NMRP never *)
(* loses its timer, breaks off a transfer of TFTP and saves the            *)
(* environment once at most, and writes whole files only.                  *)
(*                                                                         *)
(* The first of these need SessionInv beside the types, since a reception  *)
(* runs through states in which they do not hold.  So the functions of the *)
(* code are characterised one by one (the lemmas ...View), and put         *)
(* together to a reception (Ready, Comes).                                 *)
(*                                                                         *)
(* WriteWhole says what happens in one step, the write, about an upload    *)
(* that took many.  That every block of it was put in its place depends on *)
(* what the server cannot see: TftpData takes any number that is not the   *)
(* last one for the next block.  Link relates the device to its client and *)
(* to everything under way between them: Line (nothing overtakes),         *)
(* Request1 (no request follows data) and Upload (the buffer, and what     *)
(* may still come).                                                        *)
(***************************************************************************)
EXTENDS Nmrp, TLAPS

\* Every file the client sends fits between load_addr and tftp_limit. Without it WriteWhole is
\* false: store_block sets NETLOOP_FAIL for a block that does not fit (tftp.c:209), and
\* tftp_complete overwrites that with NETLOOP_CONTINUE when the last one comes.
FilesFit == \A s \in Sessions : FileLen[s] <= Limit

-----------------------------------------------------------------------------
(* Types *)

\* The packets of TFTP: a request or block n of file s.
Packets == [kind : {"WRQ", "DATA"}, s : Sessions, n : Nat]

\* The acknowledgements the device sends: of block number n, to the client of file s.
Acks == [s : Sessions, n : Nat]

\* The buffer at load_addr.
Memory == [Offsets -> Sessions \X Nat \cup {NoBlock}]

\* The values of net_state.
Nets == {"CONTINUE", "SUCCESS", "FAIL"}

\* The values of req_times.
Counts == 0..(ReqLimit + CloseLimit)

\* The record d, also in the middle of a reception.
Device == [NmrpState : States, req_times : Counts, timer : BOOLEAN,
           has : BOOLEAN, firmware : {0, 1}, net : Nets,
           tftp_start : BOOLEAN, handler : BOOLEAN, tftp : {"RECV_WRQ", "DATA"},
           port : {0} \cup Sessions, last : 0..(SeqMod - 1), wrap : Nat, mem : Memory,
           size : Nat, out : Seq(Acks), write : BOOLEAN, save : BOOLEAN]

\* The record c.
Clients == [s : {0} \cup Sessions, does : {"idle", "wrq", "data", "done"}, n : Nat]

\* The types of all the variables. Between two receptions nothing is left of out, write and
\* save.
TypeInv ==
    /\ d \in Device /\ d.out = <<>> /\ ~d.write /\ ~d.save
    /\ c \in Clients /\ (c.does # "idle" => c.s \in Sessions)
    /\ wire \in Seq(Packets) /\ acks \in Seq(Acks)
    /\ lost \in 0..MaxLost /\ main \in {"delay", "console", "linux"}
    /\ early \in Nat /\ saves \in Nat /\ handed \in {"nothing", "whole", "broken"}

-----------------------------------------------------------------------------
(* The session *)

\* What holds of a session between two receptions, and makes EarlyOnce and SavedOnce inductive:
\* packets are handled by TFTP only after tftp_start; qdma_bm_receive_packets leaves no result
\* in net_state while a server runs; the one result that stays is the SUCCESS of ListenTimeout,
\* which brings the state INIT that no step leaves; CLOSED, the state of a saved environment,
\* is not left either.
SessionInv ==
    /\ d.handler => d.tftp_start
    /\ d.tftp_start => d.net = "CONTINUE"
    /\ d.net = "SUCCESS" => d.NmrpState = "INIT" /\ early = 0
    /\ d.net \in {"CONTINUE", "SUCCESS"}
    /\ early # 0 => early = 1 /\ d.NmrpState = "INIT"
    /\ saves # 0 => saves = 1 /\ d.NmrpState = "CLOSED"

-----------------------------------------------------------------------------
(* What the functions of NMRP do to the device *)

\* The fields that belong to TFTP are the same in x and y.
SameTftp(x, y) ==
    /\ y.tftp_start = x.tftp_start /\ y.handler = x.handler /\ y.tftp = x.tftp
    /\ y.port = x.port /\ y.last = x.last /\ y.wrap = x.wrap /\ y.mem = x.mem
    /\ y.size = x.size /\ y.out = x.out

\* The fields that belong to NMRP are the same in x and y.
SameNmrp(x, y) ==
    /\ y.NmrpState = x.NmrpState /\ y.req_times = x.req_times /\ y.timer = x.timer
    /\ y.has = x.has /\ y.firmware = x.firmware /\ y.net = x.net /\ y.write = x.write
    /\ y.save = x.save

\* SameTftp is transitive: two functions of NMRP, one after the other, leave TFTP alone.
LEMMA SameTrans ==
    ASSUME NEW x, NEW y, NEW z, SameTftp(x, y), SameTftp(y, z)
    PROVE  SameTftp(x, z)
BY DEF SameTftp

\* An assignment to net_state changes that field only.
LEMMA NetSet ==
    ASSUME NEW x \in Device, NEW v, v \in Nets, NEW y,
           y = [x EXCEPT !.net = v]
    PROVE  /\ y \in Device /\ SameTftp(x, y)
           /\ y.net = v /\ y.timer = x.timer /\ y.NmrpState = x.NmrpState
           /\ y.req_times = x.req_times
           /\ y.has = x.has /\ y.firmware = x.firmware /\ y.write = x.write /\ y.save = x.save
<1>1. y \in Device
  BY DEF Device
<1> QED
  BY <1>1 DEF Device, SameTftp

\* Setting the timer (NmrpSetTimeout) changes the field timer only.
LEMMA TimerOn ==
    ASSUME NEW x \in Device, NEW y, y = [x EXCEPT !.timer = TRUE]
    PROVE  /\ y \in Device /\ SameTftp(x, y)
           /\ y.timer /\ y.net = x.net /\ y.NmrpState = x.NmrpState /\ y.req_times = x.req_times
           /\ y.has = x.has /\ y.firmware = x.firmware /\ y.write = x.write /\ y.save = x.save
<1>1. y \in Device
  BY DEF Device
<1> QED
  BY <1>1 DEF Device, SameTftp

\* Stopping the timer, which NetReceive does before it calls the handler, changes the field
\* timer only.
LEMMA TimerOff ==
    ASSUME NEW x \in Device, NEW y, y = [x EXCEPT !.timer = FALSE]
    PROVE  /\ y \in Device /\ SameTftp(x, y)
           /\ ~y.timer /\ y.net = x.net /\ y.NmrpState = x.NmrpState /\ y.req_times = x.req_times
           /\ y.has = x.has /\ y.firmware = x.firmware /\ y.write = x.write /\ y.save = x.save
<1>1. y \in Device
  BY DEF Device
<1> QED
  BY <1>1 DEF Device, SameTftp

\* Counting a request changes req_times only.
LEMMA CountSet ==
    ASSUME NEW x \in Device, NEW r \in Counts, NEW y, y = [x EXCEPT !.req_times = r]
    PROVE  /\ y \in Device /\ SameTftp(x, y)
           /\ y.req_times = r /\ y.NmrpState = x.NmrpState /\ y.timer = x.timer /\ y.net = x.net
           /\ y.has = x.has /\ y.firmware = x.firmware /\ y.write = x.write /\ y.save = x.save
<1>1. y \in Device
  BY DEF Device
<1> QED
  BY <1>1 DEF Device, SameTftp

\* An assignment to nmrptftp_firmware changes that field only.
LEMMA FirmwareSet ==
    ASSUME NEW x \in Device, NEW v \in {0, 1}, NEW y, y = [x EXCEPT !.firmware = v]
    PROVE  /\ y \in Device /\ SameTftp(x, y)
           /\ y.firmware = v /\ y.NmrpState = x.NmrpState /\ y.timer = x.timer /\ y.net = x.net
           /\ y.has = x.has /\ y.write = x.write /\ y.save = x.save
<1>1. y \in Device
  BY DEF Device
<1> QED
  BY <1>1 DEF Device, SameTftp

\* Running writeimg in FILEUPLOADING changes net_state and leaves the rest of the session
\* alone.
LEMMA WriteSet ==
    ASSUME NEW x \in Device, NEW y, y = [x EXCEPT !.net = "CONTINUE", !.write = TRUE]
    PROVE  /\ y \in Device /\ SameTftp(x, y)
           /\ y.net = "CONTINUE" /\ y.NmrpState = x.NmrpState /\ y.timer = x.timer
           /\ y.has = x.has /\ y.firmware = x.firmware /\ y.save = x.save
<1>1. y \in Device
  BY DEF Device, Nets
<1> QED
  BY <1>1 DEF Device, SameTftp

\* The end of Nmrp_done stops the timer, sets net_state and saves the environment, and changes
\* nothing else.
LEMMA SaveSet ==
    ASSUME NEW x \in Device, NEW y,
           y = [x EXCEPT !.timer = FALSE, !.net = "CONTINUE", !.save = TRUE]
    PROVE  /\ y \in Device /\ SameTftp(x, y)
           /\ ~y.timer /\ y.net = "CONTINUE" /\ y.save /\ y.NmrpState = x.NmrpState
           /\ y.has = x.has /\ y.firmware = x.firmware /\ y.write = x.write
<1>1. y \in Device
  BY DEF Device, Nets
<1> QED
  BY <1>1 DEF Device, SameTftp

\* Nmrp_setState changes the state and the count of the requests, nothing else.
LEMMA SetState ==
    ASSUME NEW x \in Device, NEW st \in States, NEW y, y = Nmrp_setState(x, st)
    PROVE  /\ y \in Device /\ SameTftp(x, y) /\ y.NmrpState = st
           /\ y.timer = x.timer /\ y.has = x.has /\ y.firmware = x.firmware /\ y.net = x.net
           /\ y.write = x.write /\ y.save = x.save
<1>1. PICK r \in Counts : y = [x EXCEPT !.NmrpState = st, !.req_times = r]
  <2>1. x.req_times \in Counts /\ 0 \in Counts
    BY NmrpAssumption DEF Device, Counts
  <2> QED
    BY <2>1 DEF Nmrp_setState
<1>2. y \in Device
  BY <1>1 DEF Device
<1> QED
  BY <1>1, <1>2 DEF Device, SameTftp

\* Nmrp_done closes a session that is CLOSING, and does nothing to any other.
LEMMA Done ==
    ASSUME NEW x \in Device, NEW y, y = Nmrp_done(x)
    PROVE  /\ y \in Device /\ SameTftp(x, y)
           /\ y.has = x.has /\ y.firmware = x.firmware /\ y.write = x.write
           /\ IF x.NmrpState = "CLOSING"
              THEN y.NmrpState = "CLOSED" /\ y.net = "CONTINUE" /\ y.save /\ ~y.timer
              ELSE y = x
<1>1. CASE x.NmrpState = "CLOSING"
  <2> DEFINE z == Nmrp_setState(x, "CLOSED")
  <2>1. /\ z \in Device /\ SameTftp(x, z) /\ z.NmrpState = "CLOSED" /\ z.has = x.has
        /\ z.firmware = x.firmware /\ z.write = x.write
    BY SetState DEF States
  <2>2. y = [z EXCEPT !.timer = FALSE, !.net = "CONTINUE", !.save = TRUE]
    BY <1>1 DEF Nmrp_done
  <2> HIDE DEF z
  <2>3. /\ y \in Device /\ SameTftp(z, y) /\ ~y.timer /\ y.net = "CONTINUE" /\ y.save
        /\ y.NmrpState = z.NmrpState /\ y.has = z.has /\ y.firmware = z.firmware
        /\ y.write = z.write
    BY <2>1, <2>2, SaveSet
  <2> QED
    BY <1>1, <2>1, <2>3, SameTrans
<1>2. CASE x.NmrpState # "CLOSING"
  BY <1>2 DEF Nmrp_done, SameTftp
<1> QED
  BY <1>1, <1>2

\* What NmrpTimeout keeps to (x is the device before, y after): the timer runs again unless the
\* session is over; INIT is entered from LISTENING only and CLOSED is never left; the
\* environment is saved by the step into CLOSED; FILEUPLOADING is entered with a complete
\* upload, and is the only state that writes.
Timed(x, y) ==
    /\ y \in Device /\ SameTftp(x, y)
    /\ y.NmrpState \notin {"INIT", "CLOSED"} => y.timer
    /\ y.NmrpState = "INIT" <=> x.NmrpState \in {"INIT", "LISTENING"}
    /\ x.NmrpState = "CLOSED" => y.NmrpState = "CLOSED"
    /\ y.net \in {x.net, "CONTINUE"} \/ (x.NmrpState = "LISTENING" /\ y.net = "SUCCESS")
    /\ y.save => x.save \/ (x.NmrpState # "CLOSED" /\ y.NmrpState = "CLOSED")
    /\ y.write => x.write \/ x.NmrpState = "FILEUPLOADING"
    /\ y.NmrpState = "TFTPUPLOADING" => x.NmrpState = "TFTPUPLOADING" /\ x.firmware = 0
    /\ y.NmrpState = "FILEUPLOADING" => x.NmrpState = "TFTPUPLOADING" /\ x.firmware = 1
    /\ y.firmware = 1 => x.firmware = 1 /\ x.NmrpState # "TFTPUPLOADING"

\* The close request is repeated with the timer set again, or the session is closed: what the
\* case CLOSING does, and FILEUPLOADING, which falls through into it.
LEMMA ClosingView ==
    ASSUME NEW x \in Device, NEW y, y = Closing(x), x.NmrpState = "CLOSING"
    PROVE  /\ y \in Device /\ SameTftp(x, y) /\ y.firmware = x.firmware /\ y.write = x.write
           /\ y.net \in {x.net, "CONTINUE"}
           /\ \/ y.NmrpState = "CLOSING" /\ y.timer /\ y.save = x.save
              \/ y.NmrpState = "CLOSED"
<1>1. CASE x.req_times < CloseLimit
  <2> DEFINE r == x.req_times + 1
             z == [x EXCEPT !.req_times = r]
  <2>1. r \in Counts
    BY <1>1, NmrpAssumption DEF Device, Counts
  <2>2. y = [z EXCEPT !.timer = TRUE]
    BY <1>1 DEF Closing, Armed
  <2> HIDE DEF r
  <2>3. /\ z \in Device /\ SameTftp(x, z) /\ z.firmware = x.firmware /\ z.write = x.write
        /\ z.net = x.net /\ z.NmrpState = x.NmrpState /\ z.save = x.save
    BY <2>1, CountSet
  <2> HIDE DEF z
  <2>4. /\ y \in Device /\ SameTftp(z, y) /\ y.firmware = z.firmware /\ y.write = z.write
        /\ y.net = z.net /\ y.NmrpState = z.NmrpState /\ y.save = z.save /\ y.timer
    BY <2>2, <2>3, TimerOn
  <2> QED
    BY <2>3, <2>4, SameTrans
<1>2. CASE ~(x.req_times < CloseLimit)
  BY <1>2, Done DEF Closing
<1> QED
  BY <1>1, <1>2

\* The request of CONFIGING or TFTPWAITING is repeated, or the session goes back to the state
\* before; either way the timer is set again.
LEMMA RequestView ==
    ASSUME NEW x \in Device, NEW before \in States, NEW y, y = Request(x, before)
    PROVE  /\ y \in Device /\ SameTftp(x, y) /\ y.firmware = x.firmware /\ y.write = x.write
           /\ y.save = x.save /\ y.net = "CONTINUE" /\ y.timer
           /\ y.NmrpState \in {x.NmrpState, before}
<1> DEFINE w == [x EXCEPT !.net = "CONTINUE"]
           z == [w EXCEPT !.timer = TRUE]
<1>1. /\ w \in Device /\ SameTftp(x, w) /\ w.firmware = x.firmware /\ w.write = x.write
      /\ w.save = x.save /\ w.net = "CONTINUE" /\ w.NmrpState = x.NmrpState
      /\ w.req_times = x.req_times
  BY NetSet DEF Nets
<1> HIDE DEF w
<1>2. /\ z \in Device /\ SameTftp(w, z) /\ z.firmware = w.firmware /\ z.write = w.write
      /\ z.save = w.save /\ z.net = w.net /\ z.timer /\ z.NmrpState = w.NmrpState
      /\ z.req_times = w.req_times
  BY <1>1, TimerOn
<1>3. SameTftp(x, z)
  BY <1>1, <1>2, SameTrans
<1> HIDE DEF z
<1>4. CASE x.req_times < ReqLimit
  <2> DEFINE r == z.req_times + 1
  <2>1. r \in Counts
    <3>1. x.req_times \in Nat
      BY NmrpAssumption DEF Device, Counts
    <3> QED
      BY <1>1, <1>2, <1>4, <3>1, NmrpAssumption DEF Counts
  <2>2. y = [z EXCEPT !.req_times = r]
    BY <1>4 DEF Request, Armed, w, z
  <2> HIDE DEF r
  <2>3. /\ y \in Device /\ SameTftp(z, y) /\ y.firmware = z.firmware /\ y.write = z.write
        /\ y.save = z.save /\ y.net = z.net /\ y.timer = z.timer /\ y.NmrpState = z.NmrpState
    BY <1>2, <2>1, <2>2, CountSet
  <2> QED
    BY <1>1, <1>2, <1>3, <2>3, SameTrans
<1>5. CASE ~(x.req_times < ReqLimit)
  <2>1. y = Nmrp_setState(z, before)
    BY <1>5 DEF Request, Armed, w, z
  <2>2. /\ y \in Device /\ SameTftp(z, y) /\ y.firmware = z.firmware /\ y.write = z.write
        /\ y.save = z.save /\ y.net = z.net /\ y.timer = z.timer /\ y.NmrpState = before
    BY <1>2, <2>1, SetState
  <2> QED
    BY <1>1, <1>2, <1>3, <2>2, SameTrans
<1> QED
  BY <1>4, <1>5

\* NmrpTimeout, called with the timer stopped, keeps to Timed in each of its states.
LEMMA TimeoutView ==
    ASSUME NEW x \in Device, NEW y, y = NmrpTimeout([x EXCEPT !.timer = FALSE])
    PROVE  Timed(x, y)
<1> DEFINE z == [x EXCEPT !.timer = FALSE]
<1>1. /\ z \in Device /\ SameTftp(x, z)
      /\ z.NmrpState = x.NmrpState /\ z.has = x.has /\ z.firmware = x.firmware
      /\ z.net = x.net /\ z.write = x.write /\ z.save = x.save
  BY TimerOff
<1>2. y = NmrpTimeout(z)
  OBVIOUS
<1> HIDE DEF z
<1>3. z.NmrpState \in States /\ z.firmware \in {0, 1}
  BY <1>1 DEF Device
<1>4. CASE z.NmrpState = "LISTENING"
  <2> DEFINE u == Nmrp_setState(z, "INIT")
  <2>1. /\ u \in Device /\ SameTftp(z, u) /\ u.NmrpState = "INIT"
        /\ u.firmware = z.firmware /\ u.write = z.write /\ u.save = z.save
    BY <1>1, SetState DEF States
  <2>2. PICK v \in {"CONTINUE", "SUCCESS"} : y = [u EXCEPT !.net = v]
    BY <1>2, <1>4 DEF NmrpTimeout, ListenTimeout
  <2> HIDE DEF u
  <2>3. /\ y \in Device /\ SameTftp(u, y) /\ y.NmrpState = "INIT" /\ y.net = v
        /\ y.firmware = u.firmware /\ y.write = u.write /\ y.save = u.save
    <3>1. y \in Device
      BY <2>1, <2>2 DEF Device, Nets
    <3> QED
      BY <2>1, <2>2, <3>1 DEF Device, SameTftp
  <2>4. SameTftp(x, y)
    BY <1>1, <2>1, <2>3, SameTrans
  <2> QED
    BY <1>1, <1>4, <2>1, <2>3, <2>4 DEF Timed
<1>5. CASE z.NmrpState \in {"CONFIGING", "TFTPWAITING"}
  <2>1. PICK before \in {"LISTENING", "CONFIGING"} : y = Request(z, before)
    BY <1>2, <1>5 DEF NmrpTimeout
  <2>2. /\ y \in Device /\ SameTftp(z, y) /\ y.firmware = z.firmware /\ y.write = z.write
        /\ y.save = z.save /\ y.net = "CONTINUE" /\ y.timer
        /\ y.NmrpState \in {z.NmrpState, before}
    BY <1>1, <2>1, RequestView DEF States
  <2>3. SameTftp(x, y)
    BY <1>1, <2>2, SameTrans
  <2> QED
    BY <1>1, <1>5, <2>2, <2>3 DEF Timed
<1>6. CASE z.NmrpState = "TFTPUPLOADING"
  <2> DEFINE w == [z EXCEPT !.net = "CONTINUE"]
             u == [w EXCEPT !.timer = TRUE]
  <2>1. /\ w \in Device /\ SameTftp(z, w) /\ w.NmrpState = z.NmrpState /\ w.firmware = z.firmware
        /\ w.write = z.write /\ w.save = z.save /\ w.net = "CONTINUE"
    BY <1>1, NetSet DEF Nets
  <2> HIDE DEF w
  <2>2. /\ u \in Device /\ SameTftp(w, u) /\ u.NmrpState = w.NmrpState /\ u.firmware = w.firmware
        /\ u.write = w.write /\ u.save = w.save /\ u.net = w.net /\ u.timer
    BY <2>1, TimerOn
  <2>3. SameTftp(x, u)
    BY <1>1, <2>1, <2>2, SameTrans
  <2> HIDE DEF u
  <2>4. CASE z.firmware = 1
    <3> DEFINE v == [u EXCEPT !.firmware = 0]
    <3>1. y = Nmrp_setState(v, "FILEUPLOADING")
      BY <1>2, <1>6, <2>4 DEF NmrpTimeout, Armed, u, w
    <3>2. /\ v \in Device /\ SameTftp(u, v) /\ v.firmware = 0 /\ v.net = u.net
          /\ v.write = u.write /\ v.save = u.save /\ v.timer = u.timer
      BY <2>2, FirmwareSet
    <3> HIDE DEF v
    <3>3. /\ y \in Device /\ SameTftp(v, y) /\ y.NmrpState = "FILEUPLOADING"
          /\ y.firmware = v.firmware
          /\ y.write = v.write /\ y.save = v.save /\ y.timer = v.timer /\ y.net = v.net
      BY <3>1, <3>2, SetState DEF States
    <3>4. SameTftp(x, y)
      BY <2>3, <3>2, <3>3, SameTrans
    <3>5. /\ y.NmrpState = "FILEUPLOADING" /\ y.firmware = 0 /\ y.timer /\ y.net = "CONTINUE"
          /\ y.write = x.write /\ y.save = x.save /\ y \in Device
      BY <1>1, <2>1, <2>2, <3>2, <3>3
    <3> QED
      BY <1>1, <1>6, <2>4, <3>4, <3>5 DEF Timed
  <2>5. CASE z.firmware # 1
    <3>1. y = u
      BY <1>2, <1>6, <2>5 DEF NmrpTimeout, Armed, u, w
    <3> QED
      BY <1>1, <1>3, <1>6, <2>1, <2>2, <2>3, <2>5, <3>1 DEF Timed
  <2> QED
    BY <2>4, <2>5
<1>7. CASE z.NmrpState = "FILEUPLOADING"
  <2> DEFINE u == Nmrp_setState(z, "CLOSING")
             w == [u EXCEPT !.net = "CONTINUE", !.write = TRUE]
             v == [w EXCEPT !.timer = TRUE]
  <2>1. y = Closing(v)
    BY <1>2, <1>7 DEF NmrpTimeout, Armed
  <2>2. /\ u \in Device /\ SameTftp(z, u) /\ u.NmrpState = "CLOSING"
        /\ u.firmware = z.firmware /\ u.save = z.save
    BY <1>1, SetState DEF States
  <2> HIDE DEF u
  <2>3. /\ w \in Device /\ SameTftp(u, w) /\ w.NmrpState = u.NmrpState /\ w.net = "CONTINUE"
        /\ w.firmware = u.firmware /\ w.save = u.save
    BY <2>2, WriteSet
  <2> HIDE DEF w
  <2>4. /\ v \in Device /\ SameTftp(w, v) /\ v.NmrpState = w.NmrpState /\ v.net = w.net
        /\ v.firmware = w.firmware /\ v.save = w.save
    BY <2>3, TimerOn
  <2> HIDE DEF v
  <2>5. /\ y \in Device /\ SameTftp(v, y) /\ y.firmware = v.firmware /\ y.net = "CONTINUE"
        /\ \/ y.NmrpState = "CLOSING" /\ y.timer /\ y.save = v.save
           \/ y.NmrpState = "CLOSED"
    BY <2>1, <2>2, <2>3, <2>4, ClosingView
  <2>6. SameTftp(x, y)
    BY <1>1, <2>2, <2>3, <2>4, <2>5, SameTrans
  <2> QED
    BY <1>1, <1>7, <2>2, <2>3, <2>4, <2>5, <2>6 DEF Timed
<1>8. CASE z.NmrpState = "CLOSING"
  <2>1. y = Closing(z)
    BY <1>2, <1>8 DEF NmrpTimeout
  <2>2. /\ y \in Device /\ SameTftp(z, y) /\ y.firmware = z.firmware /\ y.write = z.write
        /\ y.net \in {z.net, "CONTINUE"}
        /\ \/ y.NmrpState = "CLOSING" /\ y.timer /\ y.save = z.save
           \/ y.NmrpState = "CLOSED"
    BY <1>1, <1>8, <2>1, ClosingView
  <2>3. SameTftp(x, y)
    BY <1>1, <2>2, SameTrans
  <2> QED
    BY <1>1, <1>8, <2>2, <2>3 DEF Timed
<1>9. CASE z.NmrpState \in {"INIT", "CLOSED"}
  <2>1. y = z
    BY <1>2, <1>9 DEF NmrpTimeout
  <2> QED
    BY <1>1, <1>9, <2>1 DEF Timed
<1> QED
  BY <1>3, <1>4, <1>5, <1>6, <1>7, <1>8, <1>9 DEF States

\* What a packet of NMRP does to the device: INIT and CLOSED are not left, the timer is not
\* touched while the session is on, the environment is saved by the step into CLOSED, and no
\* packet of NMRP begins or ends an upload.
Told(x, y) ==
    /\ y \in Device /\ SameTftp(x, y) /\ y.firmware = x.firmware /\ y.write = x.write
    /\ y.NmrpState = "INIT" <=> x.NmrpState = "INIT"
    /\ x.NmrpState = "CLOSED" => y.NmrpState = "CLOSED"
    /\ y.NmrpState \notin {"INIT", "CLOSED"} => y.timer = x.timer
    /\ y.net \in {x.net, "CONTINUE"}
    /\ y.save => x.save \/ (x.NmrpState # "CLOSED" /\ y.NmrpState = "CLOSED")
    /\ \A st \in {"TFTPUPLOADING", "FILEUPLOADING"} : y.NmrpState = st <=> x.NmrpState = st

\* NmrpReceive keeps to Told, whichever packet comes in whichever state.
LEMMA ReceiveView ==
    ASSUME NEW x \in Device, NEW p \in Nmrps, NEW y, y = NmrpReceive(x, p)
    PROVE  Told(x, y)
<1>1. p.kind \in {"ADVERTISE", "CONF_ACK", "CLOSE_ACK", "OTHER"}
  BY DEF Nmrps
<1>2. CASE y = x
  BY <1>2 DEF Told, SameTftp
<1>3. CASE p.kind = "ADVERTISE" /\ x.NmrpState = "LISTENING"
  <2> DEFINE z == Nmrp_setState(x, "CONFIGING")
  <2>1. /\ z \in Device /\ SameTftp(x, z) /\ z.NmrpState = "CONFIGING" /\ z.net = x.net
        /\ z.firmware = x.firmware /\ z.write = x.write /\ z.save = x.save /\ z.timer = x.timer
    BY SetState DEF States
  <2>2. y = [z EXCEPT !.has = TRUE]
    BY <1>3 DEF NmrpReceive, nmrp_pkt_advertisement_handler
  <2> HIDE DEF z
  <2>3. y \in Device
    BY <2>1, <2>2 DEF Device
  <2>4. /\ SameTftp(z, y) /\ y.NmrpState = "CONFIGING" /\ y.net = x.net /\ y.firmware = x.firmware
        /\ y.write = x.write /\ y.save = x.save /\ y.timer = x.timer
    BY <2>1, <2>2, <2>3 DEF Device, SameTftp
  <2>5. SameTftp(x, y)
    BY <2>1, <2>4, SameTrans
  <2> QED
    BY <1>3, <2>3, <2>4, <2>5 DEF Told
<1>4. CASE p.kind = "CONF_ACK" /\ x.NmrpState = "CONFIGING"
  <2>1. PICK st \in {"TFTPWAITING", "CLOSING"} : y = Nmrp_setState(x, st)
    BY <1>4 DEF NmrpReceive, nmrp_pkt_config_ack_handler
  <2>2. /\ y \in Device /\ SameTftp(x, y) /\ y.NmrpState = st /\ y.net = x.net
        /\ y.firmware = x.firmware /\ y.write = x.write /\ y.save = x.save /\ y.timer = x.timer
    BY <2>1, SetState DEF States
  <2> QED
    BY <1>4, <2>1, <2>2 DEF Told
<1>5. CASE p.kind = "CLOSE_ACK" /\ x.NmrpState = "CLOSING"
  <2>1. y = Nmrp_done(x)
    BY <1>5 DEF NmrpReceive
  <2>2. /\ y \in Device /\ SameTftp(x, y) /\ y.firmware = x.firmware /\ y.write = x.write
        /\ y.NmrpState = "CLOSED" /\ y.net = "CONTINUE" /\ y.save /\ ~y.timer
    BY <1>5, <2>1, Done
  <2> QED
    BY <1>5, <2>2 DEF Told
<1>6. CASE /\ ~(p.kind = "ADVERTISE" /\ x.NmrpState = "LISTENING")
           /\ ~(p.kind = "CONF_ACK" /\ x.NmrpState = "CONFIGING")
           /\ ~(p.kind = "CLOSE_ACK" /\ x.NmrpState = "CLOSING")
  <2>1. y = x
    BY <1>1, <1>6
    DEF NmrpReceive, nmrp_pkt_advertisement_handler, nmrp_pkt_config_ack_handler, Nmrp_done
  <2> QED
    BY <1>2, <2>1
<1> QED
  BY <1>3, <1>4, <1>5, <1>6

-----------------------------------------------------------------------------
(* What the functions of TFTP do to the device *)

\* What a write request does: the client is remembered, the numbers start again, block 0 is
\* acknowledged, and TFTPWAITING becomes TFTPUPLOADING. Neither the buffer nor the state of the
\* server changes.
Asks(x, y, p) ==
    /\ y \in Device /\ y.port = p.s /\ y.last = 0 /\ y.wrap = 0
    /\ y.out = <<[s |-> p.s, n |-> 0]>>
    /\ y.tftp_start = x.tftp_start /\ y.handler = x.handler /\ y.tftp = x.tftp
    /\ y.mem = x.mem /\ y.size = x.size
    /\ y.timer = x.timer /\ y.firmware = x.firmware /\ y.net = x.net
    /\ y.write = x.write /\ y.save = x.save
    /\ y.NmrpState = IF x.NmrpState = "TFTPWAITING" THEN "TFTPUPLOADING" ELSE x.NmrpState

\* TftpWrq keeps to Asks: a write request is accepted in any state of the server.
LEMMA WrqView ==
    ASSUME NEW x \in Device, NEW p \in Packets
    PROVE  Asks(x, TftpWrq(x, p), p)
<1> DEFINE y == TftpWrq(x, p)
           u == IF x.NmrpState = "TFTPWAITING" THEN Nmrp_setState(x, "TFTPUPLOADING") ELSE x
           v == [u EXCEPT !.port = p.s]
           w == [v EXCEPT !.last = 0, !.wrap = 0]
<1>0. p.s \in Sessions
  BY DEF Packets
<1>1. y = [w EXCEPT !.out = <<[s |-> w.port, n |-> 0]>>]
  BY DEF TftpWrq, TftpSend, new_transfer
<1> HIDE DEF y
<1>2. /\ u \in Device /\ SameTftp(x, u) /\ u.timer = x.timer /\ u.firmware = x.firmware
      /\ u.net = x.net /\ u.write = x.write /\ u.save = x.save
      /\ u.NmrpState = IF x.NmrpState = "TFTPWAITING" THEN "TFTPUPLOADING" ELSE x.NmrpState
  BY SetState DEF States, SameTftp
<1> HIDE DEF u
<1>3. v \in Device
  BY <1>0, <1>2 DEF Device
<1>4. /\ v.port = p.s /\ SameNmrp(u, v) /\ v.tftp_start = u.tftp_start /\ v.handler = u.handler
      /\ v.tftp = u.tftp /\ v.mem = u.mem /\ v.size = u.size
  BY <1>2, <1>3 DEF Device, SameNmrp
<1> HIDE DEF v
<1>5. w \in Device
  <2>1. 0 \in 0..(SeqMod - 1) /\ 0 \in Nat
    BY NmrpAssumption
  <2> QED
    BY <1>3, <2>1 DEF Device
<1>6. /\ w.port = v.port /\ SameNmrp(v, w) /\ w.tftp_start = v.tftp_start /\ w.handler = v.handler
      /\ w.tftp = v.tftp /\ w.mem = v.mem /\ w.size = v.size /\ w.last = 0 /\ w.wrap = 0
  BY <1>3, <1>5 DEF Device, SameNmrp
<1> HIDE DEF w
<1>7. y \in Device
  <2>1. <<[s |-> w.port, n |-> 0]>> \in Seq(Acks)
    BY <1>0, <1>4, <1>6 DEF Acks
  <2> QED
    BY <1>1, <1>5, <2>1 DEF Device
<1>8. /\ y.port = w.port /\ SameNmrp(w, y) /\ y.tftp_start = w.tftp_start /\ y.handler = w.handler
      /\ y.tftp = w.tftp /\ y.mem = w.mem /\ y.size = w.size /\ y.last = w.last /\ y.wrap = w.wrap
      /\ y.out = <<[s |-> w.port, n |-> 0]>>
  BY <1>1, <1>5, <1>7 DEF Device, SameNmrp
<1> QED
  <2>1. Asks(x, y, p)
    BY <1>2, <1>4, <1>6, <1>7, <1>8 DEF SameNmrp, SameTftp, Asks
  <2> QED
    BY <2>1 DEF y

\* The fields of the session that a block of data leaves alone.
SameSession(x, y) ==
    /\ y.NmrpState = x.NmrpState /\ y.timer = x.timer /\ y.write = x.write /\ y.save = x.save
    /\ y.tftp_start = x.tftp_start

\* The fields of a transfer that tftp_complete leaves alone.
SameTransfer(x, y) ==
    /\ y.port = x.port /\ y.tftp = x.tftp /\ y.last = x.last /\ y.wrap = x.wrap
    /\ y.mem = x.mem /\ y.size = x.size /\ y.out = x.out

\* Block number n is stored behind wrap others and acknowledged (x is the device before, y
\* after). The last block tells NMRP, or whoever looks at net_state; a block that does not fit
\* sets FAIL, which the last one does not see.
Put(x, y, p, n, wrap) ==
    /\ y.last = n /\ y.wrap = wrap /\ y.out = <<[s |-> y.port, n |-> n]>>
    /\ IF n - 1 + wrap \in Offsets
       THEN /\ y.mem = [x.mem EXCEPT ![n - 1 + wrap] = <<p.s, p.n>>]
            /\ y.size = IF n + wrap > x.size THEN n + wrap ELSE x.size
       ELSE y.mem = x.mem /\ y.size = x.size
    /\ IF Last(p)
       THEN IF x.NmrpState = "TFTPUPLOADING"
            THEN y.net = "CONTINUE" /\ y.firmware = 1 /\ ~y.handler
            ELSE y.net = "SUCCESS" /\ y.firmware = x.firmware /\ y.handler = x.handler
       ELSE /\ y.firmware = x.firmware /\ y.handler = x.handler
            /\ y.net = IF n - 1 + wrap \in Offsets THEN x.net ELSE "FAIL"

\* store_block, TftpSend and, after the last block, tftp_complete together are Put.
LEMMA PutView ==
    ASSUME NEW x \in Device, NEW z \in Device, NEW p \in Packets, NEW n \in 0..(SeqMod - 1), NEW y,
           z.port \in Sessions, SameSession(x, z), z.mem = x.mem, z.size = x.size, z.net = x.net,
           z.firmware = x.firmware, z.handler = x.handler,
           y = LET stored == TftpSend(store_block([z EXCEPT !.last = n], n, <<p.s, p.n>>), n)
               IN  IF Last(p) THEN tftp_complete(stored) ELSE stored
    PROVE  /\ y \in Device /\ SameSession(x, y) /\ y.port = z.port /\ y.tftp = z.tftp
           /\ Put(x, y, p, n, z.wrap)
<1> DEFINE m == [z EXCEPT !.last = n]
           o == n - 1 + z.wrap
           q == store_block(m, n, <<p.s, p.n>>)
           f == TftpSend(q, n)
<1>0. /\ p.s \in Sessions /\ p.n \in Nat /\ n \in Nat /\ z.wrap \in Nat
      /\ o \in Int /\ o + 1 = n + z.wrap
  <2>1. p.s \in Sessions /\ p.n \in Nat /\ z.wrap \in Nat
    BY DEF Packets, Device
  <2>2. n \in Nat
    BY NmrpAssumption
  <2> QED
    BY <2>1, <2>2
<1>1. m \in Device
  BY DEF Device
<1>2. /\ SameNmrp(z, m) /\ m.last = n /\ m.wrap = z.wrap /\ m.port = z.port /\ m.tftp = z.tftp
      /\ m.mem = z.mem /\ m.size = z.size /\ m.tftp_start = z.tftp_start /\ m.handler = z.handler
  BY <1>1 DEF Device, SameNmrp
<1> HIDE DEF m
<1>3. /\ q \in Device /\ SameSession(m, q) /\ q.port = m.port /\ q.tftp = m.tftp /\ q.last = m.last
      /\ q.wrap = m.wrap /\ q.firmware = m.firmware /\ q.handler = m.handler
      /\ IF o \in Offsets
         THEN /\ q.mem = [m.mem EXCEPT ![o] = <<p.s, p.n>>] /\ q.net = m.net
              /\ q.size = IF o + 1 > m.size THEN o + 1 ELSE m.size
         ELSE q.mem = m.mem /\ q.size = m.size /\ q.net = "FAIL"
  <2>1. CASE o \in Offsets
    <3> DEFINE big == IF o + 1 > m.size THEN o + 1 ELSE m.size
               put == [m.mem EXCEPT ![o] = <<p.s, p.n>>]
    <3>1. q = [m EXCEPT !.mem = put, !.size = big]
      <4>1. q = [m EXCEPT !.mem[o] = <<p.s, p.n>>, !.size = IF o + 1 > @ THEN o + 1 ELSE @]
        BY <1>2, <2>1 DEF store_block
      <4> QED
        BY <1>1, <4>1 DEF Device
    <3>2. big \in Nat
      BY <1>0, <1>1, <2>1 DEF Device
    <3>3. put \in Memory
      BY <1>0, <1>1, <2>1 DEF Device, Memory
    <3> HIDE DEF big, put
    <3>4. q \in Device
      BY <1>1, <3>1, <3>2, <3>3 DEF Device
    <3>5. /\ SameSession(m, q) /\ q.port = m.port /\ q.tftp = m.tftp /\ q.last = m.last
          /\ q.wrap = m.wrap /\ q.firmware = m.firmware /\ q.handler = m.handler /\ q.net = m.net
          /\ q.mem = put /\ q.size = big
      BY <1>1, <3>1, <3>4 DEF Device, SameSession
    <3> QED
      BY <2>1, <3>4, <3>5 DEF put, big
  <2>2. CASE o \notin Offsets
    <3>1. q = [m EXCEPT !.net = "FAIL"]
      BY <1>2, <2>2 DEF store_block
    <3>2. q \in Device
      BY <1>1, <3>1 DEF Device, Nets
    <3>3. /\ SameSession(m, q) /\ q.port = m.port /\ q.tftp = m.tftp /\ q.last = m.last
          /\ q.wrap = m.wrap /\ q.firmware = m.firmware /\ q.handler = m.handler /\ q.net = "FAIL"
          /\ q.mem = m.mem /\ q.size = m.size
      BY <1>1, <3>1, <3>2 DEF Device, SameSession
    <3> QED
      BY <2>2, <3>2, <3>3
  <2> QED
    BY <2>1, <2>2
<1> HIDE DEF q
<1>4. f \in Device
  <2>1. <<[s |-> q.port, n |-> n]>> \in Seq(Acks)
    BY <1>0, <1>2, <1>3 DEF Acks
  <2> QED
    BY <1>3, <2>1 DEF Device, TftpSend
<1>5. /\ SameSession(q, f) /\ f.port = q.port /\ f.tftp = q.tftp /\ f.last = q.last
      /\ f.wrap = q.wrap /\ f.firmware = q.firmware /\ f.handler = q.handler /\ f.net = q.net
      /\ f.mem = q.mem /\ f.size = q.size /\ f.out = <<[s |-> q.port, n |-> n]>>
  BY <1>3, <1>4 DEF Device, SameSession, TftpSend
<1> HIDE DEF f
<1>6. y = IF Last(p) THEN tftp_complete(f) ELSE f
  BY DEF f, q, m
<1>7. /\ y \in Device /\ SameSession(f, y) /\ SameTransfer(f, y)
      /\ IF Last(p)
         THEN IF f.NmrpState = "TFTPUPLOADING"
              THEN y.net = "CONTINUE" /\ y.firmware = 1 /\ ~y.handler
              ELSE y.net = "SUCCESS" /\ y.firmware = f.firmware /\ y.handler = f.handler
         ELSE y = f
  <2>1. CASE ~Last(p)
    BY <1>4, <1>6, <2>1 DEF SameSession, SameTransfer
  <2>2. CASE Last(p) /\ f.NmrpState = "TFTPUPLOADING"
    <3>1. y = [f EXCEPT !.net = "CONTINUE", !.firmware = 1, !.handler = FALSE]
      BY <1>6, <2>2 DEF tftp_complete
    <3>2. y \in Device
      BY <1>4, <3>1 DEF Device, Nets
    <3>3. /\ SameSession(f, y) /\ SameTransfer(f, y)
          /\ y.net = "CONTINUE" /\ y.firmware = 1 /\ ~y.handler
      BY <1>4, <3>1, <3>2 DEF Device, SameSession, SameTransfer
    <3> QED
      BY <2>2, <3>2, <3>3
  <2>3. CASE Last(p) /\ f.NmrpState # "TFTPUPLOADING"
    <3>1. y = [f EXCEPT !.net = "SUCCESS"]
      BY <1>6, <2>3 DEF tftp_complete
    <3>2. y \in Device
      BY <1>4, <3>1 DEF Device, Nets
    <3>3. /\ SameSession(f, y) /\ SameTransfer(f, y)
          /\ y.net = "SUCCESS" /\ y.firmware = f.firmware /\ y.handler = f.handler
      BY <1>4, <3>1, <3>2 DEF Device, SameSession, SameTransfer
    <3> QED
      BY <2>3, <3>2, <3>3
  <2> QED
    BY <2>1, <2>2, <2>3
<1>8. SameSession(x, y)
  BY <1>2, <1>3, <1>5, <1>7 DEF SameSession, SameNmrp
<1>9. /\ y.port = z.port /\ y.tftp = z.tftp /\ y.last = n /\ y.wrap = z.wrap
      /\ y.mem = q.mem /\ y.size = q.size /\ y.out = <<[s |-> y.port, n |-> n]>>
  BY <1>2, <1>3, <1>5, <1>7 DEF SameTransfer
<1>10. o + 1 = n + z.wrap /\ x.mem = m.mem /\ x.size = m.size
  BY <1>0, <1>2
<1>11. IF o \in Offsets
       THEN /\ y.mem = [x.mem EXCEPT ![o] = <<p.s, p.n>>]
            /\ y.size = IF n + z.wrap > x.size THEN n + z.wrap ELSE x.size
       ELSE y.mem = x.mem /\ y.size = x.size
  BY <1>3, <1>9, <1>10
<1>12. IF Last(p)
       THEN IF x.NmrpState = "TFTPUPLOADING"
            THEN y.net = "CONTINUE" /\ y.firmware = 1 /\ ~y.handler
            ELSE y.net = "SUCCESS" /\ y.firmware = x.firmware /\ y.handler = x.handler
       ELSE /\ y.firmware = x.firmware /\ y.handler = x.handler
            /\ y.net = IF o \in Offsets THEN x.net ELSE "FAIL"
  BY <1>2, <1>3, <1>5, <1>7 DEF SameSession, SameNmrp
<1> QED
  BY <1>7, <1>8, <1>9, <1>11, <1>12 DEF Put

\* A block of data, number n: it opens no transfer and is refused, it is the one that came last
\* and is ignored, it is the first one, or it is taken for the next one.
Brings(x, y, p, n) ==
    /\ y \in Device /\ SameSession(x, y)
    /\ \/ /\ x.tftp = "RECV_WRQ" /\ n # 1 /\ y.net = "FAIL" /\ y.port = p.s
          /\ y.firmware = x.firmware /\ y.handler = x.handler /\ y.out = x.out
       \/ x.tftp = "DATA" /\ n = x.last /\ y = x
       \/ /\ x.tftp = "RECV_WRQ" /\ n = 1 /\ y.tftp = "DATA" /\ y.port = p.s
          /\ Put(x, y, p, 1, 0)
       \/ /\ x.tftp = "DATA" /\ n # x.last /\ y.tftp = "DATA" /\ y.port = x.port
          /\ Put(x, y, p, n, IF n = 0 THEN x.wrap + SeqMod ELSE x.wrap)

\* TftpData keeps to Brings.
LEMMA DataView ==
    ASSUME NEW x \in Device, NEW p \in Packets, x.port \in Sessions \/ x.tftp = "RECV_WRQ"
    PROVE  Brings(x, TftpData(x, p), p, p.n % SeqMod)
<1> DEFINE y == TftpData(x, p)
           n == p.n % SeqMod
<1>0. n \in 0..(SeqMod - 1) /\ n \in Nat /\ p.s \in Sessions
  <2>1. p.n \in Nat /\ p.s \in Sessions
    BY DEF Packets
  <2>2. PICK b \in Nat : b = p.n
    BY <2>1
  <2>3. b % SeqMod \in 0..(SeqMod - 1)
    BY NmrpAssumption
  <2> QED
    BY <2>1, <2>2, <2>3, NmrpAssumption
<1>1. x.tftp \in {"RECV_WRQ", "DATA"} /\ x.last \in 0..(SeqMod - 1) /\ x.wrap \in Nat
  BY DEF Device
<1> HIDE DEF n
<1> DEFINE u == update_block_number(x, n)
           z == IF x.tftp = "RECV_WRQ"
                THEN new_transfer([u EXCEPT !.tftp = "DATA", !.port = p.s]) ELSE u
           stored == TftpSend(store_block([z EXCEPT !.last = n], n, <<p.s, p.n>>), n)
           done == IF Last(p) THEN tftp_complete(stored) ELSE stored
<1>2. y = CASE x.tftp = "RECV_WRQ" /\ n # 1 -> [z EXCEPT !.net = "FAIL"]
            [] x.tftp = "DATA" /\ n = z.last -> z
            [] OTHER -> done
  BY DEF TftpData, n
<1> HIDE DEF y
<1>3. /\ u \in Device /\ SameNmrp(x, u) /\ u.tftp_start = x.tftp_start /\ u.handler = x.handler
      /\ u.tftp = x.tftp /\ u.port = x.port /\ u.last = x.last /\ u.mem = x.mem /\ u.size = x.size
      /\ u.out = x.out
      /\ u.wrap = IF n = 0 /\ x.last # 0 THEN x.wrap + SeqMod ELSE x.wrap
      /\ n = x.last => u = x
  <2>1. CASE n = 0 /\ x.last # 0
    <3> DEFINE a == x.wrap + SeqMod
    <3>1. a \in Nat
      BY <1>1, NmrpAssumption
    <3>2. u = [x EXCEPT !.wrap = a]
      BY <2>1 DEF update_block_number
    <3> HIDE DEF a, u
    <3>3. u \in Device
      BY <3>1, <3>2 DEF Device
    <3>4. /\ SameNmrp(x, u) /\ u.tftp_start = x.tftp_start /\ u.handler = x.handler
          /\ u.tftp = x.tftp /\ u.port = x.port /\ u.last = x.last /\ u.mem = x.mem
          /\ u.size = x.size /\ u.out = x.out /\ u.wrap = a
      BY <3>2, <3>3 DEF Device, SameNmrp
    <3> QED
      BY <2>1, <3>3, <3>4 DEF a
  <2>2. CASE ~(n = 0 /\ x.last # 0)
    BY <2>2 DEF update_block_number, SameNmrp
  <2> QED
    BY <2>1, <2>2
<1> HIDE DEF u
<1>4. ASSUME x.tftp = "RECV_WRQ" PROVE Brings(x, y, p, n)
  <2> DEFINE v == [u EXCEPT !.tftp = "DATA", !.port = p.s]
  <2>1. z = [v EXCEPT !.last = 0, !.wrap = 0]
    BY <1>4 DEF new_transfer
  <2>2. v \in Device
    BY <1>0, <1>3 DEF Device
  <2>3. /\ SameNmrp(u, v) /\ v.tftp_start = u.tftp_start /\ v.handler = u.handler
        /\ v.tftp = "DATA" /\ v.port = p.s /\ v.mem = u.mem /\ v.size = u.size /\ v.out = u.out
    BY <1>3, <2>2 DEF Device, SameNmrp
  <2> HIDE DEF v, z
  <2>4. z \in Device
    <3>1. 0 \in 0..(SeqMod - 1) /\ 0 \in Nat
      BY NmrpAssumption
    <3> QED
      BY <2>1, <2>2, <3>1 DEF Device
  <2>5. /\ SameNmrp(v, z) /\ z.tftp_start = v.tftp_start /\ z.handler = v.handler
        /\ z.tftp = "DATA" /\ z.port = p.s /\ z.mem = v.mem /\ z.size = v.size /\ z.out = v.out
        /\ z.last = 0 /\ z.wrap = 0
    BY <2>1, <2>2, <2>3, <2>4 DEF Device, SameNmrp
  <2>6. /\ SameSession(x, z) /\ z.mem = x.mem /\ z.size = x.size /\ z.net = x.net
        /\ z.firmware = x.firmware /\ z.handler = x.handler /\ z.out = x.out
    BY <1>3, <2>3, <2>5 DEF SameNmrp, SameSession
  <2>7. CASE n # 1
    <3>1. y = [z EXCEPT !.net = "FAIL"]
      BY <1>2, <1>4, <2>7
    <3>2. y \in Device
      BY <2>4, <3>1 DEF Device, Nets
    <3>3. /\ SameSession(z, y) /\ y.net = "FAIL" /\ y.port = z.port /\ y.firmware = z.firmware
          /\ y.handler = z.handler /\ y.out = z.out
      BY <2>4, <3>1, <3>2 DEF Device, SameSession
    <3> QED
      BY <1>4, <2>5, <2>6, <2>7, <3>2, <3>3 DEF SameSession, Brings
  <2>8. CASE n = 1
    <3>1. y = done
      BY <1>2, <1>4, <2>8
    <3>2. /\ y \in Device /\ SameSession(x, y) /\ y.port = z.port /\ y.tftp = z.tftp
          /\ Put(x, y, p, n, z.wrap)
      BY <1>0, <2>4, <2>5, <2>6, <3>1, PutView
    <3> QED
      BY <1>4, <2>5, <2>8, <3>2 DEF Brings
  <2> QED
    BY <2>7, <2>8
<1>5. ASSUME x.tftp = "DATA" PROVE Brings(x, y, p, n)
  <2>1. z = u
    BY <1>5
  <2> HIDE DEF z
  <2>2. CASE n = x.last
    BY <1>2, <1>3, <1>5, <2>1, <2>2 DEF SameSession, Brings
  <2>3. CASE n # x.last
    <3>1. y = done
      BY <1>2, <1>3, <1>5, <2>1, <2>3
    <3>2. /\ SameSession(x, z) /\ z.mem = x.mem /\ z.size = x.size /\ z.net = x.net
          /\ z.firmware = x.firmware /\ z.handler = x.handler /\ z.port \in Sessions
      BY <1>3, <1>5, <2>1 DEF SameNmrp, SameSession
    <3>3. /\ y \in Device /\ SameSession(x, y) /\ y.port = z.port /\ y.tftp = z.tftp
          /\ Put(x, y, p, n, z.wrap)
      BY <1>0, <1>3, <2>1, <3>1, <3>2, PutView
    <3>4. z.wrap = IF n = 0 THEN x.wrap + SeqMod ELSE x.wrap
      BY <1>3, <2>1, <2>3
    <3> QED
      BY <1>3, <1>5, <2>1, <2>3, <3>3, <3>4 DEF Brings
  <2> QED
    BY <2>2, <2>3
<1>6. Brings(x, y, p, n)
  BY <1>1, <1>4, <1>5
<1> QED
  BY <1>6 DEF y, n

\* What the server of TFTP does to the session of NMRP: it begins an upload that is waited for,
\* sets no timer, writes and saves nothing, and reports SUCCESS for a last block only.
Served(x, y, p) ==
    /\ y \in Device /\ y.tftp_start = x.tftp_start /\ (y.handler => x.handler)
    /\ y.timer = x.timer /\ y.write = x.write /\ y.save = x.save
    /\ \/ y.NmrpState = x.NmrpState
       \/ x.NmrpState = "TFTPWAITING" /\ y.NmrpState = "TFTPUPLOADING"
    /\ y.net = "SUCCESS" => x.net = "SUCCESS" \/ Last(p)

\* TftpHandler ignores a packet that comes without a handler, or from a client other than that
\* of the transfer under way; any other packet is a write request or data.
LEMMA HandlerView ==
    ASSUME NEW x \in Device, NEW p \in Packets, NEW y, y = TftpHandler(x, p)
    PROVE  \/ y = x /\ (~x.handler \/ (x.tftp = "DATA" /\ p.s # x.port))
           \/ /\ x.handler /\ ~(x.tftp = "DATA" /\ p.s # x.port)
              /\ \/ p.kind = "WRQ" /\ y = TftpWrq(x, p)
                 \/ p.kind = "DATA" /\ y = TftpData(x, p)
<1>1. p.kind \in {"WRQ", "DATA"}
  BY DEF Packets
<1> QED
  BY <1>1 DEF TftpHandler

\* TftpHandler keeps to Served, whatever the packet.
LEMMA ServedView ==
    ASSUME NEW x \in Device, NEW p \in Packets, NEW y, y = TftpHandler(x, p)
    PROVE  Served(x, y, p)
<1>1. CASE y = x
  BY <1>1 DEF Served
<1>2. CASE y = TftpWrq(x, p)
  <2>1. Asks(x, y, p)
    BY <1>2, WrqView
  <2> QED
    BY <2>1 DEF Served, Asks
<1>3. CASE /\ y = TftpData(x, p) /\ x.handler
           /\ ~(x.tftp = "DATA" /\ p.s # x.port)
  <2>1. x.port \in Sessions \/ x.tftp = "RECV_WRQ"
    BY <1>3 DEF Device, Packets
  <2>2. /\ y \in Device /\ SameSession(x, y)
        /\ \/ y.net = "FAIL" /\ y.handler = x.handler
           \/ y = x
           \/ \E n, wrap : Put(x, y, p, n, wrap)
    BY <1>3, <2>1, DataView DEF Brings
  <2>3. CASE y.net = "FAIL" /\ y.handler = x.handler
    BY <2>2, <2>3 DEF Served, SameSession
  <2>4. CASE \E n, wrap : Put(x, y, p, n, wrap)
    BY <1>3, <2>2, <2>4 DEF Served, SameSession, Put
  <2> QED
    BY <1>1, <2>2, <2>3, <2>4
<1> QED
  BY <1>1, <1>2, <1>3, HandlerView

\* ip_rcv_packet changes the server only: the first packet to port 69 starts it, waiting for a
\* request.
LEMMA StartView ==
    ASSUME NEW x \in Device, NEW p, NEW y, y = ip_rcv_packet(x, p)
    PROVE  /\ y \in Device /\ SameNmrp(x, y) /\ y.port = x.port /\ y.last = x.last
           /\ y.wrap = x.wrap /\ y.mem = x.mem /\ y.size = x.size /\ y.out = x.out
           /\ IF IsTftp(p) /\ ~x.tftp_start
              THEN y.tftp_start /\ y.handler /\ y.tftp = "RECV_WRQ"
              ELSE y = x
<1>1. CASE IsTftp(p) /\ ~x.tftp_start
  <2>1. y = [[x EXCEPT !.tftp = "RECV_WRQ", !.handler = TRUE] EXCEPT !.tftp_start = TRUE]
    BY <1>1 DEF ip_rcv_packet, TftpStartServer
  <2>2. y = [x EXCEPT !.tftp = "RECV_WRQ", !.handler = TRUE, !.tftp_start = TRUE]
    BY <2>1 DEF Device
  <2>3. y \in Device
    BY <2>2 DEF Device
  <2> QED
    BY <1>1, <2>2, <2>3 DEF Device, SameNmrp
<1>2. CASE ~(IsTftp(p) /\ ~x.tftp_start)
  BY <1>2 DEF ip_rcv_packet, SameNmrp
<1> QED
  BY <1>1, <1>2

\* qdma_bm_receive_packets forgets a transfer that has a result, the size of its data included,
\* and leaves the state, the timer and the buffer alone.
LEMMA EndView ==
    ASSUME NEW x \in Device, NEW y, y = Quiet(qdma_bm_receive_packets(x))
    PROVE  /\ y \in Device /\ y.out = <<>> /\ ~y.write /\ ~y.save
           /\ y.NmrpState = x.NmrpState /\ y.timer = x.timer /\ y.firmware = x.firmware
           /\ y.tftp = x.tftp /\ y.port = x.port /\ y.last = x.last /\ y.wrap = x.wrap
           /\ y.mem = x.mem
           /\ IF Finished(x)
              THEN ~y.tftp_start /\ y.size = 0 /\ y.net = "CONTINUE" /\ ~y.handler
              ELSE /\ y.tftp_start = x.tftp_start /\ y.size = x.size /\ y.net = x.net
                   /\ y.handler = x.handler
<1> DEFINE z == qdma_bm_receive_packets(x)
<1>1. /\ z \in Device /\ z.firmware = x.firmware
      /\ z.tftp = x.tftp /\ z.port = x.port /\ z.last = x.last /\ z.wrap = x.wrap /\ z.mem = x.mem
      /\ z.NmrpState = x.NmrpState /\ z.timer = x.timer
      /\ IF Finished(x)
         THEN ~z.tftp_start /\ z.size = 0 /\ z.net = "CONTINUE" /\ ~z.handler
         ELSE z = x
  <2>1. CASE Finished(x)
    <3>1. z = [x EXCEPT !.tftp_start = FALSE, !.size = 0, !.net = "CONTINUE", !.handler = FALSE]
      BY <2>1 DEF qdma_bm_receive_packets
    <3> HIDE DEF z
    <3>2. z \in Device
      BY <3>1 DEF Device, Nets
    <3> QED
      BY <2>1, <3>1, <3>2 DEF Device
  <2>2. CASE ~Finished(x)
    BY <2>2 DEF qdma_bm_receive_packets
  <2> QED
    BY <2>1, <2>2
<1> HIDE DEF z
<1>2. y = [z EXCEPT !.out = <<>>, !.write = FALSE, !.save = FALSE]
  BY DEF Quiet, z
<1>3. y \in Device
  <2>1. <<>> \in Seq(Acks)
    OBVIOUS
  <2> QED
    BY <1>1, <1>2, <2>1 DEF Device
<1>4. /\ y.out = <<>> /\ ~y.write /\ ~y.save
      /\ y.NmrpState = z.NmrpState /\ y.timer = z.timer /\ y.firmware = z.firmware
      /\ y.tftp = z.tftp /\ y.port = z.port /\ y.last = z.last /\ y.wrap = z.wrap
      /\ y.mem = z.mem /\ y.tftp_start = z.tftp_start /\ y.size = z.size /\ y.net = z.net
      /\ y.handler = z.handler
  BY <1>1, <1>2, <1>3 DEF Device
<1> QED
  BY <1>1, <1>3, <1>4
-----------------------------------------------------------------------------
(* A reception *)

\* The device after an expired timer, if there is one, was dealt with.
Expired(x, expired) == IF expired THEN NmrpTimeout([x EXCEPT !.timer = FALSE]) ELSE x

\* The device y is ready to handle p: the server was started and the expired timer dealt with.
Ready(p, y) ==
    /\ y \in Device /\ (y.handler => y.tftp_start)
    /\ y.NmrpState \notin {"INIT", "CLOSED"} => y.timer
    /\ d.NmrpState = "INIT" => y.NmrpState = "INIT"
    /\ d.NmrpState = "CLOSED" => y.NmrpState = "CLOSED"
    /\ y.save => d.NmrpState # "CLOSED" /\ y.NmrpState = "CLOSED"
    /\ y.net = "SUCCESS" => early = 0 /\ y.NmrpState = "INIT"
    /\ y.net \in {"CONTINUE", "SUCCESS"}
    /\ IsTftp(p) => y.tftp_start

\* The start of the server and the expired timer make the device Ready.
LEMMA ReadyView ==
    ASSUME TypeInv, SessionInv, TimerArmed, NEW p, NEW expired \in BOOLEAN,
           NEW x, x = ip_rcv_packet(d, p), NEW y, y = Expired(x, expired)
    PROVE  x \in Device /\ (y = x \/ Timed(x, y)) /\ Ready(p, y)
<1>1. /\ x \in Device /\ SameNmrp(d, x)
      /\ IF IsTftp(p) /\ ~d.tftp_start THEN x.tftp_start /\ x.handler ELSE x = d
  BY StartView DEF TypeInv
<1>2. y = x \/ Timed(x, y)
  BY <1>1, TimeoutView DEF Expired
<1>3. Ready(p, y)
  <2>1. /\ x.handler => x.tftp_start
        /\ x.NmrpState \notin {"INIT", "CLOSED"} => x.timer
        /\ x.NmrpState = d.NmrpState /\ ~x.save
        /\ x.net = "SUCCESS" => early = 0 /\ x.NmrpState = "INIT"
        /\ x.net \in {"CONTINUE", "SUCCESS"}
        /\ IsTftp(p) => x.tftp_start
    BY <1>1 DEF TypeInv, SessionInv, TimerArmed, SameNmrp
  <2>2. CASE y = x
    BY <1>1, <2>1, <2>2 DEF Ready
  <2>3. CASE Timed(x, y)
    <3>1. early # 0 => x.NmrpState = "INIT"
      BY <2>1 DEF SessionInv
    <3> QED
      BY <2>1, <2>3, <3>1 DEF Timed, SameTftp, Ready
  <2> QED
    BY <1>2, <2>2, <2>3
<1> QED
  BY <1>1, <1>2, <1>3

\* The reception of p turns the device d into z, before qdma_bm_receive_packets.
Comes(p, z) ==
    /\ z \in Device /\ (z.handler => z.tftp_start)
    /\ z.NmrpState \notin {"INIT", "CLOSED"} => z.timer
    /\ d.NmrpState = "INIT" => z.NmrpState = "INIT"
    /\ d.NmrpState = "CLOSED" => z.NmrpState = "CLOSED"
    /\ z.save => d.NmrpState # "CLOSED" /\ z.NmrpState = "CLOSED"
    /\ z.net = "SUCCESS" => Last(p) \/ (early = 0 /\ z.NmrpState = "INIT")
    /\ z.net # "CONTINUE" => z.tftp_start \/ z.net = "SUCCESS"
    /\ Last(p) => z.tftp_start

\* NetReceive keeps to Comes, whichever packet comes and whether the timer expired or not.
LEMMA ComesView ==
    ASSUME TypeInv, SessionInv, TimerArmed, NEW p \in Nmrps \cup Packets, NEW expired \in BOOLEAN,
           NEW z, z = NetReceive(ip_rcv_packet(d, p), p, expired)
    PROVE  Comes(p, z)
<1> DEFINE y == Expired(ip_rcv_packet(d, p), expired)
<1>1. z = IF IsTftp(p) THEN TftpHandler(y, p) ELSE NmrpReceive(y, p)
  BY DEF NetReceive, Expired
<1>2. Ready(p, y)
  BY ReadyView
<1> HIDE DEF y
<1>3. y \in Device
  BY <1>2 DEF Ready
<1>4. CASE IsTftp(p)
  <2>1. p \in Packets
    BY <1>4 DEF IsTftp, Nmrps
  <2>2. Served(y, z, p)
    BY <1>1, <1>3, <1>4, <2>1, ServedView
  <2> QED
    BY <1>2, <1>4, <2>2 DEF Served, Comes, Ready
<1>5. CASE ~IsTftp(p)
  <2>1. p \in Nmrps /\ ~Last(p)
    BY <1>5 DEF IsTftp, Packets, Last
  <2>2. Told(y, z)
    BY <1>1, <1>3, <1>5, <2>1, ReceiveView
  <2> QED
    BY <1>2, <2>1, <2>2 DEF Told, SameTftp, Comes, Ready
<1> QED
  BY <1>4, <1>5

\* The invariant behind TypeOK, TimerArmed, EarlyOnce and SavedOnce.
BasicInv == TypeInv /\ SessionInv /\ TimerArmed

\* One reception keeps the types, the session and its timer.
LEMMA ReceptionKeeps ==
    ASSUME BasicInv, NEW p \in Nmrps \cup Packets, NEW expired \in BOOLEAN, Receive(p, expired),
           main' = main, c' = c, wire' \in Seq(Packets), lost' = lost
    PROVE  BasicInv'
<1> DEFINE z == NetReceive(ip_rcv_packet(d, p), p, expired)
<1>1. Comes(p, z)
  BY ComesView DEF BasicInv
<1>2. /\ d' = Quiet(qdma_bm_receive_packets(z)) /\ acks' = acks \o z.out
      /\ handed' \in {handed, "whole", "broken"}
      /\ early' = IF early < 2 /\ Finished(z) /\ z.net = "SUCCESS" /\ ~Last(p)
                  THEN early + 1 ELSE early
      /\ saves' = IF saves < 2 /\ z.save THEN saves + 1 ELSE saves
  BY DEF Receive
<1> HIDE DEF z
<1>3. z \in Device
  BY <1>1 DEF Comes
<1>4. /\ d' \in Device /\ d'.out = <<>> /\ ~d'.write /\ ~d'.save
      /\ d'.NmrpState = z.NmrpState /\ d'.timer = z.timer
      /\ IF Finished(z)
         THEN ~d'.tftp_start /\ d'.net = "CONTINUE" /\ ~d'.handler
         ELSE d'.tftp_start = z.tftp_start /\ d'.net = z.net /\ d'.handler = z.handler
  BY <1>2, <1>3, EndView
<1>5. TypeInv'
  <2>1. acks' \in Seq(Acks)
    <3>1. z.out \in Seq(Acks) /\ acks \in Seq(Acks)
      BY <1>3 DEF Device, BasicInv, TypeInv
    <3> QED
      BY <1>2, <3>1
  <2>2. early' \in Nat /\ saves' \in Nat /\ handed' \in {"nothing", "whole", "broken"}
    BY <1>2 DEF BasicInv, TypeInv
  <2> QED
    BY <1>4, <2>1, <2>2 DEF BasicInv, TypeInv
<1>6. TimerArmed'
  BY <1>1, <1>4 DEF Comes, TimerArmed
<1>7. SessionInv'
  <2>1. z.NmrpState = "INIT" \/ early = 0
    BY <1>1 DEF Comes, BasicInv, SessionInv
  <2>2. early = 0 \/ early = 1
    BY DEF BasicInv, SessionInv
  <2>3. early' # 0 => early' = 1 /\ z.NmrpState = "INIT"
    BY <1>1, <1>2, <2>1, <2>2 DEF Comes
  <2>4. saves' # 0 => saves' = 1 /\ z.NmrpState = "CLOSED"
    BY <1>1, <1>2 DEF Comes, BasicInv, SessionInv, TypeInv
  <2>5. d'.net = "SUCCESS" => d'.NmrpState = "INIT" /\ early' = 0
    BY <1>1, <1>2, <1>4 DEF Comes, Finished
  <2>6. d'.net \in {"CONTINUE", "SUCCESS"} /\ (d'.tftp_start => d'.net = "CONTINUE")
    BY <1>1, <1>4 DEF Comes, Finished
  <2>7. d'.handler => d'.tftp_start
    BY <1>1, <1>4 DEF Comes
  <2> QED
    BY <1>4, <2>3, <2>4, <2>5, <2>6, <2>7 DEF SessionInv
<1> QED
  BY <1>5, <1>6, <1>7 DEF BasicInv

\* The steps of the client, the network and the boot delay keep the types, and leave the device
\* alone.
LEMMA ClientKeeps ==
    ASSUME BasicInv, ClientStarts \/ ClientTimeout \/ ClientReads \/ Lose \/ abortboot_normal
    PROVE  BasicInv'
<1>1. TypeInv /\ SessionInv /\ TimerArmed
  BY DEF BasicInv
<1>2. d' = d /\ early' = early /\ saves' = saves /\ handed' = handed
  BY DEF ClientStarts, ClientTimeout, ClientReads, Lose, abortboot_normal
<1>3. TimerArmed' /\ SessionInv'
  BY <1>1, <1>2 DEF TimerArmed, SessionInv
<1>4. ASSUME c' \in Clients, c'.does # "idle" => c'.s \in Sessions, wire' \in Seq(Packets),
             acks' \in Seq(Acks), lost' \in 0..MaxLost, main' \in {"delay", "console", "linux"}
      PROVE  BasicInv'
  BY <1>1, <1>2, <1>3, <1>4 DEF BasicInv, TypeInv
<1>5. /\ c \in Clients /\ wire \in Seq(Packets) /\ acks \in Seq(Acks) /\ lost \in 0..MaxLost
      /\ main \in {"delay", "console", "linux"} /\ (c.does # "idle" => c.s \in Sessions)
  BY <1>1 DEF TypeInv
<1>6. c.s \in Nat /\ c.n \in Nat /\ Len(FileLen) \in Nat
  BY <1>5, NmrpAssumption DEF Clients, Sessions
<1>7. CASE ClientStarts
  <2>1. c.s + 1 \in Sessions
    BY <1>6, <1>7 DEF ClientStarts, Sessions
  <2>2. c' = [s |-> c.s + 1, does |-> "wrq", n |-> 0]
    BY <1>7 DEF ClientStarts
  <2>3. c' \in Clients /\ c'.s \in Sessions /\ c'.does = "wrq" /\ c'.n = 0
    BY <2>1, <2>2 DEF Clients
  <2>4. Current' \in Packets
    BY <2>3 DEF Current, Packets
  <2>5. wire' \in Seq(Packets)
    BY <1>5, <1>7, <2>4 DEF ClientStarts
  <2> QED
    BY <1>4, <1>5, <1>7, <2>3, <2>5 DEF ClientStarts
<1>8. CASE ClientTimeout
  <2>1. Current \in Packets
    BY <1>5, <1>6, <1>8 DEF ClientTimeout, Current, Packets
  <2>2. wire' \in Seq(Packets)
    BY <1>5, <1>8, <2>1 DEF ClientTimeout
  <2> QED
    BY <1>4, <1>5, <1>8, <2>2 DEF ClientTimeout
<1>9. CASE ClientReads
  <2>1. acks' \in Seq(Acks) /\ lost' = lost /\ main' = main
    BY <1>5, <1>9 DEF ClientReads
  <2>2. CASE UNCHANGED <<c, wire>>
    BY <1>4, <1>5, <2>1, <2>2
  <2>3. CASE c' = [c EXCEPT !.does = "done"] /\ UNCHANGED wire /\ c.does \in {"wrq", "data"}
    <3>1. c' \in Clients /\ c'.s = c.s
      BY <1>5, <2>3 DEF Clients
    <3> QED
      BY <1>4, <1>5, <2>1, <2>3, <3>1
  <2>4. CASE /\ c' = [c EXCEPT !.does = "data", !.n = @ + 1] /\ c.does \in {"wrq", "data"}
             /\ wire' = Append(wire, Current')
    <3>0. PICK m \in Nat : m = c.n + 1
      BY <1>6
    <3>1. c' \in Clients /\ c'.s = c.s /\ c'.does = "data" /\ c'.n = m
      <4>1. c' = [c EXCEPT !.does = "data", !.n = m]
        BY <2>4, <3>0
      <4> QED
        BY <1>5, <4>1 DEF Clients
    <3>2. Current' \in Packets
      BY <1>5, <2>4, <3>1 DEF Current, Packets
    <3>3. wire' \in Seq(Packets)
      BY <1>5, <2>4, <3>2
    <3> QED
      BY <1>4, <1>5, <2>1, <2>4, <3>1, <3>3
  <2> QED
    BY <1>9, <2>2, <2>3, <2>4 DEF ClientReads
<1>10. CASE Lose
  <2>1. /\ wire # <<>> => Tail(wire) \in Seq(Packets)
        /\ acks # <<>> => Tail(acks) \in Seq(Acks)
    BY <1>5
  <2>2. wire' \in Seq(Packets) /\ acks' \in Seq(Acks) /\ c' = c /\ main' = main
    BY <1>5, <1>10, <2>1 DEF Lose
  <2>3. lost' \in 0..MaxLost
    BY <1>5, <1>10, NmrpAssumption DEF Lose
  <2> QED
    BY <1>4, <1>5, <2>2, <2>3
<1>11. CASE abortboot_normal
  BY <1>4, <1>5, <1>11 DEF abortboot_normal
<1> QED
  BY <1>7, <1>8, <1>9, <1>10, <1>11

\* The invariant holds after NmrpStart.
LEMMA BasicInit == Init => BasicInv
<1> SUFFICES ASSUME Init PROVE BasicInv
  OBVIOUS
<1>1. /\ 0 \in Counts /\ 0 \in 0..(SeqMod - 1) /\ 0 \in Nat /\ 0 \in 0..MaxLost
  BY NmrpAssumption DEF Counts
<1>2. [i \in Offsets |-> NoBlock] \in Memory
  BY DEF Memory
<1>3. /\ d.NmrpState = "LISTENING" /\ d.timer /\ ~d.handler /\ ~d.tftp_start /\ d.net = "CONTINUE"
      /\ d.out = <<>> /\ ~d.write /\ ~d.save
  BY DEF Init
<1>4. d \in Device
  BY <1>1, <1>2 DEF Init, Device, Nets, States
<1>5. c \in Clients /\ c.does = "idle"
  BY <1>1 DEF Init, Clients
<1>6. wire \in Seq(Packets) /\ acks \in Seq(Acks)
  BY DEF Init
<1>7. TypeInv
  BY <1>1, <1>3, <1>4, <1>5, <1>6 DEF Init, TypeInv
<1> QED
  BY <1>3, <1>7 DEF Init, BasicInv, SessionInv, TimerArmed

\* Every step keeps the invariant.
LEMMA BasicStep == BasicInv /\ [Next]_vars => BasicInv'
<1> SUFFICES ASSUME BasicInv, [Next]_vars PROVE BasicInv'
  OBVIOUS
<1>1. ASSUME NEW p \in Nmrps, NEW expired \in BOOLEAN, ReceiveNmrp(p, expired) PROVE BasicInv'
  <2>1. wire' \in Seq(Packets)
    BY <1>1 DEF BasicInv, TypeInv, ReceiveNmrp
  <2> QED
    BY <1>1, <2>1, ReceptionKeeps DEF ReceiveNmrp
<1>2. ASSUME NEW expired \in BOOLEAN, ReceiveTftp(expired) PROVE BasicInv'
  <2>1. wire \in Seq(Packets) /\ wire # <<>>
    BY <1>2 DEF BasicInv, TypeInv, ReceiveTftp
  <2>2. Head(wire) \in Packets /\ Tail(wire) \in Seq(Packets)
    BY <2>1
  <2> QED
    BY <1>2, <2>2, ReceptionKeeps DEF ReceiveTftp
<1>3. CASE UNCHANGED vars
  BY <1>3 DEF BasicInv, TypeInv, SessionInv, TimerArmed, vars
<1> QED
  BY <1>1, <1>2, <1>3, ClientKeeps DEF Next

\* The invariant holds in every state.
LEMMA BasicAlways == Spec => []BasicInv
BY BasicInit, BasicStep, PTL DEF Spec

-----------------------------------------------------------------------------
(* The theorems about the session *)

\* The fields of the device keep the values the code gives them: req_times stays within its
\* limits, the block number within SeqMod, and net_state shows CONTINUE or SUCCESS between two
\* receptions (TypeOK).
THEOREM TypeCorrect == Spec => []TypeOK
<1>1. BasicInv => TypeOK
  BY DEF BasicInv, TypeInv, SessionInv, TypeOK, Device, Counts, Memory
<1> QED
  BY <1>1, BasicAlways, PTL

\* A session of NMRP never loses its timer, for files of any number and length, any limits of
\* the requests, and any packets: no order of packets leaves a session that nothing ends
\* (TimerArmed).
THEOREM TimerAlwaysArmed == Spec => []TimerArmed
<1>1. BasicInv => TimerArmed
  BY DEF BasicInv
<1> QED
  BY <1>1, BasicAlways, PTL

\* The timer of NMRP breaks off a transfer without NMRP once at most after a power on, since it
\* does so on the way to INIT only (EarlyOnce).
THEOREM EarlyOnlyOnce == Spec => []EarlyOnce
<1>1. BasicInv => EarlyOnce
  BY DEF BasicInv, SessionInv, EarlyOnce
<1> QED
  BY <1>1, BasicAlways, PTL

\* Nmrp_done saves the environment once at most, and only as it closes the session (SavedOnce).
THEOREM SavedOnlyOnce == Spec => []SavedOnce
<1>1. BasicInv => SavedOnce
  BY DEF BasicInv, SessionInv, SavedOnce
<1> QED
  BY <1>1, BasicAlways, PTL
-----------------------------------------------------------------------------
(* The client and the network *)

\* The order on the wire. Requests and blocks arrive in the order of the files and, within a
\* file, of the blocks; data is under way for the client of the device only; nobody is ahead of
\* the client, and nothing is acknowledged that was not sent.
Line(x, k, w, a) ==
    /\ k.n > 0 => x.port = k.s
    /\ x.port <= k.s
    /\ k.s = 0 => k.does = "idle"
    /\ k.s # 0 => k.n <= FileLen[k.s] /\ (k.n = 0 <=> k.does = "wrq") /\ k.does # "idle"
    /\ \A i \in 1..Len(w) :
          /\ x.port <= w[i].s /\ w[i].s <= k.s
          /\ w[i].kind = "WRQ" => w[i].n = 0
          /\ w[i].kind = "DATA" => w[i].n \in 1..FileLen[w[i].s] /\ w[i].s = x.port
          /\ w[i].s = k.s => w[i].n <= k.n
    /\ \A i, j \in 1..Len(w) : i < j /\ w[i].s = w[j].s => w[i].n <= w[j].n
    /\ \A i, j \in 1..Len(w) : i < j => w[i].s <= w[j].s
    /\ \A j \in 1..Len(a) : a[j].s <= x.port /\ (a[j].s = k.s => a[j].n <= k.n)

\* The transfer with the client of the device has not begun: nothing but block 1 is under way,
\* and nothing but the request was acknowledged.
Opening(x, k, w, a) ==
    /\ x.port = k.s => k.n <= 1
    /\ \A i \in 1..Len(w) : w[i].kind = "DATA" => w[i].n = 1
    /\ \A j \in 1..Len(a) : a[j].s = x.port => a[j].n = 0

\* A request of the client of the device is under way.
Asked(x, w) == \E i \in 1..Len(w) : w[i].kind = "WRQ" /\ w[i].s = x.port

\* While a request of the client of the device is under way its transfer has not begun: a
\* repeated request never comes to one that has, where TftpWrq would start the numbers again.
Request1(x, k, w, a) ==
    /\ Asked(x, w) => Opening(x, k, w, a) /\ ~(x.tftp_start /\ x.tftp = "DATA")
    /\ x.tftp_start /\ x.tftp = "DATA" /\ x.port = k.s => k.n >= 1

-----------------------------------------------------------------------------
(* The upload *)

\* The blocks the device took, the numbers that wrapped counted in.
Got(x) == x.wrap + x.last

\* The buffer holds the first n blocks of file s, in order, and nothing else.
Filled(x, s, n) == x.size = n /\ \A i \in 0..(n - 1) : x.mem[i] = <<s, i + 1>>

\* An upload under way: Got blocks are in the buffer, and what is on the wire is the block that
\* came last or the next one; an acknowledgement that is still under way belongs to the block
\* that came last. So a number that differs from the last one is the next block, and block
\* number 0 follows a wrap.
Underway(x, k, w, a) ==
    /\ Got(x) \in 1..(FileLen[x.port] - 1) /\ x.last = Got(x) % SeqMod
    /\ Filled(x, x.port, Got(x))
    /\ \A i \in 1..Len(w) : w[i].s = x.port => w[i].kind = "DATA" /\ w[i].n \in {Got(x), Got(x) + 1}
    /\ x.port = k.s =>
          /\ k.n \in {Got(x), Got(x) + 1}
          /\ \A j \in 1..Len(a) : a[j].s = x.port =>
                /\ k.n = Got(x)
                /\ a[j].n = Got(x) % SeqMod \/ (Got(x) = 1 /\ a[j].n = 0)
          /\ \A i, j \in 1..Len(a) : i < j /\ a[i].s = x.port /\ a[j].s = x.port
                => Got(x) = 1 /\ a[i].n = 0

\* The upload of NMRP and its buffer: nothing is in the buffer before a first block, an upload
\* is opening or under way, and what FILEUPLOADING is going to write is whole, with a server
\* that takes no more packets.
Upload(x, k, w, a) ==
    /\ ~x.tftp_start \/ x.tftp = "RECV_WRQ" => x.size = 0
    /\ x.firmware = 1 => x.NmrpState = "TFTPUPLOADING"
    /\ x.NmrpState = "TFTPUPLOADING" /\ x.firmware = 0 =>
          /\ x.tftp_start /\ x.port # 0
          /\ x.tftp = "RECV_WRQ" => Opening(x, k, w, a)
          /\ x.tftp = "DATA" => Underway(x, k, w, a)
    /\ x.firmware = 1 \/ x.NmrpState = "FILEUPLOADING" => Whole(x) /\ ~x.handler /\ x.tftp_start

\* The device x, its client k, the packets w and the acknowledgements a between them.
Link(x, k, w, a) == Line(x, k, w, a) /\ Request1(x, k, w, a) /\ Upload(x, k, w, a)

-----------------------------------------------------------------------------
(* Sequences *)

\* What is left of a sequence without its head.
LEMMA Behind ==
    ASSUME NEW S, NEW w \in Seq(S), w # <<>>
    PROVE  /\ Len(w) \in Nat /\ Len(w) >= 1 /\ Len(Tail(w)) = Len(w) - 1 /\ Tail(w) \in Seq(S)
           /\ 1 \in 1..Len(w) /\ Head(w) = w[1] /\ w[1] \in S
           /\ \A i \in 1..Len(Tail(w)) : i + 1 \in 1..Len(w) /\ Tail(w)[i] = w[i + 1] /\ i \in Nat
OBVIOUS

\* A sequence with one element more, appended or concatenated.
LEMMA Added ==
    ASSUME NEW S, NEW w \in Seq(S), NEW e \in S, NEW v, v = Append(w, e) \/ v = w \o <<e>>
    PROVE  /\ Len(w) \in Nat /\ Len(v) = Len(w) + 1 /\ v \in Seq(S) /\ v[Len(w) + 1] = e
           /\ \A i \in 1..Len(v) : i \in 1..Len(w) \/ i = Len(w) + 1
           /\ \A i \in 1..Len(w) : v[i] = w[i] /\ w[i] \in S /\ i \in 1..Len(v)
OBVIOUS

-----------------------------------------------------------------------------
(* Steps of the network and of NMRP *)

\* A packet that is lost, or ignored, keeps the link.
LEMMA TailLink ==
    ASSUME NEW x, NEW k, NEW w \in Seq(Packets), NEW a, w # <<>>, Link(x, k, w, a)
    PROVE  Link(x, k, Tail(w), a)
<1> DEFINE v == Tail(w)
<1>1. \A i \in 1..Len(v) : i + 1 \in 1..Len(w) /\ v[i] = w[i + 1] /\ i \in Nat
  BY Behind
<1> HIDE DEF v
<1>2. \A i, j \in 1..Len(v) : i < j => i + 1 < j + 1
  BY <1>1
<1>3. Line(x, k, v, a)
  BY <1>1, <1>2 DEF Link, Line
<1>4. Opening(x, k, w, a) => Opening(x, k, v, a)
  BY <1>1 DEF Opening
<1>5. Request1(x, k, v, a)
  BY <1>1, <1>4 DEF Link, Request1, Asked
<1>6. Underway(x, k, w, a) => Underway(x, k, v, a)
  BY <1>1 DEF Underway
<1>7. Upload(x, k, v, a)
  BY <1>4, <1>6 DEF Link, Upload
<1> QED
  BY <1>3, <1>5, <1>7 DEF Link, v

\* An acknowledgement that is lost, or ignored, keeps the link.
LEMMA TailAcks ==
    ASSUME NEW x, NEW k, NEW w, NEW a \in Seq(Acks), a # <<>>, Link(x, k, w, a)
    PROVE  Link(x, k, w, Tail(a))
<1> DEFINE b == Tail(a)
<1>1. \A i \in 1..Len(b) : i + 1 \in 1..Len(a) /\ b[i] = a[i + 1] /\ i \in Nat
  BY Behind
<1> HIDE DEF b
<1>2. \A i, j \in 1..Len(b) : i < j => i + 1 < j + 1
  BY <1>1
<1>3. Line(x, k, w, b)
  BY <1>1 DEF Link, Line
<1>4. Opening(x, k, w, a) => Opening(x, k, w, b)
  BY <1>1 DEF Opening
<1>5. Request1(x, k, w, b)
  BY <1>4 DEF Link, Request1
<1>6. Underway(x, k, w, a) => Underway(x, k, w, b)
  BY <1>1, <1>2 DEF Underway
<1>7. Upload(x, k, w, b)
  BY <1>4, <1>6 DEF Link, Upload
<1> QED
  BY <1>3, <1>5, <1>7 DEF Link, b

\* What NMRP may do to an upload: it begins none, and takes one for complete only when
\* nmrptftp_firmware says so.
Moves(x, y) ==
    /\ SameTftp(x, y)
    /\ y.firmware = 1 =>
          x.firmware = 1 /\ (x.NmrpState = "TFTPUPLOADING" => y.NmrpState = "TFTPUPLOADING")
    /\ y.NmrpState = "TFTPUPLOADING" /\ y.firmware = 0 =>
          x.NmrpState = "TFTPUPLOADING" /\ x.firmware = 0
    /\ y.NmrpState = "FILEUPLOADING" => \/ x.NmrpState = "FILEUPLOADING"
                                        \/ x.NmrpState = "TFTPUPLOADING" /\ x.firmware = 1

\* A step of NMRP that keeps to Moves keeps the link.
LEMMA MovesLink ==
    ASSUME NEW x, NEW y, NEW k, NEW w, NEW a, Moves(x, y), Link(x, k, w, a)
    PROVE  Link(y, k, w, a)
<1>1. SameTftp(x, y)
  BY DEF Moves
<1>2. Line(y, k, w, a)
  BY <1>1 DEF SameTftp, Link, Line
<1>3. Opening(x, k, w, a) => Opening(y, k, w, a)
  BY <1>1 DEF SameTftp, Opening
<1>4. Request1(y, k, w, a)
  BY <1>1, <1>3 DEF SameTftp, Link, Request1, Asked
<1>5. Underway(x, k, w, a) => Underway(y, k, w, a)
  BY <1>1 DEF SameTftp, Underway, Got, Filled
<1>6. Whole(x) => Whole(y)
  BY <1>1 DEF SameTftp, Whole
<1>7. Upload(y, k, w, a)
  BY <1>1, <1>3, <1>5, <1>6 DEF Moves, SameTftp, Link, Upload
<1> QED
  BY <1>2, <1>4, <1>7 DEF Link

\* An expired timer keeps to Moves.
LEMMA TimedMoves ==
    ASSUME NEW x \in Device, NEW y, Timed(x, y)
    PROVE  Moves(x, y)
BY DEF Timed, Moves

\* A packet of NMRP keeps to Moves.
LEMMA ToldMoves ==
    ASSUME NEW x \in Device, NEW y, Told(x, y)
    PROVE  Moves(x, y)
BY DEF Told, Moves

\* The server that ip_rcv_packet starts has nothing in its buffer, and keeps the link.
LEMMA StartLink ==
    ASSUME NEW x \in Device, NEW p, NEW y, y = ip_rcv_packet(x, p),
           NEW k, NEW w, NEW a, Link(x, k, w, a)
    PROVE  Link(y, k, w, a)
<1>1. /\ SameNmrp(x, y) /\ y.port = x.port /\ y.last = x.last
      /\ y.wrap = x.wrap /\ y.mem = x.mem /\ y.size = x.size /\ y.out = x.out
      /\ IF IsTftp(p) /\ ~x.tftp_start
         THEN y.tftp_start /\ y.handler /\ y.tftp = "RECV_WRQ"
         ELSE y = x
  BY StartView
<1>2. CASE ~(IsTftp(p) /\ ~x.tftp_start)
  BY <1>1, <1>2
<1>3. CASE IsTftp(p) /\ ~x.tftp_start
  <2>1. Line(y, k, w, a)
    BY <1>1 DEF Link, Line
  <2>2. Opening(x, k, w, a) => Opening(y, k, w, a)
    BY <1>1 DEF Opening
  <2>3. Request1(y, k, w, a)
    BY <1>1, <1>3, <2>2 DEF Link, Request1, Asked
  <2>4. Upload(y, k, w, a)
    BY <1>1, <1>3 DEF Link, Upload, SameNmrp
  <2> QED
    BY <2>1, <2>3, <2>4 DEF Link
<1> QED
  BY <1>2, <1>3

\* The end of a reception keeps the link, if the transfer it forgets is not one NMRP waits for.
LEMMA EndLink ==
    ASSUME NEW x \in Device, NEW y, y = Quiet(qdma_bm_receive_packets(x)),
           NEW k, NEW w, NEW a, Link(x, k, w, a),
           Finished(x) => x.NmrpState \notin {"TFTPUPLOADING", "FILEUPLOADING"}
    PROVE  Link(y, k, w, a)
<1>1. /\ y.NmrpState = x.NmrpState /\ y.firmware = x.firmware
      /\ y.tftp = x.tftp /\ y.port = x.port /\ y.last = x.last /\ y.wrap = x.wrap
      /\ y.mem = x.mem
      /\ IF Finished(x)
         THEN ~y.tftp_start /\ y.size = 0 /\ ~y.handler
         ELSE y.tftp_start = x.tftp_start /\ y.size = x.size /\ y.handler = x.handler
  BY EndView
<1>2. Line(y, k, w, a)
  BY <1>1 DEF Link, Line
<1>3. Opening(x, k, w, a) => Opening(y, k, w, a)
  BY <1>1 DEF Opening
<1>4. Request1(y, k, w, a)
  BY <1>1, <1>3 DEF Link, Request1, Asked
<1>5. Upload(y, k, w, a)
  <2>1. CASE Finished(x)
    BY <1>1, <2>1 DEF Link, Upload
  <2>2. CASE ~Finished(x)
    <3>1. Underway(x, k, w, a) => Underway(y, k, w, a)
      BY <1>1, <2>2 DEF Underway, Got, Filled
    <3>2. Whole(x) => Whole(y)
      BY <1>1, <2>2 DEF Whole
    <3> QED
      BY <1>1, <1>3, <2>2, <3>1, <3>2 DEF Link, Upload
  <2> QED
    BY <2>1, <2>2
<1> QED
  BY <1>2, <1>4, <1>5 DEF Link
-----------------------------------------------------------------------------
(* Steps of the server *)

\* The files and numbers of packets, acknowledgements, clients and devices are numbers.
LEMMA Numbers ==
    /\ \A p \in Packets : p.s \in Nat /\ p.s # 0 /\ p.n \in Nat /\ p.s \in Sessions
    /\ \A e \in Acks : e.s \in Nat /\ e.n \in Nat
    /\ \A k \in Clients : k.s \in Nat /\ k.n \in Nat
    /\ \A x \in Device : x.port \in Nat
<1>1. \A s \in Sessions : s \in Nat /\ s # 0
  BY NmrpAssumption DEF Sessions
<1>2. ASSUME NEW p \in Packets PROVE p.s \in Nat /\ p.s # 0 /\ p.n \in Nat /\ p.s \in Sessions
  BY <1>1 DEF Packets
<1>3. ASSUME NEW e \in Acks PROVE e.s \in Nat /\ e.n \in Nat
  BY <1>1 DEF Acks
<1>4. ASSUME NEW k \in Clients PROVE k.s \in Nat /\ k.n \in Nat
  <2>1. (k.s = 0 \/ k.s \in Sessions) /\ k.n \in Nat
    BY DEF Clients
  <2> QED
    BY <1>1, <2>1
<1>5. ASSUME NEW x \in Device PROVE x.port \in Nat
  <2>1. x.port = 0 \/ x.port \in Sessions
    BY DEF Device
  <2> QED
    BY <1>1, <2>1
<1> QED
  BY <1>2, <1>3, <1>4, <1>5

\* b is a with e behind it, said element by element.
OneMore(a, b, e) ==
    /\ Len(a) \in Nat /\ Len(b) = Len(a) + 1 /\ b[Len(a) + 1] = e
    /\ \A i \in 1..Len(b) : i \in 1..Len(a) \/ i = Len(a) + 1
    /\ \A i \in 1..Len(a) : b[i] = a[i]

\* Packet p comes before the packets v, to a device x with the client k.
Leads(x, k, v, p) ==
    /\ x.port <= p.s /\ p.s <= k.s
    /\ p.kind = "WRQ" => p.n = 0
    /\ p.kind = "DATA" => p.n \in 1..FileLen[p.s] /\ p.s = x.port
    /\ p.s = k.s => p.n <= k.n
    /\ \A i \in 1..Len(v) : p.s <= v[i].s /\ (v[i].s = p.s => p.n <= v[i].n)

\* What the link says of the first packet on the wire.
LEMMA Front ==
    ASSUME NEW x, NEW k, NEW w \in Seq(Packets), NEW a, w # <<>>, Link(x, k, w, a),
           NEW p, p = Head(w), NEW v, v = Tail(w)
    PROVE  /\ p \in Packets /\ Link(x, k, v, a) /\ Leads(x, k, v, p)
           /\ Opening(x, k, w, a) /\ p.kind = "DATA" => p.n = 1
           /\ Opening(x, k, w, a) => Opening(x, k, v, a)
           /\ Underway(x, k, w, a) /\ p.s = x.port => p.n \in {Got(x), Got(x) + 1}
           /\ Underway(x, k, w, a) => Underway(x, k, v, a)
           /\ p.kind = "WRQ" /\ p.s = x.port => Asked(x, w)
<1>1. /\ 1 \in 1..Len(w) /\ p = w[1] /\ p \in Packets
      /\ \A i \in 1..Len(v) : i + 1 \in 1..Len(w) /\ v[i] = w[i + 1] /\ 1 < i + 1 /\ i \in Nat
  BY Behind
<1>2. Link(x, k, v, a)
  BY TailLink
<1>3. Leads(x, k, v, p)
  BY <1>1 DEF Link, Line, Leads
<1>4. /\ Opening(x, k, w, a) /\ p.kind = "DATA" => p.n = 1
      /\ Opening(x, k, w, a) => Opening(x, k, v, a)
  BY <1>1 DEF Opening
<1>5. Underway(x, k, w, a) /\ p.s = x.port => p.n \in {Got(x), Got(x) + 1}
  BY <1>1 DEF Underway
<1>6. Underway(x, k, w, a) => Underway(x, k, v, a)
  BY <1>1 DEF Underway
<1>7. p.kind = "WRQ" /\ p.s = x.port => Asked(x, w)
  BY <1>1 DEF Asked
<1> QED
  BY <1>1, <1>2, <1>3, <1>4, <1>5, <1>6, <1>7

\* One acknowledgement more, of the packet that came, keeps the order on the wire.
LEMMA AckLine ==
    ASSUME NEW x \in Device, NEW y \in Device, NEW k \in Clients, NEW v \in Seq(Packets),
           NEW a \in Seq(Acks), NEW p \in Packets, Leads(x, k, v, p), Line(x, k, v, a),
           y.port = p.s, NEW e \in Acks, e.s = p.s, e.n <= p.n, NEW b, b = a \o <<e>>
    PROVE  Line(y, k, v, b) /\ OneMore(a, b, e)
<1>1. /\ Len(a) \in Nat /\ Len(b) = Len(a) + 1 /\ b[Len(a) + 1] = e
      /\ \A i \in 1..Len(b) : i \in 1..Len(a) \/ i = Len(a) + 1
      /\ \A i \in 1..Len(a) : b[i] = a[i] /\ a[i] \in Acks
  BY Added
<1>2. p.s \in Nat /\ p.n \in Nat /\ k.s \in Nat /\ k.n \in Nat /\ x.port \in Nat
  BY Numbers
<1>3. ASSUME NEW i \in 1..Len(v) PROVE v[i].s \in Nat
  <2>1. v[i] \in Packets
    OBVIOUS
  <2> QED
    BY <2>1, Numbers
<1>4. ASSUME NEW i \in 1..Len(a) PROVE a[i].s \in Nat /\ a[i].n \in Nat
  <2>1. a[i] \in Acks
    OBVIOUS
  <2> QED
    BY <2>1, Numbers
<1>5. ASSUME NEW j \in 1..Len(b)
      PROVE  b[j].s <= p.s /\ (b[j].s = k.s => b[j].n <= k.n)
  <2>1. CASE j \in 1..Len(a)
    <3>1. b[j] = a[j] /\ a[j].s <= x.port /\ (a[j].s = k.s => a[j].n <= k.n)
      BY <1>1, <2>1 DEF Line
    <3> QED
      BY <1>2, <1>4, <2>1, <3>1 DEF Leads
  <2>2. CASE j = Len(a) + 1
    <3>1. b[j] = e /\ e.n \in Nat
      BY <1>1, <2>2, Numbers
    <3> QED
      BY <1>2, <3>1 DEF Leads
  <2> QED
    BY <1>1, <1>5, <2>1, <2>2
<1>6. (k.n > 0 => p.s = k.s) /\ p.s <= k.s
  BY <1>2 DEF Leads, Line
<1>7. ASSUME NEW i \in 1..Len(v)
      PROVE  p.s <= v[i].s /\ (v[i].kind = "DATA" => v[i].s = p.s)
  BY <1>2, <1>3 DEF Leads, Line
<1>8. Line(y, k, v, b)
  BY <1>5, <1>6, <1>7 DEF Line
<1> QED
  BY <1>1, <1>8 DEF OneMore

\* A write request opens a transfer, or repeats the request of one that has not begun, and
\* keeps the link.
LEMMA WrqLink ==
    ASSUME NEW x \in Device, NEW k \in Clients, NEW w \in Seq(Packets), NEW a \in Seq(Acks),
           w # <<>>, Link(x, k, w, a), NEW p, p = Head(w), p.kind = "WRQ", NEW v, v = Tail(w),
           x.handler, x.tftp_start, ~(x.tftp = "DATA" /\ p.s # x.port),
           NEW y, Asks(x, y, p)
    PROVE  Link(y, k, v, a \o y.out)
<1> DEFINE b == a \o <<[s |-> p.s, n |-> 0]>>
<1>1. /\ p \in Packets /\ Link(x, k, v, a) /\ Leads(x, k, v, p)
      /\ Opening(x, k, w, a) => Opening(x, k, v, a)
      /\ p.s = x.port => Asked(x, w)
  BY Front
<1>2. v \in Seq(Packets)
  BY Behind
<1>3. p.n = 0 /\ a \o y.out = b /\ y \in Device /\ y.port = p.s
  BY <1>1 DEF Leads, Asks
<1> HIDE DEF b
<1>4. Line(y, k, v, b) /\ OneMore(a, b, [s |-> p.s, n |-> 0])
  <2>1. PICK e \in Acks : e = [s |-> p.s, n |-> 0]
    BY <1>1, Numbers DEF Acks
  <2>2. e.s = p.s /\ e.n <= p.n /\ b = a \o <<e>> /\ Line(x, k, v, a)
    BY <1>1, <1>3, <2>1 DEF b, Link
  <2>3. Line(y, k, v, b) /\ OneMore(a, b, e)
    BY <1>1, <1>2, <1>3, <2>2, AckLine
  <2> QED
    BY <2>1, <2>3
<1>5. x.tftp = "RECV_WRQ"
  BY <1>1 DEF Link, Request1, Device
<1>6. p.s \in Nat /\ p.s # 0 /\ k.s \in Nat /\ k.n \in Nat /\ x.port \in Nat
  BY <1>1, Numbers
<1>7. Opening(y, k, v, b)
  <2>1. CASE p.s = x.port
    <3>1. Opening(x, k, v, a)
      BY <1>1, <2>1 DEF Link, Request1
    <3> QED
      BY <1>3, <1>4, <2>1, <3>1 DEF Opening, OneMore
  <2>2. CASE p.s # x.port
    <3>1. x.port < p.s
      BY <1>1, <1>6, <2>2 DEF Leads
    <3>2. k.n = 0
      BY <1>1, <1>6, <3>1 DEF Leads, Link, Line
    <3>3. ASSUME NEW i \in 1..Len(v) PROVE v[i].kind # "DATA"
      BY <1>1, <1>6, <3>1 DEF Leads, Link, Line
    <3>4. ASSUME NEW j \in 1..Len(a) PROVE a[j].s # p.s
      BY <1>1, <1>6, <3>1 DEF Link, Line
    <3>5. ASSUME NEW j \in 1..Len(b) PROVE b[j].s = p.s => b[j].n = 0
      <4>1. CASE j \in 1..Len(a)
        BY <1>4, <3>4, <4>1 DEF OneMore
      <4>2. CASE j = Len(a) + 1
        BY <1>4, <4>2 DEF OneMore
      <4> QED
        BY <1>4, <4>1, <4>2 DEF OneMore
    <3> QED
      BY <1>3, <3>2, <3>3, <3>5 DEF Opening
  <2> QED
    BY <2>1, <2>2
<1>8. Request1(y, k, v, b)
  BY <1>5, <1>7 DEF Request1, Asks
<1>9. Upload(y, k, v, b)
  <2>1. /\ x.size = 0 /\ x.firmware # 1 /\ x.NmrpState # "FILEUPLOADING"
    BY <1>1, <1>5 DEF Link, Upload
  <2>2. y.size = 0 /\ y.firmware # 1 /\ y.NmrpState # "FILEUPLOADING" /\ y.tftp = "RECV_WRQ"
        /\ y.tftp_start /\ y.port # 0
    BY <1>3, <1>5, <1>6, <2>1 DEF Asks
  <2> QED
    BY <1>7, <2>2 DEF Upload
<1> QED
  BY <1>3, <1>4, <1>8, <1>9 DEF Link

\* The remainder of a number, and of the number after it.
LEMMA Remainder ==
    ASSUME NEW M \in Nat \ {0}, NEW g \in Nat
    PROVE  /\ g % M \in 0..(M - 1) /\ g % M <= g
           /\ g < M => g % M = g
           /\ (g + 1) % M = IF (g % M) + 1 < M THEN (g % M) + 1 ELSE 0
<1> DEFINE q == g \div M
           r == g % M
<1>1. r \in 0..(M - 1) /\ r <= g /\ (g < M => r = g)
  OBVIOUS
<1>2. q \in Nat /\ g = M * q + r
  OBVIOUS
<1> HIDE DEF q, r
<1>3. CASE r + 1 < M
  <2>1. g + 1 = M * q + (r + 1)
    BY <1>1, <1>2
  <2>2. (g + 1) % M = r + 1
    BY <1>1, <1>2, <1>3, <2>1
  <2> QED
    BY <1>1, <1>3, <2>2 DEF r
<1>4. CASE ~(r + 1 < M)
  <2>1. g + 1 = M * (q + 1)
    BY <1>1, <1>2, <1>4
  <2>2. (g + 1) % M = 0
    BY <1>2, <2>1
  <2> QED
    BY <1>1, <1>4, <2>2 DEF r
<1> QED
  BY <1>3, <1>4

\* The numbers of the blocks on the wire count up to SeqMod - 1 and go on at 0.
LEMMA BlockNumber ==
    ASSUME NEW g \in Nat
    PROVE  /\ g % SeqMod \in 0..(SeqMod - 1) /\ g % SeqMod <= g
           /\ (g + 1) % SeqMod = IF (g % SeqMod) + 1 < SeqMod THEN (g % SeqMod) + 1 ELSE 0
           /\ 1 % SeqMod = 1 /\ SeqMod \in Nat /\ SeqMod >= 3
<1>1. SeqMod \in Nat \ {0} /\ SeqMod >= 3
  BY NmrpAssumption
<1>2. 1 % SeqMod = 1
  BY <1>1
<1> QED
  BY <1>1, <1>2, Remainder

\* The first block of a transfer is stored at the start of the buffer, and keeps the link; when
\* it is the last one as well, NMRP is told and the upload is whole.
LEMMA FirstLink ==
    ASSUME FilesFit, NEW x \in Device, NEW k \in Clients,
           NEW w \in Seq(Packets), NEW a \in Seq(Acks),
           w # <<>>, Link(x, k, w, a), NEW p, p = Head(w), p.kind = "DATA", NEW v, v = Tail(w),
           x.handler, x.tftp_start, x.tftp = "RECV_WRQ", p.n % SeqMod = 1,
           x.net = "CONTINUE" \/ x.NmrpState = "INIT",
           NEW y \in Device, SameSession(x, y), y.tftp = "DATA", y.port = p.s, Put(x, y, p, 1, 0)
    PROVE  /\ Link(y, k, v, a \o y.out)
           /\ Finished(y) => y.NmrpState \notin {"TFTPUPLOADING", "FILEUPLOADING"}
<1> DEFINE b == a \o <<[s |-> p.s, n |-> 1]>>
<1>1. /\ p \in Packets /\ Link(x, k, v, a) /\ Leads(x, k, v, p)
      /\ Opening(x, k, w, a) => p.n = 1 /\ Opening(x, k, v, a)
  BY Front
<1>2. v \in Seq(Packets)
  BY Behind
<1>3. a \o y.out = b
  BY DEF Put
<1>4. p.n \in Nat /\ p.s \in Nat /\ p.s # 0 /\ p.s \in Sessions /\ k.s \in Nat /\ k.n \in Nat
  BY <1>1, Numbers
<1>5. p.n \in 1..FileLen[p.s] /\ FileLen[p.s] \in Nat \ {0} /\ FileLen[p.s] <= Limit /\ p.s = x.port
  BY <1>1, <1>4, NmrpAssumption DEF Leads, FilesFit, Sessions
<1> HIDE DEF b
<1>6. Line(y, k, v, b) /\ OneMore(a, b, [s |-> p.s, n |-> 1])
  <2>1. PICK e \in Acks : e = [s |-> p.s, n |-> 1]
    BY <1>1, Numbers DEF Acks
  <2>2. e.s = p.s /\ e.n <= p.n /\ b = a \o <<e>> /\ Line(x, k, v, a)
    BY <1>1, <1>4, <1>5, <2>1 DEF b, Link
  <2>3. Line(y, k, v, b) /\ OneMore(a, b, e)
    BY <1>1, <1>2, <1>3, <2>2, AckLine
  <2> QED
    BY <2>1, <2>3
<1>7. ASSUME NEW i \in 1..Len(v), v[i].s = p.s PROVE v[i].kind = "DATA"
  <2>1. v[i] \in Packets
    BY <1>2
  <2>2. v[i].kind \in {"WRQ", "DATA"} /\ v[i].n \in Nat
    BY <2>1 DEF Packets
  <2>3. p.n <= v[i].n
    BY <1>1, <1>7 DEF Leads
  <2>4. v[i].kind = "WRQ" => v[i].n = 0
    BY <1>1 DEF Link, Line
  <2> QED
    BY <1>5, <2>2, <2>3, <2>4
<1>8. p.s = k.s => k.n >= 1
  BY <1>1, <1>4, <1>5 DEF Leads
<1>9. Request1(y, k, v, b)
  BY <1>7, <1>8 DEF Request1, Asked
<1>10. x.size = 0 /\ x.firmware = 0 /\ x.NmrpState # "FILEUPLOADING"
  BY DEF Link, Upload, Device
<1>11. CASE x.NmrpState = "TFTPUPLOADING"
  <2>1. p.n = 1 /\ Opening(x, k, v, a)
    BY <1>1, <1>10, <1>11 DEF Link, Upload
  <2>2. 0 \in Offsets /\ 1 - 1 + 0 = 0 /\ 1 + 0 = 1
    BY <1>5, NmrpAssumption DEF Offsets
  <2>3. y.mem = [x.mem EXCEPT ![0] = <<p.s, p.n>>] /\ y.size = 1 /\ y.last = 1 /\ y.wrap = 0
    <3>1. IF 0 \in Offsets
          THEN /\ y.mem = [x.mem EXCEPT ![0] = <<p.s, p.n>>]
               /\ y.size = IF 1 > x.size THEN 1 ELSE x.size
          ELSE y.mem = x.mem /\ y.size = x.size
      BY <2>2 DEF Put
    <3> QED
      BY <1>10, <2>2, <3>1 DEF Put
  <2>4. y.mem[0] = <<p.s, 1>>
    <3>1. x.mem \in [Offsets -> Sessions \X Nat \cup {NoBlock}]
      BY DEF Device, Memory
    <3> QED
      BY <2>1, <2>2, <2>3, <3>1
  <2>5. Filled(y, p.s, 1)
    BY <2>3, <2>4 DEF Filled
  <2>6. CASE Last(p)
    <3>1. y.firmware = 1 /\ ~y.handler /\ y.net = "CONTINUE"
      BY <1>11, <2>6 DEF Put
    <3>2. FileLen[p.s] = 1
      BY <2>1, <2>6 DEF Last
    <3>3. Whole(y)
      BY <1>4, <2>5, <3>2 DEF Whole, Filled
    <3>4. Upload(y, k, v, b)
      BY <1>11, <3>1, <3>3 DEF Upload, SameSession
    <3> QED
      BY <1>3, <1>6, <1>9, <3>1, <3>4 DEF Link, Finished
  <2>7. CASE ~Last(p)
    <3>1. y.firmware = 0 /\ y.net = "CONTINUE"
      <4>1. y.firmware = x.firmware /\ y.net = IF 0 \in Offsets THEN x.net ELSE "FAIL"
        BY <2>2, <2>7 DEF Put
      <4> QED
        BY <1>10, <1>11, <2>2, <4>1
    <3>2. FileLen[p.s] # 1
      BY <2>1, <2>7 DEF Last
    <3>3. Got(y) = 1 /\ 1 % SeqMod = 1
      BY <2>1, <2>3 DEF Got
    <3>4. ASSUME NEW i \in 1..Len(v), v[i].s = p.s PROVE v[i].kind = "DATA" /\ v[i].n = 1
      BY <1>7, <2>1, <3>4 DEF Opening
    <3>5. p.s = k.s => k.n = 1
      BY <1>4, <1>5, <1>8, <2>1 DEF Opening
    <3>6. ASSUME NEW j \in 1..Len(a) PROVE b[j] = a[j] /\ (a[j].s = p.s => a[j].n = 0)
      BY <1>5, <1>6, <2>1 DEF Opening, OneMore
    <3>7. ASSUME NEW j \in 1..Len(b), b[j].s = p.s PROVE b[j].n \in {0, 1}
      <4>1. CASE j \in 1..Len(a)
        BY <3>6, <3>7, <4>1
      <4>2. CASE j = Len(a) + 1
        BY <1>6, <4>2 DEF OneMore
      <4> QED
        BY <1>6, <4>1, <4>2 DEF OneMore
    <3>8. ASSUME NEW i \in 1..Len(b), NEW j \in 1..Len(b), i < j, b[i].s = p.s PROVE b[i].n = 0
      <4>1. i \in 1..Len(a)
        BY <1>6, <3>8 DEF OneMore
      <4> QED
        BY <3>6, <3>8, <4>1
    <3>9. Underway(y, k, v, b)
      <4>1. Got(y) \in 1..(FileLen[p.s] - 1) /\ y.last = Got(y) % SeqMod
        BY <1>5, <2>3, <3>2, <3>3
      <4>2. \A i \in 1..Len(v) :
               v[i].s = p.s => v[i].kind = "DATA" /\ v[i].n \in {Got(y), Got(y) + 1}
        BY <3>3, <3>4
      <4>3. p.s = k.s => k.n \in {Got(y), Got(y) + 1} /\ k.n = Got(y)
        BY <3>3, <3>5
      <4>4. \A j \in 1..Len(b) :
               b[j].s = p.s => b[j].n = Got(y) % SeqMod \/ (Got(y) = 1 /\ b[j].n = 0)
        BY <3>3, <3>7
      <4>5. \A i, j \in 1..Len(b) : i < j /\ b[i].s = p.s => Got(y) = 1 /\ b[i].n = 0
        BY <3>3, <3>8
      <4>6. Filled(y, p.s, Got(y))
        BY <2>5, <3>3
      <4> QED
        BY <4>1, <4>2, <4>3, <4>4, <4>5, <4>6 DEF Underway
    <3>10. Upload(y, k, v, b)
      BY <1>4, <1>11, <3>1, <3>9 DEF Upload, SameSession
    <3> QED
      BY <1>3, <1>6, <1>9, <3>1, <3>10 DEF Link, Finished
  <2> QED
    BY <2>6, <2>7
<1>12. CASE x.NmrpState # "TFTPUPLOADING"
  <2>1. y.firmware = 0 /\ y.NmrpState \notin {"TFTPUPLOADING", "FILEUPLOADING"}
    BY <1>10, <1>12 DEF Put, SameSession
  <2>2. Upload(y, k, v, b)
    BY <2>1 DEF Upload, SameSession
  <2> QED
    BY <1>3, <1>6, <1>9, <2>1, <2>2 DEF Link
<1> QED
  BY <1>11, <1>12

\* A block whose number differs from the last one's is the next block of an upload: it is
\* stored behind the others, wrapped or not, and keeps the link; when it is the last one the
\* upload is whole.
LEMMA NextLink ==
    ASSUME FilesFit, NEW x \in Device, NEW k \in Clients,
           NEW w \in Seq(Packets), NEW a \in Seq(Acks),
           w # <<>>, Link(x, k, w, a), NEW p, p = Head(w), p.kind = "DATA", NEW v, v = Tail(w),
           x.handler, x.tftp_start, x.tftp = "DATA", NEW n, n = p.n % SeqMod, n # x.last,
           x.net = "CONTINUE" \/ x.NmrpState = "INIT",
           NEW y \in Device, SameSession(x, y), y.tftp = "DATA", y.port = x.port,
           NEW wrap, wrap = (IF n = 0 THEN x.wrap + SeqMod ELSE x.wrap), Put(x, y, p, n, wrap)
    PROVE  /\ Link(y, k, v, a \o y.out)
           /\ Finished(y) => y.NmrpState \notin {"TFTPUPLOADING", "FILEUPLOADING"}
<1> DEFINE b == a \o <<[s |-> p.s, n |-> n]>>
<1>1. /\ p \in Packets /\ Link(x, k, v, a) /\ Leads(x, k, v, p)
      /\ Underway(x, k, w, a) /\ p.s = x.port => p.n \in {Got(x), Got(x) + 1}
      /\ Underway(x, k, w, a) => Underway(x, k, v, a)
  BY Front
<1>2. v \in Seq(Packets)
  BY Behind
<1>4. p.n \in Nat /\ p.s \in Nat /\ p.s # 0 /\ p.s \in Sessions /\ k.s \in Nat /\ k.n \in Nat
  BY <1>1, Numbers
<1>5. p.n \in 1..FileLen[p.s] /\ FileLen[p.s] \in Nat \ {0} /\ FileLen[p.s] <= Limit /\ p.s = x.port
  BY <1>1, <1>4, NmrpAssumption DEF Leads, FilesFit, Sessions
<1>3. a \o y.out = b
  BY <1>5 DEF Put
<1> HIDE DEF b
<1>6. n \in Nat /\ n <= p.n /\ n <= SeqMod - 1 /\ SeqMod \in Nat
  <2>1. PICK g \in Nat : g = p.n
    BY <1>4
  <2>2. g % SeqMod \in 0..(SeqMod - 1) /\ g % SeqMod <= g
    BY BlockNumber
  <2> QED
    BY <2>1, <2>2, NmrpAssumption
<1>7. Line(y, k, v, b) /\ OneMore(a, b, [s |-> p.s, n |-> n])
  <2>1. PICK e \in Acks : e = [s |-> p.s, n |-> n]
    BY <1>4, <1>6 DEF Acks
  <2>2. e.s = p.s /\ e.n <= p.n /\ b = a \o <<e>> /\ Line(x, k, v, a) /\ y.port = p.s
    BY <1>1, <1>5, <1>6, <2>1 DEF b, Link
  <2>3. Line(y, k, v, b) /\ OneMore(a, b, e)
    BY <1>1, <1>2, <2>2, AckLine
  <2> QED
    BY <2>1, <2>3
<1>8. Request1(y, k, v, b)
  <2>1. ~Asked(x, v) /\ (x.port = k.s => k.n >= 1)
    BY <1>1 DEF Link, Request1
  <2> QED
    BY <2>1 DEF Request1, Asked
<1>9. x.firmware = 0 /\ x.NmrpState # "FILEUPLOADING"
  BY DEF Link, Upload, Device
<1>10. CASE x.NmrpState = "TFTPUPLOADING"
  <2>1. Underway(x, k, v, a) /\ p.n \in {Got(x), Got(x) + 1}
    BY <1>1, <1>5, <1>9, <1>10 DEF Link, Upload
  <2>2. PICK g \in Nat : g = Got(x) /\ x.last = g % SeqMod /\ g = x.wrap + x.last
    BY <2>1 DEF Underway, Got
  <2>3. /\ g % SeqMod \in 0..(SeqMod - 1)
        /\ (g + 1) % SeqMod = IF (g % SeqMod) + 1 < SeqMod THEN (g % SeqMod) + 1 ELSE 0
    BY BlockNumber
  <2>4. p.n = g + 1
    BY <2>1, <2>2
  <2>5. n = (IF x.last + 1 < SeqMod THEN x.last + 1 ELSE 0) /\ x.last \in 0..(SeqMod - 1)
    BY <2>2, <2>3, <2>4
  <2>6. wrap + n = g + 1 /\ n - 1 + wrap = g /\ n + wrap = g + 1 /\ wrap \in Nat
    <3>1. x.wrap \in Nat
      BY DEF Device
    <3>2. PICK h \in Nat, l \in Nat : /\ h = x.wrap /\ l = x.last
      BY <2>5, <3>1
    <3>3. /\ g = h + l /\ l <= SeqMod - 1 /\ n = (IF l + 1 < SeqMod THEN l + 1 ELSE 0)
          /\ wrap = IF n = 0 THEN h + SeqMod ELSE h
      BY <2>2, <2>5, <3>2
    <3> QED
      BY ONLY <1>6, <3>3, g \in Nat, h \in Nat, l \in Nat
  <2>7. g \in Offsets
    BY <1>5, <2>4, NmrpAssumption DEF Offsets
  <2>8. Filled(x, p.s, g) /\ x.size = g
    BY <1>5, <2>1, <2>2 DEF Underway, Filled
  <2>9. y.mem = [x.mem EXCEPT ![g] = <<p.s, g + 1>>] /\ y.size = g + 1
    <3>1. IF g \in Offsets
          THEN /\ y.mem = [x.mem EXCEPT ![g] = <<p.s, p.n>>]
               /\ y.size = IF g + 1 > x.size THEN g + 1 ELSE x.size
          ELSE y.mem = x.mem /\ y.size = x.size
      BY <2>6 DEF Put
    <3> QED
      BY <2>4, <2>7, <2>8, <3>1
  <2>10. Filled(y, p.s, g + 1)
    <3>1. x.mem \in [Offsets -> Sessions \X Nat \cup {NoBlock}]
      BY DEF Device, Memory
    <3>2. ASSUME NEW i \in 0..(g + 1 - 1) PROVE y.mem[i] = <<p.s, i + 1>>
      <4>1. i \in Offsets
        BY <1>5, <2>4, NmrpAssumption DEF Offsets
      <4>2. CASE i = g
        BY <2>7, <2>9, <3>1, <4>2
      <4>3. CASE i # g
        <5>1. i \in 0..(g - 1)
          BY <4>3
        <5>2. x.mem[i] = <<p.s, i + 1>>
          BY <2>8, <5>1 DEF Filled
        <5> QED
          BY <2>9, <3>1, <4>1, <4>3, <5>2
      <4> QED
        BY <4>2, <4>3
    <3> QED
      BY <2>9, <3>2 DEF Filled
  <2>11. Got(y) = g + 1 /\ y.last = n
    BY <2>6 DEF Got, Put
  <2>12. CASE Last(p)
    <3>1. y.firmware = 1 /\ ~y.handler /\ y.net = "CONTINUE"
      BY <1>10, <2>12 DEF Put
    <3>2. FileLen[p.s] = g + 1
      BY <2>4, <2>12 DEF Last
    <3>3. Whole(y)
      BY <1>4, <2>10, <3>2 DEF Whole, Filled
    <3>4. Upload(y, k, v, b)
      BY <1>10, <3>1, <3>3 DEF Upload, SameSession
    <3> QED
      BY <1>3, <1>7, <1>8, <3>1, <3>4 DEF Link, Finished
  <2>13. CASE ~Last(p)
    <3>1. y.firmware = 0 /\ y.net = "CONTINUE"
      <4>1. y.firmware = x.firmware /\ y.net = IF g \in Offsets THEN x.net ELSE "FAIL"
        BY <2>6, <2>13 DEF Put
      <4> QED
        BY <1>9, <1>10, <2>7, <4>1
    <3>2. g + 1 \in 1..(FileLen[p.s] - 1)
      BY <1>5, <2>4, <2>13 DEF Last
    <3>3. ASSUME NEW i \in 1..Len(v), v[i].s = p.s PROVE v[i].kind = "DATA" /\ v[i].n = g + 1
      <4>1. v[i].kind = "DATA" /\ v[i].n \in {g, g + 1}
        BY <1>5, <2>1, <2>2, <3>3 DEF Underway
      <4>2. p.n <= v[i].n
        BY <1>1, <3>3 DEF Leads
      <4> QED
        BY <2>4, <4>1, <4>2
    <3>4. p.s = k.s => k.n = g + 1
      <4>1. p.s = k.s => k.n \in {g, g + 1} /\ p.n <= k.n
        BY <1>1, <1>5, <2>1, <2>2 DEF Underway, Leads
      <4> QED
        BY <2>4, <4>1
    <3>5. ASSUME NEW j \in 1..Len(a), a[j].s = p.s PROVE p.s # k.s
      <4>1. p.s = k.s => k.n = g
        BY <1>5, <2>1, <2>2, <3>5 DEF Underway
      <4> QED
        BY <3>4, <4>1
    <3>6. ASSUME NEW j \in 1..Len(b), b[j].s = p.s, p.s = k.s PROVE j = Len(a) + 1 /\ b[j].n = n
      <4>1. CASE j \in 1..Len(a)
        BY <1>7, <3>5, <3>6, <4>1 DEF OneMore
      <4>2. CASE j = Len(a) + 1
        BY <1>7, <4>2 DEF OneMore
      <4> QED
        BY <1>7, <4>1, <4>2 DEF OneMore
    <3>7. n = Got(y) % SeqMod
      BY <2>4, <2>11
    <3>8. Underway(y, k, v, b)
      <4>1. Got(y) \in 1..(FileLen[p.s] - 1) /\ y.last = Got(y) % SeqMod
        BY <2>11, <3>2, <3>7
      <4>2. \A i \in 1..Len(v) :
               v[i].s = p.s => v[i].kind = "DATA" /\ v[i].n \in {Got(y), Got(y) + 1}
        BY <2>11, <3>3
      <4>3. p.s = k.s => k.n \in {Got(y), Got(y) + 1} /\ k.n = Got(y)
        BY <2>11, <3>4
      <4>4. p.s = k.s => \A j \in 1..Len(b) : b[j].s = p.s => b[j].n = Got(y) % SeqMod
        BY <3>6, <3>7
      <4>5. p.s = k.s => \A i, j \in 1..Len(b) : ~(i < j /\ b[i].s = p.s /\ b[j].s = p.s)
        BY <1>7, <3>6 DEF OneMore
      <4>6. Filled(y, p.s, Got(y))
        BY <2>10, <2>11
      <4>7. y.port = p.s
        BY <1>5
      <4> QED
        BY <4>1, <4>2, <4>3, <4>4, <4>5, <4>6, <4>7 DEF Underway
    <3>9. Upload(y, k, v, b)
      BY <1>4, <1>5, <1>10, <3>1, <3>8 DEF Upload, SameSession
    <3> QED
      BY <1>3, <1>7, <1>8, <3>1, <3>9 DEF Link, Finished
  <2> QED
    BY <2>12, <2>13
<1>11. CASE x.NmrpState # "TFTPUPLOADING"
  <2>1. y.firmware = 0 /\ y.NmrpState \notin {"TFTPUPLOADING", "FILEUPLOADING"}
    BY <1>9, <1>11 DEF Put, SameSession
  <2>2. Upload(y, k, v, b)
    BY <2>1 DEF Upload, SameSession
  <2> QED
    BY <1>3, <1>7, <1>8, <2>1, <2>2 DEF Link
<1> QED
  BY <1>10, <1>11

\* A block that opens no transfer ends the server that was asked for one, and keeps the link:
\* it is never a block of an upload of NMRP.
LEMMA RestartLink ==
    ASSUME NEW x \in Device, NEW k \in Clients, NEW w \in Seq(Packets), NEW a \in Seq(Acks),
           w # <<>>, Link(x, k, w, a), NEW p, p = Head(w), p.kind = "DATA", NEW v, v = Tail(w),
           x.handler, x.tftp_start, x.tftp = "RECV_WRQ", p.n % SeqMod # 1,
           NEW y \in Device, SameSession(x, y), y.net = "FAIL", y.port = p.s,
           y.firmware = x.firmware, NEW z, z = Quiet(qdma_bm_receive_packets(y))
    PROVE  Link(z, k, v, a)
<1>1. /\ p \in Packets /\ Link(x, k, v, a) /\ Leads(x, k, v, p)
      /\ Opening(x, k, w, a) => p.n = 1
  <2>1. /\ p \in Packets /\ Link(x, k, v, a) /\ Leads(x, k, v, p)
    BY Front
  <2>2. ASSUME Opening(x, k, w, a) PROVE p.n = 1
    <3>1. 1 \in 1..Len(w) /\ p = w[1]
      BY Behind
    <3> QED
      BY <2>2, <3>1 DEF Opening
  <2> QED
    BY <2>1, <2>2
<1>2. Finished(y)
  BY DEF Finished, SameSession
<1>3. /\ z.port = x.port /\ z.NmrpState = x.NmrpState /\ z.firmware = x.firmware
      /\ ~z.tftp_start /\ z.size = 0
  BY <1>1, <1>2, EndView DEF Leads, SameSession
<1>4. x.firmware = 0 /\ x.NmrpState # "FILEUPLOADING"
  BY DEF Link, Upload, Device
<1>5. x.NmrpState # "TFTPUPLOADING"
  <2>1. 1 % SeqMod = 1
    BY BlockNumber
  <2> QED
    BY <1>1, <1>4, <2>1 DEF Link, Upload
<1>6. Line(z, k, v, a)
  BY <1>1, <1>3 DEF Link, Line
<1>7. Request1(z, k, v, a)
  BY <1>1, <1>3 DEF Link, Request1, Asked, Opening
<1>8. Upload(z, k, v, a)
  BY <1>3, <1>4, <1>5 DEF Upload
<1> QED
  BY <1>6, <1>7, <1>8 DEF Link
-----------------------------------------------------------------------------
(* A reception of an upload *)

\* The start of the server and the expired timer keep the link; and what FILEUPLOADING writes
\* is whole: the link says so of the state before, and neither of the two changes the buffer.
LEMMA ReadyLink ==
    ASSUME BasicInv, NEW p, NEW expired \in BOOLEAN, NEW k, NEW w, NEW a, Link(d, k, w, a),
           NEW y, y = Expired(ip_rcv_packet(d, p), expired)
    PROVE  /\ Link(y, k, w, a) /\ Ready(p, y) /\ y.out = <<>>
           /\ y.write => Whole(y) /\ ~y.handler
<1> DEFINE x == ip_rcv_packet(d, p)
<1>1. x \in Device /\ (y = x \/ Timed(x, y)) /\ Ready(p, y)
  BY ReadyView DEF BasicInv
<1>2. d \in Device /\ d.out = <<>> /\ ~d.write
  BY DEF BasicInv, TypeInv
<1>3. Link(x, k, w, a) /\ x.out = <<>> /\ x.write = d.write
  BY <1>2, StartLink, StartView DEF SameNmrp
<1> HIDE DEF x
<1>4. CASE y = x
  BY <1>1, <1>2, <1>3, <1>4
<1>5. CASE Timed(x, y)
  <2>1. Link(y, k, w, a)
    BY <1>1, <1>3, <1>5, TimedMoves, MovesLink
  <2>2. y.write => x.NmrpState = "FILEUPLOADING"
    BY <1>2, <1>3, <1>5 DEF Timed
  <2>3. x.NmrpState = "FILEUPLOADING" => Whole(x) /\ ~x.handler
    BY <1>3 DEF Link, Upload
  <2>4. SameTftp(x, y)
    BY <1>5 DEF Timed
  <2>5. Whole(x) => Whole(y)
    BY <2>4 DEF SameTftp, Whole
  <2> QED
    BY <1>1, <1>3, <2>1, <2>2, <2>3, <2>4, <2>5 DEF SameTftp
<1> QED
  BY <1>1, <1>4, <1>5

\* The reception of a packet of NMRP keeps the link, and writes whole files only.
LEMMA NmrpLink ==
    ASSUME BasicInv, NEW p \in Nmrps, NEW expired \in BOOLEAN, NEW k, NEW w, NEW a \in Seq(Acks),
           Link(d, k, w, a), NEW z, z = NetReceive(ip_rcv_packet(d, p), p, expired)
    PROVE  /\ Link(Quiet(qdma_bm_receive_packets(z)), k, w, a \o z.out)
           /\ z.write => Whole(z)
<1> DEFINE y == Expired(ip_rcv_packet(d, p), expired)
<1>1. z = NmrpReceive(y, p)
  BY DEF NetReceive, Expired, IsTftp, Nmrps
<1>2. /\ Link(y, k, w, a) /\ Ready(p, y) /\ y.out = <<>> /\ (y.write => Whole(y))
  BY ReadyLink
<1> HIDE DEF y
<1>3. y \in Device
  BY <1>2 DEF Ready
<1>4. Told(y, z)
  BY <1>1, <1>3, ReceiveView
<1>5. z \in Device /\ Link(z, k, w, a)
  <2>1. Moves(y, z)
    BY <1>3, <1>4, ToldMoves
  <2> QED
    BY <1>2, <1>4, <2>1, MovesLink DEF Told
<1>6. Finished(z) => z.NmrpState \notin {"TFTPUPLOADING", "FILEUPLOADING"}
  BY <1>2, <1>4 DEF Finished, Told, Ready
<1>7. a \o z.out = a
  <2>1. z.out = <<>>
    BY <1>2, <1>4 DEF Told, SameTftp
  <2> QED
    BY <2>1
<1>8. z.write => Whole(z)
  BY <1>2, <1>4 DEF Told, SameTftp, Whole
<1>9. Link(Quiet(qdma_bm_receive_packets(z)), k, w, a)
  BY <1>5, <1>6, EndLink
<1> QED
  BY <1>7, <1>8, <1>9

\* The reception of a packet of TFTP keeps the link, and writes whole files only.
LEMMA TftpLink ==
    ASSUME FilesFit, BasicInv, NEW expired \in BOOLEAN, NEW k \in Clients,
           NEW w \in Seq(Packets), NEW a \in Seq(Acks), w # <<>>, Link(d, k, w, a),
           NEW p, p = Head(w), NEW v, v = Tail(w),
           NEW z, z = NetReceive(ip_rcv_packet(d, p), p, expired)
    PROVE  /\ Link(Quiet(qdma_bm_receive_packets(z)), k, v, a \o z.out)
           /\ z.write => Whole(z)
<1> DEFINE y == Expired(ip_rcv_packet(d, p), expired)
           e == Quiet(qdma_bm_receive_packets(z))
<1>1. p \in Packets /\ IsTftp(p)
  <2>1. p \in Packets
    BY Behind
  <2> QED
    BY <2>1 DEF Packets, IsTftp
<1>2. z = TftpHandler(y, p)
  BY <1>1 DEF NetReceive, Expired
<1>3. /\ Link(y, k, w, a) /\ Ready(p, y) /\ y.out = <<>>
      /\ y.write => Whole(y) /\ ~y.handler
  BY ReadyLink
<1> HIDE DEF y
<1>4. /\ y \in Device /\ y.tftp_start /\ (y.net = "CONTINUE" \/ y.NmrpState = "INIT")
  BY <1>1, <1>3 DEF Ready
<1>5. \/ z = y /\ (~y.handler \/ (y.tftp = "DATA" /\ p.s # y.port))
      \/ /\ y.handler /\ ~(y.tftp = "DATA" /\ p.s # y.port)
         /\ \/ p.kind = "WRQ" /\ z = TftpWrq(y, p)
            \/ p.kind = "DATA" /\ z = TftpData(y, p)
  BY <1>1, <1>2, <1>4, HandlerView
<1>6. CASE z = y
  <2>1. a \o z.out = a
    BY <1>3, <1>6
  <2>2. Link(y, k, v, a)
    BY <1>3, TailLink
  <2>3. Finished(y) => y.NmrpState \notin {"TFTPUPLOADING", "FILEUPLOADING"}
    BY <1>4 DEF Finished
  <2> QED
    BY <1>3, <1>4, <1>6, <2>1, <2>2, <2>3, EndLink
<1>7. CASE /\ y.handler /\ ~(y.tftp = "DATA" /\ p.s # y.port)
           /\ p.kind = "WRQ" /\ z = TftpWrq(y, p)
  <2>1. Asks(y, z, p)
    BY <1>1, <1>4, <1>7, WrqView
  <2>2. Link(z, k, v, a \o z.out)
    BY <1>3, <1>4, <1>7, <2>1, WrqLink
  <2>3. z \in Device /\ (Finished(z) => z.NmrpState \notin {"TFTPUPLOADING", "FILEUPLOADING"})
    BY <1>4, <2>1 DEF Asks, Finished
  <2>4. ~z.write
    BY <1>3, <1>7, <2>1 DEF Asks
  <2> QED
    BY <2>2, <2>3, <2>4, EndLink
<1>8. CASE /\ y.handler /\ ~(y.tftp = "DATA" /\ p.s # y.port)
           /\ p.kind = "DATA" /\ z = TftpData(y, p)
  <2> DEFINE n == p.n % SeqMod
             wrap == IF n = 0 THEN y.wrap + SeqMod ELSE y.wrap
  <2>1. Brings(y, z, p, n)
    <3>1. y.port \in Sessions \/ y.tftp = "RECV_WRQ"
      BY <1>1, <1>4, <1>8 DEF Device, Packets
    <3> QED
      BY <1>1, <1>4, <1>8, <3>1, DataView
  <2>2. z \in Device /\ SameSession(y, z) /\ ~z.write
    BY <1>3, <1>8, <2>1 DEF Brings, SameSession
  <2>3. CASE /\ y.tftp = "RECV_WRQ" /\ n # 1 /\ z.net = "FAIL" /\ z.port = p.s
             /\ z.firmware = y.firmware /\ z.out = y.out
    <3>1. a \o z.out = a
      BY <1>3, <2>3
    <3>2. Link(e, k, v, a)
      BY <1>3, <1>4, <1>8, <2>2, <2>3, RestartLink
    <3> QED
      BY <2>2, <3>1, <3>2
  <2>4. CASE /\ y.tftp = "RECV_WRQ" /\ n = 1 /\ z.tftp = "DATA" /\ z.port = p.s
             /\ Put(y, z, p, 1, 0)
    <3>1. /\ Link(z, k, v, a \o z.out)
          /\ Finished(z) => z.NmrpState \notin {"TFTPUPLOADING", "FILEUPLOADING"}
      BY <1>3, <1>4, <1>8, <2>2, <2>4, FirstLink
    <3> QED
      BY <2>2, <3>1, EndLink
  <2>5. CASE /\ y.tftp = "DATA" /\ n # y.last /\ z.tftp = "DATA" /\ z.port = y.port
             /\ Put(y, z, p, n, wrap)
    <3>1. /\ Link(z, k, v, a \o z.out)
          /\ Finished(z) => z.NmrpState \notin {"TFTPUPLOADING", "FILEUPLOADING"}
      BY <1>3, <1>4, <1>8, <2>2, <2>5, NextLink
    <3> QED
      BY <2>2, <3>1, EndLink
  <2> QED
    BY <1>6, <2>1, <2>3, <2>4, <2>5 DEF Brings
<1> QED
  BY <1>5, <1>6, <1>7, <1>8
-----------------------------------------------------------------------------
(* Steps of the client *)

\* Packet q may follow the packets w: it is of the newest file and not of an earlier block.
Follows(x, k, w, q) ==
    /\ x.port <= q.s /\ q.s <= k.s
    /\ q.kind = "WRQ" => q.n = 0
    /\ q.kind = "DATA" => q.n \in 1..FileLen[q.s] /\ q.s = x.port
    /\ q.s = k.s => q.n <= k.n
    /\ \A i \in 1..Len(w) : w[i].s <= q.s /\ (w[i].s = q.s => w[i].n <= q.n)

\* What the client sends behind the others keeps the order on the wire.
LEMMA SentLine ==
    ASSUME NEW x, NEW k, NEW w \in Seq(Packets), NEW a, NEW q \in Packets,
           Line(x, k, w, a), Follows(x, k, w, q), NEW v, v = Append(w, q)
    PROVE  Line(x, k, v, a) /\ OneMore(w, v, q)
<1>1. OneMore(w, v, q)
  BY Added DEF OneMore
<1>2. ASSUME NEW i \in 1..Len(v)
      PROVE  /\ x.port <= v[i].s /\ v[i].s <= k.s
             /\ v[i].kind = "WRQ" => v[i].n = 0
             /\ v[i].kind = "DATA" => v[i].n \in 1..FileLen[v[i].s] /\ v[i].s = x.port
             /\ v[i].s = k.s => v[i].n <= k.n
  <2>1. CASE i \in 1..Len(w)
    <3>1. v[i] = w[i]
      BY <1>1, <2>1 DEF OneMore
    <3> QED
      BY <2>1, <3>1 DEF Line
  <2>2. CASE i = Len(w) + 1
    <3>1. v[i] = q
      BY <1>1, <2>2 DEF OneMore
    <3> QED
      BY <3>1 DEF Follows
  <2> QED
    BY <1>1, <1>2, <2>1, <2>2 DEF OneMore
<1>3. ASSUME NEW i \in 1..Len(v), NEW j \in 1..Len(v), i < j
      PROVE  v[i].s <= v[j].s /\ (v[i].s = v[j].s => v[i].n <= v[j].n)
  <2>1. i \in 1..Len(w) /\ v[i] = w[i]
    BY <1>1, <1>3 DEF OneMore
  <2>2. CASE j \in 1..Len(w)
    <3>1. v[j] = w[j]
      BY <1>1, <2>2 DEF OneMore
    <3> QED
      BY <1>3, <2>1, <2>2, <3>1 DEF Line
  <2>3. CASE j = Len(w) + 1
    <3>1. v[j] = q
      BY <1>1, <2>3 DEF OneMore
    <3> QED
      BY <2>1, <3>1 DEF Follows
  <2> QED
    BY <1>1, <1>3, <2>2, <2>3 DEF OneMore
<1>4. Line(x, k, v, a)
  BY <1>2, <1>3 DEF Line
<1> QED
  BY <1>1, <1>4

\* The request for the next file keeps the link, even when the last one is not finished.
LEMMA StartsLink ==
    ASSUME NEW x \in Device, NEW k \in Clients, NEW w \in Seq(Packets), NEW a \in Seq(Acks),
           Link(x, k, w, a), NEW m \in Clients, m.s = k.s + 1, m.s \in Sessions, m.does = "wrq",
           m.n = 0, NEW q \in Packets, q.kind = "WRQ", q.s = m.s, q.n = 0,
           NEW v, v = Append(w, q)
    PROVE  Link(x, m, v, a)
<1>1. k.s \in Nat /\ x.port \in Nat /\ x.port <= k.s /\ x.port # m.s
  BY Numbers DEF Link, Line
<1>2. ASSUME NEW i \in 1..Len(w) PROVE w[i].s \in Nat /\ w[i].s <= k.s
  <2>1. w[i] \in Packets
    OBVIOUS
  <2> QED
    BY <2>1, Numbers DEF Link, Line
<1>3. ASSUME NEW j \in 1..Len(a) PROVE a[j].s \in Nat /\ a[j].s <= x.port
  <2>1. a[j] \in Acks
    OBVIOUS
  <2> QED
    BY <2>1, Numbers DEF Link, Line
<1>4. Line(x, m, w, a)
  <2>1. FileLen[m.s] \in Nat
    BY NmrpAssumption DEF Sessions
  <2>2. ASSUME NEW i \in 1..Len(w) PROVE w[i].s <= m.s /\ w[i].s # m.s
    BY <1>1, <1>2
  <2>3. ASSUME NEW j \in 1..Len(a) PROVE a[j].s # m.s
    BY <1>1, <1>3
  <2>4. x.port <= m.s /\ m.s # 0
    BY <1>1
  <2>5. ~(m.n > 0) /\ m.n <= FileLen[m.s]
    BY <2>1
  <2> QED
    BY <2>2, <2>3, <2>4, <2>5 DEF Link, Line
<1>5. Follows(x, m, w, q)
  BY <1>1, <1>2 DEF Follows
<1>6. Line(x, m, v, a) /\ OneMore(w, v, q)
  BY <1>4, <1>5, SentLine
<1>7. Opening(x, k, w, a) => Opening(x, m, v, a)
  BY <1>1, <1>6 DEF Opening, OneMore
<1>8. Asked(x, v) => Asked(x, w)
  BY <1>1, <1>6 DEF Asked, OneMore
<1>9. Request1(x, m, v, a)
  BY <1>1, <1>7, <1>8 DEF Link, Request1
<1>10. Underway(x, k, w, a) => Underway(x, m, v, a)
  BY <1>1, <1>6 DEF Underway, OneMore
<1>11. Upload(x, m, v, a)
  BY <1>7, <1>10 DEF Link, Upload
<1> QED
  BY <1>6, <1>9, <1>11 DEF Link

\* A packet that the client repeats keeps the link.
LEMMA TimeoutLink ==
    ASSUME NEW x \in Device, NEW k \in Clients, NEW w \in Seq(Packets), NEW a \in Seq(Acks),
           Link(x, k, w, a), k.does \in {"wrq", "data"}, k.s \in Sessions, NEW q \in Packets,
           q.kind = (IF k.does = "wrq" THEN "WRQ" ELSE "DATA"), q.s = k.s, q.n = k.n,
           NEW v, v = Append(w, q)
    PROVE  Link(x, k, v, a)
<1>1. /\ k.s \in Nat /\ k.s # 0 /\ k.n \in Nat /\ x.port \in Nat
      /\ x.port <= k.s /\ k.n <= FileLen[k.s]
  <2>1. k.s # 0
    BY Numbers
  <2> QED
    BY <2>1, Numbers DEF Link, Line
<1>2. (k.n = 0 <=> q.kind = "WRQ") /\ (q.kind = "DATA" => k.n > 0 /\ x.port = k.s)
  BY <1>1 DEF Link, Line
<1>3. Follows(x, k, w, q)
  <2>1. \A i \in 1..Len(w) : w[i].s <= k.s /\ (w[i].s = k.s => w[i].n <= k.n)
    BY DEF Link, Line
  <2>2. FileLen[k.s] \in Nat
    BY NmrpAssumption DEF Sessions
  <2> QED
    BY <1>1, <1>2, <2>1, <2>2 DEF Follows
<1>4. Line(x, k, v, a) /\ OneMore(w, v, q)
  BY <1>3, SentLine DEF Link
<1>5. Opening(x, k, w, a) => Opening(x, k, v, a)
  BY <1>1, <1>2, <1>4 DEF Opening, OneMore
<1>6. q.kind = "WRQ" /\ x.port = k.s => Opening(x, k, v, a) /\ ~(x.tftp_start /\ x.tftp = "DATA")
  <2> SUFFICES ASSUME q.kind = "WRQ", x.port = k.s
               PROVE  Opening(x, k, v, a) /\ ~(x.tftp_start /\ x.tftp = "DATA")
    OBVIOUS
  <2>1. k.n = 0
    BY <1>2
  <2>2. ASSUME NEW i \in 1..Len(w) PROVE w[i].kind # "DATA"
    BY <1>1, <2>1 DEF Link, Line
  <2>3. ASSUME NEW j \in 1..Len(a), a[j].s = x.port PROVE a[j].n = 0
    <3>1. a[j] \in Acks
      OBVIOUS
    <3>2. a[j].n \in Nat /\ a[j].n <= k.n
      BY <2>3, <3>1, Numbers DEF Link, Line
    <3> QED
      BY <2>1, <3>2
  <2>4. ASSUME NEW i \in 1..Len(v) PROVE v[i].kind # "DATA"
    BY <1>4, <2>2 DEF OneMore
  <2>5. Opening(x, k, v, a)
    BY <2>1, <2>3, <2>4 DEF Opening
  <2>6. ~(x.tftp_start /\ x.tftp = "DATA")
    BY <2>1 DEF Link, Request1
  <2> QED
    BY <2>5, <2>6
<1>7. Asked(x, v) => Asked(x, w) \/ (q.kind = "WRQ" /\ x.port = k.s)
  BY <1>4 DEF Asked, OneMore
<1>8. Request1(x, k, v, a)
  BY <1>5, <1>6, <1>7 DEF Link, Request1
<1>9. Underway(x, k, w, a) => Underway(x, k, v, a)
  <2> SUFFICES ASSUME Underway(x, k, w, a) PROVE Underway(x, k, v, a)
    OBVIOUS
  <2>1. q.s = x.port => q.kind = "DATA" /\ q.n \in {Got(x), Got(x) + 1}
    BY <1>1, <1>2 DEF Underway
  <2> QED
    BY <1>4, <2>1 DEF Underway, OneMore
<1>10. Upload(x, k, v, a)
  BY <1>5, <1>9 DEF Link, Upload
<1> QED
  BY <1>4, <1>8, <1>10 DEF Link

\* The block a client sends after an acknowledgement keeps the link: the acknowledgement is of
\* the block the device took last, and no other one is behind it.
LEMMA ReadsLink ==
    ASSUME NEW x \in Device, NEW k \in Clients, NEW w \in Seq(Packets), NEW a \in Seq(Acks),
           a # <<>>, Link(x, k, w, a), k.s \in Sessions, k.n < FileLen[k.s],
           Head(a).s = k.s, Head(a).n = k.n % SeqMod,
           NEW m \in Clients, m.s = k.s, m.does = "data", m.n = k.n + 1,
           NEW q \in Packets, q.kind = "DATA", q.s = k.s, q.n = k.n + 1,
           NEW v, v = Append(w, q), NEW b, b = Tail(a)
    PROVE  Link(x, m, v, b)
<1>1. /\ 1 \in 1..Len(a) /\ Head(a) = a[1]
      /\ \A j \in 1..Len(b) : /\ j + 1 \in 1..Len(a) /\ b[j] = a[j + 1] /\ j \in Nat
                              /\ 1 < j + 1
  BY Behind
<1>2. /\ k.s \in Nat /\ k.s # 0 /\ k.n \in Nat /\ x.port \in Nat /\ FileLen[k.s] \in Nat
  BY Numbers, NmrpAssumption DEF Sessions
<1>3. x.port = k.s
  BY <1>1, <1>2 DEF Link, Line
<1>4. Line(x, m, w, a)
  <2>1. ASSUME NEW i \in 1..Len(w), w[i].s = m.s PROVE w[i].n <= m.n
    <3>1. w[i] \in Packets
      OBVIOUS
    <3>2. w[i].n \in Nat /\ w[i].n <= k.n
      BY <2>1, <3>1, Numbers DEF Link, Line
    <3> QED
      BY <1>2, <3>2
  <2>2. ASSUME NEW j \in 1..Len(a), a[j].s = m.s PROVE a[j].n <= m.n
    <3>1. a[j] \in Acks
      OBVIOUS
    <3>2. a[j].n \in Nat /\ a[j].n <= k.n
      BY <2>2, <3>1, Numbers DEF Link, Line
    <3> QED
      BY <1>2, <3>2
  <2>3. m.n <= FileLen[m.s] /\ m.n # 0
    BY <1>2
  <2> QED
    BY <1>2, <1>3, <2>1, <2>2, <2>3 DEF Link, Line
<1>5. Follows(x, m, w, q)
  <2>1. ASSUME NEW i \in 1..Len(w) PROVE w[i].s <= k.s /\ (w[i].s = k.s => w[i].n <= q.n)
    <3>1. w[i].s <= k.s /\ (w[i].s = m.s => w[i].n <= m.n)
      BY <1>4 DEF Line
    <3> QED
      BY <3>1
  <2>2. q.n \in 1..FileLen[q.s]
    BY <1>2
  <2> QED
    BY <1>2, <1>3, <2>1, <2>2 DEF Follows
<1>6. Line(x, m, v, a) /\ OneMore(w, v, q)
  BY <1>4, <1>5, SentLine
<1>7. Line(x, m, v, b)
  BY <1>1, <1>6 DEF Line
<1>8. Opening(x, k, w, a) => Opening(x, m, v, b)
  <2> SUFFICES ASSUME Opening(x, k, w, a) PROVE Opening(x, m, v, b)
    OBVIOUS
  <2>1. k.n <= 1 /\ k.n % SeqMod = 0
    BY <1>1, <1>3 DEF Opening
  <2>2. k.n = 0
    <3>1. 1 % SeqMod = 1 /\ k.n \in Nat
      BY <1>2, BlockNumber
    <3>2. k.n # 1
      BY <2>1, <3>1
    <3> QED
      BY <2>1, <3>1, <3>2
  <2>3. m.n = 1 /\ q.n = 1
    BY <2>2
  <2>4. \A j \in 1..Len(b) : b[j].s = x.port => b[j].n = 0
    BY <1>1 DEF Opening
  <2>5. \A i \in 1..Len(v) : v[i].kind = "DATA" => v[i].n = 1
    BY <1>6, <2>3 DEF Opening, OneMore
  <2> QED
    BY <2>3, <2>4, <2>5 DEF Opening
<1>9. Asked(x, v) => Asked(x, w)
  BY <1>6 DEF Asked, OneMore
<1>10. Request1(x, m, v, b)
  BY <1>2, <1>8, <1>9 DEF Link, Request1
<1>11. Underway(x, k, w, a) => Underway(x, m, v, b)
  <2> SUFFICES ASSUME Underway(x, k, w, a) PROVE Underway(x, m, v, b)
    OBVIOUS
  <2>1. k.n = Got(x)
    BY <1>1, <1>3 DEF Underway
  <2>2. a[1].n # 0 \/ Got(x) # 1
    <3>1. 1 % SeqMod = 1
      BY BlockNumber
    <3>2. ASSUME Got(x) = 1 PROVE a[1].n = 1
      <4>1. k.n = 1
        BY <2>1, <3>2
      <4>2. a[1].n = k.n % SeqMod
        BY <1>3
      <4> QED
        BY <3>1, <4>1, <4>2
    <3> QED
      BY <3>2
  <2>3. ASSUME NEW j \in 1..Len(b) PROVE b[j].s # x.port
    BY <1>1, <1>3, <2>2 DEF Underway
  <2>4. \A i \in 1..Len(v) :
           v[i].s = x.port => v[i].kind = "DATA" /\ v[i].n \in {Got(x), Got(x) + 1}
    BY <1>6, <2>1 DEF Underway, OneMore
  <2> QED
    BY <2>1, <2>3, <2>4 DEF Underway
<1>12. Upload(x, m, v, b)
  BY <1>8, <1>11 DEF Link, Upload
<1> QED
  BY <1>7, <1>10, <1>12 DEF Link

\* A client that has its last acknowledgement keeps the link.
LEMMA DoneLink ==
    ASSUME NEW x, NEW k \in Clients, NEW w, NEW a, Link(x, k, w, a), k.does = "data",
           NEW m, m = [k EXCEPT !.does = "done"]
    PROVE  Link(x, m, w, a)
<1>1. m.s = k.s /\ m.n = k.n /\ m.does = "done"
  BY DEF Clients
<1>2. Line(x, m, w, a)
  BY <1>1 DEF Link, Line
<1>3. Opening(x, k, w, a) => Opening(x, m, w, a)
  BY <1>1 DEF Opening
<1>4. Request1(x, m, w, a)
  BY <1>1, <1>3 DEF Link, Request1
<1>5. Underway(x, k, w, a) => Underway(x, m, w, a)
  BY <1>1 DEF Underway
<1>6. Upload(x, m, w, a)
  BY <1>3, <1>5 DEF Link, Upload
<1> QED
  BY <1>2, <1>4, <1>6 DEF Link

\* The upload, the client and the network between them.
LinkInv == Link(d, c, wire, acks)

\* The steps of the client, the network and the boot delay keep the link.
LEMMA ClientLink ==
    ASSUME BasicInv, LinkInv,
           ClientStarts \/ ClientTimeout \/ ClientReads \/ Lose \/ abortboot_normal
    PROVE  LinkInv'
<1>1. /\ d \in Device /\ c \in Clients /\ wire \in Seq(Packets) /\ acks \in Seq(Acks)
      /\ c.does # "idle" => c.s \in Sessions
      /\ Link(d, c, wire, acks)
  BY DEF BasicInv, TypeInv, LinkInv
<1>2. d' = d
  BY DEF ClientStarts, ClientTimeout, ClientReads, Lose, abortboot_normal
<1>3. c.s \in Nat /\ c.n \in Nat /\ Len(FileLen) \in Nat
  BY <1>1, Numbers, NmrpAssumption
<1>4. CASE ClientStarts
  <2>1. c.s + 1 \in Sessions
    BY <1>3, <1>4 DEF ClientStarts, Sessions
  <2>2. /\ c' = [s |-> c.s + 1, does |-> "wrq", n |-> 0]
        /\ wire' = Append(wire, Current') /\ acks' = acks
    BY <1>4 DEF ClientStarts
  <2>3. c' \in Clients /\ c'.s = c.s + 1 /\ c'.does = "wrq" /\ c'.n = 0
    BY <2>1, <2>2 DEF Clients
  <2>4. Current' \in Packets /\ Current'.kind = "WRQ" /\ Current'.s = c'.s /\ Current'.n = 0
    BY <2>1, <2>3 DEF Current, Packets
  <2>5. Link(d, c', wire', acks)
    BY <1>1, <2>1, <2>2, <2>3, <2>4, StartsLink
  <2> QED
    BY <1>2, <2>2, <2>5 DEF LinkInv
<1>5. CASE ClientTimeout
  <2>1. /\ c.does \in {"wrq", "data"} /\ c.s \in Sessions /\ wire' = Append(wire, Current)
        /\ acks' = acks /\ c' = c
    BY <1>1, <1>5 DEF ClientTimeout
  <2>2. /\ Current \in Packets /\ Current.s = c.s /\ Current.n = c.n
        /\ Current.kind = IF c.does = "wrq" THEN "WRQ" ELSE "DATA"
    BY <1>3, <2>1 DEF Current, Packets
  <2>3. Link(d, c, wire', acks)
    BY <1>1, <2>1, <2>2, TimeoutLink
  <2> QED
    BY <1>2, <2>1, <2>3 DEF LinkInv
<1>6. CASE ClientReads
  <2>1. acks # <<>> /\ acks' = Tail(acks)
    BY <1>6 DEF ClientReads
  <2>2. Link(d, c, wire, acks')
    BY <1>1, <2>1, TailAcks
  <2>3. CASE UNCHANGED <<c, wire>>
    BY <1>2, <2>2, <2>3 DEF LinkInv
  <2>4. CASE /\ c.does \in {"wrq", "data"} /\ c.n = FileLen[c.s]
             /\ c' = [c EXCEPT !.does = "done"] /\ UNCHANGED wire
    <3>1. c.s \in Sessions /\ FileLen[c.s] # 0 /\ c.s # 0
      BY <1>1, <2>4, NmrpAssumption DEF Sessions
    <3>2. c.does = "data"
      BY <1>1, <2>4, <3>1 DEF Link, Line
    <3> QED
      BY <1>1, <1>2, <2>2, <2>4, <3>2, DoneLink DEF LinkInv
  <2>5. CASE /\ c.does \in {"wrq", "data"} /\ Head(acks) = [s |-> c.s, n |-> c.n % SeqMod]
             /\ c.n < FileLen[c.s] /\ c' = [c EXCEPT !.does = "data", !.n = @ + 1]
             /\ wire' = Append(wire, Current')
    <3>1. PICK m \in Nat : m = c.n + 1
      BY <1>3
    <3>2. c' \in Clients /\ c'.s = c.s /\ c'.does = "data" /\ c'.n = m
      <4>1. c' = [c EXCEPT !.does = "data", !.n = m]
        BY <2>5, <3>1
      <4> QED
        BY <1>1, <4>1 DEF Clients
    <3>3. c.s \in Sessions
      BY <1>1, <2>5
    <3>4. Current' \in Packets /\ Current'.kind = "DATA" /\ Current'.s = c.s /\ Current'.n = m
      BY <3>2, <3>3 DEF Current, Packets
    <3>5. Head(acks).s = c.s /\ Head(acks).n = c.n % SeqMod
      BY <2>5
    <3>6. Link(d, c', wire', acks')
      BY <1>1, <2>1, <2>5, <3>1, <3>2, <3>3, <3>4, <3>5, ReadsLink
    <3> QED
      BY <1>2, <3>6 DEF LinkInv
  <2> QED
    BY <1>6, <2>3, <2>4, <2>5 DEF ClientReads
<1>7. CASE Lose
  <2>1. c' = c
    BY <1>7 DEF Lose
  <2>2. CASE wire # <<>> /\ wire' = Tail(wire) /\ UNCHANGED acks
    BY <1>1, <1>2, <2>1, <2>2, TailLink DEF LinkInv
  <2>3. CASE acks # <<>> /\ acks' = Tail(acks) /\ UNCHANGED wire
    BY <1>1, <1>2, <2>1, <2>3, TailAcks DEF LinkInv
  <2> QED
    BY <1>7, <2>2, <2>3 DEF Lose
<1>8. CASE abortboot_normal
  BY <1>1, <1>8 DEF abortboot_normal, LinkInv
<1> QED
  BY <1>4, <1>5, <1>6, <1>7, <1>8

-----------------------------------------------------------------------------
(* The theorem about the upload *)

\* The invariant behind WriteWhole.
UploadInv == BasicInv /\ LinkInv /\ WriteWhole

\* The invariant holds after NmrpStart.
LEMMA UploadInit == Init => UploadInv
<1> SUFFICES ASSUME Init PROVE LinkInv /\ WriteWhole
  BY BasicInit DEF UploadInv
<1>1. /\ d.NmrpState = "LISTENING" /\ d.firmware = 0 /\ ~d.tftp_start /\ d.port = 0 /\ d.size = 0
      /\ c.s = 0 /\ c.n = 0 /\ c.does = "idle" /\ Len(wire) = 0 /\ Len(acks) = 0
  BY DEF Init
<1>2. Line(d, c, wire, acks)
  BY <1>1 DEF Line
<1>3. Request1(d, c, wire, acks)
  BY <1>1 DEF Request1, Asked
<1>4. Upload(d, c, wire, acks)
  BY <1>1 DEF Upload
<1> QED
  BY <1>2, <1>3, <1>4 DEF Init, LinkInv, Link, WriteWhole

\* Every step keeps the invariant, when all the files fit.
LEMMA UploadStep ==
    ASSUME FilesFit
    PROVE  UploadInv /\ [Next]_vars => UploadInv'
<1> SUFFICES ASSUME UploadInv, [Next]_vars PROVE LinkInv' /\ WriteWhole'
  BY BasicStep DEF UploadInv
<1>1. /\ BasicInv /\ Link(d, c, wire, acks) /\ handed # "broken"
      /\ c \in Clients /\ wire \in Seq(Packets) /\ acks \in Seq(Acks)
  BY DEF UploadInv, BasicInv, TypeInv, LinkInv, WriteWhole
<1>2. ASSUME NEW p \in Nmrps, NEW expired \in BOOLEAN, ReceiveNmrp(p, expired)
      PROVE  LinkInv' /\ WriteWhole'
  <2> DEFINE z == NetReceive(ip_rcv_packet(d, p), p, expired)
  <2>1. /\ Link(Quiet(qdma_bm_receive_packets(z)), c, wire, acks \o z.out)
        /\ z.write => Whole(z)
    BY <1>1, NmrpLink
  <2>2. /\ d' = Quiet(qdma_bm_receive_packets(z)) /\ acks' = acks \o z.out
        /\ handed' = (IF ~z.write THEN handed ELSE IF Whole(z) THEN "whole" ELSE "broken")
        /\ c' = c /\ wire' = wire
    BY <1>2 DEF ReceiveNmrp, Receive
  <2> HIDE DEF z
  <2> QED
    BY <1>1, <2>1, <2>2 DEF LinkInv, WriteWhole
<1>3. ASSUME NEW expired \in BOOLEAN, ReceiveTftp(expired)
      PROVE  LinkInv' /\ WriteWhole'
  <2> DEFINE p == Head(wire)
             z == NetReceive(ip_rcv_packet(d, p), p, expired)
  <2>1. /\ Link(Quiet(qdma_bm_receive_packets(z)), c, Tail(wire), acks \o z.out)
        /\ z.write => Whole(z)
    BY <1>1, <1>3, TftpLink DEF ReceiveTftp
  <2>2. /\ d' = Quiet(qdma_bm_receive_packets(z)) /\ acks' = acks \o z.out
        /\ handed' = (IF ~z.write THEN handed ELSE IF Whole(z) THEN "whole" ELSE "broken")
        /\ c' = c /\ wire' = Tail(wire)
    BY <1>3 DEF ReceiveTftp, Receive
  <2> HIDE DEF z
  <2> QED
    BY <1>1, <2>1, <2>2 DEF LinkInv, WriteWhole
<1>4. ASSUME ClientStarts \/ ClientTimeout \/ ClientReads \/ Lose \/ abortboot_normal
      PROVE  LinkInv' /\ WriteWhole'
  <2>1. handed' = handed
    BY <1>4 DEF ClientStarts, ClientTimeout, ClientReads, Lose, abortboot_normal
  <2>2. LinkInv'
    BY <1>1, <1>4, ClientLink DEF LinkInv
  <2> QED
    BY <1>1, <2>1, <2>2 DEF WriteWhole
<1>5. CASE UNCHANGED vars
  BY <1>1, <1>5 DEF vars, LinkInv, WriteWhole
<1> QED
  BY <1>2, <1>3, <1>4, <1>5 DEF Next

\* What FILEUPLOADING hands to writeimg is one file of the client's, whole and in order,
\* whatever is lost or repeated, whenever the timer of NMRP expires, and although the numbers
\* of the blocks wrap: for any number of files that fit, of any length, and any limits
\* (WriteWhole).
THEOREM WrittenWhole == FilesFit => (Spec => []WriteWhole)
<1> SUFFICES ASSUME FilesFit PROVE Spec => []WriteWhole
  OBVIOUS
<1>1. UploadInv /\ [Next]_vars => UploadInv'
  BY UploadStep
<1>2. UploadInv => WriteWhole
  BY DEF UploadInv
<1> QED
  BY <1>1, <1>2, UploadInit, PTL DEF Spec
=============================================================================
