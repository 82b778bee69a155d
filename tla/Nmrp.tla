-------------------------------- MODULE Nmrp --------------------------------
(***************************************************************************)
(* The upgrades over the network that U-Boot takes in the interrupt of the *)
(* Ethernet controller: the state machine of NMRP (net/nmrp.c), the TFTP   *)
(* server it uses, which also works without it (net/tftp.c), and the loop  *)
(* that receives packets (ecnt_eth.c, net.c).                              *)
(*                                                                         *)
(* Everything happens while a packet is received, the expired timer of     *)
(* NMRP included: Receive is the whole of one reception.  The device is a  *)
(* record d, and what one function of the code does is an operator from    *)
(* one record to the next.  timeHandler, the timer of TFTP, is polled by   *)
(* NetLoop only, which is not running here: TftpTimeout, and the value 2   *)
(* it gives nmrptftp_firmware, do not occur.                               *)
(***************************************************************************)
EXTENDS Integers, Sequences

CONSTANTS
    FileLen,     \* the files the user sends, one after the other: their blocks
    SeqMod,      \* TFTP_SEQUENCE_SIZE, the values of a block number
    Limit,       \* blocks from load_addr to tftp_limit
    ReqLimit,    \* requests sent in CONFIGING and in TFTPWAITING (5)
    CloseLimit,  \* close requests (12)
    MaxWire,     \* bound: packets and acknowledgements under way when one is repeated
    MaxLost      \* bound: packets lost

ASSUME NmrpAssumption ==
    /\ FileLen \in Seq(Nat \ {0}) /\ SeqMod \in Nat /\ SeqMod >= 3 /\ Limit \in Nat
    /\ ReqLimit \in Nat /\ CloseLimit \in Nat
    /\ MaxWire \in Nat \ {0} /\ MaxLost \in Nat

VARIABLES
    main,    \* the thread that is interrupted: "delay", "console" or "linux"
    d,       \* the device
    c,       \* the client: the file, what it does, the block it sent last
    wire,    \* TFTP packets on their way to the device
    acks,    \* acknowledgements on their way to the client
    lost,
    \* what happened, for the properties
    handed,  \* what writeimg was given: nothing, a whole file, something else
    early,   \* how often ecnt_ImageUpgrade ran before the last block came (up to 2)
    saves    \* how often Nmrp_done saved the environment (up to 2)

vars == <<main, d, c, wire, acks, lost, handed, early, saves>>

Sessions == 1..Len(FileLen)
NoBlock == <<0, 0>>
Offsets == 0..(Limit - 1)       \* of the buffer, in blocks

\* The buffer holds file s and nothing else.
Whole(x) == \E s \in Sessions : /\ x.size = FileLen[s]
                                /\ \A i \in 0..(FileLen[s] - 1) : x.mem[i] = <<s, i + 1>>

-----------------------------------------------------------------------------
(* net/nmrp.c *)

Nmrp_setState(x, st) == [x EXCEPT !.NmrpState = st,
                                  !.req_times = IF st = x.NmrpState THEN @ ELSE 0]

Armed(x) == [x EXCEPT !.timer = TRUE]

\* Mutant: whatever the state.
Nmrp_doneMutant(x) == [Nmrp_setState(x, "CLOSED") EXCEPT !.timer = FALSE, !.net = "CONTINUE",
                                                         !.save = TRUE]

Nmrp_done(x) ==
    IF x.NmrpState = "CLOSING"
    THEN [Nmrp_setState(x, "CLOSED") EXCEPT !.timer = FALSE, !.net = "CONTINUE", !.save = TRUE]
    ELSE x

\* Mutant: the timer is set by the first request only.
ClosingMutant(x) ==
    IF x.req_times < CloseLimit THEN [x EXCEPT !.req_times = @ + 1] ELSE Nmrp_done(x)

\* The close request is sent again, and then the session is over.
Closing(x) ==
    IF x.req_times < CloseLimit THEN Armed([x EXCEPT !.req_times = @ + 1]) ELSE Nmrp_done(x)

\* Mutant: the next state listens for ever.
ListeningMutant(x) ==
    IF x.has THEN [Nmrp_setState(x, "INIT") EXCEPT !.net = "CONTINUE"]
             ELSE Armed([x EXCEPT !.net = "SUCCESS"])

\* The listening is over: net_state says so to whoever looks at it.
ListenTimeout(x) ==
    IF x.has THEN [Nmrp_setState(x, "INIT") EXCEPT !.net = "CONTINUE"]
             ELSE [Nmrp_setState(x, "INIT") EXCEPT !.net = "SUCCESS"]

\* A request is sent again, or given up for the state before.
Request(x, before) ==
    LET y == Armed([x EXCEPT !.net = "CONTINUE"])
    IN  IF x.req_times < ReqLimit THEN [y EXCEPT !.req_times = @ + 1] ELSE Nmrp_setState(y, before)

\* The timer was reset before the call.  FILEUPLOADING runs writeimg and falls
\* through into CLOSING.
NmrpTimeout(x) ==
    CASE x.NmrpState = "LISTENING" -> ListenTimeout(x)
      [] x.NmrpState = "CONFIGING" -> Request(x, "LISTENING")
      [] x.NmrpState = "TFTPWAITING" -> Request(x, "CONFIGING")
      [] x.NmrpState = "TFTPUPLOADING" ->
            LET y == Armed([x EXCEPT !.net = "CONTINUE"])
            IN  IF x.firmware = 1
                THEN Nmrp_setState([y EXCEPT !.firmware = 0], "FILEUPLOADING") ELSE y
      [] x.NmrpState = "FILEUPLOADING" ->
            Closing(Armed([Nmrp_setState(x, "CLOSING") EXCEPT !.net = "CONTINUE", !.write = TRUE]))
      [] x.NmrpState = "CLOSING" -> Closing(x)
      [] x.NmrpState \in {"INIT", "CLOSED"} -> x

\* An advertisement is answered with a configuration request.
nmrp_pkt_advertisement_handler(x) ==
    IF x.NmrpState = "LISTENING" THEN [Nmrp_setState(x, "CONFIGING") EXCEPT !.has = TRUE] ELSE x

nmrp_pkt_config_ack_handler(x, upload) ==
    IF x.NmrpState = "CONFIGING" THEN Nmrp_setState(x, IF upload THEN "TFTPWAITING" ELSE "CLOSING")
                                 ELSE x

NmrpReceive(x, p) ==
    CASE p.kind = "ADVERTISE" -> nmrp_pkt_advertisement_handler(x)
      [] p.kind = "CONF_ACK" -> nmrp_pkt_config_ack_handler(x, p.n = 1)
      [] p.kind = "CLOSE_ACK" -> Nmrp_done(x)
      [] p.kind = "OTHER" -> x      \* a keep-alive acknowledgement, or no NMRP at all

-----------------------------------------------------------------------------
(* net/tftp.c *)

\* A block that is not full.
Last(p) == p.kind = "DATA" /\ p.n = FileLen[p.s]

TftpStartServer(x) == [x EXCEPT !.tftp = "RECV_WRQ", !.handler = TRUE]

new_transfer(x) == [x EXCEPT !.last = 0, !.wrap = 0]

\* The acknowledgement of block n.
TftpSend(x, n) == [x EXCEPT !.out = <<[s |-> x.port, n |-> n]>>]

\* Mutant: the number of a block is its place in the file.
UpdateBlockMutant(x, n) == x

\* Block 0 comes after the last number: it has wrapped.
update_block_number(x, n) ==
    IF n = 0 /\ x.last # 0 THEN [x EXCEPT !.wrap = @ + SeqMod] ELSE x

\* A block that does not fit is left out, and the transfer is to fail.
store_block(x, n, blk) ==
    LET o == n - 1 + x.wrap
    IN  IF o \in Offsets
        THEN [x EXCEPT !.mem[o] = blk, !.size = IF o + 1 > @ THEN o + 1 ELSE @]
        ELSE [x EXCEPT !.net = "FAIL"]

\* Mutant: NMRP is not told.
TftpCompleteMutant(x) == [x EXCEPT !.net = "CONTINUE", !.handler = FALSE]

\* An upload for NMRP waits for its timer; any other one is for ecnt_ImageUpgrade.
tftp_complete(x) ==
    IF x.NmrpState = "TFTPUPLOADING"
    THEN [x EXCEPT !.net = "CONTINUE", !.firmware = 1, !.handler = FALSE]
    ELSE [x EXCEPT !.net = "SUCCESS"]

TftpWrq(x, p) ==
    LET y == IF x.NmrpState = "TFTPWAITING" THEN Nmrp_setState(x, "TFTPUPLOADING") ELSE x
    IN  TftpSend(new_transfer([y EXCEPT !.port = p.s]), 0)

\* The first block opens the transfer, the last one (it is not full) ends it;
\* a block that came before is not acknowledged.  NetStartAgain, with one device and
\* without NetLoop, is a failure.
TftpData(x, p) ==
    LET n == p.n % SeqMod
        y == update_block_number(x, n)
        z == IF x.tftp = "RECV_WRQ"
             THEN new_transfer([y EXCEPT !.tftp = "DATA", !.port = p.s]) ELSE y
        stored == TftpSend(store_block([z EXCEPT !.last = n], n, <<p.s, p.n>>), n)
    IN  CASE x.tftp = "RECV_WRQ" /\ n # 1 -> [z EXCEPT !.net = "FAIL"]
          [] x.tftp = "DATA" /\ n = z.last -> z
          [] OTHER -> IF Last(p) THEN tftp_complete(stored) ELSE stored

\* Mutant: whoever sends it.
TftpHandlerMutant(x, p) ==
    CASE ~x.handler -> x
      [] x.handler /\ p.kind = "WRQ" -> TftpWrq(x, p)
      [] x.handler /\ p.kind = "DATA" -> TftpData(x, p)

\* A transfer under way takes packets of its client only.
TftpHandler(x, p) ==
    CASE ~x.handler \/ (x.tftp = "DATA" /\ p.s # x.port) -> x
      [] x.handler /\ ~(x.tftp = "DATA" /\ p.s # x.port) /\ p.kind = "WRQ" -> TftpWrq(x, p)
      [] x.handler /\ ~(x.tftp = "DATA" /\ p.s # x.port) /\ p.kind = "DATA" -> TftpData(x, p)

-----------------------------------------------------------------------------
(* The reception of a packet: ip_rcv_packet, NetReceive, and what            *)
(* qdma_bm_receive_packets does with net_state                               *)

IsTftp(p) == p.kind \in {"WRQ", "DATA"}

\* Every packet to port 69 starts the server when it is not running.
ip_rcv_packet(x, p) ==
    IF IsTftp(p) /\ ~x.tftp_start THEN [TftpStartServer(x) EXCEPT !.tftp_start = TRUE] ELSE x

NetReceive(x, p, expired) ==
    LET y == IF expired THEN NmrpTimeout([x EXCEPT !.timer = FALSE]) ELSE x
    IN  IF IsTftp(p) THEN TftpHandler(y, p) ELSE NmrpReceive(y, p)

Finished(x) == x.tftp_start /\ x.net # "CONTINUE"

\* Mutant: net_state is left as it is.
QdmaMutant(x) ==
    IF Finished(x) THEN [x EXCEPT !.tftp_start = FALSE, !.size = 0, !.handler = FALSE] ELSE x

\* The image, if it passes its checks, is written by ecnt_ImageUpgrade.
qdma_bm_receive_packets(x) ==
    IF Finished(x)
    THEN [x EXCEPT !.tftp_start = FALSE, !.size = 0, !.net = "CONTINUE", !.handler = FALSE]
    ELSE x

\* What one reception leaves for the properties and for the client, is not kept.
Quiet(x) == [x EXCEPT !.out = <<>>, !.write = FALSE, !.save = FALSE]

Receive(p, expired) ==
    /\ main # "linux"
    /\ expired => d.timer
    /\ LET x == NetReceive(ip_rcv_packet(d, p), p, expired)
       IN  /\ d' = Quiet(qdma_bm_receive_packets(x))
           /\ acks' = acks \o x.out
           /\ handed' = IF ~x.write THEN handed ELSE IF Whole(x) THEN "whole" ELSE "broken"
           /\ early' = IF early < 2 /\ Finished(x) /\ x.net = "SUCCESS" /\ ~Last(p)
                       THEN early + 1 ELSE early
           /\ saves' = IF saves < 2 /\ x.save THEN saves + 1 ELSE saves

Nmrps == [kind : {"ADVERTISE", "CLOSE_ACK", "OTHER"}, s : {0}, n : {0}]
           \cup [kind : {"CONF_ACK"}, s : {0}, n : {0, 1}]

\* Packets of NMRP may come at any time: delayed ones, and ones of another server's.
ReceiveNmrp(p, expired) == Receive(p, expired) /\ UNCHANGED <<main, c, wire, lost>>

ReceiveTftp(expired) ==
    /\ wire # <<>>
    /\ Receive(Head(wire), expired)
    /\ wire' = Tail(wire)
    /\ UNCHANGED <<main, c, lost>>

-----------------------------------------------------------------------------
(* The client, and the network, which keeps the order of the packets *)

Current == [kind |-> IF c.does = "wrq" THEN "WRQ" ELSE "DATA", s |-> c.s, n |-> c.n]

\* The user sends the next file, whatever became of the last one.
ClientStarts ==
    /\ c.s < Len(FileLen) /\ Len(wire) + Len(acks) < MaxWire
    /\ c' = [s |-> c.s + 1, does |-> "wrq", n |-> 0]
    /\ wire' = Append(wire, Current')
    /\ UNCHANGED <<main, d, acks, lost, handed, early, saves>>

ClientTimeout ==
    /\ c.does \in {"wrq", "data"} /\ Len(wire) + Len(acks) < MaxWire
    /\ wire' = Append(wire, Current)
    /\ UNCHANGED <<main, d, c, acks, lost, handed, early, saves>>

ClientReads ==
    /\ acks # <<>>
    /\ acks' = Tail(acks)
    /\ LET fits == /\ c.does \in {"wrq", "data"}
                   /\ Head(acks) = [s |-> c.s, n |-> c.n % SeqMod]
       IN  \/ /\ fits /\ c.n < FileLen[c.s]
              /\ c' = [c EXCEPT !.does = "data", !.n = @ + 1]
              /\ wire' = Append(wire, Current')
           \/ /\ fits /\ c.n = FileLen[c.s]
              /\ c' = [c EXCEPT !.does = "done"] /\ UNCHANGED wire
           \/ ~fits /\ UNCHANGED <<c, wire>>
    /\ UNCHANGED <<main, d, lost, handed, early, saves>>

Lose ==
    /\ lost < MaxLost /\ lost' = lost + 1
    /\ \/ wire # <<>> /\ wire' = Tail(wire) /\ UNCHANGED acks
       \/ acks # <<>> /\ acks' = Tail(acks) /\ UNCHANGED wire
    /\ UNCHANGED <<main, d, c, handed, early, saves>>

-----------------------------------------------------------------------------
(* process_boot_delay: a session of NMRP, or a key, keeps U-Boot from booting *)
abortboot_normal ==
    /\ main = "delay"
    /\ \/ main' = "console"
       \/ d.NmrpState \in {"INIT", "LISTENING"} /\ main' = "linux"
    /\ UNCHANGED <<d, c, wire, acks, lost, handed, early, saves>>

\* NmrpStart was called.
Init ==
    /\ main = "delay"
    /\ d = [NmrpState |-> "LISTENING", req_times |-> 0, timer |-> TRUE, has |-> FALSE,
            firmware |-> 0, net |-> "CONTINUE", tftp_start |-> FALSE, handler |-> FALSE,
            tftp |-> "RECV_WRQ", port |-> 0, last |-> 0, wrap |-> 0,
            mem |-> [i \in Offsets |-> NoBlock], size |-> 0,
            out |-> <<>>, write |-> FALSE, save |-> FALSE]
    /\ c = [s |-> 0, does |-> "idle", n |-> 0] /\ wire = <<>> /\ acks = <<>> /\ lost = 0
    /\ handed = "nothing" /\ early = 0 /\ saves = 0

Next ==
    \/ \E p \in Nmrps, expired \in BOOLEAN : ReceiveNmrp(p, expired)
    \/ \E expired \in BOOLEAN : ReceiveTftp(expired)
    \/ ClientStarts \/ ClientTimeout \/ ClientReads \/ Lose \/ abortboot_normal

Spec == Init /\ [][Next]_vars

\* Packets of some kind keep coming, so that an expired timer is noticed, and
\* what the client sends arrives; the client repeats what is not acknowledged.
FairSpec ==
    /\ Spec
    /\ WF_vars(\E p \in Nmrps : p.kind = "OTHER" /\ ReceiveNmrp(p, TRUE))
    /\ WF_vars(\E expired \in BOOLEAN : ReceiveTftp(expired))
    /\ WF_vars(ClientReads) /\ WF_vars(ClientTimeout)

-----------------------------------------------------------------------------

States == {"INIT", "LISTENING", "CONFIGING", "TFTPWAITING", "TFTPUPLOADING", "FILEUPLOADING",
           "CLOSING", "CLOSED"}

\* The fields of the device and the counters have the values the code gives them.
TypeOK ==
    /\ d.NmrpState \in States /\ d.req_times \in 0..(ReqLimit + CloseLimit)
    /\ d.timer \in BOOLEAN /\ d.has \in BOOLEAN /\ d.firmware \in {0, 1}
    /\ d.net \in {"CONTINUE", "SUCCESS"} /\ d.tftp \in {"RECV_WRQ", "DATA"}
    /\ d.port \in {0} \cup Sessions /\ d.last \in 0..(SeqMod - 1)
    /\ d.mem \in [Offsets -> Sessions \X Nat \cup {NoBlock}]
    /\ lost \in 0..MaxLost /\ main \in {"delay", "console", "linux"}

\* A session of NMRP never loses its timer, whichever packets come in which
\* order: nothing else makes it go on or end (NmrpSetTimeout, net/net.c).
TimerArmed == d.NmrpState \notin {"INIT", "CLOSED"} => d.timer

\* What FILEUPLOADING writes is one file of the client's, all of it, in order:
\* not two mixed, and not one whose numbers wrapped at the wrong place.
WriteWhole == handed # "broken"

\* A transfer without NMRP is broken off by the timer of NMRP once at most after
\* a power on: the client that starts again is served.
EarlyOnce == early <= 1

\* The environment is saved once in a session, after the image was dealt with.
SavedOnce == saves <= 1 /\ (saves = 1 => d.NmrpState = "CLOSED")

\* A session that wrote an image is closed, with or without a word of the server's.
SessionCloses == handed # "nothing" ~> d.NmrpState = "CLOSED" \/ main = "linux"

\* When nothing is lost and the client stays with its file, NMRP gets it.
UploadCompletes ==
    d.NmrpState = "TFTPUPLOADING" ~> handed = "whole" \/ lost > 0 \/ c.s > 1

\* README:4911 of U-Boot: a packet that is lost is sent again.
UploadEnds == d.NmrpState = "TFTPUPLOADING" /\ c.s = 1 ~> d.NmrpState # "TFTPUPLOADING" \/ c.s > 1
=============================================================================
