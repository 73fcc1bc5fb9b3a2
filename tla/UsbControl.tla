------------------------------ MODULE UsbControl ------------------------------
(***************************************************************************)
(* Control transfers: the endpoint 0 half of USBFS_IRQHandler in           *)
(* ch32x035_usbfs_device.c (setup, data and status stages, bus reset), and *)
(* the host that enumerates the key with it.                               *)
(*                                                                         *)
(* The host's side is the USB protocol: it retries what is answered with   *)
(* NAK, gives up on a STALL, and takes a packet with the wrong data toggle *)
(* for a repetition.  Acknowledgements are lost in either direction, and   *)
(* the host may abandon a transfer and start another one at any stage.     *)
(*                                                                         *)
(* A byte is the thing it belongs to and its value or position there.      *)
(* Requests of the same shape are one: a register is set, and read back,   *)
(* by                                                                      *)
(*   DevConfig    SET_CONFIGURATION, GET_CONFIGURATION                     *)
(*   HidIdle      SET_IDLE, GET_IDLE (HidProtocol likewise)                *)
(*   Halt1, Halt2 SET_FEATURE and CLEAR_FEATURE(ENDPOINT_HALT), GET_STATUS *)
(*   Report       SET_REPORT, which has a data stage, and GET_REPORT       *)
(* GET_INTERFACE, and GET_STATUS of the device, read a zero like that of a *)
(* fresh DevConfig or Halt.  HID requests ask for as many bytes as there   *)
(* are.  Left out: the SETUP packet in the buffer that the answer is built *)
(* in, and USBFS_DevEnumStatus and USBFS_DevSleepStatus (suspend, remote   *)
(* wake-up), which no code acts on.                                        *)
(***************************************************************************)
EXTENDS Naturals, Sequences

CONSTANTS
    UEP0_SIZE,   \* DEF_USBD_UEP0_SIZE (64)
    DescrLen,    \* the lengths of the descriptors, by name
    Registers,   \* of those above, the ones the host uses
    Addresses,   \* the host gives to the key
    Lengths,     \* wLength of the host's standard requests to read
    MaxLost,     \* bound on the acknowledgements lost
    Unknown

ASSUME SizeAssumption == UEP0_SIZE \in Nat /\ UEP0_SIZE > 2
ASSUME DescrAssumption == DescrLen \in [DOMAIN DescrLen -> Nat \ {0}]
ASSUME RegistersAssumption ==
    Registers \subseteq {"DevConfig", "HidIdle", "HidProtocol", "Halt1", "Halt2", "Report"}
ASSUME HostAssumption == Addresses \subseteq Nat \ {0} /\ Lengths \subseteq Nat /\ MaxLost \in Nat
ASSUME UnknownAssumption == Unknown \notin {0, 1}

Bit      == {0, 1}
Halts    == {"Halt1", "Halt2"}
Standard == Halts \cup {"DevConfig"}          \* read by standard requests

Smaller(m, n) == IF m < n THEN m ELSE n
First(s, n)   == SubSeq(s, 1, Smaller(n, Len(s)))
Rest(s, n)    == SubSeq(s, n + 1, Len(s))

Descriptor(d) == [i \in 1 .. DescrLen[d] |-> <<d, i>>]

(* The bytes a register is read as. *)
GetLength(r)   == IF r = "Report" THEN UEP0_SIZE ELSE IF r \in Halts THEN 2 ELSE 1
Register(r, v) == [i \in 1 .. GetLength(r) |-> IF i = 2 /\ r \in Halts THEN <<"zero", 0>> ELSE <<r, v>>]

(* A request as the handler tells it apart.  "other" changes nothing: it   *)
(* is SET_INTERFACE, CLEAR_FEATURE of the device, or a vendor request.     *)
(* "unsupported" sets errflag: an unknown descriptor, feature, endpoint,   *)
(* interface or code, or remote wake-up, which MyCfgDescr does not offer.  *)
Request(code, what, value, wLength) ==
    [code |-> code, what |-> what, value |-> value, wLength |-> wLength]

Requests ==
    {Request("GET_DESCRIPTOR", d, 0, n) : d \in DOMAIN DescrLen, n \in Lengths}
    \cup {Request("GET", r, 0, n) : r \in Registers \cap Standard, n \in Lengths}
    \cup {Request("GET", r, 0, GetLength(r)) : r \in Registers \ Standard}
    \cup {Request("SET", r, v, IF r = "Report" THEN UEP0_SIZE ELSE 0) : r \in Registers, v \in Bit}
    \cup {Request("SET_ADDRESS", "DevAddr", a, 0) : a \in Addresses}
    \cup {Request(code, "none", 0, 0) : code \in {"other", "unsupported"}}

IsRead(req) == req.code \in {"GET_DESCRIPTOR", "GET"}

VARIABLES
    USBFS_SetupReq,      \* the request of the last SETUP
    USBFS_SetupReqLen,   \* bytes of its data stage still to be loaded
    pUSBFS_Descr,        \* what is left of the descriptor
    USBFS_EP0_Buf, UEP0_TX_LEN,
    UEP0_CTRL_H,         \* answers to IN and OUT tokens, and data toggles
    USBFS_DevAddr, DEV_ADDR,
    reg,                 \* [Registers -> Bit]
    host,                \* the stage of the host's transfer, and what it has read
    hostAddr,            \* the address the host uses
    believes,            \* [Registers -> Bit or Unknown]: what the host has set
    lost,                \* acknowledgements lost so far
    addrLost             \* that of the last SET_ADDRESS was

setup  == <<USBFS_SetupReq, USBFS_SetupReqLen, pUSBFS_Descr>>
ep0    == <<USBFS_EP0_Buf, UEP0_TX_LEN, UEP0_CTRL_H>>
device == <<setup, ep0, USBFS_DevAddr, DEV_ADDR, reg>>
vars   == <<device, host, hostAddr, believes, lost, addrLost>>

Answers == {"ACK", "NAK", "STALL"}
Ctrl(t, tTog, r, rTog) == [t |-> t, tTog |-> tTog, r |-> r, rTog |-> rTog]

Bytes == {b \in (DOMAIN DescrLen) \X Nat : b[2] \in 1 .. DescrLen[b[1]]}
         \cup ((Registers \cup {"zero"}) \X Bit)

(* What is loaded fits the buffer and was asked for, however the transfers *)
(* before it ended; what is still to be loaded never underflows.           *)
TypeOK ==
    /\ USBFS_SetupReq \in Requests
    /\ USBFS_SetupReqLen \in 0 .. USBFS_SetupReq.wLength
    /\ USBFS_SetupReq.code = "GET_DESCRIPTOR" => USBFS_SetupReqLen <= Len(pUSBFS_Descr)
    /\ pUSBFS_Descr \in Seq(Bytes)
    /\ USBFS_EP0_Buf \in Seq(Bytes) /\ Len(USBFS_EP0_Buf) <= UEP0_SIZE
    /\ UEP0_TX_LEN \in 0 .. Len(USBFS_EP0_Buf)
    /\ UEP0_CTRL_H \in [t : Answers, tTog : Bit, r : Answers, rTog : Bit]
    /\ {USBFS_DevAddr, DEV_ADDR, hostAddr} \subseteq Addresses \cup {0}
    /\ reg \in [Registers -> Bit]
    /\ host \in [stage : {"idle", "data_in", "data_out", "status_in", "status_out"},
                got : Seq(Bytes), tog : Bit, unacked : BOOLEAN]
    /\ believes \in [Registers -> Bit \cup {Unknown}]
    /\ lost \in 0 .. MaxLost /\ addrLost \in BOOLEAN

HostIdle == [stage |-> "idle", got |-> <<>>, tog |-> 1, unacked |-> FALSE]

Init ==
    /\ USBFS_SetupReq = Request("other", "none", 0, 0)
    /\ USBFS_SetupReqLen = 0 /\ pUSBFS_Descr = <<>>
    /\ USBFS_EP0_Buf = <<>> /\ UEP0_TX_LEN = 0 /\ UEP0_CTRL_H = Ctrl("NAK", 0, "ACK", 0)
    /\ USBFS_DevAddr = 0 /\ DEV_ADDR = 0
    /\ reg = [r \in Registers |-> 0]
    /\ host = HostIdle /\ hostAddr = 0
    /\ believes = [r \in Registers |-> 0]
    /\ lost = 0 /\ addrLost = FALSE

----------------------------------------------------------------------------
(* The interrupt handler. *)

(* What a request to read may be answered with. *)
Answer(req) == IF req.code = "GET_DESCRIPTOR" THEN Descriptor(req.what)
                                              ELSE Register(req.what, reg[req.what])

(* wLength, cut to what there is by the standard requests to read. *)
Cut_not(req) == req.wLength                                          \* mutant
Cut(req) == IF IsRead(req) /\ (req.code = "GET_DESCRIPTOR" \/ req.what \in Standard)
            THEN Smaller(req.wLength, Len(Answer(req)))
            ELSE req.wLength

(* The first packet of a request to read is put in the buffer at once. *)
LoadFirst(req) ==
    LET len == Smaller(Cut(req), UEP0_SIZE) IN
    /\ USBFS_EP0_Buf' = First(Answer(req), len)
    /\ UEP0_TX_LEN' = len
    /\ USBFS_SetupReqLen' = Cut(req) - len
    /\ pUSBFS_Descr' = IF req.code = "GET_DESCRIPTOR" THEN Rest(Answer(req), len) ELSE pUSBFS_Descr

(* The answer of EP0 to the stage that follows. *)
Armed(req) ==
    IF req.code = "unsupported" THEN Ctrl("STALL", 1, "STALL", 1)
    ELSE IF IsRead(req) \/ req.wLength = 0 THEN Ctrl("ACK", 1, "NAK", 1)
    ELSE Ctrl("NAK", 1, "ACK", 1)

SETUP(req) ==
    /\ USBFS_SetupReq' = req
    /\ \/ IsRead(req) /\ LoadFirst(req)
       \/ /\ ~IsRead(req)
          /\ USBFS_SetupReqLen' = req.wLength
          /\ UEP0_TX_LEN' = IF req.wLength = 0 THEN 0 ELSE UEP0_TX_LEN
          /\ UNCHANGED <<USBFS_EP0_Buf, pUSBFS_Descr>>
    /\ UEP0_CTRL_H' = Armed(req)
    /\ USBFS_DevAddr' = IF req.code = "SET_ADDRESS" THEN req.value ELSE USBFS_DevAddr
    /\ reg' = IF req.code = "SET" /\ req.wLength = 0 THEN [reg EXCEPT ![req.what] = req.value] ELSE reg
    /\ UNCHANGED DEV_ADDR

(* The next packet of a descriptor is loaded when the last one has been    *)
(* acknowledged; it is empty when nothing is left.                         *)
LoadNext_from_start ==                                               \* mutant
    LET len == Smaller(USBFS_SetupReqLen, UEP0_SIZE) IN
    /\ USBFS_EP0_Buf' = First(Descriptor(USBFS_SetupReq.what), len)
    /\ UEP0_TX_LEN' = len
    /\ USBFS_SetupReqLen' = USBFS_SetupReqLen - len
    /\ pUSBFS_Descr' = Rest(pUSBFS_Descr, len)

LoadNext ==
    LET len == Smaller(USBFS_SetupReqLen, UEP0_SIZE) IN
    /\ USBFS_EP0_Buf' = First(pUSBFS_Descr, len)
    /\ UEP0_TX_LEN' = len
    /\ USBFS_SetupReqLen' = USBFS_SetupReqLen - len
    /\ pUSBFS_Descr' = Rest(pUSBFS_Descr, len)

AfterIN_refuses_status ==                                            \* mutant
    [UEP0_CTRL_H EXCEPT !.tTog = IF USBFS_SetupReq.code = "GET_DESCRIPTOR" THEN 1 - @ ELSE @]

(* The status stage of a request to read is let in once its last packet    *)
(* has been acknowledged; only descriptors have more than one packet.      *)
AfterIN ==
    LET ctrl == IF USBFS_SetupReqLen = 0 THEN [UEP0_CTRL_H EXCEPT !.r = "ACK", !.rTog = 1]
                                         ELSE UEP0_CTRL_H
    IN [ctrl EXCEPT !.tTog = IF USBFS_SetupReq.code = "GET_DESCRIPTOR" THEN 1 - @ ELSE @]

NewAddress_any_IN == USBFS_DevAddr                                   \* mutant
NewAddress == IF USBFS_SetupReq.code = "SET_ADDRESS" THEN USBFS_DevAddr ELSE DEV_ADDR

(* The host has acknowledged a packet.  This is when a new address counts. *)
EP0_IN ==
    /\ UEP0_CTRL_H' = AfterIN
    /\ \/ USBFS_SetupReq.code = "GET_DESCRIPTOR" /\ LoadNext
       \/ /\ USBFS_SetupReq.code # "GET_DESCRIPTOR"
          /\ UNCHANGED <<USBFS_EP0_Buf, UEP0_TX_LEN, USBFS_SetupReqLen, pUSBFS_Descr>>
    /\ DEV_ADDR' = NewAddress
    /\ UNCHANGED <<USBFS_SetupReq, USBFS_DevAddr, reg>>

StoresReport ==
    UEP0_CTRL_H.rTog = 1 /\ USBFS_SetupReq.code = "SET" /\ USBFS_SetupReq.what = "Report"

(* The host has sent a packet with toggle 1.  The report of a SET_REPORT   *)
(* is stored; a status stage needs nothing done.                           *)
EP0_OUT ==
    \/ /\ StoresReport
       /\ reg' = [reg EXCEPT !["Report"] = USBFS_SetupReq.value]
       /\ USBFS_EP0_Buf' = Register("Report", USBFS_SetupReq.value)
       /\ UEP0_TX_LEN' = 0
       /\ UEP0_CTRL_H' = Ctrl("ACK", 1, "ACK", 1)
       /\ UNCHANGED <<setup, USBFS_DevAddr, DEV_ADDR>>
    \/ ~StoresReport /\ UNCHANGED device

(* The part of a bus reset that concerns control transfers; the request    *)
(* and the HID registers stay.                                             *)
BUS_RST ==
    /\ UEP0_CTRL_H' = Ctrl("NAK", 0, "ACK", 0)
    /\ USBFS_DevAddr' = 0 /\ DEV_ADDR' = 0
    /\ reg' = [r \in Registers |-> IF r \in Standard THEN 0 ELSE reg[r]]
    /\ host' = HostIdle /\ hostAddr' = 0 /\ addrLost' = FALSE
    /\ believes' = [r \in Registers |-> IF r \in Standard THEN 0 ELSE believes[r]]
    /\ UNCHANGED <<setup, USBFS_EP0_Buf, UEP0_TX_LEN, lost>>

(* The main loop arms an endpoint (EP2 for a frame to send, EP1 when the   *)
(* ring has room again), which ends its halt without the host knowing.     *)
Rearm(r) ==
    /\ reg' = [reg EXCEPT ![r] = 0]
    /\ UNCHANGED <<setup, ep0, USBFS_DevAddr, DEV_ADDR, host, hostAddr, believes, lost, addrLost>>

----------------------------------------------------------------------------
(* The host.  Its request is the one the key has last heard of.            *)

Reachable == hostAddr = DEV_ADDR
Packet    == First(USBFS_EP0_Buf, UEP0_TX_LEN)

(* An acknowledgement arrives, or is one of those that are lost. *)
Acknowledged(acked) ==
    IF acked THEN UNCHANGED lost ELSE lost < MaxLost /\ lost' = lost + 1

FirstStage(req) ==
    IF req.wLength = 0 THEN "status_in" ELSE IF IsRead(req) THEN "data_in" ELSE "data_out"

(* A host that does not hear the acknowledgement of a SETUP sends it, or   *)
(* another one, again.                                                     *)
HostSetup(req, acked) ==
    /\ host.stage = "idle" /\ Reachable
    /\ Acknowledged(acked)
    /\ SETUP(req)
    /\ host' = [HostIdle EXCEPT !.stage = IF acked THEN FirstStage(req) ELSE "idle"]
    /\ believes' = [r \in Registers |->
                      IF req.code = "SET" /\ req.what = r THEN Unknown ELSE believes[r]]
    /\ UNCHANGED <<hostAddr, addrLost>>

(* A short packet, or the last byte asked for, ends the data stage. *)
HostReads(acked) ==
    /\ host.stage = "data_in" /\ Reachable /\ UEP0_CTRL_H.t = "ACK"
    /\ Acknowledged(acked)
    /\ LET new  == UEP0_CTRL_H.tTog = host.tog
           got  == IF new THEN host.got \o Packet ELSE host.got
           done == new /\ (Len(Packet) < UEP0_SIZE \/ Len(got) >= USBFS_SetupReq.wLength)
       IN host' = [stage   |-> IF done THEN "status_out" ELSE "data_in",
                   got     |-> got,
                   tog     |-> IF new THEN 1 - host.tog ELSE host.tog,
                   unacked |-> ~acked]
    /\ IF acked THEN EP0_IN ELSE UNCHANGED device
    /\ UNCHANGED <<hostAddr, believes, addrLost>>

HostWrites(acked) ==
    /\ host.stage = "data_out" /\ Reachable /\ UEP0_CTRL_H.r = "ACK"
    /\ Acknowledged(acked)
    /\ EP0_OUT
    /\ host' = [host EXCEPT !.stage = IF acked THEN "status_in" ELSE "data_out"]
    /\ UNCHANGED <<hostAddr, believes, addrLost>>

(* The empty packet that ends a request to write. *)
HostStatusIn(acked) ==
    /\ host.stage = "status_in" /\ Reachable
    /\ UEP0_CTRL_H.t = "ACK" /\ UEP0_CTRL_H.tTog = 1 /\ Packet = <<>>
    /\ Acknowledged(acked)
    /\ IF acked THEN EP0_IN ELSE UNCHANGED device
    /\ host' = HostIdle
    /\ LET req == USBFS_SetupReq IN
         /\ believes' = [r \in Registers |->
                           IF req.code = "SET" /\ req.what = r THEN req.value ELSE believes[r]]
         /\ hostAddr' = IF req.code = "SET_ADDRESS" THEN req.value ELSE hostAddr
         /\ addrLost' = IF req.code = "SET_ADDRESS" THEN ~acked ELSE addrLost

HostStatusOut(acked) ==
    /\ host.stage = "status_out" /\ Reachable /\ UEP0_CTRL_H.r = "ACK"
    /\ Acknowledged(acked)
    /\ EP0_OUT
    /\ host' = IF acked THEN HostIdle ELSE host
    /\ UNCHANGED <<hostAddr, believes, addrLost>>

(* The host hears a STALL, or loses patience. *)
HostGivesUp ==
    /\ host.stage # "idle"
    /\ host' = HostIdle
    /\ UNCHANGED <<device, hostAddr, believes, lost, addrLost>>

Next ==
    \/ \E req \in Requests, acked \in BOOLEAN : HostSetup(req, acked)
    \/ \E acked \in BOOLEAN :
         HostReads(acked) \/ HostWrites(acked) \/ HostStatusIn(acked) \/ HostStatusOut(acked)
    \/ HostGivesUp
    \/ BUS_RST
    \/ \E r \in Registers \cap Halts : Rearm(r)

Spec == Init /\ [][Next]_vars

----------------------------------------------------------------------------
(* Properties. *)

(* The host knows what a register holds; a halt may have ended meanwhile. *)
Known(r) == believes[r] = 0 \/ (believes[r] = 1 /\ r \notin Halts)

(* The bytes a host should have read. *)
Expected(req) == IF req.code = "GET_DESCRIPTOR" THEN Descriptor(req.what)
                                                ELSE Register(req.what, believes[req.what])

(* A host that has read to the end has what it asked for: the descriptor,  *)
(* byte for byte and cut only to wLength, or the value it set last,        *)
(* although packets are repeated and transfers before this one broke off   *)
(* with the descriptor, the count and the toggles half way.                *)
ReadsAnswered ==
    host.stage = "status_out" /\ (USBFS_SetupReq.code = "GET" => Known(USBFS_SetupReq.what))
        => host.got = First(Expected(USBFS_SetupReq), USBFS_SetupReq.wLength)

(* Host and key agree on the address at every step, so that no transfer is *)
(* cut off: it changes with the status stage of SET_ADDRESS and not with   *)
(* one that is abandoned.  Only if the acknowledgement of that stage is    *)
(* lost does the host have to reset the bus.                               *)
AddressAgrees == addrLost \/ hostAddr = DEV_ADDR

(* EP0 never refuses the stage the host is in, and stalls only what it     *)
(* does not support; a read or status packet has the toggle the host waits *)
(* for, unless it is a repetition.  The exception is a request to read     *)
(* whose last acknowledgement was lost: its status stage is refused until  *)
(* the host gives up.                                                      *)
EveryStageAnswered ==
    LET ctrl == UEP0_CTRL_H
        stalls == USBFS_SetupReq.code = "unsupported"
    IN /\ host.stage = "data_in" =>
            IF stalls THEN ctrl.t = "STALL"
                      ELSE ctrl.t = "ACK" /\ (host.unacked # (ctrl.tTog = host.tog))
       /\ host.stage = "data_out" => ctrl.r = "ACK" /\ ctrl.rTog = 1
       /\ host.stage = "status_in" =>
            IF stalls THEN ctrl.t = "STALL"
                      ELSE ctrl.t = "ACK" /\ ctrl.tTog = 1 /\ Packet = <<>>
       /\ host.stage = "status_out" => ctrl.r = "ACK" \/ host.unacked

=============================================================================
