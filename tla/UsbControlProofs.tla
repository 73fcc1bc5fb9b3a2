--------------------------- MODULE UsbControlProofs ---------------------------
(***************************************************************************)
(* Proofs about UsbControl for packets of any size, descriptors of any     *)
(* length, any requests and any number of lost acknowledgements.           *)
(***************************************************************************)
EXTENDS UsbControl, SequenceTheorems, TLAPS

(* Which requests bring the host to which stage. *)
StageFits ==
    LET req == USBFS_SetupReq IN
    /\ host.stage \in {"data_in", "status_out"} => IsRead(req)
    /\ host.stage = "data_out" => req.code = "SET" /\ req.what = "Report"

(* How much of a descriptor is to be sent, and how much of that has been   *)
(* put into packets, the one in the buffer included.                       *)
Wanted == Smaller(USBFS_SetupReq.wLength, DescrLen[USBFS_SetupReq.what])
Loaded == Wanted - USBFS_SetupReqLen

(* In the data stage of GET_DESCRIPTOR the buffer holds the piece of the   *)
(* descriptor that ends at Loaded, and the host has what comes before it,  *)
(* or that piece as well if only its acknowledgement was lost.             *)
DescriptorSplit ==
    host.stage = "data_in" /\ USBFS_SetupReq.code = "GET_DESCRIPTOR" =>
        LET D == Descriptor(USBFS_SetupReq.what) IN
        /\ UEP0_TX_LEN <= Loaded
        /\ UEP0_TX_LEN < UEP0_SIZE => USBFS_SetupReqLen = 0
        /\ pUSBFS_Descr = SubSeq(D, Loaded + 1, Len(D))
        /\ USBFS_EP0_Buf = SubSeq(D, Loaded - UEP0_TX_LEN + 1, Loaded)
        /\ host.got = SubSeq(D, 1, IF host.unacked THEN Loaded ELSE Loaded - UEP0_TX_LEN)

(* A register is read in one packet, which is in the buffer from the start.*)
RegisterWaits ==
    LET req == USBFS_SetupReq IN
    host.stage = "data_in" /\ req.code = "GET" =>
        /\ host.got = <<>> /\ host.tog = 1 /\ ~host.unacked
        /\ UEP0_CTRL_H.tTog = 1 /\ USBFS_SetupReqLen = 0
        /\ UEP0_TX_LEN = Smaller(req.wLength, GetLength(req.what))
        /\ Known(req.what) => Packet = First(Register(req.what, believes[req.what]), req.wLength)

(* What the host knows of a register, the key has; a register being set    *)
(* has its value before the status stage, and the host makes no assumption *)
(* about a report it is still sending.                                     *)
RegistersAgree ==
    LET req == USBFS_SetupReq IN
    /\ \A r \in Registers : Known(r) => reg[r] = believes[r]
    /\ host.stage = "status_in" /\ req.code = "SET" =>
          reg[req.what] = req.value \/ (req.what \in Halts /\ req.value = 1)
    /\ host.stage = "data_out" => believes["Report"] = Unknown

(* A new address is kept for the status stage. *)
AddressKept ==
    /\ AddressAgrees
    /\ host.stage = "status_in" /\ USBFS_SetupReq.code = "SET_ADDRESS" =>
          USBFS_DevAddr = USBFS_SetupReq.value

ControlInv ==
    /\ TypeOK
    /\ StageFits
    /\ EveryStageAnswered
    /\ AddressKept
    /\ RegistersAgree
    /\ DescriptorSplit
    /\ RegisterWaits
    /\ ReadsAnswered


-----------------------------------------------------------------------------
(* The helpers, and the requests. *)

(* First and Rest of a sequence are its two parts. *)
LEMMA FirstRest ==
    ASSUME NEW S, NEW s \in Seq(S), NEW n \in Nat
    PROVE  /\ First(s, n) \in Seq(S) /\ Len(First(s, n)) = Smaller(n, Len(s))
           /\ First(s, n) = SubSeq(s, 1, Smaller(n, Len(s)))
           /\ n <= Len(s) => /\ Rest(s, n) \in Seq(S)
                             /\ Len(Rest(s, n)) = Len(s) - n
<1>1. Len(s) \in Nat /\ \A i \in 1 .. Len(s) : s[i] \in S
    BY LenProperties, ElementOfSeq
<1>2. Smaller(n, Len(s)) \in 0 .. Len(s)
    BY <1>1 DEF Smaller
<1>3. /\ SubSeq(s, 1, Smaller(n, Len(s))) \in Seq(S)
      /\ Len(SubSeq(s, 1, Smaller(n, Len(s)))) = Smaller(n, Len(s))
    <2>1. \A i \in 1 .. Smaller(n, Len(s)) : s[i] \in S
        BY <1>1, <1>2
    <2> QED
        BY <1>2, <2>1, SubSeqProperties
<1>4. ASSUME n <= Len(s)
      PROVE  /\ SubSeq(s, n + 1, Len(s)) \in Seq(S)
             /\ Len(SubSeq(s, n + 1, Len(s))) = Len(s) - n
    <2>1. \A i \in n + 1 .. Len(s) : s[i] \in S
        BY <1>1
    <2>2. n + 1 \in Int /\ Len(s) \in Int
        BY <1>1
    <2> QED
        BY <1>1, <1>4, <2>1, <2>2, SubSeqProperties
<1> QED
    BY <1>3, <1>4 DEF First, Rest

LEMMA RequestFacts ==
    ASSUME NEW req \in Requests
    PROVE  /\ req.wLength \in Nat
           /\ req.code = "GET_DESCRIPTOR" => req.what \in DOMAIN DescrLen
           /\ req.code = "GET" => /\ req.what \in Registers
                                  /\ req.what \notin Standard => req.wLength = GetLength(req.what)
           /\ req.code = "SET" => /\ req.what \in Registers /\ req.value \in Bit
                                  /\ req.wLength = IF req.what = "Report" THEN UEP0_SIZE ELSE 0
           /\ req.code = "SET_ADDRESS" => req.value \in Addresses
           /\ ~IsRead(req) /\ req.wLength > 0 => req.code = "SET" /\ req.what = "Report"
<1> USE DEF Request, IsRead
<1>1. GetLength("Report") = UEP0_SIZE /\ \A r \in Registers : GetLength(r) \in Nat
    BY SizeAssumption DEF GetLength, Halts
<1> QED
    BY <1>1, SizeAssumption, HostAssumption DEF Requests

(* What a read is answered with, and how much of it. *)
LEMMA AnswerFacts ==
    ASSUME NEW req \in Requests, IsRead(req), reg \in [Registers -> Bit]
    PROVE  /\ Answer(req) \in Seq(Bytes)
           /\ req.code = "GET_DESCRIPTOR" => Len(Answer(req)) = DescrLen[req.what]
           /\ req.code = "GET" => Len(Answer(req)) = GetLength(req.what)
           /\ Cut(req) = Smaller(req.wLength, Len(Answer(req)))
           /\ Cut(req) \in 0 .. req.wLength /\ Cut(req) <= Len(Answer(req))
<1>1. ASSUME req.code = "GET_DESCRIPTOR"
      PROVE  Answer(req) \in Seq(Bytes) /\ Len(Answer(req)) = DescrLen[req.what]
    <2>1. req.what \in DOMAIN DescrLen /\ DescrLen[req.what] \in Nat
        BY <1>1, RequestFacts, DescrAssumption
    <2>2. \A i \in 1 .. DescrLen[req.what] : <<req.what, i>> \in Bytes
        BY <2>1 DEF Bytes
    <2>3. /\ Descriptor(req.what) \in [1 .. DescrLen[req.what] -> Bytes]
          /\ Descriptor(req.what) \in Seq(Bytes)
        BY <2>1, <2>2, SeqDef DEF Descriptor
    <2> QED
        BY <1>1, <2>1, <2>3, LenProperties DEF Answer
<1>2. ASSUME req.code = "GET"
      PROVE  Answer(req) \in Seq(Bytes) /\ Len(Answer(req)) = GetLength(req.what)
    <2>1. req.what \in Registers /\ reg[req.what] \in Bit /\ GetLength(req.what) \in Nat
        BY <1>2, RequestFacts, SizeAssumption DEF GetLength, Halts
    <2>2. <<req.what, reg[req.what]>> \in Bytes /\ <<"zero", 0>> \in Bytes
        BY <2>1 DEF Bytes, Bit
    <2>3. /\ Register(req.what, reg[req.what]) \in [1 .. GetLength(req.what) -> Bytes]
          /\ Register(req.what, reg[req.what]) \in Seq(Bytes)
        <3>1. \A i \in 1 .. GetLength(req.what) :
                 (IF i = 2 /\ req.what \in Halts THEN <<"zero", 0>>
                                                 ELSE <<req.what, reg[req.what]>>) \in Bytes
            BY <2>2
        <3>2. Register(req.what, reg[req.what]) \in [1 .. GetLength(req.what) -> Bytes]
            BY <3>1 DEF Register
        <3> QED
            BY <2>1, <3>2, SeqDef
    <2> QED
        BY <1>2, <2>1, <2>3, LenProperties DEF Answer
<1>3. Len(Answer(req)) \in Nat /\ req.wLength \in Nat
    BY <1>1, <1>2, RequestFacts, LenProperties DEF IsRead
<1>4. Cut(req) = Smaller(req.wLength, Len(Answer(req)))
    <2>1. CASE req.code = "GET_DESCRIPTOR" \/ req.what \in Standard
        BY <2>1 DEF Cut
    <2>2. CASE req.code = "GET" /\ req.what \notin Standard
        BY <1>2, <1>3, <2>2, RequestFacts DEF Cut, Smaller
    <2> QED
        BY <2>1, <2>2 DEF IsRead
<1> QED
    BY <1>1, <1>2, <1>3, <1>4 DEF IsRead, Smaller

-----------------------------------------------------------------------------
LEMMA InitControlInv == Init => ControlInv
<1> SUFFICES ASSUME Init PROVE ControlInv
    OBVIOUS
<1> USE DEF Init, HostIdle, Ctrl
<1>1. USBFS_SetupReq \in Requests
    BY DEF Requests
<1>2. TypeOK
    <2>1. <<>> \in Seq(Bytes) /\ Len(<<>>) = 0
        BY EmptySeq
    <2>2. USBFS_SetupReq.code = "other" /\ USBFS_SetupReq.wLength = 0
        BY DEF Request
    <2>3. /\ host \in [stage : {"idle", "data_in", "data_out", "status_in", "status_out"},
                      got : Seq(Bytes), tog : Bit, unacked : BOOLEAN]
          /\ UEP0_CTRL_H \in [t : Answers, tTog : Bit, r : Answers, rTog : Bit]
        BY <2>1 DEF Answers, Bit
    <2>4. reg \in [Registers -> Bit] /\ believes \in [Registers -> Bit \cup {Unknown}]
        BY DEF Bit
    <2>5. /\ USBFS_SetupReqLen \in 0 .. USBFS_SetupReq.wLength
          /\ USBFS_SetupReq.code # "GET_DESCRIPTOR"
          /\ pUSBFS_Descr \in Seq(Bytes)
          /\ USBFS_EP0_Buf \in Seq(Bytes) /\ Len(USBFS_EP0_Buf) <= UEP0_SIZE
          /\ UEP0_TX_LEN \in 0 .. Len(USBFS_EP0_Buf)
        BY <2>1, <2>2, SizeAssumption
    <2>6. {USBFS_DevAddr, DEV_ADDR, hostAddr} \subseteq Addresses \cup {0}
        OBVIOUS
    <2>7. lost \in 0 .. MaxLost
        BY HostAssumption
    <2>8. addrLost \in BOOLEAN
        BY Zenon
    <2> QED
        BY <1>1, <2>3, <2>4, <2>5, <2>6, <2>7, <2>8 DEF TypeOK
<1>3. StageFits /\ EveryStageAnswered /\ AddressKept /\ DescriptorSplit /\ RegisterWaits
    BY DEF StageFits, EveryStageAnswered, AddressKept, AddressAgrees, DescriptorSplit, RegisterWaits
<1>4. RegistersAgree /\ ReadsAnswered
    BY DEF RegistersAgree, ReadsAnswered, Known
<1> QED
    BY <1>2, <1>3, <1>4 DEF ControlInv

(* A SETUP that asks to read leaves the first packet in the buffer and the *)
(* rest for later.                                                         *)
LEMMA LoadFirstFacts ==
    ASSUME NEW req \in Requests, IsRead(req), reg \in [Registers -> Bit], LoadFirst(req)
    PROVE  LET A == Answer(req)
               len == Smaller(Smaller(req.wLength, Len(A)), UEP0_SIZE)
           IN /\ A \in Seq(Bytes) /\ len \in Nat /\ len <= UEP0_SIZE
              /\ len <= req.wLength /\ len <= Len(A)
              /\ USBFS_EP0_Buf' = SubSeq(A, 1, len)
              /\ USBFS_EP0_Buf' \in Seq(Bytes) /\ Len(USBFS_EP0_Buf') = len
              /\ UEP0_TX_LEN' = len
              /\ USBFS_SetupReqLen' = Smaller(req.wLength, Len(A)) - len
              /\ USBFS_SetupReqLen' \in 0 .. req.wLength
              /\ req.code = "GET_DESCRIPTOR" =>
                    /\ pUSBFS_Descr' = SubSeq(A, len + 1, Len(A))
                    /\ pUSBFS_Descr' \in Seq(Bytes) /\ Len(pUSBFS_Descr') = Len(A) - len
              /\ req.code = "GET" => pUSBFS_Descr' = pUSBFS_Descr
<1> DEFINE A   == Answer(req)
           len == Smaller(Smaller(req.wLength, Len(A)), UEP0_SIZE)
<1>1. A \in Seq(Bytes) /\ Cut(req) = Smaller(req.wLength, Len(A))
    BY AnswerFacts
<1>2. Len(A) \in Nat /\ req.wLength \in Nat
    BY <1>1, LenProperties, RequestFacts
<1>3. /\ len \in Nat /\ len <= UEP0_SIZE /\ len <= req.wLength /\ len <= Len(A)
      /\ Smaller(req.wLength, Len(A)) - len \in 0 .. req.wLength /\ Smaller(len, Len(A)) = len
    BY <1>2, SizeAssumption DEF Smaller
<1>4. /\ First(A, len) = SubSeq(A, 1, len) /\ First(A, len) \in Seq(Bytes) /\ Len(First(A, len)) = len
      /\ Rest(A, len) \in Seq(Bytes) /\ Len(Rest(A, len)) = Len(A) - len
    BY <1>1, <1>3, FirstRest
<1>5. Rest(A, len) = SubSeq(A, len + 1, Len(A))
    BY DEF Rest
<1> HIDE DEF A, len
<1>6. /\ USBFS_EP0_Buf' = First(A, len)
      /\ UEP0_TX_LEN' = len
      /\ USBFS_SetupReqLen' = Smaller(req.wLength, Len(A)) - len
      /\ pUSBFS_Descr' = IF req.code = "GET_DESCRIPTOR" THEN Rest(A, len) ELSE pUSBFS_Descr
    BY <1>1 DEF LoadFirst, A, len
<1>7. /\ A \in Seq(Bytes) /\ len \in Nat /\ len <= UEP0_SIZE
      /\ len <= req.wLength /\ len <= Len(A)
      /\ USBFS_EP0_Buf' = SubSeq(A, 1, len)
      /\ USBFS_EP0_Buf' \in Seq(Bytes) /\ Len(USBFS_EP0_Buf') = len
      /\ UEP0_TX_LEN' = len
      /\ USBFS_SetupReqLen' = Smaller(req.wLength, Len(A)) - len
      /\ USBFS_SetupReqLen' \in 0 .. req.wLength
      /\ req.code = "GET_DESCRIPTOR" =>
            /\ pUSBFS_Descr' = SubSeq(A, len + 1, Len(A))
            /\ pUSBFS_Descr' \in Seq(Bytes) /\ Len(pUSBFS_Descr') = Len(A) - len
      /\ req.code = "GET" => pUSBFS_Descr' = pUSBFS_Descr
    BY <1>1, <1>3, <1>4, <1>5, <1>6
<1> QED
    BY <1>7 DEF A, len

LEMMA HostSetupControlInv ==
    ASSUME ControlInv, NEW req \in Requests, NEW acked \in BOOLEAN, HostSetup(req, acked)
    PROVE  ControlInv'
<1> USE DEF HostSetup, SETUP
<1>1. /\ reg \in [Registers -> Bit] /\ believes \in [Registers -> Bit \cup {Unknown}]
      /\ pUSBFS_Descr \in Seq(Bytes) /\ USBFS_EP0_Buf \in Seq(Bytes)
      /\ Len(USBFS_EP0_Buf) <= UEP0_SIZE /\ UEP0_TX_LEN \in 0 .. Len(USBFS_EP0_Buf)
    BY DEF ControlInv, TypeOK
<1>2. /\ host' = [stage |-> IF acked THEN FirstStage(req) ELSE "idle",
                  got |-> <<>>, tog |-> 1, unacked |-> FALSE]
      /\ host'.got = <<>> /\ host'.tog = 1 /\ host'.unacked = FALSE
      /\ USBFS_SetupReq' = req /\ UEP0_CTRL_H' = Armed(req)
    <2>1. host' = [stage |-> IF acked THEN FirstStage(req) ELSE "idle",
                   got |-> <<>>, tog |-> 1, unacked |-> FALSE]
        BY DEF HostIdle
    <2>2. USBFS_SetupReq' = req /\ UEP0_CTRL_H' = Armed(req)
        OBVIOUS
    <2> HIDE DEF HostSetup, SETUP
    <2> QED
        BY <2>1, <2>2
<1>3. /\ UEP0_CTRL_H' \in [t : Answers, tTog : Bit, r : Answers, rTog : Bit]
      /\ UEP0_CTRL_H'.tTog = 1 /\ UEP0_CTRL_H'.rTog = 1
      /\ req.code = "unsupported" => UEP0_CTRL_H'.t = "STALL"
      /\ req.code # "unsupported" /\ (IsRead(req) \/ req.wLength = 0) => UEP0_CTRL_H'.t = "ACK"
      /\ ~IsRead(req) /\ req.code # "unsupported" /\ req.wLength # 0 => UEP0_CTRL_H'.r = "ACK"
    BY <1>2 DEF Armed, Ctrl, Answers, Bit
<1>4. /\ reg' \in [Registers -> Bit]
      /\ believes' \in [Registers -> Bit \cup {Unknown}]
    BY <1>1, RequestFacts
<1>5. TypeOK'
    <2>1. /\ USBFS_SetupReqLen' \in 0 .. req.wLength
          /\ req.code = "GET_DESCRIPTOR" => USBFS_SetupReqLen' <= Len(pUSBFS_Descr')
          /\ pUSBFS_Descr' \in Seq(Bytes)
          /\ USBFS_EP0_Buf' \in Seq(Bytes) /\ Len(USBFS_EP0_Buf') <= UEP0_SIZE
          /\ UEP0_TX_LEN' \in 0 .. Len(USBFS_EP0_Buf')
        <3>1. CASE IsRead(req)
            <4>1. LoadFirst(req)
                BY <3>1
            <4>2. Len(Answer(req)) \in Nat /\ req.wLength \in Nat
                BY <1>1, <3>1, AnswerFacts, RequestFacts, LenProperties
            <4>3. /\ USBFS_SetupReqLen' \in 0 .. req.wLength
                  /\ USBFS_EP0_Buf' \in Seq(Bytes) /\ Len(USBFS_EP0_Buf') <= UEP0_SIZE
                  /\ UEP0_TX_LEN' \in Nat /\ UEP0_TX_LEN' = Len(USBFS_EP0_Buf')
                BY <1>1, <3>1, <4>1, LoadFirstFacts
            <4>4. /\ req.code = "GET_DESCRIPTOR" => /\ pUSBFS_Descr' \in Seq(Bytes)
                                                    /\ USBFS_SetupReqLen' <= Len(pUSBFS_Descr')
                  /\ req.code = "GET" => pUSBFS_Descr' = pUSBFS_Descr
                <5> DEFINE len == Smaller(Smaller(req.wLength, Len(Answer(req))), UEP0_SIZE)
                <5>1. /\ USBFS_SetupReqLen' = Smaller(req.wLength, Len(Answer(req))) - len
                      /\ len \in Nat
                      /\ req.code = "GET_DESCRIPTOR" =>
                            pUSBFS_Descr' \in Seq(Bytes) /\ Len(pUSBFS_Descr') = Len(Answer(req)) - len
                      /\ req.code = "GET" => pUSBFS_Descr' = pUSBFS_Descr
                    BY <1>1, <3>1, <4>1, LoadFirstFacts
                <5>2. Smaller(req.wLength, Len(Answer(req))) \in Nat
                      /\ Smaller(req.wLength, Len(Answer(req))) <= Len(Answer(req))
                    BY <4>2 DEF Smaller
                <5> HIDE DEF len
                <5> QED
                    BY <4>2, <5>1, <5>2
            <4> QED
                BY <1>1, <3>1, <4>1, <4>3, <4>4 DEF IsRead
        <3>2. CASE ~IsRead(req)
            <4>1. Len(USBFS_EP0_Buf) \in Nat
                BY <1>1, LenProperties
            <4> QED
                BY <1>1, <3>2, <4>1, RequestFacts DEF IsRead
        <3> QED
            BY <3>1, <3>2
    <2>2. host' \in [stage : {"idle", "data_in", "data_out", "status_in", "status_out"},
                     got : Seq(Bytes), tog : Bit, unacked : BOOLEAN]
        <3>1. <<>> \in Seq(Bytes)
            BY EmptySeq
        <3>2. FirstStage(req) \in {"data_in", "data_out", "status_in"}
            BY DEF FirstStage
        <3> QED
            BY <1>2, <3>1, <3>2 DEF Bit
    <2>3. {USBFS_DevAddr', DEV_ADDR', hostAddr'} \subseteq Addresses \cup {0}
        BY RequestFacts DEF ControlInv, TypeOK
    <2>4. lost' \in 0 .. MaxLost /\ addrLost' \in BOOLEAN
        BY HostAssumption DEF ControlInv, TypeOK, Acknowledged
    <2> QED
        BY <1>2, <1>3, <1>4, <2>1, <2>2, <2>3, <2>4 DEF TypeOK
<1>6. StageFits'
    BY <1>2, RequestFacts, SizeAssumption DEF StageFits, FirstStage, IsRead
<1>7. ASSUME host'.stage = "status_in"
      PROVE  req.wLength = 0 /\ Packet' = <<>> /\ UEP0_TX_LEN' = 0
    <2>1. req.wLength = 0
        BY <1>2, <1>7 DEF FirstStage
    <2>2. UEP0_TX_LEN' = 0
        <3>1. CASE IsRead(req)
            <4>1. LoadFirst(req) /\ Len(Answer(req)) \in Nat
                BY <1>1, <3>1, AnswerFacts, LenProperties
            <4> QED
                BY <1>1, <2>1, <3>1, <4>1, LoadFirstFacts, SizeAssumption DEF Smaller
        <3>2. CASE ~IsRead(req)
            BY <2>1, <3>2
        <3> QED
            BY <3>1, <3>2
    <2>3. Len(USBFS_EP0_Buf') \in Nat
        BY <1>5, LenProperties DEF TypeOK
    <2>4. Packet' = SubSeq(USBFS_EP0_Buf', 1, 0)
        BY <2>2, <2>3 DEF Packet, First, Smaller
    <2> QED
        BY <2>1, <2>2, <2>4, SubSeqEmpty
<1>8. EveryStageAnswered'
    <2>1. host'.stage = "data_in" => IsRead(req) /\ req.code # "unsupported"
        BY <1>2 DEF FirstStage, IsRead
    <2>2. host'.stage = "data_out" => ~IsRead(req) /\ req.wLength # 0 /\ req.code # "unsupported"
        BY <1>2, RequestFacts DEF FirstStage, IsRead
    <2>3. host'.stage # "status_out"
        BY <1>2 DEF FirstStage
    <2> QED
        BY <1>2, <1>3, <1>7, <2>1, <2>2, <2>3 DEF EveryStageAnswered
<1>9. AddressKept'
    BY <1>2 DEF ControlInv, AddressKept, AddressAgrees
<1>10. RegistersAgree'
    <2>1. ASSUME NEW r \in Registers, Known(r)'
          PROVE  reg'[r] = believes'[r]
        <3>1. ~(req.code = "SET" /\ req.what = r)
            BY <2>1, UnknownAssumption DEF Known
        <3>2. believes'[r] = believes[r] /\ Known(r) /\ reg[r] = believes[r]
            BY <2>1, <3>1 DEF ControlInv, RegistersAgree, Known
        <3>3. reg'[r] = reg[r]
            BY <1>1, <3>1, RequestFacts
        <3> QED
            BY <3>2, <3>3
    <2>2. ASSUME host'.stage = "status_in", req.code = "SET"
          PROVE  reg'[req.what] = req.value
        BY <1>1, <1>7, <2>2, RequestFacts
    <2>3. ASSUME host'.stage = "data_out"
          PROVE  believes'["Report"] = Unknown
        BY <1>2, <1>6, <2>3, RequestFacts DEF StageFits
    <2> QED
        BY <1>2, <2>1, <2>2, <2>3 DEF RegistersAgree
<1>11. ASSUME host'.stage = "data_in", IsRead(req)
       PROVE  /\ req.wLength \in Nat /\ req.wLength > 0 /\ LoadFirst(req)
              /\ Len(Answer(req)) \in Nat
              /\ host'.got = <<>> /\ host'.tog = 1 /\ ~host'.unacked
    BY <1>1, <1>2, <1>11, RequestFacts, AnswerFacts, LenProperties DEF FirstStage
<1>12. DescriptorSplit'
    <2> SUFFICES ASSUME host'.stage = "data_in", req.code = "GET_DESCRIPTOR"
                 PROVE  DescriptorSplit'
        BY <1>2 DEF DescriptorSplit
    <2> DEFINE D   == Descriptor(req.what)
               N   == Smaller(req.wLength, Len(D))
               len == Smaller(N, UEP0_SIZE)
    <2>1. Answer(req) = D /\ IsRead(req) /\ Len(D) = DescrLen[req.what]
        <3>1. Answer(req) = D /\ IsRead(req)
            BY DEF Answer, IsRead
        <3> QED
            BY <1>1, <3>1, AnswerFacts
    <2>2. req.wLength \in Nat /\ Len(D) \in Nat /\ LoadFirst(req)
        BY <1>11, <2>1
    <2>3. /\ USBFS_EP0_Buf' = SubSeq(D, 1, len) /\ UEP0_TX_LEN' = len
          /\ USBFS_SetupReqLen' = N - len /\ pUSBFS_Descr' = SubSeq(D, len + 1, Len(D))
        BY <1>1, <2>1, <2>2, LoadFirstFacts
    <2>4. Wanted' = N /\ Loaded' = len /\ N \in Nat /\ len \in Nat
        BY <1>2, <2>1, <2>2, <2>3, SizeAssumption DEF Wanted, Loaded, Smaller
    <2>5. len < UEP0_SIZE => N - len = 0
        BY <2>2, SizeAssumption DEF Smaller
    <2>6. host'.got = SubSeq(D, 1, 0) /\ ~host'.unacked
        <3>1. SubSeq(D, 1, 0) = <<>>
            BY SubSeqEmpty
        <3> QED
            BY <1>2, <3>1
    <2> HIDE DEF D, N, len
    <2>7. len - len = 0 /\ len - len + 1 = 1
        BY <2>4
    <2> QED
        BY <1>2, <2>3, <2>4, <2>5, <2>6, <2>7 DEF DescriptorSplit, D
<1>13. RegisterWaits'
    <2> SUFFICES ASSUME host'.stage = "data_in", req.code = "GET"
                 PROVE  RegisterWaits'
        BY <1>2 DEF RegisterWaits
    <2> DEFINE A   == Answer(req)
               len == Smaller(Smaller(req.wLength, Len(A)), UEP0_SIZE)
    <2>1. /\ IsRead(req) /\ req.wLength \in Nat /\ LoadFirst(req)
          /\ Len(A) = GetLength(req.what) /\ A = Register(req.what, reg[req.what])
          /\ req.what \in Registers
        <3>1. IsRead(req)
            BY DEF IsRead
        <3> QED
            BY <1>1, <1>11, <3>1, AnswerFacts, RequestFacts DEF Answer
    <2>2. Len(A) \in Nat /\ Len(A) <= UEP0_SIZE
        BY <2>1, SizeAssumption DEF GetLength
    <2>3. len = Smaller(req.wLength, Len(A)) /\ len \in Nat /\ len <= Len(A)
        BY <2>1, <2>2, SizeAssumption DEF Smaller
    <2>4. /\ USBFS_EP0_Buf' = SubSeq(A, 1, len) /\ UEP0_TX_LEN' = len
          /\ USBFS_SetupReqLen' = len - len /\ Len(USBFS_EP0_Buf') = len
          /\ USBFS_EP0_Buf' \in Seq(Bytes)
        BY <1>1, <2>1, <2>3, LoadFirstFacts
    <2>5. Packet' = USBFS_EP0_Buf'
        BY <2>3, <2>4, SubSeqFull DEF Packet, First, Smaller
    <2>6. ASSUME Known(req.what)'
          PROVE  Packet' = First(Register(req.what, believes'[req.what]), req.wLength)
        <3>1. believes'[req.what] = reg[req.what]
            BY <2>1, <2>6 DEF ControlInv, RegistersAgree, Known
        <3> QED
            BY <2>1, <2>3, <2>4, <2>5, <3>1 DEF First
    <2> HIDE DEF A, len
    <2>7. /\ host'.got = <<>> /\ host'.tog = 1 /\ ~host'.unacked /\ USBFS_SetupReqLen' = 0
          /\ UEP0_TX_LEN' = Smaller(req.wLength, GetLength(req.what))
        BY <1>2, <2>1, <2>3, <2>4
    <2> QED
        BY <1>2, <1>3, <2>6, <2>7 DEF RegisterWaits
<1>14. ReadsAnswered'
    BY <1>2 DEF ReadsAnswered, FirstStage
<1> QED
    BY <1>5, <1>6, <1>8, <1>9, <1>10, <1>12, <1>13, <1>14 DEF ControlInv

(* An acknowledged packet is followed by the next piece of the descriptor. *)
LEMMA LoadNextFacts ==
    ASSUME TypeOK, USBFS_SetupReq.code = "GET_DESCRIPTOR", LoadNext
    PROVE  LET len == Smaller(USBFS_SetupReqLen, UEP0_SIZE)
           IN /\ len \in Nat /\ len <= UEP0_SIZE /\ len <= USBFS_SetupReqLen
              /\ len < UEP0_SIZE => USBFS_SetupReqLen - len = 0
              /\ USBFS_EP0_Buf' = SubSeq(pUSBFS_Descr, 1, len)
              /\ USBFS_EP0_Buf' \in Seq(Bytes) /\ Len(USBFS_EP0_Buf') = len
              /\ UEP0_TX_LEN' = len
              /\ USBFS_SetupReqLen' = USBFS_SetupReqLen - len
              /\ pUSBFS_Descr' = SubSeq(pUSBFS_Descr, len + 1, Len(pUSBFS_Descr))
              /\ pUSBFS_Descr' \in Seq(Bytes) /\ Len(pUSBFS_Descr') = Len(pUSBFS_Descr) - len
<1> DEFINE len == Smaller(USBFS_SetupReqLen, UEP0_SIZE)
<1>1. /\ pUSBFS_Descr \in Seq(Bytes) /\ USBFS_SetupReqLen \in Nat
      /\ USBFS_SetupReqLen <= Len(pUSBFS_Descr) /\ Len(pUSBFS_Descr) \in Nat
    BY RequestFacts, LenProperties DEF TypeOK
<1>2. /\ len \in Nat /\ len <= UEP0_SIZE /\ len <= USBFS_SetupReqLen /\ len <= Len(pUSBFS_Descr)
      /\ len < UEP0_SIZE => USBFS_SetupReqLen - len = 0
      /\ Smaller(len, Len(pUSBFS_Descr)) = len
    BY <1>1, SizeAssumption DEF Smaller
<1>3. /\ USBFS_EP0_Buf' = First(pUSBFS_Descr, len) /\ UEP0_TX_LEN' = len
      /\ USBFS_SetupReqLen' = USBFS_SetupReqLen - len /\ pUSBFS_Descr' = Rest(pUSBFS_Descr, len)
    BY DEF LoadNext
<1>4. Rest(pUSBFS_Descr, len) = SubSeq(pUSBFS_Descr, len + 1, Len(pUSBFS_Descr))
    BY DEF Rest
<1> HIDE DEF len
<1>5. /\ First(pUSBFS_Descr, len) = SubSeq(pUSBFS_Descr, 1, len)
      /\ First(pUSBFS_Descr, len) \in Seq(Bytes) /\ Len(First(pUSBFS_Descr, len)) = len
      /\ Rest(pUSBFS_Descr, len) \in Seq(Bytes)
      /\ Len(Rest(pUSBFS_Descr, len)) = Len(pUSBFS_Descr) - len
    BY <1>1, <1>2, FirstRest
<1>6. /\ len \in Nat /\ len <= UEP0_SIZE /\ len <= USBFS_SetupReqLen
      /\ len < UEP0_SIZE => USBFS_SetupReqLen - len = 0
      /\ USBFS_EP0_Buf' = SubSeq(pUSBFS_Descr, 1, len)
      /\ USBFS_EP0_Buf' \in Seq(Bytes) /\ Len(USBFS_EP0_Buf') = len
      /\ UEP0_TX_LEN' = len
      /\ USBFS_SetupReqLen' = USBFS_SetupReqLen - len
      /\ pUSBFS_Descr' = SubSeq(pUSBFS_Descr, len + 1, Len(pUSBFS_Descr))
      /\ pUSBFS_Descr' \in Seq(Bytes) /\ Len(pUSBFS_Descr') = Len(pUSBFS_Descr) - len
    BY <1>2, <1>3, <1>4, <1>5
<1> QED
    BY <1>6 DEF len

(* The part of TypeOK that is about the key. *)
DeviceTypes ==
    /\ USBFS_SetupReq \in Requests
    /\ USBFS_SetupReqLen \in 0 .. USBFS_SetupReq.wLength
    /\ USBFS_SetupReq.code = "GET_DESCRIPTOR" => USBFS_SetupReqLen <= Len(pUSBFS_Descr)
    /\ pUSBFS_Descr \in Seq(Bytes)
    /\ USBFS_EP0_Buf \in Seq(Bytes) /\ Len(USBFS_EP0_Buf) <= UEP0_SIZE
    /\ UEP0_TX_LEN \in 0 .. Len(USBFS_EP0_Buf)
    /\ UEP0_CTRL_H \in [t : Answers, tTog : Bit, r : Answers, rTog : Bit]
    /\ USBFS_DevAddr \in Addresses \cup {0} /\ DEV_ADDR \in Addresses \cup {0}
    /\ reg \in [Registers -> Bit]

(* What an acknowledged packet changes in the answers of EP0. *)
LEMMA AfterINFacts ==
    ASSUME TypeOK
    PROVE  /\ AfterIN \in [t : Answers, tTog : Bit, r : Answers, rTog : Bit]
           /\ AfterIN.t = UEP0_CTRL_H.t
           /\ AfterIN.tTog = IF USBFS_SetupReq.code = "GET_DESCRIPTOR" THEN 1 - UEP0_CTRL_H.tTog
                                                                      ELSE UEP0_CTRL_H.tTog
           /\ USBFS_SetupReqLen = 0 => AfterIN.r = "ACK"
<1> DEFINE ctrl == IF USBFS_SetupReqLen = 0 THEN [UEP0_CTRL_H EXCEPT !.r = "ACK", !.rTog = 1]
                                            ELSE UEP0_CTRL_H
           tog  == IF USBFS_SetupReq.code = "GET_DESCRIPTOR" THEN 1 - ctrl.tTog ELSE ctrl.tTog
<1>1. UEP0_CTRL_H \in [t : Answers, tTog : Bit, r : Answers, rTog : Bit]
    BY DEF TypeOK
<1>2. /\ ctrl \in [t : Answers, tTog : Bit, r : Answers, rTog : Bit]
      /\ ctrl.t = UEP0_CTRL_H.t /\ ctrl.tTog = UEP0_CTRL_H.tTog
      /\ USBFS_SetupReqLen = 0 => ctrl.r = "ACK"
    BY <1>1 DEF Answers, Bit
<1>3. AfterIN = [ctrl EXCEPT !.tTog = tog]
    BY DEF AfterIN
<1> HIDE DEF ctrl
<1>4. tog \in Bit
    BY <1>2 DEF Bit
<1>5. tog = IF USBFS_SetupReq.code = "GET_DESCRIPTOR" THEN 1 - UEP0_CTRL_H.tTog ELSE UEP0_CTRL_H.tTog
    BY <1>2
<1> HIDE DEF tog
<1> QED
    BY <1>2, <1>3, <1>4, <1>5

LEMMA EP0_INTypes ==
    ASSUME TypeOK, EP0_IN
    PROVE  DeviceTypes'
<1>1. USBFS_SetupReq' = USBFS_SetupReq /\ USBFS_SetupReq \in Requests
    BY DEF TypeOK, EP0_IN
<1>2. /\ USBFS_SetupReqLen' \in 0 .. USBFS_SetupReq.wLength
      /\ USBFS_SetupReq.code = "GET_DESCRIPTOR" => USBFS_SetupReqLen' <= Len(pUSBFS_Descr')
      /\ pUSBFS_Descr' \in Seq(Bytes)
      /\ USBFS_EP0_Buf' \in Seq(Bytes) /\ Len(USBFS_EP0_Buf') <= UEP0_SIZE
      /\ UEP0_TX_LEN' \in 0 .. Len(USBFS_EP0_Buf')
    <2>1. CASE USBFS_SetupReq.code = "GET_DESCRIPTOR"
        <3>1. LoadNext
            BY <2>1 DEF EP0_IN
        <3>2. /\ USBFS_SetupReqLen \in Nat /\ USBFS_SetupReqLen <= USBFS_SetupReq.wLength
              /\ USBFS_SetupReqLen <= Len(pUSBFS_Descr) /\ Len(pUSBFS_Descr) \in Nat
              /\ USBFS_SetupReq.wLength \in Nat
            BY <2>1, RequestFacts, LenProperties DEF TypeOK
        <3> DEFINE len == Smaller(USBFS_SetupReqLen, UEP0_SIZE)
        <3>3. /\ len \in Nat /\ len <= UEP0_SIZE /\ len <= USBFS_SetupReqLen
              /\ USBFS_EP0_Buf' \in Seq(Bytes) /\ Len(USBFS_EP0_Buf') = len
              /\ UEP0_TX_LEN' = len
              /\ USBFS_SetupReqLen' = USBFS_SetupReqLen - len
              /\ pUSBFS_Descr' \in Seq(Bytes) /\ Len(pUSBFS_Descr') = Len(pUSBFS_Descr) - len
            BY <2>1, <3>1, LoadNextFacts
        <3> HIDE DEF len
        <3> QED
            BY <3>2, <3>3
    <2>2. CASE USBFS_SetupReq.code # "GET_DESCRIPTOR"
        BY <2>2 DEF EP0_IN, TypeOK
    <2> QED
        BY <2>1, <2>2
<1>3. UEP0_CTRL_H' \in [t : Answers, tTog : Bit, r : Answers, rTog : Bit]
    BY AfterINFacts DEF EP0_IN
<1>4. /\ USBFS_DevAddr' \in Addresses \cup {0} /\ DEV_ADDR' \in Addresses \cup {0}
      /\ reg' \in [Registers -> Bit]
    BY DEF EP0_IN, NewAddress, TypeOK
<1> QED
    BY <1>1, <1>2, <1>3, <1>4 DEF DeviceTypes

LEMMA EP0_OUTTypes ==
    ASSUME TypeOK, EP0_OUT
    PROVE  DeviceTypes'
<1>1. CASE StoresReport
    <2>1. /\ "Report" \in Registers /\ USBFS_SetupReq.value \in Bit
          /\ GetLength("Report") = UEP0_SIZE
        BY <1>1, RequestFacts DEF StoresReport, TypeOK, GetLength
    <2>2. <<"Report", USBFS_SetupReq.value>> \in Bytes
        BY <2>1 DEF Bytes
    <2>3. Register("Report", USBFS_SetupReq.value) \in [1 .. UEP0_SIZE -> Bytes]
        <3>1. "Report" \notin Halts
            BY DEF Halts
        <3> QED
            BY <2>1, <2>2, <3>1 DEF Register
    <2>4. Register("Report", USBFS_SetupReq.value) \in Seq(Bytes)
        BY <2>3, SizeAssumption, SeqDef
    <2>5. Len(Register("Report", USBFS_SetupReq.value)) = UEP0_SIZE
        BY <2>3, <2>4, SizeAssumption, LenProperties
    <2>6. /\ USBFS_EP0_Buf' = Register("Report", USBFS_SetupReq.value) /\ UEP0_TX_LEN' = 0
          /\ reg' = [reg EXCEPT !["Report"] = USBFS_SetupReq.value]
          /\ UEP0_CTRL_H' = Ctrl("ACK", 1, "ACK", 1)
          /\ UNCHANGED <<setup, USBFS_DevAddr, DEV_ADDR>>
        BY <1>1 DEF EP0_OUT
    <2>7. UEP0_CTRL_H' \in [t : Answers, tTog : Bit, r : Answers, rTog : Bit]
        BY <2>6 DEF Ctrl, Answers, Bit
    <2>8. reg' \in [Registers -> Bit]
        BY <2>1, <2>6 DEF TypeOK
    <2> QED
        BY <2>4, <2>5, <2>6, <2>7, <2>8, SizeAssumption DEF DeviceTypes, TypeOK, setup
<1>2. CASE ~StoresReport
    BY <1>2 DEF EP0_OUT, device, setup, ep0, TypeOK, DeviceTypes
<1> QED
    BY <1>1, <1>2

(* The part of a sequence between two positions. *)
LEMMA Slice ==
    ASSUME NEW S, NEW s \in Seq(S), NEW a \in Nat, NEW b \in Nat, a <= b, b <= Len(s)
    PROVE  /\ SubSeq(s, a + 1, b) \in Seq(S) /\ Len(SubSeq(s, a + 1, b)) = b - a
           /\ \A i \in 1 .. b - a : SubSeq(s, a + 1, b)[i] = s[a + i]
<1> DEFINE c == a + 1
           t == SubSeq(s, c, b)
<1>1. \A i \in c .. b : s[i] \in S
    BY LenProperties, ElementOfSeq
<1>2. c \in Int /\ b \in Int
    OBVIOUS
<1> HIDE DEF c
<1>3. /\ t \in Seq(S) /\ Len(t) = (IF c <= b THEN b - c + 1 ELSE 0)
      /\ \A i \in 1 .. b - c + 1 : t[i] = s[c + i - 1]
    BY <1>1, <1>2, SubSeqProperties
<1> HIDE DEF t
<1>4. Len(t) = b - a
    BY <1>3 DEF c
<1>5. \A i \in 1 .. b - a : i \in 1 .. b - c + 1 /\ c + i - 1 = a + i
    BY DEF c
<1>6. \A i \in 1 .. b - a : t[i] = s[a + i]
    BY <1>3, <1>5
<1> QED
    BY <1>3, <1>4, <1>6 DEF c, t

(* Parts of the rest of a sequence are parts of the sequence. *)
LEMMA PartsOfRest ==
    ASSUME NEW S, NEW s \in Seq(S), NEW a \in Nat, a <= Len(s), NEW n \in Nat, n <= Len(s) - a
    PROVE  LET t == SubSeq(s, a + 1, Len(s))
           IN /\ SubSeq(t, 1, n) = SubSeq(s, a + 1, a + n)
              /\ SubSeq(t, n + 1, Len(t)) = SubSeq(s, a + n + 1, Len(s))
<1> DEFINE t  == SubSeq(s, a + 1, Len(s))
           k  == a + n
           u1 == SubSeq(t, 1, n)
           v1 == SubSeq(s, a + 1, k)
           u2 == SubSeq(t, n + 1, Len(t))
           v2 == SubSeq(s, k + 1, Len(s))
<1>1. Len(s) \in Nat /\ k \in Nat /\ k <= Len(s)
    BY LenProperties
<1>2. /\ t \in Seq(S) /\ Len(t) = Len(s) - a
      /\ \A i \in 1 .. Len(s) - a : t[i] = s[a + i]
    BY <1>1, Slice
<1>3. v1 \in Seq(S) /\ Len(v1) = k - a /\ \A i \in 1 .. k - a : v1[i] = s[a + i]
    BY <1>1, Slice
<1>4. v2 \in Seq(S) /\ Len(v2) = Len(s) - k /\ \A i \in 1 .. Len(s) - k : v2[i] = s[k + i]
    BY <1>1, Slice
<1> HIDE DEF t
<1>5. Len(t) \in Nat /\ n <= Len(t)
    BY <1>1, <1>2
<1>6. u1 \in Seq(S) /\ Len(u1) = n /\ \A i \in 1 .. n : u1[i] = t[i]
    <2>1. 0 \in Nat /\ 0 <= n /\ 0 + 1 = 1 /\ n - 0 = n /\ \A i \in 1 .. n : 0 + i = i
        OBVIOUS
    <2>2. /\ SubSeq(t, 0 + 1, n) \in Seq(S) /\ Len(SubSeq(t, 0 + 1, n)) = n - 0
          /\ \A i \in 1 .. n - 0 : SubSeq(t, 0 + 1, n)[i] = t[0 + i]
        BY <1>2, <1>5, <2>1, Slice
    <2> QED
        BY <2>1, <2>2
<1>7. /\ u2 \in Seq(S) /\ Len(u2) = Len(t) - n
      /\ \A i \in 1 .. Len(t) - n : u2[i] = t[n + i]
    BY <1>2, <1>5, Slice
<1> HIDE DEF u1, u2, v1, v2
<1>8. u1 = v1
    <2>1. k - a = n /\ \A i \in 1 .. n : i \in 1 .. Len(s) - a
        BY <1>1
    <2>2. \A i \in 1 .. n : u1[i] = v1[i]
        BY <1>2, <1>3, <1>6, <2>1
    <2> QED
        BY <1>3, <1>6, <2>1, <2>2, SeqEqual
<1>9. u2 = v2
    <2>1. /\ Len(t) - n = Len(s) - k
          /\ \A i \in 1 .. Len(s) - k : n + i \in 1 .. Len(s) - a /\ a + (n + i) = k + i
        BY <1>1, <1>2
    <2>2. \A i \in 1 .. Len(s) - k : u2[i] = v2[i]
        BY <1>2, <1>4, <1>7, <2>1
    <2> QED
        BY <1>4, <1>7, <2>1, <2>2, SeqEqual
<1> QED
    BY <1>8, <1>9 DEF t, u1, u2, v1, v2

-----------------------------------------------------------------------------
LEMMA HostReadsControlInv ==
    ASSUME ControlInv, NEW acked \in BOOLEAN, HostReads(acked)
    PROVE  ControlInv'
<1> DEFINE req  == USBFS_SetupReq
           new  == UEP0_CTRL_H.tTog = host.tog
           got  == IF new THEN host.got \o Packet ELSE host.got
           done == new /\ (Len(Packet) < UEP0_SIZE \/ Len(got) >= req.wLength)
<1>1. /\ req \in Requests /\ req.wLength \in Nat /\ IsRead(req) /\ host.stage = "data_in"
      /\ host.got \in Seq(Bytes) /\ host.tog \in Bit /\ host.unacked \in BOOLEAN
      /\ UEP0_CTRL_H.tTog \in Bit /\ USBFS_EP0_Buf \in Seq(Bytes)
      /\ Len(USBFS_EP0_Buf) \in Nat /\ UEP0_TX_LEN \in 0 .. Len(USBFS_EP0_Buf)
    BY RequestFacts, LenProperties DEF HostReads, ControlInv, TypeOK, StageFits
<1>2. UEP0_CTRL_H.t = "ACK" /\ (host.unacked <=> ~new) /\ req.code # "unsupported"
    BY <1>1 DEF ControlInv, EveryStageAnswered, IsRead
<1>3. /\ host' = [stage   |-> IF done THEN "status_out" ELSE "data_in",
                  got     |-> got,
                  tog     |-> IF new THEN 1 - host.tog ELSE host.tog,
                  unacked |-> ~acked]
      /\ IF acked THEN EP0_IN ELSE UNCHANGED device
      /\ UNCHANGED <<hostAddr, believes, addrLost>> /\ Acknowledged(acked)
    BY DEF HostReads
<1>4. /\ USBFS_SetupReq' = req /\ reg' = reg /\ DEV_ADDR' = DEV_ADDR
      /\ DeviceTypes' /\ UEP0_CTRL_H'.t = "ACK"
    <2>1. CASE acked
        BY <1>1, <1>2, <1>3, <2>1, EP0_INTypes, AfterINFacts
        DEF EP0_IN, NewAddress, ControlInv, IsRead
    <2>2. CASE ~acked
        BY <1>2, <1>3, <2>2 DEF device, setup, ep0, ControlInv, TypeOK, DeviceTypes
    <2> QED
        BY <2>1, <2>2
<1>5. Packet \in Seq(Bytes) /\ Len(Packet) = UEP0_TX_LEN /\ UEP0_TX_LEN \in Nat
    BY <1>1, FirstRest DEF Packet, Smaller
<1>6. got \in Seq(Bytes) /\ Len(got) \in Nat
    BY <1>1, <1>5, ConcatProperties, LenProperties
<1>7. /\ host'.got = got /\ host'.tog = (IF new THEN 1 - host.tog ELSE host.tog)
      /\ host'.unacked = ~acked /\ host'.stage = (IF done THEN "status_out" ELSE "data_in")
      /\ host' \in [stage : {"idle", "data_in", "data_out", "status_in", "status_out"},
                    got : Seq(Bytes), tog : Bit, unacked : BOOLEAN]
    <2> HIDE DEF new, got, done
    <2>1. (IF new THEN 1 - host.tog ELSE host.tog) \in Bit
        BY <1>1 DEF Bit
    <2> QED
        BY <1>3, <1>6, <2>1
<1>8. TypeOK'
    <2>1. lost' \in 0 .. MaxLost
        BY <1>3, HostAssumption DEF Acknowledged, ControlInv, TypeOK
    <2>2. /\ hostAddr' \in Addresses \cup {0} /\ addrLost' \in BOOLEAN
          /\ believes' \in [Registers -> Bit \cup {Unknown}]
        BY <1>3 DEF ControlInv, TypeOK
    <2> QED
        BY <1>4, <1>7, <2>1, <2>2 DEF TypeOK, DeviceTypes
<1>9. StageFits'
    BY <1>1, <1>4, <1>7 DEF StageFits
<1>10. AddressKept'
    BY <1>3, <1>4, <1>7 DEF ControlInv, AddressKept, AddressAgrees
<1>11. RegistersAgree'
    BY <1>3, <1>4, <1>7 DEF ControlInv, RegistersAgree, Known
<1>12. CASE req.code = "GET"
    <2>1. /\ host.got = <<>> /\ new /\ USBFS_SetupReqLen = 0
          /\ UEP0_TX_LEN = Smaller(req.wLength, GetLength(req.what))
          /\ Known(req.what) => Packet = First(Register(req.what, believes[req.what]), req.wLength)
        BY <1>1, <1>2, <1>12 DEF ControlInv, RegisterWaits
    <2>2. got = Packet
        BY <1>5, <2>1, ConcatEmptySeq
    <2>3. done
        <3>1. req.what # "Report" => GetLength(req.what) \in Nat /\ GetLength(req.what) < UEP0_SIZE
            BY SizeAssumption DEF GetLength
        <3>2. req.what = "Report" => GetLength(req.what) = UEP0_SIZE /\ req.wLength = UEP0_SIZE
            BY <1>1, <1>12, RequestFacts DEF GetLength, Standard, Halts
        <3> HIDE DEF req
        <3>3. UEP0_TX_LEN < UEP0_SIZE \/ UEP0_TX_LEN >= req.wLength
            BY <1>1, <2>1, <3>1, <3>2, SizeAssumption DEF Smaller
        <3> QED
            BY <1>5, <2>1, <2>2, <3>3
    <2>4. host'.stage = "status_out" /\ host'.got = Packet
        BY <1>7, <2>2, <2>3
    <2>5. acked => UEP0_CTRL_H'.r = "ACK"
        BY <1>3, <2>1, AfterINFacts DEF EP0_IN, ControlInv
    <2>6. EveryStageAnswered'
        BY <1>7, <2>4, <2>5 DEF EveryStageAnswered
    <2>7. ReadsAnswered'
        BY <1>3, <1>4, <1>12, <2>1, <2>4 DEF ReadsAnswered, Known, Expected
    <2>8. DescriptorSplit' /\ RegisterWaits'
        BY <2>4 DEF DescriptorSplit, RegisterWaits
    <2> QED
        BY <1>8, <1>9, <1>10, <1>11, <2>6, <2>7, <2>8 DEF ControlInv
<1>13. CASE req.code = "GET_DESCRIPTOR"
    <2> DEFINE D == Descriptor(req.what)
    <2>1. /\ UEP0_TX_LEN <= Loaded
          /\ UEP0_TX_LEN < UEP0_SIZE => USBFS_SetupReqLen = 0
          /\ pUSBFS_Descr = SubSeq(D, Loaded + 1, Len(D))
          /\ USBFS_EP0_Buf = SubSeq(D, Loaded - UEP0_TX_LEN + 1, Loaded)
          /\ host.got = SubSeq(D, 1, IF host.unacked THEN Loaded ELSE Loaded - UEP0_TX_LEN)
        BY <1>1, <1>13 DEF ControlInv, DescriptorSplit
    <2>2. D \in Seq(Bytes) /\ Len(D) = DescrLen[req.what] /\ Len(D) \in Nat
        <3>1. Answer(req) = D /\ reg \in [Registers -> Bit]
            BY <1>13 DEF Answer, ControlInv, TypeOK
        <3> QED
            BY <1>1, <1>13, <3>1, AnswerFacts, LenProperties
    <2>3. Wanted = Smaller(req.wLength, Len(D)) /\ Loaded = Wanted - USBFS_SetupReqLen
        BY <2>2 DEF Wanted, Loaded
    <2>4. /\ USBFS_SetupReqLen \in Nat /\ USBFS_SetupReqLen <= Len(pUSBFS_Descr)
        BY <1>1, <1>13 DEF ControlInv, TypeOK
    <2>5. Wanted \in Nat /\ Wanted <= req.wLength /\ Wanted <= Len(D)
        BY <1>1, <2>2, <2>3 DEF Smaller
    <2> HIDE DEF D
    <2>6. Loaded \in Nat /\ Loaded <= Len(D) /\ Loaded - UEP0_TX_LEN \in Nat
        <3>1. Loaded \in Int
            BY <2>3, <2>4, <2>5
        <3>2. UEP0_TX_LEN <= Loaded /\ Loaded <= Wanted
            BY <2>1, <2>3, <2>4, <2>5
        <3> QED
            BY <1>5, <2>2, <2>5, <3>1, <3>2
    <2>7. got = SubSeq(D, 1, Loaded) /\ Len(got) = Loaded
        <3>1. SubSeq(D, 1, Loaded) \in Seq(Bytes) /\ Len(SubSeq(D, 1, Loaded)) = Loaded
            <4>1. Smaller(Loaded, Len(D)) = Loaded
                BY <2>2, <2>6 DEF Smaller
            <4>2. First(D, Loaded) = SubSeq(D, 1, Loaded)
                BY <4>1 DEF First
            <4> QED
                BY <2>2, <2>6, <4>1, <4>2, FirstRest
        <3>2. CASE ~new
            BY <1>2, <2>1, <3>1, <3>2
        <3>3. CASE new
            <4>1. host.got = SubSeq(D, 1, Loaded - UEP0_TX_LEN)
                BY <1>2, <2>1, <3>3
            <4>2. Packet = USBFS_EP0_Buf
                <5>1. Len(USBFS_EP0_Buf) = UEP0_TX_LEN
                    <6> DEFINE k == Loaded - UEP0_TX_LEN
                    <6>1. k \in Nat /\ k <= Loaded /\ Loaded - k = UEP0_TX_LEN
                        BY <1>5, <2>6
                    <6>2. USBFS_EP0_Buf = SubSeq(D, k + 1, Loaded)
                        BY <2>1
                    <6> HIDE DEF k
                    <6> QED
                        BY <2>2, <2>6, <6>1, <6>2, Slice
                <5>2. Packet = SubSeq(USBFS_EP0_Buf, 1, Len(USBFS_EP0_Buf))
                    BY <1>5, <5>1 DEF Packet, First, Smaller
                <5> QED
                    BY <1>1, <5>2, SubSeqFull
            <4>3. SubSeq(D, 1, Loaded - UEP0_TX_LEN) \o SubSeq(D, Loaded - UEP0_TX_LEN + 1, Loaded)
                    = SubSeq(D, 1, Loaded)
                <5> DEFINE k == Loaded - UEP0_TX_LEN
                <5>1. 1 \in 1 .. Len(D) + 1 /\ k \in 1 - 1 .. Len(D) /\ Loaded \in k .. Len(D)
                    BY <1>5, <2>2, <2>6
                <5> HIDE DEF k
                <5>2. SubSeq(D, 1, k) \o SubSeq(D, k + 1, Loaded) = SubSeq(D, 1, Loaded)
                    BY <2>2, <5>1, ConcatAdjacentSubSeq
                <5> QED
                    BY <5>2 DEF k
            <4> QED
                BY <2>1, <3>1, <3>3, <4>1, <4>2, <4>3
        <3> QED
            BY <3>2, <3>3
    <2>8. done => USBFS_SetupReqLen = 0 /\ Loaded = Wanted
        <3>1. done => UEP0_TX_LEN < UEP0_SIZE \/ Loaded >= req.wLength
            BY <1>5, <2>7
        <3>2. Loaded >= req.wLength => Loaded >= Wanted
            BY <1>1, <2>5, <2>6
        <3> HIDE DEF done
        <3> QED
            BY <2>1, <2>3, <2>4, <2>5, <3>1, <3>2
    <2>9. ReadsAnswered'
        <3> SUFFICES ASSUME host'.stage = "status_out"
                     PROVE  host'.got = First(Expected(req), req.wLength)'
            BY <1>4 DEF ReadsAnswered
        <3>1. done
            BY <1>7
        <3>2. host'.got = SubSeq(D, 1, Wanted)
            BY <1>7, <2>7, <2>8, <3>1
        <3>3. First(Expected(req), req.wLength)' = First(D, req.wLength)
            BY <1>4, <1>13 DEF Expected, D
        <3>4. First(D, req.wLength) = SubSeq(D, 1, Wanted)
            BY <2>3 DEF First
        <3> QED
            BY <3>2, <3>3, <3>4
    <2>10. EveryStageAnswered'
        <3>1. done /\ acked => UEP0_CTRL_H'.r = "ACK"
            BY <1>3, <2>8, AfterINFacts DEF EP0_IN, ControlInv
        <3>2. UEP0_CTRL_H'.tTog = IF acked THEN 1 - UEP0_CTRL_H.tTog ELSE UEP0_CTRL_H.tTog
            BY <1>3, <1>13, AfterINFacts DEF EP0_IN, ControlInv, device, ep0
        <3>3. acked <=> (UEP0_CTRL_H'.tTog = host'.tog)
            <4>1. host'.tog = IF new THEN 1 - host.tog ELSE host.tog
                BY <1>7
            <4> QED
                BY <1>1, <3>2, <4>1 DEF Bit
        <3>4. host'.unacked # (UEP0_CTRL_H'.tTog = host'.tog)
            BY <1>7, <3>3
        <3>5. host'.stage = "status_out" => UEP0_CTRL_H'.r = "ACK" \/ host'.unacked
            BY <1>7, <3>1
        <3> HIDE DEF done, got, new
        <3> QED
            BY <1>2, <1>4, <1>7, <3>4, <3>5 DEF EveryStageAnswered
    <2>11. DescriptorSplit'
        <3>1. CASE ~acked
            <4>1. UNCHANGED <<USBFS_SetupReq, USBFS_SetupReqLen, pUSBFS_Descr, USBFS_EP0_Buf, UEP0_TX_LEN>>
                BY <1>3, <3>1 DEF device, setup, ep0
            <4>2. host'.unacked /\ host'.got = SubSeq(D, 1, Loaded)
                BY <1>7, <2>7, <3>1
            <4>3. Loaded' = Loaded
                BY <4>1 DEF Loaded, Wanted
            <4> QED
                BY <2>1, <4>1, <4>2, <4>3 DEF DescriptorSplit, D
        <3>2. CASE acked
            <4> DEFINE len == Smaller(USBFS_SetupReqLen, UEP0_SIZE)
            <4>1. LoadNext
                BY <1>3, <1>13, <3>2 DEF EP0_IN
            <4>2. /\ len \in Nat /\ len <= USBFS_SetupReqLen
                  /\ len < UEP0_SIZE => USBFS_SetupReqLen - len = 0
                  /\ USBFS_EP0_Buf' = SubSeq(pUSBFS_Descr, 1, len)
                  /\ UEP0_TX_LEN' = len
                  /\ USBFS_SetupReqLen' = USBFS_SetupReqLen - len
                  /\ pUSBFS_Descr' = SubSeq(pUSBFS_Descr, len + 1, Len(pUSBFS_Descr))
                BY <1>13, <4>1, LoadNextFacts DEF ControlInv
            <4> HIDE DEF len
            <4>3. Loaded' = Loaded + len
                BY <1>4, <2>3, <2>4, <2>5, <4>2 DEF Loaded, Wanted
            <4>4. len <= Len(D) - Loaded
                BY <2>2, <2>3, <2>4, <2>5, <4>2, SMTT(60)
            <4>5. /\ USBFS_EP0_Buf' = SubSeq(D, Loaded + 1, Loaded + len)
                  /\ pUSBFS_Descr' = SubSeq(D, Loaded + len + 1, Len(D))
                BY <2>1, <2>2, <2>6, <4>2, <4>4, PartsOfRest
            <4>6. ~host'.unacked /\ host'.got = SubSeq(D, 1, Loaded)
                BY <1>7, <2>7, <3>2
            <4>7. Loaded' - len = Loaded /\ len <= Loaded'
                BY <2>6, <4>2, <4>3
            <4>8. /\ UEP0_TX_LEN' <= Loaded'
                  /\ UEP0_TX_LEN' < UEP0_SIZE => USBFS_SetupReqLen' = 0
                  /\ pUSBFS_Descr' = SubSeq(D, Loaded' + 1, Len(D))
                  /\ USBFS_EP0_Buf' = SubSeq(D, Loaded' - UEP0_TX_LEN' + 1, Loaded')
                  /\ host'.got = SubSeq(D, 1, IF host'.unacked THEN Loaded' ELSE Loaded' - UEP0_TX_LEN')
                BY <4>2, <4>3, <4>5, <4>6, <4>7
            <4> QED
                BY <1>4, <4>8 DEF DescriptorSplit, D
        <3> QED
            BY <3>1, <3>2
    <2>12. RegisterWaits'
        BY <1>4, <1>13 DEF RegisterWaits
    <2> QED
        BY <1>8, <1>9, <1>10, <1>11, <2>9, <2>10, <2>11, <2>12 DEF ControlInv
<1> QED
    BY <1>1, <1>12, <1>13 DEF IsRead

(* Between two transfers only the registers and the addresses matter. *)
LEMMA IdleStage ==
    ASSUME host'.stage = "idle"
    PROVE  StageFits' /\ EveryStageAnswered' /\ DescriptorSplit' /\ RegisterWaits' /\ ReadsAnswered'
BY DEF StageFits, EveryStageAnswered, DescriptorSplit, RegisterWaits, ReadsAnswered

LEMMA HostIdleType ==
    HostIdle \in [stage : {"idle", "data_in", "data_out", "status_in", "status_out"},
                  got : Seq(Bytes), tog : Bit, unacked : BOOLEAN]
<1>1. <<>> \in Seq(Bytes)
    BY EmptySeq
<1> QED
    BY <1>1 DEF HostIdle, Bit

LEMMA HostWritesControlInv ==
    ASSUME ControlInv, NEW acked \in BOOLEAN, HostWrites(acked)
    PROVE  ControlInv'
<1> DEFINE req == USBFS_SetupReq
<1>1. /\ req \in Requests /\ req.code = "SET" /\ req.what = "Report" /\ host.stage = "data_out"
      /\ req.what \in Registers /\ UEP0_CTRL_H.rTog = 1
    BY RequestFacts DEF HostWrites, ControlInv, TypeOK, StageFits, EveryStageAnswered
<1>2. StoresReport
    BY <1>1 DEF StoresReport
<1>3. /\ reg' = [reg EXCEPT !["Report"] = req.value]
      /\ USBFS_EP0_Buf' \in Seq(Bytes) /\ UEP0_TX_LEN' = 0
      /\ UEP0_CTRL_H' = [t |-> "ACK", tTog |-> 1, r |-> "ACK", rTog |-> 1]
      /\ USBFS_SetupReq' = req /\ UNCHANGED <<USBFS_DevAddr, DEV_ADDR>> /\ DeviceTypes'
    <2>1. EP0_OUT /\ DeviceTypes'
        BY EP0_OUTTypes DEF HostWrites, ControlInv
    <2> QED
        BY <1>2, <2>1 DEF EP0_OUT, setup, Ctrl, DeviceTypes
<1>4. Packet' = <<>>
    <2>1. Len(USBFS_EP0_Buf') \in Nat
        BY <1>3, LenProperties
    <2>2. Packet' = SubSeq(USBFS_EP0_Buf', 1, 0)
        BY <1>3, <2>1 DEF Packet, First, Smaller
    <2> QED
        BY <2>2, SubSeqEmpty
<1>5. /\ host' = [host EXCEPT !.stage = IF acked THEN "status_in" ELSE "data_out"]
      /\ host'.stage \in {"status_in", "data_out"}
      /\ UNCHANGED <<hostAddr, believes, addrLost>> /\ Acknowledged(acked)
    BY DEF HostWrites, ControlInv, TypeOK
<1>6. TypeOK'
    <2>1. lost' \in 0 .. MaxLost
        BY <1>5, HostAssumption DEF Acknowledged, ControlInv, TypeOK
    <2>2. /\ hostAddr' \in Addresses \cup {0} /\ addrLost' \in BOOLEAN
          /\ believes' \in [Registers -> Bit \cup {Unknown}]
        BY <1>5 DEF ControlInv, TypeOK
    <2>3. host' \in [stage : {"idle", "data_in", "data_out", "status_in", "status_out"},
                     got : Seq(Bytes), tog : Bit, unacked : BOOLEAN]
        BY <1>5 DEF ControlInv, TypeOK
    <2> QED
        BY <1>3, <2>1, <2>2, <2>3 DEF TypeOK, DeviceTypes
<1>7. StageFits' /\ AddressKept' /\ DescriptorSplit' /\ RegisterWaits' /\ ReadsAnswered'
    BY <1>1, <1>3, <1>5 DEF ControlInv, StageFits, AddressKept, AddressAgrees, DescriptorSplit,
                            RegisterWaits, ReadsAnswered
<1>8. EveryStageAnswered'
    BY <1>1, <1>3, <1>4, <1>5 DEF EveryStageAnswered
<1>9. RegistersAgree'
    <2>1. reg'["Report"] = req.value
        BY <1>1, <1>3 DEF ControlInv, TypeOK
    <2>2. ~Known("Report")
        BY <1>1, UnknownAssumption DEF ControlInv, RegistersAgree, Known
    <2>3. ASSUME NEW r \in Registers, Known(r)'
          PROVE  reg'[r] = believes'[r]
        BY <1>3, <1>5, <2>2, <2>3 DEF ControlInv, TypeOK, RegistersAgree, Known
    <2> QED
        BY <1>1, <1>3, <1>5, <2>1, <2>3 DEF ControlInv, RegistersAgree
<1> QED
    BY <1>6, <1>7, <1>8, <1>9 DEF ControlInv

LEMMA HostStatusInControlInv ==
    ASSUME ControlInv, NEW acked \in BOOLEAN, HostStatusIn(acked)
    PROVE  ControlInv'
<1> DEFINE req == USBFS_SetupReq
<1>1. /\ req \in Requests /\ host.stage = "status_in" /\ host' = HostIdle
      /\ IF acked THEN EP0_IN ELSE UNCHANGED device
      /\ Acknowledged(acked)
      /\ believes' = [r \in Registers |->
                        IF req.code = "SET" /\ req.what = r THEN req.value ELSE believes[r]]
      /\ hostAddr' = IF req.code = "SET_ADDRESS" THEN req.value ELSE hostAddr
      /\ addrLost' = IF req.code = "SET_ADDRESS" THEN ~acked ELSE addrLost
    BY DEF HostStatusIn, ControlInv, TypeOK
<1>2. /\ USBFS_SetupReq' = req /\ reg' = reg /\ DeviceTypes'
      /\ DEV_ADDR' = IF acked THEN NewAddress ELSE DEV_ADDR
    <2>1. CASE acked
        BY <1>1, <2>1, EP0_INTypes DEF EP0_IN, ControlInv
    <2>2. CASE ~acked
        BY <1>1, <2>2 DEF device, setup, ep0, ControlInv, TypeOK, DeviceTypes
    <2> QED
        BY <2>1, <2>2
<1>3. TypeOK'
    <2>1. lost' \in 0 .. MaxLost
        BY <1>1, HostAssumption DEF Acknowledged, ControlInv, TypeOK
    <2>2. hostAddr' \in Addresses \cup {0} /\ believes' \in [Registers -> Bit \cup {Unknown}]
        BY <1>1, RequestFacts DEF ControlInv, TypeOK
    <2>3. addrLost' \in BOOLEAN
        BY <1>1 DEF ControlInv, TypeOK
    <2>4. host' \in [stage : {"idle", "data_in", "data_out", "status_in", "status_out"},
                     got : Seq(Bytes), tog : Bit, unacked : BOOLEAN]
        BY <1>1, HostIdleType
    <2> QED
        BY <1>2, <2>1, <2>2, <2>3, <2>4 DEF TypeOK, DeviceTypes
<1>4. host'.stage = "idle"
    BY <1>1 DEF HostIdle
<1>5. StageFits' /\ EveryStageAnswered' /\ DescriptorSplit' /\ RegisterWaits' /\ ReadsAnswered'
    BY <1>4, IdleStage
<1>6. AddressKept'
    <2>1. AddressAgrees'
        <3>1. CASE req.code = "SET_ADDRESS"
            BY <1>1, <1>2, <3>1 DEF ControlInv, AddressKept, AddressAgrees, NewAddress
        <3>2. CASE req.code # "SET_ADDRESS"
            BY <1>1, <1>2, <3>2 DEF ControlInv, AddressKept, AddressAgrees, NewAddress
        <3> QED
            BY <3>1, <3>2
    <2> QED
        BY <1>4, <2>1 DEF AddressKept
<1>7. RegistersAgree'
    <2>1. ASSUME NEW r \in Registers, Known(r)'
          PROVE  reg'[r] = believes'[r]
        <3>1. CASE req.code = "SET" /\ req.what = r
            <4>1. believes'[r] = req.value /\ (reg[r] = req.value \/ (r \in Halts /\ req.value = 1))
                BY <1>1, <3>1 DEF ControlInv, RegistersAgree
            <4> QED
                BY <1>2, <2>1, <4>1 DEF Known
        <3>2. CASE ~(req.code = "SET" /\ req.what = r)
            BY <1>1, <1>2, <2>1, <3>2 DEF ControlInv, RegistersAgree, Known
        <3> QED
            BY <3>1, <3>2
    <2> QED
        BY <1>4, <2>1 DEF RegistersAgree
<1> QED
    BY <1>3, <1>5, <1>6, <1>7 DEF ControlInv

LEMMA HostStatusOutControlInv ==
    ASSUME ControlInv, NEW acked \in BOOLEAN, HostStatusOut(acked)
    PROVE  ControlInv'
<1>1. /\ host.stage = "status_out" /\ host' = IF acked THEN HostIdle ELSE host
      /\ Acknowledged(acked) /\ UNCHANGED <<hostAddr, believes, addrLost>>
    BY DEF HostStatusOut
<1>2. UNCHANGED device
    <2>1. ~StoresReport
        BY <1>1 DEF StoresReport, ControlInv, StageFits, IsRead
    <2> QED
        BY <2>1 DEF HostStatusOut, EP0_OUT
<1>3. UNCHANGED <<USBFS_SetupReq, USBFS_SetupReqLen, pUSBFS_Descr, USBFS_EP0_Buf, UEP0_TX_LEN,
                  UEP0_CTRL_H, USBFS_DevAddr, DEV_ADDR, reg>>
    BY <1>2 DEF device, setup, ep0
<1>4. TypeOK'
    <2>1. lost' \in 0 .. MaxLost
        BY <1>1, HostAssumption DEF Acknowledged, ControlInv, TypeOK
    <2>2. host' \in [stage : {"idle", "data_in", "data_out", "status_in", "status_out"},
                     got : Seq(Bytes), tog : Bit, unacked : BOOLEAN]
        BY <1>1, HostIdleType DEF ControlInv, TypeOK
    <2> QED
        BY <1>1, <1>3, <2>1, <2>2 DEF ControlInv, TypeOK
<1>5. host'.stage \in {"idle", "status_out"}
    BY <1>1 DEF HostIdle
<1>6. AddressKept' /\ RegistersAgree'
    BY <1>1, <1>3, <1>5 DEF ControlInv, AddressKept, AddressAgrees, RegistersAgree, Known
<1>7. StageFits' /\ EveryStageAnswered' /\ DescriptorSplit' /\ RegisterWaits' /\ ReadsAnswered'
    <2>1. CASE acked
        BY <1>1, <2>1, IdleStage DEF HostIdle
    <2>2. CASE ~acked
        BY <1>1, <1>3, <2>2
        DEF ControlInv, StageFits, EveryStageAnswered, DescriptorSplit, RegisterWaits, ReadsAnswered,
            Packet, Loaded, Wanted, Known, Expected
    <2> QED
        BY <2>1, <2>2
<1> QED
    BY <1>4, <1>6, <1>7 DEF ControlInv

LEMMA HostGivesUpControlInv ==
    ASSUME ControlInv, HostGivesUp
    PROVE  ControlInv'
<1>1. /\ host' = HostIdle /\ host'.stage = "idle"
      /\ UNCHANGED <<USBFS_SetupReq, USBFS_SetupReqLen, pUSBFS_Descr, USBFS_EP0_Buf, UEP0_TX_LEN,
                     UEP0_CTRL_H, USBFS_DevAddr, DEV_ADDR, reg, hostAddr, believes, lost, addrLost>>
    BY DEF HostGivesUp, HostIdle, device, setup, ep0
<1>2. TypeOK'
    BY <1>1, HostIdleType DEF ControlInv, TypeOK
<1>3. AddressKept' /\ RegistersAgree'
    BY <1>1 DEF ControlInv, AddressKept, AddressAgrees, RegistersAgree, Known
<1>4. StageFits' /\ EveryStageAnswered' /\ DescriptorSplit' /\ RegisterWaits' /\ ReadsAnswered'
    BY <1>1, IdleStage
<1> QED
    BY <1>2, <1>3, <1>4 DEF ControlInv

LEMMA BUS_RSTControlInv ==
    ASSUME ControlInv, BUS_RST
    PROVE  ControlInv'
<1>1. /\ host' = HostIdle /\ host'.stage = "idle"
      /\ USBFS_DevAddr' = 0 /\ DEV_ADDR' = 0 /\ hostAddr' = 0
      /\ reg' = [r \in Registers |-> IF r \in Standard THEN 0 ELSE reg[r]]
      /\ believes' = [r \in Registers |-> IF r \in Standard THEN 0 ELSE believes[r]]
      /\ UNCHANGED <<USBFS_SetupReq, USBFS_SetupReqLen, pUSBFS_Descr, USBFS_EP0_Buf, UEP0_TX_LEN, lost>>
    BY DEF BUS_RST, HostIdle, setup
<1>2. TypeOK'
    <2>1. UEP0_CTRL_H' \in [t : Answers, tTog : Bit, r : Answers, rTog : Bit]
        BY DEF BUS_RST, Ctrl, Answers, Bit
    <2>2. reg' \in [Registers -> Bit] /\ believes' \in [Registers -> Bit \cup {Unknown}]
        BY <1>1 DEF ControlInv, TypeOK, Bit
    <2>3. addrLost' \in BOOLEAN
        BY Zenon DEF BUS_RST
    <2> QED
        BY <1>1, <2>1, <2>2, <2>3, HostIdleType DEF ControlInv, TypeOK
<1>3. AddressKept'
    BY <1>1 DEF AddressKept, AddressAgrees
<1>4. RegistersAgree'
    <2>1. ASSUME NEW r \in Registers, Known(r)'
          PROVE  reg'[r] = believes'[r]
        BY <1>1, <2>1 DEF ControlInv, RegistersAgree, Known
    <2> QED
        BY <1>1, <2>1 DEF RegistersAgree
<1>5. StageFits' /\ EveryStageAnswered' /\ DescriptorSplit' /\ RegisterWaits' /\ ReadsAnswered'
    BY <1>1, IdleStage
<1> QED
    BY <1>2, <1>3, <1>4, <1>5 DEF ControlInv

LEMMA RearmControlInv ==
    ASSUME ControlInv, NEW h \in Registers \cap Halts, Rearm(h)
    PROVE  ControlInv'
<1>1. /\ reg' = [reg EXCEPT ![h] = 0]
      /\ UNCHANGED <<USBFS_SetupReq, USBFS_SetupReqLen, pUSBFS_Descr, USBFS_EP0_Buf, UEP0_TX_LEN,
                     UEP0_CTRL_H, USBFS_DevAddr, DEV_ADDR, host, hostAddr, believes, lost, addrLost>>
    BY DEF Rearm, setup, ep0
<1>2. TypeOK'
    <2>1. reg' \in [Registers -> Bit]
        BY <1>1 DEF ControlInv, TypeOK, Bit
    <2> QED
        BY <1>1, <2>1 DEF ControlInv, TypeOK
<1>3. RegistersAgree'
    <2>1. ASSUME NEW r \in Registers, Known(r)'
          PROVE  reg'[r] = believes'[r]
        BY <1>1, <2>1 DEF ControlInv, TypeOK, RegistersAgree, Known
    <2>2. ASSUME host.stage = "status_in", USBFS_SetupReq.code = "SET"
          PROVE  LET req == USBFS_SetupReq
                 IN  reg'[req.what] = req.value \/ (req.what \in Halts /\ req.value = 1)
        BY <1>1, <2>2, RequestFacts DEF ControlInv, TypeOK, RegistersAgree, Bit
    <2>3. host.stage = "data_out" => believes["Report"] = Unknown
        BY DEF ControlInv, RegistersAgree
    <2> QED
        BY <1>1, <2>1, <2>2, <2>3 DEF RegistersAgree
<1>4. /\ StageFits' /\ EveryStageAnswered' /\ AddressKept' /\ DescriptorSplit' /\ RegisterWaits'
      /\ ReadsAnswered'
    BY <1>1 DEF ControlInv, StageFits, EveryStageAnswered, AddressKept, AddressAgrees, DescriptorSplit,
                RegisterWaits, ReadsAnswered, Packet, Loaded, Wanted, Known, Expected
<1> QED
    BY <1>2, <1>3, <1>4 DEF ControlInv

-----------------------------------------------------------------------------
(* Every step keeps the invariant. *)
LEMMA NextControlInv == ControlInv /\ [Next]_vars => ControlInv'
<1> SUFFICES ASSUME ControlInv, [Next]_vars PROVE ControlInv'
    OBVIOUS
<1>1. ASSUME NEW req \in Requests, NEW acked \in BOOLEAN, HostSetup(req, acked)
      PROVE  ControlInv'
    BY <1>1, HostSetupControlInv
<1>2. ASSUME NEW acked \in BOOLEAN, HostReads(acked)
      PROVE  ControlInv'
    BY <1>2, HostReadsControlInv
<1>3. ASSUME NEW acked \in BOOLEAN, HostWrites(acked)
      PROVE  ControlInv'
    BY <1>3, HostWritesControlInv
<1>4. ASSUME NEW acked \in BOOLEAN, HostStatusIn(acked)
      PROVE  ControlInv'
    BY <1>4, HostStatusInControlInv
<1>5. ASSUME NEW acked \in BOOLEAN, HostStatusOut(acked)
      PROVE  ControlInv'
    BY <1>5, HostStatusOutControlInv
<1>6. CASE HostGivesUp
    BY <1>6, HostGivesUpControlInv
<1>7. CASE BUS_RST
    BY <1>7, BUS_RSTControlInv
<1>8. ASSUME NEW h \in Registers \cap Halts, Rearm(h)
      PROVE  ControlInv'
    BY <1>8, RearmControlInv
<1>9. CASE UNCHANGED vars
    BY <1>9 DEF vars, device, setup, ep0, ControlInv, TypeOK, StageFits, EveryStageAnswered, AddressKept,
                AddressAgrees, RegistersAgree, DescriptorSplit, RegisterWaits, ReadsAnswered, Packet,
                Loaded, Wanted, Known, Expected
<1> QED
    BY <1>1, <1>2, <1>3, <1>4, <1>5, <1>6, <1>7, <1>8, <1>9 DEF Next

(* The inductive invariant of EP0, that what the interrupt handler has     *)
(* prepared is what the stage the host is in asks for, holds in every      *)
(* reachable state, whatever packets are lost and transfers abandoned.     *)
THEOREM ControlInvariant == Spec => []ControlInv
<1>1. Init => ControlInv
    BY InitControlInv
<1>2. ControlInv /\ [Next]_vars => ControlInv'
    BY NextControlInv
<1> QED
    BY <1>1, <1>2, PTL DEF Spec

(* What EP0 has loaded fits its buffer and was asked for, and the count of *)
(* what is still to come never underflows (USBFS_IRQHandler).              *)
THEOREM TypeCorrect == Spec => []TypeOK
<1>1. ControlInv => TypeOK
    BY DEF ControlInv
<1> QED
    BY <1>1, ControlInvariant, PTL

(* A host that has read to the end has the whole of what it asked for,     *)
(* whatever acknowledgements were lost and transfers broken off.           *)
THEOREM ReadsCorrect == Spec => []ReadsAnswered
<1>1. ControlInv => ReadsAnswered
    BY DEF ControlInv
<1> QED
    BY <1>1, ControlInvariant, PTL

(* Host and key use the same address, unless the acknowledgement of the    *)
(* status stage of SET_ADDRESS was lost.                                   *)
THEOREM AddressCorrect == Spec => []AddressAgrees
<1>1. ControlInv => AddressAgrees
    BY DEF ControlInv, AddressKept
<1> QED
    BY <1>1, ControlInvariant, PTL

(* EP0 answers the stage the host is in, with the toggle it waits for.     *)
THEOREM StagesCorrect == Spec => []EveryStageAnswered
<1>1. ControlInv => EveryStageAnswered
    BY DEF ControlInv
<1> QED
    BY <1>1, ControlInvariant, PTL

=============================================================================
