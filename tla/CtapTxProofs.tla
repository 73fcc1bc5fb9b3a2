----------------------------- MODULE CtapTxProofs -----------------------------
(***************************************************************************)
(* Proofs about CtapTx for responses of any length, any number of polls    *)
(* before the host is given up, and any number of faults.                  *)
(***************************************************************************)
EXTENDS CtapTx, FiniteSetTheorems, SequenceTheorems, TLAPS

Waits == pc \in {"wait_free", "wait_sent"}
Fills == pc \in {"fill", "arm_load", "arm_store"}
Accepted(f) == \E k \in DOMAIN got : got[k] = f

(* What the buffer, the controller and the main loop agree on.  A transfer *)
(* goes on with the toggle it was started with, and a register value that  *)
(* the main loop is about to store is stale only after the end of one.     *)
Handover ==
    /\ USBFS_EP2_Buf # Torn
    /\ USBFS_EP2_Buf = NoFrame => UEP2_CTRL_H.res # "ACK" /\ pc \notin {"arm_load", "arm_store"}
    /\ xfer # NoXfer => xfer.frame # NoFrame
    /\ Waits => op = "response"
    /\ Fills => UEP2_CTRL_H.res # "ACK"
    /\ pc = "wait_sent" /\ xfer # NoXfer => UEP2_CTRL_H.res = "ACK"
    /\ op = "keepalive" /\ pc \in {"arm_load", "arm_store"} => USBFS_EP2_Buf = Keepalive
    /\ xfer # NoXfer => xfer.tog = UEP2_CTRL_H.tog
    /\ xfer # NoXfer /\ pc \in {"stop_store", "arm_store"} => reg.tog = UEP2_CTRL_H.tog
    /\ pc = "stop_store" /\ UEP2_CTRL_H.res = "ACK" => reg.tog = UEP2_CTRL_H.tog

(* A response gives its host up at most once. *)
TimeoutsCounted ==
    /\ timeouts <= responses
    /\ op = "response" => responses > 0
    /\ op = "response" /\ (Waits \/ Fills) => timeouts < responses
    /\ offset <= payload_len

(* Before any timeout, nothing but a keepalive is ever replaced while it   *)
(* is being sent.                                                          *)
NothingTorn ==
    timeouts = 0 =>
        /\ pc \in {"stop_load", "stop_store"} => op = "keepalive"
        /\ xfer # NoXfer =>
              \/ xfer.frame = Keepalive /\ (UEP2_CTRL_H.res = "ACK" \/ (op = "keepalive" /\ Fills))
              \/ xfer.frame \in Frames /\ pc = "wait_sent" /\ UEP2_CTRL_H.res = "ACK"
        /\ UEP2_CTRL_H.res = "ACK" => USBFS_EP2_Buf = Keepalive \/ pc = "wait_sent"
        /\ \A k \in DOMAIN got : got[k] # Torn

(* The frame in the buffer comes after all that were accepted; if it is    *)
(* one of those, the host will not take it again.                          *)
BufferIsLatest ==
    LET buf == USBFS_EP2_Buf IN
    /\ xfer.frame \in Frames => xfer.frame = buf /\ pc \notin {"arm_load", "arm_store"}
    /\ buf \in Frames =>
          /\ buf.response <= responses
          /\ \A k \in DOMAIN got : got[k] # Torn => Before(got[k], buf) \/ got[k] = buf
          /\ Accepted(buf) => /\ UEP2_CTRL_H.res = "ACK" => UEP2_CTRL_H.tog # hostTog
                              /\ xfer # NoXfer => xfer.tog # hostTog
    /\ op = "response" /\ pc \in {"arm_load", "arm_store", "wait_sent"} =>
          buf \in Frames /\ buf.response = responses /\ (payload_len > 0 => buf.seq + 1 = offset)
    /\ op = "response" /\ pc \in {"arm_load", "arm_store"} => ~Accepted(buf)

(* What is filled in next comes after all that were accepted. *)
NextIsLater ==
    /\ \A k \in DOMAIN got : got[k] # Torn => got[k].response <= responses
    /\ op = "response" /\ pc \in {"wait_free", "fill"} =>
          /\ offset < payload_len \/ payload_len = 0
          /\ \A k \in DOMAIN got : got[k] # Torn => Before(got[k], Frame(responses, offset))
          /\ USBFS_EP2_Buf \in Frames => Before(USBFS_EP2_Buf, Frame(responses, offset))

OrderInv ==
    /\ TypeOK
    /\ Handover
    /\ TimeoutsCounted
    /\ NothingTorn
    /\ BufferIsLatest
    /\ NextIsLater
    /\ AcceptedInOrder

(* The frame being waited for was refused by the host or cut off. *)
Doomed == pc = "wait_sent" /\ UEP2_CTRL_H.res # "ACK" /\ ~Accepted(USBFS_EP2_Buf)

(* The toggles are such that the host will take the next frame of a        *)
(* response: host and key agree, or will once the host has read what is in *)
(* the buffer, a keepalive or a frame it has accepted already.             *)
InStep == UEP2_CTRL_H.tog = hostTog
Settled == UEP2_CTRL_H.res = "ACK" \/ (xfer = NoXfer /\ InStep)

Aligned ==
    \/ pc \in {"idle", "wait_free"} /\ Settled
    \/ op = "keepalive" /\ pc # "idle"
    \/ pc \in {"fill", "arm_load"} /\ xfer = NoXfer /\ InStep
    \/ pc = "arm_store" /\ xfer = NoXfer /\ reg.tog = hostTog
    \/ pc = "wait_sent" /\ Accepted(USBFS_EP2_Buf) /\ Settled
    \/ pc = "wait_sent" /\ InStep /\ (xfer = NoXfer \/ xfer.frame = USBFS_EP2_Buf)

One(b) == IF b THEN 1 ELSE 0

(* The frames lost and those about to be are paid for by faults. *)
FaultsPay == Cardinality(Lost) + One(Doomed) + One(~Aligned) <= timeouts + faults

LossInv == OrderInv /\ IsFiniteSet(put) /\ FaultsPay

-----------------------------------------------------------------------------
(* Frames of responses are none of the special frames. *)
LEMMA FrameFacts ==
    /\ Keepalive \notin Frames /\ Torn \notin Frames /\ NoFrame \notin Frames
    /\ Keepalive # Torn /\ Keepalive # NoFrame /\ Torn # NoFrame
    /\ \A f \in Frames : f.response \in Nat /\ f.response > 0 /\ f.seq \in Nat
    /\ \A n \in 1 .. MaxResponses, i \in 0 .. MaxLen :
          /\ Frame(n, i) \in Frames
          /\ Frame(n, i).response = n /\ Frame(n, i).seq = i
BY BoundsAssumption DEF Keepalive, Torn, NoFrame, Frame, Frames

LEMMA IdleFacts ==
    /\ Idle \in Ctrl /\ Idle.res = "NAK" /\ Idle.tog = 0
    /\ NoXfer \in [frame : AnyFrame, tog : {0, 1}] /\ NoXfer.frame = NoFrame
BY DEF Idle, Ctrl, NoXfer, AnyFrame

LEMMA fido2_send_keepaliveOrderInv ==
    ASSUME OrderInv, fido2_send_keepalive
    PROVE  OrderInv'
<1> USE FrameFacts, BoundsAssumption DEF OrderInv, fido2_send_keepalive, device, locals, counts
<1>1. TypeOK'
    BY DEF TypeOK, AnyFrame, Ctrl, TimeoutsCounted, Waits, Handover
<1>2. Handover'
    BY DEF TypeOK, Ctrl, Handover, Waits, Fills
<1>3. TimeoutsCounted'
    BY DEF TypeOK, TimeoutsCounted, Handover, Waits, Fills
<1>4. NothingTorn'
    BY DEF TypeOK, NothingTorn, TimeoutsCounted, Handover, Waits, Fills
<1>5. BufferIsLatest'
    BY DEF TypeOK, BufferIsLatest, NextIsLater, TimeoutsCounted, Handover, Accepted, Waits, Fills
<1>6. NextIsLater'
    BY DEF TypeOK, NextIsLater, BufferIsLatest, TimeoutsCounted, Handover, Before, Waits, Fills
<1>7. AcceptedInOrder'
    BY DEF AcceptedInOrder
<1> QED
    BY <1>1, <1>2, <1>3, <1>4, <1>5, <1>6, <1>7

LEMMA ctap_send_responseOrderInv ==
    ASSUME OrderInv, NEW len \in 0 .. MaxLen, ctap_send_response(len)
    PROVE  OrderInv'
<1> USE FrameFacts, BoundsAssumption DEF OrderInv, ctap_send_response, device, locals, counts
<1>1. TypeOK'
    BY DEF TypeOK, AnyFrame, Ctrl, TimeoutsCounted, Waits, Handover
<1>2. Handover'
    BY DEF TypeOK, Ctrl, Handover, Waits, Fills
<1>3. TimeoutsCounted'
    BY DEF TypeOK, TimeoutsCounted, Handover, Waits, Fills
<1>4. NothingTorn'
    BY DEF TypeOK, NothingTorn, TimeoutsCounted, Handover, Waits, Fills
<1>5. BufferIsLatest'
    BY DEF TypeOK, BufferIsLatest, NextIsLater, TimeoutsCounted, Handover, Accepted, Waits, Fills
<1>6. NextIsLater'
    BY DEF TypeOK, NextIsLater, BufferIsLatest, TimeoutsCounted, Handover, Before, Waits, Fills
<1>7. AcceptedInOrder'
    BY DEF AcceptedInOrder
<1> QED
    BY <1>1, <1>2, <1>3, <1>4, <1>5, <1>6, <1>7

LEMMA PollOrderInv ==
    ASSUME OrderInv, Poll
    PROVE  OrderInv'
<1> USE FrameFacts, BoundsAssumption DEF OrderInv, Poll, device, locals, counts
<1>1. TypeOK'
    BY DEF TypeOK, AnyFrame, Ctrl, TimeoutsCounted, Waits, Handover
<1>2. Handover'
    BY DEF TypeOK, Ctrl, Handover, Waits, Fills
<1>3. TimeoutsCounted'
    BY DEF TypeOK, TimeoutsCounted, Handover, Waits, Fills
<1>4. NothingTorn'
    BY DEF TypeOK, NothingTorn, TimeoutsCounted, Handover, Waits, Fills
<1>5. BufferIsLatest'
    BY DEF TypeOK, BufferIsLatest, NextIsLater, TimeoutsCounted, Handover, Accepted, Waits, Fills
<1>6. NextIsLater'
    BY DEF TypeOK, NextIsLater, BufferIsLatest, TimeoutsCounted, Handover, Before, Waits, Fills
<1>7. AcceptedInOrder'
    BY DEF AcceptedInOrder
<1> QED
    BY <1>1, <1>2, <1>3, <1>4, <1>5, <1>6, <1>7

LEMMA PolledOrderInv ==
    ASSUME OrderInv, Polled
    PROVE  OrderInv'
<1> USE FrameFacts, BoundsAssumption DEF OrderInv, Polled, device, locals, counts
<1>1. TypeOK'
    BY DEF TypeOK, AnyFrame, Ctrl, TimeoutsCounted, Waits, Handover
<1>2. Handover'
    BY DEF TypeOK, Ctrl, Handover, Waits, Fills
<1>3. TimeoutsCounted'
    BY DEF TypeOK, TimeoutsCounted, Handover, Waits, Fills
<1>4. NothingTorn'
    BY DEF TypeOK, NothingTorn, TimeoutsCounted, Handover, Waits, Fills
<1>5. BufferIsLatest'
    BY DEF TypeOK, BufferIsLatest, NextIsLater, TimeoutsCounted, Handover, Accepted, Waits, Fills
<1>6. NextIsLater'
    BY SMTT(60) DEF TypeOK, NextIsLater, BufferIsLatest, TimeoutsCounted, Handover, Before, Waits, Fills
<1>7. AcceptedInOrder'
    BY DEF AcceptedInOrder
<1> QED
    BY <1>1, <1>2, <1>3, <1>4, <1>5, <1>6, <1>7

LEMMA TimedOutOrderInv ==
    ASSUME OrderInv, TimedOut
    PROVE  OrderInv'
<1> USE FrameFacts, BoundsAssumption DEF OrderInv, TimedOut, device, locals, counts
<1>1. TypeOK'
    BY DEF TypeOK, AnyFrame, Ctrl, TimeoutsCounted, Waits, Handover
<1>2. Handover'
    BY DEF TypeOK, Ctrl, Handover, Waits, Fills
<1>3. TimeoutsCounted'
    BY DEF TypeOK, TimeoutsCounted, Handover, Waits, Fills
<1>4. NothingTorn'
    BY DEF TypeOK, NothingTorn, TimeoutsCounted, Handover, Waits, Fills
<1>5. BufferIsLatest'
    BY DEF TypeOK, BufferIsLatest, NextIsLater, TimeoutsCounted, Handover, Accepted, Waits, Fills
<1>6. NextIsLater'
    BY DEF TypeOK, NextIsLater, BufferIsLatest, TimeoutsCounted, Handover, Before, Waits, Fills
<1>7. AcceptedInOrder'
    BY DEF AcceptedInOrder, TypeOK
<1> QED
    BY <1>1, <1>2, <1>3, <1>4, <1>5, <1>6, <1>7

LEMMA StopLoadOrderInv ==
    ASSUME OrderInv, StopLoad
    PROVE  OrderInv'
<1> USE FrameFacts, BoundsAssumption DEF OrderInv, StopLoad, device, locals, counts
<1>1. TypeOK'
    BY DEF TypeOK, AnyFrame, Ctrl, TimeoutsCounted, Waits, Handover
<1>2. Handover'
    BY DEF TypeOK, Ctrl, Handover, Waits, Fills
<1>3. TimeoutsCounted'
    BY DEF TypeOK, TimeoutsCounted, Handover, Waits, Fills
<1>4. NothingTorn'
    BY DEF TypeOK, NothingTorn, TimeoutsCounted, Handover, Waits, Fills
<1>5. BufferIsLatest'
    BY DEF TypeOK, BufferIsLatest, NextIsLater, TimeoutsCounted, Handover, Accepted, Waits, Fills
<1>6. NextIsLater'
    BY DEF TypeOK, NextIsLater, BufferIsLatest, TimeoutsCounted, Handover, Before, Waits, Fills
<1>7. AcceptedInOrder'
    BY DEF AcceptedInOrder
<1> QED
    BY <1>1, <1>2, <1>3, <1>4, <1>5, <1>6, <1>7

LEMMA StopStoreOrderInv ==
    ASSUME OrderInv, StopStore
    PROVE  OrderInv'
<1> USE FrameFacts, BoundsAssumption DEF OrderInv, StopStore, device, locals, counts
<1>1. TypeOK'
    BY DEF TypeOK, AnyFrame, Ctrl, TimeoutsCounted, Waits, Handover
<1>2. Handover'
    BY DEF TypeOK, Ctrl, Handover, Waits, Fills
<1>3. TimeoutsCounted'
    BY DEF TypeOK, TimeoutsCounted, Handover, Waits, Fills
<1>4. NothingTorn'
    BY DEF TypeOK, NothingTorn, TimeoutsCounted, Handover, Waits, Fills
<1>5. BufferIsLatest'
    BY DEF TypeOK, BufferIsLatest, NextIsLater, TimeoutsCounted, Handover, Accepted, Waits, Fills
<1>6. NextIsLater'
    BY DEF TypeOK, NextIsLater, BufferIsLatest, TimeoutsCounted, Handover, Before, Waits, Fills
<1>7. AcceptedInOrder'
    BY DEF AcceptedInOrder
<1> QED
    BY <1>1, <1>2, <1>3, <1>4, <1>5, <1>6, <1>7

LEMMA FillOrderInv ==
    ASSUME OrderInv, Fill
    PROVE  OrderInv'
<1> DEFINE new == IF op = "keepalive" THEN Keepalive ELSE Frame(responses, offset)
<1> USE FrameFacts, BoundsAssumption DEF OrderInv, locals, counts
<1>1. /\ USBFS_EP2_Buf' = new
      /\ xfer' = IF xfer = NoXfer THEN NoXfer ELSE [xfer EXCEPT !.frame = Mixed(xfer.frame, new)]
      /\ offset' = IF op = "response" /\ offset < payload_len THEN offset + 1 ELSE offset
      /\ pc = "fill" /\ pc' = "arm_load" /\ UEP2_CTRL_H.res # "ACK"
      /\ UNCHANGED <<UEP2_CTRL_H, op, reg, payload_len, timeout, hostTog, responses, keepalives,
                     timeouts, faults, put, got>>
    BY DEF Fill, Handover, Fills
<1>2. /\ op = "keepalive" => new = Keepalive
      /\ op = "response" => new = Frame(responses, offset) /\ new \in Frames
                             /\ new.response = responses /\ new.seq = offset
      /\ op \in {"keepalive", "response"}
    BY DEF TypeOK, TimeoutsCounted
<1> HIDE DEF new
<1>3. /\ xfer = NoXfer => xfer' = NoXfer
      /\ xfer # NoXfer => /\ xfer'.frame = (IF xfer.frame = Keepalive /\ new = Keepalive THEN Keepalive ELSE Torn)
                          /\ xfer'.tog = xfer.tog
                          /\ xfer' \in [frame : {Keepalive, Torn}, tog : {0, 1}]
    <2>1. Mixed(xfer.frame, new) \in {Keepalive, Torn}
        BY DEF Mixed
    <2> QED
        BY <1>1, <2>1 DEF TypeOK, Mixed
<1>4. TypeOK'
    <2>1. xfer' \in [frame : AnyFrame, tog : {0, 1}] /\ USBFS_EP2_Buf' \in AnyFrame
        BY <1>1, <1>2, <1>3, IdleFacts DEF AnyFrame
    <2>2. offset' \in 0 .. MaxLen
        BY <1>1 DEF TypeOK
    <2> QED
        BY <1>1, <2>1, <2>2 DEF TypeOK
<1>5. Handover'
    BY <1>1, <1>2, <1>3, IdleFacts DEF Handover, Waits, Fills
<1>6. TimeoutsCounted'
    BY <1>1 DEF TimeoutsCounted, TypeOK, Waits, Fills
<1>7. NothingTorn'
    <2> SUFFICES ASSUME timeouts = 0
                 PROVE  NothingTorn'
        BY <1>1 DEF NothingTorn
    <2>1. xfer # NoXfer => xfer.frame = Keepalive /\ op = "keepalive"
        BY <1>1 DEF NothingTorn
    <2> QED
        BY <1>1, <1>2, <1>3, <2>1 DEF NothingTorn, Fills
<1>8. BufferIsLatest'
    <2>1. xfer'.frame \notin Frames
        BY <1>3, IdleFacts
    <2>2. op = "response" => \A k \in DOMAIN got : got[k] # Torn => Before(got[k], new)
        BY <1>1, <1>2 DEF NextIsLater
    <2>3. op = "response" => ~Accepted(new)
        <3>1. new \in Frames => ~Before(new, new)
            BY DEF Before
        <3> QED
            BY <1>2, <2>2, <3>1 DEF Accepted
    <2>4. op = "response" /\ payload_len > 0 => new.seq + 1 = offset'
        BY <1>1, <1>2 DEF NextIsLater, TypeOK
    <2>5. Keepalive \notin Frames /\ responses \in Nat
        BY DEF TypeOK
    <2> QED
        BY <1>1, <1>2, <2>1, <2>2, <2>3, <2>4, <2>5 DEF BufferIsLatest, Accepted
<1>9. NextIsLater'
    BY <1>1 DEF NextIsLater
<1>10. AcceptedInOrder'
    BY <1>1 DEF AcceptedInOrder
<1> QED
    BY <1>4, <1>5, <1>6, <1>7, <1>8, <1>9, <1>10

LEMMA ArmLoadOrderInv ==
    ASSUME OrderInv, ArmLoad
    PROVE  OrderInv'
<1> USE FrameFacts, BoundsAssumption DEF OrderInv, ArmLoad, device, locals, counts
<1>1. TypeOK'
    BY DEF TypeOK, AnyFrame, Ctrl, TimeoutsCounted, Waits, Handover
<1>2. Handover'
    BY DEF TypeOK, Ctrl, Handover, Waits, Fills
<1>3. TimeoutsCounted'
    BY DEF TypeOK, TimeoutsCounted, Handover, Waits, Fills
<1>4. NothingTorn'
    BY DEF TypeOK, NothingTorn, TimeoutsCounted, Handover, Waits, Fills
<1>5. BufferIsLatest'
    BY DEF TypeOK, BufferIsLatest, NextIsLater, TimeoutsCounted, Handover, Accepted, Waits, Fills
<1>6. NextIsLater'
    BY DEF TypeOK, NextIsLater, BufferIsLatest, TimeoutsCounted, Handover, Before, Waits, Fills
<1>7. AcceptedInOrder'
    BY DEF AcceptedInOrder
<1> QED
    BY <1>1, <1>2, <1>3, <1>4, <1>5, <1>6, <1>7

LEMMA ArmStoreOrderInv ==
    ASSUME OrderInv, ArmStore
    PROVE  OrderInv'
<1> USE FrameFacts, BoundsAssumption DEF OrderInv, ArmStore, device, locals, counts
<1>1. TypeOK'
    BY SMTT(60) DEF TypeOK, AnyFrame, Ctrl, BufferIsLatest
<1>2. Handover'
    BY DEF TypeOK, Ctrl, Handover, Waits, Fills
<1>3. TimeoutsCounted'
    BY DEF TypeOK, TimeoutsCounted, Handover, Waits, Fills
<1>4. NothingTorn'
    BY DEF TypeOK, NothingTorn, TimeoutsCounted, Handover, Waits, Fills
<1>5. BufferIsLatest'
    BY DEF TypeOK, BufferIsLatest, NextIsLater, TimeoutsCounted, Handover, Accepted, Waits, Fills
<1>6. NextIsLater'
    BY DEF TypeOK, NextIsLater, BufferIsLatest, TimeoutsCounted, Handover, Before, Waits, Fills
<1>7. AcceptedInOrder'
    BY DEF AcceptedInOrder
<1> QED
    BY <1>1, <1>2, <1>3, <1>4, <1>5, <1>6, <1>7

LEMMA HostReadsOrderInv ==
    ASSUME OrderInv, HostReads
    PROVE  OrderInv'
<1> USE FrameFacts, BoundsAssumption DEF OrderInv, HostReads, device, locals, counts
<1>1. TypeOK'
    BY DEF TypeOK, AnyFrame, Ctrl, TimeoutsCounted, Waits, Handover
<1>2. Handover'
    BY DEF TypeOK, Ctrl, Handover, Waits, Fills
<1>3. TimeoutsCounted'
    BY DEF TypeOK, TimeoutsCounted, Handover, Waits, Fills
<1>4. NothingTorn'
    BY DEF TypeOK, NothingTorn, BufferIsLatest, TimeoutsCounted, Handover, Waits, Fills
<1>5. BufferIsLatest'
    BY DEF TypeOK, BufferIsLatest, NextIsLater, TimeoutsCounted, Handover, Accepted, Waits, Fills
<1>6. NextIsLater'
    BY DEF TypeOK, NextIsLater, BufferIsLatest, TimeoutsCounted, Handover, Before, Waits, Fills
<1>7. AcceptedInOrder'
    BY DEF AcceptedInOrder
<1> QED
    BY <1>1, <1>2, <1>3, <1>4, <1>5, <1>6, <1>7

LEMMA BUS_RSTOrderInv ==
    ASSUME OrderInv, BUS_RST
    PROVE  OrderInv'
<1> USE FrameFacts, IdleFacts, BoundsAssumption DEF OrderInv, BUS_RST, device, locals, counts
<1>1. TypeOK'
    BY DEF TypeOK, AnyFrame, Ctrl, TimeoutsCounted, Waits, Handover
<1>2. Handover'
    BY DEF TypeOK, Ctrl, Handover, Waits, Fills
<1>3. TimeoutsCounted'
    BY DEF TypeOK, TimeoutsCounted, Handover, Waits, Fills
<1>4. NothingTorn'
    BY DEF TypeOK, NothingTorn, TimeoutsCounted, Handover, Waits, Fills
<1>5. BufferIsLatest'
    BY DEF TypeOK, BufferIsLatest, NextIsLater, TimeoutsCounted, Handover, Accepted, Waits, Fills
<1>6. NextIsLater'
    BY DEF TypeOK, NextIsLater, BufferIsLatest, TimeoutsCounted, Handover, Before, Waits, Fills
<1>7. AcceptedInOrder'
    BY DEF AcceptedInOrder
<1> QED
    BY <1>1, <1>2, <1>3, <1>4, <1>5, <1>6, <1>7

LEMMA CLEAR_FEATURE_EP2OrderInv ==
    ASSUME OrderInv, CLEAR_FEATURE_EP2
    PROVE  OrderInv'
<1> USE FrameFacts, IdleFacts, BoundsAssumption DEF OrderInv, CLEAR_FEATURE_EP2, device, locals, counts
<1>1. TypeOK'
    BY DEF TypeOK, AnyFrame, Ctrl, TimeoutsCounted, Waits, Handover
<1>2. Handover'
    BY DEF TypeOK, Ctrl, Handover, Waits, Fills
<1>3. TimeoutsCounted'
    BY DEF TypeOK, TimeoutsCounted, Handover, Waits, Fills
<1>4. NothingTorn'
    BY DEF TypeOK, NothingTorn, TimeoutsCounted, Handover, Waits, Fills
<1>5. BufferIsLatest'
    BY DEF TypeOK, BufferIsLatest, NextIsLater, TimeoutsCounted, Handover, Accepted, Waits, Fills
<1>6. NextIsLater'
    BY DEF TypeOK, NextIsLater, BufferIsLatest, TimeoutsCounted, Handover, Before, Waits, Fills
<1>7. AcceptedInOrder'
    BY DEF AcceptedInOrder
<1> QED
    BY <1>1, <1>2, <1>3, <1>4, <1>5, <1>6, <1>7

LEMMA SET_FEATURE_EP2OrderInv ==
    ASSUME OrderInv, SET_FEATURE_EP2
    PROVE  OrderInv'
<1> USE FrameFacts, BoundsAssumption DEF OrderInv, SET_FEATURE_EP2, device, locals, counts
<1>1. TypeOK'
    BY SMTT(60) DEF TypeOK, AnyFrame, Ctrl, TimeoutsCounted, Waits, Handover
<1>2. Handover'
    BY DEF TypeOK, Ctrl, Handover, Waits, Fills
<1>3. TimeoutsCounted'
    BY DEF TypeOK, TimeoutsCounted, Handover, Waits, Fills
<1>4. NothingTorn'
    BY DEF TypeOK, NothingTorn, TimeoutsCounted, Handover, Waits, Fills
<1>5. BufferIsLatest'
    BY DEF TypeOK, BufferIsLatest, NextIsLater, TimeoutsCounted, Handover, Accepted, Waits, Fills
<1>6. NextIsLater'
    BY DEF TypeOK, NextIsLater, BufferIsLatest, TimeoutsCounted, Handover, Before, Waits, Fills
<1>7. AcceptedInOrder'
    BY DEF AcceptedInOrder
<1> QED
    BY <1>1, <1>2, <1>3, <1>4, <1>5, <1>6, <1>7

(* What the host makes of a frame: the frames accepted so far stay, and a  *)
(* frame of a response is added only if it is later than all of them.      *)
LEMMA HostTakesFacts ==
    ASSUME OrderInv, xfer # NoXfer, HostTakes
    PROVE  /\ got' \in Seq(Frames \cup {Torn}) /\ hostTog' \in {0, 1}
           /\ xfer.tog # hostTog => hostTog' = hostTog /\ got' = got
           /\ xfer.tog = hostTog => /\ hostTog' = 1 - xfer.tog
                                    /\ xfer.frame # Keepalive => \E k \in DOMAIN got' : got'[k] = xfer.frame
           /\ \A k \in DOMAIN got : k \in DOMAIN got' /\ got'[k] = got[k]
           /\ DOMAIN got \subseteq Nat /\ DOMAIN got' \subseteq Nat
           /\ \A k \in DOMAIN got' : got'[k] \in Frames \cup {Torn}
           /\ \A k \in DOMAIN got' :
                 \/ k \in DOMAIN got /\ got'[k] = got[k]
                 \/ /\ \A j \in DOMAIN got : j < k
                    /\ \A j \in DOMAIN got' : j <= k
                    /\ got'[k] = xfer.frame /\ xfer.tog = hostTog
                    /\ xfer.frame \in Frames =>
                          /\ xfer.frame = USBFS_EP2_Buf
                          /\ \A j \in DOMAIN got : got[j] # Torn => Before(got[j], xfer.frame)
<1>1. /\ got \in Seq(Frames \cup {Torn}) /\ DOMAIN got = 1 .. Len(got) /\ Len(got) \in Nat
      /\ \A k \in DOMAIN got : got[k] \in Frames \cup {Torn}
    BY LenProperties, ElementOfSeq DEF OrderInv, TypeOK
<1>2. /\ xfer.frame \in Frames \cup {Keepalive, Torn}
      /\ xfer.tog \in {0, 1} /\ hostTog \in {0, 1}
    BY DEF OrderInv, TypeOK, AnyFrame, Handover
<1>3. CASE xfer.tog # hostTog
    BY <1>1, <1>2, <1>3 DEF HostTakes
<1>4. CASE xfer.tog = hostTog /\ xfer.frame = Keepalive
    BY <1>1, <1>2, <1>4 DEF HostTakes, Flip
<1>5. CASE xfer.tog = hostTog /\ xfer.frame # Keepalive
    <2>1. got' = Append(got, xfer.frame) /\ hostTog' = 1 - xfer.tog
        BY <1>5 DEF HostTakes, Flip
    <2>2. xfer.frame \in Frames \cup {Torn}
        BY <1>2, <1>5
    <2>3. /\ got' \in Seq(Frames \cup {Torn}) /\ Len(got') = Len(got) + 1
          /\ \A i \in 1 .. Len(got) : got'[i] = got[i]
          /\ got'[Len(got) + 1] = xfer.frame
        BY <1>1, <2>1, <2>2, AppendProperties
    <2>4. DOMAIN got' = 1 .. Len(got) + 1
        BY <2>3, LenProperties
    <2>5. xfer.frame \in Frames =>
             /\ xfer.frame = USBFS_EP2_Buf
             /\ \A j \in DOMAIN got : got[j] # Torn => Before(got[j], xfer.frame)
        BY <1>5 DEF OrderInv, BufferIsLatest, Accepted
    <2>6. hostTog' \in {0, 1}
        BY <1>2, <2>1
    <2>7. Len(got) + 1 \in DOMAIN got' /\ \A k \in DOMAIN got : k \in DOMAIN got'
        BY <1>1, <2>4
    <2>8. \A k \in DOMAIN got' : k \in DOMAIN got \/ k = Len(got) + 1
        BY <1>1, <2>4
    <2>9. /\ \A j \in DOMAIN got : j < Len(got) + 1
          /\ \A j \in DOMAIN got' : j <= Len(got) + 1
          /\ DOMAIN got \subseteq Nat /\ DOMAIN got' \subseteq Nat
        BY <1>1, <2>4
    <2>10. \A k \in DOMAIN got : got'[k] = got[k]
        BY <1>1, <2>3
    <2>11. \A k \in DOMAIN got' : got'[k] \in Frames \cup {Torn}
        BY <1>1, <2>2, <2>3, <2>8, <2>10
    <2> QED
        BY <1>5, <2>1, <2>3, <2>5, <2>6, <2>7, <2>8, <2>9, <2>10, <2>11
<1> QED
    BY <1>3, <1>4, <1>5

(* The frames the host has accepted stay in order. *)
LEMMA HostTakesInOrder ==
    ASSUME OrderInv, xfer # NoXfer, HostTakes, timeouts' = timeouts
    PROVE  AcceptedInOrder'
<1>1. ASSUME NEW j \in DOMAIN got', NEW k \in DOMAIN got', j < k, Torn \notin {got'[j], got'[k]}
      PROVE  Before(got'[j], got'[k])
    <2>1. j \in DOMAIN got /\ got'[j] = got[j] /\ got[j] # Torn
        <3>1. ~(\A i \in DOMAIN got' : i <= j)
            BY <1>1, HostTakesFacts
        <3> QED
            BY <1>1, <3>1, HostTakesFacts
    <2>2. CASE k \in DOMAIN got /\ got'[k] = got[k]
        BY <1>1, <2>1, <2>2 DEF OrderInv, AcceptedInOrder
    <2>3. CASE ~(k \in DOMAIN got /\ got'[k] = got[k])
        <3>1. got'[k] = xfer.frame /\ xfer.frame \in Frames
            BY <1>1, <2>3, HostTakesFacts
        <3>2. Before(got[j], xfer.frame)
            BY <2>1, <2>3, <3>1, HostTakesFacts
        <3> QED
            BY <2>1, <3>1, <3>2
    <2> QED
        BY <2>2, <2>3
<1>2. ASSUME timeouts = 0, NEW k \in DOMAIN got'
      PROVE  got'[k] # Torn
    <2>1. xfer.frame # Torn
        BY <1>2, FrameFacts DEF OrderInv, NothingTorn
    <2>2. \A j \in DOMAIN got : got[j] # Torn
        BY <1>2 DEF OrderInv, NothingTorn
    <2> QED
        BY <2>1, <2>2, HostTakesFacts
<1> QED
    BY <1>1, <1>2 DEF AcceptedInOrder

(* What is still to be sent stays later than what the host has accepted. *)
LEMMA HostTakesLatest ==
    ASSUME OrderInv, xfer # NoXfer, HostTakes,
           UNCHANGED <<USBFS_EP2_Buf, pc, op, locals, responses>>
    PROVE  /\ NextIsLater'
           /\ USBFS_EP2_Buf \in Frames =>
                 \A k \in DOMAIN got' : got'[k] # Torn =>
                     Before(got'[k], USBFS_EP2_Buf) \/ got'[k] = USBFS_EP2_Buf
<1> USE DEF OrderInv
<1>1. ASSUME NEW k \in DOMAIN got', got'[k] # Torn
      PROVE  \/ \E j \in DOMAIN got : got[j] # Torn /\ got'[k] = got[j]
             \/ got'[k] = USBFS_EP2_Buf /\ USBFS_EP2_Buf \in Frames
    BY <1>1, HostTakesFacts
<1>2. ASSUME NEW k \in DOMAIN got', got'[k] # Torn
      PROVE  got'[k].response <= responses
    BY <1>1, <1>2 DEF NextIsLater, BufferIsLatest
<1>3. ASSUME NEW k \in DOMAIN got', got'[k] # Torn, op = "response", pc \in {"wait_free", "fill"}
      PROVE  Before(got'[k], Frame(responses, offset))
    BY <1>1, <1>3 DEF NextIsLater
<1>4. NextIsLater'
    BY <1>2, <1>3 DEF NextIsLater, locals
<1>5. ASSUME NEW k \in DOMAIN got', got'[k] # Torn, USBFS_EP2_Buf \in Frames
      PROVE  Before(got'[k], USBFS_EP2_Buf) \/ got'[k] = USBFS_EP2_Buf
    BY <1>1, <1>5 DEF BufferIsLatest
<1> QED
    BY <1>4, <1>5

LEMMA EP2_INOrderInv ==
    ASSUME OrderInv, EP2_IN
    PROVE  OrderInv'
<1>1. /\ xfer # NoXfer /\ HostTakes /\ xfer' = NoXfer
      /\ UEP2_CTRL_H' = [res |-> "NAK", tog |-> Flip(UEP2_CTRL_H.tog)]
      /\ UNCHANGED <<USBFS_EP2_Buf, pc, op, reg, payload_len, offset, timeout, responses,
                     keepalives, timeouts, faults, put>>
    BY DEF EP2_IN, locals, counts
<1>2. UEP2_CTRL_H' \in Ctrl /\ UEP2_CTRL_H'.res # "ACK"
    BY <1>1 DEF OrderInv, TypeOK, Ctrl, Flip
<1>3. TypeOK'
    BY <1>1, <1>2, HostTakesFacts, IdleFacts DEF OrderInv, TypeOK
<1>4. Handover' /\ TimeoutsCounted'
    BY <1>1, <1>2 DEF OrderInv, Handover, TimeoutsCounted, Waits, Fills
<1>5. AcceptedInOrder'
    BY <1>1, HostTakesInOrder
<1>6. NextIsLater'
    BY <1>1, HostTakesLatest DEF locals
<1>7. NothingTorn'
    BY <1>1, <1>2, <1>5 DEF OrderInv, NothingTorn, AcceptedInOrder
<1>8. BufferIsLatest'
    <2>1. xfer'.frame \notin Frames
        BY <1>1, IdleFacts, FrameFacts
    <2>2. op = "response" /\ pc \in {"arm_load", "arm_store"} => ~Accepted(USBFS_EP2_Buf)'
        <3> SUFFICES ASSUME op = "response", pc \in {"arm_load", "arm_store"},
                            NEW k \in DOMAIN got', got'[k] = USBFS_EP2_Buf
                     PROVE  FALSE
            BY <1>1 DEF Accepted
        <3>1. xfer.frame # USBFS_EP2_Buf
            BY DEF OrderInv, BufferIsLatest
        <3> QED
            BY <1>1, <3>1, HostTakesFacts DEF OrderInv, BufferIsLatest, Accepted
    <2> QED
        BY <1>1, <1>2, <2>1, <2>2, HostTakesLatest DEF OrderInv, BufferIsLatest, locals
<1> QED
    BY <1>3, <1>4, <1>5, <1>6, <1>7, <1>8 DEF OrderInv

LEMMA HandshakeLostOrderInv ==
    ASSUME OrderInv, HandshakeLost
    PROVE  OrderInv'
<1>1. /\ xfer # NoXfer /\ HostTakes /\ xfer' = NoXfer
      /\ UNCHANGED <<UEP2_CTRL_H, USBFS_EP2_Buf, pc, op, reg, payload_len, offset, timeout, responses,
                     keepalives, timeouts, faults, put>>
    BY DEF HandshakeLost, locals, counts
<1>2. TypeOK'
    BY <1>1, HostTakesFacts, IdleFacts DEF OrderInv, TypeOK
<1>3. Handover' /\ TimeoutsCounted'
    BY <1>1 DEF OrderInv, Handover, TimeoutsCounted, Waits, Fills
<1>4. AcceptedInOrder'
    BY <1>1, HostTakesInOrder
<1>5. NextIsLater'
    BY <1>1, HostTakesLatest DEF locals
<1>6. NothingTorn'
    BY <1>1, <1>4 DEF OrderInv, NothingTorn, AcceptedInOrder
<1>7. BufferIsLatest'
    <2>1. xfer'.frame \notin Frames
        BY <1>1, IdleFacts, FrameFacts
    <2>2. op = "response" /\ pc \in {"arm_load", "arm_store"} => ~Accepted(USBFS_EP2_Buf)'
        <3> SUFFICES ASSUME op = "response", pc \in {"arm_load", "arm_store"},
                            NEW k \in DOMAIN got', got'[k] = USBFS_EP2_Buf
                     PROVE  FALSE
            BY <1>1 DEF Accepted
        <3>1. xfer.frame # USBFS_EP2_Buf
            BY DEF OrderInv, BufferIsLatest
        <3> QED
            BY <1>1, <3>1, HostTakesFacts DEF OrderInv, BufferIsLatest, Accepted
    <2>3. ASSUME USBFS_EP2_Buf \in Frames, Accepted(USBFS_EP2_Buf)', UEP2_CTRL_H.res = "ACK"
          PROVE  UEP2_CTRL_H.tog # hostTog'
        <3>1. UEP2_CTRL_H.tog = xfer.tog /\ xfer.tog \in {0, 1}
            BY <1>1 DEF OrderInv, Handover, TypeOK
        <3>2. CASE xfer.tog = hostTog
            BY <1>1, <3>1, <3>2, HostTakesFacts
        <3>3. CASE xfer.tog # hostTog
            <4>1. hostTog' = hostTog /\ got' = got
                BY <1>1, <3>3, HostTakesFacts
            <4> QED
                BY <1>1, <2>3, <3>1, <3>3, <4>1
        <3> QED
            BY <3>2, <3>3
    <2> QED
        BY <1>1, <2>1, <2>2, <2>3, HostTakesLatest DEF OrderInv, BufferIsLatest, locals
<1> QED
    BY <1>2, <1>3, <1>4, <1>5, <1>6, <1>7 DEF OrderInv

LEMMA InitOrderInv == Init => OrderInv
<1> SUFFICES ASSUME Init PROVE OrderInv
    OBVIOUS
<1> USE FrameFacts, IdleFacts, BoundsAssumption DEF Init
<1>1. got \in Seq(Frames \cup {Torn}) /\ DOMAIN got = {}
    BY EmptySeq
<1>2. TypeOK
    BY <1>1 DEF TypeOK, AnyFrame
<1>3. Handover /\ TimeoutsCounted
    BY DEF Handover, TimeoutsCounted, Waits, Fills
<1>4. NothingTorn /\ BufferIsLatest /\ NextIsLater /\ AcceptedInOrder
    BY <1>1 DEF NothingTorn, BufferIsLatest, NextIsLater, AcceptedInOrder
<1> QED
    BY <1>2, <1>3, <1>4 DEF OrderInv

LEMMA NextOrderInv == OrderInv /\ [Next]_vars => OrderInv'
<1> SUFFICES ASSUME OrderInv, [Next]_vars PROVE OrderInv'
    OBVIOUS
<1>1. CASE fido2_send_keepalive
    BY <1>1, fido2_send_keepaliveOrderInv
<1>2. ASSUME NEW len \in 0 .. MaxLen, ctap_send_response(len)
      PROVE  OrderInv'
    BY <1>2, ctap_send_responseOrderInv
<1>3. CASE MainStep
    BY <1>3, PollOrderInv, PolledOrderInv, TimedOutOrderInv, StopLoadOrderInv, StopStoreOrderInv,
       FillOrderInv, ArmLoadOrderInv, ArmStoreOrderInv DEF MainStep
<1>4. CASE HostReads \/ EP2_IN \/ HandshakeLost
    BY <1>4, HostReadsOrderInv, EP2_INOrderInv, HandshakeLostOrderInv
<1>5. CASE BUS_RST \/ CLEAR_FEATURE_EP2 \/ SET_FEATURE_EP2
    BY <1>5, BUS_RSTOrderInv, CLEAR_FEATURE_EP2OrderInv, SET_FEATURE_EP2OrderInv
<1>6. CASE UNCHANGED vars
    BY <1>6 DEF vars, device, locals, counts, OrderInv, TypeOK, Handover, TimeoutsCounted, NothingTorn,
                BufferIsLatest, NextIsLater, AcceptedInOrder, Accepted, Waits, Fills
<1> QED
    BY <1>1, <1>2, <1>3, <1>4, <1>5, <1>6 DEF Next

(* What the sender of ctap_send_response and the host agree on about the   *)
(* data toggle, the packet in UEP2's buffer and the frames accepted so far *)
(* holds in every reachable state.                                         *)
THEOREM OrderInvariant == Spec => []OrderInv
<1>1. Init => OrderInv
    BY InitOrderInv
<1>2. OrderInv /\ [Next]_vars => OrderInv'
    BY NextOrderInv
<1> QED
    BY <1>1, <1>2, PTL DEF Spec

-----------------------------------------------------------------------------
(* The account of the frames lost.  Steps that lose none keep it, if they  *)
(* bring no frame into danger that no fault pays for.                      *)
LEMMA Paid ==
    ASSUME LossInv, OrderInv', IsFiniteSet(put'), Lost' \subseteq Lost,
           One(Doomed)' + One(~Aligned)' + timeouts + faults
              <= One(Doomed) + One(~Aligned) + timeouts' + faults'
    PROVE  LossInv'
<1>1. IsFiniteSet(Lost) /\ Cardinality(Lost) \in Nat
    <2>1. Lost \subseteq put /\ IsFiniteSet(put)
        BY DEF LossInv, Lost
    <2> QED
        BY <2>1, FS_Subset, FS_CardinalityType
<1>2. Cardinality(Lost') <= Cardinality(Lost) /\ Cardinality(Lost') \in Nat
    BY <1>1, FS_Subset, FS_CardinalityType
<1>3. /\ timeouts \in Nat /\ faults \in Nat /\ timeouts' \in Nat /\ faults' \in Nat
      /\ One(Doomed) \in Nat /\ One(~Aligned) \in Nat /\ One(Doomed)' \in Nat /\ One(~Aligned)' \in Nat
    BY DEF LossInv, OrderInv, TypeOK, One
<1>4. Cardinality(Lost) + One(Doomed) + One(~Aligned) <= timeouts + faults
    BY DEF LossInv, FaultsPay
<1>5. Cardinality(Lost') + One(Doomed)' + One(~Aligned)' <= timeouts' + faults'
    BY <1>1, <1>2, <1>3, <1>4
<1> QED
    BY <1>5 DEF LossInv, FaultsPay

(* Steps without a fault that keep every frame safe that was. *)
LEMMA Undisturbed ==
    ASSUME LossInv, OrderInv', IsFiniteSet(put'), Lost' \subseteq Lost,
           timeouts' = timeouts, faults' = faults,
           Doomed' => Doomed, Aligned => Aligned'
    PROVE  LossInv'
<1>1. timeouts \in Nat /\ faults \in Nat
    BY DEF LossInv, OrderInv, TypeOK
<1>2. One(Doomed)' <= One(Doomed) /\ One(~Aligned)' <= One(~Aligned)
    BY DEF One
<1>3. /\ One(Doomed) \in Nat /\ One(~Aligned) \in Nat
      /\ One(Doomed)' \in Nat /\ One(~Aligned)' \in Nat
    BY DEF One
<1>4. One(Doomed)' + One(~Aligned)' + timeouts + faults
        <= One(Doomed) + One(~Aligned) + timeouts' + faults'
    BY <1>1, <1>2, <1>3
<1> QED
    BY <1>4, Paid

LEMMA fido2_send_keepaliveLossInv ==
    ASSUME LossInv, fido2_send_keepalive
    PROVE  LossInv'
<1> USE DEF fido2_send_keepalive, device, locals, counts
<1>1. OrderInv'
    BY fido2_send_keepaliveOrderInv DEF LossInv
<1>2. IsFiniteSet(put') /\ Lost' \subseteq Lost
    BY DEF LossInv, Lost
<1>3. Doomed' => Doomed
    BY DEF Doomed, Accepted
<1>4. Aligned => Aligned'
    BY FrameFacts DEF LossInv, OrderInv, TypeOK, Handover, Waits, Fills, Aligned, Settled, InStep, Accepted
<1> QED
    BY <1>1, <1>2, <1>3, <1>4, Undisturbed

LEMMA ctap_send_responseLossInv ==
    ASSUME LossInv, NEW len \in 0 .. MaxLen, ctap_send_response(len)
    PROVE  LossInv'
<1> USE DEF ctap_send_response, device, locals, counts
<1>1. OrderInv'
    BY ctap_send_responseOrderInv DEF LossInv
<1>2. IsFiniteSet(put') /\ Lost' \subseteq Lost
    BY DEF LossInv, Lost
<1>3. Doomed' => Doomed
    BY DEF Doomed, Accepted
<1>4. Aligned => Aligned'
    BY FrameFacts DEF LossInv, OrderInv, TypeOK, Handover, Waits, Fills, Aligned, Settled, InStep, Accepted
<1> QED
    BY <1>1, <1>2, <1>3, <1>4, Undisturbed

LEMMA PollLossInv ==
    ASSUME LossInv, Poll
    PROVE  LossInv'
<1> USE DEF Poll, device, locals, counts
<1>1. OrderInv'
    BY PollOrderInv DEF LossInv
<1>2. IsFiniteSet(put') /\ Lost' \subseteq Lost
    BY DEF LossInv, Lost
<1>3. Doomed' => Doomed
    BY DEF Doomed, Accepted
<1>4. Aligned => Aligned'
    BY FrameFacts DEF LossInv, OrderInv, TypeOK, Handover, Waits, Fills, Aligned, Settled, InStep, Accepted
<1> QED
    BY <1>1, <1>2, <1>3, <1>4, Undisturbed

LEMMA StopLoadLossInv ==
    ASSUME LossInv, StopLoad
    PROVE  LossInv'
<1> USE DEF StopLoad, device, locals, counts
<1>1. OrderInv'
    BY StopLoadOrderInv DEF LossInv
<1>2. IsFiniteSet(put') /\ Lost' \subseteq Lost
    BY DEF LossInv, Lost
<1>3. Doomed' => Doomed
    BY DEF Doomed, Accepted
<1>4. Aligned => Aligned'
    BY FrameFacts DEF LossInv, OrderInv, TypeOK, Handover, Waits, Fills, Aligned, Settled, InStep, Accepted
<1> QED
    BY <1>1, <1>2, <1>3, <1>4, Undisturbed

LEMMA StopStoreLossInv ==
    ASSUME LossInv, StopStore
    PROVE  LossInv'
<1> USE DEF StopStore, device, locals, counts
<1>1. OrderInv'
    BY StopStoreOrderInv DEF LossInv
<1>2. IsFiniteSet(put') /\ Lost' \subseteq Lost
    BY DEF LossInv, Lost
<1>3. Doomed' => Doomed
    BY DEF Doomed, Accepted
<1>4. Aligned => Aligned'
    BY FrameFacts DEF LossInv, OrderInv, TypeOK, Handover, Waits, Fills, Aligned, Settled, InStep, Accepted
<1> QED
    BY <1>1, <1>2, <1>3, <1>4, Undisturbed

LEMMA FillLossInv ==
    ASSUME LossInv, Fill
    PROVE  LossInv'
<1> USE DEF Fill, device, locals, counts
<1>1. OrderInv'
    BY FillOrderInv DEF LossInv
<1>2. IsFiniteSet(put') /\ Lost' \subseteq Lost
    BY DEF LossInv, Lost
<1>3. Doomed' => Doomed
    BY DEF Doomed, Accepted
<1>4. Aligned => Aligned'
    BY FrameFacts DEF LossInv, OrderInv, TypeOK, Handover, Waits, Fills, Aligned, Settled, InStep, Accepted
<1> QED
    BY <1>1, <1>2, <1>3, <1>4, Undisturbed

LEMMA ArmLoadLossInv ==
    ASSUME LossInv, ArmLoad
    PROVE  LossInv'
<1> USE DEF ArmLoad, device, locals, counts
<1>1. OrderInv'
    BY ArmLoadOrderInv DEF LossInv
<1>2. IsFiniteSet(put') /\ Lost' \subseteq Lost
    BY DEF LossInv, Lost
<1>3. Doomed' => Doomed
    BY DEF Doomed, Accepted
<1>4. Aligned => Aligned'
    BY FrameFacts DEF LossInv, OrderInv, TypeOK, Handover, Waits, Fills, Aligned, Settled, InStep, Accepted
<1> QED
    BY <1>1, <1>2, <1>3, <1>4, Undisturbed

LEMMA ArmStoreLossInv ==
    ASSUME LossInv, ArmStore
    PROVE  LossInv'
<1> USE DEF ArmStore, device, locals, counts
<1>1. OrderInv'
    BY ArmStoreOrderInv DEF LossInv
<1>2. IsFiniteSet(put') /\ Lost' \subseteq Lost
    <2>1. IsFiniteSet(put \cup {USBFS_EP2_Buf}) /\ IsFiniteSet(put)
        BY FS_AddElement DEF LossInv
    <2>2. put' \in {put, put \cup {USBFS_EP2_Buf}}
        OBVIOUS
    <2>3. Lost' \subseteq Lost
        BY DEF Lost
    <2> QED
        BY <2>1, <2>2, <2>3
<1>3. Doomed' => Doomed
    BY DEF Doomed, Accepted
<1>4. Aligned => Aligned'
    BY FrameFacts DEF LossInv, OrderInv, TypeOK, Handover, Waits, Fills, Aligned, Settled, InStep, Accepted
<1> QED
    BY <1>1, <1>2, <1>3, <1>4, Undisturbed

LEMMA HostReadsLossInv ==
    ASSUME LossInv, HostReads
    PROVE  LossInv'
<1> USE DEF HostReads, device, locals, counts
<1>1. OrderInv'
    BY HostReadsOrderInv DEF LossInv
<1>2. IsFiniteSet(put') /\ Lost' \subseteq Lost
    BY DEF LossInv, Lost
<1>3. Doomed' => Doomed
    BY DEF Doomed, Accepted
<1>4. Aligned => Aligned'
    BY FrameFacts DEF LossInv, OrderInv, TypeOK, Handover, Waits, Fills, Aligned, Settled, InStep, Accepted
<1> QED
    BY <1>1, <1>2, <1>3, <1>4, Undisturbed

(* A frame the host has accepted is not lost, and stays accepted. *)
LEMMA HostTakesNoLoss ==
    ASSUME OrderInv, xfer # NoXfer, HostTakes, UNCHANGED <<USBFS_EP2_Buf, pc, put>>
    PROVE  /\ Lost' \subseteq Lost
           /\ Accepted(USBFS_EP2_Buf) => Accepted(USBFS_EP2_Buf)'
           /\ xfer.tog = hostTog /\ xfer.frame = USBFS_EP2_Buf /\ USBFS_EP2_Buf # Keepalive
                 => Accepted(USBFS_EP2_Buf)'
<1>1. \A k \in DOMAIN got : k \in DOMAIN got' /\ got'[k] = got[k]
    BY HostTakesFacts
<1>2. Lost' \subseteq Lost
    BY <1>1 DEF Lost
<1>3. Accepted(USBFS_EP2_Buf) => Accepted(USBFS_EP2_Buf)'
    BY <1>1 DEF Accepted
<1>4. xfer.tog = hostTog /\ xfer.frame = USBFS_EP2_Buf /\ USBFS_EP2_Buf # Keepalive
         => Accepted(USBFS_EP2_Buf)'
    BY HostTakesFacts DEF Accepted
<1> QED
    BY <1>2, <1>3, <1>4

LEMMA HandshakeLostLossInv ==
    ASSUME LossInv, HandshakeLost
    PROVE  LossInv'
<1>1. OrderInv'
    BY HandshakeLostOrderInv DEF LossInv
<1>2. /\ xfer # NoXfer /\ HostTakes /\ xfer' = NoXfer
      /\ UNCHANGED <<UEP2_CTRL_H, USBFS_EP2_Buf, pc, op, reg, timeouts, faults, put>>
      /\ xfer.tog = UEP2_CTRL_H.tog
    BY DEF HandshakeLost, counts, locals, LossInv, OrderInv, Handover
<1>3. /\ Lost' \subseteq Lost /\ IsFiniteSet(put')
      /\ Accepted(USBFS_EP2_Buf) => Accepted(USBFS_EP2_Buf)'
      /\ xfer.tog = hostTog /\ xfer.frame = USBFS_EP2_Buf /\ USBFS_EP2_Buf # Keepalive
            => Accepted(USBFS_EP2_Buf)'
    BY <1>2, HostTakesNoLoss DEF LossInv
<1>4. Doomed' => Doomed
    BY <1>2, <1>3 DEF Doomed
<1>5. Aligned => Aligned'
    <2>1. pc = "wait_sent" =>
             USBFS_EP2_Buf # Keepalive /\ op = "response" /\ UEP2_CTRL_H.res = "ACK"
        BY <1>2, FrameFacts DEF LossInv, OrderInv, BufferIsLatest, Handover, Waits
    <2>2. CASE pc = "wait_sent"
        <3>1. InStep => xfer.tog = hostTog
            BY <1>2 DEF InStep
        <3> QED
            BY <1>2, <1>3, <2>1, <2>2, <3>1 DEF Aligned, Settled
    <2>3. CASE pc # "wait_sent"
        BY <1>2, <2>3 DEF Aligned, Settled
    <2> QED
        BY <2>2, <2>3
<1> QED
    BY <1>1, <1>2, <1>3, <1>4, <1>5, Undisturbed

(* The interrupt brings the two toggles in step. *)
LEMMA EP2_INLossInv ==
    ASSUME LossInv, EP2_IN
    PROVE  LossInv'
<1>1. OrderInv'
    BY EP2_INOrderInv DEF LossInv
<1>2. /\ xfer # NoXfer /\ HostTakes /\ xfer' = NoXfer
      /\ UEP2_CTRL_H' = [res |-> "NAK", tog |-> Flip(UEP2_CTRL_H.tog)]
      /\ UNCHANGED <<USBFS_EP2_Buf, pc, op, reg, timeouts, faults, put>>
      /\ xfer.tog = UEP2_CTRL_H.tog
    BY DEF EP2_IN, counts, locals, LossInv, OrderInv, Handover
<1>3. /\ Lost' \subseteq Lost /\ IsFiniteSet(put')
      /\ Accepted(USBFS_EP2_Buf) => Accepted(USBFS_EP2_Buf)'
      /\ xfer.tog = hostTog /\ xfer.frame = USBFS_EP2_Buf /\ USBFS_EP2_Buf # Keepalive
            => Accepted(USBFS_EP2_Buf)'
    BY <1>2, HostTakesNoLoss DEF LossInv
<1>4. InStep'
    <2>1. /\ xfer.tog \in {0, 1} /\ hostTog \in {0, 1}
          /\ xfer.tog = hostTog => hostTog' = 1 - xfer.tog
          /\ xfer.tog # hostTog => hostTog' = hostTog
        BY <1>2, HostTakesFacts DEF LossInv, OrderInv, TypeOK
    <2> QED
        BY <1>2, <2>1 DEF InStep, Flip
<1>5. Aligned => Aligned'
    BY <1>2, <1>4 DEF Aligned, Settled
<1>6. Doomed' => Aligned' /\ (Doomed \/ ~Aligned)
    <2> SUFFICES ASSUME Doomed'
                 PROVE  Aligned' /\ (Doomed \/ ~Aligned)
        OBVIOUS
    <2>1. pc = "wait_sent" /\ ~Accepted(USBFS_EP2_Buf)' /\ ~Accepted(USBFS_EP2_Buf)
        BY <1>2, <1>3 DEF Doomed
    <2>2. Aligned'
        BY <1>2, <1>4, <2>1 DEF Aligned
    <2>3. USBFS_EP2_Buf # Keepalive /\ op = "response"
        BY <2>1, FrameFacts DEF LossInv, OrderInv, BufferIsLatest, Handover, Waits
    <2>4. ~Aligned
        BY <1>2, <1>3, <2>1, <2>3 DEF Aligned, InStep
    <2> QED
        BY <2>2, <2>4
<1>7. One(Doomed)' + One(~Aligned)' <= One(Doomed) + One(~Aligned)
    BY <1>5, <1>6 DEF One
<1>8. /\ One(Doomed) \in Nat /\ One(~Aligned) \in Nat /\ One(Doomed)' \in Nat /\ One(~Aligned)' \in Nat
      /\ timeouts \in Nat /\ faults \in Nat
    BY DEF One, LossInv, OrderInv, TypeOK
<1>9. One(Doomed)' + One(~Aligned)' + timeouts + faults
        <= One(Doomed) + One(~Aligned) + timeouts' + faults'
    BY <1>2, <1>7, <1>8
<1> QED
    BY <1>1, <1>3, <1>9, Paid

(* The loop that finds the endpoint free moves on: a frame that the host   *)
(* has not accepted is now lost, and was paid for.                         *)
LEMMA PolledLossInv ==
    ASSUME LossInv, Polled
    PROVE  LossInv'
<1>1. OrderInv'
    BY PolledOrderInv DEF LossInv
<1>2. /\ Waits /\ op = "response" /\ UEP2_CTRL_H.res # "ACK" /\ pc' \in {"fill", "idle"}
      /\ pc = "wait_free" => pc' = "fill"
      /\ UNCHANGED <<UEP2_CTRL_H, USBFS_EP2_Buf, xfer, op, reg, hostTog, timeouts, faults, put, got>>
    BY DEF Polled, device, Waits, LossInv, OrderInv, Handover
<1>3. ~Doomed'
    BY <1>2 DEF Doomed
<1>4. Aligned => Aligned'
    BY <1>2 DEF Aligned, Settled, InStep, Waits, LossInv, OrderInv, Handover
<1>5. CASE ~Doomed
    <2>1. Lost' \subseteq Lost /\ IsFiniteSet(put')
        BY <1>2, <1>5 DEF Lost, Doomed, Accepted, LossInv
    <2> QED
        BY <1>1, <1>2, <1>3, <1>4, <2>1, Undisturbed
<1>6. CASE Doomed
    <2> DEFINE More == Lost \cup {USBFS_EP2_Buf}
    <2>1. Lost' \subseteq More
        BY <1>2 DEF Lost
    <2>2. IsFiniteSet(put) /\ IsFiniteSet(Lost) /\ Cardinality(Lost) \in Nat
        <3>1. Lost \subseteq put /\ IsFiniteSet(put)
            BY DEF LossInv, Lost
        <3> QED
            BY <3>1, FS_Subset, FS_CardinalityType
    <2>3. /\ IsFiniteSet(More)
          /\ Cardinality(More) = Cardinality(Lost) \/ Cardinality(More) = Cardinality(Lost) + 1
        BY <2>2, FS_AddElement
    <2> HIDE DEF More
    <2>4. Cardinality(Lost') <= Cardinality(More) /\ Cardinality(Lost') \in Nat
        BY <2>1, <2>3, FS_Subset, FS_CardinalityType
    <2>5. /\ One(Doomed) = 1 /\ One(Doomed)' = 0 /\ One(~Aligned)' <= One(~Aligned)
          /\ One(~Aligned) \in Nat /\ One(~Aligned)' \in Nat
        BY <1>3, <1>4, <1>6 DEF One
    <2>6. Cardinality(Lost) + One(Doomed) + One(~Aligned) <= timeouts + faults
        BY DEF LossInv, FaultsPay
    <2>7. timeouts \in Nat /\ faults \in Nat
        BY DEF LossInv, OrderInv, TypeOK
    <2>8. Cardinality(Lost') + One(Doomed)' + One(~Aligned)' <= timeouts' + faults'
        BY <1>2, <2>2, <2>3, <2>4, <2>5, <2>6, <2>7
    <2> QED
        BY <1>1, <1>2, <2>2, <2>8 DEF LossInv, FaultsPay
<1> QED
    BY <1>5, <1>6

LEMMA OnePaid ==
    ASSUME NEW a \in Nat, NEW b \in Nat, NEW t \in Nat, NEW f \in Nat, NEW t1 \in Nat, NEW f1 \in Nat,
           a <= b + 1, t + f < t1 + f1
    PROVE  a + t + f <= b + t1 + f1
OBVIOUS

(* A fault pays for one frame. *)
LEMMA FaultLossInv ==
    ASSUME LossInv, OrderInv', IsFiniteSet(put'), Lost' \subseteq Lost,
           timeouts + faults < timeouts' + faults',
           Doomed' => (Aligned => Aligned')
    PROVE  LossInv'
<1>1. /\ One(Doomed) \in Nat /\ One(~Aligned) \in Nat
      /\ timeouts \in Nat /\ faults \in Nat /\ timeouts' \in Nat /\ faults' \in Nat
      /\ One(Doomed)' \in Nat /\ One(~Aligned)' \in Nat
    BY DEF One, LossInv, OrderInv, TypeOK
<1>2. One(Doomed)' + One(~Aligned)' <= One(Doomed) + One(~Aligned) + 1
    BY DEF One
<1>3. One(Doomed)' + One(~Aligned)' + timeouts + faults
        <= One(Doomed) + One(~Aligned) + timeouts' + faults'
    <2>1. One(Doomed)' + One(~Aligned)' \in Nat /\ One(Doomed) + One(~Aligned) \in Nat
        BY <1>1
    <2> QED
        BY <1>1, <1>2, <2>1, OnePaid
<1> QED
    BY <1>3, Paid

LEMMA TimedOutLossInv ==
    ASSUME LossInv, TimedOut
    PROVE  LossInv'
<1>1. OrderInv'
    BY TimedOutOrderInv DEF LossInv
<1>2. IsFiniteSet(put')
    <2>1. IsFiniteSet(put) /\ put' \subseteq put
        BY DEF TimedOut, LossInv
    <2> QED
        BY <2>1, FS_Subset
<1>3. Lost' \subseteq Lost
    BY DEF TimedOut, Lost, device
<1>4. ~Doomed'
    BY DEF TimedOut, Doomed
<1>5. timeouts + faults < timeouts' + faults'
    BY DEF TimedOut, LossInv, OrderInv, TypeOK
<1> QED
    BY <1>1, <1>2, <1>3, <1>4, <1>5, FaultLossInv

LEMMA BUS_RSTLossInv ==
    ASSUME LossInv, BUS_RST
    PROVE  LossInv'
<1>1. OrderInv'
    BY BUS_RSTOrderInv DEF LossInv
<1>2. IsFiniteSet(put') /\ Lost' \subseteq Lost
    BY DEF BUS_RST, Lost, LossInv
<1>3. timeouts + faults < timeouts' + faults'
    BY DEF BUS_RST, LossInv, OrderInv, TypeOK
<1>4. Doomed' => (Aligned => Aligned')
    BY DEF BUS_RST, Idle, Doomed, Aligned, Settled, InStep, Accepted, LossInv, OrderInv, TypeOK, Ctrl
<1> QED
    BY <1>1, <1>2, <1>3, <1>4, FaultLossInv

LEMMA CLEAR_FEATURE_EP2LossInv ==
    ASSUME LossInv, CLEAR_FEATURE_EP2
    PROVE  LossInv'
<1>1. OrderInv'
    BY CLEAR_FEATURE_EP2OrderInv DEF LossInv
<1>2. IsFiniteSet(put') /\ Lost' \subseteq Lost
    BY DEF CLEAR_FEATURE_EP2, Lost, LossInv
<1>3. timeouts + faults < timeouts' + faults'
    BY DEF CLEAR_FEATURE_EP2, LossInv, OrderInv, TypeOK
<1>4. Doomed' => (Aligned => Aligned')
    BY DEF CLEAR_FEATURE_EP2, Idle, Doomed, Aligned, Settled, InStep, Accepted, LossInv, OrderInv, TypeOK, Ctrl
<1> QED
    BY <1>1, <1>2, <1>3, <1>4, FaultLossInv

LEMMA SET_FEATURE_EP2LossInv ==
    ASSUME LossInv, SET_FEATURE_EP2
    PROVE  LossInv'
<1>1. OrderInv'
    BY SET_FEATURE_EP2OrderInv DEF LossInv
<1>2. IsFiniteSet(put') /\ Lost' \subseteq Lost
    BY DEF SET_FEATURE_EP2, Lost, LossInv
<1>3. timeouts + faults < timeouts' + faults'
    BY DEF SET_FEATURE_EP2, LossInv, OrderInv, TypeOK
<1>4. Doomed' => (Aligned => Aligned')
    BY DEF SET_FEATURE_EP2, Doomed, Aligned, Settled, InStep, Accepted, LossInv, OrderInv, TypeOK, Ctrl
<1> QED
    BY <1>1, <1>2, <1>3, <1>4, FaultLossInv

-----------------------------------------------------------------------------
LEMMA InitLossInv == Init => LossInv
<1> SUFFICES ASSUME Init PROVE LossInv
    OBVIOUS
<1>1. OrderInv
    BY InitOrderInv
<1>2. Lost = {} /\ put = {} /\ ~Doomed /\ Aligned
    BY DEF Init, Lost, Doomed, Aligned, Settled, InStep, Idle
<1>3. IsFiniteSet(put) /\ Cardinality(Lost) = 0
    BY <1>2, FS_EmptySet
<1>4. FaultsPay
    BY <1>2, <1>3 DEF FaultsPay, One, Init
<1> QED
    BY <1>1, <1>3, <1>4 DEF LossInv

LEMMA NextLossInv == LossInv /\ [Next]_vars => LossInv'
<1> SUFFICES ASSUME LossInv, [Next]_vars PROVE LossInv'
    OBVIOUS
<1>1. CASE fido2_send_keepalive
    BY <1>1, fido2_send_keepaliveLossInv
<1>2. ASSUME NEW len \in 0 .. MaxLen, ctap_send_response(len)
      PROVE  LossInv'
    BY <1>2, ctap_send_responseLossInv
<1>3. CASE MainStep
    BY <1>3, PollLossInv, PolledLossInv, TimedOutLossInv, StopLoadLossInv, StopStoreLossInv,
       FillLossInv, ArmLoadLossInv, ArmStoreLossInv DEF MainStep
<1>4. CASE HostReads \/ EP2_IN \/ HandshakeLost
    BY <1>4, HostReadsLossInv, EP2_INLossInv, HandshakeLostLossInv
<1>5. CASE BUS_RST \/ CLEAR_FEATURE_EP2 \/ SET_FEATURE_EP2
    BY <1>5, BUS_RSTLossInv, CLEAR_FEATURE_EP2LossInv, SET_FEATURE_EP2LossInv
<1>6. CASE UNCHANGED vars
    <2>1. OrderInv'
        BY <1>6, NextOrderInv DEF LossInv
    <2>2. UNCHANGED <<UEP2_CTRL_H, USBFS_EP2_Buf, xfer, pc, op, reg, hostTog, timeouts, faults, put, got>>
        BY <1>6 DEF vars, device
    <2>3. IsFiniteSet(put') /\ Lost' \subseteq Lost
        BY <2>2 DEF Lost, LossInv
    <2>4. (Doomed' => Doomed) /\ (Aligned => Aligned')
        BY <2>2 DEF Doomed, Aligned, Settled, InStep, Accepted
    <2> QED
        BY <2>1, <2>2, <2>3, <2>4, Undisturbed
<1> QED
    BY <1>1, <1>2, <1>3, <1>4, <1>5, <1>6 DEF Next

(* So does the account of the frames that were lost: each is charged to a  *)
(* timeout of the sender or to a fault of the bus.                         *)
THEOREM LossInvariant == Spec => []LossInv
<1>1. Init => LossInv
    BY InitLossInv
<1>2. LossInv /\ [Next]_vars => LossInv'
    BY NextLossInv
<1> QED
    BY <1>1, <1>2, PTL DEF Spec

(* The registers, the buffer and the counters of ctap_send_response stay   *)
(* in range, however it is interrupted.                                    *)
THEOREM TypeCorrect == Spec => []TypeOK
<1>1. OrderInv => TypeOK
    BY DEF OrderInv
<1> QED
    BY <1>1, OrderInvariant, PTL

(* The host sees the frames of responses once each and in order, and none  *)
(* of bytes of two unless a timeout gave one up.                           *)
THEOREM OrderCorrect == Spec => []AcceptedInOrder
<1>1. OrderInv => AcceptedInOrder
    BY DEF OrderInv
<1> QED
    BY <1>1, OrderInvariant, PTL

(* The unprotected read-modify-write of UEP2_CTRL_H and lost handshakes    *)
(* cost no frame of a response; a timeout, bus reset or halt at most one.  *)
THEOREM LossesBounded == Spec => []OneFramePerFault
<1>1. LossInv => OneFramePerFault
    <2> SUFFICES ASSUME LossInv PROVE OneFramePerFault
        OBVIOUS
    <2>1. Lost \subseteq put /\ IsFiniteSet(put)
        BY DEF LossInv, Lost
    <2>2. Cardinality(Lost) \in Nat
        BY <2>1, FS_Subset, FS_CardinalityType
    <2>3. Cardinality(Lost) + One(Doomed) + One(~Aligned) <= timeouts + faults
        BY DEF LossInv, FaultsPay
    <2>4. One(Doomed) \in Nat /\ One(~Aligned) \in Nat /\ timeouts \in Nat /\ faults \in Nat
        BY DEF One, LossInv, OrderInv, TypeOK
    <2> QED
        BY <2>2, <2>3, <2>4 DEF OneFramePerFault
<1> QED
    BY <1>1, LossInvariant, PTL

=============================================================================
