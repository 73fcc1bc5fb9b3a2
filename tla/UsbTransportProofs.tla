-------------------------- MODULE UsbTransportProofs --------------------------
(***************************************************************************)
(* Proofs about UsbTransport for a ring of any size, any thresholds, any   *)
(* packets and any length of the touch wait.                               *)
(***************************************************************************)
EXTENDS UsbTransport, SequenceTheorems, TLAPS

(* The types hold on any bus.  RingConsistent is not inductive alone: that *)
(* the out-of-band poll leaves the request's own packet in the ring rests  *)
(* on its not being an out-of-band command.                                *)
OwnPacketStays == pc = "ring_wait" => current = "touch"

RingInv == TypeOK /\ RingConsistent /\ OwnPacketStays

-----------------------------------------------------------------------------
LEMMA InitRingInv == Init => RingInv
<1> SUFFICES ASSUME Init PROVE RingInv
    OBVIOUS
<1> USE RingAssumption, LoopsAssumption, RearmAssumption DEF Init, Blocks
<1>1. TypeOK
    <2>1. /\ Data_Buffer \in [Blocks -> Packets]
          /\ LoadPtr \in Blocks /\ DealPtr \in Blocks /\ UEP1_DMA \in Blocks
          /\ RemainPack \in 0 .. MaxCount
        BY DEF Packets
    <2>2. /\ resets \in 0 .. MaxResets /\ haltClears \in 0 .. MaxHaltClears
          /\ loops \in 0 .. MaxLoops
        OBVIOUS
    <2> QED
        BY <2>1, <2>2 DEF TypeOK, Packets
<1>2. RingConsistent
    BY DEF RingConsistent, RingAgrees, Past, Ahead, InRing
<1>3. OwnPacketStays
    BY DEF OwnPacketStays
<1> QED
    BY <1>1, <1>2, <1>3 DEF RingInv

(* The ring advances by one block at either end. *)
LEMMA NextBlockAhead ==
    ASSUME NEW b \in Blocks
    PROVE  /\ NextBlock(b) \in Blocks
           /\ \A n \in Nat : n < Max_Blks =>
                 /\ Ahead(b, n) \in Blocks
                 /\ NextBlock(Ahead(b, n)) = Ahead(b, n + 1)
                 /\ Ahead(NextBlock(b), n) = Ahead(b, n + 1)
                 /\ n > 0 => Ahead(b, n) # b
BY RingAssumption DEF Blocks, NextBlock, Ahead

(* RemainPack stays a byte. *)
LEMMA CountsWrap ==
    ASSUME NEW n \in 0 .. MaxCount
    PROVE  /\ Inc(n) \in 0 .. MaxCount /\ Dec(n) \in 0 .. MaxCount
           /\ n < Max_Blks => Inc(n) = n + 1
           /\ n > 0 => Dec(n) = n - 1
BY RingAssumption DEF Inc, Dec

LEMMA EP1_OUTRingInv ==
    ASSUME RingInv, NEW p \in Ep1Packets, EP1_OUT(p)
    PROVE  RingInv'
<1> USE RingAssumption, RearmAssumption DEF RingInv, EP1_OUT
<1>1. TypeOK'
    <2>1. NextBlock(LoadPtr) \in Blocks /\ p \in Packets
        BY NextBlockAhead, PacketsAssumption DEF TypeOK, Packets
    <2>2. Data_Buffer' \in [Blocks -> Packets]
        BY <2>1 DEF TypeOK
    <2>3. RemainPack' \in 0 .. MaxCount
        BY CountsWrap DEF TypeOK
    <2> QED
        BY <2>1, <2>2, <2>3 DEF TypeOK, ep0, command
<1>2. ASSUME Quiet'
      PROVE  RingAgrees'
    <2>0. RingAgrees /\ haltClears \in Nat /\ haltClears < REMINE /\ Past' = Past
          /\ Past = Max_Blks - REMINE + haltClears
        BY <1>2 DEF RingConsistent, Quiet, TypeOK, Past
    <2>1. RemainPack \in Nat /\ RemainPack < Max_Blks /\ RemainPack' = RemainPack + 1
        BY <2>0, CountsWrap DEF RingAgrees, TypeOK
    <2>2. LoadPtr = Ahead(DealPtr, RemainPack) /\ LoadPtr' = Ahead(DealPtr, RemainPack + 1)
        BY <2>0, <2>1, NextBlockAhead DEF RingAgrees, TypeOK
    <2>3. (InRing => RemainPack > 0 /\ current = Data_Buffer[DealPtr])'
        <3>1. InRing => UEP1_DMA # DealPtr
            <4>1. DealPtr \in Blocks /\ UEP1_DMA = Ahead(DealPtr, RemainPack)
                BY <2>0 DEF RingAgrees, TypeOK
            <4>2. InRing => RemainPack > 0
                BY <2>0 DEF RingAgrees
            <4> QED
                BY <2>1, <4>1, <4>2, NextBlockAhead
        <3>2. InRing => Data_Buffer'[DealPtr] = Data_Buffer[DealPtr]
            BY <3>1 DEF TypeOK
        <3> QED
            BY <2>0, <2>1, <3>2 DEF RingAgrees, InRing
    <2>4. /\ (RemainPack <= Past + 1)'
          /\ pc' \in {"restart_flag", "restart_ack"} => RemainPack' <= Past'
        BY <2>0, <2>1 DEF RingAgrees
    <2>5. /\ ep1Ack' => RemainPack' < Past'
          /\ ~StopFlag' => ep1Ack'
        <3> DEFINE full == Inc(RemainPack) >= Max_Blks - REMINE
        <3>1. ep1Ack' = ~full /\ StopFlag' = (StopFlag \/ full)
            OBVIOUS
        <3>2. CASE full
            <4>1. ~ep1Ack' /\ StopFlag'
                BY <3>1, <3>2, Zenon
            <4> QED
                BY <4>1
        <3>3. CASE ~full
            <4>1. ep1Ack'
                BY <3>1, <3>3, Zenon
            <4>2. RemainPack' < Past'
                BY <2>0, <2>1, <3>3
            <4> QED
                BY <4>1, <4>2
        <3> QED
            BY <3>2, <3>3
    <2>6. (UEP1_DMA = LoadPtr)' /\ (LoadPtr = Ahead(DealPtr, RemainPack))'
        BY <2>1, <2>2 DEF Ahead
    <2>7. ep1Ack' => RemainPack' <= Past'
        BY <2>0, <2>1, <2>5
    <2> QED
        BY <2>3, <2>4, <2>5, <2>6, <2>7 DEF RingAgrees
<1>3. OwnPacketStays'
    BY DEF OwnPacketStays
<1> QED
    BY <1>1, <1>2, <1>3 DEF RingConsistent

(* Taking the head off the ring keeps the types, and is sound as long as   *)
(* there is one.                                                           *)
LEMMA RemoveHeadTypes ==
    ASSUME TypeOK, RemoveHead
    PROVE  DealPtr' \in Blocks /\ RemainPack' \in 0 .. MaxCount
BY CountsWrap, NextBlockAhead DEF TypeOK, RemoveHead

LEMMA RemoveHeadSound ==
    ASSUME TypeOK, Quiet, RingAgrees, RemainPack > 0, RemoveHead
    PROVE  /\ (UEP1_DMA = LoadPtr)' /\ (LoadPtr = Ahead(DealPtr, RemainPack))'
           /\ RemainPack' < RemainPack
<1> USE RingAssumption, RearmAssumption DEF RemoveHead, Quiet
<1>1. RemainPack' = RemainPack - 1 /\ RemainPack - 1 \in Nat /\ RemainPack - 1 < Max_Blks
      /\ RemainPack - 1 + 1 = RemainPack
    BY CountsWrap DEF TypeOK, RingAgrees, Past
<1>2. Ahead(NextBlock(DealPtr), RemainPack - 1) = Ahead(DealPtr, RemainPack)
    BY <1>1, NextBlockAhead DEF TypeOK
<1> QED
    BY <1>1, <1>2, NextBlockAhead DEF TypeOK, RingAgrees, Ahead

LEMMA WaitPollRingInv ==
    ASSUME RingInv, WaitPoll
    PROVE  RingInv'
<1> USE RingAssumption DEF RingInv
<1>a. Waiting /\ Process_OOB_Commands /\ UNCHANGED <<usb, ep0, current>>
    BY DEF WaitPoll
<1>b. cancel_requested' \in BOOLEAN
    BY DEF WaitPoll, TypeOK
<1>c. /\ loops' \in 0 .. MaxLoops
      /\ pc' \in {pc, AfterWait}
    BY <1>b, LoopsAssumption DEF WaitPoll, TypeOK
<1>d. OwnPacketStays'
    BY <1>a, <1>c DEF OwnPacketStays, Waiting, AfterWait
<1>1. CASE UNCHANGED ring
    <2>1. TypeOK'
        BY <1>a, <1>b, <1>c, <1>1 DEF TypeOK, ring, usb, ep0, AfterWait
    <2>2. RingConsistent'
        BY <1>a, <1>c, <1>1
        DEF RingConsistent, Quiet, RingAgrees, Past, Ahead, InRing, ring, usb, Waiting, AfterWait
    <2> QED
        BY <2>1, <2>2, <1>d
<1>2. CASE RemoveHead /\ RemainPack > 0 /\ Data_Buffer[DealPtr] \in OutOfBand
    <2>1. TypeOK'
        BY <1>a, <1>b, <1>c, <1>2, RemoveHeadTypes DEF TypeOK, RemoveHead, usb, ep0, AfterWait
    <2>2. ASSUME Quiet'
          PROVE  RingAgrees'
        <3>0. Quiet /\ RingAgrees
            BY <1>a, <2>2 DEF Quiet, RingConsistent, usb
        <3>1. pc = "ep0_wait"
            BY <1>2, <1>a, <3>0 DEF Waiting, OwnPacketStays, RingAgrees, InRing, OutOfBand
        <3>2. ~InRing' /\ pc' \notin {"restart_flag", "restart_ack"} /\ pc # "restart_ack"
            BY <3>1, <1>c DEF InRing, AfterWait
        <3>3. Past' = Past /\ Past \in Int
            BY <1>a, <3>0, RearmAssumption DEF Past, usb, TypeOK
        <3> QED
            BY <1>a, <1>2, <2>1, <3>0, <3>2, <3>3, RemoveHeadSound
            DEF RingAgrees, TypeOK, RemoveHead, usb
    <2> QED
        BY <2>1, <2>2, <1>d DEF RingConsistent
<1> QED
    BY <1>1, <1>2, <1>a DEF Process_OOB_Commands

LEMMA DequeueRingInv ==
    ASSUME RingInv, Dequeue
    PROVE  RingInv'
<1> USE RingAssumption DEF RingInv, Dequeue
<1>1. TypeOK'
    BY RemoveHeadTypes DEF TypeOK, Packets, RemoveHead, usb, ep0, command
<1>2. ASSUME Quiet'
      PROVE  RingAgrees'
    <2>1. Quiet /\ RingAgrees /\ RemainPack > 0
        BY <1>2 DEF Quiet, RingConsistent, RingAgrees, InRing, usb
    <2>2. Past' = Past /\ Past \in Int
        BY RearmAssumption DEF Past, usb, TypeOK
    <2> QED
        BY <1>1, <2>1, <2>2, RemoveHeadSound DEF RingAgrees, InRing, TypeOK, RemoveHead, usb
<1>3. OwnPacketStays'
    BY DEF OwnPacketStays
<1> QED
    BY <1>1, <1>2, <1>3 DEF RingConsistent

(* The steps that leave the ring alone. *)
LEMMA OtherMainStepsRingInv ==
    ASSUME RingInv,
           CheckRing \/ CheckReport \/ ProcessCTAPHID \/ WaitTouched \/ ReportDealOver
    PROVE  RingInv'
<1> USE DEF RingInv, ring, usb, ep0, command, OwnPacketStays
<1>1. CASE CheckRing
    <2>1. TypeOK'
        BY <1>1 DEF CheckRing, TypeOK
    <2>2. RingConsistent'
        BY <1>1 DEF CheckRing, RingConsistent, Quiet, RingAgrees, Past, TypeOK, InRing, Ahead
    <2> QED
        BY <1>1, <2>1, <2>2 DEF CheckRing
<1>2. CASE CheckReport
    <2>1. TypeOK'
        BY <1>2 DEF CheckReport, TypeOK
    <2>2. RingConsistent'
        BY <1>2 DEF CheckReport, RingConsistent, Quiet, RingAgrees, Past, InRing, Ahead
    <2> QED
        BY <1>2, <2>1, <2>2 DEF CheckReport
<1>3. CASE ProcessCTAPHID
    <2>1. TypeOK'
        <3>1. cancel_requested' \in BOOLEAN
            BY <1>3, Zenon DEF ProcessCTAPHID
        <3> QED
            BY <1>3, <3>1, LoopsAssumption DEF ProcessCTAPHID, Handling, TypeOK
    <2>2. RingConsistent'
        BY <1>3 DEF ProcessCTAPHID, Handling, RingConsistent, Quiet, RingAgrees, Past, InRing, Ahead
    <2> QED
        BY <1>3, <2>1, <2>2 DEF ProcessCTAPHID, Handling
<1>4. CASE WaitTouched
    <2>1. TypeOK'
        BY <1>4, LoopsAssumption DEF WaitTouched, Waiting, AfterWait, TypeOK
    <2>2. RingConsistent'
        BY <1>4 DEF WaitTouched, Waiting, AfterWait, RingConsistent, Quiet, RingAgrees, Past, InRing, Ahead
    <2> QED
        BY <1>4, <2>1, <2>2 DEF WaitTouched, AfterWait
<1>5. CASE ReportDealOver
    <2>1. TypeOK'
        BY <1>5 DEF ReportDealOver, TypeOK, Packets
    <2>2. RingConsistent'
        BY <1>5 DEF ReportDealOver, RingConsistent, Quiet, RingAgrees, Past, InRing, Ahead
    <2> QED
        BY <1>5, <2>1, <2>2 DEF ReportDealOver
<1> QED
    BY <1>1, <1>2, <1>3, <1>4, <1>5

(* Restarting EP1.  That the ring filled up since RemainPack was compared  *)
(* is not noticed, so one packet more than Past may come in.               *)
LEMMA RestartEP1RingInv ==
    ASSUME RingInv, CheckRestart \/ ClearStopFlag \/ RestartEP1
    PROVE  RingInv'
<1> USE RingAssumption, RearmAssumption DEF RingInv, ring, usb, ep0, command
<1>0. Past' = Past /\ (Quiet' <=> Quiet) /\ UNCHANGED <<Data_Buffer, LoadPtr, DealPtr, RemainPack, UEP1_DMA, current>>
      /\ ~InRing' /\ ~InRing /\ pc' # "ring_wait"
    BY DEF CheckRestart, ClearStopFlag, RestartEP1, Past, Quiet, InRing
<1>1. Past = Max_Blks - REMINE + haltClears /\ haltClears \in Nat /\ RemainPack \in Nat
    BY DEF Past, TypeOK
<1>2. OwnPacketStays'
    BY <1>0 DEF OwnPacketStays
<1>3. LoadPtr = Ahead(DealPtr, RemainPack) => LoadPtr' = Ahead(DealPtr', RemainPack')
    BY <1>0 DEF Ahead
<1>4. CASE CheckRestart
    <2>1. TypeOK'
        BY <1>4 DEF CheckRestart, TypeOK
    <2>2. pc' = "restart_flag" => RemainPack < Max_Blks - REMINE
        BY <1>1, <1>4 DEF CheckRestart
    <2>3. UNCHANGED <<StopFlag, ep1Ack>> /\ pc # "restart_ack" /\ pc' # "restart_ack"
        BY <1>4 DEF CheckRestart
    <2>4. RingAgrees => RingAgrees'
        BY <1>0, <1>1, <1>3, <2>2, <2>3 DEF RingAgrees
    <2> QED
        BY <1>0, <1>2, <2>1, <2>4 DEF RingConsistent
<1>5. CASE ClearStopFlag
    <2>1. TypeOK'
        BY <1>5 DEF ClearStopFlag, TypeOK
    <2>2. /\ ep1Ack' = ep1Ack /\ pc = "restart_flag" /\ pc' \in {"ring", "restart_ack"}
          /\ ~StopFlag \/ pc' = "restart_ack"
        BY <1>5 DEF ClearStopFlag
    <2>3. RingAgrees => RingAgrees'
        BY <1>0, <1>1, <1>3, <2>2 DEF RingAgrees
    <2> QED
        BY <1>0, <1>2, <2>1, <2>3 DEF RingConsistent
<1>6. CASE RestartEP1
    <2>1. TypeOK'
        BY <1>6 DEF RestartEP1, TypeOK
    <2>2. ep1Ack' /\ pc = "restart_ack" /\ pc' = "ring"
        BY <1>6 DEF RestartEP1
    <2>3. RingAgrees => RingAgrees'
        BY <1>0, <1>1, <1>3, <2>2 DEF RingAgrees
    <2> QED
        BY <1>0, <1>2, <2>1, <2>3 DEF RingConsistent
<1> QED
    BY <1>4, <1>5, <1>6

(* A bus reset ends what RingConsistent promises and keeps the types.      *)
LEMMA OtherInterruptsRingInv ==
    ASSUME RingInv,
           \/ \E p \in Ep0Packets : EP0_SET_REPORT(p)
           \/ BUS_RST
           \/ CLEAR_FEATURE_EP1
    PROVE  RingInv'
<1> USE RingAssumption DEF RingInv, OwnPacketStays, ep0, command
<1>1. ASSUME NEW p \in Ep0Packets, EP0_SET_REPORT(p)
      PROVE  RingInv'
    <2>1. TypeOK'
        BY <1>1, PacketsAssumption DEF EP0_SET_REPORT, TypeOK, Packets, ring, usb
    <2> QED
        BY <1>1, <2>1
        DEF EP0_SET_REPORT, RingConsistent, Quiet, RingAgrees, Past, InRing, Ahead, ring, usb
<1>2. CASE BUS_RST
    <2>1. TypeOK'
        BY <1>2, RearmAssumption DEF BUS_RST, TypeOK, Blocks
    <2>2. ~Quiet'
        BY <1>2, RearmAssumption DEF BUS_RST, TypeOK, Quiet
    <2> QED
        BY <1>2, <2>1, <2>2 DEF BUS_RST, RingConsistent
<1>3. CASE CLEAR_FEATURE_EP1
    <2>1. TypeOK'
        BY <1>3, RearmAssumption DEF CLEAR_FEATURE_EP1, TypeOK
    <2>2. RingConsistent'
        BY <1>3, RearmAssumption
        DEF CLEAR_FEATURE_EP1, TypeOK, RingConsistent, Quiet, RingAgrees, Past, InRing, Ahead
    <2> QED
        BY <1>3, <2>1, <2>2 DEF CLEAR_FEATURE_EP1
<1> QED
    BY <1>1, <1>2, <1>3

LEMMA NextRingInv ==
    ASSUME RingInv, [Next]_vars
    PROVE  RingInv'
<1>1. CASE UNCHANGED vars
    BY <1>1 DEF RingInv, TypeOK, RingConsistent, Quiet, RingAgrees, Past, OwnPacketStays, InRing,
        Ahead, vars, ring, usb, ep0, command
<1>2. CASE MainStep
    BY <1>2, OtherMainStepsRingInv, WaitPollRingInv, DequeueRingInv, RestartEP1RingInv
    DEF MainStep
<1>3. CASE Interrupt
    BY <1>3, EP1_OUTRingInv, OtherInterruptsRingInv DEF Interrupt
<1> QED
    BY <1>1, <1>2, <1>3 DEF Next

-----------------------------------------------------------------------------
(* Every reachable state satisfies the inductive invariant. *)
THEOREM Invariance == Spec => []RingInv
<1>1. Init => RingInv
    BY InitRingInv
<1>2. RingInv /\ [Next]_vars => RingInv'
    BY NextRingInv
<1> QED
    BY <1>1, <1>2, PTL DEF Spec

(* Whatever its size and thresholds, the ring of EP1 never overruns, its   *)
(* pointers agree, and the packet removed after ProcessCTAPHID is the one  *)
(* it was called with, although the touch wait also removes packets, until *)
(* the bus is reset.                                                       *)
THEOREM RingIsConsistent == Spec => []RingConsistent
<1>1. RingInv => RingConsistent
    BY DEF RingInv
<1> QED
    BY <1>1, Invariance, PTL

(* Every reachable state, after bus resets too, has the declared types: no *)
(* pointer leaves the ring.                                                *)
THEOREM TypeCorrect == Spec => []TypeOK
<1>1. RingInv => TypeOK
    BY DEF RingInv
<1> QED
    BY <1>1, Invariance, PTL

-----------------------------------------------------------------------------
(* The refinement of PacketFifo.  The queue of n - h packets that a ring   *)
(* of contents b holds from the block h after d on.                        *)
QueueOf(b, d, n, h) == [i \in 1 .. n - h |-> b[Ahead(d, h + i - 1)]]

(* Blocks at different distances from d, both less than a turn of the      *)
(* ring, are different.                                                    *)
LEMMA AheadInjective ==
    ASSUME NEW d \in Blocks, NEW m \in Nat, NEW n \in Nat, m < n, n < Max_Blks
    PROVE  Ahead(d, m) \in Blocks /\ Ahead(d, m) # Ahead(d, n)
BY RingAssumption DEF Blocks, Ahead

LEMMA QueueIsSeq ==
    ASSUME NEW b \in [Blocks -> Packets], NEW d \in Blocks, NEW n \in Nat, n <= Max_Blks,
           NEW h \in {0, 1}, h <= n
    PROVE  /\ QueueOf(b, d, n, h) \in Seq(Packets)
           /\ Len(QueueOf(b, d, n, h)) = n - h
           /\ \A i \in 1 .. n - h : QueueOf(b, d, n, h)[i] = b[Ahead(d, h + i - 1)]
<1>1. \A i \in 1 .. n - h : Ahead(d, h + i - 1) \in Blocks
    BY RingAssumption DEF Blocks, Ahead
<1> DEFINE k == n - h
           queue == QueueOf(b, d, n, h)
<1>2. k \in Nat
    OBVIOUS
<1>3. queue \in [1 .. k -> Packets] /\ \A i \in 1 .. k : queue[i] = b[Ahead(d, h + i - 1)]
    BY <1>1 DEF QueueOf
<1> HIDE DEF k, queue
<1>4. queue \in Seq(Packets) /\ DOMAIN queue = 1 .. k
    BY <1>2, <1>3
<1>5. Len(queue) = k
    BY <1>2, <1>4
<1> QED
    BY <1>3, <1>4, <1>5 DEF k, queue

(* Receiving into the block after the queue appends to it. *)
LEMMA QueueGrows ==
    ASSUME NEW b \in [Blocks -> Packets], NEW d \in Blocks, NEW n \in Nat, n < Max_Blks,
           NEW h \in {0, 1}, h <= n, NEW p \in Packets
    PROVE  QueueOf([b EXCEPT ![Ahead(d, n)] = p], d, n + 1, h) = Append(QueueOf(b, d, n, h), p)
<1> DEFINE c == [b EXCEPT ![Ahead(d, n)] = p]
           old == QueueOf(b, d, n, h)
           new == QueueOf(c, d, n + 1, h)
<1>0. Ahead(d, n) \in Blocks
    BY RingAssumption DEF Blocks, Ahead
<1>1. c \in [Blocks -> Packets] /\ c[Ahead(d, n)] = p
    BY <1>0
<1>2. /\ old \in Seq(Packets) /\ Len(old) = n - h
      /\ \A i \in 1 .. n - h : old[i] = b[Ahead(d, h + i - 1)]
    <2>1. n <= Max_Blks
        BY RingAssumption
    <2> QED
        BY <2>1, QueueIsSeq, Zenon
<1>3. /\ new \in Seq(Packets) /\ Len(new) = n + 1 - h
      /\ \A i \in 1 .. n + 1 - h : new[i] = c[Ahead(d, h + i - 1)]
    <2> DEFINE m == n + 1
    <2>1. m \in Nat /\ m <= Max_Blks /\ h <= m
        BY RingAssumption
    <2>2. c \in [Blocks -> Packets]
        BY <1>1
    <2> HIDE DEF c, m
    <2> DEFINE queue == QueueOf(c, d, m, h)
    <2>3. /\ queue \in Seq(Packets) /\ Len(queue) = m - h
          /\ \A i \in 1 .. m - h : queue[i] = c[Ahead(d, h + i - 1)]
        BY <2>1, <2>2, QueueIsSeq, Zenon
    <2>4. queue = new /\ m - h = n + 1 - h
        BY DEF m
    <2> HIDE DEF queue, new
    <2> QED
        BY <2>3, <2>4
<1>4. /\ Append(old, p) \in Seq(Packets) /\ Len(Append(old, p)) = n + 1 - h
      /\ \A i \in 1 .. n - h : Append(old, p)[i] = old[i]
      /\ Append(old, p)[n + 1 - h] = p
    BY <1>2, AppendProperties
<1>5. \A i \in 1 .. n - h : c[Ahead(d, h + i - 1)] = b[Ahead(d, h + i - 1)]
    <2>1. ASSUME NEW i \in 1 .. n - h
          PROVE  c[Ahead(d, h + i - 1)] = b[Ahead(d, h + i - 1)]
        <3>1. Ahead(d, h + i - 1) \in Blocks /\ Ahead(d, h + i - 1) # Ahead(d, n)
            BY AheadInjective
        <3> QED
            BY <3>1
    <2> QED
        BY <2>1
<1>6. \A i \in 1 .. n + 1 - h : new[i] = Append(old, p)[i]
    <2>1. ASSUME NEW i \in 1 .. n + 1 - h
          PROVE  new[i] = Append(old, p)[i]
        <3>1. CASE i \in 1 .. n - h
            BY <3>1, <1>2, <1>3, <1>4, <1>5
        <3>2. CASE i = n + 1 - h
            <4>1. h + i - 1 = n
                BY <3>2
            <4> QED
                BY <3>2, <4>1, <1>1, <1>3, <1>4
        <3>3. i \in 1 .. n - h \/ i = n + 1 - h
            OBVIOUS
        <3> QED
            BY <3>1, <3>2, <3>3, Zenon
    <2> QED
        BY <2>1
<1> HIDE DEF old, new, c
<1>7. new = Append(old, p)
    BY <1>3, <1>4, <1>6, SeqEqual
<1> QED
    BY <1>7 DEF old, new, c

(* The first packet of the queue is the block at d; taking it in hand, and *)
(* then out of the ring, leaves the rest.                                  *)
LEMMA QueueShrinks ==
    ASSUME NEW b \in [Blocks -> Packets], NEW d \in Blocks, NEW n \in Nat, n <= Max_Blks, n > 0
    PROVE  /\ QueueOf(b, d, n, 0) # <<>>
           /\ Head(QueueOf(b, d, n, 0)) = b[d]
           /\ QueueOf(b, d, n, 1) = Tail(QueueOf(b, d, n, 0))
           /\ QueueOf(b, NextBlock(d), n - 1, 0) = QueueOf(b, d, n, 1)
<1> DEFINE all == QueueOf(b, d, n, 0)
           rest == QueueOf(b, d, n, 1)
           moved == QueueOf(b, NextBlock(d), n - 1, 0)
<1>1. /\ all \in Seq(Packets) /\ Len(all) = n
      /\ \A i \in 1 .. n : all[i] = b[Ahead(d, 0 + i - 1)]
    BY QueueIsSeq
<1>2. /\ rest \in Seq(Packets) /\ Len(rest) = n - 1
      /\ \A i \in 1 .. n - 1 : rest[i] = b[Ahead(d, 1 + i - 1)]
    BY QueueIsSeq
<1>3. /\ moved \in Seq(Packets) /\ Len(moved) = n - 1
      /\ \A i \in 1 .. n - 1 : moved[i] = b[Ahead(NextBlock(d), 0 + i - 1)]
    <2> DEFINE k == n - 1
    <2>1. k \in Nat /\ k <= Max_Blks /\ NextBlock(d) \in Blocks /\ k - 0 = k /\ 0 <= k
        BY NextBlockAhead, RingAssumption
    <2> HIDE DEF k
    <2> DEFINE queue == QueueOf(b, NextBlock(d), k, 0)
    <2>2. /\ queue \in Seq(Packets) /\ Len(queue) = k - 0
          /\ \A i \in 1 .. k - 0 : queue[i] = b[Ahead(NextBlock(d), 0 + i - 1)]
        BY <2>1, QueueIsSeq, Zenon
    <2>3. queue = moved /\ k = n - 1
        BY DEF k
    <2> QED
        BY <2>1, <2>2, <2>3, Zenon
<1>4. Ahead(d, 0) = d
    BY RingAssumption DEF Ahead, Blocks
<1>5. \A i \in 1 .. n - 1 : Ahead(NextBlock(d), 0 + i - 1) = Ahead(d, 1 + i - 1)
    BY RingAssumption DEF Ahead, Blocks, NextBlock
<1> HIDE DEF all, rest, moved
<1>6. all # <<>> /\ Head(all) = all[1]
    BY <1>1
<1>7. Head(all) = b[d]
    BY <1>1, <1>4, <1>6
<1>8. Tail(all) \in Seq(Packets) /\ Len(Tail(all)) = n - 1
      /\ \A i \in 1 .. n - 1 : Tail(all)[i] = all[i + 1]
    BY <1>1, <1>6, HeadTailProperties
<1>9. \A i \in 1 .. n - 1 : rest[i] = Tail(all)[i]
    BY <1>1, <1>2, <1>8
<1>10. rest = Tail(all)
    BY <1>2, <1>8, <1>9, SeqEqual
<1>11. moved = rest
    BY <1>2, <1>3, <1>5, SeqEqual
<1> QED
    BY <1>6, <1>7, <1>10, <1>11 DEF all, rest, moved

InHand == IF InRing THEN current ELSE "none"

(* What the steps of the refinement need of the state. *)
LEMMA QueueFacts ==
    ASSUME TypeOK, RingAgrees, Quiet
    PROVE  /\ Data_Buffer \in [Blocks -> Packets] /\ DealPtr \in Blocks
           /\ RemainPack \in Nat /\ RemainPack <= Max_Blks
           /\ ep1Ack => RemainPack < Max_Blks
           /\ Held \in {0, 1} /\ Held <= RemainPack
           /\ Queued = QueueOf(Data_Buffer, DealPtr, RemainPack, Held)
<1> USE RingAssumption, RearmAssumption
<1>1. haltClears \in Nat /\ haltClears < REMINE
    BY DEF TypeOK, Quiet
<1>2. RemainPack \in Nat /\ RemainPack <= Max_Blks /\ (ep1Ack => RemainPack < Max_Blks)
    BY <1>1 DEF TypeOK, RingAgrees, Past
<1>3. Held \in {0, 1} /\ Held <= RemainPack
    BY <1>2 DEF Held, RingAgrees
<1>4. Queued = QueueOf(Data_Buffer, DealPtr, RemainPack, Held)
    BY DEF Queued, QueueOf
<1> QED
    BY <1>2, <1>3, <1>4 DEF TypeOK

(* A report is received into the block after the last queued one. *)
LEMMA EP1_OUTRefines ==
    ASSUME RingInv, Quiet, NEW p \in Ep1Packets, EP1_OUT(p)
    PROVE  Fifo!Receive(p)
<1>0. TypeOK /\ RingAgrees
    BY DEF RingInv, RingConsistent
<1>1. p \in Packets
    BY PacketsAssumption DEF Packets
<1>2. RemainPack < Max_Blks
    BY <1>0, QueueFacts DEF EP1_OUT
<1>3. RemainPack' = RemainPack + 1
    BY <1>0, <1>2, CountsWrap DEF EP1_OUT, TypeOK
<1>4. UEP1_DMA = Ahead(DealPtr, RemainPack)
    BY <1>0 DEF RingAgrees
<1>5. Data_Buffer' = [Data_Buffer EXCEPT ![Ahead(DealPtr, RemainPack)] = p]
    BY <1>4 DEF EP1_OUT
<1>6. DealPtr' = DealPtr /\ (InRing' <=> InRing) /\ Held' = Held /\ current' = current /\ wire' = p
    BY DEF EP1_OUT, InRing, Held
<1>7. Queued' = QueueOf(Data_Buffer', DealPtr, RemainPack + 1, Held)
    BY <1>3, <1>6 DEF Queued, QueueOf
<1>8. QueueOf([Data_Buffer EXCEPT ![Ahead(DealPtr, RemainPack)] = p], DealPtr, RemainPack + 1, Held)
      = Append(QueueOf(Data_Buffer, DealPtr, RemainPack, Held), p)
    BY <1>0, <1>1, <1>2, QueueFacts, QueueGrows, ZenonT(60)
<1>9. Queued' = Append(Queued, p)
    BY <1>0, <1>5, <1>7, <1>8, QueueFacts, Zenon
<1>10. InHand' = InHand
    BY <1>6 DEF InHand
<1> QED
    BY <1>6, <1>9, <1>10 DEF Fifo!Receive, InHand

(* The head of the ring is taken in hand when the ring is not empty. *)
LEMMA CheckRingRefines ==
    ASSUME RingInv, Quiet, CheckRing
    PROVE  Fifo!Take \/ UNCHANGED Fifo!vars
<1>0. TypeOK /\ RingAgrees
    BY DEF RingInv, RingConsistent
<1>1. /\ pc = "ring" /\ ~InRing /\ Held = 0
      /\ UNCHANGED <<Data_Buffer, DealPtr, RemainPack, wire>>
    BY DEF CheckRing, InRing, Held, ring, usb
<1>2. CASE RemainPack > 0
    <2>1. current' = Data_Buffer[DealPtr] /\ pc' = "ring_handle"
        BY <1>2, <1>0 DEF CheckRing, TypeOK
    <2>2. InRing' /\ Held' = 1
        BY <2>1 DEF InRing, Held
    <2>3. Queued' = QueueOf(Data_Buffer, DealPtr, RemainPack, 1)
        BY <1>1, <2>2 DEF Queued, QueueOf
    <2>4. Queued = QueueOf(Data_Buffer, DealPtr, RemainPack, 0)
        BY <1>0, <1>1, QueueFacts
    <2>5. Queued # <<>> /\ Head(Queued) = Data_Buffer[DealPtr] /\ Queued' = Tail(Queued)
        BY <1>0, <1>2, <2>3, <2>4, QueueFacts, QueueShrinks, Zenon
    <2> QED
        BY <1>1, <2>1, <2>2, <2>5 DEF Fifo!Take
<1>3. CASE ~(RemainPack > 0)
    <2>1. pc' = "ep0"
        BY <1>3 DEF CheckRing
    <2>2. ~InRing' /\ Held' = 0
        BY <2>1 DEF InRing, Held
    <2>3. Queued' = Queued
        BY <1>1, <2>2 DEF Queued
    <2> QED
        BY <1>1, <2>2, <2>3 DEF Fifo!vars
<1> QED
    BY <1>2, <1>3

(* The packet that was handled leaves the ring. *)
LEMMA DequeueRefines ==
    ASSUME RingInv, Quiet, Dequeue
    PROVE  Fifo!Finish
<1>0. TypeOK /\ RingAgrees
    BY DEF RingInv, RingConsistent
<1>1. InRing /\ Held = 1 /\ RemainPack > 0
    BY <1>0 DEF Dequeue, InRing, Held, RingAgrees
<1>2. ~InRing' /\ Held' = 0
    BY DEF Dequeue, InRing, Held
<1>3. /\ RemainPack' = RemainPack - 1 /\ DealPtr' = NextBlock(DealPtr)
      /\ UNCHANGED <<Data_Buffer, wire>>
    BY <1>0, <1>1, CountsWrap DEF Dequeue, RemoveHead, TypeOK, usb
<1>4. Queued' = QueueOf(Data_Buffer, NextBlock(DealPtr), RemainPack - 1, 0)
    BY <1>2, <1>3 DEF Queued, QueueOf
<1>5. Queued = QueueOf(Data_Buffer, DealPtr, RemainPack, 1)
    BY <1>0, <1>1, QueueFacts
<1>6. Queued' = Queued
    BY <1>0, <1>1, <1>4, <1>5, QueueFacts, QueueShrinks, Zenon
<1>7. current # "none"
    BY <1>0 DEF TypeOK, Packets, Kinds
<1> QED
    BY <1>1, <1>2, <1>3, <1>6, <1>7 DEF Fifo!Finish

(* A poll of the touch wait answers an out-of-band command or leaves the   *)
(* queue alone; while the request itself is in the ring, it is the head.   *)
LEMMA WaitPollRefines ==
    ASSUME RingInv, Quiet, WaitPoll
    PROVE  Fifo!Answer \/ UNCHANGED Fifo!vars
<1>0. TypeOK /\ RingAgrees /\ OwnPacketStays
    BY DEF RingInv, RingConsistent
<1>a. Waiting /\ Process_OOB_Commands /\ UNCHANGED <<usb, ep0, current>>
    BY DEF WaitPoll
<1>b. pc' \in {pc, AfterWait}
    BY DEF WaitPoll
<1>c. (InRing' <=> InRing) /\ Held' = Held /\ current' = current /\ wire' = wire
    BY <1>a, <1>b DEF Waiting, AfterWait, InRing, Held, usb
<1>1. CASE UNCHANGED ring
    <2>1. UNCHANGED <<Data_Buffer, DealPtr, RemainPack>>
        BY <1>1 DEF ring
    <2>2. Queued' = Queued
        BY <1>c, <2>1 DEF Queued
    <2> QED
        BY <1>c, <2>2 DEF Fifo!vars
<1>2. CASE RemoveHead /\ RemainPack > 0 /\ Data_Buffer[DealPtr] \in OutOfBand
    <2>1. ~InRing /\ Held = 0
        BY <1>0, <1>2, <1>a DEF Waiting, OwnPacketStays, RingAgrees, InRing, OutOfBand, Held
    <2>2. /\ RemainPack' = RemainPack - 1 /\ DealPtr' = NextBlock(DealPtr)
          /\ UNCHANGED Data_Buffer
        BY <1>0, <1>2, CountsWrap DEF RemoveHead, TypeOK
    <2>3. Queued' = QueueOf(Data_Buffer, NextBlock(DealPtr), RemainPack - 1, 0)
        BY <1>c, <2>1, <2>2 DEF Queued, QueueOf
    <2>4. Queued = QueueOf(Data_Buffer, DealPtr, RemainPack, 0)
        BY <1>0, <2>1, QueueFacts
    <2>5. Queued # <<>> /\ Head(Queued) = Data_Buffer[DealPtr] /\ Queued' = Tail(Queued)
        BY <1>0, <1>2, <2>3, <2>4, QueueFacts, QueueShrinks, Zenon
    <2> QED
        BY <1>2, <1>c, <2>5 DEF Fifo!Answer
<1> QED
    BY <1>1, <1>2, <1>a DEF Process_OOB_Commands

(* The remaining steps are invisible to whoever takes the packets. *)
LEMMA OtherStepsRefine ==
    ASSUME RingInv,
           \/ CheckReport \/ ProcessCTAPHID \/ WaitTouched \/ ReportDealOver
           \/ CheckRestart \/ ClearStopFlag \/ RestartEP1
           \/ \E p \in Ep0Packets : EP0_SET_REPORT(p)
           \/ CLEAR_FEATURE_EP1
           \/ UNCHANGED vars
    PROVE  UNCHANGED Fifo!vars
<1>1. /\ UNCHANGED <<Data_Buffer, DealPtr, RemainPack, wire>>
      /\ InRing' <=> InRing
      /\ InRing => current' = current
    BY DEF CheckReport, ProcessCTAPHID, Handling, WaitTouched, Waiting, AfterWait, ReportDealOver,
       CheckRestart, ClearStopFlag, RestartEP1, EP0_SET_REPORT, CLEAR_FEATURE_EP1, InRing, vars, ring, usb
<1>2. Held' = Held
    BY <1>1 DEF Held
<1>3. Queued' = Queued
    BY <1>1, <1>2 DEF Queued
<1>4. (IF InRing THEN current ELSE "none")' = (IF InRing THEN current ELSE "none")
    BY <1>1
<1> QED
    BY <1>1, <1>3, <1>4 DEF Fifo!vars

(* Once the bus has been reset it has been, and halts are only counted up. *)
LEMMA QuietBefore ==
    ASSUME TypeOK, [Next]_vars, Quiet'
    PROVE  Quiet
<1> USE RingAssumption, RearmAssumption DEF Quiet, TypeOK
<1>1. CASE UNCHANGED <<resets, haltClears>>
    BY <1>1
<1>2. CASE BUS_RST
    BY <1>2 DEF BUS_RST
<1>3. CASE CLEAR_FEATURE_EP1
    BY <1>3 DEF CLEAR_FEATURE_EP1
<1>4. CASE MainStep
    BY <1>4, <1>1 DEF MainStep, CheckRing, CheckReport, ProcessCTAPHID, WaitTouched, WaitPoll, Dequeue,
       ReportDealOver, CheckRestart, ClearStopFlag, RestartEP1, usb
<1> QED
    BY <1>1, <1>2, <1>3, <1>4 DEF Next, Interrupt, EP1_OUT, EP0_SET_REPORT, vars, usb

LEMMA InitRefines == Init => Fifo!Init
<1> SUFFICES ASSUME Init PROVE Fifo!Init
    OBVIOUS
<1>1. ~InRing /\ Held = 0 /\ RemainPack = 0 /\ wire \in Packets
    BY DEF Init, InRing, Held, Packets
<1>2. Queued = <<>>
    BY <1>1 DEF Queued
<1> QED
    BY <1>1, <1>2 DEF Fifo!Init

LEMMA NextRefines ==
    ASSUME RingInv, [Next]_vars
    PROVE  [Quiet' => Fifo!Next]_(Fifo!vars)
<1> SUFFICES ASSUME Quiet'
             PROVE  Fifo!Next \/ UNCHANGED Fifo!vars
    OBVIOUS
<1>0. Quiet /\ TypeOK
    BY QuietBefore DEF RingInv
<1>1. ASSUME NEW p \in Ep1Packets, EP1_OUT(p)
      PROVE  Fifo!Next
    <2>1. p \in Packets
        BY PacketsAssumption DEF Packets
    <2> QED
        BY <1>0, <1>1, <2>1, EP1_OUTRefines DEF Fifo!Next
<1>2. ~BUS_RST
    BY <1>0, RearmAssumption DEF BUS_RST, Quiet, TypeOK
<1>3. CASE CheckRing
    BY <1>0, <1>3, CheckRingRefines DEF Fifo!Next
<1>4. CASE Dequeue
    BY <1>0, <1>4, DequeueRefines DEF Fifo!Next
<1>5. CASE WaitPoll
    BY <1>0, <1>5, WaitPollRefines DEF Fifo!Next
<1>6. CASE \/ CheckReport \/ ProcessCTAPHID \/ WaitTouched \/ ReportDealOver
           \/ CheckRestart \/ ClearStopFlag \/ RestartEP1
           \/ \E p \in Ep0Packets : EP0_SET_REPORT(p)
           \/ CLEAR_FEATURE_EP1
           \/ UNCHANGED vars
    BY <1>6, OtherStepsRefine
<1> QED
    BY <1>1, <1>2, <1>3, <1>4, <1>5, <1>6 DEF Next, MainStep, Interrupt

(* The ring of EP1 implements PacketFifo: whatever its size, as long as    *)
(* the bus is quiet, every report the host sends is handed over once,      *)
(* unchanged and in order, while the interrupt fills the ring under the    *)
(* main loop and the touch wait takes out-of-band commands from its head.  *)
THEOREM RefinesFifo == Spec => ImplementsFifo
<1>1. Init => Fifo!Init
    BY InitRefines
<1>2. RingInv /\ [Next]_vars => [Quiet' => Fifo!Next]_(Fifo!vars)
    BY NextRefines
<1> QED
    BY <1>1, <1>2, Invariance, PTL DEF Spec, ImplementsFifo

=============================================================================
