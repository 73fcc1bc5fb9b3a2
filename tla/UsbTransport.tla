----------------------------- MODULE UsbTransport -----------------------------
(***************************************************************************)
(* Incoming reports: the USB interrupt of ch32x035_usbfs_device.c fills a  *)
(* ring of blocks (EP1 OUT) and one report buffer (EP0 SET_REPORT); the    *)
(* main loop of main.c takes them out, and while a command waits for a     *)
(* touch (fido2_wait_for_user_presence) polls the ring for out-of-band     *)
(* commands.  The interrupt may run between any two steps of the main loop.*)
(*                                                                         *)
(* A packet is what it makes ProcessCTAPHID and Process_OOB_Commands do:   *)
(*   "touch"   completes a CBOR request that waits for user presence       *)
(*   "quick"   any other packet with no out-of-band meaning                *)
(*   "wink"    WINK, LOCK, or INIT on the broadcast channel                *)
(*   "resync"  INIT on the channel of the request in progress              *)
(*   "cancel"  CANCEL                                                      *)
(***************************************************************************)
EXTENDS Naturals, Sequences

CONSTANTS
    Max_Blks,     \* DEF_Ring_Buffer_Max_Blks
    REMINE,       \* DEF_RING_BUFFER_REMINE: blocks in hand when EP1 is stopped
    RESTART,      \* DEF_RING_BUFFER_RESTART: blocks free when EP1 is restarted
    MaxCount,     \* largest value of RemainPack, a uint8_t (255)
    Ep1Packets,   \* packets the host sends on EP1 OUT
    Ep0Packets,   \* packets the host sends by SET_REPORT
    MaxResets,    \* bound on the bus resets of a behaviour
    MaxHaltClears,\* bound on the CLEAR_FEATURE(ENDPOINT_HALT) of EP1
    MaxLoops      \* polls of a touch wait before it times out (300)

ASSUME RingAssumption ==
    /\ Max_Blks \in Nat /\ REMINE \in Nat /\ RESTART \in Nat
    /\ 1 <= REMINE /\ REMINE <= RESTART /\ RESTART < Max_Blks
    /\ MaxCount \in Nat /\ Max_Blks <= MaxCount
ASSUME LoopsAssumption == MaxLoops \in Nat
ASSUME RearmAssumption == MaxResets \in Nat /\ MaxHaltClears \in Nat

Blocks  == 0 .. Max_Blks - 1
Kinds   == {"touch", "quick", "wink", "resync", "cancel"}
Packets == Kinds \cup {"blank"}   \* a block no packet was received in

ASSUME PacketsAssumption == Ep1Packets \subseteq Kinds /\ Ep0Packets \subseteq Kinds

VARIABLES
    Data_Buffer, LoadPtr, DealPtr, RemainPack, StopFlag,   \* RingBuffer_Comm
    UEP1_DMA,     \* the block the USB controller receives the next packet in
    ep1Ack,       \* EP1 OUT answers ACK rather than NAK
    wire,         \* the last packet the host sent on EP1
    resets, haltClears,
    HID_Report_Buffer, HID_Set_Report_Flag,
    pc,           \* where the main loop is
    current,      \* the packet ProcessCTAPHID was called with
    loops,        \* of fido2_wait_for_user_presence
    cancel_requested

ring    == <<Data_Buffer, LoadPtr, DealPtr, RemainPack, StopFlag, UEP1_DMA, ep1Ack>>
usb     == <<wire, resets, haltClears>>
ep0     == <<HID_Report_Buffer, HID_Set_Report_Flag>>
command == <<loops, cancel_requested>>
vars    == <<ring, usb, ep0, pc, current, command>>

(* The pointers of RingBuffer_Comm name blocks of the ring, whatever the   *)
(* interrupt and the main loop do; RemainPack is no more than a byte.      *)
TypeOK ==
    /\ Data_Buffer \in [Blocks -> Packets]
    /\ LoadPtr \in Blocks /\ DealPtr \in Blocks /\ UEP1_DMA \in Blocks
    /\ RemainPack \in 0 .. MaxCount
    /\ StopFlag \in BOOLEAN /\ ep1Ack \in BOOLEAN
    /\ wire \in Packets
    /\ resets \in 0 .. MaxResets /\ haltClears \in 0 .. MaxHaltClears
    /\ HID_Report_Buffer \in Packets /\ HID_Set_Report_Flag \in BOOLEAN
    /\ pc \in {"ring", "ring_handle", "ring_wait", "dequeue",
               "ep0", "ep0_handle", "ep0_wait", "ep0_done",
               "restart", "restart_flag", "restart_ack"}
    /\ current \in Packets
    /\ loops \in 0 .. MaxLoops /\ cancel_requested \in BOOLEAN

Init ==
    /\ Data_Buffer = [b \in Blocks |-> "blank"]
    /\ LoadPtr = 0 /\ DealPtr = 0 /\ RemainPack = 0 /\ StopFlag = FALSE
    /\ UEP1_DMA = 0 /\ ep1Ack = TRUE
    /\ wire = "blank" /\ resets = 0 /\ haltClears = 0
    /\ HID_Report_Buffer = "blank" /\ HID_Set_Report_Flag = FALSE
    /\ pc = "ring" /\ current = "blank"
    /\ loops = 0 /\ cancel_requested = FALSE

NextBlock_off_by_one(b) == IF b = Max_Blks THEN 0 ELSE b + 1         \* mutant
NextBlock(b) == IF b + 1 = Max_Blks THEN 0 ELSE b + 1

(* RemainPack++ and RemainPack--, which wrap. *)
Inc(n) == IF n = MaxCount THEN 0 ELSE n + 1
Dec(n) == IF n = 0 THEN MaxCount ELSE n - 1

----------------------------------------------------------------------------
(* The interrupt handler, one transaction at a time. *)

EP1_OUT_stops_late(p) ==                                             \* mutant
    /\ ep1Ack
    /\ Data_Buffer' = [Data_Buffer EXCEPT ![UEP1_DMA] = p]
    /\ LoadPtr' = NextBlock(LoadPtr)
    /\ UEP1_DMA' = NextBlock(LoadPtr)
    /\ RemainPack' = Inc(RemainPack)
    /\ wire' = p
    /\ LET full == Inc(RemainPack) > Max_Blks - REMINE IN
         /\ ep1Ack' = ~full
         /\ StopFlag' = (StopFlag \/ full)
    /\ UNCHANGED <<DealPtr, resets, haltClears, ep0, pc, current, command>>

EP1_OUT(p) ==
    /\ ep1Ack
    /\ Data_Buffer' = [Data_Buffer EXCEPT ![UEP1_DMA] = p]
    /\ LoadPtr' = NextBlock(LoadPtr)
    /\ UEP1_DMA' = NextBlock(LoadPtr)
    /\ RemainPack' = Inc(RemainPack)
    /\ wire' = p
    /\ LET full == Inc(RemainPack) >= Max_Blks - REMINE IN
         /\ ep1Ack' = ~full
         /\ StopFlag' = (StopFlag \/ full)
    /\ UNCHANGED <<DealPtr, resets, haltClears, ep0, pc, current, command>>

(* The status stage is acknowledged at once, whether or not the main loop  *)
(* has dealt with the previous report.                                     *)
EP0_SET_REPORT(p) ==
    /\ HID_Report_Buffer' = p
    /\ HID_Set_Report_Flag' = TRUE
    /\ UNCHANGED <<ring, usb, pc, current, command>>

(* USBFS_Device_Endp_Init: the controller starts again at block 0 and EP1  *)
(* acknowledges again; RingBuffer_Comm is left as it was.                  *)
BUS_RST ==
    /\ resets < MaxResets
    /\ resets' = resets + 1
    /\ UEP1_DMA' = 0
    /\ ep1Ack' = TRUE
    /\ UNCHANGED <<Data_Buffer, LoadPtr, DealPtr, RemainPack, StopFlag,
                   wire, haltClears, ep0, pc, current, command>>

CLEAR_FEATURE_EP1 ==
    /\ haltClears < MaxHaltClears
    /\ haltClears' = haltClears + 1
    /\ ep1Ack' = TRUE
    /\ UNCHANGED <<Data_Buffer, LoadPtr, DealPtr, RemainPack, StopFlag, UEP1_DMA,
                   wire, resets, ep0, pc, current, command>>

----------------------------------------------------------------------------
(* The main loop. *)

(* RemainPack and DealPtr change with the USB interrupt disabled. *)
RemoveHead ==
    /\ RemainPack' = Dec(RemainPack)
    /\ DealPtr' = NextBlock(DealPtr)
    /\ UNCHANGED <<Data_Buffer, LoadPtr, StopFlag, UEP1_DMA, ep1Ack>>

CheckRing ==
    /\ pc = "ring"
    /\ \/ /\ RemainPack > 0
          /\ current' = Data_Buffer[DealPtr]
          /\ pc' = "ring_handle"
       \/ /\ RemainPack = 0
          /\ pc' = "ep0"
          /\ UNCHANGED current
    /\ UNCHANGED <<ring, usb, ep0, command>>

CheckReport ==
    /\ pc = "ep0"
    /\ \/ /\ HID_Set_Report_Flag
          /\ current' = HID_Report_Buffer
          /\ pc' = "ep0_handle"
       \/ /\ ~HID_Set_Report_Flag
          /\ pc' = "restart"
          /\ UNCHANGED current
    /\ UNCHANGED <<ring, usb, ep0, command>>

(* The places of the main loop inside ProcessCTAPHID, for the two buffers  *)
(* it is called with, and where it returns to.                             *)
Handling == pc \in {"ring_handle", "ep0_handle"}
Waiting  == pc \in {"ring_wait", "ep0_wait"}
AfterWait == IF pc = "ring_wait" THEN "dequeue" ELSE "ep0_done"

(* A request that needs a touch clears the cancel flag and starts waiting; *)
(* a CANCEL sets the flag; everything else is dealt with at once.          *)
ProcessCTAPHID ==
    /\ Handling
    /\ IF current = "touch"
       THEN /\ pc' = IF pc = "ring_handle" THEN "ring_wait" ELSE "ep0_wait"
            /\ cancel_requested' = FALSE
       ELSE /\ pc' = IF pc = "ring_handle" THEN "dequeue" ELSE "ep0_done"
            /\ cancel_requested' = (cancel_requested \/ current = "cancel")
    /\ UNCHANGED <<ring, usb, ep0, current, loops>>

(* The commands Process_OOB_Commands takes off the ring, and those of them *)
(* that cancel the wait.                                                   *)
OutOfBand == {"wink", "resync", "cancel"}
Cancels   == {"resync", "cancel"}

Process_OOB_Commands_any_packet ==                                   \* mutant
    IF RemainPack > 0 THEN RemoveHead ELSE UNCHANGED ring

Process_OOB_Commands ==
    IF RemainPack > 0 /\ Data_Buffer[DealPtr] \in OutOfBand
    THEN RemoveHead
    ELSE UNCHANGED ring

OobCancels == RemainPack > 0 /\ Data_Buffer[DealPtr] \in Cancels

(* One turn of the loop of fido2_wait_for_user_presence: a touch ends it;  *)
(* otherwise the ring is polled, then the cancel flag and the time.  loops *)
(* is local, as current is in the main loop.                               *)
WaitPoll_never_times_out ==                                          \* mutant
    /\ Waiting
    /\ Process_OOB_Commands
    /\ cancel_requested' = (cancel_requested \/ OobCancels)
    /\ IF cancel_requested' THEN pc' = AfterWait ELSE UNCHANGED pc
    /\ UNCHANGED <<usb, ep0, current, loops>>

WaitTouched ==
    /\ Waiting
    /\ pc' = AfterWait
    /\ loops' = 0
    /\ UNCHANGED <<ring, usb, ep0, current, cancel_requested>>

WaitPoll ==
    /\ Waiting
    /\ Process_OOB_Commands
    /\ cancel_requested' = (cancel_requested \/ OobCancels)
    /\ IF cancel_requested' \/ loops = MaxLoops
       THEN pc' = AfterWait /\ loops' = 0
       ELSE loops' = loops + 1 /\ UNCHANGED pc
    /\ UNCHANGED <<usb, ep0, current>>

Dequeue ==
    /\ pc = "dequeue"
    /\ RemoveHead
    /\ pc' = "ep0"
    /\ current' = "blank"
    /\ UNCHANGED <<usb, ep0, command>>

(* HID_Set_Report_Flag is cleared once the report has been processed. *)
ReportDealOver ==
    /\ pc = "ep0_done"
    /\ HID_Set_Report_Flag' = FALSE
    /\ pc' = "restart"
    /\ current' = "blank"
    /\ UNCHANGED <<HID_Report_Buffer, ring, usb, command>>

(* EP1 is restarted with the interrupt enabled: RemainPack is compared,    *)
(* StopFlag is tested and cleared, and the answer ACK is stored, each for  *)
(* itself.  What the interrupt counted, or stopped, in between is not      *)
(* looked at again.                                                        *)
CheckRestart ==
    /\ pc = "restart"
    /\ pc' = IF RemainPack < Max_Blks - RESTART THEN "restart_flag" ELSE "ring"
    /\ UNCHANGED <<ring, usb, ep0, current, command>>

ClearStopFlag ==
    /\ pc = "restart_flag"
    /\ StopFlag' = FALSE
    /\ pc' = IF StopFlag THEN "restart_ack" ELSE "ring"
    /\ UNCHANGED <<Data_Buffer, LoadPtr, DealPtr, RemainPack, UEP1_DMA, ep1Ack,
                   usb, ep0, current, command>>

RestartEP1_never ==                                                  \* mutant
    /\ pc = "restart_ack"
    /\ pc' = "ring"
    /\ UNCHANGED <<ring, usb, ep0, current, command>>

RestartEP1 ==
    /\ pc = "restart_ack"
    /\ ep1Ack' = TRUE
    /\ pc' = "ring"
    /\ UNCHANGED <<Data_Buffer, LoadPtr, DealPtr, RemainPack, StopFlag, UEP1_DMA,
                   usb, ep0, current, command>>

MainStep ==
    \/ CheckRing
    \/ CheckReport
    \/ ProcessCTAPHID
    \/ WaitTouched
    \/ WaitPoll
    \/ Dequeue
    \/ ReportDealOver
    \/ CheckRestart
    \/ ClearStopFlag
    \/ RestartEP1

Interrupt ==
    \/ \E p \in Ep1Packets : EP1_OUT(p)
    \/ \E p \in Ep0Packets : EP0_SET_REPORT(p)
    \/ BUS_RST
    \/ CLEAR_FEATURE_EP1

Next == MainStep \/ Interrupt

Spec == Init /\ [][Next]_vars

(* The processor runs; the host may fall silent at any time. *)
FairSpec == Spec /\ WF_vars(MainStep)

----------------------------------------------------------------------------
(* Properties. *)

(* The block n blocks after b, for n up to Max_Blks. *)
Ahead(b, n) == IF b + n < Max_Blks THEN b + n ELSE b + n - Max_Blks

InRing == pc \in {"ring_handle", "ring_wait", "dequeue"}
Held   == IF InRing THEN 1 ELSE 0
Queued == [i \in 1 .. RemainPack - Held |-> Data_Buffer[Ahead(DealPtr, Held + i - 1)]]

Fifo == INSTANCE PacketFifo WITH
    q <- Queued, inHand <- IF InRing THEN current ELSE "none", Nothing <- "none"

(* Nothing has happened that the ring is not made for: a bus reset, or     *)
(* re-enabling of EP1 by CLEAR_FEATURE for all the blocks in hand when it  *)
(* is stopped.                                                             *)
Quiet == resets = 0 /\ haltClears < REMINE

(* The ring hands every report over once, unchanged and in order, although *)
(* the interrupt fills it while the main loop handles its head, and the    *)
(* out-of-band poll of a touch wait removes packets from the same end.     *)
ImplementsFifo == Fifo!Init /\ [][Quiet' => Fifo!Next]_(Fifo!vars)

(* The pointers agree: the controller receives into the block LoadPtr      *)
(* names, RemainPack blocks after the one being dealt with, and EP1 is     *)
(* stopped before it can reach a block that is still to be dealt with.     *)
(* One packet may pass the stop for each CLEAR_FEATURE, and one more if    *)
(* the ring has filled up while the main loop was restarting EP1.          *)
Past == Max_Blks - REMINE + haltClears

RingAgrees ==
    /\ UEP1_DMA = LoadPtr
    /\ LoadPtr = Ahead(DealPtr, RemainPack)
    /\ InRing => RemainPack > 0 /\ current = Data_Buffer[DealPtr]
    /\ RemainPack <= Past + 1
    /\ ep1Ack => RemainPack <= Past
    /\ pc \in {"restart_flag", "restart_ack"} => RemainPack <= Past /\ (ep1Ack => RemainPack < Past)
    /\ ~StopFlag => ep1Ack \/ pc = "restart_ack"

(* They agree until the bus is reset, and however the interrupt and the    *)
(* main loop interleave: RemainPack never wraps and no report is lost.     *)
RingConsistent == Quiet => RingAgrees

(* A stopped EP1 is restarted: the main loop drains the ring however long  *)
(* the host is silent and whatever resets and touch waits come between.    *)
FlowControlReleases == ~ep1Ack ~> ep1Ack

(* A touch wait ends, by a touch, a CANCEL or its time limit. *)
WaitEnds == Waiting ~> ~Waiting

(* "Incoming reports land in a ring buffer; the main loop dispatches": a   *)
(* block in which no report was received is never dispatched.              *)
DispatchesReports == pc = "ring_handle" => current # "blank"

(* "During a touch wait, out-of-band CTAPHID commands (CANCEL / INIT /     *)
(* WINK) are still serviced": no poll of a wait passes over a CANCEL that  *)
(* is the first packet received since the request.                         *)
CancelServiced ==
    [][Waiting /\ loops' = loops + 1 => Queued = <<>> \/ Head(Queued) # "cancel"]_vars

(* The report acknowledged on EP0 is the one the main loop has dealt with  *)
(* when it clears the flag.                                                *)
ReportsDealtWith ==
    [][HID_Set_Report_Flag /\ ~HID_Set_Report_Flag' => HID_Report_Buffer = current]_vars

=============================================================================
