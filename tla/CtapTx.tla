-------------------------------- MODULE CtapTx --------------------------------
(***************************************************************************)
(* Outgoing frames: fido2_send_keepalive and ctap_send_response of main.c, *)
(* the interrupt that follows each frame the host reads from EP2 IN, and   *)
(* the control requests that touch the endpoint.                           *)
(*                                                                         *)
(* The main loop changes UEP2_CTRL_H by a load and a later store of the    *)
(* whole register, which also holds the data toggle that the interrupt     *)
(* flips: an interrupt between the two is undone by the store.  The host   *)
(* acknowledges a frame whose toggle is not the one it expects, and throws *)
(* it away.                                                                *)
(*                                                                         *)
(* A payload is counted in chunks, one in the initialisation frame (which  *)
(* is sent for an empty payload too) and one in each continuation frame.   *)
(***************************************************************************)
EXTENDS Integers, Sequences, FiniteSets

CONSTANTS
    MaxPolls,      \* polls before the host is given up (50000)
    MaxLen,        \* bound on the chunks of a response
    MaxResponses,  \* bound on the responses of a behaviour
    MaxKeepalives, \* bound on its keepalives
    MaxFaults      \* bound on its bus resets and changes of the endpoint halt

ASSUME BoundsAssumption ==
    /\ MaxPolls \in Nat \ {0} /\ MaxLen \in Nat \ {0}
    /\ MaxResponses \in Nat /\ MaxKeepalives \in Nat /\ MaxFaults \in Nat

(* Frame i of response n; the initialisation frame is frame 0. *)
Frame(n, i) == [response |-> n, seq |-> i]
Keepalive   == Frame(0, 0)
Torn        == Frame(0, 1)     \* bytes of two frames
NoFrame     == Frame(0, 2)
Frames      == [response : 1 .. MaxResponses, seq : 0 .. MaxLen]
AnyFrame    == Frames \cup {Keepalive, Torn, NoFrame}
Ctrl        == [res : {"ACK", "NAK", "STALL"}, tog : {0, 1}]

VARIABLES
    UEP2_CTRL_H,   \* answer to IN tokens, and data toggle
    USBFS_EP2_Buf,
    xfer,          \* the frame the controller is sending, and its toggle
    pc, op,        \* where the main loop is, and in which function
    reg,           \* the value of UEP2_CTRL_H a store will be computed from
    payload_len, offset, timeout,
    hostTog,       \* the toggle the host expects next
    responses, keepalives,
    timeouts, faults,
    put,           \* the response frames handed over and not given up
    got            \* the response frames the host has accepted

device == <<UEP2_CTRL_H, USBFS_EP2_Buf, xfer>>
locals == <<payload_len, offset, timeout>>
counts == <<responses, keepalives>>
vars   == <<device, pc, op, reg, locals, hostTog, counts, timeouts, faults, put, got>>

TypeOK ==
    /\ UEP2_CTRL_H \in Ctrl /\ reg \in Ctrl
    /\ USBFS_EP2_Buf \in AnyFrame
    /\ xfer \in [frame : AnyFrame, tog : {0, 1}]
    /\ pc \in {"idle", "stop_load", "stop_store", "fill", "arm_load", "arm_store",
               "wait_free", "wait_sent"}
    /\ op \in {"keepalive", "response"}
    /\ payload_len \in 0 .. MaxLen /\ offset \in 0 .. MaxLen
    /\ timeout \in 0 .. MaxPolls
    /\ hostTog \in {0, 1}
    /\ responses \in 0 .. MaxResponses
    /\ keepalives \in 0 .. MaxKeepalives
    /\ timeouts \in 0 .. MaxResponses /\ faults \in 0 .. MaxFaults
    /\ put \subseteq Frames
    /\ got \in Seq(Frames \cup {Torn})

NoXfer == [frame |-> NoFrame, tog |-> 0]
Idle   == [res |-> "NAK", tog |-> 0]      \* UEP2_CTRL_H of USBFS_Device_Endp_Init

Init ==
    /\ UEP2_CTRL_H = Idle /\ reg = Idle
    /\ USBFS_EP2_Buf = NoFrame /\ xfer = NoXfer
    /\ pc = "idle" /\ op = "keepalive"
    /\ payload_len = 0 /\ offset = 0 /\ timeout = 0
    /\ hostTog = 0
    /\ responses = 0 /\ keepalives = 0 /\ timeouts = 0 /\ faults = 0
    /\ put = {} /\ got = <<>>

----------------------------------------------------------------------------
(* The main loop. *)

fido2_send_keepalive ==
    /\ pc = "idle"
    /\ keepalives < MaxKeepalives
    /\ keepalives' = keepalives + 1
    /\ op' = "keepalive"
    /\ pc' = "stop_load"
    /\ UNCHANGED <<device, reg, locals, hostTog, responses, timeouts, faults, put, got>>

ctap_send_response_at_once(len) ==                                   \* mutant
    /\ pc = "idle"
    /\ responses < MaxResponses
    /\ responses' = responses + 1
    /\ op' = "response"
    /\ payload_len' = len /\ offset' = 0 /\ timeout' = MaxPolls
    /\ pc' = "fill"
    /\ UNCHANGED <<device, reg, hostTog, keepalives, timeouts, faults, put, got>>

ctap_send_response(len) ==
    /\ pc = "idle"
    /\ responses < MaxResponses
    /\ responses' = responses + 1
    /\ op' = "response"
    /\ payload_len' = len /\ offset' = 0 /\ timeout' = MaxPolls
    /\ pc' = "wait_free"
    /\ UNCHANGED <<device, reg, hostTog, keepalives, timeouts, faults, put, got>>

(* Waiting for the frame before, then for the frame just handed over. *)
Poll_past_zero ==                                                    \* mutant
    /\ pc \in {"wait_free", "wait_sent"}
    /\ UEP2_CTRL_H.res = "ACK"
    /\ timeout' = timeout - 1
    /\ UNCHANGED <<device, pc, op, reg, payload_len, offset, hostTog, counts, timeouts, faults, put, got>>

Poll_forever ==                                                      \* mutant
    /\ pc \in {"wait_free", "wait_sent"}
    /\ UEP2_CTRL_H.res = "ACK" /\ timeout > 0
    /\ UNCHANGED vars

Poll ==
    /\ pc \in {"wait_free", "wait_sent"}
    /\ UEP2_CTRL_H.res = "ACK" /\ timeout > 0
    /\ timeout' = timeout - 1
    /\ UNCHANGED <<device, pc, op, reg, payload_len, offset, hostTog, counts, timeouts, faults, put, got>>

(* The wait that found the endpoint free goes on with the next frame of    *)
(* the response, if there is one.                                          *)
Polled ==
    /\ pc \in {"wait_free", "wait_sent"}
    /\ UEP2_CTRL_H.res # "ACK" /\ timeout > 0
    /\ pc' = IF pc = "wait_free" \/ offset < payload_len THEN "fill" ELSE "idle"
    /\ UNCHANGED <<device, op, reg, locals, hostTog, counts, timeouts, faults, put, got>>

(* "Drop if host timed out"; a frame that was read during the last of the  *)
(* polls is taken for one that was not.                                    *)
TimedOut ==
    /\ pc \in {"wait_free", "wait_sent"}
    /\ timeout = 0
    /\ timeouts' = timeouts + 1
    /\ put' = IF pc = "wait_sent" THEN put \ {USBFS_EP2_Buf} ELSE put
    /\ pc' = "stop_load"
    /\ UNCHANGED <<device, op, reg, locals, hostTog, counts, faults, got>>

(* NAK: before a keepalive, and after a response that timed out. *)
StopLoad ==
    /\ pc = "stop_load"
    /\ reg' = UEP2_CTRL_H
    /\ pc' = "stop_store"
    /\ UNCHANGED <<device, op, locals, hostTog, counts, timeouts, faults, put, got>>

StopStore ==
    /\ pc = "stop_store"
    /\ UEP2_CTRL_H' = [reg EXCEPT !.res = "NAK"]
    /\ pc' = IF op = "keepalive" THEN "fill" ELSE "idle"
    /\ UNCHANGED <<USBFS_EP2_Buf, xfer, op, reg, locals, hostTog, counts, timeouts, faults, put, got>>

(* The controller reads the buffer while it sends. *)
Mixed(f, g) == IF f = Keepalive /\ g = Keepalive THEN Keepalive ELSE Torn

Fill ==
    /\ pc = "fill"
    /\ LET new == IF op = "keepalive" THEN Keepalive ELSE Frame(responses, offset) IN
         /\ USBFS_EP2_Buf' = new
         /\ xfer' = IF xfer = NoXfer THEN NoXfer
                    ELSE [xfer EXCEPT !.frame = Mixed(xfer.frame, new)]
    /\ offset' = IF op = "response" /\ offset < payload_len THEN offset + 1 ELSE offset
    /\ pc' = "arm_load"
    /\ UNCHANGED <<UEP2_CTRL_H, op, reg, payload_len, timeout, hostTog, counts, timeouts, faults, put, got>>

ArmLoad ==
    /\ pc = "arm_load"
    /\ reg' = UEP2_CTRL_H
    /\ pc' = "arm_store"
    /\ UNCHANGED <<device, op, locals, hostTog, counts, timeouts, faults, put, got>>

ArmStore ==
    /\ pc = "arm_store"
    /\ UEP2_CTRL_H' = [reg EXCEPT !.res = "ACK"]
    /\ \/ /\ op = "keepalive"
          /\ pc' = "idle"
          /\ UNCHANGED <<timeout, put>>
       \/ /\ op = "response"
          /\ pc' = "wait_sent"
          /\ timeout' = MaxPolls
          /\ put' = put \cup {USBFS_EP2_Buf}
    /\ UNCHANGED <<USBFS_EP2_Buf, xfer, op, reg, payload_len, offset, hostTog, counts, timeouts, faults, got>>

MainStep ==
    \/ Poll
    \/ Polled
    \/ TimedOut
    \/ StopLoad
    \/ StopStore
    \/ Fill
    \/ ArmLoad
    \/ ArmStore

----------------------------------------------------------------------------
(* The controller, its interrupt, and the host. *)

Flip(t) == 1 - t

(* An IN token is answered with the buffer. *)
HostReads ==
    /\ UEP2_CTRL_H.res = "ACK"
    /\ xfer = NoXfer
    /\ xfer' = [frame |-> USBFS_EP2_Buf, tog |-> UEP2_CTRL_H.tog]
    /\ UNCHANGED <<UEP2_CTRL_H, USBFS_EP2_Buf, pc, op, reg, locals, hostTog, counts, timeouts, faults, put, got>>

(* What the host makes of the frame it was sent: it keeps one that has the *)
(* toggle it expects.                                                      *)
HostTakes ==
    IF xfer.tog = hostTog
    THEN /\ hostTog' = Flip(hostTog)
         /\ got' = IF xfer.frame = Keepalive THEN got ELSE Append(got, xfer.frame)
    ELSE UNCHANGED <<hostTog, got>>

(* The interrupt of EP2 IN, at the host's handshake. *)
EP2_IN_stays_armed ==                                                \* mutant
    /\ xfer # NoXfer
    /\ HostTakes
    /\ xfer' = NoXfer
    /\ UEP2_CTRL_H' = [UEP2_CTRL_H EXCEPT !.tog = Flip(@)]
    /\ UNCHANGED <<USBFS_EP2_Buf, pc, op, reg, locals, counts, timeouts, faults, put>>

EP2_IN ==
    /\ xfer # NoXfer
    /\ HostTakes
    /\ xfer' = NoXfer
    /\ UEP2_CTRL_H' = [res |-> "NAK", tog |-> Flip(UEP2_CTRL_H.tog)]
    /\ UNCHANGED <<USBFS_EP2_Buf, pc, op, reg, locals, counts, timeouts, faults, put>>

(* The handshake is lost: there is no interrupt and the host asks again. *)
HandshakeLost ==
    /\ xfer # NoXfer
    /\ HostTakes
    /\ xfer' = NoXfer
    /\ UNCHANGED <<UEP2_CTRL_H, USBFS_EP2_Buf, pc, op, reg, locals, counts, timeouts, faults, put>>

(* USBFS_Device_Endp_Init; the host starts its toggle again too. *)
BUS_RST ==
    /\ faults < MaxFaults
    /\ faults' = faults + 1
    /\ UEP2_CTRL_H' = Idle
    /\ hostTog' = 0
    /\ xfer' = NoXfer
    /\ UNCHANGED <<USBFS_EP2_Buf, pc, op, reg, locals, counts, timeouts, put, got>>

(* CLEAR_FEATURE(ENDPOINT_HALT) starts both toggles again. *)
CLEAR_FEATURE_EP2 ==
    /\ faults < MaxFaults
    /\ xfer = NoXfer
    /\ faults' = faults + 1
    /\ UEP2_CTRL_H' = Idle
    /\ hostTog' = 0
    /\ UNCHANGED <<USBFS_EP2_Buf, xfer, pc, op, reg, locals, counts, timeouts, put, got>>

SET_FEATURE_EP2 ==
    /\ faults < MaxFaults
    /\ xfer = NoXfer
    /\ faults' = faults + 1
    /\ UEP2_CTRL_H' = [UEP2_CTRL_H EXCEPT !.res = "STALL"]
    /\ UNCHANGED <<USBFS_EP2_Buf, xfer, pc, op, reg, locals, hostTog, counts, timeouts, put, got>>

Next ==
    \/ fido2_send_keepalive
    \/ \E len \in 0 .. MaxLen : ctap_send_response(len)
    \/ MainStep
    \/ HostReads \/ EP2_IN \/ HandshakeLost
    \/ BUS_RST \/ CLEAR_FEATURE_EP2 \/ SET_FEATURE_EP2

Spec == Init /\ [][Next]_vars

(* The processor runs; the host may fall silent at any time. *)
FairSpec == Spec /\ WF_vars(MainStep)

----------------------------------------------------------------------------
(* Properties. *)

(* Response frames the sender has finished with, and the host never had. *)
Lost ==
    {f \in put : /\ \A k \in DOMAIN got : got[k] # f
                 /\ ~(pc = "wait_sent" /\ f = USBFS_EP2_Buf)}

(* A keepalive that overtakes a read, an interrupt between a load and a    *)
(* store of UEP2_CTRL_H, a lost handshake: they cost keepalives, never a   *)
(* frame of a response.  A timeout, a bus reset or a halt costs at most    *)
(* one frame besides those of the response it interrupts.                  *)
OneFramePerFault == Cardinality(Lost) <= timeouts + faults

Before(f, g) ==
    \/ f.response < g.response
    \/ f.response = g.response /\ f.seq < g.seq

(* The host sees no response frame twice, none out of order, and none that *)
(* was overwritten while it was being sent unless a timeout gave it up.    *)
AcceptedInOrder ==
    /\ \A j, k \in DOMAIN got :
         j < k /\ Torn \notin {got[j], got[k]} => Before(got[j], got[k])
    /\ timeouts = 0 => \A k \in DOMAIN got : got[k] # Torn

(* Keepalives and responses end although the host does not read them. *)
SendEnds == pc # "idle" ~> pc = "idle"

=============================================================================
