-------------------------------- MODULE CtapHid --------------------------------
(***************************************************************************)
(* CTAPHID message reassembly: ProcessCTAPHID of main.c, called with the   *)
(* packets of several clients of the host in the order they were received. *)
(*                                                                         *)
(* A message is cut into chunks, one in its initialisation packet and one  *)
(* in each continuation packet; lengths are counted in chunks and an empty *)
(* message has none.  A chunk records the message it belongs to, so that   *)
(* what is dispatched can be compared with what was sent.                  *)
(***************************************************************************)
EXTENDS Naturals, Sequences

CONSTANTS
    Clients,      \* programs of the host that talk to the key
    InitChannel,  \* [Clients -> channel]: Broadcast, or a channel of their own
    AllocatedCid, \* the initial value of allocated_cid
    Broadcast,
    BufChunks,    \* sizeof(ctap_req_buf)
    MaxLen,       \* the longest message, longer than the buffer
    Oversize,     \* the clients that send messages longer than the buffer
    MaxMessages,  \* messages each client sends
    Faulty,       \* the clients that may abandon a message, or lose or repeat a packet
    MaxFaults,    \* bound on the faults of each of them
    None

ASSUME SizesAssumption ==
    BufChunks \in Nat \ {0} /\ MaxLen \in Nat /\ MaxLen > BufChunks /\ MaxMessages \in Nat
ASSUME ClientsAssumption == Oversize \subseteq Clients /\ Faulty \subseteq Clients /\ MaxFaults \in Nat
ASSUME ChannelsAssumption == InitChannel \in [Clients -> {InitChannel[c] : c \in Clients}]

Channels == {InitChannel[c] : c \in Clients} \cup {AllocatedCid, Broadcast}
Commands == {"CBOR", "PING", "WINK", "UNKNOWN"}  \* WINK stands for LOCK too
Chunks   == [from : Clients, n : 1 .. MaxMessages, i : 0 .. MaxLen, of : 1 .. MaxLen]

(* Each client has a channel of its own, so none starts on the broadcast    *)
(* channel and none shares the channel INIT hands out.                     *)
SeparateChannels ==
    /\ \A c, d \in Clients : InitChannel[c] = InitChannel[d] => c = d
    /\ \A c \in Clients : InitChannel[c] # Broadcast

(* A client suffers at most one fault, and none if it sends messages that  *)
(* do not fit the buffer: after two faults, or a fault and an ignored      *)
(* initialisation packet, the sequence number alone cannot tell the rest   *)
(* of a message from the rest of an earlier one.                           *)
SparseFaults == MaxFaults <= 1 /\ Faulty \cap Oversize = {}

VARIABLES
    ctap_req_buf,      \* the first ctap_req_len bytes of the buffer
    ctap_expected_len, ctap_seq, ctap_cid, ctap_cmd,
    allocated_cid, cancel_requested,
    response,          \* the last message dispatched and the reply it got
    client,            \* each client's channel and the message it is sending
    last               \* whose packet was received last, on which channel, for which command

hid  == <<ctap_req_buf, ctap_expected_len, ctap_seq, ctap_cid, ctap_cmd>>
vars == <<hid, allocated_cid, cancel_requested, response, client, last>>

(* What is received fits ctap_req_buf, also while a message announces more *)
(* than the buffer holds.                                                  *)
TypeOK ==
    /\ ctap_req_buf \in Seq(Chunks) /\ Len(ctap_req_buf) <= BufChunks
    /\ ctap_expected_len \in 0 .. BufChunks
    /\ ctap_seq \in 0 .. BufChunks
    /\ ctap_cid \in Channels \cup {None}
    /\ ctap_cmd \in Commands \cup {"INIT", None}
    /\ allocated_cid \in Channels
    /\ cancel_requested \in BOOLEAN
    /\ response = None \/
         (/\ response.cid \in Channels
          /\ response.reply \in Commands \cup {"INIT", "ERROR"}
          /\ response.body \in Seq(Chunks) /\ Len(response.body) <= BufChunks)
    /\ client \in [Clients -> [cid : Channels, n : 0 .. MaxMessages,
                               len : 0 .. MaxLen, sent : 0 .. MaxLen, faults : 0 .. MaxFaults]]
    /\ last = None \/ last \in [by : Clients, cid : Channels, cmd : Commands \cup {"INIT"}]

Init ==
    /\ ctap_req_buf = <<>> /\ ctap_expected_len = 0 /\ ctap_seq = 0
    /\ ctap_cid = None /\ ctap_cmd = None
    /\ allocated_cid = AllocatedCid
    /\ cancel_requested = FALSE
    /\ response = None
    /\ client = [c \in Clients |-> [cid |-> InitChannel[c], n |-> 0,
                                len |-> 0, sent |-> 0, faults |-> 0]]
    /\ last = None

----------------------------------------------------------------------------
(* A complete message is answered on its channel, with its own command or, *)
(* if that is unknown, with an error.  INIT on the broadcast channel hands *)
(* out allocated_cid; on any other channel it hands out that channel.  A   *)
(* CBOR command that waits for a touch clears cancel_requested, and a      *)
(* CANCEL polled from the ring during the wait sets it again.              *)
Dispatch(cid, cmd, buf) ==
    LET channel == IF cid = Broadcast THEN allocated_cid ELSE cid IN
    /\ response' = [cid   |-> cid,
                    reply |-> IF cmd = "UNKNOWN" THEN "ERROR" ELSE cmd,
                    body  |-> buf,
                    channel |-> IF cmd = "INIT" THEN channel ELSE None]
    /\ allocated_cid' = IF cmd = "INIT" THEN channel ELSE allocated_cid
    /\ cancel_requested' \in IF cmd = "CBOR" THEN BOOLEAN ELSE {cancel_requested}

(* The end of ProcessCTAPHID: a message of which all was received is       *)
(* dispatched and its transaction is over; otherwise more is awaited.      *)
Received(cid, cmd, buf, expected, seq) ==
    /\ ctap_cid' = cid
    /\ ctap_req_buf' = buf
    /\ ctap_seq' = seq
    /\ IF Len(buf) = expected
       THEN /\ Dispatch(cid, cmd, buf)
            /\ ctap_expected_len' = 0
            /\ ctap_cmd' = None
       ELSE /\ ctap_expected_len' = expected
            /\ ctap_cmd' = cmd
            /\ UNCHANGED <<response, allocated_cid, cancel_requested>>

InitPacket_any_length(cid, cmd, len, chunks) ==                      \* mutant
    Received(cid, cmd, chunks, len, 0)

(* An initialisation packet starts a new message on any channel, whatever  *)
(* message was in progress; one that announces too much is ignored.        *)
InitPacket(cid, cmd, len, chunks) ==
    \/ /\ len > BufChunks
       /\ UNCHANGED <<hid, response, allocated_cid, cancel_requested>>
    \/ /\ len <= BufChunks
       /\ Received(cid, cmd, chunks, len, 0)

ContinuationPacket_any_channel(cid, seq, chunk) ==                   \* mutant
    \/ /\ ctap_expected_len = 0
       /\ UNCHANGED <<hid, response, allocated_cid, cancel_requested>>
    \/ /\ ctap_expected_len # 0
       /\ seq # ctap_seq
       /\ ctap_expected_len' = 0
       /\ UNCHANGED <<ctap_req_buf, ctap_seq, ctap_cid, ctap_cmd, response, allocated_cid, cancel_requested>>
    \/ /\ ctap_expected_len # 0
       /\ seq = ctap_seq
       /\ Received(cid, ctap_cmd, Append(ctap_req_buf, chunk), ctap_expected_len, seq + 1)

(* A continuation packet of another channel, or one that is not awaited,   *)
(* is ignored; one out of sequence ends the transaction without a reply.   *)
ContinuationPacket(cid, seq, chunk) ==
    \/ /\ cid # ctap_cid \/ ctap_expected_len = 0
       /\ UNCHANGED <<hid, response, allocated_cid, cancel_requested>>
    \/ /\ cid = ctap_cid /\ ctap_expected_len # 0
       /\ seq # ctap_seq
       /\ ctap_expected_len' = 0
       /\ UNCHANGED <<ctap_req_buf, ctap_seq, ctap_cid, ctap_cmd, response, allocated_cid, cancel_requested>>
    \/ /\ cid = ctap_cid /\ ctap_expected_len # 0
       /\ seq = ctap_seq
       /\ Received(cid, ctap_cmd, Append(ctap_req_buf, chunk), ctap_expected_len, seq + 1)

----------------------------------------------------------------------------
(* The clients.  A client that has sent a message may send the next one at *)
(* once: it may have timed out waiting for the reply.                      *)

Chunk(c, n, i, len) == [from |-> c, n |-> n, i |-> i, of |-> len]

Lengths(c) == 0 .. (IF c \in Oversize THEN MaxLen ELSE BufChunks)

Sending(c) == client[c].sent < client[c].len

(* What a client learns from the reply to its INIT. *)
LearnsChannel(c, cmd) ==
    IF cmd = "INIT" THEN response'.channel ELSE client[c].cid

MayStart(c, cmd) ==
    /\ client[c].n < MaxMessages
    /\ ~Sending(c)
    /\ client[c].cid = Broadcast => cmd = "INIT"

(* The client after it sent the first packet of a message of that length. *)
Started(c, len) ==
    [client[c] EXCEPT !.n = @ + 1, !.len = len, !.sent = IF len = 0 THEN 0 ELSE 1]

StartMessage(c, cmd, len) ==
    /\ MayStart(c, cmd)
    /\ InitPacket(client[c].cid, cmd, len,
                  IF len = 0 THEN <<>> ELSE <<Chunk(c, client[c].n + 1, 0, len)>>)
    /\ client' = [client EXCEPT ![c] = [Started(c, len) EXCEPT !.cid = LearnsChannel(c, cmd)]]
    /\ last' = [by |-> c, cid |-> client[c].cid, cmd |-> cmd]

ContinueMessage(c) ==
    /\ Sending(c)
    /\ LET m == client[c] IN
         /\ ContinuationPacket(m.cid, m.sent - 1, Chunk(c, m.n, m.sent, m.len))
         /\ client' = [client EXCEPT ![c].sent = @ + 1]
         /\ last' = [by |-> c, cid |-> m.cid, cmd |-> "CBOR"]

(* A client gives up in the middle of a message, or one of its packets is  *)
(* lost on the way, as a SET_REPORT can be (UsbTransport).                 *)
Fault(c, after) ==
    /\ c \in Faulty
    /\ client[c].faults < MaxFaults
    /\ client' = [client EXCEPT ![c] = [after EXCEPT !.faults = @ + 1]]
    /\ last' = None
    /\ UNCHANGED <<hid, allocated_cid, cancel_requested, response>>

AbortMessage(c) == Sending(c) /\ Fault(c, [client[c] EXCEPT !.sent = client[c].len])

LoseInitPacket(c, cmd, len) == MayStart(c, cmd) /\ Fault(c, Started(c, len))

LoseContinuation(c) == Sending(c) /\ Fault(c, [client[c] EXCEPT !.sent = @ + 1])

(* The acknowledgement of a packet is lost and the host sends it again:    *)
(* EP1 accepts a packet whatever its data toggle, so it is received twice. *)
RepeatPacket(c) ==
    /\ c \in Faulty
    /\ client[c].faults < MaxFaults
    /\ last # None /\ last.by = c
    /\ LET m == client[c] IN
         IF m.sent <= 1
         THEN InitPacket(last.cid, last.cmd, m.len,
                         IF m.len = 0 THEN <<>> ELSE <<Chunk(c, m.n, 0, m.len)>>)
         ELSE ContinuationPacket(last.cid, m.sent - 2, Chunk(c, m.n, m.sent - 1, m.len))
    /\ client' = [client EXCEPT ![c].faults = @ + 1]
    /\ UNCHANGED last

(* CTAPHID_CANCEL is flagged and never answered. *)
SendCancel(c) ==
    /\ client[c].cid # Broadcast
    /\ cancel_requested' = TRUE
    /\ last' = None
    /\ UNCHANGED <<hid, allocated_cid, response, client>>

Next == \E c \in Clients :
    \/ \E cmd \in Commands, len \in Lengths(c) :
         StartMessage(c, cmd, len) \/ LoseInitPacket(c, cmd, len)
    \/ StartMessage(c, "INIT", 1)
    \/ ContinueMessage(c)
    \/ AbortMessage(c)
    \/ LoseContinuation(c)
    \/ RepeatPacket(c)
    \/ SendCancel(c)

Spec == Init /\ [][Next]_vars

----------------------------------------------------------------------------
(* Properties. *)

(* What is dispatched is one whole message of one client: all its chunks,  *)
(* in order, and none of another message, however the packets of several   *)
(* clients and their CANCELs interleave, and although a message was        *)
(* abandoned, or a packet lost or received twice.                          *)
DispatchesWholeMessages ==
    response # None /\ response.body # <<>> =>
        LET first == response.body[1] IN
        /\ Len(response.body) = first.of
        /\ \A i \in DOMAIN response.body : response.body[i] = [first EXCEPT !.i = i - 1]

=============================================================================
