----------------------------- MODULE CtapHidProofs -----------------------------
(***************************************************************************)
(* Proofs about CtapHid: what ProcessCTAPHID dispatches is one whole       *)
(* message of one client.                                                  *)
(***************************************************************************)
EXTENDS CtapHid, SequenceTheorems, TLAPS

(* While a message is awaited its first chunk is there, its last is not,   *)
(* and ctap_seq counts the continuation packets taken.                     *)
StreamShape ==
    ctap_expected_len # 0 =>
        /\ Len(ctap_req_buf) >= 1
        /\ Len(ctap_req_buf) < ctap_expected_len
        /\ ctap_seq = Len(ctap_req_buf) - 1
        /\ ctap_cmd \in Commands \cup {"INIT"}

ClientFits(c, m) ==
    /\ m.sent <= m.len
    /\ m.len > 0 => m.sent >= 1 /\ m.n >= 1
    /\ c \notin Oversize => m.len <= BufChunks
    /\ m.faults > 0 => c \in Faulty

ClientShape == \A c \in Clients : ClientFits(c, client[c])

ShapeInv == TypeOK /\ StreamShape /\ ClientShape

----------------------------------------------------------------------------
(* Faults that cannot make two messages of a client look like one. *)
Clean(c, m) == m.faults = 0 \/ (m.faults = 1 /\ c \notin Oversize)

(* No client ever changes its channel. *)
ChannelsKept ==
    /\ \A c \in Clients : client[c].cid = InitChannel[c]
    /\ last # None => last.cid = InitChannel[last.by]

(* What is in the buffer is the beginning of the message the client is     *)
(* sending; the client is ahead of it only after a fault.                  *)
Beginning(buf, c, m, expected) ==
    /\ m.len = expected
    /\ m.sent >= Len(buf)
    /\ m.faults = 0 => m.sent = Len(buf)
    /\ \A i \in 1 .. Len(buf) : buf[i] = Chunk(c, m.n, i - 1, expected)

StreamIsOneMessage ==
    ctap_expected_len # 0 =>
        LET c == ctap_req_buf[1].from IN
        /\ ctap_cid = InitChannel[c]
        /\ Clean(c, client[c]) => Beginning(ctap_req_buf, c, client[c], ctap_expected_len)

(* A dispatched body is a whole message. *)
Whole(body) ==
    /\ Len(body) = body[1].of
    /\ \A i \in 1 .. Len(body) : body[i] = [body[1] EXCEPT !.i = i - 1]

DispatchesCleanly ==
    response # None /\ response.body # <<>> =>
        LET c == response.body[1].from IN
        Clean(c, client[c]) => Whole(response.body)

WholeInv == ShapeInv /\ ChannelsKept /\ StreamIsOneMessage /\ DispatchesCleanly

----------------------------------------------------------------------------
(* Types.  TypeOK falls into the part ProcessCTAPHID writes and the part    *)
(* the clients write.                                                      *)

ResponseTyped(r) ==
    /\ r.cid \in Channels
    /\ r.reply \in Commands \cup {"INIT", "ERROR"}
    /\ r.body \in Seq(Chunks) /\ Len(r.body) <= BufChunks

HidTyped ==
    /\ ctap_req_buf \in Seq(Chunks) /\ Len(ctap_req_buf) <= BufChunks
    /\ ctap_expected_len \in 0 .. BufChunks
    /\ ctap_seq \in 0 .. BufChunks
    /\ ctap_cid \in Channels \cup {None}
    /\ ctap_cmd \in Commands \cup {"INIT", None}
    /\ allocated_cid \in Channels
    /\ cancel_requested \in BOOLEAN
    /\ response = None \/ ResponseTyped(response)

ClientTyped ==
    /\ client \in [Clients -> [cid : Channels, n : 0 .. MaxMessages,
                               len : 0 .. MaxLen, sent : 0 .. MaxLen, faults : 0 .. MaxFaults]]
    /\ last = None \/ last \in [by : Clients, cid : Channels, cmd : Commands \cup {"INIT"}]

LEMMA TypeSplit == TypeOK <=> HidTyped /\ ClientTyped
  BY Zenon DEF TypeOK, HidTyped, ClientTyped, ResponseTyped

LEMMA TypeSplitNext == TypeOK' <=> HidTyped' /\ ClientTyped'
  BY Zenon DEF TypeOK, HidTyped, ClientTyped, ResponseTyped

LEMMA ChunkType ==
    ASSUME NEW c \in Clients, NEW n \in 1 .. MaxMessages, NEW len \in 1 .. MaxLen, NEW i \in 0 .. MaxLen
    PROVE  Chunk(c, n, i, len) \in Chunks
  BY DEF Chunk, Chunks

LEMMA OneChunk ==
    ASSUME NEW x \in Chunks
    PROVE  <<x>> \in Seq(Chunks) /\ Len(<<x>>) = 1 /\ <<x>>[1] = x
  OBVIOUS

LEMMA NoChunk == <<>> \in Seq(Chunks) /\ Len(<<>>) = 0
  BY EmptySeq

(* Received keeps the types, whatever message it takes further. *)
LEMMA ReceivedTyped ==
    ASSUME HidTyped,
           NEW cid \in Channels, NEW cmd \in Commands \cup {"INIT"},
           NEW buf \in Seq(Chunks), NEW expected \in 0 .. BufChunks, NEW seq \in Nat,
           Len(buf) <= expected, expected # 0 => Len(buf) >= 1,
           seq <= BufChunks, Len(buf) >= 1 => seq = Len(buf) - 1,
           Received(cid, cmd, buf, expected, seq)
    PROVE  /\ HidTyped' /\ StreamShape'
           /\ cmd = "INIT" /\ Len(buf) = expected => response'.channel \in Channels
  <1> USE SizesAssumption
  <1>0. Len(buf) \in Nat
    BY LenProperties
  <1>1. CASE Len(buf) = expected
    <2>1. Dispatch(cid, cmd, buf) /\ ctap_expected_len' = 0 /\ ctap_cmd' = None
      BY <1>1, Zenon DEF Received
    <2>2. ResponseTyped(response') /\ (cmd = "INIT" => response'.channel \in Channels)
      BY <1>0, <1>1, <2>1 DEF Dispatch, ResponseTyped, HidTyped, Commands
    <2>3. allocated_cid' \in Channels
      BY <2>1 DEF Dispatch, HidTyped
    <2>4. cancel_requested' \in BOOLEAN
      BY <2>1, Zenon DEF Dispatch, HidTyped
    <2>5. /\ ctap_req_buf' = buf /\ ctap_seq' = seq /\ ctap_cid' = cid
      BY DEF Received
    <2>6. ctap_req_buf' \in Seq(Chunks) /\ Len(ctap_req_buf') <= BufChunks
          /\ ctap_expected_len' \in 0 .. BufChunks /\ ctap_seq' \in 0 .. BufChunks
      BY <1>0, <1>1, <2>1, <2>5
    <2> QED
      BY <2>1, <2>2, <2>3, <2>4, <2>5, <2>6, Zenon DEF HidTyped, StreamShape
  <1>2. CASE Len(buf) # expected
    <2>1. /\ ctap_req_buf' = buf /\ ctap_seq' = seq /\ ctap_cid' = cid
          /\ ctap_expected_len' = expected /\ ctap_cmd' = cmd
          /\ response' = response /\ allocated_cid' = allocated_cid
          /\ cancel_requested' = cancel_requested
      BY <1>2, Zenon DEF Received
    <2>2. ctap_req_buf' \in Seq(Chunks) /\ Len(ctap_req_buf') <= BufChunks
          /\ ctap_expected_len' \in 0 .. BufChunks /\ ctap_seq' \in 0 .. BufChunks
      BY <1>0, <2>1
    <2>3. StreamShape'
      BY <1>0, <1>2, <2>1 DEF StreamShape
    <2> QED
      BY <1>2, <2>1, <2>2, <2>3, Zenon DEF HidTyped
  <1> QED
    BY <1>1, <1>2

LEMMA HidUnchanged ==
    ASSUME HidTyped, StreamShape, UNCHANGED <<hid, response, allocated_cid, cancel_requested>>
    PROVE  HidTyped' /\ StreamShape'
  <1>1. /\ ctap_req_buf' = ctap_req_buf /\ ctap_expected_len' = ctap_expected_len
        /\ ctap_seq' = ctap_seq /\ ctap_cid' = ctap_cid /\ ctap_cmd' = ctap_cmd
        /\ response' = response /\ allocated_cid' = allocated_cid
        /\ cancel_requested' = cancel_requested
    BY Zenon DEF hid
  <1> QED
    BY <1>1, Zenon DEF HidTyped, StreamShape

LEMMA InitPacketTyped ==
    ASSUME HidTyped, StreamShape,
           NEW cid \in Channels, NEW cmd \in Commands \cup {"INIT"}, NEW len \in 0 .. MaxLen,
           NEW buf \in Seq(Chunks), Len(buf) = IF len = 0 THEN 0 ELSE 1,
           InitPacket(cid, cmd, len, buf)
    PROVE  HidTyped' /\ StreamShape' /\ (cmd = "INIT" /\ len = 1 => response'.channel \in Channels)
  <1> USE SizesAssumption
  <1>1. CASE len > BufChunks
    <2>1. UNCHANGED <<hid, response, allocated_cid, cancel_requested>>
      BY <1>1 DEF InitPacket
    <2>2. len # 1
      BY <1>1
    <2>3. HidTyped' /\ StreamShape'
      BY <2>1, HidUnchanged
    <2> QED
      BY <2>2, <2>3
  <1>2. CASE len <= BufChunks
    <2>1. Received(cid, cmd, buf, len, 0)
      BY <1>2 DEF InitPacket
    <2>2. len \in 0 .. BufChunks /\ Len(buf) <= len /\ (len # 0 => Len(buf) >= 1)
          /\ (Len(buf) >= 1 => 0 = Len(buf) - 1) /\ (len = 1 => Len(buf) = len)
          /\ 0 \in Nat /\ 0 <= BufChunks
      BY <1>2
    <2>3. /\ HidTyped' /\ StreamShape'
          /\ cmd = "INIT" /\ Len(buf) = len => response'.channel \in Channels
      BY <2>1, <2>2, ReceivedTyped
    <2> QED
      BY <2>2, <2>3
  <1> QED
    BY <1>1, <1>2

LEMMA ContinuationTyped ==
    ASSUME HidTyped, StreamShape,
           NEW cid \in Channels, NEW seq \in Nat, NEW chunk \in Chunks,
           ContinuationPacket(cid, seq, chunk)
    PROVE  HidTyped' /\ StreamShape'
  <1> USE SizesAssumption
  <1>1. CASE UNCHANGED <<hid, response, allocated_cid, cancel_requested>>
    BY <1>1, HidUnchanged
  <1>2. CASE /\ ctap_expected_len' = 0
             /\ UNCHANGED <<ctap_req_buf, ctap_seq, ctap_cid, ctap_cmd, response, allocated_cid, cancel_requested>>
    <2>1. ctap_expected_len' \in 0 .. BufChunks
      BY <1>2
    <2> QED
      BY <1>2, <2>1, Zenon DEF HidTyped, StreamShape
  <1>3. CASE /\ ctap_expected_len # 0 /\ seq = ctap_seq
             /\ Received(cid, ctap_cmd, Append(ctap_req_buf, chunk), ctap_expected_len, seq + 1)
    <2> DEFINE buf == Append(ctap_req_buf, chunk)
    <2>1. buf \in Seq(Chunks) /\ Len(buf) = Len(ctap_req_buf) + 1 /\ Len(ctap_req_buf) \in Nat
      BY AppendProperties, LenProperties DEF HidTyped
    <2>2. /\ ctap_expected_len \in 0 .. BufChunks /\ ctap_cmd \in Commands \cup {"INIT"}
          /\ Len(ctap_req_buf) < ctap_expected_len /\ ctap_seq = Len(ctap_req_buf) - 1
      BY <1>3 DEF HidTyped, StreamShape
    <2> HIDE DEF buf
    <2>3. /\ Len(buf) <= ctap_expected_len /\ Len(buf) >= 1 /\ seq + 1 \in Nat
          /\ seq + 1 <= BufChunks /\ seq + 1 = Len(buf) - 1
      BY <1>3, <2>1, <2>2
    <2>4. Received(cid, ctap_cmd, buf, ctap_expected_len, seq + 1)
      BY <1>3 DEF buf
    <2> QED
      BY <2>1, <2>2, <2>3, <2>4, ReceivedTyped
  <1> QED
    BY <1>1, <1>2, <1>3 DEF ContinuationPacket

----------------------------------------------------------------------------
(* What a client sends is well formed, and what it becomes is well formed. *)

FirstChunks(c, n, len) == IF len = 0 THEN <<>> ELSE <<Chunk(c, n, 0, len)>>

LEMMA FirstChunksType ==
    ASSUME NEW c \in Clients, NEW len \in 0 .. MaxLen, NEW n, len # 0 => n \in 1 .. MaxMessages
    PROVE  /\ FirstChunks(c, n, len) \in Seq(Chunks)
           /\ Len(FirstChunks(c, n, len)) = IF len = 0 THEN 0 ELSE 1
           /\ len # 0 => FirstChunks(c, n, len)[1] = Chunk(c, n, 0, len)
  <1>1. CASE len = 0
    BY <1>1, NoChunk DEF FirstChunks
  <1>2. CASE len # 0
    <2>1. len \in 1 .. MaxLen /\ 0 \in 0 .. MaxLen
      BY <1>2, SizesAssumption
    <2>2. Chunk(c, n, 0, len) \in Chunks
      BY <1>2, <2>1, ChunkType
    <2> QED
      BY <1>2, <2>2, OneChunk DEF FirstChunks
  <1> QED
    BY <1>1, <1>2

ClientRecords == [cid : Channels, n : 0 .. MaxMessages,
                  len : 0 .. MaxLen, sent : 0 .. MaxLen, faults : 0 .. MaxFaults]

LEMMA ClientFacts ==
    ASSUME ClientTyped, ClientShape, NEW c \in Clients
    PROVE  /\ client[c] \in ClientRecords /\ ClientFits(c, client[c])
           /\ client[c].cid \in Channels /\ client[c].n \in 0 .. MaxMessages
           /\ client[c].len \in 0 .. MaxLen /\ client[c].sent \in 0 .. MaxLen
           /\ client[c].faults \in 0 .. MaxFaults
  BY DEF ClientTyped, ClientShape, ClientRecords

(* One client changes, to a well formed state. *)
LEMMA ClientSteps ==
    ASSUME ClientTyped, ClientShape, NEW c \in Clients, NEW m \in ClientRecords, ClientFits(c, m),
           client' = [client EXCEPT ![c] = m],
           last' = None \/ last' \in [by : Clients, cid : Channels, cmd : Commands \cup {"INIT"}]
    PROVE  ClientTyped' /\ ClientShape'
  <1>1. client' \in [Clients -> ClientRecords]
    BY DEF ClientTyped, ClientRecords
  <1>2. \A d \in Clients : client'[d] = IF d = c THEN m ELSE client[d]
    BY DEF ClientTyped
  <1>3. ClientShape'
    BY <1>2, Zenon DEF ClientShape
  <1> QED
    BY <1>1, <1>3, Zenon DEF ClientTyped, ClientRecords

LEMMA StartedFits ==
    ASSUME ClientTyped, ClientShape, NEW c \in Clients, NEW cmd, MayStart(c, cmd),
           NEW len \in Lengths(c)
    PROVE  /\ len \in 0 .. MaxLen
           /\ Started(c, len) \in ClientRecords
           /\ ClientFits(c, Started(c, len))
           /\ Started(c, len) = [client[c] EXCEPT !.n = client[c].n + 1, !.len = len,
                                                  !.sent = IF len = 0 THEN 0 ELSE 1]
           /\ client[c].n + 1 \in 1 .. MaxMessages
  <1> USE SizesAssumption
  <1>1. len \in 0 .. MaxLen /\ (c \notin Oversize => len <= BufChunks)
    BY DEF Lengths
  <1>2. client[c].n + 1 \in 1 .. MaxMessages /\ client[c] \in ClientRecords /\ ClientFits(c, client[c])
    BY ClientFacts DEF MayStart
  <1>3. Started(c, len) = [client[c] EXCEPT !.n = client[c].n + 1, !.len = len,
                                            !.sent = IF len = 0 THEN 0 ELSE 1]
    BY DEF Started
  <1>4. Started(c, len) \in ClientRecords /\ ClientFits(c, Started(c, len))
    <2> DEFINE n == client[c].n + 1
               sent == IF len = 0 THEN 0 ELSE 1
    <2>1. n \in 0 .. MaxMessages /\ n >= 1 /\ sent \in 0 .. MaxLen /\ sent <= len
          /\ (len > 0 => sent >= 1)
      BY <1>1, <1>2
    <2> HIDE DEF n, sent
    <2>2. Started(c, len) = [client[c] EXCEPT !.n = n, !.len = len, !.sent = sent]
      BY <1>3 DEF n, sent
    <2> QED
      BY <1>1, <1>2, <2>1, <2>2 DEF ClientFits, ClientRecords
  <1> QED
    BY <1>1, <1>2, <1>3, <1>4

LEMMA StartShape ==
    ASSUME ShapeInv, NEW c \in Clients, NEW cmd \in Commands \cup {"INIT"},
           NEW len \in Lengths(c), cmd = "INIT" => len = 1, StartMessage(c, cmd, len)
    PROVE  ShapeInv'
  <1>1. HidTyped /\ ClientTyped /\ StreamShape /\ ClientShape
    BY TypeSplit DEF ShapeInv
  <1>2. MayStart(c, cmd) /\ InitPacket(client[c].cid, cmd, len, FirstChunks(c, client[c].n + 1, len))
    BY DEF StartMessage, FirstChunks
  <1>3. /\ len \in 0 .. MaxLen /\ Started(c, len) \in ClientRecords /\ ClientFits(c, Started(c, len))
        /\ client[c].n + 1 \in 1 .. MaxMessages /\ client[c].cid \in Channels
    BY <1>1, <1>2, StartedFits, ClientFacts
  <1>4. HidTyped' /\ StreamShape' /\ (cmd = "INIT" => response'.channel \in Channels)
    <2> DEFINE buf == FirstChunks(c, client[c].n + 1, len)
    <2>1. buf \in Seq(Chunks) /\ Len(buf) = IF len = 0 THEN 0 ELSE 1
      BY <1>3, FirstChunksType
    <2> HIDE DEF buf
    <2>2. InitPacket(client[c].cid, cmd, len, buf)
      BY <1>2 DEF buf
    <2> QED
      BY <1>1, <1>3, <2>1, <2>2, InitPacketTyped
  <1>5. ClientTyped' /\ ClientShape'
    <2> DEFINE m == [Started(c, len) EXCEPT !.cid = LearnsChannel(c, cmd)]
    <2>1. LearnsChannel(c, cmd) \in Channels
      BY <1>3, <1>4 DEF LearnsChannel
    <2>2. m \in ClientRecords /\ ClientFits(c, m)
      BY <1>3, <2>1 DEF ClientFits, ClientRecords
    <2>3. client' = [client EXCEPT ![c] = m]
      BY DEF StartMessage
    <2>4. last' \in [by : Clients, cid : Channels, cmd : Commands \cup {"INIT"}]
      BY <1>3 DEF StartMessage
    <2> HIDE DEF m
    <2> QED
      BY <1>1, <2>2, <2>3, <2>4, ClientSteps
  <1> QED
    BY <1>4, <1>5, TypeSplitNext DEF ShapeInv

LEMMA ContinueShape ==
    ASSUME ShapeInv, NEW c \in Clients, ContinueMessage(c)
    PROVE  ShapeInv'
  <1>1. HidTyped /\ ClientTyped /\ StreamShape /\ ClientShape
    BY TypeSplit DEF ShapeInv
  <1> DEFINE m == client[c]
             chunk == Chunk(c, m.n, m.sent, m.len)
             next == [m EXCEPT !.sent = m.sent + 1]
  <1>2. /\ m \in ClientRecords /\ ClientFits(c, m) /\ m.cid \in Channels /\ m.n \in 0 .. MaxMessages
        /\ m.len \in 0 .. MaxLen /\ m.sent \in 0 .. MaxLen
    BY <1>1, ClientFacts
  <1>3. m.sent < m.len
    BY DEF ContinueMessage, Sending
  <1>4. m.n \in 1 .. MaxMessages /\ m.len \in 1 .. MaxLen /\ m.sent - 1 \in Nat
    BY <1>2, <1>3, SizesAssumption DEF ClientFits
  <1>5. HidTyped' /\ StreamShape'
    <2>1. chunk \in Chunks
      BY <1>2, <1>4, ChunkType
    <2>2. ContinuationPacket(m.cid, m.sent - 1, chunk)
      BY DEF ContinueMessage
    <2> HIDE DEF chunk, m
    <2> QED
      BY <1>1, <1>2, <1>4, <2>1, <2>2, ContinuationTyped
  <1>6. next \in ClientRecords /\ ClientFits(c, next)
    <2> HIDE DEF m
    <2> QED
      BY <1>2, <1>3, SizesAssumption DEF ClientFits, ClientRecords
  <1>7. client' = [client EXCEPT ![c] = next]
    BY DEF ContinueMessage
  <1>8. last' \in [by : Clients, cid : Channels, cmd : Commands \cup {"INIT"}]
    BY <1>2 DEF ContinueMessage, Commands
  <1>9. ClientTyped' /\ ClientShape'
    <2> HIDE DEF next
    <2> QED
      BY <1>1, <1>6, <1>7, <1>8, ClientSteps
  <1> QED
    BY <1>5, <1>9, TypeSplitNext DEF ShapeInv

(* A fault leaves ProcessCTAPHID's state alone. *)
LEMMA FaultShape ==
    ASSUME ShapeInv, NEW c \in Clients, NEW after \in ClientRecords, ClientFits(c, after),
           after.faults = client[c].faults, Fault(c, after)
    PROVE  ShapeInv'
  <1>1. HidTyped /\ ClientTyped /\ StreamShape /\ ClientShape
    BY TypeSplit DEF ShapeInv
  <1>2. c \in Faulty /\ client[c].faults < MaxFaults /\ client[c].faults \in 0 .. MaxFaults
    BY <1>1, ClientFacts DEF Fault
  <1> DEFINE m == [after EXCEPT !.faults = after.faults + 1]
  <1>3. m \in ClientRecords /\ ClientFits(c, m)
    BY <1>2, ClientsAssumption DEF ClientRecords, ClientFits
  <1>4. client' = [client EXCEPT ![c] = m] /\ last' = None
    BY DEF Fault
  <1>5. ClientTyped' /\ ClientShape'
    <2> HIDE DEF m
    <2> QED
      BY <1>1, <1>3, <1>4, ClientSteps
  <1>6. UNCHANGED <<hid, response, allocated_cid, cancel_requested>>
    BY Zenon DEF Fault
  <1>7. HidTyped' /\ StreamShape'
    BY <1>1, <1>6, HidUnchanged
  <1> QED
    BY <1>5, <1>7, TypeSplitNext DEF ShapeInv

(* What a client is after each of the faults. *)
LEMMA AbortFits ==
    ASSUME ShapeInv, NEW c \in Clients, Sending(c)
    PROVE  LET after == [client[c] EXCEPT !.sent = client[c].len] IN
           after \in ClientRecords /\ ClientFits(c, after) /\ after.faults = client[c].faults
  <1>1. ClientTyped /\ ClientShape
    BY TypeSplit DEF ShapeInv
  <1>2. client[c] \in ClientRecords /\ ClientFits(c, client[c])
    BY <1>1, ClientFacts
  <1> QED
    BY <1>2, SizesAssumption DEF ClientFits, ClientRecords

LEMMA LoseContinuationFits ==
    ASSUME ShapeInv, NEW c \in Clients, Sending(c)
    PROVE  LET after == [client[c] EXCEPT !.sent = client[c].sent + 1] IN
           after \in ClientRecords /\ ClientFits(c, after) /\ after.faults = client[c].faults
  <1>1. ClientTyped /\ ClientShape
    BY TypeSplit DEF ShapeInv
  <1>2. client[c] \in ClientRecords /\ ClientFits(c, client[c]) /\ client[c].sent < client[c].len
    BY <1>1, ClientFacts DEF Sending
  <1> QED
    BY <1>2, SizesAssumption DEF ClientFits, ClientRecords

LEMMA LoseInitFits ==
    ASSUME ShapeInv, NEW c \in Clients, NEW cmd, NEW len \in Lengths(c), MayStart(c, cmd)
    PROVE  LET after == Started(c, len) IN
           after \in ClientRecords /\ ClientFits(c, after) /\ after.faults = client[c].faults
  <1>1. ClientTyped /\ ClientShape
    BY TypeSplit DEF ShapeInv
  <1>2. client[c] \in ClientRecords
    BY <1>1, ClientFacts
  <1>3. Started(c, len).faults = client[c].faults
    BY <1>2 DEF Started, ClientRecords
  <1> QED
    BY <1>1, <1>3, StartedFits

LEMMA RepeatShape ==
    ASSUME ShapeInv, NEW c \in Clients, RepeatPacket(c)
    PROVE  ShapeInv'
  <1>1. HidTyped /\ ClientTyped /\ StreamShape /\ ClientShape
    BY TypeSplit DEF ShapeInv
  <1> DEFINE m == client[c]
             next == [m EXCEPT !.faults = m.faults + 1]
  <1>2. /\ m \in ClientRecords /\ ClientFits(c, m) /\ m.n \in 0 .. MaxMessages
        /\ m.len \in 0 .. MaxLen /\ m.sent \in 0 .. MaxLen /\ m.faults \in 0 .. MaxFaults
    BY <1>1, ClientFacts
  <1>3. /\ c \in Faulty /\ m.faults < MaxFaults
        /\ last.cid \in Channels /\ last.cmd \in Commands \cup {"INIT"}
    BY <1>1 DEF RepeatPacket, ClientTyped
  <1>4. HidTyped' /\ StreamShape'
    <2>1. CASE m.sent <= 1
      <3> DEFINE buf == FirstChunks(c, m.n, m.len)
      <3>1. m.len # 0 => m.n \in 1 .. MaxMessages
        <4> HIDE DEF m
        <4> QED
          BY <1>2 DEF ClientFits
      <3>2. buf \in Seq(Chunks) /\ Len(buf) = IF m.len = 0 THEN 0 ELSE 1
        BY <1>2, <3>1, FirstChunksType
      <3>3. InitPacket(last.cid, last.cmd, m.len, buf)
        BY <2>1 DEF RepeatPacket, FirstChunks
      <3> HIDE DEF buf, m
      <3> QED
        BY <1>1, <1>2, <1>3, <3>2, <3>3, InitPacketTyped
    <2>2. CASE ~(m.sent <= 1)
      <3> DEFINE chunk == Chunk(c, m.n, m.sent - 1, m.len)
      <3>1. ContinuationPacket(last.cid, m.sent - 2, chunk)
        BY <2>2 DEF RepeatPacket
      <3>2. /\ m.n \in 1 .. MaxMessages /\ m.len \in 1 .. MaxLen
            /\ m.sent - 1 \in 0 .. MaxLen /\ m.sent - 2 \in Nat
        <4> HIDE DEF m
        <4> QED
          BY <1>2, <2>2, SizesAssumption DEF ClientFits
      <3>3. chunk \in Chunks
        BY <3>2, ChunkType
      <3> HIDE DEF chunk, m
      <3> QED
        BY <1>1, <1>3, <3>1, <3>2, <3>3, ContinuationTyped
    <2> QED
      BY <2>1, <2>2
  <1>5. next \in ClientRecords /\ ClientFits(c, next)
    <2> HIDE DEF m
    <2> QED
      BY <1>2, <1>3, ClientsAssumption DEF ClientFits, ClientRecords
  <1>6. client' = [client EXCEPT ![c] = next] /\ last' = last
    BY DEF RepeatPacket
  <1>7. ClientTyped' /\ ClientShape'
    <2>1. last' = None \/ last' \in [by : Clients, cid : Channels, cmd : Commands \cup {"INIT"}]
      BY <1>1, <1>6, Zenon DEF ClientTyped
    <2> HIDE DEF next
    <2> QED
      BY <1>1, <1>5, <1>6, <2>1, ClientSteps
  <1> QED
    BY <1>4, <1>7, TypeSplitNext DEF ShapeInv

LEMMA CancelShape ==
    ASSUME ShapeInv, NEW c \in Clients, SendCancel(c)
    PROVE  ShapeInv'
  <1>1. HidTyped /\ ClientTyped /\ StreamShape /\ ClientShape
    BY TypeSplit DEF ShapeInv
  <1>2. /\ ctap_req_buf' = ctap_req_buf /\ ctap_expected_len' = ctap_expected_len
        /\ ctap_seq' = ctap_seq /\ ctap_cid' = ctap_cid /\ ctap_cmd' = ctap_cmd
        /\ response' = response /\ allocated_cid' = allocated_cid /\ client' = client
        /\ cancel_requested' = TRUE /\ last' = None
    BY Zenon DEF SendCancel, hid
  <1>3. HidTyped' /\ StreamShape'
    BY <1>1, <1>2, Zenon DEF HidTyped, StreamShape
  <1>4. ClientTyped' /\ ClientShape'
    BY <1>1, <1>2, Zenon DEF ClientTyped, ClientShape
  <1> QED
    BY <1>3, <1>4, TypeSplitNext DEF ShapeInv

LEMMA InitShape == Init => ShapeInv
  <1> SUFFICES ASSUME Init PROVE ShapeInv
    OBVIOUS
  <1> USE SizesAssumption, ClientsAssumption
  <1>1. HidTyped
    <2>1. ctap_req_buf \in Seq(Chunks) /\ Len(ctap_req_buf) = 0
      BY NoChunk DEF Init
    <2>2. cancel_requested \in BOOLEAN
      BY Zenon DEF Init
    <2> QED
      BY <2>1, <2>2 DEF Init, HidTyped, Channels
  <1>2. ClientTyped
    <2>1. \A c \in Clients : InitChannel[c] \in Channels
      BY DEF Channels
    <2> QED
      BY <2>1 DEF Init, ClientTyped
  <1>3. StreamShape
    BY DEF Init, StreamShape
  <1>4. ClientShape
    <2>1. \A c \in Clients : /\ client[c].n = 0 /\ client[c].len = 0 /\ client[c].sent = 0
                             /\ client[c].faults = 0
      BY DEF Init
    <2>2. ASSUME NEW c \in Clients PROVE ClientFits(c, client[c])
      <3>1. ~(client[c].len > 0) /\ ~(client[c].faults > 0) /\ client[c].sent <= client[c].len
            /\ client[c].len <= BufChunks
        BY <2>1
      <3> QED
        BY <3>1, Zenon DEF ClientFits
    <2> QED
      BY <2>2 DEF ClientShape
  <1> QED
    BY <1>1, <1>2, <1>3, <1>4, TypeSplit DEF ShapeInv

LEMMA StutterShape == ShapeInv /\ UNCHANGED vars => ShapeInv'
  BY Zenon DEF ShapeInv, TypeOK, StreamShape, ClientShape, vars, hid

LEMMA NextShape == ShapeInv /\ Next => ShapeInv'
  <1> SUFFICES ASSUME ShapeInv, NEW c \in Clients,
                      \/ \E cmd \in Commands, len \in Lengths(c) :
                           StartMessage(c, cmd, len) \/ LoseInitPacket(c, cmd, len)
                      \/ StartMessage(c, "INIT", 1)
                      \/ ContinueMessage(c)
                      \/ AbortMessage(c)
                      \/ LoseContinuation(c)
                      \/ RepeatPacket(c)
                      \/ SendCancel(c)
               PROVE  ShapeInv'
    BY Zenon DEF Next
  <1>1. ASSUME NEW cmd \in Commands, NEW len \in Lengths(c), StartMessage(c, cmd, len)
        PROVE  ShapeInv'
    <2>1. cmd # "INIT" /\ cmd \in Commands \cup {"INIT"}
      BY DEF Commands
    <2> QED
      BY <1>1, <2>1, StartShape
  <1>2. ASSUME NEW cmd \in Commands, NEW len \in Lengths(c), LoseInitPacket(c, cmd, len)
        PROVE  ShapeInv'
    BY <1>2, LoseInitFits, FaultShape DEF LoseInitPacket
  <1>3. CASE StartMessage(c, "INIT", 1)
    <2>1. 1 \in Lengths(c) /\ "INIT" \in Commands \cup {"INIT"}
      BY SizesAssumption DEF Lengths
    <2> QED
      BY <1>3, <2>1, StartShape
  <1>4. CASE AbortMessage(c)
    BY <1>4, AbortFits, FaultShape DEF AbortMessage
  <1>5. CASE LoseContinuation(c)
    BY <1>5, LoseContinuationFits, FaultShape DEF LoseContinuation
  <1> QED
    BY <1>1, <1>2, <1>3, <1>4, <1>5, ContinueShape, RepeatShape, CancelShape

(* Whatever the clients send, ProcessCTAPHID's state keeps this shape. *)
THEOREM ShapeInvariant == Spec => []ShapeInv
  <1>1. ShapeInv /\ [Next]_vars => ShapeInv'
    BY StutterShape, NextShape
  <1> QED
    BY InitShape, <1>1, PTL DEF Spec

(* What is received always fits ctap_req_buf, for clients on any channels, *)
(* with any faults, and messages of any announced length.                  *)
THEOREM TypeCorrect == Spec => []TypeOK
  <1>1. ShapeInv => TypeOK
    BY DEF ShapeInv
  <1> QED
    BY ShapeInvariant, <1>1, PTL

----------------------------------------------------------------------------
(* Messages do not mix. *)

(* Received on the channel of client c, with the beginning of its message. *)
LEMMA ReceivedWhole ==
    ASSUME NEW c \in Clients, NEW cid, cid = InitChannel[c], NEW cmd,
           NEW buf \in Seq(Chunks), NEW expected \in Nat, NEW seq,
           buf # <<>> => buf[1].from = c,
           buf = <<>> => expected = 0,
           buf # <<>> /\ Clean(c, client'[c]) => Beginning(buf, c, client'[c], expected),
           response # None /\ response.body # <<>> =>
               LET d == response.body[1].from IN
               Clean(d, client'[d]) => Whole(response.body),
           Received(cid, cmd, buf, expected, seq)
    PROVE  StreamIsOneMessage' /\ DispatchesCleanly'
  <1>0. Len(buf) \in Nat /\ (buf # <<>> => Len(buf) >= 1) /\ Len(<<>>) = 0
    BY LenProperties, EmptySeq
  <1>1. CASE Len(buf) = expected
    <2>1. ctap_expected_len' = 0 /\ response'.body = buf
      BY <1>1 DEF Received, Dispatch
    <2>2. ASSUME buf # <<>>, Clean(c, client'[c])
          PROVE  Whole(buf)
      <3>1. Beginning(buf, c, client'[c], expected)
        BY <2>2
      <3>2. \A i \in 1 .. Len(buf) : buf[i] = Chunk(c, client'[c].n, i - 1, expected)
        BY <3>1 DEF Beginning
      <3>3. buf[1] = Chunk(c, client'[c].n, 0, expected)
        BY <1>0, <2>2, <3>2
      <3>4. Len(buf) = buf[1].of
        BY <1>1, <3>3 DEF Chunk
      <3>5. \A i \in 1 .. Len(buf) : buf[i] = [buf[1] EXCEPT !.i = i - 1]
        BY <3>2, <3>3 DEF Chunk
      <3> QED
        BY <3>4, <3>5 DEF Whole
    <2>3. StreamIsOneMessage'
      BY <2>1 DEF StreamIsOneMessage
    <2>4. DispatchesCleanly'
      BY <2>1, <2>2, Zenon DEF DispatchesCleanly
    <2> QED
      BY <2>3, <2>4
  <1>2. CASE Len(buf) # expected
    <2>1. /\ ctap_req_buf' = buf /\ ctap_cid' = cid /\ ctap_expected_len' = expected
          /\ response' = response
      BY <1>2, Zenon DEF Received
    <2>2. buf # <<>>
      BY <1>0, <1>2
    <2>3. StreamIsOneMessage'
      BY <2>1, <2>2, Zenon DEF StreamIsOneMessage
    <2>4. DispatchesCleanly'
      BY <2>1, Zenon DEF DispatchesCleanly
    <2> QED
      BY <2>3, <2>4
  <1> QED
    BY <1>1, <1>2

(* The packet is ignored, or ends the transaction without a reply. *)
LEMMA IgnoredWhole ==
    ASSUME ctap_expected_len' # 0 => UNCHANGED <<ctap_req_buf, ctap_expected_len, ctap_cid>>,
           response' = response,
           ctap_expected_len # 0 =>
               LET d == ctap_req_buf[1].from IN
               /\ ctap_cid = InitChannel[d]
               /\ Clean(d, client'[d]) => Beginning(ctap_req_buf, d, client'[d], ctap_expected_len),
           response # None /\ response.body # <<>> =>
               LET d == response.body[1].from IN
               Clean(d, client'[d]) => Whole(response.body)
    PROVE  StreamIsOneMessage' /\ DispatchesCleanly'
  <1>1. StreamIsOneMessage'
    BY Zenon DEF StreamIsOneMessage
  <1>2. DispatchesCleanly'
    BY Zenon DEF DispatchesCleanly
  <1> QED
    BY <1>1, <1>2

(* One client changes: the response stays whole, since faults only add up, *)
(* and the stream of every other client stays the beginning of its         *)
(* message.                                                                *)
LEMMA OthersKept ==
    ASSUME WholeInv, NEW c \in Clients, NEW m \in ClientRecords,
           client' = [client EXCEPT ![c] = m], m.faults >= client[c].faults
    PROVE  /\ response # None /\ response.body # <<>> =>
                 LET d == response.body[1].from IN
                 Clean(d, client'[d]) => Whole(response.body)
           /\ ctap_expected_len # 0 =>
                 LET d == ctap_req_buf[1].from IN
                 /\ d \in Clients
                 /\ ctap_cid = InitChannel[d]
                 /\ d # c /\ Clean(d, client'[d]) =>
                        Beginning(ctap_req_buf, d, client'[d], ctap_expected_len)
           /\ client'[c] = m
           /\ Clean(c, m) => Clean(c, client[c])
  <1>1. HidTyped /\ ClientTyped /\ StreamShape /\ ClientShape
    BY TypeSplit DEF WholeInv, ShapeInv
  <1>2. \A d \in Clients : client'[d] = IF d = c THEN m ELSE client[d]
    BY <1>1 DEF ClientTyped
  <1>3. Clean(c, m) => Clean(c, client[c])
    <2>1. client[c].faults \in Nat /\ m.faults \in Nat
      BY <1>1, ClientFacts, ClientsAssumption DEF ClientRecords
    <2> QED
      BY <2>1 DEF Clean
  <1>4. ASSUME response # None, response.body # <<>>
        PROVE  response.body[1].from \in Clients
    <2>1. response.body \in Seq(Chunks)
      BY <1>1, <1>4 DEF HidTyped, ResponseTyped
    <2>2. response.body[1] \in Chunks
      BY <1>4, <2>1, EmptySeq, LenProperties
    <2> QED
      BY <2>2 DEF Chunks
  <1>5. ASSUME ctap_expected_len # 0
        PROVE  ctap_req_buf[1].from \in Clients
    <2>1. ctap_req_buf[1] \in Chunks
      BY <1>1, <1>5, LenProperties DEF HidTyped, StreamShape
    <2> QED
      BY <2>1 DEF Chunks
  <1>6. response # None /\ response.body # <<>> =>
            LET d == response.body[1].from IN
            Clean(d, client'[d]) => Whole(response.body)
    BY <1>2, <1>3, <1>4, Zenon DEF WholeInv, DispatchesCleanly
  <1>7. ctap_expected_len # 0 =>
            LET d == ctap_req_buf[1].from IN
            /\ d \in Clients
            /\ ctap_cid = InitChannel[d]
            /\ d # c /\ Clean(d, client'[d]) =>
                   Beginning(ctap_req_buf, d, client'[d], ctap_expected_len)
    <2> SUFFICES ASSUME ctap_expected_len # 0
                 PROVE  LET d == ctap_req_buf[1].from IN
                        /\ d \in Clients
                        /\ ctap_cid = InitChannel[d]
                        /\ d # c /\ Clean(d, client'[d]) =>
                               Beginning(ctap_req_buf, d, client'[d], ctap_expected_len)
      OBVIOUS
    <2> DEFINE d == ctap_req_buf[1].from
    <2>1. d \in Clients /\ ctap_cid = InitChannel[d]
          /\ (Clean(d, client[d]) => Beginning(ctap_req_buf, d, client[d], ctap_expected_len))
      BY <1>5, Zenon DEF WholeInv, StreamIsOneMessage
    <2>2. d # c => client'[d] = client[d]
      BY <1>2, <2>1
    <2> QED
      BY <2>1, <2>2, Zenon
  <1> QED
    BY <1>2, <1>3, <1>6, <1>7, Zenon

(* An initialisation packet with the first chunks of a client's message.   *)
(* If it is too long and so ignored, no message of that client is awaited, *)
(* unless the client had a fault.                                          *)
LEMMA InitPacketWhole ==
    ASSUME WholeInv, NEW c \in Clients, NEW m \in ClientRecords, ClientFits(c, m),
           client' = [client EXCEPT ![c] = m], m.faults >= client[c].faults,
           NEW cmd, m.sent = IF m.len = 0 THEN 0 ELSE 1,
           InitPacket(InitChannel[c], cmd, m.len, FirstChunks(c, m.n, m.len)),
           \/ ~Sending(c)
           \/ /\ client[c].len = m.len /\ client[c].n = m.n /\ client[c].sent = m.sent
              /\ m.faults > 0
    PROVE  StreamIsOneMessage' /\ DispatchesCleanly'
  <1> USE SizesAssumption
  <1>1. HidTyped /\ ClientTyped /\ StreamShape /\ ClientShape
    BY TypeSplit DEF WholeInv, ShapeInv
  <1>2. /\ client[c].faults \in Nat /\ client[c].sent \in Nat /\ client[c].len \in Nat
        /\ m.faults \in Nat /\ m.len \in 0 .. MaxLen /\ m.n \in 0 .. MaxMessages
    BY <1>1, ClientFacts, ClientsAssumption DEF ClientRecords
  <1>3. client'[c] = m
    BY OthersKept
  <1>4. response # None /\ response.body # <<>> =>
            LET d == response.body[1].from IN
            Clean(d, client'[d]) => Whole(response.body)
    BY OthersKept, Zenon
  <1>5. CASE m.len > BufChunks
    <2>1. UNCHANGED <<hid, response, allocated_cid, cancel_requested>>
      BY <1>2, <1>5 DEF InitPacket
    <2>2. /\ ctap_req_buf' = ctap_req_buf /\ ctap_expected_len' = ctap_expected_len
          /\ ctap_cid' = ctap_cid /\ response' = response
      BY <2>1, Zenon DEF hid
    <2>3. c \in Oversize
      BY <1>2, <1>5 DEF ClientFits
    <2>4. ASSUME ctap_expected_len # 0, ctap_req_buf[1].from = c, Clean(c, m)
          PROVE  FALSE
      <3>1. m.faults = 0 /\ client[c].faults = 0
        BY <1>2, <2>3, <2>4 DEF Clean
      <3>2. Beginning(ctap_req_buf, c, client[c], ctap_expected_len)
        BY <2>4, <3>1 DEF WholeInv, StreamIsOneMessage, Clean
      <3>3. Len(ctap_req_buf) < ctap_expected_len
        BY <1>1, <2>4 DEF StreamShape
      <3>4. Sending(c)
        BY <3>1, <3>2, <3>3 DEF Beginning, Sending
      <3> QED
        BY <1>2, <3>1, <3>4
    <2>5. ctap_expected_len # 0 =>
            LET d == ctap_req_buf[1].from IN
            /\ ctap_cid = InitChannel[d]
            /\ Clean(d, client'[d]) => Beginning(ctap_req_buf, d, client'[d], ctap_expected_len)
      BY <1>3, <2>4, OthersKept, Zenon
    <2> QED
      BY <1>4, <2>2, <2>5, IgnoredWhole
  <1>6. CASE m.len <= BufChunks
    <2> DEFINE buf == FirstChunks(c, m.n, m.len)
    <2>1. Received(InitChannel[c], cmd, buf, m.len, 0)
      BY <1>2, <1>6 DEF InitPacket
    <2>2. m.len # 0 => m.n \in 1 .. MaxMessages
      BY <1>2 DEF ClientFits
    <2>3. /\ buf \in Seq(Chunks) /\ Len(buf) = IF m.len = 0 THEN 0 ELSE 1
          /\ m.len # 0 => buf[1] = Chunk(c, m.n, 0, m.len)
      BY <1>2, <2>2, FirstChunksType
    <2>4. (buf = <<>>) <=> (m.len = 0)
      BY <2>3, EmptySeq DEF FirstChunks
    <2> HIDE DEF buf
    <2>5. m.len # 0 => buf[1].from = c
      BY <2>3 DEF Chunk
    <2>6. ASSUME m.len # 0
          PROVE  Beginning(buf, c, m, m.len)
      <3>1. \A i \in 1 .. Len(buf) : i = 1 /\ i - 1 = 0
        BY <2>3, <2>6
      <3>2. \A i \in 1 .. Len(buf) : buf[i] = Chunk(c, m.n, i - 1, m.len)
        BY <2>3, <2>6, <3>1
      <3>3. m.sent = Len(buf) /\ m.sent >= Len(buf)
        BY <2>3, <2>6
      <3> QED
        BY <3>2, <3>3 DEF Beginning
    <2>7. m.len \in Nat
      BY <1>2
    <2> QED
      BY <1>3, <1>4, <2>1, <2>3, <2>4, <2>5, <2>6, <2>7, ReceivedWhole
  <1> QED
    BY <1>2, <1>5, <1>6

(* The next continuation packet of a client. *)
LEMMA ContinuationWhole ==
    ASSUME WholeInv, SeparateChannels, NEW c \in Clients, ContinueMessage(c)
    PROVE  StreamIsOneMessage' /\ DispatchesCleanly'
  <1> USE SizesAssumption
  <1>1. HidTyped /\ ClientTyped /\ StreamShape /\ ClientShape
    BY TypeSplit DEF WholeInv, ShapeInv
  <1> DEFINE m == client[c]
             chunk == Chunk(c, m.n, m.sent, m.len)
             next == [m EXCEPT !.sent = m.sent + 1]
  <1>2. /\ m \in ClientRecords /\ ClientFits(c, m) /\ m.n \in 0 .. MaxMessages
        /\ m.len \in 0 .. MaxLen /\ m.sent \in 0 .. MaxLen /\ m.faults \in Nat
        /\ m.cid = InitChannel[c]
    BY <1>1, ClientFacts, ClientsAssumption DEF WholeInv, ChannelsKept
  <1>3. m.sent < m.len
    BY DEF ContinueMessage, Sending
  <1>4. m.n \in 1 .. MaxMessages /\ m.len \in 1 .. MaxLen /\ m.sent >= 1
    BY <1>2, <1>3 DEF ClientFits
  <1>5. ContinuationPacket(InitChannel[c], m.sent - 1, chunk)
    BY <1>2 DEF ContinueMessage
  <1>6. client' = [client EXCEPT ![c] = next]
    BY DEF ContinueMessage
  <1>7. chunk \in Chunks
    BY <1>2, <1>4, ChunkType
  <1> HIDE DEF m
  <1>8. /\ next \in ClientRecords /\ next.n = m.n /\ next.len = m.len
        /\ next.sent = m.sent + 1 /\ next.faults = m.faults
    BY <1>2, <1>3 DEF ClientRecords
  <1> HIDE DEF next, chunk
  <1>9. next.faults >= client[c].faults
    BY <1>2, <1>8 DEF m
  <1>10. client'[c] = next
    BY <1>6, <1>8, <1>9, OthersKept
  <1>11. response # None /\ response.body # <<>> =>
            LET d == response.body[1].from IN
            Clean(d, client'[d]) => Whole(response.body)
    BY <1>6, <1>8, <1>9, OthersKept, Zenon
  <1>12. ctap_expected_len # 0 =>
            LET d == ctap_req_buf[1].from IN
            /\ d \in Clients
            /\ ctap_cid = InitChannel[d]
            /\ d # c /\ Clean(d, client'[d]) =>
                   Beginning(ctap_req_buf, d, client'[d], ctap_expected_len)
    BY <1>6, <1>8, <1>9, OthersKept, Zenon
  <1>13. ctap_expected_len # 0 /\ ctap_req_buf[1].from = c /\ Clean(c, m) =>
            Beginning(ctap_req_buf, c, m, ctap_expected_len)
    BY Zenon DEF WholeInv, StreamIsOneMessage, m
  <1>14. Clean(c, next) <=> Clean(c, m)
    BY <1>8 DEF Clean
  <1>15. CASE InitChannel[c] # ctap_cid \/ ctap_expected_len = 0
    <2>1. UNCHANGED <<hid, response, allocated_cid, cancel_requested>>
      BY <1>5, <1>15, Zenon DEF ContinuationPacket
    <2>2. /\ ctap_req_buf' = ctap_req_buf /\ ctap_expected_len' = ctap_expected_len
          /\ ctap_cid' = ctap_cid /\ response' = response
      BY <2>1, Zenon DEF hid
    <2>3. ctap_expected_len # 0 => ctap_req_buf[1].from # c
      BY <1>12, <1>15
    <2>4. ctap_expected_len # 0 =>
            LET d == ctap_req_buf[1].from IN
            /\ ctap_cid = InitChannel[d]
            /\ Clean(d, client'[d]) => Beginning(ctap_req_buf, d, client'[d], ctap_expected_len)
      BY <1>12, <2>3, Zenon
    <2> QED
      BY <1>11, <2>2, <2>4, IgnoredWhole
  <1>16. CASE InitChannel[c] = ctap_cid /\ ctap_expected_len # 0 /\ m.sent - 1 # ctap_seq
    <2>1. ctap_expected_len' = 0 /\ response' = response
      BY <1>5, <1>16, Zenon DEF ContinuationPacket
    <2>2. StreamIsOneMessage'
      BY <2>1 DEF StreamIsOneMessage
    <2>3. DispatchesCleanly'
      BY <1>11, <2>1, Zenon DEF DispatchesCleanly
    <2> QED
      BY <2>2, <2>3
  <1>17. CASE InitChannel[c] = ctap_cid /\ ctap_expected_len # 0 /\ m.sent - 1 = ctap_seq
    <2> DEFINE buf == Append(ctap_req_buf, chunk)
               old == ctap_req_buf
    <2>1. Received(InitChannel[c], ctap_cmd, buf, ctap_expected_len, m.sent - 1 + 1)
      BY <1>5, <1>17, Zenon DEF ContinuationPacket
    <2>2. ctap_req_buf[1].from = c
      BY <1>12, <1>17 DEF SeparateChannels
    <2>3. /\ buf \in Seq(Chunks) /\ buf # <<>> /\ Len(buf) = Len(old) + 1 /\ Len(old) \in Nat
          /\ \A i \in 1 .. Len(old) : buf[i] = old[i]
          /\ buf[Len(old) + 1] = chunk
      BY <1>1, <1>7, AppendProperties, LenProperties DEF HidTyped
    <2>4. /\ ctap_expected_len \in Nat /\ Len(old) >= 1 /\ m.sent = Len(old)
      BY <1>1, <1>2, <1>17 DEF HidTyped, StreamShape
    <2> HIDE DEF buf
    <2>5. buf[1].from = c
      BY <2>2, <2>3, <2>4
    <2>6. ASSUME Clean(c, next)
          PROVE  Beginning(buf, c, next, ctap_expected_len)
      <3>1. Beginning(old, c, m, ctap_expected_len)
        BY <1>13, <1>14, <1>17, <2>2, <2>6
      <3>2. m.len = ctap_expected_len
            /\ \A i \in 1 .. Len(old) : old[i] = Chunk(c, m.n, i - 1, ctap_expected_len)
        BY <3>1 DEF Beginning
      <3>3. chunk = Chunk(c, m.n, Len(old) + 1 - 1, ctap_expected_len)
        BY <2>3, <2>4, <3>2 DEF chunk
      <3>4. \A i \in 1 .. Len(buf) : buf[i] = Chunk(c, m.n, i - 1, ctap_expected_len)
        <4> SUFFICES ASSUME NEW i \in 1 .. Len(buf)
                     PROVE  buf[i] = Chunk(c, m.n, i - 1, ctap_expected_len)
          OBVIOUS
        <4>1. CASE i \in 1 .. Len(old)
          BY <2>3, <3>2, <4>1
        <4>2. CASE i = Len(old) + 1
          BY <2>3, <3>3, <4>2
        <4> QED
          BY <2>3, <4>1, <4>2
      <3>5. next.sent = Len(buf) /\ next.sent >= Len(buf) /\ next.len = ctap_expected_len
        BY <1>8, <2>3, <2>4, <3>2
      <3> QED
        BY <1>8, <3>4, <3>5 DEF Beginning
    <2> QED
      BY <1>10, <1>11, <2>1, <2>3, <2>4, <2>5, <2>6, ReceivedWhole
  <1> QED
    BY <1>15, <1>16, <1>17

(* A continuation packet received a second time is out of sequence. *)
LEMMA RepeatedContinuationWhole ==
    ASSUME WholeInv, SeparateChannels, NEW c \in Clients, NEW m \in ClientRecords,
           client' = [client EXCEPT ![c] = m], m.faults = client[c].faults + 1,
           m.len = client[c].len, m.sent = client[c].sent, m.n = client[c].n,
           NEW chunk, chunk \in Chunks, chunk.from = c, client[c].sent >= 2,
           ContinuationPacket(InitChannel[c], client[c].sent - 2, chunk)
    PROVE  StreamIsOneMessage' /\ DispatchesCleanly'
  <1> USE SizesAssumption
  <1>1. HidTyped /\ ClientTyped /\ StreamShape /\ ClientShape
    BY TypeSplit DEF WholeInv, ShapeInv
  <1>2. /\ client[c].faults \in Nat /\ client[c].sent \in Nat /\ client[c].len \in Nat
        /\ m.faults >= client[c].faults /\ (Clean(c, m) => client[c].faults = 0)
    BY <1>1, ClientFacts, ClientsAssumption DEF Clean
  <1>3. client'[c] = m
    BY <1>2, OthersKept
  <1>4. response # None /\ response.body # <<>> =>
            LET d == response.body[1].from IN
            Clean(d, client'[d]) => Whole(response.body)
    BY <1>2, OthersKept, Zenon
  <1>5. ctap_expected_len # 0 =>
            LET d == ctap_req_buf[1].from IN
            /\ d \in Clients
            /\ ctap_cid = InitChannel[d]
            /\ d # c /\ Clean(d, client'[d]) =>
                   Beginning(ctap_req_buf, d, client'[d], ctap_expected_len)
    BY <1>2, OthersKept, Zenon
  <1>6. ctap_expected_len # 0 /\ ctap_req_buf[1].from = c /\ Clean(c, m) =>
            client[c].sent = Len(ctap_req_buf)
    BY <1>2, Zenon DEF WholeInv, StreamIsOneMessage, Clean, Beginning
  <1>7. CASE InitChannel[c] # ctap_cid \/ ctap_expected_len = 0
    <2>1. UNCHANGED <<hid, response, allocated_cid, cancel_requested>>
      BY <1>7, Zenon DEF ContinuationPacket
    <2>2. /\ ctap_req_buf' = ctap_req_buf /\ ctap_expected_len' = ctap_expected_len
          /\ ctap_cid' = ctap_cid /\ response' = response
      BY <2>1, Zenon DEF hid
    <2>3. ctap_expected_len # 0 => ctap_req_buf[1].from # c
      BY <1>5, <1>7
    <2>4. ctap_expected_len # 0 =>
            LET d == ctap_req_buf[1].from IN
            /\ ctap_cid = InitChannel[d]
            /\ Clean(d, client'[d]) => Beginning(ctap_req_buf, d, client'[d], ctap_expected_len)
      BY <1>5, <2>3, Zenon
    <2> QED
      BY <1>4, <2>2, <2>4, IgnoredWhole
  <1>8. CASE InitChannel[c] = ctap_cid /\ ctap_expected_len # 0 /\ client[c].sent - 2 # ctap_seq
    <2>1. ctap_expected_len' = 0 /\ response' = response
      BY <1>8, Zenon DEF ContinuationPacket
    <2>2. StreamIsOneMessage'
      BY <2>1 DEF StreamIsOneMessage
    <2>3. DispatchesCleanly'
      BY <1>4, <2>1, Zenon DEF DispatchesCleanly
    <2> QED
      BY <2>2, <2>3
  <1>9. CASE InitChannel[c] = ctap_cid /\ ctap_expected_len # 0 /\ client[c].sent - 2 = ctap_seq
    <2> DEFINE buf == Append(ctap_req_buf, chunk)
               old == ctap_req_buf
    <2>1. Received(InitChannel[c], ctap_cmd, buf, ctap_expected_len, client[c].sent - 2 + 1)
      BY <1>9, Zenon DEF ContinuationPacket
    <2>2. ctap_req_buf[1].from = c
      BY <1>5, <1>9 DEF SeparateChannels
    <2>3. /\ buf \in Seq(Chunks) /\ buf # <<>> /\ Len(buf) = Len(old) + 1 /\ Len(old) \in Nat
          /\ \A i \in 1 .. Len(old) : buf[i] = old[i]
          /\ buf[Len(old) + 1] = chunk
      BY <1>1, AppendProperties, LenProperties DEF HidTyped
    <2>4. /\ ctap_expected_len \in Nat /\ Len(old) >= 1 /\ client[c].sent = Len(old) + 1
      BY <1>1, <1>2, <1>9 DEF HidTyped, StreamShape
    <2> HIDE DEF buf
    <2>5. buf[1].from = c
      BY <2>2, <2>3, <2>4
    <2>6. ~Clean(c, m)
      <3>1. client[c].sent # Len(old)
        BY <2>3, <2>4
      <3> QED
        BY <1>6, <1>9, <2>2, <3>1
    <2> QED
      BY <1>3, <1>4, <2>1, <2>3, <2>4, <2>5, <2>6, ReceivedWhole, ZenonT(60)
  <1> QED
    BY <1>7, <1>8, <1>9

(* A fault: the client is ahead of the stream, and its faults are used up. *)
LEMMA FaultWhole ==
    ASSUME WholeInv, NEW c \in Clients, NEW after \in ClientRecords,
           after.faults = client[c].faults, Fault(c, after),
           \/ ~Sending(c)
           \/ after.len = client[c].len /\ after.n = client[c].n /\ after.sent >= client[c].sent
    PROVE  StreamIsOneMessage' /\ DispatchesCleanly'
  <1>1. HidTyped /\ ClientTyped /\ StreamShape /\ ClientShape
    BY TypeSplit DEF WholeInv, ShapeInv
  <1> DEFINE m == [after EXCEPT !.faults = after.faults + 1]
  <1>2. /\ client[c].faults \in Nat /\ client[c].sent \in Nat /\ client[c].len \in Nat
        /\ after.sent \in Nat /\ client[c].faults < MaxFaults
    BY <1>1, ClientFacts, ClientsAssumption, SizesAssumption DEF ClientRecords, Fault
  <1>3. /\ m \in ClientRecords /\ m.faults = client[c].faults + 1 /\ m.n = after.n
        /\ m.len = after.len /\ m.sent = after.sent
    BY <1>2, ClientsAssumption DEF ClientRecords
  <1>4. client' = [client EXCEPT ![c] = m] /\ m.faults >= client[c].faults
    BY <1>2, <1>3 DEF Fault
  <1> HIDE DEF m
  <1>5. client'[c] = m
    BY <1>3, <1>4, OthersKept
  <1>6. response # None /\ response.body # <<>> =>
            LET d == response.body[1].from IN
            Clean(d, client'[d]) => Whole(response.body)
    BY <1>3, <1>4, OthersKept, Zenon
  <1>7. ctap_expected_len # 0 =>
            LET d == ctap_req_buf[1].from IN
            /\ d \in Clients
            /\ ctap_cid = InitChannel[d]
            /\ d # c /\ Clean(d, client'[d]) =>
                   Beginning(ctap_req_buf, d, client'[d], ctap_expected_len)
    BY <1>3, <1>4, OthersKept, Zenon
  <1>8. /\ ctap_req_buf' = ctap_req_buf /\ ctap_expected_len' = ctap_expected_len
        /\ ctap_cid' = ctap_cid /\ response' = response
    BY Zenon DEF hid, Fault
  <1>9. ASSUME ctap_expected_len # 0, ctap_req_buf[1].from = c, Clean(c, m)
        PROVE  Beginning(ctap_req_buf, c, m, ctap_expected_len)
    <2>1. client[c].faults = 0 /\ m.faults # 0
      BY <1>2, <1>3, <1>9 DEF Clean
    <2>2. Beginning(ctap_req_buf, c, client[c], ctap_expected_len)
      BY <1>9, <2>1 DEF WholeInv, StreamIsOneMessage, Clean
    <2>3. Len(ctap_req_buf) < ctap_expected_len /\ Len(ctap_req_buf) \in Nat
      BY <1>1, <1>9, LenProperties DEF StreamShape, HidTyped
    <2>4. /\ client[c].len = ctap_expected_len /\ client[c].sent = Len(ctap_req_buf)
          /\ \A i \in 1 .. Len(ctap_req_buf) :
                ctap_req_buf[i] = Chunk(c, client[c].n, i - 1, ctap_expected_len)
      BY <2>1, <2>2 DEF Beginning
    <2>5. Sending(c)
      BY <2>3, <2>4 DEF Sending
    <2>6. m.len = ctap_expected_len /\ m.n = client[c].n /\ m.sent >= Len(ctap_req_buf)
      BY <1>3, <2>4, <2>5
    <2> QED
      BY <2>1, <2>4, <2>6 DEF Beginning
  <1>10. ctap_expected_len # 0 =>
            LET d == ctap_req_buf[1].from IN
            /\ ctap_cid = InitChannel[d]
            /\ Clean(d, client'[d]) => Beginning(ctap_req_buf, d, client'[d], ctap_expected_len)
    BY <1>5, <1>7, <1>9, Zenon
  <1> QED
    BY <1>6, <1>8, <1>10, IgnoredWhole

(* The reply to an INIT on a channel of the client's own names that channel. *)
LEMMA LearnsOwnChannel ==
    ASSUME WholeInv, SeparateChannels, NEW c \in Clients, NEW cmd, NEW len \in Lengths(c),
           cmd = "INIT" => len = 1, StartMessage(c, cmd, len)
    PROVE  LearnsChannel(c, cmd) = InitChannel[c]
  <1>1. client[c].cid = InitChannel[c] /\ InitChannel[c] # Broadcast
    BY DEF WholeInv, ChannelsKept, SeparateChannels
  <1>2. CASE cmd # "INIT"
    BY <1>1, <1>2 DEF LearnsChannel
  <1>3. CASE cmd = "INIT"
    <2> DEFINE buf == <<Chunk(c, client[c].n + 1, 0, len)>>
    <2>1. InitPacket(client[c].cid, cmd, len, buf) /\ len = 1
      BY <1>3 DEF StartMessage
    <2>2. Received(client[c].cid, cmd, buf, len, 0) /\ Len(buf) = 1
      BY <2>1, SizesAssumption DEF InitPacket
    <2>3. Dispatch(client[c].cid, cmd, buf)
      BY <2>1, <2>2 DEF Received
    <2>4. response'.channel = client[c].cid
      BY <1>1, <1>3, <2>3 DEF Dispatch
    <2> QED
      BY <1>1, <1>3, <2>4 DEF LearnsChannel
  <1> QED
    BY <1>2, <1>3

LEMMA ChannelsStay ==
    ASSUME WholeInv, NEW c \in Clients, NEW m, m.cid = InitChannel[c],
           client' = [client EXCEPT ![c] = m],
           last' # None => last'.cid = InitChannel[last'.by]
    PROVE  ChannelsKept'
  <1>1. ClientTyped
    BY TypeSplit DEF WholeInv, ShapeInv
  <1>2. \A d \in Clients : client'[d] = IF d = c THEN m ELSE client[d]
    BY <1>1 DEF ClientTyped
  <1> QED
    BY <1>2, ZenonT(60) DEF WholeInv, ChannelsKept

LEMMA StartWhole ==
    ASSUME WholeInv, SeparateChannels, NEW c \in Clients, NEW cmd \in Commands \cup {"INIT"},
           NEW len \in Lengths(c), cmd = "INIT" => len = 1, StartMessage(c, cmd, len)
    PROVE  WholeInv'
  <1>1. ClientTyped /\ ClientShape /\ MayStart(c, cmd)
    BY TypeSplit DEF WholeInv, ShapeInv, StartMessage
  <1>2. client[c].cid = InitChannel[c]
    BY DEF WholeInv, ChannelsKept
  <1> DEFINE m == [Started(c, len) EXCEPT !.cid = LearnsChannel(c, cmd)]
  <1>3. /\ Started(c, len) \in ClientRecords /\ ClientFits(c, Started(c, len))
        /\ Started(c, len) = [client[c] EXCEPT !.n = client[c].n + 1, !.len = len,
                                               !.sent = IF len = 0 THEN 0 ELSE 1]
        /\ client[c] \in ClientRecords /\ client[c].n + 1 \in 1 .. MaxMessages
    BY <1>1, StartedFits, ClientFacts
  <1>4. /\ Started(c, len).n = client[c].n + 1 /\ Started(c, len).len = len
        /\ Started(c, len).sent = IF len = 0 THEN 0 ELSE 1
        /\ Started(c, len).faults = client[c].faults
    BY <1>3 DEF ClientRecords
  <1>5. LearnsChannel(c, cmd) = InitChannel[c] /\ InitChannel[c] \in Channels
    BY LearnsOwnChannel DEF Channels
  <1>6. /\ m \in ClientRecords /\ ClientFits(c, m) /\ m.cid = InitChannel[c]
        /\ m.n = client[c].n + 1 /\ m.len = len /\ m.sent = IF len = 0 THEN 0 ELSE 1
        /\ m.faults = client[c].faults
    BY <1>3, <1>4, <1>5 DEF ClientRecords, ClientFits
  <1>7. client' = [client EXCEPT ![c] = m] /\ last'.cid = InitChannel[last'.by]
    BY <1>2 DEF StartMessage
  <1> HIDE DEF m
  <1>8. ~Sending(c) /\ m.faults >= client[c].faults
    BY <1>1, <1>6, ClientFacts, ClientsAssumption DEF MayStart
  <1>9. InitPacket(InitChannel[c], cmd, m.len, FirstChunks(c, m.n, m.len))
    BY <1>2, <1>6 DEF StartMessage, FirstChunks
  <1>10. StreamIsOneMessage' /\ DispatchesCleanly'
    BY <1>6, <1>7, <1>8, <1>9, InitPacketWhole
  <1>11. ChannelsKept'
    BY <1>6, <1>7, ChannelsStay
  <1>12. ShapeInv'
    BY StartShape DEF WholeInv
  <1> QED
    BY <1>10, <1>11, <1>12 DEF WholeInv

LEMMA ContinueWhole ==
    ASSUME WholeInv, SeparateChannels, NEW c \in Clients, ContinueMessage(c)
    PROVE  WholeInv'
  <1>1. ClientTyped /\ ClientShape /\ client[c].cid = InitChannel[c]
    BY TypeSplit DEF WholeInv, ShapeInv, ChannelsKept
  <1>2. client[c] \in ClientRecords
    BY <1>1, ClientFacts
  <1> DEFINE m == [client[c] EXCEPT !.sent = client[c].sent + 1]
  <1>3. m.cid = InitChannel[c]
    BY <1>1, <1>2 DEF ClientRecords
  <1>4. client' = [client EXCEPT ![c] = m] /\ last'.cid = InitChannel[last'.by]
    BY <1>1 DEF ContinueMessage
  <1> HIDE DEF m
  <1>5. ChannelsKept'
    BY <1>3, <1>4, ChannelsStay
  <1>6. ShapeInv'
    BY ContinueShape DEF WholeInv
  <1> QED
    BY <1>5, <1>6, ContinuationWhole DEF WholeInv

LEMMA RepeatWhole ==
    ASSUME WholeInv, SeparateChannels, NEW c \in Clients, RepeatPacket(c)
    PROVE  WholeInv'
  <1>1. ClientTyped /\ ClientShape /\ client[c].cid = InitChannel[c]
    BY TypeSplit DEF WholeInv, ShapeInv, ChannelsKept
  <1>2. /\ client[c] \in ClientRecords /\ ClientFits(c, client[c])
        /\ client[c].faults \in Nat /\ client[c].faults < MaxFaults
        /\ client[c].sent \in 0 .. MaxLen /\ client[c].len \in 0 .. MaxLen
        /\ client[c].n \in 0 .. MaxMessages
    BY <1>1, ClientFacts, ClientsAssumption DEF RepeatPacket
  <1>3. last.cid = InitChannel[c] /\ c \in Faulty /\ last' = last
    BY DEF RepeatPacket, WholeInv, ChannelsKept
  <1> DEFINE m == [client[c] EXCEPT !.faults = client[c].faults + 1]
  <1>4. /\ m \in ClientRecords /\ ClientFits(c, m) /\ m.cid = InitChannel[c]
        /\ m.n = client[c].n /\ m.len = client[c].len /\ m.sent = client[c].sent
        /\ m.faults = client[c].faults + 1
    BY <1>1, <1>2, <1>3, ClientsAssumption DEF ClientRecords, ClientFits
  <1>5. client' = [client EXCEPT ![c] = m]
    BY DEF RepeatPacket
  <1> HIDE DEF m
  <1>6. m.faults > 0 /\ m.faults >= client[c].faults
    BY <1>2, <1>4
  <1>7. StreamIsOneMessage' /\ DispatchesCleanly'
    <2>1. CASE client[c].sent <= 1
      <3>1. InitPacket(InitChannel[c], last.cmd, m.len, FirstChunks(c, m.n, m.len))
        BY <1>3, <1>4, <2>1 DEF RepeatPacket, FirstChunks
      <3>2. m.sent = IF m.len = 0 THEN 0 ELSE 1
        BY <1>2, <1>4, <2>1, SizesAssumption DEF ClientFits
      <3> QED
        BY <1>4, <1>5, <1>6, <3>1, <3>2, InitPacketWhole
    <2>2. CASE ~(client[c].sent <= 1)
      <3> DEFINE chunk == Chunk(c, client[c].n, client[c].sent - 1, client[c].len)
      <3>1. ContinuationPacket(InitChannel[c], client[c].sent - 2, chunk)
        BY <1>3, <2>2 DEF RepeatPacket
      <3>2. client[c].sent >= 2 /\ client[c].n \in 1 .. MaxMessages /\ client[c].len \in 1 .. MaxLen
            /\ client[c].sent - 1 \in 0 .. MaxLen
        BY <1>2, <2>2, SizesAssumption DEF ClientFits
      <3>3. chunk \in Chunks
        BY <3>2, ChunkType
      <3>4. chunk.from = c
        BY DEF Chunk
      <3> HIDE DEF chunk
      <3> QED
        BY <1>4, <1>5, <3>1, <3>2, <3>3, <3>4, RepeatedContinuationWhole
    <2> QED
      BY <2>1, <2>2
  <1>8. ChannelsKept'
    <2>1. last' # None => last'.cid = InitChannel[last'.by]
      BY <1>3 DEF WholeInv, ChannelsKept
    <2> QED
      BY <1>4, <1>5, <2>1, ChannelsStay
  <1>9. ShapeInv'
    BY RepeatShape DEF WholeInv
  <1> QED
    BY <1>7, <1>8, <1>9 DEF WholeInv

LEMMA AnyFaultWhole ==
    ASSUME WholeInv, NEW c \in Clients, NEW after \in ClientRecords, ClientFits(c, after),
           after.faults = client[c].faults, after.cid = client[c].cid, Fault(c, after),
           \/ ~Sending(c)
           \/ after.len = client[c].len /\ after.n = client[c].n /\ after.sent >= client[c].sent
    PROVE  WholeInv'
  <1>1. StreamIsOneMessage' /\ DispatchesCleanly'
    BY FaultWhole
  <1>2. ShapeInv'
    BY FaultShape DEF WholeInv
  <1> DEFINE m == [after EXCEPT !.faults = after.faults + 1]
  <1>3. m.cid = InitChannel[c]
    BY DEF WholeInv, ChannelsKept, ClientRecords
  <1>4. client' = [client EXCEPT ![c] = m] /\ last' = None
    BY DEF Fault
  <1> HIDE DEF m
  <1>5. ChannelsKept'
    BY <1>3, <1>4, ChannelsStay
  <1> QED
    BY <1>1, <1>2, <1>5 DEF WholeInv

LEMMA CancelWhole ==
    ASSUME WholeInv, NEW c \in Clients, SendCancel(c)
    PROVE  WholeInv'
  <1>1. /\ ctap_req_buf' = ctap_req_buf /\ ctap_expected_len' = ctap_expected_len
        /\ ctap_cid' = ctap_cid /\ response' = response /\ client' = client /\ last' = None
    BY Zenon DEF SendCancel, hid
  <1>2. ChannelsKept' /\ StreamIsOneMessage' /\ DispatchesCleanly'
    BY <1>1, Zenon DEF WholeInv, ChannelsKept, StreamIsOneMessage, DispatchesCleanly
  <1>3. ShapeInv'
    BY CancelShape DEF WholeInv
  <1> QED
    BY <1>2, <1>3 DEF WholeInv

LEMMA StutterWhole == WholeInv /\ UNCHANGED vars => WholeInv'
  <1> SUFFICES ASSUME WholeInv, UNCHANGED vars PROVE WholeInv'
    OBVIOUS
  <1>1. ShapeInv'
    BY StutterShape DEF WholeInv
  <1>2. ChannelsKept' /\ StreamIsOneMessage' /\ DispatchesCleanly'
    BY Zenon DEF WholeInv, ChannelsKept, StreamIsOneMessage, DispatchesCleanly, vars, hid
  <1> QED
    BY <1>1, <1>2 DEF WholeInv

LEMMA NextWhole == WholeInv /\ SeparateChannels /\ Next => WholeInv'
  <1> SUFFICES ASSUME WholeInv, SeparateChannels, NEW c \in Clients,
                      \/ \E cmd \in Commands, len \in Lengths(c) :
                           StartMessage(c, cmd, len) \/ LoseInitPacket(c, cmd, len)
                      \/ StartMessage(c, "INIT", 1)
                      \/ ContinueMessage(c)
                      \/ AbortMessage(c)
                      \/ LoseContinuation(c)
                      \/ RepeatPacket(c)
                      \/ SendCancel(c)
               PROVE  WholeInv'
    BY Zenon DEF Next
  <1>0. /\ ShapeInv /\ client[c] \in ClientRecords /\ client[c].sent \in Nat
        /\ ClientFits(c, client[c]) /\ client[c].len \in Nat
    BY TypeSplit, ClientFacts, SizesAssumption DEF WholeInv, ShapeInv
  <1>1. ASSUME NEW cmd \in Commands, NEW len \in Lengths(c), StartMessage(c, cmd, len)
        PROVE  WholeInv'
    <2>1. cmd # "INIT" /\ cmd \in Commands \cup {"INIT"}
      BY DEF Commands
    <2> QED
      BY <1>1, <2>1, StartWhole
  <1>2. ASSUME NEW cmd \in Commands, NEW len \in Lengths(c), LoseInitPacket(c, cmd, len)
        PROVE  WholeInv'
    <2> DEFINE after == Started(c, len)
    <2>1. after \in ClientRecords /\ ClientFits(c, after) /\ after.faults = client[c].faults
      BY <1>0, <1>2, LoseInitFits DEF LoseInitPacket
    <2>2. after.cid = client[c].cid
      BY <1>0 DEF Started, ClientRecords
    <2>3. ~Sending(c) /\ Fault(c, after)
      BY <1>2 DEF LoseInitPacket, MayStart
    <2> HIDE DEF after
    <2> QED
      BY <2>1, <2>2, <2>3, AnyFaultWhole
  <1>3. CASE StartMessage(c, "INIT", 1)
    <2>1. 1 \in Lengths(c) /\ "INIT" \in Commands \cup {"INIT"}
      BY SizesAssumption DEF Lengths
    <2> QED
      BY <1>3, <2>1, StartWhole
  <1>4. CASE AbortMessage(c)
    <2> DEFINE after == [client[c] EXCEPT !.sent = client[c].len]
    <2>1. after \in ClientRecords /\ ClientFits(c, after) /\ after.faults = client[c].faults
      BY <1>0, <1>4, AbortFits DEF AbortMessage
    <2>2. /\ after.cid = client[c].cid /\ after.len = client[c].len /\ after.n = client[c].n
          /\ after.sent >= client[c].sent
      BY <1>0 DEF ClientRecords, ClientFits
    <2>3. Fault(c, after)
      BY <1>4 DEF AbortMessage
    <2> HIDE DEF after
    <2> QED
      BY <2>1, <2>2, <2>3, AnyFaultWhole
  <1>5. CASE LoseContinuation(c)
    <2> DEFINE after == [client[c] EXCEPT !.sent = client[c].sent + 1]
    <2>1. after \in ClientRecords /\ ClientFits(c, after) /\ after.faults = client[c].faults
      BY <1>0, <1>5, LoseContinuationFits DEF LoseContinuation
    <2>2. /\ after.cid = client[c].cid /\ after.len = client[c].len /\ after.n = client[c].n
          /\ after.sent >= client[c].sent
      BY <1>0 DEF ClientRecords
    <2>3. Fault(c, after)
      BY <1>5 DEF LoseContinuation
    <2> HIDE DEF after
    <2> QED
      BY <2>1, <2>2, <2>3, AnyFaultWhole
  <1> QED
    BY <1>1, <1>2, <1>3, <1>4, <1>5, ContinueWhole, RepeatWhole, CancelWhole

LEMMA InitWhole == Init => WholeInv
  <1> SUFFICES ASSUME Init PROVE WholeInv
    OBVIOUS
  <1>1. ChannelsKept
    BY DEF Init, ChannelsKept
  <1>2. StreamIsOneMessage /\ DispatchesCleanly
    BY DEF Init, StreamIsOneMessage, DispatchesCleanly
  <1> QED
    BY <1>1, <1>2, InitShape DEF WholeInv

(* With a channel of its own for every client, any number of faults leaves *)
(* the messages of a client whole until that client had two of them, or    *)
(* one if it also sends messages that do not fit the buffer; the faults of *)
(* the other clients do not matter.                                        *)
THEOREM WholeInvariant ==
    ASSUME SeparateChannels
    PROVE  Spec => []WholeInv
  <1>1. WholeInv /\ [Next]_vars => WholeInv'
    BY StutterWhole, NextWhole
  <1> QED
    BY InitWhole, <1>1, PTL DEF Spec

(* What ProcessCTAPHID dispatches is one whole message of one client,      *)
(* however the packets of any number of clients interleave, if every       *)
(* client has its own channel and at most one fault.                       *)
THEOREM DispatchCorrect ==
    ASSUME SeparateChannels, SparseFaults
    PROVE  Spec => []DispatchesWholeMessages
  <1>1. WholeInv => DispatchesWholeMessages
    <2> SUFFICES ASSUME WholeInv, response # None, response.body # <<>>
                 PROVE  /\ Len(response.body) = response.body[1].of
                        /\ \A i \in DOMAIN response.body :
                               response.body[i] = [response.body[1] EXCEPT !.i = i - 1]
      BY Zenon DEF DispatchesWholeMessages
    <2>1. HidTyped /\ ClientTyped /\ ClientShape
      BY TypeSplit DEF WholeInv, ShapeInv
    <2>2. response.body \in Seq(Chunks)
      BY <2>1 DEF HidTyped, ResponseTyped
    <2>3. response.body[1] \in Chunks
      BY <2>2, EmptySeq, LenProperties
    <2> DEFINE c == response.body[1].from
    <2>4. c \in Clients
      BY <2>3 DEF Chunks
    <2> HIDE DEF c
    <2>5. client[c].faults \in 0 .. MaxFaults /\ (client[c].faults > 0 => c \in Faulty)
      BY <2>1, <2>4, ClientFacts DEF ClientFits
    <2>6. Clean(c, client[c])
      BY <2>5, ClientsAssumption DEF Clean, SparseFaults
    <2>7. Whole(response.body)
      BY <2>6 DEF WholeInv, DispatchesCleanly, c
    <2> QED
      BY <2>2, <2>7, LenProperties DEF Whole
  <1> QED
    BY WholeInvariant, <1>1, PTL

=============================================================================
