----------------------------- MODULE FrameCodec -----------------------------
(***************************************************************************)
(* The frame codec of esphome_rpc.c: varint_encode, esphome_header_size   *)
(* and esphome_encode_header as the generated <Message>Write functions   *)
(* use them to build a frame, and read_decode_varint, esphome_read_header *)
(* and the payload read of esphome_read_request, one recv per step.       *)
(*                                                                         *)
(* The widths are parameters.  G is the number of payload bits in a varint*)
(* byte (7 in the code: mask 0x7F, continuation bit 0x80, shift 7).  W is *)
(* the width of the uint64_t accumulator, T the width of the uint32_t the *)
(* header fields are cast to.  The code's constants are 63 = W - 1 and    *)
(* 0xFE = every byte bit but the lowest.                                  *)
(***************************************************************************)
EXTENDS Integers, Sequences, Bitwise

CONSTANTS
  G,           \* payload bits per varint byte
  W,           \* bits of the decoder's accumulator
  T,           \* bits of the header fields after the (uint32_t) cast
  MaxPayload,  \* largest payload length a modelled Write function packs
  Ids,         \* message ids the writer is called with
  WideLens     \* length values a hostile peer puts in a header

ASSUME CodecAssumption ==
  /\ G \in Nat \ {0}
  /\ W \in Nat \ {0} /\ (W - 1) % G = 0
  /\ T \in 1..W
  /\ MaxPayload \in Nat
  /\ Ids \subseteq 0..(2^T - 1)
  /\ WideLens \subseteq 0..(2^W - 1)

Cont == 2^G                   \* 0x80
Low == Cont - 1               \* 0x7F
ByteVals == 0..(2 * Cont - 1) \* uint8_t
Top == W - 1                  \* 63

(***************************************************************************)
(* varint_encode: one byte for val <= 0x7F, otherwise the 7-bit groups of  *)
(* val, least significant first, each but the last with 0x80 set.          *)
(***************************************************************************)
RECURSIVE Groups(_)
Groups(val) ==
  IF val = 0 THEN << >>
  ELSE LET temp == val % Cont
           rest == val \div Cont
       IN  << IF rest # 0 THEN temp + Cont ELSE temp >> \o Groups(rest)

VarintEncode(val) == IF val <= Low THEN << val >> ELSE Groups(val)

\* esphome_header_size: the marker byte and the two varints, counted.
HeaderSizeIdTwice(rpc_id, len) == 1 + 2 * Len(VarintEncode(rpc_id))
HeaderSize(rpc_id, len) == 1 + Len(VarintEncode(len)) + Len(VarintEncode(rpc_id))

\* esphome_encode_header: 0x00, then the length, then the id.
EncodeHeader(rpc_id, len) == << 0 >> \o VarintEncode(len) \o VarintEncode(rpc_id)

\* The packed message; its bytes are data the codec only copies.
Payload(len) == [i \in 1..len |-> (i - 1) % (2 * Cont)]

(***************************************************************************)
(* A <Message>Write function: hdr_len = esphome_header_size, out =         *)
(* alloc(len + hdr_len) (uninitialized, here the byte junk), the header    *)
(* encoded at out, the message packed at out + hdr_len, and the whole      *)
(* len + hdr_len bytes sent.                                               *)
(***************************************************************************)
WriteFrame(rpc_id, len, junk) ==
  LET hdr_len == HeaderSize(rpc_id, len)
      hdr     == EncodeHeader(rpc_id, len)
      pl      == Payload(len)
  IN  [i \in 1..(hdr_len + len) |->
         IF i > hdr_len THEN pl[i - hdr_len]
         ELSE IF i <= Len(hdr) THEN hdr[i] ELSE junk]

\* Bytes a peer may send that no writer produces: a marker and up to two
\* arbitrary bytes, varints that run into the overflow check, and headers
\* with a length outside the uint32_t range.
Noise ==
  { << 0 >> \o s : s \in UNION { [1..k -> ByteVals] : k \in 0..2 } }
  \cup { << 0, Cont, Cont, Cont, b >> : b \in ByteVals }
  \cup { << 1 >> }

NoFrame == [rpc_id |-> -1, len |-> -1, payload |-> << >>]

VARIABLES
  wire,     \* bytes the peer sent that the reader has not consumed
  peerEnd,  \* what recv reports once the wire is drained: "eof" or "error"
  sent,     \* the header and payload the peer framed, or NoFrame
  phase,    \* where the RPC thread is in esphome_read_request
  val,      \* read_decode_varint's uint8_t val
  result,   \* read_decode_varint's uint64_t result
  bitpos,   \* read_decode_varint's uint8_t bitpos
  lenRaw,   \* the 64-bit value of the length varint
  len,      \* esphome_read_request's len after the (uint32_t) cast
  msgId,    \* esphome_read_request's msg_id
  data,     \* the payload bytes read
  recvErr,  \* a recv of this request returned < 0
  served    \* a request of this connection has been dispatched

vars == << wire, peerEnd, sent, phase, val, result, bitpos, lenRaw, len,
           msgId, data, recvErr, served >>

Phases == {"idle", "marker", "len", "id", "payload",
           "dispatch", "nomem", "failed", "spin"}

TypeOK ==
  /\ wire \in Seq(ByteVals)
  /\ peerEnd \in {"eof", "error"}
  /\ phase \in Phases
  /\ val \in ByteVals
  /\ result \in 0..(2^W - 1)
  /\ bitpos \in 0..(Top + G)
  /\ lenRaw \in 0..(2^W - 1)
  /\ len \in 0..(2^T - 1)
  /\ msgId \in 0..(2^T - 1)
  /\ data \in Seq(ByteVals)
  /\ recvErr \in BOOLEAN
  /\ served \in BOOLEAN

Init ==
  /\ wire = << >>
  /\ peerEnd = "eof"
  /\ sent = NoFrame
  /\ phase = "idle"
  /\ val = 0
  /\ result = 0 /\ bitpos = 0 /\ lenRaw = 0 /\ len = 0 /\ msgId = 0
  /\ data = << >>
  /\ recvErr = FALSE
  /\ served = FALSE

ResetReader ==
  /\ phase' = "marker"
  /\ result' = 0 /\ bitpos' = 0 /\ lenRaw' = 0 /\ len' = 0 /\ msgId' = 0
  /\ data' = << >> /\ recvErr' = FALSE /\ served' = FALSE
  /\ UNCHANGED val

\* The peer sends one frame built by a <Message>Write function, then closes
\* or resets the connection.
PeerWrite ==
  /\ phase = "idle"
  /\ \E id \in Ids, n \in 0..MaxPayload, junk \in ByteVals, e \in {"eof", "error"} :
       /\ wire' = WriteFrame(id, n, junk)
       /\ sent' = [rpc_id |-> id, len |-> n, payload |-> Payload(n)]
       /\ peerEnd' = e
  /\ ResetReader

\* A hostile peer sends a header whose length does not fit uint32_t, or
\* bytes no writer produces.
PeerSendRaw ==
  /\ phase = "idle"
  /\ \E e \in {"eof", "error"} :
       /\ peerEnd' = e
       /\ \/ \E id \in Ids, n \in WideLens :
               /\ wire' = EncodeHeader(id, n)
               /\ sent' = [rpc_id |-> id, len |-> n, payload |-> << >>]
          \/ \E s \in Noise : wire' = s /\ sent' = NoFrame
  /\ ResetReader

\* esphome_read_header's marker loop: a zero-byte recv (the peer's FIN) is
\* retried for ever, a negative one is returned, a byte other than 0x00 is
\* -EIO.  After 0x00 read_decode_varint starts with val uninitialized.
RecvMarker ==
  /\ phase = "marker"
  /\ \/ /\ wire = << >>
        /\ phase' = IF peerEnd = "eof" THEN "spin" ELSE "failed"
        /\ recvErr' = (peerEnd = "error")
        /\ UNCHANGED << wire, val >>
     \/ /\ wire # << >>
        /\ wire' = Tail(wire)
        /\ phase' = IF Head(wire) = 0 THEN "len" ELSE "failed"
        /\ val' \in ByteVals
        /\ UNCHANGED recvErr
  /\ UNCHANGED << peerEnd, sent, result, bitpos, lenRaw, len, msgId, data, served >>

\* The check before accumulating: bitpos >= 63 && (val & 0xFE) != 0.
OverflowNever(b, pos) == FALSE
Overflow(b, pos) == pos >= Top /\ (b & (2 * Cont - 2)) # 0

\* result |= (uint64_t)(val & 0x7F) << bitpos, in a W-bit accumulator.
AccumulateUnmasked(res, b, pos) == res | ((b * 2^pos) % 2^W)
Accumulate(res, b, pos) == res | (((b & Low) * 2^pos) % 2^W)

\* The (uint32_t) casts of esphome_read_header.
TruncateNone(v) == v
Truncate(v) == v % 2^T

(***************************************************************************)
(* One pass of read_decode_varint's loop after its recv gave the byte b:   *)
(* the overflow check, the accumulation, and either the next pass or the   *)
(* return to esphome_read_header, which casts the value and either starts *)
(* the type-id varint (val again uninitialized) or returns the header.    *)
(***************************************************************************)
DecodeByte(b) ==
  LET res == Accumulate(result, b, bitpos)
  IN  IF Overflow(b, bitpos)
      THEN /\ phase' = "failed"
           /\ UNCHANGED << val, result, bitpos, lenRaw, len, msgId >>
      ELSE IF (b & Cont) # 0
      THEN /\ val' = b /\ result' = res /\ bitpos' = bitpos + G
           /\ UNCHANGED << phase, lenRaw, len, msgId >>
      ELSE IF phase = "len"
      THEN /\ lenRaw' = res /\ len' = Truncate(res)
           /\ phase' = "id" /\ result' = 0 /\ bitpos' = 0 /\ val' \in ByteVals
           /\ UNCHANGED msgId
      ELSE /\ msgId' = Truncate(res)
           /\ phase' = "payload" /\ val' = b /\ result' = res /\ bitpos' = bitpos + G
           /\ UNCHANGED << lenRaw, len >>

\* The recv of read_decode_varint: a byte; 0 (the peer closed) is -EOF; a
\* negative result is not checked, and val keeps whatever it held.
RecvVarintByte ==
  /\ phase \in {"len", "id"}
  /\ \/ /\ wire # << >>
        /\ wire' = Tail(wire)
        /\ DecodeByte(Head(wire))
        /\ UNCHANGED recvErr
     \/ /\ wire = << >> /\ peerEnd = "eof"
        /\ phase' = "failed"
        /\ UNCHANGED << wire, val, result, bitpos, lenRaw, len, msgId, recvErr >>
     \/ /\ wire = << >> /\ peerEnd = "error"
        /\ recvErr' = TRUE
        /\ DecodeByte(val)
        /\ UNCHANGED wire
  /\ UNCHANGED << peerEnd, sent, data, served >>

\* esphome_read_request after the header: no buffer for len = 0; otherwise
\* k_malloc(len) (NULL is -ENOMEM) and one recv of len bytes that must
\* return exactly len.
ReadPayload ==
  /\ phase = "payload"
  /\ \/ /\ len = 0
        /\ phase' = "dispatch"
        /\ UNCHANGED << wire, data, recvErr >>
     \/ /\ len > 0
        /\ phase' = "nomem"
        /\ UNCHANGED << wire, data, recvErr >>
     \/ /\ len > 0 /\ Len(wire) >= len
        /\ data' = SubSeq(wire, 1, len)
        /\ wire' = SubSeq(wire, len + 1, Len(wire))
        /\ phase' = "dispatch"
        /\ UNCHANGED recvErr
     \/ /\ len > 0 /\ Len(wire) < len
        /\ wire' = << >>
        /\ phase' = "failed"
        /\ recvErr' = (peerEnd = "error")
        /\ UNCHANGED data
  /\ UNCHANGED << peerEnd, sent, val, result, bitpos, lenRaw, len, msgId, served >>

\* The request returned 0: esphome_rpc_service reads the next one.
Dispatch ==
  /\ phase = "dispatch"
  /\ phase' = "marker" /\ served' = TRUE
  /\ UNCHANGED << wire, peerEnd, sent, val, result, bitpos, lenRaw, len,
                  msgId, data, recvErr >>

\* A nonzero return: the socket is closed and the next peer accepted; the
\* request's locals are gone.
Close ==
  /\ phase \in {"nomem", "failed"}
  /\ phase' = "idle"
  /\ wire' = << >> /\ sent' = NoFrame
  /\ val' = 0 /\ result' = 0 /\ bitpos' = 0 /\ lenRaw' = 0 /\ len' = 0
  /\ msgId' = 0 /\ data' = << >> /\ recvErr' = FALSE /\ served' = FALSE
  /\ UNCHANGED peerEnd

Next ==
  \/ PeerWrite \/ PeerSendRaw
  \/ RecvMarker \/ RecvVarintByte \/ ReadPayload \/ Dispatch \/ Close

Spec == Init /\ [][Next]_vars

-----------------------------------------------------------------------------
(* Properties *)

\* Varint and header round trip (read_decode_varint against varint_encode,
\* esphome_read_header against esphome_encode_header): when the first
\* header a peer framed has been read, the decoded 64-bit length and the
\* type id are the ones it was framed with, over the whole 64-bit range of
\* lengths the hostile headers use.
HeaderRoundTrip ==
  (sent # NoFrame /\ ~served /\ phase \in {"payload", "dispatch"})
    => lenRaw = sent.len /\ msgId = sent.rpc_id

\* A frame laid out by a <Message>Write function (header at out, message
\* packed at out + esphome_header_size) reaches the dispatch switch of
\* esphome_read_request with its id and exactly its payload bytes, unless
\* the payload buffer could not be allocated.
WrittenFrameDispatched ==
  (sent # NoFrame /\ Len(sent.payload) = sent.len /\ ~served
     /\ phase \in {"dispatch", "failed"})
    => phase = "dispatch" /\ msgId = sent.rpc_id /\ data = sent.payload

\* A request is dispatched only when every recv that read it succeeded
\* (read_decode_varint does not check for a negative recv result).
RecvErrorNeverDispatched ==
  phase = "dispatch" => ~recvErr
====
