------------------------- MODULE OtaTransferProofs -------------------------
(***************************************************************************)
(* Proofs about OtaTransfer: the CHUNK_OK count of esphome_ota_run is     *)
(* exact for every chunk size, block size, byte width and slot size with  *)
(* room for two blocks of size_t headroom.                                *)
(***************************************************************************)
EXTENDS OtaTransfer, SequenceTheorems, TLAPS

USE OtaAssumption

\* Floor division: the quotient times the divisor does not pass the dividend.
LEMMA FloorMul ==
  ASSUME NEW a \in Nat, NEW b \in Nat \ {0}
  PROVE  /\ (a \div b) \in Nat
         /\ (a \div b) * b <= a
         /\ a < (a \div b) * b + b
  OBVIOUS

\* k blocks fit in a bytes exactly when k is at most a \div b.
LEMMA FloorLe ==
  ASSUME NEW a \in Nat, NEW b \in Nat \ {0}, NEW k \in Nat
  PROVE  k * b <= a <=> k <= a \div b
<1>1. (a \div b) * b <= a /\ a < (a \div b) * b + b
  BY FloorMul
<1>2. k <= a \div b => k * b <= (a \div b) * b
  BY SMT
<1>3. k * b <= a => k <= a \div b
  <2> SUFFICES ASSUME k * b <= a, k > a \div b PROVE FALSE
    OBVIOUS
  <2>1. k >= (a \div b) + 1
    BY FloorMul
  <2>2. k * b >= (a \div b) * b + b
    BY <2>1, SMT
  <2> QED
    BY <1>1, <2>2
<1> QED
  BY <1>1, <1>2, <1>3
\* Multiplying by a natural keeps the order.
LEMMA MulMono ==
  ASSUME NEW x \in Nat, NEW y \in Nat, NEW b \in Nat, x <= y
  PROVE  x * b <= y * b
<1>1. (y - x) * b \in Nat
  BY SMT
<1>2. y * b = x * b + (y - x) * b
  BY SMT
<1> QED
  BY <1>1, <1>2, SMT

\* size_t wraps at a positive number.
LEMMA WrapType == Wrap \in Nat \ {0} /\ Wrap >= 2
  BY SMT DEF Wrap
-----------------------------------------------------------------------------
(* The inductive invariant.                                                *)

\* The CHUNK_OK bytes due, once the acknowledgement loop has run dry, when
\* t of n bytes are in.
Due(t, n) == IF t = n THEN CeilDiv(n, Block) ELSE t \div Block

\* The steps before the chunk loop, and after it.
PreData == {"magic", "version", "features", "authOk", "size", "prepareOk", "md5"}
AfterData == {"endOk", "finalAck"}

\* The bytes received on a connection are among those the flash context
\* took, and the context never passes the slot; before the chunk loop
\* nothing is counted; in and after it, size_acknowledged is the CHUNK_OK
\* bytes sent, in blocks, and never passes what is due.
IInv ==
  /\ TypeOK
  /\ Len(slot) <= SlotSize
  /\ total <= Len(slot)
  /\ pc \in PreData => total = 0 /\ acks = 0 /\ sizeAck = 0
  /\ pc \in {"data"} \cup AfterData =>
       /\ total <= otaSize
       /\ acks <= Due(total, otaSize)
       /\ sizeAck = acks * Block
       /\ pc \in AfterData => total = otaSize /\ acks = Due(total, otaSize)

\* The bytes this connection has sent in the chunk loop are the last ones
\* the flash context wrote, in order: whatever an earlier connection left
\* in the slot lies in front of them.
SlotTail == \A i \in 1 .. total : slot[Len(slot) - total + i] = <<conns, i>>

\* What is due is a whole number of blocks, short of the bytes in by less
\* than a block.
LEMMA DueType ==
  ASSUME NEW t \in Nat, NEW n \in Nat
  PROVE  /\ Due(t, n) \in Nat
         /\ Due(t, n) * Block <= t + Block - 1
<1>1. CASE t = n
  <2>1. Due(t, n) = (t + Block - 1) \div Block
    BY <1>1 DEF Due, CeilDiv
  <2> QED
    BY <2>1, FloorMul
<1>2. CASE t # n
  <2>1. Due(t, n) = t \div Block
    BY <1>2 DEF Due
  <2> QED
    BY <2>1, FloorMul
<1> QED
  BY <1>1, <1>2

\* Receiving more of the image never lowers what is due.
LEMMA DueMono ==
  ASSUME NEW t \in Nat, NEW u \in Nat, NEW n \in Nat, t < n, t <= u, u <= n
  PROVE  Due(t, n) <= Due(u, n)
<1>1. Due(t, n) = t \div Block /\ (t \div Block) \in Nat /\ (t \div Block) * Block <= t
  BY FloorMul DEF Due
<1>2. CASE u = n
  <2>1. (t \div Block) * Block <= n + Block - 1
    BY <1>1, <1>2
  <2> QED
    BY <1>1, <1>2, <2>1, FloorLe DEF Due, CeilDiv
<1>3. CASE u # n
  <2> QED
    BY <1>1, <1>3, FloorLe DEF Due
<1> QED
  BY <1>2, <1>3

\* In and after the chunk loop, the blocks acknowledged and one more still
\* fit in a size_t: the slot leaves two blocks of headroom.
LEMMA AckBound ==
  ASSUME IInv, pc \in {"data"} \cup AfterData
  PROVE  /\ acks * Block + Block < Wrap
         /\ AddSize(sizeAck, Block) = acks * Block + Block
<1>1. TypeOK /\ total <= SlotSize /\ acks <= Due(total, otaSize) /\ sizeAck = acks * Block
  BY DEF IInv, AfterData, TypeOK
<1>2. total \in Nat /\ otaSize \in Nat /\ acks \in Nat
  BY <1>1 DEF TypeOK
<1>3. Due(total, otaSize) \in Nat /\ Due(total, otaSize) * Block <= total + Block - 1
  BY <1>2, DueType
<1>4. acks * Block <= Due(total, otaSize) * Block
  BY <1>1, <1>2, <1>3, MulMono
<1>5. acks * Block + Block < Wrap
  BY <1>1, <1>2, <1>3, <1>4, WrapType
<1> QED
  BY <1>1, <1>2, <1>5, WrapType DEF AddSize

\* In the chunk loop, a CHUNK_OK is due exactly when fewer than the due
\* number have been sent.
LEMMA AckDueIff ==
  ASSUME IInv, pc = "data"
  PROVE  AckDue <=> acks < Due(total, otaSize)
<1>1. TypeOK /\ total <= otaSize /\ AddSize(sizeAck, Block) = acks * Block + Block
       /\ sizeAck = acks * Block
  BY AckBound DEF IInv, AfterData
<1>2. total \in Nat /\ otaSize \in Nat /\ acks \in Nat
  BY <1>1 DEF TypeOK
<1>5. (acks + 1) * Block = acks * Block + Block
  BY <1>2
<1>3. CASE total # otaSize
  <2>1. AckDue <=> (acks + 1) * Block <= total
    BY <1>1, <1>3, <1>5 DEF AckDue
  <2>2. (acks + 1) * Block <= total <=> acks + 1 <= total \div Block
    BY <1>2, FloorLe
  <2> QED
    BY <2>1, <2>2, <1>2, <1>3 DEF Due
<1>4. CASE total = otaSize
  <2>1. AckDue <=> acks * Block < total
    BY <1>1, <1>2, <1>4 DEF AckDue
  <2>2. acks * Block < total <=> (acks + 1) * Block <= total + Block - 1
    BY <1>2, <1>5
  <2>3. (acks + 1) * Block <= total + Block - 1 <=> acks + 1 <= (total + Block - 1) \div Block
    BY <1>2, FloorLe
  <2> QED
    BY <2>1, <2>2, <2>3, <1>2, <1>4 DEF Due, CeilDiv
<1> QED
  BY <1>3, <1>4
-----------------------------------------------------------------------------
(* One lemma per action.                                                   *)

LEMMA InitIInv == Init => IInv
<1> SUFFICES ASSUME Init PROVE IInv
  OBVIOUS
<1>1. client \in Clients
  BY DEF Init, Clients
<1>2. slot \in Seq(Bytes)
  BY DEF Init
<1>3. 0 \in 0 .. Wrap - 1 /\ 0 \in 0 .. MaxConns /\ 0 \in 0 .. MaxResets /\ 0 \in Nat
  BY WrapType
<1>4. pc \in Steps /\ peer \in {"up", "gone"} /\ upgrade \in BOOLEAN
  BY DEF Init, Steps, ServiceStart
<1>5. TypeOK
  BY <1>1, <1>2, <1>3, <1>4 DEF Init, TypeOK
<1> QED
  BY <1>5 DEF Init, IInv, ServiceStart, PreData, AfterData

\* esphome_ota_run returns an error: nothing the invariant counts moves.
LEMMA FailIInv ==
  ASSUME IInv, pc' = "listen",
         UNCHANGED <<conns, resets, peer, client, otaSize, total, sizeAck, acks, slot, upgrade>>
  PROVE  IInv'
BY DEF IInv, TypeOK, Steps, PreData, AfterData

\* The device boots: the counters and the flash context start over.
LEMMA BootIInv ==
  ASSUME IInv, Boot, UNCHANGED <<conns, peer, client, otaSize>>,
         resets' \in 0 .. MaxResets
  PROVE  IInv'
<1>1. 0 \in 0 .. Wrap - 1 /\ 0 \in Nat /\ <<>> \in Seq(Bytes)
  BY WrapType
<1>2. pc' \in Steps /\ upgrade' \in BOOLEAN
  BY DEF Boot, Steps, ServiceStart
<1>3. TypeOK'
  BY <1>1, <1>2 DEF Boot, IInv, TypeOK
<1> QED
  BY <1>3 DEF Boot, IInv, ServiceStart, PreData, AfterData

\* A handshake step moves on, into the chunk loop at the latest, or fails.
LEMMA StepIInv ==
  ASSUME IInv, NEW from \in PreData, NEW to \in PreData \cup {"data"},
         NEW ok \in BOOLEAN, Step(from, to, ok)
  PROVE  IInv'
<1>1. CASE ~ok
  BY <1>1, FailIInv DEF Step
<1>2. CASE ok
  <2>1. pc' = to /\ pc = from
    BY <1>2 DEF Step
  <2>2. UNCHANGED <<conns, resets, peer, client, otaSize, total, sizeAck, acks, slot, upgrade>>
    BY DEF Step
  <2>3. total = 0 /\ acks = 0 /\ sizeAck = 0 /\ otaSize \in Nat
    BY <2>1 DEF IInv, TypeOK
  <2>4. Due(0, otaSize) \in Nat
    BY <2>3, DueType
  <2>5. TypeOK'
    BY <2>1, <2>2 DEF IInv, TypeOK, Steps, PreData
  <2> QED
    BY <2>1, <2>2, <2>3, <2>4, <2>5 DEF IInv, PreData, AfterData
<1> QED
  BY <1>1, <1>2

LEMMA AcceptIInv ==
  ASSUME IInv, Accept
  PROVE  IInv'
<1>1. TypeOK'
  BY WrapType DEF Accept, IInv, TypeOK, Steps
<1> QED
  BY <1>1 DEF Accept, IInv, PreData, AfterData

\* Four shifts in size_t leave a size_t.
LEMMA DecodeSizeType ==
  ASSUME NEW n \in Nat
  PROVE  DecodeSize(SizeField(n)) \in 0 .. Wrap - 1
<1> DEFINE f == SizeField(n)
<1>2. f[1] \in Int /\ f[2] \in Int /\ f[3] \in Int /\ f[4] \in Int
  BY DEF SizeField
<1>3. ShiftIn(0, f[1]) \in 0 .. Wrap - 1
  BY <1>2, WrapType DEF ShiftIn
<1>4. ShiftIn(ShiftIn(0, f[1]), f[2]) \in 0 .. Wrap - 1
  BY <1>2, <1>3, WrapType DEF ShiftIn
<1>5. ShiftIn(ShiftIn(ShiftIn(0, f[1]), f[2]), f[3]) \in 0 .. Wrap - 1
  BY <1>2, <1>4, WrapType DEF ShiftIn
<1> QED
  BY <1>2, <1>5, WrapType DEF DecodeSize, ShiftIn

LEMMA ReadSizeIInv ==
  ASSUME IInv, ReadSize
  PROVE  IInv'
<1>1. client.size \in Nat
  BY DEF IInv, TypeOK, Clients
<1>2. CASE RecvOk
  <2>1. pc' = "prepareOk" /\ otaSize' = DecodeSize(SizeField(client.size))
    BY <1>2 DEF ReadSize
  <2>2. otaSize' \in 0 .. Wrap - 1
    BY <1>1, <2>1, DecodeSizeType
  <2>3. pc = "size"
    BY DEF ReadSize
  <2> QED
    BY <2>1, <2>2, <2>3 DEF ReadSize, IInv, TypeOK, Steps, PreData, AfterData
<1>3. CASE ~RecvOk
  BY <1>3, FailIInv DEF ReadSize, Fail
<1> QED
  BY <1>2, <1>3
\* A size_t sum that stays below Wrap is the plain sum.
LEMMA ModId ==
  ASSUME NEW x \in 0 .. Wrap - 1
  PROVE  x % Wrap = x
BY WrapType

\* The chunk read is a whole, non-empty part of what is still to come.
LEMMA RequestedRange ==
  ASSUME TypeOK, total < otaSize
  PROVE  Requested \in 1 .. Chunk /\ total + Requested <= otaSize
BY DEF TypeOK, Requested

\* The bytes of a chunk are bytes of the image, as many as were requested.
LEMMA ChunkData ==
  ASSUME TypeOK, total < otaSize
  PROVE  LET data == SubSeq(Image(conns, otaSize), total + 1, total + Requested)
         IN  data \in Seq(Bytes) /\ Len(data) = Requested
<1>1. Requested \in 1 .. Chunk /\ total + Requested <= otaSize
  BY RequestedRange
<1>2. conns \in Nat /\ total \in Nat /\ otaSize \in Nat
  BY DEF TypeOK
<1>3. \A i \in (total + 1) .. (total + Requested) : Image(conns, otaSize)[i] \in Bytes
  BY <1>1, <1>2 DEF Image, Bytes
<1> QED
  BY <1>1, <1>2, <1>3, SubSeqProperties

LEMMA ReadChunkIInv ==
  ASSUME IInv, ReadChunk
  PROVE  IInv'
<1> DEFINE data == SubSeq(Image(conns, otaSize), total + 1, total + Requested)
<1>1. pc = "data" /\ ~AckDue /\ total < otaSize /\ TypeOK
  BY DEF ReadChunk, IInv
<1>2. UNCHANGED <<conns, resets, peer, client, otaSize, sizeAck, acks, upgrade>>
  BY DEF ReadChunk
<1>3. \/ pc' = "listen" /\ total' = total /\ slot' = slot
      \/ /\ Len(slot) + Requested <= SlotSize
         /\ slot' = slot \o data
         /\ total' = AddSize(total, Requested)
         /\ pc' = pc
  BY DEF ReadChunk, Fail, FlashWrite
<1>4. CASE pc' = "listen" /\ total' = total /\ slot' = slot
  BY <1>2, <1>4, FailIInv
<1>5. CASE /\ Len(slot) + Requested <= SlotSize
           /\ slot' = slot \o data
           /\ total' = AddSize(total, Requested)
           /\ pc' = pc
  <2>1. Requested \in 1 .. Chunk /\ total + Requested <= otaSize
    BY <1>1, RequestedRange
  <2>2. data \in Seq(Bytes) /\ Len(data) = Requested
    BY <1>1, ChunkData
  <2>3. slot \in Seq(Bytes) /\ total \in Nat /\ otaSize \in Nat /\ acks \in Nat
        /\ total <= Len(slot) /\ Len(slot) \in Nat /\ Len(slot) <= SlotSize
    BY <1>1 DEF IInv, TypeOK
  <2>4. slot' \in Seq(Bytes) /\ Len(slot') = Len(slot) + Requested
    BY <1>5, <2>2, <2>3, ConcatProperties
  <2>5. total' = total + Requested
    <3>1. total + Requested \in 0 .. Wrap - 1
      BY <1>5, <2>1, <2>3, WrapType
    <3> QED
      BY <1>5, <3>1, ModId DEF AddSize
  <2>6. acks = Due(total, otaSize)
    <3>1. acks <= Due(total, otaSize) /\ Due(total, otaSize) \in Nat
      BY <1>1, <2>3, DueType DEF IInv
    <3>2. ~(acks < Due(total, otaSize))
      BY <1>1, AckDueIff
    <3> QED
      BY <2>3, <3>1, <3>2
  <2>7. Due(total, otaSize) <= Due(total', otaSize)
    BY <2>1, <2>3, <2>5, DueMono
  <2>8. total' \in 0 .. Wrap - 1
    BY <1>5, <2>1, <2>3, <2>5, WrapType
  <2>9. TypeOK'
    BY <1>1, <1>2, <1>5, <2>4, <2>8 DEF TypeOK
  <2>10. Len(slot') <= SlotSize /\ total' <= Len(slot')
    BY <1>5, <2>3, <2>4, <2>5
  <2>11. sizeAck = acks * Block
    BY <1>1 DEF IInv
  <2>12. /\ total' <= otaSize'
         /\ acks' <= Due(total', otaSize')
         /\ sizeAck' = acks' * Block
    BY <1>2, <2>1, <2>5, <2>6, <2>7, <2>11
  <2> QED
    BY <1>1, <1>5, <2>9, <2>10, <2>12 DEF IInv, PreData, AfterData
<1> QED
  BY <1>3, <1>4, <1>5
LEMMA SendChunkOkIInv ==
  ASSUME IInv, SendChunkOk
  PROVE  IInv'
<1>1. pc = "data" /\ AckDue /\ TypeOK
  BY DEF SendChunkOk, IInv
<1>2. UNCHANGED <<conns, resets, peer, client, otaSize, total, slot, upgrade>>
  BY DEF SendChunkOk
<1>3. \/ pc' = "listen" /\ acks' = acks /\ sizeAck' = sizeAck
      \/ acks' = acks + 1 /\ sizeAck' = AddSize(sizeAck, Block) /\ pc' = pc
  BY DEF SendChunkOk, Fail
<1>4. CASE pc' = "listen" /\ acks' = acks /\ sizeAck' = sizeAck
  BY <1>2, <1>4, FailIInv
<1>5. CASE acks' = acks + 1 /\ sizeAck' = AddSize(sizeAck, Block) /\ pc' = pc
  <2>1. acks < Due(total, otaSize)
    BY <1>1, AckDueIff
  <2>2. acks * Block + Block < Wrap /\ AddSize(sizeAck, Block) = acks * Block + Block
    BY <1>1, AckBound
  <2>3. acks \in Nat /\ total \in Nat /\ otaSize \in Nat
    BY <1>1 DEF TypeOK
  <2>4. Due(total, otaSize) \in Nat
    BY <2>3, DueType
  <2>5. sizeAck' = acks' * Block /\ sizeAck' \in 0 .. Wrap - 1 /\ acks' \in Nat
    <3>1. (acks + 1) * Block = acks * Block + Block /\ acks * Block \in Nat
      BY <2>3
    <3> QED
      BY <1>5, <2>2, <2>3, <3>1, WrapType
  <2>6. acks' <= Due(total', otaSize')
    BY <1>2, <1>5, <2>1, <2>3, <2>4
  <2>7. TypeOK'
    BY <1>1, <1>2, <1>5, <2>5 DEF TypeOK
  <2> QED
    BY <1>1, <1>2, <1>5, <2>5, <2>6, <2>7 DEF IInv, PreData, AfterData
<1> QED
  BY <1>3, <1>4, <1>5

LEMMA SendReceiveOkIInv ==
  ASSUME IInv, SendReceiveOk
  PROVE  IInv'
<1>1. pc = "data" /\ ~AckDue /\ total >= otaSize /\ TypeOK
  BY DEF SendReceiveOk, IInv
<1>2. UNCHANGED <<conns, resets, peer, client, otaSize, total, sizeAck, acks, slot, upgrade>>
  BY DEF SendReceiveOk
<1>3. pc' \in {"endOk", "listen"}
  BY DEF SendReceiveOk
<1>4. CASE pc' = "listen"
  BY <1>2, <1>4, FailIInv
<1>5. CASE pc' = "endOk"
  <2>1. total = otaSize
    BY <1>1 DEF IInv, TypeOK
  <2>2. acks = Due(total, otaSize)
    <3>1. acks <= Due(total, otaSize) /\ Due(total, otaSize) \in Nat /\ acks \in Nat
      BY <1>1, DueType DEF IInv, TypeOK
    <3>2. ~(acks < Due(total, otaSize))
      BY <1>1, AckDueIff
    <3> QED
      BY <3>1, <3>2
  <2>3. TypeOK'
    BY <1>1, <1>2, <1>5 DEF TypeOK, Steps
  <2> QED
    BY <1>1, <1>2, <1>5, <2>1, <2>2, <2>3 DEF IInv, PreData, AfterData
<1> QED
  BY <1>3, <1>4, <1>5

LEMMA RequestUpgradeIInv ==
  ASSUME IInv, RequestUpgrade
  PROVE  IInv'
<1>1. pc = "endOk" /\ pc' \in {"finalAck", "listen"} /\ upgrade' = TRUE
  BY DEF RequestUpgrade
<1>2. UNCHANGED <<conns, resets, peer, client, otaSize, total, sizeAck, acks, slot>>
  BY DEF RequestUpgrade
<1>3. TypeOK'
  BY <1>1, <1>2 DEF IInv, TypeOK, Steps
<1> QED
  BY <1>1, <1>2, <1>3 DEF IInv, PreData, AfterData

LEMMA ReadFinalAckIInv ==
  ASSUME IInv, ReadFinalAck
  PROVE  IInv'
<1>1. CASE RecvOk /\ client.ackOk
  <2>1. Boot /\ UNCHANGED <<conns, resets, peer, client, otaSize>>
    BY <1>1 DEF ReadFinalAck
  <2>2. resets' \in 0 .. MaxResets
    BY <2>1 DEF IInv, TypeOK
  <2> QED
    BY <2>1, <2>2, BootIInv
<1>2. CASE ~(RecvOk /\ client.ackOk)
  BY <1>2, FailIInv DEF ReadFinalAck, Fail
<1> QED
  BY <1>1, <1>2

LEMMA ClientDropIInv ==
  ASSUME IInv, ClientDrop
  PROVE  IInv'
BY DEF ClientDrop, IInv, TypeOK, PreData, AfterData

LEMMA DeviceResetIInv ==
  ASSUME IInv, DeviceReset
  PROVE  IInv'
<1>1. resets' \in 0 .. MaxResets
  BY DEF DeviceReset, IInv, TypeOK
<1> QED
  BY <1>1, BootIInv DEF DeviceReset
-----------------------------------------------------------------------------
(* The slot ends with what this connection sent.                           *)

\* The k-th byte of a chunk is the byte of the image that follows the
\* total already in by k.
LEMMA ChunkBytes ==
  ASSUME TypeOK, total < otaSize
  PROVE  \A k \in 1 .. Requested :
           SubSeq(Image(conns, otaSize), total + 1, total + Requested)[k] = <<conns, total + k>>
<1>1. Requested \in 1 .. Chunk /\ total + Requested <= otaSize
  BY RequestedRange
<1>2. conns \in Nat /\ total \in Nat /\ otaSize \in Nat
  BY DEF TypeOK
<1>3. \A i \in (total + 1) .. (total + Requested) : Image(conns, otaSize)[i] \in Bytes
  BY <1>1, <1>2 DEF Image, Bytes
<1>4. \A k \in 1 .. (total + Requested) - (total + 1) + 1 :
        SubSeq(Image(conns, otaSize), total + 1, total + Requested)[k]
          = Image(conns, otaSize)[(total + 1) + k - 1]
  BY <1>1, <1>2, <1>3, SubSeqProperties
<1> QED
  BY <1>1, <1>2, <1>4 DEF Image

LEMMA ReadChunkTail ==
  ASSUME IInv, SlotTail, ReadChunk
  PROVE  SlotTail'
<1> DEFINE data == SubSeq(Image(conns, otaSize), total + 1, total + Requested)
<1>1. pc = "data" /\ total < otaSize /\ TypeOK /\ conns' = conns
  BY DEF ReadChunk, IInv
<1>2. \/ total' = total /\ slot' = slot
      \/ slot' = slot \o data /\ total' = AddSize(total, Requested)
  BY DEF ReadChunk, Fail, FlashWrite
<1>3. CASE total' = total /\ slot' = slot
  BY <1>1, <1>3 DEF SlotTail
<1>4. CASE slot' = slot \o data /\ total' = AddSize(total, Requested)
  <2>1. Requested \in 1 .. Chunk /\ total + Requested <= otaSize
    BY <1>1, RequestedRange
  <2>2. data \in Seq(Bytes) /\ Len(data) = Requested
    BY <1>1, ChunkData
  <2>3. slot \in Seq(Bytes) /\ total \in Nat /\ total <= Len(slot) /\ Len(slot) \in Nat
    BY <1>1 DEF IInv, TypeOK
  <2>4. total' = total + Requested
    <3>1. total + Requested \in 0 .. Wrap - 1
      BY <1>1, <2>1, <2>3, WrapType DEF TypeOK
    <3> QED
      BY <1>4, <3>1, ModId DEF AddSize
  <2>5. /\ Len(slot') = Len(slot) + Requested
        /\ \A j \in 1 .. Len(slot) + Requested :
             slot'[j] = IF j <= Len(slot) THEN slot[j] ELSE data[j - Len(slot)]
    BY <1>4, <2>2, <2>3, ConcatProperties
  <2>6. \A k \in 1 .. Requested : data[k] = <<conns, total + k>>
    BY <1>1, ChunkBytes
  <2> SUFFICES ASSUME NEW i \in 1 .. total'
               PROVE  slot'[Len(slot') - total' + i] = <<conns', i>>
    BY DEF SlotTail
  <2>7. Len(slot') - total' + i = Len(slot) - total + i
    BY <2>1, <2>3, <2>4, <2>5
  <2>8. CASE i <= total
    <3>1. Len(slot) - total + i \in 1 .. Len(slot)
      BY <2>3, <2>8
    <3>2. slot[Len(slot) - total + i] = <<conns, i>>
      BY <2>8, <2>3 DEF SlotTail
    <3> QED
      BY <1>1, <2>1, <2>5, <2>7, <3>1, <3>2
  <2>9. CASE i > total
    <3>1. i - total \in 1 .. Requested /\ Len(slot) - total + i \in 1 .. Len(slot) + Requested
      BY <2>1, <2>3, <2>4, <2>9
    <3>2. ~(Len(slot) - total + i <= Len(slot)) /\ (Len(slot) - total + i) - Len(slot) = i - total
      BY <2>3, <2>9
    <3>3. slot'[Len(slot) - total + i] = data[i - total]
      BY <2>5, <3>1, <3>2
    <3>4. data[i - total] = <<conns, total + (i - total)>>
      BY <2>6, <3>1
    <3>5. total + (i - total) = i
      BY <2>3
    <3> QED
      BY <1>1, <2>7, <3>3, <3>4, <3>5
  <2> QED
    BY <2>8, <2>9, <2>3
<1> QED
  BY <1>2, <1>3, <1>4

\* Every step keeps the slot's tail: the steps that count no bytes leave
\* slot, total and the connection alone, a new connection and a boot start
\* with nothing in, and a chunk goes to the slot as it came.
LEMMA NextTail ==
  ASSUME IInv, SlotTail, [Next]_vars
  PROVE  SlotTail'
<1>1. ASSUME UNCHANGED <<total, slot, conns>> PROVE SlotTail'
  BY <1>1 DEF SlotTail
<1>2. ASSUME total' = 0 PROVE SlotTail'
  BY <1>2 DEF SlotTail
<1>3. ASSUME NEW from, NEW to, NEW ok, Step(from, to, ok) PROVE SlotTail'
  BY <1>3, <1>1 DEF Step
<1>4. CASE ReadChunk
  BY <1>4, ReadChunkTail
<1>5. CASE Accept \/ DeviceReset
  BY <1>5, <1>2 DEF Accept, DeviceReset, Boot
<1>6. CASE ReadFinalAck
  BY <1>6, <1>1, <1>2 DEF ReadFinalAck, Boot, Fail
<1>7. CASE ReadMagic \/ SendVersion \/ ReadFeatures \/ SendAuthOk \/ SendPrepareOk \/ ReadMd5
  BY <1>7, <1>3 DEF ReadMagic, SendVersion, ReadFeatures, SendAuthOk, SendPrepareOk, ReadMd5
<1>8. CASE ReadSize \/ SendChunkOk \/ SendReceiveOk \/ RequestUpgrade \/ ClientDrop
  BY <1>8, <1>1 DEF ReadSize, SendChunkOk, SendReceiveOk, RequestUpgrade, ClientDrop
<1>9. CASE UNCHANGED vars
  BY <1>9, <1>1 DEF vars
<1> QED
  BY <1>4, <1>5, <1>6, <1>7, <1>8, <1>9 DEF Next, OtaThread

-----------------------------------------------------------------------------
(* The invariant and the theorems.                                         *)

LEMMA NextIInv ==
  ASSUME IInv, [Next]_vars
  PROVE  IInv'
<1>1. CASE ReadMagic
  <2>1. "magic" \in PreData /\ "version" \in PreData
    BY DEF PreData
  <2> QED
    BY <1>1, <2>1, StepIInv DEF ReadMagic
<1>0. SendOutcomes \subseteq BOOLEAN /\ RecvOk \in BOOLEAN
  BY DEF SendOutcomes, RecvOk
<1>4. CASE SendVersion
  <2>1. PICK ok \in SendOutcomes : Step("version", "features", ok)
    BY <1>4 DEF SendVersion
  <2> QED
    BY <1>0, <2>1, StepIInv DEF PreData
<1>5. CASE ReadFeatures
  <2>1. PICK ok \in SendOutcomes : Step("features", "authOk", RecvOk /\ ok)
    BY <1>5 DEF ReadFeatures
  <2> QED
    BY <1>0, <2>1, StepIInv DEF PreData
<1>6. CASE SendAuthOk
  <2>1. PICK ok \in SendOutcomes : Step("authOk", "size", ok)
    BY <1>6 DEF SendAuthOk
  <2> QED
    BY <1>0, <2>1, StepIInv DEF PreData
<1>7. CASE SendPrepareOk
  <2>1. PICK ok \in SendOutcomes : Step("prepareOk", "md5", ok)
    BY <1>7 DEF SendPrepareOk
  <2> QED
    BY <1>0, <2>1, StepIInv DEF PreData
<1>8. CASE ReadMd5
  <2>1. PICK ok \in SendOutcomes : Step("md5", "data", RecvOk /\ ok)
    BY <1>8 DEF ReadMd5
  <2> QED
    BY <1>0, <2>1, StepIInv DEF PreData
<1>3. CASE UNCHANGED vars
  BY <1>3 DEF vars, IInv, TypeOK, PreData, AfterData, Due
<1> QED
  BY <1>1, <1>3, <1>4, <1>5, <1>6, <1>7, <1>8, AcceptIInv, ReadSizeIInv, ReadChunkIInv, SendChunkOkIInv,
     SendReceiveOkIInv, RequestUpgradeIInv, ReadFinalAckIInv, ClientDropIInv,
     DeviceResetIInv DEF Next, OtaThread

\* The CHUNK_OK bytes esphome_ota_run sends are exactly the blocks the
\* uploading tool waits for, for every chunk size, block size, byte width
\* and slot size that leaves two blocks of size_t headroom: the
\* acknowledgement loop never sends one early, never misses the last,
\* partial block, and never wraps.
THEOREM AcksExact == Spec => []AcksMatchBlocks
<1>1. IInv => AcksMatchBlocks
  <2> SUFFICES ASSUME IInv, pc \in {"endOk", "finalAck"} \/ (pc = "data" /\ ~AckDue)
               PROVE  acks = Due(total, otaSize)
    BY DEF AcksMatchBlocks, Due
  <2>1. CASE pc \in {"endOk", "finalAck"}
    BY <2>1 DEF IInv, AfterData
  <2>2. CASE pc = "data" /\ ~AckDue
    <3>1. acks <= Due(total, otaSize) /\ acks \in Nat /\ total \in Nat /\ otaSize \in Nat
      BY <2>2 DEF IInv, TypeOK
    <3>2. Due(total, otaSize) \in Nat
      BY <3>1, DueType
    <3>3. ~(acks < Due(total, otaSize))
      BY <2>2, AckDueIff
    <3> QED
      BY <3>1, <3>2, <3>3
  <2> QED
    BY <2>1, <2>2
<1> QED
  BY <1>1, InitIInv, NextIInv, PTL DEF Spec

\* Every reachable state of the OTA service is well typed: in particular
\* ota_size, total and size_acknowledged stay size_t values.
THEOREM OtaTypeCorrect == Spec => []TypeOK
<1>1. IInv => TypeOK
  BY DEF IInv
<1> QED
  BY <1>1, InitIInv, NextIInv, PTL DEF Spec

\* boot_request_upgrade marks a slot whose last ota_size bytes are, in
\* order, every byte of the image this connection sent, for every chunk,
\* block, byte width and slot size: the chunk loop hands each chunk to
\* flash_img_buffered_write exactly once and skips none (what an earlier,
\* aborted connection left in front of them is ota_stale_context's finding).
THEOREM UpgradeImage == Spec => UpgradeSlotEndsWithImage
<1>1. Init => IInv /\ SlotTail
  BY InitIInv DEF Init, SlotTail
<1>2. IInv /\ SlotTail /\ [Next]_vars => (IInv /\ SlotTail)'
  BY NextIInv, NextTail
<1>3. IInv /\ SlotTail /\ [Next]_vars
        => [RequestUpgrade =>
              /\ otaSize <= Len(slot)
              /\ \A i \in 1 .. otaSize :
                   slot[Len(slot) - otaSize + i] = Image(conns, otaSize)[i]]_vars
  <2> SUFFICES ASSUME IInv, SlotTail, RequestUpgrade
               PROVE  /\ otaSize <= Len(slot)
                      /\ \A i \in 1 .. otaSize :
                           slot[Len(slot) - otaSize + i] = Image(conns, otaSize)[i]
    OBVIOUS
  <2>1. pc = "endOk"
    BY DEF RequestUpgrade
  <2>2. total = otaSize /\ total <= Len(slot)
    BY <2>1 DEF IInv, AfterData
  <2> QED
    BY <2>2 DEF SlotTail, Image
<1> QED
  BY <1>1, <1>2, <1>3, PTL DEF Spec, UpgradeSlotEndsWithImage
====
