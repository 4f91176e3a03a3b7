---------------------------- MODULE OtaTransfer ----------------------------
(***************************************************************************)
(* The OTA update service of components/ota/esphome_ota.c: the OTA thread *)
(* accepts one connection at a time and runs esphome_ota_run on it, with   *)
(* the flash_img_context that esphome_ota_service initialised once, before *)
(* its accept loop.  The uploading tool is the environment: it sends what  *)
(* the protocol asks for, may send a wrong magic or a wrong final ack, and *)
(* may drop the connection at any moment.  The device may also reset at   *)
(* any moment (power loss, watchdog).                                      *)
(*                                                                         *)
(* Sizes are scaled: Chunk stands for sizeof(buf) = 1024 bytes, Block for *)
(* OTA_BLOCK_SIZE = 8192, and a byte holds Radix values (256 on the       *)
(* device), so that size_t, 4 bytes wide, computes modulo Wrap = Radix^4. *)
(* A byte of the image sent on connection c at position i is <<c, i>>.    *)
(***************************************************************************)
EXTENDS Integers, Sequences

CONSTANTS
  Chunk,      \* sizeof(buf) in esphome_ota_run
  Block,      \* OTA_BLOCK_SIZE
  Radix,      \* values of a byte
  SlotSize,   \* bytes of the image slot flash_img_init opens
  MaxSize,    \* largest size a client announces (the 4-byte field is < Wrap)
  MaxConns,   \* bound: connections accepted
  MaxResets   \* bound: device resets outside sys_reboot

\* size_t and the size field of the protocol are both 4 bytes wide.
Wrap == Radix * Radix * Radix * Radix

ASSUME OtaAssumption ==
  /\ Chunk \in Nat \ {0}
  /\ Block \in Nat \ {0}
  /\ Radix \in Nat \ {0, 1}
  /\ SlotSize \in Nat
  /\ SlotSize + 2 * Block <= Wrap   \* size_t is 32 bits; a slot is far below 4 GiB
  /\ MaxSize \in 0 .. Wrap - 1
  /\ MaxConns \in Nat
  /\ MaxResets \in Nat

\* The image a client uploads on connection c when it announces n bytes.
Image(c, n) == [i \in 1 .. n |-> <<c, i>>]

\* A byte of an image: the connection it came on and its position.
Bytes == Nat \X Nat

\* What a client does on its connection: the magic it sends, the size it
\* announces, and the byte it sends as the final ack.
Clients == [magicOk : BOOLEAN, size : 0 .. MaxSize, ackOk : BOOLEAN]

VARIABLES
  pc,        \* the OTA thread: "listen", "stopped", or the step of esphome_ota_run
  conns,     \* connections accepted
  resets,    \* resets other than sys_reboot
  peer,      \* the client's end: "up" or "gone"
  client,    \* what the current client sends
  otaSize,   \* ota_size
  total,     \* total
  sizeAck,   \* size_acknowledged
  acks,      \* OTA_RESPONSE_CHUNK_OK bytes sent on this connection
  slot,      \* the bytes the flash_img_context has written since flash_img_init
  upgrade    \* boot_request_upgrade has marked the slot for the next boot

vars == <<pc, conns, resets, peer, client, otaSize, total, sizeAck, acks, slot, upgrade>>

Steps == {"listen", "stopped", "magic", "version", "features", "authOk", "size", "prepareOk",
          "md5", "data", "endOk", "finalAck"}

TypeOK ==
  /\ pc \in Steps
  /\ conns \in 0 .. MaxConns
  /\ resets \in 0 .. MaxResets
  /\ peer \in {"up", "gone"}
  /\ client \in Clients
  /\ otaSize \in 0 .. Wrap - 1
  /\ total \in 0 .. Wrap - 1
  /\ sizeAck \in 0 .. Wrap - 1
  /\ acks \in Nat
  /\ slot \in Seq(Bytes)
  /\ upgrade \in BOOLEAN

\* esphome_ota_service: boot_write_img_confirmed, flash_img_init and the
\* socket, bind and listen calls; if any of them fails the thread returns.
ServiceStart == {"listen", "stopped"}

Init ==
  /\ pc \in ServiceStart
  /\ conns = 0
  /\ resets = 0
  /\ peer = "up"
  /\ client = [magicOk |-> TRUE, size |-> 0, ackOk |-> TRUE]
  /\ otaSize = 0
  /\ total = 0
  /\ sizeAck = 0
  /\ acks = 0
  /\ slot = <<>>
  /\ upgrade = FALSE

-----------------------------------------------------------------------------
(* Socket I/O.  A blocking recv of the bytes the protocol expects succeeds *)
(* while the client is there; a send to a client that is gone may fail or *)
(* still be accepted by the stack.                                        *)

RecvOk == peer = "up"
SendOutcomes == IF peer = "up" THEN {TRUE} ELSE BOOLEAN

\* esphome_ota_run returned an error: esphome_ota_service closes the socket
\* and accepts again.  The flash context is not reset.
Fail == pc' = "listen"

\* A step whose failure is retried rather than returned.
StepRetry(from, to, ok) ==
  /\ pc = from
  /\ pc' = IF ok THEN to ELSE from
  /\ UNCHANGED <<conns, resets, peer, client, otaSize, total, sizeAck, acks, slot, upgrade>>

\* One step of the protocol that succeeds or fails as a whole.
Step(from, to, ok) ==
  /\ pc = from
  /\ pc' = IF ok THEN to ELSE "listen"
  /\ UNCHANGED <<conns, resets, peer, client, otaSize, total, sizeAck, acks, slot, upgrade>>

\* size_t addition.
AddSize(a, b) == (a + b) % Wrap

-----------------------------------------------------------------------------
(* The OTA thread.                                                         *)

\* zsock_accept returns a connection; esphome_ota_run starts with a fresh
\* total and size_acknowledged but the service's one flash context.
Accept ==
  /\ pc = "listen"
  /\ conns < MaxConns
  /\ conns' = conns + 1
  /\ pc' = "magic"
  /\ peer' = "up"
  /\ client' \in Clients
  /\ total' = 0
  /\ sizeAck' = 0
  /\ acks' = 0
  /\ UNCHANGED <<resets, otaSize, slot, upgrade>>

\* esphome_ota_read_magic: a short read, or a mismatch answered with
\* OTA_RESPONSE_ERROR_MAGIC, is -EIO.
ReadMagic == Step("magic", "version", RecvOk /\ client.magicOk)

\* esphome_ota_send_version.
SendVersion == \E ok \in SendOutcomes : Step("version", "features", ok)

\* esphome_ota_read_features: read the feature byte, send HEADER_OK.
ReadFeatures == \E ok \in SendOutcomes : Step("features", "authOk", RecvOk /\ ok)

\* esphome_ota_send_auth_ok (no password is read).
SendAuthOk == \E ok \in SendOutcomes : Step("authOk", "size", ok)

\* The four bytes a client sends for a size: big endian (espota2 packs it
\* with '>L').
SizeField(n) ==
  << (n \div (Radix * Radix * Radix)) % Radix, (n \div (Radix * Radix)) % Radix,
     (n \div Radix) % Radix, n % Radix >>

\* One turn of the loop of esphome_ota_read_size: ota_size <<= 8, then
\* |= the byte, in size_t.
ShiftIn(v, byte) == (v * Radix + byte) % Wrap

\* The loop accumulating into an int: the result is read as signed.
DecodeSizeSigned(b) ==
  LET v == ShiftIn(ShiftIn(ShiftIn(ShiftIn(0, b[1]), b[2]), b[3]), b[4])
  IN IF v >= Wrap \div 2 THEN v - Wrap ELSE v

\* The four turns of the loop.
DecodeSize(b) == ShiftIn(ShiftIn(ShiftIn(ShiftIn(0, b[1]), b[2]), b[3]), b[4])

\* esphome_ota_read_size: four bytes, decoded; no check against the slot.
ReadSize ==
  /\ pc = "size"
  /\ IF RecvOk
     THEN pc' = "prepareOk" /\ otaSize' = DecodeSize(SizeField(client.size))
     ELSE Fail /\ UNCHANGED otaSize
  /\ UNCHANGED <<conns, resets, peer, client, total, sizeAck, acks, slot, upgrade>>

\* esphome_ota_send_prepare_ok.
SendPrepareOk == \E ok \in SendOutcomes : Step("prepareOk", "md5", ok)

\* esphome_ota_read_md5: 32 bytes, then BIN_MD5_OK; the digest is kept
\* nowhere.
ReadMd5 == \E ok \in SendOutcomes : Step("md5", "data", RecvOk /\ ok)

\* The acknowledgement loop with < for <=.
AckDueStrict ==
  \/ AddSize(sizeAck, Block) < total
  \/ total = otaSize /\ sizeAck < otaSize

\* The acknowledgement loop of esphome_ota_run is due to send a CHUNK_OK.
AckDue ==
  \/ AddSize(sizeAck, Block) <= total
  \/ total = otaSize /\ sizeAck < otaSize

\* MIN(sizeof(buf), ota_size - total).
Requested == IF Chunk < otaSize - total THEN Chunk ELSE otaSize - total

\* flash_img_buffered_write of the whole buffer instead of the bytes read:
\* the rest of buf (left from an earlier read) follows them.
FlashWriteWholeBuffer(s, bytes) ==
  s \o bytes \o [i \in 1 .. Chunk - Len(bytes) |-> <<0, 0>>]

\* flash_img_buffered_write(ctx, buf, requested, last): the bytes read
\* follow what the context has written since flash_img_init.
FlashWrite(s, bytes) == s \o bytes

\* One turn of while (total < ota_size): esphome_ota_read_data of the next
\* MIN(sizeof(buf), ota_size - total) bytes (a short read sends an error
\* byte and fails), flash_img_buffered_write of them at the context's
\* position (fails past the end of the slot, or on a flash error), then
\* total += requested.
ReadChunk ==
  /\ pc = "data"
  /\ ~AckDue
  /\ total < otaSize
  /\ LET requested == Requested
         data == SubSeq(Image(conns, otaSize), total + 1, total + requested)
     IN \/ /\ ~RecvOk
           /\ Fail
           /\ UNCHANGED <<total, slot>>
        \/ /\ RecvOk
           /\ Len(slot) + requested > SlotSize
           /\ Fail
           /\ UNCHANGED <<total, slot>>
        \/ /\ RecvOk
           /\ Len(slot) + requested <= SlotSize
           /\ \E flashOk \in BOOLEAN :
                IF flashOk
                THEN /\ slot' = FlashWrite(slot, data)
                     /\ total' = AddSize(total, requested)
                     /\ UNCHANGED pc
                ELSE Fail /\ UNCHANGED <<total, slot>>
  /\ UNCHANGED <<conns, resets, peer, client, otaSize, sizeAck, acks, upgrade>>

\* One turn of the inner while: send OTA_RESPONSE_CHUNK_OK and advance
\* size_acknowledged by a block.
SendChunkOk ==
  /\ pc = "data"
  /\ AckDue
  /\ \E ok \in SendOutcomes :
       IF ok
       THEN /\ acks' = acks + 1
            /\ sizeAck' = AddSize(sizeAck, Block)
            /\ UNCHANGED pc
       ELSE Fail /\ UNCHANGED <<acks, sizeAck>>
  /\ UNCHANGED <<conns, resets, peer, client, otaSize, total, slot, upgrade>>

\* The loop has ended: send OTA_RESPONSE_RECEIVE_OK.
SendReceiveOk ==
  /\ pc = "data"
  /\ ~AckDue
  /\ total >= otaSize
  /\ \E ok \in SendOutcomes : pc' = IF ok THEN "endOk" ELSE "listen"
  /\ UNCHANGED <<conns, resets, peer, client, otaSize, total, sizeAck, acks, slot, upgrade>>

\* boot_request_upgrade(1), then send OTA_RESPONSE_UPDATE_END_OK.
RequestUpgrade ==
  /\ pc = "endOk"
  /\ upgrade' = TRUE
  /\ \E ok \in SendOutcomes : pc' = IF ok THEN "finalAck" ELSE "listen"
  /\ UNCHANGED <<conns, resets, peer, client, otaSize, total, sizeAck, acks, slot>>

\* The device boots: MCUboot consumes an upgrade request, RAM is lost, and
\* esphome_ota_service starts over with a fresh flash context.
Boot ==
  /\ pc' \in ServiceStart
  /\ upgrade' = FALSE
  /\ slot' = <<>>
  /\ total' = 0
  /\ sizeAck' = 0
  /\ acks' = 0

\* esphome_ota_read_ack: a short read is -EIO, a byte other than
\* OTA_RESPONSE_OK is -EINVAL; otherwise sys_reboot.
ReadFinalAck ==
  /\ pc = "finalAck"
  /\ IF RecvOk /\ client.ackOk
     THEN Boot
     ELSE Fail /\ UNCHANGED <<upgrade, slot, total, sizeAck, acks>>
  /\ UNCHANGED <<conns, resets, peer, client, otaSize>>

OtaThread ==
  \/ Accept \/ ReadMagic \/ SendVersion \/ ReadFeatures \/ SendAuthOk
  \/ ReadSize \/ SendPrepareOk \/ ReadMd5 \/ ReadChunk \/ SendChunkOk
  \/ SendReceiveOk \/ RequestUpgrade \/ ReadFinalAck

-----------------------------------------------------------------------------
(* The environment.                                                        *)

\* The uploading tool closes or loses its connection.
ClientDrop ==
  /\ pc \notin ServiceStart
  /\ peer = "up"
  /\ peer' = "gone"
  /\ UNCHANGED <<pc, conns, resets, client, otaSize, total, sizeAck, acks, slot, upgrade>>

\* A reset at any point of the service.
DeviceReset ==
  /\ resets < MaxResets
  /\ resets' = resets + 1
  /\ Boot
  /\ UNCHANGED <<conns, peer, client, otaSize>>

Next == OtaThread \/ ClientDrop \/ DeviceReset

Spec == Init /\ [][Next]_vars

\* The OTA thread is a kernel thread that runs whenever it is not blocked.
FairSpec == Spec /\ WF_vars(OtaThread)

-----------------------------------------------------------------------------
(* Properties.                                                             *)

CeilDiv(a, b) == (a + b - 1) \div b

\* The uploading tool waits for one OTA_RESPONSE_CHUNK_OK per 8192-byte
\* block it sends, the last, partial block included.  Whenever the
\* acknowledgement loop of esphome_ota_run has run dry, the CHUNK_OK bytes
\* sent are the whole blocks received, or, once every byte is in, all the
\* blocks of the image: never one early, never one missing, and never an
\* endless run of them from a size_t sum that wraps.
AcksMatchBlocks ==
  (pc \in {"endOk", "finalAck"} \/ (pc = "data" /\ ~AckDue))
    => acks = IF total = otaSize THEN CeilDiv(otaSize, Block)
                                  ELSE total \div Block

\* boot_request_upgrade marks a slot that ends with the whole image this
\* connection sent, byte for byte, whatever earlier connections left in
\* front of it: every chunk esphome_ota_run read went to
\* flash_img_buffered_write in order, none was skipped, repeated or cut.
UpgradeSlotEndsWithImage ==
  [][RequestUpgrade =>
       /\ otaSize <= Len(slot)
       /\ \A i \in 1 .. otaSize :
            slot[Len(slot) - otaSize + i] = Image(conns, otaSize)[i]]_vars

\* Every accepted upload ends: esphome_ota_run returns to the accept loop
\* (after an error) or the device reboots, provided the OTA thread keeps
\* being scheduled; the chunk loop and the acknowledgement loop terminate.
SessionTerminates == (pc = "magic") ~> (pc \in ServiceStart)

\* boot_request_upgrade marks the slot only when it holds exactly the image
\* this connection sent, from the slot's first byte (spec 4.6: no partial
\* state is retained across connections).
UpgradeRequestsSentImage ==
  [][RequestUpgrade => slot = Image(conns, otaSize)]_vars

\* An OTA session that ends in an error leaves no upgrade request behind
\* (spec 7: a failed transfer never changes what the device boots).
FailedSessionNeverCommits ==
  [][(pc # "listen" /\ pc' = "listen") => ~upgrade']_vars

\* An image that fits the slot is never refused for want of room: a
\* flash_img_buffered_write of a chunk of it does not fail with -ENOMEM
\* (spec 4.6: no partial state is retained across connections).
ImageThatFitsIsAccepted ==
  [][(pc = "data" /\ otaSize <= SlotSize /\ total < otaSize /\ ~AckDue /\ RecvOk)
       => Len(slot) + Requested <= SlotSize]_vars

-----------------------------------------------------------------------------
(* The refinement.                                                         *)

\* The phase of OtaSession the OTA thread is in: the accept loop is idle,
\* the steps before the chunk loop are the handshake, the chunk loop
\* receives, RECEIVE_OK sent is received, UPDATE_END_OK sent is committing.
Phase(p) ==
  CASE p \in ServiceStart -> "idle"
    [] p = "data"         -> "receiving"
    [] p = "endOk"        -> "received"
    [] p = "finalAck"     -> "committing"
    [] OTHER              -> "handshake"

Session == INSTANCE OtaSession
             WITH session <- Phase(pc), size <- otaSize, received <- total,
                  acked <- acks, marked <- upgrade

\* esphome_ota_run, with its 1024-byte reads, its acknowledgement loop in
\* size_t and its error paths, and the service around it implement the
\* session the tool expects: bytes only in order and up to the announced
\* size, every CHUNK_OK paid before the next read, RECEIVE_OK only for a
\* whole, acknowledged image, and boot_request_upgrade only after it.
OtaRefinement == Session!Spec
=============================================================================
