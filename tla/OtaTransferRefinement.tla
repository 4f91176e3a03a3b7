------------------------ MODULE OtaTransferRefinement ------------------------
(***************************************************************************)
(* The OTA service implements OtaSession: every step of OtaTransfer is a   *)
(* step of the session the uploading tool expects, or leaves it alone.    *)
(* The argument rests on the inductive invariant IInv of                  *)
(* OtaTransferProofs: in the chunk loop the CHUNK_OKs sent never pass     *)
(* what is owed, and the loop's test in size_t is exactly "one is owed".  *)
(***************************************************************************)
EXTENDS OtaTransferProofs, TLAPS

\* The abstract state the mapping gives.
AbsVars == <<Phase(pc), otaSize, total, acks, upgrade>>

\* The CHUNK_OKs the session owes are those IInv counts as due.
LEMMA OwedIsDue ==
  ASSUME NEW t, NEW n
  PROVE  Session!Owed(t, n) = Due(t, n)
BY DEF Session!Owed, Due, CeilDiv

\* The phases of the steps of esphome_ota_run.
LEMMA PhaseOf ==
  /\ \A p \in ServiceStart : Phase(p) = "idle"
  /\ \A p \in PreData : Phase(p) = "handshake"
  /\ Phase("data") = "receiving"
  /\ Phase("endOk") = "received"
  /\ Phase("finalAck") = "committing"
BY DEF Phase, ServiceStart, PreData

\* A step that moves none of the mapped state is a stutter of the session.
LEMMA Stutter ==
  ASSUME UNCHANGED AbsVars
  PROVE  [Session!Next]_(Session!vars)
BY DEF AbsVars, Session!vars

\* esphome_ota_run returns an error: the session ends.
LEMMA FailAborts ==
  ASSUME pc \notin ServiceStart, pc' = "listen",
         UNCHANGED <<otaSize, total, acks, upgrade>>
  PROVE  Session!Abort
BY PhaseOf DEF Session!Abort, Phase, ServiceStart

\* A boot, after the final ack or from a reset, is the session's reboot.
LEMMA BootReboots ==
  ASSUME Boot, UNCHANGED otaSize
  PROVE  Session!Reboot
BY PhaseOf DEF Boot, Session!Reboot

\* A handshake step moves the session on to the image, or not at all, or
\* ends it.
LEMMA StepMaps ==
  ASSUME NEW from \in PreData, NEW to \in PreData \cup {"data"},
         NEW ok \in BOOLEAN, Step(from, to, ok)
  PROVE  [Session!Next]_(Session!vars)
<1>1. pc = from /\ UNCHANGED <<otaSize, total, acks, upgrade>>
  BY DEF Step
<1>2. pc \notin ServiceStart
  BY <1>1 DEF PreData, ServiceStart
<1>3. CASE ~ok
  BY <1>1, <1>2, <1>3, FailAborts DEF Step, Session!Next
<1>4. CASE ok /\ to \in PreData
  BY <1>1, <1>3, <1>4, PhaseOf, Stutter DEF Step, AbsVars
<1>5. CASE ok /\ to = "data"
  <2>1. Session!StartData
    BY <1>1, <1>4, <1>5, PhaseOf DEF Step, Session!StartData
  <2> QED
    BY <2>1 DEF Session!Next
<1> QED
  BY <1>3, <1>4, <1>5

LEMMA AcceptMaps ==
  ASSUME Accept
  PROVE  Session!Open
BY PhaseOf DEF Accept, Session!Open, ServiceStart, PreData

LEMMA ReadSizeMaps ==
  ASSUME IInv, ReadSize
  PROVE  [Session!Next]_(Session!vars)
<1>1. pc = "size" /\ UNCHANGED <<total, acks, upgrade>>
  BY DEF ReadSize
<1>2. CASE RecvOk
  <2>1. pc' = "prepareOk" /\ otaSize' = DecodeSize(SizeField(client.size))
    BY <1>2 DEF ReadSize
  <2>2. otaSize' \in Nat
    BY <2>1, DecodeSizeType DEF IInv, TypeOK, Clients
  <2>3. Session!Announce
    BY <1>1, <2>1, <2>2, PhaseOf DEF Session!Announce, PreData
  <2> QED
    BY <2>3 DEF Session!Next
<1>3. CASE ~RecvOk
  BY <1>1, <1>3, FailAborts DEF ReadSize, Fail, ServiceStart, Session!Next
<1> QED
  BY <1>2, <1>3

\* A chunk is taken in only when no CHUNK_OK is owed, and it is a
\* non-empty part of what the tool still has to send.
LEMMA ReadChunkMaps ==
  ASSUME IInv, ReadChunk
  PROVE  [Session!Next]_(Session!vars)
<1>1. pc = "data" /\ ~AckDue /\ total < otaSize /\ TypeOK
      /\ UNCHANGED <<otaSize, acks, upgrade>>
  BY DEF ReadChunk, IInv
<1>2. \/ pc' = "listen" /\ total' = total
      \/ total' = AddSize(total, Requested) /\ pc' = pc
  BY DEF ReadChunk, Fail
<1>3. CASE pc' = "listen" /\ total' = total
  BY <1>1, <1>3, FailAborts DEF ServiceStart, Session!Next
<1>4. CASE total' = AddSize(total, Requested) /\ pc' = pc
  <2>1. Requested \in 1 .. Chunk /\ total + Requested <= otaSize
    BY <1>1, RequestedRange
  <2>2. total \in Nat /\ otaSize \in Nat /\ acks \in Nat /\ total <= Len(slot)
        /\ Len(slot) <= SlotSize
    BY <1>1 DEF IInv, TypeOK
  <2>3. total' = total + Requested
    <3>1. total + Requested \in 0 .. Wrap - 1
      BY <1>1, <2>1, <2>2, WrapType DEF TypeOK
    <3> QED
      BY <1>4, <3>1, ModId DEF AddSize
  <2>4. acks = Due(total, otaSize)
    <3>1. acks <= Due(total, otaSize) /\ Due(total, otaSize) \in Nat
      BY <1>1, <2>2, DueType DEF IInv
    <3>2. ~(acks < Due(total, otaSize))
      BY <1>1, AckDueIff
    <3> QED
      BY <2>2, <3>1, <3>2
  <2>5. Session!Receive
    BY <1>1, <1>4, <2>1, <2>2, <2>3, <2>4, PhaseOf, OwedIsDue DEF Session!Receive
  <2> QED
    BY <2>5 DEF Session!Next
<1> QED
  BY <1>2, <1>3, <1>4

\* A CHUNK_OK is sent exactly when one is owed.
LEMMA SendChunkOkMaps ==
  ASSUME IInv, SendChunkOk
  PROVE  [Session!Next]_(Session!vars)
<1>1. pc = "data" /\ AckDue /\ UNCHANGED <<otaSize, total, upgrade>>
  BY DEF SendChunkOk, IInv
<1>2. \/ pc' = "listen" /\ acks' = acks
      \/ acks' = acks + 1 /\ pc' = pc
  BY DEF SendChunkOk, Fail
<1>3. CASE pc' = "listen" /\ acks' = acks
  BY <1>1, <1>3, FailAborts DEF ServiceStart, Session!Next
<1>4. CASE acks' = acks + 1 /\ pc' = pc
  <2>1. acks < Due(total, otaSize)
    BY <1>1, AckDueIff
  <2>2. Session!Ack
    BY <1>1, <1>4, <2>1, PhaseOf, OwedIsDue DEF Session!Ack
  <2> QED
    BY <2>2 DEF Session!Next
<1> QED
  BY <1>2, <1>3, <1>4

\* RECEIVE_OK is sent only for the whole image with every CHUNK_OK paid.
LEMMA SendReceiveOkMaps ==
  ASSUME IInv, SendReceiveOk
  PROVE  [Session!Next]_(Session!vars)
<1>1. pc = "data" /\ ~AckDue /\ total >= otaSize /\ TypeOK
      /\ UNCHANGED <<otaSize, total, acks, upgrade>>
  BY DEF SendReceiveOk, IInv
<1>2. pc' \in {"endOk", "listen"}
  BY DEF SendReceiveOk
<1>3. CASE pc' = "listen"
  BY <1>1, <1>3, FailAborts DEF ServiceStart, Session!Next
<1>4. CASE pc' = "endOk"
  <2>1. total = otaSize
    BY <1>1 DEF IInv, TypeOK
  <2>2. acks = Due(total, otaSize)
    <3>1. acks <= Due(total, otaSize) /\ Due(total, otaSize) \in Nat /\ acks \in Nat
      BY <1>1, DueType DEF IInv, TypeOK
    <3>2. ~(acks < Due(total, otaSize))
      BY <1>1, AckDueIff
    <3> QED
      BY <3>1, <3>2
  <2>3. Session!Complete
    BY <1>1, <1>4, <2>1, <2>2, PhaseOf, OwedIsDue DEF Session!Complete
  <2> QED
    BY <2>3 DEF Session!Next
<1> QED
  BY <1>2, <1>3, <1>4

LEMMA RequestUpgradeMaps ==
  ASSUME RequestUpgrade
  PROVE  Session!Commit
<1>1. pc = "endOk" /\ pc' \in {"finalAck", "listen"} /\ upgrade' = TRUE
      /\ UNCHANGED <<otaSize, total, acks>>
  BY DEF RequestUpgrade
<1> QED
  BY <1>1, PhaseOf DEF Session!Commit, ServiceStart

LEMMA ReadFinalAckMaps ==
  ASSUME ReadFinalAck
  PROVE  [Session!Next]_(Session!vars)
<1>1. CASE RecvOk /\ client.ackOk
  BY <1>1, BootReboots DEF ReadFinalAck, Session!Next
<1>2. CASE ~(RecvOk /\ client.ackOk)
  <2>1. pc = "finalAck" /\ pc' = "listen" /\ UNCHANGED <<otaSize, total, acks, upgrade>>
    BY <1>2 DEF ReadFinalAck, Fail
  <2> QED
    BY <2>1, FailAborts DEF ServiceStart, Session!Next
<1> QED
  BY <1>1, <1>2

LEMMA NextMaps ==
  ASSUME IInv, [Next]_vars
  PROVE  [Session!Next]_(Session!vars)
<1>0. SendOutcomes \subseteq BOOLEAN /\ RecvOk \in BOOLEAN
  BY DEF SendOutcomes, RecvOk
<1>1. CASE ReadMagic
  BY <1>1, StepMaps DEF ReadMagic, PreData
<1>2. CASE SendVersion \/ ReadFeatures \/ SendAuthOk \/ SendPrepareOk \/ ReadMd5
  <2>1. CASE SendVersion
    BY <1>0, <2>1, StepMaps DEF SendVersion, PreData
  <2>2. CASE ReadFeatures
    BY <1>0, <2>2, StepMaps DEF ReadFeatures, PreData
  <2>3. CASE SendAuthOk
    BY <1>0, <2>3, StepMaps DEF SendAuthOk, PreData
  <2>4. CASE SendPrepareOk
    BY <1>0, <2>4, StepMaps DEF SendPrepareOk, PreData
  <2>5. CASE ReadMd5
    BY <1>0, <2>5, StepMaps DEF ReadMd5, PreData
  <2> QED
    BY <1>2, <2>1, <2>2, <2>3, <2>4, <2>5
<1>3. CASE Accept
  BY <1>3, AcceptMaps DEF Session!Next
<1>4. CASE RequestUpgrade
  BY <1>4, RequestUpgradeMaps DEF Session!Next
<1>5. CASE DeviceReset
  BY <1>5, BootReboots DEF DeviceReset, Session!Next
<1>6. CASE ClientDrop \/ UNCHANGED vars
  BY <1>6, Stutter DEF ClientDrop, vars, AbsVars
<1> QED
  BY <1>1, <1>2, <1>3, <1>4, <1>5, <1>6, ReadSizeMaps, ReadChunkMaps,
     SendChunkOkMaps, SendReceiveOkMaps, ReadFinalAckMaps DEF Next, OtaThread

\* The OTA service implements the session the uploading tool expects, for
\* every chunk, block, byte width and slot size with two blocks of size_t
\* headroom: it takes the image in order and never past the announced
\* size, pays every CHUNK_OK before it reads on, sends RECEIVE_OK only for
\* a whole, acknowledged image, and calls boot_request_upgrade only then.
THEOREM OtaImplementsSession == Spec => OtaRefinement
<1>1. Init => Session!Init
  BY PhaseOf DEF Init, Session!Init
<1>2. IInv /\ [Next]_vars => [Session!Next]_(Session!vars)
  BY NextMaps
<1> QED
  BY <1>1, <1>2, InitIInv, NextIInv, PTL DEF Spec, OtaRefinement, Session!Spec
====
