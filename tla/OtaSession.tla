----------------------------- MODULE OtaSession -----------------------------
(***************************************************************************)
(* What the OTA service promises the uploading tool, session by session,  *)
(* with no chunks, no buffer and no size_t: after the handshake announces *)
(* a size, the device takes the image's bytes in order, owes one CHUNK_OK *)
(* per whole block it holds (and one for a partial last block once every *)
(* byte is in), pays what it owes before it reads on, reports the image   *)
(* received only when it is whole and acknowledged, and only then marks  *)
(* the slot for boot.  A session may end at any point; a boot clears the  *)
(* mark.  OtaTransfer implements this specification (OtaRefinement).      *)
(***************************************************************************)
EXTENDS Naturals

CONSTANT Block   \* OTA_BLOCK_SIZE, a positive number of bytes

VARIABLES
  session,   \* "idle", "handshake", "receiving", "received", "committing"
  size,      \* the size the tool announced
  received,  \* bytes of the image taken in this session
  acked,     \* CHUNK_OK bytes sent in this session
  marked     \* the slot is marked for the next boot

vars == <<session, size, received, acked, marked>>

\* CHUNK_OK bytes owed when r of n bytes are in.
Owed(r, n) == IF r = n THEN (n + Block - 1) \div Block ELSE r \div Block

Init ==
  /\ session = "idle"
  /\ size = 0
  /\ received = 0
  /\ acked = 0
  /\ marked = FALSE

\* A tool connects: a session starts with nothing received.
Open ==
  /\ session = "idle"
  /\ session' = "handshake"
  /\ received' = 0 /\ acked' = 0
  /\ UNCHANGED <<size, marked>>

\* The handshake announces the image's size.
Announce ==
  /\ session = "handshake"
  /\ size' \in Nat
  /\ UNCHANGED <<session, received, acked, marked>>

\* The handshake is over; the image follows.
StartData ==
  /\ session = "handshake"
  /\ session' = "receiving"
  /\ UNCHANGED <<size, received, acked, marked>>

\* More of the image is taken in, only when no CHUNK_OK is owed.
Receive ==
  /\ session = "receiving"
  /\ received < size
  /\ acked = Owed(received, size)
  /\ received' \in (received + 1) .. size
  /\ UNCHANGED <<session, size, acked, marked>>

\* An owed CHUNK_OK is sent.
Ack ==
  /\ session = "receiving"
  /\ acked < Owed(received, size)
  /\ acked' = acked + 1
  /\ UNCHANGED <<session, size, received, marked>>

\* RECEIVE_OK: the whole image is in and acknowledged.
Complete ==
  /\ session = "receiving"
  /\ received = size
  /\ acked = Owed(size, size)
  /\ session' = "received"
  /\ UNCHANGED <<size, received, acked, marked>>

\* The slot is marked for boot; the session goes on to the final ack or,
\* if UPDATE_END_OK cannot be sent, ends with the mark set.
Commit ==
  /\ session = "received"
  /\ marked' = TRUE
  /\ session' \in {"committing", "idle"}
  /\ UNCHANGED <<size, received, acked>>

\* The session ends on an error.
Abort ==
  /\ session # "idle"
  /\ session' = "idle"
  /\ UNCHANGED <<size, received, acked, marked>>

\* The device boots: the mark is consumed and nothing is received.
Reboot ==
  /\ session' = "idle"
  /\ marked' = FALSE
  /\ received' = 0 /\ acked' = 0
  /\ UNCHANGED size

Next ==
  \/ Open \/ Announce \/ StartData \/ Receive \/ Ack \/ Complete
  \/ Commit \/ Abort \/ Reboot

Spec == Init /\ [][Next]_vars
====
