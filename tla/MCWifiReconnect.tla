-------------------------- MODULE MCWifiReconnect --------------------------
(* Four credentials of which only the third is accepted, so the round
   robin passes refused ones and wraps; three driver faults. *)
EXTENDS WifiReconnect
====
