--------------------------- MODULE MCOtaTransfer ---------------------------
(* OtaTransfer on a small instance.  One unit is 512 bytes: a chunk of   *)
(* 1024 bytes is 2 units and a block of 8192 bytes is 4 units (a ratio   *)
(* of 2 instead of 8, so that images of one, two and three blocks, whole *)
(* and partial, fit the bounds).                                        *)
EXTENDS OtaTransfer
====
