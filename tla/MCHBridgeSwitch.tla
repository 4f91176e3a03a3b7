--------------------------- MODULE MCHBridgeSwitch ---------------------------
(***************************************************************************)
(* One H-bridge switch, data->state -EINVAL = -22 before the first        *)
(* success; two pin writes may fail, enough for a failed release followed *)
(* by a failed pulse.                                                     *)
(***************************************************************************)
EXTENDS HBridgeSwitch

\* -EINVAL
MCUnknown == -22
====
