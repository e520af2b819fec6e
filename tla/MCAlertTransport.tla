--------------------------- MODULE MCAlertTransport ---------------------------
(***************************************************************************)
(* Two alerts in a row; a gap of two units, requests of up to one, a cap   *)
(* of one on the waits, and Telegram asking for one or for two.            *)
(***************************************************************************)
EXTENDS AlertTransport
=============================================================================
