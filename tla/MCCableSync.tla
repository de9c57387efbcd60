------------------------------ MODULE MCCableSync ------------------------------
(* Counts around the step from one USB device to two. *)
EXTENDS CableSync
=============================================================================
