----------------------------- MODULE MCIsoTimeline -----------------------------
(* One or two endpoints of a device in both directions. *)
EXTENDS IsoTimeline
=============================================================================
