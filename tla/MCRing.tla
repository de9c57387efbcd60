-------------------------------- MODULE MCRing --------------------------------
(* Two goroutines on a small ring. *)
EXTENDS Ring
=============================================================================
