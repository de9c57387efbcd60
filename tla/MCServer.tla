-------------------------------- MODULE MCServer --------------------------------
(***************************************************************************)
(* Launches with cables for one or two devices; many launches or many      *)
(* connections, but not both; and one connection whose host may stop       *)
(* reading.                                                                *)
(***************************************************************************)
EXTENDS Server

Limit(launches, connections, counts, stalls) ==
  [launches |-> launches, connections |-> connections, counts |-> counts,
   stalls |-> stalls]

ManyOfOne ==
  {Limit(3, 0, {1, 5}, FALSE), Limit(2, 1, {1}, FALSE), Limit(1, 1, {5}, TRUE),
   Limit(1, 2, {1}, FALSE)}
=============================================================================
