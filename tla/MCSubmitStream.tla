---------------------------- MODULE MCSubmitStream ----------------------------
(***************************************************************************)
(* SUBMITs for SubmitStream: control and isochronous ones in both          *)
(* directions, ones that are neither, ones of an endpoint that does not    *)
(* exist, one without a buffer, and ones that do not parse.                *)
(***************************************************************************)
EXTENDS SubmitStream

Submit(endpoint, direction, length, packets) ==
  [endpoint |-> endpoint, direction |-> direction, length |-> length,
   packets |-> packets, lengths |-> <<>>, iso |-> FALSE]

Iso(endpoint, direction, length, lengths) ==
  [endpoint |-> endpoint, direction |-> direction, length |-> length,
   packets |-> Len(lengths), lengths |-> lengths, iso |-> TRUE]

Some == {Submit(0, DirectionIn, 18, NoIsoPackets), Submit(0, DirectionOut, 3, 0),
         Submit(1, DirectionOut, 768, NoIsoPackets), Submit(1, DirectionIn, 768, 0),
         Submit(1, DirectionIn, MaxTransferLength + 1, NoIsoPackets),
         Iso(1, DirectionOut, 768, <<768>>),
         Iso(1, DirectionOut, 2304, <<768, 768, 768>>),
         Iso(1, DirectionIn, 1000, <<768, 0, 768>>),
         Iso(1, DirectionIn, 768, <<768>>), Iso(1, DirectionIn, 0, <<768>>),
         Iso(2, DirectionIn, 768, <<768>>),
         Iso(1, DirectionOut, 0, [i \in 1..MaxPackets + 1 |-> 0])}
=============================================================================
