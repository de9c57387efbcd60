-------------------------------- MODULE IsoFrame --------------------------------
(***************************************************************************)
(* The arithmetic of reserveIsoCompletion (internal/usbip/server.go).      *)
(* Times are milliseconds; one isochronous packet is one full-speed frame  *)
(* of one millisecond.                                                     *)
(***************************************************************************)
EXTENDS Integers

CONSTANT MaxIsoWait     \* longest reservation: 250 in the code

ASSUME IsoAssumption == MaxIsoWait \in Nat

DirectionOut == 0
DirectionIn  == 1

\* The time one URB occupies: its packets, but never more than the cap.
Duration(packets) == IF packets > MaxIsoWait THEN MaxIsoWait ELSE packets

MutantDeadline(next, packets, now) == now + Duration(packets)

\* When a URB that arrives at `now` completes if its timeline is reserved up to
\* `next`: right away for an empty one, else after its turn.
Deadline(next, packets, now) ==
  IF Duration(packets) = 0 THEN now
  ELSE (IF next < now THEN now ELSE next) + Duration(packets)

MutantTimelineKey(endpoint, direction) == endpoint

\* basic.Endpoint | basic.Direction << 16, for direction 0 or 1.
TimelineKey(endpoint, direction) ==
  IF direction = DirectionIn /\ (endpoint \div 65536) % 2 = 0
    THEN endpoint + 65536 ELSE endpoint
=============================================================================
