---------------------------------- MODULE Wire ----------------------------------
(***************************************************************************)
(* USB/IP frames by their lengths: what readSubmit takes from the stream,  *)
(* and the reply processSubmit and writeRetSubmit make of it               *)
(* (internal/usbip/protocol.go and server.go).  A SUBMIT is an [endpoint,  *)
(* direction, length, packets, lengths]: TransferBufferLength,             *)
(* NumberOfPackets and the length of each isochronous packet.              *)
(***************************************************************************)
EXTENDS IsoFrame, SeqSums

NoIsoPackets == -1                      \* 0xffffffff, as the int32 of the same bits
MaxTransferLength == 16 * 1024 * 1024
MaxPackets == 4096
HeaderLength == 48
PacketLength == 16

StatusOK == 0
StatusPipe == -32
StatusConnReset == -104

MutantIsIsochronous(s) == s.packets # 0

IsIsochronous(s) == s.packets # NoIsoPackets /\ s.packets # 0

\* readSubmit and readIsoPackets: a SUBMIT beyond these ends the session.
Parses(s) == /\ s.length <= MaxTransferLength
             /\ IsIsochronous(s) => s.packets <= MaxPackets

\* The bytes they take from the stream.
Consumed(s) == HeaderLength + (IF s.direction = DirectionOut THEN s.length ELSE 0)
                            + (IF IsIsochronous(s) THEN PacketLength * s.packets ELSE 0)

-----------------------------------------------------------------------------
(* Replies. *)

Least(a, b) == IF a < b THEN a ELSE b

MutantResponsePayloadLength(s) ==
  IF s.lengths = <<>> THEN s.length ELSE Least(Total(s.lengths), MaxTransferLength)

\* A buffer length of 0 does not cap what the packets ask for.
ResponsePayloadLength(s) ==
  IF s.lengths = <<>> THEN s.length
  ELSE Least(IF s.length > 0 THEN Least(Total(s.lengths), s.length) ELSE Total(s.lengths),
             MaxTransferLength)

\* What is left of `actual` bytes behind each packet.
Left(lengths, actual) ==
  LET left[i \in 0..Len(lengths)] ==
        IF i = 0 THEN actual ELSE left[i - 1] - Least(lengths[i], left[i - 1])
  IN left

\* markIsoPackets: in turn, each packet gets what is left, up to its length.
MarkIsoPackets(lengths, actual) ==
  LET left == Left(lengths, actual)
  IN [i \in 1..Len(lengths) |-> [actual |-> left[i - 1] - left[i], status |-> StatusOK]]

MarkIsoError(lengths, status) ==
  [i \in 1..Len(lengths) |-> [actual |-> 0, status |-> status]]

\* writeRetSubmit: no payload unless the status is OK, the packets in any case.
RetSubmit(s, status, actual, data, packets, errors) ==
  [status |-> status,
   actual |-> IF status = StatusOK THEN actual ELSE 0,
   data |-> IF status = StatusOK THEN data ELSE 0,
   count |-> IF IsIsochronous(s) THEN Len(packets) ELSE NoIsoPackets,
   packets |-> packets, errors |-> errors]

ReplyLength(r) == HeaderLength + r.data + PacketLength * Len(r.packets)

\* HandleControl answered `status` with `bytes` bytes.
ControlReply(s, status, bytes) ==
  IF s.direction = DirectionOut /\ status = StatusOK
    THEN RetSubmit(s, status, s.length, 0, <<>>, 0)
    ELSE RetSubmit(s, status, Least(bytes, s.length), Least(bytes, s.length), <<>>, 0)

\* The URB was cancelled, or nothing is at its endpoint.
ErrorReply(s, status) ==
  RetSubmit(s, status, 0, 0, MarkIsoError(s.lengths, status), Len(s.lengths))

\* WritePlayback took `moved` bytes, or the payload was discarded as a whole.
PlaybackReply(s, moved) ==
  RetSubmit(s, StatusOK, moved, 0, MarkIsoPackets(s.lengths, moved), 0)

CaptureReply(s) ==
  LET length == ResponsePayloadLength(s)
  IN RetSubmit(s, StatusOK, length, length, MarkIsoPackets(s.lengths, length), 0)

-----------------------------------------------------------------------------
(* The other end, by the protocol: a host knows what kind of endpoint it   *)
(* submits to (s.iso), whatever it writes into NumberOfPackets.            *)

HostSends(s) == HeaderLength + (IF s.direction = DirectionOut THEN s.length ELSE 0)
                             + (IF s.iso THEN PacketLength * Len(s.lengths) ELSE 0)

\* It reads the payload of an IN transfer, and as many packets as the reply counts.
HostReads(s, r) == HeaderLength + (IF s.direction = DirectionIn THEN r.actual ELSE 0)
                                + (IF s.iso THEN PacketLength * r.count ELSE 0)

\* The payload is that of the packets, of which none has more than was asked for.
Accounts(s, r) ==
  s.iso => /\ r.count = Len(s.lengths)
           /\ Total([i \in 1..Len(r.packets) |-> r.packets[i].actual]) = r.actual
           /\ \A i \in 1..Len(r.packets) : r.packets[i].actual <= s.lengths[i]

\* A reply it can use: the payload fits the buffer as well.
HostAccepts(s, r) == r.actual <= s.length /\ Accounts(s, r)
=============================================================================
