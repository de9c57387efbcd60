------------------------------ MODULE SubmitStream ------------------------------
(***************************************************************************)
(* The two byte streams of a connection.  The reader takes one SUBMIT      *)
(* after the other from the host's bytes and reserves the time of those    *)
(* that wait; replies are written in whatever order the URBs end, and the  *)
(* host has to find each of them where the one before has ended.           *)
(*                                                                         *)
(* What the goroutines, UNLINK and the device do meanwhile is UrbSession's; *)
(* here a waiting URB is completed when it is due, or given back.          *)
(***************************************************************************)
EXTENDS IsoTimeline, Wire

CONSTANTS Requests,        \* SUBMITs of the host, with `iso`: the kind of endpoint
          CableEndpoints,  \* 1..device.CableCount()
          ControlBytes     \* lengths of what HandleControl returns

\* Hosts follow the protocol: one counts the packets it sends to an isochronous
\* endpoint, which is not zero; it has none else, whatever it writes for "none"; and
\* it plays no more than its packets hold.
ASSUME StreamAssumption ==
  /\ CableEndpoints \subseteq Nat \ {0}
  /\ ControlBytes \subseteq Nat
  /\ \A s \in Requests :
       /\ s.direction \in Directions /\ s.length \in Nat /\ s.lengths \in Seq(Nat)
       /\ s.iso \in BOOLEAN
       /\ ~s.iso => s.packets \in {0, NoIsoPackets} /\ s.lengths = <<>>
       /\ s.iso => s.endpoint # 0 /\ s.packets = Len(s.lengths) /\ s.packets > 0
       /\ s.iso /\ Parses(s) => /\ s.endpoint \in Endpoints /\ s.packets \in PacketCounts
                                /\ s.direction = DirectionOut => s.length <= Total(s.lengths)

VARIABLES queued,    \* [submit, deadline] of the URBs that wait
          skew,      \* bytes by which the two ends disagree: [requests, replies]
          refused,   \* the <<SUBMIT, reply>> of which the host cannot use the reply
          ended      \* a SUBMIT did not parse: nothing more is read

streamVars == <<vars, queued, skew, refused, ended>>

InitStream ==
  /\ Init
  /\ queued = {} /\ refused = {} /\ ended = FALSE
  /\ skew = [requests |-> 0, replies |-> 0]

\* What processSubmit may come to once nothing is left to wait for.
Replies(s) ==
  IF s.endpoint = 0
    THEN {ControlReply(s, status, n) : status \in {StatusOK, StatusPipe}, n \in ControlBytes}
  ELSE IF s.endpoint \notin CableEndpoints THEN {ErrorReply(s, StatusPipe)}
  ELSE IF s.direction = DirectionOut THEN {PlaybackReply(s, moved) : moved \in {0, s.length}}
  ELSE {CaptureReply(s)}

MutantServed(s) == s.endpoint = 0

\* Control traffic, and what is not isochronous, is answered before the next read.
Served(s) == s.endpoint = 0 \/ ~IsIsochronous(s)

Sent(s) == HostSends(s) - Consumed(s)
Answered(s, r) == HostReads(s, r) - ReplyLength(r)

Unusable(s, r) == IF HostAccepts(s, r) THEN {} ELSE {<<s, r>>}

Reject(s) ==
  /\ ~Parses(s)
  /\ ended' = TRUE
  /\ UNCHANGED <<vars, queued, skew, refused>>

Serve(s) ==
  /\ Parses(s) /\ Served(s)
  /\ \E r \in Replies(s) :
       /\ refused' = refused \cup Unusable(s, r)
       /\ skew' = [requests |-> skew.requests + Sent(s),
                   replies |-> skew.replies + Answered(s, r)]
  /\ UNCHANGED <<vars, queued, ended>>

Queue(s) ==
  /\ Parses(s) /\ ~Served(s)
  /\ Reserve(s.endpoint, s.direction, s.packets)
  /\ queued' = queued \cup {[submit |-> s, deadline |-> log'[Len(log')].deadline]}
  /\ skew' = [skew EXCEPT !.requests = @ + Sent(s)]
  /\ UNCHANGED <<refused, ended>>

Write(q, r) ==
  /\ queued' = queued \ {q}
  /\ refused' = refused \cup Unusable(q.submit, r)
  /\ skew' = [skew EXCEPT !.replies = @ + Answered(q.submit, r)]
  /\ UNCHANGED <<vars, ended>>

\* Playback and recording wait for their turn; nothing else does.
Complete(q) ==
  /\ q.submit.endpoint \in CableEndpoints => q.deadline <= now
  /\ \E r \in Replies(q.submit) : Write(q, r)

\* Cancelled by UNLINK, or as the session ends.
GiveBack(q) == Write(q, ErrorReply(q.submit, StatusConnReset))

PassTime == Tick /\ UNCHANGED <<queued, skew, refused, ended>>

Over == ended /\ queued = {} /\ UNCHANGED streamVars

NextStream ==
  \/ ~ended /\ \E s \in Requests : Reject(s) \/ Serve(s) \/ Queue(s)
  \/ \E q \in queued : Complete(q) \/ GiveBack(q)
  \/ PassTime \/ Over

StreamSpec == InitStream /\ [][NextStream]_streamVars

-----------------------------------------------------------------------------
\* However URBs of either kind follow each other, are completed, stalled or given
\* back, each end starts to read a frame where the other started to write it: with
\* payload and packets where the other expects them (TestNoIsoPacketSentinelIsAccepted,
\* TestRetSubmitIsoWireLayout; protocol.go:122-180, server.go:285-305).
StreamInStep == skew = [requests |-> 0, replies |-> 0]

\* A recording that names no buffer is given what its packets ask for (server.go:485).
Uncapped(s) == s.iso /\ s.direction = DirectionIn /\ s.length = 0

\* The payload of a reply is what its packets account for one by one, and fits the
\* host's buffer; a host refuses the URB otherwise.  Only a recording that names no
\* buffer has a payload beyond it, of at most 16 MiB (server.go:477-515).
PayloadAccounted ==
  \A x \in refused : /\ Uncapped(x[1]) /\ Accounts(x[1], x[2])
                     /\ x[2].actual <= MaxTransferLength

\* The stream reserves time as IsoTimeline does, for isochronous URBs of any endpoint
\* but zero and in the order of their arrival: its theorem on the cadence is one on
\* this stream (server.go:338-350).
ImplementsTimeline == Spec
=============================================================================
