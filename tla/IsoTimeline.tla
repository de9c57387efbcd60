------------------------------ MODULE IsoTimeline ------------------------------
(***************************************************************************)
(* The isochronous timelines of one connection: connectionState.isoNext    *)
(* and reserveIsoCompletion (internal/usbip/server.go), called by the      *)
(* reader for every isochronous SUBMIT as it arrives.  The log remembers   *)
(* what each call was given and answered.                                  *)
(***************************************************************************)
EXTENDS IsoFrame, SeqSums, FiniteSetsExt

CONSTANTS Endpoints,      \* endpoint numbers of arriving SUBMITs
          PacketCounts,   \* their NumberOfPackets
          MaxSubmits,     \* bound: SUBMITs in a behaviour
          MaxTime         \* bound: the clock

ASSUME TimelineAssumption ==
  /\ Endpoints \subseteq Nat
  /\ PacketCounts \subseteq 1..4096     \* readIsoPackets and IsIsochronous
  /\ MaxSubmits \in Nat /\ MaxTime \in Nat

VARIABLES now,      \* time.Now()
          isoNext,  \* isoNext[key]: end of the last reservation
          log       \* [endpoint, direction, packets, at, deadline] per call

vars == <<now, isoNext, log>>

Directions == {DirectionOut, DirectionIn}
Keys == {TimelineKey(e, d) : e \in Endpoints, d \in Directions}

\* A key that is not in the map reads as the zero time, before every `now`.
Init == /\ now = 0
        /\ isoNext = [k \in Keys |-> 0]
        /\ log = <<>>

Reserve(e, d, n) ==
  /\ Len(log) < MaxSubmits
  /\ LET k        == TimelineKey(e, d)
         deadline == Deadline(isoNext[k], n, now)
     IN /\ isoNext' = [isoNext EXCEPT ![k] = deadline]
        /\ log' = Append(log, [endpoint |-> e, direction |-> d, packets |-> n,
                               at |-> now, deadline |-> deadline])
  /\ UNCHANGED now

Tick == /\ now < MaxTime
        /\ now' = now + 1
        /\ UNCHANGED <<isoNext, log>>

\* Both bounds are reached: the model stops, the program would go on.
BoundsReached == /\ Len(log) = MaxSubmits /\ now = MaxTime
                 /\ UNCHANGED vars

Next == \/ \E e \in Endpoints, d \in Directions, n \in PacketCounts : Reserve(e, d, n)
        \/ Tick
        \/ BoundsReached

Spec == Init /\ [][Next]_vars

-----------------------------------------------------------------------------
TypeOK ==
  /\ now \in 0..MaxTime
  /\ isoNext \in [Keys -> Nat]
  /\ log \in Seq([endpoint : Endpoints, direction : Directions,
                  packets : PacketCounts, at : Nat, deadline : Nat])

SameTimeline(i, j) == /\ log[i].endpoint = log[j].endpoint
                      /\ log[i].direction = log[j].direction

\* A URB never completes before its own frames have passed since it arrived,
\* nor before they have passed since the URB queued ahead of it: "Reserving
\* consecutive deadlines preserves the USB full-speed frame cadence even with a
\* deep host queue" (server.go:210-211).  It depends on the packet counts.
CadenceKept ==
  \A j \in 1..Len(log) :
    /\ log[j].deadline >= log[j].at + log[j].packets
    /\ \A i \in 1..j - 1 :
         SameTimeline(i, j) => log[j].deadline >= log[i].deadline + log[j].packets

\* Reference: the completion times of a first-come first-served server that
\* works off each endpoint and direction by itself.  A URB is delayed exactly
\* by the longest backlog since some earlier arrival on its own timeline, never
\* by another endpoint or direction (server.go:347-348) and never more.
Backlog(i, j) ==
  Total([k \in 1..j |-> IF i <= k /\ SameTimeline(k, j) THEN Duration(log[k].packets) ELSE 0])
Turns(j) == {log[i].at + Backlog(i, j) : i \in {k \in 1..j : SameTimeline(k, j)}}
CompletesInTurn == \A j \in 1..Len(log) : log[j].deadline = Max(Turns(j))
=============================================================================
