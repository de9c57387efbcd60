------------------------------- MODULE DeviceHost -------------------------------
(***************************************************************************)
(* One device and everything that may call it: control requests one at a   *)
(* time, and goroutines that play and record on its endpoints.  The        *)
(* protocol around these calls is UrbSession; here they come in any order. *)
(***************************************************************************)
EXTENDS Device, Enumeration

CONSTANTS OtherRequests,  \* [setup, out] of requests no descriptor calls for
          MaxPlayed       \* bound: chunks played in a behaviour

VARIABLES played,       \* chunks handed to WritePlayback so far
          turnedDown    \* was a request that the descriptors call for stalled?

vars == <<deviceVars, played, turnedDown>>

Setup(type, request, value, index, length) ==
  [requestType |-> type, request |-> request, value |-> value,
   index |-> index, length |-> length]

Ask(s) == [setup |-> s, out |-> <<>>]
Send(s, bytes) == [setup |-> s, out |-> bytes]

\* What the descriptors call for.  To open the device: its configuration and the
\* alternate settings.
Opening ==
  LET b == Announced[<<2, 0>>]
  IN {Ask(Setup(0, 9, b[6], 0, 0))} \cup {Ask(Setup(1, 11, s[2], s[1], 0)) : s \in Settings(b)}

\* To show it: the descriptors, the strings they name, mute and volume of every
\* feature unit (selectors 1 and 2; the volume with minimum, maximum and step).  Only
\* whether a request is answered counts, so none has room for data.
Showing ==
  LET b == Announced[<<2, 0>>]
      names == {1, 2, 3} \cup UNION {NamesOnTheWay(b, e.terminal) : e \in Endpoints(b)}
  IN {Ask(Setup(128, 6, 256 * t, 0, 0)) : t \in {1, 2, 6}}
     \cup {Ask(Setup(128, 6, 256 * 3 + i, 1033, 0)) : i \in names}
     \cup {Send(Setup(33, 1, 256, 256 * u, 1), <<0>>) : u \in FeatureUnits(b)}
     \cup {Ask(Setup(161, 129, 256, 256 * u, 0)) : u \in FeatureUnits(b)}
     \cup {Ask(Setup(161, q, 512, 256 * u, 0)) : q \in 129..132, u \in FeatureUnits(b)}

\* The endpoints as the host's list of sound devices names them.
Listed == Shown(DeviceNumber, NumCables)

Requests == Opening \cup Showing \cup OtherRequests

\* The fields of a setup packet are unsigned.
ASSUME HostAssumption ==
  /\ MaxPlayed \in Nat
  /\ \A r \in Requests : r.setup.value \in Nat /\ r.setup.index \in Nat

Init == InitDevice /\ played = 0 /\ turnedDown = FALSE

Control(r) ==
  /\ HandleControl(r.setup, r.out)
  /\ turnedDown' = \/ turnedDown
                   \/ /\ answer'.status # 0
                      /\ \/ r \in Showing
                         \/ r \in Opening /\ (configuration = 1 \/ r.setup.request = 9)
  /\ UNCHANGED played

Play(w, ep) ==
  /\ played < MaxPlayed
  /\ played' = played + 1
  /\ BeginWritePlayback(w, ep, [ep |-> ep, n |-> played + 1])
  /\ UNCHANGED turnedDown

Record(w, ep) == BeginReadCapture(w, ep) /\ UNCHANGED <<played, turnedDown>>

Finish(w) == Return(w) /\ UNCHANGED <<deviceState, buffer, answer, late, played, turnedDown>>

\* Requests to show the device touch nothing that a call uses: in between is enough.
AllIdle == \A w \in Workers : call[w] = Idle

Next ==
  \/ \E r \in Opening \cup OtherRequests : Control(r)
  \/ \E r \in Showing : AllIdle /\ Control(r)
  \/ \E w \in Workers : \/ \E ep \in Cables : Play(w, ep) \/ Record(w, ep)
                        \/ DeviceStep(w) /\ UNCHANGED <<played, turnedDown>>
                        \/ Finish(w)

Spec == Init /\ [][Next]_vars

-----------------------------------------------------------------------------
Chunks == [ep : Cables, n : 1..MaxPlayed]

TypeOK ==
  /\ configuration \in 0..1
  /\ altSetting \in [Interfaces -> 0..1]
  /\ sampleRate = SampleRate
  /\ \A e \in mute \cup DOMAIN volume : FeatureEntity(e)
  /\ buffer \in [Cables -> Seq(Chunks)] /\ \A c \in Cables : Len(buffer[c]) <= RingCap
  /\ call \in [Workers -> [op : {"none", "write", "read"},
                           step : {"idle", "check", "move", "done"},
                           ep : 0..NumCables, chunk : Chunks \cup {Silence},
                           moved : 0..1]]
  /\ late \subseteq Chunks
  /\ played \in 0..MaxPlayed

\* A refused request has no partial effect: when a control request changes the
\* device or a ring it answers success, so the host's idea of the alternate
\* settings, rate, mute and volume stays that of the device.
RefusedChangesNothing ==
  [][call' = call /\ <<deviceState, buffer>>' # <<deviceState, buffer>>
       => answer'.status = 0]_vars

\* "Independent playback-to-recording loopback for every cable" (README:26):
\* a chunk is only ever stored in, and recorded from, the cable it was played on.
CablesIsolated ==
  /\ \A c \in Cables : \A x \in ToSet(buffer[c]) : x.ep = c
  /\ \A w \in Workers : call[w].op = "read" => call[w].chunk.ep \in {0, call[w].ep}

\* A device keeps what its descriptors announce: no request they call for is
\* stalled, and opening the alternate setting that holds an endpoint, and nothing
\* else, makes audio flow there, a millisecond to a packet as the timelines assume,
\* under the name of the cable that the window's list has at that endpoint
\* (descriptors.go:101-219 against device.go:92-244, server.go:207-213).
AnnouncedIsServed ==
  /\ ~turnedDown
  /\ \A e \in Endpoints(Announced[<<2, 0>>]) :
       LET active == IF e.address >= 128 THEN CaptureActive(e.address)
                                         ELSE PlaybackActive(e.address)
           kind == IF e.address >= 128 THEN "recording" ELSE "playback"
       IN /\ e.bytes = BytesPerMillisecond /\ e.microframes = 8
          /\ active <=> configuration = 1 /\ altSetting[e.interface] = e.alt
          /\ {x.name : x \in {y \in Listed : y.address = e.address}}
               = {<<kind, CableNumber(DeviceNumber, e.address % 128)>>}

\* While an interface is closed its ring holds nothing of the closed stream,
\* except chunks of calls that had seen it open and stored them afterwards
\* (device.go:245-254): closing, reconfiguring and storing race in any order.
StaleOnlyByRace ==
  \A c \in Cables : ~PlaybackActive(c) => ToSet(buffer[c]) \subseteq late

\* The interfaces of a cable reset that cable only (device.go:125-128): a control
\* request that empties a ring either configures the whole device or leaves an
\* interface of that cable closed and every other ring as it was.
ResetIsLocal ==
  [][\A c \in Cables : call' = call /\ buffer'[c] # buffer[c] =>
       \/ \A i \in Interfaces : altSetting'[i] = 0
       \/ /\ 0 \in {altSetting'[PlaybackInterface(c)], altSetting'[CaptureInterface(c)]}
          /\ \A d \in Cables \ {c} : buffer'[d] = buffer[d]]_vars
=============================================================================
