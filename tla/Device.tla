--------------------------------- MODULE Device ---------------------------------
(***************************************************************************)
(* internal/surround/device.go: one emulated USB audio device with a       *)
(* loopback ring per cable.  HandleControl runs under d.mu as a whole.     *)
(* WritePlayback and ReadCapture take d.mu only to look at the interface   *)
(* and then use the ring without it: each call has a step that checks and  *)
(* a step that moves the audio, with any other step in between.            *)
(*                                                                         *)
(* Audio moves in chunks, the payload of one URB; a ring holds RingCap of  *)
(* them and does with them what LoopbackStream says of samples.            *)
(***************************************************************************)
EXTENDS Descriptors, TLC

CONSTANTS DeviceNumber,  \* its number, in the bus ID and the product ID
          NumCables,     \* its cables
          RingCap,       \* chunks that fit into a ring
          Workers        \* goroutines that may call the device

ASSUME DeviceAssumption ==
  /\ Describable(DeviceNumber, FirstCable(DeviceNumber), NumCables)
  /\ RingCap \in Nat \ {0}

VARIABLES
  configuration, altSetting, sampleRate,   \* fields of Device
  mute,       \* the entities whose mute is set
  volume,     \* entity -> int16 for the entities that were set
  buffer,     \* buffer[c]: the chunks in the ring of cable c
  answer,     \* what the last HandleControl returned
  call,       \* call[w]: the WritePlayback or ReadCapture of w under way
  late        \* chunks stored while their playback interface was not active

deviceState == <<configuration, altSetting, sampleRate, mute, volume>>
deviceVars  == <<deviceState, buffer, answer, call, late>>

Cables == 1..NumCables
Interfaces == 0..2 * NumCables
Announced == DescriptorsOf(DeviceNumber, NumCables)

\* A chunk is named by the endpoint it was played on and a number; 0 is silence.
Silence == [ep |-> 0, n |-> 0]

Idle == [op |-> "none", step |-> "idle", ep |-> 0, chunk |-> Silence, moved |-> 0]

InitDevice ==
  /\ configuration = 0
  /\ altSetting = [i \in Interfaces |-> 0]
  /\ sampleRate = SampleRate
  /\ mute = {}
  /\ volume = <<>>
  /\ buffer = [c \in Cables |-> <<>>]
  /\ answer = [status |-> 0, data |-> <<>>]
  /\ call = [w \in Workers |-> Idle]
  /\ late = {}

-----------------------------------------------------------------------------
(* Lookups.  0 stands for nil. *)

MutantCableByInterface(i) == IF i \in 1..2 * NumCables THEN (i \div 2) ELSE 0

\* Cable c owns the interfaces 2c-1 (playback) and 2c (capture).
CableByInterface(i) == IF i \in 1..2 * NumCables THEN (i + 1) \div 2 ELSE 0

MutantCableByEndpoint(ep) == IF ep % 128 \in Cables THEN 1 ELSE 0

CableByEndpoint(ep) == IF ep % 128 \in Cables THEN ep % 128 ELSE 0

PlaybackInterface(c) == 2 * c - 1
CaptureInterface(c)  == 2 * c

PlaybackActive(ep) ==
  LET c == CableByEndpoint(ep)
  IN c # 0 /\ configuration = 1 /\ altSetting[PlaybackInterface(c)] = 1

CaptureActive(ep) ==
  LET c == CableByEndpoint(ep)
  IN c # 0 /\ configuration = 1 /\ altSetting[CaptureInterface(c)] = 1

\* Units 2 and 5 of every block of six.
FeatureEntity(e) == e >= 2 /\ (e - 1) % 6 \in {1, 4}

-----------------------------------------------------------------------------
(* HandleControl.  A setup packet has the fields requestType, request,     *)
(* value, index and length; `out` is the data stage of the transfer.       *)

Low(x)  == x % 256
High(x) == x \div 256

Standard(s)  == (s.requestType \div 32) % 4 = 0
Recipient(s) == s.requestType % 32

Truncate(b, n) == IF n < Len(b) THEN SubSeq(b, 1, n) ELSE b

Stall      == [status |-> -32, data |-> <<>>]
Done       == [status |-> 0, data |-> <<>>]
Data(s, b) == [status |-> 0, data |-> Truncate(b, s.length)]

Rate(b)    == b[1] + 256 * b[2] + 65536 * b[3]
Rate24(r)  == <<r % 256, (r \div 256) % 256, (r \div 65536) % 256>>
Int16(b)   == LET u == b[1] + 256 * b[2] IN IF u >= 32768 THEN u - 65536 ELSE u
Int16LE(v) == <<v % 256, (v \div 256) % 256>>
Volume(e)  == IF e \in DOMAIN volume THEN volume[e] ELSE 0

IsStandard(s, r) == Standard(s) /\ s.request = r

\* An endpoint request that selects the sampling frequency control.
IsRate(s, r) == /\ ~Standard(s) /\ s.request = r
                /\ Recipient(s) = 2 /\ High(s.value) = 1
                /\ CableByEndpoint(Low(s.index)) # 0

\* A request to the control interface for control cs of a feature unit.
IsFeature(s, r, cs) == /\ ~Standard(s) /\ s.request = r
                       /\ Recipient(s) = 1 /\ Low(s.index) = 0
                       /\ High(s.value) = cs /\ FeatureEntity(High(s.index))

ResetBuffers(cs) == buffer' = [c \in Cables |-> IF c \in cs THEN <<>> ELSE buffer[c]]

SetConfiguration(s) ==
  /\ IsStandard(s, 9) /\ Low(s.value) <= 1
  /\ configuration' = Low(s.value)
  /\ altSetting' = [i \in Interfaces |-> 0]
  /\ ResetBuffers(Cables)
  /\ answer' = Done
  /\ UNCHANGED <<sampleRate, mute, volume, call, late>>

\* The interface and its alternate setting, each cut to eight bits.
SettableInterface(s) ==
  /\ configuration = 1 /\ Low(s.value) <= 1
  /\ Low(s.index) \in Interfaces
  /\ Low(s.index) = 0 => Low(s.value) = 0

MutantEmptied(i, alt) == {}

\* Going back to alternate setting 0, on either side, empties the cable's ring.
Emptied(i, alt) == IF alt = 0 THEN {CableByInterface(i)} ELSE {}

SetInterface(s) ==
  /\ IsStandard(s, 11) /\ SettableInterface(s)
  /\ altSetting' = [altSetting EXCEPT ![Low(s.index)] = Low(s.value)]
  /\ ResetBuffers(Emptied(Low(s.index), Low(s.value)))
  /\ answer' = Done
  /\ UNCHANGED <<configuration, sampleRate, mute, volume, call, late>>

MutantRateAfter(rate) == rate

RateAfter(rate) == IF rate = SampleRate THEN rate ELSE sampleRate

\* Fewer than three bytes are accepted and ignored, another rate is refused.
SetSampleRate(s, out) ==
  /\ IsRate(s, 1)
  /\ IF Len(out) < 3 THEN answer' = Done /\ UNCHANGED sampleRate
     ELSE /\ sampleRate' = RateAfter(Rate(out))
          /\ answer' = IF Rate(out) = SampleRate THEN Done ELSE Stall
  /\ UNCHANGED <<configuration, altSetting, mute, volume, buffer, call, late>>

SetMute(s, out) ==
  /\ IsFeature(s, 1, 1)
  /\ mute' = IF Len(out) = 0 THEN mute
             ELSE IF out[1] # 0 THEN mute \cup {High(s.index)}
             ELSE mute \ {High(s.index)}
  /\ answer' = Done
  /\ UNCHANGED <<configuration, altSetting, sampleRate, volume, buffer, call, late>>

SetVolume(s, out) ==
  /\ IsFeature(s, 1, 2)
  /\ volume' = IF Len(out) < 2 THEN volume
               ELSE [e \in DOMAIN volume \cup {High(s.index)} |->
                       IF e = High(s.index) THEN Int16(out) ELSE volume[e]]
  /\ answer' = Done
  /\ UNCHANGED <<configuration, altSetting, sampleRate, mute, buffer, call, late>>

\* Requests that change nothing; every request without an answer stalls.
Reply(s) ==
  LET found == <<High(s.value), Low(s.value)>>
      e     == High(s.index)
  IN CASE IsStandard(s, 6) /\ found \in DOMAIN Announced -> Data(s, Announced[found])
       [] \E r \in {1, 3, 5} : IsStandard(s, r) -> Done
       [] IsStandard(s, 8) -> Data(s, <<configuration>>)
       [] IsStandard(s, 10) /\ Low(s.index) \in Interfaces ->
            Data(s, <<altSetting[Low(s.index)]>>)
       [] \E r \in {0, 12} : IsStandard(s, r) -> Data(s, <<0, 0>>)
       [] IsRate(s, 129) -> Data(s, Rate24(sampleRate))
       [] \E r \in {130, 131} : IsRate(s, r) -> Data(s, Rate24(SampleRate))
       [] IsRate(s, 132) -> Data(s, Rate24(1))
       [] IsFeature(s, 129, 1) -> Data(s, IF e \in mute THEN <<1>> ELSE <<0>>)
       [] IsFeature(s, 129, 2) -> Data(s, Int16LE(Volume(e)))
       [] IsFeature(s, 130, 2) -> Data(s, Int16LE(-60 * 256))
       [] IsFeature(s, 131, 2) -> Data(s, Int16LE(0))
       [] IsFeature(s, 132, 2) -> Data(s, Int16LE(256))
       [] OTHER -> Stall

ReadOnly(s) ==
  /\ ~(IsStandard(s, 9) /\ Low(s.value) <= 1)
  /\ ~(IsStandard(s, 11) /\ SettableInterface(s))
  /\ ~(IsRate(s, 1) \/ IsFeature(s, 1, 1) \/ IsFeature(s, 1, 2))
  /\ answer' = Reply(s)
  /\ UNCHANGED <<deviceState, buffer, call, late>>

HandleControl(s, out) ==
  \/ SetConfiguration(s)
  \/ SetInterface(s)
  \/ SetSampleRate(s, out)
  \/ SetMute(s, out)
  \/ SetVolume(s, out)
  \/ ReadOnly(s)

-----------------------------------------------------------------------------
(* WritePlayback and ReadCapture by worker w. *)

\* A full ring loses its oldest chunk to the new one.
Push(b, chunk) == IF Len(b) = RingCap THEN Append(Tail(b), chunk) ELSE Append(b, chunk)

Begin(w, op, ep, chunk) ==
  /\ call[w].step = "idle"
  /\ call' = [call EXCEPT ![w] = [op |-> op, step |-> "check", ep |-> ep,
                                  chunk |-> chunk, moved |-> 0]]

BeginWritePlayback(w, ep, chunk) ==
  /\ Begin(w, "write", ep, chunk)
  /\ UNCHANGED <<deviceState, buffer, answer, late>>

BeginReadCapture(w, ep) ==
  /\ Begin(w, "read", ep, Silence)
  /\ UNCHANGED <<deviceState, buffer, answer, late>>

\* Under d.mu: an inactive interface ends the call, with nothing taken or with
\* silence.
CheckActive(w) ==
  /\ call[w].step = "check"
  /\ LET active == \/ call[w].op = "write" /\ PlaybackActive(call[w].ep)
                   \/ call[w].op = "read" /\ CaptureActive(call[w].ep)
     IN call' = [call EXCEPT ![w].step = IF active THEN "move" ELSE "done"]
  /\ UNCHANGED <<deviceState, buffer, answer, late>>

MutantTaken(b) == IF Len(b) = RingCap THEN 0 ELSE 1

\* Buffer.Write returns the length of what it was given, though the ring is full.
Taken(b) == 1

\* Buffer.Write, without d.mu: the interface may have closed since the check.
StoreChunk(w) ==
  /\ call[w].step = "move" /\ call[w].op = "write"
  /\ LET c == CableByEndpoint(call[w].ep)
     IN /\ buffer' = [buffer EXCEPT ![c] = Push(@, call[w].chunk)]
        /\ call' = [call EXCEPT ![w].step = "done", ![w].moved = Taken(buffer[c])]
  /\ late' = IF PlaybackActive(call[w].ep) THEN late ELSE late \cup {call[w].chunk}
  /\ UNCHANGED <<deviceState, answer>>

MutantUnread(b) == b

Unread(b) == Tail(b)

\* Buffer.ReadSilence, without d.mu.
TakeChunk(w) ==
  /\ call[w].step = "move" /\ call[w].op = "read"
  /\ LET c == CableByEndpoint(call[w].ep)
     IN \/ /\ buffer[c] = <<>>
           /\ call' = [call EXCEPT ![w].step = "done"]
           /\ UNCHANGED buffer
        \/ /\ buffer[c] # <<>>
           /\ call' = [call EXCEPT ![w].step = "done", ![w].moved = 1,
                                   ![w].chunk = Head(buffer[c])]
           /\ buffer' = [buffer EXCEPT ![c] = Unread(@)]
  /\ UNCHANGED <<deviceState, answer, late>>

DeviceStep(w) == CheckActive(w) \/ StoreChunk(w) \/ TakeChunk(w)

\* The caller takes the result.
Return(w) ==
  /\ call[w].step = "done"
  /\ call' = [call EXCEPT ![w] = Idle]
=============================================================================
