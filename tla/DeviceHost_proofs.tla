--------------------------- MODULE DeviceHost_proofs ---------------------------
(***************************************************************************)
(* What a device promises holds for every number it may have, any cables,  *)
(* rings and goroutines, and whatever requests arrive in between.          *)
(***************************************************************************)
EXTENDS DeviceHost, SequenceTheorems, WellFoundedInduction, TLAPS

Calls == [op : {"none", "write", "read"}, step : {"idle", "check", "move", "done"},
          ep : 0..NumCables, chunk : Chunks \cup {Silence}, moved : 0..1]

\* A call under way is for one of the cables, and a write has a chunk of that cable.
OnOneCable(e) == /\ e.step # "idle" => e.ep \in Cables
                 /\ e.op = "write" => e.chunk \in Chunks /\ e.chunk.ep = e.ep

Types == TypeOK /\ \A w \in Workers : OnOneCable(call[w])

LEMMA Layout ==
  /\ NumCables \in 1..4 /\ RingCap \in Nat \ {0} /\ MaxPlayed \in Nat
  /\ \A c \in Cables : /\ CableByEndpoint(c) = c
                       /\ PlaybackInterface(c) \in Interfaces /\ CaptureInterface(c) \in Interfaces
  /\ \A i \in Interfaces \ {0} : CableByInterface(i) \in Cables
  /\ \A c \in Cables, i \in Interfaces :
       CableByInterface(i) = c <=> i \in {PlaybackInterface(c), CaptureInterface(c)}
<1>1. NumCables \in 1..4 /\ RingCap \in Nat \ {0} /\ MaxPlayed \in Nat
  <2>1. MaxPlayed \in Nat
    BY HostAssumption
  <2>2. NumCables \in 1..4 /\ RingCap \in Nat \ {0}
    BY DeviceAssumption DEF Describable, MaxCablesPerUSBDevice
  <2> QED BY <2>1, <2>2
<1>2. \A c \in Cables : CableByEndpoint(c) = c
  BY <1>1 DEF Cables, CableByEndpoint
<1>3. \A c \in Cables : PlaybackInterface(c) \in Interfaces /\ CaptureInterface(c) \in Interfaces
  BY <1>1 DEF Cables, Interfaces, PlaybackInterface, CaptureInterface
<1>4. \A i \in Interfaces \ {0} : CableByInterface(i) \in Cables
  BY <1>1 DEF Cables, Interfaces, CableByInterface
<1>5. \A c \in Cables, i \in Interfaces :
        CableByInterface(i) = c <=> i \in {PlaybackInterface(c), CaptureInterface(c)}
  BY <1>1 DEF Cables, Interfaces, CableByInterface, PlaybackInterface, CaptureInterface
<1> QED BY <1>1, <1>2, <1>3, <1>4, <1>5

LEMMA RequestsFit ==
  ASSUME NEW r \in Requests
  PROVE  Low(r.setup.value) \in 0..255 /\ Low(r.setup.index) \in 0..255
<1>1. r.setup.value \in Nat /\ r.setup.index \in Nat
  BY HostAssumption
<1>2. \A n \in Nat : Low(n) \in 0..255
  BY DEF Low
<1> QED BY <1>1, <1>2

LEMMA CallStates ==
  ASSUME NEW e \in Calls
  PROVE  /\ \A l \in {"move", "done"} : \E d \in Calls :
              /\ d = [e EXCEPT !.step = l] /\ d.step = l
              /\ d.op = e.op /\ d.ep = e.ep /\ d.chunk = e.chunk
         /\ \E d \in Calls :
              /\ d = [e EXCEPT !.moved = 1] /\ d.step = e.step
              /\ d.op = e.op /\ d.ep = e.ep /\ d.chunk = e.chunk
         /\ \A x \in Chunks : \E d \in Calls :
              /\ d = [e EXCEPT !.chunk = x] /\ d.step = e.step
              /\ d.op = e.op /\ d.ep = e.ep /\ d.chunk = x
<1>1. ASSUME NEW l \in {"move", "done"}
      PROVE  LET d == [e EXCEPT !.step = l]
             IN d \in Calls /\ d.step = l /\ d.op = e.op /\ d.ep = e.ep /\ d.chunk = e.chunk
  BY DEF Calls
<1>2. LET d == [e EXCEPT !.moved = 1]
      IN d \in Calls /\ d.step = e.step /\ d.op = e.op /\ d.ep = e.ep /\ d.chunk = e.chunk
  BY DEF Calls
<1>3. ASSUME NEW x \in Chunks
      PROVE  LET d == [e EXCEPT !.chunk = x]
             IN /\ d \in Calls /\ d.step = e.step /\ d.op = e.op /\ d.ep = e.ep
                /\ d.chunk = x
  BY DEF Calls
<1> QED BY <1>1, <1>2, <1>3

LEMMA FirstOfSeq ==
  ASSUME NEW S, NEW q \in Seq(S), q # <<>>
  PROVE  /\ Head(q) \in S /\ Tail(q) \in Seq(S) /\ Len(Tail(q)) = Len(q) - 1 /\ Len(q) \in Nat \ {0}
         /\ Head(q) \in ToSet(q) /\ ToSet(Tail(q)) \subseteq ToSet(q)
<1>1. Head(q) \in S /\ Tail(q) \in Seq(S) /\ Len(Tail(q)) = Len(q) - 1 /\ Len(q) \in Nat \ {0}
  BY HeadTailProperties, EmptySeq, LenProperties
<1>2. Head(q) = q[1] /\ \A i \in 1..Len(q) - 1 : Tail(q)[i] = q[i + 1]
  BY HeadTailProperties
<1>3. 1 \in DOMAIN q /\ \A i \in DOMAIN Tail(q) : i \in 1..Len(q) - 1 /\ i + 1 \in DOMAIN q
  BY <1>1
<1> QED BY <1>1, <1>2, <1>3 DEF ToSet

\* A ring takes the new chunk, and drops the oldest for it when it is full.
LEMMA PushFits ==
  ASSUME NEW S, NEW q \in Seq(S), Len(q) <= RingCap, NEW x \in S
  PROVE  /\ Push(q, x) \in Seq(S) /\ Len(Push(q, x)) <= RingCap
         /\ ToSet(Push(q, x)) \subseteq ToSet(q) \cup {x}
<1>1. ASSUME NEW p \in Seq(S)
      PROVE  /\ Append(p, x) \in Seq(S) /\ Len(Append(p, x)) = Len(p) + 1
             /\ ToSet(Append(p, x)) \subseteq ToSet(p) \cup {x}
  <2>1. /\ Append(p, x) \in Seq(S) /\ Len(Append(p, x)) = Len(p) + 1
        /\ Append(p, x)[Len(p) + 1] = x
        /\ \A i \in 1..Len(p) : Append(p, x)[i] = p[i]
    BY AppendProperties
  <2>2. DOMAIN Append(p, x) = 1..Len(p) + 1 /\ DOMAIN p = 1..Len(p) /\ Len(p) \in Nat
    BY <2>1, LenProperties
  <2> QED BY <2>1, <2>2 DEF ToSet
<1>2. RingCap \in Nat \ {0} /\ Len(q) \in Nat
  BY Layout
<1>3. CASE Len(q) = RingCap
  <2>1. q # <<>>
    BY <1>2, <1>3
  <2>2. Tail(q) \in Seq(S) /\ Len(Tail(q)) = Len(q) - 1 /\ ToSet(Tail(q)) \subseteq ToSet(q)
    BY <2>1, FirstOfSeq
  <2>3. Push(q, x) = Append(Tail(q), x)
    BY <1>3 DEF Push
  <2>4. /\ Append(Tail(q), x) \in Seq(S) /\ Len(Append(Tail(q), x)) = Len(Tail(q)) + 1
        /\ ToSet(Append(Tail(q), x)) \subseteq ToSet(Tail(q)) \cup {x}
    BY <1>1, <2>2
  <2>5. Len(Tail(q)) + 1 <= RingCap
    BY <1>2, <1>3, <2>2
  <2> QED BY <2>2, <2>3, <2>4, <2>5
<1>4. CASE Len(q) # RingCap
  BY <1>1, <1>2, <1>4 DEF Push
<1> QED BY <1>3, <1>4

-----------------------------------------------------------------------------
(* Types.                                                                    *)

\* The part of the state a control request may change.
StateTypes ==
  /\ configuration \in 0..1
  /\ altSetting \in [Interfaces -> 0..1]
  /\ sampleRate = SampleRate
  /\ \A e \in mute \cup DOMAIN volume : FeatureEntity(e)

BufferTypes ==
  buffer \in [Cables -> Seq(Chunks)] /\ \A c \in Cables : Len(buffer[c]) <= RingCap

CallTypes == /\ call \in [Workers -> Calls] /\ \A w \in Workers : OnOneCable(call[w])
             /\ late \subseteq Chunks

LEMMA TypesParts ==
  Types <=> StateTypes /\ BufferTypes /\ CallTypes /\ played \in 0..MaxPlayed
BY DEF Types, TypeOK, StateTypes, BufferTypes, CallTypes, Calls

\* Resetting the buffers of some cables, in all rings or none.
LEMMA ResetFits ==
  ASSUME BufferTypes, NEW cs, ResetBuffers(cs)
  PROVE  /\ BufferTypes'
         /\ \A c \in Cables : buffer'[c] = IF c \in cs THEN <<>> ELSE buffer[c]
<1>1. /\ buffer' = [c \in Cables |-> IF c \in cs THEN <<>> ELSE buffer[c]]
      /\ \A c \in Cables : buffer'[c] = IF c \in cs THEN <<>> ELSE buffer[c]
  BY DEF ResetBuffers
<1>2. <<>> \in Seq(Chunks) /\ Len(<<>>) <= RingCap
  BY Layout, EmptySeq
<1> QED BY <1>1, <1>2 DEF BufferTypes

LEMMA ControlTypes ==
  ASSUME Types, NEW s, NEW out, HandleControl(s, out), UNCHANGED played,
         Low(s.value) \in 0..255, Low(s.index) \in 0..255
  PROVE  Types'
<1>1. StateTypes /\ BufferTypes /\ CallTypes /\ played \in 0..MaxPlayed
  BY TypesParts
<1>3. ASSUME UNCHANGED <<call, late>>, StateTypes', BufferTypes' PROVE Types'
  <2>1. CallTypes'
    BY <1>1, <1>3 DEF CallTypes
  <2> QED
    BY <1>1, <1>3, <2>1 DEF Types, TypeOK, StateTypes, BufferTypes, CallTypes, Calls
<1>4. CASE SetConfiguration(s)
  <2>1. Low(s.value) \in 0..1
    BY <1>4 DEF SetConfiguration
  <2>2. StateTypes'
    BY <1>1, <1>4, <2>1 DEF SetConfiguration, StateTypes
  <2> QED BY <1>1, <1>3, <1>4, <2>2, ResetFits DEF SetConfiguration
<1>5. CASE SetInterface(s)
  <2>1. Low(s.value) \in 0..1 /\ Low(s.index) \in Interfaces
    BY <1>5 DEF SetInterface, SettableInterface
  <2>2. StateTypes'
    BY <1>1, <1>5, <2>1 DEF SetInterface, StateTypes
  <2> QED BY <1>1, <1>3, <1>5, <2>2, ResetFits DEF SetInterface
<1>6. CASE SetSampleRate(s, out)
  <2>1. sampleRate' = SampleRate
    BY <1>1, <1>6 DEF SetSampleRate, RateAfter, StateTypes
  <2> QED BY <1>1, <1>3, <1>6, <2>1 DEF SetSampleRate, StateTypes, BufferTypes
<1>7. CASE SetMute(s, out)
  <2>1. FeatureEntity(High(s.index))
    BY <1>7 DEF SetMute, IsFeature
  <2>2. mute' \subseteq mute \cup {High(s.index)}
    BY <1>7 DEF SetMute
  <2> QED BY <1>1, <1>3, <1>7, <2>1, <2>2 DEF SetMute, StateTypes, BufferTypes
<1>8. CASE SetVolume(s, out)
  <2>1. FeatureEntity(High(s.index))
    BY <1>8 DEF SetVolume, IsFeature
  <2>2. DOMAIN volume' \subseteq DOMAIN volume \cup {High(s.index)}
    BY <1>8 DEF SetVolume
  <2> QED BY <1>1, <1>3, <1>8, <2>1, <2>2 DEF SetVolume, StateTypes, BufferTypes
<1>9. CASE ReadOnly(s)
  BY <1>1, <1>3, <1>9 DEF ReadOnly, deviceState, StateTypes, BufferTypes
<1> QED BY <1>4, <1>5, <1>6, <1>7, <1>8, <1>9 DEF HandleControl

\* What a step inside the device does to its call, and to a ring.
LEMMA CallMoves ==
  ASSUME BufferTypes, CallTypes, NEW w \in Workers, DeviceStep(w)
  PROVE  /\ BufferTypes' /\ CallTypes' /\ call' # call /\ UNCHANGED deviceState
         /\ call'[w].op = call[w].op /\ call'[w].ep = call[w].ep
         /\ \A v \in Workers \ {w} : call'[v] = call[v]
         /\ late \subseteq late'
         /\ \E c \in Cables :
              /\ c = call[w].ep
              /\ \A d \in Cables \ {c} : buffer'[d] = buffer[d]
              /\ \/ call'[w].chunk = call[w].chunk
                 \/ call'[w].chunk \in ToSet(buffer[c])
              /\ \/ ToSet(buffer'[c]) \subseteq ToSet(buffer[c])
                 \/ /\ ToSet(buffer'[c]) \subseteq ToSet(buffer[c]) \cup {call[w].chunk}
                    /\ call[w].chunk.ep = c
                    /\ PlaybackActive(c) \/ call[w].chunk \in late'
<1>1. call \in [Workers -> Calls] /\ call[w] \in Calls /\ OnOneCable(call[w]) /\ late \subseteq Chunks
  BY DEF CallTypes
<1>2. PICK c \in Cables : c = call[w].ep /\ CableByEndpoint(call[w].ep) = c
  <2>1. call[w].step # "idle"
    BY DEF DeviceStep, CheckActive, StoreChunk, TakeChunk
  <2> QED BY <1>1, <2>1, Layout DEF OnOneCable
<1>3. buffer[c] \in Seq(Chunks) /\ Len(buffer[c]) <= RingCap
  BY DEF BufferTypes
<1>4. ASSUME NEW e \in Calls, call' = [call EXCEPT ![w] = e], e.step # call[w].step,
             e.op = call[w].op, e.ep = call[w].ep, e.chunk = call[w].chunk \/ e.op = "read",
             late' \subseteq Chunks
      PROVE  /\ CallTypes' /\ call' # call /\ call'[w] = e
             /\ \A v \in Workers \ {w} : call'[v] = call[v]
  <2>1. call'[w] = e /\ \A v \in Workers \ {w} : call'[v] = call[v]
    BY <1>1, <1>4
  <2>2. call'[w] # call[w]
    BY <1>4, <2>1
  <2>3. OnOneCable(e)
    BY <1>1, <1>2, <1>4 DEF OnOneCable
  <2> QED BY <1>1, <1>4, <2>1, <2>2, <2>3 DEF CallTypes
<1>5. CASE CheckActive(w)
  <2>1. PICK l \in {"move", "done"} : call' = [call EXCEPT ![w].step = l]
    BY <1>5 DEF CheckActive
  <2>2. UNCHANGED <<deviceState, buffer, late>> /\ call[w].step = "check"
    BY <1>5 DEF CheckActive
  <2>3. PICK e \in Calls : /\ e = [call[w] EXCEPT !.step = l] /\ e.step = l
                           /\ e.op = call[w].op /\ e.ep = call[w].ep /\ e.chunk = call[w].chunk
    BY <1>1, CallStates
  <2>4. call' = [call EXCEPT ![w] = e]
    BY <2>1, <2>3
  <2>5. BufferTypes'
    BY <2>2 DEF BufferTypes
  <2> QED BY <1>1, <1>2, <1>4, <2>2, <2>3, <2>4, <2>5
<1>6. CASE StoreChunk(w)
  <2>1. call[w].step = "move" /\ call[w].op = "write" /\ UNCHANGED deviceState
    BY <1>6 DEF StoreChunk
  <2>2. call[w].chunk \in Chunks /\ call[w].chunk.ep = c
    BY <1>1, <1>2, <2>1 DEF OnOneCable
  <2>3. /\ buffer' = [buffer EXCEPT ![c] = Push(@, call[w].chunk)]
        /\ call' = [call EXCEPT ![w].step = "done", ![w].moved = 1]
        /\ late' = IF PlaybackActive(c) THEN late ELSE late \cup {call[w].chunk}
    BY <1>2, <1>6 DEF StoreChunk, Taken
  <2>4. PICK d \in Calls : /\ d = [call[w] EXCEPT !.step = "done"] /\ d.step = "done"
                           /\ d.op = call[w].op /\ d.ep = call[w].ep /\ d.chunk = call[w].chunk
    BY <1>1, CallStates
  <2>5. PICK e \in Calls : /\ e = [d EXCEPT !.moved = 1] /\ e.step = d.step
                           /\ e.op = d.op /\ e.ep = d.ep /\ e.chunk = d.chunk
    BY ONLY CallStates, d \in Calls
  <2>6. call' = [call EXCEPT ![w] = e]
    BY <1>1, <2>3, <2>4, <2>5
  <2>7. /\ CallTypes' /\ call' # call /\ call'[w] = e
        /\ \A v \in Workers \ {w} : call'[v] = call[v]
    BY ZenonT(30), <1>1, <1>4, <2>1, <2>2, <2>3, <2>4, <2>5, <2>6
  <2>8. /\ Push(buffer[c], call[w].chunk) \in Seq(Chunks)
        /\ Len(Push(buffer[c], call[w].chunk)) <= RingCap
        /\ ToSet(Push(buffer[c], call[w].chunk)) \subseteq ToSet(buffer[c]) \cup {call[w].chunk}
    BY <1>3, <2>2, PushFits
  <2>9. \A b \in Cables : buffer'[b] = IF b = c THEN Push(buffer[c], call[w].chunk) ELSE buffer[b]
    BY <2>3 DEF BufferTypes
  <2>10. BufferTypes'
    BY <2>3, <2>8, <2>9 DEF BufferTypes
  <2>11. /\ ToSet(buffer'[c]) \subseteq ToSet(buffer[c]) \cup {call[w].chunk}
         /\ \A b \in Cables \ {c} : buffer'[b] = buffer[b]
    BY <2>8, <2>9
  <2>12. late \subseteq late' /\ (PlaybackActive(c) \/ call[w].chunk \in late')
    BY <2>3
  <2> QED BY <1>2, <2>1, <2>2, <2>4, <2>5, <2>7, <2>10, <2>11, <2>12
<1>7. CASE TakeChunk(w)
  <2>1. /\ call[w].step = "move" /\ call[w].op = "read" /\ UNCHANGED deviceState
        /\ late' = late
    BY <1>7 DEF TakeChunk
  <2>2. PICK d \in Calls : /\ d = [call[w] EXCEPT !.step = "done"] /\ d.step = "done"
                           /\ d.op = call[w].op /\ d.ep = call[w].ep /\ d.chunk = call[w].chunk
    BY <1>1, CallStates
  <2>3. CASE buffer[c] = <<>>
    <3>1. call' = [call EXCEPT ![w] = d] /\ buffer' = buffer
      BY <1>2, <1>7, <2>2, <2>3 DEF TakeChunk
    <3>2. /\ CallTypes' /\ call' # call /\ call'[w] = d
          /\ \A v \in Workers \ {w} : call'[v] = call[v]
      BY <1>1, <1>4, <2>1, <2>2, <3>1
    <3> QED BY <1>2, <2>1, <2>2, <3>1, <3>2 DEF BufferTypes
  <2>4. CASE buffer[c] # <<>>
    <3>1. PICK x \in Chunks : x = Head(buffer[c]) /\ x \in ToSet(buffer[c])
      BY <1>3, <2>4, FirstOfSeq
    <3>2. /\ buffer' = [buffer EXCEPT ![c] = Tail(@)]
          /\ call' = [call EXCEPT ![w].step = "done", ![w].moved = 1, ![w].chunk = x]
      BY <1>2, <1>7, <2>4, <3>1 DEF TakeChunk, Unread
    <3>3. PICK m \in Calls : /\ m = [d EXCEPT !.moved = 1] /\ m.step = d.step
                             /\ m.op = d.op /\ m.ep = d.ep
      BY ONLY CallStates, d \in Calls
    <3>4. PICK e \in Calls : /\ e = [m EXCEPT !.chunk = x] /\ e.step = m.step
                             /\ e.op = m.op /\ e.ep = m.ep /\ e.chunk = x
      BY ONLY CallStates, m \in Calls, x \in Chunks
    <3>5. call' = [call EXCEPT ![w] = e]
      BY <1>1, <2>2, <3>2, <3>3, <3>4
    <3>6. /\ CallTypes' /\ call' # call /\ call'[w] = e
          /\ \A v \in Workers \ {w} : call'[v] = call[v]
      BY <1>1, <1>4, <2>1, <2>2, <3>3, <3>4, <3>5
    <3>7. /\ Tail(buffer[c]) \in Seq(Chunks) /\ Len(Tail(buffer[c])) <= RingCap
          /\ ToSet(Tail(buffer[c])) \subseteq ToSet(buffer[c])
      <4>1. /\ Tail(buffer[c]) \in Seq(Chunks) /\ Len(Tail(buffer[c])) = Len(buffer[c]) - 1
            /\ ToSet(Tail(buffer[c])) \subseteq ToSet(buffer[c]) /\ Len(buffer[c]) \in Nat \ {0}
        BY <1>3, <2>4, FirstOfSeq
      <4> QED BY <1>3, <4>1, Layout
    <3>8. \A b \in Cables : buffer'[b] = IF b = c THEN Tail(buffer[c]) ELSE buffer[b]
      BY <3>2 DEF BufferTypes
    <3>9. BufferTypes'
      BY <3>2, <3>7, <3>8 DEF BufferTypes
    <3> QED BY <1>2, <2>1, <2>2, <3>1, <3>3, <3>4, <3>6, <3>7, <3>8, <3>9
  <2> QED BY <2>3, <2>4
<1> QED BY <1>5, <1>6, <1>7 DEF DeviceStep

LEMMA TypesInit ==
  ASSUME Init
  PROVE  Types
<1>1. Silence \in Chunks \cup {Silence} /\ Idle \in Calls /\ Idle.step = "idle" /\ Idle.op = "none"
  BY Layout DEF Idle, Calls
<1>2. CallTypes
  <2> HIDE DEF Idle
  <2> QED BY <1>1 DEF Init, InitDevice, CallTypes, OnOneCable
<1>3. BufferTypes
  BY Layout, EmptySeq DEF Init, InitDevice, BufferTypes
<1>4. StateTypes
  <2>1. DOMAIN <<>> = {}
    BY EmptySeq
  <2> QED BY <2>1 DEF Init, InitDevice, StateTypes
<1>5. played \in 0..MaxPlayed
  BY Layout DEF Init
<1> QED BY <1>2, <1>3, <1>4, <1>5, TypesParts

\* What Next does, by who does it.
Steps == \/ \E r \in Requests : Control(r)
         \/ \E w \in Workers, ep \in Cables : Play(w, ep) \/ Record(w, ep)
         \/ \E w \in Workers : DeviceStep(w) /\ UNCHANGED <<played, turnedDown>>
         \/ \E w \in Workers : Finish(w)
         \/ UNCHANGED vars

LEMMA NextSteps == [Next]_vars => Steps
BY DEF Next, Steps, Requests

LEMMA FreshCalls ==
  ASSUME NEW ep \in Cables
  PROVE  /\ \A x \in Chunks : \E e \in Calls :
              /\ e = [op |-> "write", step |-> "check", ep |-> ep, chunk |-> x, moved |-> 0]
              /\ e.op = "write" /\ e.ep = ep /\ e.chunk = x
         /\ \E e \in Calls :
              /\ e = [op |-> "read", step |-> "check", ep |-> ep, chunk |-> Silence,
                     moved |-> 0]
              /\ e.op = "read" /\ e.ep = ep /\ e.chunk = Silence
<1>1. ep \in 0..NumCables
  BY Layout DEF Cables
<1>2. ASSUME NEW x \in Chunks \cup {Silence}, NEW op \in {"none", "write", "read"}
      PROVE  LET e == [op |-> op, step |-> "check", ep |-> ep, chunk |-> x, moved |-> 0]
             IN e \in Calls /\ e.op = op /\ e.ep = ep /\ e.chunk = x
  <2> HIDE DEF Silence
  <2> QED BY <1>1 DEF Calls
<1>3. Silence \in Chunks \cup {Silence} /\ Chunks \subseteq Chunks \cup {Silence}
  OBVIOUS
<1> HIDE DEF Silence
<1> QED BY ZenonT(30), <1>2, <1>3

\* Calling and returning leave the device and its rings alone.
LEMMA CallerFacts ==
  ASSUME Types, NEW w \in Workers,
         Finish(w) \/ \E ep \in Cables : Play(w, ep) \/ Record(w, ep)
  PROVE  /\ CallTypes' /\ UNCHANGED <<deviceState, buffer, late>> /\ played' \in 0..MaxPlayed
         /\ \A v \in Workers \ {w} : call'[v] = call[v]
         /\ call'[w].op = "read" => call'[w].chunk = Silence
<1>1. CallTypes /\ call \in [Workers -> Calls] /\ played \in 0..MaxPlayed /\ MaxPlayed \in Nat
  BY TypesParts, Layout DEF CallTypes
<1>2. ASSUME NEW e \in Calls, OnOneCable(e), call' = [call EXCEPT ![w] = e], late' = late
      PROVE  CallTypes' /\ call'[w] = e /\ \A v \in Workers \ {w} : call'[v] = call[v]
  BY <1>1, <1>2 DEF CallTypes
<1>3. CASE Finish(w)
  <2>1. call' = [call EXCEPT ![w] = Idle] /\ UNCHANGED <<deviceState, buffer, late, played>>
    BY <1>3 DEF Finish, Return
  <2>2. Idle \in Calls /\ OnOneCable(Idle) /\ Idle.op = "none"
    BY Layout DEF Idle, Calls, OnOneCable
  <2> HIDE DEF Idle
  <2> QED BY <1>1, <1>2, <2>1, <2>2
<1>4. ASSUME NEW ep \in Cables, Play(w, ep)
      PROVE  /\ CallTypes' /\ UNCHANGED <<deviceState, buffer, late>> /\ played' \in 0..MaxPlayed
             /\ \A v \in Workers \ {w} : call'[v] = call[v]
             /\ call'[w].op = "read" => call'[w].chunk = Silence
  <2>1. PICK x \in Chunks : x = [ep |-> ep, n |-> played + 1] /\ x.ep = ep
    <3>1. played + 1 \in 1..MaxPlayed
      BY <1>1, <1>4 DEF Play
    <3>2. [ep |-> ep, n |-> played + 1] \in Chunks
      BY ONLY <3>1, ep \in Cables DEF Chunks
    <3>3. [ep |-> ep, n |-> played + 1].ep = ep
      OBVIOUS
    <3> QED BY <3>2, <3>3
  <2>2. PICK e \in Calls : /\ e = [op |-> "write", step |-> "check", ep |-> ep, chunk |-> x, moved |-> 0]
                           /\ e.op = "write" /\ e.ep = ep /\ e.chunk = x
    BY ONLY FreshCalls, x \in Chunks, ep \in Cables
  <2>3. call' = [call EXCEPT ![w] = e] /\ UNCHANGED <<deviceState, buffer, late>>
        /\ played' = played + 1 /\ played < MaxPlayed
    BY <1>4, <2>1, <2>2 DEF Play, BeginWritePlayback, Begin
  <2>4. OnOneCable(e)
    BY <2>1, <2>2 DEF OnOneCable
  <2>5. played' \in 0..MaxPlayed
    BY <1>1, <2>3
  <2>6. CallTypes' /\ call'[w] = e /\ \A v \in Workers \ {w} : call'[v] = call[v]
    BY <1>2, <2>3, <2>4
  <2> QED BY <2>2, <2>3, <2>5, <2>6
<1>5. ASSUME NEW ep \in Cables, Record(w, ep)
      PROVE  /\ CallTypes' /\ UNCHANGED <<deviceState, buffer, late>> /\ played' \in 0..MaxPlayed
             /\ \A v \in Workers \ {w} : call'[v] = call[v]
             /\ call'[w].op = "read" => call'[w].chunk = Silence
  <2>1. PICK e \in Calls : /\ e = [op |-> "read", step |-> "check", ep |-> ep, chunk |-> Silence,
                                   moved |-> 0]
                           /\ e.op = "read" /\ e.ep = ep /\ e.chunk = Silence
    BY FreshCalls
  <2>2. call' = [call EXCEPT ![w] = e] /\ UNCHANGED <<deviceState, buffer, late, played>>
    BY <1>5, <2>1 DEF Record, BeginReadCapture, Begin
  <2>3. OnOneCable(e)
    BY <2>1 DEF OnOneCable
  <2> QED BY <1>1, <1>2, <2>1, <2>2, <2>3
<1> QED BY <1>3, <1>4, <1>5

LEMMA TypesNext ==
  ASSUME Types, [Next]_vars
  PROVE  Types'
<1>1. StateTypes /\ BufferTypes /\ CallTypes /\ played \in 0..MaxPlayed
  BY TypesParts
<1>2. ASSUME StateTypes', BufferTypes', CallTypes', (played \in 0..MaxPlayed)' PROVE Types'
  BY <1>2 DEF Types, TypeOK, StateTypes, BufferTypes, CallTypes, Calls
<1>3. UNCHANGED deviceState => StateTypes'
  BY <1>1 DEF deviceState, StateTypes
<1>4. UNCHANGED buffer => BufferTypes'
  BY <1>1 DEF BufferTypes
<1>5. CASE \E r \in Requests : Control(r)
  BY <1>5, ControlTypes, RequestsFit DEF Control
<1>6. CASE \E w \in Workers : Finish(w) \/ \E ep \in Cables : Play(w, ep) \/ Record(w, ep)
  BY <1>2, <1>3, <1>4, <1>6, CallerFacts
<1>7. CASE \E w \in Workers : DeviceStep(w) /\ UNCHANGED <<played, turnedDown>>
  BY <1>1, <1>2, <1>3, <1>7, CallMoves
<1>8. CASE UNCHANGED vars
  BY <1>1, <1>2, <1>3, <1>4, <1>8 DEF vars, deviceVars, CallTypes
<1> QED BY <1>5, <1>6, <1>7, <1>8, NextSteps DEF Steps

\* Every variable of a device keeps its type, no ring holds more than its capacity, and
\* a call under way is for one cable and, if it plays, holds a chunk of that cable.
THEOREM DeviceTyped == Spec => []Types
BY TypesInit, TypesNext, PTL DEF Spec

-----------------------------------------------------------------------------
(* The loopbacks.                                                            *)

\* What a control request does to the rings: it empties some, and those of interfaces
\* it closes.
LEMMA ControlRings ==
  ASSUME Types, NEW r \in Requests, Control(r)
  PROVE  /\ UNCHANGED <<call, late>>
         /\ \/ /\ \A c \in Cables : buffer'[c] = <<>>
               /\ \A i \in Interfaces : altSetting'[i] = 0
            \/ /\ configuration' = configuration
               /\ \E i \in Interfaces, alt \in 0..1 :
                    /\ altSetting' = [altSetting EXCEPT ![i] = alt]
                    /\ \A c \in Cables : buffer'[c] = IF alt = 0 /\ CableByInterface(i) = c
                                                        THEN <<>> ELSE buffer[c]
            \/ UNCHANGED <<configuration, altSetting, buffer>>
         /\ answer'.status = 0 \/ UNCHANGED <<deviceState, buffer>>
<1> DEFINE s == r.setup
<1>1. Low(s.value) \in 0..255 /\ HandleControl(s, r.out)
  BY RequestsFit DEF Control
<1> HIDE DEF s
<1>2. BufferTypes /\ Done.status = 0 /\ sampleRate = SampleRate
  BY TypesParts DEF Done, StateTypes
<1>3. CASE SetConfiguration(s)
  <2>1. UNCHANGED <<call, late>> /\ answer'.status = 0
    BY <1>2, <1>3 DEF SetConfiguration
  <2>2. \A c \in Cables : buffer'[c] = <<>>
    BY <1>2, <1>3, ResetFits DEF SetConfiguration
  <2>3. \A i \in Interfaces : altSetting'[i] = 0
    BY <1>3 DEF SetConfiguration
  <2> QED BY <2>1, <2>2, <2>3
<1>4. CASE SetInterface(s)
  <2>1. UNCHANGED <<call, late, configuration>> /\ answer'.status = 0
    BY <1>2, <1>4 DEF SetInterface
  <2>2. PICK i \in Interfaces, alt \in 0..1 : i = Low(s.index) /\ alt = Low(s.value)
    BY <1>1, <1>4 DEF SetInterface, SettableInterface
  <2>3. altSetting' = [altSetting EXCEPT ![i] = alt] /\ ResetBuffers(Emptied(i, alt))
    BY <1>4, <2>2 DEF SetInterface
  <2>4. \A c \in Cables : buffer'[c] = IF alt = 0 /\ CableByInterface(i) = c THEN <<>> ELSE buffer[c]
    BY <1>2, <2>3, ResetFits DEF Emptied
  <2> QED BY <2>1, <2>3, <2>4
<1>5. CASE SetSampleRate(s, r.out)
  <2>1. UNCHANGED <<call, late, configuration, altSetting, mute, volume, buffer>>
    BY <1>5 DEF SetSampleRate
  <2>2. answer'.status = 0 \/ sampleRate' = sampleRate
    BY <1>2, <1>5 DEF SetSampleRate, RateAfter
  <2> QED BY <2>1, <2>2 DEF deviceState
<1>6. CASE SetMute(s, r.out) \/ SetVolume(s, r.out)
  BY <1>2, <1>6 DEF SetMute, SetVolume
<1>7. CASE ReadOnly(s)
  BY <1>7 DEF ReadOnly, deviceState
<1> QED BY <1>1, <1>3, <1>4, <1>5, <1>6, <1>7 DEF HandleControl

\* A step of Next as the properties see it: a request, a caller or a step of the device.
LEMMA StepFacts ==
  ASSUME Types, [Next]_vars
  PROVE  \/ \E r \in Requests : Control(r)
         \/ \E w \in Workers : DeviceStep(w)
         \/ /\ UNCHANGED <<deviceState, buffer, late>>
            /\ \A v \in Workers : \/ call'[v] = call[v]
                                  \/ call'[v].op = "read" => call'[v].chunk = Silence
<1>1. CASE \E w \in Workers : Finish(w) \/ \E ep \in Cables : Play(w, ep) \/ Record(w, ep)
  <2>1. PICK w \in Workers : Finish(w) \/ \E ep \in Cables : Play(w, ep) \/ Record(w, ep)
    BY <1>1
  <2>2. /\ UNCHANGED <<deviceState, buffer, late>>
        /\ \A v \in Workers \ {w} : call'[v] = call[v]
        /\ call'[w].op = "read" => call'[w].chunk = Silence
    BY <2>1, CallerFacts
  <2> QED BY <2>2
<1>2. CASE UNCHANGED vars
  BY <1>2 DEF vars, deviceVars
<1> QED BY <1>1, <1>2, NextSteps DEF Steps

LEMMA EmptySet == ToSet(<<>>) = {}
BY EmptySeq DEF ToSet

LEMMA IsolatedNext ==
  ASSUME Types, CablesIsolated, [Next]_vars
  PROVE  CablesIsolated'
<1> DEFINE RingOK(b, c) == \A x \in ToSet(b) : x.ep = c
           CallOK(e) == e.op = "read" => e.chunk.ep \in {0, e.ep}
<1>1. /\ \A c \in Cables : RingOK(buffer[c], c)
      /\ \A w \in Workers : CallOK(call[w])
  BY DEF CablesIsolated
<1>2. ASSUME \A c \in Cables : RingOK(buffer'[c], c), \A w \in Workers : CallOK(call'[w])
      PROVE  CablesIsolated'
  BY <1>2 DEF CablesIsolated
<1>3. CASE \E r \in Requests : Control(r)
  <2>1. PICK r \in Requests : Control(r)
    BY <1>3
  <2>2. call' = call /\ \A c \in Cables : buffer'[c] \in {buffer[c], <<>>}
    BY <2>1, ControlRings
  <2>3. \A c \in Cables : RingOK(buffer'[c], c)
    BY <1>1, <2>2, EmptySet
  <2>4. \A w \in Workers : CallOK(call'[w])
    BY <1>1, <2>2
  <2> QED BY <1>2, <2>3, <2>4
<1>4. CASE \E w \in Workers : DeviceStep(w)
  <2>1. PICK w \in Workers : DeviceStep(w)
    BY <1>4
  <2>2. /\ call'[w].op = call[w].op /\ call'[w].ep = call[w].ep
        /\ \A v \in Workers \ {w} : call'[v] = call[v]
    BY <2>1, CallMoves, TypesParts
  <2>3. PICK c \in Cables :
          /\ c = call[w].ep
          /\ \A d \in Cables \ {c} : buffer'[d] = buffer[d]
          /\ call'[w].chunk = call[w].chunk \/ call'[w].chunk \in ToSet(buffer[c])
          /\ \/ ToSet(buffer'[c]) \subseteq ToSet(buffer[c])
             \/ /\ ToSet(buffer'[c]) \subseteq ToSet(buffer[c]) \cup {call[w].chunk}
                /\ call[w].chunk.ep = c
    BY <2>1, CallMoves, TypesParts
  <2>4. RingOK(buffer'[c], c)
    BY <1>1, <2>3
  <2>5. \A d \in Cables : RingOK(buffer'[d], d)
    BY <1>1, <2>3, <2>4
  <2>6. CallOK(call'[w])
    BY <1>1, <2>2, <2>3
  <2> QED BY <1>1, <1>2, <2>2, <2>5, <2>6
<1>5. CASE /\ UNCHANGED <<deviceState, buffer, late>>
           /\ \A v \in Workers : \/ call'[v] = call[v]
                                 \/ call'[v].op = "read" => call'[v].chunk = Silence
  <2>1. Silence.ep = 0
    BY DEF Silence
  <2>2. \A v \in Workers : CallOK(call'[v])
    <3> HIDE DEF Silence
    <3> QED BY <1>1, <1>5, <2>1
  <2> QED BY <1>1, <1>2, <1>5, <2>2
<1> QED BY <1>3, <1>4, <1>5, StepFacts

\* A chunk is stored in the ring of the cable it was played on, and recorded from that
\* cable only, however calls and control requests are ordered.
THEOREM DeviceCablesIsolated == Spec => []CablesIsolated
<1>1. Init => CablesIsolated
  <2>1. Idle.op # "read"
    BY DEF Idle
  <2> HIDE DEF Idle
  <2> QED BY <2>1, EmptySet DEF Init, InitDevice, CablesIsolated
<1>2. Types /\ CablesIsolated /\ [Next]_vars => CablesIsolated'
  BY IsolatedNext
<1> QED BY <1>1, <1>2, DeviceTyped, PTL DEF Spec

-----------------------------------------------------------------------------
(* Closing an interface. *)

LEMMA Active ==
  ASSUME NEW c \in Cables
  PROVE  /\ PlaybackActive(c) <=> configuration = 1 /\ altSetting[PlaybackInterface(c)] = 1
         /\ PlaybackActive(c)' <=> configuration' = 1 /\ altSetting'[PlaybackInterface(c)] = 1
<1>1. CableByEndpoint(c) = c /\ c # 0
  BY Layout DEF Cables
<1> QED BY <1>1 DEF PlaybackActive

LEMMA StaleNext ==
  ASSUME Types, StaleOnlyByRace, [Next]_vars
  PROVE  StaleOnlyByRace'
<1>1. ASSUME NEW c \in Cables, ~PlaybackActive(c)', NEW x \in ToSet(buffer'[c])
      PROVE  x \in late'
  <2>1. ASSUME ~PlaybackActive(c), x \in ToSet(buffer[c]), late \subseteq late'
        PROVE  x \in late'
    BY <2>1 DEF StaleOnlyByRace
  <2>2. CASE \E r \in Requests : Control(r)
    <3>1. PICK r \in Requests : Control(r)
      BY <2>2
    <3>2. /\ late' = late
          /\ \/ \A b \in Cables : buffer'[b] = <<>>
             \/ /\ configuration' = configuration
                /\ \E i \in Interfaces, alt \in 0..1 :
                     /\ altSetting' = [altSetting EXCEPT ![i] = alt]
                     /\ \A b \in Cables : buffer'[b] = IF alt = 0 /\ CableByInterface(i) = b
                                                         THEN <<>> ELSE buffer[b]
             \/ UNCHANGED <<configuration, altSetting, buffer>>
      BY <3>1, ControlRings
    <3>3. buffer'[c] # <<>>
      BY EmptySet
    <3>4. CASE UNCHANGED <<configuration, altSetting, buffer>>
      BY <1>1, <2>1, <3>2, <3>4, Active
    <3>5. ASSUME configuration' = configuration, NEW i \in Interfaces, NEW alt \in 0..1,
                 altSetting' = [altSetting EXCEPT ![i] = alt],
                 \A b \in Cables : buffer'[b] = IF alt = 0 /\ CableByInterface(i) = b
                                                  THEN <<>> ELSE buffer[b]
          PROVE  x \in late'
      <4>1. buffer'[c] = buffer[c] /\ ~(alt = 0 /\ CableByInterface(i) = c)
        BY <3>3, <3>5
      <4>2. i = PlaybackInterface(c) => alt = 1
        BY <4>1, Layout
      <4>3. altSetting \in [Interfaces -> 0..1] /\ PlaybackInterface(c) \in Interfaces
        BY Layout, TypesParts DEF StateTypes
      <4>4. altSetting[PlaybackInterface(c)] = 1 => altSetting'[PlaybackInterface(c)] = 1
        BY <3>5, <4>2, <4>3
      <4> QED BY <1>1, <2>1, <3>2, <3>5, <4>1, <4>4, Active
    <3> QED BY <3>2, <3>3, <3>4, <3>5
  <2>3. CASE \E w \in Workers : DeviceStep(w)
    <3>1. PICK w \in Workers : DeviceStep(w)
      BY <2>3
    <3>2. late \subseteq late' /\ UNCHANGED deviceState
      BY <3>1, CallMoves, TypesParts
    <3>3. PICK d \in Cables :
            /\ \A b \in Cables \ {d} : buffer'[b] = buffer[b]
            /\ \/ ToSet(buffer'[d]) \subseteq ToSet(buffer[d])
               \/ /\ ToSet(buffer'[d]) \subseteq ToSet(buffer[d]) \cup {call[w].chunk}
                  /\ PlaybackActive(d) \/ call[w].chunk \in late'
      BY <3>1, CallMoves, TypesParts
    <3>4. ~PlaybackActive(c)
      BY <1>1, <3>2, Active DEF deviceState
    <3>5. x \in ToSet(buffer[c]) \/ x \in late'
      BY <1>1, <3>3, <3>4
    <3> QED BY <2>1, <3>2, <3>4, <3>5
  <2>4. CASE UNCHANGED <<deviceState, buffer, late>>
    <3>1. ~PlaybackActive(c)
      BY <1>1, <2>4, Active DEF deviceState
    <3> QED BY <1>1, <2>1, <2>4, <3>1
  <2> QED BY <2>2, <2>3, <2>4, StepFacts
<1> QED BY <1>1 DEF StaleOnlyByRace

\* Whatever a closed interface's ring still holds was stored by a call that had seen the
\* interface open: a request that closes it leaves nothing behind.
THEOREM DeviceStaleOnlyByRace == Spec => []StaleOnlyByRace
<1>1. Init => StaleOnlyByRace
  BY EmptySet DEF Init, InitDevice, StaleOnlyByRace
<1>2. Types /\ StaleOnlyByRace /\ [Next]_vars => StaleOnlyByRace'
  BY StaleNext
<1> QED BY <1>1, <1>2, DeviceTyped, PTL DEF Spec

-----------------------------------------------------------------------------
(* What a control request may do. *)

\* A request that changes the device or a ring is answered with success.
THEOREM DeviceRefusedChangesNothing == Spec => RefusedChangesNothing
<1>1. ASSUME Types, [Next]_vars, call' = call,
             <<deviceState, buffer>>' # <<deviceState, buffer>>
      PROVE  answer'.status = 0
  <2>1. CASE \E r \in Requests : Control(r)
    <3>1. PICK r \in Requests : Control(r)
      BY <2>1
    <3>2. answer'.status = 0 \/ UNCHANGED <<deviceState, buffer>>
      BY <1>1, <3>1, ControlRings
    <3> QED BY <1>1, <3>2
  <2>2. CASE \E w \in Workers : DeviceStep(w)
    BY <1>1, <2>2, CallMoves, TypesParts
  <2>3. CASE UNCHANGED <<deviceState, buffer, late>>
    BY <1>1, <2>3
  <2> QED BY <1>1, <2>1, <2>2, <2>3, StepFacts
<1>2. Types /\ [Next]_vars => [call' = call /\ <<deviceState, buffer>>' # <<deviceState, buffer>>
                                 => answer'.status = 0]_vars
  BY <1>1
<1> QED BY <1>2, DeviceTyped, PTL DEF Spec, RefusedChangesNothing

\* A request that empties a ring either puts the whole device back to its first settings
\* or closes an interface of that ring's cable and touches no other ring.
THEOREM DeviceResetIsLocal == Spec => ResetIsLocal
<1> DEFINE Local(c) ==
      \/ \A i \in Interfaces : altSetting'[i] = 0
      \/ /\ 0 \in {altSetting'[PlaybackInterface(c)], altSetting'[CaptureInterface(c)]}
         /\ \A d \in Cables \ {c} : buffer'[d] = buffer[d]
<1>1. ASSUME Types, [Next]_vars, NEW c \in Cables, call' = call, buffer'[c] # buffer[c]
      PROVE  Local(c)
  <2>1. CASE \E r \in Requests : Control(r)
    <3>1. PICK r \in Requests : Control(r)
      BY <2>1
    <3>2. \/ \A i \in Interfaces : altSetting'[i] = 0
          \/ \E i \in Interfaces, alt \in 0..1 :
               /\ altSetting' = [altSetting EXCEPT ![i] = alt]
               /\ \A b \in Cables : buffer'[b] = IF alt = 0 /\ CableByInterface(i) = b
                                                   THEN <<>> ELSE buffer[b]
      BY <1>1, <3>1, ControlRings
    <3>3. ASSUME NEW i \in Interfaces, NEW alt \in 0..1,
                 altSetting' = [altSetting EXCEPT ![i] = alt],
                 \A b \in Cables : buffer'[b] = IF alt = 0 /\ CableByInterface(i) = b
                                                  THEN <<>> ELSE buffer[b]
          PROVE  Local(c)
      <4>1. alt = 0 /\ CableByInterface(i) = c
        BY <1>1, <3>3
      <4>2. i \in {PlaybackInterface(c), CaptureInterface(c)}
        BY <4>1, Layout
      <4>3. altSetting'[i] = 0
        BY <1>1, <3>3, <4>1, TypesParts DEF StateTypes
      <4>4. \A d \in Cables \ {c} : buffer'[d] = buffer[d]
        BY <3>3, <4>1
      <4> QED BY <4>2, <4>3, <4>4
    <3> QED BY <3>2, <3>3
  <2>2. CASE \E w \in Workers : DeviceStep(w)
    BY <1>1, <2>2, CallMoves, TypesParts
  <2>3. CASE UNCHANGED <<deviceState, buffer, late>>
    BY <1>1, <2>3
  <2> QED BY <1>1, <2>1, <2>2, <2>3, StepFacts
<1>2. Types /\ [Next]_vars
        => [\A c \in Cables : call' = call /\ buffer'[c] # buffer[c] => Local(c)]_vars
  BY <1>1
<1> QED BY <1>2, DeviceTyped, PTL DEF Spec, ResetIsLocal

-----------------------------------------------------------------------------
(* Reading descriptors: the walk from one to the next.                       *)

\* A set of numbers has a least one.
LEMMA LeastNumber ==
  ASSUME NEW S \in SUBSET Nat, S # {}
  PROVE  \E n \in S : \A m \in S : n <= m
<1> DEFINE R == {p \in Nat \X Nat : p[1] < p[2]}
<1>1. IsWellFoundedOn(R, Nat)
  BY NatLessThanWellFounded DEF OpToRel
<1>2. \A m, n \in Nat : m < n => <<m, n>> \in R
  OBVIOUS
<1> HIDE DEF R
<1>3. PICK n \in S : \A m \in S : <<m, n>> \notin R
  BY <1>1, WFMin
<1>4. \A m \in S : ~(m < n) /\ m \in Nat /\ n \in Nat
  BY <1>2, <1>3
<1> QED BY <1>3, <1>4

\* Induction from the end to the start: what holds at a place if it holds at all later ones.
LEMMA Backwards ==
  ASSUME NEW n \in Nat, NEW S, n + 1 \in S,
         \A p \in 1..n : (p + 1)..(n + 1) \subseteq S => p \in S
  PROVE  1..(n + 1) \subseteq S
<1> DEFINE Left == {m \in 0..n : n + 1 - m \notin S}
<1>1. ASSUME NEW m \in Left, \A k \in Left : m <= k PROVE FALSE
  <2>1. n + 1 - m \in 1..n
    BY DEF Left
  <2>2. ASSUME NEW q \in (n + 1 - m + 1)..(n + 1) PROVE q \in S
    <3>1. n + 1 - q \in 0..n /\ n + 1 - q < m /\ n + 1 - (n + 1 - q) = q
      BY <2>1
    <3>2. n + 1 - q \notin Left
      BY <1>1, <3>1
    <3> QED BY <3>1, <3>2
  <2> QED BY <2>1, <2>2
<1>2. Left \in SUBSET Nat
  OBVIOUS
<1> HIDE DEF Left
<1>3. Left = {}
  BY <1>1, <1>2, LeastNumber
<1>4. ASSUME NEW p \in 1..(n + 1) PROVE p \in S
  <2>1. n + 1 - p \in 0..n /\ n + 1 - (n + 1 - p) = p
    OBVIOUS
  <2> QED BY <1>3, <2>1 DEF Left
<1> QED BY <1>4

\* The recursive function of Walk.
From(b) == LET from[p \in 1..Len(b) + 1] ==
                 IF p > Len(b) THEN <<>>
                 ELSE IF b[p] < 2 \/ p + b[p] - 1 > Len(b) THEN << <<>> >>
                 ELSE <<SubSeq(b, p, p + b[p] - 1)>> \o from[p + b[p]]
           IN from

\* The recursive function of Walk exists: it is built from the end of the bytes.
LEMMA FromExists ==
  ASSUME NEW b \in Seq(Nat)
  PROVE  \E f : f = [p \in 1..Len(b) + 1 |->
                      IF p > Len(b) THEN <<>>
                      ELSE IF b[p] < 2 \/ p + b[p] - 1 > Len(b) THEN << <<>> >>
                      ELSE <<SubSeq(b, p, p + b[p] - 1)>> \o f[p + b[p]]]
<1> DEFINE Body(p, f) == IF p > Len(b) THEN <<>>
                         ELSE IF b[p] < 2 \/ p + b[p] - 1 > Len(b) THEN << <<>> >>
                         ELSE <<SubSeq(b, p, p + b[p] - 1)>> \o f[p + b[p]]
           Good(p) == \E f : f = [i \in p..Len(b) + 1 |-> Body(i, f)]
           S == {p \in 1..Len(b) + 1 : Good(p)}
<1>0. Len(b) \in Nat /\ \A p \in 1..Len(b) : b[p] \in Nat
  OBVIOUS
<1>1. Good(Len(b) + 1)
  <2> DEFINE f == [i \in Len(b) + 1..Len(b) + 1 |-> <<>>]
  <2>1. \A i \in Len(b) + 1..Len(b) + 1 : Body(i, f) = <<>>
    BY <1>0
  <2> HIDE DEF Body
  <2>2. f = [i \in Len(b) + 1..Len(b) + 1 |-> Body(i, f)]
    BY <2>1
  <2> QED BY <2>2
<1>2. ASSUME NEW p \in 1..Len(b), Good(p + 1) PROVE Good(p)
  <2>1. PICK f : f = [i \in p + 1..Len(b) + 1 |-> Body(i, f)]
    BY <1>2
  <2>2. PICK g : g = [i \in p..Len(b) + 1 |-> IF i = p THEN Body(p, f) ELSE f[i]]
    OBVIOUS
  <2>3. ASSUME NEW i \in p..Len(b) + 1 PROVE Body(i, g) = Body(i, f)
    <3>1. ASSUME i <= Len(b), ~(b[i] < 2 \/ i + b[i] - 1 > Len(b)) PROVE g[i + b[i]] = f[i + b[i]]
      <4>1. i + b[i] \in p..Len(b) + 1 /\ i + b[i] # p
        BY SMTT(20), <1>0, <3>1
      <4> QED BY <2>2, <4>1
    <3> QED BY <1>0, <3>1
  <2>4. ASSUME NEW i \in p..Len(b) + 1 PROVE g[i] = Body(i, g)
    <3>1. CASE i = p
      <4>1. g[p] = Body(p, f)
        BY <2>2
      <4> QED BY <2>3, <3>1, <4>1
    <3>2. CASE i \in p + 1..Len(b) + 1
      <4>1. g[i] = f[i] 
        BY <2>2, <3>2
      <4>2. f[i] = Body(i, f)
        BY <2>1, <3>2
      <4> QED BY <2>3, <4>1, <4>2
    <3> QED BY <3>1, <3>2
  <2> HIDE DEF Body
  <2>5. g = [i \in p..Len(b) + 1 |-> Body(i, g)]
    BY <2>2, <2>4
  <2> QED BY <2>5
<1> HIDE DEF Good
<1>3. Len(b) + 1 \in S /\ \A p \in 1..Len(b) : (p + 1)..(Len(b) + 1) \subseteq S => p \in S
  <2>1. ASSUME NEW p \in 1..Len(b), (p + 1)..(Len(b) + 1) \subseteq S PROVE p \in S
    <3>1. p + 1 \in S /\ p \in 1..Len(b) + 1
      BY <1>0, <2>1
    <3>2. Good(p + 1)
      BY <3>1
    <3> QED BY <1>2, <3>1, <3>2
  <2> QED BY <1>0, <1>1, <2>1
<1> HIDE DEF S
<1>4. 1 \in S
  <2>1. 1..(Len(b) + 1) \subseteq S
    BY <1>0, <1>3, Backwards
  <2> QED BY <1>0, <2>1
<1> QED BY <1>4 DEF S, Good

\* What the walk reads at each place.
LEMMA FromStep ==
  ASSUME NEW b \in Seq(Nat)
  PROVE  /\ From(b)[Len(b) + 1] = <<>> /\ Walk(b) = From(b)[1]
         /\ \A p \in 1..Len(b) :
              From(b)[p] = IF b[p] < 2 \/ p + b[p] - 1 > Len(b) THEN << <<>> >>
                           ELSE <<SubSeq(b, p, p + b[p] - 1)>> \o From(b)[p + b[p]]
<1>1. From(b) = [p \in 1..Len(b) + 1 |->
                   IF p > Len(b) THEN <<>>
                   ELSE IF b[p] < 2 \/ p + b[p] - 1 > Len(b) THEN << <<>> >>
                   ELSE <<SubSeq(b, p, p + b[p] - 1)>> \o From(b)[p + b[p]]]
  BY FromExists DEF From
<1>2. \A p \in 1..Len(b) + 1 :
        From(b)[p] = IF p > Len(b) THEN <<>>
                     ELSE IF b[p] < 2 \/ p + b[p] - 1 > Len(b) THEN << <<>> >>
                     ELSE <<SubSeq(b, p, p + b[p] - 1)>> \o From(b)[p + b[p]]
  BY ONLY <1>1
<1>3. Len(b) \in Nat
  OBVIOUS
<1>4. Len(b) + 1 \in 1..Len(b) + 1 /\ Len(b) + 1 > Len(b)
      /\ \A p \in 1..Len(b) : p \in 1..Len(b) + 1 /\ ~(p > Len(b))
  BY <1>3
<1>5. Walk(b) = From(b)[1]
  BY DEF Walk, From
<1> QED BY <1>2, <1>4, <1>5

Bytes == Seq(Nat)

\* One step of a walk: it is lost, or takes a descriptor, which has at least two bytes.
LEMMA FromPlace ==
  ASSUME NEW b \in Bytes, NEW p \in 1..Len(b)
  PROVE  \/ /\ b[p] < 2 \/ p + b[p] - 1 > Len(b)
            /\ From(b)[p] = << <<>> >>
         \/ \E e \in p + 1..Len(b) :
              /\ b[p] = e - p + 1
              /\ SubSeq(b, p, e) \in Bytes
              /\ From(b)[p] = <<SubSeq(b, p, e)>> \o From(b)[e + 1]
<1>1. PICK n \in Nat, m \in Nat : n = b[p] /\ m = Len(b)
  BY DEF Bytes
<1>2. From(b)[p] = IF n < 2 \/ p + n - 1 > m THEN << <<>> >>
                   ELSE <<SubSeq(b, p, p + n - 1)>> \o From(b)[p + n]
  BY <1>1, FromStep DEF Bytes
<1>3. CASE ~(n < 2 \/ p + n - 1 > m)
  <2>1. PICK e \in p + 1..m : e = p + n - 1 /\ p + n = e + 1 /\ n = e - p + 1
    BY ONLY <1>1, <1>3, p \in 1..Len(b)
  <2>2. SubSeq(b, p, e) \in Bytes
    <3>1. \A i \in 1..Len(b) : b[i] \in Nat
      BY DEF Bytes
    <3>2. p \in Int /\ e \in Int /\ \A i \in p..e : i \in 1..Len(b)
      BY ONLY <1>1, <2>1, p \in 1..Len(b)
    <3> QED BY <3>1, <3>2, SubSeqProperties DEF Bytes
  <2> QED BY <1>1, <1>2, <1>3, <2>1, <2>2
<1> QED BY <1>1, <1>2, <1>3

\* A piece alone is a sequence of bytes.
LEMMA Singles == << <<>> >> \in Seq(Bytes) /\ \A x \in Bytes : <<x>> \in Seq(Bytes)
<1>1. <<>> \in Bytes
  BY EmptySeq DEF Bytes
<1>2. \A T : \A x \in T : <<x>> \in Seq(T)
  OBVIOUS
<1> HIDE DEF Bytes
<1> QED BY <1>1, <1>2

\* What a walk gives from any place on is a sequence of byte sequences.
LEMMA FromTypes ==
  ASSUME NEW b \in Bytes
  PROVE  \A p \in 1..Len(b) + 1 : From(b)[p] \in Seq(Bytes)
<1> DEFINE S == {p \in 1..Len(b) + 1 : From(b)[p] \in Seq(Bytes)}
<1>0. Len(b) \in Nat
  BY DEF Bytes
<1>1. Len(b) + 1 \in S
  <2>1. From(b)[Len(b) + 1] = <<>>
    BY FromStep DEF Bytes
  <2>2. <<>> \in Seq(Bytes)
    BY EmptySeq
  <2>3. From(b)[Len(b) + 1] \in Seq(Bytes)
    BY Zenon, <2>1, <2>2
  <2> QED BY <1>0, <2>3
<1>2. ASSUME NEW p \in 1..Len(b), (p + 1)..(Len(b) + 1) \subseteq S PROVE p \in S
  <2>1. CASE From(b)[p] = << <<>> >>
    <3>1. From(b)[p] \in Seq(Bytes)
      BY Zenon, <2>1, Singles
    <3> QED BY <1>0, <3>1
  <2>2. ASSUME NEW e \in p + 1..Len(b), SubSeq(b, p, e) \in Bytes,
               From(b)[p] = <<SubSeq(b, p, e)>> \o From(b)[e + 1]
        PROVE  p \in S
    <3>1. e + 1 \in (p + 1)..(Len(b) + 1) /\ p \in 1..Len(b) + 1
      BY <1>0
    <3>2. From(b)[e + 1] \in Seq(Bytes) /\ <<SubSeq(b, p, e)>> \in Seq(Bytes)
      BY <1>2, <2>2, <3>1, Singles
    <3>3. <<SubSeq(b, p, e)>> \o From(b)[e + 1] \in Seq(Bytes)
      BY <3>2, ConcatProperties
    <3> QED BY <2>2, <3>1, <3>3
  <2> QED BY <2>1, <2>2, FromPlace
<1> HIDE DEF S
<1>3. 1..(Len(b) + 1) \subseteq S
  BY <1>0, <1>1, <1>2, Backwards
<1> QED BY <1>3 DEF S

\* A descriptor begins with its own length.
Piece == {p \in Bytes : Len(p) >= 2 /\ p[1] = Len(p)}

\* The bytes b are the descriptors q, one after the other.
Reads(b, q) == b \in Bytes /\ q \in Seq(Piece) /\ Walk(b) = q

\* A piece alone reads as itself.
LEMMA ReadsOne ==
  ASSUME NEW p \in Piece
  PROVE  Reads(p, <<p>>)
<1>1. p \in Bytes /\ p[1] = Len(p) /\ Len(p) \in Nat /\ Len(p) >= 2 /\ 1 \in 1..Len(p)
  BY DEF Piece, Bytes
<1>3. From(p)[1] = <<SubSeq(p, 1, Len(p))>> \o From(p)[Len(p) + 1]
  <2>1. ~(p[1] < 2 \/ 1 + p[1] - 1 > Len(p))
    BY <1>1
  <2>2. \E e \in 1 + 1..Len(p) :
          /\ p[1] = e - 1 + 1
          /\ From(p)[1] = <<SubSeq(p, 1, e)>> \o From(p)[e + 1]
    BY <1>1, <2>1, FromPlace
  <2>3. PICK e \in 1 + 1..Len(p) : /\ p[1] = e - 1 + 1
                                   /\ From(p)[1] = <<SubSeq(p, 1, e)>> \o From(p)[e + 1]
    BY <2>2
  <2>4. e = Len(p)
    BY <1>1, <2>3
  <2> QED BY <2>3, <2>4
<1>4. SubSeq(p, 1, Len(p)) = p
  BY <1>1, SubSeqFull DEF Bytes
<1>5. From(p)[Len(p) + 1] = <<>> /\ Walk(p) = From(p)[1]
  BY <1>1, FromStep DEF Bytes
<1>6. \A T : \A x \in T : <<x>> \in Seq(T)
  OBVIOUS
<1> HIDE DEF Piece
<1>7. <<p>> \in Seq(Piece)
  BY <1>6
<1>8. <<p>> \o <<>> = <<p>>
  BY <1>7, ConcatEmptySeq
<1> QED BY <1>1, <1>3, <1>4, <1>5, <1>7, <1>8 DEF Reads

\* The bytes of two parts, and what they are in the whole.
LEMMA JoinedBytes ==
  ASSUME NEW b \in Bytes, NEW c \in Bytes
  PROVE  /\ b \o c \in Bytes /\ Len(b) \in Nat /\ Len(c) \in Nat
         /\ Len(b \o c) = Len(b) + Len(c)
         /\ \A p \in 1..Len(b) : b[p] \in Nat /\ (b \o c)[p] = b[p]
         /\ \A p \in 1..Len(c) : c[p] \in Nat /\ (b \o c)[Len(b) + p] = c[p]
         /\ \A m, n \in 1..Len(b) : SubSeq(b \o c, m, n) = SubSeq(b, m, n)
         /\ \A m, n \in 1..Len(c) : SubSeq(b \o c, Len(b) + m, Len(b) + n) = SubSeq(c, m, n)
<1> DEFINE x == b \o c
<1>1. /\ x \in Bytes /\ Len(x) = Len(b) + Len(c) /\ Len(b) \in Nat /\ Len(c) \in Nat
      /\ \A i \in 1..Len(b) + Len(c) : x[i] = IF i <= Len(b) THEN b[i] ELSE c[i - Len(b)]
  BY ConcatProperties DEF Bytes
<1>2. (\A p \in 1..Len(b) : b[p] \in Nat) /\ (\A p \in 1..Len(c) : c[p] \in Nat)
  BY DEF Bytes
<1>3. \A m, n \in 1..Len(b) : SubSeq(x, m, n) = SubSeq(b, m, n)
  BY SubSeqOfConcat1 DEF Bytes
<1>4. ASSUME NEW m \in 1..Len(c), NEW n \in 1..Len(c)
      PROVE  SubSeq(x, Len(b) + m, Len(b) + n) = SubSeq(c, m, n)
  <2>1. Len(b) + m \in Len(b) + 1..Len(b) + Len(c) /\ Len(b) + n \in Len(b) + 1..Len(b) + Len(c)
        /\ Len(b) + m - Len(b) = m /\ Len(b) + n - Len(b) = n
    BY <1>1
  <2>2. SubSeq(b \o c, Len(b) + m, Len(b) + n)
          = SubSeq(c, Len(b) + m - Len(b), Len(b) + n - Len(b))
    BY <2>1, SubSeqOfConcat2 DEF Bytes
  <2> QED BY <2>1, <2>2
<1> HIDE DEF x
<1>5. ASSUME NEW p \in 1..Len(b) PROVE x[p] = b[p]
  BY <1>1
<1>6. ASSUME NEW p \in 1..Len(c) PROVE x[Len(b) + p] = c[p]
  <2>1. Len(b) + p \in 1..Len(b) + Len(c) /\ ~(Len(b) + p <= Len(b)) /\ Len(b) + p - Len(b) = p
    BY <1>1
  <2> QED BY <1>1, <2>1
<1> QED BY <1>1, <1>2, <1>3, <1>4, <1>5, <1>6 DEF x

\* Behind other bytes a walk goes on as it would alone.
LEMMA FromBehind ==
  ASSUME NEW b \in Bytes, NEW c \in Bytes
  PROVE  \A p \in 1..Len(c) + 1 : From(b \o c)[Len(b) + p] = From(c)[p]
<1> DEFINE x == b \o c
           S == {p \in 1..Len(c) + 1 : From(x)[Len(b) + p] = From(c)[p]}
<1>0. /\ x \in Bytes /\ Len(b) \in Nat /\ Len(c) \in Nat /\ Len(x) = Len(b) + Len(c)
      /\ \A p \in 1..Len(c) : c[p] \in Nat /\ x[Len(b) + p] = c[p]
      /\ \A m, n \in 1..Len(c) : SubSeq(x, Len(b) + m, Len(b) + n) = SubSeq(c, m, n)
  BY JoinedBytes
<1> HIDE DEF x
<1>1. Len(c) + 1 \in S
  <2>1. From(x)[Len(x) + 1] = <<>> /\ From(c)[Len(c) + 1] = <<>>
    BY <1>0, FromStep DEF Bytes
  <2>2. Len(x) + 1 = Len(b) + (Len(c) + 1) /\ Len(c) + 1 \in 1..Len(c) + 1
    BY <1>0
  <2> QED BY Zenon, <2>1, <2>2
<1>2. ASSUME NEW p \in 1..Len(c), (p + 1)..(Len(c) + 1) \subseteq S PROVE p \in S
  <2>1. PICK k \in 1..Len(x) : k = Len(b) + p /\ x[k] = c[p]
    BY <1>0
  <2>2. \/ x[k] < 2 \/ k + x[k] - 1 > Len(x)
        \/ \E g \in k + 1..Len(x) :
             /\ x[k] = g - k + 1
             /\ From(x)[k] = <<SubSeq(x, k, g)>> \o From(x)[g + 1]
    BY <1>0, FromPlace
  <2>3. (x[k] < 2 \/ k + x[k] - 1 > Len(x)) => From(x)[k] = << <<>> >>
    BY <1>0, FromStep DEF Bytes
  <2>4. PICK n \in Nat, m \in Nat, l \in Nat : n = c[p] /\ m = Len(c) /\ l = Len(b)
    BY <1>0
  <2>5. p \in 1..Len(c) + 1
    BY <1>0
  <2>6. CASE (c[p] < 2 \/ p + c[p] - 1 > Len(c)) /\ From(c)[p] = << <<>> >>
    <3>1. n < 2 \/ l + p + n - 1 > l + m
      BY ONLY <2>4, <2>6, p \in 1..Len(c)
    <3>2. x[k] = n /\ k = l + p /\ Len(x) = l + m
      BY ONLY <1>0, <2>1, <2>4
    <3>3. x[k] < 2 \/ k + x[k] - 1 > Len(x)
      BY ONLY <3>1, <3>2
    <3>4. From(x)[k] = << <<>> >>
      BY Zenon, <2>3, <3>3
    <3>5. From(x)[Len(b) + p] = From(c)[p] /\ p \in 1..Len(c) + 1
      BY Zenon, <2>1, <2>5, <2>6, <3>4
    <3> QED BY Zenon, <3>5
  <2>7. ASSUME NEW e \in p + 1..Len(c), c[p] = e - p + 1,
               From(c)[p] = <<SubSeq(c, p, e)>> \o From(c)[e + 1]
        PROVE  p \in S
    <3>1. ~(x[k] < 2 \/ k + x[k] - 1 > Len(x))
      BY ONLY <1>0, <2>1, <2>4, <2>7, p \in 1..Len(c)
    <3>2. PICK g \in k + 1..Len(x) : x[k] = g - k + 1
                                     /\ From(x)[k] = <<SubSeq(x, k, g)>> \o From(x)[g + 1]
      BY <2>2, <3>1
    <3>9. g - k + 1 = e - p + 1
      BY <2>1, <2>7, <3>2
    <3>3. g = Len(b) + e /\ g + 1 = Len(b) + (e + 1) /\ e \in 1..Len(c)
          /\ e + 1 \in (p + 1)..(Len(c) + 1)
      <4>1. g \in Int /\ k = l + p /\ p \in 1..m /\ e \in p + 1..m /\ l \in Nat /\ m \in Nat
        BY ONLY <2>1, <2>4, <3>2, p \in 1..Len(c), e \in p + 1..Len(c)
      <4>2. g = l + e /\ e \in 1..m /\ e + 1 \in (p + 1)..(m + 1) /\ g + 1 = l + (e + 1)
        BY ONLY <3>9, <4>1
      <4> QED BY <2>4, <4>2
    <3>4. SubSeq(x, k, g) = SubSeq(c, p, e)
      BY <1>0, <2>1, <3>3
    <3>5. From(x)[g + 1] = From(c)[e + 1]
      BY <1>2, <3>3
    <3>6. From(x)[k] = From(c)[p]
      BY Zenon, <2>7, <3>2, <3>4, <3>5
    <3> QED BY <1>0, <2>1, <3>6
  <2> QED BY <2>6, <2>7, FromPlace
<1> HIDE DEF S
<1>3. 1..(Len(c) + 1) \subseteq S
  BY <1>0, <1>1, <1>2, Backwards
<1> QED BY <1>3 DEF S, x

\* Up to the end of bytes that are descriptors throughout, what follows changes nothing.
LEMMA FromBefore ==
  ASSUME NEW b \in Bytes, NEW c \in Bytes
  PROVE  \A p \in 1..Len(b) + 1 :
           From(b)[p] \in Seq(Piece) => From(b \o c)[p] = From(b)[p] \o From(c)[1]
<1> DEFINE x == b \o c
           S == {p \in 1..Len(b) + 1 : From(b)[p] \in Seq(Piece)
                                         => From(x)[p] = From(b)[p] \o From(c)[1]}
<1>1. /\ x \in Bytes /\ Len(b) \in Nat /\ Len(c) \in Nat /\ Len(x) = Len(b) + Len(c)
      /\ \A p \in 1..Len(b) : b[p] \in Nat /\ x[p] = b[p]
      /\ \A m, n \in 1..Len(b) : SubSeq(x, m, n) = SubSeq(b, m, n)
  BY JoinedBytes
<1>2. From(x)[Len(b) + 1] = From(c)[1]
  BY <1>1, FromBehind
<1> HIDE DEF x
<1>3. From(c)[1] \in Seq(Bytes) /\ \A p \in 1..Len(b) + 1 : From(b)[p] \in Seq(Bytes)
  BY <1>1, FromTypes
<1>4. Len(b) + 1 \in S
  <2>1. From(b)[Len(b) + 1] = <<>>
    BY FromStep DEF Bytes
  <2>2. <<>> \o From(c)[1] = From(c)[1]
    BY <1>3, ConcatEmptySeq
  <2>3. From(x)[Len(b) + 1] = From(b)[Len(b) + 1] \o From(c)[1]
    BY Zenon, <1>2, <2>1, <2>2
  <2>4. Len(b) + 1 \in 1..Len(b) + 1
    BY <1>1
  <2> QED BY Zenon, <2>3, <2>4
<1>5. ASSUME NEW p \in 1..Len(b), (p + 1)..(Len(b) + 1) \subseteq S PROVE p \in S
  <2>1. CASE From(b)[p] = << <<>> >>
    <3>1. << <<>> >> \notin Seq(Piece)
      <4>1. << <<>> >>[1] = <<>> /\ Len(<< <<>> >>) = 1 /\ Len(<<>>) = 0
        OBVIOUS
      <4>2. <<>> \notin Piece
        BY <4>1 DEF Piece
      <4>3. \A T : << <<>> >> \in Seq(T) => << <<>> >>[1] \in T
        OBVIOUS
      <4> HIDE DEF Piece
      <4> QED BY Zenon, <4>1, <4>2, <4>3
    <3>2. From(b)[p] \notin Seq(Piece)
      BY Zenon, <2>1, <3>1
    <3>3. p \in 1..Len(b) + 1
      BY <1>1
    <3> QED BY Zenon, <3>2, <3>3
  <2>2. ASSUME NEW e \in p + 1..Len(b), b[p] = e - p + 1, SubSeq(b, p, e) \in Bytes,
               From(b)[p] = <<SubSeq(b, p, e)>> \o From(b)[e + 1], From(b)[p] \in Seq(Piece)
        PROVE  From(x)[p] = From(b)[p] \o From(c)[1]
    <3>1. PICK d \in Bytes, f, r \in Seq(Bytes) :
            d = SubSeq(b, p, e) /\ f = From(b)[e + 1] /\ r = From(c)[1]
      <4>1. e + 1 \in 1..Len(b) + 1
        BY <1>1
      <4> QED BY Zenon, <1>3, <2>2, <4>1
    <3>2. e + 1 \in (p + 1)..(Len(b) + 1) /\ e \in 1..Len(b) /\ p \in 1..Len(x)
      BY <1>1
    <3>3. f \in Seq(Bytes) /\ <<d>> \in Seq(Bytes)
      BY <1>1, <1>3, <3>1, <3>2, Singles
    <3>4. From(b)[p] = <<d>> \o f
      BY <2>2, <3>1
    <3>5. f \in Seq(Piece)
      <4>1. PICK g : g = <<d>> \o f
        OBVIOUS
      <4>2. /\ Len(<<d>>) = 1 /\ Len(f) \in Nat /\ Len(g) = 1 + Len(f)
            /\ \A i \in 1..1 + Len(f) : g[i] = IF i <= 1 THEN <<d>>[i] ELSE f[i - 1]
        <5>1. Len(<<d>>) = 1 /\ Len(f) \in Nat
          BY <3>3
        <5>2. /\ Len(g) = Len(<<d>>) + Len(f)
              /\ \A i \in 1..Len(<<d>>) + Len(f) :
                   g[i] = IF i <= Len(<<d>>) THEN <<d>>[i] ELSE f[i - Len(<<d>>)]
          BY <3>3, <4>1, ConcatProperties
        <5> QED BY <5>1, <5>2
      <4>3. g \in Seq(Piece)
        BY Zenon, <2>2, <3>4, <4>1
      <4>4. \A T : \A s \in Seq(T) : \A i \in 1..Len(s) : s[i] \in T
        OBVIOUS
      <4>5. ASSUME NEW i \in 1..Len(f) PROVE f[i] \in Piece
        <5>1. i + 1 \in 1..1 + Len(f) /\ ~(i + 1 <= 1) /\ i + 1 - 1 = i
          BY <4>2
        <5>2. g[i + 1] = f[i]
          BY <4>2, <5>1
        <5>3. g[i + 1] \in Piece
          BY <4>2, <4>3, <4>4, <5>1
        <5> QED BY <5>2, <5>3
      <4>6. \A T, U : \A s \in Seq(T) : (\A i \in 1..Len(s) : s[i] \in U) => s \in Seq(U)
        OBVIOUS
      <4> QED BY <3>3, <4>5, <4>6
    <3>6. From(x)[e + 1] = f \o r
      <4>1. e + 1 \in S
        BY <1>5, <3>2
      <4> QED BY <3>1, <3>5, <4>1
    <3>7. From(x)[p] = <<d>> \o (f \o r)
      <4>1. x[p] = e - p + 1 /\ SubSeq(x, p, e) = d
        BY <1>1, <2>2, <3>1, <3>2
      <4>2. ~(x[p] < 2 \/ p + x[p] - 1 > Len(x))
        <5>1. PICK k \in Nat, l \in Nat : k = Len(b) /\ l = Len(x) /\ k <= l
          BY <1>1
        <5> QED BY ONLY <4>1, <5>1, p \in 1..Len(b), e \in p + 1..Len(b)
      <4>3. PICK g \in p + 1..Len(x) : x[p] = g - p + 1
                                       /\ From(x)[p] = <<SubSeq(x, p, g)>> \o From(x)[g + 1]
        BY <1>1, <3>2, <4>2, FromPlace
      <4>4. g = e
        BY ONLY <4>1, <4>3, p \in 1..Len(b), e \in p + 1..Len(b)
      <4> QED BY Zenon, <3>6, <4>1, <4>3, <4>4
    <3>8. (<<d>> \o f) \o r = <<d>> \o (f \o r)
      <4>1. PICK s \in Seq(Bytes) : s = <<d>>
        BY <3>3
      <4>2. (s \o f) \o r = s \o (f \o r)
        BY SMTT(20), ConcatAssociative
      <4> QED BY Zenon, <4>1, <4>2
    <3> QED BY Zenon, <3>1, <3>4, <3>7, <3>8
  <2>3. p \in 1..Len(b) + 1
    BY <1>1
  <2> QED BY <2>1, <2>2, <2>3, FromPlace
<1> HIDE DEF S
<1>6. 1..(Len(b) + 1) \subseteq S
  BY <1>1, <1>4, <1>5, Backwards
<1> QED BY <1>6 DEF S, x

\* Descriptors after descriptors are descriptors.
LEMMA ReadsJoin ==
  ASSUME NEW b, NEW q, NEW c, NEW r, Reads(b, q), Reads(c, r)
  PROVE  Reads(b \o c, q \o r)
<1>1. /\ b \in Bytes /\ c \in Bytes /\ q \in Seq(Piece) /\ r \in Seq(Piece)
      /\ Walk(b) = q /\ Walk(c) = r
  BY DEF Reads
<1>2. q \o r \in Seq(Piece)
  BY <1>1, ConcatProperties
<1>3. b \o c \in Bytes /\ 1 \in 1..Len(b) + 1
  BY <1>1, JoinedBytes
<1>4. Walk(b \o c) = From(b \o c)[1] /\ q = From(b)[1] /\ r = From(c)[1]
  BY <1>1, <1>3, FromStep DEF Bytes
<1>5. From(b \o c)[1] = From(b)[1] \o From(c)[1]
  BY <1>1, <1>3, <1>4, FromBefore
<1> QED BY Zenon, <1>2, <1>3, <1>4, <1>5 DEF Reads

\* The recursive function of FlattenSeq.
Flat(s) == LET flatten[i \in 1..Len(s)] == IF i = 1 THEN s[i] ELSE flatten[i - 1] \o s[i]
           IN flatten

Joined(b, c) == b \o c

\* F[i] is all of the first i sequences of s.
Grows(F, s, n) == F[1] = s[1] /\ \A i \in 2..n : F[i] = Joined(F[i - 1], s[i])

\* A device has at most four cables, so there are at most four to put together.
LEMMA FlatStep ==
  ASSUME NEW n \in 1..4, NEW s \in Seq(Bytes), Len(s) = n
  PROVE  FlattenSeq(s) = Flat(s)[n] /\ Grows(Flat(s), s, n)
<1>1. \E f : f = [i \in 1..n |-> IF i = 1 THEN s[i] ELSE f[i - 1] \o s[i]]
  <2>1. PICK a, b, c, d : /\ a = s[1] /\ b = a \o s[2] /\ c = b \o s[3] /\ d = c \o s[4]
    OBVIOUS
  <2>2. PICK f : f = [i \in 1..n |-> IF i = 1 THEN a ELSE IF i = 2 THEN b
                                     ELSE IF i = 3 THEN c ELSE d]
    OBVIOUS
  <2>3. f[1] = a /\ (n >= 2 => f[2] = b) /\ (n >= 3 => f[3] = c) /\ (n >= 4 => f[4] = d)
    BY ONLY <2>2, n \in 1..4
  <2>4. ASSUME NEW i \in 1..n PROVE f[i] = IF i = 1 THEN s[i] ELSE f[i - 1] \o s[i]
    <3>1. CASE i = 1
      BY <2>1, <2>3, <3>1
    <3>2. CASE i = 2
      <4>1. f[2] = f[1] \o s[2] /\ i - 1 = 1 /\ i # 1
        BY <2>1, <2>3, <3>2
      <4> QED BY <3>2, <4>1
    <3>3. CASE i = 3
      <4>1. f[3] = c /\ f[2] = b /\ i - 1 = 2 /\ i # 1
        BY ONLY <2>3, <3>3, n \in 1..4, i \in 1..n
      <4>2. c = b \o s[3]
        BY <2>1
      <4> QED BY Zenon, <3>3, <4>1, <4>2
    <3>4. CASE i = 4
      <4>1. f[4] = d /\ f[3] = c /\ i - 1 = 3 /\ i # 1
        BY ONLY <2>3, <3>4, n \in 1..4, i \in 1..n
      <4>2. d = c \o s[4]
        BY <2>1
      <4> QED BY Zenon, <3>4, <4>1, <4>2
    <3> QED BY <3>1, <3>2, <3>3, <3>4
  <2>5. f = [i \in 1..n |-> IF i = 1 THEN s[i] ELSE f[i - 1] \o s[i]]
    BY <2>2, <2>4
  <2> QED BY <2>5
<1>2. Flat(s) = [i \in 1..n |-> IF i = 1 THEN s[i] ELSE Flat(s)[i - 1] \o s[i]]
  BY <1>1 DEF Flat
<1>3. \A i \in 1..n : Flat(s)[i] = IF i = 1 THEN s[i] ELSE Flat(s)[i - 1] \o s[i]
  BY ONLY <1>2
<1>4. 1 \in 1..n /\ \A i \in 2..n : i \in 1..n /\ i # 1
  OBVIOUS
<1>5. \A i \in 2..n : Flat(s)[i] = Joined(Flat(s)[i - 1], s[i])
  BY <1>3, <1>4 DEF Joined
<1>6. FlattenSeq(s) = Flat(s)[n]
  BY DEF FlattenSeq, Flat
<1> QED BY <1>3, <1>4, <1>5, <1>6 DEF Grows

\* Joining m descriptors to m * i of them, and their bytes.
LEMMA Places ==
  ASSUME NEW m \in {6, 12, 74, 104}, NEW i \in Nat
  PROVE  /\ m * 1 = m /\ m * (i + 1) = m * i + m /\ m * i \in Nat
         /\ \A k \in 1..m : m * (1 - 1) + k = k
         /\ \A c \in 1..i, k \in 1..m : m * (c - 1) + k \in 1..m * i
         /\ \A k \in 1..m : m * (i + 1 - 1) + k = m * i + k
<1>1. CASE m = 6
  BY <1>1
<1>2. CASE m = 12
  BY <1>2
<1>3. CASE m = 74
  BY <1>3
<1>4. CASE m = 104
  BY <1>4
<1> QED BY <1>1, <1>2, <1>3, <1>4

\* q has the m descriptors of each t[c] in turn.
InTurn(q, t, n, m) ==
  Len(q) = m * n /\ \A c \in 1..n, k \in 1..m : q[m * (c - 1) + k] = t[c][k]

\* Each s[c], of l bytes, reads as the m descriptors t[c].
AllRead(s, t, n, m, l) ==
  /\ s \in Seq(Bytes) /\ Len(s) = n
  /\ \A c \in 1..n : Reads(s[c], t[c]) /\ Len(t[c]) = m /\ Len(s[c]) = l

\* The descriptors of all cables, m of each, in the order of the cables.
LEMMA EachReads ==
  ASSUME NEW n \in 1..4, NEW m \in {6, 12}, NEW l \in {74, 104}, NEW s, NEW t, AllRead(s, t, n, m, l)
  PROVE  /\ Len(FlattenSeq(s)) = l * n
         /\ \E q : Reads(FlattenSeq(s), q) /\ InTurn(q, t, n, m)
<1>0. /\ s \in Seq(Bytes) /\ Len(s) = n
      /\ \A c \in 1..n : Reads(s[c], t[c]) /\ Len(t[c]) = m /\ Len(s[c]) = l
  BY DEF AllRead
<1>1. PICK F : FlattenSeq(s) = F[n] /\ Grows(F, s, n)
  BY <1>0, FlatStep
<1> DEFINE Good(i, q) == Reads(F[i], q) /\ InTurn(q, t, i, m) /\ Len(F[i]) = l * i
<1>2. Good(1, t[1])
  <2>1. Reads(s[1], t[1]) /\ Len(t[1]) = m /\ Len(s[1]) = l
    BY <1>0
  <2>2. l * 1 = l /\ m * 1 = m /\ \A k \in 1..m : m * (1 - 1) + k = k
    BY Places
  <2>3. \A c \in 1..1, k \in 1..m : m * (c - 1) + k = k /\ c = 1
    BY <2>2
  <2> QED BY <1>1, <2>1, <2>2, <2>3 DEF InTurn, Grows
<1>3. ASSUME NEW i \in 1..n - 1, NEW q, Good(i, q) PROVE Good(i + 1, q \o t[i + 1])
  <2>1. i + 1 \in 2..n /\ i + 1 \in 1..n /\ i + 1 - 1 = i /\ i \in Nat
    OBVIOUS
  <2>2. PICK g, r : g = s[i + 1] /\ r = t[i + 1]
    OBVIOUS
  <2>3. F[i + 1] = F[i] \o g
    <3>1. F[i + 1] = Joined(F[i], g)
      BY <1>1, <2>1, <2>2 DEF Grows
    <3> QED BY <3>1 DEF Joined
  <2>4. Reads(g, r) /\ Len(r) = m /\ Len(g) = l
    BY <1>0, <2>1, <2>2
  <2>5. Reads(F[i + 1], q \o r)
    BY <1>3, <2>3, <2>4, ReadsJoin
  <2>6. F[i] \in Bytes /\ g \in Bytes /\ q \in Seq(Piece) /\ r \in Seq(Piece)
    BY <1>3, <2>4 DEF Reads
  <2>7. Len(F[i + 1]) = l * (i + 1)
    <3>1. Len(F[i] \o g) = Len(F[i]) + Len(g)
      BY <2>6, JoinedBytes
    <3>2. l * (i + 1) = l * i + l
      BY <2>1, Places
    <3> QED BY <1>3, <2>3, <2>4, <3>1, <3>2
  <2>8. PICK z : z = q \o r
    OBVIOUS
  <2>9. /\ Len(z) = Len(q) + Len(r)
        /\ \A j \in 1..Len(q) + Len(r) : z[j] = IF j <= Len(q) THEN q[j] ELSE r[j - Len(q)]
    BY <2>6, <2>8, ConcatProperties
  <2>10. PICK w \in Nat : w = m * i /\ Len(q) = w /\ m * (i + 1) = w + m
    BY <1>3, <2>1, Places DEF InTurn
  <2>11. Len(z) = m * (i + 1)
    BY <2>4, <2>9, <2>10
  <2>12. ASSUME NEW c \in 1..i + 1, NEW k \in 1..m
         PROVE  z[m * (c - 1) + k] = t[c][k]
    <3>1. CASE c \in 1..i
      <4>1. PICK j : j = m * (c - 1) + k
        OBVIOUS
      <4>2. j \in 1..w
        BY <2>1, <2>10, <3>1, <4>1, Places
      <4>3. z[j] = q[j]
        BY <2>4, <2>9, <2>10, <4>2
      <4>4. q[j] = t[c][k]
        BY <1>3, <3>1, <4>1 DEF InTurn
      <4> QED BY <4>1, <4>3, <4>4
    <3>2. CASE c = i + 1
      <4>1. PICK j : j = w + k
        OBVIOUS
      <4>2. m * (c - 1) + k = j
        BY <2>1, <2>10, <3>2, <4>1, Places
      <4>3. z[j] = r[k]
        <5>1. j \in 1..w + m /\ ~(j <= w) /\ j - w = k
          BY <4>1
        <5> QED BY <2>4, <2>9, <2>10, <5>1
      <4> QED BY <2>2, <3>2, <4>2, <4>3
    <3> QED BY <2>1, <3>1, <3>2
  <2>13. InTurn(z, t, i + 1, m)
    BY <2>11, <2>12 DEF InTurn
  <2> QED BY <2>2, <2>5, <2>7, <2>8, <2>13
<1> HIDE DEF Good
<1>4. \E q : Good(n, q)
  <2>1. CASE n = 1
    BY <1>2, <2>1
  <2>2. ASSUME NEW i \in 1..n - 1, \E q : Good(i, q) PROVE \E q : Good(i + 1, q)
    BY <1>3, <2>2
  <2>3. n >= 2 => \E q : Good(2, q)
    <3>1. n >= 2 => 1 \in 1..n - 1 /\ 1 + 1 = 2
      OBVIOUS
    <3> QED BY <1>2, <2>2, <3>1
  <2>4. n >= 3 => \E q : Good(3, q)
    <3>1. n >= 3 => 2 \in 1..n - 1 /\ 2 + 1 = 3 /\ n >= 2
      OBVIOUS
    <3> QED BY <2>2, <2>3, <3>1
  <2>5. n >= 4 => \E q : Good(4, q)
    <3>1. n >= 4 => 3 \in 1..n - 1 /\ 3 + 1 = 4 /\ n >= 3
      OBVIOUS
    <3> QED BY <2>2, <2>4, <3>1
  <2>6. n \in {1, 2, 3, 4}
    OBVIOUS
  <2> QED BY <2>1, <2>3, <2>4, <2>5, <2>6
<1>5. PICK q : Good(n, q)
  BY <1>4
<1>6. Reads(F[n], q) /\ InTurn(q, t, n, m) /\ Len(F[n]) = l * n
  BY <1>5 DEF Good
<1> QED BY <1>1, <1>6

-----------------------------------------------------------------------------
(* What a device's configuration descriptor is made of. *)

\* Numbers that begin with their own count are a piece.
LEMMA PieceOf ==
  ASSUME NEW p \in Seq(Nat), Len(p) >= 2, p[1] = Len(p)
  PROVE  p \in Piece
BY DEF Piece, Bytes

\* A feature unit is sixteen bytes that name it and its source.
LEMMA FeatureUnitIs ==
  ASSUME NEW u \in Nat, NEW v \in Nat
  PROVE  /\ FeatureUnit(u, v) \in Piece /\ Len(FeatureUnit(u, v)) = 16
         /\ FeatureUnit(u, v)[2] = 36 /\ FeatureUnit(u, v)[3] = 6
         /\ FeatureUnit(u, v)[4] = u /\ FeatureUnit(u, v)[5] = v
<1>1. PICK a \in Seq(Nat) : /\ a = <<16, 36, 6, u, v, 1, 3>> /\ Len(a) = 7 /\ a[1] = 16
                            /\ a[2] = 36 /\ a[3] = 6 /\ a[4] = u /\ a[5] = v
  <2>1. <<16, 36, 6, u, v, 1, 3>> \in Seq(Nat)
    OBVIOUS
  <2> QED BY <2>1
<1>2. PICK z \in Seq(Nat) : z = [c \in 1..9 |-> 0] /\ Len(z) = 9
  <2>1. [c \in 1..9 |-> 0] \in [1..9 -> Nat] /\ 9 \in Nat
    OBVIOUS
  <2>2. \A n \in Nat : \A g \in [1..n -> Nat] : g \in Seq(Nat) /\ Len(g) = n
    OBVIOUS
  <2> QED BY <2>1, <2>2
<1>3. PICK f : f = a \o z
  OBVIOUS
<1>4. /\ f \in Seq(Nat) /\ Len(f) = Len(a) + Len(z)
      /\ \A i \in 1..Len(a) + Len(z) : f[i] = IF i <= Len(a) THEN a[i] ELSE z[i - Len(a)]
  BY <1>3, ConcatProperties
<1>5. Len(f) = 16 /\ f[1] = 16 /\ f[2] = 36 /\ f[3] = 6 /\ f[4] = u /\ f[5] = v
  BY ONLY <1>1, <1>2, <1>4
<1>6. FeatureUnit(u, v) = f
  BY <1>1, <1>2, <1>3 DEF FeatureUnit
<1>7. f \in Piece
  <2>1. Len(f) >= 2 /\ f[1] = Len(f)
    BY ONLY <1>5
  <2> QED BY Zenon, <1>4, <2>1, PieceOf
<1> QED BY <1>5, <1>6, <1>7

\* r is q and p behind it.
Longer(r, q, p) ==
  Len(r) = Len(q) + 1 /\ r[Len(q) + 1] = p /\ \A i \in 1..Len(q) : r[i] = q[i]

\* A piece at the end of what reads is one more piece.
LEMMA ReadsMore ==
  ASSUME NEW b, NEW q, Reads(b, q), NEW p \in Piece, NEW c, c = b \o p
  PROVE  Len(c) = Len(b) + Len(p) /\ \E r : Reads(c, r) /\ Longer(r, q, p)
<1>1. b \in Bytes /\ q \in Seq(Piece) /\ p \in Bytes
  BY DEF Reads, Piece
<1>2. Reads(b \o p, q \o <<p>>)
  BY ReadsJoin, ReadsOne
<1>3. \A T : \A s \in Seq(T) : \A x \in T : s \o <<x>> = Append(s, x)
  OBVIOUS
<1> HIDE DEF Piece
<1>4. PICK r : r = Append(q, p)
  OBVIOUS
<1>5. q \o <<p>> = r
  BY <1>1, <1>3, <1>4
<1>6. Longer(r, q, p)
  BY <1>1, <1>4, AppendProperties DEF Longer
<1>7. Len(b \o p) = Len(b) + Len(p)
  BY <1>1, JoinedBytes
<1> QED BY Zenon, <1>2, <1>5, <1>6, <1>7

Six(q, p1, p2, p3, p4, p5, p6) ==
  /\ Len(q) = 6 /\ q[1] = p1 /\ q[2] = p2 /\ q[3] = p3
  /\ q[4] = p4 /\ q[5] = p5 /\ q[6] = p6

\* Six pieces joined read as those six.
LEMMA ReadsSix ==
  ASSUME NEW p1 \in Piece, NEW p2 \in Piece, NEW p3 \in Piece,
         NEW p4 \in Piece, NEW p5 \in Piece, NEW p6 \in Piece,
         NEW b, b = p1 \o p2 \o p3 \o p4 \o p5 \o p6
  PROVE  /\ Len(b) = Len(p1) + Len(p2) + Len(p3) + Len(p4) + Len(p5) + Len(p6)
         /\ \E q : Reads(b, q) /\ Six(q, p1, p2, p3, p4, p5, p6)
<1>1. PICK b2, b3, b4, b5, b6 :
        b2 = p1 \o p2 /\ b3 = b2 \o p3 /\ b4 = b3 \o p4 /\ b5 = b4 \o p5 /\ b6 = b5 \o p6
  OBVIOUS
<1>2. PICK q1 : Reads(p1, q1) /\ Len(q1) = 1 /\ q1[1] = p1
  <2>1. Len(<<p1>>) = 1 /\ <<p1>>[1] = p1
    OBVIOUS
  <2> QED BY Zenon, <2>1, ReadsOne
<1>3. PICK q2 : /\ Reads(b2, q2) /\ Len(q2) = 2 /\ Len(b2) = Len(p1) + Len(p2)
              /\ q2[2] = p2 /\ \A i \in 1..1 : q2[i] = q1[i]
  <2>1. b2 = p1 \o p2 /\ Reads(p1, q1)
    BY <1>1, <1>2
  <2>2. Len(q1) = 1 /\ 1 + 1 = 2
    BY <1>2
  <2>3. Len(b2) = Len(p1) + Len(p2) /\ \E r : Reads(b2, r) /\ Longer(r, q1, p2)
    BY Zenon, <2>1, ReadsMore
  <2> QED BY ONLY <2>2, <2>3 DEF Longer
<1>4. PICK q3 : /\ Reads(b3, q3) /\ Len(q3) = 3 /\ Len(b3) = Len(b2) + Len(p3)
              /\ q3[3] = p3 /\ \A i \in 1..2 : q3[i] = q2[i]
  <2>1. b3 = b2 \o p3 /\ Reads(b2, q2)
    BY <1>1, <1>3
  <2>2. Len(q2) = 2 /\ 2 + 1 = 3
    BY <1>3
  <2>3. Len(b3) = Len(b2) + Len(p3) /\ \E r : Reads(b3, r) /\ Longer(r, q2, p3)
    BY Zenon, <2>1, ReadsMore
  <2> QED BY ONLY <2>2, <2>3 DEF Longer
<1>5. PICK q4 : /\ Reads(b4, q4) /\ Len(q4) = 4 /\ Len(b4) = Len(b3) + Len(p4)
              /\ q4[4] = p4 /\ \A i \in 1..3 : q4[i] = q3[i]
  <2>1. b4 = b3 \o p4 /\ Reads(b3, q3)
    BY <1>1, <1>4
  <2>2. Len(q3) = 3 /\ 3 + 1 = 4
    BY <1>4
  <2>3. Len(b4) = Len(b3) + Len(p4) /\ \E r : Reads(b4, r) /\ Longer(r, q3, p4)
    BY Zenon, <2>1, ReadsMore
  <2> QED BY ONLY <2>2, <2>3 DEF Longer
<1>6. PICK q5 : /\ Reads(b5, q5) /\ Len(q5) = 5 /\ Len(b5) = Len(b4) + Len(p5)
              /\ q5[5] = p5 /\ \A i \in 1..4 : q5[i] = q4[i]
  <2>1. b5 = b4 \o p5 /\ Reads(b4, q4)
    BY <1>1, <1>5
  <2>2. Len(q4) = 4 /\ 4 + 1 = 5
    BY <1>5
  <2>3. Len(b5) = Len(b4) + Len(p5) /\ \E r : Reads(b5, r) /\ Longer(r, q4, p5)
    BY Zenon, <2>1, ReadsMore
  <2> QED BY ONLY <2>2, <2>3 DEF Longer
<1>7. PICK q6 : /\ Reads(b6, q6) /\ Len(q6) = 6 /\ Len(b6) = Len(b5) + Len(p6)
              /\ q6[6] = p6 /\ \A i \in 1..5 : q6[i] = q5[i]
  <2>1. b6 = b5 \o p6 /\ Reads(b5, q5)
    BY <1>1, <1>6
  <2>2. Len(q5) = 5 /\ 5 + 1 = 6
    BY <1>6
  <2>3. Len(b6) = Len(b5) + Len(p6) /\ \E r : Reads(b6, r) /\ Longer(r, q5, p6)
    BY Zenon, <2>1, ReadsMore
  <2> QED BY ONLY <2>2, <2>3 DEF Longer
<1>8. Six(q6, p1, p2, p3, p4, p5, p6)
  BY ONLY <1>2, <1>3, <1>4, <1>5, <1>6, <1>7 DEF Six
<1>9. Len(b6) = Len(p1) + Len(p2) + Len(p3) + Len(p4) + Len(p5) + Len(p6)
  BY ONLY <1>3, <1>4, <1>5, <1>6, <1>7
<1> QED BY Zenon, <1>1, <1>7, <1>8, <1>9

\* Joining bytes is associative.
LEMMA BytesJoin ==
  ASSUME NEW s \in Bytes, NEW t \in Bytes, NEW u \in Bytes
  PROVE  s \o t \in Bytes /\ (s \o t) \o u = s \o (t \o u)
<1>1. (s \o t) \o u = s \o (t \o u)
  BY SMTT(20), ConcatAssociative DEF Bytes
<1> QED BY <1>1, JoinedBytes

Seven(a, b, c) == <<7, a, 1, b, c, c, 0>>

\* The header of a streaming interface, and what is specific to an audio endpoint: seven bytes.
LEMMA SevenIs ==
  ASSUME NEW a \in Nat, NEW b \in Nat, NEW c \in Nat
  PROVE  LET p == Seven(a, b, c)
         IN /\ p \in Piece /\ Len(p) = 7
            /\ p[2] = a /\ p[3] = 1 /\ p[4] = b
            /\ p[5] = c /\ p[6] = c /\ p[7] = 0
<1>1. PICK p : p = Seven(a, b, c)
  OBVIOUS
<1>2. /\ p \in Seq(Nat) /\ Len(p) = 7 /\ p[1] = 7
      /\ p[2] = a /\ p[3] = 1 /\ p[4] = b
      /\ p[5] = c /\ p[6] = c /\ p[7] = 0
  BY <1>1 DEF Seven
<1>3. p \in Piece
  <2>1. p \in Seq(Nat) /\ Len(p) >= 2 /\ p[1] = Len(p)
    BY <1>2
  <2> QED BY Zenon, <2>1, PieceOf
<1> QED BY <1>1, <1>2, <1>3

Nine(a, b, c, d, e, f, g, h) == <<9, a, b, c, d, e, f, g, h>>

\* Nine bytes that begin with 9 are a piece.
LEMMA NinePiece ==
  ASSUME NEW p \in Seq(Nat), Len(p) = 9, p[1] = 9
  PROVE  p \in Piece
<1>1. p \in Seq(Nat) /\ Len(p) >= 2 /\ p[1] = Len(p)
  OBVIOUS
<1> QED BY Zenon, <1>1, PieceOf

Twelve(a, b, c) == <<12, 36, 2, a, 1, b, 0, Channels, 63, 6, 0, c>>

\* An input terminal is twelve bytes.
LEMMA TwelveIs ==
  ASSUME NEW a \in Nat, NEW b \in Nat, NEW c \in Nat
  PROVE  LET p == Twelve(a, b, c)
         IN /\ p \in Piece /\ Len(p) = 12
            /\ p[2] = 36 /\ p[3] = 2 /\ p[4] = a /\ p[12] = c
<1>1. PICK p : p = Twelve(a, b, c)
  OBVIOUS
<1>2. /\ p \in Seq(Nat) /\ Len(p) = 12 /\ p[1] = 12
      /\ p[2] = 36 /\ p[3] = 2 /\ p[4] = a /\ p[12] = c
  BY <1>1 DEF Twelve, Channels
<1>3. p \in Piece
  <2>1. p \in Seq(Nat) /\ Len(p) >= 2 /\ p[1] = Len(p)
    BY <1>2
  <2> QED BY Zenon, <2>1, PieceOf
<1> QED BY <1>1, <1>2, <1>3

\* The six descriptors of a cable in the control interface.
IsTopology(q, l) ==
  /\ Len(q) = 6
  /\ q[1][2] = 36 /\ q[1][3] = 2 /\ q[1][4] = 1 + 6 * l /\ q[1][12] = 0
  /\ q[2][2] = 36 /\ q[2][3] = 6 /\ q[2][4] = 2 + 6 * l /\ q[2][5] = 1 + 6 * l
  /\ q[3][2] = 36 /\ q[3][3] = 3 /\ q[3][4] = 3 + 6 * l /\ q[3][8] = 2 + 6 * l
  /\ q[3][9] = 4 + 2 * l
  /\ q[4][2] = 36 /\ q[4][3] = 2 /\ q[4][4] = 4 + 6 * l /\ q[4][12] = 5 + 2 * l
  /\ q[5][2] = 36 /\ q[5][3] = 6 /\ q[5][4] = 5 + 6 * l /\ q[5][5] = 4 + 6 * l
  /\ q[6][2] = 36 /\ q[6][3] = 3 /\ q[6][4] = 6 + 6 * l /\ q[6][8] = 5 + 6 * l
  /\ q[6][9] = 0

\* The entities of a cable are 74 bytes that read as its six entities.
LEMMA TopologyReads ==
  ASSUME NEW l \in 0..3
  PROVE  Len(Topology(l)) = 74 /\ \E q : Reads(Topology(l), q) /\ IsTopology(q, l)
<1>1. PICK e1, e2, e3, e4, e5, e6, x, y \in Nat :
        /\ e1 = 1 + 6 * l /\ e2 = 2 + 6 * l /\ e3 = 3 + 6 * l /\ e4 = 4 + 6 * l
        /\ e5 = 5 + 6 * l /\ e6 = 6 + 6 * l /\ x = 4 + 2 * l /\ y = 5 + 2 * l
        /\ e2 = e1 + 1 /\ e3 = e1 + 2 /\ e4 = e1 + 3 /\ e5 = e1 + 4 /\ e6 = e1 + 5
  OBVIOUS
<1>2. PICK p1 : p1 = Twelve(e1, 1, 0)
  OBVIOUS
<1>3. PICK p2 : p2 = FeatureUnit(e2, e1)
  OBVIOUS
<1>4. PICK p3 : p3 = Nine(36, 3, e3, 1, 3, 0, e2, x)
  OBVIOUS
<1>5. PICK p4 : p4 = Twelve(e4, 2, y)
  OBVIOUS
<1>6. PICK p5 : p5 = FeatureUnit(e5, e4)
  OBVIOUS
<1>7. PICK p6 : p6 = Nine(36, 3, e6, 1, 1, 0, e5, 0)
  OBVIOUS
<1>8. /\ p1 \in Piece /\ Len(p1) = 12 /\ p1[2] = 36 /\ p1[3] = 2 /\ p1[4] = e1 /\ p1[12] = 0
      /\ p4 \in Piece /\ Len(p4) = 12 /\ p4[2] = 36 /\ p4[3] = 2 /\ p4[4] = e4 /\ p4[12] = y
  BY <1>2, <1>5, TwelveIs
<1>9. /\ p2 \in Piece /\ Len(p2) = 16 /\ p2[2] = 36 /\ p2[3] = 6 /\ p2[4] = e2 /\ p2[5] = e1
      /\ p5 \in Piece /\ Len(p5) = 16 /\ p5[2] = 36 /\ p5[3] = 6 /\ p5[4] = e5 /\ p5[5] = e4
  BY <1>3, <1>6, FeatureUnitIs
<1>10. /\ p3 \in Piece /\ Len(p3) = 9 /\ p3[2] = 36 /\ p3[3] = 3 /\ p3[4] = e3 /\ p3[8] = e2
       /\ p3[9] = x
       /\ p6 \in Piece /\ Len(p6) = 9 /\ p6[2] = 36 /\ p6[3] = 3 /\ p6[4] = e6 /\ p6[8] = e5
       /\ p6[9] = 0
  <2>1. /\ p3 \in Seq(Nat) /\ Len(p3) = 9 /\ p3[1] = 9 /\ p3[2] = 36 /\ p3[3] = 3
        /\ p3[4] = e3 /\ p3[8] = e2 /\ p3[9] = x
    BY <1>4 DEF Nine
  <2>2. /\ p6 \in Seq(Nat) /\ Len(p6) = 9 /\ p6[1] = 9 /\ p6[2] = 36 /\ p6[3] = 3
        /\ p6[4] = e6 /\ p6[8] = e5 /\ p6[9] = 0
    BY <1>7 DEF Nine
  <2>3. p3 \in Piece /\ p6 \in Piece
    BY ONLY <2>1, <2>2, NinePiece
  <2> QED BY <2>1, <2>2, <2>3
<1>11. Topology(l) = p1 \o p2 \o p3 \o p4 \o p5 \o p6
  BY ZenonT(30), <1>1, <1>2, <1>3, <1>4, <1>5, <1>6, <1>7 DEF Topology, Twelve, Nine
<1>12. /\ Len(Topology(l)) = Len(p1) + Len(p2) + Len(p3) + Len(p4) + Len(p5) + Len(p6)
       /\ \E q : Reads(Topology(l), q) /\ Six(q, p1, p2, p3, p4, p5, p6)
  <2>1. /\ p1 \in Piece /\ p2 \in Piece /\ p3 \in Piece
        /\ p4 \in Piece /\ p5 \in Piece /\ p6 \in Piece
    BY <1>8, <1>9, <1>10
  <2> QED BY ONLY Zenon, <1>11, <2>1, ReadsSix
<1>13. PICK q : Reads(Topology(l), q) /\ Six(q, p1, p2, p3, p4, p5, p6)
  BY <1>12
<1>14. IsTopology(q, l)
  BY ONLY <1>1, <1>8, <1>9, <1>10, <1>13 DEF IsTopology, Six
<1>15. Len(Topology(l)) = 74
  BY ONLY <1>8, <1>9, <1>10, <1>12
<1> QED BY <1>13, <1>14, <1>15

\* The six descriptors of an interface that carries audio.
IsStreaming(q, i, terminal, address) ==
  /\ Len(q) = 6
  /\ q[1][2] = 4 /\ q[1][3] = i /\ q[1][4] = 0
  /\ q[2][2] = 4 /\ q[2][3] = i /\ q[2][4] = 1
  /\ q[3][2] = 36 /\ q[3][3] = 1 /\ q[3][4] = terminal
  /\ q[4][2] = 36 /\ q[4][3] = 2
  /\ q[5][2] = 5 /\ q[5][3] = address /\ q[5][5] = 0 /\ q[5][6] = 3 /\ q[5][7] = 4
  /\ q[6][2] = 37

\* A streaming interface is 52 bytes that read as its six descriptors.
LEMMA StreamingReads ==
  ASSUME NEW i \in Nat, NEW terminal \in Nat, NEW address \in Nat, NEW attributes \in Nat,
         NEW b, b = Streaming(i, terminal, address, attributes)
  PROVE  Len(b) = 52 /\ \E q : Reads(b, q) /\ IsStreaming(q, i, terminal, address)
<1>1. PICK p1 : p1 = Nine(4, i, 0, 0, 1, 2, 0, 0)
  OBVIOUS
<1>2. PICK p2 : p2 = Nine(4, i, 1, 1, 1, 2, 0, 0)
  OBVIOUS
<1>3. PICK p3 : p3 = Seven(36, terminal, 1)
  OBVIOUS
<1>4. PICK p4 : p4 = <<11, 36, 2, 1, Channels, 2, 16, 1, 128, 187, 0>>
  OBVIOUS
<1>5. PICK p5 : p5 = Nine(5, address, attributes, 0, 3, 4, 0, 0)
  OBVIOUS
<1>6. PICK p6 : p6 = Seven(37, 0, 0)
  OBVIOUS
<1>7. /\ p1 \in Piece /\ Len(p1) = 9 /\ p1[2] = 4 /\ p1[3] = i /\ p1[4] = 0
      /\ p2 \in Piece /\ Len(p2) = 9 /\ p2[2] = 4 /\ p2[3] = i /\ p2[4] = 1
  <2>1. p1 \in Seq(Nat) /\ Len(p1) = 9 /\ p1[1] = 9 /\ p1[2] = 4 /\ p1[3] = i /\ p1[4] = 0
    BY <1>1 DEF Nine
  <2>2. p2 \in Seq(Nat) /\ Len(p2) = 9 /\ p2[1] = 9 /\ p2[2] = 4 /\ p2[3] = i /\ p2[4] = 1
    BY <1>2 DEF Nine
  <2>3. p1 \in Piece /\ p2 \in Piece
    BY ONLY <2>1, <2>2, NinePiece
  <2> QED BY <2>1, <2>2, <2>3
<1>8. p5 \in Piece /\ Len(p5) = 9 /\ p5[2] = 5 /\ p5[3] = address /\ p5[5] = 0 /\ p5[6] = 3
      /\ p5[7] = 4
  <2>1. /\ p5 \in Seq(Nat) /\ Len(p5) = 9 /\ p5[1] = 9 /\ p5[2] = 5 /\ p5[3] = address
        /\ p5[5] = 0 /\ p5[6] = 3 /\ p5[7] = 4
    BY <1>5 DEF Nine
  <2>2. p5 \in Piece
    BY ONLY <2>1, NinePiece
  <2> QED BY <2>1, <2>2
<1>9. p3 \in Piece /\ Len(p3) = 7 /\ p3[2] = 36 /\ p3[3] = 1 /\ p3[4] = terminal
  BY <1>3, SevenIs
<1>10. p6 \in Piece /\ Len(p6) = 7 /\ p6[2] = 37
  BY <1>6, SevenIs
<1>11. p4 \in Piece /\ Len(p4) = 11 /\ p4[2] = 36 /\ p4[3] = 2
  <2>1. p4 \in Seq(Nat) /\ Len(p4) = 11 /\ p4[1] = 11 /\ p4[2] = 36 /\ p4[3] = 2
    BY <1>4 DEF Channels
  <2>2. p4 \in Seq(Nat) /\ Len(p4) >= 2 /\ p4[1] = Len(p4)
    BY <2>1
  <2>3. p4 \in Piece
    BY Zenon, <2>2, PieceOf
  <2> QED BY <2>1, <2>3
<1>12. PICK p : p = <<9, 5, address, attributes, 0, 3, 4, 0, 0, 7, 37, 1, 0, 0, 0, 0>>
  OBVIOUS
<1>13. p = p5 \o p6
  <2>1. PICK x : x = p5 \o p6
    OBVIOUS
  <2>2. /\ p5 \in Seq(Nat) /\ p6 \in Seq(Nat) /\ p \in Seq(Nat)
        /\ Len(p) = 16 /\ Len(p5) = 9 /\ Len(p6) = 7
    BY <1>5, <1>6, <1>12 DEF Nine, Seven
  <2>3. /\ x \in Seq(Nat) /\ Len(x) = 16
        /\ \A k \in 1..16 : x[k] = IF k <= 9 THEN p5[k] ELSE p6[k - 9]
    <3>1. /\ x \in Seq(Nat) /\ Len(x) = Len(p5) + Len(p6)
          /\ \A k \in 1..Len(p5) + Len(p6) :
               x[k] = IF k <= Len(p5) THEN p5[k] ELSE p6[k - Len(p5)]
      BY <2>1, <2>2, ConcatProperties
    <3> QED BY ONLY <2>2, <3>1
  <2>4. \A k \in 1..9 : p[k] = p5[k]
    BY <1>5, <1>12 DEF Nine
  <2>5. \A k \in 10..16 : p[k] = p6[k - 9]
    BY <1>6, <1>12 DEF Seven
  <2>6. ASSUME NEW k \in 1..16 PROVE p[k] = x[k]
    <3>1. CASE k <= 9
      BY ONLY SMTT(20), <2>3, <2>4, <3>1, k \in 1..16
    <3>2. CASE ~(k <= 9)
      <4>1. k \in 10..16
        BY ONLY <3>2, k \in 1..16
      <4> QED BY <2>3, <2>5, <3>2, <4>1
    <3> QED BY <3>1, <3>2
  <2> QED BY <2>1, <2>2, <2>3, <2>6, SeqEqual
<1>14. Interface(i, 0, 0, 2) = p1 /\ Interface(i, 1, 1, 2) = p2
  BY Zenon, <1>1, <1>2 DEF Interface, Nine
<1>15. b = p1 \o p2 \o p3 \o p4 \o p
  BY Zenon, <1>3, <1>4, <1>12, <1>14 DEF Streaming, Seven
<1>16. PICK a \in Bytes : a = p1 \o p2 \o p3 \o p4
  <2>1. p1 \in Bytes /\ p2 \in Bytes /\ p3 \in Bytes /\ p4 \in Bytes
    BY <1>7, <1>9, <1>11 DEF Piece
  <2> QED BY ONLY Zenon, <2>1, BytesJoin
<1>17. b = a \o p5 \o p6
  <2>1. b = a \o (p5 \o p6)
    BY ONLY Zenon, <1>13, <1>15, <1>16
  <2>2. p5 \in Bytes /\ p6 \in Bytes
    BY <1>8, <1>10 DEF Piece
  <2> QED BY ONLY Zenon, a \in Bytes, <2>1, <2>2, BytesJoin
<1>18. PICK f : f = p1 \o p2 \o p3 \o p4 \o p5 \o p6 /\ f = b
  BY ONLY Zenon, <1>16, <1>17
<1>19. /\ Len(b) = Len(p1) + Len(p2) + Len(p3) + Len(p4) + Len(p5) + Len(p6)
       /\ \E q : Reads(b, q) /\ Six(q, p1, p2, p3, p4, p5, p6)
  <2>1. /\ p1 \in Piece /\ p2 \in Piece /\ p3 \in Piece
        /\ p4 \in Piece /\ p5 \in Piece /\ p6 \in Piece
    BY <1>7, <1>8, <1>9, <1>10, <1>11
  <2>2. /\ Len(f) = Len(p1) + Len(p2) + Len(p3) + Len(p4) + Len(p5) + Len(p6)
        /\ \E q : Reads(f, q) /\ Six(q, p1, p2, p3, p4, p5, p6)
    BY ONLY <1>18, <2>1, ReadsSix
  <2> QED BY ONLY Zenon, <1>18, <2>2
<1>20. PICK q : Reads(b, q) /\ Six(q, p1, p2, p3, p4, p5, p6)
  BY <1>19
<1>21. IsStreaming(q, i, terminal, address)
  BY ONLY <1>7, <1>8, <1>9, <1>10, <1>11, <1>20 DEF IsStreaming, Six
<1>22. Len(b) = 52
  BY ONLY <1>7, <1>8, <1>9, <1>10, <1>11, <1>19
<1> QED BY <1>20, <1>21, <1>22

\* The twelve descriptors of a cable's two streaming interfaces.
IsPair(q, l) ==
  /\ Len(q) = 12
  /\ q[1][2] = 4 /\ q[1][3] = 1 + 2 * l /\ q[1][4] = 0
  /\ q[2][2] = 4 /\ q[2][3] = 1 + 2 * l /\ q[2][4] = 1
  /\ q[3][2] = 36 /\ q[3][3] = 1 /\ q[3][4] = 1 + 6 * l
  /\ q[4][2] = 36 /\ q[4][3] = 2
  /\ q[5][2] = 5 /\ q[5][3] = 1 + l /\ q[5][5] = 0 /\ q[5][6] = 3 /\ q[5][7] = 4
  /\ q[6][2] = 37
  /\ q[7][2] = 4 /\ q[7][3] = 2 + 2 * l /\ q[7][4] = 0
  /\ q[8][2] = 4 /\ q[8][3] = 2 + 2 * l /\ q[8][4] = 1
  /\ q[9][2] = 36 /\ q[9][3] = 1 /\ q[9][4] = 6 + 6 * l
  /\ q[10][2] = 36 /\ q[10][3] = 2
  /\ q[11][2] = 5 /\ q[11][3] = 129 + l /\ q[11][5] = 0 /\ q[11][6] = 3 /\ q[11][7] = 4
  /\ q[12][2] = 37

\* The two streaming interfaces of a cable are 104 bytes that read as twelve descriptors.
LEMMA PairReads ==
  ASSUME NEW l \in 0..3
  PROVE  Len(StreamingPair(l)) = 104 /\ \E q : Reads(StreamingPair(l), q) /\ IsPair(q, l)
<1>1. PICK i, j, x, y, a, c \in Nat :
        /\ i = 1 + 2 * l /\ j = 2 + 2 * l /\ x = 1 + 6 * l /\ y = 6 + 6 * l
        /\ a = 1 + l /\ c = 129 + l /\ c = 128 + 1 + l
  OBVIOUS
<1>2. PICK s : s = Streaming(i, x, a, 9)
  OBVIOUS
<1>3. PICK t : t = Streaming(j, y, c, 13)
  OBVIOUS
<1>4. StreamingPair(l) = s \o t
  <2>1. /\ 1 + 2 * l = i /\ 2 + 2 * l = j /\ 1 + 6 * l = x /\ 6 + 6 * l = y
        /\ 1 + l = a /\ 128 + 1 + l = c
    BY <1>1
  <2> QED BY ONLY Zenon, <1>2, <1>3, <2>1 DEF StreamingPair
<1>5. 9 \in Nat /\ 13 \in Nat
  OBVIOUS
<1>6. Len(s) = 52 /\ \E q : Reads(s, q) /\ IsStreaming(q, i, x, a)
  BY ONLY <1>2, <1>5, StreamingReads, i \in Nat, x \in Nat, a \in Nat
<1>7. Len(t) = 52 /\ \E q : Reads(t, q) /\ IsStreaming(q, j, y, c)
  BY ONLY SMTT(60), <1>3, <1>5, StreamingReads, j \in Nat, y \in Nat, c \in Nat
<1>8. PICK q : Reads(s, q) /\ IsStreaming(q, i, x, a)
  BY <1>6
<1>9. PICK r : Reads(t, r) /\ IsStreaming(r, j, y, c)
  BY <1>7
<1>10. Reads(s \o t, q \o r)
  BY Zenon, <1>8, <1>9, ReadsJoin
<1>11. PICK w : w = q \o r
  OBVIOUS
<1>12. /\ Len(q) = 6 /\ Len(r) = 6 /\ q \in Seq(Piece) /\ r \in Seq(Piece)
       /\ s \in Seq(Nat) /\ t \in Seq(Nat)
  BY <1>8, <1>9 DEF IsStreaming, Reads, Bytes
<1>13. Len(w) = 12 /\ \A k \in 1..6 : w[k] = q[k] /\ w[6 + k] = r[k]
  <2>1. Len(w) = 12 /\ \A k \in 1..12 : w[k] = IF k <= 6 THEN q[k] ELSE r[k - 6]
    <3>1. /\ Len(w) = Len(q) + Len(r)
          /\ \A k \in 1..Len(q) + Len(r) : w[k] = IF k <= Len(q) THEN q[k] ELSE r[k - Len(q)]
      <4> HIDE DEF Piece
      <4> QED BY ONLY <1>11, <1>12, ConcatProperties
    <3> QED BY ONLY <1>12, <3>1
  <2>2. ASSUME NEW k \in 1..6 PROVE w[k] = q[k] /\ w[6 + k] = r[k]
    <3>1. k \in 1..12 /\ 6 + k \in 1..12 /\ k <= 6 /\ ~(6 + k <= 6) /\ (6 + k) - 6 = k
      OBVIOUS
    <3>2. w[k] = q[k]
      BY ONLY <2>1, <3>1
    <3>3. w[6 + k] = r[(6 + k) - 6]
      BY ONLY <2>1, <3>1
    <3> QED BY ONLY <3>1, <3>2, <3>3
  <2> QED BY <2>1, <2>2
<1>14. /\ w[1] = q[1] /\ w[2] = q[2] /\ w[3] = q[3] /\ w[4] = q[4] /\ w[5] = q[5]
       /\ w[6] = q[6] /\ w[7] = r[1] /\ w[8] = r[2] /\ w[9] = r[3] /\ w[10] = r[4]
       /\ w[11] = r[5] /\ w[12] = r[6]
  BY ONLY <1>13
<1>15. IsPair(w, l)
  BY ONLY <1>1, <1>8, <1>9, <1>13, <1>14 DEF IsPair, IsStreaming
<1>16. Len(s \o t) = 104
  <2>1. Len(s \o t) = Len(s) + Len(t)
    BY ONLY <1>12, ConcatProperties
  <2> QED BY ONLY <1>6, <1>7, <2>1
<1>17. Reads(StreamingPair(l), w)
  BY ONLY Zenon, <1>4, <1>10, <1>11
<1>18. Len(StreamingPair(l)) = 104
  BY ONLY Zenon, <1>4, <1>16
<1> QED BY Zenon, <1>15, <1>17, <1>18

\* The descriptors of all cables in the control interface.
LEMMA TopologiesRead ==
  ASSUME NEW n \in 1..4
  PROVE  LET s == [c \in 1..n |-> Topology(c - 1)]
         IN \E u, q : /\ \A c \in 1..n : IsTopology(u[c], c - 1)
                      /\ Len(FlattenSeq(s)) = 74 * n
                      /\ Reads(FlattenSeq(s), q) /\ InTurn(q, u, n, 6)
<1> DEFINE t == [c \in 1..n |-> CHOOSE q : Reads(Topology(c - 1), q) /\ IsTopology(q, c - 1)]
<1>1. ASSUME NEW c \in 1..n
      PROVE  /\ Len(Topology(c - 1)) = 74 /\ Reads(Topology(c - 1), t[c])
             /\ IsTopology(t[c], c - 1)
  <2>1. c - 1 \in 0..3
    OBVIOUS
  <2>2. /\ Len(Topology(c - 1)) = 74
        /\ \E q : Reads(Topology(c - 1), q) /\ IsTopology(q, c - 1)
    BY Zenon, <2>1, TopologyReads
  <2> QED BY Zenon, <2>2
<1>2. PICK u : \A c \in 1..n : /\ Len(Topology(c - 1)) = 74 /\ Reads(Topology(c - 1), u[c])
                               /\ IsTopology(u[c], c - 1)
  <2> HIDE DEF t
  <2> QED BY <1>1
<1>3. PICK s : s = [c \in 1..n |-> Topology(c - 1)]
  OBVIOUS
<1>4. \A c \in 1..n : s[c] = Topology(c - 1)
  BY Zenon, <1>3
<1>5. \A c \in 1..n : Reads(s[c], u[c]) /\ Len(u[c]) = 6 /\ Len(s[c]) = 74
  <2>1. ASSUME NEW c \in 1..n PROVE Reads(s[c], u[c]) /\ Len(u[c]) = 6 /\ Len(s[c]) = 74
    <3>1. IsTopology(u[c], c - 1) => Len(u[c]) = 6
      BY DEF IsTopology
    <3> QED BY <1>2, <1>4, <3>1
  <2> QED BY Zenon, <2>1
<1>6. s \in Seq(Bytes) /\ Len(s) = n
  <2>1. \A c \in 1..n : s[c] \in Bytes
    BY Zenon, <1>5 DEF Reads
  <2>2. s \in [1..n -> Bytes]
    BY Zenon, <1>3, <1>4, <2>1
  <2>3. \A T : \A g \in [1..n -> T] : g \in Seq(T) /\ Len(g) = n
    OBVIOUS
  <2> QED BY Zenon, <2>2, <2>3
<1>7. 6 \in {6, 12} /\ 74 \in {74, 104}
  OBVIOUS
<1>8. Len(FlattenSeq(s)) = 74 * n /\ \E q : Reads(FlattenSeq(s), q) /\ InTurn(q, u, n, 6)
  <2>1. AllRead(s, u, n, 6, 74)
    BY ONLY Zenon, <1>5, <1>6 DEF AllRead
  <2> QED BY ONLY Zenon, n \in 1..4, <1>7, <2>1, EachReads
<1> QED BY Zenon, <1>2, <1>3, <1>8

\* The descriptors of all streaming interfaces.
LEMMA PairsRead ==
  ASSUME NEW n \in 1..4
  PROVE  LET s == [c \in 1..n |-> StreamingPair(c - 1)]
         IN \E v, q : /\ \A c \in 1..n : IsPair(v[c], c - 1)
                      /\ Len(FlattenSeq(s)) = 104 * n
                      /\ Reads(FlattenSeq(s), q) /\ InTurn(q, v, n, 12)
<1> DEFINE t == [c \in 1..n |-> CHOOSE q : Reads(StreamingPair(c - 1), q) /\ IsPair(q, c - 1)]
<1>1. ASSUME NEW c \in 1..n
      PROVE  /\ Len(StreamingPair(c - 1)) = 104 /\ Reads(StreamingPair(c - 1), t[c])
             /\ IsPair(t[c], c - 1)
  <2>1. c - 1 \in 0..3
    OBVIOUS
  <2>2. /\ Len(StreamingPair(c - 1)) = 104
        /\ \E q : Reads(StreamingPair(c - 1), q) /\ IsPair(q, c - 1)
    BY Zenon, <2>1, PairReads
  <2> QED BY Zenon, <2>2
<1>2. PICK v : \A c \in 1..n : /\ Len(StreamingPair(c - 1)) = 104
                               /\ Reads(StreamingPair(c - 1), v[c])
                               /\ IsPair(v[c], c - 1)
  <2> HIDE DEF t
  <2> QED BY <1>1
<1>3. PICK s : s = [c \in 1..n |-> StreamingPair(c - 1)]
  OBVIOUS
<1>4. \A c \in 1..n : s[c] = StreamingPair(c - 1)
  BY Zenon, <1>3
<1>5. \A c \in 1..n : Reads(s[c], v[c]) /\ Len(v[c]) = 12 /\ Len(s[c]) = 104
  <2>1. ASSUME NEW c \in 1..n PROVE Reads(s[c], v[c]) /\ Len(v[c]) = 12 /\ Len(s[c]) = 104
    <3>1. IsPair(v[c], c - 1) => Len(v[c]) = 12
      BY DEF IsPair
    <3> QED BY <1>2, <1>4, <3>1
  <2> QED BY Zenon, <2>1
<1>6. s \in Seq(Bytes) /\ Len(s) = n
  <2>1. \A c \in 1..n : s[c] \in Bytes
    BY Zenon, <1>5 DEF Reads
  <2>2. s \in [1..n -> Bytes]
    BY Zenon, <1>3, <1>4, <2>1
  <2>3. \A T : \A g \in [1..n -> T] : g \in Seq(T) /\ Len(g) = n
    OBVIOUS
  <2> QED BY Zenon, <2>2, <2>3
<1>7. 12 \in {6, 12} /\ 104 \in {74, 104}
  OBVIOUS
<1>8. Len(FlattenSeq(s)) = 104 * n /\ \E q : Reads(FlattenSeq(s), q) /\ InTurn(q, v, n, 12)
  <2>1. AllRead(s, v, n, 12, 104)
    BY ONLY Zenon, <1>5, <1>6 DEF AllRead
  <2> QED BY ONLY Zenon, n \in 1..4, <1>7, <2>1, EachReads
<1> QED BY Zenon, <1>2, <1>3, <1>8

\* The header of the control interface counts itself and every cable's entities.
LEMMA AudioHeaderIs ==
  ASSUME NEW n \in 1..4
  PROVE  LET h == AudioHeader(n)
         IN /\ h \in Piece /\ Len(h) = 8 + 2 * n /\ h[2] = 36 /\ h[3] = 1
            /\ h[6] + 256 * h[7] = 8 + 76 * n
<1>1. PICK t \in Nat : t = 8 + 2 * n + 74 * n /\ t = 8 + 76 * n
  OBVIOUS
<1>2. PICK l \in Nat : l = 8 + 2 * n
  OBVIOUS
<1>3. t % 256 \in Nat /\ t \div 256 \in Nat /\ (t % 256) + 256 * (t \div 256) = t
  OBVIOUS
<1>4. PICK x, y \in Nat : x = t % 256 /\ y = t \div 256 /\ x + 256 * y = t
  BY <1>3
<1>5. PICK a \in Seq(Nat) : /\ a = <<l, 36, 1, 0, 1, x, y, 2 * n>> /\ Len(a) = 8 /\ a[1] = l
                            /\ a[2] = 36 /\ a[3] = 1 /\ a[6] = x /\ a[7] = y
  <2>1. <<l, 36, 1, 0, 1, x, y, 2 * n>> \in Seq(Nat)
    OBVIOUS
  <2> QED BY <2>1
<1>6. PICK z \in Seq(Nat) : z = [i \in 1..2 * n |-> i] /\ Len(z) = 2 * n
  <2>1. [i \in 1..2 * n |-> i] \in [1..2 * n -> Nat] /\ 2 * n \in Nat
    OBVIOUS
  <2>2. \A m \in Nat : \A g \in [1..m -> Nat] : g \in Seq(Nat) /\ Len(g) = m
    OBVIOUS
  <2> QED BY Zenon, <2>1, <2>2
<1>7. PICK f : f = a \o z
  OBVIOUS
<1>8. /\ f \in Seq(Nat) /\ Len(f) = Len(a) + Len(z)
      /\ \A i \in 1..Len(a) + Len(z) : f[i] = IF i <= Len(a) THEN a[i] ELSE z[i - Len(a)]
  BY <1>7, ConcatProperties
<1>9. Len(f) = l /\ f[1] = l /\ f[2] = 36 /\ f[3] = 1 /\ f[6] = x /\ f[7] = y /\ l >= 2
  <2>1. Len(f) = l /\ l >= 2 /\ 8 <= Len(a) + Len(z) /\ Len(a) = 8 /\ Len(a) + Len(z) \in Nat
    BY ONLY <1>2, <1>5, <1>6, <1>8, n \in 1..4
  <2>2. \A i \in 1..8 : f[i] = a[i]
    BY ONLY <1>8, <2>1
  <2> QED BY ONLY <1>5, <2>1, <2>2
<1>10. AudioHeader(n) = f
  <2>1. 8 + 2 * n = l /\ l + 74 * n = t
    BY <1>1, <1>2
  <2> QED BY ZenonT(30), <1>4, <1>5, <1>6, <1>7, <2>1 DEF AudioHeader
<1>11. f \in Piece
  BY Zenon, <1>8, <1>9, PieceOf
<1>12. f[6] + 256 * f[7] = 8 + 76 * n
  BY ONLY <1>1, <1>4, <1>9
<1> QED BY Zenon, <1>2, <1>9, <1>10, <1>11, <1>12

-----------------------------------------------------------------------------
(* The configuration descriptor as a host reads it. *)

\* w is q and r behind it.
Both(w, q, r) ==
  /\ Len(w) = Len(q) + Len(r)
  /\ \A k \in 1..Len(q) : w[k] = q[k]
  /\ \A k \in 1..Len(r) : w[Len(q) + k] = r[k]

\* What reads, joined to what reads, reads as both.
LEMMA ReadsBoth ==
  ASSUME NEW b, NEW q, NEW c, NEW r, Reads(b, q), Reads(c, r)
  PROVE  /\ Len(b \o c) = Len(b) + Len(c)
         /\ \E w : Reads(b \o c, w) /\ Both(w, q, r)
<1>1. b \in Bytes /\ c \in Bytes /\ q \in Seq(Piece) /\ r \in Seq(Piece)
  BY DEF Reads
<1>2. PICK w : w = q \o r
  OBVIOUS
<1>3. Len(q) \in Nat /\ Len(r) \in Nat
  BY <1>1, LenProperties
<1>4. /\ Len(w) = Len(q) + Len(r)
      /\ \A k \in 1..Len(q) + Len(r) : w[k] = IF k <= Len(q) THEN q[k] ELSE r[k - Len(q)]
  <2> HIDE DEF Piece
  <2> QED BY ONLY <1>1, <1>2, ConcatProperties
<1>5. ASSUME NEW k \in 1..Len(q) PROVE w[k] = q[k]
  BY ONLY <1>3, <1>4, k \in 1..Len(q)
<1>6. ASSUME NEW k \in 1..Len(r) PROVE w[Len(q) + k] = r[k]
  <2>1. /\ Len(q) + k \in 1..Len(q) + Len(r) /\ ~(Len(q) + k <= Len(q))
        /\ (Len(q) + k) - Len(q) = k
    BY ONLY <1>3, k \in 1..Len(r)
  <2> QED BY ONLY <1>4, <2>1
<1>7. Both(w, q, r)
  BY ONLY <1>4, <1>5, <1>6 DEF Both
<1>8. Len(b \o c) = Len(b) + Len(c)
  BY <1>1, JoinedBytes
<1>9. Reads(b \o c, w)
  BY Zenon, <1>2, ReadsJoin
<1> QED BY Zenon, <1>7, <1>8, <1>9

\* A descriptor in front.
InFront(w, p, q) ==
  Len(w) = 1 + Len(q) /\ w[1] = p /\ \A k \in 1..Len(q) : w[1 + k] = q[k]

\* A piece in front of what reads is one more piece.
LEMMA ReadsInFront ==
  ASSUME NEW p \in Piece, NEW b, NEW q, Reads(b, q)
  PROVE  /\ Len(p \o b) = Len(p) + Len(b)
         /\ \E w : Reads(p \o b, w) /\ InFront(w, p, q)
<1>1. PICK s : s = <<p>> /\ Len(s) = 1 /\ s[1] = p
  <2>1. \A x : Len(<<x>>) = 1 /\ <<x>>[1] = x
    OBVIOUS
  <2> QED BY Zenon, <2>1
<1>2. Reads(p, s)
  BY Zenon, <1>1, ReadsOne
<1>3. /\ Len(p \o b) = Len(p) + Len(b)
      /\ \E w : Reads(p \o b, w) /\ Both(w, s, q)
  BY Zenon, <1>2, ReadsBoth
<1>4. PICK w : Reads(p \o b, w) /\ Both(w, s, q)
  BY <1>3
<1>5. InFront(w, p, q)
  BY ONLY <1>1, <1>4 DEF InFront, Both
<1> QED BY Zenon, <1>3, <1>4, <1>5

\* Bytes between others are found by their place.
LEMMA Between ==
  ASSUME NEW a \in Bytes, NEW e \in Bytes, NEW z \in Bytes
  PROVE  SubSeq(a \o (e \o z), Len(a) + 1, Len(a) + Len(e)) = e
<1>1. PICK b, y : y = e \o z /\ b = a \o y
  OBVIOUS
<1>2. PICK l, m \in Nat : l = Len(a) /\ m = Len(e)
  BY DEF Bytes
<1>3. /\ y \in Bytes /\ Len(y) = m + Len(z) /\ Len(z) \in Nat
      /\ \A p \in 1..m : y[p] = e[p]
  BY Zenon, <1>1, <1>2, JoinedBytes
<1>4. /\ b \in Bytes /\ Len(b) = l + Len(y) /\ Len(y) \in Nat
      /\ \A p \in 1..Len(y) : b[l + p] = y[p]
  BY ZenonT(30), <1>1, <1>2, <1>3, JoinedBytes
<1>5. PICK s : s = SubSeq(b, l + 1, l + m)
  OBVIOUS
<1>6. s \in Seq(Nat) /\ Len(s) = m /\ \A p \in 1..m : s[p] = b[l + p]
  <2>1. b \in Seq(Nat)
    BY <1>4 DEF Bytes
  <2>2. l + 1 \in 1..Len(b) + 1 /\ l + m \in 0..Len(b) /\ l + m - (l + 1) + 1 = m
    BY ONLY <1>3, <1>4, l \in Nat, m \in Nat
  <2>3. Len(b) \in Nat /\ \A i \in l + 1 .. l + m : b[i] \in Nat
    BY <2>1, <2>2
  <2>4. s \in Seq(Nat) /\ Len(s) = m
    BY <1>5, <2>1, <2>2, <2>3
  <2>5. \A p \in 1..m : s[p] = b[l + p]
    BY <1>5, <2>1, <2>2, <2>3
  <2> QED BY <2>4, <2>5
<1>7. ASSUME NEW p \in 1..m PROVE s[p] = e[p]
  <2>1. p \in 1..Len(y)
    BY ONLY <1>3, m \in Nat, p \in 1..m
  <2> QED BY <1>3, <1>4, <1>6, <2>1
<1>8. s = e
  <2>1. e \in Seq(Nat) /\ Len(e) = m
    BY <1>2 DEF Bytes
  <2> QED BY ONLY <1>6, <1>7, <2>1, SeqEqual
<1> QED BY Zenon, <1>1, <1>2, <1>5, <1>8

\* d is b and c behind it, byte by byte.
Placed(d, b, c) ==
  /\ d \in Bytes /\ Len(d) = Len(b) + Len(c)
  /\ \A p \in 1..Len(b) : d[p] = b[p]
  /\ \A p \in 1..Len(c) : d[Len(b) + p] = c[p]

\* Where the bytes of two parts are in the whole.
LEMMA PlacedBytes ==
  ASSUME NEW b \in Bytes, NEW c \in Bytes, NEW d, d = b \o c
  PROVE  Placed(d, b, c)
<1>1. /\ b \o c \in Bytes /\ Len(b \o c) = Len(b) + Len(c)
      /\ \A p \in 1..Len(b) : (b \o c)[p] = b[p]
      /\ \A p \in 1..Len(c) : (b \o c)[Len(b) + p] = c[p]
  BY JoinedBytes
<1> QED BY Zenon, <1>1 DEF Placed

\* What reading the configuration descriptor of n cables gives.
Listing(b, n, u, v, q, w) ==
  /\ \A c \in 1..n : IsTopology(u[c], c - 1) /\ IsPair(v[c], c - 1)
  /\ b \in Bytes /\ Len(b) = 26 + 180 * n
  /\ b[2] = 2 /\ b[3] + 256 * b[4] = Len(b) /\ b[5] = 1 + 2 * n /\ b[6] = 1
  /\ Reads(b, q) /\ Len(q) = 3 + 18 * n
  /\ q[1][2] = 2 /\ q[2][2] = 4 /\ q[2][3] = 0 /\ q[2][4] = 0 /\ q[3][2] = 36 /\ q[3][3] = 1
  /\ \A c \in 1..n, k \in 1..6 : q[3 + 6 * (c - 1) + k] = u[c][k]
  /\ \A c \in 1..n, k \in 1..12 : q[3 + 6 * n + 12 * (c - 1) + k] = v[c][k]
  /\ Reads(SubSeq(b, 19, 18 + (b[24] + 256 * b[25])), w)
  /\ Len(w) = 1 + 6 * n /\ w[1][3] = 1
  /\ \A c \in 1..n, k \in 1..6 : w[1 + 6 * (c - 1) + k] = u[c][k]

IsConfiguration(b, n) == \E u, v, q, w : Listing(b, n, u, v, q, w)

\* The configuration of n cables reads as three descriptors, n topologies and n pairs of
\* streaming interfaces, and states its own length.
LEMMA ConfigurationIs ==
  ASSUME NEW n \in 1..4
  PROVE  IsConfiguration(Configuration(n), n)
<1>1. PICK i : i = Interface(0, 0, 0, 1)
  OBVIOUS
<1>2. i \in Piece /\ Len(i) = 9 /\ i[2] = 4 /\ i[3] = 0 /\ i[4] = 0
  <2>1. i \in Seq(Nat) /\ Len(i) = 9 /\ i[1] = 9 /\ i[2] = 4 /\ i[3] = 0 /\ i[4] = 0
    BY <1>1 DEF Interface
  <2> QED BY <2>1, NinePiece
<1>3. PICK h : h = AudioHeader(n)
  OBVIOUS
<1>4. /\ h \in Piece /\ Len(h) = 8 + 2 * n /\ h[2] = 36 /\ h[3] = 1
      /\ h[6] + 256 * h[7] = 8 + 76 * n
  BY ZenonT(30), <1>3, AudioHeaderIs
<1>5. PICK A : A = FlattenSeq([c \in 1..n |-> Topology(c - 1)])
  OBVIOUS
<1>6. PICK u, qa : /\ \A c \in 1..n : IsTopology(u[c], c - 1)
                   /\ Len(A) = 74 * n /\ Reads(A, qa) /\ InTurn(qa, u, n, 6)
  BY Zenon, <1>5, TopologiesRead
<1>7. PICK P : P = FlattenSeq([c \in 1..n |-> StreamingPair(c - 1)])
  OBVIOUS
<1>8. PICK v, qp : /\ \A c \in 1..n : IsPair(v[c], c - 1)
                   /\ Len(P) = 104 * n /\ Reads(P, qp) /\ InTurn(qp, v, n, 12)
  BY Zenon, <1>7, PairsRead
<1>9. PICK e, g, x : e = h \o A /\ g = i \o e /\ x = g \o P
  OBVIOUS
<1>10. PICK w : Len(e) = Len(h) + Len(A) /\ Reads(e, w) /\ InFront(w, h, qa)
  BY Zenon, <1>4, <1>6, <1>9, ReadsInFront
<1>11. PICK qg : Len(g) = Len(i) + Len(e) /\ Reads(g, qg) /\ InFront(qg, i, w)
  BY Zenon, <1>2, <1>9, <1>10, ReadsInFront
<1>12. PICK qx : Len(x) = Len(g) + Len(P) /\ Reads(x, qx) /\ Both(qx, qg, qp)
  BY Zenon, <1>8, <1>9, <1>11, ReadsBoth
<1>13. x = i \o h \o A \o P
  <2>1. i \in Bytes /\ h \in Bytes /\ A \in Bytes
    BY <1>2, <1>4, <1>6 DEF Piece, Reads
  <2>2. (i \o h) \o A = g
    BY ZenonT(30), <1>9, <2>1, BytesJoin
  <2> QED BY Zenon, <1>9, <2>2
<1>14. Len(e) = 8 + 76 * n /\ Len(g) = 17 + 76 * n /\ Len(x) = 17 + 180 * n
  BY ONLY <1>2, <1>4, <1>6, <1>8, <1>10, <1>11, <1>12, n \in 1..4
<1>15. PICK t \in Nat : t = 9 + Len(x) /\ t = 26 + 180 * n
  BY ONLY <1>14, n \in 1..4
<1>16. PICK y, z \in Nat : y = t % 256 /\ z = t \div 256 /\ y + 256 * z = t
  BY t \in Nat
<1>17. PICK m \in Nat : m = 1 + 2 * n
  OBVIOUS
<1>18. PICK h0 : h0 = <<9, 2, y, z, m, 1, 0, 128, 50>>
  OBVIOUS
<1>19. /\ h0 \in Piece /\ Len(h0) = 9 /\ h0[2] = 2 /\ h0[3] = y /\ h0[4] = z
       /\ h0[5] = m /\ h0[6] = 1
  <2>1. /\ h0 \in Seq(Nat) /\ Len(h0) = 9 /\ h0[1] = 9 /\ h0[2] = 2 /\ h0[3] = y
        /\ h0[4] = z /\ h0[5] = m /\ h0[6] = 1
    BY <1>18
  <2> QED BY <2>1, NinePiece
<1>20. PICK b : b = h0 \o x
  OBVIOUS
<1>21. Configuration(n) = b
  <2>1. x = Interface(0, 0, 0, 1) \o AudioHeader(n)
            \o FlattenSeq([c \in 1..n |-> Topology(c - 1)])
            \o FlattenSeq([c \in 1..n |-> StreamingPair(c - 1)])
    BY Zenon, <1>1, <1>3, <1>5, <1>7, <1>13
  <2>2. h0 = <<9, 2, (9 + Len(x)) % 256, (9 + Len(x)) \div 256, 1 + 2 * n, 1, 0, 128, 50>>
    BY ZenonT(30), <1>15, <1>16, <1>17, <1>18
  <2> QED BY Zenon, <1>20, <2>1, <2>2 DEF Configuration
<1>22. PICK q : Len(b) = Len(h0) + Len(x) /\ Reads(b, q) /\ InFront(q, h0, qx)
  BY Zenon, <1>12, <1>19, <1>20, ReadsInFront
<1>23. Len(b) = 26 + 180 * n
  BY ONLY <1>14, <1>19, <1>22, n \in 1..4
<1>24. /\ h0 \in Bytes /\ x \in Bytes /\ i \in Bytes /\ e \in Bytes /\ P \in Bytes
       /\ b \in Bytes /\ h \in Bytes /\ A \in Bytes /\ g \in Bytes
  BY <1>2, <1>4, <1>6, <1>8, <1>10, <1>11, <1>12, <1>19, <1>22 DEF Piece, Reads
<1>25. /\ \A p \in 1..9 : b[p] = h0[p]
       /\ \A p \in 1..Len(x) : b[9 + p] = x[p]
  <2>1. Placed(b, h0, x)
    BY ONLY Zenon, <1>20, <1>24, PlacedBytes
  <2> QED BY ONLY <1>19, <2>1 DEF Placed
<1>26. /\ b[2] = 2 /\ b[3] + 256 * b[4] = Len(b) /\ b[5] = 1 + 2 * n /\ b[6] = 1
  <2>1. b[2] = h0[2] /\ b[3] = h0[3] /\ b[4] = h0[4] /\ b[5] = h0[5] /\ b[6] = h0[6]
    BY ONLY <1>25
  <2> QED BY ONLY SMTT(20), <1>15, <1>16, <1>17, <1>19, <1>23, <2>1
<1>27. SubSeq(b, 19, 18 + (b[24] + 256 * b[25])) = e
  <2>1. b[24] = h[6] /\ b[25] = h[7]
    <3>1. Placed(x, g, P) /\ Placed(g, i, e) /\ Placed(e, h, A)
      BY ONLY Zenon, <1>9, <1>24, PlacedBytes
    <3>2. /\ 15 \in 1..Len(x) /\ 16 \in 1..Len(x) /\ 15 \in 1..Len(g) /\ 16 \in 1..Len(g)
          /\ 6 \in 1..Len(e) /\ 7 \in 1..Len(e) /\ 6 \in 1..Len(h) /\ 7 \in 1..Len(h)
      BY ONLY <1>4, <1>14, n \in 1..4
    <3>3. b[9 + 15] = x[15] /\ b[9 + 16] = x[16]
      BY ONLY <1>25, <3>2
    <3>4. x[15] = g[15] /\ x[16] = g[16]
      BY ONLY <3>1, <3>2 DEF Placed
    <3>5. g[9 + 6] = e[6] /\ g[9 + 7] = e[7]
      BY ONLY <1>2, <3>1, <3>2 DEF Placed
    <3>6. e[6] = h[6] /\ e[7] = h[7]
      BY ONLY <3>1, <3>2 DEF Placed
    <3> QED BY ONLY <3>3, <3>4, <3>5, <3>6
  <2>2. PICK a : a = h0 \o i /\ a \in Bytes /\ Len(a) = 18
    <3>1. h0 \o i \in Bytes /\ Len(h0 \o i) = Len(h0) + Len(i)
      BY Zenon, <1>24, JoinedBytes
    <3>2. Len(h0) + Len(i) = 18
      BY ONLY <1>2, <1>19
    <3> QED BY Zenon, <3>1, <3>2
  <2>3. b = a \o (e \o P)
    <3>1. PICK d \in Bytes : d = e \o P
      BY ONLY Zenon, <1>24, BytesJoin
    <3>2. x = i \o d
      <4>1. i \in Bytes /\ e \in Bytes /\ P \in Bytes
        BY ONLY <1>24
      <4>2. (i \o e) \o P = i \o (e \o P)
        BY ONLY SMTT(20), <4>1, ConcatAssociative DEF Bytes
      <4> QED BY ONLY Zenon, <1>9, <3>1, <4>2
    <3>3. (h0 \o i) \o d = h0 \o (i \o d)
      <4>1. i \in Bytes /\ h0 \in Bytes
        BY ONLY <1>24
      <4> QED BY ONLY Zenon, <4>1, d \in Bytes, BytesJoin
    <3> QED BY ONLY Zenon, <1>20, <2>2, <3>1, <3>2, <3>3
  <2>4. SubSeq(b, Len(a) + 1, Len(a) + Len(e)) = e
    BY Zenon, <1>24, <2>2, <2>3, Between
  <2>5. Len(a) + 1 = 19 /\ Len(a) + Len(e) = 18 + (b[24] + 256 * b[25])
    BY ONLY <1>4, <1>14, <2>1, <2>2, n \in 1..4
  <2> QED BY Zenon, <2>4, <2>5
<1>28. Len(qa) = 6 * n /\ Len(qp) = 12 * n
  BY <1>6, <1>8 DEF InTurn
<1>29. /\ Len(w) = 1 + 6 * n /\ w[1] = h /\ \A j \in 1..6 * n : w[1 + j] = qa[j]
       /\ Len(qg) = 2 + 6 * n /\ qg[1] = i /\ \A j \in 1..1 + 6 * n : qg[1 + j] = w[j]
  BY ONLY <1>10, <1>11, <1>28, n \in 1..4 DEF InFront
<1>30. /\ Len(qx) = 2 + 18 * n
       /\ \A j \in 1..2 + 6 * n : qx[j] = qg[j]
       /\ \A j \in 1..12 * n : qx[2 + 6 * n + j] = qp[j]
  BY ONLY SMTT(20), <1>12, <1>28, <1>29, n \in 1..4 DEF Both
<1>31. /\ Len(q) = 3 + 18 * n /\ q[1] = h0 /\ \A j \in 1..2 + 18 * n : q[1 + j] = qx[j]
  BY ONLY <1>22, <1>30, n \in 1..4 DEF InFront
<1>32. q[2] = i /\ q[3] = h
  <2>1. q[1 + 1] = qx[1] /\ q[1 + 2] = qx[2] /\ qx[1] = qg[1] /\ qx[2] = qg[2] /\ qg[1 + 1] = w[1]
    BY ONLY <1>29, <1>30, <1>31, n \in 1..4
  <2> QED BY ONLY <1>29, <2>1
<1>33. \A j \in 1..6 * n : q[3 + j] = qa[j]
  <2>1. ASSUME NEW j \in 1..6 * n PROVE q[3 + j] = qa[j]
    <3>1. /\ 2 + j \in 1..2 + 18 * n /\ 2 + j \in 1..2 + 6 * n /\ 1 + j \in 1..1 + 6 * n
          /\ 1 + (2 + j) = 3 + j /\ 1 + (1 + j) = 2 + j
      BY ONLY n \in 1..4, j \in 1..6 * n
    <3>2. q[1 + (2 + j)] = qx[2 + j] /\ qx[2 + j] = qg[2 + j] /\ qg[1 + (1 + j)] = w[1 + j]
      BY ONLY <1>29, <1>30, <1>31, <3>1
    <3> QED BY ONLY <1>29, <3>1, <3>2, j \in 1..6 * n
  <2> QED BY <2>1
<1>34. \A j \in 1..12 * n : q[3 + 6 * n + j] = qp[j]
  <2>1. ASSUME NEW j \in 1..12 * n PROVE q[3 + 6 * n + j] = qp[j]
    <3>1. /\ 2 + 6 * n + j \in 1..2 + 18 * n /\ 1 + (2 + 6 * n + j) = 3 + 6 * n + j
      BY ONLY n \in 1..4, j \in 1..12 * n
    <3>2. q[1 + (2 + 6 * n + j)] = qx[2 + 6 * n + j] /\ qx[2 + 6 * n + j] = qp[j]
      BY ONLY <1>30, <1>31, <3>1, j \in 1..12 * n
    <3> QED BY ONLY <3>1, <3>2
  <2> QED BY <2>1
<1>35. ASSUME NEW c \in 1..n, NEW k \in 1..6
       PROVE  q[3 + 6 * (c - 1) + k] = u[c][k] /\ w[1 + 6 * (c - 1) + k] = u[c][k]
  <2>1. PICK j \in 1..6 * n : j = 6 * (c - 1) + k
    BY ONLY n \in 1..4, c \in 1..n, k \in 1..6
  <2>2. qa[j] = u[c][k]
    BY <1>6, <2>1 DEF InTurn
  <2>3. 3 + 6 * (c - 1) + k = 3 + j /\ 1 + 6 * (c - 1) + k = 1 + j
    BY ONLY <2>1, c \in 1..n, k \in 1..6, n \in 1..4
  <2> QED BY ONLY <1>29, <1>33, <2>2, <2>3, j \in 1..6 * n
<1>36. ASSUME NEW c \in 1..n, NEW k \in 1..12
       PROVE  q[3 + 6 * n + 12 * (c - 1) + k] = v[c][k]
  <2>1. PICK j \in 1..12 * n : j = 12 * (c - 1) + k
    BY ONLY n \in 1..4, c \in 1..n, k \in 1..12
  <2>2. qp[j] = v[c][k]
    BY <1>8, <2>1 DEF InTurn
  <2>3. 3 + 6 * n + 12 * (c - 1) + k = 3 + 6 * n + j
    BY ONLY <2>1, c \in 1..n, k \in 1..12, n \in 1..4
  <2> QED BY ONLY <1>34, <2>2, <2>3, j \in 1..12 * n
<1>37. /\ q[1][2] = 2 /\ q[2][2] = 4 /\ q[2][3] = 0 /\ q[2][4] = 0
       /\ q[3][2] = 36 /\ q[3][3] = 1 /\ w[1][3] = 1
  BY ONLY <1>2, <1>4, <1>19, <1>29, <1>31, <1>32
<1>38. Reads(SubSeq(b, 19, 18 + (b[24] + 256 * b[25])), w)
  BY ONLY Zenon, <1>10, <1>27
<1>39. Len(w) = 1 + 6 * n /\ Len(q) = 3 + 18 * n /\ Reads(b, q)
  BY ONLY <1>22, <1>29, <1>31
<1>40. Listing(b, n, u, v, q, w)
  BY ONLY <1>6, <1>8, <1>23, <1>24, <1>26, <1>35, <1>36, <1>37, <1>38, <1>39
     DEF Listing
<1> QED BY Zenon, <1>21, <1>40 DEF IsConfiguration

\* Every descriptor of the configuration is one of the three first, of a topology or of a pair.
LEMMA PlaceOf ==
  ASSUME NEW n \in 1..4, NEW i \in 1..3 + 18 * n
  PROVE  \/ i \in {1, 2, 3}
         \/ \E c \in 1..n, k \in 1..6 : i = 3 + 6 * (c - 1) + k
         \/ \E c \in 1..n, k \in 1..12 : i = 3 + 6 * n + 12 * (c - 1) + k
<1>1. CASE i \in 4..3 + 6 * n
  <2>1. PICK j \in Nat : j = i - 4 /\ j < 6 * n
    BY <1>1
  <2>2. PICK a, k \in Nat : a = j \div 6 /\ k = j % 6 /\ k < 6 /\ j = 6 * a + k
    BY j \in Nat
  <2>3. a + 1 \in 1..n /\ k + 1 \in 1..6 /\ i = 3 + 6 * (a + 1 - 1) + (k + 1)
    BY ONLY <2>1, <2>2, n \in 1..4, i \in 1..3 + 18 * n
  <2> QED BY <2>3
<1>2. CASE i \in 4 + 6 * n..3 + 18 * n
  <2>1. PICK j \in Nat : j = i - (4 + 6 * n) /\ j < 12 * n
    BY <1>2
  <2>2. PICK a, k \in Nat : a = j \div 12 /\ k = j % 12 /\ k < 12 /\ j = 12 * a + k
    BY j \in Nat
  <2>3. a + 1 \in 1..n /\ k + 1 \in 1..12 /\ i = 3 + 6 * n + 12 * (a + 1 - 1) + (k + 1)
    BY ONLY <2>1, <2>2, n \in 1..4, i \in 1..3 + 18 * n
  <2> QED BY <2>3
<1> QED BY <1>1, <1>2

\* The largest of a set.
LEMMA MaxIs ==
  ASSUME NEW S, NEW m \in S, S \subseteq Int, \A x \in S : x <= m
  PROVE  Max(S) = m
<1>1. \A y \in S : (\A x \in S : y >= x) => y = m
  OBVIOUS
<1>2. m \in S /\ \A x \in S : m >= x
  OBVIOUS
<1> QED BY <1>1, <1>2 DEF Max

\* The endpoint of a cable's playback side, and of its recording side.
PlaybackPoint(c) == [interface |-> 2 * c - 1, alt |-> 1, address |-> c,
                     terminal |-> 6 * (c - 1) + 1, bytes |-> 768, microframes |-> 8]
CapturePoint(c) == [interface |-> 2 * c, alt |-> 1, address |-> 128 + c,
                    terminal |-> 6 * (c - 1) + 6, bytes |-> 768, microframes |-> 8]

\* What is found at a place that is neither an endpoint nor an interface.
Plain(p) == p[2] # 4 /\ p[2] # 5

\* The descriptors of the whole configuration that carry numbers of others.
LEMMA Places2 ==
  ASSUME NEW n \in 1..4, NEW b, NEW u, NEW v, NEW q, NEW w, Listing(b, n, u, v, q, w),
         NEW i \in 1..3 + 18 * n
  PROVE  \/ Plain(q[i])
         \/ q[i][2] = 4 /\ q[i][3] \in 0..2 * n /\ q[i][4] \in 0..1
            /\ (q[i][3] = 0 => q[i][4] = 0)
         \/ \E c \in 1..n, k \in {5, 11} : i = 3 + 6 * n + 12 * (c - 1) + k
<1>1. CASE i \in {1, 2, 3}
  <2>1. q[1][2] = 2 /\ q[2][2] = 4 /\ q[2][3] = 0 /\ q[2][4] = 0 /\ q[3][2] = 36
    BY DEF Listing
  <2>2. 0 \in 0..2 * n /\ 0 \in 0..1
    OBVIOUS
  <2> QED BY ONLY <1>1, <2>1, <2>2 DEF Plain
<1>2. ASSUME NEW c \in 1..n, NEW k \in 1..6, i = 3 + 6 * (c - 1) + k
      PROVE  Plain(q[i])
  <2>1. q[i] = u[c][k] /\ IsTopology(u[c], c - 1)
    BY ONLY <1>2, Listing(b, n, u, v, q, w), c \in 1..n, k \in 1..6 DEF Listing
  <2>2. u[c][k][2] = 36
    <3>1. k \in {1, 2, 3, 4, 5, 6}
      OBVIOUS
    <3> QED BY ONLY <2>1, <3>1 DEF IsTopology
  <2> QED BY ONLY <2>1, <2>2 DEF Plain
<1>3. ASSUME NEW c \in 1..n, NEW k \in 1..12, i = 3 + 6 * n + 12 * (c - 1) + k
      PROVE  \/ Plain(q[i])
             \/ q[i][2] = 4 /\ q[i][3] \in 0..2 * n /\ q[i][4] \in 0..1
                /\ (q[i][3] = 0 => q[i][4] = 0)
             \/ k \in {5, 11}
  <2>1. q[i] = v[c][k] /\ IsPair(v[c], c - 1)
    BY ONLY <1>3, Listing(b, n, u, v, q, w), c \in 1..n, k \in 1..12 DEF Listing
  <2>2. CASE k \in {1, 2, 7, 8}
    <3>1. v[c][k][2] = 4 /\ (v[c][k][3] = 1 + 2 * (c - 1) \/ v[c][k][3] = 2 + 2 * (c - 1)) /\ v[c][k][4] \in 0..1
      BY ONLY <2>1, <2>2 DEF IsPair
    <3>2. 1 + 2 * (c - 1) \in 1..2 * n /\ 2 + 2 * (c - 1) \in 1..2 * n
      OBVIOUS
    <3>3. PICK p : p = q[i]
      OBVIOUS
    <3>4. p[2] = 4 /\ p[3] \in 1..2 * n /\ p[4] \in 0..1
      BY ONLY Zenon, <2>1, <3>1, <3>2, <3>3
    <3>5. p[3] \in 0..2 * n /\ p[3] # 0
      BY ONLY <3>4
    <3> QED BY ONLY Zenon, <3>3, <3>4, <3>5
  <2>3. CASE k \in {3, 4, 6, 9, 10, 12}
    <3>1. v[c][k][2] \in {36, 37}
      BY ONLY <2>1, <2>3 DEF IsPair
    <3> QED BY ONLY <2>1, <3>1 DEF Plain
  <2>4. k \in {1, 2, 7, 8} \/ k \in {3, 4, 6, 9, 10, 12} \/ k \in {5, 11}
    OBVIOUS
  <2> QED BY <2>2, <2>3, <2>4
<1> QED BY ZenonT(30), <1>1, <1>2, <1>3, PlaceOf

\* The lines around an endpoint.
Around(q, i, c, k) ==
  /\ i \in 6..Len(q)
  /\ q[i][2] = 5 /\ q[i][5] = 0 /\ q[i][6] = 3 /\ q[i][7] = 4
  /\ q[i - 1][2] = 36 /\ q[i - 1][3] = 2
  /\ q[i - 2][2] = 36 /\ q[i - 2][3] = 1
  /\ q[i - 3][2] = 4 /\ q[i - 3][4] = 1
  /\ IF k = 5 THEN /\ q[i][3] = c /\ q[i - 2][4] = 6 * (c - 1) + 1
                   /\ q[i - 3][3] = 2 * c - 1
              ELSE /\ q[i][3] = 128 + c /\ q[i - 2][4] = 6 * (c - 1) + 6
                   /\ q[i - 3][3] = 2 * c

\* The lines around an endpoint.
LEMMA AroundEndpoint ==
  ASSUME NEW n \in 1..4, NEW b, NEW u, NEW v, NEW q, NEW w, Listing(b, n, u, v, q, w),
         NEW c \in 1..n, NEW k \in {5, 11}, NEW i, i = 3 + 6 * n + 12 * (c - 1) + k
  PROVE  Around(q, i, c, k)
<1>1. \A m \in 1..12 : q[3 + 6 * n + 12 * (c - 1) + m] = v[c][m]
  BY DEF Listing
<1>2. IsPair(v[c], c - 1)
  BY DEF Listing
<1>3. Len(q) = 3 + 18 * n
  BY DEF Listing
<1>4. PICK o \in Nat : o = 3 + 6 * n + 12 * (c - 1)
  OBVIOUS
<1>5. \A m \in 1..12 : q[o + m] = v[c][m]
  BY Zenon, <1>1, <1>4
<1>6. i \in 6..Len(q)
  BY <1>3
<1>7. i = o + k /\ i - 1 = o + (k - 1) /\ i - 2 = o + (k - 2) /\ i - 3 = o + (k - 3)
  BY ONLY <1>4, i = 3 + 6 * n + 12 * (c - 1) + k, k \in {5, 11}, n \in 1..4, c \in 1..n
<1>8. CASE k = 5
  <2>1. /\ q[i] = v[c][5] /\ q[i - 1] = v[c][4] /\ q[i - 2] = v[c][3] /\ q[i - 3] = v[c][2]
    <3>1. i = o + 5 /\ i - 1 = o + 4 /\ i - 2 = o + 3 /\ i - 3 = o + 2
      BY ONLY <1>7, <1>8
    <3> QED BY ONLY <1>5, <3>1
  <2>2. 1 + 2 * (c - 1) = 2 * c - 1 /\ 1 + 6 * (c - 1) = 6 * (c - 1) + 1 /\ 1 + (c - 1) = c
    OBVIOUS
  <2> QED BY ONLY <1>2, <1>6, <1>8, <2>1, <2>2 DEF IsPair, Around
<1>9. CASE k = 11
  <2>1. /\ q[i] = v[c][11] /\ q[i - 1] = v[c][10] /\ q[i - 2] = v[c][9] /\ q[i - 3] = v[c][8]
    <3>1. i = o + 11 /\ i - 1 = o + 10 /\ i - 2 = o + 9 /\ i - 3 = o + 8
      BY ONLY <1>7, <1>9
    <3> QED BY ONLY <1>5, <3>1
  <2>2. 2 + 2 * (c - 1) = 2 * c /\ 6 + 6 * (c - 1) = 6 * (c - 1) + 6 /\ 129 + (c - 1) = 128 + c
    OBVIOUS
  <2>3. k # 5
    BY <1>9
  <2> QED BY ONLY <1>2, <1>6, <2>1, <2>2, <2>3 DEF IsPair, Around
<1> QED BY <1>8, <1>9

\* The last interface, and the last general descriptor, before an endpoint.
LEMMA LastBefore ==
  ASSUME NEW q, NEW i \in 6..Len(q), Len(q) \in Nat, q[i][2] = 5,
         q[i - 1][2] = 36, q[i - 1][3] = 2, q[i - 2][2] = 36, q[i - 2][3] = 1, q[i - 3][2] = 4
  PROVE  /\ Max({j \in 1..i : q[j][2] = 4}) = i - 3
         /\ Max({j \in 1..i : q[j][2] = 36 /\ q[j][3] = 1}) = i - 2
<1> DEFINE S == {j \in 1..i : q[j][2] = 4}
           G == {j \in 1..i : q[j][2] = 36 /\ q[j][3] = 1}
<1>1. \A j \in 1..i : j <= i - 3 \/ j = i - 2 \/ j = i - 1 \/ j = i
  OBVIOUS
<1>2. i - 3 \in 1..i /\ i - 2 \in 1..i
  OBVIOUS
<1>3. i - 3 \in S /\ S \subseteq Int /\ \A x \in S : x <= i - 3
  <2>1. ASSUME NEW x \in S PROVE x <= i - 3
    <3>1. x \in 1..i /\ q[x][2] = 4
      OBVIOUS
    <3>2. x # i /\ x # i - 1 /\ x # i - 2
      BY ONLY <3>1, q[i][2] = 5, q[i - 1][2] = 36, q[i - 2][2] = 36
    <3> QED BY ONLY <1>1, <3>1, <3>2
  <2> QED BY <1>2, <2>1
<1>4. i - 2 \in G /\ G \subseteq Int /\ \A x \in G : x <= i - 2
  <2>1. ASSUME NEW x \in G PROVE x <= i - 2
    <3>1. x \in 1..i /\ q[x][2] = 36 /\ q[x][3] = 1
      OBVIOUS
    <3>2. x # i /\ x # i - 1
      BY ONLY <3>1, q[i][2] = 5, q[i - 1][3] = 2
    <3> QED BY ONLY <3>1, <3>2, i \in 6..Len(q), Len(q) \in Nat
  <2> QED BY <1>2, <2>1
<1> HIDE DEF S, G
<1>5. Max(S) = i - 3 /\ Max(G) = i - 2
  BY <1>3, <1>4, MaxIs
<1> QED BY <1>5 DEF S, G

\* The endpoint at place i of the descriptors q.
EndpointAt(q, i) ==
  [interface |-> q[Max({k \in 1..i : q[k][2] = 4})][3],
   alt |-> q[Max({k \in 1..i : q[k][2] = 4})][4],
   address |-> q[i][3],
   terminal |-> q[Max({k \in 1..i : q[k][2] = 36 /\ q[k][3] = 1})][4],
   bytes |-> q[i][5] + 256 * q[i][6],
   microframes |-> 2 ^ (q[i][7] - 1)]

\* Every endpoint of the configuration is a side of one of the cables.
LEMMA EndpointsAre ==
  ASSUME NEW n \in 1..4, NEW b, NEW u, NEW v, NEW q, NEW w, Listing(b, n, u, v, q, w),
         NEW e \in Endpoints(b)
  PROVE  \E c \in 1..n : e = PlaybackPoint(c) \/ e = CapturePoint(c)
<1>1. Walk(b) = q /\ Len(q) = 3 + 18 * n
  BY DEF Listing, Reads
<1>2. PICK i \in 1..Len(q) : q[i][2] = 5 /\ e = EndpointAt(q, i)
  <2>1. \E i \in {k \in 1..Len(Walk(b)) : Walk(b)[k][2] = 5} : e = EndpointAt(Walk(b), i)
    BY ONLY Zenon, e \in Endpoints(b) DEF Endpoints, EndpointAt
  <2>2. \E i \in {k \in 1..Len(q) : q[k][2] = 5} : e = EndpointAt(q, i)
    BY ONLY Zenon, <1>1, <2>1
  <2> QED BY ONLY Zenon, <2>2
<1>3. PICK c \in 1..n, k \in {5, 11} : i = 3 + 6 * n + 12 * (c - 1) + k
  <2>1. i \in 1..3 + 18 * n
    BY ONLY <1>1, i \in 1..Len(q)
  <2>2. ~Plain(q[i]) /\ q[i][2] # 4
    BY ONLY <1>2 DEF Plain
  <2> QED BY ONLY Zenon, <2>1, <2>2, n \in 1..4, Listing(b, n, u, v, q, w), Places2
<1>11. Around(q, i, c, k)
  BY ONLY <1>3, n \in 1..4, Listing(b, n, u, v, q, w), c \in 1..n, k \in {5, 11},
     AroundEndpoint
<1>4. /\ i \in 6..Len(q)
      /\ q[i][2] = 5 /\ q[i][5] = 0 /\ q[i][6] = 3 /\ q[i][7] = 4
      /\ q[i - 1][2] = 36 /\ q[i - 1][3] = 2
      /\ q[i - 2][2] = 36 /\ q[i - 2][3] = 1
      /\ q[i - 3][2] = 4 /\ q[i - 3][4] = 1
      /\ IF k = 5 THEN /\ q[i][3] = c /\ q[i - 2][4] = 6 * (c - 1) + 1
                       /\ q[i - 3][3] = 2 * c - 1
                  ELSE /\ q[i][3] = 128 + c /\ q[i - 2][4] = 6 * (c - 1) + 6
                       /\ q[i - 3][3] = 2 * c
  BY ONLY <1>11 DEF Around
<1>5. /\ Max({j \in 1..i : q[j][2] = 4}) = i - 3
      /\ Max({j \in 1..i : q[j][2] = 36 /\ q[j][3] = 1}) = i - 2
  <2>1. Len(q) \in Nat
    BY <1>1
  <2> QED BY ONLY ZenonT(30), <1>4, <2>1, LastBefore
<1>6. e = [interface |-> q[i - 3][3], alt |-> q[i - 3][4], address |-> q[i][3],
           terminal |-> q[i - 2][4], bytes |-> q[i][5] + 256 * q[i][6],
           microframes |-> 2 ^ (q[i][7] - 1)]
  BY ONLY Zenon, <1>2, <1>5 DEF EndpointAt
<1>7. q[i][5] + 256 * q[i][6] = 768
  BY ONLY <1>4
<1>8. 2 ^ (q[i][7] - 1) = 8
  <2>1. q[i][7] - 1 = 3 /\ 2 ^ 3 = 8
    BY ONLY <1>4
  <2> QED BY ONLY Zenon, <2>1
<1>9. CASE k = 5
  <2>1. e = PlaybackPoint(c)
    BY ONLY <1>4, <1>6, <1>7, <1>8, <1>9 DEF PlaybackPoint
  <2> QED BY <2>1
<1>10. CASE k # 5
  <2>1. e = CapturePoint(c)
    BY ONLY SMTT(20), <1>4, <1>6, <1>7, <1>8, <1>10 DEF CapturePoint
  <2> QED BY <2>1
<1> QED BY <1>9, <1>10

\* What a host may select: an alternate setting of an interface there is, and no other
\* setting of the control interface than its only one.
LEMMA SettingsAre ==
  ASSUME NEW n \in 1..4, NEW b, NEW u, NEW v, NEW q, NEW w, Listing(b, n, u, v, q, w),
         NEW s \in Settings(b)
  PROVE  s[1] \in 0..2 * n /\ s[2] \in 0..1 /\ (s[1] = 0 => s[2] = 0)
<1>1. Walk(b) = q /\ Len(q) = 3 + 18 * n /\ q \in Seq(Piece)
  BY DEF Listing, Reads
<1>2. PICK y \in ToSet(q) : y[2] = 4 /\ s = <<y[3], y[4]>>
  BY Zenon, <1>1 DEF Settings
<1>3. PICK i \in 1..3 + 18 * n : y = q[i]
  <2>1. DOMAIN q = 1..Len(q)
    BY <1>1
  <2> QED BY Zenon, <1>1, <2>1 DEF ToSet
<1>4. ~Plain(q[i])
  BY ONLY <1>2, <1>3 DEF Plain
<1>5. CASE \E c \in 1..n, k \in {5, 11} : i = 3 + 6 * n + 12 * (c - 1) + k
  <2>1. PICK c \in 1..n, k \in {5, 11} : i = 3 + 6 * n + 12 * (c - 1) + k
    BY <1>5
  <2>2. q[i][2] = 5
    <3>1. Around(q, i, c, k)
      BY ONLY <2>1, n \in 1..4, Listing(b, n, u, v, q, w), c \in 1..n, k \in {5, 11},
         AroundEndpoint
    <3> QED BY ONLY <3>1 DEF Around
  <2> QED BY ONLY <1>2, <1>3, <2>2
<1>7. s[1] = q[i][3] /\ s[2] = q[i][4]
  BY ONLY <1>2, <1>3
<1>6. CASE q[i][2] = 4 /\ q[i][3] \in 0..2 * n /\ q[i][4] \in 0..1
           /\ (q[i][3] = 0 => q[i][4] = 0)
  BY ONLY Zenon, <1>6, <1>7
<1>8. \/ \E c \in 1..n, k \in {5, 11} : i = 3 + 6 * n + 12 * (c - 1) + k
      \/ q[i][2] = 4 /\ q[i][3] \in 0..2 * n /\ q[i][4] \in 0..1
         /\ (q[i][3] = 0 => q[i][4] = 0)
  BY ONLY <1>4, n \in 1..4, Listing(b, n, u, v, q, w), i \in 1..3 + 18 * n, Places2
<1> QED BY Zenon, <1>5, <1>6, <1>8

\* What a descriptor of the control interface says of a terminal or unit.
EntityOf(x) ==
  [kind |-> x[3], id |-> x[4],
   source |-> CASE x[3] = 3 -> x[8] [] x[3] = 6 -> x[5] [] OTHER -> 0,
   name |-> CASE x[3] = 2 -> x[12] [] x[3] = 3 -> x[9] [] OTHER -> 0]

\* The k-th terminal or unit of the cable with l before it.
Shape(x, l, k) ==
  /\ x.id = 6 * l + k
  /\ k \in {1, 4} => x.kind = 2 /\ x.source = 0
  /\ k \in {2, 5} => x.kind = 6 /\ x.source = 6 * l + k - 1
  /\ k \in {3, 6} => x.kind = 3 /\ x.source = 6 * l + k - 1
  /\ k = 3 => x.name = 4 + 2 * l
  /\ k = 4 => x.name = 5 + 2 * l
  /\ k \in {1, 2, 5, 6} => x.name = 0

\* What the k-th descriptor of a topology says of its entity.
LEMMA ShapeOf ==
  ASSUME NEW l \in 0..3, NEW t, IsTopology(t, l), NEW k \in 1..6
  PROVE  t[k][3] # 1 /\ Shape(EntityOf(t[k]), l, k)
<1>1. PICK x, e : x = t[k] /\ e = EntityOf(x)
  OBVIOUS
<1>2. e.kind = x[3] /\ e.id = x[4]
  BY ONLY <1>1 DEF EntityOf
<1>3. x[3] = 2 => e.source = 0 /\ e.name = x[12]
  BY ONLY <1>1 DEF EntityOf
<1>4. x[3] = 3 => e.source = x[8] /\ e.name = x[9]
  BY ONLY <1>1 DEF EntityOf
<1>5. x[3] = 6 => e.source = x[5] /\ e.name = 0
  BY ONLY <1>1 DEF EntityOf
<1>6. CASE k \in {1, 4}
  <2>1. x[3] = 2 /\ x[4] = k + 6 * l /\ x[12] = IF k = 1 THEN 0 ELSE 5 + 2 * l
    BY ONLY <1>1, <1>6, IsTopology(t, l), l \in 0..3 DEF IsTopology
  <2>2. Shape(e, l, k)
    BY ONLY <1>2, <1>3, <1>6, <2>1, l \in 0..3 DEF Shape
  <2> QED BY ONLY <1>1, <2>1, <2>2
<1>7. CASE k \in {2, 5}
  <2>1. x[3] = 6 /\ x[4] = k + 6 * l /\ x[5] = k - 1 + 6 * l
    BY ONLY <1>1, <1>7, IsTopology(t, l), l \in 0..3 DEF IsTopology
  <2>2. Shape(e, l, k)
    BY ONLY <1>2, <1>5, <1>7, <2>1, l \in 0..3 DEF Shape
  <2> QED BY ONLY <1>1, <2>1, <2>2
<1>8. CASE k \in {3, 6}
  <2>1. x[3] = 3 /\ x[4] = k + 6 * l /\ x[8] = k - 1 + 6 * l /\ x[9] = IF k = 3 THEN 4 + 2 * l ELSE 0
    BY ONLY <1>1, <1>8, IsTopology(t, l), l \in 0..3 DEF IsTopology
  <2>2. Shape(e, l, k)
    BY ONLY <1>2, <1>4, <1>8, <2>1, l \in 0..3 DEF Shape
  <2> QED BY ONLY <1>1, <2>1, <2>2
<1>9. k \in {1, 4} \/ k \in {2, 5} \/ k \in {3, 6}
  OBVIOUS
<1> QED BY <1>6, <1>7, <1>8, <1>9

\* The terminals and units a host finds are those of the cables, and it finds them all.
LEMMA EntitiesAre ==
  ASSUME NEW n \in 1..4, NEW b, NEW u, NEW v, NEW q, NEW w, Listing(b, n, u, v, q, w)
  PROVE  /\ \A x \in Entities(b) : \E l \in 0..n - 1, k \in 1..6 : Shape(x, l, k)
         /\ \A l \in 0..n - 1, k \in 1..6 : \E x \in Entities(b) : Shape(x, l, k)
<1>1. Walk(SubSeq(b, 19, 18 + (b[24] + 256 * b[25]))) = w /\ w \in Seq(Piece)
  BY ONLY Zenon, Listing(b, n, u, v, q, w) DEF Listing, Reads
<1>2. Entities(b) = {EntityOf(x) : x \in {y \in ToSet(w) : y[3] # 1}}
  <2>1. 19 + 5 = 24 /\ 19 + 6 = 25
    OBVIOUS
  <2>2. Entities(b) = {EntityOf(x) : x \in
                         {y \in ToSet(Walk(SubSeq(b, 19, 18 + (b[19 + 5] + 256 * b[19 + 6])))) :
                            y[3] # 1}}
    BY ONLY Zenon DEF Entities, EntityOf
  <2> QED BY ONLY Zenon, <1>1, <2>1, <2>2
<1>3. /\ Len(w) = 1 + 6 * n /\ w[1][3] = 1
      /\ \A c \in 1..n, k \in 1..6 : w[1 + 6 * (c - 1) + k] = u[c][k]
      /\ \A c \in 1..n : IsTopology(u[c], c - 1)
  BY ONLY Listing(b, n, u, v, q, w) DEF Listing
<1>4. DOMAIN w = 1..1 + 6 * n
  BY ONLY <1>1, <1>3
<1>5. ASSUME NEW l \in 0..n - 1, NEW k \in 1..6
      PROVE  /\ 1 + 6 * l + k \in 1..1 + 6 * n
             /\ w[1 + 6 * l + k][3] # 1 /\ Shape(EntityOf(w[1 + 6 * l + k]), l, k)
  <2>1. PICK c \in 1..n : c = l + 1 /\ c - 1 = l /\ l \in 0..3
    BY ONLY n \in 1..4, l \in 0..n - 1
  <2>2. w[1 + 6 * l + k] = u[c][k] /\ IsTopology(u[c], l)
    BY ONLY Zenon, <1>3, <2>1, k \in 1..6
  <2>3. u[c][k][3] # 1 /\ Shape(EntityOf(u[c][k]), l, k)
    BY ONLY Zenon, <2>1, <2>2, k \in 1..6, ShapeOf
  <2>4. 1 + 6 * l + k \in 1..1 + 6 * n
    BY ONLY n \in 1..4, l \in 0..n - 1, k \in 1..6
  <2> QED BY ONLY Zenon, <2>2, <2>3, <2>4
<1>6. ASSUME NEW x \in Entities(b) PROVE \E l \in 0..n - 1, k \in 1..6 : Shape(x, l, k)
  <2>1. PICK i \in 1..1 + 6 * n : w[i][3] # 1 /\ x = EntityOf(w[i])
    BY ONLY Zenon, <1>2, <1>4, x \in Entities(b) DEF ToSet
  <2>2. i # 1
    BY ONLY <1>3, <2>1
  <2>3. PICK j \in Nat : j = i - 2 /\ j < 6 * n
    BY ONLY <2>2, i \in 1..1 + 6 * n, n \in 1..4
  <2>4. PICK l, k \in Nat : l = j \div 6 /\ k = j % 6 /\ k < 6 /\ j = 6 * l + k
    BY ONLY j \in Nat
  <2>5. l \in 0..n - 1 /\ k + 1 \in 1..6 /\ i = 1 + 6 * l + (k + 1)
    BY ONLY <2>3, <2>4, n \in 1..4, i \in 1..1 + 6 * n, l \in Nat, k \in Nat
  <2>6. Shape(x, l, k + 1)
    BY ONLY Zenon, <1>5, <2>1, <2>5
  <2> QED BY ONLY Zenon, <2>5, <2>6
<1>7. ASSUME NEW l \in 0..n - 1, NEW k \in 1..6 PROVE \E x \in Entities(b) : Shape(x, l, k)
  <2>1. PICK i : i = 1 + 6 * l + k
    OBVIOUS
  <2>2. i \in DOMAIN w /\ w[i][3] # 1 /\ Shape(EntityOf(w[i]), l, k)
    BY ONLY Zenon, <1>4, <1>5, <2>1, l \in 0..n - 1, k \in 1..6
  <2>3. EntityOf(w[i]) \in Entities(b)
    BY ONLY Zenon, <1>2, <2>2 DEF ToSet
  <2> QED BY ONLY Zenon, <2>2, <2>3
<1> QED BY Zenon, <1>6, <1>7

\* S and what a unit or terminal of S is connected with.
Linked(b, S) == S \cup UNION {{e.source, e.id} : e \in
                  {x \in Entities(b) : x.source # 0 /\ {x.source, x.id} \cap S # {}}}

\* What one step along the entities reaches.
LEMMA LinkedElement ==
  ASSUME NEW b, NEW S, NEW z
  PROVE  z \in Linked(b, S) <=>
           \/ z \in S
           \/ \E x \in Entities(b) : /\ x.source # 0 /\ (z = x.source \/ z = x.id)
                                     /\ x.source \in S \/ x.id \in S
<1>1. z \in Linked(b, S) <=>
        \/ z \in S
        \/ \E y : /\ z \in y
                  /\ \E x \in Entities(b) : /\ x.source # 0 /\ {x.source, x.id} \cap S # {}
                                            /\ y = {x.source, x.id}
  BY DEF Linked
<1>2. \A x : {x.source, x.id} \cap S # {} <=> x.source \in S \/ x.id \in S
  OBVIOUS
<1>3. \A x : z \in {x.source, x.id} <=> z = x.source \/ z = x.id
  OBVIOUS
<1> QED BY ONLY Zenon, <1>1, <1>2, <1>3

\* The steps from the terminals of a cable.
LinkedSteps(b, l) ==
  /\ Linked(b, {6 * l + 1}) = {6 * l + 1, 6 * l + 2}
  /\ Linked(b, {6 * l + 1, 6 * l + 2}) = {6 * l + 1, 6 * l + 2, 6 * l + 3}
  /\ Linked(b, {6 * l + 6}) = {6 * l + 5, 6 * l + 6}
  /\ Linked(b, {6 * l + 5, 6 * l + 6}) = {6 * l + 4, 6 * l + 5, 6 * l + 6}

\* The steps from the terminals of a cable stay within the cable.
LEMMA LinkedAre ==
  ASSUME NEW n \in 1..4, NEW b, NEW u, NEW v, NEW q, NEW w, Listing(b, n, u, v, q, w),
         NEW l \in 0..n - 1
  PROVE  LinkedSteps(b, l)
<1>1. PICK p1, p2, p3, p4, p5, p6 \in Nat :
        /\ p1 = 6 * l + 1 /\ p2 = 6 * l + 2 /\ p3 = 6 * l + 3
        /\ p4 = 6 * l + 4 /\ p5 = 6 * l + 5 /\ p6 = 6 * l + 6
        /\ p2 = p1 + 1 /\ p3 = p2 + 1 /\ p4 = p3 + 1 /\ p5 = p4 + 1 /\ p6 = p5 + 1
        /\ p1 > 0
  OBVIOUS
<1>2. ASSUME NEW x \in Entities(b), x.source # 0
      PROVE  /\ x.id \in Nat /\ x.source \in Nat /\ x.id = x.source + 1
             /\ x.source # p6 /\ x.source # p3 /\ x.id # p1 /\ x.id # p4
  <2>1. PICK m \in 0..n - 1, k \in 1..6 : Shape(x, m, k)
    BY ONLY Zenon, n \in 1..4, Listing(b, n, u, v, q, w), x \in Entities(b), EntitiesAre
  <2>2. k \in {2, 3, 5, 6} /\ x.id = 6 * m + k /\ x.source = 6 * m + k - 1
    BY ONLY <1>2, <2>1 DEF Shape
  <2> QED BY ONLY <1>1, <2>2, m \in 0..n - 1, l \in 0..n - 1, n \in 1..4
<1>3. ASSUME NEW k \in {2, 3, 5, 6}
      PROVE  \E x \in Entities(b) : x.source = 6 * l + k - 1 /\ x.id = 6 * l + k
  <2>1. k \in 1..6
    OBVIOUS
  <2>2. PICK x \in Entities(b) : Shape(x, l, k)
    BY ONLY Zenon, n \in 1..4, Listing(b, n, u, v, q, w), <2>1, l \in 0..n - 1, EntitiesAre
  <2> QED BY ONLY <2>2, k \in {2, 3, 5, 6} DEF Shape
<1>4. /\ \E x \in Entities(b) : x.source = p1 /\ x.id = p2
      /\ \E x \in Entities(b) : x.source = p2 /\ x.id = p3
      /\ \E x \in Entities(b) : x.source = p4 /\ x.id = p5
      /\ \E x \in Entities(b) : x.source = p5 /\ x.id = p6
  <2>1. 6 * l + 2 - 1 = p1 /\ 6 * l + 3 - 1 = p2 /\ 6 * l + 5 - 1 = p4 /\ 6 * l + 6 - 1 = p5
    BY ONLY <1>1, l \in 0..n - 1, n \in 1..4
  <2>2. 2 \in {2, 3, 5, 6} /\ 3 \in {2, 3, 5, 6} /\ 5 \in {2, 3, 5, 6} /\ 6 \in {2, 3, 5, 6}
    OBVIOUS
  <2>3. \E x \in Entities(b) : x.source = p1 /\ x.id = p2
    BY ONLY Zenon, <1>1, <1>3, <2>1, <2>2
  <2>4. \E x \in Entities(b) : x.source = p2 /\ x.id = p3
    BY ONLY Zenon, <1>1, <1>3, <2>1, <2>2
  <2>5. \E x \in Entities(b) : x.source = p4 /\ x.id = p5
    BY ONLY Zenon, <1>1, <1>3, <2>1, <2>2
  <2>6. \E x \in Entities(b) : x.source = p5 /\ x.id = p6
    BY ONLY Zenon, <1>1, <1>3, <2>1, <2>2
  <2> QED BY <2>3, <2>4, <2>5, <2>6
<1>5. Linked(b, {p1}) = {p1, p2}
  <2>1. ASSUME NEW z PROVE z \in Linked(b, {p1}) <=> z \in {p1, p2}
    BY ONLY <1>1, <1>2, <1>4, LinkedElement
  <2> QED BY <2>1
<1>6. Linked(b, {p1, p2}) = {p1, p2, p3}
  <2>1. ASSUME NEW z PROVE z \in Linked(b, {p1, p2}) <=> z \in {p1, p2, p3}
    BY ONLY <1>1, <1>2, <1>4, LinkedElement
  <2> QED BY <2>1
<1>7. Linked(b, {p6}) = {p5, p6}
  <2>1. ASSUME NEW z PROVE z \in Linked(b, {p6}) <=> z \in {p5, p6}
    BY ONLY <1>1, <1>2, <1>4, LinkedElement
  <2> QED BY <2>1
<1>8. Linked(b, {p5, p6}) = {p4, p5, p6}
  <2>1. ASSUME NEW z PROVE z \in Linked(b, {p5, p6}) <=> z \in {p4, p5, p6}
    BY ONLY <1>1, <1>2, <1>4, LinkedElement
  <2> QED BY <2>1
<1> QED BY ONLY Zenon, <1>1, <1>5, <1>6, <1>7, <1>8 DEF LinkedSteps

\* The names on the way of a cable's playback, and on that of its recordings.
LEMMA NamesAre ==
  ASSUME NEW n \in 1..4, NEW b, NEW u, NEW v, NEW q, NEW w, Listing(b, n, u, v, q, w),
         NEW l \in 0..n - 1
  PROVE  /\ NamesOnTheWay(b, 6 * l + 1) = {4 + 2 * l}
         /\ NamesOnTheWay(b, 6 * l + 6) = {5 + 2 * l}
<1>1. ASSUME NEW t
      PROVE  NamesOnTheWay(b, t) = {e.name : e \in {x \in Entities(b) :
                                      x.id \in Linked(b, Linked(b, {t})) /\ x.name # 0}}
  BY ONLY Zenon DEF NamesOnTheWay, Linked
<1>2. /\ Linked(b, Linked(b, {6 * l + 1})) = {6 * l + 1, 6 * l + 2, 6 * l + 3}
      /\ Linked(b, Linked(b, {6 * l + 6})) = {6 * l + 4, 6 * l + 5, 6 * l + 6}
  <2>1. LinkedSteps(b, l)
    BY ONLY Zenon, n \in 1..4, Listing(b, n, u, v, q, w), l \in 0..n - 1, LinkedAre
  <2> QED BY ONLY Zenon, <2>1 DEF LinkedSteps
<1>3. ASSUME NEW x \in Entities(b), x.name # 0
      PROVE  /\ x.id \in {6 * l + 1, 6 * l + 2, 6 * l + 3} => x.name = 4 + 2 * l
             /\ x.id \in {6 * l + 4, 6 * l + 5, 6 * l + 6} => x.name = 5 + 2 * l
  <2>1. PICK m \in 0..n - 1, k \in 1..6 : Shape(x, m, k)
    BY ONLY Zenon, n \in 1..4, Listing(b, n, u, v, q, w), x \in Entities(b), EntitiesAre
  <2>2. k = 3 \/ k = 4
    BY ONLY <1>3, <2>1 DEF Shape
  <2>3. CASE k = 3
    <3>1. x.id = 6 * m + 3 /\ x.name = 4 + 2 * m
      BY ONLY <2>1, <2>3 DEF Shape
    <3> QED BY ONLY <3>1, m \in 0..n - 1, l \in 0..n - 1, n \in 1..4
  <2>4. CASE k = 4
    <3>1. x.id = 6 * m + 4 /\ x.name = 5 + 2 * m
      BY ONLY <2>1, <2>4 DEF Shape
    <3> QED BY ONLY <3>1, m \in 0..n - 1, l \in 0..n - 1, n \in 1..4
  <2> QED BY <2>2, <2>3, <2>4
<1>4. /\ \E x \in Entities(b) : x.id = 6 * l + 3 /\ x.name = 4 + 2 * l /\ x.name # 0
      /\ \E x \in Entities(b) : x.id = 6 * l + 4 /\ x.name = 5 + 2 * l /\ x.name # 0
  <2>1. 3 \in 1..6 /\ 4 \in 1..6 /\ 4 + 2 * l # 0 /\ 5 + 2 * l # 0
    OBVIOUS
  <2>2. PICK x \in Entities(b) : Shape(x, l, 3)
    BY ONLY Zenon, n \in 1..4, Listing(b, n, u, v, q, w), <2>1, l \in 0..n - 1, EntitiesAre
  <2>3. PICK y \in Entities(b) : Shape(y, l, 4)
    BY ONLY Zenon, n \in 1..4, Listing(b, n, u, v, q, w), <2>1, l \in 0..n - 1, EntitiesAre
  <2> QED BY ONLY <2>1, <2>2, <2>3 DEF Shape
<1>5. NamesOnTheWay(b, 6 * l + 1) = {4 + 2 * l}
  <2>1. NamesOnTheWay(b, 6 * l + 1)
          = {e.name : e \in {x \in Entities(b) :
               x.id \in {6 * l + 1, 6 * l + 2, 6 * l + 3} /\ x.name # 0}}
    BY ONLY Zenon, <1>1, <1>2
  <2> QED BY ONLY <1>3, <1>4, <2>1
<1>6. NamesOnTheWay(b, 6 * l + 6) = {5 + 2 * l}
  <2>1. NamesOnTheWay(b, 6 * l + 6)
          = {e.name : e \in {x \in Entities(b) :
               x.id \in {6 * l + 4, 6 * l + 5, 6 * l + 6} /\ x.name # 0}}
    BY ONLY Zenon, <1>1, <1>2
  <2> QED BY ONLY <1>3, <1>4, <2>1
<1> QED BY <1>5, <1>6

\* Every feature unit listed is one the device takes requests for.
LEMMA FeatureUnitsAre ==
  ASSUME NEW n \in 1..4, NEW b, NEW u, NEW v, NEW q, NEW w, Listing(b, n, u, v, q, w),
         NEW e \in FeatureUnits(b)
  PROVE  e \in Nat /\ e < 256 /\ FeatureEntity(e)
<1>1. PICK x \in Entities(b) : x.kind = 6 /\ x.id = e
  BY ONLY Zenon, e \in FeatureUnits(b) DEF FeatureUnits
<1>2. PICK l \in 0..n - 1, k \in 1..6 : Shape(x, l, k)
  BY ONLY Zenon, n \in 1..4, Listing(b, n, u, v, q, w), x \in Entities(b), EntitiesAre
<1>3. k \in {2, 5} /\ e = 6 * l + k
  BY ONLY <1>1, <1>2 DEF Shape
<1>4. e \in Nat /\ e >= 2 /\ e < 256 /\ e - 1 = 6 * l + (k - 1) /\ k - 1 \in {1, 4}
  BY ONLY <1>3, n \in 1..4, l \in 0..n - 1
<1>5. (e - 1) % 6 = k - 1
  BY ONLY <1>4, l \in 0..n - 1, n \in 1..4
<1> QED BY ONLY <1>4, <1>5 DEF FeatureEntity

\* A string descriptor holds its name.
LEMMA StringNames ==
  ASSUME NEW name, NEW c \in {33, 34}
  PROVE  StringDescriptor(name, c)[3] = name
<1> DEFINE S == Nat \cup {name}
<1>1. PICK a : a = <<2 + 2 * c, 3>>
  OBVIOUS
<1>2. PICK m \in Nat : m = 2 * c /\ m >= 1
  OBVIOUS
<1>3. PICK z : z = [i \in 1..m |-> name]
  OBVIOUS
<1>4. a \in Seq(S) /\ Len(a) = 2
  BY ONLY <1>1, c \in {33, 34}
<1>5. z \in Seq(S) /\ Len(z) = m /\ z[1] = name
  <2>1. z \in [1..m -> S] /\ z[1] = name
    BY ONLY <1>2, <1>3
  <2>2. \A g \in [1..m -> S] : g \in Seq(S) /\ Len(g) = m
    BY ONLY m \in Nat
  <2> QED BY ONLY Zenon, <2>1, <2>2
<1> HIDE DEF S
<1>6. PICK s : s = a \o z
  OBVIOUS
<1>7. /\ Len(s) = Len(a) + Len(z)
      /\ \A i \in 1..Len(a) + Len(z) : s[i] = IF i <= Len(a) THEN a[i] ELSE z[i - Len(a)]
  BY ONLY <1>4, <1>5, <1>6, ConcatProperties
<1>8. s[3] = name
  <2>1. 3 \in 1..Len(a) + Len(z) /\ ~(3 <= Len(a)) /\ 3 - Len(a) = 1
    BY ONLY <1>2, <1>4, <1>5
  <2>2. s[3] = z[3 - Len(a)]
    BY ONLY <1>7, <2>1
  <2> QED BY ONLY Zenon, <1>5, <2>1, <2>2
<1>9. StringDescriptor(name, c) = s
  <2>1. (IF c > 126 THEN 126 ELSE c) = c
    OBVIOUS
  <2> QED BY ONLY Zenon, <1>1, <1>2, <1>3, <1>6, <2>1 DEF StringDescriptor
<1> QED BY ONLY Zenon, <1>8, <1>9

\* What the device keeps under the numbers a host asks for.
LEMMA AnnouncedAre ==
  /\ Announced[<<2, 0>>] = Configuration(NumCables)
  /\ DOMAIN Announced = {<<1, 0>>, <<2, 0>>, <<6, 0>>} \cup {<<3, i>> : i \in 0..3 + 2 * NumCables}
  /\ \A i \in 0..3 + 2 * NumCables : Announced[<<3, i>>] = String(DeviceNumber, i)
<1>1. DOMAIN Announced = {<<1, 0>>, <<2, 0>>, <<6, 0>>} \cup {<<3, i>> : i \in 0..3 + 2 * NumCables}
  BY ONLY Zenon DEF Announced, DescriptorsOf
<1>2. \A k \in DOMAIN Announced :
        Announced[k] = CASE k[1] = 1 -> DeviceDescriptor(DeviceNumber)
                         [] k[1] = 2 -> Configuration(NumCables)
                         [] k[1] = 6 -> DeviceQualifier
                         [] OTHER -> String(DeviceNumber, k[2])
  BY ONLY Zenon, <1>1 DEF Announced, DescriptorsOf
<1>3. <<2, 0>> \in DOMAIN Announced
  BY ONLY Zenon, <1>1
<1>4. Announced[<<2, 0>>] = Configuration(NumCables)
  <2>1. <<2, 0>>[1] = 2
    OBVIOUS
  <2> QED BY ONLY <1>2, <1>3, <2>1
<1>5. ASSUME NEW i \in 0..3 + 2 * NumCables
      PROVE  Announced[<<3, i>>] = String(DeviceNumber, i)
  <2>1. <<3, i>> \in DOMAIN Announced
    BY ONLY Zenon, <1>1, i \in 0..3 + 2 * NumCables
  <2>2. <<3, i>>[1] = 3 /\ <<3, i>>[2] = i
    OBVIOUS
  <2> QED BY ONLY <1>2, <2>1, <2>2
<1> QED BY <1>1, <1>4, <1>5

\* The strings that name the two sides of a cable.
LEMMA CableStrings ==
  ASSUME NEW c \in Cables
  PROVE  /\ Announced[<<3, 4 + 2 * (c - 1)>>][3]
              = <<"playback", CableNumber(DeviceNumber, c)>>
         /\ Announced[<<3, 5 + 2 * (c - 1)>>][3]
              = <<"recording", CableNumber(DeviceNumber, c)>>
<1>1. NumCables \in 1..4 /\ c \in 1..NumCables
  BY Layout DEF Cables
<1>2. PICK i, j \in Nat : i = 4 + 2 * (c - 1) /\ j = 5 + 2 * (c - 1)
  BY <1>1
<1>3. i \in 0..3 + 2 * NumCables /\ j \in 0..3 + 2 * NumCables
  BY ONLY <1>1, <1>2
<1>4. Announced[<<3, i>>] = String(DeviceNumber, i) /\ Announced[<<3, j>>] = String(DeviceNumber, j)
  BY ONLY Zenon, <1>3, AnnouncedAre
<1>5. i # 0 /\ i # 1 /\ i # 2 /\ i # 3 /\ i > 3 /\ i % 2 = 0 /\ (i - 4) \div 2 = c - 1
  BY ONLY <1>1, <1>2
<1>6. j # 0 /\ j # 1 /\ j # 2 /\ j # 3 /\ j % 2 # 0 /\ (j - 4) \div 2 = c - 1
  BY ONLY <1>1, <1>2
<1>7. DeviceNumber \in Nat
  BY DeviceAssumption DEF Describable, MaxDevices
<1>8. FirstCable(DeviceNumber) + (c - 1) = CableNumber(DeviceNumber, c)
  BY ONLY <1>1, <1>7 DEF FirstCable, CableNumber, MaxCablesPerUSBDevice
<1>9. String(DeviceNumber, i)
        = StringDescriptor(<<"playback", FirstCable(DeviceNumber) + (i - 4) \div 2>>, 33)
  BY ONLY <1>5 DEF String
<1>10. String(DeviceNumber, j)
         = StringDescriptor(<<"recording", FirstCable(DeviceNumber) + (j - 4) \div 2>>, 34)
  BY ONLY <1>6 DEF String
<1>11. 33 \in {33, 34} /\ 34 \in {33, 34}
  OBVIOUS
<1>12. String(DeviceNumber, i)[3] = <<"playback", CableNumber(DeviceNumber, c)>>
  BY ONLY ZenonT(30), <1>5, <1>8, <1>9, <1>11, StringNames
<1>13. String(DeviceNumber, j)[3] = <<"recording", CableNumber(DeviceNumber, c)>>
  BY ONLY Zenon, <1>6, <1>8, <1>10, <1>11, StringNames
<1> QED BY ONLY Zenon, <1>2, <1>4, <1>12, <1>13

\* The configuration descriptor of this device.
B == Announced[<<2, 0>>]

\* What the device announces is a configuration of its cables.
LEMMA AnnouncedListing == NumCables \in 1..4 /\ \E u, v, q, w : Listing(B, NumCables, u, v, q, w)
<1>1. NumCables \in 1..4
  BY Layout
<1>2. IsConfiguration(B, NumCables)
  BY ONLY Zenon, <1>1, AnnouncedAre, ConfigurationIs DEF B
<1> QED BY ONLY Zenon, <1>1, <1>2 DEF IsConfiguration

\* The endpoints the host finds are those of the cables, and the names on the way to each.
LEMMA PointsAre ==
  /\ \A e \in Endpoints(B) : \E c \in Cables : e = PlaybackPoint(c) \/ e = CapturePoint(c)
  /\ \A c \in Cables : /\ NamesOnTheWay(B, 6 * (c - 1) + 1) = {4 + 2 * (c - 1)}
                       /\ NamesOnTheWay(B, 6 * (c - 1) + 6) = {5 + 2 * (c - 1)}
<1>1. PICK n \in 1..4 : n = NumCables
  BY AnnouncedListing
<1>2. PICK u, v, q, w : Listing(B, n, u, v, q, w)
  BY ONLY Zenon, <1>1, AnnouncedListing
<1>3. ASSUME NEW e \in Endpoints(B)
      PROVE  \E c \in Cables : e = PlaybackPoint(c) \/ e = CapturePoint(c)
  <2>1. \E c \in 1..n : e = PlaybackPoint(c) \/ e = CapturePoint(c)
    BY ONLY Zenon, <1>2, n \in 1..4, e \in Endpoints(B), EndpointsAre
  <2> QED BY ONLY Zenon, <1>1, <2>1 DEF Cables
<1>4. ASSUME NEW c \in Cables
      PROVE  /\ NamesOnTheWay(B, 6 * (c - 1) + 1) = {4 + 2 * (c - 1)}
             /\ NamesOnTheWay(B, 6 * (c - 1) + 6) = {5 + 2 * (c - 1)}
  <2>1. c - 1 \in 0..n - 1
    BY ONLY <1>1, n \in 1..4, c \in Cables DEF Cables
  <2> QED BY ONLY <1>2, <2>1, n \in 1..4, NamesAre
<1> QED BY <1>3, <1>4

\* An endpoint the host lists, by its name and its address.
LEMMA ListedElement ==
  ASSUME NEW y
  PROVE  y \in Listed <=>
           \E e \in Endpoints(B), i \in UNION {NamesOnTheWay(B, d.terminal) : d \in Endpoints(B)} :
             /\ i \in NamesOnTheWay(B, e.terminal)
             /\ y = [name |-> Announced[<<3, i>>][3], address |-> e.address]
<1>1. Listed = UNION {{[name |-> Announced[<<3, i>>][3], address |-> e.address] :
                         i \in NamesOnTheWay(B, e.terminal)} : e \in Endpoints(B)}
  BY ONLY Zenon DEF Listed, Shown, Announced, B
<1>2. y \in Listed <=>
        \E s : /\ y \in s
              /\ \E e \in Endpoints(B) :
                   s = {[name |-> Announced[<<3, i>>][3], address |-> e.address] :
                          i \in NamesOnTheWay(B, e.terminal)}
  BY ONLY Zenon, <1>1
<1>3. \A e \in Endpoints(B) : \A i \in NamesOnTheWay(B, e.terminal) :
        i \in UNION {NamesOnTheWay(B, d.terminal) : d \in Endpoints(B)}
  OBVIOUS
<1>4. y \in Listed <=>
        \E e \in Endpoints(B) :
          y \in {[name |-> Announced[<<3, i>>][3], address |-> e.address] :
                  i \in NamesOnTheWay(B, e.terminal)}
  BY ONLY Zenon, <1>2
<1> QED BY ONLY Zenon, <1>3, <1>4

\* The address and the terminal of an endpoint give its cable.
LEMMA PointFields ==
  ASSUME NEW c \in Cables
  PROVE  /\ PlaybackPoint(c).address = c /\ PlaybackPoint(c).terminal = 6 * (c - 1) + 1
         /\ CapturePoint(c).address = 128 + c /\ CapturePoint(c).terminal = 6 * (c - 1) + 6
         /\ c \in 1..4 /\ c < 128 /\ 128 + c >= 128 /\ c % 128 = c /\ (128 + c) % 128 = c
<1>1. c \in 1..4
  BY Layout DEF Cables
<1>2. c \in {1, 2, 3, 4}
  BY <1>1
<1>3. c < 128 /\ 128 + c >= 128 /\ c % 128 = c /\ (128 + c) % 128 = c
  BY ONLY <1>2
<1> QED BY <1>1, <1>3 DEF PlaybackPoint, CapturePoint

\* An endpoint is listed under the one name of its side of its cable.
LEMMA ListedNames ==
  ASSUME NEW e \in Endpoints(B), NEW c \in Cables
  PROVE  /\ e = PlaybackPoint(c)
              => {x.name : x \in {y \in Listed : y.address = e.address}}
                   = {<<"playback", CableNumber(DeviceNumber, c)>>}
         /\ e = CapturePoint(c)
              => {x.name : x \in {y \in Listed : y.address = e.address}}
                   = {<<"recording", CableNumber(DeviceNumber, c)>>}
<1> DEFINE Names == {x.name : x \in {y \in Listed : y.address = e.address}}
<1>1. ASSUME NEW i, NamesOnTheWay(B, e.terminal) = {i}, NEW m, Announced[<<3, i>>][3] = m,
             \A d \in Endpoints(B) : d.address = e.address => d = e
      PROVE  Names = {m}
  <2>1. ASSUME NEW y \in Listed, y.address = e.address PROVE y.name = m
    <3>1. PICK d, j : /\ d \in Endpoints(B) /\ j \in NamesOnTheWay(B, d.terminal)
                      /\ y = [name |-> Announced[<<3, j>>][3], address |-> d.address]
      BY ONLY Zenon, y \in Listed, ListedElement
    <3>2. y.address = d.address /\ y.name = Announced[<<3, j>>][3]
      BY ONLY <3>1
    <3>3. d = e
      BY ONLY Zenon, <1>1, <2>1, <3>1, <3>2
    <3>4. j = i
      BY ONLY Zenon, <1>1, <3>1, <3>3
    <3> QED BY ONLY Zenon, <1>1, <3>2, <3>4
  <2>2. PICK y : y = [name |-> Announced[<<3, i>>][3], address |-> e.address]
    OBVIOUS
  <2>3. y.name = m /\ y.address = e.address
    BY ONLY <1>1, <2>2
  <2>4. i \in NamesOnTheWay(B, e.terminal)
    BY ONLY Zenon, <1>1
  <2>5. y \in Listed
    BY ONLY Zenon, <2>2, <2>4, e \in Endpoints(B), ListedElement
  <2> QED BY ONLY <2>1, <2>3, <2>5
<1>2. ASSUME NEW d \in Endpoints(B), d.address = e.address,
             e = PlaybackPoint(c) \/ e = CapturePoint(c)
      PROVE  d = e
  <2>1. PICK k \in Cables : d = PlaybackPoint(k) \/ d = CapturePoint(k)
    BY ONLY Zenon, d \in Endpoints(B), PointsAre
  <2>2. /\ PlaybackPoint(c).address = c /\ CapturePoint(c).address = 128 + c /\ c \in 1..4
        /\ PlaybackPoint(k).address = k /\ CapturePoint(k).address = 128 + k /\ k \in 1..4
    BY ONLY ZenonT(30), c \in Cables, k \in Cables, PointFields
  <2>3. /\ d = PlaybackPoint(k) /\ e = PlaybackPoint(c) => k = c
        /\ d = CapturePoint(k) /\ e = CapturePoint(c) => k = c
        /\ ~(d = PlaybackPoint(k) /\ e = CapturePoint(c))
        /\ ~(d = CapturePoint(k) /\ e = PlaybackPoint(c))
    BY ONLY <1>2, <2>2
  <2> QED BY ONLY Zenon, <1>2, <2>1, <2>3
<1>3. CASE e = PlaybackPoint(c)
  <2>1. e.terminal = 6 * (c - 1) + 1
    BY ONLY Zenon, <1>3, c \in Cables, PointFields
  <2>2. NamesOnTheWay(B, e.terminal) = {4 + 2 * (c - 1)}
    BY ONLY Zenon, <2>1, c \in Cables, PointsAre
  <2>3. Announced[<<3, 4 + 2 * (c - 1)>>][3] = <<"playback", CableNumber(DeviceNumber, c)>>
    BY ONLY Zenon, c \in Cables, CableStrings
  <2>4. Names = {<<"playback", CableNumber(DeviceNumber, c)>>}
    BY ONLY Zenon, <1>1, <1>2, <1>3, <2>2, <2>3
  <2>5. e # CapturePoint(c)
    <3>1. e.address # CapturePoint(c).address
      BY ONLY <1>3, c \in Cables, PointFields
    <3> QED BY ONLY Zenon, <3>1
  <2> QED BY ONLY Zenon, <2>4, <2>5
<1>4. CASE e = CapturePoint(c)
  <2>1. e.terminal = 6 * (c - 1) + 6
    BY ONLY Zenon, <1>4, c \in Cables, PointFields
  <2>2. NamesOnTheWay(B, e.terminal) = {5 + 2 * (c - 1)}
    BY ONLY Zenon, <2>1, c \in Cables, PointsAre
  <2>3. Announced[<<3, 5 + 2 * (c - 1)>>][3] = <<"recording", CableNumber(DeviceNumber, c)>>
    BY ONLY Zenon, c \in Cables, CableStrings
  <2>4. Names = {<<"recording", CableNumber(DeviceNumber, c)>>}
    BY ONLY Zenon, <1>1, <1>2, <1>4, <2>2, <2>3
  <2>5. e # PlaybackPoint(c)
    <3>1. e.address # PlaybackPoint(c).address
      BY ONLY <1>4, c \in Cables, PointFields
    <3> QED BY ONLY Zenon, <3>1
  <2> QED BY ONLY Zenon, <2>4, <2>5
<1> QED BY <1>3, <1>4

-----------------------------------------------------------------------------
(* The requests that the descriptors call for. *)

\* A reply with data and an empty one are no stall.
LEMMA DataStatus ==
  /\ Done.status = 0 /\ \A s, d : Data(s, d).status = 0
BY DEF Done, Data

\* A request for something the device keeps is answered.
LEMMA KeptIsAnswered ==
  ASSUME NEW s, NEW out, HandleControl(s, out), s.requestType = 128, s.request = 6,
         <<High(s.value), Low(s.value)>> \in DOMAIN Announced
  PROVE  answer'.status = 0
<1>1. Standard(s)
  BY DEF Standard
<1>2. ReadOnly(s)
  <2>1. s.request # 9 /\ s.request # 11
    OBVIOUS
  <2> QED BY ONLY Zenon, <1>1, <2>1, HandleControl(s, out)
       DEF HandleControl, SetConfiguration, SetInterface, SetSampleRate, SetMute, SetVolume,
           IsStandard, IsRate, IsFeature
<1>3. answer' = Reply(s)
  BY ONLY Zenon, <1>2 DEF ReadOnly
<1>4. s.request = 6 /\ ~(\E r \in {1, 3, 5} : s.request = r) /\ s.request # 8 /\ s.request # 10
      /\ ~(\E r \in {0, 12} : s.request = r)
  OBVIOUS
<1>5. Reply(s) = Data(s, Announced[<<High(s.value), Low(s.value)>>])
  <2> HIDE DEF High, Low
  <2>1. IsStandard(s, 6)
    BY ONLY Zenon, <1>1, <1>4 DEF IsStandard
  <2>2. /\ ~(\E r \in {1, 3, 5} : IsStandard(s, r)) /\ ~IsStandard(s, 8) /\ ~IsStandard(s, 10)
        /\ ~(\E r \in {0, 12} : IsStandard(s, r))
    BY ONLY Zenon, <1>4 DEF IsStandard
  <2>3. \A r : ~IsRate(s, r) /\ \A cs : ~IsFeature(s, r, cs)
    BY ONLY Zenon, <1>1 DEF IsRate, IsFeature
  <2> QED BY ONLY Zenon, <2>1, <2>2, <2>3,
             <<High(s.value), Low(s.value)>> \in DOMAIN Announced DEF Reply
<1> QED BY ONLY Zenon, <1>3, <1>5, DataStatus

\* A request of the class, to a feature unit.
ToFeature(s, r, cs) ==
  /\ s.requestType \in {33, 161} /\ s.request = r /\ High(s.value) = cs
  /\ Low(s.index) = 0 /\ FeatureEntity(High(s.index))

\* A request to a feature unit is no other.
LEMMA FeatureRequest ==
  ASSUME NEW s, NEW r, NEW cs, ToFeature(s, r, cs)
  PROVE  /\ ~Standard(s) /\ IsFeature(s, r, cs)
         /\ \A q : ~IsStandard(s, q) /\ ~IsRate(s, q)
         /\ \A q, x : IsFeature(s, q, x) => q = r /\ x = cs
<1>1. s.requestType \in {33, 161}
  BY DEF ToFeature
<1>2. ~Standard(s) /\ Recipient(s) = 1
  <2>1. CASE s.requestType = 33
    BY ONLY <2>1 DEF Standard, Recipient
  <2>2. CASE s.requestType = 161
    BY ONLY <2>2 DEF Standard, Recipient
  <2> QED BY <1>1, <2>1, <2>2
<1>3. 1 # 2
  OBVIOUS
<1>4. IsFeature(s, r, cs)
  BY ONLY Zenon, <1>2, ToFeature(s, r, cs) DEF ToFeature, IsFeature
<1>5. \A q : ~IsStandard(s, q) /\ ~IsRate(s, q)
  BY ONLY <1>2 DEF IsStandard, IsRate
<1>6. \A q, x : IsFeature(s, q, x) => q = r /\ x = cs
  BY ONLY Zenon, ToFeature(s, r, cs) DEF ToFeature, IsFeature
<1> QED BY <1>2, <1>4, <1>5, <1>6

\* Setting the mute is answered.
LEMMA MuteIsAnswered ==
  ASSUME NEW s, NEW out, HandleControl(s, out), ToFeature(s, 1, 1)
  PROVE  answer'.status = 0
<1>1. /\ IsFeature(s, 1, 1) /\ \A q : ~IsStandard(s, q) /\ ~IsRate(s, q)
      /\ \A q, x : IsFeature(s, q, x) => q = 1 /\ x = 1
  BY ONLY Zenon, ToFeature(s, 1, 1), FeatureRequest
<1>2. ~IsFeature(s, 1, 2)
  <2>1. 2 # 1
    OBVIOUS
  <2> QED BY ONLY Zenon, <1>1, <2>1
<1>3. SetMute(s, out)
  BY ONLY Zenon, <1>1, <1>2, HandleControl(s, out)
     DEF HandleControl, SetConfiguration, SetInterface, SetSampleRate, SetVolume, ReadOnly
<1> QED BY ONLY Zenon, <1>3, DataStatus DEF SetMute

\* Reading the mute, the volume and its range is answered.
LEMMA FeatureIsAnswered ==
  ASSUME NEW s, NEW out, HandleControl(s, out), NEW r \in 129..132, NEW cs \in 1..2,
         ToFeature(s, r, cs), cs = 1 => r = 129
  PROVE  answer'.status = 0
<1>1. /\ IsFeature(s, r, cs) /\ \A q : ~IsStandard(s, q) /\ ~IsRate(s, q)
      /\ \A q, x : IsFeature(s, q, x) => q = r /\ x = cs
  BY ONLY Zenon, ToFeature(s, r, cs), FeatureRequest
<1>2. ~IsFeature(s, 1, 1) /\ ~IsFeature(s, 1, 2)
  <2>1. 1 # r
    OBVIOUS
  <2> QED BY ONLY Zenon, <1>1, <2>1
<1>3. answer' = Reply(s)
  BY ONLY Zenon, <1>1, <1>2, HandleControl(s, out)
     DEF HandleControl, SetConfiguration, SetInterface, SetSampleRate, SetMute, SetVolume,
         ReadOnly
<1>4. \/ r = 129 /\ cs = 1
      \/ r = 129 /\ cs = 2
      \/ r = 130 /\ cs = 2
      \/ r = 131 /\ cs = 2
      \/ r = 132 /\ cs = 2
  BY ONLY r \in 129..132, cs \in 1..2, cs = 1 => r = 129
<1>5. /\ ~(IsStandard(s, 6) /\ <<High(s.value), Low(s.value)>> \in DOMAIN Announced)
      /\ ~(\E q \in {1, 3, 5} : IsStandard(s, q)) /\ ~IsStandard(s, 8)
      /\ ~(IsStandard(s, 10) /\ Low(s.index) \in Interfaces)
      /\ ~(\E q \in {0, 12} : IsStandard(s, q))
      /\ ~IsRate(s, 129) /\ ~(\E q \in {130, 131} : IsRate(s, q)) /\ ~IsRate(s, 132)
  BY ONLY Zenon, <1>1
<1>6. \A q, x : IsFeature(s, q, x) <=> q = r /\ x = cs
  BY ONLY Zenon, <1>1
<1>8. /\ IsFeature(s, 129, 1) <=> r = 129 /\ cs = 1
      /\ IsFeature(s, 129, 2) <=> r = 129 /\ cs = 2
      /\ IsFeature(s, 130, 2) <=> r = 130 /\ cs = 2
      /\ IsFeature(s, 131, 2) <=> r = 131 /\ cs = 2
      /\ IsFeature(s, 132, 2) <=> r = 132 /\ cs = 2
  BY ONLY <1>6
<1>7. \E d : Reply(s) = Data(s, d)
  <2>1. CASE r = 129 /\ cs = 1
    <3>1. /\ IsFeature(s, 129, 1) /\ ~IsFeature(s, 129, 2) /\ ~IsFeature(s, 130, 2)
          /\ ~IsFeature(s, 131, 2) /\ ~IsFeature(s, 132, 2)
      BY ONLY <1>8, <2>1
    <3> QED BY ONLY Zenon, <1>5, <3>1 DEF Reply
  <2>2. CASE r = 129 /\ cs = 2
    <3>1. /\ ~IsFeature(s, 129, 1) /\ IsFeature(s, 129, 2) /\ ~IsFeature(s, 130, 2)
          /\ ~IsFeature(s, 131, 2) /\ ~IsFeature(s, 132, 2)
      BY ONLY <1>8, <2>2
    <3> QED BY ONLY ZenonT(40), <1>5, <3>1 DEF Reply
  <2>3. CASE r = 130 /\ cs = 2
    <3>1. /\ ~IsFeature(s, 129, 1) /\ ~IsFeature(s, 129, 2) /\ IsFeature(s, 130, 2)
          /\ ~IsFeature(s, 131, 2) /\ ~IsFeature(s, 132, 2)
      BY ONLY <1>8, <2>3
    <3> QED BY ONLY ZenonT(30), <1>5, <3>1 DEF Reply
  <2>4. CASE r = 131 /\ cs = 2
    <3>1. /\ ~IsFeature(s, 129, 1) /\ ~IsFeature(s, 129, 2) /\ ~IsFeature(s, 130, 2)
          /\ IsFeature(s, 131, 2) /\ ~IsFeature(s, 132, 2)
      BY ONLY <1>8, <2>4
    <3> QED BY ONLY ZenonT(30), <1>5, <3>1 DEF Reply
  <2>5. CASE r = 132 /\ cs = 2
    <3>1. /\ ~IsFeature(s, 129, 1) /\ ~IsFeature(s, 129, 2) /\ ~IsFeature(s, 130, 2)
          /\ ~IsFeature(s, 131, 2) /\ IsFeature(s, 132, 2)
      BY ONLY <1>8, <2>5
    <3> QED BY ONLY ZenonT(40), <1>5, <3>1 DEF Reply
  <2> QED BY <1>4, <2>1, <2>2, <2>3, <2>4, <2>5
<1> QED BY ONLY Zenon, <1>3, <1>7, DataStatus

\* The configuration, and an alternate setting once it is selected, can be selected.
LEMMA ConfigurationIsTaken ==
  ASSUME NEW s, NEW out, HandleControl(s, out), s.requestType = 0, s.request = 9, s.value = 1
  PROVE  answer'.status = 0
<1>1. IsStandard(s, 9) /\ Low(s.value) <= 1 /\ Standard(s) /\ s.request # 11
  BY DEF IsStandard, Standard, Low
<1>2. SetConfiguration(s)
  BY ONLY Zenon, <1>1, HandleControl(s, out)
     DEF HandleControl, SetInterface, SetSampleRate, SetMute, SetVolume, ReadOnly,
         IsStandard, IsRate, IsFeature
<1> QED BY ONLY Zenon, <1>2, DataStatus DEF SetConfiguration

\* An alternate setting of an interface of the configured device is taken.
LEMMA InterfaceIsTaken ==
  ASSUME NEW s, NEW out, HandleControl(s, out), s.requestType = 1, s.request = 11,
         configuration = 1, s.index \in 0..8, s.index \in Interfaces, s.value \in 0..1,
         s.index = 0 => s.value = 0
  PROVE  answer'.status = 0
<1>1. Low(s.index) = s.index /\ Low(s.value) = s.value
  BY ONLY s.index \in 0..8, s.value \in 0..1 DEF Low
<1>2. SettableInterface(s)
  <2>1. s.value <= 1
    OBVIOUS
  <2> QED BY ONLY Zenon, <1>1, <2>1, configuration = 1, s.index \in Interfaces,
                         s.index = 0 => s.value = 0 DEF SettableInterface
<1>3. IsStandard(s, 11) /\ Standard(s) /\ s.request # 9
  BY DEF IsStandard, Standard
<1>4. SetInterface(s)
  BY ONLY Zenon, <1>2, <1>3, HandleControl(s, out)
     DEF HandleControl, SetConfiguration, SetSampleRate, SetMute, SetVolume, ReadOnly,
         IsStandard, IsRate, IsFeature
<1> QED BY ONLY Zenon, <1>4, DataStatus DEF SetInterface

\* The strings the descriptors name are among those the device keeps.
LEMMA NamesKept ==
  \A i \in {1, 2, 3} \cup UNION {NamesOnTheWay(B, e.terminal) : e \in Endpoints(B)} :
    i \in 0..3 + 2 * NumCables /\ i \in 0..255
<1>1. NumCables \in 1..4
  BY Layout
<1>2. ASSUME NEW e \in Endpoints(B), NEW i \in NamesOnTheWay(B, e.terminal)
      PROVE  i \in 0..3 + 2 * NumCables /\ i \in 0..255
  <2>1. PICK c \in Cables : e = PlaybackPoint(c) \/ e = CapturePoint(c)
    BY ONLY Zenon, e \in Endpoints(B), PointsAre
  <2>2. e.terminal = 6 * (c - 1) + 1 \/ e.terminal = 6 * (c - 1) + 6
    <3>1. /\ PlaybackPoint(c).terminal = 6 * (c - 1) + 1
          /\ CapturePoint(c).terminal = 6 * (c - 1) + 6
      BY ONLY Zenon, c \in Cables, PointFields
    <3> QED BY ONLY Zenon, <2>1, <3>1
  <2>3. i = 4 + 2 * (c - 1) \/ i = 5 + 2 * (c - 1)
    <3>1. /\ NamesOnTheWay(B, 6 * (c - 1) + 1) = {4 + 2 * (c - 1)}
          /\ NamesOnTheWay(B, 6 * (c - 1) + 6) = {5 + 2 * (c - 1)}
      BY ONLY Zenon, c \in Cables, PointsAre
    <3> QED BY ONLY Zenon, <2>2, <3>1, i \in NamesOnTheWay(B, e.terminal)
  <2>4. c \in 1..NumCables
    BY DEF Cables
  <2> QED BY ONLY <1>1, <2>3, <2>4
<1>3. ASSUME NEW i \in {1, 2, 3} PROVE i \in 0..3 + 2 * NumCables /\ i \in 0..255
  BY ONLY <1>1, i \in {1, 2, 3}
<1> QED BY ONLY ZenonT(30), <1>2, <1>3

\* A word of two bytes, and the question put to a feature unit.
Word(x, t, i) == x = 256 * t + i
Asks(s, q, cs, u) ==
  /\ s.requestType \in {33, 161} /\ s.request = q
  /\ Word(s.value, cs, 0) /\ Word(s.index, u, 0)

\* The bytes of a word are its parts.
LEMMA Bytes16 ==
  ASSUME NEW x, NEW t \in Nat, NEW i \in 0..255, Word(x, t, i)
  PROVE  High(x) = t /\ Low(x) = i
<1>1. x \in Nat /\ x \div 256 = t /\ x % 256 = i
  BY DEF Word
<1> QED BY ONLY <1>1 DEF High, Low

\* Whatever is asked to show the device is answered.
LEMMA ShowingIsAnswered ==
  ASSUME NEW r \in Showing, HandleControl(r.setup, r.out)
  PROVE  answer'.status = 0
<1>1. CASE \E t \in {1, 2, 6} : r = Ask(Setup(128, 6, 256 * t, 0, 0))
  <2>1. PICK t \in {1, 2, 6} : r = Ask(Setup(128, 6, 256 * t, 0, 0))
    BY <1>1
  <2>2. r.setup.requestType = 128 /\ r.setup.request = 6 /\ r.setup.value = 256 * t
    BY ONLY <2>1 DEF Setup, Ask, Send
  <2>3. High(r.setup.value) = t /\ Low(r.setup.value) = 0
    <3>1. t \in Nat /\ 0 \in 0..255 /\ Word(r.setup.value, t, 0)
      BY ONLY <2>2, t \in {1, 2, 6} DEF Word
    <3> QED BY ONLY Zenon, <3>1, Bytes16
  <2>4. <<High(r.setup.value), Low(r.setup.value)>> \in DOMAIN Announced
    BY ONLY Zenon, <2>3, t \in {1, 2, 6}, AnnouncedAre
  <2> QED BY ONLY Zenon, <2>2, <2>4, HandleControl(r.setup, r.out), KeptIsAnswered
<1>2. CASE \E i \in {1, 2, 3} \cup UNION {NamesOnTheWay(B, e.terminal) : e \in Endpoints(B)} :
             r = Ask(Setup(128, 6, 256 * 3 + i, 1033, 0))
  <2>1. PICK i \in {1, 2, 3} \cup UNION {NamesOnTheWay(B, e.terminal) : e \in Endpoints(B)} :
             r = Ask(Setup(128, 6, 256 * 3 + i, 1033, 0))
    BY <1>2
  <2>2. r.setup.requestType = 128 /\ r.setup.request = 6 /\ r.setup.value = 256 * 3 + i
    BY ONLY <2>1 DEF Setup, Ask, Send
  <2>3. i \in 0..3 + 2 * NumCables /\ i \in 0..255
    BY ONLY Zenon, NamesKept,
       i \in {1, 2, 3} \cup UNION {NamesOnTheWay(B, e.terminal) : e \in Endpoints(B)}
  <2>4. High(r.setup.value) = 3 /\ Low(r.setup.value) = i
    <3>1. 3 \in Nat /\ Word(r.setup.value, 3, i)
      BY ONLY <2>2, <2>3 DEF Word
    <3> QED BY ONLY Zenon, <2>3, <3>1, Bytes16
  <2>5. <<High(r.setup.value), Low(r.setup.value)>> \in DOMAIN Announced
    BY ONLY Zenon, <2>3, <2>4, AnnouncedAre
  <2> QED BY ONLY Zenon, <2>2, <2>5, HandleControl(r.setup, r.out), KeptIsAnswered
<1>3. ASSUME NEW u \in FeatureUnits(B) PROVE u \in Nat /\ FeatureEntity(u)
  <2>1. PICK n \in 1..4 : n = NumCables
    BY AnnouncedListing
  <2>2. PICK tu, tv, tq, tw : Listing(B, n, tu, tv, tq, tw)
    BY ONLY Zenon, <2>1, AnnouncedListing
  <2> QED BY ONLY Zenon, <2>2, n \in 1..4, u \in FeatureUnits(B), FeatureUnitsAre
<1>4. ASSUME NEW u \in FeatureUnits(B), NEW cs \in 1..2, NEW q, Asks(r.setup, q, cs, u)
      PROVE  ToFeature(r.setup, q, cs)
  <2>1. u \in Nat /\ FeatureEntity(u)
    BY ONLY Zenon, <1>3, u \in FeatureUnits(B)
  <2>2. cs \in Nat /\ 0 \in 0..255
    OBVIOUS
  <2>3. High(r.setup.value) = cs /\ Low(r.setup.index) = 0 /\ High(r.setup.index) = u
    <3>1. Word(r.setup.value, cs, 0) /\ Word(r.setup.index, u, 0)
      BY ONLY Zenon, <1>4 DEF Asks
    <3>2. High(r.setup.value) = cs
      BY ONLY Zenon, <2>2, <3>1, Bytes16
    <3>3. High(r.setup.index) = u /\ Low(r.setup.index) = 0
      BY ONLY Zenon, <2>1, <2>2, <3>1, Bytes16
    <3> QED BY ONLY Zenon, <3>2, <3>3
  <2> QED BY ONLY Zenon, <1>4, <2>1, <2>3 DEF ToFeature, Asks
<1>5. 1 \in 1..2 /\ 2 \in 1..2 /\ 129 \in 129..132 /\ 2 # 1
  OBVIOUS
<1>6. CASE \E u \in FeatureUnits(B) : r = Send(Setup(33, 1, 256, 256 * u, 1), <<0>>)
  <2>1. PICK u \in FeatureUnits(B) : r = Send(Setup(33, 1, 256, 256 * u, 1), <<0>>)
    BY <1>6
  <2>2. Asks(r.setup, 1, 1, u)
    <3>1. u \in Nat
      BY ONLY Zenon, <1>3, u \in FeatureUnits(B)
    <3> QED BY ONLY <2>1, <3>1 DEF Setup, Ask, Send, Asks, Word
  <2>3. ToFeature(r.setup, 1, 1)
    BY ONLY Zenon, <1>4, <1>5, <2>2, u \in FeatureUnits(B)
  <2> QED BY ONLY Zenon, <2>3, HandleControl(r.setup, r.out), MuteIsAnswered
<1>7. CASE \E u \in FeatureUnits(B) : r = Ask(Setup(161, 129, 256, 256 * u, 0))
  <2>1. PICK u \in FeatureUnits(B) : r = Ask(Setup(161, 129, 256, 256 * u, 0))
    BY <1>7
  <2>2. Asks(r.setup, 129, 1, u)
    <3>1. u \in Nat
      BY ONLY Zenon, <1>3, u \in FeatureUnits(B)
    <3> QED BY ONLY <2>1, <3>1 DEF Setup, Ask, Send, Asks, Word
  <2>3. ToFeature(r.setup, 129, 1)
    BY ONLY Zenon, <1>4, <1>5, <2>2, u \in FeatureUnits(B)
  <2> QED BY ONLY Zenon, <1>5, <2>3, HandleControl(r.setup, r.out), FeatureIsAnswered
<1>8. CASE \E q \in 129..132, u \in FeatureUnits(B) : r = Ask(Setup(161, q, 512, 256 * u, 0))
  <2>1. PICK q \in 129..132, u \in FeatureUnits(B) : r = Ask(Setup(161, q, 512, 256 * u, 0))
    BY <1>8
  <2>2. Asks(r.setup, q, 2, u)
    <3>1. u \in Nat
      BY ONLY Zenon, <1>3, u \in FeatureUnits(B)
    <3> QED BY ONLY <2>1, <3>1 DEF Setup, Ask, Send, Asks, Word
  <2>3. ToFeature(r.setup, q, 2)
    BY ONLY Zenon, <1>4, <1>5, <2>2, u \in FeatureUnits(B)
  <2> QED BY ONLY Zenon, <1>5, <2>3, q \in 129..132, HandleControl(r.setup, r.out),
             FeatureIsAnswered
<1>9. \/ \E t \in {1, 2, 6} : r = Ask(Setup(128, 6, 256 * t, 0, 0))
      \/ \E i \in {1, 2, 3} \cup UNION {NamesOnTheWay(B, e.terminal) : e \in Endpoints(B)} :
             r = Ask(Setup(128, 6, 256 * 3 + i, 1033, 0))
      \/ \E u \in FeatureUnits(B) : r = Send(Setup(33, 1, 256, 256 * u, 1), <<0>>)
      \/ \E u \in FeatureUnits(B) : r = Ask(Setup(161, 129, 256, 256 * u, 0))
      \/ \E q \in 129..132, u \in FeatureUnits(B) : r = Ask(Setup(161, q, 512, 256 * u, 0))
  BY ONLY r \in Showing DEF Showing, B
<1> QED BY ONLY Zenon, <1>1, <1>2, <1>6, <1>7, <1>8, <1>9

\* Whatever opens the device is answered, alternate settings once it is configured.
LEMMA OpeningIsAnswered ==
  ASSUME NEW r \in Opening, HandleControl(r.setup, r.out),
         configuration = 1 \/ r.setup.request = 9
  PROVE  answer'.status = 0
<1>1. PICK n \in 1..4 : n = NumCables
  BY AnnouncedListing
<1>2. PICK u, v, q, w : Listing(B, n, u, v, q, w)
  BY ONLY Zenon, <1>1, AnnouncedListing
<1>3. CASE r = Ask(Setup(0, 9, B[6], 0, 0))
  <2>1. r.setup.requestType = 0 /\ r.setup.request = 9 /\ r.setup.value = B[6]
    BY ONLY <1>3 DEF Setup, Ask, Send
  <2>2. B[6] = 1
    BY ONLY Zenon, <1>2 DEF Listing
  <2> QED BY ONLY Zenon, <2>1, <2>2, HandleControl(r.setup, r.out), ConfigurationIsTaken
<1>4. CASE \E s \in Settings(B) : r = Ask(Setup(1, 11, s[2], s[1], 0))
  <2>1. PICK s \in Settings(B) : r = Ask(Setup(1, 11, s[2], s[1], 0))
    BY <1>4
  <2>2. s[1] \in 0..2 * n /\ s[2] \in 0..1 /\ (s[1] = 0 => s[2] = 0)
    BY ONLY <1>2, n \in 1..4, s \in Settings(B), SettingsAre
  <2>3. /\ r.setup.requestType = 1 /\ r.setup.request = 11 /\ r.setup.value = s[2]
        /\ r.setup.index = s[1]
    BY ONLY <2>1 DEF Setup, Ask, Send
  <2>4. PICK i \in 0..8 : i = s[1]
    BY ONLY <2>2, n \in 1..4
  <2>5. i \in Interfaces
    BY ONLY Zenon, <1>1, <2>2, <2>4 DEF Interfaces
  <2>6. configuration = 1
    <3>1. 11 # 9
      OBVIOUS
    <3> QED BY ONLY Zenon, <2>3, <3>1, configuration = 1 \/ r.setup.request = 9
  <2>7. r.setup.index \in 0..8 /\ r.setup.index \in Interfaces /\ r.setup.value \in 0..1
        /\ (r.setup.index = 0 => r.setup.value = 0)
    BY ONLY Zenon, <2>2, <2>3, <2>4, <2>5, i \in 0..8
  <2> QED BY ONLY Zenon, <2>3, <2>6, <2>7, HandleControl(r.setup, r.out), InterfaceIsTaken
<1>5. \/ r = Ask(Setup(0, 9, B[6], 0, 0))
      \/ \E s \in Settings(B) : r = Ask(Setup(1, 11, s[2], s[1], 0))
  BY ONLY Zenon, r \in Opening DEF Opening, B
<1> QED BY ONLY Zenon, <1>3, <1>4, <1>5

\* No request called for by what is announced is stalled.
LEMMA NeverTurnedDown ==
  ASSUME ~turnedDown, [Next]_vars
  PROVE  ~turnedDown'
<1>1. CASE UNCHANGED turnedDown
  BY ONLY Zenon, <1>1, ~turnedDown
<1>2. CASE \E r \in Requests : Control(r)
  <2>1. PICK r : Control(r)
    BY <1>2
  <2>2. HandleControl(r.setup, r.out)
    BY ONLY Zenon, <2>1 DEF Control
  <2>3. ~(/\ answer'.status # 0
          /\ \/ r \in Showing
             \/ r \in Opening /\ (configuration = 1 \/ r.setup.request = 9))
    BY ONLY Zenon, <2>2, ShowingIsAnswered, OpeningIsAnswered
  <2> QED BY ONLY Zenon, <2>1, <2>3, ~turnedDown DEF Control
<1>3. CASE \E w \in Workers : Finish(w) \/ \E ep \in Cables : Play(w, ep) \/ Record(w, ep)
  <2>1. UNCHANGED turnedDown
    BY ONLY Zenon, <1>3 DEF Finish, Play, Record
  <2> QED BY <1>1, <2>1
<1>4. CASE \E w \in Workers : DeviceStep(w) /\ UNCHANGED <<played, turnedDown>>
  <2>1. UNCHANGED turnedDown
    BY ONLY <1>4
  <2> QED BY <1>1, <2>1
<1>5. CASE UNCHANGED vars
  <2>1. UNCHANGED turnedDown
    BY ONLY <1>5 DEF vars
  <2> QED BY <1>1, <2>1
<1> QED BY ONLY <1>2, <1>3, <1>4, <1>5, [Next]_vars, NextSteps DEF Steps

\* What an endpoint promises, in any state of the device.
LEMMA EndpointServed ==
  ASSUME NEW e \in Endpoints(B)
  PROVE  LET active == IF e.address >= 128 THEN CaptureActive(e.address)
                                           ELSE PlaybackActive(e.address)
             kind == IF e.address >= 128 THEN "recording" ELSE "playback"
         IN /\ e.bytes = BytesPerMillisecond /\ e.microframes = 8
            /\ active <=> configuration = 1 /\ altSetting[e.interface] = e.alt
            /\ {x.name : x \in {y \in Listed : y.address = e.address}}
                 = {<<kind, CableNumber(DeviceNumber, e.address % 128)>>}
<1>1. PICK c \in Cables : e = PlaybackPoint(c) \/ e = CapturePoint(c)
  BY ONLY Zenon, e \in Endpoints(B), PointsAre
<1>2. BytesPerMillisecond = 768
  BY DEF BytesPerMillisecond, SampleRate, Channels
<1>3. /\ c \in 1..4 /\ c < 128 /\ 128 + c >= 128 /\ c % 128 = c /\ (128 + c) % 128 = c
  BY ONLY ZenonT(30), c \in Cables, PointFields
<1>4. CASE e = PlaybackPoint(c)
  <2>1. /\ e.bytes = 768 /\ e.microframes = 8 /\ e.address = c /\ e.interface = 2 * c - 1
        /\ e.alt = 1
    BY ONLY <1>4 DEF PlaybackPoint
  <2>2. ~(c >= 128)
    BY ONLY <1>3
  <2>3. PlaybackActive(c) <=> configuration = 1 /\ altSetting[2 * c - 1] = 1
    BY ONLY Zenon, c \in Cables, Active DEF PlaybackInterface
  <2>4. {x.name : x \in {y \in Listed : y.address = e.address}}
          = {<<"playback", CableNumber(DeviceNumber, c)>>}
    BY ONLY Zenon, <1>4, e \in Endpoints(B), c \in Cables, ListedNames
  <2>5. ~(e.address >= 128) /\ e.address % 128 = c
    BY ONLY Zenon, <1>3, <2>1, <2>2
  <2>6. /\ PlaybackActive(e.address) <=> configuration = 1 /\ altSetting[e.interface] = e.alt
        /\ e.bytes = BytesPerMillisecond
    BY ONLY ZenonT(30), <1>2, <2>1, <2>3
  <2>7. {x.name : x \in {y \in Listed : y.address = e.address}}
          = {<<"playback", CableNumber(DeviceNumber, e.address % 128)>>}
    BY ONLY Zenon, <2>4, <2>5
  <2> QED BY ONLY Zenon, <2>1, <2>5, <2>6, <2>7
<1>5. CASE e = CapturePoint(c)
  <2>1. /\ e.bytes = 768 /\ e.microframes = 8 /\ e.address = 128 + c /\ e.interface = 2 * c
        /\ e.alt = 1
    BY ONLY <1>5 DEF CapturePoint
  <2>2. CableByEndpoint(128 + c) = c /\ c # 0
    BY ONLY <1>3, c \in Cables DEF CableByEndpoint
  <2>3. CaptureActive(128 + c) <=> configuration = 1 /\ altSetting[2 * c] = 1
    BY ONLY Zenon, <2>2 DEF CaptureActive, CaptureInterface
  <2>4. {x.name : x \in {y \in Listed : y.address = e.address}}
          = {<<"recording", CableNumber(DeviceNumber, c)>>}
    BY ONLY Zenon, <1>5, e \in Endpoints(B), c \in Cables, ListedNames
  <2>5. e.address >= 128 /\ e.address % 128 = c
    BY ONLY Zenon, <1>3, <2>1
  <2>6. /\ CaptureActive(e.address) <=> configuration = 1 /\ altSetting[e.interface] = e.alt
        /\ e.bytes = BytesPerMillisecond
    BY ONLY ZenonT(30), <1>2, <2>1, <2>3
  <2>7. {x.name : x \in {y \in Listed : y.address = e.address}}
          = {<<"recording", CableNumber(DeviceNumber, e.address % 128)>>}
    BY ONLY Zenon, <2>4, <2>5
  <2> QED BY ONLY Zenon, <2>1, <2>5, <2>6, <2>7
<1> QED BY ONLY Zenon, <1>1, <1>4, <1>5

\* A device of any number, with any of its one to four cables, keeps what its descriptors
\* announce: a host that reads them byte by byte, whatever else it asks in between, is
\* refused nothing they call for, finds every endpoint served by the alternate setting it
\* is in, and shows each under the name of the cable that the window lists there.
THEOREM DeviceAnnouncedIsServed == Spec => []AnnouncedIsServed
<1>1. Init => ~turnedDown
  BY ONLY Zenon DEF Init
<1>2. ~turnedDown /\ [Next]_vars => ~turnedDown'
  BY ONLY Zenon, NeverTurnedDown
<1>3. ~turnedDown => AnnouncedIsServed
  BY ONLY Zenon, EndpointServed DEF AnnouncedIsServed, B
<1> QED BY <1>1, <1>2, <1>3, PTL DEF Spec
=============================================================================
