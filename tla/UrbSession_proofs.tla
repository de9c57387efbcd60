--------------------------- MODULE UrbSession_proofs ---------------------------
(***************************************************************************)
(* What a session promises of its jobs holds for any number of cables,     *)
(* goroutines and URBs, any host and whatever of Events may happen.        *)
(***************************************************************************)
EXTENDS UrbSession, FiniteSetTheorems, SequenceTheorems, TLAPS

Setups == {u.setup : u \in Urbs}
UrbState == [seq : Jobs, endpoint : Nat, direction : {DirectionOut, DirectionIn},
             packets : Nat, setup : Setups]
Places == {"none", "start", "playback?", "writing", "wait", "waiting", "capture?", "reading",
           "reply", "finish", "done"}
Audio == Chunks \cup {Silence}
Results == [status : {StatusOK, StatusPipe, StatusConnReset}, taken : 0..1, audio : Audio]
Calls == [op : {"none", "write", "read"}, step : {"idle", "check", "move", "done"}, ep : Nat,
          chunk : Audio, moved : 0..1]

\* The device's part: whatever moves audio has a cable and a chunk of one.
DeviceTypes ==
  /\ call \in [Workers -> Calls]
  /\ \A w \in Workers : /\ call[w].step = "move" => CableByEndpoint(call[w].ep) # 0
                        /\ call[w].op = "write" => call[w].chunk \in Chunks
  /\ buffer \in [Cables -> Seq(Chunks)]

\* TypeOK, with what it leaves out and the places it depends on.
Types ==
  /\ TypeOK
  /\ urb \in Seq(UrbState)
  /\ \A j \in Started : pc[j] \in {"playback?", "writing"} => Playback(urb[j])
  /\ reader \in {"cancel", "answer"} => unlink.target \in Seqs
  /\ reader = "cancel" => unlink.job \in Jobs
  /\ DeviceTypes

LEMMA JobsFit ==
  /\ Cardinality(Jobs) \in Nat /\ Jobs = 1..Cardinality(Jobs) /\ Workers = Jobs /\ Seqs = Jobs
  /\ MaxIsoWait \in Nat
BY SessionAssumption, IsoAssumption, FS_CardinalityType DEF Jobs, Seqs

LEMMA HostFits ==
  ASSUME host \in Hosts
  PROVE  /\ host.time \in Nat
         /\ \A u \in host.urbs :
              /\ u \in Urbs /\ u.endpoint \in Nat /\ u.packets \in Nat
              /\ u.direction \in {DirectionOut, DirectionIn}
              /\ TimelineKey(u.endpoint, u.direction) \in Keys /\ u.setup \in Setups
BY SessionAssumption DEF Urbs, Keys, Setups

LEMMA SilenceFits == Silence \in Audio /\ NoResult \in Results /\ Idle \in Calls
BY DEF Audio, Silence, NoResult, Results, Idle, Calls

LEMMA ReplyStatus == \A s : Reply(s).status \in {StatusOK, StatusPipe}
BY DEF Reply, Data, Done, Stall, StatusOK, StatusPipe

LEMMA ControlStatus ==
  ASSUME NEW s, HandleControl(s, <<>>)
  PROVE  answer'.status \in {StatusOK, StatusPipe} /\ UNCHANGED call
BY ReplyStatus DEF HandleControl, SetConfiguration, SetInterface, SetSampleRate, SetMute,
   SetVolume, ReadOnly, Done, Stall, StatusOK, StatusPipe

LEMMA ControlBuffers ==
  ASSUME DeviceTypes, NEW s, HandleControl(s, <<>>)
  PROVE  DeviceTypes'
<1>1. UNCHANGED call
  BY ControlStatus
<1>2. UNCHANGED buffer \/ \E cs : ResetBuffers(cs)
  BY DEF HandleControl, SetConfiguration, SetInterface, SetSampleRate, SetMute, SetVolume, ReadOnly
<1>3. buffer' \in [Cables -> Seq(Chunks)]
  <2>1. \A c \in Cables : <<>> \in Seq(Chunks) /\ buffer[c] \in Seq(Chunks)
    BY DEF DeviceTypes
  <2>2. ASSUME NEW cs, ResetBuffers(cs) PROVE buffer' \in [Cables -> Seq(Chunks)]
    BY <2>1, <2>2 DEF ResetBuffers
  <2> QED BY <1>2, <2>2 DEF DeviceTypes
<1> QED BY <1>1, <1>3 DEF DeviceTypes

LEMMA StartedJob ==
  ASSUME Types, NEW j \in Started
  PROVE  j \in Jobs /\ j \in 1..Len(urb) /\ urb[j] \in UrbState /\ pc[j] \in Places \ {"none"}
BY DEF Types, TypeOK, Started, Places

-----------------------------------------------------------------------------
(* Types.                                                                    *)

LEMMA FirstOfSeq ==
  ASSUME NEW S, NEW q \in Seq(S), q # <<>>
  PROVE  Head(q) \in S /\ Tail(q) \in Seq(S)
BY HeadTailProperties

LEMMA PushFits ==
  ASSUME NEW q \in Seq(Chunks), NEW x \in Chunks
  PROVE  Push(q, x) \in Seq(Chunks)
<1>1. Len(q) = RingCap => Tail(q) \in Seq(Chunks)
  <2>1. RingCap # 0
    BY DeviceAssumption
  <2>2. Len(q) = RingCap => q # <<>>
    BY <2>1
  <2> QED BY <2>2, FirstOfSeq
<1> QED BY <1>1, AppendProperties DEF Push

LEMMA CallStates ==
  ASSUME NEW e \in Calls
  PROVE  /\ LET d == [e EXCEPT !.step = "done"]
            IN d \in Calls /\ d.step = "done" /\ d.op = e.op /\ d.chunk = e.chunk
         /\ LET d == [e EXCEPT !.moved = 1]
            IN d \in Calls /\ d.step = e.step /\ d.op = e.op /\ d.chunk = e.chunk
         /\ \A x \in Audio : LET d == [e EXCEPT !.chunk = x]
                            IN d \in Calls /\ d.step = e.step /\ d.op = e.op
<1>1. LET d == [e EXCEPT !.step = "done"]
      IN d \in Calls /\ d.step = "done" /\ d.op = e.op /\ d.chunk = e.chunk
  BY DEF Calls
<1>2. LET d == [e EXCEPT !.moved = 1]
      IN d \in Calls /\ d.step = e.step /\ d.op = e.op /\ d.chunk = e.chunk
  BY DEF Calls
<1>3. \A x \in Audio : LET d == [e EXCEPT !.chunk = x]
                      IN d \in Calls /\ d.step = e.step /\ d.op = e.op
  BY DEF Calls
<1> QED BY <1>1, <1>2, <1>3

\* What a step inside the device does to its call.
LEMMA CallMoves ==
  ASSUME DeviceTypes, NEW w \in Workers, DeviceStep(w)
  PROVE  /\ DeviceTypes'
         /\ \A v \in Workers : v # w => call'[v] = call[v]
<1>1. call[w] \in Calls /\ call[w].chunk \in Audio
  BY DEF DeviceTypes, Calls
<1>2. ASSUME NEW e \in Calls, call' = [call EXCEPT ![w] = e],
             e.step # "move" \/ CableByEndpoint(e.ep) # 0,
             e.op = "write" => e.chunk \in Chunks,
             buffer' \in [Cables -> Seq(Chunks)]
      PROVE  DeviceTypes' /\ \A v \in Workers : v # w => call'[v] = call[v]
  BY <1>2 DEF DeviceTypes
<1>3. CASE CheckActive(w)
  <2>1. PICK l \in {"move", "done"} :
          /\ call' = [call EXCEPT ![w].step = l]
          /\ l = "move" => CableByEndpoint(call[w].ep) # 0
    <3> DEFINE active == \/ call[w].op = "write" /\ PlaybackActive(call[w].ep)
                         \/ call[w].op = "read" /\ CaptureActive(call[w].ep)
    <3>1. active => CableByEndpoint(call[w].ep) # 0
      BY DEF PlaybackActive, CaptureActive
    <3>2. call' = [call EXCEPT ![w].step = IF active THEN "move" ELSE "done"]
      BY <1>3 DEF CheckActive
    <3> HIDE DEF active
    <3> QED BY <3>1, <3>2
  <2>2. [call[w] EXCEPT !.step = l] \in Calls
    BY <1>1 DEF Calls
  <2>3. /\ [call[w] EXCEPT !.step = l].step = l /\ [call[w] EXCEPT !.step = l].ep = call[w].ep
        /\ [call[w] EXCEPT !.step = l].op = call[w].op
        /\ [call[w] EXCEPT !.step = l].chunk = call[w].chunk
    BY <1>1 DEF Calls
  <2>4. call' = [call EXCEPT ![w] = [call[w] EXCEPT !.step = l]]
    BY <2>1
  <2>5. buffer' = buffer
    BY <1>3 DEF CheckActive
  <2> QED BY <1>2, <2>1, <2>2, <2>3, <2>4, <2>5 DEF DeviceTypes
<1>4. CASE StoreChunk(w)
  <2> DEFINE e == [[call[w] EXCEPT !.step = "done"] EXCEPT !.moved = 1]
  <2>1. e \in Calls /\ e.step = "done" /\ e.op = call[w].op /\ e.chunk = call[w].chunk
    <3>1. PICK d \in Calls : /\ d = [call[w] EXCEPT !.step = "done"]
                             /\ d.step = "done" /\ d.op = call[w].op /\ d.chunk = call[w].chunk
      BY <1>1, CallStates
    <3>2. e = [d EXCEPT !.moved = 1]
      BY <3>1
    <3> HIDE DEF e
    <3> QED BY <3>1, <3>2, CallStates
  <2>2. call' = [call EXCEPT ![w] = e]
    <3>1. call' = [call EXCEPT ![w].step = "done", ![w].moved = 1]
      BY <1>4 DEF StoreChunk, Taken
    <3> QED BY <3>1 DEF DeviceTypes
  <2>3. call[w].step = "move" /\ call[w].op = "write"
    BY <1>4 DEF StoreChunk
  <2>4. PICK c \in Cables : buffer' = [buffer EXCEPT ![c] = Push(@, call[w].chunk)]
    <3>1. CableByEndpoint(call[w].ep) \in Cables
      BY <2>3 DEF DeviceTypes, CableByEndpoint
    <3> QED BY <1>4, <3>1 DEF StoreChunk
  <2>5. Push(buffer[c], call[w].chunk) \in Seq(Chunks)
    BY <2>3, PushFits DEF DeviceTypes
  <2>6. buffer' \in [Cables -> Seq(Chunks)]
    BY <2>4, <2>5 DEF DeviceTypes
  <2> HIDE DEF e
  <2> QED BY <1>2, <2>1, <2>2, <2>3, <2>6 DEF DeviceTypes
<1>5. CASE TakeChunk(w)
  <2>1. call[w].step = "move" /\ call[w].op = "read"
    BY <1>5 DEF TakeChunk
  <2>2. PICK c \in Cables : c = CableByEndpoint(call[w].ep)
    BY <2>1 DEF DeviceTypes, CableByEndpoint
  <2>3. buffer[c] \in Seq(Chunks)
    BY DEF DeviceTypes
  <2>4. CASE buffer[c] = <<>>
    <3>1. call' = [call EXCEPT ![w].step = "done"] /\ buffer' = buffer
      BY <1>5, <2>2, <2>4 DEF TakeChunk
    <3>2. /\ [call[w] EXCEPT !.step = "done"] \in Calls
          /\ [call[w] EXCEPT !.step = "done"].step = "done"
          /\ [call[w] EXCEPT !.step = "done"].op = "read"
      BY <1>1, <2>1 DEF Calls
    <3>3. call' = [call EXCEPT ![w] = [call[w] EXCEPT !.step = "done"]]
      BY <3>1
    <3> QED BY <1>2, <3>1, <3>2, <3>3 DEF DeviceTypes
  <2>5. CASE buffer[c] # <<>>
    <3> DEFINE x == Head(buffer[c])
    <3> DEFINE e == [[[call[w] EXCEPT !.step = "done"] EXCEPT !.moved = 1] EXCEPT !.chunk = x]
    <3>1. x \in Chunks /\ Tail(buffer[c]) \in Seq(Chunks)
      BY <2>3, <2>5, FirstOfSeq
    <3>2. call' = [call EXCEPT ![w] = e] /\ buffer' = [buffer EXCEPT ![c] = Tail(@)]
      <4>1. /\ call' = [call EXCEPT ![w].step = "done", ![w].moved = 1, ![w].chunk = x]
            /\ buffer' = [buffer EXCEPT ![c] = Tail(@)]
        BY <1>5, <2>2, <2>5 DEF TakeChunk, Unread
      <4> HIDE DEF x
      <4> QED BY <4>1 DEF DeviceTypes
    <3>3. buffer' \in [Cables -> Seq(Chunks)]
      BY <3>1, <3>2 DEF DeviceTypes
    <3> HIDE DEF x
    <3>4. e \in Calls /\ e.step = "done" /\ e.op = "read"
      <4>1. PICK d \in Calls : /\ d = [call[w] EXCEPT !.step = "done"]
                               /\ d.step = "done" /\ d.op = "read"
        <5>1. LET d == [call[w] EXCEPT !.step = "done"]
              IN d \in Calls /\ d.step = "done" /\ d.op = call[w].op
          BY <1>1, CallStates
        <5> QED BY <2>1, <5>1
      <4>2. LET m == [d EXCEPT !.moved = 1]
            IN m \in Calls /\ m.step = d.step /\ m.op = d.op
        BY CallStates
      <4>3. PICK m \in Calls : m = [d EXCEPT !.moved = 1] /\ m.step = "done" /\ m.op = "read"
        BY <4>1, <4>2
      <4>4. e = [m EXCEPT !.chunk = x]
        BY <4>1, <4>3
      <4>5. x \in Audio
        BY <3>1 DEF Audio
      <4> HIDE DEF e
      <4> QED BY <4>3, <4>4, <4>5, CallStates
    <3> HIDE DEF e
    <3> QED BY <1>2, <3>2, <3>3, <3>4
  <2> QED BY <2>4, <2>5
<1> QED BY <1>3, <1>4, <1>5 DEF DeviceStep

LEMMA CallBegins ==
  ASSUME DeviceTypes, NEW w \in Workers, NEW op \in {"write", "read"}, NEW ep \in Nat,
         NEW x \in Audio, op = "write" => x \in Chunks, Begin(w, op, ep, x), UNCHANGED buffer
  PROVE  DeviceTypes' /\ \A v \in Workers : v # w => call'[v] = call[v]
<1> DEFINE e == [op |-> op, step |-> "check", ep |-> ep, chunk |-> x, moved |-> 0]
<1>1. e \in Calls /\ e.step = "check" /\ e.op = op /\ e.chunk = x
  BY DEF Calls
<1>2. call' = [call EXCEPT ![w] = e]
  BY DEF Begin
<1> HIDE DEF e
<1> QED BY <1>1, <1>2 DEF DeviceTypes

LEMMA CallReturns ==
  ASSUME DeviceTypes, NEW w \in Workers, Return(w), UNCHANGED buffer
  PROVE  /\ DeviceTypes' /\ call'[w] = Idle /\ \A v \in Workers : v # w => call'[v] = call[v]
         /\ call[w].moved \in 0..1 /\ call[w].chunk \in Audio
<1>1. Idle \in Calls /\ Idle.step = "idle" /\ Idle.op = "none"
  BY SilenceFits DEF Idle
<1>2. call' = [call EXCEPT ![w] = Idle]
  BY DEF Return
<1>3. call[w] \in Calls
  BY DEF DeviceTypes
<1>4. call[w].moved \in 0..1 /\ call[w].chunk \in Audio
  BY <1>3 DEF Calls
<1> HIDE DEF Idle
<1> QED BY <1>1, <1>2, <1>4 DEF DeviceTypes

\* The state machine of a job.
LEMMA PcTypes ==
  ASSUME Types, NEW j \in Started, NEW l \in Places \ {"none"}, Goto(j, l),
         l \in {"playback?", "writing"} => Playback(urb[j]), urb' = urb
  PROVE  /\ pc' \in [Jobs -> Places] /\ Started' = Started /\ Started' = 1..Len(urb')
         /\ \A i \in Jobs : pc'[i] = IF i = j THEN l ELSE pc[i]
         /\ \A i \in Started' : pc'[i] \in {"playback?", "writing"} => Playback(urb'[i])
<1>1. pc \in [Jobs -> Places] /\ j \in Jobs /\ pc[j] # "none" /\ Started = 1..Len(urb)
  BY StartedJob DEF Types, TypeOK, Places
<1>2. pc' \in [Jobs -> Places] /\ \A i \in Jobs : pc'[i] = IF i = j THEN l ELSE pc[i]
  BY <1>1 DEF Goto
<1>3. Started' = Started
  BY <1>1, <1>2 DEF Started
<1>4. \A i \in Started' : pc'[i] \in {"playback?", "writing"} => Playback(urb'[i])
  BY <1>2, <1>3 DEF Types, Started
<1> QED BY <1>1, <1>2, <1>3, <1>4

LEMMA TypesGoto ==
  ASSUME Types, NEW j \in Started, NEW l \in Places \ {"none"}, Goto(j, l),
         l \in {"playback?", "writing"} => Playback(urb[j]),
         result' \in [Jobs -> Results], DeviceTypes',
         UNCHANGED <<jobVars, sessionVars>>
  PROVE  Types'
<1>1. UNCHANGED <<urb, deadline, isoNext, reader, unlink, cancelled, pending, wire, host, hungUp,
                  blocked, stopped, ended, now>>
  BY DEF jobVars, sessionVars, hostVars
<1>2. /\ pc' \in [Jobs -> Places] /\ Started' = 1..Len(urb')
      /\ \A i \in Started' : pc'[i] \in {"playback?", "writing"} => Playback(urb'[i])
      /\ Started' = Started
  BY <1>1, PcTypes
<1>3. TypeOK'
  BY <1>1, <1>2 DEF Types, TypeOK, Places, Results, Audio
<1> QED BY <1>1, <1>2, <1>3 DEF Types

LEMMA ResultTypes ==
  ASSUME Types, NEW j \in Jobs
  PROVE  /\ result \in [Jobs -> Results]
         /\ \A s \in {StatusOK, StatusPipe, StatusConnReset}, t \in 0..1, a \in Audio :
              [status |-> s, taken |-> t, audio |-> a] \in Results
         /\ \A r \in Results : [result EXCEPT ![j] = r] \in [Jobs -> Results]
         /\ \A t \in 0..1 : [result EXCEPT ![j].taken = t] \in [Jobs -> Results]
<1>1. result \in [Jobs -> Results]
  BY DEF Types, TypeOK, Results, Audio
<1>2. \A t \in 0..1 : [result[j] EXCEPT !.taken = t] \in Results
  BY <1>1 DEF Results
<1>3. \A t \in 0..1 : [result EXCEPT ![j].taken = t] = [result EXCEPT ![j] = [result[j] EXCEPT !.taken = t]]
  BY <1>1
<1>4. \A r \in Results : [result EXCEPT ![j] = r] \in [Jobs -> Results]
  BY <1>1
<1>5. \A s \in {StatusOK, StatusPipe, StatusConnReset}, t \in 0..1, a \in Audio :
        [status |-> s, taken |-> t, audio |-> a] \in Results
  BY DEF Results
<1> QED BY <1>1, <1>2, <1>3, <1>4, <1>5

LEMMA AnswerTypes ==
  ASSUME Types, NEW j \in Started, NEW s \in {StatusOK, StatusPipe, StatusConnReset},
         NEW t \in 0..1, NEW a \in Audio, Answer(j, s, t, a), DeviceTypes',
         UNCHANGED <<jobVars, sessionVars>>
  PROVE  Types'
<1>1. result' \in [Jobs -> Results]
  BY ResultTypes, StartedJob DEF Answer
<1>2. Goto(j, "reply") /\ "reply" \in Places \ {"none"}
  BY DEF Answer, Places
<1> QED BY <1>1, <1>2, TypesGoto

\* The steps of a job between its first and its answer.
LEMMA ServeTypes ==
  ASSUME Types, NEW j \in Started,
         \/ ServeControl(j) \/ Route(j) \/ AskPlayback(j) \/ InDevice(j) \/ PlaybackWritten(j)
         \/ Wait(j) \/ TimerFires(j) \/ WaitCancelled(j) \/ AskCapture(j) \/ CaptureRead(j)
  PROVE  Types'
<1> j \in Jobs /\ j \in Workers /\ urb[j] \in UrbState /\ urb[j].endpoint \in Nat
  BY StartedJob, JobsFit DEF UrbState
<1> {"playback?", "writing", "wait", "waiting", "capture?", "reading"} \subseteq Places \ {"none"}
  BY DEF Places
<1>1. DeviceTypes /\ result \in [Jobs -> Results]
  BY ResultTypes DEF Types
<1>2. Silence \in Audio /\ {0, 1} \subseteq 0..1
  BY SilenceFits
<1>3. UNCHANGED deviceVars => DeviceTypes'
  BY <1>1 DEF deviceVars, DeviceTypes
<1>4. ASSUME Completed(j), UNCHANGED deviceVars, UNCHANGED <<jobVars, sessionVars>> PROVE Types'
  <2>1. result[j].taken \in 0..1
    BY <1>1 DEF Results
  <2> QED BY <1>1, <1>2, <1>3, <1>4, <2>1, AnswerTypes, TypesGoto DEF Completed
<1>5. ASSUME NEW t \in 0..1, Played(j, t), DeviceTypes', UNCHANGED <<jobVars, sessionVars>>
      PROVE  Types'
  <2>1. CASE Iso(urb[j])
    <3>1. Goto(j, "wait") /\ result' = [result EXCEPT ![j].taken = t]
      BY <1>5, <2>1 DEF Played
    <3>2. result' \in [Jobs -> Results]
      BY <3>1, ResultTypes
    <3> QED BY <1>5, <3>1, <3>2, TypesGoto
  <2>2. CASE ~Iso(urb[j])
    <3>1. Answer(j, StatusOK, t, Silence)
      BY <1>5, <2>2 DEF Played
    <3> QED BY <1>2, <1>5, <3>1, AnswerTypes
  <2> QED BY <2>1, <2>2
<1>6. CASE ServeControl(j)
  <2>1. DeviceTypes' /\ answer'.status \in {StatusOK, StatusPipe}
    BY <1>1, <1>6, ControlBuffers, ControlStatus DEF ServeControl
  <2> QED BY <1>2, <1>6, <2>1, AnswerTypes DEF ServeControl, Answer
<1>7. CASE Route(j)
  <2>1. First(urb[j]) = "playback?" => Playback(urb[j])
    BY DEF First
  <2>2. First(urb[j]) \in {"playback?", "wait", "capture?"}
    BY DEF First
  <2> QED
    BY <1>1, <1>2, <1>3, <1>7, <2>1, <2>2, AnswerTypes, TypesGoto DEF Route, AnswerReset
<1>8. CASE AskPlayback(j)
  <2>1. Playback(urb[j])
    BY <1>8 DEF AskPlayback, Types
  <2>2. CASE PlaybackActive(urb[j].endpoint)
    <3>1. Chunk(j) \in Chunks
      BY <2>1 DEF Playback, Chunk, Chunks
    <3>2. Begin(j, "write", urb[j].endpoint, Chunk(j)) /\ UNCHANGED buffer
      BY <1>8, <2>2 DEF AskPlayback, BeginWritePlayback
    <3>3. DeviceTypes'
      BY <1>1, <3>1, <3>2, CallBegins DEF Audio
    <3> QED BY <1>1, <1>8, <2>1, <2>2, <3>3, TypesGoto DEF AskPlayback
  <2>3. CASE ~PlaybackActive(urb[j].endpoint)
    BY <1>2, <1>3, <1>5, <1>8, <2>3 DEF AskPlayback
  <2> QED BY <2>2, <2>3
<1>9. CASE InDevice(j)
  <2>1. DeviceTypes'
    BY <1>1, <1>9, CallMoves DEF InDevice
  <2>2. Goto(j, pc[j]) /\ pc[j] \in {"writing", "reading"}
    BY <1>9 DEF InDevice, Goto, Types, TypeOK
  <2>3. pc[j] = "writing" => Playback(urb[j])
    BY DEF Types
  <2> QED BY <1>1, <1>9, <2>1, <2>2, <2>3, TypesGoto DEF InDevice
<1>10. CASE PlaybackWritten(j)
  <2>1. DeviceTypes' /\ call[j].moved \in 0..1
    BY <1>1, <1>10, CallReturns DEF PlaybackWritten
  <2> QED BY <1>5, <1>10, <2>1 DEF PlaybackWritten
<1>11. CASE Wait(j) \/ TimerFires(j)
  BY <1>1, <1>3, <1>4, <1>11, TypesGoto DEF Wait, TimerFires
<1>12. CASE WaitCancelled(j)
  BY <1>2, <1>3, <1>12, AnswerTypes DEF WaitCancelled, AnswerReset
<1>13. CASE AskCapture(j)
  <2>1. CASE CaptureActive(urb[j].endpoint)
    <3>1. Begin(j, "read", urb[j].endpoint, Silence) /\ UNCHANGED buffer
      BY <1>13, <2>1 DEF AskCapture, BeginReadCapture
    <3>2. DeviceTypes'
      BY <1>1, <1>2, <3>1, CallBegins
    <3> QED BY <1>1, <1>13, <2>1, <3>2, TypesGoto DEF AskCapture
  <2>2. CASE ~CaptureActive(urb[j].endpoint)
    BY <1>2, <1>3, <1>13, <2>2, AnswerTypes DEF AskCapture
  <2> QED BY <2>1, <2>2
<1>14. CASE CaptureRead(j)
  <2>1. DeviceTypes' /\ call[j].chunk \in Audio
    BY <1>1, <1>14, CallReturns DEF CaptureRead
  <2> QED BY <1>2, <1>14, <2>1, AnswerTypes DEF CaptureRead
<1> QED BY <1>6, <1>7, <1>8, <1>9, <1>10, <1>11, <1>12, <1>13, <1>14

LEMMA FramesFit ==
  ASSUME Types
  PROVE  /\ wire \in Seq(Frames)
         /\ \A f \in Frames : Append(wire, f) \in Seq(Frames)
         /\ \A j \in Started : SubmitReply(j) \in Frames
         /\ reader = "answer" => UnlinkReply \in Frames
<1>1. wire \in Seq(Frames) /\ \A f \in Frames : Append(wire, f) \in Seq(Frames)
  BY AppendProperties DEF Types, TypeOK
<1>2. ASSUME NEW j \in Started PROVE SubmitReply(j) \in Frames
  <2>1. j \in Jobs /\ urb[j].seq \in Seqs /\ result[j] \in Results
    BY StartedJob, ResultTypes, JobsFit DEF UrbState
  <2>2. /\ result[j].status \in {StatusOK, StatusPipe, StatusConnReset}
        /\ result[j].taken \in 0..1 /\ result[j].audio \in Audio /\ 0 \in 0..1 /\ Silence \in Audio
    BY <2>1, SilenceFits DEF Results
  <2> QED BY <2>1, <2>2 DEF SubmitReply, Frames, Audio
<1>3. ASSUME reader = "answer" PROVE UnlinkReply \in Frames
  <2>1. unlink.target \in Seqs /\ unlink.job \in Jobs \cup {0} /\ Silence \in Audio /\ 0 \in 0..1
    BY <1>3, SilenceFits DEF Types, TypeOK
  <2> QED BY <2>1 DEF UnlinkReply, Frames, Audio
<1> QED BY <1>1, <1>2, <1>3

LEMMA WriteTypes ==
  ASSUME Types, NEW j \in Started, WriteReply(j)
  PROVE  Types'
<1>1. PICK l \in {"finish", "done"} : Goto(j, l)
  BY DEF WriteReply
<1>2. UNCHANGED <<deviceVars, jobVars, unlink, result, cancelled, pending, hostVars, now>>
  BY DEF WriteReply
<1>3. UNCHANGED <<urb, deadline, isoNext, unlink, result, cancelled, pending, host, hungUp,
                  blocked, stopped, now, call, buffer>>
  BY <1>2 DEF jobVars, hostVars, deviceVars
<1>4. /\ pc' \in [Jobs -> Places] /\ Started' = 1..Len(urb') /\ Started' = Started
      /\ \A i \in Started' : pc'[i] \in {"playback?", "writing"} => Playback(urb'[i])
  BY <1>1, <1>3, PcTypes DEF Places
<1>5. wire' \in Seq(Frames)
  BY FramesFit DEF WriteReply
<1>6. /\ reader' \in {reader, "ready", "draining"} /\ ended' \in BOOLEAN
      /\ reader' \in {"cancel", "answer"} => reader' = reader
  BY DEF WriteReply, Leave, Types, TypeOK
<1>7. TypeOK'
  BY <1>3, <1>4, <1>5, <1>6 DEF Types, TypeOK, Places
<1> QED BY <1>3, <1>4, <1>6, <1>7 DEF Types, DeviceTypes

LEMMA FinishTypes ==
  ASSUME Types, NEW j \in Started, Finish(j)
  PROVE  Types'
<1>1. Goto(j, "done")
  BY DEF Finish
<1>2. UNCHANGED <<deviceVars, jobVars, reader, unlink, result, cancelled, wire, hostVars, ended, now>>
  BY DEF Finish
<1>3. UNCHANGED <<urb, deadline, isoNext, reader, unlink, result, cancelled, wire, host, hungUp,
                  blocked, stopped, ended, now, call, buffer>>
  BY <1>2 DEF jobVars, hostVars, deviceVars
<1>4. /\ pc' \in [Jobs -> Places] /\ Started' = 1..Len(urb') /\ Started' = Started
      /\ \A i \in Started' : pc'[i] \in {"playback?", "writing"} => Playback(urb'[i])
  BY <1>1, <1>3, PcTypes DEF Places
<1>5. pending' \in [Seqs -> Jobs \cup {0}]
  BY DEF Finish, RemovePending, Types, TypeOK
<1>6. TypeOK'
  BY <1>3, <1>4, <1>5 DEF Types, TypeOK, Places
<1> QED BY <1>3, <1>4, <1>6 DEF Types, DeviceTypes

\* A SUBMIT that has been read is one of the host's, with a number of its own.
LEMMA ArriveTypes ==
  ASSUME Types, NEW u \in host.urbs, NEW q \in NextSeqs, Arrive(u, q)
  PROVE  LET j == Len(urb) + 1
         IN /\ j \in Jobs /\ q \in Jobs /\ pc[j] = "none" /\ j \notin Started
            /\ urb' \in Seq(UrbState) /\ Len(urb') = j /\ urb'[j].seq = q
            /\ \A i \in Started : i \in 1..Len(urb) /\ urb'[i] = urb[i]
            /\ urb'[j].endpoint = u.endpoint /\ urb'[j].direction = u.direction
            /\ urb'[j].packets = u.packets
            /\ pc' = [pc EXCEPT ![j] = "start"] => Started' = Started \cup {j}
<1> DEFINE j == Len(urb) + 1
<1> DEFINE new == [seq |-> q, endpoint |-> u.endpoint, direction |-> u.direction,
                   packets |-> u.packets, setup |-> u.setup]
<1>1. /\ urb \in Seq(UrbState) /\ Len(urb) \in Nat /\ Started = 1..Len(urb)
      /\ host \in Hosts /\ pc \in [Jobs -> Places]
  BY DEF Types, TypeOK, Places
<1>2. j \in Jobs /\ j \notin Started /\ Started \subseteq Jobs
  BY <1>1, JobsFit DEF Arrive, Started
<1>3. pc[j] = "none"
  BY <1>2 DEF Started
<1>4. q \in Jobs
  BY <1>1, <1>2, JobsFit DEF NextSeqs
<1>5. new \in UrbState
  BY <1>1, <1>4, HostFits DEF UrbState
<1>6. urb' = Append(urb, new)
  BY DEF Arrive
<1>7. /\ urb' \in Seq(UrbState) /\ Len(urb') = j /\ urb'[j] = new
      /\ \A i \in 1..Len(urb) : urb'[i] = urb[i]
  <2> HIDE DEF new
  <2> QED BY <1>1, <1>5, <1>6, AppendProperties
<1>8. pc' = [pc EXCEPT ![j] = "start"] => Started' = Started \cup {j}
  BY <1>1, <1>2 DEF Started
<1> HIDE DEF j
<1> QED BY <1>1, <1>2, <1>3, <1>4, <1>7, <1>8 DEF j

\* Where the new job starts, the others are where they were.
LEMMA StartTypes ==
  ASSUME Types, NEW u \in host.urbs, NEW q \in NextSeqs, Arrive(u, q),
         pc' = [pc EXCEPT ![Len(urb) + 1] = "start"]
  PROVE  /\ pc' \in [Jobs -> Places] /\ Started' = 1..Len(urb') /\ Len(urb') <= Cardinality(Jobs)
         /\ \A i \in Started' : urb'[i].seq \in Seqs
         /\ \A i \in Started' : pc'[i] \in {"playback?", "writing"} => Playback(urb'[i])
         /\ urb' \in Seq(UrbState)
<1> DEFINE j == Len(urb) + 1
<1>1. /\ j \in Jobs /\ q \in Jobs /\ j \notin Started /\ urb' \in Seq(UrbState) /\ Len(urb') = j
      /\ urb'[j].seq = q /\ \A i \in Started : i \in 1..Len(urb) /\ urb'[i] = urb[i]
      /\ Started' = Started \cup {j}
  BY ArriveTypes
<1>2. pc \in [Jobs -> Places] /\ Started = 1..Len(urb) /\ Started \subseteq Jobs /\ Len(urb) \in Nat
  BY DEF Types, TypeOK, Places, Started
<1>3. pc' \in [Jobs -> Places] /\ pc'[j] = "start" /\ \A i \in Started : pc'[i] = pc[i]
  BY <1>1, <1>2 DEF Places
<1>4. Started' = 1..Len(urb')
  BY <1>1, <1>2
<1>5. Len(urb') <= Cardinality(Jobs)
  BY <1>1, JobsFit
<1>6. \A i \in Started' : urb'[i].seq \in Seqs
  BY <1>1, JobsFit DEF Types, TypeOK
<1>7. \A i \in Started' : pc'[i] \in {"playback?", "writing"} => Playback(urb'[i])
  BY <1>1, <1>3 DEF Types
<1> QED BY <1>1, <1>3, <1>4, <1>5, <1>6, <1>7

LEMMA InlineTypes ==
  ASSUME Types, NEW u \in host.urbs, NEW q \in NextSeqs, SubmitInline(u, q)
  PROVE  Types'
<1>1. Arrive(u, q) /\ pc' = [pc EXCEPT ![Len(urb) + 1] = "start"] /\ reader' = "busy"
  BY DEF SubmitInline, Busy
<1>2. UNCHANGED <<deadline, isoNext, unlink, result, cancelled, pending, wire, host, hungUp,
                  blocked, stopped, ended, now, call, buffer>>
  BY DEF SubmitInline, hostVars, deviceVars
<1>3. /\ pc' \in [Jobs -> Places] /\ Started' = 1..Len(urb') /\ Len(urb') <= Cardinality(Jobs)
      /\ \A i \in Started' : urb'[i].seq \in Seqs
      /\ \A i \in Started' : pc'[i] \in {"playback?", "writing"} => Playback(urb'[i])
      /\ urb' \in Seq(UrbState)
  BY <1>1, StartTypes
<1>4. TypeOK'
  BY <1>1, <1>2, <1>3 DEF Types, TypeOK, Places
<1> QED BY <1>1, <1>2, <1>3, <1>4 DEF Types, DeviceTypes

\* A reservation ends no earlier than it is made.
LEMMA DeadlineFits ==
  ASSUME NEW next \in Nat, NEW n \in Nat, NEW t \in Nat
  PROVE  Deadline(next, n, t) \in Nat /\ Deadline(next, n, t) >= t
<1>1. Duration(n) \in Nat
  BY JobsFit DEF Duration
<1> QED BY <1>1 DEF Deadline

LEMMA IsoTypes ==
  ASSUME Types, NEW u \in host.urbs, NEW q \in NextSeqs, SubmitIso(u, q)
  PROVE  Types'
<1> DEFINE j == Len(urb) + 1
           k == TimelineKey(u.endpoint, u.direction)
           t == Deadline(isoNext[k], u.packets, now)
<1>1. Arrive(u, q) /\ pc' = [pc EXCEPT ![Len(urb) + 1] = "start"] /\ reader = "ready"
  BY DEF SubmitIso, Arrive
<1>2. UNCHANGED <<reader, unlink, result, wire, host, hungUp,
                  blocked, stopped, ended, now, call, buffer>>
  BY DEF SubmitIso, hostVars, deviceVars
<1>3. /\ pc' \in [Jobs -> Places] /\ Started' = 1..Len(urb') /\ Len(urb') <= Cardinality(Jobs)
      /\ \A i \in Started' : urb'[i].seq \in Seqs
      /\ \A i \in Started' : pc'[i] \in {"playback?", "writing"} => Playback(urb'[i])
      /\ urb' \in Seq(UrbState)
  BY <1>1, StartTypes
<1>4. j \in Jobs /\ q \in Seqs
  BY <1>1, ArriveTypes, JobsFit
<1>5. t \in 0..host.time
  <2>1. host \in Hosts /\ host.time \in Nat /\ now \in Nat /\ u.packets \in Nat /\ k \in Keys
    BY HostFits DEF Types, TypeOK
  <2>2. isoNext[k] \in Nat
    BY <2>1 DEF Types, TypeOK
  <2>3. t \in Nat
    BY <2>1, <2>2, DeadlineFits
  <2>4. t <= host.time
    BY DEF SubmitIso
  <2> HIDE DEF t
  <2> QED BY <2>1, <2>3, <2>4
<1>6. /\ deadline' = [deadline EXCEPT ![j] = t] /\ isoNext' = [isoNext EXCEPT ![k] = t]
      /\ pending' = [pending EXCEPT ![q] = j]
      /\ cancelled' = [i \in Jobs |-> cancelled[i] \/ i = pending[q]]
  BY DEF SubmitIso, SetPending
<1>7. /\ deadline' \in [Jobs -> 0..host.time] /\ isoNext' \in [Keys -> 0..host.time]
      /\ pending' \in [Seqs -> Jobs \cup {0}] /\ cancelled' \in [Jobs -> BOOLEAN]
  <2> HIDE DEF t, k, j
  <2>1. deadline' \in [Jobs -> 0..host.time] /\ isoNext' \in [Keys -> 0..host.time]
    BY <1>5, <1>6 DEF Types, TypeOK
  <2>2. pending' \in [Seqs -> Jobs \cup {0}]
    BY <1>4, <1>6 DEF Types, TypeOK
  <2>3. cancelled' \in [Jobs -> BOOLEAN]
    BY <1>6
  <2> QED BY <2>1, <2>2, <2>3
<1> HIDE DEF t, k, j
<1>8. TypeOK'
  BY <1>2, <1>3, <1>7 DEF Types, TypeOK, Places
<1> QED BY <1>1, <1>2, <1>3, <1>8 DEF Types, DeviceTypes

\* The steps of the reader besides, and those of the environment.
LEMMA ReaderTypes ==
  ASSUME Types, UnlinkArrives \/ ReaderStep \/ ReadFails
  PROVE  Types'
<1>1. /\ UNCHANGED <<deviceVars, pc, result, hostVars, now, urb, deadline, isoNext, pending>>
  BY DEF UnlinkArrives, Unlink, ReaderStep, CancelTarget, AnswerUnlink, Drained, ReadFails, jobVars
<1>2. UNCHANGED <<call, buffer, pc, result, host, hungUp, blocked, stopped, now, urb, deadline,
                  isoNext, pending>>
  BY <1>1 DEF deviceVars, hostVars
<1>3. Started' = Started
  BY <1>2 DEF Started
<1>4. wire' \in Seq(Frames) /\ cancelled' \in [Jobs -> BOOLEAN] /\ ended' \in BOOLEAN
  <2>1. CASE UnlinkArrives \/ Drained \/ ReadFails
    BY <2>1, FramesFit DEF UnlinkArrives, Unlink, Drained, ReadFails, Leave, Types, TypeOK
  <2>2. CASE CancelTarget
    BY <2>2, FramesFit DEF CancelTarget, Types, TypeOK
  <2>3. CASE AnswerUnlink
    BY <2>3, FramesFit DEF AnswerUnlink, Leave, Types, TypeOK
  <2> QED BY <2>1, <2>2, <2>3 DEF ReaderStep
<1>5. /\ reader' \in {"ready", "cancel", "answer", "draining", "closed"}
      /\ unlink' \in [target : Seqs \cup {0}, job : Jobs \cup {0}]
      /\ reader' \in {"cancel", "answer"} => unlink'.target \in Seqs
      /\ reader' = "cancel" => unlink'.job \in Jobs
  <2>1. CASE UnlinkArrives
    <3>1. PICK i \in 1..Len(urb) : Unlink(urb[i].seq)
      BY <2>1 DEF UnlinkArrives
    <3>2. urb[i].seq \in Seqs
      BY DEF Types, TypeOK
    <3>3. pending[urb[i].seq] \in Jobs \cup {0}
      BY <3>2 DEF Types, TypeOK
    <3> QED BY <3>1, <3>2, <3>3 DEF Unlink
  <2>2. CASE CancelTarget
    BY <2>2 DEF CancelTarget, Types, TypeOK
  <2>3. CASE AnswerUnlink
    BY <2>3 DEF AnswerUnlink, Leave, NoUnlink
  <2>4. CASE Drained \/ ReadFails
    BY <2>4 DEF Drained, ReadFails, Leave, Types, TypeOK
  <2> QED BY <2>1, <2>2, <2>3, <2>4 DEF ReaderStep
<1>6. TypeOK'
  BY <1>2, <1>3, <1>4, <1>5 DEF Types, TypeOK
<1> QED BY <1>2, <1>3, <1>5, <1>6 DEF Types, DeviceTypes

LEMMA EnvironmentTypes ==
  ASSUME Types, HangUp \/ StopReading \/ StopServer \/ Tick \/ AtRest \/ UNCHANGED vars
  PROVE  Types'
<1>1. UNCHANGED <<call, buffer, pc, result, host, urb, deadline, isoNext, pending, cancelled,
                  reader, unlink, wire, ended>>
  BY DEF HangUp, StopReading, StopServer, Tick, AtRest, vars, environmentOf, jobVars, hostVars,
     deviceVars
<1>2. Started' = Started
  BY <1>1 DEF Started
<1>3. /\ hungUp' \in BOOLEAN /\ blocked' \in BOOLEAN /\ stopped' \in BOOLEAN
      /\ now' \in 0..host.time
  <2>1. host.time \in Nat
    BY HostFits DEF Types, TypeOK
  <2>2. hungUp \in BOOLEAN /\ blocked \in BOOLEAN /\ stopped \in BOOLEAN /\ now \in 0..host.time
    BY DEF Types, TypeOK
  <2>3. CASE HangUp \/ StopServer
    BY <2>2, <2>3 DEF HangUp, StopServer
  <2>4. CASE StopReading
    BY <2>2, <2>4 DEF StopReading
  <2>5. CASE Tick
    BY <2>1, <2>2, <2>5 DEF Tick, hostVars
  <2>6. CASE AtRest \/ UNCHANGED vars
    BY <2>2, <2>6, <1>1 DEF AtRest, vars, hostVars
  <2> QED BY <2>3, <2>4, <2>5, <2>6
<1>4. TypeOK'
  BY <1>1, <1>2, <1>3 DEF Types, TypeOK
<1> QED BY <1>1, <1>2, <1>4 DEF Types, DeviceTypes

LEMMA InitTypes ==
  ASSUME Init
  PROVE  Types
<1>1. host \in Hosts /\ host.time \in Nat
  BY HostFits DEF Init
<1>2. Started = {} /\ urb = <<>>
  BY DEF Init, InitSession, Started
<1>3. DeviceTypes
  BY SilenceFits DEF Init, DeviceTypes, Idle
<1>4. result \in [Jobs -> Results]
  BY SilenceFits DEF Init, InitSession
<1>5. TypeOK
  <2>1. Len(urb) = 0 /\ 1..0 = {} /\ Cardinality(Jobs) \in Nat /\ wire \in Seq(Frames)
    BY <1>2, JobsFit DEF Init, InitSession
  <2>2. 0 \in 0..host.time /\ NoUnlink \in [target : Seqs \cup {0}, job : Jobs \cup {0}]
    BY <1>1 DEF NoUnlink
  <2>3. result \in [Jobs -> [status : {StatusOK, StatusPipe, StatusConnReset}, taken : 0..1,
                             audio : Chunks \cup {Silence}]]
    BY <1>4 DEF Results, Audio
  <2>4. /\ pc = [j \in Jobs |-> "none"] /\ deadline = [j \in Jobs |-> 0]
        /\ cancelled = [j \in Jobs |-> FALSE] /\ pending = [q \in Seqs |-> 0]
        /\ isoNext = [k \in Keys |-> 0] /\ reader = "ready" /\ unlink = NoUnlink
        /\ hungUp = FALSE /\ blocked = FALSE /\ stopped = FALSE /\ ended = FALSE /\ now = 0
    BY DEF Init, InitSession
  <2>5. /\ deadline \in [Jobs -> 0..host.time] /\ isoNext \in [Keys -> 0..host.time]
        /\ cancelled \in [Jobs -> BOOLEAN] /\ pending \in [Seqs -> Jobs \cup {0}]
    BY <2>2, <2>4
  <2>6. Started = 1..Len(urb) /\ Len(urb) <= Cardinality(Jobs) /\ \A j \in Started : urb[j].seq \in Seqs
    BY <1>2, <2>1
  <2> HIDE DEF Started
  <2> QED BY <1>1, <2>1, <2>2, <2>3, <2>4, <2>5, <2>6 DEF TypeOK
<1> QED BY <1>2, <1>3, <1>5 DEF Types, Init, InitSession

LEMMA JobStarted ==
  ASSUME NEW j \in Jobs, JobStep(j)
  PROVE  j \in Started
BY DEF JobStep, ServeControl, Route, AskPlayback, InDevice, PlaybackWritten, Wait, TimerFires,
   WaitCancelled, AskCapture, CaptureRead, WriteReply, Finish, Started

LEMMA NextTypes ==
  ASSUME Types, [Next]_vars
  PROVE  Types'
<1>1. CASE Submit
  BY <1>1, InlineTypes, IsoTypes DEF Submit
<1>2. CASE \E j \in Jobs : JobStep(j)
  <2>1. PICK j \in Jobs : JobStep(j)
    BY <1>2
  <2>2. j \in Started
    BY <2>1, JobStarted
  <2> QED BY <2>1, <2>2, ServeTypes, WriteTypes, FinishTypes DEF JobStep
<1> QED BY <1>1, <1>2, ReaderTypes, EnvironmentTypes DEF Next

\* Every variable of a session keeps its type, whatever the host sends and however
\* its goroutines interleave; a WritePlayback is under way for playback URBs only,
\* and an UNLINK is served for a number the host has used.
THEOREM SessionTyped == Spec => []Types
BY InitTypes, NextTypes, PTL DEF Spec

-----------------------------------------------------------------------------
(* What a step of a job changes.                                             *)

\* A job that has recorded, or has completed its URB.
Reached(j) == \/ pc[j] \in {"capture?", "reading"}
              \/ pc[j] \in {"reply", "finish", "done"} /\ result[j].status = StatusOK

Serves(j) == \/ ServeControl(j) \/ Route(j) \/ AskPlayback(j) \/ InDevice(j) \/ PlaybackWritten(j)
             \/ Wait(j) \/ TimerFires(j) \/ WaitCancelled(j) \/ AskCapture(j) \/ CaptureRead(j)

LEMMA AnswerEffect ==
  ASSUME Types, NEW j \in Started, NEW s, NEW t, NEW a, Answer(j, s, t, a)
  PROVE  /\ Goto(j, "reply") /\ result'[j].status = s
         /\ \A i \in Jobs \ {j} : result'[i] = result[i]
<1>1. result \in [Jobs -> Results] /\ j \in Jobs
  BY ResultTypes, StartedJob
<1> QED BY <1>1 DEF Answer

\* On its way to the answer a job goes through Reached only in its time.
LEMMA ServeEffect ==
  ASSUME Types, NEW j \in Started, Serves(j)
  PROVE  /\ UNCHANGED <<jobVars, sessionVars>>
         /\ \E l \in Places \ {"none", "finish", "done"} :
              /\ Goto(j, l)
              /\ ~Inline(urb[j]) /\ Reached(j)' => Reached(j) \/ now >= deadline[j]
         /\ \A i \in Jobs \ {j} : result'[i] = result[i]
         /\ pc[j] \notin {"reply", "finish", "done"}
<1> DEFINE Inner == Places \ {"none", "finish", "done"}
<1> DEFINE Good == /\ \E l \in Inner :
                        /\ Goto(j, l)
                        /\ ~Inline(urb[j]) /\ Reached(j)' => Reached(j) \/ now >= deadline[j]
                   /\ \A i \in Jobs \ {j} : result'[i] = result[i]
<1>1. /\ result \in [Jobs -> Results] /\ j \in Jobs /\ pc \in [Jobs -> Places]
      /\ urb[j].endpoint \in Nat
  BY ResultTypes, StartedJob DEF Types, TypeOK, Places, UrbState
<1>2. \A l : Goto(j, l) => pc'[j] = l
  BY <1>1 DEF Goto
<1>3. /\ {"start", "playback?", "writing", "wait", "waiting", "capture?", "reading", "reply"}
           \subseteq Inner
      /\ "reply" # "capture?" /\ "reply" # "reading"
  BY DEF Places
<1>4. ASSUME NEW s \in {StatusPipe, StatusConnReset}, NEW t, NEW a, Answer(j, s, t, a) PROVE Good
  <2>1. pc'[j] = "reply" /\ result'[j].status # StatusOK /\ Goto(j, "reply")
        /\ \A i \in Jobs \ {j} : result'[i] = result[i]
    BY <1>2, <1>4, AnswerEffect DEF StatusOK, StatusPipe, StatusConnReset
  <2> QED BY <1>3, <2>1 DEF Reached
<1>5. ASSUME NEW s, NEW t, NEW a, Answer(j, s, t, a),
             Inline(urb[j]) \/ Reached(j) \/ now >= deadline[j]
      PROVE  Good
  <2>1. Goto(j, "reply") /\ \A i \in Jobs \ {j} : result'[i] = result[i]
    BY <1>5, AnswerEffect
  <2> QED BY <1>3, <1>5, <2>1
<1>6. ASSUME NEW l \in {"playback?", "writing", "wait", "waiting"}, Goto(j, l),
             \A i \in Jobs \ {j} : result'[i] = result[i]
      PROVE  Good
  <2>1. ~Reached(j)'
    BY <1>2, <1>6 DEF Reached
  <2> QED BY <1>3, <1>6, <2>1
<1>7. ASSUME NEW l \in {"capture?", "reading"}, Goto(j, l), UNCHANGED result,
             Inline(urb[j]) \/ Reached(j) \/ now >= deadline[j]
      PROVE  Good
  BY <1>3, <1>7
<1>8. ASSUME NEW t, Played(j, t) PROVE Good
  <2>1. CASE Iso(urb[j])
    <3>1. Goto(j, "wait") /\ \A i \in Jobs \ {j} : result'[i] = result[i]
      BY <1>1, <1>8, <2>1 DEF Played
    <3> QED BY <1>6, <3>1
  <2>2. CASE ~Iso(urb[j])
    BY <1>5, <1>8, <2>2 DEF Played, Inline
  <2> QED BY <2>1, <2>2
<1>9. ASSUME Completed(j), now >= deadline[j] PROVE Good
  BY <1>5, <1>7, <1>9 DEF Completed
<1>10. ASSUME ServeControl(j) PROVE Good
  BY <1>5, <1>10 DEF ServeControl, Answer, Inline
<1>11. ASSUME Route(j) PROVE Good
  <2>1. CASE Goto(j, First(urb[j])) /\ UNCHANGED result
    <3>1. First(urb[j]) \in {"playback?", "wait"} \/ Inline(urb[j])
      BY DEF First, Inline
    <3>2. First(urb[j]) \in {"playback?", "wait", "capture?"}
      BY DEF First
    <3>3. PICK l \in {"playback?", "wait", "capture?"} :
            Goto(j, l) /\ (l \in {"playback?", "wait"} \/ Inline(urb[j]))
      BY <2>1, <3>1, <3>2
    <3>4. \A i \in Jobs \ {j} : result'[i] = result[i]
      BY <2>1
    <3> HIDE DEF Good
    <3> QED BY <1>6, <1>7, <2>1, <3>3, <3>4
  <2> QED BY <1>4, <1>11, <2>1 DEF Route, AnswerReset
<1>12. ASSUME AskPlayback(j) PROVE Good
  BY <1>6, <1>8, <1>12 DEF AskPlayback
<1>13. ASSUME InDevice(j) PROVE Good
  <2>1. pc' = pc /\ result' = result /\ pc[j] \in {"writing", "reading"}
    BY <1>13 DEF InDevice
  <2>2. Goto(j, pc[j])
    BY <1>1, <2>1 DEF Goto
  <2>3. CASE pc[j] = "writing"
    BY <1>6, <2>1, <2>2, <2>3
  <2>4. CASE pc[j] = "reading"
    <3>1. Reached(j)
      BY <2>4 DEF Reached
    <3> QED BY <1>7, <2>1, <2>2, <2>4, <3>1
  <2> QED BY <2>1, <2>3, <2>4
<1>14. ASSUME PlaybackWritten(j) PROVE Good
  BY <1>8, <1>14 DEF PlaybackWritten
<1>15. ASSUME Wait(j) PROVE Good
  BY <1>6, <1>9, <1>15 DEF Wait
<1>16. ASSUME TimerFires(j) PROVE Good
  BY <1>9, <1>16 DEF TimerFires
<1>17. ASSUME WaitCancelled(j) PROVE Good
  BY <1>4, <1>17 DEF WaitCancelled, AnswerReset
<1>18. ASSUME AskCapture(j) PROVE Good
  <2>1. Reached(j)
    BY <1>18 DEF AskCapture, Reached
  <2> QED BY <1>5, <1>7, <1>18, <2>1 DEF AskCapture
<1>19. ASSUME CaptureRead(j) PROVE Good
  <2>1. Reached(j)
    BY <1>19 DEF CaptureRead, Reached
  <2> QED BY <1>5, <1>19, <2>1 DEF CaptureRead
<1>20. Good
  BY <1>10, <1>11, <1>12, <1>13, <1>14, <1>15, <1>16, <1>17, <1>18, <1>19 DEF Serves
<1>21. UNCHANGED <<jobVars, sessionVars>> /\ pc[j] \notin {"reply", "finish", "done"}
  BY DEF Serves, ServeControl, Route, AskPlayback, InDevice, PlaybackWritten, Wait, TimerFires,
     WaitCancelled, AskCapture, CaptureRead
<1> QED BY <1>20, <1>21

LEMMA JobMoves ==
  ASSUME Types, NEW j \in Started, NEW l \in Places \ {"none"}, Goto(j, l), urb' = urb
  PROVE  /\ Started' = Started /\ Async' = Async /\ j \in Jobs /\ pc'[j] = l
         /\ \A i \in Jobs \ {j} : pc'[i] = pc[i]
         /\ Started \subseteq Jobs /\ Async \subseteq Started
<1>1. pc \in [Jobs -> Places] /\ j \in Jobs /\ pc[j] # "none"
  BY StartedJob DEF Types, TypeOK, Places
<1>2. pc'[j] = l /\ \A i \in Jobs \ {j} : pc'[i] = pc[i]
  BY <1>1 DEF Goto
<1>3. Started' = Started
  BY <1>1, <1>2 DEF Started
<1> QED BY <1>1, <1>2, <1>3 DEF Started, Async

LEMMA ServeFacts ==
  ASSUME Types, NEW j \in Started, Serves(j)
  PROVE  /\ Started' = Started /\ Async' = Async /\ j \in Jobs
         /\ pc'[j] \notin {"none", "finish", "done"} /\ pc[j] \notin {"reply", "finish", "done"}
         /\ \A i \in Jobs \ {j} : pc'[i] = pc[i] /\ result'[i] = result[i]
         /\ ~Inline(urb[j]) /\ Reached(j)' => Reached(j) \/ now >= deadline[j]
         /\ UNCHANGED <<urb, deadline, isoNext, reader, unlink, cancelled, pending, wire, host,
                        hungUp, ended, now>>
<1>1. UNCHANGED <<urb, deadline, isoNext, reader, unlink, cancelled, pending, wire, host,
                  hungUp, ended, now>>
  BY ServeEffect DEF jobVars, sessionVars, hostVars
<1>2. PICK l \in Places \ {"none", "finish", "done"} :
        Goto(j, l) /\ (~Inline(urb[j]) /\ Reached(j)' => Reached(j) \/ now >= deadline[j])
  BY ServeEffect
<1>3. /\ \A i \in Jobs \ {j} : result'[i] = result[i]
      /\ pc[j] \notin {"reply", "finish", "done"}
  BY ServeEffect
<1>4. /\ Started' = Started /\ Async' = Async /\ j \in Jobs /\ pc'[j] = l
      /\ \A i \in Jobs \ {j} : pc'[i] = pc[i]
  BY <1>1, <1>2, JobMoves
<1> QED BY <1>1, <1>2, <1>3, <1>4

LEMMA WriteFacts ==
  ASSUME Types, NEW j \in Started, WriteReply(j)
  PROVE  /\ Started' = Started /\ Async' = Async /\ j \in Jobs /\ pc[j] = "reply"
         /\ pc'[j] = IF Inline(urb[j]) THEN "done" ELSE "finish"
         /\ \A i \in Jobs \ {j} : pc'[i] = pc[i]
         /\ UNCHANGED <<urb, deadline, isoNext, unlink, result, cancelled, pending, host, hungUp,
                        now, call>>
         /\ wire' = IF hungUp THEN wire ELSE Append(wire, SubmitReply(j))
         /\ Inline(urb[j]) => reader' \in {"ready", "draining"}
         /\ ~Inline(urb[j]) => reader' = reader
<1>1. UNCHANGED <<urb, deadline, isoNext, unlink, result, cancelled, pending, host, hungUp, now, call>>
  BY DEF WriteReply, jobVars, hostVars, deviceVars
<1>2. PICK l \in Places \ {"none"} : Goto(j, l) /\ l = IF Inline(urb[j]) THEN "done" ELSE "finish"
  BY DEF WriteReply, Places
<1>3. /\ Started' = Started /\ Async' = Async /\ j \in Jobs /\ pc'[j] = l
      /\ \A i \in Jobs \ {j} : pc'[i] = pc[i]
  BY <1>1, <1>2, JobMoves
<1> QED BY <1>1, <1>2, <1>3 DEF WriteReply, Leave

LEMMA FinishFacts ==
  ASSUME Types, NEW j \in Started, Finish(j)
  PROVE  /\ Started' = Started /\ Async' = Async /\ j \in Jobs /\ pc[j] = "finish" /\ pc'[j] = "done"
         /\ \A i \in Jobs \ {j} : pc'[i] = pc[i]
         /\ UNCHANGED <<urb, deadline, isoNext, reader, unlink, result, cancelled, wire, host,
                        hungUp, ended, now, call>>
         /\ urb[j].seq \in Seqs /\ pending'[urb[j].seq] = 0
         /\ \A q \in Seqs \ {urb[j].seq} : pending'[q] = pending[q]
<1>1. UNCHANGED <<urb, deadline, isoNext, reader, unlink, result, cancelled, wire, host, hungUp,
                  ended, now, call>>
  BY DEF Finish, jobVars, hostVars, deviceVars
<1>2. Goto(j, "done") /\ "done" \in Places \ {"none"} /\ pc[j] = "finish"
  BY DEF Finish, Places
<1>3. /\ Started' = Started /\ Async' = Async /\ j \in Jobs /\ pc'[j] = "done"
      /\ \A i \in Jobs \ {j} : pc'[i] = pc[i]
  BY <1>1, <1>2, JobMoves
<1>4. pending \in [Seqs -> Jobs \cup {0}] /\ urb[j].seq \in Seqs
  BY DEF Types, TypeOK
<1>5. pending' = [pending EXCEPT ![urb[j].seq] = 0]
  BY DEF Finish, RemovePending
<1> QED BY <1>1, <1>2, <1>3, <1>4, <1>5

\* The reader takes a SUBMIT: job j starts, and displaces the holder of its number.
LEMMA SubmitFacts ==
  ASSUME Types, NEW u \in host.urbs, NEW q \in NextSeqs, SubmitInline(u, q) \/ SubmitIso(u, q)
  PROVE  LET j == Len(urb) + 1
         IN /\ j \in Jobs /\ q \in Seqs /\ j \notin Started /\ pc'[j] = "start"
            /\ Started' = Started \cup {j} /\ Started \subseteq 1..Len(urb) /\ Len(urb') = j
            /\ Len(urb) \in Nat
            /\ urb'[j].seq = q
            /\ \A i \in Started : urb'[i] = urb[i] /\ pc'[i] = pc[i] /\ i < j
            /\ \A i \in Jobs \ {j} : deadline'[i] = deadline[i]
            /\ reader = "ready"
            /\ UNCHANGED <<unlink, result, wire, host, hungUp, ended, now, call>>
            /\ \/ /\ Inline(urb'[j]) /\ reader' = "busy"
                  /\ Async' = Async /\ UNCHANGED <<cancelled, pending, deadline>>
               \/ /\ ~Inline(urb'[j]) /\ reader' = reader /\ Async' = Async \cup {j}
                  /\ pending'[q] = j /\ \A p \in Seqs \ {q} : pending'[p] = pending[p]
                  /\ \A i \in Jobs : cancelled'[i] <=> cancelled[i] \/ i = pending[q]
<1> DEFINE j == Len(urb) + 1
<1>1. Arrive(u, q) /\ pc' = [pc EXCEPT ![j] = "start"] /\ reader = "ready"
  BY DEF SubmitInline, SubmitIso, Arrive
<1>2. UNCHANGED <<unlink, result, wire, host, hungUp, ended, now, call>>
  BY DEF SubmitInline, SubmitIso, hostVars, deviceVars
<1>3. /\ j \in Jobs /\ q \in Jobs /\ j \notin Started /\ Len(urb') = j /\ urb'[j].seq = q
      /\ \A i \in Started : i \in 1..Len(urb) /\ urb'[i] = urb[i]
      /\ urb'[j].endpoint = u.endpoint /\ urb'[j].direction = u.direction
      /\ urb'[j].packets = u.packets
      /\ Started' = Started \cup {j}
  BY <1>1, ArriveTypes
<1>4. pc \in [Jobs -> Places] /\ Started \subseteq Jobs /\ Len(urb) \in Nat
  BY DEF Types, TypeOK, Places, Started
<1>5. \A i \in Started : pc'[i] = pc[i] /\ i < j
  BY <1>1, <1>3, <1>4
<1>6. pc'[j] = "start"
  BY <1>1, <1>3, <1>4
<1>7. Inline(urb'[j]) <=> Inline(u)
  BY <1>3 DEF Inline, Iso
<1>8. /\ \A i \in Jobs \ {j} : deadline'[i] = deadline[i]
      /\ pending \in [Seqs -> Jobs \cup {0}] /\ q \in Seqs
  BY <1>3, JobsFit DEF SubmitInline, SubmitIso, Types, TypeOK
<1>9. CASE SubmitInline(u, q)
  <2>1. Inline(urb'[j]) /\ reader' = "busy" /\ UNCHANGED <<cancelled, pending, deadline>>
    BY <1>7, <1>9 DEF SubmitInline, Busy
  <2>2. Async' = Async
    BY <1>3, <2>1 DEF Async
  <2> HIDE DEF j
  <2> QED BY <1>1, <1>2, <1>3, <1>4, <1>5, <1>6, <1>8, <2>1, <2>2 DEF j
<1>10. CASE SubmitIso(u, q)
  <2>1. /\ ~Inline(urb'[j]) /\ reader' = reader /\ pending' = [pending EXCEPT ![q] = j]
        /\ cancelled' = [i \in Jobs |-> cancelled[i] \/ i = pending[q]]
    BY <1>7, <1>10 DEF SubmitIso, SetPending
  <2>2. Async' = Async \cup {j}
    BY <1>3, <2>1 DEF Async
  <2>3. pending'[q] = j /\ \A p \in Seqs \ {q} : pending'[p] = pending[p]
    BY <1>8, <2>1
  <2>4. \A i \in Jobs : cancelled'[i] <=> cancelled[i] \/ i = pending[q]
    BY <2>1
  <2> HIDE DEF j
  <2> QED BY <1>1, <1>2, <1>3, <1>4, <1>5, <1>6, <1>8, <2>1, <2>2, <2>3, <2>4 DEF j
<1> QED BY <1>9, <1>10

\* Whatever the reader and the environment do besides leaves the jobs alone.
LEMMA OtherFacts ==
  ASSUME Types, \/ UnlinkArrives \/ ReaderStep \/ ReadFails
                \/ HangUp \/ StopReading \/ StopServer \/ Tick \/ AtRest \/ UNCHANGED vars
  PROVE  /\ UNCHANGED <<urb, pc, result, deadline, pending, host, call>>
         /\ Started' = Started /\ Async' = Async /\ Started \subseteq Jobs
         /\ now' >= now
         /\ \A j \in Jobs : cancelled[j] => cancelled'[j]
         /\ reader' = reader \/ reader \in {"ready", "cancel", "answer", "draining"}
         /\ hungUp => hungUp'
<1>1. UNCHANGED <<urb, pc, result, deadline, pending, host, call>>
  BY DEF UnlinkArrives, Unlink, ReaderStep, CancelTarget, AnswerUnlink, Drained, ReadFails, HangUp,
     StopReading, StopServer, Tick, AtRest, vars, environmentOf, jobVars, hostVars, deviceVars
<1>2. Started' = Started /\ Async' = Async /\ Started \subseteq Jobs
  BY <1>1 DEF Started, Async
<1>3. /\ now' >= now
  <2>1. now \in Nat
    <3>1. now \in 0..host.time /\ host.time \in Nat
      BY HostFits DEF Types, TypeOK
    <3> QED BY <3>1
  <2>2. CASE Tick
    BY <2>1, <2>2 DEF Tick
  <2>3. CASE ~Tick
    <3>1. now' = now
      BY <2>3 DEF UnlinkArrives, Unlink, ReaderStep, CancelTarget, AnswerUnlink, Drained, ReadFails,
         HangUp, StopReading, StopServer, AtRest, vars
    <3> QED BY <2>1, <3>1
  <2> QED BY <2>2, <2>3
<1>4. \A j \in Jobs : cancelled[j] => cancelled'[j]
  <2>1. CASE CancelTarget
    BY <2>1 DEF CancelTarget, Types, TypeOK
  <2>2. CASE ~CancelTarget
    <3>1. UNCHANGED cancelled
      BY <2>2 DEF UnlinkArrives, Unlink, ReaderStep, AnswerUnlink, Drained, ReadFails, HangUp,
         StopReading, StopServer, Tick, AtRest, vars, environmentOf
    <3> QED BY <3>1
  <2> QED BY <2>1, <2>2
<1>5. reader' = reader \/ reader \in {"ready", "cancel", "answer", "draining"}
  BY DEF UnlinkArrives, Unlink, ReaderStep, CancelTarget, AnswerUnlink, Drained, ReadFails, HangUp,
     StopReading, StopServer, Tick, AtRest, vars, environmentOf
<1>6. hungUp => hungUp'
  BY DEF UnlinkArrives, Unlink, ReaderStep, CancelTarget, AnswerUnlink, Drained, ReadFails, HangUp,
     StopReading, StopServer, Tick, AtRest, vars, hostVars
<1> QED BY <1>1, <1>2, <1>3, <1>4, <1>5, <1>6

\* The steps of a session, by what they do to its jobs.
Other == \/ UnlinkArrives \/ ReaderStep \/ ReadFails
         \/ HangUp \/ StopReading \/ StopServer \/ Tick \/ AtRest \/ UNCHANGED vars

LEMMA Steps ==
  ASSUME [Next]_vars
  PROVE  \/ \E u \in host.urbs, q \in NextSeqs : SubmitInline(u, q) \/ SubmitIso(u, q)
         \/ \E j \in Started : Serves(j)
         \/ \E j \in Started : WriteReply(j)
         \/ \E j \in Started : Finish(j)
         \/ Other
<1>1. CASE Submit
  BY <1>1 DEF Submit
<1>2. CASE \E j \in Jobs : JobStep(j)
  <2>1. PICK j \in Jobs : JobStep(j)
    BY <1>2
  <2>2. j \in Started
    BY <2>1, JobStarted
  <2> QED BY <2>1, <2>2 DEF JobStep, Serves
<1> QED BY <1>1, <1>2 DEF Next, Other

-----------------------------------------------------------------------------
(* The pending table.                                                        *)

\* A stored cancel function belongs to the youngest job with its number.
Youngest == \A q \in Seqs : pending[q] # 0 => \A i \in Async : urb[i].seq = q => i <= pending[q]

\* The reader is inside the inline job, which is the last it has read.
InlineServed == \A j \in Started : Inline(urb[j]) /\ pc[j] # "done" =>
                  reader = "busy" /\ j = Len(urb)

\* Work that is over leaves no call in the device, and no work is left at the end.
CallsOwned == \A w \in Workers : call[w] # Idle => w \in Started /\ pc[w] \in {"writing", "reading"}
DrainedFirst == reader = "closed" => AllDone

\* Only an isochronous job has an entry to remove.
AsyncFinishes == \A j \in Started : pc[j] = "finish" => j \in Async

IInv ==
  /\ AsyncFinishes /\ PendingIsLive /\ Youngest /\ InFlightIsUnlinkable /\ NeverEarly
  /\ InlineServed /\ CallsOwned /\ DrainedFirst

LEMMA AsyncJobs ==
  ASSUME Types
  PROVE  /\ Async \subseteq Started /\ Started \subseteq Jobs /\ Jobs \subseteq Nat \ {0}
         /\ \A j \in Started : urb[j].seq \in Seqs
         /\ pending \in [Seqs -> Jobs \cup {0}] /\ Workers = Jobs /\ cancelled \in [Jobs -> BOOLEAN]
BY JobsFit DEF Types, TypeOK, Async, Started

LEMMA FinishStep ==
  ASSUME Types, AsyncFinishes, [Next]_vars
  PROVE  AsyncFinishes'
<1> USE AsyncJobs
<1>1. ASSUME NEW u \in host.urbs, NEW q \in NextSeqs, SubmitInline(u, q) \/ SubmitIso(u, q)
      PROVE  AsyncFinishes'
  <2> DEFINE j == Len(urb) + 1
  <2>1. /\ pc'[j] = "start" /\ Started' = Started \cup {j} /\ Async \subseteq Async'
        /\ \A i \in Started : pc'[i] = pc[i]
    BY <1>1, SubmitFacts
  <2> HIDE DEF j
  <2> QED BY <2>1 DEF AsyncFinishes
<1>2. ASSUME NEW j \in Started, Serves(j) \/ Finish(j) PROVE AsyncFinishes'
  BY <1>2, ServeFacts, FinishFacts DEF AsyncFinishes
<1>3. ASSUME NEW j \in Started, WriteReply(j) PROVE AsyncFinishes'
  <2>1. pc'[j] = "finish" => j \in Async
    BY <1>3, WriteFacts DEF Async
  <2> QED BY <1>3, <2>1, WriteFacts DEF AsyncFinishes
<1>4. ASSUME Other PROVE AsyncFinishes'
  BY <1>4, OtherFacts DEF Other, AsyncFinishes
<1> QED BY <1>1, <1>2, <1>3, <1>4, Steps

LEMMA LiveStep ==
  ASSUME Types, PendingIsLive, [Next]_vars
  PROVE  PendingIsLive'
<1> USE AsyncJobs
<1>1. ASSUME NEW u \in host.urbs, NEW q \in NextSeqs, SubmitInline(u, q) \/ SubmitIso(u, q)
      PROVE  PendingIsLive'
  <2> DEFINE j == Len(urb) + 1
  <2>1. /\ j \in Jobs /\ j \notin Started /\ pc'[j] = "start" /\ urb'[j].seq = q
        /\ \A i \in Started : urb'[i] = urb[i] /\ pc'[i] = pc[i]
        /\ \/ Async' = Async /\ UNCHANGED pending
           \/ /\ Async' = Async \cup {j} /\ pending'[q] = j
              /\ \A p \in Seqs \ {q} : pending'[p] = pending[p]
    BY <1>1, SubmitFacts
  <2> HIDE DEF j
  <2> QED BY <2>1 DEF PendingIsLive, Seqs
<1>2. ASSUME NEW j \in Started, Serves(j) PROVE PendingIsLive'
  BY <1>2, ServeFacts DEF PendingIsLive, Seqs
<1>3. ASSUME NEW j \in Started, WriteReply(j) PROVE PendingIsLive'
  <2>1. ~Inline(urb[j]) => pc'[j] # "done"
    BY <1>3, WriteFacts
  <2>2. j \in Async => ~Inline(urb[j])
    BY DEF Async
  <2> QED BY <1>3, <2>1, <2>2, WriteFacts DEF PendingIsLive, Seqs
<1>4. ASSUME NEW j \in Started, Finish(j) PROVE PendingIsLive'
  BY <1>4, FinishFacts DEF PendingIsLive, Seqs
<1>5. ASSUME Other PROVE PendingIsLive'
  BY <1>5, OtherFacts DEF Other, PendingIsLive, Seqs
<1> QED BY <1>1, <1>2, <1>3, <1>4, <1>5, Steps

LEMMA YoungestStep ==
  ASSUME Types, Youngest, [Next]_vars
  PROVE  Youngest'
<1> USE AsyncJobs
<1>1. ASSUME NEW u \in host.urbs, NEW q \in NextSeqs, SubmitInline(u, q) \/ SubmitIso(u, q)
      PROVE  Youngest'
  <2> DEFINE j == Len(urb) + 1
  <2>1. /\ j \in Jobs /\ j \notin Started /\ urb'[j].seq = q
        /\ \A i \in Started : urb'[i] = urb[i] /\ i < j
        /\ \/ Async' = Async /\ UNCHANGED pending
           \/ /\ Async' = Async \cup {j} /\ pending'[q] = j
              /\ \A p \in Seqs \ {q} : pending'[p] = pending[p]
    BY <1>1, SubmitFacts
  <2> HIDE DEF j
  <2> QED BY <2>1 DEF Youngest, Seqs
<1>2. ASSUME NEW j \in Started, Serves(j) PROVE Youngest'
  BY <1>2, ServeFacts DEF Youngest, Seqs
<1>3. ASSUME NEW j \in Started, WriteReply(j) PROVE Youngest'
  BY <1>3, WriteFacts DEF Youngest, Seqs
<1>4. ASSUME NEW j \in Started, Finish(j) PROVE Youngest'
  BY <1>4, FinishFacts DEF Youngest, Seqs
<1>5. ASSUME Other PROVE Youngest'
  BY <1>5, OtherFacts DEF Other, Youngest, Seqs
<1> QED BY <1>1, <1>2, <1>3, <1>4, <1>5, Steps

\* Why job j cannot be found, if it cannot: job i.
Displaces(i, j) == /\ urb[i].seq = urb[j].seq /\ (i < j => pc[i] = "done")
                   /\ (i > j => cancelled[j])

LEMMA UnlinkableStep ==
  ASSUME Types, AsyncFinishes, PendingIsLive, Youngest, InFlightIsUnlinkable, [Next]_vars
  PROVE  InFlightIsUnlinkable'
<1> USE AsyncJobs
<1> DEFINE Found(j) == pending[urb[j].seq] = j \/ \E i \in Async \ {j} : Displaces(i, j)
<1>1. \A j \in Async : pc[j] \notin {"finish", "done"} => Found(j)
  BY DEF InFlightIsUnlinkable, Displaces
<1>2. SUFFICES \A j \in Async' : pc'[j] \notin {"finish", "done"} => Found(j)'
  BY DEF InFlightIsUnlinkable, Displaces
<1>3. ASSUME NEW u \in host.urbs, NEW q \in NextSeqs, SubmitInline(u, q) \/ SubmitIso(u, q),
             NEW j \in Async', pc'[j] \notin {"finish", "done"}
      PROVE  Found(j)'
  <2>0. PICK n \in Jobs : n = Len(urb) + 1
    BY <1>3, SubmitFacts
  <2>1. /\ n \in Jobs /\ n \notin Started /\ urb'[n].seq = q /\ q \in Seqs
        /\ \A i \in Started : urb'[i] = urb[i] /\ pc'[i] = pc[i] /\ i < n
        /\ \/ Async' = Async /\ UNCHANGED <<cancelled, pending>>
           \/ /\ Async' = Async \cup {n} /\ pending'[q] = n
              /\ \A p \in Seqs \ {q} : pending'[p] = pending[p]
              /\ \A i \in Jobs : cancelled'[i] <=> cancelled[i] \/ i = pending[q]
    BY <1>3, <2>0, SubmitFacts
  <2>2. CASE j \notin Async
    <3>1. j = n /\ pending'[urb'[j].seq] = j
      BY <2>1, <2>2
    <3> QED BY <3>1
  <2>3. CASE j \in Async
    <3>1. j \in Started /\ j \in Jobs /\ Found(j)
      BY <1>1, <1>3, <2>1, <2>3
    <3>2. ASSUME NEW i \in Async \ {j}, Displaces(i, j) PROVE Found(j)'
      <4>1. i \in Async' \ {j} /\ i \in Started /\ (cancelled[j] => cancelled'[j])
        BY <2>1, <3>1, <3>2
      <4>2. Displaces(i, j)'
        BY <2>1, <3>1, <3>2, <4>1 DEF Displaces
      <4> QED BY <4>1, <4>2
    <3>3. CASE pending[urb[j].seq] = j
      <4>1. CASE urb[j].seq = q /\ Async' = Async \cup {n} /\ pending'[q] = n
                 /\ \A i \in Jobs : cancelled'[i] <=> cancelled[i] \/ i = pending[q]
        <5>1. n \in Async' \ {j} /\ ~(n < j) /\ cancelled'[j]
          BY <2>1, <3>1, <3>3, <4>1
        <5>2. Displaces(n, j)'
          BY <2>1, <3>1, <4>1, <5>1 DEF Displaces
        <5> QED BY <5>1, <5>2
      <4>2. CASE pending'[urb[j].seq] = pending[urb[j].seq]
        BY <2>1, <3>1, <3>3, <4>2
      <4> QED BY <2>1, <3>1, <4>1, <4>2
    <3> QED BY <3>1, <3>2, <3>3
  <2> QED BY <2>2, <2>3
<1>4. ASSUME NEW n \in Started, Serves(n) \/ WriteReply(n),
             NEW j \in Async', pc'[j] \notin {"finish", "done"}
      PROVE  Found(j)'
  <2>1. /\ Async' = Async /\ UNCHANGED <<urb, pending, cancelled>>
        /\ pc[n] # "done" /\ \A i \in Jobs \ {n} : pc'[i] = pc[i]
        /\ pc[n] \notin {"finish", "done"}
    BY <1>4, ServeFacts, WriteFacts
  <2>2. pc[j] \notin {"finish", "done"}
    BY <1>4, <2>1
  <2>3. ASSUME NEW i \in Async \ {j}, Displaces(i, j) PROVE Displaces(i, j)'
    BY <2>1, <2>3 DEF Displaces
  <2> QED BY <1>1, <1>4, <2>1, <2>2, <2>3
<1>5. ASSUME NEW n \in Started, Finish(n), NEW j \in Async', pc'[j] \notin {"finish", "done"}
      PROVE  Found(j)'
  <2>1. /\ Async' = Async /\ UNCHANGED <<urb, cancelled>> /\ pc'[n] = "done" /\ urb[n].seq \in Seqs
        /\ \A i \in Jobs \ {n} : pc'[i] = pc[i]
        /\ \A q \in Seqs \ {urb[n].seq} : pending'[q] = pending[q]
        /\ n \in Jobs /\ pc[n] = "finish"
    BY <1>5, FinishFacts
  <2>2. j # n /\ pc[j] \notin {"finish", "done"} /\ j \in Started
    BY <1>5, <2>1
  <2>3. ASSUME NEW i \in Async \ {j}, Displaces(i, j) PROVE Displaces(i, j)'
    BY <2>1, <2>3 DEF Displaces
  <2>4. CASE pending[urb[j].seq] = j /\ urb[j].seq = urb[n].seq
    <3>1. n \in Async
      BY <2>1 DEF AsyncFinishes
    <3>2. n <= j
      BY <2>2, <2>4, <3>1 DEF Youngest
    <3>3. Displaces(n, j)'
      BY <2>1, <2>2, <2>4, <3>2 DEF Displaces
    <3> QED BY <2>1, <2>2, <3>1, <3>3
  <2>5. CASE pending[urb[j].seq] = j /\ urb[j].seq # urb[n].seq
    BY <2>1, <2>2, <2>5
  <2> QED BY <1>1, <1>5, <2>1, <2>2, <2>3, <2>4, <2>5
<1>6. ASSUME Other, NEW j \in Async', pc'[j] \notin {"finish", "done"} PROVE Found(j)'
  <2>1. /\ UNCHANGED <<urb, pc, pending>> /\ Async' = Async
        /\ \A i \in Jobs : cancelled[i] => cancelled'[i]
    BY <1>6, OtherFacts DEF Other
  <2>2. ASSUME NEW i \in Async \ {j}, Displaces(i, j) PROVE Displaces(i, j)'
    BY <1>6, <2>1, <2>2 DEF Displaces
  <2> QED BY <1>1, <1>6, <2>1, <2>2
<1> QED BY <1>3, <1>4, <1>5, <1>6, Steps

LEMMA EarlyStep ==
  ASSUME Types, NeverEarly, [Next]_vars
  PROVE  NeverEarly'
<1> USE AsyncJobs
<1>1. SUFFICES ASSUME \A j \in Async : Reached(j) => now >= deadline[j],
                      NEW j \in Async', Reached(j)'
               PROVE  now' >= deadline'[j]
  BY DEF NeverEarly, Reached
<1>2. ASSUME NEW u \in host.urbs, NEW q \in NextSeqs, SubmitInline(u, q) \/ SubmitIso(u, q)
      PROVE  now' >= deadline'[j]
  <2> DEFINE n == Len(urb) + 1
  <2>1. /\ n \in Jobs /\ pc'[n] = "start" /\ Async' \subseteq Async \cup {n} /\ n \notin Started
        /\ \A i \in Started : pc'[i] = pc[i] /\ \A k \in Jobs \ {n} : deadline'[k] = deadline[k]
        /\ UNCHANGED <<result, now>>
    BY <1>2, SubmitFacts
  <2>2. j # n /\ j \in Async
    BY <1>1, <2>1 DEF Reached
  <2>3. deadline'[j] = deadline[j] /\ pc'[j] = pc[j]
    <3>1. \A i \in Jobs \ {n} : deadline'[i] = deadline[i]
      BY <1>2, SubmitFacts
    <3> QED BY <2>1, <2>2, <3>1
  <2>4. Reached(j)
    BY <1>1, <2>1, <2>3 DEF Reached
  <2> QED BY <1>1, <2>1, <2>2, <2>3, <2>4
<1>3. ASSUME NEW n \in Started, Serves(n) PROVE now' >= deadline'[j]
  <2>1. /\ Async' = Async /\ UNCHANGED <<deadline, now, urb>>
        /\ ~Inline(urb[n]) /\ Reached(n)' => Reached(n) \/ now >= deadline[n]
        /\ \A i \in Jobs \ {n} : pc'[i] = pc[i] /\ result'[i] = result[i]
    BY <1>3, ServeFacts
  <2>2. CASE j = n
    <3>1. ~Inline(urb[n])
      BY <1>1, <2>1, <2>2 DEF Async
    <3> QED BY <1>1, <2>1, <2>2, <3>1
  <2>3. CASE j # n
    <3>1. Reached(j)
      BY <1>1, <2>1, <2>3 DEF Reached
    <3> QED BY <1>1, <2>1, <3>1
  <2> QED BY <2>2, <2>3
<1>4. ASSUME NEW n \in Started, WriteReply(n) \/ Finish(n) PROVE now' >= deadline'[j]
  <2>1. /\ Async' = Async /\ UNCHANGED <<deadline, now, result>>
        /\ \A i \in Jobs \ {n} : pc'[i] = pc[i]
        /\ pc[n] \in {"reply", "finish"} /\ pc'[n] \in {"finish", "done"}
    BY <1>4, WriteFacts, FinishFacts
  <2>2. Reached(j)
    BY <1>1, <2>1 DEF Reached
  <2> QED BY <1>1, <2>1, <2>2
<1>5. ASSUME Other PROVE now' >= deadline'[j]
  <2>1. /\ Async' = Async /\ UNCHANGED <<deadline, pc, result>> /\ now' >= now
    BY <1>5, OtherFacts DEF Other
  <2>2. Reached(j)
    BY <1>1, <2>1 DEF Reached
  <2>3. now >= deadline[j] /\ now \in Nat /\ now' \in Nat /\ deadline[j] \in Nat
    <3>1. host.time \in Nat /\ host' = host
      BY <1>5, OtherFacts, HostFits DEF Other, Types, TypeOK
    <3>2. now' \in 0..host'.time
      BY NextTypes DEF Types, TypeOK
    <3>3. j \in Jobs
      BY <1>1, <2>1
    <3> QED BY <1>1, <2>1, <2>2, <3>1, <3>2, <3>3 DEF Types, TypeOK
  <2> QED BY <2>1, <2>3
<1> QED BY <1>2, <1>3, <1>4, <1>5, Steps

-----------------------------------------------------------------------------
(* The reader, the calls into the device, and the end of a session.          *)

LEMMA InlineStep ==
  ASSUME Types, InlineServed, [Next]_vars
  PROVE  InlineServed'
<1> USE AsyncJobs
<1>1. ASSUME NEW u \in host.urbs, NEW q \in NextSeqs, SubmitInline(u, q) \/ SubmitIso(u, q)
      PROVE  InlineServed'
  <2>0. PICK n \in Jobs : n = Len(urb) + 1
    BY <1>1, SubmitFacts
  <2>1. /\ Started' = Started \cup {n} /\ Len(urb') = n /\ reader = "ready"
        /\ \A i \in Started : urb'[i] = urb[i] /\ pc'[i] = pc[i]
        /\ Inline(urb'[n]) => reader' = "busy"
    BY <1>1, <2>0, SubmitFacts
  <2>2. \A i \in Started : Inline(urb[i]) => pc[i] = "done"
    BY <2>1 DEF InlineServed
  <2> QED BY <2>1, <2>2 DEF InlineServed
<1>2. ASSUME NEW j \in Started, Serves(j) PROVE InlineServed'
  <2>1. /\ Started' = Started /\ UNCHANGED <<urb, reader>> /\ pc[j] # "done"
        /\ \A i \in Jobs \ {j} : pc'[i] = pc[i]
    BY <1>2, ServeFacts
  <2> QED BY <2>1 DEF InlineServed
<1>3. ASSUME NEW j \in Started, WriteReply(j) PROVE InlineServed'
  <2>1. /\ Started' = Started /\ UNCHANGED urb /\ pc[j] # "done"
        /\ \A i \in Jobs \ {j} : pc'[i] = pc[i]
        /\ Inline(urb[j]) => pc'[j] = "done"
        /\ ~Inline(urb[j]) => reader' = reader
    BY <1>3, WriteFacts
  <2>2. CASE Inline(urb[j])
    <3>1. \A i \in Started \ {j} : Inline(urb[i]) => pc[i] = "done"
      BY <2>1, <2>2 DEF InlineServed
    <3> QED BY <2>1, <2>2, <3>1 DEF InlineServed
  <2>3. CASE ~Inline(urb[j])
    BY <2>1, <2>3 DEF InlineServed
  <2> QED BY <2>2, <2>3
<1>4. ASSUME NEW j \in Started, Finish(j) PROVE InlineServed'
  <2>1. /\ Started' = Started /\ UNCHANGED <<urb, reader>> /\ pc'[j] = "done"
        /\ \A i \in Jobs \ {j} : pc'[i] = pc[i]
    BY <1>4, FinishFacts
  <2> QED BY <2>1 DEF InlineServed
<1>5. ASSUME Other PROVE InlineServed'
  <2>1. /\ Started' = Started /\ UNCHANGED <<urb, pc>>
        /\ reader' = reader \/ reader \in {"ready", "cancel", "answer", "draining"}
    BY <1>5, OtherFacts DEF Other
  <2> QED BY <2>1 DEF InlineServed
<1> QED BY <1>1, <1>2, <1>3, <1>4, <1>5, Steps

\* What a job does to the calls: only to its own, and from writing or reading.
LEMMA CallEffect ==
  ASSUME Types, CallsOwned, NEW j \in Started, Serves(j)
  PROVE  /\ \A w \in Workers \ {j} : call'[w] = call[w]
         /\ call'[j] # Idle => pc'[j] \in {"writing", "reading"}
<1> j \in Jobs /\ j \in Workers /\ DeviceTypes
  BY StartedJob, JobsFit DEF Types
<1> urb[j].endpoint \in Nat
  BY StartedJob DEF UrbState
<1>1. pc \in [Jobs -> Places]
  BY DEF Types, TypeOK, Places
<1>2. \A l : Goto(j, l) => pc'[j] = l
  BY <1>1 DEF Goto
<1> DEFINE Good == /\ \A w \in Workers \ {j} : call'[w] = call[w]
                   /\ call'[j] # Idle => pc'[j] \in {"writing", "reading"}
<1>3. ASSUME call' = call, pc[j] \notin {"writing", "reading"} PROVE Good
  BY <1>3 DEF CallsOwned
<1>4. ASSUME ServeControl(j) PROVE Good
  <2>1. call' = call /\ pc[j] = "start"
    BY <1>4, ControlStatus DEF ServeControl
  <2> QED BY <1>3, <2>1
<1>5. ASSUME Route(j) \/ Wait(j) \/ TimerFires(j) \/ WaitCancelled(j) PROVE Good
  <2>1. call' = call /\ pc[j] \in {"start", "wait", "waiting"}
    BY <1>5 DEF Route, Wait, TimerFires, WaitCancelled, deviceVars
  <2> QED BY <1>3, <2>1
<1>6. ASSUME AskPlayback(j) PROVE Good
  <2>1. pc[j] = "playback?"
    BY <1>6 DEF AskPlayback
  <2>2. CASE PlaybackActive(urb[j].endpoint)
    <3>1. Begin(j, "write", urb[j].endpoint, Chunk(j)) /\ UNCHANGED buffer /\ Goto(j, "writing")
      BY <1>6, <2>2 DEF AskPlayback, BeginWritePlayback
    <3>2. \A w \in Workers \ {j} : call'[w] = call[w]
      BY <3>1 DEF Begin, DeviceTypes
    <3> QED BY <1>2, <3>1, <3>2
  <2>3. CASE ~PlaybackActive(urb[j].endpoint)
    BY <1>3, <1>6, <2>1, <2>3 DEF AskPlayback, deviceVars
  <2> QED BY <2>2, <2>3
<1>7. ASSUME AskCapture(j) PROVE Good
  <2>1. pc[j] = "capture?"
    BY <1>7 DEF AskCapture
  <2>2. CASE CaptureActive(urb[j].endpoint)
    <3>1. Begin(j, "read", urb[j].endpoint, Silence) /\ Goto(j, "reading")
      BY <1>7, <2>2 DEF AskCapture, BeginReadCapture
    <3>2. \A w \in Workers \ {j} : call'[w] = call[w]
      BY <3>1 DEF Begin, DeviceTypes
    <3> QED BY <1>2, <3>1, <3>2
  <2>3. CASE ~CaptureActive(urb[j].endpoint)
    BY <1>3, <1>7, <2>1, <2>3 DEF AskCapture, deviceVars
  <2> QED BY <2>2, <2>3
<1>8. ASSUME InDevice(j) PROVE Good
  <2>1. pc' = pc /\ pc[j] \in {"writing", "reading"} /\ DeviceStep(j)
    BY <1>8 DEF InDevice
  <2>2. \A w \in Workers : w # j => call'[w] = call[w]
    BY <2>1, CallMoves
  <2> QED BY <2>1, <2>2
<1>9. ASSUME PlaybackWritten(j) \/ CaptureRead(j) PROVE Good
  <2>1. Return(j) /\ UNCHANGED buffer
    BY <1>9 DEF PlaybackWritten, CaptureRead
  <2> QED BY <2>1, CallReturns
<1> QED BY <1>4, <1>5, <1>6, <1>7, <1>8, <1>9 DEF Serves

LEMMA CallsStep ==
  ASSUME Types, CallsOwned, [Next]_vars
  PROVE  CallsOwned'
<1> USE AsyncJobs
<1>1. ASSUME NEW u \in host.urbs, NEW q \in NextSeqs, SubmitInline(u, q) \/ SubmitIso(u, q)
      PROVE  CallsOwned'
  <2>1. /\ Started \subseteq Started' /\ \A i \in Started : pc'[i] = pc[i] /\ call' = call
    BY <1>1, SubmitFacts
  <2>2. call' = call
    BY <1>1, SubmitFacts
  <2> QED BY <2>1, <2>2 DEF CallsOwned
<1>2. ASSUME NEW j \in Started, Serves(j) PROVE CallsOwned'
  <2>1. /\ Started' = Started /\ \A i \in Jobs \ {j} : pc'[i] = pc[i]
    BY <1>2, ServeFacts
  <2>2. /\ \A w \in Workers \ {j} : call'[w] = call[w]
        /\ call'[j] # Idle => pc'[j] \in {"writing", "reading"}
    BY <1>2, CallEffect
  <2> HIDE DEF Idle
  <2>3. Idle' = Idle
    BY DEF Idle, Silence
  <2> QED BY <2>1, <2>2, <2>3 DEF CallsOwned
<1>3. ASSUME NEW j \in Started, WriteReply(j) \/ Finish(j) PROVE CallsOwned'
  <2>1. /\ Started' = Started /\ call' = call /\ \A i \in Jobs \ {j} : pc'[i] = pc[i]
        /\ pc[j] \in {"reply", "finish"}
    BY <1>3, WriteFacts, FinishFacts
  <2> QED BY <2>1 DEF CallsOwned
<1>4. ASSUME Other PROVE CallsOwned'
  BY <1>4, OtherFacts DEF Other, CallsOwned
<1> QED BY <1>1, <1>2, <1>3, <1>4, Steps

LEMMA DrainedStep ==
  ASSUME Types, DrainedFirst, [Next]_vars
  PROVE  DrainedFirst'
<1>1. ASSUME NEW u \in host.urbs, NEW q \in NextSeqs, SubmitInline(u, q) \/ SubmitIso(u, q)
      PROVE  DrainedFirst'
  <2>1. reader' \in {"busy", "ready"}
    BY <1>1, SubmitFacts
  <2> QED BY <2>1 DEF DrainedFirst
<1>2. ASSUME NEW j \in Started, Serves(j) \/ WriteReply(j) \/ Finish(j) PROVE DrainedFirst'
  <2>1. pc[j] # "done" /\ reader' \in {reader, "ready", "draining"}
    BY <1>2, ServeFacts, WriteFacts, FinishFacts
  <2>2. reader # "closed"
    BY <2>1 DEF DrainedFirst, AllDone
  <2> QED BY <2>1, <2>2 DEF DrainedFirst
<1>3. ASSUME Other PROVE DrainedFirst'
  <2>1. UNCHANGED pc /\ Started' = Started
    BY <1>3, OtherFacts DEF Other
  <2>2. reader' = "closed" => reader = "closed" \/ AllDone
    BY <1>3 DEF Other, UnlinkArrives, Unlink, ReaderStep, CancelTarget, AnswerUnlink, Drained,
       ReadFails, Leave, HangUp, StopReading, StopServer, Tick, AtRest, vars, environmentOf
  <2> QED BY <2>1, <2>2 DEF DrainedFirst, AllDone
<1> QED BY <1>1, <1>2, <1>3, Steps

LEMMA InitInv ==
  ASSUME Init
  PROVE  IInv
<1>1. /\ Started = {} /\ Async = {} /\ reader = "ready"
      /\ \A q \in Seqs : pending[q] = 0
      /\ \A w \in Workers : call[w] = Idle
  BY DEF Init, InitSession, Started, Async
<1> QED
  BY <1>1 DEF IInv, AsyncFinishes, PendingIsLive, Youngest, InFlightIsUnlinkable, NeverEarly,
     InlineServed, CallsOwned, DrainedFirst

LEMMA NextInv ==
  ASSUME Types, IInv, [Next]_vars
  PROVE  IInv'
BY FinishStep, LiveStep, YoungestStep, UnlinkableStep, EarlyStep, InlineStep, CallsStep, DrainedStep
   DEF IInv

LEMMA SessionInv == Spec => [](Types /\ IInv)
<1>1. Init => Types /\ IInv
  BY InitTypes, InitInv
<1>2. Types /\ IInv /\ [Next]_vars => Types' /\ IInv'
  BY NextTypes, NextInv
<1> QED BY <1>1, <1>2, PTL DEF Spec

\* A cancel function is stored only for a job that runs, under its own number: none
\* leaks, and an UNLINK reaches no job that is over, whatever numbers the host reuses
\* and however goroutines finish.
THEOREM SessionPendingIsLive == Spec => []PendingIsLive
<1>1. IInv => PendingIsLive
  BY DEF IInv
<1> QED BY <1>1, SessionInv, PTL

\* A job that has not answered can be found by UNLINK, or an older job with its number
\* removed its entry, or a younger one has cancelled it.
THEOREM SessionInFlightIsUnlinkable == Spec => []InFlightIsUnlinkable
<1>1. IInv => InFlightIsUnlinkable
  BY DEF IInv
<1> QED BY <1>1, SessionInv, PTL

\* No audio is recorded and no URB completed ahead of the time reserved for it, with
\* any timers, cancellations and queues.
THEOREM SessionNeverEarly == Spec => []NeverEarly
<1>1. IInv => NeverEarly
  BY DEF IInv
<1> QED BY <1>1, SessionInv, PTL

\* When handleURBs has returned no goroutine runs, no cancel function is stored and no
\* call is inside the device.
THEOREM SessionClosedIsQuiet == Spec => []ClosedIsQuiet
<1>1. Types /\ IInv => ClosedIsQuiet
  <2> SUFFICES ASSUME Types, IInv, reader = "closed"
               PROVE  /\ \A j \in Started : pc[j] = "done"
                      /\ \A q \in Seqs : pending[q] = 0
                      /\ \A w \in Workers : call[w] = Idle
    BY DEF ClosedIsQuiet
  <2>1. \A j \in Started : pc[j] = "done"
    BY DEF IInv, DrainedFirst, AllDone
  <2>2. \A q \in Seqs : pending[q] = 0
    BY <2>1, AsyncJobs DEF IInv, PendingIsLive
  <2>3. \A w \in Workers : call[w] = Idle
    BY <2>1 DEF IInv, CallsOwned
  <2> QED BY <2>1, <2>2, <2>3
<1> QED BY <1>1, SessionInv, PTL

-----------------------------------------------------------------------------
(* What RET_UNLINK says.                                                     *)

Told(j) == \E k \in Submits : wire[k].job = j

\* A host that does not reuse numbers counts, and unlinks what it has submitted.
Counts == ~host.reuse => /\ \A j \in Started : urb[j].seq = j
                         /\ \A i \in Unlinks : wire[i].seq \in Started
                         /\ reader \in {"cancel", "answer"} => unlink.target \in Started

\* A job that has answered has put its reply on the wire.
AnswersTold == ~hungUp => \A j \in Started : pc[j] \in {"finish", "done"} => Told(j)

\* The reader is about to answer that it has found nothing.
NothingLeft == reader = "answer" /\ unlink.job = 0 /\ ~host.reuse =>
                 \A j \in Started : urb[j].seq = unlink.target => pc[j] \in {"finish", "done"}

WireInv == Counts /\ AnswersTold /\ NothingLeft /\ NotFoundMeansAnswered

LEMMA WireGrows ==
  ASSUME Types, NEW f \in Frames, wire' = Append(wire, f)
  PROVE  /\ Len(wire') = Len(wire) + 1 /\ Len(wire) \in Nat /\ wire'[Len(wire) + 1] = f
         /\ \A i \in 1..Len(wire) : wire'[i] = wire[i]
         /\ Submits \subseteq Submits' /\ Submits \subseteq 1..Len(wire)
         /\ f.kind = "submit" => Unlinks' = Unlinks /\ Len(wire) + 1 \in Submits'
         /\ f.kind = "unlink" => Unlinks' = Unlinks \cup {Len(wire) + 1}
         /\ Unlinks \subseteq 1..Len(wire)
<1>1. /\ Len(wire') = Len(wire) + 1 /\ Len(wire) \in Nat /\ wire'[Len(wire) + 1] = f
      /\ \A i \in 1..Len(wire) : wire'[i] = wire[i]
  BY AppendProperties DEF Types, TypeOK
<1>2. 1..Len(wire') = (1..Len(wire)) \cup {Len(wire) + 1}
  BY <1>1
<1> QED BY <1>1, <1>2 DEF Submits, Unlinks

LEMMA OtherWire ==
  ASSUME Types, Other
  PROVE  \/ /\ wire' = wire
            /\ \/ reader' = reader /\ unlink' = unlink
               \/ reader' \in {"ready", "draining", "closed"}
               \/ reader = "cancel" /\ unlink' = unlink
               \/ UnlinkArrives
         \/ /\ reader = "answer" /\ wire' = Append(wire, UnlinkReply) /\ ~hungUp
            /\ reader' \in {"ready", "draining"}
BY DEF Other, UnlinkArrives, Unlink, ReaderStep, CancelTarget, AnswerUnlink, Drained, ReadFails,
   Leave, HangUp, StopReading, StopServer, Tick, AtRest, vars, environmentOf

LEMMA WireStep ==
  ASSUME Types, IInv, WireInv, [Next]_vars
  PROVE  WireInv'
<1> USE AsyncJobs
<1>1. ASSUME NEW u \in host.urbs, NEW q \in NextSeqs, SubmitInline(u, q) \/ SubmitIso(u, q)
      PROVE  WireInv'
  <2>0. PICK n \in Jobs : n = Len(urb) + 1
    BY <1>1, SubmitFacts
  <2>1. /\ n \notin Started /\ Started' = Started \cup {n} /\ urb'[n].seq = q /\ pc'[n] = "start"
        /\ \A i \in Started : urb'[i] = urb[i] /\ pc'[i] = pc[i]
        /\ UNCHANGED <<unlink, wire, host, hungUp>> /\ reader' \in {"busy", "ready"}
    BY <1>1, <2>0, SubmitFacts
  <2>2. Submits' = Submits /\ Unlinks' = Unlinks
    BY <2>1 DEF Submits, Unlinks
  <2>3. ~host.reuse => q = n
    BY <2>0 DEF NextSeqs
  <2>4. Counts'
    BY <2>1, <2>2, <2>3 DEF WireInv, Counts
  <2>5. AnswersTold'
    BY <2>1, <2>2 DEF WireInv, AnswersTold, Told
  <2>6. NothingLeft'
    BY <2>1 DEF NothingLeft
  <2>7. NotFoundMeansAnswered'
    <3>1. ~host.reuse => \A i \in Unlinks : wire[i].seq # urb'[n].seq
      BY <2>1, <2>3 DEF WireInv, Counts
    <3> QED BY <2>1, <2>2, <3>1 DEF WireInv, NotFoundMeansAnswered
  <2> QED BY <2>4, <2>5, <2>6, <2>7 DEF WireInv
<1>2. ASSUME NEW n \in Started, Serves(n) \/ Finish(n) PROVE WireInv'
  <2>1. /\ Started' = Started /\ UNCHANGED <<urb, reader, unlink, wire, host, hungUp>>
        /\ \A i \in Jobs \ {n} : pc'[i] = pc[i]
        /\ pc[n] # "finish" => {pc[n], pc'[n]} \cap {"finish", "done"} = {}
        /\ pc[n] = "finish" => pc'[n] = "done"
    <3>1. CASE Serves(n)
      BY <3>1, ServeFacts
    <3>2. CASE Finish(n)
      BY <3>2, FinishFacts
    <3> QED BY <1>2, <3>1, <3>2
  <2>2. Submits' = Submits /\ Unlinks' = Unlinks
    BY <2>1 DEF Submits, Unlinks
  <2>3. Counts'
    BY <2>1, <2>2 DEF WireInv, Counts
  <2>4. AnswersTold'
    BY <2>1, <2>2 DEF WireInv, AnswersTold, Told
  <2>5. NothingLeft'
    BY <2>1 DEF WireInv, NothingLeft
  <2>6. NotFoundMeansAnswered'
    BY <2>1, <2>2 DEF WireInv, NotFoundMeansAnswered
  <2> QED BY <2>3, <2>4, <2>5, <2>6 DEF WireInv
<1>3. ASSUME NEW n \in Started, WriteReply(n) PROVE WireInv'
  <2>1. /\ Started' = Started /\ UNCHANGED <<urb, unlink, host, hungUp>>
        /\ \A i \in Jobs \ {n} : pc'[i] = pc[i]
        /\ pc'[n] \in {"finish", "done"}
        /\ wire' = IF hungUp THEN wire ELSE Append(wire, SubmitReply(n))
        /\ reader' \in {reader, "ready", "draining"}
    BY <1>3, WriteFacts
  <2>2. SubmitReply(n) \in Frames /\ SubmitReply(n).kind = "submit" /\ SubmitReply(n).job = n
    BY FramesFit DEF SubmitReply
  <2>3. /\ Unlinks' = Unlinks /\ Submits \subseteq Submits'
        /\ Submits \cup Unlinks \subseteq 1..Len(wire)
        /\ \A i \in 1..Len(wire) : wire'[i] = wire[i]
        /\ ~hungUp => Told(n)'
    <3>1. CASE hungUp
      BY <2>1, <3>1 DEF Submits, Unlinks
    <3>2. CASE ~hungUp
      BY <2>1, <2>2, <3>2, WireGrows DEF Told
    <3> QED BY <3>1, <3>2
  <2>4. Counts'
    BY <2>1, <2>3 DEF WireInv, Counts
  <2>5. AnswersTold'
    <3>1. \A i \in Started : Told(i) => Told(i)'
      BY <2>3 DEF Told
    <3> QED BY <2>1, <2>3, <3>1 DEF WireInv, AnswersTold
  <2>6. NothingLeft'
    BY <2>1 DEF WireInv, NothingLeft
  <2>7. NotFoundMeansAnswered'
    BY <2>1, <2>3 DEF WireInv, NotFoundMeansAnswered
  <2> QED BY <2>4, <2>5, <2>6, <2>7 DEF WireInv
<1>4. ASSUME Other, wire' = wire PROVE WireInv'
  <2>1. /\ UNCHANGED <<urb, pc, pending, host>> /\ Started' = Started /\ (hungUp => hungUp')
    BY <1>4, OtherFacts DEF Other
  <2>2. Submits' = Submits /\ Unlinks' = Unlinks
    BY <1>4 DEF Submits, Unlinks
  <2>3. AnswersTold'
    BY <1>4, <2>1, <2>2 DEF WireInv, AnswersTold, Told
  <2>4. NotFoundMeansAnswered'
    BY <1>4, <2>1, <2>2 DEF WireInv, NotFoundMeansAnswered
  <2>5. CASE UnlinkArrives
    <3>1. PICK i \in 1..Len(urb) : Unlink(urb[i].seq)
      BY <2>5 DEF UnlinkArrives
    <3>2. /\ reader = "ready" /\ unlink' = [target |-> urb[i].seq, job |-> pending[urb[i].seq]]
      BY <3>1 DEF Unlink
    <3>3. i \in Started /\ urb[i].seq \in Seqs
      BY DEF Types, TypeOK
    <3>4. Counts'
      BY <1>4, <2>1, <2>2, <3>2, <3>3 DEF WireInv, Counts
    <3>5. ASSUME ~host.reuse, pending[urb[i].seq] = 0, NEW j \in Started, urb[j].seq = urb[i].seq
          PROVE  pc[j] \in {"finish", "done"}
      <4>1. CASE j \in Async
        <5>1. \A k \in Async : urb[k].seq = k
          BY <3>5 DEF WireInv, Counts
        <5> QED BY <3>5, <4>1, <5>1 DEF IInv, InFlightIsUnlinkable
      <4>2. CASE j \notin Async
        <5>1. Inline(urb[j])
          BY <4>2 DEF Async
        <5> QED BY <3>2, <5>1 DEF IInv, InlineServed
      <4> QED BY <4>1, <4>2
    <3>6. NothingLeft'
      BY <2>1, <3>2, <3>5 DEF NothingLeft
    <3> QED BY <2>3, <2>4, <3>4, <3>6 DEF WireInv
  <2>6. CASE \/ reader' = reader /\ unlink' = unlink
             \/ reader' \in {"ready", "draining", "closed"}
             \/ reader = "cancel" /\ unlink' = unlink
    <3>1. Counts'
      BY <1>4, <2>1, <2>2, <2>6 DEF WireInv, Counts
    <3>2. reader = "cancel" => unlink.job # 0
      BY DEF Types
    <3>3. NothingLeft'
      BY <2>1, <2>6, <3>2 DEF WireInv, NothingLeft
    <3> QED BY <2>3, <2>4, <3>1, <3>3 DEF WireInv
  <2>7. reader = "answer" /\ reader' \in {"ready", "draining"} => WireInv'
    BY <2>6
  <2> QED BY <1>4, <2>5, <2>6, <2>7, OtherWire
<1>5. ASSUME Other, reader = "answer", wire' = Append(wire, UnlinkReply), ~hungUp,
             reader' \in {"ready", "draining"}
      PROVE  WireInv'
  <2>1. /\ UNCHANGED <<urb, pc, host>> /\ Started' = Started
    BY <1>5, OtherFacts DEF Other
  <2>2. /\ UnlinkReply \in Frames /\ UnlinkReply.kind = "unlink" /\ UnlinkReply.seq = unlink.target
        /\ UnlinkReply.status = StatusOK => unlink.job = 0
    BY <1>5, FramesFit DEF UnlinkReply, StatusOK, StatusConnReset
  <2>3. PICK n \in Nat : n = Len(wire) + 1
    BY DEF Types, TypeOK
  <2>4. /\ Unlinks' = Unlinks \cup {n} /\ Submits \subseteq Submits' /\ wire'[n] = UnlinkReply
        /\ \A i \in 1..Len(wire) : wire'[i] = wire[i] /\ i < n
        /\ Submits \cup Unlinks \subseteq 1..Len(wire)
    BY <1>5, <2>2, <2>3, WireGrows
  <2>5. Counts'
    BY <1>5, <2>1, <2>2, <2>4 DEF WireInv, Counts
  <2>6. \A i \in Started : Told(i) => Told(i)'
    BY <2>4 DEF Told
  <2>7. AnswersTold'
    BY <1>5, <2>1, <2>6 DEF WireInv, AnswersTold
  <2>8. NothingLeft'
    BY <1>5 DEF NothingLeft
  <2>9. ASSUME NEW i \in Unlinks', wire'[i].status = StatusOK, NEW j \in Started,
               urb[j].seq = wire'[i].seq, ~host.reuse
        PROVE  \E k \in Submits' : k < i /\ wire'[k].job = j
    <3>1. CASE i \in Unlinks
      <4>1. PICK k \in Submits : k < i /\ wire[k].job = j
        BY <2>4, <2>9, <3>1 DEF WireInv, NotFoundMeansAnswered
      <4> QED BY <2>4, <4>1
    <3>2. CASE i = n
      <4>1. Told(j)
        BY <1>5, <2>2, <2>4, <2>9, <3>2 DEF WireInv, AnswersTold, NothingLeft
      <4> QED BY <2>4, <3>2, <4>1 DEF Told
    <3> QED BY <2>4, <2>9, <3>1, <3>2
  <2>10. NotFoundMeansAnswered'
    BY <2>1, <2>9 DEF NotFoundMeansAnswered
  <2> QED BY <2>5, <2>7, <2>8, <2>10 DEF WireInv
<1>6. ASSUME Other PROVE WireInv'
  BY <1>4, <1>5, <1>6, OtherWire
<1> QED BY <1>1, <1>2, <1>3, <1>6, Steps

LEMMA SessionWire == Spec => []WireInv
<1>1. Init => WireInv
  <2> SUFFICES ASSUME Init PROVE WireInv
    OBVIOUS
  <2>1. wire = <<>> /\ Started = {} /\ reader = "ready" /\ Len(wire) = 0
    BY DEF Init, InitSession, Started
  <2>2. Unlinks = {}
    BY <2>1 DEF Unlinks
  <2> QED BY <2>1, <2>2 DEF WireInv, Counts, AnswersTold, NothingLeft, NotFoundMeansAnswered
<1>2. Types /\ IInv /\ WireInv /\ [Next]_vars => WireInv'
  BY WireStep
<1> QED BY <1>1, <1>2, SessionInv, PTL DEF Spec

\* RET_UNLINK with status 0 means that the URB was given back: its RET_SUBMIT is ahead on
\* the wire, whatever the goroutine was doing when the UNLINK came, unless the host
\* reuses numbers.
THEOREM SessionNotFoundMeansAnswered == Spec => []NotFoundMeansAnswered
<1>1. WireInv => NotFoundMeansAnswered
  BY DEF WireInv
<1> QED BY <1>1, SessionWire, PTL

-----------------------------------------------------------------------------
(* Where audio is: in the rings, and with the jobs that took it from them.   *)

\* The audio job j holds for its answer, and the audio that waits in a ring.
Held(j) == IF pc[j] = "reading" THEN call[j].chunk ELSE result[j].audio
InRing(x) == \E c \in Cables : \E i \in 1..Len(buffer[c]) : buffer[c][i] = x

\* A job does what its endpoint and direction ask for, and its call is its own.
RoutedJob(j) ==
  /\ pc[j] \in {"wait", "waiting"} => Playback(urb[j]) \/ Capture(urb[j])
  /\ pc[j] \in {"capture?", "reading"} => Capture(urb[j])
  /\ pc[j] = "writing" => call[j].op = "write" /\ call[j].ep = urb[j].endpoint
                          /\ call[j].chunk = Chunk(j)
  /\ pc[j] = "reading" => call[j].op = "read" /\ call[j].ep = urb[j].endpoint
  /\ pc[j] \notin {"reply", "finish", "done"} => result[j].audio = Silence
Routed == \A j \in Jobs : RoutedJob(j)

\* The audio of playback job j is in its ring, and the job knows that.
Stored(j) ==
  /\ pc[j] \in {"writing", "wait", "waiting", "reply", "finish", "done"}
  /\ pc[j] = "writing" => call[j].step = "done" /\ call[j].moved = 1
  /\ pc[j] \in {"wait", "waiting"} => result[j].taken = 1
  /\ pc[j] \in {"reply", "finish", "done"} =>
       \/ result[j].status = StatusOK /\ result[j].taken = 1
       \/ result[j].status = StatusConnReset /\ CtxDone(j)

\* What a step of job j does to audio: it lets go of some, stores its own in its
\* ring, or takes the oldest of its ring.
Drops(j) == /\ Held(j)' \in {Held(j), Silence}
            /\ \A c \in Cables : buffer'[c] \in {buffer[c], <<>>}
Stores(j) == /\ Playback(urb[j]) /\ ~Stored(j) /\ Stored(j)' /\ Held(j)' = Held(j)
             /\ buffer' = [buffer EXCEPT ![urb[j].endpoint] = Push(@, Chunk(j))]
Takes(j) == /\ Capture(urb[j]) /\ buffer[urb[j].endpoint] # <<>>
            /\ Held(j)' = Head(buffer[urb[j].endpoint])
            /\ buffer' = [buffer EXCEPT ![urb[j].endpoint] = Tail(@)]

LEMMA CableEndpoints ==
  ASSUME NEW c \in Cables
  PROVE  CableByEndpoint(c) = c /\ c \in Nat \ {0}
<1>1. NumCables \in 1..5
  BY DeviceAssumption DEF Describable, MaxCablesPerUSBDevice
<1> QED BY <1>1 DEF Cables, CableByEndpoint

LEMMA OneDirection == \A u : ~(Playback(u) /\ Capture(u))
BY DEF Playback, Capture, DirectionOut, DirectionIn

LEMMA ControlRings ==
  ASSUME NEW s, HandleControl(s, <<>>)
  PROVE  \A c \in Cables : buffer'[c] \in {buffer[c], <<>>}
<1>1. UNCHANGED buffer \/ \E cs : ResetBuffers(cs)
  BY DEF HandleControl, SetConfiguration, SetInterface, SetSampleRate, SetMute, SetVolume, ReadOnly
<1> QED BY <1>1 DEF ResetBuffers

LEMMA FlowEffect ==
  ASSUME Types, Routed, NEW j \in Started, Serves(j)
  PROVE  /\ RoutedJob(j)'
         /\ Playback(urb[j]) /\ Stored(j) => Stored(j)'
         /\ Drops(j) \/ Stores(j) \/ Takes(j)
<1> DEFINE Good == /\ RoutedJob(j)'
                   /\ Playback(urb[j]) /\ Stored(j) => Stored(j)'
                   /\ Drops(j) \/ Stores(j) \/ Takes(j)
<1>1. /\ result \in [Jobs -> Results] /\ j \in Jobs /\ pc \in [Jobs -> Places] /\ j \in Workers
      /\ call \in [Workers -> Calls] /\ RoutedJob(j) /\ DeviceTypes
      /\ buffer \in [Cables -> Seq(Chunks)]
  BY ResultTypes, StartedJob, JobsFit DEF Types, TypeOK, Places, DeviceTypes, Routed
<1>2. UNCHANGED <<urb, cancelled, stopped, ended>>
  BY ServeEffect DEF jobVars, sessionVars, hostVars
<1>3. \A l : Goto(j, l) => pc'[j] = l
  BY <1>1 DEF Goto
<1>4. CtxDone(j)' <=> CtxDone(j)
  BY <1>2 DEF CtxDone
<1>5. ASSUME NEW s, NEW t, NEW a, Answer(j, s, t, a), a \in {Held(j), Silence},
             \A c \in Cables : buffer'[c] \in {buffer[c], <<>>},
             Playback(urb[j]) /\ Stored(j) => \/ s = StatusOK /\ t = 1
                                              \/ s = StatusConnReset /\ CtxDone(j)
      PROVE  Good
  <2>1. pc'[j] = "reply" /\ result'[j] = [status |-> s, taken |-> t, audio |-> a]
    BY <1>1, <1>3, <1>5 DEF Answer
  <2>2. RoutedJob(j)' /\ Held(j)' = a
    BY <2>1 DEF RoutedJob, Held
  <2>3. Playback(urb[j]) /\ Stored(j) => Stored(j)'
    BY <1>4, <1>5, <2>1 DEF Stored
  <2> QED BY <1>5, <2>2, <2>3 DEF Drops
<1>6. ASSUME NEW l \in {"playback?", "wait", "waiting", "capture?"}, Goto(j, l),
             result'[j].audio = Silence, buffer' = buffer,
             l \in {"wait", "waiting"} => Playback(urb[j]) \/ Capture(urb[j]),
             l = "capture?" => Capture(urb[j]),
             Playback(urb[j]) /\ Stored(j) => l \in {"wait", "waiting"} /\ result'[j].taken = 1
      PROVE  Good
  <2>1. pc'[j] = l /\ urb' = urb
    BY <1>2, <1>3, <1>6
  <2>2. RoutedJob(j)' /\ Held(j)' = Silence
    BY <1>6, <2>1 DEF RoutedJob, Held, Playback, Capture, Silence
  <2>3. Playback(urb[j]) /\ Stored(j) => Stored(j)'
    BY <1>6, <2>1 DEF Stored
  <2> QED BY <1>6, <2>2, <2>3 DEF Drops
<1>7. ASSUME NEW t, Played(j, t), pc[j] \in {"playback?", "writing"}, buffer' = buffer,
             Stored(j) => t = 1
      PROVE  Good
  <2>1. Playback(urb[j])
    BY <1>7 DEF Types
  <2>2. CASE Iso(urb[j])
    <3>1. Goto(j, "wait") /\ result' = [result EXCEPT ![j].taken = t]
      BY <1>7, <2>2 DEF Played
    <3>2. result[j].audio = Silence
      BY <1>1, <1>7 DEF RoutedJob
    <3>3. result'[j].audio = Silence /\ result'[j].taken = t
      BY <1>1, <3>1, <3>2 DEF Results
    <3> HIDE DEF Good
    <3> QED BY <1>6, <1>7, <2>1, <3>1, <3>3
  <2>3. CASE ~Iso(urb[j])
    <3>1. Answer(j, StatusOK, t, Silence)
      BY <1>7, <2>3 DEF Played
    <3> HIDE DEF Good
    <3> QED BY <1>5, <1>7, <3>1
  <2> QED BY <2>2, <2>3
<1>8. ASSUME Completed(j), pc[j] \in {"wait", "waiting"}, buffer' = buffer PROVE Good
  <2>1. result[j].audio = Silence /\ (Playback(urb[j]) \/ Capture(urb[j]))
    BY <1>1, <1>8 DEF RoutedJob
  <2>2. CASE Playback(urb[j])
    <3>1. Answer(j, StatusOK, result[j].taken, Silence)
      BY <1>8, <2>2 DEF Completed
    <3>2. Stored(j) => result[j].taken = 1
      BY <1>8 DEF Stored
    <3> HIDE DEF Good
    <3> QED BY <1>5, <1>8, <3>1, <3>2
  <2>3. CASE ~Playback(urb[j])
    <3>1. Goto(j, "capture?") /\ UNCHANGED result
      BY <1>8, <2>3 DEF Completed
    <3> HIDE DEF Good
    <3> QED BY <1>6, <1>8, <2>1, <2>3, <3>1
  <2> QED BY <2>2, <2>3
<1>9. ASSUME ServeControl(j) PROVE Good
  <2>1. /\ HandleControl(urb[j].setup, <<>>) /\ Answer(j, answer'.status, 0, Silence)
        /\ pc[j] = "start"
    BY <1>9 DEF ServeControl, Answer
  <2>2. ~Stored(j)
    BY <2>1 DEF Stored
  <2> HIDE DEF Good
  <2> QED BY <1>5, <2>1, <2>2, ControlRings
<1>10. ASSUME Route(j) PROVE Good
  <2>1. ~Stored(j) /\ buffer' = buffer /\ result[j].audio = Silence
    BY <1>1, <1>10 DEF Route, Stored, RoutedJob, deviceVars
  <2>2. ASSUME Goto(j, First(urb[j])), UNCHANGED result, Playback(urb[j]) \/ Capture(urb[j])
        PROVE  Good
    <3>1. PICK l \in {"playback?", "wait", "capture?"} :
            l = First(urb[j]) /\ (l = "capture?" => ~Playback(urb[j]))
      BY DEF First
    <3> HIDE DEF Good
    <3> QED BY <1>6, <2>1, <2>2, <3>1
  <2>3. ASSUME NEW s, Answer(j, s, 0, Silence) PROVE Good
    <3> HIDE DEF Good
    <3> QED BY <1>5, <2>1, <2>3
  <2> HIDE DEF Good
  <2> QED BY <1>10, <2>2, <2>3 DEF Route, AnswerReset
<1>11. ASSUME AskPlayback(j) PROVE Good
  <2>1. pc[j] = "playback?" /\ Playback(urb[j]) /\ ~Stored(j) /\ result[j].audio = Silence
    BY <1>1, <1>11 DEF AskPlayback, Types, Stored, RoutedJob
  <2>2. CASE PlaybackActive(urb[j].endpoint)
    <3>1. /\ Begin(j, "write", urb[j].endpoint, Chunk(j)) /\ UNCHANGED buffer
          /\ Goto(j, "writing") /\ UNCHANGED result
      BY <1>11, <2>2 DEF AskPlayback, BeginWritePlayback
    <3>2. /\ call'[j].op = "write" /\ call'[j].ep = urb[j].endpoint
          /\ call'[j].chunk = Chunk(j) /\ pc'[j] = "writing"
      BY <1>1, <1>3, <3>1 DEF Begin
    <3>3. RoutedJob(j)' /\ Held(j)' = Silence
      BY <1>2, <2>1, <3>1, <3>2 DEF RoutedJob, Held, Silence, Chunk
    <3> QED BY <2>1, <3>1, <3>3 DEF Drops
  <2>3. CASE ~PlaybackActive(urb[j].endpoint)
    <3>1. Played(j, 1) /\ buffer' = buffer
      BY <1>11, <2>3 DEF AskPlayback, deviceVars
    <3> HIDE DEF Good
    <3> QED BY <1>7, <2>1, <3>1
  <2> QED BY <2>2, <2>3
<1>12. ASSUME InDevice(j) PROVE Good
  <2>1. pc' = pc /\ result' = result /\ pc[j] \in {"writing", "reading"} /\ DeviceStep(j)
    BY <1>12 DEF InDevice
  <2>2. call[j].step # "done"
    BY <2>1 DEF DeviceStep, CheckActive, StoreChunk, TakeChunk
  <2>3. ~(Playback(urb[j]) /\ Stored(j))
    BY <1>1, <2>1, <2>2, OneDirection DEF Stored, RoutedJob
  <2>4. ASSUME call'[j].op = call[j].op, call'[j].ep = call[j].ep,
               pc[j] = "writing" => call'[j].chunk = call[j].chunk
        PROVE  RoutedJob(j)'
    BY <1>1, <1>2, <2>1, <2>4 DEF RoutedJob, Playback, Capture, Silence, Chunk
  <2>5. call[j] \in Calls
    BY <1>1
  <2>6. CASE CheckActive(j)
    <3>1. PICK l : call' = [call EXCEPT ![j].step = l]
      BY <2>6 DEF CheckActive
    <3>2. /\ call'[j].op = call[j].op /\ call'[j].ep = call[j].ep
          /\ call'[j].chunk = call[j].chunk
      BY <1>1, <2>5, <3>1 DEF Calls
    <3>3. Held(j)' = Held(j) /\ buffer' = buffer
      BY <2>1, <2>6, <3>2 DEF Held, CheckActive
    <3> QED BY <2>3, <2>4, <3>2, <3>3 DEF Drops
  <2>7. CASE StoreChunk(j)
    <3>1. call[j].op = "write" /\ pc[j] = "writing" /\ Playback(urb[j])
      BY <1>1, <2>1, <2>7 DEF StoreChunk, RoutedJob, Types
    <3>2. PICK c \in Cables : c = urb[j].endpoint /\ CableByEndpoint(call[j].ep) = c
      BY <1>1, <3>1, CableEndpoints DEF Playback, RoutedJob
    <3>3. call' = [call EXCEPT ![j].step = "done", ![j].moved = 1]
      BY <2>7 DEF StoreChunk, Taken
    <3>4. /\ call'[j].op = call[j].op /\ call'[j].ep = call[j].ep
          /\ call'[j].chunk = call[j].chunk /\ call'[j].step = "done" /\ call'[j].moved = 1
      BY <1>1, <2>5, <3>3 DEF Calls
    <3>5. buffer' = [buffer EXCEPT ![urb[j].endpoint] = Push(@, Chunk(j))]
      BY <1>1, <2>7, <3>1, <3>2 DEF StoreChunk, RoutedJob
    <3>6. Stored(j)' /\ Held(j)' = Held(j)
      BY <2>1, <3>1, <3>4 DEF Stored, Held
    <3> QED BY <2>3, <2>4, <3>1, <3>4, <3>5, <3>6 DEF Stores
  <2>8. CASE TakeChunk(j)
    <3>1. pc[j] = "reading" /\ Capture(urb[j])
      BY <1>1, <2>1, <2>8 DEF TakeChunk, RoutedJob
    <3>2. PICK c \in Cables : c = urb[j].endpoint /\ CableByEndpoint(call[j].ep) = c
      BY <1>1, <3>1, CableEndpoints DEF Capture, RoutedJob
    <3>3. CASE buffer[c] = <<>>
      <4>1. call' = [call EXCEPT ![j].step = "done"] /\ buffer' = buffer
        BY <2>8, <3>2, <3>3 DEF TakeChunk
      <4>2. /\ call'[j].op = call[j].op /\ call'[j].ep = call[j].ep
            /\ call'[j].chunk = call[j].chunk
        BY <1>1, <2>5, <4>1 DEF Calls
      <4>3. Held(j)' = Held(j)
        BY <2>1, <4>2 DEF Held
      <4> QED BY <2>3, <2>4, <4>1, <4>2, <4>3 DEF Drops
    <3>4. CASE buffer[c] # <<>>
      <4> DEFINE x == Head(buffer[c])
      <4>1. /\ call' = [call EXCEPT ![j].step = "done", ![j].moved = 1, ![j].chunk = x]
            /\ buffer' = [buffer EXCEPT ![c] = Tail(@)]
        BY <2>8, <3>2, <3>4 DEF TakeChunk, Unread
      <4> HIDE DEF x
      <4>2. call'[j].op = call[j].op /\ call'[j].ep = call[j].ep /\ call'[j].chunk = x
        BY <1>1, <2>5, <4>1 DEF Calls
      <4>3. Held(j)' = x
        BY <2>1, <3>1, <4>2 DEF Held
      <4>4. Takes(j)
        BY <3>1, <3>2, <3>4, <4>1, <4>3 DEF Takes, x
      <4> QED BY <2>3, <2>4, <3>1, <4>2, <4>4
    <3> QED BY <3>3, <3>4
  <2> QED BY <2>1, <2>6, <2>7, <2>8 DEF DeviceStep
<1>13. ASSUME PlaybackWritten(j) PROVE Good
  <2>1. pc[j] = "writing" /\ Played(j, call[j].moved) /\ buffer' = buffer
    BY <1>13 DEF PlaybackWritten
  <2>2. Stored(j) => call[j].moved = 1
    BY <2>1 DEF Stored
  <2> HIDE DEF Good
  <2> QED BY <1>7, <2>1, <2>2
<1>14. ASSUME Wait(j) \/ TimerFires(j) PROVE Good
  <2>1. pc[j] \in {"wait", "waiting"} /\ buffer' = buffer
    BY <1>14 DEF Wait, TimerFires, deviceVars
  <2>2. CASE Completed(j)
    <3> HIDE DEF Good
    <3> QED BY <1>8, <2>1, <2>2
  <2>3. CASE Goto(j, "waiting") /\ UNCHANGED result
    <3>1. result[j].audio = Silence /\ (Playback(urb[j]) \/ Capture(urb[j]))
      BY <1>1, <2>1 DEF RoutedJob
    <3>2. Stored(j) => result[j].taken = 1
      BY <2>1 DEF Stored
    <3> HIDE DEF Good
    <3> QED BY <1>6, <2>1, <2>3, <3>1, <3>2
  <2> HIDE DEF Good
  <2> QED BY <1>14, <2>2, <2>3 DEF Wait, TimerFires
<1>15. ASSUME WaitCancelled(j) PROVE Good
  <2>1. Answer(j, StatusConnReset, 0, Silence) /\ CtxDone(j) /\ buffer' = buffer
    BY <1>15 DEF WaitCancelled, AnswerReset, deviceVars
  <2> HIDE DEF Good
  <2> QED BY <1>5, <2>1
<1>16. ASSUME AskCapture(j) PROVE Good
  <2>1. pc[j] = "capture?" /\ Capture(urb[j]) /\ ~Playback(urb[j]) /\ result[j].audio = Silence
    BY <1>1, <1>16, OneDirection DEF AskCapture, RoutedJob
  <2>2. CASE CaptureActive(urb[j].endpoint)
    <3>1. /\ Begin(j, "read", urb[j].endpoint, Silence) /\ UNCHANGED buffer
          /\ Goto(j, "reading") /\ UNCHANGED result
      BY <1>16, <2>2 DEF AskCapture, BeginReadCapture
    <3>2. /\ call'[j].op = "read" /\ call'[j].ep = urb[j].endpoint
          /\ call'[j].chunk = Silence /\ pc'[j] = "reading"
      BY <1>1, <1>3, <3>1 DEF Begin
    <3>3. RoutedJob(j)' /\ Held(j)' = Silence
      BY <1>2, <2>1, <3>1, <3>2 DEF RoutedJob, Held, Silence, Capture
    <3> QED BY <2>1, <3>1, <3>3 DEF Drops
  <2>3. CASE ~CaptureActive(urb[j].endpoint)
    <3>1. Answer(j, StatusOK, 0, Silence) /\ buffer' = buffer
      BY <1>16, <2>3 DEF AskCapture, deviceVars
    <3> HIDE DEF Good
    <3> QED BY <1>5, <2>1, <3>1
  <2> QED BY <2>2, <2>3
<1>17. ASSUME CaptureRead(j) PROVE Good
  <2>1. pc[j] = "reading" /\ Answer(j, StatusOK, 0, call[j].chunk) /\ buffer' = buffer
    BY <1>17 DEF CaptureRead
  <2>2. Held(j) = call[j].chunk /\ ~Playback(urb[j])
    BY <1>1, <2>1, OneDirection DEF Held, RoutedJob
  <2> HIDE DEF Good
  <2> QED BY <1>5, <2>1, <2>2
<1> HIDE DEF Good
<1>18. Good
  BY <1>9, <1>10, <1>11, <1>12, <1>13, <1>14, <1>15, <1>16, <1>17 DEF Serves
<1> QED BY <1>18 DEF Good

\* Audio comes from a playback job of that very cable that has stored it.
Origin(x) == x.n \in Started /\ Playback(urb[x.n]) /\ x.ep = urb[x.n].endpoint /\ Stored(x.n)

RingsSourced == \A c \in Cables : \A i \in 1..Len(buffer[c]) :
                  buffer[c][i].ep = c /\ Origin(buffer[c][i])
HeldSourced == \A j \in Started : Held(j) # Silence =>
                 Held(j).ep = urb[j].endpoint /\ Origin(Held(j))

\* No chunk is in two places.
RingsApart == \A c \in Cables : \A i, k \in 1..Len(buffer[c]) :
                i # k => buffer[c][i] # buffer[c][k]
HeldApart == \A j \in Started : Held(j) # Silence =>
               /\ ~InRing(Held(j))
               /\ \A i \in Started \ {j} : Held(i) # Held(j)

FlowInv == Routed /\ RingsSourced /\ HeldSourced /\ RingsApart /\ HeldApart

\* The steps that move no audio.
LEMMA StillFacts ==
  ASSUME Types, NEW j \in Started, WriteReply(j) \/ Finish(j)
  PROVE  /\ j \in Jobs /\ Started' = Started /\ UNCHANGED <<urb, result, call, buffer>>
         /\ \A i \in Jobs \ {j} : pc'[i] = pc[i]
         /\ pc[j] \in {"reply", "finish"} /\ pc'[j] \in {"finish", "done"}
         /\ cancelled' = cancelled /\ stopped' = stopped /\ (ended => ended')
<1>1. UNCHANGED <<result, call, buffer, cancelled, stopped>> /\ (ended => ended')
  BY DEF WriteReply, Finish, deviceVars, hostVars, Leave
<1>2. CASE WriteReply(j)
  BY <1>1, <1>2, WriteFacts
<1>3. CASE Finish(j)
  BY <1>1, <1>3, FinishFacts
<1> QED BY <1>2, <1>3

LEMMA OtherStill ==
  ASSUME Types, Other
  PROVE  /\ UNCHANGED <<urb, pc, result, call, buffer>> /\ Started' = Started
         /\ \A j \in Jobs : CtxDone(j) => CtxDone(j)'
<1>1. UNCHANGED <<urb, pc, result, call, buffer>>
  BY DEF Other, UnlinkArrives, Unlink, ReaderStep, CancelTarget, AnswerUnlink, Drained, ReadFails,
     HangUp, StopReading, StopServer, Tick, AtRest, vars, environmentOf, jobVars, deviceVars
<1>2. stopped => stopped'
  BY DEF Other, UnlinkArrives, Unlink, ReaderStep, CancelTarget, AnswerUnlink, Drained, ReadFails,
     HangUp, StopReading, StopServer, Tick, AtRest, vars, hostVars
<1>3. ended => ended'
  <2>1. CASE AnswerUnlink \/ ReadFails
    BY <2>1 DEF AnswerUnlink, ReadFails, Leave
  <2>2. CASE ~(AnswerUnlink \/ ReadFails)
    BY <2>2 DEF Other, UnlinkArrives, Unlink, ReaderStep, CancelTarget, Drained, HangUp,
       StopReading, StopServer, Tick, AtRest, vars, environmentOf
  <2> QED BY <2>1, <2>2
<1>4. Started' = Started /\ \A j \in Jobs : cancelled[j] => cancelled'[j]
  BY OtherFacts DEF Other
<1> QED BY <1>1, <1>2, <1>3, <1>4 DEF CtxDone

LEMMA SubmitStill ==
  ASSUME Types, NEW u \in host.urbs, NEW q \in NextSeqs, SubmitInline(u, q) \/ SubmitIso(u, q)
  PROVE  \E n \in Jobs :
           /\ n \notin Started /\ Started' = Started \cup {n} /\ pc'[n] = "start"
           /\ \A i \in Started : urb'[i] = urb[i] /\ pc'[i] = pc[i]
           /\ pc' = [pc EXCEPT ![n] = "start"]
           /\ UNCHANGED <<result, call, buffer, wire>>
           /\ \A j \in Jobs : CtxDone(j) => CtxDone(j)'
<1>1. PICK n \in Jobs : n = Len(urb) + 1
  BY SubmitFacts
<1>2. /\ n \notin Started /\ Started' = Started \cup {n} /\ pc'[n] = "start"
      /\ \A i \in Started : urb'[i] = urb[i] /\ pc'[i] = pc[i]
      /\ cancelled' = cancelled \/ \A i \in Jobs : cancelled[i] => cancelled'[i]
  BY <1>1, SubmitFacts
<1>3. UNCHANGED <<result, call, buffer, wire, stopped, ended>> /\ pc' = [pc EXCEPT ![n] = "start"]
  BY <1>1 DEF SubmitInline, SubmitIso, deviceVars, hostVars
<1> QED BY <1>2, <1>3 DEF CtxDone

\* The calls of other jobs stay as they are.
LEMMA OwnCall ==
  ASSUME Types, NEW n \in Started, Serves(n), NEW j \in Jobs \ {n}
  PROVE  call'[j] = call[j]
<1>1. CASE InDevice(n)
  <2>1. \A v \in Workers : v # n => call'[v] = call[v]
    BY <1>1, CallMoves, StartedJob, JobsFit DEF InDevice, Types
  <2> QED BY <2>1, JobsFit
<1>2. CASE ~InDevice(n)
  <2>1. UNCHANGED call \/ \E e : call' = [call EXCEPT ![n] = e]
    <3>1. CASE ServeControl(n)
      BY <3>1, ControlStatus DEF ServeControl
    <3>2. CASE ~ServeControl(n)
      BY <1>2, <3>2 DEF Serves, Route, AskPlayback, PlaybackWritten, Wait, TimerFires,
         WaitCancelled, AskCapture, CaptureRead, BeginWritePlayback, BeginReadCapture, Begin,
         Return, deviceVars
    <3> QED BY <3>1, <3>2
  <2> QED BY <2>1, JobsFit DEF Types, DeviceTypes
<1> QED BY <1>1, <1>2

\* What has been stored stays so, and the job knows it.
LEMMA StoredStep ==
  ASSUME Types, Routed, [Next]_vars, NEW j \in Started, Playback(urb[j]), Stored(j)
  PROVE  j \in Started' /\ urb'[j] = urb[j] /\ Stored(j)'
<1> j \in Jobs
  BY StartedJob
<1>1. ASSUME NEW u \in host.urbs, NEW q \in NextSeqs, SubmitInline(u, q) \/ SubmitIso(u, q)
      PROVE  j \in Started' /\ urb'[j] = urb[j] /\ Stored(j)'
  <2>1. PICK n \in Jobs :
          /\ Started' = Started \cup {n}
          /\ \A i \in Started : urb'[i] = urb[i] /\ pc'[i] = pc[i]
          /\ UNCHANGED <<result, call>>
          /\ \A i \in Jobs : CtxDone(i) => CtxDone(i)'
    BY <1>1, SubmitStill
  <2> QED BY <2>1 DEF Stored
<1>2. ASSUME NEW n \in Started, Serves(n)
      PROVE  j \in Started' /\ urb'[j] = urb[j] /\ Stored(j)'
  <2>1. /\ Started' = Started /\ UNCHANGED <<urb, cancelled, stopped, ended>>
        /\ \A i \in Jobs \ {n} : pc'[i] = pc[i] /\ result'[i] = result[i]
    BY <1>2, ServeFacts, ServeEffect DEF sessionVars, hostVars
  <2>2. CASE j = n
    BY <1>2, <2>1, <2>2, FlowEffect
  <2>3. CASE j # n
    <3>1. call'[j] = call[j]
      BY <1>2, <2>3, OwnCall
    <3>2. CtxDone(j)' <=> CtxDone(j)
      BY <2>1 DEF CtxDone
    <3> QED BY <2>1, <2>3, <3>1, <3>2 DEF Stored
  <2> QED BY <2>2, <2>3
<1>3. ASSUME NEW n \in Started, WriteReply(n) \/ Finish(n)
      PROVE  j \in Started' /\ urb'[j] = urb[j] /\ Stored(j)'
  <2>1. /\ Started' = Started /\ UNCHANGED <<urb, result, call>>
        /\ \A i \in Jobs \ {n} : pc'[i] = pc[i]
        /\ pc[n] \in {"reply", "finish"} /\ pc'[n] \in {"finish", "done"}
    BY <1>3, StillFacts
  <2>2. CtxDone(j) => CtxDone(j)'
    BY <1>3, StillFacts DEF CtxDone
  <2> QED BY <2>1, <2>2 DEF Stored
<1>4. ASSUME Other PROVE j \in Started' /\ urb'[j] = urb[j] /\ Stored(j)'
  BY <1>4, OtherStill DEF Stored
<1> QED BY <1>1, <1>2, <1>3, <1>4, Steps

LEMMA OriginStep ==
  ASSUME Types, Routed, [Next]_vars, NEW x, Origin(x)
  PROVE  Origin(x)'
<1>1. x.n \in Started' /\ urb'[x.n] = urb[x.n] /\ Stored(x.n)'
  BY StoredStep DEF Origin
<1> QED BY <1>1 DEF Origin, Playback

LEMMA RoutedStep ==
  ASSUME Types, Routed, [Next]_vars
  PROVE  Routed'
<1>1. ASSUME NEW u \in host.urbs, NEW q \in NextSeqs, SubmitInline(u, q) \/ SubmitIso(u, q)
      PROVE  Routed'
  <2>1. PICK n \in Jobs :
          /\ n \notin Started /\ pc' = [pc EXCEPT ![n] = "start"] /\ pc'[n] = "start"
          /\ \A i \in Started : urb'[i] = urb[i] /\ pc'[i] = pc[i]
          /\ UNCHANGED <<result, call>>
    BY <1>1, SubmitStill
  <2>2. ASSUME NEW j \in Jobs PROVE RoutedJob(j)'
    <3>1. CASE j \in Started
      <4>1. urb'[j] = urb[j] /\ pc'[j] = pc[j] /\ result' = result /\ call' = call
        BY <2>1, <3>1
      <4> QED BY <4>1 DEF Routed, RoutedJob, Playback, Capture, Chunk, Silence
    <3>2. CASE j \notin Started
      <4>1. pc[j] = "none" /\ pc'[j] \in {"none", "start"}
        BY <2>1, <3>2 DEF Started, Types, TypeOK
      <4> QED BY <2>1, <4>1 DEF Routed, RoutedJob, Silence
    <3> QED BY <3>1, <3>2
  <2> QED BY <2>2 DEF Routed
<1>2. ASSUME NEW n \in Started, Serves(n) PROVE Routed'
  <2>1. /\ UNCHANGED urb
        /\ \A i \in Jobs \ {n} : pc'[i] = pc[i] /\ result'[i] = result[i]
    BY <1>2, ServeFacts
  <2>2. \A i \in Jobs \ {n} : call'[i] = call[i]
    BY <1>2, OwnCall
  <2>3. \A i \in Jobs \ {n} : RoutedJob(i)'
    BY <2>1, <2>2 DEF Routed, RoutedJob, Playback, Capture, Chunk, Silence
  <2>4. RoutedJob(n)'
    BY <1>2, FlowEffect
  <2> QED BY <2>3, <2>4 DEF Routed
<1>3. ASSUME NEW n \in Started, WriteReply(n) \/ Finish(n) PROVE Routed'
  <2>1. /\ UNCHANGED <<urb, result, call>>
        /\ \A i \in Jobs \ {n} : pc'[i] = pc[i]
        /\ pc'[n] \in {"finish", "done"}
    BY <1>3, StillFacts
  <2>2. \A i \in Jobs \ {n} : RoutedJob(i)'
    BY <2>1 DEF Routed, RoutedJob, Playback, Capture, Chunk, Silence
  <2>3. RoutedJob(n)'
    BY <2>1 DEF RoutedJob
  <2> QED BY <2>2, <2>3 DEF Routed
<1>4. ASSUME Other PROVE Routed'
  <2>1. UNCHANGED <<urb, pc, result, call>>
    BY <1>4, OtherStill
  <2> QED BY <2>1 DEF Routed, RoutedJob, Playback, Capture, Chunk, Silence
<1> QED BY <1>1, <1>2, <1>3, <1>4, Steps

LEMMA TailOfRing ==
  ASSUME NEW q \in Seq(Chunks), q # <<>>
  PROVE  /\ Len(q) \in Nat \ {0} /\ Head(q) = q[1] /\ Tail(q) \in Seq(Chunks)
         /\ Len(Tail(q)) = Len(q) - 1 /\ \A i \in 1..Len(Tail(q)) : Tail(q)[i] = q[i + 1]
<1>1. Len(q) \in Nat \ {0}
  BY EmptySeq
<1> QED BY <1>1, HeadTailProperties

\* A push keeps chunks of the ring, in their order, and adds the new one.
LEMMA PushParts ==
  ASSUME NEW q \in Seq(Chunks), NEW x \in Chunks, NEW p, p = Push(q, x)
  PROVE  \E d \in {0, 1} :
           /\ Len(q) \in Nat /\ Len(p) = Len(q) + 1 - d /\ p[Len(p)] = x
           /\ \A i \in 1..Len(p) - 1 : p[i] = q[i + d]
<1>1. Len(q) \in Nat
  BY LenProperties
<1>2. CASE Len(q) = RingCap
  <2>1. q # <<>>
    BY <1>2, DeviceAssumption
  <2>2. /\ Tail(q) \in Seq(Chunks) /\ Len(Tail(q)) = Len(q) - 1
        /\ \A i \in 1..Len(Tail(q)) : Tail(q)[i] = q[i + 1]
    BY <2>1, TailOfRing
  <2>3. /\ Len(Append(Tail(q), x)) = Len(Tail(q)) + 1
        /\ \A i \in 1..Len(Tail(q)) : Append(Tail(q), x)[i] = Tail(q)[i]
        /\ Append(Tail(q), x)[Len(Tail(q)) + 1] = x
    BY <2>2, AppendProperties
  <2>4. Push(q, x) = Append(Tail(q), x)
    BY <1>2 DEF Push
  <2>5. /\ Len(p) = Len(q) /\ p[Len(q)] = x
        /\ \A i \in 1..Len(q) - 1 : p[i] = q[i + 1]
    BY <1>1, <2>2, <2>3, <2>4
  <2> QED BY <1>1, <2>5
<1>3. CASE Len(q) # RingCap
  <2>1. /\ Len(Append(q, x)) = Len(q) + 1
        /\ \A i \in 1..Len(q) : Append(q, x)[i] = q[i]
        /\ Append(q, x)[Len(q) + 1] = x
    BY AppendProperties
  <2>2. Push(q, x) = Append(q, x)
    BY <1>3 DEF Push
  <2> QED BY <1>1, <2>1, <2>2
<1> QED BY <1>2, <1>3

LEMMA FlowTypes ==
  ASSUME Types
  PROVE  /\ buffer \in [Cables -> Seq(Chunks)] /\ Started \subseteq Jobs
         /\ \A c \in Cables : Len(buffer[c]) \in Nat /\ \A i \in 1..Len(buffer[c]) : buffer[c][i] \in Chunks
         /\ Silence \notin Chunks
<1>1. buffer \in [Cables -> Seq(Chunks)] /\ Started \subseteq Jobs
  BY DEF Types, DeviceTypes, Started
<1>2. \A c \in Cables : Len(buffer[c]) \in Nat /\ \A i \in 1..Len(buffer[c]) : buffer[c][i] \in Chunks
  BY <1>1, LenProperties, ElementOfSeq
<1>3. Silence \notin Chunks
  BY DEF Silence, Chunks, Cables
<1> QED BY <1>1, <1>2, <1>3

\* The rings and what jobs hold are as before, or some of it is gone.
LEMMA DropsStep ==
  ASSUME Types, Routed, RingsSourced, HeldSourced, RingsApart, HeldApart, [Next]_vars,
         \A c \in Cables : buffer'[c] \in {buffer[c], <<>>},
         \A j \in Started' : \/ Held(j)' = Silence
                             \/ j \in Started /\ Held(j)' = Held(j) /\ urb'[j] = urb[j]
  PROVE  RingsSourced' /\ HeldSourced' /\ RingsApart' /\ HeldApart'
<1>1. \A c \in Cables : \A i \in 1..Len(buffer'[c]) : buffer'[c] = buffer[c] /\ i \in 1..Len(buffer[c])
  BY FlowTypes
<1>2. RingsSourced'
  <2>1. ASSUME NEW c \in Cables, NEW i \in 1..Len(buffer'[c])
        PROVE  buffer'[c][i].ep = c /\ Origin(buffer[c][i])'
    <3>1. PICK x : x = buffer[c][i]
      OBVIOUS
    <3>2. buffer'[c][i] = x /\ x.ep = c /\ Origin(x)
      BY <1>1, <2>1, <3>1 DEF RingsSourced
    <3>3. Origin(x)'
      BY <3>2, OriginStep
    <3> QED BY <3>2, <3>3 DEF Origin
  <2> QED BY <2>1 DEF RingsSourced
<1>3. HeldSourced'
  <2>1. ASSUME NEW j \in Started', Held(j)' # Silence
        PROVE  Held(j)'.ep = urb'[j].endpoint /\ Origin(Held(j))'
    <3>1. PICK x : x = Held(j)
      OBVIOUS
    <3>2. /\ Held(j)' = x /\ x.ep = urb'[j].endpoint /\ Origin(x)
      BY <2>1, <3>1 DEF HeldSourced
    <3>3. Origin(x)'
      BY <3>2, OriginStep
    <3> QED BY <3>2, <3>3 DEF Origin
  <2> QED BY <2>1 DEF HeldSourced, Silence
<1>4. RingsApart'
  BY <1>1 DEF RingsApart
<1>5. HeldApart'
  <2>1. \A x : InRing(x)' => InRing(x)
    BY <1>1 DEF InRing
  <2>2. ASSUME NEW j \in Started', Held(j)' # Silence
        PROVE  ~InRing(Held(j))' /\ \A i \in Started' \ {j} : Held(i)' # Held(j)'
    <3>1. PICK x : x = Held(j)
      OBVIOUS
    <3>2. Held(j)' = x /\ j \in Started /\ x # Silence
      BY <2>2, <3>1
    <3>3. ~InRing(x) /\ \A i \in Started \ {j} : Held(i) # x
      BY <3>1, <3>2 DEF HeldApart
    <3>4. ~InRing(x)'
      BY <2>1, <3>3
    <3> QED BY <3>2, <3>3, <3>4 DEF InRing
  <2> QED BY <2>2 DEF HeldApart, Silence
<1> QED BY <1>2, <1>3, <1>4, <1>5

\* Audio that is stored is new: its job had not stored any.
LEMMA StoresStep ==
  ASSUME Types, Routed, RingsSourced, HeldSourced, RingsApart, HeldApart, [Next]_vars,
         NEW j \in Started, Stores(j), Started' = Started, urb' = urb,
         \A i \in Started : Held(i)' = Held(i)
  PROVE  RingsSourced' /\ HeldSourced' /\ RingsApart' /\ HeldApart'
<1>1. PICK c \in Cables : c = urb[j].endpoint
  BY DEF Stores, Playback
<1>2. PICK x \in Chunks : x = Chunk(j) /\ x.ep = c /\ x.n = j
  <2>1. j \in Jobs
    BY StartedJob
  <2>2. Chunk(j) \in Chunks /\ Chunk(j).ep = c /\ Chunk(j).n = j
    BY <1>1, <2>1 DEF Chunk, Chunks
  <2> QED BY <2>2
<1>3. ~Origin(x)
  BY <1>2 DEF Origin, Stores
<1>4. /\ buffer' = [buffer EXCEPT ![c] = Push(@, x)] /\ Stored(j)' /\ Playback(urb[j])
  BY <1>1, <1>2 DEF Stores
<1>5. \A a \in Cables \ {c} : buffer'[a] = buffer[a]
  BY <1>4, FlowTypes
<1>6. PICK d \in {0, 1} :
        /\ Len(buffer[c]) \in Nat /\ Len(buffer'[c]) = Len(buffer[c]) + 1 - d
        /\ buffer'[c][Len(buffer'[c])] = x
        /\ \A i \in 1..Len(buffer'[c]) - 1 : buffer'[c][i] = buffer[c][i + d]
  <2>1. PICK q, p : q = buffer[c] /\ p = buffer'[c]
    OBVIOUS
  <2>2. q \in Seq(Chunks) /\ p = Push(q, x) /\ x \in Chunks
    BY <1>4, <2>1, FlowTypes
  <2>3. \E d \in {0, 1} :
          /\ Len(q) \in Nat /\ Len(p) = Len(q) + 1 - d /\ p[Len(p)] = x
          /\ \A i \in 1..Len(p) - 1 : p[i] = q[i + d]
    BY ONLY <2>2, PushParts
  <2> QED BY <2>1, <2>3
<1>7. \A i \in 1..Len(buffer'[c]) : i # Len(buffer'[c]) =>
        i \in 1..Len(buffer'[c]) - 1 /\ i + d \in 1..Len(buffer[c])
  <2> SUFFICES ASSUME NEW i \in 1..Len(buffer'[c]), i # Len(buffer'[c])
               PROVE  i \in 1..Len(buffer'[c]) - 1 /\ i + d \in 1..Len(buffer[c])
    OBVIOUS
  <2>1. PICK n \in Nat : n = Len(buffer[c])
    BY <1>6
  <2>2. PICK l \in Nat : l = Len(buffer'[c]) /\ l = n + 1 - d
    <3>1. n + 1 - d \in Nat
      BY <1>6, <2>1
    <3>2. Len(buffer'[c]) = n + 1 - d
      BY <1>6, <2>1
    <3> QED BY <3>1, <3>2
  <2>3. i \in 1..l - 1 /\ i + d \in 1..n
    <3>1. CASE d = 0
      BY <2>1, <2>2, <3>1
    <3>2. CASE d = 1
      BY <2>1, <2>2, <3>2
    <3> QED BY <3>1, <3>2
  <2> QED BY <2>1, <2>2, <2>3
<1>8. Origin(x)'
  BY <1>1, <1>2, <1>4 DEF Origin, Playback
<1>9. \A k \in 1..Len(buffer[c]) : buffer[c][k] # x
  BY <1>3 DEF RingsSourced
<1>10. RingsSourced'
  <2>1. ASSUME NEW a \in Cables, NEW i \in 1..Len(buffer'[a])
        PROVE  buffer'[a][i].ep = a /\ Origin(buffer[a][i])'
    <3>1. CASE a = c /\ i = Len(buffer'[c])
      BY <1>2, <1>6, <1>8, <3>1 DEF Origin
    <3>2. CASE ~(a = c /\ i = Len(buffer'[c]))
      <4>1. PICK k \in 1..Len(buffer[a]) : buffer'[a][i] = buffer[a][k]
        BY <1>5, <1>6, <1>7, <2>1, <3>2
      <4>2. PICK y : y = buffer[a][k]
        OBVIOUS
      <4>3. y.ep = a /\ Origin(y)
        BY <4>2 DEF RingsSourced
      <4>4. Origin(y)'
        BY <4>3, OriginStep
      <4> QED BY <4>1, <4>2, <4>3, <4>4 DEF Origin
    <3> QED BY <3>1, <3>2
  <2> QED BY <2>1 DEF RingsSourced
<1>11. HeldSourced'
  <2>1. ASSUME NEW i \in Started', Held(i)' # Silence
        PROVE  Held(i)'.ep = urb'[i].endpoint /\ Origin(Held(i))'
    <3>1. PICK y : y = Held(i)
      OBVIOUS
    <3>2. Held(i)' = y /\ y.ep = urb'[i].endpoint /\ Origin(y)
      BY <2>1, <3>1 DEF HeldSourced
    <3>3. Origin(y)'
      BY <3>2, OriginStep
    <3> QED BY <3>2, <3>3 DEF Origin
  <2> QED BY <2>1 DEF HeldSourced, Silence
<1>12. RingsApart'
  <2>1. ASSUME NEW a \in Cables, NEW i \in 1..Len(buffer'[a]), NEW k \in 1..Len(buffer'[a]), i # k
        PROVE  buffer'[a][i] # buffer'[a][k]
    <3>1. CASE a # c
      BY <1>5, <2>1, <3>1 DEF RingsApart
    <3>2. CASE a = c
      <4>1. CASE i # Len(buffer'[c]) /\ k # Len(buffer'[c])
        <5>1. /\ i + d \in 1..Len(buffer[c]) /\ k + d \in 1..Len(buffer[c])
              /\ i \in 1..Len(buffer'[c]) - 1 /\ k \in 1..Len(buffer'[c]) - 1
          BY <1>7, <3>2, <4>1
        <5>2. buffer'[c][i] = buffer[c][i + d] /\ buffer'[c][k] = buffer[c][k + d]
          BY <1>6, <5>1
        <5>3. i + d # k + d
          BY <2>1
        <5> QED BY <3>2, <5>1, <5>2, <5>3 DEF RingsApart
      <4>2. CASE i = Len(buffer'[c]) \/ k = Len(buffer'[c])
        BY <1>6, <1>7, <1>9, <2>1, <3>2, <4>2
      <4> QED BY <4>1, <4>2
    <3> QED BY <3>1, <3>2
  <2> QED BY <2>1 DEF RingsApart
<1>13. HeldApart'
  <2>1. \A y : InRing(y)' => InRing(y) \/ y = x
    <3>1. ASSUME NEW a \in Cables, NEW i \in 1..Len(buffer'[a]), buffer'[a][i] # x
          PROVE  InRing(buffer'[a][i])
      <4>1. PICK k \in 1..Len(buffer[a]) : buffer'[a][i] = buffer[a][k]
        BY <1>5, <1>6, <1>7, <3>1
      <4> QED BY <4>1 DEF InRing
    <3> QED BY <3>1 DEF InRing
  <2>2. ASSUME NEW i \in Started', Held(i)' # Silence
        PROVE  ~InRing(Held(i))' /\ \A k \in Started' \ {i} : Held(k)' # Held(i)'
    <3>1. PICK y : y = Held(i)
      OBVIOUS
    <3>2. Held(i)' = y /\ i \in Started /\ y # Silence
      BY <2>2, <3>1
    <3>3. ~InRing(y) /\ (\A k \in Started \ {i} : Held(k) # y) /\ y # x
      BY <1>3, <3>1, <3>2 DEF HeldApart, HeldSourced
    <3>4. ~InRing(y)'
      BY <2>1, <3>3
    <3> QED BY <3>2, <3>3, <3>4 DEF InRing
  <2> QED BY <2>2 DEF HeldApart, Silence
<1> QED BY <1>10, <1>11, <1>12, <1>13

\* Audio that is taken leaves its ring, and nobody else has it.
LEMMA TakesStep ==
  ASSUME Types, Routed, RingsSourced, HeldSourced, RingsApart, HeldApart, [Next]_vars,
         NEW j \in Started, Takes(j), Started' = Started, urb' = urb,
         \A i \in Started \ {j} : Held(i)' = Held(i)
  PROVE  RingsSourced' /\ HeldSourced' /\ RingsApart' /\ HeldApart'
<1>1. PICK c \in Cables : c = urb[j].endpoint
  BY DEF Takes, Capture
<1>2. /\ Len(buffer[c]) \in Nat \ {0} /\ Head(buffer[c]) = buffer[c][1]
      /\ Len(Tail(buffer[c])) = Len(buffer[c]) - 1
      /\ \A i \in 1..Len(Tail(buffer[c])) : Tail(buffer[c])[i] = buffer[c][i + 1]
  <2>1. buffer[c] \in Seq(Chunks) /\ buffer[c] # <<>>
    BY <1>1, FlowTypes DEF Takes
  <2> QED BY <2>1, TailOfRing
<1>3. PICK x \in Chunks : x = buffer[c][1]
  BY <1>2, FlowTypes
<1>4. /\ Held(j)' = x /\ buffer'[c] = Tail(buffer[c]) /\ \A a \in Cables \ {c} : buffer'[a] = buffer[a]
  BY <1>1, <1>2, <1>3, FlowTypes DEF Takes
<1>5. x.ep = c /\ Origin(x) /\ x # Silence
  BY <1>2, <1>3, FlowTypes DEF RingsSourced
<1>6. Origin(x)'
  BY <1>5, OriginStep
<1>7. \A a \in Cables : \A i \in 1..Len(buffer'[a]) :
        \E k \in 1..Len(buffer[a]) : /\ buffer'[a][i] = buffer[a][k] /\ (a = c => k = i + 1)
                                     /\ (a # c => k = i)
  <2>1. ASSUME NEW i \in 1..Len(buffer'[c])
        PROVE  i + 1 \in 1..Len(buffer[c]) /\ buffer'[c][i] = buffer[c][i + 1]
    BY <1>2, <1>4, <2>1
  <2>2. ASSUME NEW a \in Cables, NEW i \in 1..Len(buffer'[a])
        PROVE  \E k \in 1..Len(buffer[a]) : /\ buffer'[a][i] = buffer[a][k] /\ (a = c => k = i + 1)
                                            /\ (a # c => k = i)
    <3>1. CASE a = c
      BY <2>1, <2>2, <3>1
    <3>2. CASE a # c
      BY <1>4, <2>2, <3>2
    <3> QED BY <3>1, <3>2
  <2> QED BY <2>2
<1>8. RingsSourced'
  <2>1. ASSUME NEW a \in Cables, NEW i \in 1..Len(buffer'[a])
        PROVE  buffer'[a][i].ep = a /\ Origin(buffer[a][i])'
    <3>1. PICK k \in 1..Len(buffer[a]) : buffer'[a][i] = buffer[a][k]
      BY <1>7
    <3>2. PICK y : y = buffer[a][k]
      OBVIOUS
    <3>3. y.ep = a /\ Origin(y)
      BY <3>2 DEF RingsSourced
    <3>4. Origin(y)'
      BY <3>3, OriginStep
    <3> QED BY <3>1, <3>2, <3>3, <3>4 DEF Origin
  <2> QED BY <2>1 DEF RingsSourced
<1>9. HeldSourced'
  <2>1. ASSUME NEW i \in Started', Held(i)' # Silence
        PROVE  Held(i)'.ep = urb'[i].endpoint /\ Origin(Held(i))'
    <3>1. CASE i = j
      BY <1>1, <1>4, <1>5, <1>6, <3>1 DEF Origin
    <3>2. CASE i # j
      <4>1. PICK y : y = Held(i)
        OBVIOUS
      <4>2. Held(i)' = y /\ y.ep = urb'[i].endpoint /\ Origin(y)
        BY <2>1, <3>2, <4>1 DEF HeldSourced
      <4>3. Origin(y)'
        BY <4>2, OriginStep
      <4> QED BY <4>2, <4>3 DEF Origin
    <3> QED BY <3>1, <3>2
  <2> QED BY <2>1 DEF HeldSourced, Silence
<1>10. RingsApart'
  <2>1. ASSUME NEW a \in Cables, NEW i \in 1..Len(buffer'[a]), NEW k \in 1..Len(buffer'[a]), i # k
        PROVE  buffer'[a][i] # buffer'[a][k]
    <3>1. PICK h \in 1..Len(buffer[a]) : /\ buffer'[a][i] = buffer[a][h] /\ (a = c => h = i + 1)
                                         /\ (a # c => h = i)
      BY <1>7
    <3>2. PICK l \in 1..Len(buffer[a]) : /\ buffer'[a][k] = buffer[a][l] /\ (a = c => l = k + 1)
                                         /\ (a # c => l = k)
      BY <1>7
    <3>3. h # l
      BY <2>1, <3>1, <3>2
    <3> QED BY <3>1, <3>2, <3>3 DEF RingsApart
  <2> QED BY <2>1 DEF RingsApart
<1>11. HeldApart'
  <2>1. \A y : InRing(y)' => InRing(y)
    BY <1>7 DEF InRing
  <2>2. \A a \in Cables : \A i \in 1..Len(buffer'[a]) : buffer'[a][i] # x
    <3>1. ASSUME NEW a \in Cables, NEW i \in 1..Len(buffer'[a]), buffer'[a][i] = x PROVE FALSE
      <4>1. PICK k \in 1..Len(buffer[a]) : buffer'[a][i] = buffer[a][k] /\ (a = c => k = i + 1)
        BY <1>7
      <4>2. a = c
        BY <1>5, <3>1, <4>1 DEF RingsSourced
      <4>3. k # 1 /\ 1 \in 1..Len(buffer[c])
        BY <1>2, <1>4, <3>1, <4>1, <4>2
      <4> QED BY <1>3, <3>1, <4>1, <4>2, <4>3 DEF RingsApart
    <3> QED BY <3>1
  <2>3. InRing(x)
    BY <1>2, <1>3 DEF InRing
  <2>4. \A i \in Started : Held(i) # x
    BY <1>5, <2>3 DEF HeldApart
  <2>5. ASSUME NEW i \in Started', Held(i)' # Silence
        PROVE  ~InRing(Held(i))' /\ \A k \in Started' \ {i} : Held(k)' # Held(i)'
    <3>1. CASE i = j
      <4>1. \A k \in Started' \ {i} : Held(k)' # Held(i)'
        BY <1>4, <2>4, <3>1
      <4>2. ~InRing(Held(i))'
        BY <1>4, <2>2, <3>1 DEF InRing
      <4> QED BY <4>1, <4>2
    <3>2. CASE i # j
      <4>1. PICK y : y = Held(i)
        OBVIOUS
      <4>2. Held(i)' = y /\ i \in Started /\ y # Silence /\ y # x
        BY <2>4, <2>5, <3>2, <4>1
      <4>3. ~InRing(y) /\ \A k \in Started \ {i} : Held(k) # y
        BY <4>1, <4>2 DEF HeldApart
      <4>4. \A k \in Started' \ {i} : Held(k)' # Held(i)'
        BY <1>4, <4>2, <4>3
      <4>5. ~InRing(y)'
        BY <2>1, <4>3
      <4> QED BY <4>2, <4>4, <4>5 DEF InRing
    <3> QED BY <3>1, <3>2
  <2> QED BY <2>5 DEF HeldApart, Silence
<1> QED BY <1>8, <1>9, <1>10, <1>11

LEMMA FlowStep ==
  ASSUME Types, FlowInv, [Next]_vars
  PROVE  FlowInv'
<1> USE DEF FlowInv
<1>1. ASSUME NEW u \in host.urbs, NEW q \in NextSeqs, SubmitInline(u, q) \/ SubmitIso(u, q)
      PROVE  FlowInv'
  <2>1. PICK n \in Jobs :
          /\ n \notin Started /\ Started' = Started \cup {n} /\ pc'[n] = "start"
          /\ \A i \in Started : urb'[i] = urb[i] /\ pc'[i] = pc[i]
          /\ UNCHANGED <<result, call, buffer>>
    BY <1>1, SubmitStill
  <2>2. pc[n] = "none"
    BY <2>1 DEF Started
  <2>3. Held(n)' = Silence
    BY <2>1, <2>2 DEF Routed, RoutedJob, Held, Silence
  <2>4. \A j \in Started : Held(j)' = Held(j)
    BY <2>1 DEF Held
  <2> QED BY <2>1, <2>3, <2>4, RoutedStep, DropsStep
<1>2. ASSUME NEW n \in Started, Serves(n) PROVE FlowInv'
  <2>1. /\ Started' = Started /\ urb' = urb /\ n \in Jobs
        /\ \A i \in Jobs \ {n} : pc'[i] = pc[i] /\ result'[i] = result[i]
    BY <1>2, ServeFacts
  <2>2. \A i \in Started \ {n} : Held(i)' = Held(i)
    BY <1>2, <2>1, OwnCall, FlowTypes DEF Held
  <2>3. Drops(n) \/ Stores(n) \/ Takes(n)
    BY <1>2, FlowEffect
  <2>4. CASE Drops(n)
    <3>1. Held(n)' \in {Held(n), Silence} /\ \A c \in Cables : buffer'[c] \in {buffer[c], <<>>}
      BY <2>4 DEF Drops
    <3>2. \A j \in Started' : \/ Held(j)' = Silence
                              \/ j \in Started /\ Held(j)' = Held(j) /\ urb'[j] = urb[j]
      BY <2>1, <2>2, <3>1
    <3> QED BY <3>1, <3>2, RoutedStep, DropsStep
  <2>5. CASE Stores(n)
    <3>1. \A i \in Started : Held(i)' = Held(i)
      BY <2>2, <2>5 DEF Stores
    <3> QED BY <2>1, <2>5, <3>1, RoutedStep, StoresStep
  <2>6. CASE Takes(n)
    BY <2>1, <2>2, <2>6, RoutedStep, TakesStep
  <2> QED BY <2>3, <2>4, <2>5, <2>6
<1>3. ASSUME NEW n \in Started, WriteReply(n) \/ Finish(n) PROVE FlowInv'
  <2>1. /\ Started' = Started /\ UNCHANGED <<urb, result, call, buffer>>
        /\ \A i \in Jobs \ {n} : pc'[i] = pc[i]
        /\ pc[n] \in {"reply", "finish"} /\ pc'[n] \in {"finish", "done"}
    BY <1>3, StillFacts
  <2>2. \A j \in Started : Held(j)' = Held(j)
    BY <2>1, FlowTypes DEF Held
  <2> QED BY <2>1, <2>2, RoutedStep, DropsStep
<1>4. ASSUME Other PROVE FlowInv'
  <2>1. UNCHANGED <<urb, pc, result, call, buffer>> /\ Started' = Started
    BY <1>4, OtherStill
  <2>2. \A j \in Started : Held(j)' = Held(j)
    BY <2>1 DEF Held
  <2> QED BY <2>1, <2>2, RoutedStep, DropsStep
<1> QED BY <1>1, <1>2, <1>3, <1>4, Steps

\* A reply on the wire is that of a job that is past answering, and its only one.
RepliesMatch ==
  \A i \in Submits :
    /\ wire[i].job \in Started /\ pc[wire[i].job] \in {"finish", "done"}
    /\ wire[i] = SubmitReply(wire[i].job)
    /\ \A k \in Submits : wire[k].job = wire[i].job => k = i

LEMMA SubmitsGrow ==
  ASSUME Types, NEW f \in Frames, wire' = Append(wire, f)
  PROVE  /\ f.kind = "submit" => Submits' = Submits \cup {Len(wire) + 1}
         /\ f.kind = "unlink" => Submits' = Submits
<1>1. /\ Len(wire') = Len(wire) + 1 /\ Len(wire) \in Nat /\ wire'[Len(wire) + 1] = f
      /\ \A i \in 1..Len(wire) : wire'[i] = wire[i]
  BY AppendProperties DEF Types, TypeOK
<1>2. 1..Len(wire') = (1..Len(wire)) \cup {Len(wire) + 1}
  BY <1>1
<1> QED BY <1>1, <1>2 DEF Submits

LEMMA RepliesStep ==
  ASSUME Types, RepliesMatch, [Next]_vars
  PROVE  RepliesMatch'
<1>1. ASSUME NEW u \in host.urbs, NEW q \in NextSeqs, SubmitInline(u, q) \/ SubmitIso(u, q)
      PROVE  RepliesMatch'
  <2>1. PICK n \in Jobs :
          /\ Started' = Started \cup {n} /\ n \notin Started
          /\ \A i \in Started : urb'[i] = urb[i] /\ pc'[i] = pc[i]
          /\ UNCHANGED <<result, wire>>
    BY <1>1, SubmitStill
  <2>2. Submits' = Submits
    BY <2>1 DEF Submits
  <2>3. \A j \in Started : SubmitReply(j)' = SubmitReply(j)
    BY <2>1 DEF SubmitReply, Silence
  <2> QED BY <2>1, <2>2, <2>3 DEF RepliesMatch
<1>2. ASSUME NEW n \in Started, Serves(n) PROVE RepliesMatch'
  <2>1. /\ Started' = Started /\ UNCHANGED <<urb, wire>>
        /\ \A i \in Jobs \ {n} : pc'[i] = pc[i] /\ result'[i] = result[i]
        /\ pc[n] \notin {"reply", "finish", "done"}
    BY <1>2, ServeFacts
  <2>2. Submits' = Submits
    BY <2>1 DEF Submits
  <2>3. \A j \in Started \ {n} : SubmitReply(j)' = SubmitReply(j)
    BY <2>1, FlowTypes DEF SubmitReply, Silence
  <2>4. \A i \in Submits : wire[i].job \in Started \ {n}
    BY <2>1 DEF RepliesMatch
  <2> QED BY <2>1, <2>2, <2>3, <2>4, FlowTypes DEF RepliesMatch
<1>3. ASSUME NEW n \in Started, WriteReply(n) \/ Finish(n) PROVE RepliesMatch'
  <2>1. /\ Started' = Started /\ UNCHANGED <<urb, result>> /\ n \in Jobs
        /\ \A i \in Jobs \ {n} : pc'[i] = pc[i]
        /\ pc[n] \in {"reply", "finish"} /\ pc'[n] \in {"finish", "done"}
    BY <1>3, StillFacts
  <2>2. \A j \in Started : SubmitReply(j)' = SubmitReply(j)
    BY <2>1 DEF SubmitReply, Silence
  <2>3. \A j \in Started : pc[j] \in {"finish", "done"} => pc'[j] \in {"finish", "done"}
    BY <2>1, FlowTypes
  <2>4. CASE wire' = wire
    <3>1. Submits' = Submits
      BY <2>4 DEF Submits
    <3> QED BY <2>1, <2>2, <2>3, <2>4, <3>1 DEF RepliesMatch
  <2>5. CASE wire' # wire
    <3>1. /\ pc[n] = "reply" /\ wire' = Append(wire, SubmitReply(n))
          /\ SubmitReply(n) \in Frames /\ SubmitReply(n).kind = "submit" /\ SubmitReply(n).job = n
      <4>1. WriteReply(n)
        BY <1>3, <2>5 DEF Finish
      <4>2. wire' = IF hungUp THEN wire ELSE Append(wire, SubmitReply(n))
        BY <4>1, WriteFacts
      <4>3. pc[n] = "reply"
        BY <4>1, WriteFacts
      <4>4. SubmitReply(n) \in Frames
        BY FramesFit
      <4> QED BY <2>5, <4>2, <4>3, <4>4 DEF SubmitReply
    <3>2. PICK m \in Nat : m = Len(wire) + 1
      BY DEF Types, TypeOK
    <3>3. /\ Submits' = Submits \cup {m} /\ wire'[m] = SubmitReply(n) /\ m \notin Submits
          /\ \A i \in Submits : wire'[i] = wire[i]
      <4>1. Submits' = Submits \cup {m}
        BY <3>1, <3>2, SubmitsGrow
      <4>2. wire'[m] = SubmitReply(n) /\ \A i \in 1..Len(wire) : wire'[i] = wire[i]
        BY <3>1, <3>2, WireGrows
      <4> QED BY <3>2, <4>1, <4>2 DEF Submits, Types, TypeOK
    <3>4. \A i \in Submits : wire[i].job \in Started \ {n}
      BY <3>1 DEF RepliesMatch
    <3>5. ASSUME NEW i \in Submits'
          PROVE  /\ wire'[i].job \in Started' /\ pc'[wire'[i].job] \in {"finish", "done"}
                 /\ wire'[i] = SubmitReply(wire[i].job)'
                 /\ \A k \in Submits' : wire'[k].job = wire'[i].job => k = i
      <4>1. CASE i = m
        <5>1. wire'[i].job = n /\ wire'[i] = SubmitReply(n)'
          BY <2>2, <3>1, <3>3, <4>1
        <5> QED BY <2>1, <3>3, <3>4, <4>1, <5>1 DEF SubmitReply
      <4>2. CASE i \in Submits
        <5>1. wire'[i] = wire[i] /\ wire[i].job \in Started \ {n} /\ wire'[m].job = n
          BY <3>1, <3>3, <3>4, <4>2
        <5>2. \A k \in Submits' : wire'[k].job = wire'[i].job => k = i
          BY <3>3, <4>2, <5>1 DEF RepliesMatch
        <5>3. wire'[i] = SubmitReply(wire[i].job)'
          <6>1. PICK j \in Started : j = wire[i].job
            BY <5>1
          <6>2. wire'[i] = SubmitReply(j)'
            BY <2>2, <4>2, <5>1, <6>1 DEF RepliesMatch
          <6> QED BY <5>1, <6>1, <6>2 DEF SubmitReply
        <5> QED BY <2>1, <2>3, <4>2, <5>1, <5>2, <5>3 DEF RepliesMatch
      <4> QED BY <3>3, <4>1, <4>2
    <3> QED BY <3>5 DEF RepliesMatch
  <2> QED BY <2>4, <2>5
<1>4. ASSUME Other PROVE RepliesMatch'
  <2>1. UNCHANGED <<urb, pc, result>> /\ Started' = Started
    BY <1>4, OtherStill
  <2>2. Submits' = Submits /\ \A i \in Submits : wire'[i] = wire[i]
    <3>1. CASE wire' = wire
      BY <3>1 DEF Submits
    <3>2. CASE wire' = Append(wire, UnlinkReply) /\ reader = "answer"
      <4>1. UnlinkReply \in Frames /\ UnlinkReply.kind = "unlink"
        BY <3>2, FramesFit DEF UnlinkReply
      <4>2. Submits' = Submits
        BY <3>2, <4>1, SubmitsGrow
      <4>3. \A i \in 1..Len(wire) : wire'[i] = wire[i]
        BY <3>2, <4>1, WireGrows
      <4> QED BY <4>2, <4>3 DEF Submits
    <3> QED BY <1>4, <3>1, <3>2, OtherWire
  <2>3. \A j \in Started : SubmitReply(j)' = SubmitReply(j)
    BY <2>1 DEF SubmitReply, Silence
  <2> QED BY <2>1, <2>2, <2>3 DEF RepliesMatch
<1> QED BY <1>1, <1>2, <1>3, <1>4, Steps

LEMMA InitFlow ==
  ASSUME Init
  PROVE  FlowInv /\ RepliesMatch
<1>1. /\ Started = {} /\ Len(wire) = 0 /\ \A j \in Jobs : pc[j] = "none" /\ result[j] = NoResult
      /\ buffer = [c \in Cables |-> <<>>]
  BY DEF Init, InitSession, Started
<1>2. Submits = {}
  BY <1>1 DEF Submits
<1>3. \A c \in Cables : Len(buffer[c]) = 0
  BY <1>1, EmptySeq
<1>4. Routed
  BY <1>1 DEF Routed, RoutedJob, NoResult
<1> QED
  BY <1>1, <1>2, <1>3, <1>4 DEF FlowInv, RingsSourced, HeldSourced, RingsApart, HeldApart, RepliesMatch

LEMMA SessionFlow == Spec => [](Types /\ IInv /\ FlowInv /\ RepliesMatch)
<1>1. Init => FlowInv /\ RepliesMatch
  BY InitFlow
<1>2. Types /\ FlowInv /\ RepliesMatch /\ [Next]_vars => FlowInv' /\ RepliesMatch'
  BY FlowStep, RepliesStep
<1> QED BY <1>1, <1>2, SessionInv, PTL DEF Spec

\* The audio of a reply is what its job holds.
LEMMA RepliesHeld ==
  ASSUME Types, RepliesMatch, NEW i \in Submits, wire[i].audio # Silence
  PROVE  wire[i].job \in Started /\ wire[i].audio = Held(wire[i].job)
<1>1. PICK j \in Started : j = wire[i].job /\ pc[j] \in {"finish", "done"} /\ wire[i] = SubmitReply(j)
  BY DEF RepliesMatch
<1>2. SubmitReply(j).audio = IF result[j].status = StatusOK THEN result[j].audio ELSE Silence
  BY DEF SubmitReply
<1> QED BY <1>1, <1>2 DEF Held

\* A chunk that is recorded was played on the very cable that it is recorded from, by a
\* job that handed it over, and no chunk is recorded twice: with any cables, rings,
\* goroutines in the device and hosts.
THEOREM SessionRecordedIsPlayed == Spec => []RecordedIsPlayed
<1>1. Types /\ FlowInv /\ RepliesMatch => RecordedIsPlayed
  <2> SUFFICES ASSUME Types, FlowInv, RepliesMatch PROVE RecordedIsPlayed
    OBVIOUS
  <2>1. ASSUME NEW i \in Submits, wire[i].audio # Silence
        PROVE  /\ wire[i].audio.ep = urb[wire[i].job].endpoint
               /\ wire[i].audio.n \in Started /\ Playback(urb[wire[i].audio.n])
               /\ urb[wire[i].audio.n].endpoint = wire[i].audio.ep
    <3>1. PICK j \in Started : j = wire[i].job /\ wire[i].audio = Held(j) /\ Held(j) # Silence
      BY <2>1, RepliesHeld
    <3>2. Held(j).ep = urb[j].endpoint /\ Origin(Held(j))
      BY <3>1 DEF FlowInv, HeldSourced
    <3> QED BY <3>1, <3>2 DEF Origin
  <2>2. ASSUME NEW i \in Submits, NEW k \in Submits, i # k, wire[i].audio # Silence
        PROVE  wire[i].audio # wire[k].audio
    <3>1. CASE wire[k].audio = Silence
      BY <2>2, <3>1
    <3>2. CASE wire[k].audio # Silence
      <4>1. /\ wire[i].job \in Started /\ wire[i].audio = Held(wire[i].job)
            /\ wire[k].job \in Started /\ wire[k].audio = Held(wire[k].job)
        BY <2>2, <3>2, RepliesHeld
      <4>2. wire[i].job # wire[k].job
        BY <2>2 DEF RepliesMatch
      <4> QED BY <2>2, <4>1, <4>2 DEF FlowInv, HeldApart
    <3> QED BY <3>1, <3>2
  <2> QED BY <2>1, <2>2 DEF RecordedIsPlayed
<1> QED BY <1>1, SessionFlow, PTL

\* A playback URB whose audio was taken is not answered as if nothing of it had been,
\* unless it is given back unfinished; however its interface closes meanwhile.
THEOREM SessionAnswersTellTaken == Spec => []AnswersTellTaken
<1>1. Types /\ IInv /\ FlowInv /\ RepliesMatch => AnswersTellTaken
  <2> SUFFICES ASSUME Types, IInv, FlowInv, RepliesMatch, NEW i \in Submits,
                      Playback(urb[wire[i].job]), wire[i].taken = 0, Kept(Chunk(wire[i].job))
               PROVE  wire[i].status = StatusConnReset /\ CtxDone(wire[i].job)
    BY DEF AnswersTellTaken
  <2>1. PICK j \in Started : j = wire[i].job /\ pc[j] \in {"finish", "done"} /\ wire[i] = SubmitReply(j)
    BY DEF RepliesMatch
  <2>2. PICK x : x = Chunk(j)
    OBVIOUS
  <2>3. x.n = j /\ x # Silence /\ Kept(x)
    <3>1. Kept(x) /\ Playback(urb[j])
      BY <2>1, <2>2
    <3>2. x.n = j /\ x.ep \in Cables
      BY <2>2, <3>1 DEF Chunk, Playback
    <3> QED BY <3>1, <3>2 DEF Cables, Silence
  <2>4. InRing(x) \/ \E k \in Started : Held(k) = x
    <3>1. CASE \E c \in Cables : x \in ToSet(buffer[c])
      <4>1. PICK c \in Cables : x \in ToSet(buffer[c])
        BY <3>1
      <4>2. DOMAIN buffer[c] = 1..Len(buffer[c])
        BY FlowTypes, LenProperties
      <4> QED BY <4>1, <4>2 DEF ToSet, InRing
    <3>2. ASSUME NEW w \in Workers, call[w].op = "read", call[w].chunk = x
          PROVE  \E k \in Started : Held(k) = x
      <4>1. w \in Started /\ pc[w] \in {"writing", "reading"}
        BY <3>2 DEF IInv, CallsOwned, Idle
      <4>2. pc[w] = "reading"
        BY <3>2, <4>1, FlowTypes DEF FlowInv, Routed, RoutedJob
      <4> QED BY <3>2, <4>1, <4>2 DEF Held
    <3>3. ASSUME NEW k \in Jobs, result[k].audio = x
          PROVE  \E l \in Started : Held(l) = x
      <4>1. pc[k] \in {"reply", "finish", "done"}
        BY <2>3, <3>3 DEF FlowInv, Routed, RoutedJob
      <4> QED BY <3>3, <4>1 DEF Held, Started
    <3>4. ASSUME NEW k \in Submits, wire[k].audio = x
          PROVE  \E l \in Started : Held(l) = x
      BY <2>3, <3>4, RepliesHeld
    <3> QED BY <2>3, <3>1, <3>2, <3>3, <3>4 DEF Kept
  <2>5. Origin(x)
    BY <2>3, <2>4 DEF InRing, FlowInv, RingsSourced, HeldSourced
  <2>6. Stored(j)
    BY <2>3, <2>5 DEF Origin
  <2>7. /\ wire[i].status = result[j].status
        /\ wire[i].taken = IF result[j].status = StatusOK THEN result[j].taken ELSE 0
    BY <2>1 DEF SubmitReply
  <2>8. \/ result[j].status = StatusOK /\ result[j].taken = 1
        \/ result[j].status = StatusConnReset /\ CtxDone(j)
    BY <2>1, <2>6 DEF Stored
  <2>9. ~(result[j].status = StatusOK /\ result[j].taken = 1)
    BY <2>7
  <2>10. CtxDone(j) => CtxDone(wire[i].job)
    BY <2>1
  <2> QED BY <2>7, <2>8, <2>9, <2>10
<1> QED BY <1>1, SessionFlow, PTL

-----------------------------------------------------------------------------
(* The session implements UrbService.                                        *)

\* Who is cancelled may be given back, and an UNLINK is served before the next; only
\* an isochronous job is due at a time.
RevokeInv ==
  /\ \A j \in Jobs : cancelled[j] => MayGiveBack(j)
  /\ \A j \in Started : pc[j] \in {"reply", "finish", "done"} /\ result[j].status = StatusConnReset
       => MayGiveBack(j)
  /\ reader \notin {"cancel", "answer"} => unlink.job = 0
  /\ \A j \in Jobs \ Async : deadline[j] = 0

\* The replies that are on the wire stay there.
LEMMA WireKept ==
  ASSUME Types, [Next]_vars
  PROVE  Unlinks \subseteq Unlinks' /\ \A i \in 1..Len(wire) : wire'[i] = wire[i]
<1>1. CASE wire' = wire
  BY <1>1 DEF Unlinks
<1>2. ASSUME NEW f \in Frames, wire' = Append(wire, f)
      PROVE  Unlinks \subseteq Unlinks' /\ \A i \in 1..Len(wire) : wire'[i] = wire[i]
  <2>1. /\ \A i \in 1..Len(wire) : wire'[i] = wire[i]
        /\ Len(wire') = Len(wire) + 1 /\ Len(wire) \in Nat
    BY <1>2, WireGrows
  <2> QED BY <2>1 DEF Unlinks
<1>3. ASSUME NEW u \in host.urbs, NEW q \in NextSeqs, SubmitInline(u, q) \/ SubmitIso(u, q)
      PROVE  wire' = wire
  BY <1>3, SubmitStill
<1>4. ASSUME NEW n \in Started, Serves(n) \/ Finish(n) PROVE wire' = wire
  BY <1>4, ServeFacts, FinishFacts
<1>5. ASSUME NEW n \in Started, WriteReply(n)
      PROVE  wire' = wire \/ \E f \in Frames : wire' = Append(wire, f)
  BY <1>5, WriteFacts, FramesFit
<1>6. ASSUME Other PROVE wire' = wire \/ \E f \in Frames : wire' = Append(wire, f)
  BY <1>6, OtherWire, FramesFit
<1>7. wire' = wire \/ \E f \in Frames : wire' = Append(wire, f)
  BY <1>3, <1>4, <1>5, <1>6, Steps
<1> QED BY <1>1, <1>2, <1>7

LEMMA OtherFlags ==
  ASSUME Types, Other
  PROVE  (stopped => stopped') /\ (ended => ended') /\ (hungUp => hungUp')
<1>1. stopped => stopped'
  BY DEF Other, UnlinkArrives, Unlink, ReaderStep, CancelTarget, AnswerUnlink, Drained, ReadFails,
     HangUp, StopReading, StopServer, Tick, AtRest, vars, hostVars
<1>2. ended => ended'
  <2>1. CASE AnswerUnlink \/ ReadFails
    BY <2>1 DEF AnswerUnlink, ReadFails, Leave
  <2>2. CASE ~(AnswerUnlink \/ ReadFails)
    BY <2>2 DEF Other, UnlinkArrives, Unlink, ReaderStep, CancelTarget, Drained, HangUp,
       StopReading, StopServer, Tick, AtRest, vars, environmentOf
  <2> QED BY <2>1, <2>2
<1> QED BY <1>1, <1>2, OtherFacts DEF Other

\* What may be given back may be given back from then on.
LEMMA GiveBackStep ==
  ASSUME Types, [Next]_vars, NEW j \in Jobs, MayGiveBack(j),
         reader \notin {"cancel", "answer"} => unlink.job = 0
  PROVE  MayGiveBack(j)'
<1>1. j # 0 /\ Started \subseteq Jobs
  BY JobsFit, FlowTypes
<1>2. Started \subseteq Started' /\ \A i \in Started : urb'[i] = urb[i]
  <2>1. ASSUME NEW u \in host.urbs, NEW q \in NextSeqs, SubmitInline(u, q) \/ SubmitIso(u, q)
        PROVE  Started \subseteq Started' /\ \A i \in Started : urb'[i] = urb[i]
    BY <2>1, SubmitStill
  <2>2. ASSUME NEW n \in Started, Serves(n) \/ WriteReply(n) \/ Finish(n)
        PROVE  Started \subseteq Started' /\ \A i \in Started : urb'[i] = urb[i]
    BY <2>2, ServeFacts, StillFacts
  <2>3. ASSUME Other PROVE Started \subseteq Started' /\ \A i \in Started : urb'[i] = urb[i]
    BY <2>3, OtherStill
  <2> QED BY <2>1, <2>2, <2>3, Steps
<1>3. (stopped => stopped') /\ (ended => ended') /\ (hungUp => hungUp')
  <2>1. ASSUME NEW u \in host.urbs, NEW q \in NextSeqs, SubmitInline(u, q) \/ SubmitIso(u, q)
        PROVE  UNCHANGED <<stopped, ended, hungUp>>
    BY <2>1 DEF SubmitInline, SubmitIso, hostVars
  <2>2. ASSUME NEW n \in Started, Serves(n) PROVE UNCHANGED <<stopped, ended, hungUp>>
    BY <2>2, ServeEffect DEF sessionVars, hostVars
  <2>3. ASSUME NEW n \in Started, WriteReply(n) \/ Finish(n)
        PROVE  stopped' = stopped /\ (ended => ended') /\ hungUp' = hungUp
    BY <2>3, StillFacts, WriteFacts, FinishFacts
  <2>4. ASSUME Other PROVE (stopped => stopped') /\ (ended => ended') /\ (hungUp => hungUp')
    BY <2>4, OtherFlags
  <2> QED BY <2>1, <2>2, <2>3, <2>4, Steps
<1>4. CASE unlink.job = j
  <2>1. CASE unlink' = unlink
    BY <1>4, <2>1 DEF MayGiveBack
  <2>2. CASE AnswerUnlink
    <3>1. CASE hungUp
      BY <1>3, <3>1 DEF MayGiveBack
    <3>2. CASE ~hungUp
      <4>1. wire' = Append(wire, UnlinkReply) /\ reader = "answer"
        BY <2>2, <3>2 DEF AnswerUnlink
      <4>2. UnlinkReply \in Frames /\ UnlinkReply.kind = "unlink" /\ UnlinkReply.job = j
        BY <1>4, <4>1, FramesFit DEF UnlinkReply
      <4>3. wire'[Len(wire) + 1] = UnlinkReply /\ Len(wire) + 1 \in Unlinks'
        BY <4>1, <4>2, WireGrows
      <4> QED BY <4>2, <4>3 DEF MayGiveBack
    <3> QED BY <3>1, <3>2
  <2>3. CASE UnlinkArrives
    BY <1>1, <1>4, <2>3 DEF UnlinkArrives, Unlink
  <2>4. unlink' = unlink \/ AnswerUnlink \/ UnlinkArrives
    <3>1. ASSUME NEW u \in host.urbs, NEW q \in NextSeqs, SubmitInline(u, q) \/ SubmitIso(u, q)
          PROVE  unlink' = unlink
      BY <3>1 DEF SubmitInline, SubmitIso
    <3>2. ASSUME NEW n \in Started, Serves(n) \/ Finish(n) PROVE unlink' = unlink
      BY <3>2, ServeFacts, FinishFacts
    <3>3. ASSUME NEW n \in Started, WriteReply(n) PROVE unlink' = unlink
      BY <3>3, WriteFacts
    <3>4. ASSUME Other PROVE unlink' = unlink \/ AnswerUnlink \/ UnlinkArrives
      BY <3>4 DEF Other, ReaderStep, CancelTarget, Drained, ReadFails, HangUp, StopReading,
         StopServer, Tick, AtRest, vars, environmentOf
    <3> QED BY <3>1, <3>2, <3>3, <3>4, Steps
  <2> QED BY <2>1, <2>2, <2>3, <2>4
<1>5. CASE stopped \/ ended \/ hungUp
  BY <1>3, <1>5 DEF MayGiveBack
<1>6. CASE \E i \in Unlinks : wire[i].job = j
  <2>1. PICK i \in Unlinks : wire[i].job = j
    BY <1>6
  <2>2. i \in Unlinks' /\ wire'[i] = wire[i]
    BY <2>1, WireKept DEF Unlinks
  <2> QED BY <2>1, <2>2 DEF MayGiveBack
<1>7. CASE \E i \in Started : i > j /\ urb[i].seq = urb[j].seq
  <2>1. PICK i \in Started : i > j /\ urb[i].seq = urb[j].seq
    BY <1>7
  <2>2. j \in Started
    <3>1. Started = 1..Len(urb) /\ Jobs \subseteq Nat \ {0}
      BY JobsFit DEF Types, TypeOK
    <3> QED BY <2>1, <3>1
  <2> QED BY <1>2, <2>1, <2>2 DEF MayGiveBack
<1> QED BY <1>4, <1>5, <1>6, <1>7 DEF MayGiveBack

\* A job is given back only when its context is done.
LEMMA ResetEffect ==
  ASSUME Types, NEW j \in Started, Serves(j), pc'[j] = "reply", result'[j].status = StatusConnReset
  PROVE  CtxDone(j)
<1>1. result \in [Jobs -> Results] /\ pc \in [Jobs -> Places] /\ j \in Jobs
  BY ResultTypes, StartedJob DEF Types, TypeOK, Places
<1>2. \A l : Goto(j, l) => l = "reply"
  BY <1>1 DEF Goto
<1>3. \A s, t, a : Answer(j, s, t, a) => s = StatusConnReset
  BY <1>1 DEF Answer
<1>4. StatusOK # StatusConnReset /\ StatusPipe # StatusConnReset
  BY DEF StatusOK, StatusPipe, StatusConnReset
<1>5. ASSUME NEW t, Played(j, t) PROVE FALSE
  BY <1>2, <1>3, <1>4, <1>5 DEF Played
<1>6. ASSUME Completed(j) PROVE FALSE
  BY <1>2, <1>3, <1>4, <1>6 DEF Completed
<1>7. CASE ServeControl(j)
  <2>1. Answer(j, answer'.status, 0, Silence) /\ answer'.status \in {StatusOK, StatusPipe}
    BY <1>7, ControlStatus DEF ServeControl, Answer
  <2> QED BY <1>3, <1>4, <2>1
<1>8. CASE Route(j)
  <2>1. First(urb[j]) # "reply"
    BY DEF First
  <2> QED BY <1>2, <1>3, <1>4, <1>8, <2>1 DEF Route
<1>9. CASE AskPlayback(j)
  BY <1>2, <1>5, <1>9 DEF AskPlayback
<1>10. CASE InDevice(j)
  BY <1>10 DEF InDevice
<1>11. CASE PlaybackWritten(j)
  BY <1>5, <1>11 DEF PlaybackWritten
<1>12. CASE Wait(j) \/ TimerFires(j)
  BY <1>2, <1>6, <1>12 DEF Wait, TimerFires
<1>13. CASE WaitCancelled(j)
  BY <1>13 DEF WaitCancelled
<1>14. CASE AskCapture(j) \/ CaptureRead(j)
  BY <1>2, <1>3, <1>4, <1>14 DEF AskCapture, CaptureRead
<1> QED BY <1>7, <1>8, <1>9, <1>10, <1>11, <1>12, <1>13, <1>14 DEF Serves


LEMMA RevokeStep ==
  ASSUME Types, IInv, RevokeInv, [Next]_vars
  PROVE  RevokeInv'
<1>0. Types' /\ AsyncFinishes /\ PendingIsLive /\ InlineServed
  BY NextTypes DEF IInv
<1>1. \A j \in Jobs : MayGiveBack(j) => MayGiveBack(j)'
  BY GiveBackStep DEF RevokeInv
<1>2. /\ Started \subseteq Jobs /\ Started' \subseteq Jobs /\ Jobs \subseteq Nat \ {0}
      /\ Async \subseteq Started
  BY AsyncJobs DEF Started
<1>3. ASSUME NEW j \in Jobs, cancelled'[j] PROVE MayGiveBack(j)'
  <2>1. ASSUME NEW u \in host.urbs, NEW q \in NextSeqs, SubmitInline(u, q) \/ SubmitIso(u, q),
               ~cancelled[j]
        PROVE  MayGiveBack(j)'
    <3>1. PICK n \in Jobs : n = Len(urb) + 1
      BY <2>1, SubmitFacts
    <3>2. /\ q \in Seqs /\ Started' = Started \cup {n} /\ urb'[n].seq = q
          /\ \A i \in Started : urb'[i] = urb[i] /\ i < n
          /\ j = pending[q]
      BY <1>3, <2>1, <3>1, SubmitFacts
    <3>3. j \in Started /\ urb[j].seq = q
      BY <1>0, <1>2, <3>2 DEF PendingIsLive
    <3>4. n \in Started' /\ n > j /\ urb'[n].seq = urb'[j].seq
      BY <1>2, <3>2, <3>3
    <3> QED BY <3>4 DEF MayGiveBack
  <2>2. ASSUME NEW n \in Started, Serves(n) \/ WriteReply(n) \/ Finish(n) PROVE cancelled[j]
    BY <1>3, <2>2, ServeFacts, WriteFacts, FinishFacts
  <2>3. ASSUME Other PROVE cancelled[j] \/ MayGiveBack(j)'
    <3>1. CASE CancelTarget
      <4>1. unlink' = unlink /\ cancelled' = [cancelled EXCEPT ![unlink.job] = TRUE]
        BY <3>1 DEF CancelTarget
      <4>2. cancelled[j] \/ unlink'.job = j
        BY <1>3, <4>1
      <4> QED BY <4>2 DEF MayGiveBack
    <3>2. CASE ~CancelTarget
      <4>1. cancelled' = cancelled
        BY <2>3, <3>2 DEF Other, UnlinkArrives, Unlink, ReaderStep, AnswerUnlink, Drained,
           ReadFails, HangUp, StopReading, StopServer, Tick, AtRest, vars, environmentOf
      <4> QED BY <1>3, <4>1
    <3> QED BY <3>1, <3>2
  <2> QED BY <1>1, <2>1, <2>2, <2>3, Steps DEF RevokeInv
<1>4. ASSUME NEW j \in Started', pc'[j] \in {"reply", "finish", "done"},
             result'[j].status = StatusConnReset
      PROVE  MayGiveBack(j)'
  <2>1. ASSUME j \in Started, pc[j] \in {"reply", "finish", "done"}, result'[j] = result[j]
        PROVE  MayGiveBack(j)'
    BY <1>1, <1>2, <1>4, <2>1 DEF RevokeInv
  <2>2. ASSUME NEW u \in host.urbs, NEW q \in NextSeqs, SubmitInline(u, q) \/ SubmitIso(u, q)
        PROVE  MayGiveBack(j)'
    BY <1>4, <2>1, <2>2, SubmitStill
  <2>3. ASSUME NEW n \in Started, Serves(n) PROVE MayGiveBack(j)'
    <3>1. CASE j = n
      <4>1. pc'[n] = "reply" /\ n \in Jobs
        BY <1>4, <2>3, <3>1, ServeFacts
      <4>2. CtxDone(n)
        BY <1>4, <2>3, <3>1, <4>1, ResetEffect
      <4>3. MayGiveBack(n)
        BY <4>1, <4>2 DEF CtxDone, MayGiveBack, RevokeInv
      <4> QED BY <1>1, <3>1, <4>1, <4>3
    <3>2. CASE j # n
      BY <1>2, <1>4, <2>1, <2>3, <3>2, ServeFacts
    <3> QED BY <3>1, <3>2
  <2>4. ASSUME NEW n \in Started, WriteReply(n) \/ Finish(n) PROVE MayGiveBack(j)'
    BY <1>2, <1>4, <2>1, <2>4, StillFacts
  <2>5. ASSUME Other PROVE MayGiveBack(j)'
    BY <1>4, <2>1, <2>5, OtherStill
  <2> QED BY <2>2, <2>3, <2>4, <2>5, Steps
<1>5. reader' \notin {"cancel", "answer"} => unlink'.job = 0
  <2>1. ASSUME NEW u \in host.urbs, NEW q \in NextSeqs, SubmitInline(u, q) \/ SubmitIso(u, q)
        PROVE  unlink'.job = 0
    BY <2>1, SubmitFacts DEF RevokeInv
  <2>2. ASSUME NEW n \in Started, Serves(n) \/ Finish(n)
        PROVE  reader' = reader /\ unlink' = unlink
    BY <2>2, ServeFacts, FinishFacts
  <2>3. ASSUME NEW n \in Started, WriteReply(n)
        PROVE  unlink' = unlink /\ (reader' = reader \/ reader = "busy")
    BY <1>0, <2>3, WriteFacts DEF InlineServed
  <2>4. ASSUME Other PROVE reader' \notin {"cancel", "answer"} => unlink'.job = 0
    <3>1. CASE UnlinkArrives \/ CancelTarget
      BY <3>1 DEF UnlinkArrives, Unlink, CancelTarget
    <3>2. CASE AnswerUnlink
      BY <3>2 DEF AnswerUnlink, NoUnlink
    <3>3. CASE Drained \/ ReadFails
      BY <3>3 DEF Drained, ReadFails, RevokeInv
    <3>4. CASE ~(UnlinkArrives \/ ReaderStep \/ ReadFails)
      BY <2>4, <3>4 DEF Other, HangUp, StopReading, StopServer, Tick, AtRest, vars, environmentOf,
         RevokeInv
    <3> QED BY <3>1, <3>2, <3>3, <3>4 DEF ReaderStep
  <2> QED BY <2>1, <2>2, <2>3, <2>4, Steps DEF RevokeInv
<1>6. ASSUME NEW j \in Jobs \ Async' PROVE deadline'[j] = 0
  <2>1. ASSUME NEW u \in host.urbs, NEW q \in NextSeqs, SubmitInline(u, q) \/ SubmitIso(u, q)
        PROVE  j \notin Async /\ deadline'[j] = deadline[j]
    <3>1. PICK n \in Jobs : n = Len(urb) + 1
      BY <2>1, SubmitFacts
    <3> QED BY <1>6, <2>1, <3>1, SubmitFacts
  <2>2. ASSUME NEW n \in Started, Serves(n) \/ WriteReply(n) \/ Finish(n)
        PROVE  Async' = Async /\ deadline' = deadline
    BY <2>2, ServeFacts, WriteFacts, FinishFacts
  <2>3. ASSUME Other PROVE Async' = Async /\ deadline' = deadline
    BY <2>3, OtherFacts DEF Other
  <2> QED BY <1>6, <2>1, <2>2, <2>3, Steps DEF RevokeInv
<1> QED BY <1>3, <1>4, <1>5, <1>6 DEF RevokeInv

\* Sequences given by a function of their index.
LEMMA LenOfUrbs ==
  ASSUME NEW n \in Nat, NEW q, DOMAIN q = 1..n, q = [i \in 1..n |-> q[i]]
  PROVE  Len(q) = n
<1>1. q \in Seq({q[i] : i \in 1..n})
  BY SeqDef
<1> QED BY <1>1, LenProperties

LEMMA PrefixOfUrbs ==
  ASSUME NEW n \in Nat, NEW q, DOMAIN q = 1..n + 1, q = [i \in 1..n + 1 |-> q[i]]
  PROVE  SubSeq(q, 1, n) = [i \in 1..n |-> q[i]]
<1>1. q \in Seq({q[i] : i \in 1..n + 1}) /\ Len(q) = n + 1
  BY SeqDef, LenOfUrbs
<1> QED BY <1>1, SubSeqProperties

\* What UrbService sees of the session: the step of one URB, or of none.
LEMMA UrbsOf ==
  ASSUME Types
  PROVE  /\ Len(urb) \in Nat /\ Started = 1..Len(urb)
         /\ Len(ServiceUrbs) = Len(urb) /\ DOMAIN ServiceUrbs = 1..Len(urb)
         /\ \A j \in Started : ServiceUrbs[j] = ServiceUrb(j)
<1>1. Len(urb) \in Nat /\ Started = 1..Len(urb)
  BY DEF Types, TypeOK
<1> QED BY <1>1, LenOfUrbs DEF ServiceUrbs

LEMMA UrbsKept ==
  ASSUME Types, Types', Len(urb') = Len(urb), \A j \in Started : ServiceUrb(j)' = ServiceUrb(j)
  PROVE  ServiceUrbs' = ServiceUrbs
BY UrbsOf DEF ServiceUrbs

\* The answers on the wire stay there, when no SUBMIT is answered.
LEMMA AnswersKept ==
  ASSUME Submits' = Submits, \A k \in Submits : wire'[k] = wire[k]
  PROVE  \A j : AnswersOf(j)' = AnswersOf(j)
BY DEF AnswersOf

LEMMA ServiceAccepts ==
  ASSUME Types, Types', RepliesMatch,
         NEW u \in host.urbs, NEW q \in NextSeqs, SubmitInline(u, q) \/ SubmitIso(u, q)
  PROVE  Service!Accept
<1>1. PICK n \in Jobs : n = Len(urb) + 1
  BY SubmitFacts
<1>2. /\ n \notin Started /\ pc'[n] = "start" /\ Len(urb') = n /\ wire' = wire
      /\ \A i \in Started : urb'[i] = urb[i] /\ pc'[i] = pc[i]
      /\ \A i \in Jobs \ {n} : deadline'[i] = deadline[i]
      /\ Started' = Started \cup {n}
  BY <1>1, SubmitFacts
<1>3. /\ Len(urb) \in Nat /\ Started = 1..Len(urb) /\ Started \subseteq Jobs
      /\ Len(ServiceUrbs) = Len(urb) /\ \A j \in Started : ServiceUrbs[j] = ServiceUrb(j)
  BY UrbsOf, FlowTypes
<1>4. Submits' = Submits /\ \A j : AnswersOf(j)' = AnswersOf(j)
  <2>1. Submits' = Submits
    BY <1>2 DEF Submits
  <2> QED BY <1>2, <2>1, AnswersKept
<1>5. AnswersOf(n) = {}
  BY <1>2 DEF AnswersOf, RepliesMatch
<1>6. \A j \in Started : ServiceUrb(j)' = ServiceUrb(j)
  BY <1>2, <1>3, <1>4 DEF ServiceUrb
<1>7. ServiceUrb(n)' = [ordered |-> Inline(urb'[n]), due |-> deadline'[n], answers |-> {},
                        over |-> FALSE]
  BY <1>2, <1>4, <1>5 DEF ServiceUrb
<1>8. /\ Len(ServiceUrbs') = n /\ ServiceUrbs' = [j \in 1..n |-> ServiceUrb(j)']
  BY <1>2, LenOfUrbs DEF ServiceUrbs
<1>9. SubSeq(ServiceUrbs', 1, Len(ServiceUrbs)) = ServiceUrbs
  <2>1. ServiceUrbs = [j \in 1..n - 1 |-> ServiceUrb(j)'] /\ n - 1 \in Nat
    BY <1>1, <1>3, <1>6 DEF ServiceUrbs
  <2> QED BY <1>1, <1>3, <1>8, <2>1, PrefixOfUrbs
<1>10. ServiceUrbs'[n] = ServiceUrb(n)'
  BY <1>1, <1>3, <1>8
<1> QED BY <1>1, <1>3, <1>7, <1>8, <1>9, <1>10 DEF Service!Accept

\* A step that answers nothing and ends no job changes nothing of the service.
LEMMA ServiceSleeps ==
  ASSUME Types, Types', UNCHANGED <<urb, deadline>>, Started' = Started, Submits' = Submits,
         \A k \in Submits : wire'[k] = wire[k],
         \A j \in Started : pc'[j] = "done" <=> pc[j] = "done"
  PROVE  ServiceUrbs' = ServiceUrbs
<1>1. \A j \in Started : ServiceUrb(j)' = ServiceUrb(j)
  BY AnswersKept DEF ServiceUrb
<1> QED BY <1>1, UrbsKept

LEMMA ServiceForgets ==
  ASSUME Types, Types', UNCHANGED <<urb, deadline, wire>>, NEW n \in Started, pc'[n] = "done",
         \A i \in Jobs \ {n} : pc'[i] = pc[i], Told(n) \/ hungUp
  PROVE  Service!Forget(n)
<1>1. /\ DOMAIN ServiceUrbs = Started /\ ServiceUrbs = [j \in Started |-> ServiceUrb(j)]
      /\ Started \subseteq Jobs /\ Started' = 1..Len(urb') /\ Started = 1..Len(urb)
  BY UrbsOf, FlowTypes DEF ServiceUrbs, Types, TypeOK
<1>2. ServiceUrbs' = [j \in Started |-> ServiceUrb(j)']
  BY <1>1 DEF ServiceUrbs
<1>3. \A j : AnswersOf(j)' = AnswersOf(j)
  BY AnswersKept DEF Submits
<1>4. \A j \in Started \ {n} : ServiceUrb(j)' = ServiceUrb(j)
  BY <1>1, <1>3 DEF ServiceUrb
<1>5. ServiceUrb(n)' = [ordered |-> Inline(urb[n]), due |-> deadline[n],
                        answers |-> AnswersOf(n), over |-> TRUE]
  BY <1>3 DEF ServiceUrb
<1>6. ServiceUrbs' = [ServiceUrbs EXCEPT ![n].over = TRUE]
  <2>1. ServiceUrbs' = [ServiceUrbs EXCEPT ![n] = ServiceUrb(n)']
    BY <1>1, <1>2, <1>4
  <2>2. PICK x : x = TRUE
    OBVIOUS
  <2>3. PICK o, d, a, v :
          /\ o = Inline(urb[n]) /\ d = deadline[n] /\ a = AnswersOf(n) /\ v = (pc[n] = "done")
    OBVIOUS
  <2>4. /\ ServiceUrbs[n] = [ordered |-> o, due |-> d, answers |-> a, over |-> v]
        /\ ServiceUrb(n)' = [ordered |-> o, due |-> d, answers |-> a, over |-> x]
    BY <1>1, <1>5, <2>2, <2>3 DEF ServiceUrb
  <2>5. PICK s : s = [ServiceUrbs[n] EXCEPT !.over = x]
    OBVIOUS
  <2>6. /\ DOMAIN s = {"ordered", "due", "answers", "over"} /\ s = [f \in DOMAIN s |-> s[f]]
        /\ s.ordered = o /\ s.due = d /\ s.answers = a /\ s.over = x
    BY ONLY <2>4, <2>5
  <2>7. s = [ordered |-> o, due |-> d, answers |-> a, over |-> x]
    BY ONLY <2>6
  <2>8. ServiceUrbs' = [ServiceUrbs EXCEPT ![n].over = x]
    BY <1>1, <2>1, <2>4, <2>5, <2>7
  <2> QED BY <2>2, <2>8
<1>7. ServiceUrbs[n].answers # {} \/ hungUp
  <2>1. ServiceUrbs[n].answers = AnswersOf(n)
    BY <1>1 DEF ServiceUrb
  <2> QED BY ZenonT(30), <2>1 DEF Told, AnswersOf
<1> QED BY <1>6, <1>7 DEF Service!Forget

\* A reply that reaches the host is the only one of its URB, in its time, and in the order
\* of the bus for what the reader serves itself.
LEMMA ServiceAnswers ==
  ASSUME Types, Types', IInv, RepliesMatch, RevokeInv, NEW n \in Started, WriteReply(n), ~hungUp
  PROVE  \E a \in ServiceUrbs'[n].answers, o \in BOOLEAN : Service!GiveAnswer(n, a, o)
<1> DEFINE a == [at |-> Len(wire) + 1, status |-> result[n].status]
           o == Inline(urb[n])
<1>1. /\ DOMAIN ServiceUrbs = Started /\ ServiceUrbs = [j \in Started |-> ServiceUrb(j)]
      /\ Started \subseteq Jobs /\ Started' = 1..Len(urb') /\ Started = 1..Len(urb)
      /\ Len(urb) \in Nat
  BY UrbsOf, FlowTypes DEF ServiceUrbs, Types, TypeOK
<1>2. /\ n \in Jobs /\ pc[n] = "reply" /\ pc'[n] = (IF o THEN "done" ELSE "finish")
      /\ \A i \in Jobs \ {n} : pc'[i] = pc[i]
      /\ UNCHANGED <<urb, deadline>> /\ wire' = Append(wire, SubmitReply(n))
  BY WriteFacts
<1>3. ServiceUrbs' = [j \in Started |-> ServiceUrb(j)']
  BY <1>1, <1>2 DEF ServiceUrbs
<1>4. PICK p \in Nat : p = Len(wire) + 1
  BY <1>2, FramesFit, WireGrows
<1>5. /\ wire'[p] = SubmitReply(n) /\ \A i \in Submits : wire'[i] = wire[i] /\ i # p
      /\ Submits' = Submits \cup {p}
  <2>1. SubmitReply(n) \in Frames /\ SubmitReply(n).kind = "submit"
    BY FramesFit DEF SubmitReply
  <2>2. Submits \subseteq 1..Len(wire) /\ Len(wire) \in Nat
    BY <1>2, <2>1, WireGrows
  <2> QED BY <1>2, <1>4, <2>1, <2>2, WireGrows, SubmitsGrow
<1>6. SubmitReply(n).job = n /\ SubmitReply(n).status = result[n].status
  BY DEF SubmitReply
<1>7. AnswersOf(n) = {}
  BY <1>2 DEF AnswersOf, RepliesMatch
<1>8. AnswersOf(n)' = {a}
  <2>1. {k \in Submits' : wire'[k].job = n} = {p}
    <3>1. \A k \in Submits : wire[k].job # n
      BY <1>2 DEF RepliesMatch
    <3> QED BY <1>5, <1>6, <3>1
  <2> QED BY <1>4, <1>5, <1>6, <2>1 DEF AnswersOf
<1>9. \A j \in Started \ {n} : AnswersOf(j)' = AnswersOf(j)
  <2> TAKE j \in Started \ {n}
  <2>1. {k \in Submits' : wire'[k].job = j} = {k \in Submits : wire[k].job = j}
    BY <1>5, <1>6
  <2> QED BY <1>5, <2>1 DEF AnswersOf
<1> HIDE DEF a
<1>10. o \in BOOLEAN /\ (o <=> pc'[n] = "done")
  BY <1>2 DEF Inline
<1>11. \A j \in Started \ {n} : ServiceUrb(j)' = ServiceUrb(j)
  BY <1>1, <1>2, <1>9 DEF ServiceUrb
<1>12. /\ ServiceUrb(n) = [ordered |-> o, due |-> deadline[n], answers |-> {}, over |-> FALSE]
       /\ ServiceUrb(n)' = [ordered |-> o, due |-> deadline[n], answers |-> {a}, over |-> o]
  BY <1>2, <1>7, <1>8, <1>10 DEF ServiceUrb
<1>13. o => \A i \in 1..n - 1 : Inline(urb[i]) => pc[i] = "done"
  BY <1>1, <1>2 DEF IInv, InlineServed
<1>14. a.status \in {StatusOK, StatusPipe, StatusConnReset}
  <2>1. result[n] \in Results
    BY <1>2, ResultTypes
  <2> QED BY <2>1 DEF a, Results
<1>15. a.status = StatusOK => now >= deadline[n]
  <2>1. CASE n \in Async
    BY <1>2, <2>1 DEF a, IInv, NeverEarly
  <2>2. CASE n \notin Async
    BY <1>2, <2>2 DEF RevokeInv, Types, TypeOK
  <2> QED BY <2>1, <2>2
<1>16. a.status = StatusConnReset => n \in Revoked
  BY <1>2 DEF a, RevokeInv, Revoked
<1> HIDE DEF o
<1>17. ServiceUrbs' = [ServiceUrbs EXCEPT ![n].answers = {a}, ![n].over = o]
  <2>1. ServiceUrbs' = [ServiceUrbs EXCEPT ![n] = ServiceUrb(n)']
    BY <1>1, <1>3, <1>11
  <2>2. PICK d, b, v : d = deadline[n] /\ b = {} /\ v = FALSE
    OBVIOUS
  <2>3. /\ ServiceUrbs[n] = [ordered |-> o, due |-> d, answers |-> b, over |-> v]
        /\ ServiceUrb(n)' = [ordered |-> o, due |-> d, answers |-> {a}, over |-> o]
    BY <1>1, <1>12, <2>2
  <2>4. PICK s : s = [ServiceUrbs[n] EXCEPT !.answers = {a}]
    OBVIOUS
  <2>5. /\ DOMAIN s = {"ordered", "due", "answers", "over"} /\ s = [f \in DOMAIN s |-> s[f]]
        /\ s.ordered = o /\ s.due = d /\ s.answers = {a}
    BY ONLY <2>3, <2>4
  <2>6. PICK t : t = [s EXCEPT !.over = o]
    OBVIOUS
  <2>7. /\ DOMAIN t = {"ordered", "due", "answers", "over"} /\ t = [f \in DOMAIN t |-> t[f]]
        /\ t.ordered = o /\ t.due = d /\ t.answers = {a} /\ t.over = o
    BY ONLY <2>5, <2>6
  <2>8. t = [ordered |-> o, due |-> d, answers |-> {a}, over |-> o]
    BY ONLY <2>7
  <2>9. PICK r : r = [ServiceUrbs EXCEPT ![n].answers = {a}]
    OBVIOUS
  <2>10. r = [ServiceUrbs EXCEPT ![n] = s] /\ r[n] = s /\ DOMAIN r = DOMAIN ServiceUrbs
    BY <1>1, <2>4, <2>9
  <2>11. [r EXCEPT ![n].over = o] = [r EXCEPT ![n] = t]
    BY <2>6, <2>10
  <2>12. [r EXCEPT ![n] = t] = [ServiceUrbs EXCEPT ![n] = t]
    BY <2>10
  <2> QED BY <2>1, <2>3, <2>8, <2>9, <2>11, <2>12
<1>18. /\ ServiceUrbs[n] = ServiceUrb(n) /\ ServiceUrbs'[n].answers = {a}
       /\ \A i \in 1..n - 1 : /\ ServiceUrbs[i].ordered = Inline(urb[i])
                              /\ ServiceUrbs[i].over = (pc[i] = "done")
  <2>1. \A i \in 1..n - 1 : i \in Started
    BY <1>1
  <2>2. \A i \in 1..n - 1 : ServiceUrbs[i] = ServiceUrb(i)
    BY <1>1, <2>1
  <2> QED BY <1>1, <1>3, <1>12, <2>2 DEF ServiceUrb
<1>19. Service!GiveAnswer(n, a, o)
  <2>1. ServiceUrbs[n].answers = {} /\ ~ServiceUrbs[n].over
        /\ ServiceUrbs[n].due = deadline[n] /\ ServiceUrbs[n].ordered = o
    BY <1>12, <1>18
  <2>2. ServiceUrbs[n].ordered =>
          \A i \in 1..n - 1 : ServiceUrbs[i].ordered => ServiceUrbs[i].over
    BY <1>13, <1>18, <2>1
  <2> QED BY <1>14, <1>15, <1>16, <1>17, <2>1, <2>2 DEF Service!GiveAnswer
<1> QED BY <1>10, <1>18, <1>19

LEMMA ServiceStep ==
  ASSUME Types, IInv, WireInv, RepliesMatch, RevokeInv, [Next]_vars
  PROVE  [Service!ServiceNext]_(Service!serviceVars)
<1>1. Types'
  BY NextTypes
<1>2. Started \subseteq Jobs /\ Started' \subseteq Jobs /\ Started = 1..Len(urb)
      /\ Len(ServiceUrbs) = Len(urb)
  BY FlowTypes, UrbsOf DEF Started
<1>3. hungUp \in BOOLEAN /\ now \in Nat
  BY DEF Types, TypeOK
<1> DEFINE Urb == \/ ServiceUrbs' = ServiceUrbs
                  \/ Service!Accept
                  \/ \E j \in 1..Len(ServiceUrbs) :
                       \/ \E a \in ServiceUrbs'[j].answers, o \in BOOLEAN : Service!GiveAnswer(j, a, o)
                       \/ Service!Forget(j)
           Rest == Started \subseteq Started' /\ (hungUp => hungUp') /\ now' \in {now, now + 1}
<1>4. ASSUME NEW u \in host.urbs, NEW q \in NextSeqs, SubmitInline(u, q) \/ SubmitIso(u, q)
      PROVE  Urb /\ Rest
  <2>1. Service!Accept
    BY <1>1, <1>4, ServiceAccepts
  <2>2. Rest
    BY <1>3, <1>4, SubmitFacts
  <2> QED BY <2>1, <2>2
<1>5. ASSUME NEW n \in Started, Serves(n) PROVE Urb /\ Rest
  <2>1. /\ Started' = Started /\ UNCHANGED <<urb, deadline, wire, hungUp, now>> /\ n \in Jobs
        /\ pc'[n] # "done" /\ pc[n] # "done" /\ \A i \in Jobs \ {n} : pc'[i] = pc[i]
    BY <1>5, ServeFacts
  <2>2. Submits' = Submits
    BY <2>1 DEF Submits
  <2>3. ServiceUrbs' = ServiceUrbs
    BY <1>1, <1>2, <2>1, <2>2, ServiceSleeps
  <2> QED BY <2>1, <2>3
<1>6. ASSUME NEW n \in Started, WriteReply(n) PROVE Urb /\ Rest
  <2>1. /\ Started' = Started /\ UNCHANGED <<urb, deadline, hungUp, now>> /\ n \in Jobs
        /\ pc[n] = "reply" /\ pc'[n] = IF Inline(urb[n]) THEN "done" ELSE "finish"
        /\ \A i \in Jobs \ {n} : pc'[i] = pc[i] /\ (hungUp => wire' = wire)
    BY <1>6, WriteFacts
  <2>2. CASE ~hungUp
    BY <1>1, <1>2, <1>6, <2>1, <2>2, ServiceAnswers
  <2>3. CASE hungUp /\ Inline(urb[n])
    <3>1. wire' = wire
      BY <1>6, <2>3, WriteFacts
    <3>2. Service!Forget(n)
      BY <1>1, <2>1, <2>3, <3>1, ServiceForgets
    <3> QED BY <1>2, <2>1, <3>2
  <2>4. CASE hungUp /\ ~Inline(urb[n])
    <3>1. wire' = wire
      BY <1>6, <2>4, WriteFacts
    <3>2. Submits' = Submits
      BY <3>1 DEF Submits
    <3>3. ServiceUrbs' = ServiceUrbs
      BY <1>1, <1>2, <2>1, <2>4, <3>1, <3>2, ServiceSleeps
    <3> QED BY <2>1, <3>3
  <2> QED BY <2>2, <2>3, <2>4
<1>7. ASSUME NEW n \in Started, Finish(n) PROVE Urb /\ Rest
  <2>1. /\ Started' = Started /\ UNCHANGED <<urb, deadline, wire, hungUp, now>> /\ n \in Jobs
        /\ pc[n] = "finish" /\ pc'[n] = "done" /\ \A i \in Jobs \ {n} : pc'[i] = pc[i]
    BY <1>7, FinishFacts
  <2>2. Told(n) \/ hungUp
    BY <2>1 DEF WireInv, AnswersTold
  <2>3. Service!Forget(n)
    BY <1>1, <2>1, <2>2, ServiceForgets
  <2> QED BY <1>2, <2>1, <2>3
<1>8. ASSUME Other PROVE Urb /\ Rest
  <2>1. UNCHANGED <<urb, pc, deadline>> /\ Started' = Started /\ (hungUp => hungUp')
    BY <1>8, OtherFacts DEF Other
  <2>2. Submits' = Submits /\ \A k \in Submits : wire'[k] = wire[k]
    <3>1. CASE wire' = wire
      BY <3>1 DEF Submits
    <3>2. CASE reader = "answer" /\ wire' = Append(wire, UnlinkReply)
      <4>1. UnlinkReply \in Frames /\ UnlinkReply.kind = "unlink"
        BY <3>2, FramesFit DEF UnlinkReply
      <4> QED BY <3>2, <4>1, WireGrows, SubmitsGrow
    <3> QED BY <1>8, <3>1, <3>2, OtherWire
  <2>3. ServiceUrbs' = ServiceUrbs
    BY <1>1, <2>1, <2>2, ServiceSleeps
  <2>4. now' \in {now, now + 1}
    BY <1>8 DEF Other, UnlinkArrives, Unlink, ReaderStep, CancelTarget, AnswerUnlink, Drained,
       ReadFails, HangUp, StopReading, StopServer, Tick, AtRest, vars
  <2> QED BY <2>1, <2>3, <2>4
<1>9. Urb /\ Rest
  BY <1>4, <1>5, <1>6, <1>7, <1>8, Steps
<1>10. Revoked \subseteq Revoked'
  <2>1. \A j \in Jobs : MayGiveBack(j) => MayGiveBack(j)'
    BY GiveBackStep DEF RevokeInv
  <2> QED BY <1>2, <1>9, <2>1 DEF Revoked
<1> QED BY <1>9, <1>10 DEF Service!ServiceNext

LEMMA SessionRevoke == Spec => []RevokeInv
<1>1. Init => RevokeInv
  <2> SUFFICES ASSUME Init PROVE RevokeInv
    OBVIOUS
  <2>1. Started = {} /\ Async = {}
    BY DEF Init, InitSession, Started, Async
  <2> QED BY <2>1 DEF Init, InitSession, RevokeInv, NoUnlink
<1>2. Types /\ IInv /\ RevokeInv /\ [Next]_vars => RevokeInv'
  BY RevokeStep
<1> QED BY <1>1, <1>2, SessionInv, PTL DEF Spec

\* The session is a service of URBs: each is answered at most once, completed in its time,
\* given back only when its host or the end of the session has asked for that, answered in
\* the order of the bus if the reader serves it, and never forgotten while the host is
\* there; for any hosts and cables, whatever goroutines, timers and cancellations do.
THEOREM SessionImplementsService == Spec => ImplementsService
<1>1. Init => Service!ServiceInit
  <2> SUFFICES ASSUME Init PROVE Service!ServiceInit
    OBVIOUS
  <2>1. Started = {} /\ urb = <<>> /\ ~hungUp /\ now = 0
    BY DEF Init, InitSession, Started
  <2>2. ServiceUrbs = <<>>
    BY <2>1 DEF ServiceUrbs
  <2> QED BY <2>1, <2>2 DEF Service!ServiceInit, Revoked
<1>2. Types /\ IInv /\ WireInv /\ RepliesMatch /\ RevokeInv /\ [Next]_vars
        => [Service!ServiceNext]_(Service!serviceVars)
  BY ServiceStep
<1> QED BY <1>1, <1>2, SessionFlow, SessionWire, SessionRevoke, PTL
        DEF Spec, ImplementsService, Service!ServiceSpec
=============================================================================
