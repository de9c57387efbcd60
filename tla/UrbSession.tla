------------------------------- MODULE UrbSession -------------------------------
(***************************************************************************)
(* One USB/IP connection after OP_REQ_IMPORT: handleURBs, processSubmit    *)
(* and connectionState of internal/usbip/server.go on a Device.  The       *)
(* reader serves control URBs itself and starts a goroutine for every      *)
(* isochronous one; replies share the socket under writeMu.                *)
(*                                                                         *)
(* The environment is the host (SUBMIT, UNLINK, hanging up, sending what   *)
(* cannot be parsed) and the context of Serve being cancelled.  Job j is   *)
(* the processSubmit call of the j-th SUBMIT.  A reply is one write under  *)
(* writeMu, so it is one step; it fails once the host has hung up.         *)
(***************************************************************************)
EXTENDS Device, IsoFrame, SequencesExt, FiniteSets

CONSTANTS Hosts,        \* kinds of hosts: [urbs, reuse, opened, time], where a URB is
                        \* an [endpoint, direction, packets, setup], `reuse` says
                        \* whether sequence numbers are reused, `opened` is what the
                        \* connection finds: [configuration, altSetting], and `time`
                        \* bounds the clock
          Events,       \* what may happen besides: "hangUp", "stop", "garbage", "stall"
          MaxUnlinks    \* bound: UNLINKs in a behaviour

Jobs == Workers

ASSUME SessionAssumption ==
  /\ IsFiniteSet(Workers) /\ Workers = 1..Cardinality(Workers)
  /\ Events \subseteq {"hangUp", "stop", "garbage", "stall"}
  /\ MaxUnlinks \in Nat
  /\ \A h \in Hosts : /\ h.time \in Nat
                      /\ \A u \in h.urbs : /\ u.endpoint \in Nat /\ u.packets \in Nat
                                          /\ u.direction \in {DirectionOut, DirectionIn}

VARIABLES
  reader,      \* where handleURBs is
  unlink,      \* the UNLINK it serves: [target, job]; job 0 when not found
  urb,         \* the SUBMITs read so far, each with its sequence number
  pc,          \* pc[j]: where processSubmit of job j is
  deadline,    \* deadline[j]: submit.completeAt
  result,      \* result[j]: [status, taken, audio] job j will answer
  cancelled,   \* cancelled[j]: requestCtx of job j was cancelled by itself
  pending,     \* pending[seq]: the job whose cancel function is stored, or 0
  isoNext,     \* isoNext[key]: end of the last reservation
  wire,        \* the replies written to the socket
  host,        \* which of Hosts it is
  hungUp,      \* the host has closed the connection
  blocked,     \* the host does not read and the socket's buffer is full
  stopped,     \* the context given to Serve is cancelled
  ended,       \* urbCtx is cancelled by the deferred cancelAll
  now          \* milliseconds since the start

vars == <<deviceVars, reader, unlink, urb, pc, deadline, result, cancelled, pending,
          isoNext, wire, host, hungUp, blocked, stopped, ended, now>>
hostVars == <<host, hungUp, blocked, stopped>>
jobVars  == <<urb, deadline, isoNext>>

StatusOK == 0
StatusPipe == -32
StatusConnReset == -104

NoUnlink == [target |-> 0, job |-> 0]
NoResult == [status |-> StatusOK, taken |-> 0, audio |-> Silence]
Urbs     == UNION {h.urbs : h \in Hosts}
Keys     == {TimelineKey(u.endpoint, u.direction) : u \in Urbs}
Seqs     == Jobs

InitSession ==
  /\ reader = "ready" /\ unlink = NoUnlink
  /\ urb = <<>>
  /\ pc = [j \in Jobs |-> "none"]
  /\ deadline = [j \in Jobs |-> 0]
  /\ result = [j \in Jobs |-> NoResult]
  /\ cancelled = [j \in Jobs |-> FALSE]
  /\ pending = [q \in Seqs |-> 0]
  /\ isoNext = [k \in Keys |-> 0]
  /\ wire = <<>>
  /\ hungUp = FALSE /\ blocked = FALSE /\ stopped = FALSE /\ ended = FALSE
  /\ now = 0

\* The device outlives connections: it may have been configured by another one.
Init ==
  /\ InitSession
  /\ host \in Hosts
  /\ configuration = host.opened.configuration /\ altSetting = host.opened.altSetting
  /\ sampleRate = SampleRate /\ mute = {} /\ volume = <<>>
  /\ buffer = [c \in Cables |-> <<>>]
  /\ answer = Done
  /\ call = [w \in Workers |-> Idle]
  /\ late = {}

-----------------------------------------------------------------------------
(* What a SUBMIT is. *)

Iso(u)     == u.packets > 0                   \* IsIsochronous
Inline(u)  == u.endpoint = 0 \/ ~Iso(u)       \* served by the reader itself
Playback(u) == u.endpoint \in Cables /\ u.direction = DirectionOut
Capture(u)  == u.endpoint \in Cables /\ u.direction = DirectionIn

Started == {j \in Jobs : pc[j] # "none"}
Async   == {j \in Started : ~Inline(urb[j])}

\* ctx.Done() of the job: its own cancel, or that of the connection or server.
CtxDone(j) == cancelled[j] \/ stopped \/ ended

-----------------------------------------------------------------------------
(* The reader: handleURBs.                                                 *)

\* What a host sent before it hung up may still be read afterwards.
Arrive(u, q) ==
  /\ reader = "ready"
  /\ Len(urb) < Cardinality(Jobs)
  /\ urb' = Append(urb, [seq |-> q, endpoint |-> u.endpoint, direction |-> u.direction,
                         packets |-> u.packets, setup |-> u.setup])

MutantBusy == "ready"

\* Control traffic, and anything that is not isochronous, blocks the reader.
Busy == "busy"

SubmitInline(u, q) ==
  /\ Inline(u) /\ Arrive(u, q)
  /\ reader' = Busy
  /\ pc' = [pc EXCEPT ![Len(urb) + 1] = "start"]
  /\ UNCHANGED <<deviceVars, unlink, deadline, result, cancelled, pending, isoNext,
                 wire, hostVars, ended, now>>

MutantSetPending(q, j) ==
  /\ pending' = [pending EXCEPT ![q] = j]
  /\ UNCHANGED cancelled

\* addPending: a job that still holds the number is cancelled and forgotten.
SetPending(q, j) ==
  /\ pending' = [pending EXCEPT ![q] = j]
  /\ cancelled' = [i \in Jobs |-> cancelled[i] \/ i = pending[q]]

\* Reserve the completion time, register the cancel function, start the job.
\* host.time bounds the reservations to those the clock can reach.
SubmitIso(u, q) ==
  /\ ~Inline(u) /\ Arrive(u, q)
  /\ LET j == Len(urb) + 1
         k == TimelineKey(u.endpoint, u.direction)
         t == Deadline(isoNext[k], u.packets, now)
     IN /\ t <= host.time
        /\ deadline' = [deadline EXCEPT ![j] = t]
        /\ isoNext' = [isoNext EXCEPT ![k] = t]
        /\ SetPending(q, j)
        /\ pc' = [pc EXCEPT ![j] = "start"]
  /\ UNCHANGED <<deviceVars, reader, unlink, result, wire, hostVars, ended, now>>

\* cancelPending looks the target up under mu ...
Unlink(q) ==
  /\ reader = "ready"
  /\ Cardinality({i \in 1..Len(wire) : wire[i].kind = "unlink"}) < MaxUnlinks
  /\ unlink' = [target |-> q, job |-> pending[q]]
  /\ reader' = IF pending[q] = 0 THEN "answer" ELSE "cancel"
  /\ UNCHANGED <<deviceVars, jobVars, pc, result, cancelled, pending, wire,
                 hostVars, ended, now>>

\* ... and calls what it found after unlocking it.
CancelTarget ==
  /\ reader = "cancel"
  /\ cancelled' = [cancelled EXCEPT ![unlink.job] = TRUE]
  /\ reader' = "answer"
  /\ UNCHANGED <<deviceVars, jobVars, unlink, pc, result, pending, wire,
                 hostVars, ended, now>>

MutantLeave == /\ reader' = "ready"
               /\ ended' = TRUE

\* The deferred cancelAll and state.cancelAll as handleURBs returns.
Leave == /\ reader' = "draining"
         /\ ended' = TRUE

MutantUnlinkReply ==
  [kind |-> "unlink", job |-> unlink.job, seq |-> unlink.target,
   status |-> StatusOK, taken |-> 0, audio |-> Silence]

\* RET_UNLINK: -ECONNRESET when a cancel function was found, else success.
UnlinkReply ==
  [kind |-> "unlink", job |-> unlink.job, seq |-> unlink.target,
   status |-> IF unlink.job = 0 THEN StatusOK ELSE StatusConnReset,
   taken |-> 0, audio |-> Silence]

\* A write ends when there is room for it, or nobody to read it.  One that waits
\* holds writeMu, so the others wait with it.
CanWrite == ~blocked \/ hungUp

AnswerUnlink ==
  /\ reader = "answer" /\ CanWrite
  /\ unlink' = NoUnlink
  /\ wire' = IF hungUp THEN wire ELSE Append(wire, UnlinkReply)
  /\ \/ reader' = "ready" /\ UNCHANGED ended
     \/ hungUp /\ Leave
  /\ UNCHANGED <<deviceVars, jobVars, pc, result, cancelled, pending, hostVars, now>>

\* End of file, a command or a body that cannot be parsed.
ReadFails ==
  /\ reader = "ready"
  /\ hungUp \/ "garbage" \in Events
  /\ Leave
  /\ UNCHANGED <<deviceVars, jobVars, unlink, pc, result, cancelled, pending, wire,
                 hostVars, now>>

MutantAllDone == \A j \in Started : pc[j] \in {"finish", "done"}

\* What state.wg.Wait() waits for.
AllDone == \A j \in Started : pc[j] = "done"

Drained ==
  /\ reader = "draining" /\ AllDone
  /\ reader' = "closed"
  /\ UNCHANGED <<deviceVars, jobVars, unlink, pc, result, cancelled, pending, wire,
                 hostVars, ended, now>>

-----------------------------------------------------------------------------
(* processSubmit of job j.                                                 *)

sessionVars == <<reader, unlink, cancelled, pending, wire, hostVars, ended, now>>

Goto(j, l) == pc' = [pc EXCEPT ![j] = l]

Answer(j, status, taken, audio) ==
  /\ result' = [result EXCEPT ![j] = [status |-> status, taken |-> taken,
                                      audio |-> audio]]
  /\ Goto(j, "reply")

MutantAnswerReset(j) == Goto(j, "finish") /\ UNCHANGED result

AnswerReset(j) == Answer(j, StatusConnReset, 0, Silence)

\* HandleControl keeps its data in `answer`; here only the status matters.
ServeControl(j) ==
  /\ pc[j] = "start" /\ urb[j].endpoint = 0
  /\ HandleControl(urb[j].setup, <<>>)
  /\ result' = [result EXCEPT ![j] = [status |-> answer'.status, taken |-> 0,
                                      audio |-> Silence]]
  /\ Goto(j, "reply")
  /\ UNCHANGED <<jobVars, sessionVars>>

MutantFirst(u) == IF Playback(u) THEN "playback?" ELSE "capture?"

\* A playback URB hands over its audio before it waits, a capture URB takes it after.
First(u) == IF Playback(u) THEN "playback?" ELSE IF Iso(u) THEN "wait" ELSE "capture?"

\* The first select and the switch on endpoint and direction.
Route(j) ==
  /\ pc[j] = "start" /\ urb[j].endpoint # 0
  /\ IF Iso(urb[j]) /\ CtxDone(j) THEN AnswerReset(j)
     ELSE IF Playback(urb[j]) \/ Capture(urb[j])
            THEN Goto(j, First(urb[j])) /\ UNCHANGED result
            ELSE Answer(j, StatusPipe, 0, Silence)
  /\ UNCHANGED <<deviceVars, jobVars, sessionVars>>

Chunk(j) == [ep |-> urb[j].endpoint, n |-> j]

\* Where a playback job goes once it knows how much was taken.
Played(j, taken) ==
  IF Iso(urb[j]) THEN /\ Goto(j, "wait")
                      /\ result' = [result EXCEPT ![j].taken = taken]
                 ELSE Answer(j, StatusOK, taken, Silence)

\* An inactive interface swallows the payload; else WritePlayback gets it.
AskPlayback(j) ==
  /\ pc[j] = "playback?"
  /\ IF PlaybackActive(urb[j].endpoint)
       THEN /\ BeginWritePlayback(j, urb[j].endpoint, Chunk(j))
            /\ Goto(j, "writing")
            /\ UNCHANGED result
       ELSE /\ Played(j, 1)
            /\ UNCHANGED deviceVars
  /\ UNCHANGED <<jobVars, sessionVars>>

\* One step inside WritePlayback or ReadCapture.
InDevice(j) ==
  /\ pc[j] \in {"writing", "reading"}
  /\ DeviceStep(j)
  /\ UNCHANGED <<jobVars, sessionVars, pc, result>>

PlaybackWritten(j) ==
  /\ pc[j] = "writing"
  /\ Return(j)
  /\ Played(j, call[j].moved)
  /\ UNCHANGED <<deviceState, buffer, answer, late, jobVars, sessionVars>>

\* After the wait a playback job answers and a capture job looks for audio.
Completed(j) ==
  IF Playback(urb[j]) THEN Answer(j, StatusOK, result[j].taken, Silence)
                      ELSE Goto(j, "capture?") /\ UNCHANGED result

\* waitIsoCompletion: a deadline that has passed is not waited for, and the
\* context is not looked at; else the timer is set.
Wait(j) ==
  /\ pc[j] = "wait"
  /\ IF now >= deadline[j] THEN Completed(j)
                           ELSE Goto(j, "waiting") /\ UNCHANGED result
  /\ UNCHANGED <<deviceVars, jobVars, sessionVars>>

TimerFires(j) ==
  /\ pc[j] = "waiting" /\ now >= deadline[j]
  /\ Completed(j)
  /\ UNCHANGED <<deviceVars, jobVars, sessionVars>>

WaitCancelled(j) ==
  /\ pc[j] = "waiting" /\ CtxDone(j)
  /\ AnswerReset(j)
  /\ UNCHANGED <<deviceVars, jobVars, sessionVars>>

AskCapture(j) ==
  /\ pc[j] = "capture?"
  /\ IF CaptureActive(urb[j].endpoint)
       THEN /\ BeginReadCapture(j, urb[j].endpoint)
            /\ Goto(j, "reading")
            /\ UNCHANGED result
       ELSE /\ Answer(j, StatusOK, 0, Silence)
            /\ UNCHANGED deviceVars
  /\ UNCHANGED <<jobVars, sessionVars>>

CaptureRead(j) ==
  /\ pc[j] = "reading"
  /\ Return(j)
  /\ Answer(j, StatusOK, 0, call[j].chunk)
  /\ UNCHANGED <<deviceState, buffer, answer, late, jobVars, sessionVars>>

\* RET_SUBMIT of job j: nothing of the payload unless the status is OK.
SubmitReply(j) ==
  LET r == result[j]
  IN [kind |-> "submit", job |-> j, seq |-> urb[j].seq, status |-> r.status,
      taken |-> IF r.status = StatusOK THEN r.taken ELSE 0,
      audio |-> IF r.status = StatusOK THEN r.audio ELSE Silence]

\* writeSubmit.  A write error ends the connection for an inline job and is
\* only logged by an asynchronous one.  Once the host has hung up the reply is
\* lost, and the write may or may not say so.
WriteReply(j) ==
  /\ pc[j] = "reply" /\ CanWrite
  /\ wire' = IF hungUp THEN wire ELSE Append(wire, SubmitReply(j))
  /\ IF ~Inline(urb[j]) THEN Goto(j, "finish") /\ UNCHANGED <<reader, ended>>
     ELSE /\ Goto(j, "done")
          /\ \/ reader' = "ready" /\ UNCHANGED ended
             \/ hungUp /\ Leave
  /\ UNCHANGED <<deviceVars, jobVars, unlink, result, cancelled, pending, hostVars, now>>

MutantRemovePending(j) == pending

\* By number, whoever owns the entry by now.
RemovePending(j) == [pending EXCEPT ![urb[j].seq] = 0]

\* The deferred calls: removePending, requestCancel and wg.Done.
Finish(j) ==
  /\ pc[j] = "finish"
  /\ pending' = RemovePending(j)
  /\ Goto(j, "done")
  /\ UNCHANGED <<deviceVars, jobVars, reader, unlink, result, cancelled, wire,
                 hostVars, ended, now>>

JobStep(j) ==
  \/ ServeControl(j) \/ Route(j)
  \/ AskPlayback(j) \/ InDevice(j) \/ PlaybackWritten(j)
  \/ Wait(j) \/ TimerFires(j) \/ WaitCancelled(j)
  \/ AskCapture(j) \/ CaptureRead(j)
  \/ WriteReply(j) \/ Finish(j)

-----------------------------------------------------------------------------
(* The environment, and the specification.                                 *)

environmentOf == <<deviceVars, jobVars, reader, unlink, pc, result, cancelled, pending,
                   wire, ended>>

HangUp ==
  /\ "hangUp" \in Events /\ ~hungUp /\ hungUp' = TRUE
  /\ UNCHANGED <<environmentOf, host, blocked, stopped, now>>

\* The host stops reading until the buffer is full, or reads again.
StopReading ==
  /\ "stall" \in Events /\ ~hungUp /\ blocked' = ~blocked
  /\ UNCHANGED <<environmentOf, host, hungUp, stopped, now>>

\* The context of Serve is cancelled; nobody closes the connection.
StopServer ==
  /\ "stop" \in Events /\ ~stopped /\ stopped' = TRUE
  /\ UNCHANGED <<environmentOf, host, hungUp, blocked, now>>

Tick ==
  /\ now < host.time /\ now' = now + 1
  /\ UNCHANGED <<environmentOf, hostVars>>

\* Every goroutine waits for the host, or handleURBs has returned.
AtRest == /\ reader \in {"ready", "closed"}
          /\ AllDone /\ UNCHANGED vars

\* The numbers a host may give its next SUBMIT.
NextSeqs == IF host.reuse THEN 1..Len(urb) + 1 ELSE {Len(urb) + 1}

Submit == \E u \in host.urbs, q \in NextSeqs : SubmitInline(u, q) \/ SubmitIso(u, q)
UnlinkArrives == \E q \in {urb[i].seq : i \in 1..Len(urb)} : Unlink(q)
ReaderStep == CancelTarget \/ AnswerUnlink \/ Drained

Next ==
  \/ Submit \/ UnlinkArrives \/ ReaderStep \/ ReadFails
  \/ \E j \in Jobs : JobStep(j)
  \/ HangUp \/ StopReading \/ StopServer \/ Tick \/ AtRest

Spec == Init /\ [][Next]_vars

\* Goroutines that can run are run, time passes, and a reader whose host has
\* hung up gets to the end of what it sent, which is finite.  Nothing is assumed of the host.
Fairness ==
  /\ \A j \in Jobs : WF_vars(JobStep(j))
  /\ WF_vars(ReaderStep)
  /\ WF_vars(Tick)
  /\ SF_vars(hungUp /\ ReadFails)

FairSpec == Spec /\ Fairness

-----------------------------------------------------------------------------
Chunks == [ep : Cables, n : Jobs]
Frames == [kind : {"submit", "unlink"}, job : Jobs \cup {0}, seq : Seqs,
           status : {StatusOK, StatusPipe, StatusConnReset}, taken : 0..1,
           audio : Chunks \cup {Silence}]

TypeOK ==
  /\ reader \in {"ready", "busy", "cancel", "answer", "draining", "closed"}
  /\ unlink \in [target : Seqs \cup {0}, job : Jobs \cup {0}]
  /\ Len(urb) <= Cardinality(Jobs) /\ Started = 1..Len(urb)
  /\ \A j \in Started : urb[j].seq \in Seqs
  /\ pc \in [Jobs -> {"none", "start", "playback?", "writing", "wait", "waiting",
                      "capture?", "reading", "reply", "finish", "done"}]
  /\ deadline \in [Jobs -> 0..host.time]
  /\ result \in [Jobs -> [status : {StatusOK, StatusPipe, StatusConnReset},
                          taken : 0..1, audio : Chunks \cup {Silence}]]
  /\ cancelled \in [Jobs -> BOOLEAN]
  /\ pending \in [Seqs -> Jobs \cup {0}]
  /\ isoNext \in [Keys -> 0..host.time]
  /\ wire \in Seq(Frames)
  /\ host \in Hosts /\ hungUp \in BOOLEAN /\ blocked \in BOOLEAN /\ stopped \in BOOLEAN /\ ended \in BOOLEAN
  /\ now \in 0..host.time

Submits == {i \in 1..Len(wire) : wire[i].kind = "submit"}
Unlinks == {i \in 1..Len(wire) : wire[i].kind = "unlink"}

\* A cancel function is stored only while its job runs: none leaks, and an
\* UNLINK never cancels the context of a job that is over (server.go:354-356).
PendingIsLive ==
  \A q \in Seqs : pending[q] # 0 =>
    pending[q] \in Async /\ pc[pending[q]] # "done" /\ urb[pending[q]].seq = q

\* A job that has not answered can be found by UNLINK, unless an older job with
\* the same number removed the entry or a younger one displaced it; a displaced
\* job is cancelled (server.go:244-257).
InFlightIsUnlinkable ==
  \A j \in Async : pc[j] \notin {"finish", "done"} =>
    \/ pending[urb[j].seq] = j
    \/ \E i \in Async \ {j} : urb[i].seq = urb[j].seq /\ (i < j => pc[i] = "done")
                              /\ (i > j => cancelled[j])

\* RET_UNLINK with status 0 tells the host that the URB was already given back:
\* its RET_SUBMIT is on the wire, ahead of the RET_UNLINK.
NotFoundMeansAnswered ==
  \A i \in Unlinks : wire[i].status = StatusOK =>
    \A j \in Started : urb[j].seq = wire[i].seq =>
      j \in {wire[k].job : k \in {k \in Submits : k < i}} \/ host.reuse

\* Nothing is recorded, and no URB is completed, ahead of the time reserved for
\* it, however its wait ends (server.go:207-211).
NeverEarly ==
  \A j \in Async :
    \/ pc[j] \in {"capture?", "reading"}
    \/ pc[j] \in {"reply", "finish", "done"} /\ result[j].status = StatusOK
    => now >= deadline[j]

\* A recorded chunk was played on the same cable, by a URB submitted to its
\* playback endpoint, and is recorded at most once (README:26).
RecordedIsPlayed ==
  /\ \A i \in Submits : wire[i].audio # Silence =>
       /\ wire[i].audio.ep = urb[wire[i].job].endpoint
       /\ wire[i].audio.n \in Started /\ Playback(urb[wire[i].audio.n])
       /\ urb[wire[i].audio.n].endpoint = wire[i].audio.ep
  /\ \A i, k \in Submits : i # k /\ wire[i].audio # Silence => wire[i].audio # wire[k].audio

Kept(x) == \/ \E c \in Cables : x \in ToSet(buffer[c])
           \/ \E w \in Workers : call[w].op = "read" /\ call[w].chunk = x
           \/ \E j \in Jobs : result[j].audio = x
           \/ \E i \in Submits : wire[i].audio = x

\* What a playback answer says was taken is what was taken: audio of a URB that
\* was answered with an actual length of 0 is not recorded, though the interface
\* closes between PlaybackActive and WritePlayback.  Only a URB that is given back
\* may say nothing of audio it has already handed over (server.go:419-435).
AnswersTellTaken ==
  \A i \in Submits :
    Playback(urb[wire[i].job]) /\ wire[i].taken = 0 /\ Kept(Chunk(wire[i].job))
      => wire[i].status = StatusConnReset /\ CtxDone(wire[i].job)

-----------------------------------------------------------------------------
(* The service that this session implements.                               *)

AnswersOf(j) == {[at |-> i, status |-> wire[i].status] : i \in {k \in Submits : wire[k].job = j}}

\* A URB may be given back when the connection or the server ends, when an UNLINK
\* has found it, or when the host has reused its number.
MayGiveBack(j) == \/ stopped \/ ended \/ hungUp \/ unlink.job = j
                  \/ \E i \in Unlinks : wire[i].job = j
                  \/ \E i \in Started : i > j /\ urb[i].seq = urb[j].seq

ServiceUrb(j) == [ordered |-> Inline(urb[j]), due |-> deadline[j], answers |-> AnswersOf(j),
                  over |-> pc[j] = "done"]
ServiceUrbs == [j \in 1..Len(urb) |-> ServiceUrb(j)]
Revoked == {j \in Started : MayGiveBack(j)}

Service == INSTANCE UrbService WITH
  urbs <- ServiceUrbs, revoked <- Revoked, gone <- hungUp, clock <- now,
  Statuses <- {StatusOK, StatusPipe, StatusConnReset}, OK <- StatusOK, Reset <- StatusConnReset

\* The session is one of UrbService: whatever goroutines, timers, cancellations and
\* reused numbers do, the host sees each URB answered once, in time, in the order
\* of the bus for control traffic (server.go:336-337), and given back only when it
\* asked for that or the connection or the server ends.
ImplementsService == Service!ServiceSpec

\* A connection that is over has left nothing behind: no goroutine, no stored
\* cancel function, no call into the device (server.go:311-316).
ClosedIsQuiet ==
  reader = "closed" => /\ \A j \in Started : pc[j] = "done"
                       /\ \A q \in Seqs : pending[q] = 0
                       /\ \A w \in Workers : call[w] = Idle

\* Every SUBMIT is answered unless the host hangs up or stops reading for ever: no
\* URB waits for good on its timeline, a cancelled context, the reader or writeMu.
EveryUrbAnswered ==
  <>[]~blocked =>
    \A j \in Jobs : pc[j] # "none" ~> hungUp \/ \E i \in Submits : wire[i].job = j

\* Once the reader has left its loop the connection ends, as wg.Wait returns; and
\* the reader leaves once the host is gone.  Stopping the server is not enough for
\* it, and a host that does not read keeps it there (server.go:56-59, 311-316).
LeavingEnds ==
  /\ hungUp ~> reader = "closed"
  /\ <>[]~blocked => (reader = "draining" ~> reader = "closed")

\* server.go:374: "The protocol specifies -ECONNRESET for a successful unlink."
\* A URB whose unlink was successful was not completed.
UnlinkedNotCompleted ==
  \A i \in Unlinks, k \in Submits :
    wire[i].status = StatusConnReset /\ wire[k].job = wire[i].job
      => wire[k].status # StatusOK

\* main.go:270-273 (self-test): what is recorded is what was played, so chunks
\* wait in a ring in the order in which the host submitted them.
PlayedInOrder ==
  \A c \in Cables : \A i, k \in 1..Len(buffer[c]) :
    i < k => buffer[c][i].n < buffer[c][k].n
=============================================================================
