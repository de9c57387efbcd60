# Virtual Surround Cables: verification project

TLA+ models of the Go program under `src/Virtual Surround Cables build/`, the
TLC runs that check them on small instances, and TLAPS proofs of the properties
that matter most for every instance. Paths below are relative to that directory;
`cmd/` stands for `cmd/virtualsurroundcables/`.

To run one: `tlc -workers 2 -config MCRing.cfg MCRing`. To prove: `tlapm
Ring_proofs.tla`. `PROJECT.json` lists the components, the runs, a mutant of the
code for every property, the source lines of every definition, the hazards, the
findings and the theorems.

## 1. Inventory

The program is a native window that serves 1 to 120 virtual 7.1 cables as USB
audio devices over USB/IP on the loopback address. Windows' USB/IP driver
attaches them. What is played on a cable is recorded from it.

    window thread --Restart/Stop--> appServer --go Serve--> Server (a listener)
         |                                                       | go handleConnection
         | requestCableSync                                      v
         v                                              connection: handleURBs
    cableDeviceBroker ==SYNC n / OK==> elevated helper       | inline: control
         ^  go syncCableDevices           | driver setup,    | go processSubmit: audio
         |                                | then usbip.exe   v
         +--------------------------------+ detach, attach  Device --> one ring per cable

| Component | State | Operations | Talks to |
|---|---|---|---|
| Ring (`internal/audio/ring.go`) | buffer, read and write index, size, counters, `mu` | Write, ReadSilence, Reset | called by Device |
| Device (`internal/surround/device.go`) | configuration, alternate settings, rate, mute, volume, `mu`; a ring per cable | HandleControl, PlaybackActive, WritePlayback, CaptureActive, ReadCapture | called by sessions, uses rings |
| Descriptors (`internal/surround/descriptors.go`) | none | GetDescriptor, Validate | built by NewDevice, read by hosts |
| Cable layout (`makeDevices`, `physicalDeviceCount`, `NewDevice`, the list) | none | which cable is at which endpoint of which device | everyone |
| Wire format (`internal/usbip/protocol.go`) | none, but both ends' places in the stream | readSubmit, writeRetSubmit, markIsoPackets | session, host |
| Timelines (`reserveIsoCompletion`) | end of the last reservation per endpoint and direction | reserve | called by the reader of a session |
| Session (`handleURBs`, `processSubmit`, `connectionState`) | stored cancel functions, timelines, `mu`, `writeMu`, wait group, contexts | SUBMIT, UNLINK, end | host, Device |
| Listener and handshake (`Serve`, `handleConnection`) | listener, `ready`, deadlines, sessions | listen, accept, list, import | appServer, sessions |
| Server manager (`appServer`, `cmd/main.go`) | cancel, done, count, lastError, `mu` | Restart, Stop | window, Server |
| Count and CONFIG.ini (`applyCount`, `saveCableCount`, `loadCableCount`) | cableCount, a file | add, remove, save, load | appServer, broker |
| Broker (`cmd/broker_windows.go`) | conn, starting, desired, `mu`, `commandMu` | start, greet, request, synchronize, stop | window, helper process |
| Helper (`runAttachHelper`, `detachOwnUSBIPPorts`) | its place in list, detach, attach | SYNC, QUIT | broker, usbip.exe, the driver's ports |
| Driver setup (`ensureUSBIPDriver`, `cmd/attach_windows.go`) | files of the tools, driver package, controllers, machine PATH | find, copy, install, add a controller, edit PATH, poll | helper, Windows, other installers |
| Window, logging, command line | handles | Win32, text | - |

What is hard, and what makes each part correct:

- **Ring.** Byte loops over two indices under a mutex, overruns at every position
  of the wrap, resets between calls. Correct: it holds the newest samples in
  order, a read is one unbroken block and then silence, nothing is heard twice.
- **Device.** A check under `d.mu` and then a ring used without it; numbers cut to
  eight bits; the same numbering computed twice, for the descriptors and for the
  handlers. Correct: refused requests change nothing, cables do not leak into each
  other, a closed interface has no audio except by that race, a host that knows the
  descriptors only is never turned down.
- **Wire.** The length of a frame depends on the kind of URB and on its outcome.
  Correct: both ends stay in step, and payload, packets and actual length agree.
- **Timelines.** Deadlines keep the frame cadence, each direction on its own.
- **Session.** Goroutines per URB, UNLINK, reused sequence numbers, two contexts,
  a timer racing a cancellation, a host that does not read, an end that waits for
  all of them. Correct: every URB is answered once and not early, UNLINK answers
  what happened, control keeps the order of the bus, what an answer says was taken
  was taken, a closed connection has left nothing.
- **Listener.** Sessions that share a device, or outlive the reader or their server.
  Correct: nobody hears what an earlier session has left, every connection ends.
- **Manager.** Two timeouts, after which goroutines live on, and one port. Correct:
  no server is forgotten, what is reported is served, the port is handed over.
- **Broker, helper, count.** Two processes, a goroutine per change, a lock held over
  another process's work and over a message to the window, failures at each of a
  dozen steps. Correct: one helper, answers paired with requests, no change lost,
  "synchronized" means attached and means the current count, all waits end, the
  next run starts with the count of this one.
- **Driver setup and attaching.** A machine that earlier calls left half installed,
  a listing of ports in which other programs' devices appear, a PATH that others
  edit. Correct: a failure has a reason, no second controller is added to a driver
  that works, each device is attached once, and what belongs to others stays.

## 2. Modules

    LoopbackStream <= Ring                       Descriptors (CableLayout) <- Device
    IsoFrame <- IsoTimeline <= SubmitStream      Device, Enumeration <- DeviceHost
    IsoFrame <- Wire <- SubmitStream             Device, IsoFrame <- UrbSession => UrbService
    AppServer <= Server (CableLayout)            CableLayout <- CableSync
    DriverSetup, CableLayout <- AttachHelper     SeqSums <- Wire, IsoTimeline

(`A <- B`: B extends A; `A <= B`, `B => A`: B is shown to implement A.)

**LoopbackStream** is the abstract promise of a ring: an append-only stream of
samples of which the newest `Cap` at most are kept; Write, Read and Clear are atomic.

**Ring** is `ring.go` with one byte per step: `BeginWrite`/`WriteByte`/`EndWrite` and
`BeginRead`/`ReadByte`/`EndRead` between `Lock` and `Unlock`, and `Reset` in one step.
The k-th sample ever written has value k, so that order and repetition can be seen.
The actions do not assume exclusion: the lock is what prevents interleaving.

**CableLayout** is the arithmetic of `makeDevices`, `physicalDeviceCount`, `NewDevice`,
the limits of `NewDescriptors` and the rows of the window's list.

**Descriptors** is `descriptors.go` byte by byte, for any number of cables of a device,
because hosts find each descriptor by the lengths of those before it. Of a string's
text only what it names is kept. `Walk` is the loop of `Validate`.

**Device** has the state of `Device` and of its rings. `HandleControl` is one step
because it holds `d.mu` throughout; the rings that SET_CONFIGURATION resets one by one
are reset at once, which cannot be told apart since each ring is used by its own calls
only. `WritePlayback` and `ReadCapture` are a step that looks at the interface under
`d.mu` and a step that uses the ring. Audio is in chunks, one per URB; that a ring can
be used chunk by chunk is what Ring => LoopbackStream shows. Index and value of a
request are cut to eight bits as in the code.

**Enumeration** (external) is what a USB audio driver reads out of a configuration
descriptor: alternate settings, endpoints, terminals, feature units, names.
**DeviceHost** is a Device and its callers. The host knows nothing but the descriptors:
`Opening` and `Showing` are the requests they call for, computed from the bytes;
`OtherRequests` are any others. Goroutines play and record between any two steps.

**IsoFrame** and **IsoTimeline** are `reserveIsoCompletion`: the arithmetic, and a
connection that calls it for one SUBMIT after the other. Time is in milliseconds.
**SeqSums** adds up packet lengths.
**Wire** is `protocol.go` by lengths: what `readSubmit` takes from the stream, and what
`processSubmit` and `writeRetSubmit` put into a reply, packet by packet.
**SubmitStream** composes both: a SUBMIT after the other is read, served or reserved,
and answered in any order. `skew` is the distance between the place where one end starts
to read a frame and the one where the other started to write it.

**UrbSession** is a connection after the import. `reader` is the place of
`handleURBs` (`Drained` is its `wg.Wait`), `pc[j]` that of the goroutine of the j-th
SUBMIT, `pending` the stored cancel functions, `cancelled`, `ended` and `stopped` the
three contexts, `wire` the replies in the order of the socket, `blocked` a host that
does not read while the socket's buffer is full. It EXTENDS Device and IsoFrame and
calls their operators. A reply is one step (it is one write under `writeMu`).
`cancelPending` is two steps, as it calls the function after unlocking.
**UrbService** is what the session promises: no goroutines, timers or locks, only URBs
that are accepted, answered at most once, not before they are due, given back only when
revoked, in the order of the bus where that counts, and forgotten only when answered.

**AppServer** is the manager and the listener part of `Serve`. `manager` is where
Restart or Stop waits, `serve[i]` where the Serve goroutine of the i-th launch is,
`result[i]` the channel of capacity one, `ready`, `cancelled` and `listening` the
channel, the context and the socket. A timeout is an alternative of the wait that is
always enabled. `makeDevices` cannot fail for the counts the program uses (proved, 4).
**Server** adds the connections: Accept, the handshake with its 30 s deadline for
reading and writing, DEVLIST, IMPORT, which lifts the deadline, and sessions. Of a
session it has what it does to a device that sessions of one launch share; UrbSession
has the rest. A connection outlives its server, as in the code. `left` are the
connections of which nothing more can be read, because the host has hung up or sent
nonsense (`HangUp`, `Garble`); `blocked` those whose host is there and does not read.
While it does not, whatever the reader or a goroutine answers is `stuck` in its write:
the reader reads nothing more, and the end of the connection waits (`JobsDone`). To a
host that reads, an answer is part of the step it answers.

**CableSync** is everything between a click and an attached device: the window's
thread (`window`: Restart, the two writes of CONFIG.ini, requestCableSync,
startCableBroker with its wait for the user), one `acceptCableBroker` goroutine per
helper, one `syncCableDevices` goroutine per job, the helper process with its loop and
its usbip.exe calls, the connection with its lines in both directions, the ports of
the USB/IP driver, and the end and restart of the program. `Show` is `setStatus`: it
sends a message to the window's thread and so waits until that thread looks for
messages, while it holds commandMu. Of the server only the served count is there.
Deadlines (60 s, 5 s, 45 s) are alternatives that are enabled while the fault
"greeting" or "deadline" is allowed, and always when the other side is gone.

**DriverSetup** is `ensureUSBIPDriver` and what it calls. `machine` is what outlives a
call: the tools' files, the driver package, filter and controllers, whether Windows has
started the driver or waits to be restarted, the machine PATH; `search` is the PATH of
the helper's own process. Files are overwritten in place, so a failure or a kill may
leave a broken one. **AttachHelper** is `runAttachHelper` on top of it, with the host
controller's ports 1..PortCount, which other programs use too, and with the listing of
`usbip port` read line by line (`OwnPorts`). CableSync has the same call in a few steps,
on ports that nobody else uses: there the subject is the broker, here the machine.

External, modelled from their use: the host, the user, usbip.exe, pnputil, devnode,
the driver's ports, exclusive ports of the operating system, process death, and other
programs that attach devices or edit the PATH.

`MC*` modules give hosts, requests, machines and constants; `*_proofs` the proofs.
Operators named `Mutant*` are plausible mistakes in the operator they precede; the
specifications do not use them.

## 3. Runs

| Run | Instance | Shows |
|---|---|---|
| ring | 2 goroutines, capacity 3, calls of up to 4 bytes, 6 samples | the newest samples are kept; Ring implements LoopbackStream |
| iso_timeline | 12 SUBMITs: control, bulk-like, isochronous of 1 and 3 packets, without a buffer, too long ones; 3 reservations, cap 3, 5 ms | ends in step, payloads add up, cadence, independent queues; SubmitStream implements IsoTimeline |
| iso_timeline_long | 10 or 400 packets | finding 1 |
| device | device 2 with 2 cables, rings of 1 chunk, 2 goroutines, 2 chunks, every request the descriptors call for and 16 others | what is announced is served; isolation; no partial effect; stale audio only by the race |
| session | 2 cables, 3 SUBMITs, 1 UNLINK, two hosts: one opens and closes what it plays, one reuses sequence numbers and asks for what is not there | UNLINK and completion, no early completion, cancel functions belong to live URBs, answers tell what was taken; UrbSession implements UrbService |
| session_live | 1 cable, 2 SUBMITs, 1 UNLINK, hang-up, server stop, garbage, a host that stops reading | every URB answered, connections end, nothing left behind |
| unlink_race | 1 cable, 1 SUBMIT | finding 2 |
| order_race | 1 cable, 2 SUBMITs | finding 3 |
| app_server | 3 launches and no connection, 2 launches and 1, 1 launch and 2, or 1 launch and 1 whose host may stop reading; counts 1 and 5 | no orphan, port handed over, reports are true, a new session starts clean, servers and connections end |
| cable_sync | counts 4 and 5, 1 change, 2 helpers, 3 jobs, 2 runs, 3 ports, all faults | broker, helper, file and ports, safety and liveness |
| sync_race | 2 changes, 1 helper, no faults | finding 4 |
| attach_helper | 5 machines, 2 calls, 1 fault or kill, 2 controllers, counts 4 and 5, 3 ports, 1 foreign device | failures are explained, devices attached once, PATH and others' ports kept |

Bounds. A ring of three wraps at every offset and a request of four overruns it within
one call. A cap of three with URBs of one and three packets has the cap itself and
deadlines that overlap; two endpoints in two directions are four timelines, of which
three reservations can meet on one or differ. Two goroutines suffice for every pairwise
race on a ring or an interface, and a third SUBMIT adds the control request that closes
the interface in between, or the older URB whose number is reused. Two cables are what
isolation needs, and device 2 is the first whose numbers differ from the endpoint's.
Counts 4 and 5 are the step from one USB device to two. One change and two helpers give
up to three synchronizations that compete: one of each greeting and one of the change,
and a helper that was given up while its successor works. Three launches give a server
that is current, one that a timeout gave up on, and one that starts; the limits of
`MCServer` keep many launches and many connections apart, since a session touches its
own launch's devices only and `Server_proofs` covers the rest. A host that stops reading
delays the end of its own connection and nothing else, so one connection, with its
server stopped at any point, shows what it does to ConnectionsEnd; CleanStart is proved
with any number of such hosts. Two calls of the helper
on one machine are one that leaves something half done and one that finds it; the
initial machines stand for what more calls could leave. Symmetry is used in `device`
for goroutines, which no definition tells apart, and in no run with liveness.

Deadlock is checked in every run; `AtRest`, and `Over` in SubmitStream, are the explicit
stutter of a system that waits for its host or user only.

Fairness. `session_live`: goroutines that can run are run (the Go scheduler), time
passes, and a reader whose host has hung up reads to the end (strong, since what it has
still to read may keep disabling that step, finitely often); nothing is assumed of the
host, and what it must do for an answer is in the property (`<>[]~blocked`).
`app_server`: goroutines run and timers expire, those of connections included; no call,
client or accept error has to come. That a connection ends when nothing more can be read
of it has the same premise (`<>[](c \notin blocked)`). `cable_sync`: the window's
thread, some goroutine and some helper go on; setStatus is strongly fair because
GetMessage delivers sent messages before clicks, so a user who clicks for ever cannot
starve it; the user never has to answer. A helper goes on because usbip.exe returns; the
program gives it no time limit (`attach_windows.go:74-76`), and the broker's own
deadlines do not end it. All other runs check safety, refinements included, and assume
none.

Findings, each a `violation` run with a counterexample:

1. `server.go:217` caps a reservation at 250 ms although a URB may have 4096 packets;
   the comment at 210-211 promises the frame cadence (iso_timeline_long).
2. `server.go:371`: an UNLINK is answered -ECONNRESET although its URB completes with
   status 0, since its entry is removed after its reply was written (unlink_race).
3. `server.go:353`: URBs of one playback endpoint are stored by unordered goroutines
   (order_race).
4. `broker_windows.go:149`: two count changes may be synchronized in the opposite order,
   so that Windows keeps the older count (sync_race). The broker has `desired`, which
   is used after the greeting only.

Observations without a promise to contradict, which the properties spell out as
exceptions: a playback URB that is cancelled while it waits is answered -ECONNRESET
although its audio stays in the ring (`server.go:430`, AnswersTellTaken); audio stored
by a call that had seen its interface open stays in the ring of the closed interface
(`device.go:245-254`, StaleOnlyByRace); stopping Serve ends no session
(`server.go:57`, LeavingEnds); a host that sends nonsense, or nothing, stays connected and
does not read keeps a session's goroutines and socket for ever, since the import lifts the
deadline and Close comes after wg.Wait (`server.go:113, 311-316`; ConnectionsEnd and
LeavingEnds have a host that reads on or hangs up as their premise); a recording that names
a buffer of length zero is answered with all that its packets ask for (`server.go:485`,
PayloadAccounted); an error of Serve after its start is read by nobody until the next stop
(`main.go:52`, ReportedIsServed); an end of the program between the new count and its place
in CONFIG.ini, or a failed write, lets the next run start with another count
(`main.go:321`, NextRunAgrees); after an installation that failed or waits for a restart of
Windows, the next call may add another controller (`attach_windows.go:201`,
SetupExplained); when a restart fails the status line is not refreshed, so
it keeps saying "synchronized" although no server runs (SyncedMeansAttached speaks of a
server that runs); an entry that another installer adds to the PATH between reading and
writing it is lost (PathKept), and a port that another program takes between listing and
detaching is detached (OthersStayAttached).

## 4. Proofs

| Module | Theorems | Assumptions |
|---|---|---|
| Ring_proofs | RingTypeOK, RingKeepsNewest, RingReadIsContiguous, RingNeverReplays, RingImplementsStream | RingAssumption: the capacity is an integer, the bounds are natural numbers, NoThread is no goroutine |
| SubmitStream_proofs | IsoCadence, TimelineInTurn, StreamImplementsTimeline, StreamFramesInStep, StreamPayloadAccounted, StreamInTurn | IsoAssumption, TimelineAssumption; StreamAssumption: the host follows the protocol (an isochronous SUBMIT has as many packet descriptors as it says, at least one, and no other has any; those that parse are of the endpoints and packet counts of the timelines, and play no more data than their packets hold). Buffers and packets of any length, zero included, are in. IsoCadence: PacketCounts within 1..MaxIsoWait, no URB has more packets than the cap (the run iso_timeline_long shows why). TimelineInTurn: endpoint numbers below 2^16, beyond which keys would be shared |
| DeviceHost_proofs | DeviceTyped, DeviceCablesIsolated, DeviceStaleOnlyByRace, DeviceRefusedChangesNothing, DeviceResetIsLocal, DeviceAnnouncedIsServed | DeviceAssumption: a device NewDescriptors accepts, rings of at least one chunk; HostAssumption: the fields of a setup packet are unsigned |
| UrbSession_proofs | SessionTyped, SessionPendingIsLive, SessionInFlightIsUnlinkable, SessionNeverEarly, SessionClosedIsQuiet, SessionNotFoundMeansAnswered, SessionRecordedIsPlayed, SessionAnswersTellTaken, SessionImplementsService | DeviceAssumption, IsoAssumption; SessionAssumption: SUBMITs are numbered from 1, endpoints and packet counts are natural numbers |
| AppServer_proofs | ServerTypeOK, ServerNoOrphan, ServerReportedIsServed, ServerPortHandedOver | ServerAssumption: launches are numbered from 1, counts are 1 to 120 |
| Server_proofs | ServerImplementsManager, ServerCleanStart | none but ServerAssumption |
| AttachHelper_proofs | DevicesAreNumbered, EveryDeviceIsDescribable, RowsAreServed, EndpointsAreListed | none |
| | HelperSetupExplained, HelperPathKept, HelperAttachesOnce, HelperLeavesOthers | SetupAssumption: the machine may be in any state in which the PATH lists no folder with a usbip.exe twice; HelperAssumption: counts are 1 to 120, the ports are numbered |
| CableSync_proofs | BrokerTyped, BrokerStartingIsOwned, BrokerOneLinkedHelper, BrokerChangeNotLost, BrokerNextRunAgrees, BrokerRepliesPaired, BrokerSyncedMeansAttached | SyncAssumption: counts are 1 to 120, helpers, jobs and ports are numbered from 1 |

*Ring.* TypeOK, KeepsNewest and ReadIsContiguous are inductive only together with
LockHeld: a goroutine inside a loop owns the mutex, and what it still has to store is
exactly what `written` counts already. KeepsNewest ties each of the `size` slots to a
position of the stream; ReadIsContiguous ties what a read gathered to the slots that
are left. NeverReplayed and the refinement follow step by step.

*SubmitStream.* Cadence: each logged reservation ends no earlier than the one before it
on its timeline plus its own frames; the invariant relates the log to `isoNext`
(NextIsLatest). Turns: the deadline of a log entry is the greatest of the arrivals on
its timeline plus the work since, and TurnInv ties `isoNext` to the last entry of each
timeline (LastGiven), so that a new entry is argued from the one before it; that
distinct endpoints and directions have distinct keys is arithmetic (hence the 16 bits).
Refinement: only a reservation touches the timelines, and it is one of IsoTimeline.
Streams: what a SUBMIT may be answered with is enumerated by what made the reply
(MayAnswer), and for each kind the bytes written and the bytes the host reads are shown
equal, and the payload to be that of its packets and to have room in the buffer, if
there is one (Usable). `Total` and the packet loop of the reply (`SeqSums`, `Wire`) are
recursive functions; their equations and sums are derived once as lemmas and cited from
there.

*DeviceHost.* Types adds to TypeOK that a call under way is for a cable of the device
and that a playing one holds a chunk of that cable. Three lemmas say all that matters of
a step: ControlRings (a request empties all rings and closes all interfaces, or empties
one that it closes, or leaves them alone; a refused one changes nothing), CallMoves (a
device step moves one chunk between one call and the ring of its cable) and CallerFacts.
The four properties follow from them; `Layout` is the numbering of interfaces and
endpoints they need.

AnnouncedIsServed needs the descriptors read back, for every number of cables. The walk
from one descriptor to the next is a recursive function of the bytes; FromStep is its
equation, and by induction from the end of the bytes to their start, joined parts read
as the descriptors of both (ReadsJoin). So the configuration of n cables reads as three
descriptors, then six for each cable's topology and twelve for its two streaming
interfaces, 26 + 180n bytes in all, and states that length itself (ConfigurationIs). In
that Listing the line an endpoint belongs to is the last of its kind before it, which
gives exactly the endpoints, alternate settings, entities and feature units of the
device (EndpointsAre, SettingsAre, EntitiesAre, FeatureUnitsAre), and two steps along
the entities from a terminal reach the names of that cable and no other (LinkedAre,
NamesAre). `turnedDown` is false throughout: each request of Opening and Showing falls
into the case of HandleControl that answers it (ShowingIsAnswered, OpeningIsAnswered).
That and the listing make the property (EndpointServed).

*UrbSession.* The table of cancel functions: PendingIsLive and InFlightIsUnlinkable need
Youngest (a stored function belongs to the youngest URB of its number) and AsyncFinishes
(only an isochronous URB removes an entry). ClosedIsQuiet needs InlineServed (the reader
is inside the inline URB, the last it has read), CallsOwned (a call in the device is
that of a goroutine at that place) and DrainedFirst. What is on the wire is a second
invariant over the first: without a hang-up, a goroutine past its reply has its answer
on the wire (AnswersTold), so when the reader is about to report "not found" every URB
of that number has been answered (NothingLeft), unless numbers are reused (Counts).
Audio is a third: each chunk in a ring or with a job comes from a playback URB of that
very cable that knows it was stored (RingsSourced, HeldSourced), and is in one place
(RingsApart, HeldApart); every step of a job lets go of audio, stores its own, or takes
the oldest (Drops, Stores, Takes). RepliesMatch says that a reply on the wire is that of
a job past answering, and its only one. With them and RevokeInv (who is cancelled may be
given back) the session implements UrbService: each action maps to accept, complete,
give back, answer or forget, or to a stutter.

*AppServer.* None of the safety properties is inductive. The invariant adds: a result
or a closed listener belongs to a server that has returned (ServersFit); a server that
opened the port and is not cancelled listens still or has left an error
(OpenUnlessFailed); what the manager's fields are while a call waits (ManagerFits); and
the key, a server that has not returned is the manager's own or a timeout gave up on it
(ReturnedOrOwned), from which PortHandedOver follows. *Server* implements it, so these
hold with any clients; CleanStart needs that whoever may still store has not been waited
for (Waited) and that the ring of a configured device holds nothing of those that were
over then (RingClean).

*CableSync.* StartingIsOwned, OneLinkedHelper and ChangeNotLost are inductive together
with Started (helpers come one after the other, each with its goroutine, and none is
there when the window starts one), Linked (a connection exists from the dialing on, and
a job has one that was accepted) and DesiredIsCurrent (a helper that arrives finds the
last change). RepliesPaired is a second invariant: the job that holds commandMu is the
only one in an exchange (InTurn), and between the broker and a helper there is one
request, one piece of work or one reply, of that job's count, or nothing (Talks).
SyncedMeansAttached needs two more. Tended: as long as no deadline was missed a helper
has work only while its connection is open, a line is on its way only to the job that
waits for it, and a helper begins with the first device. InStep: while no change of the
count is queued or under way (Settled), what the job in turn was told, or is going to be
told, of the ports is so; an "OK" means all devices of its count, a helper at device n
all before it. Every step that changes the ports or the count either ends Settled or is
the helper's own.

*AttachHelper.* SetupExplained: Fits says, for each place in the setup, what the machine
must be like for the call to be there undisturbed (which tool was found, how many files
are copied, whether filter and controller are in place), and is kept by restarts of
Windows and other installers. PathKept: an entry is kept by the edit, and the folder put
in front is one the PATH, as it was read, does not have. Ports: TodoIsOwnOrLate (a port
to be detached is the program's own, free, or newly taken) and Progress (nothing is
attached before all that was its own is detached; then each device before the next is at
exactly one port). They rest on OwnPortsAreOwn: the scan of the lines of `usbip port`
finds exactly the ports of this server, for any number of ports and whatever is attached
to them.

*Induction.* Where a recursive function is walked (the lines of a listing, a sum over
packets), its equation is derived from the existence of a function that satisfies it, and a
statement about every index is proved as one about the set of indices for which it holds:
if it were not all of them there would be a least one missing (LeastNumber, from the
library's well-foundedness of <). No induction theorem with an operator as parameter is
needed.

Only model-checked. Liveness under fairness (CancelledServersEnd, ConnectionsEnd,
EveryUrbAnswered, LeavingEnds, JobsEnd, HelpersLeave) is out of the prover's reach.
Every safety invariant, action property and refinement of the runs has a theorem. The four
violation runs are counterexamples and need no proof. TLC checks all these on the instances
above.

## 5. Not modelled

- The window's drawing, icons, message boxes and handles (`gui_windows.go`): Win32 calls
  that keep no state of the program's own. What its thread does to the count, the
  server, the broker, the status line and the list is in CableSync and CableLayout.
- The driver download and installer launch, `gui_windows.go:431-874`: nothing calls them.
- Logging, the command line and the self-test of `main.go`: straight-line code. What the
  self-test asserts of the loopback is RecordedIsPlayed, PlayedInOrder and the ring.
- The text of DEVLIST and IMPORT replies, of log lines and of strings in descriptors.
  The other lines of CONFIG.ini are never read. `-cables` on the command line, which
  replaces the count in the file for one run. Capacity, Available, Stats, LastError
  and LogPath only read.
- Malformed lines on the broker's connection: both ends are this program and the token
  is checked.
