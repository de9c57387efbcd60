--------------------------------- MODULE Server ---------------------------------
(***************************************************************************)
(* The connections of the USB/IP servers: Accept, handleConnection and the *)
(* sessions it leads to (internal/usbip/server.go), together with the      *)
(* manager that starts and stops the servers.  A launch makes devices of   *)
(* its own; sessions of one launch that import the same bus ID share one.  *)
(*                                                                         *)
(* Of a session there is what it does to the shared device: its reader     *)
(* configures it, opens and closes a cable, and its URB goroutines, which  *)
(* may outlive the reader, look at the interface and then move audio.      *)
(* Either may be stuck in a write to a host that does not read.            *)
(* UrbSession has one session in full.                                     *)
(***************************************************************************)
EXTENDS AppServer, CableLayout, SequencesExt

CONSTANTS Connections,  \* 1..n: connections in a behaviour
          BusIDs,       \* numbers of the devices that hosts ask for
          Limits        \* bounds, one of which a behaviour has: [launches,
                        \* connections, counts, stalls], where counts may be
                        \* asked for and hosts may stop reading if stalls

VARIABLES
  limit,     \* the bound of this behaviour
  stage,     \* stage[c]: "none", "handshake", "replying", "session", "draining", "closed"
  imported,  \* imported[c]: <<server, device>> that accepted c and that it asked for
  left,      \* connections of which nothing more can be read: the host has
             \* hung up, or sent what cannot be parsed
  blocked,   \* connections whose host is there and does not read: writes wait
  open,      \* the <<server, device>> whose cable is configured and open
  ring,      \* ring[x]: the connections that played what is in x's ring
  storing,   \* connections with a URB that saw its interface open and has yet to store
  stuck,     \* <<c, who>>: the "reader" of c, or a "urb" goroutine, waits to write its reply
  over,      \* over[c]: the connections that were closed when c configured its device
  heard      \* heard[c]: whose audio c has recorded since then

connVars   == <<stage, imported>>
hostVars   == <<left, blocked>>
sharedVars == <<open, ring, storing, stuck, over, heard>>
allVars    == <<vars, limit, connVars, hostVars, sharedVars>>

NoDevice == <<0, 0>>

InitServer ==
  /\ Init
  /\ limit \in Limits /\ count \in limit.counts
  /\ stage = [c \in Connections |-> "none"]
  /\ imported = [c \in Connections |-> NoDevice]
  /\ left = {} /\ blocked = {} /\ open = {} /\ storing = {} /\ stuck = {}
  /\ ring = [x \in Servers \X BusIDs |-> <<>>]
  /\ over = [c \in Connections |-> {}] /\ heard = [c \in Connections |-> {}]

-----------------------------------------------------------------------------
(* Accept and handleConnection.                                            *)

Goto(c, l) == stage' = [stage EXCEPT ![c] = l]

\* Accept starts a goroutine per connection; it has 30 s for what follows.
Accept(c, i) ==
  /\ stage[c] = "none" /\ c <= limit.connections
  /\ \A b \in 1..c - 1 : stage[b] # "none"
  /\ i \in listening /\ serve[i] = "accepting"
  /\ Goto(c, "handshake")
  /\ imported' = [imported EXCEPT ![c] = <<i, 0>>]
  /\ UNCHANGED <<hostVars, sharedVars>>

\* OP_REQ_IMPORT of a bus ID that findDevice finds.
Import(c, d) ==
  /\ stage[c] = "handshake"
  /\ d \in DeviceNumbers(devices[imported[c][1]])
  /\ imported' = [imported EXCEPT ![c][2] = d]
  /\ Goto(c, "replying")
  /\ UNCHANGED <<hostVars, sharedVars>>

\* OP_REQ_DEVLIST or an unknown bus ID: a reply, and no session.
OtherRequest(c) ==
  /\ stage[c] = "handshake"
  /\ Goto(c, "replying")
  /\ UNCHANGED <<imported, hostVars, sharedVars>>

\* A write to a host that has hung up fails or goes unread: it does not wait.
CanWrite(c) == c \notin blocked

\* The reply is written.  An import lifts the deadline, whatever has become of the
\* server meanwhile; anything else closes the connection.
Replied(c) ==
  /\ stage[c] = "replying" /\ CanWrite(c)
  /\ Goto(c, IF imported[c][2] # 0 THEN "session" ELSE "closed")
  /\ UNCHANGED <<imported, hostVars, sharedVars>>

MutantExpires(c) == stage[c] = "handshake"

\* The deadline of the handshake holds for reading and for writing.
Expires(c) == stage[c] \in {"handshake", "replying"}

\* It passes, or the host is gone, or makes no sense: the deferred Close.
HandshakeFails(c) ==
  /\ Expires(c)
  /\ Goto(c, "closed")
  /\ UNCHANGED <<imported, hostVars, sharedVars>>

Connected(c) == stage[c] \notin {"none", "closed"}

HangUp(c) ==
  /\ Connected(c) /\ c \notin left \ blocked
  /\ left' = left \cup {c} /\ blocked' = blocked \ {c}
  /\ UNCHANGED <<connVars, sharedVars>>

\* The host sends what cannot be parsed, and stays.
Garble(c) ==
  /\ Connected(c) /\ c \notin left
  /\ left' = left \cup {c}
  /\ UNCHANGED <<blocked, connVars, sharedVars>>

\* The host stops reading (before it sends nonsense, if it ever does), ...
Stall(c) ==
  /\ limit.stalls /\ Connected(c) /\ c \notin left \cup blocked
  /\ blocked' = blocked \cup {c}
  /\ UNCHANGED <<left, connVars, sharedVars>>

\* ... and goes on to.
Resume(c) ==
  /\ Connected(c) /\ c \in blocked
  /\ blocked' = blocked \ {c}
  /\ UNCHANGED <<left, connVars, sharedVars>>

\* handleURBs returns when it cannot read on; the server's context does not end it.
SessionEnds(c) ==
  /\ stage[c] = "session" /\ c \in left /\ <<c, "reader">> \notin stuck
  /\ Goto(c, "draining")
  /\ UNCHANGED <<imported, hostVars, sharedVars>>

MutantJobsDone(c) == TRUE

\* state.wg.Wait()
JobsDone(c) == c \notin storing /\ <<c, "urb">> \notin stuck

Drained(c) ==
  /\ stage[c] = "draining" /\ JobsDone(c)
  /\ Goto(c, "closed")
  /\ UNCHANGED <<imported, hostVars, sharedVars>>

-----------------------------------------------------------------------------
(* What sessions do to the device they share.  Of the URBs of a connection *)
(* that are at the same place there is one.                                *)

InSession(c) == stage[c] = "session" /\ c \notin left

\* The reader or a goroutine answers, at once if the host reads.
Reply(c, who) == stuck' = IF CanWrite(c) THEN stuck ELSE stuck \cup {<<c, who>>}

\* The write that waited comes through, or fails now that the host has hung up.
Written(c) ==
  /\ CanWrite(c)
  /\ \E who \in {"reader", "urb"} :
       <<c, who>> \in stuck /\ stuck' = stuck \ {<<c, who>>}
  /\ UNCHANGED <<connVars, hostVars, open, ring, storing, over, heard>>

\* The reader answers a control request before it reads on.
Serve(c) == InSession(c) /\ <<c, "reader">> \notin stuck /\ Reply(c, "reader")

MutantRingAfter(x) == ring

RingAfter(x) == [ring EXCEPT ![x] = <<>>]

\* SET_CONFIGURATION closes the cable and empties its ring.
Configure(c) ==
  /\ Serve(c)
  /\ open' = open \ {imported[c]}
  /\ ring' = RingAfter(imported[c])
  /\ over' = [over EXCEPT ![c] = {b \in Connections : stage[b] = "closed"}]
  /\ heard' = [heard EXCEPT ![c] = {}]
  /\ UNCHANGED <<connVars, hostVars, storing>>

\* SET_INTERFACE to the setting that streams, and back.
OpenCable(c) ==
  /\ Serve(c)
  /\ open' = open \cup {imported[c]}
  /\ UNCHANGED <<connVars, hostVars, ring, storing, over, heard>>

CloseCable(c) ==
  /\ Serve(c)
  /\ open' = open \ {imported[c]}
  /\ ring' = [ring EXCEPT ![imported[c]] = <<>>]
  /\ UNCHANGED <<connVars, hostVars, storing, over, heard>>

\* The goroutine of a playback URB finds the cable open ...
Play(c) ==
  /\ InSession(c)
  /\ imported[c] \in open /\ c \notin storing
  /\ storing' = storing \cup {c}
  /\ UNCHANGED <<connVars, hostVars, open, ring, stuck, over, heard>>

\* ... stores its chunk (a ring of one chunk loses the older one), and answers.
Store(c) ==
  /\ c \in storing
  /\ storing' = storing \ {c}
  /\ ring' = [ring EXCEPT ![imported[c]] = <<c>>]
  /\ Reply(c, "urb")
  /\ UNCHANGED <<connVars, hostVars, open, over, heard>>

Record(c) ==
  /\ InSession(c)
  /\ imported[c] \in open /\ ring[imported[c]] # <<>>
  /\ heard' = [heard EXCEPT ![c] = @ \cup ToSet(ring[imported[c]])]
  /\ ring' = [ring EXCEPT ![imported[c]] = <<>>]
  /\ Reply(c, "urb")
  /\ UNCHANGED <<connVars, hostVars, open, storing, over>>

\* Any other URB: its context has ended, or there is nothing to take or to record.
Idle(c) ==
  /\ InSession(c) /\ Reply(c, "urb")
  /\ UNCHANGED <<connVars, hostVars, open, ring, storing, over, heard>>

-----------------------------------------------------------------------------
ConnectionStep(c) ==
  HandshakeFails(c) \/ Written(c) \/ SessionEnds(c) \/ Store(c) \/ Drained(c)

Host(c) ==
  \/ \E i \in Servers : Accept(c, i)
  \/ \E d \in BusIDs : Import(c, d)
  \/ OtherRequest(c) \/ Replied(c) \/ HangUp(c) \/ Garble(c) \/ Stall(c) \/ Resume(c)
  \/ Configure(c) \/ OpenCable(c) \/ CloseCable(c) \/ Play(c) \/ Record(c) \/ Idle(c)

Manager == Proceed \/ (launched < limit.launches /\ \E n \in limit.counts : Restart(n))

NextServer ==
  \/ Manager /\ UNCHANGED <<limit, connVars, hostVars, sharedVars>>
  \/ \E c \in Connections : (Host(c) \/ ConnectionStep(c)) /\ UNCHANGED <<vars, limit>>

\* Goroutines run, and a deadline that is set passes.  Hosts may do nothing.
ServerSpec ==
  /\ InitServer /\ [][NextServer]_allVars
  /\ Fairness
  /\ \A c \in Connections : WF_allVars(ConnectionStep(c) /\ UNCHANGED <<vars, limit>>)

-----------------------------------------------------------------------------
\* What a connection records after it has configured its device was played by
\* connections that were not over then: nobody hears what an earlier session has
\* left behind, though the device outlives sessions, sessions may share it, and a
\* URB goroutine may store its audio after the cable was closed and emptied
\* (server.go:101-115, 311-316; device.go:106-112, 245-254).
CleanStart == \A c \in Connections : heard[c] \cap over[c] = {}

\* Every accepted connection comes to a session or to an end, though its host
\* neither asks for anything nor reads the reply; and each of them ends once nothing
\* more can be read of it, whatever becomes of the server (server.go:79-118,
\* 311-316), unless its host stays there without reading: no deadline holds for the
\* writes of a session.
ConnectionsEnd ==
  \A c \in Connections :
    /\ stage[c] \in {"handshake", "replying"} ~> stage[c] \in {"session", "closed"}
    /\ <>[](c \notin blocked) => (c \in left ~> stage[c] = "closed")
=============================================================================
