----------------------------- MODULE AttachHelper -----------------------------
(***************************************************************************)
(* runAttachHelper (attach_windows.go) with the driver setup, the ports of *)
(* the one host controller that this program shares with others, and a     *)
(* server that may be restarted meanwhile.  CableSync has this call as a   *)
(* few steps, on ports that nobody else uses.                              *)
(***************************************************************************)
EXTENDS DriverSetup, CableLayout

CONSTANTS Counts,   \* cable counts the server may have
          MaxOthers, \* bound: devices of other programs at a time
          PortCount \* ports of the host controller

ASSUME HelperAssumption ==
  /\ Counts \subseteq 1..MaxCables
  /\ PortCount \in Nat

VARIABLES
  port,     \* port[p]: [host, device, live]; what `usbip port` lists
  served,   \* the count of the running server, or 0
  count,    \* the call's count of USB devices
  next,     \* the next one it attaches
  todo,     \* ports it found to be its own and has not detached yet
  late      \* ports another program attached since `usbip port`

portVars == <<port, served, count, next, todo, late>>
vars == <<setupVars, portVars>>

Ports == 1..PortCount

Free == [host |-> "none", device |-> 0, live |-> FALSE]
Others == {"foreign", "local"}
FreePorts == {p \in Ports : port[p] = Free}

Init ==
  /\ SetupInit
  /\ port = [p \in Ports |-> Free]
  /\ served \in Counts
  /\ count = 0 /\ next = 0 /\ todo = <<>> /\ late = {}

\* What `usbip port` prints: for each port in use a heading, a line about the device
\* and, where it came over the network, one with its URL.
Heading(p) == [kind |-> "Port", port |-> p, host |-> "none"]
Text == [kind |-> "text", port |-> 0, host |-> "none"]
Url(h) == [kind |-> "url", port |-> 0, host |-> h]

Block(p) ==
  IF port[p] = Free THEN <<>>
  ELSE <<Heading(p), Text>> \o IF port[p].host = "local" THEN <<>> ELSE <<Url(port[p].host)>>

Printed ==
  LET lines[p \in 0..PortCount] == IF p = 0 THEN <<>> ELSE lines[p - 1] \o Block(p)
  IN lines[PortCount]

MutantOnHeading(p, found) == IF found.current # 0 THEN found ELSE [found EXCEPT !.current = p]

OnHeading(p, found) == [found EXCEPT !.current = p]

\* An own URL belongs to the heading before it.
OnLine(l, found) ==
  CASE l.kind = "Port" -> OnHeading(l.port, found)
    [] found.current # 0 /\ l.host = "own" ->
         [own |-> Append(found.own, found.current), current |-> 0]
    [] OTHER -> found

\* The loop over the lines.
OwnPorts(lines) ==
  LET found[i \in 0..Len(lines)] ==
        IF i = 0 THEN [own |-> <<>>, current |-> 0] ELSE OnLine(lines[i], found[i - 1])
  IN found[Len(lines)].own

Call(n, fresh) ==
  /\ Enter(fresh) /\ n \in 1..MaxDevices
  /\ count' = n /\ next' = 1 /\ todo' = <<>> /\ late' = {}
  /\ UNCHANGED <<port, served>>

Ensure == EnsureUSBIPDriver /\ UNCHANGED portVars

toolUnchanged == UNCHANGED <<machine, exe, copied, queried>>

\* The server answers within 20 attempts, or the call fails.
ListDevices ==
  /\ pc = "list"
  /\ \/ served # 0 /\ Goes("inspect") /\ NoFault
     \/ served = 0 /\ Goes("failed") /\ NoFault
     \/ Fault /\ Goes("failed")
  /\ toolUnchanged /\ UNCHANGED portVars

\* When the ports cannot be listed none is detached, and the call goes on.
InspectPorts ==
  /\ pc = "inspect" /\ Goes("detach")
  /\ \/ todo' = OwnPorts(Printed) /\ NoFault
     \/ todo' = <<>> /\ Fault
  /\ late' = {}
  /\ toolUnchanged /\ UNCHANGED <<port, served, count, next>>

\* Whatever is attached at the port by now; that it cannot be detached is only logged.
DetachPort ==
  /\ pc = "detach" /\ todo # <<>>
  /\ todo' = Tail(todo) /\ Goes("detach")
  /\ \/ port' = [port EXCEPT ![Head(todo)] = Free] /\ NoFault
     \/ Fault /\ UNCHANGED port
  /\ toolUnchanged /\ UNCHANGED <<served, count, next, late>>

\* usbip attach of bus ID 1-next, at any free port.
AttachDevice ==
  /\ pc = "detach" /\ todo = <<>> /\ next <= count
  /\ \/ /\ next <= PhysicalDeviceCount(served)
        /\ \E p \in FreePorts :
             port' = [port EXCEPT ![p] = [host |-> "own", device |-> next, live |-> TRUE]]
        /\ next' = next + 1 /\ Goes("detach") /\ NoFault
     \/ /\ next > PhysicalDeviceCount(served) \/ FreePorts = {}
        /\ Goes("failed") /\ NoFault /\ UNCHANGED <<port, next>>
     \/ Fault /\ Goes("failed") /\ UNCHANGED <<port, next>>
  /\ toolUnchanged /\ UNCHANGED <<served, count, todo, late>>

AllAttached ==
  /\ pc = "detach" /\ todo = <<>> /\ next > count
  /\ Goes("OK") /\ NoFault
  /\ toolUnchanged /\ UNCHANGED portVars

-----------------------------------------------------------------------------
(* The window, Windows and other programs. *)

\* Restart, or Stop when n = 0: the connections of the server before end.
RestartServer(n) ==
  /\ served # n
  /\ served' = n
  /\ port' = [p \in Ports |-> IF port[p].host = "own" THEN [port[p] EXCEPT !.live = FALSE]
                              ELSE port[p]]
  /\ call' = [call EXCEPT !.met = TRUE]
  /\ UNCHANGED <<machine, search, pc, exe, copied, queried, faults, calls, count, next, todo, late>>

\* Windows notices that a connection has ended.
Vanishes(p) ==
  /\ port[p].host = "own" /\ ~port[p].live
  /\ port' = [port EXCEPT ![p] = Free]
  /\ UNCHANGED <<setupVars, served, count, next, todo, late>>

\* A device of Virtual Cables or Virtual MIDI Cables, or a local one.
OtherAttaches(p, host) ==
  /\ machine.started /\ p \in FreePorts
  /\ Cardinality({q \in Ports : port[q].host \in Others}) < MaxOthers
  /\ port' = [port EXCEPT ![p] = [host |-> host, device |-> 1, live |-> TRUE]]
  /\ late' = late \cup {p}
  /\ UNCHANGED <<setupVars, served, count, next, todo>>

OtherDetaches(p) ==
  /\ port[p].host \in Others
  /\ port' = [port EXCEPT ![p] = Free] /\ late' = late \ {p}
  /\ UNCHANGED <<setupVars, served, count, next, todo>>

Restarts ==
  /\ RestartWindows
  /\ port' = [p \in Ports |-> Free]
  /\ UNCHANGED <<served, count, next, todo, late>>

Environment ==
  \/ (DriverStarts \/ OtherEditsPath \/ Killed) /\ UNCHANGED portVars
  \/ Restarts
  \/ \E p \in Ports : Vanishes(p) \/ OtherDetaches(p) \/ \E host \in Others : OtherAttaches(p, host)
  \/ \E n \in Counts \cup {0} : RestartServer(n)

Next ==
  \/ \E n \in {PhysicalDeviceCount(c) : c \in Counts}, fresh \in BOOLEAN : Call(n, fresh)
  \/ Ensure \/ ListDevices \/ InspectPorts \/ DetachPort \/ AttachDevice \/ AllAttached
  \/ Environment

Spec == Init /\ [][Next]_vars

-----------------------------------------------------------------------------
\* A call that says OK, in which nothing failed and during which the server was not
\* restarted, leaves each device at exactly one port, although the ports of earlier
\* calls and those of other programs came and went meanwhile: its cables are neither
\* missing nor shown twice (attach_windows.go:292-350).
AttachedOnce ==
  pc = "OK" /\ ~call.disturbed /\ ~call.met =>
    \A d \in 1..count : Cardinality({p \in Ports : port[p].host = "own" /\ port[p].device = d}) = 1

\* A port of another program is detached only if that program came to it after the
\* ports were listed (attach_windows.go:306, README.md:30).
OthersStayAttached ==
  [][\A p \in Ports :
       todo' # todo /\ port[p].host \in Others /\ port'[p] = Free => p \in late]_vars
=============================================================================
