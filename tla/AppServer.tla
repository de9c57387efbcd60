------------------------------- MODULE AppServer -------------------------------
(***************************************************************************)
(* The manager of the USB/IP server: appServer of                          *)
(* cmd/virtualsurroundcables/main.go, and the listener of Server.Serve in  *)
(* internal/usbip/server.go.  The window's thread calls Restart and Stop,  *)
(* which hold s.mu until they return; every Restart starts a new Server in *)
(* a goroutine of its own, and all of them want the same port.             *)
(*                                                                         *)
(* Server i is the one of the i-th launch.  makeDevices does not fail for  *)
(* the counts the program uses (1 to 120), so it is not a step.            *)
(***************************************************************************)
EXTENDS Integers, FiniteSets

CONSTANTS Servers,      \* 1..n: bound on the launches in a behaviour
          Counts        \* cable counts that may be asked for

ASSUME ServerAssumption ==
  /\ IsFiniteSet(Servers) /\ Servers = 1..Cardinality(Servers)
  /\ Counts \subseteq 1..120

VARIABLES
  manager,     \* "idle", "stopping" (stopLocked waits) or "starting" (select)
  wanted,      \* the count given to Restart; 0 for Stop
  cur,         \* the server of s.cancel and s.done, 0 for nil
  count,       \* s.count
  lastError,   \* s.lastError, "none" if the last start succeeded
  launched,    \* servers launched so far
  serve,       \* serve[i]: "none", "opening", "accepting" or "done"
  devices,     \* devices[i]: the count server i was made for
  ready,       \* servers whose ready channel is closed
  result,      \* result[i]: what Serve left in its channel, "none" if nothing
  cancelled,   \* servers whose context is cancelled
  listening,   \* servers whose listener is open
  overdue      \* servers one of the two timeouts gave up on

managerVars == <<manager, wanted, cur, count, lastError, launched, devices, cancelled, overdue>>
serverVars  == <<serve, ready, result, listening>>
vars == <<managerVars, serverVars>>

Init ==
  /\ manager = "idle" /\ wanted = 0 /\ cur = 0 /\ lastError = "none"
  /\ count \in Counts
  /\ launched = 0
  /\ serve = [i \in Servers |-> "none"]
  /\ devices = [i \in Servers |-> 0]
  /\ ready = {} /\ cancelled = {} /\ listening = {} /\ overdue = {}
  /\ result = [i \in Servers |-> "none"]

-----------------------------------------------------------------------------
(* Serve of server i, and the goroutine that closes its listener. *)

\* The port is taken as long as an earlier listener is open; it may be taken
\* by somebody else as well.
Listen(i) ==
  /\ serve[i] = "opening"
  /\ \/ /\ listening = {}
        /\ serve' = [serve EXCEPT ![i] = "accepting"]
        /\ listening' = listening \cup {i}
        /\ ready' = ready \cup {i}
        /\ UNCHANGED result
     \/ /\ serve' = [serve EXCEPT ![i] = "done"]
        /\ result' = [result EXCEPT ![i] = "error"]
        /\ UNCHANGED <<listening, ready>>
  /\ UNCHANGED managerVars

MutantClosed(i) == i \in cancelled /\ i = cur
Closed(i) == i \in cancelled

\* <-ctx.Done(); ln.Close()
CloseListener(i) ==
  /\ i \in listening /\ Closed(i)
  /\ listening' = listening \ {i}
  /\ UNCHANGED <<managerVars, serve, ready, result>>

\* Accept fails: on a closed listener Serve returns nil, as it does for any
\* error once the context is cancelled; the deferred Close runs.
AcceptFails(i) ==
  /\ serve[i] = "accepting"
  /\ serve' = [serve EXCEPT ![i] = "done"]
  /\ result' = [result EXCEPT ![i] = IF i \in cancelled \/ i \notin listening
                                       THEN "nil" ELSE "error"]
  /\ listening' = listening \ {i}
  /\ UNCHANGED <<managerVars, ready>>

ServeStep(i) == Listen(i) \/ CloseListener(i) \/ (i \notin listening /\ AcceptFails(i))

-----------------------------------------------------------------------------
(* Restart and Stop. *)

New == launched + 1

\* NewServer and `go Serve`; then Restart waits in its select.
Launch(n) ==
  /\ manager' = "starting"
  /\ launched' = New
  /\ devices' = [devices EXCEPT ![New] = n]
  /\ serve' = [serve EXCEPT ![New] = "opening"]

\* The call goes on after stopLocked: Restart launches, Stop returns.
GoOn(n) == IF n = 0 THEN manager' = "idle" /\ UNCHANGED <<launched, devices, serve>>
                    ELSE Launch(n)

\* stopLocked: nothing to stop, or cancel and wait for the result.
Call(n) ==
  /\ manager = "idle"
  /\ wanted' = n
  /\ IF cur = 0 THEN GoOn(n) /\ UNCHANGED cancelled
     ELSE /\ cancelled' = cancelled \cup {cur}
          /\ manager' = "stopping"
          /\ UNCHANGED <<launched, devices, serve>>
  /\ UNCHANGED <<cur, count, lastError, overdue, ready, result, listening>>

Restart(n) == n \in Counts /\ New \in Servers /\ Call(n)
Stop == Call(0)

MutantReturned(i) == TRUE
Returned(i) == result[i] # "none"

\* <-s.done
Stopped ==
  /\ manager = "stopping" /\ Returned(cur)
  /\ result' = [result EXCEPT ![cur] = "none"]
  /\ cur' = 0
  /\ GoOn(wanted)
  /\ UNCHANGED <<wanted, count, lastError, cancelled, overdue, ready, listening>>

\* The shutdown takes longer than 2 s; the restart goes on.
StopTimesOut ==
  /\ manager = "stopping"
  /\ cur' = 0
  /\ overdue' = overdue \cup {cur}
  /\ GoOn(wanted)
  /\ UNCHANGED <<wanted, count, lastError, cancelled, ready, result, listening>>

MutantOpened(i) == TRUE
Opened(i) == i \in ready

\* <-server.Ready()
Started ==
  /\ manager = "starting" /\ Opened(launched)
  /\ manager' = "idle"
  /\ cur' = launched /\ count' = wanted /\ lastError' = "none"
  /\ UNCHANGED <<wanted, launched, devices, cancelled, overdue, serverVars>>

MutantCancelLaunched == cancelled
CancelLaunched == cancelled \cup {launched}

\* err := <-result; a nil error is replaced by one.
StartFails ==
  /\ manager = "starting" /\ result[launched] # "none"
  /\ manager' = "idle" /\ lastError' = "error"
  /\ result' = [result EXCEPT ![launched] = "none"]
  /\ cancelled' = CancelLaunched
  /\ UNCHANGED <<wanted, cur, count, launched, devices, overdue, serve, ready,
                 listening>>

\* Neither within 3 s: Serve may still open the port, but its context is over.
StartTimesOut ==
  /\ manager = "starting"
  /\ manager' = "idle" /\ lastError' = "error"
  /\ cancelled' = CancelLaunched
  /\ overdue' = overdue \cup {launched}
  /\ UNCHANGED <<wanted, cur, count, launched, devices, serverVars>>

ManagerStep == Stopped \/ StopTimesOut \/ Started \/ StartFails \/ StartTimesOut

\* Everything but a new launch.
Proceed ==
  \/ Stop
  \/ ManagerStep
  \/ \E i \in Servers : ServeStep(i) \/ (i \in listening /\ AcceptFails(i))

Next == Proceed \/ \E n \in Counts : Restart(n)

Spec == Init /\ [][Next]_vars

\* Goroutines run and the two timers expire.  The window may be left alone, and
\* neither clients nor accept errors have to come.
Fairness == /\ \A i \in Servers : WF_vars(ServeStep(i))
            /\ WF_vars(ManagerStep)

FairSpec == Spec /\ Fairness

-----------------------------------------------------------------------------
TypeOK ==
  /\ manager \in {"idle", "stopping", "starting"}
  /\ wanted \in Counts \cup {0} /\ count \in Counts /\ lastError \in {"none", "error"}
  /\ cur \in 0..launched /\ launched \in Servers \cup {0}
  /\ serve \in [Servers -> {"none", "opening", "accepting", "done"}]
  /\ devices \in [Servers -> Counts \cup {0}]
  /\ result \in [Servers -> {"none", "nil", "error"}]
  /\ ready \cup cancelled \cup listening \cup overdue \subseteq 1..launched

\* No server is left running behind the manager's back: one that may still open
\* the port, accept, or give its context to connections is the current one or the
\* one being started, or its context is cancelled (main.go:40, :61, :68).
NoOrphan ==
  \A i \in 1..launched : i \notin cancelled =>
    i = cur \/ (manager = "starting" /\ i = launched)

\* Between two calls the manager reports what there is: an error means that there
\* is no server, a current server was made for s.count cables, is not cancelled
\* and listens, unless its Accept failed later, which nobody reads.
ReportedIsServed ==
  manager = "idle" =>
    /\ lastError # "none" => cur = 0
    /\ cur # 0 => /\ devices[cur] = count /\ cur \notin cancelled
                  /\ cur \in listening \/ result[cur] = "error"

\* stopLocked hands over a free port: unless a timeout gave up on an earlier
\* server, none of the earlier listeners is open while the new server starts
\* (main.go:109-120).
PortHandedOver ==
  manager = "starting" => listening \ overdue \subseteq {launched}

\* A server that was cancelled releases the port and returns, also when it was
\* cancelled before it had opened it (server.go:56-59).
CancelledServersEnd ==
  \A i \in Servers : i \in cancelled ~> serve[i] = "done" /\ i \notin listening
=============================================================================
