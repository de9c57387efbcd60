------------------------------- MODULE CableSync -------------------------------
(***************************************************************************)
(* How a change of the cable count reaches Windows: the window's thread    *)
(* (gui_windows.go, applyCount), the broker between it and an elevated     *)
(* helper process (broker_windows.go), and the helper, which detaches and  *)
(* attaches the USB devices with usbip.exe (attach_windows.go).            *)
(*                                                                         *)
(* Helper h is the process of the h-th ShellExecute, and its connection;   *)
(* job j is the j-th syncCableDevices goroutine of a run of the program.   *)
(* Of the server only the count it serves is here; AppServer has its       *)
(* inside.                                                                 *)
(***************************************************************************)
EXTENDS CableLayout, Sequences, FiniteSetsExt

CONSTANTS Counts,       \* cable counts the window may have: 1..120 in the code
          Helpers,      \* 1..n: bound on the helpers started
          JobIds,       \* 1..n: bound on the synchronizations
          Ports,        \* 1..n: ports of the USB/IP host controller
          MaxChanges,   \* bound: changes of the count
          MaxRuns,      \* bound: times the program is started
          DefaultCount, \* the count of a missing or unreadable CONFIG.ini
          Faults        \* what may go wrong: see the uses

ASSUME SyncAssumption ==
  /\ Counts \subseteq 1..120
  /\ \A S \in {Helpers, JobIds, Ports} : IsFiniteSet(S) /\ S = 1..Cardinality(S)
  /\ MaxChanges \in Nat /\ MaxRuns \in Nat \ {0} /\ DefaultCount \in Counts
  /\ Faults \subseteq {"refuse", "restart", "greeting", "crash", "deadline", "usbip", "close",
                    "die", "save"}

VARIABLES
  window,      \* where the window's thread is
  wanted,      \* the count given to applyCount
  cableCount, changes,          \* the count, and how often it changed
  saved,       \* the count in CONFIG.ini; 0 if that cannot be read
  saveFailed,  \* this run could not save a count
  runs,        \* how often the program was started
  status,      \* the count that the status line calls synchronized, or 0
  served,      \* the count of the running server, or 0
  conn, starting,               \* fields of cableDeviceBroker
  desired,     \* and its desired count, with the change it is of
  commandMu,   \* the job that holds it, or 0
  accept,      \* accept[h]: the acceptCableBroker goroutine of helper h
  link,        \* link[h]: the connection to helper h
  request, reply,               \* lines on their way through it
  helper,      \* helper[h]: [pc, count, next, todo]
  job,         \* the jobs started: [pc, count, change, conn]
  port,        \* port[p]: the device attached there, Free, or Stale
  overdue      \* a job gave up on a helper that was still working

fileVars   == <<saved, saveFailed, runs>>
windowVars == <<window, wanted, cableCount, changes, fileVars>>
brokerVars == <<conn, desired, starting>>
linkVars   == <<link, request, reply>>
vars == <<windowVars, status, served, brokerVars, commandMu, accept, linkVars,
          helper, job, port, overdue>>

\* Nothing is attached there; or a device of a server that was stopped.
Free == 0
Stale == -1
Outdated == [p \in Ports |-> IF port[p] = Free THEN Free ELSE Stale]
Attached == {p \in Ports : port[p] # Free}

Waits == [pc |-> "none", count |-> 0, next |-> 0, todo |-> {}]

MutantLoad == IF saved = 0 \/ saved >= Max(Counts) THEN DefaultCount ELSE saved

\* loadCableCount.
Load == IF saved = 0 THEN DefaultCount ELSE saved

\* The server has been started, or that failed (main.go:204-208); the window opens
\* with startCableBroker.
Opened(n, up) ==
  /\ window' = "launch" /\ cableCount' = n /\ wanted' = n
  /\ served' = IF up THEN n ELSE 0
  /\ status' = 0

Init ==
  /\ window = "closed" /\ changes = 0 /\ runs = 0
  /\ saved \in Counts \cup {0} /\ saveFailed = FALSE
  /\ cableCount = DefaultCount /\ wanted = DefaultCount
  /\ served = 0 /\ status = 0
  /\ conn = 0 /\ desired = [count |-> 0, change |-> 0] /\ starting = FALSE /\ commandMu = 0
  /\ accept = [h \in Helpers |-> "none"]
  /\ link = [h \in Helpers |-> "none"]
  /\ request = [h \in Helpers |-> <<>>] /\ reply = [h \in Helpers |-> <<>>]
  /\ helper = [h \in Helpers |-> Waits]
  /\ job = <<>>
  /\ port = [p \in Ports |-> Free]
  /\ overdue = FALSE

Working(h) == helper[h].pc \in {"list", "detach", "attach"}
Launched == {h \in Helpers : helper[h].pc # "none"}
Say(n) == status' = n

\* `go syncCableDevices(count)`: w is the count and the change it is of.
Spawn(w) ==
  /\ Len(job) + 1 \in JobIds
  /\ job' = Append(job, [pc |-> "queued", count |-> w.count,
                        change |-> w.change, conn |-> 0])

-----------------------------------------------------------------------------
(* The window's thread. *)

\* A run of the program; what the last one attached is still there, and so may
\* its helper be.
StartProgram(up) ==
  /\ window = "closed" /\ runs < MaxRuns
  /\ up \/ "restart" \in Faults
  /\ Opened(Load, up)
  /\ runs' = runs + 1 /\ saveFailed' = FALSE
  /\ UNCHANGED <<changes, saved, brokerVars, commandMu, accept, linkVars, helper, job, port,
                 overdue>>

\* applyCount enters Restart, which stops the server.
ApplyCount(n) ==
  /\ window = "open" /\ changes < MaxChanges
  /\ window' = "restart" /\ wanted' = n
  /\ served' = 0 /\ port' = Outdated
  /\ UNCHANGED <<cableCount, changes, fileVars, status, brokerVars, commandMu, accept,
                 linkVars, helper, job, overdue>>

AddCable == cableCount + 1 \in Counts /\ ApplyCount(cableCount + 1)

RemoveCable == cableCount - 1 \in Counts /\ ApplyCount(cableCount - 1)

\* Restart returns nil and the count is stored.
Restarted ==
  /\ window = "restart"
  /\ window' = "save"
  /\ served' = wanted
  /\ cableCount' = wanted /\ changes' = changes + 1
  /\ UNCHANGED <<wanted, fileVars, status, brokerVars, commandMu, accept, linkVars, helper,
                 job, port, overdue>>

RestartFails ==
  /\ window = "restart" /\ "restart" \in Faults
  /\ window' = "open" /\ wanted' = cableCount
  /\ UNCHANGED <<cableCount, changes, fileVars, status, served, brokerVars, commandMu,
                 accept, linkVars, helper, job, port, overdue>>

saveUnchanged == <<wanted, cableCount, changes, runs, served, brokerVars, commandMu, accept,
                   linkVars, helper, job, port, overdue>>

\* os.WriteFile empties the file before it writes to it.
Truncate ==
  /\ window = "save"
  /\ window' = "write" /\ saved' = 0
  /\ UNCHANGED <<saveUnchanged, saveFailed, status>>

\* The file is written, and the list refreshed.
Saved ==
  /\ window = "write"
  /\ window' = "request" /\ saved' = cableCount
  /\ Say(0)
  /\ UNCHANGED <<saveUnchanged, saveFailed>>

\* The user is told, and the change goes on.
SaveFails ==
  /\ window \in {"save", "write"} /\ "save" \in Faults
  /\ window' = "request" /\ saveFailed' = TRUE
  /\ Say(0)
  /\ UNCHANGED <<saveUnchanged, saved>>

Current == [count |-> cableCount, change |-> changes]

MutantDesire == UNCHANGED desired

Desire == desired' = Current

\* requestCableSync looks at the broker once, under mu.
RequestSync ==
  /\ window = "request"
  /\ Desire
  /\ \/ conn # 0 /\ Spawn(Current) /\ window' = "open"
     \/ conn = 0 /\ starting /\ window' = "open" /\ UNCHANGED job
     \/ conn = 0 /\ ~starting /\ window' = "launch" /\ UNCHANGED job
  /\ UNCHANGED <<wanted, cableCount, changes, fileVars, status, served, conn, starting, commandMu,
                 accept, linkVars, helper, port, overdue>>

\* startCableBroker, unless a broker is there or on its way; a listener, a token
\* and ShellExecute, which returns when the user has answered.
StartBroker ==
  /\ window = "launch"
  /\ \/ (starting \/ conn # 0) /\ window' = "open" /\ UNCHANGED <<desired, starting>>
     \/ ~starting /\ conn = 0
        /\ window' = "approval" /\ starting' = TRUE /\ desired' = Current
  /\ UNCHANGED <<wanted, cableCount, changes, fileVars, status, served, conn, commandMu,
                 accept, linkVars, helper, job, port, overdue>>

Approved(h) ==
  /\ window = "approval" /\ h = Cardinality(Launched) + 1
  /\ window' = "open"
  /\ accept' = [accept EXCEPT ![h] = "waiting"]
  /\ helper' = [helper EXCEPT ![h].pc = "dialing"]
  /\ Say(0)
  /\ UNCHANGED <<wanted, cableCount, changes, fileVars, served, brokerVars, commandMu,
                 linkVars, job, port, overdue>>

MutantGiveUp == UNCHANGED starting

\* starting = false, on each way to fail.
GiveUp == starting' = FALSE

\* The user says no, or one of the steps before fails.
Refused ==
  /\ window = "approval" /\ "refuse" \in Faults
  /\ window' = "open" /\ GiveUp
  /\ Say(0)
  /\ UNCHANGED <<wanted, cableCount, changes, fileVars, served, conn, desired, commandMu,
                 accept, linkVars, helper, job, port, overdue>>

\* The process is over, and with it every goroutine and connection; a helper may
\* still be at work, or about to be.
Exit ==
  /\ window' = "closed" /\ wanted' = DefaultCount /\ cableCount' = DefaultCount
  /\ desired' = [count |-> 0, change |-> 0]
  /\ conn' = 0 /\ served' = 0 /\ starting' = FALSE /\ commandMu' = 0 /\ status' = 0
  /\ link' = [h \in Helpers |-> IF link[h] = "open" THEN "closed" ELSE link[h]]
  /\ reply' = [h \in Helpers |-> <<>>]
  /\ accept' = [h \in Helpers |-> IF accept[h] = "none" THEN "none" ELSE "done"]
  /\ job' = <<>>
  /\ port' = Outdated
  /\ overdue' = (overdue \/ \E h \in Helpers : Working(h) \/ request[h] # <<>>)
  /\ UNCHANGED <<changes, fileVars, request, helper>>

\* WM_DESTROY: stopCableBroker and Stop.
CloseWindow == window = "open" /\ "close" \in Faults /\ Exit

\* The process is killed, or the machine restarted.
Die == window # "closed" /\ "die" \in Faults /\ Exit

-----------------------------------------------------------------------------
(* acceptCableBroker of helper h. *)

acceptUnchanged == <<windowVars, status, served, commandMu, port, overdue>>

\* No connection within 60 s.
AcceptTimesOut(h) ==
  /\ accept[h] = "waiting"
  /\ "greeting" \in Faults \/ helper[h].pc = "gone"
  /\ accept' = [accept EXCEPT ![h] = "done"]
  /\ GiveUp
  /\ UNCHANGED <<acceptUnchanged, conn, desired, linkVars, helper, job>>

\* No token, or another one, within 5 s.
GreetingFails(h) ==
  /\ accept[h] = "greeting"
  /\ "greeting" \in Faults \/ helper[h].pc = "gone"
  /\ accept' = [accept EXCEPT ![h] = "done"]
  /\ link' = [link EXCEPT ![h] = "closed"]
  /\ GiveUp
  /\ UNCHANGED <<acceptUnchanged, conn, desired, request, reply, helper, job>>

\* The connection becomes the broker's, and the count desired by now is
\* synchronized.
Greeted(h) ==
  /\ accept[h] = "greeting"
  /\ accept' = [accept EXCEPT ![h] = "done"]
  /\ conn' = h /\ starting' = FALSE
  /\ Spawn(desired)
  /\ UNCHANGED <<acceptUnchanged, desired, linkVars, helper>>

-----------------------------------------------------------------------------
(* syncCableDevices of job j. *)

jobUnchanged == <<windowVars, served, desired, starting, accept, helper, port>>

Ends(j) == job' = [job EXCEPT ![j].pc = "done"]

MutantMayCommand == TRUE

MayCommand == commandMu = 0

MutantUnlock == UNCHANGED commandMu

Unlock == commandMu' = 0

MutantHungUp(h) == link

\* conn.Close.
HungUp(h) == [link EXCEPT ![h] = "closed"]

\* commandMu is taken and the connection looked up.
Begin(j) ==
  /\ job[j].pc = "queued" /\ MayCommand
  /\ IF conn = 0 THEN Ends(j) /\ UNCHANGED commandMu
     ELSE /\ job' = [job EXCEPT ![j].pc = "send", ![j].conn = conn]
          /\ commandMu' = j
  /\ UNCHANGED <<jobUnchanged, status, conn, linkVars, overdue>>

Send(j) ==
  /\ job[j].pc = "send" /\ link[job[j].conn] = "open"
  /\ request' = [request EXCEPT ![job[j].conn] = Append(@, PhysicalDeviceCount(job[j].count))]
  /\ job' = [job EXCEPT ![j].pc = "sent"]
  /\ UNCHANGED <<jobUnchanged, status, conn, commandMu, link, reply, overdue>>

Receive(j) ==
  LET h == job[j].conn
  IN /\ job[j].pc = "sent" /\ reply[h] # <<>>
     /\ reply' = [reply EXCEPT ![h] = Tail(@)]
     /\ job' = [job EXCEPT ![j].pc = Head(reply[h])]
     /\ UNCHANGED <<jobUnchanged, status, conn, commandMu, link, request, overdue>>

\* setStatus sends the line to the window's thread and waits until that thread
\* looks for messages; commandMu is held meanwhile.
Show(j) ==
  /\ job[j].pc \in {"OK", "ERR"} /\ window = "open"
  /\ Say(IF job[j].pc = "OK" THEN job[j].count ELSE 0)
  /\ Ends(j) /\ Unlock
  /\ UNCHANGED <<jobUnchanged, conn, linkVars, overdue>>

\* A write error, a read error, or 45 s without an answer: the connection is
\* closed and, if it is still the broker's, forgotten; the status line stays.
Lose(j) ==
  LET h == job[j].conn
  IN /\ job[j].pc \in {"send", "sent"}
     /\ "deadline" \in Faults \/ helper[h].pc = "gone"
     /\ link' = HungUp(h)
     /\ conn' = IF conn = h THEN 0 ELSE conn
     /\ overdue' = (overdue \/ helper[h].pc # "gone")
     /\ reply' = [reply EXCEPT ![h] = <<>>]
     /\ Ends(j) /\ Unlock
     /\ UNCHANGED <<jobUnchanged, status, request>>

JobStep(j) == Begin(j) \/ Send(j) \/ Receive(j) \/ Show(j) \/ Lose(j)

-----------------------------------------------------------------------------
(* runAttachBroker and runAttachHelper of helper h. *)

helperUnchanged == <<windowVars, status, served, brokerVars, commandMu, job, overdue>>

Dial(h) ==
  /\ helper[h].pc = "dialing" /\ accept[h] = "waiting"
  /\ accept' = [accept EXCEPT ![h] = "greeting"]
  /\ link' = [link EXCEPT ![h] = "open"]
  /\ helper' = [helper EXCEPT ![h].pc = "reading"]
  /\ UNCHANGED <<helperUnchanged, request, reply, port>>

Take(h) ==
  /\ helper[h].pc = "reading" /\ request[h] # <<>>
  /\ request' = [request EXCEPT ![h] = Tail(@)]
  /\ helper' = [helper EXCEPT ![h] = [pc |-> "list", count |-> Head(request[h]),
                                      next |-> 1, todo |-> {}]]
  /\ UNCHANGED <<helperUnchanged, accept, link, reply, port>>

Answer(h, line) ==
  /\ reply' = IF link[h] = "open" THEN [reply EXCEPT ![h] = Append(@, line)] ELSE reply
  /\ helper' = [helper EXCEPT ![h] = [Waits EXCEPT !.pc = "reading"]]

\* The local server answers the device list.  `usbip port` then shows the ports
\* of this server's address; when it fails none of them is detached.
Inspect(h) ==
  /\ helper[h].pc = "list" /\ served # 0
  /\ \E own \in {Attached} \cup (IF "usbip" \in Faults THEN {{}} ELSE {}) :
       helper' = [helper EXCEPT ![h].pc = "detach", ![h].todo = own]
  /\ UNCHANGED <<helperUnchanged, accept, linkVars, port>>

\* The next of the ports found; a failure is logged and the port left alone.
Detach(h) ==
  /\ helper[h].pc = "detach"
  /\ \/ /\ helper[h].todo = {}
        /\ helper' = [helper EXCEPT ![h].pc = "attach"]
        /\ UNCHANGED port
     \/ /\ helper[h].todo # {}
        /\ helper' = [helper EXCEPT ![h].todo = @ \ {Min(@)}]
        /\ \/ port' = [port EXCEPT ![Min(helper[h].todo)] = Free]
           \/ "usbip" \in Faults /\ UNCHANGED port
  /\ UNCHANGED <<helperUnchanged, accept, linkVars>>

MutantLeft(h) == helper[h].next < helper[h].count

Left(h) == helper[h].next <= helper[h].count

\* usbip attach of bus ID 1-next: the running server has that device.
Attach(h) ==
  /\ helper[h].pc = "attach" /\ Left(h)
  /\ helper[h].next <= PhysicalDeviceCount(served) /\ Attached # Ports
  /\ port' = [port EXCEPT ![Min(Ports \ Attached)] = helper[h].next]
  /\ helper' = [helper EXCEPT ![h].next = @ + 1]
  /\ UNCHANGED <<helperUnchanged, accept, linkVars>>

AllAttached(h) ==
  /\ helper[h].pc = "attach" /\ ~Left(h)
  /\ Answer(h, "OK")
  /\ UNCHANGED <<helperUnchanged, accept, link, request, port>>

\* The driver, the device list or one attach fails; what was attached stays.
HelperFails(h) ==
  /\ \/ helper[h].pc = "list" /\ ("usbip" \in Faults \/ served = 0)
     \/ helper[h].pc = "attach" /\ Left(h)
        /\ ("usbip" \in Faults \/ helper[h].next > PhysicalDeviceCount(served) \/ Attached = Ports)
  /\ Answer(h, "ERR")
  /\ UNCHANGED <<helperUnchanged, accept, link, request, port>>

Leave(h) ==
  /\ helper' = [helper EXCEPT ![h] = [Waits EXCEPT !.pc = "gone"]]
  /\ request' = [request EXCEPT ![h] = <<>>]

MutantForsaken(h) == helper[h].pc = "dialing" /\ accept[h] # "waiting"

\* The connection is closed, or nobody listened for it.
Forsaken(h) ==
  \/ helper[h].pc = "reading" /\ request[h] = <<>> /\ link[h] = "closed"
  \/ helper[h].pc = "dialing" /\ accept[h] # "waiting"

HelperLeaves(h) ==
  /\ Forsaken(h)
  /\ Leave(h)
  /\ UNCHANGED <<helperUnchanged, accept, link, reply, port>>

HelperCrashes(h) ==
  /\ "crash" \in Faults /\ helper[h].pc \notin {"none", "gone"}
  /\ Leave(h)
  /\ UNCHANGED <<helperUnchanged, accept, link, reply, port>>

HelperStep(h) ==
  \/ Dial(h) \/ Take(h) \/ Inspect(h) \/ Detach(h) \/ Attach(h) \/ AllAttached(h)
  \/ HelperFails(h) \/ HelperLeaves(h)

AcceptStep(h) == AcceptTimesOut(h) \/ GreetingFails(h) \/ Greeted(h)

WindowStep ==
  \/ Restarted \/ RestartFails \/ Truncate \/ Saved \/ SaveFails
  \/ RequestSync \/ StartBroker

\* Nothing is under way: the program waits for the user or is over.
Quiet ==
  /\ window \in {"open", "closed"}
  /\ \A h \in Helpers : accept[h] \in {"none", "done"} /\ helper[h].pc \in {"none", "reading", "gone"}
  /\ \A j \in 1..Len(job) : job[j].pc = "done"

AtRest == (Quiet \/ window = "approval") /\ UNCHANGED vars

Next ==
  \/ \E up \in BOOLEAN : StartProgram(up)
  \/ AddCable \/ RemoveCable
  \/ WindowStep \/ Refused \/ CloseWindow \/ Die \/ AtRest
  \/ \E h \in Helpers : Approved(h) \/ AcceptStep(h) \/ HelperStep(h) \/ HelperCrashes(h)
  \/ \E j \in 1..Len(job) : JobStep(j)

Spec == Init /\ [][Next]_vars

\* Some goroutine, some helper and some deadline goes on; that each one does is not
\* even needed.  A line for the status is a sent message, which GetMessage delivers
\* before any click, however often the user clicks (gui_windows.go:876-881).  The
\* user need not answer or change anything.
Fairness == /\ WF_vars(WindowStep)
            /\ WF_vars(\E h \in Helpers : AcceptStep(h))
            /\ WF_vars(\E h \in Helpers : HelperStep(h))
            /\ WF_vars(\E j \in 1..Len(job) : JobStep(j))
            /\ SF_vars(\E j \in 1..Len(job) : Show(j))

FairSpec == Spec /\ Fairness

-----------------------------------------------------------------------------
TypeOK ==
  /\ window \in {"open", "restart", "save", "write", "request", "launch", "approval", "closed"}
  /\ {wanted, cableCount} \subseteq Counts /\ {served, status} \subseteq Counts \cup {0}
  /\ saved \in Counts \cup {0} /\ saveFailed \in BOOLEAN /\ runs \in 0..MaxRuns
  /\ changes \in 0..MaxChanges
  /\ conn \in Helpers \cup {0} /\ commandMu \in JobIds \cup {0}
  /\ starting \in BOOLEAN /\ overdue \in BOOLEAN
  /\ accept \in [Helpers -> {"none", "waiting", "greeting", "done"}]
  /\ link \in [Helpers -> {"none", "open", "closed"}]
  /\ \A h \in Helpers :
       /\ helper[h].pc \in {"none", "dialing", "reading", "list", "detach", "attach", "gone"}
       /\ helper[h].todo \subseteq Ports /\ helper[h].count \in 0..30
  /\ \A j \in 1..Len(job) : job[j].pc \in {"queued", "send", "sent", "OK", "ERR", "done"}
  /\ port \in [Ports -> {Stale} \cup 0..30]

Pending(h) == accept[h] \in {"waiting", "greeting"}

\* `starting` is set exactly while a broker is on its way, whichever of its many
\* ways to fail it takes, and never for two at once: otherwise no broker could be
\* started any more, or two elevated helpers would be (broker_windows.go:45-140).
StartingIsOwned ==
  /\ starting <=> window = "approval" \/ \E h \in Helpers : Pending(h)
  /\ \A h, g \in Helpers : Pending(h) /\ Pending(g) => h = g
  /\ window = "approval" => \A h \in Helpers : ~Pending(h)
  /\ starting => conn = 0

\* The broker's connection is open and the only one that is, besides one that
\* still has to greet: a helper that was given up is cut off before another is
\* started (broker_windows.go:168-181).
OneLinkedHelper ==
  /\ conn # 0 => link[conn] = "open"
  /\ \A h \in Helpers : link[h] = "open" /\ accept[h] = "done" => h = conn

Waiting(h) == {j \in 1..Len(job) : job[j].pc = "sent" /\ job[j].conn = h}

\* The answer a job reads is the answer to its own request: at most one request is
\* under way on a connection, with the count of the job that waits for it.
RepliesPaired ==
  \A h \in Helpers : link[h] = "open" /\ helper[h].pc # "gone" =>
    /\ Len(request[h]) + (IF Working(h) THEN 1 ELSE 0) + Len(reply[h]) = Cardinality(Waiting(h))
    /\ \A j \in Waiting(h) :
         /\ Working(h) => helper[h].count = PhysicalDeviceCount(job[j].count)
         /\ request[h] # <<>> => Head(request[h]) = PhysicalDeviceCount(job[j].count)

\* No change is lost: once the window's thread is done with a change and a broker
\* is connected, a job for that very change is queued or was given a connection,
\* whichever came first, the connection or the change (broker_windows.go:132-155).
ChangeNotLost ==
  window \in {"open", "restart"} /\ conn # 0 =>
    \E j \in 1..Len(job) : /\ job[j].change = changes /\ job[j].count = cableCount
                           /\ job[j].pc = "queued" \/ job[j].conn # 0

\* "Windows Sound now synchronized" (broker_windows.go:188): when all is quiet,
\* every helper answered in time and the status line reports the current count,
\* each device of the running server is attached.
SyncedMeansAttached ==
  Quiet /\ ~overdue /\ conn # 0 /\ served # 0 /\ status = cableCount
    => \A d \in 1..PhysicalDeviceCount(cableCount) : \E p \in Ports : port[p] = d

\* The status line tells of the current count when it says so: the last of several
\* synchronizations is that of the last change (broker_windows.go:188-189).
SyncedMeansCurrent ==
  Quiet /\ window = "open" /\ status # 0 => status = cableCount

\* The next run starts with the count of this one, whenever the program ends, unless
\* it ends while a change is on its way to CONFIG.ini or could not save it
\* (gui_windows.go:418-426, main.go:295-322).
NextRunAgrees ==
  window \notin {"closed", "save", "write"} /\ ~saveFailed => Load = cableCount

\* Every synchronization comes to an end, and with it the wait of the others for
\* commandMu.
JobsEnd == \A j \in JobIds : j <= Len(job) ~> (j <= Len(job) => job[j].pc = "done")

\* An elevated helper whose connection is closed leaves.
HelpersLeave == \A h \in Helpers : link[h] = "closed" ~> helper[h].pc = "gone"
=============================================================================
