--------------------------- MODULE AttachHelper_proofs ---------------------------
(***************************************************************************)
(* The elevated helper, for any machine it finds, any number of ports, of  *)
(* other programs' devices, of calls and of faults: what the installation  *)
(* of the driver may claim, and which ports a call leaves attached.  Where *)
(* the cables are that it attaches is proved first.                        *)
(***************************************************************************)
EXTENDS AttachHelper, FiniteSetTheorems, WellFoundedInduction, TLAPS

-----------------------------------------------------------------------------
(* The layout of the cables. *)

\* The helper, which attaches the bus IDs 1..physicalDeviceCount(n), asks for the
\* devices the server has made, all of them and no other (main.go:227-245).
THEOREM DevicesAreNumbered ==
  ASSUME NEW n \in 1..MaxCables
  PROVE  DeviceNumbers(n) = 1..PhysicalDeviceCount(n)
<1> USE DEF MaxCables, MaxDevices, MaxCablesPerUSBDevice
<1>1. \A d \in 1..n : FirstCable(d) <= n <=> d <= PhysicalDeviceCount(n)
  BY DEF FirstCable, PhysicalDeviceCount
<1>2. PhysicalDeviceCount(n) \in 1..n
  BY DEF PhysicalDeviceCount
<1> QED BY <1>1, <1>2 DEF DeviceNumbers

\* makeDevices does not fail for a count of 1 to 120: NewDescriptors takes every
\* device of its loop (main.go:231-245, descriptors.go:41-50).
THEOREM EveryDeviceIsDescribable ==
  ASSUME NEW n \in 1..MaxCables, NEW d \in DeviceNumbers(n)
  PROVE  Describable(d, FirstCable(d), CableCount(n, d))
BY DEF DeviceNumbers, Describable, FirstCable, CableCount, MaxCables, MaxDevices,
       MaxCablesPerUSBDevice

\* The list's row of a cable names a device that is made and an endpoint it has,
\* and behind it is that cable (gui_windows.go:386-388).
THEOREM RowsAreServed ==
  ASSUME NEW n \in 1..MaxCables, NEW i \in 1..n
  PROVE  /\ Row(i).device \in DeviceNumbers(n)
         /\ Row(i).endpoint \in 1..CableCount(n, Row(i).device)
         /\ CableNumber(Row(i).device, Row(i).endpoint) = i
<1> USE DEF MaxCables, MaxCablesPerUSBDevice
<1> DEFINE d == (i - 1) \div 4 + 1
           e == ((i - 1) % 4) + 1
<1>1. Row(i).device = d /\ Row(i).endpoint = e
  BY DEF Row
<1>2. /\ d \in 1..n /\ e \in 1..4 /\ 1 + (d - 1) * 4 <= n
      /\ 1 + (d - 1) * 4 + e - 1 = i
  OBVIOUS
<1> HIDE DEF d, e
<1>3. d \in DeviceNumbers(n) /\ CableNumber(d, e) = i /\ e \in 1..CableCount(n, d)
  BY <1>2 DEF DeviceNumbers, FirstCable, CableNumber, CableCount
<1> QED BY <1>1, <1>3

\* Every endpoint of every device is one of the cables, and the list has it there:
\* no two endpoints are the same cable (device.go:63-82, main.go:231-245).
THEOREM EndpointsAreListed ==
  ASSUME NEW n \in 1..MaxCables, NEW d \in DeviceNumbers(n), NEW e \in 1..CableCount(n, d)
  PROVE  /\ CableNumber(d, e) \in 1..n
         /\ Row(CableNumber(d, e)) = [device |-> d, endpoint |-> e]
<1> USE DEF MaxCables, MaxCablesPerUSBDevice
<1>1. d \in Nat \ {0} /\ e \in 1..4 /\ 4 * (d - 1) + e <= n
  BY DEF DeviceNumbers, FirstCable, CableCount
<1>2. CableNumber(d, e) = 4 * (d - 1) + e
  BY <1>1 DEF CableNumber, FirstCable
<1>3. (4 * (d - 1) + e - 1) \div 4 + 1 = d /\ ((4 * (d - 1) + e - 1) % 4) + 1 = e
  BY <1>1
<1> QED BY <1>1, <1>2, <1>3 DEF Row

-----------------------------------------------------------------------------
(* The installation. *)

Entries == [folder : {"own", "foreign", "other"}, spelling : Nat]

\* Where a call may be: before the driver is ensured, and after.
Ensuring == {"find", "package", "copy", "ready", "devnode", "path", "setpath", "poll"}
Calling == Ensuring \cup {"list", "inspect", "detach"}

SetupTypeOK ==
  /\ machine \in MachineStates
  /\ pc \in Over \cup Calling
  /\ exe \in {"none", "own", "foreign"}
  /\ copied \in 0..2
  /\ queried \in Seq(Entries)
  /\ call \in [disturbed : BOOLEAN, met : BOOLEAN, added : BOOLEAN, worked : BOOLEAN]

\* The machine m and what a call c knows when it is `at` a step, with its tool's folder e
\* and k files copied: these are whole, and it is its own tool that it polls then, with the
\* filter there and a controller that runs or is about to.  A driver that it found at work
\* goes on, and it adds no controller then unless something failed.
Fits(m, at, e, k, c) ==
  /\ \A i \in 1..k : m.file[RuntimeFiles[i]] = "good"
  /\ at \in {"find", "package"} => k = 0
  /\ at \in {"ready", "devnode"} => k = 2
  /\ at \in {"ready", "devnode", "path", "setpath", "poll"} /\ k > 0 =>
       k = 2 /\ e = "own" /\ m.filter
  /\ at \in {"path", "setpath", "poll"} => e \in {"own", "foreign"}
  /\ at \in {"path", "setpath", "poll"} /\ k > 0 => m.controllers > 0 \/ m.started
  /\ c.worked => m.started /\ (at = "devnode" => c.disturbed)
  /\ at = "unready" /\ ~c.disturbed => ~m.package \/ m.restart
  /\ c.added => c.disturbed \/ ~c.worked

PathOnce == ListedOnce(machine.path) /\ ListedOnce(queried)

SetupInv == SetupTypeOK /\ PathOnce /\ Fits(machine, pc, exe, copied, call)

-----------------------------------------------------------------------------
(* The ports. *)

PortStates == {Free} \cup [host : {"own", "foreign", "local"}, device : Nat, live : BOOLEAN]

Own(p) == port[p].host = "own"

PortTypeOK ==
  /\ port \in [Ports -> PortStates]
  /\ served \in Counts \cup {0}
  /\ count \in Nat /\ next \in Nat
  /\ todo \in Seq(Ports) /\ late \subseteq Ports

\* A port that the call is going to detach is its own, free, or newly taken.
TodoIsOwnOrLate == \A p \in ToSet(todo) : port[p].host \in Others => p \in late

\* Each of the devices before the next one is at one port, and stays there.
AttachedSoFar ==
  /\ \A p \in Ports : Own(p) => port[p].live /\ port[p].device \in 1..next - 1
  /\ \A d \in 1..next - 1 : \E p \in Ports : Own(p) /\ port[p].device = d
  /\ \A p, q \in Ports : Own(p) /\ Own(q) /\ port[p].device = port[q].device => p = q

\* How far the call is: nothing is attached before all that was its own is detached.
Progress ==
  /\ pc \in Calling => next \in 1..count + 1
  /\ pc \in Calling /\ (pc # "detach" \/ todo # <<>>) => next = 1
  /\ pc = "OK" => next = count + 1 /\ todo = <<>>
  /\ pc \in {"detach", "OK"} /\ ~call.disturbed /\ ~call.met =>
       IF todo = <<>> THEN AttachedSoFar ELSE \A p \in Ports : Own(p) => p \in ToSet(todo)

PortInv == PortTypeOK /\ TodoIsOwnOrLate /\ Progress

-----------------------------------------------------------------------------
(* What a step may do to the machine. *)

LEMMA FilesAre ==
  /\ ToSet(RuntimeFiles) = {"usbip", "rest"} /\ Len(RuntimeFiles) = 2
  /\ RuntimeFiles[1] = "usbip" /\ RuntimeFiles[2] = "rest"
  BY DEF ToSet, RuntimeFiles

LEMMA MachineFields ==
  ASSUME NEW m \in MachineStates
  PROVE  /\ DOMAIN m.file = {"usbip", "rest"} /\ m.package \in BOOLEAN /\ m.filter \in BOOLEAN
         /\ m.controllers \in Nat /\ m.started \in BOOLEAN /\ m.restart \in BOOLEAN
         /\ m.path \in Seq(Entries)
  BY FilesAre DEF MachineStates, Entries

\* Machine n is m, but for the fields f.
But(m, n, f) ==
  /\ "file" \notin f => n.file = m.file
  /\ "package" \notin f => n.package = m.package
  /\ "filter" \notin f => n.filter = m.filter
  /\ "controllers" \notin f => n.controllers = m.controllers
  /\ "started" \notin f => n.started = m.started
  /\ "restart" \notin f => n.restart = m.restart
  /\ "path" \notin f => n.path = m.path

LEMMA FileWritten ==
  ASSUME NEW m \in MachineStates, NEW f \in {"usbip", "rest"}, NEW v \in {"good", "broken"},
         NEW n, n = [m EXCEPT !.file[f] = v]
  PROVE  /\ n \in MachineStates /\ But(m, n, {"file"})
         /\ n.file[f] = v /\ \A g \in {"usbip", "rest"} : g # f => n.file[g] = m.file[g]
<1>1. n.file = [m.file EXCEPT ![f] = v] /\ But(m, n, {"file"})
  BY DEF MachineStates, But
<1>2. m.file \in [{"usbip", "rest"} -> {"none", "broken", "good"}]
  BY FilesAre DEF MachineStates
<1>3. n.file \in [{"usbip", "rest"} -> {"none", "broken", "good"}]
  BY <1>1, <1>2
<1>4. n \in MachineStates
  BY <1>3, FilesAre DEF MachineStates
<1> QED BY <1>1, <1>2, <1>4

LEMMA PathWritten ==
  ASSUME NEW m \in MachineStates, NEW p \in Seq(Entries), NEW n, n = [m EXCEPT !.path = p]
  PROVE  n \in MachineStates /\ But(m, n, {"path"}) /\ n.path = p
  BY DEF MachineStates, But, Entries

LEMMA FilterThere ==
  ASSUME NEW m \in MachineStates, NEW n, n = [m EXCEPT !.filter = TRUE]
  PROVE  n \in MachineStates /\ But(m, n, {"filter"}) /\ n.filter
  BY DEF MachineStates, But

LEMMA DriverStarted ==
  ASSUME NEW m \in MachineStates, NEW n, n = [m EXCEPT !.started = TRUE]
  PROVE  n \in MachineStates /\ But(m, n, {"started"}) /\ n.started
  BY DEF MachineStates, But

LEMMA ControllerAdded ==
  ASSUME NEW m \in MachineStates, NEW r \in BOOLEAN, NEW n,
         n = [m EXCEPT !.controllers = IF @ < MaxControllers THEN @ + 1 ELSE @,
                       !.restart = r \/ (@ /\ ~m.started)]
  PROVE  /\ n \in MachineStates /\ But(m, n, {"controllers", "restart"})
         /\ n.controllers > 0
<1>1. /\ n.controllers = (IF m.controllers < MaxControllers THEN m.controllers + 1
                          ELSE m.controllers)
      /\ n.restart = (r \/ (m.restart /\ ~m.started)) /\ But(m, n, {"controllers", "restart"})
  BY DEF MachineStates, But
<1>2. n.controllers \in Nat /\ n.controllers > 0
  BY <1>1, MachineFields, SetupAssumption
<1>3. n.restart \in BOOLEAN
  BY <1>1
<1>4. n \in MachineStates
  BY <1>2, <1>3 DEF MachineStates
<1> QED BY <1>1, <1>2, <1>4

LEMMA WindowsRestarted ==
  ASSUME NEW m \in MachineStates, NEW n,
         n = [m EXCEPT !.restart = FALSE, !.started = @ \/ m.filter]
  PROVE  /\ n \in MachineStates /\ But(m, n, {"restart", "started"})
         /\ m.started => n.started
<1>1. n.started = (m.started \/ m.filter) /\ But(m, n, {"restart", "started"})
  BY DEF MachineStates, But
<1>2. n.started \in BOOLEAN
  BY <1>1
<1>3. n \in MachineStates
  BY <1>2 DEF MachineStates
<1> QED BY <1>1, <1>3

-----------------------------------------------------------------------------
(* The steps of ensureUSBIPDriver. *)

\* The tool that works is its own with all files, or another product's.
LEMMA ReadyMeans ==
  ASSUME SetupTypeOK, NEW d, Ready(d)
  PROVE  d \in {"own", "foreign"} /\ machine.started
  BY DEF Ready

LEMMA OwnReady ==
  ASSUME SetupTypeOK, copied = 2, Fits(machine, pc, exe, copied, call)
  PROVE  Ready("own") <=> machine.started
  BY FilesAre DEF Ready, Fits

\* A failure only disturbs.
LEMMA FaultDisturbs ==
  ASSUME SetupTypeOK, Fault
  PROVE  /\ call'.disturbed /\ call'.met = call.met /\ call'.added = call.added
         /\ call'.worked = call.worked
         /\ call' \in [disturbed : BOOLEAN, met : BOOLEAN, added : BOOLEAN, worked : BOOLEAN]
  BY DEF SetupTypeOK, Fault

LEMMA EnterSetup ==
  ASSUME SetupInv, NEW fresh \in BOOLEAN, Enter(fresh)
  PROVE  SetupInv'
<1>1. SetupTypeOK /\ PathOnce
  BY DEF SetupInv
<1>2. /\ machine' = machine /\ pc' = "find" /\ copied' = 0 /\ queried' = <<>> /\ exe' = "none"
      /\ call' = Fresh
  BY DEF Enter
<1>3. /\ ~call'.disturbed /\ ~call'.added /\ (call'.worked => machine.started)
      /\ call' \in [disturbed : BOOLEAN, met : BOOLEAN, added : BOOLEAN, worked : BOOLEAN]
  <2>1. PICK w : w = (machine.started /\ \A f \in ToSet(RuntimeFiles) : machine.file[f] = "good")
    OBVIOUS
  <2>2. call' = [disturbed |-> FALSE, met |-> FALSE, added |-> FALSE, worked |-> w]
    BY <1>2, <2>1 DEF Fresh
  <2>3. w \in BOOLEAN
    BY <2>1
  <2> QED BY <2>1, <2>2, <2>3
<1>4. SetupTypeOK'
  BY <1>1, <1>2, <1>3 DEF SetupTypeOK, Calling, Ensuring
<1>5. PathOnce'
  BY <1>1, <1>2 DEF PathOnce, ListedOnce
<1>6. Fits(machine', pc', exe', copied', call')
  BY <1>2, <1>3 DEF Fits
<1> QED BY <1>4, <1>5, <1>6 DEF SetupInv

LEMMA EnsureTypes ==
  ASSUME SetupInv
  PROVE  /\ machine \in MachineStates /\ exe \in {"none", "own", "foreign"} /\ copied \in 0..2
         /\ queried \in Seq(Entries) /\ SetupTypeOK /\ PathOnce
         /\ Fits(machine, pc, exe, copied, call)
  BY DEF SetupInv, SetupTypeOK

\* A step of the call that does nothing to the machine's files or the PATH that was read.
LEMMA StepFits ==
  ASSUME SetupInv, machine' = machine, queried' = queried, pc' \in Over \cup Calling,
         exe' \in {"none", "own", "foreign"}, copied' \in 0..2,
         call' \in [disturbed : BOOLEAN, met : BOOLEAN, added : BOOLEAN, worked : BOOLEAN],
         Fits(machine, pc', exe', copied', call')
  PROVE  SetupInv'
BY DEF SetupInv, SetupTypeOK, PathOnce, ListedOnce

LEMMA FindSetup ==
  ASSUME SetupInv, Find
  PROVE  SetupInv'
<1>1. /\ SetupTypeOK /\ Fits(machine, pc, exe, copied, call) /\ pc = "find"
      /\ machine' = machine /\ copied' = copied /\ queried' = queried /\ copied \in 0..2
      /\ call \in [disturbed : BOOLEAN, met : BOOLEAN, added : BOOLEAN, worked : BOOLEAN]
  BY EnsureTypes DEF Find, SetupTypeOK
<1>2. PICK found : found = FindUSBIPExecutable
  OBVIOUS
<1>3. \/ Ready(found) /\ exe' = found /\ pc' = "path" /\ call' = call
      \/ exe' = "none" /\ pc' = "package" /\ call' = call
      \/ exe' = "none" /\ pc' = "package" /\ Fault
  BY <1>2 DEF Find, Goes, NoFault
<1>4. /\ exe' \in {"none", "own", "foreign"} /\ pc' \in Over \cup Calling
      /\ call' \in [disturbed : BOOLEAN, met : BOOLEAN, added : BOOLEAN, worked : BOOLEAN]
      /\ call'.worked = call.worked /\ call'.added = call.added
      /\ call.disturbed => call'.disturbed
      /\ pc' \in {"path", "package"} /\ (pc' = "path" => exe' \in {"own", "foreign"})
  BY <1>1, <1>3, ReadyMeans, FaultDisturbs DEF Calling, Ensuring
<1>5. Fits(machine, pc', exe', copied', call')
  BY <1>1, <1>3, <1>4 DEF Fits
<1> QED BY <1>1, <1>4, <1>5, StepFits

LEMMA BundledDriverPackageSetup ==
  ASSUME SetupInv, BundledDriverPackage
  PROVE  SetupInv'
<1>1. /\ SetupTypeOK /\ Fits(machine, pc, exe, copied, call) /\ pc = "package"
      /\ machine' = machine /\ copied' = copied /\ queried' = queried /\ exe' = exe /\ call' = call
      /\ pc' = IF machine.package THEN "copy" ELSE "unready"
  BY EnsureTypes DEF BundledDriverPackage, callUnchanged, NoFault, Goes
<1>2. pc' \in Over \cup Calling /\ (pc' = "unready" => ~machine.package)
  BY <1>1 DEF Over, Calling, Ensuring
<1>3. Fits(machine, pc', exe', copied', call')
  BY <1>1, <1>2 DEF Fits
<1> QED BY <1>1, <1>2, <1>3, StepFits DEF SetupTypeOK

\* A step of the call that changes the machine, but nothing about the PATH.
LEMMA MachineFits ==
  ASSUME SetupInv, machine' \in MachineStates, machine'.path = machine.path, queried' = queried,
         pc' \in Over \cup Calling, exe' \in {"none", "own", "foreign"}, copied' \in 0..2,
         call' \in [disturbed : BOOLEAN, met : BOOLEAN, added : BOOLEAN, worked : BOOLEAN],
         Fits(machine', pc', exe', copied', call')
  PROVE  SetupInv'
BY DEF SetupInv, SetupTypeOK, PathOnce, ListedOnce

LEMMA CopyFileSetup ==
  ASSUME SetupInv, CopyFile
  PROVE  SetupInv'
<1>1. /\ SetupTypeOK /\ Fits(machine, pc, exe, copied, call) /\ pc = "copy" /\ pc' = "copy"
      /\ copied \in 0..1 /\ copied' = copied + 1 /\ queried' = queried /\ exe' = exe
      /\ call' = call /\ machine \in MachineStates
  BY EnsureTypes, FilesAre DEF CopyFile, Goes, NoFault
<1>2. PICK f \in {"usbip", "rest"} : f = RuntimeFiles[copied + 1]
  BY <1>1, FilesAre
<1>3. machine' = [machine EXCEPT !.file[f] = "good"]
  BY <1>2 DEF CopyFile, Installed
<1>4. /\ machine' \in MachineStates /\ But(machine, machine', {"file"})
      /\ machine'.file[f] = "good"
      /\ \A g \in {"usbip", "rest"} : g # f => machine'.file[g] = machine.file[g]
  BY <1>1, <1>3, FileWritten
<1>5. \A i \in 1..copied + 1 : machine'.file[RuntimeFiles[i]] = "good"
  BY <1>1, <1>2, <1>4, FilesAre DEF Fits
<1>6. Fits(machine', pc', exe', copied', call')
  BY <1>1, <1>4, <1>5 DEF Fits, But
<1> QED BY <1>1, <1>4, <1>6, MachineFits DEF SetupTypeOK, But

\* What a torn file leaves of the machine.
LEMMA TornFile ==
  ASSUME SetupInv, machine' \in Torn
  PROVE  /\ machine' \in MachineStates /\ But(machine, machine', {"file"})
         /\ \A i \in 1..copied : machine'.file[RuntimeFiles[i]] = "good"
<1>1. machine \in MachineStates /\ copied \in 0..2 /\ Fits(machine, pc, exe, copied, call)
  BY EnsureTypes
<1>2. CASE machine' = machine
  BY <1>1, <1>2 DEF But, Fits
<1>3. ASSUME copied < 2, NEW f, f = RuntimeFiles[copied + 1],
             machine' = [machine EXCEPT !.file[f] = "broken"]
      PROVE  /\ machine' \in MachineStates /\ But(machine, machine', {"file"})
             /\ \A i \in 1..copied : machine'.file[RuntimeFiles[i]] = "good"
  <2>1. f \in {"usbip", "rest"} /\ \A i \in 1..copied : RuntimeFiles[i] # f /\ RuntimeFiles[i] \in {"usbip", "rest"}
    BY <1>1, <1>3, FilesAre
  <2>2. /\ machine' \in MachineStates /\ But(machine, machine', {"file"})
        /\ \A g \in {"usbip", "rest"} : g # f => machine'.file[g] = machine.file[g]
    BY <1>1, <1>3, <2>1, FileWritten
  <2> QED BY <1>1, <2>1, <2>2 DEF Fits
<1> QED BY <1>2, <1>3, FilesAre DEF Torn

LEMMA CopyFailsSetup ==
  ASSUME SetupInv, CopyFails
  PROVE  SetupInv'
<1>1. /\ SetupTypeOK /\ Fits(machine, pc, exe, copied, call) /\ pc' = "unready" /\ Fault
      /\ copied' = copied /\ queried' = queried /\ exe' = exe /\ machine' \in Torn
  BY EnsureTypes DEF CopyFails, Goes, callUnchanged
<1>2. /\ machine' \in MachineStates /\ But(machine, machine', {"file"})
      /\ \A i \in 1..copied : machine'.file[RuntimeFiles[i]] = "good"
  BY <1>1, TornFile
<1>3. Fits(machine', pc', exe', copied', call')
  BY <1>1, <1>2, FaultDisturbs DEF Fits, But
<1>4. pc' \in Over \cup Calling
  BY <1>1 DEF Over
<1> QED BY <1>1, <1>2, <1>3, <1>4, FaultDisturbs, MachineFits DEF SetupTypeOK, But

LEMMA InstallFilterSetup ==
  ASSUME SetupInv, InstallFilter
  PROVE  SetupInv'
<1>1. /\ SetupTypeOK /\ Fits(machine, pc, exe, copied, call) /\ machine \in MachineStates
      /\ copied = 2 /\ copied' = copied /\ queried' = queried /\ exe' = "own"
  BY EnsureTypes, FilesAre DEF InstallFilter
<1>2. CASE machine' = [machine EXCEPT !.filter = TRUE] /\ Goes("ready") /\ NoFault
  <2>1. machine' \in MachineStates /\ But(machine, machine', {"filter"}) /\ machine'.filter
    BY <1>1, <1>2, FilterThere
  <2>2. pc' = "ready" /\ call' = call /\ pc' \in Over \cup Calling
    BY <1>2 DEF Goes, NoFault, Calling, Ensuring
  <2>3. Fits(machine', pc', exe', copied', call')
    BY <1>1, <2>1, <2>2 DEF Fits, But
  <2> QED BY <1>1, <2>1, <2>2, <2>3, MachineFits DEF SetupTypeOK, But
<1>3. CASE Goes("unready") /\ Fault /\ machine' = machine
  <2>1. pc' = "unready" /\ pc' \in Over \cup Calling
    BY <1>3 DEF Goes, Over
  <2>2. Fits(machine, pc', exe', copied', call')
    BY <1>1, <1>3, <2>1, FaultDisturbs DEF Fits
  <2> QED BY <1>1, <1>3, <2>1, <2>2, FaultDisturbs, StepFits DEF SetupTypeOK
<1> QED BY <1>2, <1>3 DEF InstallFilter

LEMMA AlreadyOperationalSetup ==
  ASSUME SetupInv, AlreadyOperational
  PROVE  SetupInv'
<1>1. /\ SetupTypeOK /\ Fits(machine, pc, exe, copied, call) /\ pc = "ready"
      /\ machine' = machine /\ copied' = copied /\ queried' = queried /\ exe' = exe
  BY EnsureTypes DEF AlreadyOperational, callUnchanged
<1>2. copied = 2
  BY <1>1 DEF Fits
<1>3. \/ machine.started /\ pc' = "path" /\ call' = call
      \/ ~machine.started /\ pc' = "devnode" /\ call' = call
      \/ pc' = "devnode" /\ Fault
  BY <1>1, <1>2, OwnReady DEF AlreadyOperational, Goes, NoFault
<1>4. /\ call' \in [disturbed : BOOLEAN, met : BOOLEAN, added : BOOLEAN, worked : BOOLEAN]
      /\ pc' \in Over \cup Calling
  BY <1>1, <1>3, FaultDisturbs DEF SetupTypeOK, Calling, Ensuring
<1>5. Fits(machine, pc', exe', copied', call')
  BY <1>1, <1>2, <1>3, FaultDisturbs DEF Fits
<1> QED BY <1>1, <1>4, <1>5, StepFits DEF SetupTypeOK

LEMMA InstallControllerSetup ==
  ASSUME SetupInv, InstallController
  PROVE  SetupInv'
<1>1. /\ SetupTypeOK /\ Fits(machine, pc, exe, copied, call) /\ pc = "devnode"
      /\ machine \in MachineStates /\ copied' = copied /\ queried' = queried /\ exe' = exe
  BY EnsureTypes DEF InstallController, callUnchanged
<1>2. ASSUME NEW r \in BOOLEAN,
             machine' = [machine EXCEPT !.controllers = IF @ < MaxControllers THEN @ + 1 ELSE @,
                                        !.restart = r \/ (@ /\ ~machine.started)],
             Goes("path"), call' = [call EXCEPT !.added = TRUE]
      PROVE  SetupInv'
  <2>1. /\ machine' \in MachineStates /\ But(machine, machine', {"controllers", "restart"})
        /\ machine'.controllers > 0
    BY <1>1, <1>2, ControllerAdded
  <2>2. pc' = "path" /\ pc' \in Over \cup Calling
    BY <1>2 DEF Goes, Calling, Ensuring
  <2>3. /\ call'.disturbed = call.disturbed /\ call'.worked = call.worked
        /\ call' \in [disturbed : BOOLEAN, met : BOOLEAN, added : BOOLEAN, worked : BOOLEAN]
    BY <1>1, <1>2 DEF SetupTypeOK
  <2>4. Fits(machine', pc', exe', copied', call')
    BY <1>1, <2>1, <2>2, <2>3 DEF Fits, But
  <2> QED BY <1>1, <2>1, <2>2, <2>3, <2>4, MachineFits DEF SetupTypeOK, But
<1>3. CASE Goes("unready") /\ Fault /\ machine' = machine
  <2>1. pc' = "unready" /\ pc' \in Over \cup Calling
    BY <1>3 DEF Goes, Over
  <2>2. Fits(machine, pc', exe', copied', call')
    BY <1>1, <1>3, <2>1, FaultDisturbs DEF Fits
  <2> QED BY <1>1, <1>3, <2>1, <2>2, FaultDisturbs, StepFits DEF SetupTypeOK
<1> QED BY <1>2, <1>3 DEF InstallController

LEMMA QueryPathSetup ==
  ASSUME SetupInv, QueryPath
  PROVE  SetupInv'
<1>1. /\ SetupTypeOK /\ PathOnce /\ Fits(machine, pc, exe, copied, call) /\ pc = "path"
      /\ machine' = machine /\ copied' = copied /\ exe' = exe
      /\ machine.path \in Seq(Entries) /\ queried \in Seq(Entries)
  BY EnsureTypes, MachineFields DEF QueryPath
<1>2. \/ pc' = "setpath" /\ queried' = machine.path /\ call' = call
      \/ pc' = "poll" /\ queried' = queried /\ Fault
  BY DEF QueryPath, Goes, NoFault
<1>3. /\ call' \in [disturbed : BOOLEAN, met : BOOLEAN, added : BOOLEAN, worked : BOOLEAN]
      /\ pc' \in Over \cup Calling
  BY <1>1, <1>2, FaultDisturbs DEF SetupTypeOK, Calling, Ensuring
<1>4. Fits(machine, pc', exe', copied', call')
  BY <1>1, <1>2, FaultDisturbs DEF Fits
<1>5. PathOnce' /\ queried' \in Seq(Entries)
  BY <1>1, <1>2 DEF PathOnce, ListedOnce
<1>6. SetupTypeOK'
  BY <1>1, <1>3, <1>5 DEF SetupTypeOK
<1> QED BY <1>1, <1>4, <1>5, <1>6 DEF SetupInv

\* An entry is added for a folder that is not listed.
LEMMA EntryAdded ==
  ASSUME NEW p \in Seq(Entries), ListedOnce(p), NEW e \in Entries,
         e.folder \in {"own", "foreign"} => \A i \in DOMAIN p : p[i].folder # e.folder
  PROVE  Append(p, e) \in Seq(Entries) /\ ListedOnce(Append(p, e))
<1>1. PICK q : q = Append(p, e)
  OBVIOUS
<1>2. /\ q \in Seq(Entries) /\ Len(q) = Len(p) + 1 /\ q[Len(p) + 1] = e /\ Len(p) \in Nat
      /\ \A i \in 1..Len(p) : q[i] = p[i]
      /\ DOMAIN q = 1..Len(p) + 1 /\ DOMAIN p = 1..Len(p)
  BY <1>1
<1>3. \A i \in DOMAIN q : i = Len(p) + 1 \/ i \in DOMAIN p
  BY <1>2
<1>4. ListedOnce(q)
  BY <1>2, <1>3 DEF ListedOnce
<1> QED BY <1>1, <1>2, <1>4

LEMMA SetPathSetup ==
  ASSUME SetupInv, SetPath
  PROVE  SetupInv'
<1>1. /\ SetupTypeOK /\ PathOnce /\ Fits(machine, pc, exe, copied, call) /\ pc = "setpath"
      /\ pc' = "poll" /\ copied' = copied /\ exe' = exe /\ queried' = queried
      /\ machine \in MachineStates /\ queried \in Seq(Entries)
      /\ pc' \in Over \cup Calling
  BY EnsureTypes DEF SetPath, callUnchanged, Calling, Ensuring
<1>2. CASE machine' = machine /\ (NoFault \/ Fault)
  <2>1. /\ call'.worked = call.worked /\ call'.added = call.added
        /\ (call.disturbed => call'.disturbed)
        /\ call' \in [disturbed : BOOLEAN, met : BOOLEAN, added : BOOLEAN, worked : BOOLEAN]
    BY <1>1, <1>2, FaultDisturbs DEF NoFault, SetupTypeOK
  <2>2. Fits(machine, pc', exe', copied', call')
    BY <1>1, <2>1 DEF Fits
  <2> QED BY <1>1, <1>2, <2>1, <2>2, StepFits DEF SetupTypeOK
<1>3. CASE /\ ~PathContainsDirectory(queried, exe) /\ NoFault
           /\ machine' = [machine EXCEPT !.path = Append(queried, [folder |-> exe, spelling |-> 1])]
  <2>1. exe \in {"own", "foreign"}
    BY <1>1 DEF Fits
  <2>2. PICK e : e = [folder |-> exe, spelling |-> 1]
    OBVIOUS
  <2>7. e \in Entries /\ e.folder = exe
    BY <2>1, <2>2 DEF Entries
  <2>3. /\ Append(queried, e) \in Seq(Entries) /\ ListedOnce(Append(queried, e))
    BY <1>1, <1>3, <2>2, <2>7, EntryAdded DEF PathContainsDirectory, IsDirectory, PathOnce
  <2>4. /\ machine' \in MachineStates /\ But(machine, machine', {"path"})
        /\ machine'.path = Append(queried, e)
    BY <1>1, <1>3, <2>2, <2>3, PathWritten
  <2>5. Fits(machine', pc', exe', copied', call')
    BY <1>1, <1>3, <2>4 DEF Fits, But, NoFault
  <2>6. PathOnce'
    BY <1>1, <2>3, <2>4 DEF PathOnce, ListedOnce
  <2> QED BY <1>1, <1>3, <2>4, <2>5, <2>6 DEF SetupInv, SetupTypeOK, NoFault
<1> QED BY <1>2, <1>3 DEF SetPath

LEMMA EnsuredDriverSetup ==
  ASSUME SetupInv, EnsuredDriver
  PROVE  SetupInv'
<1>1. /\ SetupTypeOK /\ PathOnce /\ Fits(machine, pc, exe, copied, call) /\ pc' = "list"
      /\ machine' = machine /\ copied' = 0 /\ exe' = "none" /\ queried' = <<>> /\ call' = call
      /\ pc' \in Over \cup Calling
  BY EnsureTypes DEF EnsuredDriver, callOver, Goes, NoFault, Calling
<1>2. Fits(machine, pc', exe', copied', call')
  BY <1>1 DEF Fits
<1> QED BY <1>1, <1>2 DEF SetupInv, SetupTypeOK, PathOnce, ListedOnce

\* The helper's own tool with all its files, the filter and a controller: if it does not
\* work and Windows is not about to start it, Windows has to be restarted.
LEMMA NotReadySetup ==
  ASSUME SetupInv, NotReady
  PROVE  SetupInv'
<1>1. /\ SetupTypeOK /\ PathOnce /\ Fits(machine, pc, exe, copied, call) /\ pc = "poll"
      /\ pc' = "unready" /\ machine' = machine /\ copied' = 0 /\ exe' = "none" /\ queried' = <<>>
      /\ pc' \in Over \cup Calling /\ copied > 0
  BY EnsureTypes DEF NotReady, callOver, Goes, Over
<1>2. copied = 2 /\ exe = "own" /\ machine.filter /\ (machine.controllers > 0 \/ machine.started)
  BY <1>1 DEF Fits
<1>3. \/ call' = call /\ machine.restart
      \/ Fault
  BY <1>1, <1>2, OwnReady DEF NotReady, Starting, NoFault
<1>4. /\ call' \in [disturbed : BOOLEAN, met : BOOLEAN, added : BOOLEAN, worked : BOOLEAN]
      /\ Fits(machine, pc', exe', copied', call')
  BY <1>1, <1>3, FaultDisturbs DEF Fits, SetupTypeOK
<1> QED BY <1>1, <1>4 DEF SetupInv, SetupTypeOK, PathOnce, ListedOnce

LEMMA EnsureSetup ==
  ASSUME SetupInv, EnsureUSBIPDriver
  PROVE  SetupInv'
BY FindSetup, BundledDriverPackageSetup, CopyFileSetup, CopyFailsSetup, InstallFilterSetup,
   AlreadyOperationalSetup, InstallControllerSetup, QueryPathSetup, SetPathSetup,
   EnsuredDriverSetup, NotReadySetup DEF EnsureUSBIPDriver

-----------------------------------------------------------------------------
(* Windows, other programs, and the rest of a call. *)

LEMMA DriverStartsSetup ==
  ASSUME SetupInv, DriverStarts
  PROVE  SetupInv'
<1>1. /\ SetupTypeOK /\ Fits(machine, pc, exe, copied, call) /\ machine \in MachineStates
      /\ pc' = pc /\ copied' = copied /\ queried' = queried /\ exe' = exe /\ call' = call
      /\ machine' = [machine EXCEPT !.started = TRUE]
  BY EnsureTypes DEF DriverStarts
<1>2. machine' \in MachineStates /\ But(machine, machine', {"started"}) /\ machine'.started
  BY <1>1, DriverStarted
<1>3. Fits(machine', pc', exe', copied', call')
  BY <1>1, <1>2 DEF Fits, But
<1> QED BY <1>1, <1>2, <1>3, MachineFits DEF SetupTypeOK, But

LEMMA OtherEditsPathSetup ==
  ASSUME SetupInv, OtherEditsPath
  PROVE  SetupInv'
<1>1. /\ SetupTypeOK /\ PathOnce /\ Fits(machine, pc, exe, copied, call)
      /\ machine \in MachineStates /\ machine.path \in Seq(Entries)
      /\ pc' = pc /\ copied' = copied /\ queried' = queried /\ exe' = exe /\ call' = call
  BY EnsureTypes, MachineFields DEF OtherEditsPath
<1>2. PICK e : e = [folder |-> "other", spelling |-> 1]
  OBVIOUS
<1>3. e \in Entries /\ e.folder \notin {"own", "foreign"}
  BY <1>2 DEF Entries
<1>4. PICK p : p = Append(machine.path, e)
  OBVIOUS
<1>5. p \in Seq(Entries) /\ ListedOnce(p)
  BY <1>1, <1>3, <1>4, EntryAdded DEF PathOnce
<1>6. machine' = [machine EXCEPT !.path = p]
  BY <1>2, <1>4 DEF OtherEditsPath
<1>7. machine' \in MachineStates /\ But(machine, machine', {"path"}) /\ machine'.path = p
  BY <1>1, <1>5, <1>6, PathWritten
<1>8. Fits(machine', pc', exe', copied', call')
  BY <1>1, <1>7 DEF Fits, But
<1> QED BY <1>1, <1>5, <1>7, <1>8 DEF SetupInv, SetupTypeOK, PathOnce, ListedOnce

LEMMA KilledSetup ==
  ASSUME SetupInv, Killed
  PROVE  SetupInv'
<1>1. /\ SetupTypeOK /\ PathOnce /\ Fits(machine, pc, exe, copied, call) /\ machine' \in Torn
      /\ pc' = "idle" /\ copied' = 0 /\ exe' = "none" /\ queried' = <<>> /\ call' = call
      /\ pc' \in Over \cup Calling
  BY EnsureTypes DEF Killed, callOver, Over
<1>2. machine' \in MachineStates /\ But(machine, machine', {"file"})
  BY <1>1, TornFile
<1>3. Fits(machine', pc', exe', copied', call')
  BY <1>1, <1>2 DEF Fits, But
<1> QED BY <1>1, <1>2, <1>3 DEF SetupInv, SetupTypeOK, PathOnce, ListedOnce, But

LEMMA RestartWindowsSetup ==
  ASSUME SetupInv, RestartWindows
  PROVE  SetupInv'
<1>1. /\ SetupTypeOK /\ Fits(machine, pc, exe, copied, call) /\ machine \in MachineStates
      /\ pc' = "idle" /\ copied' = copied /\ queried' = queried /\ exe' = exe /\ call' = call
      /\ machine' = [machine EXCEPT !.restart = FALSE, !.started = @ \/ machine.filter]
      /\ pc' \in Over \cup Calling
  BY EnsureTypes DEF RestartWindows, Over
<1>2. /\ machine' \in MachineStates /\ But(machine, machine', {"restart", "started"})
      /\ machine.started => machine'.started
  BY <1>1, WindowsRestarted
<1>3. Fits(machine', pc', exe', copied', call')
  BY <1>1, <1>2 DEF Fits, But
<1> QED BY <1>1, <1>2, <1>3, MachineFits DEF SetupTypeOK, But

\* Once the driver is there, nothing that the call does matters to it.
LEMMA CallGoesOn ==
  ASSUME SetupInv, machine' = machine, exe' = exe, copied' = copied, queried' = queried,
         pc' \in {"inspect", "detach", "OK", "failed"} \/ pc' = pc,
         call' = call \/ call' = [call EXCEPT !.met = TRUE] \/ Fault
  PROVE  SetupInv'
<1>1. /\ SetupTypeOK /\ Fits(machine, pc, exe, copied, call)
      /\ call \in [disturbed : BOOLEAN, met : BOOLEAN, added : BOOLEAN, worked : BOOLEAN]
  BY EnsureTypes DEF SetupTypeOK
<1>2. /\ call' \in [disturbed : BOOLEAN, met : BOOLEAN, added : BOOLEAN, worked : BOOLEAN]
      /\ call'.worked = call.worked /\ call'.added = call.added
      /\ call.disturbed => call'.disturbed
  <2>1. CASE call' = call
    BY <1>1, <2>1
  <2>2. CASE call' = [call EXCEPT !.met = TRUE]
    BY <1>1, <2>2
  <2>3. CASE Fault
    BY <1>1, <2>3, FaultDisturbs
  <2> QED BY <2>1, <2>2, <2>3
<1>3. pc' \in Over \cup Calling
  BY <1>1 DEF SetupTypeOK, Over, Calling
<1>4. Fits(machine, pc', exe', copied', call')
  BY <1>1, <1>2 DEF Fits
<1> QED BY <1>1, <1>2, <1>3, <1>4, StepFits DEF SetupTypeOK

LEMMA InitSetup == Init => SetupInv
<1> SUFFICES ASSUME Init PROVE SetupInv
  OBVIOUS
<1>1. /\ machine \in MachineStates /\ ListedOnce(machine.path)
      /\ pc = "idle" /\ exe = "none" /\ copied = 0 /\ queried = <<>> /\ call = Fresh
  BY SetupAssumption DEF Init, SetupInit
<1>2. /\ ~call.disturbed /\ ~call.added /\ (call.worked => machine.started)
      /\ call \in [disturbed : BOOLEAN, met : BOOLEAN, added : BOOLEAN, worked : BOOLEAN]
  <2>1. PICK w : w = (machine.started /\ \A f \in ToSet(RuntimeFiles) : machine.file[f] = "good")
    OBVIOUS
  <2>2. call = [disturbed |-> FALSE, met |-> FALSE, added |-> FALSE, worked |-> w]
    BY <1>1, <2>1 DEF Fresh
  <2>3. w \in BOOLEAN
    BY <2>1
  <2> QED BY <2>1, <2>2, <2>3
<1>3. SetupTypeOK
  BY <1>1, <1>2 DEF SetupTypeOK, Over
<1>4. Fits(machine, pc, exe, copied, call)
  BY <1>1, <1>2 DEF Fits
<1>5. PathOnce
  BY <1>1 DEF PathOnce, ListedOnce
<1> QED BY <1>3, <1>4, <1>5 DEF SetupInv

LEMMA NextSetup == SetupInv /\ [Next]_vars => SetupInv'
<1> SUFFICES ASSUME SetupInv, [Next]_vars PROVE SetupInv'
  OBVIOUS
<1>1. ASSUME NEW n, NEW fresh \in BOOLEAN, Call(n, fresh) PROVE SetupInv'
  BY <1>1, EnterSetup DEF Call
<1>2. CASE Ensure
  BY <1>2, EnsureSetup DEF Ensure
<1>3. CASE ListDevices \/ InspectPorts \/ DetachPort \/ AttachDevice \/ AllAttached
  BY <1>3, CallGoesOn DEF ListDevices, InspectPorts, DetachPort, AttachDevice, AllAttached,
    toolUnchanged, Goes, NoFault
<1>4. ASSUME NEW n, RestartServer(n) PROVE SetupInv'
  BY <1>4, CallGoesOn DEF RestartServer
<1>5. ASSUME NEW p, NEW host, Vanishes(p) \/ OtherDetaches(p) \/ OtherAttaches(p, host)
      PROVE  SetupInv'
  BY <1>5, CallGoesOn DEF Vanishes, OtherDetaches, OtherAttaches, setupVars
<1>6. CASE Restarts
  BY <1>6, RestartWindowsSetup DEF Restarts
<1>7. CASE DriverStarts \/ OtherEditsPath \/ Killed
  BY <1>7, DriverStartsSetup, OtherEditsPathSetup, KilledSetup
<1>8. CASE UNCHANGED vars
  BY <1>8, CallGoesOn DEF vars, setupVars
<1> QED BY <1>1, <1>2, <1>3, <1>4, <1>5, <1>6, <1>7, <1>8 DEF Next, Environment

\* When nothing fails in a call, it fails only for want of the package or of a restart of
\* Windows, whatever was half installed before, and adds no second controller to a driver
\* that worked: for any machine, any calls, and whatever others do meanwhile.
THEOREM HelperSetupExplained == Spec => []SetupExplained
<1>1. SetupInv => SetupExplained
  BY DEF SetupInv, Fits, SetupExplained
<1> QED BY <1>1, InitSetup, NextSetup, PTL DEF Spec

-----------------------------------------------------------------------------
(* The machine PATH. *)

\* A step leaves the value alone, appends to it, or replaces it by what was read of it and
\* an entry.
LEMMA PathMoves ==
  ASSUME SetupInv, [Next]_vars
  PROVE  \/ machine'.path = machine.path
         \/ \E e : machine'.path = Append(machine.path, e)
         \/ \E e : machine'.path = Append(queried, e)
<1>0. machine \in MachineStates /\ copied \in 0..2
  BY EnsureTypes
<1>1. CASE CopyFile
  <2>1. PICK f \in {"usbip", "rest"} : f = RuntimeFiles[copied + 1]
    BY <1>0, <1>1, FilesAre DEF CopyFile
  <2>2. machine' = [machine EXCEPT !.file[f] = "good"]
    BY <1>1, <2>1 DEF CopyFile, Installed
  <2>3. But(machine, machine', {"file"})
    BY <1>0, <2>1, <2>2, FileWritten
  <2> QED BY <2>3 DEF But
<1>2. CASE CopyFails \/ Killed
  <2>1. But(machine, machine', {"file"})
    BY <1>2, TornFile DEF CopyFails, Killed
  <2> QED BY <2>1 DEF But
<1>3. CASE InstallFilter
  <2>1. machine' = machine \/ But(machine, machine', {"filter"})
    BY <1>0, <1>3, FilterThere DEF InstallFilter
  <2> QED BY <2>1 DEF But
<1>4. CASE InstallController
  <2>1. machine' = machine \/ But(machine, machine', {"controllers", "restart"})
    BY <1>0, <1>4, ControllerAdded DEF InstallController
  <2> QED BY <2>1 DEF But
<1>5. CASE SetPath
  <2>1. CASE machine' = machine
    BY <2>1
  <2>2. CASE machine' = [machine EXCEPT !.path = Append(queried, [folder |-> exe, spelling |-> 1])]
    BY <1>0, <2>2 DEF MachineStates
  <2> QED BY <1>5, <2>1, <2>2 DEF SetPath
<1>6. CASE DriverStarts
  <2>1. But(machine, machine', {"started"})
    BY <1>0, <1>6, DriverStarted DEF DriverStarts
  <2> QED BY <2>1 DEF But
<1>7. CASE RestartWindows
  <2>1. But(machine, machine', {"restart", "started"})
    BY <1>0, <1>7, WindowsRestarted DEF RestartWindows
  <2> QED BY <2>1 DEF But
<1>8. CASE OtherEditsPath
  BY <1>0, <1>8 DEF OtherEditsPath, MachineStates
<1>9. CASE Find \/ BundledDriverPackage \/ AlreadyOperational \/ QueryPath \/ EnsuredDriver \/ NotReady
  BY <1>9 DEF Find, BundledDriverPackage, AlreadyOperational, QueryPath, EnsuredDriver, NotReady
<1>10. ASSUME NEW n, NEW p, NEW host, NEW fresh,
              \/ Call(n, fresh) \/ RestartServer(n)
              \/ Vanishes(p) \/ OtherDetaches(p) \/ OtherAttaches(p, host)
       PROVE  machine' = machine
  BY <1>10 DEF Call, Enter, RestartServer, Vanishes, OtherDetaches, OtherAttaches, setupVars
<1>11. CASE \/ ListDevices \/ InspectPorts \/ DetachPort \/ AttachDevice \/ AllAttached
            \/ UNCHANGED vars
  BY <1>11 DEF ListDevices, InspectPorts, DetachPort, AttachDevice, AllAttached, toolUnchanged,
    vars, setupVars
<1> QED BY <1>1, <1>2, <1>3, <1>4, <1>5, <1>6, <1>7, <1>8, <1>9, <1>10, <1>11
        DEF Next, Ensure, EnsureUSBIPDriver, Environment, Restarts

LEMMA OnceIsOne ==
  ASSUME NEW p, ListedOnce(p), NEW d \in {"own", "foreign"}
  PROVE  Cardinality({i \in DOMAIN p : p[i].folder = d}) <= 1
<1> DEFINE S == {i \in DOMAIN p : p[i].folder = d}
<1>1. CASE S = {}
  BY <1>1, FS_EmptySet
<1>2. ASSUME NEW i \in S PROVE Cardinality(S) <= 1
  <2>1. S = {i}
    BY DEF ListedOnce
  <2> QED BY <2>1, FS_Singleton
<1> QED BY <1>1, <1>2

\* What was on the PATH before the call and is there when it is written is kept, and no
\* folder is listed twice: for any machines, tools and interleaving with other installers.
THEOREM HelperPathKept == Spec => PathKept
<1>1. ASSUME SetupInv, SetupInv', [Next]_vars
      PROVE  /\ ToSet(machine.path) \cap ToSet(queried) \subseteq ToSet(machine'.path)
             /\ \A d \in {"own", "foreign"} :
                  Cardinality({i \in DOMAIN machine'.path : machine'.path[i].folder = d}) <= 1
  <2>1. machine.path \in Seq(Entries) /\ queried \in Seq(Entries)
    BY <1>1, EnsureTypes, MachineFields
  <2>2. \A p \in Seq(Entries) : \A e : ToSet(p) \subseteq ToSet(Append(p, e))
    <3> SUFFICES ASSUME NEW p \in Seq(Entries), NEW e, NEW i \in DOMAIN p
                 PROVE  \E j \in DOMAIN Append(p, e) : Append(p, e)[j] = p[i]
      BY DEF ToSet
    <3>1. i \in 1..Len(p) /\ DOMAIN Append(p, e) = 1..Len(p) + 1 /\ Append(p, e)[i] = p[i]
          /\ Len(p) \in Nat
      OBVIOUS
    <3> QED BY <3>1
  <2>3. ToSet(machine.path) \cap ToSet(queried) \subseteq ToSet(machine'.path)
    BY <1>1, <2>1, <2>2, PathMoves
  <2>4. ListedOnce(machine'.path)
    BY <1>1 DEF SetupInv, PathOnce, ListedOnce
  <2> QED BY <2>3, <2>4, OnceIsOne
<1> DEFINE Kept == /\ ToSet(machine.path) \cap ToSet(queried) \subseteq ToSet(machine'.path)
                   /\ \A d \in {"own", "foreign"} :
                        Cardinality({i \in DOMAIN machine'.path : machine'.path[i].folder = d}) <= 1
<1>2. SetupInv /\ SetupInv' /\ [Next]_vars => [Kept]_machine
  BY <1>1
<1> QED BY <1>2, InitSetup, NextSetup, PTL DEF Spec, PathKept

-----------------------------------------------------------------------------
(* What `usbip port` prints, and what detachOwnUSBIPPorts makes of it.        *)

LEMMA LeastNumber ==
  ASSUME NEW S \in SUBSET Nat, S # {}
  PROVE  \E n \in S : \A m \in S : n <= m
<1> DEFINE R == {p \in Nat \X Nat : p[1] < p[2]}
<1>1. IsWellFoundedOn(R, Nat)
  BY NatLessThanWellFounded DEF OpToRel
<1>2. \A m, n \in Nat : m < n => <<m, n>> \in R
  OBVIOUS
<1> HIDE DEF R
<1>3. PICK n \in S : \A m \in S : <<m, n>> \notin R
  BY <1>1, WFMin
<1>4. \A m \in S : ~(m < n) /\ m \in Nat /\ n \in Nat
  BY <1>2, <1>3
<1> QED BY <1>3, <1>4

\* Induction up to n, over a set.
LEMMA Induction ==
  ASSUME NEW n \in Nat, NEW S, 0 \in S, \A i \in 1..n : i - 1 \in S => i \in S
  PROVE  0..n \subseteq S
<1> DEFINE Bad == (0..n) \ S
<1>1. Bad \in SUBSET Nat
  OBVIOUS
<1>2. ASSUME NEW m \in Bad, \A k \in Bad : m <= k PROVE FALSE
  <2>1. m \in 1..n /\ m - 1 \in 0..n
    OBVIOUS
  <2>2. m - 1 \in S
    BY <1>2, <2>1
  <2> QED BY <2>1, <2>2
<1> HIDE DEF Bad
<1>3. Bad = {}
  BY <1>1, <1>2, LeastNumber
<1> QED BY <1>3 DEF Bad

Line == [kind : {"Port", "text", "url"}, port : Nat, host : {"none", "own", "foreign"}]

\* The recursive functions of Printed and OwnPorts.
Lines == LET lines[p \in 0..PortCount] == IF p = 0 THEN <<>> ELSE lines[p - 1] \o Block(p)
         IN lines

Found(q) == LET found[i \in 0..Len(q)] ==
                  IF i = 0 THEN [own |-> <<>>, current |-> 0] ELSE OnLine(q[i], found[i - 1])
            IN found

LEMMA LinesExist ==
  \E f : f = [p \in 0..PortCount |-> IF p = 0 THEN <<>> ELSE f[p - 1] \o Block(p)]
<1> DEFINE Good(n) == \E f : f = [p \in 0..n |-> IF p = 0 THEN <<>> ELSE f[p - 1] \o Block(p)]
           S == {n \in Nat : Good(n)}
<1>1. Good(0)
  <2>1. [i \in 0..0 |-> <<>>] = [i \in 0..0 |-> IF i = 0 THEN <<>>
                                                ELSE [j \in 0..0 |-> <<>>][i - 1] \o Block(i)]
    OBVIOUS
  <2> QED BY <2>1
<1>2. ASSUME NEW n \in Nat, Good(n) PROVE Good(n + 1)
  <2>1. PICK f : f = [p \in 0..n |-> IF p = 0 THEN <<>> ELSE f[p - 1] \o Block(p)]
    BY <1>2
  <2>2. PICK g : g = [p \in 0..n + 1 |-> IF p = n + 1 THEN f[n] \o Block(n + 1) ELSE f[p]]
    OBVIOUS
  <2>3. ASSUME NEW p \in 0..n + 1
        PROVE  g[p] = IF p = 0 THEN <<>> ELSE g[p - 1] \o Block(p)
    <3>1. CASE p = n + 1
      <4>1. g[n + 1] = f[n] \o Block(n + 1) /\ g[n] = f[n] /\ p - 1 = n /\ p # 0
        BY <2>2, <3>1
      <4> QED BY <3>1, <4>1
    <3>2. CASE p \in 0..n
      <4>1. g[p] = f[p] /\ (p # 0 => g[p - 1] = f[p - 1])
        BY <2>2, <3>2
      <4>2. f[p] = IF p = 0 THEN <<>> ELSE f[p - 1] \o Block(p)
        BY <2>1, <3>2
      <4> QED BY <4>1, <4>2
    <3> QED BY <3>1, <3>2
  <2>4. g = [p \in 0..n + 1 |-> IF p = 0 THEN <<>> ELSE g[p - 1] \o Block(p)]
    BY <2>2, <2>3
  <2> QED BY <2>4
<1> HIDE DEF Good
<1>3. 0 \in S /\ \A i \in 1..PortCount : i - 1 \in S => i \in S
  <2>1. 0 \in S
    BY <1>1
  <2>2. ASSUME NEW i \in 1..PortCount, i - 1 \in S PROVE i \in S
    <3>1. i - 1 \in Nat /\ Good(i - 1) /\ i = (i - 1) + 1 /\ i \in Nat
      BY <2>2
    <3>2. Good((i - 1) + 1)
      BY <1>2, <3>1
    <3> QED BY <3>1, <3>2
  <2> QED BY <2>1, <2>2
<1> HIDE DEF S
<1>4. PortCount \in S
  BY <1>3, HelperAssumption, Induction
<1> QED BY <1>4 DEF S, Good

LEMMA LinesStep ==
  Lines[0] = <<>> /\ \A p \in 1..PortCount : Lines[p] = Lines[p - 1] \o Block(p)
<1>1. Lines = [p \in 0..PortCount |-> IF p = 0 THEN <<>> ELSE Lines[p - 1] \o Block(p)]
  BY LinesExist DEF Lines
<1>2. 0 \in 0..PortCount /\ \A p \in 1..PortCount : p \in 0..PortCount /\ p # 0
  BY HelperAssumption
<1>3. \A p \in 0..PortCount : Lines[p] = IF p = 0 THEN <<>> ELSE Lines[p - 1] \o Block(p)
  BY ONLY <1>1
<1> QED BY <1>2, <1>3

LEMMA FoundExists ==
  ASSUME NEW q \in Seq(Line)
  PROVE  \E f : f = [i \in 0..Len(q) |-> IF i = 0 THEN [own |-> <<>>, current |-> 0]
                                         ELSE OnLine(q[i], f[i - 1])]
<1> DEFINE none == [own |-> <<>>, current |-> 0]
           Good(n) == \E f : f = [i \in 0..n |-> IF i = 0 THEN none ELSE OnLine(q[i], f[i - 1])]
           S == {n \in Nat : Good(n)}
<1> HIDE DEF none
<1>1. Good(0)
  <2>1. [i \in 0..0 |-> none] = [i \in 0..0 |-> IF i = 0 THEN none
                                                ELSE OnLine(q[i], [j \in 0..0 |-> none][i - 1])]
    OBVIOUS
  <2> QED BY <2>1
<1>2. ASSUME NEW n \in Nat, Good(n) PROVE Good(n + 1)
  <2>1. PICK f : f = [i \in 0..n |-> IF i = 0 THEN none ELSE OnLine(q[i], f[i - 1])]
    BY <1>2
  <2>2. PICK g : g = [i \in 0..n + 1 |-> IF i = n + 1 THEN OnLine(q[n + 1], f[n]) ELSE f[i]]
    OBVIOUS
  <2>3. \A i \in 0..n + 1 : g[i] = IF i = 0 THEN none ELSE OnLine(q[i], g[i - 1])
    BY <2>1, <2>2
  <2>4. g = [i \in 0..n + 1 |-> IF i = 0 THEN none ELSE OnLine(q[i], g[i - 1])]
    BY <2>2, <2>3
  <2> QED BY <2>4
<1> HIDE DEF Good
<1>3. 0 \in S /\ \A i \in 1..Len(q) : i - 1 \in S => i \in S
  <2>1. 0 \in S
    BY <1>1
  <2>2. ASSUME NEW i \in 1..Len(q), i - 1 \in S PROVE i \in S
    <3>1. i - 1 \in Nat /\ Good(i - 1) /\ i = (i - 1) + 1 /\ i \in Nat
      BY <2>2
    <3>2. Good((i - 1) + 1)
      BY <1>2, <3>1
    <3> QED BY <3>1, <3>2
  <2> QED BY <2>1, <2>2
<1> HIDE DEF S
<1>4. Len(q) \in Nat /\ Len(q) \in 0..Len(q)
  OBVIOUS
<1>5. Len(q) \in S
  BY <1>3, <1>4, Induction
<1> QED BY <1>5 DEF S, Good, none

LEMMA FoundStep ==
  ASSUME NEW q \in Seq(Line)
  PROVE  /\ Found(q)[0] = [own |-> <<>>, current |-> 0] /\ Len(q) \in Nat
         /\ \A i \in 1..Len(q) : Found(q)[i] = OnLine(q[i], Found(q)[i - 1])
<1>1. Found(q) = [i \in 0..Len(q) |-> IF i = 0 THEN [own |-> <<>>, current |-> 0]
                                      ELSE OnLine(q[i], Found(q)[i - 1])]
  BY FoundExists DEF Found
<1> QED BY SMTT(20), <1>1

\* What follows a line does not change what was found up to it.
LEMMA FoundPrefix ==
  ASSUME NEW q \in Seq(Line), NEW r \in Seq(Line), Len(q) <= Len(r),
         \A i \in 1..Len(q) : q[i] = r[i]
  PROVE  Found(r)[Len(q)] = Found(q)[Len(q)]
<1> DEFINE S == {i \in 0..Len(q) : Found(r)[i] = Found(q)[i]}
<1>0. Len(q) \in Nat
  OBVIOUS
<1>1. 0 \in S /\ \A i \in 1..Len(q) : i - 1 \in S => i \in S
  BY FoundStep
<1> HIDE DEF S
<1>2. 0..Len(q) \subseteq S
  BY <1>0, <1>1, Induction
<1> QED BY <1>0, <1>2 DEF S

LEMMA AppendSet ==
  ASSUME NEW T, NEW o \in Seq(T), NEW p \in T
  PROVE  Append(o, p) \in Seq(T) /\ ToSet(Append(o, p)) = ToSet(o) \cup {p}
<1>1. PICK g : g = Append(o, p)
  OBVIOUS
<1>2. /\ g \in Seq(T) /\ Len(o) \in Nat /\ DOMAIN g = 1..Len(o) + 1 /\ DOMAIN o = 1..Len(o)
      /\ g[Len(o) + 1] = p /\ \A i \in 1..Len(o) : g[i] = o[i]
  BY <1>1
<1>3. ToSet(g) = ToSet(o) \cup {p}
  <2>1. ASSUME NEW x \in ToSet(g) PROVE x \in ToSet(o) \cup {p}
    BY <1>2 DEF ToSet
  <2>2. ASSUME NEW x \in ToSet(o) PROVE x \in ToSet(g)
    BY <1>2 DEF ToSet
  <2>3. p \in ToSet(g)
    BY <1>2 DEF ToSet
  <2> QED BY <2>1, <2>2, <2>3
<1> QED BY <1>1, <1>2, <1>3

LEMMA LineFacts ==
  ASSUME NEW o, NEW c, NEW p \in Ports
  PROVE  /\ OnLine(Heading(p), [own |-> o, current |-> c]) = [own |-> o, current |-> p]
         /\ OnLine(Text, [own |-> o, current |-> c]) = [own |-> o, current |-> c]
         /\ OnLine(Url("own"), [own |-> o, current |-> p]) = [own |-> Append(o, p), current |-> 0]
         /\ OnLine(Url("foreign"), [own |-> o, current |-> c]) = [own |-> o, current |-> c]
<1>1. p # 0
  BY HelperAssumption DEF Ports
<1>2. PICK f : f = [own |-> o, current |-> c]
  OBVIOUS
<1>3. PICK g : g = [own |-> o, current |-> p]
  OBVIOUS
<1>4. g.own = o /\ g.current = p
  BY <1>3
<1>5. OnLine(Heading(p), f) = g
  <2>1. Heading(p).kind = "Port" /\ Heading(p).port = p /\ Heading(p).host = "none"
    BY DEF Heading
  <2>2. [f EXCEPT !.current = p] = g
    BY <1>2, <1>3
  <2>3. OnLine(Heading(p), f) = OnHeading(Heading(p).port, f)
    BY <2>1 DEF OnLine
  <2> QED BY <2>1, <2>2, <2>3 DEF OnHeading
<1>6. OnLine(Text, f) = f
  <2>1. Text.kind = "text" /\ Text.host = "none"
    BY DEF Text
  <2> QED BY <2>1 DEF OnLine
<1>7. OnLine(Url("own"), g) = [own |-> Append(o, p), current |-> 0]
  <2>1. Url("own").kind = "url" /\ Url("own").host = "own"
    BY DEF Url
  <2> QED BY <1>1, <1>4, <2>1 DEF OnLine
<1>8. OnLine(Url("foreign"), f) = f
  <2>1. Url("foreign").kind = "url" /\ Url("foreign").host = "foreign"
    BY DEF Url
  <2> QED BY <2>1 DEF OnLine
<1> QED BY <1>2, <1>3, <1>5, <1>6, <1>7, <1>8

\* The lines of a device: two, or three.
LEMMA ShortSequences ==
  ASSUME NEW T, NEW h \in T, NEW t \in T, NEW u \in T
  PROVE  /\ <<h, t>> \o <<>> = <<h, t>> /\ <<h, t>> \o <<u>> = <<h, t, u>>
         /\ <<>> \in Seq(T) /\ <<h, t>> \in Seq(T) /\ <<h, t, u>> \in Seq(T)
<1>1. <<h, t>> \in Seq(T) /\ <<u>> \in Seq(T) /\ <<h, t, u>> \in Seq(T) /\ <<>> \in Seq(T)
  OBVIOUS
<1>2. <<h, t>> \o <<>> = <<h, t>>
  OBVIOUS
<1>3. <<h, t>> \o <<u>> = <<h, t, u>>
  <2>1. ASSUME NEW a \in Seq(T), NEW b \in Seq(T), a = <<h, t>>, b = <<u>>
        PROVE  a \o b = <<h, t, u>>
    <3>1. Len(a) = 2 /\ Len(b) = 1 /\ a[1] = h /\ a[2] = t /\ b[1] = u
      BY <2>1
    <3>0. a \o b \in Seq(T)
      BY ONLY a \in Seq(T), b \in Seq(T)
    <3>2. PICK s \in Seq(T) : s = a \o b
      BY ONLY <3>0
    <3>3. Len(s) = Len(a) + Len(b)
      BY <3>2
    <3>4. \A i \in 1..Len(a) : s[i] = a[i]
      BY <3>2
    <3>5. \A i \in 1..Len(b) : s[Len(a) + i] = b[i]
      BY <3>2
    <3>6. Len(s) = 3 /\ s[1] = h /\ s[2] = t /\ s[2 + 1] = u
      BY <3>1, <3>3, <3>4, <3>5
    <3>7. s = <<h, t, u>>
      BY ONLY s \in Seq(T), h \in T, t \in T, u \in T, <3>6
    <3> QED BY <3>2, <3>7
  <2> QED BY <1>1, <2>1
<1> QED BY <1>1, <1>2, <1>3

LEMMA BlockFits ==
  ASSUME PortTypeOK, NEW p \in Ports
  PROVE  /\ Block(p) \in Seq(Line)
         /\ \/ Block(p) = <<>> /\ ~Own(p)
            \/ Block(p) = <<Heading(p), Text>> /\ ~Own(p)
            \/ Block(p) = <<Heading(p), Text, Url("foreign")>> /\ ~Own(p)
            \/ Block(p) = <<Heading(p), Text, Url("own")>> /\ Own(p)
<1>1. port[p] \in PortStates
  BY DEF PortTypeOK
<1>2. port[p] = Free \/ port[p].host \in {"own", "foreign", "local"}
  BY <1>1 DEF PortStates
<1>3. Free.host = "none"
  BY DEF Free
<1>4. Heading(p) \in Line /\ Text \in Line /\ Url("own") \in Line /\ Url("foreign") \in Line
  <2>1. p \in Nat
    BY HelperAssumption DEF Ports
  <2> QED BY <2>1 DEF Line, Heading, Text, Url
<1>5. /\ <<>> \in Seq(Line)
      /\ <<Heading(p), Text>> \o <<>> = <<Heading(p), Text>>
      /\ <<Heading(p), Text>> \in Seq(Line)
      /\ <<Heading(p), Text>> \o <<Url("own")>> = <<Heading(p), Text, Url("own")>>
      /\ <<Heading(p), Text, Url("own")>> \in Seq(Line)
      /\ <<Heading(p), Text>> \o <<Url("foreign")>> = <<Heading(p), Text, Url("foreign")>>
      /\ <<Heading(p), Text, Url("foreign")>> \in Seq(Line)
  BY <1>4, ShortSequences
<1>7. CASE port[p] = Free
  <2>1. Block(p) = <<>> /\ ~Own(p)
    BY <1>3, <1>7 DEF Block, Own
  <2> QED BY <1>5, <2>1
<1>8. CASE port[p] # Free /\ port[p].host = "local"
  <2>1. Block(p) = <<Heading(p), Text>> \o <<>> /\ ~Own(p)
    BY <1>8 DEF Block, Own
  <2> QED BY <1>5, <2>1
<1>9. CASE port[p] # Free /\ port[p].host = "own"
  <2>1. Block(p) = <<Heading(p), Text>> \o <<Url("own")>> /\ Own(p)
    BY <1>9 DEF Block, Own
  <2> QED BY <1>5, <2>1
<1>10. CASE port[p] # Free /\ port[p].host = "foreign"
  <2>1. Block(p) = <<Heading(p), Text>> \o <<Url("foreign")>> /\ ~Own(p)
    BY <1>10 DEF Block, Own
  <2> QED BY <1>5, <2>1
<1> QED BY <1>2, <1>7, <1>8, <1>9, <1>10

\* The ports o are found to be own in the lines q.
FoundOwn(q, o) == \E c : Found(q)[Len(q)] = [own |-> o, current |-> c]

\* One port's lines more: its heading ends the search for the URL of a port before it that
\* has none, and its own URL is found after its heading.
LEMMA BlockFound ==
  ASSUME PortTypeOK, NEW p \in Ports, NEW q \in Seq(Line), NEW o \in Seq(Ports),
         FoundOwn(q, o), NEW r, r = q \o Block(p),
         NEW g, g = IF Own(p) THEN Append(o, p) ELSE o
  PROVE  r \in Seq(Line) /\ FoundOwn(r, g)
<1>0. PICK c : Found(q)[Len(q)] = [own |-> o, current |-> c]
  BY DEF FoundOwn
<1>1. PICK b : b = Block(p) /\ b \in Seq(Line)
  BY BlockFits
<1>2. PICK n : n = Len(q)
  OBVIOUS
<1>3. /\ r \in Seq(Line) /\ Len(r) = n + Len(b) /\ n \in Nat /\ Len(b) \in Nat
      /\ \A i \in 1..n : q[i] = r[i]
      /\ \A i \in 1..Len(b) : r[n + i] = b[i]
  BY <1>1, <1>2
<1>4. Found(r)[n] = [own |-> o, current |-> c]
  <2>1. Len(q) <= Len(r) /\ \A i \in 1..Len(q) : q[i] = r[i]
    BY <1>2, <1>3
  <2>2. Found(r)[Len(q)] = Found(q)[Len(q)]
    BY <1>3, <2>1, FoundPrefix
  <2> QED BY <1>0, <1>2, <2>2
<1>5. ASSUME NEW i \in 1..Len(b), NEW j, j = n + i
      PROVE  Found(r)[j] = OnLine(b[i], Found(r)[j - 1])
  <2>1. j \in 1..Len(r) /\ r[j] = b[i]
    BY <1>3, <1>5
  <2>2. \A k \in 1..Len(r) : Found(r)[k] = OnLine(r[k], Found(r)[k - 1])
    BY <1>3, FoundStep
  <2>3. Found(r)[j] = OnLine(r[j], Found(r)[j - 1])
    BY <2>1, <2>2
  <2> QED BY <2>1, <2>3
<1>6. PICK k1, k2, k3 : k1 = n + 1 /\ k2 = n + 2 /\ k3 = n + 3
  OBVIOUS
<1>7. k1 - 1 = n /\ k2 - 1 = k1 /\ k3 - 1 = k2
  BY <1>3, <1>6
<1>a. ASSUME 2 <= Len(b), b[1] = Heading(p), b[2] = Text
      PROVE  Found(r)[k2] = [own |-> o, current |-> p]
  <2>1. 1 \in 1..Len(b) /\ 2 \in 1..Len(b)
    BY <1>3, <1>a
  <2>2. Found(r)[k1] = OnLine(b[1], Found(r)[k1 - 1])
    BY <1>5, <1>6, <2>1
  <2>3. Found(r)[k1] = [own |-> o, current |-> p]
    <3>1. Found(r)[k1] = OnLine(Heading(p), [own |-> o, current |-> c])
      BY <1>4, <1>7, <1>a, <2>2
    <3> QED BY ZenonT(30), <3>1, LineFacts
  <2>4. Found(r)[k2] = OnLine(b[2], Found(r)[k2 - 1])
    BY <1>5, <1>6, <2>1
  <2>5. Found(r)[k2] = OnLine(Text, [own |-> o, current |-> p])
    BY <1>7, <1>a, <2>3, <2>4
  <2> QED BY <2>5, LineFacts
<1>b. ASSUME 3 <= Len(b), b[1] = Heading(p), b[2] = Text
      PROVE  Found(r)[k3] = OnLine(b[3], [own |-> o, current |-> p])
  <2>1. 3 \in 1..Len(b) /\ 2 <= Len(b)
    BY <1>3, <1>b
  <2>2. Found(r)[k2] = [own |-> o, current |-> p]
    BY <1>a, <1>b, <2>1
  <2>3. Found(r)[k3] = OnLine(b[3], Found(r)[k3 - 1])
    BY <1>5, <1>6, <2>1
  <2> QED BY <1>7, <2>2, <2>3
<1>8. CASE b = <<>> /\ ~Own(p)
  <2>1. Len(r) = n
    BY <1>3, <1>8
  <2> QED BY <1>3, <1>4, <1>8, <2>1 DEF FoundOwn
<1>9. CASE b = <<Heading(p), Text>> /\ ~Own(p)
  <2>1. Len(b) = 2 /\ b[1] = Heading(p) /\ b[2] = Text
    BY ONLY <1>9
  <2>2. Len(r) = k2 /\ 2 <= Len(b)
    BY <1>3, <1>6, <2>1
  <2>3. Found(r)[k2] = [own |-> o, current |-> p]
    BY <1>a, <2>1, <2>2
  <2> QED BY <1>3, <1>9, <2>2, <2>3 DEF FoundOwn
<1>10. CASE b = <<Heading(p), Text, Url("foreign")>> /\ ~Own(p)
  <2>1. Len(b) = 3 /\ b[1] = Heading(p) /\ b[2] = Text /\ b[3] = Url("foreign")
    BY ONLY <1>10
  <2>2. Len(r) = k3 /\ 3 <= Len(b)
    BY <1>3, <1>6, <2>1
  <2>3. Found(r)[k3] = OnLine(Url("foreign"), [own |-> o, current |-> p])
    BY <1>b, <2>1, <2>2
  <2>4. Found(r)[k3] = [own |-> o, current |-> p]
    BY <2>3, LineFacts
  <2> QED BY <1>3, <1>10, <2>2, <2>4 DEF FoundOwn
<1>11. CASE b = <<Heading(p), Text, Url("own")>> /\ Own(p)
  <2>1. Len(b) = 3 /\ b[1] = Heading(p) /\ b[2] = Text /\ b[3] = Url("own")
    BY ONLY <1>11
  <2>2. Len(r) = k3 /\ 3 <= Len(b)
    BY <1>3, <1>6, <2>1
  <2>3. Found(r)[k3] = OnLine(Url("own"), [own |-> o, current |-> p])
    BY <1>b, <2>1, <2>2
  <2>4. Found(r)[k3] = [own |-> Append(o, p), current |-> 0]
    BY <2>3, LineFacts
  <2> QED BY <1>3, <1>11, <2>2, <2>4 DEF FoundOwn
<1> QED BY <1>1, <1>8, <1>9, <1>10, <1>11, BlockFits

\* What is found among the lines of the ports up to p.
FoundRight(p) ==
  \E o \in Seq(Ports) : FoundOwn(Lines[p], o) /\ ToSet(o) = {x \in 1..p : Own(x)}

\* The ports that are taken for own are own, all of them.
LEMMA OwnPortsAreOwn ==
  ASSUME PortTypeOK
  PROVE  /\ OwnPorts(Printed) \in Seq(Ports)
         /\ ToSet(OwnPorts(Printed)) = {p \in Ports : Own(p)}
<1> DEFINE S == {p \in 0..PortCount : Lines[p] \in Seq(Line) /\ FoundRight(p)}
<1>0. PortCount \in Nat
  BY HelperAssumption
<1>1. 0 \in S
  <2>1. PICK q, o : q = Lines[0] /\ q = <<>> /\ o = <<>>
    BY LinesStep
  <2>2. q \in Seq(Line) /\ Len(q) = 0 /\ o \in Seq(Ports) /\ ToSet(o) = {}
    BY <2>1 DEF ToSet
  <2>3. Found(q)[0] = [own |-> o, current |-> 0]
    BY <2>1, <2>2, FoundStep
  <2>4. {x \in 1..0 : Own(x)} = {}
    OBVIOUS
  <2>5. FoundRight(0)
    BY <2>1, <2>2, <2>3, <2>4 DEF FoundRight, FoundOwn
  <2>6. 0 \in 0..PortCount /\ Lines[0] \in Seq(Line)
    BY <1>0, <2>1, <2>2
  <2> QED BY <2>5, <2>6
<1>2. ASSUME NEW p \in 1..PortCount, p - 1 \in S PROVE p \in S
  <2>1. p \in Ports /\ p \in 0..PortCount
    BY <1>0 DEF Ports
  <2>2. PICK q : q = Lines[p - 1] /\ q \in Seq(Line)
    BY <1>2
  <2>3. PICK o \in Seq(Ports) : FoundOwn(q, o) /\ ToSet(o) = {x \in 1..p - 1 : Own(x)}
    BY <1>2, <2>2 DEF FoundRight
  <2>4. PICK r : r = Lines[p] /\ r = q \o Block(p)
    BY <2>2, LinesStep
  <2>5. PICK g : g = IF Own(p) THEN Append(o, p) ELSE o
    OBVIOUS
  <2>6. r \in Seq(Line) /\ FoundOwn(r, g)
    BY <2>1, <2>2, <2>3, <2>4, <2>5, BlockFound
  <2>7. g \in Seq(Ports) /\ ToSet(g) = {x \in 1..p : Own(x)}
    <3>1. {x \in 1..p : Own(x)} = {x \in 1..p - 1 : Own(x)} \cup (IF Own(p) THEN {p} ELSE {})
      BY <1>0
    <3>2. Append(o, p) \in Seq(Ports) /\ ToSet(Append(o, p)) = ToSet(o) \cup {p}
      BY <2>1, AppendSet
    <3> QED BY <2>3, <2>5, <3>1, <3>2
  <2>8. FoundRight(p)
    BY <2>4, <2>5, <2>6, <2>7 DEF FoundRight
  <2> QED BY <2>1, <2>4, <2>6, <2>8
<1> HIDE DEF S
<1>3. PortCount \in S
  BY <1>0, <1>1, <1>2, Induction
<1>4. PICK o \in Seq(Ports) : /\ FoundOwn(Lines[PortCount], o)
                             /\ ToSet(o) = {x \in 1..PortCount : Own(x)}
  BY <1>3 DEF S, FoundRight
<1>5. OwnPorts(Printed) = Found(Lines[PortCount])[Len(Lines[PortCount])].own
  BY DEF OwnPorts, Printed, Found, Lines
<1> QED BY <1>4, <1>5 DEF FoundOwn, Ports

-----------------------------------------------------------------------------
(* The ports: their types. *)

LEMMA PortIs ==
  ASSUME PortTypeOK, NEW p \in Ports
  PROVE  /\ port[p] \in PortStates
         /\ port[p].host \in {"none", "own", "foreign", "local"}
         /\ port[p].host = "none" <=> port[p] = Free
<1>1. port[p] \in PortStates
  BY DEF PortTypeOK
<1>2. Free.host = "none"
  BY DEF Free
<1> QED BY <1>1, <1>2 DEF PortStates

LEMMA PortStateFacts ==
  /\ Free \in PortStates /\ Free.host = "none"
  /\ \A d \in Nat, h \in {"own", "foreign", "local"} :
       [host |-> h, device |-> d, live |-> TRUE] \in PortStates
BY DEF PortStates, Free

LEMMA TodoMoves ==
  ASSUME NEW s \in Seq(Ports), s # <<>>
  PROVE  /\ Head(s) \in Ports /\ Tail(s) \in Seq(Ports)
         /\ ToSet(s) = {Head(s)} \cup ToSet(Tail(s))
<1>1. PICK t : t = Tail(s)
  OBVIOUS
<1>2. /\ t \in Seq(Ports) /\ Len(s) \in Nat /\ Len(s) >= 1 /\ Len(t) = Len(s) - 1
      /\ DOMAIN s = 1..Len(s) /\ DOMAIN t = 1..Len(t) /\ Head(s) = s[1]
      /\ \A i \in 1..Len(t) : t[i] = s[i + 1]
  BY <1>1
<1>3. ASSUME NEW x \in ToSet(s) PROVE x \in {Head(s)} \cup ToSet(t)
  <2>1. PICK i \in 1..Len(s) : x = s[i]
    BY <1>2, <1>3 DEF ToSet
  <2>2. CASE i = 1
    BY <1>2, <2>1, <2>2
  <2>3. CASE i # 1
    <3>1. PICK j : j = i - 1
      OBVIOUS
    <3>2. j \in 1..Len(t) /\ i = j + 1
      BY <1>2, <2>1, <2>3, <3>1
    <3>3. t[j] = x
      BY <1>2, <2>1, <3>2
    <3> QED BY <1>2, <3>2, <3>3 DEF ToSet
  <2> QED BY <2>2, <2>3
<1>4. ASSUME NEW x \in ToSet(t) PROVE x \in ToSet(s)
  <2>1. PICK i \in 1..Len(t) : x = t[i]
    BY <1>2, <1>4 DEF ToSet
  <2>2. i + 1 \in 1..Len(s) /\ x = s[i + 1]
    BY <1>2, <2>1
  <2> QED BY <1>2, <2>2 DEF ToSet
<1>5. Head(s) \in ToSet(s) /\ Head(s) \in Ports
  <2>1. 1 \in 1..Len(s)
    BY <1>2
  <2> QED BY <1>2, <2>1 DEF ToSet
<1> QED BY <1>1, <1>2, <1>3, <1>4, <1>5

LEMMA PortRestarted ==
  ASSUME PortTypeOK, NEW n, RestartServer(n), NEW p \in Ports
  PROVE  port'[p] \in PortStates /\ port'[p].host = port[p].host
<1>1. port'[p] = IF port[p].host = "own" THEN [port[p] EXCEPT !.live = FALSE] ELSE port[p]
  BY DEF RestartServer
<1>2. port[p] \in PortStates /\ Free.host = "none"
  BY PortIs, PortStateFacts
<1>3. CASE port[p].host = "own"
  <2>1. PICK s \in [host : {"own", "foreign", "local"}, device : Nat, live : BOOLEAN] : s = port[p]
    BY <1>2, <1>3 DEF PortStates
  <2>2. [s EXCEPT !.live = FALSE] \in [host : {"own", "foreign", "local"}, device : Nat,
                                       live : BOOLEAN]
        /\ [s EXCEPT !.live = FALSE].host = s.host
    BY <2>1
  <2> QED BY <1>1, <1>3, <2>1, <2>2 DEF PortStates
<1>4. CASE port[p].host # "own"
  BY <1>1, <1>2, <1>4
<1> QED BY <1>3, <1>4

\* One port changes, or none.
LEMMA OnePortTypes ==
  ASSUME PortTypeOK, NEW p \in Ports, NEW s \in PortStates, port' = [port EXCEPT ![p] = s]
  PROVE  /\ port' \in [Ports -> PortStates] /\ port'[p] = s
         /\ \A q \in Ports : q # p => port'[q] = port[q]
BY DEF PortTypeOK

LEMMA NextPortTypes == PortTypeOK /\ SetupInv /\ [Next]_vars => PortTypeOK'
<1> SUFFICES ASSUME PortTypeOK, SetupInv, [Next]_vars PROVE PortTypeOK'
  OBVIOUS
<1>0. /\ port \in [Ports -> PortStates] /\ served \in Counts \cup {0}
      /\ count \in Nat /\ next \in Nat /\ todo \in Seq(Ports) /\ late \subseteq Ports
  BY DEF PortTypeOK
<1>1. ASSUME NEW n, NEW fresh, Call(n, fresh) PROVE PortTypeOK'
  BY <1>0, <1>1 DEF Call, MaxDevices, PortTypeOK
<1>2. CASE UNCHANGED portVars
  BY <1>0, <1>2 DEF portVars, PortTypeOK
<1>3. CASE InspectPorts
  <2>1. todo' \in Seq(Ports)
    <3>1. todo' = OwnPorts(Printed) \/ todo' = <<>>
      BY <1>3 DEF InspectPorts
    <3>2. OwnPorts(Printed) \in Seq(Ports)
      BY OwnPortsAreOwn
    <3>3. <<>> \in Seq(Ports)
      OBVIOUS
    <3> QED BY <3>1, <3>2, <3>3
  <2> QED BY <1>0, <1>3, <2>1 DEF InspectPorts, PortTypeOK
<1>4. CASE DetachPort
  <2>1. todo # <<>> /\ todo' = Tail(todo)
    BY <1>4 DEF DetachPort
  <2>2. Head(todo) \in Ports /\ todo' \in Seq(Ports)
    BY <1>0, <2>1, TodoMoves
  <2>3. port' = port \/ port' = [port EXCEPT ![Head(todo)] = Free]
    BY <1>4 DEF DetachPort
  <2>4. port' \in [Ports -> PortStates]
    BY <1>0, <2>2, <2>3, OnePortTypes, PortStateFacts
  <2> QED BY <1>0, <1>4, <2>2, <2>4 DEF DetachPort, PortTypeOK
<1>5. CASE AttachDevice
  <2>1. \/ port' = port /\ next' = next
        \/ /\ next' = next + 1
           /\ \E p \in Ports :
                port' = [port EXCEPT ![p] = [host |-> "own", device |-> next, live |-> TRUE]]
    BY <1>5 DEF AttachDevice, FreePorts
  <2>2. port' \in [Ports -> PortStates] /\ next' \in Nat
    <3>1. CASE port' = port /\ next' = next
      BY <1>0, <3>1
    <3>2. ASSUME NEW p \in Ports, next' = next + 1,
                 port' = [port EXCEPT ![p] = [host |-> "own", device |-> next, live |-> TRUE]]
          PROVE  port' \in [Ports -> PortStates] /\ next' \in Nat
      <4>1. PICK s \in PortStates : s = [host |-> "own", device |-> next, live |-> TRUE]
        BY <1>0, PortStateFacts
      <4>2. port' \in [Ports -> PortStates]
        BY <3>2, <4>1, OnePortTypes
      <4> QED BY <1>0, <3>2, <4>2
    <3> QED BY <2>1, <3>1, <3>2
  <2> QED BY <1>0, <1>5, <2>2 DEF AttachDevice, PortTypeOK
<1>6. ASSUME NEW n \in Counts \cup {0}, RestartServer(n) PROVE PortTypeOK'
  <2>1. \A p \in Ports : port'[p] \in PortStates
    BY <1>6, PortRestarted
  <2>2. port' = [p \in Ports |-> port'[p]]
    BY <1>6 DEF RestartServer
  <2>3. port' \in [Ports -> PortStates]
    BY <2>1, <2>2
  <2> QED BY <1>0, <1>6, <2>3 DEF RestartServer, PortTypeOK
<1>7. ASSUME NEW p \in Ports, NEW host \in Others,
             Vanishes(p) \/ OtherDetaches(p) \/ OtherAttaches(p, host)
      PROVE  PortTypeOK'
  <2>1. \E s \in PortStates : port' = [port EXCEPT ![p] = s]
    BY <1>7, PortStateFacts DEF Vanishes, OtherDetaches, OtherAttaches, Others
  <2>2. port' \in [Ports -> PortStates]
    BY <2>1, OnePortTypes
  <2> QED BY <1>0, <1>7, <2>2 DEF Vanishes, OtherDetaches, OtherAttaches, PortTypeOK
<1>8. CASE Restarts
  <2>1. port' \in [Ports -> PortStates]
    BY <1>8, PortStateFacts DEF Restarts
  <2> QED BY <1>0, <1>8, <2>1 DEF Restarts, PortTypeOK
<1>9. CASE Ensure \/ ListDevices \/ AllAttached \/ UNCHANGED vars
  BY <1>2, <1>9 DEF Ensure, ListDevices, AllAttached, vars
<1>10. CASE Environment
  BY <1>2, <1>6, <1>7, <1>8, <1>10 DEF Environment, Others
<1> QED BY <1>1, <1>3, <1>4, <1>5, <1>9, <1>10 DEF Next

\* The call still detaches only what is its own, or what came to a port since.
LEMMA NextTodo == PortInv /\ SetupInv /\ [Next]_vars => TodoIsOwnOrLate'
<1> SUFFICES ASSUME PortInv, SetupInv, [Next]_vars PROVE TodoIsOwnOrLate'
  OBVIOUS
<1>0. /\ PortTypeOK /\ TodoIsOwnOrLate /\ todo \in Seq(Ports) /\ ToSet(<<>>) = {}
      /\ ToSet(todo) \subseteq Ports
  BY DEF PortInv, PortTypeOK, ToSet
<1>1. CASE todo' = <<>>
  BY <1>0, <1>1 DEF TodoIsOwnOrLate
<1>2. ASSUME ToSet(todo') \subseteq ToSet(todo),
             \A q \in Ports : \/ port'[q].host \notin Others
                              \/ q \in late'
                              \/ port'[q].host = port[q].host /\ (q \in late => q \in late')
      PROVE  TodoIsOwnOrLate'
  BY <1>0, <1>2 DEF TodoIsOwnOrLate
<1>3. CASE UNCHANGED portVars
  BY <1>0, <1>3 DEF portVars, TodoIsOwnOrLate
<1>4. Free.host \notin Others
  BY DEF Free, Others
<1>5. CASE InspectPorts
  <2>1. CASE todo' = OwnPorts(Printed)
    <3>1. ToSet(todo') = {p \in Ports : Own(p)} /\ port' = port
      BY <1>0, <1>5, <2>1, OwnPortsAreOwn DEF InspectPorts
    <3> QED BY <3>1 DEF TodoIsOwnOrLate, Own, Others
  <2> QED BY <1>1, <1>5, <2>1 DEF InspectPorts
<1>6. CASE DetachPort
  <2>1. /\ Head(todo) \in Ports /\ ToSet(todo') \subseteq ToSet(todo) /\ late' = late
        /\ port' = port \/ port' = [port EXCEPT ![Head(todo)] = Free]
    BY <1>0, <1>6, TodoMoves DEF DetachPort
  <2>2. \A q \in Ports : port'[q].host \notin Others \/ port'[q].host = port[q].host
    BY <1>0, <1>4, <2>1, OnePortTypes, PortStateFacts
  <2> QED BY <1>2, <2>1, <2>2
<1>7. CASE AttachDevice
  BY <1>0, <1>1, <1>7 DEF AttachDevice
<1>8. ASSUME NEW n, RestartServer(n) PROVE TodoIsOwnOrLate'
  <2>1. todo' = todo /\ late' = late /\ \A q \in Ports : port'[q].host = port[q].host
    BY <1>0, <1>8, PortRestarted DEF RestartServer
  <2> QED BY <1>2, <2>1
<1>9. ASSUME NEW p \in Ports, NEW host \in Others,
             Vanishes(p) \/ OtherDetaches(p) \/ OtherAttaches(p, host)
      PROVE  TodoIsOwnOrLate'
  <2>1. CASE Vanishes(p) \/ OtherDetaches(p)
    <3>1. /\ port' = [port EXCEPT ![p] = Free] /\ todo' = todo
          /\ \A q \in Ports : q # p /\ q \in late => q \in late'
      BY <2>1 DEF Vanishes, OtherDetaches
    <3>2. port'[p].host \notin Others /\ \A q \in Ports : q # p => port'[q] = port[q]
      BY <1>0, <1>4, <3>1, OnePortTypes, PortStateFacts
    <3> QED BY <1>2, <3>1, <3>2
  <2>2. CASE OtherAttaches(p, host)
    <3>1. /\ port' = [port EXCEPT ![p] = [host |-> host, device |-> 1, live |-> TRUE]]
          /\ todo' = todo /\ late' = late \cup {p}
      BY <2>2 DEF OtherAttaches
    <3>2. \A q \in Ports : q # p => port'[q] = port[q]
      BY <1>0, <3>1 DEF PortTypeOK
    <3> QED BY <1>2, <3>1, <3>2
  <2> QED BY <1>9, <2>1, <2>2
<1>10. CASE Restarts
  <2>1. todo' = todo /\ \A q \in Ports : port'[q] = Free
    BY <1>10 DEF Restarts
  <2> QED BY <1>2, <1>4, <2>1
<1>11. CASE Ensure \/ ListDevices \/ AllAttached \/ UNCHANGED vars
  BY <1>3, <1>11 DEF Ensure, ListDevices, AllAttached, vars
<1>12. CASE Environment
  BY <1>3, <1>8, <1>9, <1>10, <1>12 DEF Environment, Others
<1>13. ASSUME NEW n, NEW fresh, Call(n, fresh) PROVE TodoIsOwnOrLate'
  BY <1>1, <1>13 DEF Call
<1> QED BY <1>5, <1>6, <1>7, <1>11, <1>12, <1>13 DEF Next

-----------------------------------------------------------------------------
(* How far the call is. *)

\* Where the driver is ensured no port is looked at, and the call goes on listing devices.
LEMMA EnsurePlaces ==
  ASSUME EnsureUSBIPDriver
  PROVE  pc \in Ensuring /\ pc' \in Ensuring \cup {"list", "unready"}
<1> USE DEF Ensuring
<1>1. CASE Find
  BY <1>1 DEF Find, Goes
<1>2. CASE BundledDriverPackage
  BY <1>2 DEF BundledDriverPackage, Goes
<1>3. CASE CopyFile \/ CopyFails
  BY <1>3 DEF CopyFile, CopyFails, Goes
<1>4. CASE InstallFilter \/ AlreadyOperational
  BY <1>4 DEF InstallFilter, AlreadyOperational, Goes
<1>5. CASE InstallController
  BY <1>5 DEF InstallController, Goes
<1>6. CASE QueryPath \/ SetPath
  BY <1>6 DEF QueryPath, SetPath, Goes
<1>7. CASE EnsuredDriver \/ NotReady
  BY <1>7 DEF EnsuredDriver, NotReady, Goes
<1> QED BY <1>1, <1>2, <1>3, <1>4, <1>5, <1>6, <1>7 DEF EnsureUSBIPDriver

\* A call that is over without being OK says nothing of the ports.
LEMMA CallEnds ==
  ASSUME pc' \in {"idle", "failed", "unready"}
  PROVE  Progress'
BY DEF Progress, Calling, Ensuring

\* Nothing happens to the ports that are the program's own.
LEMMA OwnStay ==
  ASSUME PortInv, pc' = pc, call' = call, count' = count, next' = next, todo' = todo,
         \A q \in Ports : port'[q] = port[q] \/ (~Own(q) /\ ~Own(q)')
  PROVE  Progress'
<1>1. Progress
  BY DEF PortInv
<1>2. /\ \A q \in Ports : Own(q)' <=> Own(q)
      /\ \A q \in Ports : Own(q) => port'[q] = port[q]
  BY DEF Own
<1>3. AttachedSoFar => AttachedSoFar'
  BY <1>2 DEF AttachedSoFar
<1> QED BY <1>1, <1>2, <1>3 DEF Progress

LEMMA InspectProgress ==
  ASSUME PortInv, InspectPorts
  PROVE  Progress'
<1>1. /\ pc = "inspect" /\ pc' = "detach" /\ port' = port /\ count' = count /\ next' = next
      /\ next = 1 /\ next \in 1..count + 1
  BY DEF InspectPorts, Goes, PortInv, Progress, Calling
<1>2. \A p \in Ports : Own(p)' <=> Own(p)
  BY <1>1 DEF Own
<1>3. CASE Fault
  BY <1>1, <1>3 DEF Fault, Progress
<1>4. CASE todo' = OwnPorts(Printed)
  <2>1. ToSet(todo') = {p \in Ports : Own(p)}
    BY <1>4, OwnPortsAreOwn DEF PortInv
  <2>2. CASE todo' = <<>>
    <3>1. \A p \in Ports : ~Own(p)'
      BY <1>2, <2>1, <2>2 DEF ToSet
    <3>2. AttachedSoFar'
      BY <1>1, <3>1 DEF AttachedSoFar
    <3> QED BY <1>1, <2>2, <3>2 DEF Progress
  <2>3. CASE todo' # <<>>
    BY <1>1, <1>2, <2>1, <2>3 DEF Progress
  <2> QED BY <2>2, <2>3
<1> QED BY <1>3, <1>4 DEF InspectPorts

LEMMA DetachProgress ==
  ASSUME PortInv, DetachPort
  PROVE  Progress'
<1>1. /\ pc = "detach" /\ pc' = "detach" /\ count' = count /\ next' = next /\ todo # <<>>
      /\ todo' = Tail(todo) /\ next = 1 /\ next \in 1..count + 1 /\ PortTypeOK /\ Progress
  BY DEF DetachPort, Goes, PortInv, Progress, Calling
<1>2. CASE Fault
  BY <1>1, <1>2 DEF Fault, Progress
<1>3. CASE port' = [port EXCEPT ![Head(todo)] = Free] /\ NoFault
  <2>1. Head(todo) \in Ports /\ ToSet(todo) = {Head(todo)} \cup ToSet(todo')
    BY <1>1, TodoMoves DEF PortTypeOK
  <2>2. \A p \in Ports : Own(p)' => Own(p) /\ p # Head(todo)
    BY <1>1, <1>3, <2>1, OnePortTypes, PortStateFacts DEF Own
  <2>3. call' = call
    BY <1>3 DEF NoFault
  <2>4. ASSUME ~call.disturbed, ~call.met
        PROVE  \A p \in Ports : Own(p)' => p \in ToSet(todo')
    BY <1>1, <2>1, <2>2, <2>4 DEF Progress
  <2>5. CASE todo' = <<>>
    <3>1. ASSUME ~call.disturbed, ~call.met PROVE AttachedSoFar'
      <4>1. \A p \in Ports : ~Own(p)'
        BY <2>4, <2>5, <3>1 DEF ToSet
      <4> QED BY <1>1, <4>1 DEF AttachedSoFar
    <3> QED BY <1>1, <2>3, <2>5, <3>1 DEF Progress
  <2>6. CASE todo' # <<>>
    BY <1>1, <2>3, <2>4, <2>6 DEF Progress
  <2> QED BY <2>5, <2>6
<1> QED BY <1>2, <1>3 DEF DetachPort

LEMMA AttachProgress ==
  ASSUME PortInv, AttachDevice
  PROVE  Progress'
<1>1. /\ pc = "detach" /\ todo = <<>> /\ todo' = <<>> /\ next \in 1..count /\ count' = count
      /\ PortTypeOK /\ Progress /\ count \in Nat
  BY DEF AttachDevice, PortInv, Progress, Calling, PortTypeOK
<1>2. CASE pc' = "failed"
  BY <1>2, CallEnds
<1>3. ASSUME NEW p \in Ports, port[p] = Free,
             port' = [port EXCEPT ![p] = [host |-> "own", device |-> next, live |-> TRUE]],
             next' = next + 1, pc' = "detach", call' = call
      PROVE  Progress'
  <2>1. ASSUME AttachedSoFar PROVE AttachedSoFar'
    <3>1. /\ port'[p].host = "own" /\ port'[p].device = next /\ port'[p].live
          /\ \A q \in Ports : q # p => port'[q] = port[q]
      BY <1>1, <1>3 DEF PortTypeOK
    <3>2. ~Own(p) /\ Own(p)' /\ \A q \in Ports : q # p => (Own(q)' <=> Own(q))
      BY <1>3, <3>1 DEF Own, Free
    <3>3. next' - 1 = next /\ next \in 1..next' - 1 /\ 1..next - 1 \subseteq 1..next' - 1
      BY <1>1, <1>3
    <3>4. \A q \in Ports : Own(q)' => port'[q].live /\ port'[q].device \in 1..next' - 1
      BY <2>1, <3>1, <3>2, <3>3 DEF AttachedSoFar
    <3>5. ASSUME NEW d \in 1..next' - 1 PROVE \E q \in Ports : Own(q)' /\ port'[q].device = d
      <4>1. CASE d = next
        BY <3>1, <3>2, <4>1
      <4>2. CASE d # next
        <5>1. d \in 1..next - 1
          BY <1>1, <3>3, <4>2
        <5>2. PICK q \in Ports : Own(q) /\ port[q].device = d
          BY <2>1, <5>1 DEF AttachedSoFar
        <5> QED BY <3>1, <3>2, <5>2
      <4> QED BY <4>1, <4>2
    <3>6. ASSUME NEW q \in Ports, Own(q)', NEW r \in Ports, Own(r)',
                 port'[q].device = port'[r].device
          PROVE  q = r
      <4>1. \A x \in Ports : x # p /\ Own(x) => port[x].device # next
        BY <1>1, <2>1 DEF AttachedSoFar
      <4>2. CASE q = p \/ r = p
        BY <3>1, <3>2, <3>6, <4>1, <4>2
      <4>3. CASE q # p /\ r # p
        BY <2>1, <3>1, <3>2, <3>6, <4>3 DEF AttachedSoFar
      <4> QED BY <4>2, <4>3
    <3> QED BY <3>4, <3>5, <3>6 DEF AttachedSoFar
  <2>2. next' \in 1..count + 1
    BY <1>1, <1>3
  <2>3. ~call.disturbed /\ ~call.met => AttachedSoFar
    BY <1>1 DEF Progress
  <2> QED BY <1>1, <1>3, <2>1, <2>2, <2>3 DEF Progress
<1> QED BY <1>2, <1>3 DEF AttachDevice, FreePorts, Goes, NoFault

LEMMA NextProgress == PortInv /\ SetupInv /\ [Next]_vars => Progress'
<1> SUFFICES ASSUME PortInv, SetupInv, [Next]_vars PROVE Progress'
  OBVIOUS
<1>0. /\ PortTypeOK /\ Progress /\ count \in Nat /\ next \in Nat
      /\ Free.host = "none"
  BY PortStateFacts DEF PortInv, PortTypeOK
<1>1. ASSUME NEW n, NEW fresh, Call(n, fresh) PROVE Progress'
  <2>1. pc' = "find" /\ count' = n /\ n \in 1..30 /\ next' = 1
    BY <1>1 DEF Call, Enter, MaxDevices
  <2>2. 1 \in 1..n + 1
    BY <2>1
  <2> QED BY <2>1, <2>2 DEF Progress
<1>2. CASE Ensure
  <2>1. pc \in Ensuring /\ pc' \in Ensuring \cup {"list", "unready"} /\ UNCHANGED portVars
    BY <1>2, EnsurePlaces DEF Ensure
  <2>2. next = 1 /\ next \in 1..count + 1
    BY <1>0, <2>1 DEF Progress, Calling, Ensuring
  <2> QED BY <2>1, <2>2, CallEnds DEF Progress, Ensuring, portVars
<1>3. CASE ListDevices
  <2>1. pc = "list" /\ pc' \in {"inspect", "failed"} /\ UNCHANGED portVars
    BY <1>3 DEF ListDevices, Goes
  <2>2. next = 1 /\ next \in 1..count + 1
    BY <1>0, <2>1 DEF Progress, Calling
  <2> QED BY <2>1, <2>2, CallEnds DEF Progress, portVars
<1>4. CASE InspectPorts \/ DetachPort \/ AttachDevice
  BY <1>4, InspectProgress, DetachProgress, AttachProgress
<1>5. CASE AllAttached
  <2>1. /\ pc = "detach" /\ pc' = "OK" /\ todo = <<>> /\ next > count /\ UNCHANGED portVars
        /\ call' = call
    BY <1>5 DEF AllAttached, Goes, NoFault
  <2>2. next = count + 1
    BY <1>0, <2>1 DEF Progress, Calling
  <2>3. ~call.disturbed /\ ~call.met => AttachedSoFar
    BY <1>0, <2>1 DEF Progress
  <2>4. AttachedSoFar => AttachedSoFar'
    BY <2>1 DEF portVars, AttachedSoFar, Own
  <2> QED BY <2>1, <2>2, <2>3, <2>4 DEF Progress, portVars, Calling, Ensuring
<1>6. ASSUME NEW n, RestartServer(n) PROVE Progress'
  <2>1. /\ pc' = pc /\ count' = count /\ next' = next /\ todo' = todo
        /\ call' = [call EXCEPT !.met = TRUE]
    BY <1>6 DEF RestartServer
  <2>2. call'.met
    BY <2>1 DEF SetupInv, SetupTypeOK
  <2> QED BY <1>0, <2>1, <2>2 DEF Progress
<1>7. ASSUME NEW p \in Ports, Vanishes(p) PROVE Progress'
  <2>1. /\ pc' = pc /\ count' = count /\ next' = next /\ todo' = todo /\ call' = call
        /\ port' = [port EXCEPT ![p] = Free] /\ Own(p) /\ ~port[p].live
    BY <1>7 DEF Vanishes, setupVars, Own
  <2>2. ~AttachedSoFar
    BY <2>1 DEF AttachedSoFar
  <2>3. \A q \in Ports : Own(q)' => Own(q)
    BY <1>0, <2>1, OnePortTypes, PortStateFacts DEF Own
  <2> QED BY <1>0, <2>1, <2>2, <2>3 DEF Progress
<1>8. ASSUME NEW p \in Ports, NEW host \in Others, OtherDetaches(p) \/ OtherAttaches(p, host)
      PROVE  Progress'
  <2>1. /\ pc' = pc /\ count' = count /\ next' = next /\ todo' = todo /\ call' = call
        /\ port[p].host # "own"
    BY <1>0, <1>8 DEF OtherDetaches, OtherAttaches, setupVars, FreePorts, Others
  <2>2. \E s \in PortStates : port' = [port EXCEPT ![p] = s] /\ s.host # "own"
    <3>1. CASE OtherDetaches(p)
      BY <1>0, <3>1, PortStateFacts DEF OtherDetaches
    <3>2. CASE OtherAttaches(p, host)
      <4>1. PICK s \in PortStates : s = [host |-> host, device |-> 1, live |-> TRUE]
        BY PortStateFacts DEF Others
      <4>2. s.host # "own" /\ port' = [port EXCEPT ![p] = s]
        BY <3>2, <4>1 DEF OtherAttaches, Others
      <4> QED BY <4>2
    <3> QED BY <1>8, <3>1, <3>2
  <2>3. port'[p].host # "own" /\ \A q \in Ports : q # p => port'[q] = port[q]
    BY <1>0, <2>2, OnePortTypes
  <2>4. \A q \in Ports : port'[q] = port[q] \/ (~Own(q) /\ ~Own(q)')
    <3>1. ~Own(p) /\ ~Own(p)'
      BY <2>1, <2>3 DEF Own
    <3> QED BY <2>3, <3>1
  <2> QED BY <2>1, <2>4, OwnStay
<1>9. CASE Restarts \/ Killed
  BY <1>9, CallEnds DEF Restarts, RestartWindows, Killed
<1>10. CASE (DriverStarts \/ OtherEditsPath) /\ UNCHANGED portVars
  <2>1. /\ pc' = pc /\ call' = call /\ count' = count /\ next' = next /\ todo' = todo
        /\ port' = port
    BY <1>10 DEF DriverStarts, OtherEditsPath, portVars
  <2> QED BY <2>1, OwnStay
<1>11. CASE UNCHANGED vars
  <2>1. /\ pc' = pc /\ call' = call /\ count' = count /\ next' = next /\ todo' = todo
        /\ port' = port
    BY <1>11 DEF vars, setupVars, portVars
  <2> QED BY <2>1, OwnStay
<1>12. CASE Environment
  BY <1>6, <1>7, <1>8, <1>9, <1>10, <1>12 DEF Environment, Others
<1> QED BY <1>1, <1>2, <1>3, <1>4, <1>5, <1>11, <1>12 DEF Next

LEMMA InitPorts == Init => PortInv
<1> SUFFICES ASSUME Init PROVE PortInv
  OBVIOUS
<1>1. /\ port = [p \in Ports |-> Free] /\ served \in Counts /\ count = 0 /\ next = 0
      /\ todo = <<>> /\ late = {} /\ pc = "idle"
  BY DEF Init, SetupInit
<1>2. PortTypeOK
  BY <1>1, PortStateFacts DEF PortTypeOK
<1>3. TodoIsOwnOrLate
  BY <1>1 DEF TodoIsOwnOrLate, ToSet
<1>4. Progress
  BY <1>1 DEF Progress, Calling, Ensuring
<1> QED BY <1>2, <1>3, <1>4 DEF PortInv

LEMMA NextPorts == PortInv /\ SetupInv /\ [Next]_vars => PortInv'
BY NextPortTypes, NextTodo, NextProgress DEF PortInv

\* A call that says OK, with no failure and no restart of the server during it, leaves each
\* of its devices at exactly one port, for any number of ports, whatever was attached before
\* it and whatever other programs attach and detach meanwhile.
THEOREM HelperAttachesOnce == Spec => []AttachedOnce
<1>1. PortInv => AttachedOnce
  <2> SUFFICES ASSUME PortInv, pc = "OK", ~call.disturbed, ~call.met, NEW d \in 1..count
               PROVE  Cardinality({p \in Ports : port[p].host = "own" /\ port[p].device = d}) = 1
    BY DEF AttachedOnce
  <2>1. AttachedSoFar /\ next = count + 1 /\ count \in Nat
    BY DEF PortInv, Progress, PortTypeOK
  <2>2. d \in 1..next - 1
    BY <2>1
  <2>3. PICK p \in Ports : Own(p) /\ port[p].device = d
    BY <2>1, <2>2 DEF AttachedSoFar
  <2>4. {q \in Ports : port[q].host = "own" /\ port[q].device = d} = {p}
    BY <2>1, <2>3 DEF AttachedSoFar, Own
  <2> QED BY <2>4, FS_Singleton
<1> QED BY <1>1, InitSetup, InitPorts, NextSetup, NextPorts, PTL DEF Spec

\* Another program's device is detached by a call only from a port that it came to after
\* the call had listed the ports, however the ports were numbered and listed.
THEOREM HelperLeavesOthers == Spec => OthersStayAttached
<1>1. ASSUME PortInv, [Next]_vars, NEW p \in Ports, todo' # todo, port[p].host \in Others,
             port'[p] = Free
      PROVE  p \in late
  <2>1. PortTypeOK /\ TodoIsOwnOrLate /\ Free.host = "none"
    BY <1>1, PortStateFacts DEF PortInv
  <2>2. port[p] # Free
    BY <1>1, <2>1 DEF Others
  <2>3. DetachPort \/ port' = port
    BY <1>1 DEF Next, Call, Ensure, ListDevices, InspectPorts, AttachDevice, AllAttached,
      Environment, RestartServer, Vanishes, OtherDetaches, OtherAttaches, Restarts, portVars,
      vars
  <2>4. CASE DetachPort
    <3>1. /\ Head(todo) \in Ports /\ Head(todo) \in ToSet(todo)
          /\ port' = port \/ port' = [port EXCEPT ![Head(todo)] = Free]
      BY <2>1, <2>4, TodoMoves DEF DetachPort, PortTypeOK
    <3>2. p = Head(todo)
      BY <1>1, <2>1, <2>2, <3>1, OnePortTypes, PortStateFacts
    <3> QED BY <1>1, <2>1, <3>1, <3>2 DEF TodoIsOwnOrLate
  <2> QED BY <1>1, <2>2, <2>3, <2>4
<1>2. PortInv /\ [Next]_vars =>
        [\A p \in Ports :
           todo' # todo /\ port[p].host \in Others /\ port'[p] = Free => p \in late]_vars
  BY <1>1
<1> QED BY <1>2, InitSetup, InitPorts, NextSetup, NextPorts, PTL DEF Spec, OthersStayAttached

=============================================================================
