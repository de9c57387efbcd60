------------------------------ MODULE DriverSetup ------------------------------
(***************************************************************************)
(* How the elevated helper comes to a working usbip.exe: ensureUSBIPDriver *)
(* and what it calls (attach_windows.go), on a machine that earlier calls  *)
(* may have left half installed.                                           *)
(***************************************************************************)
EXTENDS Integers, FiniteSets, SequencesExt

CONSTANTS Machines,       \* the machines to begin with
          MaxControllers, \* bound: the host controllers counted
          MaxFaults,      \* bound: how often something fails
          MaxCalls        \* bound: calls of runAttachHelper

\* usbipRuntimeFiles in the order of copying: usbip.exe, then what it needs and devnode.exe.
RuntimeFiles == <<"usbip", "rest">>

\* The program folder's files, another product's usbip.exe, the bundled package, the filter
\* driver, the root devices of the controller, whether it runs, whether Windows has to be
\* restarted for it, and the machine PATH.
MachineStates ==
  [file : [ToSet(RuntimeFiles) -> {"none", "broken", "good"}],
   foreign : {"none", "broken", "works"}, package : BOOLEAN,
   filter : BOOLEAN, controllers : Nat, started : BOOLEAN, restart : BOOLEAN,
   path : Seq([folder : {"own", "foreign", "other"}, spelling : Nat])]

\* A folder with a usbip.exe is on the PATH once.
ListedOnce(p) ==
  \A i, j \in DOMAIN p :
    p[i].folder = p[j].folder /\ p[i].folder \in {"own", "foreign"} => i = j

ASSUME SetupAssumption ==
  /\ MaxControllers \in Nat \ {0} /\ {MaxFaults, MaxCalls} \subseteq Nat
  /\ \A m \in Machines : m \in MachineStates /\ ListedOnce(m.path)

VARIABLES
  machine,  \* the program folder, the bundled package, the driver, the machine PATH
  search,   \* the folders on the PATH of the helper's own process
  pc,       \* where the call is; "idle" when there is none
  exe,      \* the folder of its usbip.exe
  copied,   \* how many runtime files it copied
  queried,  \* the machine PATH as it read it
  call,     \* the call's history: see Fresh
  faults,   \* how often something failed
  calls     \* how many calls there were

setupVars == <<machine, search, pc, exe, copied, queried, call, faults, calls>>

Folders(p) == [i \in DOMAIN p |-> p[i].folder]

\* A call: did anything fail in it, did it meet a restart of the server, did it add a
\* controller, and did the driver and the installed tools work before it.
Fresh == [disturbed |-> FALSE, met |-> FALSE, added |-> FALSE,
          worked |-> machine.started /\ \A f \in ToSet(RuntimeFiles) : machine.file[f] = "good"]

HasTool(d) == \/ d = "own" /\ machine.file["usbip"] # "none"
              \/ d = "foreign" /\ machine.foreign # "none"

\* The PATH first, then the folders known, its own first.
FindUSBIPExecutable ==
  LET found == SelectSeq(search \o <<"own", "foreign">>, HasTool)
  IN IF found = <<>> THEN "none" ELSE Head(found)

\* `usbip port` of folder d's usbip.exe succeeds.
Ready(d) ==
  /\ machine.started
  /\ \/ d = "own" /\ \A f \in ToSet(RuntimeFiles) : machine.file[f] = "good"
     \/ d = "foreign" /\ machine.foreign = "works"

SetupInit ==
  /\ machine \in Machines
  /\ search = Folders(machine.path)
  /\ pc = "idle" /\ exe = "none" /\ copied = 0 /\ queried = <<>>
  /\ call = Fresh /\ faults = 0 /\ calls = 0

Over == {"idle", "OK", "failed", "unready"}

Goes(place) == pc' = place /\ UNCHANGED <<search, calls>>

Fault == /\ faults < MaxFaults /\ faults' = faults + 1
         /\ call' = [call EXCEPT !.disturbed = TRUE]

NoFault == UNCHANGED <<faults, call>>

callUnchanged == UNCHANGED <<exe, copied, queried>>

\* What ensureUSBIPDriver knew is forgotten; whose usbip.exe it found does not matter.
callOver == exe' = "none" /\ copied' = 0 /\ queried' = <<>>

\* ensureUSBIPDriver is entered, by a new process or by one that served calls before.
Enter(fresh) ==
  /\ pc \in Over /\ calls < MaxCalls
  /\ search' = IF fresh THEN Folders(machine.path) ELSE search
  /\ pc' = "find" /\ call' = Fresh /\ calls' = calls + 1
  /\ copied' = 0 /\ queried' = <<>> /\ exe' = "none"
  /\ UNCHANGED <<machine, faults>>

\* A tool that is found and works is taken; otherwise the package is looked for.
Find ==
  LET found == FindUSBIPExecutable
  IN /\ pc = "find"
     /\ \/ Ready(found) /\ exe' = found /\ Goes("path") /\ NoFault
        \/ ~Ready(found) /\ exe' = "none" /\ Goes("package") /\ NoFault
        \/ found # "none" /\ exe' = "none" /\ Goes("package") /\ Fault
     /\ UNCHANGED <<machine, copied, queried>>

BundledDriverPackage ==
  /\ pc = "package" /\ Goes(IF machine.package THEN "copy" ELSE "unready")
  /\ callUnchanged /\ NoFault /\ UNCHANGED machine

MutantInstalled(f) == [machine EXCEPT !.file[f] = IF @ = "none" THEN "good" ELSE @]

\* os.WriteFile of a whole runtime file over what is there.
Installed(f) == [machine EXCEPT !.file[f] = "good"]

\* copyBundledUSBIPRuntime, file by file.
CopyFile ==
  /\ pc = "copy" /\ copied < Len(RuntimeFiles)
  /\ machine' = Installed(RuntimeFiles[copied + 1]) /\ copied' = copied + 1
  /\ Goes("copy") /\ NoFault /\ UNCHANGED <<exe, queried>>

\* A file that is not written as a whole has been emptied before, or not.
Torn == {machine} \cup
  IF pc = "copy" /\ copied < Len(RuntimeFiles)
  THEN {[machine EXCEPT !.file[RuntimeFiles[copied + 1]] = "broken"]} ELSE {}

CopyFails ==
  /\ pc = "copy" /\ copied < Len(RuntimeFiles)
  /\ machine' \in Torn
  /\ Goes("unready") /\ Fault /\ callUnchanged

\* pnputil installs the filter driver, or finds it present (259).
InstallFilter ==
  /\ pc = "copy" /\ copied = Len(RuntimeFiles)
  /\ \/ machine' = [machine EXCEPT !.filter = TRUE] /\ Goes("ready") /\ NoFault
     \/ Goes("unready") /\ Fault /\ UNCHANGED machine
  /\ exe' = "own" /\ UNCHANGED <<copied, queried>>

\* The controller may have worked all along, or work with the filter there.
AlreadyOperational ==
  /\ pc = "ready"
  /\ \/ Goes(IF Ready("own") THEN "path" ELSE "devnode") /\ NoFault
     \/ Goes("devnode") /\ Fault
  /\ callUnchanged /\ UNCHANGED machine

\* devnode adds a root device, whether one is there already or not; Windows starts it
\* now or when it is restarted.
InstallController ==
  /\ pc = "devnode"
  /\ \/ /\ \E restart \in BOOLEAN :
             machine' = [machine EXCEPT !.controllers = IF @ < MaxControllers THEN @ + 1 ELSE @,
                                        !.restart = restart \/ (@ /\ ~machine.started)]
        /\ Goes("path") /\ UNCHANGED faults
        /\ call' = [call EXCEPT !.added = TRUE]
     \/ Goes("unready") /\ Fault /\ UNCHANGED machine
  /\ callUnchanged

\* ensureMachinePath reads the value, and later writes what it made of it; no failure
\* of it matters to the call.
QueryPath ==
  /\ pc = "path"
  /\ \/ Goes("setpath") /\ queried' = machine.path /\ NoFault
     \/ Goes("poll") /\ Fault /\ UNCHANGED queried
  /\ UNCHANGED <<machine, exe, copied>>

MutantIsDirectory(entry, d) == entry = [folder |-> d, spelling |-> 1]

\* Entries are compared cleaned, without quotes and regardless of case.
IsDirectory(entry, d) == entry.folder = d

PathContainsDirectory(p, d) == \E i \in DOMAIN p : IsDirectory(p[i], d)

\* In front of the PATH of the process: what else was said of d there is of no use.
InFront(d) == <<d>> \o SelectSeq(search, LAMBDA x : x # d)

SetPath ==
  /\ pc = "setpath" /\ pc' = "poll"
  /\ \/ /\ PathContainsDirectory(queried, exe)
        /\ search' = InFront(exe) /\ NoFault /\ UNCHANGED machine
     \/ /\ ~PathContainsDirectory(queried, exe)
        /\ machine' = [machine EXCEPT !.path = Append(queried, [folder |-> exe, spelling |-> 1])]
        /\ search' = InFront(exe) /\ NoFault
     \/ Fault /\ UNCHANGED <<machine, search>>
  /\ callUnchanged /\ UNCHANGED calls

\* Nothing was installed, or it works by now; twenty attempts are made.
EnsuredDriver ==
  /\ pc = "poll" /\ (copied = 0 \/ Ready(exe))
  /\ Goes("list") /\ NoFault /\ callOver /\ UNCHANGED machine

\* Windows is about to start the driver, which takes less than ten seconds as a rule.
Starting == machine.filter /\ machine.controllers > 0 /\ ~machine.started /\ ~machine.restart

NotReady ==
  /\ pc = "poll" /\ copied > 0
  /\ \/ ~Ready(exe) /\ ~Starting /\ NoFault
     \/ Fault
  /\ Goes("unready") /\ callOver /\ UNCHANGED machine

EnsureUSBIPDriver ==
  \/ Find \/ BundledDriverPackage \/ CopyFile \/ CopyFails \/ InstallFilter
  \/ AlreadyOperational \/ InstallController \/ QueryPath \/ SetPath \/ EnsuredDriver \/ NotReady

-----------------------------------------------------------------------------
(* Windows and other programs, at any time. *)

DriverStarts ==
  /\ Starting
  /\ machine' = [machine EXCEPT !.started = TRUE]
  /\ UNCHANGED <<search, pc, exe, copied, queried, call, faults, calls>>

\* Another installer adds its folder, once.
OtherEditsPath ==
  /\ "other" \notin ToSet(Folders(machine.path))
  /\ machine' = [machine EXCEPT !.path = Append(@, [folder |-> "other", spelling |-> 1])]
  /\ UNCHANGED <<search, pc, exe, copied, queried, call, faults, calls>>

\* The helper is killed, in the middle of a file or not.
Killed ==
  /\ pc \notin Over /\ faults < MaxFaults /\ faults' = faults + 1
  /\ machine' \in Torn /\ pc' = "idle" /\ callOver
  /\ UNCHANGED <<search, call, calls>>

RestartWindows ==
  /\ pc \in Over /\ machine.restart
  /\ machine' = [machine EXCEPT !.restart = FALSE, !.started = @ \/ machine.filter]
  /\ search' = Folders(machine.path)
  /\ pc' = "idle" /\ UNCHANGED <<exe, copied, queried, call, faults, calls>>

-----------------------------------------------------------------------------
\* What the installation may claim and may cost.  When nothing fails during a call, it
\* fails only without a package or when Windows has to be restarted, whatever earlier
\* calls left half done; and no second controller is added to a driver that worked, even
\* when another product's broken usbip.exe is found first (attach_windows.go:175-235).
SetupExplained ==
  /\ pc = "unready" /\ ~call.disturbed => ~machine.package \/ machine.restart
  /\ call.added => call.disturbed \/ ~call.worked

\* Other programs' entries of the machine PATH survive, unless they were added while it
\* was being edited, and no folder is added that is on it, however it is spelled there
\* (attach_windows.go:246-275).
PathKept ==
  [][/\ ToSet(machine.path) \cap ToSet(queried) \subseteq ToSet(machine'.path)
     /\ \A d \in {"own", "foreign"} :
          Cardinality({i \in DOMAIN machine'.path : machine'.path[i].folder = d}) <= 1]_machine
=============================================================================
