------------------------------ MODULE CableLayout ------------------------------
(***************************************************************************)
(* How the logical cables 1..n are spread over USB devices: makeDevices    *)
(* and physicalDeviceCount (main.go), NewDevice (device.go), the limits of *)
(* NewDescriptors (descriptors.go), and what the window's list says of it  *)
(* (refreshList, gui_windows.go).                                          *)
(***************************************************************************)
EXTENDS Integers

MaxCables == 120
MaxDevices == 30
MaxCablesPerUSBDevice == 4

PhysicalDeviceCount(n) == (n + MaxCablesPerUSBDevice - 1) \div MaxCablesPerUSBDevice

\* The first cable of device d, and how many of the n cables it gets.
FirstCable(d) == 1 + (d - 1) * MaxCablesPerUSBDevice

CableCount(n, d) ==
  LET left == n - FirstCable(d) + 1
  IN IF left > MaxCablesPerUSBDevice THEN MaxCablesPerUSBDevice ELSE left

\* The devices the loop of makeDevices makes; it goes on while a cable is left.
DeviceNumbers(n) == {d \in 1..n : FirstCable(d) <= n}

\* What NewDescriptors takes; otherwise makeDevices fails as a whole.
Describable(d, first, cables) ==
  /\ d \in 1..MaxDevices /\ first \in 1..MaxCables
  /\ cables \in 1..MaxCablesPerUSBDevice /\ first + cables - 1 <= MaxCables

\* The number of the cable behind endpoint e of device d.
CableNumber(d, e) == FirstCable(d) + e - 1

\* The list's row of cable i.
Row(i) == [device |-> (i - 1) \div MaxCablesPerUSBDevice + 1,
           endpoint |-> ((i - 1) % MaxCablesPerUSBDevice) + 1]
=============================================================================
