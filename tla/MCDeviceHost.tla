------------------------------ MODULE MCDeviceHost ------------------------------
(***************************************************************************)
(* Requests that the descriptors do not call for, sent to a two-cable      *)
(* device: for each kind the values at its limits, among them numbers of   *)
(* which only the low byte counts, and rates, which are not announced.     *)
(***************************************************************************)
EXTENDS DeviceHost

\* 257 and 258 are 1 and 2 in eight bits.
Odd ==
  {Ask(Setup(0, 9, v, 0, 0)) : v \in {0, 2, 257}}
  \cup {Ask(Setup(1, 11, 0, 258, 0)), Ask(Setup(1, 11, 2, 1, 0)), Ask(Setup(1, 11, 1, 9, 0)),
        Ask(Setup(1, 11, 1, 0, 0))}
  \cup {Send(Setup(34, 1, 256, 129, 3), b) : b \in {<<128, 187, 0>>, <<68, 172, 0>>, <<1>>}}
  \cup {Send(Setup(33, 1, 512, 512, 2), <<0, 255>>)}
  \cup {Ask(Setup(34, 1, 256, 3, 3)), Ask(Setup(161, 7, 256, 512, 1)),
        Ask(Setup(161, 129, 256, 768, 1)), Ask(Setup(162, 7, 256, 1, 3)),
        Ask(Setup(128, 6, 771 + 9, 0, 64))}

\* No definition tells one goroutine from another.
WorkerSymmetry == Permutations(Workers)
=============================================================================
