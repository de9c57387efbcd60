----------------------------- MODULE MCUrbSession -----------------------------
(***************************************************************************)
(* Hosts for UrbSession: the isochronous URBs of the cables and the        *)
(* control requests that open and close their interfaces.                  *)
(***************************************************************************)
EXTENDS UrbSession

Setup(request, value, index) ==
  [requestType |-> 1, request |-> request, value |-> value, index |-> index, length |-> 0]
NoSetup == Setup(0, 0, 0)

Out(ep, n) == [endpoint |-> ep, direction |-> DirectionOut, packets |-> n, setup |-> NoSetup]
In(ep, n)  == [endpoint |-> ep, direction |-> DirectionIn, packets |-> n, setup |-> NoSetup]
Select(i, alt) == [endpoint |-> 0, direction |-> DirectionOut, packets |-> 0,
                   setup |-> Setup(11, alt, i)]

\* One cable: playing, recording, opening and closing the playback interface.
OneCable == {Out(1, 1), In(1, 1), Select(1, 0), Select(1, 1)}

\* Two cables, a URB of an endpoint that does not exist and ones that are not
\* isochronous.
TwoCables == {Out(1, 1), In(2, 0), Out(2, 0), In(3, 1)}

Open(n) == [configuration |-> 1, altSetting |-> [i \in 0..2 * n |-> IF i = 0 THEN 0 ELSE 1]]

Host(urbs, reuse, cables, time) ==
  [urbs |-> urbs, reuse |-> reuse, opened |-> Open(cables), time |-> time]

\* Of a device of two cables one host uses the first only; the other host reuses
\* sequence numbers.
TwoHosts == {Host(OneCable, FALSE, 2, 2), Host(TwoCables, TRUE, 2, 1)}
OneHost  == {Host(OneCable, FALSE, 1, 1)}
Streamer == {Host({Out(1, 1), In(1, 1)}, FALSE, 1, 2)}
=============================================================================
