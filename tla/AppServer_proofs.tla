--------------------------- MODULE AppServer_proofs ---------------------------
(***************************************************************************)
(* What AppServer promises holds for any number of launches and any cable  *)
(* counts: no server is left running behind the manager's back, what the   *)
(* manager reports is served, and a restart finds the port free unless a   *)
(* timeout gave up on an earlier server.                                   *)
(***************************************************************************)
EXTENDS AppServer, FiniteSetTheorems, TLAPS

LEMMA ConstantsFit ==
  /\ Servers \subseteq Nat \ {0}
  /\ Counts \subseteq Nat \ {0}
  /\ \A n \in Servers : 1..n \subseteq Servers
<1>1. Cardinality(Servers) \in Nat
  BY ServerAssumption, FS_CardinalityType
<1>2. PICK k \in Nat : Servers = 1..k
  BY <1>1, ServerAssumption
<1> QED BY <1>2, ServerAssumption

\* What a server has done so far fits together.
ServersFit ==
  /\ \A i \in Servers : i > launched => serve[i] = "none" /\ result[i] = "none"
  /\ \A i \in 1..launched : serve[i] # "none"
  /\ \A i \in listening : serve[i] = "accepting"
  /\ \A i \in Servers : result[i] # "none" => serve[i] = "done"

\* A server that opened the port and is not cancelled listens still, or has left
\* the error its Accept returned.
OpenUnlessFailed ==
  \A i \in ready \ cancelled : i \in listening \/ result[i] = "error"

\* The manager's fields while a call waits, and between calls.
ManagerFits ==
  /\ manager = "starting" => /\ cur = 0 /\ launched # 0 /\ wanted \in Counts
                             /\ devices[launched] = wanted /\ launched \notin cancelled
  /\ manager = "stopping" => cur \in cancelled /\ (wanted # 0 => New \in Servers)
  /\ lastError # "none" => cur = 0
  /\ cur # 0 => devices[cur] = count /\ cur \in ready
  /\ manager = "idle" => cur \notin cancelled

\* A server that has not returned is the manager's, or a timeout gave up on it.
ReturnedOrOwned ==
  \A i \in 1..launched : serve[i] # "done" /\ i \notin overdue =>
    i = cur \/ (manager = "starting" /\ i = launched)

IInv == TypeOK /\ ServersFit /\ OpenUnlessFailed /\ ManagerFits /\ ReturnedOrOwned /\ NoOrphan

LEMMA InvInit == Init => IInv
<1> SUFFICES ASSUME Init PROVE IInv
  OBVIOUS
<1> USE ConstantsFit DEF Init
<1>1. TypeOK
  BY DEF TypeOK
<1>2. ServersFit /\ OpenUnlessFailed
  BY DEF ServersFit, OpenUnlessFailed
<1>3. ManagerFits
  BY DEF ManagerFits
<1>4. ReturnedOrOwned /\ NoOrphan
  BY DEF ReturnedOrOwned, NoOrphan
<1> QED BY <1>1, <1>2, <1>3, <1>4 DEF IInv

-----------------------------------------------------------------------------
(* Serve. *)

LEMMA InvListen ==
  ASSUME IInv, NEW i \in Servers, Listen(i)
  PROVE  IInv'
<1> USE DEF IInv
<1>1. i \in 1..launched
  BY ConstantsFit DEF Listen, ServersFit, TypeOK
<1>2. TypeOK'
  BY <1>1 DEF Listen, TypeOK, managerVars
<1>3. 1..launched \subseteq Servers /\ launched' = launched
  BY ConstantsFit DEF Listen, TypeOK, managerVars
<1>4. ServersFit'
  BY <1>1, <1>3, ConstantsFit DEF Listen, ServersFit, TypeOK
<1>5. ReturnedOrOwned' /\ NoOrphan'
  BY <1>1, <1>3, ConstantsFit DEF Listen, ReturnedOrOwned, NoOrphan, TypeOK, managerVars
<1>6. OpenUnlessFailed'
  BY <1>1, <1>3 DEF Listen, OpenUnlessFailed, ServersFit, TypeOK, managerVars
<1>7. ManagerFits'
  BY <1>1, <1>3 DEF Listen, ManagerFits, managerVars, New
<1> QED BY <1>2, <1>4, <1>5, <1>6, <1>7

LEMMA InvCloseListener ==
  ASSUME IInv, NEW i \in Servers, CloseListener(i)
  PROVE  IInv'
BY DEF CloseListener, Closed, IInv, TypeOK, ServersFit, OpenUnlessFailed, ManagerFits,
     ReturnedOrOwned, NoOrphan, managerVars, New

LEMMA InvAcceptFails ==
  ASSUME IInv, NEW i \in Servers, AcceptFails(i)
  PROVE  IInv'
<1> USE DEF IInv
<1>1. TypeOK' /\ ServersFit'
  BY DEF AcceptFails, TypeOK, ServersFit, managerVars
<1>2. OpenUnlessFailed'
  BY DEF AcceptFails, OpenUnlessFailed, ServersFit, TypeOK, managerVars
<1>3. ManagerFits' /\ ReturnedOrOwned' /\ NoOrphan'
  BY DEF AcceptFails, ManagerFits, ReturnedOrOwned, NoOrphan, TypeOK, managerVars, New
<1> QED BY <1>1, <1>2, <1>3

-----------------------------------------------------------------------------
(* The calls of the window's thread. *)

\* After stopLocked, whichever way it went: Restart launches, Stop returns.
LEMMA InvGoesOn ==
  ASSUME IInv, NEW n \in Counts \cup {0}, n # 0 => New \in Servers,
         manager # "starting", GoOn(n), wanted' = n, cur' = 0,
         UNCHANGED <<count, lastError, cancelled, ready, listening>>,
         cur # 0 => cur \in cancelled /\ (serve[cur] = "done" \/ cur \in overdue'),
         overdue \subseteq overdue', overdue' \subseteq 1..launched,
         result' = result \/ (cur # 0 /\ result' = [result EXCEPT ![cur] = "none"])
  PROVE  IInv'
<1> USE DEF IInv
<1>1. launched \in Nat /\ 1..launched \subseteq Servers /\ cur \in 0..launched
  BY ConstantsFit DEF TypeOK
<1>2. \A i \in 1..launched : serve[i] # "done" /\ i \notin overdue' => FALSE
  BY <1>1 DEF ReturnedOrOwned
<1>3. \A i \in 1..launched : i \in cancelled
  BY <1>1 DEF NoOrphan
<1>4. result' \in [Servers -> {"none", "nil", "error"}]
      /\ \A i \in Servers : result'[i] # "none" => result[i] = result'[i]
  BY <1>1 DEF TypeOK
<1> DEFINE Sets == ready \cup cancelled \cup listening \cup overdue
<1>5. Sets' \subseteq 1..launched
  BY DEF TypeOK
<1>6. CASE n = 0
  <2>1. UNCHANGED <<launched, devices, serve>> /\ manager' = "idle"
    BY <1>6 DEF GoOn
  <2>2. TypeOK'
    <3>1. Sets' \subseteq 1..launched'
      BY <1>5, <2>1
    <3> QED BY <1>1, <1>4, <2>1, <3>1, ConstantsFit DEF TypeOK
  <2>3. ServersFit' /\ OpenUnlessFailed'
    BY <1>1, <1>3, <1>4, <2>1, ConstantsFit DEF ServersFit, OpenUnlessFailed, TypeOK
  <2>4. ManagerFits'
    BY <2>1, ConstantsFit DEF ManagerFits, TypeOK
  <2>5. ReturnedOrOwned' /\ NoOrphan'
    BY <1>2, <1>3, <2>1 DEF ReturnedOrOwned, NoOrphan
  <2> QED BY <2>2, <2>3, <2>4, <2>5
<1>7. CASE n # 0
  <2>1. /\ manager' = "starting" /\ launched' = launched + 1 /\ launched + 1 \in Servers
        /\ devices' = [devices EXCEPT ![launched + 1] = n]
        /\ serve' = [serve EXCEPT ![launched + 1] = "opening"]
    BY <1>7 DEF GoOn, Launch, New
  <2>2. TypeOK'
    <3>1. Sets' \subseteq 1..launched'
      BY <1>1, <1>5, <2>1
    <3> HIDE DEF Sets
    <3>2. serve' \in [Servers -> {"none", "opening", "accepting", "done"}]
          /\ devices' \in [Servers -> Counts \cup {0}]
      BY <1>7, <2>1 DEF TypeOK
    <3>3. manager' = "starting" /\ wanted' \in Counts \cup {0} /\ count' \in Counts
          /\ lastError' \in {"none", "error"} /\ cur' \in 0..launched' /\ launched' \in Servers
      BY <1>1, <2>1, ConstantsFit DEF TypeOK
    <3> QED BY <1>4, <3>1, <3>2, <3>3 DEF TypeOK, Sets
  <2>3. ServersFit'
    BY <1>1, <1>4, <2>1, ConstantsFit DEF ServersFit, TypeOK
  <2>4. OpenUnlessFailed'
    BY <1>1, <1>3 DEF OpenUnlessFailed, TypeOK
  <2>5. launched + 1 \notin cancelled
    BY <1>1 DEF TypeOK
  <2>6. ManagerFits'
    BY <1>1, <1>7, <2>1, <2>5 DEF ManagerFits, TypeOK
  <2>7. ReturnedOrOwned' /\ NoOrphan'
    BY <1>1, <1>2, <1>3, <2>1 DEF ReturnedOrOwned, NoOrphan, TypeOK
  <2> QED BY <2>2, <2>3, <2>4, <2>6, <2>7
<1> QED BY <1>6, <1>7

LEMMA InvCall ==
  ASSUME IInv, NEW n \in Counts \cup {0}, n # 0 => New \in Servers, Call(n)
  PROVE  IInv'
<1> USE DEF IInv
<1>1. CASE cur = 0
  BY <1>1, InvGoesOn DEF Call, TypeOK
<1>2. CASE cur # 0
  <2>1. /\ manager = "idle" /\ manager' = "stopping" /\ wanted' = n
        /\ cancelled' = cancelled \cup {cur} /\ cur \in 1..launched
    BY <1>2, ConstantsFit DEF Call, TypeOK
  <2>2. UNCHANGED <<launched, devices, serve, cur, count, lastError, overdue, ready, result,
                    listening>>
    BY <1>2 DEF Call
  <2>3. TypeOK' /\ ServersFit' /\ OpenUnlessFailed'
    BY <2>1, <2>2 DEF TypeOK, ServersFit, OpenUnlessFailed
  <2>4. ManagerFits'
    BY <2>1, <2>2 DEF ManagerFits, New
  <2>5. ReturnedOrOwned' /\ NoOrphan'
    BY <2>1, <2>2 DEF ReturnedOrOwned, NoOrphan
  <2> QED BY <2>3, <2>4, <2>5
<1> QED BY <1>1, <1>2

LEMMA InvStopped ==
  ASSUME IInv, Stopped \/ StopTimesOut
  PROVE  IInv'
<1> USE DEF IInv
<1>1. /\ cur \in cancelled /\ cur \in 1..launched /\ 1..launched \subseteq Servers
      /\ wanted \in Counts \cup {0} /\ (wanted # 0 => New \in Servers)
  BY ConstantsFit DEF Stopped, StopTimesOut, TypeOK, ManagerFits
<1>2. cur # 0
  BY <1>1, ConstantsFit
<1>3. CASE Stopped
  <2>1. serve[cur] = "done"
    BY <1>1, <1>3 DEF Stopped, Returned, ServersFit
  <2> QED BY <1>1, <1>2, <1>3, <2>1, InvGoesOn DEF Stopped, TypeOK
<1>4. CASE StopTimesOut
  BY <1>1, <1>2, <1>4, InvGoesOn DEF StopTimesOut, TypeOK
<1> QED BY <1>3, <1>4

LEMMA InvStartEnds ==
  ASSUME IInv, Started \/ StartFails \/ StartTimesOut
  PROVE  IInv'
<1> USE DEF IInv
<1>1. /\ manager = "starting" /\ manager' = "idle" /\ cur = 0
      /\ launched \in 1..launched /\ launched \in Servers
      /\ wanted \in Counts /\ devices[launched] = wanted /\ launched \notin cancelled
      /\ UNCHANGED <<wanted, launched, devices, serve, ready, listening>>
  BY ConstantsFit DEF Started, StartFails, StartTimesOut, ManagerFits, TypeOK, serverVars
<1>2. CASE Started
  <2>1. TypeOK' /\ ServersFit' /\ OpenUnlessFailed'
    BY <1>1, <1>2 DEF Started, TypeOK, ServersFit, OpenUnlessFailed, serverVars
  <2>2. ManagerFits'
    BY <1>1, <1>2 DEF Started, Opened, ManagerFits
  <2>3. ReturnedOrOwned' /\ NoOrphan'
    BY <1>1, <1>2 DEF Started, ReturnedOrOwned, NoOrphan
  <2> QED BY <2>1, <2>2, <2>3
<1>3. CASE StartFails \/ StartTimesOut
  <2>1. /\ cancelled' = cancelled \cup {launched} /\ UNCHANGED <<cur, count>>
        /\ lastError' = "error"
        /\ serve[launched] = "done" \/ launched \in overdue'
        /\ overdue \subseteq overdue' /\ overdue' \subseteq 1..launched
        /\ result' = result \/ result' = [result EXCEPT ![launched] = "none"]
    BY <1>1, <1>3 DEF StartFails, StartTimesOut, CancelLaunched, ServersFit, TypeOK, serverVars
  <2>2. result' \in [Servers -> {"none", "nil", "error"}]
        /\ \A i \in Servers : (result'[i] # "none" => result[i] = result'[i])
                              /\ (i # launched => result[i] = result'[i])
    BY <1>1, <2>1 DEF TypeOK
  <2>3. (ready \cup cancelled \cup listening \cup overdue)' \subseteq 1..launched
    BY <1>1, <2>1 DEF TypeOK
  <2>4. TypeOK'
    BY <1>1, <2>1, <2>2, <2>3 DEF TypeOK
  <2>5. ServersFit'
    BY <1>1, <2>2 DEF ServersFit
  <2>6. OpenUnlessFailed'
    <3>1. ready \subseteq Servers
      BY ConstantsFit DEF TypeOK
    <3> QED BY <1>1, <2>1, <2>2, <3>1 DEF OpenUnlessFailed
  <2>7. ManagerFits'
    <3>1. 0 \notin cancelled'
      BY <1>1, <2>3
    <3> QED BY <1>1, <2>1, <3>1 DEF ManagerFits
  <2>8. ReturnedOrOwned' /\ NoOrphan'
    BY <1>1, <2>1 DEF ReturnedOrOwned, NoOrphan
  <2> QED BY <2>4, <2>5, <2>6, <2>7, <2>8
<1> QED BY <1>2, <1>3

LEMMA InvNext == IInv /\ [Next]_vars => IInv'
<1> SUFFICES ASSUME IInv, [Next]_vars PROVE IInv'
  OBVIOUS
<1>1. ASSUME NEW n \in Counts, Restart(n) PROVE IInv'
  BY <1>1, InvCall DEF Restart
<1>2. CASE Stop
  BY <1>2, InvCall DEF Stop
<1>3. CASE ManagerStep
  BY <1>3, InvStopped, InvStartEnds DEF ManagerStep
<1>4. ASSUME NEW i \in Servers, ServeStep(i) \/ AcceptFails(i) PROVE IInv'
  BY <1>4, InvListen, InvCloseListener, InvAcceptFails DEF ServeStep
<1>5. CASE UNCHANGED vars
  BY <1>5 DEF vars, managerVars, serverVars, IInv, TypeOK, ServersFit, OpenUnlessFailed,
       ManagerFits, ReturnedOrOwned, NoOrphan, New
<1> QED BY <1>1, <1>2, <1>3, <1>4, <1>5 DEF Next, Proceed

LEMMA Invariant == Spec => []IInv
BY InvInit, InvNext, PTL DEF Spec

\* Type correctness, for any number of launches and any counts.
THEOREM ServerTypeOK == Spec => []TypeOK
BY Invariant, PTL DEF IInv

\* Whatever Restart and Stop have met, timeouts, failures to listen and accept
\* errors, every server but the manager's own is cancelled (main.go:40, 61, 68).
THEOREM ServerNoOrphan == Spec => []NoOrphan
BY Invariant, PTL DEF IInv

\* Between two calls the window's list is right: a server that runs has s.count
\* cables, and an error means there is none (main.go:53-71).
THEOREM ServerReportedIsServed == Spec => []ReportedIsServed
<1>1. IInv => ReportedIsServed
  BY ConstantsFit DEF IInv, ReportedIsServed, ManagerFits, OpenUnlessFailed, TypeOK
<1> QED BY <1>1, Invariant, PTL

\* A restart finds the port free of earlier listeners, unless one of the two
\* timeouts gave up on its server (main.go:109-120).
THEOREM ServerPortHandedOver == Spec => []PortHandedOver
<1>1. IInv => PortHandedOver
  BY ConstantsFit DEF IInv, PortHandedOver, ManagerFits, ReturnedOrOwned, ServersFit, TypeOK
<1> QED BY <1>1, Invariant, PTL
=============================================================================
