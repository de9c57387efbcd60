----------------------------- MODULE Server_proofs -----------------------------
(***************************************************************************)
(* For any number of launches, connections and devices: connections leave  *)
(* the manager's promises alone, and no session hears what one that was    *)
(* over has left in the device they share.                                 *)
(***************************************************************************)
EXTENDS Server, TLAPS

\* Connections do nothing to the manager and its servers, so AppServer's theorems
\* hold with any clients (main.go:36-123 against server.go:78-119).
THEOREM ServerImplementsManager == ServerSpec => Init /\ [][Next]_vars
<1>1. InitServer => Init
  BY DEF InitServer
<1>2. [NextServer]_allVars => [Next]_vars
  BY DEF NextServer, allVars, Manager, Next, Restart
<1> QED BY <1>1, <1>2, PTL DEF ServerSpec

-----------------------------------------------------------------------------
Stages == {"none", "handshake", "replying", "session", "draining", "closed"}

ConnTypeOK ==
  /\ stage \in [Connections -> Stages]
  /\ imported \in [Connections -> Servers \X (BusIDs \cup {0}) \cup {NoDevice}]
  /\ DOMAIN ring = Servers \X BusIDs
  /\ over \in [Connections -> SUBSET Connections]
  /\ DOMAIN heard = Connections
  /\ storing \subseteq Connections

\* Whoever may still store has not been waited for, and whoever is over stays so;
\* a session has a device, and until there is one nothing was configured.
Waited ==
  /\ \A b \in storing : stage[b] \in {"session", "draining"}
  /\ \A c \in Connections : /\ \A b \in over[c] : stage[b] = "closed"
                            /\ stage[c] \in {"none", "handshake"} => over[c] = {}
                            /\ stage[c] # "none" => imported[c] \in Servers \X (BusIDs \cup {0})
                            /\ stage[c] \in {"session", "draining"}
                                 => imported[c] \in Servers \X BusIDs

\* The ring of the device that c has configured holds nothing of those over then.
RingClean ==
  \A c \in Connections :
    imported[c] \in Servers \X BusIDs => ToSet(ring[imported[c]]) \cap over[c] = {}

IInv == ConnTypeOK /\ Waited /\ RingClean /\ CleanStart

LEMMA Emptied == ToSet(<<>>) = {}
BY DEF ToSet

LEMMA Played == \A c : ToSet(<<c>>) = {c}
BY DEF ToSet

LEMMA InvInit == InitServer => IInv
BY Emptied DEF InitServer, IInv, ConnTypeOK, Stages, Waited, RingClean, CleanStart, NoDevice

-----------------------------------------------------------------------------
(* The course of a connection: rings and what was heard stay as they are.  *)

LEMMA InvHost ==
  ASSUME IInv, NEW c \in Connections,
         HangUp(c) \/ Garble(c) \/ Stall(c) \/ Resume(c) \/ Written(c) \/ Idle(c)
  PROVE  IInv'
<1>1. UNCHANGED <<stage, imported, open, ring, storing, over, heard>>
  BY DEF HangUp, Garble, Stall, Resume, Written, Idle, connVars, sharedVars
<1> QED BY <1>1 DEF IInv, ConnTypeOK, Waited, RingClean, CleanStart

LEMMA InvConnection ==
  ASSUME IInv, NEW c \in Connections,
         \/ \E i \in Servers : Accept(c, i)
         \/ \E d \in BusIDs : Import(c, d)
         \/ OtherRequest(c) \/ Replied(c)
         \/ HandshakeFails(c) \/ SessionEnds(c) \/ Drained(c)
  PROVE  IInv'
<1> USE DEF IInv, sharedVars
<1>1. /\ UNCHANGED sharedVars /\ stage[c] # "closed"
      /\ \E l \in Stages : stage' = [stage EXCEPT ![c] = l]
  BY DEF Accept, Import, OtherRequest, Replied, HandshakeFails, Expires, SessionEnds,
         Drained, Goto, ConnTypeOK, Stages
<1>2. imported' \in [Connections -> Servers \X (BusIDs \cup {0}) \cup {NoDevice}]
      /\ \A b \in Connections : imported'[b] = imported[b] \/ over[b] = {}
  BY DEF Accept, Import, OtherRequest, Replied, HandshakeFails, SessionEnds, Drained,
         Waited, ConnTypeOK, NoDevice
<1>3. ConnTypeOK'
  BY ZenonT(30), <1>1, <1>2 DEF ConnTypeOK, Stages
<1>4. RingClean' /\ CleanStart'
  BY <1>1, <1>2 DEF RingClean, CleanStart
<1>5. Waited'
  <2>1. \A b \in storing' : stage'[b] \in {"session", "draining"}
    BY <1>1 DEF Accept, Import, OtherRequest, Replied, HandshakeFails, Expires,
           SessionEnds, Drained, JobsDone, Goto, Waited, ConnTypeOK
  <2>2. ASSUME NEW b \in Connections
        PROVE  /\ \A a \in over'[b] : stage'[a] = "closed"
               /\ stage'[b] \in {"none", "handshake"} => over'[b] = {}
    BY <1>1 DEF Accept, Import, OtherRequest, Replied, HandshakeFails, Expires,
           SessionEnds, Drained, Goto, Waited, ConnTypeOK
  <2>3. ASSUME NEW b \in Connections
        PROVE  /\ stage'[b] # "none" => imported'[b] \in Servers \X (BusIDs \cup {0})
               /\ stage'[b] \in {"session", "draining"} => imported'[b] \in Servers \X BusIDs
    BY <1>1 DEF Accept, Import, OtherRequest, Replied, HandshakeFails, Expires,
           SessionEnds, Drained, Goto, Waited, ConnTypeOK, NoDevice
  <2> QED BY <2>1, <2>2, <2>3 DEF Waited
<1> QED BY <1>3, <1>4, <1>5

-----------------------------------------------------------------------------
(* What sessions do to the device they share.                              *)

LEMMA InvConfigure ==
  ASSUME IInv, NEW c \in Connections, Configure(c)
  PROVE  IInv'
<1> USE DEF IInv, connVars
<1> DEFINE x == imported[c]
<1>1. x \in Servers \X BusIDs /\ stage[c] = "session"
  BY DEF Configure, Serve, InSession, Waited
<1>2. /\ UNCHANGED <<stage, imported, storing>>
      /\ ring' = [ring EXCEPT ![x] = <<>>]
      /\ over' = [over EXCEPT ![c] = {b \in Connections : stage[b] = "closed"}]
      /\ heard' = [heard EXCEPT ![c] = {}]
  BY DEF Configure, RingAfter
<1>3. ConnTypeOK' /\ Waited'
  BY <1>1, <1>2 DEF ConnTypeOK, Waited
<1>4. RingClean'
  <2> SUFFICES ASSUME NEW b \in Connections, imported[b] \in Servers \X BusIDs
               PROVE  ToSet(ring'[imported[b]]) \cap over'[b] = {}
    BY <1>2 DEF RingClean
  <2>1. CASE imported[b] = x
    BY <1>1, <1>2, <2>1, Emptied DEF ConnTypeOK
  <2>2. CASE imported[b] # x
    BY <1>2, <2>2 DEF RingClean, ConnTypeOK
  <2> QED BY <2>1, <2>2
<1>5. CleanStart'
  BY <1>2 DEF CleanStart, ConnTypeOK
<1> QED BY <1>3, <1>4, <1>5

LEMMA InvCable ==
  ASSUME IInv, NEW c \in Connections, OpenCable(c) \/ CloseCable(c) \/ Play(c)
  PROVE  IInv'
<1> USE DEF IInv, connVars
<1>1. /\ UNCHANGED <<stage, imported, over, heard>>
      /\ storing' = storing \/ storing' = storing \cup {c}
      /\ ring' = ring \/ ring' = [ring EXCEPT ![imported[c]] = <<>>]
      /\ stage[c] = "session"
  BY DEF OpenCable, CloseCable, Play, Serve, InSession
<1>2. ConnTypeOK' /\ Waited' /\ CleanStart'
  BY <1>1 DEF ConnTypeOK, Waited, CleanStart
<1>3. RingClean'
  BY <1>1, Emptied DEF RingClean, ConnTypeOK
<1> QED BY <1>2, <1>3

LEMMA InvStore ==
  ASSUME IInv, NEW c \in Connections, Store(c)
  PROVE  IInv'
<1> USE DEF IInv, connVars
<1>1. /\ UNCHANGED <<stage, imported, over, heard>>
      /\ storing' = storing \ {c} /\ ring' = [ring EXCEPT ![imported[c]] = <<c>>]
      /\ stage[c] # "closed"
  BY DEF Store, Waited
<1>2. ConnTypeOK' /\ Waited' /\ CleanStart'
  BY <1>1 DEF ConnTypeOK, Waited, CleanStart
<1>3. \A b \in Connections : c \notin over[b]
  BY <1>1 DEF Waited
<1>4. RingClean'
  BY <1>1, <1>3, Played DEF RingClean, ConnTypeOK
<1> QED BY <1>2, <1>4

LEMMA InvRecord ==
  ASSUME IInv, NEW c \in Connections, Record(c)
  PROVE  IInv'
<1> USE DEF IInv, connVars
<1>1. /\ UNCHANGED <<stage, imported, over, storing>>
      /\ heard' = [heard EXCEPT ![c] = @ \cup ToSet(ring[imported[c]])]
      /\ ring' = [ring EXCEPT ![imported[c]] = <<>>]
      /\ imported[c] \in Servers \X BusIDs
  BY DEF Record, InSession, Waited
<1>2. ToSet(ring[imported[c]]) \cap over[c] = {}
  BY <1>1 DEF RingClean
<1> QED BY <1>1, <1>2, Emptied DEF ConnTypeOK, Waited, CleanStart, RingClean

LEMMA InvNext == IInv /\ [NextServer]_allVars => IInv'
<1> SUFFICES ASSUME IInv, [NextServer]_allVars PROVE IInv'
  OBVIOUS
<1>1. ASSUME NEW c \in Connections, Host(c) \/ ConnectionStep(c) PROVE IInv'
  BY <1>1, InvHost, InvConnection, InvConfigure, InvCable, InvStore, InvRecord
  DEF Host, ConnectionStep
<1>2. CASE UNCHANGED <<connVars, sharedVars>>
  BY <1>2 DEF connVars, sharedVars, IInv, ConnTypeOK, Waited, RingClean, CleanStart
<1> QED BY <1>1, <1>2 DEF NextServer, allVars

\* Whoever configures a device hears nothing of sessions that were over then, for
\* any number of servers, devices and connections that share them
\* (server.go:101-115, 311-316).
THEOREM ServerCleanStart == ServerSpec => []CleanStart
<1>1. IInv => CleanStart
  BY DEF IInv
<1> QED BY <1>1, InvInit, InvNext, PTL DEF ServerSpec
=============================================================================
