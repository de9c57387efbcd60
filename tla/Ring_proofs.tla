------------------------------ MODULE Ring_proofs ------------------------------
(***************************************************************************)
(* Proofs about Ring for every capacity, set of goroutines and bound.      *)
(* The three invariants of Ring are inductive with LockHeld: a Write may   *)
(* only trust the slots because it holds the lock, and what a read has     *)
(* gathered is described relative to the samples still stored              *)
(* (ReadIsContiguous), which KeepsNewest names.                            *)
(***************************************************************************)
EXTENDS Ring, TLAPS

\* A goroutine is inside an operation exactly while it holds r.mu, a Write under
\* way still has to store exactly the samples up to `written`, and a read never
\* fills more than the block it was given.
LockHeld ==
  /\ \A t \in Threads : pc[t] # "idle" <=> mu = t
  /\ \A t \in Threads :
       /\ pc[t] = "write" => next[t] + todo[t] = written + 1
       /\ pc[t] = "read" => Len(out[t]) + todo[t] <= MaxRequest
       /\ pc[t] # "read" => out[t] = <<>> /\ taken[t] = 0

IInv == TypeOK /\ LockHeld /\ KeepsNewest /\ ReadIsContiguous

\* The capacity NewRing settles on is positive whatever it is asked for.
LEMMA CapPositive == Cap \in Nat /\ Cap > 0
  BY RingAssumption DEF Cap

\* Index arithmetic of the ring: one subtraction undoes the wrap.
LEMMA ModWrap ==
  ASSUME NEW C \in Nat, C > 0, NEW x \in 0..2 * C - 1
  PROVE  x % C = IF x < C THEN x ELSE x - C
  BY SMT

LEMMA SuccWraps ==
  ASSUME NEW i \in Slots
  PROVE  /\ Succ(i) = IF i + 1 = Cap THEN 0 ELSE i + 1
         /\ Succ(i) \in Slots
<1> DEFINE C == Cap
<1>1. C \in Nat /\ C > 0 /\ i \in Int /\ i + 1 \in 0..2 * C - 1
  BY CapPositive DEF Slots
<1> HIDE DEF C
<1>2. (i + 1) % C = IF i + 1 < C THEN i + 1 ELSE i + 1 - C
  BY <1>1, ModWrap
<1> QED
  BY <1>1, <1>2 DEF Slots, Succ, C

\* Slot in terms of comparison and subtraction, in one state and in the next.
LEMMA SlotWraps ==
  ASSUME NEW r \in Slots, NEW i \in 0..Cap
  PROVE  (r + i) % Cap = IF r + i < Cap THEN r + i ELSE r + i - Cap
<1> DEFINE C == Cap
<1>1. C \in Nat /\ C > 0 /\ r \in Int /\ i \in Int /\ r + i \in 0..2 * C - 1
  BY CapPositive DEF Slots
<1> HIDE DEF C
<1>2. (r + i) % C = IF r + i < C THEN r + i ELSE r + i - C
  BY <1>1, ModWrap
<1> QED
  BY <1>2 DEF C

\* The initial state satisfies the invariant.
LEMMA InitIInv == Init => IInv
<1> SUFFICES ASSUME Init PROVE IInv
  OBVIOUS
<1> USE CapPositive, RingAssumption
<1>1. TypeOK
  BY DEF Init, TypeOK, Slots
<1>2. LockHeld
  BY DEF Init, LockHeld
<1>3. KeepsNewest
  <2>1. (0 + 0) % Cap = 0
    BY SlotWraps DEF Slots
  <2> QED
    BY <2>1 DEF Init, KeepsNewest, Slot
<1>4. ReadIsContiguous
  BY DEF Init, ReadIsContiguous
<1> QED
  BY <1>1, <1>2, <1>3, <1>4 DEF IInv

\* Every step preserves the type invariant.
LEMMA NextTypeOK == TypeOK /\ ReadIsContiguous /\ [Next]_vars => TypeOK'
<1> SUFFICES ASSUME TypeOK, ReadIsContiguous, [Next]_vars PROVE TypeOK'
  OBVIOUS
<1> USE CapPositive, RingAssumption DEF TypeOK
<1>1. ASSUME NEW t \in Threads, NEW n \in 0..MaxRequest, BeginWrite(t, n)
      PROVE  TypeOK'
  BY <1>1 DEF BeginWrite, Lock, slots, counts, Slots
<1>2. ASSUME NEW t \in Threads, NEW n \in 0..MaxRequest, BeginRead(t, n)
      PROVE  TypeOK'
  BY <1>2 DEF BeginRead, Lock, slots, counts, Slots
<1>3. ASSUME NEW t \in Threads, WriteByte(t) PROVE TypeOK'
  <2>1. Succ(write) \in Slots /\ Succ(read) \in Slots
    BY SuccWraps
  <2>2. buf' \in [Slots -> Nat] /\ next' \in [Threads -> Nat]
    <3>1. /\ buf' = [buf EXCEPT ![write] = next[t]]
          /\ next' = [next EXCEPT ![t] = @ + 1]
      BY <1>3 DEF WriteByte
    <3> QED
      BY <3>1
  <2>3. read' \in Slots /\ write' \in Slots /\ size' \in 0..Cap /\ dropped' \in Nat
    <3>1. CASE Full
      BY <1>3, <2>1, <3>1 DEF WriteByte
    <3>2. CASE ~Full
      BY <1>3, <2>1, <3>2 DEF WriteByte, Full
    <3> QED
      BY <3>1, <3>2
  <2>4. todo' \in [Threads -> 0..MaxRequest]
    BY <1>3 DEF WriteByte
  <2> QED
    BY <1>3, <2>2, <2>3, <2>4 DEF WriteByte
<1>4. ASSUME NEW t \in Threads, EndWrite(t) PROVE TypeOK'
  BY <1>4 DEF EndWrite, Unlock, slots, counts, Slots
<1>5. ASSUME NEW t \in Threads, ReadByte(t) PROVE TypeOK'
  <2>1. Succ(read) \in Slots /\ buf[read] \in Nat
    BY SuccWraps
  <2>2. out' \in [Threads -> Seq(Nat)]
    <3>1. PICK v \in Nat : out' = [out EXCEPT ![t] = Append(@, v)]
      BY <1>5, <2>1 DEF ReadByte
    <3>2. Append(out[t], v) \in Seq(Nat)
      OBVIOUS
    <3> QED
      BY <3>1, <3>2
  <2>3. read' \in Slots /\ size' \in 0..Cap
    <3>1. \/ read' = read /\ size' = size
          \/ read' = Succ(read) /\ size > 0 /\ size' = size - 1
      BY <1>5 DEF ReadByte
    <3> QED
      BY <2>1, <3>1
  <2>5. taken' \in [Threads -> Nat]
    <3>1. CASE taken' = taken
      BY <3>1
    <3>2. CASE taken' = [taken EXCEPT ![t] = @ + 1]
      BY <3>2
    <3> QED
      BY <1>5, <3>1, <3>2 DEF ReadByte
  <2>4. todo' \in [Threads -> 0..MaxRequest]
    <3>1. todo' = [todo EXCEPT ![t] = @ - 1] /\ todo[t] > 0
      BY <1>5 DEF ReadByte
    <3> QED
      BY <3>1
  <2> QED
    BY <1>5, <2>2, <2>3, <2>4, <2>5 DEF ReadByte, counts
<1>6. ASSUME NEW t \in Threads, EndRead(t) PROVE TypeOK'
  BY SMTT(20), <1>6 DEF EndRead, Unlock, slots, Slots, ReadIsContiguous
<1>7. CASE Reset
  BY <1>7 DEF Reset, counts, locals, Slots
<1>8. CASE UNCHANGED vars
  BY <1>8 DEF vars, slots, counts, locals, Slots
<1> QED
  BY <1>1, <1>2, <1>3, <1>4, <1>5, <1>6, <1>7, <1>8 DEF Next, Step

\* Every step preserves mutual exclusion and the bookkeeping of the loops.
LEMMA NextLockHeld == TypeOK /\ LockHeld /\ [Next]_vars => LockHeld'
<1> SUFFICES ASSUME TypeOK, LockHeld, [Next]_vars PROVE LockHeld'
  OBVIOUS
<1> USE RingAssumption DEF TypeOK, LockHeld
<1>1. ASSUME NEW t \in Threads, NEW n \in 0..MaxRequest, BeginWrite(t, n)
      PROVE  LockHeld'
  <2>1. \A u \in Threads : pc'[u] # "idle" <=> mu' = u
    BY <1>1 DEF BeginWrite, Lock
  <2>2. \A u \in Threads : pc'[u] = "write" => next'[u] + todo'[u] = written' + 1
    <3>1. \A u \in Threads \ {t} : pc'[u] = "idle"
      BY <1>1 DEF BeginWrite, Lock
    <3>2. next'[t] = written + 1 /\ todo'[t] = n /\ written' = written + n
      BY <1>1 DEF BeginWrite
    <3>3. next'[t] + todo'[t] = written' + 1
      BY <3>2
    <3> QED
      BY <3>1, <3>3
  <2>3. \A u \in Threads : pc'[u] # "read" => out'[u] = <<>> /\ taken'[u] = 0
    BY <1>1 DEF BeginWrite
  <2>4. \A u \in Threads : pc'[u] # "read"
    BY <1>1 DEF BeginWrite, Lock
  <2> QED
    BY <2>1, <2>2, <2>3, <2>4
<1>2. ASSUME NEW t \in Threads, NEW n \in 0..MaxRequest, BeginRead(t, n)
      PROVE  LockHeld'
  <2>1. \A u \in Threads : pc'[u] # "idle" <=> mu' = u
    BY <1>2 DEF BeginRead, Lock
  <2>2. \A u \in Threads : pc'[u] = "write" => next'[u] + todo'[u] = written' + 1
    BY <1>2 DEF BeginRead, Lock
  <2>3. \A u \in Threads : pc'[u] # "read" => out'[u] = <<>> /\ taken'[u] = 0
    BY <1>2 DEF BeginRead
  <2>4. \A u \in Threads : pc'[u] = "read" => Len(out'[u]) + todo'[u] <= MaxRequest
    <3>1. \A u \in Threads \ {t} : pc'[u] = "idle"
      BY <1>2 DEF BeginRead, Lock
    <3>2. out'[t] = <<>> /\ todo'[t] = n
      BY <1>2 DEF BeginRead
    <3>3. Len(out'[t]) + todo'[t] <= MaxRequest
      BY <3>2
    <3> QED
      BY <3>1, <3>3
  <2> QED
    BY <2>1, <2>2, <2>3, <2>4
<1>3. ASSUME NEW t \in Threads, WriteByte(t) PROVE LockHeld'
  <2>1. /\ pc' = pc /\ mu' = mu /\ out' = out /\ taken' = taken /\ written' = written
        /\ todo' = [todo EXCEPT ![t] = @ - 1]
        /\ next' = [next EXCEPT ![t] = @ + 1]
        /\ pc[t] = "write"
    BY <1>3 DEF WriteByte
  <2>2. next'[t] + todo'[t] = next[t] + todo[t]
    BY <2>1
  <2>3. \A u \in Threads \ {t} : todo'[u] = todo[u] /\ next'[u] = next[u]
    BY <2>1
  <2>4. \A u \in Threads : pc'[u] = "write" => next'[u] + todo'[u] = written' + 1
    BY <2>1, <2>2, <2>3
  <2>5. \A u \in Threads : pc'[u] = "read" => Len(out'[u]) + todo'[u] <= MaxRequest
    BY <2>1, <2>3
  <2> QED
    BY <2>1, <2>4, <2>5
<1>4. ASSUME NEW t \in Threads, EndWrite(t) PROVE LockHeld'
  <2>1. \A u \in Threads : pc'[u] # "idle" <=> mu' = u
    BY <1>4 DEF EndWrite, Unlock
  <2>2. \A u \in Threads : pc'[u] = "write" => next'[u] + todo'[u] = written' + 1
    BY <1>4 DEF EndWrite, Unlock
  <2>3. \A u \in Threads : pc'[u] # "read" => out'[u] = <<>> /\ taken'[u] = 0
    BY <1>4 DEF EndWrite
  <2>4. \A u \in Threads : pc'[u] # "read"
    BY <1>4 DEF EndWrite, Unlock
  <2> QED
    BY <2>1, <2>2, <2>3, <2>4
<1>5. ASSUME NEW t \in Threads, ReadByte(t) PROVE LockHeld'
  <2>1. /\ pc' = pc /\ mu' = mu /\ next' = next /\ written' = written /\ pc[t] = "read"
        /\ todo' = [todo EXCEPT ![t] = @ - 1]
        /\ \A u \in Threads \ {t} : out'[u] = out[u] /\ taken'[u] = taken[u]
    BY <1>5 DEF ReadByte
  <2>2. Len(out'[t]) + todo'[t] = Len(out[t]) + todo[t]
    <3>1. out[t] \in Seq(Nat) /\ todo[t] \in Int /\ todo'[t] = todo[t] - 1
      BY <2>1
    <3>2. PICK v : out'[t] = Append(out[t], v)
      BY <1>5 DEF ReadByte
    <3> QED
      BY <3>1, <3>2
  <2> QED
    BY <2>1, <2>2
<1>6. ASSUME NEW t \in Threads, EndRead(t) PROVE LockHeld'
  <2>1. \A u \in Threads : pc'[u] # "idle" <=> mu' = u
    BY <1>6 DEF EndRead, Unlock
  <2>2. \A u \in Threads : pc'[u] = "write" => next'[u] + todo'[u] = written' + 1
    BY <1>6 DEF EndRead, Unlock
  <2>3. \A u \in Threads : pc'[u] # "read" => out'[u] = <<>> /\ taken'[u] = 0
    BY <1>6 DEF EndRead
  <2>4. \A u \in Threads : pc'[u] # "read"
    BY <1>6 DEF EndRead, Unlock
  <2> QED
    BY <2>1, <2>2, <2>3, <2>4
<1>7. CASE Reset
  BY <1>7 DEF Reset, locals
<1>8. CASE UNCHANGED vars
  BY <1>8 DEF vars, locals
<1> QED
  BY <1>1, <1>2, <1>3, <1>4, <1>5, <1>6, <1>7, <1>8 DEF Next, Step

\* The position of the last stored sample in terms of who holds the lock.
StoredOK ==
  /\ stored \in Int
  /\ (\A t \in Threads : pc[t] # "write") => stored = written
  /\ \A t \in Threads : pc[t] = "write" => stored = next[t] - 1

LEMMA StoredFacts == TypeOK /\ LockHeld => StoredOK
<1> SUFFICES ASSUME TypeOK, LockHeld PROVE StoredOK
  OBVIOUS
<1>1. mu # NoThread => mu \in Threads
  BY DEF TypeOK
<1>2. written \in Int /\ \A t \in Threads : next[t] - 1 \in Int
  BY DEF TypeOK
<1>3. \A t \in Threads : pc[t] = "write" => mu = t /\ mu # NoThread
  BY RingAssumption DEF LockHeld
<1> QED
  BY <1>1, <1>2, <1>3, Zenon DEF stored, StoredOK

\* A step that leaves the slots and the position alone keeps what they hold.
LEMMA SlotsUnchanged ==
  ASSUME KeepsNewest, UNCHANGED slots, stored' = stored
  PROVE  KeepsNewest'
  BY DEF KeepsNewest, slots, Slot

\* Every step keeps the newest samples, in order, between the two indices.
LEMMA NextKeepsNewest == IInv /\ [Next]_vars => KeepsNewest'
<1> SUFFICES ASSUME IInv, [Next]_vars PROVE KeepsNewest'
  OBVIOUS
<1>types. TypeOK /\ LockHeld /\ KeepsNewest /\ TypeOK' /\ LockHeld'
  BY NextLockHeld, NextTypeOK DEF IInv
<1>slot. \A i \in 0..Cap :
           /\ Slot(i) = IF read + i < Cap THEN read + i ELSE read + i - Cap
           /\ Slot(i)' = IF read' + i < Cap THEN read' + i ELSE read' + i - Cap
  BY <1>types, SlotWraps DEF TypeOK, Slot
<1>stored. /\ stored \in Int
           /\ (\A t \in Threads : pc[t] # "write") => stored = written
           /\ \A t \in Threads : pc[t] = "write" => stored = next[t] - 1
  BY <1>types, StoredFacts DEF StoredOK
<1>stored2. /\ stored' \in Int
            /\ (\A t \in Threads : pc'[t] # "write") => stored' = written'
            /\ \A t \in Threads : pc'[t] = "write" => stored' = next'[t] - 1
  <2>1. StoredOK'
    BY <1>types, StoredFacts, PTL
  <2> QED
    BY <2>1 DEF StoredOK
<1>ints. read \in 0..Cap - 1 /\ size \in 0..Cap /\ write \in 0..Cap - 1
         /\ Cap \in Nat /\ Cap > 0
  BY <1>types, CapPositive DEF TypeOK, Slots
<1>1. ASSUME NEW t \in Threads, NEW n \in 0..MaxRequest, BeginWrite(t, n)
      PROVE  KeepsNewest'
  <2>1. UNCHANGED slots
    BY <1>1 DEF BeginWrite
  <2>2. \A u \in Threads : pc[u] = "idle"
    BY <1>1, <1>types, RingAssumption DEF BeginWrite, Lock, LockHeld, TypeOK
  <2>3. pc'[t] = "write" /\ next'[t] = written + 1 /\ written \in Nat
    BY <1>1, <1>types DEF BeginWrite, TypeOK
  <2>4. stored = written /\ stored' = next'[t] - 1
    BY <2>2, <2>3, <1>stored, <1>stored2
  <2>5. stored' = stored
    BY <2>3, <2>4
  <2> QED
    BY <2>1, <2>5, <1>types, SlotsUnchanged
<1>2. ASSUME NEW t \in Threads, NEW n \in 0..MaxRequest, BeginRead(t, n)
      PROVE  KeepsNewest'
  <2>1. UNCHANGED slots /\ written' = written
    BY <1>2 DEF BeginRead
  <2>2. \A u \in Threads : pc[u] = "idle" /\ pc'[u] # "write"
    BY <1>2, <1>types, RingAssumption DEF BeginRead, Lock, LockHeld, TypeOK
  <2>3. stored' = stored
    BY <2>1, <2>2, <1>stored, <1>stored2
  <2> QED
    BY <2>1, <2>3, <1>types, SlotsUnchanged
<1>3. ASSUME NEW t \in Threads, WriteByte(t) PROVE KeepsNewest'
  <2>1. /\ pc[t] = "write" /\ pc' = pc
        /\ buf' = [buf EXCEPT ![write] = next[t]]
        /\ next' = [next EXCEPT ![t] = @ + 1]
        /\ write' = Succ(write)
    BY <1>3 DEF WriteByte
  <2>2. next[t] = stored + 1 /\ stored' = stored + 1
    <3>1. next[t] \in Nat /\ next'[t] = next[t] + 1
      BY <2>1, <1>types DEF TypeOK
    <3>2. stored = next[t] - 1 /\ stored' = next'[t] - 1
      BY <2>1, <1>stored, <1>stored2
    <3> QED
      BY <3>1, <3>2
  <2>3. write = Slot(size) /\ \A i \in 0..size - 1 : buf[Slot(i)] = stored - size + 1 + i
    BY <1>types DEF KeepsNewest
  <2>4. Succ(write) = (IF write + 1 = Cap THEN 0 ELSE write + 1)
        /\ Succ(read) = (IF read + 1 = Cap THEN 0 ELSE read + 1)
    BY <1>types, SuccWraps DEF TypeOK
  <2>5. \A i \in 0..Cap : i # Cap => Slot(i) \in Slots
    BY <1>slot, <1>ints DEF Slots
  <2>6. buf'[write] = stored + 1
        /\ \A s \in Slots : s # write => buf'[s] = buf[s]
    BY <2>1, <2>2, <1>types DEF TypeOK
  <2>7. CASE ~Full
    <3>1. read' = read /\ size' = size + 1 /\ size < Cap
      BY <1>3, <2>7, <1>ints DEF WriteByte, Full
    <3>2. write' = Slot(size)'
      BY <3>1, <2>1, <2>3, <2>4, <1>slot, <1>ints
    <3>3. \A i \in 0..size : Slot(i)' = Slot(i)
      BY <3>1, <1>slot, <1>ints
    <3>4. ASSUME NEW i \in 0..size' - 1
          PROVE  buf'[Slot(i)'] = stored' - size' + 1 + i
      <4>1. CASE i = size
        BY <4>1, <3>1, <3>3, <2>2, <2>3, <2>6, <1>ints, <1>stored
      <4>2. CASE i < size
        <5>1. Slot(i) # write /\ Slot(i) \in Slots
          BY <4>2, <3>1, <2>3, <2>5, <1>slot, <1>ints
        <5>2. Slot(i)' = Slot(i) /\ buf[Slot(i)] = stored - size + 1 + i
          BY <4>2, <3>1, <3>3, <2>3, <1>ints
        <5>3. buf'[Slot(i)'] = stored - size + 1 + i
          BY <5>1, <5>2, <2>6
        <5> QED
          BY <5>3, <3>1, <2>2, <1>ints, <1>stored
      <4> QED
        BY <4>1, <4>2, <3>1, <1>ints
    <3> QED
      BY <3>2, <3>4 DEF KeepsNewest
  <2>8. CASE Full
    <3>1. read' = Succ(read) /\ size' = Cap /\ size = Cap
      BY <1>3, <2>8 DEF WriteByte, Full
    <3>2. write = read /\ write' = read'
      BY <3>1, <2>1, <2>3, <1>slot, <1>ints
    <3>3. write' = Slot(size)'
      BY <3>1, <3>2, <2>4, <1>slot, <1>ints
    <3>4. ASSUME NEW i \in 0..size' - 1
          PROVE  buf'[Slot(i)'] = stored' - size' + 1 + i
      <4>1. CASE i = Cap - 1
        <5>1. Slot(i)' = write
          BY <4>1, <3>1, <3>2, <2>4, <1>slot, <1>ints
        <5> QED
          BY <5>1, <4>1, <3>1, <2>2, <2>6, <1>ints, <1>stored
      <4>2. CASE i < Cap - 1
        <5>1. Slot(i)' = Slot(i + 1) /\ Slot(i + 1) # write /\ Slot(i + 1) \in Slots
          BY <4>2, <3>1, <3>2, <2>4, <2>5, <1>slot, <1>ints
        <5>2. buf[Slot(i + 1)] = stored - size + 1 + (i + 1)
          BY <4>2, <3>1, <2>3, <1>ints
        <5>3. buf'[Slot(i)'] = stored - size + 1 + (i + 1)
          BY <5>1, <5>2, <2>6
        <5> QED
          BY <5>3, <3>1, <2>2, <1>ints, <1>stored
      <4> QED
        BY <4>1, <4>2, <3>1, <1>ints
    <3> QED
      BY <3>3, <3>4 DEF KeepsNewest
  <2> QED
    BY <2>7, <2>8
<1>4. ASSUME NEW t \in Threads, EndWrite(t) PROVE KeepsNewest'
  <2>1. UNCHANGED slots /\ written' = written /\ pc[t] = "write" /\ todo[t] = 0
    BY <1>4 DEF EndWrite
  <2>2. \A u \in Threads : pc'[u] # "write"
    BY <1>4, <1>types DEF EndWrite, Unlock, LockHeld, TypeOK
  <2>3. stored = written
    <3>1. next[t] \in Nat /\ written \in Nat /\ next[t] + todo[t] = written + 1
      BY <2>1, <1>types DEF LockHeld, TypeOK
    <3> QED
      BY <3>1, <2>1, <1>stored
  <2> QED
    BY <2>1, <2>2, <2>3, <1>stored2, <1>types, SlotsUnchanged
<1>5. ASSUME NEW t \in Threads, ReadByte(t) PROVE KeepsNewest'
  <2>1. /\ pc[t] = "read" /\ pc' = pc /\ written' = written
        /\ buf' = buf /\ write' = write
    BY <1>5 DEF ReadByte
  <2>2. stored' = stored
    <3>1. \A u \in Threads : pc[u] # "write"
      BY <2>1, <1>types DEF LockHeld
    <3> QED
      BY <3>1, <2>1, <1>stored, <1>stored2
  <2>3. CASE read' = read /\ size' = size
    BY <2>1, <2>2, <2>3, <1>types, SlotsUnchanged DEF slots
  <2>4. CASE read' = Succ(read) /\ size > 0 /\ size' = size - 1
    <3>1. read' = IF read + 1 = Cap THEN 0 ELSE read + 1
      BY <2>4, <1>types, SuccWraps DEF TypeOK
    <3>2. \A i \in 0..size' : Slot(i)' = Slot(i + 1)
      BY <3>1, <2>4, <1>slot, <1>ints
    <3>3. write' = Slot(size)'
      BY <3>2, <2>1, <2>4, <1>types, <1>ints DEF KeepsNewest
    <3>4. ASSUME NEW i \in 0..size' - 1
          PROVE  buf'[Slot(i)'] = stored' - size' + 1 + i
      <4>1. i + 1 \in 0..size - 1 /\ i \in 0..size'
        BY <2>4, <1>ints
      <4>2. buf[Slot(i + 1)] = stored - size + 1 + (i + 1)
        BY <4>1, <1>types DEF KeepsNewest
      <4> QED
        BY <4>1, <4>2, <3>2, <2>1, <2>2, <2>4, <1>ints, <1>stored
    <3> QED
      BY <3>3, <3>4 DEF KeepsNewest
  <2> QED
    BY <2>3, <2>4, <1>5 DEF ReadByte
<1>6. ASSUME NEW t \in Threads, EndRead(t) PROVE KeepsNewest'
  <2>1. UNCHANGED slots /\ written' = written /\ pc[t] = "read"
    BY <1>6 DEF EndRead
  <2>2. \A u \in Threads : pc[u] # "write" /\ pc'[u] # "write"
    BY <1>6, <1>types DEF EndRead, Unlock, LockHeld, TypeOK
  <2> QED
    BY <2>1, <2>2, <1>stored, <1>stored2, <1>types, SlotsUnchanged
<1>7. CASE Reset
  <2>1. read' = 0 /\ write' = 0 /\ size' = 0
    BY <1>7 DEF Reset
  <2>2. Slot(0)' = 0
    BY <2>1, <1>slot, <1>ints
  <2> QED
    BY <2>1, <2>2 DEF KeepsNewest
<1>8. CASE UNCHANGED vars
  BY <1>8, <1>types, SlotsUnchanged DEF vars, locals, stored
<1> QED
  BY <1>1, <1>2, <1>3, <1>4, <1>5, <1>6, <1>7, <1>8 DEF Next, Step

\* What a read has gathered stays one block of the stream and then silence.
LEMMA NextReadIsContiguous == IInv /\ [Next]_vars => ReadIsContiguous'
<1> SUFFICES ASSUME IInv, [Next]_vars PROVE ReadIsContiguous'
  OBVIOUS
<1>types. TypeOK /\ LockHeld /\ KeepsNewest /\ ReadIsContiguous /\ TypeOK' /\ LockHeld'
  BY NextLockHeld, NextTypeOK DEF IInv
<1>none. ASSUME \A u \in Threads : pc'[u] # "read" PROVE ReadIsContiguous'
  BY <1>none DEF ReadIsContiguous
<1>1. ASSUME NEW t \in Threads, NEW n \in 0..MaxRequest, BeginWrite(t, n)
      PROVE  ReadIsContiguous'
  <2>1. \A u \in Threads : pc'[u] # "read"
    BY <1>1, <1>types, RingAssumption DEF BeginWrite, Lock, LockHeld, TypeOK
  <2> QED
    BY <2>1, <1>none
<1>2. ASSUME NEW t \in Threads, NEW n \in 0..MaxRequest, BeginRead(t, n)
      PROVE  ReadIsContiguous'
  <2>1. \A u \in Threads : pc'[u] = "read" => u = t
    BY <1>2, <1>types, RingAssumption DEF BeginRead, Lock, LockHeld, TypeOK
  <2>2. out'[t] = <<>> /\ taken'[t] = 0
    BY <1>2, <1>types DEF BeginRead, LockHeld
  <2> QED
    BY <2>1, <2>2 DEF ReadIsContiguous
<1>3. ASSUME NEW t \in Threads, WriteByte(t) PROVE ReadIsContiguous'
  <2>1. pc[t] = "write" /\ pc' = pc
    BY <1>3 DEF WriteByte
  <2>2. \A u \in Threads : pc'[u] # "read"
    BY <2>1, <1>types DEF LockHeld
  <2> QED
    BY <2>2, <1>none
<1>4. ASSUME NEW t \in Threads, EndWrite(t) PROVE ReadIsContiguous'
  <2>1. \A u \in Threads : pc'[u] # "read"
    BY <1>4, <1>types DEF EndWrite, Unlock, LockHeld, TypeOK
  <2> QED
    BY <2>1, <1>none
<1>5. ASSUME NEW t \in Threads, ReadByte(t) PROVE ReadIsContiguous'
  <2>1. /\ pc[t] = "read" /\ pc' = pc /\ written' = written
        /\ \A u \in Threads : pc'[u] = "read" => u = t
    BY <1>5, <1>types DEF ReadByte, LockHeld
  <2>2. /\ out[t] \in Seq(Nat) /\ taken[t] \in Nat /\ size \in Nat /\ written \in Nat
        /\ t \in DOMAIN out /\ t \in DOMAIN taken
    BY <1>types DEF TypeOK
  <2>3. /\ taken[t] <= Len(out[t])
        /\ taken[t] < Len(out[t]) => size = 0
        /\ \A i \in 1..Len(out[t]) :
             out[t][i] = IF i <= taken[t] THEN written - size - taken[t] + i ELSE 0
    BY <2>1, <1>types DEF ReadIsContiguous
  <2>4. CASE size = 0
    <3>1. out'[t] = Append(out[t], 0) /\ size' = 0 /\ taken'[t] = taken[t]
      BY <1>5, <2>2, <2>4 DEF ReadByte
    <3>2. /\ Len(out'[t]) = Len(out[t]) + 1
          /\ out'[t][Len(out[t]) + 1] = 0
          /\ \A i \in 1..Len(out[t]) : out'[t][i] = out[t][i]
      BY <3>1, <2>2
    <3>3. ASSUME NEW i \in 1..Len(out'[t])
          PROVE  out'[t][i] = IF i <= taken'[t] THEN written' - size' - taken'[t] + i ELSE 0
      <4>1. CASE i = Len(out[t]) + 1
        BY <4>1, <3>1, <3>2, <2>2, <2>3
      <4>2. CASE i \in 1..Len(out[t])
        BY <4>2, <3>1, <3>2, <2>1, <2>3, <2>4
      <4> QED
        BY <4>1, <4>2, <3>2, <2>2
    <3>4. taken'[t] <= Len(out'[t])
      BY <3>1, <3>2, <2>2, <2>3
    <3> QED
      BY <3>1, <3>3, <3>4, <2>1 DEF ReadIsContiguous
  <2>5. CASE size > 0
    <3>1. /\ out'[t] = Append(out[t], buf[read])
          /\ size' = size - 1 /\ taken'[t] = taken[t] + 1
      BY <1>5, <2>2, <2>5 DEF ReadByte
    <3>2. taken[t] = Len(out[t])
      BY <2>2, <2>3, <2>5
    <3>3. buf[read] = written - size + 1
      <4>1. stored = written
        BY <2>1, <1>types, StoredFacts DEF StoredOK, LockHeld
      <4>2. Slot(0) = read
        <5>1. read \in Slots /\ 0 \in 0..Cap /\ read \in Int /\ read < Cap
          BY <1>types, CapPositive DEF TypeOK, Slots
        <5>2. Slot(0) = IF read + 0 < Cap THEN read + 0 ELSE read + 0 - Cap
          BY <5>1, SlotWraps DEF Slot
        <5> QED
          BY <5>1, <5>2
      <4>3. buf[Slot(0)] = stored - size + 1 + 0
        BY <2>2, <2>5, <1>types DEF KeepsNewest
      <4> QED
        BY <4>1, <4>2, <4>3, <2>2
    <3>4. /\ Len(out'[t]) = Len(out[t]) + 1
          /\ out'[t][Len(out[t]) + 1] = buf[read]
          /\ \A i \in 1..Len(out[t]) : out'[t][i] = out[t][i]
      BY <3>1, <2>2
    <3>5. ASSUME NEW i \in 1..Len(out'[t])
          PROVE  out'[t][i] = written' - size' - taken'[t] + i /\ i <= taken'[t]
      <4>1. CASE i = Len(out[t]) + 1
        BY <4>1, <3>1, <3>2, <3>3, <3>4, <2>1, <2>2
      <4>2. CASE i \in 1..Len(out[t])
        BY <4>2, <3>1, <3>2, <3>4, <2>1, <2>2, <2>3
      <4> QED
        BY <4>1, <4>2, <3>4, <2>2
    <3>6. taken'[t] = Len(out'[t])
      BY <3>1, <3>2, <3>4, <2>2
    <3>7. \A i \in 1..Len(out'[t]) :
            out'[t][i] = IF i <= taken'[t] THEN written' - size' - taken'[t] + i ELSE 0
      BY <3>5
    <3>8. taken'[t] <= Len(out'[t]) /\ ~(taken'[t] < Len(out'[t]))
      BY <3>6, <3>4, <2>2
    <3> QED
      BY <3>7, <3>8, <2>1 DEF ReadIsContiguous
  <2> QED
    BY <2>2, <2>4, <2>5
<1>6. ASSUME NEW t \in Threads, EndRead(t) PROVE ReadIsContiguous'
  <2>1. \A u \in Threads : pc'[u] # "read"
    BY <1>6, <1>types DEF EndRead, Unlock, LockHeld, TypeOK
  <2> QED
    BY <2>1, <1>none
<1>7. CASE Reset
  <2>1. \A u \in Threads : pc'[u] # "read"
    BY <1>7, <1>types, RingAssumption DEF Reset, locals, LockHeld, TypeOK
  <2> QED
    BY <2>1, <1>none
<1>8. CASE UNCHANGED vars
  BY <1>8, <1>types DEF vars, locals, slots, ReadIsContiguous
<1> QED
  BY <1>1, <1>2, <1>3, <1>4, <1>5, <1>6, <1>7, <1>8 DEF Next, Step

\* The inductive invariant holds in every behaviour.
THEOREM RingInvariant == Spec => []IInv
<1>1. IInv /\ [Next]_vars => IInv'
  BY NextTypeOK, NextLockHeld, NextKeepsNewest, NextReadIsContiguous DEF IInv
<1> QED
  BY <1>1, InitIInv, PTL DEF Spec

\* Fields and locals keep their types; in particular the indices stay in range.
THEOREM RingTypeOK == Spec => []TypeOK
<1>1. IInv => TypeOK
  BY DEF IInv
<1> QED
  BY <1>1, RingInvariant, PTL

\* ring.go:38: whatever overruns, reads and resets happen, the ring holds the
\* newest samples of the stream in order.
THEOREM RingKeepsNewest == Spec => []KeepsNewest
<1>1. IInv => KeepsNewest
  BY DEF IInv
<1> QED
  BY <1>1, RingInvariant, PTL

\* ring.go:56: a read returns one block of the stream and silence after it.
THEOREM RingReadIsContiguous == Spec => []ReadIsContiguous
<1>1. IInv => ReadIsContiguous
  BY DEF IInv
<1> QED
  BY <1>1, RingInvariant, PTL

-----------------------------------------------------------------------------
\* The level the refinement mapping shows, by what the lock holder is doing.
LevelOK ==
  /\ (\A t \in Threads : pc[t] = "idle") => level = size
  /\ \A t \in Threads :
       /\ pc[t] = "write" => level = Least(size + todo[t], Cap)
       /\ pc[t] = "read" => level = size + taken[t]

LEMMA LevelFacts == TypeOK /\ LockHeld => LevelOK
<1> SUFFICES ASSUME TypeOK, LockHeld PROVE LevelOK
  OBVIOUS
<1>1. mu # NoThread => mu \in Threads
  BY DEF TypeOK
<1>2. mu # NoThread => pc[mu] # "idle"
  BY <1>1 DEF LockHeld
<1>3. \A t \in Threads : pc[t] # "idle" => mu = t /\ mu # NoThread
  BY RingAssumption DEF LockHeld
<1>4. (\A t \in Threads : pc[t] = "idle") => mu = NoThread
  BY <1>1, <1>2
<1>5. "write" # "read" /\ "write" # "idle" /\ "read" # "idle"
  OBVIOUS
<1> QED
  BY <1>3, <1>4, <1>5, Zenon DEF level, LevelOK

\* Each step of the byte loops is a step of LoopbackStream or changes nothing
\* there: Write counts when it takes the lock, ReadSilence when it returns.
LEMMA NextImplementsStream ==
  IInv /\ IInv' /\ [Next]_vars => [Stream!StreamNext]_<<written, level, heard>>
<1> SUFFICES ASSUME IInv, IInv', [Next]_vars
             PROVE  [Stream!StreamNext]_<<written, level, heard>>
  OBVIOUS
<1>types. TypeOK /\ LockHeld /\ ReadIsContiguous /\ TypeOK' /\ LockHeld'
  BY DEF IInv
<1>before. LevelOK
  BY <1>types, LevelFacts
<1>after. LevelOK'
  BY <1>types, LevelFacts, PTL
<1>ints. size \in 0..Cap /\ size' \in 0..Cap /\ Cap \in Nat /\ Cap > 0 /\ written \in Nat
  BY <1>types, CapPositive DEF TypeOK
<1>1. ASSUME NEW t \in Threads, NEW n \in 0..MaxRequest, BeginWrite(t, n)
      PROVE  Stream!Write(n)
  <2>1. /\ \A u \in Threads : pc[u] = "idle"
        /\ pc'[t] = "write" /\ todo'[t] = n /\ size' = size
        /\ written' = written + n /\ heard' = heard
    BY <1>1, <1>types, RingAssumption DEF BeginWrite, Lock, LockHeld, TypeOK, slots
  <2>2. level = size /\ level' = Least(size' + todo'[t], Cap)
    BY <2>1, <1>before, <1>after DEF LevelOK
  <2> QED
    BY <2>1, <2>2 DEF Stream!Write, Stream!Least, Least
<1>2. ASSUME NEW t \in Threads, NEW n \in 0..MaxRequest, BeginRead(t, n)
      PROVE  UNCHANGED <<written, level, heard>>
  <2>1. /\ \A u \in Threads : pc[u] = "idle"
        /\ pc'[t] = "read" /\ taken'[t] = 0 /\ size' = size
        /\ written' = written /\ heard' = heard
    BY <1>2, <1>types, RingAssumption DEF BeginRead, Lock, LockHeld, TypeOK, slots
  <2>2. level = size /\ level' = size' + taken'[t]
    BY <2>1, <1>before, <1>after DEF LevelOK
  <2> QED
    BY <2>1, <2>2, <1>ints
<1>3. ASSUME NEW t \in Threads, WriteByte(t)
      PROVE  UNCHANGED <<written, level, heard>>
  <2>1. /\ pc[t] = "write" /\ pc' = pc /\ todo[t] > 0 /\ todo' = [todo EXCEPT ![t] = @ - 1]
        /\ size' = (IF Full THEN size ELSE size + 1)
        /\ written' = written /\ heard' = heard
    BY <1>3 DEF WriteByte
  <2>2. todo[t] \in Nat /\ todo'[t] = todo[t] - 1
    BY <2>1, <1>types, RingAssumption DEF TypeOK
  <2>3. level = Least(size + todo[t], Cap) /\ level' = Least(size' + todo'[t], Cap)
    BY <2>1, <1>before, <1>after DEF LevelOK
  <2> QED
    BY <2>1, <2>2, <2>3, <1>ints DEF Least, Full
<1>4. ASSUME NEW t \in Threads, EndWrite(t)
      PROVE  UNCHANGED <<written, level, heard>>
  <2>1. /\ pc[t] = "write" /\ todo[t] = 0 /\ size' = size
        /\ written' = written /\ heard' = heard
        /\ \A u \in Threads : pc'[u] = "idle"
    BY <1>4, <1>types DEF EndWrite, Unlock, LockHeld, TypeOK, slots
  <2>2. level = Least(size + todo[t], Cap) /\ level' = size'
    BY <2>1, <1>before, <1>after DEF LevelOK
  <2> QED
    BY <2>1, <2>2, <1>ints DEF Least
<1>5. ASSUME NEW t \in Threads, ReadByte(t)
      PROVE  UNCHANGED <<written, level, heard>>
  <2>1. pc[t] = "read" /\ pc' = pc /\ written' = written /\ heard' = heard
    BY <1>5 DEF ReadByte
  <2>2. taken[t] \in Nat /\ t \in DOMAIN taken
    BY <1>types DEF TypeOK
  <2>3. size + taken[t] = size' + taken'[t]
    BY <1>5, <2>2, <1>ints DEF ReadByte
  <2>4. level = size + taken[t] /\ level' = size' + taken'[t]
    BY <2>1, <1>before, <1>after DEF LevelOK
  <2> QED
    BY <2>1, <2>3, <2>4
<1>6. ASSUME NEW t \in Threads, EndRead(t)
      PROVE  \E n \in 0..MaxRequest : Stream!Read(n)
  <2>1. /\ pc[t] = "read" /\ size' = size /\ written' = written /\ heard' = out[t]
        /\ \A u \in Threads : pc'[u] = "idle"
    BY <1>6, <1>types DEF EndRead, Unlock, LockHeld, TypeOK, slots
  <2>2. /\ out[t] \in Seq(Nat) /\ taken[t] \in Nat
        /\ taken[t] <= Len(out[t])
        /\ taken[t] < Len(out[t]) => size = 0
        /\ \A i \in 1..Len(out[t]) :
             out[t][i] = IF i <= taken[t] THEN written - size - taken[t] + i ELSE 0
    BY <2>1, <1>types DEF TypeOK, ReadIsContiguous
  <2>6. Len(out[t]) \in 0..MaxRequest
    <3>1. todo[t] \in Nat /\ Len(out[t]) + todo[t] <= MaxRequest /\ MaxRequest \in Nat
      BY <2>1, <1>types, RingAssumption DEF TypeOK, LockHeld
    <3> QED
      BY <3>1, <2>2
  <2>3. level = size + taken[t] /\ level' = size
    BY <2>1, <1>before, <1>after DEF LevelOK
  <2>4. heard' = [i \in 1..Len(out[t]) |-> IF i <= level THEN written - level + i ELSE 0]
    <3>1. out[t] = [i \in 1..Len(out[t]) |-> out[t][i]]
      BY <2>2
    <3>2. \A i \in 1..Len(out[t]) :
            out[t][i] = IF i <= level THEN written - level + i ELSE 0
      <4>1. CASE taken[t] = Len(out[t])
        <5>1. ASSUME NEW i \in 1..Len(out[t])
              PROVE  i <= taken[t] /\ i <= level /\ written - size - taken[t] + i = written - level + i
          BY <4>1, <2>2, <2>3, <1>ints
        <5> QED
          BY <5>1, <2>2
      <4>2. CASE taken[t] < Len(out[t])
        BY <4>2, <2>2, <2>3, <1>ints
      <4> QED
        BY <4>1, <4>2, <2>2
    <3> QED
      BY <3>1, <3>2, <2>1
  <2>5. level' = level - Stream!Least(Len(out[t]), level)
    BY <2>2, <2>3, <1>ints DEF Stream!Least
  <2> QED
    BY <2>1, <2>4, <2>5, <2>6 DEF Stream!Read, Stream!oldest
<1>7. ASSUME Reset PROVE Stream!Clear
  <2>1. /\ size' = 0 /\ written' = written /\ heard' = heard
        /\ \A u \in Threads : pc'[u] = "idle"
    BY <1>7, <1>types, RingAssumption DEF Reset, locals, LockHeld, TypeOK
  <2>2. level' = size'
    BY <2>1, <1>after DEF LevelOK
  <2> QED
    BY <2>1, <2>2 DEF Stream!Clear
<1>8. ASSUME UNCHANGED vars PROVE UNCHANGED <<written, level, heard>>
  BY <1>8 DEF vars, slots, counts, locals, level
<1> QED
  BY <1>1, <1>2, <1>3, <1>4, <1>5, <1>6, <1>7, <1>8 DEF Next, Step, Stream!StreamNext

\* The ring implements the stream it stands for, for every capacity and number
\* of goroutines.
THEOREM RingImplementsStream == Spec => ImplementsStream
<1>1. Init => Stream!StreamInit
  BY CapPositive DEF Init, Stream!StreamInit, level
<1>2. IInv /\ IInv' /\ [Next]_vars => [Stream!StreamNext]_<<written, level, heard>>
  BY NextImplementsStream
<1> QED
  BY <1>1, <1>2, RingInvariant, PTL
     DEF Spec, ImplementsStream, Stream!StreamSpec, Stream!streamVars

-----------------------------------------------------------------------------
\* What has been captured lies before what still waits: the invariant of the
\* stream that NeverReplayed needs.
HeardIsPast ==
  /\ level \in Nat /\ written \in Nat /\ level <= written
  /\ heard \in Seq(Nat)
  /\ \A i \in 1..Len(heard) : heard[i] <= written - level

LEMMA ReadIsLater ==
  ASSUME HeardIsPast, NEW n \in 0..MaxRequest, Stream!Read(n)
  PROVE  /\ HeardIsPast'
         /\ \A i \in 1..Len(heard), j \in 1..Len(heard') :
              heard'[j] # 0 => heard[i] < heard'[j]
<1> USE RingAssumption DEF HeardIsPast
<1>1. /\ heard' = [i \in 1..n |-> IF i <= level THEN written - level + i ELSE 0]
      /\ level' = level - (IF n <= level THEN n ELSE level)
      /\ written' = written
  BY DEF Stream!Read, Stream!oldest, Stream!Least
<1>2. level' \in Nat /\ level' <= written /\ n \in Nat
  BY <1>1
<1>3. /\ heard' \in Seq(Nat) /\ Len(heard') = n
      /\ \A j \in 1..n : heard'[j] = IF j <= level THEN written - level + j ELSE 0
  BY <1>1, <1>2
<1>4. \A j \in 1..n : heard'[j] <= written - level'
  BY <1>1, <1>2, <1>3
<1>5. \A j \in 1..n : heard'[j] # 0 => heard'[j] > written - level
  BY <1>2, <1>3
<1>6. \A i \in 1..Len(heard) : heard[i] \in Nat
  OBVIOUS
<1> QED
  BY <1>1, <1>2, <1>3, <1>4, <1>5, <1>6

LEMMA StreamKeepsHeardPast ==
  HeardIsPast /\ [Stream!StreamNext]_<<written, level, heard>> => HeardIsPast'
<1> SUFFICES ASSUME HeardIsPast, [Stream!StreamNext]_<<written, level, heard>>
             PROVE  HeardIsPast'
  OBVIOUS
<1>1. ASSUME NEW k \in 0..MaxRequest, Stream!Write(k) PROVE HeardIsPast'
  <2>1. /\ level' = (IF level + k <= Cap THEN level + k ELSE Cap)
        /\ written' = written + k /\ heard' = heard
    BY <1>1 DEF Stream!Write, Stream!Least
  <2>2. k \in Nat /\ level' \in Nat /\ written' \in Nat
        /\ level' <= written' /\ written - level <= written' - level'
    BY <2>1, CapPositive, RingAssumption DEF HeardIsPast
  <2>3. ASSUME NEW i \in 1..Len(heard) PROVE heard[i] <= written' - level'
    <3>1. heard[i] \in Nat /\ heard[i] <= written - level
      BY DEF HeardIsPast
    <3>2. written \in Nat /\ level \in Nat
      BY DEF HeardIsPast
    <3> DEFINE past == written - level
               past2 == written' - level'
    <3>5. past \in Int
      BY <3>2
    <3>6. past2 \in Int
      BY <2>2
    <3>7. past <= past2
      BY <2>2
    <3> HIDE DEF past, past2
    <3>4. heard[i] <= past2
      BY <3>1, <3>5, <3>6, <3>7 DEF past
    <3> QED
      BY <3>4 DEF past2
  <2> QED
    BY <2>1, <2>2, <2>3 DEF HeardIsPast
<1>2. ASSUME NEW n \in 0..MaxRequest, Stream!Read(n) PROVE HeardIsPast'
  BY <1>2, ReadIsLater
<1>3. ASSUME Stream!Clear PROVE HeardIsPast'
  BY <1>3 DEF Stream!Clear, HeardIsPast
<1>4. ASSUME UNCHANGED <<written, level, heard>> PROVE HeardIsPast'
  BY <1>4 DEF HeardIsPast
<1> QED
  BY <1>1, <1>2, <1>3, <1>4 DEF Stream!StreamNext

\* No sample reaches the capture endpoint twice or out of order.
THEOREM RingNeverReplays == Spec => NeverReplayed
<1>1. Init => HeardIsPast
  <2> SUFFICES ASSUME Init PROVE HeardIsPast
    OBVIOUS
  <2>1. level = 0 /\ written = 0 /\ heard = <<>>
    BY DEF Init, level
  <2> QED
    BY <2>1 DEF HeardIsPast
<1>2. [Stream!StreamNext]_<<written, level, heard>> /\ HeardIsPast
      => [\A i \in 1..Len(heard), j \in 1..Len(heard') :
            heard' # heard /\ heard'[j] # 0 => heard[i] < heard'[j]]_heard
  <2> SUFFICES ASSUME HeardIsPast, Stream!StreamNext, heard' # heard
               PROVE  \A i \in 1..Len(heard), j \in 1..Len(heard') :
                        heard'[j] # 0 => heard[i] < heard'[j]
    OBVIOUS
  <2>1. PICK n \in 0..MaxRequest : Stream!Read(n)
    BY DEF Stream!StreamNext, Stream!Write, Stream!Clear
  <2> QED
    BY <2>1, ReadIsLater
<1>3. IInv /\ IInv' /\ [Next]_vars => [Stream!StreamNext]_<<written, level, heard>>
  BY NextImplementsStream
<1> QED
  BY <1>1, <1>2, <1>3, StreamKeepsHeardPast, RingInvariant, PTL DEF Spec, NeverReplayed
=============================================================================
