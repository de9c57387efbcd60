-------------------------- MODULE SubmitStream_proofs --------------------------
(***************************************************************************)
(* The timelines and the byte streams of a connection, for every set of    *)
(* endpoints, any number of SUBMITs and any packets.  A reservation is     *)
(* argued from the one before it on its timeline; what a reply's packets   *)
(* add up to, from the sums up to each of them.                            *)
(***************************************************************************)
EXTENDS SubmitStream, WellFoundedInduction, TLAPS

-----------------------------------------------------------------------------
(* The cadence of the timelines.                                             *)

\* The reservation a later URB of the same timeline starts from.
NextIsLatest ==
  \A i \in 1..Len(log) :
    isoNext[TimelineKey(log[i].endpoint, log[i].direction)] >= log[i].deadline

IInv == TypeOK /\ NextIsLatest /\ CadenceKept

\* A deadline is never before the clock or before the reservation it follows.
LEMMA DeadlineBounds ==
  ASSUME NEW n \in PacketCounts, n <= MaxIsoWait,
         NEW next \in Nat, NEW t \in Nat
  PROVE  /\ Deadline(next, n, t) \in Nat
         /\ Deadline(next, n, t) >= t + n
         /\ Deadline(next, n, t) >= next + n
  BY IsoAssumption, TimelineAssumption DEF Deadline, Duration

LEMMA InitIInv == Init => IInv
  BY TimelineAssumption DEF Init, IInv, TypeOK, NextIsLatest, CadenceKept

LEMMA NextTypeOK == TypeOK /\ [Next]_vars => TypeOK'
<1> SUFFICES ASSUME TypeOK, [Next]_vars PROVE TypeOK'
  OBVIOUS
<1>t. /\ now \in 0..MaxTime
      /\ isoNext \in [Keys -> Nat]
      /\ log \in Seq([endpoint : Endpoints, direction : Directions,
                      packets : PacketCounts, at : Nat, deadline : Nat])
  BY DEF TypeOK
<1>1. ASSUME NEW e \in Endpoints, NEW d \in Directions, NEW n \in PacketCounts,
             Reserve(e, d, n)
      PROVE  TypeOK'
  <2> DEFINE k == TimelineKey(e, d)
             entry == [endpoint |-> e, direction |-> d, packets |-> n, at |-> now,
                       deadline |-> Deadline(isoNext[k], n, now)]
  <2>1. k \in Keys
    BY DEF Keys
  <2>2. Deadline(isoNext[k], n, now) \in Nat
    <3>1. isoNext[k] \in Nat /\ now \in Nat /\ n \in Nat
      BY <1>t, <2>1, TimelineAssumption
    <3> HIDE DEF k
    <3> QED
      BY <3>1, IsoAssumption DEF Deadline, Duration
  <2>3. /\ isoNext' = [isoNext EXCEPT ![k] = Deadline(isoNext[k], n, now)]
        /\ log' = Append(log, entry) /\ now' = now
    BY <1>1 DEF Reserve
  <2>4. entry \in [endpoint : Endpoints, direction : Directions,
                   packets : PacketCounts, at : Nat, deadline : Nat]
    <3>1. now \in Nat
      BY <1>t, TimelineAssumption
    <3> QED
      BY <2>2, <3>1
  <2>5. isoNext' \in [Keys -> Nat]
    BY <1>t, <2>1, <2>2, <2>3
  <2> HIDE DEF entry, k
  <2>6. log' \in Seq([endpoint : Endpoints, direction : Directions,
                      packets : PacketCounts, at : Nat, deadline : Nat])
    BY <1>t, <2>3, <2>4
  <2> QED
    BY <1>t, <2>3, <2>5, <2>6 DEF TypeOK
<1>2. CASE Tick
  BY <1>2, TimelineAssumption DEF Tick, TypeOK
<1>3. CASE UNCHANGED vars
  BY <1>3 DEF vars, TypeOK
<1> QED
  BY <1>1, <1>2, <1>3 DEF Next, BoundsReached

\* What one call of reserveIsoCompletion does to the log.
LEMMA ReserveFacts ==
  ASSUME TypeOK, NEW e \in Endpoints, NEW d \in Directions, NEW n \in PacketCounts,
         Reserve(e, d, n)
  PROVE  LET k == TimelineKey(e, d)
             deadline == Deadline(isoNext[k], n, now)
         IN /\ k \in Keys /\ isoNext[k] \in Nat /\ now \in Nat
            /\ isoNext' = [isoNext EXCEPT ![k] = deadline]
            /\ Len(log') = Len(log) + 1 /\ Len(log) \in Nat
            /\ \A i \in 1..Len(log) : log'[i] = log[i]
            /\ log'[Len(log) + 1] =
                 [endpoint |-> e, direction |-> d, packets |-> n,
                  at |-> now, deadline |-> deadline]
  BY TimelineAssumption DEF Reserve, TypeOK, Keys

LEMMA NextCadence ==
  ASSUME PacketCounts \subseteq 1..MaxIsoWait
  PROVE  IInv /\ [Next]_vars => NextIsLatest' /\ CadenceKept'
<1> SUFFICES ASSUME IInv, [Next]_vars PROVE NextIsLatest' /\ CadenceKept'
  OBVIOUS
<1>types. TypeOK /\ NextIsLatest /\ CadenceKept
  BY DEF IInv
<1>1. ASSUME NEW e \in Endpoints, NEW d \in Directions, NEW n \in PacketCounts,
             Reserve(e, d, n)
      PROVE  NextIsLatest' /\ CadenceKept'
  <2> DEFINE k == TimelineKey(e, d)
             new == Deadline(isoNext[k], n, now)
             last == Len(log) + 1
  <2>1. /\ k \in Keys /\ isoNext[k] \in Nat /\ now \in Nat
        /\ isoNext' = [isoNext EXCEPT ![k] = new]
        /\ Len(log') = last /\ Len(log) \in Nat
        /\ \A i \in 1..Len(log) : log'[i] = log[i]
        /\ log'[last] = [endpoint |-> e, direction |-> d, packets |-> n,
                         at |-> now, deadline |-> new]
    BY <1>1, <1>types, ReserveFacts
  <2>2. new \in Nat /\ new >= now + n /\ new >= isoNext[k] + n /\ n \in Nat /\ n <= MaxIsoWait
    <3>1. n \in Nat /\ n <= MaxIsoWait
      BY TimelineAssumption, IsoAssumption
    <3>2. isoNext[k] \in Nat /\ now \in Nat
      BY <2>1
    <3> HIDE DEF k
    <3> QED
      BY <3>1, <3>2, DeadlineBounds
  <2> HIDE DEF k, new
  <2>3. \A q \in Keys : isoNext[q] \in Nat /\ isoNext'[q] >= isoNext[q] /\ isoNext'[k] = new
    BY <2>1, <2>2, <1>types DEF TypeOK
  <2>4. \A i \in 1..Len(log) :
          /\ TimelineKey(log[i].endpoint, log[i].direction) \in Keys
          /\ log[i].deadline \in Nat
    <3> DEFINE Entry == [endpoint : Endpoints, direction : Directions,
                         packets : PacketCounts, at : Nat, deadline : Nat]
    <3>1. log \in Seq(Entry)
      BY <1>types DEF TypeOK
    <3>2. \A r \in Entry : /\ TimelineKey(r.endpoint, r.direction) \in Keys
                          /\ r.deadline \in Nat
      BY DEF Keys
    <3> HIDE DEF Entry
    <3>3. \A i \in 1..Len(log) : log[i] \in Entry
      BY <3>1
    <3> QED
      BY <3>2, <3>3
  <2>5. ASSUME NEW i \in 1..Len(log')
        PROVE  isoNext'[TimelineKey(log'[i].endpoint, log'[i].direction)] >= log'[i].deadline
    <3>1. CASE i = last
      BY <3>1, <2>1, <2>2, <2>3 DEF k
    <3>2. CASE i \in 1..Len(log)
      <4> DEFINE q == TimelineKey(log[i].endpoint, log[i].direction)
      <4>1. q \in Keys /\ isoNext[q] >= log[i].deadline /\ log[i].deadline \in Nat
        BY <3>2, <2>4, <1>types DEF NextIsLatest
      <4>2. isoNext[q] \in Nat /\ isoNext'[q] \in Nat /\ isoNext'[q] >= isoNext[q]
        BY <4>1, <2>1, <2>2, <2>3, <1>types DEF TypeOK
      <4>3. log'[i] = log[i]
        BY <3>2, <2>1
      <4> HIDE DEF q
      <4>4. isoNext'[q] >= log[i].deadline
        BY <4>1, <4>2
      <4> QED
        BY <4>3, <4>4 DEF q
    <3> QED
      BY <3>1, <3>2, <2>1
  <2>6. ASSUME NEW j \in 1..Len(log')
        PROVE  /\ log'[j].deadline >= log'[j].at + log'[j].packets
               /\ \A i \in 1..j - 1 : SameTimeline(i, j)' =>
                    log'[j].deadline >= log'[i].deadline + log'[j].packets
    <3>1. CASE j = last
      <4>1. ASSUME NEW i \in 1..j - 1, SameTimeline(i, j)'
            PROVE  log'[j].deadline >= log'[i].deadline + log'[j].packets
        <5>1. i \in 1..Len(log) /\ log'[i] = log[i]
          BY <3>1, <2>1
        <5>2. TimelineKey(log[i].endpoint, log[i].direction) = k
          BY <3>1, <4>1, <5>1, <2>1 DEF SameTimeline, k
        <5>3. isoNext[k] >= log[i].deadline /\ log[i].deadline \in Nat
          BY <5>1, <5>2, <2>4, <1>types DEF NextIsLatest
        <5>4. log'[j].deadline = new /\ log'[j].packets = n
          BY <3>1, <2>1
        <5> QED
          BY <5>1, <5>3, <5>4, <2>1, <2>2
      <4>2. log'[j].deadline >= log'[j].at + log'[j].packets
        BY <3>1, <2>1, <2>2
      <4> QED
        BY <4>1, <4>2
    <3>2. CASE j \in 1..Len(log)
      <4>1. \A i \in 1..j : i \in 1..Len(log) /\ log'[i] = log[i]
        BY <3>2, <2>1
      <4> QED
        BY <3>2, <4>1, <2>1, <1>types DEF CadenceKept, SameTimeline
    <3> QED
      BY <3>1, <3>2, <2>1
  <2> QED
    BY <2>5, <2>6 DEF NextIsLatest, CadenceKept
<1>2. CASE Tick
  BY <1>2, <1>types DEF Tick, NextIsLatest, CadenceKept, SameTimeline
<1>3. CASE UNCHANGED vars
  BY <1>3, <1>types DEF vars, NextIsLatest, CadenceKept, SameTimeline
<1> QED
  BY <1>1, <1>2, <1>3 DEF Next, BoundsReached

\* server.go:210-211: the USB frame cadence is kept however deep the host queues,
\* when no URB holds more than MaxIsoWait packets.  The assumption is needed: the
\* run iso_timeline_long breaks the property without it.
THEOREM IsoCadence ==
  ASSUME PacketCounts \subseteq 1..MaxIsoWait
  PROVE  Spec => []CadenceKept
<1>1. IInv /\ [Next]_vars => IInv'
  BY NextTypeOK, NextCadence DEF IInv
<1>2. IInv => CadenceKept
  BY DEF IInv
<1> QED
  BY <1>1, <1>2, InitIInv, PTL DEF Spec

-----------------------------------------------------------------------------
(* Induction, and sums.                                                      *)

\* A set of numbers has a least one: that `<` is well-founded, for sets.
LEMMA LeastNumber ==
  ASSUME NEW S \in SUBSET Nat, S # {}
  PROVE  \E n \in S : \A m \in S : n <= m
<1> DEFINE R == {p \in Nat \X Nat : p[1] < p[2]}
<1>1. IsWellFoundedOn(R, Nat)
  BY NatLessThanWellFounded DEF OpToRel
<1>2. \A m, n \in Nat : m < n => <<m, n>> \in R
  OBVIOUS
<1> HIDE DEF R
<1>3. PICK n \in S : \A m \in S : <<m, n>> \notin R
  BY <1>1, WFMin
<1>4. \A m \in S : ~(m < n) /\ m \in Nat /\ n \in Nat
  BY <1>2, <1>3
<1> QED BY <1>3, <1>4

\* Induction up to n, over a set.
LEMMA Induction ==
  ASSUME NEW n \in Nat, NEW S, 0 \in S, \A i \in 1..n : i - 1 \in S => i \in S
  PROVE  0..n \subseteq S
<1> DEFINE Bad == (0..n) \ S
<1>1. Bad \in SUBSET Nat
  OBVIOUS
<1>2. ASSUME NEW m \in Bad, \A k \in Bad : m <= k PROVE FALSE
  <2>1. m \in 1..n /\ m - 1 \in 0..n
    OBVIOUS
  <2>2. m - 1 \in S
    BY <1>2, <2>1
  <2> QED BY <2>1, <2>2
<1> HIDE DEF Bad
<1>3. Bad = {}
  BY <1>1, <1>2, LeastNumber
<1> QED BY <1>3 DEF Bad

LEMMA SumsExist ==
  ASSUME NEW q \in Seq(Int)
  PROVE  \E f : f = [i \in 0..Len(q) |-> IF i = 0 THEN 0 ELSE f[i - 1] + q[i]]
<1> DEFINE Good(n) == \E f : f = [i \in 0..n |-> IF i = 0 THEN 0 ELSE f[i - 1] + q[i]]
           S == {n \in Nat : Good(n)}
<1>1. Good(0)
  <2>1. [i \in 0..0 |-> 0] = [i \in 0..0 |-> IF i = 0 THEN 0 ELSE [j \in 0..0 |-> 0][i - 1] + q[i]]
    OBVIOUS
  <2> QED BY <2>1
<1>2. ASSUME NEW n \in Nat, Good(n) PROVE Good(n + 1)
  <2>1. PICK f : f = [i \in 0..n |-> IF i = 0 THEN 0 ELSE f[i - 1] + q[i]]
    BY <1>2
  <2>2. PICK g : g = [i \in 0..n + 1 |-> IF i = n + 1 THEN f[n] + q[n + 1] ELSE f[i]]
    OBVIOUS
  <2>3. \A i \in 0..n + 1 : g[i] = IF i = 0 THEN 0 ELSE g[i - 1] + q[i]
    BY <2>1, <2>2
  <2>4. g = [i \in 0..n + 1 |-> IF i = 0 THEN 0 ELSE g[i - 1] + q[i]]
    BY <2>2, <2>3
  <2> QED BY <2>4
<1> HIDE DEF Good
<1>3. 0 \in S /\ \A i \in 1..Len(q) : i - 1 \in S => i \in S
  <2>1. 0 \in S
    BY <1>1
  <2>2. ASSUME NEW i \in 1..Len(q), i - 1 \in S PROVE i \in S
    <3>1. i - 1 \in Nat /\ Good(i - 1) /\ i = (i - 1) + 1 /\ i \in Nat
      BY <2>2
    <3>2. Good((i - 1) + 1)
      BY <1>2, <3>1
    <3> QED BY <3>1, <3>2
  <2> QED BY <2>1, <2>2
<1> HIDE DEF S
<1>4. Len(q) \in Nat /\ Len(q) \in 0..Len(q)
  OBVIOUS
<1>5. Len(q) \in S
  BY <1>3, <1>4, Induction
<1> QED BY <1>5 DEF S, Good

\* A sum is the one before it and its element.
LEMMA SumsStep ==
  ASSUME NEW q \in Seq(Int)
  PROVE  /\ Sums(q)[0] = 0 /\ Len(q) \in Nat
         /\ \A i \in 1..Len(q) : Sums(q)[i] = Sums(q)[i - 1] + q[i]
         /\ \A i \in 0..Len(q) : Sums(q)[i] \in Int
<1>1. Sums(q) = [i \in 0..Len(q) |-> IF i = 0 THEN 0 ELSE Sums(q)[i - 1] + q[i]]
  BY SumsExist DEF Sums
<1>2. /\ Sums(q)[0] = 0 /\ Len(q) \in Nat
      /\ \A i \in 1..Len(q) : Sums(q)[i] = Sums(q)[i - 1] + q[i]
  BY SMTT(20), <1>1
<1> DEFINE S == {i \in 0..Len(q) : Sums(q)[i] \in Int}
<1>3. 0 \in S /\ \A i \in 1..Len(q) : i - 1 \in S => i \in S
  BY <1>2
<1> HIDE DEF S
<1>4. 0..Len(q) \subseteq S
  BY <1>2, <1>3, Induction
<1> QED BY <1>2, <1>4 DEF S

\* The sums of sequences that begin alike begin alike.
LEMMA SumsPrefix ==
  ASSUME NEW q \in Seq(Int), NEW r \in Seq(Int), NEW n \in Nat, n <= Len(q), n <= Len(r),
         \A i \in 1..n : q[i] = r[i]
  PROVE  Sums(q)[n] = Sums(r)[n]
<1> DEFINE S == {i \in 0..n : Sums(q)[i] = Sums(r)[i]}
<1>1. 0 \in S /\ \A i \in 1..n : i - 1 \in S => i \in S
  BY SumsStep
<1> HIDE DEF S
<1>2. 0..n \subseteq S
  BY <1>1, Induction
<1> QED BY <1>2 DEF S

\* What is zero adds nothing.
LEMMA SumsZeros ==
  ASSUME NEW q \in Seq(Int), NEW m \in Nat, NEW n \in Nat, m <= n, n <= Len(q),
         \A i \in m + 1..n : q[i] = 0
  PROVE  Sums(q)[n] = Sums(q)[m]
<1> DEFINE S == {i \in 0..n : i >= m => Sums(q)[i] = Sums(q)[m]}
<1>1. 0 \in S
  OBVIOUS
<1>2. ASSUME NEW i \in 1..n, i - 1 \in S PROVE i \in S
  <2>1. Sums(q)[i] = Sums(q)[i - 1] + q[i] /\ Sums(q)[i - 1] \in Int
    BY SumsStep
  <2> QED BY <1>2, <2>1
<1> HIDE DEF S
<1>3. 0..n \subseteq S
  BY <1>1, <1>2, Induction
<1> QED BY <1>3 DEF S

-----------------------------------------------------------------------------
(* The turns of the timelines: each log entry is argued from the one before  *)
(* it on its timeline.                                                       *)

Entries == [endpoint : Endpoints, direction : Directions, packets : PacketCounts, at : Nat,
            deadline : Nat]

\* The definitions of IsoTimeline, for any log.
SameIn(g, i, j) == g[i].endpoint = g[j].endpoint /\ g[i].direction = g[j].direction
WorkOf(g, i, j) == [k \in 1..j |-> IF i <= k /\ SameIn(g, k, j) THEN Duration(g[k].packets) ELSE 0]
TurnsOf(g, j) == {g[i].at + Total(WorkOf(g, i, j)) : i \in {k \in 1..j : SameIn(g, k, j)}}
InTurn(g, j) == g[j].deadline \in TurnsOf(g, j) /\ \A t \in TurnsOf(g, j) : t <= g[j].deadline

LEMMA EntryFits ==
  ASSUME NEW g \in Seq(Entries), NEW i \in 1..Len(g)
  PROVE  /\ g[i].at \in Nat /\ g[i].deadline \in Nat /\ g[i].packets \in Nat \ {0}
         /\ g[i].endpoint \in Endpoints /\ g[i].direction \in Directions
         /\ Duration(g[i].packets) \in Nat
         /\ Duration(g[i].packets) = 0 <=> MaxIsoWait = 0
<1> DEFINE e == g[i]
<1>1. e \in Entries
  OBVIOUS
<1> HIDE DEF e
<1>2. /\ e.at \in Nat /\ e.deadline \in Nat /\ e.packets \in PacketCounts
      /\ e.endpoint \in Endpoints /\ e.direction \in Directions
  BY <1>1 DEF Entries
<1>3. \A n \in PacketCounts : n \in Nat \ {0}
  BY TimelineAssumption
<1>4. \A n \in Nat \ {0} : Duration(n) \in Nat /\ (Duration(n) = 0 <=> MaxIsoWait = 0)
  BY IsoAssumption DEF Duration
<1> QED BY <1>2, <1>3, <1>4 DEF e

LEMMA WorkFits ==
  ASSUME NEW g \in Seq(Entries), NEW j \in 1..Len(g), NEW i \in Int
  PROVE  /\ WorkOf(g, i, j) \in Seq(Int) /\ Len(WorkOf(g, i, j)) = j
         /\ \A k \in 1..j : WorkOf(g, i, j)[k] =
                              IF i <= k /\ SameIn(g, k, j) THEN Duration(g[k].packets) ELSE 0
         /\ Total(WorkOf(g, i, j)) = Sums(WorkOf(g, i, j))[j]
<1>1. \A k \in 1..j : Duration(g[k].packets) \in Nat
  BY EntryFits
<1>2. WorkOf(g, i, j) \in Seq(Int) /\ Len(WorkOf(g, i, j)) = j
  BY <1>1 DEF WorkOf
<1> QED BY <1>2 DEF WorkOf, Total

\* What is logged later changes no turn.
LEMMA TurnKept ==
  ASSUME NEW g \in Seq(Entries), NEW h \in Seq(Entries), NEW j \in 1..Len(g),
         Len(g) <= Len(h), \A k \in 1..Len(g) : h[k] = g[k], InTurn(g, j)
  PROVE  InTurn(h, j)
<1>1. \A k \in 1..j : h[k] = g[k] /\ (SameIn(h, k, j) <=> SameIn(g, k, j))
  BY DEF SameIn
<1>2. \A i : WorkOf(h, i, j) = WorkOf(g, i, j)
  BY <1>1 DEF WorkOf
<1>3. TurnsOf(h, j) = TurnsOf(g, j)
  BY <1>1, <1>2 DEF TurnsOf
<1> QED BY <1>1, <1>3 DEF InTurn

LEMMA OwnWork ==
  ASSUME NEW h \in Seq(Entries), NEW n \in 1..Len(h)
  PROVE  Total(WorkOf(h, n, n)) = Duration(h[n].packets)
<1> DEFINE W == WorkOf(h, n, n)
<1>0. n \in Int /\ n \in Nat \ {0} /\ SameIn(h, n, n)
  BY DEF SameIn
<1>1. /\ W \in Seq(Int) /\ Len(W) = n /\ Total(W) = Sums(W)[n]
      /\ \A k \in 1..n : W[k] = IF n <= k /\ SameIn(h, k, n) THEN Duration(h[k].packets) ELSE 0
  BY <1>0, WorkFits
<1> HIDE DEF W
<1>5. W[n] = Duration(h[n].packets) /\ \A k \in 1..n - 1 : W[k] = 0
  BY <1>0, <1>1
<1>2. Sums(W)[n - 1] = Sums(W)[0]
  BY <1>0, <1>1, <1>5, SumsZeros
<1>3. Sums(W)[n] = Sums(W)[n - 1] + W[n] /\ Sums(W)[0] = 0
  BY <1>0, <1>1, SumsStep
<1>4. Duration(h[n].packets) \in Nat
  BY EntryFits
<1> QED BY <1>1, <1>2, <1>3, <1>4, <1>5 DEF W

LEMMA FirstTurn ==
  ASSUME NEW h \in Seq(Entries), NEW n \in 1..Len(h), \A i \in 1..n - 1 : ~SameIn(h, i, n),
         h[n].deadline = h[n].at + Duration(h[n].packets)
  PROVE  InTurn(h, n)
<1>1. {k \in 1..n : SameIn(h, k, n)} = {n}
  BY DEF SameIn
<1>2. TurnsOf(h, n) = {h[n].deadline}
  BY <1>1, OwnWork DEF TurnsOf
<1>3. h[n].deadline \in Nat
  BY EntryFits
<1> QED BY <1>2, <1>3 DEF InTurn

\* Entry p is the last before n on its timeline: all that was ahead of p is ahead of n, and
\* p itself.
LEMMA LaterWork ==
  ASSUME NEW h \in Seq(Entries), NEW n \in 1..Len(h), NEW p \in 1..n - 1, SameIn(h, p, n),
         \A m \in p + 1..n - 1 : ~SameIn(h, m, n), NEW i \in 1..p
  PROVE  /\ Total(WorkOf(h, i, p)) \in Int
         /\ Total(WorkOf(h, i, n)) = Total(WorkOf(h, i, p)) + Duration(h[n].packets)
<1> DEFINE W == WorkOf(h, i, n)
           V == WorkOf(h, i, p)
<1>1. /\ p \in 1..Len(h) /\ i \in Int /\ n \in Nat /\ p \in Nat /\ i <= n /\ p <= n - 1
      /\ SameIn(h, n, n) /\ \A k \in 1..p : SameIn(h, k, n) <=> SameIn(h, k, p)
  BY DEF SameIn
<1>2. /\ W \in Seq(Int) /\ Len(W) = n /\ Total(W) = Sums(W)[n]
      /\ \A k \in 1..n : W[k] = IF i <= k /\ SameIn(h, k, n) THEN Duration(h[k].packets) ELSE 0
  BY <1>1, WorkFits
<1>3. /\ V \in Seq(Int) /\ Len(V) = p /\ Total(V) = Sums(V)[p]
      /\ \A k \in 1..p : V[k] = IF i <= k /\ SameIn(h, k, p) THEN Duration(h[k].packets) ELSE 0
  BY <1>1, WorkFits
<1> HIDE DEF W, V
<1>4. W[n] = Duration(h[n].packets) /\ \A k \in p + 1..n - 1 : W[k] = 0
  BY <1>1, <1>2
<1>8. \A k \in 1..p : W[k] = V[k]
  BY <1>1, <1>2, <1>3
<1>5. Sums(W)[n - 1] = Sums(W)[p]
  BY SMTT(20), <1>1, <1>2, <1>4, SumsZeros
<1>6. Sums(W)[p] = Sums(V)[p]
  BY <1>1, <1>2, <1>3, <1>8, SumsPrefix
<1>7. Sums(W)[n] = Sums(W)[n - 1] + W[n] /\ Sums(V)[p] \in Int
  <2>1. n \in 1..Len(W) /\ p \in 0..Len(V)
    BY <1>1, <1>2, <1>3
  <2> QED BY <1>2, <1>3, <2>1, SumsStep
<1> QED BY <1>2, <1>3, <1>4, <1>5, <1>6, <1>7 DEF W, V

LEMMA NextTurn ==
  ASSUME NEW h \in Seq(Entries), NEW n \in 1..Len(h), NEW p \in 1..n - 1, SameIn(h, p, n),
         \A m \in p + 1..n - 1 : ~SameIn(h, m, n), InTurn(h, p),
         h[n].deadline = (IF h[p].deadline < h[n].at THEN h[n].at ELSE h[p].deadline)
                           + Duration(h[n].packets)
  PROVE  InTurn(h, n)
<1> DEFINE d == Duration(h[n].packets)
<1>1. /\ p \in 1..Len(h) /\ h[p].deadline \in Nat /\ h[n].at \in Nat /\ h[n].deadline \in Nat
      /\ d \in Nat
  BY EntryFits
<1>2. ASSUME NEW i \in 1..p
      PROVE  /\ h[i].at \in Nat /\ Total(WorkOf(h, i, p)) \in Int
             /\ Total(WorkOf(h, i, n)) = Total(WorkOf(h, i, p)) + d
  <2>1. i \in 1..Len(h)
    BY <1>1
  <2> QED BY <2>1, LaterWork, EntryFits
<1>3. \A i \in 1..p : SameIn(h, i, n) <=> SameIn(h, i, p)
  BY DEF SameIn
<1>4. \A i \in 1..n : SameIn(h, i, n) <=> i = n \/ (i \in 1..p /\ SameIn(h, i, p))
  BY <1>3 DEF SameIn
<1>5. Total(WorkOf(h, n, n)) = d
  BY OwnWork
<1> HIDE DEF d
<1>6. h[n].at + d \in TurnsOf(h, n)
  BY <1>4, <1>5 DEF TurnsOf
<1>7. ASSUME NEW t \in TurnsOf(h, p) PROVE t \in Int /\ t + d \in TurnsOf(h, n)
  <2>1. PICK i \in 1..p : SameIn(h, i, p) /\ t = h[i].at + Total(WorkOf(h, i, p))
    BY DEF TurnsOf
  <2>2. i \in 1..n /\ SameIn(h, i, n)
    BY <1>4, <2>1
  <2>3. t + d = h[i].at + Total(WorkOf(h, i, n)) /\ t \in Int
    <3>1. PICK x, w, v : /\ x = h[i].at /\ w = Total(WorkOf(h, i, p)) /\ v = Total(WorkOf(h, i, n))
                         /\ x \in Nat /\ w \in Int /\ v = w + d
      BY <1>2
    <3>2. t = x + w
      BY <2>1, <3>1
    <3>3. x + w + d = x + v /\ x + w \in Int
      BY SMTT(20), <1>1, <3>1
    <3> QED BY <3>1, <3>2, <3>3
  <2> QED BY <2>2, <2>3 DEF TurnsOf
<1>8. ASSUME NEW t \in TurnsOf(h, n) PROVE t = h[n].at + d \/ \E s \in TurnsOf(h, p) : t = s + d
  <2>1. PICK i \in 1..n : SameIn(h, i, n) /\ t = h[i].at + Total(WorkOf(h, i, n))
    BY DEF TurnsOf
  <2>2. CASE i = n
    BY <1>5, <2>1, <2>2
  <2>3. CASE i \in 1..p /\ SameIn(h, i, p)
    <3>1. h[i].at + Total(WorkOf(h, i, p)) \in TurnsOf(h, p)
      BY <2>3 DEF TurnsOf
    <3>2. t = (h[i].at + Total(WorkOf(h, i, p))) + d
      BY SMTT(20), <1>1, <1>2, <2>1, <2>3
    <3> QED BY <3>1, <3>2
  <2> QED BY <1>4, <2>1, <2>2, <2>3
<1>9. h[p].deadline \in TurnsOf(h, p) /\ \A t \in TurnsOf(h, p) : t <= h[p].deadline
  BY DEF InTurn
<1>10. h[n].deadline \in TurnsOf(h, n)
  <2>1. h[n].deadline \in {h[n].at + d, h[p].deadline + d}
    BY DEF d
  <2> QED BY <1>6, <1>7, <1>9, <2>1
<1>11. ASSUME NEW t \in TurnsOf(h, n) PROVE t <= h[n].deadline
  <2>1. h[n].deadline = (IF h[p].deadline < h[n].at THEN h[n].at ELSE h[p].deadline) + d
    BY DEF d
  <2>2. CASE t = h[n].at + d
    BY <1>1, <2>1, <2>2
  <2>3. ASSUME NEW s \in TurnsOf(h, p), t = s + d PROVE t <= h[n].deadline
    <3>1. s \in Int /\ s <= h[p].deadline
      BY <1>7, <1>9
    <3> QED BY <1>1, <2>1, <2>3, <3>1
  <2> QED BY <1>8, <2>2, <2>3
<1> QED BY <1>10, <1>11 DEF InTurn

KeyOf(i) == TimelineKey(log[i].endpoint, log[i].direction)

\* isoNext of a timeline is the deadline of its last entry.
LastGiven ==
  \A k \in Keys :
    \/ isoNext[k] = 0 /\ \A i \in 1..Len(log) : KeyOf(i) # k
    \/ \E p \in 1..Len(log) : /\ KeyOf(p) = k /\ log[p].deadline = isoNext[k]
                              /\ \A m \in p + 1..Len(log) : KeyOf(m) # k

\* A timeline that never waits is never ahead of the clock.
NoWait == MaxIsoWait = 0 => \A i \in 1..Len(log) : log[i].deadline <= now

TurnInv == LastGiven /\ NoWait /\ \A j \in 1..Len(log) : InTurn(log, j)

\* Endpoint numbers of 16 bits do not reach the direction in the key.
LEMMA KeyForm ==
  ASSUME NEW e \in Nat, NEW d, e < 65536
  PROVE  TimelineKey(e, d) = IF d = 1 THEN e + 65536 ELSE e
<1>1. (e \div 65536) % 2 = 0
  OBVIOUS
<1> QED BY <1>1 DEF TimelineKey, DirectionIn

LEMMA KeysApart ==
  ASSUME NEW e \in Nat, NEW f \in Nat, NEW d \in Directions, NEW g \in Directions,
         e < 65536, f < 65536, TimelineKey(e, d) = TimelineKey(f, g)
  PROVE  e = f /\ d = g
<1>1. d \in {0, 1} /\ g \in {0, 1}
  BY DEF Directions, DirectionIn, DirectionOut
<1>2. PICK b : b = 65536
  OBVIOUS
<1>3. b \in Nat /\ e < b /\ f < b
  BY <1>2
<1>4. (IF d = 1 THEN e + b ELSE e) = (IF g = 1 THEN f + b ELSE f)
  BY <1>2, KeyForm
<1> QED BY <1>1, <1>3, <1>4

LEMMA ReserveTurn ==
  ASSUME \A e \in Endpoints : e < 65536, TypeOK, TypeOK', TurnInv,
         NEW e \in Endpoints, NEW d \in Directions, NEW n \in PacketCounts, Reserve(e, d, n)
  PROVE  TurnInv'
<1> DEFINE k == TimelineKey(e, d)
           new == Deadline(isoNext[k], n, now)
<1>a. log \in Seq(Entries) /\ log' \in Seq(Entries) /\ isoNext \in [Keys -> Nat]
  BY DEF TypeOK, Entries
<1>1. PICK last \in Nat : last = Len(log) + 1
  BY <1>a
<1>b. now' = now
  BY DEF Reserve
<1>2. /\ k \in Keys /\ isoNext[k] \in Nat /\ now \in Nat /\ now' = now
      /\ isoNext' = [isoNext EXCEPT ![k] = new] /\ isoNext \in [Keys -> Nat]
      /\ Len(log') = last /\ Len(log) \in Nat
      /\ \A i \in 1..Len(log) : log'[i] = log[i]
      /\ log'[last] = [endpoint |-> e, direction |-> d, packets |-> n, at |-> now, deadline |-> new]
      /\ log \in Seq(Entries) /\ log' \in Seq(Entries)
  BY <1>a, <1>b, <1>1, ReserveFacts
<1>3. /\ n \in Nat \ {0} /\ Duration(n) \in Nat /\ (Duration(n) = 0 <=> MaxIsoWait = 0)
  <2>1. n \in Nat \ {0}
    BY TimelineAssumption
  <2> QED BY <2>1, IsoAssumption DEF Duration
<1>4. /\ log'[last].endpoint = e /\ log'[last].direction = d /\ log'[last].packets = n
      /\ log'[last].at = now /\ log'[last].deadline = new
  BY <1>2
<1>5. /\ last \in 1..Len(log') /\ \A i \in 1..Len(log') : i = last \/ i \in 1..Len(log)
      /\ \A i \in 1..Len(log) : i # last /\ i \in 1..last - 1
      /\ \A i \in 1..last - 1 : i \in 1..Len(log)
  BY <1>1, <1>2
<1>6. ASSUME NEW i \in 1..Len(log) PROVE SameIn(log', i, last) <=> KeyOf(i) = k
  <2>1. log[i].endpoint \in Endpoints /\ log[i].direction \in Directions
    BY <1>2, EntryFits
  <2>2. log[i].endpoint \in Nat /\ log[i].endpoint < 65536 /\ e \in Nat /\ e < 65536
    BY SMTT(20), <2>1, TimelineAssumption
  <2>3. KeyOf(i) = k => log[i].endpoint = e /\ log[i].direction = d
    BY <2>1, <2>2, KeysApart DEF KeyOf
  <2>4. log'[i] = log[i]
    BY <1>2
  <2> QED BY <1>4, <2>3, <2>4 DEF SameIn, KeyOf
<1>7. \/ new = (IF isoNext[k] < now THEN now ELSE isoNext[k]) + Duration(n)
      \/ MaxIsoWait = 0 /\ new = now /\ Duration(n) = 0
  BY <1>3 DEF Deadline
<1>8. new \in Nat
  <2> HIDE DEF k
  <2> QED BY <1>2, <1>3 DEF Deadline
<1>9. \A i \in 1..Len(log) : KeyOf(i)' = KeyOf(i)
  BY <1>2 DEF KeyOf
<1>10. KeyOf(last)' = k
  BY <1>4 DEF KeyOf
<1> HIDE DEF k, new
<1>11. isoNext'[k] = new /\ \A q \in Keys \ {k} : isoNext'[q] = isoNext[q]
  BY <1>2
<1>12. InTurn(log', last)
  <2>1. CASE isoNext[k] = 0 /\ \A i \in 1..Len(log) : KeyOf(i) # k
    <3>1. \A i \in 1..last - 1 : ~SameIn(log', i, last)
      BY <1>5, <1>6, <2>1
    <3>2. new = now + Duration(n)
      BY <1>2, <1>3, <1>7, <2>1
    <3> QED BY <1>2, <1>4, <1>5, <3>1, <3>2, FirstTurn
  <2>2. ASSUME NEW p \in 1..Len(log), KeyOf(p) = k, log[p].deadline = isoNext[k],
               \A m \in p + 1..Len(log) : KeyOf(m) # k
        PROVE  InTurn(log', last)
    <3>1. p \in 1..last - 1 /\ SameIn(log', p, last) /\ log'[p] = log[p]
      BY <1>2, <1>5, <1>6, <2>2
    <3>2. \A m \in p + 1..last - 1 : ~SameIn(log', m, last)
      BY <1>1, <1>6, <2>2
    <3>3. InTurn(log', p)
      BY <1>1, <1>2, TurnKept DEF TurnInv
    <3>4. new = (IF isoNext[k] < now THEN now ELSE isoNext[k]) + Duration(n)
      <4>1. MaxIsoWait = 0 => log[p].deadline <= now
        BY <2>2 DEF TurnInv, NoWait
      <4>2. new = now /\ Duration(n) = 0 /\ isoNext[k] <= now =>
              new = (IF isoNext[k] < now THEN now ELSE isoNext[k]) + Duration(n)
        BY <1>2
      <4> QED BY <1>7, <2>2, <4>1, <4>2
    <3>5. log'[last].deadline = (IF log'[p].deadline < log'[last].at THEN log'[last].at
                                 ELSE log'[p].deadline) + Duration(log'[last].packets)
      BY <1>4, <2>2, <3>1, <3>4
    <3>6. log' \in Seq(Entries) /\ last \in 1..Len(log') /\ p \in 1..last - 1 /\ SameIn(log', p, last)
      BY <1>2, <1>5, <3>1
    <3> QED BY <3>2, <3>3, <3>5, <3>6, NextTurn
  <2> QED BY <1>2, <2>1, <2>2 DEF TurnInv, LastGiven
<1>13. \A j \in 1..Len(log') : InTurn(log', j)
  <2>1. ASSUME NEW j \in 1..Len(log) PROVE InTurn(log', j)
    BY <1>1, <1>2, TurnKept DEF TurnInv
  <2> QED BY <1>5, <1>12, <2>1
<1>14. NoWait'
  <2>1. MaxIsoWait = 0 => new = now
    BY <1>3 DEF new, Deadline
  <2> QED BY <1>2, <1>4, <1>5, <2>1 DEF TurnInv, NoWait
<1>15. LastGiven'
  <2> SUFFICES ASSUME NEW q \in Keys
               PROVE  \/ isoNext'[q] = 0 /\ \A i \in 1..Len(log') : KeyOf(i)' # q
                      \/ \E p \in 1..Len(log') : /\ KeyOf(p)' = q /\ log'[p].deadline = isoNext'[q]
                                                 /\ \A m \in p + 1..Len(log') : KeyOf(m)' # q
    BY DEF LastGiven
  <2>1. CASE q = k
    <3>1. \A m \in last + 1..Len(log') : FALSE
      BY <1>2
    <3> QED BY <1>4, <1>5, <1>10, <1>11, <2>1, <3>1
  <2>2. CASE q # k /\ isoNext[q] = 0 /\ \A i \in 1..Len(log) : KeyOf(i) # q
    BY <1>5, <1>9, <1>10, <1>11, <2>2
  <2>3. ASSUME NEW p \in 1..Len(log), q # k, KeyOf(p) = q, log[p].deadline = isoNext[q],
               \A m \in p + 1..Len(log) : KeyOf(m) # q
        PROVE  /\ p \in 1..Len(log') /\ KeyOf(p)' = q /\ log'[p].deadline = isoNext'[q]
               /\ \A m \in p + 1..Len(log') : KeyOf(m)' # q
    <3>1. p \in 1..Len(log') /\ KeyOf(p)' = q /\ log'[p].deadline = isoNext'[q]
      BY <1>1, <1>2, <1>9, <1>11, <2>3
    <3>2. ASSUME NEW m \in p + 1..Len(log') PROVE KeyOf(m)' # q
      <4>1. m = last \/ m \in p + 1..Len(log)
        BY <1>1, <1>2
      <4>2. m \in p + 1..Len(log) => m \in 1..Len(log)
        BY <1>2
      <4> QED BY <1>9, <1>10, <2>3, <4>1, <4>2
    <3> QED BY <3>1, <3>2
  <2> QED BY <2>1, <2>2, <2>3 DEF TurnInv, LastGiven
<1> QED BY <1>13, <1>14, <1>15 DEF TurnInv

LEMMA TimelineTurns ==
  ASSUME \A e \in Endpoints : e < 65536
  PROVE  Spec => [](TypeOK /\ TurnInv)
<1>1. Init => TypeOK /\ TurnInv
  <2>1. Init => TypeOK
    BY InitIInv DEF IInv
  <2>2. Init => TurnInv
    BY DEF Init, TurnInv, LastGiven, NoWait
  <2> QED BY <2>1, <2>2
<1>2. TypeOK /\ TurnInv /\ [Next]_vars => (TypeOK /\ TurnInv)'
  <2> SUFFICES ASSUME TypeOK, TurnInv, [Next]_vars PROVE TypeOK' /\ TurnInv'
    OBVIOUS
  <2>1. TypeOK'
    BY NextTypeOK
  <2>2. CASE \E e \in Endpoints, d \in Directions, n \in PacketCounts : Reserve(e, d, n)
    BY <2>1, <2>2, ReserveTurn
  <2>3. CASE Tick
    <3>1. isoNext' = isoNext /\ log' = log /\ now' >= now /\ now \in Int /\ now' \in Int
      BY <2>1, <2>3 DEF Tick, TypeOK
    <3>2. \A i \in 1..Len(log) : log[i].deadline \in Nat
      <4>1. log \in Seq(Entries)
        BY DEF TypeOK, Entries
      <4> QED BY <4>1, EntryFits
    <3>3. LastGiven' /\ NoWait'
      BY <3>1, <3>2 DEF TurnInv, LastGiven, NoWait, KeyOf
    <3>4. \A j \in 1..Len(log') : InTurn(log', j)
      BY <3>1 DEF TurnInv
    <3> QED BY <2>1, <3>3, <3>4 DEF TurnInv
  <2>4. CASE UNCHANGED vars
    <3>1. isoNext' = isoNext /\ log' = log /\ now' = now
      BY <2>4 DEF vars
    <3>2. LastGiven' /\ NoWait'
      BY <3>1 DEF TurnInv, LastGiven, NoWait, KeyOf
    <3>3. \A j \in 1..Len(log') : InTurn(log', j)
      BY <3>1 DEF TurnInv
    <3> QED BY <2>1, <3>2, <3>3 DEF TurnInv
  <2> QED BY <2>1, <2>2, <2>3, <2>4 DEF Next, BoundsReached
<1> QED BY <1>1, <1>2, PTL DEF Spec

\* A URB is completed exactly when its turn on its own timeline comes, neither earlier nor
\* later, and no other endpoint or direction delays it: for any endpoints, packet counts,
\* cap and arrival times.  Endpoint numbers of more than 16 bits would share keys.
THEOREM TimelineInTurn ==
  ASSUME \A e \in Endpoints : e < 65536
  PROVE  Spec => []CompletesInTurn
<1>1. TypeOK /\ TurnInv => CompletesInTurn
  <2> SUFFICES ASSUME TypeOK, TurnInv, NEW j \in 1..Len(log)
               PROVE  log[j].deadline = Max(Turns(j))
    BY DEF CompletesInTurn
  <2>1. Turns(j) = TurnsOf(log, j)
    BY DEF Turns, TurnsOf, Backlog, WorkOf, SameTimeline, SameIn
  <2>2. PICK m : m = log[j].deadline /\ m \in Turns(j) /\ \A t \in Turns(j) : t <= m
    BY <2>1 DEF TurnInv, InTurn
  <2>3. Turns(j) \subseteq Int
    <3>1. ASSUME NEW i \in 1..j PROVE log[i].at + Total(WorkOf(log, i, j)) \in Int
      <4>1. log \in Seq(Entries) /\ i \in 1..Len(log) /\ i \in Int /\ j \in Nat
        BY DEF TypeOK, Entries
      <4>2. /\ WorkOf(log, i, j) \in Seq(Int) /\ Len(WorkOf(log, i, j)) = j
            /\ Total(WorkOf(log, i, j)) = Sums(WorkOf(log, i, j))[j]
        BY <4>1, WorkFits
      <4>3. Total(WorkOf(log, i, j)) \in Int
        BY <4>1, <4>2, SumsStep
      <4>4. log[i].at \in Int
        BY <4>1, EntryFits
      <4> QED BY <4>3, <4>4
    <3> QED BY <2>1, <3>1 DEF TurnsOf
  <2>4. \A t \in Turns(j) : (\A s \in Turns(j) : t >= s) => t = m
    BY <2>2, <2>3
  <2>5. \A s \in Turns(j) : m >= s
    BY <2>2, <2>3
  <2> QED BY <2>2, <2>4, <2>5 DEF Max
<1> QED BY <1>1, TimelineTurns, PTL

-----------------------------------------------------------------------------
(* The stream keeps the timelines.                                           *)

\* What waits for its turn is isochronous, and of a host that follows the protocol.
LEMMA WaitsIsIso ==
  ASSUME NEW s \in Requests, Parses(s), ~Served(s)
  PROVE  s.endpoint \in Endpoints /\ s.direction \in Directions /\ s.packets \in PacketCounts
<1>1. s.packets # NoIsoPackets /\ s.packets # 0
  BY DEF Served, IsIsochronous
<1>2. s.iso
  BY <1>1, StreamAssumption
<1> QED BY <1>2, StreamAssumption

\* The reader reserves as IsoTimeline does, and nothing else touches a timeline, whatever
\* the host submits and however its URBs end (server.go:338-350).
THEOREM StreamImplementsTimeline == StreamSpec => ImplementsTimeline
<1>1. InitStream => Init
  BY DEF InitStream
<1>2. [NextStream]_streamVars => [Next]_vars
  <2> SUFFICES ASSUME [NextStream]_streamVars PROVE [Next]_vars
    OBVIOUS
  <2>1. ASSUME NEW s \in Requests, Queue(s) PROVE Next
    <3>1. Parses(s) /\ ~Served(s) /\ Reserve(s.endpoint, s.direction, s.packets)
      BY <2>1 DEF Queue
    <3> QED BY <3>1, WaitsIsIso DEF Next
  <2>2. ASSUME NEW s \in Requests, Reject(s) \/ Serve(s) PROVE UNCHANGED vars
    BY <2>2 DEF Reject, Serve
  <2>3. ASSUME NEW q \in queued, Complete(q) \/ GiveBack(q) PROVE UNCHANGED vars
    BY <2>3 DEF Complete, GiveBack, Write
  <2>4. CASE PassTime
    BY <2>4 DEF PassTime, Next
  <2>5. CASE Over \/ UNCHANGED streamVars
    BY <2>5 DEF Over, streamVars
  <2> QED BY <2>1, <2>2, <2>3, <2>4, <2>5 DEF NextStream
<1> QED BY <1>1, <1>2, PTL DEF StreamSpec, ImplementsTimeline, Spec

-----------------------------------------------------------------------------
(* What a reply's packets account for.                                       *)

LEMMA LeftExists ==
  ASSUME NEW q \in Seq(Nat), NEW a \in Nat
  PROVE  \E f : f = [i \in 0..Len(q) |-> IF i = 0 THEN a ELSE f[i - 1] - Least(q[i], f[i - 1])]
<1> DEFINE Good(n) == \E f : f = [i \in 0..n |-> IF i = 0 THEN a
                                                ELSE f[i - 1] - Least(q[i], f[i - 1])]
           S == {n \in Nat : Good(n)}
<1>1. Good(0)
  <2>1. [i \in 0..0 |-> a] = [i \in 0..0 |-> IF i = 0 THEN a ELSE [j \in 0..0 |-> a][i - 1]
                                - Least(q[i], [j \in 0..0 |-> a][i - 1])]
    OBVIOUS
  <2> QED BY <2>1
<1>2. ASSUME NEW n \in Nat, Good(n) PROVE Good(n + 1)
  <2>1. PICK f : f = [i \in 0..n |-> IF i = 0 THEN a ELSE f[i - 1] - Least(q[i], f[i - 1])]
    BY <1>2
  <2>2. PICK g : g = [i \in 0..n + 1 |-> IF i = n + 1 THEN f[n] - Least(q[n + 1], f[n]) ELSE f[i]]
    OBVIOUS
  <2>3. \A i \in 0..n + 1 : g[i] = IF i = 0 THEN a ELSE g[i - 1] - Least(q[i], g[i - 1])
    BY <2>1, <2>2
  <2>4. g = [i \in 0..n + 1 |-> IF i = 0 THEN a ELSE g[i - 1] - Least(q[i], g[i - 1])]
    BY <2>2, <2>3
  <2> QED BY <2>4
<1> HIDE DEF Good
<1>3. 0 \in S /\ \A i \in 1..Len(q) : i - 1 \in S => i \in S
  <2>1. 0 \in S
    BY <1>1
  <2>2. ASSUME NEW i \in 1..Len(q), i - 1 \in S PROVE i \in S
    <3>1. i - 1 \in Nat /\ Good(i - 1) /\ i = (i - 1) + 1 /\ i \in Nat
      BY <2>2
    <3>2. Good((i - 1) + 1)
      BY <1>2, <3>1
    <3> QED BY <3>1, <3>2
  <2> QED BY <2>1, <2>2
<1> HIDE DEF S
<1>4. Len(q) \in Nat /\ Len(q) \in 0..Len(q)
  OBVIOUS
<1>5. Len(q) \in S
  BY <1>3, <1>4, Induction
<1> QED BY <1>5 DEF S, Good

\* Each packet takes what is left, up to its length, and so at last nothing is left of what
\* the packets have room for.
LEMMA LeftStep ==
  ASSUME NEW q \in Seq(Nat), NEW a \in Nat, a <= Total(q)
  PROVE  LET left == Left(q, a)
         IN /\ left[0] = a /\ left[Len(q)] = 0
            /\ \A i \in 0..Len(q) : left[i] \in Nat
            /\ \A i \in 1..Len(q) : left[i - 1] - left[i] \in 0..q[i]
<1> DEFINE left == Left(q, a)
           S == {i \in 0..Len(q) : left[i] \in Nat /\ (left[i] = 0 \/ left[i] + Sums(q)[i] = a)}
<1>1. left = [i \in 0..Len(q) |-> IF i = 0 THEN a ELSE left[i - 1] - Least(q[i], left[i - 1])]
  BY LeftExists DEF Left
<1>2. /\ q \in Seq(Int) /\ Len(q) \in Nat /\ Sums(q)[0] = 0
      /\ \A i \in 1..Len(q) : Sums(q)[i] = Sums(q)[i - 1] + q[i] /\ q[i] \in Nat
      /\ \A i \in 0..Len(q) : Sums(q)[i] \in Int
  <2>1. q \in Seq(Int)
    OBVIOUS
  <2> QED BY <2>1, SumsStep
<1>3. /\ left[0] = a
      /\ \A i \in 1..Len(q) : left[i] = left[i - 1] - Least(q[i], left[i - 1])
  BY <1>1, <1>2
<1> HIDE DEF left
<1>4. 0 \in S
  BY <1>2, <1>3
<1>5. ASSUME NEW i \in 1..Len(q), i - 1 \in S
      PROVE  i \in S /\ left[i - 1] - left[i] \in 0..q[i]
  <2>1. PICK x, y, t, u, v :
          /\ x = left[i - 1] /\ y = left[i] /\ t = q[i] /\ u = Sums(q)[i - 1] /\ v = Sums(q)[i]
    OBVIOUS
  <2>2. /\ x \in Nat /\ t \in Nat /\ u \in Int /\ v = u + t /\ (x = 0 \/ x + u = a)
        /\ y = x - (IF t < x THEN t ELSE x)
    BY <1>2, <1>3, <1>5, <2>1 DEF Least
  <2>3. y \in Nat /\ (y = 0 \/ y + v = a) /\ x - y \in 0..t
    BY <2>2
  <2> QED BY <2>1, <2>3
<1> HIDE DEF S
<1>6. 0..Len(q) \subseteq S
  BY <1>2, <1>4, <1>5, Induction
<1>7. \A i \in 0..Len(q) : left[i] \in Nat /\ (left[i] = 0 \/ left[i] + Sums(q)[i] = a)
  BY <1>6 DEF S
<1>8. \A i \in 1..Len(q) : left[i - 1] - left[i] \in 0..q[i]
  <2> TAKE i \in 1..Len(q)
  <2>1. i - 1 \in 0..Len(q)
    BY <1>2
  <2>2. i - 1 \in S
    BY <1>6, <2>1
  <2> QED BY <1>5, <2>2
<1>9. left[Len(q)] = 0
  BY <1>2, <1>7 DEF Total
<1> QED BY <1>3, <1>7, <1>8, <1>9 DEF left

\* markIsoPackets splits what was moved among the packets, and drops none of it.
LEMMA PacketsAddUp ==
  ASSUME NEW q \in Seq(Nat), NEW a \in Nat, a <= Total(q), NEW m, m = MarkIsoPackets(q, a)
  PROVE  /\ Len(m) = Len(q)
         /\ \A i \in 1..Len(m) : m[i].actual <= q[i]
         /\ Total([i \in 1..Len(m) |-> m[i].actual]) = a
<1> DEFINE left == Left(q, a)
           got == [i \in 1..Len(q) |-> left[i - 1] - left[i]]
           S == {i \in 0..Len(q) : Sums(got)[i] = a - left[i]}
<1>1. /\ Len(q) \in Nat /\ left[0] = a /\ left[Len(q)] = 0
      /\ \A i \in 0..Len(q) : left[i] \in Nat
      /\ \A i \in 1..Len(q) : left[i - 1] - left[i] \in 0..q[i] /\ q[i] \in Nat
  BY LeftStep
<1> HIDE DEF left
<1>2. Len(m) = Len(q) /\ \A i \in 1..Len(q) : m[i].actual = left[i - 1] - left[i]
  BY <1>1 DEF MarkIsoPackets, left
<1>3. [i \in 1..Len(m) |-> m[i].actual] = got
  BY <1>2
<1>4. got \in Seq(Int) /\ Len(got) = Len(q) /\ \A i \in 1..Len(q) : got[i] = left[i - 1] - left[i]
  BY <1>1
<1> HIDE DEF got
<1>5. /\ Sums(got)[0] = 0 /\ \A i \in 1..Len(q) : Sums(got)[i] = Sums(got)[i - 1] + got[i]
  BY <1>4, SumsStep
<1>6. 0 \in S /\ \A i \in 1..Len(q) : i - 1 \in S => i \in S
  <2>1. 0 \in S
    BY <1>1, <1>5
  <2>2. ASSUME NEW i \in 1..Len(q), i - 1 \in S PROVE i \in S
    <3>1. i \in 0..Len(q) /\ i - 1 \in 0..Len(q)
      BY <1>1
    <3>2. Sums(got)[i] = Sums(got)[i - 1] + (left[i - 1] - left[i]) /\ Sums(got)[i - 1] = a - left[i - 1]
      BY <1>4, <1>5, <2>2
    <3>3. PICK x, y : x = left[i - 1] /\ y = left[i] /\ x \in Nat /\ y \in Nat
      BY <1>1, <3>1
    <3>4. (a - x) + (x - y) = a - y
      BY <3>3
    <3> QED BY <3>1, <3>2, <3>3, <3>4
  <2> QED BY <2>1, <2>2
<1> HIDE DEF S
<1>7. 0..Len(q) \subseteq S
  <2>1. Len(q) \in Nat
    OBVIOUS
  <2> QED BY <1>6, <2>1, Induction
<1>8. Sums(got)[Len(q)] = a
  <2>1. PICK n : n = Len(q) /\ n \in 0..n /\ left[n] = 0
    BY SMTT(20), <1>1
  <2>2. n \in S
    BY <1>7, <2>1
  <2>3. Sums(got)[n] = a - left[n]
    BY <2>2 DEF S
  <2>4. a - 0 = a
    OBVIOUS
  <2> QED BY <2>1, <2>3, <2>4
<1>9. \A i \in 1..Len(m) : m[i].actual <= q[i]
  BY <1>1, <1>2
<1> QED BY <1>2, <1>3, <1>4, <1>8, <1>9 DEF Total

LEMMA TotalNat ==
  ASSUME NEW q \in Seq(Nat)
  PROVE  Total(q) \in Nat
<1> DEFINE S == {i \in 0..Len(q) : Sums(q)[i] \in Nat}
<1>1. Len(q) \in Nat /\ q \in Seq(Int) /\ \A i \in 1..Len(q) : q[i] \in Nat
  OBVIOUS
<1>2. Sums(q)[0] = 0 /\ \A i \in 1..Len(q) : Sums(q)[i] = Sums(q)[i - 1] + q[i]
  BY <1>1, SumsStep
<1>3. 0 \in S /\ \A i \in 1..Len(q) : i - 1 \in S => i \in S
  BY <1>1, <1>2
<1> HIDE DEF S
<1>4. 0..Len(q) \subseteq S
  BY <1>1, <1>3, Induction
<1> QED BY <1>1, <1>4 DEF S, Total

LEMMA ErrorsAddUp ==
  ASSUME NEW q \in Seq(Nat), NEW status, NEW m, m = MarkIsoError(q, status)
  PROVE  /\ Len(m) = Len(q)
         /\ \A i \in 1..Len(m) : m[i].actual <= q[i]
         /\ Total([i \in 1..Len(m) |-> m[i].actual]) = 0
<1> DEFINE got == [i \in 1..Len(q) |-> 0]
<1>1. Len(q) \in Nat /\ Len(m) = Len(q) /\ \A i \in 1..Len(q) : m[i].actual = 0 /\ q[i] \in Nat
  BY DEF MarkIsoError
<1>2. [i \in 1..Len(m) |-> m[i].actual] = got
  BY <1>1
<1>3. got \in Seq(Int) /\ Len(got) = Len(q) /\ \A i \in 1..Len(q) : got[i] = 0
  BY <1>1
<1> HIDE DEF got
<1>4. Sums(got)[Len(q)] = Sums(got)[0] /\ Sums(got)[0] = 0
  BY <1>1, <1>3, SumsZeros, SumsStep
<1>5. \A i \in 1..Len(m) : m[i].actual <= q[i]
  BY <1>1
<1> QED BY <1>1, <1>2, <1>3, <1>4, <1>5 DEF Total

-----------------------------------------------------------------------------
(* Each reply, by what made it.                                              *)

\* What a well-formed SUBMIT of the host is answered with, by completion or cancelled.
MayAnswer(s) == Replies(s) \cup {ErrorReply(s, StatusConnReset)}

\* A host and processSubmit agree whether a SUBMIT has packets.
LEMMA KindsAgree ==
  ASSUME NEW s \in Requests
  PROVE  /\ s.iso <=> IsIsochronous(s)
         /\ s.iso => s.endpoint # 0 /\ s.packets = Len(s.lengths)
         /\ ~s.iso => s.lengths = <<>>
         /\ s.direction \in {DirectionOut, DirectionIn} /\ s.length \in Nat /\ s.lengths \in Seq(Nat)
  BY StreamAssumption DEF IsIsochronous, NoIsoPackets, Directions

\* A payload of `a` bytes fits the buffer, or there is none to fit.
Room(s, a) == a <= s.length \/ (Uncapped(s) /\ a <= MaxTransferLength)

\* A reply that is accounted for and fits is used, or refused for want of a buffer only.
Usable(s, r) == Accounts(s, r) /\ Room(s, r.actual)

\* What an IN transfer of any length is given fits its buffer, if any, and its packets.
LEMMA PayloadFits ==
  ASSUME NEW s \in Requests, Parses(s), s.endpoint # 0, s.direction = DirectionIn
  PROVE  /\ ResponsePayloadLength(s) \in Nat /\ Room(s, ResponsePayloadLength(s))
         /\ s.iso => ResponsePayloadLength(s) <= Total(s.lengths)
<1>1. s.length \in Nat /\ s.lengths \in Seq(Nat)
  BY KindsAgree
<1>2. Total(s.lengths) \in Nat
  BY <1>1, TotalNat
<1>3. CASE ~s.iso
  <2>1. ResponsePayloadLength(s) = s.length
    BY <1>3, KindsAgree DEF ResponsePayloadLength
  <2> QED BY <1>1, <1>3, <2>1 DEF Room
<1>4. CASE s.iso
  <2>1. s.lengths # <<>>
    BY <1>4, StreamAssumption
  <2>2. PICK t, n, r : t = Total(s.lengths) /\ n = s.length /\ r = ResponsePayloadLength(s)
    OBVIOUS
  <2>3. r = Least(IF n > 0 THEN Least(t, n) ELSE t, MaxTransferLength)
    BY <2>1, <2>2 DEF ResponsePayloadLength
  <2>4. PICK b \in Nat : b = MaxTransferLength
    BY DEF MaxTransferLength
  <2>5. t \in Nat /\ n \in Nat
    BY <1>1, <1>2, <2>2
  <2>6. r \in Nat /\ r <= t /\ r <= b /\ (n > 0 => r <= n)
    BY <2>3, <2>4, <2>5 DEF Least
  <2>7. n > 0 \/ Uncapped(s)
    BY <1>4, <2>2, <2>5 DEF Uncapped
  <2>8. Room(s, r)
    BY <2>2, <2>4, <2>6, <2>7 DEF Room
  <2> QED BY <2>2, <2>6, <2>8
<1> QED BY <1>3, <1>4

\* HandleControl's reply to a transfer without packets.
LEMMA ControlFits ==
  ASSUME NEW s \in Requests, ~s.iso, NEW status \in {StatusOK, StatusPipe}, NEW n \in Nat,
         NEW r, r = ControlReply(s, status, n)
  PROVE  Answered(s, r) = 0 /\ Usable(s, r)
<1>1. /\ s.direction \in {DirectionOut, DirectionIn} /\ s.length \in Nat
      /\ ~IsIsochronous(s) /\ s.iso = FALSE
  BY KindsAgree, StreamAssumption
<1>2. PICK x : x = Least(n, s.length)
  OBVIOUS
<1>3. x \in Nat /\ x <= s.length
  BY <1>1, <1>2 DEF Least
<1>4. /\ r.packets = <<>>
      /\ \/ r.actual = s.length /\ r.data = 0 /\ s.direction = DirectionOut
         \/ r.actual = x /\ r.data = x /\ s.direction = DirectionIn
         \/ r.actual = 0 /\ r.data = 0
  BY <1>1, <1>2 DEF ControlReply, RetSubmit, StatusOK, StatusPipe
<1>5. Len(r.packets) = 0
  BY <1>4
<1>6. r.actual <= s.length
  BY <1>1, <1>3, <1>4
<1>7. HostReads(s, r) = 48 + r.data /\ ReplyLength(r) = 48 + r.data
  <2>1. HostReads(s, r) = 48 + (IF s.direction = DirectionIn THEN r.actual ELSE 0) + 0
    BY <1>1 DEF HostReads, HeaderLength
  <2>2. ReplyLength(r) = 48 + r.data + 16 * 0
    BY <1>5 DEF ReplyLength, HeaderLength, PacketLength
  <2>3. (IF s.direction = DirectionIn THEN r.actual ELSE 0) = r.data /\ r.data \in Nat
    BY <1>1, <1>3, <1>4 DEF DirectionOut, DirectionIn
  <2> QED BY <2>1, <2>2, <2>3
<1> QED BY <1>1, <1>3, <1>4, <1>6, <1>7 DEF Answered, Usable, Room, Accounts

\* A reply with the packets of its SUBMIT, that account for the payload.
LEMMA PacketsFit ==
  ASSUME NEW s \in Requests, NEW r,
         r.count = (IF IsIsochronous(s) THEN Len(r.packets) ELSE NoIsoPackets),
         Len(r.packets) = Len(s.lengths),
         \A i \in 1..Len(r.packets) : r.packets[i].actual <= s.lengths[i],
         r.actual \in Nat, Room(s, r.actual),
         r.data = (IF s.direction = DirectionIn THEN r.actual ELSE 0),
         s.iso => Total([i \in 1..Len(r.packets) |-> r.packets[i].actual]) = r.actual
  PROVE  Answered(s, r) = 0 /\ Usable(s, r)
<1>1. /\ s.iso <=> IsIsochronous(s)
      /\ ~s.iso => Len(s.lengths) = 0
      /\ Len(s.lengths) \in Nat /\ s.iso \in BOOLEAN /\ r.data \in Nat
  BY KindsAgree, StreamAssumption
<1>2. (IF s.iso THEN PacketLength * r.count ELSE 0) = PacketLength * Len(r.packets)
  BY <1>1 DEF PacketLength
<1>3. HostReads(s, r) = HeaderLength + r.data + PacketLength * Len(r.packets)
  BY <1>2 DEF HostReads
<1>4. HostReads(s, r) \in Int
  BY <1>1, <1>3 DEF HeaderLength, PacketLength
<1>5. Answered(s, r) = 0
  BY <1>3, <1>4 DEF Answered, ReplyLength
<1>6. Usable(s, r)
  BY <1>1 DEF Usable, Accounts
<1> QED BY <1>5, <1>6

LEMMA ErrorFits ==
  ASSUME NEW s \in Requests, NEW status, status # StatusOK, NEW r, r = ErrorReply(s, status)
  PROVE  Answered(s, r) = 0 /\ Usable(s, r)
<1>1. s.lengths \in Seq(Nat) /\ s.length \in Nat
  BY KindsAgree
<1>2. PICK m : m = MarkIsoError(s.lengths, status)
  OBVIOUS
<1>3. /\ Len(m) = Len(s.lengths)
      /\ \A i \in 1..Len(m) : m[i].actual <= s.lengths[i]
      /\ Total([i \in 1..Len(m) |-> m[i].actual]) = 0
  BY <1>1, <1>2, ErrorsAddUp
<1>4. /\ r.packets = m /\ r.actual = 0 /\ r.data = 0
      /\ r.count = (IF IsIsochronous(s) THEN Len(r.packets) ELSE NoIsoPackets)
  BY <1>2 DEF ErrorReply, RetSubmit
<1>5. /\ r.actual \in Nat /\ Room(s, r.actual)
      /\ r.data = (IF s.direction = DirectionIn THEN r.actual ELSE 0)
  BY <1>1, <1>4 DEF Room
<1>6. /\ Len(r.packets) = Len(s.lengths)
      /\ \A i \in 1..Len(r.packets) : r.packets[i].actual <= s.lengths[i]
      /\ Total([i \in 1..Len(r.packets) |-> r.packets[i].actual]) = r.actual
  BY <1>3, <1>4
<1> QED BY <1>4, <1>5, <1>6, PacketsFit

\* What processSubmit moved of a payload, marked in the packets.
LEMMA MovedFits ==
  ASSUME NEW s \in Requests, NEW a \in Nat, Room(s, a), s.iso => a <= Total(s.lengths),
         NEW r, r = RetSubmit(s, StatusOK, a, IF s.direction = DirectionIn THEN a ELSE 0,
                              MarkIsoPackets(s.lengths, a), 0)
  PROVE  Answered(s, r) = 0 /\ Usable(s, r)
<1>1. s.lengths \in Seq(Nat) /\ (~s.iso => s.lengths = <<>>)
  BY KindsAgree
<1>2. PICK m : m = MarkIsoPackets(s.lengths, a)
  OBVIOUS
<1>3. /\ Len(m) = Len(s.lengths)
      /\ \A i \in 1..Len(m) : m[i].actual <= s.lengths[i]
      /\ s.iso => Total([i \in 1..Len(m) |-> m[i].actual]) = a
  <2>1. CASE s.iso
    BY <1>1, <1>2, <2>1, PacketsAddUp
  <2>2. CASE ~s.iso
    <3>1. Len(m) = 0 /\ Len(s.lengths) = 0
      BY <1>1, <1>2, <2>2 DEF MarkIsoPackets
    <3> QED BY <2>2, <3>1
  <2> QED BY <2>1, <2>2
<1>4. /\ r.packets = m /\ r.actual = a /\ r.data = (IF s.direction = DirectionIn THEN a ELSE 0)
      /\ r.count = (IF IsIsochronous(s) THEN Len(r.packets) ELSE NoIsoPackets)
  BY <1>2 DEF RetSubmit
<1>5. /\ r.actual \in Nat /\ Room(s, r.actual)
      /\ r.data = (IF s.direction = DirectionIn THEN r.actual ELSE 0)
  BY <1>4
<1> QED BY <1>3, <1>4, <1>5, PacketsFit

LEMMA ReplyFits ==
  ASSUME NEW s \in Requests, Parses(s), NEW r \in MayAnswer(s)
  PROVE  Answered(s, r) = 0 /\ Usable(s, r)
<1>1. /\ s.iso => s.endpoint # 0 /\ (s.direction = DirectionOut => s.length <= Total(s.lengths))
      /\ s.length \in Nat /\ s.lengths \in Seq(Nat)
      /\ s.direction \in {DirectionOut, DirectionIn} /\ DirectionOut # DirectionIn
  BY KindsAgree, StreamAssumption DEF DirectionOut, DirectionIn
<1>2. CASE r = ErrorReply(s, StatusConnReset) \/ r = ErrorReply(s, StatusPipe)
  <2>1. StatusConnReset # StatusOK /\ StatusPipe # StatusOK
    BY DEF StatusConnReset, StatusPipe, StatusOK
  <2> QED BY <1>2, <2>1, ErrorFits
<1>3. ASSUME s.endpoint = 0, NEW status \in {StatusOK, StatusPipe}, NEW n \in ControlBytes,
             r = ControlReply(s, status, n)
      PROVE  Answered(s, r) = 0 /\ Usable(s, r)
  <2>1. ~s.iso /\ n \in Nat
    BY <1>1, <1>3, StreamAssumption
  <2> QED BY <1>3, <2>1, ControlFits
<1>4. ASSUME s.direction = DirectionOut, NEW a \in {0, s.length}, r = PlaybackReply(s, a)
      PROVE  Answered(s, r) = 0 /\ Usable(s, r)
  <2>1. Total(s.lengths) \in Nat
    BY <1>1, TotalNat
  <2>2. a \in Nat /\ Room(s, a) /\ (s.iso => a <= Total(s.lengths))
    BY <1>1, <1>4, <2>1 DEF Room
  <2>3. r = RetSubmit(s, StatusOK, a, IF s.direction = DirectionIn THEN a ELSE 0,
                      MarkIsoPackets(s.lengths, a), 0)
    BY <1>1, <1>4 DEF PlaybackReply
  <2> QED BY <2>2, <2>3, MovedFits
<1>5. CASE s.endpoint # 0 /\ s.direction = DirectionIn /\ r = CaptureReply(s)
  <2>1. PICK a : a = ResponsePayloadLength(s)
    OBVIOUS
  <2>2. a \in Nat /\ Room(s, a) /\ (s.iso => a <= Total(s.lengths))
    BY <1>5, <2>1, PayloadFits
  <2>3. r = RetSubmit(s, StatusOK, a, IF s.direction = DirectionIn THEN a ELSE 0,
                      MarkIsoPackets(s.lengths, a), 0)
    BY <1>5, <2>1 DEF CaptureReply
  <2> QED BY <2>2, <2>3, MovedFits
<1> QED BY <1>1, <1>2, <1>3, <1>4, <1>5 DEF MayAnswer, Replies

\* readSubmit takes what the host sends.
LEMMA RequestFits ==
  ASSUME NEW s \in Requests
  PROVE  Sent(s) = 0
<1>1. /\ s.iso <=> IsIsochronous(s)
      /\ s.iso => s.packets = Len(s.lengths)
      /\ s.length \in Nat /\ Len(s.lengths) \in Nat
  BY KindsAgree
<1>2. HostSends(s) = Consumed(s)
  BY <1>1 DEF HostSends, Consumed
<1>3. HostSends(s) \in Int
  BY <1>1 DEF HostSends, HeaderLength, PacketLength
<1> QED BY <1>2, <1>3 DEF Sent

-----------------------------------------------------------------------------
(* The two byte streams.                                                     *)

\* A reply that is written later is the reply to a SUBMIT that was read.
WaitsRead == \A q \in queued : q.submit \in Requests /\ Parses(q.submit)

StreamInv == WaitsRead /\ StreamInStep /\ PayloadAccounted

\* The reply is refused for want of a buffer that the SUBMIT did not name.
Excused(x) == Uncapped(x[1]) /\ Accounts(x[1], x[2]) /\ x[2].actual <= MaxTransferLength

\* No reply of any SUBMIT that was read puts the host out of step.
LEMMA AnswerKeeps ==
  ASSUME StreamInv, NEW s \in Requests, Parses(s), NEW r \in MayAnswer(s)
  PROVE  /\ \A x \in refused \cup Unusable(s, r) : Excused(x)
         /\ skew.requests + Sent(s) = 0 /\ skew.requests = 0
         /\ skew.replies + Answered(s, r) = 0 /\ skew.replies = 0
<1>1. \A x \in Unusable(s, r) : Excused(x)
  BY ReplyFits DEF Unusable, HostAccepts, Usable, Room, Excused
<1>2. skew.requests = 0 /\ skew.replies = 0 /\ \A x \in refused : Excused(x)
  BY DEF StreamInv, StreamInStep, PayloadAccounted, Excused
<1> QED BY <1>1, <1>2, ReplyFits, RequestFits

LEMMA NextStreamInv == StreamInv /\ [NextStream]_streamVars => StreamInv'
<1> SUFFICES ASSUME StreamInv, [NextStream]_streamVars PROVE StreamInv'
  OBVIOUS
<1>1. /\ \A q \in queued : q.submit \in Requests /\ Parses(q.submit)
      /\ skew = [requests |-> 0, replies |-> 0] /\ \A x \in refused : Excused(x)
  BY DEF StreamInv, WaitsRead, StreamInStep, PayloadAccounted, Excused
<1>2. ASSUME NEW s \in Requests, Reject(s) PROVE StreamInv'
  BY <1>1, <1>2 DEF Reject, StreamInv, WaitsRead, StreamInStep, PayloadAccounted, Excused
<1>3. ASSUME NEW s \in Requests, Serve(s) PROVE StreamInv'
  <2>1. PICK r \in Replies(s) : /\ refused' = refused \cup Unusable(s, r)
                                /\ skew' = [requests |-> skew.requests + Sent(s),
                                            replies |-> skew.replies + Answered(s, r)]
    BY <1>3 DEF Serve
  <2>2. Parses(s) /\ queued' = queued /\ r \in MayAnswer(s)
    BY <1>3, <2>1 DEF Serve, MayAnswer
  <2>3. (\A x \in refused' : Excused(x)) /\ skew' = [requests |-> 0, replies |-> 0]
    BY <2>1, <2>2, AnswerKeeps
  <2> QED BY <1>1, <2>2, <2>3 DEF StreamInv, WaitsRead, StreamInStep, PayloadAccounted, Excused
<1>4. ASSUME NEW s \in Requests, Queue(s) PROVE StreamInv'
  <2>1. PICK q : queued' = queued \cup {q} /\ q.submit = s
    <3>1. PICK d : d = log'[Len(log')].deadline
      OBVIOUS
    <3>2. queued' = queued \cup {[submit |-> s, deadline |-> d]}
      BY <1>4, <3>1 DEF Queue
    <3>3. [submit |-> s, deadline |-> d].submit = s
      OBVIOUS
    <3> QED BY <3>2, <3>3
  <2>2. Parses(s) /\ refused' = refused /\ skew' = [skew EXCEPT !.requests = @ + Sent(s)]
    BY <1>4 DEF Queue
  <2>3. skew' = [requests |-> 0, replies |-> 0]
    BY <1>1, <2>2, RequestFits
  <2> QED BY <1>1, <2>1, <2>2, <2>3 DEF StreamInv, WaitsRead, StreamInStep, PayloadAccounted, Excused
<1>5. ASSUME NEW q \in queued, NEW r \in MayAnswer(q.submit), Write(q, r) PROVE StreamInv'
  <2>1. /\ queued' = queued \ {q} /\ refused' = refused \cup Unusable(q.submit, r)
        /\ skew' = [skew EXCEPT !.replies = @ + Answered(q.submit, r)]
    BY <1>5 DEF Write
  <2>2. q.submit \in Requests /\ Parses(q.submit)
    BY <1>1
  <2>3. (\A x \in refused' : Excused(x)) /\ skew' = [requests |-> 0, replies |-> 0]
    BY <1>1, <2>1, <2>2, AnswerKeeps
  <2> QED BY <1>1, <2>1, <2>3 DEF StreamInv, WaitsRead, StreamInStep, PayloadAccounted, Excused
<1>6. ASSUME NEW q \in queued, Complete(q) \/ GiveBack(q) PROVE StreamInv'
  <2>1. PICK r \in MayAnswer(q.submit) : Write(q, r)
    BY <1>6 DEF Complete, GiveBack, MayAnswer
  <2> QED BY <1>5, <2>1
<1>7. CASE PassTime \/ Over \/ UNCHANGED streamVars
  <2>1. queued' = queued /\ skew' = skew /\ refused' = refused
    BY <1>7 DEF PassTime, Over, streamVars
  <2> QED BY <1>1, <2>1 DEF StreamInv, WaitsRead, StreamInStep, PayloadAccounted, Excused
<1> QED BY <1>2, <1>3, <1>4, <1>6, <1>7 DEF NextStream

LEMMA InitStreamInv == InitStream => StreamInv
  BY DEF InitStream, StreamInv, WaitsRead, StreamInStep, PayloadAccounted

\* Neither end ever reads a byte of the next frame as one of this: for any SUBMITs of a host
\* that follows the protocol, in any order, however each of them ends.
THEOREM StreamFramesInStep == StreamSpec => []StreamInStep
<1>1. StreamInv => StreamInStep
  BY DEF StreamInv
<1> QED BY <1>1, InitStreamInv, NextStreamInv, PTL DEF StreamSpec

\* Every reply's payload is, packet for packet, what its packets say, and fits the host's
\* buffer unless a recording names none, for any buffer and packet lengths
\* (server.go:477-515).
THEOREM StreamPayloadAccounted == StreamSpec => []PayloadAccounted
<1>1. StreamInv => PayloadAccounted
  BY DEF StreamInv
<1> QED BY <1>1, InitStreamInv, NextStreamInv, PTL DEF StreamSpec

\* The stream completes each URB exactly in its turn: the theorem on the timelines is one
\* on the stream, that reserves as they do.
COROLLARY StreamInTurn ==
  ASSUME \A e \in Endpoints : e < 65536
  PROVE  StreamSpec => []CompletesInTurn
BY StreamImplementsTimeline, TimelineInTurn, PTL DEF ImplementsTimeline
=============================================================================
