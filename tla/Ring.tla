--------------------------------- MODULE Ring ---------------------------------
(***************************************************************************)
(* internal/audio/ring.go: the bounded byte ring between the playback and  *)
(* the capture endpoint of one cable.  Callers are URB goroutines (Write,  *)
(* ReadSilence) and the control handler (Reset).  Every call takes r.mu;   *)
(* the loops run one byte per step, so the model would show what a missing *)
(* lock lets through.  The k-th sample written since the start has value   *)
(* k and 0 is silence.                                                     *)
(***************************************************************************)
EXTENDS Integers, Sequences

CONSTANTS Capacity,      \* argument of NewRing
          Threads,       \* goroutines that may call the ring
          NoThread,      \* r.mu is free
          MaxRequest,    \* bound: samples in one call
          MaxWritten,    \* bound: samples written in a behaviour
          MaxUnderruns   \* bound: silent samples read in a behaviour

ASSUME RingAssumption ==
  /\ Capacity \in Int
  /\ NoThread \notin Threads
  /\ MaxRequest \in Nat /\ MaxWritten \in Nat /\ MaxUnderruns \in Nat

Cap == IF Capacity < 1 THEN 1 ELSE Capacity

\* The locals of a goroutine (todo .. taken) are reset when its call returns.
VARIABLES
  buf, read, write, size, dropped, underruns,   \* fields of Ring
  mu,         \* the goroutine that holds r.mu
  pc,         \* pc[t]: "idle", "write" or "read"
  todo,       \* todo[t]: bytes of p still to process
  next,       \* next[t]: value of the next byte of p (Write)
  out,        \* out[t]: bytes of p filled so far (ReadSilence)
  taken,      \* taken[t]: the local `read` of ReadSilence
  written,    \* samples handed to Write so far
  heard       \* what the last ReadSilence returned

slots  == <<buf, read, write, size>>
counts == <<dropped, underruns>>
locals == <<pc, todo, next, out, taken>>
vars   == <<slots, counts, locals, mu, written, heard>>

Slots == 0..Cap - 1
Least(a, b) == IF a <= b THEN a ELSE b

Init ==
  /\ buf = [s \in Slots |-> 0]
  /\ read = 0 /\ write = 0 /\ size = 0
  /\ dropped = 0 /\ underruns = 0
  /\ mu = NoThread
  /\ pc = [t \in Threads |-> "idle"]
  /\ todo = [t \in Threads |-> 0]
  /\ next = [t \in Threads |-> 0]
  /\ out = [t \in Threads |-> <<>>]
  /\ taken = [t \in Threads |-> 0]
  /\ written = 0
  /\ heard = <<>>

-----------------------------------------------------------------------------
Succ(i) == (i + 1) % Cap

MutantFull == FALSE
Full == size = Cap

Lock(t)   == mu = NoThread /\ mu' = t
Unlock(t) == mu = t /\ mu' = NoThread

BeginWrite(t, n) ==
  /\ pc[t] = "idle"
  /\ written + n <= MaxWritten
  /\ Lock(t)
  /\ pc' = [pc EXCEPT ![t] = "write"]
  /\ todo' = [todo EXCEPT ![t] = n]
  /\ next' = [next EXCEPT ![t] = written + 1]
  /\ written' = written + n
  /\ UNCHANGED <<slots, counts, out, taken, heard>>

\* One turn of the loop: a full ring loses its oldest byte to the new one.
WriteByte(t) ==
  /\ pc[t] = "write" /\ todo[t] > 0
  /\ buf' = [buf EXCEPT ![write] = next[t]]
  /\ write' = Succ(write)
  /\ read' = IF Full THEN Succ(read) ELSE read
  /\ size' = IF Full THEN size ELSE size + 1
  /\ dropped' = IF Full THEN dropped + 1 ELSE dropped
  /\ todo' = [todo EXCEPT ![t] = @ - 1]
  /\ next' = [next EXCEPT ![t] = @ + 1]
  /\ UNCHANGED <<underruns, mu, pc, out, taken, written, heard>>

EndWrite(t) ==
  /\ pc[t] = "write" /\ todo[t] = 0
  /\ Unlock(t)
  /\ pc' = [pc EXCEPT ![t] = "idle"]
  /\ next' = [next EXCEPT ![t] = 0]
  /\ UNCHANGED <<slots, counts, todo, out, taken, written, heard>>

BeginRead(t, n) ==
  /\ pc[t] = "idle"
  /\ underruns + n <= MaxUnderruns
  /\ Lock(t)
  /\ pc' = [pc EXCEPT ![t] = "read"]
  /\ todo' = [todo EXCEPT ![t] = n]
  /\ UNCHANGED <<slots, counts, next, out, taken, written, heard>>

MutantReadByte(t) ==
  /\ pc[t] = "read" /\ todo[t] > 0
  /\ todo' = [todo EXCEPT ![t] = @ - 1]
  /\ out' = [out EXCEPT ![t] = Append(@, buf[read])]
  /\ read' = Succ(read)
  /\ size' = IF size = 0 THEN 0 ELSE size - 1
  /\ taken' = [taken EXCEPT ![t] = @ + 1]
  /\ UNCHANGED <<buf, write, counts, mu, pc, next, written, heard>>

\* One turn of the loop: silence when the ring is empty, else its oldest byte.
ReadByte(t) ==
  /\ pc[t] = "read" /\ todo[t] > 0
  /\ todo' = [todo EXCEPT ![t] = @ - 1]
  /\ \/ /\ size = 0
        /\ out' = [out EXCEPT ![t] = Append(@, 0)]
        /\ UNCHANGED <<read, size, taken>>
     \/ /\ size > 0
        /\ out' = [out EXCEPT ![t] = Append(@, buf[read])]
        /\ read' = Succ(read)
        /\ size' = size - 1
        /\ taken' = [taken EXCEPT ![t] = @ + 1]
  /\ UNCHANGED <<buf, write, counts, mu, pc, next, written, heard>>

EndRead(t) ==
  /\ pc[t] = "read" /\ todo[t] = 0
  /\ Unlock(t)
  /\ pc' = [pc EXCEPT ![t] = "idle"]
  /\ underruns' = underruns + (Len(out[t]) - taken[t])
  /\ heard' = out[t]
  /\ out' = [out EXCEPT ![t] = <<>>]
  /\ taken' = [taken EXCEPT ![t] = 0]
  /\ UNCHANGED <<slots, dropped, todo, next, written>>

MutantReset ==
  /\ mu = NoThread
  /\ read' = 0 /\ size' = 0
  /\ UNCHANGED <<buf, write, counts, locals, mu, written, heard>>

\* Neither the bytes nor the statistics are cleared.
Reset ==
  /\ mu = NoThread
  /\ read' = 0 /\ write' = 0 /\ size' = 0
  /\ UNCHANGED <<buf, counts, locals, mu, written, heard>>

Step(t) == WriteByte(t) \/ EndWrite(t) \/ ReadByte(t) \/ EndRead(t)

Next ==
  \/ \E t \in Threads : \/ \E n \in 0..MaxRequest : BeginWrite(t, n) \/ BeginRead(t, n)
                        \/ Step(t)
  \/ Reset

Spec == Init /\ [][Next]_vars

-----------------------------------------------------------------------------
TypeOK ==
  /\ buf \in [Slots -> Nat]
  /\ read \in Slots /\ write \in Slots /\ size \in 0..Cap
  /\ dropped \in Nat /\ underruns \in Nat
  /\ mu \in Threads \cup {NoThread}
  /\ pc \in [Threads -> {"idle", "write", "read"}]
  /\ todo \in [Threads -> 0..MaxRequest]
  /\ next \in [Threads -> Nat]
  /\ out \in [Threads -> Seq(Nat)]
  /\ taken \in [Threads -> Nat]
  /\ written \in Nat
  /\ heard \in Seq(Nat)

\* Position of the last sample that is in the ring: a Write that is under way
\* has stored the samples before next only.
stored == IF mu # NoThread /\ pc[mu] = "write" THEN next[mu] - 1 ELSE written

\* The slot of the i-th oldest sample, and for i = size the next free one.
Slot(i) == (read + i) % Cap

\* "Write keeps the newest audio" (ring.go:38): at every instant the ring holds
\* the last `size` samples of the stream, in stream order, starting at the read
\* index, and the write index is where they end; overruns, short reads and
\* resets in any order never leave a gap or a stale byte among them.
KeepsNewest ==
  /\ write = Slot(size)
  /\ \A i \in 0..size - 1 : buf[Slot(i)] = stored - size + 1 + i

\* A read returns one unbroken block of the stream followed by silence only:
\* silence never hides a sample that was waiting (ring.go:56-71).
ReadIsContiguous ==
  \A t \in Threads : pc[t] = "read" =>
    /\ taken[t] <= Len(out[t])
    /\ taken[t] < Len(out[t]) => size = 0
    /\ \A i \in 1..Len(out[t]) :
         out[t][i] = IF i <= taken[t] THEN written - size - taken[t] + i ELSE 0

\* No sample is captured twice or out of order: all that a read returns comes
\* later in the stream than all that earlier reads returned.
NeverReplayed ==
  [][\A i \in 1..Len(heard), j \in 1..Len(heard') :
       heard' # heard /\ heard'[j] # 0 => heard[i] < heard'[j]]_heard

\* The calls take effect as LoopbackStream says: Write as it takes the lock,
\* ReadSilence as it returns, Reset in its one step.
level ==
  IF mu = NoThread THEN size
  ELSE IF pc[mu] = "write" THEN Least(size + todo[mu], Cap)
  ELSE size + taken[mu]

Stream == INSTANCE LoopbackStream WITH level <- level, written <- written, heard <- heard,
                                       Cap <- Cap, MaxRequest <- MaxRequest
ImplementsStream == Stream!StreamSpec
=============================================================================
