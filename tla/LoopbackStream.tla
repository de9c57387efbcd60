---------------------------- MODULE LoopbackStream ----------------------------
(***************************************************************************)
(* What a loopback buffer promises, without slots, indices or locks: the   *)
(* playback side appends samples, the capture side takes the oldest ones   *)
(* that are left, and when more than Cap samples wait the oldest are lost. *)
(* Samples are named by their position in the playback stream, so the      *)
(* stored ones are always oldest+1 .. written; 0 is digital silence.       *)
(***************************************************************************)
EXTENDS Integers, Sequences

CONSTANTS Cap,          \* samples the buffer can hold, at least one
          MaxRequest    \* bound: samples in one call

VARIABLES written,      \* samples handed to Write so far
          level,        \* samples waiting to be captured
          heard         \* what the last Read returned

streamVars == <<written, level, heard>>

Least(a, b) == IF a <= b THEN a ELSE b

\* Position of the last sample that was captured, lost or discarded.
oldest == written - level

StreamInit == written = 0 /\ level = 0 /\ heard = <<>>

Write(k) ==
  /\ written' = written + k
  /\ level' = Least(level + k, Cap)
  /\ UNCHANGED heard

\* The oldest waiting samples in order, then silence.
Read(n) ==
  /\ heard' = [i \in 1..n |-> IF i <= level THEN oldest + i ELSE 0]
  /\ level' = level - Least(n, level)
  /\ UNCHANGED written

Clear ==
  /\ level' = 0
  /\ UNCHANGED <<written, heard>>

StreamNext == \/ \E k \in 0..MaxRequest : Write(k) \/ Read(k)
              \/ Clear

StreamSpec == StreamInit /\ [][StreamNext]_streamVars
=============================================================================
