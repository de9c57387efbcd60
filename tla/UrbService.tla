------------------------------ MODULE UrbService ------------------------------
(***************************************************************************)
(* What a session promises its host, without goroutines, timers or locks:  *)
(* every URB is answered at most once; one that is due at a time succeeds  *)
(* no earlier; one is given back unfinished only if it was revoked, by an  *)
(* UNLINK or because the session or the server ends; those that must keep  *)
(* the order of the bus are answered in it; and while the host is there    *)
(* none is forgotten before it is answered.                                *)
(***************************************************************************)
EXTENDS Integers, Sequences

CONSTANTS Statuses, OK, Reset     \* of an answer: success, given back, others

VARIABLES urbs,         \* [ordered, due, answers, over] of each URB so far; an answer
                        \* is [at, status]: where it is among the answers of the session
          revoked,      \* the URBs that may be given back
          gone,         \* the host has hung up
          clock

serviceVars == <<urbs, revoked, gone, clock>>

ServiceInit == urbs = <<>> /\ revoked = {} /\ ~gone /\ clock = 0

\* A new URB, and nothing happens to the others.
Accept ==
  /\ Len(urbs') = Len(urbs) + 1 /\ SubSeq(urbs', 1, Len(urbs)) = urbs
  /\ urbs'[Len(urbs')].answers = {} /\ ~urbs'[Len(urbs')].over

GiveAnswer(j, answer, over) ==
  /\ urbs[j].answers = {} /\ ~urbs[j].over
  /\ urbs' = [urbs EXCEPT ![j].answers = {answer}, ![j].over = over]
  /\ answer.status \in Statuses
  /\ answer.status = OK => clock >= urbs[j].due
  /\ answer.status = Reset => j \in revoked
  /\ urbs[j].ordered => \A i \in 1..j - 1 : urbs[i].ordered => urbs[i].over

Forget(j) ==
  /\ urbs[j].answers # {} \/ gone
  /\ urbs' = [urbs EXCEPT ![j].over = TRUE]

ServiceNext ==
  /\ \/ UNCHANGED urbs
     \/ Accept
     \/ \E j \in 1..Len(urbs) :
          \/ \E a \in urbs'[j].answers, o \in BOOLEAN : GiveAnswer(j, a, o)
          \/ Forget(j)
  /\ revoked \subseteq revoked' /\ (gone => gone') /\ clock' \in {clock, clock + 1}

ServiceSpec == ServiceInit /\ [][ServiceNext]_serviceVars
=============================================================================
