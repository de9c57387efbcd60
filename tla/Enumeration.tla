------------------------------ MODULE Enumeration ------------------------------
(***************************************************************************)
(* What a host learns of a device by reading its configuration descriptor  *)
(* b, as Windows' USB audio driver does it.  Nothing here is code of the   *)
(* program: it is what the bytes mean to the one who reads them.           *)
(***************************************************************************)
EXTENDS Descriptors

\* An interface descriptor opens an alternate setting; endpoints belong to it.
Settings(b) == {<<x[3], x[4]>> : x \in {y \in ToSet(Walk(b)) : y[2] = 4}}

\* Each endpoint with the alternate setting it is in and the terminal it feeds.
Endpoints(b) ==
  LET w == Walk(b)
      opens(i) == w[Max({k \in 1..i : w[k][2] = 4})]
      general(i) == w[Max({k \in 1..i : w[k][2] = 36 /\ w[k][3] = 1})]
  IN {[interface |-> opens(i)[3], alt |-> opens(i)[4], address |-> w[i][3],
       terminal |-> general(i)[4], bytes |-> w[i][5] + 256 * w[i][6],
       microframes |-> 2 ^ (w[i][7] - 1)] : i \in {k \in 1..Len(w) : w[k][2] = 5}}

\* Terminals and feature units: what the audio header says is the control interface's.
Entities(b) ==
  LET header == b[19 + 5] + 256 * b[19 + 6]
  IN {[kind |-> x[3], id |-> x[4],
       source |-> CASE x[3] = 3 -> x[8] [] x[3] = 6 -> x[5] [] OTHER -> 0,
       name |-> CASE x[3] = 2 -> x[12] [] x[3] = 3 -> x[9] [] OTHER -> 0] :
        x \in {y \in ToSet(Walk(SubSeq(b, 19, 18 + header))) : y[3] # 1}}

FeatureUnits(b) == {e.id : e \in {x \in Entities(b) : x.kind = 6}}

\* The string indexes of all names that lie on the way of terminal t's audio.
NamesOnTheWay(b, t) ==
  LET joined(S) == S \cup UNION {{e.source, e.id} : e \in
                     {x \in Entities(b) : x.source # 0 /\ {x.source, x.id} \cap S # {}}}
      way == joined(joined({t}))
  IN {e.name : e \in {x \in Entities(b) : x.id \in way /\ x.name # 0}}

\* What the host shows for device d of n cables: under which names, at which endpoints.
Shown(d, n) ==
  LET b == DescriptorsOf(d, n)[<<2, 0>>]
  IN UNION {{[name |-> DescriptorsOf(d, n)[<<3, i>>][3], address |-> e.address] :
               i \in NamesOnTheWay(b, e.terminal)} : e \in Endpoints(b)}
=============================================================================
