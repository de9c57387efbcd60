--------------------------- MODULE CableSync_proofs ---------------------------
(***************************************************************************)
(* What the broker keeps in order holds for any number of changes, helpers,*)
(* synchronizations and runs of the program, and whatever of Faults may    *)
(* happen.                                                                 *)
(***************************************************************************)
EXTENDS CableSync, FiniteSetTheorems, SequenceTheorems, WellFoundedInduction, TLAPS

JobPlaces == {"queued", "send", "sent", "OK", "ERR", "done"}
JobState == [pc : JobPlaces, count : Counts \cup {0}, change : Nat, conn : Helpers \cup {0}]

HelperPlaces == {"none", "dialing", "reading", "list", "detach", "attach", "gone"}
HelperState == [pc : HelperPlaces, count : 0..30, next : Nat, todo : SUBSET Ports]

\* TypeOK, with the types of what it leaves out.
Types ==
  /\ TypeOK
  /\ desired \in [count : Counts \cup {0}, change : Nat]
  /\ job \in Seq(JobState)
  /\ helper \in [Helpers -> HelperState]
  /\ request \in [Helpers -> Seq(0..30)] /\ reply \in [Helpers -> Seq({"OK", "ERR"})]
  /\ window = "restart" => changes < MaxChanges
  /\ \A j \in 1..Len(job) : /\ job[j].pc \in {"send", "sent"} => job[j].conn # 0
                            /\ j \in JobIds

LEMMA ConstantsFit ==
  /\ Counts \subseteq 1..120 /\ DefaultCount \in Counts
  /\ Helpers \subseteq Nat \ {0} /\ JobIds \subseteq Nat \ {0}
  /\ MaxChanges \in Nat /\ MaxRuns \in Nat
  /\ Cardinality(Helpers) \in Nat /\ Helpers = 1..Cardinality(Helpers)
<1>1. Cardinality(Helpers) \in Nat /\ Cardinality(JobIds) \in Nat
  BY SyncAssumption, FS_CardinalityType
<1> QED BY <1>1, SyncAssumption

LEMMA FirstOfSeq ==
  ASSUME NEW S, NEW q \in Seq(S), q # <<>>
  PROVE  Head(q) \in S /\ Tail(q) \in Seq(S)
BY HeadTailProperties

LEMMA DevicesFit == \A n \in Counts \cup {0} : PhysicalDeviceCount(n) \in 0..30
BY ConstantsFit DEF PhysicalDeviceCount, MaxCablesPerUSBDevice

\* A job that goes on stays a job.
LEMMA JobGoesOn ==
  ASSUME Types, NEW j \in 1..Len(job), NEW e \in JobState, job' = [job EXCEPT ![j] = e]
  PROVE  /\ job' \in Seq(JobState) /\ Len(job') = Len(job)
         /\ \A k \in 1..Len(job) : job'[k] = IF k = j THEN e ELSE job[k]
BY ExceptSeq DEF Types

LEMMA JobStarts ==
  ASSUME Types, NEW w \in [count : Counts \cup {0}, change : Nat], Spawn(w)
  PROVE  /\ job' \in Seq(JobState) /\ Len(job') = Len(job) + 1 /\ Len(job) + 1 \in JobIds
         /\ \A k \in 1..Len(job) : job'[k] = job[k]
         /\ job'[Len(job) + 1] = [pc |-> "queued", count |-> w.count, change |-> w.change, conn |-> 0]
<1>1. [pc |-> "queued", count |-> w.count, change |-> w.change, conn |-> 0] \in JobState
  BY DEF JobState, JobPlaces
<1> QED BY <1>1, AppendProperties DEF Spawn, Types

\* The states a helper may go to: it was started and stays so.
Running == {r \in HelperState : r.pc # "none"}

LEMMA HelperStates ==
  /\ \A r \in HelperState : \A p \in HelperPlaces \ {"none"} : [r EXCEPT !.pc = p] \in Running
  /\ \A r \in Running : /\ \A S \in SUBSET Ports : [r EXCEPT !.todo = S] \in Running
                        /\ [r EXCEPT !.next = @ + 1] \in Running
  /\ \A n \in 0..30 : [pc |-> "list", count |-> n, next |-> 1, todo |-> {}] \in Running
  /\ \A p \in HelperPlaces \ {"none"} : [Waits EXCEPT !.pc = p] \in Running
<1>1. \A r \in HelperState, p \in HelperPlaces \ {"none"} : [r EXCEPT !.pc = p] \in Running
  BY DEF HelperState, Running
<1>2. \A r \in Running, S \in SUBSET Ports : [r EXCEPT !.todo = S] \in Running
  BY DEF HelperState, Running
<1>3. \A r \in Running : [r EXCEPT !.next = @ + 1] \in Running
  BY DEF HelperState, Running
<1>4. \A n \in 0..30 : [pc |-> "list", count |-> n, next |-> 1, todo |-> {}] \in Running
  BY DEF HelperState, HelperPlaces, Running
<1>5. \A p \in HelperPlaces \ {"none"} : [Waits EXCEPT !.pc = p] \in Running
  BY DEF HelperState, Waits, Running
<1> QED BY <1>1, <1>2, <1>3, <1>4, <1>5

\* What a step does to its helper.
LEMMA HelperMoves ==
  ASSUME Types, NEW h \in Helpers, HelperStep(h) \/ HelperCrashes(h)
  PROVE  helper[h] \in Running /\ \E e \in Running : helper' = [helper EXCEPT ![h] = e]
<1>1. {"reading", "attach", "gone", "detach"} \subseteq HelperPlaces \ {"none"}
  BY DEF HelperPlaces
<1>2. helper[h] \in Running
  BY DEF Types, Running, HelperStep, HelperCrashes, Dial, Take, Inspect, Detach, Attach, AllAttached,
         HelperFails, HelperLeaves, Forsaken
<1> USE <1>2
<1>3. helper[h] \in HelperState
  BY DEF Running
<1>4. CASE Dial(h)
  BY <1>1, <1>3, <1>4, HelperStates DEF Dial
<1>5. CASE Take(h)
  <2>1. request[h] \in Seq(0..30) /\ request[h] # <<>>
    BY <1>5 DEF Take, Types
  <2>2. Head(request[h]) \in 0..30
    BY ONLY <2>1, FirstOfSeq
  <2> QED BY <1>5, <2>2, HelperStates DEF Take
<1>6. CASE Inspect(h)
  <2>1. PICK own \in SUBSET Ports :
          helper' = [helper EXCEPT ![h].pc = "detach", ![h].todo = own]
    <3>1. {Attached} \cup (IF "usbip" \in Faults THEN {{}} ELSE {}) \subseteq SUBSET Ports
      BY DEF Attached
    <3> QED BY <1>6, <3>1 DEF Inspect
  <2>2. helper' = [helper EXCEPT ![h] = [[helper[h] EXCEPT !.pc = "detach"] EXCEPT !.todo = own]]
    BY <2>1 DEF Types
  <2>3. [helper[h] EXCEPT !.pc = "detach"] \in Running
    BY <1>1, <1>3, HelperStates
  <2> QED BY <2>2, <2>3, HelperStates
<1>7. CASE Detach(h)
  <2>1. helper[h].todo \ {Min(helper[h].todo)} \in SUBSET Ports
    BY <1>3 DEF HelperState
  <2>2. CASE helper[h].todo = {}
    BY <1>1, <1>3, <1>7, <2>2, HelperStates DEF Detach
  <2>3. CASE helper[h].todo # {}
    BY <1>7, <2>1, <2>3, HelperStates DEF Detach
  <2> QED BY <2>2, <2>3
<1>8. CASE Attach(h)
  BY <1>8, HelperStates DEF Attach
<1>9. CASE \E line \in {"OK", "ERR"} : Answer(h, line)
  BY <1>1, <1>9, HelperStates DEF Answer
<1>10. CASE Leave(h)
  BY <1>1, <1>10, HelperStates DEF Leave
<1> QED
  BY <1>4, <1>5, <1>6, <1>7, <1>8, <1>9, <1>10
  DEF HelperStep, AllAttached, HelperFails, HelperLeaves, HelperCrashes

LEMMA TypesHelper ==
  ASSUME Types, NEW h \in Helpers, HelperStep(h) \/ HelperCrashes(h)
  PROVE  Types'
<1>1. helper' \in [Helpers -> HelperState]
  BY HelperMoves DEF Types, Running
<1>2. \A g \in Helpers : /\ helper'[g].pc \in HelperPlaces
                         /\ helper'[g].todo \subseteq Ports /\ helper'[g].count \in 0..30
  BY <1>1 DEF HelperState
<1>3. UNCHANGED helperUnchanged
  BY DEF HelperStep, HelperCrashes, Dial, Take, Inspect, Detach, Attach, AllAttached, HelperFails,
         HelperLeaves
<1>4. /\ accept' \in [Helpers -> {"none", "waiting", "greeting", "done"}]
      /\ link' \in [Helpers -> {"none", "open", "closed"}]
  <2>1. CASE Dial(h)
    BY <2>1 DEF Types, TypeOK, Dial
  <2>2. CASE UNCHANGED <<accept, link>>
    BY <2>2 DEF Types, TypeOK
  <2> QED
    BY <2>1, <2>2 DEF HelperStep, HelperCrashes, Take, Inspect, Detach, Attach, AllAttached,
       HelperFails, HelperLeaves, linkVars
<1>5. request' \in [Helpers -> Seq(0..30)]
  <2>1. CASE UNCHANGED request
    BY <2>1 DEF Types
  <2>2. CASE Take(h)
    <3>1. request[h] \in Seq(0..30) /\ request[h] # <<>>
      BY <2>2 DEF Take, Types
    <3>2. Tail(request[h]) \in Seq(0..30)
      BY ONLY <3>1, FirstOfSeq
    <3> QED BY <2>2, <3>2 DEF Take, Types
  <2>3. CASE Leave(h)
    BY <2>3 DEF Leave, Types
  <2> QED
    BY <2>1, <2>2, <2>3 DEF HelperStep, HelperCrashes, Dial, Inspect, Detach, Attach, AllAttached,
       HelperFails, HelperLeaves, linkVars
<1>6. reply' \in [Helpers -> Seq({"OK", "ERR"})]
  <2>1. CASE UNCHANGED reply
    BY <2>1 DEF Types
  <2>2. ASSUME NEW line \in {"OK", "ERR"}, Answer(h, line)
        PROVE  reply' \in [Helpers -> Seq({"OK", "ERR"})]
    <3>1. Append(reply[h], line) \in Seq({"OK", "ERR"})
      BY DEF Types
    <3> QED BY <2>2, <3>1 DEF Answer, Types
  <2> QED
    BY <2>1, <2>2 DEF HelperStep, HelperCrashes, Dial, Take, Inspect, Detach, Attach, AllAttached,
       HelperFails, HelperLeaves, linkVars
<1>7. port' \in [Ports -> {Stale} \cup 0..30]
  <2>1. CASE UNCHANGED port
    BY <2>1 DEF Types, TypeOK
  <2>2. CASE Detach(h)
    <3>1. port' = port \/ \E p : port' = [port EXCEPT ![p] = 0]
      BY <2>2 DEF Detach, Free
    <3>2. port \in [Ports -> {Stale} \cup 0..30]
      BY DEF Types, TypeOK
    <3> QED BY <3>1, <3>2
  <2>3. CASE Attach(h)
    <3>1. helper[h].next \in 0..30
      <4>1. helper[h] \in HelperState
        BY DEF Types
      <4>2. helper[h].next \in Nat /\ helper[h].count \in 0..30 /\ helper[h].next <= helper[h].count
        BY <4>1, <2>3 DEF Attach, Left, HelperState
      <4> QED BY <4>2
    <3> QED BY <2>3, <3>1 DEF Attach, Types, TypeOK
  <2> QED
    BY <2>1, <2>2, <2>3 DEF HelperStep, HelperCrashes, Dial, Take, Inspect, AllAttached,
       HelperFails, HelperLeaves
<1> QED
  BY SMTT(20), <1>1, <1>2, <1>3, <1>4, <1>5, <1>6, <1>7
  DEF Types, TypeOK, helperUnchanged, windowVars, fileVars, brokerVars, HelperPlaces

LEMMA JobStates ==
  \A e \in JobState :
    /\ \A p \in JobPlaces : [e EXCEPT !.pc = p] \in JobState
    /\ \A h \in Helpers : [[e EXCEPT !.pc = "send"] EXCEPT !.conn = h] \in JobState
<1>1. \A e \in JobState, p \in JobPlaces : [e EXCEPT !.pc = p] \in JobState
  BY DEF JobState
<1>2. \A e \in JobState, h \in Helpers : [e EXCEPT !.conn = h] \in JobState
  BY DEF JobState
<1> QED BY <1>1, <1>2 DEF JobPlaces

\* What a step does to its job.
LEMMA JobMoves ==
  ASSUME Types, NEW j \in 1..Len(job), JobStep(j)
  PROVE  \E e \in JobState :
           /\ job' = [job EXCEPT ![j] = e]
           /\ e.count = job[j].count /\ e.change = job[j].change
           /\ \/ /\ e.conn = job[j].conn
                 /\ e.pc \in {"send", "sent"} => e.conn # 0
                 /\ job[j].pc = "queued" => conn = 0
              \/ job[j].pc = "queued" /\ conn # 0 /\ e.conn = conn
<1>1. job[j] \in JobState /\ {"done", "sent", "send", "OK", "ERR"} \subseteq JobPlaces
  BY DEF Types, JobPlaces
<1>2. ASSUME NEW p \in JobPlaces, job' = [job EXCEPT ![j].pc = p],
             p \in {"send", "sent"} => job[j].conn # 0
      PROVE  /\ [job[j] EXCEPT !.pc = p] \in JobState
             /\ job' = [job EXCEPT ![j] = [job[j] EXCEPT !.pc = p]]
             /\ [job[j] EXCEPT !.pc = p].conn = job[j].conn
             /\ [job[j] EXCEPT !.pc = p].count = job[j].count
             /\ [job[j] EXCEPT !.pc = p].change = job[j].change
             /\ [job[j] EXCEPT !.pc = p].pc \in {"send", "sent"} =>
                  [job[j] EXCEPT !.pc = p].conn # 0
  BY <1>1, <1>2, JobStates DEF JobState
<1>3. CASE Ends(j) /\ (job[j].pc = "queued" => conn = 0)
  BY <1>1, <1>2, <1>3 DEF Ends
<1>4. CASE Begin(j) /\ conn # 0
  <2> DEFINE e == [[job[j] EXCEPT !.pc = "send"] EXCEPT !.conn = conn]
  <2>1. conn \in Helpers
    BY <1>4 DEF Types, TypeOK
  <2>2. e \in JobState /\ e.conn = conn /\ e.count = job[j].count /\ e.change = job[j].change
    BY <1>1, <2>1, JobStates DEF JobState
  <2>3. job' = [job EXCEPT ![j] = e]
    BY <1>4 DEF Begin
  <2> QED BY <1>4, <2>2, <2>3 DEF Begin
<1>5. CASE Send(j)
  BY <1>1, <1>2, <1>5 DEF Send, Types
<1>6. CASE Receive(j)
  <2>1. job[j].conn \in Helpers
    BY <1>1, <1>6 DEF Receive, Types, JobState
  <2>2. reply[job[j].conn] \in Seq({"OK", "ERR"}) /\ reply[job[j].conn] # <<>>
    BY <2>1, <1>6 DEF Receive, Types
  <2>3. Head(reply[job[j].conn]) \in {"OK", "ERR"}
    BY ONLY <2>2, FirstOfSeq
  <2>4. job' = [job EXCEPT ![j].pc = Head(reply[job[j].conn])]
    BY <1>6 DEF Receive
  <2>5. job[j].pc = "sent"
    BY <1>6 DEF Receive
  <2> QED BY ONLY <1>1, <1>2, <2>1, <2>3, <2>4, <2>5, ConstantsFit
<1>7. CASE Show(j)
  BY <1>3, <1>7 DEF Show
<1>8. CASE Lose(j)
  BY <1>3, <1>8 DEF Lose
<1>9. CASE Begin(j) /\ conn = 0
  BY <1>3, <1>9 DEF Begin
<1> QED BY <1>4, <1>5, <1>6, <1>7, <1>8, <1>9 DEF JobStep

LEMMA TypesJob ==
  ASSUME Types, NEW j \in 1..Len(job), JobStep(j)
  PROVE  Types'
<1>1. job[j] \in JobState
  BY DEF Types
<1>2. PICK e \in JobState :
        /\ job' = [job EXCEPT ![j] = e]
        /\ e.pc \in {"send", "sent"} => e.conn # 0
  BY JobMoves
<1>3. /\ job' \in Seq(JobState) /\ Len(job') = Len(job)
      /\ \A k \in 1..Len(job) : job'[k] = IF k = j THEN e ELSE job[k]
  BY <1>2, JobGoesOn
<1>4. \A k \in 1..Len(job') : /\ job'[k].pc \in JobPlaces /\ k \in JobIds
                              /\ job'[k].pc \in {"send", "sent"} => job'[k].conn # 0
  <2>1. e.pc \in JobPlaces
    BY DEF JobState
  <2> QED BY <1>2, <1>3, <2>1 DEF Types, TypeOK, JobPlaces
<1>5. UNCHANGED jobUnchanged
  BY DEF JobStep, Begin, Send, Receive, Show, Lose
<1>6. /\ conn' \in Helpers \cup {0} /\ commandMu' \in JobIds \cup {0}
      /\ status' \in Counts \cup {0} /\ overdue' \in BOOLEAN
      /\ link' \in [Helpers -> {"none", "open", "closed"}]
  <2>1. CASE Begin(j)
    <3>1. j \in JobIds
      BY DEF Types
    <3> QED BY <2>1, <3>1 DEF Begin, Types, TypeOK, linkVars
  <2>2. CASE Send(j)
    BY <2>2 DEF Send, Types, TypeOK
  <2>3. CASE Receive(j)
    BY <2>3 DEF Receive, Types, TypeOK
  <2>4. CASE Show(j)
    BY <1>1, <2>4 DEF Show, Say, Unlock, Types, TypeOK, linkVars, JobState
  <2>5. CASE Lose(j)
    BY <2>5 DEF Lose, HungUp, Unlock, Types, TypeOK
  <2> QED BY <2>1, <2>2, <2>3, <2>4, <2>5 DEF JobStep
<1>7. request' \in [Helpers -> Seq(0..30)]
  <2>1. CASE Send(j)
    <3>1. PhysicalDeviceCount(job[j].count) \in 0..30
      BY <1>1, DevicesFit DEF JobState
    <3>2. request \in [Helpers -> Seq(0..30)] /\ job[j].conn \in Helpers
      BY <1>1, <2>1 DEF Types, Send, JobState
    <3>3. Append(request[job[j].conn], PhysicalDeviceCount(job[j].count)) \in Seq(0..30)
      BY ONLY <3>1, <3>2, AppendProperties
    <3>4. request' = [request EXCEPT ![job[j].conn] =
                       Append(request[job[j].conn], PhysicalDeviceCount(job[j].count))]
      BY <2>1 DEF Send
    <3> QED BY ONLY <3>2, <3>3, <3>4
  <2>2. CASE UNCHANGED request
    BY <2>2 DEF Types
  <2> QED BY <2>1, <2>2 DEF JobStep, Begin, Receive, Show, Lose, linkVars
<1>8. reply' \in [Helpers -> Seq({"OK", "ERR"})]
  <2>1. CASE Receive(j)
    <3>1. job[j].conn \in Helpers
      BY <1>1, <2>1 DEF Receive, Types, JobState
    <3>2. reply[job[j].conn] \in Seq({"OK", "ERR"}) /\ reply[job[j].conn] # <<>>
      BY <3>1, <2>1 DEF Receive, Types
    <3>3. Tail(reply[job[j].conn]) \in Seq({"OK", "ERR"})
      BY ONLY <3>2, FirstOfSeq
    <3> QED BY <2>1, <3>3 DEF Receive, Types
  <2>2. CASE UNCHANGED reply
    BY <2>2 DEF Types
  <2>3. CASE Lose(j)
    <3>1. <<>> \in Seq({"OK", "ERR"})
      OBVIOUS
    <3> QED BY <2>3, <3>1 DEF Lose, Types
  <2> QED BY <2>1, <2>2, <2>3 DEF JobStep, Begin, Send, Show, linkVars
<1> QED
  BY SMTT(60), <1>3, <1>4, <1>5, <1>6, <1>7, <1>8
  DEF Types, TypeOK, jobUnchanged, windowVars, fileVars, JobPlaces

\* A step that starts a job leaves it a sequence of jobs.
LEMMA TypedStart ==
  ASSUME Types, NEW w \in [count : Counts \cup {0}, change : Nat], Spawn(w)
  PROVE  /\ job' \in Seq(JobState)
         /\ \A k \in 1..Len(job') : /\ job'[k].pc \in JobPlaces /\ k \in JobIds
                                    /\ job'[k].pc \in {"send", "sent"} => job'[k].conn # 0
<1> DEFINE r == [pc |-> "queued", count |-> w.count, change |-> w.change, conn |-> 0]
<1>1. /\ job' \in Seq(JobState) /\ Len(job') = Len(job) + 1 /\ Len(job) + 1 \in JobIds
      /\ \A k \in 1..Len(job) : job'[k] = job[k]
      /\ job'[Len(job) + 1] = r
  BY JobStarts
<1>2. Len(job) \in Nat /\ r.pc = "queued"
  BY LenProperties DEF Types
<1>3. ASSUME NEW k \in 1..Len(job')
      PROVE  /\ job'[k].pc \in JobPlaces /\ k \in JobIds
             /\ job'[k].pc \in {"send", "sent"} => job'[k].conn # 0
  <2> HIDE DEF r
  <2>1. CASE k \in 1..Len(job)
    BY <1>1, <2>1 DEF Types, TypeOK, JobPlaces
  <2>2. CASE k = Len(job) + 1
    BY <1>1, <1>2, <2>2 DEF JobPlaces
  <2> QED BY <1>1, <1>2, <2>1, <2>2
<1> QED BY <1>1, <1>3

LEMMA TypesWindow ==
  ASSUME Types,
         \/ \E up \in BOOLEAN : StartProgram(up)
         \/ AddCable \/ RemoveCable \/ WindowStep \/ Refused \/ CloseWindow \/ Die
         \/ \E h \in Helpers : Approved(h)
  PROVE  Types'
<1>1. ASSUME NEW up \in BOOLEAN, StartProgram(up) PROVE Types'
  <2>1. Load \in Counts
    BY ConstantsFit DEF Types, TypeOK, Load
  <2>2. runs' \in 0..MaxRuns
    BY <1>1, ConstantsFit DEF StartProgram, Types, TypeOK
  <2> QED
    BY <1>1, <2>1, <2>2 DEF StartProgram, Opened, Types, TypeOK, brokerVars, linkVars
<1>2. ASSUME NEW n \in Counts, ApplyCount(n) PROVE Types'
  <2>1. port' \in [Ports -> {Stale} \cup 0..30]
    BY <1>2 DEF ApplyCount, Outdated, Free
  <2> QED
    BY SMTT(40), <1>2, <2>1, ConstantsFit
    DEF ApplyCount, Types, TypeOK, fileVars, brokerVars, linkVars
<1>3. CASE Restarted
  <2>1. changes' \in 0..MaxChanges
    BY SMTT(20), <1>3, ConstantsFit DEF Restarted, Types, TypeOK
  <2> QED BY ZenonT(30), <1>3, <2>1 DEF Restarted, Types, TypeOK, fileVars, brokerVars, linkVars
<1>4. CASE RestartFails
  BY <1>4 DEF RestartFails, Types, TypeOK, fileVars, brokerVars, linkVars
<1>5. CASE Truncate
  BY <1>5 DEF Truncate, saveUnchanged, Types, TypeOK, brokerVars, linkVars
<1>6. CASE Saved
  BY <1>6 DEF Saved, saveUnchanged, Say, Types, TypeOK, brokerVars, linkVars
<1>7. CASE SaveFails
  BY <1>7 DEF SaveFails, saveUnchanged, Say, Types, TypeOK, brokerVars, linkVars
<1>8. Current \in [count : Counts \cup {0}, change : Nat]
  BY ConstantsFit DEF Current, Types, TypeOK
<1>9. CASE RequestSync
  <2>1. CASE UNCHANGED job
    BY <1>8, <1>9, <2>1 DEF RequestSync, Desire, Types, TypeOK, fileVars, linkVars
  <2>2. CASE Spawn(Current)
    BY SMTT(30), <1>8, <1>9, <2>2, TypedStart
    DEF RequestSync, Desire, Types, TypeOK, fileVars, linkVars, JobPlaces
  <2> QED BY <1>9, <2>1, <2>2 DEF RequestSync
<1>10. CASE StartBroker
  BY <1>8, <1>10 DEF StartBroker, Types, TypeOK, fileVars, linkVars
<1>11. CASE Refused
  BY <1>11 DEF Refused, GiveUp, Say, Types, TypeOK, fileVars, linkVars
<1>12. CASE Exit
  <2>1. port' \in [Ports -> {Stale} \cup 0..30]
    BY <1>12 DEF Exit, Outdated, Free
  <2>2. /\ accept' \in [Helpers -> {"none", "waiting", "greeting", "done"}]
        /\ link' \in [Helpers -> {"none", "open", "closed"}]
    BY <1>12 DEF Exit, Types, TypeOK
  <2>3. reply' \in [Helpers -> Seq({"OK", "ERR"})] /\ job' \in Seq(JobState) /\ Len(job') = 0
    BY <1>12 DEF Exit
  <2>4. desired' \in [count : Counts \cup {0}, change : Nat]
    BY <1>12 DEF Exit
  <2>5. overdue' \in BOOLEAN
    BY <1>12 DEF Exit
  <2>6. /\ window' = "closed" /\ wanted' = DefaultCount /\ cableCount' = DefaultCount
        /\ served' = 0 /\ status' = 0 /\ conn' = 0 /\ commandMu' = 0 /\ starting' = FALSE
        /\ UNCHANGED <<changes, saved, saveFailed, runs, helper, request>>
    BY <1>12 DEF Exit, fileVars
  <2>7. TypeOK'
    <3>1. \A j \in 1..Len(job') : FALSE
      BY <2>3
    <3>2. \A h \in Helpers : /\ helper'[h].pc \in HelperPlaces
                             /\ helper'[h].todo \subseteq Ports /\ helper'[h].count \in 0..30
      BY <2>6 DEF Types, TypeOK, HelperPlaces
    <3>3. /\ saved' \in Counts \cup {0} /\ saveFailed' \in BOOLEAN /\ runs' \in 0..MaxRuns
          /\ changes' \in 0..MaxChanges
      BY <2>6 DEF Types, TypeOK
    <3> QED
      BY ONLY <2>1, <2>2, <2>5, <2>6, <3>1, <3>2, <3>3, ConstantsFit DEF TypeOK, HelperPlaces
  <2> QED BY <2>3, <2>4, <2>6, <2>7 DEF Types
<1>13. ASSUME NEW h \in Helpers, Approved(h) PROVE Types'
  <2>1. helper[h] \in HelperState /\ "dialing" \in HelperPlaces
    BY DEF Types, HelperPlaces
  <2>2. helper' \in [Helpers -> HelperState]
    BY <1>13, <2>1, HelperStates DEF Approved, Types, Running
  <2>3. \A g \in Helpers : /\ helper'[g].pc \in HelperPlaces
                           /\ helper'[g].todo \subseteq Ports /\ helper'[g].count \in 0..30
    BY <2>2 DEF HelperState
  <2> QED
    BY <1>13, <2>2, <2>3
    DEF Approved, Say, Types, TypeOK, fileVars, brokerVars, linkVars, HelperPlaces
<1> QED
  BY <1>1, <1>2, <1>3, <1>4, <1>5, <1>6, <1>7, <1>9, <1>10, <1>11, <1>12, <1>13
  DEF AddCable, RemoveCable, WindowStep, CloseWindow, Die

LEMMA TypesAccept ==
  ASSUME Types, NEW h \in Helpers, AcceptStep(h)
  PROVE  Types'
<1>1. CASE AcceptTimesOut(h)
  BY ZenonT(30), <1>1
  DEF AcceptTimesOut, GiveUp, acceptUnchanged, windowVars, fileVars, linkVars, Types, TypeOK
<1>2. CASE GreetingFails(h)
  BY ZenonT(30), <1>2 DEF GreetingFails, GiveUp, acceptUnchanged, windowVars, fileVars, Types, TypeOK
<1>3. CASE Greeted(h)
  <2>1. desired \in [count : Counts \cup {0}, change : Nat]
    BY DEF Types
  <2> QED
    BY ZenonT(30), <1>3, <2>1, TypedStart
    DEF Greeted, acceptUnchanged, windowVars, fileVars, linkVars, Types, TypeOK, JobPlaces
<1> QED BY <1>1, <1>2, <1>3 DEF AcceptStep

LEMMA TypesNext ==
  ASSUME Types, [Next]_vars
  PROVE  Types'
<1>1. CASE UNCHANGED vars
  BY <1>1 DEF vars, windowVars, fileVars, brokerVars, linkVars, Types, TypeOK
<1>2. ASSUME NEW h \in Helpers, HelperStep(h) \/ HelperCrashes(h) PROVE Types'
  BY <1>2, TypesHelper
<1>3. ASSUME NEW h \in Helpers, AcceptStep(h) PROVE Types'
  BY <1>3, TypesAccept
<1>4. ASSUME NEW j \in 1..Len(job), JobStep(j) PROVE Types'
  BY <1>4, TypesJob
<1> QED BY <1>1, <1>2, <1>3, <1>4, TypesWindow DEF Next, AtRest

LEMMA TypesInit == Init => Types
<1> SUFFICES ASSUME Init PROVE Types
  OBVIOUS
<1>1. /\ helper \in [Helpers -> HelperState]
      /\ \A h \in Helpers : /\ helper[h].pc \in HelperPlaces
                            /\ helper[h].todo \subseteq Ports /\ helper[h].count \in 0..30
  BY DEF Init, Waits, HelperState, HelperPlaces
<1>2. /\ request \in [Helpers -> Seq(0..30)] /\ reply \in [Helpers -> Seq({"OK", "ERR"})]
      /\ job \in Seq(JobState) /\ Len(job) = 0
  BY DEF Init
<1>3. desired \in [count : Counts \cup {0}, change : Nat]
  BY DEF Init
<1>4. /\ accept \in [Helpers -> {"none", "waiting", "greeting", "done"}]
      /\ link \in [Helpers -> {"none", "open", "closed"}]
      /\ port \in [Ports -> {Stale} \cup 0..30]
  BY DEF Init, Free
<1>5. /\ window = "closed" /\ {wanted, cableCount} \subseteq Counts
      /\ {served, status} \subseteq Counts \cup {0} /\ saved \in Counts \cup {0}
      /\ saveFailed \in BOOLEAN /\ runs \in 0..MaxRuns /\ changes \in 0..MaxChanges
      /\ conn = 0 /\ commandMu = 0 /\ starting \in BOOLEAN /\ overdue \in BOOLEAN
  <2>1. /\ window = "closed" /\ wanted = DefaultCount /\ cableCount = DefaultCount
        /\ served = 0 /\ status = 0 /\ saved \in Counts \cup {0} /\ runs = 0 /\ changes = 0
        /\ conn = 0 /\ commandMu = 0
    BY DEF Init
  <2>2. saveFailed = FALSE /\ starting = FALSE /\ overdue = FALSE
    BY DEF Init
  <2>3. 0 \in 0..MaxRuns /\ 0 \in 0..MaxChanges
    BY ConstantsFit
  <2>4. saveFailed \in BOOLEAN /\ starting \in BOOLEAN /\ overdue \in BOOLEAN
    BY ONLY <2>2
  <2>5. {wanted, cableCount} \subseteq Counts /\ {served, status} \subseteq Counts \cup {0}
    BY ONLY <2>1, ConstantsFit
  <2> QED BY ONLY <2>1, <2>3, <2>4, <2>5
<1>6. \A j \in 1..Len(job) : FALSE
  BY <1>2
<1>7. TypeOK
  BY ONLY <1>1, <1>4, <1>5, <1>6 DEF TypeOK, HelperPlaces
<1> QED BY <1>1, <1>2, <1>3, <1>5, <1>6, <1>7 DEF Types

LEMMA TypesHold == Spec => []Types
BY TypesInit, TypesNext, PTL DEF Spec

\* Every record of the broker keeps its type: a count that is saved, sent to a helper
\* or shown is one the window may have, at most 30 devices are asked for, and a job
\* never takes commandMu beyond those there are (broker_windows.go:20-43, 157-195).
THEOREM BrokerTyped == Spec => []TypeOK
<1>1. Types => TypeOK
  BY DEF Types
<1> QED BY <1>1, TypesHold, PTL

-----------------------------------------------------------------------------
(* The broker and its helpers.                                               *)

\* The helpers were started one after the other, and each has its accept goroutine;
\* there is neither a broker nor one on its way when the window starts one.
Started ==
  /\ Launched = 1..Cardinality(Launched)
  /\ \A h \in Helpers : helper[h].pc = "none" <=> accept[h] = "none"
  /\ window \in {"launch", "closed"} => ~starting /\ conn = 0

\* A connection is there from the dialing on, and a job has one that was accepted.
Linked ==
  /\ \A h \in Helpers : /\ accept[h] \in {"none", "waiting"} => link[h] = "none"
                        /\ accept[h] = "greeting" => link[h] = "open"
  /\ conn # 0 => accept[conn] = "done"
  /\ \A j \in 1..Len(job) : job[j].conn # 0 => accept[job[j].conn] = "done"

\* A broker that arrives finds the last change.
DesiredIsCurrent ==
  starting /\ window \in {"open", "restart", "approval"} => desired = Current

IInv ==
  /\ Started /\ Linked /\ DesiredIsCurrent
  /\ StartingIsOwned /\ OneLinkedHelper /\ ChangeNotLost

LEMMA SameLaunched ==
  ASSUME Types, Types', \A h \in Helpers : helper'[h].pc = "none" <=> helper[h].pc = "none"
  PROVE  Launched' = Launched
BY DEF Launched

\* Who may be a connection's helper.
LEMMA Connections ==
  ASSUME Types
  PROVE  /\ conn \in Helpers \cup {0} /\ 0 \notin Helpers /\ Len(job) \in Nat
         /\ \A j \in 1..Len(job) : job[j] \in JobState /\ job[j].conn \in Helpers \cup {0}
<1>1. \A j \in 1..Len(job) : job[j] \in JobState
  BY DEF Types
<1> QED BY <1>1, ConstantsFit, LenProperties DEF Types, TypeOK, JobState

LEMMA HelperKeeps ==
  ASSUME Types, Types', IInv, NEW h \in Helpers, HelperStep(h) \/ HelperCrashes(h)
  PROVE  IInv'
<1>1. UNCHANGED <<window, cableCount, changes, conn, desired, starting, job>>
  <2>1. UNCHANGED helperUnchanged
    BY DEF HelperStep, HelperCrashes, Dial, Take, Inspect, Detach, Attach, AllAttached, HelperFails,
           HelperLeaves
  <2> QED BY <2>1 DEF helperUnchanged, windowVars, brokerVars
<1>2. \A g \in Helpers : helper'[g].pc = "none" <=> helper[g].pc = "none"
  BY HelperMoves DEF Types, Running
<1>3. Launched' = Launched
  BY <1>2, SameLaunched
<1>4. DesiredIsCurrent' /\ ChangeNotLost'
  BY <1>1 DEF IInv, DesiredIsCurrent, ChangeNotLost, Current
<1>5. CASE Dial(h)
  <2>1. /\ \A g \in Helpers : accept'[g] = IF g = h THEN "greeting" ELSE accept[g]
        /\ \A g \in Helpers : link'[g] = IF g = h THEN "open" ELSE link[g]
        /\ accept[h] = "waiting"
    BY <1>5 DEF Dial, Types, TypeOK
  <2>2. Started'
    BY <1>1, <1>2, <1>3, <2>1 DEF IInv, Started
  <2>3. Linked'
    BY <1>1, <2>1, Connections DEF IInv, Linked
  <2>4. StartingIsOwned'
    BY <1>1, <2>1 DEF IInv, StartingIsOwned, Pending
  <2>5. OneLinkedHelper'
    BY <1>1, <2>1, Connections DEF IInv, Linked, OneLinkedHelper
  <2> QED BY <1>4, <2>2, <2>3, <2>4, <2>5 DEF IInv
<1>6. CASE UNCHANGED <<accept, link>>
  BY <1>1, <1>2, <1>3, <1>4, <1>6
  DEF IInv, Started, Linked, StartingIsOwned, OneLinkedHelper, Pending
<1> QED
  BY <1>5, <1>6 DEF HelperStep, HelperCrashes, Take, Inspect, Detach, Attach, AllAttached,
     HelperFails, HelperLeaves, linkVars

LEMMA JobKeeps ==
  ASSUME Types, Types', IInv, NEW j \in 1..Len(job), JobStep(j)
  PROVE  IInv'
<1>1. UNCHANGED <<window, cableCount, changes, desired, starting, accept, helper>>
  <2>1. UNCHANGED jobUnchanged
    BY DEF JobStep, Begin, Send, Receive, Show, Lose
  <2> QED BY <2>1 DEF jobUnchanged, windowVars
<1>2. Launched' = Launched
  BY <1>1 DEF Launched
<1>3. PICK e \in JobState :
        /\ job' = [job EXCEPT ![j] = e]
        /\ e.count = job[j].count /\ e.change = job[j].change
        /\ \/ e.conn = job[j].conn /\ (job[j].pc = "queued" => conn = 0)
           \/ job[j].pc = "queued" /\ conn # 0 /\ e.conn = conn
  BY JobMoves
<1>4. /\ Len(job') = Len(job)
      /\ \A k \in 1..Len(job) : job'[k] = IF k = j THEN e ELSE job[k]
  BY <1>3, JobGoesOn
<1>5. /\ conn' = conn \/ conn' = 0
      /\ \/ UNCHANGED <<conn, link>>
         \/ /\ conn' = IF conn = job[j].conn THEN 0 ELSE conn
            /\ link' = [link EXCEPT ![job[j].conn] = "closed"]
            /\ job[j].pc \in {"send", "sent"}
  BY DEF JobStep, Begin, Send, Receive, Show, Lose, HungUp, linkVars
<1>6. \A g \in Helpers : link'[g] = link[g] \/ (g = job[j].conn /\ link'[g] = "closed")
  BY <1>5 DEF Types, TypeOK
<1>7. Started'
  BY <1>1, <1>2, <1>5 DEF IInv, Started
<1>8. Linked'
  <2>1. \A k \in 1..Len(job') : job'[k].conn # 0 => accept'[job'[k].conn] = "done"
    BY <1>1, <1>3, <1>4 DEF IInv, Linked
  <2>2. \A g \in Helpers : /\ accept'[g] \in {"none", "waiting"} => link'[g] = "none"
                           /\ accept'[g] = "greeting" => link'[g] = "open"
    BY <1>1, <1>6, Connections DEF IInv, Linked
  <2> QED BY <1>1, <1>5, <2>1, <2>2 DEF IInv, Linked
<1>9. DesiredIsCurrent'
  BY <1>1 DEF IInv, DesiredIsCurrent, Current
<1>10. StartingIsOwned'
  BY <1>1, <1>5 DEF IInv, StartingIsOwned, Pending
<1>11. OneLinkedHelper'
  <2>1. CASE UNCHANGED <<conn, link>>
    BY <1>1, <2>1 DEF IInv, OneLinkedHelper
  <2>2. CASE /\ conn' = IF conn = job[j].conn THEN 0 ELSE conn
             /\ link' = [link EXCEPT ![job[j].conn] = "closed"]
    <3>1. \A g \in Helpers : link'[g] = IF g = job[j].conn THEN "closed" ELSE link[g]
      BY <2>2 DEF Types, TypeOK
    <3> QED BY <1>1, <2>2, <3>1, Connections DEF IInv, OneLinkedHelper
  <2> QED BY <1>5, <2>1, <2>2
<1>12. ChangeNotLost'
  BY <1>1, <1>3, <1>4, <1>5 DEF IInv, ChangeNotLost
<1> QED BY <1>7, <1>8, <1>9, <1>10, <1>11, <1>12 DEF IInv

LEMMA AcceptKeeps ==
  ASSUME Types, Types', IInv, NEW h \in Helpers, AcceptStep(h)
  PROVE  IInv'
<1>1. UNCHANGED <<window, cableCount, changes, desired, helper>> /\ starting' = FALSE
  BY DEF AcceptStep, AcceptTimesOut, GreetingFails, Greeted, acceptUnchanged, windowVars, GiveUp
<1>2. Launched' = Launched
  BY <1>1 DEF Launched
<1>3. /\ \A g \in Helpers : accept'[g] = IF g = h THEN "done" ELSE accept[g]
      /\ Pending(h)
  BY DEF AcceptStep, AcceptTimesOut, GreetingFails, Greeted, Types, TypeOK, Pending
<1>4. starting /\ conn = 0
  BY <1>3 DEF IInv, StartingIsOwned
<1>5. StartingIsOwned' \/ conn' # 0
  BY <1>1, <1>3, <1>4 DEF IInv, StartingIsOwned, Pending
<1>6. Started' \/ window' \in {"launch", "closed"}
  BY <1>1, <1>2, <1>3 DEF IInv, Started, Pending
<1>7. window \notin {"launch", "closed"}
  BY <1>4 DEF IInv, Started
<1>8. CASE Greeted(h)
  <2>1. UNCHANGED link /\ conn' = h /\ accept[h] = "greeting" /\ Spawn(desired)
    BY <1>8 DEF Greeted, linkVars
  <2>2. /\ Len(job') = Len(job) + 1
        /\ \A k \in 1..Len(job) : job'[k] = job[k]
        /\ job'[Len(job) + 1] = [pc |-> "queued", count |-> desired.count,
                                 change |-> desired.change, conn |-> 0]
    BY <2>1, JobStarts DEF Types
  <2>3. Started'
    BY <1>1, <1>6, <1>7
  <2>4. Linked'
    BY <1>3, <2>1, <2>2, Connections DEF IInv, Linked
  <2>5. DesiredIsCurrent' /\ StartingIsOwned'
    BY <1>1, <1>3, <1>4, <2>1 DEF IInv, DesiredIsCurrent, StartingIsOwned, Pending
  <2>6. OneLinkedHelper'
    BY <1>3, <1>4, <2>1, Connections DEF IInv, Linked, OneLinkedHelper
  <2>7. ChangeNotLost'
    <3>1. ASSUME window \in {"open", "restart"}
          PROVE  desired.count = cableCount /\ desired.change = changes
      BY <1>4, <3>1 DEF IInv, DesiredIsCurrent, Current
    <3> QED BY <1>1, <2>2, <3>1, Connections DEF ChangeNotLost
  <2> QED BY <2>3, <2>4, <2>5, <2>6, <2>7 DEF IInv
<1>9. CASE AcceptTimesOut(h) \/ GreetingFails(h)
  <2>1. UNCHANGED <<conn, job>>
    BY <1>9 DEF AcceptTimesOut, GreetingFails
  <2>2. \A g \in Helpers : link'[g] = link[g] \/ (g = h /\ link'[g] = "closed")
    BY <1>9 DEF AcceptTimesOut, GreetingFails, linkVars, Types, TypeOK
  <2>3. Started' /\ StartingIsOwned' /\ DesiredIsCurrent' /\ ChangeNotLost'
    BY <1>1, <1>4, <1>5, <1>6, <1>7, <2>1 DEF DesiredIsCurrent, ChangeNotLost
  <2>4. Linked'
    BY <1>3, <1>4, <2>1, <2>2, Connections DEF IInv, Linked
  <2>5. link'[h] # "open"
    BY <1>9 DEF AcceptTimesOut, GreetingFails, linkVars, Types, TypeOK, IInv, Linked
  <2>6. OneLinkedHelper'
    BY <1>3, <1>4, <2>1, <2>2, <2>5 DEF IInv, OneLinkedHelper
  <2> QED BY <2>3, <2>4, <2>6 DEF IInv
<1> QED BY <1>8, <1>9 DEF AcceptStep

LEMMA WindowKeeps ==
  ASSUME Types, Types', IInv, AddCable \/ RemoveCable \/ WindowStep \/ Refused
  PROVE  IInv'
<1>1. UNCHANGED <<conn, accept, link, helper>>
  BY DEF AddCable, RemoveCable, ApplyCount, WindowStep, Restarted, RestartFails, Truncate, Saved,
         SaveFails, RequestSync, StartBroker, Refused, saveUnchanged, brokerVars, linkVars
<1>2. Launched' = Launched
  BY <1>1 DEF Launched
<1>3. OneLinkedHelper'
  BY <1>1 DEF IInv, OneLinkedHelper
<1>4. ASSUME UNCHANGED <<starting, desired, job>>,
             window \in {"open", "restart", "save", "write"},
             \/ /\ window' \in {"open", "restart"} /\ UNCHANGED <<cableCount, changes>>
                /\ window \in {"open", "restart"}
             \/ window' \in {"save", "write", "request"}
      PROVE  IInv'
  BY <1>1, <1>2, <1>3, <1>4
  DEF IInv, Started, Linked, DesiredIsCurrent, StartingIsOwned, ChangeNotLost, Pending, Current
<1>5. CASE AddCable \/ RemoveCable
  BY <1>4, <1>5 DEF AddCable, RemoveCable, ApplyCount, brokerVars
<1>6. CASE Restarted \/ RestartFails
  BY <1>4, <1>6 DEF Restarted, RestartFails, brokerVars
<1>7. CASE Truncate \/ Saved \/ SaveFails
  BY <1>4, <1>7 DEF Truncate, Saved, SaveFails, saveUnchanged, brokerVars
<1>8. CASE RequestSync
  <2>1. /\ window = "request" /\ desired' = Current
        /\ UNCHANGED <<starting, cableCount, changes>>
    BY <1>8 DEF RequestSync, Desire
  <2>2. DesiredIsCurrent' /\ StartingIsOwned'
    BY <1>1, <1>8, <2>1
    DEF IInv, RequestSync, DesiredIsCurrent, StartingIsOwned, Pending, Current
  <2>3. Started'
    BY <1>1, <1>2, <1>8, <2>1 DEF IInv, RequestSync, Started
  <2>4. CASE UNCHANGED job /\ conn = 0
    BY <1>1, <1>3, <2>2, <2>3, <2>4 DEF IInv, Linked, ChangeNotLost
  <2>5. CASE Spawn(Current)
    <3>1. Current \in [count : Counts \cup {0}, change : Nat]
      BY ConstantsFit DEF Current, Types, TypeOK
    <3>2. /\ Len(job') = Len(job) + 1
          /\ \A k \in 1..Len(job) : job'[k] = job[k]
          /\ job'[Len(job) + 1] = [pc |-> "queued", count |-> cableCount,
                                   change |-> changes, conn |-> 0]
      BY <2>5, <3>1, JobStarts DEF Current
    <3>3. Linked'
      BY <1>1, <3>2, Connections DEF IInv, Linked
    <3>4. ChangeNotLost'
      BY <2>1, <3>2, Connections DEF ChangeNotLost
    <3> QED BY <1>3, <2>2, <2>3, <3>3, <3>4 DEF IInv
  <2> QED BY <1>8, <2>4, <2>5 DEF RequestSync
<1>9. CASE StartBroker
  <2>1. /\ window = "launch" /\ ~starting /\ conn = 0
        /\ window' = "approval" /\ starting' = TRUE /\ desired' = Current
        /\ UNCHANGED <<job, cableCount, changes>>
    BY <1>9 DEF StartBroker, IInv, Started
  <2> QED
    BY <1>1, <1>2, <1>3, <2>1
    DEF IInv, Started, Linked, DesiredIsCurrent, StartingIsOwned, ChangeNotLost, Pending, Current
<1>10. CASE Refused
  <2>1. /\ window = "approval" /\ window' = "open" /\ starting' = FALSE
        /\ UNCHANGED <<job, cableCount, changes>>
    BY <1>10 DEF Refused, GiveUp
  <2>2. conn = 0
    BY <2>1 DEF IInv, StartingIsOwned
  <2> QED
    BY <1>1, <1>2, <1>3, <2>1, <2>2
    DEF IInv, Started, Linked, DesiredIsCurrent, StartingIsOwned, ChangeNotLost, Pending, Current
<1> QED BY <1>5, <1>6, <1>7, <1>8, <1>9, <1>10 DEF WindowStep

\* The next helper is one that was not there.
LEMMA ApprovedIsNew ==
  ASSUME Types, IInv, NEW h \in Helpers, Approved(h)
  PROVE  /\ Launched = 1..Cardinality(Launched) /\ h = Cardinality(Launched) + 1
         /\ IsFiniteSet(Launched) /\ Cardinality(Launched) \in Nat /\ h \notin Launched
         /\ accept[h] = "none"
<1>1. Launched = 1..Cardinality(Launched) /\ h = Cardinality(Launched) + 1
  BY DEF Approved, IInv, Started
<1>2. IsFiniteSet(Launched)
  BY FS_Subset, SyncAssumption DEF Launched
<1>3. Cardinality(Launched) \in Nat /\ h \notin Launched
  BY <1>1, <1>2, FS_CardinalityType
<1> QED BY <1>1, <1>2, <1>3 DEF Launched, IInv, Started

LEMMA ApprovedKeeps ==
  ASSUME Types, Types', IInv, NEW h \in Helpers, Approved(h)
  PROVE  IInv'
<1>1. /\ window = "approval" /\ window' = "open"
      /\ UNCHANGED <<cableCount, changes, conn, desired, starting, job, link>>
  BY DEF Approved, brokerVars, linkVars
<1>2. Launched = 1..Cardinality(Launched) /\ h = Cardinality(Launched) + 1
  BY ApprovedIsNew
<1>3. IsFiniteSet(Launched) /\ Cardinality(Launched) \in Nat /\ h \notin Launched
  BY ApprovedIsNew
<1>4. accept[h] = "none" /\ link[h] = "none"
  BY ApprovedIsNew DEF IInv, Linked
<1>5. /\ \A g \in Helpers : accept'[g] = IF g = h THEN "waiting" ELSE accept[g]
      /\ \A g \in Helpers : helper'[g].pc = IF g = h THEN "dialing" ELSE helper[g].pc
  <2>1. helper \in [Helpers -> HelperState] /\ helper[h] \in HelperState
    BY DEF Types
  <2>2. [helper[h] EXCEPT !.pc = "dialing"].pc = "dialing"
    BY <2>1 DEF HelperState
  <2>3. \A g \in Helpers : helper'[g] = IF g = h THEN [helper[h] EXCEPT !.pc = "dialing"]
                                                 ELSE helper[g]
    BY <2>1 DEF Approved
  <2> QED BY <2>2, <2>3 DEF Approved, Types, TypeOK
<1>6. Launched' = Launched \cup {h}
  BY <1>5 DEF Launched
<1>7. Launched' = 1..Cardinality(Launched')
  <2>1. Cardinality(Launched') = Cardinality(Launched) + 1
    BY <1>3, <1>6, FS_AddElement
  <2> QED BY <1>2, <1>3, <1>6, <2>1
<1>8. starting /\ conn = 0 /\ \A g \in Helpers : ~Pending(g)
  BY <1>1 DEF IInv, StartingIsOwned
<1>9. Started'
  BY <1>1, <1>5, <1>7, <1>8 DEF IInv, Started
<1>10. Linked'
  BY <1>1, <1>4, <1>5, <1>8, Connections DEF IInv, Linked
<1>11. StartingIsOwned' /\ OneLinkedHelper'
  BY <1>1, <1>5, <1>8 DEF IInv, StartingIsOwned, OneLinkedHelper, Pending
<1>12. DesiredIsCurrent' /\ ChangeNotLost'
  BY <1>1, <1>8 DEF IInv, DesiredIsCurrent, ChangeNotLost, Current
<1> QED BY <1>9, <1>10, <1>11, <1>12 DEF IInv

LEMMA RunKeeps ==
  ASSUME Types, Types', IInv, Exit \/ \E up \in BOOLEAN : StartProgram(up)
  PROVE  IInv'
<1>1. ASSUME NEW up \in BOOLEAN, StartProgram(up) PROVE IInv'
  <2>1. /\ window = "closed" /\ window' = "launch"
        /\ UNCHANGED <<conn, starting, accept, link, helper, job>>
    BY <1>1 DEF StartProgram, Opened, brokerVars, linkVars
  <2>2. Launched' = Launched
    BY <2>1 DEF Launched
  <2> QED
    BY <2>1, <2>2
    DEF IInv, Started, Linked, DesiredIsCurrent, StartingIsOwned, OneLinkedHelper, ChangeNotLost,
        Pending
<1>2. CASE Exit
  <2>1. /\ window' = "closed" /\ starting' = FALSE /\ conn' = 0 /\ helper' = helper
        /\ Len(job') = 0
    BY <1>2 DEF Exit
  <2>2. \A g \in Helpers : /\ accept'[g] = IF accept[g] = "none" THEN "none" ELSE "done"
                           /\ link'[g] = IF link[g] = "open" THEN "closed" ELSE link[g]
    BY <1>2 DEF Exit
  <2>3. Launched' = Launched
    BY <2>1 DEF Launched
  <2>4. Started' /\ DesiredIsCurrent' /\ StartingIsOwned' /\ OneLinkedHelper' /\ ChangeNotLost'
    BY <2>1, <2>2, <2>3
    DEF IInv, Started, DesiredIsCurrent, StartingIsOwned, OneLinkedHelper, ChangeNotLost, Pending
  <2>5. Linked'
    <3>1. \A k \in 1..Len(job') : FALSE
      BY <2>1
    <3> QED BY <2>1, <2>2, <3>1 DEF IInv, Linked
  <2> QED BY <2>4, <2>5 DEF IInv
<1> QED BY <1>1, <1>2

LEMMA InvNext ==
  ASSUME Types, IInv, [Next]_vars
  PROVE  IInv'
<1> Types'
  BY TypesNext
<1>1. CASE UNCHANGED vars
  BY <1>1 DEF vars, windowVars, fileVars, brokerVars, linkVars, IInv, Started, Linked,
     DesiredIsCurrent, StartingIsOwned, OneLinkedHelper, ChangeNotLost, Pending, Current, Launched
<1>2. ASSUME NEW h \in Helpers, Approved(h) \/ AcceptStep(h) \/ HelperStep(h) \/ HelperCrashes(h)
      PROVE  IInv'
  BY <1>2, ApprovedKeeps, AcceptKeeps, HelperKeeps
<1>3. ASSUME NEW j \in 1..Len(job), JobStep(j) PROVE IInv'
  BY <1>3, JobKeeps
<1> QED BY <1>1, <1>2, <1>3, WindowKeeps, RunKeeps DEF Next, AtRest, CloseWindow, Die

LEMMA InvInit == Init => IInv
<1> SUFFICES ASSUME Init PROVE IInv
  OBVIOUS
<1>1. Launched = {}
  BY DEF Init, Launched, Waits
<1>2. Launched = 1..Cardinality(Launched)
  BY <1>1, FS_EmptySet
<1>3. /\ window = "closed" /\ conn = 0 /\ starting = FALSE /\ Len(job) = 0
      /\ \A h \in Helpers : helper[h].pc = "none" /\ accept[h] = "none" /\ link[h] = "none"
  BY DEF Init, Waits
<1> QED
  BY ONLY <1>2, <1>3
  DEF IInv, Started, Linked, DesiredIsCurrent, StartingIsOwned, OneLinkedHelper, ChangeNotLost,
      Pending

LEMMA InvHolds == Spec => []IInv
<1>1. Init => Types /\ IInv
  BY TypesInit, InvInit
<1>2. Types /\ IInv /\ [Next]_vars => Types' /\ IInv'
  BY TypesNext, InvNext
<1> QED BY <1>1, <1>2, PTL DEF Spec

\* Whichever way a broker fails, is refused, or succeeds, the flag that keeps a second
\* elevated helper from being started is set exactly as long as one is on its way,
\* for any number of changes, helpers and runs (broker_windows.go:45-140).
THEOREM BrokerStartingIsOwned == Spec => []StartingIsOwned
<1>1. IInv => StartingIsOwned
  BY DEF IInv
<1> QED BY <1>1, InvHolds, PTL

\* At no time can two elevated helpers be commanded, and the one the broker commands
\* has its connection open (broker_windows.go:168-181).
THEOREM BrokerOneLinkedHelper == Spec => []OneLinkedHelper
<1>1. IInv => OneLinkedHelper
  BY DEF IInv
<1> QED BY <1>1, InvHolds, PTL

\* However a change of the count, the arrival of the broker and the jobs before it
\* interleave, there is a job for the last change (broker_windows.go:132-155).
THEOREM BrokerChangeNotLost == Spec => []ChangeNotLost
<1>1. IInv => ChangeNotLost
  BY DEF IInv
<1> QED BY <1>1, InvHolds, PTL

LEMMA NextRunStep ==
  ASSUME Types, NextRunAgrees, [Next]_vars
  PROVE  NextRunAgrees'
<1>1. ASSUME NEW up \in BOOLEAN, StartProgram(up) PROVE NextRunAgrees'
  BY <1>1 DEF StartProgram, Opened, Load, NextRunAgrees
<1>2. CASE Saved
  BY <1>2, ConstantsFit DEF Saved, saveUnchanged, Load, NextRunAgrees, Types, TypeOK
<1>3. CASE Restarted \/ Truncate \/ SaveFails \/ Exit
  BY <1>3 DEF Restarted, Truncate, SaveFails, Exit, NextRunAgrees
<1>4. ASSUME UNCHANGED <<cableCount, saved, saveFailed>>,
             window' = window \/ window \notin {"closed", "save", "write"}
      PROVE  NextRunAgrees'
  BY <1>4 DEF NextRunAgrees, Load
<1>5. CASE AddCable \/ RemoveCable \/ RestartFails \/ Refused \/ RequestSync \/ StartBroker
  BY <1>4, <1>5 DEF AddCable, RemoveCable, ApplyCount, RestartFails, Refused, RequestSync, StartBroker, fileVars
<1>6. ASSUME NEW h \in Helpers, Approved(h) PROVE NextRunAgrees'
  BY <1>4, <1>6 DEF Approved, fileVars
<1>7. ASSUME NEW h \in Helpers, AcceptStep(h) PROVE NextRunAgrees'
  BY <1>4, <1>7 DEF AcceptStep, AcceptTimesOut, GreetingFails, Greeted, acceptUnchanged, windowVars, fileVars
<1>8. ASSUME NEW h \in Helpers, HelperStep(h) \/ HelperCrashes(h) PROVE NextRunAgrees'
  <2>1. UNCHANGED helperUnchanged
    BY <1>8 DEF HelperStep, HelperCrashes, Dial, Take, Inspect, Detach, Attach, AllAttached,
       HelperFails, HelperLeaves
  <2> QED BY <1>4, <2>1 DEF helperUnchanged, windowVars, fileVars
<1>9. ASSUME NEW j \in 1..Len(job), JobStep(j) PROVE NextRunAgrees'
  <2>1. UNCHANGED jobUnchanged
    BY <1>9 DEF JobStep, Begin, Send, Receive, Show, Lose
  <2> QED BY <1>4, <2>1 DEF jobUnchanged, windowVars, fileVars
<1>10. CASE UNCHANGED vars
  BY <1>4, <1>10 DEF vars, windowVars, fileVars
<1> QED
  BY <1>1, <1>2, <1>3, <1>5, <1>6, <1>7, <1>8, <1>9, <1>10
  DEF Next, WindowStep, AtRest, CloseWindow, Die

\* Whenever the program ends, but in the middle of saving a change or after it could
\* not save one, the next run starts with the same number of cables
\* (gui_windows.go:418-426, main.go:295-322).
THEOREM BrokerNextRunAgrees == Spec => []NextRunAgrees
<1>1. Init => NextRunAgrees
  BY DEF Init, NextRunAgrees
<1> QED BY <1>1, TypesInit, TypesNext, NextRunStep, PTL DEF Spec

-----------------------------------------------------------------------------
(* One exchange at a time.                                                   *)

\* The job that holds commandMu is the one with a connection in its hands.
InTurn ==
  /\ commandMu \in 0..Len(job)
  /\ \A j \in 1..Len(job) : job[j].pc \in {"send", "sent", "OK", "ERR"} <=> commandMu = j

\* The job in turn waits for helper h.
Asked(h) == commandMu # 0 /\ job[commandMu].pc = "sent" /\ job[commandMu].conn = h

Idle(h) == request[h] = <<>> /\ ~Working(h) /\ reply[h] = <<>>

\* Its request waits, is worked on, or is answered.
Busy(h, n) ==
  \/ request[h] = <<n>> /\ ~Working(h) /\ reply[h] = <<>>
  \/ request[h] = <<>> /\ Working(h) /\ helper[h].count = n /\ reply[h] = <<>>
  \/ request[h] = <<>> /\ ~Working(h) /\ Len(reply[h]) = 1

Exchange(h) == IF Asked(h) THEN Busy(h, PhysicalDeviceCount(job[commandMu].count)) ELSE Idle(h)

\* What goes on between the broker and helper h, from the dialing to the end.
Talks(h) ==
  /\ link[h] = "none" => Idle(h) /\ helper[h].pc # "reading"
  /\ link[h] = "open" /\ helper[h].pc # "gone" => Exchange(h)

Talk == InTurn /\ \A h \in Helpers : Talks(h)

LEMMA SingleLine ==
  ASSUME NEW line
  PROVE  /\ Append(<<>>, line) = <<line>> /\ Len(<<line>>) = 1
         /\ Head(<<line>>) = line /\ Tail(<<line>>) = <<>> /\ <<line>> # <<>>
<1>1. <<line>> \in Seq({line}) /\ Len(<<line>>) = 1 /\ <<line>>[1] = line /\ <<line>> # <<>>
  OBVIOUS
<1>2. Append(<<>>, line) = <<line>>
  OBVIOUS
<1>3. Head(<<line>>) = line
  BY <1>1, HeadTailProperties
<1>4. Tail(<<line>>) \in Seq({line}) /\ Len(Tail(<<line>>)) = 0
  BY <1>1, HeadTailProperties
<1>5. Tail(<<line>>) = <<>>
  BY <1>4, EmptySeq
<1> QED BY <1>1, <1>2, <1>3, <1>5

LEMMA TailOfOne ==
  ASSUME NEW S, NEW q \in Seq(S), Len(q) = 1
  PROVE  Tail(q) = <<>> /\ q # <<>>
<1>1. q # <<>>
  BY EmptySeq
<1>2. Tail(q) \in Seq(S) /\ Len(Tail(q)) = 0
  BY <1>1, HeadTailProperties
<1> QED BY <1>1, <1>2, EmptySeq

\* Where nothing moves the talk goes on.
LEMMA Elsewhere ==
  ASSUME NEW h, Talks(h), UNCHANGED <<helper[h], link[h], request[h], reply[h]>>,
         Asked(h)' <=> Asked(h), Asked(h) => job'[commandMu'].count = job[commandMu].count
  PROVE  Talks(h)'
BY DEF Talks, Exchange, Idle, Busy, Working

LEMMA TalkHelper ==
  ASSUME Types, Types', IInv, Talk, NEW h \in Helpers, HelperStep(h) \/ HelperCrashes(h)
  PROVE  Talk'
<1>1. UNCHANGED <<commandMu, job>>
  <2>1. UNCHANGED helperUnchanged
    BY DEF HelperStep, HelperCrashes, Dial, Take, Inspect, Detach, Attach, AllAttached, HelperFails,
           HelperLeaves
  <2> QED BY <2>1 DEF helperUnchanged
<1>2. InTurn' /\ \A g \in Helpers : (Asked(g)' <=> Asked(g))
  BY <1>1 DEF Talk, InTurn, Asked
<1>3. ASSUME NEW g \in Helpers, g # h
      PROVE  UNCHANGED <<helper[g], link[g], request[g], reply[g]>>
  <2>1. helper'[g] = helper[g]
    BY <1>3, HelperMoves DEF Types
  <2>2. link'[g] = link[g]
    BY SMTT(20), <1>3
    DEF Types, TypeOK, HelperStep, HelperCrashes, Dial, Take, Inspect, Detach, Attach, AllAttached,
        HelperFails, HelperLeaves, linkVars
  <2>3. request'[g] = request[g]
    BY <1>3 DEF Types, HelperStep, HelperCrashes, Dial, Take, Inspect, Detach, Attach, AllAttached,
       HelperFails, HelperLeaves, Leave, linkVars
  <2>4. reply'[g] = reply[g]
    BY <1>3 DEF Types, HelperStep, HelperCrashes, Dial, Take, Inspect, Detach, Attach, AllAttached,
       HelperFails, HelperLeaves, Answer, linkVars
  <2> QED BY <2>1, <2>2, <2>3, <2>4
<1>4. ASSUME Talks(h)' PROVE Talk'
  BY <1>1, <1>2, <1>3, <1>4, Elsewhere DEF Talk
<1>5. Talks(h) /\ helper[h] \in HelperState
  BY DEF Talk, Types
<1>6. \A line : reply[h] = <<>> => Len(Append(reply[h], line)) = 1
  BY SingleLine
<1>7. CASE Dial(h)
  <2>1. accept[h] = "waiting" /\ link[h] = "none" /\ link'[h] = "open"
    BY <1>7 DEF Dial, IInv, Linked, Types, TypeOK
  <2>2. ~Asked(h)
    BY <2>1, ConstantsFit DEF Asked, IInv, Linked, Talk, InTurn, Types
  <2>3. helper'[h].pc = "reading" /\ request'[h] = request[h] /\ reply'[h] = reply[h]
    BY <1>5, <1>7 DEF Dial, Types, HelperState
  <2> QED BY <1>2, <1>4, <1>5, <2>1, <2>2, <2>3 DEF Talks, Exchange, Idle, Working
<1>8. CASE Take(h)
  <2>1. helper[h].pc = "reading" /\ request[h] # <<>> /\ link' = link /\ reply' = reply
    BY <1>8 DEF Take
  <2>2. link[h] = "open" => Asked(h) /\ request[h] = <<PhysicalDeviceCount(job[commandMu].count)>>
                            /\ reply[h] = <<>>
    BY <1>5, <2>1 DEF Talks, Exchange, Busy, Idle
  <2>3. /\ helper'[h] = [pc |-> "list", count |-> Head(request[h]), next |-> 1, todo |-> {}]
        /\ request'[h] = Tail(request[h])
    BY <1>8 DEF Take, Types
  <2>4. helper'[h].pc = "list" /\ helper'[h].count = Head(request[h])
    BY <2>3
  <2>5. link[h] = "open" =>
          helper'[h].count = PhysicalDeviceCount(job[commandMu].count) /\ request'[h] = <<>>
    BY <2>2, <2>3, <2>4, SingleLine
  <2>6. link[h] # "none"
    BY <1>5, <2>1 DEF Talks, Idle
  <2> QED BY <1>1, <1>2, <1>4, <2>1, <2>2, <2>4, <2>5, <2>6 DEF Talks, Exchange, Busy, Working
<1>9. CASE Inspect(h) \/ Detach(h) \/ Attach(h)
  <2>1. UNCHANGED <<link, request, reply>> /\ Working(h)
    BY <1>9 DEF Inspect, Detach, Attach, linkVars, Working
  <2>2. Working(h)' /\ helper'[h].count = helper[h].count
    BY <1>5, <1>9 DEF Inspect, Detach, Attach, Working, Types, HelperState
  <2> QED
    BY <1>1, <1>2, <1>4, <1>5, <2>1, <2>2 DEF Talks, Exchange, Busy, Idle, Working
<1>10. ASSUME NEW line, Answer(h, line), Working(h), UNCHANGED <<link, request>> PROVE Talk'
  <2>1. helper'[h].pc = "reading"
    BY <1>10 DEF Answer, Waits, Types
  <2>2. link[h] = "open" => reply'[h] = Append(reply[h], line)
    BY <1>10 DEF Answer, Types
  <2>3. link[h] # "none"
    BY <1>5, <1>10 DEF Talks, Idle
  <2>4. link[h] = "open" => Asked(h) /\ request[h] = <<>> /\ reply[h] = <<>>
    BY <1>5, <1>10 DEF Talks, Exchange, Busy, Idle, Working
  <2> QED
    BY <1>1, <1>2, <1>4, <1>6, <1>10, <2>1, <2>2, <2>3, <2>4 DEF Talks, Exchange, Busy, Working
<1>11. CASE Leave(h) /\ UNCHANGED <<link, reply>>
  <2>1. helper'[h].pc = "gone" /\ request'[h] = <<>>
    BY <1>11 DEF Leave, Waits, Types
  <2> QED BY <1>4, <1>5, <1>11, <2>1 DEF Talks, Idle, Working
<1> QED
  BY <1>7, <1>8, <1>9, <1>10, <1>11
  DEF HelperStep, HelperCrashes, AllAttached, HelperFails, HelperLeaves, Working

LEMMA TalkJob ==
  ASSUME Types, Types', IInv, Talk, NEW j \in 1..Len(job), JobStep(j)
  PROVE  Talk'
<1>1. helper' = helper /\ job[j] \in JobState /\ j # 0
  BY DEF JobStep, Begin, Send, Receive, Show, Lose, jobUnchanged, Types
<1>2. PICK e \in JobState : job' = [job EXCEPT ![j] = e]
  BY JobMoves
<1>3. /\ Len(job') = Len(job) /\ job'[j] = e
      /\ \A k \in 1..Len(job) : k # j => job'[k] = job[k]
  BY <1>2, JobGoesOn
<1>4. \/ commandMu = j
      \/ commandMu = 0 /\ job[j].pc = "queued"
  BY DEF JobStep, Begin, Send, Receive, Show, Lose, MayCommand, Talk, InTurn
<1>5. ASSUME \/ job'[j].pc \in {"send", "sent", "OK", "ERR"} /\ commandMu' = j
             \/ job'[j].pc = "done" /\ commandMu' = 0
      PROVE  /\ InTurn'
             /\ job'[j].pc # "sent" => \A g \in Helpers : ~Asked(g)'
  BY <1>1, <1>3, <1>4, <1>5, Connections DEF Talk, InTurn, Asked
<1>6. job[j].pc # "sent" => \A g \in Helpers : ~Asked(g)
  BY <1>1, <1>4 DEF Asked
<1>7. CASE Begin(j)
  <2>1. UNCHANGED <<link, request, reply>> /\ job[j].pc = "queued"
    BY <1>7 DEF Begin, linkVars
  <2>2. \/ job'[j].pc = "done" /\ commandMu' = 0
        \/ job'[j].pc = "send" /\ commandMu' = j
    BY <1>1, <1>4, <1>7 DEF Begin, Ends, MayCommand, Types, JobState
  <2> QED BY <1>1, <1>5, <1>6, <2>1, <2>2, Elsewhere DEF Talk
<1>8. CASE Send(j)
  <2>1. PICK h \in Helpers : h = job[j].conn
    BY <1>1, <1>8 DEF Send, Types, JobState
  <2> DEFINE n == PhysicalDeviceCount(job[j].count)
  <2>2. /\ UNCHANGED <<commandMu, link, reply>> /\ job[j].pc = "send" /\ link[h] = "open"
        /\ request' = [request EXCEPT ![h] = Append(@, n)] /\ commandMu = j
    BY <2>1, <1>4, <1>8 DEF Send
  <2>3. job'[j].pc = "sent" /\ job'[j].conn = h /\ job'[j].count = job[j].count
    BY <1>1, <1>8, <2>1 DEF Send, Types, JobState
  <2>4. /\ \A g \in Helpers : g # h => request'[g] = request[g]
        /\ request'[h] = Append(request[h], n)
    BY <2>2 DEF Types
  <2>5. \A g \in Helpers : ~Asked(g) /\ (Asked(g)' <=> g = h)
    BY <1>1, <1>6, <2>1, <2>2, <2>3 DEF Asked
  <2>6. InTurn'
    BY <1>5, <2>2, <2>3
  <2>7. Talks(h)'
    <3>1. helper[h].pc # "gone" => Idle(h)
      BY <2>2, <2>5 DEF Talk, Talks, Exchange
    <3>2. helper[h].pc # "gone" => request'[h] = <<n>>
      BY <2>4, <3>1, SingleLine DEF Idle
    <3> HIDE DEF n
    <3>3. n = PhysicalDeviceCount(job'[commandMu'].count)
      BY <2>2, <2>3 DEF n
    <3> QED
      BY <1>1, <2>2, <2>5, <3>1, <3>2, <3>3 DEF Talks, Exchange, Busy, Idle, Working
  <2>8. \A g \in Helpers : g # h => Talks(g)'
    BY <1>1, <2>2, <2>4, <2>5, Elsewhere DEF Talk
  <2> QED BY <2>6, <2>7, <2>8 DEF Talk
<1>9. CASE Receive(j)
  <2>1. PICK h \in Helpers : h = job[j].conn
    BY <1>1, <1>9 DEF Receive, Types, JobState
  <2>2. /\ UNCHANGED <<commandMu, link, request>> /\ job[j].pc = "sent" /\ reply[h] # <<>>
        /\ reply' = [reply EXCEPT ![h] = Tail(@)] /\ commandMu = j
    BY <2>1, <1>4, <1>9 DEF Receive
  <2>3. job'[j].pc \in {"OK", "ERR"}
    <3>1. reply[h] \in Seq({"OK", "ERR"})
      BY DEF Types
    <3>2. Head(reply[h]) \in {"OK", "ERR"}
      BY ONLY <2>2, <3>1, FirstOfSeq
    <3>3. job'[j].pc = Head(reply[h])
      BY <1>1, <1>9, <2>1 DEF Receive, Types, JobState
    <3> QED BY ONLY <3>2, <3>3
  <2>4. /\ \A g \in Helpers : g # h => reply'[g] = reply[g]
        /\ reply'[h] = Tail(reply[h])
    BY <2>2 DEF Types
  <2>5. \A g \in Helpers : (Asked(g) <=> g = h) /\ ~Asked(g)'
    BY <1>1, <1>5, <2>1, <2>2, <2>3 DEF Asked
  <2>6. InTurn'
    BY <1>5, <2>2, <2>3
  <2>7. Talks(h)'
    <3>1. link[h] # "none"
      BY <2>2 DEF Talk, Talks, Idle
    <3>2. link[h] = "open" /\ helper[h].pc # "gone" =>
            request[h] = <<>> /\ ~Working(h) /\ Len(reply[h]) = 1
      BY <2>2, <2>5 DEF Talk, Talks, Exchange, Busy
    <3>3. reply[h] \in Seq({"OK", "ERR"})
      BY DEF Types
    <3>4. Len(reply[h]) = 1 => reply'[h] = <<>>
      BY ONLY <2>4, <3>3, TailOfOne
    <3> QED BY <1>1, <2>2, <2>5, <3>1, <3>2, <3>4 DEF Talks, Exchange, Idle, Working
  <2>8. \A g \in Helpers : g # h => Talks(g)'
    BY <1>1, <2>2, <2>4, <2>5, Elsewhere DEF Talk
  <2> QED BY <2>6, <2>7, <2>8 DEF Talk
<1>10. CASE Show(j)
  <2>1. UNCHANGED <<link, request, reply>> /\ job[j].pc \in {"OK", "ERR"}
    BY <1>10 DEF Show, linkVars
  <2>2. job'[j].pc = "done" /\ commandMu' = 0
    BY <1>1, <1>10 DEF Show, Ends, Unlock, Types, JobState
  <2> QED BY <1>1, <1>5, <1>6, <2>1, <2>2, Elsewhere DEF Talk
<1>11. CASE Lose(j)
  <2>1. PICK h \in Helpers : h = job[j].conn
    BY <1>1, <1>11 DEF Lose, Types, JobState
  <2>2. /\ UNCHANGED request /\ job[j].pc \in {"send", "sent"}
        /\ link' = [link EXCEPT ![h] = "closed"]
        /\ reply' = [reply EXCEPT ![h] = <<>>] /\ commandMu = j
    BY <2>1, <1>4, <1>11 DEF Lose, HungUp
  <2>3. job'[j].pc = "done" /\ commandMu' = 0
    BY <1>1, <1>11 DEF Lose, Ends, Unlock, Types, JobState
  <2>4. /\ \A g \in Helpers : g # h => reply'[g] = reply[g] /\ link'[g] = link[g]
        /\ link'[h] = "closed"
    BY <2>2 DEF Types, TypeOK
  <2>5. InTurn' /\ \A g \in Helpers : ~Asked(g)' /\ (g # h => ~Asked(g))
    BY <1>1, <1>5, <2>1, <2>2, <2>3 DEF Asked
  <2>6. Talks(h)'
    BY <2>4 DEF Talks
  <2>7. \A g \in Helpers : g # h => Talks(g)'
    BY <1>1, <2>2, <2>4, <2>5, Elsewhere DEF Talk
  <2> QED BY <2>5, <2>6, <2>7 DEF Talk
<1> QED BY <1>7, <1>8, <1>9, <1>10, <1>11 DEF JobStep

LEMMA TalkStart ==
  ASSUME Types, Talk, NEW w \in [count : Counts \cup {0}, change : Nat], Spawn(w),
         UNCHANGED <<commandMu, helper, link, request, reply>>
  PROVE  Talk'
<1>1. /\ Len(job') = Len(job) + 1 /\ Len(job) \in Nat
      /\ \A k \in 1..Len(job) : job'[k] = job[k]
      /\ job'[Len(job) + 1].pc = "queued"
  <2> DEFINE r == [pc |-> "queued", count |-> w.count, change |-> w.change, conn |-> 0]
  <2>1. r.pc = "queued"
    OBVIOUS
  <2>2. /\ Len(job') = Len(job) + 1 /\ job'[Len(job) + 1] = r
        /\ \A k \in 1..Len(job) : job'[k] = job[k]
    BY JobStarts
  <2> QED BY <2>1, <2>2, Connections
<1>2. InTurn'
  BY <1>1 DEF Talk, InTurn
<1>3. commandMu # 0 => job'[commandMu] = job[commandMu]
  BY <1>1 DEF Talk, InTurn
<1>4. \A g \in Helpers : Talks(g)'
  BY <1>3, Elsewhere DEF Talk, Asked
<1> QED BY <1>2, <1>4 DEF Talk

LEMMA TalkAccept ==
  ASSUME Types, Types', IInv, Talk, NEW h \in Helpers, AcceptStep(h)
  PROVE  Talk'
<1>1. UNCHANGED <<commandMu, helper, request, reply>>
  BY DEF AcceptStep, AcceptTimesOut, GreetingFails, Greeted, acceptUnchanged, linkVars
<1>2. CASE Greeted(h)
  BY <1>1, <1>2, TalkStart DEF Greeted, linkVars, Types
<1>3. CASE AcceptTimesOut(h) \/ GreetingFails(h)
  <2>1. job' = job /\ \A g \in Helpers : link'[g] = link[g] \/ link'[g] = "closed"
    BY <1>3 DEF AcceptTimesOut, GreetingFails, linkVars, Types, TypeOK
  <2>2. \A g \in Helpers : Asked(g)' <=> Asked(g)
    BY <1>1, <2>1 DEF Asked
  <2>3. ASSUME NEW g \in Helpers PROVE Talks(g)'
    <3>1. CASE link'[g] = link[g]
      BY <1>1, <2>1, <2>2, <3>1, Elsewhere DEF Talk
    <3>2. CASE link'[g] = "closed"
      BY <3>2 DEF Talks
    <3> QED BY <2>1, <3>1, <3>2
  <2> QED BY <1>1, <2>1, <2>3 DEF Talk, InTurn
<1> QED BY <1>2, <1>3 DEF AcceptStep

LEMMA TalkWindow ==
  ASSUME Types, Types', IInv, Talk,
         \/ \E up \in BOOLEAN : StartProgram(up)
         \/ AddCable \/ RemoveCable \/ WindowStep \/ Refused \/ Exit
         \/ \E h \in Helpers : Approved(h)
         \/ UNCHANGED vars
  PROVE  Talk'
<1>1. ASSUME UNCHANGED <<commandMu, job, helper, link, request, reply>> PROVE Talk'
  <2>1. \A g \in Helpers : Asked(g)' <=> Asked(g)
    BY <1>1 DEF Asked
  <2> QED BY <1>1, <2>1, Elsewhere DEF Talk, InTurn
<1>2. ASSUME NEW up \in BOOLEAN, StartProgram(up) PROVE Talk'
  BY <1>1, <1>2 DEF StartProgram, linkVars
<1>3. CASE AddCable \/ RemoveCable \/ Refused \/ StartBroker
  BY <1>1, <1>3 DEF AddCable, RemoveCable, ApplyCount, Refused, StartBroker, linkVars
<1>4. CASE Restarted \/ RestartFails
  BY <1>1, <1>4 DEF Restarted, RestartFails, linkVars
<1>5. CASE Truncate \/ Saved \/ SaveFails
  BY <1>1, <1>5 DEF Truncate, Saved, SaveFails, saveUnchanged, linkVars
<1>6. CASE RequestSync
  <2>1. UNCHANGED <<commandMu, helper, link, request, reply>>
    BY <1>6 DEF RequestSync, linkVars
  <2>2. Current \in [count : Counts \cup {0}, change : Nat]
    BY ConstantsFit DEF Current, Types, TypeOK
  <2> QED BY <1>1, <1>6, <2>1, <2>2, TalkStart DEF RequestSync
<1>7. ASSUME NEW h \in Helpers, Approved(h) PROVE Talk'
  <2>1. UNCHANGED <<commandMu, job, link, request, reply>> /\ link[h] = "none"
    <3>1. accept[h] = "none"
      BY <1>7, ApprovedIsNew
    <3> QED BY <1>7, <3>1 DEF Approved, linkVars, IInv, Linked
  <2>2. /\ \A g \in Helpers : g # h => helper'[g] = helper[g]
        /\ helper'[h].pc = "dialing"
    BY <1>7 DEF Approved, Types, HelperState
  <2>3. \A g \in Helpers : Asked(g)' <=> Asked(g)
    BY <2>1 DEF Asked
  <2>4. \A g \in Helpers : g # h => Talks(g)'
    BY <2>1, <2>2, <2>3, Elsewhere DEF Talk
  <2>5. Talks(h)'
    BY <2>1, <2>2 DEF Talk, Talks, Idle, Working
  <2> QED BY <2>1, <2>4, <2>5 DEF Talk, InTurn
<1>8. CASE Exit
  <2>1. /\ commandMu' = 0 /\ Len(job') = 0 /\ UNCHANGED <<request, helper>>
        /\ \A g \in Helpers : /\ link'[g] = IF link[g] = "open" THEN "closed" ELSE link[g]
                              /\ reply'[g] = <<>>
    BY <1>8 DEF Exit
  <2>2. InTurn'
    BY <2>1 DEF InTurn
  <2>3. \A g \in Helpers : Talks(g)'
    BY <2>1 DEF Talk, Talks, Idle, Working
  <2> QED BY <2>2, <2>3 DEF Talk
<1>9. CASE UNCHANGED vars
  BY <1>1, <1>9 DEF vars, linkVars
<1> QED BY <1>2, <1>3, <1>4, <1>5, <1>6, <1>7, <1>8, <1>9 DEF WindowStep

LEMMA TalkNext ==
  ASSUME Types, IInv, Talk, [Next]_vars
  PROVE  Talk'
<1> Types'
  BY TypesNext
<1>1. ASSUME NEW h \in Helpers, AcceptStep(h) \/ HelperStep(h) \/ HelperCrashes(h) PROVE Talk'
  BY <1>1, TalkAccept, TalkHelper
<1>2. ASSUME NEW j \in 1..Len(job), JobStep(j) PROVE Talk'
  BY <1>2, TalkJob
<1> QED BY <1>1, <1>2, TalkWindow DEF Next, AtRest, CloseWindow, Die

LEMMA TalkInit == Init => Talk
<1> SUFFICES ASSUME Init PROVE Talk
  OBVIOUS
<1>1. commandMu = 0 /\ Len(job) = 0
  BY DEF Init
<1>2. \A h \in Helpers : /\ helper[h].pc = "none" /\ link[h] = "none"
                         /\ request[h] = <<>> /\ reply[h] = <<>>
  BY DEF Init, Waits
<1>3. InTurn
  BY <1>1 DEF InTurn
<1> QED BY <1>2, <1>3 DEF Talk, Talks, Idle, Working

LEMMA TalkIsPaired ==
  ASSUME Types, Talk
  PROVE  RepliesPaired
<1> SUFFICES
      ASSUME NEW h \in Helpers, link[h] = "open", helper[h].pc # "gone"
      PROVE  /\ Len(request[h]) + (IF Working(h) THEN 1 ELSE 0) + Len(reply[h])
                  = Cardinality(Waiting(h))
             /\ \A j \in Waiting(h) :
                  /\ Working(h) => helper[h].count = PhysicalDeviceCount(job[j].count)
                  /\ request[h] # <<>> => Head(request[h]) = PhysicalDeviceCount(job[j].count)
  BY DEF RepliesPaired
<1> DEFINE n == PhysicalDeviceCount(job[commandMu].count)
<1>1. Exchange(h)
  BY DEF Talk, Talks
<1>2. \A j \in 1..Len(job) : job[j].pc = "sent" => commandMu = j
  BY DEF Talk, InTurn
<1>3. CASE Asked(h)
  <2>1. Waiting(h) = {commandMu}
    BY <1>2, <1>3 DEF Asked, Talk, InTurn, Waiting
  <2>2. Cardinality(Waiting(h)) = 1
    BY <2>1, FS_Singleton
  <2>3. Busy(h, n)
    BY <1>1, <1>3 DEF Exchange
  <2>4. Len(<<n>>) = 1 /\ Head(<<n>>) = n /\ Len(<<>>) = 0
    BY SingleLine
  <2>5. /\ Len(request[h]) + (IF Working(h) THEN 1 ELSE 0) + Len(reply[h]) = 1
        /\ Working(h) => helper[h].count = n
        /\ request[h] # <<>> => Head(request[h]) = n
    <3> HIDE DEF n
    <3>1. CASE request[h] = <<n>> /\ ~Working(h) /\ reply[h] = <<>>
      BY <2>4, <3>1
    <3>2. CASE request[h] = <<>> /\ Working(h) /\ helper[h].count = n /\ reply[h] = <<>>
      BY <2>4, <3>2
    <3>3. CASE request[h] = <<>> /\ ~Working(h) /\ Len(reply[h]) = 1
      BY <2>4, <3>3
    <3> QED BY <2>3, <3>1, <3>2, <3>3 DEF Busy
  <2>6. \A j \in Waiting(h) : j = commandMu
    BY <2>1
  <2> QED BY <2>2, <2>5, <2>6
<1>4. CASE ~Asked(h)
  <2>1. Waiting(h) = {}
    BY <1>2, <1>4, ConstantsFit DEF Asked, Waiting
  <2>2. Cardinality(Waiting(h)) = 0
    BY <2>1, FS_EmptySet
  <2>3. request[h] = <<>> /\ ~Working(h) /\ reply[h] = <<>>
    BY <1>1, <1>4 DEF Exchange, Idle
  <2>4. Len(<<>>) = 0
    OBVIOUS
  <2> QED BY <2>1, <2>2, <2>3, <2>4
<1> QED BY <1>3, <1>4

\* However long a helper takes, dies, or is given up, and whatever waits for its turn:
\* the line a job reads is the answer to the request it sent itself, and never one that
\* was left over from the job before (broker_windows.go:157-195, attach_windows.go:58-77).
THEOREM BrokerRepliesPaired == Spec => []RepliesPaired
<1>1. Init => Types /\ IInv /\ Talk
  BY TypesInit, InvInit, TalkInit
<1>2. Types /\ IInv /\ Talk /\ [Next]_vars => Types' /\ IInv' /\ Talk'
  BY TypesNext, InvNext, TalkNext
<1>3. Types /\ Talk => RepliesPaired
  BY TalkIsPaired
<1> QED BY <1>1, <1>2, <1>3, PTL DEF Spec

-----------------------------------------------------------------------------
(* What "synchronized" means.                                                *)

\* Without a deadline missed, a helper has work only while its connection is open.
Attended(h) ==
  ~overdue /\ (Working(h) \/ (helper[h].pc = "reading" /\ request[h] # <<>>)) => link[h] = "open"

\* A line is on its way to a job that waits for it, even from a helper that has gone.
Owed(h) == reply[h] # <<>> => Asked(h) /\ Len(reply[h]) = 1

\* A helper attaches from the first device on.
FromFirst(h) == helper[h].pc \in {"list", "detach"} => helper[h].next = 1

Tended ==
  /\ \A h \in Helpers : Attended(h) /\ Owed(h) /\ FromFirst(h)
  /\ commandMu # 0 => conn # 0 /\ job[commandMu].conn = conn
  /\ window = "restart" => served = 0

\* The devices before the m-th are attached.
AttachedBefore(m) == \A d \in 1..m - 1 : \E p \in Ports : port[p] = d

AllThere(n) == \A d \in 1..PhysicalDeviceCount(n) : \E p \in Ports : port[p] = d

\* No change of the count is on its way to the helper.
Settled ==
  /\ ~overdue /\ window = "open" /\ served # 0 /\ conn # 0
  /\ \A j \in 1..Len(job) : job[j].pc = "queued" => job[j].change # changes

\* What the job in turn was told, or is going to be told, of the ports is so.
ToldRight(k) ==
  /\ job[k].pc = "OK" => AllThere(job[k].count)
  /\ reply[conn] # <<>> /\ Head(reply[conn]) = "OK" => AllThere(job[k].count)
  /\ helper[conn].pc = "attach" => AttachedBefore(helper[conn].next)

InStep ==
  Settled => IF commandMu = 0 THEN status = cableCount => AllThere(cableCount)
             ELSE ToldRight(commandMu)

SyncInv == Types /\ IInv /\ Talk /\ Tended /\ InStep

\* A helper that works does so for the job in turn.
LEMMA WorkIsAsked ==
  ASSUME Types, IInv, Talk, Tended, ~overdue, NEW h \in Helpers, Working(h)
  PROVE  /\ Asked(h) /\ h = conn /\ reply[h] = <<>> /\ link[h] = "open"
         /\ helper[h].count = PhysicalDeviceCount(job[commandMu].count)
<1>1. link[h] = "open" /\ helper[h].pc # "gone"
  BY DEF Tended, Attended, Working
<1>2. Exchange(h)
  BY <1>1 DEF Talk, Talks
<1>3. Asked(h) /\ Busy(h, PhysicalDeviceCount(job[commandMu].count))
  BY <1>2 DEF Exchange, Idle
<1>4. h = conn
  BY <1>3 DEF Asked, Tended
<1> QED BY <1>1, <1>3, <1>4 DEF Busy

LEMMA TendedHelper ==
  ASSUME Types, Types', IInv, Talk, Tended, NEW h \in Helpers, HelperStep(h) \/ HelperCrashes(h)
  PROVE  Tended'
<1>1. UNCHANGED <<window, served, conn, commandMu, job, overdue>>
  <2>1. UNCHANGED helperUnchanged
    BY DEF HelperStep, HelperCrashes, Dial, Take, Inspect, Detach, Attach, AllAttached, HelperFails,
           HelperLeaves
  <2> QED BY <2>1 DEF helperUnchanged, windowVars, brokerVars
<1>2. \A g \in Helpers : Asked(g)' <=> Asked(g)
  BY <1>1 DEF Asked
<1>3. ASSUME NEW g \in Helpers, g # h
      PROVE  UNCHANGED <<helper[g], link[g], request[g], reply[g]>>
  <2>1. helper'[g] = helper[g]
    BY <1>3, HelperMoves DEF Types
  <2>2. link'[g] = link[g]
    BY SMTT(30), <1>3 DEF Types, TypeOK, HelperStep, HelperCrashes, Dial, Take, Inspect, Detach, Attach,
       AllAttached, HelperFails, HelperLeaves, linkVars
  <2>3. request'[g] = request[g]
    BY <1>3 DEF Types, HelperStep, HelperCrashes, Dial, Take, Inspect, Detach, Attach, AllAttached,
       HelperFails, HelperLeaves, Leave, linkVars
  <2>4. reply'[g] = reply[g]
    BY <1>3 DEF Types, HelperStep, HelperCrashes, Dial, Take, Inspect, Detach, Attach, AllAttached,
       HelperFails, HelperLeaves, Answer, linkVars
  <2> QED BY <2>1, <2>2, <2>3, <2>4
<1>4. ASSUME Attended(h)', Owed(h)', FromFirst(h)' PROVE Tended'
  <2>1. ASSUME NEW g \in Helpers, g # h PROVE Attended(g)' /\ Owed(g)' /\ FromFirst(g)'
    BY <1>1, <1>2, <1>3, <2>1 DEF Tended, Attended, Owed, FromFirst, Working
  <2> QED BY <1>1, <1>4, <2>1 DEF Tended
<1>5. Talks(h) /\ helper[h] \in HelperState /\ Attended(h) /\ Owed(h) /\ FromFirst(h)
  BY DEF Talk, Types, Tended
<1>6. CASE Dial(h)
  <2>1. /\ helper'[h].pc = "reading" /\ link'[h] = "open" /\ reply'[h] = reply[h]
    BY <1>5, <1>6 DEF Dial, Types, TypeOK, HelperState
  <2> QED BY <1>2, <1>4, <1>5, <2>1 DEF Attended, Owed, FromFirst
<1>7. CASE Take(h)
  <2>1. /\ helper[h].pc = "reading" /\ request[h] # <<>> /\ UNCHANGED <<link, reply>>
        /\ helper'[h] = [pc |-> "list", count |-> Head(request[h]), next |-> 1, todo |-> {}]
    BY <1>7 DEF Take, Types
  <2>2. helper'[h].pc = "list" /\ helper'[h].next = 1
    BY <2>1
  <2> QED BY <1>1, <1>2, <1>4, <1>5, <2>1, <2>2 DEF Attended, Owed, FromFirst
<1>8. CASE Inspect(h) \/ Detach(h) \/ Attach(h)
  <2>1. UNCHANGED <<link, request, reply>> /\ Working(h)
    BY <1>8 DEF Inspect, Detach, Attach, linkVars, Working
  <2>2. FromFirst(h)'
    <3>1. CASE Inspect(h) \/ Detach(h)
      <4>1. helper'[h].next = helper[h].next /\ helper[h].pc \in {"list", "detach"}
        BY <1>5, <3>1 DEF Inspect, Detach, Types, HelperState
      <4> QED BY <1>5, <4>1 DEF FromFirst
    <3>2. CASE Attach(h)
      <4>1. helper'[h].pc = "attach"
        BY <1>5, <3>2 DEF Attach, Types, HelperState
      <4> QED BY <4>1 DEF FromFirst
    <3> QED BY <1>8, <3>1, <3>2
  <2> QED BY <1>1, <1>2, <1>4, <1>5, <2>1, <2>2 DEF Attended, Owed
<1>9. ASSUME NEW line, Answer(h, line), Working(h), UNCHANGED <<link, request>> PROVE Tended'
  <2>1. helper'[h].pc = "reading"
    BY <1>9 DEF Answer, Waits, Types
  <2>2. reply'[h] = IF link[h] = "open" THEN Append(reply[h], line) ELSE reply[h]
    BY <1>9 DEF Answer, Types
  <2>3. link[h] = "open" => Asked(h) /\ request[h] = <<>> /\ reply[h] = <<>>
    BY <1>5, <1>9 DEF Talks, Exchange, Busy, Idle, Working
  <2>4. Len(Append(<<>>, line)) = 1
    BY SingleLine
  <2>5. Owed(h)'
    BY <1>2, <1>5, <2>2, <2>3, <2>4 DEF Owed
  <2>6. Attended(h)'
    BY <1>1, <1>5, <1>9, <2>1, <2>3 DEF Attended, Working
  <2>7. FromFirst(h)'
    BY <2>1 DEF FromFirst
  <2> QED BY <1>4, <2>5, <2>6, <2>7
<1>10. CASE Leave(h) /\ UNCHANGED <<link, reply>>
  <2>1. helper'[h].pc = "gone"
    BY <1>10 DEF Leave, Waits, Types
  <2> QED BY <1>2, <1>4, <1>5, <1>10, <2>1 DEF Attended, Owed, FromFirst, Working
<1> QED
  BY <1>6, <1>7, <1>8, <1>9, <1>10
  DEF HelperStep, HelperCrashes, AllAttached, HelperFails, HelperLeaves, Working

LEMMA TendedJob ==
  ASSUME Types, Types', IInv, Talk, Talk', Tended, NEW j \in 1..Len(job), JobStep(j)
  PROVE  Tended'
<1>1. helper' = helper /\ UNCHANGED <<window, served>> /\ job[j] \in JobState /\ j # 0
  BY DEF JobStep, Begin, Send, Receive, Show, Lose, jobUnchanged, windowVars, Types
<1>2. \A h \in Helpers : FromFirst(h)'
  BY <1>1 DEF Tended, FromFirst
<1>3. \/ commandMu = j
      \/ commandMu = 0 /\ job[j].pc = "queued"
  BY DEF JobStep, Begin, Send, Receive, Show, Lose, MayCommand, Talk, InTurn
<1>4. job[j].pc # "sent" => \A g \in Helpers : ~Asked(g) /\ reply[g] = <<>>
  BY <1>1, <1>3 DEF Asked, Tended, Owed
<1>5. ASSUME UNCHANGED <<overdue, link, request, reply>>, job[j].pc # "sent",
             commandMu' # 0 => conn' # 0 /\ job'[commandMu'].conn = conn'
      PROVE  Tended'
  BY <1>1, <1>2, <1>4, <1>5 DEF Tended, Attended, Owed, Working
<1>6. PICK e \in JobState :
        /\ job' = [job EXCEPT ![j] = e]
        /\ \/ e.conn = job[j].conn /\ (job[j].pc = "queued" => conn = 0)
           \/ job[j].pc = "queued" /\ conn # 0 /\ e.conn = conn
  BY JobMoves
<1>7. job'[j].conn = e.conn
  BY <1>6, JobGoesOn
<1>8. CASE Begin(j)
  <2>1. UNCHANGED <<conn, overdue, link, request, reply>> /\ job[j].pc = "queued"
    BY <1>8 DEF Begin, linkVars
  <2>2. commandMu = 0 /\ (commandMu' = 0 \/ (commandMu' = j /\ conn # 0))
    BY <1>8 DEF Begin, MayCommand
  <2> QED BY <1>5, <1>6, <1>7, <2>1, <2>2
<1>9. CASE Send(j)
  <2>1. PICK h \in Helpers : h = job[j].conn
    BY <1>1, <1>9 DEF Send, Types, JobState
  <2>2. /\ UNCHANGED <<conn, commandMu, overdue, link, reply>> /\ job[j].pc = "send"
        /\ link[h] = "open" /\ commandMu = j
        /\ \A g \in Helpers : g # h => request'[g] = request[g]
    BY <1>3, <1>9, <2>1 DEF Send, Types
  <2>3. \A g \in Helpers : Attended(g)'
    BY <1>1, <2>2 DEF Tended, Attended, Working
  <2>4. \A g \in Helpers : Owed(g)'
    BY <1>4, <2>2 DEF Owed
  <2>5. conn' # 0 /\ job'[commandMu'].conn = conn'
    BY <1>1, <1>6, <1>7, <2>2 DEF Tended
  <2> QED BY <1>1, <1>2, <2>3, <2>4, <2>5 DEF Tended
<1>10. CASE Receive(j)
  <2>1. PICK h \in Helpers : h = job[j].conn
    BY <1>1, <1>10 DEF Receive, Types, JobState
  <2>2. /\ UNCHANGED <<conn, commandMu, overdue, link, request>> /\ job[j].pc = "sent"
        /\ commandMu = j /\ reply'[h] = Tail(reply[h]) /\ reply[h] # <<>>
        /\ \A g \in Helpers : g # h => reply'[g] = reply[g]
    BY <1>3, <1>10, <2>1 DEF Receive, Types
  <2>3. \A g \in Helpers : Attended(g)'
    BY <1>1, <2>2 DEF Tended, Attended, Working
  <2>4. \A g \in Helpers : reply'[g] = <<>>
    <3>1. \A g \in Helpers : g # h => reply[g] = <<>>
      BY <2>1, <2>2 DEF Tended, Owed, Asked
    <3>2. Len(reply[h]) = 1 /\ reply[h] \in Seq({"OK", "ERR"})
      BY <2>2 DEF Tended, Owed, Types
    <3>3. Tail(reply[h]) = <<>>
      BY ONLY <3>2, TailOfOne
    <3> QED BY <2>2, <3>1, <3>3
  <2>5. conn' # 0 /\ job'[commandMu'].conn = conn'
    BY <1>1, <1>6, <1>7, <2>2 DEF Tended
  <2> QED BY <1>1, <1>2, <2>3, <2>4, <2>5 DEF Tended, Owed
<1>11. CASE Show(j)
  BY <1>5, <1>11 DEF Show, Unlock, linkVars
<1>12. CASE Lose(j)
  <2>1. PICK h \in Helpers : h = job[j].conn
    BY <1>1, <1>12 DEF Lose, Types, JobState
  <2>2. /\ UNCHANGED request /\ commandMu = j /\ commandMu' = 0
        /\ overdue' = (overdue \/ helper[h].pc # "gone")
        /\ reply'[h] = <<>>
        /\ \A g \in Helpers : g # h => link'[g] = link[g] /\ reply'[g] = reply[g]
    BY <1>3, <1>12, <2>1 DEF Lose, HungUp, Unlock, Types, TypeOK
  <2>3. \A g \in Helpers : Attended(g)'
    BY <1>1, <2>2 DEF Tended, Attended, Working
  <2>4. \A g \in Helpers : reply'[g] = <<>>
    BY <2>1, <2>2 DEF Tended, Owed, Asked
  <2> QED BY <1>1, <1>2, <2>2, <2>3, <2>4 DEF Tended, Owed
<1> QED BY <1>8, <1>9, <1>10, <1>11, <1>12 DEF JobStep

\* A step that starts a job says nothing new of the helpers.
LEMMA TendedStart ==
  ASSUME Types, Talk, Tended, NEW w \in [count : Counts \cup {0}, change : Nat], Spawn(w),
         UNCHANGED <<commandMu, helper, link, request, reply, overdue>>,
         commandMu # 0 => conn' = conn, window' # "restart"
  PROVE  Tended'
<1>1. commandMu # 0 => job'[commandMu] = job[commandMu]
  <2>1. \A k \in 1..Len(job) : job'[k] = job[k]
    BY JobStarts
  <2> QED BY <2>1, Connections DEF Talk, InTurn
<1>2. \A h \in Helpers : Asked(h)' <=> Asked(h)
  BY <1>1 DEF Asked
<1> QED BY <1>1, <1>2 DEF Tended, Attended, Owed, FromFirst, Working

\* Nor does one that leaves the broker and its helpers alone.
LEMMA TendedElsewhere ==
  ASSUME Tended, UNCHANGED <<commandMu, job, helper, request, reply>>,
         \A h \in Helpers : Working(h) \/ request[h] # <<>> => link'[h] = link[h],
         overdue => overdue', commandMu # 0 => conn' = conn,
         window' = "restart" => served' = 0
  PROVE  Tended'
<1>1. \A h \in Helpers : Asked(h)' <=> Asked(h)
  BY DEF Asked
<1> QED BY <1>1 DEF Tended, Attended, Owed, FromFirst, Working

LEMMA TendedAccept ==
  ASSUME Types, Types', IInv, Talk, Tended, NEW h \in Helpers, AcceptStep(h)
  PROVE  Tended'
<1>1. /\ UNCHANGED <<window, served, commandMu, helper, request, reply, overdue>>
      /\ Pending(h)
  BY DEF AcceptStep, AcceptTimesOut, GreetingFails, Greeted, acceptUnchanged, windowVars, linkVars,
     Pending
<1>2. conn = 0 /\ commandMu = 0
  BY <1>1 DEF IInv, StartingIsOwned, Tended
<1>3. CASE Greeted(h)
  <2>1. window' # "restart" \/ served' = 0
    BY <1>1 DEF Tended
  <2>2. desired \in [count : Counts \cup {0}, change : Nat] /\ Spawn(desired) /\ link' = link
    BY <1>3 DEF Greeted, linkVars, Types
  <2>3. \A g \in Helpers : ~Asked(g) /\ ~Asked(g)'
    BY <1>1, <1>2 DEF Asked
  <2> QED BY <1>1, <1>2, <2>1, <2>2, <2>3 DEF Tended, Attended, Owed, FromFirst, Working
<1>4. CASE AcceptTimesOut(h) \/ GreetingFails(h)
  <2>1. job' = job /\ conn' = conn
    BY <1>4 DEF AcceptTimesOut, GreetingFails
  <2>2. Idle(h) \/ helper[h].pc = "gone"
    <3>1. ~Asked(h)
      BY <1>2 DEF Asked
    <3> QED BY <1>1, <3>1 DEF Pending, IInv, Linked, Talk, Talks, Exchange
  <2>3. \A g \in Helpers : g # h => link'[g] = link[g]
    BY <1>4 DEF AcceptTimesOut, GreetingFails, linkVars, Types, TypeOK
  <2>4. \A g \in Helpers : ~Asked(g) /\ ~Asked(g)'
    BY <1>1, <1>2 DEF Asked
  <2>5. \A g \in Helpers : Attended(g)'
    BY <1>1, <2>2, <2>3 DEF Tended, Attended, Idle, Working
  <2> QED BY <1>1, <1>2, <2>4, <2>5 DEF Tended, Owed, FromFirst
<1> QED BY <1>3, <1>4 DEF AcceptStep

LEMMA TendedWindow ==
  ASSUME Types, Types', IInv, Talk, Tended,
         \/ \E up \in BOOLEAN : StartProgram(up)
         \/ AddCable \/ RemoveCable \/ WindowStep \/ Refused \/ Exit
         \/ \E h \in Helpers : Approved(h)
         \/ UNCHANGED vars
  PROVE  Tended'
<1>1. ASSUME UNCHANGED <<commandMu, job, helper, request, reply, link, overdue, conn>>,
             window' = "restart" => served' = 0
      PROVE  Tended'
  BY <1>1, TendedElsewhere
<1>2. ASSUME NEW up \in BOOLEAN, StartProgram(up) PROVE Tended'
  BY <1>1, <1>2 DEF StartProgram, Opened, brokerVars, linkVars
<1>3. CASE AddCable \/ RemoveCable
  BY <1>1, <1>3 DEF AddCable, RemoveCable, ApplyCount, brokerVars, linkVars
<1>4. CASE Refused \/ StartBroker
  BY <1>1, <1>4 DEF Refused, StartBroker, linkVars
<1>5. CASE Restarted \/ RestartFails
  BY <1>1, <1>5 DEF Restarted, RestartFails, brokerVars, linkVars
<1>6. CASE Truncate \/ Saved \/ SaveFails
  BY <1>1, <1>6 DEF Truncate, Saved, SaveFails, saveUnchanged, brokerVars, linkVars
<1>7. CASE RequestSync
  <2>1. UNCHANGED <<commandMu, helper, link, request, reply, overdue, conn>> /\ window' # "restart"
    BY <1>7 DEF RequestSync, linkVars
  <2>2. Current \in [count : Counts \cup {0}, change : Nat]
    BY ConstantsFit DEF Current, Types, TypeOK
  <2> QED BY <1>1, <1>7, <2>1, <2>2, TendedStart DEF RequestSync
<1>8. ASSUME NEW h \in Helpers, Approved(h) PROVE Tended'
  <2>1. /\ UNCHANGED <<commandMu, job, link, request, reply, overdue, conn>>
        /\ window' # "restart" /\ link[h] = "none"
    <3>1. accept[h] = "none"
      BY <1>8, ApprovedIsNew
    <3> QED BY <1>8, <3>1 DEF Approved, brokerVars, linkVars, IInv, Linked
  <2>2. /\ \A g \in Helpers : g # h => helper'[g] = helper[g]
        /\ helper'[h].pc = "dialing"
    BY <1>8 DEF Approved, Types, HelperState
  <2>3. \A g \in Helpers : Asked(g)' <=> Asked(g)
    BY <2>1 DEF Asked
  <2>4. \A g \in Helpers : Attended(g)' /\ Owed(g)' /\ FromFirst(g)'
    BY <2>1, <2>2, <2>3 DEF Tended, Attended, Owed, FromFirst, Working
  <2> QED BY <2>1, <2>4 DEF Tended
<1>9. CASE Exit
  <2>1. /\ commandMu' = 0 /\ window' = "closed" /\ UNCHANGED <<request, helper>>
        /\ overdue' = (overdue \/ \E h \in Helpers : Working(h) \/ request[h] # <<>>)
        /\ \A g \in Helpers : reply'[g] = <<>>
    BY <1>9 DEF Exit
  <2>2. ASSUME NEW g \in Helpers PROVE Attended(g)' /\ Owed(g)' /\ FromFirst(g)'
    BY <2>1 DEF Tended, Attended, Owed, FromFirst, Working
  <2> QED BY <2>1, <2>2 DEF Tended
<1>10. CASE UNCHANGED vars
  BY <1>1, <1>10 DEF vars, windowVars, fileVars, brokerVars, linkVars, Tended
<1> QED BY <1>2, <1>3, <1>4, <1>5, <1>6, <1>7, <1>8, <1>9, <1>10 DEF WindowStep

LEMMA TendedNext ==
  ASSUME Types, IInv, Talk, Tended, [Next]_vars
  PROVE  Tended'
<1> Types' /\ Talk'
  BY TypesNext, TalkNext
<1>1. ASSUME NEW h \in Helpers, AcceptStep(h) \/ HelperStep(h) \/ HelperCrashes(h) PROVE Tended'
  BY <1>1, TendedAccept, TendedHelper
<1>2. ASSUME NEW j \in 1..Len(job), JobStep(j) PROVE Tended'
  BY <1>2, TendedJob
<1> QED BY <1>1, <1>2, TendedWindow DEF Next, AtRest, CloseWindow, Die


LEMMA LeastNumber ==
  ASSUME NEW S \in SUBSET Nat, S # {}
  PROVE  \E n \in S : \A m \in S : n <= m
<1> DEFINE R == {p \in Nat \X Nat : p[1] < p[2]}
<1>1. IsWellFoundedOn(R, Nat)
  BY NatLessThanWellFounded DEF OpToRel
<1>2. \A m, n \in Nat : m < n => <<m, n>> \in R
  OBVIOUS
<1> HIDE DEF R
<1>3. PICK n \in S : \A m \in S : <<m, n>> \notin R
  BY <1>1, WFMin
<1>4. \A m \in S : ~(m < n) /\ m \in Nat /\ n \in Nat
  BY <1>2, <1>3
<1> QED BY <1>3, <1>4

\* usbip attach takes a port that is free.
LEMMA FreePort ==
  ASSUME Attached # Ports
  PROVE  Min(Ports \ Attached) \in Ports \ Attached
<1>1. Cardinality(Ports) \in Nat /\ Ports = 1..Cardinality(Ports)
  BY SyncAssumption, FS_CardinalityType
<1>2. (Ports \ Attached) \in SUBSET Nat /\ Ports \ Attached # {}
  BY <1>1 DEF Attached
<1>3. \E n \in Ports \ Attached : \A m \in Ports \ Attached : n <= m
  BY <1>2, LeastNumber
<1> QED BY <1>3 DEF Min

LEMMA InStepWindow ==
  ASSUME Types, IInv, Talk, Tended, InStep,
         \/ \E up \in BOOLEAN : StartProgram(up)
         \/ AddCable \/ RemoveCable \/ WindowStep \/ Refused \/ Exit
         \/ \E h \in Helpers : Approved(h)
         \/ UNCHANGED vars
  PROVE  InStep'
<1>1. ASSUME ~Settled' PROVE InStep'
  BY <1>1 DEF InStep
<1>2. ASSUME NEW up \in BOOLEAN, StartProgram(up) PROVE InStep'
  BY <1>1, <1>2 DEF StartProgram, Opened, Settled
<1>3. CASE AddCable \/ RemoveCable
  BY <1>1, <1>3 DEF AddCable, RemoveCable, ApplyCount, Settled
<1>4. CASE Restarted \/ RestartFails
  BY <1>1, <1>4 DEF Restarted, RestartFails, Tended, Settled
<1>5. CASE Truncate \/ Saved \/ SaveFails
  BY <1>1, <1>5 DEF Truncate, Saved, SaveFails, Settled
<1>6. CASE RequestSync
  <2>1. UNCHANGED <<conn, changes>>
    BY <1>6 DEF RequestSync
  <2>2. CASE conn = 0
    BY <1>1, <2>1, <2>2 DEF Settled
  <2>3. CASE conn # 0
    <3>1. Spawn(Current) /\ Current \in [count : Counts \cup {0}, change : Nat]
      BY <1>6, <2>3, ConstantsFit DEF RequestSync, Current, Types, TypeOK
    <3>2. Current.change = changes
      BY DEF Current
    <3>3. /\ Len(job') = Len(job) + 1 /\ Len(job) \in Nat
          /\ job'[Len(job) + 1] = [pc |-> "queued", count |-> Current.count,
                                   change |-> Current.change, conn |-> 0]
      BY <3>1, JobStarts, Connections
    <3>4. job'[Len(job')].pc = "queued" /\ job'[Len(job')].change = changes'
      BY <2>1, <3>2, <3>3
    <3> QED BY <1>1, <3>3, <3>4 DEF Settled
  <2> QED BY <2>2, <2>3
<1>7. CASE StartBroker
  BY <1>1, <1>7 DEF StartBroker, IInv, Started, Settled
<1>8. ASSUME NEW h \in Helpers, Approved(h) PROVE InStep'
  BY <1>1, <1>8 DEF Approved, brokerVars, IInv, StartingIsOwned, Settled
<1>9. CASE Refused
  BY <1>1, <1>9 DEF Refused, IInv, StartingIsOwned, Settled
<1>10. CASE Exit
  BY <1>1, <1>10 DEF Exit, Settled
<1>11. CASE UNCHANGED vars
  BY <1>11
  DEF vars, windowVars, fileVars, brokerVars, linkVars, InStep, Settled, ToldRight, AllThere,
      AttachedBefore
<1> QED BY <1>2, <1>3, <1>4, <1>5, <1>6, <1>7, <1>8, <1>9, <1>10, <1>11 DEF WindowStep

LEMMA InStepAccept ==
  ASSUME Types, IInv, Talk, Tended, InStep, NEW h \in Helpers, AcceptStep(h)
  PROVE  InStep'
<1> SUFFICES ~Settled'
  BY DEF InStep
<1>1. Pending(h) /\ UNCHANGED <<window, changes>>
  BY DEF AcceptStep, AcceptTimesOut, GreetingFails, Greeted, acceptUnchanged, windowVars, Pending
<1>2. starting /\ conn = 0
  BY <1>1 DEF IInv, StartingIsOwned
<1>3. CASE Greeted(h)
  <2> SUFFICES ASSUME window = "open" PROVE ~Settled'
    BY <1>1 DEF Settled
  <2>1. desired = Current /\ desired.change = changes
    BY <1>2 DEF IInv, DesiredIsCurrent, Current
  <2>2. desired \in [count : Counts \cup {0}, change : Nat] /\ Spawn(desired)
    BY <1>3 DEF Greeted, Types
  <2>3. /\ Len(job') = Len(job) + 1 /\ Len(job) \in Nat
        /\ job'[Len(job) + 1] = [pc |-> "queued", count |-> desired.count,
                                 change |-> desired.change, conn |-> 0]
    BY <2>2, JobStarts, Connections
  <2>4. job'[Len(job')].pc = "queued" /\ job'[Len(job')].change = changes'
    BY <1>1, <2>1, <2>3
  <2> QED BY <2>3, <2>4 DEF Settled
<1>4. CASE AcceptTimesOut(h) \/ GreetingFails(h)
  BY <1>2, <1>4 DEF AcceptTimesOut, GreetingFails, Settled
<1> QED BY <1>3, <1>4 DEF AcceptStep

LEMMA InStepJob ==
  ASSUME Types, Types', IInv, Talk, Tended, InStep, NEW j \in 1..Len(job), JobStep(j)
  PROVE  InStep'
<1> SUFFICES ASSUME Settled' PROVE InStep'
  BY DEF InStep
<1>1. UNCHANGED <<window, served, cableCount, changes, helper, port>> /\ job[j] \in JobState /\ j # 0
  BY DEF JobStep, Begin, Send, Receive, Show, Lose, jobUnchanged, windowVars, Types
<1>2. \/ commandMu = j
      \/ commandMu = 0 /\ job[j].pc = "queued"
  BY DEF JobStep, Begin, Send, Receive, Show, Lose, MayCommand, Talk, InTurn
<1>3. PICK e \in JobState :
        job' = [job EXCEPT ![j] = e] /\ e.count = job[j].count /\ e.change = job[j].change
  BY JobMoves
<1>4. /\ Len(job') = Len(job) /\ job'[j] = e
      /\ \A k \in 1..Len(job) : k # j => job'[k] = job[k]
  BY <1>3, JobGoesOn
<1>5. ASSUME NEW n PROVE (AllThere(n)' <=> AllThere(n)) /\ (AttachedBefore(n)' <=> AttachedBefore(n))
  BY <1>1 DEF AllThere, AttachedBefore
<1>6. ASSUME ~overdue, ~Asked(conn), conn \in Helpers
      PROVE  reply[conn] = <<>> /\ ~Working(conn)
  BY <1>6, WorkIsAsked DEF Tended, Owed
<1>7. conn' \in Helpers
  BY DEF Settled, Types, TypeOK
<1>8. ASSUME job[j].pc \in {"queued", "send"}, UNCHANGED <<overdue, conn, reply>>,
             commandMu' = j, e.pc \in {"send", "sent"}
      PROVE  InStep'
  <2>1. ~Asked(conn)
    BY <1>2, <1>8 DEF Asked
  <2>2. reply[conn] = <<>> /\ ~Working(conn)
    BY <1>6, <1>7, <1>8, <2>1 DEF Settled
  <2> QED BY <1>1, <1>4, <1>8, <2>2 DEF InStep, ToldRight, Working
<1>9. CASE Begin(j)
  <2>1. /\ UNCHANGED <<overdue, conn, reply>> /\ job[j].pc = "queued"
        /\ conn # 0 => commandMu' = j
    BY <1>9 DEF Begin, linkVars
  <2>2. job'[j].pc = "send"
    <3>1. /\ job' = [job EXCEPT ![j] = [[job[j] EXCEPT !.pc = "send"] EXCEPT !.conn = conn]]
      BY <1>9, <2>1 DEF Begin, Settled
    <3> QED BY <1>1, <3>1 DEF JobState, Types
  <2> QED BY <1>4, <1>8, <2>1, <2>2 DEF Settled
<1>10. CASE Send(j)
  <2>1. UNCHANGED <<overdue, conn, reply, commandMu>> /\ job[j].pc = "send"
    BY <1>10 DEF Send
  <2>2. job'[j].pc = "sent"
    BY <1>1, <1>10 DEF Send, JobState, Types
  <2> QED BY <1>2, <1>4, <1>8, <2>1, <2>2
<1>11. ASSUME UNCHANGED <<overdue, conn>>, job[j].pc # "queued"
       PROVE  Settled
  <2>1. ASSUME NEW k \in 1..Len(job), job[k].pc = "queued" PROVE job[k].change # changes
    <3>1. k # j /\ job'[k] = job[k]
      BY <1>4, <1>11, <2>1
    <3> QED BY <1>1, <1>4, <2>1, <3>1 DEF Settled
  <2> QED BY <1>1, <1>11, <2>1 DEF Settled
<1>12. CASE Receive(j)
  <2>1. /\ UNCHANGED <<overdue, conn, commandMu>> /\ job[j].pc = "sent" /\ commandMu = j
        /\ job[j].conn = conn /\ reply[conn] # <<>>
    BY <1>1, <1>2, <1>12 DEF Receive, Tended
  <2>2. ToldRight(j)
    BY <1>1, <1>11, <2>1 DEF InStep
  <2>3. job'[j].pc = Head(reply[conn]) /\ reply'[conn] = Tail(reply[conn])
    BY <1>1, <1>7, <1>12, <2>1 DEF Receive, JobState, Types
  <2>4. Tail(reply[conn]) = <<>>
    <3>1. Len(reply[conn]) = 1 /\ reply[conn] \in Seq({"OK", "ERR"})
      BY <1>7, <2>1 DEF Tended, Owed, Types
    <3> QED BY ONLY <3>1, TailOfOne
  <2>5. ~Working(conn)
    BY <1>7, <2>1, WorkIsAsked DEF Settled
  <2>6. PICK n : n = job[j].count /\ n = job'[j].count
    BY <1>3, <1>4
  <2>7. Head(reply[conn]) = "OK" => AllThere(n)
    BY <2>1, <2>2, <2>6 DEF ToldRight
  <2>8. (job[j].pc = "OK" => AllThere(job[j].count))'
    BY <1>5, <2>3, <2>6, <2>7
  <2> QED BY <1>1, <2>1, <2>3, <2>4, <2>5, <2>8 DEF InStep, ToldRight, Working
<1>13. CASE Show(j)
  <2>1. /\ UNCHANGED <<overdue, conn>> /\ job[j].pc \in {"OK", "ERR"} /\ commandMu = j
        /\ commandMu' = 0 /\ status' = IF job[j].pc = "OK" THEN job[j].count ELSE 0
    BY <1>2, <1>13 DEF Show, Say, Unlock
  <2>2. job[j].pc = "OK" => AllThere(job[j].count)
    BY <1>1, <1>11, <2>1 DEF InStep, ToldRight
  <2>3. cableCount # 0
    BY ConstantsFit DEF Types, TypeOK
  <2> QED BY <1>1, <1>5, <2>1, <2>2, <2>3 DEF InStep
<1>14. CASE Lose(j)
  <2>1. commandMu = j /\ conn' = IF conn = job[j].conn THEN 0 ELSE conn
    BY <1>2, <1>14 DEF Lose
  <2> QED BY <1>1, <2>1 DEF Tended, Settled
<1> QED BY <1>9, <1>10, <1>12, <1>13, <1>14 DEF JobStep

\* One more device is attached, and the ones that were stay.
LEMMA OneMoreAttached ==
  ASSUME Types, NEW h \in Helpers, Attach(h)
  PROVE  /\ \A p \in Ports : port[p] # Free => port'[p] = port[p]
         /\ \E p \in Ports : port'[p] = helper[h].next
<1>1. Min(Ports \ Attached) \in Ports \ Attached
  BY FreePort DEF Attach
<1>2. \A p \in Ports : port'[p] = IF p = Min(Ports \ Attached) THEN helper[h].next ELSE port[p]
  BY <1>1 DEF Attach, Types, TypeOK
<1> QED BY <1>1, <1>2 DEF Attached

LEMMA InStepHelper ==
  ASSUME Types, Types', IInv, Talk, Tended, InStep,
         NEW h \in Helpers, HelperStep(h) \/ HelperCrashes(h)
  PROVE  InStep'
<1> SUFFICES ASSUME Settled' PROVE InStep'
  BY DEF InStep
<1>1. UNCHANGED <<window, served, cableCount, changes, status, conn, commandMu, job, overdue>>
  <2>1. UNCHANGED helperUnchanged
    BY DEF HelperStep, HelperCrashes, Dial, Take, Inspect, Detach, Attach, AllAttached, HelperFails,
           HelperLeaves
  <2> QED BY <2>1 DEF helperUnchanged, windowVars, brokerVars
<1>2. Settled /\ ~overdue /\ conn \in Helpers
  BY <1>1 DEF Settled, Types, TypeOK
<1>3. helper[h] \in HelperState
  BY DEF Types
<1>4. ASSUME Working(h)
      PROVE  /\ h = conn /\ commandMu # 0 /\ job[commandMu].pc = "sent" /\ reply[conn] = <<>>
             /\ link[h] = "open" /\ helper[h].count = PhysicalDeviceCount(job[commandMu].count)
             /\ helper[h].pc = "attach" => AttachedBefore(helper[h].next)
  <2>1. Asked(h) /\ h = conn /\ reply[h] = <<>> /\ link[h] = "open"
        /\ helper[h].count = PhysicalDeviceCount(job[commandMu].count)
    BY <1>2, <1>4, WorkIsAsked
  <2> QED BY <1>2, <2>1 DEF InStep, ToldRight, Asked
<1>5. ASSUME UNCHANGED <<port, reply>>, helper'[conn].pc # "attach" PROVE InStep'
  BY <1>1, <1>2, <1>5 DEF InStep, ToldRight, AllThere
<1>6. ASSUME UNCHANGED <<port, reply>>, h # conn PROVE InStep'
  <2>1. helper'[conn] = helper[conn]
    BY <1>2, <1>6, HelperMoves DEF Types
  <2> QED BY <1>1, <1>2, <1>6, <2>1 DEF InStep, ToldRight, AllThere, AttachedBefore
<1>7. CASE Dial(h)
  <2>1. helper'[h].pc = "reading" /\ UNCHANGED <<port, reply>>
    BY <1>3, <1>7 DEF Dial, Types, HelperState
  <2> QED BY <1>5, <1>6, <2>1
<1>8. CASE Take(h)
  <2>1. /\ helper'[h] = [pc |-> "list", count |-> Head(request[h]), next |-> 1, todo |-> {}]
        /\ UNCHANGED <<port, reply>>
    BY <1>8 DEF Take, Types
  <2>2. helper'[h].pc = "list"
    BY <2>1
  <2> QED BY <1>5, <1>6, <2>1, <2>2
<1>9. CASE Inspect(h)
  <2>1. helper'[h].pc = "detach" /\ UNCHANGED <<port, reply>>
    BY <1>3, <1>9 DEF Inspect, linkVars, Types, HelperState
  <2> QED BY <1>5, <1>6, <2>1
<1>10. CASE Detach(h)
  <2>1. /\ h = conn /\ commandMu # 0 /\ job[commandMu].pc = "sent" /\ reply[conn] = <<>>
        /\ UNCHANGED reply
    BY <1>4, <1>10 DEF Detach, linkVars, Working
  <2>2. helper'[h].pc = "attach" => helper'[h].next = 1
    <3>1. helper'[h].next = helper[h].next /\ helper[h].pc = "detach"
      BY <1>3, <1>10 DEF Detach, Types, HelperState
    <3> QED BY <3>1 DEF Tended, FromFirst
  <2>3. AttachedBefore(1)'
    BY DEF AttachedBefore
  <2> QED BY <1>1, <2>1, <2>2, <2>3 DEF InStep, ToldRight
<1>11. CASE Attach(h)
  <2>1. /\ h = conn /\ commandMu # 0 /\ job[commandMu].pc = "sent" /\ reply[conn] = <<>>
        /\ UNCHANGED reply /\ AttachedBefore(helper[h].next)
    BY <1>4, <1>11 DEF Attach, linkVars, Working
  <2>2. PICK m \in Nat : m = helper[h].next
    BY <1>3 DEF HelperState
  <2>3. helper'[h].next = m + 1
    BY <1>3, <1>11, <2>2 DEF Attach, Types, HelperState
  <2>4. ASSUME NEW d \in 1..m PROVE \E p \in Ports : port'[p] = d
    <3>1. CASE d = m
      BY <1>11, <2>2, <3>1, OneMoreAttached
    <3>2. CASE d # m
      <4>1. PICK p \in Ports : port[p] = d
        BY <2>1, <2>2, <3>2 DEF AttachedBefore
      <4>2. port[p] # Free
        BY <4>1 DEF Free
      <4> QED BY <1>11, <4>1, <4>2, OneMoreAttached
    <3> QED BY <3>1, <3>2
  <2>5. AttachedBefore(helper[h].next)'
    BY <2>2, <2>3, <2>4 DEF AttachedBefore
  <2> QED BY <1>1, <2>1, <2>5 DEF InStep, ToldRight
<1>12. CASE AllAttached(h)
  <2>1. /\ h = conn /\ commandMu # 0 /\ job[commandMu].pc = "sent" /\ port' = port
        /\ helper[h].count = PhysicalDeviceCount(job[commandMu].count)
        /\ AttachedBefore(helper[h].next)
    BY <1>4, <1>12 DEF AllAttached, Working
  <2>2. AllThere(job[commandMu].count)
    <3>1. PICK m \in Nat, n \in 0..30 : m = helper[h].next /\ n = helper[h].count
      BY <1>3 DEF HelperState
    <3>2. n <= m - 1
      BY <1>12, <3>1 DEF AllAttached, Left
    <3>3. \A d \in 1..n : \E p \in Ports : port[p] = d
      BY <2>1, <3>1, <3>2 DEF AttachedBefore
    <3> QED BY <2>1, <3>1, <3>3 DEF AllThere
  <2>3. helper'[h].pc = "reading"
    BY <1>12 DEF AllAttached, Answer, Waits, Types
  <2>4. AllThere(job[commandMu].count)'
    BY <1>1, <2>1, <2>2 DEF AllThere
  <2> QED BY <1>1, <2>1, <2>3, <2>4 DEF InStep, ToldRight
<1>13. CASE HelperFails(h)
  <2>1. h = conn /\ commandMu # 0 /\ job[commandMu].pc = "sent" /\ reply[conn] = <<>> /\ link[h] = "open"
    BY <1>4, <1>13 DEF HelperFails, Working
  <2>2. helper'[h].pc = "reading" /\ reply'[h] = Append(<<>>, "ERR")
    BY <1>13, <2>1 DEF HelperFails, Answer, Waits, Types
  <2>3. Head(Append(<<>>, "ERR")) = "ERR"
    BY SingleLine
  <2> QED BY <1>1, <2>1, <2>2, <2>3 DEF InStep, ToldRight
<1>14. CASE HelperLeaves(h) \/ HelperCrashes(h)
  <2>1. helper'[h].pc = "gone" /\ UNCHANGED <<port, reply>>
    BY <1>14 DEF HelperLeaves, HelperCrashes, Leave, Waits, Types
  <2> QED BY <1>5, <1>6, <2>1
<1> QED BY <1>7, <1>8, <1>9, <1>10, <1>11, <1>12, <1>13, <1>14 DEF HelperStep

LEMMA SyncInit == Init => Tended /\ InStep
<1> SUFFICES ASSUME Init PROVE Tended /\ InStep
  OBVIOUS
<1>1. commandMu = 0 /\ window = "closed"
  BY DEF Init
<1>2. \A h \in Helpers : helper[h].pc = "none" /\ reply[h] = <<>> /\ request[h] = <<>>
  BY DEF Init, Waits
<1>3. Tended
  BY <1>1, <1>2 DEF Tended, Attended, Owed, FromFirst, Working
<1> QED BY <1>1, <1>3 DEF InStep, Settled

LEMMA SyncNext ==
  ASSUME SyncInv, [Next]_vars
  PROVE  SyncInv'
<1> Types /\ IInv /\ Talk /\ Tended /\ InStep
  BY DEF SyncInv
<1> Types' /\ IInv' /\ Talk' /\ Tended'
  BY TypesNext, InvNext, TalkNext, TendedNext
<1>1. ASSUME NEW h \in Helpers, AcceptStep(h) \/ HelperStep(h) \/ HelperCrashes(h) PROVE InStep'
  BY <1>1, InStepAccept, InStepHelper
<1>2. ASSUME NEW j \in 1..Len(job), JobStep(j) PROVE InStep'
  BY <1>2, InStepJob
<1>3. InStep'
  BY <1>1, <1>2, InStepWindow DEF Next, AtRest, CloseWindow, Die
<1> QED BY <1>3 DEF SyncInv

LEMMA SyncHolds == Spec => []SyncInv
<1>1. Init => SyncInv
  BY TypesInit, InvInit, TalkInit, SyncInit DEF SyncInv
<1> QED BY <1>1, SyncNext, PTL DEF Spec

\* Whatever of Faults happens on the way, and however often the count changes while the
\* helper attaches: when nothing is under way any more, no deadline was missed and the
\* status line calls the current count synchronized, each device of the running server
\* is attached (broker_windows.go:188).
THEOREM BrokerSyncedMeansAttached == Spec => []SyncedMeansAttached
<1>1. SyncInv => SyncedMeansAttached
  <2> SUFFICES ASSUME SyncInv, Quiet, ~overdue, conn # 0, served # 0, status = cableCount
               PROVE  AllThere(cableCount)
    BY DEF SyncedMeansAttached, AllThere
  <2>1. commandMu = 0
    BY DEF SyncInv, Talk, InTurn, Quiet
  <2>2. window = "open"
    BY DEF SyncInv, IInv, Started, Quiet
  <2>3. Settled
    BY <2>2 DEF Settled, Quiet
  <2> QED BY <2>1, <2>3 DEF SyncInv, InStep
<1> QED BY <1>1, SyncHolds, PTL
=============================================================================
