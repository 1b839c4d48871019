--------------------------- MODULE AutomationProofs ---------------------------
(***************************************************************************)
(* Theorems about AutomationWorkflow and ConversationSystem, for any number*)
(* of workflows, actions, answers, handlers, edits and faults, of messages,*)
(* requests and appointments.                                              *)
(***************************************************************************)
EXTENDS ConversationSystem, ConversationProofs, SequenceTheorems

-----------------------------------------------------------------------------
(* Types. *)

Call == [at : {"find", "track", "expire", "create", "add", "done"},
         left : SUBSET Workflow, flow : Workflow \cup {None}, seen : [Workflow -> Nat]]

\* An execution is made by a call, for its event, with the actions it saw.
Execution == [flow : Workflow, ev : {k[3] : k \in DOMAIN firing}, by : DOMAIN firing,
              version : Nat \ {0}, status : {"RUNNING", "COMPLETED", "FAILED"},
              jobs : Seq(Job)]

HandLabel == {"idle", "load", "check", "contact", "send", "count", "skip", "mark", "note",
              "complete", "throw"}

Hand == [at : HandLabel, exec : Nat, action : Nat]

\* What a call has found listens to its trigger, and has actions.
FoundListens(k) ==
  /\ \A w \in firing[k].left : ListensTo[w] = k[2] /\ firing[k].seen[w] # 0
  /\ firing[k].at \in {"expire", "create"} =>
       /\ firing[k].flow \in Workflow \ firing[k].left
       /\ ListensTo[firing[k].flow] = k[2] /\ firing[k].seen[firing[k].flow] # 0

CallsOK ==
  /\ IsFiniteSet(DOMAIN firing) /\ firing \in [DOMAIN firing -> Call]
  /\ \E n \in Nat : {k[1] : k \in DOMAIN firing} = 1..n
  /\ \A k \in DOMAIN firing : FoundListens(k)

\* A call does not come back to a workflow it has started.
PastFlow(k, w) ==
  /\ firing[k].at # "find" /\ w \notin firing[k].left
  /\ firing[k].at \in {"expire", "create"} => firing[k].flow # w

RunsOK ==
  /\ execution \in Seq(Execution)
  /\ \A x \in DOMAIN execution : /\ ListensTo[execution[x].flow] = execution[x].by[2]
                                 /\ PastFlow(execution[x].by, execution[x].flow)
  /\ \A x, y \in DOMAIN execution :
       execution[x].flow = execution[y].flow /\ execution[x].by = execution[y].by => x = y

HandsOK ==
  /\ hand \in [Slot -> Hand]
  /\ \A s \in Slot : hand[s].at # "idle" => /\ hand[s].exec \in DOMAIN execution
                                            /\ hand[s].action \in DOMAIN Running(s).jobs

TextsOK ==
  /\ version \in [Workflow -> Nat] /\ faults \in Nat
  /\ DOMAIN texts = Workflow /\ \A w \in Workflow : texts[w] \in [1..Actions[w] -> Nat]

Working == CallsOK /\ RunsOK /\ HandsOK /\ TextsOK

-----------------------------------------------------------------------------
(* What the operations do to executions. *)

\* No execution comes or goes, and none changes hands.
SameRuns ==
  /\ DOMAIN execution' = DOMAIN execution
  /\ \A y \in DOMAIN execution : /\ execution'[y].flow = execution[y].flow
                                 /\ execution'[y].by = execution[y].by
                                 /\ execution'[y].version = execution[y].version

LEMMA JobSet ==
  ASSUME execution \in Seq(Execution), NEW x \in DOMAIN execution,
         NEW i \in DOMAIN execution[x].jobs, NEW to \in Job, SetJob(x, i, to)
  PROVE  /\ SameRuns /\ execution' \in Seq(Execution)
         /\ \A y \in DOMAIN execution : DOMAIN execution'[y].jobs = DOMAIN execution[y].jobs
         /\ \A y \in DOMAIN execution : \A m \in DOMAIN execution[y].jobs :
              execution'[y].jobs[m] = IF y = x /\ m = i THEN to ELSE execution[y].jobs[m]
<1> DEFINE n == Len(execution)
           old == execution[x]
           new == [old EXCEPT !.jobs = [old.jobs EXCEPT ![i] = to]]
<1>1. n \in Nat /\ execution \in [1..n -> Execution] /\ DOMAIN execution = 1..n
  BY LenProperties
<1>2. old \in Execution /\ old.jobs \in Seq(Job)
  BY <1>1 DEF Execution
<1>3. i \in 1..Len(old.jobs) /\ DOMAIN old.jobs = 1..Len(old.jobs)
  BY <1>2, LenProperties
<1>4. [old.jobs EXCEPT ![i] = to] \in Seq(Job)
  BY <1>2, <1>3, ExceptSeq
<1>5. new \in Execution
  BY <1>2, <1>4 DEF Execution
<1>6. /\ new.flow = old.flow /\ new.by = old.by /\ new.version = old.version
      /\ new.jobs = [old.jobs EXCEPT ![i] = to]
  BY <1>2 DEF Execution
<1>7. execution' = [execution EXCEPT ![x] = new]
  BY <1>1 DEF SetJob
<1> HIDE DEF new, n
<1>8. execution' \in Seq(Execution) /\ DOMAIN execution' = DOMAIN execution
      /\ \A y \in DOMAIN execution : execution'[y] = IF y = x THEN new ELSE execution[y]
  BY <1>1, <1>5, <1>7, ExceptSeq DEF n
<1>9. SameRuns
  BY <1>6, <1>8 DEF SameRuns
<1> QED BY <1>6, <1>8, <1>9

LEMMA StatusSet ==
  ASSUME execution \in Seq(Execution), NEW x \in DOMAIN execution,
         NEW to \in {"RUNNING", "COMPLETED", "FAILED"},
         execution' = [execution EXCEPT ![x].status = to]
  PROVE  /\ SameRuns /\ execution' \in Seq(Execution)
         /\ \A y \in DOMAIN execution : execution'[y].jobs = execution[y].jobs
<1> DEFINE n == Len(execution)
           old == execution[x]
           new == [old EXCEPT !.status = to]
<1>1. n \in Nat /\ execution \in [1..n -> Execution] /\ DOMAIN execution = 1..n
  BY LenProperties
<1>2. old \in Execution
  BY <1>1
<1>3. new \in Execution
  BY <1>2 DEF Execution
<1>4. new.flow = old.flow /\ new.by = old.by /\ new.version = old.version /\ new.jobs = old.jobs
  BY <1>2 DEF Execution
<1>5. execution' = [execution EXCEPT ![x] = new]
  BY <1>1
<1> HIDE DEF new, n
<1>6. execution' \in Seq(Execution) /\ DOMAIN execution' = DOMAIN execution
      /\ \A y \in DOMAIN execution : execution'[y] = IF y = x THEN new ELSE execution[y]
  BY <1>1, <1>3, <1>5, ExceptSeq DEF n
<1> QED BY <1>4, <1>6 DEF SameRuns

\* queue.add puts one job behind those of the execution.
LEMMA JobAdded ==
  ASSUME execution \in Seq(Execution), NEW x,
         execution' = [execution EXCEPT ![x].jobs = Append(@, Added(NoJob))]
  PROVE  /\ SameRuns /\ execution' \in Seq(Execution)
         /\ \A y \in DOMAIN execution :
              /\ y # x => execution'[y] = execution[y]
              /\ y = x => /\ DOMAIN execution'[y].jobs = DOMAIN execution[y].jobs \cup {Len(execution[y].jobs) + 1}
                          /\ Len(execution[y].jobs) + 1 \notin DOMAIN execution[y].jobs
              /\ \A m \in DOMAIN execution[y].jobs : execution'[y].jobs[m] = execution[y].jobs[m]
<1>1. Len(execution) \in Nat /\ execution \in [1..Len(execution) -> Execution] /\ DOMAIN execution = 1..Len(execution)
  BY LenProperties
<1>2. CASE x \notin DOMAIN execution
  <2>1. execution' = execution
    BY <1>1, <1>2
  <2> QED BY <1>2, <2>1 DEF SameRuns
<1>3. CASE x \in DOMAIN execution
  <2> DEFINE old == execution[x]
             job == Added(NoJob)
             new == [old EXCEPT !.jobs = Append(old.jobs, job)]
  <2>0. NoJob \in Job
    BY DEF Job, NoJob, JobState
  <2>1. old \in Execution /\ old.jobs \in Seq(Job) /\ job \in Job
    BY <1>1, <1>3, <2>0, JobOperationsTyped DEF Execution
  <2> HIDE DEF job
  <2>2. /\ Append(old.jobs, job) \in Seq(Job) /\ Len(Append(old.jobs, job)) = Len(old.jobs) + 1
        /\ Len(old.jobs) \in Nat /\ DOMAIN old.jobs = 1..Len(old.jobs)
        /\ \A m \in 1..Len(old.jobs) : Append(old.jobs, job)[m] = old.jobs[m]
    BY <2>1, LenProperties
  <2>3. DOMAIN Append(old.jobs, job) = 1..(Len(old.jobs) + 1)
    BY <2>2, LenProperties
  <2>4. new \in Execution
    BY <2>1, <2>2 DEF Execution
  <2>5. /\ new.flow = old.flow /\ new.by = old.by /\ new.version = old.version
        /\ new.jobs = Append(old.jobs, job)
    BY <2>1 DEF Execution
  <2>6. execution' = [execution EXCEPT ![x] = new]
    BY <1>1, <1>3 DEF job
  <2> HIDE DEF new
  <2>7. execution' \in Seq(Execution) /\ DOMAIN execution' = DOMAIN execution
        /\ \A y \in DOMAIN execution : execution'[y] = IF y = x THEN new ELSE execution[y]
    <3>1. x \in 1..Len(execution)
      BY <1>1, <1>3
    <3>2. execution \in Seq(Execution)
      OBVIOUS
    <3>3. [execution EXCEPT ![x] = new] \in Seq(Execution)
      BY ONLY <2>4, <3>1, <3>2, ExceptSeq
    <3> QED BY <1>1, <2>6, <3>1, <3>3
  <2>8. SameRuns
    BY <2>5, <2>7 DEF SameRuns
  <2> QED BY <2>2, <2>3, <2>5, <2>7, <2>8
<1> QED BY <1>2, <1>3

-----------------------------------------------------------------------------
(* What a step is to the calls of fireTrigger. *)

LEMMA FiringMoves ==
  ASSUME CallsOK, version \in [Workflow -> Nat], NEW k \in DOMAIN firing, FiringStep(k)
  PROVE  /\ DOMAIN firing' = DOMAIN firing /\ firing' \in [DOMAIN firing -> Call]
         /\ \A j \in DOMAIN firing : j # k => firing'[j] = firing[j]
         /\ FoundListens(k)'
         /\ \A w : PastFlow(k, w) => PastFlow(k, w)'
<1>1. /\ firing \in [DOMAIN firing -> Call] /\ firing[k] \in Call /\ FoundListens(k)
      /\ ListensTo \in [Workflow -> Trigger]
  BY AutomationAssumption DEF CallsOK
<1>2. CASE FindWorkflows(k)
  <2>1. Listening(k[2]) \subseteq Workflow
        /\ \A w \in Listening(k[2]) : ListensTo[w] = k[2] /\ version[w] # 0
    BY DEF Listening
  <2> DEFINE found == Listening(k[2])
  <2>2. found \subseteq Workflow /\ \A w \in found : ListensTo[w] = k[2] /\ version[w] # 0
    BY <2>1
  <2> HIDE DEF found
  <2>3. firing' = [firing EXCEPT ![k].at = "track", ![k].seen = version, ![k].left = found]
        /\ firing[k].at = "find"
    BY <1>2 DEF FindWorkflows, found
  <2>4. /\ DOMAIN firing' = DOMAIN firing /\ firing' \in [DOMAIN firing -> Call]
        /\ \A j \in DOMAIN firing : j # k => firing'[j] = firing[j]
        /\ firing'[k].at = "track" /\ firing'[k].seen = version /\ firing'[k].left = found
    BY <1>1, <2>2, <2>3 DEF Call
  <2> QED BY <2>2, <2>3, <2>4 DEF FoundListens, PastFlow
<1>3. CASE Track(k)
  <2>1. PICK w \in firing[k].left, next \in {"expire", "track", "create"} :
          firing' = [firing EXCEPT ![k].at = next, ![k].left = @ \ {w}, ![k].flow = w]
    BY <1>3 DEF Track
  <2>2. w \in Workflow
    BY <1>1 DEF Call
  <2>3. /\ DOMAIN firing' = DOMAIN firing /\ firing' \in [DOMAIN firing -> Call]
        /\ \A j \in DOMAIN firing : j # k => firing'[j] = firing[j]
        /\ firing'[k].at = next /\ firing'[k].seen = firing[k].seen
        /\ firing'[k].left = firing[k].left \ {w} /\ firing'[k].flow = w
    BY <1>1, <2>1, <2>2 DEF Call
  <2> QED BY <1>1, <2>2, <2>3 DEF FoundListens, PastFlow
<1>4. CASE ~FindWorkflows(k) /\ ~Track(k)
  <2>1. PICK next \in {"create", "track", "add", "done"} :
          /\ firing' = [firing EXCEPT ![k].at = next]
          /\ next = "create" => firing[k].at = "expire"
          /\ firing[k].at = "find" => next = "done"
    BY <1>4 DEF FiringStep, ExpireLoop, CreateExecution, AddAction, AllTracked, FiringFails, Moves
  <2>2. /\ DOMAIN firing' = DOMAIN firing /\ firing' \in [DOMAIN firing -> Call]
        /\ \A j \in DOMAIN firing : j # k => firing'[j] = firing[j]
        /\ firing'[k].at = next /\ firing'[k].seen = firing[k].seen
        /\ firing'[k].left = firing[k].left /\ firing'[k].flow = firing[k].flow
    BY <1>1, <2>1 DEF Call
  <2> QED BY <1>1, <2>1, <2>2 DEF FoundListens, PastFlow
<1> QED BY <1>2, <1>3, <1>4

LEMMA TriggersAreFinite ==
  ASSUME NEW T \in SUBSET Trigger, NEW n, NEW e
  PROVE  IsFiniteSet({<<n, t, e>> : t \in T})
<1>1. \A S, x : IsFiniteSet(S) => IsFiniteSet(S \cup {x})
  BY FS_AddElement
<1> DEFINE A == {} \cup {"rsvp_yes"} \cup {"rsvp_confirmed"} \cup {"attendance_confirmed"}
           B == A \cup {"rsvp_no"} \cup {"rsvp_cancelled"} \cup {"attendance_cancelled"}
<1>2. IsFiniteSet(A)
  BY <1>1, FS_EmptySet
<1> HIDE DEF A
<1>3. IsFiniteSet(Trigger)
  <2>1. IsFiniteSet(B)
    BY <1>1, <1>2
  <2> HIDE DEF B
  <2>2. IsFiniteSet(B \cup {"rsvp_pending"} \cup {"rsvp_received"})
    BY <1>1, <2>1
  <2>3. Trigger = B \cup {"rsvp_pending"} \cup {"rsvp_received"}
    BY DEF A, B, Trigger
  <2> QED BY <2>2, <2>3
<1>4. IsFiniteSet(T)
  BY <1>3, FS_Subset
<1> DEFINE f == [t \in T |-> <<n, t, e>>]
           S == {<<n, t, e>> : t \in T}
<1>5. f \in Surjection(T, S)
  BY DEF Surjection
<1> QED BY <1>4, <1>5, FS_Surjection

\* An answer makes calls of its own, and leaves the others alone.
LEMMA Fired ==
  ASSUME CallsOK, version \in [Workflow -> Nat], NEW e, NEW word, Fire(e, word)
  PROVE  /\ CallsOK' /\ DOMAIN firing \subseteq DOMAIN firing'
         /\ \A k \in DOMAIN firing : firing'[k] = firing[k]
<1> DEFINE n == Cardinality({k[1] : k \in DOMAIN firing}) + 1
           heard == {ListensTo[w] : w \in {v \in Workflow : version[v] > 0}}
           T == TriggersOf(word) \cap heard
           new == {<<n, t, e>> : t \in T}
           fresh == [at |-> "find", left |-> {}, flow |-> None, seen |-> version]
<1>1. PICK m \in Nat : {k[1] : k \in DOMAIN firing} = 1..m
  BY DEF CallsOK
<1>2. n = m + 1
  <2>1. Cardinality(1..m) = m
    BY FS_Interval
  <2> QED BY <1>1, <2>1
<1>3. firing' = [k \in DOMAIN firing \cup new |-> IF k \in new THEN fresh ELSE firing[k]]
  BY DEF Fire
<1>4. T \in SUBSET Trigger
  BY AutomationAssumption
<1> HIDE DEF n, T
<1>5. IsFiniteSet(new)
  BY <1>4, TriggersAreFinite
<1>6. \A k \in new : k[1] = n
  OBVIOUS
<1> HIDE DEF new
<1>7. \A k \in DOMAIN firing : k \notin new
  <2>1. ASSUME NEW k \in DOMAIN firing PROVE k[1] \in 1..m
    BY <1>1
  <2> QED BY <1>2, <1>6, <2>1
<1>8. fresh \in Call
  BY DEF Call
<1>9. /\ DOMAIN firing' = DOMAIN firing \cup new /\ firing' \in [DOMAIN firing' -> Call]
      /\ \A k \in DOMAIN firing : firing'[k] = firing[k]
  BY <1>3, <1>7, <1>8 DEF CallsOK
<1>10. IsFiniteSet(DOMAIN firing')
  BY ZenonT(60), <1>5, <1>9, FS_Union DEF CallsOK
<1>11. \E i \in Nat : {k[1] : k \in DOMAIN firing'} = 1..i
  <2> DEFINE numbers == {k[1] : k \in DOMAIN firing'}
  <2>1. CASE new = {}
    BY <1>1, <1>9, <2>1
  <2>2. CASE new # {}
    <3>1. numbers = {k[1] : k \in DOMAIN firing} \cup {n}
      BY <1>6, <1>9, <2>2
    <3>2. (1..m) \cup {n} = 1..(m + 1)
      <4>1. \A i \in Int : i \in (1..m) \cup {n} <=> i \in 1..(m + 1)
        BY <1>2
      <4> QED BY <1>2, <4>1
    <3>3. m + 1 \in Nat
      OBVIOUS
    <3> QED BY <1>1, <3>1, <3>2, <3>3
  <2> QED BY <2>1, <2>2
<1>12. ASSUME NEW k \in DOMAIN firing' PROVE FoundListens(k)'
  <2>1. CASE k \in new
    BY <1>3, <1>9, <2>1 DEF FoundListens
  <2>2. CASE k \in DOMAIN firing
    BY <1>9, <2>2 DEF CallsOK, FoundListens
  <2> QED BY <1>9, <2>1, <2>2
<1> QED BY <1>9, <1>10, <1>11, <1>12 DEF CallsOK

-----------------------------------------------------------------------------
(* What a step is to the jobs and their handlers. *)

LEMMA HandUpdates ==
  ASSUME hand \in [Slot -> Hand], NEW s \in Slot
  PROVE  /\ \A l \in HandLabel :
              HandGoes(s, l) => /\ hand' \in [Slot -> Hand] /\ hand'[s].at = l
                                /\ hand'[s].exec = hand[s].exec /\ hand'[s].action = hand[s].action
                                /\ \A r \in Slot : r # s => hand'[r] = hand[r]
         /\ hand' = [hand EXCEPT ![s] = FreeHand] =>
              /\ hand' \in [Slot -> Hand] /\ hand'[s].at = "idle"
              /\ \A r \in Slot : r # s => hand'[r] = hand[r]
<1>1. ASSUME NEW l \in HandLabel, HandGoes(s, l)
      PROVE  /\ hand' \in [Slot -> Hand] /\ hand'[s].at = l
             /\ hand'[s].exec = hand[s].exec /\ hand'[s].action = hand[s].action
             /\ \A r \in Slot : r # s => hand'[r] = hand[r]
  <2> HIDE DEF HandLabel
  <2> QED BY <1>1 DEF HandGoes, Hand
<1>2. ASSUME hand' = [hand EXCEPT ![s] = FreeHand]
      PROVE  /\ hand' \in [Slot -> Hand] /\ hand'[s].at = "idle"
             /\ \A r \in Slot : r # s => hand'[r] = hand[r]
  BY <1>2 DEF FreeHand, Hand, HandLabel
<1> QED BY <1>1, <1>2

\* The jobs of executions, and where they are in their sequences.
LEMMA JobsTyped ==
  ASSUME execution \in Seq(Execution)
  PROVE  /\ DOMAIN execution \subseteq Nat
         /\ \A x \in DOMAIN execution :
              /\ execution[x] \in Execution /\ DOMAIN execution[x].jobs \subseteq Nat
              /\ \A i \in DOMAIN execution[x].jobs : execution[x].jobs[i] \in Job
<1>1. Len(execution) \in Nat /\ execution \in [1..Len(execution) -> Execution] /\ DOMAIN execution = 1..Len(execution)
  BY LenProperties
<1>2. ASSUME NEW x \in DOMAIN execution
      PROVE  /\ execution[x] \in Execution /\ DOMAIN execution[x].jobs \subseteq Nat
             /\ \A i \in DOMAIN execution[x].jobs : execution[x].jobs[i] \in Job
  <2>1. execution[x] \in Execution /\ execution[x].jobs \in Seq(Job)
    BY <1>1 DEF Execution
  <2>2. /\ Len(execution[x].jobs) \in Nat /\ execution[x].jobs \in [1..Len(execution[x].jobs) -> Job]
        /\ DOMAIN execution[x].jobs = 1..Len(execution[x].jobs)
    BY <2>1, LenProperties
  <2> QED BY <2>1, <2>2
<1> QED BY <1>1, <1>2

\* The jobs stay where they are.
SameJobs ==
  /\ SameRuns /\ execution' \in Seq(Execution)
  /\ \A y \in DOMAIN execution : DOMAIN execution'[y].jobs = DOMAIN execution[y].jobs

LEMMA SameJobsIfSame ==
  ASSUME execution \in Seq(Execution), execution' = execution
  PROVE  SameJobs
BY DEF SameJobs, SameRuns

LEMMA HandMoves ==
  ASSUME RunsOK, HandsOK, NEW s \in Slot, HandStep(s)
  PROVE  /\ SameJobs /\ UNCHANGED <<firing, version>>
         /\ hand' \in [Slot -> Hand]
         /\ \A r \in Slot : r # s => hand'[r] = hand[r]
         /\ hand'[s].at # "idle" => /\ hand'[s].exec \in DOMAIN execution
                                    /\ hand'[s].action \in DOMAIN execution[hand'[s].exec].jobs
         /\ texts' \in {texts, [texts EXCEPT ![Running(s).flow][hand[s].action] = @ + 1]}
         /\ faults' \in {faults, faults + 1}
<1>1. /\ execution \in Seq(Execution) /\ hand \in [Slot -> Hand]
      /\ hand[s].at # "idle" => hand[s].exec \in DOMAIN execution /\ hand[s].action \in DOMAIN Running(s).jobs
  BY DEF RunsOK, HandsOK
<1>2. UNCHANGED <<firing, version>> /\ faults' \in {faults, faults + 1}
      /\ texts' \in {texts, [texts EXCEPT ![Running(s).flow][hand[s].action] = @ + 1]}
  BY DEF HandStep, TakeAction, LoadAction, CheckCondition, ReadContact, SendText, CountAction,
     MarkComplete, ActionError, NoteFailure, HandEnds, HandCrashes, tableVars, RsvpFault
<1> DEFINE Fine == /\ hand' \in [Slot -> Hand]
                   /\ \A r \in Slot : r # s => hand'[r] = hand[r]
                   /\ hand'[s].at # "idle" => /\ hand'[s].exec \in DOMAIN execution
                                              /\ hand'[s].action \in DOMAIN execution[hand'[s].exec].jobs
<1>3. ASSUME NEW l \in HandLabel, HandGoes(s, l), hand[s].at # "idle" PROVE Fine
  BY <1>1, <1>3, HandUpdates DEF Running
<1>4. ASSUME NEW x \in DOMAIN execution, NEW i \in DOMAIN execution[x].jobs, TakeAction(s, x, i)
      PROVE  SameJobs /\ Fine
  <2>1. execution[x].jobs[i] \in Job /\ x \in Nat /\ i \in Nat
    BY <1>1, JobsTyped
  <2>2. Started(execution[x].jobs[i], s) \in Job
    BY <2>1, JobOperationsTyped
  <2>3. SameJobs
    BY <1>1, <1>4, <2>2, JobSet DEF TakeAction, SameJobs
  <2>4. hand' = [hand EXCEPT ![s] = [Handed EXCEPT !.exec = x, !.action = i]]
    BY <1>4 DEF TakeAction
  <2>5. /\ hand' \in [Slot -> Hand] /\ hand'[s].exec = x /\ hand'[s].action = i
        /\ \A r \in Slot : r # s => hand'[r] = hand[r]
    BY <1>1, <2>1, <2>4 DEF Handed, Hand, HandLabel
  <2> QED BY <2>3, <2>5
<1>5. CASE LoadAction(s) \/ CheckCondition(s) \/ ReadContact(s) \/ CountAction(s) \/ ActionError(s)
           \/ \E taken \in BOOLEAN : SendText(s, taken)
  <2>1. execution' = execution
    BY <1>5 DEF LoadAction, CheckCondition, ReadContact, SendText, CountAction, ActionError
  <2>2. \E l \in HandLabel : HandGoes(s, l) /\ hand[s].at # "idle"
    BY <1>5 DEF LoadAction, CheckCondition, ReadContact, SendText, CountAction, ActionError, AfterCount,
       HandLabel
  <2>3. Fine
    BY <1>3, <2>2
  <2> QED BY <1>1, <1>2, <2>1, <2>3, SameJobsIfSame
<1>6. CASE MarkComplete(s) \/ NoteFailure(s)
  <2>1. hand[s].at # "idle" /\ \E l \in HandLabel : HandGoes(s, l)
    BY <1>6 DEF MarkComplete, NoteFailure, HandLabel
  <2>2. \/ execution' = execution
        \/ \E to \in {"RUNNING", "COMPLETED", "FAILED"} :
             execution' = [execution EXCEPT ![hand[s].exec].status = to]
    BY <1>6 DEF MarkComplete, NoteFailure
  <2>3. SameJobs
    BY <1>1, <2>1, <2>2, SameJobsIfSame, StatusSet DEF SameJobs
  <2>4. Fine
    BY <1>3, <2>1
  <2> QED BY <1>2, <2>3, <2>4
<1>7. CASE HandEnds(s)
  <2>1. JobOf(s) \in Job /\ ActionAttempts \in Nat
    BY <1>1, <1>7, JobsTyped, AutomationAssumption DEF HandEnds, JobOf, Running
  <2>2. Completed(JobOf(s)) \in Job /\ Failed(JobOf(s), ActionAttempts) \in Job
    BY <2>1, JobOperationsTyped
  <2>3. \/ execution' = execution
        \/ \E to \in Job : SetJob(hand[s].exec, hand[s].action, to)
    BY <1>7, <2>2 DEF HandEnds
  <2>4. hand[s].at # "idle"
    BY <1>7 DEF HandEnds
  <2>5. SameJobs
    BY <1>1, <2>3, <2>4, SameJobsIfSame, JobSet DEF SameJobs, Running
  <2>6. hand' = [hand EXCEPT ![s] = FreeHand]
    BY <1>7 DEF HandEnds
  <2>7. Fine
    BY <1>1, <2>6, HandUpdates
  <2> QED BY <1>2, <2>5, <2>7
<1>8. CASE HandCrashes(s)
  <2>1. hand' = [hand EXCEPT ![s] = FreeHand] /\ execution' = execution
    BY <1>8 DEF HandCrashes
  <2>2. Fine
    BY <1>1, <2>1, HandUpdates
  <2> QED BY <1>1, <1>2, <2>1, <2>2, SameJobsIfSame
<1> QED BY <1>2, <1>4, <1>5, <1>6, <1>7, <1>8 DEF HandStep

\* Lock expiry and the stalled-job check change one job.
LEMMA QueueSets ==
  ASSUME execution \in Seq(Execution), NEW x \in DOMAIN execution,
         NEW i \in DOMAIN execution[x].jobs, ActionUnlocked(x, i) \/ ActionStalled(x, i)
  PROVE  /\ SameJobs /\ UNCHANGED <<firing, version, hand, texts>>
         /\ faults' \in {faults, faults + 1}
<1>1. execution[x].jobs[i] \in Job
  BY JobsTyped
<1>2. PICK to \in Job : SetJob(x, i, to)
  <2>1. 0 \in Nat
    OBVIOUS
  <2> QED BY <1>1, <2>1, JobOperationsTyped DEF ActionUnlocked, ActionStalled
<1> QED BY <1>2, JobSet DEF SameJobs, ActionUnlocked, ActionStalled, tableVars, RsvpFault

-----------------------------------------------------------------------------
(* What always holds of calls, executions and handlers. *)

LEMMA ExecutionsStay ==
  ASSUME DOMAIN firing \subseteq DOMAIN firing', NEW e \in Seq(Execution)
  PROVE  e \in Seq(Execution')
<1>1. {k[3] : k \in DOMAIN firing} \subseteq {k[3] : k \in DOMAIN firing'}
  OBVIOUS
<1>2. Execution \subseteq Execution'
  BY <1>1 DEF Execution
<1> QED BY <1>2, SeqMonotonic

LEMMA RunsKept ==
  ASSUME RunsOK, SameRuns, execution' \in Seq(Execution), DOMAIN firing \subseteq DOMAIN firing',
         \A k \in DOMAIN firing : \A w : PastFlow(k, w) => PastFlow(k, w)'
  PROVE  RunsOK'
<1>1. execution' \in Seq(Execution')
  BY ExecutionsStay
<1>2. \A x \in DOMAIN execution : execution[x].by \in DOMAIN firing
  BY JobsTyped DEF RunsOK, Execution
<1>3. ASSUME NEW x \in DOMAIN execution'
      PROVE  /\ ListensTo[execution'[x].flow] = execution'[x].by[2]
             /\ PastFlow(execution[x].by, execution[x].flow)'
  <2>1. x \in DOMAIN execution
    BY <1>3 DEF SameRuns
  <2>2. PICK k \in DOMAIN firing : k = execution[x].by /\ k = execution'[x].by
    BY <1>2, <2>1 DEF SameRuns
  <2>3. PICK w : w = execution[x].flow /\ w = execution'[x].flow
    BY <2>1 DEF SameRuns
  <2>4. ListensTo[w] = k[2] /\ PastFlow(k, w)
    BY <2>1, <2>2, <2>3 DEF RunsOK
  <2>5. PastFlow(k, w)'
    BY <2>4
  <2> QED BY <2>2, <2>3, <2>4, <2>5
<1>4. \A x, y \in DOMAIN execution' :
        execution'[x].flow = execution'[y].flow /\ execution'[x].by = execution'[y].by => x = y
  BY DEF RunsOK, SameRuns
<1> QED BY <1>1, <1>3, <1>4 DEF RunsOK

\* A new execution is the first of its workflow that its call has made.
LEMMA RunCreated ==
  ASSUME CallsOK, RunsOK, version \in [Workflow -> Nat], NEW k \in DOMAIN firing,
         CreateExecution(k)
  PROVE  /\ RunsOK' /\ \A x \in DOMAIN execution : x \in DOMAIN execution' /\ execution'[x] = execution[x]
         /\ \A x \in DOMAIN execution' : x \in DOMAIN execution \/ DOMAIN execution'[x].jobs = {}
<1>1. /\ execution \in Seq(Execution) /\ firing[k].at = "create" /\ FoundListens(k)
      /\ firing \in [DOMAIN firing -> Call]
  BY DEF RunsOK, CallsOK, CreateExecution
<1>2. /\ DOMAIN firing' = DOMAIN firing
      /\ \A j \in DOMAIN firing : \A v : PastFlow(j, v) => PastFlow(j, v)'
  <2>1. FiringStep(k)
    BY DEF FiringStep
  <2>2. /\ DOMAIN firing' = DOMAIN firing
        /\ \A j \in DOMAIN firing : j # k => firing'[j] = firing[j]
        /\ \A v : PastFlow(k, v) => PastFlow(k, v)'
    BY <2>1, FiringMoves
  <2> QED BY <2>2 DEF PastFlow
<1>3. CASE execution' = execution
  <2>1. SameRuns
    BY <1>3 DEF SameRuns
  <2>2. RunsOK'
    BY <1>1, <1>2, <1>3, <2>1, RunsKept
  <2> QED BY <1>3, <2>2
<1> DEFINE w == firing[k].flow
           new == [flow |-> w, ev |-> k[3], by |-> k, version |-> firing[k].seen[w],
                   status |-> "RUNNING", jobs |-> << >>]
<1>4. CASE execution' = Append(execution, new) /\ Moves(k, "add")
  <2>1. /\ w \in Workflow /\ w \notin firing[k].left /\ ListensTo[w] = k[2]
        /\ firing[k].seen[w] \in Nat \ {0}
    BY <1>1 DEF FoundListens, Call
  <2>2. << >> \in Seq(Job) /\ DOMAIN << >> = {}
    OBVIOUS
  <2>3. new \in Execution
    BY <2>1, <2>2 DEF Execution
  <2>4. new.flow = w /\ new.by = k /\ new.jobs = << >>
    OBVIOUS
  <2> HIDE DEF new
  <2> DEFINE n == Len(execution) + 1
  <2>5. /\ execution' \in Seq(Execution) /\ DOMAIN execution = 1..Len(execution)
        /\ DOMAIN execution' = 1..n /\ n \in Nat /\ Len(execution) \in Nat
        /\ execution'[n] = new /\ \A x \in DOMAIN execution : execution'[x] = execution[x]
    <3>1. /\ execution' \in Seq(Execution) /\ Len(execution') = Len(execution) + 1
          /\ Len(execution) \in Nat /\ execution'[Len(execution) + 1] = new
          /\ \A x \in 1..Len(execution) : execution'[x] = execution[x]
      BY <1>1, <1>4, <2>3
    <3>2. DOMAIN execution = 1..Len(execution) /\ DOMAIN execution' = 1..Len(execution')
      BY <1>1, <3>1, LenProperties
    <3> QED BY <3>1, <3>2
  <2>6. DOMAIN execution' = DOMAIN execution \cup {n} /\ n \notin DOMAIN execution
    BY <2>5
  <2>7. execution' \in Seq(Execution')
    BY <1>2, <2>5, ExecutionsStay
  <2>8. firing'[k].at = "add" /\ firing'[k].left = firing[k].left
    BY <1>1, <1>4 DEF Moves, Call
  <2>9. PICK f \in Workflow : f = w
    BY <2>1
  <2>10. PastFlow(k, f)'
    BY <2>1, <2>8, <2>9 DEF PastFlow
  <2>11. \A x \in DOMAIN execution : execution[x].by \in DOMAIN firing
    BY <1>1, JobsTyped DEF Execution
  <2>12. ASSUME NEW x \in DOMAIN execution'
         PROVE  /\ ListensTo[execution'[x].flow] = execution'[x].by[2]
                /\ PastFlow(execution[x].by, execution[x].flow)'
    <3>1. CASE x = n
      BY <2>1, <2>4, <2>5, <2>9, <2>10, <3>1
    <3>2. CASE x \in DOMAIN execution
      <4>1. PICK j \in DOMAIN firing : j = execution[x].by
        BY <2>11, <3>2
      <4>2. PICK v : v = execution[x].flow
        OBVIOUS
      <4>3. ListensTo[v] = j[2] /\ PastFlow(j, v)
        BY <3>2, <4>1, <4>2 DEF RunsOK
      <4>4. PastFlow(j, v)' /\ execution'[x] = execution[x]
        BY <1>2, <2>5, <3>2, <4>3
      <4> QED BY <4>1, <4>2, <4>3, <4>4
    <3> QED BY <2>6, <3>1, <3>2
  <2>13. \A x \in DOMAIN execution : ~(execution[x].flow = f /\ execution[x].by = k)
    BY <1>1, <2>9 DEF RunsOK, PastFlow
  <2>14. \A x, y \in DOMAIN execution' :
           execution'[x].flow = execution'[y].flow /\ execution'[x].by = execution'[y].by => x = y
    <3>1. execution'[n].flow = f /\ execution'[n].by = k
      BY <2>4, <2>5, <2>9
    <3>2. \A x, y \in DOMAIN execution :
            execution[x].flow = execution[y].flow /\ execution[x].by = execution[y].by => x = y
      BY DEF RunsOK
    <3>3. \A x \in DOMAIN execution : execution'[x] = execution[x]
      BY <2>5
    <3> HIDE DEF n
    <3> QED BY <2>6, <2>13, <3>1, <3>2, <3>3
  <2>15. RunsOK'
    BY <2>7, <2>12, <2>14 DEF RunsOK
  <2> QED BY <2>2, <2>4, <2>5, <2>6, <2>15
<1> QED BY <1>3, <1>4 DEF CreateExecution

LEMMA HandsStay ==
  ASSUME HandsOK, UNCHANGED hand,
         \A x \in DOMAIN execution : /\ x \in DOMAIN execution'
                                     /\ DOMAIN execution[x].jobs \subseteq DOMAIN execution'[x].jobs
  PROVE  HandsOK'
BY DEF HandsOK, Running

LEMMA OneMore ==
  ASSUME NEW D, NEW f \in [D -> Nat], NEW i
  PROVE  [f EXCEPT ![i] = @ + 1] \in [D -> Nat]
<1>1. CASE i \in D
  <2>1. f[i] + 1 \in Nat
    BY <1>1
  <2> QED BY <2>1
<1>2. CASE i \notin D
  <2>1. [f EXCEPT ![i] = @ + 1] = f
    BY <1>2
  <2> QED BY <2>1
<1> QED BY <1>1, <1>2

LEMMA TextsStay ==
  ASSUME TextsOK, NEW w, NEW i, faults' \in {faults, faults + 1}, version' \in [Workflow -> Nat],
         texts' \in {texts, [texts EXCEPT ![w][i] = @ + 1]}
  PROVE  TextsOK'
<1>1. DOMAIN texts' = Workflow /\ faults' \in Nat
  BY DEF TextsOK
<1>2. ASSUME NEW v \in Workflow PROVE texts'[v] \in [1..Actions[v] -> Nat]
  <2>1. texts[v] \in [1..Actions[v] -> Nat]
    BY DEF TextsOK
  <2>2. CASE texts' = texts
    BY <2>1, <2>2
  <2>3. CASE texts' = [texts EXCEPT ![w][i] = @ + 1]
    <3>1. DOMAIN texts = Workflow
      BY DEF TextsOK
    <3> DEFINE new == [texts[w] EXCEPT ![i] = @ + 1]
    <3>2. texts' = [texts EXCEPT ![w] = new]
      BY <2>3
    <3>3. v = w => new \in [1..Actions[v] -> Nat]
      <4>1. [texts[v] EXCEPT ![i] = @ + 1] \in [1..Actions[v] -> Nat]
        BY <2>1, OneMore
      <4> QED BY <4>1
    <3> HIDE DEF new
    <3>4. v # w => texts'[v] = texts[v]
      BY <3>1, <3>2
    <3>5. v = w => texts'[v] = new
      BY <3>1, <3>2
    <3> QED BY <2>1, <3>3, <3>4, <3>5
  <2> QED BY <2>2, <2>3
<1> QED BY <1>1, <1>2 DEF TextsOK

LEMMA FiringKeeps ==
  ASSUME Working, NEW k \in DOMAIN firing, FiringStep(k)
  PROVE  Working'
<1>1. /\ CallsOK /\ RunsOK /\ HandsOK /\ TextsOK /\ version \in [Workflow -> Nat]
      /\ execution \in Seq(Execution) /\ firing \in [DOMAIN firing -> Call]
  BY DEF Working, TextsOK, RunsOK, CallsOK
<1>2. /\ DOMAIN firing' = DOMAIN firing /\ firing' \in [DOMAIN firing -> Call]
      /\ \A j \in DOMAIN firing : j # k => firing'[j] = firing[j]
      /\ FoundListens(k)' /\ \A w : PastFlow(k, w) => PastFlow(k, w)'
  BY <1>1, FiringMoves
<1>3. CallsOK'
  <2>1. \A j \in DOMAIN firing : FoundListens(j)'
    BY <1>1, <1>2 DEF CallsOK, FoundListens
  <2> QED BY <1>1, <1>2, <2>1 DEF CallsOK
<1>4. \A j \in DOMAIN firing : \A w : PastFlow(j, w) => PastFlow(j, w)'
  BY <1>2 DEF PastFlow
<1>5. UNCHANGED <<version, hand, texts>> /\ faults' \in {faults, faults + 1}
  BY DEF FiringStep, FindWorkflows, Track, ExpireLoop, CreateExecution, AddAction, AllTracked,
     FiringFails, tableVars, RsvpFault
<1>6. TextsOK'
  BY <1>1, <1>5, TextsStay
<1>7. CASE CreateExecution(k)
  <2>1. RunsOK' /\ \A x \in DOMAIN execution : x \in DOMAIN execution' /\ execution'[x] = execution[x]
    BY <1>1, <1>7, RunCreated
  <2>2. HandsOK'
    BY <1>1, <1>5, <2>1, HandsStay
  <2> QED BY <1>3, <1>6, <2>1, <2>2 DEF Working
<1>8. CASE AddAction(k)
  <2>1. PICK x : execution' = [execution EXCEPT ![x].jobs = Append(@, Added(NoJob))]
    BY <1>8 DEF AddAction
  <2>2. SameRuns /\ execution' \in Seq(Execution)
        /\ \A y \in DOMAIN execution : DOMAIN execution[y].jobs \subseteq DOMAIN execution'[y].jobs
    BY <1>1, <2>1, JobAdded
  <2>3. RunsOK' /\ HandsOK'
    BY <1>1, <1>2, <1>4, <1>5, <2>2, RunsKept, HandsStay DEF SameRuns
  <2> QED BY <1>3, <1>6, <2>3 DEF Working
<1>9. CASE ~CreateExecution(k) /\ ~AddAction(k)
  <2>1. execution' = execution
    BY <1>9 DEF FiringStep, FindWorkflows, Track, ExpireLoop, AllTracked, FiringFails
  <2>2. SameRuns
    BY <2>1 DEF SameRuns
  <2>3. RunsOK' /\ HandsOK'
    BY <1>1, <1>2, <1>4, <1>5, <2>1, <2>2, RunsKept, HandsStay
  <2> QED BY <1>3, <1>6, <2>3 DEF Working
<1> QED BY <1>7, <1>8, <1>9

LEMMA CallsStay ==
  ASSUME UNCHANGED firing
  PROVE  /\ CallsOK => CallsOK'
         /\ \A k \in DOMAIN firing : \A w : PastFlow(k, w) => PastFlow(k, w)'
<1>1. ASSUME CallsOK PROVE CallsOK'
  <2>1. \A k \in DOMAIN firing : FoundListens(k)'
    BY <1>1 DEF CallsOK, FoundListens
  <2> QED BY <1>1, <2>1 DEF CallsOK
<1> QED BY <1>1 DEF PastFlow

LEMMA HandKeeps ==
  ASSUME Working, NEW s \in Slot, HandStep(s)
  PROVE  Working'
<1>1. CallsOK /\ RunsOK /\ HandsOK /\ TextsOK
  BY DEF Working
<1>2. /\ SameJobs /\ UNCHANGED <<firing, version>> /\ hand' \in [Slot -> Hand]
      /\ \A r \in Slot : r # s => hand'[r] = hand[r]
      /\ hand'[s].at # "idle" => /\ hand'[s].exec \in DOMAIN execution
                                 /\ hand'[s].action \in DOMAIN execution[hand'[s].exec].jobs
      /\ texts' \in {texts, [texts EXCEPT ![Running(s).flow][hand[s].action] = @ + 1]}
      /\ faults' \in {faults, faults + 1}
  BY <1>1, HandMoves
<1>3. CallsOK' /\ RunsOK'
  BY <1>1, <1>2, CallsStay, RunsKept DEF SameJobs
<1>4. HandsOK'
  BY <1>1, <1>2 DEF HandsOK, Running, SameJobs, SameRuns
<1>5. version' \in [Workflow -> Nat]
  BY <1>1, <1>2 DEF TextsOK
<1>6. TextsOK'
  BY <1>1, <1>2, <1>5, TextsStay
<1> QED BY <1>3, <1>4, <1>6 DEF Working

LEMMA QueueKeeps ==
  ASSUME Working, NEW x \in DOMAIN execution, NEW i \in DOMAIN execution[x].jobs,
         ActionUnlocked(x, i) \/ ActionStalled(x, i)
  PROVE  Working'
<1>1. CallsOK /\ RunsOK /\ HandsOK /\ TextsOK
  BY DEF Working
<1>2. /\ SameJobs /\ UNCHANGED <<firing, version, hand, texts>>
      /\ faults' \in {faults, faults + 1}
  BY <1>1, QueueSets DEF RunsOK
<1>3. CallsOK' /\ RunsOK'
  BY <1>1, <1>2, CallsStay, RunsKept DEF SameJobs
<1>4. HandsOK'
  BY <1>1, <1>2, HandsStay DEF SameJobs, SameRuns
<1>5. version' \in [Workflow -> Nat]
  BY <1>1, <1>2 DEF TextsOK
<1>6. TextsOK'
  BY <1>1, <1>2, <1>5, TextsStay
<1> QED BY <1>3, <1>4, <1>6 DEF Working

\* The rest of the conversation may start calls, and changes nothing else here.
LEMMA AnswersFire ==
  ASSUME Triggering
  PROVE  /\ UNCHANGED <<version, execution, hand, texts>>
         /\ UNCHANGED firing \/ \E e, word : Fire(e, word)
BY DEF Triggering, tableVars

LEMMA TriggeringKeeps ==
  ASSUME Working, Triggering, faults' \in {faults, faults + 1}
  PROVE  Working'
<1>1. CallsOK /\ RunsOK /\ HandsOK /\ TextsOK /\ execution \in Seq(Execution)
  BY DEF Working, RunsOK
<1>2. /\ UNCHANGED <<version, execution, hand, texts>>
      /\ UNCHANGED firing \/ \E e, word : Fire(e, word)
  BY AnswersFire
<1>3. /\ CallsOK' /\ DOMAIN firing \subseteq DOMAIN firing'
      /\ \A k \in DOMAIN firing : firing'[k] = firing[k]
  BY <1>1, <1>2, CallsStay, Fired DEF TextsOK
<1>4. SameRuns /\ \A k \in DOMAIN firing : \A w : PastFlow(k, w) => PastFlow(k, w)'
  BY <1>2, <1>3 DEF SameRuns, PastFlow
<1>5. RunsOK'
  BY <1>1, <1>2, <1>3, <1>4, RunsKept
<1>6. HandsOK'
  BY <1>1, <1>2, HandsStay
<1>7. TextsOK'
  BY <1>1, <1>2 DEF TextsOK
<1> QED BY <1>3, <1>5, <1>6, <1>7 DEF Working

\* What AutomationService does to the workflows.
LEMMA Edited ==
  ASSUME Working, NEW v \in Workflow, ReplaceActions(v) \/ RemoveWorkflow(v) \/ ToggleActive(v)
  PROVE  /\ Working' /\ UNCHANGED <<firing, execution, hand, texts, faults>>
         /\ \A w \in Workflow : version[w] = 0 => version'[w] = 0
<1>1. CallsOK /\ RunsOK /\ HandsOK /\ TextsOK /\ execution \in Seq(Execution)
  BY DEF Working, RunsOK
<1>2. UNCHANGED <<firing, execution, hand, texts, faults>>
  BY DEF ReplaceActions, RemoveWorkflow, ToggleActive
<1>3. version' \in [Workflow -> Nat] /\ \A w \in Workflow : version[w] = 0 => version'[w] = 0
  BY SMTT(30), <1>1 DEF ReplaceActions, RemoveWorkflow, ToggleActive, Edit, TextsOK
<1>4. SameRuns
  BY <1>2 DEF SameRuns
<1>5. CallsOK' /\ RunsOK'
  BY <1>1, <1>2, <1>4, CallsStay, RunsKept
<1>6. HandsOK' /\ TextsOK'
  BY <1>1, <1>2, <1>3, HandsStay DEF TextsOK
<1> QED BY <1>2, <1>3, <1>5, <1>6 DEF Working

-----------------------------------------------------------------------------
(* How many messages an action may still send. *)

\* A job that may be handed out again: one that waits, or whose handler is gone.
JobDue(x, i) ==
  /\ version[execution[x].flow] # 0
  /\ LET j == execution[x].jobs[i] IN
     \/ j.st = "waiting"
     \/ /\ j.st = "active"
        /\ j.owner = None \/ ~Handling(j.owner, x, i)

\* A handler that may still send, or whose job will be retried.
HandDue(s) ==
  \/ hand[s].at \in {"check", "contact", "send"}
  \/ hand[s].at \in {"load", "note", "throw"} /\ version[Running(s).flow] # 0

\* The executions that queued an action, those of them whose job is due, and the
\* handlers of it that are.
Entitled(w, i) ==
  {x \in DOMAIN execution : execution[x].flow = w /\ i \in DOMAIN execution[x].jobs}

Due(w, i) == {x \in Entitled(w, i) : JobDue(x, i)}

RunsFor(s, w, i) == hand[s].at # "idle" /\ Running(s).flow = w /\ hand[s].action = i

Acting(w, i) == {s \in Slot : RunsFor(s, w, i) /\ HandDue(s)}

\* Every message was due to an execution or to a fault, and so is every one to come.
Counted ==
  \A w \in Workflow : \A i \in 1..Actions[w] :
    texts[w][i] + Cardinality(Due(w, i)) + Cardinality(Acting(w, i))
      <= Cardinality(Entitled(w, i)) + faults

LEMMA SizesTyped ==
  ASSUME execution \in Seq(Execution), NEW w, NEW i
  PROVE  /\ IsFiniteSet(Entitled(w, i)) /\ IsFiniteSet(Due(w, i)) /\ IsFiniteSet(Acting(w, i))
         /\ Cardinality(Entitled(w, i)) \in Nat /\ Cardinality(Due(w, i)) \in Nat
         /\ Cardinality(Acting(w, i)) \in Nat
<1>1. IsFiniteSet(DOMAIN execution)
  <2>1. DOMAIN execution = 1..Len(execution) /\ Len(execution) \in Nat
    BY LenProperties
  <2> QED BY <2>1, FS_Interval
<1>2. Entitled(w, i) \subseteq DOMAIN execution /\ Due(w, i) \subseteq Entitled(w, i)
      /\ Acting(w, i) \subseteq Slot
  BY DEF Entitled, Due, Acting
<1>3. IsFiniteSet(Entitled(w, i)) /\ IsFiniteSet(Due(w, i)) /\ IsFiniteSet(Acting(w, i))
  BY <1>1, <1>2, FS_Subset, RsvpAssumption
<1> QED BY <1>3, FS_CardinalityType

\* Sets that lose or gain one element.
LEMMA SizesMove ==
  ASSUME NEW S, NEW T, IsFiniteSet(S), IsFiniteSet(T), NEW x
  PROVE  /\ T \subseteq S => Cardinality(T) <= Cardinality(S)
         /\ T \subseteq S \cup {x} => Cardinality(T) <= Cardinality(S) + 1
         /\ x \in S /\ T \subseteq S \ {x} => Cardinality(T) + 1 <= Cardinality(S)
         /\ x \in T /\ x \notin S /\ S \subseteq T => Cardinality(S) + 1 <= Cardinality(T)
         /\ Cardinality(S) \in Nat /\ Cardinality(T) \in Nat
<1>1. Cardinality(S) \in Nat /\ Cardinality(T) \in Nat
  BY FS_CardinalityType
<1>2. ASSUME T \subseteq S PROVE Cardinality(T) <= Cardinality(S)
  BY <1>2, FS_Subset
<1>3. ASSUME T \subseteq S \cup {x} PROVE Cardinality(T) <= Cardinality(S) + 1
  <2>1. IsFiniteSet(S \cup {x}) /\ Cardinality(S \cup {x}) <= Cardinality(S) + 1
    BY <1>1, FS_AddElement
  <2>2. Cardinality(T) <= Cardinality(S \cup {x}) /\ Cardinality(S \cup {x}) \in Nat
    BY <1>3, <2>1, FS_Subset, FS_CardinalityType
  <2> QED BY <1>1, <2>1, <2>2
<1>4. ASSUME x \in S, T \subseteq S \ {x} PROVE Cardinality(T) + 1 <= Cardinality(S)
  <2>1. IsFiniteSet(S \ {x}) /\ Cardinality(S \ {x}) = Cardinality(S) - 1
    BY <1>4, FS_RemoveElement
  <2>2. Cardinality(T) <= Cardinality(S \ {x})
    BY <1>4, <2>1, FS_Subset
  <2> QED BY <1>1, <2>1, <2>2
<1>5. ASSUME x \in T, x \notin S, S \subseteq T PROVE Cardinality(S) + 1 <= Cardinality(T)
  <2>1. IsFiniteSet(S \cup {x}) /\ Cardinality(S \cup {x}) = Cardinality(S) + 1
    BY <1>5, FS_AddElement
  <2>2. Cardinality(S \cup {x}) <= Cardinality(T)
    BY <1>5, FS_Subset
  <2> QED BY <2>1, <2>2
<1> QED BY <1>1, <1>2, <1>3, <1>4, <1>5

\* What a step may do to the four numbers of an action.
Fair(w, i, s, x) ==
  LET kept == texts'[w][i] = texts[w][i]
  IN
  /\ faults' \in {faults, faults + 1} /\ texts'[w][i] \in {texts[w][i], texts[w][i] + 1}
  /\ \/ /\ kept /\ Due(w, i)' \subseteq Due(w, i) /\ Acting(w, i)' \subseteq Acting(w, i)
        /\ Entitled(w, i) \subseteq Entitled(w, i)'
     \/ /\ Entitled(w, i) \subseteq Entitled(w, i)' /\ faults' = faults + 1
        /\ \/ kept /\ Due(w, i)' \subseteq Due(w, i) \cup {x} /\ Acting(w, i)' \subseteq Acting(w, i)
           \/ kept /\ Due(w, i)' \subseteq Due(w, i) /\ Acting(w, i)' \subseteq Acting(w, i) \cup {s}
           \/ Due(w, i)' \subseteq Due(w, i) /\ Acting(w, i)' \subseteq Acting(w, i)
     \/ /\ Entitled(w, i) \subseteq Entitled(w, i)'
        /\ \/ /\ kept /\ x \in Due(w, i) /\ Due(w, i)' \subseteq Due(w, i) \ {x}
              /\ Acting(w, i)' \subseteq Acting(w, i) \cup {s}
           \/ /\ kept /\ s \in Acting(w, i) /\ Due(w, i)' \subseteq Due(w, i) \cup {x}
              /\ Acting(w, i)' \subseteq Acting(w, i) \ {s}
           \/ /\ s \in Acting(w, i) /\ Due(w, i)' \subseteq Due(w, i)
              /\ Acting(w, i)' \subseteq Acting(w, i) \ {s}
     \/ /\ kept /\ Entitled(w, i) \subseteq Entitled(w, i)' /\ x \in Entitled(w, i)' /\ x \notin Entitled(w, i)
        /\ Due(w, i)' \subseteq Due(w, i) \cup {x} /\ Acting(w, i)' \subseteq Acting(w, i)

LEMMA FairIsCounted ==
  ASSUME Working, Working', Counted,
         \A w \in Workflow : \A i \in 1..Actions[w] : \E s, x : Fair(w, i, s, x)
  PROVE  Counted'
<1> SUFFICES ASSUME NEW w \in Workflow, NEW i \in 1..Actions[w]
             PROVE  texts'[w][i] + Cardinality(Due(w, i)') + Cardinality(Acting(w, i)')
                      <= Cardinality(Entitled(w, i)') + faults'
  BY DEF Counted
<1> DEFINE n == texts[w][i]    m == texts'[w][i]
           D == Due(w, i)      D2 == Due(w, i)'
           A == Acting(w, i)   A2 == Acting(w, i)'
           E == Entitled(w, i) E2 == Entitled(w, i)'
<1>1. PICK s, x : Fair(w, i, s, x)
  OBVIOUS
<1>2. n \in Nat /\ m \in Nat /\ faults \in Nat /\ faults' \in Nat
  BY DEF Working, TextsOK
<1>3. /\ IsFiniteSet(D) /\ IsFiniteSet(A) /\ IsFiniteSet(E)
      /\ IsFiniteSet(D2) /\ IsFiniteSet(A2) /\ IsFiniteSet(E2)
  <2>1. execution \in Seq(Execution) /\ execution' \in Seq(Execution')
    BY DEF Working, RunsOK
  <2>2. IsFiniteSet(D) /\ IsFiniteSet(A) /\ IsFiniteSet(E)
    BY <2>1, SizesTyped
  <2>3. IsFiniteSet(E2) /\ IsFiniteSet(A2)
    <3>1. DOMAIN execution' = 1..Len(execution') /\ Len(execution') \in Nat
      BY <2>1, LenProperties
    <3>2. IsFiniteSet(DOMAIN execution')
      BY <3>1, FS_Interval
    <3>3. E2 \subseteq DOMAIN execution' /\ A2 \subseteq Slot
      BY DEF Entitled, Acting
    <3> QED BY <3>2, <3>3, FS_Subset, RsvpAssumption
  <2>4. IsFiniteSet(D2)
    <3>1. D2 \subseteq E2
      BY DEF Due
    <3> QED BY <2>3, <3>1, FS_Subset
  <2> QED BY <2>2, <2>3, <2>4
<1>4. n + Cardinality(D) + Cardinality(A) <= Cardinality(E) + faults
  BY DEF Counted
<1>5. Fair(w, i, s, x)
  BY <1>1
<1> DEFINE kept == m = n
<1>6. faults' \in {faults, faults + 1} /\ m \in {n, n + 1} /\
      \/ kept /\ D2 \subseteq D /\ A2 \subseteq A /\ E \subseteq E2
      \/ E \subseteq E2 /\ faults' = faults + 1 /\ kept /\ D2 \subseteq D \cup {x} /\ A2 \subseteq A
      \/ E \subseteq E2 /\ faults' = faults + 1 /\ kept /\ D2 \subseteq D /\ A2 \subseteq A \cup {s}
      \/ E \subseteq E2 /\ faults' = faults + 1 /\ D2 \subseteq D /\ A2 \subseteq A
      \/ E \subseteq E2 /\ kept /\ x \in D /\ D2 \subseteq D \ {x} /\ A2 \subseteq A \cup {s}
      \/ E \subseteq E2 /\ kept /\ s \in A /\ D2 \subseteq D \cup {x} /\ A2 \subseteq A \ {s}
      \/ E \subseteq E2 /\ s \in A /\ D2 \subseteq D /\ A2 \subseteq A \ {s}
      \/ kept /\ E \subseteq E2 /\ x \in E2 /\ x \notin E /\ D2 \subseteq D \cup {x} /\ A2 \subseteq A
  BY <1>5 DEF Fair
<1> HIDE DEF n, m, D, D2, A, A2, E, E2
<1>7. /\ Cardinality(D) \in Nat /\ Cardinality(A) \in Nat /\ Cardinality(E) \in Nat
      /\ Cardinality(D2) \in Nat /\ Cardinality(A2) \in Nat /\ Cardinality(E2) \in Nat
  BY <1>3, FS_CardinalityType
<1>8. /\ D2 \subseteq D => Cardinality(D2) <= Cardinality(D)
      /\ D2 \subseteq D \cup {x} => Cardinality(D2) <= Cardinality(D) + 1
      /\ x \in D /\ D2 \subseteq D \ {x} => Cardinality(D2) + 1 <= Cardinality(D)
  BY <1>3, SizesMove
<1>9. /\ A2 \subseteq A => Cardinality(A2) <= Cardinality(A)
      /\ A2 \subseteq A \cup {s} => Cardinality(A2) <= Cardinality(A) + 1
      /\ s \in A /\ A2 \subseteq A \ {s} => Cardinality(A2) + 1 <= Cardinality(A)
  BY <1>3, SizesMove
<1>10. /\ E \subseteq E2 => Cardinality(E) <= Cardinality(E2)
       /\ x \in E2 /\ x \notin E /\ E \subseteq E2 => Cardinality(E) + 1 <= Cardinality(E2)
  BY <1>3, SizesMove
<1>11. m + Cardinality(D2) + Cardinality(A2) <= Cardinality(E2) + faults'
  BY <1>2, <1>4, <1>6, <1>7, <1>8, <1>9, <1>10
<1> QED BY <1>11 DEF m, D2, A2, E2

-----------------------------------------------------------------------------
(* Every step is fair to every action. *)

LEMMA TextsMove ==
  ASSUME TextsOK, NEW v, NEW m, texts' \in {texts, [texts EXCEPT ![v][m] = @ + 1]},
         NEW w \in Workflow, NEW i \in 1..Actions[w]
  PROVE  /\ texts'[w][i] \in {texts[w][i], texts[w][i] + 1}
         /\ ~(w = v /\ i = m) => texts'[w][i] = texts[w][i]
<1>1. DOMAIN texts = Workflow /\ texts[w] \in [1..Actions[w] -> Nat]
  BY DEF TextsOK
<1>2. CASE texts' = texts
  BY <1>2
<1>3. CASE texts' = [texts EXCEPT ![v][m] = @ + 1]
  <2> DEFINE new == [texts[v] EXCEPT ![m] = @ + 1]
  <2>1. texts' = [texts EXCEPT ![v] = new]
    BY <1>3
  <2>2. v = w => new[i] = IF i = m THEN texts[w][i] + 1 ELSE texts[w][i]
    BY <1>1
  <2> HIDE DEF new
  <2>3. texts'[w] = IF v = w THEN new ELSE texts[w]
    BY <1>1, <2>1
  <2> QED BY <2>2, <2>3
<1> QED BY <1>2, <1>3

LEMMA EntitledStay ==
  ASSUME SameJobs, NEW w, NEW i
  PROVE  Entitled(w, i)' = Entitled(w, i)
BY DEF Entitled, SameJobs, SameRuns

LEMMA DueStays ==
  ASSUME RunsOK, SameJobs, UNCHANGED version,
         NEW y \in DOMAIN execution, NEW m \in DOMAIN execution[y].jobs,
         execution'[y].jobs[m] = execution[y].jobs[m],
         \A r \in Slot : Handling(r, y, m)' <=> Handling(r, y, m)
  PROVE  JobDue(y, m)' <=> JobDue(y, m)
<1>1. execution[y].jobs[m] \in Job
  BY JobsTyped DEF RunsOK
<1>2. execution'[y].flow = execution[y].flow
  BY DEF SameJobs, SameRuns
<1>3. execution[y].jobs[m].owner \in Slot \cup {None}
  BY <1>1 DEF Job
<1> QED BY <1>2, <1>3 DEF JobDue

LEMMA OthersAct ==
  ASSUME HandsOK, SameJobs, UNCHANGED version, NEW s, \A r \in Slot : r # s => hand'[r] = hand[r],
         NEW w, NEW i, NEW r \in Slot, r # s
  PROVE  r \in Acting(w, i)' <=> r \in Acting(w, i)
<1>1. CASE hand[r].at = "idle"
  BY <1>1 DEF Acting, RunsFor
<1>2. CASE hand[r].at # "idle"
  <2>1. hand'[r] = hand[r] /\ execution'[hand[r].exec].flow = execution[hand[r].exec].flow
    BY <1>2 DEF HandsOK, SameJobs, SameRuns
  <2> QED BY <2>1 DEF Acting, RunsFor, HandDue, Running
<1> QED BY <1>1, <1>2

\* A handler that goes on with its job.
LEMMA GoesOn ==
  ASSUME Working, NEW s \in Slot, SameJobs, UNCHANGED version,
         \A y \in DOMAIN execution : execution'[y].jobs = execution[y].jobs,
         NEW l \in HandLabel, HandGoes(s, l), hand[s].at # "idle", l # "idle", NEW w, NEW i
  PROVE  /\ Due(w, i)' \subseteq Due(w, i) /\ Entitled(w, i)' = Entitled(w, i)
         /\ Acting(w, i)' \subseteq Acting(w, i) \cup {s}
         /\ s \in Acting(w, i) <=> RunsFor(s, w, i) /\ HandDue(s)
         /\ s \in Acting(w, i)' <=> RunsFor(s, w, i) /\ HandDue(s)'
         /\ Running(s).flow \in Workflow
         /\ HandDue(s)' <=> \/ l \in {"check", "contact", "send"}
                            \/ l \in {"load", "note", "throw"} /\ version[Running(s).flow] # 0
<1>1. /\ HandsOK /\ RunsOK /\ hand \in [Slot -> Hand] /\ execution \in Seq(Execution)
      /\ hand[s].exec \in DOMAIN execution
  BY DEF Working, HandsOK, RunsOK
<1>2. /\ hand'[s].at = l /\ hand'[s].exec = hand[s].exec /\ hand'[s].action = hand[s].action
      /\ \A r \in Slot : r # s => hand'[r] = hand[r]
  BY <1>1, HandUpdates
<1>3. \A r \in Slot : \A y, m : Handling(r, y, m)' <=> Handling(r, y, m)
  BY <1>2 DEF Handling
<1>4. Entitled(w, i)' = Entitled(w, i)
  BY EntitledStay
<1>5. Due(w, i)' \subseteq Due(w, i)
  <2> SUFFICES ASSUME NEW y \in Due(w, i)' PROVE y \in Due(w, i)
    OBVIOUS
  <2>1. y \in Entitled(w, i) /\ JobDue(y, i)'
    BY <1>4 DEF Due
  <2>2. y \in DOMAIN execution /\ i \in DOMAIN execution[y].jobs
    BY <2>1 DEF Entitled
  <2>3. JobDue(y, i)
    BY <1>1, <1>3, <2>1, <2>2, DueStays
  <2> QED BY <2>1, <2>3 DEF Due
<1>6. execution'[hand[s].exec].flow = execution[hand[s].exec].flow /\ Running(s).flow \in Workflow
  BY <1>1, JobsTyped DEF SameJobs, SameRuns, Running, Execution
<1>7. RunsFor(s, w, i)' <=> RunsFor(s, w, i)
  BY <1>2, <1>6 DEF RunsFor, Running
<1>8. Acting(w, i)' \subseteq Acting(w, i) \cup {s}
  <2>1. \A r \in Slot : r # s => (r \in Acting(w, i)' <=> r \in Acting(w, i))
    BY <1>1, <1>2, OthersAct
  <2>2. Acting(w, i)' \subseteq Slot
    BY DEF Acting
  <2> QED BY <2>1, <2>2
<1>9. HandDue(s)' <=> \/ l \in {"check", "contact", "send"}
                      \/ l \in {"load", "note", "throw"} /\ version[Running(s).flow] # 0
  BY <1>2, <1>6 DEF HandDue, Running
<1> QED BY <1>4, <1>5, <1>6, <1>7, <1>8, <1>9 DEF Acting

\* Without a change to the texts, it is enough that a handler due now was due before.
LEMMA QuietIsFair ==
  ASSUME Working, NEW s \in Slot, SameJobs, UNCHANGED <<version, texts, faults>>,
         \A y \in DOMAIN execution : execution'[y].jobs = execution[y].jobs,
         NEW l \in HandLabel, HandGoes(s, l), hand[s].at # "idle", l # "idle",
         (\/ l \in {"check", "contact", "send"}
          \/ l \in {"load", "note", "throw"} /\ version[Running(s).flow] # 0) => HandDue(s),
         NEW w \in Workflow, NEW i \in 1..Actions[w]
  PROVE  Fair(w, i, s, 0)
<1>1. /\ Due(w, i)' \subseteq Due(w, i) /\ Entitled(w, i)' = Entitled(w, i)
      /\ Acting(w, i)' \subseteq Acting(w, i) \cup {s}
      /\ s \in Acting(w, i) <=> RunsFor(s, w, i) /\ HandDue(s)
      /\ s \in Acting(w, i)' <=> RunsFor(s, w, i) /\ HandDue(s)'
      /\ HandDue(s)' <=> \/ l \in {"check", "contact", "send"}
                         \/ l \in {"load", "note", "throw"} /\ version[Running(s).flow] # 0
  BY GoesOn
<1>2. Acting(w, i)' \subseteq Acting(w, i)
  BY <1>1
<1> QED BY <1>1, <1>2 DEF Fair

LEMMA QuietSteps ==
  ASSUME Working, NEW s \in Slot, NEW w \in Workflow, NEW i \in 1..Actions[w],
         \/ LoadAction(s) \/ CheckCondition(s) \/ ReadContact(s) \/ CountAction(s)
         \/ MarkComplete(s) \/ NoteFailure(s)
  PROVE  Fair(w, i, s, 0)
<1>1. /\ HandStep(s) /\ RunsOK /\ HandsOK /\ execution \in Seq(Execution)
  BY DEF HandStep, Working, RunsOK
<1>2. SameJobs /\ UNCHANGED version
  BY <1>1, HandMoves
<1>3. UNCHANGED <<texts, faults>> /\ hand[s].at # "idle"
  BY DEF LoadAction, CheckCondition, ReadContact, CountAction, MarkComplete, NoteFailure
<1>4. hand[s].exec \in DOMAIN execution /\ Running(s) \in Execution
  BY <1>1, <1>3, JobsTyped DEF HandsOK, Running
<1>5. \A y \in DOMAIN execution : execution'[y].jobs = execution[y].jobs
  <2>1. \/ execution' = execution
        \/ \E to \in {"RUNNING", "COMPLETED", "FAILED"} :
             execution' = [execution EXCEPT ![hand[s].exec].status = to]
    BY DEF LoadAction, CheckCondition, ReadContact, CountAction, MarkComplete, NoteFailure
  <2> QED BY <1>1, <1>4, <2>1, StatusSet
<1>6. CASE LoadAction(s)
  <2>1. PICK l \in HandLabel : /\ HandGoes(s, l) /\ l \in {"skip", "check", "contact"}
                               /\ l # "skip" => version[Running(s).flow] = Running(s).version
    BY <1>6 DEF LoadAction, HandLabel
  <2>2. l # "skip" => HandDue(s)
    BY <1>4, <1>6, <2>1 DEF LoadAction, HandDue, Execution
  <2> QED BY <1>2, <1>3, <1>5, <2>1, <2>2, QuietIsFair
<1>7. CASE CheckCondition(s) \/ ReadContact(s)
  <2>1. PICK l \in HandLabel : HandGoes(s, l) /\ l # "idle"
    BY <1>7 DEF CheckCondition, ReadContact, HandLabel
  <2>2. HandDue(s)
    BY <1>7 DEF CheckCondition, ReadContact, HandDue
  <2> QED BY <1>2, <1>3, <1>5, <2>1, <2>2, QuietIsFair
<1>8. CASE CountAction(s)
  <2>1. PICK l \in HandLabel : /\ HandGoes(s, l) /\ l \in {"mark", "complete", "note", "throw"}
                               /\ l \in {"note", "throw"} => version[Running(s).flow] = 0
    BY <1>8 DEF CountAction, AfterCount, Gone, HandLabel
  <2> QED BY <1>2, <1>3, <1>5, <2>1, QuietIsFair
<1>9. CASE MarkComplete(s)
  <2>1. PICK l \in HandLabel : /\ HandGoes(s, l) /\ l \in {"complete", "throw"}
                               /\ l = "throw" => version[Running(s).flow] = 0
    BY <1>9 DEF MarkComplete, Gone, HandLabel
  <2> QED BY <1>2, <1>3, <1>5, <2>1, QuietIsFair
<1>10. CASE NoteFailure(s)
  <2>1. HandGoes(s, "throw") /\ "throw" \in HandLabel
    BY <1>10 DEF NoteFailure, HandLabel
  <2>2. version[Running(s).flow] # 0 => HandDue(s)
    BY <1>10 DEF NoteFailure, HandDue
  <2> QED BY <1>2, <1>3, <1>5, <2>1, <2>2, QuietIsFair
<1> QED BY <1>6, <1>7, <1>8, <1>9, <1>10

\* The send pays with the handler's own claim, or with the fault that strikes it.
LEMMA SendIsFair ==
  ASSUME Working, NEW s \in Slot, NEW taken \in BOOLEAN, SendText(s, taken),
         NEW w \in Workflow, NEW i \in 1..Actions[w]
  PROVE  Fair(w, i, s, 0)
<1>1. HandStep(s) /\ RunsOK /\ HandsOK /\ TextsOK
  BY DEF HandStep, Working
<1>2. SameJobs /\ UNCHANGED version
  BY <1>1, HandMoves
<1>3. /\ HandGoes(s, "count") /\ "count" \in HandLabel /\ hand[s].at = "send"
      /\ UNCHANGED <<execution, faults>>
      /\ texts' \in {texts, [texts EXCEPT ![Running(s).flow][hand[s].action] = @ + 1]}
  BY DEF SendText, HandLabel
<1>4. /\ Due(w, i)' \subseteq Due(w, i) /\ Entitled(w, i)' = Entitled(w, i)
      /\ Acting(w, i)' \subseteq Acting(w, i) \cup {s}
      /\ s \in Acting(w, i) <=> RunsFor(s, w, i) /\ HandDue(s)
      /\ s \in Acting(w, i)' <=> RunsFor(s, w, i) /\ HandDue(s)'
      /\ ~HandDue(s)'
  BY <1>2, <1>3, GoesOn
<1>5. Acting(w, i)' \subseteq Acting(w, i) \ {s}
  BY <1>4
<1>6. /\ texts'[w][i] \in {texts[w][i], texts[w][i] + 1}
      /\ ~(w = Running(s).flow /\ i = hand[s].action) => texts'[w][i] = texts[w][i]
  BY <1>1, <1>3, TextsMove
<1>7. CASE w = Running(s).flow /\ i = hand[s].action
  <2>1. s \in Acting(w, i)
    BY <1>3, <1>4, <1>7 DEF RunsFor, HandDue
  <2> QED BY <1>3, <1>4, <1>5, <1>6, <2>1 DEF Fair
<1>8. CASE ~(w = Running(s).flow /\ i = hand[s].action)
  BY <1>3, <1>4, <1>5, <1>6, <1>8 DEF Fair
<1> QED BY <1>7, <1>8

LEMMA ErrorIsFair ==
  ASSUME Working, NEW s \in Slot, ActionError(s), NEW w \in Workflow, NEW i \in 1..Actions[w]
  PROVE  Fair(w, i, s, 0)
<1>1. HandStep(s) /\ RunsOK /\ HandsOK /\ TextsOK
  BY DEF HandStep, Working
<1>2. SameJobs /\ UNCHANGED version
  BY <1>1, HandMoves
<1>3. PICK l \in HandLabel : HandGoes(s, l) /\ l \in {"note", "throw"}
  BY DEF ActionError, HandLabel
<1>4. /\ UNCHANGED execution /\ hand[s].at # "idle" /\ faults' = faults + 1
      /\ \/ texts' = texts
         \/ hand[s].at = "send" /\ texts' = [texts EXCEPT ![Running(s).flow][hand[s].action] = @ + 1]
  BY DEF ActionError, RsvpFault
<1>5. /\ Due(w, i)' \subseteq Due(w, i) /\ Entitled(w, i)' = Entitled(w, i)
      /\ Acting(w, i)' \subseteq Acting(w, i) \cup {s}
      /\ s \in Acting(w, i) <=> RunsFor(s, w, i) /\ HandDue(s)
  BY <1>2, <1>3, <1>4, GoesOn
<1>6. /\ texts'[w][i] \in {texts[w][i], texts[w][i] + 1}
      /\ ~(w = Running(s).flow /\ i = hand[s].action) => texts'[w][i] = texts[w][i]
      /\ texts' = texts => texts'[w][i] = texts[w][i]
  BY <1>1, <1>4, TextsMove
<1>7. CASE texts'[w][i] = texts[w][i]
  BY <1>4, <1>5, <1>6, <1>7 DEF Fair
<1>8. CASE texts'[w][i] # texts[w][i]
  <2>1. s \in Acting(w, i)
    BY <1>4, <1>5, <1>6, <1>8 DEF RunsFor, HandDue
  <2>2. Acting(w, i)' \subseteq Acting(w, i)
    BY <1>5, <2>1
  <2> QED BY <1>4, <1>5, <1>6, <2>2 DEF Fair
<1> QED BY <1>7, <1>8

\* A handler takes a job, and its claim with it.
LEMMA TakeIsFair ==
  ASSUME Working, NEW s \in Slot, NEW x \in DOMAIN execution, NEW m \in DOMAIN execution[x].jobs,
         TakeAction(s, x, m), NEW w \in Workflow, NEW i \in 1..Actions[w]
  PROVE  Fair(w, i, s, x)
<1>1. /\ HandStep(s) /\ RunsOK /\ HandsOK /\ execution \in Seq(Execution)
      /\ hand \in [Slot -> Hand] /\ None \notin Slot
  BY QueueAssumption DEF HandStep, Working, RunsOK, HandsOK
<1>2. SameJobs /\ UNCHANGED <<version, texts, faults>>
      /\ \A r \in Slot : r # s => hand'[r] = hand[r]
  BY <1>1, HandMoves DEF TakeAction
<1>3. /\ hand[s].at = "idle" /\ execution[x].jobs[m].st = "waiting"
      /\ SetJob(x, m, Started(execution[x].jobs[m], s))
      /\ hand' = [hand EXCEPT ![s] = [Handed EXCEPT !.exec = x, !.action = m]]
  BY DEF TakeAction, Startable
<1>4. execution[x].jobs[m] \in Job /\ x \in Nat /\ m \in Nat /\ execution[x] \in Execution
  BY <1>1, JobsTyped
<1>5. hand'[s].at = "load" /\ hand'[s].exec = x /\ hand'[s].action = m
  BY <1>1, <1>3, <1>4 DEF Handed, Hand, HandLabel
<1>6. Started(execution[x].jobs[m], s) \in Job
  BY <1>4, JobOperationsTyped
<1>7. \A y \in DOMAIN execution : \A n \in DOMAIN execution[y].jobs :
        execution'[y].jobs[n] = IF y = x /\ n = m THEN Started(execution[x].jobs[m], s)
                                ELSE execution[y].jobs[n]
  BY <1>1, <1>3, <1>6, JobSet
<1>8. Entitled(w, i)' = Entitled(w, i)
  BY <1>2, EntitledStay
<1>9. ASSUME NEW y \in Due(w, i)' PROVE y \in Due(w, i) /\ ~(y = x /\ i = m)
  <2>1. y \in Entitled(w, i) /\ JobDue(y, i)' /\ y \in DOMAIN execution /\ i \in DOMAIN execution[y].jobs
    BY <1>8 DEF Due, Entitled
  <2>2. ~(y = x /\ i = m)
    <3> SUFFICES ASSUME y = x, i = m PROVE FALSE
      OBVIOUS
    <3>1. execution'[y].jobs[i].st = "active" /\ execution'[y].jobs[i].owner = s
      BY <1>4, <1>7, <2>1 DEF Started, Job
    <3>2. Handling(s, y, i)'
      BY <1>5 DEF Handling
    <3> QED BY <1>1, <2>1, <3>1, <3>2 DEF JobDue
  <2>3. execution'[y].jobs[i] = execution[y].jobs[i]
    BY <1>7, <2>1, <2>2
  <2>4. \A r \in Slot : Handling(r, y, i)' <=> Handling(r, y, i)
    BY <1>2, <1>3, <1>5, <2>2 DEF Handling
  <2>5. JobDue(y, i)
    BY <1>1, <1>2, <2>1, <2>3, <2>4, DueStays
  <2> QED BY <2>1, <2>2, <2>5 DEF Due
<1>10. \A r \in Slot : r # s => (r \in Acting(w, i)' <=> r \in Acting(w, i))
  BY <1>1, <1>2, OthersAct
<1>11. Acting(w, i)' \subseteq Acting(w, i) \cup {s}
  <2>1. Acting(w, i)' \subseteq Slot
    BY DEF Acting
  <2> QED BY <1>10, <2>1
<1>12. CASE s \in Acting(w, i)'
  <2>1. RunsFor(s, w, i)' /\ HandDue(s)'
    BY <1>12 DEF Acting
  <2>2. execution'[x].flow = execution[x].flow
    BY <1>2 DEF SameJobs, SameRuns
  <2>3. execution[x].flow = w /\ m = i /\ version[w] # 0
    BY <1>2, <1>5, <2>1, <2>2 DEF RunsFor, HandDue, Running
  <2>4. x \in Due(w, i)
    BY <1>3, <2>3 DEF Due, Entitled, JobDue
  <2>5. Due(w, i)' \subseteq Due(w, i) \ {x}
    BY <1>9, <2>3
  <2> QED BY <1>2, <1>8, <1>11, <2>4, <2>5 DEF Fair
<1>13. CASE s \notin Acting(w, i)'
  <2>1. Acting(w, i)' \subseteq Acting(w, i)
    BY <1>11, <1>13
  <2>2. Due(w, i)' \subseteq Due(w, i)
    BY <1>9
  <2> QED BY <1>2, <1>8, <2>1, <2>2 DEF Fair
<1> QED BY <1>12, <1>13

\* A handler that stops: the other jobs and handlers do not notice.
LEMMA Stops ==
  ASSUME Working, NEW s \in Slot, HandEnds(s) \/ HandCrashes(s), NEW w \in Workflow,
         NEW i \in 1..Actions[w]
  PROVE  /\ Entitled(w, i)' = Entitled(w, i) /\ Acting(w, i)' \subseteq Acting(w, i) \ {s}
         /\ Due(w, i)' \subseteq Due(w, i) \cup {hand[s].exec}
         /\ \A y \in Due(w, i)' : y \in Due(w, i) \/ RunsFor(s, w, i)
         /\ hand[s].at # "idle" /\ hand[s].exec \in DOMAIN execution
         /\ hand[s].action \in DOMAIN Running(s).jobs
         /\ SameJobs /\ UNCHANGED <<version, texts>> /\ hand'[s].at = "idle"
         /\ \A r \in Slot : r # s => hand'[r] = hand[r]
<1>1. /\ HandStep(s) /\ RunsOK /\ HandsOK /\ execution \in Seq(Execution)
      /\ hand \in [Slot -> Hand] /\ None \notin Slot
  BY QueueAssumption DEF HandStep, Working, RunsOK, HandsOK
<1>2. SameJobs /\ UNCHANGED <<version, texts>>
      /\ \A r \in Slot : r # s => hand'[r] = hand[r]
  BY <1>1, HandMoves DEF HandEnds, HandCrashes
<1>3. hand[s].at # "idle" /\ hand[s].exec \in DOMAIN execution /\ hand[s].action \in DOMAIN Running(s).jobs
  BY <1>1 DEF HandEnds, HandCrashes, HandsOK
<1>4. hand'[s].at = "idle"
  BY <1>1, HandUpdates DEF HandEnds, HandCrashes
<1>5. \A y \in DOMAIN execution : \A n \in DOMAIN execution[y].jobs :
        ~(y = hand[s].exec /\ n = hand[s].action) => execution'[y].jobs[n] = execution[y].jobs[n]
  <2>1. CASE execution' = execution
    BY <2>1
  <2>2. CASE execution' # execution
    <3>1. JobOf(s) \in Job
      BY <1>1, <1>3, JobsTyped DEF JobOf, Running
    <3>2. Completed(JobOf(s)) \in Job /\ Failed(JobOf(s), ActionAttempts) \in Job
      BY <3>1, JobOperationsTyped, AutomationAssumption
    <3>3. PICK to \in Job : SetJob(hand[s].exec, hand[s].action, to)
      BY <2>2, <3>2 DEF HandEnds, HandCrashes
    <3> QED BY <1>1, <1>3, <3>3, JobSet DEF Running
  <2> QED BY <2>1, <2>2
<1>6. Entitled(w, i)' = Entitled(w, i)
  BY <1>2, EntitledStay
<1>7. ASSUME NEW y \in Due(w, i)', y \notin Due(w, i) PROVE y = hand[s].exec /\ RunsFor(s, w, i)
  <2>1. y \in Entitled(w, i) /\ JobDue(y, i)' /\ y \in DOMAIN execution /\ i \in DOMAIN execution[y].jobs
    BY <1>6, <1>7 DEF Due, Entitled
  <2>2. ~JobDue(y, i)
    BY <1>7, <2>1 DEF Due
  <2>3. y = hand[s].exec /\ i = hand[s].action
    <3> SUFFICES ASSUME ~(y = hand[s].exec /\ i = hand[s].action) PROVE FALSE
      OBVIOUS
    <3>1. execution'[y].jobs[i] = execution[y].jobs[i]
      BY <1>5, <2>1
    <3>2. \A r \in Slot : Handling(r, y, i)' <=> Handling(r, y, i)
      BY <1>2, <1>4 DEF Handling
    <3> QED BY <1>1, <1>2, <2>1, <2>2, <3>1, <3>2, DueStays
  <2> QED BY <1>3, <2>1, <2>3 DEF RunsFor, Running, Entitled
<1>8. Acting(w, i)' \subseteq Acting(w, i) \ {s}
  <2>1. \A r \in Slot : r # s => (r \in Acting(w, i)' <=> r \in Acting(w, i))
    BY <1>1, <1>2, OthersAct
  <2>2. s \notin Acting(w, i)' /\ Acting(w, i)' \subseteq Slot
    BY <1>4 DEF Acting, RunsFor
  <2> QED BY <2>1, <2>2
<1> QED BY <1>2, <1>3, <1>4, <1>6, <1>7, <1>8

LEMMA CrashIsFair ==
  ASSUME Working, NEW s \in Slot, HandCrashes(s), NEW w \in Workflow, NEW i \in 1..Actions[w]
  PROVE  Fair(w, i, s, hand[s].exec)
<1>1. /\ Entitled(w, i)' = Entitled(w, i) /\ Acting(w, i)' \subseteq Acting(w, i)
      /\ Due(w, i)' \subseteq Due(w, i) \cup {hand[s].exec} /\ UNCHANGED texts
  BY Stops
<1>2. faults' = faults + 1
  BY DEF HandCrashes, RsvpFault
<1> QED BY <1>1, <1>2 DEF Fair

\* The job of a handler that threw is due again only if the workflow is still there.
LEMMA EndIsFair ==
  ASSUME Working, NEW s \in Slot, HandEnds(s), NEW w \in Workflow, NEW i \in 1..Actions[w]
  PROVE  Fair(w, i, s, hand[s].exec)
<1>0. PICK x, m : x = hand[s].exec /\ m = hand[s].action
  OBVIOUS
<1>1. /\ Entitled(w, i)' = Entitled(w, i) /\ Acting(w, i)' \subseteq Acting(w, i) \ {s}
      /\ Due(w, i)' \subseteq Due(w, i) \cup {x}
      /\ \A y \in Due(w, i)' : y \in Due(w, i) \/ RunsFor(s, w, i)
      /\ hand[s].at # "idle" /\ x \in DOMAIN execution /\ m \in DOMAIN execution[x].jobs
      /\ SameJobs /\ UNCHANGED <<version, texts>> /\ hand'[s].at = "idle"
      /\ \A r \in Slot : r # s => hand'[r] = hand[r]
  BY <1>0, Stops DEF Running
<1>2. UNCHANGED faults
  BY DEF HandEnds
<1>3. CASE Due(w, i)' \subseteq Due(w, i)
  BY <1>0, <1>1, <1>2, <1>3 DEF Fair
<1>4. CASE ~(Due(w, i)' \subseteq Due(w, i))
  <2>1. x \in Due(w, i)' /\ x \notin Due(w, i) /\ RunsFor(s, w, i)
    BY <1>1, <1>4
  <2>2. x \in Entitled(w, i) /\ JobDue(x, i)' /\ ~JobDue(x, i) /\ i = m
    BY <1>0, <1>1, <2>1 DEF Due, RunsFor
  <2>3. RunsOK /\ execution \in Seq(Execution) /\ execution[x].jobs[i] \in Job /\ None \notin Slot
    BY <1>1, <2>2, JobsTyped, QueueAssumption DEF Working, RunsOK
  <2>4. execution[x].jobs[i].owner = s
    <3> SUFFICES ASSUME execution[x].jobs[i].owner # s PROVE FALSE
      OBVIOUS
    <3>1. execution' = execution
      BY <1>0, <2>2 DEF HandEnds, JobOf, Running
    <3>2. execution[x].jobs[i].owner \in Slot \cup {None}
      BY <2>3 DEF Job
    <3>3. \A r \in Slot : r # s => (Handling(r, x, i)' <=> Handling(r, x, i))
      BY <1>1 DEF Handling
    <3>4. execution'[x].jobs[i] = execution[x].jobs[i] /\ execution'[x].flow = execution[x].flow
      BY <3>1
    <3> QED BY <1>1, <2>2, <3>2, <3>3, <3>4 DEF JobDue
  <2>5. hand[s].at = "throw"
    <3> SUFFICES ASSUME hand[s].at = "complete" PROVE FALSE
      BY DEF HandEnds
    <3>1. SetJob(x, m, Completed(execution[x].jobs[m]))
      BY <1>0, <2>2, <2>4 DEF HandEnds, JobOf, Running
    <3>2. Completed(execution[x].jobs[m]) \in Job
      BY <2>2, <2>3, JobOperationsTyped
    <3>3. execution'[x].jobs[i] = Completed(execution[x].jobs[m])
      BY <1>1, <2>2, <2>3, <3>1, <3>2, JobSet
    <3>4. execution'[x].jobs[i].st = "completed"
      BY <2>2, <2>3, <3>3 DEF Completed, Job
    <3> QED BY <2>2, <3>4 DEF JobDue
  <2>6. version[Running(s).flow] # 0
    BY <1>0, <1>1, <2>2 DEF JobDue, SameJobs, SameRuns, Running
  <2>7. s \in Acting(w, i)
    BY <2>1, <2>5, <2>6 DEF Acting, HandDue
  <2> QED BY <1>0, <1>1, <1>2, <2>7 DEF Fair
<1> QED BY <1>3, <1>4

\* Steps that leave jobs, handlers and texts alone, and bring no workflow back.
LEMMA AloneIsFair ==
  ASSUME Working, UNCHANGED <<execution, hand, texts>>, faults' \in {faults, faults + 1},
         \A v \in Workflow : version[v] = 0 => version'[v] = 0,
         NEW w \in Workflow, NEW i \in 1..Actions[w]
  PROVE  Fair(w, i, 0, 0)
<1>1. execution \in Seq(Execution) /\ HandsOK
  BY DEF Working, RunsOK
<1>2. \A x \in DOMAIN execution : execution[x].flow \in Workflow
  BY <1>1, JobsTyped DEF Execution
<1>3. Entitled(w, i)' = Entitled(w, i)
  BY DEF Entitled
<1>4. Due(w, i)' \subseteq Due(w, i)
  BY <1>2, <1>3 DEF Due, Entitled, JobDue, Handling
<1>5. Acting(w, i)' \subseteq Acting(w, i)
  BY <1>1, <1>2 DEF Acting, RunsFor, HandDue, Running, HandsOK
<1> QED BY <1>3, <1>4, <1>5 DEF Fair

\* A lock that expires makes the job due: its handler was gone, or it is a fault.
LEMMA UnlockIsFair ==
  ASSUME Working, NEW x \in DOMAIN execution, NEW m \in DOMAIN execution[x].jobs,
         ActionUnlocked(x, m) \/ ActionStalled(x, m), NEW w \in Workflow, NEW i \in 1..Actions[w]
  PROVE  Fair(w, i, 0, x)
<1>1. execution \in Seq(Execution) /\ RunsOK /\ HandsOK /\ None \notin Slot
  BY QueueAssumption DEF Working, RunsOK
<1>2. /\ SameJobs /\ UNCHANGED <<firing, version, hand, texts>>
      /\ faults' \in {faults, faults + 1}
  BY <1>1, QueueSets
<1>3. Entitled(w, i)' = Entitled(w, i)
  BY <1>2, EntitledStay
<1>4. Acting(w, i)' \subseteq Acting(w, i)
  <2>1. \A r \in Slot : r \in Acting(w, i)' <=> r \in Acting(w, i)
    <3>1. \A y \in DOMAIN execution : execution'[y].flow = execution[y].flow
      BY <1>2 DEF SameJobs, SameRuns
    <3> QED BY <1>1, <1>2, <3>1 DEF Acting, RunsFor, HandDue, Running, HandsOK
  <2>2. Acting(w, i)' \subseteq Slot
    BY DEF Acting
  <2> QED BY <2>1, <2>2
<1> DEFINE j == execution[x].jobs[m]
<1>5. j \in Job
  BY <1>1, JobsTyped
<1>6. PICK to \in Job : /\ SetJob(x, m, to)
                        /\ \/ ActionUnlocked(x, m) /\ to = Unlocked(j)
                           \/ Stalled(j) /\ to = Recovered(j)
                           \/ to = Buried(j)
  <2>1. 0 \in Nat
    OBVIOUS
  <2> QED BY <1>5, <2>1, JobOperationsTyped DEF ActionUnlocked, ActionStalled
<1>7. \A y \in DOMAIN execution : \A n \in DOMAIN execution[y].jobs :
        execution'[y].jobs[n] = IF y = x /\ n = m THEN to ELSE execution[y].jobs[n]
  BY <1>1, <1>6, JobSet
<1>8. ASSUME NEW y \in Due(w, i)', y \notin Due(w, i) PROVE y = x /\ faults' = faults + 1
  <2>1. y \in Entitled(w, i) /\ JobDue(y, i)' /\ y \in DOMAIN execution /\ i \in DOMAIN execution[y].jobs
    BY <1>3, <1>8 DEF Due, Entitled
  <2>2. ~JobDue(y, i)
    BY <1>8, <2>1 DEF Due
  <2>3. \A r \in Slot : Handling(r, y, i)' <=> Handling(r, y, i)
    BY <1>2 DEF Handling
  <2>4. y = x /\ i = m
    <3> SUFFICES ASSUME ~(y = x /\ i = m) PROVE FALSE
      OBVIOUS
    <3>1. execution'[y].jobs[i] = execution[y].jobs[i]
      BY <1>7, <2>1
    <3> QED BY <1>1, <1>2, <2>1, <2>2, <2>3, <3>1, DueStays
  <2>5. execution'[x].jobs[m] = to /\ execution'[x].flow = execution[x].flow
    BY <1>2, <1>7 DEF SameJobs, SameRuns
  <2>6. version[execution[x].flow] # 0 /\ to.st \in {"waiting", "active"} /\ ~JobDue(x, m)
    BY <1>2, <2>1, <2>2, <2>4, <2>5 DEF JobDue
  <2>7. ~(j.st = "waiting") /\ ~Stalled(j) /\ (j.st = "active" => Handling(j.owner, x, m))
    BY <2>6 DEF JobDue, Stalled
  <2>8. to = Unlocked(j) /\ ActionUnlocked(x, m)
    <3>1. to # Buried(j)
      BY <1>5, <2>6 DEF Buried, Job
    <3> QED BY <1>6, <2>7, <3>1
  <2>9. to.st = j.st
    BY <1>5, <2>8 DEF Unlocked, Job
  <2>10. Handling(j.owner, x, m)
    BY <2>6, <2>7, <2>9
  <2> QED BY <2>4, <2>8, <2>10 DEF ActionUnlocked, RsvpFault
<1>9. CASE Due(w, i)' \subseteq Due(w, i)
  BY <1>2, <1>3, <1>4, <1>9 DEF Fair
<1>10. CASE ~(Due(w, i)' \subseteq Due(w, i))
  <2>1. Due(w, i)' \subseteq Due(w, i) \cup {x} /\ faults' = faults + 1
    BY <1>8, <1>10
  <2> QED BY <1>2, <1>3, <1>4, <2>1 DEF Fair
<1> QED BY <1>9, <1>10

\* A new execution has no job yet.
LEMMA CreateIsFair ==
  ASSUME Working, NEW k \in DOMAIN firing, CreateExecution(k),
         NEW w \in Workflow, NEW i \in 1..Actions[w]
  PROVE  Fair(w, i, 0, 0)
<1>1. execution \in Seq(Execution) /\ HandsOK /\ CallsOK /\ RunsOK /\ version \in [Workflow -> Nat]
  BY DEF Working, RunsOK, TextsOK
<1>2. /\ \A x \in DOMAIN execution : x \in DOMAIN execution' /\ execution'[x] = execution[x]
      /\ \A x \in DOMAIN execution' : x \in DOMAIN execution \/ DOMAIN execution'[x].jobs = {}
  BY <1>1, RunCreated
<1>3. UNCHANGED <<version, hand, texts, faults>>
  BY DEF CreateExecution, tableVars
<1>4. Entitled(w, i)' = Entitled(w, i)
  BY <1>2 DEF Entitled
<1>5. Due(w, i)' \subseteq Due(w, i)
  BY <1>2, <1>3, <1>4 DEF Due, Entitled, JobDue, Handling
<1>6. Acting(w, i)' \subseteq Acting(w, i)
  BY <1>1, <1>2, <1>3 DEF Acting, RunsFor, HandDue, Running, HandsOK
<1> QED BY <1>3, <1>4, <1>5, <1>6 DEF Fair

\* A new job entitles its execution to one message.
LEMMA AddIsFair ==
  ASSUME Working, NEW k \in DOMAIN firing, AddAction(k),
         NEW w \in Workflow, NEW i \in 1..Actions[w]
  PROVE  \E x : Fair(w, i, 0, x)
<1>1. execution \in Seq(Execution) /\ HandsOK /\ RunsOK
  BY DEF Working, RunsOK
<1>2. PICK x : execution' = [execution EXCEPT ![x].jobs = Append(@, Added(NoJob))]
  BY DEF AddAction
<1>3. /\ SameRuns
      /\ \A y \in DOMAIN execution :
           /\ y # x => execution'[y] = execution[y]
           /\ y = x => /\ DOMAIN execution'[y].jobs = DOMAIN execution[y].jobs \cup {Len(execution[y].jobs) + 1}
                       /\ Len(execution[y].jobs) + 1 \notin DOMAIN execution[y].jobs
           /\ \A m \in DOMAIN execution[y].jobs : execution'[y].jobs[m] = execution[y].jobs[m]
  BY <1>1, <1>2, JobAdded
<1>4. UNCHANGED <<version, hand, texts, faults>>
  BY DEF AddAction, tableVars
<1>5. Entitled(w, i) \subseteq Entitled(w, i)' /\ Entitled(w, i)' \subseteq Entitled(w, i) \cup {x}
  BY <1>3 DEF Entitled, SameRuns
<1>6. Due(w, i)' \subseteq Due(w, i) \cup {x}
      /\ (Entitled(w, i)' = Entitled(w, i) => Due(w, i)' \subseteq Due(w, i))
  <2>1. ASSUME NEW y \in Due(w, i)', y \in Entitled(w, i) PROVE y \in Due(w, i)
    <3>1. y \in DOMAIN execution /\ i \in DOMAIN execution[y].jobs /\ JobDue(y, i)'
      BY <2>1 DEF Due, Entitled
    <3>2. execution'[y].jobs[i] = execution[y].jobs[i] /\ execution'[y].flow = execution[y].flow
      BY <1>3, <3>1 DEF SameRuns
    <3>3. JobDue(y, i)
      BY <1>4, <3>1, <3>2 DEF JobDue, Handling
    <3> QED BY <2>1, <3>3 DEF Due
  <2>2. Due(w, i)' \subseteq Entitled(w, i)'
    BY DEF Due
  <2> QED BY <1>5, <2>1, <2>2
<1>7. Acting(w, i)' \subseteq Acting(w, i)
  <2>1. \A y \in DOMAIN execution : execution'[y].flow = execution[y].flow
    BY <1>3 DEF SameRuns
  <2> QED BY <1>1, <1>4, <2>1 DEF Acting, RunsFor, HandDue, Running, HandsOK
<1>8. CASE Entitled(w, i)' = Entitled(w, i)
  BY <1>4, <1>6, <1>7, <1>8 DEF Fair
<1>9. CASE Entitled(w, i)' # Entitled(w, i)
  <2>1. x \in Entitled(w, i)' /\ x \notin Entitled(w, i)
    BY <1>5, <1>9
  <2> QED BY <1>4, <1>5, <1>6, <1>7, <2>1 DEF Fair
<1> QED BY <1>8, <1>9

LEMMA HandIsFair ==
  ASSUME Working, NEW s \in Slot, HandStep(s), NEW w \in Workflow, NEW i \in 1..Actions[w]
  PROVE  \E x : Fair(w, i, s, x)
<1>1. ASSUME NEW x \in DOMAIN execution, NEW m \in DOMAIN execution[x].jobs, TakeAction(s, x, m)
      PROVE  \E y : Fair(w, i, s, y)
  BY <1>1, TakeIsFair
<1>2. CASE LoadAction(s) \/ CheckCondition(s) \/ ReadContact(s) \/ CountAction(s)
           \/ MarkComplete(s) \/ NoteFailure(s)
  BY <1>2, QuietSteps
<1>3. ASSUME NEW taken \in BOOLEAN, SendText(s, taken) PROVE \E y : Fair(w, i, s, y)
  BY <1>3, SendIsFair
<1>4. CASE ActionError(s)
  BY <1>4, ErrorIsFair
<1>5. CASE HandEnds(s)
  BY <1>5, EndIsFair
<1>6. CASE HandCrashes(s)
  BY <1>6, CrashIsFair
<1> QED BY <1>1, <1>2, <1>3, <1>4, <1>5, <1>6 DEF HandStep

LEMMA AutomationIsFair ==
  ASSUME Working, AutomationStep
  PROVE  Working' /\ \A w \in Workflow : \A i \in 1..Actions[w] : \E s, x : Fair(w, i, s, x)
<1>1. ASSUME NEW k \in DOMAIN firing, FiringStep(k), NEW w \in Workflow, NEW i \in 1..Actions[w]
      PROVE  \E s, x : Fair(w, i, s, x)
  <2>1. CASE CreateExecution(k)
    BY <2>1, CreateIsFair
  <2>2. CASE AddAction(k)
    BY <2>2, AddIsFair
  <2>3. CASE ~CreateExecution(k) /\ ~AddAction(k)
    <3>1. UNCHANGED <<version, execution, hand, texts>> /\ faults' \in {faults, faults + 1}
      BY <1>1, <2>3 DEF FiringStep, FindWorkflows, Track, ExpireLoop, AllTracked, FiringFails,
         tableVars, RsvpFault
    <3> QED BY <3>1, AloneIsFair
  <2> QED BY <2>1, <2>2, <2>3
<1>2. ASSUME NEW key \in expiring, HourPasses(key)
      PROVE  Working' /\ \A w \in Workflow : \A i \in 1..Actions[w] : \E s, x : Fair(w, i, s, x)
  <2>1. UNCHANGED <<version, firing, execution, hand, texts, faults>>
    BY <1>2 DEF HourPasses, tableVars
  <2>2. CallsOK /\ RunsOK /\ HandsOK /\ TextsOK /\ execution \in Seq(Execution) /\ SameRuns
    BY <2>1 DEF Working, RunsOK, SameRuns
  <2>3. CallsOK' /\ RunsOK'
    BY <2>1, <2>2, CallsStay, RunsKept
  <2>4. HandsOK' /\ TextsOK'
    BY <2>1, <2>2, HandsStay DEF TextsOK
  <2> QED BY <2>1, <2>3, <2>4, AloneIsFair DEF Working
<1>3. ASSUME NEW v \in Workflow, ReplaceActions(v) \/ RemoveWorkflow(v) \/ ToggleActive(v)
      PROVE  Working' /\ \A w \in Workflow : \A i \in 1..Actions[w] : \E s, x : Fair(w, i, s, x)
  BY <1>3, Edited, AloneIsFair
<1>4. ASSUME NEW x \in DOMAIN execution, NEW m \in DOMAIN execution[x].jobs,
             ActionUnlocked(x, m) \/ ActionStalled(x, m)
      PROVE  Working' /\ \A w \in Workflow : \A i \in 1..Actions[w] : \E s, y : Fair(w, i, s, y)
  BY <1>4, QueueKeeps, UnlockIsFair
<1>5. ASSUME NEW s \in Slot, HandStep(s)
      PROVE  Working' /\ \A w \in Workflow : \A i \in 1..Actions[w] : \E r, x : Fair(w, i, r, x)
  BY <1>5, HandKeeps, HandIsFair
<1> QED BY <1>1, <1>2, <1>3, <1>4, <1>5, FiringKeeps DEF AutomationStep

-----------------------------------------------------------------------------
(* The theorem. *)

LEMMA CountedInit == RsvpInit /\ AutomationInit => Working /\ Counted
<1> SUFFICES ASSUME RsvpInit, AutomationInit PROVE Working /\ Counted
  OBVIOUS
<1>1. execution = << >> /\ firing = << >> /\ DOMAIN execution = {} /\ DOMAIN firing = {}
  BY DEF AutomationInit, NothingRun
<1>2. CallsOK
  <2>1. {k[1] : k \in DOMAIN firing} = 1..0 /\ IsFiniteSet(DOMAIN firing)
    BY <1>1, FS_EmptySet
  <2>2. firing \in [DOMAIN firing -> Call]
    BY <1>1
  <2> QED BY <1>1, <2>1, <2>2 DEF CallsOK
<1>3. RunsOK
  BY <1>1 DEF RunsOK
<1>4. HandsOK /\ \A s \in Slot : hand[s].at = "idle"
  BY DEF AutomationInit, NothingRun, HandsOK, FreeHand, Hand, HandLabel
<1>5. TextsOK /\ faults = 0
  BY AutomationAssumption DEF RsvpInit, AutomationInit, NothingRun, TextsOK
<1>6. ASSUME NEW w \in Workflow, NEW i \in 1..Actions[w]
      PROVE  texts[w][i] = 0 /\ Due(w, i) = {} /\ Acting(w, i) = {} /\ Entitled(w, i) = {}
  <2>1. texts[w][i] = 0
    BY DEF AutomationInit, NothingRun
  <2> QED BY <1>1, <1>4, <2>1 DEF Due, Acting, RunsFor, Entitled
<1>7. Counted
  <2>1. Cardinality({}) = 0
    BY FS_EmptySet
  <2> QED BY <1>5, <1>6, <2>1 DEF Counted
<1> QED BY <1>2, <1>3, <1>4, <1>5, <1>7 DEF Working

\* An answer, and whatever else is not a step of a workflow, costs at most a fault.
LEMMA TriggeringIsCounted ==
  ASSUME Working, Counted, Triggering, faults' \in {faults, faults + 1}
  PROVE  Working' /\ Counted'
<1>1. UNCHANGED <<version, execution, hand, texts>>
  BY AnswersFire
<1>2. \A w \in Workflow : \A i \in 1..Actions[w] : Fair(w, i, 0, 0)
  BY <1>1, AloneIsFair
<1>3. Working'
  BY TriggeringKeeps
<1> QED BY <1>2, <1>3, FairIsCounted

LEMMA CountedStays ==
  ASSUME Working, Counted, UNCHANGED <<automationVars, faults>>
  PROVE  Working' /\ Counted'
<1>1. UNCHANGED <<version, firing, execution, hand, texts, faults>>
  BY DEF automationVars, tableVars
<1>2. CallsOK /\ RunsOK /\ HandsOK /\ TextsOK /\ execution \in Seq(Execution) /\ SameRuns
  BY <1>1 DEF Working, RunsOK, SameRuns
<1>3. CallsOK' /\ RunsOK'
  BY <1>1, <1>2, CallsStay, RunsKept
<1>4. HandsOK' /\ TextsOK'
  BY <1>1, <1>2, HandsStay DEF TextsOK
<1>5. \A w \in Workflow : \A i \in 1..Actions[w] : Fair(w, i, 0, 0)
  BY <1>1, AloneIsFair
<1> QED BY <1>3, <1>4, <1>5, FairIsCounted DEF Working

LEMMA CountedStep ==
  Working /\ Counted /\ [AutomationNext]_<<rsvpVars, automationVars>> => Working' /\ Counted'
<1> SUFFICES ASSUME Working, Counted, [AutomationNext]_<<rsvpVars, automationVars>>
             PROVE  Working' /\ Counted'
  OBVIOUS
<1>1. CASE AutomationStep
  BY <1>1, AutomationIsFair, FairIsCounted
<1>2. CASE RsvpNext /\ Triggering
  <2>1. faults' \in {faults, faults + 1}
    BY <1>2, RsvpFaultsGrow DEF RsvpNext, ReplyArrives
  <2> QED BY <1>2, <2>1, TriggeringIsCounted
<1>3. CASE UNCHANGED <<rsvpVars, automationVars>>
  BY <1>3, CountedStays DEF rsvpVars
<1> QED BY <1>1, <1>2, <1>3 DEF AutomationNext

\* Each call made at most one execution of a workflow, and only of one that listens
\* to its trigger.
LEMMA RunsAreCalled ==
  ASSUME Working, NEW w \in Workflow, NEW i
  PROVE  Cardinality(Entitled(w, i)) <= Cardinality({k \in DOMAIN firing : k[2] = ListensTo[w]})
         /\ Cardinality({k \in DOMAIN firing : k[2] = ListensTo[w]}) \in Nat
<1> DEFINE E == Entitled(w, i)
           K == {k \in DOMAIN firing : k[2] = ListensTo[w]}
           f == [x \in E |-> execution[x].by]
<1>1. IsFiniteSet(K)
  BY FS_Subset DEF Working, CallsOK
<1>2. \A x \in DOMAIN execution : execution[x].by \in DOMAIN firing
  BY JobsTyped DEF Working, RunsOK, Execution
<1>3. f \in [E -> K]
  BY <1>2 DEF Working, RunsOK, Entitled
<1>4. \A x, y \in E : f[x] = f[y] => x = y
  BY DEF Working, RunsOK, Entitled
<1>5. f \in Injection(E, K)
  BY <1>3, <1>4 DEF Injection, IsInjective
<1> HIDE DEF E, K, f
<1>6. Cardinality(E) <= Cardinality(K)
  BY <1>1, <1>5, FS_Injection
<1> QED BY <1>1, <1>6, FS_CardinalityType DEF E, K

LEMMA CountedSuffices == Working /\ Counted => FollowUpsPaidFor
<1> SUFFICES ASSUME Working, Counted, NEW w \in Workflow, NEW i \in 1..Actions[w]
             PROVE  texts[w][i] <= Cardinality({k \in DOMAIN firing : k[2] = ListensTo[w]}) + faults
  BY DEF FollowUpsPaidFor
<1> DEFINE n == texts[w][i]
           d == Cardinality(Due(w, i))
           a == Cardinality(Acting(w, i))
           e == Cardinality(Entitled(w, i))
           c == Cardinality({k \in DOMAIN firing : k[2] = ListensTo[w]})
<1>1. n + d + a <= e + faults
  BY DEF Counted
<1>2. n \in Nat /\ faults \in Nat
  BY DEF Working, TextsOK
<1>3. d \in Nat /\ a \in Nat /\ e \in Nat
  BY SizesTyped DEF Working, RunsOK
<1>4. e <= c /\ c \in Nat
  BY RunsAreCalled
<1> HIDE DEF n, d, a, e, c
<1>5. n <= c + faults
  BY <1>1, <1>2, <1>3, <1>4
<1> QED BY <1>5 DEF n, c

\* Whatever is retried, edited, removed or run at the same time, and however often
\* handlers die, a workflow's action reaches the guest no more often than the
\* answers it listens to were given, and once more for each fault
\* (fireTrigger, processJob, executeAction).
THEOREM FollowUpsArePaidFor == AutomationSpec => []FollowUpsPaidFor
BY CountedSuffices, CountedInit, CountedStep, PTL DEF AutomationSpec

-----------------------------------------------------------------------------
(* The conversation as a whole. A step of a workflow is none of the rest's,   *)
(* but a fault in it comes out of the same budget.                            *)

Mishap ==
  /\ UNCHANGED <<queueVars, desk, guestVars, doorVars, clerk, flowVars, tellVars,
                 reschedulingVars, inboundVars>>
  /\ RsvpFault \/ UNCHANGED <<coming, faults>>

LEMMA WorkflowsAreApart ==
  ASSUME AutomationStep
  PROVE  RsvpFault \/ UNCHANGED <<coming, faults>>
<1>1. ASSUME NEW k \in DOMAIN firing, FiringStep(k)
      PROVE  RsvpFault \/ UNCHANGED <<coming, faults>>
  BY <1>1 DEF FiringStep, FindWorkflows, Track, ExpireLoop, CreateExecution, AddAction, AllTracked,
    FiringFails
<1>2. ASSUME NEW s \in Slot, HandStep(s)
      PROVE  RsvpFault \/ UNCHANGED <<coming, faults>>
  BY <1>2 DEF HandStep, TakeAction, LoadAction, CheckCondition, ReadContact, SendText, CountAction,
    MarkComplete, ActionError, NoteFailure, HandEnds, HandCrashes
<1>3. ASSUME NEW x \in DOMAIN execution, NEW i \in DOMAIN execution[x].jobs,
             ActionUnlocked(x, i) \/ ActionStalled(x, i)
      PROVE  RsvpFault \/ UNCHANGED <<coming, faults>>
  BY <1>3 DEF ActionUnlocked, ActionStalled
<1>4. ASSUME NEW key \in expiring, HourPasses(key) PROVE UNCHANGED <<coming, faults>>
  BY <1>4 DEF HourPasses
<1>5. ASSUME NEW w \in Workflow, ReplaceActions(w) \/ RemoveWorkflow(w) \/ ToggleActive(w)
      PROVE  UNCHANGED <<coming, faults>>
  BY <1>5 DEF ReplaceActions, RemoveWorkflow, ToggleActive
<1> QED BY <1>1, <1>2, <1>3, <1>4, <1>5 DEF AutomationStep

\* A step of the composition is one of InboundReplies, or leaves it alone.
LEMMA ConversationMoves ==
  ASSUME [ConversationNext]_conversationVars
  PROVE  [InboundNext]_allVars \/ Mishap
BY WorkflowsAreApart DEF ConversationNext, conversationVars, Mishap

\* What the webhook handlers, the door and the customer's errands keep does not look at
\* the faults, or allows more when there are more.
LEMMA HooksElsewhere ==
  ASSUME HooksTyped, Mishap
  PROVE  /\ HooksTyped' /\ (TwilioOnce => TwilioOnce') /\ (TermiiCounted => TermiiCounted')
         /\ (PostTyped => PostTyped') /\ UNCHANGED Twilio!contractVars
<1>1. UNCHANGED <<inbox, hook, received, handled, repeated, acked, feedback, deliveries>>
      /\ faults \in Nat /\ faults' \in {faults, faults + 1}
  BY DEF Mishap, inboundVars, RsvpFault, HooksTyped
<1>2. HooksTyped' /\ (TwilioOnce => TwilioOnce') /\ (PostTyped => PostTyped')
  BY <1>1 DEF HooksTyped, TwilioOnce, IsTwilio, PostTyped
<1>3. TermiiCounted => TermiiCounted'
  <2> SUFFICES ASSUME TermiiCounted, NEW m \in Msg, inbox[m].via = "termii"
               PROVE  (handled[m] + Cardinality(Fresh(m)) <= repeated[m] + faults + Surplus(m))'
    BY <1>1 DEF TermiiCounted
  <2>1. Fresh(m)' = Fresh(m) /\ Surplus(m)' = Surplus(m)
    BY <1>1 DEF Fresh, Surplus
  <2>2. handled[m] \in Nat /\ repeated[m] \in Nat /\ Surplus(m) \in Nat /\ Cardinality(Fresh(m)) \in Nat
    BY FreshIsFinite DEF HooksTyped, Surplus
  <2>3. handled[m] + Cardinality(Fresh(m)) <= repeated[m] + faults + Surplus(m)
    BY DEF TermiiCounted
  <2> QED BY <1>1, <2>1, <2>2, <2>3
<1>4. UNCHANGED Twilio!contractVars
  BY <1>1 DEF Twilio!contractVars
<1> QED BY <1>2, <1>3, <1>4

\* What the handlers of RSVP and workflow jobs have paid for is paid for still.
LEMMA DesksElsewhere ==
  ASSUME DesksTyped, Mishap
  PROVE  /\ DesksTyped' /\ (CouponsCounted => CouponsCounted')
         /\ (LocationsCounted => LocationsCounted') /\ (DoorKept => DoorKept')
         /\ (ShiftsTyped => ShiftsTyped') /\ (GuestsTyped => GuestsTyped')
         /\ (AnswersCounted => AnswersCounted') /\ (GuestsTyped /\ Attended => Attended')
<1>1. /\ UNCHANGED <<work, data, desk, status, last, now, over, optedOut, arrived, scan, thanks,
                     clerk, coupon, located, noticed, coupons, answers, mixed>>
      /\ faults \in Nat /\ (RsvpFault \/ UNCHANGED <<coming, faults>>)
      /\ faults' \in {faults, faults + 1}
  BY DEF Mishap, queueVars, guestVars, doorVars, flowVars, tellVars, RsvpFault, DesksTyped
<1>2. DesksTyped' /\ (ShiftsTyped => ShiftsTyped') /\ (DoorKept => DoorKept')
  BY <1>1 DEF DesksTyped, ShiftsTyped, DoorKept, OneArrival
<1>3. ASSUME NEW l, NEW e PROVE At(l, e)' = At(l, e) /\ Cardinality(At(l, e)) \in Nat
  <2>1. At(l, e) \in SUBSET Slot
    BY DEF At
  <2> QED BY <1>1, <2>1, Counting DEF At, Data
<1>4. ASSUME CouponsCounted, NEW e \in Event
      PROVE  PaidFor(coupons[e], faults, At("send", e), At("mark", e), e, coupon)'
  <2>1. PaidFor(coupons[e], faults, At("send", e), At("mark", e), e, coupon)
    BY <1>4 DEF CouponsCounted
  <2>2. coupons[e] \in Nat
    BY DEF DesksTyped
  <2> QED BY <1>1, <1>3, <2>1, <2>2, Counting DEF PaidFor
<1>5. ASSUME LocationsCounted, NEW e \in Event
      PROVE  PaidFor(located[e], faults, At("row", e), At("queue", e), e, noticed)'
  <2>1. PaidFor(located[e], faults, At("row", e), At("queue", e), e, noticed)
    BY <1>5 DEF LocationsCounted
  <2>2. located[e] \in Nat
    BY DEF DesksTyped
  <2> QED BY <1>1, <1>3, <2>1, <2>2, Counting DEF PaidFor
<1>6. ASSUME AnswersCounted PROVE AnswersCounted'
  <2>1. ASSUME NEW j \in RsvpJob PROVE Answerable(answers[j], Writers(j), MayRun(j), faults)'
    <3>1. Writers(j)' = Writers(j) /\ MayRun(j)' = MayRun(j)
      BY <1>1 DEF Writers, MayRun
    <3>2. Writers(j) \in SUBSET Slot /\ answers[j] \in SUBSET Event
      BY <1>6 DEF Writers, AnswersCounted
    <3>3. Cardinality(Writers(j)) \in Nat /\ Cardinality(answers[j]) \in Nat
      BY <3>2, Counting, CountingEvents
    <3>4. Answerable(answers[j], Writers(j), MayRun(j), faults)
      BY <1>6 DEF AnswersCounted
    <3> QED BY <1>1, <3>1, <3>3, <3>4 DEF Answerable
  <2> QED BY <1>1, <1>6, <2>1 DEF AnswersCounted
<1>7. ASSUME GuestsTyped PROVE GuestsTyped'
  <2>1. coming' \in [Outside -> Nat]
    BY <1>1, <1>7, FaultComes DEF GuestsTyped
  <2> QED BY <1>1, <1>7, <2>1 DEF GuestsTyped
<1>8. ASSUME Attended, Undisturbed' PROVE Attended'
  <2>1. Undisturbed
    BY <1>1, <1>8 DEF Undisturbed
  <2> QED BY <1>1, <1>8, <2>1 DEF Attended, Alone, Past, Written, Data, Noticed, Flowed, Confirmed
<1>9. Attended => Attended'
  BY <1>8 DEF Attended
<1> QED BY <1>1, <1>2, <1>3, <1>4, <1>5, <1>6, <1>7, <1>9 DEF CouponsCounted, LocationsCounted

\* The customer's errands and a STOP under way do not see it either.
LEMMA ErrandsElsewhere ==
  ASSUME HooksTyped, Mishap
  PROVE  /\ (ErrandsTyped => ErrandsTyped') /\ (Tidy => Tidy')
         /\ (Paired => Paired') /\ (Heard => Heard')
<1>1. UNCHANGED <<appt, reminders, sessions, issued, lapsed, busy, hour, errand, diary, blurred>>
  BY DEF Mishap, reschedulingVars
<1>2. /\ UNCHANGED <<inbox, hook, received, acked, optedOut, mixed>>
      /\ faults \in Nat /\ faults' \in {faults, faults + 1}
  BY DEF Mishap, inboundVars, guestVars, tellVars, RsvpFault, HooksTyped
<1>3. ErrandsTyped => ErrandsTyped'
  BY <1>1 DEF ErrandsTyped, ReschedulingTypeOK, Instructed
<1>4. Tidy => Tidy'
  BY <1>1 DEF Tidy, Idle, Reminded, Neat, Owes, Pending
<1>5. Paired => Paired'
  BY <1>1, <1>2 DEF Paired, Idle
<1>6. ASSUME Heard, Calmly' PROVE Heard'
  <2>1. Calmly
    BY <1>1, <1>2, <1>6 DEF Calmly
  <2> QED BY <1>1, <1>2, <1>6, <2>1 DEF Heard, Said, Serving, StopErrand
<1>7. Heard => Heard'
  BY <1>6 DEF Heard
<1> QED BY <1>3, <1>4, <1>5, <1>7

\* A step of the replies costs at most a fault, which the workflows feel as well.
LEMMA InboundFaults ==
  ASSUME InboundNext
  PROVE  faults' \in {faults, faults + 1}
<1>1. ASSUME NEW h \in Hook, HookStepOf(h) PROVE faults' \in {faults, faults + 1}
  BY <1>1 DEF HookStepOf, Deliver, CheckDuplicate, LogInbound, LogLost, Route, AskFeedback, Rate,
    AskInvitation, QueueReply, AskSession, NoSession, ErrandOver, MarkContact, HookFails, RsvpFault,
    rsvpVars
<1>2. CASE RsvpStepOnly
  BY <1>2, RsvpFaultsGrow
<1>3. CASE UNCHANGED rsvpVars
  BY <1>3 DEF rsvpVars
<1> QED BY <1>1, <1>2, <1>3 DEF InboundNext

LEMMA FollowUpsStep ==
  Working /\ Counted /\ [ConversationNext]_conversationVars => Working' /\ Counted'
<1> SUFFICES ASSUME Working, Counted, [ConversationNext]_conversationVars
             PROVE  Working' /\ Counted'
  OBVIOUS
<1>1. CASE AutomationStep
  BY <1>1, AutomationIsFair, FairIsCounted
<1>2. CASE InboundNext /\ Triggering
  BY <1>2, InboundFaults, TriggeringIsCounted
<1>3. CASE UNCHANGED conversationVars
  BY <1>3, CountedStays DEF conversationVars, allVars, rsvpVars
<1> QED BY <1>1, <1>2, <1>3 DEF ConversationNext

\* What every webhook handler, row and errand is, in every state of the composition.
ConversationTyped ==
  /\ HooksTyped /\ PostTyped /\ DesksTyped /\ ShiftsTyped /\ DoorKept /\ GuestsTyped
  /\ AnswersCounted /\ ErrandsTyped

LEMMA TypedInit == ConversationInit => ConversationTyped
BY HooksInit, PostInit, ShiftsInit, GuestsInit, ErrandsInit DEF ConversationInit, ConversationTyped

LEMMA TypedStep == ConversationTyped /\ [ConversationNext]_conversationVars => ConversationTyped'
<1> SUFFICES ASSUME ConversationTyped, [ConversationNext]_conversationVars PROVE ConversationTyped'
  OBVIOUS
<1>1. CASE [InboundNext]_allVars
  <2>1. HooksTyped' /\ PostTyped' /\ ErrandsTyped'
    BY <1>1, HooksStep, PostStep, ErrandsStep DEF ConversationTyped
  <2>2. DesksTyped' /\ ShiftsTyped' /\ DoorKept' /\ AnswersCounted'
    BY <1>1, DeskMoves, ShiftsStep, DoorStep, AnswersStep DEF ConversationTyped
  <2>3. GuestsTyped'
    BY <1>1, GuestsStep DEF ConversationTyped
  <2> QED BY <2>1, <2>2, <2>3 DEF ConversationTyped
<1>2. CASE Mishap
  BY <1>2, HooksElsewhere, DesksElsewhere, ErrandsElsewhere DEF ConversationTyped
<1> QED BY <1>1, <1>2, ConversationMoves

LEMMA TypedAlways == ConversationSpec => []ConversationTyped
BY TypedInit, TypedStep, PTL DEF ConversationSpec

\* What the handlers have counted, and what an errand and a STOP leave behind.
ConversationCounted ==
  /\ TwilioOnce /\ TermiiCounted /\ CouponsCounted /\ LocationsCounted /\ Attended
  /\ Tidy /\ Paired /\ Heard

LEMMA PromisesInit == ConversationInit => ConversationCounted
BY TwilioInit, TermiiInit, CountsInit, GuestsInit, ErrandsInit, HeardInit
   DEF ConversationInit, ConversationCounted

LEMMA PromisesStep ==
  ConversationTyped /\ ConversationCounted /\ [ConversationNext]_conversationVars
  => ConversationCounted'
<1> SUFFICES ASSUME ConversationTyped, ConversationCounted, [ConversationNext]_conversationVars
             PROVE  ConversationCounted'
  OBVIOUS
<1> USE DEF ConversationTyped, ConversationCounted
<1>1. CASE [InboundNext]_allVars
  <2>1. TwilioOnce' /\ TermiiCounted'
    BY <1>1, TwilioStep, TermiiStep
  <2>2. CouponsCounted' /\ LocationsCounted' /\ Attended'
    BY <1>1, CouponsStep, LocationsStep, AttendedStep
  <2>3. Tidy' /\ Paired' /\ Heard'
    BY <1>1, TidyStep, PairedStep, HeardStep
  <2> QED BY <2>1, <2>2, <2>3
<1>2. CASE Mishap
  BY <1>2, HooksElsewhere, DesksElsewhere, ErrandsElsewhere
<1> QED BY <1>1, <1>2, ConversationMoves

LEMMA PromisesAlways == ConversationSpec => [](ConversationTyped /\ ConversationCounted)
BY TypedAlways, PromisesInit, PromisesStep, PTL DEF ConversationSpec

\* With workflows at work on the answers, every variable of the webhooks, the guests
\* and the appointments keeps its type.
THEOREM ConversationTypes == ConversationSpec => []InboundTypeOK
<1>1. ConversationTyped => InboundTypeOK
  BY TypesSuffice DEF ConversationTyped
<1> QED BY <1>1, TypedAlways, PTL

\* Twilio's messages are still noted before they are acted on, and acted on once: no
\* step of a workflow is seen by the contract.
THEOREM ConversationKeepsContract == ConversationSpec => TwilioContract
<1>1. ConversationInit => Twilio!Init
  BY TwilioBegins DEF ConversationInit
<1>2. ConversationTyped /\ ConversationCounted /\ [ConversationNext]_conversationVars
      => [Twilio!Next]_(Twilio!contractVars)
  BY ConversationMoves, TwilioMoves, HooksElsewhere DEF ConversationTyped, ConversationCounted
<1> QED BY <1>1, <1>2, PromisesAlways, PTL DEF TwilioContract, Twilio!Spec, ConversationSpec

\* And a message of Termii is handled once, and once more only for a delivery that
\* began while another was being handled, or for a fault.
THEOREM ConversationHandlesTermii == ConversationSpec => []TermiiHandled
<1>1. ConversationTyped /\ ConversationCounted => TermiiHandled
  BY TermiiSuffices DEF ConversationTyped, ConversationCounted
<1> QED BY <1>1, PromisesAlways, PTL

\* What a guest is sent for an answer or at the door stays within the handlers and
\* the faults, a workflow's included: a coupon and a location reminder for each
\* event, one thanks for an arrival, one event for a reply; and a confirmation
\* handled on its own gets its own workflow.
THEOREM ConversationServesGuests ==
  ConversationSpec => [](ExtrasPaidFor /\ OneArrival /\ OneAnswerPerReply /\ ConfirmedGetsWorkflow)
<1>1. ConversationTyped /\ ConversationCounted => ExtrasPaidFor
  BY CountsSuffice DEF ConversationTyped, ConversationCounted
<1>2. ConversationTyped => OneArrival /\ OneAnswerPerReply
  BY AnswersSuffice DEF ConversationTyped, DoorKept
<1>3. ConversationCounted => ConfirmedGetsWorkflow
  BY AttendedSuffices DEF ConversationCounted
<1> QED BY <1>1, <1>2, <1>3, PromisesAlways, PTL

\* Whatever workflows run meanwhile, the customer's errands leave no stale reminder,
\* and a STOP is honoured.
THEOREM ConversationKeepsDiary == ConversationSpec => [](RemindersMatch /\ StopHonoured)
<1>1. ConversationCounted => RemindersMatch /\ StopHonoured
  BY TidySuffices, HeardSuffices DEF ConversationCounted
<1> QED BY <1>1, PromisesAlways, PTL

\* And with replies arriving through the webhooks, duplicated or not, a workflow's
\* action still reaches the guest no more often than the answers it listens to were
\* given, and once more for each fault.
THEOREM ConversationPaysFollowUps == ConversationSpec => []FollowUpsPaidFor
<1>1. ConversationInit => Working /\ Counted
  BY CountedInit DEF ConversationInit, InboundInit
<1> QED BY <1>1, CountedSuffices, FollowUpsStep, PTL DEF ConversationSpec
==============================================================================
