--------------------------- MODULE BullQueueProofs ---------------------------
(***************************************************************************)
(* Lemmas about the operations of one BullMQ job, for the proofs of the    *)
(* modules that run jobs.                                                  *)
(***************************************************************************)
EXTENDS BullQueue, TLAPS

\* The operations of the queue keep job records well formed.
LEMMA JobUpdatesTyped ==
  ASSUME NEW x \in Job, NEW s \in JobState, NEW n \in Nat, NEW o \in Slot \cup {None}
  PROVE  /\ [x EXCEPT !.st = s, !.owner = o] \in Job
         /\ [x EXCEPT !.owner = o] \in Job
         /\ [x EXCEPT !.st = s, !.made = n] \in Job
         /\ [x EXCEPT !.st = s, !.stalls = n] \in Job
         /\ [x EXCEPT !.st = s, !.made = n, !.owner = o] \in Job
BY DEF Job

LEMMA JobOperationsTyped ==
  ASSUME NEW x \in Job, NEW n \in Nat
  PROVE  /\ NoJob \in Job /\ Added(x) \in Job
         /\ \A w \in Slot : Started(x, w) \in Job
         /\ Completed(x) \in Job /\ Failed(x, n) \in Job /\ Buried(x) \in Job
         /\ Unlocked(x) \in Job /\ Recovered(x) \in Job
<1>1. x.made + 1 \in Nat /\ x.stalls + 1 \in Nat
  BY DEF Job
<1>2. NoJob \in Job
  BY DEF Job, JobState, NoJob
<1>3. Added(x) \in Job
  BY <1>2 DEF Added, NoJob, Job, JobState
<1>4. (\A w \in Slot : Started(x, w) \in Job) /\ Completed(x) \in Job /\ Unlocked(x) \in Job
  BY JobUpdatesTyped DEF Started, Completed, Unlocked, JobState
<1>5. Buried(x) \in Job /\ Recovered(x) \in Job
  BY <1>1, JobUpdatesTyped DEF Buried, Recovered, JobState
<1>6. Failed(x, n) \in Job
  <2> DEFINE st == IF Retries(x, n) THEN "waiting" ELSE "failed"
  <2>1. st \in JobState
    BY DEF JobState
  <2> HIDE DEF st
  <2>2. [x EXCEPT !.st = st, !.made = x.made + 1, !.owner = None] \in Job
    BY <1>1, <2>1, JobUpdatesTyped
  <2> QED BY <2>2 DEF Failed, st
<1> QED BY <1>2, <1>3, <1>4, <1>5, <1>6

\* What the queue's operations do to a lock.
Sound(x) == x.owner # None => x.st = "active"

LEMMA LocksOfOperations ==
  ASSUME NEW x \in Job, Sound(x), NEW n \in Nat
  PROVE  /\ Sound(NoJob) /\ NoJob.owner = None
         /\ Sound(Added(x)) /\ Added(x).owner = x.owner
         /\ \A w \in Slot : Sound(Started(x, w)) /\ Started(x, w).owner = w
         /\ Sound(Completed(x)) /\ Completed(x).owner = None
         /\ Sound(Failed(x, n)) /\ Failed(x, n).owner = None
         /\ Sound(Unlocked(x)) /\ Unlocked(x).owner = None
         /\ Stalled(x) => Sound(Recovered(x)) /\ Recovered(x).owner = x.owner
         /\ GivenUp(x) => Sound(Buried(x)) /\ Buried(x).owner = x.owner
<1>1. Sound(NoJob) /\ NoJob.owner = None
  BY DEF Sound, NoJob
<1>2. Sound(Added(x)) /\ Added(x).owner = x.owner
  BY DEF Sound, NoJob, Added, Job
<1>3. \A w \in Slot : Sound(Started(x, w)) /\ Started(x, w).owner = w
  BY DEF Sound, Started, Job
<1>4. Sound(Completed(x)) /\ Completed(x).owner = None
  BY DEF Sound, Completed, Job
<1>5. Sound(Failed(x, n)) /\ Failed(x, n).owner = None
  BY DEF Sound, Failed, Job
<1>6. Sound(Unlocked(x)) /\ Unlocked(x).owner = None
  BY DEF Sound, Unlocked, Job
<1>7. Stalled(x) => Sound(Recovered(x)) /\ Recovered(x).owner = x.owner
  BY DEF Sound, Stalled, Recovered, Job
<1>8. GivenUp(x) => Sound(Buried(x)) /\ Buried(x).owner = x.owner
  BY DEF Sound, GivenUp, Buried, Job
<1> QED BY <1>1, <1>2, <1>3, <1>4, <1>5, <1>6, <1>7, <1>8
==============================================================================
