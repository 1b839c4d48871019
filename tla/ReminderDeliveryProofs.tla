----------------------- MODULE ReminderDeliveryProofs ------------------------
(***************************************************************************)
(* Theorems about ReminderDelivery for any number of reminders, people,    *)
(* concurrency slots, attempts and faults.                                 *)
(***************************************************************************)
EXTENDS ReminderDelivery, BullQueueProofs, FiniteSetTheorems, FunctionTheorems

-----------------------------------------------------------------------------
(* Type correctness *)

LEMMA SlotUpdatesTyped ==
  ASSUME slot \in [Slot -> Handler], NEW w \in Slot,
         NEW a \in Step, NEW t \in SUBSET Person, NEW j \in JobId
  PROVE  /\ [slot EXCEPT ![w].at = a] \in [Slot -> Handler]
         /\ [slot EXCEPT ![w].at = a, ![w].todo = t] \in [Slot -> Handler]
         /\ [slot EXCEPT ![w].at = a, ![w].todo = t, ![w].ok = TRUE] \in [Slot -> Handler]
         /\ [slot EXCEPT ![w].todo = t] \in [Slot -> Handler]
         /\ [slot EXCEPT ![w] = Idle] \in [Slot -> Handler]
         /\ [slot EXCEPT ![w] = [Idle EXCEPT !.at = a, !.job = j]] \in [Slot -> Handler]
<1>1. Idle \in Handler /\ [Idle EXCEPT !.at = a, !.job = j] \in Handler
  BY DEF Idle, Handler, Step
<1>2. [slot EXCEPT ![w].at = a] \in [Slot -> Handler]
  BY DEF Handler
<1>3. [slot EXCEPT ![w].todo = t] \in [Slot -> Handler]
  BY DEF Handler
<1>4. [slot EXCEPT ![w].at = a, ![w].todo = t] \in [Slot -> Handler]
  BY DEF Handler
<1>5. [slot EXCEPT ![w].at = a, ![w].todo = t, ![w].ok = TRUE] \in [Slot -> Handler]
  BY DEF Handler
<1> QED BY <1>1, <1>2, <1>3, <1>4, <1>5

LEMMA InitTyped == Init => TypeOK
<1> SUFFICES ASSUME Init PROVE TypeOK
  OBVIOUS
<1>1. NoJob \in Job
  BY DEF NoJob, Job, JobState
<1>2. Idle \in Handler
  BY DEF Idle, Handler, Step
<1>3. row \in [Reminder -> RowStatus] /\ producing \in [Reminder -> Prefix \cup {None}]
  BY DEF Init, RowStatus
<1>4. job \in [JobId -> Job] /\ slot \in [Slot -> Handler]
  BY <1>1, <1>2 DEF Init
<1>5. accepted \in [JobId -> [Person -> Nat]] /\ escalated \in [Reminder -> Nat]
  BY DEF Init
<1>6. faults \in 0..MaxFaults
  BY DeliveryAssumption DEF Init
<1> QED BY <1>3, <1>4, <1>5, <1>6 DEF Init, TypeOK, NoRequest

\* Steps of the producers and of the provider keep the type invariant.
LEMMA ProducersTyped ==
  ASSUME TypeOK, NEW r \in Reminder, Produce(r) \/ Delivered(r)
  PROVE  TypeOK'
<1>1. ASSUME NEW x \in Prefix, CreateRow(r, x) PROVE TypeOK'
  BY <1>1 DEF CreateRow, TypeOK, RowStatus, sendVars, deadVars, outVars, actorVars
<1>2. CASE AddJob(r)
  <2>1. producing[r] \in Prefix
    BY <1>2 DEF AddJob, TypeOK
  <2>2. <<r, producing[r]>> \in JobId
    BY <2>1 DEF JobId
  <2>3. Added(job[<<r, producing[r]>>]) \in Job
    BY <2>2, JobOperationsTyped DEF TypeOK
  <2> QED BY <1>2, <2>2, <2>3 DEF AddJob, TypeOK, sendVars, deadVars, outVars, actorVars
<1>3. CASE LoseJob(r)
  BY <1>3, DeliveryAssumption DEF LoseJob, Fault, TypeOK, sendVars, deadVars, outVars, actorVars
<1>4. CASE Delivered(r)
  BY <1>4 DEF Delivered, TypeOK, RowStatus, queueVars, sendVars, deadVars, outVars, actorVars
<1> QED BY <1>1, <1>2, <1>3, <1>4 DEF Produce

\* An idle slot has no job; every other slot has one.
WorkersHaveJobs == \A w \in Slot : slot[w].at # "idle" <=> slot[w].job # None

\* The handler keeps the type invariant.
LEMMA HandlerTyped ==
  ASSUME TypeOK, WorkersHaveJobs, NEW w \in Slot,
         Handle(w) \/ HandlerError(w) \/ Crash(w) \/ (\E j \in JobId : Take(w, j))
  PROVE  TypeOK'
<1> USE DEF queueVars, sendVars, deadVars, outVars, actorVars
<1>0. /\ slot \in [Slot -> Handler] /\ job \in [JobId -> Job]
      /\ slot[w] \in Handler
      /\ slot[w].at # "idle" => slot[w].job \in JobId /\ Row(slot[w].job) \in Reminder
  BY DEF TypeOK, WorkersHaveJobs, Handler, JobId, Row
<1>1. ASSUME NEW j \in JobId, Take(w, j) PROVE TypeOK'
  <2>1. slot' \in [Slot -> Handler]
    BY ZenonT(60), <1>0, <1>1, SlotUpdatesTyped DEF Take, Step
  <2>2. Started(job[j], w) \in Job
    BY <1>0, JobOperationsTyped
  <2> QED BY <1>1, <2>1, <2>2 DEF Take, TypeOK
<1>2. CASE Load(w)
  <2>1. slot' \in [Slot -> Handler]
    <3>1. CASE slot' = [slot EXCEPT ![w].at = "complete"]
      BY <1>0, <3>1 DEF Handler, Step
    <3>2. ASSUME NEW declined \in SUBSET Audience[Row(slot[w].job)],
                 slot' = [slot EXCEPT ![w].at = "gate",
                            ![w].todo = Addressees(Row(slot[w].job)) \ declined]
          PROVE  slot' \in [Slot -> Handler]
      <4>1. slot[w].at = "load"
        BY <1>2 DEF Load
      <4>2. Audience[Row(slot[w].job)] \in SUBSET Person
        BY <1>0, <4>1, DeliveryAssumption
      <4>3. Addressees(Row(slot[w].job)) \ declined \in SUBSET Person
        BY <4>2 DEF Addressees
      <4> HIDE DEF queueVars, sendVars, deadVars, outVars, actorVars
      <4>4. "gate" \in Step
        BY DEF Step
      <4> QED BY <1>0, <3>2, <4>3, <4>4 DEF Handler
    <3> QED BY <1>2, <3>1, <3>2 DEF Load
  <2> QED BY <1>2, <2>1 DEF Load, TypeOK
<1>3. ASSUME NEW allowed \in BOOLEAN, Gate(w, allowed) PROVE TypeOK'
  <2>1. slot' \in [Slot -> Handler]
    BY <1>0, <1>3 DEF Gate, Handler, Step
  <2> QED BY <1>3, <2>1 DEF Gate, TypeOK
<1>4. ASSUME NEW status \in RowStatus, NEW next \in Step, Update(w, status, next),
             slot[w].at # "idle"
      PROVE  row' \in [Reminder -> RowStatus] /\ slot' \in [Slot -> Handler]
  BY <1>0, <1>4 DEF Update, TypeOK, Handler, Step
<1>5. CASE WriteCancelled(w) \/ WriteSent(w) \/ WriteFailed(w)
  <2>1. row' \in [Reminder -> RowStatus] /\ slot' \in [Slot -> Handler]
    BY <1>4, <1>5 DEF WriteCancelled, WriteSent, WriteFailed, RowStatus, Step
  <2> QED BY <1>5, <2>1 DEF WriteCancelled, WriteSent, WriteFailed, TypeOK
<1>6. ASSUME NEW p \in Person, SendAccepted(w, p) PROVE TypeOK'
  <2>1. slot' \in [Slot -> Handler]
    BY <1>0, <1>6 DEF SendAccepted, Handler, Step
  <2>2. accepted' \in [JobId -> [Person -> Nat]]
    BY <1>0, <1>6 DEF SendAccepted, TypeOK
  <2> QED BY <1>6, <2>1, <2>2 DEF SendAccepted, TypeOK
<1>7. ASSUME NEW p \in Person, SendRefused(w, p) PROVE TypeOK'
  <2>1. slot' \in [Slot -> Handler]
    BY <1>0, <1>7 DEF SendRefused, Handler, Step
  <2> QED BY <1>7, <2>1 DEF SendRefused, TypeOK
<1>8. CASE IncrementUsage(w)
  <2>1. slot' \in [Slot -> Handler]
    BY <1>0, <1>8 DEF IncrementUsage, Handler, Step
  <2> QED BY <1>8, <2>1 DEF IncrementUsage, TypeOK
<1>9. CASE LogMessage(w)
  <2>1. slot' \in [Slot -> Handler] /\ logged' \subseteq Reminder
    BY <1>0, <1>9 DEF LogMessage, Handler, Step, TypeOK
  <2> QED BY <1>9, <2>1 DEF LogMessage, TypeOK
<1>10. CASE Complete(w)
  <2>1. slot' \in [Slot -> Handler]
    BY <1>0, <1>10 DEF Complete, Idle, Handler, Step
  <2>2. job' \in [JobId -> Job]
    BY <1>0, <1>10, JobOperationsTyped DEF Complete
  <2> QED BY <1>10, <2>1, <2>2 DEF Complete, TypeOK
<1>11. CASE Throw(w)
  <2>1. slot' \in [Slot -> Handler]
    BY <1>0, <1>11 DEF Throw, Idle, Handler, Step
  <2>2. slot[w].job \in JobId /\ Attempts[slot[w].job[2]] \in Nat
    BY <1>0, <1>11, DeliveryAssumption DEF Throw, JobId
  <2>3. job' \in [JobId -> Job]
    BY <1>0, <1>11, <2>2, JobOperationsTyped DEF Throw
  <2>4. dying' \in [JobId -> {"no", "row", "dlq", "failover"}]
    BY <1>11, <2>2 DEF Throw, TypeOK
  <2> QED BY <1>11, <2>1, <2>3, <2>4 DEF Throw, TypeOK
<1>12. CASE HandlerError(w) \/ Crash(w)
  <2>1. slot' \in [Slot -> Handler]
    <3>1. CASE HandlerError(w)
      BY <1>0, <3>1 DEF HandlerError, Handler, Step
    <3>2. CASE Crash(w)
      BY <1>0, <3>2 DEF Crash, Idle, Handler, Step
    <3> QED BY <1>12, <3>1, <3>2
  <2>2. faults' \in 0..MaxFaults
    BY <1>12, DeliveryAssumption DEF HandlerError, Crash, Fault, TypeOK
  <2> QED BY <1>12, <2>1, <2>2 DEF HandlerError, Crash, TypeOK
<1> QED BY <1>1, <1>2, <1>3, <1>5, <1>6, <1>7, <1>8, <1>9, <1>10, <1>11, <1>12 DEF Handle

\* The queue's own steps, the failed listener and the recovery script.
LEMMA QueueTyped ==
  ASSUME TypeOK, NEW j \in JobId,
         \/ ExpireLock(j) \/ LoseLock(j) \/ RecoverStalled(j) \/ Bury(j) \/ Forget(j)
         \/ Listen(j) \/ ListenerDies(j)
  PROVE  TypeOK'
<1> USE DEF queueVars, sendVars, deadVars, outVars, actorVars
<1>1. job[j] \in Job /\ Row(j) \in Reminder /\ Attempts[j[2]] \in Nat
  BY DeliveryAssumption DEF TypeOK, JobId, Row
<1>2. /\ Unlocked(job[j]) \in Job /\ Recovered(job[j]) \in Job /\ Buried(job[j]) \in Job
      /\ [job EXCEPT ![j] = Unlocked(@)] \in [JobId -> Job]
      /\ [job EXCEPT ![j] = Recovered(@)] \in [JobId -> Job]
      /\ [job EXCEPT ![j] = Buried(@)] \in [JobId -> Job]
  BY <1>1, JobOperationsTyped DEF TypeOK
<1>3. CASE ExpireLock(j)
  BY <1>2, <1>3 DEF ExpireLock, TypeOK
<1>4. CASE LoseLock(j)
  <2>1. faults' \in 0..MaxFaults
    BY <1>4, DeliveryAssumption DEF LoseLock, Fault, TypeOK
  <2> QED BY <1>2, <1>4, <2>1 DEF LoseLock, TypeOK
<1>5. CASE RecoverStalled(j)
  BY <1>2, <1>5 DEF RecoverStalled, TypeOK
<1>6. CASE Bury(j)
  BY <1>2, <1>6 DEF Bury, TypeOK
<1>7. CASE ExhaustedRow(j)
  <2>1. row' \in [Reminder -> RowStatus]
    BY <1>7 DEF ExhaustedRow, TypeOK, RowStatus
  <2> QED BY <1>7, <2>1 DEF ExhaustedRow, TypeOK
<1>8. CASE ExhaustedDlq(j)
  BY <1>8 DEF ExhaustedDlq, TypeOK
<1>9. CASE Failover(j)
  <2>1. logged' \subseteq Reminder /\ escalated' \in [Reminder -> Nat]
    BY <1>1, <1>9 DEF Failover, TypeOK
  <2> QED BY <1>9, <2>1 DEF Failover, TypeOK
<1>10. CASE ListenerDies(j)
  <2>1. faults' \in 0..MaxFaults
    BY <1>10, DeliveryAssumption DEF ListenerDies, Fault, TypeOK
  <2> QED BY <1>10, <2>1 DEF ListenerDies, TypeOK
<1>11. CASE Forget(j)
  <2>1. NoJob \in Job
    BY DEF NoJob, Job, JobState
  <2> QED BY <1>11, <2>1 DEF Forget, TypeOK
<1> QED BY <1>3, <1>4, <1>5, <1>6, <1>7, <1>8, <1>9, <1>10, <1>11 DEF Listen

LEMMA RecoveryTyped ==
  ASSUME TypeOK, BeginRecovery \/ (\E r \in Reminder : RecoverRow(r))
  PROVE  TypeOK'
<1> USE DEF queueVars, sendVars, deadVars, outVars, actorVars
<1>1. CASE BeginRecovery
  BY <1>1 DEF BeginRecovery, TypeOK
<1>2. ASSUME NEW r \in Reminder, RecoverRow(r) PROVE TypeOK'
  <2>1. <<r, "reminder">> \in JobId
    BY DEF JobId, Prefix
  <2>2. Added(job[<<r, "reminder">>]) \in Job
    BY <2>1, JobOperationsTyped DEF TypeOK
  <2>3. job' \in [JobId -> Job]
    BY <1>2, <2>2 DEF RecoverRow, TypeOK
  <2>4. recovering' \subseteq Reminder /\ recovered' \subseteq Reminder
    BY <1>2 DEF RecoverRow, TypeOK
  <2> QED BY <1>2, <2>3, <2>4 DEF RecoverRow, TypeOK
<1> QED BY <1>1, <1>2

\* What the type invariant says of the request in progress.
RequestType == [mode : {"none", "cancel", "remove", "optout"},
                who : Booking \cup Person \cup {None},
                bookings : SUBSET Booking,
                rows : SUBSET Reminder,
                cur : Reminder \cup {None}]

\* Only people opt out.
PeopleOptOut == request.mode = "optout" => request.who \in Person

LEMMA RequestsTyped ==
  ASSUME TypeOK, PeopleOptOut,
         \/ \E b \in Booking, mode \in Requests \ {"optout"} : BeginCancel(b, mode)
         \/ \E p \in {q \in Person : "optout" \in Requests} : BeginOptOut(p) \/ OptOutAgain(p)
         \/ Serve \/ RequestDies
  PROVE  TypeOK'
<1> USE DEF queueVars, sendVars, deadVars, outVars, actorVars
<1>1. request \in RequestType
  BY DEF TypeOK, RequestType
<1>2. NoRequest \in RequestType
  BY DEF NoRequest, RequestType
<1>3. faults \in 0..MaxFaults /\ faults \in Nat
  BY DeliveryAssumption DEF TypeOK
<1>4. ASSUME NEW b \in Booking, NEW mode \in Requests \ {"optout"}, BeginCancel(b, mode)
      PROVE  TypeOK'
  <2>1. request' \in RequestType
    BY <1>2, <1>4, DeliveryAssumption DEF BeginCancel, RequestType
  <2> QED BY <1>4, <2>1 DEF BeginCancel, TypeOK, RequestType
<1>5. ASSUME NEW p \in Person, BeginOptOut(p) PROVE TypeOK'
  <2>1. AppointmentsOf(p) \subseteq Booking
    BY DeliveryAssumption DEF AppointmentsOf
  <2>2. request' \in RequestType
    BY <1>2, <1>5, <2>1 DEF BeginOptOut, RequestType
  <2> QED BY <1>5, <2>2 DEF BeginOptOut, TypeOK, RequestType
<1>6. ASSUME NEW p \in Person, OptOutAgain(p) PROVE TypeOK'
  BY <1>6 DEF OptOutAgain, TypeOK
<1>7. ASSUME NEW b \in request.bookings, ReadPending(b) PROVE TypeOK'
  <2>1. request' \in RequestType
    BY <1>1, <1>7 DEF ReadPending, RequestType
  <2> QED BY <1>7, <2>1 DEF ReadPending, TypeOK, RequestType
<1>8. ASSUME NEW r \in request.rows, RemoveJob(r) PROVE TypeOK'
  <2>1. r \in Reminder /\ <<r, "reminder">> \in JobId
    BY <1>1 DEF RequestType, JobId, Prefix
  <2>2. request' \in RequestType
    <3>1. CASE request' = NoRequest
      BY <1>2, <3>1
    <3>2. CASE request' = [request EXCEPT !.rows = @ \ {r}, !.cur = r]
      BY <1>1, <2>1, <3>2 DEF RequestType
    <3> QED BY <1>8, <3>1, <3>2 DEF RemoveJob
  <2>3. NoJob \in Job
    BY DEF NoJob, Job, JobState
  <2>4. job' \in [JobId -> Job]
    BY <1>8, <2>3 DEF RemoveJob, TypeOK
  <2> QED BY <1>8, <2>2, <2>4 DEF RemoveJob, TypeOK, RequestType
<1>9. CASE CancelRow
  <2>1. request' \in RequestType
    BY <1>1, <1>9 DEF CancelRow, RequestType
  <2>2. row' \in [Reminder -> RowStatus]
    BY <1>9 DEF CancelRow, TypeOK, RowStatus
  <2> QED BY <1>9, <2>1, <2>2 DEF CancelRow, TypeOK, RequestType
<1>10. CASE EndRequest
  <2>1. row' \in [Reminder -> RowStatus]
    BY <1>10 DEF EndRequest, TypeOK, RowStatus
  <2>2. contactOut' \subseteq Person
    BY <1>10 DEF EndRequest, TypeOK, PeopleOptOut
  <2> QED BY <1>2, <1>10, <2>1, <2>2 DEF EndRequest, TypeOK, RequestType
<1>11. CASE RequestDies
  <2>1. faults' \in 0..MaxFaults
    BY <1>3, <1>11, DeliveryAssumption DEF RequestDies, Fault
  <2> QED BY <1>2, <1>11, <2>1 DEF RequestDies, TypeOK, RequestType
<1> QED BY <1>4, <1>5, <1>6, <1>7, <1>8, <1>9, <1>10, <1>11 DEF Serve

-----------------------------------------------------------------------------
(* Typing needs two facts that TypeOK does not have; with them it is          *)
(* inductive.                                                                 *)

Typing == TypeOK /\ WorkersHaveJobs /\ PeopleOptOut

\* A step of Next belongs to one of the actors.
LEMMA NextSplit ==
  ASSUME Next
  PROVE  \/ \E r \in Reminder : Produce(r) \/ Delivered(r)
         \/ \E w \in Slot : \/ Handle(w) \/ HandlerError(w) \/ Crash(w)
                            \/ \E j \in JobId : Take(w, j)
         \/ \E j \in JobId : \/ ExpireLock(j) \/ LoseLock(j) \/ RecoverStalled(j) \/ Bury(j) \/ Forget(j)
                             \/ Listen(j) \/ ListenerDies(j)
         \/ BeginRecovery \/ \E r \in Reminder : RecoverRow(r)
         \/ \E b \in Booking, mode \in Requests \ {"optout"} : BeginCancel(b, mode)
         \/ \E p \in {q \in Person : "optout" \in Requests} : BeginOptOut(p) \/ OptOutAgain(p)
         \/ Serve \/ RequestDies
BY DEF Next

\* Only the handlers and the lease of a job to them change a slot.
LEMMA SlotsOfHandlers ==
  ASSUME Typing, Next
  PROVE  \/ UNCHANGED slot
         \/ \E w \in Slot : \/ Handle(w) \/ HandlerError(w) \/ Crash(w)
                            \/ \E j \in JobId : Take(w, j)
BY NextSplit DEF Produce, CreateRow, AddJob, LoseJob, Delivered, ExpireLock, LoseLock,
  RecoverStalled, Bury, Forget, Listen, ExhaustedRow, ExhaustedDlq, Failover, ListenerDies,
  BeginRecovery, RecoverRow, BeginCancel, BeginOptOut, OptOutAgain, Serve, ReadPending,
  RemoveJob, CancelRow, EndRequest, RequestDies

LEMMA WorkersKeepJobs ==
  ASSUME Typing, Next
  PROVE  WorkersHaveJobs'
<1> USE DEF Typing
<1>1. CASE UNCHANGED slot
  BY <1>1 DEF WorkersHaveJobs
<1>2. ASSUME NEW w \in Slot,
             \/ Handle(w) \/ HandlerError(w) \/ Crash(w)
             \/ \E j \in JobId : Take(w, j)
      PROVE  WorkersHaveJobs'
  <2>1. slot \in [Slot -> Handler] /\ None \notin JobId
    BY DeliveryAssumption DEF TypeOK
  <2>2. ASSUME NEW v \in Slot, v # w PROVE slot'[v] = slot[v]
    BY <1>2, <2>1, <2>2 DEF Handle, Load, Gate, WriteCancelled, SendAccepted, SendRefused,
      IncrementUsage, LogMessage, WriteSent, WriteFailed, Complete, Throw, HandlerError,
      Crash, Take, Update
  <2>3. slot'[w].at # "idle" <=> slot'[w].job # None
    <3>1. CASE \E j \in JobId : Take(w, j)
      BY <2>1, <3>1 DEF Take, Idle
    <3>2. CASE Complete(w) \/ Throw(w) \/ Crash(w)
      BY <2>1, <3>2 DEF Complete, Throw, Crash, Idle
    <3>3. CASE Load(w) \/ \E allowed \in BOOLEAN : Gate(w, allowed)
      BY <2>1, <3>3 DEF Handler, WorkersHaveJobs, Load, Gate
    <3>5. CASE \E p \in Person : SendAccepted(w, p) \/ SendRefused(w, p)
      BY <2>1, <3>5 DEF Handler, WorkersHaveJobs, SendAccepted, SendRefused
    <3>6. CASE IncrementUsage(w) \/ LogMessage(w) \/ HandlerError(w)
      BY <2>1, <3>6 DEF Handler, WorkersHaveJobs, IncrementUsage, LogMessage, HandlerError
    <3>4. CASE WriteCancelled(w) \/ WriteSent(w) \/ WriteFailed(w)
      BY <2>1, <3>4 DEF Handler, WorkersHaveJobs, WriteCancelled, WriteSent, WriteFailed, Update
    <3> QED BY <1>2, <3>1, <3>2, <3>3, <3>4, <3>5, <3>6 DEF Handle
  <2> QED BY <2>2, <2>3 DEF WorkersHaveJobs
<1> QED BY <1>1, <1>2, SlotsOfHandlers

LEMMA PeopleKeepOptOut ==
  ASSUME Typing, Next
  PROVE  PeopleOptOut'
<1> USE DEF queueVars, sendVars, deadVars, outVars, actorVars
<1>1. CASE UNCHANGED request
  BY <1>1 DEF PeopleOptOut, Typing
<1>2. CASE \E b \in Booking, mode \in Requests \ {"optout"} : BeginCancel(b, mode)
  BY <1>2 DEF BeginCancel, NoRequest, PeopleOptOut
<1>3. CASE \E p \in Person : BeginOptOut(p)
  BY <1>3 DEF BeginOptOut, NoRequest, PeopleOptOut
<1>4. CASE Serve \/ RequestDies
  <2>1. request \in RequestType /\ NoRequest.mode = "none"
    BY DEF Typing, TypeOK, RequestType, NoRequest
  <2>2. request'.mode = "optout" => request'.mode = request.mode /\ request'.who = request.who
    BY <1>4, <2>1 DEF Serve, ReadPending, RemoveJob, CancelRow, EndRequest, RequestDies,
      RequestType
  <2> QED BY <2>2 DEF PeopleOptOut, Typing
<1> QED BY ZenonT(60), <1>1, <1>2, <1>3, <1>4, NextSplit DEF Handle, Produce, Listen, CreateRow, AddJob,
  LoseJob, Delivered, Take, Load, Gate, WriteCancelled, SendAccepted, SendRefused,
  IncrementUsage, LogMessage, WriteSent, WriteFailed, Complete, Throw, HandlerError, Crash,
  ExpireLock, LoseLock, RecoverStalled, Bury, Forget, ExhaustedRow, ExhaustedDlq, Failover,
  ListenerDies, BeginRecovery, RecoverRow, OptOutAgain

LEMMA TypingInit == Init => Typing
<1> SUFFICES ASSUME Init PROVE WorkersHaveJobs /\ PeopleOptOut
  BY InitTyped DEF Typing
<1> QED BY DEF Init, Idle, NoRequest, WorkersHaveJobs, PeopleOptOut

LEMMA TypingKept == Typing /\ [Next]_vars => Typing'
<1> SUFFICES ASSUME Typing, [Next]_vars PROVE Typing'
  OBVIOUS
<1>1. CASE Next
  <2>1. TypeOK'
    BY <1>1, NextSplit, ProducersTyped, HandlerTyped, QueueTyped, RecoveryTyped, RequestsTyped
       DEF Typing
  <2> QED BY <1>1, <2>1, WorkersKeepJobs, PeopleKeepOptOut DEF Typing
<1>2. CASE UNCHANGED vars
  BY <1>2 DEF vars, Typing, TypeOK, WorkersHaveJobs, PeopleOptOut
<1> QED BY <1>1, <1>2

LEMMA TypingAlways == Spec => []Typing
BY TypingInit, TypingKept, PTL DEF Spec

\* The variables of ReminderDelivery keep their types.
THEOREM TypeCorrect == Spec => []TypeOK
<1>1. Typing => TypeOK
  BY DEF Typing
<1> QED BY <1>1, TypingAlways, PTL

-----------------------------------------------------------------------------
(* How many copies a job can still give an addressee. Every handler that may  *)
(* yet send one holds a permit, and a PENDING row without a handler under     *)
(* lock is worth one more, for the handler that will take its job. A step     *)
(* spends a permit, hands the row's to a handler or drops it; only a fault    *)
(* brings a new one into the world.                                           *)

\* Only an active job has an owner.
OwnersAreActive == \A j \in JobId : job[j].owner # None => job[j].st = "active"

\* Nothing has happened yet for a row that does not exist.
AbsentIsFresh ==
  \A j \in JobId : row[Row(j)] = "absent" =>
    /\ producing[Row(j)] = None /\ Row(j) \notin recovering
    /\ job[j].st = "none"
    /\ \A w \in Slot : slot[w].job # j
    /\ \A p \in Person : accepted[j][p] = 0

\* A handler returns only once the row is settled.
ReturnsSettled ==
  \A w \in Slot : slot[w].at = "complete" => row[Row(slot[w].job)] # "PENDING"

\* The handler of slot w may still send a copy of job j to p.
Owes(w, j, p) ==
  /\ slot[w].job = j
  /\ \/ slot[w].at = "load" /\ row[Row(j)] = "PENDING"
     \/ slot[w].at \in {"gate", "send", "bill", "log"} /\ p \in slot[w].todo

Owing(j, p) == {w \in Slot : Owes(w, j, p)}

\* The row is PENDING and no live handler of the job holds its lock.
Open(j) == row[Row(j)] = "PENDING" /\ ~Held(j)

\* Copies accepted and permits left, against the faults that have happened.
InBudget(j, p) ==
  accepted[j][p] + Cardinality(Owing(j, p)) + (IF Open(j) THEN 1 ELSE 0) <= 1 + faults

WithinBudget == \A j \in JobId, p \in Person : InBudget(j, p)

Budget == /\ Typing /\ OwnersAreActive /\ AbsentIsFresh /\ ReturnsSettled
          /\ WithinBudget

LEMMA OwingFinite ==
  ASSUME NEW j, NEW p
  PROVE  IsFiniteSet(Owing(j, p)) /\ Cardinality(Owing(j, p)) \in Nat
BY DeliveryAssumption, FS_Subset, FS_CardinalityType DEF Owing

\* The budget of one job and addressee is kept by a step that accepts nothing,
\* gives no handler a permit and leaves the row's permit alone or costs a fault.
Calm(j, p) ==
  /\ accepted'[j][p] = accepted[j][p]
  /\ \A w \in Slot : Owes(w, j, p)' => Owes(w, j, p)
  /\ \/ faults' = faults /\ (Open(j)' => Open(j))
     \/ faults' = faults + 1

LEMMA CalmKeepsBudget ==
  ASSUME TypeOK, NEW j \in JobId, NEW p \in Person, InBudget(j, p), Calm(j, p)
  PROVE  InBudget(j, p)'
<1>1. Owing(j, p)' \subseteq Owing(j, p)
  BY DEF Calm, Owing
<1>2. Cardinality(Owing(j, p)') <= Cardinality(Owing(j, p))
      /\ Cardinality(Owing(j, p)') \in Nat /\ Cardinality(Owing(j, p)) \in Nat
  BY <1>1, OwingFinite, FS_Subset, FS_CardinalityType
<1>3. accepted[j][p] \in Nat /\ faults \in Nat
  BY DeliveryAssumption DEF TypeOK
<1> DEFINE c == Cardinality(Owing(j, p))
           d == Cardinality(Owing(j, p)')
<1>4. d <= c /\ c \in Nat /\ d \in Nat
  BY <1>2
<1>5. accepted[j][p] + c + (IF Open(j) THEN 1 ELSE 0) <= 1 + faults
  BY DEF InBudget
<1> SUFFICES accepted'[j][p] + d + (IF Open(j)' THEN 1 ELSE 0) <= 1 + faults'
  BY DEF InBudget
<1> HIDE DEF c, d
<1> QED BY <1>3, <1>4, <1>5 DEF Calm

\* A step that touches neither slots, locks nor copies, and makes no row PENDING.
Quiet ==
  /\ UNCHANGED <<slot, accepted>>
  /\ \A j \in JobId : job'[j].owner = job[j].owner
  /\ \A r \in Reminder : row'[r] = "PENDING" => row[r] = "PENDING"
  /\ faults' \in {faults, faults + 1}

LEMMA QuietIsCalm ==
  ASSUME Typing, Quiet, NEW j \in JobId, NEW p \in Person
  PROVE  Calm(j, p)
<1>1. Row(j) \in Reminder
  BY DEF Row, JobId
<1>2. ASSUME NEW w \in Slot, Owes(w, j, p)' PROVE Owes(w, j, p)
  BY <1>1, <1>2 DEF Owes, Quiet
<1>3. Open(j)' => Open(j)
  BY <1>1 DEF Open, Held, Quiet
<1> QED BY <1>2, <1>3 DEF Calm, Quiet

LEMMA QuietProducers ==
  ASSUME Budget, NEW r \in Reminder, AddJob(r) \/ LoseJob(r) \/ Delivered(r) \/ RecoverRow(r)
  PROVE  Quiet
<1> USE DEF queueVars, sendVars, deadVars, outVars, actorVars
<1>1. \A j \in JobId : job[j] \in Job /\ Sound(job[j])
  BY DEF Budget, Typing, TypeOK, OwnersAreActive, Sound
<1>2. \A j \in JobId : Added(job[j]).owner = job[j].owner
  BY <1>1, LocksOfOperations, DeliveryAssumption
<1>3. CASE AddJob(r)
  BY <1>2, <1>3 DEF AddJob, Quiet, Budget, Typing, TypeOK
<1>4. CASE LoseJob(r)
  BY <1>4 DEF LoseJob, Fault, Quiet
<1>5. CASE Delivered(r)
  BY <1>5 DEF Delivered, Quiet, Budget, Typing, TypeOK
<1>6. CASE RecoverRow(r)
  BY <1>2, <1>6 DEF RecoverRow, Quiet, Budget, Typing, TypeOK
<1> QED BY <1>3, <1>4, <1>5, <1>6

LEMMA QuietQueue ==
  ASSUME Budget, NEW j \in JobId,
         RecoverStalled(j) \/ Bury(j) \/ Forget(j) \/ Listen(j)
         \/ ListenerDies(j)
  PROVE  Quiet
<1> USE DEF queueVars, sendVars, deadVars, outVars, actorVars
<1>1. job[j] \in Job /\ Sound(job[j])
  BY DEF Budget, Typing, TypeOK, OwnersAreActive, Sound
<1>2. /\ Stalled(job[j]) => Recovered(job[j]).owner = job[j].owner
      /\ GivenUp(job[j]) => Buried(job[j]).owner = job[j].owner
  BY <1>1, LocksOfOperations
<1>3. CASE RecoverStalled(j)
  BY <1>2, <1>3 DEF RecoverStalled, Quiet, Budget, Typing, TypeOK
<1>4. CASE Bury(j)
  BY <1>2, <1>4 DEF Bury, Quiet, Budget, Typing, TypeOK
<1>5. CASE Listen(j)
  BY <1>5 DEF Listen, ExhaustedRow, ExhaustedDlq, Failover, Quiet, Budget, Typing, TypeOK
<1>6. CASE ListenerDies(j)
  BY <1>6 DEF ListenerDies, Fault, Quiet
<1>7. CASE Forget(j)
  BY <1>1, <1>7 DEF Forget, NoJob, Sound, Quiet, Budget, Typing, TypeOK
<1> QED BY <1>3, <1>4, <1>5, <1>6, <1>7

LEMMA QuietRequests ==
  ASSUME Budget,
         \/ \E b \in Booking, mode \in Requests \ {"optout"} : BeginCancel(b, mode)
         \/ \E p \in {q \in Person : "optout" \in Requests} : BeginOptOut(p) \/ OptOutAgain(p)
         \/ Serve \/ RequestDies \/ BeginRecovery
  PROVE  Quiet
<1> USE DEF queueVars, sendVars, deadVars, outVars, actorVars
<1>1. \A j \in JobId : job[j] \in Job /\ Sound(job[j])
  BY DEF Budget, Typing, TypeOK, OwnersAreActive, Sound
<1>2. ASSUME NEW r \in request.rows, RemoveJob(r) PROVE Quiet
  <2>1. \A j \in JobId : job'[j].owner = job[j].owner
    <3>1. CASE UNCHANGED job
      BY <3>1
    <3>2. CASE /\ job' = [job EXCEPT ![<<r, "reminder">>] = NoJob]
               /\ job[<<r, "reminder">>].owner = None
      <4>1. job \in [JobId -> Job] /\ NoJob.owner = None
        BY DEF Budget, Typing, TypeOK, NoJob
      <4> QED BY <3>2, <4>1
    <3> QED BY <1>2, <3>1, <3>2 DEF RemoveJob, Locked
  <2> QED BY <1>2, <2>1 DEF RemoveJob, Quiet
<1>3. CASE CancelRow \/ EndRequest
  BY <1>3 DEF CancelRow, EndRequest, Quiet, Budget, Typing, TypeOK
<1>4. CASE \E b \in request.bookings : ReadPending(b)
  BY <1>4 DEF ReadPending, Quiet
<1>5. CASE RequestDies \/ BeginRecovery
  BY <1>5 DEF RequestDies, BeginRecovery, Fault, Quiet
<1>6. CASE \E b \in Booking, mode \in Requests \ {"optout"} : BeginCancel(b, mode)
  BY <1>6 DEF BeginCancel, Quiet
<1>7. CASE \E p \in Person : BeginOptOut(p) \/ OptOutAgain(p)
  BY <1>7 DEF BeginOptOut, OptOutAgain, Quiet
<1> QED BY <1>2, <1>3, <1>4, <1>5, <1>6, <1>7 DEF Serve

\* Handlers: a step of slot w leaves the other slots alone, and gives its own no
\* permit except by Take.
LEMMA CalmHandler ==
  ASSUME Budget, NEW w \in Slot, NEW j \in JobId, NEW p \in Person,
         \/ Load(w) \/ (\E allowed \in BOOLEAN : Gate(w, allowed))
         \/ WriteCancelled(w) \/ WriteSent(w) \/ WriteFailed(w)
         \/ \E q \in Person : SendRefused(w, q)
         \/ IncrementUsage(w) \/ LogMessage(w)
         \/ Complete(w) \/ Throw(w) \/ HandlerError(w) \/ Crash(w)
  PROVE  Calm(j, p)
<1> USE DEF queueVars, sendVars, deadVars, outVars, actorVars
<1>1. /\ slot \in [Slot -> Handler] /\ job \in [JobId -> Job] /\ Row(j) \in Reminder
      /\ row \in [Reminder -> RowStatus] /\ faults \in Nat /\ j # None
  BY DeliveryAssumption DEF Budget, Typing, TypeOK, Row, JobId
<1>2. slot[w].at # "idle" => slot[w].job \in JobId /\ Row(slot[w].job) \in Reminder
  BY <1>1 DEF Budget, Typing, WorkersHaveJobs, Handler, Row, JobId
<1>3. CASE HandlerError(w) \/ Crash(w)
  <2>1. \A v \in Slot : Owes(v, j, p)' => Owes(v, j, p)
    <3>1. CASE HandlerError(w)
      BY <1>1, <3>1 DEF HandlerError, Owes
    <3>2. CASE Crash(w)
      BY <1>1, <3>2 DEF Crash, Owes, Idle
    <3> QED BY <1>3, <3>1, <3>2
  <2> QED BY <1>3, <2>1 DEF HandlerError, Crash, Fault, Calm
<1>4. ASSUME \/ Load(w) \/ (\E allowed \in BOOLEAN : Gate(w, allowed))
             \/ \E q \in Person : SendRefused(w, q)
             \/ IncrementUsage(w)
      PROVE  Calm(j, p)
  <2>1. UNCHANGED <<row, job, accepted, faults>>
    BY <1>4 DEF Load, Gate, SendRefused, IncrementUsage
  <2>2. \A v \in Slot : v # w => slot'[v] = slot[v]
    BY <1>1, <1>4 DEF Load, Gate, SendRefused, IncrementUsage
  <2>3. slot'[w].job = slot[w].job /\ (slot'[w].at # "throw" /\ slot'[w].at # "idle")
    <3>1. CASE Load(w) \/ (\E allowed \in BOOLEAN : Gate(w, allowed))
      BY <1>1, <3>1 DEF Load, Gate, Handler
    <3>2. CASE (\E q \in Person : SendRefused(w, q)) \/ IncrementUsage(w)
      BY <1>1, <3>2 DEF SendRefused, IncrementUsage, Handler
    <3> QED BY <1>4, <3>1, <3>2
  <2>4. Owes(w, j, p)' => Owes(w, j, p)
    <3>1. CASE Load(w)
      BY <1>1, <3>1 DEF Load, Handler, Owes
    <3>2. CASE \E allowed \in BOOLEAN : Gate(w, allowed)
      BY <1>1, <3>2 DEF Gate, Handler, Owes
    <3>3. CASE \E q \in Person : SendRefused(w, q)
      BY <1>1, <3>3 DEF SendRefused, Handler, Owes
    <3>4. CASE IncrementUsage(w)
      BY <1>1, <3>4 DEF IncrementUsage, Handler, Owes
    <3> QED BY <1>4, <3>1, <3>2, <3>3, <3>4
  <2>5. Open(j)' => Open(j)
    <3>1. job[j].owner # None => job[j].owner \in Slot
      BY <1>1 DEF Job
    <3>2. Held(j) => Held(j)'
      BY <2>1, <2>2, <2>3, <3>1 DEF Held
    <3> QED BY <2>1, <3>2 DEF Open
  <2> QED BY <2>1, <2>2, <2>4, <2>5 DEF Calm, Owes
<1>5. CASE WriteCancelled(w) \/ WriteSent(w) \/ WriteFailed(w) \/ LogMessage(w)
  <2>1. UNCHANGED <<job, accepted, faults>> /\ (row'[Row(j)] = "PENDING" => row[Row(j)] = "PENDING")
    BY <1>1, <1>5 DEF WriteCancelled, WriteSent, WriteFailed, LogMessage, Update
  <2>2. \A v \in Slot : v # w => slot'[v] = slot[v]
    BY <1>1, <1>5 DEF WriteCancelled, WriteSent, WriteFailed, LogMessage, Update
  <2>3. /\ slot'[w].job = slot[w].job /\ slot'[w].todo = slot[w].todo
        /\ slot'[w].at \in {"throw", "complete", "send"} /\ slot[w].at \in {"cancel", "send", "log"}
        /\ slot'[w].at = "send" => slot[w].at = "log"
        /\ slot'[w].at = "throw" => row'[Row(slot[w].job)] # "PENDING"
    <3>1. CASE WriteCancelled(w)
      BY <1>1, <1>2, <3>1 DEF WriteCancelled, Update, Handler
    <3>2. CASE WriteSent(w)
      BY <1>1, <1>2, <3>2 DEF WriteSent, Update, Handler
    <3>3. CASE WriteFailed(w)
      BY <1>1, <1>2, <3>3 DEF WriteFailed, Update, Handler
    <3>4. CASE LogMessage(w)
      BY <1>1, <1>2, <3>4 DEF LogMessage, Handler
    <3> QED BY <1>5, <3>1, <3>2, <3>3, <3>4
  <2>4. \A v \in Slot : Owes(v, j, p)' => Owes(v, j, p)
    BY <2>1, <2>2, <2>3 DEF Owes
  <2>5. Open(j)' => Open(j)
    <3>1. job[j].owner # None => job[j].owner \in Slot
      BY <1>1 DEF Job
    <3>2. Held(j) => Held(j)' \/ row'[Row(j)] # "PENDING"
      BY <2>1, <2>2, <2>3, <3>1 DEF Held
    <3> QED BY <2>1, <3>2 DEF Open
  <2> QED BY <2>1, <2>4, <2>5 DEF Calm
<1>6. CASE Complete(w) \/ Throw(w)
  <2> DEFINE k == slot[w].job
  <2>1. UNCHANGED <<row, accepted, faults>> /\ slot' = [slot EXCEPT ![w] = Idle]
    BY <1>6 DEF Complete, Throw
  <2>2. \A v \in Slot : Owes(v, j, p)' => Owes(v, j, p)
    BY <1>1, <2>1 DEF Owes, Idle
  <2>3. j # k => job'[j] = job[j]
    BY <1>1, <1>6 DEF Complete, Throw
  <2>4. job[k].owner # w => job' = job
    BY <1>6 DEF Complete, Throw
  <2>5. job[j].owner # None => job[j].owner \in Slot
    BY <1>1 DEF Job
  <2>6. Open(j)' => Open(j)
    <3>1. CASE job[j].owner = w /\ j = k
      <4>1. CASE Complete(w)
        BY <2>1, <3>1, <4>1 DEF Complete, Budget, ReturnsSettled, Open
      <4>2. CASE Throw(w)
        BY <2>1, <3>1, <4>2 DEF Throw, Held, Open
      <4> QED BY <1>6, <4>1, <4>2
    <3>2. CASE ~(job[j].owner = w /\ j = k)
      BY <1>1, <2>1, <2>3, <2>4, <2>5, <3>2 DEF Held, Open
    <3> QED BY <3>1, <3>2
  <2> QED BY <2>1, <2>2, <2>6 DEF Calm
<1> QED BY <1>3, <1>4, <1>5, <1>6

\* A lock that goes.
LEMMA CalmLocks ==
  ASSUME Budget, NEW k \in JobId, ExpireLock(k) \/ LoseLock(k), NEW j \in JobId, NEW p \in Person
  PROVE  Calm(j, p)
<1> USE DEF sendVars
<1>1. job \in [JobId -> Job] /\ job'[k].owner = None
  BY LocksOfOperations DEF Budget, Typing, TypeOK, ExpireLock, LoseLock, Unlocked, Job
<1>2. j # k => job'[j] = job[j]
  BY <1>1 DEF ExpireLock, LoseLock
<1>3. UNCHANGED <<slot, row, accepted>>
  BY DEF ExpireLock, LoseLock
<1>4. CASE ExpireLock(k)
  BY <1>1, <1>2, <1>3, <1>4 DEF ExpireLock, Calm, Owes, Open, Held
<1>5. CASE LoseLock(k)
  BY <1>3, <1>5 DEF LoseLock, Fault, Calm, Owes
<1> QED BY <1>4, <1>5

\* The insert gives the row its permit; nobody had one before.
LEMMA CreateRowInBudget ==
  ASSUME Budget, NEW r \in Reminder, NEW x \in Prefix, CreateRow(r, x),
         NEW j \in JobId, NEW p \in Person
  PROVE  InBudget(j, p)'
<1> USE DEF sendVars
<1>1. Row(j) \in Reminder /\ row \in [Reminder -> RowStatus] /\ faults \in Nat
  BY DeliveryAssumption DEF Budget, Typing, TypeOK, Row, JobId
<1>2. UNCHANGED <<slot, job, accepted, faults>>
  BY DEF CreateRow
<1>3. CASE Row(j) # r
  <2>1. row'[Row(j)] = row[Row(j)]
    BY <1>1, <1>3 DEF CreateRow
  <2>2. Calm(j, p)
    BY <1>2, <2>1 DEF Calm, Owes, Open, Held
  <2> QED BY <2>2, CalmKeepsBudget DEF Budget, WithinBudget, Typing
<1>4. CASE Row(j) = r
  <2>1. accepted[j][p] = 0 /\ \A w \in Slot : slot[w].job # j
    BY <1>4 DEF CreateRow, Budget, AbsentIsFresh
  <2>2. Owing(j, p)' = {}
    BY <1>2, <2>1 DEF Owing, Owes
  <2>3. Cardinality(Owing(j, p)') = 0
    BY <2>2, FS_EmptySet
  <2> QED BY <1>1, <1>2, <2>1, <2>3 DEF InBudget
<1> QED BY <1>3, <1>4

\* The row's permit goes to the handler that takes the job.
LEMMA TakeInBudget ==
  ASSUME Budget, NEW w \in Slot, NEW k \in JobId, Take(w, k), NEW j \in JobId, NEW p \in Person
  PROVE  InBudget(j, p)'
<1> USE DEF sendVars
<1>1. /\ slot \in [Slot -> Handler] /\ job \in [JobId -> Job] /\ j # None
      /\ faults \in Nat /\ accepted[j][p] \in Nat
  BY DeliveryAssumption DEF Budget, Typing, TypeOK
<1>2. UNCHANGED <<row, accepted, faults>> /\ slot[w].at = "idle"
  BY DEF Take
<1>3. /\ \A v \in Slot : v # w => slot'[v] = slot[v]
      /\ slot'[w].at = "load" /\ slot'[w].job = k
  BY <1>1 DEF Take, Idle
<1>4. /\ j # k => job'[j] = job[j]
      /\ job'[k].owner = w /\ job[k].owner = None /\ None \notin Slot
  <2>1. Sound(job[k]) /\ job[k] \in Job
    BY <1>1 DEF Budget, OwnersAreActive, Sound
  <2>2. Started(job[k], w).owner = w
    BY <2>1, LocksOfOperations, DeliveryAssumption
  <2>3. job[k].st = "waiting"
    BY DEF Take, Startable
  <2> QED BY <1>1, <2>1, <2>2, <2>3, QueueAssumption DEF Take, Sound
<1>5. CASE j # k \/ row[Row(j)] # "PENDING"
  <2>1. \A v \in Slot : Owes(v, j, p)' => Owes(v, j, p)
    BY <1>2, <1>3, <1>5 DEF Owes
  <2>2. job[j].owner # None => job[j].owner \in Slot
    BY <1>1 DEF Job
  <2>3. Open(j)' => Open(j)
    BY <1>2, <1>3, <1>4, <1>5, <2>2 DEF Open, Held
  <2>4. Calm(j, p)
    BY <1>2, <2>1, <2>3 DEF Calm
  <2> QED BY <2>4, CalmKeepsBudget DEF Budget, WithinBudget, Typing
<1>6. CASE j = k /\ row[Row(j)] = "PENDING"
  <2>1. Open(j) /\ ~Open(j)'
    BY <1>2, <1>3, <1>4, <1>6 DEF Open, Held
  <2>2. Owing(j, p)' \subseteq Owing(j, p) \cup {w}
    BY <1>2, <1>3 DEF Owing, Owes
  <2> DEFINE c == Cardinality(Owing(j, p))
             d == Cardinality(Owing(j, p)')
  <2>3. d <= c + 1 /\ c \in Nat /\ d \in Nat
    <3>1. IsFiniteSet(Owing(j, p)) /\ c \in Nat
      BY OwingFinite
    <3>2. IsFiniteSet(Owing(j, p) \cup {w})
      BY <3>1, FS_AddElement
    <3>3. Cardinality(Owing(j, p) \cup {w}) \in {c, c + 1}
      BY <3>1, FS_AddElement
    <3>4. IsFiniteSet(Owing(j, p)') /\ d <= Cardinality(Owing(j, p) \cup {w})
      BY <2>2, <3>2, FS_Subset
    <3>5. d \in Nat
      BY <3>4, FS_CardinalityType
    <3> HIDE DEF c, d
    <3> QED BY <3>1, <3>3, <3>4, <3>5
  <2>4. accepted[j][p] + c + 1 <= 1 + faults
    BY <2>1 DEF Budget, WithinBudget, InBudget
  <2> SUFFICES accepted[j][p] + d + 0 <= 1 + faults
    BY <1>2, <2>1 DEF InBudget
  <2> HIDE DEF c, d
  <2> QED BY <1>1, <2>3, <2>4
<1> QED BY <1>5, <1>6

\* A copy accepted spends the permit of its handler.
LEMMA SendInBudget ==
  ASSUME Budget, NEW w \in Slot, NEW q \in Person, SendAccepted(w, q),
         NEW j \in JobId, NEW p \in Person
  PROVE  InBudget(j, p)'
<1>1. /\ slot \in [Slot -> Handler] /\ job \in [JobId -> Job] /\ j # None
      /\ faults \in Nat /\ accepted \in [JobId -> [Person -> Nat]]
  BY DeliveryAssumption DEF Budget, Typing, TypeOK
<1>2. UNCHANGED <<row, job, faults>> /\ slot[w].at = "send" /\ q \in slot[w].todo
  BY DEF SendAccepted, queueVars
<1>3. /\ \A v \in Slot : v # w => slot'[v] = slot[v]
      /\ slot'[w].at = "bill" /\ slot'[w].job = slot[w].job
      /\ slot'[w].todo = slot[w].todo \ {q}
  BY <1>1 DEF SendAccepted, Handler
<1>4. Open(j)' => Open(j)
  <2>1. job[j].owner # None => job[j].owner \in Slot
    BY <1>1 DEF Job
  <2> QED BY <1>2, <1>3, <2>1 DEF Open, Held
<1>5. CASE j # slot[w].job \/ p # q
  <2>1. accepted'[j][p] = accepted[j][p]
    BY <1>1, <1>5 DEF SendAccepted
  <2>2. \A v \in Slot : Owes(v, j, p)' => Owes(v, j, p)
    BY <1>2, <1>3, <1>5 DEF Owes
  <2>3. Calm(j, p)
    BY <1>2, <1>4, <2>1, <2>2 DEF Calm
  <2> QED BY <2>3, CalmKeepsBudget DEF Budget, WithinBudget, Typing
<1>6. CASE j = slot[w].job /\ p = q
  <2>1. accepted'[j][p] = accepted[j][p] + 1
    BY <1>1, <1>6 DEF SendAccepted
  <2>2. w \in Owing(j, p) /\ Owing(j, p)' \subseteq Owing(j, p) \ {w}
    BY <1>2, <1>3, <1>6 DEF Owing, Owes
  <2> DEFINE c == Cardinality(Owing(j, p))
             d == Cardinality(Owing(j, p)')
  <2>3. d <= c - 1 /\ c \in Nat /\ d \in Nat
    <3>1. IsFiniteSet(Owing(j, p)) /\ c \in Nat
      BY OwingFinite
    <3>2. IsFiniteSet(Owing(j, p) \ {w}) /\ Cardinality(Owing(j, p) \ {w}) = c - 1
      BY <2>2, <3>1, FS_RemoveElement
    <3>3. IsFiniteSet(Owing(j, p)') /\ d <= Cardinality(Owing(j, p) \ {w})
      BY <2>2, <3>2, FS_Subset
    <3>4. d \in Nat
      BY <3>3, FS_CardinalityType
    <3> HIDE DEF c, d
    <3> QED BY <3>1, <3>2, <3>3, <3>4
  <2>4. accepted[j][p] + c + (IF Open(j) THEN 1 ELSE 0) <= 1 + faults
    BY DEF Budget, WithinBudget, InBudget
  <2> SUFFICES accepted'[j][p] + d + (IF Open(j)' THEN 1 ELSE 0) <= 1 + faults
    BY <1>2 DEF InBudget
  <2> HIDE DEF c, d
  <2>5. accepted[j][p] \in Nat
    BY <1>1
  <2> QED BY <1>1, <1>4, <2>1, <2>3, <2>4, <2>5
<1> QED BY <1>5, <1>6

\* Who touches the queue.
LEMMA JobsOfActors ==
  ASSUME Next
  PROVE  \/ UNCHANGED job
         \/ \E r \in Reminder : AddJob(r) \/ RecoverRow(r)
         \/ \E w \in Slot : Complete(w) \/ Throw(w) \/ \E j \in JobId : Take(w, j)
         \/ \E j \in JobId : ExpireLock(j) \/ LoseLock(j) \/ RecoverStalled(j) \/ Bury(j) \/ Forget(j)
         \/ \E r \in request.rows : RemoveJob(r)
BY NextSplit DEF queueVars, Produce, CreateRow, LoseJob, Delivered, Handle, Load, Gate,
  WriteCancelled, SendAccepted, SendRefused, IncrementUsage, LogMessage, WriteSent,
  WriteFailed, HandlerError, Crash, Listen, ExhaustedRow, ExhaustedDlq, Failover,
  ListenerDies, BeginRecovery, BeginCancel, BeginOptOut, OptOutAgain, Serve, ReadPending,
  CancelRow, EndRequest, RequestDies

LEMMA OwnersStayActive ==
  ASSUME Budget, Next
  PROVE  OwnersAreActive'
<1>1. /\ job \in [JobId -> Job] /\ \A j \in JobId : Sound(job[j])
      /\ slot \in [Slot -> Handler] /\ \A w \in Slot : slot[w].at # "idle" => slot[w].job \in JobId
  BY DEF Budget, Typing, TypeOK, OwnersAreActive, Sound, WorkersHaveJobs, Handler
<1>2. /\ Sound(NoJob)
      /\ \A j \in JobId :
           /\ Sound(Added(job[j])) /\ Sound(Completed(job[j])) /\ Sound(Unlocked(job[j]))
           /\ \A n \in Nat : Sound(Failed(job[j], n))
           /\ \A w \in Slot : Sound(Started(job[j], w))
           /\ Stalled(job[j]) => Sound(Recovered(job[j]))
           /\ GivenUp(job[j]) => Sound(Buried(job[j]))
  <2>1. Sound(NoJob)
    BY DEF Sound, NoJob
  <2> QED BY <1>1, <2>1, LocksOfOperations, DeliveryAssumption
<1> SUFFICES \A j \in JobId : Sound(job'[j])
  BY DEF OwnersAreActive, Sound
<1>3. CASE \E r \in Reminder : AddJob(r) \/ RecoverRow(r)
  BY <1>1, <1>2, <1>3 DEF AddJob, RecoverRow
<1>4. ASSUME NEW w \in Slot, Complete(w) \/ Throw(w) \/ (\E j \in JobId : Take(w, j))
      PROVE  \A j \in JobId : Sound(job'[j])
  <2>1. CASE \E j \in JobId : Take(w, j)
    BY <1>1, <1>2, <2>1 DEF Take
  <2>2. CASE Complete(w)
    BY <1>1, <1>2, <2>2 DEF Complete
  <2>3. CASE Throw(w)
    <3>1. slot[w].job \in JobId /\ Attempts[slot[w].job[2]] \in Nat
      BY <1>1, <2>3, DeliveryAssumption DEF Throw, JobId
    <3> QED BY <1>1, <1>2, <2>3, <3>1 DEF Throw
  <2> QED BY <1>4, <2>1, <2>2, <2>3
<1>5. CASE \E j \in JobId : ExpireLock(j) \/ LoseLock(j) \/ RecoverStalled(j) \/ Bury(j) \/ Forget(j)
  BY <1>1, <1>2, <1>5 DEF ExpireLock, LoseLock, RecoverStalled, Bury, Forget
<1>6. CASE \E r \in request.rows : RemoveJob(r)
  BY <1>1, <1>2, <1>6 DEF RemoveJob
<1>7. CASE UNCHANGED job
  BY <1>1, <1>7
<1> QED BY <1>3, <1>4, <1>5, <1>6, <1>7, JobsOfActors

\* A row comes into being once, and PENDING is a state it never returns to.
LEMMA RowsAge ==
  ASSUME Budget, Next
  PROVE  \/ \E r \in Reminder, x \in Prefix : CreateRow(r, x)
         \/ \A r \in Reminder :
              /\ row'[r] = "PENDING" => row[r] = "PENDING"
              /\ row'[r] = "absent" => row[r] = "absent"
<1>1. row \in [Reminder -> RowStatus]
  BY DEF Budget, Typing, TypeOK
<1>2. ASSUME UNCHANGED row
      PROVE  \A r \in Reminder : /\ row'[r] = "PENDING" => row[r] = "PENDING"
                                 /\ row'[r] = "absent" => row[r] = "absent"
  BY <1>2
<1>3. ASSUME \/ \E w \in Slot : WriteCancelled(w) \/ WriteSent(w) \/ WriteFailed(w)
             \/ \E j \in JobId : ExhaustedRow(j)
             \/ \E r \in Reminder : Delivered(r)
             \/ CancelRow \/ EndRequest
      PROVE  \A r \in Reminder : /\ row'[r] = "PENDING" => row[r] = "PENDING"
                                 /\ row'[r] = "absent" => row[r] = "absent"
  BY <1>1, <1>3 DEF WriteCancelled, WriteSent, WriteFailed, Update, ExhaustedRow, Delivered,
    CancelRow, EndRequest
<1> QED BY ZenonT(60), <1>2, <1>3, NextSplit DEF Handle, Produce, Listen, AddJob, LoseJob, Take, Load,
  Gate, SendAccepted, SendRefused, IncrementUsage, LogMessage, Complete, Throw, HandlerError,
  Crash, ExpireLock, LoseLock, RecoverStalled, Bury, Forget, ExhaustedDlq, Failover, ListenerDies,
  BeginRecovery, RecoverRow, BeginCancel, BeginOptOut, OptOutAgain, Serve, ReadPending,
  RemoveJob, RequestDies

\* Only an accepted send counts as a copy.
LEMMA CopiesOfSends ==
  ASSUME Next
  PROVE  UNCHANGED accepted \/ \E w \in Slot, q \in Person : SendAccepted(w, q)
BY NextSplit DEF sendVars, Handle, Produce, Listen, CreateRow, AddJob, LoseJob, Delivered,
  Take, Load, Gate, WriteCancelled, SendRefused, IncrementUsage, LogMessage, WriteSent,
  WriteFailed, Complete, Throw, HandlerError, Crash, ExpireLock, LoseLock, RecoverStalled,
  Bury, Forget, ExhaustedRow, ExhaustedDlq, Failover, ListenerDies, BeginRecovery, RecoverRow,
  BeginCancel, BeginOptOut, OptOutAgain, Serve, ReadPending, RemoveJob, CancelRow,
  EndRequest, RequestDies

\* Nobody touches anything of a row that does not exist.
LEMMA AbsentStaysFresh ==
  ASSUME Budget, Next
  PROVE  AbsentIsFresh'
<1>1. /\ job \in [JobId -> Job] /\ slot \in [Slot -> Handler]
      /\ \A w \in Slot : slot[w].at # "idle" => slot[w].job \in JobId
      /\ row \in [Reminder -> RowStatus] /\ producing \in [Reminder -> Prefix \cup {None}]
      /\ accepted \in [JobId -> [Person -> Nat]]
      /\ None \notin JobId /\ None \notin Prefix
  BY DeliveryAssumption DEF Budget, Typing, TypeOK, WorkersHaveJobs, Handler
<1> SUFFICES ASSUME NEW j \in JobId, row'[Row(j)] = "absent"
             PROVE  /\ producing'[Row(j)] = None /\ Row(j) \notin recovering'
                    /\ job'[j].st = "none"
                    /\ \A w \in Slot : slot'[w].job # j
                    /\ \A p \in Person : accepted'[j][p] = 0
  BY DEF AbsentIsFresh
<1>2. Row(j) \in Reminder /\ \A r \in Reminder, x \in Prefix : j = <<r, x>> => Row(j) = r
  BY DEF Row, JobId
<1>3. row[Row(j)] = "absent"
  BY <1>1, <1>2, RowsAge DEF CreateRow
<1>4. /\ producing[Row(j)] = None /\ Row(j) \notin recovering
      /\ job[j].st = "none" /\ job[j].owner = None
      /\ \A w \in Slot : slot[w].job # j
      /\ \A p \in Person : accepted[j][p] = 0
  BY <1>3 DEF Budget, AbsentIsFresh, OwnersAreActive
<1>5. producing'[Row(j)] = None /\ Row(j) \notin recovering'
  <2>1. CASE \E r \in Reminder, x \in Prefix : CreateRow(r, x)
    BY <1>1, <1>2, <1>3, <1>4, <2>1 DEF CreateRow, actorVars
  <2>2. CASE \E r \in Reminder : AddJob(r) \/ LoseJob(r) \/ RecoverRow(r)
    BY <1>1, <1>2, <1>4, <2>2 DEF AddJob, LoseJob, RecoverRow, actorVars
  <2>3. CASE BeginRecovery
    BY <1>3, <1>4, <2>3 DEF BeginRecovery, queueVars
  <2>4. CASE UNCHANGED <<producing, recovering>>
    BY <1>4, <2>4
  <2> QED BY <2>1, <2>2, <2>3, <2>4, NextSplit, ZenonT(30)
    DEF queueVars, actorVars, Handle, Produce, Listen,
    Take, Load, Gate, WriteCancelled, SendAccepted, SendRefused, IncrementUsage, LogMessage,
    WriteSent, WriteFailed, Complete, Throw, HandlerError, Crash, ExpireLock, LoseLock,
    RecoverStalled, Bury, Forget, ExhaustedRow, ExhaustedDlq, Failover, ListenerDies, Delivered,
    BeginCancel, BeginOptOut, OptOutAgain, Serve, ReadPending, RemoveJob, CancelRow,
    EndRequest, RequestDies
<1>6. job'[j].st = "none"
  <2>1. CASE \E r \in Reminder : AddJob(r) \/ RecoverRow(r)
    BY <1>1, <1>2, <1>4, <2>1 DEF AddJob, RecoverRow, JobId, Prefix, Row
  <2>2. CASE \E w \in Slot : Complete(w) \/ Throw(w) \/ \E k \in JobId : Take(w, k)
    BY <1>1, <1>4, <2>2 DEF Complete, Throw, Take, Startable
  <2>3. CASE \E k \in JobId : ExpireLock(k) \/ LoseLock(k) \/ RecoverStalled(k) \/ Bury(k) \/ Forget(k)
    BY <1>1, <1>4, <2>3 DEF ExpireLock, LoseLock, RecoverStalled, Bury, Forget, Stalled, GivenUp,
         NoJob
  <2>4. CASE \E r \in request.rows : RemoveJob(r)
    <3>1. PICK k \in JobId \cup (request.rows \X {"reminder"}) :
            UNCHANGED job \/ job' = [job EXCEPT ![k] = NoJob]
      BY <2>4 DEF RemoveJob
    <3>2. NoJob.st = "none"
      BY DEF NoJob
    <3> QED BY <1>1, <1>4, <3>1, <3>2
  <2>5. CASE UNCHANGED job
    BY <1>4, <2>5
  <2> QED BY <2>1, <2>2, <2>3, <2>4, <2>5, JobsOfActors
<1>7. \A w \in Slot : slot'[w].job # j
  <2>1. ASSUME NEW w \in Slot,
               \/ Handle(w) \/ HandlerError(w) \/ Crash(w)
               \/ \E k \in JobId : Take(w, k)
        PROVE  \A v \in Slot : slot'[v].job # j
    <3>1. CASE \E k \in JobId : Take(w, k)
      BY <1>1, <1>4, <3>1 DEF Take, Startable, Idle
    <3>2. CASE Complete(w) \/ Throw(w) \/ Crash(w)
      BY <1>1, <1>4, <3>2 DEF Complete, Throw, Crash, Idle
    <3>3. CASE Load(w) \/ (\E allowed \in BOOLEAN : Gate(w, allowed))
      <4>1. CASE Load(w)
        <5>1. slot'[w].job = slot[w].job /\ \A v \in Slot : v # w => slot'[v] = slot[v]
          BY <1>1, <4>1 DEF Handler, Load
        <5> QED BY <1>4, <5>1
      <4>2. CASE \E allowed \in BOOLEAN : Gate(w, allowed)
        <5>1. slot'[w].job = slot[w].job /\ \A v \in Slot : v # w => slot'[v] = slot[v]
          BY <1>1, <4>2 DEF Handler, Gate
        <5> QED BY <1>4, <5>1
      <4> QED BY <3>3, <4>1, <4>2
    <3>4. CASE \E p \in Person : SendAccepted(w, p) \/ SendRefused(w, p)
      <4>1. slot'[w].job = slot[w].job /\ \A v \in Slot : v # w => slot'[v] = slot[v]
        BY <1>1, <3>4 DEF Handler, SendAccepted, SendRefused
      <4> QED BY <1>4, <4>1
    <3>5. CASE IncrementUsage(w) \/ LogMessage(w) \/ HandlerError(w)
      <4>1. slot'[w].job = slot[w].job /\ \A v \in Slot : v # w => slot'[v] = slot[v]
        BY <1>1, <3>5 DEF Handler, IncrementUsage, LogMessage, HandlerError
      <4> QED BY <1>4, <4>1
    <3>6. CASE WriteCancelled(w) \/ WriteSent(w) \/ WriteFailed(w)
      <4>1. slot'[w].job = slot[w].job /\ \A v \in Slot : v # w => slot'[v] = slot[v]
        BY <1>1, <3>6 DEF Handler, WriteCancelled, WriteSent, WriteFailed, Update
      <4> QED BY <1>4, <4>1
    <3> QED BY <2>1, <3>1, <3>2, <3>3, <3>4, <3>5, <3>6 DEF Handle
  <2>2. CASE UNCHANGED slot
    BY <1>4, <2>2
  <2> QED BY <2>1, <2>2, SlotsOfHandlers DEF Budget
<1>8. \A p \in Person : accepted'[j][p] = 0
  <2>1. CASE UNCHANGED accepted
    BY <1>4, <2>1
  <2>2. ASSUME NEW w \in Slot, NEW q \in Person, SendAccepted(w, q)
        PROVE  \A p \in Person : accepted'[j][p] = 0
    BY <1>1, <1>4, <2>2 DEF SendAccepted
  <2> QED BY <2>1, <2>2, CopiesOfSends
<1> QED BY <1>5, <1>6, <1>7, <1>8

\* A handler that returns leaves a settled row, and the row stays settled.
LEMMA ReturnsStaySettled ==
  ASSUME Budget, Next
  PROVE  ReturnsSettled'
<1>1. /\ slot \in [Slot -> Handler] /\ row \in [Reminder -> RowStatus]
      /\ \A w \in Slot : slot[w].at # "idle" => slot[w].job \in JobId /\ Row(slot[w].job) \in Reminder
  BY DEF Budget, Typing, TypeOK, WorkersHaveJobs, Handler, JobId, Row
<1>2. ASSUME NEW w \in Slot, slot[w].at # "idle", row[Row(slot[w].job)] # "PENDING"
      PROVE  row'[Row(slot[w].job)] # "PENDING"
  <2>1. row[Row(slot[w].job)] # "absent"
    BY <1>1, <1>2 DEF Budget, AbsentIsFresh
  <2> QED BY <1>1, <1>2, <2>1, RowsAge DEF CreateRow
<1>3. ASSUME NEW w \in Slot, slot'[w] = slot[w], slot'[w].at = "complete"
      PROVE  row'[Row(slot'[w].job)] # "PENDING"
  BY <1>2, <1>3 DEF Budget, ReturnsSettled
<1>4. ASSUME NEW w \in Slot,
             \/ Handle(w) \/ HandlerError(w) \/ Crash(w)
             \/ \E k \in JobId : Take(w, k)
      PROVE  /\ \A v \in Slot : v # w => slot'[v] = slot[v]
             /\ slot'[w].at = "complete" => row'[Row(slot'[w].job)] # "PENDING"
  <2>1. CASE \E k \in JobId : Take(w, k)
    BY <1>1, <2>1 DEF Take, Idle
  <2>2. CASE Complete(w) \/ Throw(w) \/ Crash(w)
    BY <1>1, <2>2 DEF Complete, Throw, Crash, Idle
  <2>3. CASE Load(w)
    BY <1>1, <2>3 DEF Handler, Load
  <2>4. CASE (\E allowed \in BOOLEAN : Gate(w, allowed)) \/ IncrementUsage(w)
    BY <1>1, <2>4 DEF Handler, Gate, IncrementUsage
  <2>5. CASE \E p \in Person : SendAccepted(w, p) \/ SendRefused(w, p)
    BY <1>1, <2>5 DEF Handler, SendAccepted, SendRefused
  <2>6. CASE LogMessage(w) \/ HandlerError(w)
    BY <1>1, <2>6 DEF Handler, LogMessage, HandlerError
  <2>7. CASE WriteCancelled(w)
    BY <1>1, <2>7 DEF Handler, WriteCancelled, Update
  <2>8. CASE WriteSent(w) \/ WriteFailed(w)
    BY <1>1, <2>8 DEF Handler, WriteSent, WriteFailed, Update
  <2> QED BY <1>4, <2>1, <2>2, <2>3, <2>4, <2>5, <2>6, <2>7, <2>8 DEF Handle
<1>5. CASE UNCHANGED slot
  BY <1>3, <1>5 DEF ReturnsSettled
<1> QED BY <1>3, <1>4, <1>5, SlotsOfHandlers DEF Budget, ReturnsSettled

LEMMA BudgetInit == Init => Budget
<1> SUFFICES ASSUME Init PROVE Budget
  OBVIOUS
<1>1. Typing
  BY TypingInit
<1>2. OwnersAreActive /\ AbsentIsFresh /\ ReturnsSettled
  BY DeliveryAssumption DEF Init, OwnersAreActive, AbsentIsFresh, ReturnsSettled, NoJob, Idle, Row, JobId
<1>3. ASSUME NEW j \in JobId, NEW p \in Person PROVE InBudget(j, p)
  <2>1. Owing(j, p) = {}
    BY DEF Init, Idle, Owing, Owes
  <2>2. Cardinality(Owing(j, p)) = 0
    BY <2>1, FS_EmptySet
  <2>3. Row(j) \in Reminder
    BY DEF Row, JobId
  <2>4. ~Open(j) /\ accepted[j][p] = 0 /\ faults = 0
    BY <2>3 DEF Init, Open
  <2> QED BY <2>2, <2>4 DEF InBudget
<1> QED BY <1>1, <1>2, <1>3 DEF Budget, WithinBudget

LEMMA BudgetKept == Budget /\ [Next]_vars => Budget'
<1> SUFFICES ASSUME Budget, [Next]_vars PROVE Budget'
  OBVIOUS
<1>1. Typing'
  BY TypingKept DEF Budget
<1>2. CASE UNCHANGED vars
  BY <1>1, <1>2 DEF vars, Budget, OwnersAreActive, AbsentIsFresh, ReturnsSettled,
    WithinBudget, InBudget, Owing, Owes, Open, Held
<1>3. CASE Next
  <2>1. ASSUME NEW j \in JobId, NEW p \in Person PROVE InBudget(j, p)'
    <3>1. InBudget(j, p) /\ TypeOK /\ Typing
      BY DEF Budget, Typing, WithinBudget
    <3>2. CASE \E r \in Reminder : Produce(r) \/ Delivered(r) \/ RecoverRow(r)
      <4>1. CASE \E r \in Reminder : AddJob(r) \/ LoseJob(r) \/ Delivered(r) \/ RecoverRow(r)
        BY <3>1, <4>1, QuietProducers, QuietIsCalm, CalmKeepsBudget
      <4>2. CASE \E r \in Reminder, x \in Prefix : CreateRow(r, x)
        BY <4>2, CreateRowInBudget
      <4> QED BY <3>2, <4>1, <4>2 DEF Produce
    <3>3. CASE \E w \in Slot : \/ Handle(w) \/ HandlerError(w) \/ Crash(w)
                               \/ \E k \in JobId : Take(w, k)
      BY <3>1, <3>3, CalmHandler, CalmKeepsBudget, SendInBudget, TakeInBudget DEF Handle
    <3>4. CASE \E k \in JobId : \/ ExpireLock(k) \/ LoseLock(k) \/ RecoverStalled(k) \/ Bury(k) \/ Forget(k)
                                \/ Listen(k) \/ ListenerDies(k)
      BY <3>1, <3>4, CalmLocks, QuietQueue, QuietIsCalm, CalmKeepsBudget
    <3>5. CASE \/ \E b \in Booking, mode \in Requests \ {"optout"} : BeginCancel(b, mode)
               \/ \E q \in {q \in Person : "optout" \in Requests} : BeginOptOut(q) \/ OptOutAgain(q)
               \/ Serve \/ RequestDies \/ BeginRecovery
      BY <3>1, <3>5, QuietRequests, QuietIsCalm, CalmKeepsBudget
    <3> QED BY <1>3, <3>2, <3>3, <3>4, <3>5, NextSplit
  <2> QED BY <1>1, <1>3, <2>1, OwnersStayActive, AbsentStaysFresh, ReturnsStaySettled
         DEF Budget, WithinBudget
<1> QED BY <1>2, <1>3

LEMMA BudgetAlways == Spec => []Budget
BY BudgetInit, BudgetKept, PTL DEF Spec

\* No job gives an addressee more copies than one and one for each fault,
\* however many slots, retries, requests and runs of the recovery script.
THEOREM CopiesArePaidFor == Spec => []CopiesPaidFor
<1>1. Budget => CopiesPaidFor
  <2> SUFFICES ASSUME Budget, NEW j \in JobId, NEW p \in Person
               PROVE  accepted[j][p] <= 1 + faults
    BY DEF CopiesPaidFor
  <2>1. accepted[j][p] \in Nat /\ faults \in Nat
    BY DeliveryAssumption DEF Budget, Typing, TypeOK
  <2> DEFINE c == Cardinality(Owing(j, p))
  <2>2. c \in Nat
    BY OwingFinite
  <2>3. accepted[j][p] + c + (IF Open(j) THEN 1 ELSE 0) <= 1 + faults
    BY DEF Budget, WithinBudget, InBudget
  <2> HIDE DEF c
  <2> QED BY <2>1, <2>2, <2>3
<1> QED BY <1>1, BudgetAlways, PTL

-----------------------------------------------------------------------------
(* A settled reminder stays settled. *)

\* Only Load lets a handler go to work on a row, and it asks for PENDING.
LEMMA WorkIsLoaded ==
  ASSUME Typing, Next, NEW v \in Slot,
         slot'[v].at \in {"gate", "send", "bill", "log", "cancel"}
  PROVE  /\ slot'[v].job = slot[v].job
         /\ \/ slot[v].at \in {"gate", "send", "bill", "log", "cancel"}
            \/ slot[v].at = "load" /\ row[Row(slot[v].job)] = "PENDING"
<1>1. slot \in [Slot -> Handler]
  BY DEF Typing, TypeOK
<1>2. CASE slot'[v] = slot[v]
  BY <1>2
<1>3. ASSUME NEW w \in Slot,
             \/ Handle(w) \/ HandlerError(w) \/ Crash(w)
             \/ \E k \in JobId : Take(w, k)
      PROVE  \/ slot'[v] = slot[v]
             \/ /\ slot'[v].job = slot[v].job
                /\ \/ slot[v].at \in {"gate", "send", "bill", "log", "cancel"}
                   \/ slot[v].at = "load" /\ row[Row(slot[v].job)] = "PENDING"
  <2>1. CASE \E k \in JobId : Take(w, k)
    BY <1>1, <2>1 DEF Take, Idle
  <2>2. CASE Complete(w) \/ Throw(w) \/ Crash(w)
    BY <1>1, <2>2 DEF Complete, Throw, Crash, Idle
  <2>3. CASE Load(w)
    BY <1>1, <2>3 DEF Handler, Load
  <2>4. CASE (\E allowed \in BOOLEAN : Gate(w, allowed)) \/ IncrementUsage(w)
    BY <1>1, <2>4 DEF Handler, Gate, IncrementUsage
  <2>5. CASE \E p \in Person : SendAccepted(w, p) \/ SendRefused(w, p)
    BY <1>1, <2>5 DEF Handler, SendAccepted, SendRefused
  <2>6. CASE LogMessage(w) \/ HandlerError(w)
    BY <1>1, <2>6 DEF Handler, LogMessage, HandlerError
  <2>7. CASE WriteCancelled(w) \/ WriteSent(w) \/ WriteFailed(w)
    BY <1>1, <2>7 DEF Handler, WriteCancelled, WriteSent, WriteFailed, Update
  <2> QED BY <1>3, <2>1, <2>2, <2>3, <2>4, <2>5, <2>6, <2>7 DEF Handle
<1> QED BY <1>2, <1>3, SlotsOfHandlers

LEMMA SettledStep ==
  ASSUME Budget, Next, NEW r \in Reminder, Settled(r)
  PROVE  /\ Settled(r)'
         /\ \A x \in Prefix : accepted'[<<r, x>>] = accepted[<<r, x>>]
<1>1. row'[r] \notin {"absent", "PENDING"}
  <2>1. row \in [Reminder -> RowStatus]
    BY DEF Budget, Typing, TypeOK
  <2> QED BY <2>1, RowsAge DEF Settled, CreateRow
<1>2. ASSUME NEW v \in Slot, slot'[v].at \in {"gate", "send", "bill", "log", "cancel"}
      PROVE  Row(slot'[v].job) # r
  BY <1>2, WorkIsLoaded DEF Budget, Settled
<1>3. ASSUME NEW x \in Prefix PROVE accepted'[<<r, x>>] = accepted[<<r, x>>]
  <2>1. CASE UNCHANGED accepted
    BY <2>1
  <2>2. ASSUME NEW w \in Slot, NEW q \in Person, SendAccepted(w, q)
        PROVE  accepted'[<<r, x>>] = accepted[<<r, x>>]
    <3>1. Row(slot[w].job) # r
      BY <2>2 DEF SendAccepted, Settled
    <3>2. slot[w].job # <<r, x>>
      BY <3>1 DEF Row
    <3>3. accepted \in [JobId -> [Person -> Nat]] /\ <<r, x>> \in JobId
      BY DEF Budget, Typing, TypeOK, JobId
    <3> QED BY <2>2, <3>2, <3>3 DEF SendAccepted
  <2> QED BY <2>1, <2>2, CopiesOfSends
<1> QED BY <1>1, <1>2, <1>3 DEF Settled

\* A settled reminder gets no further handler and no further copy.
THEOREM SettledReminders == Spec => SettledForGood
<1>1. Budget /\ [Next]_vars =>
        [\A r \in Reminder : Settled(r) =>
           /\ Settled(r)'
           /\ \A x \in Prefix : accepted'[<<r, x>>] = accepted[<<r, x>>]]_vars
  BY SettledStep
<1> QED BY <1>1, BudgetAlways, PTL DEF Spec, SettledForGood

-----------------------------------------------------------------------------
(* What SENT and DELIVERED say. *)

\* A copy of the reminder is with a provider.
Reached(r) == GotThrough(r) \/ escalated[r] > 0

\* A handler that has noted a success, and a message that was logged, have a
\* copy behind them.
Evidence ==
  /\ \A w \in Slot, r \in Reminder :
       slot[w].at # "idle" /\ slot[w].ok /\ Row(slot[w].job) = r => Reached(r)
  /\ \A w \in Slot : slot[w].at \in {"bill", "log"} => slot[w].ok
  /\ \A r \in logged : Reached(r)
  /\ \A r \in Reminder : row[r] \in {"SENT", "DELIVERED"} => Reached(r)

\* A copy that went out stays out.
LEMMA ReachedStays ==
  ASSUME TypeOK, Next, NEW r \in Reminder, Reached(r)
  PROVE  Reached(r)'
<1>1. /\ accepted \in [JobId -> [Person -> Nat]] /\ escalated \in [Reminder -> Nat]
      /\ \A x \in Prefix : <<r, x>> \in JobId
  BY DEF TypeOK, JobId
<1>2. CASE UNCHANGED <<accepted, escalated>>
  BY <1>2 DEF Reached, GotThrough
<1>3. ASSUME NEW j \in JobId, Failover(j) PROVE Reached(r)'
  <2>1. UNCHANGED accepted
    BY <1>3 DEF Failover
  <2>2. Row(j) \in Reminder
    BY DEF Row, JobId
  <2>3. escalated[r] > 0 => escalated'[r] > 0
    BY <1>1, <1>3, <2>2 DEF Failover
  <2> QED BY <2>1, <2>3 DEF Reached, GotThrough
<1>4. ASSUME NEW w \in Slot, NEW q \in Person, SendAccepted(w, q) PROVE Reached(r)'
  <2>1. escalated' = escalated
    BY <1>4 DEF SendAccepted
  <2>2. \A j \in JobId, p \in Person : accepted'[j][p] >= accepted[j][p]
    BY <1>1, <1>4 DEF SendAccepted
  <2>3. \A j \in JobId, p \in Person : accepted'[j][p] \in Int /\ accepted[j][p] \in Int
    BY <1>1, <1>4 DEF SendAccepted
  <2>4. ASSUME GotThrough(r) PROVE GotThrough(r)'
    <3>1. PICK x \in Prefix, p \in Person : accepted[<<r, x>>][p] > 0
      BY <2>4 DEF GotThrough
    <3>2. accepted'[<<r, x>>][p] > 0
      BY <1>1, <2>2, <2>3, <3>1
    <3> QED BY <3>2 DEF GotThrough
  <2> QED BY <2>1, <2>4 DEF Reached
<1>5. UNCHANGED escalated \/ \E j \in JobId : Failover(j)
  BY ZenonT(60), NextSplit DEF sendVars, Handle, Produce, Listen, CreateRow, AddJob, LoseJob, Delivered,
    Take, Load, Gate, WriteCancelled, SendAccepted, SendRefused, IncrementUsage, LogMessage,
    WriteSent, WriteFailed, Complete, Throw, HandlerError, Crash, ExpireLock, LoseLock,
    RecoverStalled, Bury, Forget, ExhaustedRow, ExhaustedDlq, BeginRecovery, ListenerDies,
    RecoverRow, BeginCancel, BeginOptOut, OptOutAgain, Serve, ReadPending, RemoveJob,
    CancelRow, EndRequest, RequestDies
<1> QED BY <1>2, <1>3, <1>4, <1>5, CopiesOfSends

\* The slots of a step, with what a handler must know to note a success.
LEMMA SuccessIsReached ==
  ASSUME Typing, Evidence, Next, NEW v \in Slot
  PROVE  /\ slot'[v].at \in {"bill", "log"} => slot'[v].ok
         /\ \A r \in Reminder :
              slot'[v].at # "idle" /\ slot'[v].ok /\ Row(slot'[v].job) = r => Reached(r)'
<1> DEFINE Keeps == /\ slot'[v].at # "idle" => slot[v].at # "idle" /\ slot'[v].job = slot[v].job
                    /\ slot'[v].ok => slot[v].ok
                    /\ slot'[v].at \in {"bill", "log"} => slot'[v].ok
<1>1. /\ slot \in [Slot -> Handler]
      /\ \A w \in Slot : slot[w].at # "idle" => slot[w].job \in JobId /\ Row(slot[w].job) \in Reminder
  BY DEF Typing, TypeOK, WorkersHaveJobs, Handler, JobId, Row
<1>2. CASE Keeps
  <2>1. \A r \in Reminder : Reached(r) => Reached(r)'
    BY ReachedStays DEF Typing
  <2> QED BY <1>2, <2>1 DEF Evidence
<1>3. ASSUME NEW q \in Person, SendAccepted(v, q)
      PROVE  /\ slot'[v].at \in {"bill", "log"} => slot'[v].ok
             /\ \A r \in Reminder :
                  slot'[v].at # "idle" /\ slot'[v].ok /\ Row(slot'[v].job) = r => Reached(r)'
  <2>1. slot'[v].ok /\ slot'[v].job = slot[v].job /\ slot[v].job \in JobId
    BY <1>1, <1>3 DEF SendAccepted, Handler
  <2>2. PICK s \in Reminder, x \in Prefix : slot[v].job = <<s, x>>
    BY <2>1 DEF JobId
  <2>3. accepted'[<<s, x>>][q] > 0
    <3>1. accepted \in [JobId -> [Person -> Nat]] /\ <<s, x>> \in JobId
      BY DEF Typing, TypeOK, JobId
    <3>2. accepted' = [accepted EXCEPT ![<<s, x>>][q] = @ + 1]
      BY <1>3, <2>2 DEF SendAccepted
    <3>3. accepted'[<<s, x>>][q] = accepted[<<s, x>>][q] + 1 /\ accepted[<<s, x>>][q] \in Nat
      BY <3>1, <3>2
    <3> QED BY <3>3
  <2>4. Reached(s)'
    BY <2>3 DEF Reached, GotThrough
  <2>5. Row(slot'[v].job) = s
    BY <2>1, <2>2 DEF Row
  <2> QED BY <2>1, <2>4, <2>5
<1>4. ASSUME NEW w \in Slot,
             \/ Handle(w) \/ HandlerError(w) \/ Crash(w)
             \/ \E k \in JobId : Take(w, k),
             ~ \E q \in Person : SendAccepted(v, q)
      PROVE  Keeps \/ (slot'[v].at \notin {"bill", "log"} /\ ~slot'[v].ok)
  <2> USE DEF Evidence
  <2>1. CASE w # v
    <3>1. slot'[v] = slot[v]
      BY <1>1, <1>4, <2>1 DEF Handle, Load, Gate, WriteCancelled, SendAccepted, SendRefused,
        IncrementUsage, LogMessage, WriteSent, WriteFailed, Complete, Throw, HandlerError,
        Crash, Take, Update
    <3> QED BY <3>1
  <2>2. CASE w = v
    <3>1. CASE \E k \in JobId : Take(v, k)
      BY <1>1, <3>1 DEF Take, Idle
    <3>2. CASE Complete(v) \/ Throw(v) \/ Crash(v)
      BY <1>1, <3>2 DEF Complete, Throw, Crash, Idle
    <3>3. CASE Load(v)
      BY <1>1, <3>3 DEF Handler, Load
    <3>4. CASE (\E allowed \in BOOLEAN : Gate(v, allowed)) \/ IncrementUsage(v)
      BY <1>1, <3>4 DEF Handler, Gate, IncrementUsage
    <3>5. CASE \E p \in Person : SendRefused(v, p)
      BY <1>1, <3>5 DEF Handler, SendRefused
    <3>6. CASE LogMessage(v) \/ HandlerError(v)
      BY <1>1, <3>6 DEF Handler, LogMessage, HandlerError
    <3>7. CASE WriteCancelled(v) \/ WriteSent(v) \/ WriteFailed(v)
      BY <1>1, <3>7 DEF Handler, WriteCancelled, WriteSent, WriteFailed, Update
    <3> QED BY <1>4, <2>2, <3>1, <3>2, <3>3, <3>4, <3>5, <3>6, <3>7 DEF Handle
  <2> QED BY <2>1, <2>2
<1>5. CASE UNCHANGED slot
  <2>1. Keeps
    BY <1>5 DEF Evidence
  <2> QED BY <1>2, <2>1
<1> QED BY <1>2, <1>3, <1>4, <1>5, SlotsOfHandlers

LEMMA EvidenceKept ==
  ASSUME Budget, Evidence, Next
  PROVE  Evidence'
<1>1. /\ row \in [Reminder -> RowStatus] /\ slot \in [Slot -> Handler]
      /\ escalated \in [Reminder -> Nat]
      /\ \A w \in Slot : slot[w].at # "idle" => slot[w].job \in JobId /\ Row(slot[w].job) \in Reminder
      /\ \A j \in JobId : Row(j) \in Reminder
  BY DEF Budget, Typing, TypeOK, WorkersHaveJobs, Handler, JobId, Row
<1>2. \A r \in Reminder : Reached(r) => Reached(r)'
  BY ReachedStays DEF Budget, Typing
<1>3. ASSUME NEW r \in logged' PROVE r \in Reminder /\ Reached(r)'
  <2>1. CASE r \in logged
    BY <1>2, <2>1 DEF Evidence, Budget, Typing, TypeOK
  <2>2. ASSUME NEW w \in Slot, LogMessage(w), r \notin logged PROVE r \in Reminder /\ Reached(r)'
    <3>1. r = Row(slot[w].job) /\ slot[w].at = "log"
      BY <1>3, <2>2 DEF LogMessage
    <3> QED BY <1>1, <1>2, <3>1 DEF Evidence
  <2>3. ASSUME NEW j \in JobId, Failover(j), r \notin logged PROVE r \in Reminder /\ Reached(r)'
    <3>1. r = Row(j) /\ escalated'[r] > 0
      BY <1>1, <1>3, <2>3 DEF Failover
    <3> QED BY <1>1, <3>1 DEF Reached
  <2> QED BY ZenonT(60), <1>3, <2>1, <2>2, <2>3, NextSplit DEF sendVars, Handle, Produce, Listen, CreateRow,
    AddJob, LoseJob, Delivered, Take, Load, Gate, WriteCancelled, SendAccepted, SendRefused,
    IncrementUsage, WriteSent, WriteFailed, Complete, Throw, HandlerError, Crash, ExpireLock,
    LoseLock, RecoverStalled, Bury, Forget, ExhaustedRow, ExhaustedDlq, BeginRecovery, ListenerDies,
    RecoverRow, BeginCancel, BeginOptOut, OptOutAgain, Serve, ReadPending, RemoveJob,
    CancelRow, EndRequest, RequestDies
<1>4. ASSUME NEW r \in Reminder, row'[r] \in {"SENT", "DELIVERED"} PROVE Reached(r)'
  <2>1. CASE row[r] \in {"SENT", "DELIVERED"}
    BY <1>2, <2>1 DEF Evidence
  <2>2. CASE Delivered(r)
    BY <1>2, <2>2 DEF Delivered, Evidence
  <2>3. ASSUME NEW w \in Slot, WriteSent(w), row'[r] # row[r] PROVE Reached(r)'
    BY <1>1, <1>2, <2>3 DEF WriteSent, Update, Evidence
  <2>4. \/ row'[r] = row[r] \/ row'[r] \notin {"SENT", "DELIVERED"} \/ Delivered(r)
        \/ \E w \in Slot : WriteSent(w)
    <3>1. CASE \E w \in Slot : WriteCancelled(w) \/ WriteFailed(w)
      BY <1>1, <3>1 DEF WriteCancelled, WriteFailed, Update
    <3>2. CASE \/ \E j \in JobId : ExhaustedRow(j)
               \/ \E s \in Reminder, x \in Prefix : CreateRow(s, x)
               \/ CancelRow \/ EndRequest
      BY <1>1, <3>2 DEF ExhaustedRow, CreateRow, CancelRow, EndRequest
    <3>3. CASE \E s \in Reminder : Delivered(s)
      BY <1>1, <3>3 DEF Delivered
    <3> QED BY <3>1, <3>2, <3>3, NextSplit DEF Handle, Produce, Listen, AddJob, LoseJob, Take, Load,
      Gate, SendAccepted, SendRefused, IncrementUsage, LogMessage, Complete, Throw, HandlerError,
      Crash, ExpireLock, LoseLock, RecoverStalled, Bury, Forget, ExhaustedDlq, Failover, ListenerDies,
      BeginRecovery, RecoverRow, BeginCancel, BeginOptOut, OptOutAgain, Serve, ReadPending,
      RemoveJob, RequestDies
  <2> QED BY <1>4, <2>1, <2>2, <2>3, <2>4
<1>5. \A w \in Slot :
        /\ slot'[w].at \in {"bill", "log"} => slot'[w].ok
        /\ \A r \in Reminder :
             slot'[w].at # "idle" /\ slot'[w].ok /\ Row(slot'[w].job) = r => Reached(r)'
  BY SuccessIsReached DEF Budget
<1> QED BY <1>3, <1>4, <1>5 DEF Evidence

\* A row that reads SENT or DELIVERED has a copy behind it, in every interleaving of
\* handlers, cancellations, faults and callbacks.
THEOREM SentWasSent == Spec => []SentWasAccepted
<1>1. Init => Evidence
  BY DEF Init, Evidence, Idle
<1>2. Budget /\ Evidence /\ [Next]_vars => Evidence'
  <2>1. Evidence /\ UNCHANGED vars => Evidence'
    BY DEF vars, Evidence, Reached, GotThrough
  <2> QED BY <2>1, EvidenceKept
<1>3. Evidence => SentWasAccepted
  BY DEF Evidence, SentWasAccepted, Reached
<1> QED BY <1>1, <1>2, <1>3, BudgetAlways, PTL DEF Spec

-----------------------------------------------------------------------------
(* Delivery implements the contract.                                          *)

LEMMA FaultsGrow ==
  ASSUME Next
  PROVE  faults' = faults \/ faults' = faults + 1
BY ZenonT(60), NextSplit DEF actorVars, Fault, Handle, Produce, Listen, CreateRow, AddJob, LoseJob,
  Delivered, Take, Load, Gate, WriteCancelled, SendAccepted, SendRefused, IncrementUsage,
  LogMessage, WriteSent, WriteFailed, Complete, Throw, HandlerError, Crash, ExpireLock,
  LoseLock, RecoverStalled, Bury, Forget, ExhaustedRow, ExhaustedDlq, Failover, ListenerDies,
  BeginRecovery, RecoverRow, BeginCancel, BeginOptOut, OptOutAgain, Serve, ReadPending,
  RemoveJob, CancelRow, EndRequest, RequestDies

\* No handler is at work on a row that does not exist.
LEMMA AbsentIsIdle ==
  ASSUME Budget, NEW r \in Reminder, row[r] = "absent", NEW w \in Slot, slot[w].at # "idle"
  PROVE  Row(slot[w].job) # r
<1>1. slot[w].job \in JobId
  BY DEF Budget, Typing, TypeOK, WorkersHaveJobs, Handler
<1> QED BY <1>1 DEF Budget, AbsentIsFresh

\* An accepted copy is a Send of the contract.
LEMMA SendMeetsContract ==
  ASSUME Budget, Budget', NEW w \in Slot, NEW q \in Person, SendAccepted(w, q)
  PROVE  Contract!Next
<1>0. PICK j \in JobId : slot[w].job = j
  BY DEF Budget, Typing, TypeOK, WorkersHaveJobs, Handler, SendAccepted
<1> DEFINE r == Row(j)
           c == <<j[2], q>>
<1>1. /\ j \in JobId /\ r \in Reminder /\ c \in Prefix \X Person /\ j = <<r, c[1]>> /\ c[2] = q
      /\ row \in [Reminder -> RowStatus] /\ slot \in [Slot -> Handler]
      /\ accepted \in [JobId -> [Person -> Nat]] /\ faults \in Nat
  BY DeliveryAssumption DEF Budget, Typing, TypeOK, SendAccepted, JobId, Row
<1>2. /\ accepted' = [accepted EXCEPT ![j][q] = @ + 1]
      /\ slot' = [slot EXCEPT ![w].at = "bill", ![w].todo = @ \ {q}, ![w].ok = TRUE]
      /\ slot[w].at = "send" /\ UNCHANGED <<row, faults>>
  BY <1>0 DEF SendAccepted, actorVars
<1>3. Stage[r] = "open"
  <2>1. row[r] # "absent"
    BY <1>0, <1>1, <1>2, AbsentIsIdle
  <2>2. ~Settled(r)
    BY <1>0, <1>2 DEF Settled
  <2> QED BY <1>1, <2>1, <2>2 DEF Stage
<1>4. CopiesSent[r][c] = accepted[j][q] /\ accepted[j][q] <= faults
  <2>1. accepted'[j][q] <= 1 + faults'
    <3>1. accepted'[j][q] + Cardinality(Owing(j, q))' + (IF Open(j)' THEN 1 ELSE 0) <= 1 + faults'
      <4>1. InBudget(j, q)'
        BY <1>1 DEF Budget, WithinBudget
      <4> QED BY <4>1 DEF InBudget
    <3>2. Cardinality(Owing(j, q))' \in Nat
      BY DeliveryAssumption, FS_Subset, FS_CardinalityType DEF Owing
    <3>3. accepted'[j][q] \in Nat
      BY <1>1, <1>2
    <3> QED BY <1>1, <1>2, <3>1, <3>2, <3>3
  <2>2. accepted'[j][q] = accepted[j][q] + 1 /\ accepted[j][q] \in Nat
    BY <1>1, <1>2
  <2>3. CopiesSent[r][c] = accepted[<<r, c[1]>>][c[2]]
    <3> HIDE DEF r, c
    <3> QED BY <1>1 DEF CopiesSent
  <2>4. accepted[j][q] <= faults
    BY <1>1, <1>2, <2>1, <2>2
  <2> QED BY <1>1, <2>3, <2>4
<1>5. Stage' = Stage
  <2>1. \A v \in Slot : /\ slot'[v].job = slot[v].job
                        /\ \/ slot'[v].at = slot[v].at
                           \/ slot'[v].at = "bill" /\ slot[v].at = "send"
    BY <1>1, <1>2 DEF Handler
  <2>2. ASSUME NEW s \in Reminder PROVE Settled(s)' = Settled(s)
    BY <1>2, <2>1 DEF Settled
  <2> QED BY <1>2, <2>2 DEF Stage
<1>6. CopiesSent' = [CopiesSent EXCEPT ![r][c] = @ + 1]
  <2>1. ASSUME NEW s \in Reminder, NEW d \in Prefix \X Person
        PROVE  accepted'[<<s, d[1]>>][d[2]] =
                 IF s = r /\ d = c THEN accepted[<<s, d[1]>>][d[2]] + 1
                                  ELSE accepted[<<s, d[1]>>][d[2]]
    <3>1. <<s, d[1]>> \in JobId /\ d = <<d[1], d[2]>> /\ d[2] \in Person
      BY DEF JobId
    <3>2. <<s, d[1]>> = j /\ d[2] = q <=> s = r /\ d = c
      BY <1>1, <3>1
    <3> HIDE DEF r, c
    <3> QED BY <1>1, <1>2, <3>1, <3>2
  <2> DEFINE K == Prefix \X Person
             N(s) == [d \in K |-> accepted[<<s, d[1]>>][d[2]]]
  <2>2. CopiesSent' = [s \in Reminder |-> [d \in K |-> accepted'[<<s, d[1]>>][d[2]]]]
    BY DEF CopiesSent
  <2>3. CopiesSent' = [s \in Reminder |-> [d \in K |-> IF s = r /\ d = c THEN N(s)[d] + 1 ELSE N(s)[d]]]
    BY <2>1, <2>2
  <2>4. CopiesSent = [s \in Reminder |-> N(s)]
    BY DEF CopiesSent
  <2>5. ASSUME NEW s \in Reminder
        PROVE  [d \in K |-> IF s = r /\ d = c THEN N(s)[d] + 1 ELSE N(s)[d]] =
                 IF s = r THEN [N(s) EXCEPT ![c] = @ + 1] ELSE N(s)
    <3> HIDE DEF r, c
    <3> QED BY <1>1
  <2> HIDE DEF r, c, N, K
  <2> QED BY <1>1, <2>3, <2>4, <2>5
<1>7. Contract!Send(r, c)
  BY <1>2, <1>3, <1>4, <1>5, <1>6 DEF Contract!Send
<1> HIDE DEF r, c
<1> QED BY <1>1, <1>7 DEF Contract!Next

\* A step that sends nothing opens a reminder, or settles some.
LEMMA StageMeetsContract ==
  ASSUME Budget, Next, UNCHANGED accepted
  PROVE  Contract!Next
<1>0. row \in [Reminder -> RowStatus]
  BY DEF Budget, Typing, TypeOK
<1>1. CopiesSent' = CopiesSent
  BY DEF CopiesSent
<1>2. ASSUME NEW r \in Reminder, NEW x \in Prefix, CreateRow(r, x)
      PROVE  Contract!Next
  <2>1. Stage[r] = "none"
    BY <1>2 DEF CreateRow, Stage, Settled
  <2>2. Stage' = [Stage EXCEPT ![r] = "open"]
    <3>1. \A s \in Reminder : s # r => row'[s] = row[s]
      BY <1>0, <1>2 DEF CreateRow
    <3>2. row'[r] = "PENDING" /\ slot' = slot
      BY <1>0, <1>2 DEF CreateRow
    <3>3. \A s \in Reminder : s # r => Settled(s)' = Settled(s)
      BY <3>1, <3>2 DEF Settled
    <3>4. ~Settled(r)'
      BY <3>2 DEF Settled
    <3> QED BY <3>1, <3>2, <3>3, <3>4 DEF Stage
  <2>3. faults' = faults
    BY <1>2 DEF CreateRow
  <2> QED BY <1>1, <2>1, <2>2, <2>3 DEF Contract!Next, Contract!Open
<1>3. ASSUME \A r \in Reminder : /\ row'[r] = "PENDING" => row[r] = "PENDING"
                                 /\ row'[r] = "absent" => row[r] = "absent"
      PROVE  Contract!Next
  <2> DEFINE R == {r \in Reminder : Settled(r)'}
  <2>1. ASSUME NEW r \in Reminder, ~Settled(r)'
        PROVE  ~Settled(r) /\ (row'[r] = "absent" <=> row[r] = "absent")
    <3>1. ~Settled(r)
      BY <2>1, SettledStep
    <3>2. ASSUME row[r] = "absent", row'[r] # "absent" PROVE FALSE
      <4>1. PICK v \in Slot : slot'[v].at \in {"gate", "send", "bill", "log", "cancel"} /\ Row(slot'[v].job) = r
        BY <1>3, <2>1, <3>2 DEF Settled
      <4>2. slot'[v].job = slot[v].job /\ slot[v].at # "idle"
        BY <4>1, WorkIsLoaded DEF Budget
      <4> QED BY <3>2, <4>1, <4>2, AbsentIsIdle
    <3> QED BY <1>3, <3>1, <3>2
  <2>2. Stage' = [r \in Reminder |-> IF r \in R THEN "settled" ELSE Stage[r]]
    <3>1. ASSUME NEW r \in Reminder, Settled(r)' PROVE row'[r] # "absent"
      BY <3>1 DEF Settled
    <3> QED BY <2>1, <3>1 DEF Stage
  <2>3. faults' \in {faults, faults + 1}
    BY FaultsGrow
  <2>4. Contract!Settle(R)
    BY <1>1, <2>2, <2>3 DEF Contract!Settle
  <2> HIDE DEF R
  <2>5. R \in SUBSET Reminder
    BY DEF R
  <2> QED BY <2>4, <2>5 DEF Contract!Next
<1> QED BY <1>2, <1>3, RowsAge

\* Delivery implements the contract, for any number of workers, reminders and
\* addressees.
THEOREM DeliveryKeepsContract == Spec => KeepsContract
<1>1. Init => Contract!Init
  <2> SUFFICES ASSUME Init PROVE Contract!Init
    OBVIOUS
  <2>1. Stage = [r \in Reminder |-> "none"]
    BY DEF Init, Stage, Settled
  <2>2. CopiesSent = [r \in Reminder |-> [c \in Prefix \X Person |-> 0]]
    BY DEF Init, CopiesSent, JobId
  <2> QED BY <2>1, <2>2 DEF Init, Contract!Init
<1>2. Budget /\ Budget' /\ [Next]_vars => [Contract!Next]_(Contract!contractVars)
  <2> SUFFICES ASSUME Budget, Budget', [Next]_vars PROVE [Contract!Next]_(Contract!contractVars)
    OBVIOUS
  <2>1. CASE UNCHANGED vars
    BY <2>1 DEF vars, Contract!contractVars, Stage, CopiesSent, Settled
  <2>2. CASE Next
    BY <2>2, CopiesOfSends, SendMeetsContract, StageMeetsContract
  <2> QED BY <2>1, <2>2
<1> QED BY <1>1, <1>2, BudgetAlways, PTL DEF Spec, KeepsContract, Contract!Spec

-----------------------------------------------------------------------------
(* As long as nothing has failed: every active job is leased to the slot that *)
(* runs it, and to no other. So no job stalls, none is run by two handlers,   *)
(* and a handler ends with its row settled.                                   *)

Leases ==
  /\ \A j \in JobId : job[j].stalls = 0
  /\ \A j \in JobId : job[j].st = "active" =>
       job[j].owner # None /\ slot[job[j].owner].job = j
  /\ \A w \in Slot : slot[w].at # "idle" => job[slot[w].job].owner = w

\* A job that is over, and a handler that threw, leave no PENDING row.
Attended ==
  /\ \A j \in JobId : job[j].st \in {"completed", "failed"} => row[Row(j)] # "PENDING"
  /\ \A w \in Slot : slot[w].at = "throw" => row[Row(slot[w].job)] # "PENDING"

\* A step of the handler other than its last stays with its job.
LEMMA HandlerStays ==
  ASSUME Typing, NEW w \in Slot, Handle(w)
  PROVE  /\ \A v \in Slot : v # w => slot'[v] = slot[v]
         /\ \/ Complete(w) \/ Throw(w)
            \/ /\ slot[w].at # "idle" /\ slot'[w].at # "idle" /\ slot'[w].job = slot[w].job
               /\ UNCHANGED queueVars
<1>1. slot \in [Slot -> Handler]
  BY DEF Typing, TypeOK
<1>2. CASE Complete(w) \/ Throw(w)
  BY <1>1, <1>2 DEF Complete, Throw
<1>3. CASE Load(w)
  BY <1>1, <1>3 DEF Handler, Load
<1>4. CASE (\E allowed \in BOOLEAN : Gate(w, allowed)) \/ IncrementUsage(w)
  BY <1>1, <1>4 DEF Handler, Gate, IncrementUsage
<1>5. CASE \E p \in Person : SendAccepted(w, p) \/ SendRefused(w, p)
  BY <1>1, <1>5 DEF Handler, SendAccepted, SendRefused
<1>6. CASE LogMessage(w)
  BY <1>1, <1>6 DEF Handler, LogMessage
<1>7. CASE WriteCancelled(w) \/ WriteSent(w) \/ WriteFailed(w)
  BY <1>1, <1>7 DEF Handler, WriteCancelled, WriteSent, WriteFailed, Update
<1> QED BY <1>2, <1>3, <1>4, <1>5, <1>6, <1>7 DEF Handle

\* A step of the queue that leaves the slots and the locks alone and starts no job.
StartsNothing ==
  /\ UNCHANGED slot
  /\ \A j \in JobId :
       /\ job'[j].stalls = 0 /\ job'[j].owner = job[j].owner
       /\ job'[j].st = job[j].st \/ job'[j].st \in {"none", "waiting"}

\* When nothing has failed no lock is lost, and no job stalls or is given up.
LEMMA NothingStalls ==
  ASSUME Budget, Leases, faults' = 0, NEW j \in JobId
  PROVE  /\ ~ExpireLock(j) /\ ~LoseLock(j) /\ ~RecoverStalled(j) /\ ~Bury(j)
         /\ Forget(j) => StartsNothing
<1>1. /\ job \in [JobId -> Job] /\ faults \in Nat /\ MaxStalls \in Nat
      /\ \A k \in JobId : job[k].stalls = 0
      /\ job[j].owner # None => job[j].st = "active"
      /\ job[j].st = "active" => job[j].owner # None /\ slot[job[j].owner].job = j
  BY DeliveryAssumption, QueueAssumption DEF Budget, Typing, TypeOK, OwnersAreActive, Leases
<1>2. ~ExpireLock(j) /\ ~LoseLock(j)
  BY <1>1 DEF ExpireLock, LoseLock, Fault
<1>3. ~RecoverStalled(j) /\ ~Bury(j)
  BY <1>1 DEF RecoverStalled, Stalled, Bury, GivenUp
<1>4. Forget(j) => StartsNothing
  BY <1>1 DEF Forget, NoJob, StartsNothing
<1> QED BY <1>2, <1>3, <1>4

LEMMA AddingStartsNothing ==
  ASSUME Budget, Leases, NEW r \in Reminder, AddJob(r) \/ RecoverRow(r)
  PROVE  StartsNothing
<1>1. /\ job \in [JobId -> Job]
      /\ \A k \in JobId : job[k].stalls = 0
      /\ \A k \in JobId : job[k].owner # None => job[k].st = "active"
  BY DEF Budget, Typing, TypeOK, OwnersAreActive, Leases
<1>2. \A j \in JobId : job'[j] = job[j] \/ job'[j] = Added(job[j])
  BY <1>1 DEF AddJob, RecoverRow
<1>3. UNCHANGED slot
  BY DEF AddJob, RecoverRow
<1>4. ASSUME NEW j \in JobId
      PROVE  /\ Added(job[j]).stalls = 0 /\ Added(job[j]).owner = job[j].owner
             /\ Added(job[j]).st \in {job[j].st, "waiting"}
  <2>1. job[j] \in Job /\ Sound(job[j]) /\ job[j].stalls = 0
    BY <1>1 DEF Sound
  <2>2. Added(job[j]).owner = job[j].owner
    BY <2>1, LocksOfOperations, DeliveryAssumption
  <2>3. CASE job[j].st = "none"
    BY <2>2, <2>3 DEF Added, NoJob
  <2>4. CASE job[j].st # "none"
    BY <2>1, <2>4 DEF Added
  <2> QED BY <2>2, <2>3, <2>4
<1>5. ASSUME NEW j \in JobId
      PROVE  /\ job'[j].stalls = 0 /\ job'[j].owner = job[j].owner
             /\ job'[j].st \in {job[j].st, "waiting"}
  BY <1>1, <1>2, <1>4
<1> QED BY <1>3, <1>5 DEF StartsNothing

LEMMA RemovingStartsNothing ==
  ASSUME Budget, Leases, NEW r \in request.rows, RemoveJob(r)
  PROVE  StartsNothing
<1> DEFINE k == <<r, "reminder">>
<1>1. job \in [JobId -> Job] /\ \A j \in JobId : job[j].stalls = 0
  BY DEF Budget, Typing, TypeOK, Leases
<1>2. NoJob.stalls = 0 /\ NoJob.owner = None /\ NoJob.st = "none"
  BY DEF NoJob
<1>3. UNCHANGED slot /\ (UNCHANGED job \/ (job' = [job EXCEPT ![k] = NoJob] /\ job[k].owner = None))
  BY DEF RemoveJob, Locked
<1> HIDE DEF k
<1> QED BY <1>1, <1>2, <1>3 DEF StartsNothing

LEMMA LeasesKept ==
  ASSUME Budget, Leases, Next, faults' = 0
  PROVE  Leases'
<1>1. /\ job \in [JobId -> Job] /\ slot \in [Slot -> Handler] /\ faults \in Nat
      /\ None \notin Slot /\ None \notin JobId
      /\ \A w \in Slot : slot[w].at # "idle" <=> slot[w].job # None
      /\ \A w \in Slot : slot[w].job \in JobId \cup {None}
      /\ \A j \in JobId : job[j].owner \in Slot \cup {None}
      /\ \A j \in JobId : job[j].owner # None => job[j].st = "active"
  BY DeliveryAssumption, QueueAssumption
     DEF Budget, Typing, TypeOK, OwnersAreActive, WorkersHaveJobs, Handler, Job
<1>2. ASSUME NEW w \in Slot, NEW k \in JobId, Take(w, k) PROVE Leases'
  <2>1. /\ \A v \in Slot : v # w => slot'[v] = slot[v]
        /\ slot[w].at = "idle" /\ slot'[w].at = "load" /\ slot'[w].job = k
    BY <1>1, <1>2 DEF Take, Idle
  <2>2. /\ \A j \in JobId : j # k => job'[j] = job[j]
        /\ job[k].owner = None /\ job'[k].owner = w /\ job'[k].stalls = 0
    BY <1>1, <1>2 DEF Take, Startable, Started, Job, Leases
  <2> QED BY <1>1, <2>1, <2>2 DEF Leases
<1>3. ASSUME NEW w \in Slot, Complete(w) \/ Throw(w) PROVE Leases'
  <2> DEFINE k == slot[w].job
  <2>1. /\ \A v \in Slot : v # w => slot'[v] = slot[v]
        /\ slot[w].at # "idle" /\ slot'[w].at = "idle" /\ k \in JobId
    BY <1>1, <1>3 DEF Complete, Throw, Idle
  <2>2. /\ \A j \in JobId : j # k => job'[j] = job[j]
        /\ job[k].owner = w /\ job'[k].st # "active" /\ job'[k].stalls = 0
    <3>1. job[k].owner = w /\ job[k].stalls = 0 /\ job[k] \in Job
      BY <1>1, <2>1 DEF Leases
    <3>2. CASE Complete(w)
      BY <1>1, <2>1, <3>1, <3>2 DEF Complete, Completed, Job
    <3>3. CASE Throw(w)
      <4> DEFINE f == Failed(job[k], Attempts[k[2]])
      <4>1. f.st # "active" /\ f.stalls = 0
        BY <3>1 DEF Failed, Job
      <4>2. job' = [job EXCEPT ![k] = f]
        BY <3>1, <3>3 DEF Throw
      <4> HIDE DEF f
      <4> QED BY <1>1, <2>1, <3>1, <4>1, <4>2
    <3> QED BY <1>3, <3>2, <3>3, <3>1
  <2> HIDE DEF k
  <2> QED BY <1>1, <2>1, <2>2 DEF Leases, k
<1>4. ASSUME UNCHANGED queueVars,
             \A w \in Slot : /\ slot'[w].at # "idle" <=> slot[w].at # "idle"
                             /\ slot'[w].job = slot[w].job
      PROVE  Leases'
  BY <1>1, <1>4 DEF queueVars, Leases
<1>5. CASE \E w \in Slot : Handle(w)
  BY <1>3, <1>4, <1>5, HandlerStays DEF Budget
<1>6. ASSUME StartsNothing PROVE Leases'
  BY <1>1, <1>6 DEF StartsNothing, Leases
<1>7. CASE UNCHANGED <<slot, job>>
  BY <1>7 DEF Leases
<1>8. CASE \E w \in Slot : HandlerError(w) \/ Crash(w)
  BY <1>1, <1>8 DEF HandlerError, Crash, Fault
<1>9. CASE UNCHANGED slot /\ \E w \in Slot : Complete(w) \/ Throw(w) \/ \E j \in JobId : Take(w, j)
  BY <1>2, <1>3, <1>9
<1> QED BY <1>2, <1>5, <1>6, <1>7, <1>8, <1>9, SlotsOfHandlers, JobsOfActors, NothingStalls,
       AddingStartsNothing, RemovingStartsNothing DEF Budget

\* A row that is there and is not PENDING does not become PENDING.
LEMMA LeftPending ==
  ASSUME Budget, Next, NEW r \in Reminder, row[r] \notin {"absent", "PENDING"}
  PROVE  row'[r] \notin {"absent", "PENDING"}
<1>1. row \in [Reminder -> RowStatus]
  BY DEF Budget, Typing, TypeOK
<1> QED BY <1>1, RowsAge DEF CreateRow

\* When nothing has failed, a job ends with the step that ends its handler.
LEMMA JobsEnd ==
  ASSUME Budget, Leases, Next, faults' = 0, NEW j \in JobId,
         job'[j].st \in {"completed", "failed"}
  PROVE  \/ job[j].st \in {"completed", "failed"}
         \/ \E w \in Slot : slot[w].job = j /\ slot[w].at \in {"complete", "throw"}
<1>1. /\ job \in [JobId -> Job] /\ slot \in [Slot -> Handler]
      /\ \A w \in Slot : slot[w].at # "idle" => slot[w].job \in JobId
  BY DEF Budget, Typing, TypeOK, WorkersHaveJobs, Handler
<1>2. ASSUME NEW w \in Slot, NEW k \in JobId, Take(w, k)
      PROVE  job[j].st \in {"completed", "failed"}
  BY <1>1, <1>2 DEF Take, Started, Job
<1>3. ASSUME NEW w \in Slot, Complete(w) \/ Throw(w), slot[w].job # j
      PROVE  job[j].st \in {"completed", "failed"}
  BY <1>1, <1>3 DEF Complete, Throw
<1>4. CASE StartsNothing
  BY <1>4 DEF StartsNothing
<1>5. ASSUME NEW w \in Slot, Complete(w) \/ Throw(w)
      PROVE  slot[w].at \in {"complete", "throw"}
  BY <1>5 DEF Complete, Throw
<1> QED BY <1>2, <1>3, <1>4, <1>5, JobsOfActors, NothingStalls, AddingStartsNothing,
       RemovingStartsNothing

\* When nothing has failed, a handler throws only with its row settled.
LEMMA ThrownIsSettled ==
  ASSUME Budget, Next, faults' = 0, NEW v \in Slot, slot'[v].at = "throw"
  PROVE  \/ slot'[v] = slot[v]
         \/ /\ slot'[v].job = slot[v].job /\ slot[v].at \in {"send", "log", "cancel"}
            /\ LET r == Row(slot[v].job) IN
               \/ row[r] = "deleted" /\ row' = row /\ accepted' = accepted
               \/ WriteFailed(v) /\ row' = [row EXCEPT ![r] = "FAILED"]
<1>1. slot \in [Slot -> Handler] /\ faults \in Nat
  BY DeliveryAssumption DEF Budget, Typing, TypeOK
<1>2. ASSUME NEW w \in Slot,
             \/ Handle(w) \/ HandlerError(w) \/ Crash(w)
             \/ \E k \in JobId : Take(w, k),
             slot'[v] # slot[v]
      PROVE  /\ slot'[v].job = slot[v].job /\ slot[v].at \in {"send", "log", "cancel"}
             /\ LET r == Row(slot[v].job) IN
                \/ row[r] = "deleted" /\ row' = row /\ accepted' = accepted
                \/ WriteFailed(v) /\ row' = [row EXCEPT ![r] = "FAILED"]
  <2>1. CASE \E k \in JobId : Take(w, k)
    <3>1. slot'[v] = slot[v] \/ slot'[v].at = "load"
      BY <1>1, <2>1 DEF Take, Idle
    <3> QED BY <1>2, <3>1
  <2>2. CASE Complete(w) \/ Throw(w) \/ Crash(w)
    BY <1>1, <1>2, <2>2 DEF Complete, Throw, Crash, Idle
  <2>3. CASE Load(w)
    BY <1>1, <1>2, <2>3 DEF Handler, Load
  <2>4. CASE (\E allowed \in BOOLEAN : Gate(w, allowed)) \/ IncrementUsage(w)
    BY <1>1, <1>2, <2>4 DEF Handler, Gate, IncrementUsage
  <2>5. CASE \E p \in Person : SendAccepted(w, p) \/ SendRefused(w, p)
    BY <1>1, <1>2, <2>5 DEF Handler, SendAccepted, SendRefused
  <2>6. CASE LogMessage(w)
    BY <1>1, <1>2, <2>6 DEF Handler, LogMessage
  <2>7. CASE HandlerError(w)
    BY <1>1, <2>7 DEF HandlerError, Fault
  <2>8. CASE WriteCancelled(w)
    BY <1>1, <1>2, <2>8 DEF Handler, WriteCancelled, Update, sendVars
  <2>9. CASE WriteSent(w)
    BY <1>1, <1>2, <2>9 DEF Handler, WriteSent, Update, sendVars
  <2>10. CASE WriteFailed(w)
    BY <1>1, <1>2, <2>10 DEF Handler, WriteFailed, Update, sendVars
  <2> QED BY <1>2, <2>1, <2>2, <2>3, <2>4, <2>5, <2>6, <2>7, <2>8, <2>9, <2>10 DEF Handle
<1> QED BY <1>2, SlotsOfHandlers DEF Budget

LEMMA AttendedKept ==
  ASSUME Budget, Leases, Attended, Next, faults' = 0
  PROVE  Attended'
<1>1. /\ row \in [Reminder -> RowStatus]
      /\ \A j \in JobId : Row(j) \in Reminder
      /\ \A w \in Slot : slot[w].at # "idle" => slot[w].job \in JobId
  BY DEF Budget, Typing, TypeOK, WorkersHaveJobs, Handler, Row, JobId
<1>2. ASSUME NEW w \in Slot, slot[w].at # "idle" PROVE row[Row(slot[w].job)] # "absent"
  BY <1>1, <1>2, AbsentIsIdle
<1>3. ASSUME NEW j \in JobId, job'[j].st \in {"completed", "failed"}
      PROVE  row'[Row(j)] # "PENDING"
  <2>1. CASE job[j].st \in {"completed", "failed"}
    <3>1. row[Row(j)] \notin {"absent", "PENDING"}
      BY <1>1, <2>1 DEF Attended, Budget, AbsentIsFresh
    <3> QED BY <1>1, <3>1, LeftPending
  <2>2. ASSUME NEW w \in Slot, slot[w].job = j, slot[w].at \in {"complete", "throw"}
        PROVE  row'[Row(j)] # "PENDING"
    <3>1. row[Row(j)] \notin {"absent", "PENDING"}
      BY <1>2, <2>2 DEF Attended, Budget, ReturnsSettled
    <3> QED BY <1>1, <3>1, LeftPending
  <2> QED BY <1>3, <2>1, <2>2, JobsEnd
<1>4. ASSUME NEW w \in Slot, slot'[w].at = "throw" PROVE row'[Row(slot'[w].job)] # "PENDING"
  <2>1. CASE slot'[w] = slot[w]
    <3>1. Row(slot[w].job) \in Reminder /\ row[Row(slot[w].job)] \notin {"absent", "PENDING"}
      BY <1>1, <1>2, <1>4, <2>1 DEF Attended
    <3> QED BY <2>1, <3>1, LeftPending
  <2>2. CASE slot'[w] # slot[w]
    <3>1. slot'[w].job = slot[w].job /\ Row(slot[w].job) \in Reminder
      BY <1>1, <1>4, <2>2, ThrownIsSettled
    <3> QED BY <1>1, <1>4, <2>2, <3>1, ThrownIsSettled
  <2> QED BY <2>1, <2>2
<1> QED BY <1>3, <1>4 DEF Attended

-----------------------------------------------------------------------------
(* A PENDING row has somebody to see to it. *)

HasOwner(r) ==
  \/ producing[r] # None
  \/ \E x \in Prefix : job[<<r, x>>].st \in {"waiting", "active"}
  \/ request.cur = r

\* A waiting or active job of a PENDING row goes to a handler and back, unless a
\* request removes it.
LEMMA JobsRemain ==
  ASSUME Budget, Leases, Attended, Next, faults' = 0, NEW j \in JobId,
         row'[Row(j)] = "PENDING", job[j].st \in {"waiting", "active"}
  PROVE  \/ job'[j].st \in {"waiting", "active"}
         \/ request'.cur = Row(j)
<1>1. /\ job \in [JobId -> Job] /\ slot \in [Slot -> Handler] /\ Row(j) \in Reminder
      /\ \A w \in Slot : slot[w].at # "idle" => slot[w].job \in JobId
      /\ request \in RequestType
  BY DEF Budget, Typing, TypeOK, WorkersHaveJobs, Handler, RequestType, Row, JobId
<1>2. ASSUME NEW w \in Slot, NEW k \in JobId, Take(w, k)
      PROVE  job'[j].st \in {"waiting", "active"}
  BY <1>1, <1>2 DEF Take, Started, Job
<1>3. ASSUME NEW w \in Slot, Complete(w) \/ Throw(w)
      PROVE  job'[j].st \in {"waiting", "active"}
  <2>1. CASE slot[w].job = j
    <3>1. row[Row(j)] \notin {"absent", "PENDING"}
      BY <1>1, <1>3, <2>1, AbsentIsIdle DEF Complete, Throw, Attended, Budget, ReturnsSettled
    <3> QED BY <1>1, <3>1, LeftPending
  <2>2. CASE slot[w].job # j
    BY <1>1, <1>3, <2>2 DEF Complete, Throw
  <2> QED BY <2>1, <2>2
<1>4. ASSUME NEW r \in Reminder, AddJob(r) \/ RecoverRow(r)
      PROVE  job'[j].st \in {"waiting", "active"}
  <2>1. job'[j] = job[j] \/ job'[j] = Added(job[j])
    BY <1>1, <1>4 DEF AddJob, RecoverRow
  <2>2. Added(job[j]) = job[j]
    BY DEF Added
  <2> QED BY <2>1, <2>2
<1>5. ASSUME NEW k \in JobId, Forget(k) PROVE job'[j].st \in {"waiting", "active"}
  BY <1>1, <1>5 DEF Forget
<1>6. ASSUME NEW r \in request.rows, RemoveJob(r)
      PROVE  job'[j] = job[j] \/ request'.cur = Row(j)
  <2> DEFINE k == <<r, "reminder">>
  <2>1. \/ UNCHANGED job
        \/ /\ job' = [job EXCEPT ![k] = NoJob]
           /\ request' = [request EXCEPT !.rows = @ \ {r}, !.cur = r]
    BY <1>6 DEF RemoveJob
  <2>2. request'.cur = r \/ UNCHANGED job
    BY <1>1, <2>1 DEF RequestType
  <2>3. Row(k) = r
    BY DEF Row
  <2> HIDE DEF k
  <2> QED BY <1>1, <2>1, <2>2, <2>3
<1> QED BY <1>2, <1>3, <1>4, <1>5, <1>6, JobsOfActors, NothingStalls

\* A row that is being produced gets its job.
LEMMA ProducedGetsJob ==
  ASSUME Budget, Leases, Attended, Next, faults' = 0, NEW r \in Reminder,
         row'[r] = "PENDING", producing[r] # None
  PROVE  producing'[r] # None \/ \E x \in Prefix : job'[<<r, x>>].st \in {"waiting", "active"}
<1>1. /\ job \in [JobId -> Job] /\ producing \in [Reminder -> Prefix \cup {None}]
      /\ row \in [Reminder -> RowStatus] /\ faults \in Nat
  BY DeliveryAssumption DEF Budget, Typing, TypeOK
<1>2. row[r] = "PENDING"
  <2>1. row[r] # "absent"
    <3>1. <<r, "rem">> \in JobId /\ Row(<<r, "rem">>) = r
      BY DEF JobId, Prefix, Row
    <3> QED BY <3>1 DEF Budget, AbsentIsFresh
  <2> QED BY <2>1, LeftPending
<1>3. CASE AddJob(r)
  <2> DEFINE x == producing[r]
             k == <<r, x>>
  <2>1. x \in Prefix /\ k \in JobId /\ Row(k) = r
    BY <1>1 DEF JobId, Row
  <2>2. job[k].st \notin {"completed", "failed"} /\ job[k].st \in JobState
    BY <1>1, <1>2, <2>1 DEF Attended, Job
  <2>3. Added(job[k]).st \in {"waiting", "active"}
    BY <2>2 DEF Added, NoJob, JobState
  <2>4. job'[k] = Added(job[k])
    BY <1>1, <1>3, <2>1 DEF AddJob
  <2> QED BY <2>1, <2>3, <2>4
<1>4. ASSUME NEW s \in Reminder, s # r, AddJob(s) PROVE producing'[r] # None
  BY <1>1, <1>4 DEF AddJob
<1>5. ASSUME NEW s \in Reminder, LoseJob(s) PROVE FALSE
  BY <1>1, <1>5 DEF LoseJob, Fault
<1>6. ASSUME NEW s \in Reminder, NEW x \in Prefix, CreateRow(s, x) PROVE producing'[r] # None
  BY <1>1, <1>6, DeliveryAssumption DEF CreateRow
<1>7. CASE UNCHANGED producing
  BY <1>7
<1> QED BY <1>3, <1>4, <1>5, <1>6, <1>7, NextSplit, ZenonT(30) DEF queueVars, Handle, Produce, Listen,
  Take, Load, Gate, WriteCancelled, SendAccepted, SendRefused, IncrementUsage, LogMessage,
  WriteSent, WriteFailed, Complete, Throw, HandlerError, Crash, ExpireLock, LoseLock,
  RecoverStalled, Bury, Forget, ExhaustedRow, ExhaustedDlq, Failover, ListenerDies, Delivered,
  BeginRecovery, RecoverRow, BeginCancel, BeginOptOut, OptOutAgain, Serve, ReadPending,
  RemoveJob, CancelRow, EndRequest, RequestDies

\* A cancellation that has removed the job goes on to settle the row.
LEMMA CancelSettles ==
  ASSUME Budget, Next, faults' = 0, NEW r \in Reminder, request.cur = r, row'[r] = "PENDING"
  PROVE  request'.cur = r
<1>1. /\ row \in [Reminder -> RowStatus] /\ faults \in Nat /\ r # None /\ NoRequest.cur = None
  BY DeliveryAssumption DEF Budget, Typing, TypeOK, NoRequest
<1>2. ~CancelRow /\ ~EndRequest /\ ~RequestDies
  BY <1>1 DEF CancelRow, EndRequest, RequestDies, Fault
<1>3. \A b \in Booking : ~ReadPending(b)
  BY <1>1 DEF ReadPending
<1>4. \A s \in request.rows : ~RemoveJob(s)
  BY <1>1 DEF RemoveJob
<1>5. \A b \in Booking, mode \in Requests : ~BeginCancel(b, mode)
  BY <1>1 DEF BeginCancel
<1>6. \A p \in Person : ~BeginOptOut(p)
  BY <1>1 DEF BeginOptOut
<1>7. request.bookings \subseteq Booking
  <2>1. request \in RequestType
    BY DEF Budget, Typing, TypeOK, RequestType
  <2> QED BY <2>1 DEF RequestType
<1>8. UNCHANGED request
  BY ZenonT(60), <1>2, <1>3, <1>4, <1>5, <1>6, <1>7, NextSplit DEF queueVars, actorVars, Handle, Produce,
  Listen, CreateRow, AddJob, LoseJob, Delivered, Take, Load, Gate, WriteCancelled, SendAccepted,
  SendRefused, IncrementUsage, LogMessage, WriteSent, WriteFailed, Complete, Throw, HandlerError,
  Crash, ExpireLock, LoseLock, RecoverStalled, Bury, Forget, ExhaustedRow, ExhaustedDlq, Failover,
  ListenerDies, BeginRecovery, RecoverRow, OptOutAgain, Serve
<1> QED BY <1>8

LEMMA OwnersRemain ==
  ASSUME Budget, Leases, Attended, Next, faults' = 0, NEW r \in Reminder,
         row[r] = "PENDING" => HasOwner(r), row'[r] = "PENDING"
  PROVE  HasOwner(r)'
<1>1. CASE row[r] = "PENDING"
  <2>1. \A x \in Prefix : <<r, x>> \in JobId /\ Row(<<r, x>>) = r
    BY DEF JobId, Row
  <2> QED BY <1>1, <2>1, JobsRemain, ProducedGetsJob, CancelSettles DEF HasOwner
<1>2. CASE row[r] # "PENDING"
  <2>1. row \in [Reminder -> RowStatus] /\ producing \in [Reminder -> Prefix \cup {None}]
    BY DEF Budget, Typing, TypeOK
  <2>2. PICK s \in Reminder, x \in Prefix : CreateRow(s, x)
    BY <1>2, RowsAge
  <2>3. s = r /\ x # None
    BY <1>2, <2>1, <2>2, DeliveryAssumption DEF CreateRow
  <2>4. producing'[r] # None
    BY <2>1, <2>2, <2>3 DEF CreateRow
  <2> QED BY <2>4 DEF HasOwner
<1> QED BY <1>1, <1>2

\* What holds as long as nothing has failed.
Flawless ==
  faults = 0 => /\ Leases /\ Attended
                /\ \A r \in Reminder : row[r] = "PENDING" => HasOwner(r)

LEMMA FlawlessInit == Init => Flawless
<1> SUFFICES ASSUME Init PROVE Flawless
  OBVIOUS
<1>1. Leases
  BY DEF Init, Leases, NoJob, Idle
<1>2. Attended
  BY DEF Init, Attended, NoJob, Idle
<1> QED BY <1>1, <1>2 DEF Init, Flawless

LEMMA FlawlessKept == Budget /\ Flawless /\ [Next]_vars => Flawless'
<1> SUFFICES ASSUME Budget, Flawless, [Next]_vars PROVE Flawless'
  OBVIOUS
<1>1. CASE UNCHANGED vars
  BY <1>1 DEF vars, Flawless, Leases, Attended, HasOwner
<1>2. ASSUME Next, faults' = 0
      PROVE  /\ Leases' /\ Attended'
             /\ \A r \in Reminder : row'[r] = "PENDING" => HasOwner(r)'
  <2>1. faults \in Nat
    BY DeliveryAssumption DEF Budget, Typing, TypeOK
  <2>2. faults = 0
    BY <1>2, <2>1, FaultsGrow
  <2> QED BY <1>2, <2>2, LeasesKept, AttendedKept, OwnersRemain DEF Flawless
<1> QED BY <1>1, <1>2 DEF Flawless

LEMMA FlawlessAlways == Spec => []Flawless
<1>1. Init => Flawless
  BY FlawlessInit
<1>2. Budget /\ Flawless /\ [Next]_vars => Flawless'
  BY FlawlessKept
<1> QED BY <1>1, <1>2, BudgetAlways, PTL DEF Spec

\* As long as nothing has failed, no PENDING row is forgotten: not between the
\* insert and the job, not by a retry, a cancellation, the recovery script or the
\* removal of completed jobs.
THEOREM PendingHasOwner == Spec => []PendingIsOwned
<1>1. Flawless => PendingIsOwned
  BY DEF Flawless, HasOwner, PendingIsOwned
<1> QED BY <1>1, FlawlessAlways, PTL

-----------------------------------------------------------------------------
(* What FAILED says. A row that the recovery script gave no second job has    *)
(* one job in all; while nothing fails one handler works on it at a time, and *)
(* that handler knows whether a copy got through.                             *)

\* A row that the script has not touched has one job.
OneJob ==
  \A r \in Reminder \ recovered :
    (job[<<r, "rem">>].st # "none" \/ producing[r] = "rem")
      => (job[<<r, "reminder">>].st = "none" /\ producing[r] # "reminder")

\* The rows a request has yet to cancel still exist: it is the only one to delete.
ListedRowsExist ==
  \A r \in Reminder : (r \in request.rows \/ request.cur = r) => row[r] # "deleted"

\* The step adds job j.
Adds(r, j) ==
  \/ AddJob(r) /\ j = <<r, producing[r]>>
  \/ RecoverRow(r) /\ j = <<r, "reminder">>

\* A job begins with its add.
LEMMA JobsBegin ==
  ASSUME Budget, Next, NEW j \in JobId, job[j].st = "none"
  PROVE  \/ job'[j].st = "none"
         \/ \E r \in Reminder : Adds(r, j)
<1>1. /\ job \in [JobId -> Job] /\ \A k \in JobId : job[k].owner # None => job[k].st = "active"
      /\ None \notin Slot
      /\ \A w \in Slot : slot[w].at # "idle" => slot[w].job \in JobId
  BY QueueAssumption DEF Budget, Typing, TypeOK, OwnersAreActive, WorkersHaveJobs, Handler
<1>2. ASSUME NEW w \in Slot, NEW k \in JobId, Take(w, k) PROVE job'[j].st = "none"
  BY <1>1, <1>2 DEF Take, Startable
<1>3. ASSUME NEW w \in Slot, Complete(w) \/ Throw(w) PROVE job'[j].st = "none"
  <2>1. slot[w].job # j \/ job[j].owner # w
    BY <1>1
  <2> QED BY <1>1, <1>3, <2>1 DEF Complete, Throw
<1>4. ASSUME NEW k \in JobId, ExpireLock(k) \/ LoseLock(k) \/ RecoverStalled(k) \/ Bury(k)
      PROVE  job'[j].st = "none"
  <2>1. j # k
    BY <1>1, <1>4 DEF ExpireLock, LoseLock, RecoverStalled, Stalled, Bury, GivenUp
  <2> QED BY <1>1, <1>4, <2>1 DEF ExpireLock, LoseLock, RecoverStalled, Bury
<1>5. ASSUME NEW k \in JobId, Forget(k) PROVE job'[j].st = "none"
  BY <1>1, <1>5 DEF Forget
<1>6. ASSUME NEW r \in request.rows, RemoveJob(r) PROVE job'[j].st = "none"
  <2> DEFINE k == <<r, "reminder">>
  <2>1. UNCHANGED job \/ job' = [job EXCEPT ![k] = NoJob]
    BY <1>6 DEF RemoveJob
  <2>2. NoJob.st = "none"
    BY DEF NoJob
  <2> HIDE DEF k
  <2> QED BY <1>1, <2>1, <2>2
<1>7. ASSUME NEW r \in Reminder, AddJob(r) \/ RecoverRow(r)
      PROVE  job'[j].st = "none" \/ Adds(r, j)
  <2>1. CASE AddJob(r)
    <3> DEFINE k == <<r, producing[r]>>
    <3>1. job' = [job EXCEPT ![k] = Added(@)]
      BY <2>1 DEF AddJob
    <3>2. j # k => job'[j] = job[j]
      BY <1>1, <3>1
    <3> QED BY <2>1, <3>2 DEF Adds
  <2>2. CASE RecoverRow(r)
    <3> DEFINE k == <<r, "reminder">>
    <3>1. job' = [job EXCEPT ![k] = Added(@)]
      BY <2>2 DEF RecoverRow
    <3>2. j # k => job'[j] = job[j]
      BY <1>1, <3>1
    <3> QED BY <2>2, <3>2 DEF Adds
  <2> QED BY <1>7, <2>1, <2>2
<1>8. CASE UNCHANGED job
  BY <1>8
<1> QED BY <1>2, <1>3, <1>4, <1>5, <1>6, <1>7, <1>8, JobsOfActors

\* A producer takes up rows that are not there yet.
LEMMA ProducingBegins ==
  ASSUME Budget, Next, NEW r \in Reminder
  PROVE  \/ producing'[r] \in {producing[r], None}
         \/ row[r] = "absent" /\ UNCHANGED job /\ producing'[r] \in Prefix
<1>1. producing \in [Reminder -> Prefix \cup {None}]
  BY DEF Budget, Typing, TypeOK
<1>2. ASSUME NEW s \in Reminder, AddJob(s) \/ LoseJob(s)
      PROVE  producing'[r] \in {producing[r], None}
  BY <1>1, <1>2 DEF AddJob, LoseJob
<1>3. ASSUME NEW s \in Reminder, NEW x \in Prefix, CreateRow(s, x)
      PROVE  \/ producing'[r] \in {producing[r], None}
             \/ row[r] = "absent" /\ UNCHANGED job /\ producing'[r] \in Prefix
  BY <1>1, <1>3 DEF CreateRow
<1>4. CASE UNCHANGED producing
  BY <1>4
<1> QED BY <1>2, <1>3, <1>4, NextSplit, ZenonT(30) DEF queueVars, Handle, Produce, Listen,
  Take, Load, Gate, WriteCancelled, SendAccepted, SendRefused, IncrementUsage, LogMessage,
  WriteSent, WriteFailed, Complete, Throw, HandlerError, Crash, ExpireLock, LoseLock,
  RecoverStalled, Bury, Forget, ExhaustedRow, ExhaustedDlq, Failover, ListenerDies, Delivered,
  BeginRecovery, RecoverRow, BeginCancel, BeginOptOut, OptOutAgain, Serve, ReadPending,
  RemoveJob, CancelRow, EndRequest, RequestDies

LEMMA RecoveredGrows ==
  ASSUME Next
  PROVE  /\ recovered \subseteq recovered'
         /\ \A r \in Reminder : RecoverRow(r) /\ r \notin recovered' =>
               job[<<r, "rem">>] = NoJob /\ producing[r] # "rem"
<1>1. UNCHANGED recovered \/ \E r \in Reminder : RecoverRow(r)
  BY NextSplit, ZenonT(60) DEF actorVars, Handle, Produce, Listen, CreateRow, AddJob, LoseJob, Delivered, Take,
  Load, Gate, WriteCancelled, SendAccepted, SendRefused, IncrementUsage, LogMessage, WriteSent,
  WriteFailed, Complete, Throw, HandlerError, Crash, ExpireLock, LoseLock, RecoverStalled, Bury,
  Forget, ExhaustedRow, ExhaustedDlq, Failover, ListenerDies, BeginRecovery, BeginCancel,
  BeginOptOut, OptOutAgain, Serve, ReadPending, RemoveJob, CancelRow, EndRequest, RequestDies
<1> QED BY <1>1 DEF RecoverRow

LEMMA OneJobKept ==
  ASSUME Budget, OneJob, Next
  PROVE  OneJob'
<1> SUFFICES ASSUME NEW r \in Reminder, r \notin recovered',
                    job'[<<r, "rem">>].st # "none" \/ producing'[r] = "rem"
             PROVE  job'[<<r, "reminder">>].st = "none" /\ producing'[r] # "reminder"
  BY DEF OneJob
<1> DEFINE k == <<r, "rem">>
           l == <<r, "reminder">>
<1>1. /\ k \in JobId /\ l \in JobId /\ Row(k) = r /\ Row(l) = r /\ k # l
      /\ None \notin Prefix /\ "rem" \in Prefix /\ "reminder" \in Prefix /\ r \notin recovered
      /\ producing \in [Reminder -> Prefix \cup {None}]
  BY DeliveryAssumption, RecoveredGrows DEF JobId, Prefix, Row, Budget, Typing, TypeOK
<1>2. CASE row[r] = "absent"
  <2>1. job[k].st = "none" /\ job[l].st = "none" /\ producing[r] = None /\ r \notin recovering
    BY <1>1, <1>2 DEF Budget, AbsentIsFresh
  <2>2. job'[k].st = "none"
    BY <1>1, <2>1, JobsBegin DEF Adds, AddJob, RecoverRow
  <2>3. job'[l].st = "none"
    BY <1>1, <2>1, JobsBegin DEF Adds, AddJob, RecoverRow
  <2> QED BY <1>1, <2>2, <2>3
<1>3. CASE row[r] # "absent"
  <2>1. producing'[r] \in {producing[r], None}
    BY <1>3, ProducingBegins
  <2>2. job[k].st # "none" \/ producing[r] = "rem"
    <3>1. CASE job'[k].st # "none"
      <4>1. job[k].st = "none" => \E s \in Reminder : Adds(s, k)
        BY <1>1, <3>1, JobsBegin
      <4>2. ASSUME NEW s \in Reminder, Adds(s, k) PROVE producing[r] = "rem"
        BY <4>2 DEF Adds
      <4> QED BY <4>1, <4>2
    <3>2. CASE producing'[r] = "rem"
      BY <1>1, <2>1, <3>2
    <3> QED BY <3>1, <3>2
  <2>3. job[l].st = "none" /\ producing[r] # "reminder"
    BY <1>1, <2>2 DEF OneJob
  <2>4. ~RecoverRow(r)
    <3>1. NoJob.st = "none"
      BY DEF NoJob
    <3> QED BY <2>2, <3>1, RecoveredGrows
  <2>5. job'[l].st = "none"
    <3>1. ASSUME NEW s \in Reminder, Adds(s, l) PROVE FALSE
      BY <2>3, <2>4, <3>1 DEF Adds
    <3> QED BY <1>1, <2>3, <3>1, JobsBegin
  <2> QED BY <1>1, <2>1, <2>3, <2>5
<1> QED BY <1>2, <1>3

\* Only a deletion deletes, and it ends the request.
LEMMA OnlyEndDeletes ==
  ASSUME Budget, Next, NEW r \in Reminder, row[r] # "deleted", row'[r] = "deleted"
  PROVE  EndRequest
<1>1. row \in [Reminder -> RowStatus]
  BY DEF Budget, Typing, TypeOK
<1>2. ASSUME \/ \E w \in Slot : WriteCancelled(w) \/ WriteSent(w) \/ WriteFailed(w)
             \/ \E j \in JobId : ExhaustedRow(j)
             \/ \E s \in Reminder : Delivered(s)
             \/ \E s \in Reminder, x \in Prefix : CreateRow(s, x)
             \/ CancelRow
      PROVE  FALSE
  BY <1>1, <1>2 DEF WriteCancelled, WriteSent, WriteFailed, Update, ExhaustedRow, Delivered,
    CreateRow, CancelRow
<1>3. row' # row
  OBVIOUS
<1> QED BY <1>2, <1>3, NextSplit, ZenonT(60) DEF Handle, Produce, Listen, AddJob, LoseJob, Take, Load,
  Gate, SendAccepted, SendRefused, IncrementUsage, LogMessage, Complete, Throw, HandlerError,
  Crash, ExpireLock, LoseLock, RecoverStalled, Bury, Forget, ExhaustedDlq, Failover, ListenerDies,
  BeginRecovery, RecoverRow, BeginCancel, BeginOptOut, OptOutAgain, Serve, ReadPending,
  RemoveJob, RequestDies

\* Who touches the request.
LEMMA RequestsOfCallers ==
  ASSUME Next
  PROVE  \/ UNCHANGED request
         \/ \E b \in Booking, mode \in Requests \ {"optout"} : BeginCancel(b, mode)
         \/ \E p \in Person : BeginOptOut(p)
         \/ \E b \in request.bookings : ReadPending(b)
         \/ \E r \in request.rows : RemoveJob(r)
         \/ CancelRow \/ EndRequest \/ RequestDies
BY NextSplit, ZenonT(60) DEF queueVars, actorVars, Handle, Produce,
  Listen, CreateRow, AddJob, LoseJob, Delivered, Take, Load, Gate, WriteCancelled, SendAccepted,
  SendRefused, IncrementUsage, LogMessage, WriteSent, WriteFailed, Complete, Throw, HandlerError,
  Crash, ExpireLock, LoseLock, RecoverStalled, Bury, Forget, ExhaustedRow, ExhaustedDlq, Failover,
  ListenerDies, BeginRecovery, RecoverRow, OptOutAgain, Serve

LEMMA ListedRowsKept ==
  ASSUME Budget, ListedRowsExist, Next
  PROVE  ListedRowsExist'
<1>1. request \in RequestType /\ (\A r \in Reminder : r # None)
      /\ NoRequest.rows = {} /\ NoRequest.cur = None
  BY DeliveryAssumption DEF Budget, Typing, TypeOK, RequestType, NoRequest
<1> SUFFICES ASSUME NEW r \in Reminder, r \in request'.rows \/ request'.cur = r
             PROVE  row'[r] # "deleted"
  BY DEF ListedRowsExist
<1>2. ~EndRequest
  BY <1>1 DEF EndRequest
<1>3. row[r] # "deleted"
  <2>1. ASSUME NEW b \in request.bookings, ReadPending(b) PROVE row[r] # "deleted"
    BY <1>1, <2>1 DEF ReadPending, RequestType
  <2>2. ASSUME NEW s \in request.rows, RemoveJob(s) PROVE row[r] # "deleted"
    <3>1. \/ request' = NoRequest
          \/ request' = [request EXCEPT !.rows = @ \ {s}, !.cur = s]
      BY <2>2 DEF RemoveJob
    <3>2. r \in request.rows
      BY <1>1, <3>1 DEF RequestType
    <3> QED BY <3>2 DEF ListedRowsExist
  <2>3. CASE CancelRow
    BY <1>1, <2>3 DEF CancelRow, RequestType, ListedRowsExist
  <2>4. CASE \/ \E b \in Booking, mode \in Requests \ {"optout"} : BeginCancel(b, mode)
             \/ \E p \in Person : BeginOptOut(p)
             \/ RequestDies
    <3>1. request'.rows = {} /\ request'.cur = None
      <4>1. ASSUME NEW b \in Booking, NEW mode, BeginCancel(b, mode)
            PROVE  request'.rows = {} /\ request'.cur = None
        BY <4>1 DEF BeginCancel, NoRequest
      <4>2. ASSUME NEW p \in Person, BeginOptOut(p)
            PROVE  request'.rows = {} /\ request'.cur = None
        BY <4>2 DEF BeginOptOut, NoRequest
      <4>3. CASE RequestDies
        BY <4>3 DEF RequestDies, NoRequest
      <4> QED BY <2>4, <4>1, <4>2, <4>3
    <3> QED BY <1>1, <3>1
  <2>5. CASE UNCHANGED request
    BY <2>5 DEF ListedRowsExist
  <2> QED BY <1>2, <2>1, <2>2, <2>3, <2>4, <2>5, RequestsOfCallers
<1> QED BY <1>2, <1>3, OnlyEndDeletes

\* What was deleted stays deleted.
LEMMA DeletedStays ==
  ASSUME Budget, ListedRowsExist, Next, NEW r \in Reminder, row[r] = "deleted"
  PROVE  row'[r] = "deleted"
<1>1. row \in [Reminder -> RowStatus] /\ request.cur # r
  BY DEF Budget, Typing, TypeOK, ListedRowsExist
<1>2. CASE UNCHANGED row
  BY <1>2
<1>3. ASSUME \/ \E w \in Slot : WriteCancelled(w) \/ WriteSent(w) \/ WriteFailed(w)
             \/ \E j \in JobId : ExhaustedRow(j)
             \/ \E s \in Reminder : Delivered(s)
             \/ \E s \in Reminder, x \in Prefix : CreateRow(s, x)
             \/ CancelRow \/ EndRequest
      PROVE  row'[r] = "deleted"
  BY <1>1, <1>3 DEF WriteCancelled, WriteSent, WriteFailed, Update, ExhaustedRow, Delivered,
    CreateRow, CancelRow, EndRequest
<1> QED BY <1>2, <1>3, NextSplit, ZenonT(60) DEF Handle, Produce, Listen, AddJob, LoseJob, Take, Load,
  Gate, SendAccepted, SendRefused, IncrementUsage, LogMessage, Complete, Throw, HandlerError,
  Crash, ExpireLock, LoseLock, RecoverStalled, Bury, Forget, ExhaustedDlq, Failover, ListenerDies,
  BeginRecovery, RecoverRow, BeginCancel, BeginOptOut, OptOutAgain, Serve, ReadPending,
  RemoveJob, RequestDies

\* The handler of slot w has found row r PENDING and is still at work on it.
AtWork(w, r) ==
  /\ slot[w].at \in {"gate", "send", "bill", "log", "cancel"}
  /\ Row(slot[w].job) = r

\* The row is settled, and nobody got a copy unless the row is gone.
Over(r) == Settled(r) /\ (row[r] = "deleted" \/ ~GotThrough(r))

Refused ==
  \A r \in Reminder \ recovered :
    /\ GotThrough(r) => row[r] # "PENDING" \/ \E w \in Slot : AtWork(w, r)
    /\ \A w \in Slot : AtWork(w, r) /\ ~slot[w].ok => ~GotThrough(r)
    /\ row[r] = "FAILED" => Settled(r) /\ ~GotThrough(r)
    /\ \A w \in Slot : slot[w].at = "throw" /\ Row(slot[w].job) = r => Over(r)
    /\ \A j \in JobId : dying[j] = "row" /\ Row(j) = r => Over(r)

\* One handler at a time.
LEMMA OneHandler ==
  ASSUME Budget, Leases, OneJob, NEW r \in Reminder, r \notin recovered,
         NEW v \in Slot, slot[v].at # "idle", Row(slot[v].job) = r,
         NEW w \in Slot, slot[w].at # "idle", Row(slot[w].job) = r
  PROVE  v = w
<1>1. slot[v].job \in JobId /\ slot[w].job \in JobId
  BY DEF Budget, Typing, TypeOK, WorkersHaveJobs, Handler
<1>2. PICK x \in Prefix : slot[v].job = <<r, x>>
  BY <1>1 DEF JobId, Row
<1>3. PICK y \in Prefix : slot[w].job = <<r, y>>
  BY <1>1 DEF JobId, Row
<1>4. job[<<r, x>>].owner = v /\ job[<<r, y>>].owner = w
  BY <1>2, <1>3 DEF Leases
<1>5. job[<<r, x>>].st = "active" /\ job[<<r, y>>].st = "active"
  BY <1>1, <1>2, <1>3, <1>4, QueueAssumption DEF Budget, OwnersAreActive
<1>6. x = y
  BY <1>5 DEF OneJob, Prefix
<1> QED BY <1>4, <1>6

\* Only its own send makes a handler note a success.
LEMMA NotedBySend ==
  ASSUME Typing, Next, NEW v \in Slot, AtWork(v, Row(slot[v].job)) \/ slot[v].at = "load",
         slot'[v].at # "idle"
  PROVE  slot'[v].ok = slot[v].ok \/ \E q \in Person : SendAccepted(v, q)
<1>1. slot \in [Slot -> Handler]
  BY DEF Typing, TypeOK
<1>2. ASSUME NEW w \in Slot,
             \/ Handle(w) \/ HandlerError(w) \/ Crash(w)
             \/ \E k \in JobId : Take(w, k)
      PROVE  slot'[v].ok = slot[v].ok \/ \E q \in Person : SendAccepted(v, q)
  <2>1. CASE \E k \in JobId : Take(w, k)
    <3>1. v # w
      BY <2>1 DEF Take, AtWork
    <3> QED BY <1>1, <2>1, <3>1 DEF Take
  <2>2. CASE Complete(w) \/ Throw(w) \/ Crash(w)
    BY <1>1, <2>2 DEF Complete, Throw, Crash, Idle
  <2>3. CASE Load(w)
    BY <1>1, <2>3 DEF Handler, Load
  <2>4. CASE (\E allowed \in BOOLEAN : Gate(w, allowed)) \/ IncrementUsage(w)
    BY <1>1, <2>4 DEF Handler, Gate, IncrementUsage
  <2>5. CASE \E p \in Person : SendRefused(w, p)
    BY <1>1, <2>5 DEF Handler, SendRefused
  <2>6. CASE LogMessage(w) \/ HandlerError(w)
    BY <1>1, <2>6 DEF Handler, LogMessage, HandlerError
  <2>7. CASE WriteCancelled(w) \/ WriteSent(w) \/ WriteFailed(w)
    BY <1>1, <2>7 DEF Handler, WriteCancelled, WriteSent, WriteFailed, Update
  <2>8. ASSUME NEW q \in Person, SendAccepted(w, q), w # v
        PROVE  slot'[v].ok = slot[v].ok
    BY <1>1, <2>8 DEF SendAccepted
  <2> QED BY <1>2, <2>1, <2>2, <2>3, <2>4, <2>5, <2>6, <2>7, <2>8 DEF Handle
<1> QED BY <1>2, SlotsOfHandlers

\* When nothing has failed, a handler stops working on a row by settling it.
LEMMA WorkEnds ==
  ASSUME Budget, Next, faults' = 0, NEW r \in Reminder, NEW v \in Slot, AtWork(v, r)
  PROVE  AtWork(v, r)' \/ row'[r] # "PENDING"
<1>1. slot \in [Slot -> Handler] /\ row \in [Reminder -> RowStatus] /\ faults \in Nat
  BY DeliveryAssumption DEF Budget, Typing, TypeOK
<1>2. ASSUME NEW w \in Slot,
             \/ Handle(w) \/ HandlerError(w) \/ Crash(w)
             \/ \E k \in JobId : Take(w, k)
      PROVE  AtWork(v, r)' \/ row'[r] # "PENDING"
  <2> USE DEF AtWork
  <2>1. CASE \E k \in JobId : Take(w, k)
    <3>1. v # w
      BY <2>1 DEF Take
    <3> QED BY <1>1, <2>1, <3>1 DEF Take
  <2>2. CASE Complete(w) \/ Throw(w)
    BY <1>1, <2>2 DEF Complete, Throw
  <2>3. CASE Load(w)
    BY <1>1, <2>3 DEF Handler, Load
  <2>4. CASE (\E allowed \in BOOLEAN : Gate(w, allowed)) \/ IncrementUsage(w)
    BY <1>1, <2>4 DEF Handler, Gate, IncrementUsage
  <2>5. CASE \E p \in Person : SendAccepted(w, p) \/ SendRefused(w, p)
    BY <1>1, <2>5 DEF Handler, SendAccepted, SendRefused
  <2>6. CASE LogMessage(w)
    BY <1>1, <2>6 DEF Handler, LogMessage
  <2>7. CASE WriteCancelled(w)
    BY <1>1, <2>7 DEF Handler, WriteCancelled, Update
  <2>8. CASE WriteSent(w)
    BY <1>1, <2>8 DEF Handler, WriteSent, Update
  <2>9. CASE WriteFailed(w)
    BY <1>1, <2>9 DEF Handler, WriteFailed, Update
  <2>10. CASE HandlerError(w) \/ Crash(w)
    BY <1>1, <2>10 DEF HandlerError, Crash, Fault
  <2> QED BY <1>2, <2>1, <2>2, <2>3, <2>4, <2>5, <2>6, <2>7, <2>8, <2>9, <2>10 DEF Handle
<1>3. CASE UNCHANGED slot
  BY <1>3 DEF AtWork
<1> QED BY <1>2, <1>3, SlotsOfHandlers DEF Budget

\* The first copy of a reminder that gets through is the send of a handler at work.
LEMMA ThroughBySend ==
  ASSUME Budget, Next, NEW r \in Reminder, GotThrough(r)'
  PROVE  \/ GotThrough(r)
         \/ \E w \in Slot, q \in Person :
              SendAccepted(w, q) /\ AtWork(w, r) /\ AtWork(w, r)' /\ slot'[w].ok
<1>1. accepted \in [JobId -> [Person -> Nat]] /\ slot \in [Slot -> Handler]
      /\ \A x \in Prefix : <<r, x>> \in JobId
  BY DEF Budget, Typing, TypeOK, JobId
<1>2. CASE UNCHANGED accepted
  BY <1>2 DEF GotThrough
<1>3. ASSUME NEW w \in Slot, NEW q \in Person, SendAccepted(w, q)
      PROVE  GotThrough(r) \/ (AtWork(w, r) /\ AtWork(w, r)' /\ slot'[w].ok)
  <2>1. /\ slot[w].at = "send" /\ slot'[w].at = "bill"
        /\ slot'[w].job = slot[w].job /\ slot'[w].ok
    BY <1>1, <1>3 DEF SendAccepted, Handler
  <2>2. CASE Row(slot[w].job) = r
    BY <2>1, <2>2 DEF AtWork
  <2>3. CASE Row(slot[w].job) # r
    <3>1. \A x \in Prefix : slot[w].job # <<r, x>>
      BY <2>3 DEF Row
    <3>2. \A x \in Prefix : accepted'[<<r, x>>] = accepted[<<r, x>>]
      BY <1>1, <1>3, <3>1 DEF SendAccepted
    <3> QED BY <3>2 DEF GotThrough
  <2> QED BY <2>2, <2>3
<1> QED BY <1>2, <1>3, CopiesOfSends

\* Who writes FAILED.
LEMMA FailedByHandler ==
  ASSUME Budget, Next, NEW r \in Reminder, row[r] # "FAILED", row'[r] = "FAILED"
  PROVE  /\ UNCHANGED accepted
         /\ \/ \E w \in Slot : /\ slot[w].at = "send" /\ ~slot[w].ok /\ Row(slot[w].job) = r
                               /\ slot'[w].at = "throw"
            \/ \E j \in JobId : dying[j] = "row" /\ Row(j) = r /\ row[r] # "deleted"
<1>1. row \in [Reminder -> RowStatus] /\ slot \in [Slot -> Handler]
  BY DEF Budget, Typing, TypeOK
<1>2. ASSUME NEW w \in Slot, WriteFailed(w)
      PROVE  /\ UNCHANGED accepted
             /\ slot[w].at = "send" /\ ~slot[w].ok /\ Row(slot[w].job) = r
             /\ slot'[w].at = "throw"
  BY <1>1, <1>2 DEF WriteFailed, Update, sendVars
<1>3. ASSUME NEW j \in JobId, ExhaustedRow(j)
      PROVE  UNCHANGED accepted /\ dying[j] = "row" /\ Row(j) = r /\ row[r] # "deleted"
  BY <1>1, <1>3 DEF ExhaustedRow, sendVars
<1>4. ASSUME \/ \E w \in Slot : WriteCancelled(w) \/ WriteSent(w)
             \/ \E s \in Reminder : Delivered(s)
             \/ \E s \in Reminder, x \in Prefix : CreateRow(s, x)
             \/ CancelRow \/ EndRequest
      PROVE  FALSE
  BY <1>1, <1>4 DEF WriteCancelled, WriteSent, Update, Delivered, CreateRow, CancelRow, EndRequest
<1>5. \/ \E w \in Slot : WriteFailed(w)
      \/ \E j \in JobId : ExhaustedRow(j)
  <2>1. row' # row
    OBVIOUS
  <2> QED BY <2>1, <1>4, NextSplit, ZenonT(60) DEF Handle, Produce, Listen, AddJob, LoseJob, Take, Load,
  Gate, SendAccepted, SendRefused, IncrementUsage, LogMessage, Complete, Throw, HandlerError,
  Crash, ExpireLock, LoseLock, RecoverStalled, Bury, Forget, ExhaustedDlq, Failover, ListenerDies,
  BeginRecovery, RecoverRow, BeginCancel, BeginOptOut, OptOutAgain, Serve, ReadPending,
  RemoveJob, RequestDies
<1> QED BY <1>2, <1>3, <1>5

\* A listener begins where a handler threw.
LEMMA DyingByThrow ==
  ASSUME Budget, Leases, Next, faults' = 0, NEW j \in JobId, dying'[j] = "row"
  PROVE  \/ dying[j] = "row"
         \/ \E w \in Slot : slot[w].at = "throw" /\ slot[w].job = j
<1>1. dying \in [JobId -> {"no", "row", "dlq", "failover"}]
      /\ \A w \in Slot : slot[w].at # "idle" => slot[w].job \in JobId
  BY DEF Budget, Typing, TypeOK, WorkersHaveJobs, Handler
<1>2. ASSUME NEW w \in Slot, Throw(w)
      PROVE  dying[j] = "row" \/ (slot[w].at = "throw" /\ slot[w].job = j)
  BY <1>1, <1>2 DEF Throw
<1>3. ASSUME NEW k \in JobId, Listen(k) \/ ListenerDies(k) PROVE dying[j] = "row"
  BY <1>1, <1>3 DEF Listen, ExhaustedRow, ExhaustedDlq, Failover, ListenerDies
<1>4. UNCHANGED dying \/ (\E w \in Slot : Throw(w))
      \/ (\E k \in JobId : Listen(k) \/ ListenerDies(k) \/ Bury(k))
  BY NextSplit, ZenonT(60) DEF deadVars, Handle, Produce, CreateRow, AddJob, LoseJob, Delivered, Take, Load,
  Gate, WriteCancelled, SendAccepted, SendRefused, IncrementUsage, LogMessage, WriteSent,
  WriteFailed, Complete, HandlerError, Crash, ExpireLock, LoseLock, RecoverStalled, Forget,
  BeginRecovery, RecoverRow, BeginCancel, BeginOptOut, OptOutAgain, Serve, ReadPending,
  RemoveJob, CancelRow, EndRequest, RequestDies
<1> QED BY <1>2, <1>3, <1>4, NothingStalls

\* What is over stays over.
LEMMA OverStays ==
  ASSUME Budget, ListedRowsExist, Next, NEW r \in Reminder, Over(r)
  PROVE  Over(r)'
<1>1. Settled(r)' /\ \A x \in Prefix : accepted'[<<r, x>>] = accepted[<<r, x>>]
  BY SettledStep DEF Over
<1>2. GotThrough(r)' => GotThrough(r)
  BY <1>1 DEF GotThrough
<1> QED BY <1>1, <1>2, DeletedStays DEF Over

\* The handler that throws was the only one at work on its row.
LEMMA ThrowSettles ==
  ASSUME Budget, Leases, OneJob, Next, NEW r \in Reminder, r \notin recovered,
         NEW w \in Slot, slot[w].at # "idle", Row(slot[w].job) = r, slot'[w].at = "throw",
         row'[r] \notin {"absent", "PENDING"}
  PROVE  Settled(r)'
<1> SUFFICES ASSUME NEW v \in Slot, AtWork(v, r)' PROVE FALSE
  BY DEF Settled, AtWork
<1>1. slot[v].at # "idle" /\ Row(slot[v].job) = r
  BY WorkIsLoaded DEF AtWork, Budget
<1>2. v = w
  BY <1>1, OneHandler
<1> QED BY <1>2 DEF AtWork

LEMMA RefusedKept ==
  ASSUME Budget, Leases, OneJob, ListedRowsExist, Refused, Next, faults' = 0
  PROVE  Refused'
<1> SUFFICES ASSUME NEW r \in Reminder, r \notin recovered'
             PROVE  /\ GotThrough(r)' => row'[r] # "PENDING" \/ \E w \in Slot : AtWork(w, r)'
                    /\ \A w \in Slot : AtWork(w, r)' /\ ~slot'[w].ok => ~GotThrough(r)'
                    /\ row'[r] = "FAILED" => Settled(r)' /\ ~GotThrough(r)'
                    /\ \A w \in Slot : slot'[w].at = "throw" /\ Row(slot'[w].job) = r => Over(r)'
                    /\ \A j \in JobId : dying'[j] = "row" /\ Row(j) = r => Over(r)'
  BY DEF Refused
<1>1. r \notin recovered /\ row \in [Reminder -> RowStatus]
  BY RecoveredGrows DEF Budget, Typing, TypeOK
<1>2. /\ GotThrough(r) => row[r] # "PENDING" \/ \E w \in Slot : AtWork(w, r)
      /\ \A w \in Slot : AtWork(w, r) /\ ~slot[w].ok => ~GotThrough(r)
      /\ row[r] = "FAILED" => Settled(r) /\ ~GotThrough(r)
      /\ \A w \in Slot : slot[w].at = "throw" /\ Row(slot[w].job) = r => Over(r)
      /\ \A j \in JobId : dying[j] = "row" /\ Row(j) = r => Over(r)
  BY <1>1 DEF Refused
<1>3. ASSUME NEW v \in Slot, slot[v].at # "idle", Row(slot[v].job) = r,
             NEW w \in Slot, slot[w].at # "idle", Row(slot[w].job) = r
      PROVE  v = w
  BY <1>1, <1>3, OneHandler
<1>4. UNCHANGED accepted => (GotThrough(r)' => GotThrough(r))
  BY DEF GotThrough
<1>5. GotThrough(r)' => row'[r] # "PENDING" \/ \E w \in Slot : AtWork(w, r)'
  <2> SUFFICES ASSUME GotThrough(r)', ~ \E w \in Slot : AtWork(w, r)'
               PROVE  row'[r] # "PENDING"
    OBVIOUS
  <2>1. GotThrough(r)
    BY ThroughBySend
  <2>2. CASE row[r] # "PENDING"
    <3>1. row[r] # "absent"
      <4>1. \A x \in Prefix : <<r, x>> \in JobId /\ Row(<<r, x>>) = r
        BY DEF JobId, Row
      <4>2. row[r] = "absent" => \A x \in Prefix, p \in Person : accepted[<<r, x>>][p] = 0
        BY <4>1 DEF Budget, AbsentIsFresh
      <4> QED BY <2>1, <4>2 DEF GotThrough
    <3> QED BY <2>2, <3>1, LeftPending
  <2>3. CASE \E w \in Slot : AtWork(w, r)
    BY <2>3, WorkEnds
  <2> QED BY <1>2, <2>1, <2>2, <2>3
<1>6. ASSUME NEW v \in Slot, AtWork(v, r)', ~slot'[v].ok, GotThrough(r)'
      PROVE  FALSE
  <2>1. /\ slot'[v].job = slot[v].job /\ Row(slot[v].job) = r
        /\ AtWork(v, r) \/ (slot[v].at = "load" /\ row[r] = "PENDING")
    BY <1>6, WorkIsLoaded DEF AtWork, Budget
  <2>2. slot[v].at # "idle"
    BY <2>1 DEF AtWork
  <2>3. \A w \in Slot : AtWork(w, r) => w = v
    BY <1>3, <2>1, <2>2 DEF AtWork
  <2>4. GotThrough(r)
    BY <1>6, <2>3, ThroughBySend
  <2>5. CASE AtWork(v, r)
    <3>1. slot[v].ok
      BY <1>2, <2>4, <2>5
    <3>2. PICK q \in Person : SendAccepted(v, q)
      <4>1. slot'[v].ok # slot[v].ok /\ slot'[v].at # "idle"
        BY <1>6, <3>1 DEF AtWork
      <4>2. AtWork(v, Row(slot[v].job))
        BY <2>1, <2>5
      <4> QED BY <4>1, <4>2, NotedBySend DEF Budget
    <3>3. slot'[v].ok
      BY <3>2 DEF SendAccepted, Budget, Typing, TypeOK, Handler
    <3> QED BY <1>6, <3>3
  <2>6. CASE slot[v].at = "load" /\ row[r] = "PENDING"
    <3>1. PICK w \in Slot : AtWork(w, r)
      BY <1>2, <2>4, <2>6
    <3> QED BY <2>3, <2>6, <3>1 DEF AtWork
  <2> QED BY <2>1, <2>5, <2>6
<1>7. ASSUME row'[r] = "FAILED" PROVE Settled(r)' /\ ~GotThrough(r)'
  <2>1. CASE row[r] = "FAILED"
    <3>1. Over(r)
      BY <1>2, <2>1 DEF Over
    <3> QED BY <1>7, <3>1, OverStays DEF Over
  <2>2. CASE row[r] # "FAILED"
    <3>1. UNCHANGED accepted
      BY <1>7, <2>2, FailedByHandler
    <3>2. ASSUME NEW w \in Slot, slot[w].at = "send", ~slot[w].ok, Row(slot[w].job) = r,
                 slot'[w].at = "throw"
          PROVE  Settled(r)' /\ ~GotThrough(r)'
      <4>1. ~GotThrough(r)
        BY <1>2, <3>2 DEF AtWork
      <4>2. Settled(r)'
        BY <1>1, <1>7, <3>2, ThrowSettles
      <4> QED BY <1>4, <3>1, <4>1, <4>2
    <3>3. ASSUME NEW j \in JobId, dying[j] = "row", Row(j) = r, row[r] # "deleted"
          PROVE  Settled(r)' /\ ~GotThrough(r)'
      <4>1. Over(r)
        BY <1>2, <3>3
      <4> QED BY <1>7, <4>1, OverStays DEF Over
    <3> QED BY <1>7, <2>2, <3>2, <3>3, FailedByHandler
  <2> QED BY <2>1, <2>2
<1>8. ASSUME NEW w \in Slot, slot'[w].at = "throw", Row(slot'[w].job) = r PROVE Over(r)'
  <2>1. CASE slot'[w] = slot[w]
    <3>1. Over(r)
      BY <1>2, <1>8, <2>1
    <3> QED BY <3>1, OverStays
  <2>2. CASE slot'[w] # slot[w]
    <3>1. /\ slot[w].at \in {"send", "log", "cancel"} /\ Row(slot[w].job) = r
          /\ \/ row[r] = "deleted" /\ row' = row /\ accepted' = accepted
             \/ WriteFailed(w) /\ row' = [row EXCEPT ![r] = "FAILED"]
      BY <1>8, <2>2, ThrownIsSettled
    <3>2. row'[r] \in {"deleted", "FAILED"}
      BY <1>1, <3>1
    <3>3. Settled(r)'
      BY <1>1, <1>8, <3>1, <3>2, ThrowSettles
    <3> QED BY <1>7, <3>2, <3>3 DEF Over
  <2> QED BY <2>1, <2>2
<1>9. ASSUME NEW j \in JobId, dying'[j] = "row", Row(j) = r PROVE Over(r)'
  <2>1. Over(r)
    BY <1>2, <1>9, DyingByThrow
  <2> QED BY <2>1, OverStays
<1> QED BY <1>5, <1>6, <1>7, <1>8, <1>9

Faithful ==
  /\ OneJob /\ ListedRowsExist
  /\ faults = 0 => Refused

LEMMA FaithfulInit == Init => Faithful
<1> SUFFICES ASSUME Init PROVE Faithful
  OBVIOUS
<1>1. OneJob
  BY DEF Init, OneJob, NoJob, JobId, Prefix
<1>2. ListedRowsExist
  BY DEF Init, ListedRowsExist
<1>3. Refused
  <2>1. \A r \in Reminder : ~GotThrough(r)
    <3>1. \A j \in JobId, p \in Person : accepted[j][p] = 0
      BY DEF Init
    <3>2. \A r \in Reminder, x \in Prefix : <<r, x>> \in JobId
      BY DEF JobId
    <3>3. ~(0 > 0)
      OBVIOUS
    <3> QED BY <3>1, <3>2, <3>3 DEF GotThrough
  <2> QED BY <2>1 DEF Init, Refused, AtWork, Idle
<1> QED BY <1>1, <1>2, <1>3 DEF Faithful

LEMMA FaithfulKept == Budget /\ Flawless /\ Faithful /\ [Next]_vars => Faithful'
<1> SUFFICES ASSUME Budget, Flawless, Faithful, [Next]_vars PROVE Faithful'
  OBVIOUS
<1>1. CASE UNCHANGED vars
  BY ZenonT(60), <1>1 DEF vars, Faithful, OneJob, ListedRowsExist, Refused, AtWork, Over, Settled, GotThrough
<1>2. CASE Next
  <2>1. OneJob' /\ ListedRowsExist'
    BY <1>2, OneJobKept, ListedRowsKept DEF Faithful
  <2>2. ASSUME faults' = 0 PROVE Refused'
    <3>1. faults \in Nat
      BY DeliveryAssumption DEF Budget, Typing, TypeOK
    <3>2. faults = 0
      BY <1>2, <2>2, <3>1, FaultsGrow
    <3> QED BY <1>2, <2>2, <3>2, RefusedKept DEF Faithful, Flawless
  <2> QED BY <2>1, <2>2 DEF Faithful
<1> QED BY <1>1, <1>2

\* As long as nothing has failed and the script gave the row no second job, FAILED
\* is the truth: no addressee has a copy.
THEOREM FailedMeansRefused == Spec => []FailedWasRefused
<1>1. Init => Faithful
  BY FaithfulInit
<1>2. Budget /\ Flawless /\ Faithful /\ [Next]_vars => Faithful'
  BY FaithfulKept
<1>3. Faithful => FailedWasRefused
  BY DEF Faithful, Refused, FailedWasRefused
<1> QED BY <1>1, <1>2, <1>3, BudgetAlways, FlawlessAlways, PTL DEF Spec

\* Both at once: a row tells what happened to its reminder.
THEOREM RowsTellTheTruth == Spec => []RowTellsTruth
BY SentWasSent, FailedMeansRefused, PTL DEF RowTellsTruth

-----------------------------------------------------------------------------
(* The usage counter. A copy is counted by the handler that sent it, in its   *)
(* next step but for a fault.                                                 *)

\* The handlers that have sent a copy and are about to count it.
Billing == {w \in Slot : slot[w].at = "bill"}

Counted ==
  /\ billed + Cardinality(Billing) <= copies
  /\ copies <= billed + Cardinality(Billing) + faults

LEMMA BillingFinite == IsFiniteSet(Billing) /\ Cardinality(Billing) \in Nat
BY DeliveryAssumption, FS_Subset, FS_CardinalityType DEF Billing

\* Who touches the counters.
LEMMA CountersOfHandlers ==
  ASSUME Next
  PROVE  \/ UNCHANGED <<copies, billed>>
         \/ \E w \in Slot, q \in Person : SendAccepted(w, q)
         \/ \E w \in Slot : IncrementUsage(w)
BY ZenonT(60), NextSplit DEF sendVars, Handle, Produce, Listen, CreateRow, AddJob, LoseJob, Delivered,
  Take, Load, Gate, WriteCancelled, SendRefused, LogMessage, WriteSent,
  WriteFailed, Complete, Throw, HandlerError, Crash, ExpireLock, LoseLock, RecoverStalled,
  Bury, Forget, ExhaustedRow, ExhaustedDlq, Failover, ListenerDies, BeginRecovery, RecoverRow,
  BeginCancel, BeginOptOut, OptOutAgain, Serve, ReadPending, RemoveJob, CancelRow,
  EndRequest, RequestDies

\* Only these handlers come to count a copy, or stop doing so.
LEMMA BillingOfHandlers ==
  ASSUME Typing, Next
  PROVE  \/ Billing' = Billing
         \/ \E w \in Slot, q \in Person : SendAccepted(w, q)
         \/ \E w \in Slot : IncrementUsage(w)
         \/ \E w \in Slot : Billing' = Billing \ {w} /\ faults' = faults + 1
<1>1. slot \in [Slot -> Handler]
  BY DEF Typing, TypeOK
<1>2. ASSUME NEW w \in Slot,
             /\ slot[w].at # "bill" /\ slot'[w].at # "bill"
             /\ \A v \in Slot : v # w => slot'[v] = slot[v]
      PROVE  Billing' = Billing
  BY <1>2 DEF Billing
<1>3. ASSUME NEW w \in Slot,
             \/ Handle(w) \/ HandlerError(w) \/ Crash(w)
             \/ \E k \in JobId : Take(w, k),
             ~ \E q \in Person : SendAccepted(w, q), ~IncrementUsage(w)
      PROVE  Billing' = Billing \/ (Billing' = Billing \ {w} /\ faults' = faults + 1)
  <2>1. CASE \E k \in JobId : Take(w, k)
    BY <1>1, <1>2, <2>1 DEF Take, Idle
  <2>2. CASE Complete(w) \/ Throw(w)
    BY <1>1, <1>2, <2>2 DEF Complete, Throw, Idle
  <2>3. CASE Load(w)
    BY <1>1, <1>2, <2>3 DEF Handler, Load
  <2>4. CASE \E allowed \in BOOLEAN : Gate(w, allowed)
    BY <1>1, <1>2, <2>4 DEF Handler, Gate
  <2>5. CASE \E p \in Person : SendRefused(w, p)
    BY <1>1, <1>2, <2>5 DEF Handler, SendRefused
  <2>6. CASE LogMessage(w)
    BY <1>1, <1>2, <2>6 DEF Handler, LogMessage
  <2>7. CASE WriteCancelled(w) \/ WriteSent(w) \/ WriteFailed(w)
    BY <1>1, <1>2, <2>7 DEF Handler, WriteCancelled, WriteSent, WriteFailed, Update
  <2>8. CASE HandlerError(w) \/ Crash(w)
    <3>1. /\ slot'[w].at # "bill" /\ \A v \in Slot : v # w => slot'[v] = slot[v]
          /\ faults' = faults + 1
      <4>1. CASE HandlerError(w)
        BY <1>1, <4>1 DEF HandlerError, Fault, Handler
      <4>2. CASE Crash(w)
        BY <1>1, <4>2 DEF Crash, Fault, Idle
      <4> QED BY <2>8, <4>1, <4>2
    <3> QED BY <3>1 DEF Billing
  <2> QED BY <1>3, <2>1, <2>2, <2>3, <2>4, <2>5, <2>6, <2>7, <2>8 DEF Handle
<1>4. CASE UNCHANGED slot
  BY <1>4 DEF Billing
<1> QED BY <1>3, <1>4, SlotsOfHandlers

LEMMA CountedKept ==
  ASSUME Typing, Counted, Next
  PROVE  Counted'
<1> DEFINE c == Cardinality(Billing)
           d == Cardinality(Billing')
<1>1. /\ slot \in [Slot -> Handler] /\ copies \in Nat /\ billed \in Nat /\ faults \in Nat
      /\ faults' = faults \/ faults' = faults + 1
  BY DeliveryAssumption, FaultsGrow DEF Typing, TypeOK
<1>2. IsFiniteSet(Billing) /\ c \in Nat
  BY BillingFinite
<1>3. billed + c <= copies /\ copies <= billed + c + faults
  BY DEF Counted
<1>4. ASSUME billed' + d <= copies' /\ copies' <= billed' + d + faults' PROVE Counted'
  BY <1>4 DEF Counted
<1>5. ASSUME NEW w \in Slot, NEW q \in Person, SendAccepted(w, q) PROVE Counted'
  <2>1. Billing' = Billing \cup {w} /\ w \notin Billing
    BY <1>1, <1>5 DEF SendAccepted, Handler, Billing
  <2>2. d = c + 1
    BY <1>2, <2>1, FS_AddElement
  <2>3. copies' = copies + 1 /\ billed' = billed /\ faults' = faults
    BY <1>5 DEF SendAccepted, actorVars
  <2> HIDE DEF c, d
  <2> QED BY <1>1, <1>2, <1>3, <1>4, <2>2, <2>3
<1>6. ASSUME NEW w \in Slot, IncrementUsage(w) PROVE Counted'
  <2>1. Billing' = Billing \ {w} /\ w \in Billing
    BY <1>1, <1>6 DEF IncrementUsage, Handler, Billing
  <2>2. d = c - 1
    BY <1>2, <2>1, FS_RemoveElement
  <2>3. copies' = copies /\ billed' = billed + 1 /\ faults' = faults
    BY <1>6 DEF IncrementUsage, actorVars
  <2> HIDE DEF c, d
  <2> QED BY <1>1, <1>2, <1>3, <1>4, <2>2, <2>3
<1>7. ASSUME NEW w \in Slot, Billing' = Billing \ {w}, faults' = faults + 1, UNCHANGED <<copies, billed>>
      PROVE  Counted'
  <2>1. d \in {c - 1, c}
    BY <1>2, <1>7, FS_RemoveElement
  <2> HIDE DEF c, d
  <2> QED BY <1>1, <1>2, <1>3, <1>4, <1>7, <2>1
<1>8. ASSUME Billing' = Billing, UNCHANGED <<copies, billed>> PROVE Counted'
  <2>1. d = c
    BY <1>8
  <2> HIDE DEF c, d
  <2> QED BY <1>1, <1>2, <1>3, <1>4, <1>8, <2>1
<1> QED BY <1>5, <1>6, <1>7, <1>8, CountersOfHandlers, BillingOfHandlers

LEMMA CountedAlways == Spec => []Counted
<1>1. Init => Counted
  <2> SUFFICES ASSUME Init PROVE Counted
    OBVIOUS
  <2>1. Billing = {}
    BY DEF Init, Billing, Idle
  <2>2. Cardinality(Billing) = 0
    BY <2>1, FS_EmptySet
  <2> QED BY <2>2 DEF Init, Counted
<1>2. Typing /\ Counted /\ [Next]_vars => Counted'
  <2>1. Counted /\ UNCHANGED vars => Counted'
    BY DEF vars, Counted, Billing
  <2> QED BY <2>1, CountedKept
<1> QED BY <1>1, <1>2, TypingAlways, PTL DEF Spec

\* The tenant is never charged for more copies than went out, and misses none but by
\* a fault between the send and the count.
THEOREM UsageFollows == Spec => []UsageFollowsSends
<1>1. Typing /\ Counted => UsageFollowsSends
  <2> SUFFICES ASSUME Typing, Counted PROVE UsageFollowsSends
    OBVIOUS
  <2> DEFINE c == Cardinality(Billing)
  <2>1. copies \in Nat /\ billed \in Nat /\ c \in Nat
    BY BillingFinite DEF Typing, TypeOK
  <2>2. billed + c <= copies /\ copies <= billed + c + faults
    BY DEF Counted
  <2>3. ASSUME billed <= copies, copies <= billed + c + faults PROVE UsageFollowsSends
    BY <2>3 DEF UsageFollowsSends, Billing
  <2> HIDE DEF c
  <2> QED BY <2>1, <2>2, <2>3
<1> QED BY <1>1, CountedAlways, TypingAlways, PTL

-----------------------------------------------------------------------------
(* Opting out, and the usage limit: what a handler has read, and acts on later. *)

\* The handler may still send p a copy of its job.
Carries(w, p) == slot[w].at \in {"gate", "send", "bill", "log"} /\ p \in slot[w].todo

\* Only Load gives a handler somebody to send to.
LEMMA CarriersLoad ==
  ASSUME Typing, Next, NEW v \in Slot, NEW p, Carries(v, p)'
  PROVE  /\ slot'[v].job = slot[v].job
         /\ \/ Carries(v, p)
            \/ slot[v].at = "load" /\ p \in Addressees(Row(slot[v].job))
<1>1. slot \in [Slot -> Handler]
  BY DEF Typing, TypeOK
<1>2. CASE slot'[v] = slot[v]
  BY <1>2 DEF Carries
<1>3. ASSUME NEW w \in Slot,
             \/ Handle(w) \/ HandlerError(w) \/ Crash(w)
             \/ \E k \in JobId : Take(w, k)
      PROVE  \/ slot'[v] = slot[v]
             \/ /\ slot'[v].job = slot[v].job
                /\ \/ Carries(v, p)
                   \/ slot[v].at = "load" /\ p \in Addressees(Row(slot[v].job))
  <2>1. CASE \E k \in JobId : Take(w, k)
    BY <1>1, <2>1 DEF Take, Idle, Carries
  <2>2. CASE Complete(w) \/ Throw(w) \/ Crash(w)
    BY <1>1, <2>2 DEF Complete, Throw, Crash, Idle, Carries
  <2>3. CASE Load(w)
    <3>1. \/ slot' = [slot EXCEPT ![w].at = "complete"]
          \/ \E declined : slot' = [slot EXCEPT ![w].at = "gate",
                                                ![w].todo = Addressees(Row(slot[w].job)) \ declined]
      BY <2>3 DEF Load
    <3>2. slot[w].at = "load"
      BY <2>3 DEF Load
    <3> QED BY <1>1, <3>1, <3>2 DEF Handler, Carries
  <2>4. CASE (\E allowed \in BOOLEAN : Gate(w, allowed)) \/ IncrementUsage(w)
    BY <1>1, <2>4 DEF Handler, Gate, IncrementUsage, Carries
  <2>5. CASE \E q \in Person : SendAccepted(w, q) \/ SendRefused(w, q)
    BY <1>1, <2>5 DEF Handler, SendAccepted, SendRefused, Carries
  <2>6. CASE LogMessage(w) \/ HandlerError(w)
    BY <1>1, <2>6 DEF Handler, LogMessage, HandlerError, Carries
  <2>7. CASE WriteCancelled(w) \/ WriteSent(w) \/ WriteFailed(w)
    BY <1>1, <2>7 DEF Handler, WriteCancelled, WriteSent, WriteFailed, Update, Carries
  <2> QED BY <1>3, <2>1, <2>2, <2>3, <2>4, <2>5, <2>6, <2>7 DEF Handle
<1> QED BY <1>2, <1>3, SlotsOfHandlers DEF Carries

LEMMA OptOutStep ==
  ASSUME Typing, Next, NEW j \in JobId, NEW p \in Person, p \in OptedOut(Row(j)), ~MaySend(j, p)
  PROVE  ~MaySend(j, p)' /\ accepted'[j][p] = accepted[j][p]
<1>1. \A w \in Slot : slot[w].job = j => ~Carries(w, p)
  BY DEF MaySend, Carries
<1>2. p \notin Addressees(Row(j))
  BY DEF Addressees
<1>3. \A w \in Slot : slot'[w].job = j => ~Carries(w, p)'
  BY <1>1, <1>2, CarriersLoad
<1>4. ~MaySend(j, p)'
  BY <1>3 DEF MaySend, Carries
<1>5. ASSUME NEW w \in Slot, NEW q \in Person, SendAccepted(w, q)
      PROVE  accepted'[j][p] = accepted[j][p]
  <2>1. slot[w].job # j \/ q # p
    BY <1>1, <1>5 DEF SendAccepted, Carries
  <2>2. accepted \in [JobId -> [Person -> Nat]] /\ slot[w].job \in JobId
    BY <1>5 DEF Typing, TypeOK, WorkersHaveJobs, Handler, SendAccepted
  <2> QED BY <1>5, <2>1, <2>2 DEF SendAccepted
<1> QED BY <1>4, <1>5, CopiesOfSends

\* Who has opted out gets no further copy, once the handlers that had read the row
\* before are through with it: nothing that starts later looks past the flag.
THEOREM OptOutsAreRespected == Spec => OptOutStopsSends
<1>1. Typing /\ [Next]_vars =>
        [\A j \in JobId, p \in Person :
           (p \in OptedOut(Row(j)) /\ ~MaySend(j, p)) =>
             ~MaySend(j, p)' /\ accepted'[j][p] = accepted[j][p]]_vars
  BY OptOutStep
<1> QED BY <1>1, TypingAlways, PTL DEF Spec, OptOutStopsSends

\* A handler sends to the reminder's addressees, and has sent to one of them when it
\* is about to count a copy.
Listed ==
  \A w \in Slot :
    /\ slot[w].at \in {"gate", "send", "bill", "log"} =>
         slot[w].todo \subseteq Audience[Row(slot[w].job)]
    /\ slot[w].at = "bill" => \E p \in Audience[Row(slot[w].job)] : p \notin slot[w].todo

LEMMA ListedKept ==
  ASSUME Typing, Listed, Next
  PROVE  Listed'
<1>1. slot \in [Slot -> Handler]
  BY DEF Typing, TypeOK
<1>2. ASSUME NEW v \in Slot, slot'[v].at \in {"gate", "send", "bill", "log"}
      PROVE  slot'[v].todo \subseteq Audience[Row(slot'[v].job)]
  BY <1>2, CarriersLoad DEF Carries, Listed, Addressees
<1>3. ASSUME NEW v \in Slot, slot'[v].at = "bill"
      PROVE  \E p \in Audience[Row(slot'[v].job)] : p \notin slot'[v].todo
  <2>1. CASE slot'[v] = slot[v]
    BY <1>3, <2>1 DEF Listed
  <2>2. ASSUME NEW p \in Person, SendAccepted(v, p)
        PROVE  \E q \in Audience[Row(slot'[v].job)] : q \notin slot'[v].todo
    BY <1>1, <2>2 DEF SendAccepted, Handler, Listed
  <2>3. ASSUME NEW w \in Slot,
               \/ Handle(w) \/ HandlerError(w) \/ Crash(w)
               \/ \E k \in JobId : Take(w, k)
        PROVE  slot'[v] = slot[v] \/ \E p \in Person : SendAccepted(v, p)
    <3>1. CASE \E k \in JobId : Take(w, k)
      BY <1>1, <1>3, <3>1 DEF Take, Idle
    <3>2. CASE Complete(w) \/ Throw(w) \/ Crash(w)
      BY <1>1, <1>3, <3>2 DEF Complete, Throw, Crash, Idle
    <3>3. CASE Load(w) \/ (\E allowed \in BOOLEAN : Gate(w, allowed)) \/ IncrementUsage(w)
      BY <1>1, <1>3, <3>3 DEF Handler, Load, Gate, IncrementUsage
    <3>4. CASE \E q \in Person : SendAccepted(w, q) \/ SendRefused(w, q)
      BY <1>1, <1>3, <3>4 DEF Handler, SendAccepted, SendRefused
    <3>5. CASE LogMessage(w) \/ HandlerError(w)
      BY <1>1, <1>3, <3>5 DEF Handler, LogMessage, HandlerError
    <3>6. CASE WriteCancelled(w) \/ WriteSent(w) \/ WriteFailed(w)
      BY <1>1, <1>3, <3>6 DEF Handler, WriteCancelled, WriteSent, WriteFailed, Update
    <3> QED BY <2>3, <3>1, <3>2, <3>3, <3>4, <3>5, <3>6 DEF Handle
  <2> QED BY <2>1, <2>2, <2>3, SlotsOfHandlers
<1> QED BY <1>2, <1>3 DEF Listed

\* The person whose copy is being counted; the state does not say who it is, and it
\* does not matter which of those who are no longer on the list.
Paid(w) == CHOOSE p \in Audience[Row(slot[w].job)] : p \notin slot[w].todo

\* The copies that handlers past the check are still to count: those they may send,
\* and one that is sent.
Bears(w, p) ==
  /\ slot[w].at \in {"send", "bill", "log"}
  /\ p \in slot[w].todo \/ (slot[w].at = "bill" /\ p = Paid(w))

Due == {x \in Slot \X Person : Bears(x[1], x[2])}

LEMMA DueFinite == IsFiniteSet(Due) /\ Cardinality(Due) \in Nat
<1>1. IsFiniteSet(Slot \X Person)
  BY DeliveryAssumption, FS_Product
<1> QED BY <1>1, FS_Subset, FS_CardinalityType DEF Due

LEMMA PaidListed ==
  ASSUME Typing, Listed, NEW w \in Slot, slot[w].at = "bill"
  PROVE  Paid(w) \in Person /\ Paid(w) \notin slot[w].todo
<1>1. Paid(w) \in Audience[Row(slot[w].job)] /\ Paid(w) \notin slot[w].todo
  BY DEF Listed, Paid
<1>2. Row(slot[w].job) \in Reminder
  BY DEF Typing, TypeOK, WorkersHaveJobs, Handler, JobId, Row
<1> QED BY <1>1, <1>2, DeliveryAssumption

\* Each of the handlers past the check has one copy for each addressee at most.
LEMMA DueBounded ==
  ASSUME Typing, Listed, NEW m \in Nat, AtMostWide(m)
  PROVE  Cardinality(Due) <= Cardinality(Slot) * m
<1> DEFINE N(r) == CHOOSE f \in Injection(Audience[r], 1..m) : TRUE
           R(w) == Row(slot[w].job)
           F == [x \in Due |-> <<x[1], N(R(x[1]))[x[2]]>>]
<1>1. ASSUME NEW r \in Reminder PROVE N(r) \in Injection(Audience[r], 1..m)
  <2> DEFINE c == Cardinality(Audience[r])
  <2>1. IsFiniteSet(Audience[r])
    BY DeliveryAssumption, FS_Subset
  <2>2. c \in Nat /\ c <= m /\ ExistsBijection(1..c, Audience[r])
    BY <2>1, FS_CardinalityType DEF AtMostWide
  <2>3. ExistsBijection(Audience[r], 1..c)
    <3> HIDE DEF c
    <3> QED BY <2>2, Fun_ExistsBijSymmetric
  <2>4. PICK f : f \in Bijection(Audience[r], 1..c)
    <3> HIDE DEF c
    <3> QED BY <2>3 DEF ExistsBijection
  <2>5. f \in Injection(Audience[r], 1..m)
    <3> HIDE DEF c
    <3>1. f \in [Audience[r] -> 1..c] /\ IsInjective(f)
      BY <2>4 DEF Bijection, Injection
    <3>2. f \in [Audience[r] -> 1..m]
      BY <2>2, <3>1
    <3> QED BY <3>1, <3>2 DEF Injection
  <2> QED BY <2>5
<1>2. ASSUME NEW x \in Due
      PROVE  /\ x[1] \in Slot /\ R(x[1]) \in Reminder /\ x[2] \in Audience[R(x[1])]
             /\ x = <<x[1], x[2]>>
  <2>1. x \in Slot \X Person /\ Bears(x[1], x[2])
    BY DEF Due
  <2>2. R(x[1]) \in Reminder
    BY <2>1 DEF Typing, TypeOK, WorkersHaveJobs, Handler, JobId, Row, Bears
  <2>3. x[2] \in Audience[R(x[1])]
    BY <2>1 DEF Bears, Listed, Paid
  <2> QED BY <2>1, <2>2, <2>3
<1> HIDE DEF N, R
<1>3. F \in [Due -> Slot \X (1..m)]
  <2>1. ASSUME NEW x \in Due PROVE N(R(x[1]))[x[2]] \in 1..m
    BY <1>1, <1>2 DEF Injection
  <2> QED BY <1>2, <2>1
<1>4. ASSUME NEW x \in Due, NEW y \in Due, F[x] = F[y] PROVE x = y
  <2>1. x[1] = y[1] /\ N(R(x[1]))[x[2]] = N(R(y[1]))[y[2]]
    BY <1>4
  <2>2. N(R(x[1])) \in Injection(Audience[R(x[1])], 1..m)
    BY <1>1, <1>2
  <2>3. x[2] = y[2]
    BY <1>2, <2>1, <2>2 DEF Injection, IsInjective
  <2> QED BY <1>2, <2>1, <2>3
<1>5. F \in Injection(Due, Slot \X (1..m))
  BY <1>3, <1>4 DEF Injection, IsInjective
<1>6. /\ IsFiniteSet(Slot \X (1..m))
      /\ Cardinality(Slot \X (1..m)) = Cardinality(Slot) * m
  <2>1. IsFiniteSet(1..m) /\ Cardinality(1..m) = m
    BY FS_Interval
  <2> QED BY <2>1, DeliveryAssumption, FS_Product
<1> HIDE DEF F
<1> QED BY <1>5, <1>6, FS_Injection

\* What a step does to the copies to be counted.
LEMMA DueSteps ==
  ASSUME Typing, Listed, Next
  PROVE  \/ Due' \subseteq Due
         \/ \E w \in Slot, p \in Person : SendAccepted(w, p)
         \/ \E n \in Slot, allowed \in BOOLEAN : Gate(n, allowed) /\ slot'[n].at = "send"
<1>1. slot \in [Slot -> Handler]
  BY DEF Typing, TypeOK
<1>2. ASSUME \A w \in Slot : slot'[w].at \in {"send", "bill", "log"} =>
               /\ slot[w].at \in {"send", "bill", "log"}
               /\ slot'[w].todo \subseteq slot[w].todo
               /\ slot'[w].at = "bill" => slot'[w] = slot[w]
      PROVE  Due' \subseteq Due
  BY <1>2 DEF Due, Bears, Paid
<1>3. CASE UNCHANGED slot
  BY <1>2, <1>3
<1>4. ASSUME NEW w \in Slot,
             \/ Handle(w) \/ HandlerError(w) \/ Crash(w)
             \/ \E k \in JobId : Take(w, k),
             ~ \E q \in Person : SendAccepted(w, q),
             ~ \E allowed \in BOOLEAN : Gate(w, allowed) /\ slot'[w].at = "send"
      PROVE  /\ \A v \in Slot : v # w => slot'[v] = slot[v]
             /\ slot'[w].at \in {"send", "bill", "log"} =>
                  /\ slot[w].at \in {"send", "bill", "log"}
                  /\ slot'[w].todo \subseteq slot[w].todo
                  /\ slot'[w].at = "bill" => slot'[w] = slot[w]
  <2>1. CASE \E k \in JobId : Take(w, k)
    BY <1>1, <2>1 DEF Take, Idle
  <2>2. CASE Complete(w) \/ Throw(w) \/ Crash(w)
    BY <1>1, <2>2 DEF Complete, Throw, Crash, Idle
  <2>3. CASE Load(w)
    BY <1>1, <2>3 DEF Handler, Load
  <2>4. CASE \E allowed \in BOOLEAN : Gate(w, allowed)
    BY ZenonT(60), <1>1, <1>4, <2>4 DEF Handler, Gate
  <2>5. CASE \E q \in Person : SendRefused(w, q)
    BY <1>1, <2>5 DEF Handler, SendRefused
  <2>6. CASE IncrementUsage(w) \/ LogMessage(w) \/ HandlerError(w)
    BY <1>1, <2>6 DEF Handler, IncrementUsage, LogMessage, HandlerError
  <2>7. CASE WriteCancelled(w) \/ WriteSent(w) \/ WriteFailed(w)
    BY <1>1, <2>7 DEF Handler, WriteCancelled, WriteSent, WriteFailed, Update
  <2> QED BY <1>4, <2>1, <2>2, <2>3, <2>4, <2>5, <2>6, <2>7 DEF Handle
<1> QED BY <1>2, <1>3, <1>4, SlotsOfHandlers

\* Nothing is sent, or the copies counted and to be counted stay below the limit and
\* what the handlers pass the check with together.
Paced(limit, m) ==
  \/ copies = 0 /\ billed = 0 /\ Due = {}
  \/ billed + Cardinality(Due) < limit + Cardinality(Slot) * m

WithinPace == \A n \in Limit, m \in Nat : AtMostWide(m) => Paced(n, m)

Crowded ==
  Typing /\ Listed => \A m \in Nat : AtMostWide(m) => Cardinality(Due) <= Cardinality(Slot) * m

\* The bound on what is due holds of the state after a step, too.
LEMMA NextCrowded == Crowded /\ Crowded'
<1>1. Crowded
  BY DueBounded DEF Crowded
<1> QED BY <1>1, PTL

\* What is due is a finite set after a step, too.
LEMMA NextDueFinite == Cardinality(Due') \in Nat
<1> DEFINE P == Slot \X Person
<1>1. IsFiniteSet(P) /\ Due' \subseteq P
  BY DeliveryAssumption, FS_Product DEF Due
<1> HIDE DEF P
<1> QED BY <1>1, FS_Subset, FS_CardinalityType

\* The pace survives every step.
LEMMA PaceKept ==
  ASSUME Typing, Listed, WithinPace, Next
  PROVE  WithinPace'
<1> SUFFICES ASSUME NEW n \in Limit, NEW m \in Nat, AtMostWide(m) PROVE Paced(n, m)'
  BY DEF WithinPace, AtMostWide
<1> DEFINE d == Cardinality(Due)
           e == Cardinality(Due')
           k == Cardinality(Slot) * m
<1>1. /\ slot \in [Slot -> Handler] /\ billed \in Nat /\ n \in Nat /\ k \in Nat
      /\ d \in Nat /\ IsFiniteSet(Due) /\ Paced(n, m)
  BY DeliveryAssumption, DueFinite, FS_CardinalityType DEF Typing, TypeOK, WithinPace
<1>2. ASSUME Due' \subseteq Due, UNCHANGED <<copies, billed>> PROVE Paced(n, m)'
  <2>1. e \in Nat /\ e <= d
    BY <1>1, <1>2, FS_Subset, FS_CardinalityType
  <2>2. CASE billed + d < n + k
    <3>1. billed' + e < n + k
      <4> HIDE DEF d, e, k
      <4> QED BY <1>1, <1>2, <2>1, <2>2
    <3> QED BY <3>1 DEF Paced
  <2>3. CASE copies = 0 /\ billed = 0 /\ Due = {}
    BY <1>2, <2>3 DEF Paced
  <2> QED BY <1>1, <2>2, <2>3 DEF Paced
<1>3. ASSUME NEW w \in Slot, NEW p \in Person, SendAccepted(w, p) PROVE Paced(n, m)'
  <2>1. /\ slot[w].at = "send" /\ p \in slot[w].todo
        /\ slot' = [slot EXCEPT ![w].at = "bill", ![w].todo = @ \ {p}, ![w].ok = TRUE]
        /\ billed' = billed
    BY <1>3 DEF SendAccepted
  <2>2. /\ slot'[w].at = "bill" /\ slot'[w].todo = slot[w].todo \ {p}
        /\ \A v \in Slot : v # w => slot'[v] = slot[v]
    BY <1>1, <2>1 DEF Handler
  <2>3. <<w, p>> \in Due
    BY <2>1 DEF Due, Bears
  <2>4. \A v \in Slot, q \in Person : v # w => (<<v, q>> \in Due' <=> <<v, q>> \in Due)
    BY <2>2 DEF Due, Bears, Paid
  <2>5. \A q \in Person : <<w, q>> \in Due' => <<w, q>> \in Due \ {<<w, p>>} \/ q = Paid(w)'
    BY <2>1, <2>2 DEF Due, Bears
  <2>6. Due' \subseteq (Due \ {<<w, p>>}) \cup {<<w, Paid(w)'>>}
    <3>1. ASSUME NEW x \in Due' PROVE x \in (Due \ {<<w, p>>}) \cup {<<w, Paid(w)'>>}
      <4>1. PICK v \in Slot, q \in Person : x = <<v, q>>
        BY DEF Due
      <4> QED BY <2>4, <2>5, <4>1
    <3> QED BY <3>1
  <2>7. e \in Nat /\ e <= d
    <3>1. PICK x : x = <<w, Paid(w)'>>
      OBVIOUS
    <3>2. PICK y : y = <<w, p>>
      OBVIOUS
    <3>3. IsFiniteSet(Due \ {y}) /\ Cardinality(Due \ {y}) = d - 1
      BY <1>1, <2>3, <3>2, FS_RemoveElement
    <3>4. /\ IsFiniteSet((Due \ {y}) \cup {x})
          /\ Cardinality((Due \ {y}) \cup {x}) \in {d - 1, d}
      BY <1>1, <3>3, FS_AddElement
    <3>5. Due' \subseteq (Due \ {y}) \cup {x}
      BY <2>6, <3>1, <3>2
    <3>6. e \in Nat /\ e <= Cardinality((Due \ {y}) \cup {x})
      BY <3>4, <3>5, FS_Subset, FS_CardinalityType
    <3> HIDE DEF d, e
    <3> QED BY <1>1, <3>4, <3>6
  <2>8. billed + d < n + k
    BY <1>1, <2>3 DEF Paced
  <2>9. billed' + e < n + k
    <3> HIDE DEF d, e, k
    <3> QED BY <1>1, <2>1, <2>7, <2>8
  <2> QED BY <2>9 DEF Paced
<1>4. ASSUME NEW w \in Slot, IncrementUsage(w) PROVE Paced(n, m)'
  <2>1. /\ slot[w].at = "bill" /\ slot' = [slot EXCEPT ![w].at = "log"] /\ billed' = billed + 1
    BY <1>4 DEF IncrementUsage
  <2>2. /\ slot'[w].at = "log" /\ slot'[w].todo = slot[w].todo
        /\ \A v \in Slot : v # w => slot'[v] = slot[v]
    BY <1>1, <2>1 DEF Handler
  <2>3. PICK y : y = <<w, Paid(w)>>
    OBVIOUS
  <2>4. Paid(w) \in Person /\ Paid(w) \notin slot[w].todo
    BY <2>1, PaidListed
  <2>5. y \in Due
    BY <2>1, <2>3, <2>4 DEF Due, Bears
  <2>6. Due' \subseteq Due \ {y}
    <3>1. ASSUME NEW v \in Slot, NEW q \in Person, Bears(v, q)' PROVE Bears(v, q) /\ <<v, q>> # y
      <4>1. CASE v = w
        BY <2>1, <2>2, <2>3, <2>4, <3>1, <4>1 DEF Bears
      <4>2. CASE v # w
        BY <2>2, <2>3, <3>1, <4>2 DEF Bears, Paid
      <4> QED BY <4>1, <4>2
    <3>2. ASSUME NEW x \in Due' PROVE x \in Due \ {y}
      <4>1. PICK v \in Slot, q \in Person : x = <<v, q>> /\ Bears(v, q)'
        BY DEF Due
      <4> QED BY <3>1, <4>1 DEF Due
    <3> QED BY <3>2
  <2>7. e \in Nat /\ e <= d - 1
    <3>1. IsFiniteSet(Due \ {y}) /\ Cardinality(Due \ {y}) = d - 1
      BY <1>1, <2>5, FS_RemoveElement
    <3> QED BY <2>6, <3>1, FS_Subset, FS_CardinalityType
  <2>8. billed + d < n + k
    BY <1>1, <2>5 DEF Paced
  <2>9. billed' + e < n + k
    <3> HIDE DEF d, e, k
    <3> QED BY <1>1, <2>1, <2>7, <2>8
  <2> QED BY <2>9 DEF Paced
<1>5. ASSUME NEW w \in Slot, NEW allowed \in BOOLEAN, Gate(w, allowed), slot'[w].at = "send",
             Typing', Listed'
      PROVE  Paced(n, m)'
  <2>1. billed < n /\ billed' = billed
    BY <1>1, <1>5 DEF Gate, sendVars, Handler
  <2>2. AtMostWide(m)'
    BY DEF AtMostWide
  <2>3. e <= k /\ e \in Nat
    BY <1>5, <2>2, NextCrowded, NextDueFinite DEF Crowded, AtMostWide
  <2>4. billed' + e < n + k
    <3> HIDE DEF d, e, k
    <3> QED BY <1>1, <2>1, <2>3
  <2> QED BY <2>4 DEF Paced
<1>6. Typing' /\ Listed'
  BY TypingKept, ListedKept
<1> QED BY <1>2, <1>3, <1>4, <1>5, <1>6, DueSteps, CountersOfHandlers

\* The copies sent exceed the limit by less than the handlers can pass the check
\* with together, and by one for each fault between a send and its count.
THEOREM UsageStaysWithin == Spec => []UsageWithinLimit
<1>1. Init => Listed /\ WithinPace
  <2> SUFFICES ASSUME Init PROVE Listed /\ WithinPace
    OBVIOUS
  <2>1. Due = {}
    BY DEF Init, Due, Bears, Idle
  <2> QED BY <2>1 DEF Init, Listed, Idle, WithinPace, Paced
<1>2. Typing /\ Listed /\ WithinPace /\ [Next]_vars => Listed' /\ WithinPace'
  <2>1. Listed /\ WithinPace /\ UNCHANGED vars => Listed' /\ WithinPace'
    BY DEF vars, Listed, WithinPace, AtMostWide, Paced, Due, Bears, Paid
  <2> QED BY <2>1, ListedKept, PaceKept
<1>3. Typing /\ Counted /\ Listed /\ WithinPace => UsageWithinLimit
  <2> SUFFICES ASSUME Typing, Counted, Listed, WithinPace,
                      NEW n \in Limit, NEW m \in 0..Cardinality(Person), AtMostWide(m), copies # 0
               PROVE  copies < n + Cardinality(Slot) * m + faults
    BY DEF UsageWithinLimit
  <2> DEFINE c == Cardinality(Billing)
             d == Cardinality(Due)
             k == Cardinality(Slot) * m
             F == [w \in Billing |-> <<w, Paid(w)>>]
  <2>1. /\ Cardinality(Slot) \in Nat /\ Cardinality(Person) \in Nat /\ m \in Nat /\ k \in Nat
        /\ copies \in Nat /\ billed \in Nat /\ faults \in Nat /\ n \in Nat
    BY DeliveryAssumption, FS_CardinalityType DEF Typing, TypeOK
  <2>2. billed + d < n + k
    BY <2>1 DEF WithinPace, Paced
  <2>3. copies <= billed + c + faults
    BY DEF Counted
  <2>4. c \in Nat /\ d \in Nat /\ c <= d
    <3>1. F \in [Billing -> Due]
      BY PaidListed DEF Billing, Due, Bears
    <3>2. \A v, w \in Billing : F[v] = F[w] => v = w
      OBVIOUS
    <3>3. F \in Injection(Billing, Due)
      BY <3>1, <3>2 DEF Injection, IsInjective
    <3> HIDE DEF F
    <3> QED BY <3>3, FS_Injection, DueFinite, BillingFinite
  <2>5. copies < n + k + faults
    <3> HIDE DEF c, d, k
    <3> QED BY <2>1, <2>2, <2>3, <2>4
  <2> QED BY <2>5
<1> QED BY <1>1, <1>2, <1>3, TypingAlways, CountedAlways, PTL DEF Spec

=============================================================================
