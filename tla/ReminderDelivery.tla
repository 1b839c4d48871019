-------------------------- MODULE ReminderDelivery ---------------------------
(***************************************************************************)
(* Delivery of reminders: the Reminder rows in Postgres, the BullMQ jobs   *)
(* that stand for them in Redis, and everybody who touches both:           *)
(*                                                                         *)
(*   - the producers (ReminderSchedulerService, AppointmentService.create),*)
(*     which write a row and then add its job;                             *)
(*   - the handler of reminder.worker.ts, run by every concurrency slot of *)
(*     every replica, one action per await that other actors can come      *)
(*     between;                                                            *)
(*   - its 'failed' listener: dead letter queue and channel failover;      *)
(*   - cancelForAppointment / cancelForEvent and their callers: a          *)
(*     cancellation, a deletion, an opt-out;                               *)
(*   - scripts/recover-reminders.ts, run by hand;                          *)
(*   - the provider's delivery callback.                                   *)
(*                                                                         *)
(* Faults (a worker dies, loses its lock, a database call throws, a caller *)
(* dies half way) are actions of their own, counted in faults.             *)
(***************************************************************************)
EXTENDS BullQueue, FiniteSets, Functions

CONSTANTS Reminder,   \* Reminder rows, created or not
          Person,     \* phone numbers: a Customer and a Contact row each
          Booking,    \* appointments and events
          BookingOf,  \* the appointment or event a reminder belongs to
          Kind,       \* "appointment" (one customer) or "event" (participants)
          Audience,   \* whom a reminder addresses
          Attempts,   \* the attempts option of a job, by the prefix of its id
          Limit,      \* the SMS limit in force: a set of at most one, empty without
          Requests,   \* the callers that take part: "cancel", "remove", "optout"
          MaxFaults   \* bound on the faults of a behaviour

\* The prefix of a job id: "reminder-<id>" for the scheduler and the recovery
\* script, "rem_<id>" for AppointmentService.create.
Prefix == {"reminder", "rem"}

JobId == Reminder \X Prefix

ASSUME DeliveryAssumption ==
  /\ None \notin Reminder \cup Prefix \cup JobId
  /\ IsFiniteSet(Slot) /\ IsFiniteSet(Person)
  /\ BookingOf \in [Reminder -> Booking]
  /\ Kind \in [Reminder -> {"appointment", "event"}]
  /\ Audience \in [Reminder -> SUBSET Person]
  /\ Attempts \in [Prefix -> Nat]
  /\ Limit \subseteq Nat
  /\ Requests \subseteq {"cancel", "remove", "optout"}
  /\ MaxFaults \in Nat

VARIABLES
  row,          \* status column of each reminder, "absent" before the insert
  producing,    \* the producer that has written the row, not yet its job
  job,          \* the queue: one record for each job id
  slot,         \* what each concurrency slot is doing
  accepted,     \* copies the provider accepted, by job and addressee
  copies,       \* history: how many copies that is in all
  billed,       \* increments of the tenant's usage counter
  logged,       \* reminders with an outbound MessageLog row
  escalated,    \* copies sent on another channel by the failed listener
  dlq,          \* job ids in the dead letter queue
  dying,        \* progress of the failed listener of each job
  customerOut,  \* Customer.unsubscribed
  contactOut,   \* Contact.unsubscribed
  request,      \* the cancellation, deletion or opt-out in progress
  recovering,   \* rows the recovery script has read and not yet looked at
  recovered,    \* history: rows that were given a second job by the script
  faults        \* history: how many faults have happened

queueVars == <<producing, job>>
sendVars == <<accepted, copies, billed, logged, escalated>>
deadVars == <<dlq, dying>>
outVars == <<customerOut, contactOut>>
actorVars == <<request, recovering, recovered>>
vars == <<row, producing, job, slot, accepted, copies, billed, logged, escalated,
          dlq, dying, customerOut, contactOut, request, recovering, recovered, faults>>

RowStatus == {"absent", "PENDING", "SENT", "DELIVERED", "FAILED", "CANCELLED", "deleted"}

Step == {"idle", "load", "gate", "send", "bill", "log", "cancel", "complete", "throw"}

Handler == [at : Step, job : JobId \cup {None}, todo : SUBSET Person, ok : BOOLEAN]

Idle == [at |-> "idle", job |-> None, todo |-> {}, ok |-> FALSE]

NoRequest == [mode |-> "none", who |-> None, bookings |-> {}, rows |-> {}, cur |-> None]

Row(j) == j[1]

\* A fault happens, while the bound lasts.
Fault == faults < MaxFaults /\ faults' = faults + 1

Init ==
  /\ row = [r \in Reminder |-> "absent"]
  /\ producing = [r \in Reminder |-> None]
  /\ job = [j \in JobId |-> NoJob]
  /\ slot = [w \in Slot |-> Idle]
  /\ accepted = [j \in JobId |-> [p \in Person |-> 0]]
  /\ copies = 0 /\ billed = 0
  /\ logged = {}
  /\ escalated = [r \in Reminder |-> 0]
  /\ dlq = {}
  /\ dying = [j \in JobId |-> "no"]
  /\ customerOut = {} /\ contactOut = {}
  /\ request = NoRequest
  /\ recovering = {} /\ recovered = {}
  /\ faults = 0

-----------------------------------------------------------------------------
(* Producers: the row first, the job in a later call. *)

\* Who has opted out, by the flag that is looked at for the reminder.
OptedOut(r) == IF Kind[r] = "appointment" THEN customerOut ELSE contactOut

\* Whom the handler would address now: an appointment's customer, or an
\* event's participants, minus those who have opted out.
Addressees(r) == Audience[r] \ OptedOut(r)

\* The scheduler skips who has opted out; AppointmentService.create, with a
\* reminderConfig, asks nobody.
CreateRow(r, x) ==
  /\ row[r] = "absent"
  /\ \/ x = "reminder" /\ Addressees(r) # {}
     \/ x = "rem" /\ Kind[r] = "appointment"
  /\ row' = [row EXCEPT ![r] = "PENDING"]
  /\ producing' = [producing EXCEPT ![r] = x]
  /\ UNCHANGED <<job, slot, sendVars, deadVars, outVars, actorVars, faults>>

AddJob(r) ==
  /\ producing[r] # None
  /\ job' = [job EXCEPT ![<<r, producing[r]>>] = Added(@)]
  /\ producing' = [producing EXCEPT ![r] = None]
  /\ UNCHANGED <<row, slot, sendVars, deadVars, outVars, actorVars, faults>>

\* The API process dies, or Redis refuses the add: the error is logged and the
\* booking stands.
LoseJob(r) ==
  /\ producing[r] # None
  /\ Fault
  /\ producing' = [producing EXCEPT ![r] = None]
  /\ UNCHANGED <<row, job, slot, sendVars, deadVars, outVars, actorVars>>

-----------------------------------------------------------------------------
(* The handler of reminder.worker.ts. *)

Take(w, j) ==
  /\ slot[w].at = "idle"
  /\ Startable(job[j])
  /\ job' = [job EXCEPT ![j] = Started(@, w)]
  /\ slot' = [slot EXCEPT ![w] = [Idle EXCEPT !.at = "load", !.job = j]]
  /\ UNCHANGED <<row, producing, sendVars, deadVars, outVars, actorVars, faults>>

\* Variant of Load without its status check.
LoadAnyStatus(w) ==
  /\ slot[w].at = "load"
  /\ slot' = [slot EXCEPT ![w].at = "gate", ![w].todo = Addressees(Row(slot[w].job))]
  /\ UNCHANGED <<row, queueVars, sendVars, deadVars, outVars, actorVars, faults>>

\* Variant of Load that asks nobody whether they have opted out.
LoadEverybody(w) ==
  LET r == Row(slot[w].job) IN
  /\ slot[w].at = "load"
  /\ slot' = IF row[r] = "PENDING"
             THEN [slot EXCEPT ![w].at = "gate", ![w].todo = Audience[r]]
             ELSE [slot EXCEPT ![w].at = "complete"]
  /\ UNCHANGED <<row, queueVars, sendVars, deadVars, outVars, actorVars, faults>>

\* findUnique with the customer and the participants. A row that is gone or no
\* longer PENDING ends the job. declined are the participants who answered no.
Load(w) ==
  LET r == Row(slot[w].job) IN
  /\ slot[w].at = "load"
  /\ \/ /\ row[r] # "PENDING"
        /\ slot' = [slot EXCEPT ![w].at = "complete"]
     \/ /\ row[r] = "PENDING"
        /\ \E declined \in SUBSET Audience[r] :
             /\ Kind[r] = "appointment" => declined = {}
             /\ slot' = [slot EXCEPT ![w].at = "gate",
                                     ![w].todo = Addressees(r) \ declined]
  /\ UNCHANGED <<row, queueVars, sendVars, deadVars, outVars, actorVars, faults>>

\* Variant of Gate that returns without settling the row.
GateReturns(w, allowed) ==
  /\ slot[w].at = "gate"
  /\ slot' = [slot EXCEPT ![w].at =
                IF allowed /\ slot[w].todo # {} THEN "send" ELSE "complete"]
  /\ UNCHANGED <<row, queueVars, sendVars, deadVars, outVars, actorVars, faults>>

\* Variant of Gate that lets the limit itself pass.
GateAtLimit(w, allowed) ==
  /\ slot[w].at = "gate"
  /\ slot' = [slot EXCEPT ![w].at =
                IF allowed /\ (\A n \in Limit : billed <= n) /\ slot[w].todo # {}
                THEN "send" ELSE "cancel"]
  /\ UNCHANGED <<row, queueVars, sendVars, deadVars, outVars, actorVars, faults>>

\* The usage limit of the tenant, read here and not again; its plan and trial,
\* and for an event its remindNonResponders flag, in allowed; and somebody to
\* send to. The counter starts a period at zero; the period does not end.
Gate(w, allowed) ==
  /\ slot[w].at = "gate"
  /\ slot' = [slot EXCEPT ![w].at =
                IF allowed /\ (\A n \in Limit : billed < n) /\ slot[w].todo # {}
                THEN "send" ELSE "cancel"]
  /\ UNCHANGED <<row, queueVars, sendVars, deadVars, outVars, actorVars, faults>>

\* prisma.reminder.update by a handler: it throws when the row is gone.
Update(w, status, next) ==
  LET r == Row(slot[w].job)
      gone == row[r] = "deleted"
  IN /\ row' = IF gone THEN row ELSE [row EXCEPT ![r] = status]
     /\ slot' = [slot EXCEPT ![w].at = IF gone THEN "throw" ELSE next]

WriteCancelled(w) ==
  /\ slot[w].at = "cancel"
  /\ Update(w, "CANCELLED", "complete")
  /\ UNCHANGED <<queueVars, sendVars, deadVars, outVars, actorVars, faults>>

SendAccepted(w, p) ==
  /\ slot[w].at = "send" /\ p \in slot[w].todo
  /\ accepted' = [accepted EXCEPT ![slot[w].job][p] = @ + 1]
  /\ copies' = copies + 1
  /\ slot' = [slot EXCEPT ![w].at = "bill", ![w].todo = @ \ {p}, ![w].ok = TRUE]
  /\ UNCHANGED <<row, queueVars, billed, logged, escalated, deadVars, outVars,
                 actorVars, faults>>

\* Variants of SendRefused that do not look at the provider's answer, for the
\* outcome of the loop or for the usage counter.
RefusalNoted(w, p) ==
  /\ slot[w].at = "send" /\ p \in slot[w].todo
  /\ slot' = [slot EXCEPT ![w].todo = @ \ {p}, ![w].ok = TRUE]
  /\ UNCHANGED <<row, queueVars, sendVars, deadVars, outVars, actorVars, faults>>

RefusalBilled(w, p) ==
  /\ slot[w].at = "send" /\ p \in slot[w].todo
  /\ slot' = [slot EXCEPT ![w].at = "bill", ![w].todo = @ \ {p}]
  /\ UNCHANGED <<row, queueVars, sendVars, deadVars, outVars, actorVars, faults>>

SendRefused(w, p) ==
  /\ slot[w].at = "send" /\ p \in slot[w].todo
  /\ slot' = [slot EXCEPT ![w].todo = @ \ {p}]
  /\ UNCHANGED <<row, queueVars, sendVars, deadVars, outVars, actorVars, faults>>

IncrementUsage(w) ==
  /\ slot[w].at = "bill"
  /\ billed' = billed + 1
  /\ slot' = [slot EXCEPT ![w].at = "log"]
  /\ UNCHANGED <<row, queueVars, accepted, copies, logged, escalated, deadVars, outVars,
                 actorVars, faults>>

\* Variant of LogMessage that links the message to the job, not to the reminder.
LogJobId(w) ==
  /\ slot[w].at = "log"
  /\ logged' = logged \cup {slot[w].job}
  /\ slot' = [slot EXCEPT ![w].at = "send"]
  /\ UNCHANGED <<row, queueVars, accepted, copies, billed, escalated, deadVars, outVars,
                 actorVars, faults>>

\* messageLog.create: the row it refers to must still be there.
LogMessage(w) ==
  LET r == Row(slot[w].job)
      gone == row[r] = "deleted"
  IN /\ slot[w].at = "log"
     /\ logged' = IF gone THEN logged ELSE logged \cup {r}
     /\ slot' = [slot EXCEPT ![w].at = IF gone THEN "throw" ELSE "send"]
     /\ UNCHANGED <<row, queueVars, accepted, copies, billed, escalated, deadVars, outVars,
                    actorVars, faults>>

\* The loop is over: SENT when one copy got through. The write is
\* unconditional, whatever became of the row since Load.
WriteSent(w) ==
  /\ slot[w].at = "send" /\ slot[w].todo = {} /\ slot[w].ok
  /\ Update(w, "SENT", "complete")
  /\ UNCHANGED <<queueVars, sendVars, deadVars, outVars, actorVars, faults>>

WriteFailed(w) ==
  /\ slot[w].at = "send" /\ slot[w].todo = {} /\ ~slot[w].ok
  /\ Update(w, "FAILED", "throw")
  /\ UNCHANGED <<queueVars, sendVars, deadVars, outVars, actorVars, faults>>

\* The processor returns. Without the job's lock BullMQ refuses to move it.
Complete(w) ==
  LET j == slot[w].job IN
  /\ slot[w].at = "complete"
  /\ job' = IF job[j].owner = w THEN [job EXCEPT ![j] = Completed(@)] ELSE job
  /\ slot' = [slot EXCEPT ![w] = Idle]
  /\ UNCHANGED <<row, producing, sendVars, deadVars, outVars, actorVars, faults>>

\* The processor threw: retry, or fail the job for good, which is when the
\* failed listener does more than write a log line.
Throw(w) ==
  LET j == slot[w].job
      owns == job[j].owner = w
      attempts == Attempts[j[2]]
  IN /\ slot[w].at = "throw"
     /\ job' = IF owns THEN [job EXCEPT ![j] = Failed(@, attempts)] ELSE job
     /\ dying' = IF owns /\ ~Retries(job[j], attempts)
                 THEN [dying EXCEPT ![j] = "row"] ELSE dying
     /\ slot' = [slot EXCEPT ![w] = Idle]
     /\ UNCHANGED <<row, producing, sendVars, dlq, outVars, actorVars, faults>>

\* A database call of the handler throws.
HandlerError(w) ==
  /\ slot[w].at \notin {"idle", "complete", "throw"}
  /\ Fault
  /\ slot' = [slot EXCEPT ![w].at = "throw"]
  /\ UNCHANGED <<row, queueVars, sendVars, deadVars, outVars, actorVars>>

\* The worker dies. Its job stays active, locked until the lock expires.
Crash(w) ==
  /\ slot[w].at # "idle"
  /\ Fault
  /\ slot' = [slot EXCEPT ![w] = Idle]
  /\ UNCHANGED <<row, queueVars, sendVars, deadVars, outVars, actorVars>>

-----------------------------------------------------------------------------
(* The queue's own steps and the failed listener. *)

\* A live handler of the job that still holds its lock.
Held(j) ==
  /\ job[j].owner # None
  /\ slot[job[j].owner].job = j
  /\ slot[job[j].owner].at \notin {"idle", "throw"}

\* The lock of a dead worker expires.
ExpireLock(j) ==
  /\ job[j].owner # None
  /\ slot[job[j].owner].job # j
  /\ job' = [job EXCEPT ![j] = Unlocked(@)]
  /\ UNCHANGED <<row, producing, slot, sendVars, deadVars, outVars, actorVars, faults>>

\* A live worker cannot renew its lock in time (a blocked event loop, a
\* partition). It does not know, and works on.
LoseLock(j) ==
  /\ job[j].owner # None
  /\ slot[job[j].owner].job = j
  /\ Fault
  /\ job' = [job EXCEPT ![j] = Unlocked(@)]
  /\ UNCHANGED <<row, producing, slot, sendVars, deadVars, outVars, actorVars>>

RecoverStalled(j) ==
  /\ Stalled(job[j])
  /\ job' = [job EXCEPT ![j] = Recovered(@)]
  /\ UNCHANGED <<row, producing, slot, sendVars, deadVars, outVars, actorVars, faults>>

\* Failed for stalling too often, without running the handler. The listener
\* still counts attempts.
Bury(j) ==
  /\ GivenUp(job[j])
  /\ job' = [job EXCEPT ![j] = Buried(@)]
  /\ dying' = IF job[j].made + 1 >= Attempts[j[2]]
              THEN [dying EXCEPT ![j] = "row"] ELSE dying
  /\ UNCHANGED <<row, producing, slot, sendVars, dlq, outVars, actorVars, faults>>

\* removeOnComplete: of the completed jobs with the scheduler's options only the
\* last thousand are kept.
Forget(j) ==
  /\ job[j].st = "completed" /\ j[2] = "reminder"
  /\ job' = [job EXCEPT ![j] = NoJob]
  /\ UNCHANGED <<row, producing, slot, sendVars, deadVars, outVars, actorVars, faults>>

ExhaustedRow(j) ==
  LET r == Row(j)
      gone == row[r] = "deleted"
  IN /\ dying[j] = "row"
     /\ row' = IF gone THEN row ELSE [row EXCEPT ![r] = "FAILED"]
     /\ dying' = [dying EXCEPT ![j] = IF gone THEN "no" ELSE "dlq"]
     /\ UNCHANGED <<queueVars, slot, sendVars, dlq, outVars, actorVars, faults>>

ExhaustedDlq(j) ==
  /\ dying[j] = "dlq"
  /\ dlq' = dlq \cup {j}
  /\ dying' = [dying EXCEPT ![j] = "failover"]
  /\ UNCHANGED <<row, queueVars, slot, sendVars, outVars, actorVars, faults>>

\* triggerFailover: nothing when the chain, the plan or the row says so;
\* otherwise a send on the next channel, refused or accepted. It does not ask
\* whether the customer has opted out.
Failover(j) ==
  LET r == Row(j) IN
  /\ dying[j] = "failover"
  /\ \/ UNCHANGED <<escalated, logged>>
     \/ /\ row[r] # "deleted"
        /\ escalated' = [escalated EXCEPT ![r] = @ + 1]
        /\ logged' = logged \cup {r}
  /\ dying' = [dying EXCEPT ![j] = "no"]
  /\ UNCHANGED <<row, queueVars, slot, accepted, copies, billed, dlq, outVars, actorVars, faults>>

\* The listener is not part of the job: nothing resumes it.
ListenerDies(j) ==
  /\ dying[j] # "no"
  /\ Fault
  /\ dying' = [dying EXCEPT ![j] = "no"]
  /\ UNCHANGED <<row, queueVars, slot, sendVars, dlq, outVars, actorVars>>

\* The delivery callback for a logged copy, in any order with the rest.
Delivered(r) ==
  /\ r \in logged /\ row[r] # "deleted"
  /\ row' = [row EXCEPT ![r] = "DELIVERED"]
  /\ UNCHANGED <<queueVars, slot, sendVars, deadVars, outVars, actorVars, faults>>

-----------------------------------------------------------------------------
(* cancelForAppointment / cancelForEvent and who calls them. *)

BeginCancel(b, mode) ==
  /\ request = NoRequest
  /\ request' = [NoRequest EXCEPT !.mode = mode, !.who = b, !.bookings = {b}]
  /\ UNCHANGED <<row, queueVars, slot, sendVars, deadVars, outVars, recovering,
                 recovered, faults>>

\* The appointments of a person among the bookings.
AppointmentsOf(p) ==
  {BookingOf[r] : r \in {s \in Reminder : Kind[s] = "appointment" /\ p \in Audience[s]}}

\* optOut for a customer who has not opted out before: the customer's flag
\* first, then the reminders of every upcoming appointment.
BeginOptOut(p) ==
  /\ request = NoRequest
  /\ p \notin customerOut
  /\ customerOut' = customerOut \cup {p}
  /\ request' = [NoRequest EXCEPT !.mode = "optout", !.who = p,
                                  !.bookings = AppointmentsOf(p)]
  /\ UNCHANGED <<row, queueVars, slot, sendVars, deadVars, contactOut, recovering,
                 recovered, faults>>

\* optOut once more: only the contact's flag is left to set.
OptOutAgain(p) ==
  /\ request = NoRequest
  /\ p \in customerOut /\ p \notin contactOut
  /\ contactOut' = contactOut \cup {p}
  /\ UNCHANGED <<row, queueVars, slot, sendVars, deadVars, customerOut, actorVars, faults>>

\* findMany of the PENDING rows of one booking.
ReadPending(b) ==
  /\ b \in request.bookings /\ request.rows = {} /\ request.cur = None
  /\ request' = [request EXCEPT
       !.bookings = @ \ {b},
       !.rows = {r \in Reminder : BookingOf[r] = b /\ row[r] = "PENDING"}]
  /\ UNCHANGED <<row, queueVars, slot, sendVars, deadVars, outVars, recovering,
                 recovered, faults>>

\* getJob("reminder-<id>") and job.remove(): a job that a worker has locked
\* cannot be removed, and the error ends the whole call.
RemoveJob(r) ==
  LET j == <<r, "reminder">> IN
  /\ r \in request.rows /\ request.cur = None
  /\ IF Locked(job[j])
     THEN /\ request' = NoRequest
          /\ UNCHANGED job
     ELSE /\ job' = [job EXCEPT ![j] = NoJob]
          /\ request' = [request EXCEPT !.rows = @ \ {r}, !.cur = r]
  /\ UNCHANGED <<row, producing, slot, sendVars, deadVars, outVars, recovering,
                 recovered, faults>>

\* The update that follows it, unconditional too.
CancelRow ==
  /\ request.cur # None
  /\ row' = [row EXCEPT ![request.cur] = "CANCELLED"]
  /\ request' = [request EXCEPT !.cur = None]
  /\ UNCHANGED <<queueVars, slot, sendVars, deadVars, outVars, recovering,
                 recovered, faults>>

\* Everything is cancelled: a deletion drops the rows, an opt-out sets the
\* contact's flag.
EndRequest ==
  /\ request.mode # "none"
  /\ request.bookings = {} /\ request.rows = {} /\ request.cur = None
  /\ row' = IF request.mode # "remove" THEN row
            ELSE [r \in Reminder |->
                    IF BookingOf[r] = request.who THEN "deleted" ELSE row[r]]
  /\ contactOut' = IF request.mode = "optout" THEN contactOut \cup {request.who}
                   ELSE contactOut
  /\ request' = NoRequest
  /\ UNCHANGED <<queueVars, slot, sendVars, deadVars, customerOut, recovering,
                 recovered, faults>>

RequestDies ==
  /\ request.mode # "none"
  /\ Fault
  /\ request' = NoRequest
  /\ UNCHANGED <<row, queueVars, slot, sendVars, deadVars, outVars, recovering, recovered>>

-----------------------------------------------------------------------------
(* scripts/recover-reminders.ts *)

BeginRecovery ==
  /\ recovering = {}
  /\ recovering' = {r \in Reminder : row[r] = "PENDING"}
  /\ recovering' # {}
  /\ UNCHANGED <<row, queueVars, slot, sendVars, deadVars, outVars, request,
                 recovered, faults>>

\* It knows one job id of the row, whatever id the row's producer used.
RecoverRow(r) ==
  /\ r \in recovering
  /\ job' = [job EXCEPT ![<<r, "reminder">>] = Added(@)]
  /\ recovering' = recovering \ {r}
  /\ recovered' = IF job[<<r, "rem">>] # NoJob \/ producing[r] = "rem"
                  THEN recovered \cup {r} ELSE recovered
  /\ UNCHANGED <<row, producing, slot, sendVars, deadVars, outVars, request, faults>>

-----------------------------------------------------------------------------

Produce(r) == (\E x \in Prefix : CreateRow(r, x)) \/ AddJob(r) \/ LoseJob(r)

Handle(w) ==
  \/ Load(w) \/ (\E allowed \in BOOLEAN : Gate(w, allowed)) \/ WriteCancelled(w)
  \/ \E p \in Person : SendAccepted(w, p) \/ SendRefused(w, p)
  \/ IncrementUsage(w) \/ LogMessage(w) \/ WriteSent(w) \/ WriteFailed(w)
  \/ Complete(w) \/ Throw(w)

Listen(j) == ExhaustedRow(j) \/ ExhaustedDlq(j) \/ Failover(j)

Serve ==
  \/ \E b \in request.bookings : ReadPending(b)
  \/ \E r \in request.rows : RemoveJob(r)
  \/ CancelRow \/ EndRequest

Next ==
  \/ \E r \in Reminder : Produce(r) \/ Delivered(r) \/ RecoverRow(r)
  \/ \E w \in Slot :
       Handle(w) \/ HandlerError(w) \/ Crash(w) \/ (\E j \in JobId : Take(w, j))
  \/ \E j \in JobId :
       \/ ExpireLock(j) \/ LoseLock(j) \/ RecoverStalled(j) \/ Bury(j) \/ Forget(j)
       \/ Listen(j) \/ ListenerDies(j)
  \/ \E b \in Booking, mode \in Requests \ {"optout"} : BeginCancel(b, mode)
  \/ \E p \in {q \in Person : "optout" \in Requests} : BeginOptOut(p) \/ OptOutAgain(p)
  \/ Serve \/ RequestDies
  \/ BeginRecovery

Spec == Init /\ [][Next]_vars

(* The workers, BullMQ's own timers, the listener and a request in progress   *)
(* go on as long as they can. A job competes with others for a slot, so its   *)
(* start needs strong fairness. Nobody has to start a request, run the        *)
(* script, create a row or cause a fault, and no callback has to arrive.      *)
Fairness ==
  /\ \A r \in Reminder : WF_vars(AddJob(r))
  /\ \A w \in Slot : WF_vars(Handle(w))
  /\ \A j \in JobId :
       /\ SF_vars(\E w \in Slot : Take(w, j))
       /\ WF_vars(ExpireLock(j))
       /\ WF_vars(RecoverStalled(j)) /\ WF_vars(Bury(j)) /\ WF_vars(Listen(j))
  /\ WF_vars(Serve)

FairSpec == Spec /\ Fairness

-----------------------------------------------------------------------------
(* Properties. *)

TypeOK ==
  /\ row \in [Reminder -> RowStatus]
  /\ producing \in [Reminder -> Prefix \cup {None}]
  /\ job \in [JobId -> Job]
  /\ slot \in [Slot -> Handler]
  /\ accepted \in [JobId -> [Person -> Nat]]
  /\ copies \in Nat /\ billed \in Nat
  /\ logged \subseteq Reminder
  /\ escalated \in [Reminder -> Nat]
  /\ dlq \subseteq JobId
  /\ dying \in [JobId -> {"no", "row", "dlq", "failover"}]
  /\ customerOut \subseteq Person /\ contactOut \subseteq Person
  /\ request \in [mode : {"none", "cancel", "remove", "optout"},
                  who : Booking \cup Person \cup {None},
                  bookings : SUBSET Booking,
                  rows : SUBSET Reminder,
                  cur : Reminder \cup {None}]
  /\ recovering \subseteq Reminder /\ recovered \subseteq Reminder
  /\ faults \in 0..MaxFaults

\* A provider accepted a copy of the reminder from one of its handlers.
GotThrough(r) == \E x \in Prefix, p \in Person : accepted[<<r, x>>][p] > 0

\* One job gives an addressee one copy, and one more for each fault: neither the
\* retries, nor the recovery script, nor cancellations that remove the job and
\* let it be added again, make the handler send twice.
CopiesPaidFor == \A j \in JobId, p \in Person : accepted[j][p] <= 1 + faults

\* A row that reads SENT or DELIVERED belongs to a reminder of which at least one
\* copy was accepted by a provider, on its own channel or by failover.
SentWasAccepted ==
  \A r \in Reminder :
    row[r] \in {"SENT", "DELIVERED"} => GotThrough(r) \/ escalated[r] > 0

\* As long as nothing has failed, and the script gave the row no second job, a
\* row that reads FAILED belongs to a reminder of which nobody got a copy.
FailedWasRefused ==
  \A r \in Reminder :
    (row[r] = "FAILED" /\ faults = 0 /\ r \notin recovered) => ~GotThrough(r)

\* What the row says happened, happened: whatever handlers, cancellations,
\* callbacks and the failed listener write over each other.
RowTellsTruth == SentWasAccepted /\ FailedWasRefused

\* As long as nothing has failed, a PENDING row has a job that will look at it,
\* a producer about to add one, or a cancellation about to settle it.
PendingIsOwned ==
  faults = 0 =>
    \A r \in Reminder : row[r] = "PENDING" =>
      \/ producing[r] # None
      \/ \E x \in Prefix : job[<<r, x>>].st \in {"waiting", "active"}
      \/ request.cur = r

\* The usage counter follows the accepted copies: it never runs ahead of them,
\* and falls behind by the handlers about to count and by faults alone.
UsageFollowsSends ==
  /\ billed <= copies
  /\ copies <= billed + Cardinality({w \in Slot : slot[w].at = "bill"}) + faults

\* No reminder addresses more than m people.
AtMostWide(m) == \A r \in Reminder : Cardinality(Audience[r]) <= m

\* The limit is checked before the sends and counted up after each: handlers that
\* pass the check together overrun it by what they have to send, less one, and
\* each fault by one more (validatePlanEligibility, incrementUsage).
UsageWithinLimit ==
  \A n \in Limit, m \in 0..Cardinality(Person) :
    AtMostWide(m) => copies = 0 \/ copies < n + Cardinality(Slot) * m + faults

\* A handler that found the reminder PENDING may still send this job's copy to p.
MaySend(j, p) ==
  \E w \in Slot : /\ slot[w].job = j /\ p \in slot[w].todo
                  /\ slot[w].at \in {"gate", "send", "bill", "log"}

\* Once somebody has opted out, and no handler is at work that had read the row
\* before, no job brings them another copy: no retry, no stalled job that is
\* taken again, no second job of the recovery script (compliance.service.ts,
\* optOut: "blocks future reminder sends").
OptOutStopsSends ==
  [][\A j \in JobId, p \in Person :
       (p \in OptedOut(Row(j)) /\ ~MaySend(j, p)) =>
         ~MaySend(j, p)' /\ accepted'[j][p] = accepted[j][p]]_vars

\* The row is settled, and no handler that found it PENDING is still at work on it.
Settled(r) ==
  /\ row[r] \notin {"absent", "PENDING"}
  /\ \A w \in Slot :
       slot[w].at \in {"gate", "send", "bill", "log", "cancel"} => Row(slot[w].job) # r

\* A settled reminder stays settled: no job left in the queue, no retry and no
\* second job of the recovery script gets another copy out of a handler.
SettledForGood ==
  [][\A r \in Reminder : Settled(r) =>
       /\ Settled(r)'
       /\ \A x \in Prefix : accepted'[<<r, x>>] = accepted[<<r, x>>]]_vars

\* Where a reminder stands, seen from outside, and the copies it has sent.
Stage ==
  [r \in Reminder |-> IF Settled(r) THEN "settled" ELSE IF row[r] = "absent" THEN "none" ELSE "open"]

CopiesSent ==
  [r \in Reminder |-> [c \in Prefix \X Person |-> accepted[<<r, c[1]>>][c[2]]]]

Contract == INSTANCE ReminderContract
  WITH Copy <- Prefix \X Person, state <- Stage, out <- CopiesSent

\* Delivery keeps the contract of ReminderContract: copies go out of open
\* reminders only, one to each addressee from each job, and one more for each
\* fault; what is settled stays so.
KeepsContract == Contract!Spec

\* No job of the reminder is left to run, by a fault or by an exhausted job.
Stranded(r) ==
  /\ producing[r] = None
  /\ \A x \in Prefix : job[<<r, x>>].st \in {"none", "failed"}

\* Every PENDING row is settled in the end, unless a fault has left it without
\* a job: the queue and the handlers bring no reminder to a standstill.
EventuallySettled ==
  \A r \in Reminder :
    row[r] = "PENDING" ~> (row[r] # "PENDING" \/ Stranded(r))

(* What comments of the code say and the code does not do. *)

\* "BullMQ catches errors ... and routes them through the normal 'failed' ->
\* retry -> DLQ path" (reminder.worker.ts): a reminder whose sends failed, and for
\* which nothing is left to be tried, is in the dead letter queue.
FailedReachesDlq ==
  \A r \in Reminder :
    (/\ row[r] = "FAILED" /\ faults = 0
     /\ \A x \in Prefix : /\ job[<<r, x>>].st \notin {"waiting", "active"}
                          /\ dying[<<r, x>>] = "no")
      => \E x \in Prefix : <<r, x>> \in dlq

\* optOut "Sets Customer.unsubscribed = true" and "Sets Contact.unsubscribed = true"
\* (compliance.service.ts): when no opt-out is in progress and nothing has failed,
\* the two flags agree. Event reminders look at the second one only.
OptOutReachesContact ==
  (request.mode # "optout" /\ faults = 0) => customerOut = contactOut
=============================================================================
