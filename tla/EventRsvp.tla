------------------------------ MODULE EventRsvp ------------------------------
(***************************************************************************)
(* One contact and the events it is invited to: replies, check-in, and the *)
(* messages that follow a confirmation.                                    *)
(*                                                                         *)
(* Two BullMQ workers run inside the API process. RsvpQueueConsumer takes  *)
(* the contact's replies from meetora-rsvp, answers an invitation and puts *)
(* a job into meetora-event-workflows; WorkflowWorker takes it from there, *)
(* queues a location reminder and sends a coupon. A Slot runs one handler  *)
(* of either worker. Requests of the API write the same participant rows:  *)
(* a reply entered at the dashboard, a bulk update, the scan of a badge.   *)
(*                                                                         *)
(* An event is a number: the place of its start time among the events.     *)
(*                                                                         *)
(* Bounds: what still comes from outside is counted in coming, which starts*)
(* as one of Agendas; every other counter grows only with it.              *)
(***************************************************************************)
EXTENDS BullQueue, FiniteSets, FiniteSetsExt

CONSTANTS Event,
          Scanner,      \* requests of POST .../check-in that may be open at once
          Automated,    \* events with an EventAutomation row
          Locating,     \* of these, the ones with sendLocationOnConfirm and a place
          Rewarding,    \* events with an incentive
          RsvpAttempts, FlowAttempts,
          MaxJobs,      \* bound on the jobs of each queue
          Agendas       \* bounds: how much of each Outside there may be

Word == {"yes", "no", "maybe"}

Outside == {"reply", "respond", "bulk", "scan", "over", "optout", "fault"}

\* A job of the n-th reply, and the n-th job of the workflow queue.
RsvpJob == {"rsvp"} \X (1..MaxJobs)
FlowJob == {"flow"} \X (1..MaxJobs)
WorkId == RsvpJob \cup FlowJob

ASSUME RsvpAssumption ==
  /\ Event \subseteq Nat /\ IsFiniteSet(Event) /\ None \notin Event \cup WorkId
  /\ IsFiniteSet(Slot)
  /\ Locating \subseteq Automated /\ Automated \subseteq Event /\ Rewarding \subseteq Event
  /\ RsvpAttempts \in Nat /\ FlowAttempts \in Nat /\ MaxJobs \in Nat
  /\ Agendas \subseteq [Outside -> Nat]

VARIABLES
  work,       \* both queues
  data,       \* what a job says: the reply, or the trigger and its event
  desk,       \* the handler each slot is running
  status,     \* EventParticipant.status, by event
  last,       \* EventParticipant.lastResponseAt: a time, or 0 for NULL
  now,        \* the clock of lastResponseAt
  over,       \* events that have started, or are no longer active
  optedOut,   \* Contact.unsubscribed
  arrived,    \* participants with arrivedAt
  scan,       \* the check-in requests
  clerk,      \* the respond request in progress
  coupon,     \* participants with couponSentAt
  located,    \* PENDING location reminders, by event
  noticed,    \* events whose wf-rem job is known to Redis
  coming,     \* bound: what may still come from outside
  coupons,    \* history: coupons a provider accepted
  thanks,     \* history: thank-you messages sent
  answers,    \* history: the invitations each reply was written to
  faults,     \* history: how many faults have happened
  mixed       \* history: writes that overlapped, or that no reply caused

queueVars == <<work, data>>
guestVars == <<status, last, now, over, optedOut>>
doorVars == <<arrived, scan, thanks>>
flowVars == <<coupon, located, noticed, coupons>>
tellVars == <<answers, mixed>>
rsvpVars == <<work, data, desk, status, last, now, over, optedOut, arrived, scan, clerk,
              coupon, located, noticed, coming, coupons, thanks, answers, faults, mixed>>

RsvpStep == {"look", "stamp", "answer", "settle", "reply", "trigger"}
FlowStep == {"plan", "exists", "row", "queue", "offer", "send", "mark"}

Desk == [at : RsvpStep \cup FlowStep \cup {"idle", "complete", "throw"},
         job : WorkId \cup {None}, ev : Event \cup {None}, time : Nat]

FreeDesk == [at |-> "idle", job |-> None, ev |-> None, time |-> 0]

Request == [at : {"idle", "claim", "thank", "queue"}, ev : Event \cup {None},
            word : Word \cup {None}]

NoRequest == [at |-> "idle", ev |-> None, word |-> None]

ParticipantStatus == {"invited", "pending", "confirmed", "cancelled"}

\* The status a reply asks for.
NewStatus(word) ==
  CASE word = "yes" -> "confirmed" [] word = "no" -> "cancelled" [] OTHER -> "pending"

Comes(k) == coming[k] > 0 /\ coming' = [coming EXCEPT ![k] = @ - 1]

RsvpFault == Comes("fault") /\ faults' = faults + 1

RsvpInit ==
  /\ work = [j \in WorkId |-> NoJob]
  /\ data = [j \in WorkId |-> [word |-> "maybe", ev |-> None]]
  /\ desk = [w \in Slot |-> FreeDesk]
  /\ status \in [Event -> {"invited", "pending"}]
  /\ last = [e \in Event |-> 0] /\ now = 0
  /\ over \in SUBSET Event /\ optedOut = FALSE /\ arrived = {} /\ coupon = {} /\ noticed = {}
  /\ scan = [s \in Scanner |-> NoRequest]
  /\ clerk = NoRequest
  /\ located = [e \in Event |-> 0]
  /\ coming \in Agendas
  /\ coupons = [e \in Event |-> 0] /\ thanks = [e \in Event |-> 0]
  /\ answers = [j \in RsvpJob |-> {}]
  /\ faults = 0 /\ mixed = FALSE

-----------------------------------------------------------------------------
(* Both queues. *)

\* queue.add with an id of its own: the next job of the queue.
AddWork(Q, d) ==
  \E j \in Q :
    /\ work[j].st = "none"
    /\ \A i \in Q : work[i].st = "none" => j[2] <= i[2]
    /\ work' = [work EXCEPT ![j] = Added(@)]
    /\ data' = [data EXCEPT ![j] = d]

First(j) == IF j \in RsvpJob THEN "look" ELSE "plan"

TakeWork(w, j) ==
  /\ desk[w].at = "idle" /\ Startable(work[j])
  /\ work' = [work EXCEPT ![j] = Started(@, w)]
  /\ desk' = [desk EXCEPT ![w] = [FreeDesk EXCEPT !.at = First(j), !.job = j]]
  /\ UNCHANGED <<data, guestVars, doorVars, clerk, flowVars, coming, faults, tellVars>>

CompleteWork(w) ==
  LET j == desk[w].job IN
  /\ desk[w].at = "complete"
  /\ work' = IF work[j].owner = w THEN [work EXCEPT ![j] = Completed(@)] ELSE work
  /\ desk' = [desk EXCEPT ![w] = FreeDesk]
  /\ UNCHANGED <<data, guestVars, doorVars, clerk, flowVars, coming, faults, tellVars>>

\* The handler threw. The failed listeners only log: RsvpQueueConsumer's would
\* add to the dead letter queue once a handler has thrown RsvpAttempts times, but
\* processJob catches everything.
ThrowWork(w) ==
  LET j == desk[w].job
      attempts == IF j \in RsvpJob THEN RsvpAttempts ELSE FlowAttempts
  IN /\ desk[w].at = "throw"
     /\ work' = IF work[j].owner = w THEN [work EXCEPT ![j] = Failed(@, attempts)] ELSE work
     /\ desk' = [desk EXCEPT ![w] = FreeDesk]
     /\ UNCHANGED <<data, guestVars, doorVars, clerk, flowVars, coming, faults, tellVars>>

\* The process dies. The job stays locked until the lock expires.
CrashWork(w) ==
  /\ desk[w].at # "idle"
  /\ RsvpFault
  /\ desk' = [desk EXCEPT ![w] = FreeDesk]
  /\ UNCHANGED <<queueVars, guestVars, doorVars, clerk, flowVars, tellVars>>

ExpireWork(j) ==
  /\ work[j].owner # None /\ desk[work[j].owner].job # j
  /\ work' = [work EXCEPT ![j] = Unlocked(@)]
  /\ UNCHANGED <<data, desk, guestVars, doorVars, clerk, flowVars, coming, faults, tellVars>>

\* A live worker fails to renew its lock in time, and works on.
LoseWork(j) ==
  /\ work[j].owner # None /\ desk[work[j].owner].job = j
  /\ RsvpFault
  /\ work' = [work EXCEPT ![j] = Unlocked(@)]
  /\ UNCHANGED <<data, desk, guestVars, doorVars, clerk, flowVars, tellVars>>

RecoverWork(j) ==
  /\ Stalled(work[j])
  /\ work' = [work EXCEPT ![j] = Recovered(@)]
  /\ UNCHANGED <<data, desk, guestVars, doorVars, clerk, flowVars, coming, faults, tellVars>>

BuryWork(j) ==
  /\ GivenUp(work[j])
  /\ work' = [work EXCEPT ![j] = Buried(@)]
  /\ UNCHANGED <<data, desk, guestVars, doorVars, clerk, flowVars, coming, faults, tellVars>>

-----------------------------------------------------------------------------
(* RsvpQueueConsumer.processJob, one action per database or provider call.  *)
(* The rows nothing reads again (RsvpEvent, EventResponse) are left out.    *)

Data(w) == data[desk[w].job]

Answering(w) == desk[w].at \in RsvpStep

\* The invitations a reply may answer, the closest event first.
Invitations == {e \in Event \ over : status[e] \in {"invited", "pending"}}

\* processInboundMessage up to its first write: no contact or no invitation
\* ends the job.
Look(w) ==
  /\ desk[w].at = "look"
  /\ \/ /\ optedOut \/ Invitations = {}
        /\ desk' = [desk EXCEPT ![w].at = "complete"]
        /\ UNCHANGED now
     \/ /\ ~optedOut /\ Invitations # {}
        /\ LET e == Min(Invitations)
               same == status[e] = NewStatus(Data(w).word)
           IN desk' = [desk EXCEPT ![w].at = IF same THEN "stamp" ELSE "answer",
                                   ![w].ev = e, ![w].time = now + 1]
        /\ now' = now + 1
  /\ mixed' = (mixed \/ \E v \in Slot \ {w} : Answering(v))
  /\ UNCHANGED <<queueVars, status, last, over, optedOut, doorVars, clerk, flowVars, coming,
                 answers, faults>>

\* The invitation already has the status: only lastResponseAt is written.
Stamp(w) ==
  /\ desk[w].at = "stamp"
  /\ last' = [last EXCEPT ![desk[w].ev] = desk[w].time]
  /\ answers' = [answers EXCEPT ![desk[w].job] = @ \cup {desk[w].ev}]
  /\ desk' = [desk EXCEPT ![w].at = "reply"]
  /\ UNCHANGED <<queueVars, status, now, over, optedOut, doorVars, clerk, flowVars, coming,
                 mixed, faults>>

\* The write is unconditional, whatever became of the row since Look.
Answer(w) ==
  /\ desk[w].at = "answer"
  /\ status' = [status EXCEPT ![desk[w].ev] = NewStatus(Data(w).word)]
  /\ last' = [last EXCEPT ![desk[w].ev] = desk[w].time]
  /\ answers' = [answers EXCEPT ![desk[w].job] = @ \cup {desk[w].ev}]
  /\ desk' = [desk EXCEPT ![w].at = "settle"]
  /\ UNCHANGED <<queueVars, now, over, optedOut, doorVars, clerk, flowVars, coming, mixed,
                 faults>>

\* The upsert of the response, and no more PENDING reminders for this event,
\* those of the workflow worker included.
Settle(w) ==
  /\ desk[w].at = "settle"
  /\ located' = IF Data(w).word = "maybe" THEN located ELSE [located EXCEPT ![desk[w].ev] = 0]
  /\ desk' = [desk EXCEPT ![w].at = "reply"]
  /\ UNCHANGED <<queueVars, guestVars, doorVars, clerk, coupon, noticed, coupons, coming,
                 faults, tellVars>>

\* Variant of Reply that lets a failed acknowledgement fail the job.
ReplyOrThrow(w) ==
  /\ desk[w].at = "reply"
  /\ desk' = [desk EXCEPT ![w].at = IF Data(w).word = "yes" THEN "trigger" ELSE "throw"]
  /\ UNCHANGED <<queueVars, guestVars, doorVars, clerk, flowVars, coming, faults, tellVars>>

\* The acknowledgement; whether it is sent does not matter to the job.
Reply(w) ==
  /\ desk[w].at = "reply"
  /\ desk' = [desk EXCEPT ![w].at = IF Data(w).word = "yes" THEN "trigger" ELSE "complete"]
  /\ UNCHANGED <<queueVars, guestVars, doorVars, clerk, flowVars, coming, faults, tellVars>>

Confirmed == {e \in Event : status[e] = "confirmed"}

\* Variant of Latest with the oldest answer first.
Oldest == {e \in Confirmed : \A f \in Confirmed : last[e] <= last[f]}

\* orderBy lastResponseAt desc: PostgreSQL sorts NULL before every date.
Latest == {e \in Confirmed :
             IF \E f \in Confirmed : last[f] = 0 THEN last[e] = 0
             ELSE \A f \in Confirmed : last[f] <= last[e]}

\* fireConfirmedWorkflow looks for the event again, by the contact alone.
TriggerFlow(w) ==
  /\ desk[w].at = "trigger"
  /\ desk' = [desk EXCEPT ![w].at = "complete"]
  /\ \/ Latest = {} /\ UNCHANGED queueVars
     \/ \E e \in Latest : AddWork(FlowJob, [word |-> "yes", ev |-> e])
  /\ UNCHANGED <<guestVars, doorVars, clerk, flowVars, coming, faults, tellVars>>

\* A database call throws: processInboundMessage returns null, and
\* fireConfirmedWorkflow gives up.
RsvpError(w) ==
  /\ desk[w].at \in RsvpStep \ {"reply"}
  /\ RsvpFault
  /\ desk' = [desk EXCEPT ![w].at = "complete"]
  /\ UNCHANGED <<queueVars, guestVars, doorVars, clerk, flowVars, tellVars>>

-----------------------------------------------------------------------------
(* WorkflowWorker.processEventWorkflow. Only rsvp_confirmed has a producer  *)
(* among the triggers it knows; the others end here.                        *)

Goes(w, next) == desk' = [desk EXCEPT ![w].at = next]

Plan(w) ==
  LET e == Data(w).ev IN
  /\ desk[w].at = "plan"
  /\ Goes(w, IF e \notin Automated \/ Data(w).word # "yes" THEN "complete"
             ELSE IF e \in Locating THEN "exists" ELSE "offer")
  /\ UNCHANGED <<queueVars, guestVars, doorVars, clerk, flowVars, coming, faults, tellVars>>

\* Variant of Exists without getJob.
AlwaysNew(w) ==
  /\ desk[w].at = "exists"
  /\ Goes(w, "row")
  /\ UNCHANGED <<queueVars, guestVars, doorVars, clerk, flowVars, coming, faults, tellVars>>

\* reminderQueue.getJob: the job is never removed from Redis.
Exists(w) ==
  /\ desk[w].at = "exists"
  /\ Goes(w, IF Data(w).ev \in noticed THEN "offer" ELSE "row")
  /\ UNCHANGED <<queueVars, guestVars, doorVars, clerk, flowVars, coming, faults, tellVars>>

CreateRow(w) ==
  /\ desk[w].at = "row"
  /\ located' = [located EXCEPT ![Data(w).ev] = @ + 1]
  /\ Goes(w, "queue")
  /\ UNCHANGED <<queueVars, guestVars, doorVars, clerk, coupon, noticed, coupons, coming,
                 faults, tellVars>>

\* With the id of another job: only the first one is queued.
QueueReminder(w) ==
  /\ desk[w].at = "queue"
  /\ noticed' = noticed \cup {Data(w).ev}
  /\ Goes(w, "offer")
  /\ UNCHANGED <<queueVars, guestVars, doorVars, clerk, coupon, located, coupons, coming,
                 faults, tellVars>>

Offer(w) ==
  /\ desk[w].at = "offer"
  /\ Goes(w, IF Data(w).ev \notin Rewarding \/ Data(w).ev \in coupon THEN "complete" ELSE "send")
  /\ UNCHANGED <<queueVars, guestVars, doorVars, clerk, flowVars, coming, faults, tellVars>>

\* The answer of the provider is not looked at: a coupon it refused counts as
\* sent.
SendCoupon(w, taken) ==
  /\ desk[w].at = "send"
  /\ coupons' = IF taken THEN [coupons EXCEPT ![Data(w).ev] = @ + 1] ELSE coupons
  /\ Goes(w, "mark")
  /\ UNCHANGED <<queueVars, guestVars, doorVars, clerk, coupon, located, noticed, coming,
                 faults, tellVars>>

MarkCoupon(w) ==
  /\ desk[w].at = "mark"
  /\ coupon' = coupon \cup {Data(w).ev}
  /\ Goes(w, "complete")
  /\ UNCHANGED <<queueVars, guestVars, doorVars, clerk, located, noticed, coupons, coming,
                 faults, tellVars>>

\* A call of the handler throws: MessagingService.send too, when it cannot log a
\* message the provider has taken.
FlowError(w) ==
  /\ desk[w].at \in FlowStep
  /\ RsvpFault
  /\ \/ UNCHANGED coupons
     \/ desk[w].at = "send" /\ coupons' = [coupons EXCEPT ![Data(w).ev] = @ + 1]
  /\ Goes(w, "throw")
  /\ UNCHANGED <<queueVars, guestVars, doorVars, clerk, coupon, located, noticed, tellVars>>

-----------------------------------------------------------------------------
(* Requests, and what happens outside.                                      *)

\* RsvpQueueService.enqueueRsvp: the id holds the time, so every call is a job.
\* The webhooks call it when hasActiveInvitation says so.
EnqueueRsvp(word) == AddWork(RsvpJob, [word |-> word, ev |-> None])

HasActiveInvitation == ~optedOut /\ Invitations # {}

ReplyArrives(word) ==
  /\ Comes("reply") /\ HasActiveInvitation
  /\ EnqueueRsvp(word)
  /\ UNCHANGED <<desk, guestVars, doorVars, clerk, flowVars, faults, tellVars>>

\* EventService.respond: the row, then the workflow job.
RespondWrite(e, word) ==
  /\ clerk = NoRequest /\ Comes("respond")
  /\ status' = [status EXCEPT ![e] = NewStatus(word)]
  /\ last' = [last EXCEPT ![e] = now + 1] /\ now' = now + 1
  /\ clerk' = [at |-> "queue", ev |-> e, word |-> word]
  /\ mixed' = TRUE
  /\ UNCHANGED <<queueVars, desk, over, optedOut, doorVars, flowVars, answers, faults>>

\* Variant of RespondQueue whose job does not say which reply it is about.
RespondUntyped ==
  /\ clerk.at = "queue"
  /\ AddWork(FlowJob, [word |-> None, ev |-> clerk.ev])
  /\ clerk' = NoRequest
  /\ UNCHANGED <<desk, guestVars, doorVars, flowVars, coming, faults, tellVars>>

RespondQueue ==
  /\ clerk.at = "queue"
  /\ AddWork(FlowJob, [word |-> clerk.word, ev |-> clerk.ev])
  /\ clerk' = NoRequest
  /\ UNCHANGED <<desk, guestVars, doorVars, flowVars, coming, faults, tellVars>>

\* bulkUpdateRsvp writes the status alone.
BulkUpdate(e, s) ==
  /\ Comes("bulk")
  /\ status' = [status EXCEPT ![e] = s]
  /\ mixed' = TRUE
  /\ UNCHANGED <<queueVars, desk, last, now, over, optedOut, doorVars, clerk, flowVars, answers,
                 faults>>

\* EventService.processArrival: the read, the conditional write, the thanks.
ScanBadge(s, e) ==
  /\ scan[s].at = "idle" /\ Comes("scan") /\ e \notin arrived
  /\ scan' = [scan EXCEPT ![s].at = "claim", ![s].ev = e]
  /\ UNCHANGED <<queueVars, desk, guestVars, arrived, thanks, clerk, flowVars, faults, tellVars>>

\* Variant of ClaimArrival without arrivedAt: null in its condition.
ClaimAnyway(s) ==
  LET e == scan[s].ev IN
  /\ scan[s].at = "claim"
  /\ arrived' = arrived \cup {e}
  /\ status' = [status EXCEPT ![e] = "confirmed"]
  /\ scan' = [scan EXCEPT ![s].at = "thank"]
  /\ mixed' = (mixed \/ status[e] # "confirmed")
  /\ UNCHANGED <<queueVars, desk, last, now, over, optedOut, thanks, clerk, flowVars, coming,
                 answers, faults>>

ClaimArrival(s) ==
  LET e == scan[s].ev IN
  /\ scan[s].at = "claim"
  /\ \/ /\ e \in arrived
        /\ scan' = [scan EXCEPT ![s] = NoRequest]
        /\ UNCHANGED <<arrived, status, mixed>>
     \/ /\ e \notin arrived
        /\ arrived' = arrived \cup {e}
        /\ status' = [status EXCEPT ![e] = "confirmed"]
        /\ scan' = [scan EXCEPT ![s].at = "thank"]
        /\ mixed' = (mixed \/ status[e] # "confirmed")
  /\ UNCHANGED <<queueVars, desk, last, now, over, optedOut, thanks, clerk, flowVars, coming,
                 answers, faults>>

\* An error of the send is logged and forgotten.
Thank(s, taken) ==
  /\ scan[s].at = "thank"
  /\ thanks' = IF taken THEN [thanks EXCEPT ![scan[s].ev] = @ + 1] ELSE thanks
  /\ scan' = [scan EXCEPT ![s] = NoRequest]
  /\ UNCHANGED <<queueVars, desk, guestVars, arrived, clerk, flowVars, coming, faults, tellVars>>

\* A request fails or its process dies: nothing takes it up again.
RequestDies ==
  /\ RsvpFault
  /\ \/ clerk # NoRequest /\ clerk' = NoRequest /\ UNCHANGED scan
     \/ \E s \in Scanner :
          scan[s] # NoRequest /\ scan' = [scan EXCEPT ![s] = NoRequest] /\ UNCHANGED clerk
  /\ UNCHANGED <<queueVars, desk, guestVars, arrived, thanks, flowVars, tellVars>>

EventStarts(e) ==
  /\ Comes("over") /\ e \notin over
  /\ over' = over \cup {e}
  /\ UNCHANGED <<queueVars, desk, status, last, now, optedOut, doorVars, clerk, flowVars, faults,
                 tellVars>>

\* Contact.unsubscribed is written elsewhere, both ways.
ToggleOptOut ==
  /\ Comes("optout")
  /\ optedOut' = ~optedOut
  /\ mixed' = TRUE
  /\ UNCHANGED <<queueVars, desk, status, last, now, over, doorVars, clerk, flowVars, answers,
                 faults>>

-----------------------------------------------------------------------------
AnswerStep(w) ==
  Look(w) \/ Stamp(w) \/ Answer(w) \/ Settle(w) \/ Reply(w) \/ TriggerFlow(w) \/ RsvpError(w)

WorkflowStep(w) ==
  \/ Plan(w) \/ Exists(w) \/ CreateRow(w) \/ QueueReminder(w) \/ Offer(w)
  \/ \E taken \in BOOLEAN : SendCoupon(w, taken)
  \/ MarkCoupon(w) \/ FlowError(w)

SlotStep(w) ==
  \/ \E j \in WorkId : TakeWork(w, j)
  \/ CompleteWork(w) \/ ThrowWork(w) \/ CrashWork(w)

WorkQueueStep(j) == ExpireWork(j) \/ LoseWork(j) \/ RecoverWork(j) \/ BuryWork(j)

DeskStep ==
  \/ \E e \in Event : \/ \E word \in Word : RespondWrite(e, word)
                      \/ \E s \in ParticipantStatus \ {"invited"} : BulkUpdate(e, s)
                      \/ EventStarts(e)
  \/ \E s \in Scanner : \/ \E e \in Event : ScanBadge(s, e)
                        \/ ClaimArrival(s)
                        \/ \E taken \in BOOLEAN : Thank(s, taken)
  \/ RespondQueue \/ RequestDies \/ ToggleOptOut

\* Everything but the arrival of replies, which the webhooks decide.
RsvpStepOnly ==
  \/ \E w \in Slot : AnswerStep(w) \/ WorkflowStep(w) \/ SlotStep(w)
  \/ \E j \in WorkId : WorkQueueStep(j)
  \/ DeskStep

RsvpNext == RsvpStepOnly \/ \E word \in Word : ReplyArrives(word)

RsvpSpec == RsvpInit /\ [][RsvpNext]_rsvpVars

-----------------------------------------------------------------------------
\* Every variable keeps its type.
RsvpTypeOK ==
  /\ work \in [WorkId -> Job]
  /\ data \in [WorkId -> [word : Word, ev : Event \cup {None}]]
  /\ desk \in [Slot -> Desk]
  /\ status \in [Event -> ParticipantStatus]
  /\ last \in [Event -> Nat] /\ now \in Nat
  /\ over \subseteq Event /\ arrived \subseteq Event
  /\ coupon \subseteq Event /\ noticed \subseteq Event
  /\ optedOut \in BOOLEAN /\ mixed \in BOOLEAN
  /\ scan \in [Scanner -> Request] /\ clerk \in Request
  /\ located \in [Event -> Nat]
  /\ coming \in [Outside -> Nat]
  /\ coupons \in [Event -> Nat] /\ thanks \in [Event -> Nat]
  /\ answers \in [RsvpJob -> SUBSET Event]
  /\ faults \in Nat

\* Two organisers who scan a badge at once: one of them checks the guest in, and
\* the guest is thanked once (the conditional update of processArrival).
OneArrival ==
  \A e \in Event : thanks[e] <= 1 /\ (thanks[e] = 1 => e \in arrived)

\* However often a confirmation is triggered, a contact gets no more coupons than
\* handlers could run at once and faults happened: couponSentAt stops the rest.
CouponsPaidFor == \A e \in Event : coupons[e] <= Cardinality(Slot) + faults

\* The same for the PENDING location reminders of enqueueReminderJob: getJob and
\* the job id keep repeated triggers from leaving more rows behind than that.
LocationsPaidFor == \A e \in Event : located[e] <= Cardinality(Slot) + faults

\* What a confirmation brings is bounded, however often it is triggered: coupons,
\* which are marked after they are sent, and rows, which are written after the
\* look for a job (WorkflowWorker).
ExtrasPaidFor == CouponsPaidFor /\ LocationsPaidFor

\* A reply answers one invitation, and a second one only after a fault: nothing
\* else makes processJob run again over invitations that have changed.
OneAnswerPerReply == \A j \in RsvpJob : Cardinality(answers[j]) <= 1 + faults

\* As long as replies are handled one by one, without a fault and with no other
\* writer of the rows, an event the contact confirmed gets its own workflow:
\* fireConfirmedWorkflow finds it again by the contact alone.
ConfirmedGetsWorkflow ==
  faults = 0 /\ ~mixed =>
    \A e \in Confirmed : \/ \E j \in FlowJob : work[j].st # "none" /\ data[j].ev = e
                         \/ \E w \in Slot : Answering(w) /\ desk[w].ev = e
=============================================================================
