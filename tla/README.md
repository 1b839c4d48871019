# Meetora (Remindly): formal models of its back end

TLA+ models of the back end in this repository, checked with TLC and, where it
matters most, proved with TLAPS. Paths below are relative to the repository:
`src/...` is the NestJS back end, `prisma/` its schema, `scripts/` its tools.

- [The system](#the-system): components, state, interactions, what is hard
- [The modules](#the-modules): how state and actions correspond to the code
- [The runs](#the-runs): questions, bounds, answers
- [What is proved](#what-is-proved)
- [Where code and comments disagree](#where-code-and-comments-disagree)
- [What is not modelled](#what-is-not-modelled)
- [Plan](#plan)

## The system

Meetora sends appointment and event reminders, campaigns and broadcasts by SMS,
WhatsApp, voice and e-mail, and handles the answers. These processes run side by
side, most of them replicated:

| process | what runs in it |
|---|---|
| API (Nest) | controllers and services, webhooks, cron jobs, the in-process workflow worker and processor, the RSVP queue consumer |
| reminder worker (2 replicas, 5 jobs each) | `src/workers/reminder.worker.ts` |
| campaign worker (2 replicas, 10 jobs each) | `src/workers/campaign.worker.ts` |

They share Postgres (through Prisma), the BullMQ queues in Redis (reminders,
campaigns, unread checks, workflows, event workflows, RSVP and their dead letter
queues) and the remote providers: Twilio, Termii and Resend for messages, Paystack,
PayPal and Coinbase for payments.

### Components

| component | state | operations | what makes it correct |
|---|---|---|---|
| Reminder delivery: `reminder.worker.ts`, `reminder-scheduler.service.ts`, `recover-reminders.ts` | `Reminder.status`, jobs of the reminder queue, `MessageLog`, usage counters, dead letter queue | schedule, handle a job, retry, cancel, recover, fail over, delivery callback | at most one copy per addressee and fault; a settled reminder stays settled; SENT means accepted; a PENDING row has a job; everything pending is settled in the end |
| Campaigns and broadcasts: `campaign.service.ts`, `broadcast.service.ts`, `campaign.worker.ts`, `messaging.service.ts` | jobs of the campaign queue, `CampaignRecipient.status`, `MessageLog`, usage counters | dispatch, broadcast inline or queued, handle a job, dead letter | copies bounded by attempts; who opts out is left alone; recipient rows tell what happened; every job ends |
| Opt-out: `compliance.service.ts` | `Customer.unsubscribed`, `Contact.unsubscribed` | optOut, optIn | the two flags agree |
| Appointments: `appointment.service.ts`, `event-lifecycle.service.ts` | `Appointment.status`, `EventState` | create, reschedule, cancel, complete, delete | legal transitions, reminders follow the appointment |
| Workflow worker: `workflow.worker.ts` | incentives, reminder rows of events | coupon, location reminder | coupons and reminders bounded, however often a confirmation is triggered |
| Channel failover, unread checks: `message-failover.service.ts`, second half of `reminder.worker.ts` | `MessageLog.providerStatus`, unread-check queue | status callback, fallback send, unread check | a failure is answered once by the next channel; who has read is left alone |
| Inbound replies: Twilio and Termii webhooks | inbound `MessageLog` rows | deduplicate, route to opt-out, reschedule, RSVP | each reply handled once; STOP is honoured |
| RSVP: `rsvp-processor.service.ts`, `rsvp-queue-consumer.service.ts` | `EventParticipant.status`, RSVP queue | match to an invitation, update, confirm | a reply answers one invitation; a confirmation sets off its own workflow |
| Rescheduling: `rescheduling.service.ts` | `RescheduleSession`, appointment time | offer slots, choose a slot, move reminders | reminders are for the time the appointment now has |
| Events and check-in: `event.service.ts` | events, `arrivedAt` of participants | arrival, broadcast, cancel | one arrival and one thank-you per participant |
| Billing: `billing.service.ts` and the payment webhooks | `Tenant.subscriptionStatus`, `ProcessedWebhook` | webhook events, trial sweep, verify, subscribe | each payment event applied once, none dropped; only ended trials expire, and they do |
| AI requests and usage limits: `ai.service.ts`, `google-review.service.ts`, `usage-reset.job.ts` | usage counter of the tenant | admit, complete, count, reset | spending per period within the limit |
| Automation: `workflow-engine.service.ts`, `workflow-processor.service.ts`, `automation-execution-tracker.service.ts`, `automation.service.ts` | workflows, executions, action jobs, loop counters in Redis | fire a trigger, run an action, edit, switch off, remove | nobody is texted more often than there were answers and faults |
| Contacts and customers: `contacts.service.ts`, `form.service.ts`, `contact-import.service.ts`, `booking-widget.service.ts`, invitations and badges of `event.service.ts` | `Contact` (unique phone and e-mail), `Customer`, `EventParticipant`, invitation `Appointment` rows | submit a form, create, edit, delete, import, book, invite, answer, make a badge | a form loses nothing; an answer reaches its appointment; a badge keeps scanning |
| Everything else: authentication, tenants, calendar, analytics, the web front end (`frontend/`) | their own tables | request by request | local to a request |

### How they interact

A service writes a row and, in a second call, adds a job that names it. A worker
takes the job, reads the row, sends, and writes row, usage counter and message
log in separate calls. Nothing spans Postgres, Redis and a provider, so every
gap between two awaits is a place where somebody else comes in or a process
dies. BullMQ repeats what threw and hands out again what a dead worker held;
cancellations and opt-outs reach into the queue from other processes; status
callbacks arrive in any order. `PROJECT.json` lists the hazards of this kind
line by line, each with the properties that cover it or the reason none does.

## The modules

| module | models |
|---|---|
| `BullQueue` | one BullMQ job as pure operators on a record: add, start, complete, fail and retry, lock loss, stalled-job recovery. A library, modelled from what the workers rely on |
| `ReminderDelivery` | rows, jobs, handler, listener, cancellation, deletion, opt-out, recovery script, delivery callback |
| `ReminderContract` | what delivery promises, abstractly; `ReminderDelivery` refines it |
| `CampaignSend` | campaign dispatch, event broadcast, broadcast inline and queued, the campaign worker and its listener |
| `EventRsvp` | one contact's replies to invitations, the RSVP and workflow workers, coupons and location reminders, check-in, the dashboard's writes |
| `AutomationWorkflow` | extends `EventRsvp`: triggers fired by an answer, executions, action jobs, changes to workflows |
| `Rescheduling` | appointments, sessions, reminder rows and the errands webhooks run on them |
| `InboundReplies` | extends `EventRsvp` and `Rescheduling`: the webhooks of Twilio and Termii, and what they route where |
| `InboundContract` | what Twilio's webhooks promise of a message; `InboundReplies` refines it |
| `TenantBilling` | one tenant's subscription: payment webhooks, the trial sweep of each replica, verify, subscribe |
| `AiUsage` | extends `TenantBilling`: metered AI requests, monthly reset |
| `ChannelFailover` | extends `TenantBilling` (a call needs a plan with calls): a sent reminder, status callbacks, fallbacks, the unread check |
| `EscalationContract` | what the handling of delivery reports promises of messages; `ChannelFailover` refines it |
| `Attendance` | contacts and customers, and the event they are invited to: forms, imports, bookings, the dashboard's edits, invitations, answers, badges |
| `ConversationSystem` | one contact's conversation as a whole: `InboundReplies` and `AutomationWorkflow`, which share `EventRsvp` and its fault budget; an answer that is settled fires its triggers |
| `TenantSystem` | one tenant as a whole: `AiUsage` and `ChannelFailover`, which share the plan and the fault budget, and `Attendance` beside them |
| `MCReminderDelivery`, `MCCampaignSend`, `MCConversation`, `MCTenant` | small instances. `MCConversation` is of `ConversationSystem`, `MCTenant` of `TenantSystem` |
| `BullQueueProofs` | lemmas about the queue's operators, for the modules that use it |
| `ReminderDeliveryProofs`, `CampaignSendProofs`, `AutomationProofs`, `FailoverProofs`, `TenantProofs`, `AttendanceProofs` | theorems about the module in the name (`AutomationProofs`: `AutomationWorkflow` and `ConversationSystem`; `TenantProofs`: `TenantBilling`, `AiUsage` and `TenantSystem`) |
| `ConversationProofs` | theorems about `EventRsvp`, `Rescheduling` and `InboundReplies` |

Definitions named `...` in a comment that starts with "Variant of" are plausible
bugs; each property is checked to fail when the variant replaces the original.

### ReminderDelivery

| variable | in the code |
|---|---|
| `row` | `Reminder.status`, plus "absent" and "deleted" |
| `producing` | a producer between `reminder.create` and `queue.add` |
| `job` | the reminders queue, by job id: `reminder-<id>` (scheduler, script) and `rem_<id>` (`AppointmentService.create`) |
| `slot` | the handler running in each concurrency slot: where it is, its job, who is left to send to, `someSuccess` |
| `accepted`, `escalated` | what providers accepted from handlers and from the failover |
| `copies` | history: how many copies `accepted` counts in all |
| `billed`, `logged` | usage increments, rows with a `MessageLog` |
| `dying`, `dlq` | the `failed` listener of a job, the dead letter queue |
| `customerOut`, `contactOut` | the two `unsubscribed` flags |
| `request` | one call of `cancelForAppointment`, `cancelForEvent`, a deletion or an opt-out, at its current await |
| `recovering`, `recovered` | the recovery script's list; rows it gave a second job |

The handler is cut at its awaits: `Load` (findUnique, the status test, the
recipients), `Gate` (eligibility), `SendAccepted`/`SendRefused`,
`IncrementUsage`, `LogMessage`, `WriteSent`/`WriteFailed`/`WriteCancelled`, then
`Complete` or `Throw`. `Gate` compares the usage counter with the limit in force
(`Limit`, a set of at most one); of plan and trial it takes an arbitrary verdict. The
counter starts a period at zero and the period does not end.
Refusal and acceptance by the provider are arbitrary. Time is left out: a delayed
job may start at any time, a backoff may end at any time.

### CampaignSend

| variable | in the code |
|---|---|
| `job` | the campaign queue: `campaign-send:<campaign>:<contact>`, the event broadcast's jobs without options, `broadcast-send:...` |
| `slot` | handlers of the campaign worker with the provider id of the message just sent |
| `request` | the call in progress: `dispatchCampaign`, `broadcastAction` or `sendBroadcast` |
| `recipient` | `CampaignRecipient.status` |
| `unsub` | `Contact.unsubscribed` |
| `accepted`, `billed`, `logged` | accepted copies by sender, usage increments, `MessageLog.providerMessageId` (unique) |
| `dying`, `dlq` | the `failed` listener, the dead letter queue |
| `added`, `copies` | history: how often Redis took a job id as new; copies the queue's jobs got accepted |

`Check` is the handler down to the opt-out test, `CheckPlan` is
`checkEligibility`; `SendAccepted`, `ServiceLog` (the row `MessagingService.send`
writes), `IncrementUsage` and `WorkerLog` (the row the worker writes) follow.
The inline loop of `sendBroadcast` is `SendInline`, `LogInline`, `MarkInline`, with
`InlineError` for its catch block. Message ids are abstract: the n-th message
accepted from a sender, or none, as Termii may answer. Two simultaneous e-mails
of one millisecond would share an id (`email_${Date.now()}`); that is left out.
So is the text: the worker renders the template but hands the unrendered one to
`send`, which no property here sees.

### EventRsvp, AutomationWorkflow

| variable | in the code |
|---|---|
| `work`, `data` | the queues `meetora-rsvp` and `meetora-event-workflows` |
| `desk` | the handler each slot runs: of `RsvpQueueConsumer` or of `WorkflowWorker` |
| `status`, `last` | `EventParticipant.status` and `lastResponseAt`, by event |
| `over`, `optedOut` | events that have started or are inactive; `Contact.unsubscribed` |
| `arrived`, `scan` | `arrivedAt`; requests of `POST .../check-in` in progress |
| `clerk` | a `respond` request between its write and its `queue.add` |
| `coupon`, `located`, `noticed` | `couponSentAt`, PENDING location reminders, their job ids in Redis |
| `version`, `inactive` | workflows with the generation of their actions; `isActive` |
| `firing` | calls of `fireTrigger`, which nobody awaits |
| `looped`, `expiring` | loop counters in Redis, and which of them have an expiry |
| `execution`, `hand` | `WorkflowExecution` rows with the jobs of their actions; the processor's slots |

A reply runs `Look` (find the contact's invitations), `Stamp`, `Answer`, `Settle`,
`Reply`, `TriggerFlow`; a workflow job runs `Plan`, `Exists`, `CreateRow`,
`QueueReminder`, `Offer`, `SendCoupon`, `MarkCoupon`. A firing is `FindWorkflows`,
the loop limit (`INCR` and `EXPIRE` apart), the execution row, then one job per action;
an action is `LoadAction`, `CheckCondition`, `ReadContact`, `SendText`, `CountAction`,
`MarkComplete`. `Triggering` conjoins to a step of `EventRsvp` the calls of
`fireTrigger` it starts.

### Rescheduling, InboundReplies

| variable | in the code |
|---|---|
| `appt`, `reminders`, `sessions` | `Appointment`, `Reminder` and `RescheduleSession` rows of a customer |
| `lapsed` | `Customer.unsubscribed` |
| `busy`, `hour` | hours taken elsewhere; the present |
| `errand` | what each webhook request is doing, at its current await |
| `inbox`, `deliveries` | the messages, and how often each was delivered |
| `hook` | the request each webhook handler serves: `check`, `log`, `route`, then feedback, rating, invitation, session or errand |
| `received` | inbound `MessageLog` rows: the provider's id is unique |
| `feedback` | a `FeedbackRequest` is open |

Two handlers differ in what they do about a repeated message: Twilio's relies on the
unique index and stops when the insert fails (`LogInbound`), Termii's looks first
and goes on when the insert fails (`CheckDuplicate`, `LogLost`).

### TenantBilling, AiUsage

| variable | in the code |
|---|---|
| `tenant` | the `Tenant` row: status, plan, trial, customer code, usage, limit |
| `post`, `server` | events and their deliveries still to come; deliveries in progress |
| `processed` | `ProcessedWebhook` |
| `sweep` | `processExpiredTrials` between its read and its write, in each replica |
| `ask` | AI requests between check, completion and increment |
| `crossed`, `unmarked`, `dropped`, `overtaken`, `resets` | history: what went wrong, for the properties to name |

A delivery is `check` (is the id in `ProcessedWebhook`?), `mark` (insert it), `route`
(read the tenant), `apply` (update it), `record` (answer). An insert that fails is
caught, so a second delivery that passed the check goes on as well: `crossed`.

The row is written under the id in the payload, and an event that has one is `named`. One
that has none gets its type and the time, `${event}-${Date.now()}`
(`paystack-webhook.controller.ts:50`, `paypal-webhook.controller.ts:77`,
`crypto-webhook.controller.ts:71`), hence another id at each delivery: its rows are under
ids that no other delivery of it looks up, so `Mark` adds nothing to `processed` and
`SkipDuplicate` never applies to it. In exchange it may be skipped under an id it shares:
`SharesId`, whenever the check is made, since another event of its type can have come in
the same millisecond; the table has one unique index, on the id, for all tenants.

### ChannelFailover

| variable | in the code |
|---|---|
| `setup` | the reminder's channel and addressees, the strategies that apply, how messages fail |
| `worker` | the reminder job's handler, down to `triggerFailover` of the failed listener |
| `copy` | messages the provider accepted, and their fate |
| `row` | `MessageLog` rows in order, with `providerStatus` |
| `flight`, `line` | status callbacks on their way and in handlers |
| `check` | the job `unread-check-<reminder>` |

Callbacks arrive in any order, before the row is written too. A callback's handler is
`UpdateRow`, `MarkDelivered` or `Detect` (which reads the row again), `NoFallback` or
`ChooseFallback`, send, log. The report "sent" travels with the next one: alone it
changes nothing. WhatsApp reports even though the code passes no `statusCallback` for
it, since Twilio can be configured to; the remark below says what happens if it is not.

### Attendance

People are kept twice. Contacts take part in events, and their phone and e-mail are
unique; customers have appointments, and nothing of theirs is unique. No row of one
names a row of the other: a customer is whoever has the contact's phone or e-mail.

| variable | in the code |
|---|---|
| `contact`, `customer` | `Contact` and `Customer` rows of the tenant: phone and e-mail |
| `participant` | `EventParticipant` of the event: status and `qrToken` |
| `invitation` | `Appointment` rows with the event's id |
| `minted` | tokens are random: the n-th one made is n |
| `request` | the requests in progress, each at its current await, with what it has read |
| `agenda` | bound: the requests still to come, by kind |
| `outrun`, `entered`, `mixed`, `handed`, `raced` | history: look-ups out of date, answers entered at the dashboard, contacts whose calls overlapped or who changed, badges handed out, two first badges at once |

A form is `SubmitForm` (`findFirst` by phone or e-mail), `FormCreates` or
`FormPatches` (fill the blanks of the row as it was read), `FormJoins` (the participant's
upsert). A booking is `Book`, `CreateCustomer`, `FindContact`, `InsertContact`; its
appointment belongs to no event and is left out. `Invite` is the reads of the transaction,
`InviteCommits` its writes, which others see together. An answer at the dashboard is
`Respond`, `RespondLooks`, `RespondAnswers`, `RespondNotes`: respondent, customer, appointments, participant.
A badge is `AskBadge`, and `MintBadge` for participants without a token. Where
`findFirst` names no order, any row that fits may be the one found.
`AnswersElsewhere` is what `EventRsvp` has in detail, a reply or a bulk update.
`EventRsvp` has `respond` too: there with the workflow it sets off, here with the
appointment it looks for.

## The runs

`tlc -config <run>.cfg <module>`; every bound is a constant in the cfg.

| run | question | instance | states |
|---|---|---|---|
| `reminder_delivery` | are copies, row states and usage right in every interleaving? | 1 appointment reminder, both job ids, 2 slots, 2 faults, a cancellation | 3.8 M |
| `reminder_fair` | does delivery implement its contract, and is a reminder settled in the end, whatever request meets it? | a reminder of an appointment or of an event with 2 participants, 1 slot, 1 fault, deletion, an opt-out, fair | 440 k |
| `campaign_send` | are copies, usage, dead letters and opt-outs of a campaign right? | 1 contact, 2 slots, 2 faults, dispatched twice | 510 k |
| `campaign_ends` | does every job end, when jobs compete for a slot and stall? | 1 contact, a campaign and an event job, 1 slot, 2 faults, fair | 190 k |
| `broadcast` | do recipient rows tell the truth? | 2 contacts, 1 slot, 1 fault | 1.35 M |
| `conversation` | are replies, arrivals, coupons, workflows, appointments and their reminders right? | 2 messages, 2 requests, 2 slots, 2 events, 2 workflows, 1 appointment, 3 hours; seven scenarios | 780 k |
| `reminder_limit` | how far do reminders overrun the usage limit, and does an opt-out stop them? | 2 reminders to one person, both job ids each, 2 slots, limit 1, a stall, opt-out | 1.5 M |
| `tenant` | are payments, AI spending and escalations right, does a trial end, and what becomes of contacts, answers and badges? | 2 events, 2 deliveries, 2 replicas, 2 AI requests, 2 addressees, 2 callbacks at once; 3 contacts, 1 phone, 2 e-mails, 2 requests at once; five scenarios | 1.2 M |
| `reminder_dead_letter`, `opt_out_contact`, `campaign_double_log`, `broadcast_queued` | does the code do what its comments say? | 1 or 2 people, no fault | violated |

**Scenarios.** The state spaces of `conversation` and `tenant` are a union: the
initial states are a few things that meet, and every action of the composition
may happen in each of them. In `MCConversation`: `Appointments` (a customer writes
twice about an appointment that the diary changes meanwhile), `Duplicates` (one
message delivered twice, over any provider), `Replies` (two replies to two events),
`Guests` (a reply against organisers, opt-outs, two faults), `Organisers` (badges and
dashboard alone), `Automations` (a reply sets a workflow off while it is edited, the
contact opts out or a bulk update contradicts it), `Underway` (workflows fired by one or
two earlier answers, with one or two faults; it starts after the answers so that the
faults meet the jobs). In `MCTenant`: `Repeats` (one event,
with an id or without, twice, two faults), `Orders`
(a payment and any other event in either order, with the sweep and either both of verify and
subscribe or one of them and a fault),
`Asking` (four AI requests of two callers against a limit of two and a monthly
reset), `Escalating` (a reminder whose messages fail or are read; a plan that
changes while a call is chosen), `Attending` (any three requests about an event's people, two
at once; some fours; a customer whom two contacts fit).

**Why the bounds are enough.** The reminders do not interact: a row and its jobs
share only the slots and the usage counter with the others. One reminder with
both job ids, two slots and two faults has every conflict of two handlers over
one row, including the second stall that buries a job. Retries differ only in
whether one is left, so two attempts stand for five (or three) and the two
job kinds without the option have none. The safety runs have two faults, since the
bounds on copies are in terms of them. For liveness, one fault loses whatever
can be lost of a reminder; `reminder_fair` has both kinds of reminder, of which one comes
into being, since they share nothing but a slot; `campaign_ends` has two, so that a job stalls twice
and is buried. An audience of two makes the partial outcomes of an event and a broadcast;
`BatchSize` 1 makes the inline and queued ways both reachable.

In `conversation` two events are what it takes for a reply to have a wrong invitation
to go to, two requests or slots for a race, two deliveries for a duplicate. Handlers
of RSVP and workflow jobs share no more than the rows of one contact, so one contact is
enough. Two answers and an action limit of one reach the loop limit; two actions
and a replaced workflow reach a job whose action is gone. Two webhook events are enough
because an event touches the tenant by one read and one update: a third one adds
no new pair. A chain of three channels is escalated twice, a fallback of a
fallback; three channels, with late and repeated reports, are more than any bug needs that
looks a channel up at the wrong place. `settled` bounds how many messages are reported delivered or failed, and
`failures` names the way in which they fail. Two addressees show that the
one unread check of a reminder serves the first.

In `Attending` two contacts are there or come into being, and a third can: a look-up may
meet two rows, one by phone and one by e-mail. One phone and two e-mails let an
identifier be blank, kept, changed and taken. A request conflicts with another by
what that one wrote since it looked, so two at once have every conflict; a third gives
each a past, such as an invitation to be answered.

`CHECK_DEADLOCK FALSE` is everywhere: every instance ends, all reminders settled, all
campaigns sent, all requests served, with nothing left to do.

**Fairness.** `Handle`, the listener, BullMQ's lock expiry and stalled check, an
API call that is under way and `AddJob` are weakly fair: the event loop and
Redis run them on when nothing fails. The start of a job is strongly fair:
a slot is free again and again, and BullMQ takes jobs in order. Nothing is assumed
of people, of the provider's answers or callbacks, of the recovery script or of
faults. `TrialsEnd` assumes `SweepFairness`: a cron job runs every hour in each replica,
so its next step is taken in the end. The other properties of `conversation`
and `tenant` are safety and assume nothing.

### What the properties say

- `CopiesPaidFor`: one job gives an addressee one copy, and one more per fault.
  Retries after a refusal do not send again because the row is FAILED by then;
  two jobs of one row each count for themselves.
- `RowTellsTruth`: what the row says happened, happened. SENT or DELIVERED means that a
  copy was accepted (`SentWasAccepted`); FAILED means that nobody got one (`FailedWasRefused`), which
  holds only without faults and without a second job by the script, and says so.
- `PendingIsOwned`, `EventuallySettled`: no reminder is forgotten.
- `UsageWithinLimit`: the limit is checked before the sends and counted after them, so it is
  overrun by what the handlers pass the check with together, less one, and by one for
  each fault between a send and its count. With one slot and one addressee it is exact.
- `OptOutStopsSends`: an opt-out does not stop a handler that has read the row, and it does
  stop everybody else: no retry, stalled job or second job texts that person again.
- `UsageFollowsSends` (both modules): the counter never runs ahead, and lags by
  handlers about to count and by faults.
- `SettledForGood`: no late retry, second job or script makes a settled reminder
  send again, although SENT, CANCELLED and DELIVERED overwrite each other.
- `CopiesWithinAttempts`: a campaign job gives a contact no more copies than
  attempts, each time it is added as new. It is weaker than the reminders' bound
  because a retry here does send again: see `campaign_double_log`.
- `FailedIsParked`: a failed campaign job is in the dead letter queue.
- `RecipientTellsTruth`: the status of an inline recipient is what happened.
- `OptOutSilences`: after an opt-out, only handlers past their check still send.
- `JobsEnd`: every campaign job comes to an end.
- `KeepsContract`: with jobs, slots and requests hidden, a reminder is opened, its copies
  go out while it is open, and once settled nothing goes out any more.
- `TwilioContract`: a message is noted, then acted on once. `TermiiHandled`: what
  the weaker duplicate check of Termii's handler still bounds.
- `StopHonoured`: a STOP that was answered with 200 has set both flags, unless something
  failed or two requests of the customer met; the property names what else
  can undo it.
- `OneAnswerPerReply`, `ConfirmedGetsWorkflow`: a reply goes to one invitation, and a
  confirmation's workflow is that of the event confirmed, though
  `fireConfirmedWorkflow` looks it up by the contact alone.
- `ExtrasPaidFor` (`CouponsPaidFor` and `LocationsPaidFor`), `OneArrival`: check-then-act on
  participants, bounded by slots and faults where nothing is atomic, exact where the
  update is conditional.
- `FollowUpsPaidFor`: texts of a workflow's action per answer and fault, across firing,
  jobs that stall, edits, and two firings at once.
- `RemindersMatch`: after errands that did not overlap or fail, what is still to be sent
  is for the time the appointment now has.
- `AppliedOnce`, `PaymentNotDropped`: the two ways to get idempotency wrong. Each
  exception (`crossed`, `unmarked`, `dropped`) is a path the code really has, and the events
  without an id are one too: `AppliedOnce` speaks of `named` events only, the others
  are applied at every delivery, and `dropped` holds those that were skipped under a shared id.
- `ExpiredRightly`, `TrialsEnd`: the sweep expires whom it should, and in the end does.
- `SpendingWithinCap`: how far concurrent requests and resets overrun the limit.
- `FailureIsAnswered`: a failure report that was handled has tried the next channel,
  unless it overtook its own row or lost it to a late report; each report has one
  fallback at most, and a delivered message none.
- `EscalationEnds`: the messages in a row, each a fallback of the one before, are no
  more than the chain has channels, in whatever order failures are reported. It holds of chains
  that name no channel twice; what happens with the others is among the remarks below.
- `KeepsEscalation`: with rows, callbacks and handlers hidden, a message that failed is
  followed by one on the next channel, and by one more for each fault at most; nothing
  else is followed by anything.
- `ReadIsRespected`: nobody is escalated for a message the check could know was read.
- `NothingLost`: a form overwrites no phone or e-mail and its sender takes part, unless the
  contacts it looked up were written in the meantime. The exception is needed: two
  submissions can each fill the same blank, and a contact created in between loses
  the submission to the unique index.
- `AnswerReaches`: an answer entered at the dashboard is on the appointment of the
  contact's own invitation, by way of a customer found by phone or e-mail. Each of its
  exceptions has a counterexample without it: several customers that fit, a customer
  shared with another contact, a contact that has changed, calls that overlapped.
- `BadgesScan`: nothing makes a second token for a participant but two first requests at once.

`TypeOK`, `RsvpTypeOK` and the like are the type invariants; `TenantTypeOK` joins those of
`AiUsage`, `ChannelFailover` and `Attendance`. `reminder_fair` checks `KeepsContract`, which
says of every participant what `CopiesPaidFor` and `SettledForGood` say of the one of
`reminder_delivery`.

## What is proved

TLAPS proves, for any reminders, people, slots, attempts and fault bound:

| theorem | says |
|---|---|
| `TypeCorrect` | `Spec => []TypeOK`, with "a slot has a job exactly when it is busy" and "an opt-out names a person" as the strengthening `Typing` |
| `CopiesArePaidFor` | `Spec => []CopiesPaidFor` |
| `SettledReminders` | `Spec => SettledForGood` |
| `PendingHasOwner` | `Spec => []PendingIsOwned` |
| `SentWasSent`, `FailedMeansRefused`, `RowsTellTheTruth` | `Spec => []...` of `SentWasAccepted`, `FailedWasRefused` and both, `RowTellsTruth` |
| `UsageFollows` | `Spec => []UsageFollowsSends` |
| `UsageStaysWithin` | `Spec => []UsageWithinLimit` |
| `OptOutsAreRespected` | `Spec => OptOutStopsSends` |
| `DeliveryKeepsContract` | `Spec => KeepsContract`: `ReminderDelivery` implements `ReminderContract` |

`CopiesPaidFor` is not inductive: nothing in it prevents a second handler from
sending while the first one has yet to write SENT. The invariant `Budget` counts
what can still go out: the copies accepted from job j for p, plus the handlers
that may still send one (`Owing`), plus one while the row is PENDING and no live
handler holds the job (`Open`), are at most 1 + faults. Every step that raises a
term lowers another or is a fault. It needs two facts about the queue and the
producers: locked jobs are active (`OwnersAreActive`), and a row not yet created
has no job and no copies (`AbsentIsFresh`); and that handlers which return have
left the row settled (`ReturnsSettled`). Actions that touch none of the terms are
dealt with together (`Calm`, `Quiet`).

`SentWasSent` rests on `Evidence`: a handler that has noted a success, a logged
message and a row that reads SENT or DELIVERED all have an accepted copy behind
them, and copies are never taken back.

`PendingHasOwner` is about a run without faults (`Flawless`). There every active job is with
the handler that holds its lock (`Leases`), so a PENDING row can lose its job only by the
handler's own return, and a job that is over, or whose handler threw, has left the row
settled (`Attended`). A cancellation that has removed the job still lists the row.

`FailedMeansRefused` needs to know who else could have sent. A row the script has not
touched has one job (`OneJob`: the two producers exclude each other), hence one handler at a
time. `Refused` follows it: a copy that got through is seen by its handler (`ok`) or the row is
past PENDING, and once the row reads FAILED it is settled, no handler is at work on it and
nobody got a copy; the retry and the listener that come after find it so.

`UsageFollows`, here and for campaigns, is exact bookkeeping: billed plus the handlers between
send and increment never exceed the copies, and the copies never exceed these plus the
faults. `copies` is a history variable, the sum over the jobs that no prover here can take.
A handler that dies in between loses the increment: that is what its fault pays for. In the
campaign worker the service's insert must also be known not to throw (`Fresh`: message ids
in hand are distinct and not yet logged), or an increment would be lost without a fault.

`UsageStaysWithin` counts what handlers past the check still have to count (`Due`: pairs of a slot
and an addressee, with `Paid` for the copy just sent). `Paced`: counter and `Due` together stay
below the limit plus slots times addressees, or nothing was ever sent. A handler that
passes the check finds the counter below the limit, and `Due` is never larger than slots times
addressees, which takes an injection of the pairs into numbers (`DueBounded`); a send moves a
pair, an increment takes one away and raises the counter. `Counted`, which
`UsageFollows` shares, then bounds the copies by the counter. `OptOutsAreRespected` needs no
invariant beyond types, but a look at every step: `Load` is the only way onto a handler's
list, and it subtracts the opt-outs of that moment, which no step takes back.

`DeliveryKeepsContract` reuses `Budget`: a copy that goes out finds its row open and no more
copies than faults.

The assumptions are `QueueAssumption` and `DeliveryAssumption`: constants have
their types, `None` is not a value, slots are finite. TLC evaluates them in every
run.

Of `CampaignSend`, for any contacts, slots, attempts, dispatches and fault bound:

| theorem | says |
|---|---|
| `TypeCorrect` | `Spec => []TypeOK`, strengthened by "a slot has a job exactly when it is busy" and "the inline loop is at work on somebody when it logs or marks" |
| `CopiesAreBounded` | `Spec => []CopiesWithinAttempts` |
| `OptOutIsKept` | `Spec => OptOutSilences` |
| `FailedJobsAreParked` | `Spec => []FailedIsParked` |
| `RecipientsTellTheTruth` | `Spec => []RecipientTellsTruth` |
| `UsageFollows` | `Spec => []UsageFollowsSends` |

`CopiesWithinAttempts` is made inductive the same way, by counting what can still go
out. A job taken as new gets `RunsOf` runs. The copies accepted, the handlers before
their send (`Due`) and the runs still to be begun (`Left`) are together at most the
runs given plus the faults: a start moves one from `Left` to `Due`, a send moves
one from `Due` to the copies, a refusal drops one, and a crash or a lost lock,
after which a job runs once more without having failed, is paid for by its
fault. It rests on `JobsSound`: a lock belongs to an active job, and a job that may
run again has not used up its runs.

`FailedJobsAreParked` needs to know that nobody but the handler can fail a job while
nothing has gone wrong: `Parked` says that every active job is with the handler
that holds its lock and no job has ever stalled. `RecipientsTellTheTruth` rests on
what the inline loop remembers (`LoopTrue`): whom it still has to send to is
pending and has no copy, and `ok` is what the provider said of the one at hand.
`CampaignAssumption` takes the place of
`DeliveryAssumption`.

Of replies, appointments and webhooks (`ConversationProofs`), for any messages, requests,
slots, events, appointments, hours and faults:

| theorem | says |
|---|---|
| `InboundTypes` | `InboundSpec => []InboundTypeOK` |
| `TwilioKeepsContract` | `InboundSpec => TwilioContract`: `InboundReplies` implements `InboundContract` |
| `TermiiIsHandled` | `InboundSpec => []TermiiHandled` |
| `StopIsHonoured` | `InboundSpec => []StopHonoured` |
| `RepliesAnswerOnce` | `InboundSpec => []OneAnswerPerReply` |
| `ConfirmationsAreFollowed` | `InboundSpec => []ConfirmedGetsWorkflow` |
| `RemindersAreMatched` | `InboundSpec => []RemindersMatch` |
| `ExtrasArePaidFor` | `InboundSpec => []ExtrasPaidFor` |
| `GuestsArriveOnce` | `InboundSpec => []OneArrival` |

- `TwilioOnce`: a request past its insert is the only one of its message. `TermiiCounted`
  splits the routings of a Termii message into those of a delivery that began alone
  (`Fresh`) and those that some overlap or fault paid for (`Surplus`).
- `Heard`: while nothing disturbs it, a STOP that was noted or acknowledged is still being
  served or both flags are set. Its errand has one way to go (`StopErrand`), and the handler waits
  exactly while the errand runs (`Paired`), so that the contact's flag follows the
  customer's.
- `AnswersCounted`: the invitations a reply has answered, its handlers before their
  write and the run it may still get are at most 1 + faults, as in `Budget`.
- `Attended` and `Alone`: with replies one by one, the handler that has answered is the only one
  past its look, its answer is the latest of all (`last` equals `now`, all others are below),
  so `fireConfirmedWorkflow`, which takes the latest confirmed invitation of the
  contact, takes the one that was answered. Until then the confirmed event is `Noticed`.
- `Tidy`: as long as errands do not overlap there is at most one, and every appointment
  is `Neat`, which is the property, or the errand owes it its reminders (`Owes`): it
  is about to remove the old ones or to schedule new ones. `Reminded` is what the
  errand may rely on meanwhile: the rows it has listed are all there are, and when it
  schedules there are none. That `AvailableSlots` is a sequence of free hours at all
  rests on `OrdersExist`: every finite set of numbers can be put in order, by a least
  counterexample, since `InOrder` is a CHOOSE.
- `CouponsCounted` and `LocationsCounted` count handlers that are past the check but not yet at
  the mark together with what has gone out. `DoorKept`: a request that thanks somebody
  is the one whose conditional update succeeded.

Of workflows, and of replies and workflows together (`AutomationProofs`), for any workflows, actions,
answers, handlers, edits, faults, messages and appointments:

| theorem | says |
|---|---|
| `FollowUpsArePaidFor` | `AutomationSpec => []FollowUpsPaidFor` |
| `ConversationTypes` | `ConversationSpec => []InboundTypeOK` |
| `ConversationKeepsContract` | `ConversationSpec => TwilioContract` |
| `ConversationHandlesTermii` | `ConversationSpec => []TermiiHandled` |
| `ConversationServesGuests` | `ConversationSpec => []...`: `ExtrasPaidFor`, `OneArrival`, `OneAnswerPerReply`, `ConfirmedGetsWorkflow` |
| `ConversationKeepsDiary` | `ConversationSpec => []...`: `RemindersMatch`, `StopHonoured` |
| `ConversationPaysFollowUps` | `ConversationSpec => []FollowUpsPaidFor` |

`Counted` is its invariant: of each action of each workflow, the texts sent, the executions
whose job may still be handed out (`Due`) and the handlers that may still send or
be retried (`Acting`) are at most the executions that have such a job (`Entitled`)
plus the faults. A job moves from `Due` to `Acting` when it is taken, to a text when it
is sent, and back when its handler is lost, which is a fault. The other half is that a
firing makes one execution of a workflow at most (`PastFlow`: it does not come back to a
workflow it has started), so `Entitled` is bounded by the firings of the right trigger.

The theorems about `ConversationSystem` say that every property holds with replies arriving over
the webhooks and workflows at work on the answers. To the rest a step of a workflow
is a `Mishap` at most: everything stays but for one fault more, out of the same budget
(`ConversationMoves`). The invariants of `ConversationProofs` survive that
(`HooksElsewhere`, `DesksElsewhere`, `ErrandsElsewhere`): they do not look at the
faults, allow more when there are more, or are about behaviours with no fault so far. In the other direction
`AutomationSpec` has no webhooks, so its theorem does not carry over as it is: a step of the
replies fires what an answer fires (`Triggering`) and costs at most a fault (`InboundFaults`), and
of a workflow's counts that is all `Counted` needs to know.

Of escalation (`FailoverProofs`), for any addressees, callbacks at once, chains and settings:

| theorem | says |
|---|---|
| `FailoverTypes` | `FailoverSpec => []FailoverTypeOK` |
| `FailuresAreAnswered` | `FailoverSpec => []FailureIsAnswered` |
| `ReadsAreRespected` | `FailoverSpec => ReadIsRespected` |
| `EscalationsEnd` | `FailoverSpec => []EscalationEnds` |
| `EscalationKeepsContract` | `FailoverSpec => KeepsEscalation`: `ChannelFailover` implements `EscalationContract` |

`Heeded`: a handler that is to look at the row again (`Detect`) either came before the row was
written, or finds it saying that the message failed, or a late report has taken that from
it (`LineKnows`); so a report that ends without a fallback is one the property excepts.
`Within` bounds the fallbacks: of a message, the reports of failure on their way, the
handlers that have one and the fallbacks sent are at most 1 + faults, since a
repeated report is a fault. `Spared`: of a message that did not fail there are none of the
three. `ReadsSound` and `CheckHonest`: a "read" is in a row of its message unless overrun, and
the check that goes on to escalate has looked at a later row than any read message
it could know of. `Traced` makes `EscalationsEnd` inductive: every message has a closed
history (a set that holds, with a fallback, what it is a fallback of) that is no larger than the
position of its channel in the chain, or the message is alone; a fallback adds itself and
stands one position further, because `LinesRouted` keeps the channel a handler has chosen next
to that of the message it answers. For the contract the counts of `Within` do the work: a
fallback takes the place of its handler, so there was room for it.

Of billing and AI requests (`TenantProofs`), for any events, deliveries, replicas, callers and limits:

| theorem | says |
|---|---|
| `BillingTypes` | `AiSpec => []AiTypeOK` |
| `PaymentsAppliedOnce`, `PaymentsNotDropped`, `TrialsExpireRightly` | `AiSpec => ...` of the three properties |
| `SpendingIsCapped` | `AiSpec => []SpendingWithinCap` |
| `TenantTypes` | `TenantSpec => []TenantTypeOK` |
| `TenantHasAttendance` | `TenantSpec => AttendanceSpec` |
| `TenantKeepsBilling` | `TenantSpec => ...`: `AppliedOnce`, `PaymentNotDropped`, `SpendingWithinCap`, `ExpiredRightly` |
| `TenantKeepsEscalation`, `TenantKeepsContract` | `TenantSpec => ...`: `FailureIsAnswered`, `EscalationEnds`, `ReadIsRespected`; `KeepsEscalation` |
| `TenantKeepsAttendance` | `TenantSpec => ...`: `BadgesScan`, `AnswerReaches`, `NothingLost` |

`OnceUnlessCrossed`: a delivery that may still apply an event with an id is alone unless
recorded; the id is what the step needs, since only then `Mark` leaves a row that the check
of a later delivery finds. `AllCovered`: what is marked is applied, at work or dropped. `SweepsKnow`: a
sweep about to write has seen the tenant as it is, or is overtaken. `Metered`:
completions plus requests under way against resets, limit and counter.

The theorems about `TenantSystem` say that the parts keep side by side what each keeps by itself.
They do not follow from composition alone, because the parts share state: a step of
escalation can take a fault from the budget of the webhooks (`Elsewhere`), and AI requests
and the monthly reset are steps `FailoverSpec` does not have. `TenantInv` joins the
invariants of both; each is shown to survive the steps of the other
(`BillingInvElsewhere`, `EscalationInvRests`). Attendance shares nothing, so the tenant
implements it outright.

Of contacts, customers and events (`AttendanceProofs`), for any contacts, requests and beginnings:

| theorem | says |
|---|---|
| `AttendanceTypeCorrect` | `AttendanceSpec => []AttendanceTypeOK` |
| `BadgesAlwaysScan` | `AttendanceSpec => []BadgesScan` |
| `FormsLoseNothing` | `AttendanceSpec => NothingLost` |
| `AnswersAlwaysReach` | `AttendanceSpec => []AnswerReaches` |

They share the invariant `AttendanceInv`. `Scans`: a badge handed out
carries the participant's token, or the contact is gone or raced. `Mints`: a request about to
make a first token has a participant without one, unless the contact is gone or raced.
`Races`: two such requests of one contact have been recorded. `ReadOf`: what a
form's request has read of the contacts is still so, unless the request is
outrun: the row it is to patch has its phone and e-mail, the contact it joins is there,
and for a request about to create nobody has the identifiers. `Named`: a request
that has found a contact names one.

`AnswersAlwaysReach` has to bridge the missing link between contacts and customers. `Placed`: an
appointment made for a contact is of a customer whom the contact's phone or e-mail
meets, and stays so, because a contact that changes is recorded in `mixed` and customers only
grow in number. So if one customer fits now, it is the one of the appointment, and it is the
one that the answer found: `ReadRight` says that a call still has the contact's
identifiers and a customer who fits them. `Written` covers the gap between the two
writes of `respond`: the appointments of the customer found carry the answer already, and
if no customer was found the contact has no appointment. `Crossed`: two such calls of one
contact have been recorded. `Entered` is the property in its inductive form, with
"the customers that fit are exactly the appointment's" for "one customer fits".

The assumptions are those the modules name (`QueueAssumption`, `DeliveryAssumption`,
`CampaignAssumption`, `RsvpAssumption` and so on): constants have their types, `None` and
its like are not values, sets that are counted are finite. `AttendanceAssumption` says what a
beginning may be: contacts with unique identifiers, participants of contacts that are
there. TLC evaluates all of them.

Only model-checked: liveness and everything under fairness (`EventuallySettled`, `JobsEnd`,
`TrialsEnd`), which is out of this prover's reach, like ENABLED and induction over
data. The scenario `Underway` of `MCConversation` begins after its answers and so outside
`ConversationInit`: what the theorems say of its states they say of those reached by answers.

## Where code and comments disagree

- `reminder_dead_letter`: when all sends are refused the handler writes FAILED and
  throws for a retry, but the retry finds the row no longer PENDING and completes.
  The job is never tried again and reaches neither the dead letter queue nor the
  failover.
- `opt_out_contact`: `cancelForAppointment` throws when it meets a job a worker
  has locked; the opt-out around it ends there, before the contact's flag is set,
  and event reminders look at that flag only.
- `campaign_double_log`: the campaign worker lets `MessagingService.send` write the
  `MessageLog` row and then writes its own with the same unique id. The message
  is out, the insert fails, and the retry sends it again.
- `broadcast_queued`: jobs of a large broadcast have other fields than the campaign
  worker reads; it skips them and they complete with the row still pending.

Met while modelling and visible in the models, without a run of their own:

*Billing.* Idempotency hangs on an id at the top of the payload (of `event`, for Coinbase).
An event without one is applied again each time it is delivered (a redelivered charge or
activation sets the usage counter to zero again and can reopen a subscription cancelled
in between), and of two such events of one type that
meet in a millisecond, of any tenants, one can be skipped and is lost: answered and never
applied. `AppliedOnce` and `PaymentNotDropped` except both cases by name. A `charge.success` that arrives after the sweep has closed a trial starts a
second trial (`paystack-webhook.controller.ts:160`, against "Card on file - mark trial
inactive, await Paystack subscription charge", `billing.service.ts:491`). `verify` starts
a trial as well, though the webhook says "Trial clock starts ONLY here" (`:161`); which
of the two comes first decides between ACTIVE and TRIALING. The sweep lists TRIALING
tenants only: one who cancelled or missed a payment in the trial keeps `trialActive`.
`createSubscription` sets the customer code before there is a card. A write of the sweep
can expire a tenant who has paid since its read. Activation maps plan codes
of Paystack only, so PayPal and Coinbase subscriptions become SMS, and a charge
without a plan code leaves an EXPIRED tenant expired. Each recurring charge resets usage.
`PlanGuard` is on no route, though it "will enforce trial/subscription limits" (`plan-feature.decorator.ts:7`).

*Replies.* The RSVP handler catches everything, so its attempts and the dead letter queue
(`rsvp-queue-consumer.service.ts:67`) are out of reach and a database error loses the reply.
`fireConfirmedWorkflow` sorts `lastResponseAt` descending with NULLs first. A refused
coupon is marked as sent. `rsvp_no_response` and `event_completed` have no producer. After
the "fall through" comment (`twilio-webhook.controller.ts:398`) nothing falls through.
A cancellation leaves the session: a later digit revives the appointment.
`AppointmentService.update` leaves reminders as they were. `cancelForAppointment`
throws on a locked job, which leaves a moved appointment without reminder, and the
provider's retry is a duplicate. Opting in again does not bring reminders back.

*Escalation.* The DTO allows a channel twice in a chain (`channel-strategy/dto/index.ts:20`);
`indexOf` then never gets past the first (`message-failover.service.ts:118`), and messages that
fail go back and forth without end. The fallback's VOICE call has no
`appointmentData` and goes to the mock sender, its EMAIL goes to the phone number, and
those of event reminders go to 'unknown'. The unread check hands `performSend` a job
without `appointmentId`, so VOICE and EMAIL go to the customer of any appointment
of the tenant (`Stranger`). Its job id is the reminder's: of an event's participants one gets
a check, which looks at the newest WhatsApp row of anybody. WhatsApp messages are
sent without `statusCallback`: unless Twilio is configured otherwise no "read" ever
arrives and every WhatsApp message is escalated. `fallbackOnUndelivered` is never consulted.
A callback before its row updates nothing and escalates nothing. A strategy
given by id applies even if inactive. A "delivered" callback for the first participant
and a crash make the retry skip the others.

*Automation.* The loop limit's key holds the event where the comment says "automation+contact
pair" (`automation-execution-tracker.service.ts:32`), so the guests of an event share it. INCR and
EXPIRE are apart: if the second is lost the workflow is blocked for good. A FAILED
execution becomes COMPLETED with its last action, and one whose firing died stays
RUNNING. Jobs of a removed workflow fail every attempt. A retry sends again to
recipients it has reached. Appointment triggers look a customer's id up among contacts.

*People.* "Only fill blanks — never overwrite details the tenant already holds"
(`form.service.ts:193`) goes by the row as it was read: a detail entered in between is
overwritten. A form whose contact is created in between ends in an error, and the submission
is lost. Inviting a contact again sets the appointment back to SCHEDULED and leaves the participant
confirmed; replies by message and bulk updates never touch the appointment. Two first requests
for one badge make two tokens, and the first one handed out does not scan. `respond` finds the
customer whom the phone or the e-mail meets first, and that need not be the one `invite`
found or made. A contact without phone and e-mail gets a new customer at every invitation, and its
answers never find it. A booking does not look again whether the slot is free.

## What is not modelled

- Web frontend: user interface, keeps no state of the system.
- Remote APIs: each call is accepted, refused, or throws.
- Authentication, users, tenants, analytics: single requests and reads.
- Of contacts: names, tags, groups, notes, activity, and the parsing of import files. Of the
  booking widget: the slot listing, the configuration, and the appointment it books.
- Calendar synchronisation: `syncConnection` has no caller and the queue
  `meetora-calendar-sync` has no consumer; jobs are added and stay.
- `PlanGuard`, `UsageValidationService`, `RateLimitService`: applied to no route.
- `rsvp.worker.ts`: not deployed; the consumer inside the API is.
- Within the modelled components: time (delays, backoff, rate windows), texts and
  templates, the choice of provider, plan and trial of reminders (an arbitrary verdict), the
  end of a usage period of reminders, other tenants, audit log and activity rows that nothing reads back, `SubscriptionRecord` and
  `FailoverLog` rows, event CRUD, `AppointmentParticipant` rows, the time zone arithmetic of slots.

## Plan

Done: `ReminderDelivery`, `CampaignSend`, `EventRsvp`, `Rescheduling`, `InboundReplies`,
`TenantBilling`, `AiUsage`, `ChannelFailover`, `AutomationWorkflow`, `Attendance`,
`ConversationSystem`, `TenantSystem`, the three contracts, and the theorems above. What is left, in this order:

1. An abstract specification of what `TenantBilling` promises, and the refinement.
2. Triggers of appointments, which `EventLifecycleService` fires.
