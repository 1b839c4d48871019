---------------------------- MODULE CampaignSend -----------------------------
(***************************************************************************)
(* Bulk messages: campaigns, event broadcasts and broadcasts.              *)
(*                                                                         *)
(* Three callers put jobs into one queue, meetora-campaigns:               *)
(*   campaign   CampaignService.dispatchCampaign, one job per campaign and *)
(*              contact, known to Redis by that pair;                      *)
(*   event      EventService.broadcastAction, a job without options;       *)
(*   broadcast  BroadcastService.sendBroadcast for a large audience, a job *)
(*              of another shape, and a CampaignRecipient row each.        *)
(* The handler of campaign.worker.ts takes all of them. A broadcast to a   *)
(* small audience is sent by the API process itself ("inline").            *)
(*                                                                         *)
(* Bounds: one call at a time, one campaign dispatched MaxDispatches times, *)
(* one event and one broadcast job for each contact.                       *)
(***************************************************************************)
EXTENDS BullQueue, FiniteSets, Functions

CONSTANTS Contact,
          Attempts,       \* the attempts option of a job, by its kind
          BatchSize,      \* MESSAGE_BATCH_SIZE: a larger broadcast is queued
          AudienceLimit,  \* campaignAudienceLimit of the tenant's plan
          Fickle,         \* the contacts who opt out and in, a subset of Contact
          Calls,          \* the callers that take part: a subset of Kind
          MaxDispatches,  \* bound on what one contact gets of the campaign
          MaxFaults

Kind == {"campaign", "event", "broadcast"}

JobId == Contact \X Kind

\* Whoever hands a message to MessagingService.send: a job, or the loop of an
\* inline broadcast.
Sender == Contact \X (Kind \cup {"inline"})

\* The provider's id of a message: the n-th one accepted from a sender.
MessageId == Sender \X Nat

ASSUME CampaignAssumption ==
  /\ None \notin Contact \cup JobId \cup MessageId
  /\ IsFiniteSet(Contact) /\ IsFiniteSet(Slot)
  /\ Attempts \in [Kind -> Nat]
  /\ Calls \subseteq Kind /\ Fickle \subseteq Contact
  /\ BatchSize \in Nat /\ AudienceLimit \in Nat
  /\ MaxDispatches \in Nat /\ MaxFaults \in Nat

VARIABLES
  job,        \* the queue
  slot,       \* what each concurrency slot of the campaign workers is doing
  request,    \* the call in progress in the API process
  recipient,  \* status of the CampaignRecipient row of each contact
  unsub,      \* contacts with Contact.unsubscribed
  accepted,   \* copies a provider accepted, by sender
  copies,     \* history: how many of them the queue's jobs sent
  billed,     \* increments of the tenant's usage counter
  logged,     \* providerMessageIds with a MessageLog row: the column is unique
  dlq,        \* job ids in the dead letter queue
  dying,      \* jobs whose failed listener is still to run
  added,      \* history: how often the queue took a job as new
  faults      \* history: how many faults have happened

queueVars == <<job, added>>
sendVars == <<accepted, copies, billed, logged>>
deadVars == <<dlq, dying>>
apiVars == <<request, recipient, unsub>>
vars == <<job, slot, request, recipient, unsub, accepted, copies, billed, logged, dlq,
          dying, added, faults>>

Step == {"idle", "check", "plan", "send", "svclog", "bill", "log", "complete", "throw"}

Handler == [at : Step, job : JobId \cup {None}, id : MessageId \cup {None}]

Idle == [at |-> "idle", job |-> None, id |-> None]

Call == [mode : {"none", "inline"} \cup Kind,
         at : {"start", "queue", "send", "log", "mark"},
         todo : SUBSET Contact,
         cur : Contact \cup {None},
         ok : BOOLEAN]

NoCall == [mode |-> "none", at |-> "start", todo |-> {}, cur |-> None, ok |-> FALSE]

Fault == faults < MaxFaults /\ faults' = faults + 1

Init ==
  /\ job = [j \in JobId |-> NoJob]
  /\ slot = [w \in Slot |-> Idle]
  /\ request = NoCall
  /\ recipient = [c \in Contact |-> "none"]
  /\ unsub = {}
  /\ accepted = [s \in Sender |-> 0]
  /\ copies = 0 /\ billed = 0
  /\ logged = {}
  /\ dlq = {} /\ dying = {}
  /\ added = [j \in JobId |-> 0]
  /\ faults = 0

-----------------------------------------------------------------------------
(* The callers. *)

\* queue.add for a set of jobs: an id that Redis still knows is left alone.
Enqueue(J) ==
  /\ job' = [j \in JobId |-> IF j \in J THEN Added(job[j]) ELSE job[j]]
  /\ added' = [j \in JobId |-> IF j \in J /\ job[j].st = "none" THEN added[j] + 1 ELSE added[j]]

\* dispatchCampaign counts its audience against the plan's limit and loads it
\* in a later call.
BeginCampaign(segment) ==
  /\ request = NoCall /\ "campaign" \in Calls
  /\ \A c \in segment : added[<<c, "campaign">>] < MaxDispatches
  /\ segment \ unsub # {} /\ Cardinality(segment \ unsub) <= AudienceLimit
  /\ request' = [NoCall EXCEPT !.mode = "campaign", !.todo = segment]
  /\ UNCHANGED <<queueVars, slot, recipient, unsub, sendVars, deadVars, faults>>

ResolveAudience ==
  /\ request.mode = "campaign" /\ request.at = "start"
  /\ request' = [request EXCEPT !.at = "queue", !.todo = @ \ unsub]
  /\ UNCHANGED <<queueVars, slot, recipient, unsub, sendVars, deadVars, faults>>

\* addBulk: all jobs in one transaction.
AddBulk ==
  /\ request.mode = "campaign" /\ request.at = "queue"
  /\ Enqueue(request.todo \X {"campaign"})
  /\ request' = NoCall
  /\ UNCHANGED <<slot, recipient, unsub, sendVars, deadVars, faults>>

\* broadcastAction addresses all participants of an event it can reach, opted
\* out or not.
BeginEventBroadcast(participants) ==
  /\ request = NoCall /\ "event" \in Calls
  /\ participants # {} /\ \A c \in participants : added[<<c, "event">>] = 0
  /\ request' = [NoCall EXCEPT !.mode = "event", !.at = "queue", !.todo = participants]
  /\ UNCHANGED <<queueVars, slot, recipient, unsub, sendVars, deadVars, faults>>

\* sendBroadcast writes a pending row for every contact of its audience.
BeginBroadcast(audience) ==
  /\ request = NoCall /\ "broadcast" \in Calls
  /\ audience # {} /\ audience \cap unsub = {}
  /\ \A c \in audience : recipient[c] = "none"
  /\ recipient' = [c \in Contact |-> IF c \in audience THEN "pending" ELSE recipient[c]]
  /\ request' = IF Cardinality(audience) > BatchSize
                THEN [NoCall EXCEPT !.mode = "broadcast", !.at = "queue", !.todo = audience]
                ELSE [NoCall EXCEPT !.mode = "inline", !.at = "send", !.todo = audience]
  /\ UNCHANGED <<queueVars, slot, unsub, sendVars, deadVars, faults>>

\* One queue.add after the other.
AddOne(c) ==
  /\ request.mode \in {"event", "broadcast"} /\ c \in request.todo
  /\ Enqueue({<<c, request.mode>>})
  /\ request' = [request EXCEPT !.todo = @ \ {c}]
  /\ UNCHANGED <<slot, recipient, unsub, sendVars, deadVars, faults>>

\* The loop over the audience is over.
EndCall ==
  /\ request.mode \in {"event", "broadcast", "inline"}
  /\ request.todo = {} /\ request.cur = None
  /\ request' = NoCall
  /\ UNCHANGED <<queueVars, slot, recipient, unsub, sendVars, deadVars, faults>>

\* The inline loop: send, log, mark the row. It asks neither the plan nor,
\* again, whether the contact has opted out, and counts no usage.
SendInline(c, ok) ==
  /\ request.mode = "inline" /\ request.at = "send" /\ c \in request.todo
  /\ accepted' = IF ok THEN [accepted EXCEPT ![<<c, "inline">>] = @ + 1] ELSE accepted
  /\ request' = [request EXCEPT !.at = IF ok THEN "log" ELSE "mark",
                                !.todo = @ \ {c}, !.cur = c, !.ok = ok]
  /\ UNCHANGED <<queueVars, slot, recipient, unsub, copies, billed, logged, deadVars, faults>>

LogInline ==
  /\ request.at = "log"
  /\ \E id \in {None, <<<<request.cur, "inline">>, accepted[<<request.cur, "inline">>]>>} :
       logged' = logged \cup ({id} \ {None})
  /\ request' = [request EXCEPT !.at = "mark"]
  /\ UNCHANGED <<queueVars, slot, recipient, unsub, accepted, copies, billed, deadVars, faults>>

\* Variant of MarkInline that does not look at what the provider said.
MarkInlineSent ==
  /\ request.at = "mark"
  /\ recipient' = [recipient EXCEPT ![request.cur] = "sent"]
  /\ request' = [request EXCEPT !.at = "send", !.cur = None]
  /\ UNCHANGED <<queueVars, slot, unsub, sendVars, deadVars, faults>>

MarkInline ==
  /\ request.at = "mark"
  /\ recipient' = [recipient EXCEPT ![request.cur] = IF request.ok THEN "sent" ELSE "failed"]
  /\ request' = [request EXCEPT !.at = "send", !.cur = None]
  /\ UNCHANGED <<queueVars, slot, unsub, sendVars, deadVars, faults>>

\* Something throws between the send and the update: the row is marked failed.
InlineError ==
  /\ request.at \in {"log", "mark"}
  /\ Fault
  /\ request' = [request EXCEPT !.at = "mark", !.ok = FALSE]
  /\ UNCHANGED <<queueVars, slot, recipient, unsub, sendVars, deadVars>>

\* The API process dies, or a call to Redis or the database fails.
CallDies ==
  /\ request.mode # "none"
  /\ Fault
  /\ request' = NoCall
  /\ UNCHANGED <<queueVars, slot, recipient, unsub, sendVars, deadVars>>

\* Opt-out and opt-in as far as the contact goes.
OptOut(c) ==
  /\ c \notin unsub
  /\ unsub' = unsub \cup {c}
  /\ UNCHANGED <<queueVars, slot, request, recipient, sendVars, deadVars, faults>>

OptIn(c) ==
  /\ c \in unsub
  /\ unsub' = unsub \ {c}
  /\ UNCHANGED <<queueVars, slot, request, recipient, sendVars, deadVars, faults>>

-----------------------------------------------------------------------------
(* The handler of campaign.worker.ts. *)

Take(w, j) ==
  /\ slot[w].at = "idle"
  /\ Startable(job[j])
  /\ job' = [job EXCEPT ![j] = Started(@, w)]
  /\ slot' = [slot EXCEPT ![w] = [Idle EXCEPT !.at = "check", !.job = j]]
  /\ UNCHANGED <<added, apiVars, sendVars, deadVars, faults>>

\* The handler of w moves on to another step and changes nothing else.
Goto(w, next) ==
  /\ slot' = [slot EXCEPT ![w].at = next]
  /\ UNCHANGED <<queueVars, apiVars, sendVars, deadVars, faults>>

\* Variant of Check that does not look at the contact.
CheckRecipient(w) ==
  /\ slot[w].at = "check"
  /\ Goto(w, IF slot[w].job[2] = "broadcast" THEN "complete" ELSE "plan")

\* A job without a recipient is skipped: the jobs of sendBroadcast carry the
\* number as "to". So is a contact that has opted out, or is gone.
Check(w) ==
  /\ slot[w].at = "check"
  /\ IF slot[w].job[2] = "broadcast" \/ slot[w].job[1] \in unsub
     THEN Goto(w, "complete")
     ELSE Goto(w, "plan")

\* checkEligibility: the tenant's subscription, plan and trial limit.
CheckPlan(w, allowed) ==
  /\ slot[w].at = "plan"
  /\ Goto(w, IF allowed THEN "send" ELSE "complete")

\* MessagingService.send. Twilio names every message it accepts; Termii may
\* answer without a messageId.
SendAccepted(w) ==
  LET j == slot[w].job IN
  /\ slot[w].at = "send"
  /\ accepted' = [accepted EXCEPT ![j] = @ + 1]
  /\ copies' = copies + 1
  /\ \E id \in {None, <<j, accepted[j] + 1>>} :
       slot' = [slot EXCEPT ![w].at = "svclog", ![w].id = id]
  /\ UNCHANGED <<queueVars, apiVars, billed, logged, deadVars, faults>>

\* Variant of SendRefused that goes on as if the message had been accepted.
RefusalBilled(w) == slot[w].at = "send" /\ Goto(w, "bill")

\* Whatever the reason, a rate limit or not, the handler throws.
SendRefused(w) == slot[w].at = "send" /\ Goto(w, "throw")

\* A messageLog.create: an id that is there already violates the unique index.
InsertLog(w, next) ==
  LET id == slot[w].id IN
  /\ logged' = logged \cup ({id} \ {None})
  /\ slot' = [slot EXCEPT ![w].at = IF id \in logged THEN "throw" ELSE next]
  /\ UNCHANGED <<queueVars, apiVars, accepted, copies, billed, deadVars, faults>>

\* Variant of ServiceLog that records the job for the message.
ServiceLogJob(w) ==
  /\ slot[w].at = "svclog"
  /\ logged' = logged \cup {slot[w].job}
  /\ slot' = [slot EXCEPT ![w].at = "bill"]
  /\ UNCHANGED <<queueVars, apiVars, accepted, copies, billed, deadVars, faults>>

\* The row MessagingService writes, not being told to suppress it ...
ServiceLog(w) == slot[w].at = "svclog" /\ InsertLog(w, "bill")

IncrementUsage(w) ==
  /\ slot[w].at = "bill"
  /\ billed' = billed + 1
  /\ slot' = [slot EXCEPT ![w].at = "log"]
  /\ UNCHANGED <<queueVars, apiVars, accepted, copies, logged, deadVars, faults>>

\* ... and the one the worker writes. No job that gets here names a
\* CampaignRecipient row, so nothing follows.
WorkerLog(w) == slot[w].at = "log" /\ InsertLog(w, "complete")

\* Variant of Complete that keeps the slot when the lock is gone.
CompleteOwned(w) ==
  LET j == slot[w].job IN
  /\ slot[w].at = "complete" /\ job[j].owner = w
  /\ job' = [job EXCEPT ![j] = Completed(@)]
  /\ slot' = [slot EXCEPT ![w] = Idle]
  /\ UNCHANGED <<added, apiVars, sendVars, deadVars, faults>>

Complete(w) ==
  LET j == slot[w].job IN
  /\ slot[w].at = "complete"
  /\ job' = IF job[j].owner = w THEN [job EXCEPT ![j] = Completed(@)] ELSE job
  /\ slot' = [slot EXCEPT ![w] = Idle]
  /\ UNCHANGED <<added, apiVars, sendVars, deadVars, faults>>

\* The processor threw, with room for extra attempts in the variant below.
Rejected(w, extra) ==
  LET j == slot[w].job
      owns == job[j].owner = w
      attempts == Attempts[j[2]] + extra
  IN /\ slot[w].at = "throw"
     /\ job' = IF owns THEN [job EXCEPT ![j] = Failed(@, attempts)] ELSE job
     /\ dying' = IF owns /\ ~Retries(job[j], attempts) THEN dying \cup {j} ELSE dying
     /\ slot' = [slot EXCEPT ![w] = Idle]
     /\ UNCHANGED <<added, apiVars, sendVars, dlq, faults>>

\* Variants of Throw: one attempt too many; a failure nobody listens to.
ThrowOnceMore(w) == Rejected(w, 1)

ThrowUnheard(w) ==
  LET j == slot[w].job IN
  /\ slot[w].at = "throw"
  /\ job' = IF job[j].owner = w THEN [job EXCEPT ![j] = Failed(@, Attempts[j[2]])] ELSE job
  /\ slot' = [slot EXCEPT ![w] = Idle]
  /\ UNCHANGED <<added, apiVars, sendVars, deadVars, faults>>

Throw(w) == Rejected(w, 0)

\* A database call of the handler throws.
HandlerError(w) ==
  /\ slot[w].at \notin {"idle", "complete", "throw"}
  /\ Fault
  /\ slot' = [slot EXCEPT ![w].at = "throw"]
  /\ UNCHANGED <<queueVars, apiVars, sendVars, deadVars>>

\* The worker dies.
Crash(w) ==
  /\ slot[w].at # "idle"
  /\ Fault
  /\ slot' = [slot EXCEPT ![w] = Idle]
  /\ UNCHANGED <<queueVars, apiVars, sendVars, deadVars>>

-----------------------------------------------------------------------------
(* The queue's own steps and the failed listener. *)

SetJob(j, x) ==
  /\ job' = [job EXCEPT ![j] = x]
  /\ UNCHANGED <<added, slot, apiVars, sendVars>>

\* The lock of a dead worker expires.
ExpireLock(j) ==
  /\ job[j].owner # None
  /\ slot[job[j].owner].job # j
  /\ SetJob(j, Unlocked(job[j]))
  /\ UNCHANGED <<deadVars, faults>>

\* A live worker cannot renew its lock in time and works on.
LoseLock(j) ==
  /\ job[j].owner # None
  /\ slot[job[j].owner].job = j
  /\ Fault
  /\ SetJob(j, Unlocked(job[j]))
  /\ UNCHANGED deadVars

RecoverStalled(j) ==
  /\ Stalled(job[j])
  /\ SetJob(j, Recovered(job[j]))
  /\ UNCHANGED <<deadVars, faults>>

\* Failed for stalling too often; the listener counts attempts.
Bury(j) ==
  /\ GivenUp(job[j])
  /\ SetJob(j, Buried(job[j]))
  /\ dying' = IF job[j].made + 1 >= Attempts[j[2]] THEN dying \cup {j} ELSE dying
  /\ UNCHANGED <<dlq, faults>>

\* removeOnComplete and removeOnFail: a campaign keeps a hundred completed and
\* fifty failed jobs, a broadcast its last completed ones.
Forget(j) ==
  /\ \/ j[2] = "campaign" /\ job[j].st \in {"completed", "failed"}
     \/ j[2] = "broadcast" /\ job[j].st = "completed"
  /\ SetJob(j, NoJob)
  /\ UNCHANGED <<deadVars, faults>>

DeadLetter(j) ==
  /\ j \in dying
  /\ dlq' = dlq \cup {j}
  /\ dying' = dying \ {j}
  /\ UNCHANGED <<queueVars, slot, apiVars, sendVars, faults>>

ListenerDies(j) ==
  /\ j \in dying
  /\ Fault
  /\ dying' = dying \ {j}
  /\ UNCHANGED <<queueVars, slot, apiVars, sendVars, dlq>>

-----------------------------------------------------------------------------

Handle(w) ==
  \/ Check(w) \/ (\E allowed \in BOOLEAN : CheckPlan(w, allowed))
  \/ SendAccepted(w) \/ SendRefused(w)
  \/ ServiceLog(w) \/ IncrementUsage(w) \/ WorkerLog(w)
  \/ Complete(w) \/ Throw(w)

Serve ==
  \/ ResolveAudience \/ AddBulk \/ EndCall
  \/ \E c \in Contact : AddOne(c) \/ (\E ok \in BOOLEAN : SendInline(c, ok))
  \/ LogInline \/ MarkInline

Next ==
  \/ \E S \in SUBSET Contact :
       BeginCampaign(S) \/ BeginEventBroadcast(S) \/ BeginBroadcast(S)
  \/ Serve \/ InlineError \/ CallDies
  \/ \E c \in Fickle : OptOut(c) \/ OptIn(c)
  \/ \E w \in Slot :
       Handle(w) \/ HandlerError(w) \/ Crash(w) \/ (\E j \in JobId : Take(w, j))
  \/ \E j \in JobId :
       \/ ExpireLock(j) \/ LoseLock(j) \/ RecoverStalled(j) \/ Bury(j) \/ Forget(j)
       \/ DeadLetter(j) \/ ListenerDies(j)

Spec == Init /\ [][Next]_vars

(* The workers, BullMQ's timers, the listener and a call in progress go on.   *)
(* Jobs compete for slots. Nobody has to start a call, and opting out or in   *)
(* is up to the contacts.                                                     *)
Fairness ==
  /\ WF_vars(Serve)
  /\ \A w \in Slot : WF_vars(Handle(w))
  /\ \A j \in JobId :
       /\ SF_vars(\E w \in Slot : Take(w, j))
       /\ WF_vars(ExpireLock(j)) /\ WF_vars(RecoverStalled(j)) /\ WF_vars(Bury(j))
       /\ WF_vars(DeadLetter(j))

FairSpec == Spec /\ Fairness

-----------------------------------------------------------------------------
(* Properties. *)

TypeOK ==
  /\ job \in [JobId -> Job]
  /\ slot \in [Slot -> Handler]
  /\ request \in Call
  /\ recipient \in [Contact -> {"none", "pending", "sent", "failed"}]
  /\ unsub \subseteq Contact
  /\ accepted \in [Sender -> Nat]
  /\ copies \in Nat /\ billed \in Nat
  /\ logged \subseteq MessageId
  /\ dlq \subseteq JobId /\ dying \subseteq JobId
  /\ added \in [JobId -> Nat]
  /\ faults \in 0..MaxFaults

\* The runs a job has: its attempts, and one even when the option is 0.
RunsOf(j) == IF Attempts[j[2]] = 0 THEN 1 ELSE Attempts[j[2]]

\* A contact gets no more copies from a job than the job has attempts, each time
\* the queue takes it as new, and one for each fault: dispatching the campaign
\* again while Redis knows the job changes nothing.
CopiesWithinAttempts ==
  \A j \in JobId : accepted[j] <= added[j] * RunsOf(j) + faults

\* The usage counter follows the copies the workers got accepted: behind by the
\* handlers about to count and by faults, ahead never.
UsageFollowsSends ==
  /\ billed <= copies
  /\ copies <= billed + faults
       + Cardinality({w \in Slot : slot[w].at \in {"svclog", "bill"}})

\* A row that reads "sent" is one of an accepted message; one that reads "failed"
\* is not, as long as nothing has failed since the send.
RecipientTellsTruth ==
  \A c \in Contact :
    /\ recipient[c] = "sent" => accepted[<<c, "inline">>] > 0
    /\ (recipient[c] = "failed" /\ faults = 0) => accepted[<<c, "inline">>] = 0

\* A handler past its checks is at work on a message to the contact.
Underway(c) ==
  \E w \in Slot : slot[w].job # None /\ slot[w].job[1] = c
                  /\ slot[w].at \in {"plan", "send", "svclog", "bill", "log"}

\* Once a contact has opted out and no handler is past its checks, nothing in the
\* queue and no retry reaches the contact, until it opts in again.
OptOutSilences ==
  [][\A c \in Contact :
       (c \in unsub /\ c \in unsub' /\ ~Underway(c)) =>
         /\ ~Underway(c)'
         /\ \A k \in Kind : accepted'[<<c, k>>] = accepted[<<c, k>>]]_vars

\* A job that has failed for good is in the dead letter queue, or on its way,
\* unless a fault took the entry.
FailedIsParked ==
  faults = 0 => \A j \in JobId : job[j].st = "failed" => j \in dlq \cup dying

\* Every job comes to an end.
JobsEnd == \A j \in JobId : job[j].st = "waiting" ~> job[j].st \in {"none", "completed", "failed"}

(* What comments of the code say and the code does not do. *)

\* "Callers that write their own MessageLog row (the reminder worker) pass true.
\* providerMessageId is UNIQUE, so a second row for the same send fails the insert
\* outright" (messaging.service.ts): the worker writes no row for a message that
\* has one.
OneRowPerMessage == \A w \in Slot : slot[w].at = "log" => slot[w].id \notin logged

\* "broadcast jobs and campaign jobs share the same Redis queue, processed by the
\* campaign worker", with campaignRecipientId "for status tracking"
\* (messageQueue.ts): a broadcast job that has completed has settled its row, as
\* long as nothing has failed and the contact has not opted out.
BroadcastIsProcessed ==
  \A c \in Contact :
    (job[<<c, "broadcast">>].st = "completed" /\ faults = 0 /\ c \notin unsub)
      => recipient[c] # "pending"
=============================================================================
