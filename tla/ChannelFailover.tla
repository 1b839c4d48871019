--------------------------- MODULE ChannelFailover ---------------------------
(***************************************************************************)
(* What happens to a reminder after it is sent: the status callbacks of    *)
(* the provider (TwilioWebhookController.handleSmsStatus), the fallback to *)
(* the next channel (MessageFailoverService), the check for unread         *)
(* WhatsApp messages and the failover of an exhausted job (reminder.worker)*)
(* of one tenant, whose plan says whether calls are included.              *)
(*                                                                         *)
(* A message accepted by the provider is a copy, and its number stands for *)
(* the provider's id. Callbacks travel in flight and arrive in any order,  *)
(* also before the sender has written its MessageLog row.                  *)
(*                                                                         *)
(* Customers are reached by phone and served by Twilio. FailoverLog is     *)
(* left out, nothing of this reads it; so is the row of a call that only   *)
(* the mock sender saw. The retries of the reminder job are in             *)
(* ReminderDelivery: here its handler may start over, or give up.          *)
(*                                                                         *)
(* Bounds: the addressees and the settings, in setup, one of Setups;       *)
(* faults, in budget.                                                      *)
(***************************************************************************)
EXTENDS TenantBilling, Sequences

CONSTANTS Person,
          Stranger,    \* another customer of the tenant
          Line,        \* status callbacks being handled at once
          Reporting,   \* channels whose provider calls back
          Setups

Channel == {"SMS", "WHATSAPP", "VOICE", "EMAIL"}

\* A ChannelStrategy row.
Strategy == [chain : Seq(Channel), active : BOOLEAN, onFailed : BOOLEAN, onUnread : BOOLEAN]

Failing == {"failed", "undelivered"}

\* The reminder's channel and addressees, the strategy of its rule, the
\* default strategy of the tenant, failoverChain if failover is on (sets of at
\* most one). Bounds: failures, the ways in which messages fail, and settled, how
\* many of them get beyond "sent".
Setup == [primary : {"SMS", "WHATSAPP"}, people : Seq(Person), event : BOOLEAN,
          failures : SUBSET Failing, settled : Nat, rule : SUBSET Strategy, default : SUBSET Strategy, legacy : SUBSET Seq(Channel)]

AtMostOne(S) == \A x, y \in S : x = y

ASSUME FailoverAssumption ==
  /\ Stranger \notin Person /\ IsFiniteSet(Line)
  /\ Reporting \subseteq {"SMS", "WHATSAPP"}
  /\ Setups \subseteq Setup
  /\ \A s \in Setups : AtMostOne(s.rule) /\ AtMostOne(s.default) /\ AtMostOne(s.legacy)

VARIABLES
  setup,
  worker,     \* the handler of the reminder's job
  reminder,   \* Reminder.status
  copy,       \* messages the provider accepted, and their fate
  row,        \* MessageLog rows, in the order they were written
  flight,     \* callbacks on their way
  line,       \* callbacks being handled
  check,      \* the job unread-check-<reminder>
  heard,      \* history: copies whose failure report was handled to its end
  tried,      \* history: copies for which a fallback was tried, or there was none
  early,      \* history: copies whose failure report came before the row
  overrun,    \* history: copies whose row lost "failed" or "read" to a late report
  readIn      \* history: copies whose "read" report reached the row

failoverHistory == <<heard, tried, early, overrun, readIn>>
failoverVars == <<setup, worker, reminder, copy, row, flight, line, check, failoverHistory>>

Fate == {"sent", "delivered", "read"} \cup Failing

Copy == [to : Person \cup {Stranger}, channel : Channel,
         by : {"handler", "callback", "exhausted", "unread"}, after : Nat, fate : Fate]

Report == [of : Nat, status : Fate]

Worker == [at : {"send", "log", "schedule", "choose", "escalate", "logFailover", "done"},
           left : Seq(Person), last : Nat, channel : Channel]

Callback == [at : {"idle", "update", "deliver", "detect", "choose", "send", "log"},
             of : Nat, status : Fate, channel : Channel, last : Nat]

NoLine == [at |-> "idle", of |-> 0, status |-> "sent", channel |-> "SMS", last |-> 0]

Check == [at : {"none", "waiting", "plan", "send", "log", "done"},
          to : Person \cup {Stranger}, chain : Seq(Channel), known : SUBSET Nat, last : Nat]

NoCheck == [at |-> "none", to |-> Stranger, chain |-> << >>, known |-> {}, last |-> 0]

Beginning == [at |-> "send", left |-> setup.people, last |-> 0, channel |-> setup.primary]

FailoverInit ==
  /\ setup \in Setups
  /\ worker = [Beginning EXCEPT !.at = IF setup.people = << >> THEN "done" ELSE "send"]
  /\ reminder = "PENDING"
  /\ copy = << >> /\ row = << >> /\ flight = {}
  /\ line = [l \in Line |-> NoLine]
  /\ check = NoCheck
  /\ heard = {} /\ tried = {} /\ early = {} /\ overrun = {} /\ readIn = {}

-----------------------------------------------------------------------------
(* Chains and rows. *)

\* Variant of NextIn that stays where it is.
NextInSame(chain, channel) == {chain[i] : i \in {j \in 1..(Len(chain) - 1) : chain[j] = channel}}

\* chain[indexOf(channel) + 1], if there is one: a set of at most one.
NextIn(chain, channel) ==
  {chain[i + 1] : i \in {j \in 1..(Len(chain) - 1) :
                           chain[j] = channel /\ \A k \in 1..(j - 1) : chain[k] # channel}}

\* resolveChain of the service, for the trigger "failed", the only one it gets.
ServiceChains ==
  LET ruled == {x \in setup.rule : x.active}
      found == IF ruled # {} THEN ruled ELSE setup.default
  IN  IF found # {} THEN {x.chain : x \in {y \in found : y.onFailed}} ELSE setup.legacy

\* resolveStrategy of the worker: by id it does not ask whether it is active.
WorkerStrategy == IF setup.rule # {} THEN setup.rule ELSE setup.default

WorkerChains ==
  IF WorkerStrategy # {} THEN {x.chain : x \in {y \in WorkerStrategy : y.onFailed}} ELSE setup.legacy

NextOf(chains, channel) == UNION {NextIn(chain, channel) : chain \in chains}

\* Calls are not in the plan SMS.
InPlan(channel) == channel = "VOICE" => tenant.plan # "SMS"

Accept(p, channel, by, after) ==
  copy' = Append(copy, [to |-> p, channel |-> channel, by |-> by, after |-> after, fate |-> "sent"])

WriteRow(c) == row' = Append(row, [of |-> c, status |-> "sent"])

RowsOf(c) == {i \in DOMAIN row : row[i].of = c}

\* findFirst by reminder and channel, newest first.
Newest(channel) ==
  {i \in DOMAIN row : /\ copy[row[i].of].channel = channel
                      /\ \A j \in DOMAIN row : j > i => copy[row[j].of].channel # channel}

Handling == UNCHANGED <<setup, line, failoverHistory>>

-----------------------------------------------------------------------------
(* The handler of the reminder's job. *)

SendPrimary ==
  /\ worker.at = "send" /\ worker.left # << >>
  /\ Accept(Head(worker.left), setup.primary, "handler", 0)
  /\ worker' = [worker EXCEPT !.at = "log", !.last = Len(copy) + 1]
  /\ UNCHANGED <<reminder, row, flight, check, billingVars>> /\ Handling

SendPrimaryRefused ==
  /\ worker.at = "send" /\ worker.left # << >>
  /\ worker' = [worker EXCEPT !.left = Tail(@)]
  /\ UNCHANGED <<reminder, copy, row, flight, check, billingVars>> /\ Handling

LogPrimary ==
  /\ worker.at = "log"
  /\ WriteRow(worker.last)
  /\ worker' = IF setup.primary = "WHATSAPP" THEN [worker EXCEPT !.at = "schedule"]
               ELSE [worker EXCEPT !.at = "send", !.left = Tail(@)]
  /\ UNCHANGED <<reminder, copy, flight, check, billingVars>> /\ Handling

\* scheduleUnreadCheck: one job id for the reminder, so the first addressee has
\* the check, and queue.add does nothing for the others.
ScheduleCheck ==
  /\ worker.at = "schedule"
  /\ worker' = [worker EXCEPT !.at = "send", !.left = Tail(@)]
  /\ \/ /\ check.at = "none"
        /\ \E x \in WorkerStrategy :
             /\ x.onUnread /\ NextIn(x.chain, "WHATSAPP") # {}
             /\ check' = [check EXCEPT !.at = "waiting", !.to = Head(worker.left), !.chain = x.chain]
     \/ /\ \/ check.at # "none"
           \/ \A x \in WorkerStrategy : ~x.onUnread \/ NextIn(x.chain, "WHATSAPP") = {}
        /\ UNCHANGED check
  /\ UNCHANGED <<reminder, copy, row, flight, billingVars>> /\ Handling

EndHandler ==
  /\ worker.at = "send" /\ worker.left = << >>
  /\ reminder' = IF worker.last # 0 THEN "SENT" ELSE "FAILED"
  /\ worker' = [worker EXCEPT !.at = "done"]
  /\ UNCHANGED <<copy, row, flight, check, billingVars>> /\ Handling

\* The process dies, or a call throws: the job is handed out again, and does
\* nothing if a callback has changed the row in the meantime.
HandlerStartsOver ==
  /\ worker.at \in {"send", "log", "schedule"}
  /\ BillingFault
  /\ worker' = IF reminder = "PENDING" THEN Beginning ELSE [worker EXCEPT !.at = "done"]
  /\ UNCHANGED <<reminder, copy, row, flight, check, tenant, hookVars, sweep, overtaken, resets>>
  /\ Handling

\* Every attempt failed before anything was sent: the failed listener.
HandlerGivesUp ==
  /\ worker.at = "send" /\ worker.left = setup.people /\ worker.last = 0
  /\ BillingFault
  /\ worker' = [worker EXCEPT !.at = "choose"]
  /\ reminder' = "FAILED"
  /\ UNCHANGED <<copy, row, flight, check, tenant, hookVars, sweep, overtaken, resets>>
  /\ Handling

\* triggerFailover down to the plan, then its send: an event's reminder has no
\* customer to send to, and performSend looks up the customer's e-mail address.
ChooseFailover ==
  /\ worker.at = "choose"
  /\ LET next == {x \in NextOf(WorkerChains, setup.primary) : InPlan(x)}
     IN  worker' = IF next = {} \/ setup.event THEN [worker EXCEPT !.at = "done"]
                   ELSE [worker EXCEPT !.at = "escalate", !.channel = CHOOSE x \in next : TRUE]
  /\ UNCHANGED <<reminder, copy, row, flight, check, billingVars>> /\ Handling

\* Variant of Escalate whose log entry does not get the id of its message.
EscalateUnlogged ==
  /\ worker.at = "escalate"
  /\ Accept(Head(setup.people), worker.channel, "exhausted", 0)
  /\ worker' = [worker EXCEPT !.at = "logFailover"]
  /\ UNCHANGED <<reminder, row, flight, check, billingVars>> /\ Handling

Escalate ==
  /\ worker.at = "escalate"
  /\ Accept(Head(setup.people), worker.channel, "exhausted", 0)
  /\ worker' = [worker EXCEPT !.at = "logFailover", !.last = Len(copy) + 1]
  /\ UNCHANGED <<reminder, row, flight, check, billingVars>> /\ Handling

EscalateRefused ==
  /\ worker.at = "escalate"
  /\ worker' = [worker EXCEPT !.at = "done"]
  /\ UNCHANGED <<reminder, copy, row, flight, check, billingVars>> /\ Handling

LogFailover ==
  /\ worker.at = "logFailover"
  /\ WriteRow(worker.last)
  /\ worker' = [worker EXCEPT !.at = "done"]
  /\ UNCHANGED <<reminder, copy, flight, check, billingVars>> /\ Handling

HandlerStep ==
  \/ SendPrimary \/ SendPrimaryRefused \/ LogPrimary \/ ScheduleCheck \/ EndHandler
  \/ HandlerStartsOver \/ HandlerGivesUp
  \/ ChooseFailover \/ Escalate \/ EscalateRefused \/ LogFailover

-----------------------------------------------------------------------------
(* The provider, the customer's phone, and the callbacks. *)

Becomes(c, fate) ==
  /\ copy' = [copy EXCEPT ![c].fate = fate]
  /\ flight' = flight \cup {[of |-> c, status |-> x] : x \in {fate} \cup ({"sent"} \cap {copy[c].fate})}
  /\ UNCHANGED <<setup, worker, reminder, row, line, check, failoverHistory, billingVars>>

\* Delivered, or not, and read: for good. The report "sent" goes out with the
\* next one: on its own it changes no row.
ProviderReports(c) ==
  /\ copy[c].channel \in Reporting
  /\ copy[c].fate # "sent" \/ Cardinality({d \in DOMAIN copy : copy[d].fate # "sent"}) < setup.settled
  /\ \/ copy[c].fate = "sent" /\ \E fate \in {"delivered"} \cup setup.failures : Becomes(c, fate)
     \/ copy[c].fate = "delivered" /\ copy[c].channel = "WHATSAPP" /\ Becomes(c, "read")

\* Idle lines are alike: one of them takes the callback.
Receive(l, x) ==
  /\ line[l].at = "idle" /\ l = CHOOSE m \in Line : line[m].at = "idle"
  /\ line' = [line EXCEPT ![l] = [NoLine EXCEPT !.at = "update", !.of = x.of, !.status = x.status]]
  /\ UNCHANGED <<setup, worker, reminder, copy, row, check, failoverHistory>>

\* A callback, which is posted again when its answer is lost.
ReceiveReport(l) ==
  \E x \in flight :
    /\ Receive(l, x)
    /\ \/ flight' = flight \ {x} /\ UNCHANGED billingVars
       \/ flight' = flight /\ BillingFault /\ UNCHANGED <<tenant, hookVars, sweep, overtaken, resets>>

\* What a later report takes from a row.
Precious == Failing \cup {"read"}

\* updateMany by the provider's id: the last callback to arrive wins.
UpdateRow(l) ==
  LET c == line[l].of
      s == line[l].status
  IN
  /\ line[l].at = "update"
  /\ row' = [i \in DOMAIN row |-> IF i \in RowsOf(c) THEN [row[i] EXCEPT !.status = s] ELSE row[i]]
  /\ line' = IF s = "delivered" THEN [line EXCEPT ![l].at = "deliver"]
             ELSE IF s \in Failing THEN [line EXCEPT ![l].at = "detect"]
             ELSE [line EXCEPT ![l] = NoLine]
  /\ early' = IF s \in Failing /\ RowsOf(c) = {} THEN early \cup {c} ELSE early
  /\ overrun' = IF \E i \in RowsOf(c) : row[i].status \in Precious \ {s} THEN overrun \cup {c}
                ELSE overrun
  /\ readIn' = IF s = "read" /\ RowsOf(c) # {} THEN readIn \cup {c} ELSE readIn
  /\ UNCHANGED <<setup, worker, reminder, copy, flight, check, heard, tried, billingVars>>

MarkDelivered(l) ==
  /\ line[l].at = "deliver"
  /\ reminder' = IF RowsOf(line[l].of) # {} THEN "DELIVERED" ELSE reminder
  /\ line' = [line EXCEPT ![l] = NoLine]
  /\ UNCHANGED <<setup, worker, copy, row, flight, check, failoverHistory, billingVars>>

\* The handling of a failure report ends.
Hears(l) ==
  /\ line' = [line EXCEPT ![l] = NoLine]
  /\ heard' = heard \cup {line[l].of}

Tries(l) == tried' = tried \cup {line[l].of}

\* Variant of Detect that knows one of the two failures.
DetectFailed(l) ==
  LET c == line[l].of IN
  /\ line[l].at = "detect"
  /\ \/ /\ \E i \in RowsOf(c) : row[i].status = "failed"
        /\ line' = [line EXCEPT ![l].at = "choose", ![l].channel = copy[c].channel]
        /\ UNCHANGED heard
     \/ /\ \A i \in RowsOf(c) : row[i].status # "failed"
        /\ Hears(l)
  /\ UNCHANGED <<setup, worker, reminder, copy, row, flight, check, tried, early, overrun,
                 readIn, billingVars>>

\* detectDeliveryFailure reads the row again.
Detect(l) ==
  LET c == line[l].of IN
  /\ line[l].at = "detect"
  /\ \/ /\ \E i \in RowsOf(c) : row[i].status \in Failing
        /\ line' = [line EXCEPT ![l].at = "choose", ![l].channel = copy[c].channel]
        /\ UNCHANGED heard
     \/ /\ \A i \in RowsOf(c) : row[i].status \notin Failing
        /\ Hears(l)
  /\ UNCHANGED <<setup, worker, reminder, copy, row, flight, check, tried, early, overrun,
                 readIn, billingVars>>

\* triggerFallbackChannel down to its send: no strategy, a blocked trigger, the
\* end of the chain or a plan without calls end it; an event's reminder has no
\* customer; a call has no appointment and goes to the mock sender, an e-mail
\* to the phone number.
NoFallback(l) ==
  /\ line[l].at = "choose"
  /\ \A x \in NextOf(ServiceChains, line[l].channel) :
       ~InPlan(x) \/ setup.event \/ x \in {"VOICE", "EMAIL"}
  /\ Hears(l) /\ Tries(l)
  /\ UNCHANGED <<setup, worker, reminder, copy, row, flight, check, early, overrun, readIn,
                 billingVars>>

\* Variant of ChooseFallback that sends on the channel that has failed.
ChooseSame(l) ==
  /\ line[l].at = "choose"
  /\ \E x \in NextOf(ServiceChains, line[l].channel) :
       /\ InPlan(x) /\ ~setup.event /\ x \notin {"VOICE", "EMAIL"}
       /\ line' = [line EXCEPT ![l].at = "send"]
  /\ UNCHANGED <<setup, worker, reminder, copy, row, flight, check, failoverHistory, billingVars>>

ChooseFallback(l) ==
  /\ line[l].at = "choose"
  /\ \E x \in NextOf(ServiceChains, line[l].channel) :
       /\ InPlan(x) /\ ~setup.event /\ x \notin {"VOICE", "EMAIL"}
       /\ line' = [line EXCEPT ![l].at = "send", ![l].channel = x]
  /\ UNCHANGED <<setup, worker, reminder, copy, row, flight, check, failoverHistory, billingVars>>

SendFallback(l) ==
  /\ line[l].at = "send"
  /\ Accept(Head(setup.people), line[l].channel, "callback", line[l].of)
  /\ line' = [line EXCEPT ![l].at = "log", ![l].last = Len(copy) + 1]
  /\ Tries(l)
  /\ UNCHANGED <<setup, worker, reminder, row, flight, check, heard, early, overrun, readIn, billingVars>>

SendFallbackRefused(l) ==
  /\ line[l].at = "send"
  /\ Hears(l) /\ Tries(l)
  /\ UNCHANGED <<setup, worker, reminder, copy, row, flight, check, early, overrun, readIn,
                 billingVars>>

\* The row MessagingService.send writes for the copy it has just sent.
LogFallback(l) ==
  /\ line[l].at = "log"
  /\ WriteRow(line[l].last)
  /\ Hears(l)
  /\ UNCHANGED <<setup, worker, reminder, copy, flight, check, tried, early, overrun, readIn,
                 billingVars>>

\* A call throws, or the process dies: the report is lost.
LineFails(l) ==
  /\ line[l].at # "idle"
  /\ BillingFault
  /\ line' = [line EXCEPT ![l] = NoLine]
  /\ UNCHANGED <<setup, worker, reminder, copy, row, flight, check, failoverHistory, tenant,
                 hookVars, sweep, overtaken, resets>>

LineStep(l) ==
  \/ ReceiveReport(l) \/ UpdateRow(l) \/ MarkDelivered(l) \/ Detect(l)
  \/ NoFallback(l) \/ ChooseFallback(l) \/ SendFallback(l) \/ SendFallbackRefused(l)
  \/ LogFallback(l) \/ LineFails(l)

-----------------------------------------------------------------------------
(* The job unread-check-<reminder>, after the window: attempts 1. *)

Checking == UNCHANGED <<setup, worker, reminder, line, failoverHistory>>

\* Variant of CheckReads that stops at a delivered message, not at a read one.
CheckReadsDelivered ==
  /\ check.at = "waiting"
  /\ check' = [check EXCEPT !.at = IF \E i \in Newest("WHATSAPP") : row[i].status # "delivered" THEN "plan"
                                   ELSE "done",
                            !.known = readIn]
  /\ UNCHANGED <<copy, row, flight, billingVars>> /\ Checking

\* The newest WhatsApp row of the reminder is looked up, whoever it was sent to.
CheckReads ==
  /\ check.at = "waiting"
  /\ check' = [check EXCEPT !.at = IF \E i \in Newest("WHATSAPP") : row[i].status # "read" THEN "plan"
                                   ELSE "done",
                            !.known = readIn]
  /\ UNCHANGED <<copy, row, flight, billingVars>> /\ Checking

CheckPlan ==
  /\ check.at = "plan"
  /\ check' = [check EXCEPT !.at = IF \E x \in NextIn(check.chain, "WHATSAPP") : InPlan(x) THEN "send"
                                   ELSE "done"]
  /\ UNCHANGED <<copy, row, flight, billingVars>> /\ Checking

\* performSend without an appointment id finds any appointment of the tenant: an
\* e-mail goes to its customer.
CheckSends ==
  /\ check.at = "send"
  /\ \E x \in NextIn(check.chain, "WHATSAPP"), p \in {check.to, Stranger} :
       /\ p = Stranger => x = "EMAIL"
       /\ Accept(p, x, "unread", 0)
  /\ check' = [check EXCEPT !.at = "log", !.last = Len(copy) + 1]
  /\ UNCHANGED <<row, flight, billingVars>> /\ Checking

CheckRefused ==
  /\ check.at = "send"
  /\ check' = [check EXCEPT !.at = "done"]
  /\ UNCHANGED <<copy, row, flight, billingVars>> /\ Checking

CheckLogs ==
  /\ check.at = "log"
  /\ WriteRow(check.last)
  /\ check' = [check EXCEPT !.at = "done"]
  /\ UNCHANGED <<copy, flight, billingVars>> /\ Checking

\* The worker dies: the stalled job is handed out once more. Or a call throws,
\* which ends the job.
CheckFaults ==
  /\ check.at \in {"plan", "send", "log"}
  /\ BillingFault
  /\ \E at \in {"waiting", "done"} : check' = [check EXCEPT !.at = at]
  /\ UNCHANGED <<copy, row, flight, tenant, hookVars, sweep, overtaken, resets>> /\ Checking

CheckStep ==
  CheckReads \/ CheckPlan \/ CheckSends \/ CheckRefused \/ CheckLogs \/ CheckFaults

FailoverStep ==
  \/ HandlerStep
  \/ \E c \in DOMAIN copy : ProviderReports(c)
  \/ \E l \in Line : LineStep(l)
  \/ CheckStep

FailoverNext == FailoverStep \/ (BillingNext /\ UNCHANGED failoverVars)

FailoverSpec == (BillingInit /\ FailoverInit) /\ [][FailoverNext]_<<billingVars, failoverVars>>

-----------------------------------------------------------------------------
\* Every variable keeps its type, and a row is always one of a message that was sent.
FailoverTypeOK ==
  /\ setup \in Setups
  /\ worker \in Worker
  /\ reminder \in {"PENDING", "SENT", "DELIVERED", "FAILED"}
  /\ copy \in Seq(Copy)
  /\ row \in Seq(Report)
  /\ flight \subseteq Report
  /\ line \in [Line -> Callback]
  /\ check \in Check
  /\ heard \cup tried \cup early \cup overrun \cup readIn \subseteq DOMAIN copy
  /\ \A i \in DOMAIN row : row[i].of \in DOMAIN copy

FallbacksOf(c) == {d \in DOMAIN copy : copy[d].by = "callback" /\ copy[d].after = c}

\* When the report of a failure has been handled, the next channel was tried if
\* there is one, unless the report came before the row of its message, or a
\* report of "sent" that came late has taken its place in the row
\* (handleSmsStatus, detectDeliveryFailure). A copy the provider could deliver
\* has no fallback, and each report of a failure, the repeated ones included,
\* causes at most one.
FailureIsAnswered ==
  /\ heard \subseteq tried \cup early \cup overrun
  /\ \A c \in DOMAIN copy :
       /\ Cardinality(FallbacksOf(c)) <= 1 + faults
       /\ FallbacksOf(c) # {} => copy[c].fate \in Failing

\* The message and those it is a fallback of, back to the first.
Lineage(d) ==
  {c \in DOMAIN copy :
     \A S \in SUBSET DOMAIN copy :
       (d \in S /\ \A m \in S : copy[m].by = "callback" => copy[m].after \in S) => c \in S}

NoRepeats(chain) == \A i, j \in DOMAIN chain : chain[i] = chain[j] => i = j

\* Escalation comes to an end: from one message, fallbacks of fallbacks and late
\* or repeated reports make no more messages in a row than the chain has channels,
\* if the chain names none twice (triggerFallbackChannel).
EscalationEnds ==
  \A chain \in ServiceChains \ {<< >>} : NoRepeats(chain) =>
    \A d \in DOMAIN copy : Cardinality(Lineage(d)) <= Len(chain)

\* Messages as they are seen from outside, and which channel may follow which.
Verdict(fate) == IF fate \in Failing THEN "failed" ELSE fate

Messages ==
  [c \in DOMAIN copy |-> [channel |-> copy[c].channel, fate |-> Verdict(copy[c].fate),
                         after |-> IF copy[c].by = "callback" THEN copy[c].after ELSE 0]]

Routes == {r \in Channel \X Channel : r[2] \in NextOf(ServiceChains, r[1])}

Escalation == INSTANCE EscalationContract WITH message <- Messages, route <- Routes

\* Callbacks keep the contract of EscalationContract: a fallback follows a message
\* that failed, on the channel the chain names next, once, and once more for each
\* fault; no other message has one (TwilioWebhookController.handleSmsStatus).
KeepsEscalation == Escalation!Spec

\* Nobody is escalated because of a WhatsApp message that was read by then:
\* the check knew of no "read" of the person, or another report has overwritten
\* it, or a later WhatsApp message of the reminder, perhaps to somebody else,
\* is the one it looked at (the unread-check worker).
ReadIsRespected ==
  [][(check.at = "send" /\ check'.at = "log") =>
       \A c \in check.known :
         copy[c].to = check.to =>
           \/ c \in overrun
           \/ \E i, j \in DOMAIN row : i < j /\ row[i].of = c /\ copy[row[j].of].channel = "WHATSAPP"
    ]_<<billingVars, failoverVars>>
=============================================================================
