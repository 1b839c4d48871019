---------------------------- MODULE TenantBilling ----------------------------
(***************************************************************************)
(* The subscription of one tenant, and everybody who writes it: the        *)
(* webhooks of Paystack, PayPal and Coinbase, the hourly sweep of expired  *)
(* trials, which every replica of the API runs, and the requests           *)
(* POST /billing/verify and POST /billing/subscribe.                       *)
(*                                                                         *)
(* A webhook event is written to ProcessedWebhook before it is handled, so *)
(* that a second delivery of it is skipped; the handler reads the tenant   *)
(* and updates it in a later call. A Server runs one delivery.             *)
(*                                                                         *)
(* The row is written under the id in the payload. A payload without one   *)
(* gets its type and the time, `${event}-${Date.now()}`: another id at     *)
(* each delivery, which finds no earlier one, and the same id as any other *)
(* such event of its type in that millisecond, of whatever tenant.         *)
(*                                                                         *)
(* Of the SubscriptionRecord rows nothing is kept: they are written after  *)
(* the tenant, and read only to find it.                                   *)
(*                                                                         *)
(* Bounds: the deliveries of an event, in post, which starts as one of     *)
(* Mail; everything else that comes from outside, in budget, which starts  *)
(* as one of Budgets.                                                      *)
(***************************************************************************)
EXTENDS Naturals, FiniteSets

CONSTANTS Hook,       \* webhook events
          Server,     \* deliveries in progress at once
          Replica,    \* replicas of the API, each with its cron
          NoHook,
          CapOf,      \* aiMonthlyLimit: of each plan, of a trial, at sign-up
          Mail, Budgets

Plan == {"SMS", "AI"}        \* SMS_VOICE differs from SMS in nothing modelled

Status == {"TRIALING", "ACTIVE", "PAST_DUE", "CANCELLED", "EXPIRED"}

Via == {"paystack", "paypal", "crypto"}

\* plan is the plan an event is for: "none" for a charge without a plan code.
\* PayPal and Coinbase send codes that Paystack's map does not hold. An event is
\* named when its payload carries an id.
Event == [via : Via, kind : {"charge", "create", "cancel", "failed"},
          plan : Plan \cup {"none"}, named : BOOLEAN, times : Nat]

Budget == {"verify", "subscribe", "month", "ask", "fault"}

ASSUME BillingAssumption ==
  /\ NoHook \notin Hook /\ IsFiniteSet(Server)
  /\ CapOf \in [Plan \cup {"TRIAL", "signup"} -> Nat]
  /\ Mail \subseteq [Hook -> Event]
  /\ \A mail \in Mail, h \in Hook :
       /\ mail[h].kind # "charge" => mail[h].plan # "none"
       /\ mail[h].via # "paystack" => mail[h].plan = "SMS" /\ mail[h].kind # "charge"
  /\ Budgets \subseteq [Budget -> Nat]

VARIABLES
  tenant,     \* the Tenant row
  post,       \* events, and how often each may still be delivered
  server,     \* the deliveries in progress
  processed,  \* ProcessedWebhook: the rows under the ids of named events
  sweep,      \* processExpiredTrials, in each replica
  budget,     \* bound: what may still come from outside
  answered,   \* history: events the provider got a 200 for
  applied,    \* history: how often each event was applied to the tenant
  crossed,    \* history: events of which two deliveries passed the check
  unmarked,   \* history: events handled although the check failed
  dropped,    \* history: events that a failure, or an id they share, kept from the handler
  overtaken,  \* history: replicas whose read of the tenant is out of date
  resets,     \* history: how often the usage counter was set to zero
  faults      \* history: how many faults have happened

hookVars == <<post, server, processed, answered, applied, crossed, unmarked, dropped>>
billingVars == <<tenant, post, server, processed, sweep, budget, answered, applied,
                 crossed, unmarked, dropped, overtaken, resets, faults>>

Tenant == [status : Status, plan : Plan, trial : BOOLEAN, ended : BOOLEAN,
           customer : BOOLEAN, usage : Nat, cap : Nat]

Act == {"none", "trial", "activate", "customer", "cancel", "failed"}

Delivery == [at : {"idle", "check", "mark", "route", "apply", "record"},
             hook : Hook \cup {NoHook}, act : Act]

Free == [at |-> "idle", hook |-> NoHook, act |-> "none"]

Sweep == {"idle", "expire", "close"}

Spend(k) == budget[k] > 0 /\ budget' = [budget EXCEPT ![k] = @ - 1]

BillingFault == Spend("fault") /\ faults' = faults + 1

\* A new workspace: registered, no card yet.
BillingInit ==
  /\ tenant = [status |-> "TRIALING", plan |-> "SMS", trial |-> FALSE, ended |-> FALSE,
               customer |-> FALSE, usage |-> 0, cap |-> CapOf["signup"]]
  /\ post \in Mail
  /\ server = [s \in Server |-> Free]
  /\ processed = {}
  /\ sweep = [r \in Replica |-> "idle"]
  /\ budget \in Budgets
  /\ answered = {} /\ applied = [h \in Hook |-> 0]
  /\ crossed = {} /\ unmarked = {} /\ dropped = {} /\ overtaken = {}
  /\ resets = 0 /\ faults = 0

-----------------------------------------------------------------------------
(* One delivery of a webhook. *)

Step(s, from, to) ==
  /\ server[s].at = from
  /\ server' = [server EXCEPT ![s].at = to]

\* The event is off the handler's hands; Answers says what the provider sees.
Leaves(s) == server' = [server EXCEPT ![s] = Free]

Answers(s) == answered' = answered \cup {server[s].hook}

Deliver(s, h) ==
  /\ server[s].at = "idle" /\ post[h].times > 0
  /\ post' = [post EXCEPT ![h].times = @ - 1]
  /\ server' = [server EXCEPT ![s] = [Free EXCEPT !.at = "check", !.hook = h]]
  /\ UNCHANGED <<tenant, processed, sweep, budget, answered, applied, crossed, unmarked,
                 dropped, overtaken, resets, faults>>

\* PayPal is asked whether the signature is its own. When the call fails the
\* event is ignored, and answered all the same.
CannotVerify(s) ==
  /\ server[s].at = "check" /\ post[server[s].hook].via = "paypal"
  /\ BillingFault
  /\ Leaves(s) /\ Answers(s)
  /\ dropped' = dropped \cup {server[s].hook}
  /\ UNCHANGED <<tenant, post, processed, sweep, applied, crossed, unmarked, overtaken, resets>>

\* processedWebhook.findUnique finds the id in the payload. The id of an event
\* without one is in no row that an earlier delivery of it has left.
SkipDuplicate(s) ==
  /\ server[s].at = "check" /\ server[s].hook \in processed
  /\ Leaves(s) /\ Answers(s)
  /\ UNCHANGED <<tenant, post, processed, sweep, budget, applied, crossed, unmarked,
                 dropped, overtaken, resets, faults>>

\* It finds the id that another event without one was given in this millisecond.
SharesId(s) ==
  /\ server[s].at = "check" /\ ~post[server[s].hook].named
  /\ Leaves(s) /\ Answers(s)
  /\ dropped' = dropped \cup {server[s].hook}
  /\ UNCHANGED <<tenant, post, processed, sweep, budget, applied, crossed, unmarked,
                 overtaken, resets, faults>>

PassCheck(s) ==
  /\ server[s].hook \notin processed
  /\ Step(s, "check", "mark")
  /\ crossed' = IF \E t \in Server \ {s} : server[t].hook = server[s].hook /\ server[t].at = "mark"
                THEN crossed \cup {server[s].hook} ELSE crossed
  /\ UNCHANGED <<tenant, post, processed, sweep, budget, answered, applied, unmarked,
                 dropped, overtaken, resets, faults>>

\* Variant of Mark that leaves the event to be marked when it is handled.
MarkNothing(s) ==
  /\ Step(s, "mark", "route")
  /\ UNCHANGED <<tenant, post, processed, sweep, budget, answered, applied, crossed,
                 unmarked, dropped, overtaken, resets, faults>>

\* processedWebhook.create; when another delivery came first the unique index
\* refuses the row, and the error is caught like any other. The row of an event
\* without an id is under one that no other delivery of it looks up.
Mark(s) ==
  /\ Step(s, "mark", "route")
  /\ processed' = IF post[server[s].hook].named THEN processed \cup {server[s].hook} ELSE processed
  /\ UNCHANGED <<tenant, post, sweep, budget, answered, applied, crossed, unmarked, dropped,
                 overtaken, resets, faults>>

\* Variant of CheckFails that drops the event when the database fails.
CheckGivesUp(s) ==
  /\ server[s].at \in {"check", "mark"}
  /\ BillingFault
  /\ Leaves(s) /\ Answers(s)
  /\ unmarked' = unmarked \cup {server[s].hook}
  /\ UNCHANGED <<tenant, post, processed, sweep, applied, crossed, dropped, overtaken, resets>>

\* The idempotency check fails on a database error: the event is handled.
CheckFails(s) ==
  /\ server[s].at \in {"check", "mark"}
  /\ BillingFault
  /\ server' = [server EXCEPT ![s].at = "route"]
  /\ unmarked' = unmarked \cup {server[s].hook}
  /\ UNCHANGED <<tenant, post, processed, sweep, answered, applied, crossed, dropped,
                 overtaken, resets>>

\* What an event asks of the tenant that findTenantWithStatus has read. Only a
\* charge looks at it.
ActFor(e) ==
  CASE e.kind = "create" -> "activate"
    [] e.kind = "cancel" -> "cancel"
    [] e.kind = "failed" -> "failed"
    [] e.kind = "charge" /\ ~tenant.trial /\ tenant.status = "TRIALING" -> "trial"
    [] e.kind = "charge" /\ (tenant.trial \/ tenant.status # "TRIALING") ->
         IF e.plan # "none" THEN "activate" ELSE IF tenant.customer THEN "none" ELSE "customer"

Route(s) ==
  /\ server[s].at = "route"
  /\ server' = [server EXCEPT ![s].at = "apply", ![s].act = ActFor(post[server[s].hook])]
  /\ UNCHANGED <<tenant, post, processed, sweep, budget, answered, applied, crossed,
                 unmarked, dropped, overtaken, resets, faults>>

Activated(plan) ==
  [tenant EXCEPT !.status = "ACTIVE", !.plan = plan, !.trial = FALSE, !.usage = 0,
                 !.cap = CapOf[plan]]

TrialStarted == [tenant EXCEPT !.status = "TRIALING", !.trial = TRUE, !.ended = FALSE]

\* The row an act leaves behind.
AfterAct(act, plan) ==
  CASE act = "none" -> tenant
    [] act = "trial" -> [TrialStarted EXCEPT !.cap = CapOf["TRIAL"], !.customer = TRUE]
    [] act = "activate" -> Activated(plan)
    [] act = "customer" -> [tenant EXCEPT !.customer = TRUE]
    [] act = "cancel" -> [tenant EXCEPT !.status = "CANCELLED"]
    [] act = "failed" -> [tenant EXCEPT !.status = "PAST_DUE"]

\* The sweeps that are about to write what they have read before this.
Overtakes == overtaken' = overtaken \cup {r \in Replica : sweep[r] # "idle"}

Apply(s) ==
  LET act == server[s].act IN
  /\ Step(s, "apply", "record")
  /\ tenant' = AfterAct(act, post[server[s].hook].plan)
  /\ applied' = [applied EXCEPT ![server[s].hook] = @ + 1]
  /\ resets' = IF act = "activate" THEN resets + 1 ELSE resets
  /\ IF act = "none" THEN UNCHANGED overtaken ELSE Overtakes
  /\ UNCHANGED <<post, processed, sweep, budget, answered, crossed, unmarked, dropped, faults>>

\* The subscription record and the audit log, and the answer.
Answer(s) ==
  /\ server[s].at = "record"
  /\ Leaves(s) /\ Answers(s)
  /\ UNCHANGED <<tenant, post, processed, sweep, budget, applied, crossed, unmarked,
                 dropped, overtaken, resets, faults>>

\* A database call throws, or the process dies: the provider gets no 200.
HookFails(s) ==
  /\ server[s].at \in {"route", "apply", "record"}
  /\ BillingFault
  /\ Leaves(s)
  /\ dropped' = IF server[s].at = "record" THEN dropped ELSE dropped \cup {server[s].hook}
  /\ UNCHANGED <<tenant, post, processed, sweep, answered, applied, crossed, unmarked,
                 overtaken, resets>>

-----------------------------------------------------------------------------
(* The sweep of expired trials, once an hour. *)

Due == tenant.trial /\ tenant.ended /\ tenant.status = "TRIALING"

\* Variant of SweepReads that lists only tenants with a customer code.
SweepReadsPayers(r) ==
  /\ sweep[r] = "idle" /\ Due /\ tenant.customer
  /\ sweep' = [sweep EXCEPT ![r] = "close"]
  /\ overtaken' = overtaken \ {r}
  /\ UNCHANGED <<tenant, hookVars, budget, resets, faults>>

\* Variant of SweepReads without the date.
SweepReadsAll(r) ==
  /\ sweep[r] = "idle" /\ tenant.trial /\ tenant.status = "TRIALING"
  /\ sweep' = [sweep EXCEPT ![r] = IF tenant.customer THEN "close" ELSE "expire"]
  /\ overtaken' = overtaken \ {r}
  /\ UNCHANGED <<tenant, hookVars, budget, resets, faults>>

\* The list of a sweep, with the customer code each tenant had.
SweepReads(r) ==
  /\ sweep[r] = "idle" /\ Due
  /\ sweep' = [sweep EXCEPT ![r] = IF tenant.customer THEN "close" ELSE "expire"]
  /\ overtaken' = overtaken \ {r}
  /\ UNCHANGED <<tenant, hookVars, budget, resets, faults>>

SweepWrites(r) ==
  /\ sweep[r] # "idle"
  /\ tenant' = IF sweep[r] = "expire" THEN [tenant EXCEPT !.trial = FALSE, !.status = "EXPIRED"]
                                      ELSE [tenant EXCEPT !.trial = FALSE]
  /\ sweep' = [sweep EXCEPT ![r] = "idle"]
  /\ UNCHANGED <<hookVars, budget, overtaken, resets, faults>>

\* An error is caught, and logged; the next hour tries again.
SweepFails(r) ==
  /\ sweep[r] # "idle"
  /\ BillingFault
  /\ sweep' = [sweep EXCEPT ![r] = "idle"]
  /\ UNCHANGED <<tenant, hookVars, overtaken, resets>>

-----------------------------------------------------------------------------
(* The requests, and time. *)

\* POST /billing/verify: Paystack says that the reference was paid.
Verify ==
  /\ Spend("verify")
  /\ tenant' = TrialStarted
  /\ Overtakes
  /\ UNCHANGED <<hookVars, sweep, resets, faults>>

\* POST /billing/subscribe: a customer is created at Paystack, once.
Subscribe ==
  /\ ~tenant.customer
  /\ Spend("subscribe")
  /\ tenant' = [tenant EXCEPT !.customer = TRUE]
  /\ Overtakes
  /\ UNCHANGED <<hookVars, sweep, resets, faults>>

\* trialEndDate passes.
TrialEnds ==
  /\ tenant.trial /\ ~tenant.ended
  /\ tenant' = [tenant EXCEPT !.ended = TRUE]
  /\ UNCHANGED <<hookVars, sweep, budget, overtaken, resets, faults>>

DeliveryStep(s) ==
  \/ \E h \in Hook : Deliver(s, h)
  \/ CannotVerify(s) \/ SkipDuplicate(s) \/ SharesId(s) \/ PassCheck(s) \/ Mark(s)
  \/ CheckFails(s) \/ Route(s) \/ Apply(s) \/ Answer(s) \/ HookFails(s)

SweepStep(r) == SweepReads(r) \/ SweepWrites(r) \/ SweepFails(r)

BillingNext ==
  \/ \E s \in Server : DeliveryStep(s)
  \/ \E r \in Replica : SweepStep(r)
  \/ Verify \/ Subscribe \/ TrialEnds

BillingSpec == BillingInit /\ [][BillingNext]_billingVars

-----------------------------------------------------------------------------
(* Properties. *)

\* Every variable has its type, and a delivery in progress has its event.
BillingTypeOK ==
  /\ tenant \in Tenant
  /\ post \in [Hook -> Event]
  /\ server \in [Server -> Delivery]
  /\ processed \subseteq Hook
  /\ sweep \in [Replica -> Sweep]
  /\ budget \in [Budget -> Nat]
  /\ answered \subseteq Hook /\ applied \in [Hook -> Nat]
  /\ crossed \subseteq Hook /\ unmarked \subseteq Hook /\ dropped \subseteq Hook
  /\ overtaken \subseteq Replica
  /\ resets \in Nat /\ faults \in Nat
  /\ \A s \in Server : server[s].at # "idle" => server[s].hook \in Hook

\* A payment event whose payload carries an id changes the tenant once, however
\* often the provider delivers it, unless two deliveries passed the check
\* together or the check itself failed (handleWebhook, the idempotency block).
\* An event without an id is applied again at every delivery: its id is made of
\* the time.
AppliedOnce ==
  \A h \in Hook : post[h].named => applied[h] <= 1 \/ h \in crossed \/ h \in unmarked

\* An event the provider was told is received has been applied, or is in the
\* hands of a delivery that will, or was taken by a failure after it was
\* marked or could not be verified, or has no id of its own and was skipped for
\* another that has the same. A failure of the check itself loses nothing: "Proceed anyway if DB
\* errors, better to process than drop a payment".
PaymentNotDropped ==
  \A h \in answered : \/ applied[h] > 0 \/ h \in dropped
                      \/ \E s \in Server : server[s].hook = h /\ server[s].at \in {"route", "apply"}

\* The sweep expires a tenant whose trial is over and who has no customer code,
\* and no other, unless the row was written between the sweep's read and its
\* write (processExpiredTrials).
ExpiredRightly ==
  [][\A r \in Replica :
       (sweep[r] = "expire" /\ tenant.status # "EXPIRED" /\ tenant'.status = "EXPIRED"
          /\ sweep'[r] = "idle")
         => (Due /\ ~tenant.customer) \/ r \in overtaken]_billingVars

\* A trial that is over does not stay open: the sweep closes it, or something
\* else changes it first. (Not so for a tenant who has cancelled, or missed a
\* payment, during the trial: the sweep does not list it.)
TrialsEnd == Due ~> ~Due
=============================================================================
