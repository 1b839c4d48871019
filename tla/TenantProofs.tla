---------------------------- MODULE TenantProofs -----------------------------
(***************************************************************************)
(* Theorems about TenantBilling and AiUsage, for any number of events,     *)
(* deliveries, replicas of the API and AI requests, and for any limits;    *)
(* and about TenantSystem: what billing, escalation and attendance promise *)
(* by themselves they keep side by side.                                   *)
(***************************************************************************)
EXTENDS TenantSystem, FailoverProofs, AttendanceProofs

-----------------------------------------------------------------------------
(* Type correctness. *)

\* Only a charge may come without a plan code, and an act that activates comes
\* from an event with one.
PlansKnown ==
  /\ \A h \in Hook : post[h].kind # "charge" => post[h].plan \in Plan
  /\ \A s \in Server : server[s].act = "activate" =>
       server[s].hook \in Hook /\ post[server[s].hook].plan \in Plan

\* The inductive form of the type invariant.
Typed == AiTypeOK /\ PlansKnown

LEMMA AiInitTyped == AiInit => Typed
<1> SUFFICES ASSUME AiInit PROVE Typed
  OBVIOUS
<1> USE DEF AiInit, BillingInit
<1>1. tenant \in Tenant
  BY BillingAssumption DEF Tenant, Status, Plan
<1>2. post \in [Hook -> Event] /\ budget \in [Budget -> Nat]
  BY BillingAssumption
<1>3. Free \in Delivery
  BY DEF Free, Delivery, Act
<1>4. server \in [Server -> Delivery] /\ sweep \in [Replica -> Sweep]
  BY <1>3 DEF Sweep
<1>5. \A s \in Server : server[s].at = "idle" /\ server[s].act = "none"
  BY DEF Free
<1>6. \A h \in Hook : post[h].kind # "charge" => post[h].plan \in Plan
  BY <1>2, BillingAssumption DEF Event
<1>7. PlansKnown
  BY <1>5, <1>6 DEF PlansKnown
<1>8. BillingTypeOK
  BY <1>1, <1>2, <1>4, <1>5 DEF BillingTypeOK
<1> QED BY <1>7, <1>8 DEF Typed, AiTypeOK

\* What a delivery leaves in its record is of the right type.
LEMMA DeliveryUpdates ==
  ASSUME server \in [Server -> Delivery], NEW s \in Server
  PROVE  /\ [server EXCEPT ![s] = Free] \in [Server -> Delivery]
         /\ \A h \in Hook :
              [server EXCEPT ![s] = [Free EXCEPT !.at = "check", !.hook = h]] \in [Server -> Delivery]
         /\ \A l \in {"idle", "check", "mark", "route", "apply", "record"} :
              /\ [server EXCEPT ![s].at = l] \in [Server -> Delivery]
              /\ \A a \in Act : [server EXCEPT ![s].at = l, ![s].act = a] \in [Server -> Delivery]
<1>1. Free \in Delivery /\ \A h \in Hook : [Free EXCEPT !.at = "check", !.hook = h] \in Delivery
  BY DEF Free, Delivery, Act
<1>2. ASSUME NEW l \in {"idle", "check", "mark", "route", "apply", "record"}
      PROVE  [server EXCEPT ![s].at = l] \in [Server -> Delivery]
  BY DEF Delivery
<1>3. ASSUME NEW l \in {"idle", "check", "mark", "route", "apply", "record"}, NEW a \in Act
      PROVE  [server EXCEPT ![s].at = l, ![s].act = a] \in [Server -> Delivery]
  BY DEF Delivery
<1> QED BY <1>1, <1>2, <1>3

\* The acts of the webhooks keep the tenant a tenant.
LEMMA ActsTyped ==
  ASSUME tenant \in Tenant, NEW act \in Act, NEW plan, act = "activate" => plan \in Plan
  PROVE  AfterAct(act, plan) \in Tenant
<1>1. CapOf["TRIAL"] \in Nat /\ (plan \in Plan => CapOf[plan] \in Nat)
  BY BillingAssumption
<1>2. CASE act = "activate"
  BY <1>1, <1>2 DEF AfterAct, Activated, Tenant, Status
<1>3. CASE act = "trial"
  <2>1. TrialStarted \in Tenant
    BY DEF TrialStarted, Tenant, Status
  <2> QED BY <1>1, <1>3, <2>1 DEF AfterAct, Tenant
<1>4. CASE act \in {"none", "customer", "cancel", "failed"}
  BY <1>4 DEF AfterAct, Tenant, Status
<1> QED BY <1>2, <1>3, <1>4 DEF Act

LEMMA SpendTyped ==
  ASSUME budget \in [Budget -> Nat], NEW k \in Budget, Spend(k)
  PROVE  budget' \in [Budget -> Nat]
BY DEF Spend

\* A step of a delivery keeps the types.
LEMMA DeliveriesTyped ==
  ASSUME Typed, NEW s \in Server, DeliveryStep(s), UNCHANGED <<ask, completions>>
  PROVE  Typed'
<1> USE DEF Typed, AiTypeOK, BillingTypeOK, PlansKnown
<1>0. /\ server[s] \in Delivery
      /\ server[s].at # "idle" => server[s].hook \in Hook /\ post[server[s].hook] \in Event
  OBVIOUS
<1>1. ASSUME NEW h \in Hook, Deliver(s, h) PROVE Typed'
  <2>1. server' \in [Server -> Delivery] /\ \A t \in Server \ {s} : server'[t] = server[t]
    BY <1>1, DeliveryUpdates DEF Deliver, Act
  <2>2. server'[s].hook = h /\ server'[s].act = "none"
    BY <1>1 DEF Deliver, Free
  <2>3. post' \in [Hook -> Event] /\ \A g \in Hook : /\ post'[g].kind = post[g].kind
                                                     /\ post'[g].plan = post[g].plan
    BY <1>1 DEF Deliver, Event
  <2>4. \A t \in Server : /\ server'[t].at # "idle" => server'[t].hook \in Hook
                          /\ server'[t].act = "activate" =>
                               server'[t].hook \in Hook /\ post'[server'[t].hook].plan \in Plan
    BY <2>1, <2>2, <2>3
  <2> QED BY <1>1, <2>1, <2>3, <2>4 DEF Deliver
<1>2. CASE CannotVerify(s) \/ SkipDuplicate(s) \/ SharesId(s) \/ Answer(s) \/ HookFails(s)
  <2>1. server' \in [Server -> Delivery] /\ server'[s] = Free
        /\ \A t \in Server \ {s} : server'[t] = server[t]
    <3>1. server' = [server EXCEPT ![s] = Free]
      BY <1>2 DEF CannotVerify, SkipDuplicate, SharesId, Answer, HookFails, Leaves
    <3>2. server' \in [Server -> Delivery]
      BY <3>1, DeliveryUpdates
    <3> QED BY <3>1, <3>2
  <2>2. server[s].at # "idle"
    BY <1>2 DEF CannotVerify, SkipDuplicate, SharesId, Answer, HookFails, Step
  <2>3. budget' \in [Budget -> Nat] /\ faults' \in Nat
    BY <1>2, SpendTyped DEF CannotVerify, SkipDuplicate, SharesId, Answer, HookFails,
                            BillingFault, Budget
  <2>4. \A t \in Server : /\ server'[t].at # "idle" => server'[t].hook \in Hook
                          /\ server'[t].act = "activate" =>
                               server'[t].hook \in Hook /\ post[server'[t].hook].plan \in Plan
    BY <2>1 DEF Free
  <2>5. answered' \subseteq Hook /\ dropped' \subseteq Hook
    BY <1>0, <1>2, <2>2 DEF CannotVerify, SkipDuplicate, SharesId, Answer, HookFails, Answers
  <2>6. UNCHANGED <<tenant, post, processed, sweep, applied, crossed, unmarked, overtaken, resets>>
    BY <1>2 DEF CannotVerify, SkipDuplicate, SharesId, Answer, HookFails
  <2> QED BY <2>1, <2>3, <2>4, <2>5, <2>6
<1>3. CASE PassCheck(s) \/ Mark(s) \/ CheckFails(s)
  <2>1. PICK l \in {"mark", "route"} : server' = [server EXCEPT ![s].at = l]
    BY <1>3 DEF PassCheck, Mark, CheckFails, Step
  <2>2. /\ server' \in [Server -> Delivery] /\ server[s].at # "idle"
        /\ \A t \in Server : server'[t].hook = server[t].hook /\ server'[t].act = server[t].act
        /\ \A t \in Server \ {s} : server'[t].at = server[t].at
    <3>1. server' \in [Server -> Delivery]
      BY <2>1, DeliveryUpdates
    <3>2. server[s].at # "idle"
      BY <1>3 DEF PassCheck, Mark, CheckFails, Step
    <3>3. \A t \in Server : server'[t].hook = server[t].hook /\ server'[t].act = server[t].act
      BY <2>1 DEF Delivery
    <3> QED BY <2>1, <3>1, <3>2, <3>3
  <2>3. budget' \in [Budget -> Nat] /\ faults' \in Nat
    BY <1>3, SpendTyped DEF PassCheck, Mark, CheckFails, BillingFault, Budget
  <2>4. processed' \subseteq Hook /\ crossed' \subseteq Hook /\ unmarked' \subseteq Hook
    BY <1>0, <1>3, <2>2 DEF PassCheck, Mark, CheckFails
  <2>5. UNCHANGED <<tenant, post, sweep, answered, applied, dropped, overtaken, resets>>
    BY <1>3 DEF PassCheck, Mark, CheckFails
  <2>6. \A t \in Server : /\ server'[t].at # "idle" => server'[t].hook \in Hook
                          /\ server'[t].act = "activate" =>
                               server'[t].hook \in Hook /\ post[server'[t].hook].plan \in Plan
    BY <2>2
  <2> QED BY <2>2, <2>3, <2>4, <2>5, <2>6
<1>4. CASE Route(s)
  <2>1. PICK e \in Event : e = post[server[s].hook]
    BY <1>0, <1>4 DEF Route
  <2>2. ActFor(e) \in Act /\ (ActFor(e) = "activate" => e.plan \in Plan)
    <3>1. e.kind # "charge" => e.plan \in Plan
      BY <1>0, <1>4, <2>1 DEF Route
    <3>2. CASE e.kind \in {"create", "cancel", "failed"}
      BY <3>1, <3>2 DEF ActFor, Act
    <3>3. CASE e.kind = "charge" /\ ~tenant.trial /\ tenant.status = "TRIALING"
      BY <3>3 DEF ActFor, Act
    <3>4. CASE e.kind = "charge" /\ (tenant.trial \/ tenant.status # "TRIALING")
      BY <3>4 DEF ActFor, Act, Event
    <3>5. e.kind \in {"charge", "create", "cancel", "failed"} /\ tenant.trial \in BOOLEAN
      BY DEF Event, Tenant
    <3> QED BY <3>2, <3>3, <3>4, <3>5
  <2>3. server' = [server EXCEPT ![s].at = "apply", ![s].act = ActFor(e)]
    BY <1>4, <2>1 DEF Route
  <2>4. server' \in [Server -> Delivery]
    BY <2>2, <2>3, DeliveryUpdates
  <2>5. \A t \in Server : /\ server'[t].at # "idle" => server'[t].hook \in Hook
                          /\ server'[t].act = "activate" =>
                               server'[t].hook \in Hook /\ post[server'[t].hook].plan \in Plan
    BY <1>0, <1>4, <2>1, <2>2, <2>3 DEF Route, Delivery
  <2> QED BY <1>4, <2>4, <2>5 DEF Route
<1>5. CASE Apply(s)
  <2>1. server[s].at = "apply" /\ server' = [server EXCEPT ![s].at = "record"]
    BY <1>5 DEF Apply, Step
  <2>2. /\ server' \in [Server -> Delivery]
        /\ \A t \in Server : server'[t].hook = server[t].hook /\ server'[t].act = server[t].act
        /\ \A t \in Server \ {s} : server'[t].at = server[t].at
    <3>1. server' \in [Server -> Delivery]
      BY <2>1, DeliveryUpdates
    <3>2. \A t \in Server : server'[t].hook = server[t].hook /\ server'[t].act = server[t].act
      BY <2>1 DEF Delivery
    <3> QED BY <2>1, <3>1, <3>2
  <2>3. server[s].act \in Act
    BY DEF Delivery
  <2>4. tenant' \in Tenant
    BY <1>0, <1>5, <2>3, ActsTyped DEF Apply
  <2>5. applied' \in [Hook -> Nat] /\ resets' \in Nat /\ overtaken' \subseteq Replica
    BY <1>0, <1>5, <2>1 DEF Apply, Overtakes
  <2>6. \A t \in Server : /\ server'[t].at # "idle" => server'[t].hook \in Hook
                          /\ server'[t].act = "activate" =>
                               server'[t].hook \in Hook /\ post[server'[t].hook].plan \in Plan
    BY <1>0, <2>1, <2>2
  <2> QED BY <1>5, <2>2, <2>4, <2>5, <2>6 DEF Apply
<1> QED BY <1>1, <1>2, <1>3, <1>4, <1>5 DEF DeliveryStep

\* So do the sweep, the requests and time.
LEMMA SweepsTyped ==
  ASSUME Typed,
         (UNCHANGED <<ask, completions>> /\ ((\E r \in Replica : SweepStep(r)) \/ Verify \/ Subscribe
           \/ TrialEnds)) \/ MonthlyReset
  PROVE  Typed'
<1> USE DEF Typed, AiTypeOK, BillingTypeOK, PlansKnown, hookVars
<1>1. tenant' \in Tenant
  <2>1. TrialStarted \in Tenant
    BY DEF TrialStarted, Tenant, Status
  <2>2. \/ tenant' \in {tenant, TrialStarted, [tenant EXCEPT !.trial = FALSE, !.status = "EXPIRED"],
                        [tenant EXCEPT !.trial = FALSE], [tenant EXCEPT !.customer = TRUE]}
        \/ tenant' \in {[tenant EXCEPT !.ended = TRUE], [tenant EXCEPT !.usage = 0]}
    BY DEF SweepStep, SweepReads, SweepWrites, SweepFails, Verify, Subscribe, TrialEnds, MonthlyReset
  <2>3. /\ [tenant EXCEPT !.trial = FALSE, !.status = "EXPIRED"] \in Tenant
        /\ [tenant EXCEPT !.trial = FALSE] \in Tenant /\ [tenant EXCEPT !.customer = TRUE] \in Tenant
        /\ [tenant EXCEPT !.ended = TRUE] \in Tenant /\ [tenant EXCEPT !.usage = 0] \in Tenant
    BY DEF Tenant, Status
  <2> QED BY <2>1, <2>2, <2>3
<1>2. sweep' \in [Replica -> Sweep]
  BY DEF SweepStep, SweepReads, SweepWrites, SweepFails, Verify, Subscribe, TrialEnds,
         MonthlyReset, Sweep
<1>3. budget' \in [Budget -> Nat] /\ faults' \in Nat /\ resets' \in Nat
  BY SpendTyped DEF SweepStep, SweepReads, SweepWrites, SweepFails, Verify, Subscribe, TrialEnds,
         MonthlyReset, BillingFault, Budget
<1>4. overtaken' \subseteq Replica
  BY DEF SweepStep, SweepReads, SweepWrites, SweepFails, Verify, Subscribe, TrialEnds,
         MonthlyReset, Overtakes
<1>5. UNCHANGED <<hookVars, ask, completions>>
  BY DEF SweepStep, SweepReads, SweepWrites, SweepFails, Verify, Subscribe, TrialEnds, MonthlyReset
<1> QED BY <1>1, <1>2, <1>3, <1>4, <1>5

LEMMA RequestsTyped ==
  ASSUME Typed, NEW c \in Caller, AskStep(c)
  PROVE  Typed'
<1> USE DEF Typed, AiTypeOK, BillingTypeOK, PlansKnown, hookVars
<1>1. tenant' \in Tenant
  BY DEF AskStep, Admit, OpenAIAnswers, OpenAIFails, Count, CountFails, billingVars, Tenant
<1>2. ask' \in [Caller -> {"idle", "asking", "counting"}] /\ completions' \in Nat
  BY DEF AskStep, Admit, OpenAIAnswers, OpenAIFails, Count, CountFails
<1>3. budget' \in [Budget -> Nat] /\ faults' \in Nat
  BY SpendTyped DEF AskStep, Admit, OpenAIAnswers, OpenAIFails, Count, CountFails, BillingFault,
                    Budget, billingVars
<1>4. UNCHANGED <<hookVars, sweep, overtaken, resets>>
  BY DEF AskStep, Admit, OpenAIAnswers, OpenAIFails, Count, CountFails, billingVars
<1> QED BY <1>1, <1>2, <1>3, <1>4

LEMMA StepTyped == Typed /\ [AiNext]_aiVars => Typed'
<1> SUFFICES ASSUME Typed, [AiNext]_aiVars PROVE Typed'
  OBVIOUS
<1>1. CASE UNCHANGED aiVars
  BY <1>1 DEF Typed, AiTypeOK, BillingTypeOK, PlansKnown, aiVars, billingVars
<1> QED BY <1>1, DeliveriesTyped, SweepsTyped, RequestsTyped DEF AiNext, BillingNext

\* Every variable of the tenant's billing and its AI requests keeps its type, and
\* a delivery in progress has its event.
THEOREM BillingTypes == AiSpec => []AiTypeOK
<1>1. AiSpec => []Typed
  BY AiInitTyped, StepTyped, PTL DEF AiSpec
<1> QED BY <1>1, PTL DEF Typed

-----------------------------------------------------------------------------
(* Payments. *)

\* Only the deliveries touch what the webhooks keep.
LEMMA OthersLeaveHooks ==
  [AiNext]_aiVars => UNCHANGED hookVars \/ \E s \in Server : DeliveryStep(s)
BY DEF AiNext, BillingNext, SweepStep, SweepReads, SweepWrites, SweepFails, Verify, Subscribe,
       TrialEnds, MonthlyReset, AskStep, Admit, OpenAIAnswers, OpenAIFails, Count, CountFails,
       billingVars, aiVars, hookVars

LEMMA FreeAt ==
  Free.at = "idle" /\ \A h \in Hook : [Free EXCEPT !.at = "check", !.hook = h].at = "check"
BY DEF Free

\* The deliveries that have passed the check of h.
Passed(h) == {s \in Server : server[s].hook = h /\ server[s].at \in {"mark", "route", "apply"}}

\* An event nobody handled twice or unchecked: until it is marked it has not
\* been applied, one delivery at most is past the check, and once it is applied
\* no other will pass.
Once(h) ==
  /\ applied[h] <= 1
  /\ applied[h] = 1 => h \in processed /\ Passed(h) = {}
  /\ \A s \in Passed(h) : server[s].at = "mark" <=> h \notin processed
  /\ \A s, t \in Passed(h) : s = t

OnceUnlessCrossed ==
  \A h \in Hook : post[h].named => h \in crossed \/ h \in unmarked \/ Once(h)

LEMMA InitOnce == AiInit => OnceUnlessCrossed
BY DEF AiInit, BillingInit, Free, OnceUnlessCrossed, Once, Passed

\* A step that leaves Passed, applied and processed alone.
LEMMA OnceKept ==
  ASSUME NEW h \in Hook, Once(h), Passed(h)' \subseteq Passed(h),
         \A t \in Passed(h)' : server'[t].at = server[t].at,
         UNCHANGED <<applied, processed>>
  PROVE  Once(h)'
BY DEF Once

LEMMA StepOnce ==
  ASSUME Typed, OnceUnlessCrossed, [AiNext]_aiVars
  PROVE  OnceUnlessCrossed'
<1>1. CASE UNCHANGED hookVars
  BY <1>1 DEF OnceUnlessCrossed, Once, Passed, hookVars
<1>2. ASSUME NEW s \in Server, DeliveryStep(s), NEW h \in Hook
      PROVE  post'[h].named => h \in crossed' \/ h \in unmarked' \/ Once(h)'
  <2>0. /\ server \in [Server -> Delivery] /\ applied \in [Hook -> Nat] /\ post \in [Hook -> Event]
        /\ crossed \subseteq crossed' /\ unmarked \subseteq unmarked'
    BY <1>2 DEF Typed, AiTypeOK, BillingTypeOK, DeliveryStep, Deliver, CannotVerify,
                SkipDuplicate, SharesId, PassCheck, Mark, CheckFails, Route, Apply, Answer,
                HookFails
  <2>a. post'[h].named = post[h].named
    <3>1. UNCHANGED post \/ \E g \in Hook : post' = [post EXCEPT ![g].times = @ - 1]
      BY <1>2 DEF DeliveryStep, Deliver, CannotVerify, SkipDuplicate, SharesId, PassCheck, Mark,
                  CheckFails, Route, Apply, Answer, HookFails
    <3> QED BY <2>0, <3>1 DEF Event
  <2> SUFFICES ASSUME post[h].named, h \notin crossed', h \notin unmarked', Once(h) PROVE Once(h)'
    BY <2>0, <2>a DEF OnceUnlessCrossed
  <2>1. CASE (\E g \in Hook : Deliver(s, g)) \/ CannotVerify(s) \/ SkipDuplicate(s) \/ SharesId(s)
             \/ Answer(s) \/ HookFails(s)
    <3>1. UNCHANGED <<applied, processed>>
      BY <2>1 DEF Deliver, CannotVerify, SkipDuplicate, SharesId, Answer, HookFails
    <3>2. /\ server'[s].at \in {"idle", "check"}
          /\ \A t \in Server \ {s} : server'[t] = server[t]
      <4>1. \/ server' = [server EXCEPT ![s] = Free]
            \/ \E g \in Hook : server' = [server EXCEPT ![s] = [Free EXCEPT !.at = "check", !.hook = g]]
        BY <2>1 DEF Deliver, CannotVerify, SkipDuplicate, SharesId, Answer, HookFails, Leaves
      <4>2. CASE server' = [server EXCEPT ![s] = Free]
        BY <2>0, <4>2, FreeAt
      <4>3. ASSUME NEW g \in Hook, server' = [server EXCEPT ![s] = [Free EXCEPT !.at = "check", !.hook = g]]
            PROVE  server'[s].at = "check" /\ \A t \in Server \ {s} : server'[t] = server[t]
        BY <2>0, <4>3, FreeAt
      <4> QED BY <4>1, <4>2, <4>3, FreeAt
    <3>3. Passed(h)' \subseteq Passed(h) /\ \A t \in Passed(h)' : server'[t].at = server[t].at
      BY <3>2 DEF Passed
    <3> QED BY <3>1, <3>3, OnceKept
  <2>2. CASE PassCheck(s)
    <3>1. /\ server[s].hook \notin processed /\ UNCHANGED <<applied, processed>>
          /\ server[s].at = "check" /\ server' = [server EXCEPT ![s].at = "mark"]
      BY <2>2 DEF PassCheck, Step
    <3>2. CASE h # server[s].hook
      <4>1. Passed(h)' \subseteq Passed(h) /\ \A t \in Passed(h)' : server'[t].at = server[t].at
        BY <2>0, <3>1, <3>2 DEF Passed, Delivery
      <4> QED BY <3>1, <4>1, OnceKept
    <3>3. CASE h = server[s].hook
      <4>1. Passed(h) = {}
        BY <2>2, <3>1, <3>3 DEF Once, Passed, PassCheck
      <4>2. Passed(h)' \subseteq {s} /\ server'[s].at = "mark"
        BY <2>0, <3>1, <4>1 DEF Passed, Delivery
      <4> QED BY <3>1, <3>3, <4>2 DEF Once
    <3> QED BY <3>2, <3>3
  <2>3. CASE Mark(s)
    <3>1. /\ server[s].at = "mark" /\ server' = [server EXCEPT ![s].at = "route"]
          /\ processed' \in {processed, processed \cup {server[s].hook}} /\ UNCHANGED applied
          /\ h = server[s].hook => processed' = processed \cup {h}
      BY <2>3 DEF Mark, Step
    <3>2. CASE h # server[s].hook
      <4>1. Passed(h)' = Passed(h) /\ \A t \in Passed(h)' : server'[t].at = server[t].at
        BY <2>0, <3>1, <3>2 DEF Passed, Delivery
      <4> QED BY <3>1, <3>2, <4>1 DEF Once
    <3>3. CASE h = server[s].hook
      <4>1. s \in Passed(h) /\ Passed(h) \subseteq {s}
        BY <3>1, <3>3 DEF Passed, Once
      <4>2. Passed(h)' \subseteq {s} /\ server'[s].at = "route"
        BY <2>0, <3>1, <4>1 DEF Passed, Delivery
      <4>3. applied[h] = 0
        BY <2>0, <4>1 DEF Once
      <4> QED BY <3>1, <3>3, <4>2, <4>3 DEF Once
    <3> QED BY <3>2, <3>3
  <2>4. CASE CheckFails(s)
    <3>1. /\ h # server[s].hook /\ server' = [server EXCEPT ![s].at = "route"]
          /\ UNCHANGED <<applied, processed>>
      BY <2>4 DEF CheckFails
    <3>2. Passed(h)' \subseteq Passed(h) /\ \A t \in Passed(h)' : server'[t].at = server[t].at
      BY <2>0, <3>1 DEF Passed, Delivery
    <3> QED BY <3>1, <3>2, OnceKept
  <2>5. CASE Route(s)
    <3>1. /\ server[s].at = "route" /\ UNCHANGED <<applied, processed>>
          /\ server'[s].at = "apply" /\ server'[s].hook = server[s].hook
          /\ \A t \in Server \ {s} : server'[t] = server[t]
      BY <2>0, <2>5 DEF Route, Delivery
    <3>2. Passed(h)' = Passed(h)
      BY <3>1 DEF Passed
    <3>3. \A t \in Passed(h) : server'[t].at = "mark" <=> server[t].at = "mark"
      BY <3>1 DEF Passed
    <3> QED BY <3>1, <3>2, <3>3 DEF Once
  <2>6. CASE Apply(s)
    <3>1. /\ server[s].at = "apply" /\ server' = [server EXCEPT ![s].at = "record"]
          /\ applied' = [applied EXCEPT ![server[s].hook] = @ + 1] /\ UNCHANGED processed
      BY <2>6 DEF Apply, Step
    <3>2. Passed(h)' \subseteq Passed(h) \ {s} /\ \A t \in Passed(h)' : server'[t].at = server[t].at
      BY <2>0, <3>1 DEF Passed, Delivery
    <3>3. CASE h # server[s].hook
      <4>1. applied'[h] = applied[h]
        BY <2>0, <3>1, <3>3
      <4>2. s \notin Passed(h)
        BY <3>3 DEF Passed
      <4> QED BY <3>1, <3>2, <4>1 DEF Once
    <3>4. CASE h = server[s].hook
      <4>1. s \in Passed(h) /\ Passed(h)' = {}
        BY <3>1, <3>2, <3>4 DEF Passed, Once
      <4>2. h \in processed /\ applied[h] = 0
        BY <2>0, <3>1, <4>1 DEF Once
      <4>3. applied'[h] = 1
        BY <2>0, <3>1, <3>4, <4>2
      <4> QED BY <3>1, <4>1, <4>2, <4>3 DEF Once
    <3> QED BY <3>3, <3>4
  <2> QED BY <1>2, <2>1, <2>2, <2>3, <2>4, <2>5, <2>6 DEF DeliveryStep
<1> QED BY <1>1, <1>2, OthersLeaveHooks DEF OnceUnlessCrossed

\* A payment event whose payload carries an id changes the tenant once, however
\* often it is delivered, unless two deliveries passed the check together or the
\* check failed. Nothing is promised of an event without an id.
THEOREM PaymentsAppliedOnce == AiSpec => []AppliedOnce
<1>1. AiSpec => [](Typed /\ OnceUnlessCrossed)
  BY AiInitTyped, StepTyped, InitOnce, StepOnce, PTL DEF AiSpec
<1>2. Typed /\ OnceUnlessCrossed => AppliedOnce
  BY DEF OnceUnlessCrossed, Once, AppliedOnce
<1> QED BY <1>1, <1>2, PTL

\* What became of an event that was marked, or answered.
Covered(h) ==
  \/ applied[h] > 0 \/ h \in dropped
  \/ \E s \in Server : server[s].hook = h /\ server[s].at \in {"route", "apply"}

AllCovered ==
  /\ \A h \in processed \cup answered : Covered(h)
  /\ \A s \in Server : server[s].at = "record" => applied[server[s].hook] > 0

LEMMA InitCovered == AiInit => AllCovered
BY DEF AiInit, BillingInit, Free, AllCovered

LEMMA StepCovered ==
  ASSUME Typed, AllCovered, [AiNext]_aiVars
  PROVE  AllCovered'
<1>1. CASE UNCHANGED hookVars
  BY <1>1 DEF AllCovered, Covered, hookVars
<1>2. ASSUME NEW s \in Server, DeliveryStep(s) PROVE AllCovered'
  <2>0. /\ server \in [Server -> Delivery] /\ applied \in [Hook -> Nat]
        /\ processed \subseteq Hook /\ answered \subseteq Hook
        /\ \A t \in Server : server[t].at # "idle" => server[t].hook \in Hook
    BY DEF Typed, AiTypeOK, BillingTypeOK
  <2>1. /\ \A h \in Hook : applied'[h] >= applied[h] /\ applied'[h] \in Nat
        /\ dropped \subseteq dropped'
        /\ \A t \in Server \ {s} : server'[t] = server[t]
    <3>1. \A h \in Hook : applied'[h] >= applied[h] /\ applied'[h] \in Nat
      <4>1. UNCHANGED applied \/ Apply(s)
        BY <1>2 DEF DeliveryStep, Deliver, CannotVerify, SkipDuplicate, SharesId, PassCheck,
                    Mark, CheckFails, Route, Answer, HookFails
      <4>2. CASE Apply(s)
        BY <2>0, <4>2 DEF Apply
      <4> QED BY <2>0, <4>1, <4>2
    <3>2. dropped \subseteq dropped'
      BY <1>2 DEF DeliveryStep, Deliver, CannotVerify, SkipDuplicate, SharesId, PassCheck, Mark,
                  CheckFails, Route, Apply, Answer, HookFails
    <3>3. \A t \in Server \ {s} : server'[t] = server[t]
      BY <1>2, <2>0 DEF DeliveryStep, Deliver, CannotVerify, SkipDuplicate, SharesId, PassCheck,
                        Mark, CheckFails, Route, Apply, Answer, HookFails, Step, Leaves
    <3> QED BY <3>1, <3>2, <3>3
  <2>2. server'[s].at = "record" => applied'[server'[s].hook] > 0
    <3>1. CASE Apply(s)
      <4>1. server'[s].hook = server[s].hook /\ server[s].hook \in Hook
        BY <2>0, <3>1 DEF Apply, Step, Delivery
      <4> QED BY <2>0, <3>1, <4>1 DEF Apply
    <3>2. CASE ~Apply(s)
      <4>1. \/ \E l \in {"mark", "route"} : server' = [server EXCEPT ![s].at = l]
            \/ server' = [server EXCEPT ![s] = Free]
            \/ \E g \in Hook : server' = [server EXCEPT ![s] = [Free EXCEPT !.at = "check", !.hook = g]]
            \/ \E a \in {ActFor(post[server[s].hook])} :
                 server' = [server EXCEPT ![s].at = "apply", ![s].act = a]
        BY <1>2, <3>2 DEF DeliveryStep, Deliver, CannotVerify, SkipDuplicate, SharesId,
                          PassCheck, Mark, CheckFails, Route, Answer, HookFails, Step, Leaves
      <4>2. server'[s].at # "record"
        <5>1. CASE server' = [server EXCEPT ![s] = Free]
          BY <2>0, <5>1, FreeAt
        <5>2. ASSUME NEW g \in Hook,
                     server' = [server EXCEPT ![s] = [Free EXCEPT !.at = "check", !.hook = g]]
              PROVE  server'[s].at = "check"
          BY <2>0, <5>2, FreeAt
        <5>3. ASSUME NEW l \in {"mark", "route"}, server' = [server EXCEPT ![s].at = l]
              PROVE  server'[s].at = l
          BY <2>0, <5>3 DEF Delivery
        <5>4. ASSUME NEW a, server' = [server EXCEPT ![s].at = "apply", ![s].act = a]
              PROVE  server'[s].at = "apply"
          BY <2>0, <5>4 DEF Delivery
        <5> QED BY <4>1, <5>1, <5>2, <5>3, <5>4, FreeAt
      <4> QED BY <4>2
    <3> QED BY <3>1, <3>2
  <2>3. \A t \in Server : server'[t].at = "record" => applied'[server'[t].hook] > 0
    BY <2>0, <2>1, <2>2 DEF AllCovered
  <2>4. ASSUME NEW h \in Hook, Covered(h) PROVE Covered(h)'
    <3>1. CASE server[s].hook = h /\ server[s].at \in {"route", "apply"}
      <4>1. CASE Route(s)
        BY <2>0, <3>1, <4>1 DEF Route, Covered, Delivery
      <4>2. CASE Apply(s)
        BY <2>0, <3>1, <4>2 DEF Apply, Covered
      <4>3. CASE HookFails(s)
        BY <3>1, <4>3 DEF HookFails, Covered
      <4> QED BY <1>2, <3>1, <4>1, <4>2, <4>3 DEF DeliveryStep, Deliver, CannotVerify,
                                                  SkipDuplicate, SharesId, PassCheck, Mark,
                                                  CheckFails, Answer, Step
    <3>2. CASE ~(server[s].hook = h /\ server[s].at \in {"route", "apply"})
      BY <2>0, <2>1, <2>4, <3>2 DEF Covered
    <3> QED BY <3>1, <3>2
  <2>5. ASSUME NEW h \in processed' \cup answered' PROVE Covered(h)'
    <3>1. CASE h \in processed \cup answered
      BY <2>0, <2>4, <3>1 DEF AllCovered
    <3>2. CASE h \notin processed \cup answered
      <4>1. /\ server[s].hook = h
            /\ CannotVerify(s) \/ SkipDuplicate(s) \/ SharesId(s) \/ Mark(s) \/ Answer(s)
        BY <1>2, <2>5, <3>2 DEF DeliveryStep, Deliver, CannotVerify, SkipDuplicate, SharesId,
                                PassCheck, Mark, CheckFails, Route, Apply, Answer, HookFails,
                                Answers
      <4>2. CASE CannotVerify(s) \/ SharesId(s)
        BY <4>1, <4>2 DEF CannotVerify, SharesId, Covered
      <4>3. ~SkipDuplicate(s)
        BY <3>2, <4>1 DEF SkipDuplicate
      <4>4. CASE Mark(s)
        BY <2>0, <4>1, <4>4 DEF Mark, Step, Covered, Delivery
      <4>5. CASE Answer(s)
        BY <2>0, <2>1, <4>1, <4>5 DEF Answer, Covered, AllCovered
      <4> QED BY <4>1, <4>2, <4>3, <4>4, <4>5
    <3> QED BY <3>1, <3>2
  <2> QED BY <2>3, <2>5 DEF AllCovered
<1> QED BY <1>1, <1>2, OthersLeaveHooks

\* An event the provider was told is received has been applied, or will be by a
\* delivery in progress, or a failure took it, or it was skipped under an id it
\* shares with another event.
THEOREM PaymentsNotDropped == AiSpec => []PaymentNotDropped
<1>1. AiSpec => [](Typed /\ AllCovered)
  BY AiInitTyped, StepTyped, InitCovered, StepCovered, PTL DEF AiSpec
<1>2. AllCovered => PaymentNotDropped
  BY DEF AllCovered, Covered, PaymentNotDropped
<1> QED BY <1>1, <1>2, PTL

-----------------------------------------------------------------------------
(* The sweep. *)

\* What a step may do to the tenant: a sweep closes or expires the trial, a
\* webhook or a request writes and overtakes the sweeps, and the rest touches
\* nothing the sweep looks at.
Shuts(r) ==
  /\ sweep[r] # "idle" /\ sweep' = [sweep EXCEPT ![r] = "idle"] /\ UNCHANGED overtaken
  /\ tenant' = IF sweep[r] = "expire" THEN [tenant EXCEPT !.trial = FALSE, !.status = "EXPIRED"]
                                      ELSE [tenant EXCEPT !.trial = FALSE]

Lists(r) ==
  /\ Due /\ UNCHANGED tenant /\ overtaken' = overtaken \ {r} /\ sweep[r] = "idle"
  /\ sweep' = [sweep EXCEPT ![r] = IF tenant.customer THEN "close" ELSE "expire"]

GivesUp(r) ==
  /\ sweep[r] # "idle" /\ sweep' = [sweep EXCEPT ![r] = "idle"] /\ UNCHANGED <<tenant, overtaken>>

Writes ==
  /\ UNCHANGED sweep /\ overtaken' = overtaken \cup {r \in Replica : sweep[r] # "idle"}
  /\ tenant.customer => tenant'.customer
  /\ tenant'.status = "EXPIRED" => tenant.status = "EXPIRED"

Unseen ==
  /\ UNCHANGED <<sweep, overtaken>>
  /\ tenant'.customer = tenant.customer /\ tenant'.status = tenant.status
  /\ Due => Due'

LEMMA ActsSeen ==
  ASSUME tenant \in Tenant, NEW act \in Act, NEW plan
  PROVE  /\ tenant.customer => AfterAct(act, plan).customer
         /\ AfterAct(act, plan).status = "EXPIRED" => tenant.status = "EXPIRED"
<1>1. CASE act = "trial"
  <2>1. AfterAct(act, plan).status = "TRIALING" /\ AfterAct(act, plan).customer
    BY <1>1 DEF AfterAct, TrialStarted, Tenant
  <2> QED BY <2>1
<1>2. CASE act = "activate"
  BY <1>2 DEF AfterAct, Activated, Tenant
<1>3. CASE act \in {"none", "customer", "cancel", "failed"}
  BY <1>3 DEF AfterAct, Tenant
<1> QED BY <1>1, <1>2, <1>3 DEF Act

LEMMA StepsSeen ==
  ASSUME Typed, [AiNext]_aiVars
  PROVE  Unseen \/ Writes \/ \E r \in Replica : Shuts(r) \/ Lists(r) \/ GivesUp(r)
<1>0. tenant \in Tenant
  BY DEF Typed, AiTypeOK, BillingTypeOK
<1>1. CASE UNCHANGED <<tenant, sweep, overtaken>>
  BY <1>1 DEF Unseen, Due
<1>2. ASSUME NEW s \in Server, DeliveryStep(s)
      PROVE  Writes \/ UNCHANGED <<tenant, sweep, overtaken>>
  <2>1. CASE Apply(s)
    <3>1. server[s].act \in Act
      BY DEF Typed, AiTypeOK, BillingTypeOK, Delivery
    <3>2. tenant' = AfterAct(server[s].act, post[server[s].hook].plan) /\ UNCHANGED sweep
          /\ IF server[s].act = "none" THEN UNCHANGED overtaken ELSE Overtakes
      BY <2>1 DEF Apply
    <3>3. CASE server[s].act = "none"
      BY <3>2, <3>3 DEF AfterAct
    <3>4. CASE server[s].act # "none"
      BY <1>0, <3>1, <3>2, <3>4, ActsSeen DEF Overtakes, Writes
    <3> QED BY <3>3, <3>4
  <2> QED BY <1>2, <2>1 DEF DeliveryStep, Deliver, CannotVerify, SkipDuplicate, SharesId,
                            PassCheck, Mark, CheckFails, Route, Answer, HookFails
<1>3. CASE \E r \in Replica : SweepStep(r)
  BY <1>3 DEF SweepStep, SweepReads, SweepWrites, SweepFails, Shuts, Lists, GivesUp
<1>4. CASE Verify \/ Subscribe
  <2>1. tenant' = TrialStarted \/ tenant' = [tenant EXCEPT !.customer = TRUE]
    BY <1>4 DEF Verify, Subscribe
  <2>2. /\ tenant.customer => tenant'.customer
        /\ tenant'.status = "EXPIRED" => tenant.status = "EXPIRED"
    BY <1>0, <2>1 DEF TrialStarted, Tenant
  <2> QED BY <1>4, <2>2 DEF Verify, Subscribe, Overtakes, Writes
<1>5. CASE TrialEnds
  BY <1>0, <1>5 DEF TrialEnds, Unseen, Due, Tenant
<1>6. CASE MonthlyReset
  BY <1>0, <1>6 DEF MonthlyReset, Unseen, Due, Tenant
<1>7. ASSUME NEW c \in Caller, AskStep(c) PROVE Unseen \/ UNCHANGED <<tenant, sweep, overtaken>>
  <2>1. CASE Count(c)
    BY <1>0, <2>1 DEF Count, Unseen, Due, Tenant
  <2>2. UNCHANGED <<tenant, sweep, overtaken>> \/ Count(c)
    BY <1>7 DEF AskStep, Admit, OpenAIAnswers, OpenAIFails, CountFails, billingVars
  <2> QED BY <2>1, <2>2
<1>8. CASE UNCHANGED aiVars
  BY <1>1, <1>8 DEF aiVars, billingVars
<1> QED BY <1>1, <1>2, <1>3, <1>4, <1>5, <1>6, <1>7, <1>8 DEF AiNext, BillingNext

\* A sweep that nothing has overtaken still knows the tenant.
SweepsKnow ==
  \A r \in Replica :
    /\ sweep[r] = "close" => tenant.customer
    /\ sweep[r] = "expire" /\ r \notin overtaken =>
         ~tenant.customer /\ (Due \/ tenant.status = "EXPIRED")

LEMMA InitKnow == AiInit => SweepsKnow
BY DEF AiInit, BillingInit, SweepsKnow

LEMMA StepKnow ==
  ASSUME Typed, SweepsKnow, [AiNext]_aiVars
  PROVE  SweepsKnow'
<1>0. tenant \in Tenant /\ sweep \in [Replica -> Sweep]
  BY DEF Typed, AiTypeOK, BillingTypeOK
<1>1. CASE Unseen
  BY <1>1 DEF Unseen, SweepsKnow
<1>2. CASE Writes
  BY <1>2 DEF Writes, SweepsKnow
<1>3. ASSUME NEW r \in Replica, Shuts(r) PROVE SweepsKnow'
  <2>1. /\ sweep'[r] = "idle" /\ \A q \in Replica \ {r} : sweep'[q] = sweep[q]
        /\ tenant'.customer = tenant.customer /\ UNCHANGED overtaken
    BY <1>0, <1>3 DEF Shuts, Tenant
  <2>2. CASE sweep[r] = "expire"
    <3>1. tenant'.status = "EXPIRED"
      BY <1>0, <1>3, <2>2 DEF Shuts, Tenant
    <3> QED BY <2>1, <3>1 DEF SweepsKnow
  <2>3. CASE sweep[r] = "close"
    <3>1. tenant.customer
      BY <2>3 DEF SweepsKnow
    <3> QED BY <2>1, <3>1 DEF SweepsKnow
  <2> QED BY <1>0, <1>3, <2>2, <2>3 DEF Shuts, Sweep
<1>4. ASSUME NEW r \in Replica, Lists(r) PROVE SweepsKnow'
  <2>1. /\ \A q \in Replica \ {r} : sweep'[q] = sweep[q] /\ (q \in overtaken' <=> q \in overtaken)
        /\ sweep'[r] = IF tenant.customer THEN "close" ELSE "expire"
        /\ Due /\ Due' /\ UNCHANGED tenant
    BY <1>0, <1>4 DEF Lists, Due
  <2> QED BY <2>1 DEF SweepsKnow
<1>5. ASSUME NEW r \in Replica, GivesUp(r) PROVE SweepsKnow'
  BY <1>0, <1>5 DEF GivesUp, SweepsKnow, Due
<1> QED BY <1>1, <1>2, <1>3, <1>4, <1>5, StepsSeen

\* The sweep expires only a tenant whose trial is over and who has no customer
\* code, unless the row was written between its read and its write.
THEOREM TrialsExpireRightly == AiSpec => ExpiredRightly
<1> DEFINE A == \A r \in Replica :
       (sweep[r] = "expire" /\ tenant.status # "EXPIRED" /\ tenant'.status = "EXPIRED"
          /\ sweep'[r] = "idle")
         => (Due /\ ~tenant.customer) \/ r \in overtaken
<1>1. AiSpec => [](Typed /\ SweepsKnow)
  BY AiInitTyped, StepTyped, InitKnow, StepKnow, PTL DEF AiSpec
<1>2. ASSUME Typed, SweepsKnow, [AiNext]_aiVars PROVE A
  <2> SUFFICES ASSUME NEW r \in Replica, sweep[r] = "expire", tenant.status # "EXPIRED",
                      tenant'.status = "EXPIRED", sweep'[r] = "idle", r \notin overtaken
               PROVE  Due /\ ~tenant.customer
    OBVIOUS
  <2> QED BY <1>2 DEF SweepsKnow
<1>3. Typed /\ SweepsKnow /\ [AiNext]_aiVars => [A]_billingVars
  BY <1>2
<1> QED BY <1>1, <1>3, PTL DEF AiSpec, ExpiredRightly

-----------------------------------------------------------------------------
(* The metered requests. *)

Open == {c \in Caller : ask[c] # "idle"}

Counting == {c \in Caller : ask[c] = "counting"}

\* Cap is the highest of the limits.
LEMMA CapIsHighest == Cap \in Nat /\ \A n \in Limits : n \in Nat /\ n <= Cap
<1>1. \A n \in Limits : n \in Nat
  BY BillingAssumption, AiAssumption DEF Limits, Plan
<1>2. \E n \in Limits : \A m \in Limits : m <= n
  <2>1. Limits = {TrialCap, CapOf["SMS"], CapOf["AI"], CapOf["TRIAL"], CapOf["signup"]}
    BY DEF Limits, Plan
  <2> DEFINE P(x, y) == IF x <= y THEN y ELSE x
             n1 == P(TrialCap, CapOf["SMS"])
             n2 == P(n1, CapOf["AI"])
             n3 == P(n2, CapOf["TRIAL"])
             n4 == P(n3, CapOf["signup"])
  <2>2. n1 \in Limits /\ TrialCap <= n1 /\ CapOf["SMS"] <= n1
    BY <1>1, <2>1
  <2> HIDE DEF n1
  <2>3. n2 \in Limits /\ n1 <= n2 /\ CapOf["AI"] <= n2
    BY <1>1, <2>1, <2>2
  <2> HIDE DEF n2
  <2>4. n3 \in Limits /\ n2 <= n3 /\ CapOf["TRIAL"] <= n3
    BY <1>1, <2>1, <2>3
  <2> HIDE DEF n3
  <2>5. n4 \in Limits /\ n3 <= n4 /\ CapOf["signup"] <= n4
    BY <1>1, <2>1, <2>4
  <2> HIDE DEF n4
  <2>6. \A m \in Limits : m <= n4
    BY <1>1, <2>1, <2>2, <2>3, <2>4, <2>5
  <2> QED BY <2>5, <2>6
<1> QED BY <1>1, <1>2 DEF Cap

LEMMA AllowanceIsNat ==
  Allowance \in Nat /\ Cardinality(Caller) \in Nat /\ Cardinality(Caller) >= 1
<1>1. Cardinality(Caller) \in Nat /\ Cardinality(Caller) # 0
  BY AiAssumption, FS_CardinalityType, FS_EmptySet
<1> QED BY <1>1, CapIsHighest DEF Allowance

\* How many requests are open, and how many of them wait to be counted.
LEMMA OpenRequests ==
  /\ IsFiniteSet(Open) /\ IsFiniteSet(Counting)
  /\ Cardinality(Open) \in Nat /\ Cardinality(Counting) \in Nat
  /\ Cardinality(Counting) <= Cardinality(Open) /\ Cardinality(Open) <= Cardinality(Caller)
<1>1. Open \subseteq Caller /\ Counting \subseteq Open
  BY DEF Open, Counting
<1>2. IsFiniteSet(Open) /\ Cardinality(Open) <= Cardinality(Caller)
  BY <1>1, AiAssumption, FS_Subset
<1>3. IsFiniteSet(Counting) /\ Cardinality(Counting) <= Cardinality(Open)
  BY <1>1, <1>2, FS_Subset
<1> QED BY <1>2, <1>3, FS_CardinalityType

\* Between two resets, the answers already paid for are on the counter, with the
\* requests still open, or lost to a fault; and counter and open requests
\* together stay within the allowance.
Metered ==
  /\ tenant.cap \in Limits
  /\ tenant.usage + Cardinality(Open) <= Allowance
  /\ Open # {} => Cap > 0
  /\ resets = 0 => tenant.plan = "SMS" /\ Open = {} /\ completions = 0
  /\ resets > 0 => completions + Allowance <=
                     resets * Allowance + faults + tenant.usage + Cardinality(Counting)

LEMMA InitMetered == AiInit => Metered
<1> SUFFICES ASSUME AiInit PROVE Metered
  OBVIOUS
<1>1. Open = {}
  BY DEF AiInit, Open
<1>2. Cardinality(Open) = 0
  BY <1>1, FS_EmptySet
<1> QED BY <1>1, <1>2, AllowanceIsNat DEF AiInit, BillingInit, Metered, Limits

\* A step of the billing either leaves the counter alone or resets it.
Keeps ==
  /\ tenant'.usage = tenant.usage /\ tenant'.plan = tenant.plan
  /\ tenant'.cap \in {tenant.cap, CapOf["TRIAL"]}
  /\ UNCHANGED resets

Resets ==
  /\ tenant'.usage = 0 /\ tenant'.cap \in {tenant.cap} \cup {CapOf[p] : p \in Plan}
  /\ resets' = resets + 1

LEMMA BillingKeepsOrResets ==
  ASSUME Typed, BillingNext \/ MonthlyReset
  PROVE  (Keeps \/ Resets) /\ faults' \in Nat /\ faults' >= faults
<1>0. tenant \in Tenant /\ faults \in Nat
  BY DEF Typed, AiTypeOK, BillingTypeOK
<1>1. faults' \in Nat /\ faults' >= faults
  <2>1. faults' = faults \/ faults' = faults + 1
    BY DEF BillingNext, DeliveryStep, Deliver, CannotVerify, SkipDuplicate, SharesId, PassCheck,
           Mark, CheckFails, Route, Apply, Answer, HookFails, SweepStep, SweepReads,
           SweepWrites, SweepFails, Verify, Subscribe, TrialEnds, MonthlyReset, BillingFault
  <2> QED BY <1>0, <2>1
<1>2. ASSUME NEW s \in Server, DeliveryStep(s) PROVE Keeps \/ Resets
  <2>1. CASE Apply(s)
    <3> DEFINE act == server[s].act
               plan == post[server[s].hook].plan
    <3>1. /\ act \in Act /\ (act = "activate" => plan \in Plan) /\ tenant' = AfterAct(act, plan)
          /\ resets' = IF act = "activate" THEN resets + 1 ELSE resets
      BY <2>1 DEF Typed, AiTypeOK, BillingTypeOK, PlansKnown, Delivery, Apply
    <3> HIDE DEF act, plan
    <3>2. CASE act = "activate"
      BY <1>0, <3>1, <3>2 DEF AfterAct, Activated, Resets, Tenant
    <3>3. CASE act = "trial"
      <4>1. tenant'.cap = CapOf["TRIAL"] /\ tenant'.usage = tenant.usage /\ tenant'.plan = tenant.plan
        BY <1>0, <3>1, <3>3 DEF AfterAct, TrialStarted, Tenant
      <4> QED BY <3>1, <3>3, <4>1 DEF Keeps
    <3>4. CASE act \in {"none", "customer", "cancel", "failed"}
      BY <1>0, <3>1, <3>4 DEF AfterAct, Keeps, Tenant
    <3> QED BY <3>1, <3>2, <3>3, <3>4 DEF Act
  <2>2. UNCHANGED <<tenant, resets>> \/ Apply(s)
    BY <1>2 DEF DeliveryStep, Deliver, CannotVerify, SkipDuplicate, SharesId, PassCheck, Mark,
                CheckFails, Route, Answer, HookFails
  <2> QED BY <2>1, <2>2 DEF Keeps
<1>3. CASE (\E r \in Replica : SweepStep(r)) \/ Verify \/ Subscribe \/ TrialEnds
  <2>1. UNCHANGED resets
    BY <1>3 DEF SweepStep, SweepReads, SweepWrites, SweepFails, Verify, Subscribe, TrialEnds
  <2>2. tenant' \in {tenant, TrialStarted, [tenant EXCEPT !.trial = FALSE, !.status = "EXPIRED"],
          [tenant EXCEPT !.trial = FALSE], [tenant EXCEPT !.customer = TRUE], [tenant EXCEPT !.ended = TRUE]}
    BY <1>3 DEF SweepStep, SweepReads, SweepWrites, SweepFails, Verify, Subscribe, TrialEnds
  <2>3. tenant'.usage = tenant.usage /\ tenant'.plan = tenant.plan /\ tenant'.cap = tenant.cap
    <3>1. CASE tenant' = TrialStarted
      BY <1>0, <3>1 DEF TrialStarted, Tenant
    <3>2. CASE tenant' # TrialStarted
      BY <1>0, <2>2, <3>2 DEF Tenant
    <3> QED BY <3>1, <3>2
  <2> QED BY <1>1, <2>1, <2>3 DEF Keeps
<1>4. CASE MonthlyReset
  BY <1>0, <1>4 DEF MonthlyReset, Resets, Tenant
<1> QED BY <1>1, <1>2, <1>3, <1>4 DEF BillingNext

\* The arithmetic of a reset: a period that ends leaves no more than the allowance.
LEMMA PeriodEnds ==
  ASSUME NEW a \in Nat, NEW n \in Nat, NEW f \in Nat, NEW u \in Nat, NEW k \in Nat, NEW c \in Nat,
         n > 0 => c + a <= n * a + f + u + k, n = 0 => c = 0, u + k <= a
  PROVE  c + a <= (n + 1) * a + f
<1>1. (n + 1) * a = n * a + a /\ n * a \in Nat
  OBVIOUS
<1> DEFINE m == n * a
<1>2. n = 0 => m = 0
  OBVIOUS
<1> HIDE DEF m
<1> QED BY <1>1, <1>2 DEF m

LEMMA MoreFaults ==
  ASSUME NEW c \in Nat, NEW a \in Nat, NEW b \in Nat, NEW k \in Nat, NEW f \in Nat, NEW g \in Nat,
         c + a <= b + f, f <= g
  PROVE  c + a <= b + g + 0 + k
OBVIOUS

LEMMA BillingMetered ==
  ASSUME Typed, Metered, (BillingNext /\ UNCHANGED <<ask, completions>>) \/ MonthlyReset
  PROVE  Metered'
<1>0. /\ tenant \in Tenant /\ resets \in Nat /\ faults \in Nat /\ completions \in Nat
      /\ tenant.usage \in Nat
  BY DEF Typed, AiTypeOK, BillingTypeOK, Tenant
<1>1. UNCHANGED <<ask, completions>> /\ Open' = Open /\ Counting' = Counting
  BY DEF Open, Counting, MonthlyReset
<1>2. (Keeps \/ Resets) /\ faults' \in Nat /\ faults' >= faults
  BY BillingKeepsOrResets
<1>3. \A p \in Plan \cup {"TRIAL"} : CapOf[p] \in Limits
  BY DEF Limits
<1> DEFINE a == Allowance
           k == Cardinality(Counting)
           o == Cardinality(Open)
           m == resets * a
<1>4. a \in Nat /\ k \in Nat /\ o \in Nat /\ k <= o /\ m \in Nat
  BY <1>0, AllowanceIsNat, OpenRequests
<1>5. CASE Keeps
  <2>1. tenant'.cap \in Limits
    BY <1>3, <1>5 DEF Keeps, Metered
  <2>2. tenant'.usage = tenant.usage /\ tenant'.plan = tenant.plan /\ resets' = resets
    BY <1>5 DEF Keeps
  <2>3. resets > 0 => completions + a <= m + faults' + tenant.usage + k
    <3>1. resets > 0 => completions + a <= m + faults + tenant.usage + k
      BY DEF Metered
    <3> HIDE DEF a, k, m, o
    <3> QED BY <1>0, <1>2, <1>4, <3>1
  <2> QED BY <1>1, <2>1, <2>2, <2>3 DEF Metered
<1>6. CASE Resets
  <2>1. tenant'.cap \in Limits /\ tenant'.usage = 0 /\ resets' = resets + 1 /\ resets' > 0
    BY <1>0, <1>3, <1>6 DEF Resets, Metered
  <2>2. 0 + o <= a
    <3>1. CASE Open = {}
      BY <1>4, <3>1, FS_EmptySet
    <3>2. CASE Open # {}
      BY <3>2, CapIsHighest, OpenRequests, AllowanceIsNat DEF Metered, Allowance
    <3> QED BY <3>1, <3>2
  <2>3. completions + a <= (resets + 1) * a + faults
    <3>1. /\ resets > 0 => completions + a <= resets * a + faults + tenant.usage + k
          /\ resets = 0 => completions = 0
          /\ tenant.usage + o <= a
      BY DEF Metered
    <3> HIDE DEF a, k, o
    <3>2. tenant.usage + k <= a
      BY <1>0, <1>4, <3>1
    <3> QED BY <1>0, <1>4, <3>1, <3>2, PeriodEnds
  <2>4. completions + a <= (resets + 1) * a + faults' + 0 + k
    <3> DEFINE b == (resets + 1) * a
    <3>1. b \in Nat
      BY <1>0, <1>4
    <3>2. completions + a <= b + faults
      BY <2>3
    <3> HIDE DEF a, b, k, m, o
    <3>3. /\ a \in Nat /\ b \in Nat /\ k \in Nat /\ completions \in Nat /\ faults \in Nat
          /\ faults' \in Nat /\ faults <= faults'
      BY <1>0, <1>2, <1>4, <3>1
    <3> QED BY <3>2, <3>3, MoreFaults DEF b
  <2> QED BY <1>1, <2>1, <2>2, <2>4 DEF Metered
<1> QED BY <1>2, <1>5, <1>6

\* One request more or less among the open ones.
LEMMA OpenGrows ==
  ASSUME NEW c \in Caller, c \notin Open, Open' = Open \cup {c}
  PROVE  Cardinality(Open)' = Cardinality(Open) + 1
BY OpenRequests, FS_AddElement

LEMMA RequestsMetered ==
  ASSUME Typed, Metered, NEW c \in Caller, AskStep(c)
  PROVE  Metered'
<1> DEFINE a == Allowance
           m == resets * a
<1>0. /\ tenant \in Tenant /\ resets \in Nat /\ faults \in Nat /\ completions \in Nat
      /\ tenant.usage \in Nat /\ tenant.cap \in Nat /\ ask \in [Caller -> {"idle", "asking", "counting"}]
      /\ a \in Nat /\ m \in Nat /\ UNCHANGED resets
      /\ Cardinality(Open) \in Nat /\ Cardinality(Counting) \in Nat
  BY AllowanceIsNat, OpenRequests
     DEF Typed, AiTypeOK, BillingTypeOK, Tenant, AskStep, Admit, OpenAIAnswers, OpenAIFails, Count,
         CountFails, billingVars
<1>1. CASE Admit(c)
  <2>1. /\ c \notin Open /\ Open' = Open \cup {c} /\ Counting' = Counting
    BY <1>0, <1>1 DEF Admit, Open, Counting
  <2>2. Cardinality(Open)' = Cardinality(Open) + 1
    BY <2>1, OpenGrows
  <2>3. tenant.plan = "AI" /\ tenant.usage < Limit /\ Limit \in Nat /\ Limit <= Cap
    BY <1>1, CapIsHighest DEF Admit, MayAsk, Limit, Limits, Metered
  <2>4. Cardinality(Open)' <= Cardinality(Caller)
    <3>1. Open' \subseteq Caller
      BY <2>1 DEF Open
    <3> QED BY <2>1, <3>1, AiAssumption, FS_Subset
  <2>5. tenant.usage + Cardinality(Open)' <= Allowance /\ Cap > 0
    BY <1>0, <2>2, <2>3, <2>4, CapIsHighest, AllowanceIsNat DEF Allowance
  <2>6. resets # 0
    BY <2>3 DEF Metered
  <2>7. UNCHANGED <<tenant, resets, faults, completions>>
    BY <1>1 DEF Admit
  <2> QED BY <2>1, <2>5, <2>6, <2>7 DEF Metered
<1>2. CASE OpenAIAnswers(c)
  <2>1. c \in Open /\ Open' = Open /\ c \notin Counting /\ Counting' = Counting \cup {c}
    BY <1>0, <1>2 DEF OpenAIAnswers, Open, Counting
  <2>2. Cardinality(Counting') = Cardinality(Counting) + 1
    BY <2>1, OpenRequests, FS_AddElement
  <2>3. completions' = completions + 1 /\ UNCHANGED <<tenant, resets, faults>>
    BY <1>2 DEF OpenAIAnswers, billingVars
  <2>4. resets > 0 => completions' + a <= m + faults + tenant.usage + Cardinality(Counting')
    <3>1. resets > 0 => completions + a <= m + faults + tenant.usage + Cardinality(Counting)
      BY DEF Metered
    <3> HIDE DEF a, m
    <3> QED BY <1>0, <2>2, <2>3, <3>1
  <2> QED BY <2>1, <2>3, <2>4 DEF Metered
<1>3. CASE OpenAIFails(c) \/ Count(c) \/ CountFails(c)
  <2>1. c \in Open /\ Open' = Open \ {c} /\ Counting' = Counting \ {c}
    BY <1>0, <1>3 DEF OpenAIFails, Count, CountFails, Open, Counting
  <2>2. Cardinality(Open') = Cardinality(Open) - 1
    BY <2>1, OpenRequests, FS_RemoveElement
  <2>3. tenant'.cap = tenant.cap /\ tenant'.plan = tenant.plan /\ completions' = completions
    BY <1>0, <1>3 DEF OpenAIFails, Count, CountFails, billingVars, Tenant
  <2>4. tenant'.usage + Cardinality(Open') <= a
    <3>1. tenant'.usage \in {tenant.usage, tenant.usage + 1}
      BY <1>0, <1>3 DEF OpenAIFails, Count, CountFails, billingVars, Tenant
    <3>2. tenant.usage + Cardinality(Open) <= a
      BY DEF Metered
    <3> HIDE DEF a, m
    <3> QED BY <1>0, <2>2, <3>1, <3>2
  <2>5. resets > 0 => completions + a <= m + faults' + tenant'.usage + Cardinality(Counting')
    <3>1. resets > 0 => completions + a <= m + faults + tenant.usage + Cardinality(Counting)
      BY DEF Metered
    <3>2. CASE OpenAIFails(c)
      <4>1. Counting' = Counting /\ UNCHANGED <<faults, tenant>>
        BY <1>0, <2>1, <3>2 DEF OpenAIFails, billingVars, Counting
      <4> QED BY <3>1, <4>1
    <3>3. CASE Count(c) \/ CountFails(c)
      <4>1. Cardinality(Counting') = Cardinality(Counting) - 1
        <5>1. c \in Counting
          BY <3>3 DEF Count, CountFails, Counting
        <5> QED BY <2>1, <5>1, OpenRequests, FS_RemoveElement
      <4>2. \/ faults' = faults /\ tenant'.usage = tenant.usage + 1
            \/ faults' = faults + 1 /\ tenant'.usage = tenant.usage
        BY <1>0, <3>3 DEF Count, CountFails, BillingFault, Tenant
      <4> HIDE DEF a, m
      <4> QED BY <1>0, <3>1, <4>1, <4>2
    <3> QED BY <1>3, <3>2, <3>3
  <2> QED BY <1>0, <2>1, <2>3, <2>4, <2>5 DEF Metered
<1> QED BY <1>1, <1>2, <1>3 DEF AskStep

LEMMA StepMetered ==
  ASSUME Typed, Metered, [AiNext]_aiVars
  PROVE  Metered'
<1>1. CASE UNCHANGED aiVars
  BY <1>1 DEF Metered, Open, Counting, aiVars, billingVars
<1> QED BY <1>1, BillingMetered, RequestsMetered DEF AiNext

LEMMA MeteredCaps == Typed /\ Metered => SpendingWithinCap
<1>1. ASSUME Typed, Metered PROVE SpendingWithinCap
  <2> DEFINE a == Allowance
             m == resets * a
             k == Cardinality(Counting)
  <2>1. /\ resets \in Nat /\ faults \in Nat /\ completions \in Nat /\ tenant.usage \in Nat
        /\ a \in Nat /\ m \in Nat /\ k \in Nat /\ k <= Cardinality(Open) /\ Cardinality(Open) \in Nat
    BY <1>1, AllowanceIsNat, OpenRequests DEF Typed, AiTypeOK, BillingTypeOK, Tenant
  <2>2. /\ resets > 0 => completions + a <= m + faults + tenant.usage + k
        /\ resets = 0 => completions = 0
        /\ tenant.usage + Cardinality(Open) <= a
    BY <1>1 DEF Metered
  <2> HIDE DEF a, m, k
  <2>3. completions <= m + faults
    BY <2>1, <2>2
  <2> QED BY <2>3 DEF a, m, SpendingWithinCap
<1> QED BY <1>1

\* Between two resets of the counter OpenAI is paid for no more answers than the
\* limit and the concurrent requests allow, and before the first for none, for
\* any limits and any number of requests at once.
THEOREM SpendingIsCapped == AiSpec => []SpendingWithinCap
<1>1. AiSpec => [](Typed /\ Metered)
  BY AiInitTyped, StepTyped, InitMetered, StepMetered, PTL DEF AiSpec
<1> QED BY <1>1, MeteredCaps, PTL

-----------------------------------------------------------------------------
(* The tenant as a whole. *)

\* A call of escalation is hit by a fault: billing sees a smaller budget.
Elsewhere ==
  /\ UNCHANGED <<tenant, hookVars, sweep, overtaken, resets, ask, completions>>
  /\ budget' \in [Budget -> Nat] /\ faults' \in Nat /\ faults <= faults'

LEMMA EscalationIsElsewhere ==
  ASSUME Typed, FailoverStep, UNCHANGED <<ask, completions>>
  PROVE  Elsewhere
<1>0. budget \in [Budget -> Nat] /\ faults \in Nat
  BY DEF Typed, AiTypeOK, BillingTypeOK
<1>1. ASSUME UNCHANGED billingVars PROVE Elsewhere
  BY <1>0, <1>1 DEF Elsewhere, billingVars, hookVars
<1>2. ASSUME BillingFault, UNCHANGED <<tenant, hookVars, sweep, overtaken, resets>> PROVE Elsewhere
  <2>1. budget' \in [Budget -> Nat]
    BY <1>0, <1>2, SpendTyped DEF BillingFault, Budget
  <2>2. faults' \in Nat /\ faults <= faults'
    BY <1>0, <1>2 DEF BillingFault
  <2> QED BY <1>2, <2>1, <2>2 DEF Elsewhere
<1>3. CASE HandlerStep
  BY <1>1, <1>2, <1>3 DEF HandlerStep, SendPrimary, SendPrimaryRefused, LogPrimary,
     ScheduleCheck, EndHandler, HandlerStartsOver, HandlerGivesUp, ChooseFailover, Escalate,
     EscalateRefused, LogFailover
<1>4. ASSUME NEW c \in DOMAIN copy, ProviderReports(c) PROVE Elsewhere
  BY <1>1, <1>4 DEF ProviderReports, Becomes
<1>5. ASSUME NEW l \in Line, LineStep(l) PROVE Elsewhere
  BY <1>1, <1>2, <1>5 DEF LineStep, ReceiveReport, UpdateRow, MarkDelivered,
     Detect, NoFallback, ChooseFallback, SendFallback, SendFallbackRefused, LogFallback, LineFails
<1>6. CASE CheckStep
  BY <1>1, <1>2, <1>6 DEF CheckStep, CheckReads, CheckPlan, CheckSends,
     CheckRefused, CheckLogs, CheckFaults
<1> QED BY <1>3, <1>4, <1>5, <1>6 DEF FailoverStep

\* What billing and the AI requests keep by themselves.
BillingInv == Typed /\ OnceUnlessCrossed /\ AllCovered /\ SweepsKnow /\ Metered

LEMMA BillingInvStep == BillingInv /\ [AiNext]_aiVars => BillingInv'
BY StepTyped, StepOnce, StepCovered, StepKnow, StepMetered DEF BillingInv

LEMMA BillingInvElsewhere == BillingInv /\ Elsewhere => BillingInv'
<1> SUFFICES ASSUME BillingInv, Elsewhere PROVE BillingInv'
  OBVIOUS
<1>1. /\ UNCHANGED <<tenant, post, server, processed, sweep, answered, applied, crossed, unmarked,
                     dropped, overtaken, resets, ask, completions>>
      /\ budget' \in [Budget -> Nat] /\ faults' \in Nat /\ faults <= faults'
  BY DEF Elsewhere, hookVars
<1>2. Typed'
  BY <1>1 DEF BillingInv, Typed, AiTypeOK, BillingTypeOK, PlansKnown
<1>3. OnceUnlessCrossed'
  BY <1>1 DEF BillingInv, OnceUnlessCrossed, Once, Passed
<1>4. AllCovered'
  BY <1>1 DEF BillingInv, AllCovered, Covered
<1>5. SweepsKnow'
  BY <1>1 DEF BillingInv, SweepsKnow, Due
<1>6. Metered'
  <2> DEFINE a == Allowance
             m == resets * a
             k == Cardinality(Counting)
  <2>1. Open' = Open /\ Counting' = Counting
    BY <1>1 DEF Open, Counting
  <2>2. /\ resets \in Nat /\ faults \in Nat /\ completions \in Nat /\ tenant.usage \in Nat
        /\ a \in Nat /\ m \in Nat /\ k \in Nat
    BY AllowanceIsNat, OpenRequests DEF BillingInv, Typed, AiTypeOK, BillingTypeOK, Tenant
  <2>3. resets > 0 => completions + a <= m + faults + tenant.usage + k
    BY DEF BillingInv, Metered
  <2>4. resets' > 0 => completions' + a <= resets' * a + faults' + tenant'.usage + Cardinality(Counting')
    <3>1. resets > 0 => completions + a <= m + faults' + tenant.usage + k
      <4> HIDE DEF a, m, k
      <4> QED BY <1>1, <2>2, <2>3
    <3> HIDE DEF a
    <3> QED BY <1>1, <2>1, <3>1
  <2> QED BY <1>1, <2>1, <2>4 DEF BillingInv, Metered
<1> QED BY <1>2, <1>3, <1>4, <1>5, <1>6 DEF BillingInv

\* What escalation keeps by itself.
EscalationInv ==
  Typing /\ Heeded /\ Bounded /\ ReadsSound /\ CheckHonest /\ LinesRouted /\ Traced

LEMMA EscalationInvStep == EscalationInv /\ FailoverStep => EscalationInv'
BY TypingKept, AnsweredKept, BoundedKept, SoundnessKept, CheckStaysHonest, RoutedKept, TracedKept
   DEF EscalationInv, FailoverNext

LEMMA EscalationInvRests ==
  ASSUME EscalationInv, UNCHANGED failoverVars, faults' \in Nat, faults <= faults'
  PROVE  EscalationInv'
<1>1. /\ UNCHANGED <<setup, worker, reminder, copy, row, flight, line, check>>
      /\ UNCHANGED failoverHistory /\ UNCHANGED <<heard, tried, early, overrun, readIn>>
  BY DEF failoverVars, failoverHistory
<1>2. Typing' /\ copy \in Seq(Copy)
  <2>1. copy \in Seq(Copy)
    BY DEF EscalationInv, Typing
  <2> QED BY <1>1, <2>1, OthersTyped DEF EscalationInv, Typing, Peopled
<1>3. Heeded'
  BY <1>1 DEF EscalationInv, Heeded, LineKnows, Tells, RowsOf
<1>4. Bounded'
  <2>1. \A c : Handlings(c)' \subseteq Handlings(c)
    BY <1>1 DEF Handlings
  <2> QED BY <1>1, <2>1, QuietBounded DEF EscalationInv, Bounded
<1>5. ReadsSound' /\ CheckHonest'
  BY <1>1 DEF EscalationInv, ReadsSound, CheckHonest, Superseded, Tells, RowsOf, WhatsApp
<1>6. LinesRouted' /\ Traced'
  BY <1>1 DEF EscalationInv, LinesRouted, LineRouted, NextOf, ServiceChains, Traced, Trace,
     ClosedBackwards, NoRepeats
<1> QED BY <1>2, <1>3, <1>4, <1>5, <1>6 DEF EscalationInv

LEMMA EscalationInvStarts == BillingInit /\ FailoverInit => EscalationInv
<1> SUFFICES ASSUME BillingInit, FailoverInit PROVE EscalationInv
  OBVIOUS
<1>1. DOMAIN copy = {}
  BY DEF FailoverInit
<1>2. Heeded /\ Bounded
  BY <1>1 DEF BillingInit, FailoverInit, Heeded, LineKnows, NoLine, Bounded, Sourced
<1>3. ReadsSound /\ CheckHonest
  BY DEF FailoverInit, ReadsSound, CheckHonest, NoLine, NoCheck
<1>4. LinesRouted /\ Traced
  BY <1>1 DEF FailoverInit, LinesRouted, LineRouted, NoLine, Traced
<1> QED BY <1>2, <1>3, <1>4, StartTyped DEF EscalationInv

\* No step of billing or of an AI request is more than one fault.
LEMMA AiFaults == AiNext => faults' = faults \/ faults' = faults + 1
<1> SUFFICES ASSUME AiNext PROVE faults' = faults \/ faults' = faults + 1
  OBVIOUS
<1>1. CASE BillingNext
  BY <1>1 DEF BillingNext, DeliveryStep, SweepStep, BillingFault, Deliver, CannotVerify,
     SkipDuplicate, SharesId, PassCheck, Mark, CheckFails, Route, Apply, Answer, HookFails, SweepReads,
     SweepWrites, SweepFails, Verify, Subscribe, TrialEnds
<1>2. ASSUME NEW c \in Caller, AskStep(c) PROVE faults' = faults \/ faults' = faults + 1
  BY <1>2 DEF AskStep, Admit, OpenAIAnswers, OpenAIFails, Count, CountFails, BillingFault, billingVars
<1>3. CASE MonthlyReset
  BY <1>3 DEF MonthlyReset
<1> QED BY <1>1, <1>2, <1>3 DEF AiNext

\* The steps of a tenant, as each of its parts sees them.
LEMMA TenantSteps ==
  [TenantNext]_tenantVars =>
    /\ [AiNext]_aiVars \/ (FailoverStep /\ UNCHANGED <<ask, completions>>)
    /\ FailoverStep \/ (UNCHANGED failoverVars /\ (AiNext \/ UNCHANGED aiVars))
    /\ [AttendanceNext]_attendanceVars
BY DEF TenantNext, tenantVars

\* The invariant of the tenant: those of its parts.
TenantInv == BillingInv /\ EscalationInv

LEMMA TenantInvStarts == TenantInit => TenantInv
BY AiInitTyped, InitOnce, InitCovered, InitKnow, InitMetered, EscalationInvStarts
   DEF TenantInit, AiInit, TenantInv, BillingInv

LEMMA TenantInvKept == TenantInv /\ [TenantNext]_tenantVars => TenantInv'
<1> SUFFICES ASSUME TenantInv, [TenantNext]_tenantVars PROVE TenantInv'
  OBVIOUS
<1>1. BillingInv'
  BY TenantSteps, BillingInvStep, BillingInvElsewhere, EscalationIsElsewhere DEF TenantInv, BillingInv
<1>2. EscalationInv'
  <2>1. CASE FailoverStep
    BY <2>1, EscalationInvStep DEF TenantInv
  <2>2. CASE UNCHANGED failoverVars /\ (AiNext \/ UNCHANGED aiVars)
    <3>1. faults \in Nat /\ (faults' = faults \/ faults' = faults + 1)
      BY <2>2, AiFaults DEF TenantInv, BillingInv, Typed, AiTypeOK, BillingTypeOK, aiVars, billingVars
    <3>2. faults' \in Nat /\ faults <= faults'
      BY <3>1
    <3> QED BY <2>2, <3>2, EscalationInvRests DEF TenantInv
  <2> QED BY <2>1, <2>2, TenantSteps
<1> QED BY <1>1, <1>2 DEF TenantInv

LEMMA TenantInvAlways == TenantSpec => []TenantInv
BY TenantInvStarts, TenantInvKept, PTL DEF TenantSpec

\* The contacts and events of a tenant live as if it had no billing and no
\* reminders: whatever the other parts do, theirs is a behaviour of Attendance.
THEOREM TenantHasAttendance == TenantSpec => AttendanceSpec
<1>1. TenantInit => AttendanceInit
  BY DEF TenantInit
<1> QED BY <1>1, TenantSteps, PTL DEF TenantSpec, AttendanceSpec

\* Every variable of billing, AI usage, failover and attendance keeps its type,
\* whichever of them takes the step.
THEOREM TenantTypes == TenantSpec => []TenantTypeOK
<1>1. TenantInv => AiTypeOK /\ FailoverTypeOK
  BY TypingTypes DEF TenantInv, BillingInv, EscalationInv, Typed
<1>2. TenantInv /\ AttendanceTypeOK => TenantTypeOK
  BY <1>1 DEF TenantTypeOK
<1> QED BY <1>2, TenantInvAlways, TenantHasAttendance, AttendanceTypeCorrect, PTL

\* The promises about payments and the metered requests hold while escalation calls
\* fail out of the same budget, and whatever is sent meanwhile.
THEOREM TenantKeepsBilling ==
  TenantSpec => /\ [](AppliedOnce /\ PaymentNotDropped /\ SpendingWithinCap)
                /\ ExpiredRightly
<1>1. TenantInv => AppliedOnce /\ PaymentNotDropped /\ SpendingWithinCap
  <2>1. OnceUnlessCrossed => AppliedOnce
    BY DEF OnceUnlessCrossed, Once, AppliedOnce
  <2>2. AllCovered => PaymentNotDropped
    BY DEF AllCovered, Covered, PaymentNotDropped
  <2> QED BY <2>1, <2>2, MeteredCaps DEF TenantInv, BillingInv
<1> DEFINE A == \A r \in Replica :
       (sweep[r] = "expire" /\ tenant.status # "EXPIRED" /\ tenant'.status = "EXPIRED"
          /\ sweep'[r] = "idle")
         => (Due /\ ~tenant.customer) \/ r \in overtaken
<1>2. ASSUME TenantInv PROVE A
  <2> SUFFICES ASSUME NEW r \in Replica, sweep[r] = "expire", tenant.status # "EXPIRED",
                      r \notin overtaken
               PROVE  Due /\ ~tenant.customer
    OBVIOUS
  <2> QED BY <1>2 DEF SweepsKnow, TenantInv, BillingInv
<1>3. TenantInv /\ [TenantNext]_tenantVars => [A]_billingVars
  BY <1>2
<1> QED BY <1>1, <1>3, TenantInvAlways, PTL DEF TenantSpec, ExpiredRightly

\* The promises about failed and unread messages hold while payments change the
\* plan that decides about voice calls, and whatever AI requests do.
THEOREM TenantKeepsEscalation ==
  TenantSpec => [](FailureIsAnswered /\ EscalationEnds) /\ ReadIsRespected
<1>1. TenantInv => FailureIsAnswered /\ EscalationEnds
  BY CountsAnswer, TracesBound DEF TenantInv, EscalationInv
<1>2. TenantInv /\ [TenantNext]_tenantVars =>
        [(check.at = "send" /\ check'.at = "log") =>
           \A c \in check.known :
             copy[c].to = check.to =>
               \/ c \in overrun
               \/ \E i, j \in DOMAIN row : i < j /\ row[i].of = c /\ copy[row[j].of].channel = "WHATSAPP"
        ]_<<billingVars, failoverVars>>
  BY DEF TenantInv, EscalationInv, CheckHonest, Superseded, WhatsApp
<1> QED BY <1>1, <1>2, TenantInvAlways, PTL DEF TenantSpec, ReadIsRespected

\* Callbacks keep the contract of EscalationContract in the tenant as a whole.
THEOREM TenantKeepsContract == TenantSpec => KeepsEscalation
<1>1. TenantInit => Escalation!Init
  <2> SUFFICES ASSUME TenantInit PROVE Escalation!Init
    OBVIOUS
  <2>1. copy = << >> /\ faults = 0
    BY DEF TenantInit, AiInit, BillingInit, FailoverInit
  <2>2. Messages = << >>
    BY <2>1 DEF Messages
  <2> QED BY <2>1, <2>2 DEF Escalation!Init, Routes
<1>2. TenantInv /\ TenantInv' /\ [TenantNext]_tenantVars => [Escalation!Next]_Escalation!contractVars
  <2> SUFFICES ASSUME TenantInv, TenantInv', [TenantNext]_tenantVars
               PROVE  [Escalation!Next]_<<Messages, Routes, faults>>
    BY DEF Escalation!contractVars
  <2>1. CASE FailoverStep
    <3>1. [FailoverNext]_<<billingVars, failoverVars>>
      BY <2>1 DEF FailoverNext
    <3> QED BY <3>1, ContractKept DEF TenantInv, EscalationInv
  <2>2. CASE UNCHANGED failoverVars /\ (AiNext \/ UNCHANGED aiVars)
    <3>1. faults' = faults \/ faults' = faults + 1
      BY <2>2, AiFaults DEF aiVars, billingVars
    <3>2. UNCHANGED <<Messages, Routes>>
      BY <2>2, ViewStays DEF failoverVars
    <3> QED BY <3>1, <3>2 DEF Escalation!Next, Escalation!Fault
  <2> QED BY <2>1, <2>2, TenantSteps
<1> QED BY <1>1, <1>2, TenantInvAlways, PTL DEF TenantSpec, KeepsEscalation, Escalation!Spec

\* The promises about contacts, answers and badges hold beside payments and reminders.
THEOREM TenantKeepsAttendance == TenantSpec => [](BadgesScan /\ AnswerReaches) /\ NothingLost
BY TenantHasAttendance, BadgesAlwaysScan, AnswersAlwaysReach, FormsLoseNothing, PTL

=============================================================================
