------------------------------- MODULE AiUsage -------------------------------
(***************************************************************************)
(* The metered AI requests of a tenant (AIService and the suggestions of   *)
(* GoogleReviewService) beside its billing: a request reads the tenant and *)
(* checks plan, subscription and limit, OpenAI answers, and the counter    *)
(* grows in a later call. Activation and the monthly job reset the counter *)
(* at any moment in between.                                               *)
(***************************************************************************)
EXTENDS TenantBilling

CONSTANTS Caller,     \* AI requests that may be open at once
          TrialCap    \* aiTrialLimit

ASSUME AiAssumption == IsFiniteSet(Caller) /\ Caller # {} /\ TrialCap \in Nat

VARIABLES
  ask,          \* the AI requests
  completions   \* history: answers of OpenAI

aiVars == <<billingVars, ask, completions>>

AiInit ==
  /\ BillingInit
  /\ ask = [c \in Caller |-> "idle"]
  /\ completions = 0

\* The limit in force: enforceAccess, generateSuggestion.
Limit == IF tenant.trial THEN TrialCap ELSE tenant.cap

MayAsk == tenant.plan = "AI" /\ (tenant.trial \/ tenant.status = "ACTIVE")

\* Variant of Admit that asks for no plan.
AdmitAnyPlan(c) ==
  /\ ask[c] = "idle" /\ tenant.usage < Limit
  /\ Spend("ask")
  /\ ask' = [ask EXCEPT ![c] = "asking"]
  /\ UNCHANGED <<tenant, hookVars, sweep, overtaken, resets, faults, completions>>

\* A request that is refused changes nothing.
Admit(c) ==
  /\ ask[c] = "idle" /\ MayAsk /\ tenant.usage < Limit
  /\ Spend("ask")
  /\ ask' = [ask EXCEPT ![c] = "asking"]
  /\ UNCHANGED <<tenant, hookVars, sweep, overtaken, resets, faults, completions>>

OpenAIAnswers(c) ==
  /\ ask[c] = "asking"
  /\ ask' = [ask EXCEPT ![c] = "counting"]
  /\ completions' = completions + 1
  /\ UNCHANGED billingVars

\* Variant of OpenAIFails that gives back a unit it never took.
OpenAIFailsRefunded(c) ==
  /\ ask[c] = "asking"
  /\ ask' = [ask EXCEPT ![c] = "idle"]
  /\ tenant' = [tenant EXCEPT !.usage = @ - 1]
  /\ UNCHANGED <<hookVars, sweep, budget, overtaken, resets, faults, completions>>

\* OpenAI refuses, or times out: 403, and nothing is counted.
OpenAIFails(c) ==
  /\ ask[c] = "asking"
  /\ ask' = [ask EXCEPT ![c] = "idle"]
  /\ UNCHANGED <<billingVars, completions>>

\* logUsage: an increment in the database, so none is lost.
Count(c) ==
  /\ ask[c] = "counting"
  /\ ask' = [ask EXCEPT ![c] = "idle"]
  /\ tenant' = [tenant EXCEPT !.usage = @ + 1]
  /\ UNCHANGED <<hookVars, sweep, budget, overtaken, resets, faults, completions>>

\* The increment throws: the answer is lost, and was paid for.
CountFails(c) ==
  /\ ask[c] = "counting"
  /\ BillingFault
  /\ ask' = [ask EXCEPT ![c] = "idle"]
  /\ UNCHANGED <<tenant, hookVars, sweep, overtaken, resets, completions>>

\* resetMonthlyUsage, on the first of the month.
MonthlyReset ==
  /\ Spend("month")
  /\ tenant' = [tenant EXCEPT !.usage = 0]
  /\ resets' = resets + 1
  /\ UNCHANGED <<hookVars, sweep, overtaken, faults, ask, completions>>

AskStep(c) == Admit(c) \/ OpenAIAnswers(c) \/ OpenAIFails(c) \/ Count(c) \/ CountFails(c)

AiNext ==
  \/ BillingNext /\ UNCHANGED <<ask, completions>>
  \/ \E c \in Caller : AskStep(c)
  \/ MonthlyReset

\* The cron of each replica runs every hour.
SweepFairness ==
  \A r \in Replica : WF_aiVars((SweepReads(r) \/ SweepWrites(r)) /\ UNCHANGED <<ask, completions>>)

AiSpec == AiInit /\ [][AiNext]_aiVars
AiFairSpec == AiSpec /\ SweepFairness

-----------------------------------------------------------------------------

AiTypeOK ==
  /\ BillingTypeOK
  /\ ask \in [Caller -> {"idle", "asking", "counting"}]
  /\ completions \in Nat

\* The highest limit there is.
Limits == {TrialCap} \cup {CapOf[p] : p \in Plan \cup {"TRIAL", "signup"}}

Cap == CHOOSE n \in Limits : \A m \in Limits : m <= n

\* The most one period can spend: the requests of all callers may be let in
\* while a single unit is left.
Allowance == Cap + Cardinality(Caller) - 1

\* Nothing is spent before the first activation, and from one reset of the
\* counter to the next OpenAI is paid for no more answers than the allowance:
\* concurrent requests overrun the limit by their number less one, and only a
\* failure of the increment adds to that (enforceAccess and logUsage are calls
\* apart, activateSubscription and resetMonthlyUsage come between).
SpendingWithinCap == completions <= resets * Allowance + faults
=============================================================================
