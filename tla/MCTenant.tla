------------------------------ MODULE MCTenant -------------------------------
(***************************************************************************)
(* Small instances of AiUsage, ChannelFailover and Attendance: two events, *)
(* two deliveries in progress, two replicas, two AI requests at once; one  *)
(* reminder; three contacts, one of them of old, and two requests at once. *)
(* A run starts in one of the scenarios below.                             *)
(***************************************************************************)
EXTENDS TenantSystem, TLC

CONSTANTS p1, p2, l1, l2, k1, k2, s1, s2, r1, r2, c1, c2,
          g1, g2, g3, t1, e1, e2, q1, q2

MCCapOf == [p \in Plan \cup {"TRIAL", "signup"} |-> IF p = "AI" THEN 2 ELSE IF p = "SMS" THEN 0 ELSE 1]

Paystack(kind, plan, n) == [via |-> "paystack", kind |-> kind, plan |-> plan, named |-> TRUE,
                               times |-> n]

Other(via, kind, n) == [via |-> via, kind |-> kind, plan |-> "SMS", named |-> TRUE, times |-> n]

Letters(n) ==
  {Paystack("charge", "none", n), Paystack("charge", "AI", n), Paystack("create", "AI", n),
   Paystack("cancel", "AI", n), Paystack("failed", "AI", n),
   Other("paypal", "create", n), Other("paypal", "failed", n), Other("crypto", "create", n)}

\* The same events without an id.
Unnamed(letters) == {[x EXCEPT !.named = FALSE] : x \in letters}

Pair(x, y) == [h \in Hook |-> IF h = k1 THEN x ELSE y]

Silence == Paystack("charge", "none", 0)

MCMail ==
  {Pair(x, y) : x \in Letters(1) \cup {Silence}, y \in Letters(1) \cup {Silence}}
  \cup {Pair(x, Silence) : x \in Letters(2) \cup Unnamed(Letters(2))}

Only(v, s, m, a, f) ==
  [k \in Budget |-> CASE k = "verify" -> v [] k = "subscribe" -> s [] k = "month" -> m
                      [] k = "ask" -> a [] k = "fault" -> f]

MCBudgets ==
  {Only(1, 1, 0, 0, 0), Only(1, 0, 0, 0, 1), Only(0, 1, 0, 0, 1),
   Only(0, 0, 0, 0, 2), Only(0, 0, 0, 0, 1), Only(0, 0, 0, 0, 0), Only(1, 0, 1, 4, 1)}

Chained(chain) == [chain |-> chain, active |-> TRUE, onFailed |-> TRUE, onUnread |-> TRUE]

Settings(primary, people, failures, n, rule, default, legacy) ==
  [primary |-> primary, people |-> people, event |-> Len(people) > 1, failures |-> failures,
   settled |-> n, rule |-> rule, default |-> default, legacy |-> legacy]

Quiet == Settings("SMS", << >>, {}, 0, {}, {}, {})

MCSetups ==
  {Quiet,
   Settings("SMS", <<p1>>, {"undelivered"}, 2, {}, {}, {<<"SMS", "WHATSAPP", "VOICE">>}),
   Settings("WHATSAPP", <<p1>>, {"failed"}, 1, {[Chained(<<"WHATSAPP", "EMAIL">>) EXCEPT !.active = FALSE]},
            {Chained(<<"WHATSAPP", "SMS">>)}, {}),
   Settings("WHATSAPP", <<p1>>, {"failed"}, 2, {Chained(<<"WHATSAPP", "VOICE">>)}, {}, {}),
   Settings("WHATSAPP", <<p1, p2>>, {"failed"}, 1, {}, {Chained(<<"WHATSAPP", "SMS">>)}, {})}

Given(phone, email) == [st |-> "there", phone |-> phone, email |-> email]

Times(kinds) == [k \in Errand |-> Cardinality({i \in DOMAIN kinds : kinds[i] = k})]

\* g1 has phone t1; it was invited of old if there are badges to come.
People(email, second, met, what) ==
  [contact |-> g1 :> Given(t1, email) @@ g2 :> second @@ g3 :> NoRow,
   customer |-> met,
   participant |-> [g \in Contact |-> IF g = g1 /\ what["badge"] > 0
                                      THEN [NoParticipant EXCEPT !.status = "invited"] ELSE NoParticipant],
   agenda |-> what]

Nobody == [contact |-> [g \in Contact |-> NoRow], customer |-> << >>,
           participant |-> [g \in Contact |-> NoParticipant], agenda |-> Times(<< >>)]

\* Any three requests; some four; one customer that two contacts fit.
MCBeginnings ==
  {Nobody} \cup
  {People(email, NoRow, << >>, Times(<<k, l, m>>)) : email \in {Blank, e1}, k, l, m \in Errand}
  \cup {People(Blank, NoRow, << >>, Times(<<"invite", "respond", x, y>>)) :
          <<x, y>> \in {<<"form", "appoint">>, <<"invite", "respond">>}}
  \cup {People(Blank, Given(Blank, e1), <<[phone |-> t1, email |-> e1]>>, Times(<<"invite", "respond", "respond">>))}

\* One event, with an id or without, delivered twice, with two faults.
Repeats == post[k1].times = 2 /\ post[k2] = Silence /\ budget = Only(0, 0, 0, 0, 2)

\* A payment and another event in either order, the sweep, and requests: both, or
\* one of them and a fault.
Orders ==
  /\ post[k1].times = 1 /\ post[k2].times = 1
  /\ post[k1].via = "paystack" /\ post[k1].kind \in {"charge", "create"}
  /\ budget \in {Only(1, 1, 0, 0, 0), Only(1, 0, 0, 0, 1), Only(0, 1, 0, 0, 1)}

\* The AI requests of a tenant on the highest plan.
Asking ==
  /\ post[k1] = Paystack("create", "AI", 1) /\ post[k2] = Silence
  /\ budget = Only(1, 0, 1, 4, 1)

\* A reminder is sent, its messages fail or are read, calls fail; or the plan
\* changes meanwhile.
Escalating ==
  /\ post[k1] = IF setup.settled = 2 THEN Paystack("create", "AI", 1) ELSE Silence
  /\ post[k2] = Silence
  /\ budget = Only(0, 0, 0, 0, IF setup.settled = 1 /\ ~setup.event THEN 1 ELSE 0)

\* People are entered, invited and answer; no payment comes, no reminder is due.
Attending == setup = Quiet /\ post = Pair(Silence, Silence) /\ budget = Only(0, 0, 0, 0, 0)

MCInit ==
  /\ AiInit /\ FailoverInit
  /\ IF Attending THEN AttendanceInit /\ contact[g1] # NoRow
     ELSE /\ IF setup = Quiet THEN Repeats \/ Orders \/ Asking ELSE Escalating
          /\ AttendanceInit /\ contact[g1] = NoRow

MCSpec == MCInit /\ [][TenantNext]_tenantVars /\ SweepFairness
=============================================================================
