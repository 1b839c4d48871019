------------------------- MODULE ConversationProofs --------------------------
(***************************************************************************)
(* Theorems about InboundReplies and what it is made of, for any number of *)
(* messages, requests, handlers and events.                                *)
(***************************************************************************)
EXTENDS InboundReplies, BullQueueProofs, FiniteSetTheorems, WellFoundedInduction

-----------------------------------------------------------------------------
(* The webhook handlers. *)

\* What the router keeps has its type, and a request in progress its message.
HooksTyped ==
  /\ inbox \in [Msg -> Mail] /\ hook \in [Hook -> HookRecord] /\ received \subseteq Msg
  /\ handled \in [Msg -> Nat] /\ repeated \in [Msg -> Nat] /\ faults \in Nat
  /\ \A h \in Hook : hook[h].at # "idle" => hook[h].msg \in Msg

\* The steps after the router: nothing here looks at them again.
Beyond == HookStep \ {"check", "log", "route"}

\* What a step is to the webhook handlers.
Leave(h) ==
  /\ \/ hook' = [hook EXCEPT ![h] = FreeHook]
     \/ hook[h].at # "idle" /\ \E l \in Beyond : hook' = [hook EXCEPT ![h].at = l]
  /\ hook[h].at \in {"check", "log"} => hook[h].msg \in received
  /\ UNCHANGED <<received, handled, repeated>>

Skip == UNCHANGED <<hook, received, handled, repeated>>

Ring(h, m) ==
  /\ hook[h].at = "idle" /\ UNCHANGED <<received, handled, faults>>
  /\ repeated' = [repeated EXCEPT ![m] = IF \E g \in Hook : hook[g].msg = m THEN @ + 1 ELSE @]
  /\ hook' = [hook EXCEPT ![h] =
                [at |-> IF inbox[m].via = "voice" THEN "route" ELSE "check", msg |-> m]]

ToLog(h) ==
  /\ hook[h].at = "check" /\ hook[h].msg \notin received
  /\ hook' = [hook EXCEPT ![h].at = "log"] /\ UNCHANGED <<received, handled, repeated, faults>>

Noted(h) ==
  /\ hook[h].at = "log"
  /\ hook[h].msg \in received => Through(h) # "twilio"
  /\ received' = received \cup {hook[h].msg}
  /\ hook' = [hook EXCEPT ![h].at = "route"] /\ UNCHANGED <<handled, repeated, faults>>

Lost(h) ==
  /\ hook[h].at = "log" /\ Through(h) = "termii" /\ faults' = faults + 1
  /\ hook' = [hook EXCEPT ![h].at = "route"] /\ UNCHANGED <<received, handled, repeated>>

Routed(h) ==
  /\ hook[h].at = "route" /\ handled' = [handled EXCEPT ![hook[h].msg] = @ + 1]
  /\ \/ hook' = [hook EXCEPT ![h] = FreeHook]
     \/ \E l \in Beyond : hook' = [hook EXCEPT ![h].at = l]
  /\ UNCHANGED <<received, repeated, faults>>

HookMove(h) ==
  \/ Leave(h) \/ ToLog(h) \/ Noted(h) \/ Lost(h) \/ Routed(h)
  \/ \E m \in Msg : Ring(h, m)

LEMMA RsvpFaultsGrow ==
  ASSUME RsvpStepOnly
  PROVE  faults' = faults \/ faults' = faults + 1
<1>1. ASSUME NEW w \in Slot, AnswerStep(w)
      PROVE  faults' = faults \/ faults' = faults + 1
  BY <1>1 DEF AnswerStep, Look, Stamp, Answer, Settle, Reply, TriggerFlow, RsvpError, RsvpFault
<1>2. ASSUME NEW w \in Slot, WorkflowStep(w)
      PROVE  faults' = faults \/ faults' = faults + 1
  BY <1>2 DEF WorkflowStep, Plan, Exists, CreateRow, QueueReminder, Offer, SendCoupon, MarkCoupon,
              FlowError, RsvpFault
<1>3. ASSUME NEW w \in Slot, SlotStep(w)
      PROVE  faults' = faults \/ faults' = faults + 1
  BY <1>3 DEF SlotStep, TakeWork, CompleteWork, ThrowWork, CrashWork, RsvpFault
<1>4. ASSUME NEW j \in WorkId, WorkQueueStep(j)
      PROVE  faults' = faults \/ faults' = faults + 1
  BY <1>4 DEF WorkQueueStep, ExpireWork, LoseWork, RecoverWork, BuryWork, RsvpFault
<1>5. ASSUME DeskStep
      PROVE  faults' = faults \/ faults' = faults + 1
  BY <1>5 DEF DeskStep, RespondWrite, BulkUpdate, EventStarts, ScanBadge, ClaimArrival, Thank,
              RespondQueue, RequestDies, ToggleOptOut, RsvpFault
<1> QED BY <1>1, <1>2, <1>3, <1>4, <1>5 DEF RsvpStepOnly

\* Every step of the system is one of them, and faults only grow.
LEMMA HookMoves ==
  ASSUME HooksTyped, [InboundNext]_allVars
  PROVE  /\ UNCHANGED inbox /\ faults' \in Nat /\ faults' >= faults
         /\ \/ Skip
            \/ \E h \in Hook : HookMove(h)
            \/ \E h \in Hook : hook[h].at # "idle" /\ hook' = [hook EXCEPT ![h] = FreeHook]
                 /\ faults' = faults + 1 /\ UNCHANGED <<received, handled, repeated>>
<1> USE DEF HooksTyped
<1>1. CASE UNCHANGED allVars
  BY <1>1 DEF allVars, rsvpVars, inboundVars, Skip
<1>2. CASE RsvpStepOnly /\ UNCHANGED <<reschedulingVars, inboundVars>>
  BY <1>2, RsvpFaultsGrow DEF inboundVars, Skip
<1>3. CASE ReschedulingStep /\ UNCHANGED <<rsvpVars, inboundVars>>
  BY <1>3 DEF rsvpVars, inboundVars, Skip
<1>4. ASSUME NEW h \in Hook, HookStepOf(h)
      PROVE  /\ UNCHANGED inbox /\ faults' \in Nat /\ faults' >= faults
             /\ Skip \/ HookMove(h) \/ (hook[h].at # "idle" /\ hook' = [hook EXCEPT ![h] = FreeHook]
                 /\ faults' = faults + 1 /\ UNCHANGED <<received, handled, repeated>>)
  <2>1. ASSUME NEW m \in Msg, Deliver(h, m) PROVE Ring(h, m) /\ UNCHANGED inbox
    BY <2>1 DEF Deliver, Ring, rsvpVars
  <2>2. CASE CheckDuplicate(h)
    BY <2>2 DEF CheckDuplicate, Answered, Serve, Leave, ToLog, HookMove, rsvpVars
  <2>3. CASE LogInbound(h)
    <3>1. CASE hook[h].msg \in received /\ Through(h) = "twilio"
      BY <2>3, <3>1 DEF LogInbound, Refused, Leave, HookMove, rsvpVars
    <3>2. CASE ~(hook[h].msg \in received /\ Through(h) = "twilio")
      BY <2>3, <3>2 DEF LogInbound, Serve, Noted, HookMove, rsvpVars
    <3> QED BY <3>1, <3>2
  <2>4. CASE LogLost(h)
    BY <2>4 DEF LogLost, RsvpFault, Serve, Lost, HookMove
  <2>5. CASE Route(h)
    BY <2>5 DEF Route, StartErrand, Serve, Answered, Routed, HookMove, Beyond, HookStep, rsvpVars
  <2>6. CASE AskFeedback(h) \/ AskInvitation(h) \/ AskSession(h)
    BY <2>6 DEF AskFeedback, AskInvitation, AskSession, StartErrand, Serve, Answered, Leave, HookMove,
                Beyond, HookStep, rsvpVars
  <2>7. CASE Rate(h) \/ QueueReply(h) \/ MarkContact(h)
    BY <2>7 DEF Rate, QueueReply, MarkContact, Answered, Leave, HookMove, rsvpVars
  <2>8. CASE NoSession(h)
    BY <2>8 DEF NoSession, Skip, rsvpVars, inboundVars
  <2>9. CASE ErrandOver(h)
    BY <2>9 DEF ErrandOver, Refused, Answered, Serve, Leave, HookMove, Beyond, HookStep, rsvpVars
  <2>10. CASE HookFails(h)
    BY <2>10 DEF HookFails, RsvpFault, Refused
  <2>11. UNCHANGED faults \/ LogLost(h) \/ HookFails(h)
    BY <1>4 DEF HookStepOf, Deliver, CheckDuplicate, LogInbound, Route, AskFeedback, Rate,
      AskInvitation, QueueReply, AskSession, NoSession, ErrandOver, MarkContact, rsvpVars
  <2> QED BY <1>4, <2>1, <2>2, <2>3, <2>4, <2>5, <2>6, <2>7, <2>8, <2>9, <2>10, <2>11
          DEF HookStepOf, HookMove
<1> QED BY <1>1, <1>2, <1>3, <1>4 DEF InboundNext

LEMMA HooksInit == InboundInit => HooksTyped
<1> SUFFICES ASSUME InboundInit PROVE HooksTyped
  OBVIOUS
<1>1. FreeHook \in HookRecord /\ FreeHook.at = "idle"
  BY DEF FreeHook, HookRecord, HookStep
<1>2. inbox \in [Msg -> Mail]
  BY InboundAssumption DEF InboundInit
<1> QED BY <1>1, <1>2 DEF InboundInit, RsvpInit, HooksTyped

\* What a move makes of the request of a hook.
LEMMA HookUpdates ==
  ASSUME hook \in [Hook -> HookRecord], NEW h \in Hook
  PROVE  /\ [hook EXCEPT ![h] = FreeHook] \in [Hook -> HookRecord]
         /\ \A l \in HookStep :
              /\ [hook EXCEPT ![h].at = l] \in [Hook -> HookRecord]
              /\ [hook EXCEPT ![h].at = l][h].at = l
              /\ [hook EXCEPT ![h].at = l][h].msg = hook[h].msg
         /\ FreeHook.at = "idle"
<1>1. FreeHook \in HookRecord /\ FreeHook.at = "idle"
  BY DEF FreeHook, HookRecord, HookStep
<1>2. ASSUME NEW l \in HookStep
      PROVE  /\ [hook EXCEPT ![h].at = l] \in [Hook -> HookRecord]
             /\ [hook EXCEPT ![h].at = l][h].at = l
             /\ [hook EXCEPT ![h].at = l][h].msg = hook[h].msg
  BY DEF HookRecord
<1> QED BY <1>1, <1>2

LEMMA HooksStep == HooksTyped /\ [InboundNext]_allVars => HooksTyped'
<1> SUFFICES ASSUME HooksTyped, [InboundNext]_allVars PROVE HooksTyped'
  OBVIOUS
<1>0. hook \in [Hook -> HookRecord] /\ UNCHANGED inbox /\ faults' \in Nat
  BY HookMoves DEF HooksTyped
<1>1. CASE Skip
  BY <1>0, <1>1 DEF Skip, HooksTyped
<1>2. ASSUME NEW h \in Hook, hook' = [hook EXCEPT ![h] = FreeHook],
             UNCHANGED <<received, handled, repeated>>
      PROVE  HooksTyped'
  BY <1>0, <1>2, HookUpdates DEF HooksTyped
<1>3. ASSUME NEW h \in Hook, NEW l \in HookStep, hook[h].at # "idle",
             hook' = [hook EXCEPT ![h].at = l]
      PROVE  hook' \in [Hook -> HookRecord] /\ \A g \in Hook : hook'[g].at # "idle" => hook'[g].msg \in Msg
  <2>1. hook' \in [Hook -> HookRecord] /\ hook'[h].msg = hook[h].msg
    BY <1>0, <1>3, HookUpdates
  <2>2. \A g \in Hook \ {h} : hook'[g] = hook[g]
    BY <1>0, <1>3
  <2> QED BY <1>3, <2>1, <2>2 DEF HooksTyped
<1>4. ASSUME NEW h \in Hook, Leave(h) PROVE HooksTyped'
  BY <1>0, <1>2, <1>3, <1>4 DEF Leave, Beyond, HooksTyped
<1>5. ASSUME NEW h \in Hook, ToLog(h) \/ Noted(h) \/ Lost(h) PROVE HooksTyped'
  <2>1. hook[h].at # "idle" /\ \E l \in {"log", "route"} : hook' = [hook EXCEPT ![h].at = l]
    BY <1>5 DEF ToLog, Noted, Lost
  <2>2. hook' \in [Hook -> HookRecord] /\ \A g \in Hook : hook'[g].at # "idle" => hook'[g].msg \in Msg
    BY <1>3, <2>1 DEF HookStep
  <2>3. received' \subseteq Msg
    BY <1>5, <2>1 DEF ToLog, Noted, Lost, HooksTyped
  <2> QED BY <1>0, <1>5, <2>2, <2>3 DEF ToLog, Noted, Lost, HooksTyped
<1>6. ASSUME NEW h \in Hook, Routed(h) PROVE HooksTyped'
  <2>1. hook[h].at # "idle"
    BY <1>6 DEF Routed
  <2>2. hook' \in [Hook -> HookRecord] /\ \A g \in Hook : hook'[g].at # "idle" => hook'[g].msg \in Msg
    <3>1. CASE hook' = [hook EXCEPT ![h] = FreeHook]
      BY <1>0, <3>1, HookUpdates DEF HooksTyped
    <3> QED BY <1>3, <1>6, <2>1, <3>1 DEF Routed, Beyond
  <2>3. handled' \in [Msg -> Nat]
    BY <1>6 DEF Routed, HooksTyped
  <2> QED BY <1>0, <1>6, <2>2, <2>3 DEF Routed, HooksTyped
<1>7. ASSUME NEW h \in Hook, NEW m \in Msg, Ring(h, m) PROVE HooksTyped'
  <2>1. PICK l \in {"route", "check"} : hook' = [hook EXCEPT ![h] = [at |-> l, msg |-> m]]
    BY <1>7 DEF Ring
  <2>2. hook' \in [Hook -> HookRecord] /\ hook'[h].msg = m /\ \A g \in Hook \ {h} : hook'[g] = hook[g]
    <3>1. [at |-> l, msg |-> m] \in HookRecord
      BY DEF HookRecord, HookStep
    <3>2. hook'[h] = [at |-> l, msg |-> m] /\ \A g \in Hook \ {h} : hook'[g] = hook[g]
      BY <1>0, <2>1
    <3>3. hook' \in [Hook -> HookRecord]
      BY <1>0, <2>1, <3>1
    <3> QED BY <3>2, <3>3
  <2>3. repeated' \in [Msg -> Nat]
    BY <1>7 DEF Ring, HooksTyped
  <2> QED BY <1>0, <1>7, <2>2, <2>3 DEF Ring, HooksTyped
<1> QED BY <1>1, <1>2, <1>4, <1>5, <1>6, <1>7, HookMoves DEF HookMove

-----------------------------------------------------------------------------
(* A message of Twilio is acted on once. *)

IsTwilio(m) == inbox[m].via = "twilio"

\* Only one request routes it, after its row was written, and none does once it
\* has been acted on.
TwilioOnce ==
  /\ \A m \in Msg : IsTwilio(m) => handled[m] \in {0, 1} /\ (handled[m] = 1 => m \in received)
  /\ \A h \in Hook : hook[h].at = "route" /\ IsTwilio(hook[h].msg) =>
       /\ hook[h].msg \in received /\ handled[hook[h].msg] = 0
       /\ \A g \in Hook : hook[g].at = "route" /\ hook[g].msg = hook[h].msg => g = h

LEMMA TwilioInit == InboundInit => TwilioOnce
BY DEF InboundInit, TwilioOnce, FreeHook, IsTwilio

\* The hooks that route, after a step that lets none in.
LEMMA NoneEnters ==
  ASSUME HooksTyped, TwilioOnce, UNCHANGED inbox,
         \A g \in Hook : hook'[g].at = "route" => hook'[g] = hook[g],
         received \subseteq received', UNCHANGED handled
  PROVE  TwilioOnce'
BY DEF TwilioOnce, IsTwilio

LEMMA TwilioStep == HooksTyped /\ TwilioOnce /\ [InboundNext]_allVars => TwilioOnce'
<1> SUFFICES ASSUME HooksTyped, TwilioOnce, [InboundNext]_allVars PROVE TwilioOnce'
  OBVIOUS
<1>0. /\ hook \in [Hook -> HookRecord] /\ UNCHANGED inbox /\ handled \in [Msg -> Nat]
      /\ \A h \in Hook : hook[h].at # "idle" => hook[h].msg \in Msg
  BY HookMoves DEF HooksTyped
<1>1. CASE Skip
  BY <1>0, <1>1, NoneEnters DEF Skip
<1>2. ASSUME NEW h \in Hook, hook' = [hook EXCEPT ![h] = FreeHook],
             UNCHANGED <<received, handled, repeated>>
      PROVE  TwilioOnce'
  <2>1. \A g \in Hook : hook'[g].at = "route" => hook'[g] = hook[g]
    BY <1>0, <1>2, HookUpdates
  <2> QED BY <1>0, <1>2, <2>1, NoneEnters
<1>3. ASSUME NEW h \in Hook, Leave(h) \/ ToLog(h) PROVE TwilioOnce'
  <2>1. CASE hook' = [hook EXCEPT ![h] = FreeHook]
    BY <1>2, <1>3, <2>1 DEF Leave, ToLog
  <2>2. ASSUME NEW l \in HookStep \ {"route"}, hook' = [hook EXCEPT ![h].at = l] PROVE TwilioOnce'
    <3>1. \A g \in Hook : hook'[g].at = "route" => hook'[g] = hook[g]
      BY <1>0, <2>2, HookUpdates
    <3> QED BY <1>0, <1>3, <3>1, NoneEnters DEF Leave, ToLog
  <2> QED BY <1>3, <2>1, <2>2 DEF Leave, ToLog, Beyond, HookStep
<1>4. ASSUME NEW h \in Hook, Noted(h) \/ Lost(h) PROVE TwilioOnce'
  <2> DEFINE m == hook[h].msg
  <2>1. m \in Msg /\ hook' = [hook EXCEPT ![h].at = "route"] /\ UNCHANGED handled
        /\ hook[h].at = "log" /\ received \subseteq received'
    BY <1>0, <1>4 DEF Noted, Lost
  <2>2. hook'[h].at = "route" /\ hook'[h].msg = m /\ \A g \in Hook \ {h} : hook'[g] = hook[g]
    BY <1>0, <2>1, HookUpdates DEF HookStep
  <2>3. IsTwilio(m) => m \notin received /\ m \in received'
    BY <1>4 DEF Noted, Lost, Through, IsTwilio
  <2>4. IsTwilio(m) => handled[m] = 0 /\ \A g \in Hook : ~(hook[g].at = "route" /\ hook[g].msg = m)
    BY <2>1, <2>3 DEF TwilioOnce
  <2>5. \A n \in Msg : IsTwilio(n)' <=> IsTwilio(n)
    BY <1>0 DEF IsTwilio
  <2> HIDE DEF m
  <2>6. \A n \in Msg : IsTwilio(n)' => handled'[n] \in {0, 1} /\ (handled'[n] = 1 => n \in received')
    BY <2>1, <2>5 DEF TwilioOnce
  <2>7. ASSUME NEW g \in Hook, hook'[g].at = "route", IsTwilio(hook[g].msg)
        PROVE  /\ hook'[g].msg \in received' /\ handled'[hook'[g].msg] = 0
               /\ \A f \in Hook : hook'[f].at = "route" /\ hook'[f].msg = hook'[g].msg => f = g
    <3>1. CASE g = h
      BY <2>1, <2>2, <2>3, <2>4, <2>7, <3>1 DEF m
    <3>2. CASE g # h
      BY <2>1, <2>2, <2>4, <2>7, <3>2 DEF TwilioOnce
    <3> QED BY <3>1, <3>2
  <2>8. \A g \in Hook : hook'[g].msg = hook[g].msg
    BY <2>2 DEF m
  <2> QED BY <1>0, <2>6, <2>7, <2>8 DEF TwilioOnce, IsTwilio
<1>5. ASSUME NEW h \in Hook, Routed(h) PROVE TwilioOnce'
  <2> DEFINE m == hook[h].msg
  <2>1. m \in Msg /\ handled' = [handled EXCEPT ![m] = @ + 1] /\ UNCHANGED received /\ hook[h].at = "route"
    BY <1>0, <1>5 DEF Routed
  <2>2. \A g \in Hook : hook'[g].at = "route" => g # h /\ hook'[g] = hook[g]
    <3>1. CASE hook' = [hook EXCEPT ![h] = FreeHook]
      BY <1>0, <3>1, HookUpdates
    <3>2. ASSUME NEW l \in Beyond, hook' = [hook EXCEPT ![h].at = l]
          PROVE  \A g \in Hook : hook'[g].at = "route" => g # h /\ hook'[g] = hook[g]
      BY <1>0, <3>2, HookUpdates DEF Beyond
    <3> QED BY <1>5, <3>1, <3>2 DEF Routed
  <2>3. IsTwilio(m) => /\ handled'[m] = 1 /\ m \in received
                       /\ \A g \in Hook : hook'[g].at = "route" => hook'[g].msg # m
    BY <1>0, <2>1, <2>2 DEF TwilioOnce
  <2>4. \A n \in Msg \ {m} : handled'[n] = handled[n]
    BY <1>0, <2>1
  <2>5. \A n \in Msg : IsTwilio(n)' <=> IsTwilio(n)
    BY <1>0 DEF IsTwilio
  <2> HIDE DEF m
  <2>6. \A n \in Msg : IsTwilio(n)' => handled'[n] \in {0, 1} /\ (handled'[n] = 1 => n \in received')
    BY <2>1, <2>3, <2>4, <2>5 DEF TwilioOnce
  <2>7. ASSUME NEW g \in Hook, hook'[g].at = "route", IsTwilio(hook[g].msg)
        PROVE  /\ hook'[g].msg \in received' /\ handled'[hook'[g].msg] = 0
               /\ \A f \in Hook : hook'[f].at = "route" /\ hook'[f].msg = hook'[g].msg => f = g
    <3>1. hook'[g] = hook[g] /\ hook[g].at = "route" /\ hook[g].msg \in Msg
      BY <1>0, <2>2, <2>7
    <3>2. hook[g].msg # m
      BY <2>3, <2>7, <3>1
    <3> QED BY <2>1, <2>2, <2>4, <2>7, <3>1, <3>2 DEF TwilioOnce
  <2> QED BY <1>0, <2>2, <2>6, <2>7 DEF TwilioOnce, IsTwilio
<1>6. ASSUME NEW h \in Hook, NEW m \in Msg, Ring(h, m) PROVE TwilioOnce'
  <2>1. hook' = [hook EXCEPT ![h] = [at |-> IF inbox[m].via = "voice" THEN "route" ELSE "check", msg |-> m]]
        /\ UNCHANGED <<received, handled>>
    BY <1>6 DEF Ring
  <2>2. hook'[h].msg = m /\ (hook'[h].at = "route" => inbox[m].via = "voice")
        /\ \A g \in Hook \ {h} : hook'[g] = hook[g]
    BY <1>0, <2>1
  <2> QED BY <1>0, <2>1, <2>2 DEF TwilioOnce, IsTwilio
<1> QED BY <1>1, <1>2, <1>3, <1>4, <1>5, <1>6, HookMoves DEF HookMove

\* A step notes a message of Twilio, acts on one, or does neither.
LEMMA TwilioMoves ==
  HooksTyped /\ TwilioOnce /\ [InboundNext]_allVars => [Twilio!Next]_(Twilio!contractVars)
<1> DEFINE notedT == {m \in received : inbox[m].via = "twilio"}
           actedT == [m \in Msg |-> IF inbox[m].via = "twilio" THEN handled[m] ELSE 0]
<1> SUFFICES ASSUME HooksTyped, TwilioOnce, [InboundNext]_allVars
             PROVE  Twilio!Next \/ (notedT' = notedT /\ actedT' = actedT)
  BY DEF Twilio!contractVars
<1>0. UNCHANGED inbox /\ handled \in [Msg -> Nat] /\ received \subseteq Msg
      /\ \A h \in Hook : hook[h].at # "idle" => hook[h].msg \in Msg
  BY HookMoves DEF HooksTyped
<1>1. CASE UNCHANGED <<received, handled>>
  BY <1>0, <1>1
<1>2. ASSUME NEW h \in Hook, Noted(h) PROVE Twilio!Next \/ (notedT' = notedT /\ actedT' = actedT)
  <2> DEFINE m == hook[h].msg
  <2>1. m \in Msg /\ received' = received \cup {m} /\ UNCHANGED handled
    BY <1>0, <1>2 DEF Noted
  <2>2. CASE IsTwilio(m)
    <3>1. m \notin received
      BY <1>2, <2>2 DEF Noted, Through, IsTwilio
    <3>2. m \notin notedT /\ notedT' = notedT \cup {m} /\ actedT' = actedT
      BY <1>0, <2>1, <2>2, <3>1 DEF IsTwilio
    <3> HIDE DEF m
    <3> QED BY <2>1, <3>2 DEF Twilio!Next, Twilio!Note
  <2>3. CASE ~IsTwilio(m)
    BY <1>0, <2>1, <2>3 DEF IsTwilio
  <2> QED BY <2>2, <2>3
<1>3. ASSUME NEW h \in Hook, Routed(h) PROVE Twilio!Next \/ (notedT' = notedT /\ actedT' = actedT)
  <2> DEFINE m == hook[h].msg
  <2>1. m \in Msg /\ handled' = [handled EXCEPT ![m] = @ + 1] /\ UNCHANGED received
        /\ hook[h].at = "route"
    BY <1>0, <1>3 DEF Routed
  <2>2. CASE IsTwilio(m)
    <3>1. m \in received /\ handled[m] = 0
      BY <2>1, <2>2 DEF TwilioOnce
    <3>2. m \in notedT /\ actedT[m] = 0 /\ notedT' = notedT /\ actedT' = [actedT EXCEPT ![m] = 1]
      BY <1>0, <2>1, <2>2, <3>1 DEF IsTwilio
    <3> HIDE DEF m
    <3> QED BY <2>1, <3>2 DEF Twilio!Next, Twilio!Act
  <2>3. CASE ~IsTwilio(m)
    BY <1>0, <2>1, <2>3 DEF IsTwilio
  <2> QED BY <2>2, <2>3
<1> QED BY <1>1, <1>2, <1>3, HookMoves DEF HookMove, Leave, ToLog, Lost, Ring, Skip

LEMMA TwilioBegins == InboundInit => Twilio!Init
BY HooksInit DEF InboundInit, Twilio!Init, HooksTyped

\* A message of Twilio is noted, then acted on, and acted on once, whatever is
\* delivered again and whatever fails.
THEOREM TwilioKeepsContract == InboundSpec => TwilioContract
<1>1. InboundSpec => [](HooksTyped /\ TwilioOnce)
  BY HooksInit, HooksStep, TwilioInit, TwilioStep, PTL DEF InboundSpec
<1> QED BY <1>1, TwilioBegins, TwilioMoves, PTL DEF TwilioContract, Twilio!Spec, InboundSpec

-----------------------------------------------------------------------------
(* A message of Termii. *)

\* The requests that may still route it.
Fresh(m) ==
  {h \in Hook : hook[h].msg = m /\ hook[h].at \in
     (IF m \in received THEN {"log", "route"} ELSE {"check", "log", "route"})}

\* As long as the row is not there, one more request that has not come past its
\* insert is no surprise; after that every further one has been counted.
Surplus(m) ==
  IF m \in received \/ \E h \in Hook : hook[h].msg = m /\ hook[h].at \in {"check", "log"}
  THEN 1 ELSE 0

TermiiCounted ==
  \A m \in Msg : inbox[m].via = "termii" =>
    handled[m] + Cardinality(Fresh(m)) <= repeated[m] + faults + Surplus(m)

LEMMA FreshIsFinite ==
  \A m \in Msg : IsFiniteSet(Fresh(m)) /\ Cardinality(Fresh(m)) \in Nat /\ Surplus(m) \in {0, 1}
<1> TAKE m \in Msg
<1>1. Fresh(m) \subseteq Hook
  BY DEF Fresh
<1> QED BY <1>1, DiaryAssumption, FS_Subset, FS_CardinalityType DEF Surplus

LEMMA TermiiInit == InboundInit => TermiiCounted
<1> SUFFICES ASSUME InboundInit, NEW m \in Msg PROVE handled[m] + Cardinality(Fresh(m)) <= repeated[m] + faults + Surplus(m)
  BY DEF TermiiCounted
<1>1. Fresh(m) = {}
  BY DEF InboundInit, Fresh, FreeHook
<1>2. handled[m] = 0 /\ repeated[m] = 0 /\ faults = 0
  BY DEF InboundInit, RsvpInit
<1> QED BY <1>1, <1>2, FS_EmptySet, FreshIsFinite

\* A step that leaves the message alone, but for faults.
LEMMA TermiiKept ==
  ASSUME HooksTyped, TermiiCounted, NEW m \in Msg, inbox[m].via = "termii",
         Fresh(m)' \subseteq Fresh(m), Surplus(m)' >= Surplus(m),
         handled'[m] = handled[m], repeated'[m] = repeated[m], faults' \in Nat, faults' >= faults
  PROVE  handled'[m] + Cardinality(Fresh(m)') <= repeated'[m] + faults' + Surplus(m)'
<1>1. IsFiniteSet(Fresh(m)) /\ Cardinality(Fresh(m)) \in Nat /\ Surplus(m) \in {0, 1}
  BY FreshIsFinite
<1>2. Cardinality(Fresh(m)') <= Cardinality(Fresh(m)) /\ Cardinality(Fresh(m)') \in Nat
  BY <1>1, FS_Subset, FS_CardinalityType
<1>3. Surplus(m)' \in {0, 1}
  BY DEF Surplus
<1>4. handled[m] + Cardinality(Fresh(m)) <= repeated[m] + faults + Surplus(m)
  BY DEF TermiiCounted
<1>5. handled[m] \in Nat /\ repeated[m] \in Nat /\ faults \in Nat
  BY DEF HooksTyped
<1> QED BY <1>1, <1>2, <1>3, <1>4, <1>5

LEMMA TermiiStep == HooksTyped /\ TermiiCounted /\ [InboundNext]_allVars => TermiiCounted'
<1> SUFFICES ASSUME HooksTyped, TermiiCounted, [InboundNext]_allVars,
                    NEW m \in Msg, inbox[m].via = "termii"
             PROVE  handled'[m] + Cardinality(Fresh(m)') <= repeated'[m] + faults' + Surplus(m)'
  BY HookMoves DEF TermiiCounted
<1>0. /\ hook \in [Hook -> HookRecord] /\ UNCHANGED inbox
      /\ handled \in [Msg -> Nat] /\ repeated \in [Msg -> Nat] /\ faults \in Nat
      /\ faults' \in Nat /\ faults' >= faults
      /\ \A h \in Hook : hook[h].at # "idle" => hook[h].msg \in Msg
  BY HookMoves DEF HooksTyped
<1>a. /\ IsFiniteSet(Fresh(m)) /\ Cardinality(Fresh(m)) \in Nat
      /\ Surplus(m) \in {0, 1} /\ Surplus(m)' \in {0, 1}
      /\ handled[m] + Cardinality(Fresh(m)) <= repeated[m] + faults + Surplus(m)
  BY FreshIsFinite DEF TermiiCounted, Surplus
<1>b. /\ handled[m] \in Nat /\ repeated[m] \in Nat
  BY <1>0
<1>1. CASE Skip
  <2>1. Fresh(m)' = Fresh(m) /\ Surplus(m)' = Surplus(m)
    BY <1>1 DEF Skip, Fresh, Surplus
  <2> QED BY <1>0, <1>1, <1>a, <2>1, TermiiKept DEF Skip
<1>2. ASSUME NEW h \in Hook, Leave(h) PROVE handled'[m] + Cardinality(Fresh(m)') <= repeated'[m] + faults' + Surplus(m)'
  <2>1. /\ \A g \in Hook \ {h} : hook'[g] = hook[g]
        /\ hook'[h].at \notin {"check", "log", "route"} /\ UNCHANGED <<received, handled, repeated>>
    <3>1. CASE hook' = [hook EXCEPT ![h] = FreeHook]
      BY <1>0, <1>2, <3>1, HookUpdates DEF Leave
    <3>2. ASSUME NEW l \in Beyond, hook' = [hook EXCEPT ![h].at = l]
          PROVE  hook'[h].at \notin {"check", "log", "route"} /\ \A g \in Hook \ {h} : hook'[g] = hook[g]
      BY <1>0, <3>2, HookUpdates DEF Beyond
    <3> QED BY <1>2, <3>1, <3>2 DEF Leave
  <2>2. Fresh(m)' \subseteq Fresh(m)
    BY <2>1 DEF Fresh
  <2>3. Surplus(m)' >= Surplus(m)
    BY <1>2, <2>1 DEF Surplus, Leave
  <2> QED BY <1>0, <2>1, <2>2, <2>3, TermiiKept
<1>3. ASSUME NEW h \in Hook, hook' = [hook EXCEPT ![h] = FreeHook], faults' = faults + 1,
             UNCHANGED <<received, handled, repeated>>
      PROVE  handled'[m] + Cardinality(Fresh(m)') <= repeated'[m] + faults' + Surplus(m)'
  <2>1. \A g \in Hook \ {h} : hook'[g] = hook[g]
    BY <1>0, <1>3
  <2>2. Fresh(m)' \subseteq Fresh(m)
    <3>1. hook'[h].at = "idle"
      BY <1>0, <1>3, HookUpdates
    <3> QED BY <1>3, <2>1, <3>1 DEF Fresh
  <2>3. Cardinality(Fresh(m)') <= Cardinality(Fresh(m)) /\ Cardinality(Fresh(m)') \in Nat
    BY <1>a, <2>2, FS_Subset, FS_CardinalityType
  <2> QED BY <1>0, <1>3, <1>a, <1>b, <2>3
<1>4. ASSUME NEW h \in Hook, ToLog(h) \/ Noted(h) \/ Lost(h)
      PROVE  handled'[m] + Cardinality(Fresh(m)') <= repeated'[m] + faults' + Surplus(m)'
  <2>0. PICK l \in {"log", "route"} : hook' = [hook EXCEPT ![h].at = l]
    BY <1>4 DEF ToLog, Noted, Lost
  <2>1. /\ \A g \in Hook \ {h} : hook'[g] = hook[g]
        /\ hook'[h].at = l /\ hook'[h].msg = hook[h].msg
        /\ UNCHANGED <<handled, repeated>> /\ received \subseteq received'
    <3>1. l \in HookStep
      BY DEF HookStep
    <3>2. hook'[h].at = l /\ hook'[h].msg = hook[h].msg /\ \A g \in Hook \ {h} : hook'[g] = hook[g]
      BY <1>0, <2>0, <3>1, HookUpdates
    <3>3. UNCHANGED <<handled, repeated>> /\ received \subseteq received'
      BY <1>4 DEF ToLog, Noted, Lost
    <3> QED BY <3>2, <3>3
  <2>2. Fresh(m)' \subseteq Fresh(m)
    <3>1. hook[h].msg = m => h \in Fresh(m)
      BY <1>4 DEF ToLog, Noted, Lost, Fresh
    <3> QED BY <2>1, <3>1 DEF Fresh
  <2>3. CASE ToLog(h) \/ Noted(h)
    <3>1. Surplus(m)' >= Surplus(m)
      <4>1. CASE hook[h].msg # m
        BY <2>1, <4>1 DEF Surplus
      <4>2. CASE hook[h].msg = m /\ ToLog(h)
        <5>1. hook'[h].at = "log"
          BY <1>0, <4>2, HookUpdates DEF ToLog, HookStep
        <5> QED BY <2>1, <4>2, <5>1, <1>a DEF Surplus
      <4>3. CASE hook[h].msg = m /\ Noted(h)
        BY <4>3, <1>a DEF Surplus, Noted
      <4> QED BY <2>3, <4>1, <4>2, <4>3
    <3> QED BY <1>0, <2>1, <2>2, <3>1, TermiiKept
  <2>4. CASE Lost(h)
    <3>1. Cardinality(Fresh(m)') <= Cardinality(Fresh(m)) /\ Cardinality(Fresh(m)') \in Nat
      BY <1>a, <2>2, FS_Subset, FS_CardinalityType
    <3>2. faults' = faults + 1 /\ handled'[m] = handled[m] /\ repeated'[m] = repeated[m]
      BY <2>1, <2>4 DEF Lost
    <3> QED BY <1>0, <1>a, <1>b, <3>1, <3>2
  <2> QED BY <1>4, <2>3, <2>4
<1>5. ASSUME NEW h \in Hook, Routed(h)
      PROVE  handled'[m] + Cardinality(Fresh(m)') <= repeated'[m] + faults' + Surplus(m)'
  <2>1. /\ \A g \in Hook \ {h} : hook'[g] = hook[g]
        /\ hook'[h].at \notin {"check", "log", "route"} /\ UNCHANGED <<received, repeated, faults>>
        /\ hook[h].at = "route"
    <3>1. CASE hook' = [hook EXCEPT ![h] = FreeHook]
      BY <1>0, <1>5, <3>1, HookUpdates DEF Routed
    <3>2. ASSUME NEW l \in Beyond, hook' = [hook EXCEPT ![h].at = l]
          PROVE  hook'[h].at \notin {"check", "log", "route"} /\ \A g \in Hook \ {h} : hook'[g] = hook[g]
      BY <1>0, <3>2, HookUpdates DEF Beyond
    <3> QED BY <1>5, <3>1, <3>2 DEF Routed
  <2>2. Fresh(m)' = Fresh(m) \ {h} /\ Surplus(m)' = Surplus(m)
    BY <2>1 DEF Fresh, Surplus
  <2>3. CASE hook[h].msg # m
    <3>1. handled'[m] = handled[m]
      BY <1>0, <1>5, <2>1, <2>3 DEF Routed
    <3>2. Fresh(m)' \subseteq Fresh(m) /\ Surplus(m)' >= Surplus(m) /\ repeated'[m] = repeated[m]
      BY <1>a, <2>1, <2>2
    <3> QED BY <1>0, <3>1, <3>2, TermiiKept
  <2>4. CASE hook[h].msg = m
    <3>1. h \in Fresh(m)
      BY <2>1, <2>4 DEF Fresh
    <3>2. Cardinality(Fresh(m)') = Cardinality(Fresh(m)) - 1
      BY <1>a, <2>2, <3>1, FS_RemoveElement
    <3>3. handled'[m] = handled[m] + 1
      BY <1>0, <1>5, <2>4 DEF Routed
    <3> QED BY <1>0, <1>a, <1>b, <2>1, <2>2, <3>2, <3>3
  <2> QED BY <2>3, <2>4
<1>6. ASSUME NEW h \in Hook, NEW n \in Msg, Ring(h, n)
      PROVE  handled'[m] + Cardinality(Fresh(m)') <= repeated'[m] + faults' + Surplus(m)'
  <2>1. /\ \A g \in Hook \ {h} : hook'[g] = hook[g]
        /\ hook'[h].msg = n /\ (n = m => hook'[h].at = "check")
        /\ hook[h].at = "idle" /\ UNCHANGED <<received, handled, faults>>
    BY <1>0, <1>6 DEF Ring
  <2>2. CASE n # m
    <3>1. Fresh(m)' = Fresh(m) /\ Surplus(m)' = Surplus(m)
      BY <2>1, <2>2 DEF Fresh, Surplus
    <3>2. repeated'[m] = repeated[m]
      BY <1>0, <1>6, <2>2 DEF Ring
    <3> QED BY <1>0, <1>a, <2>1, <3>1, <3>2, TermiiKept
  <2>3. CASE n = m
    <3>1. Surplus(m)' = 1
      BY <2>1, <2>3 DEF Surplus
    <3>2. repeated'[m] = IF \E g \in Hook : hook[g].msg = m THEN repeated[m] + 1 ELSE repeated[m]
      BY <1>0, <1>6, <2>3 DEF Ring
    <3>3. CASE m \in received
      <4>1. Fresh(m)' = Fresh(m)
        BY <2>1, <2>3, <3>3 DEF Fresh
      <4> QED BY <1>0, <1>a, <1>b, <2>1, <3>1, <3>2, <4>1
    <3>4. CASE m \notin received
      <4>1. h \notin Fresh(m) /\ Fresh(m)' = Fresh(m) \cup {h}
        BY <2>1, <2>3, <3>4 DEF Fresh
      <4>2. Cardinality(Fresh(m)') = Cardinality(Fresh(m)) + 1
        BY <1>a, <4>1, FS_AddElement
      <4>3. repeated'[m] = repeated[m] + 1 \/ (repeated'[m] = repeated[m] /\ Surplus(m) = 0)
        BY <3>2, <3>4 DEF Surplus
      <4> QED BY <1>0, <1>a, <1>b, <2>1, <3>1, <4>2, <4>3
    <3> QED BY <3>3, <3>4
  <2> QED BY <2>2, <2>3
<1> QED BY <1>1, <1>2, <1>3, <1>4, <1>5, <1>6, HookMoves DEF HookMove

LEMMA TermiiSuffices == HooksTyped /\ TermiiCounted => TermiiHandled
BY FreshIsFinite DEF HooksTyped, TermiiCounted, TermiiHandled

\* A message of Termii is handled once, and once more only for a delivery that
\* began while another was being handled, or for a fault.
THEOREM TermiiIsHandled == InboundSpec => []TermiiHandled
<1>1. InboundSpec => [](HooksTyped /\ TermiiCounted)
  BY HooksInit, HooksStep, TermiiInit, TermiiStep, PTL DEF InboundSpec
<1> QED BY <1>1, TermiiSuffices, PTL

-----------------------------------------------------------------------------
(* The RSVP and workflow handlers. *)

LEMMA MinIsMember ==
  ASSUME NEW S \in SUBSET Nat, S # {}
  PROVE  Min(S) \in S
<1>1. \E x \in S : \A y \in S : <<y, x>> \notin OpToRel(<, Nat)
  BY NatLessThanWellFounded, WFMin
<1>2. \E x \in S : \A y \in S : ~(y < x)
  BY <1>1 DEF OpToRel
<1>3. \E x \in S : \A y \in S : x <= y
  BY <1>2
<1> QED BY <1>3 DEF Min

\* The types the rest needs; and a handler has a job of a queue.
DesksTyped ==
  /\ work \in [WorkId -> Job] /\ desk \in [Slot -> Desk] /\ now \in Nat
  /\ coupons \in [Event -> Nat] /\ located \in [Event -> Nat] /\ faults \in Nat
  /\ \A w \in Slot : desk[w].at # "idle" =>
       desk[w].job \in WorkId /\ work[desk[w].job].st # "none"

\* A job once added stays in Redis, with its data.
JobsStay ==
  \A j \in WorkId : work[j].st # "none" => work'[j].st # "none" /\ data'[j] = data[j]

\* The steps of a handler between the look at a row and the write of its mark.
Key == {"row", "queue", "send", "mark"}

\* What a step that is none of the workflow's own does to the rows.
Harmless ==
  /\ UNCHANGED <<coupon, coupons, noticed>> /\ faults' >= faults
  /\ located' \in [Event -> Nat] /\ \A e \in Event : located'[e] <= located[e]

Elsewhere == UNCHANGED desk /\ Harmless

Quiet(w) ==
  /\ desk[w].at \notin Key /\ desk'[w].at \notin Key
  /\ \A v \in Slot \ {w} : desk'[v] = desk[v]
  /\ Harmless

Paying(w) ==
  \/ Exists(w) \/ CreateRow(w) \/ QueueReminder(w) \/ Offer(w) \/ MarkCoupon(w) \/ FlowError(w)
  \/ CrashWork(w) \/ \E taken \in BOOLEAN : SendCoupon(w, taken)

DeskLabel == RsvpStep \cup FlowStep \cup {"idle", "complete", "throw"}

LEMMA DeskUpdates ==
  ASSUME desk \in [Slot -> Desk], NEW w \in Slot
  PROVE  /\ FreeDesk \in Desk /\ FreeDesk.at = "idle"
         /\ [desk EXCEPT ![w] = FreeDesk] \in [Slot -> Desk]
         /\ \A l \in DeskLabel :
              /\ [desk EXCEPT ![w].at = l] \in [Slot -> Desk]
              /\ [desk EXCEPT ![w].at = l][w].at = l
              /\ [desk EXCEPT ![w].at = l][w].job = desk[w].job
         /\ \A l \in DeskLabel, j \in WorkId :
              /\ [FreeDesk EXCEPT !.at = l, !.job = j] \in Desk
              /\ [FreeDesk EXCEPT !.at = l, !.job = j].at = l
              /\ [FreeDesk EXCEPT !.at = l, !.job = j].job = j
<1>1. FreeDesk \in Desk /\ FreeDesk.at = "idle"
  BY DEF FreeDesk, Desk
<1>2. ASSUME NEW l \in DeskLabel
      PROVE  /\ [desk EXCEPT ![w].at = l] \in [Slot -> Desk]
             /\ [desk EXCEPT ![w].at = l][w].at = l
             /\ [desk EXCEPT ![w].at = l][w].job = desk[w].job
  <2> HIDE DEF DeskLabel
  <2>1. l \in RsvpStep \cup FlowStep \cup {"idle", "complete", "throw"}
    BY DEF DeskLabel
  <2> QED BY <2>1 DEF Desk
<1>3. ASSUME NEW l \in DeskLabel, NEW j \in WorkId
      PROVE  /\ [FreeDesk EXCEPT !.at = l, !.job = j] \in Desk
             /\ [FreeDesk EXCEPT !.at = l, !.job = j].at = l
             /\ [FreeDesk EXCEPT !.at = l, !.job = j].job = j
  BY DEF FreeDesk, Desk, DeskLabel
<1> QED BY <1>1, <1>2, <1>3

\* The moves of an RSVP handler.
LEMMA AnswerMoves ==
  ASSUME DesksTyped, NEW w \in Slot, AnswerStep(w)
  PROVE  /\ Quiet(w) /\ desk' \in [Slot -> Desk] /\ desk'[w].job = desk[w].job
         /\ now' \in Nat /\ desk[w].at # "idle"
<1>0. desk \in [Slot -> Desk] /\ now \in Nat /\ located \in [Event -> Nat] /\ faults \in Nat
  BY DEF DesksTyped
<1>1. desk[w].at \in RsvpStep
  BY DEF AnswerStep, Look, Stamp, Answer, Settle, Reply, TriggerFlow, RsvpError, RsvpStep
<1>2. Harmless
  <2>1. UNCHANGED <<coupon, coupons, noticed>> /\ faults' >= faults
    <3>1. UNCHANGED <<coupon, coupons, noticed>>
      BY DEF AnswerStep, Look, Stamp, Answer, Settle, Reply, TriggerFlow, RsvpError, flowVars
    <3>2. faults' = faults \/ faults' = faults + 1
      BY RsvpFaultsGrow DEF RsvpStepOnly
    <3> QED BY <1>0, <3>1, <3>2
  <2>2. CASE Settle(w)
    <3>1. PICK x : located' = located \/ located' = [located EXCEPT ![x] = 0]
      BY <2>2 DEF Settle
    <3>2. located' \in [Event -> Nat] /\ \A e \in Event : located'[e] <= located[e]
      BY <1>0, <3>1
    <3> QED BY <2>1, <3>2 DEF Harmless
  <2>3. UNCHANGED located \/ Settle(w)
    BY DEF AnswerStep, Look, Stamp, Answer, Reply, TriggerFlow, RsvpError, flowVars
  <2> QED BY <1>0, <2>1, <2>2, <2>3 DEF Harmless
<1>3. now' \in Nat
  BY <1>0 DEF AnswerStep, Look, Stamp, Answer, Settle, Reply, TriggerFlow, RsvpError, guestVars
<1>4. CASE \E l \in {"complete", "reply", "settle", "trigger"} : desk' = [desk EXCEPT ![w].at = l]
  <2>1. PICK l \in {"complete", "reply", "settle", "trigger"} : desk' = [desk EXCEPT ![w].at = l]
    BY <1>4
  <2>2. l \in DeskLabel /\ l \notin Key
    BY DEF DeskLabel, RsvpStep, Key
  <2>3. desk' \in [Slot -> Desk] /\ desk'[w].at = l /\ desk'[w].job = desk[w].job
    BY <1>0, <2>1, <2>2, DeskUpdates
  <2>4. \A v \in Slot \ {w} : desk'[v] = desk[v]
    BY <1>0, <2>1
  <2> QED BY <1>1, <1>2, <1>3, <2>2, <2>3, <2>4 DEF Quiet, Key, RsvpStep
<1>5. CASE Look(w) /\ Invitations # {} /\ ~optedOut
  <2>1. Min(Invitations) \in Event
    <3>1. Invitations \in SUBSET Nat /\ Invitations \subseteq Event
      BY RsvpAssumption DEF Invitations
    <3> QED BY <1>5, <3>1, MinIsMember
  <2>2. PICK l \in {"stamp", "answer"} :
          desk' = [desk EXCEPT ![w].at = l, ![w].ev = Min(Invitations), ![w].time = now + 1]
    BY <1>5 DEF Look
  <2>3. desk' \in [Slot -> Desk] /\ desk'[w].at = l /\ desk'[w].job = desk[w].job
    <3> DEFINE e == Min(Invitations)
               t == now + 1
    <3>1. e \in Event /\ t \in Nat /\ desk' = [desk EXCEPT ![w].at = l, ![w].ev = e, ![w].time = t]
      BY <1>0, <2>1, <2>2
    <3> HIDE DEF e, t
    <3> QED BY ZenonT(60), <1>0, <3>1 DEF Desk, RsvpStep
  <2>4. \A v \in Slot \ {w} : desk'[v] = desk[v]
    BY <1>0, <2>2
  <2> QED BY <1>1, <1>2, <1>3, <2>3, <2>4 DEF Quiet, Key, RsvpStep
<1> QED BY <1>4, <1>5 DEF AnswerStep, Look, Stamp, Answer, Settle, Reply, TriggerFlow, RsvpError

\* The moves of a workflow handler.
LEMMA WorkflowMoves ==
  ASSUME DesksTyped, NEW w \in Slot, WorkflowStep(w)
  PROVE  /\ Quiet(w) \/ Paying(w)
         /\ desk' \in [Slot -> Desk] /\ desk'[w].job = desk[w].job /\ desk[w].at # "idle"
         /\ \A v \in Slot \ {w} : desk'[v] = desk[v]
<1>0. desk \in [Slot -> Desk] /\ located \in [Event -> Nat] /\ faults \in Nat
  BY DEF DesksTyped
<1>1. /\ desk[w].at \in FlowStep
      /\ \E l \in {"complete", "exists", "offer", "row", "queue", "send", "mark", "throw"} : Goes(w, l)
  BY DEF WorkflowStep, Plan, Exists, CreateRow, QueueReminder, Offer, SendCoupon, MarkCoupon,
         FlowError, FlowStep
<1>2. PICK l \in {"complete", "exists", "offer", "row", "queue", "send", "mark", "throw"} :
        desk' = [desk EXCEPT ![w].at = l]
  BY <1>1 DEF Goes
<1>3. l \in DeskLabel
  BY DEF DeskLabel, FlowStep
<1>4. desk' \in [Slot -> Desk] /\ desk'[w].at = l /\ desk'[w].job = desk[w].job
  BY <1>0, <1>2, <1>3, DeskUpdates
<1>5. \A v \in Slot \ {w} : desk'[v] = desk[v]
  BY <1>0, <1>2
<1>6. CASE Plan(w)
  <2>1. Harmless /\ desk[w].at = "plan"
    BY <1>0, <1>6 DEF Plan, Harmless, flowVars
  <2>2. \E k \in {"complete", "exists", "offer"} : desk' = [desk EXCEPT ![w].at = k]
    BY <1>6 DEF Plan, Goes
  <2>3. \A k \in {"complete", "exists", "offer"} : k \in DeskLabel
    BY DEF DeskLabel, FlowStep
  <2>4. desk'[w].at \in {"complete", "exists", "offer"}
    <3>1. PICK k \in {"complete", "exists", "offer"} : desk' = [desk EXCEPT ![w].at = k]
      BY <2>2
    <3>2. desk'[w].at = k
      BY <1>0, <2>3, <3>1, DeskUpdates
    <3> QED BY <3>2
  <2>5. Quiet(w)
    BY <1>5, <2>1, <2>4 DEF Quiet, Key
  <2> QED BY <1>1, <1>4, <1>5, <2>5 DEF FlowStep
<1> QED BY <1>1, <1>4, <1>5, <1>6 DEF WorkflowStep, Paying, FlowStep

\* The jobs of the queues through a step.
LEMMA AddedStays ==
  ASSUME work \in [WorkId -> Job], NEW Q \in SUBSET WorkId, NEW d, AddWork(Q, d)
  PROVE  JobsStay /\ work' \in [WorkId -> Job]
<1>1. PICK j \in Q : work[j].st = "none" /\ work' = [work EXCEPT ![j] = Added(@)]
                      /\ data' = [data EXCEPT ![j] = d]
  BY DEF AddWork
<1>2. Added(work[j]) \in Job
  BY JobOperationsTyped
<1>3. work' \in [WorkId -> Job] /\ \A i \in WorkId \ {j} : work'[i] = work[i]
  BY <1>1, <1>2
<1> QED BY <1>1, <1>3 DEF JobsStay

LEMMA TouchedStays ==
  ASSUME work \in [WorkId -> Job], NEW j \in WorkId, NEW x \in Job, x.st # "none",
         work' = [work EXCEPT ![j] = x], UNCHANGED data
  PROVE  JobsStay /\ work' \in [WorkId -> Job]
BY DEF JobsStay

LEMMA TouchesAreTyped ==
  ASSUME NEW x \in Job, x.st # "none"
  PROVE  /\ \A w \in Slot : Started(x, w) \in Job /\ Started(x, w).st # "none"
         /\ Completed(x) \in Job /\ Completed(x).st # "none"
         /\ \A n \in Nat : Failed(x, n) \in Job /\ Failed(x, n).st # "none"
         /\ Buried(x) \in Job /\ Buried(x).st # "none"
         /\ Unlocked(x) \in Job /\ Unlocked(x).st # "none"
         /\ Recovered(x) \in Job /\ Recovered(x).st # "none"
<1>1. /\ \A w \in Slot : Started(x, w) \in Job
      /\ Completed(x) \in Job /\ Buried(x) \in Job /\ Unlocked(x) \in Job /\ Recovered(x) \in Job
      /\ \A n \in Nat : Failed(x, n) \in Job
  <2>1. 0 \in Nat
    OBVIOUS
  <2> QED BY <2>1, JobOperationsTyped
<1>2. /\ \A w \in Slot : Started(x, w).st = "active"
      /\ Completed(x).st = "completed" /\ Buried(x).st = "failed" /\ Unlocked(x).st = x.st
      /\ Recovered(x).st = "waiting"
  BY DEF Job, Started, Completed, Buried, Unlocked, Recovered
<1>3. \A n \in Nat : Failed(x, n).st \in {"waiting", "failed"}
  BY DEF Job, Failed
<1> QED BY <1>1, <1>2, <1>3

LEMMA SlotMoves ==
  ASSUME DesksTyped, NEW w \in Slot, SlotStep(w)
  PROVE  /\ Quiet(w) \/ CrashWork(w)
         /\ JobsStay /\ work' \in [WorkId -> Job] /\ desk' \in [Slot -> Desk]
         /\ \A v \in Slot \ {w} : desk'[v] = desk[v]
         /\ desk'[w].at # "idle" => desk'[w].job \in WorkId /\ work'[desk'[w].job].st # "none"
         /\ UNCHANGED now
<1>0. /\ work \in [WorkId -> Job] /\ desk \in [Slot -> Desk] /\ located \in [Event -> Nat] /\ faults \in Nat
      /\ desk[w].at # "idle" => desk[w].job \in WorkId /\ work[desk[w].job].st # "none"
  BY DEF DesksTyped
<1>1. ASSUME NEW j \in WorkId, TakeWork(w, j) PROVE
         /\ Quiet(w)
         /\ JobsStay /\ work' \in [WorkId -> Job] /\ desk' \in [Slot -> Desk]
         /\ \A v \in Slot \ {w} : desk'[v] = desk[v]
         /\ desk'[w].at # "idle" => desk'[w].job \in WorkId /\ work'[desk'[w].job].st # "none"
         /\ UNCHANGED now
  <2>1. work[j] \in Job /\ work[j].st # "none" /\ work' = [work EXCEPT ![j] = Started(work[j], w)]
        /\ UNCHANGED data
    BY <1>0, <1>1 DEF TakeWork, Startable
  <2>2. JobsStay /\ work' \in [WorkId -> Job]
    BY <1>0, <2>1, TouchesAreTyped, TouchedStays
  <2>3. First(j) \in DeskLabel /\ First(j) \notin Key
    BY DEF First, DeskLabel, RsvpStep, FlowStep, Key
  <2>4. /\ desk' = [desk EXCEPT ![w] = [FreeDesk EXCEPT !.at = First(j), !.job = j]]
        /\ desk[w].at = "idle"
    BY <1>1 DEF TakeWork
  <2>5. /\ desk' \in [Slot -> Desk] /\ desk'[w].at = First(j) /\ desk'[w].job = j
        /\ \A v \in Slot \ {w} : desk'[v] = desk[v]
    <3> DEFINE r == [FreeDesk EXCEPT !.at = First(j), !.job = j]
    <3>1. r \in Desk /\ r.at = First(j) /\ r.job = j
      BY <1>0, <2>3, DeskUpdates
    <3>2. desk' = [desk EXCEPT ![w] = r]
      BY <2>4
    <3> HIDE DEF r
    <3> QED BY <1>0, <3>1, <3>2
  <2>6. Harmless /\ UNCHANGED now
    BY <1>0, <1>1 DEF TakeWork, Harmless, flowVars, guestVars
  <2>7. Quiet(w)
    BY <2>3, <2>4, <2>5, <2>6 DEF Quiet, Key
  <2>8. work'[j].st # "none"
    BY <2>1, <2>2 DEF JobsStay
  <2> QED BY <2>2, <2>5, <2>6, <2>7, <2>8
<1>2. CASE CompleteWork(w) \/ ThrowWork(w) \/ CrashWork(w)
  <2>1. desk' = [desk EXCEPT ![w] = FreeDesk] /\ UNCHANGED data
    BY <1>2 DEF CompleteWork, ThrowWork, CrashWork, queueVars
  <2>2. desk' \in [Slot -> Desk] /\ desk'[w].at = "idle" /\ \A v \in Slot \ {w} : desk'[v] = desk[v]
    <3>1. FreeDesk \in Desk /\ FreeDesk.at = "idle"
      BY <1>0, DeskUpdates
    <3> QED BY <1>0, <2>1, <3>1
  <2>3. JobsStay /\ work' \in [WorkId -> Job]
    <3>1. CASE UNCHANGED work
      BY <1>0, <2>1, <3>1 DEF JobsStay
    <3> DEFINE j == desk[w].job
               n == IF j \in RsvpJob THEN RsvpAttempts ELSE FlowAttempts
    <3>2. CASE CompleteWork(w)
      <4>1. j \in WorkId /\ work[j].st # "none"
            /\ (UNCHANGED work \/ work' = [work EXCEPT ![j] = Completed(work[j])])
        BY <1>0, <3>2 DEF CompleteWork
      <4> HIDE DEF j
      <4>2. Completed(work[j]) \in Job /\ Completed(work[j]).st # "none"
        BY <1>0, <4>1, TouchesAreTyped
      <4> QED BY <1>0, <2>1, <3>1, <4>1, <4>2, TouchedStays
    <3>3. CASE ThrowWork(w)
      <4>1. j \in WorkId /\ work[j].st # "none" /\ n \in Nat
            /\ (UNCHANGED work \/ work' = [work EXCEPT ![j] = Failed(work[j], n)])
        BY <1>0, <3>3, RsvpAssumption DEF ThrowWork
      <4> HIDE DEF j, n
      <4>2. Failed(work[j], n) \in Job /\ Failed(work[j], n).st # "none"
        BY <1>0, <4>1, TouchesAreTyped
      <4> QED BY <1>0, <2>1, <3>1, <4>1, <4>2, TouchedStays
    <3> QED BY <1>2, <3>1, <3>2, <3>3 DEF CrashWork, queueVars
  <2>4. Quiet(w) \/ CrashWork(w)
    <3>1. CASE CompleteWork(w) \/ ThrowWork(w)
      <4>1. Harmless /\ desk[w].at \in {"complete", "throw"}
        BY <1>0, <3>1 DEF CompleteWork, ThrowWork, Harmless, flowVars
      <4> QED BY <2>2, <4>1 DEF Quiet, Key
    <3> QED BY <1>2, <3>1
  <2>5. UNCHANGED now
    BY <1>2 DEF CompleteWork, ThrowWork, CrashWork, guestVars
  <2> QED BY <2>2, <2>3, <2>4, <2>5
<1> QED BY <1>1, <1>2 DEF SlotStep

\* The moves of the queues.
LEMMA QueueMoves ==
  ASSUME DesksTyped, NEW j \in WorkId, WorkQueueStep(j)
  PROVE  Elsewhere /\ JobsStay /\ work' \in [WorkId -> Job] /\ UNCHANGED now
<1>0. work \in [WorkId -> Job] /\ located \in [Event -> Nat] /\ faults \in Nat /\ work[j] \in Job
  BY DEF DesksTyped
<1>1. UNCHANGED <<data, desk, flowVars, now>>
  BY DEF WorkQueueStep, ExpireWork, LoseWork, RecoverWork, BuryWork, guestVars
<1>2. faults' >= faults
  BY <1>0, RsvpFaultsGrow DEF RsvpStepOnly
<1>3. Elsewhere
  BY <1>0, <1>1, <1>2 DEF Elsewhere, Harmless, flowVars
<1>4. \E x \in {Unlocked(work[j]), Recovered(work[j]), Buried(work[j])} : work' = [work EXCEPT ![j] = x]
  BY DEF WorkQueueStep, ExpireWork, LoseWork, RecoverWork, BuryWork
<1>5. CASE work[j].st = "none"
  <2>1. work' = [work EXCEPT ![j] = Unlocked(work[j])]
    BY <1>5 DEF WorkQueueStep, ExpireWork, LoseWork, RecoverWork, BuryWork, Stalled, GivenUp
  <2>2. Unlocked(work[j]) \in Job
    BY <1>0, JobOperationsTyped, 0 \in Nat
  <2>3. work' \in [WorkId -> Job] /\ \A i \in WorkId \ {j} : work'[i] = work[i]
    BY <1>0, <2>1, <2>2
  <2>4. JobsStay
    BY <1>1, <1>5, <2>3 DEF JobsStay
  <2> QED BY <1>1, <1>3, <2>3, <2>4
<1>6. CASE work[j].st # "none"
  <2>1. PICK x \in Job : x.st # "none" /\ work' = [work EXCEPT ![j] = x]
    BY <1>0, <1>4, <1>6, TouchesAreTyped
  <2> QED BY <1>0, <1>1, <1>3, <2>1, TouchedStays
<1> QED BY <1>5, <1>6

\* Everything else leaves the handlers alone, or only adds a job.
LEMMA OtherMoves ==
  ASSUME DesksTyped, DeskStep \/ (\E h \in Hook : HookStepOf(h)) \/ UNCHANGED rsvpVars
  PROVE  Elsewhere /\ JobsStay /\ work' \in [WorkId -> Job] /\ now' \in Nat
<1>0. work \in [WorkId -> Job] /\ located \in [Event -> Nat] /\ faults \in Nat /\ now \in Nat
  BY DEF DesksTyped
<1>1. UNCHANGED <<desk, flowVars>> /\ faults' >= faults /\ now' \in Nat
  <2>1. CASE DeskStep
    <3>1. UNCHANGED <<desk, flowVars>>
      BY <2>1 DEF DeskStep, RespondWrite, BulkUpdate, EventStarts, ScanBadge, ClaimArrival, Thank,
                  RespondQueue, RequestDies, ToggleOptOut
    <3>2. now' \in {now, now + 1}
      BY <2>1 DEF DeskStep, RespondWrite, BulkUpdate, EventStarts, ScanBadge, ClaimArrival, Thank,
                  RespondQueue, RequestDies, ToggleOptOut, guestVars
    <3> QED BY <1>0, <2>1, <3>1, <3>2, RsvpFaultsGrow DEF RsvpStepOnly
  <2>2. ASSUME NEW h \in Hook, HookStepOf(h)
        PROVE  UNCHANGED <<desk, flowVars>> /\ faults' >= faults /\ now' \in Nat
    <3>1. UNCHANGED <<desk, flowVars, now>>
      BY <2>2 DEF HookStepOf, Deliver, CheckDuplicate, LogInbound, LogLost, Route, AskFeedback, Rate,
        AskInvitation, QueueReply, AskSession, NoSession, ErrandOver, MarkContact, HookFails, rsvpVars,
        guestVars, flowVars
    <3>2. faults' \in {faults, faults + 1}
      BY <2>2 DEF HookStepOf, Deliver, CheckDuplicate, LogInbound, LogLost, Route, AskFeedback, Rate,
        AskInvitation, QueueReply, AskSession, NoSession, ErrandOver, MarkContact, HookFails, rsvpVars,
        RsvpFault
    <3> QED BY <1>0, <3>1, <3>2
  <2>3. CASE UNCHANGED rsvpVars
    BY <1>0, <2>3 DEF rsvpVars, flowVars
  <2> QED BY <2>1, <2>2, <2>3
<1>2. JobsStay /\ work' \in [WorkId -> Job]
  <2>1. UNCHANGED queueVars \/ (\E d : AddWork(FlowJob, d)) \/ (\E d : AddWork(RsvpJob, d))
    <3>1. CASE DeskStep
      <4>1. UNCHANGED queueVars \/ RespondQueue
        BY <3>1 DEF DeskStep, RespondWrite, BulkUpdate, EventStarts, ScanBadge, ClaimArrival, Thank,
                    RequestDies, ToggleOptOut
      <4> QED BY <4>1 DEF RespondQueue
    <3>2. ASSUME NEW h \in Hook, HookStepOf(h)
          PROVE  UNCHANGED queueVars \/ (\E d : AddWork(FlowJob, d)) \/ (\E d : AddWork(RsvpJob, d))
      <4>1. UNCHANGED queueVars \/ QueueReply(h)
        BY <3>2 DEF HookStepOf, Deliver, CheckDuplicate, LogInbound, LogLost, Route, AskFeedback, Rate,
          AskInvitation, AskSession, NoSession, ErrandOver, MarkContact, HookFails, rsvpVars, queueVars
      <4> QED BY <4>1 DEF QueueReply, EnqueueRsvp
    <3>3. CASE UNCHANGED rsvpVars
      BY <3>3 DEF rsvpVars, queueVars
    <3> QED BY <3>1, <3>2, <3>3
  <2>2. CASE UNCHANGED queueVars
    BY <1>0, <2>2 DEF queueVars, JobsStay
  <2> QED BY <1>0, <2>1, <2>2, AddedStays DEF WorkId
<1> QED BY <1>0, <1>1, <1>2 DEF Elsewhere, Harmless, flowVars

\* Every step of the system is, to the handlers, one of these.
LEMMA DeskMoves ==
  ASSUME DesksTyped, [InboundNext]_allVars
  PROVE  /\ JobsStay /\ DesksTyped'
         /\ Elsewhere \/ \E w \in Slot : Quiet(w) \/ Paying(w)
<1>0. /\ work \in [WorkId -> Job] /\ desk \in [Slot -> Desk] /\ now \in Nat
      /\ coupons \in [Event -> Nat] /\ located \in [Event -> Nat] /\ faults \in Nat
      /\ \A w \in Slot : desk[w].at # "idle" =>
           desk[w].job \in WorkId /\ work[desk[w].job].st # "none"
  BY DEF DesksTyped
<1>1. CASE Elsewhere /\ JobsStay /\ work' \in [WorkId -> Job] /\ now' \in Nat /\ faults' \in Nat
  BY <1>0, <1>1 DEF Elsewhere, Harmless, JobsStay, DesksTyped
<1>2. ASSUME NEW w \in Slot, JobsStay, work' \in [WorkId -> Job], desk' \in [Slot -> Desk],
             \A v \in Slot \ {w} : desk'[v] = desk[v],
             desk'[w].at # "idle" => desk'[w].job \in WorkId /\ work'[desk'[w].job].st # "none",
             now' \in Nat, faults' \in Nat, coupons' \in [Event -> Nat], located' \in [Event -> Nat]
      PROVE  DesksTyped'
  BY <1>0, <1>2 DEF JobsStay, DesksTyped
<1>3. faults' \in Nat
  <2>1. faults' \in {faults, faults + 1}
    <3>1. CASE RsvpStepOnly
      BY <3>1, RsvpFaultsGrow
    <3>2. ASSUME NEW h \in Hook, HookStepOf(h) PROVE faults' \in {faults, faults + 1}
      BY <3>2 DEF HookStepOf, Deliver, CheckDuplicate, LogInbound, LogLost, Route, AskFeedback, Rate,
        AskInvitation, QueueReply, AskSession, NoSession, ErrandOver, MarkContact, HookFails, rsvpVars,
        RsvpFault
    <3> QED BY <3>1, <3>2 DEF InboundNext, allVars, rsvpVars
  <2> QED BY <1>0, <2>1
<1>4. CASE DeskStep \/ (\E h \in Hook : HookStepOf(h)) \/ UNCHANGED rsvpVars
  BY <1>1, <1>3, <1>4, OtherMoves
<1>5. ASSUME NEW j \in WorkId, WorkQueueStep(j)
      PROVE  JobsStay /\ DesksTyped' /\ Elsewhere
  BY <1>0, <1>1, <1>3, <1>5, QueueMoves
<1>6. ASSUME NEW w \in Slot, AnswerStep(w) PROVE JobsStay /\ DesksTyped' /\ Quiet(w)
  <2>1. /\ Quiet(w) /\ desk' \in [Slot -> Desk] /\ desk'[w].job = desk[w].job
        /\ now' \in Nat /\ desk[w].at # "idle"
    BY <1>6, AnswerMoves
  <2>2. UNCHANGED queueVars \/ (\E d : AddWork(FlowJob, d))
    BY <1>6 DEF AnswerStep, Look, Stamp, Answer, Settle, Reply, TriggerFlow, RsvpError
  <2>3. JobsStay /\ work' \in [WorkId -> Job]
    <3>1. CASE UNCHANGED queueVars
      BY <1>0, <3>1 DEF queueVars, JobsStay
    <3> QED BY <1>0, <2>2, <3>1, AddedStays DEF WorkId
  <2>4. coupons' \in [Event -> Nat] /\ located' \in [Event -> Nat]
        /\ \A v \in Slot \ {w} : desk'[v] = desk[v]
    BY <1>0, <2>1 DEF Quiet, Harmless
  <2>5. desk'[w].job \in WorkId /\ work'[desk'[w].job].st # "none"
    BY <1>0, <2>1, <2>3 DEF JobsStay
  <2> QED BY <1>2, <1>3, <2>1, <2>3, <2>4, <2>5
<1>7. ASSUME NEW w \in Slot, WorkflowStep(w) PROVE JobsStay /\ DesksTyped' /\ (Quiet(w) \/ Paying(w))
  <2>1. /\ Quiet(w) \/ Paying(w)
        /\ desk' \in [Slot -> Desk] /\ desk'[w].job = desk[w].job /\ desk[w].at # "idle"
        /\ \A v \in Slot \ {w} : desk'[v] = desk[v]
    BY <1>7, WorkflowMoves
  <2>2. UNCHANGED <<queueVars, now>>
    BY <1>7 DEF WorkflowStep, Plan, Exists, CreateRow, QueueReminder, Offer, SendCoupon, MarkCoupon,
                FlowError, guestVars
  <2>3. JobsStay /\ work' \in [WorkId -> Job] /\ now' \in Nat
    BY <1>0, <2>2 DEF queueVars, JobsStay
  <2>4. coupons' \in [Event -> Nat]
    <3>1. PICK x : coupons' = coupons \/ coupons' = [coupons EXCEPT ![x] = @ + 1]
      BY <1>7 DEF WorkflowStep, Plan, Exists, CreateRow, QueueReminder, Offer, SendCoupon, MarkCoupon,
                  FlowError, flowVars
    <3> QED BY <1>0, <3>1
  <2>5. located' \in [Event -> Nat]
    <3>1. PICK x : located' = located \/ located' = [located EXCEPT ![x] = @ + 1]
      BY <1>7 DEF WorkflowStep, Plan, Exists, CreateRow, QueueReminder, Offer, SendCoupon, MarkCoupon,
                  FlowError, flowVars
    <3> QED BY <1>0, <3>1
  <2>6. desk'[w].job \in WorkId /\ work'[desk'[w].job].st # "none"
    BY <1>0, <2>1, <2>3 DEF JobsStay
  <2> QED BY <1>2, <1>3, <2>1, <2>3, <2>4, <2>5, <2>6
<1>8. ASSUME NEW w \in Slot, SlotStep(w) PROVE JobsStay /\ DesksTyped' /\ (Quiet(w) \/ Paying(w))
  <2>1. coupons' \in [Event -> Nat] /\ located' \in [Event -> Nat]
    BY <1>0, <1>8 DEF SlotStep, TakeWork, CompleteWork, ThrowWork, CrashWork, flowVars
  <2> QED BY <1>0, <1>2, <1>3, <1>8, <2>1, SlotMoves DEF Paying
<1> QED BY <1>4, <1>5, <1>6, <1>7, <1>8 DEF InboundNext, RsvpStepOnly, allVars

-----------------------------------------------------------------------------
(* What a repeated trigger can cost. *)

\* The handlers at a step of the workflow of an event.
At(l, e) == {w \in Slot : desk[w].at = l /\ Data(w).ev = e}

\* n messages, of which f are due to faults: B may still send one, A have sent
\* one and not yet marked it. Once the mark is there no handler joins B.
PaidFor(n, f, B, A, e, marks) ==
  IF e \in marks THEN n + Cardinality(B) <= Cardinality(Slot) + f ELSE n <= f + Cardinality(A)

CouponsCounted ==
  \A e \in Event : PaidFor(coupons[e], faults, At("send", e), At("mark", e), e, coupon)

LocationsCounted ==
  \A e \in Event : PaidFor(located[e], faults, At("row", e), At("queue", e), e, noticed)

LEMMA Counting ==
  /\ \A X \in SUBSET Slot : IsFiniteSet(X) /\ Cardinality(X) \in Nat
  /\ \A X, Y \in SUBSET Slot : X \subseteq Y => Cardinality(X) <= Cardinality(Y)
  /\ Cardinality(Slot) \in Nat
<1>1. IsFiniteSet(Slot)
  BY RsvpAssumption
<1> QED BY <1>1, FS_Subset, FS_CardinalityType

LEMMA PaidKeeps ==
  ASSUME NEW n \in Nat, NEW n2 \in Nat, NEW f \in Nat, NEW f2 \in Nat,
         NEW A \in SUBSET Slot, NEW B \in SUBSET Slot, NEW A2 \in SUBSET Slot,
         NEW B2 \in SUBSET Slot, NEW e, NEW C, NEW C2,
         PaidFor(n, f, B, A, e, C), n2 <= n, f2 >= f, e \in C2 <=> e \in C, A \subseteq A2,
         e \in C => B2 \subseteq B
  PROVE  PaidFor(n2, f2, B2, A2, e, C2)
BY Counting DEF PaidFor

LEMMA PaidSends ==
  ASSUME NEW n \in Nat, NEW n2 \in Nat, NEW f \in Nat, NEW w \in Slot,
         NEW A \in SUBSET Slot, NEW B \in SUBSET Slot, NEW e, NEW C,
         PaidFor(n, f, B, A, e, C), w \in B, w \notin A, n2 <= n + 1
  PROVE  PaidFor(n2, f, B \ {w}, A \cup {w}, e, C)
<1>1. Cardinality(B \ {w}) = Cardinality(B) - 1 /\ Cardinality(A \cup {w}) = Cardinality(A) + 1
  BY Counting, FS_RemoveElement, FS_AddElement
<1> QED BY <1>1, Counting DEF PaidFor

LEMMA PaidMarks ==
  ASSUME NEW n \in Nat, NEW f \in Nat, NEW A \in SUBSET Slot, NEW B \in SUBSET Slot,
         NEW A2, NEW e, NEW C, NEW C2,
         PaidFor(n, f, B, A, e, C), A \cap B = {}, e \in C2
  PROVE  PaidFor(n, f, B, A2, e, C2)
<1>1. Cardinality(A \cup B) = Cardinality(A) + Cardinality(B) - Cardinality(A \cap B)
  BY Counting, FS_Union
<1>2. Cardinality(A \cap B) = 0
  BY FS_EmptySet
<1>3. A \cup B \in SUBSET Slot
  OBVIOUS
<1>4. Cardinality(A \cup B) <= Cardinality(Slot)
  BY <1>3, Counting
<1> QED BY <1>1, <1>2, <1>4, Counting DEF PaidFor

LEMMA PaidFails ==
  ASSUME NEW n \in Nat, NEW n2 \in Nat, NEW f \in Nat, NEW f2 \in Nat, NEW w \in Slot,
         NEW A \in SUBSET Slot, NEW B \in SUBSET Slot, NEW e, NEW C, NEW C2,
         PaidFor(n, f, B, A, e, C), f2 = f + 1, e \in C2 <=> e \in C,
         n2 <= n \/ (n2 <= n + 1 /\ w \notin A)
  PROVE  PaidFor(n2, f2, B \ {w}, A \ {w}, e, C2)
<1>1. Cardinality(B \ {w}) <= Cardinality(B) /\ Cardinality(B \ {w}) \in Nat
  BY Counting
<1>2. w \notin A => A \ {w} = A
  OBVIOUS
<1>3. w \in A => Cardinality(A \ {w}) = Cardinality(A) - 1
  BY Counting, FS_RemoveElement
<1> QED BY <1>1, <1>2, <1>3, Counting DEF PaidFor

\* Where the handlers are after a step of one of them.
LEMMA SetsMove ==
  ASSUME DesksTyped, JobsStay, NEW w \in Slot,
         \A v \in Slot \ {w} : desk'[v] = desk[v],
         (desk[w].at # "idle" /\ desk'[w].job = desk[w].job) \/ desk'[w].at \notin Key
  PROVE  \A e : \A l \in Key :
           At(l, e)' = IF desk'[w].at = l /\ Data(w).ev = e THEN At(l, e) \cup {w}
                       ELSE At(l, e) \ {w}
<1>1. ASSUME NEW v \in Slot, NEW e, NEW l \in Key, v # w
      PROVE  v \in At(l, e)' <=> v \in At(l, e)
  <2>1. l # "idle"
    BY DEF Key
  <2>2. desk[v].at = l => data'[desk[v].job] = data[desk[v].job]
    BY <2>1 DEF DesksTyped, JobsStay
  <2>3. desk'[v] = desk[v]
    BY <1>1
  <2> QED BY <2>2, <2>3 DEF At, Data
<1>2. ASSUME NEW e, NEW l \in Key
      PROVE  w \in At(l, e)' <=> desk'[w].at = l /\ Data(w).ev = e
  <2>1. CASE desk[w].at # "idle" /\ desk'[w].job = desk[w].job
    BY <2>1 DEF At, Data, DesksTyped, JobsStay
  <2>2. CASE desk'[w].at \notin Key
    BY <2>2 DEF At
  <2> QED BY <2>1, <2>2
<1>3. \A e, l : At(l, e) \subseteq Slot /\ At(l, e)' \subseteq Slot
  BY DEF At
<1> QED BY <1>1, <1>2, <1>3

LEMMA GoesTo ==
  ASSUME DesksTyped, NEW w \in Slot, NEW l \in DeskLabel, Goes(w, l)
  PROVE  desk'[w].at = l
<1>1. desk \in [Slot -> Desk]
  BY DEF DesksTyped
<1> QED BY <1>1, DeskUpdates DEF Goes

LEMMA PayingDesk ==
  ASSUME DesksTyped, NEW w \in Slot, Paying(w)
  PROVE  /\ \A v \in Slot \ {w} : desk'[v] = desk[v]
         /\ (desk[w].at # "idle" /\ desk'[w].job = desk[w].job) \/ desk'[w].at \notin Key
<1>1. CASE CrashWork(w)
  <2>1. desk \in [Slot -> Desk] /\ desk' = [desk EXCEPT ![w] = FreeDesk]
    BY <1>1 DEF DesksTyped, CrashWork
  <2>2. desk'[w].at = "idle"
    BY <2>1, DeskUpdates
  <2> QED BY <2>1, <2>2 DEF Key
<1>2. CASE WorkflowStep(w)
  BY <1>2, WorkflowMoves
<1> QED BY <1>1, <1>2 DEF Paying, WorkflowStep

\* The counters of both invariants, through one step.
LEMMA CouponsStep ==
  DesksTyped /\ CouponsCounted /\ [InboundNext]_allVars => CouponsCounted'
<1> SUFFICES ASSUME DesksTyped, CouponsCounted, [InboundNext]_allVars, NEW e \in Event
             PROVE  PaidFor(coupons'[e], faults', At("send", e)', At("mark", e)', e, coupon')
  BY DEF CouponsCounted
<1> DEFINE A == At("mark", e)  B == At("send", e)  A2 == At("mark", e)'  B2 == At("send", e)'
<1>0. /\ coupons[e] \in Nat /\ coupons'[e] \in Nat /\ faults \in Nat /\ faults' \in Nat
      /\ JobsStay /\ coupons \in [Event -> Nat]
      /\ A \in SUBSET Slot /\ B \in SUBSET Slot /\ A2 \in SUBSET Slot /\ B2 \in SUBSET Slot
  BY DeskMoves DEF DesksTyped, At
<1>1. PaidFor(coupons[e], faults, B, A, e, coupon)
  BY DEF CouponsCounted
<1>2. "send" \in Key /\ "mark" \in Key
  BY DEF Key
<1>3. CASE Elsewhere
  <2>1. A2 = A /\ B2 = B
    BY <1>0, <1>3 DEF Elsewhere, At, Data, DesksTyped, JobsStay
  <2>2. coupons'[e] <= coupons[e] /\ faults' >= faults /\ (e \in coupon' <=> e \in coupon)
    BY <1>0, <1>3 DEF Elsewhere, Harmless
  <2> HIDE DEF A, B, A2, B2
  <2>3. A \subseteq A2 /\ B2 \subseteq B
    BY <2>1
  <2>4. PaidFor(coupons'[e], faults', B2, A2, e, coupon')
    BY <1>0, <1>1, <2>2, <2>3, PaidKeeps
  <2> QED BY <2>4 DEF A2, B2
<1>4. ASSUME NEW w \in Slot, Quiet(w)
      PROVE  PaidFor(coupons'[e], faults', B2, A2, e, coupon')
  <2>1. desk[w].at \notin Key /\ desk'[w].at \notin Key /\ \A v \in Slot \ {w} : desk'[v] = desk[v]
    BY <1>4 DEF Quiet
  <2>2. A2 = A \ {w} /\ B2 = B \ {w}
    BY <1>0, <1>2, <2>1, SetsMove
  <2>3. w \notin A
    BY <1>2, <2>1 DEF At
  <2>4. coupons'[e] <= coupons[e] /\ faults' >= faults /\ (e \in coupon' <=> e \in coupon)
    BY <1>0, <1>4 DEF Quiet, Harmless
  <2> HIDE DEF A, B, A2, B2
  <2>5. A \subseteq A2 /\ B2 \subseteq B
    BY <2>2, <2>3
  <2> QED BY <1>0, <1>1, <2>4, <2>5, PaidKeeps
<1>5. ASSUME NEW w \in Slot, Paying(w)
      PROVE  PaidFor(coupons'[e], faults', B2, A2, e, coupon')
  <2> DEFINE own == Data(w).ev = e
  <2>1. /\ A2 = IF desk'[w].at = "mark" /\ own THEN A \cup {w} ELSE A \ {w}
        /\ B2 = IF desk'[w].at = "send" /\ own THEN B \cup {w} ELSE B \ {w}
    BY <1>0, <1>2, <1>5, PayingDesk, SetsMove
  <2>2. /\ w \in A <=> desk[w].at = "mark" /\ own
        /\ w \in B <=> desk[w].at = "send" /\ own
        /\ A \cap B = {}
    BY DEF At
  <2> HIDE DEF A, B, A2, B2
  <2>4. CASE Exists(w) \/ CreateRow(w) \/ QueueReminder(w)
    <3>1. PICK l \in {"offer", "row", "queue"} : Goes(w, l)
      BY <2>4 DEF Exists, CreateRow, QueueReminder
    <3>2. desk'[w].at = l
      BY <3>1, GoesTo DEF DeskLabel, FlowStep
    <3>3. UNCHANGED <<coupons, coupon, faults>> /\ desk[w].at \in {"exists", "row", "queue"}
      BY <2>4 DEF Exists, CreateRow, QueueReminder, flowVars
    <3>4. A \subseteq A2 /\ B2 \subseteq B
      BY <2>1, <2>2, <3>2, <3>3
    <3> QED BY <1>0, <1>1, <3>3, <3>4, PaidKeeps
  <2>5. CASE Offer(w)
    <3>1. PICK l \in {"complete", "send"} : Goes(w, l) /\ (l = "send" /\ own => e \notin coupon)
      BY <2>5 DEF Offer
    <3>2. desk'[w].at = l
      BY <3>1, GoesTo DEF DeskLabel, FlowStep
    <3>3. UNCHANGED <<coupons, coupon, faults>> /\ desk[w].at = "offer"
      BY <2>5 DEF Offer, flowVars
    <3>4. A \subseteq A2 /\ (e \in coupon => B2 \subseteq B)
      BY <2>1, <2>2, <3>1, <3>2, <3>3
    <3> QED BY <1>0, <1>1, <3>3, <3>4, PaidKeeps
  <2>6. ASSUME NEW taken \in BOOLEAN, SendCoupon(w, taken)
        PROVE  PaidFor(coupons'[e], faults', B2, A2, e, coupon')
    <3>1. desk'[w].at = "mark"
      BY <2>6, GoesTo DEF SendCoupon, DeskLabel, FlowStep
    <3>2. coupon' = coupon /\ faults' = faults /\ desk[w].at = "send"
      BY <2>6 DEF SendCoupon
    <3>3. CASE own
      <4>1. coupons'[e] <= coupons[e] + 1
        BY <1>0, <2>6, <3>3 DEF SendCoupon
      <4>2. w \in B /\ w \notin A /\ B2 = B \ {w} /\ A2 = A \cup {w}
        BY <2>1, <2>2, <3>1, <3>2, <3>3
      <4> QED BY <1>0, <1>1, <3>2, <4>1, <4>2, PaidSends
    <3>4. CASE ~own
      <4>1. coupons'[e] = coupons[e]
        BY <1>0, <2>6, <3>4 DEF SendCoupon
      <4>2. A \subseteq A2 /\ B2 \subseteq B
        BY <2>1, <2>2, <3>4
      <4> QED BY <1>0, <1>1, <3>2, <4>1, <4>2, PaidKeeps
    <3> QED BY <3>3, <3>4
  <2>7. CASE MarkCoupon(w)
    <3>1. desk'[w].at = "complete"
      BY <2>7, GoesTo DEF MarkCoupon, DeskLabel
    <3>2. coupons' = coupons /\ faults' = faults /\ desk[w].at = "mark"
      BY <2>7 DEF MarkCoupon
    <3>3. B2 = B
      BY <2>1, <2>2, <3>1, <3>2
    <3>4. CASE own
      <4>1. e \in coupon'
        BY <2>7, <3>4 DEF MarkCoupon
      <4> QED BY <1>0, <1>1, <2>2, <3>2, <3>3, <4>1, PaidMarks
    <3>5. CASE ~own
      <4>1. e \in coupon' <=> e \in coupon
        BY <2>7, <3>5 DEF MarkCoupon
      <4>2. A \subseteq A2
        BY <2>1, <2>2, <3>5
      <4> QED BY <1>0, <1>1, <3>2, <3>3, <4>1, <4>2, PaidKeeps
    <3> QED BY <3>4, <3>5
  <2>8. CASE FlowError(w) \/ CrashWork(w)
    <3>1. desk'[w].at \in {"throw", "idle"}
      <4>1. CASE FlowError(w)
        BY <4>1, GoesTo DEF FlowError, DeskLabel
      <4>2. CASE CrashWork(w)
        <5>1. desk \in [Slot -> Desk] /\ desk' = [desk EXCEPT ![w] = FreeDesk]
          BY <4>2 DEF DesksTyped, CrashWork
        <5> QED BY <5>1, DeskUpdates
      <4> QED BY <2>8, <4>1, <4>2
    <3>2. /\ faults' = faults + 1 /\ coupon' = coupon
          /\ coupons'[e] = coupons[e] \/ (desk[w].at = "send" /\ coupons'[e] <= coupons[e] + 1)
      BY <1>0, <2>8 DEF FlowError, CrashWork, RsvpFault, flowVars
    <3>3. A2 = A \ {w} /\ B2 = B \ {w}
      BY <2>1, <3>1
    <3>4. coupons'[e] <= coupons[e] \/ (coupons'[e] <= coupons[e] + 1 /\ w \notin A)
      <4>1. CASE desk[w].at = "send" /\ coupons'[e] <= coupons[e] + 1
        <5>1. w \notin A
          BY <2>2, <4>1
        <5> QED BY <4>1, <5>1
      <4>2. CASE coupons'[e] = coupons[e]
        BY <1>0, <4>2
      <4> QED BY <3>2, <4>1, <4>2
    <3> QED BY <1>0, <1>1, <3>2, <3>3, <3>4, PaidFails
  <2> QED BY <1>5, <2>4, <2>5, <2>6, <2>7, <2>8 DEF Paying
<1> QED BY <1>3, <1>4, <1>5, DeskMoves

LEMMA LocationsStep ==
  DesksTyped /\ LocationsCounted /\ [InboundNext]_allVars => LocationsCounted'
<1> SUFFICES ASSUME DesksTyped, LocationsCounted, [InboundNext]_allVars, NEW e \in Event
             PROVE  PaidFor(located'[e], faults', At("row", e)', At("queue", e)', e, noticed')
  BY DEF LocationsCounted
<1> DEFINE A == At("queue", e)  B == At("row", e)  A2 == At("queue", e)'  B2 == At("row", e)'
<1>0. /\ located[e] \in Nat /\ located'[e] \in Nat /\ faults \in Nat /\ faults' \in Nat
      /\ JobsStay /\ located \in [Event -> Nat]
      /\ A \in SUBSET Slot /\ B \in SUBSET Slot /\ A2 \in SUBSET Slot /\ B2 \in SUBSET Slot
  BY DeskMoves DEF DesksTyped, At
<1>1. PaidFor(located[e], faults, B, A, e, noticed)
  BY DEF LocationsCounted
<1>2. "row" \in Key /\ "queue" \in Key
  BY DEF Key
<1>3. CASE Elsewhere
  <2>1. A2 = A /\ B2 = B
    BY <1>0, <1>3 DEF Elsewhere, At, Data, DesksTyped, JobsStay
  <2>2. located'[e] <= located[e] /\ faults' >= faults /\ (e \in noticed' <=> e \in noticed)
    BY <1>0, <1>3 DEF Elsewhere, Harmless
  <2> HIDE DEF A, B, A2, B2
  <2>3. A \subseteq A2 /\ B2 \subseteq B
    BY <2>1
  <2>4. PaidFor(located'[e], faults', B2, A2, e, noticed')
    BY <1>0, <1>1, <2>2, <2>3, PaidKeeps
  <2> QED BY <2>4 DEF A2, B2
<1>4. ASSUME NEW w \in Slot, Quiet(w)
      PROVE  PaidFor(located'[e], faults', B2, A2, e, noticed')
  <2>1. desk[w].at \notin Key /\ desk'[w].at \notin Key /\ \A v \in Slot \ {w} : desk'[v] = desk[v]
    BY <1>4 DEF Quiet
  <2>2. A2 = A \ {w} /\ B2 = B \ {w}
    BY <1>0, <1>2, <2>1, SetsMove
  <2>3. w \notin A
    BY <1>2, <2>1 DEF At
  <2>4. located'[e] <= located[e] /\ faults' >= faults /\ (e \in noticed' <=> e \in noticed)
    BY <1>0, <1>4 DEF Quiet, Harmless
  <2> HIDE DEF A, B, A2, B2
  <2>5. A \subseteq A2 /\ B2 \subseteq B
    BY <2>2, <2>3
  <2> QED BY <1>0, <1>1, <2>4, <2>5, PaidKeeps
<1>5. ASSUME NEW w \in Slot, Paying(w)
      PROVE  PaidFor(located'[e], faults', B2, A2, e, noticed')
  <2> DEFINE own == Data(w).ev = e
  <2>1. /\ A2 = IF desk'[w].at = "queue" /\ own THEN A \cup {w} ELSE A \ {w}
        /\ B2 = IF desk'[w].at = "row" /\ own THEN B \cup {w} ELSE B \ {w}
    BY <1>0, <1>2, <1>5, PayingDesk, SetsMove
  <2>2. /\ w \in A <=> desk[w].at = "queue" /\ own
        /\ w \in B <=> desk[w].at = "row" /\ own
        /\ A \cap B = {}
    BY DEF At
  <2> HIDE DEF A, B, A2, B2
  <2>4. CASE Offer(w) \/ MarkCoupon(w) \/ \E taken \in BOOLEAN : SendCoupon(w, taken)
    <3>1. PICK l \in {"complete", "send", "mark"} : Goes(w, l)
      BY <2>4 DEF Offer, MarkCoupon, SendCoupon
    <3>2. desk'[w].at = l
      BY <3>1, GoesTo DEF DeskLabel, FlowStep
    <3>3. UNCHANGED <<located, noticed, faults>> /\ desk[w].at \in {"offer", "send", "mark"}
      BY <2>4 DEF Offer, MarkCoupon, SendCoupon, flowVars
    <3>4. A \subseteq A2 /\ B2 \subseteq B
      BY <2>1, <2>2, <3>2, <3>3
    <3> QED BY <1>0, <1>1, <3>3, <3>4, PaidKeeps
  <2>5. CASE Exists(w)
    <3>1. PICK l \in {"offer", "row"} : Goes(w, l) /\ (l = "row" /\ own => e \notin noticed)
      BY <2>5 DEF Exists
    <3>2. desk'[w].at = l
      BY <3>1, GoesTo DEF DeskLabel, FlowStep
    <3>3. UNCHANGED <<located, noticed, faults>> /\ desk[w].at = "exists"
      BY <2>5 DEF Exists, flowVars
    <3>4. A \subseteq A2 /\ (e \in noticed => B2 \subseteq B)
      BY <2>1, <2>2, <3>1, <3>2, <3>3
    <3> QED BY <1>0, <1>1, <3>3, <3>4, PaidKeeps
  <2>6. CASE CreateRow(w)
    <3>1. desk'[w].at = "queue"
      BY <2>6, GoesTo DEF CreateRow, DeskLabel, FlowStep
    <3>2. noticed' = noticed /\ faults' = faults /\ desk[w].at = "row"
      BY <2>6 DEF CreateRow
    <3>3. CASE own
      <4>1. located'[e] <= located[e] + 1
        BY <1>0, <2>6, <3>3 DEF CreateRow
      <4>2. w \in B /\ w \notin A /\ B2 = B \ {w} /\ A2 = A \cup {w}
        BY <2>1, <2>2, <3>1, <3>2, <3>3
      <4> QED BY <1>0, <1>1, <3>2, <4>1, <4>2, PaidSends
    <3>4. CASE ~own
      <4>1. located'[e] = located[e]
        BY <1>0, <2>6, <3>4 DEF CreateRow
      <4>2. A \subseteq A2 /\ B2 \subseteq B
        BY <2>1, <2>2, <3>4
      <4> QED BY <1>0, <1>1, <3>2, <4>1, <4>2, PaidKeeps
    <3> QED BY <3>3, <3>4
  <2>7. CASE QueueReminder(w)
    <3>1. desk'[w].at = "offer"
      BY <2>7, GoesTo DEF QueueReminder, DeskLabel, FlowStep
    <3>2. located' = located /\ faults' = faults /\ desk[w].at = "queue"
      BY <2>7 DEF QueueReminder
    <3>3. B2 = B
      BY <2>1, <2>2, <3>1, <3>2
    <3>4. CASE own
      <4>1. e \in noticed'
        BY <2>7, <3>4 DEF QueueReminder
      <4> QED BY <1>0, <1>1, <2>2, <3>2, <3>3, <4>1, PaidMarks
    <3>5. CASE ~own
      <4>1. e \in noticed' <=> e \in noticed
        BY <2>7, <3>5 DEF QueueReminder
      <4>2. A \subseteq A2
        BY <2>1, <2>2, <3>5
      <4> QED BY <1>0, <1>1, <3>2, <3>3, <4>1, <4>2, PaidKeeps
    <3> QED BY <3>4, <3>5
  <2>8. CASE FlowError(w) \/ CrashWork(w)
    <3>1. desk'[w].at \in {"throw", "idle"}
      <4>1. CASE FlowError(w)
        BY <4>1, GoesTo DEF FlowError, DeskLabel
      <4>2. CASE CrashWork(w)
        <5>1. desk \in [Slot -> Desk] /\ desk' = [desk EXCEPT ![w] = FreeDesk]
          BY <4>2 DEF DesksTyped, CrashWork
        <5> QED BY <5>1, DeskUpdates
      <4> QED BY <2>8, <4>1, <4>2
    <3>2. faults' = faults + 1 /\ noticed' = noticed /\ located'[e] <= located[e]
      BY <1>0, <2>8 DEF FlowError, CrashWork, RsvpFault, flowVars
    <3>3. A2 = A \ {w} /\ B2 = B \ {w}
      BY <2>1, <3>1
    <3> QED BY <1>0, <1>1, <3>2, <3>3, PaidFails
  <2> QED BY <1>5, <2>4, <2>5, <2>6, <2>7, <2>8 DEF Paying
<1> QED BY <1>3, <1>4, <1>5, DeskMoves

LEMMA CountsInit == InboundInit => DesksTyped /\ CouponsCounted /\ LocationsCounted
<1> SUFFICES ASSUME InboundInit PROVE DesksTyped /\ CouponsCounted /\ LocationsCounted
  OBVIOUS
<1>1. NoJob \in Job /\ FreeDesk \in Desk /\ FreeDesk.at = "idle"
  <2>1. NoJob \in Job
    BY DEF NoJob, Job, JobState
  <2>2. FreeDesk \in Desk /\ FreeDesk.at = "idle"
    BY DEF FreeDesk, Desk
  <2> QED BY <2>1, <2>2
<1>2. DesksTyped
  BY <1>1 DEF InboundInit, RsvpInit, DesksTyped
<1>3. \A e \in Event : \A A, B : A = {} =>
        PaidFor(coupons[e], faults, B, A, e, coupon) /\ PaidFor(located[e], faults, B, A, e, noticed)
  BY FS_EmptySet DEF PaidFor, InboundInit, RsvpInit
<1>4. \A e \in Event : At("mark", e) = {} /\ At("queue", e) = {}
  BY <1>1 DEF At, InboundInit, RsvpInit
<1> QED BY <1>2, <1>3, <1>4 DEF CouponsCounted, LocationsCounted

\* Where a bound follows from the count.
LEMMA PaidBound ==
  ASSUME NEW n \in Nat, NEW f \in Nat, NEW A \in SUBSET Slot, NEW B \in SUBSET Slot,
         NEW e, NEW C, PaidFor(n, f, B, A, e, C)
  PROVE  n <= Cardinality(Slot) + f
<1>1. Cardinality(A) <= Cardinality(Slot)
  BY Counting
<1> QED BY <1>1, Counting DEF PaidFor

LEMMA CountsSuffice ==
  DesksTyped /\ CouponsCounted /\ LocationsCounted => ExtrasPaidFor
<1>1. \A l, e : At(l, e) \in SUBSET Slot
  BY DEF At
<1>2. DesksTyped /\ CouponsCounted => CouponsPaidFor
  BY <1>1, PaidBound DEF DesksTyped, CouponsCounted, CouponsPaidFor
<1>3. DesksTyped /\ LocationsCounted => LocationsPaidFor
  BY <1>1, PaidBound DEF DesksTyped, LocationsCounted, LocationsPaidFor
<1> QED BY <1>2, <1>3 DEF ExtrasPaidFor

\* A contact gets no more coupons of an event than there are handlers and faults, and the
\* same bound holds of its PENDING location reminders.
THEOREM ExtrasArePaidFor == InboundSpec => []ExtrasPaidFor
<1>1. InboundSpec => [](DesksTyped /\ CouponsCounted /\ LocationsCounted)
  <2>1. DesksTyped /\ [InboundNext]_allVars => DesksTyped'
    BY DeskMoves
  <2> QED BY <2>1, CountsInit, CouponsStep, LocationsStep, PTL DEF InboundSpec
<1> QED BY <1>1, CountsSuffice, PTL

-----------------------------------------------------------------------------
(* The door. *)

\* Only one request thanks a guest, after it has claimed the arrival.
DoorKept ==
  /\ thanks \in [Event -> Nat] /\ scan \in [Scanner -> Request]
  /\ \A s \in Scanner : scan[s].at \in {"claim", "thank"} => scan[s].ev \in Event
  /\ OneArrival
  /\ \A s \in Scanner : scan[s].at = "thank" =>
       /\ scan[s].ev \in arrived /\ thanks[scan[s].ev] = 0
       /\ \A t \in Scanner : scan[t].at = "thank" /\ scan[t].ev = scan[s].ev => t = s

LEMMA RequestTyped ==
  /\ NoRequest \in Request /\ NoRequest.at = "idle"
  /\ \A r \in Request, l \in {"idle", "claim", "thank", "queue"}, e \in Event :
       [r EXCEPT !.at = l] \in Request /\ [r EXCEPT !.at = l, !.ev = e] \in Request
BY DEF NoRequest, Request

\* What no other part of the system touches.
LEMMA DoorMoves ==
  ASSUME [InboundNext]_allVars
  PROVE  \/ UNCHANGED doorVars
         \/ \E s \in Scanner : \/ \E e \in Event : ScanBadge(s, e)
                               \/ ClaimArrival(s)
                               \/ \E taken \in BOOLEAN : Thank(s, taken)
         \/ RequestDies
<1>1. ASSUME NEW w \in Slot, AnswerStep(w) \/ WorkflowStep(w) \/ SlotStep(w)
      PROVE  UNCHANGED doorVars
  BY <1>1 DEF AnswerStep, Look, Stamp, Answer, Settle, Reply, TriggerFlow, RsvpError, WorkflowStep,
    Plan, Exists, CreateRow, QueueReminder, Offer, SendCoupon, MarkCoupon, FlowError, SlotStep,
    TakeWork, CompleteWork, ThrowWork, CrashWork, doorVars
<1>2. ASSUME NEW j \in WorkId, WorkQueueStep(j)
      PROVE  UNCHANGED doorVars
  BY <1>2 DEF WorkQueueStep, ExpireWork, LoseWork, RecoverWork, BuryWork, doorVars
<1>3. CASE DeskStep
  BY <1>3 DEF DeskStep, RespondWrite, BulkUpdate, EventStarts, RespondQueue, ToggleOptOut, doorVars
<1>4. ASSUME NEW h \in Hook, HookStepOf(h)
      PROVE  UNCHANGED doorVars
  BY <1>4 DEF HookStepOf, Deliver, CheckDuplicate, LogInbound, LogLost, Route, AskFeedback, Rate,
    AskInvitation, QueueReply, AskSession, NoSession, ErrandOver, MarkContact, HookFails, rsvpVars,
    doorVars
<1> QED BY <1>1, <1>2, <1>3, <1>4 DEF InboundNext, RsvpStepOnly, allVars, rsvpVars, doorVars

LEMMA DoorStep == DoorKept /\ [InboundNext]_allVars => DoorKept'
<1> SUFFICES ASSUME DoorKept, [InboundNext]_allVars PROVE DoorKept'
  OBVIOUS
<1>0. /\ thanks \in [Event -> Nat] /\ scan \in [Scanner -> Request]
      /\ \A e \in Event : thanks[e] <= 1 /\ (thanks[e] = 1 => e \in arrived)
      /\ \A s \in Scanner : scan[s].at \in {"claim", "thank"} => scan[s].ev \in Event
  BY DEF DoorKept, OneArrival
<1>1. CASE UNCHANGED doorVars
  BY <1>1 DEF doorVars, DoorKept, OneArrival
<1>2. ASSUME NEW s \in Scanner, scan' = [scan EXCEPT ![s] = NoRequest], UNCHANGED <<arrived, thanks>>
      PROVE  DoorKept'
  <2>1. /\ scan' \in [Scanner -> Request] /\ scan'[s].at = "idle"
        /\ \A t \in Scanner \ {s} : scan'[t] = scan[t]
    BY <1>0, <1>2, RequestTyped
  <2> QED BY <1>2, <2>1 DEF DoorKept, OneArrival
<1>3. ASSUME NEW s \in Scanner, NEW e \in Event, ScanBadge(s, e) PROVE DoorKept'
  <2>1. scan' = [scan EXCEPT ![s].at = "claim", ![s].ev = e] /\ UNCHANGED <<arrived, thanks>>
    BY <1>3 DEF ScanBadge
  <2>2. /\ scan' \in [Scanner -> Request] /\ scan'[s].at = "claim" /\ scan'[s].ev = e
        /\ \A t \in Scanner \ {s} : scan'[t] = scan[t]
    BY <1>0, <2>1 DEF Request
  <2> QED BY <2>1, <2>2 DEF DoorKept, OneArrival
<1>4. ASSUME NEW s \in Scanner, ClaimArrival(s) PROVE DoorKept'
  <2> DEFINE e == scan[s].ev
  <2>1. CASE scan' = [scan EXCEPT ![s] = NoRequest] /\ UNCHANGED arrived
    BY <1>2, <1>4, <2>1 DEF ClaimArrival
  <2>2. CASE e \notin arrived /\ arrived' = arrived \cup {e} /\ scan' = [scan EXCEPT ![s].at = "thank"]
    <3>1. e \in Event /\ UNCHANGED thanks
      BY <1>0, <1>4 DEF ClaimArrival
    <3>2. /\ scan' \in [Scanner -> Request] /\ scan'[s].at = "thank" /\ scan'[s].ev = e
          /\ \A t \in Scanner \ {s} : scan'[t] = scan[t]
      BY <1>0, <2>2 DEF Request
    <3>3. thanks[e] = 0 /\ \A t \in Scanner : scan[t].at = "thank" => scan[t].ev # e
      BY <1>0, <2>2, <3>1 DEF DoorKept
    <3> HIDE DEF e
    <3>4. \A t \in Scanner : scan'[t].at = "thank" =>
            /\ scan'[t].ev \in arrived' /\ thanks'[scan'[t].ev] = 0
            /\ \A u \in Scanner : scan'[u].at = "thank" /\ scan'[u].ev = scan'[t].ev => u = t
      <4>1. ASSUME NEW t \in Scanner, t # s, scan'[t].at = "thank"
            PROVE  /\ scan'[t].ev \in arrived' /\ thanks'[scan'[t].ev] = 0 /\ scan'[t].ev # e
                   /\ \A u \in Scanner \ {s} : scan[u].at = "thank" /\ scan[u].ev = scan[t].ev => u = t
        BY <2>2, <3>1, <3>2, <3>3, <4>1 DEF DoorKept
      <4> QED BY <2>2, <3>1, <3>2, <3>3, <4>1
    <3>5. OneArrival'
      BY <1>0, <2>2, <3>1 DEF OneArrival
    <3>6. \A t \in Scanner : scan'[t].at \in {"claim", "thank"} => scan'[t].ev \in Event
      BY <1>0, <3>1, <3>2
    <3> QED BY <1>0, <3>1, <3>2, <3>4, <3>5, <3>6 DEF DoorKept
  <2> QED BY <1>4, <2>1, <2>2 DEF ClaimArrival
<1>5. ASSUME NEW s \in Scanner, NEW taken \in BOOLEAN, Thank(s, taken) PROVE DoorKept'
  <2> DEFINE e == scan[s].ev
  <2>1. /\ scan' = [scan EXCEPT ![s] = NoRequest] /\ UNCHANGED arrived
        /\ thanks' = thanks \/ thanks' = [thanks EXCEPT ![e] = @ + 1]
        /\ e \in Event /\ e \in arrived /\ thanks[e] = 0
        /\ \A t \in Scanner : scan[t].at = "thank" /\ scan[t].ev = e => t = s
    BY <1>0, <1>5 DEF Thank, DoorKept
  <2>2. /\ scan' \in [Scanner -> Request] /\ scan'[s].at = "idle"
        /\ \A t \in Scanner \ {s} : scan'[t] = scan[t]
    BY <1>0, <2>1, RequestTyped
  <2> HIDE DEF e
  <2>3. thanks' \in [Event -> Nat] /\ thanks'[e] <= 1 /\ \A f \in Event \ {e} : thanks'[f] = thanks[f]
    BY <1>0, <2>1
  <2>4. OneArrival'
    BY <1>0, <2>1, <2>3 DEF OneArrival
  <2>5. \A t \in Scanner : scan'[t].at = "thank" =>
          /\ t # s /\ scan[t].at = "thank" /\ scan'[t] = scan[t] /\ scan[t].ev \in Event \ {e}
    BY <1>0, <2>1, <2>2
  <2> QED BY <1>0, <2>1, <2>2, <2>3, <2>4, <2>5 DEF DoorKept
<1>6. CASE RequestDies
  <2>1. UNCHANGED <<arrived, thanks>>
        /\ (UNCHANGED scan \/ \E s \in Scanner : scan' = [scan EXCEPT ![s] = NoRequest])
    BY <1>6 DEF RequestDies
  <2> QED BY <1>1, <1>2, <2>1 DEF doorVars
<1> QED BY <1>1, <1>3, <1>4, <1>5, <1>6, DoorMoves

\* Organisers who scan a badge at once thank its guest once, and only a guest who
\* has been checked in.
THEOREM GuestsArriveOnce == InboundSpec => []OneArrival
<1>1. InboundInit => DoorKept
  <2> SUFFICES ASSUME InboundInit PROVE DoorKept
    OBVIOUS
  <2>1. NoRequest \in Request /\ NoRequest.at = "idle"
    BY RequestTyped
  <2> QED BY <2>1 DEF InboundInit, RsvpInit, DoorKept, OneArrival
<1>2. DoorKept => OneArrival
  BY DEF DoorKept
<1> QED BY <1>1, <1>2, DoorStep, PTL DEF InboundSpec

-----------------------------------------------------------------------------
(* Who works at what. *)

\* An idle handler has no job, and the others a job of the worker they belong to;
\* an RSVP handler that has looked has an event.
ShiftsTyped ==
  /\ \A w \in Slot : desk[w].at = "idle" => desk[w].job = None
  /\ \A w \in Slot : desk[w].at \in RsvpStep => desk[w].job \in RsvpJob
  /\ \A w \in Slot : desk[w].at \in FlowStep \cup {"throw"} => desk[w].job \in FlowJob
  /\ \A w \in Slot : desk[w].at \in RsvpStep \ {"look"} => desk[w].ev \in Event

\* No step but a handler's moves the handlers.
LEMMA ShiftMoves ==
  ASSUME DesksTyped, [InboundNext]_allVars
  PROVE  \/ UNCHANGED desk
         \/ \E w \in Slot : AnswerStep(w) \/ WorkflowStep(w) \/ SlotStep(w)
<1>1. CASE DeskStep \/ (\E h \in Hook : HookStepOf(h)) \/ UNCHANGED rsvpVars
  BY <1>1, OtherMoves DEF Elsewhere
<1>2. CASE \E j \in WorkId : WorkQueueStep(j)
  BY <1>2, QueueMoves DEF Elsewhere
<1> QED BY <1>1, <1>2 DEF InboundNext, RsvpStepOnly, allVars

LEMMA InvitationsAreEvents ==
  ASSUME Invitations # {}
  PROVE  Min(Invitations) \in Invitations /\ Min(Invitations) \in Event
<1>1. Invitations \in SUBSET Nat /\ Invitations \subseteq Event
  BY RsvpAssumption DEF Invitations
<1> QED BY <1>1, MinIsMember

LEMMA ShiftsStep == DesksTyped /\ ShiftsTyped /\ [InboundNext]_allVars => ShiftsTyped'
<1> SUFFICES ASSUME DesksTyped, ShiftsTyped, [InboundNext]_allVars PROVE ShiftsTyped'
  OBVIOUS
<1>0. desk \in [Slot -> Desk] /\ now \in Nat
  BY DEF DesksTyped
<1>1. CASE UNCHANGED desk
  BY <1>1 DEF ShiftsTyped
<1>2. ASSUME NEW w \in Slot, NEW r \in Desk, desk' = [desk EXCEPT ![w] = r],
             r.at = "idle" => r.job = None, r.at \in RsvpStep => r.job \in RsvpJob,
             r.at \in FlowStep \cup {"throw"} => r.job \in FlowJob,
             r.at \in RsvpStep \ {"look"} => r.ev \in Event
      PROVE  ShiftsTyped'
  <2>1. desk'[w] = r /\ \A v \in Slot \ {w} : desk'[v] = desk[v]
    BY <1>0, <1>2
  <2> QED BY <1>2, <2>1 DEF ShiftsTyped
<1>3. ASSUME NEW w \in Slot, NEW l \in DeskLabel \ {"idle"}, desk' = [desk EXCEPT ![w].at = l],
             l \in RsvpStep => desk[w].at \in RsvpStep \ {"look"},
             l \in FlowStep \cup {"throw"} => desk[w].at \in FlowStep
      PROVE  ShiftsTyped'
  <2> DEFINE r == [desk[w] EXCEPT !.at = l]
  <2>1. desk' = [desk EXCEPT ![w] = r] /\ r \in Desk /\ r.at = l /\ r.job = desk[w].job /\ r.ev = desk[w].ev
    BY <1>0, <1>3 DEF Desk, DeskLabel
  <2>2. l # "idle"
    BY <1>3
  <2> HIDE DEF r
  <2> QED BY <1>2, <1>3, <2>1, <2>2 DEF ShiftsTyped
<1>4. \A w \in Slot : SlotStep(w) => ShiftsTyped'
  <2>1. ASSUME NEW w \in Slot, NEW j \in WorkId, TakeWork(w, j) PROVE ShiftsTyped'
    <3> DEFINE r == [FreeDesk EXCEPT !.at = First(j), !.job = j]
    <3>1. desk' = [desk EXCEPT ![w] = r] /\ r \in Desk /\ r.at = First(j) /\ r.job = j
      BY <2>1 DEF TakeWork, First, Desk, FreeDesk, RsvpStep, FlowStep
    <3>2. /\ First(j) # "idle"
          /\ First(j) \in RsvpStep => j \in RsvpJob
          /\ First(j) \notin RsvpStep \ {"look"} /\ First(j) # "throw"
      BY DEF First, RsvpStep
    <3>3. First(j) \in FlowStep => j \in FlowJob
      BY DEF First, FlowStep, WorkId
    <3> HIDE DEF r
    <3> QED BY <1>2, <3>1, <3>2, <3>3
  <2>2. ASSUME NEW w \in Slot, CompleteWork(w) \/ ThrowWork(w) \/ CrashWork(w) PROVE ShiftsTyped'
    <3>1. desk' = [desk EXCEPT ![w] = FreeDesk]
      BY <2>2 DEF CompleteWork, ThrowWork, CrashWork
    <3>2. FreeDesk \in Desk /\ FreeDesk.at = "idle" /\ FreeDesk.job = None
      BY DEF FreeDesk, Desk
    <3>3. "idle" \notin RsvpStep \cup FlowStep \cup {"throw"}
      BY DEF RsvpStep, FlowStep
    <3> QED BY <1>2, <3>1, <3>2, <3>3
  <2> QED BY <2>1, <2>2 DEF SlotStep
<1>5. ASSUME NEW w \in Slot, AnswerStep(w) PROVE ShiftsTyped'
  <2>1. CASE Look(w) /\ ~optedOut /\ Invitations # {}
    <3>1. PICK e \in Event, l \in {"stamp", "answer"} :
            desk' = [desk EXCEPT ![w].at = l, ![w].ev = e, ![w].time = now + 1]
      BY <2>1, InvitationsAreEvents DEF Look
    <3> DEFINE t == now + 1
               r == [desk[w] EXCEPT !.at = l, !.ev = e, !.time = t]
    <3>2. desk[w].job \in RsvpJob
      BY <2>1 DEF Look, ShiftsTyped, RsvpStep
    <3>3. desk' = [desk EXCEPT ![w] = r]
      BY <1>0, <3>1
    <3>4. r \in Desk /\ r.at = l /\ r.job = desk[w].job /\ r.ev = e
      <4>1. desk[w] \in Desk /\ t \in Nat /\ l \in DeskLabel
        BY <1>0 DEF DeskLabel, RsvpStep
      <4> HIDE DEF t
      <4> QED BY <4>1 DEF Desk, DeskLabel
    <3>5. l # "idle" /\ l \notin FlowStep \cup {"throw"}
      BY DEF FlowStep
    <3> HIDE DEF r
    <3> QED BY <1>2, <3>2, <3>3, <3>4, <3>5
  <2>2. CASE ~(Look(w) /\ ~optedOut /\ Invitations # {})
    <3>1. \/ desk' = [desk EXCEPT ![w].at = "complete"]
          \/ /\ desk[w].at \in RsvpStep \ {"look"}
             /\ \E l \in {"reply", "settle", "trigger", "complete"} : desk' = [desk EXCEPT ![w].at = l]
      BY <1>5, <2>2 DEF AnswerStep, Look, Stamp, Answer, Settle, Reply, TriggerFlow, RsvpError, RsvpStep
    <3>2. "complete" \notin RsvpStep \cup FlowStep \cup {"throw", "idle"}
      BY DEF RsvpStep, FlowStep
    <3>3. \A l \in {"reply", "settle", "trigger", "complete"} :
            l \in DeskLabel /\ l \notin FlowStep \cup {"throw"} /\ l # "idle"
      BY DEF DeskLabel, RsvpStep, FlowStep
    <3> QED BY <1>3, <3>1, <3>2, <3>3
  <2> QED BY <2>1, <2>2
<1>6. ASSUME NEW w \in Slot, WorkflowStep(w) PROVE ShiftsTyped'
  <2>1. /\ desk[w].at \in FlowStep
        /\ \E l \in FlowStep \cup {"complete", "throw"} : desk' = [desk EXCEPT ![w].at = l]
    BY <1>6 DEF WorkflowStep, Plan, Exists, CreateRow, QueueReminder, Offer, SendCoupon, MarkCoupon,
                FlowError, FlowStep, Goes
  <2>2. \A l \in FlowStep \cup {"complete", "throw"} : l \in DeskLabel /\ l \notin RsvpStep /\ l # "idle"
    BY DEF DeskLabel, RsvpStep, FlowStep
  <2> QED BY <1>3, <2>1, <2>2
<1> QED BY <1>1, <1>4, <1>5, <1>6, ShiftMoves

-----------------------------------------------------------------------------
(* How many invitations one reply answers. *)

\* The handlers that may still write an answer of job j.
Writers(j) == {w \in Slot : desk[w].job = j /\ desk[w].at \in {"look", "stamp", "answer"}}

\* Job j may be taken again: it waits, or its lock has no handler.
MayRun(j) ==
  \/ work[j].st \in {"none", "waiting"}
  \/ work[j].st = "active" /\ (work[j].owner = None \/ desk[work[j].owner].job # j)

\* Every invitation that is answered or still may be is the first one or due to a
\* fault.
Answerable(A, W, again, f) ==
  Cardinality(A) + Cardinality(W) + (IF again THEN 1 ELSE 0) <= 1 + f

AnswersCounted ==
  /\ answers \in [RsvpJob -> SUBSET Event]
  /\ \A j \in RsvpJob : Answerable(answers[j], Writers(j), MayRun(j), faults)

LEMMA CountingEvents ==
  \A X \in SUBSET Event : IsFiniteSet(X) /\ Cardinality(X) \in Nat
<1>1. IsFiniteSet(Event)
  BY RsvpAssumption
<1> QED BY <1>1, FS_Subset, FS_CardinalityType

LEMMA AnswersKept ==
  ASSUME NEW A \in SUBSET Event, NEW W \in SUBSET Slot, NEW W2 \in SUBSET W,
         NEW r \in BOOLEAN, NEW r2 \in BOOLEAN, NEW f \in Nat, NEW f2 \in Nat,
         Answerable(A, W, r, f), (r2 => r) \/ f2 > f, f2 >= f
  PROVE  Answerable(A, W2, r2, f2)
<1>1. Cardinality(W2) <= Cardinality(W) /\ Cardinality(W2) \in Nat /\ Cardinality(W) \in Nat
  BY Counting
<1>2. Cardinality(A) \in Nat
  BY CountingEvents
<1> QED BY <1>1, <1>2 DEF Answerable

LEMMA AnswersTaken ==
  ASSUME NEW A \in SUBSET Event, NEW W \in SUBSET Slot, NEW w \in Slot, NEW f \in Nat,
         Answerable(A, W, TRUE, f)
  PROVE  Answerable(A, W \cup {w}, FALSE, f)
<1>1. Cardinality(W \cup {w}) <= Cardinality(W) + 1 /\ Cardinality(W \cup {w}) \in Nat
      /\ Cardinality(W) \in Nat
  BY Counting, FS_AddElement
<1>2. Cardinality(A) \in Nat
  BY CountingEvents
<1> QED BY <1>1, <1>2 DEF Answerable

LEMMA AnswersWritten ==
  ASSUME NEW A \in SUBSET Event, NEW W \in SUBSET Slot, NEW w \in W, NEW e \in Event,
         NEW r \in BOOLEAN, NEW f \in Nat, Answerable(A, W, r, f)
  PROVE  Answerable(A \cup {e}, W \ {w}, r, f)
<1>1. Cardinality(W \ {w}) = Cardinality(W) - 1 /\ Cardinality(W) \in Nat
  BY Counting, FS_RemoveElement
<1>2. Cardinality(A \cup {e}) <= Cardinality(A) + 1 /\ Cardinality(A \cup {e}) \in Nat
      /\ Cardinality(A) \in Nat
  BY CountingEvents, FS_AddElement
<1> QED BY <1>1, <1>2 DEF Answerable

LEMMA QueuesApart == \A i \in RsvpJob, j \in FlowJob : i # j
BY DEF RsvpJob, FlowJob

LEMMA NoneIsNoJob == None \notin WorkId /\ None \notin Slot /\ None \notin RsvpJob
BY RsvpAssumption, QueueAssumption DEF WorkId

\* What leaves the jobs of the handlers and the started jobs as they are.
LEMMA MayRunKept ==
  ASSUME DesksTyped, NEW j \in RsvpJob, \A v \in Slot : desk'[v].job = desk[v].job,
         work'[j] = work[j] \/ MayRun(j)
  PROVE  MayRun(j)' => MayRun(j)
<1>1. work[j].owner \in Slot \cup {None}
  BY DEF DesksTyped, Job, WorkId
<1> QED BY <1>1 DEF MayRun

LEMMA AddedMayRun ==
  ASSUME DesksTyped, NEW j \in RsvpJob, NEW Q \in SUBSET WorkId, NEW d, AddWork(Q, d)
  PROVE  work'[j] = work[j] \/ MayRun(j)
<1>1. PICK i \in Q : work[i].st = "none" /\ work' = [work EXCEPT ![i] = Added(@)]
  BY DEF AddWork
<1>2. j \in WorkId /\ work \in [WorkId -> Job]
  BY DEF WorkId, DesksTyped
<1> QED BY <1>1, <1>2 DEF MayRun

\* What a step that answers nothing is to a job.
Unanswered(j) ==
  /\ answers'[j] = answers[j] /\ Writers(j)' \subseteq Writers(j)
  /\ (MayRun(j)' => MayRun(j)) \/ faults' > faults

LEMMA AnswersOfOthers ==
  ASSUME DesksTyped, ShiftsTyped, NEW j \in RsvpJob, answers \in [RsvpJob -> SUBSET Event],
         DeskStep \/ (\E h \in Hook : HookStepOf(h)) \/ UNCHANGED rsvpVars
  PROVE  Unanswered(j)
<1>1. UNCHANGED <<desk, answers>>
  <2>1. ASSUME NEW h \in Hook, HookStepOf(h) PROVE UNCHANGED <<desk, answers>>
    BY <2>1 DEF HookStepOf, Deliver, CheckDuplicate, LogInbound, LogLost, Route, AskFeedback, Rate,
      AskInvitation, QueueReply, AskSession, NoSession, ErrandOver, MarkContact, HookFails, rsvpVars,
      tellVars
  <2>2. CASE DeskStep
    BY <2>2 DEF DeskStep, RespondWrite, BulkUpdate, EventStarts, ScanBadge, ClaimArrival, Thank,
      RespondQueue, RequestDies, ToggleOptOut, tellVars
  <2> QED BY <2>1, <2>2 DEF rsvpVars
<1>2. work'[j] = work[j] \/ MayRun(j)
  <2>1. UNCHANGED work \/ (\E d : AddWork(FlowJob, d)) \/ (\E d : AddWork(RsvpJob, d))
    <3>1. CASE DeskStep
      <4>1. UNCHANGED work \/ RespondQueue
        BY <3>1 DEF DeskStep, RespondWrite, BulkUpdate, EventStarts, ScanBadge, ClaimArrival, Thank,
                    RequestDies, ToggleOptOut, queueVars
      <4> QED BY <4>1 DEF RespondQueue
    <3>2. ASSUME NEW h \in Hook, HookStepOf(h)
          PROVE  UNCHANGED work \/ (\E d : AddWork(RsvpJob, d))
      <4>1. UNCHANGED work \/ QueueReply(h)
        BY <3>2 DEF HookStepOf, Deliver, CheckDuplicate, LogInbound, LogLost, Route, AskFeedback, Rate,
          AskInvitation, AskSession, NoSession, ErrandOver, MarkContact, HookFails, rsvpVars, queueVars
      <4> QED BY <4>1 DEF QueueReply, EnqueueRsvp
    <3> QED BY <3>1, <3>2 DEF rsvpVars
  <2>2. FlowJob \in SUBSET WorkId /\ RsvpJob \in SUBSET WorkId
    BY DEF WorkId
  <2> QED BY <2>1, <2>2, AddedMayRun
<1> QED BY <1>1, <1>2, MayRunKept DEF Unanswered, Writers

LEMMA AnswersOfQueues ==
  ASSUME DesksTyped, NEW j \in RsvpJob, NEW i \in WorkId, WorkQueueStep(i)
  PROVE  Unanswered(j)
<1>0. work \in [WorkId -> Job] /\ j \in WorkId /\ work[j].owner \in Slot \cup {None} /\ faults \in Nat
  BY DEF DesksTyped, Job, WorkId
<1>1. UNCHANGED <<desk, answers>>
  BY DEF WorkQueueStep, ExpireWork, LoseWork, RecoverWork, BuryWork, tellVars
<1>2. CASE i # j
  <2>1. work'[j] = work[j]
    BY <1>0, <1>2 DEF WorkQueueStep, ExpireWork, LoseWork, RecoverWork, BuryWork
  <2> QED BY <1>1, <2>1, MayRunKept DEF Unanswered, Writers
<1>3. CASE i = j /\ LoseWork(i)
  BY <1>0, <1>1, <1>3 DEF LoseWork, RsvpFault, Unanswered, Writers
<1>4. CASE i = j /\ ExpireWork(i)
  <2>1. work'[j].st = work[j].st /\ work[j].owner # None /\ desk[work[j].owner].job # j
    BY <1>0, <1>4 DEF ExpireWork, Unlocked, Job
  <2>2. MayRun(j)' => MayRun(j)
    BY <2>1 DEF MayRun
  <2> QED BY <1>1, <2>2 DEF Unanswered, Writers
<1>5. CASE i = j /\ RecoverWork(i)
  <2>1. MayRun(j)
    BY <1>5 DEF RecoverWork, Stalled, MayRun
  <2> QED BY <1>1, <2>1 DEF Unanswered, Writers
<1>6. CASE i = j /\ BuryWork(i)
  <2>1. MayRun(j)
    BY <1>6 DEF BuryWork, GivenUp, MayRun
  <2> QED BY <1>1, <2>1 DEF Unanswered, Writers
<1> QED BY <1>2, <1>3, <1>4, <1>5, <1>6 DEF WorkQueueStep

LEMMA AnswersOfSlots ==
  ASSUME DesksTyped, ShiftsTyped, NEW j \in RsvpJob, NEW w \in Slot,
         CompleteWork(w) \/ ThrowWork(w) \/ CrashWork(w) \/ \E i \in WorkId \ {j} : TakeWork(w, i)
  PROVE  Unanswered(j)
<1>0. /\ work \in [WorkId -> Job] /\ desk \in [Slot -> Desk] /\ j \in WorkId /\ j # None
      /\ work[j].owner \in Slot \cup {None} /\ faults \in Nat
  BY NoneIsNoJob DEF DesksTyped, Job, WorkId
<1>1. UNCHANGED answers
  BY DEF CompleteWork, ThrowWork, CrashWork, TakeWork, tellVars
<1>2. \A v \in Slot \ {w} : desk'[v] = desk[v]
  BY <1>0 DEF CompleteWork, ThrowWork, CrashWork, TakeWork
<1>3. desk'[w].job # j
  <2>1. ASSUME NEW i \in WorkId \ {j}, TakeWork(w, i) PROVE desk'[w].job # j
    <3> DEFINE r == [FreeDesk EXCEPT !.at = First(i), !.job = i]
    <3>1. r.job = i /\ desk' = [desk EXCEPT ![w] = r]
      BY <2>1 DEF TakeWork, FreeDesk
    <3> HIDE DEF r
    <3> QED BY <1>0, <3>1
  <2>2. CASE CompleteWork(w) \/ ThrowWork(w) \/ CrashWork(w)
    <3>1. FreeDesk.job # j /\ desk' = [desk EXCEPT ![w] = FreeDesk]
      BY <1>0, <2>2 DEF CompleteWork, ThrowWork, CrashWork, FreeDesk
    <3> QED BY <1>0, <3>1
  <2> QED BY <2>1, <2>2
<1>4. Writers(j)' \subseteq Writers(j)
  BY <1>2, <1>3 DEF Writers
<1>5. CASE desk[w].job # j /\ work'[j] = work[j]
  BY <1>0, <1>1, <1>2, <1>4, <1>5 DEF Unanswered, MayRun
<1>6. CASE \E i \in WorkId \ {j} : TakeWork(w, i)
  <2>1. desk[w].job = None
    BY <1>6 DEF TakeWork, ShiftsTyped
  <2>2. PICK i \in WorkId \ {j} : TakeWork(w, i)
    BY <1>6
  <2>3. work' = [work EXCEPT ![i] = Started(@, w)]
    BY <2>2 DEF TakeWork
  <2>4. desk[w].job # j /\ work'[j] = work[j]
    BY <1>0, <2>1, <2>3
  <2> QED BY <1>5, <2>4
<1>7. CASE CrashWork(w)
  BY <1>0, <1>1, <1>4, <1>7 DEF CrashWork, RsvpFault, Unanswered
<1>8. CASE ThrowWork(w)
  <2>1. desk[w].job \in FlowJob
    BY <1>8 DEF ThrowWork, ShiftsTyped
  <2>2. desk[w].job # j /\ work'[j] = work[j]
    BY <1>0, <1>8, <2>1, QueuesApart DEF ThrowWork
  <2> QED BY <1>5, <2>2
<1>9. CASE CompleteWork(w)
  <2>1. CASE desk[w].job # j
    <3>1. work'[j] = work[j]
      BY <1>0, <1>9, <2>1 DEF CompleteWork
    <3> QED BY <1>5, <2>1, <3>1
  <2>2. CASE desk[w].job = j /\ work[j].owner = w
    <3>1. work'[j] = Completed(work[j])
      BY <1>0, <1>9, <2>2 DEF CompleteWork
    <3>2. ~MayRun(j)'
      BY <1>0, <3>1 DEF Completed, Job, MayRun
    <3> QED BY <1>1, <1>4, <3>2 DEF Unanswered
  <2>3. CASE desk[w].job = j /\ work[j].owner # w
    <3>1. work'[j] = work[j]
      BY <1>9, <2>3 DEF CompleteWork
    <3> QED BY <1>0, <1>1, <1>2, <1>4, <2>3, <3>1 DEF Unanswered, MayRun
  <2> QED BY <2>1, <2>2, <2>3
<1> QED BY <1>6, <1>7, <1>8, <1>9

LEMMA AnswersOfFlows ==
  ASSUME DesksTyped, ShiftsTyped, NEW j \in RsvpJob, NEW w \in Slot, WorkflowStep(w)
  PROVE  Unanswered(j)
<1>1. UNCHANGED <<work, answers>>
  BY DEF WorkflowStep, Plan, Exists, CreateRow, QueueReminder, Offer, SendCoupon, MarkCoupon,
         FlowError, queueVars, tellVars
<1>2. desk'[w].job = desk[w].job /\ \A v \in Slot \ {w} : desk'[v] = desk[v]
  BY WorkflowMoves
<1>3. desk[w].job # j
  <2>1. desk[w].at \in FlowStep
    BY DEF WorkflowStep, Plan, Exists, CreateRow, QueueReminder, Offer, SendCoupon, MarkCoupon,
           FlowError, FlowStep
  <2> QED BY <2>1, QueuesApart DEF ShiftsTyped
<1>4. Writers(j)' \subseteq Writers(j)
  BY <1>2, <1>3 DEF Writers
<1>5. MayRun(j)' => MayRun(j)
  BY <1>1, <1>2, MayRunKept
<1> QED BY <1>1, <1>4, <1>5 DEF Unanswered

\* An answer is written by one of the writers of its job, who then is none.
WritesAnswer(w, j, e) ==
  /\ w \in Writers(j) /\ Writers(j)' = Writers(j) \ {w}
  /\ answers'[j] = answers[j] \cup {e} /\ UNCHANGED faults
  /\ MayRun(j)' => MayRun(j)

LEMMA AnswersOfAnswers ==
  ASSUME DesksTyped, ShiftsTyped, NEW j \in RsvpJob, answers \in [RsvpJob -> SUBSET Event],
         NEW w \in Slot, AnswerStep(w)
  PROVE  Unanswered(j) \/ \E e \in Event : WritesAnswer(w, j, e)
<1>0. desk \in [Slot -> Desk]
  BY DEF DesksTyped
<1>1. /\ desk'[w].job = desk[w].job /\ \A v \in Slot \ {w} : desk'[v] = desk[v]
      /\ desk[w].job \in RsvpJob
  <2>1. desk[w].at \in RsvpStep
    BY DEF AnswerStep, Look, Stamp, Answer, Settle, Reply, TriggerFlow, RsvpError, RsvpStep
  <2> QED BY <2>1, AnswerMoves DEF Quiet, ShiftsTyped
<1>2. MayRun(j)' => MayRun(j)
  <2>1. UNCHANGED work \/ (\E d : AddWork(FlowJob, d))
    BY DEF AnswerStep, Look, Stamp, Answer, Settle, Reply, TriggerFlow, RsvpError, queueVars
  <2>2. FlowJob \in SUBSET WorkId
    BY DEF WorkId
  <2> QED BY <1>1, <2>1, <2>2, AddedMayRun, MayRunKept
<1>3. CASE Stamp(w) \/ Answer(w)
  <2>1. PICK l \in {"reply", "settle"} : desk' = [desk EXCEPT ![w].at = l]
    BY <1>3 DEF Stamp, Answer
  <2>2. desk'[w].at \in {"reply", "settle"}
    BY <1>0, <2>1 DEF Desk
  <2>3. desk[w].at \in {"stamp", "answer"} /\ desk[w].ev \in Event /\ UNCHANGED faults
    BY <1>3 DEF Stamp, Answer, ShiftsTyped, RsvpStep
  <2>4. answers' = [answers EXCEPT ![desk[w].job] = @ \cup {desk[w].ev}]
    BY <1>3 DEF Stamp, Answer
  <2>5. Writers(j)' = Writers(j) \ {w}
    BY <1>1, <2>2 DEF Writers
  <2>6. CASE desk[w].job = j
    <3>1. answers'[j] = answers[j] \cup {desk[w].ev}
      BY <2>4, <2>6
    <3>2. w \in Writers(j)
      BY <2>3, <2>6 DEF Writers
    <3> QED BY <1>2, <2>3, <2>5, <3>1, <3>2 DEF WritesAnswer
  <2>7. CASE desk[w].job # j
    <3>1. answers'[j] = answers[j]
      BY <2>4, <2>7
    <3> QED BY <1>2, <2>5, <3>1 DEF Unanswered
  <2> QED BY <2>6, <2>7
<1>4. CASE ~(Stamp(w) \/ Answer(w))
  <2>1. UNCHANGED answers
    BY <1>4 DEF AnswerStep, Look, Settle, Reply, TriggerFlow, RsvpError, tellVars
  <2>2. desk'[w].at \in {"look", "stamp", "answer"} => desk[w].at = "look"
    <3>1. CASE Look(w)
      BY <3>1 DEF Look
    <3>2. CASE ~Look(w)
      <4>1. PICK l \in {"reply", "trigger", "complete"} : desk' = [desk EXCEPT ![w].at = l]
        BY <1>4, <3>2 DEF AnswerStep, Settle, Reply, TriggerFlow, RsvpError
      <4>2. desk'[w].at \in {"reply", "trigger", "complete"}
        BY <1>0, <4>1 DEF Desk
      <4> QED BY <4>2
    <3> QED BY <3>1, <3>2
  <2>3. Writers(j)' \subseteq Writers(j)
    BY <1>1, <2>2 DEF Writers
  <2> QED BY <1>2, <2>1, <2>3 DEF Unanswered
<1> QED BY <1>3, <1>4

LEMMA AnswersStep ==
  DesksTyped /\ ShiftsTyped /\ AnswersCounted /\ [InboundNext]_allVars => AnswersCounted'
<1> SUFFICES ASSUME DesksTyped, ShiftsTyped, AnswersCounted, [InboundNext]_allVars PROVE AnswersCounted'
  OBVIOUS
<1>0. /\ answers \in [RsvpJob -> SUBSET Event] /\ faults \in Nat
      /\ \A j \in RsvpJob : Answerable(answers[j], Writers(j), MayRun(j), faults)
  BY DEF AnswersCounted, DesksTyped
<1>1. faults' \in Nat /\ faults' >= faults
  <2>1. ASSUME NEW h \in Hook, HookStepOf(h) PROVE faults' \in {faults, faults + 1}
    BY <2>1 DEF HookStepOf, Deliver, CheckDuplicate, LogInbound, LogLost, Route, AskFeedback, Rate,
      AskInvitation, QueueReply, AskSession, NoSession, ErrandOver, MarkContact, HookFails, rsvpVars,
      RsvpFault
  <2> QED BY <1>0, <2>1, RsvpFaultsGrow DEF InboundNext, allVars, rsvpVars
<1>2. answers' \in [RsvpJob -> SUBSET Event]
  <2>1. UNCHANGED answers \/ \E w \in Slot : Stamp(w) \/ Answer(w)
    <3>1. ASSUME NEW h \in Hook, HookStepOf(h) PROVE UNCHANGED answers
      BY <3>1 DEF HookStepOf, Deliver, CheckDuplicate, LogInbound, LogLost, Route, AskFeedback, Rate,
        AskInvitation, QueueReply, AskSession, NoSession, ErrandOver, MarkContact, HookFails, rsvpVars,
        tellVars
    <3>2. CASE DeskStep
      BY <3>2 DEF DeskStep, RespondWrite, BulkUpdate, EventStarts, ScanBadge, ClaimArrival, Thank,
        RespondQueue, RequestDies, ToggleOptOut, tellVars
    <3>3. ASSUME NEW j \in WorkId, WorkQueueStep(j) PROVE UNCHANGED answers
      BY <3>3 DEF WorkQueueStep, ExpireWork, LoseWork, RecoverWork, BuryWork, tellVars
    <3>4. ASSUME NEW w \in Slot, WorkflowStep(w) \/ SlotStep(w) PROVE UNCHANGED answers
      BY <3>4 DEF WorkflowStep, Plan, Exists, CreateRow, QueueReminder, Offer, SendCoupon, MarkCoupon,
        FlowError, SlotStep, TakeWork, CompleteWork, ThrowWork, CrashWork, tellVars
    <3>5. ASSUME NEW w \in Slot, AnswerStep(w) PROVE UNCHANGED answers \/ Stamp(w) \/ Answer(w)
      BY <3>5 DEF AnswerStep, Look, Settle, Reply, TriggerFlow, RsvpError, tellVars
    <3> QED BY <3>1, <3>2, <3>3, <3>4, <3>5 DEF InboundNext, RsvpStepOnly, allVars, rsvpVars
  <2>2. ASSUME NEW w \in Slot, Stamp(w) \/ Answer(w) PROVE answers' \in [RsvpJob -> SUBSET Event]
    <3>1. desk[w].ev \in Event
      BY <2>2 DEF Stamp, Answer, ShiftsTyped, RsvpStep
    <3>2. answers' = [answers EXCEPT ![desk[w].job] = @ \cup {desk[w].ev}]
      BY <2>2 DEF Stamp, Answer
    <3> QED BY <1>0, <3>1, <3>2
  <2> QED BY <1>0, <2>1, <2>2
<1> SUFFICES ASSUME NEW j \in RsvpJob
             PROVE  Answerable(answers'[j], Writers(j)', MayRun(j)', faults')
  BY <1>2 DEF AnswersCounted
<1>3. Writers(j) \in SUBSET Slot /\ answers[j] \in SUBSET Event /\ MayRun(j) \in BOOLEAN
      /\ MayRun(j)' \in BOOLEAN /\ Answerable(answers[j], Writers(j), MayRun(j), faults)
  BY <1>0 DEF Writers, MayRun
<1>4. CASE Unanswered(j)
  <2> DEFINE A == answers[j]  W == Writers(j)  W2 == Writers(j)'  r == MayRun(j)  r2 == MayRun(j)'
  <2>1. answers'[j] = A /\ W2 \in SUBSET W /\ ((r2 => r) \/ faults' > faults)
    BY <1>4 DEF Unanswered
  <2> HIDE DEF A, W, W2, r, r2
  <2>2. Answerable(A, W2, r2, faults')
    BY <1>0, <1>1, <1>3, <2>1, AnswersKept DEF A, W, r, r2
  <2> QED BY <2>1, <2>2 DEF W2, r2
<1>5. ASSUME NEW w \in Slot, NEW e \in Event, WritesAnswer(w, j, e)
      PROVE  Answerable(answers'[j], Writers(j)', MayRun(j)', faults')
  <2>1. w \in Writers(j) /\ answers'[j] \in SUBSET Event /\ Writers(j)' \in SUBSET Slot
    BY <1>3, <1>5 DEF WritesAnswer
  <2>2. Answerable(answers'[j], Writers(j)', MayRun(j), faults)
    BY <1>0, <1>3, <1>5, <2>1, AnswersWritten DEF WritesAnswer
  <2> DEFINE A == answers'[j]  W == Writers(j)'  r == MayRun(j)  r2 == MayRun(j)'
  <2>3. (r2 => r) /\ faults' = faults /\ A \in SUBSET Event /\ W \in SUBSET Slot
        /\ r \in BOOLEAN /\ r2 \in BOOLEAN /\ Answerable(A, W, r, faults)
    BY <1>3, <1>5, <2>1, <2>2 DEF WritesAnswer
  <2> HIDE DEF A, W, r, r2
  <2>4. Answerable(A, W, r2, faults')
    BY <1>0, <1>1, <2>3, AnswersKept
  <2> QED BY <2>4 DEF A, W, r2
<1>6. ASSUME NEW w \in Slot, TakeWork(w, j)
      PROVE  Answerable(answers'[j], Writers(j)', MayRun(j)', faults')
  <2> DEFINE r == [FreeDesk EXCEPT !.at = First(j), !.job = j]
  <2>1. /\ MayRun(j) = TRUE /\ j \in WorkId /\ work' = [work EXCEPT ![j] = Started(@, w)]
        /\ desk' = [desk EXCEPT ![w] = r] /\ UNCHANGED <<answers, faults>> /\ r.at = "look" /\ r.job = j
    BY <1>6 DEF TakeWork, Startable, MayRun, WorkId, tellVars, FreeDesk, First
  <2> HIDE DEF r
  <2>2. work'[j].st = "active" /\ work'[j].owner = w /\ w # None
    BY <2>1, QueueAssumption DEF DesksTyped, Job, Started
  <2>3. desk'[w].job = j /\ desk'[w].at = "look" /\ \A v \in Slot \ {w} : desk'[v] = desk[v]
    BY <2>1 DEF DesksTyped
  <2>4. MayRun(j)' = FALSE
    BY <2>2, <2>3 DEF MayRun
  <2>5. Writers(j)' = Writers(j) \cup {w}
    BY <2>3 DEF Writers
  <2>6. Answerable(answers[j], Writers(j), TRUE, faults)
    BY <1>3, <2>1
  <2>7. Answerable(answers[j], Writers(j) \cup {w}, FALSE, faults)
    BY <1>0, <1>3, <2>6, AnswersTaken
  <2> QED BY <2>1, <2>4, <2>5, <2>7
<1>7. CASE DeskStep \/ (\E h \in Hook : HookStepOf(h)) \/ UNCHANGED rsvpVars
  BY <1>0, <1>4, <1>7, AnswersOfOthers
<1>8. ASSUME NEW i \in WorkId, WorkQueueStep(i)
      PROVE  Answerable(answers'[j], Writers(j)', MayRun(j)', faults')
  BY <1>4, <1>8, AnswersOfQueues
<1>9. ASSUME NEW w \in Slot, SlotStep(w)
      PROVE  Answerable(answers'[j], Writers(j)', MayRun(j)', faults')
  BY <1>4, <1>6, <1>9, AnswersOfSlots DEF SlotStep
<1>10. ASSUME NEW w \in Slot, WorkflowStep(w) \/ AnswerStep(w)
       PROVE  Answerable(answers'[j], Writers(j)', MayRun(j)', faults')
  BY <1>0, <1>4, <1>5, <1>10, AnswersOfFlows, AnswersOfAnswers
<1> QED BY <1>7, <1>8, <1>9, <1>10 DEF InboundNext, RsvpStepOnly, allVars

LEMMA ShiftsInit == InboundInit => DesksTyped /\ ShiftsTyped /\ AnswersCounted
<1> SUFFICES ASSUME InboundInit PROVE ShiftsTyped /\ AnswersCounted
  BY CountsInit
<1>1. \A w \in Slot : desk[w].at = "idle" /\ desk[w].job = None
  BY DEF InboundInit, RsvpInit, FreeDesk
<1>2. ShiftsTyped
  BY <1>1 DEF ShiftsTyped, RsvpStep, FlowStep
<1>3. \A j : Writers(j) = {}
  BY <1>1 DEF Writers
<1>4. \A j \in RsvpJob : MayRun(j) = TRUE /\ answers[j] = {}
  BY DEF InboundInit, RsvpInit, MayRun, WorkId, NoJob
<1>5. Cardinality({}) = 0
  BY FS_EmptySet
<1>6. Answerable({}, {}, TRUE, faults)
  BY <1>5 DEF Answerable, InboundInit, RsvpInit
<1>7. \A j \in RsvpJob : Answerable(answers[j], Writers(j), MayRun(j), faults)
  BY <1>3, <1>4, <1>6
<1> QED BY <1>2, <1>7 DEF AnswersCounted, InboundInit, RsvpInit

LEMMA AnswersSuffice == DesksTyped /\ AnswersCounted => OneAnswerPerReply
<1> SUFFICES ASSUME DesksTyped, AnswersCounted, NEW j \in RsvpJob
             PROVE  Cardinality(answers[j]) <= 1 + faults
  BY DEF OneAnswerPerReply
<1>1. Writers(j) \in SUBSET Slot /\ answers[j] \in SUBSET Event
  BY DEF Writers, AnswersCounted
<1>2. Cardinality(Writers(j)) \in Nat /\ Cardinality(answers[j]) \in Nat /\ faults \in Nat
  BY <1>1, Counting, CountingEvents DEF DesksTyped
<1> QED BY <1>2 DEF AnswersCounted, Answerable

\* A reply answers one invitation, and another only for each fault: processJob
\* catches what it throws, so that nothing else runs a job again.
THEOREM RepliesAnswerOnce == InboundSpec => []OneAnswerPerReply
<1>1. InboundSpec => [](DesksTyped /\ ShiftsTyped /\ AnswersCounted)
  <2>1. DesksTyped /\ [InboundNext]_allVars => DesksTyped'
    BY DeskMoves
  <2> QED BY <2>1, ShiftsInit, ShiftsStep, AnswersStep, PTL DEF InboundSpec
<1> QED BY <1>1, AnswersSuffice, PTL

-----------------------------------------------------------------------------
(* The types of the rest. *)

\* A job of the workflow queue names an event, and so does the dashboard's request.
GuestsTyped ==
  /\ data \in [WorkId -> [word : Word, ev : Event \cup {None}]]
  /\ \A j \in FlowJob : work[j].st # "none" => data[j].ev \in Event
  /\ clerk \in Request
  /\ clerk.at = "queue" => clerk.ev \in Event /\ clerk.word \in Word
  /\ status \in [Event -> ParticipantStatus] /\ last \in [Event -> Nat]
  /\ over \subseteq Event /\ arrived \subseteq Event
  /\ coupon \subseteq Event /\ noticed \subseteq Event
  /\ optedOut \in BOOLEAN /\ mixed \in BOOLEAN
  /\ coming \in [Outside -> Nat]

\* How a job comes into a queue, and what it says.
LEMMA DataMoves ==
  ASSUME DesksTyped, GuestsTyped, [InboundNext]_allVars
  PROVE  \/ UNCHANGED data /\ \A j \in WorkId : work'[j].st # "none" => work[j].st # "none"
         \/ \E e \in Event, x \in Word : AddWork(FlowJob, [word |-> x, ev |-> e])
         \/ \E x \in Word : AddWork(RsvpJob, [word |-> x, ev |-> None])
<1> DEFINE Same == UNCHANGED data /\ \A j \in WorkId : work'[j].st # "none" => work[j].st # "none"
           Flow == \E e \in Event, x \in Word : AddWork(FlowJob, [word |-> x, ev |-> e])
           Rsvp == \E x \in Word : AddWork(RsvpJob, [word |-> x, ev |-> None])
<1>0. work \in [WorkId -> Job]
  BY DEF DesksTyped
<1>1. ASSUME NEW j \in WorkId, work[j].st # "none", UNCHANGED data, NEW x, work' = [work EXCEPT ![j] = x]
      PROVE  Same
  BY <1>0, <1>1
<1>2. ASSUME NEW w \in Slot, AnswerStep(w) PROVE Same \/ Flow
  <2>1. CASE TriggerFlow(w)
    <3>1. Latest \subseteq Event
      BY DEF Latest, Confirmed
    <3>2. UNCHANGED queueVars \/ \E e \in Latest : AddWork(FlowJob, [word |-> "yes", ev |-> e])
      BY <2>1 DEF TriggerFlow
    <3>3. "yes" \in Word
      BY DEF Word
    <3> QED BY <3>1, <3>2, <3>3 DEF queueVars
  <2>2. CASE ~TriggerFlow(w)
    BY <1>2, <2>2 DEF AnswerStep, Look, Stamp, Answer, Settle, Reply, RsvpError, queueVars
  <2> QED BY <2>1, <2>2
<1>3. ASSUME NEW w \in Slot, WorkflowStep(w) PROVE Same
  BY <1>3 DEF WorkflowStep, Plan, Exists, CreateRow, QueueReminder, Offer, SendCoupon, MarkCoupon,
              FlowError, queueVars
<1>4. ASSUME NEW w \in Slot, SlotStep(w) PROVE Same
  <2>1. CASE UNCHANGED queueVars
    BY <2>1 DEF queueVars
  <2>2. ASSUME NEW j \in WorkId, TakeWork(w, j) PROVE Same
    BY <1>1, <2>2 DEF TakeWork, Startable
  <2>3. CASE CompleteWork(w) \/ ThrowWork(w)
    <3>1. desk[w].job \in WorkId /\ work[desk[w].job].st # "none" /\ UNCHANGED data
      BY <2>3 DEF CompleteWork, ThrowWork, DesksTyped
    <3>2. UNCHANGED work \/ \E x : work' = [work EXCEPT ![desk[w].job] = x]
      BY <2>3 DEF CompleteWork, ThrowWork
    <3> QED BY <1>1, <3>1, <3>2
  <2> QED BY <1>4, <2>1, <2>2, <2>3 DEF SlotStep, CrashWork
<1>5. ASSUME NEW j \in WorkId, WorkQueueStep(j) PROVE Same
  <2>1. CASE ExpireWork(j) \/ LoseWork(j)
    <3>1. work' = [work EXCEPT ![j] = Unlocked(work[j])] /\ UNCHANGED data
      BY <2>1 DEF ExpireWork, LoseWork
    <3>2. Unlocked(work[j]).st = work[j].st
      BY <1>0 DEF Unlocked, Job
    <3> QED BY <1>0, <3>1, <3>2
  <2>2. CASE RecoverWork(j) \/ BuryWork(j)
    BY <1>1, <2>2 DEF RecoverWork, BuryWork, Stalled, GivenUp
  <2> QED BY <1>5, <2>1, <2>2 DEF WorkQueueStep
<1>6. CASE DeskStep
  <2>1. CASE RespondQueue
    <3>1. clerk.ev \in Event /\ clerk.word \in Word
      BY <2>1 DEF RespondQueue, GuestsTyped
    <3> QED BY <2>1, <3>1 DEF RespondQueue
  <2>2. CASE ~RespondQueue
    BY <1>6, <2>2 DEF DeskStep, RespondWrite, BulkUpdate, EventStarts, ScanBadge, ClaimArrival, Thank,
      RequestDies, ToggleOptOut, queueVars
  <2> QED BY <2>1, <2>2
<1>7. ASSUME NEW h \in Hook, HookStepOf(h) PROVE Same \/ Rsvp
  <2>1. CASE QueueReply(h)
    BY <2>1 DEF QueueReply, EnqueueRsvp, RsvpWord, Word
  <2>2. CASE ~QueueReply(h)
    BY <1>7, <2>2 DEF HookStepOf, Deliver, CheckDuplicate, LogInbound, LogLost, Route, AskFeedback,
      Rate, AskInvitation, AskSession, NoSession, ErrandOver, MarkContact, HookFails, rsvpVars, queueVars
  <2> QED BY <2>1, <2>2
<1> QED BY <1>2, <1>3, <1>4, <1>5, <1>6, <1>7 DEF InboundNext, RsvpStepOnly, allVars, rsvpVars

\* A new job says what it was added for, and the others what they said.
LEMMA DataAdded ==
  ASSUME DesksTyped, NEW Q \in SUBSET WorkId, NEW d, AddWork(Q, d),
         data \in [WorkId -> [word : Word, ev : Event \cup {None}]]
  PROVE  \E j \in Q : /\ data' = [data EXCEPT ![j] = d] /\ work[j].st = "none" /\ work'[j].st # "none"
                      /\ \A i \in WorkId \ {j} : work'[i] = work[i] /\ data'[i] = data[i]
<1>1. PICK j \in Q : work[j].st = "none" /\ work' = [work EXCEPT ![j] = Added(@)]
                     /\ data' = [data EXCEPT ![j] = d]
  BY DEF AddWork
<1>2. Added(work[j]).st = "waiting" /\ work \in [WorkId -> Job] /\ j \in WorkId
  BY <1>1 DEF Added, NoJob, DesksTyped
<1> QED BY <1>1, <1>2

LEMMA DataStep ==
  ASSUME DesksTyped, GuestsTyped, [InboundNext]_allVars
  PROVE  /\ data' \in [WorkId -> [word : Word, ev : Event \cup {None}]]
         /\ \A j \in FlowJob : work'[j].st # "none" => data'[j].ev \in Event
<1>0. /\ data \in [WorkId -> [word : Word, ev : Event \cup {None}]]
      /\ \A j \in FlowJob : work[j].st # "none" => data[j].ev \in Event
  BY DEF GuestsTyped
<1>1. RsvpJob \in SUBSET WorkId /\ FlowJob \in SUBSET WorkId
  BY DEF WorkId
<1>2. ASSUME NEW e \in Event, NEW x \in Word, AddWork(FlowJob, [word |-> x, ev |-> e])
      PROVE  /\ data' \in [WorkId -> [word : Word, ev : Event \cup {None}]]
             /\ \A j \in FlowJob : work'[j].st # "none" => data'[j].ev \in Event
  <2> DEFINE d == [word |-> x, ev |-> e]
  <2>1. d \in [word : Word, ev : Event \cup {None}] /\ d.ev \in Event
    OBVIOUS
  <2> HIDE DEF d
  <2>2. PICK j \in FlowJob : /\ data' = [data EXCEPT ![j] = d]
                             /\ \A i \in WorkId \ {j} : work'[i] = work[i] /\ data'[i] = data[i]
    BY <1>0, <1>1, <1>2, DataAdded DEF d
  <2> QED BY <1>0, <1>1, <2>1, <2>2
<1>3. ASSUME NEW x \in Word, AddWork(RsvpJob, [word |-> x, ev |-> None])
      PROVE  /\ data' \in [WorkId -> [word : Word, ev : Event \cup {None}]]
             /\ \A j \in FlowJob : work'[j].st # "none" => data'[j].ev \in Event
  <2> DEFINE d == [word |-> x, ev |-> None]
  <2>1. d \in [word : Word, ev : Event \cup {None}]
    OBVIOUS
  <2> HIDE DEF d
  <2>2. PICK j \in RsvpJob : /\ data' = [data EXCEPT ![j] = d]
                             /\ \A i \in WorkId \ {j} : work'[i] = work[i] /\ data'[i] = data[i]
    BY <1>0, <1>1, <1>3, DataAdded DEF d
  <2> QED BY <1>0, <1>1, <2>1, <2>2, QueuesApart
<1> QED BY <1>0, <1>1, <1>2, <1>3, DataMoves

\* The rows and the requests, without the queues.
RowsTyped ==
  /\ clerk \in Request
  /\ clerk.at = "queue" => clerk.ev \in Event /\ clerk.word \in Word
  /\ status \in [Event -> ParticipantStatus] /\ last \in [Event -> Nat]
  /\ over \subseteq Event /\ arrived \subseteq Event
  /\ coupon \subseteq Event /\ noticed \subseteq Event
  /\ optedOut \in BOOLEAN /\ mixed \in BOOLEAN
  /\ coming \in [Outside -> Nat]

LEMMA ComesTyped ==
  ASSUME coming \in [Outside -> Nat], NEW k \in Outside, Comes(k)
  PROVE  coming' \in [Outside -> Nat]
<1>1. coming[k] - 1 \in Nat
  BY DEF Comes
<1> QED BY <1>1 DEF Comes

LEMMA FaultComes ==
  ASSUME coming \in [Outside -> Nat], RsvpFault
  PROVE  coming' \in [Outside -> Nat]
BY ComesTyped DEF RsvpFault, Outside

LEMMA NewStatusTyped ==
  \A x : NewStatus(x) \in ParticipantStatus \ {"invited"}
BY DEF NewStatus, ParticipantStatus

LEMMA RowsOfHooks ==
  ASSUME RowsTyped, NEW h \in Hook, HookStepOf(h)
  PROVE  RowsTyped'
<1>0. coming \in [Outside -> Nat] /\ optedOut \in BOOLEAN
  BY DEF RowsTyped
<1>1. CASE LogLost(h) \/ HookFails(h)
  <2>1. coming' \in [Outside -> Nat] /\ UNCHANGED <<clerk, guestVars, arrived, coupon, noticed, mixed>>
    BY <1>0, <1>1, FaultComes DEF LogLost, HookFails, doorVars, flowVars, tellVars
  <2> QED BY <2>1 DEF RowsTyped, guestVars
<1>2. CASE MarkContact(h)
  <2>1. optedOut' \in BOOLEAN
        /\ UNCHANGED <<clerk, status, last, over, arrived, coupon, noticed, mixed, coming>>
    BY <1>2 DEF MarkContact, doorVars, flowVars, tellVars
  <2> QED BY <2>1 DEF RowsTyped
<1>3. CASE ~(LogLost(h) \/ HookFails(h) \/ MarkContact(h))
  <2>1. UNCHANGED <<clerk, guestVars, arrived, coupon, noticed, mixed, coming>>
    BY <1>3 DEF HookStepOf, Deliver, CheckDuplicate, LogInbound, Route, AskFeedback, Rate,
      AskInvitation, QueueReply, AskSession, NoSession, ErrandOver, rsvpVars, guestVars, doorVars,
      flowVars, tellVars
  <2> QED BY <2>1 DEF RowsTyped, guestVars
<1> QED BY <1>1, <1>2, <1>3

LEMMA RowsOfDesk ==
  ASSUME RowsTyped, DoorKept, now \in Nat, DeskStep
  PROVE  RowsTyped'
<1>0. /\ clerk \in Request /\ status \in [Event -> ParticipantStatus] /\ last \in [Event -> Nat]
      /\ coming \in [Outside -> Nat] /\ optedOut \in BOOLEAN /\ mixed \in BOOLEAN
      /\ NoRequest \in Request /\ NoRequest.at = "idle"
      /\ "confirmed" \in ParticipantStatus
  BY RequestTyped DEF RowsTyped, ParticipantStatus
<1>1. ASSUME NEW e \in Event, NEW word \in Word, RespondWrite(e, word) PROVE RowsTyped'
  <2>1. coming' \in [Outside -> Nat]
    BY <1>0, <1>1, ComesTyped DEF RespondWrite, Outside
  <2>2. clerk' = [at |-> "queue", ev |-> e, word |-> word] /\ mixed' = TRUE
        /\ status' = [status EXCEPT ![e] = NewStatus(word)] /\ last' = [last EXCEPT ![e] = now + 1]
        /\ UNCHANGED <<over, optedOut, arrived, coupon, noticed>>
    BY <1>1 DEF RespondWrite, doorVars, flowVars
  <2>3. clerk' \in Request /\ clerk'.ev \in Event /\ clerk'.word \in Word
    BY <2>2 DEF Request
  <2>4. status' \in [Event -> ParticipantStatus] /\ last' \in [Event -> Nat]
    BY <1>0, <2>2, NewStatusTyped
  <2> QED BY <2>1, <2>2, <2>3, <2>4 DEF RowsTyped
<1>2. ASSUME NEW e \in Event, NEW s \in ParticipantStatus \ {"invited"}, BulkUpdate(e, s)
      PROVE  RowsTyped'
  <2>1. coming' \in [Outside -> Nat]
    BY <1>0, <1>2, ComesTyped DEF BulkUpdate, Outside
  <2> QED BY <1>0, <1>2, <2>1 DEF BulkUpdate, RowsTyped, doorVars, flowVars
<1>3. ASSUME NEW e \in Event, EventStarts(e) PROVE RowsTyped'
  <2>1. coming' \in [Outside -> Nat]
    BY <1>0, <1>3, ComesTyped DEF EventStarts, Outside
  <2> QED BY <1>0, <1>3, <2>1 DEF EventStarts, RowsTyped, doorVars, flowVars, tellVars
<1>4. CASE ToggleOptOut
  <2>1. coming' \in [Outside -> Nat]
    BY <1>0, <1>4, ComesTyped DEF ToggleOptOut, Outside
  <2>2. optedOut' \in BOOLEAN /\ mixed' \in BOOLEAN
    BY <1>4 DEF ToggleOptOut
  <2>3. UNCHANGED <<clerk, status, last, over, arrived, coupon, noticed>>
    BY <1>4 DEF ToggleOptOut, doorVars, flowVars
  <2> QED BY <2>1, <2>2, <2>3 DEF RowsTyped
<1>5. CASE RespondQueue
  BY <1>0, <1>5 DEF RespondQueue, RowsTyped, doorVars, flowVars, tellVars, guestVars
<1>6. CASE RequestDies
  <2>1. coming' \in [Outside -> Nat]
    BY <1>0, <1>6, FaultComes DEF RequestDies
  <2> QED BY <1>0, <1>6, <2>1 DEF RequestDies, RowsTyped, flowVars, tellVars, guestVars
<1>7. ASSUME NEW s \in Scanner, NEW e \in Event, ScanBadge(s, e) PROVE RowsTyped'
  <2>1. coming' \in [Outside -> Nat]
    BY <1>0, <1>7, ComesTyped DEF ScanBadge, Outside
  <2> QED BY <1>0, <1>7, <2>1 DEF ScanBadge, RowsTyped, flowVars, tellVars, guestVars
<1>8. ASSUME NEW s \in Scanner, ClaimArrival(s) PROVE RowsTyped'
  <2>1. PICK e : e = scan[s].ev
    OBVIOUS
  <2>2. e \in Event
    BY <1>8, <2>1 DEF ClaimArrival, DoorKept
  <2>3. /\ arrived' \in {arrived, arrived \cup {e}}
        /\ status' \in {status, [status EXCEPT ![e] = "confirmed"]}
        /\ mixed' \in {mixed, (mixed \/ status[e] # "confirmed")}
    BY <1>8, <2>1 DEF ClaimArrival
  <2>4. mixed' \in BOOLEAN
    BY <1>0, <2>3
  <2>5. UNCHANGED <<clerk, last, over, optedOut, coupon, noticed, coming>>
    BY <1>8 DEF ClaimArrival, flowVars
  <2> QED BY <1>0, <2>2, <2>3, <2>4, <2>5 DEF RowsTyped
<1>9. ASSUME NEW s \in Scanner, NEW taken \in BOOLEAN, Thank(s, taken) PROVE RowsTyped'
  BY <1>0, <1>9 DEF Thank, RowsTyped, flowVars, tellVars, guestVars
<1> QED BY <1>1, <1>2, <1>3, <1>4, <1>5, <1>6, <1>7, <1>8, <1>9 DEF DeskStep

LEMMA RowsOfWorkers ==
  ASSUME DesksTyped, ShiftsTyped, GuestsTyped, RowsTyped, NEW w \in Slot,
         AnswerStep(w) \/ WorkflowStep(w) \/ SlotStep(w)
  PROVE  RowsTyped'
<1>0. /\ desk \in [Slot -> Desk] /\ status \in [Event -> ParticipantStatus] /\ last \in [Event -> Nat]
      /\ coming \in [Outside -> Nat] /\ mixed \in BOOLEAN
  BY DEF RowsTyped, DesksTyped
<1>1. coming' \in [Outside -> Nat]
  <2>1. UNCHANGED coming \/ RsvpFault
    BY DEF AnswerStep, Look, Stamp, Answer, Settle, Reply, TriggerFlow, RsvpError, WorkflowStep,
      Plan, Exists, CreateRow, QueueReminder, Offer, SendCoupon, MarkCoupon, FlowError, SlotStep,
      TakeWork, CompleteWork, ThrowWork, CrashWork
  <2> QED BY <1>0, <2>1, FaultComes
<1>2. UNCHANGED <<clerk, over, optedOut, arrived>>
  BY DEF AnswerStep, Look, Stamp, Answer, Settle, Reply, TriggerFlow, RsvpError, WorkflowStep,
    Plan, Exists, CreateRow, QueueReminder, Offer, SendCoupon, MarkCoupon, FlowError, SlotStep,
    TakeWork, CompleteWork, ThrowWork, CrashWork, guestVars, doorVars
<1>3. mixed' \in BOOLEAN
  <2>1. CASE Look(w)
    BY <1>0, <2>1 DEF Look
  <2>2. CASE ~Look(w)
    BY <1>0, <2>2 DEF AnswerStep, Stamp, Answer, Settle, Reply, TriggerFlow, RsvpError, WorkflowStep,
      Plan, Exists, CreateRow, QueueReminder, Offer, SendCoupon, MarkCoupon, FlowError, SlotStep,
      TakeWork, CompleteWork, ThrowWork, CrashWork, tellVars
  <2> QED BY <2>1, <2>2
<1>4. status' \in [Event -> ParticipantStatus] /\ last' \in [Event -> Nat]
  <2>1. CASE Stamp(w) \/ Answer(w)
    <3>1. PICK e : e = desk[w].ev
      OBVIOUS
    <3>2. PICK t : t = desk[w].time
      OBVIOUS
    <3>3. last' = [last EXCEPT ![e] = t]
      BY <2>1, <3>1, <3>2 DEF Stamp, Answer
    <3>4. UNCHANGED status \/ \E x : status' = [status EXCEPT ![e] = NewStatus(x)]
      BY <2>1, <3>1 DEF Stamp, Answer
    <3>5. t \in Nat
      BY <1>0, <3>2 DEF Desk
    <3> QED BY <1>0, <3>3, <3>4, <3>5, NewStatusTyped
  <2>2. CASE ~(Stamp(w) \/ Answer(w))
    <3>1. UNCHANGED <<status, last>>
      BY <2>2 DEF AnswerStep, Look, Settle, Reply, TriggerFlow, RsvpError, WorkflowStep,
        Plan, Exists, CreateRow, QueueReminder, Offer, SendCoupon, MarkCoupon, FlowError, SlotStep,
        TakeWork, CompleteWork, ThrowWork, CrashWork, guestVars
    <3> QED BY <1>0, <3>1
  <2> QED BY <2>1, <2>2
<1>5. coupon' \subseteq Event /\ noticed' \subseteq Event
  <2>1. UNCHANGED <<coupon, noticed>> \/ QueueReminder(w) \/ MarkCoupon(w)
    BY DEF AnswerStep, Look, Stamp, Answer, Settle, Reply, TriggerFlow, RsvpError, WorkflowStep,
      Plan, Exists, CreateRow, Offer, SendCoupon, FlowError, SlotStep,
      TakeWork, CompleteWork, ThrowWork, CrashWork, flowVars
  <2>2. CASE QueueReminder(w) \/ MarkCoupon(w)
    <3>1. desk[w].at \in FlowStep /\ desk[w].at # "idle"
      BY <2>2 DEF QueueReminder, MarkCoupon, FlowStep
    <3>2. Data(w).ev \in Event
      BY <3>1 DEF ShiftsTyped, DesksTyped, GuestsTyped, Data
    <3> QED BY <2>2, <3>2 DEF QueueReminder, MarkCoupon, RowsTyped
  <2> QED BY <2>1, <2>2 DEF RowsTyped
<1> QED BY <1>1, <1>2, <1>3, <1>4, <1>5 DEF RowsTyped

LEMMA GuestsStep ==
  DesksTyped /\ ShiftsTyped /\ DoorKept /\ GuestsTyped /\ [InboundNext]_allVars => GuestsTyped'
<1> SUFFICES ASSUME DesksTyped, ShiftsTyped, DoorKept, GuestsTyped, [InboundNext]_allVars
             PROVE  GuestsTyped'
  OBVIOUS
<1>1. RowsTyped /\ now \in Nat /\ coming \in [Outside -> Nat]
  BY DEF GuestsTyped, RowsTyped, DesksTyped
<1>2. ASSUME NEW j \in WorkId, WorkQueueStep(j) PROVE RowsTyped'
  <2>1. UNCHANGED coming \/ RsvpFault
    BY <1>2 DEF WorkQueueStep, ExpireWork, LoseWork, RecoverWork, BuryWork
  <2>2. coming' \in [Outside -> Nat]
    BY <1>1, <2>1, FaultComes
  <2>3. UNCHANGED <<clerk, guestVars, arrived, coupon, noticed, mixed>>
    BY <1>2 DEF WorkQueueStep, ExpireWork, LoseWork, RecoverWork, BuryWork, doorVars, flowVars, tellVars
  <2> QED BY <1>1, <2>2, <2>3 DEF RowsTyped, guestVars
<1>3. ASSUME UNCHANGED rsvpVars PROVE RowsTyped'
  <2>1. UNCHANGED <<clerk, guestVars, arrived, coupon, noticed, mixed, coming>>
    BY <1>3 DEF rsvpVars, guestVars
  <2> QED BY <1>1, <2>1 DEF RowsTyped, guestVars
<1>4. RowsTyped'
  <2>1. ASSUME NEW h \in Hook, HookStepOf(h) PROVE RowsTyped'
    BY <1>1, <2>1, RowsOfHooks
  <2>2. ASSUME DeskStep PROVE RowsTyped'
    BY <1>1, <2>2, RowsOfDesk
  <2>3. ASSUME NEW w \in Slot, AnswerStep(w) \/ WorkflowStep(w) \/ SlotStep(w) PROVE RowsTyped'
    BY <1>1, <2>3, RowsOfWorkers
  <2> QED BY <1>2, <1>3, <2>1, <2>2, <2>3 DEF InboundNext, RsvpStepOnly, allVars
<1> QED BY <1>4, DataStep DEF GuestsTyped, RowsTyped

-----------------------------------------------------------------------------
(* The workflow of a confirmation. *)

\* A handler that has looked, and not yet finished with the answer.
Past(w) == desk[w].at \in RsvpStep \ {"look"}

Written(w) == desk[w].at \in {"settle", "reply", "trigger"}

Flowed(e) == \E j \in FlowJob : work[j].st # "none" /\ data[j].ev = e

Undisturbed == faults = 0 /\ ~mixed

\* Nothing else answers meanwhile, and the answer is the last one: the event that
\* fireConfirmedWorkflow will find is the one that was answered.
Alone(w) ==
  /\ \A v \in Slot : Past(v) => v = w
  /\ desk[w].time = now
  /\ \A e \in Event : last[e] < now \/ (e = desk[w].ev /\ Written(w))
  /\ Written(w) => last[desk[w].ev] = now
  /\ desk[w].at # "answer" => status[desk[w].ev] = NewStatus(Data(w).word)
  /\ desk[w].at = "trigger" => Data(w).word = "yes"

Noticed(e) == Flowed(e) \/ \E w \in Slot : Past(w) /\ desk[w].ev = e

Attended ==
  Undisturbed =>
    /\ \A e \in Event : last[e] <= now /\ (status[e] = "confirmed" => last[e] > 0)
    /\ \A w \in Slot : Past(w) => Alone(w)
    /\ \A e \in Confirmed : Noticed(e)

\* What a step that touches no answer does.
Calm ==
  /\ UNCHANGED <<status, last, now>>
  /\ \A v \in Slot : desk'[v] = desk[v] \/ (~Past(v) /\ ~Past(v)')

LEMMA CalmOfOthers ==
  ASSUME DesksTyped, GuestsTyped, DoorKept, Undisturbed, ~mixed',
         DeskStep \/ (\E h \in Hook : HookStepOf(h)) \/ UNCHANGED rsvpVars
         \/ \E j \in WorkId : WorkQueueStep(j)
  PROVE  Calm
<1>1. UNCHANGED desk
  <2>1. CASE \E j \in WorkId : WorkQueueStep(j)
    BY <2>1, QueueMoves DEF Elsewhere
  <2> QED BY <2>1, OtherMoves DEF Elsewhere
<1>2. UNCHANGED <<status, last, now>>
  <2>1. ASSUME NEW h \in Hook, HookStepOf(h) PROVE UNCHANGED <<status, last, now>>
    BY <2>1 DEF HookStepOf, Deliver, CheckDuplicate, LogInbound, LogLost, Route, AskFeedback, Rate,
      AskInvitation, QueueReply, AskSession, NoSession, ErrandOver, MarkContact, HookFails, rsvpVars,
      guestVars
  <2>2. ASSUME NEW j \in WorkId, WorkQueueStep(j) PROVE UNCHANGED <<status, last, now>>
    BY <2>2 DEF WorkQueueStep, ExpireWork, LoseWork, RecoverWork, BuryWork, guestVars
  <2>3. ASSUME DeskStep PROVE UNCHANGED <<status, last, now>>
    <3>1. ASSUME NEW s \in Scanner, ClaimArrival(s) PROVE UNCHANGED <<status, last, now>>
      <4>1. PICK e : e = scan[s].ev
        OBVIOUS
      <4>2. status' = status \/ (status[e] = "confirmed" /\ status' = [status EXCEPT ![e] = "confirmed"])
        BY <3>1, <4>1 DEF ClaimArrival
      <4>3. status \in [Event -> ParticipantStatus]
        BY DEF GuestsTyped
      <4>4. UNCHANGED status
        BY <4>2, <4>3
      <4> QED BY <3>1, <4>4 DEF ClaimArrival
    <3>2. ~(\E e \in Event : \/ \E word \in Word : RespondWrite(e, word)
                             \/ \E s \in ParticipantStatus \ {"invited"} : BulkUpdate(e, s))
          /\ ~ToggleOptOut
      BY DEF RespondWrite, BulkUpdate, ToggleOptOut
    <3>3. ASSUME \/ \E e \in Event : EventStarts(e)
                 \/ \E s \in Scanner, e \in Event : ScanBadge(s, e)
                 \/ \E s \in Scanner, taken \in BOOLEAN : Thank(s, taken)
                 \/ RespondQueue \/ RequestDies
          PROVE  UNCHANGED <<status, last, now>>
      BY <3>3 DEF EventStarts, ScanBadge, Thank, RespondQueue, RequestDies, guestVars
    <3> QED BY <2>3, <3>1, <3>2, <3>3 DEF DeskStep
  <2>4. UNCHANGED rsvpVars => UNCHANGED <<status, last, now>>
    BY DEF rsvpVars
  <2> QED BY <2>1, <2>2, <2>3, <2>4
<1> QED BY <1>1, <1>2 DEF Calm

LEMMA CalmOfWorkers ==
  ASSUME DesksTyped, ShiftsTyped, Undisturbed, faults' = 0, NEW w \in Slot,
         \/ WorkflowStep(w) \/ SlotStep(w) \/ RsvpError(w)
         \/ Look(w) /\ ~(~optedOut /\ Invitations # {})
  PROVE  Calm
<1>0. desk \in [Slot -> Desk] /\ faults = 0
  BY DEF DesksTyped, Undisturbed
<1>1. ~CrashWork(w) /\ ~RsvpError(w)
  BY <1>0 DEF CrashWork, RsvpError, RsvpFault
<1>2. CASE WorkflowStep(w)
  <2>1. UNCHANGED <<status, last, now>>
    BY <1>2 DEF WorkflowStep, Plan, Exists, CreateRow, QueueReminder, Offer, SendCoupon, MarkCoupon,
                FlowError, guestVars
  <2>2. /\ desk[w].at \in FlowStep
        /\ \E l \in FlowStep \cup {"complete", "throw"} : desk' = [desk EXCEPT ![w].at = l]
    BY <1>2 DEF WorkflowStep, Plan, Exists, CreateRow, QueueReminder, Offer, SendCoupon, MarkCoupon,
                FlowError, FlowStep, Goes
  <2>3. PICK l \in FlowStep \cup {"complete", "throw"} : desk' = [desk EXCEPT ![w].at = l]
    BY <2>2
  <2>4. desk'[w].at = l /\ \A v \in Slot \ {w} : desk'[v] = desk[v]
    BY <1>0, <2>3 DEF Desk
  <2>5. (FlowStep \cup {"complete", "throw"}) \cap RsvpStep = {}
    BY DEF FlowStep, RsvpStep
  <2> QED BY <2>1, <2>2, <2>4, <2>5 DEF Calm, Past
<1>3. CASE SlotStep(w)
  <2>1. UNCHANGED <<status, last, now>>
    BY <1>3 DEF SlotStep, TakeWork, CompleteWork, ThrowWork, CrashWork, guestVars
  <2>2. ~Past(w)
    BY <1>1, <1>3 DEF SlotStep, TakeWork, CompleteWork, ThrowWork, Past, RsvpStep
  <2>3. ASSUME NEW r \in Desk, desk' = [desk EXCEPT ![w] = r], r.at \notin RsvpStep \ {"look"}
        PROVE  Calm
    <3>1. desk'[w] = r /\ \A v \in Slot \ {w} : desk'[v] = desk[v]
      BY <1>0, <2>3
    <3> QED BY <2>1, <2>2, <2>3, <3>1 DEF Calm, Past
  <2>4. ASSUME NEW j \in WorkId, TakeWork(w, j) PROVE Calm
    <3> DEFINE r == [FreeDesk EXCEPT !.at = First(j), !.job = j]
    <3>1. First(j) \in DeskLabel /\ First(j) \notin RsvpStep \ {"look"}
      BY DEF First, DeskLabel, RsvpStep, FlowStep
    <3>2. r \in Desk /\ r.at = First(j) /\ desk' = [desk EXCEPT ![w] = r]
      BY <1>0, <2>4, <3>1, DeskUpdates DEF TakeWork
    <3> HIDE DEF r
    <3> QED BY <2>3, <3>1, <3>2
  <2>5. ASSUME CompleteWork(w) \/ ThrowWork(w) PROVE Calm
    <3>1. desk' = [desk EXCEPT ![w] = FreeDesk] /\ FreeDesk \in Desk /\ FreeDesk.at = "idle"
      BY <1>0, <2>5, DeskUpdates DEF CompleteWork, ThrowWork
    <3> QED BY <2>3, <3>1 DEF RsvpStep
  <2> QED BY <1>1, <1>3, <2>4, <2>5 DEF SlotStep
<1>4. CASE Look(w) /\ ~(~optedOut /\ Invitations # {})
  <2>1. desk' = [desk EXCEPT ![w].at = "complete"] /\ desk[w].at = "look"
        /\ UNCHANGED <<status, last, now>>
    BY <1>4 DEF Look
  <2>2. desk'[w].at = "complete" /\ \A v \in Slot \ {w} : desk'[v] = desk[v]
    BY <1>0, <2>1 DEF Desk
  <2> QED BY <2>1, <2>2 DEF Calm, Past, RsvpStep
<1> QED BY <1>1, <1>2, <1>3, <1>4

LEMMA FlowsStay ==
  ASSUME JobsStay, NEW e, Flowed(e)
  PROVE  Flowed(e)'
<1>1. PICK j \in FlowJob : work[j].st # "none" /\ data[j].ev = e
  BY DEF Flowed
<1>2. j \in WorkId
  BY DEF WorkId
<1> QED BY <1>1, <1>2 DEF Flowed, JobsStay

\* The reply a handler is at stays the same.
LEMMA DataStays ==
  ASSUME DesksTyped, ShiftsTyped, JobsStay, NEW w \in Slot, desk[w].at \in RsvpStep,
         desk'[w].job = desk[w].job
  PROVE  Data(w)' = Data(w)
<1>1. desk[w].at # "idle"
  BY DEF RsvpStep
<1> QED BY <1>1 DEF Data, DesksTyped, JobsStay

LEMMA AttendedCalm ==
  ASSUME DesksTyped, ShiftsTyped, JobsStay, Attended, Undisturbed, Calm
  PROVE  Attended'
<1>1. ASSUME NEW w \in Slot, Past(w)'
      PROVE  Past(w) /\ desk'[w] = desk[w] /\ Data(w)' = Data(w)
  <2>1. Past(w) /\ desk'[w] = desk[w]
    BY <1>1 DEF Calm, Past
  <2> QED BY <2>1, DataStays DEF Past
<1>2. ASSUME NEW w \in Slot, Past(w)' PROVE Alone(w)'
  <2>1. Alone(w) /\ Past(w) /\ desk'[w] = desk[w] /\ Data(w)' = Data(w)
    BY <1>1, <1>2 DEF Attended
  <2>2. UNCHANGED <<status, last, now>>
    BY DEF Calm
  <2>3. \A v \in Slot : Past(v)' => v = w
    BY <1>1, <2>1 DEF Alone
  <2>4. Written(w)' = Written(w)
    BY <2>1 DEF Written
  <2> QED BY <2>1, <2>2, <2>3, <2>4 DEF Alone
<1>3. ASSUME NEW e \in Confirmed' PROVE Noticed(e)'
  <2>1. e \in Confirmed
    BY <1>3 DEF Confirmed, Calm
  <2>2. Noticed(e)
    BY <2>1 DEF Attended
  <2>3. ASSUME NEW w \in Slot, Past(w), desk[w].ev = e PROVE Noticed(e)'
    <3>1. Past(w)' /\ desk'[w].ev = e
      BY <2>3 DEF Calm, Past
    <3> QED BY <3>1 DEF Noticed
  <2> QED BY <2>2, <2>3, FlowsStay DEF Noticed
<1> QED BY <1>2, <1>3 DEF Attended, Calm

\* A handler looks: nobody else is answering, and its time is the latest.
LEMMA AttendedLook ==
  ASSUME DesksTyped, ShiftsTyped, GuestsTyped, JobsStay, Attended, Undisturbed, ~mixed',
         NEW w \in Slot, Look(w), ~optedOut, Invitations # {}
  PROVE  Attended'
<1>0. desk \in [Slot -> Desk] /\ now \in Nat /\ last \in [Event -> Nat]
  BY DEF DesksTyped, GuestsTyped
<1>1. PICK e \in Event : e = Min(Invitations) /\ status[e] \in {"invited", "pending"}
  BY InvitationsAreEvents DEF Invitations
<1>2. /\ now' = now + 1 /\ UNCHANGED <<status, last>> /\ desk[w].at = "look"
      /\ \A v \in Slot \ {w} : desk[v].at \notin RsvpStep
  BY DEF Look, Answering
<1>3. PICK l \in {"stamp", "answer"} :
        /\ l = IF status[e] = NewStatus(Data(w).word) THEN "stamp" ELSE "answer"
        /\ desk' = [desk EXCEPT ![w].at = l, ![w].ev = e, ![w].time = now + 1]
  BY <1>1 DEF Look
<1>4. /\ desk'[w].at = l /\ desk'[w].ev = e /\ desk'[w].time = now' /\ desk'[w].job = desk[w].job
      /\ \A v \in Slot \ {w} : desk'[v] = desk[v]
  BY <1>0, <1>2, <1>3 DEF Desk
<1>5. Data(w)' = Data(w)
  BY <1>2, <1>4, DataStays DEF RsvpStep
<1>6. \A v \in Slot : Past(v)' => v = w
  BY <1>2, <1>4 DEF Past
<1>7. \A f \in Event : last'[f] < now' /\ (status'[f] = "confirmed" => last'[f] > 0)
  <2>1. \A f \in Event : last[f] <= now /\ (status[f] = "confirmed" => last[f] > 0)
    BY DEF Attended
  <2> QED BY <1>0, <1>2, <2>1
<1>8. Alone(w)'
  <2>1. ~Written(w)' /\ desk'[w].at # "trigger"
    BY <1>3, <1>4 DEF Written
  <2>2. l # "answer" => status'[e] = NewStatus(Data(w)'.word)
    BY <1>2, <1>3, <1>5
  <2> QED BY <1>4, <1>6, <1>7, <2>1, <2>2 DEF Alone
<1>9. ASSUME NEW f \in Confirmed' PROVE Noticed(f)'
  <2>1. f \in Confirmed
    BY <1>2, <1>9 DEF Confirmed
  <2>2. Noticed(f) /\ ~(\E v \in Slot : Past(v) /\ desk[v].ev = f)
    BY <1>2, <2>1 DEF Attended, Past
  <2> QED BY <2>2, FlowsStay DEF Noticed
<1>10. \A f \in Event : last'[f] <= now' /\ (status'[f] = "confirmed" => last'[f] > 0)
  <2>1. now' \in Nat /\ last' \in [Event -> Nat]
    BY <1>0, <1>2
  <2> QED BY <1>7, <2>1
<1> QED BY <1>6, <1>8, <1>9, <1>10 DEF Attended

\* It writes its answer.
LEMMA AttendedAnswer ==
  ASSUME DesksTyped, ShiftsTyped, GuestsTyped, JobsStay, Attended, Undisturbed,
         NEW w \in Slot, Stamp(w) \/ Answer(w)
  PROVE  Attended'
<1>0. /\ desk \in [Slot -> Desk] /\ now \in Nat /\ last \in [Event -> Nat]
      /\ status \in [Event -> ParticipantStatus]
  BY DEF DesksTyped, GuestsTyped
<1>1. PICK e \in Event : e = desk[w].ev
  BY DEF Stamp, Answer, ShiftsTyped, RsvpStep
<1>2. Past(w) /\ desk[w].at \in {"stamp", "answer"}
  BY DEF Stamp, Answer, Past, RsvpStep
<1>3. Alone(w) /\ \A f \in Event : last[f] <= now /\ (status[f] = "confirmed" => last[f] > 0)
  BY <1>2 DEF Attended
<1>4. /\ last' = [last EXCEPT ![e] = now] /\ now' = now
      /\ status' = status \/ status' = [status EXCEPT ![e] = NewStatus(Data(w).word)]
  BY <1>1, <1>3 DEF Stamp, Answer, Alone
<1>5. PICK l \in {"reply", "settle"} : desk' = [desk EXCEPT ![w].at = l]
  BY DEF Stamp, Answer
<1>6. /\ desk'[w].at = l /\ desk'[w].ev = e /\ desk'[w].time = now /\ desk'[w].job = desk[w].job
      /\ \A v \in Slot \ {w} : desk'[v] = desk[v]
  BY <1>0, <1>1, <1>3, <1>5 DEF Desk, Alone
<1>7. Data(w)' = Data(w)
  BY <1>2, <1>6, DataStays DEF RsvpStep
<1>8. Past(w)' /\ \A v \in Slot : Past(v)' => v = w
  BY <1>3, <1>6 DEF Past, Alone, RsvpStep
<1>9. last'[e] = now' /\ \A f \in Event \ {e} : last'[f] < now' /\ last'[f] = last[f]
  BY <1>0, <1>1, <1>2, <1>3, <1>4 DEF Alone, Written
<1>10. status'[e] = NewStatus(Data(w).word) /\ \A f \in Event \ {e} : status'[f] = status[f]
  <2>1. CASE Stamp(w)
    BY <1>1, <1>3, <2>1 DEF Stamp, Alone
  <2>2. CASE Answer(w)
    BY <1>0, <1>1, <2>2 DEF Answer
  <2> QED BY <2>1, <2>2
<1>11. now > 0
  <2>1. last[e] < now
    BY <1>2, <1>3 DEF Alone, Written
  <2> QED BY <1>0, <2>1
<1>12. \A f \in Event : last'[f] <= now' /\ (status'[f] = "confirmed" => last'[f] > 0)
  BY <1>0, <1>3, <1>4, <1>9, <1>10, <1>11
<1>13. Alone(w)'
  <2>1. Written(w)' /\ desk'[w].at # "trigger"
    BY <1>6 DEF Written
  <2>2. \A f \in Event : last'[f] < now' \/ f = e
    BY <1>9
  <2> QED BY <1>4, <1>6, <1>7, <1>8, <1>9, <1>10, <2>1, <2>2 DEF Alone
<1>14. ASSUME NEW f \in Confirmed' PROVE Noticed(f)'
  <2>1. CASE f = e
    BY <1>6, <1>8, <2>1 DEF Noticed
  <2>2. CASE f # e
    <3>1. f \in Confirmed
      BY <1>10, <1>14, <2>2 DEF Confirmed
    <3>2. Noticed(f) /\ ~(\E v \in Slot : Past(v) /\ desk[v].ev = f)
      BY <1>1, <1>3, <2>2, <3>1 DEF Attended, Alone
    <3> QED BY <3>2, FlowsStay DEF Noticed
  <2> QED BY <2>1, <2>2
<1> QED BY <1>8, <1>12, <1>13, <1>14 DEF Attended

\* It acknowledges the reply, and goes on with a yes.
LEMMA AttendedReply ==
  ASSUME DesksTyped, ShiftsTyped, JobsStay, Attended, Undisturbed,
         NEW w \in Slot, Settle(w) \/ Reply(w)
  PROVE  Attended'
<1>0. desk \in [Slot -> Desk] /\ UNCHANGED <<status, last, now>>
  BY DEF DesksTyped, Settle, Reply, guestVars
<1>1. Past(w) /\ Written(w) /\ Alone(w) /\ desk[w].at # "answer"
  <2>1. Past(w) /\ Written(w) /\ desk[w].at # "answer"
    BY DEF Settle, Reply, Past, Written, RsvpStep
  <2> QED BY <2>1 DEF Attended
<1>2. PICK l \in {"reply", "trigger", "complete"} :
        /\ desk' = [desk EXCEPT ![w].at = l]
        /\ l = "trigger" => Data(w).word = "yes"
        /\ l = "complete" => Data(w).word # "yes"
  BY DEF Settle, Reply
<1>3. /\ desk'[w].at = l /\ desk'[w].ev = desk[w].ev /\ desk'[w].time = desk[w].time
      /\ desk'[w].job = desk[w].job /\ \A v \in Slot \ {w} : desk'[v] = desk[v]
  BY <1>0, <1>2 DEF Desk
<1>4. Data(w)' = Data(w)
  BY <1>1, <1>3, DataStays DEF Past
<1>5. \A v \in Slot : Past(v)' => v = w
  BY <1>1, <1>3 DEF Past, Alone
<1>6. l # "complete" => Alone(w)'
  <2>1. l # "complete" => Written(w)' /\ desk'[w].at # "answer"
    BY <1>3 DEF Written
  <2> QED BY <1>0, <1>1, <1>2, <1>3, <1>4, <1>5, <2>1 DEF Alone
<1>7. l = "complete" => ~Past(w)'
  BY <1>3 DEF Past, RsvpStep
<1>8. ASSUME NEW f \in Confirmed' PROVE Noticed(f)'
  <2>1. f \in Confirmed
    BY <1>0, <1>8 DEF Confirmed
  <2>2. CASE f = desk[w].ev
    <3>1. NewStatus(Data(w).word) = "confirmed"
      BY <1>1, <2>1, <2>2 DEF Alone, Confirmed
    <3>2. l # "complete"
      BY <1>2, <3>1 DEF NewStatus
    <3>3. Past(w)'
      BY <1>3, <3>2 DEF Past, RsvpStep
    <3> QED BY <1>3, <2>2, <3>3 DEF Noticed
  <2>3. CASE f # desk[w].ev
    <3>1. Noticed(f) /\ ~(\E v \in Slot : Past(v) /\ desk[v].ev = f)
      BY <1>1, <2>1, <2>3 DEF Attended, Alone
    <3> QED BY <3>1, FlowsStay DEF Noticed
  <2> QED BY <2>2, <2>3
<1> QED BY <1>0, <1>5, <1>6, <1>7, <1>8 DEF Attended

\* It triggers the workflow: the latest confirmation is the one it has written.
LEMMA AttendedTrigger ==
  ASSUME DesksTyped, ShiftsTyped, GuestsTyped, JobsStay, Attended, Undisturbed,
         NEW w \in Slot, TriggerFlow(w)
  PROVE  Attended'
<1>0. /\ desk \in [Slot -> Desk] /\ now \in Nat /\ last \in [Event -> Nat]
      /\ UNCHANGED <<status, last, now>> /\ desk[w].at = "trigger"
  BY DEF DesksTyped, GuestsTyped, TriggerFlow, guestVars
<1>1. PICK e \in Event : e = desk[w].ev
  BY <1>0 DEF ShiftsTyped, RsvpStep
<1>2. Past(w) /\ Written(w) /\ Alone(w)
  <2>1. Past(w) /\ Written(w)
    BY <1>0 DEF Past, Written, RsvpStep
  <2> QED BY <2>1 DEF Attended
<1>3. \A f \in Event : last[f] <= now /\ (status[f] = "confirmed" => last[f] > 0)
  BY DEF Attended
<1>4. status[e] = "confirmed" /\ last[e] = now /\ \A f \in Event \ {e} : last[f] < now
  <2>1. NewStatus("yes") = "confirmed"
    BY DEF NewStatus
  <2>2. status[e] = "confirmed" /\ last[e] = now
    BY <1>0, <1>1, <1>2, <2>1 DEF Alone
  <2> QED BY <1>1, <1>2, <2>2 DEF Alone
<1>5. Latest = {e}
  <2>1. e \in Confirmed /\ \A f \in Confirmed : f \in Event /\ last[f] # 0
    BY <1>0, <1>3, <1>4 DEF Confirmed
  <2>2. Latest = {f \in Confirmed : \A g \in Confirmed : last[g] <= last[f]}
    BY <2>1 DEF Latest
  <2>3. \A f \in Confirmed \ {e} : ~(last[e] <= last[f])
    BY <1>0, <1>4, <2>1
  <2>4. \A g \in Confirmed : last[g] <= last[e]
    BY <1>0, <1>3, <1>4, <2>1
  <2> QED BY <2>1, <2>2, <2>3, <2>4
<1>6. Flowed(e)'
  <2> DEFINE d == [word |-> "yes", ev |-> e]
  <2>1. AddWork(FlowJob, d)
    BY <1>5 DEF TriggerFlow
  <2>2. FlowJob \in SUBSET WorkId /\ data \in [WorkId -> [word : Word, ev : Event \cup {None}]] /\ d.ev = e
    BY DEF WorkId, GuestsTyped
  <2> HIDE DEF d
  <2>3. PICK j \in FlowJob : data' = [data EXCEPT ![j] = d] /\ work'[j].st # "none"
    BY <2>1, <2>2, DataAdded
  <2>4. data'[j] = d
    BY <2>2, <2>3
  <2> QED BY <2>2, <2>3, <2>4 DEF Flowed
<1>7. ~Past(w)' /\ \A v \in Slot \ {w} : desk'[v] = desk[v]
  <2>1. desk' = [desk EXCEPT ![w].at = "complete"]
    BY DEF TriggerFlow
  <2>2. desk'[w].at = "complete" /\ \A v \in Slot \ {w} : desk'[v] = desk[v]
    BY <1>0, <2>1 DEF Desk
  <2> QED BY <2>2 DEF Past, RsvpStep
<1>8. \A v \in Slot : ~Past(v)'
  BY <1>2, <1>7 DEF Past, Alone
<1>9. ASSUME NEW f \in Confirmed' PROVE Noticed(f)'
  <2>1. f \in Confirmed
    BY <1>0, <1>9 DEF Confirmed
  <2>2. CASE f = e
    BY <1>6, <2>2 DEF Noticed
  <2>3. CASE f # e
    <3>1. Noticed(f) /\ ~(\E v \in Slot : Past(v) /\ desk[v].ev = f)
      BY <1>1, <1>2, <2>1, <2>3 DEF Attended, Alone
    <3> QED BY <3>1, FlowsStay DEF Noticed
  <2> QED BY <2>2, <2>3
<1> QED BY <1>0, <1>3, <1>8, <1>9 DEF Attended

LEMMA MixedStays ==
  ASSUME [InboundNext]_allVars, mixed
  PROVE  mixed'
<1>1. ASSUME NEW w \in Slot, AnswerStep(w) \/ WorkflowStep(w) \/ SlotStep(w) PROVE mixed'
  BY <1>1 DEF AnswerStep, Look, Stamp, Answer, Settle, Reply, TriggerFlow, RsvpError, WorkflowStep,
    Plan, Exists, CreateRow, QueueReminder, Offer, SendCoupon, MarkCoupon, FlowError, SlotStep,
    TakeWork, CompleteWork, ThrowWork, CrashWork, tellVars
<1>2. ASSUME NEW j \in WorkId, WorkQueueStep(j) PROVE mixed'
  BY <1>2 DEF WorkQueueStep, ExpireWork, LoseWork, RecoverWork, BuryWork, tellVars
<1>3. DeskStep => mixed'
  BY DEF DeskStep, RespondWrite, BulkUpdate, EventStarts, ScanBadge, ClaimArrival, Thank,
    RespondQueue, RequestDies, ToggleOptOut, tellVars
<1>4. ASSUME NEW h \in Hook, HookStepOf(h) PROVE mixed'
  BY <1>4 DEF HookStepOf, Deliver, CheckDuplicate, LogInbound, LogLost, Route, AskFeedback, Rate,
    AskInvitation, QueueReply, AskSession, NoSession, ErrandOver, MarkContact, HookFails, rsvpVars,
    tellVars
<1> QED BY <1>1, <1>2, <1>3, <1>4 DEF InboundNext, RsvpStepOnly, allVars, rsvpVars

LEMMA AttendedStep ==
  DesksTyped /\ ShiftsTyped /\ DoorKept /\ GuestsTyped /\ Attended /\ [InboundNext]_allVars
  => Attended'
<1> SUFFICES ASSUME DesksTyped, ShiftsTyped, DoorKept, GuestsTyped, Attended, [InboundNext]_allVars,
                    Undisturbed'
             PROVE  Attended'
  BY DEF Attended
<1>1. faults' = 0 /\ ~mixed' /\ Undisturbed
  <2>1. faults' \in {faults, faults + 1}
    <3>1. ASSUME NEW h \in Hook, HookStepOf(h) PROVE faults' \in {faults, faults + 1}
      BY <3>1 DEF HookStepOf, Deliver, CheckDuplicate, LogInbound, LogLost, Route, AskFeedback, Rate,
        AskInvitation, QueueReply, AskSession, NoSession, ErrandOver, MarkContact, HookFails, rsvpVars,
        RsvpFault
    <3> QED BY <3>1, RsvpFaultsGrow DEF InboundNext, allVars, rsvpVars
  <2> QED BY <2>1, MixedStays DEF Undisturbed, DesksTyped
<1>2. JobsStay
  BY DeskMoves
<1>3. CASE DeskStep \/ (\E h \in Hook : HookStepOf(h)) \/ UNCHANGED rsvpVars
           \/ \E j \in WorkId : WorkQueueStep(j)
  BY <1>1, <1>2, <1>3, CalmOfOthers, AttendedCalm
<1>4. ASSUME NEW w \in Slot, WorkflowStep(w) \/ SlotStep(w) PROVE Attended'
  BY <1>1, <1>2, <1>4, CalmOfWorkers, AttendedCalm
<1>5. ASSUME NEW w \in Slot, AnswerStep(w) PROVE Attended'
  <2>1. CASE Look(w) /\ ~optedOut /\ Invitations # {}
    BY <1>1, <1>2, <2>1, AttendedLook
  <2>2. CASE RsvpError(w) \/ (Look(w) /\ ~(~optedOut /\ Invitations # {}))
    BY <1>1, <1>2, <2>2, CalmOfWorkers, AttendedCalm
  <2>3. CASE Stamp(w) \/ Answer(w)
    BY <1>1, <1>2, <2>3, AttendedAnswer
  <2>4. CASE Settle(w) \/ Reply(w)
    BY <1>1, <1>2, <2>4, AttendedReply
  <2>5. CASE TriggerFlow(w)
    BY <1>1, <1>2, <2>5, AttendedTrigger
  <2> QED BY <1>5, <2>1, <2>2, <2>3, <2>4, <2>5 DEF AnswerStep
<1> QED BY <1>3, <1>4, <1>5 DEF InboundNext, RsvpStepOnly, allVars

LEMMA GuestsInit == InboundInit => DoorKept /\ GuestsTyped /\ Attended
<1> SUFFICES ASSUME InboundInit PROVE DoorKept /\ GuestsTyped /\ Attended
  OBVIOUS
<1>1. NoRequest \in Request /\ NoRequest.at = "idle"
  BY RequestTyped
<1>2. DoorKept
  BY <1>1 DEF InboundInit, RsvpInit, DoorKept, OneArrival
<1>3. GuestsTyped
  <2>1. \A j \in WorkId : work[j].st = "none"
    BY DEF InboundInit, RsvpInit, NoJob
  <2>2. data \in [WorkId -> [word : Word, ev : Event \cup {None}]]
    BY DEF InboundInit, RsvpInit, Word
  <2>3. FlowJob \in SUBSET WorkId
    BY DEF WorkId
  <2>4. status \in [Event -> ParticipantStatus]
    BY DEF InboundInit, RsvpInit, ParticipantStatus
  <2>5. coming \in [Outside -> Nat]
    BY RsvpAssumption DEF InboundInit, RsvpInit
  <2> QED BY <1>1, <2>1, <2>2, <2>3, <2>4, <2>5 DEF InboundInit, RsvpInit, GuestsTyped
<1>4. Attended
  <2>1. \A w \in Slot : ~Past(w)
    BY DEF InboundInit, RsvpInit, Past, FreeDesk, RsvpStep
  <2>2. Confirmed = {}
    BY DEF InboundInit, RsvpInit, Confirmed
  <2>3. \A e \in Event : last[e] <= now /\ status[e] # "confirmed"
    BY DEF InboundInit, RsvpInit
  <2> QED BY <2>1, <2>2, <2>3 DEF Attended
<1> QED BY <1>2, <1>3, <1>4

\* What every handler, row and request is, in every state.
LEMMA GuestsAlways ==
  InboundSpec => [](DesksTyped /\ ShiftsTyped /\ DoorKept /\ GuestsTyped /\ AnswersCounted)
<1>1. DesksTyped /\ [InboundNext]_allVars => DesksTyped'
  BY DeskMoves
<1> QED BY <1>1, ShiftsInit, GuestsInit, ShiftsStep, DoorStep, GuestsStep, AnswersStep, PTL DEF InboundSpec

LEMMA AttendedSuffices == Attended => ConfirmedGetsWorkflow
BY DEF Attended, Undisturbed, Noticed, Flowed, Past, ConfirmedGetsWorkflow, Answering

\* Replies handled one by one: what the contact confirmed gets its own workflow,
\* although fireConfirmedWorkflow looks for it by the contact alone.
THEOREM ConfirmationsAreFollowed == InboundSpec => []ConfirmedGetsWorkflow
BY AttendedSuffices, GuestsInit, GuestsAlways, AttendedStep, PTL DEF InboundSpec

-----------------------------------------------------------------------------
(* The customer's diary. *)

\* The numbers of a finite set can be put in order.
Ordered(S, n) ==
  \E s \in [1..n -> S] : \A i, j \in DOMAIN s : i < j => s[i] < s[j]

LEMMA OrdersGrow ==
  ASSUME NEW S \in SUBSET Nat, NEW n \in Nat, NEW m \in S, \A t \in S \ {m} : m < t,
         Ordered(S \ {m}, n)
  PROVE  Ordered(S, n + 1)
<1>1. PICK s \in [1..n -> S \ {m}] : \A i, j \in 1..n : i < j => s[i] < s[j]
  BY DEF Ordered
<1> DEFINE q == [i \in 1..(n + 1) |-> IF i = 1 THEN m ELSE s[i - 1]]
<1>2. q \in [1..(n + 1) -> S] /\ q[1] = m /\ \A i \in 2..(n + 1) : q[i] = s[i - 1] /\ i - 1 \in 1..n
  BY <1>1
<1> HIDE DEF q
<1>3. ASSUME NEW i \in 1..(n + 1), NEW j \in 1..(n + 1), i < j PROVE q[i] < q[j]
  <2>1. j \in 2..(n + 1) /\ q[j] = s[j - 1] /\ j - 1 \in 1..n /\ s[j - 1] \in S \ {m}
    BY <1>1, <1>2, <1>3
  <2>2. CASE i = 1
    BY <1>2, <2>1, <2>2
  <2>3. CASE i # 1
    <3>1. i \in 2..(n + 1) /\ q[i] = s[i - 1] /\ i - 1 \in 1..n /\ i - 1 < j - 1
      BY <1>2, <1>3, <2>3
    <3> QED BY <1>1, <2>1, <3>1
  <2> QED BY <2>2, <2>3
<1> QED BY <1>2, <1>3 DEF Ordered

LEMMA OrdersExist ==
  ASSUME NEW S \in SUBSET Nat, IsFiniteSet(S)
  PROVE  Ordered(S, Cardinality(S))
<1> DEFINE Bad == {n \in Nat : \E R \in SUBSET Nat : IsFiniteSet(R) /\ Cardinality(R) = n /\ ~Ordered(R, n)}
<1>1. SUFFICES ASSUME ~Ordered(S, Cardinality(S)) PROVE FALSE
  OBVIOUS
<1>2. Cardinality(S) \in Bad
  BY <1>1, FS_CardinalityType
<1>3. Min(Bad) \in Bad /\ \A n \in Bad : Min(Bad) <= n
  <2>1. \E x \in Bad : \A y \in Bad : <<y, x>> \notin OpToRel(<, Nat)
    BY <1>2, NatLessThanWellFounded, WFMin
  <2>2. \E x \in Bad : \A y \in Bad : ~(y < x)
    BY <2>1 DEF OpToRel
  <2>3. \E x \in Bad : \A y \in Bad : x <= y
    BY <2>2
  <2> HIDE DEF Bad
  <2> QED BY <2>3 DEF Min
<1>4. PICK n \in Nat : n \in Bad /\ \A k \in Bad : n <= k
  BY <1>3
<1>5. PICK R \in SUBSET Nat : IsFiniteSet(R) /\ Cardinality(R) = n /\ ~Ordered(R, n)
  BY <1>4
<1>6. R # {}
  <2>1. CASE R = {}
    <3>1. n = 0
      BY <1>5, <2>1, FS_EmptySet
    <3>2. [i \in 1..0 |-> 0] \in [1..0 -> R]
      BY SMT
    <3> QED BY <1>5, <3>1, <3>2 DEF Ordered
  <2> QED BY <2>1
<1>7. PICK m \in R : \A t \in R \ {m} : m < t
  <2>1. \E x \in R : \A y \in R : <<y, x>> \notin OpToRel(<, Nat)
    BY <1>6, NatLessThanWellFounded, WFMin
  <2>2. \E x \in R : \A y \in R : ~(y < x)
    BY <2>1 DEF OpToRel
  <2> QED BY <2>2
<1>8. /\ IsFiniteSet(R \ {m}) /\ Cardinality(R \ {m}) = n - 1 /\ n - 1 \in Nat
      /\ R \ {m} \in SUBSET Nat
  <2>1. IsFiniteSet(R \ {m}) /\ R \ {m} \in SUBSET Nat
    BY <1>5, FS_RemoveElement
  <2>2. Cardinality(R \ {m}) = n - 1
    BY <1>5, <1>7, FS_RemoveElement
  <2>3. Cardinality(R \ {m}) \in Nat
    BY <2>1, FS_CardinalityType
  <2> QED BY <2>1, <2>2, <2>3
<1>9. Ordered(R \ {m}, n - 1)
  <2>1. n - 1 \notin Bad
    BY <1>4, <1>8
  <2> QED BY <1>8, <2>1
<1>10. Ordered(R, (n - 1) + 1)
  BY <1>7, <1>8, <1>9, OrdersGrow
<1> QED BY <1>5, <1>8, <1>10

\* The slots offered are hours of the calendar.
LEMMA SlotsTyped ==
  ASSUME NEW a
  PROVE  AvailableSlots(a) \in Seq(Time)
<1> DEFINE S == FreeHours(a)
           s == InOrder(S)
           n == IF Len(s) < SlotsToOffer THEN Len(s) ELSE SlotsToOffer
<1>1. S \in SUBSET Time /\ S \in SUBSET Nat /\ IsFiniteSet(S)
  BY DiaryAssumption, FS_Subset DEF FreeHours
<1>2. s \in [1..Cardinality(S) -> S] /\ Cardinality(S) \in Nat
  <2> HIDE DEF S
  <2>1. \E q \in [1..Cardinality(S) -> S] : \A i, j \in DOMAIN q : i < j => q[i] < q[j]
    BY <1>1, OrdersExist DEF Ordered
  <2> QED BY <1>1, <2>1, FS_CardinalityType DEF InOrder
<1>3. s \in Seq(Time)
  <2> HIDE DEF S, s
  <2>1. s \in [1..Cardinality(S) -> Time]
    BY <1>1, <1>2
  <2> QED BY <1>2, <2>1
<1>4. n \in Nat /\ n <= Len(s)
  <2> HIDE DEF S, s
  <2> QED BY <1>3, DiaryAssumption
<1>5. SubSeq(s, 1, n) \in Seq(Time)
  <2> HIDE DEF S, s, n
  <2> QED BY <1>3, <1>4
<1> QED BY <1>5 DEF AvailableSlots

\* What an errand knows by the time it needs it.
Instructed(e) ==
  /\ e.at \in {"move", "read", "remove", "schedule", "row", "confirming", "cancelling", "slots",
               "clear", "create"} => e.appt \in Appt
  /\ e.at = "move" => e.time \in Time
  /\ e.at \in {"read", "remove"} => e.then \in {"schedule", "done", "next"}
  /\ e.at = "next" => e.then = "next"

ErrandsTyped == ReschedulingTypeOK /\ \A h \in Hook : Instructed(errand[h])

\* What the webhook handlers do to an errand: they start it, read the text again
\* when its session is gone, and put it away.
Hurried(h) ==
  /\ \/ errand[h].at = "nosession" /\ \E l \in {"confirm", "cancel", "offer"} : Goto(h, l)
     \/ errand[h].at \in {"done", "fail"} /\ Set(h, NoErrand)
  /\ UNCHANGED <<apptVars, diaryVars, blurred>>

LEMMA ErrandMoves ==
  ASSUME [InboundNext]_allVars
  PROVE  \/ UNCHANGED reschedulingVars
         \/ \E h \in Hook, l \in {"stop", "start", "select", "confirm", "cancel", "offer"}, p \in 0..3 :
              Begin(h, l, p)
         \/ \E h \in Hook : Hurried(h)
         \/ \E h \in Hook : ErrandStepOf(h)
         \/ DiaryStep
<1>0. \A t : Digit(t) \in 0..3 /\ Command(t) \in {"confirm", "cancel", "offer"}
  BY DEF Digit, Command
<1>1. ASSUME NEW h \in Hook, HookStepOf(h)
      PROVE  \/ UNCHANGED reschedulingVars \/ Hurried(h)
             \/ \E l \in {"stop", "start", "select", "confirm", "cancel", "offer"}, p \in 0..3 :
                  Begin(h, l, p)
  <2>1. CASE Route(h)
    <3>1. UNCHANGED reschedulingVars \/ \E l : StartErrand(h, l, 0) /\ l \in {"stop", "start", Command(Said(h))}
      BY <2>1 DEF Route
    <3> QED BY <1>0, <3>1 DEF StartErrand
  <2>2. CASE AskSession(h)
    BY <1>0, <2>2 DEF AskSession, StartErrand
  <2>3. CASE NoSession(h)
    BY <1>0, <2>3 DEF NoSession, Hurried
  <2>4. CASE ErrandOver(h)
    BY <2>4 DEF ErrandOver, Hurried
  <2> QED BY <1>1, <2>1, <2>2, <2>3, <2>4 DEF HookStepOf, Deliver, CheckDuplicate, LogInbound,
    LogLost, AskFeedback, Rate, AskInvitation, QueueReply, MarkContact, HookFails
<1> QED BY <1>1 DEF InboundNext, ReschedulingStep, allVars

LEMMA ErrandTurns ==
  ASSUME ErrandsTyped, NEW h \in Hook, NEW e \in Errand, Instructed(e), Set(h, e)
  PROVE  /\ errand' \in [Hook -> Errand] /\ \A g \in Hook : Instructed(errand'[g])
         /\ errand'[h] = e /\ \A g \in Hook \ {h} : errand'[g] = errand[g]
BY DEF ErrandsTyped, ReschedulingTypeOK, Set

LEMMA ErrandTyped ==
  /\ NoErrand \in Errand /\ Instructed(NoErrand)
  /\ \A e \in Errand : \A l \in ErrandStep : [e EXCEPT !.at = l] \in Errand
<1>1. NoErrand \in Errand
  BY DEF NoErrand, Errand, ErrandStep
<1>2. Instructed(NoErrand)
  BY DEF NoErrand, Instructed
<1>3. ASSUME NEW e \in Errand, NEW l \in ErrandStep PROVE [e EXCEPT !.at = l] \in Errand
  BY DEF Errand
<1> QED BY <1>1, <1>2, <1>3

\* A step that only says where the errand is now.
LEMMA ErrandGoes ==
  ASSUME ErrandsTyped, NEW h \in Hook,
         NEW l \in {"nosession", "done", "fail", "drop", "confirm", "cancel", "offer"}, Goto(h, l)
  PROVE  errand' \in [Hook -> Errand] /\ \A g \in Hook : Instructed(errand'[g])
<1> DEFINE e == [errand[h] EXCEPT !.at = l]
<1>1. errand[h] \in Errand
  BY DEF ErrandsTyped, ReschedulingTypeOK
<1>2. e \in Errand /\ e.at = l
  <2>1. l \in ErrandStep
    BY DEF ErrandStep
  <2>2. [errand[h] EXCEPT !.at = l].at = l
    BY <1>1 DEF Errand
  <2> QED BY <1>1, <2>1, <2>2, ErrandTyped
<1>3. Instructed(e)
  BY <1>2 DEF Instructed
<1>4. Set(h, e)
  BY DEF Goto
<1> HIDE DEF e
<1> QED BY <1>2, <1>3, <1>4, ErrandTurns

LEMMA LastTyped ==
  ASSUME NEW T, NEW s \in Seq(T), s # <<>>
  PROVE  Last(s) \in T
BY DEF Last

LEMMA RestTyped ==
  ASSUME NEW T, NEW s \in Seq(T), NEW i \in DOMAIN s
  PROVE  RemoveAt(s, i) \in Seq(T)
BY DEF RemoveAt

LEMMA SelectTyped ==
  ASSUME ErrandsTyped, NEW h \in Hook, Select(h)
  PROVE  errand' \in [Hook -> Errand] /\ \A g \in Hook : Instructed(errand'[g])
<1> DEFINE s == Last(sessions)
           pick == errand[h].pick
<1>1. errand[h] \in Errand /\ sessions \in Seq([key : Nat, appt : Appt, offered : Seq(Time)])
  BY DEF ErrandsTyped, ReschedulingTypeOK
<1>2. CASE Goto(h, "nosession") \/ Goto(h, "done")
  BY <1>2, ErrandGoes
<1>3. CASE sessions # <<>> /\ pick \in DOMAIN s.offered
  <2>1. s \in [key : Nat, appt : Appt, offered : Seq(Time)]
    BY <1>1, <1>3, LastTyped
  <2>2. s.appt \in Appt /\ s.key \in Nat /\ s.offered \in Seq(Time) /\ s.offered[pick] \in Time
    <3>1. s.appt \in Appt /\ s.key \in Nat /\ s.offered \in Seq(Time)
      BY <2>1
    <3> QED BY <1>3, <3>1
  <2>3. PICK a \in Appt, t \in Time, k \in Nat :
          Set(h, [errand[h] EXCEPT !.at = "move", !.appt = a, !.time = t, !.key = k])
    BY <1>3, <2>2 DEF Select
  <2> DEFINE e == [errand[h] EXCEPT !.at = "move", !.appt = a, !.time = t, !.key = k]
  <2>4. e \in Errand /\ e.at = "move" /\ e.appt = a /\ e.time = t
    BY <1>1 DEF Errand, ErrandStep
  <2> HIDE DEF e
  <2>5. Instructed(e)
    BY <2>4 DEF Instructed
  <2>6. Set(h, e)
    BY <2>3 DEF e
  <2> QED BY <2>4, <2>5, <2>6, ErrandTurns
<1> QED BY <1>2, <1>3 DEF Select

\* An errand that goes on with its appointment, or takes another one.
LEMMA ErrandGoesOn ==
  ASSUME ErrandsTyped, NEW h \in Hook, NEW e \in Errand, Set(h, e), e.at \notin {"move", "next"}, e.appt \in Appt,
         e.at \in {"read", "remove"} => e.then \in {"schedule", "done", "next"}
  PROVE  errand' \in [Hook -> Errand] /\ \A g \in Hook : Instructed(errand'[g])
<1>1. Instructed(e)
  BY DEF Instructed
<1> QED BY <1>1, ErrandTurns

LEMMA RemindersTyped ==
  ASSUME ErrandsTyped, NEW h \in Hook,
         \/ ReadReminders(h) \/ RemovedAll(h) \/ ScheduleReminder(h)
         \/ \E r \in Row : RemoveReminder(h, r)
  PROVE  errand' \in [Hook -> Errand] /\ \A g \in Hook : Instructed(errand'[g])
<1>1. errand[h] \in Errand /\ Instructed(errand[h]) /\ appt \in [Appt -> [at : Time, st : ApptStatus]]
  BY DEF ErrandsTyped, ReschedulingTypeOK
<1>2. errand[h].appt \in Appt /\ (errand[h].at \in {"read", "remove"} => errand[h].then \in {"schedule", "done", "next"})
  BY <1>1 DEF Instructed, ReadReminders, RemovedAll, ScheduleReminder, RemoveReminder
<1>3. CASE ReadReminders(h)
  <2> DEFINE e == [errand[h] EXCEPT !.at = "remove", !.list = Pending(errand[h].appt)]
  <2>1. Pending(errand[h].appt) \in SUBSET Row
    BY DEF Pending
  <2>2. e \in Errand /\ e.at = "remove" /\ e.appt = errand[h].appt /\ e.then = errand[h].then
    <3> HIDE DEF Pending
    <3> QED BY <1>1, <2>1 DEF Errand, ErrandStep
  <2>3. Set(h, e) /\ errand[h].at = "read"
    BY <1>3 DEF ReadReminders
  <2> HIDE DEF e
  <2> QED BY <1>2, <2>2, <2>3, ErrandGoesOn
<1>4. CASE RemovedAll(h)
  <2>1. PICK l \in {"schedule", "done", "next"} : Goto(h, l) /\ l = errand[h].then
    BY <1>2, <1>4 DEF RemovedAll
  <2>2. CASE l = "schedule"
    <3> DEFINE e == [errand[h] EXCEPT !.at = "schedule"]
    <3>1. e \in Errand /\ e.at = "schedule" /\ e.appt = errand[h].appt
      BY <1>1 DEF Errand, ErrandStep
    <3>2. Set(h, e)
      BY <2>1, <2>2 DEF Goto
    <3> HIDE DEF e
    <3> QED BY <1>2, <3>1, <3>2, ErrandGoesOn
  <2>3. CASE l = "next"
    <3> DEFINE e == [errand[h] EXCEPT !.at = "next"]
    <3>1. e \in Errand /\ e.at = "next" /\ e.then = errand[h].then
      BY <1>1 DEF Errand, ErrandStep
    <3>2. Set(h, e)
      BY <2>1, <2>3 DEF Goto
    <3> HIDE DEF e
    <3>3. Instructed(e)
      BY <2>1, <2>3, <3>1 DEF Instructed
    <3> QED BY <3>1, <3>2, <3>3, ErrandTurns
  <2> QED BY <2>1, <2>2, <2>3, ErrandGoes
<1>5. CASE ScheduleReminder(h)
  <2>1. appt[errand[h].appt].at \in Time
    BY <1>1, <1>2
  <2>2. PICK t \in Time : Goto(h, "drop") \/ Set(h, [errand[h] EXCEPT !.at = "row", !.time = t])
    BY <1>5, <2>1 DEF ScheduleReminder, Goto
  <2> DEFINE e == [errand[h] EXCEPT !.at = "row", !.time = t]
  <2>3. e \in Errand /\ e.at = "row" /\ e.appt = errand[h].appt
    BY <1>1 DEF Errand, ErrandStep
  <2>4. Goto(h, "drop") \/ Set(h, e)
    BY <2>2
  <2> HIDE DEF e
  <2> QED BY <1>2, <2>3, <2>4, ErrandGoes, ErrandGoesOn
<1>6. ASSUME NEW r \in Row, RemoveReminder(h, r)
      PROVE  errand' \in [Hook -> Errand] /\ \A g \in Hook : Instructed(errand'[g])
  <2> DEFINE e == [errand[h] EXCEPT !.list = @ \ {r}]
  <2>1. e \in Errand /\ e.at = errand[h].at /\ e.appt = errand[h].appt /\ e.then = errand[h].then
    BY <1>1 DEF Errand, ErrandStep
  <2>2. (Goto(h, "fail") \/ Set(h, e)) /\ errand[h].at = "remove"
    BY <1>6 DEF RemoveReminder, Goto
  <2> HIDE DEF e
  <2> QED BY <1>2, <2>1, <2>2, ErrandGoes, ErrandGoesOn
<1> QED BY <1>3, <1>4, <1>5, <1>6

LEMMA LookUpTyped ==
  ASSUME ErrandsTyped, NEW h \in Hook, NEW S, NEW k, NEW l \in {"confirming", "cancelling", "slots"},
         LookUp(h, k, S, l)
  PROVE  errand' \in [Hook -> Errand] /\ \A g \in Hook : Instructed(errand'[g])
<1>1. errand[h] \in Errand
  BY DEF ErrandsTyped, ReschedulingTypeOK
<1>2. Next1(S) \subseteq Appt
  BY DEF Next1
<1>3. CASE Goto(h, "done")
  BY <1>3, ErrandGoes
<1>4. ASSUME NEW a \in Appt, Set(h, [errand[h] EXCEPT !.at = l, !.appt = a])
      PROVE  errand' \in [Hook -> Errand] /\ \A g \in Hook : Instructed(errand'[g])
  <2> DEFINE e == [errand[h] EXCEPT !.at = l, !.appt = a]
  <2>1. e \in Errand /\ e.at = l /\ e.appt = a
    BY <1>1 DEF Errand, ErrandStep
  <2>2. Set(h, e)
    BY <1>4
  <2> HIDE DEF e
  <2> QED BY <2>1, <2>2, ErrandGoesOn
<1> QED BY <1>2, <1>3, <1>4 DEF LookUp

LEMMA DiaryErrandsTyped ==
  ASSUME ErrandsTyped, NEW h \in Hook,
         \/ MoveAppointment(h) \/ Cancel(h) \/ FindSlots(h) \/ ClearSessions(h)
         \/ MarkLapsed(h) \/ NextAppointment(h)
  PROVE  errand' \in [Hook -> Errand] /\ \A g \in Hook : Instructed(errand'[g])
<1>1. errand[h] \in Errand /\ Instructed(errand[h])
  BY DEF ErrandsTyped, ReschedulingTypeOK
<1>3. ASSUME NEW n \in {"schedule", "done"}, errand[h].at \in {"move", "cancelling"},
             Set(h, [errand[h] EXCEPT !.at = "read", !.then = n])
      PROVE  errand' \in [Hook -> Errand] /\ \A g \in Hook : Instructed(errand'[g])
  <2> DEFINE e == [errand[h] EXCEPT !.at = "read", !.then = n]
  <2>1. errand[h].appt \in Appt
    BY <1>1, <1>3 DEF Instructed
  <2>2. e \in Errand /\ e.at = "read" /\ e.appt = errand[h].appt /\ e.then = n
    BY <1>1 DEF Errand, ErrandStep
  <2>3. Set(h, e)
    BY <1>3
  <2> HIDE DEF e
  <2> QED BY <2>1, <2>2, <2>3, ErrandGoesOn
<1>4. CASE FindSlots(h)
  <2>1. AvailableSlots(errand[h].appt) \in Seq(Time) /\ errand[h].appt \in Appt
    BY <1>1, <1>4, SlotsTyped DEF FindSlots, Instructed
  <2>2. PICK l \in {"done", "clear"}, s \in Seq(Time) : Set(h, [errand[h] EXCEPT !.at = l, !.offered = s])
    <3> HIDE DEF AvailableSlots
    <3> QED BY <1>4, <2>1 DEF FindSlots
  <2> DEFINE e == [errand[h] EXCEPT !.at = l, !.offered = s]
  <2>3. e \in Errand /\ e.at = l /\ e.appt = errand[h].appt
    BY <1>1 DEF Errand, ErrandStep
  <2>4. Set(h, e)
    BY <2>2
  <2> HIDE DEF e
  <2> QED BY <2>1, <2>3, <2>4, ErrandGoesOn
<1>5. CASE ClearSessions(h)
  <2> DEFINE e == [errand[h] EXCEPT !.at = "create"]
  <2>1. errand[h].appt \in Appt
    BY <1>1, <1>5 DEF ClearSessions, Instructed
  <2>2. e \in Errand /\ e.at = "create" /\ e.appt = errand[h].appt
    BY <1>1 DEF Errand, ErrandStep
  <2>3. Set(h, e)
    BY <1>5 DEF ClearSessions, Goto
  <2> HIDE DEF e
  <2> QED BY <2>1, <2>2, <2>3, ErrandGoesOn
<1>6. CASE MarkLapsed(h)
  <2>1. PICK T \in SUBSET Appt : \/ Goto(h, "done")
                                 \/ Set(h, [errand[h] EXCEPT !.at = "next", !.then = "next", !.todo = T])
    BY <1>6 DEF MarkLapsed, Goto
  <2> DEFINE e == [errand[h] EXCEPT !.at = "next", !.then = "next", !.todo = T]
  <2>2. e \in Errand /\ e.at = "next" /\ e.then = "next"
    BY <1>1 DEF Errand, ErrandStep
  <2>3. Goto(h, "done") \/ Set(h, e)
    BY <2>1
  <2> HIDE DEF e
  <2>4. Instructed(e)
    BY <2>2 DEF Instructed
  <2> QED BY <2>2, <2>3, <2>4, ErrandGoes, ErrandTurns
<1>7. CASE NextAppointment(h)
  <2>1. CASE Goto(h, "done")
    BY <2>1, ErrandGoes
  <2>2. ASSUME NEW a \in errand[h].todo,
               Set(h, [errand[h] EXCEPT !.at = "read", !.appt = a, !.todo = @ \ {a}])
        PROVE  errand' \in [Hook -> Errand] /\ \A g \in Hook : Instructed(errand'[g])
    <3> DEFINE e == [errand[h] EXCEPT !.at = "read", !.appt = a, !.todo = @ \ {a}]
    <3>1. e \in Errand /\ e.at = "read" /\ e.appt = a /\ a \in Appt /\ e.then = errand[h].then
      BY <1>1 DEF Errand, ErrandStep
    <3>2. Set(h, e)
      BY <2>2
    <3>3. errand[h].then = "next"
      BY <1>1, <1>7 DEF NextAppointment, Instructed
    <3> HIDE DEF e
    <3> QED BY <3>1, <3>2, <3>3, ErrandGoesOn
  <2> QED BY <1>7, <2>1, <2>2 DEF NextAppointment
<1> QED BY <1>3, <1>4, <1>5, <1>6, <1>7 DEF MoveAppointment, Cancel

LEMMA ErrandStepTyped ==
  ASSUME ErrandsTyped, NEW h \in Hook, ErrandStepOf(h)
  PROVE  errand' \in [Hook -> Errand] /\ \A g \in Hook : Instructed(errand'[g])
<1>1. CASE CreateReminder(h) \/ Confirm(h) \/ CreateSession(h) \/ ClearLapsed(h) \/ ErrandFails(h)
  BY <1>1, ErrandGoes DEF CreateReminder, Confirm, CreateSession, ClearLapsed, ErrandFails
<1>2. CASE DropSession(h)
  BY <1>2, ErrandGoes DEF DropSession
<1> QED BY <1>1, <1>2, SelectTyped, LookUpTyped, RemindersTyped, DiaryErrandsTyped DEF ErrandStepOf

RowRecord == [appt : Appt \cup {NoAppt}, at : Time \cup {0}, st : RowStatus]

LEMMA RowUpdates ==
  ASSUME reminders \in [Row -> RowRecord], NEW r \in Row, NEW s \in RowStatus
  PROVE  [reminders EXCEPT ![r].st = s] \in [Row -> RowRecord]
<1> DEFINE x == [reminders[r] EXCEPT !.st = s]
<1>1. x \in RowRecord
  BY DEF RowRecord
<1>2. [reminders EXCEPT ![r].st = s] = [reminders EXCEPT ![r] = x]
  OBVIOUS
<1> HIDE DEF x
<1> QED BY <1>1, <1>2

SessionRecord == [key : Nat, appt : Appt, offered : Seq(Time)]

\* The rows of the database keep their types.
RecordsTyped ==
  /\ appt \in [Appt -> [at : Time, st : ApptStatus]]
  /\ reminders \in [Row -> RowRecord]
  /\ sessions \in Seq(SessionRecord)
  /\ issued \in Nat /\ lapsed \in BOOLEAN /\ blurred \in BOOLEAN

LEMMA RecordsOfErrands ==
  ASSUME ErrandsTyped, NEW h \in Hook, ErrandStepOf(h)
  PROVE  RecordsTyped' /\ UNCHANGED <<busy, hour>> /\ diary' \in [Diary -> Nat]
<1> DEFINE a == errand[h].appt
           t == errand[h].time
<1>0. RecordsTyped /\ errand[h] \in Errand /\ Instructed(errand[h]) /\ diary \in [Diary -> Nat]
  BY DEF ErrandsTyped, ReschedulingTypeOK, RecordsTyped, RowRecord, SessionRecord
<1>1. CASE UNCHANGED <<apptVars, diaryVars, blurred>>
  BY <1>0, <1>1 DEF RecordsTyped, apptVars, diaryVars
<1>2. CASE MoveAppointment(h) \/ Confirm(h) \/ Cancel(h)
  <2>1. a \in Appt /\ t \in Time \cup {0} /\ (MoveAppointment(h) => t \in Time)
    BY <1>0, <1>2 DEF MoveAppointment, Confirm, Cancel, Instructed, Errand
  <2>2. UNCHANGED <<reminders, sessions, issued, lapsed, diaryVars, blurred>>
    BY <1>2 DEF MoveAppointment, Confirm, Cancel
  <2>3. \/ t \in Time /\ appt' = [appt EXCEPT ![a] = [at |-> t, st |-> "SCHEDULED"]]
        \/ \E st \in {"CONFIRMED", "CANCELLED"} : appt' = [appt EXCEPT ![a].st = st]
    BY <1>2, <2>1 DEF MoveAppointment, Confirm, Cancel
  <2> HIDE DEF a, t
  <2>4. appt' \in [Appt -> [at : Time, st : ApptStatus]]
    BY <1>0, <2>1, <2>3 DEF RecordsTyped, ApptStatus
  <2> QED BY <1>0, <2>2, <2>4 DEF RecordsTyped, diaryVars
<1>3. ASSUME NEW r \in Row, RemoveReminder(h, r)
      PROVE  RecordsTyped' /\ UNCHANGED <<busy, hour, diary>>
  <2>1. reminders' = reminders \/ reminders' = [reminders EXCEPT ![r].st = "CANCELLED"]
    BY <1>3 DEF RemoveReminder
  <2>2. reminders' \in [Row -> RowRecord]
    BY <1>0, <2>1, RowUpdates DEF RecordsTyped, RowStatus
  <2>3. UNCHANGED <<appt, sessions, issued, lapsed, diaryVars>>
    BY <1>3 DEF RemoveReminder
  <2>4. blurred' \in BOOLEAN
    BY <1>0, <1>3 DEF RemoveReminder, RecordsTyped
  <2> QED BY <1>0, <2>2, <2>3, <2>4 DEF RecordsTyped, diaryVars
<1>4. CASE CreateReminder(h)
  <2>1. a \in Appt /\ t \in Time \cup {0}
    BY <1>0, <1>4 DEF CreateReminder, Instructed, Errand
  <2>2. \E r \in Row : reminders' = [reminders EXCEPT ![r] = [appt |-> a, at |-> t, st |-> "PENDING"]]
    BY <1>4 DEF CreateReminder
  <2> HIDE DEF a, t
  <2>3. reminders' \in [Row -> RowRecord]
    BY <1>0, <2>1, <2>2 DEF RecordsTyped, RowRecord, RowStatus
  <2> QED BY <1>0, <1>4, <2>3 DEF CreateReminder, RecordsTyped, diaryVars
<1>5. CASE DropSession(h)
  <2>1. UNCHANGED sessions \/ \E i \in DOMAIN sessions : sessions' = RemoveAt(sessions, i)
    BY <1>5 DEF DropSession
  <2>2. sessions' \in Seq(SessionRecord)
    BY <1>0, <2>1, RestTyped DEF RecordsTyped
  <2> QED BY <1>0, <1>5, <2>2 DEF DropSession, RecordsTyped, diaryVars
<1>6. CASE ClearSessions(h)
  BY <1>0, <1>6 DEF ClearSessions, RecordsTyped, diaryVars
<1>7. CASE CreateSession(h)
  <2> DEFINE s == [key |-> issued + 1, appt |-> a, offered |-> errand[h].offered]
  <2>1. s \in SessionRecord
    BY <1>0, <1>7 DEF CreateSession, Instructed, Errand, RecordsTyped, SessionRecord
  <2>2. sessions' = Append(sessions, s)
    BY <1>7 DEF CreateSession
  <2> HIDE DEF s
  <2>3. sessions' \in Seq(SessionRecord)
    BY <1>0, <2>1, <2>2 DEF RecordsTyped
  <2> QED BY <1>0, <1>7, <2>3 DEF CreateSession, RecordsTyped, diaryVars
<1>8. CASE MarkLapsed(h) \/ ClearLapsed(h)
  BY <1>0, <1>8 DEF MarkLapsed, ClearLapsed, RecordsTyped, diaryVars
<1>9. CASE ErrandFails(h)
  <2>1. diary["errandfault"] > 0 /\ diary' = [diary EXCEPT !["errandfault"] = @ - 1]
    BY <1>9 DEF ErrandFails, Happens
  <2>2. diary' \in [Diary -> Nat]
    BY <1>0, <2>1 DEF Diary
  <2>3. UNCHANGED <<apptVars, busy, hour>> /\ blurred' \in BOOLEAN
    BY <1>9 DEF ErrandFails
  <2> QED BY <1>0, <2>2, <2>3 DEF RecordsTyped, apptVars
<1> QED BY <1>0, <1>1, <1>2, <1>3, <1>4, <1>5, <1>6, <1>7, <1>8, <1>9
        DEF ErrandStepOf, Select, ReadReminders, RemovedAll, ScheduleReminder, LookUp, FindSlots,
            NextAppointment, diaryVars

LEMMA RecordsOfDiary ==
  ASSUME ErrandsTyped, DiaryStep
  PROVE  RecordsTyped' /\ busy' \subseteq Time /\ hour' \in Nat /\ diary' \in [Diary -> Nat]
         /\ UNCHANGED errand
<1>0. RecordsTyped /\ diary \in [Diary -> Nat] /\ busy \subseteq Time /\ hour \in Nat
  BY DEF ErrandsTyped, ReschedulingTypeOK, RecordsTyped, RowRecord, SessionRecord
<1>1. diary' \in [Diary -> Nat] /\ UNCHANGED errand
  BY <1>0 DEF DiaryStep, TimePasses, SessionsExpire, BookedElsewhere, HoldReminder, SendReminder,
              DashboardUpdate, Happens, diaryVars
<1>2. CASE TimePasses \/ SessionsExpire \/ \E t \in Time : BookedElsewhere(t)
  <2>1. /\ UNCHANGED <<appt, reminders, issued, lapsed, blurred>>
        /\ UNCHANGED sessions \/ sessions' = <<>>
    BY <1>2 DEF TimePasses, SessionsExpire, BookedElsewhere, apptVars
  <2>2. busy' \subseteq Time /\ hour' \in Nat
    BY <1>0, <1>2 DEF TimePasses, SessionsExpire, BookedElsewhere
  <2>3. sessions' \in Seq(SessionRecord)
    <3>1. sessions \in Seq(SessionRecord)
      BY <1>0 DEF RecordsTyped
    <3>2. <<>> \in Seq(SessionRecord)
      OBVIOUS
    <3> QED BY <2>1, <3>1, <3>2
  <2> QED BY <1>0, <1>1, <2>1, <2>2, <2>3 DEF RecordsTyped
<1>3. ASSUME NEW r \in Row, HoldReminder(r) \/ SendReminder(r)
      PROVE  RecordsTyped' /\ UNCHANGED <<busy, hour>>
  <2>1. PICK st \in {"HELD", "SENT"} : reminders' = [reminders EXCEPT ![r].st = st]
    BY <1>3 DEF HoldReminder, SendReminder
  <2>2. reminders' \in [Row -> RowRecord]
    <3>1. st \in RowStatus /\ reminders \in [Row -> RowRecord]
      BY <1>0 DEF RecordsTyped, RowStatus
    <3>2. [reminders EXCEPT ![r].st = st] \in [Row -> RowRecord]
      BY <3>1, RowUpdates
    <3> QED BY <2>1, <3>2
  <2> QED BY <1>0, <1>3, <2>2 DEF HoldReminder, SendReminder, RecordsTyped, diaryVars
<1>4. ASSUME NEW a \in Appt, NEW t \in Time, NEW st \in ApptStatus, DashboardUpdate(a, t, st)
      PROVE  RecordsTyped' /\ UNCHANGED <<busy, hour>>
  <2>1. appt' \in [Appt -> [at : Time, st : ApptStatus]]
    BY <1>0, <1>4 DEF DashboardUpdate, RecordsTyped
  <2> QED BY <1>0, <1>4, <2>1 DEF DashboardUpdate, RecordsTyped
<1> QED BY <1>0, <1>1, <1>2, <1>3, <1>4 DEF DiaryStep

LEMMA ErrandsStep == ErrandsTyped /\ [InboundNext]_allVars => ErrandsTyped'
<1> SUFFICES ASSUME ErrandsTyped, [InboundNext]_allVars PROVE ErrandsTyped'
  OBVIOUS
<1>0. /\ RecordsTyped /\ diary \in [Diary -> Nat] /\ busy \subseteq Time /\ hour \in Nat
      /\ errand \in [Hook -> Errand] /\ \A h \in Hook : Instructed(errand[h])
  BY DEF ErrandsTyped, ReschedulingTypeOK, RecordsTyped, RowRecord, SessionRecord
<1>1. SUFFICES /\ RecordsTyped' /\ diary' \in [Diary -> Nat] /\ busy' \subseteq Time /\ hour' \in Nat
               /\ errand' \in [Hook -> Errand] /\ \A h \in Hook : Instructed(errand'[h])
  BY DEF ErrandsTyped, ReschedulingTypeOK, RecordsTyped, RowRecord, SessionRecord
<1>2. CASE UNCHANGED reschedulingVars
  BY <1>0, <1>2 DEF reschedulingVars, RecordsTyped
<1>3. CASE DiaryStep
  BY <1>0, <1>3, RecordsOfDiary
<1>4. ASSUME NEW h \in Hook, ErrandStepOf(h)
      PROVE  /\ RecordsTyped' /\ diary' \in [Diary -> Nat] /\ busy' \subseteq Time /\ hour' \in Nat
             /\ errand' \in [Hook -> Errand] /\ \A g \in Hook : Instructed(errand'[g])
  BY <1>0, <1>4, RecordsOfErrands, ErrandStepTyped
<1>5. ASSUME NEW h \in Hook, Hurried(h)
      PROVE  errand' \in [Hook -> Errand] /\ (\A g \in Hook : Instructed(errand'[g]))
             /\ UNCHANGED <<apptVars, diaryVars, blurred>>
  BY <1>5, ErrandGoes, ErrandTurns, ErrandTyped DEF Hurried
<1>6. ASSUME NEW h \in Hook, NEW l \in {"stop", "start", "select", "confirm", "cancel", "offer"},
             NEW p \in 0..3, Begin(h, l, p)
      PROVE  errand' \in [Hook -> Errand] /\ (\A g \in Hook : Instructed(errand'[g]))
             /\ UNCHANGED <<apptVars, diaryVars>> /\ blurred' \in BOOLEAN
  <2> DEFINE e == [NoErrand EXCEPT !.at = l, !.pick = p]
  <2>1. e \in Errand /\ e.at = l
    <3>1. NoErrand \in Errand /\ l \in ErrandStep /\ p \in Nat
      BY ErrandTyped DEF ErrandStep
    <3> QED BY <3>1 DEF Errand
  <2>2. Set(h, e) /\ blurred' \in BOOLEAN /\ UNCHANGED <<apptVars, diaryVars>>
    BY <1>0, <1>6 DEF Begin, RecordsTyped
  <2> HIDE DEF e
  <2>3. Instructed(e)
    BY <2>1 DEF Instructed
  <2> QED BY <2>1, <2>2, <2>3, ErrandTurns
<1>7. ASSUME UNCHANGED <<apptVars, diaryVars>>, blurred' \in BOOLEAN
      PROVE  RecordsTyped' /\ UNCHANGED <<diary, busy, hour>>
  BY <1>0, <1>7 DEF RecordsTyped, apptVars, diaryVars
<1>8. blurred \in BOOLEAN
  BY <1>0 DEF RecordsTyped
<1> QED BY <1>0, <1>2, <1>3, <1>4, <1>5, <1>6, <1>7, <1>8, ErrandMoves

-----------------------------------------------------------------------------
(* The reminders of an appointment. *)

\* An appointment is in order, or the errand that moves or cancels it still owes it
\* its reminders.
Neat(a) ==
  /\ \A r \in Pending(a) : reminders[r].at = appt[a].at
  /\ \A q, r \in Pending(a) : q = r
  /\ appt[a].st = "CANCELLED" => Pending(a) = {}

Owes(e, a) ==
  /\ e.appt = a
  /\ \/ e.at \in {"read", "remove"} /\ e.then # "next"
     \/ e.at \in {"schedule", "row"}

\* What such an errand may rely on.
Reminded(e) ==
  /\ e.at = "remove" => Pending(e.appt) \subseteq e.list
  /\ e.at \in {"read", "remove"} /\ e.then = "schedule" => appt[e.appt].st # "CANCELLED"
  /\ e.at \in {"schedule", "row"} => Pending(e.appt) = {} /\ appt[e.appt].st # "CANCELLED"
  /\ e.at = "row" => e.time = appt[e.appt].at

Tidy ==
  ~blurred =>
    /\ \A g, h \in Hook : ~Idle(g) /\ ~Idle(h) => g = h
    /\ \A h \in Hook : ~Idle(h) => Reminded(errand[h])
    /\ \A a \in Appt : Neat(a) \/ \E h \in Hook : Owes(errand[h], a)

\* The errand of h is the only one, and takes its next step.
LEMMA TidyTurn ==
  ASSUME Tidy, ErrandsTyped, ~blurred, NEW h \in Hook, ~Idle(h), NEW e, Set(h, e), Reminded(e)',
         \A a \in Appt : Neat(a)' \/ Owes(e, a)
  PROVE  Tidy'
<1>1. errand \in [Hook -> Errand]
  BY DEF ErrandsTyped, ReschedulingTypeOK
<1>2. errand'[h] = e /\ \A g \in Hook \ {h} : errand'[g] = errand[g] /\ errand[g].at = "idle"
  BY <1>1 DEF Set, Tidy, Idle
<1>3. \A f, g \in Hook : ~Idle(f)' /\ ~Idle(g)' => f = g
  BY <1>2 DEF Idle
<1>4. \A g \in Hook : ~Idle(g)' => Reminded(errand[g])'
  <2>1. \A g \in Hook : ~Idle(g)' => g = h
    BY <1>2 DEF Idle
  <2>2. Reminded(errand[h])'
    BY <1>2 DEF Reminded
  <2> QED BY <2>1, <2>2
<1>5. \A a \in Appt : Neat(a)' \/ \E g \in Hook : Owes(errand'[g], a)
  BY <1>2
<1> QED BY <1>3, <1>4, <1>5 DEF Tidy

LEMMA TidyNow ==
  ASSUME Tidy, ~blurred, NEW h \in Hook, ~Idle(h)
  PROVE  Reminded(errand[h]) /\ \A a \in Appt : Neat(a) \/ Owes(errand[h], a)
<1>1. \A g \in Hook \ {h} : errand[g].at = "idle"
  BY DEF Tidy, Idle
<1>2. \A g \in Hook \ {h}, a \in Appt : ~Owes(errand[g], a)
  BY <1>1 DEF Owes
<1> QED BY <1>2 DEF Tidy

\* What is in order stays in order while reminders only leave the list.
LEMMA NeatStays ==
  ASSUME UNCHANGED appt, NEW a, Neat(a), Pending(a)' \subseteq Pending(a),
         \A r \in Pending(a) : reminders'[r].at = reminders[r].at
  PROVE  Neat(a)'
<1> HIDE DEF Pending
<1> QED BY DEF Neat

LEMMA PendingStays == UNCHANGED reminders => \A a : Pending(a)' = Pending(a)
BY DEF Pending

LEMMA NeatUnchanged == UNCHANGED <<appt, reminders>> => \A a : Neat(a) => Neat(a)'
BY DEF Neat, Pending

\* An errand that has nothing to do with reminders yet, or any more.
LEMMA TidyElsewhere ==
  ASSUME Tidy, ErrandsTyped, ~blurred, NEW h \in Hook, ~Idle(h), NEW e, Set(h, e),
         UNCHANGED <<appt, reminders>>,
         errand[h].at \notin {"read", "remove", "schedule", "row"},
         e.at \notin {"remove", "schedule", "row"}, e.at = "read" => e.then = "next"
  PROVE  Tidy'
<1>1. \A a \in Appt : Neat(a)
  BY TidyNow DEF Owes
<1>2. \A a \in Appt : Neat(a)'
  BY <1>1, NeatUnchanged
<1>3. Reminded(e)'
  BY DEF Reminded
<1> QED BY <1>2, <1>3, TidyTurn

LEMMA TidyErrands ==
  ASSUME Tidy, ErrandsTyped, ~blurred, NEW h \in Hook,
         \/ Select(h) \/ DropSession(h) \/ FindSlots(h) \/ ClearSessions(h) \/ CreateSession(h)
         \/ MarkLapsed(h) \/ NextAppointment(h) \/ ClearLapsed(h) \/ Hurried(h)
         \/ LookUp(h, "confirm", {"SCHEDULED"}, "confirming") \/ LookUp(h, "cancel", Open, "cancelling")
         \/ LookUp(h, "offer", Open, "slots")
  PROVE  Tidy'
<1>1. errand[h] \in Errand /\ Instructed(errand[h])
  BY DEF ErrandsTyped, ReschedulingTypeOK
<1>2. /\ UNCHANGED <<appt, reminders>>
      /\ errand[h].at \notin {"read", "remove", "schedule", "row", "idle"}
  BY DEF Select, DropSession, FindSlots, ClearSessions, CreateSession, MarkLapsed, NextAppointment,
         ClearLapsed, Hurried, LookUp, apptVars
<1>3. ASSUME NEW l \in {"nosession", "done", "fail", "confirm", "cancel", "offer", "create"}, Goto(h, l)
      PROVE  Tidy'
  <2>1. PICK e : e = [errand[h] EXCEPT !.at = l]
    OBVIOUS
  <2>2. e.at = l
    BY <1>1, <2>1 DEF Errand
  <2>3. Set(h, e)
    BY <1>3, <2>1 DEF Goto
  <2> QED BY <1>2, <2>2, <2>3, TidyElsewhere DEF Idle
<1>4. CASE DropSession(h) \/ ClearSessions(h) \/ CreateSession(h) \/ ClearLapsed(h)
  BY <1>3, <1>4 DEF DropSession, ClearSessions, CreateSession, ClearLapsed
<1>5. CASE Hurried(h)
  <2>1. CASE Set(h, NoErrand)
    BY <1>2, <2>1, TidyElsewhere DEF Idle, NoErrand
  <2> QED BY <1>3, <1>5, <2>1 DEF Hurried
<1>6. CASE Select(h)
  <2>1. \/ Goto(h, "nosession") \/ Goto(h, "done")
        \/ \E a, t, k : Set(h, [errand[h] EXCEPT !.at = "move", !.appt = a, !.time = t, !.key = k])
    BY <1>6 DEF Select
  <2>2. ASSUME NEW a, NEW t, NEW k,
               Set(h, [errand[h] EXCEPT !.at = "move", !.appt = a, !.time = t, !.key = k])
        PROVE  Tidy'
    <3>1. PICK e : e = [errand[h] EXCEPT !.at = "move", !.appt = a, !.time = t, !.key = k]
      OBVIOUS
    <3>2. e.at = "move"
      BY <1>1, <3>1 DEF Errand
    <3>3. Set(h, e)
      BY <2>2, <3>1
    <3> QED BY <1>2, <3>2, <3>3, TidyElsewhere DEF Idle
  <2> QED BY <1>3, <2>1, <2>2
<1>7. ASSUME NEW l \in {"confirming", "cancelling", "slots"}, NEW S, NEW k, LookUp(h, k, S, l)
      PROVE  Tidy'
  <2>1. ASSUME NEW a, Set(h, [errand[h] EXCEPT !.at = l, !.appt = a])
        PROVE  Tidy'
    <3>1. PICK e : e = [errand[h] EXCEPT !.at = l, !.appt = a]
      OBVIOUS
    <3>2. e.at = l
      BY <1>1, <3>1 DEF Errand
    <3>3. Set(h, e)
      BY <2>1, <3>1
    <3> QED BY <1>2, <3>2, <3>3, TidyElsewhere DEF Idle
  <2> QED BY <1>3, <1>7, <2>1 DEF LookUp
<1>8. CASE FindSlots(h)
  <2>1. PICK s, l : l \in {"done", "clear"} /\ Set(h, [errand[h] EXCEPT !.at = l, !.offered = s])
    BY <1>8 DEF FindSlots
  <2>2. PICK e : e = [errand[h] EXCEPT !.at = l, !.offered = s]
    OBVIOUS
  <2>3. e.at = l
    BY <1>1, <2>2 DEF Errand
  <2>4. Set(h, e)
    BY <2>1, <2>2
  <2> QED BY <1>2, <2>1, <2>3, <2>4, TidyElsewhere DEF Idle
<1>9. CASE MarkLapsed(h)
  <2>1. Goto(h, "done") \/ \E T : Set(h, [errand[h] EXCEPT !.at = "next", !.then = "next", !.todo = T])
    BY <1>9 DEF MarkLapsed, Goto
  <2>2. ASSUME NEW T, Set(h, [errand[h] EXCEPT !.at = "next", !.then = "next", !.todo = T])
        PROVE  Tidy'
    <3>1. PICK e : e = [errand[h] EXCEPT !.at = "next", !.then = "next", !.todo = T]
      OBVIOUS
    <3>2. e.at = "next"
      BY <1>1, <3>1 DEF Errand
    <3>3. Set(h, e)
      BY <2>2, <3>1
    <3> QED BY <1>2, <3>2, <3>3, TidyElsewhere DEF Idle
  <2> QED BY <1>3, <2>1, <2>2
<1>10. CASE NextAppointment(h)
  <2>1. ASSUME NEW a, Set(h, [errand[h] EXCEPT !.at = "read", !.appt = a, !.todo = @ \ {a}])
        PROVE  Tidy'
    <3>1. PICK e : e = [errand[h] EXCEPT !.at = "read", !.appt = a, !.todo = @ \ {a}]
      OBVIOUS
    <3>2. e.at = "read" /\ e.then = "next"
      BY <1>1, <1>10, <3>1 DEF Errand, Instructed, NextAppointment
    <3>3. Set(h, e)
      BY <2>1, <3>1
    <3> QED BY <1>2, <3>2, <3>3, TidyElsewhere DEF Idle
  <2> QED BY <1>3, <1>10, <2>1 DEF NextAppointment
<1> QED BY <1>4, <1>5, <1>6, <1>7, <1>8, <1>9, <1>10

LEMMA TidyMoves ==
  ASSUME Tidy, ErrandsTyped, ~blurred, NEW h \in Hook, MoveAppointment(h) \/ Cancel(h) \/ Confirm(h)
  PROVE  Tidy'
<1>0. PICK a : a = errand[h].appt
  OBVIOUS
<1>1. errand[h] \in Errand /\ Instructed(errand[h]) /\ appt \in [Appt -> [at : Time, st : ApptStatus]]
  BY DEF ErrandsTyped, ReschedulingTypeOK
<1>2. a \in Appt /\ ~Idle(h) /\ UNCHANGED reminders
  BY <1>0, <1>1 DEF MoveAppointment, Cancel, Confirm, Instructed, Idle
<1>3. \A b \in Appt : Neat(b)
  BY <1>0, <1>2, TidyNow DEF Owes, MoveAppointment, Cancel, Confirm
<1>4. /\ \A b \in Appt \ {a} : appt'[b] = appt[b]
      /\ MoveAppointment(h) => appt'[a].st = "SCHEDULED"
      /\ Confirm(h) => appt'[a] = [at |-> appt[a].at, st |-> "CONFIRMED"]
  BY <1>0, <1>1, <1>2 DEF MoveAppointment, Cancel, Confirm
<1>5. \A b : Pending(b)' = Pending(b)
  BY <1>0, <1>2, PendingStays
<1>6. \A b \in Appt \ {a} : Neat(b)'
  <2> HIDE DEF Pending
  <2> QED BY <1>0, <1>2, <1>3, <1>4, <1>5 DEF Neat
<1>7. CASE Confirm(h)
  <2>1. PICK e : e = [errand[h] EXCEPT !.at = "done"]
    OBVIOUS
  <2>2. e.at = "done" /\ Set(h, e)
    BY <1>0, <1>1, <1>7, <2>1 DEF Errand, Confirm, Goto
  <2>3. Neat(a)'
    <3>1. Neat(a) /\ appt'[a].at = appt[a].at /\ appt'[a].st # "CANCELLED"
      BY <1>0, <1>2, <1>3, <1>4, <1>7
    <3> HIDE DEF Pending
    <3> QED BY <1>0, <1>2, <1>5, <3>1 DEF Neat
  <2>4. Reminded(e)'
    BY <2>2 DEF Reminded
  <2> QED BY <1>0, <1>2, <1>6, <2>2, <2>3, <2>4, TidyTurn
<1>8. ASSUME NEW n \in {"schedule", "done"}, Set(h, [errand[h] EXCEPT !.at = "read", !.then = n]),
             n = "schedule" => appt'[a].st # "CANCELLED"
      PROVE  Tidy'
  <2>1. PICK e : e = [errand[h] EXCEPT !.at = "read", !.then = n]
    OBVIOUS
  <2>2. e.at = "read" /\ e.then = n /\ e.appt = a
    BY <1>0, <1>1, <2>1 DEF Errand
  <2>3. Set(h, e)
    BY <1>8, <2>1
  <2>4. Reminded(e)'
    BY <1>8, <2>2 DEF Reminded
  <2>5. Owes(e, a)
    BY <2>2 DEF Owes
  <2> QED BY <1>0, <1>2, <1>6, <2>3, <2>4, <2>5, TidyTurn
<1> QED BY <1>4, <1>7, <1>8 DEF MoveAppointment, Cancel

\* Removing a row that is not there, or no longer waits, takes nothing from the
\* others.
LEMMA RowLeaves ==
  ASSUME reminders \in [Row -> RowRecord], NEW r \in Row, NEW st \in {"CANCELLED", "SENT"},
         reminders' = [reminders EXCEPT ![r].st = st]
  PROVE  /\ \A a : Pending(a)' = Pending(a) \ {r}
         /\ \A q \in Row : reminders'[q].at = reminders[q].at
<1>1. /\ reminders'[r].st = st /\ reminders'[r].at = reminders[r].at
      /\ \A q \in Row \ {r} : reminders'[q] = reminders[q]
  BY DEF RowRecord
<1>2. \A a : Pending(a)' = Pending(a) \ {r}
  BY <1>1 DEF Pending
<1> QED BY <1>1, <1>2

LEMMA TidyRemovals ==
  ASSUME Tidy, ErrandsTyped, ~blurred, NEW h \in Hook,
         ReadReminders(h) \/ RemovedAll(h) \/ (~blurred' /\ \E r \in Row : RemoveReminder(h, r))
  PROVE  Tidy'
<1>0. PICK a, n : a = errand[h].appt /\ n = errand[h].then
  OBVIOUS
<1>1. /\ errand[h] \in Errand /\ Instructed(errand[h]) /\ ~Idle(h) /\ errand[h].at \in {"read", "remove"}
      /\ UNCHANGED appt
  BY DEF ErrandsTyped, ReschedulingTypeOK, ReadReminders, RemovedAll, RemoveReminder, Idle, apptVars
<1>2. a \in Appt /\ n \in {"schedule", "done", "next"}
  BY <1>0, <1>1 DEF Instructed
<1>3. /\ Reminded(errand[h]) /\ \A b \in Appt : Neat(b) \/ Owes(errand[h], b)
  BY <1>0, <1>1, TidyNow
<1>4. /\ \A b \in Appt \ {a} : Neat(b)
      /\ n = "next" => Neat(a)
      /\ n = "schedule" => appt[a].st # "CANCELLED"
      /\ errand[h].at = "remove" => Pending(a) \subseteq errand[h].list
  <2> HIDE DEF Pending, Neat
  <2> QED BY <1>0, <1>1, <1>2, <1>3 DEF Owes, Reminded
<1>5. CASE ReadReminders(h)
  <2>1. PICK e : e = [errand[h] EXCEPT !.at = "remove", !.list = Pending(a)]
    OBVIOUS
  <2>2. e.at = "remove" /\ e.then = n /\ e.appt = a /\ e.list = Pending(a)
    <3> HIDE DEF Pending
    <3> QED BY <1>0, <1>1, <2>1 DEF Errand
  <2>3. Set(h, e) /\ UNCHANGED reminders
    BY <1>0, <1>5, <2>1 DEF ReadReminders, apptVars
  <2>4. \A b : Pending(b)' = Pending(b)
    BY <2>3, PendingStays
  <2>5. \A b \in Appt : Neat(b)' \/ Owes(e, b)
    BY <1>0, <1>1, <1>4, <2>2, <2>3, NeatUnchanged DEF Owes
  <2> HIDE DEF Pending
  <2>6. Reminded(e)'
    BY <1>0, <1>1, <1>4, <2>2, <2>4 DEF Reminded
  <2> QED BY <1>0, <1>1, <2>3, <2>5, <2>6, TidyTurn
<1>6. ASSUME NEW r \in Row, ~blurred', RemoveReminder(h, r)
      PROVE  Tidy'
  <2>1. PICK e : e = [errand[h] EXCEPT !.list = @ \ {r}]
    OBVIOUS
  <2>2. errand[h].at = "remove"
    BY <1>6 DEF RemoveReminder
  <2>3. e.at = "remove" /\ e.then = n /\ e.appt = a /\ e.list = errand[h].list \ {r}
    BY <1>0, <1>1, <2>1, <2>2 DEF Errand
  <2>4. Set(h, e) /\ reminders' = [reminders EXCEPT ![r].st = "CANCELLED"]
    BY <1>6, <2>1 DEF RemoveReminder
  <2>5. /\ \A b : Pending(b)' = Pending(b) \ {r} /\ Pending(b) \subseteq Row
        /\ \A q \in Row : reminders'[q].at = reminders[q].at
    BY <2>4, RowLeaves DEF ErrandsTyped, ReschedulingTypeOK, RowRecord, Pending
  <2> HIDE DEF Pending
  <2>6. \A b : Neat(b) => Neat(b)'
    BY <1>0, <1>1, <2>5, NeatStays
  <2>7. \A b \in Appt : Neat(b)' \/ Owes(e, b)
    BY <1>0, <1>2, <1>4, <2>3, <2>6 DEF Owes
  <2>8. Reminded(e)'
    BY <1>0, <1>1, <1>4, <2>2, <2>3, <2>5 DEF Reminded
  <2> QED BY <1>0, <1>1, <2>4, <2>7, <2>8, TidyTurn
<1>7. CASE RemovedAll(h)
  <2>1. PICK e : e = [errand[h] EXCEPT !.at = n]
    OBVIOUS
  <2>2. e.at = n /\ e.then = n /\ e.appt = a
    BY <1>0, <1>1, <2>1 DEF Errand
  <2>3. Set(h, e) /\ UNCHANGED reminders /\ Pending(a) = {}
    BY <1>0, <1>4, <1>7, <2>1 DEF RemovedAll, Goto, apptVars
  <2>4. \A b : Pending(b)' = Pending(b)
    BY <2>3, PendingStays
  <2> HIDE DEF Pending
  <2>5. Neat(a)'
    BY <2>3, <2>4 DEF Neat
  <2>6. \A b \in Appt : Neat(b)'
    BY <1>0, <1>1, <1>4, <2>3, <2>5, NeatUnchanged
  <2>7. Reminded(e)'
    BY <1>0, <1>1, <1>2, <1>4, <2>2, <2>3, <2>4 DEF Reminded
  <2> QED BY <1>0, <1>1, <2>3, <2>6, <2>7, TidyTurn
<1> QED BY <1>5, <1>6, <1>7

LEMMA TidySchedules ==
  ASSUME Tidy, ErrandsTyped, ~blurred, NEW h \in Hook, ScheduleReminder(h) \/ CreateReminder(h)
  PROVE  Tidy'
<1>0. PICK a : a = errand[h].appt
  OBVIOUS
<1>1. /\ errand[h] \in Errand /\ Instructed(errand[h]) /\ ~Idle(h) /\ errand[h].at \in {"schedule", "row"}
      /\ UNCHANGED appt /\ reminders \in [Row -> RowRecord]
  BY DEF ErrandsTyped, ReschedulingTypeOK, ScheduleReminder, CreateReminder, Idle, apptVars, RowRecord
<1>2. a \in Appt
  BY <1>0, <1>1 DEF Instructed
<1>3. /\ Reminded(errand[h]) /\ \A b \in Appt : Neat(b) \/ Owes(errand[h], b)
  BY <1>1, TidyNow
<1>4. /\ \A b \in Appt \ {a} : Neat(b)
      /\ Pending(a) = {} /\ appt[a].st # "CANCELLED"
      /\ errand[h].at = "row" => errand[h].time = appt[a].at
  <2> HIDE DEF Pending, Neat
  <2> QED BY <1>0, <1>1, <1>2, <1>3 DEF Owes, Reminded
<1>5. CASE ScheduleReminder(h)
  <2>1. UNCHANGED reminders /\ \A b : Pending(b)' = Pending(b)
    BY <1>5, PendingStays DEF ScheduleReminder, apptVars
  <2>2. Neat(a)'
    <3> HIDE DEF Pending
    <3> QED BY <1>4, <2>1 DEF Neat
  <2>3. \A b \in Appt : Neat(b)'
    BY <1>1, <1>4, <2>1, <2>2, NeatUnchanged
  <2>4. CASE Set(h, [errand[h] EXCEPT !.at = "drop"])
    <3>1. PICK e : e = [errand[h] EXCEPT !.at = "drop"]
      OBVIOUS
    <3>2. e.at = "drop"
      BY <1>1, <3>1 DEF Errand
    <3>3. Reminded(e)'
      BY <3>2 DEF Reminded
    <3> QED BY <1>1, <2>3, <2>4, <3>1, <3>3, TidyTurn
  <2>5. CASE Set(h, [errand[h] EXCEPT !.at = "row", !.time = appt[a].at])
    <3>1. PICK e : e = [errand[h] EXCEPT !.at = "row", !.time = appt[a].at]
      OBVIOUS
    <3>2. e.at = "row" /\ e.appt = a /\ e.time = appt[a].at
      BY <1>0, <1>1, <3>1 DEF Errand
    <3>3. Reminded(e)'
      <4> HIDE DEF Pending
      <4> QED BY <1>1, <1>4, <2>1, <3>2 DEF Reminded
    <3> QED BY <1>1, <2>3, <2>5, <3>1, <3>3, TidyTurn
  <2> QED BY <1>0, <1>5, <2>4, <2>5 DEF ScheduleReminder
<1>6. CASE CreateReminder(h)
  <2>1. PICK r \in Row : /\ reminders[r].st = "none"
                         /\ reminders' = [reminders EXCEPT ![r] = [appt |-> a, at |-> appt[a].at, st |-> "PENDING"]]
    BY <1>0, <1>4, <1>6 DEF CreateReminder
  <2>2. /\ reminders'[r] = [appt |-> a, at |-> appt[a].at, st |-> "PENDING"]
        /\ \A q \in Row \ {r} : reminders'[q] = reminders[q]
    BY <1>1, <2>1
  <2>3. /\ Pending(a)' = {r}
        /\ \A b \in Appt \ {a} : Pending(b)' = Pending(b) /\ r \notin Pending(b) /\ Pending(b) \subseteq Row
    BY <1>4, <2>1, <2>2 DEF Pending
  <2>4. Neat(a)'
    <3> HIDE DEF Pending
    <3> QED BY <1>1, <1>4, <2>2, <2>3 DEF Neat
  <2>5. \A b \in Appt \ {a} : Neat(b)'
    <3> HIDE DEF Pending
    <3> QED BY <1>1, <1>4, <2>2, <2>3, NeatStays
  <2>6. PICK e : e = [errand[h] EXCEPT !.at = "drop"]
    OBVIOUS
  <2>7. e.at = "drop" /\ Set(h, e)
    BY <1>1, <1>6, <2>6 DEF Errand, CreateReminder, Goto
  <2>8. Reminded(e)'
    BY <2>7 DEF Reminded
  <2> QED BY <1>1, <2>4, <2>5, <2>7, <2>8, TidyTurn
<1> QED BY <1>5, <1>6

LEMMA TidyDiary ==
  ASSUME Tidy, ErrandsTyped, ~blurred, ~blurred', DiaryStep
  PROVE  Tidy'
<1>1. UNCHANGED <<appt, errand>>
  BY DEF DiaryStep, TimePasses, SessionsExpire, BookedElsewhere, HoldReminder, SendReminder,
         DashboardUpdate, apptVars
<1>2. reminders \in [Row -> RowRecord]
  BY DEF ErrandsTyped, ReschedulingTypeOK, RowRecord
<1>3. /\ \A a : Pending(a)' \subseteq Pending(a)
      /\ \A q \in Row : reminders'[q].at = reminders[q].at
  <2>1. CASE UNCHANGED reminders
    BY <2>1, PendingStays
  <2>2. ASSUME NEW r \in Row, HoldReminder(r)
        PROVE  /\ \A a : Pending(a)' \subseteq Pending(a)
               /\ \A q \in Row : reminders'[q].at = reminders[q].at
    <3>1. reminders[r].st = "PENDING" /\ reminders' = [reminders EXCEPT ![r].st = "HELD"]
      BY <2>2 DEF HoldReminder
    <3>2. /\ reminders'[r].at = reminders[r].at /\ reminders'[r].appt = reminders[r].appt
          /\ \A q \in Row \ {r} : reminders'[q] = reminders[q]
      BY <1>2, <3>1 DEF RowRecord
    <3> QED BY <3>1, <3>2 DEF Pending
  <2>3. ASSUME NEW r \in Row, SendReminder(r)
        PROVE  /\ \A a : Pending(a)' \subseteq Pending(a)
               /\ \A q \in Row : reminders'[q].at = reminders[q].at
    BY <1>2, <2>3, RowLeaves DEF SendReminder
  <2> QED BY <2>1, <2>2, <2>3 DEF DiaryStep, TimePasses, SessionsExpire, BookedElsewhere,
                                  DashboardUpdate, apptVars
<1>4. \A a : Pending(a) \subseteq Row
  BY DEF Pending
<1>5. \A a : Neat(a) => Neat(a)'
  <2> HIDE DEF Pending
  <2> QED BY <1>1, <1>3, <1>4, NeatStays
<1>6. \A h \in Hook : Reminded(errand[h]) => Reminded(errand[h])'
  <2> HIDE DEF Pending
  <2>1. \A a : Pending(a) = {} => Pending(a)' = {}
    BY <1>3
  <2>2. \A h \in Hook : Pending(errand[h].appt)' \subseteq Pending(errand[h].appt)
    <3>1. ASSUME NEW h \in Hook
          PROVE  Pending(errand[h].appt)' \subseteq Pending(errand[h].appt)
      <4>1. PICK a : a = errand[h].appt
        OBVIOUS
      <4>2. a = errand'[h].appt
        BY <1>1, <4>1
      <4>3. Pending(errand[h].appt)' = Pending(a)'
        BY <4>2 DEF Pending
      <4> QED BY <1>3, <4>1, <4>3
    <3> QED BY <3>1
  <2>3. \A h \in Hook : Pending(errand[h].appt) = {} => Pending(errand[h].appt)' = {}
    BY <2>2
  <2> QED BY <1>1, <2>2, <2>3 DEF Reminded
<1> QED BY <1>1, <1>5, <1>6 DEF Tidy, Idle

LEMMA TidyStep == ErrandsTyped /\ Tidy /\ [InboundNext]_allVars => Tidy'
<1> SUFFICES ASSUME ErrandsTyped, Tidy, [InboundNext]_allVars, ~blurred' PROVE Tidy'
  BY DEF Tidy
<1>1. CASE UNCHANGED reschedulingVars
  <2>1. ~blurred /\ UNCHANGED <<appt, reminders, errand>>
    BY <1>1 DEF reschedulingVars
  <2> QED BY <2>1 DEF Tidy, Idle, Reminded, Neat, Pending
<1>2. ~blurred \/ UNCHANGED reschedulingVars
  <2>1. ASSUME NEW h \in Hook, ErrandStepOf(h) PROVE ~blurred
    BY <2>1 DEF ErrandStepOf, Select, MoveAppointment, ReadReminders, RemovedAll, RemoveReminder,
      ScheduleReminder, CreateReminder, DropSession, LookUp, Confirm, Cancel, FindSlots,
      ClearSessions, CreateSession, MarkLapsed, NextAppointment, ClearLapsed, ErrandFails
  <2>2. CASE DiaryStep
    BY <2>2 DEF DiaryStep, TimePasses, SessionsExpire, BookedElsewhere, HoldReminder,
      SendReminder, DashboardUpdate
  <2> QED BY <2>1, <2>2, ErrandMoves DEF Begin, Hurried
<1>3. ASSUME ~blurred, NEW h \in Hook, ErrandStepOf(h) PROVE Tidy'
  BY <1>3, TidyErrands, TidyMoves, TidyRemovals, TidySchedules DEF ErrandStepOf, ErrandFails
<1>4. ASSUME ~blurred, NEW h \in Hook, NEW l \in {"stop", "start", "select", "confirm", "cancel", "offer"},
             NEW p \in 0..3, Begin(h, l, p)
      PROVE  Tidy'
  <2>1. PICK e : e = [NoErrand EXCEPT !.at = l, !.pick = p]
    OBVIOUS
  <2>2. e.at = l
    BY <2>1 DEF NoErrand
  <2>3. errand' = [errand EXCEPT ![h] = e] /\ errand \in [Hook -> Errand]
    BY <1>4, <2>1 DEF Begin, Set, ErrandsTyped, ReschedulingTypeOK
  <2>4. \A g \in Hook : errand[g].at = "idle"
    BY <1>4 DEF Begin, Idle
  <2>5. \A a \in Appt : Neat(a)
    BY <1>4, <2>4 DEF Tidy, Owes
  <2>6. errand'[h] = e /\ \A g \in Hook \ {h} : errand'[g].at = "idle"
    BY <2>3, <2>4
  <2>7. UNCHANGED <<appt, reminders>>
    BY <1>4 DEF Begin, apptVars
  <2>8. \A a \in Appt : Neat(a)'
    BY <2>5, <2>7, NeatUnchanged
  <2>9. \A g \in Hook : ~Idle(g)' => g = h
    BY <2>6 DEF Idle
  <2>10. Reminded(errand[h])'
    BY <2>2, <2>6 DEF Reminded
  <2> QED BY <2>8, <2>9, <2>10 DEF Tidy
<1> QED BY <1>1, <1>2, <1>3, <1>4, TidyErrands, TidyDiary, ErrandMoves

LEMMA ErrandsInit == InboundInit => ErrandsTyped /\ Tidy
<1> SUFFICES ASSUME InboundInit PROVE ErrandsTyped /\ Tidy
  OBVIOUS
<1>1. /\ appt \in [Appt -> [at : Time, st : {"SCHEDULED"}]] /\ sessions = <<>> /\ issued = 0
      /\ lapsed = FALSE /\ busy = {} /\ hour = 0 /\ diary \in Diaries /\ blurred = FALSE
      /\ errand = [h \in Hook |-> NoErrand]
  BY DEF InboundInit, ReschedulingInit
<1>2. PICK f \in [Appt -> Row] :
        /\ IsInjective(f)
        /\ reminders = [r \in Row |->
             IF \E a \in Appt : f[a] = r
             THEN LET a == CHOOSE a \in Appt : f[a] = r
                  IN [appt |-> a, at |-> appt[a].at, st |-> "PENDING"]
             ELSE [appt |-> NoAppt, at |-> 0, st |-> "none"]]
  BY DEF InboundInit, ReschedulingInit
<1>3. \A r \in Row :
        \/ \E a \in Appt : f[a] = r /\ reminders[r] = [appt |-> a, at |-> appt[a].at, st |-> "PENDING"]
        \/ reminders[r] = [appt |-> NoAppt, at |-> 0, st |-> "none"]
  <2>1. ASSUME NEW r \in Row, NEW a \in Appt, f[a] = r
        PROVE  \E b \in Appt : f[b] = r /\ reminders[r] = [appt |-> b, at |-> appt[b].at, st |-> "PENDING"]
    <3>1. (CHOOSE b \in Appt : f[b] = r) \in Appt /\ f[CHOOSE b \in Appt : f[b] = r] = r
      BY <2>1
    <3>2. reminders[r] = LET b == CHOOSE b \in Appt : f[b] = r
                         IN [appt |-> b, at |-> appt[b].at, st |-> "PENDING"]
      BY <1>2, <2>1
    <3> QED BY <3>1, <3>2
  <2>2. ASSUME NEW r \in Row, ~\E a \in Appt : f[a] = r
        PROVE  reminders[r] = [appt |-> NoAppt, at |-> 0, st |-> "none"]
    BY <1>2, <2>2
  <2> QED BY <2>1, <2>2
<1>4. \A r \in Row : reminders[r] \in RowRecord
  <2>1. ASSUME NEW r \in Row, NEW a \in Appt,
               reminders[r] = [appt |-> a, at |-> appt[a].at, st |-> "PENDING"]
        PROVE  reminders[r] \in RowRecord
    <3>1. appt[a].at \in Time
      BY <1>1
    <3> QED BY <2>1, <3>1 DEF RowRecord, RowStatus
  <2>2. [appt |-> NoAppt, at |-> 0, st |-> "none"] \in RowRecord
    BY DEF RowRecord, RowStatus
  <2> QED BY <1>3, <2>1, <2>2
<1>5. reminders \in [Row -> RowRecord]
  <2>1. DOMAIN reminders = Row /\ reminders = [r \in Row |-> reminders[r]]
    BY <1>2
  <2> QED BY <1>4, <2>1
<1>6. appt \in [Appt -> [at : Time, st : ApptStatus]] /\ diary \in [Diary -> Nat]
  <2>1. appt \in [Appt -> [at : Time, st : ApptStatus]]
    BY <1>1 DEF ApptStatus
  <2> QED BY <1>1, <2>1, DiaryAssumption
<1>7. errand \in [Hook -> Errand] /\ \A h \in Hook : errand[h] = NoErrand
  BY <1>1, ErrandTyped
<1>8. sessions \in Seq([key : Nat, appt : Appt, offered : Seq(Time)])
  <2>1. <<>> \in Seq([key : Nat, appt : Appt, offered : Seq(Time)])
    OBVIOUS
  <2> QED BY <1>1, <2>1
<1>9. ErrandsTyped
  <2>1. ReschedulingTypeOK
    BY <1>1, <1>5, <1>6, <1>7, <1>8 DEF ReschedulingTypeOK, RowRecord
  <2> QED BY <1>7, <2>1, ErrandTyped DEF ErrandsTyped
<1>10. Tidy
  <2>1. \A h \in Hook : Idle(h)
    BY <1>7 DEF Idle, NoErrand
  <2>2. ASSUME NEW a \in Appt, NEW r \in Pending(a)
        PROVE  r = f[a] /\ reminders[r].at = appt[a].at
    <3>1. r \in Row /\ reminders[r].appt = a /\ reminders[r].st # "none"
      BY DEF Pending
    <3>2. reminders[r] # [appt |-> NoAppt, at |-> 0, st |-> "none"]
      BY ONLY <3>1
    <3>3. PICK b \in Appt : f[b] = r /\ reminders[r] = [appt |-> b, at |-> appt[b].at, st |-> "PENDING"]
      BY <1>3, <3>1, <3>2
    <3>4. b = a
      BY <3>1, <3>3
    <3> QED BY <3>3, <3>4
  <2>3. \A a \in Appt : appt[a].st = "SCHEDULED"
    BY <1>1
  <2>4. \A a \in Appt : Neat(a)
    <3> HIDE DEF Pending
    <3> QED BY <2>2, <2>3 DEF Neat
  <2> QED BY <2>1, <2>4 DEF Tidy
<1> QED BY <1>9, <1>10

LEMMA ErrandsAlways == InboundSpec => [](ErrandsTyped /\ Tidy)
BY ErrandsInit, ErrandsStep, TidyStep, PTL DEF InboundSpec

LEMMA TidySuffices == Tidy => RemindersMatch
<1> SUFFICES ASSUME Tidy, ~blurred, \A h \in Hook : errand[h].at \in {"idle", "done"}, NEW a \in Appt
             PROVE  /\ \A r \in Pending(a) : reminders[r].at = appt[a].at
                    /\ Cardinality(Pending(a)) <= 1
                    /\ appt[a].st = "CANCELLED" => Pending(a) = {}
  BY DEF RemindersMatch
<1>1. Neat(a)
  BY DEF Tidy, Owes
<1> HIDE DEF Pending
<1>2. Pending(a) = {} \/ \E r : Pending(a) = {r}
  BY <1>1 DEF Neat
<1>3. Cardinality(Pending(a)) <= 1
  <2>1. CASE Pending(a) = {}
    BY <2>1, FS_EmptySet
  <2>2. ASSUME NEW r, Pending(a) = {r} PROVE Cardinality(Pending(a)) <= 1
    <3>1. Cardinality({r}) = 1
      BY FS_Singleton
    <3> QED BY <2>2, <3>1
  <2> QED BY <1>2, <2>1, <2>2
<1> QED BY <1>1, <1>3 DEF Neat

\* Once the customer's errands have ended, run one by one with nothing failing, every
\* appointment has at most one reminder to be sent, for its present hour, and none
\* when it is cancelled: rescheduling, cancelling and opting out leave no stale one.
THEOREM RemindersAreMatched == InboundSpec => []RemindersMatch
BY TidySuffices, ErrandsAlways, PTL

-----------------------------------------------------------------------------
(* What every variable is. *)

PostTyped == acked \subseteq Msg /\ feedback \in BOOLEAN /\ deliveries \in [Msg -> Nat]

LEMMA PostStep == HooksTyped /\ PostTyped /\ [InboundNext]_allVars => PostTyped'
<1> SUFFICES ASSUME HooksTyped, PostTyped, [InboundNext]_allVars PROVE PostTyped'
  OBVIOUS
<1>1. ASSUME NEW h \in Hook, NEW m \in Msg, Deliver(h, m) PROVE PostTyped'
  BY <1>1 DEF Deliver, PostTyped
<1>2. ASSUME NEW h \in Hook, HookStepOf(h), \A m \in Msg : ~Deliver(h, m) PROVE PostTyped'
  <2>1. hook[h].at # "idle" \/ UNCHANGED acked
    BY <1>2 DEF HookStepOf, CheckDuplicate, LogInbound, LogLost, Route, AskFeedback, Rate,
      AskInvitation, QueueReply, AskSession, NoSession, ErrandOver, MarkContact, HookFails, inboundVars
  <2>2. UNCHANGED acked \/ acked' = acked \cup {hook[h].msg}
    BY <1>2 DEF HookStepOf, CheckDuplicate, LogInbound, LogLost, Route, AskFeedback, Rate,
      AskInvitation, QueueReply, AskSession, NoSession, ErrandOver, MarkContact, HookFails,
      inboundVars, Answered, Refused
  <2>3. acked' \subseteq Msg
    BY <2>1, <2>2 DEF HooksTyped, PostTyped
  <2>4. UNCHANGED deliveries /\ (UNCHANGED feedback \/ feedback' = FALSE)
    BY <1>2 DEF HookStepOf, CheckDuplicate, LogInbound, LogLost, Route, AskFeedback, Rate,
      AskInvitation, QueueReply, AskSession, NoSession, ErrandOver, MarkContact, HookFails, inboundVars
  <2> QED BY <2>3, <2>4 DEF PostTyped
<1>3. CASE UNCHANGED inboundVars
  BY <1>3 DEF inboundVars, PostTyped
<1> QED BY <1>1, <1>2, <1>3 DEF InboundNext, allVars

LEMMA PostInit == InboundInit => PostTyped
BY DEF InboundInit, PostTyped

LEMMA TypesSuffice ==
  HooksTyped /\ PostTyped /\ DesksTyped /\ DoorKept /\ GuestsTyped /\ AnswersCounted /\ ErrandsTyped
  => InboundTypeOK
BY DEF HooksTyped, PostTyped, DesksTyped, DoorKept, GuestsTyped, AnswersCounted, ErrandsTyped,
       InboundTypeOK, RsvpTypeOK

\* Every variable of the conversation keeps its type, the slots offered and the
\* sessions kept included.
THEOREM InboundTypes == InboundSpec => []InboundTypeOK
<1>1. InboundSpec => [](HooksTyped /\ PostTyped)
  BY PostInit, HooksInit, HooksStep, PostStep, PTL DEF InboundSpec
<1> QED BY <1>1, TypesSuffice, GuestsAlways, ErrandsAlways, PTL

-----------------------------------------------------------------------------
(* STOP. *)

\* A request runs an errand exactly while its handler waits for it.
Paired == \A h \in Hook : hook[h].at = "errand" <=> ~Idle(h)

\* The errand of a STOP, which nothing but a fault or a held reminder fails.
StopErrand(e) ==
  /\ e.at \in {"stop", "next", "read", "remove", "done"}
  /\ e.at # "stop" => lapsed
  /\ e.at \in {"read", "remove"} => e.then = "next"

LEMMA ErrandFields ==
  ASSUME NEW e \in Errand, NEW l, NEW a, NEW t, NEW k, NEW n, NEW L
  PROVE  /\ [e EXCEPT !.at = l].at = l /\ [e EXCEPT !.at = l].then = e.then
         /\ [e EXCEPT !.at = l, !.appt = a].at = l
         /\ [e EXCEPT !.at = l, !.appt = a, !.time = t, !.key = k].at = l
         /\ [e EXCEPT !.at = l, !.then = n].at = l
         /\ [e EXCEPT !.at = l, !.list = L].at = l /\ [e EXCEPT !.at = l, !.list = L].then = e.then
         /\ [e EXCEPT !.list = L].at = e.at /\ [e EXCEPT !.list = L].then = e.then
         /\ [e EXCEPT !.at = l, !.time = t].at = l
         /\ [e EXCEPT !.at = l, !.then = n, !.todo = L].at = l
         /\ [e EXCEPT !.at = l, !.appt = a, !.todo = L].at = l
         /\ [e EXCEPT !.at = l, !.appt = a, !.todo = L].then = e.then
BY DEF Errand

LEMMA SetGives ==
  ASSUME errand \in [Hook -> Errand], NEW h \in Hook, NEW e, Set(h, e)
  PROVE  errand'[h] = e
BY DEF Set

\* No errand leads back to the start of one, or to a START.
LEMMA ErrandOnward ==
  ASSUME ErrandsTyped, NEW h \in Hook, ErrandStepOf(h)
  PROVE  /\ errand'[h].at \notin {"start", "stop", "idle"} /\ errand[h].at # "idle"
         /\ \A g \in Hook \ {h} : errand'[g] = errand[g]
         /\ lapsed /\ errand[h].at # "start" => lapsed'
<1>0. errand \in [Hook -> Errand] /\ errand[h] \in Errand /\ Instructed(errand[h])
  BY DEF ErrandsTyped, ReschedulingTypeOK
<1>1. \A g \in Hook \ {h} : errand'[g] = errand[g]
  BY <1>0 DEF ErrandStepOf, Select, MoveAppointment, ReadReminders, RemovedAll, RemoveReminder,
    ScheduleReminder, CreateReminder, DropSession, LookUp, Confirm, Cancel, FindSlots,
    ClearSessions, CreateSession, MarkLapsed, NextAppointment, ClearLapsed, ErrandFails, Goto, Set
<1>2. lapsed /\ errand[h].at # "start" => lapsed'
  BY DEF ErrandStepOf, Select, MoveAppointment, ReadReminders, RemovedAll, RemoveReminder,
    ScheduleReminder, CreateReminder, DropSession, LookUp, Confirm, Cancel, FindSlots,
    ClearSessions, CreateSession, MarkLapsed, NextAppointment, ClearLapsed, ErrandFails, apptVars
<1>3. errand[h].at # "idle"
  BY DEF ErrandStepOf, Select, MoveAppointment, ReadReminders, RemovedAll, RemoveReminder,
    ScheduleReminder, CreateReminder, DropSession, LookUp, Confirm, Cancel, FindSlots,
    ClearSessions, CreateSession, MarkLapsed, NextAppointment, ClearLapsed, ErrandFails
<1> SUFFICES errand'[h].at \notin {"start", "stop", "idle"}
  BY <1>1, <1>2, <1>3
<1>4. ASSUME NEW l, Goto(h, l) PROVE errand'[h].at = l
  <2>1. PICK e : e = [errand[h] EXCEPT !.at = l]
    OBVIOUS
  <2>2. Set(h, e) /\ e.at = l
    BY <1>0, <1>4, <2>1, ErrandFields DEF Goto
  <2> QED BY <1>0, <2>2, SetGives
<1>5. CASE Select(h)
  <2>1. \/ Goto(h, "nosession") \/ Goto(h, "done")
        \/ \E a, t, k : Set(h, [errand[h] EXCEPT !.at = "move", !.appt = a, !.time = t, !.key = k])
    BY <1>5 DEF Select
  <2>2. ASSUME NEW a, NEW t, NEW k,
               Set(h, [errand[h] EXCEPT !.at = "move", !.appt = a, !.time = t, !.key = k])
        PROVE  errand'[h].at = "move"
    <3>1. PICK e : e = [errand[h] EXCEPT !.at = "move", !.appt = a, !.time = t, !.key = k]
      OBVIOUS
    <3>2. e.at = "move"
      BY <1>0, <3>1, ErrandFields
    <3> QED BY <1>0, <2>2, <3>1, <3>2, SetGives
  <2>3. CASE Goto(h, "nosession")
    BY <1>4, <2>3
  <2>4. CASE Goto(h, "done")
    BY <1>4, <2>4
  <2>5. CASE \E a, t, k : Set(h, [errand[h] EXCEPT !.at = "move", !.appt = a, !.time = t, !.key = k])
    BY <2>2, <2>5
  <2> QED BY <2>1, <2>3, <2>4, <2>5
<1>6. CASE MoveAppointment(h) \/ Cancel(h)
  <2>1. PICK n : Set(h, [errand[h] EXCEPT !.at = "read", !.then = n])
    BY <1>6 DEF MoveAppointment, Cancel
  <2>2. PICK e : e = [errand[h] EXCEPT !.at = "read", !.then = n]
    OBVIOUS
  <2>3. e.at = "read"
    BY <1>0, <2>2, ErrandFields
  <2>4. Set(h, e)
    BY <2>1, <2>2
  <2>5. errand'[h].at = "read"
    BY <1>0, <2>3, <2>4, SetGives
  <2> QED BY <2>5
<1>7. CASE RemovedAll(h)
  <2>1. PICK l : l = errand[h].then
    OBVIOUS
  <2>2. Goto(h, l) /\ l \in {"schedule", "done", "next"}
    BY <1>0, <1>7, <2>1 DEF RemovedAll, Instructed
  <2>3. errand'[h].at = l
    BY <1>4, <2>2
  <2> QED BY <2>2, <2>3
<1>8. ASSUME NEW r \in Row, RemoveReminder(h, r) PROVE errand'[h].at \in {"fail", "remove"}
  <2>1. PICK e : e = [errand[h] EXCEPT !.list = @ \ {r}]
    OBVIOUS
  <2>2. e.at = "remove"
    BY <1>0, <1>8, <2>1, ErrandFields DEF RemoveReminder
  <2>3. Goto(h, "fail") \/ Set(h, e)
    BY <1>8, <2>1 DEF RemoveReminder, Goto
  <2> QED BY <1>0, <1>4, <2>2, <2>3, SetGives
<1>9. CASE ReadReminders(h)
  <2>1. PICK L : Set(h, [errand[h] EXCEPT !.at = "remove", !.list = L])
    BY <1>9 DEF ReadReminders
  <2>2. PICK e : e = [errand[h] EXCEPT !.at = "remove", !.list = L]
    OBVIOUS
  <2>3. e.at = "remove"
    BY <1>0, <2>2, ErrandFields
  <2>4. Set(h, e)
    BY <2>1, <2>2
  <2>5. errand'[h].at = "remove"
    BY <1>0, <2>3, <2>4, SetGives
  <2> QED BY <2>5
<1>10. CASE ScheduleReminder(h)
  <2>1. PICK t : Goto(h, "drop") \/ Set(h, [errand[h] EXCEPT !.at = "row", !.time = t])
    BY <1>10 DEF ScheduleReminder, Goto
  <2>2. PICK e : e = [errand[h] EXCEPT !.at = "row", !.time = t]
    OBVIOUS
  <2>3. e.at = "row"
    BY <1>0, <2>2, ErrandFields
  <2>4. CASE Goto(h, "drop")
    BY <1>4, <2>4
  <2>5. CASE Set(h, [errand[h] EXCEPT !.at = "row", !.time = t])
    <3>1. Set(h, e)
      BY <2>2, <2>5
    <3>2. errand'[h].at = "row"
      BY <1>0, <2>3, <3>1, SetGives
    <3> QED BY <3>2
  <2> QED BY <2>1, <2>4, <2>5
<1>11. CASE FindSlots(h)
  <2>1. PICK s, l : l \in {"done", "clear"} /\ Set(h, [errand[h] EXCEPT !.at = l, !.offered = s])
    BY <1>11 DEF FindSlots
  <2>2. PICK e : e = [errand[h] EXCEPT !.at = l, !.offered = s]
    OBVIOUS
  <2>3. e.at = l
    BY <1>0, <2>2 DEF Errand
  <2>4. Set(h, e)
    BY <2>1, <2>2
  <2>5. errand'[h].at = l
    BY <1>0, <2>3, <2>4, SetGives
  <2> QED BY <2>1, <2>5
<1>12. CASE CreateReminder(h) \/ DropSession(h) \/ Confirm(h) \/ ClearSessions(h)
            \/ CreateSession(h) \/ ClearLapsed(h) \/ ErrandFails(h)
  <2>1. Goto(h, "drop") \/ Goto(h, "done") \/ Goto(h, "fail") \/ Goto(h, "create")
    BY <1>12 DEF CreateReminder, DropSession, Confirm, ClearSessions, CreateSession, ClearLapsed,
                 ErrandFails
  <2>2. ASSUME NEW l \in {"drop", "done", "fail", "create"}, Goto(h, l)
        PROVE  errand'[h].at \notin {"start", "stop", "idle"}
    BY <1>4, <2>2
  <2> QED BY <2>1, <2>2
<1>13. ASSUME NEW l \in {"confirming", "cancelling", "slots"}, NEW S, NEW k, LookUp(h, k, S, l)
       PROVE  errand'[h].at \in {"done", "confirming", "cancelling", "slots"}
  <2>1. ASSUME NEW a, Set(h, [errand[h] EXCEPT !.at = l, !.appt = a])
        PROVE  errand'[h].at = l
    <3>1. PICK e : e = [errand[h] EXCEPT !.at = l, !.appt = a]
      OBVIOUS
    <3>2. e.at = l
      BY <1>0, <3>1, ErrandFields
    <3> QED BY <1>0, <2>1, <3>1, <3>2, SetGives
  <2> QED BY <1>4, <1>13, <2>1 DEF LookUp
<1>14. CASE MarkLapsed(h)
  <2>1. PICK e, T : /\ \/ e = [errand[h] EXCEPT !.at = "done"]
                       \/ e = [errand[h] EXCEPT !.at = "next", !.then = "next", !.todo = T]
                    /\ Set(h, e)
    BY <1>14 DEF MarkLapsed
  <2>2. e.at \in {"next", "done"}
    BY <1>0, <2>1 DEF Errand
  <2> QED BY <1>0, <2>1, <2>2, SetGives
<1>15. CASE NextAppointment(h)
  <2>2. ASSUME NEW a, Set(h, [errand[h] EXCEPT !.at = "read", !.appt = a, !.todo = @ \ {a}])
        PROVE  errand'[h].at = "read"
    <3>1. PICK e : e = [errand[h] EXCEPT !.at = "read", !.appt = a, !.todo = @ \ {a}]
      OBVIOUS
    <3>2. e.at = "read"
      BY <1>0, <3>1 DEF Errand
    <3>3. Set(h, e)
      BY <2>2, <3>1
    <3> QED BY <1>0, <3>2, <3>3, SetGives
  <2>3. errand'[h].at \in {"done", "read"}
    <3>1. CASE Goto(h, "done")
      BY <1>4, <3>1
    <3> QED BY <1>15, <2>2, <3>1 DEF NextAppointment
  <2> QED BY <2>3
<1> QED BY <1>5, <1>6, <1>7, <1>8, <1>9, <1>10, <1>11, <1>12, <1>13, <1>14, <1>15 DEF ErrandStepOf

LEMMA StopGoesOn ==
  ASSUME ErrandsTyped, NEW h \in Hook, ErrandStepOf(h), ~blurred', StopErrand(errand[h])
  PROVE  StopErrand(errand[h])'
<1>0. errand \in [Hook -> Errand] /\ errand[h] \in Errand /\ Instructed(errand[h])
  BY DEF ErrandsTyped, ReschedulingTypeOK
<1>1. /\ errand[h].at \in {"stop", "next", "read", "remove"}
      /\ \/ MarkLapsed(h) \/ NextAppointment(h) \/ ReadReminders(h) \/ RemovedAll(h)
         \/ \E r \in Row : RemoveReminder(h, r)
  BY DEF StopErrand, ErrandStepOf, Select, MoveAppointment, ScheduleReminder, CreateReminder,
    DropSession, LookUp, Confirm, Cancel, FindSlots, ClearSessions, CreateSession, MarkLapsed,
    NextAppointment, ReadReminders, RemovedAll, RemoveReminder, ClearLapsed, ErrandFails
<1>2. lapsed'
  <2>1. MarkLapsed(h) \/ (UNCHANGED lapsed /\ errand[h].at # "stop")
    BY <1>1 DEF MarkLapsed, NextAppointment, ReadReminders, RemovedAll, RemoveReminder, apptVars
  <2> QED BY <2>1 DEF StopErrand, MarkLapsed
<1>3. \/ errand'[h].at \in {"next", "done"}
      \/ errand'[h].at \in {"read", "remove"} /\ errand'[h].then = "next"
  <2>1. CASE MarkLapsed(h)
    <3>1. PICK e, T : /\ \/ e = [errand[h] EXCEPT !.at = "done"]
                         \/ e = [errand[h] EXCEPT !.at = "next", !.then = "next", !.todo = T]
                      /\ Set(h, e)
      BY <2>1 DEF MarkLapsed
    <3>2. e.at \in {"next", "done"}
      BY <1>0, <3>1 DEF Errand
    <3>3. errand'[h] = e
      BY <1>0, <3>1, SetGives
    <3> QED BY <3>2, <3>3
  <2>2. CASE NextAppointment(h)
    <3>1. PICK e, a : /\ \/ e = [errand[h] EXCEPT !.at = "done"]
                         \/ e = [errand[h] EXCEPT !.at = "read", !.appt = a, !.todo = @ \ {a}]
                      /\ Set(h, e)
      BY <2>2 DEF NextAppointment, Goto
    <3>2. errand[h].then = "next"
      BY <1>0, <2>2 DEF NextAppointment, Instructed
    <3>3. e.at = "done" \/ (e.at = "read" /\ e.then = "next")
      BY <1>0, <3>1, <3>2 DEF Errand
    <3>4. errand'[h] = e
      BY <1>0, <3>1, SetGives
    <3> QED BY <3>3, <3>4
  <2>3. errand[h].at \in {"read", "remove"} => errand[h].then = "next"
    BY DEF StopErrand
  <2>4. CASE ReadReminders(h)
    <3> HIDE DEF Pending
    <3> QED BY <1>0, <2>3, <2>4 DEF ReadReminders, Set, Errand
  <2>5. CASE RemovedAll(h)
    BY <1>0, <2>3, <2>5 DEF RemovedAll, Goto, Set, Errand
  <2>6. ASSUME NEW r \in Row, RemoveReminder(h, r)
        PROVE  errand'[h].at = "remove" /\ errand'[h].then = "next"
    <3>1. Set(h, [errand[h] EXCEPT !.list = @ \ {r}]) /\ errand[h].at = "remove"
      BY <2>6 DEF RemoveReminder
    <3> QED BY <1>0, <2>3, <3>1 DEF Set, Errand
  <2> QED BY <1>1, <2>1, <2>2, <2>4, <2>5, <2>6
<1> QED BY <1>2, <1>3 DEF StopErrand

LEMMA PairedStep == HooksTyped /\ ErrandsTyped /\ Paired /\ [InboundNext]_allVars => Paired'
<1> SUFFICES ASSUME HooksTyped, ErrandsTyped, Paired, [InboundNext]_allVars PROVE Paired'
  OBVIOUS
<1>0. hook \in [Hook -> HookRecord] /\ errand \in [Hook -> Errand]
  BY DEF HooksTyped, ErrandsTyped, ReschedulingTypeOK
<1>1. ASSUME NEW h \in Hook, \A g \in Hook \ {h} : hook'[g] = hook[g] /\ errand'[g] = errand[g],
             hook'[h].at = "errand" <=> errand'[h].at # "idle"
      PROVE  Paired'
  BY <1>1 DEF Paired, Idle
<1>2. CASE UNCHANGED <<hook, errand>>
  BY <1>2 DEF Paired, Idle
<1>3. ASSUME NEW h \in Hook, ErrandStepOf(h), UNCHANGED inboundVars PROVE Paired'
  <2>1. hook'[h].at = "errand"
    BY <1>3, ErrandOnward DEF Paired, Idle, inboundVars
  <2> QED BY <1>1, <1>3, <2>1, ErrandOnward DEF inboundVars
<1>4. CASE DiaryStep /\ UNCHANGED inboundVars
  BY <1>2, <1>4, RecordsOfDiary DEF inboundVars
<1>5. ASSUME NEW h \in Hook, NEW k, k # "idle", NEW p,
             Begin(h, k, p), hook' = [hook EXCEPT ![h].at = "errand"]
      PROVE  Paired'
  <2>1. PICK e : e = [NoErrand EXCEPT !.at = k, !.pick = p]
    OBVIOUS
  <2>2. e.at = k /\ Set(h, e)
    BY <1>5, <2>1 DEF Begin, NoErrand
  <2>3. errand'[h] = e /\ \A g \in Hook \ {h} : errand'[g] = errand[g]
    BY <1>0, <2>2 DEF Set
  <2>4. hook'[h].at = "errand" /\ \A g \in Hook \ {h} : hook'[g] = hook[g]
    BY <1>0, <1>5 DEF HookRecord
  <2> QED BY <1>1, <1>5, <2>2, <2>3, <2>4
<1>6. ASSUME NEW h \in Hook, UNCHANGED errand, hook[h].at # "errand",
             NEW x, x.at # "errand", hook' = [hook EXCEPT ![h] = x]
      PROVE  Paired'
  <2>1. hook'[h] = x /\ \A g \in Hook \ {h} : hook'[g] = hook[g]
    BY <1>0, <1>6
  <2> QED BY <1>1, <1>6, <2>1 DEF Paired, Idle
<1>7. ASSUME NEW h \in Hook, UNCHANGED errand, hook[h].at # "errand",
             NEW l, l # "errand", Serve(h, l)
      PROVE  Paired'
  <2>1. hook'[h].at = l /\ \A g \in Hook \ {h} : hook'[g] = hook[g]
    BY <1>0, <1>7 DEF Serve, HookRecord
  <2> QED BY <1>1, <1>7, <2>1 DEF Paired, Idle
<1>8. FreeHook.at = "idle" /\ NoErrand.at = "idle"
  BY DEF FreeHook, NoErrand
<1>9. ASSUME NEW h \in Hook, Answered(h) \/ Refused(h), UNCHANGED errand, hook[h].at # "errand"
      PROVE  Paired'
  BY <1>6, <1>8, <1>9 DEF Answered, Refused
<1>10. ASSUME NEW h \in Hook, NEW m \in Msg, Deliver(h, m) PROVE Paired'
  <2>1. PICK x : /\ x = [at |-> IF inbox[m].via = "voice" THEN "route" ELSE "check", msg |-> m]
                 /\ hook' = [hook EXCEPT ![h] = x]
    BY <1>10 DEF Deliver
  <2> QED BY <1>6, <1>10, <2>1 DEF Deliver, reschedulingVars
<1>11. ASSUME NEW h \in Hook,
              CheckDuplicate(h) \/ LogInbound(h) \/ LogLost(h) \/ AskFeedback(h) \/ Rate(h)
              \/ AskInvitation(h) \/ QueueReply(h) \/ MarkContact(h) \/ HookFails(h)
       PROVE  Paired'
  <2>1. UNCHANGED errand /\ hook[h].at # "errand"
    BY <1>11 DEF CheckDuplicate, LogInbound, LogLost, AskFeedback, Rate, AskInvitation, QueueReply,
      MarkContact, HookFails, reschedulingVars
  <2>2. \/ Answered(h) \/ Refused(h)
        \/ \E l \in {"log", "route", "rate", "invited", "enqueue", "session"} : Serve(h, l)
    BY <1>11 DEF CheckDuplicate, LogInbound, LogLost, AskFeedback, Rate, AskInvitation, QueueReply,
      MarkContact, HookFails
  <2> QED BY <1>7, <1>9, <2>1, <2>2
<1>12. ASSUME NEW h \in Hook, NEW k \in {"stop", "start", "confirm", "cancel", "offer", "select"},
              NEW p, StartErrand(h, k, p)
       PROVE  Paired'
  <2>1. Begin(h, k, p) /\ hook' = [hook EXCEPT ![h].at = "errand"] /\ k # "idle"
    BY <1>12 DEF StartErrand, Serve
  <2> QED BY <1>5, <2>1
<1>13. \A t : Command(t) \in {"confirm", "cancel", "offer"}
  BY DEF Command
<1>14. ASSUME NEW h \in Hook, Route(h) PROVE Paired'
  <2>1. hook[h].at = "route"
    BY <1>14 DEF Route
  <2>2. \/ \E k \in {"stop", "start", Command(Said(h))} : StartErrand(h, k, 0)
        \/ UNCHANGED errand /\ (Answered(h) \/ \E l \in {"feedback", "invited", "session"} : Serve(h, l))
    BY <1>14 DEF Route, reschedulingVars
  <2> QED BY <1>7, <1>9, <1>12, <1>13, <2>1, <2>2
<1>15. ASSUME NEW h \in Hook, AskSession(h) PROVE Paired'
  BY <1>12, <1>13, <1>15 DEF AskSession
<1>16. ASSUME NEW h \in Hook, NoSession(h) PROVE Paired'
  <2>1. PICK k \in {"confirm", "cancel", "offer"} : errand' = [errand EXCEPT ![h].at = k]
    BY <1>13, <1>16 DEF NoSession, Goto, Set
  <2>2. errand'[h].at = k /\ \A g \in Hook \ {h} : errand'[g] = errand[g]
    BY <1>0, <2>1 DEF Errand
  <2>3. errand[h].at # "idle" /\ UNCHANGED hook
    BY <1>16 DEF NoSession, inboundVars
  <2> QED BY <1>1, <2>2, <2>3 DEF Paired, Idle
<1>17. ASSUME NEW h \in Hook, ErrandOver(h) PROVE Paired'
  <2>1. errand'[h] = NoErrand /\ \A g \in Hook \ {h} : errand'[g] = errand[g]
    BY <1>0, <1>17 DEF ErrandOver, Set
  <2>2. hook' = [hook EXCEPT ![h] = FreeHook] \/ hook' = [hook EXCEPT ![h].at = "contact"]
    BY <1>17 DEF ErrandOver, Answered, Refused, Serve
  <2>3. hook'[h].at # "errand" /\ \A g \in Hook \ {h} : hook'[g] = hook[g]
    BY <1>0, <1>8, <2>2 DEF HookRecord
  <2> QED BY <1>1, <1>8, <2>1, <2>3
<1>18. ASSUME NEW h \in Hook, HookStepOf(h) PROVE Paired'
  BY <1>10, <1>11, <1>14, <1>15, <1>16, <1>17, <1>18 DEF HookStepOf
<1> QED BY <1>2, <1>3, <1>4, <1>18 DEF InboundNext, ReschedulingStep, allVars, reschedulingVars, inboundVars

LEMMA BlurStays == blurred /\ [InboundNext]_allVars => blurred'
<1> SUFFICES ASSUME blurred, [InboundNext]_allVars PROVE blurred'
  OBVIOUS
<1>1. ASSUME NEW h \in Hook, ErrandStepOf(h) PROVE blurred'
  BY <1>1 DEF ErrandStepOf, Select, MoveAppointment, ReadReminders, RemovedAll, RemoveReminder,
    ScheduleReminder, CreateReminder, DropSession, LookUp, Confirm, Cancel, FindSlots,
    ClearSessions, CreateSession, MarkLapsed, NextAppointment, ClearLapsed, ErrandFails
<1>2. CASE DiaryStep
  BY <1>2 DEF DiaryStep, TimePasses, SessionsExpire, BookedElsewhere, HoldReminder, SendReminder,
    DashboardUpdate
<1> QED BY <1>1, <1>2, ErrandMoves DEF Begin, Hurried, reschedulingVars

Calmly == faults = 0 /\ ~blurred /\ ~mixed /\ \A m \in Msg : inbox[m].text # "START"

\* A request that has noted message m and has not finished with it.
Serving(h, m) == hook[h].msg = m /\ hook[h].at \in {"route", "errand", "contact"}

\* In calm, a STOP that was noted or answered is under way or done.
Heard ==
  Calmly =>
    /\ \A h \in Hook : errand[h].at # "start"
    /\ \A h \in Hook : hook[h].at # "idle" /\ Said(h) = "STOP" =>
         hook[h].at \in {"check", "log", "route", "errand", "contact"}
    /\ \A h \in Hook : hook[h].at = "contact" => Said(h) = "STOP" /\ lapsed
    /\ \A h \in Hook : hook[h].at = "errand" /\ Said(h) = "STOP" => StopErrand(errand[h])
    /\ \A m \in received \cup acked :
         inbox[m].text = "STOP" => (lapsed /\ optedOut) \/ \E h \in Hook : Serving(h, m)

\* One request moves, and nobody else.
LEMMA HeardTurn ==
  ASSUME Calmly, Heard, NEW h \in Hook, UNCHANGED <<inbox, lapsed>>, optedOut => optedOut',
         \A g \in Hook \ {h} : hook'[g] = hook[g] /\ errand'[g] = errand[g],
         errand'[h].at # "start",
         hook'[h].at = "contact" => inbox[hook'[h].msg].text = "STOP" /\ lapsed,
         hook'[h].at # "idle" /\ inbox[hook'[h].msg].text = "STOP" =>
           hook'[h].at \in {"check", "log", "route", "errand", "contact"},
         hook'[h].at = "errand" /\ inbox[hook'[h].msg].text = "STOP" => StopErrand(errand'[h]),
         \A m : Serving(h, m) /\ inbox[m].text = "STOP" => Serving(h, m)' \/ (lapsed /\ optedOut'),
         \A m \in received' \cup acked' : m \in received \cup acked \/ inbox[m].text # "STOP"
                                          \/ Serving(h, m)' \/ (lapsed /\ optedOut')
  PROVE  Heard'
<1>1. \A g \in Hook : errand'[g].at # "start"
  BY DEF Heard
<1>2. \A g \in Hook : hook'[g].at # "idle" /\ inbox'[hook'[g].msg].text = "STOP" =>
        hook'[g].at \in {"check", "log", "route", "errand", "contact"}
  BY DEF Heard, Said
<1>3. \A g \in Hook : hook'[g].at = "contact" => inbox'[hook'[g].msg].text = "STOP" /\ lapsed'
  BY DEF Heard, Said
<1>4. \A g \in Hook : hook'[g].at = "errand" /\ inbox'[hook'[g].msg].text = "STOP" => StopErrand(errand[g])'
  <2>1. \A g \in Hook : hook'[g].at = "errand" /\ inbox'[hook'[g].msg].text = "STOP" => StopErrand(errand'[g])
    BY DEF Heard, Said
  <2> QED BY <2>1 DEF StopErrand
<1>5. \A g \in Hook : \A m : Serving(g, m) /\ inbox[m].text = "STOP" => Serving(g, m)' \/ (lapsed' /\ optedOut')
  <2>1. \A g \in Hook \ {h} : \A m : Serving(g, m) => Serving(g, m)'
    BY DEF Serving
  <2> QED BY <2>1
<1>6. \A m \in received' \cup acked' :
        inbox'[m].text = "STOP" => (lapsed' /\ optedOut') \/ \E g \in Hook : Serving(g, m)'
  <2>1. ASSUME NEW m \in received' \cup acked', inbox[m].text = "STOP", ~(lapsed' /\ optedOut')
        PROVE  \E g \in Hook : Serving(g, m)'
    <3>1. CASE m \in received \cup acked
      <4>1. PICK g \in Hook : Serving(g, m)
        BY <2>1, <3>1 DEF Heard
      <4> QED BY <1>5, <2>1, <4>1
    <3> QED BY <2>1, <3>1
  <2> QED BY <2>1
<1> QED BY <1>1, <1>2, <1>3, <1>4, <1>6 DEF Heard, Said

\* The contact's flag changes with a request or at the dashboard.
LEMMA FlagMoves ==
  ASSUME RsvpStepOnly, ~mixed'
  PROVE  UNCHANGED optedOut
<1>1. ASSUME NEW w \in Slot, AnswerStep(w) \/ WorkflowStep(w) \/ SlotStep(w)
      PROVE  UNCHANGED optedOut
  BY <1>1 DEF AnswerStep, Look, Stamp, Answer, Settle, Reply, TriggerFlow, RsvpError, WorkflowStep,
    Plan, Exists, CreateRow, QueueReminder, Offer, SendCoupon, MarkCoupon, FlowError, SlotStep,
    TakeWork, CompleteWork, ThrowWork, CrashWork, guestVars
<1>2. ASSUME NEW j \in WorkId, WorkQueueStep(j)
      PROVE  UNCHANGED optedOut
  BY <1>2 DEF WorkQueueStep, ExpireWork, LoseWork, RecoverWork, BuryWork, guestVars
<1>3. CASE DeskStep
  BY <1>3 DEF DeskStep, RespondWrite, BulkUpdate, EventStarts, ScanBadge, ClaimArrival, Thank,
    RespondQueue, RequestDies, ToggleOptOut, guestVars
<1> QED BY <1>1, <1>2, <1>3 DEF RsvpStepOnly

\* While nobody but the errands moves.
LEMMA HeardErrands ==
  ASSUME ErrandsTyped, Paired, Heard, Calmly, ~blurred', UNCHANGED <<inboundVars, optedOut>>,
         DiaryStep \/ \E h \in Hook : ErrandStepOf(h)
  PROVE  Heard'
<1>1. CASE DiaryStep
  <2>1. UNCHANGED <<errand, lapsed>>
    BY <1>1, RecordsOfDiary DEF DiaryStep, TimePasses, SessionsExpire, BookedElsewhere, HoldReminder,
      SendReminder, DashboardUpdate, apptVars
  <2> QED BY <2>1 DEF Heard, Said, Serving, StopErrand, inboundVars
<1>2. ASSUME NEW h \in Hook, ErrandStepOf(h) PROVE Heard'
  <2>1. /\ errand'[h].at # "start" /\ \A g \in Hook \ {h} : errand'[g] = errand[g]
        /\ lapsed => lapsed'
    BY <1>2, ErrandOnward DEF Heard
  <2>2. UNCHANGED <<hook, inbox, received, acked>>
    BY DEF inboundVars
  <2>3. \A g \in Hook : hook[g].at = "errand" /\ Said(g) = "STOP" => StopErrand(errand[g])'
    <3>1. hook[h].at = "errand" /\ Said(h) = "STOP" => StopErrand(errand[h])'
      BY <1>2, StopGoesOn DEF Heard
    <3>2. ASSUME NEW g \in Hook \ {h}, hook[g].at = "errand", Said(g) = "STOP"
          PROVE  StopErrand(errand[g])'
      <4>1. StopErrand(errand[g])
        BY <3>2 DEF Heard
      <4> QED BY <2>1, <4>1 DEF StopErrand
    <3> QED BY <3>1, <3>2
  <2>4. \A g \in Hook : errand'[g].at # "start"
    BY <2>1 DEF Heard
  <2> QED BY <2>1, <2>2, <2>3, <2>4 DEF Heard, Said, Serving
<1> QED BY <1>1, <1>2

\* What becomes of the request of one hook.
LEMMA HookServes ==
  ASSUME hook \in [Hook -> HookRecord], NEW h \in Hook, NEW l, Serve(h, l)
  PROVE  /\ hook'[h].at = l /\ hook'[h].msg = hook[h].msg
         /\ \A g \in Hook \ {h} : hook'[g] = hook[g]
BY DEF Serve, HookRecord

LEMMA HookFreed ==
  ASSUME hook \in [Hook -> HookRecord], NEW h \in Hook, Answered(h) \/ Refused(h)
  PROVE  /\ hook'[h].at = "idle"
         /\ \A g \in Hook \ {h} : hook'[g] = hook[g]
BY DEF Answered, Refused, FreeHook

\* A request that is no STOP, or has not been noted, goes on without an errand, or
\* ends.
LEMMA HeardPlain ==
  ASSUME HooksTyped, Calmly, Heard, NEW h \in Hook, UNCHANGED <<inbox, lapsed, optedOut, errand>>,
         hook[h].at \in {"check", "log", "route", "feedback", "rate", "invited", "enqueue", "session"},
         hook[h].at = "route" => Said(h) # "STOP",
         \/ Answered(h) \/ Refused(h)
         \/ \E l \in {"log", "route", "feedback", "rate", "invited", "enqueue", "session"} :
              Serve(h, l) /\ (Said(h) = "STOP" => l \in {"log", "route"}),
         \A m \in received' \cup acked' : m \in received \cup acked \/ inbox[m].text # "STOP"
                                          \/ Serving(h, m)'
  PROVE  Heard'
<1>0. hook \in [Hook -> HookRecord]
  BY DEF HooksTyped
<1>1. \A m : Serving(h, m) => inbox[m].text # "STOP"
  BY DEF Serving, Said
<1>2. errand'[h].at # "start"
  BY DEF Heard
<1>3. CASE Answered(h) \/ Refused(h)
  <2>1. hook'[h].at = "idle" /\ \A g \in Hook \ {h} : hook'[g] = hook[g]
    BY <1>0, <1>3, HookFreed
  <2> QED BY <1>1, <1>2, <2>1, HeardTurn
<1>4. ASSUME NEW l \in {"log", "route", "feedback", "rate", "invited", "enqueue", "session"},
             Serve(h, l), Said(h) = "STOP" => l \in {"log", "route"}
      PROVE  Heard'
  <2>1. /\ hook'[h].at = l /\ hook'[h].msg = hook[h].msg
        /\ \A g \in Hook \ {h} : hook'[g] = hook[g]
    BY <1>0, <1>4, HookServes
  <2>2. /\ hook'[h].at \notin {"contact", "errand"}
        /\ inbox[hook'[h].msg].text = "STOP" => hook'[h].at \in {"check", "log", "route", "errand", "contact"}
    BY <1>4, <2>1 DEF Said
  <2> QED BY <1>1, <1>2, <2>1, <2>2, HeardTurn
<1> QED BY <1>3, <1>4

LEMMA HeardReceives ==
  ASSUME HooksTyped, Calmly, Calmly', Heard, NEW h \in Hook,
         \/ \E m \in Msg : Deliver(h, m)
         \/ CheckDuplicate(h) \/ LogInbound(h) \/ LogLost(h) \/ HookFails(h)
  PROVE  Heard'
<1>0. hook \in [Hook -> HookRecord]
  BY DEF HooksTyped
<1>1. ASSUME NEW m \in Msg, Deliver(h, m) PROVE Heard'
  <2>1. PICK x : /\ x = [at |-> IF inbox[m].via = "voice" THEN "route" ELSE "check", msg |-> m]
                 /\ hook' = [hook EXCEPT ![h] = x]
    BY <1>1 DEF Deliver
  <2>2. hook'[h] = x /\ \A g \in Hook \ {h} : hook'[g] = hook[g]
    BY <1>0, <2>1
  <2>3. hook'[h].at \in {"route", "check"}
    BY <2>1, <2>2
  <2>4. UNCHANGED <<inbox, received, acked, errand, lapsed, optedOut>> /\ hook[h].at = "idle"
    BY <1>1 DEF Deliver, rsvpVars, reschedulingVars
  <2>5. \A k : ~Serving(h, k)
    BY <2>4 DEF Serving
  <2>6. errand'[h].at # "start"
    BY <2>4 DEF Heard
  <2> QED BY <2>2, <2>3, <2>4, <2>5, <2>6, HeardTurn
<1>2. CASE CheckDuplicate(h)
  <2>1. UNCHANGED <<inbox, received, errand, lapsed, optedOut>> /\ hook[h].at = "check"
    BY <1>2 DEF CheckDuplicate, rsvpVars, reschedulingVars
  <2>2. \/ Answered(h) /\ hook[h].msg \in received
        \/ Serve(h, "log") /\ UNCHANGED acked
    BY <1>2 DEF CheckDuplicate
  <2>3. acked' \subseteq acked \cup received
    BY <2>2 DEF Answered
  <2> QED BY <2>1, <2>2, <2>3, HeardPlain
<1>3. CASE LogInbound(h)
  <2>1. UNCHANGED <<inbox, acked, errand, lapsed, optedOut>> /\ hook[h].at = "log"
    BY <1>3 DEF LogInbound, rsvpVars, reschedulingVars, Refused
  <2>2. PICK m : m = hook[h].msg
    OBVIOUS
  <2>3. /\ received' = received \cup {m}
        /\ \/ Refused(h) /\ m \in received
           \/ Serve(h, "route")
    BY <1>3, <2>2 DEF LogInbound
  <2>4. m \in received \/ Serving(h, m)'
    <3>1. CASE Serve(h, "route")
      <4>1. hook'[h].at = "route" /\ hook'[h].msg = m
        BY <1>0, <2>2, <3>1, HookServes
      <4> QED BY <4>1 DEF Serving
    <3> QED BY <2>3, <3>1
  <2>5. \A k \in received' \cup acked' : k \in received \cup acked \/ Serving(h, k)'
    BY <2>1, <2>3, <2>4
  <2> QED BY <2>1, <2>3, <2>5, HeardPlain
<1>4. CASE LogLost(h) \/ HookFails(h)
  BY <1>4 DEF LogLost, HookFails, RsvpFault, Calmly, HooksTyped
<1> QED BY <1>1, <1>2, <1>3, <1>4

LEMMA HeardRoutes ==
  ASSUME HooksTyped, ErrandsTyped, Paired, Calmly, Heard, NEW h \in Hook,
         \/ Route(h) \/ AskFeedback(h) \/ Rate(h) \/ AskInvitation(h) \/ QueueReply(h) \/ AskSession(h)
  PROVE  Heard'
<1>0. /\ hook \in [Hook -> HookRecord] /\ errand \in [Hook -> Errand]
      /\ hook[h].at # "idle" /\ hook[h].msg \in Msg
  BY DEF HooksTyped, ErrandsTyped, ReschedulingTypeOK, Route, AskFeedback, Rate, AskInvitation,
         QueueReply, AskSession
<1>1. /\ Said(h) # "START"
      /\ hook[h].at # "route" => Said(h) # "STOP"
  BY <1>0 DEF Calmly, Said, Heard, Route, AskFeedback, Rate, AskInvitation, QueueReply, AskSession
<1>2. ASSUME NEW k \in {"stop", "confirm", "cancel", "offer", "select"}, NEW p, StartErrand(h, k, p),
             Said(h) = "STOP" => k = "stop", UNCHANGED <<inbox, received, acked, optedOut>>
      PROVE  Heard'
  <2>1. PICK e : e = [NoErrand EXCEPT !.at = k, !.pick = p]
    OBVIOUS
  <2>2. e.at = k /\ Set(h, e) /\ UNCHANGED lapsed /\ Serve(h, "errand")
    BY <1>2, <2>1 DEF StartErrand, Begin, NoErrand, apptVars
  <2>3. errand'[h] = e /\ \A g \in Hook \ {h} : errand'[g] = errand[g]
    BY <1>0, <2>2 DEF Set
  <2>4. /\ hook'[h].at = "errand" /\ hook'[h].msg = hook[h].msg
        /\ \A g \in Hook \ {h} : hook'[g] = hook[g]
    BY <1>0, <2>2, HookServes
  <2>5. \A m : Serving(h, m) => Serving(h, m)'
    BY <2>4 DEF Serving
  <2>6. inbox[hook'[h].msg].text = "STOP" => StopErrand(errand'[h])
    BY <1>2, <2>2, <2>3, <2>4 DEF StopErrand, Said
  <2> QED BY <1>2, <2>2, <2>3, <2>4, <2>5, <2>6, HeardTurn
<1>3. \A t : Command(t) \in {"confirm", "cancel", "offer"}
  BY DEF Command
<1>4. ASSUME UNCHANGED <<inbox, received, optedOut, errand, lapsed>>, Said(h) # "STOP",
             hook[h].at \in {"route", "feedback", "rate", "invited", "enqueue", "session"},
             \/ Answered(h)
             \/ UNCHANGED acked /\ \E l \in {"feedback", "rate", "invited", "enqueue", "session"} : Serve(h, l)
      PROVE  Heard'
  <2>1. PICK m : m = hook[h].msg
    OBVIOUS
  <2>2. inbox[m].text # "STOP" /\ acked' \subseteq acked \cup {m}
    BY <1>4, <2>1 DEF Said, Answered
  <2>3. \A k \in received' \cup acked' : k \in received \cup acked \/ inbox[k].text # "STOP"
    BY <1>4, <2>2
  <2> QED BY <1>4, <2>3, HeardPlain
<1>5. CASE Route(h)
  <2>1. UNCHANGED <<inbox, received, optedOut>> /\ hook[h].at = "route"
    BY <1>5 DEF Route, rsvpVars
  <2>2. CASE Said(h) = "STOP"
    <3>1. StartErrand(h, "stop", 0) /\ UNCHANGED acked
      BY <1>5, <2>2 DEF Route, Digit
    <3> QED BY <1>2, <2>1, <3>1
  <2>3. CASE Said(h) # "STOP"
    <3>1. \/ StartErrand(h, Command(Said(h)), 0) /\ UNCHANGED acked
          \/ UNCHANGED <<errand, lapsed>> /\ Answered(h)
          \/ UNCHANGED <<errand, lapsed, acked>> /\ \E l \in {"feedback", "invited", "session"} : Serve(h, l)
      BY <1>1, <1>5, <2>3 DEF Route, reschedulingVars
    <3> QED BY <1>2, <1>3, <1>4, <2>1, <2>3, <3>1
  <2> QED BY <2>2, <2>3
<1>6. CASE AskFeedback(h) \/ Rate(h) \/ AskInvitation(h) \/ QueueReply(h)
  <2>1. /\ UNCHANGED <<inbox, received, optedOut, errand, lapsed>>
        /\ hook[h].at \in {"feedback", "rate", "invited", "enqueue"}
    BY <1>6 DEF AskFeedback, Rate, AskInvitation, QueueReply, rsvpVars, reschedulingVars, guestVars
  <2>2. \/ Answered(h)
        \/ UNCHANGED acked /\ \E l \in {"feedback", "rate", "invited", "enqueue", "session"} : Serve(h, l)
    BY <1>6 DEF AskFeedback, Rate, AskInvitation, QueueReply
  <2> QED BY <1>1, <1>4, <2>1, <2>2
<1>7. CASE AskSession(h)
  <2>1. /\ UNCHANGED <<inbox, received, acked, optedOut>> /\ hook[h].at = "session"
        /\ \E k \in {"select", Command(Said(h))} : \E p : StartErrand(h, k, p)
    BY <1>7 DEF AskSession, rsvpVars
  <2> QED BY <1>1, <1>2, <1>3, <2>1
<1> QED BY <1>5, <1>6, <1>7

LEMMA HeardEnds ==
  ASSUME HooksTyped, ErrandsTyped, Paired, Calmly, Heard, NEW h \in Hook,
         NoSession(h) \/ ErrandOver(h) \/ MarkContact(h)
  PROVE  Heard'
<1>0. /\ hook \in [Hook -> HookRecord] /\ errand \in [Hook -> Errand]
  BY DEF HooksTyped, ErrandsTyped, ReschedulingTypeOK
<1>1. CASE NoSession(h)
  <2>1. PICK k \in {"confirm", "cancel", "offer"} : errand' = [errand EXCEPT ![h].at = k]
    BY <1>1 DEF NoSession, Goto, Set, Command
  <2>2. errand'[h].at = k /\ \A g \in Hook \ {h} : errand'[g] = errand[g]
    BY <1>0, <2>1 DEF Errand
  <2>3. errand[h].at = "nosession" /\ UNCHANGED <<hook, inbox, received, acked, optedOut, lapsed>>
    BY <1>1 DEF NoSession, inboundVars, rsvpVars, apptVars
  <2>4. hook[h].at = "errand" /\ Said(h) # "STOP"
    BY <2>3 DEF Paired, Idle, Heard, StopErrand
  <2>5. \A m : Serving(h, m) => Serving(h, m)'
    BY <2>3 DEF Serving
  <2> QED BY <2>2, <2>3, <2>4, <2>5, HeardTurn DEF Said
<1>2. CASE ErrandOver(h)
  <2>1. /\ errand'[h].at = "idle" /\ \A g \in Hook \ {h} : errand'[g] = errand[g]
        /\ UNCHANGED <<inbox, received, optedOut, lapsed>>
    BY <1>0, <1>2 DEF ErrandOver, Set, NoErrand, rsvpVars, apptVars
  <2>2. hook[h].at = "errand" /\ hook[h].msg \in Msg /\ Said(h) # "START"
    BY <1>2 DEF ErrandOver, HooksTyped, Calmly, Said
  <2>3. CASE Said(h) = "STOP"
    <3>1. StopErrand(errand[h])
      BY <2>2, <2>3 DEF Heard
    <3>2. lapsed /\ Serve(h, "contact") /\ UNCHANGED acked
      BY <1>2, <2>3, <3>1 DEF ErrandOver, StopErrand
    <3>3. /\ hook'[h].at = "contact" /\ hook'[h].msg = hook[h].msg
          /\ \A g \in Hook \ {h} : hook'[g] = hook[g]
      BY <1>0, <3>2, HookServes
    <3>4. \A m : Serving(h, m) => Serving(h, m)'
      BY <3>3 DEF Serving
    <3> QED BY <2>1, <2>3, <3>2, <3>3, <3>4, HeardTurn DEF Said
  <2>4. CASE Said(h) # "STOP"
    <3>1. Answered(h) \/ Refused(h)
      BY <1>2, <2>2, <2>4 DEF ErrandOver
    <3>2. hook'[h].at = "idle" /\ \A g \in Hook \ {h} : hook'[g] = hook[g]
      BY <1>0, <3>1, HookFreed
    <3>3. PICK m : m = hook[h].msg
      OBVIOUS
    <3>4. inbox[m].text # "STOP" /\ acked' \subseteq acked \cup {m}
      BY <2>4, <3>1, <3>3 DEF Said, Answered, Refused
    <3>5. \A k : Serving(h, k) => inbox[k].text # "STOP"
      BY <3>3, <3>4 DEF Serving
    <3>6. \A k \in received' \cup acked' : k \in received \cup acked \/ inbox[k].text # "STOP"
      BY <2>1, <3>4
    <3> QED BY <2>1, <3>2, <3>5, <3>6, HeardTurn
  <2> QED BY <2>3, <2>4
<1>3. CASE MarkContact(h)
  <2>1. /\ hook[h].at = "contact" /\ Said(h) = "STOP" /\ lapsed
        /\ UNCHANGED <<inbox, received, errand, lapsed>> /\ optedOut' /\ Answered(h)
    BY <1>3 DEF MarkContact, Heard, reschedulingVars
  <2>2. hook'[h].at = "idle" /\ \A g \in Hook \ {h} : hook'[g] = hook[g]
    BY <1>0, <2>1, HookFreed
  <2>3. errand'[h].at # "start"
    BY <2>1 DEF Heard
  <2> QED BY <2>1, <2>2, <2>3, HeardTurn
<1> QED BY <1>1, <1>2, <1>3

LEMMA HeardStep ==
  HooksTyped /\ ErrandsTyped /\ Paired /\ Heard /\ [InboundNext]_allVars => Heard'
<1> SUFFICES ASSUME HooksTyped, ErrandsTyped, Paired, Heard, [InboundNext]_allVars, Calmly'
             PROVE  Heard'
  BY DEF Heard
<1>1. Calmly
  <2>1. UNCHANGED inbox /\ faults' \in Nat /\ faults' >= faults /\ faults \in Nat
    BY HookMoves DEF HooksTyped
  <2>2. ~blurred /\ ~mixed
    BY BlurStays, MixedStays DEF Calmly
  <2> QED BY <2>1, <2>2 DEF Calmly
<1>2. CASE UNCHANGED allVars
  BY <1>1, <1>2 DEF allVars, rsvpVars, reschedulingVars, inboundVars, Heard, Said, Serving, StopErrand
<1>3. CASE RsvpStepOnly /\ UNCHANGED <<reschedulingVars, inboundVars>>
  <2>1. UNCHANGED <<optedOut, lapsed, errand, hook, inbox, received, acked>>
    BY <1>3, FlagMoves DEF Calmly, reschedulingVars, inboundVars
  <2> QED BY <1>1, <2>1 DEF Heard, Said, Serving, StopErrand
<1>4. CASE ReschedulingStep /\ UNCHANGED <<rsvpVars, inboundVars>>
  <2>1. UNCHANGED <<inboundVars, optedOut>> /\ ~blurred'
    BY <1>4 DEF rsvpVars, Calmly
  <2> QED BY <1>1, <1>4, <2>1, HeardErrands DEF ReschedulingStep
<1>5. ASSUME NEW h \in Hook, HookStepOf(h) PROVE Heard'
  BY <1>1, <1>5, HeardReceives, HeardRoutes, HeardEnds DEF HookStepOf
<1> QED BY <1>2, <1>3, <1>4, <1>5 DEF InboundNext

LEMMA HeardInit == InboundInit => Paired /\ Heard
<1> SUFFICES ASSUME InboundInit PROVE Paired /\ Heard
  OBVIOUS
<1>1. \A h \in Hook : hook[h].at = "idle" /\ errand[h].at = "idle"
  BY DEF InboundInit, ReschedulingInit, FreeHook, NoErrand
<1>2. received = {} /\ acked = {}
  BY DEF InboundInit
<1> QED BY <1>1, <1>2 DEF Paired, Idle, Heard

LEMMA HeardSuffices == Heard => StopHonoured
BY DEF Heard, Calmly, StopHonoured, Serving

\* STOP is honoured: a provider that has its 2xx, for a STOP delivered any number of
\* times, finds the customer and the contact opted out or a request still at it,
\* unless something failed, two requests met, or START or a dashboard said otherwise.
THEOREM StopIsHonoured == InboundSpec => []StopHonoured
<1>1. InboundSpec => []HooksTyped
  BY HooksInit, HooksStep, PTL DEF InboundSpec
<1> QED BY <1>1, HeardInit, HeardSuffices, ErrandsAlways, PairedStep, HeardStep, PTL DEF InboundSpec
==============================================================================
