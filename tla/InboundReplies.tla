---------------------------- MODULE InboundReplies ----------------------------
(***************************************************************************)
(* What a customer answers, from the provider's webhook call on: the       *)
(* handlers of TwilioWebhookController and TermiiWebhookController, and    *)
(* the parts of the system a reply is routed to. The replies to events go  *)
(* to the RSVP queue (EventRsvp), the others are errands of Rescheduling.  *)
(*                                                                         *)
(* A provider delivers a message at least once, and again while the first  *)
(* delivery is still being handled. Each delivery is one request (Hook).   *)
(*                                                                         *)
(* Bounds: the messages of Msg, and how often each is delivered.           *)
(***************************************************************************)
EXTENDS EventRsvp, Rescheduling

CONSTANTS Msg, NoMsg,
          Mailbags        \* bounds: the messages that may be sent, and how often

Via == {"twilio", "termii", "voice"}

\* The words the routers tell apart. YES is read as 1, and so on.
Text == {"STOP", "START", "1", "2", "3", "RESCHEDULE"}

Mail == [via : Via, text : Text, times : Nat]

ASSUME InboundAssumption ==
  /\ IsFiniteSet(Msg) /\ NoMsg \notin Msg
  /\ Mailbags \subseteq [Msg -> Mail]
  /\ \A b \in Mailbags, m \in Msg : b[m].via = "voice" => b[m].text \in {"1", "2", "3"}

VARIABLES
  inbox,      \* the messages the customer sends
  hook,       \* the request each webhook handler is serving
  received,   \* messages with an inbound MessageLog row: the column is unique
  feedback,   \* a FeedbackRequest is pending
  deliveries, \* how often each message was delivered
  acked,      \* history: messages answered with a 2xx
  handled,    \* history: how often a message was routed
  repeated    \* history: deliveries that began while another was being handled

inboundVars == <<inbox, hook, received, feedback, deliveries, acked, handled, repeated>>

allVars == <<rsvpVars, reschedulingVars, inboundVars>>

HookStep == {"idle", "check", "log", "route", "feedback", "rate", "invited", "enqueue", "session",
             "errand", "contact"}

HookRecord == [at : HookStep, msg : Msg \cup {NoMsg}]

FreeHook == [at |-> "idle", msg |-> NoMsg]

Said(h) == inbox[hook[h].msg].text

Through(h) == inbox[hook[h].msg].via

InboundInit ==
  /\ RsvpInit /\ ReschedulingInit
  /\ inbox \in Mailbags
  /\ hook = [h \in Hook |-> FreeHook]
  /\ received = {} /\ acked = {}
  /\ feedback \in BOOLEAN
  /\ deliveries = [m \in Msg |-> 0]
  /\ handled = [m \in Msg |-> 0] /\ repeated = [m \in Msg |-> 0]

Serve(h, step) == hook' = [hook EXCEPT ![h].at = step]

\* The handler returns, or throws.
Answered(h) ==
  /\ hook' = [hook EXCEPT ![h] = FreeHook]
  /\ acked' = acked \cup {hook[h].msg}

Refused(h) == hook' = [hook EXCEPT ![h] = FreeHook] /\ UNCHANGED acked

-----------------------------------------------------------------------------
(* The handlers up to the router.                                           *)

\* The first delivery, and any that follows it; a key pressed during a call is
\* delivered once.
Deliver(h, m) ==
  /\ hook[h].at = "idle"
  /\ deliveries[m] < inbox[m].times
  /\ inbox[m].via = "voice" => deliveries[m] = 0
  /\ deliveries' = [deliveries EXCEPT ![m] = @ + 1]
  /\ repeated' = [repeated EXCEPT ![m] =
                    IF \E g \in Hook : hook[g].msg = m THEN @ + 1 ELSE @]
  /\ hook' = [hook EXCEPT ![h] =
                [at |-> IF inbox[m].via = "voice" THEN "route" ELSE "check", msg |-> m]]
  /\ UNCHANGED <<rsvpVars, reschedulingVars, inbox, received, feedback, acked, handled>>

\* Variant of CheckDuplicate that looks nothing up.
CheckNothing(h) ==
  /\ hook[h].at = "check"
  /\ Serve(h, "log")
  /\ UNCHANGED <<rsvpVars, reschedulingVars, inbox, received, feedback, deliveries, acked, handled,
                 repeated>>

\* The idempotency check.
CheckDuplicate(h) ==
  /\ hook[h].at = "check"
  /\ \/ hook[h].msg \in received /\ Answered(h)
     \/ hook[h].msg \notin received /\ Serve(h, "log") /\ UNCHANGED acked
  /\ UNCHANGED <<rsvpVars, reschedulingVars, inbox, received, feedback, deliveries, handled,
                 repeated>>

\* Variant of LogInbound that swallows a duplicate for Twilio too.
LogQuietly(h) ==
  /\ hook[h].at = "log"
  /\ received' = received \cup {hook[h].msg}
  /\ Serve(h, "route")
  /\ UNCHANGED <<rsvpVars, reschedulingVars, inbox, feedback, deliveries, acked, handled,
                 repeated>>

\* messageLog.create throws on a providerMessageId that is there. The Twilio
\* handlers let it through, Termii's swallows it.
LogInbound(h) ==
  LET m == hook[h].msg IN
  /\ hook[h].at = "log"
  /\ received' = received \cup {m}
  /\ IF m \in received /\ Through(h) = "twilio" THEN Refused(h)
     ELSE Serve(h, "route") /\ UNCHANGED acked
  /\ UNCHANGED <<rsvpVars, reschedulingVars, inbox, feedback, deliveries, handled, repeated>>

\* Termii's insert fails for another reason: the reply goes on without its row.
LogLost(h) ==
  /\ hook[h].at = "log" /\ Through(h) = "termii"
  /\ RsvpFault
  /\ Serve(h, "route")
  /\ UNCHANGED <<queueVars, desk, guestVars, doorVars, clerk, flowVars, tellVars, reschedulingVars,
                 inbox, received, feedback, deliveries, acked, handled, repeated>>

-----------------------------------------------------------------------------
(* processInboundReply, and the shorter routers of Termii and of voice.     *)

Digit(text) == CASE text = "1" -> 1 [] text = "2" -> 2 [] text = "3" -> 3 [] OTHER -> 0

\* ResponseParser.parseRSVP.
RsvpWord(text) == CASE text = "1" -> "yes" [] text = "2" -> "no" [] OTHER -> "maybe"

\* The errand a word asks for as a command about an appointment.
Command(text) == CASE text = "1" -> "confirm" [] text = "3" -> "cancel" [] OTHER -> "offer"

StartErrand(h, step, pick) == Begin(h, step, pick) /\ Serve(h, "errand")

\* STOP and START come before everything else; RESCHEDULE is no RSVP keyword.
Route(h) ==
  /\ hook[h].at = "route"
  /\ handled' = [handled EXCEPT ![hook[h].msg] = @ + 1]
  /\ \/ /\ Said(h) \in {"STOP", "START"}
        /\ StartErrand(h, IF Said(h) = "STOP" THEN "stop" ELSE "start", 0)
        /\ UNCHANGED acked
     \/ /\ Said(h) \notin {"STOP", "START"} /\ Through(h) = "voice"
        /\ StartErrand(h, Command(Said(h)), 0)
        /\ UNCHANGED acked
     \/ /\ Digit(Said(h)) > 0 /\ Through(h) # "voice"
        /\ Serve(h, IF Through(h) = "twilio" THEN "feedback" ELSE "invited")
        /\ UNCHANGED <<reschedulingVars, acked>>
     \/ /\ Said(h) = "RESCHEDULE" /\ Through(h) = "twilio"
        /\ Serve(h, "session")
        /\ UNCHANGED <<reschedulingVars, acked>>
     \/ /\ Said(h) = "RESCHEDULE" /\ Through(h) = "termii"
        /\ Answered(h)
        /\ UNCHANGED reschedulingVars
  /\ UNCHANGED <<rsvpVars, inbox, received, feedback, deliveries, repeated>>

\* A digit answers a pending request for feedback before anything else.
AskFeedback(h) ==
  /\ hook[h].at = "feedback"
  /\ Serve(h, IF feedback THEN "rate" ELSE "invited")
  /\ UNCHANGED <<rsvpVars, reschedulingVars, inbox, received, feedback, deliveries, acked, handled,
                 repeated>>

Rate(h) ==
  /\ hook[h].at = "rate"
  /\ feedback' = FALSE
  /\ Answered(h)
  /\ UNCHANGED <<rsvpVars, reschedulingVars, inbox, received, deliveries, handled, repeated>>

AskInvitation(h) ==
  /\ hook[h].at = "invited"
  /\ \/ HasActiveInvitation /\ Serve(h, "enqueue") /\ UNCHANGED acked
     \/ ~HasActiveInvitation /\ Through(h) = "twilio" /\ Serve(h, "session")
        /\ UNCHANGED acked
     \/ ~HasActiveInvitation /\ Through(h) = "termii" /\ Answered(h)
  /\ UNCHANGED <<rsvpVars, reschedulingVars, inbox, received, feedback, deliveries, handled, repeated>>

QueueReply(h) ==
  /\ hook[h].at = "enqueue"
  /\ EnqueueRsvp(RsvpWord(Said(h)))
  /\ Answered(h)
  /\ UNCHANGED <<desk, guestVars, doorVars, clerk, flowVars, coming, faults, tellVars,
                 reschedulingVars, inbox, received, feedback, deliveries, handled, repeated>>

\* hasActiveSession: with a session open, every text is a choice of slot.
AskSession(h) ==
  /\ hook[h].at = "session"
  /\ IF HasSession THEN StartErrand(h, "select", Digit(Said(h)))
     ELSE StartErrand(h, Command(Said(h)), 0)
  /\ UNCHANGED <<rsvpVars, inbox, received, feedback, deliveries, acked, handled, repeated>>

\* The session is gone by now: the text is a command after all.
NoSession(h) ==
  /\ errand[h].at = "nosession"
  /\ Goto(h, Command(Said(h)))
  /\ UNCHANGED <<rsvpVars, apptVars, diaryVars, blurred, inboundVars>>

\* Variant of ErrandOver that is done with a STOP once the customer is marked.
ErrandEndsStop(h) ==
  /\ hook[h].at = "errand" /\ errand[h].at \in {"done", "fail"}
  /\ Set(h, NoErrand)
  /\ IF errand[h].at = "fail" THEN Refused(h)
     ELSE IF Said(h) = "START" THEN Serve(h, "contact") /\ UNCHANGED acked
     ELSE Answered(h)
  /\ UNCHANGED <<rsvpVars, apptVars, diaryVars, blurred, inbox, received, feedback, deliveries,
                 handled, repeated>>

ErrandOver(h) ==
  /\ hook[h].at = "errand" /\ errand[h].at \in {"done", "fail"}
  /\ Set(h, NoErrand)
  /\ IF errand[h].at = "fail" THEN Refused(h)
     ELSE IF Said(h) \in {"STOP", "START"} THEN Serve(h, "contact") /\ UNCHANGED acked
     ELSE Answered(h)
  /\ UNCHANGED <<rsvpVars, apptVars, diaryVars, blurred, inbox, received, feedback, deliveries,
                 handled, repeated>>

\* The contact's half of optOut and optIn.
MarkContact(h) ==
  /\ hook[h].at = "contact"
  /\ optedOut' = (Said(h) = "STOP")
  /\ Answered(h)
  /\ UNCHANGED <<queueVars, desk, status, last, now, over, doorVars, clerk, flowVars, coming,
                 faults, tellVars, reschedulingVars, inbox, received, feedback, deliveries, handled,
                 repeated>>

\* A database call throws, or the process dies.
HookFails(h) ==
  /\ hook[h].at \notin {"idle", "errand"}
  /\ RsvpFault
  /\ Refused(h)
  /\ UNCHANGED <<queueVars, desk, guestVars, doorVars, clerk, flowVars, tellVars, reschedulingVars,
                 inbox, received, feedback, deliveries, handled, repeated>>

-----------------------------------------------------------------------------
HookStepOf(h) ==
  \/ \E m \in Msg : Deliver(h, m)
  \/ CheckDuplicate(h) \/ LogInbound(h) \/ LogLost(h) \/ Route(h)
  \/ AskFeedback(h) \/ Rate(h) \/ AskInvitation(h) \/ QueueReply(h)
  \/ AskSession(h) \/ NoSession(h) \/ ErrandOver(h) \/ MarkContact(h) \/ HookFails(h)

InboundNext ==
  \/ \E h \in Hook : HookStepOf(h)
  \/ RsvpStepOnly /\ UNCHANGED <<reschedulingVars, inboundVars>>
  \/ ReschedulingStep /\ UNCHANGED <<rsvpVars, inboundVars>>

InboundSpec == InboundInit /\ [][InboundNext]_allVars

-----------------------------------------------------------------------------
\* Every variable keeps its type.
InboundTypeOK ==
  /\ RsvpTypeOK /\ ReschedulingTypeOK
  /\ inbox \in [Msg -> Mail]
  /\ hook \in [Hook -> HookRecord]
  /\ received \subseteq Msg /\ acked \subseteq Msg
  /\ feedback \in BOOLEAN
  /\ deliveries \in [Msg -> Nat] /\ handled \in [Msg -> Nat] /\ repeated \in [Msg -> Nat]

\* A Twilio message is noted, then acted on, once, however often it is delivered
\* and whatever fails (handleInboundSms, handleInboundWhatsApp).
Twilio == INSTANCE InboundContract WITH
  noted <- {m \in received : inbox[m].via = "twilio"},
  acted <- [m \in Msg |-> IF inbox[m].via = "twilio" THEN handled[m] ELSE 0]

TwilioContract == Twilio!Spec

\* Termii's handler lets two deliveries that overlap pass its check together, and
\* goes on when the row could not be written: nothing else has a reply handled twice.
TermiiHandled ==
  \A m \in Msg : inbox[m].via = "termii" => handled[m] <= 1 + repeated[m] + faults

\* STOP is honoured: once the provider has its 2xx the customer and the contact are
\* both opted out, unless something failed, two requests of the customer met, or
\* START or a dashboard says otherwise (processInboundReply, Step 0).
StopHonoured ==
  faults = 0 /\ ~blurred /\ ~mixed /\ (\A m \in Msg : inbox[m].text # "START") =>
    \A m \in acked : \/ inbox[m].text # "STOP"
                     \/ lapsed /\ optedOut
                     \/ \E h \in Hook : hook[h].msg = m /\ hook[h].at # "check"
=============================================================================
