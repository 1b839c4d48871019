----------------------------- MODULE Rescheduling -----------------------------
(***************************************************************************)
(* What a customer's reply does to the customer's appointments, sessions   *)
(* and reminders: RescheduleSession rows, updateAppointmentTime,           *)
(* cancelForAppointment and scheduleForAppointment, and the confirmation,  *)
(* cancellation and opt-out that the webhooks start. Each webhook request  *)
(* (Hook) runs one errand at a time, one action per database call.         *)
(*                                                                         *)
(* An hour of the calendar is a number; a session offers SlotsToOffer of   *)
(* them. The tenant has one reminder rule. What the reminder worker does   *)
(* with a reminder is in ReminderDelivery: here it takes and sends it.     *)
(*                                                                         *)
(* Bounds: the hours in Time, MaxRows reminders, and what comes from       *)
(* outside, which starts as one of Diaries.                                *)
(***************************************************************************)
EXTENDS Naturals, FiniteSets, Sequences, SequencesExt

CONSTANTS Hook,          \* webhook requests that may be open at once
          Appt, NoAppt,  \* the customer's appointments
          Time,          \* the hours a slot can start at
          SlotsToOffer,
          MaxRows,       \* bound on the reminders
          Diaries        \* bounds: how much of each Event of the diary there may be

Diary == {"hour", "expire", "elsewhere", "send", "edit", "errandfault"}

Row == 1..MaxRows

ASSUME DiaryAssumption ==
  /\ IsFiniteSet(Hook) /\ IsFiniteSet(Appt) /\ NoAppt \notin Appt
  /\ Time \subseteq Nat \ {0} /\ IsFiniteSet(Time)
  /\ SlotsToOffer \in Nat /\ MaxRows \in Nat
  /\ Diaries \subseteq [Diary -> Nat]

VARIABLES
  appt,       \* scheduledAt and status of each appointment
  reminders,  \* the reminder rows: appointment, hour, status
  sessions,   \* the customer's RescheduleSession rows, in order of creation
  issued,     \* how many sessions were created: their ids
  lapsed,     \* Customer.unsubscribed
  busy,       \* hours taken by other customers and the calendar
  hour,       \* the present
  errand,     \* what each webhook request is doing
  diary,      \* bound: what may still happen outside
  blurred     \* history: two errands overlapped, a dashboard wrote, or something failed

apptVars == <<appt, reminders, sessions, issued, lapsed>>
diaryVars == <<busy, hour, diary>>
reschedulingVars == <<appt, reminders, sessions, issued, lapsed, busy, hour, errand, diary,
                      blurred>>

ApptStatus == {"SCHEDULED", "CONFIRMED", "CANCELLED"}

RowStatus == {"none", "PENDING", "HELD", "SENT", "CANCELLED"}

ErrandStep == {"idle", "select", "move", "read", "remove", "schedule", "row", "drop", "confirm",
               "confirming", "cancel", "cancelling", "offer", "slots", "clear", "create", "stop",
               "next", "start", "nosession", "done", "fail"}

Errand == [at : ErrandStep, appt : Appt \cup {NoAppt}, time : Time \cup {0}, pick : Nat,
           key : Nat, list : SUBSET Row, offered : Seq(Time), todo : SUBSET Appt,
           then : ErrandStep]

NoErrand == [at |-> "idle", appt |-> NoAppt, time |-> 0, pick |-> 0, key |-> 0, list |-> {},
             offered |-> <<>>, todo |-> {}, then |-> "done"]

Happens(k) == diary[k] > 0 /\ diary' = [diary EXCEPT ![k] = @ - 1]

ReschedulingInit ==
  /\ appt \in [Appt -> [at : Time, st : {"SCHEDULED"}]]
  /\ \E f \in [Appt -> Row] :
       /\ IsInjective(f) /\ \A a \in Appt : f[a] <= Cardinality(Appt)
       /\ reminders = [r \in Row |->
            IF \E a \in Appt : f[a] = r
            THEN LET a == CHOOSE a \in Appt : f[a] = r
                 IN [appt |-> a, at |-> appt[a].at, st |-> "PENDING"]
            ELSE [appt |-> NoAppt, at |-> 0, st |-> "none"]]
  /\ sessions = <<>> /\ issued = 0
  /\ lapsed = FALSE
  /\ busy = {}
  /\ hour = 0
  /\ errand = [h \in Hook |-> NoErrand]
  /\ diary \in Diaries
  /\ blurred = FALSE

-----------------------------------------------------------------------------
(* What the code looks up.                                                  *)

\* The customer's next appointments with one of the statuses S; findFirst takes
\* one of the earliest.
Next1(S) ==
  LET open == {a \in Appt : appt[a].st \in S /\ appt[a].at > hour}
  IN {a \in open : \A b \in open : appt[a].at <= appt[b].at}

Open == {"SCHEDULED", "CONFIRMED"}

\* Rows that a query for PENDING finds: one the worker holds is still PENDING.
Pending(a) == {r \in Row : reminders[r].appt = a /\ reminders[r].st \in {"PENDING", "HELD"}}

\* generateAvailableSlots: the first free hours, and the hour of the appointment
\* itself when no other one has it.
FreeHours(a) ==
  {t \in Time \ busy : t > hour /\ \A b \in Appt \ {a} : appt[b].st \in Open => appt[b].at # t}

\* The hours of S, the next one first.
InOrder(S) ==
  CHOOSE s \in [1..Cardinality(S) -> S] : \A i, j \in DOMAIN s : i < j => s[i] < s[j]

AvailableSlots(a) ==
  LET all == InOrder(FreeHours(a))
  IN SubSeq(all, 1, IF Len(all) < SlotsToOffer THEN Len(all) ELSE SlotsToOffer)

\* hasActiveSession, and the session processSlotSelection takes: the latest.
HasSession == sessions # <<>>

Idle(h) == errand[h].at = "idle"

Set(h, e) == errand' = [errand EXCEPT ![h] = e]

Goto(h, step) == Set(h, [errand[h] EXCEPT !.at = step])

\* An errand begins when the webhook has routed the reply.
Begin(h, step, pick) ==
  /\ Idle(h)
  /\ Set(h, [NoErrand EXCEPT !.at = step, !.pick = pick])
  /\ blurred' = (blurred \/ \E g \in Hook \ {h} : ~Idle(g))
  /\ UNCHANGED <<apptVars, diaryVars>>

-----------------------------------------------------------------------------
(* processSlotSelection.                                                    *)

\* No session left: the reply is read as a command. A digit that was not
\* offered, or any other text, only gets an answer.
Select(h) ==
  /\ errand[h].at = "select"
  /\ \/ sessions = <<>> /\ Goto(h, "nosession")
     \/ /\ sessions # <<>>
        /\ LET s == Last(sessions)
               pick == errand[h].pick
           IN IF pick \in DOMAIN s.offered
              THEN Set(h, [errand[h] EXCEPT !.at = "move", !.appt = s.appt,
                                            !.time = s.offered[pick], !.key = s.key])
              ELSE Goto(h, "done")
  /\ UNCHANGED <<apptVars, diaryVars, blurred>>

\* Variant of MoveAppointment that leaves out cancelForAppointment.
MoveOnly(h) ==
  LET e == errand[h] IN
  /\ e.at = "move"
  /\ appt' = [appt EXCEPT ![e.appt] = [at |-> e.time, st |-> "SCHEDULED"]]
  /\ Goto(h, "schedule")
  /\ UNCHANGED <<reminders, sessions, issued, lapsed, diaryVars, blurred>>

\* updateAppointmentTime: nobody asks whether the hour is still free, or what
\* became of the appointment.
MoveAppointment(h) ==
  LET e == errand[h] IN
  /\ e.at = "move"
  /\ appt' = [appt EXCEPT ![e.appt] = [at |-> e.time, st |-> "SCHEDULED"]]
  /\ Set(h, [e EXCEPT !.at = "read", !.then = "schedule"])
  /\ UNCHANGED <<reminders, sessions, issued, lapsed, diaryVars, blurred>>

\* cancelForAppointment: a list of the PENDING rows, then one after the other.
ReadReminders(h) ==
  LET e == errand[h] IN
  /\ e.at = "read"
  /\ Set(h, [e EXCEPT !.at = "remove", !.list = Pending(e.appt)])
  /\ UNCHANGED <<apptVars, diaryVars, blurred>>

\* job.remove() throws when the worker holds the job; the write of the row is
\* unconditional.
RemoveReminder(h, r) ==
  LET e == errand[h]
      held == reminders[r].st = "HELD"
  IN /\ e.at = "remove" /\ r \in e.list
     /\ reminders' = IF held THEN reminders ELSE [reminders EXCEPT ![r].st = "CANCELLED"]
     /\ Set(h, IF held THEN [e EXCEPT !.at = "fail"] ELSE [e EXCEPT !.list = @ \ {r}])
     /\ blurred' = (blurred \/ held)
     /\ UNCHANGED <<appt, sessions, issued, lapsed, diaryVars>>

RemovedAll(h) ==
  /\ errand[h].at = "remove" /\ errand[h].list = {}
  /\ Goto(h, errand[h].then)
  /\ UNCHANGED <<apptVars, diaryVars, blurred>>

\* scheduleForAppointment reads the appointment again, and schedules nothing for
\* a customer who opted out or a time that has passed.
ScheduleReminder(h) ==
  LET e == errand[h]
      t == appt[e.appt].at
  IN /\ e.at = "schedule"
     /\ Set(h, IF lapsed \/ t <= hour THEN [e EXCEPT !.at = "drop"]
               ELSE [e EXCEPT !.at = "row", !.time = t])
     /\ UNCHANGED <<apptVars, diaryVars, blurred>>

CreateReminder(h) ==
  LET e == errand[h] IN
  /\ e.at = "row"
  /\ \E r \in Row :
       /\ reminders[r].st = "none"
       /\ \A q \in Row : reminders[q].st = "none" => r <= q
       /\ reminders' = [reminders EXCEPT ![r] = [appt |-> e.appt, at |-> e.time, st |-> "PENDING"]]
  /\ Goto(h, "drop")
  /\ UNCHANGED <<appt, sessions, issued, lapsed, diaryVars, blurred>>

\* session.delete throws when the row is gone.
DropSession(h) ==
  LET found == {i \in DOMAIN sessions : sessions[i].key = errand[h].key}
  IN /\ errand[h].at = "drop"
     /\ IF found = {} THEN sessions' = sessions /\ Goto(h, "fail")
        ELSE sessions' = RemoveAt(sessions, CHOOSE i \in found : TRUE) /\ Goto(h, "done")
     /\ UNCHANGED <<appt, reminders, issued, lapsed, diaryVars, blurred>>

-----------------------------------------------------------------------------
(* processConfirmation, processCancellation, initiateReschedule.            *)

\* The appointment is looked up by its state and then written by its id.
LookUp(h, step, S, next) ==
  /\ errand[h].at = step
  /\ \/ Next1(S) = {} /\ Goto(h, "done")
     \/ \E a \in Next1(S) : Set(h, [errand[h] EXCEPT !.at = next, !.appt = a])
  /\ UNCHANGED <<apptVars, diaryVars, blurred>>

Confirm(h) ==
  /\ errand[h].at = "confirming"
  /\ appt' = [appt EXCEPT ![errand[h].appt].st = "CONFIRMED"]
  /\ Goto(h, "done")
  /\ UNCHANGED <<reminders, sessions, issued, lapsed, diaryVars, blurred>>

Cancel(h) ==
  /\ errand[h].at = "cancelling"
  /\ appt' = [appt EXCEPT ![errand[h].appt].st = "CANCELLED"]
  /\ Set(h, [errand[h] EXCEPT !.at = "read", !.then = "done"])
  /\ UNCHANGED <<reminders, sessions, issued, lapsed, diaryVars, blurred>>

FindSlots(h) ==
  LET e == errand[h]
      s == AvailableSlots(e.appt)
  IN /\ e.at = "slots"
     /\ Set(h, [e EXCEPT !.at = IF s = <<>> THEN "done" ELSE "clear", !.offered = s])
     /\ UNCHANGED <<apptVars, diaryVars, blurred>>

ClearSessions(h) ==
  /\ errand[h].at = "clear"
  /\ sessions' = <<>>
  /\ Goto(h, "create")
  /\ UNCHANGED <<appt, reminders, issued, lapsed, diaryVars, blurred>>

CreateSession(h) ==
  LET e == errand[h] IN
  /\ e.at = "create"
  /\ sessions' = Append(sessions, [key |-> issued + 1, appt |-> e.appt, offered |-> e.offered])
  /\ issued' = issued + 1
  /\ Goto(h, "done")
  /\ UNCHANGED <<appt, reminders, lapsed, diaryVars, blurred>>

-----------------------------------------------------------------------------
(* ComplianceService.optOut and optIn, the customer's half.                 *)

\* A customer who is already unsubscribed is left alone.
MarkLapsed(h) ==
  /\ errand[h].at = "stop"
  /\ lapsed' = TRUE
  /\ Set(h, IF lapsed THEN [errand[h] EXCEPT !.at = "done"]
            ELSE [errand[h] EXCEPT !.at = "next", !.then = "next",
                    !.todo = {a \in Appt : appt[a].st \in Open /\ appt[a].at > hour}])
  /\ UNCHANGED <<appt, reminders, sessions, issued, diaryVars, blurred>>

NextAppointment(h) ==
  LET e == errand[h] IN
  /\ e.at = "next"
  /\ \/ e.todo = {} /\ Goto(h, "done")
     \/ \E a \in e.todo : Set(h, [e EXCEPT !.at = "read", !.appt = a, !.todo = @ \ {a}])
  /\ UNCHANGED <<apptVars, diaryVars, blurred>>

ClearLapsed(h) ==
  /\ errand[h].at = "start"
  /\ lapsed' = FALSE
  /\ Goto(h, "done")
  /\ UNCHANGED <<appt, reminders, sessions, issued, diaryVars, blurred>>

\* A database call throws, or the process dies.
ErrandFails(h) ==
  /\ errand[h].at \notin {"idle", "done", "fail", "nosession"}
  /\ Happens("errandfault")
  /\ Goto(h, "fail")
  /\ blurred' = TRUE
  /\ UNCHANGED <<apptVars, busy, hour>>

-----------------------------------------------------------------------------
(* Outside.                                                                 *)

TimePasses ==
  /\ Happens("hour")
  /\ hour' = hour + 1
  /\ UNCHANGED <<apptVars, busy, errand, blurred>>

SessionsExpire ==
  /\ Happens("expire")
  /\ sessions' = <<>>
  /\ UNCHANGED <<appt, reminders, issued, lapsed, busy, hour, errand, blurred>>

BookedElsewhere(t) ==
  /\ Happens("elsewhere") /\ t \notin busy
  /\ busy' = busy \cup {t}
  /\ UNCHANGED <<apptVars, hour, errand, blurred>>

\* The reminder worker locks a job, and writes the row once it has sent.
HoldReminder(r) ==
  /\ Happens("send") /\ reminders[r].st = "PENDING"
  /\ reminders' = [reminders EXCEPT ![r].st = "HELD"]
  /\ UNCHANGED <<appt, sessions, issued, lapsed, busy, hour, errand, blurred>>

SendReminder(r) ==
  /\ reminders[r].st = "HELD"
  /\ reminders' = [reminders EXCEPT ![r].st = "SENT"]
  /\ UNCHANGED <<appt, sessions, issued, lapsed, diaryVars, errand, blurred>>

\* AppointmentService.update writes the row and leaves the reminders as they are.
DashboardUpdate(a, t, st) ==
  /\ Happens("edit")
  /\ appt' = [appt EXCEPT ![a] = [at |-> t, st |-> st]]
  /\ blurred' = TRUE
  /\ UNCHANGED <<reminders, sessions, issued, lapsed, busy, hour, errand>>

-----------------------------------------------------------------------------
ErrandStepOf(h) ==
  \/ Select(h) \/ MoveAppointment(h) \/ ReadReminders(h) \/ RemovedAll(h)
  \/ \E r \in Row : RemoveReminder(h, r)
  \/ ScheduleReminder(h) \/ CreateReminder(h) \/ DropSession(h)
  \/ LookUp(h, "confirm", {"SCHEDULED"}, "confirming") \/ Confirm(h)
  \/ LookUp(h, "cancel", Open, "cancelling") \/ Cancel(h)
  \/ LookUp(h, "offer", Open, "slots") \/ FindSlots(h) \/ ClearSessions(h) \/ CreateSession(h)
  \/ MarkLapsed(h) \/ NextAppointment(h) \/ ClearLapsed(h)
  \/ ErrandFails(h)

DiaryStep ==
  \/ TimePasses \/ SessionsExpire
  \/ \E t \in Time : BookedElsewhere(t)
  \/ \E r \in Row : HoldReminder(r) \/ SendReminder(r)
  \/ \E a \in Appt, t \in Time, st \in ApptStatus : DashboardUpdate(a, t, st)

ReschedulingStep == (\E h \in Hook : ErrandStepOf(h)) \/ DiaryStep

-----------------------------------------------------------------------------
\* Every variable keeps its type.
ReschedulingTypeOK ==
  /\ appt \in [Appt -> [at : Time, st : ApptStatus]]
  /\ reminders \in [Row -> [appt : Appt \cup {NoAppt}, at : Time \cup {0}, st : RowStatus]]
  /\ sessions \in Seq([key : Nat, appt : Appt, offered : Seq(Time)])
  /\ issued \in Nat
  /\ lapsed \in BOOLEAN /\ blurred \in BOOLEAN
  /\ busy \subseteq Time /\ hour \in Nat
  /\ errand \in [Hook -> Errand]
  /\ diary \in [Diary -> Nat]

\* When the customer's errands were run one by one and nothing failed, and all of
\* them have ended, the reminders still to be sent are for the hour an appointment
\* now has, one for each at most, and none for a cancelled one
\* (rescheduleReminderJobs, processCancellation).
RemindersMatch ==
  ~blurred /\ (\A h \in Hook : errand[h].at \in {"idle", "done"}) =>
    \A a \in Appt : /\ \A r \in Pending(a) : reminders[r].at = appt[a].at
                    /\ Cardinality(Pending(a)) <= 1
                    /\ appt[a].st = "CANCELLED" => Pending(a) = {}
=============================================================================
