------------------------- MODULE CampaignSendProofs --------------------------
(***************************************************************************)
(* Theorems about CampaignSend for any number of contacts, concurrency     *)
(* slots, attempts, dispatches and faults.                                 *)
(***************************************************************************)
EXTENDS CampaignSend, BullQueueProofs, FiniteSetTheorems

-----------------------------------------------------------------------------
(* Type correctness *)

\* An idle slot has no job; every other slot has one.
WorkersHaveJobs == \A w \in Slot : slot[w].at # "idle" <=> slot[w].job # None

\* The inline loop is at work on somebody.
InlineHasContact ==
  request.at \in {"log", "mark"} => request.mode = "inline" /\ request.cur # None

Typing == TypeOK /\ WorkersHaveJobs /\ InlineHasContact

LEMMA InitTyped == Init => Typing
<1> SUFFICES ASSUME Init PROVE Typing
  OBVIOUS
<1>1. NoJob \in Job /\ Idle \in Handler /\ NoCall \in Call
  BY DEF NoJob, Job, JobState, Idle, Handler, Step, NoCall, Call
<1>2. TypeOK
  BY <1>1, CampaignAssumption DEF Init, TypeOK
<1>3. WorkersHaveJobs /\ InlineHasContact
  BY DEF Init, Idle, NoCall, WorkersHaveJobs, InlineHasContact
<1> QED BY <1>2, <1>3 DEF Typing

\* The queue takes a set of jobs.
LEMMA EnqueueTyped ==
  ASSUME TypeOK, NEW J, Enqueue(J)
  PROVE  job' \in [JobId -> Job] /\ added' \in [JobId -> Nat]
<1>1. \A j \in JobId : Added(job[j]) \in Job /\ added[j] + 1 \in Nat
  BY JobOperationsTyped DEF TypeOK
<1> QED BY <1>1 DEF Enqueue, TypeOK

\* Calls of the API process, the contacts' opt-outs and opt-ins.
LEMMA CallersTyped ==
  ASSUME Typing,
         \/ \E S \in SUBSET Contact :
              BeginCampaign(S) \/ BeginEventBroadcast(S) \/ BeginBroadcast(S)
         \/ Serve \/ InlineError \/ CallDies
         \/ \E c \in Fickle : OptOut(c) \/ OptIn(c)
  PROVE  TypeOK' /\ InlineHasContact'
<1> USE DEF queueVars, sendVars, deadVars
<1>1. TypeOK /\ request \in Call /\ NoCall \in Call
  BY DEF Typing, TypeOK, NoCall, Call
<1>2. NoCall.at = "start" /\ NoCall.mode = "none" /\ NoCall.todo = {}
  BY DEF NoCall
<1>3. ASSUME NEW S \in SUBSET Contact,
             BeginCampaign(S) \/ BeginEventBroadcast(S) \/ BeginBroadcast(S)
      PROVE  TypeOK' /\ InlineHasContact'
  <2>1. request' \in Call /\ request'.at \in {"start", "queue", "send"}
    <3>1. ASSUME NEW k \in {"inline"} \cup Kind, NEW a \in {"queue", "send"}
          PROVE  /\ [NoCall EXCEPT !.mode = k, !.todo = S] \in Call
                 /\ [NoCall EXCEPT !.mode = k, !.todo = S].at = "start"
                 /\ [NoCall EXCEPT !.mode = k, !.at = a, !.todo = S] \in Call
                 /\ [NoCall EXCEPT !.mode = k, !.at = a, !.todo = S].at = a
      BY <1>1, <1>2 DEF Call
    <3>2. CASE BeginCampaign(S)
      BY <3>1, <3>2 DEF BeginCampaign, Kind
    <3>3. CASE BeginEventBroadcast(S)
      BY <3>1, <3>3 DEF BeginEventBroadcast, Kind
    <3>4. CASE BeginBroadcast(S)
      BY <3>1, <3>4 DEF BeginBroadcast, Kind
    <3> QED BY <1>3, <3>2, <3>3, <3>4
  <2>2. recipient' \in [Contact -> {"none", "pending", "sent", "failed"}]
    BY <1>1, <1>3 DEF BeginCampaign, BeginEventBroadcast, BeginBroadcast, TypeOK
  <2> QED BY <1>1, <1>3, <2>1, <2>2 DEF BeginCampaign, BeginEventBroadcast, BeginBroadcast,
         TypeOK, InlineHasContact
<1>4. CASE ResolveAudience
  <2>1. request' \in Call /\ request'.at = "queue"
    BY <1>1, <1>4 DEF ResolveAudience, Call
  <2> QED BY <1>1, <1>4, <2>1 DEF ResolveAudience, TypeOK, InlineHasContact
<1>5. CASE AddBulk
  <2>1. job' \in [JobId -> Job] /\ added' \in [JobId -> Nat]
    BY <1>1, <1>5, EnqueueTyped DEF AddBulk
  <2> QED BY <1>1, <1>2, <1>5, <2>1 DEF AddBulk, TypeOK, InlineHasContact
<1>6. ASSUME NEW c \in Contact, AddOne(c) PROVE TypeOK' /\ InlineHasContact'
  <2>1. job' \in [JobId -> Job] /\ added' \in [JobId -> Nat]
    BY <1>1, <1>6, EnqueueTyped DEF AddOne
  <2>2. /\ request' \in Call /\ request'.at = request.at /\ request'.cur = request.cur
        /\ request'.mode = request.mode
    BY <1>1, <1>6 DEF AddOne, Call
  <2> QED BY <1>1, <1>6, <2>1, <2>2 DEF AddOne, TypeOK, InlineHasContact, Typing
<1>7. CASE EndCall
  BY <1>1, <1>2, <1>7 DEF EndCall, TypeOK, InlineHasContact
<1>8. ASSUME NEW c \in Contact, NEW ok \in BOOLEAN, SendInline(c, ok)
      PROVE  TypeOK' /\ InlineHasContact'
  <2>1. /\ request' \in Call /\ request'.cur = c /\ request'.mode = "inline"
    <3>1. ASSUME NEW a \in {"log", "mark"}, NEW T \in SUBSET Contact
          PROVE  LET r == [request EXCEPT !.at = a, !.todo = T, !.cur = c, !.ok = ok]
                 IN r \in Call /\ r.cur = c /\ r.mode = request.mode
      BY <1>1 DEF Call
    <3>2. request.todo \ {c} \in SUBSET Contact
      BY <1>1 DEF Call
    <3> QED BY <1>8, <3>1, <3>2 DEF SendInline
  <2>2. accepted' \in [Sender -> Nat]
    <3>1. accepted \in [Sender -> Nat] /\ <<c, "inline">> \in Sender
      BY <1>1 DEF TypeOK, Sender
    <3> QED BY <1>8, <3>1 DEF SendInline
  <2>3. c # None
    BY CampaignAssumption
  <2> QED BY <1>1, <1>8, <2>1, <2>2, <2>3 DEF SendInline, TypeOK, InlineHasContact
<1>9. CASE LogInline
  <2>1. request.cur \in Contact
    BY <1>1, <1>9 DEF LogInline, Typing, InlineHasContact, Call
  <2>2. <<request.cur, "inline">> \in Sender
    BY <2>1 DEF Sender
  <2>3. <<<<request.cur, "inline">>, accepted[<<request.cur, "inline">>]>> \in MessageId
    BY <1>1, <2>2 DEF MessageId, TypeOK
  <2>4. logged' \subseteq MessageId
    BY <1>1, <1>9, <2>3 DEF LogInline, TypeOK
  <2>5. /\ request' \in Call /\ request'.cur = request.cur /\ request'.mode = request.mode
    BY <1>1, <1>9 DEF LogInline, Call
  <2> QED BY <1>1, <1>9, <2>4, <2>5 DEF LogInline, TypeOK, Typing, InlineHasContact
<1>10. CASE MarkInline
  <2>1. request' \in Call /\ request'.at = "send"
    BY <1>1, <1>10 DEF MarkInline, Call
  <2>2. recipient' \in [Contact -> {"none", "pending", "sent", "failed"}]
    BY <1>1, <1>10 DEF MarkInline, TypeOK
  <2> QED BY <1>1, <1>10, <2>1, <2>2 DEF MarkInline, TypeOK, InlineHasContact
<1>11. CASE InlineError
  <2>1. /\ request' \in Call /\ request'.cur = request.cur /\ request'.mode = request.mode
    BY <1>1, <1>11 DEF InlineError, Call
  <2>2. faults' \in 0..MaxFaults
    BY <1>1, <1>11, CampaignAssumption DEF InlineError, Fault, TypeOK
  <2> QED BY <1>1, <1>11, <2>1, <2>2 DEF InlineError, TypeOK, Typing, InlineHasContact
<1>12. CASE CallDies
  <2>1. faults' \in 0..MaxFaults
    BY <1>1, <1>12, CampaignAssumption DEF CallDies, Fault, TypeOK
  <2> QED BY <1>1, <1>2, <1>12, <2>1 DEF CallDies, TypeOK, InlineHasContact
<1>13. CASE \E c \in Fickle : OptOut(c) \/ OptIn(c)
  <2>1. unsub' \subseteq Contact
    BY <1>1, <1>13, CampaignAssumption DEF OptOut, OptIn, TypeOK
  <2> QED BY <1>1, <1>13, <2>1 DEF OptOut, OptIn, TypeOK, Typing, InlineHasContact
<1> QED BY <1>3, <1>4, <1>5, <1>6, <1>7, <1>8, <1>9, <1>10, <1>11, <1>12, <1>13 DEF Serve

\* A step of the handler of w, or its beginning or end.
Works(w) == Handle(w) \/ HandlerError(w) \/ Crash(w) \/ \E j \in JobId : Take(w, j)

\* A handler at work has a job, and leaves the other slots alone.
LEMMA JobsOfHandlers ==
  ASSUME Typing, NEW w \in Slot, slot[w].at # "idle"
  PROVE  /\ slot[w].job \in JobId /\ slot[w].job \in Sender
         /\ slot[w].job[1] \in Contact /\ slot[w].job[2] \in Kind
         /\ Attempts[slot[w].job[2]] \in Nat
<1>1. slot[w].job \in JobId
  BY DEF Typing, TypeOK, WorkersHaveJobs, Handler
<1> QED BY <1>1, CampaignAssumption DEF JobId, Sender, Kind

\* The steps that only move the handler: to where, from where.
LEMMA MovesOfHandlers ==
  ASSUME NEW w \in Slot, Check(w) \/ (\E allowed \in BOOLEAN : CheckPlan(w, allowed))
                         \/ SendRefused(w)
  PROVE  \E a \in Step :
           /\ Goto(w, a) /\ slot[w].at \in {"check", "plan", "send"}
           /\ a \in {"plan", "send", "throw", "complete"}
BY DEF Check, CheckPlan, SendRefused, Step

LEMMA HandlerTyped ==
  ASSUME Typing, NEW w \in Slot, Works(w)
  PROVE  TypeOK'
<1> USE DEF queueVars, sendVars, deadVars, apiVars
<1>1. /\ TypeOK /\ slot \in [Slot -> Handler] /\ job \in [JobId -> Job]
      /\ accepted \in [Sender -> Nat] /\ slot[w] \in Handler
  BY DEF Typing, TypeOK
<1>2. ASSUME NEW a \in Step, Goto(w, a) PROVE TypeOK'
  <2>1. slot' \in [Slot -> Handler]
    BY <1>1, <1>2 DEF Goto, Handler
  <2> QED BY <1>1, <1>2, <2>1 DEF Goto, TypeOK
<1>3. CASE SendAccepted(w)
  <2>1. accepted[slot[w].job] + 1 \in Nat /\ slot[w].job \in Sender
    BY <1>1, <1>3, JobsOfHandlers DEF SendAccepted
  <2>2. <<slot[w].job, accepted[slot[w].job] + 1>> \in MessageId
    BY <2>1 DEF MessageId
  <2>3. slot' \in [Slot -> Handler]
    <3>1. ASSUME NEW id \in MessageId \cup {None},
                 slot' = [slot EXCEPT ![w].at = "svclog", ![w].id = id]
          PROVE  slot' \in [Slot -> Handler]
      BY <1>1, <3>1 DEF Handler, Step
    <3> QED BY <1>3, <2>2, <3>1 DEF SendAccepted
  <2>4. accepted' \in [Sender -> Nat]
    BY <1>1, <1>3, <2>1 DEF SendAccepted
  <2> QED BY <1>1, <1>3, <2>3, <2>4 DEF SendAccepted, TypeOK
<1>4. CASE ServiceLog(w) \/ WorkerLog(w)
  <2>1. logged' \subseteq MessageId
    BY <1>1, <1>4 DEF ServiceLog, WorkerLog, InsertLog, TypeOK, Handler
  <2>2. slot' \in [Slot -> Handler]
    BY <1>1, <1>4 DEF ServiceLog, WorkerLog, InsertLog, Handler, Step
  <2> QED BY <1>1, <1>4, <2>1, <2>2 DEF ServiceLog, WorkerLog, InsertLog, TypeOK
<1>5. CASE IncrementUsage(w)
  <2>1. slot' \in [Slot -> Handler]
    BY <1>1, <1>5 DEF IncrementUsage, Handler, Step
  <2> QED BY <1>1, <1>5, <2>1 DEF IncrementUsage, TypeOK
<1>6. CASE Complete(w)
  <2>1. slot' \in [Slot -> Handler]
    BY <1>1, <1>6 DEF Complete, Idle, Handler, Step
  <2>2. job' \in [JobId -> Job]
    BY <1>1, <1>6, JobOperationsTyped DEF Complete
  <2> QED BY <1>1, <1>6, <2>1, <2>2 DEF Complete, TypeOK
<1>7. CASE Throw(w)
  <2>1. slot' \in [Slot -> Handler]
    BY <1>1, <1>7 DEF Throw, Rejected, Idle, Handler, Step
  <2>2. slot[w].job \in JobId /\ Attempts[slot[w].job[2]] + 0 \in Nat
    BY <1>7, JobsOfHandlers DEF Throw, Rejected
  <2>3. job' \in [JobId -> Job]
    BY <1>1, <1>7, <2>2, JobOperationsTyped DEF Throw, Rejected
  <2>4. dying' \subseteq JobId
    BY <1>1, <1>7, <2>2 DEF Throw, Rejected, TypeOK
  <2> QED BY <1>1, <1>7, <2>1, <2>3, <2>4 DEF Throw, Rejected, TypeOK
<1>8. CASE HandlerError(w) \/ Crash(w)
  <2>1. slot' \in [Slot -> Handler]
    <3>1. CASE HandlerError(w)
      BY <1>1, <3>1 DEF HandlerError, Handler, Step
    <3>2. CASE Crash(w)
      BY <1>1, <3>2 DEF Crash, Idle, Handler, Step
    <3> QED BY <1>8, <3>1, <3>2
  <2>2. faults' \in 0..MaxFaults
    BY <1>1, <1>8, CampaignAssumption DEF HandlerError, Crash, Fault, TypeOK
  <2> QED BY <1>1, <1>8, <2>1, <2>2 DEF HandlerError, Crash, TypeOK
<1>9. ASSUME NEW j \in JobId, Take(w, j) PROVE TypeOK'
  <2>1. slot' \in [Slot -> Handler]
    BY <1>1, <1>9 DEF Take, Idle, Handler, Step
  <2>2. Started(job[j], w) \in Job
    BY <1>1, JobOperationsTyped
  <2>3. job' \in [JobId -> Job]
    BY <1>1, <1>9, <2>2 DEF Take
  <2> QED BY <1>1, <1>9, <2>1, <2>3 DEF Take, TypeOK
<1> QED BY <1>2, <1>3, <1>4, <1>5, <1>6, <1>7, <1>8, <1>9, MovesOfHandlers DEF Works, Handle

\* The queue's own steps and the failed listener.
QueueMoves(j) ==
  \/ ExpireLock(j) \/ LoseLock(j) \/ RecoverStalled(j) \/ Bury(j) \/ Forget(j)
  \/ DeadLetter(j) \/ ListenerDies(j)

LEMMA QueueTyped ==
  ASSUME Typing, NEW j \in JobId, QueueMoves(j)
  PROVE  TypeOK'
<1> USE DEF queueVars, sendVars, deadVars, apiVars
<1>1. TypeOK /\ job[j] \in Job /\ job \in [JobId -> Job]
  BY DEF Typing, TypeOK
<1>2. ASSUME NEW x \in Job, SetJob(j, x) PROVE job' \in [JobId -> Job]
  BY <1>1, <1>2 DEF SetJob
<1>3. CASE ExpireLock(j) \/ LoseLock(j) \/ RecoverStalled(j) \/ Bury(j) \/ Forget(j)
  <2>1. job' \in [JobId -> Job]
    BY <1>1, <1>2, <1>3, JobOperationsTyped DEF ExpireLock, LoseLock, RecoverStalled, Bury, Forget
  <2>2. faults' \in 0..MaxFaults
    BY <1>1, <1>3, CampaignAssumption DEF ExpireLock, LoseLock, RecoverStalled, Bury, Forget, Fault, TypeOK
  <2>3. dlq' \subseteq JobId /\ dying' \subseteq JobId
    BY <1>1, <1>3 DEF ExpireLock, LoseLock, RecoverStalled, Bury, Forget, TypeOK
  <2>4. UNCHANGED <<added, slot, apiVars, sendVars>>
    BY <1>3 DEF ExpireLock, LoseLock, RecoverStalled, Bury, Forget, SetJob
  <2> QED BY <1>1, <2>1, <2>2, <2>3, <2>4 DEF TypeOK
<1>4. CASE DeadLetter(j)
  BY <1>1, <1>4 DEF DeadLetter, TypeOK
<1>5. CASE ListenerDies(j)
  <2>1. faults' \in 0..MaxFaults
    BY <1>1, <1>5, CampaignAssumption DEF ListenerDies, Fault, TypeOK
  <2> QED BY <1>1, <1>5, <2>1 DEF ListenerDies, TypeOK
<1> QED BY <1>3, <1>4, <1>5 DEF QueueMoves

\* A step of Next belongs to a caller, a handler or the queue.
Calling ==
  \/ \E S \in SUBSET Contact :
       BeginCampaign(S) \/ BeginEventBroadcast(S) \/ BeginBroadcast(S)
  \/ Serve \/ InlineError \/ CallDies
  \/ \E c \in Fickle : OptOut(c) \/ OptIn(c)

LEMMA NextSplit ==
  ASSUME Next
  PROVE  Calling \/ (\E w \in Slot : Works(w)) \/ \E j \in JobId : QueueMoves(j)
BY DEF Next, Calling, Works, QueueMoves

\* Callers and the queue change no slot, a handler only its own.
LEMMA CallersAlone ==
  ASSUME Calling
  PROVE  UNCHANGED slot
BY DEF Calling, BeginCampaign, BeginEventBroadcast, BeginBroadcast, Serve, ResolveAudience,
  AddBulk, EndCall, AddOne, SendInline, LogInline, MarkInline, InlineError, CallDies,
  OptOut, OptIn

LEMMA QueueAlone ==
  ASSUME NEW j \in JobId, QueueMoves(j)
  PROVE  slot' = slot /\ request' = request
BY DEF QueueMoves, ExpireLock, LoseLock, RecoverStalled, Bury, Forget, SetJob,
  DeadLetter, ListenerDies, apiVars

LEMMA HandlersAlone ==
  ASSUME Typing, NEW w \in Slot, Works(w)
  PROVE  /\ \A v \in Slot : v # w => slot'[v] = slot[v]
         /\ request' = request
<1>1. slot \in [Slot -> Handler]
  BY DEF Typing, TypeOK
<1>2. CASE \E a \in Step : Goto(w, a)
  BY <1>1, <1>2 DEF Goto, apiVars
<1>3. CASE ServiceLog(w) \/ WorkerLog(w)
  BY <1>1, <1>3 DEF ServiceLog, WorkerLog, InsertLog, apiVars
<1>4. CASE SendAccepted(w) \/ IncrementUsage(w) \/ HandlerError(w)
  BY <1>1, <1>4 DEF SendAccepted, IncrementUsage, HandlerError, apiVars
<1>5. CASE Complete(w) \/ Throw(w) \/ Crash(w) \/ \E j \in JobId : Take(w, j)
  BY <1>1, <1>5 DEF Complete, Throw, Rejected, Crash, Take, apiVars
<1> QED BY <1>2, <1>3, <1>4, <1>5, MovesOfHandlers DEF Works, Handle

LEMMA WorkersKeepJobs ==
  ASSUME Typing, NEW w \in Slot, Works(w)
  PROVE  WorkersHaveJobs'
<1>1. slot \in [Slot -> Handler] /\ None \notin JobId
  BY CampaignAssumption DEF Typing, TypeOK
<1>2. slot'[w].at # "idle" <=> slot'[w].job # None
  <2>1. CASE \E j \in JobId : Take(w, j)
    BY <1>1, <2>1 DEF Take, Idle
  <2>2. CASE Complete(w) \/ Throw(w) \/ Crash(w)
    BY <1>1, <2>2 DEF Complete, Throw, Rejected, Crash, Idle
  <2>3. ASSUME slot'[w].job = slot[w].job, slot[w].at # "idle", slot'[w].at # "idle"
        PROVE  slot'[w].at # "idle" <=> slot'[w].job # None
    BY <2>3 DEF Typing, WorkersHaveJobs
  <2>4. CASE Check(w) \/ (\E allowed \in BOOLEAN : CheckPlan(w, allowed)) \/ SendRefused(w)
    BY <1>1, <2>3, <2>4, MovesOfHandlers DEF Goto, Handler
  <2>5. CASE SendAccepted(w)
    BY <1>1, <2>3, <2>5 DEF SendAccepted, Handler
  <2>6. CASE ServiceLog(w) \/ WorkerLog(w)
    BY <1>1, <2>3, <2>6 DEF ServiceLog, WorkerLog, InsertLog, Handler
  <2>7. CASE IncrementUsage(w) \/ HandlerError(w)
    BY <1>1, <2>3, <2>7 DEF IncrementUsage, HandlerError, Handler
  <2> QED BY <2>1, <2>2, <2>4, <2>5, <2>6, <2>7 DEF Works, Handle
<1> QED BY <1>2, HandlersAlone DEF Typing, WorkersHaveJobs

LEMMA TypingKept == Typing /\ [Next]_vars => Typing'
<1> SUFFICES ASSUME Typing, [Next]_vars PROVE Typing'
  OBVIOUS
<1>1. CASE Calling
  BY <1>1, CallersTyped, CallersAlone DEF Calling, Typing, WorkersHaveJobs
<1>2. ASSUME NEW w \in Slot, Works(w) PROVE Typing'
  <2>1. TypeOK'
    BY <1>2, HandlerTyped
  <2>2. WorkersHaveJobs'
    BY <1>2, WorkersKeepJobs
  <2>3. UNCHANGED request
    BY <1>2, HandlersAlone
  <2> QED BY <2>1, <2>2, <2>3 DEF Typing, InlineHasContact
<1>3. CASE \E j \in JobId : QueueMoves(j)
  BY <1>3, QueueTyped, QueueAlone DEF Typing, InlineHasContact, WorkersHaveJobs
<1>4. CASE UNCHANGED vars
  BY <1>4 DEF vars, Typing, TypeOK, WorkersHaveJobs, InlineHasContact
<1> QED BY <1>1, <1>2, <1>3, <1>4, NextSplit

LEMMA TypingAlways == Spec => []Typing
BY InitTyped, TypingKept, PTL DEF Spec

\* The variables of CampaignSend keep their types.
THEOREM TypeCorrect == Spec => []TypeOK
<1>1. Typing => TypeOK
  BY DEF Typing
<1> QED BY <1>1, TypingAlways, PTL

-----------------------------------------------------------------------------
(* Opting out *)

\* Only a worker's accepted send and the inline loop count as copies.
LEMMA CopiesOfSends ==
  ASSUME Next
  PROVE  \/ UNCHANGED accepted
         \/ \E w \in Slot : SendAccepted(w)
         \/ \E c \in Contact, ok \in BOOLEAN : SendInline(c, ok)
BY NextSplit DEF sendVars, Calling, BeginCampaign, BeginEventBroadcast, BeginBroadcast, Serve,
  ResolveAudience, AddBulk, EndCall, AddOne, LogInline, MarkInline, InlineError, CallDies,
  OptOut, OptIn, Works, Handle, Check, CheckPlan, SendRefused, Goto, ServiceLog, WorkerLog,
  InsertLog, IncrementUsage, Complete, Throw, Rejected, HandlerError, Crash, Take, QueueMoves,
  ExpireLock, LoseLock, RecoverStalled, Bury, Forget, SetJob, DeadLetter, ListenerDies

\* The handler of w is at work on a message to c.
UnderwayAt(w, c) ==
  /\ slot[w].job # None /\ slot[w].job[1] = c
  /\ slot[w].at \in {"plan", "send", "svclog", "bill", "log"}

\* No step puts a handler to work on a contact who has opted out.
LEMMA NobodyStarts ==
  ASSUME Typing, NEW w \in Slot, Works(w), NEW c \in Contact, c \in unsub, ~UnderwayAt(w, c)
  PROVE  ~UnderwayAt(w, c)'
<1>1. slot \in [Slot -> Handler] /\ (slot[w].at # "idle" => slot[w].job # None)
  BY DEF Typing, TypeOK, WorkersHaveJobs
<1>2. CASE \E j \in JobId : Take(w, j)
  BY <1>1, <1>2 DEF Take, Idle, UnderwayAt
<1>3. CASE Complete(w) \/ Throw(w) \/ Crash(w)
  BY <1>1, <1>3 DEF Complete, Throw, Rejected, Crash, Idle, UnderwayAt
<1>4. CASE Check(w)
  BY <1>1, <1>4 DEF Check, Goto, Handler, UnderwayAt
<1>5. CASE (\E allowed \in BOOLEAN : CheckPlan(w, allowed)) \/ SendRefused(w)
  BY <1>1, <1>5 DEF CheckPlan, SendRefused, Goto, Handler, UnderwayAt
<1>6. CASE SendAccepted(w)
  <2>1. slot'[w].job = slot[w].job
    BY <1>1, <1>6 DEF SendAccepted, Handler
  <2> QED BY <1>1, <1>6, <2>1 DEF SendAccepted, UnderwayAt
<1>7. CASE ServiceLog(w) \/ WorkerLog(w)
  BY <1>1, <1>7 DEF ServiceLog, WorkerLog, InsertLog, Handler, UnderwayAt
<1>8. CASE IncrementUsage(w) \/ HandlerError(w)
  BY <1>1, <1>8 DEF IncrementUsage, HandlerError, Handler, UnderwayAt
<1> QED BY <1>2, <1>3, <1>4, <1>5, <1>6, <1>7, <1>8 DEF Works, Handle

LEMMA OptOutStep ==
  ASSUME Typing, [Next]_vars, NEW c \in Contact, c \in unsub, ~Underway(c)
  PROVE  /\ ~Underway(c)'
         /\ \A k \in Kind : accepted'[<<c, k>>] = accepted[<<c, k>>]
<1>1. \A w \in Slot : ~UnderwayAt(w, c)
  BY DEF Underway, UnderwayAt
<1>2. ~Underway(c)'
  <2>1. CASE UNCHANGED slot
    BY <1>1, <2>1 DEF Underway, UnderwayAt
  <2>2. ASSUME NEW w \in Slot, Works(w) PROVE ~Underway(c)'
    <3>1. ~UnderwayAt(w, c)'
      BY <1>1, <2>2, NobodyStarts
    <3>2. \A v \in Slot : v # w => ~UnderwayAt(v, c)'
      BY <1>1, <2>2, HandlersAlone DEF UnderwayAt
    <3> QED BY <3>1, <3>2 DEF Underway, UnderwayAt
  <2> QED BY <2>1, <2>2, NextSplit, CallersAlone, QueueAlone DEF vars
<1>3. ASSUME NEW k \in Kind PROVE accepted'[<<c, k>>] = accepted[<<c, k>>]
  <2>1. accepted \in [Sender -> Nat] /\ k # "inline"
    BY DEF Typing, TypeOK, Kind
  <2>2. CASE UNCHANGED accepted
    BY <2>2
  <2>3. ASSUME NEW w \in Slot, SendAccepted(w) PROVE accepted'[<<c, k>>] = accepted[<<c, k>>]
    <3>1. slot[w].at = "send" /\ slot[w].job # None
      BY <2>3 DEF SendAccepted, Typing, WorkersHaveJobs
    <3>2. slot[w].job[1] # c
      BY <1>1, <3>1 DEF UnderwayAt
    <3> QED BY <2>1, <2>3, <3>2 DEF SendAccepted
  <2>4. ASSUME NEW d \in Contact, NEW ok \in BOOLEAN, SendInline(d, ok)
        PROVE  accepted'[<<c, k>>] = accepted[<<c, k>>]
    BY <2>1, <2>4 DEF SendInline
  <2>5. CASE UNCHANGED vars
    BY <2>5 DEF vars
  <2> QED BY <2>2, <2>3, <2>4, <2>5, CopiesOfSends
<1> QED BY <1>2, <1>3

\* Once a contact has opted out and no handler is past its checks, no job, retry
\* or stalled job of any campaign or broadcast reaches the contact, however many
\* workers and dispatches, until it opts in again.
THEOREM OptOutIsKept == Spec => OptOutSilences
<1>1. Typing /\ [Next]_vars =>
        [\A c \in Contact :
           (c \in unsub /\ c \in unsub' /\ ~Underway(c)) =>
             /\ ~Underway(c)'
             /\ \A k \in Kind : accepted'[<<c, k>>] = accepted[<<c, k>>]]_vars
  BY OptOutStep
<1> QED BY <1>1, TypingAlways, PTL DEF Spec, OptOutSilences

-----------------------------------------------------------------------------
(* How many copies a job can still give its contact. A job has RunsOf(j) runs *)
(* each time the queue takes it as new. A run to be begun, a handler before   *)
(* its send, and a copy accepted weigh one each; a step passes the weight on  *)
(* from the first to the last or drops it, and only a fault adds to it.       *)

\* Runs of a job that are still to be begun: held says whether a live handler
\* has the job under lock, n how many runs the job has.
LeftOf(x, held, n) ==
  IF x.st = "waiting" \/ (x.st = "active" /\ ~held) THEN n - x.made
  ELSE IF x.st = "active" THEN n - x.made - 1
  ELSE 0

\* A job that may run again has not used up its runs.
RunsRemain(x, n) == x.st \in {"waiting", "active"} => x.made < n

LEMMA LeftOfOperations ==
  ASSUME NEW x \in Job, NEW a \in Nat, NEW n \in Nat, n = (IF a = 0 THEN 1 ELSE a),
         RunsRemain(x, n), NEW h \in BOOLEAN, NEW g \in BOOLEAN
  PROVE  /\ LeftOf(x, h, n) \in Nat
         /\ LeftOf(x, g, n) <= LeftOf(x, h, n) + 1
         /\ (h => g) => LeftOf(x, g, n) <= LeftOf(x, h, n)
         /\ RunsRemain(NoJob, n) /\ LeftOf(NoJob, g, n) = 0
         /\ x.st = "none" => RunsRemain(Added(x), n) /\ LeftOf(Added(x), g, n) = n
         /\ \A w \in Slot : Startable(x) => /\ RunsRemain(Started(x, w), n)
                                             /\ LeftOf(Started(x, w), TRUE, n) + 1 = LeftOf(x, h, n)
         /\ RunsRemain(Completed(x), n) /\ LeftOf(Completed(x), g, n) = 0
         /\ x.st = "active" => RunsRemain(Failed(x, a), n) /\ LeftOf(Failed(x, a), g, n) <= LeftOf(x, h, n)
         /\ RunsRemain(Unlocked(x), n) /\ Unlocked(x).st = x.st /\ Unlocked(x).made = x.made
         /\ Stalled(x) => RunsRemain(Recovered(x), n) /\ LeftOf(Recovered(x), g, n) = LeftOf(x, FALSE, n)
         /\ GivenUp(x) => RunsRemain(Buried(x), n) /\ LeftOf(Buried(x), g, n) = 0
<1>1. x.made \in Nat /\ x.st \in JobState /\ n >= 1
  BY DEF Job
<1>2. /\ LeftOf(x, h, n) \in Nat
      /\ LeftOf(x, g, n) <= LeftOf(x, h, n) + 1
      /\ (h => g) => LeftOf(x, g, n) <= LeftOf(x, h, n)
  BY <1>1 DEF LeftOf, RunsRemain
<1>3. RunsRemain(NoJob, n) /\ LeftOf(NoJob, g, n) = 0
  BY DEF RunsRemain, LeftOf, NoJob
<1>4. x.st = "none" => RunsRemain(Added(x), n) /\ LeftOf(Added(x), g, n) = n
  BY <1>1 DEF Added, RunsRemain, LeftOf, NoJob
<1>5. ASSUME NEW w \in Slot, Startable(x)
      PROVE  RunsRemain(Started(x, w), n) /\ LeftOf(Started(x, w), TRUE, n) + 1 = LeftOf(x, h, n)
  <2>1. Started(x, w).st = "active" /\ Started(x, w).made = x.made /\ x.st = "waiting"
    BY <1>5 DEF Started, Startable, Job
  <2> QED BY <1>1, <2>1 DEF RunsRemain, LeftOf
<1>6. RunsRemain(Completed(x), n) /\ LeftOf(Completed(x), g, n) = 0
  BY DEF Completed, RunsRemain, LeftOf, Job
<1>7. ASSUME x.st = "active"
      PROVE  RunsRemain(Failed(x, a), n) /\ LeftOf(Failed(x, a), g, n) <= LeftOf(x, h, n)
  <2>1. /\ Failed(x, a).made = x.made + 1
        /\ Failed(x, a).st = IF x.made + 1 < a THEN "waiting" ELSE "failed"
    BY DEF Failed, Retries, Job
  <2>2. CASE x.made + 1 < a
    BY <1>1, <1>7, <2>1, <2>2 DEF RunsRemain, LeftOf
  <2>3. CASE ~(x.made + 1 < a)
    BY <1>1, <1>2, <2>1, <2>3 DEF RunsRemain, LeftOf
  <2> QED BY <2>2, <2>3
<1>8. RunsRemain(Unlocked(x), n) /\ Unlocked(x).st = x.st /\ Unlocked(x).made = x.made
  BY DEF Unlocked, RunsRemain, Job
<1>9. ASSUME Stalled(x)
      PROVE  RunsRemain(Recovered(x), n) /\ LeftOf(Recovered(x), g, n) = LeftOf(x, FALSE, n)
  <2>1. Recovered(x).st = "waiting" /\ Recovered(x).made = x.made /\ x.st = "active"
    BY <1>9 DEF Recovered, Stalled, Job
  <2> QED BY <1>1, <2>1 DEF RunsRemain, LeftOf
<1>10. GivenUp(x) => RunsRemain(Buried(x), n) /\ LeftOf(Buried(x), g, n) = 0
  BY DEF Buried, RunsRemain, LeftOf, Job
<1> QED BY <1>2, <1>3, <1>4, <1>5, <1>6, <1>7, <1>8, <1>9, <1>10

\* A live handler of the job that still holds its lock.
Held(j) == job[j].owner # None /\ slot[job[j].owner].job = j

Left(j) == LeftOf(job[j], Held(j), RunsOf(j))

\* The handlers of a job that may still send.
Due(j) == {w \in Slot : slot[w].job = j /\ slot[w].at \in {"check", "plan", "send"}}

InBudget(j) ==
  accepted[j] + Cardinality(Due(j)) + Left(j) <= added[j] * RunsOf(j) + faults

JobsSound == \A j \in JobId : Sound(job[j]) /\ RunsRemain(job[j], RunsOf(j))

Budget == Typing /\ JobsSound /\ \A j \in JobId : InBudget(j)

LEMMA BudgetTypes ==
  ASSUME Typing, JobsSound, NEW j \in JobId
  PROVE  /\ accepted[j] \in Nat /\ added[j] \in Nat /\ faults \in Nat
         /\ RunsOf(j) \in Nat /\ added[j] * RunsOf(j) \in Nat
         /\ RunsOf(j) = (IF Attempts[j[2]] = 0 THEN 1 ELSE Attempts[j[2]])
         /\ Attempts[j[2]] \in Nat
         /\ Held(j) \in BOOLEAN /\ Left(j) \in Nat
         /\ job[j] \in Job /\ Sound(job[j]) /\ RunsRemain(job[j], RunsOf(j))
<1>1. j \in Sender /\ Attempts[j[2]] \in Nat
  BY CampaignAssumption DEF JobId, Sender, Kind
<1>2. RunsOf(j) = (IF Attempts[j[2]] = 0 THEN 1 ELSE Attempts[j[2]]) /\ RunsOf(j) \in Nat
  BY <1>1 DEF RunsOf
<1>3. accepted[j] \in Nat /\ added[j] \in Nat /\ faults \in Nat /\ job[j] \in Job
  BY <1>1, CampaignAssumption DEF Typing, TypeOK
<1>4. Sound(job[j]) /\ RunsRemain(job[j], RunsOf(j)) /\ Held(j) \in BOOLEAN
  BY DEF JobsSound, Held
<1>5. Left(j) \in Nat
  BY <1>1, <1>2, <1>3, <1>4, LeftOfOperations DEF Left
<1>6. added[j] * RunsOf(j) \in Nat
  BY <1>2, <1>3
<1> QED BY <1>1, <1>2, <1>3, <1>4, <1>5, <1>6

LEMMA DueFinite ==
  ASSUME NEW j
  PROVE  IsFiniteSet(Due(j)) /\ Cardinality(Due(j)) \in Nat
BY CampaignAssumption, FS_Subset, FS_CardinalityType DEF Due

LEMMA LeftNext ==
  ASSUME Typing', JobsSound', NEW j \in JobId
  PROVE  Left(j)' \in Nat
<1>1. Attempts[j[2]] \in Nat /\ RunsOf(j) = (IF Attempts[j[2]] = 0 THEN 1 ELSE Attempts[j[2]])
  BY CampaignAssumption DEF JobId, Kind, RunsOf
<1>2. RunsOf(j) \in Nat
  BY <1>1
<1>3. job'[j] \in Job /\ RunsRemain(job'[j], RunsOf(j)) /\ Held(j)' \in BOOLEAN
  BY DEF Typing, TypeOK, JobsSound, Held
<1> QED BY <1>1, <1>2, <1>3, LeftOfOperations DEF Left

\* The budget of one job is kept by a step that accepts nothing, brings no handler
\* before its send, and adds no run that a fault does not pay for.
Calm(j) ==
  /\ accepted'[j] = accepted[j] /\ added'[j] = added[j]
  /\ Due(j)' \subseteq Due(j)
  /\ \/ faults' = faults /\ Left(j)' <= Left(j)
     \/ faults' = faults + 1 /\ Left(j)' <= Left(j) + 1

LEMMA CalmKeepsBudget ==
  ASSUME Budget, Typing', JobsSound', NEW j \in JobId, Calm(j)
  PROVE  InBudget(j)'
<1> DEFINE c == Cardinality(Due(j))
           d == Cardinality(Due(j)')
           b == added[j] * RunsOf(j)
<1>1. d <= c /\ c \in Nat /\ d \in Nat
  <2>1. IsFiniteSet(Due(j)) /\ c \in Nat
    BY DueFinite
  <2>2. IsFiniteSet(Due(j)') /\ d <= c
    BY <2>1, FS_Subset DEF Calm
  <2> QED BY <2>1, <2>2, FS_CardinalityType
<1>2. /\ accepted[j] \in Nat /\ faults \in Nat /\ b \in Nat /\ Left(j) \in Nat
      /\ Left(j)' \in Nat
  BY BudgetTypes, LeftNext DEF Budget
<1>3. accepted[j] + c + Left(j) <= b + faults
  BY DEF Budget, InBudget
<1> SUFFICES accepted'[j] + d + Left(j)' <= b + faults'
  BY DEF InBudget, Calm
<1> HIDE DEF c, d, b
<1> QED BY <1>1, <1>2, <1>3 DEF Calm

\* What the queue's operations make of the job of j is sound.
Good(x, j) == Sound(x) /\ RunsRemain(x, RunsOf(j))

LEMMA OperationsGood ==
  ASSUME Typing, JobsSound, NEW j \in JobId
  PROVE  /\ Good(job[j], j) /\ Good(NoJob, j) /\ Good(Added(job[j]), j)
         /\ \A w \in Slot : Startable(job[j]) => Good(Started(job[j], w), j)
         /\ Good(Completed(job[j]), j)
         /\ job[j].st = "active" => Good(Failed(job[j], Attempts[j[2]]), j)
         /\ Good(Unlocked(job[j]), j)
         /\ Stalled(job[j]) => Good(Recovered(job[j]), j)
         /\ GivenUp(job[j]) => Good(Buried(job[j]), j)
<1>1. /\ job[j] \in Job /\ Sound(job[j]) /\ RunsRemain(job[j], RunsOf(j))
      /\ RunsOf(j) \in Nat /\ Attempts[j[2]] \in Nat
      /\ RunsOf(j) = (IF Attempts[j[2]] = 0 THEN 1 ELSE Attempts[j[2]])
  BY BudgetTypes
<1>2. /\ Sound(NoJob) /\ Sound(Added(job[j]))
      /\ \A w \in Slot : Sound(Started(job[j], w))
      /\ Sound(Completed(job[j])) /\ Sound(Failed(job[j], Attempts[j[2]])) /\ Sound(Unlocked(job[j]))
      /\ Stalled(job[j]) => Sound(Recovered(job[j]))
      /\ GivenUp(job[j]) => Sound(Buried(job[j]))
  BY <1>1, LocksOfOperations
<1>3. /\ RunsRemain(NoJob, RunsOf(j))
      /\ \A w \in Slot : Startable(job[j]) => RunsRemain(Started(job[j], w), RunsOf(j))
      /\ RunsRemain(Completed(job[j]), RunsOf(j))
      /\ job[j].st = "active" => RunsRemain(Failed(job[j], Attempts[j[2]]), RunsOf(j))
      /\ RunsRemain(Unlocked(job[j]), RunsOf(j))
      /\ Stalled(job[j]) => RunsRemain(Recovered(job[j]), RunsOf(j))
      /\ GivenUp(job[j]) => RunsRemain(Buried(job[j]), RunsOf(j))
  BY <1>1, LeftOfOperations
<1>4. RunsRemain(Added(job[j]), RunsOf(j))
  <2>1. CASE job[j].st = "none"
    BY <1>1, <2>1, LeftOfOperations
  <2>2. CASE job[j].st # "none"
    BY <1>1, <2>2 DEF Added
  <2> QED BY <2>1, <2>2
<1> QED BY <1>1, <1>2, <1>3, <1>4 DEF Good

\* Who touches the queue.
LEMMA JobsOfActors ==
  ASSUME Next
  PROVE  \/ UNCHANGED <<job, added>>
         \/ \E J : Enqueue(J)
         \/ \E w \in Slot : Complete(w) \/ Throw(w) \/ \E j \in JobId : Take(w, j)
         \/ \E j \in JobId : ExpireLock(j) \/ LoseLock(j) \/ RecoverStalled(j) \/ Bury(j) \/ Forget(j)
BY NextSplit DEF queueVars, Calling, BeginCampaign, BeginEventBroadcast, BeginBroadcast, Serve,
  ResolveAudience, AddBulk, AddOne, EndCall, SendInline, LogInline, MarkInline, InlineError,
  CallDies, OptOut, OptIn, Works, Handle, Check, CheckPlan, SendAccepted, SendRefused, Goto,
  ServiceLog, WorkerLog, InsertLog, IncrementUsage, HandlerError, Crash, QueueMoves,
  DeadLetter, ListenerDies

\* A job whose processor threw has failed or waits again, if the worker holds it.
LEMMA ThrowFails ==
  ASSUME Typing, JobsSound, NEW w \in Slot, Throw(w)
  PROVE  LET j == slot[w].job IN
         /\ j \in JobId /\ slot[w].at = "throw" /\ slot' = [slot EXCEPT ![w] = Idle]
         /\ \/ job' = job /\ dying' = dying /\ job[j].owner # w
            \/ /\ job[j].owner = w /\ job[j].st = "active"
               /\ job' = [job EXCEPT ![j] = Failed(@, Attempts[j[2]])]
               /\ dying' = IF Retries(job[j], Attempts[j[2]]) THEN dying ELSE dying \cup {j}
<1> DEFINE j == slot[w].job
<1>1. slot[w].at = "throw"
  BY DEF Throw, Rejected
<1>2. j \in JobId /\ Attempts[j[2]] \in Nat
  BY <1>1, JobsOfHandlers
<1>3. Attempts[j[2]] + 0 = Attempts[j[2]]
  BY <1>2
<1>4. job[j].owner = w => job[j].st = "active"
  BY <1>2, QueueAssumption DEF JobsSound, Sound
<1> QED BY <1>1, <1>2, <1>3, <1>4 DEF Throw, Rejected

LEMMA JobsStaySound ==
  ASSUME Typing, JobsSound, Next
  PROVE  JobsSound'
<1>1. job \in [JobId -> Job] /\ \A j \in JobId : Good(job[j], j)
  BY DEF Typing, TypeOK, JobsSound, Good
<1> SUFFICES \A j \in JobId : Good(job'[j], j)
  BY DEF JobsSound, Good
<1>2. ASSUME NEW k \in JobId, NEW x, Good(x, k), job' = [job EXCEPT ![k] = x]
      PROVE  \A j \in JobId : Good(job'[j], j)
  BY <1>1, <1>2
<1>3. ASSUME NEW J, Enqueue(J) PROVE \A j \in JobId : Good(job'[j], j)
  BY <1>1, <1>3, OperationsGood DEF Enqueue
<1>4. ASSUME NEW w \in Slot, Complete(w) PROVE \A j \in JobId : Good(job'[j], j)
  <2>1. slot[w].job \in JobId
    BY <1>4, JobsOfHandlers DEF Complete
  <2> QED BY <1>1, <1>2, <1>4, <2>1, OperationsGood DEF Complete
<1>5. ASSUME NEW w \in Slot, Throw(w) PROVE \A j \in JobId : Good(job'[j], j)
  BY <1>1, <1>2, <1>5, ThrowFails, OperationsGood
<1>6. ASSUME NEW w \in Slot, NEW k \in JobId, Take(w, k) PROVE \A j \in JobId : Good(job'[j], j)
  BY <1>1, <1>2, <1>6, OperationsGood DEF Take
<1>7. ASSUME NEW k \in JobId,
             ExpireLock(k) \/ LoseLock(k) \/ RecoverStalled(k) \/ Bury(k) \/ Forget(k)
      PROVE  \A j \in JobId : Good(job'[j], j)
  BY <1>1, <1>2, <1>7, OperationsGood DEF ExpireLock, LoseLock, RecoverStalled, Bury, Forget, SetJob
<1> QED BY <1>1, <1>3, <1>4, <1>5, <1>6, <1>7, JobsOfActors

\* A job that the step does not touch, and whose lock stays with its handler.
LEMMA SameLeft ==
  ASSUME NEW j \in JobId, job'[j] = job[j], Held(j)' = Held(j)
  PROVE  Left(j)' = Left(j)
BY DEF Left, RunsOf

\* Calls of the API process other than additions to the queue, and the listener.
LEMMA QuietIsCalm ==
  ASSUME Budget, UNCHANGED <<job, added, slot>>, faults' \in {faults, faults + 1},
         NEW j \in JobId, accepted'[j] = accepted[j]
  PROVE  Calm(j)
<1>1. Held(j)' = Held(j) /\ Due(j)' = Due(j)
  BY DEF Held, Due
<1>2. Left(j)' = Left(j) /\ Left(j) \in Nat
  BY <1>1, SameLeft, BudgetTypes DEF Budget
<1> QED BY <1>1, <1>2 DEF Calm

LEMMA CallsInBudget ==
  ASSUME Budget, Calling, NEW j \in JobId, ~AddBulk, \A c \in Contact : ~AddOne(c)
  PROVE  Calm(j)
<1>1. accepted \in [Sender -> Nat] /\ \A c \in Contact : j # <<c, "inline">>
  BY DEF Budget, Typing, TypeOK, JobId, Kind
<1>2. accepted'[j] = accepted[j]
  <2>1. CASE \E c \in Contact, ok \in BOOLEAN : SendInline(c, ok)
    BY <1>1, <2>1 DEF SendInline
  <2>2. CASE UNCHANGED accepted
    BY <2>2
  <2> QED BY <2>1, <2>2 DEF sendVars, Calling, BeginCampaign, BeginEventBroadcast, BeginBroadcast,
    Serve, ResolveAudience, AddBulk, EndCall, AddOne, LogInline, MarkInline, InlineError,
    CallDies, OptOut, OptIn
<1>3. UNCHANGED <<job, added, slot>> /\ faults' \in {faults, faults + 1}
  BY DEF queueVars, Calling, BeginCampaign, BeginEventBroadcast, BeginBroadcast,
    Serve, ResolveAudience, AddBulk, EndCall, AddOne, SendInline, LogInline, MarkInline,
    InlineError, CallDies, OptOut, OptIn, Fault
<1> QED BY <1>2, <1>3, QuietIsCalm

LEMMA OneMore ==
  ASSUME NEW a \in Nat, NEW n \in Nat
  PROVE  (a + 1) * n = a * n + n /\ a * n \in Nat
OBVIOUS

\* The queue takes jobs: each new one gets its runs.
LEMMA AdditionsInBudget ==
  ASSUME Budget, Typing', JobsSound', NEW J, Enqueue(J), UNCHANGED <<slot, accepted, faults>>,
         NEW j \in JobId
  PROVE  InBudget(j)'
<1> DEFINE n == RunsOf(j)
           a == added[j]
<1>1. /\ job \in [JobId -> Job] /\ added \in [JobId -> Nat] /\ n \in Nat /\ a \in Nat
      /\ n = (IF Attempts[j[2]] = 0 THEN 1 ELSE Attempts[j[2]]) /\ Attempts[j[2]] \in Nat
      /\ job[j] \in Job /\ RunsRemain(job[j], n) /\ Held(j) \in BOOLEAN
      /\ accepted[j] \in Nat /\ faults \in Nat /\ Left(j) \in Nat /\ n' = n
  BY BudgetTypes DEF Budget, Typing, TypeOK, RunsOf
<1>2. CASE j \in J /\ job[j].st = "none"
  <2>1. job'[j] = Added(job[j]) /\ added'[j] = a + 1
    BY <1>1, <1>2 DEF Enqueue
  <2>2. Left(j) = 0
    BY <1>2 DEF Left, LeftOf
  <2>3. Held(j)' \in BOOLEAN
    BY DEF Held
  <2>4. Left(j)' = n
    <3>1. LeftOf(Added(job[j]), Held(j)', RunsOf(j)) = RunsOf(j)
      BY <1>1, <1>2 DEF LeftOf, Added, NoJob
    <3>2. Left(j)' = LeftOf(job'[j], Held(j)', RunsOf(j))
      BY DEF Left, RunsOf
    <3> QED BY <2>1, <3>1, <3>2
  <2>5. Due(j)' = Due(j) /\ Cardinality(Due(j)) \in Nat
    BY DueFinite DEF Due
  <2> DEFINE c == Cardinality(Due(j))
             e == accepted[j]
  <2>6. e + c + 0 <= a * n + faults
    BY <2>2 DEF Budget, InBudget
  <2> SUFFICES e + c + n <= (a + 1) * n + faults
    BY <2>1, <2>4, <2>5, <1>1 DEF InBudget
  <2>7. c \in Nat /\ e \in Nat /\ faults \in Nat
    BY <2>5, <1>1
  <2> HIDE DEF c, e, n, a
  <2>8. (a + 1) * n = a * n + n /\ a * n \in Nat
    BY <1>1, OneMore
  <2> QED BY <1>1, <2>6, <2>7, <2>8
<1>3. CASE ~(j \in J /\ job[j].st = "none")
  <2>1. job'[j] = job[j] /\ added'[j] = a
    BY <1>1, <1>3 DEF Enqueue, Added
  <2>2. Held(j)' = Held(j) /\ Due(j)' = Due(j)
    BY <2>1 DEF Held, Due
  <2>3. Left(j)' = Left(j)
    BY <2>1, <2>2, SameLeft
  <2>4. Calm(j)
    BY <1>1, <2>1, <2>2, <2>3 DEF Calm
  <2> QED BY <2>4, CalmKeepsBudget
<1> QED BY <1>2, <1>3

\* A handler moves on without a send.
Moves(w) ==
  \/ Check(w) \/ (\E allowed \in BOOLEAN : CheckPlan(w, allowed)) \/ SendRefused(w)
  \/ ServiceLog(w) \/ WorkerLog(w) \/ IncrementUsage(w) \/ HandlerError(w)

LEMMA MovesKeepJobs ==
  ASSUME Typing, NEW w \in Slot, Moves(w)
  PROVE  /\ \A v \in Slot : v # w => slot'[v] = slot[v]
         /\ slot'[w].job = slot[w].job
         /\ slot'[w].at \in {"check", "plan", "send"} => slot[w].at \in {"check", "plan", "send"}
         /\ UNCHANGED <<job, added, accepted, dlq, dying>> /\ faults' \in {faults, faults + 1}
         /\ \A j \in JobId : Held(j)' = Held(j)
<1>1. Works(w) /\ slot \in [Slot -> Handler]
  BY DEF Moves, Works, Handle, Typing, TypeOK
<1>2. \A v \in Slot : v # w => slot'[v] = slot[v]
  BY <1>1, HandlersAlone
<1>3. /\ slot'[w].job = slot[w].job
      /\ slot'[w].at \in {"check", "plan", "send"} => slot[w].at \in {"check", "plan", "send"}
      /\ UNCHANGED <<job, added, accepted, dlq, dying>> /\ faults' \in {faults, faults + 1}
  <2> USE DEF queueVars, sendVars, deadVars
  <2>1. CASE Check(w)
    BY <1>1, <2>1 DEF Check, Goto, Handler
  <2>2. CASE (\E allowed \in BOOLEAN : CheckPlan(w, allowed)) \/ SendRefused(w)
    BY <1>1, <2>2 DEF CheckPlan, SendRefused, Goto, Handler
  <2>3. CASE ServiceLog(w) \/ WorkerLog(w)
    BY <1>1, <2>3 DEF ServiceLog, WorkerLog, InsertLog, Handler
  <2>4. CASE IncrementUsage(w)
    BY <1>1, <2>4 DEF IncrementUsage, Handler
  <2>5. CASE HandlerError(w)
    BY <1>1, <2>5 DEF HandlerError, Fault, Handler
  <2> QED BY <2>1, <2>2, <2>3, <2>4, <2>5 DEF Moves
<1>4. ASSUME NEW j \in JobId PROVE Held(j)' = Held(j)
  <2>1. job[j].owner # None => job[j].owner \in Slot
    BY DEF Typing, TypeOK, Job
  <2> QED BY <1>2, <1>3, <2>1 DEF Held
<1> QED BY <1>2, <1>3, <1>4

LEMMA MovesInBudget ==
  ASSUME Budget, NEW w \in Slot, NEW j \in JobId, Moves(w)
  PROVE  Calm(j)
<1>1. Due(j)' \subseteq Due(j)
  BY MovesKeepJobs DEF Due, Budget
<1>2. Left(j)' = Left(j) /\ Left(j) \in Nat
  BY MovesKeepJobs, SameLeft, BudgetTypes DEF Budget
<1> QED BY <1>1, <1>2, MovesKeepJobs DEF Calm, Budget

\* A copy accepted: its handler is past its send.
LEMMA SendInBudget ==
  ASSUME Budget, Typing', JobsSound', NEW w \in Slot, SendAccepted(w), NEW j \in JobId
  PROVE  InBudget(j)'
<1>1. /\ slot \in [Slot -> Handler] /\ accepted \in [Sender -> Nat] /\ j \in Sender
      /\ faults \in Nat
  BY CampaignAssumption DEF Budget, Typing, TypeOK, JobId, Sender
<1>2. UNCHANGED <<job, added, faults>> /\ slot[w].at = "send"
  BY DEF SendAccepted, queueVars
<1>3. /\ \A v \in Slot : v # w => slot'[v] = slot[v]
      /\ slot'[w].at = "svclog" /\ slot'[w].job = slot[w].job
  BY <1>1 DEF SendAccepted, Handler
<1>4. Held(j)' = Held(j)
  <2>1. job[j].owner # None => job[j].owner \in Slot
    BY DEF Budget, Typing, TypeOK, Job
  <2> QED BY <1>2, <1>3, <2>1 DEF Held
<1>5. Left(j)' = Left(j) /\ Left(j) \in Nat
  BY <1>2, <1>4, SameLeft, BudgetTypes DEF Budget
<1>6. CASE j # slot[w].job
  <2>1. accepted'[j] = accepted[j]
    BY <1>1, <1>6 DEF SendAccepted
  <2>2. Due(j)' \subseteq Due(j)
    BY <1>3 DEF Due
  <2>3. Calm(j)
    BY <1>2, <1>5, <2>1, <2>2 DEF Calm
  <2> QED BY <2>3, CalmKeepsBudget
<1>7. CASE j = slot[w].job
  <2>1. accepted'[j] = accepted[j] + 1
    BY <1>1, <1>7 DEF SendAccepted
  <2>2. w \in Due(j) /\ Due(j)' \subseteq Due(j) \ {w}
    BY <1>2, <1>3, <1>7 DEF Due
  <2> DEFINE c == Cardinality(Due(j))
             d == Cardinality(Due(j)')
             b == added[j] * RunsOf(j)
  <2>3. d <= c - 1 /\ c \in Nat /\ d \in Nat
    <3>1. IsFiniteSet(Due(j)) /\ c \in Nat
      BY DueFinite
    <3>2. IsFiniteSet(Due(j) \ {w}) /\ Cardinality(Due(j) \ {w}) = c - 1
      BY <2>2, <3>1, FS_RemoveElement
    <3>3. IsFiniteSet(Due(j)') /\ d <= Cardinality(Due(j) \ {w})
      BY <2>2, <3>2, FS_Subset
    <3>4. d \in Nat
      BY <3>3, FS_CardinalityType
    <3> HIDE DEF c, d
    <3> QED BY <3>1, <3>2, <3>3, <3>4
  <2>4. accepted[j] + c + Left(j) <= b + faults /\ b \in Nat /\ accepted[j] \in Nat
    BY BudgetTypes DEF Budget, InBudget
  <2> SUFFICES accepted'[j] + d + Left(j)' <= b + faults
    BY <1>2 DEF InBudget, RunsOf
  <2> HIDE DEF c, d, b
  <2> QED BY <1>1, <1>5, <2>1, <2>3, <2>4
<1> QED BY <1>6, <1>7

\* A slot is given up.
LEMMA FreedSlot ==
  ASSUME Budget, NEW w \in Slot, slot' = [slot EXCEPT ![w] = Idle], NEW j \in JobId
  PROVE  /\ Due(j)' \subseteq Due(j)
         /\ \A v \in Slot : v # w => slot'[v] = slot[v]
         /\ slot'[w].job # j
         /\ job[j].owner # None => job[j].owner \in Slot
         /\ (job'[j] = job[j] /\ (job[j].owner = w => slot[w].job # j)) =>
              Left(j)' = Left(j)
<1>1. slot \in [Slot -> Handler] /\ (job[j].owner # None => job[j].owner \in Slot)
  BY DEF Budget, Typing, TypeOK, Job
<1>2. slot'[w] = Idle /\ \A v \in Slot : v # w => slot'[v] = slot[v]
  BY <1>1
<1>3. slot'[w].job # j
  BY <1>2, CampaignAssumption DEF Idle
<1>4. Due(j)' \subseteq Due(j)
  BY <1>2, <1>3 DEF Due
<1>5. ASSUME job'[j] = job[j], job[j].owner = w => slot[w].job # j
      PROVE  Left(j)' = Left(j)
  <2>1. Held(j)' = Held(j)
    BY <1>1, <1>2, <1>3, <1>5 DEF Held
  <2> QED BY <1>5, <2>1, SameLeft
<1> QED BY <1>1, <1>2, <1>3, <1>4, <1>5

\* A handler ends: the runs of its job are not more than before, save for the
\* run a crash gives back.
LEMMA EndsInBudget ==
  ASSUME Budget, NEW w \in Slot, NEW j \in JobId, Complete(w) \/ Throw(w) \/ Crash(w)
  PROVE  Calm(j)
<1>1. Typing /\ JobsSound /\ job \in [JobId -> Job] /\ Left(j) \in Nat /\ faults \in Nat
  BY BudgetTypes DEF Budget, Typing, TypeOK
<1>2. /\ job[j] \in Job /\ Attempts[j[2]] \in Nat /\ RunsOf(j) \in Nat
      /\ RunsOf(j) = (IF Attempts[j[2]] = 0 THEN 1 ELSE Attempts[j[2]])
      /\ RunsRemain(job[j], RunsOf(j)) /\ Held(j) \in BOOLEAN
  BY <1>1, BudgetTypes
<1>3. slot' = [slot EXCEPT ![w] = Idle] /\ UNCHANGED <<added, accepted>>
  BY DEF Complete, Throw, Rejected, Crash, queueVars, sendVars
<1>4. Due(j)' \subseteq Due(j)
  BY <1>3, FreedSlot
<1>5. Held(j)' \in BOOLEAN /\ Left(j)' = LeftOf(job'[j], Held(j)', RunsOf(j))
  BY DEF Held, Left, RunsOf
<1>6. CASE job'[j] = job[j] /\ (job[j].owner = w => slot[w].job # j)
  <2>1. Left(j)' = Left(j)
    BY <1>3, <1>6, FreedSlot
  <2>2. faults' = faults \/ faults' = faults + 1
    BY DEF Complete, Throw, Rejected, Crash, Fault
  <2> QED BY <1>1, <1>3, <1>4, <2>1, <2>2 DEF Calm
<1>7. ASSUME ~(job'[j] = job[j] /\ (job[j].owner = w => slot[w].job # j)), Complete(w)
      PROVE  Calm(j)
  <2>1. job'[j] = Completed(job[j]) /\ faults' = faults
    BY <1>1, <1>7 DEF Complete
  <2>2. Left(j)' = 0
    BY <1>2, <1>5, <2>1 DEF LeftOf, Completed, Job
  <2> QED BY <1>1, <1>3, <1>4, <2>1, <2>2 DEF Calm
<1>8. ASSUME ~(job'[j] = job[j] /\ (job[j].owner = w => slot[w].job # j)), Throw(w)
      PROVE  Calm(j)
  <2>1. /\ job[j].st = "active" /\ job'[j] = Failed(job[j], Attempts[j[2]])
    BY <1>1, <1>8, ThrowFails
  <2>2. LeftOf(Failed(job[j], Attempts[j[2]]), Held(j)', RunsOf(j))
          <= LeftOf(job[j], Held(j), RunsOf(j))
    BY <1>2, <1>5, <2>1, LeftOfOperations
  <2>3. faults' = faults
    BY <1>8 DEF Throw, Rejected
  <2> QED BY <1>3, <1>4, <1>5, <2>1, <2>2, <2>3 DEF Calm, Left
<1>9. ASSUME Crash(w)
      PROVE  Calm(j)
  <2>1. job' = job /\ faults' = faults + 1
    BY <1>9 DEF Crash, Fault, queueVars
  <2>2. LeftOf(job[j], Held(j)', RunsOf(j)) <= LeftOf(job[j], Held(j), RunsOf(j)) + 1
    BY <1>2, <1>5, LeftOfOperations
  <2> QED BY <1>3, <1>4, <1>5, <2>1, <2>2 DEF Calm, Left
<1> QED BY <1>6, <1>7, <1>8, <1>9

\* A run begins: it is no longer to be begun, and its handler is before its send.
LEMMA TakeInBudget ==
  ASSUME Budget, Typing', JobsSound', NEW w \in Slot, NEW k \in JobId, Take(w, k),
         NEW j \in JobId
  PROVE  InBudget(j)'
<1>1. /\ slot \in [Slot -> Handler] /\ job \in [JobId -> Job] /\ slot[w].job = None
      /\ job[j].owner # None => job[j].owner \in Slot
      /\ None \notin JobId
  BY CampaignAssumption DEF Take, Budget, Typing, TypeOK, WorkersHaveJobs, Job
<1>2. /\ slot'[w].job = k /\ slot'[w].at = "check"
      /\ \A v \in Slot : v # w => slot'[v] = slot[v]
      /\ UNCHANGED <<added, accepted, faults>> /\ Startable(job[k])
      /\ job' = [job EXCEPT ![k] = Started(@, w)]
  BY <1>1 DEF Take, Idle, sendVars
<1>3. CASE j # k
  <2>1. job'[j] = job[j] /\ Held(j)' = Held(j)
    BY <1>1, <1>2, <1>3 DEF Held
  <2>2. Due(j)' \subseteq Due(j)
    BY <1>2, <1>3 DEF Due
  <2>3. Left(j)' = Left(j) /\ Left(j) \in Nat
    BY <2>1, SameLeft, BudgetTypes DEF Budget
  <2>4. Calm(j)
    BY <1>2, <2>2, <2>3 DEF Calm
  <2> QED BY <2>4, CalmKeepsBudget
<1>4. CASE j = k
  <2>1. job'[j] = Started(job[j], w) /\ Startable(job[j])
    BY <1>1, <1>2, <1>4
  <2>2. job'[j].owner = w /\ w # None
    BY <1>1, <2>1, QueueAssumption DEF Started, Job
  <2>3. Held(j)'
    BY <1>2, <1>4, <2>2 DEF Held
  <2>4. Left(j)' + 1 = Left(j)
    <3>1. Left(j)' = LeftOf(job'[j], TRUE, RunsOf(j))
      BY <2>3 DEF Left, RunsOf
    <3>2. LeftOf(Started(job[j], w), TRUE, RunsOf(j)) + 1 = LeftOf(job[j], Held(j), RunsOf(j))
      <4>1. RunsOf(j) \in Nat /\ job[j] \in Job
        BY BudgetTypes DEF Budget
      <4>2. /\ Started(job[j], w).st = "active" /\ Started(job[j], w).made = job[j].made
            /\ job[j].st = "waiting" /\ job[j].made \in Nat
        BY <2>1, <4>1 DEF Started, Startable, Job
      <4> QED BY <4>1, <4>2 DEF LeftOf
    <3> QED BY <2>1, <3>1, <3>2 DEF Left
  <2>5. Due(j)' \subseteq Due(j) \cup {w}
    BY <1>2 DEF Due
  <2> DEFINE c == Cardinality(Due(j))
             d == Cardinality(Due(j)')
             b == added[j] * RunsOf(j)
  <2>6. d <= c + 1 /\ c \in Nat /\ d \in Nat
    <3>1. IsFiniteSet(Due(j)) /\ c \in Nat
      BY DueFinite
    <3>2. IsFiniteSet(Due(j) \cup {w}) /\ Cardinality(Due(j) \cup {w}) \in {c, c + 1}
      BY <3>1, FS_AddElement
    <3>3. IsFiniteSet(Due(j)') /\ d <= Cardinality(Due(j) \cup {w})
      BY <2>5, <3>2, FS_Subset
    <3>4. d \in Nat
      BY <3>3, FS_CardinalityType
    <3> HIDE DEF c, d
    <3> QED BY <3>1, <3>2, <3>3, <3>4
  <2>7. /\ accepted[j] + c + Left(j) <= b + faults
        /\ b \in Nat /\ accepted[j] \in Nat /\ faults \in Nat /\ Left(j) \in Nat
    BY BudgetTypes DEF Budget, InBudget
  <2>8. Left(j)' \in Nat
    BY LeftNext
  <2> SUFFICES accepted[j] + d + Left(j)' <= b + faults
    BY <1>2 DEF InBudget, RunsOf
  <2> HIDE DEF c, d, b
  <2> QED BY <2>4, <2>6, <2>7, <2>8
<1> QED BY <1>3, <1>4

\* The queue's own steps: only a lock lost by a live handler gives back a run.
LEMMA QueueInBudget ==
  ASSUME Budget, NEW k \in JobId, NEW j \in JobId,
         ExpireLock(k) \/ LoseLock(k) \/ RecoverStalled(k) \/ Bury(k) \/ Forget(k)
  PROVE  Calm(j)
<1>1. /\ job \in [JobId -> Job] /\ Left(j) \in Nat /\ faults \in Nat
      /\ job[j] \in Job /\ Attempts[j[2]] \in Nat /\ RunsOf(j) \in Nat
      /\ RunsOf(j) = (IF Attempts[j[2]] = 0 THEN 1 ELSE Attempts[j[2]])
      /\ RunsRemain(job[j], RunsOf(j)) /\ Held(j) \in BOOLEAN
  BY BudgetTypes DEF Budget, Typing, TypeOK
<1>2. UNCHANGED <<slot, added, accepted>> /\ (faults' = faults \/ faults' = faults + 1)
  BY DEF ExpireLock, LoseLock, RecoverStalled, Bury, Forget, SetJob, Fault, sendVars
<1>3. Due(j)' = Due(j)
  BY <1>2 DEF Due
<1>4. Held(j)' \in BOOLEAN /\ Left(j)' = LeftOf(job'[j], Held(j)', RunsOf(j))
  BY DEF Held, Left, RunsOf
<1>5. CASE j # k
  <2>1. job'[j] = job[j]
    BY <1>1, <1>5 DEF ExpireLock, LoseLock, RecoverStalled, Bury, Forget, SetJob
  <2>2. Left(j)' = Left(j)
    BY <1>2, <2>1, SameLeft DEF Held
  <2> QED BY <1>1, <1>2, <1>3, <2>2 DEF Calm
<1>6. ASSUME j = k, ExpireLock(k)
      PROVE  Calm(j)
  <2>1. /\ job'[j] = Unlocked(job[j]) /\ faults' = faults /\ ~Held(j)
    BY <1>1, <1>6 DEF ExpireLock, SetJob, Held
  <2>2. job'[j].st = job[j].st /\ job'[j].made = job[j].made /\ ~Held(j)'
    BY <1>1, <2>1 DEF Unlocked, Job, Held
  <2>3. Left(j)' = Left(j)
    BY <1>4, <2>1, <2>2 DEF Left, LeftOf
  <2> QED BY <1>1, <1>2, <1>3, <2>1, <2>3 DEF Calm
<1>7. ASSUME j = k, LoseLock(k)
      PROVE  Calm(j)
  <2>1. job'[j] = Unlocked(job[j]) /\ faults' = faults + 1
    BY <1>1, <1>7 DEF LoseLock, SetJob, Fault
  <2>2. job'[j].st = job[j].st /\ job'[j].made = job[j].made
    BY <1>1, <2>1 DEF Unlocked, Job
  <2>3. Left(j)' = LeftOf(job[j], Held(j)', RunsOf(j))
    BY <1>4, <2>2 DEF LeftOf
  <2>4. LeftOf(job[j], Held(j)', RunsOf(j)) <= LeftOf(job[j], Held(j), RunsOf(j)) + 1
    BY <1>1, <1>4, LeftOfOperations
  <2> QED BY <1>2, <1>3, <2>1, <2>3, <2>4 DEF Calm, Left
<1>8. ASSUME j = k, RecoverStalled(k)
      PROVE  Calm(j)
  <2>1. job'[j] = Recovered(job[j]) /\ faults' = faults /\ job[j].st = "active" /\ ~Held(j)
    BY <1>1, <1>8 DEF RecoverStalled, SetJob, Stalled, Held
  <2>2. job'[j].st = "waiting" /\ job'[j].made = job[j].made
    BY <1>1, <2>1 DEF Recovered, Job
  <2>3. Left(j)' = Left(j)
    BY <1>4, <2>1, <2>2 DEF Left, LeftOf
  <2> QED BY <1>1, <1>2, <1>3, <2>1, <2>3 DEF Calm
<1>9. ASSUME j = k, Bury(k) \/ Forget(k)
      PROVE  Calm(j)
  <2>1. (job'[j] = Buried(job[j]) \/ job'[j] = NoJob) /\ faults' = faults
    BY <1>1, <1>9 DEF Bury, Forget, SetJob
  <2>2. Buried(job[j]).st = "failed" /\ NoJob.st = "none"
    BY <1>1 DEF Buried, NoJob, Job
  <2>3. Left(j)' = 0
    BY <1>4, <2>1, <2>2 DEF LeftOf
  <2> QED BY <1>1, <1>2, <1>3, <2>1, <2>3 DEF Calm
<1> QED BY <1>5, <1>6, <1>7, <1>8, <1>9

LEMMA BudgetInit == Init => Budget
<1> SUFFICES ASSUME Init PROVE Budget
  OBVIOUS
<1>1. Typing
  BY InitTyped
<1>2. ASSUME NEW j \in JobId
      PROVE  Sound(job[j]) /\ RunsRemain(job[j], RunsOf(j)) /\ Left(j) = 0
  <2>1. job[j] = NoJob
    BY DEF Init
  <2> QED BY <2>1 DEF NoJob, Sound, RunsRemain, Left, LeftOf
<1>3. ASSUME NEW j \in JobId PROVE InBudget(j)
  <2>1. Due(j) = {}
    BY DEF Init, Idle, Due
  <2>2. Cardinality(Due(j)) = 0
    BY <2>1, FS_EmptySet
  <2>3. j \in Sender
    BY DEF JobId, Sender
  <2>4. accepted[j] = 0 /\ added[j] = 0 /\ faults = 0
    BY <2>3 DEF Init
  <2>5. RunsOf(j) \in Nat
    BY CampaignAssumption DEF RunsOf, JobId
  <2>6. 0 * RunsOf(j) = 0
    BY <2>5
  <2> QED BY <1>2, <2>2, <2>4, <2>6 DEF InBudget
<1> QED BY <1>1, <1>2, <1>3 DEF Budget, JobsSound

LEMMA BudgetKept == Budget /\ [Next]_vars => Budget'
<1> SUFFICES ASSUME Budget, [Next]_vars PROVE Budget'
  OBVIOUS
<1>1. Typing'
  BY TypingKept DEF Budget
<1>2. CASE Next
  <2>1. JobsSound'
    BY <1>2, JobsStaySound DEF Budget
  <2>2. ASSUME NEW j \in JobId PROVE InBudget(j)'
    <3>1. CASE AddBulk \/ \E c \in Contact : AddOne(c)
      <4>1. \E J : Enqueue(J)
        BY <3>1 DEF AddBulk, AddOne
      <4>2. UNCHANGED <<slot, accepted, faults>>
        BY <3>1 DEF AddBulk, AddOne, sendVars
      <4> QED BY <1>1, <2>1, <4>1, <4>2, AdditionsInBudget
    <3>2. CASE Calling /\ ~AddBulk /\ \A c \in Contact : ~AddOne(c)
      BY <1>1, <2>1, <3>2, CallsInBudget, CalmKeepsBudget
    <3>3. ASSUME NEW w \in Slot, Works(w) PROVE InBudget(j)'
      <4>1. CASE SendAccepted(w)
        BY <1>1, <2>1, <4>1, SendInBudget
      <4>2. CASE \E k \in JobId : Take(w, k)
        BY <1>1, <2>1, <4>2, TakeInBudget
      <4>3. CASE Complete(w) \/ Throw(w) \/ Crash(w)
        BY <1>1, <2>1, <4>3, EndsInBudget, CalmKeepsBudget
      <4>4. CASE Moves(w)
        BY <1>1, <2>1, <4>4, MovesInBudget, CalmKeepsBudget
      <4> QED BY <3>3, <4>1, <4>2, <4>3, <4>4 DEF Works, Handle, Moves
    <3>4. ASSUME NEW k \in JobId, QueueMoves(k) PROVE InBudget(j)'
      <4>1. CASE DeadLetter(k) \/ ListenerDies(k)
        <5>1. UNCHANGED <<job, added, slot, accepted>> /\ faults' \in {faults, faults + 1}
          BY <4>1 DEF DeadLetter, ListenerDies, Fault, queueVars, sendVars
        <5> QED BY <1>1, <2>1, <5>1, QuietIsCalm, CalmKeepsBudget
      <4>2. CASE ExpireLock(k) \/ LoseLock(k) \/ RecoverStalled(k) \/ Bury(k) \/ Forget(k)
        BY <1>1, <2>1, <4>2, QueueInBudget, CalmKeepsBudget
      <4> QED BY <3>4, <4>1, <4>2 DEF QueueMoves
    <3> QED BY <1>2, <3>1, <3>2, <3>3, <3>4, NextSplit
  <2> QED BY <1>1, <2>1, <2>2 DEF Budget
<1>3. CASE UNCHANGED vars
  BY <1>1, <1>3 DEF vars, Budget, JobsSound, InBudget, Left, Held, Due, RunsOf
<1> QED BY <1>2, <1>3

\* A contact gets no more copies from a job than the job has runs, each time the
\* queue takes it as new, and one for each fault: for any number of contacts,
\* slots, attempts, dispatches and faults.
THEOREM CopiesAreBounded == Spec => []CopiesWithinAttempts
<1>1. Budget => CopiesWithinAttempts
  <2> SUFFICES ASSUME Budget, NEW j \in JobId
               PROVE  accepted[j] <= added[j] * RunsOf(j) + faults
    BY DEF CopiesWithinAttempts
  <2> DEFINE c == Cardinality(Due(j))
             b == added[j] * RunsOf(j)
  <2>1. /\ accepted[j] + c + Left(j) <= b + faults
        /\ accepted[j] \in Nat /\ faults \in Nat /\ b \in Nat /\ Left(j) \in Nat
    BY BudgetTypes DEF Budget, InBudget
  <2>2. c \in Nat
    BY DueFinite
  <2> HIDE DEF c, b
  <2>3. accepted[j] <= b + faults
    BY <2>1, <2>2
  <2> QED BY <2>3 DEF b
<1> QED BY <1>1, BudgetInit, BudgetKept, PTL DEF Spec

-----------------------------------------------------------------------------
(* Failed jobs: as long as nothing fails, every active job is with the handler *)
(* that holds its lock, so only the handler can fail it.                       *)

ParkedJob(j) ==
  /\ job[j].stalls = 0
  /\ job[j].st = "active" => Held(j)
  /\ job[j].st = "failed" => j \in dlq \cup dying

Parked == faults = 0 => \A j \in JobId : ParkedJob(j)

LEMMA ParkedSlots ==
  ASSUME Typing, JobsSound, NEW w \in Slot, Works(w), faults' = 0, faults = 0,
         \A j \in JobId : ParkedJob(j), NEW j \in JobId
  PROVE  ParkedJob(j)'
<1>1. /\ slot \in [Slot -> Handler] /\ job \in [JobId -> Job] /\ job[j] \in Job
      /\ job[j].owner # None => job[j].owner \in Slot
      /\ None \notin JobId /\ None \notin Slot
  BY CampaignAssumption, QueueAssumption DEF Typing, TypeOK, Job
<1>2. CASE Moves(w)
  BY <1>2, MovesKeepJobs DEF ParkedJob
<1>3. CASE SendAccepted(w)
  <2>1. UNCHANGED <<job, dlq, dying>> /\ \A v \in Slot : slot'[v].job = slot[v].job
    BY <1>1, <1>3 DEF SendAccepted, Handler, queueVars, deadVars
  <2> QED BY <1>1, <2>1 DEF ParkedJob, Held
<1>4. ASSUME NEW k \in JobId, Take(w, k) PROVE ParkedJob(j)'
  <2>1. /\ slot[w].job = None /\ slot'[w].job = k
        /\ \A v \in Slot : v # w => slot'[v] = slot[v]
        /\ job' = [job EXCEPT ![k] = Started(@, w)] /\ UNCHANGED <<dlq, dying>>
    BY <1>1, <1>4 DEF Take, Idle, Handler, Typing, WorkersHaveJobs, deadVars
  <2>2. CASE j # k
    BY <1>1, <2>1, <2>2 DEF ParkedJob, Held
  <2>3. CASE j = k
    <3>1. job'[j] = Started(job[j], w)
      BY <1>1, <2>1, <2>3
    <3>2. job'[j].owner = w /\ job'[j].st = "active" /\ job'[j].stalls = job[j].stalls
      BY <1>1, <3>1 DEF Started, Job
    <3> QED BY <1>1, <2>1, <2>3, <3>2 DEF ParkedJob, Held
  <2> QED BY <2>2, <2>3
<1>5. ASSUME slot' = [slot EXCEPT ![w] = Idle], job'[j] = job[j],
             job[j].owner = w => slot[w].job # j,
             job[j].st = "failed" => (j \in dlq \cup dying => j \in dlq' \cup dying')
      PROVE  ParkedJob(j)'
  <2>1. \A v \in Slot : v # w => slot'[v] = slot[v]
    BY <1>1, <1>5
  <2> QED BY <1>1, <1>5, <2>1 DEF ParkedJob, Held
<1>6. CASE Complete(w)
  <2>1. CASE j = slot[w].job /\ job[j].owner = w
    <3>1. job'[j] = Completed(job[j])
      BY <1>1, <1>6, <2>1 DEF Complete
    <3>2. job'[j].st = "completed" /\ job'[j].stalls = job[j].stalls
      BY <1>1, <3>1 DEF Completed, Job
    <3> QED BY <3>2 DEF ParkedJob
  <2>2. CASE ~(j = slot[w].job /\ job[j].owner = w)
    BY <1>1, <1>5, <1>6, <2>2 DEF Complete, deadVars
  <2> QED BY <2>1, <2>2
<1>7. CASE Throw(w)
  <2>1. dlq' = dlq /\ slot' = [slot EXCEPT ![w] = Idle] /\ dying \subseteq dying'
    BY <1>7 DEF Throw, Rejected
  <2>2. CASE j = slot[w].job /\ job[j].owner = w
    <3>1. /\ job' = [job EXCEPT ![j] = Failed(@, Attempts[j[2]])]
          /\ dying' = IF Retries(job[j], Attempts[j[2]]) THEN dying ELSE dying \cup {j}
      BY <1>7, <2>2, ThrowFails
    <3>2. /\ job'[j].st = IF Retries(job[j], Attempts[j[2]]) THEN "waiting" ELSE "failed"
          /\ job'[j].stalls = job[j].stalls
      BY <1>1, <3>1 DEF Failed, Job
    <3> QED BY <3>1, <3>2 DEF ParkedJob
  <2>3. CASE ~(j = slot[w].job /\ job[j].owner = w)
    <3>1. job'[j] = job[j]
      BY <1>1, <1>7, <2>3, ThrowFails
    <3> QED BY <1>5, <2>1, <2>3, <3>1
  <2> QED BY <2>2, <2>3
<1>8. ~Crash(w)
  BY DEF Crash, Fault
<1> QED BY <1>2, <1>3, <1>4, <1>6, <1>7, <1>8 DEF Works, Handle, Moves

LEMMA ParkedQueue ==
  ASSUME Typing, JobsSound, NEW k \in JobId, QueueMoves(k), faults' = 0, faults = 0,
         \A j \in JobId : ParkedJob(j), NEW j \in JobId
  PROVE  ParkedJob(j)'
<1>1. /\ job \in [JobId -> Job] /\ ParkedJob(k) /\ Sound(job[k])
      /\ MaxStalls \in Nat /\ dying \subseteq dying' \cup dlq'
  BY QueueAssumption DEF Typing, TypeOK, JobsSound, QueueMoves, ExpireLock, LoseLock,
    RecoverStalled, Bury, Forget, DeadLetter, ListenerDies, Fault, deadVars
<1>2. ~ExpireLock(k) /\ ~RecoverStalled(k) /\ ~Bury(k)
  BY <1>1 DEF ParkedJob, Held, Sound, ExpireLock, RecoverStalled, Stalled, Bury, GivenUp
<1>3. ~LoseLock(k) /\ ~ListenerDies(k)
  BY DEF LoseLock, ListenerDies, Fault
<1>4. CASE Forget(k)
  BY <1>1, <1>4 DEF Forget, SetJob, ParkedJob, Held, NoJob, deadVars
<1>5. CASE DeadLetter(k)
  BY <1>5 DEF DeadLetter, ParkedJob, Held, queueVars
<1> QED BY <1>2, <1>3, <1>4, <1>5 DEF QueueMoves

LEMMA ParkedCalls ==
  ASSUME Typing, JobsSound, Calling, \A j \in JobId : ParkedJob(j), NEW j \in JobId
  PROVE  ParkedJob(j)'
<1>1. UNCHANGED <<slot, dlq, dying>> /\ (UNCHANGED job \/ \E J : Enqueue(J))
  BY DEF Calling, BeginCampaign, BeginEventBroadcast, BeginBroadcast, Serve, ResolveAudience,
    AddBulk, AddOne, EndCall, SendInline, LogInline, MarkInline, InlineError, CallDies,
    OptOut, OptIn, deadVars, queueVars
<1>2. CASE job'[j] = job[j]
  BY <1>1, <1>2 DEF ParkedJob, Held
<1>3. CASE job'[j] # job[j]
  <2>1. job'[j].st = "waiting" /\ job'[j].stalls = 0
    BY <1>1, <1>3 DEF Enqueue, Added, NoJob
  <2> QED BY <2>1 DEF ParkedJob
<1> QED BY <1>2, <1>3

LEMMA FaultsGrow ==
  ASSUME Next
  PROVE  faults' = faults \/ faults' = faults + 1
BY DEF Next, Serve, Handle, Fault, BeginCampaign, BeginEventBroadcast, BeginBroadcast,
  ResolveAudience, AddBulk, AddOne, EndCall, SendInline, LogInline, MarkInline, InlineError,
  CallDies, OptOut, OptIn, Check, CheckPlan, SendAccepted, SendRefused, Goto, ServiceLog,
  WorkerLog, InsertLog, IncrementUsage, Complete, Throw, Rejected, HandlerError, Crash, Take,
  ExpireLock, LoseLock, RecoverStalled, Bury, Forget, SetJob, DeadLetter, ListenerDies

LEMMA FaultsStay ==
  ASSUME Typing, Next, faults' = 0
  PROVE  faults = 0
<1>1. faults' = faults \/ faults' = faults + 1
  BY FaultsGrow
<1>2. faults \in Nat
  BY CampaignAssumption DEF Typing, TypeOK
<1> QED BY <1>1, <1>2

\* A job that has failed for good is in the dead letter queue or on its way there,
\* as long as no fault has happened: for any number of contacts, slots, attempts
\* and dispatches.
THEOREM FailedJobsAreParked == Spec => []FailedIsParked
<1> DEFINE I == Budget /\ Parked
<1>1. Init => I
  <2> SUFFICES ASSUME Init PROVE Parked
    BY BudgetInit
  <2> QED BY DEF Init, Parked, ParkedJob, NoJob
<1>2. I /\ [Next]_vars => I'
  <2> SUFFICES ASSUME I, [Next]_vars PROVE Parked'
    BY BudgetKept
  <2>1. CASE Next
    <3> SUFFICES ASSUME faults' = 0, NEW j \in JobId PROVE ParkedJob(j)'
      BY DEF Parked
    <3>1. Typing /\ JobsSound /\ faults = 0 /\ \A k \in JobId : ParkedJob(k)
      BY <2>1, FaultsStay DEF Budget, Parked
    <3> QED BY <2>1, <3>1, NextSplit, ParkedCalls, ParkedSlots, ParkedQueue
  <2>2. CASE UNCHANGED vars
    BY <2>2 DEF vars, Parked, ParkedJob, Held
  <2> QED BY <2>1, <2>2
<1>3. I => FailedIsParked
  BY DEF Parked, ParkedJob, FailedIsParked
<1> QED BY <1>1, <1>2, <1>3, PTL DEF Spec

-----------------------------------------------------------------------------
(* The rows of an inline broadcast: what the loop still has to send to is      *)
(* pending, and the loop remembers what the provider said of the one at hand.  *)

Copies(c) == accepted[<<c, "inline">>]

RowTrue(c) ==
  /\ recipient[c] = "none" => Copies(c) = 0
  /\ recipient[c] = "sent" => Copies(c) > 0
  /\ (recipient[c] = "failed" /\ faults = 0) => Copies(c) = 0

LoopTrue ==
  /\ request.mode = "inline" =>
       \A c \in request.todo : recipient[c] = "pending" /\ Copies(c) = 0
  /\ request.at = "log" => request.ok
  /\ request.at \in {"log", "mark"} =>
       /\ request.mode = "inline" /\ request.cur \in Contact \ request.todo
       /\ request.ok => Copies(request.cur) > 0
       /\ (~request.ok /\ faults = 0) => Copies(request.cur) = 0

Rows == LoopTrue /\ \A c \in Contact : RowTrue(c)

\* Handlers and the queue do not touch the broadcast's rows and copies.
LEMMA OthersLeaveRows ==
  ASSUME Typing, (\E w \in Slot : Works(w)) \/ (\E j \in JobId : QueueMoves(j))
  PROVE  UNCHANGED <<request, recipient>> /\ \A c \in Contact : Copies(c)' = Copies(c)
<1>1. UNCHANGED <<request, recipient>> /\ (UNCHANGED accepted \/ \E w \in Slot : SendAccepted(w))
  BY DEF apiVars, sendVars, Works, Handle, Check, CheckPlan, SendAccepted, SendRefused, Goto,
    ServiceLog, WorkerLog, InsertLog, IncrementUsage, Complete, Throw, Rejected, HandlerError,
    Crash, Take, QueueMoves, ExpireLock, LoseLock, RecoverStalled, Bury, Forget, SetJob,
    DeadLetter, ListenerDies
<1>2. ASSUME NEW w \in Slot, SendAccepted(w), NEW c \in Contact
      PROVE  Copies(c)' = Copies(c)
  <2>1. slot[w].job[2] \in Kind
    BY <1>2, JobsOfHandlers DEF SendAccepted
  <2>2. slot[w].job # <<c, "inline">> /\ <<c, "inline">> \in Sender
    BY <2>1 DEF Kind, Sender
  <2> QED BY <1>2, <2>2 DEF SendAccepted, Copies, Typing, TypeOK
<1> QED BY <1>1, <1>2 DEF Copies

\* Faults only weaken what the rows say.
LEMMA SameRows ==
  ASSUME Typing, Rows, UNCHANGED <<request, recipient>>, faults' = faults \/ faults' = faults + 1,
         \A c \in Contact : Copies(c)' = Copies(c)
  PROVE  Rows'
<1>1. faults \in Nat /\ request.todo \subseteq Contact
  BY CampaignAssumption DEF Typing, TypeOK, Call
<1>2. faults' = 0 => faults = 0
  BY <1>1
<1>3. \A c \in Contact : RowTrue(c)'
  BY <1>2 DEF Rows, RowTrue
<1>4. LoopTrue'
  BY <1>1, <1>2 DEF Rows, LoopTrue
<1> QED BY <1>3, <1>4 DEF Rows

\* A call that is no inline broadcast, or none at all.
LEMMA OtherCalls ==
  ASSUME Rows, UNCHANGED <<recipient, accepted>>, faults' = faults \/ faults' = faults + 1,
         Typing, request'.mode # "inline", request'.at \in {"start", "queue"}
  PROVE  Rows'
<1>1. faults' = 0 => faults = 0
  BY CampaignAssumption DEF Typing, TypeOK
<1>2. \A c \in Contact : RowTrue(c)'
  BY <1>1 DEF Rows, RowTrue, Copies
<1>3. LoopTrue'
  BY DEF LoopTrue
<1> QED BY <1>2, <1>3 DEF Rows

LEMMA CallsKeepRows ==
  ASSUME Typing, Rows, Next, Calling
  PROVE  Rows'
<1>1. /\ request \in Call /\ recipient \in [Contact -> {"none", "pending", "sent", "failed"}]
      /\ accepted \in [Sender -> Nat] /\ faults \in Nat
      /\ (faults' = faults \/ faults' = faults + 1)
      /\ \A c \in Contact : <<c, "inline">> \in Sender /\ Copies(c) \in Nat
  BY FaultsGrow, CampaignAssumption DEF Typing, TypeOK, Sender, Copies
<1>2. faults' = 0 => faults = 0
  BY <1>1
<1>3. CASE UNCHANGED <<request, recipient, accepted>>
  BY <1>1, <1>3, SameRows DEF Copies
<1>4. ASSUME NEW S \in SUBSET Contact, BeginCampaign(S) \/ BeginEventBroadcast(S)
      PROVE  Rows'
  <2>1. request'.mode \in {"campaign", "event"} /\ request'.at \in {"start", "queue"}
    BY <1>4 DEF BeginCampaign, BeginEventBroadcast, NoCall
  <2> QED BY <1>1, <1>4, <2>1, OtherCalls DEF BeginCampaign, BeginEventBroadcast, sendVars
<1>5. ASSUME NEW S \in SUBSET Contact, BeginBroadcast(S)
      PROVE  Rows'
  <2>1. /\ request'.at \in {"queue", "send"} /\ request'.todo = S
        /\ UNCHANGED <<accepted, faults>> /\ \A c \in S : recipient[c] = "none"
        /\ recipient' = [c \in Contact |-> IF c \in S THEN "pending" ELSE recipient[c]]
    BY <1>5 DEF BeginBroadcast, NoCall, sendVars
  <2>2. \A c \in S : recipient'[c] = "pending" /\ Copies(c)' = 0
    BY <2>1 DEF Rows, RowTrue, Copies
  <2>3. LoopTrue'
    BY <2>1, <2>2 DEF LoopTrue
  <2>4. ASSUME NEW c \in Contact PROVE RowTrue(c)'
    BY <2>1 DEF Rows, RowTrue, Copies
  <2> QED BY <2>3, <2>4 DEF Rows
<1>6. CASE ResolveAudience \/ AddBulk \/ EndCall \/ CallDies
  <2>1. request'.mode # "inline" /\ request'.at \in {"start", "queue"}
    <3>1. CASE ResolveAudience
      BY <1>1, <3>1 DEF ResolveAudience, Call
    <3>2. CASE request' = NoCall
      BY <3>2 DEF NoCall
    <3> QED BY <1>6, <3>1, <3>2 DEF AddBulk, EndCall, CallDies
  <2> QED BY <1>1, <1>6, <2>1, OtherCalls DEF ResolveAudience, AddBulk, EndCall, CallDies, sendVars
<1>7. ASSUME NEW d \in Contact, AddOne(d) PROVE Rows'
  <2>1. /\ request'.mode # "inline" /\ request'.at = request.at /\ request.mode # "inline"
        /\ UNCHANGED <<recipient, accepted, faults>>
    BY <1>1, <1>7 DEF AddOne, Call, sendVars
  <2>2. \A c \in Contact : RowTrue(c)'
    BY <2>1 DEF Rows, RowTrue, Copies
  <2>3. LoopTrue'
    BY <2>1 DEF Rows, LoopTrue
  <2> QED BY <2>2, <2>3 DEF Rows
<1>8. ASSUME NEW d \in Contact, NEW ok \in BOOLEAN, SendInline(d, ok) PROVE Rows'
  <2>1. /\ request'.mode = "inline" /\ request'.todo = request.todo \ {d} /\ request'.cur = d
        /\ request'.ok = ok /\ request'.at = (IF ok THEN "log" ELSE "mark")
        /\ UNCHANGED <<recipient, faults>> /\ d \in request.todo /\ request.mode = "inline"
    BY <1>1, <1>8 DEF SendInline, Call
  <2>2. /\ \A c \in Contact : c # d => Copies(c)' = Copies(c)
        /\ Copies(d)' = IF ok THEN Copies(d) + 1 ELSE Copies(d)
    BY <1>1, <1>8 DEF SendInline, Copies
  <2>3. recipient[d] = "pending" /\ Copies(d) = 0
    BY <2>1 DEF Rows, LoopTrue
  <2>4. ASSUME NEW c \in Contact PROVE RowTrue(c)'
    <3>1. CASE c = d
      BY <2>1, <2>3, <3>1 DEF RowTrue
    <3>2. CASE c # d
      BY <2>1, <2>2, <3>2 DEF Rows, RowTrue
    <3> QED BY <3>1, <3>2
  <2>5. \A c \in request'.todo : recipient'[c] = "pending" /\ Copies(c)' = 0
    BY <1>1, <2>1, <2>2 DEF Rows, LoopTrue, Call
  <2>6. (ok => Copies(d)' > 0) /\ (~ok => Copies(d)' = 0)
    BY <2>2, <2>3
  <2>7. LoopTrue'
    BY <2>1, <2>5, <2>6 DEF LoopTrue
  <2> QED BY <2>4, <2>7 DEF Rows
<1>9. CASE LogInline
  <2>1. /\ request'.mode = request.mode /\ request'.todo = request.todo /\ request'.at = "mark"
        /\ request'.cur = request.cur /\ request'.ok = request.ok /\ request.at = "log"
        /\ UNCHANGED <<recipient, accepted, faults>>
    BY <1>1, <1>9 DEF LogInline, Call
  <2>2. \A c \in Contact : RowTrue(c)'
    BY <2>1 DEF Rows, RowTrue, Copies
  <2>3. LoopTrue'
    BY <2>1 DEF Rows, LoopTrue, Copies
  <2> QED BY <2>2, <2>3 DEF Rows
<1>10. CASE InlineError
  <2>1. /\ request'.mode = request.mode /\ request'.todo = request.todo /\ request'.at = "mark"
        /\ request'.cur = request.cur /\ request'.ok = FALSE /\ request.at \in {"log", "mark"}
        /\ UNCHANGED <<recipient, accepted>> /\ faults' # 0
    BY <1>1, <1>10 DEF InlineError, Fault, Call, sendVars
  <2>2. \A c \in Contact : RowTrue(c)'
    BY <2>1 DEF Rows, RowTrue, Copies
  <2>3. LoopTrue'
    BY <2>1 DEF Rows, LoopTrue, Copies
  <2> QED BY <2>2, <2>3 DEF Rows
<1>11. CASE MarkInline
  <2> DEFINE d == request.cur
  <2>1. /\ request'.mode = "inline" /\ request'.todo = request.todo /\ request'.at = "send"
        /\ request.at = "mark" /\ UNCHANGED <<accepted, faults>>
        /\ d \in Contact \ request.todo
        /\ recipient' = [recipient EXCEPT ![d] = IF request.ok THEN "sent" ELSE "failed"]
    BY <1>1, <1>11 DEF MarkInline, Call, Rows, LoopTrue, sendVars
  <2>2. (request.ok => Copies(d) > 0) /\ (~request.ok /\ faults = 0 => Copies(d) = 0)
    BY <2>1 DEF Rows, LoopTrue
  <2>3. ASSUME NEW c \in Contact PROVE RowTrue(c)'
    <3>1. CASE c = d
      BY <1>1, <2>1, <2>2, <3>1 DEF RowTrue, Copies
    <3>2. CASE c # d
      BY <1>1, <2>1, <3>2 DEF Rows, RowTrue, Copies
    <3> QED BY <3>1, <3>2
  <2>4. request.todo \subseteq Contact
    BY <1>1 DEF Call
  <2>5. \A c \in request.todo : recipient'[c] = recipient[c]
    BY <1>1, <2>1, <2>4
  <2>6. LoopTrue'
    BY <2>1, <2>4, <2>5 DEF Rows, LoopTrue, Copies
  <2> QED BY <2>3, <2>6 DEF Rows
<1>12. CASE \E c \in Fickle : OptOut(c) \/ OptIn(c)
  BY <1>3, <1>12 DEF OptOut, OptIn, sendVars
<1> QED BY <1>4, <1>5, <1>6, <1>7, <1>8, <1>9, <1>10, <1>11, <1>12 DEF Calling, Serve

\* A row of an inline broadcast that reads "sent" is one of an accepted message,
\* and one that reads "failed" is not, as long as no fault has happened: for any
\* audience and however the calls and the broadcasts interleave with the workers.
THEOREM RecipientsTellTheTruth == Spec => []RecipientTellsTruth
<1> DEFINE I == Typing /\ Rows
<1>1. Init => I
  <2> SUFFICES ASSUME Init PROVE Rows
    BY InitTyped
  <2>1. \A c \in Contact : recipient[c] = "none" /\ Copies(c) = 0
    BY DEF Init, Copies, Sender
  <2> QED BY <2>1 DEF Init, NoCall, Rows, RowTrue, LoopTrue
<1>2. I /\ [Next]_vars => I'
  <2> SUFFICES ASSUME I, [Next]_vars PROVE Rows'
    BY TypingKept
  <2>1. CASE UNCHANGED vars
    BY <2>1, SameRows DEF vars, Copies
  <2>2. CASE Next
    <3>1. CASE Calling
      BY <2>2, <3>1, CallsKeepRows
    <3>2. CASE (\E w \in Slot : Works(w)) \/ (\E j \in JobId : QueueMoves(j))
      BY <2>2, <3>2, OthersLeaveRows, FaultsGrow, SameRows
    <3> QED BY <2>2, <3>1, <3>2, NextSplit
  <2> QED BY <2>1, <2>2
<1>3. I => RecipientTellsTruth
  BY DEF Rows, RowTrue, Copies, RecipientTellsTruth
<1> QED BY <1>1, <1>2, <1>3, PTL DEF Spec

-----------------------------------------------------------------------------
(* The usage counter *)

\* The names under which messages are logged are those of messages sent, each
\* handler holds its own, and no handler that comes to MessagingService's insert
\* finds its row there: that insert never throws for a second row.
Numbered == \A m \in logged : m[2] <= accepted[m[1]]

Holds(w) ==
  slot[w].id # None => slot[w].id[1] \in JobId /\ slot[w].id[2] <= accepted[slot[w].id[1]]

Apart(w, v) == (slot[w].id = slot[v].id /\ slot[w].id # None) => w = v

Unlogged(w) == (slot[w].at = "svclog" /\ slot[w].id # None) => slot[w].id \notin logged

Fresh ==
  /\ Numbered
  /\ \A w \in Slot : Holds(w) /\ Unlogged(w)
  /\ \A w, v \in Slot : Apart(w, v)

\* What the callers, the queue and the handlers leave alone.
LEMMA CallersSend ==
  ASSUME Calling
  PROVE  /\ copies' = copies /\ billed' = billed
         /\ accepted' = accepted \/ \E c \in Contact, ok \in BOOLEAN : SendInline(c, ok)
         /\ logged' = logged \/ LogInline
<1>1. ASSUME NEW S \in SUBSET Contact,
             BeginCampaign(S) \/ BeginEventBroadcast(S) \/ BeginBroadcast(S)
      PROVE  UNCHANGED sendVars
  BY <1>1 DEF BeginCampaign, BeginEventBroadcast, BeginBroadcast
<1>2. CASE ResolveAudience \/ AddBulk \/ EndCall \/ MarkInline \/ InlineError \/ CallDies
  BY <1>2 DEF sendVars, ResolveAudience, AddBulk, EndCall, MarkInline, InlineError, CallDies
<1>3. ASSUME NEW c \in Contact, AddOne(c) \/ OptOut(c) \/ OptIn(c)
      PROVE  UNCHANGED sendVars
  BY <1>3 DEF AddOne, OptOut, OptIn
<1>4. ASSUME NEW c \in Contact, NEW ok \in BOOLEAN, SendInline(c, ok)
      PROVE  UNCHANGED <<copies, billed, logged>>
  BY <1>4 DEF SendInline
<1>5. CASE LogInline
  BY <1>5 DEF LogInline
<1> QED BY <1>1, <1>2, <1>3, <1>4, <1>5, CampaignAssumption DEF Calling, Serve, sendVars

LEMMA QueueSends ==
  ASSUME NEW j \in JobId, QueueMoves(j)
  PROVE  UNCHANGED sendVars
BY DEF QueueMoves, ExpireLock, LoseLock, RecoverStalled, Bury, Forget, SetJob,
   DeadLetter, ListenerDies

LEMMA HandlersSend ==
  ASSUME NEW w \in Slot, Works(w)
  PROVE  /\ accepted' = accepted \/ SendAccepted(w)
         /\ logged' = logged \/ ServiceLog(w) \/ WorkerLog(w)
         /\ (copies' = copies /\ billed' = billed) \/ SendAccepted(w) \/ IncrementUsage(w)
<1>1. ASSUME NEW a \in Step, Goto(w, a) PROVE UNCHANGED sendVars
  BY <1>1 DEF Goto
<1>2. CASE ServiceLog(w) \/ WorkerLog(w)
  BY <1>2 DEF ServiceLog, WorkerLog, InsertLog
<1>3. CASE SendAccepted(w)
  BY <1>3 DEF SendAccepted
<1>4. CASE IncrementUsage(w)
  BY <1>4 DEF IncrementUsage
<1>5. CASE Complete(w) \/ Throw(w) \/ HandlerError(w) \/ Crash(w)
  BY <1>5 DEF Complete, Throw, Rejected, HandlerError, Crash, sendVars
<1>6. ASSUME NEW j \in JobId, Take(w, j) PROVE UNCHANGED sendVars
  BY <1>6 DEF Take
<1> QED BY <1>1, <1>2, <1>3, <1>4, <1>5, <1>6, MovesOfHandlers DEF Works, Handle, sendVars

\* Nothing but a send changes what was accepted, nothing but an insert what is logged.
LEMMA SendsAndLogs ==
  ASSUME Next
  PROVE  /\ \/ accepted' = accepted
            \/ \E c \in Contact, ok \in BOOLEAN : SendInline(c, ok)
            \/ \E w \in Slot : SendAccepted(w)
         /\ \/ logged' = logged
            \/ LogInline
            \/ \E w \in Slot : ServiceLog(w) \/ WorkerLog(w)
BY NextSplit, CallersSend, QueueSends, HandlersSend DEF sendVars

LEMMA AcceptedGrows ==
  ASSUME Typing, Next
  PROVE  \A s \in Sender : accepted[s] \in Nat /\ accepted'[s] \in Nat /\ accepted[s] <= accepted'[s]
<1>1. accepted \in [Sender -> Nat]
  BY DEF Typing, TypeOK
<1>2. ASSUME NEW c \in Contact, NEW ok \in BOOLEAN, SendInline(c, ok)
      PROVE  \A s \in Sender : accepted'[s] \in Nat /\ accepted[s] <= accepted'[s]
  BY <1>1, <1>2 DEF SendInline
<1>3. ASSUME NEW w \in Slot, SendAccepted(w)
      PROVE  \A s \in Sender : accepted'[s] \in Nat /\ accepted[s] <= accepted'[s]
  BY <1>1, <1>3 DEF SendAccepted
<1> QED BY <1>1, <1>2, <1>3, SendsAndLogs

\* What becomes of the names the handlers hold.
LEMMA NamesOfHandlers ==
  ASSUME Typing, NEW w \in Slot, Works(w), ~SendAccepted(w)
  PROVE  /\ slot'[w].id \in {slot[w].id, None}
         /\ slot'[w].at # "svclog"
<1>1. slot \in [Slot -> Handler]
  BY DEF Typing, TypeOK
<1>2. CASE Check(w) \/ (\E allowed \in BOOLEAN : CheckPlan(w, allowed)) \/ SendRefused(w)
  BY <1>1, <1>2, MovesOfHandlers DEF Goto, Handler
<1>3. CASE ServiceLog(w) \/ WorkerLog(w)
  BY <1>1, <1>3 DEF ServiceLog, WorkerLog, InsertLog, Handler
<1>4. CASE IncrementUsage(w) \/ HandlerError(w)
  BY <1>1, <1>4 DEF IncrementUsage, HandlerError, Handler
<1>5. CASE Complete(w) \/ Throw(w) \/ Crash(w)
  BY <1>1, <1>5 DEF Complete, Throw, Rejected, Crash, Idle
<1>6. ASSUME NEW j \in JobId, Take(w, j)
      PROVE  slot'[w].id \in {slot[w].id, None} /\ slot'[w].at # "svclog"
  BY <1>1, <1>6 DEF Take, Idle
<1> QED BY <1>2, <1>3, <1>4, <1>5, <1>6 DEF Works, Handle

LEMMA NumberedKept ==
  ASSUME Typing, Fresh, Next
  PROVE  Numbered'
<1>1. accepted \in [Sender -> Nat] /\ logged \subseteq MessageId /\ slot \in [Slot -> Handler]
  BY DEF Typing, TypeOK
<1>2. \A m \in MessageId : m[1] \in Sender /\ m[2] \in Nat
  BY DEF MessageId
<1>3. \A m \in logged : m[2] <= accepted[m[1]]
  BY DEF Fresh, Numbered
<1>4. \A m \in logged : m[2] <= accepted'[m[1]]
  BY <1>1, <1>2, <1>3, AcceptedGrows
<1>5. CASE LogInline
  <2>1. request.cur \in Contact
    BY <1>5 DEF LogInline, Typing, InlineHasContact, TypeOK, Call
  <2>2. <<request.cur, "inline">> \in Sender
    BY <2>1 DEF Sender
  <2>3. ASSUME NEW m \in logged', m \notin logged PROVE m[2] <= accepted'[m[1]]
    <3>1. m = <<<<request.cur, "inline">>, accepted[<<request.cur, "inline">>]>>
      BY <1>5, <2>3 DEF LogInline
    <3>2. accepted' = accepted /\ accepted[<<request.cur, "inline">>] \in Nat
      BY <1>1, <1>5, <2>2 DEF LogInline
    <3> QED BY <3>1, <3>2
  <2> QED BY <1>4, <2>3 DEF Numbered
<1>6. ASSUME NEW w \in Slot, ServiceLog(w) \/ WorkerLog(w) PROVE Numbered'
  <2>1. accepted' = accepted /\ logged' = logged \cup ({slot[w].id} \ {None})
    BY <1>6 DEF ServiceLog, WorkerLog, InsertLog
  <2>2. slot[w].id # None => slot[w].id[2] <= accepted[slot[w].id[1]]
    BY DEF Fresh, Holds
  <2> QED BY <1>4, <2>1, <2>2 DEF Numbered
<1>7. CASE logged' = logged
  BY <1>4, <1>7 DEF Numbered
<1> QED BY <1>5, <1>6, <1>7, SendsAndLogs

\* A new name is nobody's and not logged.
LEMMA SendNamesAnew ==
  ASSUME Typing, Fresh, NEW w \in Slot, SendAccepted(w)
  PROVE  \A v \in Slot : Holds(v)' /\ Unlogged(v)' /\ Apart(w, v)' /\ Apart(v, w)'
<1> DEFINE j == slot[w].job
           id == slot'[w].id
<1>1. slot \in [Slot -> Handler] /\ accepted \in [Sender -> Nat] /\ logged \subseteq MessageId
  BY DEF Typing, TypeOK
<1>2. j \in JobId /\ j \in Sender
  BY JobsOfHandlers DEF SendAccepted
<1>3. /\ id \in {None, <<j, accepted[j] + 1>>}
      /\ slot'[w].at = "svclog" /\ \A v \in Slot : v # w => slot'[v] = slot[v]
      /\ logged' = logged /\ accepted' = [accepted EXCEPT ![j] = @ + 1]
  BY <1>1 DEF SendAccepted, Handler
<1> HIDE DEF j, id
<1>4. /\ \A s \in Sender : accepted[s] \in Nat /\ accepted'[s] \in Nat /\ accepted[s] <= accepted'[s]
      /\ accepted'[j] = accepted[j] + 1
  BY <1>1, <1>2, <1>3
<1>5. ASSUME NEW m, m[2] <= accepted[m[1]] PROVE m # <<j, accepted[j] + 1>>
  BY <1>2, <1>4, <1>5
<1>6. Holds(w)' /\ Unlogged(w)'
  <2>1. id # None => id[1] = j /\ id[2] = accepted[j] + 1
    BY <1>3
  <2>2. Holds(w)'
    BY <1>2, <1>4, <2>1 DEF Holds, id
  <2>3. id # None => id \notin logged'
    BY <1>3, <1>5 DEF Fresh, Numbered
  <2> QED BY <2>2, <2>3 DEF Unlogged, id
<1>7. ASSUME NEW v \in Slot, v # w PROVE Holds(v)' /\ Unlogged(v)' /\ Apart(w, v)' /\ Apart(v, w)'
  <2>1. Holds(v) /\ Unlogged(v) /\ slot'[v] = slot[v]
    BY <1>3, <1>7 DEF Fresh
  <2>2. slot[v].id # None => /\ slot[v].id[1] \in Sender /\ slot[v].id[2] \in Nat
                             /\ slot[v].id # <<j, accepted[j] + 1>>
    <3>1. slot[v].id # None => slot[v].id \in MessageId
      BY <1>1 DEF Handler
    <3> QED BY <1>5, <2>1, <3>1 DEF Holds, MessageId
  <2>3. Holds(v)' /\ Unlogged(v)'
    BY <1>3, <1>4, <2>1, <2>2 DEF Holds, Unlogged
  <2>4. id = slot[v].id => id = None
    BY <1>3, <2>2
  <2> QED BY <2>1, <2>3, <2>4 DEF Apart, id
<1>8. Apart(w, w)'
  BY DEF Apart
<1> QED BY <1>6, <1>7, <1>8

LEMMA OthersKeepNames ==
  ASSUME Typing, Fresh, Next, ~ \E w \in Slot : SendAccepted(w)
  PROVE  \A v \in Slot : Holds(v)' /\ \A w \in Slot : Apart(w, v)'
<1>1. slot \in [Slot -> Handler]
  BY DEF Typing, TypeOK
<1>2. \A v \in Slot : slot'[v].id \in {slot[v].id, None}
  BY CallersAlone, QueueAlone, HandlersAlone, NamesOfHandlers, NextSplit
<1>3. ASSUME NEW v \in Slot PROVE Holds(v)'
  <2>1. Holds(v)
    BY DEF Fresh
  <2>2. slot[v].id # None => slot[v].id[1] \in Sender /\ slot[v].id[2] \in Nat
    BY <1>1 DEF Handler, MessageId
  <2> QED BY <1>2, <2>1, <2>2, AcceptedGrows DEF Holds
<1>4. ASSUME NEW v \in Slot, NEW w \in Slot PROVE Apart(w, v)'
  BY <1>2 DEF Fresh, Apart
<1> QED BY <1>3, <1>4

LEMMA OthersKeepUnlogged ==
  ASSUME Typing, Fresh, Next, NEW v \in Slot, ~SendAccepted(v),
         slot'[v].at = "svclog", slot'[v].id # None
  PROVE  slot'[v].id \notin logged'
<1>1. slot'[v] = slot[v] /\ ~Works(v)
  BY CallersAlone, QueueAlone, HandlersAlone, NamesOfHandlers, NextSplit
<1>2. slot[v].id \notin logged /\ slot[v].id[1] \in JobId
  BY <1>1 DEF Fresh, Unlogged, Holds
<1>3. CASE LogInline
  <2>1. \A c : <<c, "inline">> \notin JobId
    BY DEF JobId, Kind
  <2> QED BY <1>1, <1>2, <1>3, <2>1 DEF LogInline
<1>4. ASSUME NEW w \in Slot, ServiceLog(w) \/ WorkerLog(w) PROVE slot[v].id \notin logged'
  <2>1. w # v
    BY <1>1, <1>4 DEF Works, Handle
  <2>2. slot[w].id # slot[v].id
    BY <1>1, <2>1 DEF Fresh, Apart
  <2> QED BY <1>2, <1>4, <2>2 DEF ServiceLog, WorkerLog, InsertLog
<1> QED BY <1>1, <1>2, <1>3, <1>4, SendsAndLogs

LEMMA FreshKept ==
  ASSUME Typing, Fresh, Next
  PROVE  Fresh'
<1>1. Numbered'
  BY NumberedKept
<1>2. ASSUME NEW w \in Slot, SendAccepted(w) PROVE Fresh'
  <2>1. \A v \in Slot : Holds(v)' /\ Unlogged(v)' /\ Apart(w, v)' /\ Apart(v, w)'
    BY <1>2, SendNamesAnew
  <2>2. \A v \in Slot : v # w => slot'[v] = slot[v]
    BY <1>2, HandlersAlone DEF Works, Handle
  <2>3. ASSUME NEW u \in Slot, NEW v \in Slot, u # w, v # w PROVE Apart(u, v)'
    BY <2>2, <2>3 DEF Fresh, Apart
  <2> QED BY <1>1, <2>1, <2>3 DEF Fresh
<1>3. CASE ~ \E w \in Slot : SendAccepted(w)
  BY <1>1, <1>3, OthersKeepNames, OthersKeepUnlogged DEF Fresh, Unlogged
<1> QED BY <1>2, <1>3

\* The handlers about to count a copy.
Billing == {w \in Slot : slot[w].at \in {"svclog", "bill"}}

Counted ==
  /\ billed + Cardinality(Billing) <= copies
  /\ copies <= billed + faults + Cardinality(Billing)

LEMMA BillingFinite == IsFiniteSet(Billing) /\ Cardinality(Billing) \in Nat
BY CampaignAssumption, FS_Subset, FS_CardinalityType DEF Billing

\* Only a send brings a handler to its count; it leaves by counting, or by a fault.
LEMMA BillingOfHandlers ==
  ASSUME Typing, Fresh, NEW w \in Slot, Works(w), ~SendAccepted(w), ~IncrementUsage(w)
  PROVE  Billing' = Billing \/ (Billing' = Billing \ {w} /\ faults' = faults + 1)
<1>1. slot \in [Slot -> Handler] /\ \A v \in Slot : v # w => slot'[v] = slot[v]
  BY HandlersAlone DEF Typing, TypeOK
<1>2. ASSUME slot'[w].at \in {"svclog", "bill"} <=> slot[w].at \in {"svclog", "bill"}
      PROVE  Billing' = Billing
  BY <1>1, <1>2 DEF Billing
<1>3. ASSUME slot'[w].at \notin {"svclog", "bill"} PROVE Billing' = Billing \ {w}
  BY <1>1, <1>3 DEF Billing
<1>4. CASE Check(w) \/ (\E allowed \in BOOLEAN : CheckPlan(w, allowed)) \/ SendRefused(w)
  BY <1>1, <1>2, <1>4, MovesOfHandlers DEF Goto, Handler
<1>5. CASE ServiceLog(w)
  <2>1. slot[w].id = None \/ slot[w].id \notin logged
    BY <1>5 DEF ServiceLog, Fresh, Unlogged
  <2>2. None \notin logged
    BY CampaignAssumption DEF Typing, TypeOK
  <2>3. slot'[w].at = "bill" /\ slot[w].at = "svclog"
    BY <1>1, <1>5, <2>1, <2>2 DEF ServiceLog, InsertLog, Handler
  <2> QED BY <1>2, <2>3
<1>6. CASE WorkerLog(w)
  BY <1>1, <1>2, <1>6 DEF WorkerLog, InsertLog, Handler
<1>7. CASE Complete(w) \/ Throw(w)
  BY <1>1, <1>2, <1>7 DEF Complete, Throw, Rejected, Idle
<1>8. CASE HandlerError(w) \/ Crash(w)
  BY <1>1, <1>3, <1>8 DEF HandlerError, Crash, Fault, Handler, Idle
<1>9. ASSUME NEW j \in JobId, Take(w, j) PROVE Billing' = Billing
  BY <1>1, <1>2, <1>9 DEF Take, Idle
<1> QED BY <1>4, <1>5, <1>6, <1>7, <1>8, <1>9 DEF Works, Handle

LEMMA CountedKept ==
  ASSUME Typing, Fresh, Counted, Next
  PROVE  Counted'
<1> DEFINE c == Cardinality(Billing)
           d == Cardinality(Billing')
<1>1. /\ slot \in [Slot -> Handler] /\ copies \in Nat /\ billed \in Nat /\ faults \in Nat
      /\ faults' = faults \/ faults' = faults + 1
  BY CampaignAssumption, FaultsGrow DEF Typing, TypeOK
<1>2. IsFiniteSet(Billing) /\ c \in Nat
  BY BillingFinite
<1>3. billed + c <= copies /\ copies <= billed + faults + c
  BY DEF Counted
<1>4. ASSUME billed' + d <= copies' /\ copies' <= billed' + faults' + d PROVE Counted'
  BY <1>4 DEF Counted
<1>5. ASSUME NEW w \in Slot, SendAccepted(w) PROVE Counted'
  <2>1. Billing' = Billing \cup {w} /\ w \notin Billing
    BY <1>1, <1>5 DEF SendAccepted, Handler, Billing
  <2>2. d = c + 1
    BY <1>2, <2>1, FS_AddElement
  <2>3. copies' = copies + 1 /\ billed' = billed /\ faults' = faults
    BY <1>5 DEF SendAccepted
  <2> HIDE DEF c, d
  <2> QED BY <1>1, <1>2, <1>3, <1>4, <2>2, <2>3
<1>6. ASSUME NEW w \in Slot, IncrementUsage(w) PROVE Counted'
  <2>1. Billing' = Billing \ {w} /\ w \in Billing
    BY <1>1, <1>6 DEF IncrementUsage, Handler, Billing
  <2>2. d = c - 1
    BY <1>2, <2>1, FS_RemoveElement
  <2>3. copies' = copies /\ billed' = billed + 1 /\ faults' = faults
    BY <1>6 DEF IncrementUsage
  <2> HIDE DEF c, d
  <2> QED BY <1>1, <1>2, <1>3, <1>4, <2>2, <2>3
<1>7. ASSUME NEW w \in Slot, Billing' = Billing \ {w}, faults' = faults + 1, UNCHANGED <<copies, billed>>
      PROVE  Counted'
  <2>1. d \in {c - 1, c}
    <3>1. CASE w \in Billing
      BY <1>2, <1>7, <3>1, FS_RemoveElement
    <3>2. CASE w \notin Billing
      <4>1. Billing' = Billing
        BY <1>7, <3>2
      <4> QED BY <4>1
    <3> QED BY <3>1, <3>2
  <2> HIDE DEF c, d
  <2> QED BY <1>1, <1>2, <1>3, <1>4, <1>7, <2>1
<1>8. ASSUME Billing' = Billing, UNCHANGED <<copies, billed>> PROVE Counted'
  <2>1. d = c
    BY <1>8
  <2> HIDE DEF c, d
  <2> QED BY <1>1, <1>2, <1>3, <1>4, <1>8, <2>1
<1>9. ASSUME UNCHANGED slot PROVE Billing' = Billing
  BY <1>9 DEF Billing
<1>10. ASSUME NEW w \in Slot, Works(w) PROVE Counted'
  <2>1. CASE SendAccepted(w) \/ IncrementUsage(w)
    BY <1>5, <1>6, <2>1
  <2>2. CASE ~SendAccepted(w) /\ ~IncrementUsage(w)
    <3>1. UNCHANGED <<copies, billed>>
      BY <1>10, <2>2, HandlersSend
    <3> QED BY <1>7, <1>8, <1>10, <2>2, <3>1, BillingOfHandlers
  <2> QED BY <2>1, <2>2
<1>11. CASE Calling \/ \E j \in JobId : QueueMoves(j)
  <2>1. UNCHANGED slot
    BY <1>11, CallersAlone, QueueAlone
  <2>2. UNCHANGED <<copies, billed>>
    BY <1>11, CallersSend, QueueSends DEF sendVars
  <2> QED BY <1>8, <1>9, <2>1, <2>2
<1> QED BY <1>10, <1>11, NextSplit

\* The tenant is never charged for more copies than the workers sent, and misses
\* none but by a fault between the send and the count.
THEOREM UsageFollows == Spec => []UsageFollowsSends
<1>1. Init => Fresh /\ Counted
  <2> SUFFICES ASSUME Init PROVE Fresh /\ Counted
    OBVIOUS
  <2>1. Billing = {}
    BY DEF Init, Billing, Idle
  <2>2. Cardinality(Billing) = 0
    BY <2>1, FS_EmptySet
  <2>3. Fresh
    BY DEF Init, Idle, Fresh, Numbered, Holds, Apart, Unlogged
  <2> QED BY <2>2, <2>3 DEF Init, Counted
<1>2. Typing /\ Fresh /\ Counted /\ [Next]_vars => Fresh' /\ Counted'
  <2>1. Fresh /\ Counted /\ UNCHANGED vars => Fresh' /\ Counted'
    BY DEF vars, Counted, Billing, Fresh, Numbered, Holds, Apart, Unlogged
  <2> QED BY <2>1, FreshKept, CountedKept
<1>3. Typing /\ Counted => UsageFollowsSends
  <2> SUFFICES ASSUME Typing, Counted PROVE UsageFollowsSends
    OBVIOUS
  <2> DEFINE c == Cardinality(Billing)
  <2>1. copies \in Nat /\ billed \in Nat /\ c \in Nat
    BY BillingFinite DEF Typing, TypeOK
  <2>2. billed + c <= copies /\ copies <= billed + faults + c
    BY DEF Counted
  <2>3. ASSUME billed <= copies, copies <= billed + faults + c PROVE UsageFollowsSends
    BY <2>3 DEF UsageFollowsSends, Billing
  <2> HIDE DEF c
  <2> QED BY <2>1, <2>2, <2>3
<1> QED BY <1>1, <1>2, <1>3, TypingAlways, PTL DEF Spec
=============================================================================
