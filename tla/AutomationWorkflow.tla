------------------------- MODULE AutomationWorkflow --------------------------
(***************************************************************************)
(* The workflows an answer to an invitation sets off. RsvpProcessorService *)
(* fires its triggers and does not wait for them: WorkflowEngineService    *)
(* looks up who listens, counts the execution against the loop limit in    *)
(* Redis, creates it and adds one job per action; WorkflowProcessorService *)
(* runs the jobs, five at a time, in any order their delays allow.         *)
(* AutomationService changes workflows meanwhile.                          *)
(*                                                                         *)
(* The conditions of an action are about the participant's status; its     *)
(* only recipient is the contact who answered. The counters actionsRun and *)
(* actionsSkipped are read by nobody and left out, not so the calls that   *)
(* increment them.                                                         *)
(*                                                                         *)
(* Bounds: everything grows with the answers and faults of EventRsvp;      *)
(* edits bounds the changes to workflows.                                  *)
(***************************************************************************)
EXTENDS EventRsvp, Sequences

CONSTANTS Workflow,
          ListensTo,     \* trigger.type of each workflow
          Actions,       \* how many actions it has
          Conditional,   \* workflows whose actions ask for an undecided participant
          MaxExecutions, \* MAX_EXECUTIONS of one workflow for one event and hour
          ActionAttempts,
          Edits          \* bound on edits

Trigger == {"rsvp_yes", "rsvp_confirmed", "attendance_confirmed", "rsvp_no", "rsvp_cancelled",
            "attendance_cancelled", "rsvp_pending", "rsvp_received"}

ASSUME AutomationAssumption ==
  /\ IsFiniteSet(Workflow)
  /\ ListensTo \in [Workflow -> Trigger]
  /\ Actions \in [Workflow -> Nat]
  /\ Conditional \subseteq Workflow
  /\ MaxExecutions \in Nat /\ ActionAttempts \in Nat /\ Edits \subseteq Nat

VARIABLES
  version,    \* of a workflow's actions: 0 for a workflow that does not exist
  inactive,   \* workflows that are switched off
  firing,     \* the calls of fireTrigger: by answer, trigger and event
  looped,     \* the loop counters in Redis
  expiring,   \* of these, the ones with an expiry
  execution,  \* WorkflowExecution rows, in order, each with the jobs of its actions
  hand,       \* the handler each slot of the processor is running
  edits,      \* bound: changes to workflows still to come
  texts       \* history: messages accepted, by workflow and action

tableVars == <<version, inactive, edits>>
loopVars == <<looped, expiring>>
automationVars == <<tableVars, firing, loopVars, execution, hand, texts>>

FreeHand == [at |-> "idle", exec |-> 0, action |-> 0]

Handed == [at |-> "load", exec |-> 0, action |-> 0]

\* Before the first execution.
NothingRun ==
  /\ version \in [Workflow -> 0..1] /\ inactive \in SUBSET Workflow
  /\ execution = << >>
  /\ looped = [k \in Workflow \X Event |-> 0] /\ expiring = {}
  /\ hand = [s \in Slot |-> FreeHand]
  /\ edits \in Edits
  /\ texts = [w \in Workflow |-> [i \in 1..Actions[w] |-> 0]]

AutomationInit == NothingRun /\ firing = << >>

-----------------------------------------------------------------------------
(* WorkflowEngineService.fireTrigger, one action per database or Redis call. *)

TriggersOf(word) ==
  {"rsvp_received"} \cup
  CASE word = "yes" -> {"rsvp_yes", "rsvp_confirmed", "attendance_confirmed"}
    [] word = "no" -> {"rsvp_no", "rsvp_cancelled", "attendance_cancelled"}
    [] word = "maybe" -> {"rsvp_pending"}

\* The answer fires each of its triggers once. Calls that can find no workflow
\* are left out: no workflow is made here.
Fire(e, word) ==
  LET n == Cardinality({k[1] : k \in DOMAIN firing}) + 1
      heard == {ListensTo[w] : w \in {v \in Workflow : version[v] > 0}}
      new == {<<n, t, e>> : t \in TriggersOf(word) \cap heard}
  IN  firing' = [k \in DOMAIN firing \cup new |->
                   IF k \in new THEN [at |-> "find", left |-> {}, flow |-> None, seen |-> version]
                   ELSE firing[k]]

\* What EventRsvp does, with the triggers of an answer it has settled.
Triggering ==
  LET settling == {w \in Slot : desk[w].at = "settle" /\ desk[w]'.at = "reply"} IN
  /\ \/ settling = {} /\ UNCHANGED firing
     \/ \E w \in settling : Fire(desk[w].ev, Data(w).word)
  /\ UNCHANGED <<tableVars, loopVars, execution, hand, texts>>

Moves(k, to) == firing' = [firing EXCEPT ![k].at = to]

Listening(t) == {w \in Workflow : version[w] > 0 /\ w \notin inactive /\ ListensTo[w] = t /\ Actions[w] > 0}

\* Variant of FindWorkflows without the trigger in its query.
FindAny(k) ==
  /\ firing[k].at = "find"
  /\ firing' = [firing EXCEPT ![k].at = "track", ![k].seen = version,
                              ![k].left = UNION {Listening(t) : t \in Trigger}]
  /\ UNCHANGED <<tableVars, loopVars, execution, hand, texts, coming, faults>>

\* findMany: active workflows that listen to the trigger, with their actions.
FindWorkflows(k) ==
  /\ firing[k].at = "find"
  /\ firing' = [firing EXCEPT ![k].at = "track", ![k].seen = version, ![k].left = Listening(k[2])]
  /\ UNCHANGED <<tableVars, loopVars, execution, hand, texts, coming, faults>>

\* trackExecution: the INCR. A workflow over the limit is passed over.
Track(k) ==
  /\ firing[k].at = "track"
  /\ \E w \in firing[k].left :
       LET count == looped[<<w, k[3]>>] + 1
           next == IF count = 1 THEN "expire" ELSE IF count > MaxExecutions THEN "track" ELSE "create"
       IN /\ looped' = [looped EXCEPT ![<<w, k[3]>>] = count]
          /\ firing' = [firing EXCEPT ![k].at = next, ![k].left = @ \ {w}, ![k].flow = w]
  /\ UNCHANGED <<tableVars, expiring, execution, hand, texts, coming, faults>>

\* The EXPIRE of the first execution in the hour.
ExpireLoop(k) ==
  /\ firing[k].at = "expire"
  /\ expiring' = expiring \cup {<<firing[k].flow, k[3]>>}
  /\ Moves(k, IF MaxExecutions = 0 THEN "track" ELSE "create")
  /\ UNCHANGED <<tableVars, looped, execution, hand, texts, coming, faults>>

HourPasses(key) ==
  /\ key \in expiring
  /\ looped' = [looped EXCEPT ![key] = 0]
  /\ expiring' = expiring \ {key}
  /\ UNCHANGED <<tableVars, firing, execution, hand, texts, coming, faults>>

\* workflowExecution.create needs the workflow's row: without it the call fails.
CreateExecution(k) ==
  LET w == firing[k].flow IN
  /\ firing[k].at = "create"
  /\ \/ /\ version[w] > 0
        /\ execution' = Append(execution, [flow |-> w, ev |-> k[3], by |-> k, version |-> firing[k].seen[w],
                                           status |-> "RUNNING", jobs |-> << >>])
        /\ Moves(k, "add")
     \/ /\ version[w] = 0
        /\ Moves(k, "done")
        /\ UNCHANGED execution
  /\ UNCHANGED <<tableVars, loopVars, hand, texts, coming, faults>>

\* The execution this call made last.
Filling(k) == Max({x \in DOMAIN execution : execution[x].by = k})

\* queue.add, action after action.
AddAction(k) ==
  /\ firing[k].at = "add"
  /\ LET x == Filling(k)
         n == Len(execution[x].jobs)
     IN /\ execution' = [execution EXCEPT ![x].jobs = Append(@, Added(NoJob))]
        /\ Moves(k, IF n + 1 = Actions[firing[k].flow] THEN "track" ELSE "add")
  /\ UNCHANGED <<tableVars, loopVars, hand, texts, coming, faults>>

AllTracked(k) ==
  /\ firing[k].at = "track" /\ firing[k].left = {}
  /\ Moves(k, "done")
  /\ UNCHANGED <<tableVars, loopVars, execution, hand, texts, coming, faults>>

\* An error is caught and logged, or the process dies: nothing repeats the call.
FiringFails(k) ==
  /\ firing[k].at # "done"
  /\ RsvpFault
  /\ Moves(k, "done")
  /\ UNCHANGED <<tableVars, loopVars, execution, hand, texts>>

FiringStep(k) ==
  \/ FindWorkflows(k) \/ Track(k) \/ ExpireLoop(k) \/ CreateExecution(k) \/ AddAction(k)
  \/ AllTracked(k) \/ FiringFails(k)

-----------------------------------------------------------------------------
(* WorkflowProcessorService.processJob, one action per database or provider  *)
(* call.                                                                     *)

Running(s) == execution[hand[s].exec]

JobOf(s) == Running(s).jobs[hand[s].action]

SetJob(x, i, to) == execution' = [execution EXCEPT ![x].jobs[i] = to]

HandGoes(s, next) == hand' = [hand EXCEPT ![s].at = next]

TakeAction(s, x, i) ==
  /\ hand[s].at = "idle" /\ Startable(execution[x].jobs[i])
  /\ SetJob(x, i, Started(execution[x].jobs[i], s))
  /\ hand' = [hand EXCEPT ![s] = [Handed EXCEPT !.exec = x, !.action = i]]
  /\ UNCHANGED <<tableVars, firing, loopVars, texts, coming, faults>>

\* findUnique: an action that was replaced or deleted is skipped.
LoadAction(s) ==
  LET w == Running(s).flow IN
  /\ hand[s].at = "load"
  /\ HandGoes(s, IF version[w] # Running(s).version THEN "skip"
                 ELSE IF w \in Conditional THEN "check" ELSE "contact")
  /\ UNCHANGED <<tableVars, firing, loopVars, execution, texts, coming, faults>>

\* evaluateConditions reads the participant afresh.
CheckCondition(s) ==
  /\ hand[s].at = "check"
  /\ HandGoes(s, IF status[Running(s).ev] = "pending" THEN "contact" ELSE "skip")
  /\ UNCHANGED <<tableVars, firing, loopVars, execution, texts, coming, faults>>

\* An unsubscribed contact leaves no recipient, and the action counts as run.
ReadContact(s) ==
  /\ hand[s].at = "contact"
  /\ HandGoes(s, IF optedOut THEN "count" ELSE "send")
  /\ UNCHANGED <<tableVars, firing, loopVars, execution, texts, coming, faults>>

\* The answer of the provider is not looked at.
SendText(s, taken) ==
  /\ hand[s].at = "send"
  /\ texts' = IF taken THEN [texts EXCEPT ![Running(s).flow][hand[s].action] = @ + 1] ELSE texts
  /\ HandGoes(s, "count")
  /\ UNCHANGED <<tableVars, firing, loopVars, execution, coming, faults>>

\* The execution goes with its workflow: without it every update throws.
Gone(s) == version[Running(s).flow] = 0

AfterCount(s) == IF hand[s].action = Actions[Running(s).flow] THEN "mark" ELSE "complete"

\* actionsRun, inside the try, or actionsSkipped, outside.
CountAction(s) ==
  /\ hand[s].at \in {"count", "skip"}
  /\ HandGoes(s, IF ~Gone(s) THEN AfterCount(s) ELSE IF hand[s].at = "count" THEN "note" ELSE "throw")
  /\ UNCHANGED <<tableVars, firing, loopVars, execution, texts, coming, faults>>

\* markExecutionComplete: the last action completes even a FAILED execution.
MarkComplete(s) ==
  /\ hand[s].at = "mark"
  /\ IF Gone(s) THEN UNCHANGED execution
     ELSE execution' = [execution EXCEPT ![hand[s].exec].status = "COMPLETED"]
  /\ HandGoes(s, IF Gone(s) THEN "throw" ELSE "complete")
  /\ UNCHANGED <<tableVars, firing, loopVars, texts, coming, faults>>

\* A call throws; MessagingService.send also when it cannot log a message the
\* provider has taken. What executeAction throws is written down first.
ActionError(s) ==
  /\ hand[s].at \in {"load", "check", "contact", "send", "count", "skip", "mark", "note"}
  /\ RsvpFault
  /\ \/ UNCHANGED texts
     \/ hand[s].at = "send" /\ texts' = [texts EXCEPT ![Running(s).flow][hand[s].action] = @ + 1]
  /\ HandGoes(s, IF hand[s].at \in {"contact", "send", "count"} THEN "note" ELSE "throw")
  /\ UNCHANGED <<tableVars, firing, loopVars, execution>>

NoteFailure(s) ==
  /\ hand[s].at = "note"
  /\ IF Gone(s) THEN UNCHANGED execution
     ELSE execution' = [execution EXCEPT ![hand[s].exec].status = "FAILED"]
  /\ HandGoes(s, "throw")
  /\ UNCHANGED <<tableVars, firing, loopVars, texts, coming, faults>>

\* The handler returns or throws.
HandEnds(s) ==
  /\ hand[s].at \in {"complete", "throw"}
  /\ IF JobOf(s).owner # s THEN UNCHANGED execution
     ELSE SetJob(hand[s].exec, hand[s].action,
                 IF hand[s].at = "complete" THEN Completed(JobOf(s)) ELSE Failed(JobOf(s), ActionAttempts))
  /\ hand' = [hand EXCEPT ![s] = FreeHand]
  /\ UNCHANGED <<tableVars, firing, loopVars, texts, coming, faults>>

HandCrashes(s) ==
  /\ hand[s].at # "idle"
  /\ RsvpFault
  /\ hand' = [hand EXCEPT ![s] = FreeHand]
  /\ UNCHANGED <<tableVars, firing, loopVars, execution, texts>>

HandStep(s) ==
  \/ \E x \in DOMAIN execution : \E i \in DOMAIN execution[x].jobs : TakeAction(s, x, i)
  \/ LoadAction(s) \/ CheckCondition(s) \/ ReadContact(s)
  \/ \E taken \in BOOLEAN : SendText(s, taken)
  \/ CountAction(s) \/ MarkComplete(s) \/ ActionError(s) \/ NoteFailure(s)
  \/ HandEnds(s) \/ HandCrashes(s)

Handling(s, x, i) == hand[s].at # "idle" /\ hand[s].exec = x /\ hand[s].action = i

\* A lock expires: its worker is gone, or, as a fault, could not renew it.
ActionUnlocked(x, i) ==
  LET j == execution[x].jobs[i] IN
  /\ j.owner # None
  /\ \/ ~Handling(j.owner, x, i) /\ UNCHANGED <<coming, faults>>
     \/ Handling(j.owner, x, i) /\ RsvpFault
  /\ SetJob(x, i, Unlocked(j))
  /\ UNCHANGED <<tableVars, firing, loopVars, hand, texts>>

ActionStalled(x, i) ==
  LET j == execution[x].jobs[i] IN
  /\ \/ Stalled(j) /\ SetJob(x, i, Recovered(j))
     \/ GivenUp(j) /\ SetJob(x, i, Buried(j))
  /\ UNCHANGED <<tableVars, firing, loopVars, hand, texts, coming, faults>>

-----------------------------------------------------------------------------
(* AutomationService. *)

Edit(w) == edits > 0 /\ edits' = edits - 1 /\ version[w] > 0

\* update deletes every action of the workflow and makes new ones.
ReplaceActions(w) ==
  /\ Edit(w)
  /\ version' = [version EXCEPT ![w] = @ + 1]
  /\ UNCHANGED <<inactive, firing, loopVars, execution, hand, texts, coming, faults>>

\* The row goes with its trigger, actions and executions; its jobs stay.
RemoveWorkflow(w) ==
  /\ Edit(w)
  /\ version' = [version EXCEPT ![w] = 0]
  /\ UNCHANGED <<inactive, firing, loopVars, execution, hand, texts, coming, faults>>

ToggleActive(w) ==
  /\ Edit(w)
  /\ inactive' = IF w \in inactive THEN inactive \ {w} ELSE inactive \cup {w}
  /\ UNCHANGED <<version, firing, loopVars, execution, hand, texts, coming, faults>>

-----------------------------------------------------------------------------
\* Everything that is not a step of EventRsvp.
AutomationStep ==
  \/ \E k \in DOMAIN firing : FiringStep(k)
  \/ \E s \in Slot : HandStep(s)
  \/ \E x \in DOMAIN execution : \E i \in DOMAIN execution[x].jobs : ActionUnlocked(x, i) \/ ActionStalled(x, i)
  \/ \E key \in expiring : HourPasses(key)
  \/ \E w \in Workflow : ReplaceActions(w) \/ RemoveWorkflow(w) \/ ToggleActive(w)

AutomationNext ==
  \/ RsvpNext /\ Triggering
  \/ /\ AutomationStep
     /\ UNCHANGED <<queueVars, desk, guestVars, doorVars, clerk, flowVars, tellVars>>

AutomationSpec == RsvpInit /\ AutomationInit /\ [][AutomationNext]_<<rsvpVars, automationVars>>

\* A guest is texted for the answers that were given, by the workflows that listen
\* to them: each action reaches the guest at most once for each such answer, and
\* once more for each fault, whatever is retried, edited or run at the same time.
FollowUpsPaidFor ==
  \A w \in Workflow : \A i \in 1..Actions[w] :
    texts[w][i] <= Cardinality({k \in DOMAIN firing : k[2] = ListensTo[w]}) + faults
=============================================================================
