---------------------------- MODULE MCConversation ----------------------------
(***************************************************************************)
(* Small instances of ConversationSystem: two messages at most, two        *)
(* requests, two RSVP or workflow handlers, two events, two automations,   *)
(* one appointment, three hours.                                           *)
(* A run starts in one of the scenarios below, each a few things that meet.*)
(***************************************************************************)
EXTENDS ConversationSystem, TLC

CONSTANTS w1, w2, s1, s2, h1, h2, a1, m1, m2, f1, f2

\* One workflow writes twice to a guest who answered maybe; the other follows up any
\* answer, if the guest is still undecided.
MCListensTo == f1 :> "rsvp_pending" @@ f2 :> "rsvp_received"

MCActions == f1 :> 2 @@ f2 :> 1

\* Nothing, and n of one kind of thing.
None0(K) == [k \in K |-> 0]
Only(K, k, n) == [None0(K) EXCEPT ![k] = n]
Both(K, k, l) == [None0(K) EXCEPT ![k] = 1, ![l] = 1]

OneOf(K) == {None0(K)} \cup {Only(K, k, 1) : k \in K}

MCAgendas ==
  OneOf(Outside) \cup {Only(Outside, "respond", 3), Only(Outside, "scan", 2),
                       Only(Outside, "fault", 2), Both(Outside, "respond", "fault"), Both(Outside, "scan", "fault"),
                       [Only(Outside, "scan", 2) EXCEPT !["fault"] = 1]}

MCDiaries == OneOf(Diary)

Letter(via, text, times) == [via |-> via, text |-> text, times |-> times]

Letters(V, T, n) ==
  {Letter(via, text, n) : via \in V \ {"voice"}, text \in T} \cup
  {Letter("voice", text, n) : text \in T \cap {"1", "2", "3"}}

NoLetter == Letter("twilio", "STOP", 0)

Bag(x, y) == [m \in Msg |-> IF m = m1 THEN x ELSE y]

MCMailbags ==
  {Bag(x, y) : x \in Letters(Via, Text, 1) \cup Letters(Via, Text, 2) \cup {NoLetter},
               y \in Letters(Via, Text, 1) \cup {NoLetter}}

Quiet == coming = None0(Outside) /\ diary = None0(Diary)

\* The customer writes twice about an appointment, with no event to answer.
Appointments ==
  /\ over = Event /\ ~feedback /\ coming = None0(Outside)
  /\ \A m \in Msg : inbox[m].via # "termii" /\ inbox[m].times = 1
  /\ inbox[m1].text = "RESCHEDULE" /\ inbox[m1].via = "twilio"
  /\ status = [e \in Event |-> "invited"] /\ appt[a1].at = 2

\* One message is delivered twice.
Duplicates ==
  /\ over = {} /\ inbox[m2] = NoLetter /\ inbox[m1].times = 2 /\ inbox[m1].via # "voice"
  /\ diary = None0(Diary) /\ coming \in {None0(Outside), Only(Outside, "fault", 1)}
  /\ status = [e \in Event |-> "invited"] /\ appt[a1].at = 2

\* Two replies to events.
Replies ==
  /\ over = {} /\ ~feedback /\ Quiet
  /\ \A m \in Msg : inbox[m].via = "termii" /\ inbox[m].times = 1 /\ inbox[m].text \in {"1", "2", "3"}
  /\ appt[a1].at = 2

\* One reply, and what the organisers do meanwhile, or a fault.
Guests ==
  /\ over = {} /\ ~feedback /\ diary = None0(Diary)
  /\ inbox[m1] = Letter("termii", "1", 1) /\ inbox[m2] = NoLetter
  /\ coming \in OneOf(Outside) \cup {Only(Outside, "fault", 2)}
  /\ status = [e \in Event |-> "invited"] /\ appt[a1].at = 2

\* The organisers alone.
Organisers ==
  /\ over = {} /\ ~feedback /\ diary = None0(Diary)
  /\ inbox = Bag(NoLetter, NoLetter)
  /\ coming \notin OneOf(Outside)
  /\ status = [e \in Event |-> "invited"] /\ appt[a1].at = 2

NoWorkflows == edits = 0 /\ inactive = {} /\ version = [w \in Workflow |-> 0]

\* An answer sets a workflow off while the organisers or the contact change their
\* mind.
Automations ==
  /\ over = {1} /\ ~feedback /\ diary = None0(Diary)
  /\ appt[a1].at = 2 /\ status = [e \in Event |-> "invited"]
  /\ inbox[m1].via = "termii" /\ inbox[m1].times = 1 /\ inbox[m2] = NoLetter

Has(F) == inactive = {} /\ version = [w \in Workflow |-> IF w \in F THEN 1 ELSE 0]

Invited ==
  /\ \/ inbox[m1].text = "3" /\ Has({f1}) /\ edits = 1 /\ coming = None0(Outside)
     \/ inbox[m1].text = "3" /\ Has({f2}) /\ edits = 0 /\ coming \in {Only(Outside, k, 1) : k \in {"bulk", "optout"}}
     \/ inbox[m1].text = "2" /\ Has({f1, f2}) /\ edits = 0 /\ coming = None0(Outside)

\* The guest answered maybe some time ago, once or twice, and the calls of
\* fireTrigger have just begun.
Underway ==
  /\ over = {1} /\ ~feedback /\ diary = None0(Diary)
  /\ appt[a1].at = 2 /\ status = [e \in Event |-> "pending"]
  /\ inbox = Bag(NoLetter, NoLetter)

Call(n, t) == <<n, t, 2>> :> [at |-> "find", left |-> {}, flow |-> None, seen |-> version]

Begun ==
  /\ edits = 0
  /\ \/ Has({f1}) /\ firing = Call(1, "rsvp_pending") /\ coming = Only(Outside, "fault", 2)
     \/ Has({f2}) /\ firing = Call(1, "rsvp_received") @@ Call(2, "rsvp_received") /\ coming = Only(Outside, "fault", 1)

MCInit ==
  /\ InboundInit
  /\ \/ /\ Appointments \/ Duplicates \/ Replies \/ Guests \/ Organisers
        /\ AutomationInit /\ NoWorkflows
     \/ Automations /\ AutomationInit /\ Invited
     \/ Underway /\ NothingRun /\ Begun

MCSpec == MCInit /\ [][ConversationNext]_conversationVars

Symmetry == Permutations(Slot) \cup Permutations(Scanner) \cup Permutations(Hook)
=============================================================================
