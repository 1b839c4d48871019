------------------------- MODULE EscalationContract --------------------------
(***************************************************************************)
(* What the handling of delivery reports promises of the messages of a     *)
(* reminder, in whatever order reports arrive and however often: a message *)
(* that failed is followed by one on the next channel, and by one more for *)
(* each fault at most; every other message is followed by none.            *)
(***************************************************************************)
EXTENDS Naturals, Sequences, FiniteSets

CONSTANT Channel

VARIABLES message, route, faults

contractVars == <<message, route, faults>>

\* route is what the tenant has configured: which channel follows which.
Init ==
  /\ message = << >>
  /\ route \in SUBSET (Channel \X Channel)
  /\ faults = 0

Emit(channel, after) ==
  message' = Append(message, [channel |-> channel, fate |-> "sent", after |-> after])

\* A message of the reminder itself, or of a check or a job that gave up.
Send(channel) == Emit(channel, 0) /\ UNCHANGED <<route, faults>>

Successors(m) == {n \in DOMAIN message : message[n].after = m}

FallBack(m, channel) ==
  /\ message[m].fate = "failed"
  /\ <<message[m].channel, channel>> \in route
  /\ Cardinality(Successors(m)) <= faults
  /\ Emit(channel, m)
  /\ UNCHANGED <<route, faults>>

\* The provider's verdict on a message, and the customer's reading it, are final.
Report(m, fate) ==
  /\ \/ message[m].fate = "sent" /\ fate \in {"delivered", "failed"}
     \/ message[m].fate = "delivered" /\ fate = "read"
  /\ message' = [message EXCEPT ![m].fate = fate]
  /\ UNCHANGED <<route, faults>>

Fault == faults' = faults + 1 /\ UNCHANGED <<message, route>>

Next ==
  \/ \E channel \in Channel : Send(channel)
  \/ \E m \in DOMAIN message : \/ \E channel \in Channel : FallBack(m, channel)
                               \/ \E fate \in {"delivered", "failed", "read"} : Report(m, fate)
  \/ Fault

Spec == Init /\ [][Next]_contractVars
=============================================================================
