-------------------------- MODULE ReminderContract --------------------------
(***************************************************************************)
(* What the delivery of reminders promises to whom it addresses, whatever  *)
(* workers, queue, retries and requests do: a reminder is opened, its      *)
(* copies go out while it is open, and once it is settled nothing more     *)
(* goes out. Nobody gets a copy twice unless a fault came in between, and  *)
(* each fault costs one copy more at most.                                 *)
(***************************************************************************)
EXTENDS Naturals

CONSTANTS Reminder,
          Copy        \* the copies of a reminder there can be

VARIABLES state, out, faults

contractVars == <<state, out, faults>>

Init ==
  /\ state = [r \in Reminder |-> "none"]
  /\ out = [r \in Reminder |-> [c \in Copy |-> 0]]
  /\ faults = 0

Open(r) ==
  /\ state[r] = "none"
  /\ state' = [state EXCEPT ![r] = "open"]
  /\ UNCHANGED <<out, faults>>

Send(r, c) ==
  /\ state[r] = "open"
  /\ out[r][c] <= faults
  /\ out' = [out EXCEPT ![r][c] = @ + 1]
  /\ UNCHANGED <<state, faults>>

\* Reminders are settled, one or several at once, or a fault happens, which may
\* settle some as well.
Settle(R) ==
  /\ state' = [r \in Reminder |-> IF r \in R THEN "settled" ELSE state[r]]
  /\ faults' \in {faults, faults + 1}
  /\ UNCHANGED out

Next ==
  \/ \E r \in Reminder : Open(r) \/ \E c \in Copy : Send(r, c)
  \/ \E R \in SUBSET Reminder : Settle(R)

Spec == Init /\ [][Next]_contractVars
=============================================================================
