------------------------- MODULE MCReminderDelivery --------------------------
(***************************************************************************)
(* Small instances of ReminderDelivery. r1 is a reminder of an appointment *)
(* of p1; r2 one of an event. Two attempts stand for the five of           *)
(* REMINDER_JOB_OPTIONS; a job of AppointmentService.create has none to    *)
(* retry.                                                                  *)
(***************************************************************************)
EXTENDS ReminderDelivery, TLC

CONSTANTS r1, r2, p1, p2, b1, b2, w1, w2

MCBookingOf == [r \in Reminder |-> IF r = r1 THEN b1 ELSE b2]

MCKind == [r \in Reminder |-> IF r = r1 THEN "appointment" ELSE "event"]

MCAudience == [r \in Reminder |-> IF r = r1 THEN {p1} ELSE Person]

MCAttempts == [x \in Prefix |-> IF x = "reminder" THEN 2 ELSE 0]

Symmetry == Permutations(Slot)

\* One of the two reminders comes into being, and what is requested is about it;
\* p1 may opt out of either, which leaves the event's with somebody to send to.
OneReminder ==
  /\ \A r, s \in Reminder : r = s \/ row[r] = "absent" \/ row[s] = "absent"
  /\ \A r \in Reminder : row[r] = "absent" => request.who # BookingOf[r]
  /\ customerOut # {} => \E r \in Reminder : row[r] # "absent"
  /\ customerOut \subseteq {p1}

OneSpec == Init /\ [][Next /\ OneReminder']_vars /\ Fairness
=============================================================================
