--------------------------- MODULE InboundContract ---------------------------
(***************************************************************************)
(* What the webhooks of Twilio promise of an inbound message, whatever the *)
(* provider repeats and whatever fails: it is noted before it is acted on, *)
(* and acted on once at most.                                              *)
(***************************************************************************)
EXTENDS Naturals

CONSTANT Msg

VARIABLES noted, acted

contractVars == <<noted, acted>>

Init == noted = {} /\ acted = [m \in Msg |-> 0]

Note(m) ==
  /\ m \notin noted
  /\ noted' = noted \cup {m}
  /\ UNCHANGED acted

Act(m) ==
  /\ m \in noted /\ acted[m] = 0
  /\ acted' = [acted EXCEPT ![m] = 1]
  /\ UNCHANGED noted

Next == \E m \in Msg : Note(m) \/ Act(m)

Spec == Init /\ [][Next]_contractVars
=============================================================================
