------------------------- MODULE ConversationSystem --------------------------
(***************************************************************************)
(* A tenant's conversations as a whole: the webhooks with the replies,     *)
(* appointments and guests they concern, and the workflows that a settled  *)
(* answer sets off. A workflow's own steps (its calls, jobs and edits)     *)
(* share nothing with the rest but the faults that hit them.               *)
(***************************************************************************)
EXTENDS InboundReplies, AutomationWorkflow

conversationVars == <<allVars, automationVars>>

ConversationInit == InboundInit /\ AutomationInit

ConversationNext ==
  \/ InboundNext /\ Triggering
  \/ /\ AutomationStep
     /\ UNCHANGED <<queueVars, desk, guestVars, doorVars, clerk, flowVars, tellVars,
                    reschedulingVars, inboundVars>>

ConversationSpec == ConversationInit /\ [][ConversationNext]_conversationVars
=============================================================================
