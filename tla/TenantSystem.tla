---------------------------- MODULE TenantSystem -----------------------------
(***************************************************************************)
(* One tenant as a whole: its billing and its metered AI requests, the     *)
(* messages of a reminder and their escalation, its contacts and events.   *)
(* Escalation reads the plan that payments change, and the faults that hit *)
(* it come out of the same budget as those of the webhooks.                *)
(***************************************************************************)
EXTENDS AiUsage, ChannelFailover, Attendance

tenantVars == <<aiVars, failoverVars, attendanceVars>>

TenantInit == AiInit /\ FailoverInit /\ AttendanceInit

TenantNext ==
  \/ AiNext /\ UNCHANGED <<failoverVars, attendanceVars>>
  \/ FailoverStep /\ UNCHANGED <<ask, completions, attendanceVars>>
  \/ AttendanceNext /\ UNCHANGED <<aiVars, failoverVars>>

TenantSpec == TenantInit /\ [][TenantNext]_tenantVars

\* Every variable of billing, AI usage, failover and attendance keeps its type,
\* whichever of them takes the step.
TenantTypeOK == AiTypeOK /\ FailoverTypeOK /\ AttendanceTypeOK
=============================================================================
