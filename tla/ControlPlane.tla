----------------------------- MODULE ControlPlane -----------------------------
(***************************************************************************)
(* The components behind the HTTP API as one system: requests of every kind *)
(* and the scheduled-query runners interleave over the same database, clock *)
(* and budget of failures.                                                  *)
(***************************************************************************)
EXTENDS Scheduler, Notifications, Dashboards, Governance

vars == <<api, schedulerVars, notificationVars, dashboardVars, governanceVars>>

TypeOK == ApiTypeOK /\ SchedulerTypeOK /\ NotificationTypeOK /\ DashboardTypeOK /\ GovernanceTypeOK

Init == ApiInit /\ SchedulerInit /\ NotificationInit /\ DashboardInit /\ GovernanceInit

Next ==
  \/ SchedulerNext /\ UNCHANGED <<notificationVars, dashboardVars, governanceVars>>
  \/ NotificationNext /\ UNCHANGED <<schedulerVars, dashboardVars, governanceVars>>
  \/ DashboardNext /\ UNCHANGED <<schedulerVars, notificationVars, governanceVars>>
  \/ GovernanceNext /\ UNCHANGED <<schedulerVars, notificationVars, dashboardVars>>
  \/ Clock /\ UNCHANGED <<schedulerVars, notificationVars, dashboardVars, governanceVars>>

Spec == Init /\ [][Next]_vars
=============================================================================
