-------------------------- MODULE NotificationsMC --------------------------
(* Small instances of Notifications for TLC.                                *)
EXTENDS Notifications, TLC
=============================================================================
