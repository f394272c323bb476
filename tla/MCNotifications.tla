---------------------------- MODULE MCNotifications ----------------------------
(* A finite instance of Notifications.                                     *)
EXTENDS Notifications
================================================================================
