-------------------------- MODULE MCNotifications --------------------------
(* Small instance of Notifications: see MCNotifications.cfg.                 *)
EXTENDS Notifications
=============================================================================
