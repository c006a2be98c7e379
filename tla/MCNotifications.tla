--------------------------- MODULE MCNotifications ---------------------------
(***************************************************************************)
(* Notifications on small instances, configured by notifications.cfg.      *)
(***************************************************************************)
EXTENDS Notifications
=============================================================================
