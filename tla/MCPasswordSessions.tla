------------------------- MODULE MCPasswordSessions -------------------------
(***************************************************************************)
(* PasswordSessions on a small instance, configured by password_sessions.  *)
(***************************************************************************)
EXTENDS PasswordSessions
=============================================================================
