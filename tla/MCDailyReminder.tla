-------------------------- MODULE MCDailyReminder --------------------------
(* TLC instance of DailyReminder.  The posts are not made symmetric: the   *)
(* run also checks liveness.                                               *)
EXTENDS DailyReminder
=============================================================================
