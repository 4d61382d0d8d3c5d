-------------------------- MODULE TimerSchedulerMC --------------------------
(***************************************************************************)
(* An instance of TimerScheduler for TLC.                                  *)
(***************************************************************************)
EXTENDS TimerScheduler

CONSTANTS c1, c2, q1, q2
=============================================================================
