----------------------------- MODULE MC_Schedules -----------------------------
(***************************************************************************)
(* Model values and constants for TLC's run of Schedules.                  *)
(***************************************************************************)
EXTENDS Schedules

CONSTANTS s1, s2, cron, manual

TwoSchedules == {s1, s2}
TwoSweepers  == {cron, manual}
=============================================================================
