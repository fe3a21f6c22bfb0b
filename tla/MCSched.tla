------------------------------ MODULE MCSched ------------------------------
(* Two cores, the reaper and two tasks that do everything a task can do:    *)
(* enough for a core to be idle while the other wakes, dies or creates.     *)
EXTENDS Sched
=============================================================================
