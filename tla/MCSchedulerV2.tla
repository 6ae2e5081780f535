---------------------------- MODULE MCSchedulerV2 ----------------------------
(* One recurring entry with a countdown of two runs, and a one-shot timer. *)
EXTENDS SchedulerV2

Countdown == [n \in Names |-> IF n = "job" THEN 2 ELSE 0]
=============================================================================
