--------------------------- MODULE MCCronScheduler ---------------------------
(* Instance for TLC: two schedules, and three definitions: one that is due *)
(* twice, and two that are due once and differ in their payload.           *)
EXTENDS CronScheduler

CONSTANTS c1, c2
MCIds == {c1, c2}
MCDefs ==
  {[due |-> {2, 3}, payload |-> 1], [due |-> {3}, payload |-> 1], [due |-> {3}, payload |-> 2]}
=============================================================================
