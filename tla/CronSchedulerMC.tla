--------------------------- MODULE CronSchedulerMC ---------------------------
(* CronScheduler with a schedule that names every time, one that names every *)
(* third, and one that is valid cron but never comes.                        *)
EXTENDS CronScheduler

MCSlots == [s \in Schedules |-> CASE s = "often" -> 1..(MaxTime + 3)
                                  [] s = "rarely" -> {3 * k : k \in 1..(MaxTime + 3)}
                                  [] OTHER -> {}]
=============================================================================
