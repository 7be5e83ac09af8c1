--------------------------- MODULE CronSchedulerMC ---------------------------
EXTENDS CronScheduler

CONSTANTS j1, j2, c1

Every(n)    == [kind |-> "every", period |-> n]
OnceAt(n)   == [kind |-> "at", at |-> n]
Crontab(ts) == [kind |-> "cron", instants |-> ts]

(* A recurring one, a one-shot, and an expression with a last occurrence.  *)
AllKinds == {Every(1), OnceAt(1), Crontab({1, 2})}

(* A short period and a longer one. *)
ShortAndLong == {Every(1), Every(2)}
=============================================================================
