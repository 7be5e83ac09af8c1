--------------------------- MODULE CronScheduler ---------------------------
(***************************************************************************)
(* zeroclaw's cron: the job table and the run history in SQLite            *)
(* (cron/store.rs), the scheduler task that polls the table and runs what  *)
(* is due (cron/scheduler.rs), and the clients that change the table while *)
(* it does: CLI commands and agent tools, in the same process or another.  *)
(*                                                                         *)
(* The columns that say what a job does and how its last run went are left *)
(* out: no step depends on them.                                           *)
(*                                                                         *)
(* A step is one SQL statement or transaction, or an await.  A job that    *)
(* is taken is worked on from a copy of its row; update_job reads a row,   *)
(* patches the copy and writes all of it back.                             *)
(***************************************************************************)
EXTENDS Naturals, Sequences, FiniteSets, FiniteSetsExt, SequencesExt

CONSTANTS
  Jobs,           \* job ids, each used for one job (they are UUIDs)
  Schedules,      \* the schedules that clients set
  Clients,        \* commands and tool calls that may be under way at once
  MaxTasks,       \* scheduler.max_tasks: jobs taken by one poll
  MaxConcurrent,  \* scheduler.max_concurrent
  MaxRunHistory,  \* cron.max_run_history
  Retries,        \* reliability.scheduler_retries
  Horizon,        \* bound: the last instant
  MaxCrashes,     \* bound: crashes of the scheduler's process
  MaxChanges,     \* bound: changes by clients
  None            \* no job, no row

(* Schedule: every period from the end of the last run, at one instant, or *)
(* at the instants of a cron expression, which may run out (a year field). *)
Schedule ==
  [kind : {"every"}, period : 1..Horizon] \cup [kind : {"at"}, at : 1..Horizon]
    \cup [kind : {"cron"}, instants : SUBSET (1..Horizon)]

Rows == [schedule : Schedules, enabled : BOOLEAN, once : BOOLEAN, next : 1..(2 * Horizon)]

ASSUME CronAssumption ==
  /\ Schedules \subseteq Schedule
  /\ None \notin Jobs \cup Rows
  /\ {MaxTasks, MaxConcurrent, MaxRunHistory, Horizon} \subseteq Nat \ {0}
  /\ {Retries, MaxCrashes, MaxChanges} \subseteq Nat

VARIABLES
  now,      \* the clock
  table,    \* cron_jobs: [Jobs -> row or None]
  runs,     \* cron_runs: the starts of a job's recorded runs, oldest row first
  used,     \* ids drawn so far
  batch,    \* [Jobs -> what the scheduler is doing with the job, and the copy
            \*  of the row it works on, the attempts to execute it, how the run
            \*  ended, when it began, and the row its own update_job read]
  client,   \* [Clients -> what a client is doing]
  served,   \* history variable: the last due time a run was persisted for and
            \*  a later one set, since a client wrote the row
  settled,  \* history variable: one-shots the scheduler has done with
  crashes, changes

store  == <<table, runs, used>>
ghosts == <<served, settled>>
counts == <<crashes, changes>>
vars   == <<now, store, batch, client, ghosts, counts>>

Phases == {"none", "queued", "executing", "recording",
           "removing", "reading", "disabling", "rescheduling"}

Rest == [phase |-> "none", row |-> None, tries |-> 0, ok |-> FALSE, began |-> 0, fetched |-> None]
Idle == [pc |-> "idle", job |-> None, row |-> None, began |-> 0]

Init ==
  /\ now = 0
  /\ table = [j \in Jobs |-> None]
  /\ runs = [j \in Jobs |-> <<>>]
  /\ used = {}
  /\ batch = [j \in Jobs |-> Rest]
  /\ client = [c \in Clients |-> Idle]
  /\ served = [j \in Jobs |-> 0]
  /\ settled = {}
  /\ crashes = 0
  /\ changes = 0

Tick == now < Horizon /\ now' = now + 1 /\ UNCHANGED <<store, batch, client, ghosts, counts>>

-----------------------------------------------------------------------------
(* schedule.rs *)

(* next_run_for_schedule; Never stands for its error. *)
Never == 0

(* Mutant: an instant counts as its own successor. *)
NextRunFromNow(s, from) ==
  CASE s.kind = "every" -> from + s.period
    [] s.kind = "at"    -> s.at
    [] s.kind = "cron"  -> LET later == {t \in s.instants : t >= from}
                           IN  IF later = {} THEN Never ELSE Min(later)

NextRun(s, from) ==
  CASE s.kind = "every" -> from + s.period
    [] s.kind = "at"    -> s.at
    [] s.kind = "cron"  -> LET later == {t \in s.instants : t > from}
                           IN  IF later = {} THEN Never ELSE Min(later)

(* A schedule on which the next run is not in the future: an instant that  *)
(* has passed, or a cron expression that has run out.                      *)
RunsOut(s) == (s.kind = "at" /\ s.at <= now) \/ NextRun(s, now) = Never

(* validate_schedule, which also tells whether a cron expression has a     *)
(* next run.                                                               *)
Valid(s, at) == IF s.kind = "at" THEN s.at > at ELSE NextRun(s, at) # Never

-----------------------------------------------------------------------------
(* store.rs *)

Exists(j) == table[j] # None

SetRow(j, row) == table' = [table EXCEPT ![j] = row]

(* DELETE FROM cron_jobs; the job's runs go with it (ON DELETE CASCADE). *)
DeleteRow(j) ==
  /\ SetRow(j, None)
  /\ runs' = [runs EXCEPT ![j] = <<>>]

(* Mutant: INSERT OR REPLACE. *)
UpsertRow(j, row) == SetRow(j, row)

(* The UPDATE of update_job: every column a client can set, by id. *)
UpdateRow(j, row) == IF Exists(j) THEN SetRow(j, row) ELSE UNCHANGED table

(* record_run: insert the run and prune the history down to the runs that  *)
(* started last, in one transaction.  For a job that is gone the insert    *)
(* violates the foreign key, and its error is ignored.                     *)
FirstToGo(starts) == CHOOSE i \in DOMAIN starts :
  \A k \in DOMAIN starts : starts[i] < starts[k] \/ (starts[i] = starts[k] /\ i <= k)

(* Mutant: the history is not pruned. *)
RecordRunUnpruned(j, start) ==
  runs' = IF Exists(j) THEN [runs EXCEPT ![j] = Append(@, start)] ELSE runs

(* Mutant: foreign keys are left off, as SQLite has them by default. *)
RecordRunUnchecked(j, start) ==
  LET all == Append(runs[j], start) IN
  runs' = [runs EXCEPT ![j] = IF Len(all) > MaxRunHistory THEN RemoveAt(all, FirstToGo(all)) ELSE all]

RecordRun(j, start) ==
  LET all == Append(runs[j], start) IN
  runs' = IF ~Exists(j) THEN runs
          ELSE [runs EXCEPT ![j] = IF Len(all) > MaxRunHistory THEN RemoveAt(all, FirstToGo(all)) ELSE all]

-----------------------------------------------------------------------------
(* The scheduler's task. *)

Due == {j \in Jobs : Exists(j) /\ table[j].enabled /\ table[j].next <= now}

At(p) == {j \in Jobs : batch[j].phase = p}

Step(j, p, q) == batch[j].phase = p /\ batch' = [batch EXCEPT ![j].phase = q]

Leave(j, p) == batch[j].phase = p /\ batch' = [batch EXCEPT ![j] = Rest]

(* due_jobs: the MaxTasks jobs that have been due longest.  The loop polls *)
(* again only when the whole batch is through.                             *)
Poll ==
  /\ At("none") = Jobs
  /\ Due # {}
  /\ \E picked \in SUBSET Due :
       /\ Cardinality(picked) = Min({MaxTasks, Cardinality(Due)})
       /\ \A j \in picked, k \in Due \ picked : table[j].next <= table[k].next
       /\ batch' = [j \in Jobs |-> IF j \in picked
                                   THEN [Rest EXCEPT !.phase = "queued", !.row = table[j]]
                                   ELSE Rest]
  /\ UNCHANGED <<now, store, client, ghosts, counts>>

(* buffer_unordered: jobs start in the order of the query, MaxConcurrent   *)
(* at a time.                                                              *)
StartJob(j) ==
  /\ Cardinality(Jobs \ (At("none") \cup At("queued"))) < MaxConcurrent
  /\ batch[j].phase = "queued"
  /\ \A k \in At("queued") : batch[j].row.next <= batch[k].row.next
  /\ batch' = [batch EXCEPT ![j].phase = "executing", ![j].began = now]
  /\ UNCHANGED <<now, store, client, ghosts, counts>>

(* execute_job_with_retry: an attempt fails and is tried again after a     *)
(* sleep; or it succeeds, fails for the last time or is blocked by the     *)
(* security policy, which is not retried.  Then deliver_if_configured may  *)
(* fail, which makes the run a failure unless it was best effort.  The     *)
(* count of attempts is the loop's own and ends with it.                   *)
Attempt(j) ==
  /\ batch[j].phase = "executing"
  /\ \/ /\ batch[j].tries < Retries
        /\ batch' = [batch EXCEPT ![j].tries = @ + 1]
     \/ \E ok \in BOOLEAN : batch' = [batch EXCEPT ![j].phase = "recording", ![j].ok = ok, ![j].tries = 0]
  /\ UNCHANGED <<now, store, client, ghosts, counts>>

OneShotAutoDelete(row) == row.once /\ row.schedule.kind = "at"

RecordJobRun(j) ==
  /\ Step(j, "recording", IF ~OneShotAutoDelete(batch[j].row) THEN "rescheduling"
                          ELSE IF batch[j].ok THEN "removing" ELSE "reading")
  /\ RecordRun(j, batch[j].began)
  /\ UNCHANGED <<now, table, used, client, ghosts, counts>>

(* A one-shot that succeeded is removed. *)
RemoveOneShot(j) ==
  /\ Leave(j, "removing")
  /\ DeleteRow(j)
  /\ settled' = settled \cup {j}
  /\ UNCHANGED <<now, used, client, served, counts>>

(* One that failed is disabled, by update_job's read and write. *)
ReadOneShot(j) ==
  /\ IF Exists(j)
     THEN batch[j].phase = "reading" /\ batch' = [batch EXCEPT ![j].phase = "disabling", ![j].fetched = table[j]]
     ELSE Leave(j, "reading")
  /\ UNCHANGED <<now, store, client, ghosts, counts>>

(* Mutant: the patch says nothing of enabled. *)
DisableNothing(j) ==
  /\ Leave(j, "disabling")
  /\ UpdateRow(j, batch[j].fetched)
  /\ settled' = settled \cup {j}
  /\ UNCHANGED <<now, runs, used, client, served, counts>>

DisableOneShot(j) ==
  /\ Leave(j, "disabling")
  /\ UpdateRow(j, [batch[j].fetched EXCEPT !.enabled = FALSE])
  /\ settled' = settled \cup {j}
  /\ UNCHANGED <<now, runs, used, client, served, counts>>

(* Mutant: the row is written back from the copy. *)
RescheduleFromCopy(j) ==
  LET row == batch[j].row  next == NextRun(row.schedule, now) IN
  /\ Leave(j, "rescheduling")
  /\ IF next = Never \/ ~Exists(j)
     THEN UNCHANGED table
     ELSE SetRow(j, [row EXCEPT !.next = next])
  /\ served' = [served EXCEPT ![j] = IF RunsOut(row.schedule) THEN 0 ELSE row.next]
  /\ UNCHANGED <<now, runs, used, client, settled, counts>>

(* reschedule_after_run, for any other job: the next run by the schedule   *)
(* of the copy.  Without one nothing is written and the job stays due.     *)
RescheduleAfterRun(j) ==
  LET row == batch[j].row  next == NextRun(row.schedule, now) IN
  /\ Leave(j, "rescheduling")
  /\ IF next = Never \/ ~Exists(j)
     THEN UNCHANGED table
     ELSE SetRow(j, [table[j] EXCEPT !.next = next])
  /\ served' = [served EXCEPT ![j] = IF RunsOut(row.schedule) THEN 0 ELSE row.next]
  /\ UNCHANGED <<now, runs, used, client, settled, counts>>

(* The process dies and comes back: the table is what remains.             *)
Crash ==
  /\ crashes < MaxCrashes
  /\ crashes' = crashes + 1
  /\ batch' = [j \in Jobs |-> Rest]
  /\ UNCHANGED <<now, store, client, ghosts, changes>>

-----------------------------------------------------------------------------
(* Clients. *)

Change == changes < MaxChanges /\ changes' = changes + 1 /\ UNCHANGED crashes

(* add_shell_job, add_agent_job *)
AddJob(j, s, once) ==
  /\ Change
  /\ j \notin used
  /\ Valid(s, now)
  /\ used' = used \cup {j}
  /\ SetRow(j, [schedule |-> s, enabled |-> TRUE, once |-> once, next |-> NextRun(s, now)])
  /\ UNCHANGED <<now, runs, batch, client, ghosts>>

RemoveJob(j) ==
  /\ Change
  /\ Exists(j)
  /\ DeleteRow(j)
  /\ UNCHANGED <<now, used, batch, client, ghosts>>

(* update_job (pause, resume, update), in two steps: get_job, then the     *)
(* patched copy is written back.                                           *)
BeginUpdate(c, j) ==
  /\ Change
  /\ client[c] = Idle
  /\ Exists(j)
  /\ client' = [client EXCEPT ![c] = [pc |-> "updating", job |-> j, row |-> table[j], began |-> now]]
  /\ UNCHANGED <<now, store, batch, ghosts>>

(* What a patch can make of a row: any of its fields, and with a schedule  *)
(* a next run.                                                             *)
Rescheduled(row) ==
  {[row EXCEPT !.schedule = s, !.next = NextRun(s, now)] : s \in {t \in Schedules : Valid(t, now)}}

Patched(row) ==
  UNION {[schedule : {p.schedule}, next : {p.next}, enabled : BOOLEAN, once : BOOLEAN]
         : p \in {row} \cup Rescheduled(row)}

EndUpdate(c) ==
  LET j == client[c].job IN
  /\ client[c].pc = "updating"
  /\ \E row \in Patched(client[c].row) : UpdateRow(j, row)
  /\ client' = [client EXCEPT ![c] = Idle]
  /\ served' = [served EXCEPT ![j] = 0]
  /\ settled' = settled \ {j}
  /\ UNCHANGED <<now, runs, used, batch, counts>>

(* validate_schedule refuses the patch: nothing is written.                *)
RefuseUpdate(c) ==
  /\ client[c].pc = "updating"
  /\ \E s \in Schedules : ~Valid(s, now)
  /\ client' = [client EXCEPT ![c] = Idle]
  /\ UNCHANGED <<now, store, batch, ghosts, counts>>

(* The cron_run tool: whatever the table says about when, the job is       *)
(* executed now, from a copy of its row, and its run is recorded.           *)
BeginRunNow(c, j) ==
  /\ Change
  /\ client[c] = Idle
  /\ Exists(j)
  /\ client' = [client EXCEPT ![c] = [pc |-> "running", job |-> j, row |-> table[j], began |-> now]]
  /\ UNCHANGED <<now, store, batch, ghosts>>

RecordRunNow(c) ==
  /\ client[c].pc = "running"
  /\ RecordRun(client[c].job, client[c].began)
  /\ client' = [client EXCEPT ![c] = Idle]
  /\ UNCHANGED <<now, table, used, batch, ghosts, counts>>

-----------------------------------------------------------------------------
Work(j) ==
  \/ StartJob(j) \/ Attempt(j) \/ RecordJobRun(j)
  \/ RemoveOneShot(j) \/ ReadOneShot(j) \/ DisableOneShot(j)
  \/ RescheduleAfterRun(j)

ClientStep ==
  \/ \E j \in Jobs, s \in Schedules, once \in BOOLEAN : AddJob(j, s, once)
  \/ \E j \in Jobs : RemoveJob(j)
  \/ \E c \in Clients : \/ \E j \in Jobs : BeginUpdate(c, j) \/ BeginRunNow(c, j)
                        \/ EndUpdate(c) \/ RefuseUpdate(c) \/ RecordRunNow(c)

Next == Tick \/ Poll \/ (\E j \in Jobs : Work(j)) \/ Crash \/ ClientStep

Spec == Init /\ [][Next]_vars

(* The scheduler's interval keeps firing, an execution ends (a shell       *)
(* command at the latest by its timeout), and the runtime polls the batch. *)
(* Nothing makes a client act, and time may stand still.                   *)
Fairness == WF_vars(Poll) /\ \A j \in Jobs : WF_vars(Work(j))

FairSpec == Spec /\ Fairness
-----------------------------------------------------------------------------
(* Type correctness; the history of a job is bounded, whoever records.     *)
TypeOK ==
  /\ now \in 0..Horizon
  /\ table \in [Jobs -> Rows \cup {None}]
  /\ used \subseteq Jobs
  /\ runs \in [Jobs -> Seq(0..Horizon)] /\ \A j \in Jobs : Len(runs[j]) <= MaxRunHistory
  /\ batch \in [Jobs -> [phase : Phases, row : Rows \cup {None}, tries : 0..Retries, ok : BOOLEAN,
                         began : 0..Horizon, fetched : Rows \cup {None}]]
  /\ client \in [Clients -> [pc : {"idle", "updating", "running"}, job : Jobs \cup {None},
                             row : Rows \cup {None}, began : 0..Horizon]]
  /\ served \in [Jobs -> 0..(2 * Horizon)]
  /\ settled \subseteq Jobs

(* A job that was removed leaves nothing behind and does not come back,    *)
(* though it may be executing, scheduled, run by a tool or half updated at *)
(* that moment: only the jobs ever added and not removed have rows, and    *)
(* only jobs with a row have runs.                                         *)
RunsBelongToJobs == \A j \in Jobs : ~Exists(j) => runs[j] = <<>>

RemovedStaysRemoved == [][\A j \in Jobs : ~Exists(j) /\ j \in used => table'[j] = None]_vars

(* The scheduler never undoes a pause: only a client's own write turns a   *)
(* disabled job on, whatever stale copies the batch writes from.           *)
SchedulerKeepsPause ==
  [][client' = client => \A j \in Jobs :
       Exists(j) /\ ~table[j].enabled /\ table'[j] # None => ~table'[j].enabled]_vars

(* A one-shot that the scheduler has settled (removed, or disabled after a *)
(* failure) is not executed again by a later poll, unless a client wrote   *)
(* its row since.                                                          *)
SettledOnce == \A j \in settled : ~Exists(j) \/ ~table[j].enabled

(* Once a run has been persisted its due time is over: no later poll takes *)
(* the job for the same due time or an earlier one, unless a client wrote  *)
(* the row (with a stale next_run, for one) or the schedule of that run    *)
(* had no next one.  A crash before the run is persisted repeats it; that  *)
(* is not excluded.                                                        *)
ServedOnce == \A j \in Jobs : batch[j].row # None => batch[j].row.next > served[j]

(* What is due is run, and then rescheduled or (a one-shot) removed or     *)
(* disabled, in the end, after crashes too and however many jobs compete   *)
(* for the MaxTasks places of a poll, unless a job that is due can never   *)
(* be rescheduled: such a job, at an instant that has passed and not to be *)
(* deleted after its run or on a cron expression that has run out, is due  *)
(* for ever, and first in the order.                                       *)
StaysDue(row) == RunsOut(row.schedule) /\ ~OneShotAutoDelete(row)

Stuck == \E k \in Due : StaysDue(table[k])

DueIsWorkedOff == \A j \in Jobs : j \in Due ~> (j \notin Due \/ Stuck)

(* "Updated cron job ... Next: ..." (cron/mod.rs): when nobody is at work  *)
(* on a job, its next run is no later than its own schedule asks for.  Not *)
(* so after an update during a run: the reschedule uses the old schedule.  *)
AtRest(j) == batch[j] = Rest /\ \A c \in Clients : client[c].job # j

NextRunFollowsSchedule ==
  \A j \in Jobs : Exists(j) /\ AtRest(j) /\ NextRun(table[j].schedule, now) # Never
    => table[j].next <= Max({now, NextRun(table[j].schedule, now)})
=============================================================================
