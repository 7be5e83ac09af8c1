------------------------ MODULE CronSchedulerProofs ------------------------
(***************************************************************************)
(* Theorems about CronScheduler, for every set of jobs, schedules and      *)
(* clients, and every bound.                                               *)
(***************************************************************************)
EXTENDS CronScheduler, WellFoundedInduction, SequenceTheorems, TLAPS

(* What is known of one job: a job in the batch was added, has a row to    *)
(* work on and is due; a row's next run, also in the copies the scheduler  *)
(* writes from, is later than the due time that was served; a settled job  *)
(* has no row or a disabled one; and runs belong to a row.                 *)
Working(j) ==
  /\ batch[j].phase = "none" => batch[j].row = None
  /\ batch[j].phase # "none" =>
       j \in used /\ batch[j].row \in Rows /\ batch[j].row.next \in (served[j] + 1)..now
  /\ batch[j].phase = "disabling" => batch[j].fetched \in Rows /\ batch[j].fetched.next > served[j]

Stored(j) ==
  /\ Exists(j) => j \in used /\ table[j].next > served[j]
  /\ ~Exists(j) => runs[j] = <<>>
  /\ j \in settled => j \in used /\ (~Exists(j) \/ ~table[j].enabled)
  /\ j \notin used => served[j] = 0

(* A client that is at work has a job, and one that updates it a row.      *)
Busy(c) ==
  /\ client[c].pc # "idle" => client[c].job \in Jobs
  /\ client[c].pc = "updating" => client[c].row \in Rows

CronInv ==
  /\ TypeOK
  /\ \A j \in Jobs : Working(j) /\ Stored(j)
  /\ \A c \in Clients : Busy(c)

Errands == [pc : {"idle", "updating", "running"}, job : Jobs \cup {None},
            row : Rows \cup {None}, began : 0..Horizon]

Stages == [phase : Phases, row : Rows \cup {None}, tries : 0..Retries, ok : BOOLEAN,
           began : 0..Horizon, fetched : Rows \cup {None}]

-----------------------------------------------------------------------------
(* The operators. *)

LEMMA Smallest ==
  ASSUME NEW S \in SUBSET Nat, S # {}
  PROVE  \E x \in S : \A y \in S : x <= y
<1> DEFINE R == {ss \in Nat \X Nat : ss[1] < ss[2]}
<1>1. IsWellFoundedOn(R, Nat)
  BY NatLessThanWellFounded DEF OpToRel
<1> HIDE DEF R
<1>2. PICK x \in S : \A y \in S : ~(<<y, x>> \in R)
  BY <1>1, WFMin
<1>3. ASSUME NEW y \in S, y < x
      PROVE  FALSE
  <2>1. <<y, x>> \in Nat \X Nat /\ <<y, x>>[1] = y /\ <<y, x>>[2] = x
    OBVIOUS
  <2>2. <<y, x>> \in R
    BY <1>3, <2>1, Zenon DEF R
  <2> QED BY <1>2, <2>2
<1> QED BY <1>3

(* A schedule's next run is in the clock's range, and later than the       *)
(* instant it is asked for, unless there is none.                          *)
LEMMA NextRunType ==
  ASSUME NEW s \in Schedules, NEW t \in 0..Horizon
  PROVE  /\ NextRun(s, t) \in 0..(2 * Horizon)
         /\ s.kind # "at" /\ NextRun(s, t) # Never => NextRun(s, t) > t
         /\ Valid(s, t) => NextRun(s, t) # Never
<1> USE CronAssumption DEF CronAssumption, Never
<1>1. CASE s.kind = "every"
  <2>1. s.period \in 1..Horizon
    BY <1>1 DEF Schedule
  <2> QED BY <1>1, <2>1 DEF NextRun, Valid
<1>2. CASE s.kind = "at"
  <2>1. s.at \in 1..Horizon
    BY <1>2 DEF Schedule
  <2> QED BY <1>2, <2>1 DEF NextRun, Valid
<1>3. CASE s.kind = "cron"
  <2> DEFINE later == {i \in s.instants : i > t}
  <2>1. s.instants \subseteq 1..Horizon
    BY <1>3 DEF Schedule
  <2> later \in SUBSET Nat
    BY <2>1
  <2>2. ASSUME later # {}
        PROVE  Min(later) \in later
    <3>1. \E x \in later : \A y \in later : x <= y
      BY <2>2, Smallest
    <3> HIDE DEF later
    <3> QED BY <3>1 DEF Min
  <2>3. NextRun(s, t) = IF later = {} THEN Never ELSE Min(later)
    BY <1>3 DEF NextRun
  <2> HIDE DEF later
  <2>4. \A i \in later : i \in 1..Horizon /\ i > t
    BY <2>1 DEF later
  <2>5. later # {} => Min(later) \in 1..Horizon /\ Min(later) > t
    BY <2>2, <2>4
  <2>6. Valid(s, t) => NextRun(s, t) # Never
    BY <1>3 DEF Valid
  <2>7. CASE later = {}
    BY <2>3, <2>6, <2>7
  <2>8. CASE later # {}
    BY <2>3, <2>5, <2>6, <2>8
  <2> QED BY <2>7, <2>8
<1> QED BY <1>1, <1>2, <1>3 DEF Schedule

(* The run to prune is one of the recorded ones. *)
LEMMA PrunesOne ==
  ASSUME NEW s \in Seq(0..Horizon), s # <<>>
  PROVE  FirstToGo(s) \in 1..Len(s)
<1> USE CronAssumption DEF CronAssumption
<1> DEFINE starts == {s[i] : i \in 1..Len(s)}
<1>1. starts \in SUBSET Nat /\ starts # {}
  OBVIOUS
<1>2. PICK least \in starts : \A x \in starts : least <= x
  BY <1>1, Smallest
<1> DEFINE places == {i \in 1..Len(s) : s[i] = least}
<1>3. places \in SUBSET Nat /\ places # {}
  BY <1>2
<1>4. PICK i \in places : \A k \in places : i <= k
  BY <1>3, Smallest
<1>5. ASSUME NEW k \in 1..Len(s)
      PROVE  s[i] < s[k] \/ (s[i] = s[k] /\ i <= k)
  <2>1. s[i] = least /\ s[k] \in starts /\ s[k] \in Nat /\ least \in Nat
    OBVIOUS
  <2>2. least <= s[k]
    BY <1>2, <2>1
  <2>3. s[k] = least => i <= k
    BY <1>4
  <2> HIDE DEF places, starts
  <2> QED BY <2>1, <2>2, <2>3
<1>6. i \in DOMAIN s /\ DOMAIN s = 1..Len(s)
  OBVIOUS
<1> HIDE DEF places, starts
<1> QED BY <1>5, <1>6 DEF FirstToGo

LEMMA RemoveAtType ==
  ASSUME NEW S, NEW s \in Seq(S), NEW i \in 1..Len(s)
  PROVE  RemoveAt(s, i) \in Seq(S) /\ Len(RemoveAt(s, i)) = Len(s) - 1
<1> DEFINE front == SubSeq(s, 1, i - 1)
           back  == SubSeq(s, i + 1, Len(s))
<1>1. front \in Seq(S) /\ Len(front) = i - 1
  OBVIOUS
<1>2. back \in Seq(S) /\ Len(back) = Len(s) - i
  OBVIOUS
<1>3. RemoveAt(s, i) = front \o back
  BY DEF RemoveAt
<1> HIDE DEF front, back
<1>4. (front \o back) \in Seq(S) /\ Len(front \o back) = Len(front) + Len(back)
  BY <1>1, <1>2
<1> QED BY <1>1, <1>2, <1>3, <1>4

LEMMA RecordRunType ==
  ASSUME TypeOK, NEW j \in Jobs, NEW start \in 0..Horizon, RecordRun(j, start)
  PROVE  /\ runs' \in [Jobs -> Seq(0..Horizon)]
         /\ \A k \in Jobs : Len(runs'[k]) <= MaxRunHistory
         /\ \A k \in Jobs : k # j \/ ~Exists(k) => runs'[k] = runs[k]
<1> DEFINE all == Append(runs[j], start)
           i == FirstToGo(all)
           kept == IF Len(all) > MaxRunHistory THEN RemoveAt(all, i) ELSE all
<1>1. runs[j] \in Seq(0..Horizon) /\ Len(runs[j]) <= MaxRunHistory /\ MaxRunHistory \in Nat
  BY CronAssumption DEF CronAssumption, TypeOK
<1>2. all \in Seq(0..Horizon) /\ all # <<>> /\ Len(all) = Len(runs[j]) + 1 /\ Len(runs[j]) \in Nat
  BY <1>1
<1>3. i \in 1..Len(all)
  BY <1>2, PrunesOne
<1> HIDE DEF all, i
<1>4. RemoveAt(all, i) \in Seq(0..Horizon) /\ Len(RemoveAt(all, i)) = Len(all) - 1
  BY <1>2, <1>3, RemoveAtType
<1>5. kept \in Seq(0..Horizon) /\ Len(kept) <= MaxRunHistory
  BY <1>1, <1>2, <1>4
<1>6. runs' = IF ~Exists(j) THEN runs ELSE [runs EXCEPT ![j] = kept]
  BY DEF RecordRun, all, i
<1> HIDE DEF kept
<1> QED BY <1>5, <1>6 DEF TypeOK

LEMMA PatchedType ==
  ASSUME NEW row \in Rows, now \in 0..Horizon, NEW new \in Patched(row)
  PROVE  new \in Rows
<1>1. PICK p \in {row} \cup Rescheduled(row) :
        new \in [schedule : {p.schedule}, next : {p.next}, enabled : BOOLEAN, once : BOOLEAN]
  BY DEF Patched
<1>2. ASSUME p \in Rescheduled(row)
      PROVE  p \in Rows
  <2>1. PICK s \in Schedules : Valid(s, now) /\ p = [row EXCEPT !.schedule = s, !.next = NextRun(s, now)]
    BY <1>2 DEF Rescheduled
  <2>2. NextRun(s, now) \in 1..(2 * Horizon)
    BY <2>1, NextRunType, CronAssumption DEF CronAssumption, Never
  <2> QED BY <2>1, <2>2 DEF Rows
<1>3. p \in Rows
  BY <1>1, <1>2
<1> QED BY <1>1, <1>3 DEF Rows

(* A step leaves a job as it was if it changes nothing of it.              *)
LEMMA OtherJob ==
  ASSUME CronInv, NEW k \in Jobs, now \in 0..Horizon, now' \in 0..Horizon, now <= now',
         table'[k] = table[k], runs'[k] = runs[k], batch'[k] = batch[k], served'[k] = served[k],
         k \in settled' => k \in settled, k \in used => k \in used'
  PROVE  Working(k)' /\ Stored(k)'
<1>1. Working(k) /\ Stored(k) /\ served[k] \in Nat
  BY CronAssumption DEF CronInv, TypeOK, CronAssumption
<1>2. Stored(k)'
  BY <1>1 DEF Stored, Exists
<1>3. batch[k].phase # "none" => batch[k].row.next \in (served[k] + 1)..now'
  BY <1>1, CronAssumption DEF Working, Rows, CronAssumption
<1>4. Working(k)'
  BY <1>1, <1>3 DEF Working
<1> QED BY <1>2, <1>4

(* Every instant, row and copy is in its range.                            *)
LEMMA Ranges ==
  ASSUME CronInv
  PROVE  /\ Horizon \in Nat \ {0} /\ Retries \in Nat /\ MaxRunHistory \in Nat \ {0}
         /\ None \notin Jobs /\ None \notin Rows
         /\ now \in 0..Horizon
         /\ \A j \in Jobs :
              /\ table[j] \in Rows \cup {None} /\ (Exists(j) => table[j] \in Rows)
              /\ batch[j] \in Stages
              /\ served[j] \in 0..(2 * Horizon)
BY CronAssumption DEF CronInv, TypeOK, CronAssumption, Exists, Stages

-----------------------------------------------------------------------------
(* The steps that change only what the scheduler does with one job.        *)

LEMMA BatchStep ==
  ASSUME CronInv, NEW j \in Jobs, NEW b \in Stages,
         batch' = [batch EXCEPT ![j] = b], UNCHANGED <<now, store, client, ghosts>>,
         b.phase = "none" => b.row = None,
         b.phase # "none" => /\ j \in used /\ b.row \in Rows
                             /\ b.row.next \in (served[j] + 1)..now,
         b.phase = "disabling" => b.fetched \in Rows /\ b.fetched.next > served[j]
  PROVE  CronInv'
<1> USE DEF store, ghosts
<1>1. batch \in [Jobs -> Stages]
  BY DEF CronInv, TypeOK, Stages
<1>2. batch' \in [Jobs -> Stages] /\ batch'[j] = b /\ \A k \in Jobs \ {j} : batch'[k] = batch[k]
  BY <1>1
<1>3. TypeOK'
  BY <1>2 DEF CronInv, TypeOK, Stages
<1>4. Working(j)' /\ Stored(j)'
  BY <1>2 DEF CronInv, Working, Stored, Exists
<1>5. ASSUME NEW k \in Jobs \ {j}
      PROVE  Working(k)' /\ Stored(k)'
  BY <1>2, OtherJob, Ranges
<1>6. \A c \in Clients : Busy(c)'
  BY DEF CronInv, Busy
<1> QED BY <1>3, <1>4, <1>5, <1>6 DEF CronInv

LEMMA StartJobStep ==
  ASSUME CronInv, NEW j \in Jobs, StartJob(j)
  PROVE  CronInv'
<1> DEFINE b == [batch[j] EXCEPT !.phase = "executing", !.began = now]
<1>1. batch[j] \in Stages /\ now \in 0..Horizon /\ batch[j].phase = "queued" /\ Working(j)
  BY Ranges DEF StartJob, CronInv
<1>2. b \in Stages /\ b.phase = "executing" /\ b.row = batch[j].row
  BY <1>1 DEF Stages, Phases
<1>3. batch' = [batch EXCEPT ![j] = b]
  BY DEF StartJob, CronInv, TypeOK
<1> HIDE DEF b
<1> QED BY <1>1, <1>2, <1>3, BatchStep DEF StartJob, Working

LEMMA AttemptStep ==
  ASSUME CronInv, NEW j \in Jobs, Attempt(j)
  PROVE  CronInv'
<1>1. batch[j] \in Stages /\ batch[j].phase = "executing" /\ Working(j) /\ Retries \in Nat
  BY Ranges DEF Attempt, CronInv
<1>2. PICK b \in Stages : /\ batch' = [batch EXCEPT ![j] = b]
                          /\ b.phase \in {"executing", "recording"} /\ b.row = batch[j].row
  <2>1. CASE batch[j].tries < Retries /\ batch' = [batch EXCEPT ![j].tries = @ + 1]
    <3> DEFINE b == [batch[j] EXCEPT !.tries = @ + 1]
    <3>1. b \in Stages /\ b.phase = "executing" /\ b.row = batch[j].row
      BY <1>1, <2>1 DEF Stages
    <3>2. batch' = [batch EXCEPT ![j] = b]
      BY <2>1
    <3> HIDE DEF b
    <3> QED BY <3>1, <3>2
  <2>2. ASSUME NEW ok \in BOOLEAN,
               batch' = [batch EXCEPT ![j].phase = "recording", ![j].ok = ok, ![j].tries = 0]
        PROVE  \E b \in Stages : /\ batch' = [batch EXCEPT ![j] = b]
                                 /\ b.phase \in {"executing", "recording"} /\ b.row = batch[j].row
    <3> DEFINE b == [batch[j] EXCEPT !.phase = "recording", !.ok = ok, !.tries = 0]
    <3>1. b \in Stages /\ b.phase = "recording" /\ b.row = batch[j].row
      <4>1. "recording" \in Phases /\ 0 \in 0..Retries
        BY <1>1 DEF Phases
      <4>2. batch[j] \in Stages
        BY <1>1
      <4> QED BY <4>1, <4>2 DEF Stages
    <3>2. batch' = [batch EXCEPT ![j] = b]
      BY <2>2 DEF CronInv, TypeOK
    <3> HIDE DEF b
    <3> QED BY <3>1, <3>2
  <2> QED BY <2>1, <2>2 DEF Attempt
<1> QED BY <1>1, <1>2, BatchStep DEF Attempt, Working

LEMMA ReadOneShotStep ==
  ASSUME CronInv, NEW j \in Jobs, ReadOneShot(j)
  PROVE  CronInv'
<1>1. batch[j] \in Stages /\ batch[j].phase = "reading" /\ Working(j) /\ Stored(j)
  BY Ranges DEF ReadOneShot, Leave, CronInv
<1>2. CASE Exists(j)
  <2> DEFINE b == [batch[j] EXCEPT !.phase = "disabling", !.fetched = table[j]]
  <2>1. table[j] \in Rows /\ table[j].next > served[j]
    BY <1>1, <1>2, Ranges DEF Stored
  <2>2. b \in Stages /\ b.phase = "disabling" /\ b.row = batch[j].row /\ b.fetched = table[j]
    BY <1>1, <2>1 DEF Stages, Phases
  <2>3. batch' = [batch EXCEPT ![j] = b]
    BY <1>2 DEF ReadOneShot, CronInv, TypeOK
  <2> HIDE DEF b
  <2> QED BY <1>1, <2>1, <2>2, <2>3, BatchStep DEF ReadOneShot, Working
<1>3. CASE ~Exists(j)
  <2>1. Rest \in Stages /\ Rest.phase = "none" /\ Rest.row = None
    BY Ranges DEF Rest, Stages, Phases
  <2>2. batch' = [batch EXCEPT ![j] = Rest]
    BY <1>3 DEF ReadOneShot, Leave
  <2> QED BY <2>1, <2>2, BatchStep DEF ReadOneShot
<1> QED BY <1>2, <1>3

LEMMA CrashStep ==
  ASSUME CronInv, Crash
  PROVE  CronInv'
<1> USE DEF Crash, store, ghosts
<1>1. Rest \in Stages /\ Rest.phase = "none" /\ Rest.row = None
  BY Ranges DEF Rest, Stages, Phases
<1>2. batch' \in [Jobs -> Stages] /\ \A k \in Jobs : batch'[k] = Rest
  BY <1>1
<1>3. TypeOK'
  BY <1>2 DEF CronInv, TypeOK, Stages
<1>4. \A k \in Jobs : Working(k)' /\ Stored(k)'
  BY <1>1, <1>2 DEF CronInv, Working, Stored, Exists
<1>5. \A c \in Clients : Busy(c)'
  BY DEF CronInv, Busy
<1> QED BY <1>3, <1>4, <1>5 DEF CronInv

LEMMA PollStep ==
  ASSUME CronInv, Poll
  PROVE  CronInv'
<1> USE DEF store, ghosts
<1>1. PICK picked \in SUBSET Due :
        batch' = [j \in Jobs |-> IF j \in picked THEN [Rest EXCEPT !.phase = "queued", !.row = table[j]]
                                ELSE Rest]
  BY DEF Poll
<1>2. UNCHANGED <<now, store, client, ghosts>>
  BY DEF Poll
<1>3. Rest \in Stages /\ Rest.phase = "none" /\ Rest.row = None
  BY Ranges DEF Rest, Stages, Phases
<1>4. ASSUME NEW j \in Jobs
      PROVE  batch'[j] \in Stages /\ Working(j)' /\ Stored(j)'
  <2>1. Stored(j) /\ Stored(j)'
    BY <1>2 DEF CronInv, Stored, Exists
  <2>2. CASE j \in picked
    <3>1. batch'[j] = [Rest EXCEPT !.phase = "queued", !.row = table[j]]
      BY <1>1, <2>2
    <3>2. table[j] \in Rows /\ j \in used /\ table[j].next > served[j] /\ table[j].next <= now
      BY <2>1, <2>2, Ranges DEF Due, Stored
    <3>3. table[j].next \in Nat /\ now \in Nat /\ served[j] \in Nat
      BY <3>2, Ranges DEF Rows
    <3>4. table[j].next \in (served[j] + 1)..now
      BY <3>2, <3>3
    <3>5. batch'[j] \in Stages /\ batch'[j].phase = "queued" /\ batch'[j].row = table[j]
      BY <1>3, <3>1, <3>2 DEF Stages, Phases
    <3> QED BY <1>2, <2>1, <3>2, <3>4, <3>5 DEF Working
  <2>3. CASE j \notin picked
    <3>1. batch'[j] = Rest
      BY <1>1, <2>3
    <3> QED BY <1>3, <2>1, <3>1 DEF Working
  <2> QED BY <2>2, <2>3
<1>5. batch' \in [Jobs -> Stages]
  BY <1>1, <1>4
<1>6. TypeOK'
  BY <1>2, <1>5 DEF CronInv, TypeOK, Stages
<1>7. \A c \in Clients : Busy(c)'
  BY <1>2 DEF CronInv, Busy
<1> QED BY <1>4, <1>6, <1>7 DEF CronInv

LEMMA TickStep ==
  ASSUME CronInv, Tick
  PROVE  CronInv'
<1> USE DEF store, ghosts
<1>1. now \in 0..Horizon /\ now' \in 0..Horizon /\ now <= now' /\ UNCHANGED <<store, batch, client, ghosts>>
  BY Ranges DEF Tick
<1>2. TypeOK'
  BY <1>1 DEF CronInv, TypeOK
<1>3. \A k \in Jobs : Working(k)' /\ Stored(k)'
  BY <1>1, OtherJob
<1>4. \A c \in Clients : Busy(c)'
  BY <1>1 DEF CronInv, Busy
<1> QED BY <1>2, <1>3, <1>4 DEF CronInv

-----------------------------------------------------------------------------
(* The steps that write the table or the history of one job.               *)

LEMMA StoreStep ==
  ASSUME CronInv, NEW j \in Jobs, now' = now,
         NEW r \in Rows \cup {None}, table' = [table EXCEPT ![j] = r],
         NEW history \in Seq(0..Horizon), Len(history) <= MaxRunHistory,
         runs' = [runs EXCEPT ![j] = history],
         NEW b \in Stages, batch' = [batch EXCEPT ![j] = b],
         NEW due \in 0..(2 * Horizon), served' = [served EXCEPT ![j] = due],
         used \subseteq used', used' \subseteq Jobs,
         settled' \subseteq settled \cup {j},
         client' \in [Clients -> Errands],
         \A c \in Clients : Busy(c)',
         b.phase = "none" => b.row = None,
         b.phase # "none" => /\ j \in used' /\ b.row \in Rows /\ b.row.next \in (due + 1)..now,
         b.phase = "disabling" => b.fetched \in Rows /\ b.fetched.next > due,
         r # None => j \in used' /\ r.next > due,
         r = None => history = <<>>,
         j \in settled' => j \in used' /\ (r = None \/ ~r.enabled),
         j \notin used' => due = 0
  PROVE  CronInv'
<1>1. batch \in [Jobs -> Stages]
  BY DEF CronInv, TypeOK, Stages
<1>2. /\ table'[j] = r /\ runs'[j] = history /\ batch'[j] = b /\ served'[j] = due
      /\ \A k \in Jobs \ {j} : /\ table'[k] = table[k] /\ runs'[k] = runs[k]
                               /\ batch'[k] = batch[k] /\ served'[k] = served[k]
  BY <1>1 DEF CronInv, TypeOK
<1>3. TypeOK'
  <2>1. table' \in [Jobs -> Rows \cup {None}] /\ served' \in [Jobs -> 0..(2 * Horizon)]
    BY DEF CronInv, TypeOK
  <2>2. runs' \in [Jobs -> Seq(0..Horizon)]
    BY DEF CronInv, TypeOK
  <2>3. \A k \in Jobs : Len(runs'[k]) <= MaxRunHistory
    BY <1>2 DEF CronInv, TypeOK
  <2>4. batch' \in [Jobs -> Stages]
    BY <1>1
  <2>5. now' \in 0..Horizon /\ settled' \subseteq Jobs
    BY DEF CronInv, TypeOK
  <2> QED BY <2>1, <2>2, <2>3, <2>4, <2>5 DEF TypeOK, Stages, Errands
<1>4. Working(j)' /\ Stored(j)'
  <2>1. Working(j)'
    BY <1>2 DEF Working
  <2>2. Stored(j)'
    BY <1>2 DEF Stored, Exists
  <2> QED BY <2>1, <2>2
<1>5. ASSUME NEW k \in Jobs \ {j}
      PROVE  Working(k)' /\ Stored(k)'
  <2>1. now \in 0..Horizon /\ now' \in 0..Horizon /\ now <= now'
    BY Ranges
  <2> QED BY <1>2, <2>1, OtherJob
<1> QED BY <1>3, <1>4, <1>5 DEF CronInv

(* A function is itself with its own value put in.                         *)
LEMMA Same ==
  ASSUME NEW S, NEW T, NEW f \in [S -> T], NEW x \in S
  PROVE  f = [f EXCEPT ![x] = f[x]]
OBVIOUS

LEMMA Unwritten ==
  ASSUME CronInv, NEW j \in Jobs
  PROVE  /\ table = [table EXCEPT ![j] = table[j]]
         /\ runs = [runs EXCEPT ![j] = runs[j]]
         /\ batch = [batch EXCEPT ![j] = batch[j]]
         /\ served = [served EXCEPT ![j] = served[j]]
         /\ runs[j] \in Seq(0..Horizon) /\ Len(runs[j]) <= MaxRunHistory
         /\ used \subseteq Jobs /\ settled \subseteq Jobs
         /\ client \in [Clients -> Errands]
BY Same DEF CronInv, TypeOK, Errands

LEMMA Recorded ==
  ASSUME CronInv, NEW j \in Jobs, NEW start \in 0..Horizon, RecordRun(j, start)
  PROVE  /\ runs' = [runs EXCEPT ![j] = runs'[j]]
         /\ runs'[j] \in Seq(0..Horizon) /\ Len(runs'[j]) <= MaxRunHistory
         /\ table[j] = None => runs'[j] = <<>>
<1>1. /\ runs' \in [Jobs -> Seq(0..Horizon)] /\ Len(runs'[j]) <= MaxRunHistory
      /\ \A k \in Jobs : k # j \/ ~Exists(k) => runs'[k] = runs[k]
  BY RecordRunType DEF CronInv
<1>2. runs \in [Jobs -> Seq(0..Horizon)] /\ Stored(j)
  BY DEF CronInv, TypeOK
<1> QED BY <1>1, <1>2 DEF Stored, Exists

LEMMA RecordJobRunStep ==
  ASSUME CronInv, NEW j \in Jobs, RecordJobRun(j)
  PROVE  CronInv'
<1> USE DEF store, ghosts
<1> DEFINE q == IF ~OneShotAutoDelete(batch[j].row) THEN "rescheduling"
                ELSE IF batch[j].ok THEN "removing" ELSE "reading"
           b == [batch[j] EXCEPT !.phase = q]
<1>1. batch[j] \in Stages /\ batch[j].phase = "recording" /\ Working(j) /\ Stored(j)
  BY Ranges DEF RecordJobRun, Step, CronInv
<1>2. q \in {"rescheduling", "removing", "reading"}
  OBVIOUS
<1>3. batch' = [batch EXCEPT ![j] = b]
  BY DEF RecordJobRun, Step
<1> HIDE DEF q
<1>4. b \in Stages /\ b.phase = q /\ b.row = batch[j].row
  BY <1>1, <1>2 DEF Stages, Phases
<1> HIDE DEF b
<1>5. batch[j].began \in 0..Horizon
  BY <1>1 DEF Stages
<1>6. /\ runs' = [runs EXCEPT ![j] = runs'[j]]
      /\ runs'[j] \in Seq(0..Horizon) /\ Len(runs'[j]) <= MaxRunHistory
      /\ table[j] = None => runs'[j] = <<>>
  BY <1>5, Recorded DEF RecordJobRun
<1>7. UNCHANGED <<now, table, used, client, ghosts>>
  BY DEF RecordJobRun
<1>8. \A c \in Clients : Busy(c)'
  BY <1>7 DEF CronInv, Busy
<1>9. /\ table[j] \in Rows \cup {None} /\ served[j] \in 0..(2 * Horizon)
  BY Ranges
<1>10. /\ b.phase # "none" /\ b.phase # "disabling"
       /\ j \in used /\ b.row \in Rows /\ b.row.next \in (served[j] + 1)..now
  BY <1>1, <1>2, <1>4 DEF Working
<1>11. /\ table[j] # None => j \in used /\ table[j].next > served[j]
       /\ j \in settled => j \in used /\ (table[j] = None \/ ~table[j].enabled)
  BY <1>1 DEF Stored, Exists
<1>12. table' = [table EXCEPT ![j] = table[j]] /\ served' = [served EXCEPT ![j] = served[j]]
  BY <1>7, Unwritten
<1>13. /\ now' = now /\ used \subseteq used' /\ used' \subseteq Jobs /\ settled' \subseteq settled \cup {j}
       /\ j \in used' <=> j \in used
       /\ j \in settled' <=> j \in settled
       /\ client' \in [Clients -> Errands]
  BY <1>7, Unwritten
<1>14. UNCHANGED used
  BY <1>7
<1> HIDE DEF store, ghosts
<1> DEFINE r == table[j]
           history == runs'[j]
           due == served[j]
<1>15. /\ r \in Rows \cup {None} /\ table' = [table EXCEPT ![j] = r]
       /\ history \in Seq(0..Horizon) /\ Len(history) <= MaxRunHistory
       /\ runs' = [runs EXCEPT ![j] = history] /\ (r = None => history = <<>>)
       /\ due \in 0..(2 * Horizon) /\ served' = [served EXCEPT ![j] = due]
       /\ b.phase # "none" /\ b.phase # "disabling"
       /\ j \in used' /\ b.row \in Rows /\ b.row.next \in (due + 1)..now
       /\ r # None => r.next > due
       /\ j \in settled' => r = None \/ ~r.enabled
       /\ j \notin used' => due = 0
  BY <1>6, <1>9, <1>10, <1>11, <1>12, <1>13, <1>14
<1> HIDE DEF r, history, due
<1> QED BY <1>3, <1>4, <1>8, <1>13, <1>15, StoreStep

LEMMA ScheduledStep ==
  ASSUME CronInv, NEW j \in Jobs, UNCHANGED <<now, used, client>>,
         batch' = [batch EXCEPT ![j] = Rest],
         NEW r \in Rows \cup {None}, table' = [table EXCEPT ![j] = r],
         runs' = [runs EXCEPT ![j] = IF r = None THEN <<>> ELSE runs[j]],
         NEW due \in 0..(2 * Horizon), served' = [served EXCEPT ![j] = due],
         settled' \subseteq settled \cup {j}, j \in used,
         r # None => r.next > due,
         j \in settled' => r = None \/ ~r.enabled
  PROVE  CronInv'
<1>1. Rest \in Stages /\ Rest.phase = "none" /\ Rest.row = None
  BY Ranges DEF Rest, Stages, Phases
<1> DEFINE history == IF r = None THEN <<>> ELSE runs[j]
<1>2. history \in Seq(0..Horizon) /\ Len(history) <= MaxRunHistory /\ (r = None => history = <<>>)
  <2>1. runs[j] \in Seq(0..Horizon) /\ Len(runs[j]) <= MaxRunHistory /\ MaxRunHistory \in Nat
    BY Unwritten, Ranges
  <2>2. <<>> \in Seq(0..Horizon) /\ Len(<<>>) = 0
    OBVIOUS
  <2>3. CASE r = None
    BY <2>1, <2>2, <2>3
  <2>4. CASE r # None
    BY <2>1, <2>4
  <2> QED BY <2>3, <2>4
<1>3. \A c \in Clients : Busy(c)'
  BY DEF CronInv, Busy
<1>4. runs' = [runs EXCEPT ![j] = history]
  OBVIOUS
<1> HIDE DEF history
<1>5. /\ now' = now /\ used \subseteq used' /\ used' \subseteq Jobs
      /\ j \in used' <=> j \in used
      /\ client' \in [Clients -> Errands]
  BY Unwritten
<1> QED BY <1>1, <1>2, <1>3, <1>4, <1>5, StoreStep

LEMMA RemoveOneShotStep ==
  ASSUME CronInv, NEW j \in Jobs, RemoveOneShot(j)
  PROVE  CronInv'
<1>1. /\ batch[j].phase = "removing" /\ batch' = [batch EXCEPT ![j] = Rest]
      /\ table' = [table EXCEPT ![j] = None] /\ runs' = [runs EXCEPT ![j] = <<>>]
      /\ settled' = settled \cup {j}
      /\ UNCHANGED <<now, used, client, served>>
  BY DEF RemoveOneShot, Leave, DeleteRow, SetRow
<1>2. Working(j) /\ served[j] \in 0..(2 * Horizon) /\ served = [served EXCEPT ![j] = served[j]]
  BY Ranges, Unwritten DEF CronInv
<1>3. j \in used
  BY <1>1, <1>2 DEF Working
<1> QED BY <1>1, <1>2, <1>3, ScheduledStep

LEMMA DisableOneShotStep ==
  ASSUME CronInv, NEW j \in Jobs, DisableOneShot(j)
  PROVE  CronInv'
<1> DEFINE off == [batch[j].fetched EXCEPT !.enabled = FALSE]
           r == IF Exists(j) THEN off ELSE None
<1>1. /\ batch[j].phase = "disabling" /\ batch' = [batch EXCEPT ![j] = Rest]
      /\ UpdateRow(j, off)
      /\ settled' = settled \cup {j}
      /\ UNCHANGED <<now, runs, used, client, served>>
  BY DEF DisableOneShot, Leave
<1>2. Working(j) /\ Stored(j) /\ served[j] \in 0..(2 * Horizon)
  BY Ranges DEF CronInv
<1>3. j \in used /\ batch[j].fetched \in Rows /\ batch[j].fetched.next > served[j]
  BY <1>1, <1>2 DEF Working
<1>4. off \in Rows /\ off.next > served[j] /\ ~off.enabled
  BY <1>3 DEF Rows
<1> HIDE DEF off
<1>5. table' = [table EXCEPT ![j] = r]
  BY <1>1, Unwritten DEF UpdateRow, SetRow, Exists
<1>6. r \in Rows \cup {None} /\ (r # None => r = off) /\ (r = None => ~Exists(j))
  BY <1>4, Ranges
<1>7. runs' = [runs EXCEPT ![j] = IF r = None THEN <<>> ELSE runs[j]]
  BY <1>1, <1>2, <1>6, Unwritten DEF Stored
<1> HIDE DEF r
<1>8. served' = [served EXCEPT ![j] = served[j]]
  BY <1>1, Unwritten
<1>9. r # None => j \in used /\ r.next > served[j] /\ ~r.enabled
  BY <1>3, <1>4, <1>6
<1>10. settled' \subseteq settled \cup {j} /\ UNCHANGED <<now, used, client>>
       /\ batch' = [batch EXCEPT ![j] = Rest]
  BY <1>1
<1> QED BY <1>2, <1>3, <1>5, <1>6, <1>7, <1>8, <1>9, <1>10, ScheduledStep

LEMMA RescheduleStep ==
  ASSUME CronInv, NEW j \in Jobs, RescheduleAfterRun(j)
  PROVE  CronInv'
<1> DEFINE row == batch[j].row
           next == NextRun(row.schedule, now)
           r == IF next = Never \/ ~Exists(j) THEN table[j] ELSE [table[j] EXCEPT !.next = next]
           due == IF RunsOut(row.schedule) THEN 0 ELSE row.next
<1>1. /\ batch[j].phase = "rescheduling" /\ batch' = [batch EXCEPT ![j] = Rest]
      /\ IF next = Never \/ ~Exists(j) THEN UNCHANGED table
         ELSE SetRow(j, [table[j] EXCEPT !.next = next])
      /\ served' = [served EXCEPT ![j] = due]
      /\ UNCHANGED <<now, runs, used, client, settled>>
  BY DEF RescheduleAfterRun, Leave
<1>2. /\ Working(j) /\ Stored(j) /\ served[j] \in 0..(2 * Horizon) /\ Horizon \in Nat
      /\ now \in 0..Horizon /\ (Exists(j) => table[j] \in Rows) /\ table[j] \in Rows \cup {None}
      /\ None \notin Rows
  BY Ranges DEF CronInv
<1>3. j \in used /\ row \in Rows /\ row.next \in (served[j] + 1)..now
  BY <1>1, <1>2 DEF Working
<1>4. /\ next \in 0..(2 * Horizon)
      /\ ~RunsOut(row.schedule) => next # Never /\ next > now
  <2>1. row.schedule \in Schedules
    BY <1>3 DEF Rows
  <2>2. CASE row.schedule.kind = "at"
    <3>1. next = row.schedule.at /\ row.schedule.at \in 1..Horizon
      BY <2>1, <2>2, CronAssumption DEF NextRun, CronAssumption, Schedule
    <3> QED BY <1>2, <2>2, <3>1 DEF RunsOut, Never
  <2>3. CASE row.schedule.kind # "at"
    BY <1>2, <2>1, <2>3, NextRunType DEF RunsOut
  <2> QED BY <2>2, <2>3
<1>5. row.next \in 0..(2 * Horizon) /\ row.next \in Nat /\ row.next <= now
  BY <1>2, <1>3 DEF Rows
<1> HIDE DEF row, next
<1>6. due \in 0..(2 * Horizon) /\ (next = Never => due = 0) /\ (next # Never => due < next)
  BY <1>2, <1>4, <1>5 DEF Never
<1>7. /\ r \in Rows \cup {None}
      /\ r # None => Exists(j) /\ r.next > due /\ r.enabled = table[j].enabled
      /\ r = None => ~Exists(j)
  <2>1. CASE next = Never \/ ~Exists(j)
    BY <1>2, <1>6, <2>1 DEF Exists, Rows
  <2>2. CASE next # Never /\ Exists(j)
    <3>1. r = [table[j] EXCEPT !.next = next] /\ next \in 1..(2 * Horizon) /\ table[j] \in Rows
      BY <1>2, <1>4, <2>2 DEF Never
    <3>2. r \in Rows /\ r.next = next /\ r.enabled = table[j].enabled
      BY <3>1 DEF Rows
    <3> QED BY <1>2, <1>6, <2>2, <3>2
  <2> QED BY <2>1, <2>2
<1>8. table' = [table EXCEPT ![j] = r]
  BY <1>1, Unwritten DEF SetRow
<1>9. runs' = [runs EXCEPT ![j] = IF r = None THEN <<>> ELSE runs[j]]
  BY <1>1, <1>2, <1>7, Unwritten DEF Stored
<1>10. /\ j \in used
       /\ r # None => r.next > due
       /\ j \in settled' => r = None \/ ~r.enabled
  BY <1>1, <1>2, <1>3, <1>7 DEF Stored
<1> HIDE DEF due, r
<1>11. /\ settled' \subseteq settled \cup {j} /\ UNCHANGED <<now, used, client>>
       /\ batch' = [batch EXCEPT ![j] = Rest] /\ served' = [served EXCEPT ![j] = due]
  BY <1>1
<1> QED BY <1>6, <1>7, <1>8, <1>9, <1>10, <1>11, ScheduledStep

-----------------------------------------------------------------------------
(* Clients.  Their steps leave the batch as it is.                         *)

LEMMA ClientStoreStep ==
  ASSUME CronInv, NEW j \in Jobs, UNCHANGED <<now, batch>>,
         NEW r \in Rows \cup {None}, table' = [table EXCEPT ![j] = r],
         NEW history \in Seq(0..Horizon), Len(history) <= MaxRunHistory,
         runs' = [runs EXCEPT ![j] = history],
         NEW due \in 0..(2 * Horizon), served' = [served EXCEPT ![j] = due], due <= served[j],
         used \subseteq used', used' \subseteq Jobs,
         settled' \subseteq settled,
         client' \in [Clients -> Errands],
         \A c \in Clients : Busy(c)',
         r # None => j \in used' /\ r.next > due,
         r = None => history = <<>>,
         j \in settled' => r = None \/ ~r.enabled
  PROVE  CronInv'
<1> DEFINE b == batch[j]
<1>1. Working(j) /\ Stored(j) /\ served[j] \in 0..(2 * Horizon) /\ b \in Stages /\ Horizon \in Nat
      /\ now \in 0..Horizon
  BY Ranges DEF CronInv
<1>2. batch' = [batch EXCEPT ![j] = b]
  BY Unwritten
<1>3. /\ b.phase = "none" => b.row = None
      /\ b.phase # "none" => /\ j \in used' /\ b.row \in Rows /\ b.row.next \in (due + 1)..now
      /\ b.phase = "disabling" => b.fetched \in Rows /\ b.fetched.next > due
  <2>1. b.phase # "none" => /\ j \in used' /\ b.row \in Rows /\ b.row.next \in (due + 1)..now
    BY <1>1 DEF Working, Rows
  <2>2. b.phase = "disabling" => b.fetched \in Rows /\ b.fetched.next > due
    BY <1>1 DEF Working, Rows
  <2> QED BY <1>1, <2>1, <2>2 DEF Working
<1>4. j \in settled' => j \in used' /\ (r = None \/ ~r.enabled)
  BY <1>1 DEF Stored
<1> HIDE DEF b
<1>5. now' = now /\ settled' \subseteq settled \cup {j} /\ (j \notin used' => due = 0)
  BY <1>1 DEF Stored
<1> QED BY <1>1, <1>2, <1>3, <1>4, <1>5, StoreStep


LEMMA AddJobStep ==
  ASSUME CronInv, NEW j \in Jobs, NEW s \in Schedules, NEW once \in BOOLEAN, AddJob(j, s, once)
  PROVE  CronInv'
<1> DEFINE r == [schedule |-> s, enabled |-> TRUE, once |-> once, next |-> NextRun(s, now)]
<1>1. /\ j \notin used /\ Valid(s, now) /\ used' = used \cup {j}
      /\ table' = [table EXCEPT ![j] = r]
      /\ UNCHANGED <<now, runs, batch, client, served, settled>>
  BY DEF AddJob, SetRow, ghosts
<1>2. Stored(j) /\ now \in 0..Horizon
  BY Ranges DEF CronInv
<1>3. NextRun(s, now) \in 1..(2 * Horizon)
  BY <1>1, <1>2, NextRunType, Ranges DEF Never
<1>4. r \in Rows /\ r # None /\ r.next > 0 /\ 0 \in 0..(2 * Horizon)
  <2>1. Horizon \in Nat /\ None \notin Rows
    BY Ranges
  <2>2. r \in Rows /\ r.next = NextRun(s, now)
    BY <1>3 DEF Rows
  <2> HIDE DEF r
  <2> QED BY <1>3, <2>1, <2>2
<1>5. j \notin settled /\ served[j] = 0
  BY <1>1, <1>2 DEF Stored
<1>6. served' = [served EXCEPT ![j] = 0] /\ runs' = [runs EXCEPT ![j] = runs[j]]
  BY <1>1, <1>5, Unwritten
<1>7. \A c \in Clients : Busy(c)'
  BY <1>1 DEF CronInv, Busy
<1>8. /\ used \subseteq used' /\ used' \subseteq Jobs /\ j \in used' /\ settled' \subseteq settled
      /\ 0 <= served[j] /\ j \notin settled' /\ UNCHANGED <<now, batch>>
      /\ runs[j] \in Seq(0..Horizon) /\ Len(runs[j]) <= MaxRunHistory
      /\ client' \in [Clients -> Errands]
  BY <1>1, <1>5, Unwritten
<1> HIDE DEF r
<1> QED BY <1>1, <1>4, <1>6, <1>7, <1>8, ClientStoreStep

LEMMA RemoveJobStep ==
  ASSUME CronInv, NEW j \in Jobs, RemoveJob(j)
  PROVE  CronInv'
<1>1. /\ table' = [table EXCEPT ![j] = None] /\ runs' = [runs EXCEPT ![j] = <<>>]
      /\ UNCHANGED <<now, used, batch, client, served, settled>>
  BY DEF RemoveJob, DeleteRow, SetRow, ghosts
<1>2. \A c \in Clients : Busy(c)'
  BY <1>1 DEF CronInv, Busy
<1>3. served[j] \in 0..(2 * Horizon) /\ served[j] <= served[j]
  BY Ranges
<1>4. <<>> \in Seq(0..Horizon) /\ Len(<<>>) <= MaxRunHistory
  <2>1. <<>> \in Seq(0..Horizon) /\ Len(<<>>) = 0
    OBVIOUS
  <2>2. MaxRunHistory \in Nat
    BY Ranges
  <2> QED BY <2>1, <2>2
<1>5. /\ used \subseteq used' /\ used' \subseteq Jobs /\ settled' \subseteq settled
      /\ served' = [served EXCEPT ![j] = served[j]]
      /\ client' \in [Clients -> Errands]
  BY <1>1, Unwritten
<1> QED BY <1>1, <1>2, <1>3, <1>4, <1>5, ClientStoreStep

LEMMA ErrandStep ==
  ASSUME CronInv, NEW c \in Clients, NEW x \in Errands, client' = [client EXCEPT ![c] = x],
         UNCHANGED <<now, batch>>,
         x.pc # "idle" => x.job \in Jobs, x.pc = "updating" => x.row \in Rows
  PROVE  client' \in [Clients -> Errands] /\ \A d \in Clients : Busy(d)'
<1>1. client \in [Clients -> Errands] /\ \A d \in Clients : Busy(d)
  BY Unwritten DEF CronInv, TypeOK, Errands
<1>2. client' \in [Clients -> Errands] /\ client'[c] = x /\ \A d \in Clients \ {c} : client'[d] = client[d]
  BY <1>1
<1> QED BY <1>1, <1>2 DEF Busy

LEMMA ErrandOnlyStep ==
  ASSUME CronInv, NEW c \in Clients, NEW x \in Errands, client' = [client EXCEPT ![c] = x],
         UNCHANGED <<now, store, batch, ghosts>>,
         x.pc # "idle" => x.job \in Jobs, x.pc = "updating" => x.row \in Rows
  PROVE  CronInv'
<1> USE DEF store, ghosts
<1>1. client' \in [Clients -> Errands] /\ \A d \in Clients : Busy(d)'
  BY ErrandStep
<1>2. TypeOK'
  BY <1>1 DEF CronInv, TypeOK, Errands
<1>3. \A k \in Jobs : Working(k)' /\ Stored(k)'
  BY DEF CronInv, Working, Stored, Exists
<1> QED BY <1>1, <1>2, <1>3 DEF CronInv

LEMMA BeginStep ==
  ASSUME CronInv, NEW c \in Clients, NEW j \in Jobs, BeginUpdate(c, j) \/ BeginRunNow(c, j)
  PROVE  CronInv'
<1>1. now \in 0..Horizon /\ table[j] \in Rows
  BY Ranges DEF BeginUpdate, BeginRunNow
<1>2. PICK pc \in {"updating", "running"} :
        client' = [client EXCEPT ![c] = [pc |-> pc, job |-> j, row |-> table[j], began |-> now]]
  BY DEF BeginUpdate, BeginRunNow
<1> DEFINE x == [pc |-> pc, job |-> j, row |-> table[j], began |-> now]
<1>3. x \in Errands /\ x.job \in Jobs /\ x.row \in Rows
  BY <1>1 DEF Errands
<1>4. UNCHANGED <<now, store, batch, ghosts>>
  BY DEF BeginUpdate, BeginRunNow
<1> HIDE DEF x
<1> QED BY <1>2, <1>3, <1>4, ErrandOnlyStep DEF x

LEMMA IdleErrand ==
  Idle \in Errands /\ Idle.pc = "idle"
BY CronAssumption DEF Idle, Errands, CronAssumption

LEMMA RefuseUpdateStep ==
  ASSUME CronInv, NEW c \in Clients, RefuseUpdate(c)
  PROVE  CronInv'
BY IdleErrand, ErrandOnlyStep DEF RefuseUpdate

LEMMA RecordRunNowStep ==
  ASSUME CronInv, NEW c \in Clients, RecordRunNow(c)
  PROVE  CronInv'
<1> DEFINE j == client[c].job
<1>1. client \in [Clients -> Errands] /\ Busy(c) /\ client[c].pc = "running"
  BY DEF CronInv, TypeOK, Errands, RecordRunNow
<1>2. j \in Jobs /\ client[c].began \in 0..Horizon
  BY <1>1 DEF Busy, Errands
<1>3. /\ RecordRun(j, client[c].began) /\ client' = [client EXCEPT ![c] = Idle]
      /\ UNCHANGED <<now, table, used, batch, served, settled>>
  BY DEF RecordRunNow, ghosts
<1> HIDE DEF j
<1>4. /\ runs' = [runs EXCEPT ![j] = runs'[j]]
      /\ runs'[j] \in Seq(0..Horizon) /\ Len(runs'[j]) <= MaxRunHistory
      /\ table[j] = None => runs'[j] = <<>>
  BY <1>2, <1>3, Recorded
<1>5. client' \in [Clients -> Errands] /\ \A d \in Clients : Busy(d)'
  BY <1>3, IdleErrand, ErrandStep
<1>6. Stored(j) /\ served[j] \in 0..(2 * Horizon) /\ served[j] <= served[j] /\ table[j] \in Rows \cup {None}
  BY <1>2, Ranges DEF CronInv
<1>7. /\ used \subseteq used' /\ used' \subseteq Jobs /\ settled' \subseteq settled
      /\ table' = [table EXCEPT ![j] = table[j]] /\ served' = [served EXCEPT ![j] = served[j]]
      /\ UNCHANGED <<now, batch>>
  BY <1>2, <1>3, Unwritten
<1> DEFINE r == table[j]
           history == runs'[j]
           due == served[j]
<1>8. /\ r # None => j \in used' /\ r.next > due
      /\ j \in settled' => r = None \/ ~r.enabled
  BY <1>3, <1>6 DEF Stored, Exists
<1>9. /\ r \in Rows \cup {None} /\ table' = [table EXCEPT ![j] = r]
      /\ history \in Seq(0..Horizon) /\ Len(history) <= MaxRunHistory
      /\ runs' = [runs EXCEPT ![j] = history] /\ (r = None => history = <<>>)
      /\ due \in 0..(2 * Horizon) /\ served' = [served EXCEPT ![j] = due] /\ due <= served[j]
  BY <1>4, <1>6, <1>7
<1> HIDE DEF r, history, due
<1> QED BY <1>2, <1>5, <1>7, <1>8, <1>9, ClientStoreStep

LEMMA EndUpdateStep ==
  ASSUME CronInv, NEW c \in Clients, EndUpdate(c)
  PROVE  CronInv'
<1> DEFINE j == client[c].job
<1>1. client \in [Clients -> Errands] /\ Busy(c) /\ client[c].pc = "updating" /\ now \in 0..Horizon
  BY DEF CronInv, TypeOK, Errands, EndUpdate
<1>2. j \in Jobs /\ client[c].row \in Rows
  BY <1>1 DEF Busy
<1>3. PICK row \in Patched(client[c].row) : UpdateRow(j, row)
  BY DEF EndUpdate
<1>4. /\ client' = [client EXCEPT ![c] = Idle]
      /\ served' = [served EXCEPT ![j] = 0] /\ settled' = settled \ {j}
      /\ UNCHANGED <<now, runs, used, batch>>
  BY DEF EndUpdate
<1>5. row \in Rows
  BY <1>1, <1>2, PatchedType
<1> HIDE DEF j
<1> DEFINE r == IF Exists(j) THEN row ELSE None
<1>6. Stored(j) /\ served[j] \in 0..(2 * Horizon) /\ None \notin Rows /\ Horizon \in Nat
  BY <1>2, Ranges DEF CronInv
<1>7. table' = [table EXCEPT ![j] = r]
  BY <1>2, <1>3, Unwritten DEF UpdateRow, SetRow, Exists
<1>8. client' \in [Clients -> Errands] /\ \A d \in Clients : Busy(d)'
  BY <1>4, IdleErrand, ErrandStep
<1>9. /\ r \in Rows \cup {None} /\ (r # None => j \in used' /\ r.next > 0)
      /\ r = None => runs[j] = <<>>
      /\ 0 \in 0..(2 * Horizon) /\ 0 <= served[j]
  BY <1>4, <1>5, <1>6 DEF Stored, Rows
<1> HIDE DEF r
<1>10. /\ used \subseteq used' /\ used' \subseteq Jobs /\ settled' \subseteq settled /\ j \notin settled'
       /\ runs' = [runs EXCEPT ![j] = runs[j]]
       /\ runs[j] \in Seq(0..Horizon) /\ Len(runs[j]) <= MaxRunHistory
       /\ UNCHANGED <<now, batch>> /\ served' = [served EXCEPT ![j] = 0]
  BY <1>2, <1>4, Unwritten
<1> QED BY <1>2, <1>7, <1>8, <1>9, <1>10, ClientStoreStep

-----------------------------------------------------------------------------
LEMMA InitCron == Init => CronInv
<1> SUFFICES ASSUME Init
             PROVE  CronInv
  OBVIOUS
<1> USE DEF Init
<1>1. Horizon \in Nat \ {0} /\ Retries \in Nat /\ MaxRunHistory \in Nat \ {0}
  BY CronAssumption DEF CronAssumption
<1>2. Rest \in Stages /\ Rest.phase = "none" /\ Rest.row = None
  BY <1>1 DEF Rest, Stages, Phases
<1>3. Idle \in Errands /\ Idle.pc = "idle"
  BY <1>1 DEF Idle, Errands
<1>4. runs \in [Jobs -> Seq(0..Horizon)] /\ \A j \in Jobs : runs[j] = <<>> /\ Len(runs[j]) <= MaxRunHistory
  <2>1. <<>> \in Seq(0..Horizon) /\ Len(<<>>) = 0
    OBVIOUS
  <2> QED BY <1>1, <2>1
<1>5. now \in 0..Horizon /\ served \in [Jobs -> 0..(2 * Horizon)]
  BY <1>1
<1>6. batch \in [Jobs -> Stages] /\ client \in [Clients -> Errands] /\ table \in [Jobs -> Rows \cup {None}]
  BY <1>2, <1>3
<1>7. TypeOK
  BY <1>4, <1>5, <1>6 DEF TypeOK, Stages, Errands
<1>8. \A j \in Jobs : Working(j) /\ Stored(j)
  BY <1>2, <1>4 DEF Working, Stored, Exists
<1>9. \A c \in Clients : Busy(c)
  BY <1>3 DEF Busy
<1> QED BY <1>7, <1>8, <1>9 DEF CronInv

LEMMA StutterCron ==
  ASSUME CronInv, UNCHANGED vars
  PROVE  CronInv'
<1> USE DEF vars, store, ghosts
<1>1. TypeOK'
  BY DEF CronInv, TypeOK
<1>2. \A j \in Jobs : Working(j)' /\ Stored(j)'
  BY DEF CronInv, Working, Stored, Exists
<1>3. \A c \in Clients : Busy(c)'
  BY DEF CronInv, Busy
<1> QED BY <1>1, <1>2, <1>3 DEF CronInv

LEMMA NextCron ==
  ASSUME CronInv, [Next]_vars
  PROVE  CronInv'
<1>1. CASE Tick
  BY <1>1, TickStep
<1>2. CASE Poll
  BY <1>2, PollStep
<1>3. ASSUME NEW j \in Jobs, Work(j)
      PROVE  CronInv'
  BY <1>3, StartJobStep, AttemptStep, RecordJobRunStep, RemoveOneShotStep, ReadOneShotStep,
     DisableOneShotStep, RescheduleStep DEF Work
<1>4. CASE Crash
  BY <1>4, CrashStep
<1>5. CASE ClientStep
  <2>1. ASSUME NEW j \in Jobs, NEW s \in Schedules, NEW once \in BOOLEAN, AddJob(j, s, once)
        PROVE  CronInv'
    BY <2>1, AddJobStep
  <2>2. ASSUME NEW j \in Jobs, RemoveJob(j)
        PROVE  CronInv'
    BY <2>2, RemoveJobStep
  <2>3. ASSUME NEW c \in Clients, NEW j \in Jobs, BeginUpdate(c, j) \/ BeginRunNow(c, j)
        PROVE  CronInv'
    BY <2>3, BeginStep
  <2>4. ASSUME NEW c \in Clients, EndUpdate(c) \/ RefuseUpdate(c) \/ RecordRunNow(c)
        PROVE  CronInv'
    BY <2>4, EndUpdateStep, RefuseUpdateStep, RecordRunNowStep
  <2> QED BY <1>5, <2>1, <2>2, <2>3, <2>4 DEF ClientStep
<1>6. CASE UNCHANGED vars
  BY <1>6, StutterCron
<1> QED BY <1>1, <1>2, <1>3, <1>4, <1>5, <1>6 DEF Next

(* The table, the batch and the clients' errands fit together in every     *)
(* state.                                                                  *)
THEOREM CronInvariant == Spec => []CronInv
<1>1. Init => CronInv
  BY InitCron
<1>2. CronInv /\ [Next]_vars => CronInv'
  BY NextCron
<1> QED BY <1>1, <1>2, PTL DEF Spec

(* Types, and the bound on a job's history.                                *)
THEOREM TypeCorrect == Spec => []TypeOK
<1>1. CronInv => TypeOK
  BY DEF CronInv
<1> QED BY <1>1, CronInvariant, PTL

(* Only jobs with a row have runs, although a run may be recorded while    *)
(* its job is being removed.                                               *)
THEOREM RunsBelongToJobsCorrect == Spec => []RunsBelongToJobs
<1>1. CronInv => RunsBelongToJobs
  BY DEF CronInv, Stored, RunsBelongToJobs
<1> QED BY <1>1, CronInvariant, PTL

(* A one-shot that was removed or disabled is not due again by itself.     *)
THEOREM SettledOnceCorrect == Spec => []SettledOnce
<1>1. CronInv => SettledOnce
  BY DEF CronInv, TypeOK, Stored, SettledOnce
<1> QED BY <1>1, CronInvariant, PTL

(* A due time that was served is not served again.                         *)
THEOREM ServedOnceCorrect == Spec => []ServedOnce
<1>1. CronInv => ServedOnce
  <2> SUFFICES ASSUME CronInv, NEW j \in Jobs, batch[j].row # None
               PROVE  batch[j].row.next > served[j]
    BY DEF ServedOnce
  <2>1. batch[j].row.next \in (served[j] + 1)..now /\ served[j] \in Nat /\ now \in Nat
    BY Ranges DEF CronInv, Working
  <2> QED BY <2>1
<1> QED BY <1>1, CronInvariant, PTL

(* How a step may change a row: it removes it, the scheduler writes it and *)
(* turns nothing on, it is a new job's, or a client writes an existing row.*)
LEMMA RowWrites ==
  ASSUME CronInv, Next, NEW j \in Jobs
  PROVE  \/ table'[j] \in {table[j], None}
         \/ Exists(j) /\ table'[j] # None /\ (table'[j].enabled => table[j].enabled)
         \/ ~Exists(j) /\ j \notin used
         \/ Exists(j) /\ client' # client
<1> DEFINE Goal == \/ table'[j] \in {table[j], None}
                   \/ Exists(j) /\ table'[j] # None /\ (table'[j].enabled => table[j].enabled)
                   \/ ~Exists(j) /\ j \notin used
                   \/ Exists(j) /\ client' # client
<1>1. table \in [Jobs -> Rows \cup {None}]
  BY DEF CronInv, TypeOK
<1>2. CASE UNCHANGED table
  BY <1>2
<1>3. ASSUME NEW k \in Jobs, RemoveOneShot(k) \/ RemoveJob(k)
      PROVE  Goal
  BY <1>1, <1>3 DEF RemoveOneShot, RemoveJob, DeleteRow, SetRow
<1>4. ASSUME NEW k \in Jobs, DisableOneShot(k)
      PROVE  Goal
  <2> DEFINE off == [batch[k].fetched EXCEPT !.enabled = FALSE]
  <2>1. batch[k].fetched \in Rows
    BY <1>4 DEF DisableOneShot, Leave, CronInv, Working
  <2>2. off \in Rows /\ ~off.enabled /\ off # None
    BY <2>1, Ranges DEF Rows
  <2>3. IF Exists(k) THEN table' = [table EXCEPT ![k] = off] ELSE UNCHANGED table
    BY <1>4 DEF DisableOneShot, UpdateRow, SetRow
  <2> HIDE DEF off
  <2>4. CASE Exists(k) /\ k = j
    <3>1. table'[j] = off
      BY <1>1, <2>3, <2>4
    <3> QED BY <2>2, <2>4, <3>1
  <2>5. CASE ~Exists(k) \/ k # j
    BY <1>1, <2>3, <2>5
  <2> QED BY <2>4, <2>5
<1>5. ASSUME NEW k \in Jobs, RescheduleAfterRun(k)
      PROVE  Goal
  <2> DEFINE next == NextRun(batch[k].row.schedule, now)
             r == [table[k] EXCEPT !.next = next]
  <2>1. \/ UNCHANGED table
        \/ Exists(k) /\ table' = [table EXCEPT ![k] = r]
    BY <1>5 DEF RescheduleAfterRun, SetRow
  <2>2. Exists(k) => table[k] \in Rows
    BY Ranges
  <2>3. Exists(k) => r.enabled = table[k].enabled
    BY <2>2 DEF Rows
  <2> HIDE DEF next, r
  <2>4. CASE Exists(k) /\ k = j /\ table' = [table EXCEPT ![k] = r]
    <3>1. table'[j] = r
      BY <1>1, <2>4
    <3> QED BY <2>3, <2>4, <3>1
  <2>5. CASE UNCHANGED table \/ k # j
    BY <1>1, <2>1, <2>5
  <2> QED BY <2>1, <2>4, <2>5
<1>6. ASSUME NEW k \in Jobs, NEW s \in Schedules, NEW once \in BOOLEAN, AddJob(k, s, once)
      PROVE  Goal
  <2>1. k \notin used /\ ~Exists(k)
    BY <1>6 DEF AddJob, CronInv, Stored
  <2> QED BY <1>1, <1>6, <2>1 DEF AddJob, SetRow
<1>7. ASSUME NEW c \in Clients, EndUpdate(c)
      PROVE  Goal
  <2>1. client \in [Clients -> Errands] /\ client[c].pc = "updating" /\ client' = [client EXCEPT ![c] = Idle]
    BY <1>7 DEF CronInv, TypeOK, Errands, EndUpdate
  <2>2. client' # client
    BY <2>1, IdleErrand
  <2> QED BY <1>1, <1>7, <2>2 DEF EndUpdate, UpdateRow, SetRow
<1>8. ASSUME NEW k \in Jobs, StartJob(k) \/ Attempt(k) \/ RecordJobRun(k) \/ ReadOneShot(k)
      PROVE  UNCHANGED table
  BY <1>8 DEF StartJob, Attempt, RecordJobRun, ReadOneShot, store
<1>9. ASSUME NEW c \in Clients,
             (\E k \in Jobs : BeginUpdate(c, k) \/ BeginRunNow(c, k)) \/ RefuseUpdate(c) \/ RecordRunNow(c)
      PROVE  UNCHANGED table
  BY <1>9 DEF BeginUpdate, BeginRunNow, RefuseUpdate, RecordRunNow, store
<1>10. CASE Tick \/ Poll \/ Crash
  BY <1>2, <1>10 DEF Tick, Poll, Crash, store
<1> HIDE DEF Goal
<1>11. Goal
  <2>1. UNCHANGED table => Goal
    BY <1>2 DEF Goal
  <2> QED BY <2>1, <1>3, <1>4, <1>5, <1>6, <1>7, <1>8, <1>9, <1>10 DEF Goal, Next, Work, ClientStep
<1> QED BY <1>11 DEF Goal

(* No step gives a removed job a row: not the scheduler's, and not a       *)
(* client's that read the row before.                                      *)
THEOREM RemovedStaysRemovedCorrect == Spec => RemovedStaysRemoved
<1>1. ASSUME CronInv, [Next]_vars
      PROVE  [\A j \in Jobs : ~Exists(j) /\ j \in used => table'[j] = None]_vars
  BY <1>1, RowWrites DEF Exists
<1> QED BY <1>1, CronInvariant, PTL DEF Spec, RemovedStaysRemoved

(* The scheduler never turns a paused job on, stale as its copies are.     *)
THEOREM SchedulerKeepsPauseCorrect == Spec => SchedulerKeepsPause
<1>1. ASSUME CronInv, [Next]_vars
      PROVE  [client' = client => \A j \in Jobs :
                Exists(j) /\ ~table[j].enabled /\ table'[j] # None => ~table'[j].enabled]_vars
  BY <1>1, RowWrites DEF Exists
<1> QED BY <1>1, CronInvariant, PTL DEF Spec, SchedulerKeepsPause
=============================================================================
