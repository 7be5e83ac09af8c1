# A verification development for rober

`channel-io/rober` is a small Rust wrapper (a desktop probe, a core crate, a
bridge) around a vendored agent runtime, `src/zeroclaw`, in which the program's
logic lives: it listens to chat channels, lets a language model with tools answer,
runs scheduled jobs, keeps OAuth logins and serves an HTTP gateway. This
directory holds TLA+ models of the parts where concurrency, partial failure and
ordering matter, the TLC runs that check them, and TLAPS proofs of what matters most
in each of the five main components. Paths below are relative to `src/zeroclaw/src/` unless they start with `src/`.

## 1. Inventory

| Component | State | Operations | Hard behaviour | What makes it correct |
|---|---|---|---|---|
| Channel dispatch, `channels/mod.rs` | channel of messages, semaphore, in-flight map (scope to token and completion), per-task flags, per-sender histories, drafts and reactions in the chat | receive, spawn, insert entry, cancel and await predecessor, process, remove entry, mark done | many tasks per scope; cancellation racing completion; flag and notification; panics; early returns | per scope one message at a time; the newest wins; everything is worked off; nothing says "working" for ever |
| Sender history, `channels/mod.rs` | a bounded list of turns per sender | append, normalize, compact, roll back, clear | parallel workers of one sender; cut windows | nothing is lost but what the cap and the window drop; questions are closed; the prompt ends with the question |
| Cron store and scheduler, `cron/*`, `tools/cron_run.rs` | SQLite `cron_jobs` and `cron_runs`, the batch under way | poll, execute with retries, record, reschedule / remove / disable; add, remove, update, run now | clients and scheduler work from copies of rows; crash between writes; schedules that run out | removed stays removed, paused stays paused, a one-shot is settled once, what is due is worked off |
| Agent tool loop, `agent/loop_.rs`, `approval/mod.rs` | the message list of a turn or session, the turn's signatures, the session's "always" answers | ask the model, gate each call (hooks, approval, deduplication), execute in parallel or in sequence, push results; trim, compact, clear | approvals decided before and after parallelism is; cancellation or timeout between a side effect and its record; results that arrive in any order | no tool runs unapproved or twice; the history tells what was done |
| Auth profiles, `auth/*` | one JSON file of token sets under a lock file; refresh locks and backoffs of a process | hand out or refresh a token, log in, log out, choose | several processes on one file; refresh tokens that rotate; stale lock files; dropped requests | no save undoes another; no refresh token is sent twice |
| Gateway, `gateway/*`, `security/pairing.rs`, `config/schema.rs` | sliding windows per client, idempotency keys, pairing code, paired tokens in guard, memory and `config.toml` | webhook, pair, new code, GET and PUT of the configuration | eviction at capacity; handlers dropped at a timeout while their blocking part runs on; configurations saved from copies | limit per window; one handling per key; one client per code; a saved token stays |
| Reliable provider, `providers/reliable.rs` | none between requests but a key index | try every model with every provider, with retries | which error ends what | no provider is skipped |
| SOP engine, `sop/*` | | | | not part of the build: no module declares it |
| Cost tracker, `cost/tracker.rs` | JSONL file and day/month sums | check budget, record | | not wired up: neither operation has a caller |
| Daemon, health, heartbeat | component table, restart counters | supervise, back off, tick | restart loops | a component that fails is restarted |
| Security, `security/*` | hourly action log, estop file | record, check, engage | check-then-act | the budget bounds actions |
| Memory, hooks, tools, skills, channel adapters, config, tunnel, hardware, robot kit, observability | files, databases, devices | mostly sequential I/O | | |
| Rover wrapper, `src/apps`, `src/crates` | a log and a child process | probe, start zeroclaw | | |

How they interact: channel listeners send `ChannelMessage`s through one tokio mpsc
channel to the dispatcher. A worker task per message calls hooks, a provider and
the tool loop, then answers through the channel adapter. Cron jobs of kind "agent"
enter the tool loop directly; the cron tools let the model change the job table
while the scheduler works on it; CLI commands do so from another process. The
interactive session, the gateway's channel webhooks and the heartbeat are further
entrances to the tool loop. Providers with OAuth ask the auth profiles for a token
on every request, and `zeroclaw auth` changes them from a process of its own. The
gateway shares its configuration in memory with its handlers and writes
`config.toml`, which other tools write too.

## 2. Modules

| Module | Stands for | Kind |
|---|---|---|
| `SenderHistory` | pure operators for one history | library used by the dispatcher |
| `SenderHistoryMC` | one history under every order of calls, and a reference definition | state machine for TLC |
| `SenderHistoryProofs` | theorems about the operators | TLAPS |
| `SenderHistoryMCProofs` | theorems about the reference definition and the calls | TLAPS |
| `FifoLanes` | what the in-flight map promises | abstract specification |
| `ChannelDispatch` | loop, workers, map, process_channel_message | component |
| `ChannelDispatchMC` | instances | TLC |
| `ChannelDispatchProofs` | theorems about the map, the workers and the refinement | TLAPS |
| `DispatchHistoryProofs` | theorems about the dispatcher's histories, permits and chat | TLAPS |
| `CronScheduler` | table, scheduler, clients | component |
| `CronSchedulerMC` | instances | TLC |
| `CronSchedulerProofs` | theorems | TLAPS |
| `AgentSession` | tool loop, approvals, the interactive session and a channel worker's turn | component |
| `AgentSessionMC` | an instance's tools and answers | TLC |
| `AgentSessionProofs` | theorems about the gate over calls and the history | TLAPS |
| `AuthProfiles` | profile store and token service, over several processes | component |
| `AuthProfilesMC` | instance | TLC |
| `AuthProfilesProofs` | theorems | TLAPS |
| `Gateway` | webhook, pairing, configuration, retrying provider | component |
| `GatewayMC` | instance, symmetry | TLC |
| `GatewayProofs` | theorems about codes and tokens, limits, keys and retries | TLAPS |

Definitions marked `Mutant` are deliberately wrong variants of the definition that
follows them. No specification uses them: they document which bug each property
would notice.

### ChannelDispatch

A worker is identified with its message (`task_id` is drawn once per worker, so the
message serves as one). `pc[m]` says where the message is; each step runs from one
point where another task can be seen to run (an await, a lock, an atomic of
another task's completion) to the next:

| `pc` | in the code | next action |
|---|---|---|
| away, inbox, held | not sent; in the mpsc channel; taken by `recv`, waiting for `acquire_owned` | Deliver, Receive, Spawn |
| spawned | the task before the map's lock | InsertEntry / StartUntracked |
| cancelling | has `previous`, before `cancel()` | CancelPrevious |
| checking, unregistered, parked | inside `InFlightTaskCompletion::wait`: before the load, between load and registration, registered | CheckDone, RegisterWaiter |
| gate, admitted | entry of process_channel_message; passed its check of the token | EnterProcessing; TurnAway, RunNewSession, AppendUserTurn |
| asked, generating | turn appended; in the select | StartGenerating; ObserveCancellation, EndGeneration |
| settling | the match on the result | Settle... |
| leaving, finishing, notifying | before the removal, before the store, between store and `notify_waiters` | RemoveEntry, StoreDone, NotifyWaiters |
| finished, crashed | ended; unwound by a panic | |

`active` is the in-flight map, `prev` the entry an insert replaced, `cancelled` and
`done` the tokens and completion flags, `permits` the semaphore, `histories` the
cache. `ahead` is a history variable: whom a worker found before it in its scope.
`NotifyWaiters` wakes only workers that are `parked`, which is tokio's contract of
`notify_waiters`; the permit is returned with it, when the task's future is dropped.

Abstractions: message contents are distinct and are represented by the message; a
turn's content is the sequence of messages merged into it, whose end a compaction may
have cut off (`SenderHistoryMC` models the cut; here it matters to one step: after
another worker's compaction the rollback of a vision failure may not find the turn it
expects, and appends a note, `MayBeCut`); the model's answer to
`m` is `AssistantTurn(<<m>>)`, whether it is an answer or a failure note; calls on
the chat (send, draft, reaction) succeed and the target channel is present; hooks
may cancel but do not rewrite. Not modelled: /models and /model, the memory store
and the enrichment of the first prompt, typing indicators, the throttling of draft
updates, a listener's restarts.

### SenderHistory, SenderHistoryMC

`SenderHistory` holds the operators on one history; `CompactedTurns` is the part of
`compact_sender_history` that the dispatcher's properties depend on: window and
normalization. `SenderHistoryMC` adds the cap on a kept turn's length: there a turn
is a sequence of pieces of one length, `MaxContent` of which make
`CHANNEL_HISTORY_COMPACT_CONTENT_CHARS`, and a turn that is longer keeps its beginning
and gets an ellipsis (`Truncated`). So the end of a long turn, or of several turns that
were merged into one, is lost, also the end of the last question: `CompactKeepsLatest`
says what stays. The whitespace that is trimmed before the ellipsis is left out.

### CronScheduler

`table` and `runs` are the two SQL tables, `batch[j]` what the scheduler is doing
with job `j` and the copy of the row it works from, `client[c]` a client between its
read and its write. A step is one statement or transaction, or an await. Time is a
counter that `Tick` advances and that may stand still; `next_run_for_schedule` is
`NextRun`, with a cron expression represented by the set of its instants. `served`
and `settled` are history variables for two properties. The columns that describe
what a job does and how it last went (`command`, `last_*`) and delivery are left
out: no step depends on them, except that a failed delivery makes the run a
failure, which `Attempt` includes. The scheduler gets the jobs of a batch in
`next_run` order; ties are broken either way. A SQL failure on a healthy database
is not modelled, a run recorded for a job that is gone is (the foreign key refuses
it).

### AgentSession

`pc` is where the caller or the loop is: `idle` (the session reads), `round` (top of
the `for`), `asking` (the provider call), `gating` (the loop over `tool_calls`,
`gated` of them done), `executing`, `answering` (the text is streamed), `settling`
(compaction and trimming), `over`. `outcome` is `ordered_results`; "cut" is a call
that `execute_one_tool` gave up at the cancellation. `seen` is
`seen_tool_signatures`, `approved` the part of the audit log that says yes.
`effects` (what tools did this turn) and `cleared` are history variables. `mode`
chooses between the two callers: "cli" has an approval manager (which prompts if
`supervised`) and keeps its history over turns; "channel" has hooks, a cancellation
token and a timeout (`Drop`) and a history of its own for one turn. A call that
needs approval off the CLI is approved without a question in the code; no caller
passes an approval manager there, so the case does not arise.

Abstractions: a call is its signature; contents of messages are left out except
what a result says of its call (done, refused). Two calls whose arguments do not
parse are both taken as `{}` by the code and so share a signature, which the model
covers as two equal calls. The system prompt, always first and never removed, is
left out, as are the memory writes of `/clear` and the parsing of calls from text.
`execute_one_tool` cuts arguments longer than 300 bytes for its log at byte 300
(`agent/loop_.rs:1984`), which panics when that is inside a character; this is not
modelled.

### AuthProfiles

A task is a request of the daemon or a command of the CLI; commands are processes of
their own, the daemon's requests share one (`ProcessOf`), and with it the refresh
locks and backoffs. Every operation is a sequence of loads and one save, each of
which takes and releases the lock file: `stage` says which, `at` where in it (before
the lock, lock taken, file replaced). A token set is the number it was issued under
and `issued` the login it goes back to; a refresh gives a successor and the old one
is spent at the provider. `Expire` lets a token set of the file run out. `Drop`
drops a request of the daemon where it awaits: its guard removes the lock file,
unless it was still opening it (`Stale`), and a rename under way still lands
(`stray`). `Crash` kills a process, whose lock file stays. The provider is one that
gives a new refresh token with every refresh; where it does not, the code keeps and
sends the old one again (`auth/mod.rs:227-231`), and `RefreshedOnce` does not apply.

### Gateway

`req[r]` is the progress of a request: `preparing` (a webhook that was let in, while
its message is stored and its images are prepared), `chat` (in the provider), `check`, `code`,
`wrong` (the three critical sections of `try_pair_blocking`), `paired`, `saving`,
`saved` (before the save, before and after its rename), `editing` (a client holds
what GET returned). `live` is false once the request's handler was dropped
(`Timeout`) while its blocking closure or rename runs on. A token is named after the
request that got it; `guard`, `mem` and `disk` are the three places that know the
tokens. `Restart` builds guard and memory from `config.toml`. The order of a list of
tokens is that of a hash set, so which ones a shorter masked list stands for is any
choice. `evicted`, `forgotten` and `overlap` are history variables for what the
properties except; `rate` holds, per limiter and client, the requests whose times the code holds (a
request's time is its `at`). `SlidingWindowRateLimiter::allow` reads the time before
it takes its lock (`gateway/mod.rs:113-121`); the model does both in one step.
`overlap` is set by two changes of the configuration at once, and
by a restart between a client's GET and PUT that brings another configuration. A webhook whose images cannot be prepared ends before any provider is asked
(`gateway/mod.rs:887-889`): the client is told the same as of a failed chat, and the
model keeps the two apart ("unprepared", "failed"), since `NoProviderSkipped` is about
chats. Left out: what /webhook stores in the memory, observers, settings other
than the tokens, the capacity of the table of failed attempts, requests without
pairing (`require_pairing = false`) or without a limit.

## 3. Runs

| Run | Instance | Shows |
|---|---|---|
| `dispatch_telegram` | three interrupting messages of one chat, three permits, one panic, answers, overflow, vision failure, hooks; symmetry | `SerialPerScope`, `EntryIsNewest`, `CancelledIffSuperseded`, `CancelledTurnsKept`, `AnswerFollowsQuestion`, `PromptEndsWithQuestion`, and that the dispatcher implements `FifoLanes` |
| `dispatch_parallel` | three messages of a sender that do not interrupt, one of them /new, two permits, cap 3, window 2, all endings, one panic | `TypeOK`, `PermitsAccounted`, `QuestionsAreClosed`, `FinishedIsTidy` |
| `dispatch_progress` | three interrupting messages of one sender in two chats, one of them /new, two permits, inbox of one, one panic, fairness | `WorkedOffUnlessWedged`, `LoopReturnsUnlessWedged` |
| `agent_session` | two turns of two rounds, answers of two calls with repeats, an unknown tool, tools that ask, always ask, never ask; history of four with three kept | types, `ResultsWhole`, `RunsAreApproved`, `OncePerTurn`, `EffectsAreTold`, `NothingForgotten`, `TurnEnds` |
| `auth_profiles` | two requests of the daemon and one command, two profiles, two refresh attempts, four token sets, three operations, one crash or dropped task, fairness | types and retries, `RefreshedOnce`, `LoginsStand`, `WritesAreSerial`, `OperationsEnd` |
| `gateway` | three requests, two clients and keys but room for one, limit one per window, two models and providers, one retry, one code, one restart, three instants; symmetry | types, `RateBound`, `ProcessedOnce`, `CodeOnce`, `TokensSurvive`, `NoProviderSkipped` |
| `sender_history` | every history of at most five turns, window of three, over two texts; a message is empty, as long as the cap, or a piece too long | the loop of `normalize_cached_channel_turns` equals the definition by blocks; compaction leaves the beginning of every block of its window and the role that spoke last (`CompactKeepsLatest`) |
| `cron_scheduler` | two jobs, one place per poll, three kinds of schedule, two instants, one client, three changes, one retry, one crash, fairness | type and history bound, `RunsBelongToJobs`, `SettledOnce`, `ServedOnce`, `DueIsWorkedOff`, `RemovedStaysRemoved`, `SchedulerKeepsPause` |
| `dispatch_lost_wakeup` | two messages | **violated**: `InterrupterProceeds` |
| `dispatch_spawn_order` | three messages | **violated**: `NewerInterruptsOlder` |
| `dispatch_lost_turn` | three messages | **violated**: `InterruptedTurnsKept` |
| `cron_stale_schedule` | one job, two periods | **violated**: `NextRunFollowsSchedule` |

The four violations:

* **Lost wake-up** (`channels/mod.rs:324-329`). `wait` loads the flag and only then
  creates the `notified()` future. A predecessor that stores the flag and calls
  `notify_waiters` in between is not heard, and the waiter never runs; it keeps a
  permit and its map entry, so all later messages of the chat wait behind it.
* **Spawn order** (`:2331`). On a multi-threaded runtime two workers may reach the
  map in the opposite order of their messages; then the older message cancels the
  newer one.
* **Lost turn** (`:1658`). A worker cancelled while it is itself waiting returns
  before its user turn is appended, though the channel reference says that
  interrupted user turns are preserved.
* **Stale schedule** (`cron/store.rs:285`). `reschedule_after_run` uses the schedule
  from before the run, so an update during a run is announced with one next run and
  gets another.

Two more facts that the properties exclude explicitly: a reply withheld by the
`on_message_sending` hook leaves the draft and the reaction in place
(`channels/mod.rs:2005-2008`), and a job whose schedule has no next run (an instant
without delete_after_run, a cron expression with a last year) cannot be rescheduled
once its last instant has passed, stays due, and comes first in every poll:
`DueIsWorkedOff` promises nothing while there is one (`Stuck`). A one-shot with
delete_after_run is not such a job: it is removed or disabled.

Facts of the other components that a reader should know, because the properties
name them as exceptions:

* With `agent.max_history_messages` of 20 or less
  (`COMPACTION_KEEP_RECENT_MESSAGES`), the hard trim removes the summary that the
  compaction has just written (`agent/loop_.rs:3280-3294`); `NothingForgotten` is
  stated for more. Trimming and compaction may leave results without their call at
  the front of the history, which `ResultsWhole` allows there only.
* When a turn of the interactive session fails, its messages stay and neither
  compaction nor trimming runs (`:3263-3266`); the next turn that succeeds makes up
  for it.
* A lock file left by a crash makes every operation on the profiles fail after ten
  seconds until it is removed by hand (`auth/profiles.rs:505-514`).
* A refresh that was under way during a login overwrites the login's token set
  (`overtook`), and two processes can spend one refresh token: the refresh lock
  belongs to a process (`auth/mod.rs:188`, `:473`).
* A rename whose task was dropped lands after the lock was released (`late`).
* A webhook that failed or timed out cannot be retried under its idempotency key
  until the key expires: the answer is "already processed" (`gateway/mod.rs:980`).
* Two changes of the configuration at once lose one of them (`overlap`), and a
  pairing that is dropped at the timeout leaves a token that nobody knows.
* A save that fails, or is dropped, after its rename has replaced `config.toml` all
  the same; memory catches up at the next restart. A client that read the shorter list before
  the restart and puts it back after it drops a saved token (also `overlap`). The
  proof of `TokensSurvive` turned this up; it takes two pairing codes.

### Bounds

Three messages are enough for the chains that matter: a predecessor, a waiter that
is itself superseded, and the one that supersedes it; a fourth only lengthens the
chain, and the theorems cover every number. One panic suffices to block a scope.
`MaxHistory` and `KeepOnCompact` are larger than any history in `dispatch_telegram`
(its properties speak of turns that no cap removes) and smaller in
`dispatch_parallel`, where cap and window bite. In `sender_history`, a cap of
one piece makes every merged turn and every long one too long, and since a compaction
cuts, histories stay finite. In `cron_scheduler`, two jobs for one place give
competition, three changes give an addition, and an update that overlaps a run or a
removal; two instants let a schedule be due, served and due again, or run out.
In `agent_session`, two
rounds repeat a call over rounds and two turns carry a history and an "always" from
one to the next; four messages with three kept make both compaction and trim bite.
In `gateway`, limits of one make every limiter, table and list full at the second
request; a request is either a webhook in one half of the behaviours or a pairing or
a configuration change in the other (`MCMixes`): the two share only the clock, the
restart and whether anyone is paired, which never changes. The run draws one pairing
code; `CodeOnce` and `TokensSurvive` are proved for any number. `CHECK_DEADLOCK FALSE` is
set where the system may stop: a loop that has returned
has nothing left to do, and the bounded clock and changes of the scheduler run out.

### Fairness

`ChannelDispatch!Fairness` asks that each worker that can take a step does (tokio
polls ready tasks, awaited I/O returns, and a generation is bounded by its timeout)
and that the loop returns when it can. Receive and Spawn of a message count as its
progress: the loop is one task that is always polled. Nobody is obliged to send, to
close or to panic. The semaphore of tokio is fair, and only the loop waits for it.
In `AgentSession` the loop's own steps are fair (the provider and the tools answer,
or are cancelled, and the user answers a prompt), the callers' are not; `TurnEnds`
rests on `max_tool_iterations`. In `AuthProfiles` each task's steps are (the disk
and the provider answer or fail, and the wait for the lock file is bounded); nobody
has to begin, expire, drop or crash. `Gateway` states no liveness.
`CronScheduler!Fairness` asks that the interval keeps firing and that the batch is
polled; clients and clock owe nothing. Executions end: a shell command at its
timeout; of an agent job this is an assumption.

## 4. Proofs

`ChannelDispatchProofs` proves for every set of messages, scopes, keys, endings and
every number of permits, from `DispatchAssumption` alone:

* `CoreTypeCorrect`: types, and a waiting worker has a predecessor.
* `LaneInvariant`: `Spec => []LaneInv`.
* `SerialPerScopeCorrect`, `EntryIsNewestCorrect`, `CancelledCorrect`: the three
  safety properties of interruption that `dispatch_telegram` checks.
* `DispatchRefinesFifoLanes`: the refinement that it checks.

`SerialPerScope` is not inductive: that nobody else is inside when a worker stops
waiting depends on the whole chain before its predecessor. `LaneInv` says what the
chain looks like. The workers of a scope are totally ordered by `ahead`
(`ScopeIsOrdered`); the map's entry is the last of them and present
(`EntryIsNewest`, `EntryIsPresent`); a waiting worker's predecessor was behind
everybody else ahead of it (`PredecessorIsLast`); nobody is served, over or crashed
unless all ahead of it are over (`ServedAfterAhead`). So when the predecessor is
done, it and all ahead of it are over. `ReplacedOnce` makes a completion have one
waiter, which the refinement needs (a notification serves one job), and
`FlagsAreSetInOrder` ties flags to program counters. One lemma per way of
disturbing the invariant (`QuietStep`, `InsertEntryStep`, `CancelPreviousStep`,
`WaitingStep`, `PanicStep`, `RemoveEntryStep`, `StoreDoneStep`, ...) is combined in
`LaneInvInductive`.

`SenderHistoryProofs` and `SenderHistoryMCProofs` are about the operators on one
history, whatever it holds and whatever the caps are:

* `NormalizationKeepsTurns`: `normalize_cached_channel_turns` keeps every turn but
  leading assistant turns, in order; the result begins with the user and alternates.
  `Normalized` relates each turn of the argument to the turn of the result that it
  went to (`place`), and the proof is an induction over the turns read. Dropping
  turns from the front and normalizing again compose (`SqueezeTwice`), which covers
  cap and compaction.
* `NormalizationByBlocks`, `NormalizeMergesBlocksCorrect`: the loop equals the
  reference definition by blocks, texts included. `Blocks` says from where to where
  in the turns read each turn of the result goes, and the induction is again over
  the turns read; that these are the reference's blocks is then a matter of their
  order.
* `CompactKeepsLatestCorrect`: a compaction normalizes first and cuts then, so what it
  leaves of a block is what the cut leaves of the block's text (`CompactionCuts`, over
  `NormalizationByBlocks`); the last block is of the role of the last turn.

`DispatchHistoryProofs` is about what the workers leave behind (any messages,
scopes, keys, caps, permits and endings):

* `HistoryInvariant`, `TypeCorrect`, `QuestionsAreClosedCorrect`: workers of one
  sender may run at once, so a history is not the record of one conversation.
  `HistoryInv` says that what it holds was asked by a worker that came that far
  (`OriginIn`), that nothing is said twice (`OnceIn`), and that what was settled has
  an answer behind it (`ClosedIn`). Cap, window and merging keep all three
  (`SqueezeKeeps`); `OnceIn` is what the rollback needs: the question it removes has
  no second copy that would stay without an answer.
* `SerialHistoryInvariant`, `AnswerFollowsQuestionCorrect`,
  `PromptEndsWithQuestionCorrect`: with `SerialPerScope`, a sender with one scope has
  one open question, and it is the last turn.
* `PermitsAccountedCorrect`: counting, over `PermitInv`, which adds that the holders
  are finitely many.
* `FinishedIsTidyCorrect`: over `ChatInv`, which says who may still be shown as
  worked on.
* `CancelledTurnsKeptCorrect`: over `KeptInv`, for any finite set of messages that
  neither the cap nor the window has to cut (`2 * Cardinality(Messages)` is at most
  `MaxHistory` and `KeepOnCompact`) and without /new. Without these the property does
  not hold, since cap, window and /new are there to drop turns; `dispatch_telegram`
  is an instance. `KeptInv` bounds the length of a history by the questions and answers
  that were put into it, two per message.

The other proof modules assume only their component's assumption on constants, and
have the same layout: an inductive invariant, a lemma per action or group of actions
that disturb the same parts, and the properties as consequences.

`AuthProfilesProofs` (`StoreInvariant`, `TypeCorrect`, `RefreshedOnceCorrect`,
`LoginsStandCorrect`, `WritesAreSerialCorrect`; any tasks, profiles, processes and
bounds). `WritesAreSerial` speaks of the moment of the rename; what makes it true is
decided when the file is read. `StoreInv` therefore says that activities are where
the lock file has them (`ActivitiesFit`: at most one owner is between taking and
releasing it), and that the copy an owner works on is the file with its own change
(`WritesFit`). `RefreshedOnce` needs to know where token sets are: issued
(`AllIssued`), of one profile (`OneOwner`), nowhere else before they are saved
(`UnsavedIsNew`), and, once exchanged and replaced, gone from the file for good
(`SpentIsGone`); one task of a process refreshes a profile (`OneRefresher`).
`LoginsStand` follows from where they go back to (`Lineage`). `ActivitiesFit`,
`OneRefresher`, and that what a login or an exchange holds was issued
(`TokensIssued`), hold always, the rest until a dropped rename lands (`late`).

`AgentSessionProofs` (`GateInvariant`, `RunsAreApprovedCorrect`,
`OncePerTurnCorrect`; any tools, answers, modes, turns and rounds). The gate decides
before anything runs, and calls run later in any order: `GateInv` says that every
call of the round that passed the gate was approved (`PassedAreApproved`) and has a
signature of its own that nothing else that ran has (`SignaturesAreSeen`), and that
execution starts when the gate has seen all calls.

On the history (`HistoryInvariant`, `TypeCorrect`, `ResultsWholeCorrect`,
`EffectsAreToldCorrect`, `NothingForgottenCorrect`; any tools, answers, bounds and
both callers): a round's results are written when its last call has ended, while
effects happen one by one and in any order. The invariant therefore splits a turn at
the round under way: what was done in earlier rounds is in the history, what was done
in this one is in `outcome`, and the history has no results of this one yet
(`Recorded`). Trimming and compaction drop from the front and may put a summary
there; `Moved`, `Suffix` and `Summarized` say what that keeps, `RoundMessages` what a
round adds.

`CronSchedulerProofs` (`CronInvariant`, `TypeCorrect`, `RunsBelongToJobsCorrect`,
`SettledOnceCorrect`, `ServedOnceCorrect`, `RemovedStaysRemovedCorrect`,
`SchedulerKeepsPauseCorrect`; any jobs, schedules, clients, changes and crashes).
Nobody holds a lock over a job: what has to be said is said of copies. `CronInv`
says that a job of the batch was added and is worked on from a row whose due time is
later than the one served last (`Working`), that the table agrees (`Stored`), and
that a client that updates has a row (`Busy`). That no write of the scheduler or of
an update brings a row back or turns it on is then a matter of one step, for every
step (`RowWrites`).

`GatewayProofs` (`TokenInvariant`, `CodeOnceCorrect`, `TokensSurviveCorrect`; any
requests, clients, limits, codes and restarts). A code is used up by the step that
lets a client in, but the token then moves to a copy of the configuration, the file,
memory, and after a restart back into the guard. `CodeInv` follows it: whoever's
token is anywhere tried a code that was drawn and is used up, and no two of them the
same (`CodeIsUsedUp`, `OneTokenPerCode`). `TokenInv` says that, without `overlap`, at
most one change is under way, and the tokens whose clients were told are in guard,
memory, file and that change's copy (`Whole`).

On the limits (`LimitsInvariant`, `TypeCorrect`, `RateBoundCorrect`,
`ProcessedOnceCorrect`, `NoProviderSkippedCorrect`; any requests, clients, keys,
limits, windows and sizes of the tables): the limiter forgets times that have left
its window, so `RateBound`, which speaks of every window there ever was, is not
inductive: `Times` says that whatever is young enough to share a window with a new
request is still held, so that counting what is held is counting the window.
`KeysHeld` is the same for idempotency keys. `Shape` says how far a chat has come:
it has asked every provider before the one it asks next (`AskedBefore`). The theorem
says nothing of webhooks that end in preparation, before there is a chat.

Induction over data: the library's induction theorems take a predicate, which none of
the installed provers can instantiate. `CountUp` states induction up to a number for
a *set* in its place, from `WFMin` of the library, and `Unfolded` and `Flattened` get
from it that `FoldLeft` and `FlattenSeq` unfold as one expects. `SortSeq` has no
definition that the prover sees; the reference definition therefore enumerates its
blocks with `Nth`.

Only model-checked: liveness (`WorkedOffUnlessWedged`, `LoopReturnsUnlessWedged`,
`TurnEnds`, `DueIsWorkedOff`, `OperationsEnd`), which is out of the prover's reach, and
the four violations.

## 5. Plan

Done: `SenderHistory`, `FifoLanes`, `ChannelDispatch` with proofs; `CronScheduler`;
`AgentSession`; `AuthProfiles`; `Gateway` with the retrying provider; and proofs of
every safety property that a run checks.

Next, in order of importance:

1. An abstract store (one operation at a time, in the order of the renames) that
   `AuthProfiles` implements, and the same for `config.toml`.
2. The action budget of `security/policy.rs` and the supervisor's restarts.
3. The gateway's webhooks of single channels, which enter the tool loop.

## 6. Not modelled

`PROJECT.json` lists every component with its reason. In short: channel adapters,
providers' wire formats, memory search, hardware, skills, most of the configuration
and the Rover wrapper are sequential I/O or data processing. The SOP engine is not
compiled (neither `lib.rs` nor `main.rs` declares it, and a type it needs does not
exist), and the cost tracker's operations have no callers; a model of either would
be of no program. The supervisor and the action budget are in the plan.
