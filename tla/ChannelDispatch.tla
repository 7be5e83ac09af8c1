-------------------------- MODULE ChannelDispatch --------------------------
(***************************************************************************)
(* The channel dispatcher of zeroclaw (channels/mod.rs): the dispatch      *)
(* loop, its worker tasks, the in-flight map by which a newer Telegram     *)
(* message supersedes an older one, and what process_channel_message does  *)
(* to the sender's history and to the chat.                                *)
(*                                                                         *)
(* A worker is identified with its message; the task_id that the code      *)
(* draws to tell map entries apart is therefore the message itself.        *)
(* A step of a worker is what it does between two points where another     *)
(* task can be seen to run: an await, a lock, or an atomic of another      *)
(* task's completion.                                                      *)
(***************************************************************************)
EXTENDS SenderHistory, FiniteSets

CONSTANTS
  Messages,       \* every message the listeners will ever send
  Scopes,         \* interruption_scope_key: channel, chat and sender
  Keys,           \* conversation_history_key: channel, thread and sender
  Scope,          \* [Messages -> Scopes]
  Key,            \* [Messages -> Keys]
  Interrupting,   \* messages for which interrupt_enabled is computed true
  NewSessions,    \* messages that are the /new command
  MaxInFlight,    \* permits of the semaphore
  InboxCapacity,  \* capacity of the listeners' channel
  MaxPanics,      \* bound: worker panics in a behaviour
  Endings,        \* how the tool-call loop may end, of GenerationEndings
  None            \* no message

GenerationEndings == {"ok", "overflow", "vision", "error", "timeout"}

ASSUME DispatchAssumption ==
  /\ Scope \in [Messages -> Scopes]
  /\ Key \in [Messages -> Keys]
  /\ Interrupting \subseteq Messages
  /\ NewSessions \subseteq Messages
  /\ MaxInFlight \in Nat \ {0}
  /\ InboxCapacity \in Nat \ {0}
  /\ MaxPanics \in Nat
  /\ Endings \subseteq GenerationEndings
  /\ None \notin Messages

VARIABLES
  sent,       \* the messages in the order the listeners sent them
  closed,     \* every sender of the channel is gone
  loop,       \* "receiving", or "done" once run_message_dispatch_loop returned
  pc,         \* [Messages -> where the message's worker is]
  permits,    \* free permits of the semaphore
  active,     \* in_flight_by_sender: the worker whose entry a scope holds
  prev,       \* the worker whose entry a worker's insert replaced
  cancelled,  \* workers whose cancellation token is cancelled
  done,       \* workers whose completion flag is set
  ahead,      \* history variable: whom a worker found before it in its scope
  outcome,    \* how the processing of a message ended
  histories,  \* conversation_histories
  drafts,     \* messages whose reply is shown as an unfinished draft
  eyes        \* messages that carry the "being worked on" reaction

loopVars  == <<sent, closed, loop, permits>>
queueVars == <<active, prev, cancelled, done, ahead>>
chatVars  == <<outcome, histories, drafts, eyes>>
vars      == <<loopVars, pc, queueVars, chatVars>>

(* A worker waits for its predecessor in Waiting, is inside                *)
(* process_channel_message (or about to remove its entry) in Processing,   *)
(* and has left the scope for good in Over.                                *)
Waiting    == {"cancelling", "checking", "unregistered", "parked"}
Processing == {"gate", "admitted", "asked", "generating", "settling", "leaving"}
Over       == {"finishing", "notifying", "finished"}
PCs        == {"away", "inbox", "held", "spawned", "crashed"} \cup Waiting \cup Processing \cup Over

Outcomes == {"none", "superseded", "cancelled", "withheld"} \cup Endings

Goto(m, l)    == pc' = [pc EXCEPT ![m] = l]
Step(m, l, k) == pc[m] = l /\ Goto(m, k)
Ended(m, o)   == outcome' = [outcome EXCEPT ![m] = o]

Init ==
  /\ sent = <<>>
  /\ closed = FALSE
  /\ loop = "receiving"
  /\ pc = [m \in Messages |-> "away"]
  /\ permits = MaxInFlight
  /\ active = [s \in Scopes |-> None]
  /\ prev = [m \in Messages |-> None]
  /\ cancelled = {}
  /\ done = {}
  /\ ahead = [m \in Messages |-> {}]
  /\ outcome = [m \in Messages |-> "none"]
  /\ histories = [k \in Keys |-> <<>>]
  /\ drafts = {}
  /\ eyes = {}

-----------------------------------------------------------------------------
(* The listeners and the loop. *)

At(l) == {m \in Messages : pc[m] = l}

(* A listener sends a message; send waits while the channel is full. *)
Deliver(m) ==
  /\ ~closed
  /\ Cardinality(At("inbox")) < InboxCapacity
  /\ Step(m, "away", "inbox")
  /\ sent' = Append(sent, m)
  /\ UNCHANGED <<closed, loop, permits, queueVars, chatVars>>

(* The listeners stop: the last sender is dropped. *)
CloseInbox ==
  /\ ~closed
  /\ closed' = TRUE
  /\ UNCHANGED <<sent, loop, permits, pc, queueVars, chatVars>>

(* rx.recv: the loop takes the oldest message that is still in the channel *)
(* unless it still holds one for which it has no permit.                   *)
Receive(m) ==
  /\ At("held") = {}
  /\ Step(m, "inbox", "held")
  /\ \E i \in DOMAIN sent : sent[i] = m /\ \A j \in 1..(i - 1) : pc[sent[j]] # "inbox"
  /\ UNCHANGED <<loopVars, queueVars, chatVars>>

(* Mutant: the permit is not waited for. *)
SpawnUnbounded(m) ==
  /\ Step(m, "held", "spawned")
  /\ permits' = permits - 1
  /\ UNCHANGED <<sent, closed, loop, queueVars, chatVars>>

(* acquire_owned, then spawn.  The worker keeps the permit until it ends.  *)
Spawn(m) ==
  /\ permits > 0
  /\ Step(m, "held", "spawned")
  /\ permits' = permits - 1
  /\ UNCHANGED <<sent, closed, loop, queueVars, chatVars>>

(* Mutant: a join that failed is waited for again. *)
LoopRejoinsCrashed ==
  /\ closed
  /\ loop = "receiving"
  /\ \A m \in Messages : pc[m] \in {"away", "finished"}
  /\ loop' = "done"
  /\ UNCHANGED <<sent, closed, permits, pc, queueVars, chatVars>>

(* recv gave None, and join_next every worker: the loop returns. *)
LoopReturns ==
  /\ closed
  /\ loop = "receiving"
  /\ \A m \in Messages : pc[m] \in {"away", "finished", "crashed"}
  /\ loop' = "done"
  /\ UNCHANGED <<sent, closed, permits, pc, queueVars, chatVars>>

-----------------------------------------------------------------------------
(* A worker before process_channel_message. *)

(* interrupt_enabled is false: nobody is told about this worker. *)
StartUntracked(m) ==
  /\ m \notin Interrupting
  /\ Step(m, "spawned", "gate")
  /\ UNCHANGED <<loopVars, queueVars, chatVars>>

(* Under the map's lock the worker puts its own entry in the scope's place *)
(* and learns whose entry was there.                                       *)
InScope(s) == {m \in Interrupting : Scope[m] = s /\ pc[m] \in Waiting \cup Processing \cup {"crashed"}}

InsertEntry(m) ==
  LET s == Scope[m] IN
  /\ m \in Interrupting
  /\ Step(m, "spawned", IF active[s] = None THEN "gate" ELSE "cancelling")
  /\ active' = [active EXCEPT ![s] = m]
  /\ prev' = [prev EXCEPT ![m] = active[s]]
  /\ ahead' = [ahead EXCEPT ![m] = InScope(s)]
  /\ UNCHANGED <<loopVars, cancelled, done, chatVars>>

(* Mutant: the entry that is in the map by now is cancelled. *)
CancelCurrent(m) ==
  /\ Step(m, "cancelling", "checking")
  /\ cancelled' = cancelled \cup ({active[Scope[m]]} \ {None})
  /\ UNCHANGED <<loopVars, active, prev, done, ahead, chatVars>>

(* previous.cancellation.cancel() *)
CancelPrevious(m) ==
  /\ Step(m, "cancelling", "checking")
  /\ cancelled' = cancelled \cup {prev[m]}
  /\ UNCHANGED <<loopVars, active, prev, done, ahead, chatVars>>

(* Mutant: a predecessor that was told to stop is not waited for. *)
CheckCancelled(m) ==
  /\ Step(m, "checking", IF prev[m] \in cancelled THEN "gate" ELSE "unregistered")
  /\ UNCHANGED <<loopVars, queueVars, chatVars>>

(* InFlightTaskCompletion::wait reads the flag; only when it found the     *)
(* flag unset does it register with the Notify, in a step of its own.      *)
CheckDone(m) ==
  /\ Step(m, "checking", IF prev[m] \in done THEN "gate" ELSE "unregistered")
  /\ UNCHANGED <<loopVars, queueVars, chatVars>>

RegisterWaiter(m) ==
  /\ Step(m, "unregistered", "parked")
  /\ UNCHANGED <<loopVars, queueVars, chatVars>>

-----------------------------------------------------------------------------
(* process_channel_message *)

(* The token is looked at once on entry. *)
EnterProcessing(m) ==
  /\ IF m \in cancelled
     THEN Step(m, "gate", "leaving") /\ Ended(m, "superseded")
     ELSE Step(m, "gate", "admitted") /\ UNCHANGED outcome
  /\ UNCHANGED <<loopVars, queueVars, histories, drafts, eyes>>

(* The message gets no turn: the on_message_received hook cancels it, or   *)
(* get_or_create_provider fails.                                           *)
TurnAway(m) ==
  /\ Step(m, "admitted", "leaving")
  /\ UNCHANGED <<loopVars, queueVars, chatVars>>

(* /new: clear_sender_history, and no generation. *)
RunNewSession(m) ==
  /\ m \in NewSessions
  /\ Step(m, "admitted", "leaving")
  /\ histories' = [histories EXCEPT ![Key[m]] = <<>>]
  /\ UNCHANGED <<loopVars, queueVars, outcome, drafts, eyes>>

AppendUserTurn(m) ==
  /\ m \notin NewSessions
  /\ Step(m, "admitted", "asked")
  /\ histories' = [histories EXCEPT ![Key[m]] = AppendSenderTurn(@, UserTurn(<<m>>))]
  /\ UNCHANGED <<loopVars, queueVars, outcome, drafts, eyes>>

(* What the model is asked: the cached turns, read back and normalized.    *)
Prompt(m) == NormalizeCachedTurns(histories[Key[m]])

(* The prompt is read; a channel that streams shows a draft; the message   *)
(* gets its reaction.                                                      *)
StartGenerating(m) ==
  /\ Step(m, "asked", "generating")
  /\ drafts' \in {drafts, drafts \cup {m}}
  /\ eyes' = eyes \cup {m}
  /\ UNCHANGED <<loopVars, queueVars, outcome, histories>>

(* The two arms of the select.  When both are ready either may be taken,   *)
(* so a cancelled task can still end any other way.                        *)
ObserveCancellation(m) ==
  /\ m \in cancelled
  /\ Step(m, "generating", "settling")
  /\ Ended(m, "cancelled")
  /\ UNCHANGED <<loopVars, queueVars, histories, drafts, eyes>>

EndGeneration(m) ==
  /\ Step(m, "generating", "settling")
  /\ \E o \in Endings : Ended(m, o)
  /\ UNCHANGED <<loopVars, queueVars, histories, drafts, eyes>>

(* The last calls on the chat: the draft is finalized or removed, and the  *)
(* reaction is swapped for one that says how the processing ended.         *)
TidyChat(m) == drafts' = drafts \ {m} /\ eyes' = eyes \ {m}

AppendAssistantTurn(m) ==
  histories' = [histories EXCEPT ![Key[m]] = AppendSenderTurn(@, AssistantTurn(<<m>>))]

(* An error of a cancelled task counts as the cancellation. *)
Failed(m, o) == outcome[m] = o /\ m \notin cancelled

(* Mutant: an interrupted request is rolled back like a failed one. *)
SettleCancelledByRollback(m) ==
  /\ outcome[m] = "cancelled" \/ (outcome[m] \in {"overflow", "vision", "error"} /\ m \in cancelled)
  /\ Step(m, "settling", "leaving")
  /\ Ended(m, "cancelled")
  /\ TidyChat(m)
  /\ histories' = IF CanRollback(histories[Key[m]], UserTurn(<<m>>))
                  THEN [histories EXCEPT ![Key[m]] = RollbackOrphanUserTurn(@)]
                  ELSE histories
  /\ UNCHANGED <<loopVars, queueVars>>

SettleCancelled(m) ==
  /\ outcome[m] = "cancelled" \/ (outcome[m] \in {"overflow", "vision", "error"} /\ m \in cancelled)
  /\ Step(m, "settling", "leaving")
  /\ Ended(m, "cancelled")
  /\ TidyChat(m)
  /\ UNCHANGED <<loopVars, queueVars, histories>>

(* The on_message_sending hook cancels the reply: process_channel_message  *)
(* returns there and then.                                                 *)
SettleWithheld(m) ==
  /\ outcome[m] = "ok"
  /\ Step(m, "settling", "leaving")
  /\ Ended(m, "withheld")
  /\ UNCHANGED <<loopVars, queueVars, histories, drafts, eyes>>

SettleReply(m) ==
  /\ outcome[m] = "ok"
  /\ Step(m, "settling", "leaving")
  /\ AppendAssistantTurn(m)
  /\ TidyChat(m)
  /\ UNCHANGED <<loopVars, queueVars, outcome>>

(* Mutant: the overflow notice returns before the reactions are swapped. *)
SettleOverflowEarly(m) ==
  /\ Failed(m, "overflow")
  /\ Step(m, "settling", "leaving")
  /\ histories' = [histories EXCEPT ![Key[m]] = CompactedTurns(@)]
  /\ UNCHANGED <<loopVars, queueVars, outcome, drafts, eyes>>

SettleOverflow(m) ==
  /\ Failed(m, "overflow")
  /\ Step(m, "settling", "leaving")
  /\ histories' = [histories EXCEPT ![Key[m]] = CompactedTurns(@)]
  /\ TidyChat(m)
  /\ UNCHANGED <<loopVars, queueVars, outcome>>

(* Another worker's compaction may have cut a long question, which then is *)
(* not the turn that rollback_orphan_user_turn expects.  (A compaction     *)
(* before the question was appended is not told apart.)                    *)
MayBeCut(m) ==
  \E w \in Messages \ {m} :
    Key[w] = Key[m] /\ outcome[w] = "overflow" /\ pc[w] \in {"leaving"} \cup Over

(* Only a missing vision capability takes the question back, and only when *)
(* it still is the last turn; any other failure closes it with a note.     *)
SettleFailure(m) ==
  /\ Failed(m, "error") \/ Failed(m, "vision")
  /\ Step(m, "settling", "leaving")
  /\ IF outcome[m] = "vision" /\ CanRollback(histories[Key[m]], UserTurn(<<m>>))
     THEN \/ histories' = [histories EXCEPT ![Key[m]] = RollbackOrphanUserTurn(@)]
          \/ MayBeCut(m) /\ AppendAssistantTurn(m)
     ELSE AppendAssistantTurn(m)
  /\ TidyChat(m)
  /\ UNCHANGED <<loopVars, queueVars, outcome>>

(* Mutant: a request that timed out is only reported to the chat. *)
SettleTimeoutOpen(m) ==
  /\ outcome[m] = "timeout"
  /\ Step(m, "settling", "leaving")
  /\ TidyChat(m)
  /\ UNCHANGED <<loopVars, queueVars, outcome, histories>>

SettleTimeout(m) ==
  /\ outcome[m] = "timeout"
  /\ Step(m, "settling", "leaving")
  /\ AppendAssistantTurn(m)
  /\ TidyChat(m)
  /\ UNCHANGED <<loopVars, queueVars, outcome>>

-----------------------------------------------------------------------------
(* A worker after process_channel_message. *)

(* Mutant: the entry is removed without a look at whose it is. *)
RemoveAnyEntry(m) ==
  /\ Step(m, "leaving", "finishing")
  /\ active' = IF m \in Interrupting THEN [active EXCEPT ![Scope[m]] = None] ELSE active
  /\ UNCHANGED <<loopVars, prev, cancelled, done, ahead, chatVars>>

(* A worker removes the scope's entry only when it still is its own. *)
RemoveEntry(m) ==
  /\ Step(m, "leaving", "finishing")
  /\ active' = IF m \in Interrupting /\ active[Scope[m]] = m
               THEN [active EXCEPT ![Scope[m]] = None]
               ELSE active
  /\ UNCHANGED <<loopVars, prev, cancelled, done, ahead, chatVars>>

(* mark_done: the flag, then notify_waiters, which reaches only those that *)
(* are registered by then.  Then the worker ends and drops its permit.     *)
StoreDone(m) ==
  /\ Step(m, "finishing", "notifying")
  /\ done' = done \cup {m}
  /\ UNCHANGED <<loopVars, active, prev, cancelled, ahead, chatVars>>

Parked(m) == {w \in Messages : pc[w] = "parked" /\ prev[w] = m}

(* Mutant: the permit is not returned. *)
NotifyKeepingPermit(m) ==
  /\ pc[m] = "notifying"
  /\ pc' = [w \in Messages |-> IF w = m THEN "finished"
                               ELSE IF w \in Parked(m) THEN "gate" ELSE pc[w]]
  /\ UNCHANGED <<loopVars, queueVars, chatVars>>

(* Mutant: one Notify is shared by the workers of a scope. *)
NotifyScope(m) ==
  /\ pc[m] = "notifying"
  /\ pc' = [w \in Messages |-> IF w = m THEN "finished"
                               ELSE IF w \in At("parked") /\ Scope[w] = Scope[m] THEN "gate" ELSE pc[w]]
  /\ permits' = permits + 1
  /\ UNCHANGED <<sent, closed, loop, queueVars, chatVars>>

NotifyWaiters(m) ==
  /\ pc[m] = "notifying"
  /\ pc' = [w \in Messages |-> IF w = m THEN "finished"
                               ELSE IF w \in Parked(m) THEN "gate" ELSE pc[w]]
  /\ permits' = permits + 1
  /\ UNCHANGED <<sent, closed, loop, queueVars, chatVars>>

(* A panic inside process_channel_message unwinds the worker: its permit   *)
(* is dropped and the loop only logs the JoinError.                        *)
Panic(m) ==
  /\ pc[m] \in Processing \ {"leaving"}
  /\ Cardinality(At("crashed")) < MaxPanics
  /\ Goto(m, "crashed")
  /\ permits' = permits + 1
  /\ UNCHANGED <<sent, closed, loop, queueVars, chatVars>>

-----------------------------------------------------------------------------
LoopStep(m) == Receive(m) \/ Spawn(m)

Start(m) ==
  \/ StartUntracked(m) \/ InsertEntry(m)
  \/ CancelPrevious(m) \/ CheckDone(m) \/ RegisterWaiter(m)

Admit(m) ==
  \/ EnterProcessing(m) \/ TurnAway(m) \/ RunNewSession(m)
  \/ AppendUserTurn(m) \/ StartGenerating(m)

Generate(m) == ObserveCancellation(m) \/ EndGeneration(m)

Settle(m) ==
  \/ SettleCancelled(m) \/ SettleWithheld(m) \/ SettleReply(m)
  \/ SettleOverflow(m) \/ SettleFailure(m) \/ SettleTimeout(m)

Finish(m) == RemoveEntry(m) \/ StoreDone(m) \/ NotifyWaiters(m)

Progress(m) == LoopStep(m) \/ Start(m) \/ Admit(m) \/ Generate(m) \/ Settle(m) \/ Finish(m)

Next ==
  \/ \E m \in Messages : Deliver(m) \/ Progress(m) \/ Panic(m)
  \/ CloseInbox
  \/ LoopReturns

Spec == Init /\ [][Next]_vars

(* The runtime polls every task that can run, awaited I/O returns, and a   *)
(* generation ends at the latest by its timeout.  Nobody has to send a     *)
(* message, close the channel or panic.                                    *)
Fairness == WF_vars(LoopReturns) /\ \A m \in Messages : WF_vars(Progress(m))

FairSpec == Spec /\ Fairness
-----------------------------------------------------------------------------
(* Type correctness.  HistoryTypeOK is kept apart: that a fold returns a   *)
(* sequence is an induction over the turns of its own.                     *)
CoreTypeOK ==
  /\ sent \in Seq(Messages)
  /\ closed \in BOOLEAN
  /\ loop \in {"receiving", "done"}
  /\ pc \in [Messages -> PCs]
  /\ permits \in Nat
  /\ active \in [Scopes -> Interrupting \cup {None}]
  /\ prev \in [Messages -> Interrupting \cup {None}]
  /\ \A m \in Messages : pc[m] \in Waiting => m \in Interrupting /\ prev[m] # None
  /\ cancelled \subseteq Messages
  /\ done \subseteq Messages
  /\ ahead \in [Messages -> SUBSET Interrupting]
  /\ outcome \in [Messages -> Outcomes]
  /\ drafts \subseteq Messages
  /\ eyes \subseteq Messages

HistoryTypeOK ==
  /\ DOMAIN histories = Keys
  /\ \A k \in Keys : \A i \in DOMAIN histories[k] :
       /\ histories[k][i].role \in {"user", "assistant"}
       /\ histories[k][i].parts \in Seq(Messages)

TypeOK == CoreTypeOK /\ HistoryTypeOK

-----------------------------------------------------------------------------
(* Interruption. *)

(* Two interrupting workers of one scope are never inside                  *)
(* process_channel_message at once: waiting for the completion of the one  *)
(* whose entry it replaced keeps a worker out, however the inserts, the    *)
(* removals and the cancellations of many workers interleave.              *)
SerialPerScope ==
  \A u, v \in Interrupting :
    u # v /\ Scope[u] = Scope[v] => ~(pc[u] \in Processing /\ pc[v] \in Processing)

(* The map always names the last worker that entered the scope, as long as *)
(* any worker of it is waiting, working or has crashed: a worker that ends *)
(* late never removes a newer worker's entry.                              *)
EntryIsNewest ==
  \A s \in Scopes : \A m \in InScope(s) :
    active[s] # None /\ (m = active[s] \/ m \in ahead[active[s]])

(* A worker that is not the newest of its scope is cancelled, at the       *)
(* latest when its successor starts to wait for it; the newest never is.   *)
CancelledIffSuperseded ==
  \A s \in Scopes : \A m \in InScope(s) :
    IF m = active[s]
    THEN m \notin cancelled
    ELSE m \in cancelled \/ \E w \in Messages : pc[w] = "cancelling" /\ prev[w] = m

(* The dispatcher refines FifoLanes: a lane is a scope, and a message that *)
(* does not interrupt is alone in a lane of its own.                       *)
LaneOf == [m \in Messages |-> IF m \in Interrupting THEN <<"scope", Scope[m]>> ELSE <<"message", m>>]

StageOf(m) ==
  CASE pc[m] \in Waiting    -> "queued"
    [] pc[m] \in Processing -> "served"
    [] pc[m] \in Over       -> "over"
    [] pc[m] = "crashed"    -> "jammed"
    [] OTHER                -> "idle"

Lanes == INSTANCE FifoLanes WITH
  Jobs <- Messages, Lane <- LaneOf, stage <- [m \in Messages |-> StageOf(m)]

RefinesFifoLanes == Lanes!Spec

(* The inductive invariant behind these properties.  BeforeStart is where  *)
(* a worker has not touched the map yet.                                   *)
BeforeStart == {"away", "inbox", "held", "spawned"}

(* Nobody is served, has ended or has crashed before all ahead of it left. *)
ServedAfterAhead ==
  \A v \in Messages : pc[v] \in Processing \cup Over \cup {"crashed"} =>
    \A w \in ahead[v] : pc[w] \in Over

(* Whom a waiting worker waits for was itself behind everybody else.       *)
PredecessorIsLast ==
  \A v \in Messages : pc[v] \in Waiting =>
    \A w \in ahead[v] : w = prev[v] \/ w \in ahead[prev[v]]

(* An entry is a worker's of that scope that has not left it.              *)
EntryIsPresent ==
  \A s \in Scopes : active[s] # None => active[s] \in InScope(s)

(* Of two workers in a scope one is ahead of the other.                    *)
ScopeIsOrdered ==
  \A s \in Scopes : \A u, v \in InScope(s) : u # v => u \in ahead[v] \/ v \in ahead[u]

(* A replaced entry's worker has started, has no entry any more, and was   *)
(* replaced once.                                                          *)
ReplacedOnce ==
  \A v \in Messages : prev[v] # None =>
    /\ prev[v] \in Messages
    /\ pc[prev[v]] \notin BeforeStart
    /\ \A s \in Scopes : active[s] # prev[v]
    /\ \A w \in Messages : prev[w] = prev[v] => w = v

FlagsAreSetInOrder ==
  /\ \A m \in done : pc[m] \in {"notifying", "finished"}
  /\ \A m \in Messages : pc[m] = "notifying" => m \in done
  /\ \A m \in cancelled : pc[m] \notin BeforeStart
  /\ \A m \in Messages : pc[m] \in BeforeStart => ahead[m] = {} /\ prev[m] = None

LaneInv ==
  /\ CoreTypeOK
  /\ ServedAfterAhead
  /\ EntryIsNewest
  /\ PredecessorIsLast
  /\ EntryIsPresent
  /\ ScopeIsOrdered
  /\ ReplacedOnce
  /\ FlagsAreSetInOrder
  /\ CancelledIffSuperseded

(* A permit is held by every worker from its spawn until it ended or       *)
(* crashed, and no worker runs without one: that is the bound on messages  *)
(* in flight, and no path loses a permit.                                  *)
Holding == {m \in Messages : pc[m] \notin {"away", "inbox", "held", "finished", "crashed"}}

PermitsAccounted == permits + Cardinality(Holding) = MaxInFlight

-----------------------------------------------------------------------------
(* Histories. *)

Says(turns, i, role, m) == turns[i].role = role /\ \E j \in DOMAIN turns[i].parts : turns[i].parts[j] = m

(* A question whose processing went through (answered, failed or timed     *)
(* out) is closed by an assistant turn after it, so that the next request  *)
(* does not inherit it as unfinished; no interleaving of other workers of  *)
(* the sender, compaction or cap separates the two the other way round.    *)
QuestionsAreClosed ==
  \A k \in Keys : \A i \in DOMAIN histories[k] : \A m \in Messages :
    /\ Says(histories[k], i, "user", m)
    /\ pc[m] \in {"leaving"} \cup Over
    /\ outcome[m] \in {"ok", "vision", "error", "timeout"}
    => \E j \in (i + 1)..Len(histories[k]) : Says(histories[k], j, "assistant", m)

(* m's sender is served one message at a time: all of its messages are of  *)
(* one scope and interrupt.                                                *)
Serialized(m) ==
  \A w \in Messages : Key[w] = Key[m] => w \in Interrupting /\ Scope[w] = Scope[m]

(* Then an answer stands directly behind its question.                     *)
AnswerFollowsQuestion ==
  \A k \in Keys : \A i \in 2..Len(histories[k]) : \A m \in Messages :
    Serialized(m) /\ Says(histories[k], i, "assistant", m)
      => Says(histories[k], i - 1, "user", m)

(* And the model is always asked the message at hand: it is the last thing *)
(* said in the prompt, and the user's.                                     *)
PromptEndsWithQuestion ==
  \A m \in Messages :
    pc[m] = "asked" /\ Serialized(m)
      => /\ Prompt(m) # <<>>
         /\ Last(Prompt(m)).role = "user"
         /\ Last(Last(Prompt(m)).parts) = m

InHistory(m) == \E i \in DOMAIN histories[Key[m]] : Says(histories[Key[m]], i, "user", m)

(* The turn of a task that was cancelled while it worked stays in the      *)
(* history, in instances where neither the cap on turns nor /new removes   *)
(* turns (of texts so long that a compaction cuts them off after another   *)
(* text in the same turn, all that stays is their place).                  *)
CancelledTurnsKept ==
  \A m \in Messages : pc[m] = "finished" /\ outcome[m] = "cancelled" => InHistory(m)

(* "interrupt_on_new_message = true preserves interrupted user turns in    *)
(* conversation history" (channels-reference.md), of every message that    *)
(* was interrupted and not turned away.  Not so for a worker that is       *)
(* cancelled while it still waits for its own predecessor.                 *)
InterruptedTurnsKept ==
  \A m \in Messages :
    pc[m] = "finished" /\ outcome[m] \in {"cancelled", "superseded"} => InHistory(m)

(* "... then restarts generation on the newest message" (ibid.): a worker  *)
(* interrupts only messages that came before its own.  Not so: workers are *)
(* spawned in order of arrival but enter the map in any order.             *)
Arrival(m) == CHOOSE i \in DOMAIN sent : sent[i] = m

NewerInterruptsOlder ==
  \A m \in Messages : prev[m] # None => Arrival(prev[m]) < Arrival(m)

(* "Swap ... to signal processing is complete" (channels/mod.rs): nothing  *)
(* in the chat says that a finished message is still worked on, however    *)
(* its generation ended; unless the on_message_sending hook cancelled the  *)
(* reply, which leaves the draft and the reaction where they are.          *)
FinishedIsTidy ==
  \A m \in Messages : pc[m] = "finished" /\ outcome[m] # "withheld" => m \notin drafts \cup eyes

-----------------------------------------------------------------------------
(* Progress. *)

HasEnded(m) == pc[m] \in {"finished", "crashed"}

(* A worker waits for a completion that will not be signalled any more:    *)
(* its predecessor crashed, or signalled between the worker's look at the  *)
(* flag and its registration.                                              *)
Wedged == \E w \in Messages : pc[w] = "parked" /\ HasEnded(prev[w])

(* Every message that was sent is worked off, unless some worker is        *)
(* wedged: the lost wake-up and the crash are the only ways in which the   *)
(* permits, the map and the waiting can stop the dispatcher.               *)
WorkedOffUnlessWedged ==
  \A m \in Messages : pc[m] = "inbox" ~> (HasEnded(m) \/ Wedged)

(* Once the listeners are gone the loop returns, unless some worker is     *)
(* wedged.                                                                 *)
LoopReturnsUnlessWedged == closed ~> (loop = "done" \/ Wedged)

(* "restarts generation on the newest message": the worker that interrupts *)
(* another gets to process its message.  Not so: the wake-up can be lost.  *)
InterrupterProceeds ==
  \A m \in Messages : pc[m] = "cancelling" ~> pc[m] = "gate"
=============================================================================
