---------------------------- MODULE AgentSession ----------------------------
(***************************************************************************)
(* The agent's tool loop (run_tool_call_loop) and the two callers that     *)
(* shape its history: the interactive CLI session, which asks its user to  *)
(* approve tool calls and keeps one history over its turns, and a channel  *)
(* worker, which runs one turn that may be cancelled, with hooks.          *)
(*                                                                         *)
(* A tool call is its signature (the tool's name and canonical arguments), *)
(* a message its kind and the round of the loop it comes from.  The system *)
(* prompt, which always comes first and is never dropped, is left out of   *)
(* the history, as are the memory the CLI stores inputs in, progress       *)
(* drafts and traces.  A step ends at an await or a prompt.                *)
(***************************************************************************)
EXTENDS Naturals, Sequences, FiniteSets, FiniteSetsExt, SequencesExt

CONSTANTS
  Tools,          \* names of tools
  Registry,       \* the tools there are; the model may name others
  Responses,      \* the tool calls of one answer of the model
  Rewrites,       \* the calls a hook may put in a call's place
  AutoApprove,    \* autonomy.auto_approve
  AlwaysAsk,      \* autonomy.always_ask
  Exempt,         \* agent.tool_call_dedup_exempt
  MaxIterations,  \* agent.max_tool_iterations
  MaxHistory,     \* agent.max_history_messages
  KeepRecent,     \* COMPACTION_KEEP_RECENT_MESSAGES
  MaxTurns        \* bound: turns of a session

Call == [tool : Tools, args : Nat]

ASSUME AgentAssumption ==
  /\ Registry \cup AutoApprove \cup AlwaysAsk \cup Exempt \subseteq Tools
  /\ Responses \subseteq Seq(Call) \ {<<>>}
  /\ Rewrites \subseteq Call
  /\ {MaxIterations, MaxHistory, MaxTurns} \subseteq Nat \ {0}
  /\ KeepRecent \in Nat

VARIABLES
  mode,       \* "cli" or "channel"
  supervised, \* whether there is an approval manager that prompts
  pc,         \* where the caller or the loop is
  turn, round,
  history,
  seen,       \* seen_tool_signatures
  calls,      \* the calls of the round's answer, as the hooks left them
  native,     \* whether the answer's calls, and so their results, have ids
  parallel,   \* allow_parallel_execution
  gated,      \* calls that went through hooks, approval and deduplication
  outcome,    \* ordered_results: what came of each call, or "none"
  cancelled,  \* the cancellation token
  allowlist,  \* the session's "always" answers
  approved,   \* audit_log: this turn's calls, by round and place, that were
              \*  answered with yes or always
  effects,    \* history variable: this turn's calls that tools carried out
  cleared     \* history variable: the last turn before the last /clear

loop    == <<seen, calls, native, parallel, gated, outcome>>
manager == <<allowlist, approved>>
fixed   == <<mode, supervised>>
vars    == <<fixed, pc, turn, round, history, loop, cancelled, manager, effects, cleared>>

Loop == {"round", "asking", "gating", "executing", "answering"}

(* A call was refused (by a hook, by the user, as a duplicate, or because  *)
(* there is no such tool), or done, well or not, or cut off.               *)
Outcomes == {"none", "refused", "done", "cut"}

(* The assistant's calls, n of them, and the results of those from the     *)
(* n-th on are messages of a round.                                        *)
Message(kind, n, said) == [kind |-> kind, turn |-> turn, round |-> round, n |-> n, said |-> said]

Init ==
  /\ mode \in {"cli", "channel"}
  /\ supervised \in (IF mode = "cli" THEN BOOLEAN ELSE {FALSE})
  /\ pc = "idle"
  /\ turn = 0 /\ round = 0
  /\ history = <<>>
  /\ seen = {}
  /\ calls = <<>> /\ native = FALSE /\ parallel = FALSE /\ gated = 0 /\ outcome = <<>>
  /\ cancelled = FALSE
  /\ allowlist = {} /\ approved = {}
  /\ effects = {}
  /\ cleared = 0

-----------------------------------------------------------------------------
(* approval/mod.rs *)

(* Mutant: a session's "always" outranks always_ask. *)
NeedsApprovalListFirst(tool) == supervised /\ tool \notin allowlist \cup AutoApprove

NeedsApproval(tool) ==
  /\ supervised
  /\ tool \in AlwaysAsk \/ tool \notin AutoApprove \cup allowlist

(* record_decision *)
RecordDecision(k, decision) ==
  /\ allowlist' = IF decision = "always" THEN allowlist \cup {calls[k].tool} ELSE allowlist
  /\ approved' = IF decision = "no" THEN approved ELSE approved \cup {<<round, k>>}

-----------------------------------------------------------------------------
(* The history between turns. *)

(* trim_history *)
Trim(h) == IF Len(h) <= MaxHistory THEN h ELSE SubSeq(h, Len(h) - MaxHistory + 1, Len(h))

(* Mutant: as many recent messages are kept as the history may have. *)
CompactToFull(h) ==
  IF Len(h) <= MaxHistory THEN h
  ELSE <<Message("summary", 0, <<>>)>> \o SubSeq(h, Len(h) - MaxHistory + 1, Len(h))

(* auto_compact_history: the messages before the KeepRecent last ones      *)
(* become one summary, which the model writes or, if it fails, a           *)
(* truncation.                                                             *)
Compact(h) ==
  IF Len(h) <= Max({MaxHistory, KeepRecent}) THEN h
  ELSE <<Message("summary", 0, <<>>)>> \o SubSeq(h, Len(h) - KeepRecent + 1, Len(h))

(* The session reads a message and runs a turn on it; a worker's history   *)
(* is its own.                                                             *)
BeginTurn ==
  /\ pc = "idle" /\ turn < MaxTurns
  /\ pc' = "round"
  /\ turn' = turn + 1
  /\ round' = 0
  /\ history' = Append(history, [kind |-> "user", turn |-> turn + 1, round |-> 0, n |-> 0, said |-> <<>>])
  /\ approved' = {} /\ effects' = {}
  /\ UNCHANGED <<fixed, loop, cancelled, allowlist, cleared>>

(* /clear, confirmed *)
Clear ==
  /\ mode = "cli" /\ pc = "idle" /\ history # <<>>
  /\ history' = <<>>
  /\ cleared' = turn
  /\ UNCHANGED <<fixed, pc, turn, round, loop, cancelled, manager, effects>>

(* /quit, the end of the input, or an error reading it *)
Quit ==
  /\ mode = "cli" /\ pc = "idle"
  /\ pc' = "over"
  /\ UNCHANGED <<fixed, turn, round, history, loop, cancelled, manager, effects, cleared>>

(* After a turn that succeeded; a worker is done with its history. *)
Settle ==
  /\ pc = "settling"
  /\ IF mode = "cli"
     THEN pc' = "idle" /\ history' = Trim(Compact(history))
     ELSE pc' = "over" /\ UNCHANGED history
  /\ UNCHANGED <<fixed, turn, round, loop, cancelled, manager, effects, cleared>>

-----------------------------------------------------------------------------
(* run_tool_call_loop *)

(* Mutant: results are kept for the next round. *)
KeepResults == calls' = <<>> /\ native' = FALSE /\ parallel' = FALSE /\ gated' = 0 /\ UNCHANGED outcome

(* What is local to a round. *)
ForgetCalls == calls' = <<>> /\ native' = FALSE /\ parallel' = FALSE /\ gated' = 0 /\ outcome' = <<>>

(* Err: the CLI prints it and reads on, with the history as it is. *)
Fail ==
  /\ pc' = IF mode = "cli" THEN "idle" ELSE "over"
  /\ seen' = {} /\ ForgetCalls
  /\ UNCHANGED history

(* The channel cancels the turn. *)
Cancel ==
  /\ mode = "channel" /\ pc \in Loop /\ ~cancelled
  /\ cancelled' = TRUE
  /\ UNCHANGED <<fixed, pc, turn, round, history, loop, manager, effects, cleared>>

(* The channel's time is up, or it sees the cancellation before the loop   *)
(* does: the loop is dropped where it awaits.                              *)
Drop ==
  /\ mode = "channel" /\ pc \in Loop
  /\ Fail
  /\ UNCHANGED <<fixed, turn, round, cancelled, manager, effects, cleared>>

(* The top of the loop.  The messages may not suit the model, or hold an   *)
(* image that cannot be prepared.                                          *)
StartRound ==
  /\ pc = "round"
  /\ \/ Fail
     \/ /\ round < MaxIterations /\ ~cancelled
        /\ pc' = "asking"
        /\ UNCHANGED <<history, loop>>
  /\ UNCHANGED <<fixed, turn, round, cancelled, manager, effects, cleared>>

(* should_execute_tools_in_parallel *)
MayRunInParallel(r) == Len(r) > 1 /\ \A k \in DOMAIN r : ~NeedsApproval(r[k].tool)

(* The model answers with tool calls, or with text, or not at all. *)
Answer ==
  /\ pc = "asking"
  /\ \/ Fail
     \/ pc' = "answering" /\ UNCHANGED <<history, loop>>
     \/ \E r \in Responses :
          /\ pc' = "gating"
          /\ calls' = r
          /\ native' \in BOOLEAN
          /\ parallel' = MayRunInParallel(r)
          /\ gated' = 0
          /\ outcome' = [k \in DOMAIN r |-> "none"]
          /\ UNCHANGED <<history, seen>>
  /\ UNCHANGED <<fixed, turn, round, cancelled, manager, effects, cleared>>

(* The text goes out, a channel's in chunks, until a cancellation. *)
Reply ==
  /\ pc = "answering"
  /\ \/ /\ pc' = "settling"
        /\ history' = Append(history, Message("assistant", 0, <<>>))
        /\ seen' = {}
        /\ UNCHANGED <<calls, native, parallel, gated, outcome>>
     \/ cancelled /\ Fail
  /\ UNCHANGED <<fixed, turn, round, cancelled, manager, effects, cleared>>

Refuse(k) == outcome' = [outcome EXCEPT ![k] = "refused"] /\ gated' = k

(* Mutant: a signature is noted when its call has run. *)
AdmitRepeats(k) ==
  IF calls'[k].tool \notin Exempt /\ calls'[k] \in {e.call : e \in effects}
  THEN Refuse(k) /\ UNCHANGED seen
  ELSE gated' = k /\ seen' = seen \cup {calls'[k]} /\ UNCHANGED outcome

(* A call that may run, unless this turn has seen its signature. *)
Admit(k) ==
  IF calls'[k].tool \notin Exempt /\ calls'[k] \in seen
  THEN Refuse(k) /\ UNCHANGED seen
  ELSE /\ gated' = k
       /\ seen' = IF calls'[k].tool \in Exempt THEN seen ELSE seen \cup {calls'[k]}
       /\ UNCHANGED outcome

(* Hooks run where there is a channel: they cancel a call or change it. *)
Hook(k) ==
  /\ mode = "channel"
  /\ \/ Refuse(k) /\ UNCHANGED <<calls, seen>>
     \/ \E c \in Rewrites \cup {calls[k]} : calls' = [calls EXCEPT ![k] = c] /\ Admit(k)
  /\ UNCHANGED manager

(* The CLI's user is asked. *)
Prompt(k) ==
  /\ mode = "cli" /\ NeedsApproval(calls[k].tool)
  /\ UNCHANGED calls
  /\ \E decision \in {"yes", "no", "always"} :
       /\ RecordDecision(k, decision)
       /\ IF decision = "no" THEN Refuse(k) /\ UNCHANGED seen ELSE Admit(k)

GoAhead(k) ==
  /\ mode = "cli" /\ ~NeedsApproval(calls[k].tool)
  /\ UNCHANGED <<calls, manager>>
  /\ Admit(k)

(* Mutant: when the user says no, the model is asked for something else.  *)
GateAsksAgain ==
  /\ pc = "gating" /\ gated < Len(calls)
  /\ \/ /\ Hook(gated + 1) \/ Prompt(gated + 1) \/ GoAhead(gated + 1)
        /\ UNCHANGED <<pc, native, parallel>>
     \/ /\ mode = "cli" /\ NeedsApproval(calls[gated + 1].tool)
        /\ pc' = "asking" /\ ForgetCalls
        /\ UNCHANGED <<seen, manager>>
  /\ UNCHANGED <<fixed, turn, round, history, cancelled, effects, cleared>>

Gate ==
  /\ pc = "gating" /\ gated < Len(calls)
  /\ Hook(gated + 1) \/ Prompt(gated + 1) \/ GoAhead(gated + 1)
  /\ UNCHANGED <<fixed, pc, turn, round, history, native, parallel, cancelled, effects, cleared>>

Execute ==
  /\ pc = "gating" /\ gated = Len(calls)
  /\ pc' = "executing"
  /\ UNCHANGED <<fixed, turn, round, history, loop, cancelled, manager, effects, cleared>>

Pending == {k \in DOMAIN outcome : outcome[k] = "none"}

Cut == \E k \in DOMAIN outcome : outcome[k] = "cut"

(* All at once (join_all), or one after the other up to a cancelled one. *)
Runnable(k) == k \in Pending /\ (parallel \/ (~Cut /\ \A j \in Pending : k <= j))

(* execute_one_tool *)
RunTool ==
  /\ pc = "executing"
  /\ \E k \in DOMAIN outcome :
       /\ Runnable(k)
       /\ \/ /\ calls[k].tool \notin Registry
             /\ outcome' = [outcome EXCEPT ![k] = "refused"]
             /\ UNCHANGED effects
          \/ /\ calls[k].tool \in Registry
             /\ outcome' = [outcome EXCEPT ![k] = "done"]
             /\ effects' = effects \cup {[round |-> round, at |-> k, call |-> calls[k]]}
          \/ /\ calls[k].tool \in Registry /\ cancelled
             /\ outcome' = [outcome EXCEPT ![k] = "cut"]
             /\ UNCHANGED effects
  /\ UNCHANGED <<fixed, pc, turn, round, history, seen, calls, native, parallel, gated,
                 cancelled, manager, cleared>>

(* Mutant: only the calls that were executed have a result. *)
ResultsOfExecuted == SelectSeq(outcome, LAMBDA out : out # "refused")

(* individual_results *)
Results == outcome

(* One message for each result if the calls have ids, else one for all. *)
ResultMessages ==
  IF native
  THEN [k \in DOMAIN Results |-> Message("results", k, <<Results[k]>>)]
  ELSE <<Message("results", 1, Results)>>

(* The round's results are in: they follow the assistant's calls.  A       *)
(* cancelled call fails the turn, once all have ended if they run at once. *)
FinishRound ==
  /\ pc = "executing"
  /\ \/ /\ Cut /\ (parallel => Pending = {})
        /\ Fail
        /\ UNCHANGED round
     \/ /\ Pending = {} /\ ~Cut
        /\ history' = history \o <<Message("calls", Len(calls), <<>>)>> \o ResultMessages
        /\ round' = round + 1
        /\ pc' = "round"
        /\ ForgetCalls
        /\ UNCHANGED seen
  /\ UNCHANGED <<fixed, turn, cancelled, manager, effects, cleared>>

Step == StartRound \/ Answer \/ Reply \/ Gate \/ Execute \/ RunTool \/ FinishRound \/ Settle

Next == BeginTurn \/ Clear \/ Quit \/ Cancel \/ Drop \/ Step

(* The provider and the tools answer, and so does the user who is asked.   *)
Spec == Init /\ [][Next]_vars /\ WF_vars(Step)

-----------------------------------------------------------------------------
Calls == Seq(Call)

Kinds == {"user", "assistant", "calls", "results", "summary"}

(* The values the variables take. *)
TypeOK ==
  /\ mode \in {"cli", "channel"} /\ supervised \in BOOLEAN
  /\ pc \in Loop \cup {"idle", "settling", "over"}
  /\ turn \in 0..MaxTurns /\ round \in 0..MaxIterations /\ cleared \in 0..turn
  /\ \A i \in DOMAIN history : /\ history[i].kind \in Kinds
                               /\ history[i].turn \in 1..turn
                               /\ history[i].round \in 0..MaxIterations
  /\ calls \in Calls /\ seen \subseteq Call
  /\ <<native, parallel, cancelled>> \in BOOLEAN \X BOOLEAN \X BOOLEAN
  /\ outcome \in Seq(Outcomes) /\ Len(outcome) = Len(calls) /\ gated \in 0..Len(calls)
  /\ allowlist \subseteq Tools
  /\ approved \subseteq Nat \X Nat
  /\ effects \subseteq [round : 0..MaxIterations, at : Nat \ {0}, call : Call]

SameRound(h, i, j) == h[i].turn = h[j].turn /\ h[i].round = h[j].round

AllAnswered(h, i) ==
  /\ i + 1 \in DOMAIN h /\ SameRound(h, i, i + 1) /\ h[i + 1].kind = "results"
  /\ \/ Len(h[i + 1].said) = h[i].n
     \/ \A k \in 1..h[i].n : /\ i + k \in DOMAIN h /\ SameRound(h, i, i + k)
                             /\ h[i + k].kind = "results" /\ h[i + k].n = k

FollowsCall(h, i) ==
  \/ i = 1 \/ h[i - 1].kind = "summary"
  \/ SameRound(h, i, i - 1) /\ h[i - 1].kind \in {"calls", "results"}

Whole(h) == \A i \in DOMAIN h : /\ h[i].kind = "calls" => AllAnswered(h, i)
                                /\ h[i].kind = "results" => FollowsCall(h, i)

(* A message with tool calls is followed by the result of each of its      *)
(* calls, once and in their order, whichever of them ended first, were     *)
(* refused, or came to nothing because the turn was cancelled; and, except *)
(* where the history was cut, every result follows its call.               *)
ResultsWhole == Whole(history)

(* A tool that needs the user's approval runs only if this very call was   *)
(* approved, or an earlier one for the session; always_ask admits no       *)
(* approval for the session.                                               *)
RunsAreApproved ==
  supervised =>
    \A e \in effects :
      \/ <<e.round, e.at>> \in approved
      \/ e.call.tool \notin AlwaysAsk /\ e.call.tool \in AutoApprove \cup allowlist

(* A tool carries out the same call at most once in a turn, in one answer  *)
(* or over several, before and after hooks change it.                      *)
OncePerTurn ==
  \A e, f \in effects : e.call = f.call /\ e.call.tool \notin Exempt => e = f

ResultsOf(i, rd) ==
  history[i].kind = "results" /\ history[i].turn = turn /\ history[i].round = rd

Told(i, k) ==
  LET at == 1 + k - history[i].n IN at \in DOMAIN history[i].said /\ history[i].said[at] = "done"

(* What tools did is in the history, at the call's place: nothing that was *)
(* done is left out or told of another call, and nothing that was not done *)
(* is told as done.  Only a cancelled round may have done what is not told.*)
EffectsAreTold ==
  pc \in Loop \cup {"settling"} =>
    /\ \A e \in effects : e.round < round => \E i \in DOMAIN history : ResultsOf(i, e.round) /\ Told(i, e.at)
    /\ \A rd \in 0..(round - 1), i \in DOMAIN history : ResultsOf(i, rd) =>
         \A at \in DOMAIN history[i].said : history[i].said[at] = "done" =>
           \E e \in effects : e.round = rd /\ e.at = history[i].n + at - 1

(* Between turns, the history goes back to the first message since the     *)
(* last /clear, or begins with a summary of what is gone.                  *)
NothingForgotten ==
  history # <<>> /\ KeepRecent < MaxHistory =>
    \/ history[1].kind = "summary"
    \/ history[1].kind = "user" /\ history[1].turn = cleared + 1

(* A turn ends, even if the model calls tools again and again.             *)
TurnEnds == pc \in Loop ~> pc \in {"idle", "settling", "over"}
=============================================================================
