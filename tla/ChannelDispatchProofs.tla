----------------------- MODULE ChannelDispatchProofs -----------------------
(***************************************************************************)
(* Theorems about ChannelDispatch, for every set of messages, scopes and   *)
(* keys and every number of permits.                                       *)
(***************************************************************************)
EXTENDS ChannelDispatch, TLAPS

(* Every step of the loop and of a worker keeps the variables' types.  The *)
(* history operators are not opened: only their presence in a step is seen.*)
LEMMA CoreTypeInductive ==
  /\ Init => CoreTypeOK
  /\ CoreTypeOK /\ [Next]_vars => CoreTypeOK'
<1> USE DispatchAssumption DEF DispatchAssumption, CoreTypeOK, PCs, Waiting, Processing, Over, Outcomes, Goto, Step, Ended
<1>1. Init => CoreTypeOK
  <2> SUFFICES ASSUME Init PROVE CoreTypeOK
    OBVIOUS
  <2>1. sent \in Seq(Messages)
    BY DEF Init
  <2>2. permits \in Nat /\ pc \in [Messages -> PCs] /\ outcome \in [Messages -> Outcomes]
    BY DEF Init
  <2>3. active \in [Scopes -> Interrupting \cup {None}] /\ prev \in [Messages -> Interrupting \cup {None}]
    BY DEF Init
  <2> QED BY <2>1, <2>2, <2>3 DEF Init
<1>2. CoreTypeOK /\ [Next]_vars => CoreTypeOK'
  <2> SUFFICES ASSUME CoreTypeOK, [Next]_vars PROVE CoreTypeOK'
    OBVIOUS
  <2>1. CASE UNCHANGED vars
    BY <2>1 DEF vars, loopVars, queueVars, chatVars
  <2>2. CASE CloseInbox \/ LoopReturns
    BY <2>2 DEF CloseInbox, LoopReturns, loopVars, queueVars, chatVars
  <2>3. ASSUME NEW m \in Messages, Deliver(m) PROVE CoreTypeOK'
    BY <2>3 DEF Deliver, loopVars, queueVars, chatVars
  <2>4. ASSUME NEW m \in Messages, Panic(m) PROVE CoreTypeOK'
    BY <2>4 DEF Panic, loopVars, queueVars, chatVars
  <2>5. ASSUME NEW m \in Messages, LoopStep(m) PROVE CoreTypeOK'
    BY <2>5 DEF LoopStep, Receive, Spawn, loopVars, queueVars, chatVars
  <2>6. ASSUME NEW m \in Messages, Start(m) PROVE CoreTypeOK'
    <3>1. CASE StartUntracked(m) \/ CheckDone(m) \/ RegisterWaiter(m) 
      BY <2>6, <3>1 DEF StartUntracked, CheckDone, RegisterWaiter, loopVars, queueVars, chatVars
    <3>2. CASE InsertEntry(m)
      BY <3>2 DEF InsertEntry, InScope, loopVars, queueVars, chatVars
    <3>3. CASE CancelPrevious(m)
      BY <3>3 DEF CancelPrevious, loopVars, queueVars, chatVars
    <3> QED BY <2>6, <3>1, <3>2, <3>3 DEF Start
  <2>7. ASSUME NEW m \in Messages, Admit(m) PROVE CoreTypeOK'
    BY <2>7 DEF Admit, EnterProcessing, TurnAway, RunNewSession, AppendUserTurn, StartGenerating,
                loopVars, queueVars, chatVars
  <2>8. ASSUME NEW m \in Messages, Generate(m) PROVE CoreTypeOK'
    BY <2>8 DEF Generate, ObserveCancellation, EndGeneration, loopVars, queueVars, chatVars
  <2>9. ASSUME NEW m \in Messages, Settle(m) PROVE CoreTypeOK'
    <3>1. CASE SettleCancelled(m)
      BY <3>1 DEF SettleCancelled, TidyChat, loopVars, queueVars
    <3>2. CASE SettleWithheld(m)
      BY <3>2 DEF SettleWithheld, loopVars, queueVars
    <3>3. CASE SettleReply(m) \/ SettleOverflow(m) \/ SettleTimeout(m)
      BY <3>3 DEF SettleReply, SettleOverflow, SettleTimeout, TidyChat, loopVars, queueVars
    <3>4. CASE SettleFailure(m)
      <4>1. Step(m, "settling", "leaving") /\ TidyChat(m) /\ UNCHANGED <<loopVars, queueVars, outcome>>
        BY <3>4 DEF SettleFailure
      <4> QED BY <4>1 DEF TidyChat, loopVars, queueVars
    <3> QED BY <2>9, <3>1, <3>2, <3>3, <3>4 DEF Settle
  <2>10. ASSUME NEW m \in Messages, Finish(m) PROVE CoreTypeOK'
    BY <2>10 DEF Finish, RemoveEntry, StoreDone, NotifyWaiters, loopVars, queueVars, chatVars
  <2> QED BY <2>1, <2>2, <2>3, <2>4, <2>5, <2>6, <2>7, <2>8, <2>9, <2>10 DEF Next, Progress
<1> QED BY <1>1, <1>2

(* The core of the type invariant: which values the dispatcher's variables *)
(* take, and that a worker that waits has somebody to wait for.  (The      *)
(* histories' values are in DispatchHistoryProofs.)                        *)
THEOREM CoreTypeCorrect == Spec => []CoreTypeOK
BY CoreTypeInductive, PTL DEF Spec

-----------------------------------------------------------------------------
(* The steps that preserve LaneInv, one lemma for each way in which a step *)
(* can disturb it.                                                         *)

(* A step inside the loop or inside process_channel_message.               *)
LEMMA QuietStep ==
  ASSUME LaneInv, CoreTypeOK', UNCHANGED queueVars,
         NEW m \in Messages, NEW k, pc' = [pc EXCEPT ![m] = k],
         \/ pc[m] \in BeforeStart /\ k \in BeforeStart
         \/ pc[m] \in Processing /\ k \in Processing
  PROVE  LaneInv'
<1> USE DEF queueVars, LaneInv, CoreTypeOK, PCs, Waiting, Processing, Over, BeforeStart
<1>1. \A s \in Scopes : InScope(s)' = InScope(s)
  BY DEF InScope
<1>2. ServedAfterAhead'
  BY DEF ServedAfterAhead, FlagsAreSetInOrder
<1>3. EntryIsNewest' /\ EntryIsPresent' /\ ScopeIsOrdered'
  BY <1>1 DEF EntryIsNewest, EntryIsPresent, ScopeIsOrdered
<1>4. PredecessorIsLast'
  BY DEF PredecessorIsLast
<1>5. ReplacedOnce'
  BY DEF ReplacedOnce
<1>6. FlagsAreSetInOrder'
  BY DEF FlagsAreSetInOrder
<1>7. CancelledIffSuperseded'
  BY <1>1 DEF CancelledIffSuperseded
<1> QED BY <1>2, <1>3, <1>4, <1>5, <1>6, <1>7
(* A worker that is not tracked starts: it has nobody ahead.               *)
LEMMA StartUntrackedStep ==
  ASSUME LaneInv, CoreTypeOK', NEW m \in Messages, StartUntracked(m)
  PROVE  LaneInv'
<1> USE DEF queueVars, LaneInv, CoreTypeOK, PCs, Waiting, Processing, Over, BeforeStart, StartUntracked,
            Step, Goto
<1>1. \A s \in Scopes : InScope(s)' = InScope(s)
  BY DEF InScope
<1>2. ServedAfterAhead'
  BY DEF ServedAfterAhead, FlagsAreSetInOrder
<1>3. EntryIsNewest' /\ EntryIsPresent' /\ ScopeIsOrdered'
  BY <1>1 DEF EntryIsNewest, EntryIsPresent, ScopeIsOrdered
<1>4. PredecessorIsLast' /\ ReplacedOnce' /\ FlagsAreSetInOrder'
  BY DEF PredecessorIsLast, ReplacedOnce, FlagsAreSetInOrder
<1>5. CancelledIffSuperseded'
  BY <1>1 DEF CancelledIffSuperseded
<1> QED BY <1>2, <1>3, <1>4, <1>5

(* A worker enters its scope.  If the map had no entry for it the scope is *)
(* empty; otherwise the entry's worker is behind everybody else.           *)
LEMMA InsertEntryStep ==
  ASSUME LaneInv, CoreTypeOK', NEW m \in Messages, InsertEntry(m)
  PROVE  LaneInv'
<1> DEFINE t == Scope[m]
<1> USE DispatchAssumption DEF DispatchAssumption, LaneInv, CoreTypeOK, PCs, Waiting, Processing, Over, BeforeStart
<1>1. /\ m \in Interrupting /\ t \in Scopes
      /\ pc[m] = "spawned"
      /\ pc' = [pc EXCEPT ![m] = IF active[t] = None THEN "gate" ELSE "cancelling"]
      /\ active' = [active EXCEPT ![t] = m]
      /\ prev' = [prev EXCEPT ![m] = active[t]]
      /\ ahead' = [ahead EXCEPT ![m] = InScope(t)]
      /\ UNCHANGED <<cancelled, done>>
  BY DEF InsertEntry, Step, Goto
<1>2. InScope(t)' = InScope(t) \cup {m}
  BY <1>1 DEF InScope
<1>3. \A s \in Scopes : s # t => InScope(s)' = InScope(s)
  BY <1>1 DEF InScope
<1>4. active[t] = None => InScope(t) = {}
  BY <1>1 DEF EntryIsNewest
<1>5. active[t] # None => active[t] \in InScope(t) /\ active[t] # m
  BY <1>1 DEF EntryIsPresent, InScope
<1>6. \A v \in Messages : v # m => pc'[v] = pc[v] /\ prev'[v] = prev[v] /\ ahead'[v] = ahead[v]
  BY <1>1
<1>7. pc'[m] \in {"gate", "cancelling"} /\ prev'[m] = active[t] /\ ahead'[m] = InScope(t)
  BY <1>1
<1>8. ServedAfterAhead'
  BY <1>1, <1>4, <1>6, <1>7 DEF ServedAfterAhead
<1>9. EntryIsNewest'
  BY <1>1, <1>2, <1>3, <1>6, <1>7 DEF EntryIsNewest, EntryIsPresent, InScope
<1>10. EntryIsPresent'
  BY <1>1, <1>2, <1>3 DEF EntryIsPresent, InScope
<1>11. PredecessorIsLast'
  <2> SUFFICES ASSUME NEW v \in Messages, pc'[v] \in Waiting, NEW w \in ahead'[v]
               PROVE  w = prev'[v] \/ w \in ahead'[prev'[v]]
    BY DEF PredecessorIsLast
  <2>1. CASE v = m
    BY <2>1, <1>1, <1>4, <1>5, <1>6, <1>7 DEF EntryIsNewest, InScope
  <2>2. CASE v # m
    <3>1. prev[v] \in Messages /\ pc[prev[v]] \notin BeforeStart
      BY <2>2, <1>6 DEF ReplacedOnce
    <3> QED BY <2>2, <3>1, <1>1, <1>6 DEF PredecessorIsLast
  <2> QED BY <2>1, <2>2
<1>12. ScopeIsOrdered'
  BY <1>2, <1>3, <1>6, <1>7 DEF ScopeIsOrdered, InScope
<1>13. ReplacedOnce'
  <2>1. active[t] # None => \A v \in Messages : prev[v] # active[t]
    BY <1>1 DEF ReplacedOnce
  <2>2. \A s \in Scopes : s # t /\ active[t] # None => active[s] # active[t]
    BY <1>1, <1>5 DEF EntryIsPresent, InScope
  <2> SUFFICES ASSUME NEW v \in Messages, prev'[v] # None
               PROVE  /\ prev'[v] \in Messages
                      /\ pc'[prev'[v]] \notin BeforeStart
                      /\ \A s \in Scopes : active'[s] # prev'[v]
                      /\ \A w \in Messages : prev'[w] = prev'[v] => w = v
    BY DEF ReplacedOnce
  <2>3. CASE v = m
    BY <2>1, <2>2, <2>3, <1>1, <1>5, <1>6, <1>7 DEF InScope
  <2>4. CASE v # m
    BY <2>1, <2>4, <1>1, <1>6, <1>7 DEF ReplacedOnce
  <2> QED BY <2>3, <2>4
<1>14. FlagsAreSetInOrder'
  BY <1>1, <1>6, <1>7 DEF FlagsAreSetInOrder
<1>15. CancelledIffSuperseded'
  <2> SUFFICES ASSUME NEW s \in Scopes, NEW u \in InScope(s)'
               PROVE  IF u = active'[s]
                      THEN u \notin cancelled'
                      ELSE u \in cancelled' \/ \E w \in Messages : pc'[w] = "cancelling" /\ prev'[w] = u
    BY DEF CancelledIffSuperseded
  <2>1. m \notin cancelled
    BY <1>1 DEF FlagsAreSetInOrder
  <2>2. CASE s # t
    <3>1. u \in InScope(s) /\ active'[s] = active[s]
      BY <2>2, <1>1, <1>3
    <3> QED BY <2>2, <3>1, <1>1, <1>6 DEF CancelledIffSuperseded
  <2>3. CASE s = t /\ u = m
    BY <2>1, <2>3, <1>1
  <2>4. CASE s = t /\ u # m /\ u = active[t]
    BY <2>4, <1>1, <1>5, <1>7 DEF InScope
  <2>5. CASE s = t /\ u # m /\ u # active[t]
    <3>1. u \in InScope(t)
      BY <2>5, <1>2
    <3> QED BY <2>5, <3>1, <1>1, <1>6 DEF CancelledIffSuperseded
  <2> QED BY <2>2, <2>3, <2>4, <2>5
<1> QED BY <1>8, <1>9, <1>10, <1>11, <1>12, <1>13, <1>14, <1>15
(* A worker cancels the one it replaced, which is not the newest.          *)
LEMMA CancelPreviousStep ==
  ASSUME LaneInv, CoreTypeOK', NEW m \in Messages, CancelPrevious(m)
  PROVE  LaneInv'
<1> USE DispatchAssumption DEF DispatchAssumption, LaneInv, CoreTypeOK, PCs, Waiting, Processing, Over, BeforeStart
<1>1. /\ pc[m] = "cancelling" /\ pc' = [pc EXCEPT ![m] = "checking"]
      /\ cancelled' = cancelled \cup {prev[m]}
      /\ UNCHANGED <<active, prev, done, ahead>>
  BY DEF CancelPrevious, Step, Goto
<1>2. \A s \in Scopes : InScope(s)' = InScope(s)
  BY <1>1 DEF InScope
<1>3. prev[m] \in Messages /\ pc[prev[m]] \notin BeforeStart /\ \A s \in Scopes : active[s] # prev[m]
  BY <1>1 DEF ReplacedOnce
<1>4. ServedAfterAhead' /\ PredecessorIsLast'
  BY <1>1 DEF ServedAfterAhead, PredecessorIsLast
<1>5. EntryIsNewest' /\ EntryIsPresent' /\ ScopeIsOrdered'
  BY <1>1, <1>2 DEF EntryIsNewest, EntryIsPresent, ScopeIsOrdered
<1>6. ReplacedOnce'
  BY <1>1 DEF ReplacedOnce
<1>7. FlagsAreSetInOrder'
  BY <1>1, <1>3 DEF FlagsAreSetInOrder
<1>8. CancelledIffSuperseded'
  <2> SUFFICES ASSUME NEW s \in Scopes, NEW u \in InScope(s)
               PROVE  IF u = active[s]
                      THEN u \notin cancelled'
                      ELSE u \in cancelled' \/ \E w \in Messages : pc'[w] = "cancelling" /\ prev[w] = u
    BY <1>1, <1>2 DEF CancelledIffSuperseded
  <2>1. CASE u = active[s]
    BY <2>1, <1>1, <1>3 DEF CancelledIffSuperseded
  <2>2. CASE u # active[s]
    <3>1. u \in cancelled \/ \E w \in Messages : pc[w] = "cancelling" /\ prev[w] = u
      BY <2>2 DEF CancelledIffSuperseded
    <3> QED BY <2>2, <3>1, <1>1
  <2> QED BY <2>1, <2>2
<1> QED BY <1>4, <1>5, <1>6, <1>7, <1>8

(* Workers that stop waiting or wait on: those who leave Waiting find that *)
(* their predecessor is over.  NotifyWaiters may also end one worker.      *)
LEMMA WaitingStep ==
  ASSUME LaneInv, CoreTypeOK', UNCHANGED queueVars,
         \A v \in Messages :
           \/ pc'[v] = pc[v]
           \/ pc[v] = "notifying" /\ pc'[v] = "finished"
           \/ pc[v] = "checking" /\ pc'[v] = "unregistered"
           \/ pc[v] = "unregistered" /\ pc'[v] = "parked"
           \/ pc[v] \in {"checking", "parked"} /\ pc'[v] = "gate" /\ prev[v] \in done
  PROVE  LaneInv'
<1> USE DispatchAssumption DEF DispatchAssumption, queueVars, LaneInv, CoreTypeOK, PCs, Waiting, Processing, Over, BeforeStart
<1>1. \A s \in Scopes : InScope(s)' = InScope(s)
  BY DEF InScope
<1>2. \A v \in Messages : pc[v] \in Over => pc'[v] \in Over
  OBVIOUS
<1>3. ServedAfterAhead'
  <2> SUFFICES ASSUME NEW v \in Messages, pc'[v] \in Processing \cup Over \cup {"crashed"}, NEW w \in ahead[v]
               PROVE  pc'[w] \in Over
    BY DEF ServedAfterAhead
  <2>1. CASE pc[v] \in Processing \cup Over \cup {"crashed"}
    BY <2>1, <1>2 DEF ServedAfterAhead
  <2>2. CASE pc[v] \in {"checking", "parked"} /\ prev[v] \in done
    <3>1. w = prev[v] \/ w \in ahead[prev[v]]
      BY <2>2 DEF PredecessorIsLast
    <3>2. pc[prev[v]] \in Over
      BY <2>2 DEF FlagsAreSetInOrder
    <3>3. pc[w] \in Over
      BY <2>2, <3>1, <3>2 DEF ServedAfterAhead
    <3> QED BY <3>3, <1>2
  <2> QED BY <2>1, <2>2
<1>4. EntryIsNewest' /\ EntryIsPresent' /\ ScopeIsOrdered'
  BY <1>1 DEF EntryIsNewest, EntryIsPresent, ScopeIsOrdered
<1>5. PredecessorIsLast' /\ ReplacedOnce'
  BY DEF PredecessorIsLast, ReplacedOnce
<1>6. FlagsAreSetInOrder'
  BY DEF FlagsAreSetInOrder
<1>7. CancelledIffSuperseded'
  <2>1. \A w \in Messages : pc[w] = "cancelling" => pc'[w] = "cancelling"
    OBVIOUS
  <2> QED BY <1>1, <2>1 DEF CancelledIffSuperseded
<1> QED BY <1>3, <1>4, <1>5, <1>6, <1>7

(* A crash leaves the entry where it is, and the crashed worker in the     *)
(* scope.                                                                  *)
LEMMA PanicStep ==
  ASSUME LaneInv, CoreTypeOK', NEW m \in Messages, Panic(m)
  PROVE  LaneInv'
<1> USE DEF LaneInv, CoreTypeOK, PCs, Waiting, Processing, Over, BeforeStart
<1>1. pc[m] \in Processing /\ pc' = [pc EXCEPT ![m] = "crashed"] /\ UNCHANGED <<active, prev, cancelled, done, ahead>>
  BY DEF Panic, Goto, queueVars
<1>2. \A s \in Scopes : InScope(s)' = InScope(s)
  BY <1>1 DEF InScope
<1>3. ServedAfterAhead' /\ PredecessorIsLast'
  BY <1>1 DEF ServedAfterAhead, PredecessorIsLast
<1>4. EntryIsNewest' /\ EntryIsPresent' /\ ScopeIsOrdered'
  BY <1>1, <1>2 DEF EntryIsNewest, EntryIsPresent, ScopeIsOrdered
<1>5. ReplacedOnce' /\ FlagsAreSetInOrder'
  BY <1>1 DEF ReplacedOnce, FlagsAreSetInOrder
<1>6. CancelledIffSuperseded'
  BY <1>1, <1>2 DEF CancelledIffSuperseded
<1> QED BY <1>3, <1>4, <1>5, <1>6

(* A worker leaves its scope.  Those ahead of it have left, so the scope   *)
(* is empty if its entry was still the scope's.                            *)
LEMMA RemoveEntryStep ==
  ASSUME LaneInv, CoreTypeOK', NEW m \in Messages, RemoveEntry(m)
  PROVE  LaneInv'
<1> USE DispatchAssumption DEF DispatchAssumption, LaneInv, CoreTypeOK, PCs, Waiting, Processing, Over, BeforeStart
<1>1. /\ pc[m] = "leaving" /\ pc' = [pc EXCEPT ![m] = "finishing"]
      /\ UNCHANGED <<prev, cancelled, done, ahead>>
      /\ \A s \in Scopes : active'[s] = IF m \in Interrupting /\ s = Scope[m] /\ active[s] = m
                                        THEN None ELSE active[s]
  BY DEF RemoveEntry, Step, Goto
<1>2. \A s \in Scopes : InScope(s)' = InScope(s) \ {m}
  BY <1>1 DEF InScope
<1>3. \A s \in Scopes : active[s] = m => m \in Interrupting /\ s = Scope[m] /\ InScope(s) = {m}
  <2> SUFFICES ASSUME NEW s \in Scopes, active[s] = m
               PROVE  m \in Interrupting /\ s = Scope[m] /\ InScope(s) = {m}
    OBVIOUS
  <2>1. m \in InScope(s)
    BY DEF EntryIsPresent
  <2>2. \A u \in InScope(s) : u = m
    BY <1>1, <2>1 DEF EntryIsNewest, ServedAfterAhead, InScope
  <2> QED BY <2>1, <2>2 DEF InScope
<1>4. ServedAfterAhead'
  BY <1>1 DEF ServedAfterAhead
<1>5. EntryIsNewest' /\ EntryIsPresent' /\ ScopeIsOrdered'
  <2>1. EntryIsNewest'
    BY <1>1, <1>2, <1>3 DEF EntryIsNewest
  <2>2. EntryIsPresent'
    BY <1>1, <1>2, <1>3 DEF EntryIsPresent
  <2>3. ScopeIsOrdered'
    BY <1>1, <1>2 DEF ScopeIsOrdered
  <2> QED BY <2>1, <2>2, <2>3
<1>6. PredecessorIsLast' /\ ReplacedOnce' /\ FlagsAreSetInOrder'
  BY <1>1 DEF PredecessorIsLast, ReplacedOnce, FlagsAreSetInOrder
<1>7. CancelledIffSuperseded'
  <2> SUFFICES ASSUME NEW s \in Scopes, NEW u \in InScope(s) \ {m}
               PROVE  IF u = active'[s]
                      THEN u \notin cancelled
                      ELSE u \in cancelled \/ \E w \in Messages : pc'[w] = "cancelling" /\ prev[w] = u
    BY <1>1, <1>2 DEF CancelledIffSuperseded
  <2>1. active[s] # m /\ active'[s] = active[s]
    BY <1>1, <1>3
  <2>2. IF u = active[s]
        THEN u \notin cancelled
        ELSE u \in cancelled \/ \E w \in Messages : pc[w] = "cancelling" /\ prev[w] = u
    BY DEF CancelledIffSuperseded
  <2> QED BY <1>1, <2>1, <2>2
<1> QED BY <1>4, <1>5, <1>6, <1>7

(* mark_done stores the flag of a worker that has left its scope.          *)
LEMMA StoreDoneStep ==
  ASSUME LaneInv, CoreTypeOK', NEW m \in Messages, StoreDone(m)
  PROVE  LaneInv'
<1> USE DEF LaneInv, CoreTypeOK, PCs, Waiting, Processing, Over, BeforeStart
<1>1. /\ pc[m] = "finishing" /\ pc' = [pc EXCEPT ![m] = "notifying"]
      /\ done' = done \cup {m}
      /\ UNCHANGED <<active, prev, cancelled, ahead>>
  BY DEF StoreDone, Step, Goto
<1>2. \A s \in Scopes : InScope(s)' = InScope(s)
  BY <1>1 DEF InScope
<1>3. ServedAfterAhead' /\ PredecessorIsLast'
  BY <1>1 DEF ServedAfterAhead, PredecessorIsLast
<1>4. EntryIsNewest' /\ EntryIsPresent' /\ ScopeIsOrdered'
  BY <1>1, <1>2 DEF EntryIsNewest, EntryIsPresent, ScopeIsOrdered
<1>5. ReplacedOnce' /\ FlagsAreSetInOrder'
  BY <1>1 DEF ReplacedOnce, FlagsAreSetInOrder
<1>6. CancelledIffSuperseded'
  BY <1>1, <1>2 DEF CancelledIffSuperseded
<1> QED BY <1>3, <1>4, <1>5, <1>6

(* Initially no worker has started, and every scope is empty.              *)
LEMMA LaneInvInit == Init => LaneInv
<1> SUFFICES ASSUME Init PROVE LaneInv
  OBVIOUS
<1>1. CoreTypeOK
  BY CoreTypeInductive
<1>2. \A s \in Scopes : InScope(s) = {}
  BY DispatchAssumption DEF DispatchAssumption, Init, InScope, Waiting, Processing
<1> QED
  BY <1>1, <1>2 DEF Init, LaneInv, ServedAfterAhead, EntryIsNewest, PredecessorIsLast, EntryIsPresent,
     ScopeIsOrdered, ReplacedOnce, FlagsAreSetInOrder, CancelledIffSuperseded,
     BeforeStart, Waiting, Processing, Over

(* LaneInv is inductive: one case for each lemma above.                    *)
LEMMA LaneInvInductive == LaneInv /\ [Next]_vars => LaneInv'
<1> SUFFICES ASSUME LaneInv, [Next]_vars PROVE LaneInv'
  OBVIOUS
<1>1. CoreTypeOK'
  BY CoreTypeInductive DEF LaneInv
<1>2. CASE UNCHANGED <<pc, queueVars>>
  <2>1. \A s \in Scopes : InScope(s)' = InScope(s)
    BY <1>2 DEF InScope
  <2> QED
    BY <1>1, <1>2, <2>1 DEF queueVars, LaneInv, ServedAfterAhead, EntryIsNewest, PredecessorIsLast,
       EntryIsPresent, ScopeIsOrdered, ReplacedOnce, FlagsAreSetInOrder, CancelledIffSuperseded
<1>3. ASSUME NEW m \in Messages, Deliver(m) \/ LoopStep(m) PROVE LaneInv'
  <2>1. \E k \in BeforeStart : pc[m] \in BeforeStart /\ pc' = [pc EXCEPT ![m] = k] /\ UNCHANGED queueVars
    BY <1>3 DEF Deliver, LoopStep, Receive, Spawn, Step, Goto, BeforeStart
  <2> QED BY <1>1, <2>1, QuietStep
<1>4. ASSUME NEW m \in Messages, Admit(m) \/ Generate(m) \/ Settle(m) PROVE LaneInv'
  <2>1. \E k \in Processing : pc[m] \in Processing /\ pc' = [pc EXCEPT ![m] = k] /\ UNCHANGED queueVars
    <3>1. CASE Admit(m)
      BY <3>1 DEF Admit, EnterProcessing, TurnAway, RunNewSession, AppendUserTurn, StartGenerating,
                  Step, Goto, Processing
    <3>2. CASE Generate(m)
      BY <3>2 DEF Generate, ObserveCancellation, EndGeneration, Step, Goto, Processing
    <3>3. CASE Settle(m)
      BY <3>3 DEF Settle, SettleCancelled, SettleWithheld, SettleReply, SettleOverflow, SettleFailure,
                  SettleTimeout, Step, Goto, Processing
    <3> QED BY <1>4, <3>1, <3>2, <3>3
  <2> QED BY <1>1, <2>1, QuietStep
<1>5. ASSUME NEW m \in Messages, CheckDone(m) \/ RegisterWaiter(m) \/ NotifyWaiters(m) PROVE LaneInv'
  <2>1. UNCHANGED queueVars
    BY <1>5 DEF CheckDone, RegisterWaiter, NotifyWaiters
  <2>2. \A v \in Messages :
           \/ pc'[v] = pc[v]
           \/ pc[v] = "notifying" /\ pc'[v] = "finished"
           \/ pc[v] = "checking" /\ pc'[v] = "unregistered"
           \/ pc[v] = "unregistered" /\ pc'[v] = "parked"
           \/ pc[v] \in {"checking", "parked"} /\ pc'[v] = "gate" /\ prev[v] \in done
    <3> USE DEF LaneInv, CoreTypeOK
    <3>1. CASE CheckDone(m) \/ RegisterWaiter(m)
      BY <3>1 DEF CheckDone, RegisterWaiter, Step, Goto
    <3>2. CASE NotifyWaiters(m)
      BY <3>2 DEF NotifyWaiters, Parked, FlagsAreSetInOrder
    <3> QED BY <1>5, <3>1, <3>2
  <2> QED BY <1>1, <2>1, <2>2, WaitingStep
<1>6. ASSUME NEW m \in Messages, Start(m) PROVE LaneInv'
  BY <1>1, <1>5, <1>6, StartUntrackedStep, InsertEntryStep, CancelPreviousStep DEF Start
<1>7. ASSUME NEW m \in Messages, Finish(m) PROVE LaneInv'
  BY <1>1, <1>5, <1>7, RemoveEntryStep, StoreDoneStep DEF Finish
<1>8. ASSUME NEW m \in Messages, Panic(m) PROVE LaneInv'
  BY <1>1, <1>8, PanicStep
<1>9. CASE CloseInbox \/ LoopReturns \/ UNCHANGED vars
  BY <1>2, <1>9 DEF CloseInbox, LoopReturns, vars
<1> QED BY <1>3, <1>4, <1>6, <1>7, <1>8, <1>9 DEF Next, Progress

(* The strengthened invariant: order within a scope, the map's entries, the*)
(* completions and the tokens agree in every reachable state.              *)
THEOREM LaneInvariant == Spec => []LaneInv
BY LaneInvInit, LaneInvInductive, PTL DEF Spec

-----------------------------------------------------------------------------
(* At most one interrupting worker of a scope is inside                    *)
(* process_channel_message, for any number of messages, scopes, permits    *)
(* and panics: of two workers in a scope one is ahead of the other, and    *)
(* nobody is served before all ahead of it have left.                      *)
THEOREM SerialPerScopeCorrect == Spec => []SerialPerScope
<1>1. LaneInv => SerialPerScope
  <2> SUFFICES ASSUME LaneInv, NEW u \in Interrupting, NEW v \in Interrupting, u # v, Scope[u] = Scope[v],
                      pc[u] \in Processing, pc[v] \in Processing
               PROVE  FALSE
    BY DEF SerialPerScope
  <2>1. u \in InScope(Scope[u]) /\ v \in InScope(Scope[u])
    BY DEF InScope
  <2>2. u \in ahead[v] \/ v \in ahead[u]
    BY <2>1, DispatchAssumption DEF DispatchAssumption, LaneInv, ScopeIsOrdered
  <2>3. pc[u] \in Over \/ pc[v] \in Over
    BY <2>2, DispatchAssumption DEF DispatchAssumption, LaneInv, ServedAfterAhead
  <2> QED BY <2>3 DEF Processing, Over
<1> QED BY <1>1, LaneInvariant, PTL

(* The map's entry is the newest worker's, for every instance.             *)
THEOREM EntryIsNewestCorrect == Spec => []EntryIsNewest
<1>1. LaneInv => EntryIsNewest
  BY DEF LaneInv
<1> QED BY <1>1, LaneInvariant, PTL

(* Exactly the superseded workers are cancelled, for every instance.       *)
THEOREM CancelledCorrect == Spec => []CancelledIffSuperseded
<1>1. LaneInv => CancelledIffSuperseded
  BY DEF LaneInv
<1> QED BY <1>1, LaneInvariant, PTL
-----------------------------------------------------------------------------
(* Refinement. *)

(* Every program counter has a stage, and the early ones are idle.         *)
LEMMA StageValues ==
  ASSUME CoreTypeOK, NEW m \in Messages
  PROVE  /\ (StageOf(m) = "idle")   <=> (pc[m] \in BeforeStart)
         /\ (StageOf(m) = "queued") <=> (pc[m] \in Waiting)
         /\ (StageOf(m) = "served") <=> (pc[m] \in Processing)
         /\ (StageOf(m) = "over")   <=> (pc[m] \in Over)
         /\ (StageOf(m) = "jammed") <=> (pc[m] = "crashed")
BY DEF CoreTypeOK, PCs, StageOf, BeforeStart, Waiting, Processing, Over

(* A lane holds what the scope holds; that of any other message only the   *)
(* message itself.                                                         *)
LEMMA LaneIsScope ==
  ASSUME CoreTypeOK, NEW m \in Messages
  PROVE  Lanes!InLane(m) =
           IF m \in Interrupting THEN InScope(Scope[m])
           ELSE {v \in {m} : StageOf(v) \in {"queued", "served", "jammed"}}
<1>1. \A v \in Messages : StageOf(v) \in {"queued", "served", "jammed"}
                           <=> pc[v] \in Waiting \cup Processing \cup {"crashed"}
  BY StageValues
<1>2. \A v \in Messages : LaneOf[v] = LaneOf[m] <=>
         \/ v \in Interrupting /\ m \in Interrupting /\ Scope[v] = Scope[m]
         \/ v = m
  BY DEF LaneOf
<1>3. Lanes!InLane(m) = {v \in Messages : LaneOf[v] = LaneOf[m] /\ StageOf(v) \in {"queued", "served", "jammed"}}
  BY DEF Lanes!InLane
<1>4. CASE m \in Interrupting
  BY <1>1, <1>2, <1>3, <1>4, DispatchAssumption DEF DispatchAssumption, InScope
<1>5. CASE m \notin Interrupting
  BY <1>2, <1>3, <1>5
<1> QED BY <1>4, <1>5

(* Every step of the dispatcher is a step of the lanes or leaves them      *)
(* alone: entering a scope joins the lane, leaving Waiting serves, a       *)
(* removal ends and a panic jams.                                          *)
LEMMA LaneStep ==
  ASSUME LaneInv, LaneInv', [Next]_vars
  PROVE  [Lanes!Next]_(Lanes!lanes)
<1> DEFINE stages == [v \in Messages |-> StageOf(v)]
<1> USE DEF LaneInv
<1>1. stages' = [v \in Messages |-> StageOf(v)']
  OBVIOUS
<1>2. ASSUME UNCHANGED ahead, \A v \in Messages : StageOf(v)' = StageOf(v) PROVE UNCHANGED Lanes!lanes
  BY <1>2 DEF Lanes!lanes
<1>3. ASSUME NEW m \in Messages, NEW from, NEW to, StageOf(m) = from, StageOf(m)' = to,
             \A v \in Messages : v # m => StageOf(v)' = StageOf(v)
      PROVE  Lanes!Moves(m, from, to)
  <2>1. stages' = [stages EXCEPT ![m] = to]
    BY <1>3
  <2> QED BY <1>3, <2>1 DEF Lanes!Moves
<1>4. ASSUME NEW m \in Messages, NEW k, pc' = [pc EXCEPT ![m] = k]
      PROVE  \A v \in Messages : v # m => StageOf(v)' = StageOf(v)
  BY <1>4 DEF CoreTypeOK, StageOf
<1>5. ASSUME NEW m \in Messages, NEW k, pc' = [pc EXCEPT ![m] = k], UNCHANGED ahead,
             \/ pc[m] \in BeforeStart /\ k \in BeforeStart
             \/ pc[m] \in Waiting /\ k \in Waiting
             \/ pc[m] \in Processing /\ k \in Processing
             \/ pc[m] \in Over /\ k \in Over
      PROVE  UNCHANGED Lanes!lanes
  <2>1. pc'[m] = k
    BY <1>5 DEF CoreTypeOK
  <2>2. StageOf(m)' = StageOf(m)
    BY <1>5, <2>1 DEF StageOf, BeforeStart, Waiting, Processing, Over
  <2> QED BY <1>2, <1>4, <1>5, <2>2
<1>6. CASE UNCHANGED vars \/ CloseInbox \/ LoopReturns
  BY <1>2, <1>6 DEF vars, queueVars, CloseInbox, LoopReturns, StageOf
<1>7. ASSUME NEW m \in Messages, Deliver(m) \/ LoopStep(m) PROVE UNCHANGED Lanes!lanes
  <2>1. \E k \in BeforeStart : pc[m] \in BeforeStart /\ pc' = [pc EXCEPT ![m] = k] /\ UNCHANGED ahead
    BY <1>7 DEF Deliver, LoopStep, Receive, Spawn, Step, Goto, BeforeStart, queueVars
  <2> QED BY <1>5, <2>1
<1>8. ASSUME NEW m \in Messages, Admit(m) \/ Generate(m) \/ Settle(m) PROVE UNCHANGED Lanes!lanes
  <2>1. \E k \in Processing : pc[m] \in Processing /\ pc' = [pc EXCEPT ![m] = k] /\ UNCHANGED ahead
    <3>1. CASE Admit(m)
      BY <3>1 DEF Admit, EnterProcessing, TurnAway, RunNewSession, AppendUserTurn, StartGenerating,
                  Step, Goto, Processing, queueVars
    <3>2. CASE Generate(m)
      BY <3>2 DEF Generate, ObserveCancellation, EndGeneration, Step, Goto, Processing, queueVars
    <3>3. CASE Settle(m)
      BY <3>3 DEF Settle, SettleCancelled, SettleWithheld, SettleReply, SettleOverflow, SettleFailure,
                  SettleTimeout, Step, Goto, Processing, queueVars
    <3> QED BY <1>8, <3>1, <3>2, <3>3
  <2> QED BY <1>5, <2>1
<1>9. ASSUME NEW m \in Messages, StartUntracked(m) PROVE Lanes!JoinEmpty(m)
  <2>1. pc[m] = "spawned" /\ pc' = [pc EXCEPT ![m] = "gate"] /\ pc'[m] = "gate" /\ UNCHANGED ahead
    BY <1>9 DEF StartUntracked, Step, Goto, queueVars, CoreTypeOK
  <2>2. StageOf(m) = "idle" /\ StageOf(m)' = "served"
    BY <2>1 DEF StageOf, Waiting, Processing, Over
  <2>3. Lanes!InLane(m) = {}
    BY <1>9, <2>2, LaneIsScope DEF StartUntracked
  <2>4. ahead' = [ahead EXCEPT ![m] = {}]
    BY <2>1 DEF FlagsAreSetInOrder, BeforeStart, CoreTypeOK
  <2> QED BY <1>3, <1>4, <2>1, <2>2, <2>3, <2>4 DEF Lanes!JoinEmpty
<1>10. ASSUME NEW m \in Messages, InsertEntry(m) PROVE Lanes!Join(m) \/ Lanes!JoinEmpty(m)
  <2> DEFINE t == Scope[m]
  <2>1. /\ m \in Interrupting /\ t \in Scopes /\ pc[m] = "spawned"
        /\ pc' = [pc EXCEPT ![m] = IF active[t] = None THEN "gate" ELSE "cancelling"]
        /\ ahead' = [ahead EXCEPT ![m] = InScope(t)]
    BY <1>10, DispatchAssumption DEF DispatchAssumption, InsertEntry, Step, Goto
  <2>2. Lanes!InLane(m) = InScope(t)
    BY <2>1, LaneIsScope
  <2>3. StageOf(m) = "idle"
    BY <2>1, StageValues DEF BeforeStart
  <2>4. CASE active[t] = None
    <3>1. pc'[m] = "gate"
      BY <2>1, <2>4 DEF CoreTypeOK
    <3>2. StageOf(m)' = "served"
      BY <3>1 DEF StageOf, Waiting, Processing, Over
    <3>3. InScope(t) = {}
      BY <2>1, <2>4 DEF EntryIsNewest
    <3> QED BY <1>3, <1>4, <2>1, <2>2, <2>3, <3>2, <3>3 DEF Lanes!JoinEmpty
  <2>5. CASE active[t] # None
    <3>1. pc'[m] = "cancelling"
      BY <2>1, <2>5 DEF CoreTypeOK
    <3>2. StageOf(m)' = "queued"
      BY <3>1 DEF StageOf, Waiting, Processing, Over
    <3> QED BY <1>3, <1>4, <2>1, <2>2, <2>3, <3>2 DEF Lanes!Join
  <2> QED BY <2>4, <2>5
<1>11. ASSUME NEW m \in Messages, CancelPrevious(m) \/ RegisterWaiter(m) PROVE UNCHANGED Lanes!lanes
  <2>1. \E k \in Waiting : pc[m] \in Waiting /\ pc' = [pc EXCEPT ![m] = k] /\ UNCHANGED ahead
    BY <1>11 DEF CancelPrevious, RegisterWaiter, Step, Goto, Waiting, queueVars
  <2> QED BY <1>5, <2>1
<1>12. ASSUME NEW w \in Messages, pc[w] \in Waiting, pc'[w] = "gate", UNCHANGED ahead,
              \A v \in Messages : v # w => StageOf(v)' = StageOf(v)
       PROVE  Lanes!Serve(w)
  <2>1. \A v \in ahead[w] : v \in Messages /\ v # w /\ pc'[v] \in Over
    BY <1>12, DispatchAssumption DEF DispatchAssumption, CoreTypeOK, ServedAfterAhead, Processing, Over
  <2>2. \A v \in ahead[w] : StageOf(v) = "over"
    BY <1>12, <2>1 DEF StageOf, Waiting, Processing, Over
  <2>3. StageOf(w) = "queued" /\ StageOf(w)' = "served"
    BY <1>12 DEF StageOf, Waiting, Processing, Over
  <2>4. \A v \in ahead[w] : stages[v] = "over"
    BY <2>1, <2>2
  <2> QED BY <1>3, <1>12, <2>3, <2>4 DEF Lanes!Serve
<1>13. ASSUME NEW m \in Messages, CheckDone(m) PROVE Lanes!Serve(m) \/ UNCHANGED Lanes!lanes
  <2>1. \E k \in {"gate", "unregistered"} :
          pc[m] = "checking" /\ pc' = [pc EXCEPT ![m] = k] /\ pc'[m] = k /\ UNCHANGED ahead
    BY <1>13 DEF CheckDone, Step, Goto, queueVars, CoreTypeOK
  <2> QED BY <1>4, <1>5, <1>12, <2>1 DEF Waiting
<1>14. ASSUME NEW m \in Messages, NotifyWaiters(m) PROVE Lanes!Next \/ UNCHANGED Lanes!lanes
  <2>1. /\ pc[m] = "notifying" /\ UNCHANGED ahead
        /\ \A v \in Messages : pc'[v] = IF v = m THEN "finished" ELSE IF v \in Parked(m) THEN "gate" ELSE pc[v]
    BY <1>14 DEF NotifyWaiters, queueVars
  <2>2. StageOf(m)' = StageOf(m)
    BY <2>1 DEF StageOf, Waiting, Processing, Over
  <2>3. \A v \in Messages \ Parked(m) : StageOf(v)' = StageOf(v)
    BY <2>1, <2>2 DEF StageOf
  <2>4. CASE Parked(m) = {}
    BY <1>2, <2>1, <2>3, <2>4
  <2>5. ASSUME NEW w \in Parked(m) PROVE Lanes!Serve(w)
    <3>1. w \in Messages /\ w # m /\ pc[w] = "parked" /\ pc'[w] = "gate"
      BY <2>1, <2>5 DEF Parked
    <3>2. \A v \in Parked(m) : v = w
      BY <2>5, DispatchAssumption DEF DispatchAssumption, Parked, ReplacedOnce
    <3> QED BY <1>12, <2>1, <2>3, <3>1, <3>2 DEF Waiting
  <2> QED BY <2>4, <2>5 DEF Lanes!Next, Parked
<1>15. ASSUME NEW m \in Messages, RemoveEntry(m) PROVE Lanes!End(m)
  <2>1. pc[m] = "leaving" /\ pc' = [pc EXCEPT ![m] = "finishing"] /\ pc'[m] = "finishing" /\ UNCHANGED ahead
    BY <1>15 DEF RemoveEntry, Step, Goto, CoreTypeOK
  <2>2. StageOf(m) = "served" /\ StageOf(m)' = "over"
    BY <2>1 DEF StageOf, Waiting, Processing, Over
  <2> QED BY <1>3, <1>4, <2>1, <2>2 DEF Lanes!End
<1>16. ASSUME NEW m \in Messages, StoreDone(m) PROVE UNCHANGED Lanes!lanes
  <2>1. \E k \in Over : pc[m] \in Over /\ pc' = [pc EXCEPT ![m] = k] /\ UNCHANGED ahead
    BY <1>16 DEF StoreDone, Step, Goto, Over
  <2> QED BY <1>5, <2>1
<1>17. ASSUME NEW m \in Messages, Panic(m) PROVE Lanes!Jam(m)
  <2>1. pc[m] \in Processing /\ pc' = [pc EXCEPT ![m] = "crashed"] /\ pc'[m] = "crashed" /\ UNCHANGED ahead
    BY <1>17 DEF Panic, Goto, CoreTypeOK, queueVars
  <2>2. StageOf(m) = "served" /\ StageOf(m)' = "jammed"
    BY <2>1, StageValues DEF StageOf, Waiting, Processing, Over
  <2> QED BY <1>3, <1>4, <2>1, <2>2 DEF Lanes!Jam
<1>18. CASE \E m \in Messages : Start(m) \/ Finish(m)
  BY <1>18, <1>9, <1>10, <1>11, <1>13, <1>14, <1>15, <1>16 DEF Start, Finish, Lanes!Next
<1> QED BY <1>6, <1>7, <1>8, <1>17, <1>18 DEF Next, Progress, Lanes!Next

(* The dispatcher implements FifoLanes: the messages of a scope are served *)
(* one at a time in the order in which their workers entered the map, and  *)
(* a crash blocks the scope for good.                                      *)
THEOREM DispatchRefinesFifoLanes == Spec => RefinesFifoLanes
<1>1. Init => Lanes!Init
  <2> SUFFICES ASSUME Init PROVE Lanes!Init
    OBVIOUS
  <2>1. \A v \in Messages : StageOf(v) = "idle"
    BY DEF Init, StageOf, Waiting, Processing, Over
  <2> QED BY <2>1 DEF Init, Lanes!Init
<1> QED BY <1>1, LaneStep, LaneInvariant, PTL DEF Spec, RefinesFifoLanes, Lanes!Spec
=============================================================================
