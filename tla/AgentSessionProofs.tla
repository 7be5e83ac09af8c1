------------------------- MODULE AgentSessionProofs -------------------------
(***************************************************************************)
(* Theorems about AgentSession, for every set of tools, calls and answers, *)
(* every autonomy configuration and every bound: first the gate over tool  *)
(* calls, then the history.                                                *)
(***************************************************************************)
EXTENDS AgentSession, SequenceTheorems, TLAPS

(* The values of the loop's and the manager's variables. *)
CoreTypeOK ==
  /\ mode \in {"cli", "channel"} /\ supervised \in BOOLEAN /\ (supervised => mode = "cli")
  /\ pc \in Loop \cup {"idle", "settling", "over"}
  /\ round \in Nat
  /\ calls \in Seq(Call) /\ seen \subseteq Call
  /\ outcome \in Seq(Outcomes) /\ Len(outcome) = Len(calls) /\ gated \in 0..Len(calls)
  /\ effects \subseteq [round : Nat, at : Nat \ {0}, call : Call]

(* The k-th call of the round has passed the gate.                         *)
InRound   == pc \in {"gating", "executing"}
Passed(k) == k \in 1..gated /\ outcome[k] # "refused"

GateBeforeExecution == pc = "executing" => gated = Len(calls)

(* What has passed the gate was approved, and so was what has run.         *)
PassedAreApproved ==
  supervised /\ InRound => \A k \in 1..Len(calls) : Passed(k) =>
    \/ <<round, k>> \in approved
    \/ calls[k].tool \notin AlwaysAsk /\ calls[k].tool \in AutoApprove \cup allowlist

(* What has passed the gate has a signature of its own, and what has run   *)
(* with this signature is this very call.                                  *)
SignaturesAreSeen ==
  /\ pc \in Loop => \A e \in effects : e.call.tool \notin Exempt => e.call \in seen
  /\ InRound => \A k \in 1..Len(calls) : Passed(k) /\ calls[k].tool \notin Exempt =>
       /\ calls[k] \in seen
       /\ \A j \in 1..Len(calls) : Passed(j) /\ calls[j] = calls[k] => j = k
       /\ \A e \in effects : e.call = calls[k] => e.round = round /\ e.at = k

GateInv ==
  CoreTypeOK /\ GateBeforeExecution /\ PassedAreApproved /\ RunsAreApproved /\ SignaturesAreSeen /\ OncePerTurn

-----------------------------------------------------------------------------
LEMMA InitHolds == Init => GateInv
<1> SUFFICES ASSUME Init PROVE GateInv
  OBVIOUS
<1>1. CoreTypeOK
  <2>1. supervised \in BOOLEAN /\ (supervised => mode = "cli")
    BY DEF Init
  <2> QED BY <2>1 DEF Init, CoreTypeOK
<1>2. GateBeforeExecution /\ PassedAreApproved /\ RunsAreApproved /\ SignaturesAreSeen /\ OncePerTurn
  BY DEF Init, GateBeforeExecution, PassedAreApproved, RunsAreApproved, SignaturesAreSeen, OncePerTurn, InRound, Loop
<1> QED BY <1>1, <1>2 DEF GateInv

LEMMA CoreTypeInductive ==
  ASSUME CoreTypeOK, [Next]_vars
  PROVE  CoreTypeOK'
<1> USE DEF CoreTypeOK, Loop, fixed, loop, manager
<1>1. CASE UNCHANGED vars
  BY <1>1 DEF vars
<1>2. CASE BeginTurn
  BY <1>2 DEF BeginTurn
<1>3. CASE Clear \/ Quit \/ Settle
  BY <1>3 DEF Clear, Quit, Settle
<1>4. CASE Cancel
  BY <1>4 DEF Cancel
<1>5. ASSUME Fail, UNCHANGED <<fixed, effects>>, round' \in Nat PROVE CoreTypeOK'
  BY <1>5 DEF Fail, ForgetCalls
<1>6. CASE Drop
  BY <1>5, <1>6 DEF Drop
<1>7. CASE StartRound
  BY <1>5, <1>7 DEF StartRound
<1>8. CASE Answer
  <2>1. CASE Fail
    BY <1>5, <1>8, <2>1 DEF Answer
  <2>2. CASE pc' = "answering" /\ UNCHANGED loop
    BY <1>8, <2>2 DEF Answer
  <2>3. ASSUME NEW r \in Responses, pc' = "gating", calls' = r, gated' = 0,
               outcome' = [k \in DOMAIN r |-> "none"], UNCHANGED seen
        PROVE  CoreTypeOK'
    <3>1. r \in Seq(Call)
      BY AgentAssumption DEF AgentAssumption
    <3>2. outcome' \in Seq(Outcomes) /\ Len(outcome') = Len(calls') /\ gated' \in 0..Len(calls')
      BY <2>3, <3>1 DEF Outcomes
    <3> QED BY <1>8, <2>3, <3>1, <3>2 DEF Answer
  <2> QED BY <1>8, <2>1, <2>2, <2>3 DEF Answer
<1>9. CASE Reply
  BY <1>5, <1>9 DEF Reply
<1>10. CASE Gate
  <2> DEFINE k == gated + 1
  <2>0. pc = "gating" /\ k \in 1..Len(calls) /\ UNCHANGED <<fixed, pc, round, effects>>
    BY <1>10 DEF Gate
  <2>1. ASSUME calls' \in Seq(Call), Len(calls') = Len(calls), Admit(k) \/ (Refuse(k) /\ UNCHANGED seen) PROVE CoreTypeOK'
    <3>1. calls'[k] \in Call
      BY <2>0, <2>1
    <3> QED BY <2>0, <2>1, <3>1 DEF Admit, Refuse, Outcomes
  <2>2. CASE Hook(k)
    <3>1. \A c \in Rewrites \cup {calls[k]} : [calls EXCEPT ![k] = c] \in Seq(Call) /\ Len([calls EXCEPT ![k] = c]) = Len(calls)
      BY <2>0, AgentAssumption DEF AgentAssumption
    <3> QED BY <2>1, <2>2, <3>1 DEF Hook
  <2>3. CASE Prompt(k) \/ GoAhead(k)
    BY <2>1, <2>3 DEF Prompt, GoAhead
  <2> QED BY <1>10, <2>2, <2>3 DEF Gate
<1>11. CASE Execute
  BY <1>11 DEF Execute
<1>12. CASE RunTool
  BY <1>12 DEF RunTool, Runnable, Pending, Outcomes
<1>13. CASE FinishRound
  <2>1. CASE Fail /\ UNCHANGED round
    BY <1>5, <1>13, <2>1 DEF FinishRound
  <2>2. CASE round' = round + 1 /\ pc' = "round" /\ ForgetCalls /\ UNCHANGED seen
    BY <1>13, <2>2 DEF FinishRound, ForgetCalls
  <2> QED BY <1>13, <2>1, <2>2 DEF FinishRound
<1> QED BY <1>1, <1>2, <1>3, <1>4, <1>6, <1>7, <1>8, <1>9, <1>10, <1>11, <1>12, <1>13 DEF Next, Step

-----------------------------------------------------------------------------
(* A step that is not, or no longer, between an answer and its results, and*)
(* that neither runs a tool nor asks the user.                             *)
LEMMA OutsideStep ==
  ASSUME GateInv, CoreTypeOK', ~InRound', UNCHANGED <<fixed, manager, effects>>,
         pc' \in Loop => pc \in Loop /\ UNCHANGED seen
  PROVE  GateInv'
<1> USE DEF GateInv, fixed, manager
<1>1. GateBeforeExecution' /\ PassedAreApproved'
  BY DEF GateBeforeExecution, PassedAreApproved, InRound
<1>2. RunsAreApproved' /\ OncePerTurn'
  BY DEF RunsAreApproved, OncePerTurn
<1>3. SignaturesAreSeen'
  BY DEF SignaturesAreSeen
<1> QED BY <1>1, <1>2, <1>3

(* A call passes the gate if it has been approved and its signature was    *)
(* not seen in this turn.                                                  *)
LEMMA GateStep ==
  ASSUME GateInv, CoreTypeOK', Gate
  PROVE  GateInv'
<1> DEFINE k == gated + 1
<1> USE DEF CoreTypeOK
<1>0. GateInv /\ CoreTypeOK
  BY DEF GateInv
<1>1. pc = "gating" /\ pc' = "gating" /\ k \in 1..Len(calls) /\ gated \in Nat /\ UNCHANGED <<fixed, round, effects>>
  BY <1>0 DEF Gate
<1>2. gated' = k /\ \A j \in 1..gated : outcome'[j] = outcome[j]
  BY <1>0, <1>1 DEF Gate, Hook, Prompt, GoAhead, Admit, Refuse
<1>3. /\ Len(calls') = Len(calls) /\ \A j \in 1..gated : calls'[j] = calls[j]
      /\ supervised => calls' = calls
  BY <1>0, <1>1 DEF Gate, Hook, Prompt, GoAhead
<1>4. approved \subseteq approved' /\ allowlist \subseteq allowlist'
  BY DEF Gate, Hook, Prompt, GoAhead, RecordDecision, manager
<1>5. /\ seen \subseteq seen'
      /\ calls'[k].tool \notin Exempt /\ outcome'[k] # "refused" => calls'[k] \notin seen /\ calls'[k] \in seen'
  <2>1. CASE Admit(k)
    BY <1>0, <1>1, <2>1 DEF Admit, Refuse
  <2>2. CASE Refuse(k) /\ UNCHANGED seen
    BY <1>0, <1>1, <2>2 DEF Refuse
  <2> QED BY <2>1, <2>2 DEF Gate, Hook, Prompt, GoAhead
<1>6. supervised /\ outcome'[k] # "refused" =>
        \/ <<round, k>> \in approved'
        \/ calls[k].tool \notin AlwaysAsk /\ calls[k].tool \in AutoApprove \cup allowlist'
  <2> SUFFICES ASSUME supervised, outcome'[k] # "refused"
               PROVE  \/ <<round, k>> \in approved'
                      \/ calls[k].tool \notin AlwaysAsk /\ calls[k].tool \in AutoApprove \cup allowlist'
    OBVIOUS
  <2>1. CASE Prompt(k)
    BY <1>0, <1>1, <2>1 DEF Prompt, RecordDecision, Refuse
  <2>2. CASE GoAhead(k)
    BY <2>2 DEF GoAhead, NeedsApproval, manager
  <2>3. ~Hook(k)
    BY <1>0 DEF Hook
  <2> QED BY <2>1, <2>2, <2>3 DEF Gate
<1>7. \A j \in 1..Len(calls) : Passed(j)' <=> Passed(j) \/ (j = k /\ outcome'[k] # "refused")
  BY <1>0, <1>1, <1>2 DEF Passed
<1>8. \A j \in 1..Len(calls) : Passed(j) => j \in 1..gated /\ j # k /\ calls'[j] = calls[j]
  BY <1>1, <1>3 DEF Passed
<1> HIDE DEF k, CoreTypeOK
<1>9. GateBeforeExecution'
  BY <1>1 DEF GateBeforeExecution
<1>10. PassedAreApproved'
  <2>1. supervised => \A j \in 1..Len(calls) : Passed(j) =>
          <<round, j>> \in approved \/ (calls[j].tool \notin AlwaysAsk /\ calls[j].tool \in AutoApprove \cup allowlist)
    BY <1>0, <1>1 DEF GateInv, PassedAreApproved, InRound
  <2> QED BY <1>1, <1>3, <1>4, <1>6, <1>7, <2>1 DEF PassedAreApproved, fixed
<1>11. RunsAreApproved'
  BY <1>0, <1>1, <1>4 DEF GateInv, RunsAreApproved, fixed
<1>12. OncePerTurn'
  BY <1>0, <1>1 DEF GateInv, OncePerTurn
<1>13. SignaturesAreSeen'
  <2>1. /\ \A e \in effects : e.call.tool \notin Exempt => e.call \in seen
        /\ \A j \in 1..Len(calls) : Passed(j) /\ calls[j].tool \notin Exempt =>
             /\ calls[j] \in seen
             /\ \A i \in 1..Len(calls) : Passed(i) /\ calls[i] = calls[j] => i = j
             /\ \A e \in effects : e.call = calls[j] => e.round = round /\ e.at = j
    BY <1>0, <1>1 DEF GateInv, SignaturesAreSeen, InRound, Loop
  <2>2. \A e \in effects' : e.call.tool \notin Exempt => e.call \in seen'
    BY <1>1, <1>5, <2>1
  <2>3. ASSUME NEW j \in 1..Len(calls), Passed(j)', calls'[j].tool \notin Exempt
        PROVE  /\ calls'[j] \in seen'
               /\ \A i \in 1..Len(calls) : Passed(i)' /\ calls'[i] = calls'[j] => i = j
               /\ \A e \in effects' : e.call = calls'[j] => e.round = round' /\ e.at = j
    <3>1. CASE Passed(j)
      BY <1>1, <1>5, <1>7, <1>8, <2>1, <2>3, <3>1
    <3>2. CASE j = k /\ outcome'[k] # "refused"
      BY <1>1, <1>5, <1>7, <1>8, <2>1, <2>3, <3>2
    <3> QED BY <1>7, <2>3, <3>1, <3>2
  <2> QED BY <1>3, <2>2, <2>3 DEF SignaturesAreSeen
<1> QED BY <1>9, <1>10, <1>11, <1>12, <1>13 DEF GateInv

(* A call that passed the gate runs, or turns out to name no tool, or is   *)
(* cut off.                                                                *)
LEMMA RunToolStep ==
  ASSUME GateInv, CoreTypeOK', RunTool
  PROVE  GateInv'
<1>0. GateInv /\ CoreTypeOK
  BY DEF GateInv
<1>1. /\ pc = "executing" /\ pc' = "executing" /\ gated = Len(calls)
      /\ UNCHANGED <<fixed, round, calls, seen, gated, manager>>
  BY <1>0 DEF RunTool, GateInv, GateBeforeExecution
<1>2. PICK k \in 1..Len(calls) :
        /\ outcome[k] = "none"
        /\ \E out \in {"refused", "done", "cut"} : outcome' = [outcome EXCEPT ![k] = out]
        /\ effects' \in {effects, effects \cup {[round |-> round, at |-> k, call |-> calls[k]]}}
  BY <1>0 DEF RunTool, Runnable, Pending, CoreTypeOK
<1> DEFINE new == [round |-> round, at |-> k, call |-> calls[k]]
<1>3. Passed(k)
  BY <1>1, <1>2 DEF Passed
<1>4. \A j \in 1..Len(calls) : Passed(j)' => Passed(j)
  BY <1>0, <1>1, <1>2 DEF Passed, CoreTypeOK
<1>5. GateBeforeExecution'
  BY <1>1 DEF GateBeforeExecution
<1>6. PassedAreApproved'
  BY <1>0, <1>1, <1>4 DEF GateInv, PassedAreApproved, InRound, fixed, manager
<1>7. RunsAreApproved'
  <2>1. supervised => <<round, k>> \in approved \/ (calls[k].tool \notin AlwaysAsk /\ calls[k].tool \in AutoApprove \cup allowlist)
    BY <1>0, <1>1, <1>3 DEF GateInv, PassedAreApproved, InRound
  <2>2. new.round = round /\ new.at = k /\ new.call = calls[k] /\ \A e \in effects' : e \in effects \/ e = new
    BY <1>2
  <2>3. supervised => \A e \in effects :
          <<e.round, e.at>> \in approved \/ (e.call.tool \notin AlwaysAsk /\ e.call.tool \in AutoApprove \cup allowlist)
    BY <1>0 DEF GateInv, RunsAreApproved
  <2> HIDE DEF new
  <2>4. UNCHANGED <<supervised, approved, allowlist>>
    BY <1>1 DEF fixed, manager
  <2> QED BY <2>1, <2>2, <2>3, <2>4 DEF RunsAreApproved
<1>8. /\ \A e \in effects : e.call.tool \notin Exempt => e.call \in seen
      /\ \A j \in 1..Len(calls) : Passed(j) /\ calls[j].tool \notin Exempt =>
           /\ calls[j] \in seen
           /\ \A i \in 1..Len(calls) : Passed(i) /\ calls[i] = calls[j] => i = j
           /\ \A e \in effects : e.call = calls[j] => e.round = round /\ e.at = j
  BY <1>0, <1>1 DEF GateInv, SignaturesAreSeen, InRound, Loop
<1>9. OncePerTurn'
  <2>1. ASSUME NEW e \in effects, e.call = calls[k], calls[k].tool \notin Exempt PROVE e = new
    <3>1. e.round = round /\ e.at = k
      BY <1>3, <1>8, <2>1
    <3>2. e \in [round : Nat, at : Nat \ {0}, call : Call]
      BY <1>0 DEF CoreTypeOK
    <3> QED BY <2>1, <3>1, <3>2
  <2>2. \A e, f \in effects : e.call = f.call /\ e.call.tool \notin Exempt => e = f
    BY <1>0 DEF GateInv, OncePerTurn
  <2>3. new.call = calls[k]
    OBVIOUS
  <2> HIDE DEF new
  <2> QED BY <1>2, <2>1, <2>2, <2>3 DEF OncePerTurn, new
<1>10. SignaturesAreSeen'
  <2>1. \A e \in effects' : e.call.tool \notin Exempt => e.call \in seen
    BY <1>2, <1>3, <1>8
  <2>2. \A j \in 1..Len(calls) : Passed(j) /\ calls[j].tool \notin Exempt =>
          \A e \in effects' : e.call = calls[j] => e.round = round /\ e.at = j
    BY <1>2, <1>3, <1>8
  <2> QED BY <1>1, <1>4, <1>8, <2>1, <2>2 DEF SignaturesAreSeen
<1> QED BY <1>5, <1>6, <1>7, <1>9, <1>10 DEF GateInv

LEMMA GateInvInductive ==
  ASSUME GateInv, [Next]_vars
  PROVE  GateInv'
<1>0. CoreTypeOK /\ CoreTypeOK'
  BY CoreTypeInductive DEF GateInv
<1> DEFINE Outside == /\ ~InRound' /\ UNCHANGED <<fixed, manager, effects>>
                      /\ pc' \in Loop => pc \in Loop /\ UNCHANGED seen
<1>1. CASE UNCHANGED vars
  BY <1>0, <1>1 DEF vars, fixed, loop, manager, GateInv, GateBeforeExecution, PassedAreApproved, RunsAreApproved,
                    SignaturesAreSeen, OncePerTurn, InRound, Passed
<1>2. CASE BeginTurn
  BY <1>0, <1>2 DEF BeginTurn, fixed, loop, GateInv, GateBeforeExecution, PassedAreApproved, RunsAreApproved,
                    SignaturesAreSeen, OncePerTurn, InRound
<1>3. CASE Cancel
  BY <1>0, <1>3 DEF Cancel, fixed, loop, manager, GateInv, GateBeforeExecution, PassedAreApproved, RunsAreApproved,
                    SignaturesAreSeen, OncePerTurn, InRound, Passed
<1>4. CASE Clear \/ Quit \/ Settle \/ Drop \/ StartRound \/ Reply
  <2>1. Outside
    BY <1>0, <1>4 DEF Clear, Quit, Settle, Drop, StartRound, Reply, Fail, InRound, Loop, manager, loop
  <2> QED BY <1>0, <2>1, OutsideStep
<1>5. CASE Answer
  <2>1. CASE Fail \/ (pc' = "answering" /\ UNCHANGED loop)
    <3>1. Outside
      BY <1>0, <1>5, <2>1 DEF Answer, Fail, InRound, Loop, manager, loop
    <3> QED BY <1>0, <3>1, OutsideStep
  <2>2. CASE pc' = "gating" /\ gated' = 0 /\ UNCHANGED seen
    <3>1. \A k : ~Passed(k)'
      BY <2>2 DEF Passed
    <3>2. pc \in Loop /\ pc' = "gating" /\ UNCHANGED <<fixed, manager, effects>>
      BY <1>5, <2>2 DEF Answer, Loop
    <3> QED BY <1>0, <2>2, <3>1, <3>2 DEF GateInv, GateBeforeExecution, PassedAreApproved, RunsAreApproved,
                                         SignaturesAreSeen, OncePerTurn, fixed, manager
  <2> QED BY <1>5, <2>1, <2>2 DEF Answer
<1>6. CASE Gate
  BY <1>0, <1>6, GateStep
<1>7. CASE Execute
  BY <1>0, <1>7 DEF Execute, fixed, loop, manager, GateInv, GateBeforeExecution, PassedAreApproved, RunsAreApproved,
                    SignaturesAreSeen, OncePerTurn, InRound, Passed, Loop
<1>8. CASE RunTool
  BY <1>0, <1>8, RunToolStep
<1>9. CASE FinishRound
  <2>1. Outside
    BY <1>0, <1>9 DEF FinishRound, Fail, InRound, Loop, manager
  <2> QED BY <1>0, <2>1, OutsideStep
<1> QED BY <1>1, <1>2, <1>3, <1>4, <1>5, <1>6, <1>7, <1>8, <1>9 DEF Next, Step

(* What the properties of a turn's tool calls follow from.                 *)
THEOREM GateInvariant == Spec => []GateInv
<1>1. GateInv /\ [Next]_vars => GateInv'
  BY GateInvInductive
<1> QED BY InitHolds, <1>1, PTL DEF Spec

(* In a supervised session no tool runs without an approval of this very   *)
(* call or one that was given for the session, whatever the model answers  *)
(* and however the calls of an answer are run.                             *)
THEOREM RunsAreApprovedCorrect == Spec => []RunsAreApproved
<1>1. GateInv => RunsAreApproved
  BY DEF GateInv
<1> QED BY <1>1, GateInvariant, PTL

(* No turn carries out the same call twice, over all its rounds, whether   *)
(* hooks changed it or not.                                                *)
THEOREM OncePerTurnCorrect == Spec => []OncePerTurn
<1>1. GateInv => OncePerTurn
  BY DEF GateInv
<1> QED BY <1>1, GateInvariant, PTL

-----------------------------------------------------------------------------
(***************************************************************************)
(* The history.                                                            *)
(***************************************************************************)

Messages == [kind : Kinds, turn : Nat \ {0}, round : 0..MaxIterations, n : Nat, said : Seq(Outcomes)]

(* The values of the variables that CoreTypeOK leaves out; a turn that is  *)
(* under way has a number, and one that asks the model again has rounds    *)
(* left.                                                                   *)
Fits ==
  /\ turn \in 0..MaxTurns /\ round \in 0..MaxIterations /\ cleared \in 0..turn
  /\ <<native, parallel, cancelled>> \in BOOLEAN \X BOOLEAN \X BOOLEAN
  /\ allowlist \subseteq Tools /\ approved \subseteq Nat \X Nat
  /\ effects \subseteq [round : 0..MaxIterations, at : Nat \ {0}, call : Call]
  /\ pc \in Loop \cup {"settling"} => turn # 0
  /\ pc \in Loop \ {"round"} => round < MaxIterations
  /\ InRound => calls # <<>>

(* The history's messages.  A turn under way has one; a history without    *)
(* one was just cleared.                                                   *)
Kept ==
  /\ history \in Seq(Messages)
  /\ \A i \in 1..Len(history) : history[i].turn <= turn
  /\ pc \in Loop \cup {"settling"} => history # <<>>
  /\ history = <<>> => cleared = turn

(* What has been done is of an earlier round, or has its outcome in this   *)
(* one, and the history has no results of this round yet.                  *)
Recorded ==
  /\ pc = "gating" => \A k \in 1..Len(outcome) : outcome[k] # "done"
  /\ pc = "executing" => \A k \in 1..Len(outcome) : outcome[k] = "done" =>
       \E e \in effects : e.round = round /\ e.at = k
  /\ pc \in Loop \cup {"settling"} =>
       /\ \A e \in effects :
            \/ e.round < round
            \/ pc = "executing" /\ e.round = round /\ e.at \in 1..Len(outcome) /\ outcome[e.at] = "done"
       /\ \A i \in 1..Len(history) :
            history[i].kind = "results" /\ history[i].turn = turn => history[i].round < round

HistoryInv == CoreTypeOK /\ Fits /\ Kept /\ Recorded /\ ResultsWhole /\ EffectsAreTold /\ NothingForgotten

-----------------------------------------------------------------------------
(* Histories as sequences. *)

LEMMA Consts ==
  /\ MaxIterations \in Nat \ {0} /\ MaxHistory \in Nat \ {0} /\ MaxTurns \in Nat \ {0} /\ KeepRecent \in Nat
BY AgentAssumption DEF AgentAssumption

LEMMA Larger ==
  /\ Max({MaxHistory, KeepRecent}) \in {MaxHistory, KeepRecent}
  /\ Max({MaxHistory, KeepRecent}) >= MaxHistory /\ Max({MaxHistory, KeepRecent}) >= KeepRecent
<1> DEFINE S == {MaxHistory, KeepRecent}
<1>1. \E x \in S : \A y \in S : x >= y
  BY Consts
<1>2. Max(S) \in S /\ \A y \in S : Max(S) >= y
  BY <1>1 DEF Max
<1> QED BY <1>2

(* What holds of a message's neighbours holds wherever they are moved to.  *)
LEMMA Moved ==
  ASSUME NEW h \in Seq(Messages), NEW t \in Seq(Messages), NEW d \in Int, NEW i \in 1..Len(t), i + d \in 1..Len(h),
         \A k \in 1..Len(h) : k - d >= 1 => k - d \in 1..Len(t) /\ t[k - d] = h[k]
  PROVE  /\ t[i] = h[i + d]
         /\ AllAnswered(h, i + d) => AllAnswered(t, i)
         /\ (i + d = 1 => i = 1) /\ FollowsCall(h, i + d) => FollowsCall(t, i)
<1>1. Len(h) \in Nat /\ Len(t) \in Nat /\ DOMAIN h = 1..Len(h) /\ DOMAIN t = 1..Len(t)
  OBVIOUS
<1>2. \A k \in Int : i + d + k \in DOMAIN h /\ i + k >= 1 => i + k \in DOMAIN t /\ t[i + k] = h[i + d + k]
  <2> SUFFICES ASSUME NEW k \in Int, i + d + k \in DOMAIN h, i + k >= 1
               PROVE  i + k \in DOMAIN t /\ t[i + k] = h[i + d + k]
    OBVIOUS
  <2>1. i + d + k \in 1..Len(h) /\ (i + d + k) - d = i + k
    BY <1>1
  <2> QED BY <1>1, <2>1
<1>3. t[i] = h[i + d]
  <2>1. i + 0 = i /\ i + d + 0 = i + d
    OBVIOUS
  <2> QED BY <1>1, <1>2, <2>1
<1>4. h[i + d].n \in Nat
  <2>1. h[i + d] \in Messages
    BY <1>1
  <2> QED BY <2>1 DEF Messages
<1>5. ASSUME AllAnswered(h, i + d)
      PROVE  AllAnswered(t, i)
  <2>1. i + 1 \in DOMAIN t /\ t[i + 1] = h[i + d + 1]
    BY <1>1, <1>2, <1>5 DEF AllAnswered
  <2>2. \A k \in 1..h[i + d].n : i + d + k \in DOMAIN h => i + k \in DOMAIN t /\ t[i + k] = h[i + d + k]
    BY <1>1, <1>2, <1>4
  <2> QED BY <1>3, <1>5, <2>1, <2>2 DEF AllAnswered, SameRound
<1>6. ASSUME i + d = 1 => i = 1, FollowsCall(h, i + d)
      PROVE  FollowsCall(t, i)
  <2>1. CASE i = 1
    BY <2>1 DEF FollowsCall
  <2>2. CASE i # 1
    <3>1. i + d + (-1) \in DOMAIN h /\ i + (-1) >= 1 /\ i + d + (-1) = i + d - 1 /\ i + (-1) = i - 1
      BY <1>1, <1>6, <2>2
    <3>2. t[i - 1] = h[i + d - 1]
      BY <1>2, <3>1
    <3> QED BY <1>3, <1>6, <2>2, <3>2 DEF FollowsCall, SameRound
  <2> QED BY <2>1, <2>2
<1> QED BY <1>3, <1>5, <1>6

(* A history without its first messages. *)
LEMMA Suffix ==
  ASSUME NEW h \in Seq(Messages), NEW s \in 1..(Len(h) + 1), Whole(h)
  PROVE  LET t == SubSeq(h, s, Len(h)) IN
         /\ t \in Seq(Messages) /\ Len(t) = Len(h) - s + 1
         /\ \A i \in 1..Len(t) : t[i] = h[s + i - 1]
         /\ Whole(t)
<1> DEFINE t == SubSeq(h, s, Len(h))
           d == s - 1
<1>1. Len(h) \in Nat /\ DOMAIN h = 1..Len(h) /\ s \in Int /\ \A i \in s..Len(h) : h[i] \in Messages
  OBVIOUS
<1>2. t \in Seq(Messages) /\ Len(t) = Len(h) - s + 1 /\ \A i \in 1..(Len(h) - s + 1) : t[i] = h[s + i - 1]
  BY <1>1, SubSeqProperties
<1>3. DOMAIN t = 1..Len(t) /\ d \in Nat
  BY <1>2
<1> HIDE DEF t
<1>4. ASSUME NEW k \in 1..Len(h), k - d >= 1
      PROVE  k - d \in 1..Len(t) /\ t[k - d] = h[k]
  <2>1. k - d \in 1..(Len(h) - s + 1) /\ s + (k - d) - 1 = k
    BY <1>1, <1>4
  <2> QED BY <1>2, <2>1
<1>5. ASSUME NEW i \in 1..Len(t)
      PROVE  i + d \in 1..Len(h) /\ (i + d = 1 => i = 1)
  BY <1>1, <1>2
<1>6. \A i \in DOMAIN h : /\ h[i].kind = "calls" => AllAnswered(h, i)
                          /\ h[i].kind = "results" => FollowsCall(h, i)
  BY DEF Whole
<1> HIDE DEF d
<1>7. ASSUME NEW i \in 1..Len(t)
      PROVE  /\ t[i].kind = "calls" => AllAnswered(t, i)
             /\ t[i].kind = "results" => FollowsCall(t, i)
  <2>1. d \in Int
    BY <1>3
  <2>2. /\ t[i] = h[i + d]
        /\ AllAnswered(h, i + d) => AllAnswered(t, i)
        /\ FollowsCall(h, i + d) => FollowsCall(t, i)
    BY <1>2, <1>4, <1>5, <2>1, Moved
  <2>3. i + d \in DOMAIN h
    BY <1>1, <1>5
  <2> HIDE DEF d
  <2> QED BY <1>6, <2>2, <2>3, Zenon
<1>8. Whole(t)
  BY <1>3, <1>7 DEF Whole
<1> QED BY <1>2, <1>8 DEF t

(* A history that goes on after a summary. *)
LEMMA Summarized ==
  ASSUME NEW h \in Seq(Messages), Whole(h), NEW x \in Messages, x.kind = "summary"
  PROVE  LET t == <<x>> \o h IN
         /\ t \in Seq(Messages) /\ Len(t) = Len(h) + 1 /\ t[1] = x
         /\ \A i \in 1..Len(h) : t[i + 1] = h[i]
         /\ Whole(t)
<1> DEFINE t == <<x>> \o h
<1>1. Len(h) \in Nat /\ DOMAIN h = 1..Len(h) /\ <<x>> \in Seq(Messages) /\ Len(<<x>>) = 1 /\ <<x>>[1] = x
  OBVIOUS
<1>2. t \in Seq(Messages) /\ Len(t) = 1 + Len(h) /\ \A i \in 1..(1 + Len(h)) : t[i] = IF i <= 1 THEN <<x>>[i] ELSE h[i - 1]
  BY <1>1, ConcatProperties
<1> HIDE DEF t
<1>3. t[1] = x /\ DOMAIN t = 1..(Len(h) + 1) /\ \A i \in 1..Len(h) : t[i + 1] = h[i]
  BY <1>1, <1>2
<1>4. \A k \in 1..Len(h) : k - (-1) \in 1..Len(t) /\ t[k - (-1)] = h[k]
  BY <1>1, <1>2, <1>3
<1> DEFINE Sound(j) == /\ h[j].kind = "calls" => AllAnswered(h, j)
                       /\ h[j].kind = "results" => FollowsCall(h, j)
<1>0. \A j \in DOMAIN h : Sound(j)
  BY DEF Whole
<1>5. ASSUME NEW i \in 1..Len(t), i # 1
      PROVE  /\ t[i].kind = "calls" => AllAnswered(t, i)
             /\ t[i].kind = "results" => FollowsCall(t, i)
  <2>1. i + (-1) \in DOMAIN h /\ -1 \in Int
    BY <1>1, <1>2, <1>5
  <2>2. t[i] = h[i + (-1)] /\ (AllAnswered(h, i + (-1)) => AllAnswered(t, i))
    BY <1>1, <1>2, <1>4, <2>1, Moved
  <2>3. Sound(i + (-1))
    <3> HIDE DEF Sound
    <3> QED BY <1>0, <2>1
  <2>4. CASE i = 2
    BY <1>1, <1>3, <2>2, <2>3, <2>4 DEF FollowsCall
  <2>5. CASE i # 2
    <3>1. i + (-1) # 1
      BY <1>1, <1>2, <2>5
    <3>2. FollowsCall(h, i + (-1)) => FollowsCall(t, i)
      BY <1>1, <1>2, <1>4, <2>1, <3>1, Moved
    <3> QED BY <2>2, <2>3, <3>2
  <2> QED BY <2>4, <2>5
<1>6. Whole(t)
  BY <1>2, <1>3, <1>5 DEF Whole
<1> QED BY <1>2, <1>3, <1>6 DEF t

(* What is sound in itself may follow a history, unless it begins with     *)
(* results.                                                                *)
LEMMA Grown ==
  ASSUME NEW h \in Seq(Messages), NEW g \in Seq(Messages), Whole(h), Whole(g),
         1 \in DOMAIN g => g[1].kind # "results"
  PROVE  LET t == h \o g IN
         /\ t \in Seq(Messages) /\ Len(t) = Len(h) + Len(g)
         /\ \A i \in 1..Len(h) : t[i] = h[i]
         /\ \A i \in 1..Len(g) : t[Len(h) + i] = g[i]
         /\ Whole(t)
<1> DEFINE t == h \o g
           Sound(m, j) == /\ m[j].kind = "calls" => AllAnswered(m, j)
                          /\ m[j].kind = "results" => FollowsCall(m, j)
           b == Len(h)
           d == 0 - b
<1>1. Len(h) \in Nat /\ Len(g) \in Nat /\ DOMAIN h = 1..Len(h) /\ DOMAIN g = 1..Len(g)
  OBVIOUS
<1>2. /\ t \in Seq(Messages) /\ Len(t) = Len(h) + Len(g)
      /\ \A i \in 1..(Len(h) + Len(g)) : t[i] = IF i <= Len(h) THEN h[i] ELSE g[i - Len(h)]
  BY <1>1, ConcatProperties
<1> HIDE DEF t
<1>3. DOMAIN t = 1..(Len(h) + Len(g)) /\ \A i \in 1..Len(h) : t[i] = h[i]
  BY <1>1, <1>2
<1>4. ASSUME NEW i \in 1..Len(g)
      PROVE  b + i \in DOMAIN t /\ t[b + i] = g[i]
  <2> DEFINE j == b + i
  <2>1. j \in 1..(Len(h) + Len(g)) /\ ~(j <= Len(h)) /\ j - Len(h) = i
    BY <1>1
  <2> HIDE DEF j
  <2>2. t[j] = g[i]
    BY <1>2, <2>1
  <2> QED BY <1>3, <2>1, <2>2 DEF j
<1>5. (\A j \in DOMAIN h : Sound(h, j)) /\ (\A j \in DOMAIN g : Sound(g, j))
  BY DEF Whole
<1>6. ASSUME NEW i \in 1..Len(h)
      PROVE  Sound(t, i)
  <2> DEFINE z == 0
  <2>1. /\ z \in Int /\ i + z = i /\ i + z \in 1..Len(h)
        /\ \A k \in 1..Len(h) : k - z >= 1 => k - z \in 1..Len(t) /\ t[k - z] = h[k]
    BY <1>1, <1>2, <1>3
  <2> HIDE DEF z
  <2>2. /\ t[i] = h[i]
        /\ AllAnswered(h, i) => AllAnswered(t, i)
        /\ FollowsCall(h, i) => FollowsCall(t, i)
    <3>1. i \in 1..Len(t)
      BY <1>1, <1>2
    <3>2. /\ t[i] = h[i + z]
          /\ AllAnswered(h, i + z) => AllAnswered(t, i)
          /\ FollowsCall(h, i + z) => FollowsCall(t, i)
      BY <1>2, <2>1, <3>1, Moved
    <3> QED BY <2>1, <3>2
  <2> QED BY <1>1, <1>5, <2>2
<1>7. ASSUME NEW i \in 1..Len(g)
      PROVE  Sound(t, b + i)
  <2>1. /\ b + i \in 1..Len(t) /\ d \in Int /\ (b + i) + d = i
        /\ \A k \in 1..Len(g) : k - d = b + k
    BY <1>1, <1>2
  <2>2. \A k \in 1..Len(g) : k - d \in 1..Len(t) /\ t[k - d] = g[k]
    <3> HIDE DEF b, d
    <3> QED BY <1>2, <1>3, <1>4, <2>1
  <2>3. b + i = 1 => i = 1
    BY <1>1
  <2> HIDE DEF b, d
  <2>4. /\ t[b + i] = g[i]
        /\ AllAnswered(g, i) => AllAnswered(t, b + i)
        /\ (i = 1 => b + i = 1) /\ FollowsCall(g, i) => FollowsCall(t, b + i)
    <3> DEFINE j == b + i
    <3>1. j \in 1..Len(t) /\ j + d \in 1..Len(g)
      BY <2>1
    <3> HIDE DEF j
    <3>2. /\ t[j] = g[j + d]
          /\ AllAnswered(g, j + d) => AllAnswered(t, j)
          /\ (j + d = 1 => j = 1) /\ FollowsCall(g, j + d) => FollowsCall(t, j)
      BY <1>2, <2>1, <2>2, <3>1, Moved
    <3> QED BY <2>1, <3>2 DEF j
  <2>5. CASE i = 1
    BY <1>1, <1>5, <2>4, <2>5
  <2>6. CASE i # 1
    BY <1>1, <1>5, <2>4, <2>6
  <2> QED BY <2>5, <2>6
<1>8. Whole(t)
  <2>1. ASSUME NEW i \in DOMAIN t
        PROVE  Sound(t, i)
    <3>1. CASE i \in 1..Len(h)
      BY <1>6, <3>1
    <3>2. CASE i \notin 1..Len(h)
      <4>1. i - b \in 1..Len(g) /\ b + (i - b) = i
        BY <1>1, <1>3, <3>2
      <4> HIDE DEF b, Sound
      <4> QED BY <1>7, <4>1
    <3> QED BY <3>1, <3>2
  <2> QED BY <2>1 DEF Whole
<1> QED BY <1>2, <1>3, <1>4, <1>8 DEF t

(* A message that is neither calls nor results. *)
LEMMA Single ==
  ASSUME NEW x \in Messages, x.kind \notin {"calls", "results"}
  PROVE  <<x>> \in Seq(Messages) /\ Whole(<<x>>) /\ <<x>>[1].kind # "results"
BY DEF Whole

LEMMA Appended ==
  ASSUME NEW h \in Seq(Messages), Whole(h), NEW x \in Messages, x.kind \notin {"calls", "results"}
  PROVE  LET t == Append(h, x) IN
         /\ t \in Seq(Messages) /\ Len(t) = Len(h) + 1
         /\ \A i \in 1..Len(h) : t[i] = h[i]
         /\ t[Len(h) + 1] = x
         /\ Whole(t)
<1> DEFINE t == h \o <<x>>
<1>1. Append(h, x) = t
  OBVIOUS
<1>2. <<x>> \in Seq(Messages) /\ Len(<<x>>) = 1 /\ <<x>>[1] = x
  OBVIOUS
<1>3. /\ t \in Seq(Messages) /\ Len(t) = Len(h) + Len(<<x>>)
      /\ \A i \in 1..Len(h) : t[i] = h[i]
      /\ \A i \in 1..Len(<<x>>) : t[Len(h) + i] = <<x>>[i]
      /\ Whole(t)
  BY <1>2, Single, Grown
<1> HIDE DEF t
<1> QED BY <1>1, <1>2, <1>3

(* What a round adds: the calls, then their results. *)
LEMMA RoundMessages ==
  ASSUME CoreTypeOK, Fits, pc = "executing"
  PROVE  LET g == <<Message("calls", Len(calls), <<>>)>> \o ResultMessages IN
         /\ g \in Seq(Messages) /\ Len(g) = 1 + (IF native THEN Len(calls) ELSE 1)
         /\ Message("calls", Len(calls), <<>>) \in Messages /\ ResultMessages \in Seq(Messages)
         /\ g[1].kind = "calls"
         /\ \A i \in 1..Len(g) : g[i].turn = turn /\ g[i].round = round
         /\ \A i \in 2..Len(g) : /\ g[i].kind = "results" /\ g[i].n = i - 1
                                 /\ g[i].said = IF native THEN <<outcome[i - 1]>> ELSE outcome
         /\ Whole(g)
<1> DEFINE c == Message("calls", Len(calls), <<>>)
           r == ResultMessages
           g == <<c>> \o r
<1>1. /\ turn \in Nat \ {0} /\ round \in 0..MaxIterations
      /\ Len(calls) \in Nat \ {0} /\ Len(outcome) = Len(calls) /\ outcome \in Seq(Outcomes)
      /\ native \in BOOLEAN
  <2>1. turn # 0 /\ turn \in 0..MaxTurns /\ calls # <<>> /\ calls \in Seq(Call)
    BY DEF CoreTypeOK, Fits, Loop, InRound
  <2>2. native \in BOOLEAN
    BY DEF Fits
  <2>3. Len(calls) # 0
    BY <2>1
  <2> QED BY <2>1, <2>2, <2>3, Consts DEF CoreTypeOK, Fits
<1>2. c \in Messages /\ c.kind = "calls" /\ c.n = Len(calls) /\ c.turn = turn /\ c.round = round
  BY <1>1 DEF Message, Messages, Kinds
<1> DEFINE Tells(m, k, said) ==
             /\ m \in Messages /\ m.kind = "results" /\ m.turn = turn /\ m.round = round
             /\ m.n = k /\ m.said = said
           Said(k) == IF native THEN <<outcome[k]>> ELSE outcome
<1>3. ASSUME NEW k \in Nat \ {0}, NEW said \in Seq(Outcomes)
      PROVE  Tells(Message("results", k, said), k, said)
  BY <1>1 DEF Message, Messages, Kinds
<1>4. /\ r \in Seq(Messages) /\ Len(r) = IF native THEN Len(calls) ELSE 1
      /\ \A k \in 1..Len(r) : Tells(r[k], k, Said(k))
  <2>1. DOMAIN outcome = 1..Len(calls) /\ \A k \in 1..Len(calls) : <<outcome[k]>> \in Seq(Outcomes)
    BY <1>1
  <2>2. CASE native
    <3>1. r = [k \in 1..Len(calls) |-> Message("results", k, <<outcome[k]>>)]
      BY <2>1, <2>2 DEF ResultMessages, Results
    <3>2. \A k \in 1..Len(calls) : k \in Nat \ {0}
      BY <1>1
    <3> HIDE DEF r
    <3>3. \A k \in 1..Len(calls) : Tells(r[k], k, <<outcome[k]>>)
      <4> SUFFICES ASSUME NEW k \in 1..Len(calls) PROVE Tells(r[k], k, <<outcome[k]>>)
        OBVIOUS
      <4>1. r[k] = Message("results", k, <<outcome[k]>>)
        BY <3>1
      <4>2. Tells(Message("results", k, <<outcome[k]>>), k, <<outcome[k]>>)
        BY <1>3, <2>1, <3>2
      <4> HIDE DEF Tells
      <4> QED BY <4>1, <4>2
    <3>4. r \in Seq(Messages) /\ Len(r) = Len(calls)
      <4>1. r \in [1..Len(calls) -> Messages]
        BY <3>1, <3>3
      <4> QED BY <1>1, <4>1
    <3> QED BY <2>2, <3>3, <3>4
  <2>3. CASE ~native
    <3>1. r = <<Message("results", 1, outcome)>>
      BY <2>3 DEF ResultMessages, Results
    <3>2. Message("results", 1, outcome) \in Messages
      BY <1>1, <1>3
    <3>3. r \in Seq(Messages) /\ Len(r) = 1 /\ r[1] = Message("results", 1, outcome)
      <4> HIDE DEF r
      <4> QED BY <3>1, <3>2
    <3>4. Tells(r[1], 1, outcome)
      BY <1>1, <1>3, <3>3
    <3> HIDE DEF r
    <3> QED BY <2>3, <3>3, <3>4
  <2> QED BY <2>2, <2>3
<1> HIDE DEF c, r
<1>5. /\ g \in Seq(Messages) /\ Len(g) = 1 + Len(r)
      /\ \A i \in 1..(1 + Len(r)) : g[i] = IF i <= 1 THEN <<c>>[i] ELSE r[i - 1]
  <2>1. <<c>> \in Seq(Messages) /\ Len(<<c>>) = 1
    BY <1>2
  <2> HIDE DEF Tells, Said
  <2> QED BY <1>4, <2>1, ConcatProperties
<1> HIDE DEF g
<1>6. Len(r) \in Nat \ {0} /\ DOMAIN g = 1..(1 + Len(r)) /\ g[1] = c
  <2>1. Len(r) \in Nat \ {0}
    <3> HIDE DEF Tells, Said
    <3> QED BY <1>1, <1>4
  <2>2. g[1] = <<c>>[1]
    BY <1>5, <2>1
  <2> QED BY <1>5, <2>1, <2>2
<1>7. ASSUME NEW i \in 2..Len(g)
      PROVE  Tells(g[i], i - 1, Said(i - 1))
  <2>1. i - 1 \in 1..Len(r) /\ g[i] = r[i - 1]
    BY <1>5, <1>6
  <2> HIDE DEF Tells, Said
  <2> QED BY <1>4, <2>1
<1>8. \A i \in 1..Len(g) : (g[i].turn = turn /\ g[i].round = round) /\ (i # 1 => i \in 2..Len(g))
  <2> SUFFICES ASSUME NEW i \in 1..Len(g) PROVE (g[i].turn = turn /\ g[i].round = round) /\ (i # 1 => i \in 2..Len(g))
    OBVIOUS
  <2>1. i # 1 => i \in 2..Len(g)
    BY <1>5, <1>6
  <2>2. CASE i = 1
    BY <1>2, <1>6, <2>2
  <2>3. CASE i # 1
    BY <1>7, <2>1, <2>3
  <2> QED BY <2>1, <2>2, <2>3
<1>9. AllAnswered(g, 1)
  <2>1. 1 + 1 \in DOMAIN g /\ 1 + 1 = 2 /\ 2 \in 2..Len(g) /\ 1 \in 1..Len(g) /\ 2 \in 1..Len(g)
    BY <1>5, <1>6
  <2>2. SameRound(g, 1, 1 + 1) /\ g[1 + 1].kind = "results"
    <3>1. Tells(g[2], 2 - 1, Said(2 - 1))
      BY <1>7, <2>1
    <3> QED BY <1>8, <2>1, <3>1 DEF SameRound
  <2>3. CASE ~native
    <3>1. g[2].said = outcome
      <4>1. Tells(g[2], 2 - 1, Said(2 - 1))
        BY <1>7, <2>1
      <4> QED BY <2>3, <4>1
    <3> QED BY <1>1, <1>2, <1>6, <2>1, <2>2, <2>3, <3>1 DEF AllAnswered
  <2>4. CASE native
    <3>1. ASSUME NEW k \in 1..Len(calls)
          PROVE  1 + k \in DOMAIN g /\ SameRound(g, 1, 1 + k) /\ g[1 + k].kind = "results" /\ g[1 + k].n = k
      <4> DEFINE i == 1 + k
      <4>1. i \in 2..Len(g) /\ i \in 1..Len(g) /\ i - 1 = k
        BY <1>1, <1>4, <1>5, <2>4
      <4> HIDE DEF i
      <4>2. Tells(g[i], i - 1, Said(i - 1))
        BY <1>7, <4>1
      <4> QED BY <1>5, <1>6, <1>8, <2>1, <4>1, <4>2 DEF SameRound, i
    <3> QED BY <1>2, <1>6, <2>1, <2>2, <3>1 DEF AllAnswered
  <2> QED BY <1>1, <2>3, <2>4
<1>10. ASSUME NEW i \in 2..Len(g)
       PROVE  FollowsCall(g, i)
  <2>1. i \in 1..Len(g) /\ i - 1 \in 1..Len(g)
    BY <1>5, <1>6
  <2>2. g[i - 1].kind \in {"calls", "results"}
    <3>1. CASE i - 1 = 1
      BY <1>2, <1>6, <3>1
    <3>2. CASE i - 1 # 1
      <4> DEFINE j == i - 1
      <4>1. j \in 2..Len(g)
        BY <1>8, <2>1, <3>2
      <4> HIDE DEF j
      <4>2. Tells(g[j], j - 1, Said(j - 1))
        BY <1>7, <4>1
      <4> QED BY <4>2 DEF j
    <3> QED BY <3>1, <3>2
  <2> QED BY <1>8, <2>1, <2>2 DEF FollowsCall, SameRound
<1>11. Whole(g)
  <2>1. ASSUME NEW i \in 1..Len(g)
        PROVE  (g[i].kind = "calls" => AllAnswered(g, i)) /\ (g[i].kind = "results" => FollowsCall(g, i))
    <3>1. CASE i = 1
      BY <1>2, <1>6, <1>9, <3>1
    <3>2. CASE i # 1
      BY <1>7, <1>8, <1>10, <3>2
    <3> QED BY <3>1, <3>2
  <2> QED BY <1>5, <1>6, <2>1 DEF Whole
<1>12. \A i \in 2..Len(g) : /\ g[i].kind = "results" /\ g[i].n = i - 1
                            /\ g[i].said = IF native THEN <<outcome[i - 1]>> ELSE outcome
  BY <1>7
<1>13. Len(g) = 1 + (IF native THEN Len(calls) ELSE 1)
  BY <1>4, <1>5
<1>14. c \in Messages /\ r \in Seq(Messages)
  BY <1>2, <1>4
<1> HIDE DEF Tells, Said
<1> QED BY <1>2, <1>5, <1>6, <1>14, <1>8, <1>11, <1>12, <1>13 DEF g, c, r

-----------------------------------------------------------------------------
LEMMA HistoryInitHolds == Init => HistoryInv
<1> SUFFICES ASSUME Init PROVE HistoryInv
  OBVIOUS
<1>1. CoreTypeOK
  BY InitHolds DEF GateInv
<1>2. Fits
  <2>1. turn \in 0..MaxTurns /\ round \in 0..MaxIterations /\ cleared \in 0..turn
    BY Consts DEF Init
  <2>2. <<native, parallel, cancelled>> \in BOOLEAN \X BOOLEAN \X BOOLEAN /\ allowlist \subseteq Tools
    BY DEF Init
  <2>3. approved = {} /\ effects = {} /\ pc = "idle"
    BY DEF Init
  <2> QED BY <2>1, <2>2, <2>3 DEF Fits, Loop, InRound
<1>3. Kept /\ Recorded
  <2>1. history \in Seq(Messages) /\ Len(history) = 0
    BY DEF Init
  <2> QED BY <2>1 DEF Init, Kept, Recorded, Loop
<1>4. ResultsWhole /\ EffectsAreTold /\ NothingForgotten
  BY DEF Init, ResultsWhole, Whole, EffectsAreTold, NothingForgotten, Loop
<1> QED BY <1>1, <1>2, <1>3, <1>4 DEF HistoryInv

LEMMA FitsStep ==
  ASSUME HistoryInv, CoreTypeOK', [Next]_vars
  PROVE  Fits'
<1>0. CoreTypeOK /\ Fits
  BY DEF HistoryInv
<1> USE Consts DEF Fits, Loop, InRound, fixed, loop, manager
<1>1. CASE UNCHANGED vars
  BY <1>0, <1>1 DEF vars
<1>2. CASE BeginTurn
  BY <1>0, <1>2 DEF BeginTurn
<1>3. CASE Clear \/ Quit \/ Settle
  BY <1>0, <1>3 DEF Clear, Quit, Settle
<1>4. CASE Cancel
  BY <1>0, <1>4 DEF Cancel
<1>5. ASSUME Fail, UNCHANGED <<fixed, turn, round, cancelled, manager, effects, cleared>> PROVE Fits'
  BY <1>0, <1>5 DEF Fail, ForgetCalls
<1>6. CASE Drop
  BY <1>5, <1>6 DEF Drop
<1>7. CASE StartRound
  BY <1>0, <1>5, <1>7 DEF StartRound
<1>8. CASE Answer
  <2>1. ASSUME NEW r \in Responses, pc' = "gating", calls' = r, native' \in BOOLEAN, parallel' = MayRunInParallel(r)
        PROVE  Fits'
    <3>1. r # <<>>
      BY AgentAssumption DEF AgentAssumption
    <3>2. parallel' \in BOOLEAN
      BY <2>1 DEF MayRunInParallel
    <3> QED BY <1>0, <1>8, <2>1, <3>1, <3>2 DEF Answer
  <2> QED BY <1>0, <1>5, <1>8, <2>1 DEF Answer
<1>9. CASE Reply
  BY <1>0, <1>5, <1>9 DEF Reply
<1>10. CASE Gate
  <2> DEFINE k == gated + 1
  <2>1. pc = "gating" /\ k \in 1..Len(calls) /\ UNCHANGED <<fixed, pc, turn, round, native, parallel, cancelled, effects, cleared>>
    BY <1>0, <1>10 DEF Gate, CoreTypeOK
  <2>2. calls' # <<>>
    <3>1. calls \in Seq(Call) /\ \A c : [calls EXCEPT ![k] = c] # <<>>
      BY <1>0, <2>1 DEF CoreTypeOK
    <3> QED BY <1>0, <1>10, <2>1, <3>1 DEF Gate, Hook, Prompt, GoAhead
  <2>3. allowlist' \subseteq Tools /\ approved' \subseteq Nat \X Nat
    <3>1. calls[k].tool \in Tools /\ <<round, k>> \in Nat \X Nat
      <4>1. calls[k] \in Call /\ round \in Nat /\ k \in Nat
        BY <1>0, <2>1 DEF CoreTypeOK
      <4> QED BY <4>1 DEF Call
    <3>2. CASE Prompt(k)
      <4> HIDE DEF k
      <4>1. PICK decision \in {"yes", "no", "always"} : RecordDecision(k, decision)
        BY <3>2 DEF Prompt
      <4> QED BY <1>0, <3>1, <4>1 DEF RecordDecision
    <3>3. CASE Hook(k) \/ GoAhead(k)
      BY <1>0, <3>3 DEF Hook, GoAhead
    <3> QED BY <1>10, <3>2, <3>3 DEF Gate
  <2> QED BY <1>0, <2>1, <2>2, <2>3
<1>11. CASE Execute
  BY <1>0, <1>11 DEF Execute
<1>12. CASE RunTool
  <2>1. effects' \subseteq [round : 0..MaxIterations, at : Nat \ {0}, call : Call]
    BY <1>0, <1>12 DEF RunTool, CoreTypeOK
  <2> QED BY <1>0, <1>12, <2>1 DEF RunTool
<1>13. CASE FinishRound
  <2>1. CASE round' = round + 1 /\ pc' = "round" /\ ForgetCalls
    <3>1. round \in 0..MaxIterations /\ round < MaxIterations
      BY <1>0, <1>13 DEF FinishRound
    <3>2. round' \in 0..MaxIterations
      BY <2>1, <3>1
    <3>3. UNCHANGED <<fixed, turn, cancelled, manager, effects, cleared>>
      BY <1>13 DEF FinishRound
    <3>4. pc' = "round" /\ native' = FALSE /\ parallel' = FALSE
      BY <2>1 DEF ForgetCalls
    <3>5. pc = "executing"
      BY <1>13 DEF FinishRound
    <3> QED BY <1>0, <3>2, <3>3, <3>4, <3>5
  <2> QED BY <1>5, <1>13, <2>1 DEF FinishRound
<1> QED BY <1>1, <1>2, <1>3, <1>4, <1>6, <1>7, <1>8, <1>9, <1>10, <1>11, <1>12, <1>13 DEF Next, Step

-----------------------------------------------------------------------------
(* A history between turns is cut after a whole number of messages, and    *)
(* begins with a summary if the bounds leave room for one.                 *)
LEMMA Settled ==
  ASSUME NEW h \in Seq(Messages), Whole(h), h # <<>>, turn \in Nat \ {0}, round \in 0..MaxIterations,
         \A i \in 1..Len(h) : h[i].turn <= turn
  PROVE  LET t == Trim(Compact(h)) IN
         /\ t \in Seq(Messages) /\ Whole(t) /\ t # <<>>
         /\ \A i \in 1..Len(t) : t[i].turn <= turn
         /\ KeepRecent < MaxHistory => t = h \/ t[1].kind = "summary"
<1> DEFINE Good(s) == /\ s \in Seq(Messages) /\ Whole(s) /\ s # <<>>
                      /\ \A i \in 1..Len(s) : s[i].turn <= turn
           c == Compact(h)
<1>1. Good(h) /\ Len(h) \in Nat \ {0}
  OBVIOUS
<1>2. ASSUME NEW s \in 1..(Len(h) + 1)
      PROVE  /\ SubSeq(h, s, Len(h)) \in Seq(Messages) /\ Whole(SubSeq(h, s, Len(h)))
             /\ Len(SubSeq(h, s, Len(h))) = Len(h) - s + 1
             /\ \A i \in 1..Len(SubSeq(h, s, Len(h))) : SubSeq(h, s, Len(h))[i].turn <= turn
  <2> DEFINE u == SubSeq(h, s, Len(h))
  <2>1. u \in Seq(Messages) /\ Whole(u) /\ Len(u) = Len(h) - s + 1 /\ \A i \in 1..Len(u) : u[i] = h[s + i - 1]
    BY Suffix
  <2> HIDE DEF u
  <2>2. \A i \in 1..Len(u) : s + i - 1 \in 1..Len(h)
    BY <2>1
  <2>3. \A i \in 1..Len(u) : u[i].turn <= turn
    BY <2>1, <2>2
  <2> QED BY <2>1, <2>3 DEF u
<1>3. /\ Good(c)
      /\ c = h \/ (Len(c) = KeepRecent + 1 /\ Len(h) > MaxHistory /\ c[1].kind = "summary")
      /\ KeepRecent < MaxHistory => (c = h /\ Len(c) <= MaxHistory) \/ Len(c) = KeepRecent + 1
  <2>1. CASE Len(h) <= Max({MaxHistory, KeepRecent})
    <3>1. c = h
      BY <2>1 DEF Compact
    <3>2. KeepRecent < MaxHistory => Len(h) <= MaxHistory
      BY <1>1, <2>1, Consts, Larger
    <3> QED BY <1>1, <3>1, <3>2
  <2>2. CASE ~(Len(h) <= Max({MaxHistory, KeepRecent}))
    <3> DEFINE x == Message("summary", 0, <<>>)
               s == Len(h) - KeepRecent + 1
               u == SubSeq(h, s, Len(h))
    <3>1. c = <<x>> \o u
      BY <2>2 DEF Compact
    <3>2. Len(h) > KeepRecent /\ Len(h) > MaxHistory
      BY <1>1, <2>2, Consts, Larger
    <3>3. s \in 1..(Len(h) + 1) /\ Len(h) - s + 1 = KeepRecent
      BY <1>1, <3>2, Consts
    <3>4. u \in Seq(Messages) /\ Whole(u) /\ Len(u) = KeepRecent /\ \A i \in 1..Len(u) : u[i].turn <= turn
      <4> HIDE DEF s
      <4> QED BY <1>2, <3>3
    <3>5. x \in Messages /\ x.kind = "summary" /\ x.turn = turn
      BY DEF Message, Messages, Kinds
    <3> HIDE DEF c, x, u
    <3>6. /\ c \in Seq(Messages) /\ Len(c) = KeepRecent + 1 /\ c[1] = x
          /\ \A i \in 1..Len(u) : c[i + 1] = u[i]
          /\ Whole(c)
      BY <3>1, <3>4, <3>5, Summarized
    <3>7. ASSUME NEW i \in 1..Len(c)
          PROVE  c[i].turn <= turn
      <4>1. CASE i = 1
        BY <3>5, <3>6, <4>1
      <4>2. CASE i # 1
        <5>1. i - 1 \in 1..Len(u) /\ (i - 1) + 1 = i
          BY <3>4, <3>6, <4>2, Consts
        <5> QED BY <3>4, <3>6, <5>1
      <4> QED BY <4>1, <4>2
    <3>8. c # <<>>
      BY <3>6, Consts
    <3> QED BY <3>2, <3>5, <3>6, <3>7, <3>8
  <2> QED BY <2>1, <2>2
<1> HIDE DEF c
<1>4. CASE Len(c) <= MaxHistory
  <2>1. Trim(c) = c
    BY <1>4 DEF Trim
  <2> QED BY <1>3, <2>1 DEF c
<1>5. CASE ~(Len(c) <= MaxHistory)
  <2> DEFINE s == Len(c) - MaxHistory + 1
             t == SubSeq(c, s, Len(c))
  <2>1. Trim(c) = t
    BY <1>5 DEF Trim
  <2>2. Len(c) \in Nat /\ s \in 1..(Len(c) + 1) /\ s \in 1..Len(c) /\ Len(c) - s + 1 = MaxHistory
    BY <1>3, <1>5, Consts
  <2> HIDE DEF s
  <2>3. t \in Seq(Messages) /\ Len(t) = MaxHistory /\ Whole(t) /\ \A i \in 1..Len(t) : t[i] = c[s + i - 1]
    BY <1>3, <2>2, Suffix
  <2> HIDE DEF t
  <2>4. ASSUME NEW i \in 1..Len(t)
        PROVE  t[i].turn <= turn
    <3>1. s + i - 1 \in 1..Len(c)
      BY <2>2, <2>3, Consts
    <3> QED BY <1>3, <2>3, <3>1
  <2>5. t # <<>>
    BY <2>3, Consts
  <2>6. ~(KeepRecent < MaxHistory)
    BY <1>3, <1>5, Consts
  <2> QED BY <2>1, <2>3, <2>4, <2>5, <2>6 DEF c
<1> QED BY <1>4, <1>5

(* The history when a round is over. *)
LEMMA RoundRecorded ==
  ASSUME HistoryInv, pc = "executing",
         history' = history \o <<Message("calls", Len(calls), <<>>)>> \o ResultMessages
  PROVE  /\ history' \in Seq(Messages) /\ Whole(history')
         /\ Len(history) \in Nat
         /\ Len(history') = Len(history) + 1 + (IF native THEN Len(calls) ELSE 1)
         /\ \A i \in 1..Len(history) : history'[i] = history[i]
         /\ \A i \in 1..Len(history') : i > Len(history) =>
              /\ history'[i].turn = turn /\ history'[i].round = round
              /\ i = Len(history) + 1 => history'[i].kind = "calls"
              /\ i # Len(history) + 1 =>
                   /\ history'[i].kind = "results" /\ history'[i].n = i - Len(history) - 1
                   /\ history'[i].said = IF native THEN <<outcome[i - Len(history) - 1]>> ELSE outcome
<1> DEFINE c == Message("calls", Len(calls), <<>>)
           g == <<c>> \o ResultMessages
           h == history
<1>1. CoreTypeOK /\ Fits /\ h \in Seq(Messages) /\ Whole(h)
  BY DEF HistoryInv, Kept, ResultsWhole
<1>2. /\ g \in Seq(Messages) /\ Len(g) = 1 + (IF native THEN Len(calls) ELSE 1)
      /\ c \in Messages /\ ResultMessages \in Seq(Messages)
      /\ g[1].kind = "calls"
      /\ \A i \in 1..Len(g) : g[i].turn = turn /\ g[i].round = round
      /\ \A i \in 2..Len(g) : /\ g[i].kind = "results" /\ g[i].n = i - 1
                              /\ g[i].said = IF native THEN <<outcome[i - 1]>> ELSE outcome
      /\ Whole(g)
  BY <1>1, RoundMessages
<1>3. history' = h \o g
  <2>1. <<c>> \in Seq(Messages)
    BY <1>2
  <2>2. (h \o <<c>>) \o ResultMessages = h \o (<<c>> \o ResultMessages)
    BY <1>1, <1>2, <2>1, ConcatAssociative
  <2> QED BY <2>2
<1> DEFINE t == h \o g
<1> HIDE DEF g
<1>4. /\ t \in Seq(Messages) /\ Len(t) = Len(h) + Len(g)
      /\ \A i \in 1..Len(h) : t[i] = h[i]
      /\ \A i \in 1..Len(g) : t[Len(h) + i] = g[i]
      /\ Whole(t)
  BY <1>1, <1>2, Grown
<1>5. Len(h) \in Nat /\ Len(calls) \in Nat /\ Len(g) \in Nat
  BY <1>1 DEF CoreTypeOK
<1> HIDE DEF t
<1>6. ASSUME NEW i \in 1..Len(t), i > Len(h)
      PROVE  /\ t[i].turn = turn /\ t[i].round = round
             /\ i = Len(h) + 1 => t[i].kind = "calls"
             /\ i # Len(h) + 1 =>
                  /\ t[i].kind = "results" /\ t[i].n = i - Len(h) - 1
                  /\ t[i].said = IF native THEN <<outcome[i - Len(h) - 1]>> ELSE outcome
  <2> DEFINE j == i - Len(h)
  <2>1. j \in 1..Len(g) /\ Len(h) + j = i /\ (i # Len(h) + 1 => j \in 2..Len(g)) /\ (i = Len(h) + 1 => j = 1)
    BY <1>4, <1>5, <1>6
  <2>2. t[i] = g[j]
    <3> HIDE DEF j
    <3> QED BY <1>4, <2>1
  <2> HIDE DEF j
  <2>3. t[i].turn = turn /\ t[i].round = round
    BY <1>2, <2>1, <2>2
  <2>4. i = Len(h) + 1 => t[i].kind = "calls"
    BY <1>2, <2>1, <2>2
  <2>5. i # Len(h) + 1 => /\ t[i].kind = "results" /\ t[i].n = j - 1
                          /\ t[i].said = IF native THEN <<outcome[j - 1]>> ELSE outcome
    BY <1>2, <2>1, <2>2
  <2> QED BY <2>3, <2>4, <2>5 DEF j
<1>7. Len(t) = Len(h) + 1 + (IF native THEN Len(calls) ELSE 1)
  <2> DEFINE n == IF native THEN Len(calls) ELSE 1
  <2>1. n \in Nat
    BY <1>5
  <2>2. Len(g) = 1 + n
    BY <1>2
  <2> HIDE DEF n
  <2>3. Len(t) = Len(h) + 1 + n
    BY <1>4, <1>5, <2>1, <2>2
  <2> QED BY <2>3 DEF n
<1>8. history' = t
  BY <1>3 DEF t
<1> HIDE DEF h
<1>9. h = history
  BY DEF h
<1> QED BY <1>4, <1>5, <1>6, <1>7, <1>8, <1>9

LEMMA KeptStep ==
  ASSUME HistoryInv, Fits', [Next]_vars
  PROVE  Kept' /\ ResultsWhole' /\ NothingForgotten'
<1>0. /\ CoreTypeOK /\ Fits /\ Kept /\ Whole(history) /\ NothingForgotten
      /\ turn \in Nat /\ round \in 0..MaxIterations /\ round \in Nat
      /\ Len(history) \in Nat
  BY Consts DEF HistoryInv, ResultsWhole, Fits, Kept
<1> DEFINE Running == pc \in Loop \cup {"settling"}
<1>1. ASSUME UNCHANGED <<turn, history, cleared>>, Running' => Running
      PROVE  Kept' /\ ResultsWhole' /\ NothingForgotten'
  <2>1. Kept'
    BY <1>0, <1>1 DEF Kept
  <2>2. ResultsWhole' /\ NothingForgotten'
    BY <1>0, <1>1 DEF ResultsWhole, NothingForgotten
  <2> QED BY <2>1, <2>2
<1>2. ASSUME NEW x \in Messages, x.kind \in {"user", "assistant"}, x.turn = turn', turn <= turn',
             history' = Append(history, x), UNCHANGED cleared,
             history = <<>> => x.kind = "user" /\ x.turn = cleared + 1
      PROVE  Kept' /\ ResultsWhole' /\ NothingForgotten'
  <2>1. /\ history' \in Seq(Messages) /\ Len(history') = Len(history) + 1
        /\ \A i \in 1..Len(history) : history'[i] = history[i]
        /\ history'[Len(history) + 1] = x
        /\ Whole(history')
    BY <1>0, <1>2, Appended DEF Kept
  <2>2. history' # <<>> /\ (history = <<>> => history'[1] = x) /\ (history # <<>> => history'[1] = history[1])
    BY <1>0, <2>1 DEF Kept
  <2>3. ASSUME NEW i \in 1..Len(history')
        PROVE  history'[i].turn <= turn'
    <3>1. turn' \in Nat
      BY <1>2 DEF Messages
    <3>2. CASE i = Len(history) + 1
      BY <1>2, <2>1, <3>1, <3>2
    <3>3. CASE i # Len(history) + 1
      <4>1. i \in 1..Len(history)
        BY <1>0, <2>1, <3>3
      <4>2. history[i].turn <= turn /\ history[i].turn \in Nat
        <5>1. history[i] \in Messages /\ history[i].turn <= turn
          BY <1>0, <4>1 DEF Kept
        <5> QED BY <5>1 DEF Messages
      <4> QED BY <1>0, <1>2, <2>1, <3>1, <4>1, <4>2
    <3> QED BY <3>2, <3>3
  <2>4. Kept' /\ ResultsWhole'
    BY <2>1, <2>2, <2>3 DEF Kept, ResultsWhole
  <2>5. NothingForgotten'
    BY <1>0, <1>2, <2>2 DEF NothingForgotten
  <2> QED BY <2>4, <2>5
<1>3. CASE BeginTurn
  <2> DEFINE x == [kind |-> "user", turn |-> turn + 1, round |-> 0, n |-> 0, said |-> <<>>]
  <2>1. x \in Messages /\ x.kind = "user" /\ x.turn = turn + 1
    <3>1. turn + 1 \in Nat \ {0} /\ 0 \in 0..MaxIterations /\ <<>> \in Seq(Outcomes)
      BY <1>0, Consts
    <3> QED BY <3>1 DEF Messages, Kinds
  <2>2. history' = Append(history, x) /\ turn' = turn + 1 /\ turn <= turn' /\ UNCHANGED cleared
    BY <1>0, <1>3 DEF BeginTurn
  <2>3. history = <<>> => x.turn = cleared + 1
    BY <1>0, <2>1 DEF Kept
  <2> HIDE DEF x
  <2> QED BY <1>2, <2>1, <2>2, <2>3
<1>4. CASE Reply /\ ~Fail
  <2> DEFINE x == Message("assistant", 0, <<>>)
  <2>1. history' = Append(history, x) /\ turn' = turn /\ UNCHANGED cleared /\ pc = "answering"
    BY <1>4 DEF Reply
  <2>2. turn # 0 /\ history # <<>>
    BY <1>0, <2>1 DEF Fits, Kept, Loop
  <2>3. x \in Messages /\ x.kind = "assistant" /\ x.turn = turn
    BY <1>0, <2>2, Consts DEF Message, Messages, Kinds
  <2> HIDE DEF x
  <2> QED BY <1>0, <1>2, <2>1, <2>2, <2>3
<1>5. CASE Clear
  <2>1. history' = <<>> /\ cleared' = turn' /\ ~Running'
    BY <1>5 DEF Clear, Loop
  <2> QED BY <2>1 DEF Kept, ResultsWhole, NothingForgotten, Whole
<1>6. CASE Settle
  <2>1. pc = "settling" /\ ~Running' /\ UNCHANGED <<turn, cleared>>
    BY <1>6 DEF Settle, Loop
  <2>2. CASE UNCHANGED history
    BY <1>1, <2>1, <2>2
  <2>3. CASE history' = Trim(Compact(history))
    <3>1. turn \in Nat \ {0} /\ history # <<>> /\ \A i \in 1..Len(history) : history[i].turn <= turn
      BY <1>0, <2>1 DEF Fits, Kept
    <3>2. /\ history' \in Seq(Messages) /\ Whole(history') /\ history' # <<>>
          /\ \A i \in 1..Len(history') : history'[i].turn <= turn
          /\ KeepRecent < MaxHistory => history' = history \/ history'[1].kind = "summary"
      BY <1>0, <2>3, <3>1, Settled DEF Kept
    <3>3. Kept' /\ ResultsWhole'
      BY <2>1, <3>2 DEF Kept, ResultsWhole
    <3>4. NothingForgotten'
      BY <1>0, <2>1, <3>2 DEF NothingForgotten
    <3> QED BY <3>3, <3>4
  <2> QED BY <1>6, <2>2, <2>3 DEF Settle
<1>7. CASE FinishRound /\ ~Fail
  <2>1. /\ pc = "executing" /\ UNCHANGED <<turn, cleared>>
        /\ history' = history \o <<Message("calls", Len(calls), <<>>)>> \o ResultMessages
    BY <1>7 DEF FinishRound
  <2>2. /\ history' \in Seq(Messages) /\ Whole(history')
        /\ Len(history') = Len(history) + 1 + (IF native THEN Len(calls) ELSE 1)
        /\ \A i \in 1..Len(history) : history'[i] = history[i]
        /\ \A i \in 1..Len(history') : i > Len(history) => history'[i].turn = turn
    BY <2>1, RoundRecorded
  <2>3. history # <<>> /\ Len(history') >= Len(history) /\ 1 \in 1..Len(history)
    <3>1. history # <<>>
      BY <1>0, <2>1 DEF Kept, Loop
    <3> DEFINE n == IF native THEN Len(calls) ELSE 1
    <3>2. n \in Nat /\ Len(history') = Len(history) + 1 + n
      BY <1>0, <2>2 DEF CoreTypeOK
    <3> HIDE DEF n
    <3>3. Len(history') >= Len(history)
      BY <1>0, <3>2
    <3>4. Len(history) # 0
      BY <1>0, <3>1 DEF Kept
    <3> QED BY <1>0, <3>1, <3>3, <3>4
  <2>4. \A i \in 1..Len(history') : history'[i].turn <= turn
    <3> SUFFICES ASSUME NEW i \in 1..Len(history') PROVE history'[i].turn <= turn
      OBVIOUS
    <3>1. CASE i > Len(history)
      <4>1. history'[i].turn = turn
        BY <2>2, <3>1, Zenon
      <4> QED BY <1>0, <4>1
    <3>2. CASE ~(i > Len(history))
      <4>1. i \in 1..Len(history)
        BY <1>0, <3>2
      <4> QED BY <1>0, <2>2, <4>1 DEF Kept
    <3> QED BY <3>1, <3>2
  <2>5. history' # <<>> /\ history'[1] = history[1]
    <3>1. history'[1] = history[1]
      BY <2>2, <2>3, Zenon
    <3>2. Len(history') \in Nat
      <4>1. history' \in Seq(Messages)
        BY <2>2, Zenon
      <4> QED BY <4>1
    <3>3. Len(history') # 0
      BY <1>0, <2>3, <3>2
    <3>4. history' # <<>>
      BY <3>3
    <3> QED BY <3>1, <3>4
  <2>6. Kept' /\ ResultsWhole'
    BY <2>1, <2>2, <2>4, <2>5 DEF Kept, ResultsWhole
  <2>7. NothingForgotten'
    BY <1>0, <2>1, <2>3, <2>5 DEF NothingForgotten
  <2> QED BY <2>6, <2>7
<1>8. CASE UNCHANGED vars
  BY <1>1, <1>8 DEF vars
<1>9. CASE Fail /\ UNCHANGED <<turn, cleared>>
  BY <1>1, <1>9 DEF Fail, Loop
<1>10. CASE Quit \/ Cancel \/ Drop \/ StartRound \/ Answer \/ Gate \/ Execute \/ RunTool
  <2>1. UNCHANGED <<turn, history, cleared>> /\ (Running' => Running)
    BY <1>10 DEF Quit, Cancel, Drop, StartRound, Answer, Gate, Execute, RunTool, Fail, Loop
  <2> QED BY <1>1, <2>1
<1>11. CASE (Reply \/ FinishRound) /\ Fail
  BY <1>9, <1>11 DEF Reply, FinishRound
<1> QED BY <1>3, <1>4, <1>5, <1>6, <1>7, <1>8, <1>10, <1>11 DEF Next, Step

(* A call runs, or comes to nothing. *)
LEMMA RunToolRecorded ==
  ASSUME HistoryInv, RunTool
  PROVE  Recorded' /\ EffectsAreTold'
<1>0. CoreTypeOK /\ Fits /\ Kept /\ Recorded /\ EffectsAreTold /\ round \in Nat
  BY DEF HistoryInv, CoreTypeOK
<1>1. pc = "executing" /\ pc' = "executing" /\ UNCHANGED <<turn, round, history>>
  BY DEF RunTool
<1>2. PICK k \in 1..Len(outcome) :
        /\ outcome[k] = "none"
        /\ \/ /\ \E out \in {"refused", "cut"} : outcome' = [outcome EXCEPT ![k] = out]
              /\ effects' = effects
           \/ /\ outcome' = [outcome EXCEPT ![k] = "done"]
              /\ effects' = effects \cup {[round |-> round, at |-> k, call |-> calls[k]]}
  BY <1>0 DEF RunTool, Runnable, Pending, CoreTypeOK
<1>3. /\ Len(outcome') = Len(outcome) /\ k \in 1..Len(outcome')
      /\ \A j \in 1..Len(outcome) : j # k => outcome'[j] = outcome[j]
      /\ outcome'[k] = "done" => \E e \in effects' : e.round = round /\ e.at = k
      /\ \A e \in effects' : e \in effects \/ (e.round = round /\ e.at = k /\ outcome'[k] = "done")
      /\ effects \subseteq effects'
  <2> DEFINE new == [round |-> round, at |-> k, call |-> calls[k]]
  <2>0. outcome \in Seq(Outcomes)
    BY <1>0 DEF CoreTypeOK
  <2>1. CASE outcome' = [outcome EXCEPT ![k] = "done"] /\ effects' = effects \cup {new}
    <3>1. new.round = round /\ new.at = k
      OBVIOUS
    <3>2. new \in effects' /\ \A e \in effects' : e \in effects \/ e = new
      BY <2>1
    <3>3. outcome'[k] = "done" /\ Len(outcome') = Len(outcome) /\ \A j \in 1..Len(outcome) : j # k => outcome'[j] = outcome[j]
      BY <2>0, <2>1
    <3> HIDE DEF new
    <3>4. effects \subseteq effects'
      BY <2>1
    <3> QED BY <3>1, <3>2, <3>3, <3>4
  <2>2. CASE (\E out \in {"refused", "cut"} : outcome' = [outcome EXCEPT ![k] = out]) /\ effects' = effects
    <3>1. outcome'[k] # "done" /\ Len(outcome') = Len(outcome) /\ \A j \in 1..Len(outcome) : j # k => outcome'[j] = outcome[j]
      BY <2>0, <2>2
    <3> QED BY <2>2, <3>1
  <2> QED BY <1>2, <2>1, <2>2
<1>4. /\ \A j \in 1..Len(outcome) : outcome[j] = "done" => \E e \in effects : e.round = round /\ e.at = j
      /\ \A e \in effects : e.round < round \/ (e.round = round /\ e.at \in 1..Len(outcome) /\ outcome[e.at] = "done")
      /\ \A i \in 1..Len(history) : history[i].kind = "results" /\ history[i].turn = turn => history[i].round < round
  BY <1>0, <1>1 DEF Recorded, Loop
<1>5. Recorded'
  <2>1. \A j \in 1..Len(outcome') : outcome'[j] = "done" => \E e \in effects' : e.round = round /\ e.at = j
    BY <1>3, <1>4
  <2>2. ASSUME NEW e \in effects'
        PROVE  e.round < round \/ (e.round = round /\ e.at \in 1..Len(outcome') /\ outcome'[e.at] = "done")
    <3>1. CASE e \in effects
      BY <1>2, <1>3, <1>4, <3>1
    <3>2. CASE e.round = round /\ e.at = k /\ outcome'[k] = "done"
      BY <1>3, <3>2
    <3> QED BY <1>3, <3>1, <3>2
  <2> QED BY <1>1, <1>4, <2>1, <2>2 DEF Recorded
<1>6. EffectsAreTold'
  <2>1. /\ \A e \in effects : e.round < round => \E i \in DOMAIN history : ResultsOf(i, e.round) /\ Told(i, e.at)
        /\ \A rd \in 0..(round - 1), i \in DOMAIN history : ResultsOf(i, rd) =>
             \A at \in DOMAIN history[i].said : history[i].said[at] = "done" =>
               \E e \in effects : e.round = rd /\ e.at = history[i].n + at - 1
    BY <1>0, <1>1 DEF EffectsAreTold, Loop
  <2>2. \A e \in effects' : e.round < round => \E i \in DOMAIN history : ResultsOf(i, e.round) /\ Told(i, e.at)
    BY <1>0, <1>3, <2>1
  <2>3. \A i \in DOMAIN history : \A n : (ResultsOf(i, n)' <=> ResultsOf(i, n)) /\ (Told(i, n)' <=> Told(i, n))
    BY <1>1 DEF ResultsOf, Told
  <2> QED BY <1>1, <1>3, <2>1, <2>2, <2>3 DEF EffectsAreTold
<1> QED BY <1>5, <1>6

(* A round is over: what it did is told. *)
LEMMA FinishRoundRecorded ==
  ASSUME HistoryInv, FinishRound, ~Fail
  PROVE  Recorded' /\ EffectsAreTold'
<1> DEFINE b == Len(history)
           len == Len(outcome)
<1>0. CoreTypeOK /\ Fits /\ Kept /\ Recorded /\ EffectsAreTold /\ round \in Nat
  BY DEF HistoryInv, CoreTypeOK
<1>1. /\ pc = "executing" /\ pc' = "round" /\ round' = round + 1 /\ UNCHANGED <<turn, effects>>
      /\ history' = history \o <<Message("calls", Len(calls), <<>>)>> \o ResultMessages
  BY DEF FinishRound
<1>2. /\ \A j \in 1..len : outcome[j] = "done" => \E e \in effects : e.round = round /\ e.at = j
      /\ \A e \in effects : e.round < round \/ (e.round = round /\ e.at \in 1..len /\ outcome[e.at] = "done")
      /\ \A i \in 1..b : history[i].kind = "results" /\ history[i].turn = turn => history[i].round < round
  BY <1>0, <1>1 DEF Recorded, Loop
<1>3. /\ history' \in Seq(Messages) /\ b \in Nat
      /\ Len(history') = b + 1 + (IF native THEN Len(calls) ELSE 1)
      /\ \A i \in 1..b : history'[i] = history[i]
      /\ \A i \in 1..Len(history') : i > b =>
           /\ history'[i].turn = turn /\ history'[i].round = round
           /\ i = b + 1 => history'[i].kind = "calls"
           /\ i # b + 1 => /\ history'[i].kind = "results" /\ history'[i].n = i - b - 1
                           /\ history'[i].said = IF native THEN <<outcome[i - b - 1]>> ELSE outcome
  BY <1>1, RoundRecorded
<1>4. /\ len \in Nat \ {0} /\ len = Len(calls) /\ outcome \in Seq(Outcomes) /\ native \in BOOLEAN
      /\ DOMAIN history = 1..b /\ DOMAIN outcome = 1..len
      /\ turn \in Nat
  <2>1. calls # <<>> /\ calls \in Seq(Call) /\ Len(outcome) = Len(calls) /\ outcome \in Seq(Outcomes)
    BY <1>0, <1>1 DEF CoreTypeOK, Fits, InRound
  <2>2. native \in BOOLEAN /\ turn \in Nat
    BY <1>0, Consts DEF Fits
  <2>3. DOMAIN history = 1..b
    BY <1>0 DEF Kept
  <2> QED BY <2>1, <2>2, <2>3
<1> HIDE DEF b, len
<1>5. DOMAIN history' = 1..Len(history') /\ Len(history') \in Nat /\ 1..b \subseteq DOMAIN history'
  <2> DEFINE m == IF native THEN Len(calls) ELSE 1
  <2>1. m \in Nat /\ Len(history') = b + 1 + m /\ history' \in Seq(Messages)
    BY <1>3, <1>4
  <2> HIDE DEF m
  <2> QED BY <1>3, <2>1
(* The message that tells of the k-th call. *)
<1>6. ASSUME NEW k \in 1..len
      PROVE  \E i \in DOMAIN history' : /\ history'[i].kind = "results" /\ history'[i].turn = turn /\ history'[i].round = round
                                       /\ 1 + k - history'[i].n \in DOMAIN history'[i].said
                                       /\ history'[i].said[1 + k - history'[i].n] = outcome[k]
  <2>1. CASE native
    <3> DEFINE i == b + 1 + k
    <3>1. i \in 1..Len(history') /\ i > b /\ i # b + 1 /\ i - b - 1 = k /\ 1 + k - k = 1
      <4>1. Len(history') = b + 1 + len
        BY <1>3, <1>4, <2>1
      <4> QED BY <1>3, <1>4, <4>1
    <3> HIDE DEF i
    <3>2. /\ history'[i].turn = turn /\ history'[i].round = round /\ history'[i].kind = "results"
          /\ history'[i].n = k /\ history'[i].said = <<outcome[k]>>
      BY <1>3, <2>1, <3>1
    <3>3. 1 \in DOMAIN <<outcome[k]>> /\ <<outcome[k]>>[1] = outcome[k]
      OBVIOUS
    <3> QED BY <1>5, <3>1, <3>2, <3>3
  <2>2. CASE ~native
    <3> DEFINE i == b + 2
    <3>1. i \in 1..Len(history') /\ i > b /\ i # b + 1 /\ i - b - 1 = 1 /\ 1 + k - 1 = k
      BY <1>3, <1>4, <2>2
    <3> HIDE DEF i
    <3>2. /\ history'[i].turn = turn /\ history'[i].round = round /\ history'[i].kind = "results"
          /\ history'[i].n = 1 /\ history'[i].said = outcome
      BY <1>3, <2>2, <3>1
    <3> QED BY <1>4, <1>5, <3>1, <3>2
  <2> QED BY <2>1, <2>2
(* What a new message tells was done. *)
<1>7. ASSUME NEW i \in DOMAIN history', i > b, history'[i].kind = "results",
             NEW at \in DOMAIN history'[i].said, history'[i].said[at] = "done"
      PROVE  \E e \in effects : e.round = round /\ e.at = history'[i].n + at - 1
  <2>1. i # b + 1
    BY <1>3, <1>5, <1>7
  <2> DEFINE k == i - b - 1
  <2>2. k \in Int /\ history'[i].n = k /\ history'[i].said = IF native THEN <<outcome[k]>> ELSE outcome
    BY <1>3, <1>5, <1>7, <2>1
  <2>3. CASE native
    <3>1. k \in 1..len /\ k + 1 - 1 = k
      BY <1>3, <1>4, <1>5, <1>7, <2>1, <2>3
    <3> HIDE DEF k
    <3>2. history'[i].said = <<outcome[k]>> /\ DOMAIN <<outcome[k]>> = {1} /\ <<outcome[k]>>[1] = outcome[k]
      BY <2>2, <2>3
    <3>3. at = 1 /\ outcome[k] = "done"
      BY <1>7, <3>2
    <3> QED BY <1>2, <2>2, <3>1, <3>3
  <2>4. CASE ~native
    <3>1. k = 1
      BY <1>3, <1>4, <1>5, <1>7, <2>1, <2>4
    <3> HIDE DEF k
    <3>2. at \in 1..len /\ outcome[at] = "done" /\ 1 + at - 1 = at
      BY <1>4, <1>7, <2>2, <2>4
    <3> QED BY <1>2, <2>2, <3>1, <3>2
  <2> QED BY <1>4, <2>3, <2>4
<1>8. Recorded'
  <2>1. \A e \in effects : e.round < round + 1
    <3>1. \A e \in effects : e.round \in Nat
      BY <1>0 DEF CoreTypeOK
    <3> QED BY <1>0, <1>2, <3>1
  <2>2. ASSUME NEW i \in 1..Len(history'), history'[i].kind = "results", history'[i].turn = turn
        PROVE  history'[i].round < round + 1
    <3>1. CASE i > b
      <4>1. history'[i].round = round
        BY <1>3, <3>1, Zenon
      <4> QED BY <1>0, <4>1
    <3>2. CASE ~(i > b)
      <4>1. i \in 1..b
        BY <1>3, <3>2
      <4>2. history'[i] = history[i] /\ history[i] \in Messages
        BY <1>0, <1>3, <1>4, <4>1 DEF Kept
      <4>3. history[i].round < round /\ history[i].round \in Nat
        BY <1>2, <2>2, <4>1, <4>2, Consts DEF Messages
      <4> QED BY <1>0, <4>2, <4>3
    <3> QED BY <3>1, <3>2
  <2> QED BY <1>1, <2>1, <2>2 DEF Recorded
<1>9. EffectsAreTold'
  <2>1. /\ \A e \in effects : e.round < round => \E i \in DOMAIN history : ResultsOf(i, e.round) /\ Told(i, e.at)
        /\ \A rd \in 0..(round - 1), i \in DOMAIN history : ResultsOf(i, rd) =>
             \A at \in DOMAIN history[i].said : history[i].said[at] = "done" =>
               \E e \in effects : e.round = rd /\ e.at = history[i].n + at - 1
    BY <1>0, <1>1 DEF EffectsAreTold, Loop
  <2>2. \A i \in DOMAIN history : i \in DOMAIN history' /\ history'[i] = history[i]
    BY <1>3, <1>4, <1>5
  <2>3. ASSUME NEW e \in effects, e.round < round'
        PROVE  \E i \in DOMAIN history' : ResultsOf(i, e.round)' /\ Told(i, e.at)'
    <3>1. CASE e.round < round
      <4>1. PICK i \in DOMAIN history : ResultsOf(i, e.round) /\ Told(i, e.at)
        BY <2>1, <3>1
      <4> QED BY <1>1, <2>2, <4>1 DEF ResultsOf, Told
    <3>2. CASE ~(e.round < round)
      <4>1. e.round = round /\ e.at \in 1..len /\ outcome[e.at] = "done"
        BY <1>2, <3>2
      <4>2. PICK i \in DOMAIN history' :
              /\ history'[i].kind = "results" /\ history'[i].turn = turn /\ history'[i].round = round
              /\ 1 + e.at - history'[i].n \in DOMAIN history'[i].said
              /\ history'[i].said[1 + e.at - history'[i].n] = outcome[e.at]
        BY <1>6, <4>1
      <4>3. ResultsOf(i, e.round)' /\ Told(i, e.at)'
        BY <1>1, <4>1, <4>2 DEF ResultsOf, Told
      <4> QED BY <4>3
    <3> QED BY <3>1, <3>2
  <2>4. ASSUME NEW rd \in 0..(round' - 1), NEW i \in DOMAIN history', ResultsOf(i, rd)',
               NEW at \in DOMAIN history'[i].said, history'[i].said[at] = "done"
        PROVE  \E e \in effects : e.round = rd /\ e.at = history'[i].n + at - 1
    <3>1. history'[i].kind = "results" /\ history'[i].turn = turn /\ history'[i].round = rd
      BY <1>1, <2>4 DEF ResultsOf
    <3>2. CASE i > b
      <4>1. rd = round
        BY <1>3, <1>5, <3>1, <3>2, Zenon
      <4> QED BY <1>7, <2>4, <3>1, <3>2, <4>1
    <3>3. CASE ~(i > b)
      <4>1. i \in 1..b /\ i \in DOMAIN history
        BY <1>3, <1>4, <1>5, <3>3
      <4>2. history'[i] = history[i]
        BY <2>2, <4>1
      <4>3. rd < round /\ rd \in 0..(round - 1)
        BY <1>0, <1>1, <1>2, <3>1, <4>1, <4>2
      <4>4. ResultsOf(i, rd)
        BY <3>1, <4>2 DEF ResultsOf
      <4> QED BY <2>1, <2>4, <4>1, <4>2, <4>3, <4>4
    <3> QED BY <3>2, <3>3
  <2> QED BY <1>1, <2>3, <2>4 DEF EffectsAreTold
<1> QED BY <1>8, <1>9

LEMMA RecordedStep ==
  ASSUME HistoryInv, [Next]_vars
  PROVE  Recorded' /\ EffectsAreTold'
<1> DEFINE Running == pc \in Loop \cup {"settling"}
<1>0. CoreTypeOK /\ Fits /\ Kept /\ Recorded /\ EffectsAreTold /\ round \in Nat
  BY DEF HistoryInv, CoreTypeOK
<1>1. ASSUME UNCHANGED <<turn, round, history, effects>>, Running' => Running,
             Running' /\ pc = "executing" => pc' = "executing" /\ outcome' = outcome,
             pc' = "gating" => \A k \in 1..Len(outcome') : outcome'[k] # "done",
             pc' = "executing" => \A k \in 1..Len(outcome') : outcome'[k] = "done" =>
               \E e \in effects : e.round = round /\ e.at = k
      PROVE  Recorded' /\ EffectsAreTold'
  <2>1. Recorded'
    BY <1>0, <1>1 DEF Recorded
  <2>2. EffectsAreTold'
    BY <1>0, <1>1 DEF EffectsAreTold, ResultsOf, Told
  <2> QED BY <2>1, <2>2
<1>2. ASSUME ~Running'
      PROVE  Recorded' /\ EffectsAreTold'
  BY <1>2 DEF Recorded, EffectsAreTold, Loop
<1>3. CASE BeginTurn
  <2>1. effects' = {} /\ round' = 0 /\ pc' = "round" /\ turn' = turn + 1 /\ turn \in Nat
    BY <1>0, <1>3, Consts DEF BeginTurn, Fits
  <2> DEFINE x == [kind |-> "user", turn |-> turn + 1, round |-> 0, n |-> 0, said |-> <<>>]
  <2>2. history \in Seq(Messages) /\ history' = Append(history, x) /\ Len(history) \in Nat
    BY <1>0, <1>3 DEF BeginTurn, Kept
  <2>3. ASSUME NEW i \in 1..Len(history'), history'[i].kind = "results", history'[i].turn = turn'
        PROVE  FALSE
    <3>1. CASE i = Len(history) + 1
      <4>1. history'[i] = x
        BY <2>2, <3>1
      <4> QED BY <2>3, <4>1
    <3>2. CASE i # Len(history) + 1
      <4>1. i \in 1..Len(history) /\ history'[i] = history[i] /\ history[i] \in Messages
        BY <2>2, <3>2
      <4>2. history[i].turn <= turn /\ history[i].turn \in Nat
        BY <1>0, <4>1 DEF Kept, Messages
      <4> QED BY <2>1, <2>3, <4>1, <4>2
    <3> QED BY <3>1, <3>2
  <2>4. 0..(round' - 1) = {}
    BY <2>1
  <2> QED BY <2>1, <2>3, <2>4 DEF Recorded, EffectsAreTold
<1>4. CASE Reply /\ ~Fail
  <2> DEFINE x == Message("assistant", 0, <<>>)
  <2>1. pc = "answering" /\ pc' = "settling" /\ UNCHANGED <<turn, round, effects>> /\ history' = Append(history, x)
    BY <1>4 DEF Reply
  <2>2. history \in Seq(Messages) /\ Len(history) \in Nat /\ x.kind = "assistant"
    BY <1>0 DEF Kept, Message
  <2> HIDE DEF x
  <2>3. /\ DOMAIN history' = 1..(Len(history) + 1) /\ Len(history') = Len(history) + 1 /\ DOMAIN history = 1..Len(history)
        /\ \A i \in 1..Len(history) : history'[i] = history[i]
        /\ history'[Len(history) + 1] = x
    BY <2>1, <2>2
  <2>4. \A i \in DOMAIN history' : (i \in DOMAIN history /\ history'[i] = history[i]) \/ history'[i].kind = "assistant"
    BY <2>2, <2>3
  <2>5. \A i \in DOMAIN history : i \in DOMAIN history' /\ history'[i] = history[i]
    BY <2>2, <2>3
  <2>6. Recorded'
    <3>1. /\ \A e \in effects : e.round < round
          /\ \A i \in DOMAIN history : history[i].kind = "results" /\ history[i].turn = turn => history[i].round < round
      BY <1>0, <2>1, <2>3 DEF Recorded, Loop
    <3> QED BY <2>1, <2>3, <2>4, <3>1 DEF Recorded
  <2>7. EffectsAreTold'
    <3>1. /\ \A e \in effects : e.round < round => \E i \in DOMAIN history : ResultsOf(i, e.round) /\ Told(i, e.at)
          /\ \A rd \in 0..(round - 1), i \in DOMAIN history : ResultsOf(i, rd) =>
               \A at \in DOMAIN history[i].said : history[i].said[at] = "done" =>
                 \E e \in effects : e.round = rd /\ e.at = history[i].n + at - 1
      BY <1>0, <2>1 DEF EffectsAreTold, Loop
    <3>2. ASSUME NEW e \in effects, e.round < round
          PROVE  \E i \in DOMAIN history' : ResultsOf(i, e.round)' /\ Told(i, e.at)'
      <4>1. PICK i \in DOMAIN history : ResultsOf(i, e.round) /\ Told(i, e.at)
        BY <3>1, <3>2
      <4> QED BY <2>1, <2>5, <4>1 DEF ResultsOf, Told
    <3>3. ASSUME NEW rd \in 0..(round - 1), NEW i \in DOMAIN history', ResultsOf(i, rd)'
          PROVE  \A at \in DOMAIN history'[i].said : history'[i].said[at] = "done" =>
                   \E e \in effects : e.round = rd /\ e.at = history'[i].n + at - 1
      <4>1. i \in DOMAIN history /\ history'[i] = history[i]
        BY <2>4, <3>3 DEF ResultsOf
      <4>2. ResultsOf(i, rd)
        BY <2>1, <3>3, <4>1 DEF ResultsOf
      <4> QED BY <3>1, <4>1, <4>2
    <3> QED BY <2>1, <3>2, <3>3 DEF EffectsAreTold
  <2> QED BY <2>6, <2>7
<1>5. CASE Answer /\ ~Fail
  <2>1. pc = "asking" /\ pc' \in {"answering", "gating"} /\ UNCHANGED <<turn, round, history, effects>>
    BY <1>5 DEF Answer
  <2>2. pc' = "gating" => \A k \in 1..Len(outcome') : outcome'[k] # "done"
    <3> SUFFICES ASSUME pc' = "gating" PROVE \A k \in 1..Len(outcome') : outcome'[k] # "done"
      OBVIOUS
    <3>1. PICK r \in Responses : outcome' = [k \in DOMAIN r |-> "none"]
      BY <1>5 DEF Answer
    <3>2. r \in Seq(Call)
      BY AgentAssumption DEF AgentAssumption
    <3> QED BY <3>1, <3>2
  <2> QED BY <1>1, <2>1, <2>2 DEF Loop
<1>6. CASE Gate
  <2> DEFINE k == gated + 1
  <2>1. pc = "gating" /\ pc' = "gating" /\ UNCHANGED <<turn, round, history, effects>>
    BY <1>6 DEF Gate
  <2>2. \A j \in 1..Len(outcome) : outcome[j] # "done"
    BY <1>0, <2>1 DEF Recorded
  <2>3. outcome' = outcome \/ outcome' = [outcome EXCEPT ![k] = "refused"]
    BY <1>6 DEF Gate, Hook, Prompt, GoAhead, Admit, Refuse
  <2>4. \A j \in 1..Len(outcome') : outcome'[j] # "done"
    BY <1>0, <2>2, <2>3 DEF CoreTypeOK
  <2> QED BY <1>1, <2>1, <2>4
<1>7. CASE Execute
  <2>1. /\ pc = "gating" /\ pc' = "executing" /\ outcome' = outcome /\ UNCHANGED <<turn, round, history, effects>>
        /\ \A k \in 1..Len(outcome) : outcome[k] # "done"
    BY <1>0, <1>7 DEF Execute, loop, Recorded
  <2> QED BY <1>1, <2>1 DEF Loop
<1>8. CASE Cancel \/ UNCHANGED vars
  <2>1. pc' = pc /\ outcome' = outcome /\ UNCHANGED <<turn, round, history, effects>>
    BY <1>8 DEF Cancel, vars, loop
  <2> QED BY <1>0, <1>1, <2>1 DEF Recorded
<1>9. CASE StartRound /\ ~Fail
  <2>1. pc = "round" /\ pc' = "asking" /\ UNCHANGED <<turn, round, history, effects>>
    BY <1>9 DEF StartRound
  <2> QED BY <1>1, <2>1 DEF Loop
<1>10. CASE Fail \/ Clear \/ Quit \/ Drop \/ Settle
  <2>1. ~Running'
    BY <1>10 DEF Fail, Clear, Quit, Drop, Settle, Loop
  <2> QED BY <1>2, <2>1
<1>11. CASE RunTool
  BY <1>11, RunToolRecorded
<1>12. CASE FinishRound /\ ~Fail
  BY <1>12, FinishRoundRecorded
<1> QED BY <1>3, <1>4, <1>5, <1>6, <1>7, <1>8, <1>9, <1>10, <1>11, <1>12 DEF Next, Step

LEMMA HistoryInvInductive ==
  ASSUME HistoryInv, [Next]_vars
  PROVE  HistoryInv'
<1>1. CoreTypeOK'
  BY CoreTypeInductive DEF HistoryInv
<1>2. Fits'
  BY <1>1, FitsStep
<1> QED BY <1>1, <1>2, KeptStep, RecordedStep DEF HistoryInv

(* What the properties of a session's history follow from. *)
THEOREM HistoryInvariant == Spec => []HistoryInv
<1>1. HistoryInv /\ [Next]_vars => HistoryInv'
  BY HistoryInvInductive
<1> QED BY HistoryInitHolds, <1>1, PTL DEF Spec

(* The loop, its two callers and the approval manager keep their state of  *)
(* the shape it is declared with, over any number of turns.                *)
THEOREM TypeCorrect == Spec => []TypeOK
<1>1. HistoryInv => TypeOK
  <2> SUFFICES ASSUME HistoryInv PROVE TypeOK
    OBVIOUS
  <2>1. CoreTypeOK /\ Fits /\ history \in Seq(Messages) /\ \A i \in 1..Len(history) : history[i].turn <= turn
    BY DEF HistoryInv, Kept
  <2>2. ASSUME NEW i \in DOMAIN history
        PROVE  history[i].kind \in Kinds /\ history[i].turn \in 1..turn /\ history[i].round \in 0..MaxIterations
    <3>1. history[i] \in Messages /\ history[i].turn <= turn /\ turn \in Nat
      BY <2>1, Consts DEF Fits
    <3> QED BY <3>1 DEF Messages
  <2> QED BY <2>1, <2>2 DEF TypeOK, CoreTypeOK, Fits, Calls
<1> QED BY <1>1, HistoryInvariant, PTL

(* However the calls of an answer end, and however the history is trimmed  *)
(* and compacted between turns, no tool call is without its results and no *)
(* results are without their call.                                         *)
THEOREM ResultsWholeCorrect == Spec => []ResultsWhole
<1>1. HistoryInv => ResultsWhole
  BY DEF HistoryInv
<1> QED BY <1>1, HistoryInvariant, PTL

(* What tools did in the rounds of a turn that are over is what the        *)
(* history tells of them.                                                  *)
THEOREM EffectsAreToldCorrect == Spec => []EffectsAreTold
<1>1. HistoryInv => EffectsAreTold
  BY DEF HistoryInv
<1> QED BY <1>1, HistoryInvariant, PTL

(* Nothing since the last /clear leaves the history without a summary in   *)
(* its place, if the history may be longer than its recent part.           *)
THEOREM NothingForgottenCorrect == Spec => []NothingForgotten
<1>1. HistoryInv => NothingForgotten
  BY DEF HistoryInv
<1> QED BY <1>1, HistoryInvariant, PTL
=============================================================================
