------------------------- MODULE AuthProfilesProofs -------------------------
(***************************************************************************)
(* Theorems about AuthProfiles, for every set of requests, commands and    *)
(* profiles and every bound.                                               *)
(***************************************************************************)
EXTENDS AuthProfiles, FunctionTheorems, FiniteSetTheorems, TLAPS

(* A task's activity is coherent: it reads and writes under the lock, it   *)
(* writes what it has, and it has chosen its profile.                      *)
Fits(t, k, owner) ==
  /\ k.at \in {"read", "rename", "renamed"} => owner = t
  /\ k.at \in {"rename", "renamed"} => k.stage = "save"
  /\ k.at = "rename" => k.copy \in Files
  /\ k.stage \in {"wait", "reload", "refresh"} => k.op = "token"
  /\ k.stage \in {"wait", "reload", "refresh"} \/ k.op \in {"login", "remove", "use"} => k.id \in Profiles
  /\ k.stage = "save" => k.op # None /\ k.id \in Profiles

ActivitiesFit == \A t \in Tasks : Fits(t, task[t], lock)

(* A login's token set, and one that is being exchanged, was issued.       *)
TokensIssued ==
  \A t \in Tasks : /\ task[t].op = "login" => task[t].new \in DOMAIN issued
                   /\ task[t].stage = "refresh" => task[t].old \in DOMAIN issued

(* What a write puts in the file's place, and that nobody has replaced the *)
(* file it was made from.                                                  *)
Saved(t, id) ==
  IF id # task[t].id \/ task[t].op = "use" THEN file.tokens[id]
  ELSE IF task[t].op = "remove" THEN 0
  ELSE task[t].new

WritesFit ==
  \A t \in Tasks : task[t].at = "rename" =>
    /\ task[t].base = version
    /\ \A id \in Profiles : task[t].copy.tokens[id] = Saved(t, id)
    /\ task[t].op = "token" => file.tokens[task[t].id] # 0

(* A task has a token set to exchange; it has got one that is not saved.   *)
Holds(t)   == task[t].op = "token" /\ task[t].stage \in {"refresh", "save"}
Unsaved(t) == task[t].op \in {"token", "login"} /\ task[t].stage = "save" /\ task[t].at # "renamed"

(* One profile is refreshed by one task of a process at a time. *)
OneRefresher ==
  \A t \in Tasks, u \in Tasks :
    u \in ProcessOf(t) /\ Refreshing(t) /\ Refreshing(u) /\ task[t].id = task[u].id => t = u

(* The numbers are of token sets that were issued. *)
AllIssued ==
  /\ \A id \in Profiles : file.tokens[id] \in 0..Len(issued)
  /\ \A t \in Tasks : /\ Holds(t) => task[t].old \in 1..Len(issued)
                      /\ Unsaved(t) => task[t].new \in 1..Len(issued)
  /\ \A p \in spent : p[2] \in 1..Len(issued)

(* A token set is of one profile, in the file and wherever it is held.     *)
OneOwner ==
  /\ \A i \in Profiles, j \in Profiles : file.tokens[i] # 0 /\ file.tokens[i] = file.tokens[j] => i = j
  /\ \A t \in Tasks, i \in Profiles : Holds(t) /\ file.tokens[i] = task[t].old => i = task[t].id
  /\ \A t \in Tasks, u \in Tasks : Holds(t) /\ Holds(u) /\ task[t].old = task[u].old => task[t].id = task[u].id

(* A token set that was not saved yet is nowhere else. *)
UnsavedIsNew ==
  \A t \in Tasks : Unsaved(t) =>
    /\ \A id \in Profiles : file.tokens[id] # task[t].new
    /\ \A u \in Tasks : Holds(u) => task[u].old # task[t].new
    /\ \A u \in Tasks : Unsaved(u) /\ task[u].new = task[t].new => u = t
    /\ \A p \in spent : p[2] # task[t].new

(* One that was exchanged is gone from the file, and from the process that *)
(* saved what it got for it.                                               *)
SpentIsGone ==
  /\ \A p \in spent, id \in Profiles : file.tokens[id] # p[2]
  /\ \A t \in Tasks : task[t].stage = "refresh" => <<ProcessOf(t), task[t].old>> \notin spent

(* Where a token set goes back to. *)
Lineage ==
  /\ \A id \in Profiles :
       /\ (file.tokens[id] = 0) <=> (intent[id] = 0)
       /\ file.tokens[id] # 0 /\ id \notin overtook => issued[file.tokens[id]] = intent[id]
  /\ \A t \in Tasks : Holds(t) =>
       /\ Unsaved(t) => issued[task[t].new] = issued[task[t].old]
       /\ task[t].id \notin overtook /\ intent[task[t].id] # 0 => issued[task[t].old] = intent[task[t].id]

FileInv == WritesFit /\ AllIssued /\ OneOwner /\ UnsavedIsNew /\ SpentIsGone /\ Lineage

(* The inductive invariant: what is always so, and what is so until a      *)
(* write whose task was dropped gets to the file.                          *)
StoreInv ==
  /\ TypeOK /\ ActivitiesFit /\ TokensIssued /\ OneRefresher
  /\ ~late => FileInv

-----------------------------------------------------------------------------
LEMMA ProcessesApart ==
  ASSUME NEW t \in Tasks, NEW u \in Tasks
  PROVE  /\ t \in ProcessOf(t)
         /\ u \in ProcessOf(t) <=> ProcessOf(u) = ProcessOf(t)
BY AuthAssumption DEF AuthAssumption, ProcessOf, Tasks

(* Every profile starts with a token set of its own.                       *)
LEMMA FirstTokens ==
  ASSUME NEW f, f = CHOOSE g \in Injection(Profiles, 1..Cardinality(Profiles)) : TRUE
  PROVE  /\ f \in [Profiles -> 1..Cardinality(Profiles)]
         /\ \A i \in Profiles, j \in Profiles : f[i] = f[j] => i = j
<1>1. ExistsBijection(1..Cardinality(Profiles), Profiles)
  BY FS_CardinalityType, AuthAssumption DEF AuthAssumption
<1>2. ExistsBijection(Profiles, 1..Cardinality(Profiles))
  BY <1>1, Fun_ExistsBijSymmetric
<1>3. \E g : g \in Injection(Profiles, 1..Cardinality(Profiles))
  BY <1>2 DEF ExistsBijection, Bijection
<1> QED BY <1>3 DEF Injection, IsInjective

LEMMA InitHolds == Init => StoreInv
<1> SUFFICES ASSUME Init PROVE StoreInv
  OBVIOUS
<1> USE AuthAssumption DEF AuthAssumption, Init
<1>1. Cardinality(Profiles) \in Nat
  BY FS_CardinalityType
<1>2. DOMAIN issued = 1..Cardinality(Profiles) /\ Len(issued) = Cardinality(Profiles)
  BY <1>1
<1>3. /\ file.tokens \in [Profiles -> 1..Cardinality(Profiles)]
      /\ \A i \in Profiles, j \in Profiles : file.tokens[i] = file.tokens[j] => i = j
  BY <1>2, FirstTokens
<1>4. file \in Files
  BY <1>1, <1>3 DEF Files
<1>5. \A t \in Tasks : task[t] = Idle
  OBVIOUS
<1>6. Idle \in Activities /\ task \in [Tasks -> Activities]
  BY DEF Idle, Activities, Stages
<1>7. issued \in Seq(Nat \ {0})
  BY <1>1
<1>8. TypeOK
  <2>1. ops \in 0..MaxOps /\ faults \in 0..MaxFaults /\ version \in Nat
    OBVIOUS
  <2>2. intent \in [Profiles -> Nat]
    BY <1>1, <1>3
  <2> QED BY <1>1, <1>2, <1>4, <1>6, <1>7, <2>1, <2>2 DEF TypeOK
<1>9. ActivitiesFit /\ TokensIssued /\ OneRefresher
  BY <1>5 DEF ActivitiesFit, TokensIssued, Fits, OneRefresher, Idle, Refreshing
<1>10. WritesFit /\ AllIssued /\ UnsavedIsNew /\ SpentIsGone
  BY <1>1, <1>2, <1>3, <1>5 DEF WritesFit, AllIssued, UnsavedIsNew, SpentIsGone, Idle, Holds, Unsaved
<1>11. OneOwner /\ Lineage
  BY <1>1, <1>2, <1>3, <1>5 DEF OneOwner, Lineage, Idle, Holds, Unsaved
<1> QED BY <1>8, <1>9, <1>10, <1>11 DEF StoreInv, FileInv

-----------------------------------------------------------------------------
(* The steps keep the types and the activities coherent.                   *)

(* A task goes on to k; nobody else had the lock, or it stays.             *)
LEMMA TaskMoves ==
  ASSUME TypeOK, ActivitiesFit, NEW t \in Tasks, NEW k \in Activities, Goes(t, k), Fits(t, k, lock'),
         lock' = lock \/ lock \in {t, None}
  PROVE  task' \in [Tasks -> Activities] /\ ActivitiesFit'
<1>1. task' = [task EXCEPT ![t] = k] /\ task \in [Tasks -> Activities]
  BY DEF Goes, TypeOK
<1>2. ASSUME NEW u \in Tasks, u # t PROVE Fits(u, task'[u], lock')
  <2>1. task'[u] = task[u] /\ Fits(u, task[u], lock)
    BY <1>1, <1>2 DEF ActivitiesFit
  <2>2. u # None
    BY AuthAssumption DEF AuthAssumption
  <2> QED BY <1>2, <2>1, <2>2 DEF Fits
<1> QED BY <1>1, <1>2 DEF ActivitiesFit

LEMMA TaskFinishes ==
  ASSUME TypeOK, ActivitiesFit, NEW t \in Tasks, Finish(t), lock' = lock \/ lock \in {t, None}
  PROVE  task' \in [Tasks -> Activities] /\ ActivitiesFit'
<1>1. Idle \in Activities /\ Fits(t, Idle, lock')
  BY AuthAssumption DEF AuthAssumption, Idle, Activities, Stages, Fits
<1> QED BY <1>1, TaskMoves DEF Finish

(* What a save writes.                                                     *)
LEMMA SaveWrites ==
  ASSUME TypeOK, ActivitiesFit, NEW t \in Tasks, Save(t)
  PROVE  \/ GiveBack(t)
         \/ \E tokens \in [Profiles -> 0..MaxIssued], active \in Profiles \cup {None} :
              /\ Write(t, tokens, active)
              /\ \A id \in Profiles : tokens[id] = Saved(t, id)
              /\ task[t].op = "token" => file.tokens[task[t].id] # 0
<1> DEFINE id == task[t].id
           new == task[t].new
           old == file.tokens
<1>1. id \in Profiles /\ new \in 0..MaxIssued /\ 0 \in 0..MaxIssued
  BY AuthAssumption DEF AuthAssumption, TypeOK, ActivitiesFit, Fits, Save, Activities
<1>2. old \in [Profiles -> 0..MaxIssued] /\ file.active \in Profiles \cup {None}
  BY DEF TypeOK, Files
<1>3. CASE SaveTokens(t) /\ task[t].op = "token"
  <2>1. [old EXCEPT ![id] = new] \in [Profiles -> 0..MaxIssued]
    BY <1>1, <1>2
  <2>2. \A i \in Profiles : [old EXCEPT ![id] = new][i] = Saved(t, i)
    BY <1>2, <1>3 DEF Saved
  <2> QED BY <1>2, <1>3, <2>1, <2>2 DEF SaveTokens
<1>4. CASE SaveLogin(t) /\ task[t].op = "login"
  <2>1. [old EXCEPT ![id] = new] \in [Profiles -> 0..MaxIssued]
    BY <1>1, <1>2
  <2>2. \A i \in Profiles : [old EXCEPT ![id] = new][i] = Saved(t, i)
    BY <1>2, <1>4 DEF Saved
  <2> QED BY <1>1, <1>4, <2>1, <2>2 DEF SaveLogin
<1>5. CASE SaveRemoval(t) /\ task[t].op = "remove"
  <2>1. [old EXCEPT ![id] = 0] \in [Profiles -> 0..MaxIssued]
    BY <1>1, <1>2
  <2>2. \A i \in Profiles : [old EXCEPT ![id] = 0][i] = Saved(t, i)
    BY <1>2, <1>5 DEF Saved
  <2> QED BY <1>2, <1>5, <2>1, <2>2 DEF SaveRemoval
<1>6. CASE SaveUse(t) /\ task[t].op = "use"
  BY <1>1, <1>2, <1>6 DEF SaveUse, Saved
<1> QED BY <1>3, <1>4, <1>5, <1>6 DEF Save

LEMMA ActivityStep ==
  ASSUME TypeOK, ActivitiesFit, TokensIssued, NEW t \in Tasks, Step(t)
  PROVE  TypeOK' /\ ActivitiesFit'
<1> DEFINE k == task[t]
<1>0. k \in Activities /\ Fits(t, k, lock) /\ t # None /\ t # Stale
  BY AuthAssumption DEF AuthAssumption, TypeOK, ActivitiesFit, Stale
<1> HIDE DEF k
<1>1. CASE Lock(t)
  <2>1. Goes(t, [k EXCEPT !.at = "read"]) /\ k.op # None /\ k.at = "lock" /\ lock' = t /\ lock = None
    BY <1>1 DEF Lock, k
  <2>2. [k EXCEPT !.at = "read"] \in Activities
    BY <1>0 DEF Activities
  <2>3. Fits(t, [k EXCEPT !.at = "read"], lock')
    BY <1>0, <2>1 DEF Fits, Activities
  <2>4. task' \in [Tasks -> Activities] /\ ActivitiesFit'
    BY <2>1, <2>2, <2>3, TaskMoves
  <2> QED BY <1>1, <2>1, <2>4 DEF Lock, TypeOK, provider, ghosts
<1>2. CASE GiveUp(t)
  <2>1. task' \in [Tasks -> Activities] /\ ActivitiesFit'
    BY <1>2, TaskFinishes DEF GiveUp
  <2> QED BY <1>2, <2>1 DEF GiveUp, TypeOK, provider, ghosts
<1>3. CASE TakeRefreshLock(t)
  <2>1. Goes(t, [k EXCEPT !.stage = "reload", !.at = "lock"]) /\ k.stage = "wait" /\ lock' = lock
    BY <1>3 DEF TakeRefreshLock, k
  <2>2. [k EXCEPT !.stage = "reload", !.at = "lock"] \in Activities
    BY <1>0 DEF Activities, Stages
  <2>3. Fits(t, [k EXCEPT !.stage = "reload", !.at = "lock"], lock')
    BY <1>0, <2>1 DEF Fits, Activities
  <2>4. task' \in [Tasks -> Activities] /\ ActivitiesFit'
    BY <2>1, <2>2, <2>3, TaskMoves
  <2> QED BY <1>3, <2>1, <2>4 DEF TakeRefreshLock, TypeOK, provider, ghosts
<1>4. CASE Refresh(t)
  <2>0. k.stage = "refresh" /\ UNCHANGED <<lock, file, version, stray, expired, ops, faults, ghosts>>
    BY <1>4 DEF Refresh, k
  <2>1. CASE Refreshed(t)
    <3> DEFINE new == Len(issued) + 1
               j == [k EXCEPT !.stage = "save", !.at = "lock", !.new = new]
    <3>1. new \in 0..MaxIssued
      BY <2>1, AuthAssumption DEF Refreshed, TypeOK, AuthAssumption
    <3>2. Goes(t, j)
      BY <2>1 DEF Refreshed, k
    <3>3. j \in Activities /\ Fits(t, j, lock')
      BY <1>0, <2>0, <3>1, AuthAssumption DEF Activities, Stages, Fits, AuthAssumption
    <3>4. task' \in [Tasks -> Activities] /\ ActivitiesFit'
      BY <2>0, <3>2, <3>3, TaskMoves
    <3>5. issued' \in Seq(Nat \ {0}) /\ Len(issued') = new /\ DOMAIN issued \subseteq DOMAIN issued'
      <4>1. k.old \in DOMAIN issued /\ issued \in Seq(Nat \ {0})
        BY <2>0 DEF TokensIssued, TypeOK, k
      <4> QED BY <2>1, <4>1 DEF Refreshed, k
    <3>6. backoff' \subseteq Profiles
      BY <2>1 DEF Refreshed, TypeOK
    <3> QED BY <2>0, <3>1, <3>4, <3>5, <3>6 DEF TypeOK, ghosts
  <2>2. CASE Failed(t)
    <3>1. task' \in [Tasks -> Activities] /\ ActivitiesFit'
      <4>1. CASE Finish(t)
        BY <2>0, <4>1, TaskFinishes
      <4>2. CASE ~Finish(t)
        <5> DEFINE j == [k EXCEPT !.tries = @ + 1]
        <5>1. Goes(t, j) /\ k.tries + 1 < Attempts
          BY <2>2, <4>2 DEF Failed, k
        <5>2. j \in Activities /\ Fits(t, j, lock')
          BY <1>0, <2>0, <5>1, AuthAssumption DEF Activities, Fits, AuthAssumption
        <5> QED BY <2>0, <5>1, <5>2, TaskMoves
      <4> QED BY <4>1, <4>2
    <3>2. backoff' \subseteq Profiles
      BY <1>0, <2>0, <2>2 DEF Failed, TypeOK, Fits, k
    <3> QED BY <2>0, <2>2, <3>1, <3>2 DEF Failed, TypeOK, ghosts
  <2> QED BY <1>4, <2>1, <2>2 DEF Refresh
<1>5. CASE Rename(t)
  <2> DEFINE j == [k EXCEPT !.at = "renamed", !.copy = None, !.base = 0]
  <2>1. Goes(t, j) /\ k.at = "rename" /\ lock' = lock /\ file' = k.copy
    BY <1>5 DEF Rename, k
  <2>2. j \in Activities /\ Fits(t, j, lock')
    BY <1>0, <2>1 DEF Activities, Fits
  <2>3. task' \in [Tasks -> Activities] /\ ActivitiesFit'
    BY <2>1, <2>2, TaskMoves
  <2>4. file' \in Files /\ version' \in Nat /\ k.id \in Profiles
    BY <1>0, <1>5, <2>1 DEF Fits, Rename, TypeOK
  <2>5. intent' \in [Profiles -> Nat] /\ overtook' \subseteq Profiles
    <3>1. k.op = "login" => issued[k.new] \in Nat
      BY DEF TokensIssued, TypeOK, k
    <3> QED BY <1>5, <2>4, <3>1 DEF Rename, TypeOK, k
  <2> QED BY <1>5, <2>3, <2>4, <2>5 DEF Rename, TypeOK, provider
<1>6. CASE Release(t)
  <2>1. lock' = lock \/ lock = t
    BY <1>6 DEF Release
  <2>2. task' \in [Tasks -> Activities] /\ ActivitiesFit'
    BY <1>6, <2>1, TaskFinishes DEF Release
  <2> QED BY <1>6, <2>2 DEF Release, TypeOK, provider, ghosts
<1>7. CASE Read(t)
  <2>0. k.at = "read" /\ lock = t /\ UNCHANGED <<file, version, stray, provider, ops, faults, ghosts>>
    BY <1>0, <1>7 DEF Read, LoadToken, LoadUse, Reload, Loaded, Save, Fits, k
  <2>1. UNCHANGED backoff
    BY <1>7 DEF Read, LoadToken, LoadUse, Reload, Save
  <2>2. \/ Finish(t)
        \/ \E j \in Activities : Goes(t, j) /\ Fits(t, j, lock')
    <3>1. CASE LoadToken(t) /\ ~Finish(t)
      <4>1. PICK id \in Profiles :
              Goes(t, [k EXCEPT !.stage = "wait", !.at = "wait", !.id = id, !.old = file.tokens[id]])
        BY <3>1 DEF LoadToken, Selected, Present, k
      <4>2. file.tokens[id] \in 0..MaxIssued /\ k.op = "token"
        BY <3>1 DEF LoadToken, TypeOK, Files, k
      <4> DEFINE j == [k EXCEPT !.stage = "wait", !.at = "wait", !.id = id, !.old = file.tokens[id]]
      <4>3. j \in Activities /\ Fits(t, j, lock')
        BY <1>0, <4>2 DEF Activities, Stages, Fits
      <4> QED BY <4>1, <4>3
    <3>2. CASE LoadUse(t) /\ ~Finish(t)
      <4> DEFINE j == [k EXCEPT !.stage = "save", !.at = "lock"]
      <4>1. Goes(t, j) /\ k.op = "use"
        BY <3>2 DEF LoadUse, k
      <4>2. j \in Activities /\ Fits(t, j, lock')
        BY <1>0, <4>1, AuthAssumption DEF Activities, Stages, Fits, AuthAssumption
      <4> QED BY <4>1, <4>2
    <3>3. CASE Reload(t) /\ ~Finish(t)
      <4> DEFINE j == [k EXCEPT !.stage = "refresh", !.at = "http", !.old = file.tokens[k.id]]
      <4>1. Goes(t, j) /\ k.stage = "reload"
        BY <3>3 DEF Reload, k
      <4>2. file.tokens[k.id] \in 0..MaxIssued
        BY <1>0, <4>1 DEF Fits, TypeOK, Files
      <4>3. j \in Activities /\ Fits(t, j, lock')
        BY <1>0, <4>1, <4>2 DEF Activities, Stages, Fits
      <4> QED BY <4>1, <4>3
    <3>4. CASE Save(t) /\ ~Finish(t)
      <4>1. k.stage = "save" /\ k.id \in Profiles
        BY <1>0, <3>4 DEF Save, Fits, k
      <4>2. PICK tokens \in [Profiles -> 0..MaxIssued], active \in Profiles \cup {None} : Write(t, tokens, active)
        BY <3>4, SaveWrites DEF GiveBack
      <4> DEFINE f == [tokens |-> tokens, active |-> active]
                 j == [k EXCEPT !.at = "rename", !.copy = f, !.base = version]
      <4>3. Goes(t, j) /\ lock' = t
        BY <2>0, <4>2 DEF Write, KeepLock, k
      <4>4. f \in Files /\ version \in Nat
        BY DEF Files, TypeOK
      <4>5. j \in Activities /\ Fits(t, j, lock')
        BY <1>0, <4>1, <4>3, <4>4 DEF Activities, Fits
      <4> QED BY <4>3, <4>5
    <3> QED BY <1>7, <3>1, <3>2, <3>3, <3>4 DEF Read
  <2>3. task' \in [Tasks -> Activities] /\ ActivitiesFit'
    <3>1. lock' = lock \/ lock = t
      BY <2>0
    <3> QED BY <2>2, <3>1, TaskMoves, TaskFinishes
  <2>4. lock' \in {t, None}
    BY <1>7, <2>0 DEF Read, LoadToken, LoadUse, Reload, Loaded, Save, SaveTokens, SaveLogin, SaveRemoval, SaveUse,
                      GiveBack, Write, KeepLock
  <2> QED BY <2>0, <2>1, <2>3, <2>4 DEF TypeOK, provider, ghosts
<1> QED BY <1>1, <1>2, <1>3, <1>4, <1>5, <1>6, <1>7 DEF Step

(* The steps of Next that are not a task's own.                            *)
LEMMA BeginStep ==
  ASSUME TypeOK, ActivitiesFit, NEW t \in Tasks, NEW k, Start(t), Goes(t, k),
         k.op \in {"token", "login", "remove", "use"}, k.id \in Profiles \cup {None},
         k.op # "token" => k.id \in Profiles,
         k.new \in 0..MaxIssued, k.stage \in {"load", "save"}, k.stage = "save" => k.op # "token",
         k = [Idle EXCEPT !.op = k.op, !.id = k.id, !.stage = k.stage, !.new = k.new]
  PROVE  /\ task' \in [Tasks -> Activities] /\ ActivitiesFit'
         /\ UNCHANGED <<lock, file, version, backoff, stray, expired, faults, ghosts>>
         /\ ops' \in 0..MaxOps
<1>1. k = [op |-> k.op, id |-> k.id, stage |-> k.stage, at |-> "lock",
           old |-> 0, new |-> k.new, tries |-> 0, copy |-> None, base |-> 0]
  BY DEF Idle
<1>2. k \in Activities /\ Fits(t, k, lock')
  <2>1. 0 \in 0..(Attempts - 1) /\ 0 \in 0..MaxIssued
    BY AuthAssumption DEF AuthAssumption
  <2>2. k \in Activities
    BY <1>1, <2>1 DEF Activities, Stages
  <2>3. k.at = "lock"
    BY <1>1
  <2> QED BY <2>2, <2>3, AuthAssumption DEF AuthAssumption, Fits
<1>3. task' \in [Tasks -> Activities] /\ ActivitiesFit'
  BY <1>2, TaskMoves DEF Start
<1>4. ops' \in 0..MaxOps
  BY AuthAssumption DEF AuthAssumption, Start, TypeOK
<1> QED BY <1>3, <1>4 DEF Start

LEMMA TypeInductive ==
  ASSUME TypeOK, ActivitiesFit, TokensIssued, [Next]_vars
  PROVE  TypeOK' /\ ActivitiesFit'
<1>1. CASE UNCHANGED vars
  BY <1>1 DEF vars, provider, ghosts, TypeOK, ActivitiesFit
<1>2. CASE Expire \/ BackoffEnds
  BY <1>2 DEF Expire, BackoffEnds, provider, ghosts, TypeOK, ActivitiesFit
<1>3. CASE StrayRename
  BY <1>3 DEF StrayRename, provider, TypeOK, ActivitiesFit
<1>4. ASSUME NEW t \in Tasks, Step(t) PROVE TypeOK' /\ ActivitiesFit'
  BY <1>4, ActivityStep
<1>5. ASSUME NEW t \in Tasks, Drop(t) PROVE TypeOK' /\ ActivitiesFit'
  <2>1. lock' = lock \/ lock \in {t, None}
    BY <1>5 DEF Drop
  <2>2. task' \in [Tasks -> Activities] /\ ActivitiesFit'
    BY <1>5, <2>1, TaskFinishes DEF Drop
  <2>3. lock' \in Tasks \cup {None, Stale} /\ faults' \in 0..MaxFaults
    BY <1>5, AuthAssumption DEF AuthAssumption, Drop, Fault, TypeOK
  <2>4. stray' \subseteq Files
    BY <1>5 DEF Drop, TypeOK, ActivitiesFit, Fits
  <2> QED BY <1>5, <2>2, <2>3, <2>4 DEF Drop, TypeOK, provider, ghosts
<1>6. ASSUME NEW t \in Tasks, Crash(ProcessOf(t)) PROVE TypeOK' /\ ActivitiesFit'
  <2>1. Idle \in Activities /\ \A u \in Tasks : \A o : Fits(u, Idle, o)
    BY AuthAssumption DEF AuthAssumption, Idle, Activities, Stages, Fits
  <2>2. task' \in [Tasks -> Activities]
    BY <1>6, <2>1 DEF Crash, TypeOK
  <2>3. ASSUME NEW u \in Tasks PROVE Fits(u, task'[u], lock')
    <3>1. CASE u \in ProcessOf(t)
      BY <1>6, <2>1, <3>1 DEF Crash
    <3>2. CASE u \notin ProcessOf(t)
      BY <1>6, <3>2 DEF Crash, ActivitiesFit, Fits
    <3> QED BY <3>1, <3>2
  <2>4. lock' \in Tasks \cup {None, Stale} /\ faults' \in 0..MaxFaults /\ backoff' \subseteq Profiles /\ stray' \subseteq Files
    BY <1>6, AuthAssumption DEF AuthAssumption, Crash, Fault, TypeOK
  <2> QED BY <1>6, <2>2, <2>3, <2>4 DEF Crash, TypeOK, ActivitiesFit, provider, ghosts
<1>7. ASSUME Begin PROVE TypeOK' /\ ActivitiesFit'
  <2>1. CASE \E t \in Tasks, choice \in Profiles \cup {None} : BeginToken(t, choice)
    <3> PICK t \in Tasks, choice \in Profiles \cup {None} : BeginToken(t, choice)
      BY <2>1
    <3> DEFINE k == [Idle EXCEPT !.op = "token", !.id = choice]
    <3>1. /\ k.op = "token" /\ k.id = choice /\ k.new = 0 /\ k.stage = "load"
          /\ k = [Idle EXCEPT !.op = k.op, !.id = k.id, !.stage = k.stage, !.new = k.new]
      BY DEF Idle
    <3>2. Start(t) /\ Goes(t, k) /\ UNCHANGED issued /\ 0 \in 0..MaxIssued
      BY AuthAssumption DEF BeginToken, AuthAssumption
    <3> HIDE DEF k
    <3> QED BY <3>1, <3>2, BeginStep DEF TypeOK, ghosts
  <2>2. CASE \E t \in Tasks, id \in Profiles : BeginLogin(t, id)
    <3> PICK t \in Tasks, id \in Profiles : BeginLogin(t, id)
      BY <2>2
    <3> DEFINE new == Len(issued) + 1
               k == [Idle EXCEPT !.op = "login", !.id = id, !.stage = "save", !.new = new]
    <3>1. /\ k.op = "login" /\ k.id = id /\ k.new = new /\ k.stage = "save"
          /\ k = [Idle EXCEPT !.op = k.op, !.id = k.id, !.stage = k.stage, !.new = k.new]
      BY DEF Idle
    <3>2. Start(t) /\ Goes(t, k) /\ issued' = Append(issued, new) /\ new \in 1..MaxIssued
      BY AuthAssumption DEF BeginLogin, AuthAssumption, TypeOK
    <3>3. issued' \in Seq(Nat \ {0}) /\ Len(issued') = new /\ DOMAIN issued \subseteq DOMAIN issued'
      BY <3>2 DEF TypeOK
    <3>4. new \in 0..MaxIssued /\ new <= MaxIssued
      BY <3>2
    <3> HIDE DEF k, new
    <3>5. /\ task' \in [Tasks -> Activities] /\ ActivitiesFit'
          /\ UNCHANGED <<lock, file, version, backoff, stray, expired, faults, ghosts>>
          /\ ops' \in 0..MaxOps
      BY <3>1, <3>2, <3>4, BeginStep
    <3> QED BY <3>3, <3>4, <3>5 DEF TypeOK, ghosts
  <2>3. CASE \E t \in Tasks, id \in Profiles : BeginRemove(t, id)
    <3> PICK t \in Tasks, id \in Profiles : BeginRemove(t, id)
      BY <2>3
    <3> DEFINE k == [Idle EXCEPT !.op = "remove", !.id = id, !.stage = "save"]
    <3>1. /\ k.op = "remove" /\ k.id = id /\ k.new = 0 /\ k.stage = "save"
          /\ k = [Idle EXCEPT !.op = k.op, !.id = k.id, !.stage = k.stage, !.new = k.new]
      BY DEF Idle
    <3>2. Start(t) /\ Goes(t, k) /\ UNCHANGED issued /\ 0 \in 0..MaxIssued
      BY AuthAssumption DEF BeginRemove, AuthAssumption
    <3> HIDE DEF k
    <3> QED BY <3>1, <3>2, BeginStep DEF TypeOK, ghosts
  <2>4. CASE \E t \in Tasks, id \in Profiles : BeginUse(t, id)
    <3> PICK t \in Tasks, id \in Profiles : BeginUse(t, id)
      BY <2>4
    <3> DEFINE k == [Idle EXCEPT !.op = "use", !.id = id]
    <3>1. /\ k.op = "use" /\ k.id = id /\ k.new = 0 /\ k.stage = "load"
          /\ k = [Idle EXCEPT !.op = k.op, !.id = k.id, !.stage = k.stage, !.new = k.new]
      BY DEF Idle
    <3>2. Start(t) /\ Goes(t, k) /\ UNCHANGED issued /\ 0 \in 0..MaxIssued
      BY AuthAssumption DEF BeginUse, AuthAssumption
    <3> HIDE DEF k
    <3> QED BY <3>1, <3>2, BeginStep DEF TypeOK, ghosts
  <2> QED BY <1>7, <2>1, <2>2, <2>3, <2>4, AuthAssumption DEF Begin, Tasks, AuthAssumption
<1> QED BY <1>1, <1>2, <1>3, <1>4, <1>5, <1>6, <1>7 DEF Next

-----------------------------------------------------------------------------
(* Most steps give no task a token set that it did not have, and leave the *)
(* file alone.                                                             *)
Quieter(u) ==
  /\ Holds(u)' => Holds(u) /\ task'[u].old = task[u].old /\ task'[u].id = task[u].id
  /\ Unsaved(u)' => Unsaved(u) /\ task'[u].new = task[u].new
  /\ task'[u].at = "rename" => task'[u] = task[u]
  /\ task'[u].stage = "refresh" => task[u].stage = "refresh" /\ task'[u].old = task[u].old
  /\ task'[u].op = "login" => task[u].op = "login" /\ task'[u].new = task[u].new

LEMMA QuietStep ==
  ASSUME TokensIssued, ~late => FileInv, \A u \in Tasks : Quieter(u),
         UNCHANGED <<file, version, issued, spent, intent, overtook, late>>
  PROVE  TokensIssued' /\ (~late' => FileInv')
<1>1. TokensIssued'
  BY DEF TokensIssued, Quieter
<1>2. ASSUME FileInv PROVE FileInv'
  <2> USE <1>2 DEF FileInv
  <2>1. WritesFit'
    BY DEF WritesFit, Saved, Quieter
  <2>2. AllIssued'
    BY DEF AllIssued, Quieter
  <2>3. OneOwner'
    BY DEF OneOwner, Quieter
  <2>4. UnsavedIsNew'
    BY DEF UnsavedIsNew, Quieter
  <2>5. SpentIsGone'
    BY DEF SpentIsGone, Quieter
  <2>6. Lineage'
    BY DEF Lineage, Quieter
  <2> QED BY <2>1, <2>2, <2>3, <2>4, <2>5, <2>6
<1> QED BY <1>1, <1>2

LEMMA Others ==
  ASSUME TypeOK, NEW t \in Tasks, NEW k, Goes(t, k)
  PROVE  task'[t] = k /\ \A u \in Tasks : u # t => task'[u] = task[u] /\ Quieter(u)
<1>1. task'[t] = k /\ \A u \in Tasks : u # t => task'[u] = task[u]
  BY DEF Goes, TypeOK
<1> QED BY <1>1 DEF Quieter, Holds, Unsaved

LEMMA FinishIsQuiet ==
  ASSUME TypeOK, NEW t \in Tasks, Finish(t)
  PROVE  \A u \in Tasks : Quieter(u)
<1>1. task'[t] = Idle /\ \A u \in Tasks : u # t => Quieter(u)
  BY Others DEF Finish
<1>2. Quieter(t)
  BY <1>1, AuthAssumption DEF AuthAssumption, Idle, Quieter, Holds, Unsaved
<1> QED BY <1>1, <1>2

LEMMA QuietSteps ==
  ASSUME TypeOK, ActivitiesFit, NEW t \in Tasks,
         \/ Lock(t) \/ GiveUp(t) \/ TakeRefreshLock(t) \/ Release(t) \/ Drop(t)
         \/ Read(t) /\ ~(Reload(t) /\ ~Finish(t)) /\ ~(Save(t) /\ ~Finish(t))
         \/ Refresh(t) /\ Failed(t)
         \/ \E choice \in Profiles \cup {None} : BeginToken(t, choice)
         \/ \E id \in Profiles : BeginRemove(t, id) \/ BeginUse(t, id)
  PROVE  (\A u \in Tasks : Quieter(u)) /\ UNCHANGED <<file, version, issued, spent, intent, overtook, late>>
<1> DEFINE Same == UNCHANGED <<file, version, issued, spent, intent, overtook, late>>
<1>1. CASE Lock(t)
  <2>1. /\ task'[t] = [task[t] EXCEPT !.at = "read"]
        /\ \A u \in Tasks : u # t => Quieter(u)
    BY <1>1, Others DEF Lock
  <2>2. Quieter(t)
    BY <1>1, <2>1 DEF Lock, Quieter, Holds, Unsaved, TypeOK, Activities
  <2> QED BY <1>1, <2>1, <2>2 DEF Lock, provider, ghosts
<1>2. CASE GiveUp(t) \/ Release(t) \/ Drop(t)
  BY <1>2, FinishIsQuiet DEF GiveUp, Release, Drop, provider, ghosts
<1>3. CASE TakeRefreshLock(t)
  <2>1. /\ task'[t] = [task[t] EXCEPT !.stage = "reload", !.at = "lock"]
        /\ \A u \in Tasks : u # t => Quieter(u)
    BY <1>3, Others DEF TakeRefreshLock
  <2>2. Quieter(t)
    BY <1>3, <2>1 DEF TakeRefreshLock, Quieter, Holds, Unsaved, TypeOK, Activities
  <2> QED BY <1>3, <2>1, <2>2 DEF TakeRefreshLock, provider, ghosts
<1>4. CASE Read(t) /\ Finish(t)
  BY <1>4, FinishIsQuiet DEF Read, provider, ghosts
<1>5. CASE Read(t) /\ LoadToken(t) /\ ~Finish(t)
  <2>1. PICK id \in Profiles :
          Goes(t, [task[t] EXCEPT !.stage = "wait", !.at = "wait", !.id = id, !.old = file.tokens[id]])
    BY <1>5 DEF LoadToken, Selected, Present
  <2>2. /\ task'[t] = [task[t] EXCEPT !.stage = "wait", !.at = "wait", !.id = id, !.old = file.tokens[id]]
        /\ \A u \in Tasks : u # t => Quieter(u)
    BY <2>1, Others
  <2>3. Quieter(t)
    BY <2>2, AuthAssumption DEF AuthAssumption, Quieter, Holds, Unsaved, TypeOK, Activities
  <2> QED BY <1>5, <2>2, <2>3 DEF Read, provider, ghosts
<1>6. CASE Read(t) /\ LoadUse(t) /\ ~Finish(t)
  <2>1. Goes(t, [task[t] EXCEPT !.stage = "save", !.at = "lock"]) /\ task[t].op = "use"
    BY <1>6 DEF LoadUse
  <2>2. /\ task'[t] = [task[t] EXCEPT !.stage = "save", !.at = "lock"]
        /\ \A u \in Tasks : u # t => Quieter(u)
    BY <2>1, Others
  <2>3. Quieter(t)
    BY <2>1, <2>2 DEF Quieter, Holds, Unsaved, TypeOK, Activities
  <2> QED BY <1>6, <2>2, <2>3 DEF Read, LoadUse, provider, ghosts
<1>7. CASE Refresh(t) /\ Failed(t)
  <2>1. CASE Finish(t)
    BY <1>7, <2>1, FinishIsQuiet DEF Refresh, Failed, ghosts
  <2>2. CASE ~Finish(t)
    <3>1. Goes(t, [task[t] EXCEPT !.tries = @ + 1])
      BY <1>7, <2>2 DEF Failed
    <3>2. /\ task'[t] = [task[t] EXCEPT !.tries = @ + 1]
          /\ \A u \in Tasks : u # t => Quieter(u)
      BY <3>1, Others
    <3>3. Quieter(t)
      BY <1>7, <3>2 DEF Refresh, ActivitiesFit, Fits, Quieter, Holds, Unsaved, TypeOK, Activities
    <3> QED BY <1>7, <3>2, <3>3 DEF Refresh, Failed, ghosts
  <2> QED BY <2>1, <2>2
<1>8. CASE \E choice \in Profiles \cup {None} : BeginToken(t, choice)
  <2> PICK choice \in Profiles \cup {None} : BeginToken(t, choice)
    BY <1>8
  <2>1. /\ task'[t] = [Idle EXCEPT !.op = "token", !.id = choice]
        /\ \A u \in Tasks : u # t => Quieter(u)
    BY Others DEF BeginToken
  <2>2. Quieter(t)
    BY <2>1 DEF Idle, Quieter, Holds, Unsaved
  <2> QED BY <2>1, <2>2 DEF BeginToken, Start, ghosts
<1>9. CASE \E id \in Profiles : BeginRemove(t, id)
  <2> PICK id \in Profiles : BeginRemove(t, id)
    BY <1>9
  <2>1. /\ task'[t] = [Idle EXCEPT !.op = "remove", !.id = id, !.stage = "save"]
        /\ \A u \in Tasks : u # t => Quieter(u)
    BY Others DEF BeginRemove
  <2>2. Quieter(t)
    BY <2>1 DEF Idle, Quieter, Holds, Unsaved
  <2> QED BY <2>1, <2>2 DEF BeginRemove, Start, ghosts
<1>10. CASE \E id \in Profiles : BeginUse(t, id)
  <2> PICK id \in Profiles : BeginUse(t, id)
    BY <1>10
  <2>1. /\ task'[t] = [Idle EXCEPT !.op = "use", !.id = id]
        /\ \A u \in Tasks : u # t => Quieter(u)
    BY Others DEF BeginUse
  <2>2. Quieter(t)
    BY <2>1 DEF Idle, Quieter, Holds, Unsaved
  <2> QED BY <2>1, <2>2 DEF BeginUse, Start, ghosts
<1> QED BY <1>1, <1>2, <1>3, <1>4, <1>5, <1>6, <1>7, <1>8, <1>9, <1>10 DEF Read

(* A process that dies is quiet. *)
LEMMA CrashIsQuiet ==
  ASSUME TypeOK, NEW p, Crash(p)
  PROVE  (\A u \in Tasks : Quieter(u)) /\ UNCHANGED <<file, version, issued, spent, intent, overtook, late>>
<1>1. \A u \in Tasks : task'[u] = task[u] \/ task'[u] = Idle
  BY DEF Crash
<1>2. \A u \in Tasks : Quieter(u)
  BY <1>1, AuthAssumption DEF AuthAssumption, Idle, Quieter, Holds, Unsaved
<1> QED BY <1>2 DEF Crash, provider, ghosts

(* A task is about to exchange the token set that the file holds.          *)
LEMMA ReloadStep ==
  ASSUME StoreInv, NEW t \in Tasks, Read(t), Reload(t), ~Finish(t)
  PROVE  TokensIssued' /\ (~late' => FileInv')
<1> DEFINE k == task[t]
           g == file.tokens[k.id]
           j == [k EXCEPT !.stage = "refresh", !.at = "http", !.old = g]
<1>1. Goes(t, j) /\ k.stage = "reload" /\ g \in DOMAIN issued
  BY DEF StoreInv, TypeOK, Reload
<1>2. UNCHANGED <<file, version, issued, spent, intent, overtook, late>>
  BY DEF Read, provider, ghosts
<1>3. task'[t] = j /\ \A u \in Tasks : u # t => task'[u] = task[u]
  BY <1>1, Others DEF StoreInv
<1>4. k \in Activities /\ k.op = "token" /\ k.id \in Profiles
  BY <1>1 DEF StoreInv, TypeOK, ActivitiesFit, Fits
<1>5. /\ task'[t].stage = "refresh" /\ task'[t].at = "http" /\ task'[t].old = g
      /\ task'[t].op = "token" /\ task'[t].id = k.id
  BY <1>3, <1>4 DEF Activities
<1>6. TokensIssued'
  BY <1>1, <1>2, <1>3, <1>5 DEF StoreInv, TokensIssued
<1>7. ASSUME FileInv PROVE FileInv'
  <2>0. g \in 1..Len(issued) /\ issued \in Seq(Nat \ {0})
    BY <1>1 DEF StoreInv, TypeOK
  <2>h. Holds(t)' /\ ~Unsaved(t)' /\ \A u \in Tasks : u # t => (Holds(u)' <=> Holds(u)) /\ (Unsaved(u)' <=> Unsaved(u))
    BY <1>3, <1>5 DEF Holds, Unsaved
  <2>o. \A u \in Tasks : u # t => task'[u] = task[u]
    BY <1>3
  <2> HIDE DEF k, g
  <2> USE <1>2, <1>5, <1>7, <2>h, <2>o DEF FileInv
  <2>1. WritesFit'
    BY DEF WritesFit, Saved
  <2>2. AllIssued'
    BY <2>0 DEF AllIssued
  <2>3. OneOwner'
    BY <1>4, <2>0 DEF OneOwner, g
  <2>4. UnsavedIsNew'
    BY <1>4 DEF UnsavedIsNew, g
  <2>5. SpentIsGone'
    BY <1>4 DEF SpentIsGone, g
  <2>6. Lineage'
    BY <1>4, <2>0 DEF Lineage, g
  <2> QED BY <2>1, <2>2, <2>3, <2>4, <2>5, <2>6
<1> QED BY <1>2, <1>6, <1>7 DEF StoreInv

(* A token set is issued to a task, for the one it exchanged or for a      *)
(* login.                                                                  *)
LEMMA IssueStep ==
  ASSUME StoreInv, NEW t \in Tasks, NEW k, NEW login \in Nat \ {0}, Goes(t, k),
         issued' = Append(issued, login), UNCHANGED <<file, version, spent, intent, overtook, late>>,
         k.stage = "save", k.at = "lock", k.new = Len(issued) + 1,
         \/ k.op = "login"
         \/ /\ k.op = "token" /\ task[t].op = "token" /\ task[t].stage = "refresh"
            /\ k.old = task[t].old /\ k.id = task[t].id /\ login = issued[k.old]
  PROVE  TokensIssued' /\ (~late' => FileInv')
<1>1. issued \in Seq(Nat \ {0}) /\ issued' \in Seq(Nat \ {0}) /\ Len(issued') = Len(issued) + 1 /\ Len(issued) \in Nat
  BY DEF StoreInv, TypeOK
<1>2. issued'[Len(issued) + 1] = login /\ \A i \in 1..Len(issued) : issued'[i] = issued[i]
  BY <1>1
<1>3. task'[t] = k /\ \A u \in Tasks : u # t => task'[u] = task[u]
  BY Others DEF StoreInv
<1>4. TokensIssued'
  BY <1>1, <1>3 DEF StoreInv, TokensIssued
<1>5. ASSUME FileInv PROVE FileInv'
  <2>h. /\ Unsaved(t)'
        /\ Holds(t)' => k.op = "token" /\ Holds(t)
        /\ \A u \in Tasks : u # t => (Holds(u)' <=> Holds(u)) /\ (Unsaved(u)' <=> Unsaved(u))
    BY <1>3 DEF Holds, Unsaved
  <2> USE <1>1, <1>3, <1>5, <2>h DEF FileInv
  <2>1. WritesFit'
    BY DEF WritesFit, Saved
  <2>2. AllIssued'
    BY DEF AllIssued
  <2>3. OneOwner'
    BY DEF OneOwner
  <2>4. UnsavedIsNew'
    BY DEF UnsavedIsNew, AllIssued
  <2>5. SpentIsGone'
    BY DEF SpentIsGone
  <2>6. Lineage'
    <3>1. \A id \in Profiles : file.tokens[id] # 0 => issued'[file.tokens[id]] = issued[file.tokens[id]]
      BY <1>2 DEF AllIssued
    <3>2. \A u \in Tasks : Holds(u) => issued'[task[u].old] = issued[task[u].old]
      BY <1>2 DEF AllIssued
    <3>3. \A u \in Tasks : Unsaved(u) => issued'[task[u].new] = issued[task[u].new]
      BY <1>2 DEF AllIssued
    <3>4. Holds(t)' => issued'[k.new] = issued'[k.old]
      BY <1>2, <3>2
    <3>5. ASSUME NEW u \in Tasks, u # t, Holds(u)'
          PROVE  /\ Unsaved(u)' => issued'[task'[u].new] = issued'[task'[u].old]
                 /\ task'[u].id \notin overtook' /\ intent'[task'[u].id] # 0 =>
                      issued'[task'[u].old] = intent'[task'[u].id]
      <4>1. Holds(u) /\ (Unsaved(u)' <=> Unsaved(u)) /\ task'[u] = task[u]
        BY <3>5
      <4>2. /\ Unsaved(u) => issued[task[u].new] = issued[task[u].old]
            /\ task[u].id \notin overtook /\ intent[task[u].id] # 0 => issued[task[u].old] = intent[task[u].id]
        BY <4>1 DEF Lineage
      <4>3. issued'[task[u].old] = issued[task[u].old] /\ (Unsaved(u) => issued'[task[u].new] = issued[task[u].new])
        BY <3>2, <3>3, <4>1
      <4> QED BY <4>1, <4>2, <4>3
    <3>6. Holds(t)' => (k.id \notin overtook' /\ intent'[k.id] # 0 => issued'[k.old] = intent'[k.id])
      BY <3>2 DEF Lineage
    <3>7. \A id \in Profiles :
            /\ (file'.tokens[id] = 0) <=> (intent'[id] = 0)
            /\ file'.tokens[id] # 0 /\ id \notin overtook' => issued'[file'.tokens[id]] = intent'[id]
      BY <3>1 DEF Lineage
    <3> QED BY <3>4, <3>5, <3>6, <3>7 DEF Lineage
  <2> QED BY <2>1, <2>2, <2>3, <2>4, <2>5, <2>6
<1> QED BY <1>4, <1>5 DEF StoreInv

(* A task writes what it makes of the file, under the lock.                *)
LEMMA WriteStep ==
  ASSUME StoreInv, NEW t \in Tasks, Read(t), Save(t), ~Finish(t)
  PROVE  TokensIssued' /\ (~late' => FileInv')
<1> DEFINE k == task[t]
<1>1. PICK tokens \in [Profiles -> 0..MaxIssued], active \in Profiles \cup {None} :
        /\ Write(t, tokens, active)
        /\ \A id \in Profiles : tokens[id] = Saved(t, id)
        /\ k.op = "token" => file.tokens[k.id] # 0
  BY SaveWrites DEF StoreInv, GiveBack
<1> DEFINE j == [k EXCEPT !.at = "rename", !.copy = [tokens |-> tokens, active |-> active], !.base = version]
<1>2. Goes(t, j) /\ k.at = "read" /\ k.stage = "save"
  BY <1>1 DEF Write, Save
<1>3. UNCHANGED <<file, version, issued, spent, intent, overtook, late>>
  BY DEF Read, provider, ghosts
<1>4. task'[t] = j /\ \A u \in Tasks : u # t => task'[u] = task[u]
  BY <1>2, Others DEF StoreInv
<1>5. /\ task'[t].op = k.op /\ task'[t].id = k.id /\ task'[t].old = k.old /\ task'[t].new = k.new
      /\ task'[t].stage = "save" /\ task'[t].at = "rename" /\ task'[t].copy.tokens = tokens /\ task'[t].base = version
  BY <1>2, <1>4 DEF StoreInv, TypeOK, Activities
<1>6. TokensIssued'
  BY <1>3, <1>4, <1>5 DEF StoreInv, TokensIssued
<1>7. ASSUME FileInv PROVE FileInv'
  <2>h. \A u \in Tasks : (Holds(u)' <=> Holds(u)) /\ (Unsaved(u)' <=> Unsaved(u))
    BY <1>2, <1>4, <1>5 DEF Holds, Unsaved
  <2>o. \A u \in Tasks : u # t => task'[u] = task[u]
    BY <1>4
  <2> HIDE DEF k
  <2> USE <1>3, <1>5, <1>7, <2>h, <2>o DEF FileInv
  <2>1. WritesFit'
    BY <1>1 DEF WritesFit, Saved, k
  <2>2. AllIssued'
    BY DEF AllIssued, k
  <2>3. OneOwner'
    BY DEF OneOwner, k
  <2>4. UnsavedIsNew'
    BY DEF UnsavedIsNew, k
  <2>5. SpentIsGone'
    BY DEF SpentIsGone
  <2>6. Lineage'
    BY DEF Lineage, k
  <2> QED BY <2>1, <2>2, <2>3, <2>4, <2>5, <2>6
<1> QED BY <1>3, <1>6, <1>7 DEF StoreInv

(* The write gets to the file.                                             *)
LEMMA RenameStep ==
  ASSUME StoreInv, NEW t \in Tasks, Rename(t)
  PROVE  TokensIssued' /\ (~late' => FileInv')
<1> DEFINE k == task[t]
           j == [k EXCEPT !.at = "renamed", !.copy = None, !.base = 0]
           p == <<ProcessOf(t), k.old>>
<1>1. /\ Goes(t, j) /\ k.at = "rename" /\ file' = k.copy
      /\ UNCHANGED <<lock, issued, late>>
      /\ intent' = CASE k.op = "login"  -> [intent EXCEPT ![k.id] = issued[k.new]]
                     [] k.op = "remove" -> [intent EXCEPT ![k.id] = 0]
                     [] OTHER           -> intent
      /\ overtook' = IF k.op = "login" /\ Overtaken(k.id) THEN overtook \cup {k.id} ELSE overtook
      /\ spent' = IF k.op = "token" THEN spent \cup {p} ELSE spent
  BY DEF Rename, provider
<1>2. /\ lock = t /\ k.stage = "save" /\ k.id \in Profiles /\ k \in Activities /\ t # None
      /\ k.op \in {"token", "login", "remove", "use"}
  BY <1>1, AuthAssumption DEF AuthAssumption, StoreInv, TypeOK, ActivitiesFit, Fits, Activities
<1>3. task'[t] = j /\ \A u \in Tasks : u # t => task'[u] = task[u]
  BY <1>1, Others DEF StoreInv
<1>4. /\ task'[t].op = k.op /\ task'[t].id = k.id /\ task'[t].old = k.old /\ task'[t].new = k.new
      /\ task'[t].stage = "save" /\ task'[t].at = "renamed"
  BY <1>2, <1>3 DEF Activities
<1>5. \A u \in Tasks : u # t => task'[u] = task[u] /\ task[u].at # "rename"
  BY <1>2, <1>3 DEF StoreInv, ActivitiesFit, Fits
<1>6. TokensIssued'
  BY <1>1, <1>4, <1>5 DEF StoreInv, TokensIssued
<1>7. ASSUME FileInv PROVE FileInv'
  <2>h. /\ ~Unsaved(t)' /\ (Holds(t)' <=> Holds(t)) /\ (Holds(t) <=> k.op = "token")
        /\ Unsaved(t) <=> k.op \in {"token", "login"}
        /\ \A u \in Tasks : u # t => (Holds(u)' <=> Holds(u)) /\ (Unsaved(u)' <=> Unsaved(u))
    BY <1>1, <1>2, <1>4, <1>5 DEF Holds, Unsaved
  <2>f. \A id \in Profiles : file'.tokens[id] =
          IF id # k.id \/ k.op = "use" THEN file.tokens[id] ELSE IF k.op = "remove" THEN 0 ELSE k.new
    BY <1>1, <1>7 DEF FileInv, WritesFit, Saved
  <2>g. k.op = "token" => file.tokens[k.id] # 0
    BY <1>1, <1>7 DEF FileInv, WritesFit
  <2>n. Len(issued) \in Nat
    BY DEF StoreInv, TypeOK
  <2>e. intent \in [Profiles -> Nat]
    BY DEF StoreInv, TypeOK
  <2> HIDE DEF k, p, j
  <2> USE <1>2, <1>4, <1>5, <1>7, <2>h, <2>f DEF FileInv
  <2>1. WritesFit'
    BY DEF WritesFit
  <2>2. AllIssued'
    BY <1>1, <2>n DEF AllIssued, p, k
  <2>3. OneOwner'
    BY <2>n DEF OneOwner, UnsavedIsNew, AllIssued, k
  <2>4. UnsavedIsNew'
    BY <1>1, <2>n DEF UnsavedIsNew, AllIssued, p, k
  <2>5. SpentIsGone'
    <3>1. \A q \in spent, id \in Profiles : file'.tokens[id] # q[2]
      BY <2>n DEF SpentIsGone, UnsavedIsNew, AllIssued, k
    <3>2. k.op = "token" => \A id \in Profiles : file'.tokens[id] # k.old
      BY DEF OneOwner, UnsavedIsNew, k
    <3>3. ASSUME k.op = "token", NEW u \in Tasks, task'[u].stage = "refresh" PROVE <<ProcessOf(u), task'[u].old>> # p
      <4>1. u # t /\ task[u].stage = "refresh" /\ task[u].op = "token"
        BY <3>3 DEF StoreInv, ActivitiesFit, Fits
      <4>2. SUFFICES ASSUME ProcessOf(u) = ProcessOf(t), task[u].old = k.old PROVE FALSE
        BY <4>1 DEF p
      <4>3. u \in ProcessOf(t) /\ Refreshing(u) /\ Refreshing(t) /\ Holds(u)
        BY <3>3, <4>1, <4>2, ProcessesApart DEF Refreshing, Holds, k
      <4>4. task[u].id = k.id
        BY <3>3, <4>2, <4>3 DEF OneOwner, k
      <4> QED BY <4>1, <4>3, <4>4 DEF StoreInv, OneRefresher, k
    <3> QED BY <1>1, <3>1, <3>2, <3>3 DEF SpentIsGone, p
  <2>6. Lineage'
    <3>1. \A id \in Profiles : /\ id # k.id => intent'[id] = intent[id]
                               /\ k.op \in {"token", "use"} => intent'[id] = intent[id]
                               /\ k.op = "remove" => intent'[k.id] = 0
                               /\ k.op = "login" => intent'[k.id] = issued[k.new]
      BY <1>1, <2>e
    <3>2. k.op = "login" => issued[k.new] # 0 /\ k.new # 0
      BY DEF StoreInv, TypeOK, TokensIssued, k
    <3>3. k.op = "token" => k.new # 0 /\ issued[k.new] = issued[k.old]
      BY <2>n DEF AllIssued, Lineage, k
    <3>4. overtook \subseteq overtook'
      BY <1>1
    <3>5. ASSUME NEW id \in Profiles
          PROVE  /\ (file'.tokens[id] = 0) <=> (intent'[id] = 0)
                 /\ file'.tokens[id] # 0 /\ id \notin overtook' => issued[file'.tokens[id]] = intent'[id]
      <4>1. CASE id # k.id \/ k.op = "use"
        BY <3>1, <3>4, <4>1 DEF Lineage
      <4>2. CASE id = k.id /\ k.op = "remove"
        BY <3>1, <4>2
      <4>3. CASE id = k.id /\ k.op = "login"
        BY <3>1, <3>2, <4>3
      <4>4. CASE id = k.id /\ k.op = "token"
        BY <2>g, <3>1, <3>3, <3>4, <4>4 DEF Lineage, k
      <4> QED BY <4>1, <4>2, <4>3, <4>4
    <3>6. ASSUME NEW u \in Tasks, Holds(u)
          PROVE  /\ task'[u].old = task[u].old /\ task'[u].id = task[u].id /\ task'[u].new = task[u].new
                 /\ task[u].id \notin overtook' /\ intent'[task[u].id] # 0 =>
                      issued[task[u].old] = intent'[task[u].id]
      <4>1. task'[u].old = task[u].old /\ task'[u].id = task[u].id /\ task'[u].new = task[u].new
        BY DEF k
      <4>2. task[u].id \in Profiles
        BY <3>6 DEF StoreInv, ActivitiesFit, Fits, Holds
      <4>3. k.op = "login" /\ task[u].id = k.id => k.id \in overtook'
        BY <1>1, <3>6 DEF Overtaken, Holds
      <4>4. task[u].id \notin overtook' /\ intent'[task[u].id] # 0 => intent'[task[u].id] = intent[task[u].id]
        BY <3>1, <4>2, <4>3
      <4> QED BY <3>4, <3>6, <4>1, <4>4 DEF Lineage
    <3>7. \A u \in Tasks : (Holds(u)' => Holds(u)) /\ (Unsaved(u)' => Unsaved(u))
      OBVIOUS
    <3> QED BY <1>1, <3>5, <3>6, <3>7 DEF Lineage
  <2> QED BY <2>1, <2>2, <2>3, <2>4, <2>5, <2>6
<1> QED BY <1>1, <1>6, <1>7 DEF StoreInv

-----------------------------------------------------------------------------
(* Only the refresh lock lets a task begin to refresh a profile.           *)
LEMMA OneRefresherStep ==
  ASSUME TypeOK, ActivitiesFit, OneRefresher, [Next]_vars
  PROVE  OneRefresher'
<1> DEFINE Same(u) == Refreshing(u)' => Refreshing(u) /\ task'[u].id = task[u].id
<1>1. ASSUME \A u \in Tasks : Same(u) PROVE OneRefresher'
  BY <1>1 DEF OneRefresher
<1>2. ASSUME task' = task PROVE OneRefresher'
  BY <1>2 DEF OneRefresher, Refreshing
<1>3. ASSUME NEW t \in Tasks, NEW k, Goes(t, k),
             k.op = "token" /\ k.stage \in {"reload", "refresh", "save"} => Refreshing(t) /\ k.id = task[t].id
      PROVE  OneRefresher'
  <2>1. task'[t] = k /\ \A u \in Tasks : u # t => task'[u] = task[u]
    BY <1>3, Others
  <2>2. \A u \in Tasks : Same(u)
    BY <1>3, <2>1 DEF Refreshing
  <2> QED BY <1>1, <2>2
<1>4. ASSUME NEW t \in Tasks, Finish(t) PROVE OneRefresher'
  BY <1>3, <1>4, AuthAssumption DEF AuthAssumption, Finish, Idle
<1>5. ASSUME NEW t \in Tasks, TakeRefreshLock(t) PROVE OneRefresher'
  <2>1. /\ task'[t] = [task[t] EXCEPT !.stage = "reload", !.at = "lock"]
        /\ \A u \in Tasks : u # t => task'[u] = task[u]
    BY <1>5, Others DEF TakeRefreshLock
  <2>2. task'[t].id = task[t].id
    BY <2>1 DEF TypeOK, Activities
  <2>3. \A u \in ProcessOf(t) : Refreshing(u) => task[u].id # task[t].id
    BY <1>5 DEF TakeRefreshLock
  <2>4. SUFFICES ASSUME NEW u \in Tasks, NEW v \in Tasks, v \in ProcessOf(u), Refreshing(u)', Refreshing(v)',
                        task'[u].id = task'[v].id, u # v
                 PROVE  FALSE
    BY DEF OneRefresher
  <2>5. u # t => Refreshing(u) /\ task'[u].id = task[u].id
    BY <2>1, <2>4 DEF Refreshing
  <2>6. v # t => Refreshing(v) /\ task'[v].id = task[v].id
    BY <2>1, <2>4 DEF Refreshing
  <2>7. CASE u = t
    BY <2>2, <2>3, <2>4, <2>6, <2>7
  <2>8. CASE v = t
    <3>1. u \in ProcessOf(t)
      BY <2>4, <2>8, ProcessesApart
    <3> QED BY <2>2, <2>3, <2>4, <2>5, <2>8, <3>1
  <2>9. CASE u # t /\ v # t
    BY <2>4, <2>5, <2>6, <2>9 DEF OneRefresher
  <2> QED BY <2>7, <2>8, <2>9
<1>6. ASSUME NEW t \in Tasks, Read(t) PROVE OneRefresher'
  <2>1. CASE LoadToken(t) /\ ~Finish(t)
    <3>1. PICK id \in Profiles :
            Goes(t, [task[t] EXCEPT !.stage = "wait", !.at = "wait", !.id = id, !.old = file.tokens[id]])
      BY <2>1 DEF LoadToken, Selected, Present
    <3> QED BY <1>3, <3>1 DEF TypeOK, Activities
  <2>2. CASE LoadUse(t) /\ ~Finish(t)
    <3>1. Goes(t, [task[t] EXCEPT !.stage = "save", !.at = "lock"]) /\ task[t].op = "use"
      BY <2>2 DEF LoadUse
    <3> QED BY <1>3, <3>1 DEF TypeOK, Activities
  <2>3. CASE Reload(t) /\ ~Finish(t)
    <3>1. /\ Goes(t, [task[t] EXCEPT !.stage = "refresh", !.at = "http", !.old = file.tokens[task[t].id]])
          /\ task[t].stage = "reload"
      BY <2>3 DEF Reload
    <3> QED BY <1>3, <3>1 DEF TypeOK, Activities, Refreshing
  <2>4. CASE Save(t) /\ ~Finish(t)
    <3>1. PICK tokens, active : Write(t, tokens, active)
      BY <2>4, SaveWrites DEF GiveBack
    <3>2. task[t].stage = "save"
      BY <2>4 DEF Save
    <3> QED BY <1>3, <3>1, <3>2 DEF Write, TypeOK, Activities, Refreshing
  <2> QED BY <1>4, <1>6, <2>1, <2>2, <2>3, <2>4 DEF Read
<1>7. ASSUME NEW t \in Tasks, Refresh(t) PROVE OneRefresher'
  <2>1. task[t].stage = "refresh"
    BY <1>7 DEF Refresh
  <2>2. CASE Refreshed(t)
    <3>1. Goes(t, [task[t] EXCEPT !.stage = "save", !.at = "lock", !.new = Len(issued) + 1])
      BY <2>2 DEF Refreshed
    <3> QED BY <1>3, <2>1, <3>1 DEF TypeOK, Activities, Refreshing
  <2>3. CASE Failed(t) /\ ~Finish(t)
    <3>1. Goes(t, [task[t] EXCEPT !.tries = @ + 1])
      BY <2>3 DEF Failed
    <3> QED BY <1>3, <2>1, <3>1 DEF TypeOK, Activities, Refreshing
  <2> QED BY <1>4, <1>7, <2>2, <2>3 DEF Refresh
<1>8. ASSUME NEW t \in Tasks, Step(t) PROVE OneRefresher'
  <2>1. CASE Lock(t)
    <3>1. Goes(t, [task[t] EXCEPT !.at = "read"])
      BY <2>1 DEF Lock
    <3> QED BY <1>3, <3>1 DEF TypeOK, Activities, Refreshing
  <2>2. CASE Rename(t)
    <3>1. Goes(t, [task[t] EXCEPT !.at = "renamed", !.copy = None, !.base = 0])
      BY <2>2 DEF Rename
    <3> QED BY <1>3, <3>1 DEF TypeOK, Activities, Refreshing
  <2> QED BY <1>4, <1>5, <1>6, <1>7, <1>8, <2>1, <2>2 DEF Step, GiveUp, Release
<1>9. ASSUME NEW t \in Tasks, NEW id \in Profiles \cup {None},
             BeginToken(t, id) \/ BeginLogin(t, id) \/ BeginRemove(t, id) \/ BeginUse(t, id)
      PROVE  OneRefresher'
  <2>1. CASE BeginToken(t, id)
    <3>1. Goes(t, [Idle EXCEPT !.op = "token", !.id = id])
      BY <2>1 DEF BeginToken
    <3> QED BY <1>3, <3>1 DEF Idle
  <2>2. CASE BeginLogin(t, id)
    <3>1. Goes(t, [Idle EXCEPT !.op = "login", !.id = id, !.stage = "save", !.new = Len(issued) + 1])
      BY <2>2 DEF BeginLogin
    <3> QED BY <1>3, <3>1 DEF Idle
  <2>3. CASE BeginRemove(t, id)
    <3>1. Goes(t, [Idle EXCEPT !.op = "remove", !.id = id, !.stage = "save"])
      BY <2>3 DEF BeginRemove
    <3> QED BY <1>3, <3>1 DEF Idle
  <2>4. CASE BeginUse(t, id)
    <3>1. Goes(t, [Idle EXCEPT !.op = "use", !.id = id])
      BY <2>4 DEF BeginUse
    <3> QED BY <1>3, <3>1 DEF Idle
  <2> QED BY <1>9, <2>1, <2>2, <2>3, <2>4
<1>10. ASSUME NEW p, Crash(p) PROVE OneRefresher'
  <2>1. \A u \in Tasks : task'[u] = task[u] \/ task'[u] = Idle
    BY <1>10 DEF Crash
  <2>2. \A u \in Tasks : Same(u)
    BY <2>1, AuthAssumption DEF AuthAssumption, Refreshing, Idle
  <2> QED BY <1>1, <2>2
<1>11. CASE Begin
  BY <1>9, <1>11, AuthAssumption DEF AuthAssumption, Begin, Tasks
<1>12. CASE UNCHANGED vars \/ Expire \/ BackoffEnds \/ StrayRename
  BY <1>2, <1>12 DEF vars, Expire, BackoffEnds, StrayRename
<1> QED BY <1>4, <1>8, <1>10, <1>11, <1>12 DEF Next, Drop

LEMMA StoreInvInductive ==
  ASSUME StoreInv, [Next]_vars
  PROVE  StoreInv'
<1>0. TypeOK /\ ActivitiesFit /\ TokensIssued /\ OneRefresher /\ (~late => FileInv)
  BY DEF StoreInv
<1>1. TypeOK' /\ ActivitiesFit'
  BY <1>0, TypeInductive
<1>2. OneRefresher'
  BY <1>0, OneRefresherStep
<1> DEFINE Kept == TokensIssued' /\ (~late' => FileInv')
<1>3. CASE UNCHANGED vars
  <2>1. \A u \in Tasks : Quieter(u)
    BY <1>3 DEF vars, Quieter, Holds, Unsaved
  <2> QED BY <1>0, <1>1, <1>2, <1>3, <2>1, QuietStep DEF vars, provider, ghosts, StoreInv
<1>4. CASE Expire \/ BackoffEnds
  <2>1. \A u \in Tasks : Quieter(u)
    BY <1>4 DEF Expire, BackoffEnds, Quieter, Holds, Unsaved
  <2>2. UNCHANGED <<file, version, issued, spent, intent, overtook, late>>
    BY <1>4 DEF Expire, BackoffEnds, provider, ghosts
  <2> QED BY <1>0, <1>1, <1>2, <2>1, <2>2, QuietStep DEF StoreInv
<1>5. CASE StrayRename
  <2>1. TokensIssued'
    BY <1>0, <1>5 DEF StrayRename, TokensIssued, provider
  <2> QED BY <1>1, <1>2, <1>5, <2>1 DEF StrayRename, StoreInv
<1>6. ASSUME NEW t \in Tasks, Step(t) PROVE Kept
  <2>1. CASE Lock(t) \/ GiveUp(t) \/ TakeRefreshLock(t) \/ Release(t)
    BY <1>0, <2>1, QuietSteps, QuietStep
  <2>2. CASE Read(t) /\ Reload(t) /\ ~Finish(t)
    BY <2>2, ReloadStep
  <2>3. CASE Read(t) /\ Save(t) /\ ~Finish(t)
    BY <2>3, WriteStep
  <2>4. CASE Read(t) /\ ~(Reload(t) /\ ~Finish(t)) /\ ~(Save(t) /\ ~Finish(t))
    BY <1>0, <2>4, QuietSteps, QuietStep
  <2>5. CASE Rename(t)
    BY <2>5, RenameStep
  <2>6. CASE Refresh(t) /\ Failed(t)
    BY <1>0, <2>6, QuietSteps, QuietStep
  <2>7. CASE Refresh(t) /\ Refreshed(t)
    <3> DEFINE old == task[t].old
               k == [task[t] EXCEPT !.stage = "save", !.at = "lock", !.new = Len(issued) + 1]
    <3>1. Goes(t, k) /\ issued' = Append(issued, issued[old]) /\ task[t].stage = "refresh"
      BY <2>7 DEF Refresh, Refreshed
    <3>2. task[t].op = "token" /\ task[t] \in Activities
      BY <1>0, <3>1 DEF TypeOK, ActivitiesFit, Fits
    <3>3. issued[old] \in Nat \ {0}
      BY <1>0, <3>1 DEF TokensIssued, TypeOK
    <3>4. UNCHANGED <<file, version, spent, intent, overtook, late>>
      BY <2>7 DEF Refresh, ghosts
    <3>5. k.stage = "save" /\ k.at = "lock" /\ k.new = Len(issued) + 1 /\ k.op = "token" /\ k.old = old /\ k.id = task[t].id
      BY <3>2 DEF Activities
    <3> HIDE DEF k
    <3> QED BY <3>1, <3>2, <3>3, <3>4, <3>5, IssueStep
  <2> QED BY <1>6, <2>1, <2>2, <2>3, <2>4, <2>5, <2>6, <2>7 DEF Step, Refresh
<1>7. ASSUME NEW t \in Tasks, Drop(t) PROVE Kept
  BY <1>0, <1>7, QuietSteps, QuietStep
<1>8. ASSUME NEW p, Crash(p) PROVE Kept
  BY <1>0, <1>8, CrashIsQuiet, QuietStep
<1>9. ASSUME NEW t \in Tasks, NEW id \in Profiles, BeginLogin(t, id) PROVE Kept
  <2> DEFINE k == [Idle EXCEPT !.op = "login", !.id = id, !.stage = "save", !.new = Len(issued) + 1]
  <2>1. /\ Goes(t, k) /\ issued' = Append(issued, Len(issued) + 1) /\ Len(issued) + 1 \in Nat \ {0}
        /\ UNCHANGED <<file, version, spent, intent, overtook, late>>
    BY <1>0, <1>9 DEF BeginLogin, Start, ghosts, TypeOK
  <2>2. k.stage = "save" /\ k.at = "lock" /\ k.new = Len(issued) + 1 /\ k.op = "login"
    BY DEF Idle
  <2> HIDE DEF k
  <2> QED BY <2>1, <2>2, IssueStep
<1>10. CASE Begin
  <2>1. ASSUME NEW t \in Tasks, NEW choice \in Profiles \cup {None}, BeginToken(t, choice) PROVE Kept
    BY <1>0, <2>1, QuietSteps, QuietStep
  <2>2. ASSUME NEW t \in Tasks, NEW id \in Profiles, BeginRemove(t, id) \/ BeginUse(t, id) PROVE Kept
    BY <1>0, <2>2, QuietSteps, QuietStep
  <2> QED BY <1>1, <1>2, <1>9, <1>10, <2>1, <2>2, AuthAssumption DEF AuthAssumption, Begin, Tasks, StoreInv
<1> QED BY <1>1, <1>2, <1>3, <1>4, <1>5, <1>6, <1>7, <1>8, <1>10 DEF Next, StoreInv

(* What the properties follow from.                                        *)
THEOREM StoreInvariant == Spec => []StoreInv
<1>1. StoreInv /\ [Next]_vars => StoreInv'
  BY StoreInvInductive
<1> QED BY InitHolds, <1>1, PTL DEF Spec

(* The values the variables take; in particular a refresh makes no more    *)
(* attempts than OAUTH_REFRESH_MAX_ATTEMPTS.                               *)
THEOREM TypeCorrect == Spec => []TypeOK
<1>1. StoreInv => TypeOK
  BY DEF StoreInv
<1> QED BY <1>1, StoreInvariant, PTL

(* Of any number of requests and commands, those of one process never      *)
(* exchange a profile's refresh token at the same time, and none sends a   *)
(* refresh token that its process has exchanged before.                    *)
THEOREM RefreshedOnceCorrect == Spec => []RefreshedOnce
<1>1. StoreInv => RefreshedOnce
  <2> SUFFICES ASSUME StoreInv, ~late, NEW t \in Tasks, task[t].stage = "refresh"
               PROVE  /\ <<ProcessOf(t), task[t].old>> \notin spent
                      /\ \A u \in ProcessOf(t) \ {t} : task[u].stage = "refresh" => task[u].id # task[t].id
    BY DEF RefreshedOnce
  <2>1. <<ProcessOf(t), task[t].old>> \notin spent
    BY DEF StoreInv, FileInv, SpentIsGone
  <2>2. ASSUME NEW u \in ProcessOf(t) \ {t}, task[u].stage = "refresh" PROVE task[u].id # task[t].id
    <3>1. u \in Tasks
      BY DEF ProcessOf, Tasks
    <3>2. Refreshing(t) /\ Refreshing(u)
      BY <2>2, <3>1 DEF StoreInv, ActivitiesFit, Fits, Refreshing
    <3> QED BY <2>2, <3>1, <3>2 DEF StoreInv, OneRefresher
  <2> QED BY <2>1, <2>2
<1> QED BY <1>1, StoreInvariant, PTL

(* A profile that was removed stays away until its next login, and its     *)
(* token set goes back to its last login, through any number of refreshes, *)
(* unless a refresh was under way during that login.                       *)
THEOREM LoginsStandCorrect == Spec => []LoginsStand
<1>1. StoreInv => LoginsStand
  BY DEF StoreInv, FileInv, Lineage, LoginsStand
<1> QED BY <1>1, StoreInvariant, PTL

(* Every replacement of the file is made from the file it replaces.        *)
THEOREM WritesAreSerialCorrect == Spec => WritesAreSerial
<1>1. StoreInv => \A t \in Tasks : Rename(t) /\ ~late => task[t].base = version
  BY DEF StoreInv, FileInv, WritesFit, Rename
<1> QED BY <1>1, StoreInvariant, PTL DEF WritesAreSerial
=============================================================================
