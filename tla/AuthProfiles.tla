---------------------------- MODULE AuthProfiles ----------------------------
(***************************************************************************)
(* The OAuth profiles: one file of token sets (auth/profiles.rs) that the  *)
(* daemon's requests and the CLI's commands, each a process of its own,    *)
(* share under a lock file, and the service that hands out access tokens   *)
(* and refreshes them when they expire (auth/mod.rs).                      *)
(*                                                                         *)
(* A token set is the number it was issued under.  The profiles are those  *)
(* of one provider.  Access tokens that come without a refresh token, the  *)
(* migration of old ciphertexts and the accounts' names are left out.      *)
(*                                                                         *)
(* A step ends at an await.  The file's writes run on a blocking thread:   *)
(* one that is under way is not stopped when its task is dropped.          *)
(***************************************************************************)
EXTENDS Naturals, Sequences, FiniteSets, Functions

CONSTANTS
  Daemon,       \* the daemon's requests to a provider under way at once
  Cli,          \* the commands under way at once
  Profiles,     \* profile ids
  Default,      \* the id of the profile called "default"
  Override,     \* the auth profile the daemon's configuration names, or None
  Attempts,     \* OAUTH_REFRESH_MAX_ATTEMPTS
  MaxIssued,    \* bound: token sets issued
  MaxOps,       \* bound: operations begun
  MaxFaults,    \* bound: crashes and dropped tasks
  None

Tasks == Daemon \cup Cli

ASSUME AuthAssumption ==
  /\ Daemon \cap Cli = {}
  /\ None \notin Tasks \cup Profiles \cup {"token", "login", "remove", "use"}
  /\ "stale" \notin Tasks \cup {None}
  /\ IsFiniteSet(Profiles) /\ Cardinality(Profiles) <= MaxIssued
  /\ Default \in Profiles /\ Override \in Profiles \cup {None}
  /\ Attempts \in Nat \ {0} /\ {MaxIssued, MaxOps, MaxFaults} \subseteq Nat

VARIABLES
  lock,     \* auth-profiles.lock: its owner, None, or Stale
  file,     \* auth-profiles.json
  version,  \* how often the file was replaced
  task,     \* [Tasks -> what the task is doing]
  backoff,  \* REFRESH_BACKOFFS of the daemon: profiles in backoff; a command
            \*  ends before its own matters
  stray,    \* writes whose task was dropped
  issued,   \* the login each token set goes back to
  expired,  \* token sets about to expire
  ops, faults,
  intent,   \* history variable: the last login saved for a profile, 0 when
            \*  it was removed
  overtook, \* history variable: profiles for which a login was saved while a
            \*  refresh was under way
  spent,    \* history variable: token sets whose refreshed successor a
            \*  process has saved
  late      \* history variable: whether a stray write got to the file

provider == <<issued, expired>>
ghosts   == <<intent, overtook, spent, late>>
vars     == <<lock, file, version, task, backoff, stray, provider, ops, faults, ghosts>>

Stale == "stale"  \* a lock file nobody will remove

ProcessOf(t) == IF t \in Daemon THEN Daemon ELSE {t}

(* An operation's loads and its save each take and release the lock file.  *)
Stages == {"load", "wait", "reload", "refresh", "save"}

Idle == [op |-> None, id |-> None, stage |-> "load", at |-> "lock",
         old |-> 0, new |-> 0, tries |-> 0, copy |-> None, base |-> 0]

(* Every profile is logged in; the last login's is active. *)
Init ==
  /\ lock = None
  /\ issued = [i \in 1..Cardinality(Profiles) |-> i] /\ expired = {}
  /\ file \in [tokens : {CHOOSE f \in Injection(Profiles, DOMAIN issued) : TRUE}, active : Profiles]
  /\ version = 0
  /\ task = [t \in Tasks |-> Idle]
  /\ backoff = {}
  /\ stray = {}
  /\ ops = 0 /\ faults = 0
  /\ intent = file.tokens
  /\ overtook = {} /\ spent = {} /\ late = FALSE

-----------------------------------------------------------------------------
(* The time comes for a token set of the file (that of another one is not  *)
(* looked at).                                                             *)
Expire ==
  /\ \E id \in Profiles :
       /\ file.tokens[id] \in DOMAIN issued \ expired
       /\ expired' = expired \cup {file.tokens[id]}
  /\ UNCHANGED <<lock, file, version, task, backoff, stray, issued, ops, faults, ghosts>>

(* Ten seconds have passed. *)
BackoffEnds ==
  /\ \E id \in backoff : backoff' = backoff \ {id}
  /\ UNCHANGED <<lock, file, version, task, stray, provider, ops, faults, ghosts>>

(* select_profile_id.  Without a choice of the caller's: the active        *)
(* profile, else the default one, else any.                                *)
Present(f) == {id \in Profiles : f.tokens[id] # 0}

Selected(f, choice) ==
  IF choice # None THEN Present(f) \cap {choice}
  ELSE IF f.active \in Present(f) THEN {f.active}
  ELSE IF Default \in Present(f) THEN {Default}
  ELSE Present(f)

-----------------------------------------------------------------------------
(* The store: how the lock file is taken and the data read and saved.      *)

Goes(t, to) == task' = [task EXCEPT ![t] = to]

Finish(t) == Goes(t, Idle)

(* acquire_lock *)
Lock(t) ==
  /\ task[t].op # None /\ task[t].at = "lock" /\ lock = None
  /\ lock' = t
  /\ Goes(t, [task[t] EXCEPT !.at = "read"])
  /\ UNCHANGED <<file, version, backoff, stray, provider, ops, faults, ghosts>>

(* Mutant: the lock file is waited for without end. *)
WaitOn(t) ==
  /\ task[t].op # None /\ task[t].at = "lock" /\ lock # None
  /\ UNCHANGED vars

(* It was taken for ten seconds. *)
GiveUp(t) ==
  /\ task[t].op # None /\ task[t].at = "lock" /\ lock # None
  /\ Finish(t)
  /\ UNCHANGED <<lock, file, version, backoff, stray, provider, ops, faults, ghosts>>

(* Mutant: the guard is dropped where it is bound, before the save. *)
KeepNoLock(t) == lock' = None

(* The guard of a save lives until the save is done. *)
KeepLock(t) == UNCHANGED lock

(* The operation has changed the data it read, and writes all of it. *)
Write(t, tokens, active) ==
  /\ KeepLock(t)
  /\ Goes(t, [task[t] EXCEPT !.at = "rename", !.copy = [tokens |-> tokens, active |-> active],
                             !.base = version])

Overtaken(id) == \E u \in Tasks : task[u].id = id /\ task[u].stage \in {"refresh", "save"} /\ task[u].op = "token"

(* The rename puts the file in place.  What it holds then is what the      *)
(* history variables speak of.                                             *)
Rename(t) ==
  /\ task[t].at = "rename"
  /\ file' = task[t].copy
  /\ version' = version + 1
  /\ Goes(t, [task[t] EXCEPT !.at = "renamed", !.copy = None, !.base = 0])
  /\ LET id == task[t].id IN
     /\ intent' = CASE task[t].op = "login"  -> [intent EXCEPT ![id] = issued[task[t].new]]
                    [] task[t].op = "remove" -> [intent EXCEPT ![id] = 0]
                    [] OTHER                 -> intent
     /\ overtook' = IF task[t].op = "login" /\ Overtaken(id) THEN overtook \cup {id} ELSE overtook
     /\ spent' = IF task[t].op = "token" THEN spent \cup {<<ProcessOf(t), task[t].old>>} ELSE spent
  /\ UNCHANGED <<lock, backoff, stray, provider, ops, faults, late>>

(* The save has returned, or failed before the rename; the guard removes   *)
(* the lock file.                                                          *)
Release(t) ==
  /\ task[t].at \in {"rename", "renamed"}
  /\ lock' = IF lock = t THEN None ELSE lock
  /\ Finish(t)
  /\ UNCHANGED <<file, version, backoff, stray, provider, ops, faults, ghosts>>

-----------------------------------------------------------------------------
(* The operations. *)

Start(t) ==
  /\ task[t] = Idle /\ ops < MaxOps
  /\ ops' = ops + 1
  /\ UNCHANGED <<lock, file, version, backoff, stray, expired, faults, ghosts>>

(* get_valid_openai_access_token and its twin for Gemini *)
BeginToken(t, choice) ==
  /\ Start(t)
  /\ Goes(t, [Idle EXCEPT !.op = "token", !.id = choice])
  /\ UNCHANGED issued

(* The CLI has got a new token set from a login. *)
BeginLogin(t, id) ==
  /\ Start(t) /\ Len(issued) < MaxIssued
  /\ issued' = Append(issued, Len(issued) + 1)
  /\ Goes(t, [Idle EXCEPT !.op = "login", !.id = id, !.stage = "save", !.new = Len(issued) + 1])

BeginRemove(t, id) ==
  /\ Start(t)
  /\ Goes(t, [Idle EXCEPT !.op = "remove", !.id = id, !.stage = "save"])
  /\ UNCHANGED issued

(* set_active_profile looks the profile up, and then sets it.              *)
BeginUse(t, id) ==
  /\ Start(t)
  /\ Goes(t, [Idle EXCEPT !.op = "use", !.id = id])
  /\ UNCHANGED issued

Begin ==
  \/ \E t \in Daemon : BeginToken(t, Override)
  \/ \E t \in Cli, choice \in Profiles \cup {None} : BeginToken(t, choice)
  \/ \E t \in Cli, id \in Profiles : BeginLogin(t, id) \/ BeginRemove(t, id) \/ BeginUse(t, id)

(* The data is read: the load of an operation ends, and the lock with it,  *)
(* a save goes on to the write.                                            *)
Loaded(t) == task[t].at = "read" /\ lock' = IF lock = t THEN None ELSE lock

(* The selected profile's access token will do, or must be refreshed by    *)
(* one task of the process at a time.                                      *)
LoadToken(t) ==
  /\ task[t].op = "token" /\ task[t].stage = "load" /\ Loaded(t)
  /\ LET ids == Selected(file, task[t].id) IN
     \/ ids = {} /\ Finish(t)
     \/ \E id \in ids :
          IF file.tokens[id] \notin expired THEN Finish(t)
          ELSE Goes(t, [task[t] EXCEPT !.stage = "wait", !.at = "wait", !.id = id, !.old = file.tokens[id]])
  /\ UNCHANGED backoff

LoadUse(t) ==
  /\ task[t].op = "use" /\ task[t].stage = "load" /\ Loaded(t)
  /\ IF file.tokens[task[t].id] = 0 THEN Finish(t)
     ELSE Goes(t, [task[t] EXCEPT !.stage = "save", !.at = "lock"])
  /\ UNCHANGED backoff

Refreshing(u) == task[u].op = "token" /\ task[u].stage \in {"reload", "refresh", "save"}

(* refresh_lock_for_profile *)
TakeRefreshLock(t) ==
  /\ task[t].stage = "wait"
  /\ \A u \in ProcessOf(t) : Refreshing(u) => task[u].id # task[t].id
  /\ Goes(t, [task[t] EXCEPT !.stage = "reload", !.at = "lock"])
  /\ UNCHANGED <<lock, file, version, backoff, stray, provider, ops, faults, ghosts>>

(* Mutant: the token set read before the wait is refreshed. *)
ReloadNothing(t) ==
  /\ task[t].stage = "reload" /\ Loaded(t)
  /\ IF task[t].id \in backoff THEN Finish(t)
     ELSE Goes(t, [task[t] EXCEPT !.stage = "refresh", !.at = "http"])
  /\ UNCHANGED backoff

(* Another task may have refreshed it meanwhile, or removed it; or failed. *)
Reload(t) ==
  /\ task[t].stage = "reload" /\ Loaded(t)
  /\ LET tokens == file.tokens[task[t].id] IN
     IF tokens \notin expired \/ (t \in Daemon /\ task[t].id \in backoff) THEN Finish(t)
     ELSE Goes(t, [task[t] EXCEPT !.stage = "refresh", !.at = "http", !.old = tokens])
  /\ UNCHANGED backoff

(* An attempt of refresh_openai_access_token_with_retries *)
Refreshed(t) ==
  /\ Len(issued) < MaxIssued
  /\ issued' = Append(issued, issued[task[t].old])
  /\ backoff' = IF t \in Daemon THEN backoff \ {task[t].id} ELSE backoff
  /\ Goes(t, [task[t] EXCEPT !.stage = "save", !.at = "lock", !.new = Len(issued) + 1])

(* Mutant: the first attempt is not counted. *)
FailedOnceMore(t) ==
  /\ UNCHANGED issued
  /\ IF task[t].tries < Attempts
     THEN Goes(t, [task[t] EXCEPT !.tries = @ + 1]) /\ UNCHANGED backoff
     ELSE backoff' = backoff \cup {task[t].id} /\ Finish(t)

Failed(t) ==
  /\ UNCHANGED issued
  /\ IF task[t].tries + 1 < Attempts
     THEN Goes(t, [task[t] EXCEPT !.tries = @ + 1]) /\ UNCHANGED backoff
     ELSE backoff' = (IF t \in Daemon THEN backoff \cup {task[t].id} ELSE backoff) /\ Finish(t)

Refresh(t) ==
  /\ task[t].stage = "refresh"
  /\ Refreshed(t) \/ Failed(t)
  /\ UNCHANGED <<lock, file, version, stray, expired, ops, faults, ghosts>>

GiveBack(t) == lock' = (IF lock = t THEN None ELSE lock) /\ Finish(t)

(* Mutant: a refresh saves a profile that is gone. *)
SaveTokensAnyway(t) == Write(t, [file.tokens EXCEPT ![task[t].id] = task[t].new], file.active)

(* update_profile *)
SaveTokens(t) ==
  IF file.tokens[task[t].id] = 0 THEN GiveBack(t)
  ELSE Write(t, [file.tokens EXCEPT ![task[t].id] = task[t].new], file.active)

(* upsert_profile, with set_active *)
SaveLogin(t) == Write(t, [file.tokens EXCEPT ![task[t].id] = task[t].new], task[t].id)

(* remove_profile *)
SaveRemoval(t) ==
  IF file.tokens[task[t].id] = 0 THEN GiveBack(t)
  ELSE Write(t, [file.tokens EXCEPT ![task[t].id] = 0], IF file.active = task[t].id THEN None ELSE file.active)

(* set_active_profile of the store *)
SaveUse(t) ==
  IF file.tokens[task[t].id] = 0 THEN GiveBack(t)
  ELSE Write(t, file.tokens, task[t].id)

Save(t) ==
  /\ task[t].at = "read" /\ task[t].stage = "save"
  /\ \/ task[t].op = "token"  /\ SaveTokens(t)
     \/ task[t].op = "login"  /\ SaveLogin(t)
     \/ task[t].op = "remove" /\ SaveRemoval(t)
     \/ task[t].op = "use"    /\ SaveUse(t)
  /\ UNCHANGED backoff

Read(t) ==
  /\ LoadToken(t) \/ LoadUse(t) \/ Reload(t) \/ Save(t)
  /\ UNCHANGED <<file, version, stray, provider, ops, faults, ghosts>>

-----------------------------------------------------------------------------
(* Faults. *)

Fault == faults < MaxFaults /\ faults' = faults + 1

(* A request is given up (a timeout of the gateway, an interrupted turn)   *)
(* and its future dropped, wherever it awaits.  If it was opening the lock *)
(* file, nothing will remove it; if it was renaming, the rename may still  *)
(* come.                                                                   *)
Drop(t) ==
  /\ t \in Daemon /\ task[t] # Idle /\ Fault
  /\ Finish(t)
  /\ \/ task[t].op # None /\ task[t].at = "lock" /\ lock = None /\ lock' = Stale
     \/ lock' = IF lock = t THEN None ELSE lock
  /\ \/ task[t].at = "rename" /\ stray' = stray \cup {task[t].copy}
     \/ UNCHANGED stray
  /\ UNCHANGED <<file, version, backoff, provider, ops, ghosts>>

StrayRename ==
  /\ \E f \in stray : file' = f /\ stray' = stray \ {f}
  /\ version' = version + 1
  /\ late' = TRUE
  /\ UNCHANGED <<lock, task, backoff, provider, ops, faults, intent, overtook, spent>>

(* A process dies; a lock file of its stays. *)
Crash(process) ==
  /\ Fault
  /\ task' = [t \in Tasks |-> IF t \in process THEN Idle ELSE task[t]]
  /\ lock' = IF lock \in process THEN Stale ELSE lock
  /\ backoff' = IF process = Daemon THEN {} ELSE backoff
  /\ stray' = IF process = Daemon THEN {} ELSE stray
  /\ UNCHANGED <<file, version, provider, ops, ghosts>>

Step(t) ==
  Lock(t) \/ GiveUp(t) \/ Read(t) \/ TakeRefreshLock(t) \/ Refresh(t) \/ Rename(t) \/ Release(t)

Next ==
  \/ Begin \/ Expire \/ BackoffEnds \/ StrayRename
  \/ \E t \in Tasks : Step(t) \/ Drop(t)
  \/ \E t \in Tasks : Crash(ProcessOf(t))

(* The disk and the provider answer, or fail. *)
Spec == Init /\ [][Next]_vars /\ \A t \in Tasks : WF_vars(Step(t))

-----------------------------------------------------------------------------
Files == [tokens : [Profiles -> 0..MaxIssued], active : Profiles \cup {None}]

Activities ==
  [op : {"token", "login", "remove", "use", None}, id : Profiles \cup {None},
   stage : Stages, at : {"lock", "read", "wait", "http", "rename", "renamed"},
   old : 0..MaxIssued, new : 0..MaxIssued, tries : 0..(Attempts - 1),
   copy : Files \cup {None}, base : Nat]

(* The values the variables take. *)
TypeOK ==
  /\ lock \in Tasks \cup {None, Stale}
  /\ file \in Files /\ stray \subseteq Files
  /\ version \in Nat /\ ops \in 0..MaxOps /\ faults \in 0..MaxFaults
  /\ task \in [Tasks -> Activities]
  /\ backoff \subseteq Profiles
  /\ issued \in Seq(Nat \ {0}) /\ Len(issued) <= MaxIssued
  /\ expired \subseteq DOMAIN issued
  /\ intent \in [Profiles -> Nat] /\ overtook \subseteq Profiles /\ late \in BOOLEAN

(* Every replacement of the file is made from what the file held: no       *)
(* operation undoes one that another task or process saved since it read.  *)
(* The exception is a write whose task was dropped.                        *)
WritesAreSerial ==
  [][\A t \in Tasks : Rename(t) /\ ~late => task[t].base = version]_vars

(* A process does not refresh a profile twice at a time, nor send a        *)
(* refresh token again once it has saved what it got for it.               *)
RefreshedOnce ==
  ~late =>
    \A t \in Tasks : task[t].stage = "refresh" =>
      /\ <<ProcessOf(t), task[t].old>> \notin spent
      /\ \A u \in ProcessOf(t) \ {t} : task[u].stage = "refresh" => task[u].id # task[t].id

(* Logins and logouts stand: a removed profile stays away until its next   *)
(* login, and a profile's token set goes back to its last login, except    *)
(* for one that a refresh under way has overwritten.                       *)
LoginsStand ==
  ~late =>
    \A id \in Profiles :
      /\ (file.tokens[id] = 0) <=> (intent[id] = 0)
      /\ file.tokens[id] # 0 /\ id \notin overtook => issued[file.tokens[id]] = intent[id]

(* Every operation ends, also while a lock file that nobody owns is there. *)
OperationsEnd == \A t \in Tasks : task[t].op # None ~> task[t].op = None
=============================================================================
