------------------------------ MODULE Gateway ------------------------------
(***************************************************************************)
(* The gateway's HTTP handlers that change state (gateway/mod.rs and       *)
(* api.rs): POST /webhook with its rate limit, its idempotency keys and    *)
(* the chat through the retrying provider (providers/reliable.rs); POST    *)
(* /pair with the pairing code and the lockout (security/pairing.rs) and   *)
(* the tokens' way into config.toml; PUT /api/config.                      *)
(*                                                                         *)
(* A configuration is its list of paired tokens, of which only the members *)
(* matter; a token is named by the request that got it.  Bodies, headers   *)
(* and model answers are left out.                                         *)
(*                                                                         *)
(* A step ends at an await; pairing attempts run on threads of their own,  *)
(* so theirs end where they release a lock.  A request that takes too long *)
(* is dropped where it awaits, but not what runs on a blocking thread.     *)
(***************************************************************************)
EXTENDS Naturals, FiniteSets, FiniteSetsExt

CONSTANTS
  Requests,     \* the requests, each handled once
  Clients,      \* client keys
  Keys,         \* idempotency keys
  Limit,        \* requests of a client per window (webhook or pair)
  Window,       \* RATE_LIMIT_WINDOW_SECS
  MaxClients,   \* gateway.rate_limit_max_keys
  Ttl,          \* gateway.idempotency_ttl_secs
  MaxKeys,      \* gateway.idempotency_max_keys
  MaxAttempts,  \* MAX_PAIR_ATTEMPTS
  Lockout,      \* PAIR_LOCKOUT_SECS
  Models,       \* length of the model chain
  Providers,    \* number of providers
  MaxRetries,   \* reliability.provider_retries
  Horizon,      \* bound: the last instant
  MaxCodes,     \* bound: pairing codes generated
  MaxRestarts,  \* bound: restarts of the daemon
  Mixes,        \* bound: the sets of kinds of requests that meet in a behaviour
  Paired,       \* the token of a client that paired before
  None

Kinds == {"webhook", "pair", "config"}

(* What the handler makes of a request.  A webhook's client is told the    *)
(* same ("LLM request failed") of one that is "unprepared", "too long" or  *)
(* "failed".                                                               *)
Replies == {"limited", "unauthorized", "duplicate", "unprepared", "answer", "too long", "failed", "timeout",
            "locked out", "invalid", "paired", "saved", "not saved"}

ASSUME GatewayAssumption ==
  /\ Mixes \subseteq SUBSET Kinds
  /\ IsFiniteSet(Requests) /\ Paired \notin Requests
  /\ None \notin Clients \cup Keys \cup Kinds \cup Replies \cup Nat
  /\ {Window, MaxClients, Ttl, MaxKeys, MaxAttempts, Lockout, Models, Providers, Limit} \subseteq Nat \ {0}
  /\ {MaxRetries, Horizon, MaxCodes, MaxRestarts} \subseteq Nat

VARIABLES
  now,
  rate,       \* [{"webhook", "pair"} -> [Clients -> the requests let in whose
              \*  times are held]]
  seen,       \* IdempotencyStore: [Keys -> when the key was recorded, or None]
  code,       \* pairing_code, 0 if there is none
  codes,      \* codes generated so far
  guard,      \* paired_tokens of the PairingGuard
  failed,     \* failed_attempts: [Clients -> the count and the end of a lockout]
  mem,        \* paired_tokens of the configuration in memory
  disk,       \* and in config.toml
  req,        \* [Requests -> how far the request is]
  restarts,
  kinds,      \* the kinds of requests in this behaviour
  evicted,    \* history variable: clients whose times were evicted or lost
  forgotten,  \* history variable: keys that were evicted or lost
  overlap     \* history variable: whether two changes of the configuration
              \*  were under way at once, or a restart got between a client's
              \*  GET and PUT and brought another configuration

limits  == <<rate, seen, evicted, forgotten>>
pairing == <<code, codes, guard, failed>>
config  == <<mem, disk, overlap>>
vars    == <<now, limits, pairing, config, req, restarts, kinds>>

NoFailure == [count |-> 0, until |-> 0]

New == [kind |-> None, pc |-> "new", live |-> TRUE, client |-> None, key |-> None, at |-> 0, code |-> 0, since |-> 0,
        cfg |-> {}, listed |-> 0, model |-> 1, provider |-> 1, attempt |-> 0, asked |-> {}, reply |-> None]

Init ==
  /\ now = 0
  /\ rate = [kind \in {"webhook", "pair"} |-> [c \in Clients |-> {}]]
  /\ seen = [k \in Keys |-> None]
  /\ code = 0 /\ codes = 0
  /\ guard = {Paired} /\ mem = {Paired} /\ disk = {Paired}
  /\ failed = [c \in Clients |-> NoFailure]
  /\ req = [r \in Requests |-> New]
  /\ restarts = 0 /\ kinds \in Mixes
  /\ evicted = {} /\ forgotten = {} /\ overlap = FALSE

Tick == now < Horizon /\ now' = now + 1 /\ UNCHANGED <<limits, pairing, config, req, restarts, kinds>>

Becomes(r, to) == req' = [req EXCEPT ![r] = to]

(* The request is answered, unless it was dropped, and what the handler    *)
(* worked with is gone.                                                    *)
Answered(q, reply) ==
  [New EXCEPT !.kind = q.kind, !.pc = "done", !.client = q.client, !.key = q.key, !.at = q.at, !.code = q.code,
              !.asked = IF reply = "failed" THEN q.asked ELSE {},
              !.reply = IF q.live THEN reply ELSE "timeout"]

-----------------------------------------------------------------------------
(* SlidingWindowRateLimiter::allow.  The sweep every five minutes is left  *)
(* out: it removes what every use of an entry removes first.  A time is    *)
(* that of the request that put it there; they come in order, and the last *)
(* is the latest.                                                          *)
Recent(reqs) == {r \in reqs : req[r].at + Window > now}

LastOf(reqs) == Max({0} \cup {req[r].at : r \in reqs})

(* A new client takes the place of the one that was heard of longest ago   *)
(* if too many are tracked.                                                *)
Tracked(kind) == {c \in Clients : Recent(rate[kind][c]) # {}}

Evictable(kind, client) ==
  IF client \in Tracked(kind) \/ Cardinality(Tracked(kind)) < MaxClients THEN {None}
  ELSE {c \in Tracked(kind) : \A d \in Tracked(kind) : LastOf(rate[kind][c]) <= LastOf(rate[kind][d])}

(* Mutant: a time is not kept for the whole window. *)
AllowedEarly(kind, client) == Cardinality({r \in rate[kind][client] : req[r].at + Window > now + 1}) < Limit

Allowed(kind, client) == Cardinality(Recent(rate[kind][client])) < Limit

(* The client's request is counted if it is let in.                        *)
Count(kind, client, r) ==
  \E out \in Evictable(kind, client) :
    /\ rate' = [rate EXCEPT ![kind] = [c \in Clients |->
                  IF c = out THEN {}
                  ELSE IF c = client THEN Recent(@[c]) \cup {r} ELSE Recent(@[c])]]
    /\ evicted' = evicted \cup ({out} \ {None})

(* IdempotencyStore::record_if_new *)
Known == {k \in Keys : seen[k] # None /\ now < seen[k] + Ttl}

(* Mutant: a key is recorded when the request is answered. *)
RecordLater(key) == UNCHANGED <<seen, forgotten>>

Record(key) ==
  \E out \in IF Cardinality(Known) < MaxKeys THEN {None}
             ELSE {k \in Known : \A l \in Known : seen[k] <= seen[l]} :
    /\ seen' = [k \in Keys |-> IF k = key THEN now ELSE IF k \in Known \ {out} THEN seen[k] ELSE None]
    /\ forgotten' = forgotten \cup ({out} \ {None})

(* handle_webhook up to its first await: the rate limit, the token, the    *)
(* secret and the body, the idempotency key, which is the request's once   *)
(* it is recorded.                                                         *)
Webhook(r, c, k) ==
  LET q == [New EXCEPT !.kind = "webhook", !.client = c, !.at = now] IN
  /\ req[r].pc = "new"
  /\ \/ /\ ~Allowed("webhook", c)
        /\ Becomes(r, Answered(q, "limited"))
        /\ UNCHANGED limits
     \/ /\ Allowed("webhook", c) /\ Count("webhook", c, r)
        /\ \/ /\ Becomes(r, Answered(q, "unauthorized"))
              /\ UNCHANGED <<seen, forgotten>>
           \/ /\ guard # {} /\ k \in Known
              /\ Becomes(r, Answered(q, "duplicate"))
              /\ UNCHANGED <<seen, forgotten>>
           \/ /\ guard # {} /\ k \notin Known
              /\ Becomes(r, [q EXCEPT !.pc = "preparing", !.key = k])
              /\ IF k = None THEN UNCHANGED <<seen, forgotten>> ELSE Record(k)
  /\ UNCHANGED <<now, pairing, config, restarts, kinds>>

(* run_gateway_chat_simple up to the chat: the message is stored, and its  *)
(* images are fetched and encoded, one of which may be missing, too large, *)
(* of no known type or one too many; then no provider is asked.            *)
Prepare(r) ==
  /\ req[r].pc = "preparing"
  /\ \/ Becomes(r, [req[r] EXCEPT !.pc = "chat"])
     \/ Becomes(r, Answered(req[r], "unprepared"))
  /\ UNCHANGED <<now, limits, pairing, config, restarts, kinds>>

-----------------------------------------------------------------------------
(* ReliableProvider::chat_with_history: the models, for each of them the   *)
(* providers, for each of those the retries.                               *)

(* Mutant: an error that cannot be retried ends the request. *)
GiveUpAtOnce(q) == Answered(q, "failed")

NextProvider(q) ==
  IF q.provider < Providers THEN [q EXCEPT !.provider = @ + 1, !.attempt = 0]
  ELSE IF q.model < Models THEN [q EXCEPT !.model = @ + 1, !.provider = 1, !.attempt = 0]
  ELSE Answered(q, "failed")

(* A provider answers, or fails for good, or for now, or finds the request *)
(* too long for the model.                                                 *)
Ask(r) ==
  LET q == [req[r] EXCEPT !.asked = @ \cup {<<req[r].model, req[r].provider>>}] IN
  /\ req[r].pc = "chat"
  /\ \/ Becomes(r, Answered(q, "answer"))
     \/ Becomes(r, Answered(q, "too long"))
     \/ Becomes(r, NextProvider(q))
     \/ Becomes(r, IF q.attempt < MaxRetries THEN [q EXCEPT !.attempt = @ + 1] ELSE NextProvider(q))
  /\ UNCHANGED <<now, limits, pairing, config, restarts, kinds>>

-----------------------------------------------------------------------------
(* PairingGuard *)

(* generate_new_pairing_code, for POST /admin/paircode/new *)
NewCode ==
  /\ codes < MaxCodes /\ "pair" \in kinds
  /\ codes' = codes + 1 /\ code' = codes + 1
  /\ UNCHANGED <<now, limits, guard, failed, config, req, restarts, kinds>>

(* handle_pair; the client knows the code, or guesses wrong. *)
Pair(r, c) ==
  LET q == [New EXCEPT !.kind = "pair", !.client = c, !.at = now] IN
  /\ req[r].pc = "new"
  /\ \/ /\ ~Allowed("pair", c)
        /\ Becomes(r, Answered(q, "limited"))
        /\ UNCHANGED limits
     \/ /\ Allowed("pair", c) /\ Count("pair", c, r)
        /\ \E guess \in {code, 0} : Becomes(r, [q EXCEPT !.pc = "check", !.code = guess])
        /\ UNCHANGED <<seen, forgotten>>
  /\ UNCHANGED <<now, pairing, config, restarts, kinds>>

(* try_pair_blocking: the lockout, ... *)
CheckLockout(r) ==
  /\ req[r].pc = "check"
  /\ LET c == req[r].client IN
     IF now < failed[c].until
     THEN Becomes(r, Answered(req[r], "locked out")) /\ UNCHANGED failed
     ELSE /\ failed' = IF failed[c].until > 0 THEN [failed EXCEPT ![c] = NoFailure] ELSE failed
          /\ Becomes(r, [req[r] EXCEPT !.pc = "code", !.since = now])
  /\ UNCHANGED <<now, limits, code, codes, guard, config, restarts, kinds>>

(* ... the code, which a success uses up (a request that was dropped does  *)
(* not get to save the token), ...                                         *)
Matches(r) == code # 0 /\ req[r].code = code

(* Mutant: the code is used up when the token is saved. *)
CodeStays == UNCHANGED code

UseUpCode == code' = 0

TryCode(r) ==
  /\ req[r].pc = "code"
  /\ IF Matches(r)
     THEN /\ failed' = [failed EXCEPT ![req[r].client] = NoFailure]
          /\ guard' = guard \cup {r}
          /\ UseUpCode
          /\ Becomes(r, IF req[r].live THEN [req[r] EXCEPT !.pc = "paired", !.since = 0] ELSE Answered(req[r], "paired"))
     ELSE Becomes(r, [req[r] EXCEPT !.pc = "wrong"]) /\ UNCHANGED <<failed, guard, code>>
  /\ UNCHANGED <<now, limits, codes, config, restarts, kinds>>

(* ... and the count of failures; a lockout is counted from the check.     *)
CountFailure(r) ==
  /\ req[r].pc = "wrong"
  /\ LET c == req[r].client
         count == failed[c].count + 1 IN
     failed' = [failed EXCEPT ![c] = [count |-> count,
                                      until |-> IF count >= MaxAttempts THEN req[r].since + Lockout ELSE @.until]]
  /\ Becomes(r, Answered(req[r], "invalid"))
  /\ UNCHANGED <<now, limits, code, codes, guard, config, restarts, kinds>>

-----------------------------------------------------------------------------
(* config.toml *)

Changing(q) == q.pc \in {"editing", "saving", "saved"}

NoteOverlap(r) == overlap' = (overlap \/ \E s \in Requests \ {r} : Changing(req[s]))

(* persist_pairing_tokens: all of the guard's tokens go into a copy of the *)
(* configuration in memory, ...                                            *)
Persist(r) ==
  /\ req[r].pc = "paired"
  /\ Becomes(r, [req[r] EXCEPT !.pc = "saving", !.cfg = guard])
  /\ NoteOverlap(r)
  /\ UNCHANGED <<now, limits, pairing, mem, disk, restarts, kinds>>

(* ... which replaces the file in one step (Config::save), ...             *)
Rename(r) ==
  /\ req[r].pc = "saving"
  /\ disk' = req[r].cfg
  /\ Becomes(r, IF req[r].live THEN [req[r] EXCEPT !.pc = "saved"] ELSE Answered(req[r], "saved"))
  /\ UNCHANGED <<now, limits, pairing, mem, overlap, restarts, kinds>>

(* Mutant: the configuration in memory is not kept in sync. *)
KeepMemory(r) == UNCHANGED mem

SyncMemory(r) == mem' = req[r].cfg

(* ... and then the configuration in memory. *)
Saved(r) ==
  /\ req[r].pc = "saved"
  /\ SyncMemory(r)
  /\ Becomes(r, Answered(req[r], "saved"))
  /\ UNCHANGED <<now, limits, pairing, disk, overlap, restarts, kinds>>

(* The file cannot be written, or its directory not synced afterwards.     *)
SaveFails(r) ==
  /\ req[r].pc \in {"saving", "saved"}
  /\ Becomes(r, Answered(req[r], "not saved"))
  /\ UNCHANGED <<now, limits, pairing, config, restarts, kinds>>

(* GET /api/config: a client takes the configuration, its tokens masked.   *)
GetConfig(r) ==
  /\ req[r].pc = "new" /\ guard # {}
  /\ Becomes(r, [New EXCEPT !.kind = "config", !.pc = "editing", !.listed = Cardinality(mem)])
  /\ NoteOverlap(r)
  /\ UNCHANGED <<now, limits, pairing, mem, disk, restarts, kinds>>

(* PUT /api/config: a masked token stands for the one at its place in the  *)
(* list in memory (whose order is a hash set's), or, past the end of that, *)
(* for nothing.                                                            *)
PutConfig(r) ==
  /\ req[r].pc = "editing"
  /\ \E tokens \in kSubset(Min({req[r].listed, Cardinality(mem)}), mem) :
       Becomes(r, [req[r] EXCEPT !.pc = "saving", !.cfg = tokens])
  /\ UNCHANGED <<now, limits, pairing, config, restarts, kinds>>

-----------------------------------------------------------------------------
(* TimeoutLayer *)
Timeout(r) ==
  /\ req[r].live /\ req[r].pc \in {"preparing", "chat", "check", "code", "wrong", "paired", "saving", "saved"}
  /\ Becomes(r, IF req[r].pc \in {"check", "code", "wrong", "saving"} THEN [req[r] EXCEPT !.live = FALSE]
                ELSE Answered(req[r], "timeout"))
  /\ UNCHANGED <<now, limits, pairing, config, restarts, kinds>>

(* The daemon stops and starts: what was in memory is lost. *)
Restart ==
  /\ restarts < MaxRestarts
  /\ restarts' = restarts + 1
  /\ guard' = disk /\ mem' = disk
  /\ IF disk = {} THEN codes' = codes + 1 /\ code' = codes + 1 ELSE code' = 0 /\ UNCHANGED codes
  /\ failed' = [c \in Clients |-> NoFailure]
  /\ rate' = [kind \in {"webhook", "pair"} |-> [c \in Clients |-> {}]]
  /\ seen' = [k \in Keys |-> None]
  /\ req' = [r \in Requests |-> IF req[r].pc \in {"new", "done", "editing"} THEN req[r]
                                ELSE Answered(req[r], "timeout")]
  /\ evicted' = Clients /\ forgotten' = Keys
  /\ overlap' = (overlap \/ (mem # disk /\ \E r \in Requests : req[r].pc = "editing"))
  /\ UNCHANGED <<now, disk, kinds>>

Handle(r) ==
  \/ "webhook" \in kinds /\ \E c \in Clients, k \in Keys \cup {None} : Webhook(r, c, k)
  \/ Prepare(r) \/ Ask(r)
  \/ "pair" \in kinds /\ \E c \in Clients : Pair(r, c)
  \/ CheckLockout(r) \/ TryCode(r) \/ CountFailure(r)
  \/ Persist(r) \/ Rename(r) \/ Saved(r) \/ SaveFails(r)
  \/ "config" \in kinds /\ GetConfig(r)
  \/ PutConfig(r)
  \/ Timeout(r)

Next == Tick \/ NewCode \/ Restart \/ \E r \in Requests : Handle(r)

Spec == Init /\ [][Next]_vars

-----------------------------------------------------------------------------
Tokens == Requests \cup {Paired}

(* The values the variables take. *)
TypeOK ==
  /\ now \in 0..Horizon /\ restarts \in 0..MaxRestarts /\ kinds \in Mixes
  /\ \A kind \in {"webhook", "pair"}, c \in Clients :
       rate[kind][c] \subseteq Requests /\ Cardinality(rate[kind][c]) <= Limit
  /\ \A k \in Keys : seen[k] \in (0..now) \cup {None}
  /\ code \in 0..codes
  /\ guard \subseteq Tokens /\ mem \subseteq Tokens /\ disk \subseteq Tokens
  /\ \A c \in Clients : failed[c].count \in Nat /\ failed[c].until \in 0..(now + Lockout)
  /\ \A r \in Requests :
       /\ req[r].kind \in Kinds \cup {None} /\ req[r].reply \in Replies \cup {None}
       /\ req[r].cfg \subseteq Tokens /\ req[r].at \in 0..now
       /\ req[r].model \in 1..Models /\ req[r].provider \in 1..Providers /\ req[r].attempt \in 0..MaxRetries
  /\ evicted \subseteq Clients /\ forgotten \subseteq Keys /\ overlap \in BOOLEAN

(* In no window are more requests of a client let in than the limit, even  *)
(* counted from any instant, unless the client's entry made room for       *)
(* another client's.                                                       *)
RateBound ==
  \A kind \in {"webhook", "pair"}, c \in Clients \ evicted, from \in 0..Horizon :
    Cardinality({r \in Requests : /\ req[r].kind = kind /\ req[r].client = c /\ req[r].reply # "limited"
                                  /\ req[r].at \in from..(from + Window - 1)}) <= Limit

(* Two requests with the same idempotency key are not both passed on to a  *)
(* provider within the key's time to live, unless the key was evicted; not *)
(* even if the first one failed or timed out.                              *)
PassedOn(r) == req[r].kind = "webhook" /\ req[r].reply \notin {"limited", "unauthorized", "duplicate"}

ProcessedOnce ==
  \A r, s \in Requests :
    /\ r # s /\ PassedOn(r) /\ PassedOn(s)
    /\ req[r].key = req[s].key /\ req[r].key \in Keys \ forgotten
    => req[r].at + Ttl <= req[s].at \/ req[s].at + Ttl <= req[r].at

(* A pairing code pairs one client, however many try it at once.           *)
CodeOnce ==
  \A r, s \in guard \cap Requests : req[r].code = req[s].code => r = s

(* A client that was told that its token is saved is still paired after a  *)
(* restart: its token is in config.toml, whatever was saved since, unless  *)
(* two changes of the configuration were under way at once or a client put *)
(* back a configuration from before a restart that changed it.             *)
TokensSurvive ==
  ~overlap => \A r \in Requests : req[r].kind = "pair" /\ req[r].reply = "saved" => r \in disk

(* A chat fails only after every provider was asked for every model.  (A   *)
(* webhook whose images cannot be prepared, which comes to no chat, ends   *)
(* as "unprepared" and has asked nobody.)                                  *)
NoProviderSkipped ==
  \A r \in Requests : req[r].kind = "webhook" /\ req[r].reply = "failed" =>
    req[r].asked = (1..Models) \X (1..Providers)
=============================================================================
