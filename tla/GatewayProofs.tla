--------------------------- MODULE GatewayProofs ---------------------------
(***************************************************************************)
(* Theorems about Gateway, for every set of requests, clients and keys,    *)
(* and every limit and bound: first the pairing codes and tokens, then the *)
(* rate limits, idempotency keys and retries.                              *)
(***************************************************************************)
EXTENDS Gateway, FiniteSetTheorems, TLAPS

Pcs == {"new", "preparing", "chat", "check", "code", "wrong", "paired", "saving", "saved", "editing", "done"}

Progress ==
  [kind : Kinds \cup {None}, pc : Pcs, live : BOOLEAN, client : Clients \cup {None}, key : Keys \cup {None},
   at : Nat, code : Nat, since : Nat, cfg : SUBSET Tokens, listed : {0} \cup {Cardinality(S) : S \in SUBSET Tokens},
   model : Nat, provider : Nat, attempt : Nat, asked : SUBSET (Nat \X Nat), reply : Replies \cup {None}]

(* The types that the pairing depends on. *)
Fields ==
  /\ now \in Nat /\ codes \in Nat /\ code \in 0..codes
  /\ guard \subseteq Tokens /\ mem \subseteq Tokens /\ disk \subseteq Tokens
  /\ overlap \in BOOLEAN
  /\ req \in [Requests -> Progress]

(* Where a token is: in the guard, in a configuration, or on its way.      *)
InUse(t) == t \in guard \/ t \in mem \/ t \in disk \/ \E s \in Requests : t \in req[s].cfg

Told(r) == req[r].kind = "pair" /\ req[r].reply = "saved"

(* A request got the token that is in use under its name with a code that  *)
(* was drawn and is used up; it has no way back to trying a code.          *)
CodeIsUsedUp(r) ==
  /\ req[r].code \in 0..codes
  /\ InUse(r) => /\ req[r].pc \in {"paired", "saving", "saved", "done"}
                 /\ req[r].code # 0 /\ req[r].code # code

OneTokenPerCode ==
  \A r, s \in Requests : InUse(r) /\ InUse(s) /\ req[r].code = req[s].code => r = s

(* What a request has got to. *)
Stage(r) ==
  /\ Told(r) => req[r].pc = "done"
  /\ req[r].kind = "pair" /\ req[r].pc \in {"paired", "saving", "saved"} => r \in guard
  /\ req[r].pc \in {"check", "code", "wrong", "paired"} => req[r].kind = "pair"
  /\ req[r].pc = "editing" => req[r].kind # "pair"

CodeInv == Fields /\ OneTokenPerCode /\ \A r \in Requests : CodeIsUsedUp(r) /\ Stage(r)

(* As long as no two changes of the configuration overlap, the saved       *)
(* tokens are wherever the next configuration may come from.               *)
Whole ==
  /\ \A r, s \in Requests : Changing(req[r]) /\ Changing(req[s]) => r = s
  /\ \A t \in Requests : Told(t) => t \in guard /\ t \in mem /\ t \in disk
  /\ \A s \in Requests :
       /\ req[s].pc = "saving" => \A t \in Requests : Told(t) => t \in req[s].cfg
       /\ req[s].pc \in {"saving", "saved"} /\ req[s].kind = "pair" => s \in req[s].cfg
       /\ req[s].pc = "saved" => req[s].cfg = disk
       /\ req[s].pc = "editing" => req[s].listed = Cardinality(mem)

TokenInv == overlap \/ Whole

-----------------------------------------------------------------------------
(* Records.                                                                *)

LEMMA Consts ==
  /\ Models \in Nat /\ Providers \in Nat /\ MaxRetries \in Nat
  /\ IsFiniteSet(Requests) /\ Paired \notin Requests
  /\ None \notin Kinds /\ None \notin Replies
BY GatewayAssumption DEF GatewayAssumption

LEMMA NewFields ==
  /\ New \in Progress /\ New.cfg = {} /\ New.code = 0 /\ New.kind = None /\ New.reply = None /\ New.pc = "new"
BY DEF New, Progress, Pcs

(* What is answered has nothing under way.                                 *)
LEMMA AnswerFields ==
  ASSUME NEW q \in Progress, NEW reply \in Replies
  PROVE  LET x == Answered(q, reply) IN
         /\ x \in Progress
         /\ x.pc = "done" /\ x.cfg = {} /\ x.code = q.code /\ x.kind = q.kind
         /\ x.reply = IF q.live THEN reply ELSE "timeout"
<1> DEFINE a == IF reply = "failed" THEN q.asked ELSE {}
           y == IF q.live THEN reply ELSE "timeout"
           x1 == [New EXCEPT !.kind = q.kind, !.pc = "done", !.client = q.client, !.key = q.key]
           x == [x1 EXCEPT !.at = q.at, !.code = q.code, !.asked = a, !.reply = y]
<1>1. Answered(q, reply) = x
  BY DEF Answered
<1>2. a \in SUBSET (Nat \X Nat) /\ y \in Replies \cup {None}
  BY DEF Progress, Replies
<1> HIDE DEF a, y
<1>3. /\ q.kind \in Kinds \cup {None} /\ q.client \in Clients \cup {None} /\ q.key \in Keys \cup {None}
      /\ q.at \in Nat /\ q.code \in Nat
  BY DEF Progress
<1>4. x1 \in Progress /\ x1.kind = q.kind /\ x1.pc = "done" /\ x1.cfg = {}
  BY <1>3, NewFields DEF Progress, Pcs
<1> HIDE DEF x1
<1>5. x \in Progress /\ x.kind = x1.kind /\ x.pc = x1.pc /\ x.cfg = x1.cfg /\ x.code = q.code /\ x.reply = y
  BY <1>2, <1>3, <1>4 DEF Progress
<1> HIDE DEF x
<1> QED BY <1>1, <1>4, <1>5 DEF y

-----------------------------------------------------------------------------
(* Steps of one request that touch neither the code nor any token: it is   *)
(* on its way to trying a code (or in a chat), or it stays where it is or  *)
(* ends.                                                                   *)
Outside == {"new", "preparing", "chat", "check", "code", "wrong"}

LEMMA MoveCode ==
  ASSUME CodeInv, NEW r \in Requests, NEW x \in Progress, req' = [req EXCEPT ![r] = x],
         UNCHANGED <<now, code, codes>>,
         guard \subseteq guard', guard' \subseteq Tokens, mem' \subseteq Tokens, disk' \subseteq Tokens,
         overlap' \in BOOLEAN,
         \A s \in Requests : InUse(s)' => InUse(s),
         x.code \in 0..codes,
         req[r].pc \in Outside
           \/ (x.code = req[r].code /\ x.pc \in {"paired", "saving", "saved", "done", req[r].pc}),
         x.kind = "pair" /\ x.pc \in {"paired", "saving", "saved"} => r \in guard,
         x.pc \in {"check", "code", "wrong", "paired"} => x.kind = "pair",
         x.pc = "editing" => x.kind # "pair",
         x.kind = "pair" /\ x.reply = "saved" => x.pc = "done"
  PROVE  CodeInv'
<1>1. /\ Fields /\ OneTokenPerCode /\ \A s \in Requests : CodeIsUsedUp(s) /\ Stage(s)
      /\ req \in [Requests -> Progress]
  BY DEF CodeInv, Fields
<1>2. req' \in [Requests -> Progress] /\ req'[r] = x /\ \A s \in Requests \ {r} : req'[s] = req[s]
  BY <1>1
<1>3. Fields'
  BY <1>1, <1>2 DEF Fields, Tokens
<1>4. \A s \in Requests : InUse(s)' => InUse(s)
  OBVIOUS
<1>5. req[r].pc \in Outside => ~InUse(r)
  BY <1>1 DEF CodeIsUsedUp, Outside
<1>6. \A s \in Requests : CodeIsUsedUp(s)'
  <2> SUFFICES ASSUME NEW s \in Requests
               PROVE  CodeIsUsedUp(s)'
    OBVIOUS
  <2>1. CASE s # r
    BY <1>1, <1>2, <1>4, <2>1 DEF CodeIsUsedUp
  <2>2. CASE s = r
    BY <1>1, <1>2, <1>4, <1>5, <2>2 DEF CodeIsUsedUp
  <2> QED BY <2>1, <2>2
<1>7. \A s \in Requests : Stage(s)'
  BY <1>1, <1>2 DEF Stage, Told
<1>8. OneTokenPerCode'
  <2> SUFFICES ASSUME NEW s \in Requests, NEW t \in Requests, InUse(s)', InUse(t)', req'[s].code = req'[t].code
               PROVE  s = t
    BY DEF OneTokenPerCode
  <2>1. InUse(s) /\ InUse(t)
    BY <1>4
  <2>2. req'[s].code = req[s].code /\ req'[t].code = req[t].code
    BY <1>2, <1>5, <2>1
  <2> QED BY <1>1, <2>1, <2>2 DEF OneTokenPerCode
<1> QED BY <1>3, <1>6, <1>7, <1>8 DEF CodeInv

LEMMA QuietCode ==
  ASSUME CodeInv, NEW r \in Requests, NEW x \in Progress, req' = [req EXCEPT ![r] = x],
         UNCHANGED <<now, code, codes, guard, mem, disk, overlap>>,
         x.cfg \in {{}, req[r].cfg},
         x.code \in 0..codes,
         req[r].pc \in Outside \/ (x.code = req[r].code /\ x.pc \in {req[r].pc, "done"}),
         x.kind = "pair" /\ x.pc \in {"paired", "saving", "saved"} => req[r].kind = "pair" /\ x.pc = req[r].pc,
         x.pc \in {"check", "code", "wrong", "paired"} => x.kind = "pair",
         x.pc # "editing",
         x.kind = "pair" /\ x.reply = "saved" => x.pc = "done"
  PROVE  CodeInv'
<1>1. req \in [Requests -> Progress] /\ Stage(r)
  BY DEF CodeInv, Fields
<1>2. req'[r] = x /\ \A s \in Requests \ {r} : req'[s] = req[s]
  BY <1>1
<1>3. \A s \in Requests : InUse(s)' => InUse(s)
  BY <1>2 DEF InUse
<1>4. x.kind = "pair" /\ x.pc \in {"paired", "saving", "saved"} => r \in guard
  BY <1>1 DEF Stage
<1>5. /\ guard \subseteq guard' /\ guard' \subseteq Tokens /\ mem' \subseteq Tokens /\ disk' \subseteq Tokens
      /\ overlap' \in BOOLEAN
  BY DEF CodeInv, Fields
<1> QED BY <1>3, <1>4, <1>5, MoveCode

LEMMA QuietToken ==
  ASSUME CodeInv, TokenInv, NEW r \in Requests, NEW x \in Progress, req' = [req EXCEPT ![r] = x],
         guard \subseteq guard', UNCHANGED <<mem, disk, overlap>>,
         ~(x.kind = "pair" /\ x.reply = "saved"), ~Told(r),
         Changing(x) => x.pc = req[r].pc /\ x.kind = req[r].kind /\ x.cfg = req[r].cfg /\ x.listed = req[r].listed
  PROVE  TokenInv'
<1> SUFFICES ASSUME ~overlap
             PROVE  Whole'
  BY DEF TokenInv
<1>1. Whole /\ req \in [Requests -> Progress]
  BY DEF CodeInv, Fields, TokenInv
<1>2. req'[r] = x /\ \A s \in Requests \ {r} : req'[s] = req[s]
  BY <1>1
<1>3. \A t \in Requests : Told(t)' => Told(t)
  BY <1>2 DEF Told
<1>4. \A s \in Requests : Changing(req'[s]) =>
        /\ Changing(req[s])
        /\ req'[s].pc = req[s].pc /\ req'[s].kind = req[s].kind
        /\ req'[s].cfg = req[s].cfg /\ req'[s].listed = req[s].listed
  BY <1>2 DEF Changing
<1> QED BY <1>1, <1>3, <1>4 DEF Whole, Changing

LEMMA QuietStep ==
  ASSUME CodeInv, TokenInv, NEW r \in Requests, NEW x \in Progress, req' = [req EXCEPT ![r] = x],
         UNCHANGED <<now, code, codes, guard, config>>,
         x.pc \in Outside \cup {"done"}, x.cfg = {} \/ x.cfg = req[r].cfg, x.code \in 0..codes,
         req[r].pc \in Outside \/ (x.pc = "done" /\ x.code = req[r].code /\ req[r].pc # "done"),
         x.pc \in {"check", "code", "wrong"} => x.kind = "pair",
         ~(x.kind = "pair" /\ x.reply = "saved")
  PROVE  CodeInv' /\ TokenInv'
<1>1. UNCHANGED <<mem, disk, overlap>>
  BY DEF config
<1>2. ~Told(r)
  BY DEF CodeInv, Stage, Outside
<1>3. CodeInv'
  BY <1>1, QuietCode DEF Outside
<1>4. TokenInv'
  BY <1>1, <1>2, QuietToken DEF Changing, Outside
<1> QED BY <1>3, <1>4

LEMMA AnswerStep ==
  ASSUME CodeInv, TokenInv, NEW r \in Requests, NEW q \in Progress, NEW reply \in Replies,
         req' = [req EXCEPT ![r] = Answered(q, reply)], reply # "saved",
         UNCHANGED <<now, code, codes, guard, config>>,
         q.code \in 0..codes,
         req[r].pc \in Outside \/ (q.code = req[r].code /\ req[r].pc # "done")
  PROVE  CodeInv' /\ TokenInv'
<1> DEFINE x == Answered(q, reply)
<1>1. /\ x \in Progress /\ x.pc = "done" /\ x.cfg = {} /\ x.code = q.code
      /\ x.reply = IF q.live THEN reply ELSE "timeout"
  BY AnswerFields
<1>2. x.reply # "saved"
  BY <1>1
<1> HIDE DEF x
<1>3. req' = [req EXCEPT ![r] = x]
  BY DEF x
<1> QED BY <1>1, <1>2, <1>3, QuietStep

LEMMA WebhookStep ==
  ASSUME CodeInv, TokenInv, NEW r \in Requests, NEW c \in Clients, NEW k \in Keys \cup {None}, Webhook(r, c, k)
  PROVE  CodeInv' /\ TokenInv'
<1> DEFINE q == [New EXCEPT !.kind = "webhook", !.client = c, !.at = now]
           x == [q EXCEPT !.pc = "preparing", !.key = k]
<1>1. req[r].pc = "new" /\ UNCHANGED <<now, code, codes, guard, config>> /\ now \in Nat /\ 0 \in 0..codes
  BY DEF Webhook, pairing, CodeInv, Fields
<1>2. q \in Progress /\ q.code = 0
  BY <1>1, NewFields DEF Progress, Kinds
<1>3. x \in Progress /\ x.code = 0 /\ x.pc = "preparing" /\ x.cfg = {} /\ x.reply = None /\ x.kind = "webhook"
  BY <1>1, NewFields DEF Progress, Kinds, Pcs
<1>4. req' = [req EXCEPT ![r] = x] \/ \E reply \in {"limited", "unauthorized", "duplicate"} :
        req' = [req EXCEPT ![r] = Answered(q, reply)]
  BY DEF Webhook, Becomes
<1> HIDE DEF q, x
<1>5. CASE req' = [req EXCEPT ![r] = x]
  <2>1. /\ req[r].pc \in Outside /\ x.pc \in Outside \cup {"done"} /\ x.pc \notin {"check", "code", "wrong"}
        /\ x.code \in 0..codes /\ x.kind # "pair"
    BY <1>1, <1>3 DEF Outside
  <2> QED BY <1>1, <1>3, <1>5, <2>1, QuietStep
<1>6. ASSUME NEW reply \in {"limited", "unauthorized", "duplicate"}, req' = [req EXCEPT ![r] = Answered(q, reply)]
      PROVE  CodeInv' /\ TokenInv'
  <2>1. reply \in Replies /\ reply # "saved" /\ req[r].pc \in Outside
    BY <1>1 DEF Replies, Outside
  <2> QED BY <1>1, <1>2, <1>6, <2>1, AnswerStep
<1> QED BY <1>4, <1>5, <1>6


LEMMA Now ==
  ASSUME CodeInv, NEW r \in Requests
  PROVE  /\ req[r] \in Progress /\ req \in [Requests -> Progress] /\ now \in Nat /\ codes \in Nat
         /\ req[r].code \in 0..codes /\ code \in 0..codes /\ Stage(r)
         /\ req[r].pc # "done" => ~(req[r].kind = "pair" /\ req[r].reply = "saved")
BY DEF CodeInv, Fields, CodeIsUsedUp, Stage, Told

LEMMA PrepareStep ==
  ASSUME CodeInv, TokenInv, NEW r \in Requests, Prepare(r)
  PROVE  CodeInv' /\ TokenInv'
<1> DEFINE x == [req[r] EXCEPT !.pc = "chat"]
<1>1. /\ req[r].pc = "preparing" /\ req[r] \in Progress /\ req[r].code \in 0..codes /\ req[r].pc \in Outside
      /\ ~(req[r].kind = "pair" /\ req[r].reply = "saved")
      /\ UNCHANGED <<now, code, codes, guard, config>>
  BY Now DEF Prepare, pairing, Outside
<1>2. /\ x \in Progress /\ x.code = req[r].code /\ x.pc = "chat" /\ x.kind = req[r].kind
      /\ x.reply = req[r].reply /\ x.cfg = req[r].cfg
  BY <1>1 DEF Progress, Pcs
<1>3. req' = [req EXCEPT ![r] = x] \/ req' = [req EXCEPT ![r] = Answered(req[r], "unprepared")]
  BY DEF Prepare, Becomes
<1> HIDE DEF x
<1>4. CASE req' = [req EXCEPT ![r] = x]
  <2>1. /\ x.pc \in Outside \cup {"done"} /\ x.pc \notin {"check", "code", "wrong"}
        /\ x.code \in 0..codes /\ ~(x.kind = "pair" /\ x.reply = "saved")
    BY <1>1, <1>2 DEF Outside
  <2> QED BY <1>1, <1>2, <1>4, <2>1, QuietStep
<1>5. CASE req' = [req EXCEPT ![r] = Answered(req[r], "unprepared")]
  BY <1>1, <1>5, AnswerStep DEF Replies
<1> QED BY <1>3, <1>4, <1>5

LEMMA AskStep ==
  ASSUME CodeInv, TokenInv, NEW r \in Requests, Ask(r)
  PROVE  CodeInv' /\ TokenInv'
<1> DEFINE q == [req[r] EXCEPT !.asked = @ \cup {<<req[r].model, req[r].provider>>}]
<1>1. /\ req[r].pc = "chat" /\ req[r] \in Progress /\ req[r].code \in 0..codes /\ req[r].pc \in Outside
      /\ ~(req[r].kind = "pair" /\ req[r].reply = "saved")
      /\ UNCHANGED <<now, code, codes, guard, config>>
  BY Now DEF Ask, pairing, Outside
<1>2. /\ q \in Progress /\ q.code = req[r].code /\ q.pc = "chat" /\ q.kind = req[r].kind
      /\ q.reply = req[r].reply /\ q.cfg = req[r].cfg
  BY <1>1 DEF Progress
<1>3. \/ \E reply \in {"answer", "too long"} : req' = [req EXCEPT ![r] = Answered(q, reply)]
      \/ req' = [req EXCEPT ![r] = NextProvider(q)]
      \/ req' = [req EXCEPT ![r] = [q EXCEPT !.attempt = @ + 1]]
  BY DEF Ask, Becomes
<1> HIDE DEF q
<1>4. ASSUME NEW reply \in {"answer", "too long", "failed"}, req' = [req EXCEPT ![r] = Answered(q, reply)]
      PROVE  CodeInv' /\ TokenInv'
  <2>1. reply \in Replies /\ reply # "saved" /\ q.code \in 0..codes
    BY <1>1, <1>2 DEF Replies
  <2> QED BY <1>1, <1>2, <1>4, <2>1, AnswerStep
<1>5. ASSUME NEW x \in Progress, req' = [req EXCEPT ![r] = x],
             x.pc = q.pc, x.code = q.code, x.kind = q.kind, x.reply = q.reply, x.cfg = q.cfg
      PROVE  CodeInv' /\ TokenInv'
  <2>1. /\ x.pc \in Outside \cup {"done"} /\ x.pc \notin {"check", "code", "wrong"}
        /\ x.code \in 0..codes /\ x.cfg = req[r].cfg /\ ~(x.kind = "pair" /\ x.reply = "saved")
    BY <1>1, <1>2, <1>5 DEF Outside
  <2> QED BY <1>1, <1>5, <2>1, QuietStep
<1>6. ASSUME NEW x, x \in {[q EXCEPT !.attempt = @ + 1], [q EXCEPT !.provider = @ + 1, !.attempt = 0],
                         [q EXCEPT !.model = @ + 1, !.provider = 1, !.attempt = 0]}
      PROVE  x \in Progress /\ x.pc = q.pc /\ x.code = q.code /\ x.kind = q.kind /\ x.reply = q.reply /\ x.cfg = q.cfg
  <2>1. CASE x = [q EXCEPT !.attempt = @ + 1]
    BY <1>2, <2>1 DEF Progress
  <2>2. CASE x = [q EXCEPT !.provider = @ + 1, !.attempt = 0]
    <3> DEFINE y == [q EXCEPT !.provider = q.provider + 1]
    <3>1. y \in Progress /\ y.pc = q.pc /\ y.code = q.code /\ y.kind = q.kind /\ y.reply = q.reply /\ y.cfg = q.cfg
      BY <1>2 DEF Progress
    <3>2. x = [y EXCEPT !.attempt = 0]
      BY <2>2
    <3> HIDE DEF y
    <3> QED BY <3>1, <3>2 DEF Progress
  <2>3. CASE x = [q EXCEPT !.model = @ + 1, !.provider = 1, !.attempt = 0]
    <3> DEFINE y == [q EXCEPT !.model = q.model + 1]
    <3>1. y \in Progress /\ y.pc = q.pc /\ y.code = q.code /\ y.kind = q.kind /\ y.reply = q.reply /\ y.cfg = q.cfg
      BY <1>2 DEF Progress
    <3>2. x = [y EXCEPT !.provider = 1, !.attempt = 0]
      BY <2>3
    <3> HIDE DEF y
    <3> QED BY <3>1, <3>2 DEF Progress
  <2> QED BY <1>6, <2>1, <2>2, <2>3
<1>7. CASE req' = [req EXCEPT ![r] = NextProvider(q)]
  <2>1. NextProvider(q) \in {[q EXCEPT !.provider = @ + 1, !.attempt = 0],
                            [q EXCEPT !.model = @ + 1, !.provider = 1, !.attempt = 0], Answered(q, "failed")}
    BY DEF NextProvider
  <2> QED BY <1>4, <1>5, <1>6, <1>7, <2>1
<1>8. CASE req' = [req EXCEPT ![r] = [q EXCEPT !.attempt = @ + 1]]
  BY <1>5, <1>6, <1>8
<1> QED BY <1>3, <1>4, <1>7, <1>8

(* A client that tries the code draws none: it has the current one or 0.   *)
LEMMA PairStep ==
  ASSUME CodeInv, TokenInv, NEW r \in Requests, NEW c \in Clients, Pair(r, c)
  PROVE  CodeInv' /\ TokenInv'
<1> DEFINE q == [New EXCEPT !.kind = "pair", !.client = c, !.at = now]
<1>1. /\ req[r].pc \in Outside /\ now \in Nat /\ codes \in Nat /\ code \in 0..codes
      /\ UNCHANGED <<now, code, codes, guard, config>>
  BY Now DEF Pair, pairing, Outside
<1>2. q \in Progress /\ q.code = 0 /\ q.cfg = {} /\ q.reply = None /\ q.kind = "pair" /\ 0 \in 0..codes
  <2>1. "pair" \in Kinds
    BY DEF Kinds
  <2>2. q \in Progress
    BY <1>1, <2>1, NewFields DEF Progress
  <2>3. q.code = New.code /\ q.cfg = New.cfg /\ q.reply = New.reply /\ q.kind = "pair"
    BY NewFields DEF Progress
  <2> QED BY <1>1, <2>2, <2>3, NewFields
<1>3. req' = [req EXCEPT ![r] = Answered(q, "limited")]
      \/ \E guess \in {code, 0} : req' = [req EXCEPT ![r] = [q EXCEPT !.pc = "check", !.code = guess]]
  BY DEF Pair, Becomes
<1> HIDE DEF q
<1>4. CASE req' = [req EXCEPT ![r] = Answered(q, "limited")]
  BY <1>1, <1>2, <1>4, AnswerStep DEF Replies
<1>5. ASSUME NEW guess \in {code, 0}, req' = [req EXCEPT ![r] = [q EXCEPT !.pc = "check", !.code = guess]]
      PROVE  CodeInv' /\ TokenInv'
  <2> DEFINE x == [q EXCEPT !.pc = "check", !.code = guess]
  <2>1. x \in Progress /\ x.pc = "check" /\ x.code = guess /\ x.cfg = {} /\ x.kind = "pair" /\ x.reply = None
    <3>1. guess \in Nat /\ "check" \in Pcs
      BY <1>1 DEF Pcs
    <3>2. x \in Progress
      BY <1>2, <3>1 DEF Progress
    <3>3. x.pc = "check" /\ x.code = guess /\ x.cfg = q.cfg /\ x.kind = q.kind /\ x.reply = q.reply
      BY <1>2 DEF Progress
    <3> QED BY <1>2, <3>2, <3>3
  <2>2. x.pc \in Outside \cup {"done"} /\ x.code \in 0..codes
    BY <1>1, <1>2, <2>1 DEF Outside
  <2>3. x.reply # "saved"
    BY <2>1, Consts DEF Replies
  <2> HIDE DEF x
  <2>4. req' = [req EXCEPT ![r] = x]
    BY <1>5 DEF x
  <2> QED BY <1>1, <2>1, <2>2, <2>3, <2>4, QuietStep
<1> QED BY <1>3, <1>4, <1>5

LEMMA CheckLockoutStep ==
  ASSUME CodeInv, TokenInv, NEW r \in Requests, CheckLockout(r)
  PROVE  CodeInv' /\ TokenInv'
<1> DEFINE x == [req[r] EXCEPT !.pc = "code", !.since = now]
<1>1. /\ req[r] \in Progress /\ req[r].code \in 0..codes /\ req[r].pc = "check" /\ req[r].kind = "pair"
      /\ now \in Nat /\ req[r].reply # "saved" /\ UNCHANGED <<now, code, codes, guard, config>>
  BY Now DEF CheckLockout, Stage
<1>2. req' = [req EXCEPT ![r] = Answered(req[r], "locked out")] \/ req' = [req EXCEPT ![r] = x]
  BY DEF CheckLockout, Becomes
<1>3. x \in Progress /\ x.pc = "code"
  BY <1>1 DEF Progress, Pcs
<1>4. x.code = req[r].code /\ x.cfg = req[r].cfg /\ x.kind = req[r].kind /\ x.reply = req[r].reply
  BY <1>1 DEF Progress
<1> HIDE DEF x
<1>5. CASE req' = [req EXCEPT ![r] = Answered(req[r], "locked out")]
  BY <1>1, <1>5, AnswerStep DEF Replies
<1>6. CASE req' = [req EXCEPT ![r] = x]
  BY <1>1, <1>3, <1>4, <1>6, QuietStep DEF Outside
<1> QED BY <1>2, <1>5, <1>6

LEMMA WrongCodeStep ==
  ASSUME CodeInv, TokenInv, NEW r \in Requests, TryCode(r), ~Matches(r)
  PROVE  CodeInv' /\ TokenInv'
<1> DEFINE x == [req[r] EXCEPT !.pc = "wrong"]
<1>1. /\ req[r] \in Progress /\ req[r].code \in 0..codes /\ req[r].pc = "code" /\ req[r].kind = "pair"
      /\ req[r].reply # "saved" /\ UNCHANGED <<now, code, codes, guard, config>>
      /\ req' = [req EXCEPT ![r] = x]
  BY Now DEF TryCode, Stage, Becomes
<1>2. x \in Progress /\ x.pc = "wrong"
  BY <1>1 DEF Progress, Pcs
<1>3. x.code = req[r].code /\ x.cfg = req[r].cfg /\ x.kind = req[r].kind /\ x.reply = req[r].reply
  BY <1>1 DEF Progress
<1> HIDE DEF x
<1> QED BY <1>1, <1>2, <1>3, QuietStep DEF Outside

LEMMA EndingStep ==
  ASSUME CodeInv, TokenInv, NEW r \in Requests, CountFailure(r) \/ SaveFails(r)
  PROVE  CodeInv' /\ TokenInv'
<1>1. /\ req[r] \in Progress /\ req[r].code \in 0..codes /\ req[r].pc # "done"
      /\ UNCHANGED <<now, code, codes, guard, config>>
      /\ \E reply \in {"invalid", "not saved"} : req' = [req EXCEPT ![r] = Answered(req[r], reply)]
  BY Now DEF CountFailure, SaveFails, Becomes, pairing
<1> QED BY <1>1, AnswerStep DEF Replies

(* A request that is dropped may be saving on.                             *)
LEMMA TimeoutStep ==
  ASSUME CodeInv, TokenInv, NEW r \in Requests, Timeout(r)
  PROVE  CodeInv' /\ TokenInv'
<1> DEFINE x == [req[r] EXCEPT !.live = FALSE]
<1>1. /\ req[r] \in Progress /\ req[r].code \in 0..codes /\ req[r].pc # "done" /\ Stage(r)
      /\ req[r].pc # "editing" /\ ~Told(r)
      /\ UNCHANGED <<now, code, codes, guard, config>>
  BY Now DEF Timeout, pairing, Told
<1>2. req' = [req EXCEPT ![r] = Answered(req[r], "timeout")] \/ req' = [req EXCEPT ![r] = x]
  BY DEF Timeout, Becomes
<1>3. CASE req' = [req EXCEPT ![r] = Answered(req[r], "timeout")]
  BY <1>1, <1>3, AnswerStep DEF Replies
<1>4. CASE req' = [req EXCEPT ![r] = x]
  <2>1. x \in Progress
    BY <1>1 DEF Progress
  <2>2. /\ x.pc = req[r].pc /\ x.code = req[r].code /\ x.cfg = req[r].cfg /\ x.kind = req[r].kind
        /\ x.reply = req[r].reply /\ x.listed = req[r].listed
    BY <1>1 DEF Progress
  <2> HIDE DEF x
  <2>3. UNCHANGED <<mem, disk, overlap>>
    BY <1>1 DEF config
  <2>4. CodeInv'
    BY <1>1, <1>4, <2>1, <2>2, <2>3, QuietCode DEF Stage, Told
  <2>5. TokenInv'
    BY <1>1, <1>4, <2>1, <2>2, <2>3, QuietToken DEF Told
  <2> QED BY <2>4, <2>5
<1> QED BY <1>2, <1>3, <1>4

-----------------------------------------------------------------------------
(* Steps that move tokens.                                                 *)

(* Pairing uses up the code, which no token in use was got with.           *)
LEMMA RightCodeStep ==
  ASSUME CodeInv, TokenInv, NEW r \in Requests, TryCode(r), Matches(r)
  PROVE  CodeInv' /\ TokenInv'
<1> DEFINE x == IF req[r].live THEN [req[r] EXCEPT !.pc = "paired", !.since = 0] ELSE Answered(req[r], "paired")
<1>1. /\ req[r] \in Progress /\ req \in [Requests -> Progress] /\ req[r].code \in 0..codes
      /\ req[r].pc = "code" /\ req[r].kind = "pair" /\ req[r].reply # "saved"
      /\ req[r].code = code /\ code # 0 /\ codes \in Nat /\ ~Told(r)
  BY Now DEF TryCode, Stage, Matches, Told
<1>2. /\ guard' = guard \cup {r} /\ code' = 0 /\ UNCHANGED <<now, codes, mem, disk, overlap>>
      /\ req' = [req EXCEPT ![r] = x]
  BY DEF TryCode, UseUpCode, Becomes, config
<1>3. x \in Progress /\ x.pc \in {"paired", "done"} /\ x.code = req[r].code /\ x.cfg \in {{}, req[r].cfg}
      /\ x.kind = "pair" /\ x.reply # "saved"
  <2>1. CASE req[r].live
    <3> DEFINE y == [req[r] EXCEPT !.pc = "paired", !.since = 0]
    <3>1. y \in Progress
      BY <1>1 DEF Progress, Pcs
    <3>2. y.pc = "paired" /\ y.code = req[r].code /\ y.cfg = req[r].cfg /\ y.kind = req[r].kind /\ y.reply = req[r].reply
      BY <1>1 DEF Progress
    <3> QED BY <1>1, <2>1, <3>1, <3>2
  <2>2. CASE ~req[r].live
    <3> DEFINE y == Answered(req[r], "paired")
    <3>1. /\ y \in Progress /\ y.pc = "done" /\ y.cfg = {} /\ y.code = req[r].code /\ y.kind = req[r].kind
          /\ y.reply = "timeout"
      BY <1>1, <2>2, AnswerFields DEF Replies
    <3> HIDE DEF y
    <3>2. x = y
      BY <2>2 DEF y
    <3> QED BY <1>1, <3>1, <3>2
  <2> QED BY <2>1, <2>2
<1> HIDE DEF x
<1>4. req' \in [Requests -> Progress] /\ req'[r] = x /\ \A s \in Requests \ {r} : req'[s] = req[s]
  BY <1>1, <1>2, <1>3
<1>5. \A s \in Requests \ {r} : InUse(s)' => InUse(s)
  BY <1>2, <1>3, <1>4 DEF InUse
<1>6. /\ Fields /\ OneTokenPerCode /\ \A s \in Requests : CodeIsUsedUp(s) /\ Stage(s)
  BY DEF CodeInv
<1>7. Fields'
  BY <1>2, <1>4, <1>6 DEF Fields, Tokens
<1>8. ASSUME NEW s \in Requests
      PROVE  CodeIsUsedUp(s)' /\ Stage(s)'
  <2>1. CASE s = r
    <3>1. CodeIsUsedUp(r)'
      BY <1>1, <1>2, <1>3, <1>4 DEF CodeIsUsedUp
    <3>2. Stage(r)'
      BY <1>2, <1>3, <1>4 DEF Stage, Told
    <3> QED BY <2>1, <3>1, <3>2
  <2>2. CASE s # r
    <3>1. CodeIsUsedUp(s)'
      BY <1>2, <1>4, <1>5, <1>6, <2>2 DEF CodeIsUsedUp
    <3>2. Stage(s)'
      BY <1>2, <1>4, <1>6, <2>2 DEF Stage, Told
    <3> QED BY <3>1, <3>2
  <2> QED BY <2>1, <2>2
<1>9. OneTokenPerCode'
  <2> SUFFICES ASSUME NEW s \in Requests, NEW t \in Requests, InUse(s)', InUse(t)', req'[s].code = req'[t].code
               PROVE  s = t
    BY DEF OneTokenPerCode
  <2>1. \A u \in Requests \ {r} : InUse(u)' => InUse(u) /\ req'[u].code # code
    BY <1>4, <1>5, <1>6 DEF CodeIsUsedUp
  <2>2. req'[r].code = code
    BY <1>1, <1>3, <1>4
  <2>3. CASE s # r /\ t # r
    BY <1>4, <1>6, <2>1, <2>3 DEF OneTokenPerCode
  <2>4. CASE s = r \/ t = r
    BY <2>1, <2>2, <2>4
  <2> QED BY <2>3, <2>4
<1>10. CodeInv'
  BY <1>7, <1>8, <1>9 DEF CodeInv
<1>11. TokenInv'
  BY <1>1, <1>2, <1>3, QuietToken DEF Changing
<1> QED BY <1>10, <1>11

(* A request starts to change the configuration.                           *)
LEMMA BeginChange ==
  ASSUME CodeInv, TokenInv, NEW r \in Requests, NEW x \in Progress, req' = [req EXCEPT ![r] = x],
         NoteOverlap(r), UNCHANGED <<guard, mem, disk>>,
         ~Changing(req[r]), ~Told(r),
         x.reply # "saved" \/ x.kind # "pair",
         \/ x.pc = "saving" /\ x.cfg = guard /\ (x.kind = "pair" => r \in guard)
         \/ x.pc = "editing" /\ x.listed = Cardinality(mem)
  PROVE  TokenInv'
<1> SUFFICES ASSUME ~overlap'
             PROVE  Whole'
  BY DEF TokenInv
<1>1. /\ Whole /\ req \in [Requests -> Progress] /\ \A s \in Requests \ {r} : ~Changing(req[s])
  BY DEF CodeInv, Fields, TokenInv, NoteOverlap
<1>2. req'[r] = x /\ \A s \in Requests \ {r} : req'[s] = req[s]
  BY <1>1
<1>3. \A t \in Requests : Told(t)' => Told(t)
  BY <1>2 DEF Told
<1>4. \A s \in Requests : Changing(req'[s]) => s = r
  BY <1>1, <1>2
<1> QED BY <1>1, <1>2, <1>3, <1>4 DEF Whole, Changing

LEMMA PersistStep ==
  ASSUME CodeInv, TokenInv, NEW r \in Requests, Persist(r)
  PROVE  CodeInv' /\ TokenInv'
<1> DEFINE x == [req[r] EXCEPT !.pc = "saving", !.cfg = guard]
<1>1. /\ req[r] \in Progress /\ req \in [Requests -> Progress] /\ req[r].code \in 0..codes
      /\ req[r].pc = "paired" /\ req[r].kind = "pair" /\ req[r].reply # "saved" /\ ~Told(r) /\ r \in guard
      /\ guard \subseteq Tokens /\ mem \subseteq Tokens /\ disk \subseteq Tokens
  BY Now DEF Persist, Stage, Told, CodeInv, Fields
<1>2. /\ UNCHANGED <<now, code, codes, guard, mem, disk>> /\ NoteOverlap(r) /\ req' = [req EXCEPT ![r] = x]
  BY DEF Persist, Becomes, pairing
<1>3. x \in Progress
  BY <1>1 DEF Progress, Pcs
<1>4. /\ x.pc = "saving" /\ x.code = req[r].code /\ x.cfg = guard /\ x.kind = req[r].kind
      /\ x.reply = req[r].reply
  BY <1>1 DEF Progress
<1> HIDE DEF x
<1>5. \A s \in Requests : InUse(s)' => InUse(s)
  <2>1. req'[r] = x /\ \A s \in Requests \ {r} : req'[s] = req[s]
    BY <1>1, <1>2
  <2> QED BY <1>2, <1>4, <2>1 DEF InUse
<1>6. overlap' \in BOOLEAN
  BY <1>2 DEF NoteOverlap
<1>7. CodeInv'
  BY <1>1, <1>2, <1>3, <1>4, <1>5, <1>6, MoveCode
<1>8. TokenInv'
  BY <1>1, <1>2, <1>3, <1>4, BeginChange DEF Changing
<1> QED BY <1>7, <1>8

LEMMA GetConfigStep ==
  ASSUME CodeInv, TokenInv, NEW r \in Requests, GetConfig(r)
  PROVE  CodeInv' /\ TokenInv'
<1> DEFINE x == [New EXCEPT !.kind = "config", !.pc = "editing", !.listed = Cardinality(mem)]
<1>1. /\ req[r] \in Progress /\ req \in [Requests -> Progress] /\ codes \in Nat
      /\ req[r].pc = "new" /\ ~Told(r)
      /\ guard \subseteq Tokens /\ mem \subseteq Tokens /\ disk \subseteq Tokens
  BY Now DEF GetConfig, Stage, Told, CodeInv, Fields
<1>2. /\ UNCHANGED <<now, code, codes, guard, mem, disk>> /\ NoteOverlap(r) /\ req' = [req EXCEPT ![r] = x]
  BY DEF GetConfig, Becomes, pairing
<1>3. Cardinality(mem) \in {0} \cup {Cardinality(S) : S \in SUBSET Tokens} /\ "config" \in Kinds /\ "editing" \in Pcs
  BY <1>1 DEF Kinds, Pcs
<1>4. x \in Progress
  BY <1>3, NewFields DEF Progress
<1>5. /\ x.pc = "editing" /\ x.code = New.code /\ x.cfg = New.cfg /\ x.kind = "config"
      /\ x.listed = Cardinality(mem)
  BY NewFields DEF Progress
<1> HIDE DEF x
<1>6. \A s \in Requests : InUse(s)' => InUse(s)
  <2>1. req'[r] = x /\ x.cfg = {} /\ \A s \in Requests \ {r} : req'[s] = req[s]
    BY <1>1, <1>2, <1>5, NewFields
  <2> QED BY <1>2, <2>1 DEF InUse
<1>7. overlap' \in BOOLEAN
  BY <1>2 DEF NoteOverlap
<1>8. CodeInv'
  <2>1. req[r].pc \in Outside /\ x.code \in 0..codes
    BY <1>1, <1>5, NewFields DEF Outside
  <2> QED BY <1>1, <1>2, <1>4, <1>5, <1>6, <1>7, <2>1, MoveCode
<1>9. TokenInv'
  BY <1>1, <1>2, <1>4, <1>5, BeginChange DEF Changing
<1> QED BY <1>8, <1>9

(* A masked list as long as the one in memory stands for all of it.        *)
LEMMA WholeList ==
  ASSUME mem \subseteq Tokens, NEW tokens \in kSubset(Min({Cardinality(mem), Cardinality(mem)}), mem)
  PROVE  tokens = mem
<1>1. IsFiniteSet(Tokens)
  BY Consts, FS_AddElement DEF Tokens
<1>2. IsFiniteSet(mem)
  BY <1>1, FS_Subset
<1>3. Cardinality(mem) \in Nat
  BY <1>2, FS_CardinalityType
<1>4. Min({Cardinality(mem), Cardinality(mem)}) = Cardinality(mem)
  BY <1>3 DEF Min
<1>5. tokens \subseteq mem /\ Cardinality(tokens) = Cardinality(mem)
  BY <1>4 DEF kSubset
<1> QED BY <1>2, <1>5, FS_Subset

LEMMA PutConfigStep ==
  ASSUME CodeInv, TokenInv, NEW r \in Requests, PutConfig(r)
  PROVE  CodeInv' /\ TokenInv'
<1>1. PICK tokens \in kSubset(Min({req[r].listed, Cardinality(mem)}), mem) :
        req' = [req EXCEPT ![r] = [req[r] EXCEPT !.pc = "saving", !.cfg = tokens]]
  BY DEF PutConfig, Becomes
<1> DEFINE x == [req[r] EXCEPT !.pc = "saving", !.cfg = tokens]
<1>2. /\ req[r] \in Progress /\ req \in [Requests -> Progress] /\ req[r].code \in 0..codes
      /\ req[r].pc = "editing" /\ req[r].kind # "pair" /\ ~Told(r)
      /\ guard \subseteq Tokens /\ mem \subseteq Tokens /\ disk \subseteq Tokens /\ overlap \in BOOLEAN
  BY Now DEF PutConfig, Stage, Told, CodeInv, Fields
<1>3. UNCHANGED <<now, code, codes, guard, mem, disk, overlap>>
  BY DEF PutConfig, pairing, config
<1>4. tokens \subseteq mem
  BY DEF kSubset
<1>5. x \in Progress
  BY <1>2, <1>4 DEF Progress, Pcs
<1>6. /\ x.pc = "saving" /\ x.code = req[r].code /\ x.cfg = tokens /\ x.kind = req[r].kind
      /\ x.reply = req[r].reply
  BY <1>2 DEF Progress
<1> HIDE DEF x
<1>7. req'[r] = x /\ \A s \in Requests \ {r} : req'[s] = req[s]
  BY <1>1, <1>2 DEF x
<1>8. \A s \in Requests : InUse(s)' => InUse(s)
  BY <1>3, <1>4, <1>6, <1>7 DEF InUse
<1>9. req' = [req EXCEPT ![r] = x]
  BY <1>1 DEF x
<1>10. CodeInv'
  BY <1>2, <1>3, <1>5, <1>6, <1>8, <1>9, MoveCode
<1>11. TokenInv'
  <2> SUFFICES ASSUME ~overlap
               PROVE  Whole'
    BY <1>3 DEF TokenInv
  <2>1. Whole /\ req[r].listed = Cardinality(mem)
    BY <1>2 DEF TokenInv, Whole
  <2>2. tokens = mem
    BY <1>2, <2>1, WholeList
  <2>3. \A t \in Requests : Told(t)' => Told(t)
    BY <1>2, <1>6, <1>7 DEF Told
  <2>4. \A s \in Requests : Changing(req'[s]) => s = r
    BY <1>2, <1>7, <2>1 DEF Whole, Changing
  <2>5. \A t \in Requests : Told(t)' => t \in guard' /\ t \in mem' /\ t \in disk'
    BY <1>3, <2>1, <2>3 DEF Whole
  <2> QED BY <1>2, <1>3, <1>6, <1>7, <2>2, <2>4, <2>5 DEF Whole, Changing
<1> QED BY <1>10, <1>11

(* The file gets the copy.                                                 *)
LEMMA RenameStep ==
  ASSUME CodeInv, TokenInv, NEW r \in Requests, Rename(r)
  PROVE  CodeInv' /\ TokenInv'
<1> DEFINE x == IF req[r].live THEN [req[r] EXCEPT !.pc = "saved"] ELSE Answered(req[r], "saved")
<1>1. /\ req[r] \in Progress /\ req \in [Requests -> Progress] /\ req[r].code \in 0..codes
      /\ req[r].pc = "saving" /\ ~Told(r) /\ (req[r].kind = "pair" => r \in guard /\ req[r].reply # "saved")
      /\ guard \subseteq Tokens /\ mem \subseteq Tokens /\ disk \subseteq Tokens /\ overlap \in BOOLEAN
      /\ req[r].cfg \subseteq Tokens
  BY Now DEF Rename, Stage, Told, CodeInv, Fields, Progress
<1>2. /\ UNCHANGED <<now, code, codes, guard, mem, overlap>> /\ disk' = req[r].cfg
      /\ req' = [req EXCEPT ![r] = x]
  BY DEF Rename, Becomes, pairing
<1>3. /\ x \in Progress /\ x.code = req[r].code /\ x.kind = req[r].kind
      /\ \/ x.pc = "saved" /\ x.cfg = req[r].cfg
         \/ x.pc = "done" /\ x.cfg = {}
      /\ x.kind = "pair" => x.reply # "saved"
  <2>1. CASE req[r].live
    <3> DEFINE y == [req[r] EXCEPT !.pc = "saved"]
    <3>1. y \in Progress
      BY <1>1 DEF Progress, Pcs
    <3>2. y.pc = "saved" /\ y.code = req[r].code /\ y.cfg = req[r].cfg /\ y.kind = req[r].kind /\ y.reply = req[r].reply
      BY <1>1 DEF Progress
    <3> HIDE DEF y
    <3>3. x = y
      BY <2>1 DEF y
    <3> QED BY <1>1, <3>1, <3>2, <3>3
  <2>2. CASE ~req[r].live
    <3> DEFINE y == Answered(req[r], "saved")
    <3>1. /\ y \in Progress /\ y.pc = "done" /\ y.cfg = {} /\ y.code = req[r].code /\ y.kind = req[r].kind
          /\ y.reply = "timeout"
      BY <1>1, <2>2, AnswerFields DEF Replies
    <3> HIDE DEF y
    <3>2. x = y
      BY <2>2 DEF y
    <3> QED BY <1>1, <3>1, <3>2
  <2> QED BY <2>1, <2>2
<1> HIDE DEF x
<1>4. req'[r] = x /\ \A s \in Requests \ {r} : req'[s] = req[s]
  BY <1>1, <1>2
<1>5. \A s \in Requests : InUse(s)' => InUse(s)
  BY <1>2, <1>3, <1>4 DEF InUse
<1>6. CodeInv'
  BY <1>1, <1>2, <1>3, <1>5, MoveCode
<1>7. TokenInv'
  <2> SUFFICES ASSUME ~overlap
               PROVE  Whole'
    BY <1>2 DEF TokenInv
  <2>1. Whole
    BY DEF TokenInv
  <2>2. \A t \in Requests : Told(t)' => Told(t)
    BY <1>3, <1>4 DEF Told
  <2>3. \A s \in Requests : Changing(req'[s]) => s = r
    BY <1>1, <1>3, <1>4, <2>1 DEF Whole, Changing
  <2>4. \A t \in Requests : Told(t) => t \in guard /\ t \in mem /\ t \in req[r].cfg
    BY <1>1, <2>1 DEF Whole
  <2>5. req[r].kind = "pair" => r \in req[r].cfg
    BY <1>1, <2>1 DEF Whole
  <2> QED BY <1>2, <1>3, <1>4, <2>2, <2>3, <2>4, <2>5 DEF Whole, Changing
<1> QED BY <1>6, <1>7

(* The configuration in memory gets it, and the client is told.            *)
LEMMA SavedStep ==
  ASSUME CodeInv, TokenInv, NEW r \in Requests, Saved(r)
  PROVE  CodeInv' /\ TokenInv'
<1> DEFINE x == Answered(req[r], "saved")
<1>1. /\ req[r] \in Progress /\ req \in [Requests -> Progress] /\ req[r].code \in 0..codes
      /\ req[r].pc = "saved" /\ (req[r].kind = "pair" => r \in guard)
      /\ guard \subseteq Tokens /\ mem \subseteq Tokens /\ disk \subseteq Tokens /\ overlap \in BOOLEAN
      /\ req[r].cfg \subseteq Tokens
  BY Now DEF Saved, Stage, CodeInv, Fields, Progress
<1>2. /\ UNCHANGED <<now, code, codes, guard, disk, overlap>> /\ mem' = req[r].cfg
      /\ req' = [req EXCEPT ![r] = x]
  BY DEF Saved, SyncMemory, Becomes, pairing
<1>3. /\ x \in Progress /\ x.code = req[r].code /\ x.kind = req[r].kind /\ x.pc = "done" /\ x.cfg = {}
  BY <1>1, AnswerFields DEF Replies
<1> HIDE DEF x
<1>4. req'[r] = x /\ \A s \in Requests \ {r} : req'[s] = req[s]
  BY <1>1, <1>2
<1>5. \A s \in Requests : InUse(s)' => InUse(s)
  BY <1>2, <1>3, <1>4 DEF InUse
<1>6. CodeInv'
  BY <1>1, <1>2, <1>3, <1>5, MoveCode
<1>7. TokenInv'
  <2> SUFFICES ASSUME ~overlap
               PROVE  Whole'
    BY <1>2 DEF TokenInv
  <2>1. Whole /\ req[r].cfg = disk
    BY <1>1 DEF TokenInv, Whole
  <2>2. \A t \in Requests : Told(t)' => Told(t) \/ (t = r /\ req[r].kind = "pair")
    BY <1>3, <1>4 DEF Told
  <2>3. \A s \in Requests : ~Changing(req'[s])
    BY <1>1, <1>3, <1>4, <2>1 DEF Whole, Changing
  <2>4. req[r].kind = "pair" => r \in req[r].cfg /\ r \in guard
    BY <1>1, <2>1 DEF Whole
  <2>5. \A t \in Requests : Told(t)' => t \in guard' /\ t \in mem' /\ t \in disk'
    BY <1>2, <2>1, <2>2, <2>4 DEF Whole
  <2> QED BY <2>3, <2>5 DEF Whole, Changing
<1> QED BY <1>6, <1>7

-----------------------------------------------------------------------------
(* Steps of nobody.                                                        *)

LEMMA CalmStep ==
  ASSUME CodeInv, TokenInv, now' \in Nat, codes' \in Nat, codes <= codes',
         code' \in {code, codes'}, code' = code \/ codes < codes',
         UNCHANGED <<req, guard, mem, disk, overlap>>
  PROVE  CodeInv' /\ TokenInv'
<1>1. /\ Fields /\ OneTokenPerCode /\ \A s \in Requests : CodeIsUsedUp(s) /\ Stage(s)
      /\ codes \in Nat /\ code \in 0..codes
  BY DEF CodeInv, Fields
<1>2. \A s \in Requests : InUse(s)' <=> InUse(s)
  BY DEF InUse
<1>3. Fields'
  BY <1>1 DEF Fields
<1>4. OneTokenPerCode'
  BY <1>1, <1>2 DEF OneTokenPerCode
<1>5. ASSUME NEW s \in Requests
      PROVE  CodeIsUsedUp(s)' /\ Stage(s)'
  <2>1. req[s].code \in 0..codes'
    BY <1>1 DEF CodeIsUsedUp
  <2>2. InUse(s) => req[s].code # code'
    BY <1>1 DEF CodeIsUsedUp
  <2>3. CodeIsUsedUp(s)'
    BY <1>1, <1>2, <2>1, <2>2 DEF CodeIsUsedUp
  <2>4. Stage(s)'
    BY <1>1 DEF Stage, Told
  <2> QED BY <2>3, <2>4
<1>6. TokenInv'
  BY DEF TokenInv, Whole, Told, Changing
<1> QED BY <1>3, <1>4, <1>5, <1>6 DEF CodeInv

LEMMA RestartStep ==
  ASSUME CodeInv, TokenInv, Restart
  PROVE  CodeInv' /\ TokenInv'
<1>1. /\ Fields /\ OneTokenPerCode /\ \A s \in Requests : CodeIsUsedUp(s) /\ Stage(s)
      /\ codes \in Nat /\ code \in 0..codes /\ req \in [Requests -> Progress]
      /\ guard \subseteq Tokens /\ mem \subseteq Tokens /\ disk \subseteq Tokens /\ overlap \in BOOLEAN
  BY DEF CodeInv, Fields
<1>2. /\ guard' = disk /\ mem' = disk /\ UNCHANGED <<now, disk>>
      /\ \/ codes' = codes + 1 /\ code' = codes + 1
         \/ codes' = codes /\ code' = 0
      /\ req' = [r \in Requests |-> IF req[r].pc \in {"new", "done", "editing"} THEN req[r]
                                    ELSE Answered(req[r], "timeout")]
      /\ overlap' = (overlap \/ (mem # disk /\ \E r \in Requests : req[r].pc = "editing"))
  BY DEF Restart
<1>3. ASSUME NEW s \in Requests
      PROVE  /\ req'[s] \in Progress /\ req'[s].code = req[s].code /\ req'[s].kind = req[s].kind
             /\ req'[s].cfg = {} \/ req'[s].cfg = req[s].cfg
             /\ \/ req[s].pc \in {"new", "done", "editing"} /\ req'[s] = req[s]
                \/ req'[s].pc = "done" /\ req'[s].reply = "timeout"
  <2>1. req[s] \in Progress
    BY <1>1
  <2>2. CASE req[s].pc \in {"new", "done", "editing"}
    BY <1>2, <2>1, <2>2
  <2>3. CASE req[s].pc \notin {"new", "done", "editing"}
    <3> DEFINE x == Answered(req[s], "timeout")
    <3>1. /\ x \in Progress /\ x.code = req[s].code /\ x.kind = req[s].kind /\ x.cfg = {} /\ x.pc = "done"
          /\ x.reply = "timeout"
      BY <2>1, AnswerFields DEF Replies
    <3> HIDE DEF x
    <3>2. req'[s] = x
      BY <1>2, <2>3 DEF x
    <3> QED BY <3>1, <3>2
  <2> QED BY <2>2, <2>3
<1>4. \A s \in Requests : InUse(s)' => InUse(s)
  BY <1>2, <1>3 DEF InUse
<1>5. req' \in [Requests -> Progress]
  BY <1>2, <1>3
<1>6. Fields'
  BY <1>1, <1>2, <1>5 DEF Fields
<1>7. OneTokenPerCode'
  BY <1>1, <1>3, <1>4 DEF OneTokenPerCode
<1>8. ASSUME NEW s \in Requests
      PROVE  CodeIsUsedUp(s)' /\ Stage(s)'
  <2>1. req'[s].code \in 0..codes'
    BY <1>1, <1>2, <1>3 DEF CodeIsUsedUp
  <2>2. InUse(s) => req'[s].code # 0 /\ req'[s].code # code' /\ req'[s].pc = "done"
    BY <1>1, <1>2, <1>3 DEF CodeIsUsedUp
  <2>3. CodeIsUsedUp(s)'
    BY <1>4, <2>1, <2>2 DEF CodeIsUsedUp
  <2>4. Stage(s)'
    BY <1>1, <1>3 DEF Stage, Told
  <2> QED BY <2>3, <2>4
<1>9. TokenInv'
  <2> SUFFICES ASSUME ~overlap'
               PROVE  Whole'
    BY DEF TokenInv
  <2>1. Whole /\ (mem = disk \/ \A s \in Requests : req[s].pc # "editing")
    BY <1>2 DEF TokenInv
  <2>2. \A t \in Requests : Told(t)' => Told(t)
    BY <1>3 DEF Told
  <2>3. \A s \in Requests : Changing(req'[s]) => req'[s] = req[s] /\ req[s].pc = "editing"
    BY <1>3 DEF Changing
  <2> QED BY <1>2, <2>1, <2>2, <2>3 DEF Whole, Changing
<1> QED BY <1>6, <1>7, <1>8, <1>9 DEF CodeInv

LEMMA InitTokens == Init => CodeInv /\ TokenInv
<1> SUFFICES ASSUME Init
             PROVE  CodeInv /\ TokenInv
  OBVIOUS
<1> USE DEF Init
<1>1. req \in [Requests -> Progress] /\ \A s \in Requests : req[s] = New
  BY NewFields
<1>2. New.pc = "new" /\ New.code = 0 /\ New.cfg = {} /\ New.reply = None /\ New.kind = None
  BY NewFields
<1>3. None # "saved" /\ None # "pair"
  BY Consts DEF Replies, Kinds
<1>4. Fields
  <2>1. now \in Nat /\ codes \in Nat /\ code \in 0..codes
    OBVIOUS
  <2>2. guard \subseteq Tokens /\ mem \subseteq Tokens /\ disk \subseteq Tokens
    BY DEF Tokens
  <2>3. overlap \in BOOLEAN
    OBVIOUS
  <2> QED BY <1>1, <2>1, <2>2, <2>3, Zenon DEF Fields
<1>5. \A s \in Requests : ~InUse(s)
  BY <1>1, <1>2, Consts DEF InUse
<1>6. \A s \in Requests : CodeIsUsedUp(s) /\ Stage(s)
  BY <1>1, <1>2, <1>3, <1>5 DEF CodeIsUsedUp, Stage, Told
<1>7. OneTokenPerCode
  BY <1>5 DEF OneTokenPerCode
<1>8. Whole
  BY <1>1, <1>2, <1>3 DEF Whole, Told, Changing
<1> QED BY <1>4, <1>6, <1>7, <1>8 DEF CodeInv, TokenInv

LEMMA NextTokens ==
  ASSUME CodeInv, TokenInv, [Next]_vars
  PROVE  CodeInv' /\ TokenInv'
<1>1. now \in Nat /\ codes \in Nat
  BY DEF CodeInv, Fields
<1>2. CASE Tick
  BY <1>1, <1>2, CalmStep DEF Tick, pairing, config
<1>3. CASE NewCode
  <2>1. codes' = codes + 1 /\ code' = codes + 1 /\ UNCHANGED <<now, req, guard, mem, disk, overlap>>
    BY <1>3 DEF NewCode, config
  <2> QED BY <1>1, <2>1, CalmStep
<1>4. CASE Restart
  BY <1>4, RestartStep
<1>5. ASSUME NEW r \in Requests, Handle(r)
      PROVE  CodeInv' /\ TokenInv'
  <2>1. CASE TryCode(r)
    BY <2>1, RightCodeStep, WrongCodeStep
  <2>2. ASSUME NEW c \in Clients, NEW k \in Keys \cup {None}, Webhook(r, c, k)
        PROVE  CodeInv' /\ TokenInv'
    BY <2>2, WebhookStep
  <2>3. ASSUME NEW c \in Clients, Pair(r, c)
        PROVE  CodeInv' /\ TokenInv'
    BY <2>3, PairStep
  <2> QED BY <1>5, <2>1, <2>2, <2>3, PrepareStep, AskStep, CheckLockoutStep, EndingStep, PersistStep, RenameStep, SavedStep,
             GetConfigStep, PutConfigStep, TimeoutStep DEF Handle
<1>6. CASE UNCHANGED vars
  BY <1>1, <1>6, CalmStep DEF vars, pairing, config
<1> QED BY <1>2, <1>3, <1>4, <1>5, <1>6 DEF Next

(* Codes that were used stay used, and while changes of the configuration  *)
(* do not overlap every saved token is in memory and in the file.          *)
THEOREM TokenInvariant == Spec => [](CodeInv /\ TokenInv)
<1>1. Init => CodeInv /\ TokenInv
  BY InitTokens
<1>2. (CodeInv /\ TokenInv) /\ [Next]_vars => (CodeInv /\ TokenInv)'
  BY NextTokens
<1> QED BY <1>1, <1>2, PTL DEF Spec

(* A pairing code pairs one client, however many try it at once, give up   *)
(* half way or are cut off by a restart.                                   *)
THEOREM CodeOnceCorrect == Spec => []CodeOnce
<1>1. CodeInv => CodeOnce
  BY DEF CodeInv, OneTokenPerCode, InUse, CodeOnce
<1> QED BY <1>1, TokenInvariant, PTL

(* A token that its client was told is saved stays in config.toml.         *)
THEOREM TokensSurviveCorrect == Spec => []TokensSurvive
<1>1. TokenInv => TokensSurvive
  BY DEF TokenInv, Whole, Told, TokensSurvive
<1> QED BY <1>1, TokenInvariant, PTL

-----------------------------------------------------------------------------
(***************************************************************************)
(* Limits, keys and retries.                                               *)
(***************************************************************************)

Targets == (1..Models) \X (1..Providers)

(* A chat has asked every provider that comes before the next one.         *)
AskedBefore(q) ==
  /\ q.asked \subseteq Targets
  /\ \A m \in 1..Models, p \in 1..Providers :
       m < q.model \/ (m = q.model /\ p < q.provider) => <<m, p>> \in q.asked

Shape(q) ==
  /\ q.at <= now /\ q.since <= now
  /\ q.model \in 1..Models /\ q.provider \in 1..Providers /\ q.attempt \in 0..MaxRetries
  /\ q.pc = "new" => q.kind = None
  /\ q.pc # "done" => q.reply = None
  /\ q.pc \in {"preparing", "chat"} => AskedBefore(q)
  /\ q.kind = "webhook" /\ q.reply = "failed" => q.asked = Targets

Scalars ==
  /\ now <= Horizon /\ restarts \in 0..MaxRestarts /\ kinds \in Mixes
  /\ evicted \subseteq Clients /\ forgotten \subseteq Keys
  /\ failed \in [Clients -> [count : Nat, until : Nat]]
  /\ \A c \in Clients : failed[c].until <= now + Lockout

Limited == {"webhook", "pair"}

LetIn(kind, c) == {r \in Requests : req[r].kind = kind /\ req[r].client = c /\ req[r].reply # "limited"}

LetInFrom(kind, c, from) == {r \in LetIn(kind, c) : req[r].at \in from..(from + Window - 1)}

(* The times that are held are enough to bound any window that ends now,   *)
(* and those that ended before were bounded then.                          *)
Times ==
  /\ rate \in [Limited -> [Clients -> SUBSET Requests]]
  /\ \A kind \in Limited, c \in Clients :
       /\ Cardinality(rate[kind][c]) <= Limit
       /\ c \notin evicted =>
            /\ \A r \in LetIn(kind, c) : req[r].at + Window > now => r \in rate[kind][c]
            /\ \A from \in Nat : Cardinality(LetInFrom(kind, c, from)) <= Limit

(* A key is held for its time to live.                                     *)
KeysHeld ==
  /\ seen \in [Keys -> (0..now) \cup {None}]
  /\ \A r \in Requests : PassedOn(r) /\ req[r].key \in Keys \ forgotten =>
       seen[req[r].key] = req[r].at \/ req[r].at + Ttl <= now

LimitsInv == Scalars /\ (\A r \in Requests : Shape(req[r])) /\ Times /\ KeysHeld /\ ProcessedOnce

-----------------------------------------------------------------------------
LEMMA Bounds ==
  /\ {Models, Providers, Limit, Window, Ttl, Lockout, MaxClients, MaxKeys} \subseteq Nat \ {0}
  /\ {MaxRetries, Horizon, MaxRestarts} \subseteq Nat
  /\ IsFiniteSet(Requests)
  /\ None \notin Clients /\ None \notin Keys /\ None \notin Kinds /\ None \notin Replies /\ None \notin Nat
BY GatewayAssumption DEF GatewayAssumption

Refusals == {"limited", "unauthorized", "duplicate"}

LEMMA NewShape ==
  /\ New.kind = None /\ New.reply = None /\ New.at = 0 /\ New.since = 0 /\ New.model = 1 /\ New.provider = 1
  /\ New.attempt = 0 /\ New.asked = {} /\ New.live = TRUE /\ New.pc = "new"
BY DEF New

LEMMA AnsweredShape ==
  ASSUME NEW q \in Progress, NEW reply \in Replies, now \in Nat, q.at <= now,
         q.kind = "webhook" /\ reply = "failed" => q.asked = Targets
  PROVE  LET x == Answered(q, reply) IN
         /\ Shape(x)
         /\ x.kind = q.kind /\ x.client = q.client /\ x.key = q.key /\ x.at = q.at
         /\ x.reply = IF q.live THEN reply ELSE "timeout"
<1> DEFINE a == IF reply = "failed" THEN q.asked ELSE {}
           y == IF q.live THEN reply ELSE "timeout"
           x1 == [New EXCEPT !.kind = q.kind, !.pc = "done", !.client = q.client, !.key = q.key]
           x == [x1 EXCEPT !.at = q.at, !.code = q.code, !.asked = a, !.reply = y]
<1>1. Answered(q, reply) = x
  BY DEF Answered
<1>2. a \in SUBSET (Nat \X Nat) /\ y \in Replies \cup {None}
  BY DEF Progress, Replies
<1>3. q.kind = "webhook" /\ y = "failed" => a = Targets
  BY DEF Replies
<1> HIDE DEF a, y
<1>4. /\ q.kind \in Kinds \cup {None} /\ q.client \in Clients \cup {None} /\ q.key \in Keys \cup {None}
      /\ q.at \in Nat /\ q.code \in Nat
  BY DEF Progress
<1>5. x1 \in Progress /\ x1.kind = q.kind /\ x1.pc = "done" /\ x1.client = q.client /\ x1.key = q.key
  BY <1>4, NewFields DEF Progress, Pcs
<1>6. x1.model = New.model /\ x1.provider = New.provider /\ x1.attempt = New.attempt /\ x1.since = New.since
  BY NewFields DEF Progress
<1> HIDE DEF x1
<1>7. /\ x.kind = x1.kind /\ x.pc = x1.pc /\ x.client = x1.client /\ x.key = x1.key
      /\ x.at = q.at /\ x.asked = a /\ x.reply = y
  BY <1>5 DEF Progress
<1>8. x.model = x1.model /\ x.provider = x1.provider /\ x.attempt = x1.attempt /\ x.since = x1.since
  BY <1>5 DEF Progress
<1> HIDE DEF x
<1>9. x.at <= now /\ x.since <= now /\ x.model \in 1..Models /\ x.provider \in 1..Providers /\ x.attempt \in 0..MaxRetries
  BY <1>6, <1>7, <1>8, NewShape, Bounds
<1>10. Shape(x)
  BY <1>3, <1>5, <1>7, <1>9 DEF Shape
<1> QED BY <1>1, <1>5, <1>7, <1>10 DEF y

LEMMA Present ==
  ASSUME CodeInv, LimitsInv, NEW r \in Requests
  PROVE  /\ req[r] \in Progress /\ req \in [Requests -> Progress] /\ now \in Nat
         /\ Shape(req[r]) /\ Stage(r) /\ req[r].at \in Nat /\ req[r].since \in Nat
         /\ req[r].at <= now
         /\ req[r].pc # "done" => req[r].reply = None /\ None \notin Refusals /\ None # "failed"
BY Now, Bounds DEF LimitsInv, Shape, Progress, Refusals, Replies

-----------------------------------------------------------------------------
(* Steps that let nobody in. *)

(* The request was not let in before and is not afterwards, or it was and  *)
(* is the same.                                                            *)
Same(q, x) ==
  \/ q.kind \notin Limited /\ (x.kind \notin Limited \/ x.reply = "limited")
  \/ /\ x.kind = q.kind /\ x.client = q.client /\ x.key = q.key /\ x.at = q.at
     /\ q.reply \notin Refusals /\ x.reply \notin Refusals

LEMMA TimesKept ==
  ASSUME CodeInv, LimitsInv, UNCHANGED <<now, rate, evicted>>, \A s \in Requests : Same(req[s], req'[s]) \/ req'[s] = req[s]
  PROVE  Times'
<1>1. ASSUME NEW kind \in Limited, NEW c \in Clients
      PROVE  /\ LetIn(kind, c)' = LetIn(kind, c)
             /\ \A s \in LetIn(kind, c) : req'[s].at = req[s].at
  <2>1. ASSUME NEW s \in Requests
        PROVE  /\ (req'[s].kind = kind /\ req'[s].client = c /\ req'[s].reply # "limited") <=>
                  (req[s].kind = kind /\ req[s].client = c /\ req[s].reply # "limited")
               /\ req[s].kind = kind => req'[s].at = req[s].at \/ req'[s].reply = "limited"
    BY DEF Same, Refusals
  <2> QED BY <2>1 DEF LetIn
<1>2. \A kind \in Limited, c \in Clients : \A from : LetInFrom(kind, c, from)' = LetInFrom(kind, c, from)
  BY <1>1 DEF LetInFrom
<1> QED BY <1>1, <1>2 DEF LimitsInv, Times

LEMMA KeysKept ==
  ASSUME CodeInv, LimitsInv, UNCHANGED <<now, seen, forgotten>>,
         \A s \in Requests : PassedOn(s)' /\ req'[s].key \in Keys =>
           PassedOn(s) /\ req'[s].key = req[s].key /\ req'[s].at = req[s].at
  PROVE  KeysHeld' /\ ProcessedOnce'
<1>1. KeysHeld /\ ProcessedOnce
  BY DEF LimitsInv
<1>2. KeysHeld'
  BY <1>1 DEF KeysHeld
<1>3. ProcessedOnce'
  BY <1>1 DEF ProcessedOnce
<1> QED BY <1>2, <1>3

LEMMA SamePassedOn ==
  ASSUME NEW s \in Requests, Same(req[s], req'[s]), PassedOn(s)'
  PROVE  PassedOn(s) /\ req'[s].key = req[s].key /\ req'[s].at = req[s].at
BY DEF Same, PassedOn, Limited, Refusals

(* What a step of request r that lets nobody in does to the requests.      *)
Aside(r) ==
  /\ Shape(req'[r]) /\ Same(req[r], req'[r])
  /\ \A s \in Requests \ {r} : req'[s] = req[s]

LEMMA AnswerAside ==
  ASSUME CodeInv, LimitsInv, NEW r \in Requests, NEW q \in Progress, NEW reply \in Replies,
         req[r].pc # "done", reply \notin Refusals, req' = [req EXCEPT ![r] = Answered(q, reply)],
         q.kind = req[r].kind, q.client = req[r].client, q.key = req[r].key, q.at = req[r].at,
         q.kind = "webhook" /\ reply = "failed" => q.asked = Targets
  PROVE  Aside(r)
<1> DEFINE x == Answered(q, reply)
<1>1. /\ req \in [Requests -> Progress] /\ now \in Nat /\ req[r].at <= now /\ req[r].reply = None /\ None \notin Refusals
  BY Present
<1>2. /\ Shape(x) /\ x.kind = q.kind /\ x.client = q.client /\ x.key = q.key /\ x.at = q.at
      /\ x.reply = IF q.live THEN reply ELSE "timeout"
  BY <1>1, AnsweredShape
<1> HIDE DEF x
<1>3. req' = [req EXCEPT ![r] = x]
  BY DEF x
<1>4. req'[r] = x /\ \A s \in Requests \ {r} : req'[s] = req[s]
  BY <1>1, <1>3
<1>5. x.reply \notin Refusals
  BY <1>2 DEF Refusals
<1>6. Same(req[r], x)
  BY <1>1, <1>2, <1>5 DEF Same
<1> QED BY <1>2, <1>4, <1>6 DEF Aside

LEMMA MoveAside ==
  ASSUME CodeInv, LimitsInv, NEW r \in Requests, NEW x, req' = [req EXCEPT ![r] = x],
         req[r].pc # "done", x.pc # "new", x.pc \in {"preparing", "chat"} => req[r].pc \in {"preparing", "chat"},
         x.kind = req[r].kind, x.client = req[r].client, x.key = req[r].key, x.at = req[r].at,
         x.reply = req[r].reply, x.model = req[r].model, x.provider = req[r].provider, x.attempt = req[r].attempt,
         x.asked = req[r].asked, x.since <= now
  PROVE  Aside(r)
<1>1. /\ req \in [Requests -> Progress] /\ req[r].reply = None /\ None \notin Refusals /\ Shape(req[r])
      /\ None # "failed"
  BY Present
<1>2. req'[r] = x /\ \A s \in Requests \ {r} : req'[s] = req[s]
  BY <1>1
<1>3. Shape(x)
  BY <1>1 DEF Shape, AskedBefore
<1>4. Same(req[r], x)
  BY <1>1 DEF Same
<1> QED BY <1>2, <1>3, <1>4 DEF Aside

(* Every provider is asked before the last one fails.                      *)
LEMMA AskAside ==
  ASSUME CodeInv, LimitsInv, NEW r \in Requests, Ask(r)
  PROVE  Aside(r)
<1> DEFINE q == [req[r] EXCEPT !.asked = @ \cup {<<req[r].model, req[r].provider>>}]
<1>1. /\ req[r].pc = "chat" /\ req[r] \in Progress /\ req \in [Requests -> Progress] /\ Shape(req[r])
      /\ req[r].reply = None /\ None \notin Refusals /\ None # "failed"
  BY Present DEF Ask
<1>2. /\ q \in Progress /\ q.pc = "chat" /\ q.kind = req[r].kind /\ q.client = req[r].client
      /\ q.key = req[r].key /\ q.at = req[r].at /\ q.reply = None /\ q.since = req[r].since
      /\ q.model = req[r].model /\ q.provider = req[r].provider /\ q.attempt = req[r].attempt
      /\ q.asked = req[r].asked \cup {<<req[r].model, req[r].provider>>}
  BY <1>1 DEF Progress
<1>3. \/ \E reply \in {"answer", "too long"} : req' = [req EXCEPT ![r] = Answered(q, reply)]
      \/ req' = [req EXCEPT ![r] = NextProvider(q)]
      \/ req' = [req EXCEPT ![r] = [q EXCEPT !.attempt = @ + 1]] /\ q.attempt < MaxRetries
  BY DEF Ask, Becomes
<1> HIDE DEF q
<1>4. /\ q.at <= now /\ q.since <= now
      /\ q.model \in 1..Models /\ q.provider \in 1..Providers /\ q.attempt \in 0..MaxRetries
      /\ Models \in Nat /\ Providers \in Nat /\ MaxRetries \in Nat
  BY <1>1, <1>2, Bounds DEF Shape
<1>5. /\ q.asked \subseteq Targets
      /\ \A m \in 1..Models, p \in 1..Providers :
           m < q.model \/ (m = q.model /\ p <= q.provider) => <<m, p>> \in q.asked
  <2>1. AskedBefore(req[r])
    BY <1>1 DEF Shape
  <2>2. q.asked \subseteq Targets
    BY <1>2, <1>4, <2>1 DEF AskedBefore, Targets
  <2>3. ASSUME NEW m \in 1..Models, NEW p \in 1..Providers, m < q.model \/ (m = q.model /\ p <= q.provider)
        PROVE  <<m, p>> \in q.asked
    <3>1. CASE m = q.model /\ p = q.provider
      BY <1>2, <3>1
    <3>2. CASE m < q.model \/ (m = q.model /\ p < q.provider)
      BY <1>2, <2>1, <3>2 DEF AskedBefore
    <3> QED BY <1>4, <2>3, <3>1, <3>2
  <2> QED BY <2>2, <2>3
<1>6. ASSUME NEW x, req' = [req EXCEPT ![r] = x], x.pc = "chat",
             x.kind = q.kind, x.client = q.client, x.key = q.key, x.at = q.at, x.reply = q.reply, x.since = q.since,
             x.asked = q.asked, x.attempt \in 0..MaxRetries,
             \/ x.model = q.model /\ x.provider = q.provider
             \/ x.model = q.model /\ x.provider = q.provider + 1 /\ q.provider < Providers
             \/ x.model = q.model + 1 /\ x.provider = 1 /\ q.provider = Providers /\ q.model < Models
      PROVE  Aside(r)
  <2>1. req'[r] = x /\ \A s \in Requests \ {r} : req'[s] = req[s]
    BY <1>1, <1>6
  <2>2. x.model \in 1..Models /\ x.provider \in 1..Providers
    BY <1>4, <1>6
  <2>3. AskedBefore(x)
    <3>1. ASSUME NEW m \in 1..Models, NEW p \in 1..Providers, m < x.model \/ (m = x.model /\ p < x.provider)
          PROVE  m < q.model \/ (m = q.model /\ p <= q.provider)
      BY <1>4, <1>6, <3>1
    <3> QED BY <1>5, <1>6, <3>1 DEF AskedBefore
  <2>4. Shape(x)
    BY <1>1, <1>2, <1>4, <1>6, <2>2, <2>3 DEF Shape
  <2>5. Same(req[r], x)
    BY <1>1, <1>2, <1>6 DEF Same
  <2> QED BY <2>1, <2>4, <2>5 DEF Aside
<1>7. ASSUME NEW reply \in {"answer", "too long", "failed"}, req' = [req EXCEPT ![r] = Answered(q, reply)],
             reply = "failed" => q.asked = Targets
      PROVE  Aside(r)
  <2>1. reply \in Replies /\ reply \notin Refusals
    BY DEF Replies, Refusals
  <2> QED BY <1>1, <1>2, <1>7, <2>1, AnswerAside
<1>8. CASE req' = [req EXCEPT ![r] = [q EXCEPT !.attempt = @ + 1]] /\ q.attempt < MaxRetries
  <2> DEFINE x == [q EXCEPT !.attempt = @ + 1]
  <2>1. /\ x.pc = q.pc /\ x.kind = q.kind /\ x.client = q.client /\ x.key = q.key /\ x.at = q.at /\ x.reply = q.reply
        /\ x.since = q.since /\ x.asked = q.asked /\ x.attempt = q.attempt + 1
        /\ x.model = q.model /\ x.provider = q.provider
    BY <1>2 DEF Progress
  <2>2. req' = [req EXCEPT ![r] = x]
    BY <1>8
  <2>3. x.attempt \in 0..MaxRetries
    BY <1>4, <1>8, <2>1
  <2> HIDE DEF x
  <2> QED BY <1>2, <1>6, <2>1, <2>2, <2>3
<1>9. CASE req' = [req EXCEPT ![r] = NextProvider(q)] /\ q.provider < Providers
  <2> DEFINE x == [q EXCEPT !.provider = @ + 1, !.attempt = 0]
  <2>1. /\ x.pc = q.pc /\ x.kind = q.kind /\ x.client = q.client /\ x.key = q.key /\ x.at = q.at /\ x.reply = q.reply
        /\ x.since = q.since /\ x.asked = q.asked /\ x.attempt = 0
        /\ x.model = q.model /\ x.provider = q.provider + 1
    BY <1>2 DEF Progress
  <2>2. req' = [req EXCEPT ![r] = x]
    BY <1>9 DEF NextProvider
  <2>3. x.attempt \in 0..MaxRetries
    BY <1>4, <2>1
  <2> HIDE DEF x
  <2> QED BY <1>2, <1>6, <1>9, <2>1, <2>2, <2>3
<1>10. CASE req' = [req EXCEPT ![r] = NextProvider(q)] /\ ~(q.provider < Providers) /\ q.model < Models
  <2> DEFINE x == [q EXCEPT !.model = @ + 1, !.provider = 1, !.attempt = 0]
  <2>1. /\ x.pc = q.pc /\ x.kind = q.kind /\ x.client = q.client /\ x.key = q.key /\ x.at = q.at /\ x.reply = q.reply
        /\ x.since = q.since /\ x.asked = q.asked /\ x.attempt = 0
        /\ x.model = q.model + 1 /\ x.provider = 1
    BY <1>2 DEF Progress
  <2>2. req' = [req EXCEPT ![r] = x]
    BY <1>10 DEF NextProvider
  <2>3. x.attempt \in 0..MaxRetries /\ q.provider = Providers
    BY <1>4, <1>10, <2>1
  <2> HIDE DEF x
  <2> QED BY <1>2, <1>6, <1>10, <2>1, <2>2, <2>3
<1>11. CASE req' = [req EXCEPT ![r] = NextProvider(q)] /\ ~(q.provider < Providers) /\ ~(q.model < Models)
  <2>1. req' = [req EXCEPT ![r] = Answered(q, "failed")]
    BY <1>11 DEF NextProvider
  <2>2. \A m \in 1..Models, p \in 1..Providers : <<m, p>> \in q.asked
    <3>1. q.model = Models /\ q.provider = Providers
      BY <1>4, <1>11
    <3>2. \A m \in 1..Models, p \in 1..Providers : m < q.model \/ (m = q.model /\ p <= q.provider)
      BY <1>4, <3>1
    <3> QED BY <1>5, <3>2
  <2>3. q.asked = Targets
    BY <1>5, <2>2 DEF Targets
  <2> QED BY <1>7, <2>1, <2>3
<1> QED BY <1>3, <1>7, <1>8, <1>9, <1>10, <1>11

LEMMA OwnAnswerAside ==
  ASSUME CodeInv, LimitsInv, NEW r \in Requests, NEW reply \in Replies, reply \notin Refusals, reply # "failed",
         req[r].pc # "done", req' = [req EXCEPT ![r] = Answered(req[r], reply)]
  PROVE  Aside(r)
<1>1. req[r] \in Progress
  BY Present
<1> QED BY <1>1, AnswerAside

LEMMA AsideStep ==
  ASSUME CodeInv, LimitsInv, NEW r \in Requests, Aside(r), UNCHANGED <<now, limits, restarts, kinds>>,
         failed' \in [Clients -> [count : Nat, until : Nat]],
         \A c \in Clients : failed'[c].until <= now + Lockout
  PROVE  LimitsInv'
<1>1. /\ UNCHANGED <<rate, seen, evicted, forgotten>>
      /\ Scalars /\ \A s \in Requests : Shape(req[s])
  BY DEF limits, LimitsInv
<1>2. \A s \in Requests : Same(req[s], req'[s]) \/ req'[s] = req[s]
  BY DEF Aside
<1>3. Times'
  BY <1>1, <1>2, TimesKept
<1>4. \A s \in Requests : PassedOn(s)' /\ req'[s].key \in Keys =>
           PassedOn(s) /\ req'[s].key = req[s].key /\ req'[s].at = req[s].at
  <2> SUFFICES ASSUME NEW s \in Requests, PassedOn(s)'
               PROVE  PassedOn(s) /\ req'[s].key = req[s].key /\ req'[s].at = req[s].at
    OBVIOUS
  <2>1. CASE Same(req[s], req'[s])
    BY <2>1, SamePassedOn
  <2>2. CASE req'[s] = req[s]
    BY <2>2 DEF PassedOn
  <2> QED BY <1>2, <2>1, <2>2
<1>5. KeysHeld' /\ ProcessedOnce'
  BY <1>1, <1>4, KeysKept
<1>6. Scalars'
  BY <1>1 DEF Scalars
<1>7. \A s \in Requests : Shape(req[s])'
  BY <1>1 DEF Aside, Shape, AskedBefore
<1> QED BY <1>3, <1>5, <1>6, <1>7 DEF LimitsInv

LEMMA QuietStepLimits ==
  ASSUME CodeInv, LimitsInv, NEW r \in Requests, Aside(r), UNCHANGED <<now, limits, restarts, kinds, failed>>
  PROVE  LimitsInv'
<1>1. Scalars
  BY DEF LimitsInv
<1> QED BY <1>1, AsideStep DEF Scalars

LEMMA PrepareLimits ==
  ASSUME CodeInv, LimitsInv, NEW r \in Requests, Prepare(r)
  PROVE  LimitsInv'
<1> DEFINE x == [req[r] EXCEPT !.pc = "chat"]
<1>1. /\ req[r] \in Progress /\ req[r].pc = "preparing" /\ req[r].since <= now
      /\ UNCHANGED <<now, limits, restarts, kinds, failed>>
  BY Present DEF Prepare, pairing, Shape
<1>2. /\ x.pc = "chat" /\ x.kind = req[r].kind /\ x.client = req[r].client /\ x.key = req[r].key
      /\ x.at = req[r].at /\ x.reply = req[r].reply /\ x.since = req[r].since
  BY <1>1 DEF Progress
<1>3. /\ x.model = req[r].model /\ x.provider = req[r].provider /\ x.attempt = req[r].attempt
      /\ x.asked = req[r].asked
  BY <1>1 DEF Progress
<1>4. req' = [req EXCEPT ![r] = x] \/ req' = [req EXCEPT ![r] = Answered(req[r], "unprepared")]
  BY DEF Prepare, Becomes
<1> HIDE DEF x
<1>5. CASE req' = [req EXCEPT ![r] = x]
  BY <1>1, <1>2, <1>3, <1>5, MoveAside, QuietStepLimits
<1>6. CASE req' = [req EXCEPT ![r] = Answered(req[r], "unprepared")]
  BY <1>1, <1>6, OwnAnswerAside, QuietStepLimits DEF Replies, Refusals
<1> QED BY <1>4, <1>5, <1>6

LEMMA AskLimits ==
  ASSUME CodeInv, LimitsInv, NEW r \in Requests, Ask(r)
  PROVE  LimitsInv'
BY AskAside, QuietStepLimits DEF Ask, pairing

LEMMA CheckLockoutLimits ==
  ASSUME CodeInv, LimitsInv, NEW r \in Requests, CheckLockout(r)
  PROVE  LimitsInv'
<1> DEFINE c == req[r].client
           x == [req[r] EXCEPT !.pc = "code", !.since = now]
<1>1. /\ req[r] \in Progress /\ req[r].pc = "check" /\ now \in Nat /\ Scalars /\ Lockout \in Nat
      /\ UNCHANGED <<now, limits, restarts, kinds>>
  BY Present, Bounds DEF CheckLockout, LimitsInv
<1>2. CASE now < failed[c].until
  <2>1. req' = [req EXCEPT ![r] = Answered(req[r], "locked out")] /\ UNCHANGED failed
    BY <1>2 DEF CheckLockout, Becomes
  <2>2. Aside(r)
    BY <1>1, <2>1, OwnAnswerAside DEF Replies, Refusals
  <2> QED BY <1>1, <2>1, <2>2, QuietStepLimits
<1>3. CASE ~(now < failed[c].until)
  <2>1. req' = [req EXCEPT ![r] = x] /\ failed' \in {failed, [failed EXCEPT ![c] = NoFailure]}
    BY <1>3 DEF CheckLockout, Becomes
  <2>2. /\ x.pc = "code" /\ x.kind = req[r].kind /\ x.client = req[r].client /\ x.key = req[r].key
        /\ x.at = req[r].at /\ x.reply = req[r].reply /\ x.since = now
    BY <1>1 DEF Progress
  <2>3. /\ x.model = req[r].model /\ x.provider = req[r].provider /\ x.attempt = req[r].attempt
        /\ x.asked = req[r].asked
    BY <1>1 DEF Progress
  <2> HIDE DEF x, c
  <2>4. Aside(r)
    <3>1. x.since <= now
      BY <1>1, <2>2
    <3>2. CASE req' = [req EXCEPT ![r] = x]
      BY <1>1, <2>2, <2>3, <3>1, <3>2, MoveAside
    <3> QED BY <2>1, <3>2
  <2>5. NoFailure \in [count : Nat, until : Nat] /\ NoFailure.until <= now + Lockout
    BY <1>1 DEF NoFailure
  <2>6. /\ failed' \in [Clients -> [count : Nat, until : Nat]]
        /\ \A d \in Clients : failed'[d].until <= now + Lockout
    BY <1>1, <2>1, <2>5 DEF Scalars
  <2> QED BY <1>1, <2>4, <2>6, AsideStep
<1> QED BY <1>2, <1>3

LEMMA TryCodeLimits ==
  ASSUME CodeInv, LimitsInv, NEW r \in Requests, TryCode(r)
  PROVE  LimitsInv'
<1> DEFINE x == [req[r] EXCEPT !.pc = "paired", !.since = 0]
           y == [req[r] EXCEPT !.pc = "wrong"]
<1>1. /\ req[r] \in Progress /\ req[r].pc = "code" /\ now \in Nat /\ Scalars /\ Lockout \in Nat
      /\ UNCHANGED <<now, limits, restarts, kinds>> /\ req[r].since <= now
  BY Present, Bounds DEF TryCode, LimitsInv, Shape
<1>2. \/ req' = [req EXCEPT ![r] = x]
      \/ req' = [req EXCEPT ![r] = Answered(req[r], "paired")]
      \/ req' = [req EXCEPT ![r] = y]
  BY DEF TryCode, Becomes
<1>3. failed' \in {failed, [failed EXCEPT ![req[r].client] = NoFailure]}
  BY DEF TryCode
<1>4. /\ x.pc = "paired" /\ x.kind = req[r].kind /\ x.client = req[r].client /\ x.key = req[r].key
      /\ x.at = req[r].at /\ x.reply = req[r].reply /\ x.since = 0
  BY <1>1 DEF Progress
<1>5. /\ x.model = req[r].model /\ x.provider = req[r].provider /\ x.attempt = req[r].attempt
      /\ x.asked = req[r].asked
  BY <1>1 DEF Progress
<1>6. /\ y.pc = "wrong" /\ y.kind = req[r].kind /\ y.client = req[r].client /\ y.key = req[r].key
      /\ y.at = req[r].at /\ y.reply = req[r].reply /\ y.since = req[r].since
  BY <1>1 DEF Progress
<1>7. /\ y.model = req[r].model /\ y.provider = req[r].provider /\ y.attempt = req[r].attempt
      /\ y.asked = req[r].asked
  BY <1>1 DEF Progress
<1> HIDE DEF x, y
<1>8. ASSUME req' = [req EXCEPT ![r] = x]
      PROVE  Aside(r)
  <2>1. x.since <= now
    BY <1>1, <1>4
  <2> QED BY <1>1, <1>4, <1>5, <1>8, <2>1, MoveAside
<1>9. ASSUME req' = [req EXCEPT ![r] = y]
      PROVE  Aside(r)
  BY <1>1, <1>6, <1>7, <1>9, MoveAside
<1>10. ASSUME req' = [req EXCEPT ![r] = Answered(req[r], "paired")]
       PROVE  Aside(r)
  BY <1>1, <1>10, OwnAnswerAside DEF Replies, Refusals
<1>11. NoFailure \in [count : Nat, until : Nat] /\ NoFailure.until <= now + Lockout
  BY <1>1 DEF NoFailure
<1>12. /\ failed' \in [Clients -> [count : Nat, until : Nat]]
       /\ \A d \in Clients : failed'[d].until <= now + Lockout
  BY <1>1, <1>3, <1>11 DEF Scalars
<1>13. Aside(r)
  BY <1>2, <1>8, <1>9, <1>10
<1> QED BY <1>1, <1>12, <1>13, AsideStep

LEMMA CountFailureLimits ==
  ASSUME CodeInv, LimitsInv, NEW r \in Requests, CountFailure(r)
  PROVE  LimitsInv'
<1> DEFINE c == req[r].client
           count == failed[c].count + 1
           until == IF count >= MaxAttempts THEN req[r].since + Lockout ELSE failed[c].until
<1>1. /\ req[r] \in Progress /\ req[r].pc = "wrong" /\ now \in Nat /\ Scalars /\ Lockout \in Nat
      /\ UNCHANGED <<now, limits, restarts, kinds>> /\ req[r].since <= now /\ req[r].since \in Nat
  BY Present, Bounds DEF CountFailure, LimitsInv, Shape
<1>2. req' = [req EXCEPT ![r] = Answered(req[r], "invalid")]
  BY DEF CountFailure, Becomes
<1>3. Aside(r)
  BY <1>1, <1>2, OwnAnswerAside DEF Replies, Refusals
<1>4. failed' = [failed EXCEPT ![c] = [count |-> count, until |-> until]]
  BY DEF CountFailure
<1>5. /\ failed' \in [Clients -> [count : Nat, until : Nat]]
      /\ \A d \in Clients : failed'[d].until <= now + Lockout
  <2>1. CASE c \in Clients
    <3>1. failed[c].count \in Nat /\ failed[c].until \in Nat /\ failed[c].until <= now + Lockout
      BY <1>1, <2>1 DEF Scalars
    <3>2. count \in Nat
      BY <3>1
    <3>3. until \in Nat /\ until <= now + Lockout
      BY <1>1, <3>1
    <3> HIDE DEF count, until
    <3> QED BY <1>1, <1>4, <2>1, <3>2, <3>3 DEF Scalars
  <2>2. CASE c \notin Clients
    <3>1. failed' = failed
      BY <1>1, <1>4, <2>2 DEF Scalars
    <3> QED BY <1>1, <3>1 DEF Scalars
  <2> QED BY <2>1, <2>2
<1> QED BY <1>1, <1>3, <1>5, AsideStep

LEMMA PersistLimits ==
  ASSUME CodeInv, LimitsInv, NEW r \in Requests, Persist(r)
  PROVE  LimitsInv'
<1> DEFINE x == [req[r] EXCEPT !.pc = "saving", !.cfg = guard]
<1>1. /\ req[r] \in Progress /\ req[r].pc = "paired" /\ req' = [req EXCEPT ![r] = x]
      /\ UNCHANGED <<now, limits, restarts, kinds, failed>> /\ req[r].since <= now
  BY Present DEF Persist, Becomes, pairing, Shape
<1>2. /\ x.pc = "saving" /\ x.kind = req[r].kind /\ x.client = req[r].client /\ x.key = req[r].key
      /\ x.at = req[r].at /\ x.reply = req[r].reply /\ x.since = req[r].since
  BY <1>1 DEF Progress
<1>3. /\ x.model = req[r].model /\ x.provider = req[r].provider /\ x.attempt = req[r].attempt
      /\ x.asked = req[r].asked
  BY <1>1 DEF Progress
<1> HIDE DEF x
<1>4. Aside(r)
  BY <1>1, <1>2, <1>3, MoveAside
<1> QED BY <1>1, <1>4, QuietStepLimits

LEMMA PutConfigLimits ==
  ASSUME CodeInv, LimitsInv, NEW r \in Requests, PutConfig(r)
  PROVE  LimitsInv'
<1>1. PICK tokens : req' = [req EXCEPT ![r] = [req[r] EXCEPT !.pc = "saving", !.cfg = tokens]]
  BY DEF PutConfig, Becomes
<1> DEFINE x == [req[r] EXCEPT !.pc = "saving", !.cfg = tokens]
<1>2. /\ req[r] \in Progress /\ req[r].pc = "editing" /\ req' = [req EXCEPT ![r] = x]
      /\ UNCHANGED <<now, limits, restarts, kinds, failed>> /\ req[r].since <= now
  BY <1>1, Present DEF PutConfig, pairing, Shape
<1>3. /\ x.pc = "saving" /\ x.kind = req[r].kind /\ x.client = req[r].client /\ x.key = req[r].key
      /\ x.at = req[r].at /\ x.reply = req[r].reply /\ x.since = req[r].since
  BY <1>2 DEF Progress
<1>4. /\ x.model = req[r].model /\ x.provider = req[r].provider /\ x.attempt = req[r].attempt
      /\ x.asked = req[r].asked
  BY <1>2 DEF Progress
<1> HIDE DEF x
<1>5. Aside(r)
  BY <1>2, <1>3, <1>4, MoveAside
<1> QED BY <1>2, <1>5, QuietStepLimits

LEMMA SavingLimits ==
  ASSUME CodeInv, LimitsInv, NEW r \in Requests, Rename(r) \/ Saved(r) \/ SaveFails(r)
  PROVE  LimitsInv'
<1> DEFINE x == [req[r] EXCEPT !.pc = "saved"]
<1>1. /\ req[r] \in Progress /\ req[r].pc \in {"saving", "saved"}
      /\ UNCHANGED <<now, limits, restarts, kinds, failed>> /\ req[r].since <= now
  BY Present DEF Rename, Saved, SaveFails, pairing, Shape
<1>2. \/ req' = [req EXCEPT ![r] = x]
      \/ \E reply \in {"saved", "not saved"} : req' = [req EXCEPT ![r] = Answered(req[r], reply)]
  BY DEF Rename, Saved, SaveFails, Becomes
<1>3. /\ x.pc = "saved" /\ x.kind = req[r].kind /\ x.client = req[r].client /\ x.key = req[r].key
      /\ x.at = req[r].at /\ x.reply = req[r].reply /\ x.since = req[r].since
  BY <1>1 DEF Progress
<1>4. /\ x.model = req[r].model /\ x.provider = req[r].provider /\ x.attempt = req[r].attempt
      /\ x.asked = req[r].asked
  BY <1>1 DEF Progress
<1> HIDE DEF x
<1>5. CASE req' = [req EXCEPT ![r] = x]
  <2>1. Aside(r)
    BY <1>1, <1>3, <1>4, <1>5, MoveAside
  <2> QED BY <1>1, <2>1, QuietStepLimits
<1>6. ASSUME NEW reply \in {"saved", "not saved"}, req' = [req EXCEPT ![r] = Answered(req[r], reply)]
      PROVE  LimitsInv'
  <2>1. reply \in Replies /\ reply \notin Refusals /\ reply # "failed" /\ req[r].pc # "done"
    BY <1>1, <1>6 DEF Replies, Refusals
  <2>2. Aside(r)
    BY <1>6, <2>1, OwnAnswerAside
  <2> QED BY <1>1, <2>2, QuietStepLimits
<1> QED BY <1>2, <1>5, <1>6

LEMMA GetConfigLimits ==
  ASSUME CodeInv, LimitsInv, NEW r \in Requests, GetConfig(r)
  PROVE  LimitsInv'
<1> DEFINE x == [New EXCEPT !.kind = "config", !.pc = "editing", !.listed = Cardinality(mem)]
<1>1. /\ req \in [Requests -> Progress] /\ req[r].pc = "new" /\ req' = [req EXCEPT ![r] = x] /\ req[r].kind = None
      /\ UNCHANGED <<now, limits, restarts, kinds, failed>> /\ now \in Nat
  BY Present DEF GetConfig, Becomes, pairing, Shape
<1>2. /\ x.kind = "config" /\ x.pc = "editing" /\ x.reply = None /\ x.at = 0 /\ x.since = 0
      /\ x.model = 1 /\ x.provider = 1 /\ x.attempt = 0
  BY DEF New
<1> HIDE DEF x
<1>3. Shape(x)
  BY <1>1, <1>2, Bounds DEF Shape
<1>4. Same(req[r], x)
  BY <1>1, <1>2, Bounds DEF Same, Limited, Kinds
<1>5. req'[r] = x /\ \A s \in Requests \ {r} : req'[s] = req[s]
  BY <1>1
<1>6. Aside(r)
  BY <1>3, <1>4, <1>5 DEF Aside
<1> QED BY <1>1, <1>6, QuietStepLimits

LEMMA TimeoutLimits ==
  ASSUME CodeInv, LimitsInv, NEW r \in Requests, Timeout(r)
  PROVE  LimitsInv'
<1> DEFINE x == [req[r] EXCEPT !.live = FALSE]
<1>1. /\ req[r] \in Progress /\ req[r].pc \in {"preparing", "chat", "check", "code", "wrong", "paired", "saving", "saved"}
      /\ UNCHANGED <<now, limits, restarts, kinds, failed>> /\ req[r].since <= now
  BY Present DEF Timeout, pairing, Shape
<1>2. /\ x.pc = req[r].pc /\ x.kind = req[r].kind /\ x.client = req[r].client /\ x.key = req[r].key
      /\ x.at = req[r].at /\ x.reply = req[r].reply /\ x.since = req[r].since
  BY <1>1 DEF Progress
<1>3. /\ x.model = req[r].model /\ x.provider = req[r].provider /\ x.attempt = req[r].attempt
      /\ x.asked = req[r].asked
  BY <1>1 DEF Progress
<1>4. \/ req' = [req EXCEPT ![r] = x]
      \/ req' = [req EXCEPT ![r] = Answered(req[r], "timeout")]
  BY DEF Timeout, Becomes
<1> HIDE DEF x
<1>5. Aside(r)
  <2>1. CASE req' = [req EXCEPT ![r] = x]
    BY <1>1, <1>2, <1>3, <2>1, MoveAside
  <2>2. CASE req' = [req EXCEPT ![r] = Answered(req[r], "timeout")]
    BY <1>1, <2>2, OwnAnswerAside DEF Replies, Refusals
  <2> QED BY <1>4, <2>1, <2>2
<1> QED BY <1>1, <1>5, QuietStepLimits

-----------------------------------------------------------------------------
(* Steps that let a request in. *)

LEMMA Sizes ==
  ASSUME NEW S, NEW T, S \subseteq Requests, T \subseteq S
  PROVE  /\ IsFiniteSet(S) /\ Cardinality(S) \in Nat /\ Cardinality(T) \in Nat /\ Cardinality(T) <= Cardinality(S)
         /\ \A r \in Requests : Cardinality(T \cup {r}) \in Nat /\ Cardinality(T \cup {r}) <= Cardinality(T) + 1
<1>1. IsFiniteSet(S)
  BY Bounds, FS_Subset
<1>2. IsFiniteSet(T) /\ Cardinality(T) <= Cardinality(S)
  BY <1>1, FS_Subset
<1>3. Cardinality(S) \in Nat /\ Cardinality(T) \in Nat
  BY <1>1, <1>2, FS_CardinalityType
<1>4. ASSUME NEW r \in Requests
      PROVE  Cardinality(T \cup {r}) \in Nat /\ Cardinality(T \cup {r}) <= Cardinality(T) + 1
  <2>1. CASE r \in T
    <3> DEFINE U == T \cup {r}
    <3>1. U = T
      BY <2>1
    <3> HIDE DEF U
    <3>2. Cardinality(U) \in Nat /\ Cardinality(U) <= Cardinality(T) + 1
      BY <1>3, <3>1
    <3> QED BY <3>2 DEF U
  <2>2. CASE r \notin T
    <3>1. Cardinality(T \cup {r}) = Cardinality(T) + 1
      BY <1>2, <2>2, FS_AddElement
    <3> QED BY <1>3, <3>1
  <2> QED BY <2>1, <2>2
<1> QED BY <1>1, <1>2, <1>3, <1>4

(* The times that are held show that one more request keeps to the limit   *)
(* in every window it is in.                                               *)
LEMMA CountTimes ==
  ASSUME CodeInv, LimitsInv, NEW r \in Requests, req[r].kind = None,
         NEW kind \in Limited, NEW c \in Clients, Allowed(kind, c), Count(kind, c, r),
         NEW x, req' = [req EXCEPT ![r] = x], UNCHANGED now,
         x.kind = kind, x.client = c, x.at = now, x.reply # "limited"
  PROVE  Times' /\ evicted' \subseteq Clients
<1> DEFINE held(k, d) == Recent(rate[k][d])
<1>1. PICK out \in Evictable(kind, c) :
        /\ rate' = [rate EXCEPT ![kind] = [d \in Clients |->
                      IF d = out THEN {} ELSE IF d = c THEN Recent(@[d]) \cup {r} ELSE Recent(@[d])]]
        /\ evicted' = evicted \cup ({out} \ {None})
  BY DEF Count
<1>2. /\ rate \in [Limited -> [Clients -> SUBSET Requests]]
      /\ req \in [Requests -> Progress] /\ now \in Nat /\ Window \in Nat /\ Limit \in Nat /\ Limit > 0
      /\ None \notin Clients /\ evicted \subseteq Clients
  BY Present, Bounds DEF LimitsInv, Times, Scalars
<1>3. req'[r] = x /\ \A s \in Requests \ {r} : req'[s] = req[s]
  BY <1>2
<1>4. \A k \in Limited, d \in Clients : /\ held(k, d) \subseteq rate[k][d]
                                        /\ \A s \in rate[k][d] : req[s].at + Window > now => s \in held(k, d)
  BY DEF Recent
<1>5. Cardinality(held(kind, c)) < Limit
  BY DEF Allowed
<1>6. ASSUME NEW k \in Limited, NEW d \in Clients
      PROVE  /\ rate'[k][d] \subseteq Requests
             /\ \/ rate'[k][d] \subseteq rate[k][d]
                \/ k = kind /\ d = c /\ rate'[k][d] = held(kind, c) \cup {r}
             /\ d # out => held(k, d) \subseteq rate'[k][d] /\ (k = kind /\ d = c => r \in rate'[k][d])
  <2> HIDE DEF held
  <2>1. CASE k # kind
    BY <1>1, <1>2, <1>4, <2>1
  <2>2. CASE k = kind /\ d = out
    <3>1. rate'[k][d] = {}
      BY <1>1, <1>2, <2>2
    <3> QED BY <2>2, <3>1
  <2>3. CASE k = kind /\ d # out /\ d = c
    <3>1. rate'[k][d] = held(kind, c) \cup {r}
      BY <1>1, <1>2, <2>3 DEF held
    <3> QED BY <1>2, <1>4, <2>3, <3>1
  <2>4. CASE k = kind /\ d # out /\ d # c
    <3>1. rate'[k][d] = held(k, d)
      BY <1>1, <1>2, <2>4 DEF held
    <3> QED BY <1>2, <1>4, <2>4, <3>1
  <2> QED BY <2>1, <2>2, <2>3, <2>4
<1>7. rate' \in [Limited -> [Clients -> SUBSET Requests]]
  <2>1. /\ DOMAIN rate' = Limited /\ \A k \in Limited : DOMAIN rate'[k] = Clients
        /\ rate' = [k \in Limited |-> rate'[k]] /\ \A k \in Limited : rate'[k] = [d \in Clients |-> rate'[k][d]]
    BY <1>1, <1>2
  <2> QED BY <1>6, <2>1
<1> HIDE DEF held
<1>8. ASSUME NEW k \in Limited, NEW d \in Clients
      PROVE  Cardinality(rate'[k][d]) <= Limit
  <2>1. rate[k][d] \subseteq Requests /\ Cardinality(rate[k][d]) <= Limit /\ held(kind, c) \subseteq Requests
    BY <1>2, <1>4 DEF LimitsInv, Times
  <2>2. CASE rate'[k][d] \subseteq rate[k][d]
    <3>1. /\ Cardinality(rate[k][d]) \in Nat /\ Cardinality(rate'[k][d]) \in Nat
          /\ Cardinality(rate'[k][d]) <= Cardinality(rate[k][d])
      BY <2>1, <2>2, Sizes
    <3> QED BY <1>2, <2>1, <3>1
  <2>3. CASE rate'[k][d] = held(kind, c) \cup {r}
    <3>1. /\ Cardinality(held(kind, c)) \in Nat /\ Cardinality(held(kind, c) \cup {r}) \in Nat
          /\ Cardinality(held(kind, c) \cup {r}) <= Cardinality(held(kind, c)) + 1
      BY <2>1, Sizes
    <3> QED BY <1>2, <1>5, <2>3, <3>1
  <2> QED BY <1>6, <2>2, <2>3
<1>9. ASSUME NEW k \in Limited, NEW d \in Clients
      PROVE  \A s \in LetIn(k, d)' : (s \in LetIn(k, d) /\ s # r) \/ (s = r /\ k = kind /\ d = c)
  <2>1. k # None
    BY Bounds DEF Limited, Kinds
  <2>2. ASSUME NEW s \in LetIn(k, d)'
        PROVE  (s \in LetIn(k, d) /\ s # r) \/ (s = r /\ k = kind /\ d = c)
    <3>1. s \in Requests /\ req'[s].kind = k /\ req'[s].client = d /\ req'[s].reply # "limited"
      BY <2>2 DEF LetIn
    <3>2. CASE s = r
      BY <1>3, <3>1, <3>2
    <3>3. CASE s # r
      BY <1>3, <3>1, <3>3 DEF LetIn
    <3> QED BY <3>2, <3>3
  <2> QED BY <2>2
<1>10. ASSUME NEW k \in Limited, NEW d \in Clients, d \notin evicted'
       PROVE  /\ \A s \in LetIn(k, d)' : req'[s].at + Window > now' => s \in rate'[k][d]
              /\ \A from \in Nat : Cardinality(LetInFrom(k, d, from)') <= Limit
  <2>1. d \notin evicted /\ d # out
    BY <1>1, <1>2, <1>10
  <2>2. /\ \A s \in LetIn(k, d) : req[s].at + Window > now => s \in rate[k][d]
        /\ \A from \in Nat : Cardinality(LetInFrom(k, d, from)) <= Limit
    BY <2>1 DEF LimitsInv, Times
  <2>3. \A s \in LetIn(k, d) : req[s].at + Window > now => s \in held(k, d)
    BY <1>4, <2>2
  <2>4. ASSUME NEW s \in LetIn(k, d)', req'[s].at + Window > now'
        PROVE  s \in rate'[k][d]
    <3>1. CASE s # r
      <4>1. s \in LetIn(k, d) /\ s \in Requests
        BY <1>9, <3>1 DEF LetIn
      <4>2. req'[s] = req[s]
        BY <1>3, <3>1, <4>1
      <4> QED BY <1>6, <2>1, <2>3, <2>4, <4>1, <4>2
    <3>2. CASE s = r
      BY <1>6, <1>9, <2>1, <3>2
    <3> QED BY <3>1, <3>2
  <2>5. ASSUME NEW from \in Nat
        PROVE  Cardinality(LetInFrom(k, d, from)') <= Limit
    <3>1. LetInFrom(k, d, from) \subseteq Requests /\ Cardinality(LetInFrom(k, d, from)) <= Limit
      BY <2>2 DEF LetInFrom, LetIn
    <3>2. \A s \in LetInFrom(k, d, from)' : s # r => s \in LetInFrom(k, d, from)
      <4> SUFFICES ASSUME NEW s \in LetInFrom(k, d, from)', s # r
                   PROVE  s \in LetInFrom(k, d, from)
        OBVIOUS
      <4>1. s \in LetIn(k, d)' /\ req'[s].at \in from..(from + Window - 1)
        BY DEF LetInFrom
      <4>2. s \in LetIn(k, d) /\ s \in Requests
        BY <1>9, <4>1 DEF LetIn
      <4> QED BY <1>3, <4>1, <4>2 DEF LetInFrom
    <3>3. CASE r \notin LetInFrom(k, d, from)'
      <4>1. LetInFrom(k, d, from)' \subseteq LetInFrom(k, d, from)
        BY <3>2, <3>3
      <4>2. /\ Cardinality(LetInFrom(k, d, from)) \in Nat /\ Cardinality(LetInFrom(k, d, from)') \in Nat
            /\ Cardinality(LetInFrom(k, d, from)') <= Cardinality(LetInFrom(k, d, from))
        BY <3>1, <4>1, Sizes
      <4> QED BY <1>2, <3>1, <4>2
    <3>4. CASE r \in LetInFrom(k, d, from)'
      <4>1. k = kind /\ d = c /\ now \in from..(from + Window - 1)
        <5>1. r \in LetIn(k, d)' /\ req'[r].at \in from..(from + Window - 1)
          BY <3>4 DEF LetInFrom
        <5> QED BY <1>3, <1>9, <5>1
      <4>2. LetInFrom(k, d, from) \subseteq held(kind, c)
        <5> SUFFICES ASSUME NEW s \in LetInFrom(k, d, from)
                     PROVE  s \in held(kind, c)
          OBVIOUS
        <5>1. s \in LetIn(k, d) /\ req[s].at \in from..(from + Window - 1)
          BY DEF LetInFrom
        <5>2. req[s].at + Window > now
          BY <1>2, <4>1, <5>1
        <5> QED BY <2>3, <4>1, <5>1, <5>2
      <4>3. LetInFrom(k, d, from)' \subseteq held(kind, c) \cup {r} /\ held(kind, c) \subseteq Requests
        BY <1>2, <1>4, <3>2, <4>2
      <4>4. /\ Cardinality(held(kind, c)) \in Nat /\ Cardinality(held(kind, c) \cup {r}) \in Nat
            /\ Cardinality(held(kind, c) \cup {r}) <= Cardinality(held(kind, c)) + 1
        BY <4>3, Sizes
      <4>5. held(kind, c) \cup {r} \subseteq Requests
        BY <4>3
      <4>6. /\ Cardinality(LetInFrom(k, d, from)') \in Nat
            /\ Cardinality(LetInFrom(k, d, from)') <= Cardinality(held(kind, c) \cup {r})
        BY <4>3, <4>5, Sizes
      <4> QED BY <1>2, <1>5, <4>4, <4>6
    <3> QED BY <3>3, <3>4
  <2> QED BY <2>4, <2>5
<1>11. \A k \in Limited, d \in Clients : d \notin evicted' =>
         /\ \A s \in LetIn(k, d)' : req'[s].at + Window > now' => s \in rate'[k][d]
         /\ \A from \in Nat : Cardinality(LetInFrom(k, d, from)') <= Limit
  BY <1>10
<1>12. Times'
  BY <1>7, <1>8, <1>11 DEF Times
<1>13. out \in Clients \cup {None}
  BY DEF Evictable, Tracked
<1> QED BY <1>1, <1>2, <1>12, <1>13

(* A key that is not known was not passed on in its time to live.          *)
LEMMA RecordKeys ==
  ASSUME CodeInv, LimitsInv, NEW r \in Requests, req[r].kind = None,
         NEW k \in Keys, k \notin Known, Record(k),
         NEW x, req' = [req EXCEPT ![r] = x], UNCHANGED now, x.key = k, x.at = now
  PROVE  KeysHeld' /\ ProcessedOnce' /\ forgotten' \subseteq Keys
<1>1. PICK out \in Keys \cup {None} :
        /\ seen' = [l \in Keys |-> IF l = k THEN now ELSE IF l \in Known \ {out} THEN seen[l] ELSE None]
        /\ forgotten' = forgotten \cup ({out} \ {None})
  BY DEF Record, Known
<1>2. /\ req \in [Requests -> Progress] /\ now \in Nat /\ Ttl \in Nat /\ None \notin Keys /\ None \notin Nat
      /\ seen \in [Keys -> (0..now) \cup {None}] /\ forgotten \subseteq Keys
      /\ \A s \in Requests : req[s].at \in Nat
  BY Present, Bounds DEF LimitsInv, KeysHeld, Scalars, Progress
<1>3. req'[r] = x /\ \A s \in Requests \ {r} : req'[s] = req[s]
  BY <1>2
<1>4. ASSUME NEW s \in Requests \ {r}, PassedOn(s)', req'[s].key \in Keys \ forgotten'
      PROVE  /\ PassedOn(s) /\ req[s].key \in Keys \ forgotten /\ req[s].key # out
             /\ seen[req[s].key] = req[s].at \/ req[s].at + Ttl <= now
  <2>1. PassedOn(s) /\ req[s].key \in Keys \ forgotten'
    BY <1>3, <1>4 DEF PassedOn
  <2>2. req[s].key \in Keys \ forgotten /\ req[s].key # out
    BY <1>1, <1>2, <2>1
  <2> QED BY <2>1, <2>2 DEF LimitsInv, KeysHeld
<1>5. ASSUME NEW s \in Requests \ {r}, PassedOn(s)', req'[s].key \in Keys \ forgotten', req'[s].key = k
      PROVE  req[s].at + Ttl <= now
  <2>1. req[s].key = k
    BY <1>3, <1>5
  <2>2. seen[k] = req[s].at \/ req[s].at + Ttl <= now
    BY <1>4, <1>5, <2>1
  <2>3. seen[k] = req[s].at => ~(now < req[s].at + Ttl)
    BY <1>2 DEF Known
  <2> QED BY <1>2, <2>2, <2>3
<1>6. KeysHeld'
  <2>1. seen' \in [Keys -> (0..now') \cup {None}]
    BY <1>1, <1>2
  <2>2. ASSUME NEW s \in Requests, PassedOn(s)', req'[s].key \in Keys \ forgotten'
        PROVE  seen'[req'[s].key] = req'[s].at \/ req'[s].at + Ttl <= now'
    <3>1. CASE s = r
      BY <1>1, <1>3, <3>1
    <3>2. CASE s # r /\ req'[s].key = k
      BY <1>3, <1>5, <2>2, <3>2
    <3>3. CASE s # r /\ req'[s].key # k
      <4> DEFINE l == req[s].key
      <4>1. req'[s] = req[s] /\ l \in Keys /\ l # out /\ l # k /\ (seen[l] = req[s].at \/ req[s].at + Ttl <= now)
        BY <1>3, <1>4, <2>2, <3>3
      <4>2. CASE l \in Known
        <5>1. seen'[l] = seen[l]
          BY <1>1, <4>1, <4>2
        <5> QED BY <4>1, <5>1
      <4>3. CASE l \notin Known
        <5>1. seen[l] = req[s].at => ~(now < req[s].at + Ttl)
          BY <1>2, <4>1, <4>3 DEF Known
        <5>2. req[s].at + Ttl <= now
          BY <1>2, <4>1, <5>1
        <5> QED BY <4>1, <5>2
      <4> QED BY <4>2, <4>3
    <3> QED BY <3>1, <3>2, <3>3
  <2> QED BY <2>1, <2>2 DEF KeysHeld
<1>7. ProcessedOnce'
  <2> SUFFICES ASSUME NEW s \in Requests, NEW t \in Requests, s # t, PassedOn(s)', PassedOn(t)',
                      req'[s].key = req'[t].key, req'[s].key \in Keys \ forgotten'
               PROVE  req'[s].at + Ttl <= req'[t].at \/ req'[t].at + Ttl <= req'[s].at
    BY DEF ProcessedOnce
  <2>1. CASE s = r
    BY <1>3, <1>5, <2>1
  <2>2. CASE t = r
    BY <1>3, <1>5, <2>2
  <2>3. CASE s # r /\ t # r
    <3>1. req'[s] = req[s] /\ req'[t] = req[t]
      BY <1>3, <2>3
    <3>2. PassedOn(s) /\ PassedOn(t) /\ req[s].key \in Keys \ forgotten /\ req[s].key = req[t].key
      BY <1>4, <2>3, <3>1
    <3> QED BY <3>1, <3>2 DEF LimitsInv, ProcessedOnce
  <2> QED BY <2>1, <2>2, <2>3
<1> QED BY <1>1, <1>2, <1>6, <1>7

LEMMA EntryStep ==
  ASSUME CodeInv, LimitsInv, NEW r \in Requests, NEW x, req' = [req EXCEPT ![r] = x], Shape(x),
         UNCHANGED <<now, restarts, kinds, failed>>,
         Times', evicted' \subseteq Clients, KeysHeld', ProcessedOnce', forgotten' \subseteq Keys
  PROVE  LimitsInv'
<1>1. Scalars /\ (\A s \in Requests : Shape(req[s])) /\ req \in [Requests -> Progress]
  BY Present DEF LimitsInv
<1>2. Scalars'
  BY <1>1 DEF Scalars
<1>3. \A s \in Requests : req'[s] = x \/ req'[s] = req[s]
  BY <1>1
<1>4. \A s \in Requests : Shape(req[s])'
  BY <1>1, <1>3 DEF Shape, AskedBefore
<1> QED BY <1>2, <1>4 DEF LimitsInv

(* A request that is refused is not passed on, nor one without a key held. *)
LEMMA RefusedKeys ==
  ASSUME CodeInv, LimitsInv, NEW r \in Requests, NEW x, req' = [req EXCEPT ![r] = x],
         UNCHANGED <<now, seen, forgotten>>, x.kind # "webhook" \/ x.reply \in Refusals \/ x.key \notin Keys
  PROVE  KeysHeld' /\ ProcessedOnce' /\ forgotten' \subseteq Keys
<1>1. req \in [Requests -> Progress] /\ forgotten \subseteq Keys
  BY Present DEF LimitsInv, Scalars
<1>2. ASSUME NEW s \in Requests, PassedOn(s)', req'[s].key \in Keys
      PROVE  PassedOn(s) /\ req'[s].key = req[s].key /\ req'[s].at = req[s].at
  <2>1. s # r
    BY <1>1, <1>2 DEF PassedOn, Refusals
  <2>2. req'[s] = req[s]
    BY <1>1, <2>1
  <2> QED BY <1>2, <2>2 DEF PassedOn
<1>3. KeysHeld' /\ ProcessedOnce'
  BY <1>2, KeysKept
<1> QED BY <1>1, <1>3

LEMMA LimitedStep ==
  ASSUME CodeInv, LimitsInv, NEW r \in Requests, req[r].pc = "new", NEW q \in Progress, q.live, q.at <= now,
         req' = [req EXCEPT ![r] = Answered(q, "limited")],
         UNCHANGED <<now, limits, restarts, kinds, failed>>
  PROVE  LimitsInv'
<1> DEFINE x == Answered(q, "limited")
<1>1. req \in [Requests -> Progress] /\ req[r].kind = None /\ now \in Nat /\ None \notin Limited
  BY Present, Bounds DEF Shape, Limited, Kinds
<1>2. Shape(x) /\ x.reply = "limited"
  BY <1>1, AnsweredShape DEF Replies
<1> HIDE DEF x
<1>3. req'[r] = x /\ \A s \in Requests \ {r} : req'[s] = req[s]
  BY <1>1 DEF x
<1>4. Aside(r)
  BY <1>1, <1>2, <1>3 DEF Aside, Same
<1> QED BY <1>4, QuietStepLimits

LEMMA WebhookLimits ==
  ASSUME CodeInv, LimitsInv, NEW r \in Requests, NEW c \in Clients, NEW k \in Keys \cup {None}, Webhook(r, c, k)
  PROVE  LimitsInv'
<1> DEFINE q == [New EXCEPT !.kind = "webhook", !.client = c, !.at = now]
           x == [q EXCEPT !.pc = "preparing", !.key = k]
<1>1. /\ req[r].pc = "new" /\ req[r].kind = None /\ now \in Nat
      /\ UNCHANGED <<now, restarts, kinds, failed>> /\ "webhook" \in Limited
  BY Present DEF Webhook, pairing, Shape, Limited
<1>2. q \in Progress
  BY <1>1, NewFields DEF Progress, Kinds
<1>3. /\ q.kind = "webhook" /\ q.client = c /\ q.at = now /\ q.live = TRUE /\ q.reply = None
      /\ q.since = 0 /\ q.model = 1 /\ q.provider = 1 /\ q.attempt = 0 /\ q.asked = {}
  BY DEF New
<1> HIDE DEF q
<1>4. /\ x.pc = "preparing" /\ x.kind = "webhook" /\ x.client = c /\ x.key = k /\ x.at = now /\ x.reply = None
      /\ x.since = 0
  BY <1>2, <1>3 DEF Progress
<1>5. x.model = 1 /\ x.provider = 1 /\ x.attempt = 0 /\ x.asked = {}
  BY <1>2, <1>3 DEF Progress
<1> HIDE DEF x
<1>6. Shape(x)
  <2>1. AskedBefore(x)
    BY <1>5 DEF AskedBefore
  <2>2. x.at <= now /\ x.since <= now /\ x.model \in 1..Models /\ x.provider \in 1..Providers /\ x.attempt \in 0..MaxRetries
    BY <1>1, <1>4, <1>5, Bounds
  <2>3. None # "failed"
    BY Bounds DEF Replies
  <2> QED BY <1>4, <2>1, <2>2, <2>3 DEF Shape
<1>7. CASE req' = [req EXCEPT ![r] = Answered(q, "limited")] /\ UNCHANGED limits
  <2>1. q.live /\ q.at <= now
    BY <1>1, <1>3
  <2> QED BY <1>1, <1>2, <1>7, <2>1, LimitedStep
<1>8. ASSUME Allowed("webhook", c), Count("webhook", c, r), UNCHANGED <<seen, forgotten>>,
             NEW reply \in {"unauthorized", "duplicate"}, req' = [req EXCEPT ![r] = Answered(q, reply)]
      PROVE  LimitsInv'
  <2> DEFINE y == Answered(q, reply)
  <2>1. reply \in Replies /\ reply \in Refusals /\ reply # "limited" /\ reply # "failed"
    BY DEF Replies, Refusals
  <2>2. Shape(y) /\ y.kind = "webhook" /\ y.client = c /\ y.at = now /\ y.reply = reply
    BY <1>1, <1>2, <1>3, <2>1, AnsweredShape
  <2> HIDE DEF y
  <2>3. req' = [req EXCEPT ![r] = y]
    BY <1>8 DEF y
  <2>4. Times' /\ evicted' \subseteq Clients
    BY <1>1, <1>8, <2>1, <2>2, <2>3, CountTimes
  <2>5. KeysHeld' /\ ProcessedOnce' /\ forgotten' \subseteq Keys
    BY <1>1, <1>8, <2>1, <2>2, <2>3, RefusedKeys
  <2> QED BY <1>1, <2>2, <2>3, <2>4, <2>5, EntryStep
<1>9. ASSUME Allowed("webhook", c), Count("webhook", c, r), req' = [req EXCEPT ![r] = x], k \notin Known,
             IF k = None THEN UNCHANGED <<seen, forgotten>> ELSE Record(k)
      PROVE  LimitsInv'
  <2>1. x.reply # "limited"
    BY <1>4, Bounds DEF Replies
  <2>2. Times' /\ evicted' \subseteq Clients
    BY <1>1, <1>4, <1>9, <2>1, CountTimes
  <2>3. KeysHeld' /\ ProcessedOnce' /\ forgotten' \subseteq Keys
    <3>1. CASE k = None
      <4>1. x.key \notin Keys /\ UNCHANGED <<seen, forgotten>>
        BY <1>4, <1>9, <3>1, Bounds
      <4> QED BY <1>1, <1>9, <4>1, RefusedKeys
    <3>2. CASE k # None
      BY <1>1, <1>4, <1>9, <3>2, RecordKeys
    <3> QED BY <3>1, <3>2
  <2> QED BY <1>1, <1>6, <1>9, <2>2, <2>3, EntryStep
<1>10. \/ req' = [req EXCEPT ![r] = Answered(q, "limited")] /\ UNCHANGED limits
       \/ /\ Allowed("webhook", c) /\ Count("webhook", c, r) /\ UNCHANGED <<seen, forgotten>>
          /\ \E reply \in {"unauthorized", "duplicate"} : req' = [req EXCEPT ![r] = Answered(q, reply)]
       \/ /\ Allowed("webhook", c) /\ Count("webhook", c, r) /\ req' = [req EXCEPT ![r] = x] /\ k \notin Known
          /\ IF k = None THEN UNCHANGED <<seen, forgotten>> ELSE Record(k)
  BY DEF Webhook, Becomes, q, x
<1> QED BY <1>7, <1>8, <1>9, <1>10

LEMMA PairLimits ==
  ASSUME CodeInv, LimitsInv, NEW r \in Requests, NEW c \in Clients, Pair(r, c)
  PROVE  LimitsInv'
<1> DEFINE q == [New EXCEPT !.kind = "pair", !.client = c, !.at = now]
<1>1. /\ req[r].pc = "new" /\ req[r].kind = None /\ now \in Nat
      /\ UNCHANGED <<now, restarts, kinds, failed>> /\ "pair" \in Limited
  BY Present DEF Pair, pairing, Shape, Limited
<1>2. q \in Progress
  BY <1>1, NewFields DEF Progress, Kinds
<1>3. /\ q.kind = "pair" /\ q.client = c /\ q.at = now /\ q.live = TRUE /\ q.reply = None
      /\ q.since = 0 /\ q.model = 1 /\ q.provider = 1 /\ q.attempt = 0
  BY DEF New
<1> HIDE DEF q
<1>4. CASE req' = [req EXCEPT ![r] = Answered(q, "limited")] /\ UNCHANGED limits
  <2>1. q.live /\ q.at <= now
    BY <1>1, <1>3
  <2> QED BY <1>1, <1>2, <1>4, <2>1, LimitedStep
<1>5. ASSUME Allowed("pair", c), Count("pair", c, r), UNCHANGED <<seen, forgotten>>,
             NEW guess \in {code, 0}, req' = [req EXCEPT ![r] = [q EXCEPT !.pc = "check", !.code = guess]]
      PROVE  LimitsInv'
  <2> DEFINE x == [q EXCEPT !.pc = "check", !.code = guess]
  <2>1. /\ x.pc = "check" /\ x.kind = "pair" /\ x.client = c /\ x.at = now /\ x.reply = None /\ x.since = 0
        /\ x.model = 1 /\ x.provider = 1 /\ x.attempt = 0
    BY <1>2, <1>3 DEF Progress
  <2>2. req' = [req EXCEPT ![r] = x]
    BY <1>5
  <2> HIDE DEF x
  <2>3. Shape(x)
    BY <1>1, <2>1, Bounds DEF Shape
  <2>4. x.reply # "limited" /\ x.kind # "webhook"
    BY <2>1, Bounds DEF Replies
  <2>5. Times' /\ evicted' \subseteq Clients
    <3>1. Allowed("pair", c) /\ Count("pair", c, r) /\ UNCHANGED now
      BY <1>1, <1>5
    <3> QED BY <1>1, <2>1, <2>2, <2>4, <3>1, CountTimes
  <2>6. KeysHeld' /\ ProcessedOnce' /\ forgotten' \subseteq Keys
    BY <1>1, <1>5, <2>2, <2>4, RefusedKeys
  <2> QED BY <1>1, <2>2, <2>3, <2>5, <2>6, EntryStep
<1>6. \/ req' = [req EXCEPT ![r] = Answered(q, "limited")] /\ UNCHANGED limits
      \/ /\ Allowed("pair", c) /\ Count("pair", c, r) /\ UNCHANGED <<seen, forgotten>>
         /\ \E guess \in {code, 0} : req' = [req EXCEPT ![r] = [q EXCEPT !.pc = "check", !.code = guess]]
  BY DEF Pair, Becomes, q
<1> QED BY <1>4, <1>5, <1>6

-----------------------------------------------------------------------------
(* Steps of nobody, and all of them together. *)

LEMMA ClockLimits ==
  ASSUME CodeInv, LimitsInv, now' \in Nat, now <= now', now' <= Horizon,
         UNCHANGED <<limits, failed, req, restarts, kinds>>
  PROVE  LimitsInv'
<1>1. /\ now \in Nat /\ Lockout \in Nat /\ Window \in Nat /\ Ttl \in Nat
      /\ Scalars /\ (\A s \in Requests : Shape(req[s])) /\ Times /\ KeysHeld /\ ProcessedOnce
      /\ UNCHANGED <<rate, seen, evicted, forgotten>>
      /\ \A s \in Requests : req[s].at \in Nat /\ req[s].since \in Nat
  BY Bounds DEF CodeInv, Fields, LimitsInv, limits, Progress
<1>2. Scalars'
  BY <1>1 DEF Scalars
<1>3. \A s \in Requests : Shape(req[s])'
  BY <1>1 DEF Shape, AskedBefore
<1>4. Times'
  <2>1. \A kind \in Limited, c \in Clients : LetIn(kind, c)' = LetIn(kind, c)
    BY DEF LetIn
  <2>2. \A kind \in Limited, c \in Clients : \A from : LetInFrom(kind, c, from)' = LetInFrom(kind, c, from)
    BY <2>1 DEF LetInFrom
  <2>3. \A s \in Requests : req[s].at + Window > now' => req[s].at + Window > now
    BY <1>1
  <2>4. \A kind \in Limited, c \in Clients : LetIn(kind, c) \subseteq Requests
    BY DEF LetIn
  <2> QED BY <1>1, <2>1, <2>2, <2>3, <2>4 DEF Times
<1>5. KeysHeld'
  <2>1. seen' \in [Keys -> (0..now') \cup {None}]
    BY <1>1 DEF KeysHeld
  <2>2. \A s \in Requests : req[s].at + Ttl <= now => req[s].at + Ttl <= now'
    BY <1>1
  <2> QED BY <1>1, <2>1, <2>2 DEF KeysHeld, PassedOn
<1>6. ProcessedOnce'
  BY <1>1 DEF ProcessedOnce, PassedOn
<1> QED BY <1>2, <1>3, <1>4, <1>5, <1>6 DEF LimitsInv

LEMMA RestartLimits ==
  ASSUME CodeInv, LimitsInv, Restart
  PROVE  LimitsInv'
<1>1. /\ now \in Nat /\ Lockout \in Nat /\ Limit \in Nat /\ Scalars /\ restarts < MaxRestarts
      /\ MaxRestarts \in Nat
      /\ UNCHANGED <<now, kinds>> /\ restarts' = restarts + 1
      /\ failed' = [c \in Clients |-> NoFailure]
      /\ rate' = [kind \in {"webhook", "pair"} |-> [c \in Clients |-> {}]]
      /\ seen' = [k \in Keys |-> None] /\ evicted' = Clients /\ forgotten' = Keys
  BY Bounds DEF CodeInv, Fields, LimitsInv, Restart
<1>2. Scalars'
  <2>1. NoFailure \in [count : Nat, until : Nat] /\ NoFailure.until <= now + Lockout
    BY <1>1 DEF NoFailure
  <2> QED BY <1>1, <2>1 DEF Scalars
<1>3. ASSUME NEW s \in Requests
      PROVE  Shape(req[s])'
  <2>1. req[s] \in Progress /\ Shape(req[s]) /\ req[s].at <= now
    BY Present
  <2>2. req'[s] \in {req[s], Answered(req[s], "timeout")}
    BY DEF Restart
  <2>3. Shape(Answered(req[s], "timeout"))
    BY <1>1, <2>1, AnsweredShape DEF Replies
  <2>4. Shape(req'[s])
    BY <2>1, <2>2, <2>3
  <2> QED BY <1>1, <2>4 DEF Shape, AskedBefore
<1>4. Times'
  <2>1. Cardinality({}) = 0
    BY FS_EmptySet
  <2> QED BY <1>1, <2>1 DEF Times, Limited
<1>5. KeysHeld'
  BY <1>1 DEF KeysHeld
<1>6. ProcessedOnce'
  BY <1>1 DEF ProcessedOnce
<1> QED BY <1>2, <1>3, <1>4, <1>5, <1>6 DEF LimitsInv

LEMMA InitLimits == Init => LimitsInv
<1> SUFFICES ASSUME Init
             PROVE  LimitsInv
  OBVIOUS
<1> USE DEF Init
<1>1. \A s \in Requests : req[s] = New
  OBVIOUS
<1>2. Scalars
  <2>1. NoFailure \in [count : Nat, until : Nat] /\ NoFailure.until <= now + Lockout
    BY Bounds DEF NoFailure
  <2>2. now <= Horizon /\ restarts \in 0..MaxRestarts /\ kinds \in Mixes
    BY Bounds
  <2> QED BY <2>1, <2>2 DEF Scalars
<1>3. \A s \in Requests : Shape(req[s])
  <2>1. Shape(New)
    BY NewShape, Bounds DEF Shape, Kinds
  <2> QED BY <1>1, <2>1, Zenon
<1>4. \A s \in Requests : req[s].kind = None /\ None \notin Limited
  BY <1>1, NewShape, Bounds DEF Limited, Kinds
<1>5. Times
  <2>1. Cardinality({}) = 0 /\ Limit \in Nat
    BY FS_EmptySet, Bounds
  <2>2. \A kind \in Limited, c \in Clients : LetIn(kind, c) = {}
    BY <1>4 DEF LetIn
  <2>3. \A kind \in Limited, c \in Clients : \A from : LetInFrom(kind, c, from) = {}
    BY <2>2 DEF LetInFrom
  <2>4. rate \in [Limited -> [Clients -> SUBSET Requests]] /\ \A kind \in Limited, c \in Clients : rate[kind][c] = {}
    BY DEF Limited
  <2>5. ASSUME NEW kind \in Limited, NEW c \in Clients
        PROVE  /\ Cardinality(rate[kind][c]) <= Limit
               /\ \A r \in LetIn(kind, c) : req[r].at + Window > now => r \in rate[kind][c]
               /\ \A from \in Nat : Cardinality(LetInFrom(kind, c, from)) <= Limit
    <3>1. Cardinality({}) <= Limit
      BY <2>1
    <3>2. rate[kind][c] = {} /\ LetIn(kind, c) = {} /\ \A from : LetInFrom(kind, c, from) = {}
      BY <2>2, <2>3, <2>4
    <3>3. Cardinality(rate[kind][c]) <= Limit
      BY <3>1, <3>2, Zenon
    <3>4. \A from \in Nat : Cardinality(LetInFrom(kind, c, from)) <= Limit
      BY <3>1, <3>2, Zenon
    <3> QED BY <3>2, <3>3, <3>4
  <2> QED BY <2>4, <2>5 DEF Times
<1>6. \A s \in Requests : ~PassedOn(s)
  BY <1>4 DEF PassedOn, Limited
<1>7. KeysHeld
  BY <1>6 DEF KeysHeld
<1>8. ProcessedOnce
  BY <1>6 DEF ProcessedOnce
<1> QED BY <1>2, <1>3, <1>5, <1>7, <1>8 DEF LimitsInv

LEMMA NextLimits ==
  ASSUME CodeInv, LimitsInv, [Next]_vars
  PROVE  LimitsInv'
<1>1. now \in Nat /\ now <= Horizon /\ Horizon \in Nat
  BY Bounds DEF CodeInv, Fields, LimitsInv, Scalars
<1>2. CASE Tick
  <2>1. now' = now + 1 /\ now < Horizon /\ UNCHANGED <<limits, failed, req, restarts, kinds>>
    BY <1>2 DEF Tick, pairing
  <2>2. now' \in Nat /\ now <= now' /\ now' <= Horizon
    BY <1>1, <2>1
  <2> QED BY <2>1, <2>2, ClockLimits
<1>3. CASE NewCode
  BY <1>1, <1>3, ClockLimits DEF NewCode
<1>4. CASE Restart
  BY <1>4, RestartLimits
<1>5. ASSUME NEW r \in Requests, Handle(r)
      PROVE  LimitsInv'
  <2>1. ASSUME NEW c \in Clients, NEW k \in Keys \cup {None}, Webhook(r, c, k)
        PROVE  LimitsInv'
    BY <2>1, WebhookLimits
  <2>2. ASSUME NEW c \in Clients, Pair(r, c)
        PROVE  LimitsInv'
    BY <2>2, PairLimits
  <2> QED BY <1>5, <2>1, <2>2, PrepareLimits, AskLimits, CheckLockoutLimits, TryCodeLimits, CountFailureLimits, PersistLimits,
             SavingLimits, GetConfigLimits, PutConfigLimits, TimeoutLimits DEF Handle
<1>6. CASE UNCHANGED vars
  BY <1>1, <1>6, ClockLimits DEF vars, pairing
<1> QED BY <1>2, <1>3, <1>4, <1>5, <1>6 DEF Next

(* The times that are held of a client account for everything it was let   *)
(* in for in the window, the keys that are held for everything that was    *)
(* passed on, and the providers that were asked for how far a chat is.     *)
THEOREM LimitsInvariant == Spec => []LimitsInv
<1>1. Init => LimitsInv
  BY InitLimits
<1>2. CodeInv /\ LimitsInv /\ [Next]_vars => LimitsInv'
  BY NextLimits
<1> QED BY <1>1, <1>2, TokenInvariant, PTL DEF Spec

(* The variables keep their types, a client never has more times held than *)
(* the limit, and a lockout ends PAIR_LOCKOUT_SECS from now at the latest.  *)
THEOREM TypeCorrect == Spec => []TypeOK
<1>1. CodeInv /\ LimitsInv => TypeOK
  <2> SUFFICES ASSUME CodeInv, LimitsInv
               PROVE  TypeOK
    OBVIOUS
  <2>1. /\ now \in Nat /\ Lockout \in Nat /\ Horizon \in Nat /\ Scalars /\ Fields /\ Times /\ KeysHeld
    BY Bounds DEF CodeInv, Fields, LimitsInv
  <2>2. now \in 0..Horizon /\ restarts \in 0..MaxRestarts /\ kinds \in Mixes
    BY <2>1 DEF Scalars
  <2>3. \A kind \in {"webhook", "pair"}, c \in Clients :
          rate[kind][c] \subseteq Requests /\ Cardinality(rate[kind][c]) <= Limit
    BY <2>1 DEF Times, Limited
  <2>4. \A k \in Keys : seen[k] \in (0..now) \cup {None}
    BY <2>1 DEF KeysHeld
  <2>5. /\ code \in 0..codes
        /\ guard \subseteq Tokens /\ mem \subseteq Tokens /\ disk \subseteq Tokens
        /\ evicted \subseteq Clients /\ forgotten \subseteq Keys /\ overlap \in BOOLEAN
    BY <2>1 DEF Fields, Scalars
  <2>6. \A c \in Clients : failed[c].count \in Nat /\ failed[c].until \in 0..(now + Lockout)
    BY <2>1 DEF Scalars
  <2>7. ASSUME NEW r \in Requests
        PROVE  /\ req[r].kind \in Kinds \cup {None} /\ req[r].reply \in Replies \cup {None}
               /\ req[r].cfg \subseteq Tokens /\ req[r].at \in 0..now
               /\ req[r].model \in 1..Models /\ req[r].provider \in 1..Providers /\ req[r].attempt \in 0..MaxRetries
    <3>1. req[r] \in Progress /\ Shape(req[r])
      BY Present
    <3> QED BY <2>1, <3>1 DEF Progress, Shape
  <2> QED BY <2>2, <2>3, <2>4, <2>5, <2>6, <2>7, Zenon DEF TypeOK
<1> QED BY <1>1, LimitsInvariant, TokenInvariant, PTL

(* However the requests, the clock, the expiry and the restarts interleave,*)
(* no window lets in more of a client's requests than the limit.           *)
THEOREM RateBoundCorrect == Spec => []RateBound
<1>1. LimitsInv => RateBound
  <2> SUFFICES ASSUME LimitsInv, NEW kind \in {"webhook", "pair"}, NEW c \in Clients \ evicted, NEW from \in 0..Horizon
               PROVE  Cardinality({r \in Requests : /\ req[r].kind = kind /\ req[r].client = c
                                                    /\ req[r].reply # "limited"
                                                    /\ req[r].at \in from..(from + Window - 1)}) <= Limit
    BY DEF RateBound
  <2>1. Cardinality(LetInFrom(kind, c, from)) <= Limit
    BY DEF LimitsInv, Times, Limited
  <2>2. LetInFrom(kind, c, from) = {r \in Requests : /\ req[r].kind = kind /\ req[r].client = c
                                                    /\ req[r].reply # "limited"
                                                    /\ req[r].at \in from..(from + Window - 1)}
    BY DEF LetInFrom, LetIn
  <2> QED BY <2>1, <2>2
<1> QED BY <1>1, LimitsInvariant, PTL

(* Two requests with one key are never both passed on in its time to live, *)
(* also when the first was dropped, failed or is still in its chat.        *)
THEOREM ProcessedOnceCorrect == Spec => []ProcessedOnce
<1>1. LimitsInv => ProcessedOnce
  BY DEF LimitsInv
<1> QED BY <1>1, LimitsInvariant, PTL

(* The loops over models, providers and retries skip no provider: a chat   *)
(* that fails has asked every one for every model.                         *)
THEOREM NoProviderSkippedCorrect == Spec => []NoProviderSkipped
<1>1. LimitsInv => NoProviderSkipped
  BY DEF LimitsInv, Shape, NoProviderSkipped, Targets
<1> QED BY <1>1, LimitsInvariant, PTL
=============================================================================
