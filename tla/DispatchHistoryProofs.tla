------------------------ MODULE DispatchHistoryProofs ------------------------
(***************************************************************************)
(* Theorems about what the dispatcher does with permits, histories and the *)
(* chat, for every set of messages, scopes and keys, every cap and every   *)
(* number of permits.                                                      *)
(***************************************************************************)
EXTENDS ChannelDispatchProofs, SenderHistoryProofs, FiniteSetTheorems

-----------------------------------------------------------------------------
(* What the histories are known for, of one history h.                     *)

(* It says nothing but what messages of a set said.                        *)
OriginIn(h, asked) == \A i \in DOMAIN h : \A m : Holds(h[i], m) => m \in asked

(* No question is in it twice. *)
OnceIn(h) == \A i, j \in DOMAIN h : \A m : Says(h, i, "user", m) /\ Says(h, j, "user", m) => i = j

(* The questions of a set are closed. *)
ClosedIn(h, settled) == \A i \in DOMAIN h : \A m \in settled :
  Says(h, i, "user", m) => \E j \in (i + 1)..Len(h) : Says(h, j, "assistant", m)

(* An answer stands directly behind its question. *)
FollowsIn(h) == \A i \in 2..Len(h) : \A m : Says(h, i, "assistant", m) => Says(h, i - 1, "user", m)

LEMMA SqueezeKeeps ==
  ASSUME NEW h \in Seq(Turns(Messages)), NEW x \in Seq(Turns(Messages)), NEW place, Squeezed(h, Len(h), x, place)
  PROVE  /\ \A asked : OriginIn(h, asked) => OriginIn(x, asked)
         /\ OnceIn(h) => OnceIn(x)
         /\ \A settled : ClosedIn(h, settled) => ClosedIn(x, settled)
         /\ FollowsIn(h) => FollowsIn(x)
<1> DEFINE n == Len(h)
           r == Len(x)
<1>1. /\ n \in Nat /\ r \in Nat /\ DOMAIN h = 1..n /\ DOMAIN x = 1..r
      /\ place \in [1..n -> 0..r]
      /\ \A i, j \in 1..n : i <= j => place[i] <= place[j]
      /\ \A i \in 1..n : IF i = 1 THEN place[i] <= 1 ELSE place[i] <= place[i - 1] + 1
  BY DEF Squeezed
<1>2. \A i \in 1..n : place[i] > 0 =>
        x[place[i]].role = h[i].role /\ \A m : Holds(h[i], m) => Holds(x[place[i]], m)
  BY Zenon DEF Squeezed
<1>3. \A b \in 1..r : \A m : Holds(x[b], m) => \E i \in 1..n : place[i] = b /\ Holds(h[i], m)
  BY Zenon DEF Squeezed
<1>4. \A turns, i, role, m : Says(turns, i, role, m) <=> turns[i].role = role /\ Holds(turns[i], m)
  BY DEF Says, Holds, In
<1> HIDE DEF n, r
<1>5. \A b \in 1..r : b > 0
  BY <1>1
<1>6. \A b \in 1..r : \A m, role : Says(x, b, role, m) => \E i \in 1..n : place[i] = b /\ Says(h, i, role, m)
  <2> SUFFICES ASSUME NEW b \in 1..r, NEW m, NEW role, Says(x, b, role, m)
               PROVE  \E i \in 1..n : place[i] = b /\ Says(h, i, role, m)
    OBVIOUS
  <2>1. x[b].role = role /\ Holds(x[b], m)
    BY <1>4
  <2>2. PICK i \in 1..n : place[i] = b /\ Holds(h[i], m)
    BY <1>3, <2>1, Zenon
  <2>3. h[i].role = role
    BY <1>2, <1>5, <2>1, <2>2, Zenon
  <2> QED BY <1>4, <2>2, <2>3
<1>7. \A i \in 1..n : \A m, role : Says(h, i, role, m) /\ place[i] > 0 => Says(x, place[i], role, m)
  BY <1>2, <1>4, Zenon
<1>8. ASSUME NEW asked, OriginIn(h, asked)
      PROVE  OriginIn(x, asked)
  BY <1>1, <1>3, <1>8, Zenon DEF OriginIn
<1>9. ASSUME OnceIn(h)
      PROVE  OnceIn(x)
  <2> SUFFICES ASSUME NEW b \in 1..r, NEW c \in 1..r, NEW m, Says(x, b, "user", m), Says(x, c, "user", m)
               PROVE  b = c
    BY <1>1 DEF OnceIn
  <2>1. PICK i \in 1..n : place[i] = b /\ Says(h, i, "user", m)
    BY <1>6, Zenon
  <2>2. PICK j \in 1..n : place[j] = c /\ Says(h, j, "user", m)
    BY <1>6, Zenon
  <2>3. i = j
    BY <1>1, <1>9, <2>1, <2>2, Zenon DEF OnceIn
  <2> QED BY <2>1, <2>2, <2>3
<1>10. ASSUME NEW settled, ClosedIn(h, settled)
       PROVE  ClosedIn(x, settled)
  <2> SUFFICES ASSUME NEW b \in 1..r, NEW m \in settled, Says(x, b, "user", m)
               PROVE  \E c \in (b + 1)..r : Says(x, c, "assistant", m)
    BY <1>1 DEF ClosedIn, r
  <2>1. PICK i \in 1..n : place[i] = b /\ Says(h, i, "user", m)
    BY <1>6, Zenon
  <2>2. PICK j \in (i + 1)..n : Says(h, j, "assistant", m)
    BY <1>1, <1>10, <2>1, Zenon DEF ClosedIn, n
  <2>3. j \in 1..n /\ i <= j
    BY <1>1, <2>2
  <2>4. place[j] >= b /\ place[j] \in 1..r /\ place[j] > 0
    BY <1>1, <2>1, <2>3
  <2>5. x[b].role = "user" /\ Says(x, place[j], "assistant", m) /\ x[place[j]].role = "assistant"
    BY <1>4, <1>7, <2>2, <2>3, <2>4, Zenon
  <2>6. place[j] # b
    BY <2>5
  <2>7. place[j] \in (b + 1)..r
    BY <1>1, <2>4, <2>6
  <2> QED BY <2>5, <2>7
<1>11. ASSUME FollowsIn(h)
       PROVE  FollowsIn(x)
  <2> SUFFICES ASSUME NEW b \in 2..r, NEW m, Says(x, b, "assistant", m)
               PROVE  Says(x, b - 1, "user", m)
    BY DEF FollowsIn, r
  <2>1. b \in 1..r /\ b >= 2 /\ b \in Nat
    BY <1>1
  <2>2. PICK i \in 1..n : place[i] = b /\ Says(h, i, "assistant", m)
    BY <1>6, <2>1, Zenon
  <2>3. i \in 2..n /\ i - 1 \in 1..n /\ i # 1
    BY <1>1, <2>1, <2>2
  <2>4. Says(h, i - 1, "user", m)
    BY <1>11, <2>2, <2>3 DEF FollowsIn, n
  <2>5. place[i - 1] \in 0..r /\ b <= place[i - 1] + 1 /\ place[i - 1] <= b
    BY <1>1, <2>2, <2>3
  <2> DEFINE k == place[i - 1]
  <2>6. k \in Nat /\ b <= k + 1 /\ k <= b
    BY <1>1, <2>5
  <2> HIDE DEF k
  <2>7. k > 0 /\ (k = b \/ k = b - 1)
    BY <2>1, <2>6
  <2>8. Says(x, k, "user", m)
    BY <1>7, <2>3, <2>4, <2>7 DEF k
  <2>9. k # b
    <3>1. x[k].role = "user" /\ x[b].role = "assistant"
      BY <1>4, <2>8, Zenon
    <3> QED BY <3>1
  <2> QED BY <2>7, <2>8, <2>9
<1> QED BY <1>8, <1>9, <1>10, <1>11

(* y is h with a turn of a role that is all m behind it. *)
Appended(y, h, role, m) ==
  /\ y \in Seq(Turns(Messages)) /\ Len(y) = Len(h) + 1 /\ DOMAIN y = 1..(Len(h) + 1) /\ DOMAIN h = 1..Len(h)
  /\ Len(h) \in Nat
  /\ \A i \in 1..Len(h) : y[i] = h[i] /\ \A who, w : Says(y, i, who, w) <=> Says(h, i, who, w)
  /\ \A who, w : Says(y, Len(y), who, w) <=> who = role /\ w = m
  /\ \A w : Holds(y[Len(y)], w) <=> w = m

LEMMA SaysAppended ==
  ASSUME NEW h \in Seq(Turns(Messages)), NEW m \in Messages, NEW role \in {"user", "assistant"},
         NEW y, y = Append(h, [role |-> role, parts |-> <<m>>])
  PROVE  Appended(y, h, role, m)
<1> DEFINE turn == [role |-> role, parts |-> <<m>>]
           n == Len(h)
<1>1. turn \in Turns(Messages) /\ turn.role = role /\ turn.parts = <<m>>
  BY DEF Turns
<1>2. DOMAIN <<m>> = {1} /\ <<m>>[1] = m
  OBVIOUS
<1>3. \A w : Holds(turn, w) <=> w = m
  BY <1>1, <1>2 DEF Holds, In
<1>4. \A turns, i, who, w : Says(turns, i, who, w) <=> turns[i].role = who /\ Holds(turns[i], w)
  BY DEF Says, Holds, In
<1> HIDE DEF turn
<1>5. /\ y \in Seq(Turns(Messages)) /\ Len(y) = n + 1 /\ y[Len(y)] = turn /\ n \in Nat
      /\ \A i \in 1..n : y[i] = h[i]
  BY <1>1 DEF turn
<1>6. DOMAIN y = 1..(n + 1) /\ DOMAIN h = 1..n
  BY <1>5
<1>7. \A i \in 1..n : \A who, w : Says(y, i, who, w) <=> Says(h, i, who, w)
  BY <1>4, <1>5, Zenon
<1>8. \A who, w : Says(y, Len(y), who, w) <=> who = role /\ w = m
  BY <1>1, <1>3, <1>4, <1>5, Zenon
<1>9. \A w : Holds(y[Len(y)], w) <=> w = m
  BY <1>3, <1>5, Zenon
<1> QED BY <1>5, <1>6, <1>7, <1>8, <1>9 DEF Appended

LEMMA AskedKeeps ==
  ASSUME NEW h \in Seq(Turns(Messages)), NEW m \in Messages, NEW y, y = Append(h, UserTurn(<<m>>)),
         NEW asked, OriginIn(h, asked), m \notin asked
  PROVE  /\ y \in Seq(Turns(Messages)) /\ y # <<>> /\ Last(y) = UserTurn(<<m>>)
         /\ OriginIn(y, asked \cup {m})
         /\ OnceIn(h) => OnceIn(y)
         /\ \A settled : m \notin settled /\ ClosedIn(h, settled) => ClosedIn(y, settled)
         /\ FollowsIn(h) => FollowsIn(y)
<1> DEFINE n == Len(h)
<1>1. /\ y \in Seq(Turns(Messages)) /\ Len(y) = n + 1 /\ DOMAIN y = 1..(n + 1) /\ DOMAIN h = 1..n /\ n \in Nat
      /\ \A i \in 1..n : y[i] = h[i] /\ \A who, w : Says(y, i, who, w) <=> Says(h, i, who, w)
      /\ \A who, w : Says(y, Len(y), who, w) <=> who = "user" /\ w = m
      /\ \A w : Holds(y[Len(y)], w) <=> w = m
  <2>1. y = Append(h, [role |-> "user", parts |-> <<m>>])
    BY DEF UserTurn
  <2>2. Appended(y, h, "user", m)
    BY <2>1, SaysAppended
  <2> QED BY <2>2, Zenon DEF Appended
<1>2. Last(y) = UserTurn(<<m>>) /\ y # <<>>
  <2>1. UserTurn(<<m>>) \in Turns(Messages)
    BY DEF UserTurn, Turns
  <2>2. y[n + 1] = UserTurn(<<m>>)
    BY <1>1, <2>1
  <2>3. Len(y) # 0
    BY <1>1
  <2> QED BY <1>1, <2>2, <2>3 DEF Last
<1>3. \A i \in 1..n : \A who : ~Says(h, i, who, m)
  <2>1. \A i \in 1..n : \A who : Says(h, i, who, m) => Holds(h[i], m)
    BY DEF Says, Holds, In
  <2> QED BY <1>1, <2>1, Zenon DEF OriginIn
<1> HIDE DEF n
<1>4. \A i \in 1..(n + 1) : i = n + 1 \/ i \in 1..n
  BY <1>1
<1>5. OriginIn(y, asked \cup {m})
  <2> SUFFICES ASSUME NEW i \in 1..(n + 1), NEW w, Holds(y[i], w)
               PROVE  w \in asked \cup {m}
    BY <1>1 DEF OriginIn
  <2>1. CASE i \in 1..n
    BY <1>1, <2>1 DEF OriginIn
  <2>2. CASE i = n + 1
    BY <1>1, <2>2
  <2> QED BY <1>4, <2>1, <2>2
<1>6. ASSUME OnceIn(h)
      PROVE  OnceIn(y)
  <2> SUFFICES ASSUME NEW i \in 1..(n + 1), NEW j \in 1..(n + 1), NEW w,
                      Says(y, i, "user", w), Says(y, j, "user", w)
               PROVE  i = j
    BY <1>1 DEF OnceIn
  <2>1. CASE w = m
    <3>1. i \notin 1..n /\ j \notin 1..n
      BY <1>1, <1>3, <2>1
    <3> QED BY <1>4, <3>1
  <2>2. CASE w # m
    <3>1. i \in 1..n /\ j \in 1..n
      BY <1>1, <1>4, <2>2
    <3>2. Says(h, i, "user", w) /\ Says(h, j, "user", w)
      BY <1>1, <3>1
    <3> QED BY <1>1, <1>6, <3>1, <3>2 DEF OnceIn
  <2> QED BY <2>1, <2>2
<1>7. ASSUME NEW settled, m \notin settled, ClosedIn(h, settled)
      PROVE  ClosedIn(y, settled)
  <2> SUFFICES ASSUME NEW i \in 1..(n + 1), NEW w \in settled, Says(y, i, "user", w)
               PROVE  \E j \in (i + 1)..(n + 1) : Says(y, j, "assistant", w)
    BY <1>1 DEF ClosedIn
  <2>1. i \in 1..n /\ Says(h, i, "user", w)
    BY <1>1, <1>4, <1>7
  <2>2. PICK j \in (i + 1)..n : Says(h, j, "assistant", w)
    BY <1>1, <1>7, <2>1 DEF ClosedIn, n
  <2>3. j \in 1..n /\ j \in (i + 1)..(n + 1)
    BY <1>1, <2>1, <2>2
  <2> QED BY <1>1, <2>2, <2>3
<1>8. ASSUME FollowsIn(h)
      PROVE  FollowsIn(y)
  <2> SUFFICES ASSUME NEW i \in 2..(n + 1), NEW w, Says(y, i, "assistant", w)
               PROVE  Says(y, i - 1, "user", w)
    BY <1>1 DEF FollowsIn
  <2>1. i # n + 1
    BY <1>1
  <2>2. i \in 1..n /\ i \in 2..n /\ i - 1 \in 1..n
    BY <1>1, <2>1
  <2>3. Says(h, i - 1, "user", w)
    BY <1>1, <1>8, <2>2 DEF FollowsIn, n
  <2> QED BY <1>1, <2>2, <2>3
<1> QED BY <1>1, <1>2, <1>5, <1>6, <1>7, <1>8

LEMMA AnsweredKeeps ==
  ASSUME NEW h \in Seq(Turns(Messages)), NEW m \in Messages, NEW y, y = Append(h, AssistantTurn(<<m>>)),
         NEW asked, OriginIn(h, asked), m \in asked
  PROVE  /\ y \in Seq(Turns(Messages))
         /\ OriginIn(y, asked)
         /\ OnceIn(h) => OnceIn(y)
         /\ \A settled : ClosedIn(h, settled) => ClosedIn(y, settled \cup {m})
         /\ FollowsIn(h) /\ h # <<>> /\ Last(h) = UserTurn(<<m>>) => FollowsIn(y)
<1> DEFINE n == Len(h)
<1>1. /\ y \in Seq(Turns(Messages)) /\ Len(y) = n + 1 /\ DOMAIN y = 1..(n + 1) /\ DOMAIN h = 1..n /\ n \in Nat
      /\ \A i \in 1..n : y[i] = h[i] /\ \A who, w : Says(y, i, who, w) <=> Says(h, i, who, w)
      /\ \A who, w : Says(y, Len(y), who, w) <=> who = "assistant" /\ w = m
      /\ \A w : Holds(y[Len(y)], w) <=> w = m
  <2>1. y = Append(h, [role |-> "assistant", parts |-> <<m>>])
    BY DEF AssistantTurn
  <2>2. Appended(y, h, "assistant", m)
    BY <2>1, SaysAppended
  <2> QED BY <2>2, Zenon DEF Appended
<1> HIDE DEF n
<1>2. \A i \in 1..(n + 1) : i = n + 1 \/ i \in 1..n
  BY <1>1
<1>3. OriginIn(y, asked)
  <2> SUFFICES ASSUME NEW i \in 1..(n + 1), NEW w, Holds(y[i], w)
               PROVE  w \in asked
    BY <1>1 DEF OriginIn
  <2>1. CASE i \in 1..n
    BY <1>1, <2>1 DEF OriginIn
  <2>2. CASE i = n + 1
    BY <1>1, <2>2
  <2> QED BY <1>2, <2>1, <2>2
<1>4. ASSUME OnceIn(h)
      PROVE  OnceIn(y)
  <2> SUFFICES ASSUME NEW i \in 1..(n + 1), NEW j \in 1..(n + 1), NEW w,
                      Says(y, i, "user", w), Says(y, j, "user", w)
               PROVE  i = j
    BY <1>1 DEF OnceIn
  <2>1. i \in 1..n /\ j \in 1..n
    BY <1>1, <1>2
  <2>2. Says(h, i, "user", w) /\ Says(h, j, "user", w)
    BY <1>1, <2>1
  <2> QED BY <1>1, <1>4, <2>1, <2>2 DEF OnceIn
<1>5. ASSUME NEW settled, ClosedIn(h, settled)
      PROVE  ClosedIn(y, settled \cup {m})
  <2> SUFFICES ASSUME NEW i \in 1..(n + 1), NEW w \in settled \cup {m}, Says(y, i, "user", w)
               PROVE  \E j \in (i + 1)..(n + 1) : Says(y, j, "assistant", w)
    BY <1>1 DEF ClosedIn
  <2>1. i \in 1..n /\ Says(h, i, "user", w)
    BY <1>1, <1>2
  <2>2. CASE w = m
    <3>1. n + 1 \in (i + 1)..(n + 1)
      BY <1>1, <2>1
    <3> QED BY <1>1, <2>2, <3>1
  <2>3. CASE w \in settled
    <3>1. PICK j \in (i + 1)..n : Says(h, j, "assistant", w)
      BY <1>1, <1>5, <2>1, <2>3 DEF ClosedIn, n
    <3>2. j \in 1..n /\ j \in (i + 1)..(n + 1)
      BY <1>1, <2>1, <3>1
    <3> QED BY <1>1, <3>1, <3>2
  <2> QED BY <2>2, <2>3
<1>6. ASSUME FollowsIn(h), h # <<>>, Last(h) = UserTurn(<<m>>)
      PROVE  FollowsIn(y)
  <2> SUFFICES ASSUME NEW i \in 2..(n + 1), NEW w, Says(y, i, "assistant", w)
               PROVE  Says(y, i - 1, "user", w)
    BY <1>1 DEF FollowsIn
  <2>1. CASE i = n + 1
    <3>1. w = m /\ n \in 1..n /\ i - 1 = n
      BY <1>1, <2>1
    <3>2. h[n] = UserTurn(<<m>>)
      BY <1>6 DEF Last, n
    <3>3. UserTurn(<<m>>).role = "user" /\ UserTurn(<<m>>).parts = <<m>> /\ <<m>>[1] = m /\ 1 \in DOMAIN <<m>>
      BY DEF UserTurn
    <3>4. Says(h, n, "user", m)
      BY <3>2, <3>3, Zenon DEF Says
    <3> QED BY <1>1, <3>1, <3>4
  <2>2. CASE i # n + 1
    <3>1. i \in 1..n /\ i \in 2..n /\ i - 1 \in 1..n
      BY <1>1, <2>2
    <3>2. Says(h, i - 1, "user", w)
      BY <1>1, <1>6, <3>1 DEF FollowsIn, n
    <3> QED BY <1>1, <3>1, <3>2
  <2> QED BY <2>1, <2>2
<1> QED BY <1>1, <1>3, <1>4, <1>5, <1>6

(* The last question is taken back. *)
LEMMA TakenBackKeeps ==
  ASSUME NEW h \in Seq(Turns(Messages)), NEW m \in Messages, CanRollback(h, UserTurn(<<m>>)),
         NEW x, x = RollbackOrphanUserTurn(h), OnceIn(h)
  PROVE  /\ x \in Seq(Turns(Messages)) /\ OnceIn(x)
         /\ \A asked : OriginIn(h, asked) => OriginIn(x, asked)
         /\ \A settled : ClosedIn(h, settled) => ClosedIn(x, settled \cup {m})
         /\ FollowsIn(h) => FollowsIn(x)
<1> DEFINE n == Len(h)
<1>1. h # <<>> /\ h[n] = UserTurn(<<m>>) /\ n \in Nat \ {0} /\ DOMAIN h = 1..n /\ n \in 1..n
  BY EmptySeq DEF CanRollback, Last
<1>2. x \in Seq(Turns(Messages)) /\ Len(x) = n - 1 /\ \A i \in 1..(n - 1) : x[i] = h[i]
  BY <1>1 DEF RollbackOrphanUserTurn, Front
<1> HIDE DEF n
<1>3. DOMAIN x = 1..(n - 1) /\ \A i \in 1..(n - 1) : i \in 1..n /\ i # n
  BY <1>1, <1>2
<1>4. \A i \in 1..(n - 1) : \A who, w : Says(x, i, who, w) <=> Says(h, i, who, w)
  BY <1>2, Zenon DEF Says
<1>5. \A w : Says(h, n, "user", w) <=> w = m
  <2>1. UserTurn(<<m>>).role = "user" /\ UserTurn(<<m>>).parts = <<m>> /\ <<m>>[1] = m /\ DOMAIN <<m>> = {1}
    BY DEF UserTurn
  <2> QED BY <1>1, <2>1 DEF Says
<1>6. \A w : ~Says(h, n, "assistant", w)
  <2>1. UserTurn(<<m>>).role # "assistant"
    BY DEF UserTurn
  <2> QED BY <1>1, <2>1 DEF Says
<1>7. OnceIn(x)
  <2> SUFFICES ASSUME NEW i \in 1..(n - 1), NEW j \in 1..(n - 1), NEW w,
                      Says(x, i, "user", w), Says(x, j, "user", w)
               PROVE  i = j
    BY <1>3, Zenon DEF OnceIn
  <2>1. i \in 1..n /\ j \in 1..n /\ Says(h, i, "user", w) /\ Says(h, j, "user", w)
    BY <1>3, <1>4, Zenon
  <2> QED BY <1>1, <2>1, Zenon DEF OnceIn
<1>8. ASSUME NEW asked, OriginIn(h, asked)
      PROVE  OriginIn(x, asked)
  BY <1>1, <1>2, <1>3, <1>8, Zenon DEF OriginIn
<1>9. ASSUME NEW settled, ClosedIn(h, settled)
      PROVE  ClosedIn(x, settled \cup {m})
  <2> SUFFICES ASSUME NEW i \in 1..(n - 1), NEW w \in settled \cup {m}, Says(x, i, "user", w)
               PROVE  \E j \in (i + 1)..(n - 1) : Says(x, j, "assistant", w)
    BY <1>2, <1>3 DEF ClosedIn
  <2>1. Says(h, i, "user", w) /\ i \in 1..n /\ i # n
    BY <1>3, <1>4
  <2>2. w # m
    BY <1>1, <1>5, <2>1, Zenon DEF OnceIn
  <2>3. PICK j \in (i + 1)..n : Says(h, j, "assistant", w)
    BY <1>1, <1>9, <2>1, <2>2 DEF ClosedIn, n
  <2>4. j # n
    BY <1>6, <2>3
  <2>5. j \in 1..(n - 1) /\ j \in (i + 1)..(n - 1)
    BY <1>1, <2>3, <2>4
  <2> QED BY <1>4, <2>3, <2>5
<1>10. ASSUME FollowsIn(h)
       PROVE  FollowsIn(x)
  <2> SUFFICES ASSUME NEW i \in 2..(n - 1), NEW w, Says(x, i, "assistant", w)
               PROVE  Says(x, i - 1, "user", w)
    BY <1>2 DEF FollowsIn
  <2>1. i \in 1..(n - 1) /\ i - 1 \in 1..(n - 1) /\ i \in 2..n
    BY <1>1
  <2> QED BY <1>4, <1>10, <2>1 DEF FollowsIn, n
<1> QED BY <1>2, <1>7, <1>8, <1>9, <1>10

-----------------------------------------------------------------------------
(* The calls that rewrite a history. *)

LEMMA CappedAppend ==
  ASSUME NEW h \in Seq(Turns(Messages)), NEW turn \in Turns(Messages), NEW y, y = Append(h, turn),
         NEW x, x = AppendSenderTurn(h, turn)
  PROVE  /\ x \in Seq(Turns(Messages)) /\ x # <<>> /\ Last(x) = turn
         /\ \E place : Squeezed(y, Len(y), x, place)
         /\ Len(h) < MaxHistory => x = y
<1> USE HistoryAssumption DEF HistoryAssumption
<1>1. y \in Seq(Turns(Messages)) /\ Len(y) = Len(h) + 1 /\ y[Len(y)] = turn /\ Len(h) \in Nat /\ x = LastTurns(y, MaxHistory)
  BY DEF AppendSenderTurn
<1>2. /\ x \in Seq(Turns(Messages)) /\ Len(x) \in Nat /\ Len(x) <= Len(y) /\ (Len(y) <= MaxHistory => x = y)
      /\ \A i \in 1..Len(x) : x[i] = y[i + (Len(y) - Len(x))]
      /\ Len(y) > 0 => Len(x) > 0
  <2>1. Shifted(Messages, x, y, MaxHistory)
    BY <1>1, LastTurnsShift
  <2> QED BY <2>1, Zenon DEF Shifted
<1>3. Len(x) \in 1..Len(x) /\ Len(x) + (Len(y) - Len(x)) = Len(y)
  BY <1>1, <1>2
<1>4. x[Len(x)] = turn /\ x # <<>>
  <2>1. Len(x) # 0 /\ Len(<<>>) = 0
    BY <1>1, <1>2
  <2>2. x # <<>>
    BY <2>1, Zenon
  <2>3. x[Len(x)] = y[Len(x) + (Len(y) - Len(x))]
    BY <1>2, <1>3, Zenon
  <2> QED BY <1>1, <1>3, <2>2, <2>3, Zenon
<1>5. \E place : Squeezed(y, Len(y), x, place)
  BY <1>1, DropSqueezes
<1> QED BY <1>1, <1>2, <1>4, <1>5 DEF Last

LEMMA CompactSqueezes ==
  ASSUME NEW h \in Seq(Turns(Messages)), NEW x, x = CompactedTurns(h)
  PROVE  x \in Seq(Turns(Messages)) /\ \E place : Squeezed(h, Len(h), x, place)
<1> USE HistoryAssumption DEF HistoryAssumption
<1> DEFINE w == LastTurns(h, KeepOnCompact)
<1>1. w \in Seq(Turns(Messages))
  BY LastTurnsShift DEF Shifted
<1>2. PICK p : Squeezed(h, Len(h), w, p)
  BY DropSqueezes
<1> HIDE DEF w
<1>3. PICK q : Normalized(Messages, w, Len(w), NormalizeCachedTurns(w), q)
  BY <1>1, NormalizationKeepsTurns
<1>4. x = NormalizeCachedTurns(w)
  BY DEF CompactedTurns, w
<1>5. x \in Seq(Turns(Messages)) /\ Squeezed(w, Len(w), x, q)
  BY <1>3, <1>4, Zenon DEF Normalized
<1>6. \E place : Squeezed(h, Len(h), x, place)
  BY <1>1, <1>2, <1>5, SqueezeTwice
<1> QED BY <1>5, <1>6

-----------------------------------------------------------------------------
(* The histories under the dispatcher's steps. *)

(* Messages of a key whose question has been put into its history.         *)
AskedPCs == {"asked", "generating", "settling", "leaving", "crashed"} \cup Over

Asked(k) == {m \in Messages : Key[m] = k /\ pc[m] \in AskedPCs}

Settled ==
  {m \in Messages : pc[m] \in {"leaving"} \cup Over /\ outcome[m] \in {"ok", "vision", "error", "timeout"}}

HistoryInv ==
  /\ histories \in [Keys -> Seq(Turns(Messages))]
  /\ \A k \in Keys : OriginIn(histories[k], Asked(k)) /\ OnceIn(histories[k]) /\ ClosedIn(histories[k], Settled)

(* A step that leaves the histories alone. *)
LEMMA HistoryAlone ==
  ASSUME HistoryInv, UNCHANGED histories, \A k \in Keys : Asked(k) \subseteq Asked(k)',
         \A m \in Settled' : m \in Settled \/ m \notin Asked(Key[m])
  PROVE  HistoryInv'
<1>1. histories' \in [Keys -> Seq(Turns(Messages))]
  BY DEF HistoryInv
<1>2. ASSUME NEW k \in Keys
      PROVE  OriginIn(histories'[k], Asked(k)') /\ OnceIn(histories'[k]) /\ ClosedIn(histories'[k], Settled')
  <2> DEFINE h == histories[k]
  <2>1. OriginIn(h, Asked(k)) /\ OnceIn(h) /\ ClosedIn(h, Settled) /\ histories'[k] = h
    BY DEF HistoryInv
  <2> HIDE DEF h
  <2>2. OriginIn(h, Asked(k)')
    BY <2>1 DEF OriginIn
  <2>3. \A i \in DOMAIN h : \A m \in Settled' : Says(h, i, "user", m) => m \in Settled
    <3> SUFFICES ASSUME NEW i \in DOMAIN h, NEW m \in Settled', Says(h, i, "user", m)
                 PROVE  m \in Settled
      OBVIOUS
    <3>1. Holds(h[i], m)
      BY DEF Says, Holds, In
    <3>2. m \in Asked(k) /\ Key[m] = k
      BY <2>1, <3>1 DEF OriginIn, Asked
    <3> QED BY <3>2
  <2>4. ClosedIn(h, Settled')
    BY <2>1, <2>3, Zenon DEF ClosedIn
  <2> QED BY <2>1, <2>2, <2>4
<1> HIDE DEF Settled, Asked
<1> QED BY <1>1, <1>2 DEF HistoryInv

(* A step of a worker that rewrites its history. *)
LEMMA HistoryWritten ==
  ASSUME CoreTypeOK, HistoryInv, NEW m \in Messages, NEW x \in Seq(Turns(Messages)),
         histories' = [histories EXCEPT ![Key[m]] = x], \A k \in Keys : Asked(k) \subseteq Asked(k)',
         Settled' \subseteq Settled \cup {m},
         OriginIn(x, Asked(Key[m])'), OnceIn(x), ClosedIn(x, Settled')
  PROVE  HistoryInv'
<1> USE DispatchAssumption DEF DispatchAssumption
<1>1. histories' \in [Keys -> Seq(Turns(Messages))] /\ histories'[Key[m]] = x
  BY DEF HistoryInv
<1>2. ASSUME NEW k \in Keys, k # Key[m]
      PROVE  OriginIn(histories'[k], Asked(k)') /\ OnceIn(histories'[k]) /\ ClosedIn(histories'[k], Settled')
  <2> DEFINE h == histories[k]
  <2>1. OriginIn(h, Asked(k)) /\ OnceIn(h) /\ ClosedIn(h, Settled) /\ histories'[k] = h
    BY <1>2 DEF HistoryInv
  <2> HIDE DEF h
  <2>2. OriginIn(h, Asked(k)')
    BY <2>1 DEF OriginIn
  <2>3. \A i \in DOMAIN h : \A w \in Settled' : Says(h, i, "user", w) => w \in Settled
    <3> SUFFICES ASSUME NEW i \in DOMAIN h, NEW w \in Settled', Says(h, i, "user", w)
                 PROVE  w \in Settled
      OBVIOUS
    <3>1. Holds(h[i], w)
      BY DEF Says, Holds, In
    <3>2. w \in Asked(k) /\ Key[w] = k
      BY <2>1, <3>1 DEF OriginIn, Asked
    <3> QED BY <1>2, <3>2
  <2>4. ClosedIn(h, Settled')
    BY <2>1, <2>3, Zenon DEF ClosedIn
  <2> QED BY <2>1, <2>2, <2>4
<1>3. \A k \in Keys : OriginIn(histories'[k], Asked(k)') /\ OnceIn(histories'[k]) /\ ClosedIn(histories'[k], Settled')
  BY <1>1, <1>2, Zenon
<1> HIDE DEF Settled, Asked
<1> QED BY <1>1, <1>3 DEF HistoryInv

(* While a message's pc is one of these its question waits for an answer.  *)
Open == {"asked", "generating", "settling"}

(* m's worker puts x in the place of its history: what is known of x.      *)
Wrote(m, x) ==
  /\ x \in Seq(Turns(Messages))
  /\ histories' = [histories EXCEPT ![Key[m]] = x]
  /\ Settled' \subseteq Settled \cup {m}
  /\ pc[m] \in Processing
  /\ \A w \in Messages : w # m => pc'[w] = pc[w]
  /\ OriginIn(x, Asked(Key[m])')
  /\ OnceIn(x)
  /\ ClosedIn(x, Settled')
  /\ pc'[m] \in Open => x # <<>> /\ Last(x) = UserTurn(<<m>>)
  /\ FollowsIn(histories[Key[m]])
     /\ (pc[m] \in Open => histories[Key[m]] # <<>> /\ Last(histories[Key[m]]) = UserTurn(<<m>>))
     => FollowsIn(x)

(* One worker moves. *)
LEMMA OneMoves ==
  ASSUME CoreTypeOK, NEW m \in Messages, NEW l, pc' = [pc EXCEPT ![m] = l],
         pc[m] \in AskedPCs => l \in AskedPCs, \A w \in Messages : w # m => outcome'[w] = outcome[w]
  PROVE  /\ \A k : Asked(k) \subseteq Asked(k)'
         /\ pc'[m] = l /\ \A w \in Messages : w # m => pc'[w] = pc[w]
         /\ Settled' \subseteq Settled \cup {m}
         /\ ~(l \in {"leaving"} \cup Over /\ outcome'[m] \in {"ok", "vision", "error", "timeout"})
              => Settled' \subseteq Settled
<1>1. pc'[m] = l /\ \A w \in Messages : w # m => pc'[w] = pc[w]
  BY DEF CoreTypeOK
<1>2. \A k : Asked(k) \subseteq Asked(k)'
  BY <1>1 DEF Asked
<1>3. Settled' \subseteq Settled \cup {m}
  BY <1>1 DEF Settled
<1>4. ~(l \in {"leaving"} \cup Over /\ outcome'[m] \in {"ok", "vision", "error", "timeout"}) => m \notin Settled'
  BY <1>1 DEF Settled
<1> HIDE DEF Settled, Asked
<1> QED BY <1>1, <1>2, <1>3, <1>4

LEMMA NewSessionWrites ==
  ASSUME CoreTypeOK, HistoryInv, NEW m \in Messages, RunNewSession(m)
  PROVE  Wrote(m, <<>>) /\ \A k : Asked(k) \subseteq Asked(k)'
<1>1. pc[m] = "admitted" /\ pc' = [pc EXCEPT ![m] = "leaving"] /\ histories' = [histories EXCEPT ![Key[m]] = <<>>]
      /\ outcome' = outcome
  BY DEF RunNewSession, Step, Goto
<1>2. /\ \A k : Asked(k) \subseteq Asked(k)'
      /\ pc'[m] = "leaving" /\ \A w \in Messages : w # m => pc'[w] = pc[w]
      /\ Settled' \subseteq Settled \cup {m}
  BY <1>1, OneMoves DEF AskedPCs
<1>3. OriginIn(<<>>, Asked(Key[m])') /\ OnceIn(<<>>) /\ ClosedIn(<<>>, Settled') /\ FollowsIn(<<>>)
  <2>1. DOMAIN <<>> = {} /\ 2..Len(<<>>) = {}
    OBVIOUS
  <2> QED BY <2>1 DEF OriginIn, OnceIn, ClosedIn, FollowsIn
<1>4. <<>> \in Seq(Turns(Messages)) /\ pc[m] \in Processing /\ pc'[m] \notin Open
  BY <1>1, <1>2 DEF Processing, Open
<1> QED BY <1>1, <1>2, <1>3, <1>4, Zenon DEF Wrote

LEMMA UserTurnWrites ==
  ASSUME CoreTypeOK, HistoryInv, NEW m \in Messages, AppendUserTurn(m)
  PROVE  (\E x : Wrote(m, x)) /\ \A k : Asked(k) \subseteq Asked(k)'
<1> DEFINE h == histories[Key[m]]
           y == Append(h, UserTurn(<<m>>))
           x == AppendSenderTurn(h, UserTurn(<<m>>))
<1> USE DispatchAssumption DEF DispatchAssumption
<1>1. pc[m] = "admitted" /\ pc' = [pc EXCEPT ![m] = "asked"] /\ histories' = [histories EXCEPT ![Key[m]] = x]
      /\ outcome' = outcome
  BY DEF AppendUserTurn, Step, Goto
<1>2. /\ \A k : Asked(k) \subseteq Asked(k)'
      /\ pc'[m] = "asked" /\ \A w \in Messages : w # m => pc'[w] = pc[w]
      /\ Settled' \subseteq Settled
  BY <1>1, OneMoves DEF AskedPCs, Over
<1>3. h \in Seq(Turns(Messages)) /\ OriginIn(h, Asked(Key[m])) /\ OnceIn(h) /\ ClosedIn(h, Settled)
  BY DEF HistoryInv
<1>4. UserTurn(<<m>>) \in Turns(Messages)
  BY DEF UserTurn, Turns
<1>5. m \notin Asked(Key[m]) /\ m \notin Settled /\ m \in Asked(Key[m])'
  BY <1>1, <1>2 DEF Asked, AskedPCs, Settled, Over
<1> HIDE DEF h, y, x
<1>6. /\ y \in Seq(Turns(Messages))
      /\ OriginIn(y, Asked(Key[m]) \cup {m})
      /\ OnceIn(y) /\ ClosedIn(y, Settled) /\ (FollowsIn(h) => FollowsIn(y))
  BY <1>3, <1>5, AskedKeeps DEF y
<1>7. x \in Seq(Turns(Messages)) /\ x # <<>> /\ Last(x) = UserTurn(<<m>>)
  BY <1>3, <1>4, CappedAppend DEF x
<1>8. PICK place : Squeezed(y, Len(y), x, place)
  <2>1. x = AppendSenderTurn(h, UserTurn(<<m>>)) /\ y = Append(h, UserTurn(<<m>>))
    BY DEF x, y
  <2> DEFINE t == UserTurn(<<m>>)
  <2>2. x = AppendSenderTurn(h, t) /\ y = Append(h, t) /\ t \in Turns(Messages)
    BY <1>4, <2>1
  <2> HIDE DEF t
  <2> QED BY <1>3, <2>2, CappedAppend
<1>9. /\ OriginIn(x, Asked(Key[m]) \cup {m}) /\ OnceIn(x) /\ ClosedIn(x, Settled) /\ (FollowsIn(h) => FollowsIn(x))
  BY <1>6, <1>7, <1>8, SqueezeKeeps
<1>10. OriginIn(x, Asked(Key[m])') /\ ClosedIn(x, Settled')
  <2>1. Asked(Key[m]) \cup {m} \subseteq Asked(Key[m])'
    BY <1>2, <1>5
  <2> HIDE DEF Asked, Settled
  <2>2. OriginIn(x, Asked(Key[m])')
    BY <1>9, <2>1, Zenon DEF OriginIn
  <2>3. ClosedIn(x, Settled')
    BY <1>2, <1>9, Zenon DEF ClosedIn
  <2> QED BY <2>2, <2>3
<1>11. pc[m] \in Processing
  BY <1>1 DEF Processing
<1>12. Wrote(m, x)
  BY <1>1, <1>2, <1>7, <1>9, <1>10, <1>11, Zenon DEF Wrote, h
<1> QED BY <1>2, <1>12

LEMMA AnswerWrites ==
  ASSUME CoreTypeOK, HistoryInv, NEW m \in Messages, Step(m, "settling", "leaving"), AppendAssistantTurn(m),
         \A w \in Messages : w # m => outcome'[w] = outcome[w]
  PROVE  (\E x : Wrote(m, x)) /\ \A k : Asked(k) \subseteq Asked(k)'
<1> DEFINE h == histories[Key[m]]
           y == Append(h, AssistantTurn(<<m>>))
           x == AppendSenderTurn(h, AssistantTurn(<<m>>))
<1> USE DispatchAssumption DEF DispatchAssumption
<1>1. pc[m] = "settling" /\ pc' = [pc EXCEPT ![m] = "leaving"] /\ histories' = [histories EXCEPT ![Key[m]] = x]
  BY DEF AppendAssistantTurn, Step, Goto
<1>2. /\ \A k : Asked(k) \subseteq Asked(k)'
      /\ pc'[m] = "leaving" /\ \A w \in Messages : w # m => pc'[w] = pc[w]
      /\ Settled' \subseteq Settled \cup {m}
  BY <1>1, OneMoves DEF AskedPCs
<1>3. h \in Seq(Turns(Messages)) /\ OriginIn(h, Asked(Key[m])) /\ OnceIn(h) /\ ClosedIn(h, Settled)
  BY DEF HistoryInv
<1>4. AssistantTurn(<<m>>) \in Turns(Messages)
  BY DEF AssistantTurn, Turns
<1>5. m \in Asked(Key[m])
  BY <1>1 DEF Asked, AskedPCs
<1> HIDE DEF h, y, x
<1>6. /\ y \in Seq(Turns(Messages)) /\ OriginIn(y, Asked(Key[m])) /\ OnceIn(y) /\ ClosedIn(y, Settled \cup {m})
      /\ (FollowsIn(h) /\ h # <<>> /\ Last(h) = UserTurn(<<m>>) => FollowsIn(y))
  BY <1>3, <1>5, AnsweredKeeps DEF y
<1>7. x \in Seq(Turns(Messages))
  BY <1>3, <1>4, CappedAppend DEF x
<1>8. PICK place : Squeezed(y, Len(y), x, place)
  <2>1. x = AppendSenderTurn(h, AssistantTurn(<<m>>)) /\ y = Append(h, AssistantTurn(<<m>>))
    BY DEF x, y
  <2> QED BY <1>3, <1>4, <2>1, CappedAppend
<1>9. /\ OriginIn(x, Asked(Key[m])) /\ OnceIn(x) /\ ClosedIn(x, Settled \cup {m})
      /\ (FollowsIn(h) /\ h # <<>> /\ Last(h) = UserTurn(<<m>>) => FollowsIn(x))
  BY <1>6, <1>7, <1>8, SqueezeKeeps
<1>10. OriginIn(x, Asked(Key[m])') /\ ClosedIn(x, Settled')
  <2> HIDE DEF Asked, Settled
  <2>1. OriginIn(x, Asked(Key[m])')
    BY <1>2, <1>9, Zenon DEF OriginIn
  <2>2. ClosedIn(x, Settled')
    BY <1>2, <1>9, Zenon DEF ClosedIn
  <2> QED BY <2>1, <2>2
<1>11. pc[m] \in Processing /\ pc[m] \in Open /\ pc'[m] \notin Open
  BY <1>1, <1>2 DEF Processing, Open
<1>12. Wrote(m, x)
  BY <1>1, <1>2, <1>7, <1>9, <1>10, <1>11, Zenon DEF Wrote, h
<1> QED BY <1>2, <1>12

LEMMA RollbackWrites ==
  ASSUME CoreTypeOK, HistoryInv, NEW m \in Messages, Step(m, "settling", "leaving"),
         CanRollback(histories[Key[m]], UserTurn(<<m>>)),
         histories' = [histories EXCEPT ![Key[m]] = RollbackOrphanUserTurn(@)],
         \A w \in Messages : w # m => outcome'[w] = outcome[w]
  PROVE  (\E x : Wrote(m, x)) /\ \A k : Asked(k) \subseteq Asked(k)'
<1> DEFINE h == histories[Key[m]]
           x == RollbackOrphanUserTurn(h)
<1> USE DispatchAssumption DEF DispatchAssumption
<1>1. pc[m] = "settling" /\ pc' = [pc EXCEPT ![m] = "leaving"] /\ histories' = [histories EXCEPT ![Key[m]] = x]
  BY DEF Step, Goto
<1>2. /\ \A k : Asked(k) \subseteq Asked(k)'
      /\ pc'[m] = "leaving" /\ \A w \in Messages : w # m => pc'[w] = pc[w]
      /\ Settled' \subseteq Settled \cup {m}
  BY <1>1, OneMoves DEF AskedPCs
<1>3. h \in Seq(Turns(Messages)) /\ OriginIn(h, Asked(Key[m])) /\ OnceIn(h) /\ ClosedIn(h, Settled)
  BY DEF HistoryInv
<1>4. CanRollback(h, UserTurn(<<m>>))
  OBVIOUS
<1> HIDE DEF h, x
<1>5. x \in Seq(Turns(Messages)) /\ OriginIn(x, Asked(Key[m])) /\ OnceIn(x) /\ ClosedIn(x, Settled \cup {m})
      /\ (FollowsIn(h) => FollowsIn(x))
  BY <1>3, <1>4, TakenBackKeeps DEF x
<1>6. OriginIn(x, Asked(Key[m])') /\ ClosedIn(x, Settled')
  <2> HIDE DEF Asked, Settled
  <2>1. OriginIn(x, Asked(Key[m])')
    BY <1>2, <1>5, Zenon DEF OriginIn
  <2>2. ClosedIn(x, Settled')
    BY <1>2, <1>5, Zenon DEF ClosedIn
  <2> QED BY <2>1, <2>2
<1>7. pc[m] \in Processing /\ pc'[m] \notin Open
  BY <1>1, <1>2 DEF Processing, Open
<1>8. Wrote(m, x)
  BY <1>1, <1>2, <1>5, <1>6, <1>7, Zenon DEF Wrote, h
<1> QED BY <1>2, <1>8

LEMMA OverflowWrites ==
  ASSUME CoreTypeOK, HistoryInv, NEW m \in Messages, SettleOverflow(m)
  PROVE  (\E x : Wrote(m, x)) /\ \A k : Asked(k) \subseteq Asked(k)'
<1> DEFINE h == histories[Key[m]]
           x == CompactedTurns(h)
<1> USE DispatchAssumption DEF DispatchAssumption
<1>1. pc[m] = "settling" /\ pc' = [pc EXCEPT ![m] = "leaving"] /\ histories' = [histories EXCEPT ![Key[m]] = x]
      /\ outcome' = outcome /\ outcome[m] = "overflow"
  BY DEF SettleOverflow, Failed, Step, Goto
<1>2. /\ \A k : Asked(k) \subseteq Asked(k)'
      /\ pc'[m] = "leaving" /\ \A w \in Messages : w # m => pc'[w] = pc[w]
      /\ Settled' \subseteq Settled
  BY <1>1, OneMoves DEF AskedPCs
<1>3. h \in Seq(Turns(Messages)) /\ OriginIn(h, Asked(Key[m])) /\ OnceIn(h) /\ ClosedIn(h, Settled)
  BY DEF HistoryInv
<1> HIDE DEF h, x
<1>4. x \in Seq(Turns(Messages)) /\ \E place : Squeezed(h, Len(h), x, place)
  BY <1>3, CompactSqueezes DEF x
<1>5. OriginIn(x, Asked(Key[m])) /\ OnceIn(x) /\ ClosedIn(x, Settled) /\ (FollowsIn(h) => FollowsIn(x))
  BY <1>3, <1>4, SqueezeKeeps
<1>6. OriginIn(x, Asked(Key[m])') /\ ClosedIn(x, Settled')
  <2> HIDE DEF Asked, Settled
  <2>1. OriginIn(x, Asked(Key[m])')
    BY <1>2, <1>5, Zenon DEF OriginIn
  <2>2. ClosedIn(x, Settled')
    BY <1>2, <1>5, Zenon DEF ClosedIn
  <2> QED BY <2>1, <2>2
<1>7. pc[m] \in Processing /\ pc'[m] \notin Open
  BY <1>1, <1>2 DEF Processing, Open
<1>8. Settled' \subseteq Settled \cup {m}
  BY <1>2
<1>9. Wrote(m, x)
  BY <1>1, <1>2, <1>4, <1>5, <1>6, <1>7, <1>8, Zenon DEF Wrote, h
<1> QED BY <1>2, <1>9

(* Every other step leaves the histories alone, and closes no question that*)
(* had been asked.                                                         *)
LeftAlone ==
  /\ UNCHANGED histories
  /\ \A m \in Settled' : m \in Settled \/ m \notin Asked(Key[m])
  /\ \A m \in Messages : pc'[m] \in Open => pc[m] \in Open

LEMMA OneMovesAlone ==
  ASSUME CoreTypeOK, NEW m \in Messages, NEW l, pc' = [pc EXCEPT ![m] = l], UNCHANGED histories,
         pc[m] \in AskedPCs => l \in AskedPCs, l \in Open => pc[m] \in Open,
         \A w \in Messages : w # m => outcome'[w] = outcome[w],
         l \in {"leaving"} \cup Over /\ outcome'[m] \in {"ok", "vision", "error", "timeout"} =>
           pc[m] \notin AskedPCs \/ m \in Settled
  PROVE  LeftAlone /\ \A k : Asked(k) \subseteq Asked(k)'
<1>1. /\ \A k : Asked(k) \subseteq Asked(k)'
      /\ pc'[m] = l /\ \A w \in Messages : w # m => pc'[w] = pc[w]
      /\ Settled' \subseteq Settled \cup {m}
  BY OneMoves
<1>2. m \in Settled' => l \in {"leaving"} \cup Over /\ outcome'[m] \in {"ok", "vision", "error", "timeout"}
  BY <1>1 DEF Settled
<1>3. pc[m] \notin AskedPCs => m \notin Asked(Key[m])
  BY DEF Asked
<1> HIDE DEF Settled, Asked
<1>4. \A w \in Settled' : w \in Settled \/ w \notin Asked(Key[w])
  BY <1>1, <1>2, <1>3, Zenon
<1>5. \A w \in Messages : pc'[w] \in Open => pc[w] \in Open
  BY <1>1, Zenon
<1> QED BY <1>1, <1>4, <1>5 DEF LeftAlone

LEMMA HistoryStep ==
  ASSUME CoreTypeOK, HistoryInv, [Next]_vars
  PROVE  /\ \A k : Asked(k) \subseteq Asked(k)'
         /\ LeftAlone \/ \E m \in Messages : \E x : Wrote(m, x)
<1> DEFINE Goal == /\ \A k : Asked(k) \subseteq Asked(k)'
                   /\ LeftAlone \/ \E m \in Messages : \E x : Wrote(m, x)
<1>1. CASE UNCHANGED <<pc, histories, outcome>>
  <2>1. (\A k : Asked(k)' = Asked(k)) /\ Settled' = Settled
    BY <1>1 DEF Asked, Settled
  <2> QED BY <1>1, <2>1 DEF LeftAlone
<1>2. ASSUME NEW m \in Messages, Deliver(m) \/ LoopStep(m) \/ Start(m) \/ Finish(m) \/ Generate(m)
      PROVE  Goal
  <2>1. CASE NotifyWaiters(m)
    <3>1. /\ UNCHANGED <<histories, outcome>> /\ pc[m] = "notifying"
          /\ pc' = [w \in Messages |-> IF w = m THEN "finished" ELSE IF w \in Parked(m) THEN "gate" ELSE pc[w]]
      BY <2>1 DEF NotifyWaiters, chatVars
    <3>2. \A w \in Messages : pc'[w] = pc[w] \/ (pc[w] = "notifying" /\ pc'[w] = "finished")
                              \/ (pc[w] = "parked" /\ pc'[w] = "gate")
      BY <3>1 DEF Parked
    <3>3. \A k : Asked(k) \subseteq Asked(k)'
      BY <3>2 DEF Asked, AskedPCs, Over
    <3>4. Settled' \subseteq Settled
      BY <3>1, <3>2 DEF Settled, Over
    <3>5. \A w \in Messages : pc'[w] \in Open => pc[w] \in Open
      BY <3>2 DEF Open
    <3> HIDE DEF Settled, Asked
    <3> QED BY <3>1, <3>3, <3>4, <3>5 DEF LeftAlone
  <2>2. CASE ~NotifyWaiters(m)
    <3>1. /\ UNCHANGED histories /\ \A w \in Messages : w # m => outcome'[w] = outcome[w]
          /\ \E l : /\ pc' = [pc EXCEPT ![m] = l] /\ (pc[m] \in AskedPCs => l \in AskedPCs) /\ (l \in Open => pc[m] \in Open)
                    /\ l \in {"leaving"} \cup Over => pc[m] \in {"leaving"} \cup Over /\ UNCHANGED outcome
      <4> USE DEF Step, Goto, chatVars, AskedPCs, Open, Over, CoreTypeOK
      <4>1. CASE Deliver(m) \/ LoopStep(m)
        BY <4>1 DEF Deliver, LoopStep, Receive, Spawn
      <4>2. CASE StartUntracked(m) \/ CancelPrevious(m) \/ RegisterWaiter(m)
        BY <4>2 DEF StartUntracked, CancelPrevious, RegisterWaiter
      <4>3. CASE InsertEntry(m)
        <5>1. pc' = [pc EXCEPT ![m] = "gate"] \/ pc' = [pc EXCEPT ![m] = "cancelling"]
          BY <4>3 DEF InsertEntry
        <5> QED BY <4>3, <5>1 DEF InsertEntry
      <4>4. CASE CheckDone(m)
        <5>1. pc' = [pc EXCEPT ![m] = "gate"] \/ pc' = [pc EXCEPT ![m] = "unregistered"]
          BY <4>4 DEF CheckDone
        <5> QED BY <4>4, <5>1 DEF CheckDone
      <4>5. CASE RemoveEntry(m) \/ StoreDone(m)
        BY <4>5 DEF RemoveEntry, StoreDone
      <4>6. CASE Generate(m)
        BY <4>6 DEF Generate, ObserveCancellation, EndGeneration, Ended
      <4> QED BY <1>2, <2>2, <4>1, <4>2, <4>3, <4>4, <4>5, <4>6 DEF Start, Finish
    <3>2. PICK l : /\ pc' = [pc EXCEPT ![m] = l] /\ (pc[m] \in AskedPCs => l \in AskedPCs) /\ (l \in Open => pc[m] \in Open)
                   /\ l \in {"leaving"} \cup Over => pc[m] \in {"leaving"} \cup Over /\ UNCHANGED outcome
      BY <3>1
    <3>3. l \in {"leaving"} \cup Over /\ outcome'[m] \in {"ok", "vision", "error", "timeout"} =>
            pc[m] \notin AskedPCs \/ m \in Settled
      BY <3>2 DEF Settled
    <3> QED BY <3>1, <3>2, <3>3, OneMovesAlone
  <2> QED BY <2>1, <2>2
<1>3. ASSUME NEW m \in Messages, Admit(m)
      PROVE  Goal
  <2>1. CASE EnterProcessing(m)
    <3>1. /\ UNCHANGED histories /\ \A w \in Messages : w # m => outcome'[w] = outcome[w]
          /\ pc[m] = "gate" /\ \E l \in {"leaving", "admitted"} : pc' = [pc EXCEPT ![m] = l]
      BY <2>1 DEF EnterProcessing, Step, Goto, Ended, CoreTypeOK
    <3>2. pc[m] \notin AskedPCs /\ "leaving" \notin Open /\ "admitted" \notin Open
      BY <3>1 DEF AskedPCs, Over, Open
    <3> QED BY <3>1, <3>2, OneMovesAlone
  <2>2. CASE TurnAway(m)
    <3>1. /\ UNCHANGED histories /\ \A w \in Messages : w # m => outcome'[w] = outcome[w]
          /\ pc[m] = "admitted" /\ pc' = [pc EXCEPT ![m] = "leaving"]
      BY <2>2 DEF TurnAway, Step, Goto, chatVars
    <3>2. pc[m] \notin AskedPCs /\ "leaving" \notin Open
      BY <3>1 DEF AskedPCs, Over, Open
    <3> QED BY <3>1, <3>2, OneMovesAlone
  <2>3. CASE StartGenerating(m)
    <3>1. /\ UNCHANGED histories /\ \A w \in Messages : w # m => outcome'[w] = outcome[w]
          /\ pc[m] = "asked" /\ pc' = [pc EXCEPT ![m] = "generating"]
      BY <2>3 DEF StartGenerating, Step, Goto
    <3>2. pc[m] \in Open /\ "generating" \in AskedPCs /\ "generating" \notin {"leaving"} \cup Over
      BY <3>1 DEF AskedPCs, Over, Open
    <3> QED BY <3>1, <3>2, OneMovesAlone
  <2>4. CASE RunNewSession(m)
    BY <2>4, NewSessionWrites
  <2>5. CASE AppendUserTurn(m)
    BY <2>5, UserTurnWrites
  <2> QED BY <1>3, <2>1, <2>2, <2>3, <2>4, <2>5 DEF Admit
<1>4. ASSUME NEW m \in Messages, Settle(m)
      PROVE  Goal
  <2>1. CASE SettleCancelled(m) \/ SettleWithheld(m)
    <3>1. /\ UNCHANGED histories /\ \A w \in Messages : w # m => outcome'[w] = outcome[w]
          /\ pc[m] = "settling" /\ pc' = [pc EXCEPT ![m] = "leaving"] /\ outcome'[m] \in {"cancelled", "withheld"}
      BY <2>1 DEF SettleCancelled, SettleWithheld, Step, Goto, Ended, CoreTypeOK
    <3>2. "leaving" \notin Open /\ "leaving" \in AskedPCs
      BY DEF AskedPCs, Open
    <3> QED BY <3>1, <3>2, OneMovesAlone
  <2>2. CASE SettleReply(m) \/ SettleTimeout(m)
    <3>1. Step(m, "settling", "leaving") /\ AppendAssistantTurn(m) /\ outcome' = outcome
      BY <2>2 DEF SettleReply, SettleTimeout
    <3> QED BY <3>1, AnswerWrites
  <2>3. CASE SettleFailure(m)
    <3>1. Step(m, "settling", "leaving") /\ outcome' = outcome
      BY <2>3 DEF SettleFailure
    <3>2. CASE AppendAssistantTurn(m)
      BY <3>1, <3>2, AnswerWrites
    <3>3. CASE ~AppendAssistantTurn(m)
      <4>1. /\ CanRollback(histories[Key[m]], UserTurn(<<m>>))
            /\ histories' = [histories EXCEPT ![Key[m]] = RollbackOrphanUserTurn(@)]
        BY <2>3, <3>3, Zenon DEF SettleFailure
      <4> QED BY <3>1, <4>1, RollbackWrites
    <3> QED BY <3>2, <3>3
  <2>4. CASE SettleOverflow(m)
    BY <2>4, OverflowWrites
  <2> QED BY <1>4, <2>1, <2>2, <2>3, <2>4 DEF Settle
<1>5. ASSUME NEW m \in Messages, Panic(m)
      PROVE  Goal
  <2>1. /\ UNCHANGED histories /\ \A w \in Messages : w # m => outcome'[w] = outcome[w]
        /\ pc' = [pc EXCEPT ![m] = "crashed"]
    BY <1>5 DEF Panic, Goto, chatVars
  <2>2. "crashed" \notin Open /\ "crashed" \in AskedPCs /\ "crashed" \notin {"leaving"} \cup Over
    BY DEF AskedPCs, Open, Over
  <2> QED BY <2>1, <2>2, OneMovesAlone
<1>6. CASE CloseInbox \/ LoopReturns \/ UNCHANGED vars
  BY <1>1, <1>6 DEF CloseInbox, LoopReturns, vars, chatVars
<1> QED BY <1>2, <1>3, <1>4, <1>5, <1>6 DEF Next, Progress

LEMMA HistoryInductive ==
  /\ Init => HistoryInv
  /\ CoreTypeOK /\ HistoryInv /\ [Next]_vars => HistoryInv'
<1>1. Init => HistoryInv
  <2> SUFFICES ASSUME Init PROVE HistoryInv
    OBVIOUS
  <2>1. histories = [k \in Keys |-> <<>>] /\ DOMAIN <<>> = {} /\ <<>> \in Seq(Turns(Messages))
    BY DEF Init
  <2>2. \A k \in Keys : histories[k] = <<>>
    BY <2>1
  <2> QED BY <2>1, <2>2 DEF HistoryInv, OriginIn, OnceIn, ClosedIn
<1>2. CoreTypeOK /\ HistoryInv /\ [Next]_vars => HistoryInv'
  <2> SUFFICES ASSUME CoreTypeOK, HistoryInv, [Next]_vars PROVE HistoryInv'
    OBVIOUS
  <2>1. \A k : Asked(k) \subseteq Asked(k)'
    BY HistoryStep
  <2>2. CASE LeftAlone
    BY <2>1, <2>2, HistoryAlone DEF LeftAlone
  <2>3. ASSUME NEW m \in Messages, NEW x, Wrote(m, x)
        PROVE  HistoryInv'
    <3>1. /\ x \in Seq(Turns(Messages)) /\ histories' = [histories EXCEPT ![Key[m]] = x]
          /\ Settled' \subseteq Settled \cup {m}
          /\ OriginIn(x, Asked(Key[m])') /\ OnceIn(x) /\ ClosedIn(x, Settled')
      BY <2>3 DEF Wrote
    <3> QED BY <2>1, <3>1, HistoryWritten
  <2> QED BY <2>2, <2>3, HistoryStep
<1> QED BY <1>1, <1>2

(* The histories' invariant: they are sequences of turns, and say nothing  *)
(* but what messages of their key that got that far said, no question      *)
(* twice, and no question of a message that is worked off unanswered.      *)
THEOREM HistoryInvariant == Spec => []HistoryInv
BY HistoryInductive, CoreTypeCorrect, PTL DEF Spec

(* All of the dispatcher's variables keep their types, the histories'      *)
(* turns through every fold and every cut among them.                      *)
THEOREM TypeCorrect == Spec => []TypeOK
<1>1. CoreTypeOK /\ HistoryInv => TypeOK
  <2> SUFFICES ASSUME CoreTypeOK, HistoryInv PROVE TypeOK
    OBVIOUS
  <2>1. DOMAIN histories = Keys /\ \A k \in Keys : histories[k] \in Seq(Turns(Messages))
    BY DEF HistoryInv
  <2>2. ASSUME NEW k \in Keys, NEW i \in DOMAIN histories[k]
        PROVE  histories[k][i].role \in {"user", "assistant"} /\ histories[k][i].parts \in Seq(Messages)
    <3>1. histories[k][i] \in Turns(Messages)
      BY <2>1
    <3> QED BY <3>1 DEF Turns
  <2> QED BY <2>1, <2>2 DEF TypeOK, HistoryTypeOK
<1> QED BY <1>1, CoreTypeCorrect, HistoryInvariant, PTL

(* The question of a message that was answered, failed or timed out has an *)
(* assistant turn behind it, however many workers of the sender run at     *)
(* once and whatever the caps and the compactions cut and merge.           *)
THEOREM QuestionsAreClosedCorrect == Spec => []QuestionsAreClosed
<1>1. HistoryInv => QuestionsAreClosed
  BY DEF HistoryInv, ClosedIn, Settled, QuestionsAreClosed
<1> QED BY <1>1, HistoryInvariant, PTL

-----------------------------------------------------------------------------
(* Keys that are served one message at a time. *)

SerialHistory ==
  \A m \in Messages : Serialized(m) =>
    /\ pc[m] \in Open => histories[Key[m]] # <<>> /\ Last(histories[Key[m]]) = UserTurn(<<m>>)
    /\ FollowsIn(histories[Key[m]])

LEMMA SerialHistoryInductive ==
  /\ Init => SerialHistory
  /\ SerialPerScope /\ CoreTypeOK /\ HistoryInv /\ SerialHistory /\ [Next]_vars => SerialHistory'
<1> USE DispatchAssumption DEF DispatchAssumption
<1>1. Init => SerialHistory
  <2> SUFFICES ASSUME Init, NEW m \in Messages
               PROVE  pc[m] \notin Open /\ FollowsIn(histories[Key[m]])
    BY DEF SerialHistory
  <2>1. pc[m] \notin Open
    BY DEF Init, Open
  <2>2. histories[Key[m]] = <<>> /\ 2..Len(<<>>) = {}
    BY DEF Init
  <2> QED BY <2>1, <2>2 DEF FollowsIn
<1>2. SerialPerScope /\ CoreTypeOK /\ HistoryInv /\ SerialHistory /\ [Next]_vars => SerialHistory'
  <2> SUFFICES ASSUME SerialPerScope, CoreTypeOK, HistoryInv, SerialHistory, [Next]_vars,
                      NEW m \in Messages, Serialized(m)
               PROVE  /\ pc'[m] \in Open => histories'[Key[m]] # <<>> /\ Last(histories'[Key[m]]) = UserTurn(<<m>>)
                      /\ FollowsIn(histories'[Key[m]])
    BY DEF SerialHistory, Serialized
  <2>1. /\ pc[m] \in Open => histories[Key[m]] # <<>> /\ Last(histories[Key[m]]) = UserTurn(<<m>>)
        /\ FollowsIn(histories[Key[m]])
    BY DEF SerialHistory
  <2>2. CASE LeftAlone
    BY <2>1, <2>2 DEF LeftAlone
  <2>3. ASSUME NEW w \in Messages, NEW x, Wrote(w, x)
        PROVE  /\ pc'[m] \in Open => histories'[Key[m]] # <<>> /\ Last(histories'[Key[m]]) = UserTurn(<<m>>)
               /\ FollowsIn(histories'[Key[m]])
    <3>1. /\ histories' = [histories EXCEPT ![Key[w]] = x] /\ pc[w] \in Processing
          /\ \A u \in Messages : u # w => pc'[u] = pc[u]
          /\ pc'[w] \in Open => x # <<>> /\ Last(x) = UserTurn(<<w>>)
          /\ FollowsIn(histories[Key[w]])
             /\ (pc[w] \in Open => histories[Key[w]] # <<>> /\ Last(histories[Key[w]]) = UserTurn(<<w>>))
             => FollowsIn(x)
      BY <2>3, Zenon DEF Wrote
    <3>2. histories \in [Keys -> Seq(Turns(Messages))]
      BY DEF HistoryInv
    <3>3. CASE Key[w] # Key[m]
      <4>1. histories'[Key[m]] = histories[Key[m]] /\ pc'[m] = pc[m]
        BY <3>1, <3>2, <3>3
      <4> QED BY <2>1, <4>1
    <3>4. CASE Key[w] = Key[m]
      <4>1. histories'[Key[m]] = x
        BY <3>1, <3>2, <3>4
      <4>2. Serialized(w)
        BY <3>4 DEF Serialized
      <4>3. FollowsIn(x)
        BY <3>1, <4>2 DEF SerialHistory
      <4>4. CASE w = m
        BY <3>1, <4>1, <4>3, <4>4
      <4>5. CASE w # m
        <5>1. m \in Interrupting /\ w \in Interrupting /\ Scope[w] = Scope[m]
          BY <3>4 DEF Serialized
        <5>2. pc[m] \notin Processing /\ pc'[m] = pc[m]
          BY <3>1, <4>5, <5>1 DEF SerialPerScope
        <5>3. pc'[m] \notin Open
          BY <5>2 DEF Open, Processing
        <5> QED BY <4>1, <4>3, <5>3
      <4> QED BY <4>4, <4>5
    <3> QED BY <3>3, <3>4
  <2> QED BY <2>2, <2>3, HistoryStep
<1> QED BY <1>1, <1>2

(* In a history that is served one message at a time the last turn is the  *)
(* open question, and every answer is behind its question.                 *)
THEOREM SerialHistoryInvariant == Spec => []SerialHistory
BY SerialHistoryInductive, SerialPerScopeCorrect, CoreTypeCorrect, HistoryInvariant, PTL DEF Spec

(* An answer stands directly behind its question when the sender is served *)
(* one message at a time.                                                  *)
THEOREM AnswerFollowsQuestionCorrect == Spec => []AnswerFollowsQuestion
<1>1. HistoryInv /\ SerialHistory => AnswerFollowsQuestion
  <2> SUFFICES ASSUME HistoryInv, SerialHistory, NEW k \in Keys, NEW i \in 2..Len(histories[k]), NEW m \in Messages,
                      Serialized(m), Says(histories[k], i, "assistant", m)
               PROVE  Says(histories[k], i - 1, "user", m)
    BY DEF AnswerFollowsQuestion
  <2>1. histories[k] \in Seq(Turns(Messages)) /\ OriginIn(histories[k], Asked(k))
    BY DEF HistoryInv
  <2>2. i \in DOMAIN histories[k] /\ Holds(histories[k][i], m)
    <3>1. Holds(histories[k][i], m)
      BY DEF Says, Holds, In
    <3>2. Len(histories[k]) \in Nat /\ DOMAIN histories[k] = 1..Len(histories[k])
      BY <2>1
    <3> QED BY <3>1, <3>2
  <2>3. m \in Asked(k)
    BY <2>1, <2>2 DEF OriginIn
  <2>4. FollowsIn(histories[k])
    BY <2>3 DEF Asked, SerialHistory
  <2> QED BY <2>4 DEF FollowsIn
<1> QED BY <1>1, HistoryInvariant, SerialHistoryInvariant, PTL

LEMMA PromptEnds ==
  ASSUME NEW h \in Seq(Turns(Messages)), h # <<>>, NEW m \in Messages, Last(h) = UserTurn(<<m>>),
         NEW prompt, prompt = NormalizeCachedTurns(h)
  PROVE  prompt # <<>> /\ Last(prompt).role = "user" /\ Last(Last(prompt).parts) = m
<1> DEFINE n == Len(h)
           turn == UserTurn(<<m>>)
<1>1. n \in Nat /\ n \in 1..n /\ h[n] = turn
  BY EmptySeq DEF Last
<1>2. turn \in Turns(Messages) /\ turn.role = "user" /\ turn.parts = <<m>>
  BY DEF UserTurn, Turns
<1>3. PICK kept : Keeps(kept, h)
  BY Unfolded
<1> HIDE DEF turn
<1>4. PICK place : Normalized(Messages, h, n - 1, kept[n - 1], place)
  <2>1. n - 1 \in 0..Len(h)
    BY <1>1
  <2> QED BY <1>3, <2>1, KeptIsNormalized
<1> DEFINE k == kept[n - 1]
           l == Len(k)
<1>5. k \in Seq(Turns(Messages))
  BY <1>4, Zenon DEF Normalized
<1>6. prompt = NormalizeStep(k, turn)
  BY <1>1, <1>3 DEF Keeps
<1> HIDE DEF k
<1>7. prompt \in Seq(Turns(Messages)) /\ l \in Nat
      /\ (Opens(k, turn, prompt, l) \/ LeftOut(k, turn, prompt, l) \/ Joins(k, turn, prompt, l))
  BY <1>2, <1>5, <1>6, StepCases
<1>8. ~LeftOut(k, turn, prompt, l)
  BY <1>2 DEF LeftOut
<1>9. CASE Opens(k, turn, prompt, l)
  <2>1. prompt = Append(k, turn)
    BY <1>9 DEF Opens
  <2>2. Len(prompt) = l + 1 /\ prompt[l + 1] = turn
    BY <1>2, <1>5, <2>1
  <2>3. Len(prompt) # 0 /\ Len(<<>>) = 0
    BY <1>7, <2>2
  <2>4. prompt # <<>> /\ Last(prompt) = turn
    BY <2>2, <2>3, Zenon DEF Last
  <2>5. Last(<<m>>) = m
    BY DEF Last
  <2> QED BY <1>2, <2>4, <2>5
<1>10. CASE Joins(k, turn, prompt, l)
  <2>1. /\ l > 0 /\ Len(prompt) = l /\ k[l].role = "user"
        /\ prompt[l].role = k[l].role /\ prompt[l].parts = k[l].parts \o <<m>>
    BY <1>2, <1>10 DEF Joins
  <2>2. Len(prompt) # 0 /\ Len(<<>>) = 0 /\ l \in 1..Len(k)
    BY <1>7, <2>1
  <2>3. prompt # <<>> /\ Last(prompt) = prompt[l]
    BY <2>1, <2>2, Zenon DEF Last
  <2>4. k[l].parts \in Seq(Messages)
    <3>1. k[l] \in Turns(Messages)
      BY <1>5, <2>2
    <3> QED BY <3>1 DEF Turns
  <2> DEFINE p == k[l].parts
  <2> HIDE DEF p
  <2>5. Last(p \o <<m>>) = m
    <3>1. p \in Seq(Messages) /\ <<m>> \in Seq(Messages)
      BY <2>4 DEF p
    <3>2. Len(p \o <<m>>) = Len(p) + 1 /\ (p \o <<m>>)[Len(p) + 1] = m /\ Len(p) \in Nat
      BY <3>1
    <3> QED BY <3>2 DEF Last
  <2> QED BY <2>1, <2>3, <2>5, Zenon DEF p
<1> QED BY <1>7, <1>8, <1>9, <1>10

(* The model is always asked the message at hand, when the sender is       *)
(* served one message at a time: the prompt ends with it, and in the       *)
(* user's role.                                                            *)
THEOREM PromptEndsWithQuestionCorrect == Spec => []PromptEndsWithQuestion
<1>1. HistoryInv /\ SerialHistory => PromptEndsWithQuestion
  <2> SUFFICES ASSUME HistoryInv, SerialHistory, NEW m \in Messages, pc[m] = "asked", Serialized(m)
               PROVE  Prompt(m) # <<>> /\ Last(Prompt(m)).role = "user" /\ Last(Last(Prompt(m)).parts) = m
    BY DEF PromptEndsWithQuestion
  <2> DEFINE h == histories[Key[m]]
  <2>1. h \in Seq(Turns(Messages))
    BY DispatchAssumption DEF DispatchAssumption, HistoryInv
  <2>2. h # <<>> /\ Last(h) = UserTurn(<<m>>)
    BY DEF SerialHistory, Open
  <2>3. Prompt(m) = NormalizeCachedTurns(h)
    BY DEF Prompt
  <2> HIDE DEF h
  <2> QED BY <2>1, <2>2, <2>3, PromptEnds
<1> QED BY <1>1, HistoryInvariant, SerialHistoryInvariant, PTL

-----------------------------------------------------------------------------
(* The chat. *)

(* A message is shown as worked on while it is, after its worker crashed,  *)
(* and when its reply was withheld.                                        *)
ChatInv ==
  \A m \in drafts \cup eyes :
    \/ pc[m] \in {"generating", "settling", "crashed"}
    \/ pc[m] \in {"leaving"} \cup Over /\ outcome[m] = "withheld"

LEMMA ChatInductive ==
  /\ Init => ChatInv
  /\ CoreTypeOK /\ ChatInv /\ [Next]_vars => ChatInv'
<1>1. Init => ChatInv
  BY DEF Init, ChatInv
<1>2. CoreTypeOK /\ ChatInv /\ [Next]_vars => ChatInv'
  <2> SUFFICES ASSUME CoreTypeOK, ChatInv, [Next]_vars PROVE ChatInv'
    OBVIOUS
  <2> USE DEF ChatInv, CoreTypeOK, Step, Goto, Over
  <2>1. CASE UNCHANGED <<pc, outcome, drafts, eyes>>
    BY <2>1
  <2>2. ASSUME NEW m \in Messages, Deliver(m) \/ LoopStep(m) \/ Start(m) \/ Finish(m) \/ Generate(m) \/ Panic(m)
        PROVE  ChatInv'
    <3>1. CASE Deliver(m) \/ LoopStep(m)
      BY <3>1 DEF Deliver, LoopStep, Receive, Spawn, chatVars
    <3>2. CASE Start(m)
      <4>1. \E l : pc' = [pc EXCEPT ![m] = l]
        BY <2>2, <3>2 DEF Start, StartUntracked, InsertEntry, CancelPrevious, CheckDone, RegisterWaiter
      <4>2. pc[m] \in {"spawned", "cancelling", "checking", "unregistered"} /\ UNCHANGED chatVars
        BY <3>2 DEF Start, StartUntracked, InsertEntry, CancelPrevious, CheckDone, RegisterWaiter
      <4> QED BY <4>1, <4>2 DEF chatVars
    <3>3. CASE RemoveEntry(m) \/ StoreDone(m)
      BY <3>3 DEF RemoveEntry, StoreDone, chatVars
    <3>4. CASE NotifyWaiters(m)
      BY <3>4 DEF NotifyWaiters, Parked, chatVars
    <3>5. CASE Generate(m)
      BY <3>5 DEF Generate, ObserveCancellation, EndGeneration, Ended
    <3>6. CASE Panic(m)
      BY <3>6 DEF Panic, Processing, chatVars
    <3> QED BY <2>2, <3>1, <3>2, <3>3, <3>4, <3>5, <3>6 DEF Finish
  <2>3. ASSUME NEW m \in Messages, Admit(m)
        PROVE  ChatInv'
    <3>1. CASE EnterProcessing(m)
      BY <3>1 DEF EnterProcessing, Ended
    <3>2. CASE TurnAway(m) \/ RunNewSession(m) \/ AppendUserTurn(m) \/ StartGenerating(m)
      BY <3>2 DEF TurnAway, RunNewSession, AppendUserTurn, StartGenerating, chatVars
    <3> QED BY <2>3, <3>1, <3>2 DEF Admit
  <2>4. ASSUME NEW m \in Messages, Settle(m)
        PROVE  ChatInv'
    <3>1. CASE SettleWithheld(m)
      BY <3>1 DEF SettleWithheld, Ended
    <3>2. CASE ~SettleWithheld(m)
      <4>1. TidyChat(m) /\ pc' = [pc EXCEPT ![m] = "leaving"] /\ \A w \in Messages : w # m => outcome'[w] = outcome[w]
        BY <2>4, <3>2 DEF Settle, SettleCancelled, SettleReply, SettleOverflow, SettleFailure, SettleTimeout, Ended
      <4> QED BY <4>1 DEF TidyChat
    <3> QED BY <3>1, <3>2
  <2>5. CASE CloseInbox \/ LoopReturns \/ UNCHANGED vars
    BY <2>1, <2>5 DEF CloseInbox, LoopReturns, vars, chatVars
  <2> QED BY <2>2, <2>3, <2>4, <2>5 DEF Next, Progress
<1> QED BY <1>1, <1>2

(* However its processing ended, a finished message is not shown as worked *)
(* on, unless a hook withheld the reply.                                   *)
THEOREM FinishedIsTidyCorrect == Spec => []FinishedIsTidy
<1>1. ChatInv => FinishedIsTidy
  BY DEF ChatInv, FinishedIsTidy, Over
<1>2. Spec => []ChatInv
  BY ChatInductive, CoreTypeCorrect, PTL DEF Spec
<1> QED BY <1>1, <1>2, PTL

-----------------------------------------------------------------------------
(* The permits. *)

PermitInv == IsFiniteSet(Holding) /\ PermitsAccounted

LEMMA PermitTaken ==
  ASSUME CoreTypeOK, PermitInv, NEW m \in Messages, m \notin Holding, Holding' = Holding \cup {m},
         permits > 0, permits' = permits - 1
  PROVE  PermitInv'
<1>1. IsFiniteSet(Holding') /\ Cardinality(Holding') = Cardinality(Holding) + 1
  BY FS_AddElement DEF PermitInv
<1>2. Cardinality(Holding) \in Nat /\ permits \in Nat
  BY FS_CardinalityType DEF PermitInv, CoreTypeOK
<1>3. permits' + Cardinality(Holding') = permits + Cardinality(Holding)
  BY <1>1, <1>2
<1> QED BY <1>1, <1>3 DEF PermitInv, PermitsAccounted

LEMMA PermitReturned ==
  ASSUME CoreTypeOK, PermitInv, NEW m \in Messages, m \in Holding, Holding' = Holding \ {m}, permits' = permits + 1
  PROVE  PermitInv'
<1>1. IsFiniteSet(Holding') /\ Cardinality(Holding') = Cardinality(Holding) - 1
  BY FS_RemoveElement DEF PermitInv
<1>2. Cardinality(Holding) \in Nat /\ permits \in Nat
  BY FS_CardinalityType DEF PermitInv, CoreTypeOK
<1>3. permits' + Cardinality(Holding') = permits + Cardinality(Holding)
  BY <1>1, <1>2
<1> QED BY <1>1, <1>3 DEF PermitInv, PermitsAccounted

LEMMA PermitKept ==
  ASSUME PermitInv, Holding' = Holding, permits' = permits
  PROVE  PermitInv'
BY DEF PermitInv, PermitsAccounted

Unpermitted == {"away", "inbox", "held", "finished", "crashed"}

LEMMA PermitInductive ==
  /\ Init => PermitInv
  /\ CoreTypeOK /\ PermitInv /\ [Next]_vars => PermitInv'
<1>1. Init => PermitInv
  <2> SUFFICES ASSUME Init PROVE PermitInv
    OBVIOUS
  <2>1. Holding = {} /\ permits = MaxInFlight
    BY DEF Init, Holding
  <2>2. MaxInFlight + 0 = MaxInFlight
    BY DispatchAssumption DEF DispatchAssumption
  <2> QED BY <2>1, <2>2, FS_EmptySet DEF PermitInv, PermitsAccounted
<1>2. CoreTypeOK /\ PermitInv /\ [Next]_vars => PermitInv'
  <2> SUFFICES ASSUME CoreTypeOK, PermitInv, [Next]_vars PROVE PermitInv'
    OBVIOUS
  <2>1. ASSUME NEW m \in Messages, NEW l, pc' = [pc EXCEPT ![m] = l],
               l \in Unpermitted <=> pc[m] \in Unpermitted
        PROVE  Holding' = Holding
    BY <2>1 DEF Holding, CoreTypeOK, Unpermitted
  <2>2. ASSUME NEW m \in Messages, Deliver(m) \/ Receive(m) \/ Start(m) \/ Admit(m) \/ Generate(m) \/ Settle(m)
                                   \/ RemoveEntry(m) \/ StoreDone(m)
        PROVE  PermitInv'
    <3> DEFINE Stays == /\ permits' = permits
                        /\ \E l : pc' = [pc EXCEPT ![m] = l] /\ (l \in Unpermitted <=> pc[m] \in Unpermitted)
    <3> USE DEF Step, Goto, Unpermitted, loopVars
    <3>1. CASE Deliver(m) \/ Receive(m) \/ RemoveEntry(m) \/ StoreDone(m)
      <4>1. Stays
        BY <3>1 DEF Deliver, Receive, RemoveEntry, StoreDone
      <4> QED BY <4>1, <2>1, PermitKept
    <3>2. CASE Start(m)
      <4>1. permits' = permits
        BY <3>2 DEF Start, StartUntracked, InsertEntry, CancelPrevious, CheckDone, RegisterWaiter
      <4>2. \E l \in {"gate", "cancelling", "checking", "unregistered", "parked"} : pc' = [pc EXCEPT ![m] = l]
        BY <3>2 DEF Start, StartUntracked, InsertEntry, CancelPrevious, CheckDone, RegisterWaiter
      <4>3. pc[m] \in {"spawned", "cancelling", "checking", "unregistered"}
        BY <3>2 DEF Start, StartUntracked, InsertEntry, CancelPrevious, CheckDone, RegisterWaiter
      <4>4. Stays
        BY <4>1, <4>2, <4>3
      <4> QED BY <4>4, <2>1, PermitKept
    <3>3. CASE Admit(m) \/ Generate(m) \/ Settle(m)
      <4>1. permits' = permits
        BY <3>3 DEF Admit, EnterProcessing, TurnAway, RunNewSession, AppendUserTurn, StartGenerating,
          Generate, ObserveCancellation, EndGeneration,
          Settle, SettleCancelled, SettleWithheld, SettleReply, SettleOverflow, SettleFailure, SettleTimeout
      <4>2. \E l \in Processing : pc[m] \in Processing /\ pc' = [pc EXCEPT ![m] = l]
        BY <3>3 DEF Admit, EnterProcessing, TurnAway, RunNewSession, AppendUserTurn, StartGenerating,
          Generate, ObserveCancellation, EndGeneration, Processing,
          Settle, SettleCancelled, SettleWithheld, SettleReply, SettleOverflow, SettleFailure, SettleTimeout
      <4>3. Stays
        BY <4>1, <4>2 DEF Processing
      <4> QED BY <4>3, <2>1, PermitKept
    <3>4. Stays => PermitInv'
      BY <2>1, PermitKept
    <3> QED BY <2>2, <3>1, <3>2, <3>3, <3>4
  <2>3. ASSUME NEW m \in Messages, Spawn(m)
        PROVE  PermitInv'
    <3>1. m \notin Holding /\ Holding' = Holding \cup {m} /\ permits > 0 /\ permits' = permits - 1
      BY <2>3 DEF Spawn, Step, Goto, Holding, CoreTypeOK
    <3> QED BY <3>1, PermitTaken
  <2>4. ASSUME NEW m \in Messages, NotifyWaiters(m)
        PROVE  PermitInv'
    <3>1. m \in Holding /\ Holding' = Holding \ {m} /\ permits' = permits + 1
      BY <2>4 DEF NotifyWaiters, Parked, Holding
    <3> QED BY <3>1, PermitReturned
  <2>5. ASSUME NEW m \in Messages, Panic(m)
        PROVE  PermitInv'
    <3>1. m \in Holding /\ Holding' = Holding \ {m} /\ permits' = permits + 1
      BY <2>5 DEF Panic, Goto, Processing, Holding, CoreTypeOK
    <3> QED BY <3>1, PermitReturned
  <2>6. CASE CloseInbox \/ LoopReturns \/ UNCHANGED vars
    <3>1. Holding' = Holding /\ permits' = permits
      BY <2>6 DEF CloseInbox, LoopReturns, vars, loopVars, Holding
    <3> QED BY <3>1, PermitKept
  <2> QED BY <2>2, <2>3, <2>4, <2>5, <2>6 DEF Next, Progress, LoopStep, Finish
<1> QED BY <1>1, <1>2

(* Workers in flight and free permits always add up to the semaphore's     *)
(* permits: no more workers run than there are permits, and neither an     *)
(* early return nor a panic loses one.                                     *)
THEOREM PermitsAccountedCorrect == Spec => []PermitsAccounted
<1>1. Spec => []PermitInv
  BY PermitInductive, CoreTypeCorrect, PTL DEF Spec
<1>2. PermitInv => PermitsAccounted
  BY DEF PermitInv
<1> QED BY <1>1, <1>2, PTL

-----------------------------------------------------------------------------
(* Interrupted questions, where the caps are out of reach. *)

Asks(h, m) == \E i \in DOMAIN h : Says(h, i, "user", m)

AsksMore(h, x, role, m) ==
  /\ Len(x) = Len(h) + 1
  /\ \A w : Asks(h, w) => Asks(x, w)
  /\ role = "user" => Asks(x, m)

LEMMA AppendAsks ==
  ASSUME NEW h \in Seq(Turns(Messages)), NEW m \in Messages, NEW role \in {"user", "assistant"},
         NEW x, x = AppendSenderTurn(h, [role |-> role, parts |-> <<m>>]), Len(h) < MaxHistory
  PROVE  AsksMore(h, x, role, m)
<1> DEFINE turn == [role |-> role, parts |-> <<m>>]
           y == Append(h, turn)
<1>1. turn \in Turns(Messages)
  BY DEF Turns
<1>2. Appended(y, h, role, m)
  BY SaysAppended
<1> HIDE DEF turn
<1>3. x = y
  <2>1. x = AppendSenderTurn(h, turn)
    BY DEF turn
  <2> QED BY <1>1, <2>1, CappedAppend
<1> HIDE DEF y
<1>4. /\ Len(y) = Len(h) + 1 /\ DOMAIN y = 1..(Len(h) + 1) /\ DOMAIN h = 1..Len(h) /\ Len(h) \in Nat
      /\ \A i \in 1..Len(h) : \A who, w : Says(y, i, who, w) <=> Says(h, i, who, w)
      /\ \A who, w : Says(y, Len(y), who, w) <=> who = role /\ w = m
  BY <1>2, Zenon DEF Appended
<1>5. Len(y) \in DOMAIN y /\ \A i \in DOMAIN h : i \in DOMAIN y
  BY <1>4
<1>6. \A w : Asks(h, w) => Asks(y, w)
  BY <1>4, <1>5, Zenon DEF Asks
<1>7. role = "user" => Asks(y, m)
  BY <1>4, <1>5, Zenon DEF Asks
<1> QED BY <1>3, <1>4, <1>6, <1>7, Zenon DEF AsksMore

LEMMA RollbackAsks ==
  ASSUME NEW h \in Seq(Turns(Messages)), NEW m \in Messages, CanRollback(h, UserTurn(<<m>>)),
         NEW x, x = RollbackOrphanUserTurn(h)
  PROVE  Len(x) <= Len(h) /\ \A w : w # m /\ Asks(h, w) => Asks(x, w)
<1> DEFINE n == Len(h)
<1>1. h # <<>> /\ h[n] = UserTurn(<<m>>) /\ n \in Nat \ {0} /\ DOMAIN h = 1..n /\ n \in 1..n
  BY EmptySeq DEF CanRollback, Last
<1>2. x \in Seq(Turns(Messages)) /\ Len(x) = n - 1 /\ \A i \in 1..(n - 1) : x[i] = h[i]
  BY <1>1 DEF RollbackOrphanUserTurn, Front
<1> HIDE DEF n
<1>3. DOMAIN x = 1..(n - 1) /\ n - 1 <= n
  BY <1>1, <1>2
<1>4. ASSUME NEW w, w # m, Asks(h, w)
      PROVE  Asks(x, w)
  <2>1. PICK i \in 1..n : Says(h, i, "user", w)
    BY <1>1, <1>4, Zenon DEF Asks
  <2>2. i # n
    <3>1. UserTurn(<<m>>).parts = <<m>> /\ <<m>>[1] = m /\ DOMAIN <<m>> = {1}
      BY DEF UserTurn
    <3> QED BY <1>1, <1>4, <2>1, <3>1 DEF Says
  <2>3. i \in 1..(n - 1)
    BY <1>1, <2>2
  <2>4. Says(x, i, "user", w)
    BY <1>2, <2>1, <2>3 DEF Says
  <2> QED BY <1>3, <2>3, <2>4 DEF Asks
<1> QED BY <1>2, <1>3, <1>4 DEF n

LEMMA CompactAsks ==
  ASSUME NEW h \in Seq(Turns(Messages)), Len(h) <= KeepOnCompact, NEW x, x = CompactedTurns(h)
  PROVE  Len(x) <= Len(h) /\ \A w : Asks(h, w) => Asks(x, w)
<1> USE HistoryAssumption DEF HistoryAssumption
<1>1. LastTurns(h, KeepOnCompact) = h
  <2>1. Shifted(Messages, LastTurns(h, KeepOnCompact), h, KeepOnCompact)
    BY LastTurnsShift
  <2> QED BY <2>1 DEF Shifted
<1>2. x = NormalizeCachedTurns(h)
  BY <1>1 DEF CompactedTurns
<1>3. PICK place : Normalized(Messages, h, Len(h), x, place)
  BY <1>2, NormalizationKeepsTurns
<1> DEFINE n == Len(h)
           r == Len(x)
<1>4. /\ n \in Nat /\ DOMAIN h = 1..n
      /\ x \in Seq(Turns(Messages)) /\ r \in Nat /\ DOMAIN x = 1..r
  BY <1>3 DEF Normalized
<1>5. /\ place \in [1..n -> 0..r]
      /\ \A i \in 1..n : IF i = 1 THEN place[i] <= 1 ELSE place[i] <= place[i - 1] + 1
      /\ IF n = 0 THEN r = 0 ELSE place[n] = r
  BY <1>3 DEF Normalized, Squeezed
<1>6. \A i \in 1..n : place[i] > 0 =>
        x[place[i]].role = h[i].role /\ \A m : Holds(h[i], m) => Holds(x[place[i]], m)
  BY <1>3, Zenon DEF Normalized, Squeezed
<1>7. \A i \in 1..n : place[i] = 0 => h[i].role = "assistant"
  BY <1>3, Zenon DEF Normalized
<1>8. \A turns, i, role, m : Says(turns, i, role, m) <=> turns[i].role = role /\ Holds(turns[i], m)
  BY DEF Says, Holds, In
<1> HIDE DEF n, r
<1>9. r <= n
  <2> DEFINE S == {0} \cup {i \in 1..n : place[i] <= i}
  <2>1. ASSUME NEW i \in 0..(n - 1), i \in S
        PROVE  i + 1 \in S
    <3> DEFINE j == i + 1
    <3>1. j \in 1..n /\ place[j] \in 0..r
      BY <1>4, <1>5
    <3>2. CASE i = 0
      BY <1>5, <3>1, <3>2
    <3>3. CASE i # 0
      <4>1. i \in 1..n /\ place[i] <= i /\ place[i] \in 0..r /\ j # 1 /\ j - 1 = i
        BY <1>4, <1>5, <2>1, <3>3
      <4>2. place[j] <= place[i] + 1
        BY <1>5, <3>1, <4>1
      <4>3. place[j] <= j
        BY <1>4, <3>1, <4>1, <4>2
      <4> QED BY <3>1, <4>3
    <3> QED BY <3>2, <3>3
  <2> HIDE DEF S
  <2>2. n \in S
    <3>1. 0 \in S
      BY DEF S
    <3> QED BY <1>4, <2>1, <3>1, CountUp
  <2> QED BY <1>4, <1>5, <2>2 DEF S
<1>10. ASSUME NEW w, Asks(h, w)
       PROVE  Asks(x, w)
  <2>1. PICK i \in 1..n : Says(h, i, "user", w)
    BY <1>4, <1>10, Zenon DEF Asks
  <2>2. h[i].role = "user" /\ Holds(h[i], w)
    BY <1>8, <2>1
  <2>3. place[i] # 0
    BY <1>7, <2>2
  <2>4. place[i] > 0 /\ place[i] \in 1..r
    BY <1>4, <1>5, <2>3
  <2>5. Says(x, place[i], "user", w)
    BY <1>6, <1>8, <2>2, <2>4, Zenon
  <2> QED BY <1>4, <2>4, <2>5 DEF Asks
<1> QED BY <1>9, <1>10 DEF n, r

(* Each message puts at most two turns into its history: its question once *)
(* it is in Begun, and the answer once it is in Replied.                   *)
Begun   == {m \in Messages : pc[m] \in AskedPCs}
Replied == {m \in Messages : pc[m] \in {"leaving"} \cup Over}

KeptInv ==
  /\ \A k \in Keys : Len(histories[k]) <= Cardinality(Begun) + Cardinality(Replied)
  /\ \A m \in Messages : pc[m] \in Open \/ outcome[m] = "cancelled" => Asks(histories[Key[m]], m)

(* The steps that rewrite a history. *)
Rewrites(m) ==
  \/ RunNewSession(m)
  \/ AppendUserTurn(m)
  \/ Step(m, "settling", "leaving") /\ AppendAssistantTurn(m) /\ UNCHANGED outcome
  \/ /\ Step(m, "settling", "leaving") /\ outcome[m] = "vision" /\ UNCHANGED outcome
     /\ CanRollback(histories[Key[m]], UserTurn(<<m>>))
     /\ histories' = [histories EXCEPT ![Key[m]] = RollbackOrphanUserTurn(@)]
  \/ SettleOverflow(m)

LEMMA KeptStep ==
  ASSUME CoreTypeOK, [Next]_vars
  PROVE  /\ UNCHANGED histories \/ \E m \in Messages : Rewrites(m)
         /\ \A m \in Messages : pc[m] \in AskedPCs => pc'[m] \in AskedPCs
         /\ \A m \in Messages : pc[m] \in {"leaving"} \cup Over => pc'[m] \in {"leaving"} \cup Over
         /\ \A m \in Messages : pc'[m] \in Open => pc[m] \in Open \/ AppendUserTurn(m)
         /\ \A m \in Messages : outcome'[m] = "cancelled" => outcome[m] = "cancelled" \/ pc[m] \in Open
<1> DEFINE Goal == /\ UNCHANGED histories \/ \E m \in Messages : Rewrites(m)
                   /\ \A m \in Messages : pc[m] \in AskedPCs => pc'[m] \in AskedPCs
                   /\ \A m \in Messages : pc[m] \in {"leaving"} \cup Over => pc'[m] \in {"leaving"} \cup Over
                   /\ \A m \in Messages : pc'[m] \in Open => pc[m] \in Open \/ AppendUserTurn(m)
                   /\ \A m \in Messages : outcome'[m] = "cancelled" => outcome[m] = "cancelled" \/ pc[m] \in Open
<1>1. ASSUME NEW m \in Messages, NEW l, pc' = [pc EXCEPT ![m] = l],
             UNCHANGED histories \/ Rewrites(m),
             pc[m] \in AskedPCs => l \in AskedPCs,
             pc[m] \in {"leaving"} \cup Over => l \in {"leaving"} \cup Over,
             l \in Open => pc[m] \in Open \/ AppendUserTurn(m),
             \A w \in Messages : outcome'[w] = "cancelled" => outcome[w] = "cancelled" \/ pc[w] \in Open
      PROVE  Goal
  <2>1. pc'[m] = l /\ \A w \in Messages : w # m => pc'[w] = pc[w]
    BY <1>1 DEF CoreTypeOK
  <2> QED BY <1>1, <2>1, Zenon
<1> HIDE DEF Goal
<1>2. ASSUME UNCHANGED <<pc, histories, outcome>>
      PROVE  Goal
  BY <1>2 DEF Goal
<1>3. ASSUME NEW m \in Messages, Deliver(m) \/ LoopStep(m) \/ Start(m) \/ RemoveEntry(m) \/ StoreDone(m)
      PROVE  Goal
  <2> USE DEF Step, Goto
  <2>1. UNCHANGED <<histories, outcome>>
    BY <1>3 DEF Deliver, LoopStep, Receive, Spawn, Start, StartUntracked, InsertEntry, CancelPrevious, CheckDone,
                RegisterWaiter, RemoveEntry, StoreDone, chatVars
  <2>2. \E l : /\ pc' = [pc EXCEPT ![m] = l] /\ l \notin Open
               /\ pc[m] \notin AskedPCs \/ (l \in AskedPCs /\ l \in {"leaving"} \cup Over)
               /\ pc[m] \in AskedPCs \/ pc[m] \notin {"leaving"} \cup Over
    <3> USE DEF AskedPCs, Open, Over
    <3>1. CASE Deliver(m) \/ LoopStep(m)
      BY <3>1 DEF Deliver, LoopStep, Receive, Spawn
    <3>2. CASE Start(m)
      <4>1. \E l \in {"gate", "cancelling", "checking", "unregistered", "parked"} : pc' = [pc EXCEPT ![m] = l]
        BY <3>2 DEF Start, StartUntracked, InsertEntry, CancelPrevious, CheckDone, RegisterWaiter
      <4>2. pc[m] \in {"spawned", "cancelling", "checking", "unregistered"}
        BY <3>2 DEF Start, StartUntracked, InsertEntry, CancelPrevious, CheckDone, RegisterWaiter
      <4> QED BY <4>1, <4>2
    <3>3. CASE RemoveEntry(m) \/ StoreDone(m)
      BY <3>3 DEF RemoveEntry, StoreDone
    <3> QED BY <1>3, <3>1, <3>2, <3>3
  <2> QED BY <1>1, <2>1, <2>2
<1>4. ASSUME NEW m \in Messages, NotifyWaiters(m)
      PROVE  Goal
  <2>1. /\ UNCHANGED <<histories, outcome>> /\ pc[m] = "notifying"
        /\ pc' = [w \in Messages |-> IF w = m THEN "finished" ELSE IF w \in Parked(m) THEN "gate" ELSE pc[w]]
    BY <1>4 DEF NotifyWaiters, chatVars
  <2>2. \A w \in Messages : pc'[w] = pc[w] \/ (pc[w] = "notifying" /\ pc'[w] = "finished")
                            \/ (pc[w] = "parked" /\ pc'[w] = "gate")
    BY <2>1 DEF Parked
  <2> QED BY <2>1, <2>2 DEF Goal, AskedPCs, Open, Over
<1>5. ASSUME NEW m \in Messages, Admit(m) \/ Generate(m) \/ Settle(m) \/ Panic(m)
      PROVE  Goal
  <2>1. UNCHANGED histories \/ Rewrites(m)
    BY <1>5 DEF Admit, Generate, Settle, EnterProcessing, TurnAway, StartGenerating, ObserveCancellation, EndGeneration,
                SettleCancelled, SettleWithheld, SettleReply, SettleFailure, SettleTimeout, Panic, chatVars, Rewrites, Failed
  <2>2. /\ \E l \in PCs : pc' = [pc EXCEPT ![m] = l] /\ (pc[m] \in AskedPCs => l \in AskedPCs)
                           /\ pc[m] \notin {"leaving"} \cup Over
                           /\ (l \in Open => pc[m] \in Open \/ AppendUserTurn(m))
        /\ \A w \in Messages : outcome'[w] = "cancelled" => outcome[w] = "cancelled" \/ pc[w] \in Open
    <3> USE DEF Step, Goto, AskedPCs, Open, Over, PCs, Processing, Ended, CoreTypeOK, chatVars
    <3>1. CASE EnterProcessing(m)
      BY <3>1 DEF EnterProcessing
    <3>2. CASE TurnAway(m) \/ RunNewSession(m) \/ AppendUserTurn(m) \/ StartGenerating(m)
      BY <3>2 DEF TurnAway, RunNewSession, AppendUserTurn, StartGenerating
    <3>3. CASE Generate(m)
      <4>1. pc[m] = "generating" /\ pc' = [pc EXCEPT ![m] = "settling"] /\ \E o : outcome' = [outcome EXCEPT ![m] = o]
        BY <3>3 DEF Generate, ObserveCancellation, EndGeneration
      <4> QED BY <4>1
    <3>4. CASE Settle(m)
      <4>1. pc[m] = "settling" /\ pc' = [pc EXCEPT ![m] = "leaving"] /\ \A w \in Messages : w # m => outcome'[w] = outcome[w]
        BY <3>4 DEF Settle, SettleCancelled, SettleWithheld, SettleReply, SettleOverflow, SettleFailure, SettleTimeout
      <4> QED BY <4>1
    <3>5. CASE Panic(m)
      <4>1. pc[m] \in Processing \ {"leaving"} /\ pc' = [pc EXCEPT ![m] = "crashed"] /\ outcome' = outcome
        BY <3>5 DEF Panic
      <4>2. "crashed" \in PCs /\ "crashed" \in AskedPCs /\ "crashed" \notin Open /\ pc[m] \notin {"leaving"} \cup Over
        BY <4>1
      <4> QED BY <4>1, <4>2, Zenon
    <3> QED BY <1>5, <3>1, <3>2, <3>3, <3>4, <3>5 DEF Admit
  <2> QED BY <1>1, <2>1, <2>2
<1>6. ASSUME CloseInbox \/ LoopReturns \/ UNCHANGED vars
      PROVE  Goal
  BY <1>2, <1>6 DEF CloseInbox, LoopReturns, vars, chatVars
<1>7. Goal
  <2>1. (\E m \in Messages : Deliver(m) \/ Progress(m) \/ Panic(m)) \/ CloseInbox \/ LoopReturns \/ UNCHANGED vars
    BY DEF Next
  <2>2. ASSUME NEW m \in Messages, Deliver(m) \/ Progress(m) \/ Panic(m)
        PROVE  Goal
    BY <1>3, <1>4, <1>5, <2>2, Zenon DEF Progress, Finish
  <2> QED BY <1>6, <2>1, <2>2, Zenon
<1> QED BY <1>7 DEF Goal

LEMMA CountsGrow ==
  ASSUME IsFiniteSet(Messages), CoreTypeOK, [Next]_vars
  PROVE  /\ Cardinality(Begun) \in Nat /\ Cardinality(Begun)' \in Nat
         /\ Cardinality(Replied) \in Nat /\ Cardinality(Replied)' \in Nat
         /\ Cardinality(Begun) <= Cardinality(Begun)' /\ Cardinality(Replied) <= Cardinality(Replied)'
         /\ Cardinality(Begun)' <= Cardinality(Messages) /\ Cardinality(Replied)' <= Cardinality(Messages)
         /\ \A m \in Messages : m \notin Begun /\ m \in Begun' => Cardinality(Begun) + 1 <= Cardinality(Begun)'
         /\ \A m \in Messages : m \notin Replied /\ m \in Replied' => Cardinality(Replied) + 1 <= Cardinality(Replied)'
<1>1. Begun \subseteq Begun' /\ Replied \subseteq Replied' /\ Begun' \subseteq Messages /\ Replied' \subseteq Messages
  BY KeptStep DEF Begun, Replied
<1>2. ASSUME NEW A, NEW B, A \subseteq B, B \subseteq Messages
      PROVE  /\ Cardinality(A) \in Nat /\ Cardinality(B) \in Nat
             /\ Cardinality(A) <= Cardinality(B) /\ Cardinality(B) <= Cardinality(Messages)
             /\ \A m \in B : m \notin A => Cardinality(A) + 1 <= Cardinality(B)
  <2>1. IsFiniteSet(B) /\ Cardinality(B) <= Cardinality(Messages)
    BY <1>2, FS_Subset
  <2>2. IsFiniteSet(A) /\ Cardinality(A) <= Cardinality(B)
    BY <1>2, <2>1, FS_Subset
  <2>3. ASSUME NEW m \in B, m \notin A
        PROVE  Cardinality(A) + 1 <= Cardinality(B)
    <3>1. Cardinality(A \cup {m}) = Cardinality(A) + 1
      BY <2>2, <2>3, FS_AddElement
    <3>2. A \cup {m} \in SUBSET B
      BY <1>2, <2>3
    <3>3. Cardinality(A \cup {m}) <= Cardinality(B)
      BY <2>1, <3>2, FS_Subset
    <3> QED BY <3>1, <3>3
  <2>4. Cardinality(A) \in Nat /\ Cardinality(B) \in Nat
    BY <2>1, <2>2, FS_CardinalityType
  <2> QED BY <2>1, <2>2, <2>3, <2>4
<1>3. Cardinality(Begun)' = Cardinality(Begun') /\ Cardinality(Replied)' = Cardinality(Replied')
  OBVIOUS
<1> HIDE DEF Begun, Replied
<1> QED BY <1>1, <1>2, <1>3

LEMMA KeptInductive ==
  ASSUME IsFiniteSet(Messages), 2 * Cardinality(Messages) <= MaxHistory, 2 * Cardinality(Messages) <= KeepOnCompact,
         NewSessions = {}
  PROVE  /\ Init => KeptInv
         /\ CoreTypeOK /\ HistoryInv /\ KeptInv /\ [Next]_vars => KeptInv'
<1> USE DispatchAssumption, HistoryAssumption DEF DispatchAssumption, HistoryAssumption
<1>1. Init => KeptInv
  <2> SUFFICES ASSUME Init PROVE KeptInv
    OBVIOUS
  <2>1. \A k \in Keys : Len(histories[k]) = 0
    BY DEF Init
  <2>2. Begun = {} /\ Replied = {}
    BY DEF Init, Begun, Replied, AskedPCs, Over
  <2>3. Cardinality(Begun) + Cardinality(Replied) = 0
    BY <2>2, FS_EmptySet
  <2>4. \A m \in Messages : pc[m] \notin Open /\ outcome[m] # "cancelled"
    BY DEF Init, Open
  <2> QED BY <2>1, <2>3, <2>4 DEF KeptInv
<1>2. ASSUME CoreTypeOK, HistoryInv, KeptInv, [Next]_vars
      PROVE  KeptInv'
  <2> DEFINE b == Cardinality(Begun)
             r == Cardinality(Replied)
             c == Cardinality(Messages)
  <2>1. /\ b \in Nat /\ b' \in Nat /\ r \in Nat /\ r' \in Nat /\ b <= b' /\ r <= r' /\ b' <= c /\ r' <= c /\ c \in Nat
        /\ \A m \in Messages : m \notin Begun /\ m \in Begun' => b + 1 <= b'
        /\ \A m \in Messages : m \notin Replied /\ m \in Replied' => r + 1 <= r'
    BY <1>2, CountsGrow, FS_CardinalityType
  <2>2. \A k \in Keys : histories[k] \in Seq(Turns(Messages)) /\ Len(histories[k]) \in Nat /\ Len(histories[k]) <= b + r
    BY <1>2 DEF KeptInv, HistoryInv
  <2>3. /\ UNCHANGED histories \/ \E m \in Messages : Rewrites(m)
        /\ \A m \in Messages : pc'[m] \in Open => pc[m] \in Open \/ AppendUserTurn(m)
        /\ \A m \in Messages : outcome'[m] = "cancelled" => outcome[m] = "cancelled" \/ pc[m] \in Open
    BY <1>2, KeptStep
  <2>4. \A m \in Messages : pc[m] \in Open \/ outcome[m] = "cancelled" => Asks(histories[Key[m]], m)
    BY <1>2 DEF KeptInv
  <2>5. ASSUME NEW m \in Messages, NEW x, histories' = [histories EXCEPT ![Key[m]] = x], Len(x) \in Nat, Len(x) <= b' + r',
               \A w \in Messages : w # m /\ Asks(histories[Key[m]], w) => Asks(x, w),
               \A w \in Messages : w # m => ~AppendUserTurn(w),
               pc'[m] \in Open \/ outcome'[m] = "cancelled" => Asks(x, m)
        PROVE  KeptInv'
    <3>1. /\ histories'[Key[m]] = x
          /\ \A k \in Keys : k # Key[m] => histories'[k] = histories[k]
      BY <1>2, <2>5 DEF HistoryInv
    <3>2. \A k \in Keys : Len(histories'[k]) <= b' + r'
      BY <2>1, <2>2, <2>5, <3>1
    <3>3. ASSUME NEW w \in Messages, pc'[w] \in Open \/ outcome'[w] = "cancelled"
          PROVE  Asks(histories'[Key[w]], w)
      <4>1. CASE w = m
        BY <2>5, <3>1, <3>3, <4>1
      <4>2. CASE w # m
        <5>1. Asks(histories[Key[w]], w)
          BY <2>3, <2>4, <2>5, <3>3, <4>2, Zenon
        <5>2. Key[w] \in Keys
          OBVIOUS
        <5> QED BY <2>5, <3>1, <4>2, <5>1, <5>2, Zenon
      <4> QED BY <4>1, <4>2
    <3> QED BY <3>2, <3>3 DEF KeptInv
  <2>6. CASE UNCHANGED histories /\ \A m \in Messages : ~Rewrites(m)
    <3>1. \A k \in Keys : Len(histories'[k]) <= b' + r'
      BY <2>1, <2>2, <2>6
    <3>2. \A m \in Messages : ~AppendUserTurn(m)
      BY <2>6 DEF Rewrites
    <3>3. \A m \in Messages : pc'[m] \in Open \/ outcome'[m] = "cancelled" => Asks(histories'[Key[m]], m)
      BY <2>3, <2>4, <2>6, <3>2, Zenon
    <3> QED BY <3>1, <3>3 DEF KeptInv
  <2>7. ASSUME NEW m \in Messages, Rewrites(m)
        PROVE  KeptInv'
    <3> DEFINE h == histories[Key[m]]
    <3>1. h \in Seq(Turns(Messages)) /\ Len(h) \in Nat /\ Len(h) <= b + r
      BY <2>2
    <3>2. pc[m] \in {"admitted", "settling"} /\ (\E l : pc' = [pc EXCEPT ![m] = l]) /\ outcome' = outcome
      BY <2>7 DEF Rewrites, RunNewSession, AppendUserTurn, SettleOverflow, Step, Goto
    <3>3. \A w \in Messages : w # m => ~AppendUserTurn(w)
      <4> SUFFICES ASSUME NEW w \in Messages, w # m, AppendUserTurn(w)
                   PROVE  FALSE
        OBVIOUS
      <4>1. pc[w] = "admitted" /\ pc'[w] = "asked"
        BY <1>2 DEF AppendUserTurn, Step, Goto, CoreTypeOK
      <4>2. pc'[w] = pc[w]
        BY <1>2, <3>2 DEF CoreTypeOK
      <4> QED BY <4>1, <4>2
    <3>4. CASE RunNewSession(m)
      BY <3>4 DEF RunNewSession
    <3>5. CASE AppendUserTurn(m)
      <4> DEFINE x == AppendSenderTurn(h, [role |-> "user", parts |-> <<m>>])
      <4>1. histories' = [histories EXCEPT ![Key[m]] = x]
        BY <3>5 DEF AppendUserTurn, UserTurn
      <4>2. m \notin Begun /\ m \in Begun'
        BY <1>2, <3>5 DEF AppendUserTurn, Step, Goto, CoreTypeOK, Begun, AskedPCs, Over
      <4>3. b + 1 <= b' /\ Len(h) < MaxHistory
        <5> HIDE DEF b, r, c, h
        <5>1. b + 1 <= b'
          BY <2>1, <4>2
        <5> QED BY <2>1, <3>1, <5>1 DEF c
      <4> HIDE DEF h
      <4>4. Len(x) = Len(h) + 1 /\ (\A w : Asks(h, w) => Asks(x, w)) /\ Asks(x, m)
        <5>1. AsksMore(h, x, "user", m)
          BY <3>1, <4>3, AppendAsks
        <5> QED BY <5>1, Zenon DEF AsksMore
      <4> HIDE DEF x, b, r, c
      <4>5. Len(x) \in Nat /\ Len(x) <= b' + r'
        BY <2>1, <3>1, <4>3, <4>4
      <4> QED BY <2>5, <3>3, <4>1, <4>4, <4>5 DEF h
    <3>6. CASE Step(m, "settling", "leaving") /\ AppendAssistantTurn(m) /\ UNCHANGED outcome
      <4> DEFINE x == AppendSenderTurn(h, [role |-> "assistant", parts |-> <<m>>])
      <4>1. histories' = [histories EXCEPT ![Key[m]] = x]
        BY <3>6 DEF AppendAssistantTurn, AssistantTurn
      <4>2. m \notin Replied /\ m \in Replied' /\ pc'[m] = "leaving"
        BY <1>2, <3>6 DEF Step, Goto, CoreTypeOK, Replied, Over
      <4>3. r + 1 <= r' /\ Len(h) < MaxHistory
        <5> HIDE DEF b, r, c, h
        <5>1. r + 1 <= r'
          BY <2>1, <4>2
        <5> QED BY <2>1, <3>1, <5>1 DEF c
      <4> HIDE DEF h
      <4>4. Len(x) = Len(h) + 1 /\ (\A w : Asks(h, w) => Asks(x, w))
        <5>1. AsksMore(h, x, "assistant", m)
          BY <3>1, <4>3, AppendAsks
        <5> QED BY <5>1, Zenon DEF AsksMore
      <4> HIDE DEF x, b, r, c
      <4>5. Len(x) \in Nat /\ Len(x) <= b' + r'
        BY <2>1, <3>1, <4>3, <4>4
      <4>6. pc'[m] \in Open \/ outcome'[m] = "cancelled" => Asks(x, m)
        BY <2>4, <3>6, <4>2, <4>4 DEF Open, h
      <4> QED BY <2>5, <3>3, <4>1, <4>4, <4>5, <4>6 DEF h
    <3>7. CASE /\ Step(m, "settling", "leaving") /\ outcome[m] = "vision" /\ UNCHANGED outcome
               /\ CanRollback(h, UserTurn(<<m>>))
               /\ histories' = [histories EXCEPT ![Key[m]] = RollbackOrphanUserTurn(@)]
      <4> DEFINE x == RollbackOrphanUserTurn(h)
      <4>1. histories' = [histories EXCEPT ![Key[m]] = x] /\ CanRollback(h, UserTurn(<<m>>))
        BY <3>7
      <4>2. pc'[m] = "leaving" /\ outcome'[m] # "cancelled"
        BY <1>2, <3>7 DEF Step, Goto, CoreTypeOK
      <4> HIDE DEF h
      <4>3. Len(x) <= Len(h) /\ \A w : w # m /\ Asks(h, w) => Asks(x, w)
        BY <3>1, <4>1, RollbackAsks
      <4>4. Len(x) \in Nat
        BY <3>1, <4>1 DEF CanRollback, RollbackOrphanUserTurn, Front
      <4> HIDE DEF x, b, r, c
      <4>5. Len(x) <= b' + r'
        BY <2>1, <3>1, <4>3, <4>4
      <4>6. ~(pc'[m] \in Open \/ outcome'[m] = "cancelled")
        BY <4>2 DEF Open
      <4> QED BY <2>5, <3>3, <4>1, <4>3, <4>4, <4>5, <4>6 DEF h
    <3>8. CASE SettleOverflow(m)
      <4> DEFINE x == CompactedTurns(h)
      <4>1. histories' = [histories EXCEPT ![Key[m]] = x]
        BY <3>8 DEF SettleOverflow
      <4>2. pc'[m] = "leaving" /\ outcome'[m] # "cancelled"
        BY <1>2, <3>8 DEF SettleOverflow, Failed, Step, Goto, CoreTypeOK
      <4>3. Len(h) <= KeepOnCompact
        <5> HIDE DEF b, r, c, h
        <5> QED BY <2>1, <3>1 DEF c
      <4> HIDE DEF h
      <4>4. Len(x) <= Len(h) /\ \A w : Asks(h, w) => Asks(x, w)
        BY <3>1, <4>3, CompactAsks
      <4>5. x \in Seq(Turns(Messages))
        BY <3>1, CompactSqueezes
      <4>6. Len(x) \in Nat
        BY <4>5
      <4> HIDE DEF x, b, r, c
      <4>7. Len(x) <= b' + r'
        BY <2>1, <3>1, <4>4, <4>6
      <4>8. ~(pc'[m] \in Open \/ outcome'[m] = "cancelled")
        BY <4>2 DEF Open
      <4> QED BY <2>5, <3>3, <4>1, <4>4, <4>6, <4>7, <4>8 DEF h
    <3> QED BY <2>7, <3>4, <3>5, <3>6, <3>7, <3>8 DEF Rewrites
  <2> QED BY <2>3, <2>6, <2>7
<1> QED BY <1>1, <1>2

(* The question of a task that was cancelled while it worked stays in the  *)
(* history, for any number of messages that the caps leave room for, when  *)
(* no /new clears the history.                                             *)
THEOREM CancelledTurnsKeptCorrect ==
  ASSUME IsFiniteSet(Messages), 2 * Cardinality(Messages) <= MaxHistory, 2 * Cardinality(Messages) <= KeepOnCompact,
         NewSessions = {}
  PROVE  Spec => []CancelledTurnsKept
<1>1. KeptInv => CancelledTurnsKept
  BY DEF KeptInv, Asks, CancelledTurnsKept, InHistory
<1>2. Init => KeptInv
  BY KeptInductive
<1>3. CoreTypeOK /\ HistoryInv /\ KeptInv /\ [Next]_vars => KeptInv'
  BY KeptInductive
<1>4. Spec => []KeptInv
  BY <1>2, <1>3, CoreTypeCorrect, HistoryInvariant, PTL DEF Spec
<1> QED BY <1>1, <1>4, PTL
=============================================================================
