------------------------- MODULE SenderHistoryProofs -------------------------
(***************************************************************************)
(* Theorems about SenderHistory's operators, for histories of any parts.   *)
(***************************************************************************)
EXTENDS SenderHistory, SequenceTheorems, WellFoundedInduction, TLAPS

Turns(T) == [role : {"user", "assistant"}, parts : Seq(T)]

(* Induction up to a number, over a set in place of a predicate.           *)
LEMMA CountUp ==
  ASSUME NEW n \in Nat, NEW S, 0 \in S, \A i \in 0..(n - 1) : i \in S => i + 1 \in S
  PROVE  n \in S
<1> SUFFICES ASSUME n \notin S
             PROVE  FALSE
  OBVIOUS
<1> DEFINE R == {ss \in Nat \X Nat : ss[1] < ss[2]}
           out == {i \in 0..n : i \notin S}
<1>1. IsWellFoundedOn(R, Nat)
  BY NatLessThanWellFounded DEF OpToRel
<1>2. out \in SUBSET Nat /\ out # {}
  OBVIOUS
<1> HIDE DEF R
<1>3. PICK x \in out : \A y \in out : ~(<<y, x>> \in R)
  <2> HIDE DEF out
  <2> QED BY <1>1, <1>2, WFMin
<1>4. x \in 1..n /\ x - 1 \in S
  <2>1. x \in 0..n /\ x \notin S /\ x # 0
    BY <1>3
  <2>2. CASE x - 1 \notin S
    <3>1. x - 1 \in out /\ x - 1 \in Nat /\ x \in Nat /\ x - 1 < x
      BY <2>1, <2>2
    <3>2. <<x - 1, x>> \in Nat \X Nat /\ <<x - 1, x>>[1] = x - 1 /\ <<x - 1, x>>[2] = x
      BY <3>1
    <3>3. <<x - 1, x>> \in R
      BY <3>1, <3>2, Zenon DEF R
    <3> QED BY <1>3, <3>1, <3>3
  <2> QED BY <2>1, <2>2
<1>5. x - 1 \in 0..(n - 1) /\ (x - 1) + 1 = x
  BY <1>4
<1>6. x \in S
  BY <1>4, <1>5
<1> QED BY <1>3, <1>6

LEMMA Greatest ==
  ASSUME NEW n \in Nat, NEW s \in SUBSET (1..n), n \in s
  PROVE  Max(s) = n
<1>1. \E x \in s : \A y \in s : x >= y
  OBVIOUS
<1>2. Max(s) \in s /\ \A y \in s : Max(s) >= y
  BY <1>1, Zenon DEF Max
<1>3. Max(s) \in 1..n /\ Max(s) >= n
  BY <1>2
<1> QED BY <1>3

-----------------------------------------------------------------------------
(* The fold of normalize_cached_channel_turns, unfolded.                   *)

Table(g, turns, n) ==
  g = [s \in SUBSET (1..n) |-> IF s = {} THEN <<>> ELSE NormalizeStep(g[s \ {Max(s)}], turns[Max(s)])]

LEMMA TableGrows ==
  ASSUME NEW turns, NEW n \in Nat \ {0}, NEW f, Table(f, turns, n - 1)
  PROVE  \E g : Table(g, turns, n)
<1> DEFINE g == [s \in SUBSET (1..n) |-> IF n \in s THEN NormalizeStep(f[s \ {n}], turns[n]) ELSE f[s]]
<1>1. \A s \in SUBSET (1..(n - 1)) :
        f[s] = IF s = {} THEN <<>> ELSE NormalizeStep(f[s \ {Max(s)}], turns[Max(s)])
  BY DEF Table
<1>2. ASSUME NEW s \in SUBSET (1..n)
      PROVE  g[s] = IF s = {} THEN <<>> ELSE NormalizeStep(g[s \ {Max(s)}], turns[Max(s)])
  <2>1. CASE n \in s
    <3>1. Max(s) = n
      BY <2>1, Greatest
    <3>2. g[s] = NormalizeStep(f[s \ {n}], turns[n])
      BY <2>1
    <3>3. g[s \ {n}] = f[s \ {n}]
      OBVIOUS
    <3> HIDE DEF g
    <3> QED BY <2>1, <3>1, <3>2, <3>3
  <2>2. CASE n \notin s
    <3>1. s \in SUBSET (1..(n - 1))
      BY <2>2
    <3>2. g[s] = f[s] /\ g[s \ {Max(s)}] = f[s \ {Max(s)}]
      BY <2>2
    <3> HIDE DEF g
    <3> QED BY <1>1, <3>1, <3>2
  <2> QED BY <2>1, <2>2
<1>3. g = [s \in SUBSET (1..n) |-> g[s]]
  OBVIOUS
<1> HIDE DEF g
<1>4. Table(g, turns, n)
  BY <1>2, <1>3 DEF Table
<1> QED BY <1>4

LEMMA TableExists ==
  ASSUME NEW turns, NEW n \in Nat
  PROVE  \E g : Table(g, turns, n)
<1> DEFINE S == {i \in Nat : \E g : Table(g, turns, i)}
<1>1. 0 \in S
  <2> DEFINE g == [s \in SUBSET (1..0) |-> <<>>]
  <2>1. \A s \in SUBSET (1..0) : s = {}
    OBVIOUS
  <2>2. g = [s \in SUBSET (1..0) |-> IF s = {} THEN <<>> ELSE NormalizeStep(g[s \ {Max(s)}], turns[Max(s)])]
    BY <2>1
  <2> HIDE DEF g
  <2>3. Table(g, turns, 0)
    BY <2>2 DEF Table
  <2> QED BY <2>3
<1>2. ASSUME NEW i \in 0..(n - 1), i \in S
      PROVE  i + 1 \in S
  <2>1. i + 1 \in Nat \ {0} /\ (i + 1) - 1 = i
    OBVIOUS
  <2>2. PICK f : Table(f, turns, i)
    BY <1>2
  <2>3. \E g : Table(g, turns, i + 1)
    BY <2>1, <2>2, TableGrows
  <2> QED BY <2>1, <2>3
<1> HIDE DEF S
<1>3. n \in S
  BY <1>1, <1>2, CountUp
<1> QED BY <1>3 DEF S

(* What is kept after each turn. *)
Keeps(kept, turns) ==
  /\ kept[0] = <<>>
  /\ \A n \in 1..Len(turns) : kept[n] = NormalizeStep(kept[n - 1], turns[n])
  /\ NormalizeCachedTurns(turns) = kept[Len(turns)]

LEMMA Unfolded ==
  ASSUME NEW T, NEW turns \in Seq(T)
  PROVE  \E kept : Keeps(kept, turns)
<1> DEFINE it == CHOOSE g : g = [s \in SUBSET DOMAIN turns |-> IF s = {} THEN <<>>
                                   ELSE NormalizeStep(g[s \ {Max(s)}], turns[Max(s)])]
           kept == [n \in 0..Len(turns) |-> it[1..n]]
<1>1. NormalizeCachedTurns(turns) = it[DOMAIN turns]
  BY Zenon DEF NormalizeCachedTurns, FoldLeft, MapThenFoldSet
<1>2. DOMAIN turns = 1..Len(turns) /\ Len(turns) \in Nat
  OBVIOUS
<1>3. \E g : g = [s \in SUBSET DOMAIN turns |-> IF s = {} THEN <<>>
                    ELSE NormalizeStep(g[s \ {Max(s)}], turns[Max(s)])]
  <2>1. PICK g : Table(g, turns, Len(turns))
    BY <1>2, TableExists
  <2>2. g = [s \in SUBSET DOMAIN turns |-> IF s = {} THEN <<>>
               ELSE NormalizeStep(g[s \ {Max(s)}], turns[Max(s)])]
    BY <1>2, <2>1, Zenon DEF Table
  <2> HIDE DEF it
  <2> QED BY <2>2, Zenon
<1>4. it = [s \in SUBSET DOMAIN turns |-> IF s = {} THEN <<>>
              ELSE NormalizeStep(it[s \ {Max(s)}], turns[Max(s)])]
  BY <1>3, Zenon
<1> HIDE DEF it
<1>5. \A s \in SUBSET (1..Len(turns)) :
        it[s] = IF s = {} THEN <<>> ELSE NormalizeStep(it[s \ {Max(s)}], turns[Max(s)])
  BY <1>2, <1>4
<1>6. kept[0] = <<>>
  <2>1. kept[0] = it[1..0] /\ 1..0 = {} /\ 1..0 \in SUBSET (1..Len(turns))
    BY <1>2
  <2> QED BY <1>5, <2>1
<1>7. ASSUME NEW n \in 1..Len(turns)
      PROVE  kept[n] = NormalizeStep(kept[n - 1], turns[n])
  <2>1. n \in Nat /\ n \in 1..n /\ n <= Len(turns)
    BY <1>2
  <2>2. 1..n \in SUBSET (1..Len(turns)) /\ 1..n # {}
    <3>1. \A i \in 1..n : i \in 1..Len(turns)
      BY <1>2, <2>1
    <3>2. 1..n # {}
      BY <2>1, Zenon
    <3> QED BY <3>1, <3>2, Zenon
  <2>3. (1..n) \ {n} = 1..(n - 1)
    BY <2>1
  <2>4. Max(1..n) = n
    BY <2>1, Greatest
  <2>5. it[1..n] = NormalizeStep(it[1..(n - 1)], turns[n])
    BY <1>5, <2>2, <2>3, <2>4
  <2>6. kept[n] = it[1..n] /\ kept[n - 1] = it[1..(n - 1)]
    BY <1>2
  <2> QED BY <2>5, <2>6
<1>8. NormalizeCachedTurns(turns) = kept[Len(turns)]
  BY <1>1, <1>2
<1> HIDE DEF kept
<1> QED BY <1>6, <1>7, <1>8 DEF Keeps

-----------------------------------------------------------------------------
(* What one turn of the fold does. *)

In(s, m)       == \E j \in DOMAIN s : s[j] = m
Holds(turn, m) == In(turn.parts, m)

Joined(kept, turn) == [kept EXCEPT ![Len(kept)].parts = @ \o turn.parts]

MergesLast(T, kept, turn, x) ==
  /\ x \in Seq(Turns(T)) /\ Len(x) = Len(kept)
  /\ \A b \in 1..(Len(kept) - 1) : x[b] = kept[b]
  /\ x[Len(kept)].role = kept[Len(kept)].role
  /\ x[Len(kept)].parts = kept[Len(kept)].parts \o turn.parts

LEMMA Merged ==
  ASSUME NEW T, NEW kept \in Seq(Turns(T)), kept # <<>>, NEW turn \in Turns(T), NEW x, x = Joined(kept, turn)
  PROVE  MergesLast(T, kept, turn, x)
<1> DEFINE n == Len(kept)
           last == [kept[n] EXCEPT !.parts = @ \o turn.parts]
           y == [kept EXCEPT ![n] = last]
<1>1. n \in Nat \ {0} /\ n \in 1..Len(kept)
  BY EmptySeq
<1>2. kept[n] \in Turns(T)
  BY <1>1
<1>3. last \in Turns(T) /\ last.role = kept[n].role /\ last.parts = kept[n].parts \o turn.parts
  <2>1. kept[n].parts \in Seq(T) /\ turn.parts \in Seq(T)
    BY <1>2 DEF Turns
  <2> DEFINE said == kept[n].parts \o turn.parts
  <2>2. said \in Seq(T)
    BY <2>1
  <2> HIDE DEF said
  <2>3. last = [kept[n] EXCEPT !.parts = said]
    BY DEF said
  <2> HIDE DEF last
  <2>4. last \in Turns(T) /\ last.role = kept[n].role /\ last.parts = said
    BY <1>2, <2>2, <2>3 DEF Turns
  <2> QED BY <2>4 DEF said
<1> HIDE DEF last
<1>4. y \in Seq(Turns(T)) /\ Len(y) = Len(kept) /\ y[n] = last /\ \A b \in 1..(n - 1) : y[b] = kept[b]
  BY <1>1, <1>3
<1>5. x = y
  BY DEF last, Joined
<1> HIDE DEF y
<1> QED BY <1>3, <1>4, <1>5 DEF MergesLast

(* A turn opens a block, is left out, or joins the last block.             *)
Opens(kept, turn, x, n) ==
  /\ x = Append(kept, turn)
  /\ n = 0 => turn.role = "user"
  /\ n > 0 => kept[n].role # turn.role

LeftOut(kept, turn, x, n) == n = 0 /\ x = kept /\ turn.role = "assistant"

Joins(kept, turn, x, n) ==
  /\ n > 0 /\ Len(x) = n /\ kept[n].role = turn.role
  /\ \A b \in 1..(n - 1) : x[b] = kept[b]
  /\ x[n].role = kept[n].role /\ x[n].parts = kept[n].parts \o turn.parts

LEMMA StepCases ==
  ASSUME NEW T, NEW kept \in Seq(Turns(T)), NEW turn \in Turns(T), NEW x, x = NormalizeStep(kept, turn),
         NEW n, n = Len(kept)
  PROVE  /\ x \in Seq(Turns(T)) /\ n \in Nat
         /\ Opens(kept, turn, x, n) \/ LeftOut(kept, turn, x, n) \/ Joins(kept, turn, x, n)
<1> DEFINE y == [kept EXCEPT ![Len(kept)].parts = @ \o turn.parts]
<1>1. n \in Nat /\ turn.role \in {"user", "assistant"} /\ (n = 0 <=> kept = <<>>)
  BY EmptySeq DEF Turns
<1>2. kept # <<>> => /\ Last(kept) = kept[n] /\ kept[n].role \in {"user", "assistant"}
                     /\ n > 0 /\ n \in 1..Len(kept)
  <2> SUFFICES ASSUME kept # <<>>
               PROVE  Last(kept) = kept[n] /\ kept[n].role \in {"user", "assistant"} /\ n > 0 /\ n \in 1..Len(kept)
    OBVIOUS
  <2>1. n > 0 /\ n \in 1..Len(kept)
    BY <1>1
  <2>2. kept[n] \in Turns(T)
    BY <2>1
  <2> QED BY <2>1, <2>2 DEF Last, Turns
<1>3. (ExpectingUser(kept) = (turn.role = "user")) <=>
        ((kept = <<>> \/ kept[n].role = "assistant") <=> turn.role = "user")
  BY <1>2, Zenon DEF ExpectingUser
<1>4. CASE (kept = <<>> \/ kept[n].role = "assistant") <=> turn.role = "user"
  <2>1. x = Append(kept, turn)
    BY <1>3, <1>4, Zenon DEF NormalizeStep
  <2>2. Append(kept, turn) \in Seq(Turns(T))
    OBVIOUS
  <2>3. n = 0 => turn.role = "user"
    BY <1>1, <1>4
  <2>4. n > 0 => kept[n].role # turn.role
    <3>1. n > 0 => kept # <<>>
      BY <1>1
    <3> QED BY <1>1, <1>2, <1>4, <3>1
  <2> QED BY <1>1, <2>1, <2>2, <2>3, <2>4 DEF Opens
<1>5. CASE kept = <<>> /\ turn.role # "user"
  <2>1. x = kept
    BY <1>3, <1>5, Zenon DEF NormalizeStep
  <2>2. turn.role = "assistant" /\ n = 0
    BY <1>1, <1>5
  <2> QED BY <1>1, <2>1, <2>2 DEF LeftOut
<1>6. CASE kept # <<>> /\ ~((kept = <<>> \/ kept[n].role = "assistant") <=> turn.role = "user")
  <2>1. x = y
    BY <1>3, <1>6, Zenon DEF NormalizeStep
  <2>2. kept[n].role = turn.role
    BY <1>1, <1>2, <1>3, <1>6
  <2>3. /\ y \in Seq(Turns(T)) /\ Len(y) = n /\ \A b \in 1..(n - 1) : y[b] = kept[b]
        /\ y[n].role = kept[n].role /\ y[n].parts = kept[n].parts \o turn.parts
    <3>1. y = Joined(kept, turn) /\ kept # <<>>
      BY <1>6 DEF Joined
    <3> HIDE DEF y
    <3>2. MergesLast(T, kept, turn, y)
      BY <3>1, Merged
    <3> QED BY <3>2 DEF MergesLast
  <2> HIDE DEF y
  <2> QED BY <1>1, <1>2, <1>6, <2>1, <2>2, <2>3 DEF Joins
<1> QED BY <1>4, <1>5, <1>6

LEMMA SaidTogether ==
  ASSUME NEW T, NEW p \in Seq(T), NEW q \in Seq(T), NEW m
  PROVE  In(p \o q, m) <=> In(p, m) \/ In(q, m)
<1> DEFINE s == p \o q
<1>1. /\ DOMAIN p = 1..Len(p) /\ DOMAIN q = 1..Len(q) /\ DOMAIN s = 1..(Len(p) + Len(q))
      /\ Len(p) \in Nat /\ Len(q) \in Nat
  OBVIOUS
<1>2. \A j \in 1..(Len(p) + Len(q)) : s[j] = IF j <= Len(p) THEN p[j] ELSE q[j - Len(p)]
  OBVIOUS
<1> HIDE DEF s
<1>3. ASSUME NEW j \in DOMAIN p, p[j] = m
      PROVE  \E i \in DOMAIN s : s[i] = m
  <2>1. j \in DOMAIN s /\ s[j] = m
    BY <1>1, <1>2, <1>3
  <2> QED BY <2>1
<1>4. ASSUME NEW j \in DOMAIN q, q[j] = m
      PROVE  \E i \in DOMAIN s : s[i] = m
  <2>1. j + Len(p) \in DOMAIN s /\ ~(j + Len(p) <= Len(p)) /\ (j + Len(p)) - Len(p) = j
    BY <1>1
  <2>2. s[j + Len(p)] = m
    BY <1>1, <1>2, <1>4, <2>1
  <2> QED BY <2>1, <2>2
<1>5. ASSUME NEW j \in DOMAIN s, s[j] = m
      PROVE  (\E i \in DOMAIN p : p[i] = m) \/ (\E i \in DOMAIN q : q[i] = m)
  <2>1. CASE j <= Len(p)
    <3>1. j \in DOMAIN p /\ p[j] = m
      BY <1>1, <1>2, <1>5, <2>1
    <3> QED BY <3>1
  <2>2. CASE ~(j <= Len(p))
    <3>1. j - Len(p) \in DOMAIN q /\ q[j - Len(p)] = m
      BY <1>1, <1>2, <1>5, <2>2
    <3> QED BY <3>1
  <2> QED BY <2>1, <2>2
<1>6. (\E j \in DOMAIN s : s[j] = m) <=> (\E j \in DOMAIN p : p[j] = m) \/ (\E j \in DOMAIN q : q[j] = m)
  BY <1>3, <1>4, <1>5
<1> QED BY <1>6 DEF s, In

(* Nothing that was kept is lost or moved, and the turn is in the last     *)
(* block, which is of its role, unless nothing is kept at all.             *)
Grown(T, kept, turn, x, n, r) ==
  /\ x \in Seq(Turns(T)) /\ n \in Nat /\ r \in {n, n + 1}
  /\ \A b \in 1..n : x[b].role = kept[b].role /\ \A m : Holds(kept[b], m) => Holds(x[b], m)
  /\ \A b \in 1..r : \A m :
       Holds(x[b], m) => (b <= n /\ Holds(kept[b], m)) \/ (b = r /\ Holds(turn, m))
  /\ IF r = 0 THEN turn.role = "assistant"
     ELSE x[r].role = turn.role /\ \A m : Holds(turn, m) => Holds(x[r], m)
  /\ r = n + 1 => IF n = 0 THEN turn.role = "user" ELSE kept[n].role # turn.role

LEMMA StepEffect ==
  ASSUME NEW T, NEW kept \in Seq(Turns(T)), NEW turn \in Turns(T), NEW x, x = NormalizeStep(kept, turn),
         NEW n, n = Len(kept)
  PROVE  Grown(T, kept, turn, x, n, Len(x))
<1> USE DEF Grown
<1>1. x \in Seq(Turns(T)) /\ n \in Nat
  BY StepCases
<1>2. CASE Opens(kept, turn, x, n)
  <2> USE <1>2 DEF Opens
  <2>1. Len(x) = n + 1 /\ x[n + 1] = turn /\ \A b \in 1..n : x[b] = kept[b]
    BY <1>1, <1>2
  <2>2. Len(x) \in Nat /\ Len(x) # 0 /\ Len(x) \in {n, n + 1} /\ x[Len(x)] = turn
    BY <1>1, <2>1
  <2>3. \A b \in 1..Len(x) : (b <= n /\ x[b] = kept[b]) \/ (b = Len(x) /\ x[b] = turn)
    BY <1>1, <2>1
  <2>4. \A b \in 1..Len(x) : \A m :
              Holds(x[b], m) => (b <= n /\ Holds(kept[b], m)) \/ (b = Len(x) /\ Holds(turn, m))
    BY <2>3, Zenon
  <2>5. n = 0 \/ n > 0
    BY <1>1
  <2> QED BY <1>1, <1>2, <2>1, <2>2, <2>4, <2>5, Zenon
<1>3. CASE LeftOut(kept, turn, x, n)
  <2> USE <1>3 DEF LeftOut
  <2>0. Len(x) = n /\ n = 0
    BY <1>3, Zenon
  <2>1. Len(x) = 0 /\ Len(x) = n /\ Len(x) # n + 1
    BY <2>0
  <2>2. 1..n = {} /\ 1..Len(x) = {}
    BY <2>1
  <2> QED BY <1>1, <1>3, <2>1, <2>2, Zenon
<1>4. CASE Joins(kept, turn, x, n)
  <2> USE <1>4 DEF Joins
  <2>1. n \in 1..Len(kept)
    BY <1>1, <1>4
  <2>2. kept[n].parts \in Seq(T) /\ turn.parts \in Seq(T)
    <3>1. kept[n] \in Turns(T)
      BY <2>1
    <3> QED BY <3>1 DEF Turns
  <2>3. \A m : Holds(x[n], m) <=> Holds(kept[n], m) \/ Holds(turn, m)
    <3> SUFFICES ASSUME NEW m
                 PROVE  Holds(x[n], m) <=> Holds(kept[n], m) \/ Holds(turn, m)
      OBVIOUS
    <3> DEFINE p == kept[n].parts
               q == turn.parts
    <3>1. p \in Seq(T) /\ q \in Seq(T) /\ x[n].parts = p \o q
      BY <1>4, <2>2
    <3>2. (Holds(kept[n], m) <=> In(p, m)) /\ (Holds(turn, m) <=> In(q, m))
      BY Zenon DEF Holds
    <3> HIDE DEF p, q
    <3>3. Holds(x[n], m) <=> In(p \o q, m)
      BY <3>1, Zenon DEF Holds
    <3>4. In(p \o q, m) <=> In(p, m) \/ In(q, m)
      BY <3>1, SaidTogether
    <3> QED BY <3>2, <3>3, <3>4, Zenon
  <2>4. \A b \in 1..n : b = n \/ (b \in 1..(n - 1) /\ x[b] = kept[b])
    BY <1>1, <1>4
  <2>5. \A b \in 1..n : x[b].role = kept[b].role /\ \A m : Holds(kept[b], m) => Holds(x[b], m)
    BY <1>4, <2>3, <2>4, Zenon
  <2>6. \A b \in 1..Len(x) : \A m :
              Holds(x[b], m) => (b <= n /\ Holds(kept[b], m)) \/ (b = Len(x) /\ Holds(turn, m))
    <3>1. \A b \in 1..n : b <= n
      BY <1>1
    <3> QED BY <1>4, <2>3, <2>4, <3>1, Zenon
  <2>7. Len(x) # 0 /\ Len(x) # n + 1 /\ Len(x) \in {n, n + 1}
    BY <1>1, <1>4
  <2>8. x[Len(x)].role = turn.role /\ \A m : Holds(turn, m) => Holds(x[Len(x)], m)
    BY <1>4, <2>3, Zenon
  <2>9. Len(x) = n + 1 => IF n = 0 THEN turn.role = "user" ELSE kept[n].role # turn.role
    BY <2>7
  <2>10. IF Len(x) = 0 THEN turn.role = "assistant"
         ELSE x[Len(x)].role = turn.role /\ \A m : Holds(turn, m) => Holds(x[Len(x)], m)
    BY <2>7, <2>8, Zenon
  <2>11. Len(x) \in {n, n + 1}
    BY <2>7
  <2> QED BY <1>1, <2>5, <2>6, <2>9, <2>10, <2>11, Zenon
<1>5. Opens(kept, turn, x, n) \/ LeftOut(kept, turn, x, n) \/ Joins(kept, turn, x, n)
  BY StepCases
<1> QED BY <1>2, <1>3, <1>4, <1>5, Zenon

-----------------------------------------------------------------------------
(* Where turns go when a history is rewritten: turn i of the first n of    *)
(* base is in turn place[i] of h, or nowhere when that is 0.  Turns(T) keep   *)
(* their order, their role and what they say; neighbours stay neighbours   *)
(* or are merged; and h says nothing that base does not.                   *)
Squeezed(base, n, h, place) ==
  /\ place \in [1..n -> 0..Len(h)]
  /\ \A i, j \in 1..n : i <= j => place[i] <= place[j]
  /\ \A i \in 1..n : IF i = 1 THEN place[i] <= 1 ELSE place[i] <= place[i - 1] + 1
  /\ \A i \in 1..n : place[i] > 0 =>
       h[place[i]].role = base[i].role /\ \A m : Holds(base[i], m) => Holds(h[place[i]], m)
  /\ \A b \in 1..Len(h) : \A m : Holds(h[b], m) => \E i \in 1..n : place[i] = b /\ Holds(base[i], m)

(* Normalization leaves out leading assistant turns and nothing else.      *)
Normalized(T, base, n, h, place) ==
  /\ h \in Seq(Turns(T))
  /\ Squeezed(base, n, h, place)
  /\ \A i \in 1..n : place[i] = 0 => base[i].role = "assistant"
  /\ \A b \in 1..Len(h) : IF b = 1 THEN h[b].role = "user" ELSE h[b - 1].role # h[b].role
  /\ IF n = 0 THEN Len(h) = 0 ELSE place[n] = Len(h)

LEMMA SqueezeGrows ==
  ASSUME NEW T, NEW base \in Seq(Turns(T)), NEW n \in Nat, n + 1 <= Len(base), NEW kept, NEW place,
         Normalized(T, base, n, kept, place), NEW x, x = NormalizeStep(kept, base[n + 1])
  PROVE  \E q : Normalized(T, base, n + 1, x, q)
<1> DEFINE l == Len(kept)
           r == Len(x)
           turn == base[n + 1]
           q == [i \in 1..(n + 1) |-> IF i = n + 1 THEN r ELSE place[i]]
<1>1. kept \in Seq(Turns(T)) /\ turn \in Turns(T) /\ l \in Nat
  BY DEF Normalized
<1>0. Grown(T, kept, turn, x, l, r)
  BY <1>1, StepEffect
<1>2. /\ x \in Seq(Turns(T)) /\ r \in {l, l + 1}
      /\ \A b \in 1..l : x[b].role = kept[b].role /\ \A m : Holds(kept[b], m) => Holds(x[b], m)
      /\ \A b \in 1..r : \A m :
           Holds(x[b], m) => (b <= l /\ Holds(kept[b], m)) \/ (b = r /\ Holds(turn, m))
      /\ IF r = 0 THEN turn.role = "assistant"
         ELSE x[r].role = turn.role /\ \A m : Holds(turn, m) => Holds(x[r], m)
      /\ r = l + 1 => IF l = 0 THEN turn.role = "user" ELSE kept[l].role # turn.role
  BY <1>0, Zenon DEF Grown
<1> HIDE DEF r, turn, l
<1>3. /\ place \in [1..n -> 0..l]
      /\ \A i, j \in 1..n : i <= j => place[i] <= place[j]
      /\ \A i \in 1..n : IF i = 1 THEN place[i] <= 1 ELSE place[i] <= place[i - 1] + 1
      /\ IF n = 0 THEN l = 0 ELSE place[n] = l
  BY DEF Normalized, Squeezed, l
<1>4. \A i \in 1..n : place[i] > 0 =>
        kept[place[i]].role = base[i].role /\ \A m : Holds(base[i], m) => Holds(kept[place[i]], m)
  BY Zenon DEF Normalized, Squeezed
<1>5. \A b \in 1..l : \A m : Holds(kept[b], m) => \E i \in 1..n : place[i] = b /\ Holds(base[i], m)
  BY Zenon DEF Normalized, Squeezed, l
<1>6. \A i \in 1..n : place[i] = 0 => base[i].role = "assistant"
  BY Zenon DEF Normalized
<1>7. \A b \in 1..l : IF b = 1 THEN kept[b].role = "user" ELSE kept[b - 1].role # kept[b].role
  BY Zenon DEF Normalized, l
<1>8. /\ q \in [1..(n + 1) -> 0..r] /\ q[n + 1] = r /\ \A i \in 1..n : q[i] = place[i]
      /\ \A i \in 1..(n + 1) : i = n + 1 \/ i \in 1..n
  BY <1>1, <1>2, <1>3
<1> HIDE DEF q
<1>9. \A i, j \in 1..(n + 1) : i <= j => q[i] <= q[j]
  <2> SUFFICES ASSUME NEW i \in 1..(n + 1), NEW j \in 1..(n + 1), i <= j
               PROVE  q[i] <= q[j]
    OBVIOUS
  <2>1. CASE j = n + 1
    <3>1. q[j] = r /\ (i = n + 1 \/ q[i] \in 0..l)
      BY <1>3, <1>8, <2>1
    <3>2. i = n + 1 => q[i] = r
      BY <1>8
    <3> QED BY <1>1, <1>2, <3>1, <3>2
  <2>2. CASE j \in 1..n
    <3>1. i \in 1..n
      BY <2>2
    <3> QED BY <1>3, <1>8, <2>2, <3>1
  <2> QED BY <1>8, <2>1, <2>2
<1>10. \A i \in 1..(n + 1) : IF i = 1 THEN q[i] <= 1 ELSE q[i] <= q[i - 1] + 1
  <2> SUFFICES ASSUME NEW i \in 1..(n + 1)
               PROVE  IF i = 1 THEN q[i] <= 1 ELSE q[i] <= q[i - 1] + 1
    OBVIOUS
  <2>1. CASE i = n + 1 /\ n = 0
    BY <1>1, <1>2, <1>3, <1>8, <2>1
  <2>2. CASE i = n + 1 /\ n # 0
    <3>1. i - 1 = n /\ n \in 1..n /\ i # 1
      BY <2>2
    <3>2. q[i - 1] = l /\ q[i] = r
      BY <1>3, <1>8, <2>2, <3>1
    <3> QED BY <1>1, <1>2, <3>1, <3>2
  <2>3. CASE i \in 1..n
    <3>1. i # 1 => i - 1 \in 1..n
      BY <2>3
    <3>2. q[i] = place[i] /\ (i # 1 => q[i - 1] = place[i - 1])
      BY <1>8, <2>3, <3>1
    <3>3. IF i = 1 THEN place[i] <= 1 ELSE place[i] <= place[i - 1] + 1
      BY <1>3, <2>3
    <3> QED BY <3>2, <3>3, Zenon
  <2> QED BY <1>8, <2>1, <2>2, <2>3
<1>11. \A i \in 1..(n + 1) : q[i] > 0 =>
         x[q[i]].role = base[i].role /\ \A m : Holds(base[i], m) => Holds(x[q[i]], m)
  <2>1. q[n + 1] > 0 =>
          x[q[n + 1]].role = base[n + 1].role /\ \A m : Holds(base[n + 1], m) => Holds(x[q[n + 1]], m)
    <3>1. r \in Nat
      BY <1>1, <1>2
    <3>2. r > 0 => x[r].role = turn.role /\ \A m : Holds(turn, m) => Holds(x[r], m)
      <4>1. r > 0 => r # 0
        BY <3>1
      <4> QED BY <1>2, <4>1, Zenon
    <3> QED BY <1>8, <3>2, Zenon DEF turn
  <2>2. ASSUME NEW i \in 1..n, q[i] > 0
        PROVE  x[q[i]].role = base[i].role /\ \A m : Holds(base[i], m) => Holds(x[q[i]], m)
    <3>1. q[i] = place[i] /\ place[i] \in 1..l /\ place[i] > 0
      BY <1>1, <1>3, <1>8, <2>2
    <3>2. kept[place[i]].role = base[i].role /\ \A m : Holds(base[i], m) => Holds(kept[place[i]], m)
      BY <1>4, <3>1
    <3>3. x[place[i]].role = kept[place[i]].role /\ \A m : Holds(kept[place[i]], m) => Holds(x[place[i]], m)
      BY <1>2, <3>1, Zenon
    <3> QED BY <3>1, <3>2, <3>3, Zenon
  <2> QED BY <1>8, <2>1, <2>2, Zenon
<1>12. ASSUME NEW b \in 1..r, NEW m, Holds(x[b], m)
       PROVE  \E i \in 1..(n + 1) : q[i] = b /\ Holds(base[i], m)
  <2>1. CASE b <= l /\ Holds(kept[b], m)
    <3>1. b \in 1..l
      BY <1>1, <1>2, <2>1
    <3>2. PICK i \in 1..n : place[i] = b /\ Holds(base[i], m)
      BY <1>5, <2>1, <3>1, Zenon
    <3>3. i \in 1..(n + 1) /\ q[i] = b
      BY <1>8, <3>2
    <3> QED BY <3>2, <3>3
  <2>2. CASE b = r /\ Holds(turn, m)
    <3>1. n + 1 \in 1..(n + 1)
      OBVIOUS
    <3>2. q[n + 1] = b /\ Holds(base[n + 1], m)
      BY <1>8, <2>2 DEF turn
    <3> QED BY <3>1, <3>2
  <2> QED BY <1>2, <1>12, <2>1, <2>2, Zenon
<1>13. \A i \in 1..(n + 1) : q[i] = 0 => base[i].role = "assistant"
  <2>1. q[n + 1] = 0 => base[n + 1].role = "assistant"
    <3>1. r = 0 => turn.role = "assistant"
      BY <1>2, Zenon
    <3> QED BY <1>8, <3>1, Zenon DEF turn
  <2> QED BY <1>6, <1>8, <2>1, Zenon
<1>14. ASSUME NEW b \in 1..r
       PROVE  IF b = 1 THEN x[b].role = "user" ELSE x[b - 1].role # x[b].role
  <2>1. CASE b \in 1..l
    <3>1. x[b].role = kept[b].role /\ (b # 1 => b - 1 \in 1..l)
      BY <1>1, <1>2, <2>1
    <3>2. b # 1 => x[b - 1].role = kept[b - 1].role
      BY <1>2, <3>1, Zenon
    <3>3. IF b = 1 THEN kept[b].role = "user" ELSE kept[b - 1].role # kept[b].role
      BY <1>7, <2>1, Zenon
    <3> QED BY <3>1, <3>2, <3>3, Zenon
  <2>2. CASE b \notin 1..l
    <3>1. r = l + 1 /\ b = r /\ r # 0 /\ b - 1 = l /\ (l # 0 => l \in 1..l) /\ (b = 1 <=> l = 0)
      BY <1>1, <1>2, <2>2
    <3>2. x[r].role = turn.role
      BY <1>2, <3>1, Zenon
    <3>3. IF l = 0 THEN turn.role = "user" ELSE kept[l].role # turn.role
      BY <1>2, <3>1, Zenon
    <3>4. l # 0 => x[l].role = kept[l].role
      BY <1>2, <3>1, Zenon
    <3> QED BY <3>1, <3>2, <3>3, <3>4, Zenon
  <2> QED BY <2>1, <2>2
<1>15. Squeezed(base, n + 1, x, q)
  BY <1>8, <1>9, <1>10, <1>11, <1>12, Zenon DEF Squeezed, r
<1>16. IF n + 1 = 0 THEN Len(x) = 0 ELSE q[n + 1] = Len(x)
  <2>1. n + 1 # 0
    OBVIOUS
  <2> QED BY <1>8, <2>1, Zenon DEF r
<1>17. Normalized(T, base, n + 1, x, q)
  BY <1>2, <1>13, <1>14, <1>15, <1>16, Zenon DEF Normalized, r
<1> QED BY <1>17, Zenon

LEMMA KeptIsNormalized ==
  ASSUME NEW T, NEW turns \in Seq(Turns(T)), NEW kept, Keeps(kept, turns), NEW l \in 0..Len(turns)
  PROVE  \E q : Normalized(T, turns, l, kept[l], q)
<1> DEFINE S == {i \in 0..l : \E q : Normalized(T, turns, i, kept[i], q)}
<1>1. l \in Nat /\ l <= Len(turns)
  OBVIOUS
<1>2. 0 \in S
  <2> DEFINE q == [i \in 1..0 |-> 0]
  <2>1. kept[0] = <<>> /\ Len(<<>>) = 0 /\ <<>> \in Seq(Turns(T))
    BY DEF Keeps
  <2>2. q \in [1..0 -> 0..0] /\ 1..0 = {}
    OBVIOUS
  <2> HIDE DEF q
  <2>3. Squeezed(turns, 0, <<>>, q)
    BY <2>1, <2>2, Zenon DEF Squeezed
  <2>4. Normalized(T, turns, 0, kept[0], q)
    BY <2>1, <2>2, <2>3, Zenon DEF Normalized
  <2> QED BY <1>1, <2>4
<1>3. ASSUME NEW i \in 0..(l - 1), i \in S
      PROVE  i + 1 \in S
  <2>1. PICK place : Normalized(T, turns, i, kept[i], place)
    BY <1>3
  <2>2. i \in Nat /\ i + 1 <= Len(turns) /\ i + 1 \in 1..Len(turns) /\ (i + 1) - 1 = i /\ i + 1 \in 0..l
    BY <1>1
  <2>3. kept[i + 1] = NormalizeStep(kept[i], turns[i + 1])
    BY <2>2 DEF Keeps
  <2> HIDE DEF S
  <2>4. \E q : Normalized(T, turns, i + 1, kept[i + 1], q)
    BY <2>1, <2>2, <2>3, SqueezeGrows
  <2> QED BY <2>2, <2>4 DEF S
<1> HIDE DEF S
<1>4. l \in S
  BY <1>1, <1>2, <1>3, CountUp
<1> QED BY <1>4 DEF S

(* What the model is shown keeps every cached turn but leading assistant   *)
(* turns, in order, begins with the user and alternates, whatever the      *)
(* cached turns are (normalize_cached_channel_turns).                      *)
THEOREM NormalizationKeepsTurns ==
  ASSUME NEW T, NEW turns \in Seq(Turns(T))
  PROVE  \E place : Normalized(T, turns, Len(turns), NormalizeCachedTurns(turns), place)
<1>1. PICK kept : Keeps(kept, turns)
  BY Unfolded
<1>2. Len(turns) \in 0..Len(turns) /\ NormalizeCachedTurns(turns) = kept[Len(turns)]
  BY <1>1 DEF Keeps
<1> QED BY <1>1, <1>2, KeptIsNormalized

-----------------------------------------------------------------------------
(* Dropping turns from the front. *)
Shifted(T, x, h, c) ==
  /\ x \in Seq(Turns(T)) /\ Len(x) \in Nat /\ Len(x) <= c /\ Len(x) <= Len(h)
  /\ \A i \in 1..Len(x) : x[i] = h[i + (Len(h) - Len(x))]
  /\ Len(h) > 0 => Len(x) > 0
  /\ Len(h) <= c => x = h

LEMMA LastTurnsShift ==
  ASSUME NEW T, NEW h \in Seq(Turns(T)), NEW c \in Nat \ {0}, NEW x, x = LastTurns(h, c)
  PROVE  Shifted(T, x, h, c)
<1> DEFINE s == IF Len(h) > c THEN Len(h) - c + 1 ELSE 1
           n == Len(h)
<1>1. n \in Nat /\ s \in 1..(n + 1) /\ x = SubSeq(h, s, n)
  BY DEF LastTurns
<1>2. IF n > c THEN s = n - c + 1 ELSE s = 1
  OBVIOUS
<1>3. \A i \in s..n : h[i] \in Turns(T)
  BY <1>1
<1> HIDE DEF s
<1>4. Len(x) = n - s + 1 /\ x \in Seq(Turns(T)) /\ \A i \in 1..(n - s + 1) : x[i] = h[i + (s - 1)]
  BY <1>1, <1>3
<1>5. s - 1 = n - Len(x)
  BY <1>1, <1>4
<1>6. n <= c => x = h
  <2> SUFFICES ASSUME n <= c
               PROVE  x = h
    OBVIOUS
  <2>1. s = 1
    BY <1>2
  <2>2. Len(x) = Len(h) /\ \A i \in 1..Len(h) : x[i] = h[i]
    BY <1>1, <1>4, <2>1
  <2> QED BY <1>4, <2>2
<1>7. Len(x) \in Nat /\ Len(x) <= c /\ Len(x) <= n /\ (n > 0 => Len(x) > 0)
  BY <1>1, <1>2, <1>4
<1> QED BY <1>4, <1>5, <1>6, <1>7 DEF Shifted

LEMMA DropSqueezes ==
  ASSUME NEW T, NEW h \in Seq(Turns(T)), NEW c \in Nat \ {0}, NEW x, x = LastTurns(h, c)
  PROVE  \E place : Squeezed(h, Len(h), x, place)
<1> DEFINE n == Len(h)
           r == Len(x)
           d == n - r
           place == [i \in 1..n |-> IF i <= d THEN 0 ELSE i - d]
<1>1. /\ n \in Nat /\ r \in Nat /\ r <= n
      /\ \A i \in 1..r : x[i] = h[i + d]
  BY LastTurnsShift DEF Shifted
<1> HIDE DEF r
<1>2. d \in Nat /\ d + r = n
  BY <1>1
<1> HIDE DEF d
<1>3. place \in [1..n -> 0..r]
  BY <1>1, <1>2
<1>4. \A i, j \in 1..n : i <= j => place[i] <= place[j]
  BY <1>1, <1>2
<1>5. \A i \in 1..n : IF i = 1 THEN place[i] <= 1 ELSE place[i] <= place[i - 1] + 1
  BY <1>1, <1>2
<1>6. \A i \in 1..n : place[i] > 0 => x[place[i]] = h[i]
  BY <1>1, <1>2
<1>7. \A b \in 1..r : b + d \in 1..n /\ place[b + d] = b /\ x[b] = h[b + d]
  BY <1>1, <1>2
<1> HIDE DEF place
<1>8. \A i \in 1..n : place[i] > 0 =>
        x[place[i]].role = h[i].role /\ \A m : Holds(h[i], m) => Holds(x[place[i]], m)
  BY <1>6, Zenon
<1>9. \A b \in 1..r : \A m : Holds(x[b], m) => \E i \in 1..n : place[i] = b /\ Holds(h[i], m)
  BY <1>7, Zenon
<1>10. Squeezed(h, n, x, place)
  BY <1>3, <1>4, <1>5, <1>8, <1>9, Zenon DEF Squeezed, r
<1> QED BY <1>10

LEMMA SqueezeTwice ==
  ASSUME NEW T, NEW h, NEW n \in Nat, NEW x \in Seq(Turns(T)), NEW y \in Seq(Turns(T)), NEW p, NEW q,
         Squeezed(h, n, x, p), Squeezed(x, Len(x), y, q)
  PROVE  \E place : Squeezed(h, n, y, place)
<1> DEFINE r == Len(x)
           l == Len(y)
           place == [i \in 1..n |-> IF p[i] = 0 THEN 0 ELSE q[p[i]]]
<1>1. r \in Nat /\ l \in Nat
  OBVIOUS
<1>2. /\ p \in [1..n -> 0..r]
      /\ \A i, j \in 1..n : i <= j => p[i] <= p[j]
      /\ \A i \in 1..n : IF i = 1 THEN p[i] <= 1 ELSE p[i] <= p[i - 1] + 1
  BY DEF Squeezed
<1>3. /\ q \in [1..r -> 0..l]
      /\ \A i, j \in 1..r : i <= j => q[i] <= q[j]
      /\ \A i \in 1..r : IF i = 1 THEN q[i] <= 1 ELSE q[i] <= q[i - 1] + 1
  BY DEF Squeezed
<1>4. \A i \in 1..n : p[i] > 0 =>
        x[p[i]].role = h[i].role /\ \A m : Holds(h[i], m) => Holds(x[p[i]], m)
  BY Zenon DEF Squeezed
<1>5. \A i \in 1..r : q[i] > 0 =>
        y[q[i]].role = x[i].role /\ \A m : Holds(x[i], m) => Holds(y[q[i]], m)
  BY Zenon DEF Squeezed, r
<1>6. \A b \in 1..r : \A m : Holds(x[b], m) => \E i \in 1..n : p[i] = b /\ Holds(h[i], m)
  BY Zenon DEF Squeezed, r
<1>7. \A b \in 1..l : \A m : Holds(y[b], m) => \E i \in 1..r : q[i] = b /\ Holds(x[i], m)
  BY Zenon DEF Squeezed, r, l
<1> HIDE DEF r, l
<1>8. place \in [1..n -> 0..l] /\ \A i \in 1..n : place[i] = IF p[i] = 0 THEN 0 ELSE q[p[i]]
  BY <1>1, <1>2, <1>3
<1> HIDE DEF place
<1>9. \A i \in 1..n : p[i] = 0 \/ p[i] \in 1..r
  BY <1>1, <1>2
<1>10. \A i, j \in 1..n : i <= j => place[i] <= place[j]
  <2> SUFFICES ASSUME NEW i \in 1..n, NEW j \in 1..n, i <= j
               PROVE  place[i] <= place[j]
    OBVIOUS
  <2>1. p[i] <= p[j] /\ place[i] \in 0..l /\ place[j] \in 0..l
    BY <1>2, <1>8
  <2>2. CASE p[i] = 0
    BY <1>1, <1>8, <2>1, <2>2
  <2>3. CASE p[i] \in 1..r
    <3>1. p[j] \in 1..r /\ p[i] # 0 /\ p[j] # 0
      BY <1>1, <1>9, <2>1, <2>3
    <3> QED BY <1>3, <1>8, <2>1, <2>3, <3>1
  <2> QED BY <1>9, <2>2, <2>3
<1>11. \A i \in 1..n : IF i = 1 THEN place[i] <= 1 ELSE place[i] <= place[i - 1] + 1
  <2> SUFFICES ASSUME NEW i \in 1..n
               PROVE  IF i = 1 THEN place[i] <= 1 ELSE place[i] <= place[i - 1] + 1
    OBVIOUS
  <2>1. place[i] \in 0..l
    BY <1>8
  <2>2. CASE p[i] = 0
    <3>1. place[i] = 0 /\ (i # 1 => i - 1 \in 1..n)
      BY <1>8, <2>2
    <3>2. i # 1 => place[i - 1] \in 0..l
      BY <1>8, <3>1
    <3> QED BY <1>1, <3>1, <3>2
  <2>3. CASE p[i] \in 1..r /\ i = 1
    <3>1. p[i] = 1
      BY <1>1, <1>2, <2>3
    <3>2. 1 \in 1..r /\ p[i] # 0
      BY <2>3, <3>1
    <3>3. q[1] <= 1
      BY <1>3, <3>2
    <3>4. place[i] = q[1]
      BY <1>8, <3>1, <3>2
    <3> QED BY <2>3, <3>3, <3>4
  <2>4. CASE p[i] \in 1..r /\ i # 1
    <3> DEFINE k == i - 1
    <3>1. k \in 1..n /\ k <= i
      BY <2>4
    <3>2. p[i] <= p[k] + 1 /\ p[k] <= p[i] /\ place[k] \in 0..l
      BY <1>2, <1>8, <2>4, <3>1
    <3>3. place[i] = q[p[i]] /\ place[k] = IF p[k] = 0 THEN 0 ELSE q[p[k]]
      BY <1>1, <1>8, <2>4, <3>1
    <3> HIDE DEF k
    <3>4. p[k] \in 0..r
      BY <1>2, <3>1
    <3>5. CASE p[k] = 0
      <4>1. p[i] = 1
        BY <2>4, <3>2, <3>5, <1>1
      <4>2. q[1] <= 1
        BY <1>1, <1>3, <2>4, <4>1
      <4> QED BY <3>3, <3>5, <4>1, <4>2, <2>4 DEF k
    <3>6. CASE p[k] # 0 /\ p[i] = p[k]
      <4>1. place[i] = place[k]
        BY <3>3, <3>6
      <4> QED BY <1>1, <2>4, <3>2, <4>1 DEF k
    <3>7. CASE p[k] # 0 /\ p[i] # p[k]
      <4>1. p[i] = p[k] + 1 /\ p[i] # 1 /\ p[i] - 1 = p[k]
        BY <1>1, <2>4, <3>2, <3>4, <3>7
      <4>2. q[p[i]] <= q[p[i] - 1] + 1
        BY <1>3, <2>4, <4>1
      <4> QED BY <2>4, <3>3, <3>7, <4>1, <4>2 DEF k
    <3> QED BY <3>5, <3>6, <3>7
  <2> QED BY <1>9, <2>2, <2>3, <2>4
<1>12. ASSUME NEW i \in 1..n, place[i] > 0
       PROVE  y[place[i]].role = h[i].role /\ \A m : Holds(h[i], m) => Holds(y[place[i]], m)
  <2>1. p[i] \in 1..r /\ p[i] > 0 /\ place[i] = q[p[i]] /\ q[p[i]] > 0
    BY <1>1, <1>8, <1>9, <1>12
  <2>2. x[p[i]].role = h[i].role /\ \A m : Holds(h[i], m) => Holds(x[p[i]], m)
    BY <1>4, <2>1, Zenon
  <2>3. y[q[p[i]]].role = x[p[i]].role /\ \A m : Holds(x[p[i]], m) => Holds(y[q[p[i]]], m)
    BY <1>5, <2>1, Zenon
  <2> QED BY <2>1, <2>2, <2>3, Zenon
<1>13. ASSUME NEW b \in 1..l, NEW m, Holds(y[b], m)
       PROVE  \E i \in 1..n : place[i] = b /\ Holds(h[i], m)
  <2>1. PICK k \in 1..r : q[k] = b /\ Holds(x[k], m)
    BY <1>7, <1>13, Zenon
  <2>2. PICK i \in 1..n : p[i] = k /\ Holds(h[i], m)
    BY <1>6, <2>1, Zenon
  <2>3. k # 0
    BY <1>1
  <2>4. place[i] = b
    BY <1>8, <2>1, <2>2, <2>3
  <2> QED BY <2>2, <2>4
<1>14. Squeezed(h, n, y, place)
  BY <1>8, <1>10, <1>11, <1>12, <1>13, Zenon DEF Squeezed, l
<1> QED BY <1>14
=============================================================================
