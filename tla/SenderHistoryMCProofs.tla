------------------------ MODULE SenderHistoryMCProofs ------------------------
(***************************************************************************)
(* Normalization and compaction against their reference definitions, for   *)
(* every history that the calls can build.                                 *)
(***************************************************************************)
EXTENDS SenderHistoryMC, SenderHistoryProofs, FiniteSetTheorems

-----------------------------------------------------------------------------
(* What turns say together. *)

(* f[i] is the first i of the sequences ss, one behind the other.          *)
Flat(f, ss, n) == f = [i \in 1..n |-> IF i = 1 THEN ss[i] ELSE f[i - 1] \o ss[i]]

LEMMA FlatGrows ==
  ASSUME NEW ss, NEW n \in Nat, NEW f, Flat(f, ss, n)
  PROVE  \E g : Flat(g, ss, n + 1)
<1> DEFINE g == [i \in 1..(n + 1) |-> IF i = n + 1 THEN (IF n = 0 THEN ss[1] ELSE f[n] \o ss[n + 1]) ELSE f[i]]
<1>1. \A i \in 1..n : f[i] = IF i = 1 THEN ss[i] ELSE f[i - 1] \o ss[i]
  BY DEF Flat
<1>2. \A i \in 1..(n + 1) : g[i] = IF i = n + 1 THEN (IF n = 0 THEN ss[1] ELSE f[n] \o ss[n + 1]) ELSE f[i]
  OBVIOUS
<1>3. g = [i \in 1..(n + 1) |-> g[i]]
  OBVIOUS
<1> HIDE DEF g
<1>4. ASSUME NEW i \in 1..(n + 1)
      PROVE  g[i] = IF i = 1 THEN ss[i] ELSE g[i - 1] \o ss[i]
  <2>1. CASE i = n + 1 /\ n = 0
    BY <1>2, <2>1
  <2>2. CASE i = n + 1 /\ n # 0
    <3>1. i - 1 = n /\ n \in 1..(n + 1) /\ n # n + 1 /\ i # 1
      BY <2>2
    <3>2. g[i - 1] = f[n] /\ g[i] = f[n] \o ss[i]
      BY <1>2, <2>2, <3>1
    <3> QED BY <3>1, <3>2
  <2>3. CASE i # n + 1
    <3>1. i \in 1..n /\ (i # 1 => i - 1 \in 1..(n + 1) /\ i - 1 # n + 1)
      BY <2>3
    <3>2. g[i] = f[i] /\ (i # 1 => g[i - 1] = f[i - 1])
      BY <1>2, <2>3, <3>1
    <3> QED BY <1>1, <3>1, <3>2
  <2> QED BY <2>1, <2>2, <2>3
<1>5. g = [i \in 1..(n + 1) |-> IF i = 1 THEN ss[i] ELSE g[i - 1] \o ss[i]]
  BY <1>3, <1>4
<1> QED BY <1>5 DEF Flat

LEMMA FlatExists ==
  ASSUME NEW ss, NEW n \in Nat
  PROVE  \E g : Flat(g, ss, n)
<1> DEFINE S == {i \in Nat : \E g : Flat(g, ss, i)}
<1>1. 0 \in S
  <2> DEFINE g == [i \in 1..0 |-> <<>>]
  <2>1. g = [i \in 1..0 |-> IF i = 1 THEN ss[i] ELSE g[i - 1] \o ss[i]]
    OBVIOUS
  <2> HIDE DEF g
  <2>2. Flat(g, ss, 0)
    BY <2>1 DEF Flat
  <2> QED BY <2>2
<1>2. ASSUME NEW i \in 0..(n - 1), i \in S
      PROVE  i + 1 \in S
  <2>1. PICK f : Flat(f, ss, i)
    BY <1>2
  <2>2. \E g : Flat(g, ss, i + 1)
    BY <1>2, <2>1, FlatGrows
  <2> QED BY <1>2, <2>2
<1> HIDE DEF S
<1>3. n \in S
  BY <1>1, <1>2, CountUp
<1> QED BY <1>3 DEF S

Agree(f, g, n) == \A i \in 1..n : f[i] = g[i]

(* Sequences that agree are flattened alike. *)
LEMMA FlatAgrees ==
  ASSUME NEW n \in Nat, NEW l \in Nat, n <= l, NEW ss, NEW tt, Agree(ss, tt, n),
         NEW f, Flat(f, ss, n), NEW g, Flat(g, tt, l)
  PROVE  Agree(f, g, n)
<1> USE DEF Agree
<1>1. \A i \in 1..n : f[i] = IF i = 1 THEN ss[i] ELSE f[i - 1] \o ss[i]
  BY DEF Flat
<1>2. \A i \in 1..l : g[i] = IF i = 1 THEN tt[i] ELSE g[i - 1] \o tt[i]
  BY DEF Flat
<1> SUFFICES ASSUME NEW k \in 1..n PROVE f[k] = g[k]
  OBVIOUS
<1> DEFINE S == {i \in 0..n : i = 0 \/ f[i] = g[i]}
<1>3. 0 \in S
  OBVIOUS
<1>4. ASSUME NEW i \in 0..(k - 1), i \in S
      PROVE  i + 1 \in S
  <2>1. i + 1 \in 1..n /\ i + 1 \in 1..l /\ (i + 1) - 1 = i /\ (i + 1 # 1 => i # 0)
    OBVIOUS
  <2>2. i # 0 => f[i] = g[i]
    BY <1>4
  <2>3. f[i + 1] = IF i + 1 = 1 THEN ss[i + 1] ELSE f[i] \o ss[i + 1]
    BY <1>1, <2>1
  <2>4. g[i + 1] = IF i + 1 = 1 THEN tt[i + 1] ELSE g[i] \o tt[i + 1]
    BY <1>2, <2>1
  <2>5. f[i + 1] = g[i + 1]
    BY <2>1, <2>2, <2>3, <2>4
  <2> QED BY <2>1, <2>5
<1> HIDE DEF S
<1>5. k \in S
  BY <1>3, <1>4, CountUp
<1> QED BY <1>5 DEF S

LEMMA Flattened ==
  ASSUME NEW ss, NEW n \in Nat \ {0}, n = Len(ss)
  PROVE  \E f : Flat(f, ss, n) /\ FlattenSeq(ss) = f[n]
<1> DEFINE f == CHOOSE f : f = [i \in 1..Len(ss) |-> IF i = 1 THEN ss[i] ELSE f[i - 1] \o ss[i]]
<1>1. FlattenSeq(ss) = f[Len(ss)]
  BY Zenon DEF FlattenSeq
<1>2. \E g : g = [i \in 1..Len(ss) |-> IF i = 1 THEN ss[i] ELSE g[i - 1] \o ss[i]]
  <2> HIDE DEF f
  <2>1. \E g : Flat(g, ss, Len(ss))
    BY FlatExists
  <2> QED BY <2>1, Zenon DEF Flat
<1>3. f = [i \in 1..Len(ss) |-> IF i = 1 THEN ss[i] ELSE f[i - 1] \o ss[i]]
  BY <1>2, Zenon
<1> HIDE DEF f
<1>4. Flat(f, ss, Len(ss))
  BY <1>3, Zenon DEF Flat
<1> QED BY <1>1, <1>4

LEMMA FlattenMore ==
  ASSUME NEW T, NEW ss \in Seq(Seq(T)), NEW s \in Seq(T), NEW tt, tt = Append(ss, s)
  PROVE  FlattenSeq(tt) = FlattenSeq(ss) \o s
<1> DEFINE n == Len(ss)
<1>1. n \in Nat /\ Len(tt) = n + 1 /\ tt[n + 1] = s /\ \A i \in 1..n : ss[i] = tt[i]
  OBVIOUS
<1>2. PICK g : Flat(g, tt, n + 1) /\ FlattenSeq(tt) = g[n + 1]
  <2>1. n + 1 \in Nat \ {0} /\ n + 1 = Len(tt)
    BY <1>1
  <2> HIDE DEF n
  <2> QED BY <2>1, Flattened
<1>3. \A i \in 1..(n + 1) : g[i] = IF i = 1 THEN tt[i] ELSE g[i - 1] \o tt[i]
  BY <1>2 DEF Flat
<1>4. CASE n = 0
  <2>1. ss = <<>> /\ FlattenSeq(ss) = ss
    BY <1>4 DEF FlattenSeq
  <2>2. <<>> \o s = s
    OBVIOUS
  <2>3. g[n + 1] = s
    BY <1>1, <1>3, <1>4
  <2> QED BY <1>2, <2>1, <2>2, <2>3
<1>5. CASE n # 0
  <2>1. PICK f : Flat(f, ss, n) /\ FlattenSeq(ss) = f[n]
    BY <1>1, <1>5, Flattened
  <2>2. Agree(f, g, n)
    <3>1. n \in Nat /\ n + 1 \in Nat /\ n <= n + 1 /\ Agree(ss, tt, n)
      BY <1>1 DEF Agree
    <3> HIDE DEF n
    <3> QED BY <1>2, <2>1, <3>1, FlatAgrees
  <2>3. n + 1 \in 1..(n + 1) /\ n + 1 # 1 /\ (n + 1) - 1 = n /\ n \in 1..n
    BY <1>1, <1>5
  <2>4. g[n + 1] = g[n] \o s
    BY <1>1, <1>3, <2>3
  <2> QED BY <1>2, <2>1, <2>2, <2>3, <2>4 DEF Agree
<1> QED BY <1>4, <1>5

LEMMA SaidNothing == Said(<<>>) = <<>>
<1> DEFINE parts == [i \in DOMAIN <<>> |-> <<>>[i].parts]
<1>1. DOMAIN <<>> = 1..0 /\ Len(<<>>) = 0
  OBVIOUS
<1>2. parts = <<>>
  OBVIOUS
<1>3. FlattenSeq(<<>>) = <<>>
  BY <1>1 DEF FlattenSeq
<1> QED BY <1>2, <1>3 DEF Said

LEMMA SaidMore ==
  ASSUME NEW T, NEW ts \in Seq(Turns(T)), NEW t \in Turns(T), NEW x, x = Append(ts, t)
  PROVE  Said(x) = Said(ts) \o t.parts
<1> DEFINE n == Len(ts)
           ss == [i \in DOMAIN ts |-> ts[i].parts]
           tt == [i \in DOMAIN x |-> x[i].parts]
<1>1. /\ n \in Nat /\ DOMAIN ts = 1..n /\ DOMAIN x = 1..(n + 1)
      /\ x[n + 1] = t /\ \A i \in 1..n : x[i] = ts[i] /\ ts[i] \in Turns(T)
  OBVIOUS
<1>2. t.parts \in Seq(T) /\ \A i \in 1..n : ts[i].parts \in Seq(T)
  BY <1>1 DEF Turns
<1> HIDE DEF n
<1>3. ss \in Seq(Seq(T))
  <2>1. ss \in [1..n -> Seq(T)]
    BY <1>1, <1>2
  <2> HIDE DEF ss
  <2> QED BY <1>1, <2>1
<1>4. tt = Append(ss, t.parts)
  <2> DEFINE q == t.parts
             y == Append(ss, q)
  <2>1. Len(ss) = n /\ \A i \in 1..n : ss[i] = ts[i].parts
    <3>1. DOMAIN ss = 1..n
      BY <1>1
    <3>2. \A i \in 1..n : ss[i] = ts[i].parts
      BY <1>1
    <3> HIDE DEF ss
    <3>3. Len(ss) \in Nat /\ 1..Len(ss) = 1..n
      BY <1>3, <3>1
    <3> QED BY <1>1, <3>2, <3>3
  <2>2. \A i \in 1..(n + 1) : tt[i] = x[i].parts
    BY <1>1
  <2>3. tt = [i \in 1..(n + 1) |-> tt[i]]
    BY <1>1
  <2> HIDE DEF ss, tt, q
  <2>4. DOMAIN y = 1..(n + 1) /\ y[n + 1] = q /\ \A i \in 1..n : y[i] = ss[i]
    BY <1>1, <1>3, <2>1
  <2>5. y = [i \in 1..(n + 1) |-> y[i]]
    <3>1. y \in Seq(Seq(T))
      BY <1>2, <1>3 DEF q
    <3> HIDE DEF y
    <3> QED BY <2>4, <3>1, LenProperties
  <2>6. ASSUME NEW i \in 1..(n + 1)
        PROVE  tt[i] = y[i]
    <3>1. CASE i = n + 1
      BY <1>1, <2>2, <2>4, <3>1 DEF q
    <3>2. CASE i # n + 1
      <4>1. i \in 1..n
        BY <1>1, <3>2
      <4> QED BY <1>1, <2>1, <2>2, <2>4, <4>1
    <3> QED BY <3>1, <3>2
  <2>7. tt = y
    BY <2>3, <2>5, <2>6
  <2> QED BY <2>7 DEF q
<1>5. Said(ts) = FlattenSeq(ss) /\ Said(x) = FlattenSeq(tt)
  BY Zenon DEF Said
<1> HIDE DEF ss, tt
<1> QED BY <1>2, <1>3, <1>4, <1>5, FlattenMore

(* The turns from s up to e. *)
LEMMA OneFurther ==
  ASSUME NEW S, NEW ts \in Seq(S), NEW s \in Nat \ {0}, NEW e \in Nat, s <= e + 1, e + 1 <= Len(ts)
  PROVE  /\ SubSeq(ts, s, e) \in Seq(S) /\ ts[e + 1] \in S
         /\ SubSeq(ts, s, e + 1) = Append(SubSeq(ts, s, e), ts[e + 1])
<1> DEFINE x == SubSeq(ts, s, e)
           y == SubSeq(ts, s, e + 1)
           z == Append(x, ts[e + 1])
           n == e + 1 - s
<1>1. ts[e + 1] \in S /\ \A i \in s..e : ts[i] \in S
  OBVIOUS
<1>2. x \in Seq(S) /\ Len(x) = n /\ \A i \in 1..n : x[i] = ts[i + (s - 1)]
  BY <1>1
<1>3. y \in Seq(S) /\ Len(y) = n + 1 /\ \A i \in 1..(n + 1) : y[i] = ts[i + (s - 1)]
  BY <1>1
<1>4. n \in Nat /\ (n + 1) + (s - 1) = e + 1
  OBVIOUS
<1> HIDE DEF x, y, n
<1>5. z \in Seq(S) /\ Len(z) = n + 1 /\ z[n + 1] = ts[e + 1] /\ \A i \in 1..n : z[i] = x[i]
  BY <1>1, <1>2, <1>4
<1> HIDE DEF z
<1>6. ASSUME NEW i \in 1..(n + 1)
      PROVE  y[i] = z[i]
  <2>1. CASE i = n + 1
    BY <1>3, <1>4, <1>5, <2>1
  <2>2. CASE i # n + 1
    <3>1. i \in 1..n
      BY <1>4, <2>2
    <3> QED BY <1>2, <1>3, <1>5, <3>1
  <2> QED BY <2>1, <2>2
<1>7. y = z
  BY <1>3, <1>5, <1>6, SeqEqual
<1> QED BY <1>1, <1>2, <1>7 DEF x, y, z

-----------------------------------------------------------------------------
(* The fold by blocks. *)

Block(base, turn, s, e) ==
  /\ s <= e
  /\ \A j \in s..e : base[j].role = turn.role
  /\ turn.parts = Said(SubSeq(base, s, e))

(* h holds a turn for each block of the first n turns of base, from the    *)
(* first user turn on; the b-th goes from first[b] to last[b].             *)
Blocks(T, base, n, h, first, last) ==
  /\ h \in Seq(Turns(T)) /\ Len(h) <= n
  /\ first \in [1..Len(h) -> 1..n] /\ last \in [1..Len(h) -> 1..n]
  /\ \A b \in 1..Len(h) : Block(base, h[b], first[b], last[b])
  /\ \A b \in 2..Len(h) : first[b] = last[b - 1] + 1 /\ h[b].role # h[b - 1].role
  /\ Len(h) = 0 => \A j \in 1..n : base[j].role = "assistant"
  /\ Len(h) > 0 => /\ h[1].role = "user" /\ \A j \in 1..(first[1] - 1) : base[j].role = "assistant"
                   /\ last[Len(h)] = n

LEMMA BlockOpens ==
  ASSUME NEW T, NEW base \in Seq(Turns(T)), NEW n \in Nat, n + 1 <= Len(base),
         NEW kept, NEW first, NEW last, Blocks(T, base, n, kept, first, last),
         NEW l \in Nat, l = Len(kept), NEW turn, turn = base[n + 1], NEW x, Opens(kept, turn, x, l)
  PROVE  \E f, g : Blocks(T, base, n + 1, x, f, g)
<1> DEFINE r == l + 1
           f == [b \in 1..r |-> IF b = r THEN n + 1 ELSE first[b]]
           g == [b \in 1..r |-> IF b = r THEN n + 1 ELSE last[b]]
<1>1. kept \in Seq(Turns(T)) /\ turn \in Turns(T) /\ l <= n
  BY DEF Blocks
<1>2. /\ x \in Seq(Turns(T)) /\ Len(x) = r /\ x[r] = turn /\ \A b \in 1..l : x[b] = kept[b]
      /\ r \in Nat /\ r > 0 /\ r <= n + 1 /\ x = Append(kept, turn)
  BY <1>1 DEF Opens
<1>3. first \in [1..l -> 1..n] /\ last \in [1..l -> 1..n]
  BY DEF Blocks
<1>4. /\ f \in [1..r -> 1..(n + 1)] /\ g \in [1..r -> 1..(n + 1)]
      /\ f[r] = n + 1 /\ g[r] = n + 1 /\ \A b \in 1..l : f[b] = first[b] /\ g[b] = last[b]
      /\ \A b \in 1..r : b = r \/ b \in 1..l
  BY <1>1, <1>2, <1>3
<1> HIDE DEF f, g
<1>5. SubSeq(base, n + 1, n) = <<>> /\ SubSeq(base, n + 1, n + 1) = Append(<<>>, turn)
  <2>1. SubSeq(base, n + 1, n) = <<>>
    BY SubSeqEmpty
  <2>2. n + 1 \in Nat \ {0} /\ n + 1 <= n + 1
    OBVIOUS
  <2> QED BY <2>1, <2>2, OneFurther
<1>6. turn.parts \in Seq(T) /\ Said(SubSeq(base, n + 1, n + 1)) = turn.parts
  <2> DEFINE e == <<>>
  <2>1. e \in Seq(Turns(T)) /\ SubSeq(base, n + 1, n + 1) = Append(e, turn) /\ Said(e) = <<>>
    BY <1>5, SaidNothing
  <2> HIDE DEF e
  <2>2. Said(SubSeq(base, n + 1, n + 1)) = <<>> \o turn.parts
    BY <1>1, <2>1, SaidMore
  <2>3. turn.parts \in Seq(T)
    BY <1>1 DEF Turns
  <2>4. <<>> \o turn.parts = turn.parts
    BY <2>3, ConcatEmptySeq
  <2> QED BY <2>2, <2>3, <2>4
<1>7. \A b \in 1..r : Block(base, x[b], f[b], g[b])
  <2>1. Block(base, x[r], f[r], g[r])
    BY <1>2, <1>4, <1>6 DEF Block
  <2>2. ASSUME NEW b \in 1..l
        PROVE  Block(base, x[b], f[b], g[b])
    <3>1. Block(base, kept[b], first[b], last[b])
      BY DEF Blocks
    <3> QED BY <1>2, <1>4, <3>1
  <2> QED BY <1>4, <2>1, <2>2
<1>8. \A b \in 2..r : f[b] = g[b - 1] + 1 /\ x[b].role # x[b - 1].role
  <2>1. ASSUME NEW b \in 2..r, b = r
        PROVE  f[b] = g[b - 1] + 1 /\ x[b].role # x[b - 1].role
    <3>1. l > 0 /\ b - 1 = l /\ l \in 1..l
      BY <2>1
    <3>2. last[l] = n /\ kept[l].role # turn.role
      BY <3>1 DEF Blocks, Opens
    <3> QED BY <1>2, <1>4, <2>1, <3>1, <3>2
  <2>2. ASSUME NEW b \in 2..r, b # r
        PROVE  f[b] = g[b - 1] + 1 /\ x[b].role # x[b - 1].role
    <3>1. b \in 2..l /\ b \in 1..l /\ b - 1 \in 1..l
      BY <2>2
    <3>2. first[b] = last[b - 1] + 1 /\ kept[b].role # kept[b - 1].role
      BY <3>1 DEF Blocks
    <3> QED BY <1>2, <1>4, <3>1, <3>2
  <2> QED BY <2>1, <2>2
<1>9. x[1].role = "user" /\ \A j \in 1..(f[1] - 1) : base[j].role = "assistant"
  <2>1. CASE l = 0
    <3>1. r = 1 /\ turn.role = "user" /\ \A j \in 1..n : base[j].role = "assistant"
      BY <2>1 DEF Opens, Blocks
    <3>2. f[1] - 1 = n
      BY <1>4, <3>1
    <3> QED BY <1>2, <3>1, <3>2
  <2>2. CASE l # 0
    <3>1. l > 0 /\ 1 \in 1..l
      BY <2>2
    <3>2. kept[1].role = "user" /\ \A j \in 1..(first[1] - 1) : base[j].role = "assistant"
      BY <3>1 DEF Blocks
    <3> QED BY <1>2, <1>4, <3>1, <3>2
  <2> QED BY <2>1, <2>2
<1>10. Blocks(T, base, n + 1, x, f, g)
  <2>1. Len(x) > 0 /\ Len(x) # 0
    BY <1>2
  <2> QED BY <1>2, <1>4, <1>7, <1>8, <1>9, <2>1, Zenon DEF Blocks
<1> QED BY <1>10

LEMMA BlockJoins ==
  ASSUME NEW T, NEW base \in Seq(Turns(T)), NEW n \in Nat, n + 1 <= Len(base),
         NEW kept, NEW first, NEW last, Blocks(T, base, n, kept, first, last),
         NEW l \in Nat, l = Len(kept), NEW turn, turn = base[n + 1],
         NEW x \in Seq(Turns(T)), Joins(kept, turn, x, l)
  PROVE  \E f, g : Blocks(T, base, n + 1, x, f, g)
<1> DEFINE f == [b \in 1..l |-> first[b]]
           g == [b \in 1..l |-> IF b = l THEN n + 1 ELSE last[b]]
<1>1. kept \in Seq(Turns(T)) /\ turn \in Turns(T) /\ l <= n
  BY DEF Blocks
<1>2. /\ l > 0 /\ l \in 1..l /\ Len(x) = l /\ kept[l].role = turn.role
      /\ \A b \in 1..(l - 1) : x[b] = kept[b]
      /\ x[l].role = kept[l].role /\ x[l].parts = kept[l].parts \o turn.parts
  BY DEF Joins
<1>3. first \in [1..l -> 1..n] /\ last \in [1..l -> 1..n] /\ last[l] = n
  BY <1>2 DEF Blocks
<1>4. /\ f \in [1..l -> 1..(n + 1)] /\ g \in [1..l -> 1..(n + 1)]
      /\ \A b \in 1..l : f[b] = first[b]
      /\ g[l] = n + 1 /\ \A b \in 1..(l - 1) : g[b] = last[b]
  BY <1>1, <1>2, <1>3
<1> HIDE DEF f, g
<1>5. \A b \in 1..l : b = l \/ b \in 1..(l - 1)
  OBVIOUS
<1>6. turn.parts \in Seq(T)
  BY <1>1 DEF Turns
<1>7. \A b \in 1..l : Block(base, x[b], f[b], g[b])
  <2>1. Block(base, x[l], f[l], g[l])
    <3> DEFINE s == first[l]
               y == SubSeq(base, s, n)
    <3>1. s \in Nat \ {0} /\ s <= n + 1 /\ s <= n
      BY <1>2, <1>3
    <3>2. (\A j \in s..n : base[j].role = kept[l].role) /\ kept[l].parts = Said(y)
      BY <1>2, <1>3 DEF Blocks, Block
    <3>3. y \in Seq(Turns(T)) /\ SubSeq(base, s, n + 1) = Append(y, turn)
      BY <3>1, OneFurther
    <3>4. f[l] = s /\ g[l] = n + 1
      BY <1>2, <1>4
    <3> HIDE DEF y, s
    <3>5. Said(SubSeq(base, s, n + 1)) = Said(y) \o turn.parts
      BY <1>1, <3>3, SaidMore
    <3>6. x[l].parts = Said(SubSeq(base, s, n + 1))
      BY <1>2, <3>2, <3>5
    <3>7. \A j \in s..(n + 1) : base[j].role = x[l].role
      <4> SUFFICES ASSUME NEW j \in s..(n + 1) PROVE base[j].role = x[l].role
        OBVIOUS
      <4>1. j = n + 1 \/ j \in s..n
        BY <3>1
      <4> QED BY <1>2, <3>2, <4>1
    <3>8. s <= n + 1
      BY <3>1
    <3> QED BY <3>4, <3>6, <3>7, <3>8 DEF Block
  <2>2. ASSUME NEW b \in 1..(l - 1)
        PROVE  Block(base, x[b], f[b], g[b])
    <3>1. Block(base, kept[b], first[b], last[b])
      BY DEF Blocks
    <3> QED BY <1>2, <1>4, <3>1
  <2> QED BY <1>5, <2>1, <2>2
<1>8. \A b \in 1..l : x[b].role = kept[b].role
  BY <1>2, <1>5
<1>9. ASSUME NEW b \in 2..l
      PROVE  f[b] = g[b - 1] + 1 /\ x[b].role # x[b - 1].role
  <2>1. b \in 1..l /\ b - 1 \in 1..l /\ b - 1 \in 1..(l - 1)
    OBVIOUS
  <2>2. first[b] = last[b - 1] + 1 /\ kept[b].role # kept[b - 1].role
    BY <1>9 DEF Blocks
  <2> QED BY <1>4, <1>8, <2>1, <2>2
<1>10. x[1].role = "user" /\ \A j \in 1..(f[1] - 1) : base[j].role = "assistant"
  <2>1. 1 \in 1..l
    BY <1>2
  <2>2. kept[1].role = "user" /\ \A j \in 1..(first[1] - 1) : base[j].role = "assistant"
    BY <1>2 DEF Blocks
  <2> QED BY <1>4, <1>8, <2>1, <2>2
<1>11. Blocks(T, base, n + 1, x, f, g)
  <2>1. Len(x) > 0 /\ Len(x) # 0 /\ Len(x) = l /\ Len(x) <= n + 1
    BY <1>1, <1>2
  <2> QED BY <1>4, <1>7, <1>9, <1>10, <2>1, Zenon DEF Blocks
<1> QED BY <1>11

LEMMA BlockLeftOut ==
  ASSUME NEW T, NEW base \in Seq(Turns(T)), NEW n \in Nat, n + 1 <= Len(base),
         NEW kept, NEW first, NEW last, Blocks(T, base, n, kept, first, last),
         NEW l \in Nat, l = Len(kept), NEW turn, turn = base[n + 1], NEW x, LeftOut(kept, turn, x, l)
  PROVE  \E f, g : Blocks(T, base, n + 1, x, f, g)
<1>1. l = 0 /\ x = kept /\ turn.role = "assistant"
  BY DEF LeftOut
<1>2. kept \in Seq(Turns(T)) /\ \A j \in 1..n : base[j].role = "assistant"
  BY <1>1 DEF Blocks
<1>3. 1..l = {} /\ 2..l = {} /\ ~(l > 0) /\ l <= n + 1
  BY <1>1
<1>4. first \in [1..l -> 1..(n + 1)] /\ last \in [1..l -> 1..(n + 1)]
  BY <1>3 DEF Blocks
<1>5. \A j \in 1..(n + 1) : base[j].role = "assistant"
  <2>1. \A j \in 1..(n + 1) : j = n + 1 \/ j \in 1..n
    OBVIOUS
  <2> QED BY <1>1, <1>2, <2>1
<1>6. Blocks(T, base, n + 1, x, first, last)
  BY <1>1, <1>2, <1>3, <1>4, <1>5, Zenon DEF Blocks
<1> QED BY <1>6

LEMMA BlocksBuilt ==
  ASSUME NEW T, NEW ts \in Seq(Turns(T))
  PROVE  \E f, g : Blocks(T, ts, Len(ts), NormalizeCachedTurns(ts), f, g)
<1>1. PICK kept : Keeps(kept, ts)
  BY Unfolded
<1> DEFINE n == Len(ts)
           S == {i \in 0..n : \E f, g : Blocks(T, ts, i, kept[i], f, g)}
<1>2. n \in Nat
  OBVIOUS
<1>3. 0 \in S
  <2> DEFINE f == [b \in 1..0 |-> 0]
  <2>1. kept[0] = <<>> /\ Len(<<>>) = 0 /\ <<>> \in Seq(Turns(T))
    BY <1>1, EmptySeq DEF Keeps
  <2>2. f \in [1..0 -> 1..0] /\ 1..0 = {} /\ 2..0 = {} /\ ~(0 > 0) /\ 0 <= 0
    OBVIOUS
  <2> HIDE DEF f
  <2>3. Blocks(T, ts, 0, kept[0], f, f)
    BY <2>1, <2>2, Zenon DEF Blocks
  <2> QED BY <1>2, <2>3
<1>4. ASSUME NEW i \in 0..(n - 1), i \in S
      PROVE  i + 1 \in S
  <2> DEFINE h == kept[i]
             x == kept[i + 1]
             turn == ts[i + 1]
             l == Len(h)
  <2>1. PICK f, g : Blocks(T, ts, i, h, f, g)
    BY <1>4
  <2>2. i \in Nat /\ i + 1 \in 1..n /\ i + 1 <= Len(ts) /\ (i + 1) - 1 = i /\ i + 1 \in 0..n
    BY <1>2
  <2>3. turn \in Turns(T) /\ h \in Seq(Turns(T)) /\ l \in Nat
    BY <2>1, <2>2 DEF Blocks
  <2>4. x = NormalizeStep(h, turn)
    BY <1>1, <2>2 DEF Keeps
  <2> HIDE DEF S, h, x, turn, l
  <2>5. x \in Seq(Turns(T)) /\ (Opens(h, turn, x, l) \/ LeftOut(h, turn, x, l) \/ Joins(h, turn, x, l))
    BY <2>3, <2>4, StepCases DEF l
  <2>6. turn = ts[i + 1] /\ l = Len(h)
    BY DEF turn, l
  <2>7. CASE Opens(h, turn, x, l)
    <3>1. \E p, q : Blocks(T, ts, i + 1, x, p, q)
      BY <2>1, <2>2, <2>3, <2>6, <2>7, BlockOpens
    <3> QED BY <2>2, <3>1 DEF S, x
  <2>8. CASE LeftOut(h, turn, x, l)
    <3>1. \E p, q : Blocks(T, ts, i + 1, x, p, q)
      BY <2>1, <2>2, <2>3, <2>6, <2>8, BlockLeftOut
    <3> QED BY <2>2, <3>1 DEF S, x
  <2>9. CASE Joins(h, turn, x, l)
    <3>1. \E p, q : Blocks(T, ts, i + 1, x, p, q)
      BY <2>1, <2>2, <2>3, <2>5, <2>6, <2>9, BlockJoins
    <3> QED BY <2>2, <3>1 DEF S, x
  <2> QED BY <2>5, <2>7, <2>8, <2>9
<1> HIDE DEF S
<1>5. n \in S
  BY <1>2, <1>3, <1>4, CountUp
<1>6. NormalizeCachedTurns(ts) = kept[n]
  BY <1>1 DEF Keeps
<1> QED BY <1>5, <1>6 DEF S

-----------------------------------------------------------------------------
(* The blocks are those of the reference. *)

LEMMA BlocksOrdered ==
  ASSUME NEW T, NEW ts, NEW n \in Nat, NEW h, NEW first, NEW last, Blocks(T, ts, n, h, first, last),
         NEW r \in Nat, r = Len(h), NEW b \in 1..r, NEW c \in 1..r, b < c
  PROVE  last[b] < first[c]
<1>1. /\ first \in [1..r -> 1..n] /\ last \in [1..r -> 1..n]
      /\ \A d \in 1..r : first[d] <= last[d]
      /\ \A d \in 2..r : first[d] = last[d - 1] + 1
  BY DEF Blocks, Block
<1> DEFINE S == {d \in 0..r : d <= b \/ last[b] < first[d]}
<1>2. 0 \in S
  OBVIOUS
<1>3. ASSUME NEW d \in 0..(c - 1), d \in S
      PROVE  d + 1 \in S
  <2>1. d + 1 \in 0..r
    OBVIOUS
  <2>2. CASE d < b
    BY <2>1, <2>2
  <2>3. CASE d >= b
    <3>1. d \in 1..r /\ d + 1 \in 2..r /\ d + 1 \in 1..r /\ (d + 1) - 1 = d
      BY <2>3
    <3>2. first[d + 1] = last[d] + 1 /\ first[d] <= last[d]
      BY <1>1, <3>1
    <3>3. d = b \/ last[b] < first[d]
      BY <1>3, <2>3
    <3>4. last[b] \in Nat /\ last[d] \in Nat /\ first[d] \in Nat /\ first[d + 1] \in Nat
      <4>1. \A k \in 1..r : first[k] \in 1..n /\ last[k] \in 1..n
        BY <1>1
      <4> QED BY <3>1, <4>1
    <3>5. last[b] < first[d + 1]
      BY <3>2, <3>3, <3>4
    <3> QED BY <2>1, <3>5
  <2> QED BY <2>2, <2>3
<1> HIDE DEF S
<1>4. c \in S
  BY <1>2, <1>3, CountUp
<1> QED BY <1>4 DEF S

LEMMA BlocksCover ==
  ASSUME NEW T, NEW ts, NEW n \in Nat, NEW h, NEW first, NEW last, Blocks(T, ts, n, h, first, last),
         NEW r \in Nat, r = Len(h), r > 0, NEW j \in Nat, first[1] <= j, j <= n
  PROVE  \E c \in 1..r : first[c] <= j /\ j <= last[c]
<1>1. /\ first \in [1..r -> 1..n] /\ last \in [1..r -> 1..n] /\ last[r] = n
      /\ \A d \in 2..r : first[d] = last[d - 1] + 1
  BY DEF Blocks
<1> DEFINE S == {b \in 0..r : b = 0 \/ (j <= last[b] => \E c \in 1..r : first[c] <= j /\ j <= last[c])}
<1>2. 0 \in S
  OBVIOUS
<1>3. ASSUME NEW b \in 0..(r - 1), b \in S
      PROVE  b + 1 \in S
  <2>1. b + 1 \in 1..r /\ b + 1 \in 0..r /\ (b + 1) - 1 = b
    OBVIOUS
  <2>2. ASSUME j <= last[b + 1]
        PROVE  \E c \in 1..r : first[c] <= j /\ j <= last[c]
    <3>1. CASE b = 0
      BY <2>1, <2>2, <3>1
    <3>2. CASE b # 0 /\ j <= last[b]
      BY <1>3, <3>2
    <3>3. CASE b # 0 /\ ~(j <= last[b])
      <4>1. b \in 1..r /\ b + 1 \in 2..r
        BY <3>3
      <4>2. first[b + 1] = last[b] + 1 /\ last[b] \in Nat
        BY <1>1, <2>1, <4>1
      <4>3. first[b + 1] <= j
        BY <3>3, <4>2
      <4> QED BY <2>1, <2>2, <4>3
    <3> QED BY <3>1, <3>2, <3>3
  <2> QED BY <2>1, <2>2
<1> HIDE DEF S
<1>4. r \in S
  BY <1>2, <1>3, CountUp
<1> QED BY <1>1, <1>4 DEF S

LEMMA FirstBlock ==
  ASSUME NEW T, NEW ts \in Seq(Turns(T)), NEW n \in Nat, n = Len(ts), NEW h, NEW first, NEW last,
         Blocks(T, ts, n, h, first, last)
  PROVE  FirstUser(ts) = IF Len(h) = 0 THEN n + 1 ELSE first[1]
<1> DEFINE r == Len(h)
<1>0. r \in Nat /\ DOMAIN ts = 1..n
  BY DEF Blocks
<1>1. CASE r = 0
  <2>1. \A j \in DOMAIN ts : ts[j].role # "user"
    BY <1>0, <1>1 DEF Blocks
  <2> QED BY <1>1, <2>1 DEF FirstUser
<1>2. CASE r # 0
  <2>1. 1 \in 1..r /\ r > 0
    BY <1>0, <1>2
  <2>2. /\ h[1].role = "user" /\ Block(ts, h[1], first[1], last[1]) /\ first[1] \in 1..n /\ last[1] \in 1..n
        /\ \A j \in 1..(first[1] - 1) : ts[j].role = "assistant"
    BY <2>1 DEF Blocks
  <2>3. first[1] \in DOMAIN ts /\ ts[first[1]].role = "user"
    BY <1>0, <2>2 DEF Block
  <2>4. \A j \in 1..(first[1] - 1) : ts[j].role # "user"
    BY <2>2
  <2>5. ASSUME NEW i \in DOMAIN ts, ts[i].role = "user", \A j \in 1..(i - 1) : ts[j].role # "user"
        PROVE  i = first[1]
    <3>1. ~(first[1] < i)
      BY <1>0, <2>2, <2>3, <2>5
    <3>2. ~(i < first[1])
      BY <1>0, <2>2, <2>4, <2>5
    <3> QED BY <1>0, <2>2, <3>1, <3>2
  <2>6. FirstUser(ts) = CHOOSE i \in DOMAIN ts : ts[i].role = "user" /\ \A j \in 1..(i - 1) : ts[j].role # "user"
    BY <2>3, Zenon DEF FirstUser
  <2>7. FirstUser(ts) = first[1]
    BY <2>3, <2>4, <2>5, <2>6, Zenon
  <2> QED BY <1>2, <2>7
<1> QED BY <1>1, <1>2

Firsts(first, k) == {first[b] : b \in 1..k}

LEMMA StartsOfBlocks ==
  ASSUME NEW T, NEW ts \in Seq(Turns(T)), NEW n \in Nat, n = Len(ts), NEW h, NEW first, NEW last,
         Blocks(T, ts, n, h, first, last), NEW r \in Nat, r = Len(h)
  PROVE  BlockStarts(ts) = Firsts(first, r)
<1>0. /\ DOMAIN ts = 1..n /\ first \in [1..r -> 1..n] /\ last \in [1..r -> 1..n]
      /\ FirstUser(ts) = IF r = 0 THEN n + 1 ELSE first[1]
  <2>1. FirstUser(ts) = IF Len(h) = 0 THEN n + 1 ELSE first[1]
    BY FirstBlock
  <2> QED BY <2>1 DEF Blocks
<1>a. \A b \in 1..r : /\ first[b] \in 1..n /\ last[b] \in 1..n /\ first[b] <= last[b]
                      /\ \A j \in first[b]..last[b] : ts[j].role = h[b].role
  BY <1>0 DEF Blocks, Block
<1>b. \A b \in 2..r : first[b] = last[b - 1] + 1 /\ h[b].role # h[b - 1].role
  BY DEF Blocks
<1>1. ASSUME NEW i \in BlockStarts(ts)
      PROVE  \E b \in 1..r : i = first[b]
  <2>1. i \in 1..n /\ (i = FirstUser(ts) \/ (i > FirstUser(ts) /\ ts[i].role # ts[i - 1].role))
    BY <1>0 DEF BlockStarts
  <2>2. r # 0 /\ r > 0 /\ 1 \in 1..r /\ FirstUser(ts) = first[1]
    BY <1>0, <2>1
  <2>3. CASE i = first[1]
    BY <2>2, <2>3
  <2>4. CASE i > first[1] /\ ts[i].role # ts[i - 1].role
    <3>1. PICK c \in 1..r : first[c] <= i /\ i <= last[c]
      <4>1. i \in Nat /\ first[1] <= i /\ i <= n
        BY <1>a, <2>1, <2>2, <2>4
      <4> QED BY <2>2, <4>1, BlocksCover
    <3>2. CASE first[c] = i
      BY <3>2
    <3>3. CASE first[c] # i
      <4>1. i \in first[c]..last[c] /\ i - 1 \in first[c]..last[c]
        BY <1>a, <2>1, <3>1, <3>3
      <4>2. ts[i].role = h[c].role /\ ts[i - 1].role = h[c].role
        BY <1>a, <4>1
      <4> QED BY <2>4, <4>2
    <3> QED BY <3>2, <3>3
  <2> QED BY <2>1, <2>2, <2>3, <2>4
<1>2. ASSUME NEW b \in 1..r
      PROVE  first[b] \in BlockStarts(ts)
  <2>1. r # 0 /\ r > 0 /\ 1 \in 1..r /\ FirstUser(ts) = first[1]
    BY <1>0
  <2>2. CASE b = 1
    BY <1>0, <1>a, <2>1, <2>2 DEF BlockStarts
  <2>3. CASE b # 1
    <3>1. b \in 2..r /\ b - 1 \in 1..r /\ 1 < b
      BY <2>3
    <3>2. first[b] = last[b - 1] + 1 /\ h[b].role # h[b - 1].role
      BY <1>b, <3>1
    <3>3. first[b] - 1 = last[b - 1] /\ last[b - 1] \in first[b - 1]..last[b - 1] /\ first[b] \in first[b]..last[b]
      BY <1>a, <3>1, <3>2
    <3>4. ts[first[b] - 1].role = h[b - 1].role /\ ts[first[b]].role = h[b].role
      BY <1>a, <3>1, <3>3
    <3>5. last[1] < first[b]
      BY <2>1, <3>1, BlocksOrdered
    <3>6. first[b] > first[1]
      BY <1>a, <2>1, <3>5
    <3>7. first[b] \in DOMAIN ts
      BY <1>0, <1>a
    <3> QED BY <2>1, <3>2, <3>4, <3>6, <3>7 DEF BlockStarts
  <2> QED BY <2>2, <2>3
<1> QED BY <1>1, <1>2 DEF Firsts

LEMMA EndOfBlock ==
  ASSUME NEW T, NEW ts \in Seq(Turns(T)), NEW n \in Nat, n = Len(ts), NEW h, NEW first, NEW last,
         Blocks(T, ts, n, h, first, last), NEW r \in Nat, r = Len(h), NEW b \in 1..r
  PROVE  BlockEnd(ts, first[b]) = last[b]
<1> DEFINE i == first[b]
           Ends(e) == /\ \A j \in i..e : ts[j].role = ts[i].role
                      /\ e = Len(ts) \/ ts[e + 1].role # ts[i].role
<1>1. \A c \in 1..r : /\ first[c] \in 1..n /\ last[c] \in 1..n /\ first[c] <= last[c]
                      /\ \A j \in first[c]..last[c] : ts[j].role = h[c].role
  BY DEF Blocks, Block
<1>2. \A c \in 2..r : first[c] = last[c - 1] + 1 /\ h[c].role # h[c - 1].role
  BY DEF Blocks
<1>3. i \in 1..n /\ last[b] \in i..n /\ ts[i].role = h[b].role
  BY <1>1
<1>4. last[b] # n => ts[last[b] + 1].role # ts[i].role
  <2>1. CASE b = r
    BY <2>1 DEF Blocks
  <2>2. CASE b # r
    <3>1. b + 1 \in 2..r /\ b + 1 \in 1..r /\ (b + 1) - 1 = b
      BY <2>2
    <3>2. first[b + 1] = last[b] + 1 /\ h[b + 1].role # h[b].role
      BY <1>2, <3>1
    <3>3. ts[first[b + 1]].role = h[b + 1].role
      BY <1>1, <3>1
    <3> QED BY <1>3, <3>2, <3>3
  <2> QED BY <2>1, <2>2
<1>5. Ends(last[b])
  BY <1>1, <1>3, <1>4
<1>6. ASSUME NEW e \in i..n, Ends(e)
      PROVE  e = last[b]
  <2>1. ~(e < last[b])
    <3> SUFFICES ASSUME e < last[b] PROVE FALSE
      OBVIOUS
    <3>1. e + 1 \in first[b]..last[b] /\ e # n
      BY <1>1, <1>3
    <3> QED BY <1>1, <1>3, <1>6, <3>1
  <2>2. ~(last[b] < e)
    <3> SUFFICES ASSUME last[b] < e PROVE FALSE
      OBVIOUS
    <3>1. last[b] + 1 \in i..e /\ last[b] # n
      BY <1>1, <1>3
    <3> QED BY <1>4, <1>6, <3>1
  <2> QED BY <1>3, <2>1, <2>2
<1> HIDE DEF i
<1>7. BlockEnd(ts, i) = CHOOSE e \in i..n : Ends(e)
  BY DEF BlockEnd
<1> HIDE DEF Ends
<1>8. (CHOOSE e \in i..n : Ends(e)) = last[b]
  BY <1>3, <1>5, <1>6
<1> QED BY <1>7, <1>8 DEF i

LEMMA StartsCounted ==
  ASSUME NEW T, NEW ts, NEW n \in Nat, NEW h, NEW first, NEW last, Blocks(T, ts, n, h, first, last),
         NEW r \in Nat, r = Len(h), NEW k \in 0..r
  PROVE  Cardinality(Firsts(first, k)) = k
<1> DEFINE C(i) == Firsts(first, i)
           S == {i \in 0..r : IsFiniteSet(C(i)) /\ Cardinality(C(i)) = i}
<1>1. \A b \in 1..r : first[b] \in 1..n /\ last[b] \in 1..n /\ first[b] <= last[b]
  BY DEF Blocks, Block
<1>2. 0 \in S
  <2>1. C(0) = {} /\ 0 \in 0..r
    BY DEF Firsts
  <2> HIDE DEF C
  <2> QED BY <2>1, FS_EmptySet
<1>3. ASSUME NEW i \in 0..(k - 1), i \in S
      PROVE  i + 1 \in S
  <2>1. C(i + 1) = C(i) \cup {first[i + 1]}
    <3>1. \A b \in 1..(i + 1) : b = i + 1 \/ b \in 1..i
      OBVIOUS
    <3>2. i + 1 \in 1..(i + 1) /\ \A b \in 1..i : b \in 1..(i + 1)
      OBVIOUS
    <3> QED BY <3>1, <3>2 DEF Firsts
  <2>2. first[i + 1] \notin C(i)
    <3> SUFFICES ASSUME NEW b \in 1..i, first[b] = first[i + 1] PROVE FALSE
      BY DEF Firsts
    <3>1. b \in 1..r /\ i + 1 \in 1..r /\ b < i + 1
      OBVIOUS
    <3>2. last[b] < first[i + 1]
      BY <3>1, BlocksOrdered
    <3> QED BY <1>1, <3>1, <3>2
  <2>3. IsFiniteSet(C(i)) /\ Cardinality(C(i)) = i /\ i + 1 \in 0..r
    BY <1>3
  <2> DEFINE c == C(i)
             x == first[i + 1]
  <2>4. IsFiniteSet(C(i + 1)) /\ Cardinality(C(i + 1)) = i + 1
    <3>1. C(i + 1) = c \cup {x} /\ x \notin c /\ IsFiniteSet(c) /\ Cardinality(c) = i
      BY <2>1, <2>2, <2>3
    <3> HIDE DEF c, x, C
    <3> QED BY <3>1, FS_AddElement
  <2> QED BY <2>3, <2>4
<1> HIDE DEF S
<1>4. k \in S
  BY <1>2, <1>3, CountUp
<1> QED BY <1>4 DEF S

LEMMA NthStart ==
  ASSUME NEW T, NEW ts \in Seq(Turns(T)), NEW n \in Nat, n = Len(ts), NEW h, NEW first, NEW last,
         Blocks(T, ts, n, h, first, last), NEW r \in Nat, r = Len(h), NEW k \in 1..r
  PROVE  Nth(BlockStarts(ts), k) = first[k]
<1> DEFINE starts == Firsts(first, r)
           Below(i) == Cardinality({j \in starts : j < i})
<1>1. \A b \in 1..r : first[b] \in 1..n /\ last[b] \in 1..n /\ first[b] <= last[b]
  BY DEF Blocks, Block
<1>2. ASSUME NEW b \in 1..r
      PROVE  Below(first[b]) = b - 1
  <2>1. {j \in starts : j < first[b]} = Firsts(first, b - 1)
    <3>1. ASSUME NEW c \in 1..r, first[c] < first[b]
          PROVE  c \in 1..(b - 1)
      <4>1. ~(b < c)
        <5> SUFFICES ASSUME b < c PROVE FALSE
          OBVIOUS
        <5>1. last[b] < first[c]
          BY BlocksOrdered
        <5> QED BY <1>1, <3>1, <5>1
      <4>2. b # c
        BY <1>1, <3>1
      <4> QED BY <4>1, <4>2
    <3>2. ASSUME NEW c \in 1..(b - 1)
          PROVE  c \in 1..r /\ first[c] < first[b]
      <4>1. c \in 1..r /\ c < b
        OBVIOUS
      <4>2. last[c] < first[b]
        BY <4>1, BlocksOrdered
      <4> QED BY <1>1, <4>1, <4>2
    <3> QED BY <3>1, <3>2 DEF Firsts
  <2>2. b - 1 \in 0..r
    OBVIOUS
  <2>3. Cardinality(Firsts(first, b - 1)) = b - 1
    <3> DEFINE i == b - 1
    <3>1. i \in 0..r
      BY <2>2
    <3> HIDE DEF i
    <3>2. Cardinality(Firsts(first, i)) = i
      BY <3>1, StartsCounted
    <3> QED BY <3>2 DEF i
  <2> QED BY <2>1, <2>3
<1>3. BlockStarts(ts) = starts
  BY StartsOfBlocks
<1>4. first[k] \in starts /\ Below(first[k]) = k - 1
  BY <1>2 DEF Firsts
<1>5. ASSUME NEW i \in starts, Below(i) = k - 1
      PROVE  i = first[k]
  <2>1. PICK b \in 1..r : i = first[b]
    BY DEF Firsts
  <2>2. b - 1 = k - 1
    BY <1>2, <1>5, <2>1
  <2> QED BY <2>1, <2>2
<1>6. Nth(starts, k) = CHOOSE i \in starts : Below(i) = k - 1
  BY DEF Nth
<1> HIDE DEF starts, Below
<1>7. (CHOOSE i \in starts : Below(i) = k - 1) = first[k]
  BY <1>4, <1>5
<1> QED BY <1>3, <1>6, <1>7

(* Whatever the cached turns are, normalize_cached_channel_turns merges    *)
(* each block of turns of one role and drops leading assistant turns only. *)
THEOREM NormalizationByBlocks ==
  ASSUME NEW T, NEW ts \in Seq(Turns(T))
  PROVE  NormalizeCachedTurns(ts) = NormalizedByBlocks(ts)
<1> DEFINE h == NormalizeCachedTurns(ts)
           n == Len(ts)
           r == Len(h)
           w == NormalizedByBlocks(ts)
<1>1. PICK first, last : Blocks(T, ts, n, h, first, last)
  BY BlocksBuilt
<1>2. n \in Nat /\ n = Len(ts) /\ h \in Seq(Turns(T)) /\ r \in Nat /\ r = Len(h) /\ r \in 0..r
  BY <1>1 DEF Blocks
<1> HIDE DEF h, n, r
<1>3. BlockStarts(ts) = Firsts(first, r)
  BY <1>1, <1>2, StartsOfBlocks
<1>4. Cardinality(BlockStarts(ts)) = r
  BY <1>1, <1>2, <1>3, StartsCounted
<1>5. ASSUME NEW k \in 1..r
      PROVE  LET i == Nth(BlockStarts(ts), k)
             IN  h[k] = [role |-> ts[i].role, parts |-> Said(SubSeq(ts, i, BlockEnd(ts, i)))]
  <2>1. Nth(BlockStarts(ts), k) = first[k]
    BY <1>1, <1>2, NthStart
  <2>2. BlockEnd(ts, first[k]) = last[k]
    BY <1>1, <1>2, EndOfBlock
  <2>3. Block(ts, h[k], first[k], last[k]) /\ first[k] \in 1..n /\ last[k] \in 1..n
    BY <1>1, <1>2 DEF Blocks
  <2>4. ts[first[k]].role = h[k].role /\ h[k].parts = Said(SubSeq(ts, first[k], last[k]))
    BY <2>3 DEF Block
  <2>5. h[k] = [role |-> h[k].role, parts |-> h[k].parts]
    <3>1. h[k] \in Turns(T)
      BY <1>2
    <3> QED BY <3>1 DEF Turns
  <2> QED BY <2>1, <2>2, <2>4, <2>5
<1>6. h = [k \in 1..r |-> h[k]]
  BY <1>2
<1>7. h = w
  BY <1>4, <1>5, <1>6 DEF NormalizedByBlocks
<1> QED BY <1>7 DEF h

-----------------------------------------------------------------------------
(* The histories that the calls build. *)

Pieces == Texts \cup {Ellipsis}

HistoryTypeOK == turns \in Seq(Turns(Pieces))

LEMMA TruncatedPieces ==
  ASSUME NEW parts \in Seq(Pieces), NEW x, x = Truncated(parts)
  PROVE  /\ x \in Seq(Pieces) /\ Len(x) <= MaxContent + 1
         /\ LeftOf(parts, x)
<1> DEFINE s == SubSeq(parts, 1, MaxContent)
<1>1. MaxContent \in Nat /\ Len(parts) \in Nat
  BY ContentAssumption DEF ContentAssumption
<1>2. CASE Len(parts) > MaxContent
  <2>1. \A i \in 1..MaxContent : parts[i] \in Pieces
    BY <1>1, <1>2
  <2>2. s \in Seq(Pieces) /\ Len(s) = MaxContent
    BY <1>1, <1>2, <2>1
  <2>3. x = Append(s, Ellipsis)
    BY <1>2 DEF Truncated
  <2> HIDE DEF s
  <2>4. Ellipsis \in Pieces
    BY DEF Pieces
  <2>5. x \in Seq(Pieces) /\ Len(x) = MaxContent + 1
    BY <2>2, <2>3, <2>4
  <2>6. MaxContent \in 0..MaxContent /\ MaxContent < Len(parts) /\ ~(Len(parts) <= MaxContent)
    BY <1>1, <1>2
  <2>7. LeftOf(parts, x)
    BY <2>3, <2>6 DEF LeftOf, s
  <2> QED BY <1>1, <2>5, <2>7
<1>3. CASE ~(Len(parts) > MaxContent)
  <2>1. x = parts
    BY <1>3 DEF Truncated
  <2> QED BY <1>1, <1>3, <2>1 DEF LeftOf
<1> QED BY <1>2, <1>3

(* A compaction cuts the turns of the normalized window, and nothing else. *)
LEMMA CompactionCuts ==
  ASSUME HistoryTypeOK, NEW w, w = LastTurns(turns, KeepOnCompact), NEW h, h = NormalizeCachedTurns(w),
         NEW x, x = CompactSenderHistory(turns)
  PROVE  /\ w \in Seq(Turns(Pieces)) /\ Len(w) <= KeepOnCompact /\ Shifted(Pieces, w, turns, KeepOnCompact)
         /\ h \in Seq(Turns(Pieces)) /\ x \in Seq(Turns(Pieces)) /\ Len(x) = Len(h)
         /\ \A i \in 1..Len(h) : /\ x[i].role = h[i].role
                                 /\ LeftOf(h[i].parts, x[i].parts) /\ Len(x[i].parts) <= MaxContent + 1
<1>1. Shifted(Pieces, w, turns, KeepOnCompact)
  BY HistoryAssumption, LastTurnsShift DEF HistoryAssumption, HistoryTypeOK
<1>2. w \in Seq(Turns(Pieces)) /\ Len(w) <= KeepOnCompact
  BY <1>1 DEF Shifted
<1>3. PICK first, last : Blocks(Pieces, w, Len(w), h, first, last)
  BY <1>2, BlocksBuilt
<1>4. h \in Seq(Turns(Pieces))
  BY <1>3 DEF Blocks
<1> DEFINE n == Len(h)
<1>5. x = [i \in 1..n |-> [h[i] EXCEPT !.parts = Truncated(@)]]
  BY <1>4 DEF CompactSenderHistory, CompactedTurns
<1>6. n \in Nat /\ DOMAIN h = 1..n
  BY <1>4
<1> HIDE DEF n
<1>7. ASSUME NEW i \in 1..n
      PROVE  /\ x[i] \in Turns(Pieces) /\ x[i].role = h[i].role
             /\ LeftOf(h[i].parts, x[i].parts) /\ Len(x[i].parts) <= MaxContent + 1
  <2> DEFINE t == h[i]
  <2>1. t \in Turns(Pieces)
    BY <1>4, <1>6
  <2>2. x[i] = [t EXCEPT !.parts = Truncated(t.parts)]
    BY <1>5
  <2> HIDE DEF t
  <2>3. t.parts \in Seq(Pieces)
    BY <2>1 DEF Turns
  <2>4. /\ Truncated(t.parts) \in Seq(Pieces) /\ Len(Truncated(t.parts)) <= MaxContent + 1
        /\ LeftOf(t.parts, Truncated(t.parts))
    BY <2>3, TruncatedPieces
  <2>5. x[i].role = t.role /\ x[i].parts = Truncated(t.parts) /\ x[i] \in Turns(Pieces)
    BY <2>1, <2>2, <2>4 DEF Turns
  <2> QED BY <2>4, <2>5 DEF t
<1>8. x \in Seq(Turns(Pieces)) /\ Len(x) = n
  <2>1. x \in [1..n -> Turns(Pieces)]
    BY <1>5, <1>7
  <2> QED BY <1>6, <2>1
<1> QED BY <1>1, <1>2, <1>4, <1>7, <1>8 DEF n

LEMMA TypeInductive ==
  /\ Init => HistoryTypeOK
  /\ HistoryTypeOK /\ [Next]_turns => HistoryTypeOK'
<1>1. Init => HistoryTypeOK
  BY DEF Init, HistoryTypeOK
<1>2. ASSUME HistoryTypeOK, [Next]_turns
      PROVE  HistoryTypeOK'
  <2> USE DEF HistoryTypeOK
  <2>1. ASSUME NEW c \in Contents, NEW t \in {UserTurn(c), AssistantTurn(c)}, turns' = AppendSenderTurn(turns, t)
        PROVE  HistoryTypeOK'
    <3> DEFINE y == Append(turns, t)
    <3>1. c \in Seq(Pieces)
      <4>1. PICK n \in 0..(MaxContent + 1) : c \in [1..n -> Texts]
        BY DEF Contents
      <4>2. n \in Nat /\ c \in [1..n -> Pieces]
        BY <4>1, ContentAssumption DEF ContentAssumption, Pieces
      <4> QED BY <4>2
    <3>2. t \in Turns(Pieces)
      BY <2>1, <3>1 DEF UserTurn, AssistantTurn, Turns
    <3>3. y \in Seq(Turns(Pieces))
      BY <1>2, <3>2
    <3>4. turns' = LastTurns(y, MaxHistory) /\ MaxHistory \in Nat \ {0}
      BY <2>1, HistoryAssumption DEF AppendSenderTurn, HistoryAssumption
    <3> HIDE DEF y
    <3>5. Shifted(Pieces, turns', y, MaxHistory)
      BY <3>3, <3>4, LastTurnsShift
    <3> QED BY <3>5 DEF Shifted
  <2>2. ASSUME NEW c \in Contents, Rollback(c)
        PROVE  HistoryTypeOK'
    <3>1. turns # <<>> /\ turns' = Front(turns)
      BY <2>2 DEF Rollback, CanRollback, RollbackOrphanUserTurn
    <3>2. Front(turns) = SubSeq(turns, 1, Len(turns) - 1)
      BY DEF Front
    <3>3. \A i \in 1..(Len(turns) - 1) : turns[i] \in Turns(Pieces)
      BY <1>2
    <3>4. Len(turns) - 1 \in Int /\ 1 \in Int
      BY <1>2
    <3>5. SubSeq(turns, 1, Len(turns) - 1) \in Seq(Turns(Pieces))
      BY <3>3, <3>4, SubSeqProperties
    <3> QED BY <3>1, <3>2, <3>5
  <2>3. CASE Compact
    <3>1. turns' = CompactSenderHistory(turns)
      BY <2>3 DEF Compact
    <3>2. CompactSenderHistory(turns) \in Seq(Turns(Pieces))
      BY <1>2, CompactionCuts
    <3> QED BY <3>1, <3>2
  <2>4. CASE Clear
    BY <2>4 DEF Clear
  <2>5. CASE UNCHANGED turns
    BY <1>2, <2>5
  <2>6. ASSUME NEW c \in Contents, AppendUser(c) \/ AppendAssistant(c)
        PROVE  HistoryTypeOK'
    BY <2>1, <2>6 DEF AppendUser, AppendAssistant
  <2> QED BY <1>2, <2>2, <2>3, <2>4, <2>5, <2>6 DEF Next
<1> QED BY <1>1, <1>2

(* normalize_cached_channel_turns merges blocks and drops nothing but      *)
(* leading assistant turns, in every history that the workers can build.   *)
THEOREM NormalizeMergesBlocksCorrect == Spec => []NormalizeMergesBlocks
<1>1. HistoryTypeOK => NormalizeMergesBlocks
  BY NormalizationByBlocks DEF HistoryTypeOK, NormalizeMergesBlocks
<1> QED BY <1>1, TypeInductive, PTL DEF Spec

(* compact_sender_history keeps the beginning of every block of turns in   *)
(* the window, all of it where it is short enough, and ends with the role  *)
(* that spoke last.                                                        *)
THEOREM CompactKeepsLatestCorrect == Spec => []CompactKeepsLatest
<1>1. HistoryTypeOK => CompactKeepsLatest
  <2> SUFFICES ASSUME HistoryTypeOK PROVE CompactKeepsLatest
    OBVIOUS
  <2> DEFINE w == LastTurns(turns, KeepOnCompact)
             h == NormalizeCachedTurns(w)
             x == CompactSenderHistory(turns)
             n == Len(w)
  <2>1. /\ w \in Seq(Turns(Pieces)) /\ n <= KeepOnCompact /\ Shifted(Pieces, w, turns, KeepOnCompact)
        /\ h \in Seq(Turns(Pieces)) /\ x \in Seq(Turns(Pieces)) /\ Len(x) = Len(h)
        /\ \A i \in 1..Len(h) : /\ x[i].role = h[i].role
                                /\ LeftOf(h[i].parts, x[i].parts) /\ Len(x[i].parts) <= MaxContent + 1
    BY CompactionCuts
  <2>2. NormalizedByBlocks(w) = h
    BY <2>1, NormalizationByBlocks
  <2>3. n \in Nat /\ n = Len(w) /\ KeepOnCompact \in Nat
    BY <2>1, HistoryAssumption DEF HistoryAssumption
  <2> HIDE DEF w
  <2>4. PICK first, last : Blocks(Pieces, w, n, h, first, last)
    BY <2>1, <2>3, BlocksBuilt
  <2> HIDE DEF h, x, n
  <2>5. Len(h) \in Nat /\ Len(h) <= KeepOnCompact /\ DOMAIN x = 1..Len(h)
    BY <2>1, <2>3, <2>4 DEF Blocks
  <2>6. x # <<>> => x[Len(x)].role = turns[Len(turns)].role
    <3> SUFFICES ASSUME x # <<>> PROVE x[Len(x)].role = turns[Len(turns)].role
      OBVIOUS
    <3>1. Len(h) > 0 /\ Len(h) \in 1..Len(h)
      BY <2>1, <2>5
    <3>2. last[Len(h)] = n /\ Block(w, h[Len(h)], first[Len(h)], last[Len(h)]) /\ first[Len(h)] \in 1..n
      BY <2>4, <3>1 DEF Blocks
    <3>3. n \in 1..n /\ n \in first[Len(h)]..last[Len(h)]
      BY <2>3, <3>2 DEF Block
    <3>4. w[n].role = h[Len(h)].role
      BY <3>2, <3>3 DEF Block
    <3>5. w[n] = turns[n + (Len(turns) - n)] /\ Len(turns) \in Nat
      BY <2>1, <2>3, <3>3 DEF Shifted, HistoryTypeOK
    <3>6. n + (Len(turns) - n) = Len(turns)
      BY <2>3, <3>5
    <3> QED BY <2>1, <3>1, <3>4, <3>5, <3>6
  <2> QED BY <2>1, <2>2, <2>5, <2>6 DEF CompactKeepsLatest, w, x
<1> QED BY <1>1, TypeInductive, PTL DEF Spec
=============================================================================
