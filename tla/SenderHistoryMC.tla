-------------------------- MODULE SenderHistoryMC --------------------------
(***************************************************************************)
(* One history entry under every order of the calls that the workers of    *)
(* one sender make: with interrupts off they run in parallel, so any turn  *)
(* may be appended at any time, and a compaction or a rollback may come    *)
(* between the two turns of another message.  Here a part is a piece of    *)
(* text, all of one length, so that a turn can be too long.                *)
(***************************************************************************)
EXTENDS SenderHistory, FiniteSets

CONSTANTS
  Texts,          \* pieces of text
  MaxContent,     \* CHANNEL_HISTORY_COMPACT_CONTENT_CHARS, in pieces
  Ellipsis        \* the "..." that truncate_with_ellipsis puts in place of the rest

ASSUME ContentAssumption == MaxContent \in Nat \ {0}

VARIABLE turns

(* What a message may say: nothing at all, up to a piece too much.         *)
Contents == UNION {[1..n -> Texts] : n \in 0..(MaxContent + 1)}

Truncated(parts) ==
  IF Len(parts) > MaxContent THEN Append(SubSeq(parts, 1, MaxContent), Ellipsis) ELSE parts

(* Mutant: turns are cut before they are merged. *)
CompactTruncatingFirst(ts) ==
  NormalizeCachedTurns([i \in DOMAIN LastTurns(ts, KeepOnCompact) |->
    [LastTurns(ts, KeepOnCompact)[i] EXCEPT !.parts = Truncated(@)]])

(* compact_sender_history: the new entry.  That nothing was kept is told   *)
(* to the caller only.                                                     *)
CompactSenderHistory(ts) ==
  LET kept == CompactedTurns(ts)
  IN  [i \in DOMAIN kept |-> [kept[i] EXCEPT !.parts = Truncated(@)]]

Init == turns = <<>>

AppendUser(c)      == turns' = AppendSenderTurn(turns, UserTurn(c))
AppendAssistant(c) == turns' = AppendSenderTurn(turns, AssistantTurn(c))
Rollback(c)        == CanRollback(turns, UserTurn(c)) /\ turns' = RollbackOrphanUserTurn(turns)
Compact            == turns' = CompactSenderHistory(turns)
Clear              == turns' = <<>>

Next ==
  \/ \E c \in Contents : AppendUser(c) \/ AppendAssistant(c) \/ Rollback(c)
  \/ Compact
  \/ Clear

Spec == Init /\ [][Next]_turns

(***************************************************************************)
(* The reference: what the model is meant to be shown, without the loop.   *)
(* Leading assistant turns are left out; every maximal block of turns of   *)
(* one role becomes one turn holding all that the block said, in order.    *)
(***************************************************************************)
FirstUser(ts) ==
  IF \E i \in DOMAIN ts : ts[i].role = "user"
  THEN CHOOSE i \in DOMAIN ts : ts[i].role = "user" /\ \A j \in 1..(i - 1) : ts[j].role # "user"
  ELSE Len(ts) + 1

BlockStarts(ts) ==
  {i \in DOMAIN ts : i = FirstUser(ts) \/ (i > FirstUser(ts) /\ ts[i].role # ts[i-1].role)}

BlockEnd(ts, i) == CHOOSE e \in i..Len(ts) :
  /\ \A j \in i..e : ts[j].role = ts[i].role
  /\ e = Len(ts) \/ ts[e+1].role # ts[i].role

Said(ts) == FlattenSeq([i \in DOMAIN ts |-> ts[i].parts])

(* The k-th smallest of a set of numbers. *)
Nth(S, k) == CHOOSE i \in S : Cardinality({j \in S : j < i}) = k - 1

NormalizedByBlocks(ts) ==
  [k \in 1..Cardinality(BlockStarts(ts)) |->
     LET i == Nth(BlockStarts(ts), k)
     IN  [role |-> ts[i].role, parts |-> Said(SubSeq(ts, i, BlockEnd(ts, i)))]]

-----------------------------------------------------------------------------
(* normalize_cached_channel_turns merges blocks and drops nothing but      *)
(* leading assistant turns ("Merge instead of dropping"), whatever the     *)
(* workers appended; in particular the result begins with the user and     *)
(* alternates, which providers that reject two turns of a role rely on.    *)
NormalizeMergesBlocks == NormalizeCachedTurns(turns) = NormalizedByBlocks(turns)

(* What is left of a turn: all of it, or its beginning and an ellipsis;    *)
(* all of it when it was short enough.                                     *)
LeftOf(whole, parts) ==
  /\ parts = whole \/ \E n \in 0..MaxContent : n < Len(whole) /\ parts = Append(SubSeq(whole, 1, n), Ellipsis)
  /\ Len(whole) <= MaxContent => parts = whole

(* compact_sender_history keeps the latest exchange: of every block of     *)
(* turns in the window, from its first user turn on, one turn is left, in  *)
(* order, that begins as the block did and is never longer than the cap    *)
(* and an ellipsis, however often turns were merged and cut before; the    *)
(* last turn is still of the role that spoke last.                         *)
CompactKeepsLatest ==
  LET kept   == CompactSenderHistory(turns)
      blocks == NormalizedByBlocks(LastTurns(turns, KeepOnCompact))
  IN  /\ Len(kept) = Len(blocks) /\ Len(kept) <= KeepOnCompact
      /\ \A i \in DOMAIN kept :
           /\ kept[i].role = blocks[i].role
           /\ LeftOf(blocks[i].parts, kept[i].parts)
           /\ Len(kept[i].parts) <= MaxContent + 1
      /\ kept # <<>> => kept[Len(kept)].role = turns[Len(turns)].role
=============================================================================
