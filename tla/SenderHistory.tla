--------------------------- MODULE SenderHistory ---------------------------
(***************************************************************************)
(* The cached conversation turns of one sender, zeroclaw's                 *)
(* conversation_histories entry (channels/mod.rs).  A turn is a role and   *)
(* its content; content is a sequence of parts, because merging two turns  *)
(* concatenates their texts and the parts say which text went where.       *)
(* Empty content is the empty sequence.                                    *)
(*                                                                         *)
(* Every operator is a plain definition or a fold, so that modules about   *)
(* which theorems are proved can use them.                                 *)
(***************************************************************************)
EXTENDS Naturals, Sequences, SequencesExt

CONSTANTS
  MaxHistory,     \* MAX_CHANNEL_HISTORY
  KeepOnCompact   \* CHANNEL_HISTORY_COMPACT_KEEP_MESSAGES

ASSUME HistoryAssumption ==
  /\ MaxHistory \in Nat \ {0}
  /\ KeepOnCompact \in Nat \ {0}

UserTurn(parts)      == [role |-> "user",      parts |-> parts]
AssistantTurn(parts) == [role |-> "assistant", parts |-> parts]

LastTurns(turns, n) ==
  SubSeq(turns, IF Len(turns) > n THEN Len(turns) - n + 1 ELSE 1, Len(turns))

(* append_sender_turn: push, then drop from the front down to the cap. *)
AppendSenderTurn(turns, turn) == LastTurns(Append(turns, turn), MaxHistory)

(***************************************************************************)
(* One turn of the loop of normalize_cached_channel_turns.  expecting_user *)
(* is "nothing kept yet, or the last kept turn is the assistant's".  A     *)
(* turn of the expected role is kept, any other is merged into the last    *)
(* kept turn, and is lost when there is none.                              *)
(***************************************************************************)
ExpectingUser(kept) == kept = <<>> \/ Last(kept).role = "assistant"

(* Mutant: a turn out of order is dropped. *)
NormalizeByDropping(kept, turn) ==
  IF ExpectingUser(kept) = (turn.role = "user") THEN Append(kept, turn) ELSE kept

NormalizeStep(kept, turn) ==
  IF ExpectingUser(kept) = (turn.role = "user")
  THEN Append(kept, turn)
  ELSE IF kept = <<>>
       THEN kept
       ELSE [kept EXCEPT ![Len(kept)].parts = @ \o turn.parts]

NormalizeCachedTurns(turns) == FoldLeft(NormalizeStep, <<>>, turns)

(* compact_sender_history: which turns are kept, and which texts are       *)
(* merged in each.  It then cuts a turn that is too long, which shows only *)
(* where texts have lengths (SenderHistoryMC): here a part stands for a    *)
(* text that went into the turn, of which the end may have been cut.       *)
CompactedTurns(turns) == NormalizeCachedTurns(LastTurns(turns, KeepOnCompact))

(* rollback_orphan_user_turn succeeds iff the last turn is this user turn. *)
CanRollback(turns, turn) == turns # <<>> /\ Last(turns) = turn

RollbackOrphanUserTurn(turns) == Front(turns)
=============================================================================
