------------------------- MODULE ChannelDispatchMC -------------------------
EXTENDS ChannelDispatch

CONSTANTS m1, m2, m3, chatA, chatB, alice

(* A sender may write in two chats: two scopes, one history.                *)
OneChat  == [m \in Messages |-> chatA]
TwoChats == [m \in Messages |-> IF m = m3 THEN chatB ELSE chatA]
OneKey   == [m \in Messages |-> alice]

(* The messages differ in nothing when all are of one chat. *)
AnyOrder == Permutations({m1, m2, m3})
=============================================================================
