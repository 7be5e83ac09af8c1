--------------------------- MODULE AuthProfilesMC ---------------------------
(* A small instance of AuthProfiles for TLC.  No symmetry: the runs check  *)
(* liveness.                                                               *)
EXTENDS AuthProfiles
=============================================================================
