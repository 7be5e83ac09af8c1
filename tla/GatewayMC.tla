----------------------------- MODULE GatewayMC -----------------------------
(* A small instance of Gateway for TLC.                                    *)
EXTENDS Gateway, TLC

(* Webhooks share nothing with the rest but the clock, the restarts and    *)
(* whether anyone is paired.                                               *)
MCMixes == {{"webhook"}, {"pair", "config"}}

(* Requests, clients and keys are told apart by nothing but their names.   *)
Symmetry == Permutations(Requests) \cup Permutations(Clients) \cup Permutations(Keys)
=============================================================================
