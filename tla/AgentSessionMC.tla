--------------------------- MODULE AgentSessionMC ---------------------------
(* A small instance of AgentSession for TLC. *)
EXTENDS AgentSession

(* One tool that may be allowed for the session, one that always asks, one *)
(* that never does and may repeat, and a name that is no tool.             *)
MCTools == {"shell", "deploy", "read", "ghost"}

C(tool, args) == [tool |-> tool, args |-> args]

MCResponses == { <<C("shell", 1), C("shell", 1)>>,
                 <<C("deploy", 1), C("ghost", 1)>>,
                 <<C("read", 1), C("shell", 1)>> }

MCRewrites == {C("shell", 1)}
=============================================================================
