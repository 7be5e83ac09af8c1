----------------------------- MODULE FifoLanes -----------------------------
(***************************************************************************)
(* What the in-flight map, the cancellation tokens and the completions are *)
(* for: jobs of one lane are served one at a time, in the order in which   *)
(* they joined the lane.  A job may jam while it is served; then nobody    *)
(* behind it is ever served.                                               *)
(***************************************************************************)
CONSTANTS
  Jobs,
  Lane        \* the lane of a job

VARIABLES
  stage,      \* [Jobs -> {"idle", "queued", "served", "over", "jammed"}]
  ahead       \* the jobs of its lane that a job found before it

lanes == <<stage, ahead>>

Stages == {"idle", "queued", "served", "over", "jammed"}

Init ==
  /\ stage = [j \in Jobs |-> "idle"]
  /\ ahead = [j \in Jobs |-> {}]

Moves(j, from, to) == stage[j] = from /\ stage' = [stage EXCEPT ![j] = to]

InLane(j) == {i \in Jobs : Lane[i] = Lane[j] /\ stage[i] \in {"queued", "served", "jammed"}}

Join(j) ==
  /\ Moves(j, "idle", "queued")
  /\ ahead' = [ahead EXCEPT ![j] = InLane(j)]

(* A job that finds its lane empty is served as it joins. *)
JoinEmpty(j) ==
  /\ InLane(j) = {}
  /\ Moves(j, "idle", "served")
  /\ ahead' = [ahead EXCEPT ![j] = {}]

Serve(j) ==
  /\ \A i \in ahead[j] : stage[i] = "over"
  /\ Moves(j, "queued", "served")
  /\ UNCHANGED ahead

End(j) == Moves(j, "served", "over") /\ UNCHANGED ahead

Jam(j) == Moves(j, "served", "jammed") /\ UNCHANGED ahead

Next == \E j \in Jobs : Join(j) \/ JoinEmpty(j) \/ Serve(j) \/ End(j) \/ Jam(j)

Spec == Init /\ [][Next]_lanes

(* At most one job of a lane is served. *)
OneAtATime ==
  \A i, j \in Jobs : i # j /\ Lane[i] = Lane[j] => ~(stage[i] = "served" /\ stage[j] = "served")
=============================================================================
