---------------------------- MODULE MCLeadership ----------------------------
(* Small instances of Leadership, in one of two plays: one fault of any     *)
(* kind; or connections that break, one after the other, with nothing but   *)
(* fences on their way to the agent.                                        *)
EXTENDS Leadership

VARIABLE play

MCInit == Init /\ play \in {"fault", "breaks"}
MCNext ==
  /\ Next
  /\ CASE play = "fault" -> faults' + 1 >= MaxFaults
       [] play = "breaks" ->
            /\ faults' # faults => cut' # cut /\ status' = status
            /\ \A m \in wire' : m.call = "fence"
  /\ UNCHANGED play
MCSpec == MCInit /\ [][MCNext]_<<vars, play>> /\ Fairness
=============================================================================
