---------------------------- MODULE MCDemoClock ----------------------------
(***************************************************************************)
(* Three steps, one of them shorter than its generator and two longer, and  *)
(* time that may stand still or leap over several frames or a whole step.   *)
(***************************************************************************)
EXTENDS DemoClock

MCScript == <<[duration_s |-> 2, frames |-> 1], [duration_s |-> 3, frames |-> 9],
              [duration_s |-> 2, frames |-> 2]>>
MCSolo == [duration_s |-> 4, frames |-> 2]
MCOptions == [scenario : BOOLEAN, duration : {None, 0, 3, 9}]

=============================================================================
