----------------------------- MODULE MCOrchestration -----------------------------
(****************************************************************************)
(* Instances of Orchestration: the minutes of a night in which the sensors  *)
(* and the schedules have something to do.                                  *)
(****************************************************************************)
EXTENDS Orchestration

At(d, h, m) == [day |-> d, hour |-> h, minute |-> m]

\* Light at 02:05, heavy at 02:35, light again at 03:05, the sync at 06:00, and
\* the heavy refresh of the next night. Day 7 is a Sunday.
Night == <<At(7, 2, 0), At(7, 2, 5), At(7, 2, 35), At(7, 3, 5), At(7, 6, 0), At(8, 2, 35)>>

LegacySensors == {Light, Heavy}

\* The windows of the staged heavy refresh.
StagedNight == <<At(7, 2, 35), At(7, 3, 5), At(7, 3, 20)>>

StagedSensors == {Light, HeavyCfd, HeavyBacklogAging}
=============================================================================
