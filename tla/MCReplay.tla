------------------------------ MODULE MCReplay ------------------------------
(* Instances of Replay: the worlds and calendars of MCCycleDriver.           *)
EXTENDS MCCycleDriver, Replay
=============================================================================
