----------------------------- MODULE MCEventLog -----------------------------
(* Instances of EventLog for TLC: two sessions, two events, two rows that    *)
(* differ only in what a unique key does not cover.                          *)
EXTENDS EventLog, TLC

Writers == Permutations(Writer)
=============================================================================
