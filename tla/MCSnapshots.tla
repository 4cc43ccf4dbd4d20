----------------------------- MODULE MCSnapshots -----------------------------
(* A world of three sessions: a late item after the first, a ticker change in *)
(* the second, no news in the third.                                          *)
EXTENDS Snapshots
=============================================================================
