-------------------------------- MODULE Tables --------------------------------
(***************************************************************************)
(* The append-only tables of storage/database.py, as functions from keys   *)
(* to rows: triggers refuse every UPDATE and DELETE.                       *)
(***************************************************************************)

\* The table with one more row; a row that is there already stays as it is.
WithRow(table, key, row) ==
  [k \in DOMAIN table \cup {key} |-> IF k \in DOMAIN table THEN table[k] ELSE row]
=============================================================================
