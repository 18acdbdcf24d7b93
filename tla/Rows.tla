-------------------------------- MODULE Rows --------------------------------
(***************************************************************************)
(* Tables as partial functions from keys to rows: the rows that exist are  *)
(* the DOMAIN.  A key whose row is gone may be given to a new row: where   *)
(* no other row refers to a deleted one any more (the foreign keys cascade *)
(* or are set to NULL), this only renames the autoincremented ids.         *)
(***************************************************************************)

Insert(table, key, row) ==
  [k \in DOMAIN table \cup {key} |-> IF k = key THEN row ELSE table[k]]

Delete(table, keys) == [k \in DOMAIN table \ keys |-> table[k]]
=============================================================================
