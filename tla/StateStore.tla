------------------------------ MODULE StateStore ------------------------------
(***************************************************************************)
(* The tables of runtime/src/state/sqlite-store.ts. A table is a function  *)
(* from the keys that have a row to their rows; a key outside its domain   *)
(* reads as null. Every put* of the store is one INSERT ... ON CONFLICT DO *)
(* UPDATE of the whole row, committed by itself: nothing in the runtime    *)
(* opens a transaction around a read and the write that follows it.        *)
(***************************************************************************)

\* t is a table with keys in K and rows in V.
IsTable(t, K, V) ==
  /\ DOMAIN t \subseteq K
  /\ t \in [DOMAIN t -> V]

\* putRun, putApproval, putTask: the row for k becomes v, every other row stays.
Upsert(t, k, v) ==
  [x \in DOMAIN t \cup {k} |-> IF x = k THEN v ELSE t[x]]

\* A freshly created database.
EmptyTable == [x \in {} |-> x]
===============================================================================
