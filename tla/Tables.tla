------------------------------- MODULE Tables -------------------------------
(***************************************************************************)
(* A PostgreSQL table keyed by its primary key is a function whose domain  *)
(* is the set of ids that have a row.  A row that is absent is an id       *)
(* outside the domain, so "id has no row" needs no sentinel value.         *)
(***************************************************************************)

\* The tables over the ids Ids whose rows belong to Rows.
Table(Ids, Rows) == UNION {[T -> Rows] : T \in SUBSET Ids}

EmptyTable == [id \in {} |-> id]

\* INSERT of a new row, or UPDATE of the row with that primary key.
Put(table, id, row) ==
  [k \in DOMAIN table \cup {id} |-> IF k = id THEN row ELSE table[k]]

\* SQL's COALESCE(new, old).
Coalesce(new, old, null) == IF new = null THEN old ELSE new

=============================================================================
