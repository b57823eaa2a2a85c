---------------------------- MODULE TablesProofs ----------------------------
(***************************************************************************)
(* Facts about Tables that the proofs about the tables' users rest on.     *)
(***************************************************************************)
EXTENDS Tables, TLAPS

LEMMA EmptyIsTable == ASSUME NEW Ids, NEW Rows PROVE EmptyTable \in Table(Ids, Rows)
<1>1. EmptyTable \in [{} -> Rows]
  BY DEF EmptyTable
<1> QED BY <1>1 DEF Table

\* A table maps ids to rows.
LEMMA TableRows ==
  ASSUME NEW Ids, NEW Rows, NEW table \in Table(Ids, Rows)
  PROVE  /\ DOMAIN table \subseteq Ids
         /\ \A id \in DOMAIN table : table[id] \in Rows
         /\ table = [id \in DOMAIN table |-> table[id]]
<1>1. PICK T \in SUBSET Ids : table \in [T -> Rows]
  BY DEF Table
<1> QED BY <1>1

\* A function from ids to rows is a table.
LEMMA RowsTable ==
  ASSUME NEW Ids, NEW Rows, NEW T \in SUBSET Ids, NEW table \in [T -> Rows]
  PROVE  table \in Table(Ids, Rows)
BY DEF Table

\* Writing a row leaves a table.
LEMMA PutIsTable ==
  ASSUME NEW Ids, NEW Rows, NEW table \in Table(Ids, Rows),
         NEW id \in Ids, NEW row \in Rows
  PROVE  Put(table, id, row) \in Table(Ids, Rows)
<1> DEFINE T == DOMAIN table \cup {id}
<1>1. T \in SUBSET Ids
  BY TableRows
<1>2. Put(table, id, row) \in [T -> Rows]
  BY TableRows DEF Put
<1> QED BY <1>1, <1>2, RowsTable

=============================================================================
