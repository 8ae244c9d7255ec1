---------------------------- MODULE MCSchemaMerge ----------------------------
(* SchemaMerge from a small common schema.                                   *)
EXTENDS EmitDdl, TLC

AddOp(type, id, object) == [type |-> type, id |-> id, object |-> object]

\* One table with one column.
OneColumn ==
  <<AddOp("CreateTable", 1, Object("table", NoId, "t")),
    AddOp("AddColumn", 2, [Object("column", 1, "c") EXCEPT !.type = "int"])>>

\* The same with an index on the column.
OneIndex ==
  Append(OneColumn, AddOp("AddIndex", 3, [Object("index", 1, "i") EXCEPT !.columns = {2}]))

\* Two tables with a column each, for foreign keys.
TwoTables ==
  OneColumn \o
  <<AddOp("CreateTable", 3, Object("table", NoId, "u")),
    AddOp("AddColumn", 4, [Object("column", 3, "c") EXCEPT !.type = "int"])>>

\* Commits on the two branches commute, up to the numbers of revisions and
\* objects: the target's are made first.
TargetFirst ==
  (Migrations(Source) # {} /\ MergeNodes = {}) =>
    Cardinality(Migrations(Target)') = Cardinality(Migrations(Target))

\* A side makes a second operation only where all there are set a field of a
\* column or drop it: singles of every kind, and pairs of those.
PairsSetFields ==
  \/ \A b \in Side : Cardinality(Migrations(b)') <= 1
  \/ \A r \in DOMAIN nodes' : r > 2 /\ Len(nodes'[r].parents) = 1
       => nodes'[r].ops[1].type \in {"RenameColumn", "AlterColumnType", "DropColumn"}

\* Nothing follows the merge: a later commit comes last in every replay, and
\* how two merges follow each other is another run's.
UpToMerge == MergeNodes = {}
=============================================================================
