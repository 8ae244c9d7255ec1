----------------------------- MODULE SchemaOps -----------------------------
(* The operations of a migration and what replaying them does: apply.py over *)
(* the history of a revision in any order that puts parents first.  A schema *)
(* is known by its objects: id -> table, column, index or foreign key, where *)
(* the code nests the last three inside their table.                         *)
(*                                                                           *)
(* An operation is [type, id], with an object if it creates one, or with the *)
(* old and the new value of what it renames or alters; only the old name of  *)
(* a renaming is read, and AlterColumnNullability stores none.  Types, names *)
(* and flags are uninterpreted values; an index or a key covers one column.  *)
EXTENDS DagWalk, FiniteSets

CONSTANTS
  Name,  \* names of tables, columns and indexes
  Type,  \* types of columns
  Verb   \* the operations that people make, a subset of Variants

Seqs == INSTANCE SequencesExt

ElementsOf(ops) == {ops[i] : i \in DOMAIN ops}

Destructive == {"DropColumn", "DropTable", "DropIndex", "DropConstraint"}
Creating == {"CreateTable", "AddColumn", "AddIndex", "AddConstraint"}

\* The field a mutation of a column sets.
MutationField ==
  [RenameColumn |-> "name", AlterColumnType |-> "type",
   AlterColumnNullability |-> "nullable", AlterColumnDefault |-> "default"]

SetField == [v \in DOMAIN MutationField \cup {"RenameIndex"} |->
               IF v = "RenameIndex" THEN "name" ELSE MutationField[v]]

Variants == Destructive \cup Creating \cup DOMAIN SetField

ASSUME VerbAssumption == Verb \subseteq Variants

NoId == 0

Object(kind, table, name) ==
  [kind |-> kind, table |-> table, name |-> name, type |-> "", nullable |-> TRUE,
   default |-> "", columns |-> {}, references |-> NoId]

----------------------------------------------------------------------------
(* apply_operation.                                                          *)

\* `broken`: replay has raised KeyError.
EmptySchema == [broken |-> FALSE, objects |-> [i \in {} |-> NoId]]

Inside(s, table) == {i \in DOMAIN s.objects : s.objects[i].table = table}

Without(s, ids) == [s EXCEPT !.objects = [i \in DOMAIN @ \ ids |-> @[i]]]

AddObject(s, o) ==
  IF o.object.table \in DOMAIN s.objects \cup {NoId}
  THEN [s EXCEPT !.objects = Put(@, o.id, o.object)]
  ELSE s

\* Only DropTable misses its target loudly.
DropObject(s, o) ==
  IF o.id \in DOMAIN s.objects THEN Without(s, {o.id} \cup Inside(s, o.id))
  ELSE [s EXCEPT !.broken = (o.type = "DropTable")]

SetObject(s, o) ==
  IF o.id \in DOMAIN s.objects
  THEN [s EXCEPT !.objects[o.id][SetField[o.type]] = o.value]
  ELSE s

Apply(s, o) ==
  IF s.broken THEN s
  ELSE CASE o.type \in Creating -> AddObject(s, o)
         [] o.type \in Destructive -> DropObject(s, o)
         [] OTHER -> SetObject(s, o)

\* replay() starts from ancestors(), a set of strings, whose order differs
\* between two runs of Python: it can visit the history in any order that
\* puts parents first.
Replays(ns, history) ==
  LET ready(done) == {r \in history \ done : ParentsOf(ns, r) \subseteq done}
      visit(v, r) == [done |-> v.done \cup {r},
                      schema |-> Seqs!FoldLeft(Apply, v.schema, ns[r].ops)]
      after[n \in Nat] ==
        IF n = 0 THEN {[done |-> {}, schema |-> EmptySchema]}
        ELSE UNION {{visit(v, r) : r \in ready(v.done)} : v \in after[n - 1]}
  IN  {v.schema : v \in after[Cardinality(history)]}

----------------------------------------------------------------------------
(* The verbs of `migrate` on a schema; the id of a new object is fresh.  A   *)
(* name that two columns share stands for either.                            *)

OfKind(s, kind) == {i \in DOMAIN s.objects : s.objects[i].kind = kind}

Tables(s) == OfKind(s, "table")

ColumnsOf(s, t) == OfKind(s, "column") \cap Inside(s, t)

ForeignKey(t, c, u) == [Object("constraint", t, "") EXCEPT !.columns = {c}, !.references = u]

NewObjects(s) ==
  LET taken == {s.objects[t].name : t \in Tables(s)}
  IN  [CreateTable |-> {Object("table", NoId, n) : n \in Name \ taken},
       AddColumn |-> {[Object("column", t, n) EXCEPT !.type = y] :
                        t \in Tables(s), n \in Name, y \in Type},
       AddIndex |-> {[Object("index", t, n) EXCEPT !.columns = {c}] :
                       t \in Tables(s), n \in Name, c \in OfKind(s, "column")},
       AddConstraint |-> {ForeignKey(t, c, u) :
                            t \in Tables(s), c \in OfKind(s, "column"), u \in Tables(s)}]

WellPlaced(s, object) == \A c \in object.columns : s.objects[c].table = object.table

KindOf == [DropTable |-> "table", DropColumn |-> "column", DropIndex |-> "index",
           DropConstraint |-> "constraint", RenameColumn |-> "column", RenameIndex |-> "index",
           AlterColumnType |-> "column", AlterColumnNullability |-> "column",
           AlterColumnDefault |-> "column"]

ValuesOf(type) ==
  CASE type \in {"AlterColumnType", "AlterColumnDefault"} -> Type
    [] type = "AlterColumnNullability" -> BOOLEAN
    [] OTHER -> Name

Authored(s, fresh) ==
  UNION {
    UNION {{[type |-> v, id |-> fresh, object |-> x] : x \in {x \in NewObjects(s)[v] : WellPlaced(s, x)}} :
             v \in Verb \cap Creating},
    UNION {{[type |-> v, id |-> i] : i \in OfKind(s, KindOf[v])} : v \in Verb \cap Destructive},
    UNION {{[type |-> v, id |-> i, old |-> s.objects[i][SetField[v]], value |-> x] :
              i \in OfKind(s, KindOf[v]), x \in ValuesOf(v)} : v \in Verb \cap DOMAIN SetField}}
=============================================================================
