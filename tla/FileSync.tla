------------------------------ MODULE FileSync ------------------------------
(* `sync`: an edited model file becomes operations on the tracked schema.    *)
(* The file's tables are matched by name; new ones are created, missing ones *)
(* dropped, and in each of the others the rename detector (RenameDetect)     *)
(* asks its questions.  At the end everything is committed in one migration, *)
(* which replay applies.  Nothing is saved if a question is not answered.    *)
(*                                                                           *)
(* Indexes and keys of the file are parsed and compared by nobody; they are  *)
(* left out.                                                                 *)
EXTENDS RenameDetect

CONSTANTS
  Tracked,  \* the schemas at the head
  Files     \* the files people leave

\* Replay has made the schemas: objects with ids, the columns among them in
\* tables, each with the fields that are read here.
ASSUME TrackedAssumption ==
  \A s \in Tracked :
    /\ s = [broken |-> FALSE, objects |-> [i \in DOMAIN s.objects |-> s.objects[i]]]
    /\ IsFiniteSet(DOMAIN s.objects) /\ DOMAIN s.objects \subseteq Nat \ {NoId}
    /\ \A i \in DOMAIN s.objects :
         LET object == s.objects[i]
         IN  /\ object = [f \in DOMAIN object |-> object[f]]
             /\ {"kind", "table", "name", "type", "nullable", "default"} \subseteq DOMAIN object
             /\ object.kind = "table" => object.table = NoId
             /\ object.kind = "column" => object.table \in Tables(s) /\ object.name \in Name

\* The parser makes the files: lists of tables with lists of columns.
ASSUME FilesAssumption ==
  \A f \in Files :
    /\ f \in Seq(ElementsOf(f))
    /\ \A r \in DOMAIN f :
         /\ f[r].columns \in Seq(ElementsOf(f[r].columns))
         /\ \A d \in DOMAIN f[r].columns :
              /\ {"name", "type", "nullable", "default"} \subseteq DOMAIN f[r].columns[d]
              /\ f[r].columns[d].name \in Name

VARIABLES
  phase,   \* "start", "tables" between two tables, "columns" in one, "done"
  todo,    \* places in the file of the matched tables not yet diffed
  results  \* the matched tables that are diffed, a sequence

syncVars == <<schema, file, table, raw, remainingOld, remainingNew, proposals, phase, todo, results>>

Init ==
  /\ schema \in Tracked /\ file \in Files
  /\ table = NoId /\ raw = 0
  /\ remainingOld = {} /\ remainingNew = {} /\ proposals = {}
  /\ phase = "start" /\ todo = {} /\ results = <<>>

\* {t.name: t for t in tables}, of both sides.
LastTables == {t \in Tables(schema) : \A u \in Tables(schema) :
                 schema.objects[u].name = schema.objects[t].name => u <= t}

LastRaws == {r \in DOMAIN file : \A q \in DOMAIN file : file[q].name = file[r].name => q <= r}

Matches(t, r) == schema.objects[t].name = file[r].name

UnmatchedTables == {t \in LastTables : \A r \in LastRaws : ~Matches(t, r)}

UnmatchedRaws == {r \in LastRaws : \A t \in LastTables : ~Matches(t, r)}

\* uuid4(): ids after the last one are fresh.
LastId(s, ops) ==
  LET used == {NoId} \cup DOMAIN s.objects \cup {ops[i].id : i \in DOMAIN ops}
  IN  CHOOSE i \in used : \A j \in used : j <= i

CreateOps(r, last) ==
  LET new == file[r].columns
  IN  <<[type |-> "CreateTable", id |-> last + 1, object |-> Object("table", NoId, file[r].name)]>>
        \o [d \in DOMAIN new |-> [type |-> "AddColumn", id |-> last + 1 + d,
                                 object |-> NewColumn(last + 1, Raw(r, d))]]

\* generate_operations: tables created, tables dropped, tables changed.
Operations ==
  LET created == Seqs!FoldLeft(LAMBDA ops, r : ops \o CreateOps(r, LastId(schema, ops)),
                               <<>>, Seqs!SetToSeq(UnmatchedRaws))
      dropped == InSomeOrder({<<[type |-> "DropTable", id |-> t]>> : t \in UnmatchedTables})
  IN  Seqs!FoldLeft(LAMBDA ops, x : ops \o TableOps(x, LastId(schema, ops)),
                    created \o dropped, results)

\* diff_snapshot.
DiffTables ==
  /\ phase = "start"
  /\ phase' = "tables"
  /\ todo' = LastRaws \ UnmatchedRaws
  /\ UNCHANGED <<detectVars, results>>

BeginTable(r) ==
  /\ phase = "tables" /\ r \in todo
  /\ phase' = "columns"
  /\ \E t \in LastTables : Matches(t, r) /\ Begin(t, r)
  /\ UNCHANGED <<todo, results>>

AskColumn ==
  /\ phase = "columns"
  /\ Propose
  /\ UNCHANGED <<phase, todo, results>>

EndTable ==
  /\ phase = "columns" /\ Detected
  /\ phase' = "tables"
  /\ todo' = todo \ {raw}
  /\ results' = Append(results, Result)
  /\ UNCHANGED detectVars

\* The migration is appended and the head replayed; without operations there
\* is none.
Commit ==
  /\ phase = "tables" /\ todo = {}
  /\ phase' = "done"
  /\ schema' = Seqs!FoldLeft(Apply, schema, Operations)
  /\ UNCHANGED <<file, table, raw, remainingOld, remainingNew, proposals, todo, results>>

Next ==
  \/ DiffTables \/ AskColumn \/ EndTable \/ Commit
  \/ \E r \in todo : BeginTable(r)

\* The detector's loop goes on, every question is answered.
Spec == Init /\ [][Next]_syncVars /\ WF_syncVars(AskColumn \/ EndTable)

----------------------------------------------------------------------------
(* Properties; EachColumnOnce is that of RenameDetect.                       *)

\* What the detector holds while it works on a table.
ColumnsOnce == phase = "columns" => EachColumnOnce

Shape(c) == [name |-> c.name, type |-> c.type, nullable |-> c.nullable, default |-> c.default]

\* A schema and a file as they are read: names, and columns by name.
SchemaShape(s) ==
  {[name |-> s.objects[t].name, columns |-> {Shape(s.objects[c]) : c \in ColumnsOf(s, t)}] :
     t \in Tables(s)}

FileShape ==
  {[name |-> file[r].name,
    columns |-> {Shape(file[r].columns[d]) : d \in DOMAIN file[r].columns}] : r \in DOMAIN file}

NamesAreUnique ==
  /\ \A q, r \in DOMAIN file : file[q].name = file[r].name => q = r
  /\ \A r \in DOMAIN file : \A d, e \in DOMAIN file[r].columns :
       file[r].columns[d].name = file[r].columns[e].name => d = e
  /\ \A i, j \in DOMAIN schema.objects :
       /\ schema.objects[i].table = schema.objects[j].table
       /\ schema.objects[i].name = schema.objects[j].name
       => i = j

\* The columns of tables and names that the file still has.
NamedInFile(s) ==
  {c \in OfKind(s, "column") :
     \E x \in FileShape :
       /\ x.name = s.objects[s.objects[c].table].name
       /\ \E y \in x.columns : y.name = s.objects[c].name}

\* snapshot/diff.py:10 "there's no ambiguity about identity here": whatever
\* is answered, replaying the generated operations gives the tables and
\* columns of the file, a column whose name the file still has stays the
\* column it was, and an unedited file gives no operation.
FileReproduced ==
  phase = "tables" /\ todo = {} /\ NamesAreUnique =>
    LET after == Seqs!FoldLeft(Apply, schema, Operations)
    IN  /\ ~after.broken
        /\ SchemaShape(after) = FileShape
        /\ \A c \in NamedInFile(schema) :
             /\ c \in DOMAIN after.objects
             /\ after.objects[c].name = schema.objects[c].name
        /\ SchemaShape(schema) = FileShape => Operations = <<>>

\* Names within k insertions, deletions and substitutions of a name, by trying
\* them all on words no longer than the longest name.
OneEdit(w) ==
  LET letters == UNION {Seqs!Range(n) : n \in Name}
  IN  {Seqs!RemoveAt(w, i) : i \in DOMAIN w}
        \cup {Seqs!ReplaceAt(w, i, x) : i \in DOMAIN w, x \in letters}
        \cup {Seqs!InsertAt(w, i, x) : i \in 1 .. Len(w) + 1, x \in letters}

LongestName == CHOOSE n \in {Len(a) : a \in Name} : \A a \in Name : Len(a) <= n

WithinEdits ==
  [a \in Name |->
     LET within[k \in Nat] ==
           IF k = 0 THEN {a}
           ELSE within[k - 1] \cup
                  UNION {{v \in OneEdit(w) : Len(v) <= LongestName} : w \in within[k - 1]}
     IN  [k \in 0 .. LongestName |-> within[k]]]

\* similarity.py:41 "Normalized Levenshtein ratio": what the two rows compute
\* is the least number of edits that lead from one name to the other.
DistanceIsEdits ==
  phase = "start" =>
    \A c \in OfKind(schema, "column"), r \in DOMAIN file :
      LET a == Old(c).name
      IN  \A d \in DOMAIN file[r].columns :
            LET b == file[r].columns[d].name
            IN  NameDistance(a, b) = Smallest({k \in 0 .. LongestName : b \in WithinEdits[a][k]})

\* detector.py:102 "while remaining_old and remaining_new": with every pool
\* and every answer the questions about a table come to an end.
QuestionsEnd == phase = "columns" ~> phase = "tables"
=============================================================================
