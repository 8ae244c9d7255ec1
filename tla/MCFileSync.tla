----------------------------- MODULE MCFileSync -----------------------------
(* FileSync on small schemas and every small edit of their files.            *)
EXTENDS FileSync, TLC

aaab == <<"a", "a", "a", "b">>
aabb == <<"a", "a", "b", "b">>
aab == <<"a", "a", "b">>
baa == <<"b", "a", "a">>
cc == <<"c", "c">>

Names == {aaab, aabb, aab, baa, cc}

IntType == [name |-> "int", params |-> 0]
Short == [name |-> "string", params |-> 1]
Long == [name |-> "string", params |-> 2]

Column(name, type, nullable, default, position) ==
  [name |-> name, type |-> type, nullable |-> nullable, default |-> default, position |-> position]

\* A tracked schema of one table t.
OneTable(columns) ==
  LET t == Object("table", NoId, "t")
  IN  [broken |-> FALSE,
       objects |-> [i \in 1 .. Len(columns) + 1 |->
                      IF i = 1 THEN t ELSE NewColumn(1, columns[i - 1])]]

\* The same and a table u with one column.
WithTableU(s) ==
  LET n == Cardinality(DOMAIN s.objects)
  IN  [s EXCEPT !.objects = [i \in 1 .. n + 2 |->
         CASE i <= n -> @[i]
           [] i = n + 1 -> Object("table", NoId, "u")
           [] OTHER -> NewColumn(n + 1, Column(cc, IntType, TRUE, "", 1))]]

\* Columns of several types and defaults, positions as drops and additions
\* leave them, a table with two columns of one name.
TwoColumns == OneTable(<<Column(aaab, IntType, TRUE, "", 1), Column(aab, IntType, TRUE, "", 2)>>)

TrackedSchemas ==
  {OneTable(<<Column(aaab, IntType, TRUE, "", 1)>>), TwoColumns, WithTableU(TwoColumns),
   OneTable(<<Column(cc, Short, FALSE, "1", 2), Column(aabb, IntType, TRUE, "", 3)>>),
   OneTable(<<Column(aaab, IntType, TRUE, "", 1), Column(aab, Long, TRUE, "", 2),
              Column(baa, IntType, FALSE, "2", 3)>>),
   OneTable(<<Column(aaab, IntType, TRUE, "", 1), Column(cc, IntType, TRUE, "", 2),
              Column(aaab, Long, FALSE, "", 3)>>)}

Plain(types) == {Column(n, y, TRUE, "", 0) : n \in Names, y \in types}

RawColumns == Plain({IntType, Short}) \cup {Column(n, Long, FALSE, "2", 0) : n \in Names}

Edits(columns, length) == UNION {[1 .. n -> columns] : n \in 0 .. length}

Table(name, columns) == [name |-> name, columns |-> columns]

\* A file of table t with up to two columns of any kind, or three or four of
\* one; of t and u, which may have come first or is new; of neither.
EditedFiles ==
  {<<Table("t", cs)>> : cs \in Edits(RawColumns, 2) \cup Edits(Plain({IntType}), 4)}
    \cup {<<Table("u", ds), Table("t", cs)>> :
            cs \in Edits(Plain({IntType}), 2), ds \in Edits(Plain({IntType, Short}), 1)}
    \cup {<<>>, <<Table("u", <<>>)>>}
=============================================================================
