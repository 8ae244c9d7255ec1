------------------------------- MODULE EmitDdl -------------------------------
(* `emit-ddl`: the operations of a branch's whole history, in an order that  *)
(* puts parents first, are sorted by their dependencies and printed one by   *)
(* one.  Each is printed from the schema the operations before it have made, *)
(* and one that finds its table or column missing there raises; but a RENAME *)
(* is printed from the old name stored with it.  Other text is left out.     *)
EXTENDS SchemaMerge

\* Every order topological_order() may visit a history in.
Orders(history) ==
  LET next(o) == {r \in history \ Seqs!ToSet(o) : ParentsOf(nodes, r) \subseteq Seqs!ToSet(o)}
      order[n \in Nat] ==
        IF n = 0 THEN {<<>>} ELSE UNION {{Append(o, r) : r \in next(o)} : o \in order[n - 1]}
  IN  order[Cardinality(history)]

OperationsOf(order) == Seqs!FlattenSeq([i \in DOMAIN order |-> nodes[order[i]].ops])

----------------------------------------------------------------------------
(* toposort.py.                                                              *)

\* The last operation of a type on an object, as the dictionaries keep it.
IsLast(ops, type, id, i) ==
  /\ ops[i].type = type /\ ops[i].id = id
  /\ \A j \in DOMAIN ops : j > i => ~(ops[j].type = type /\ ops[j].id = id)

\* The table_id of a DropColumn is that of the column's AddColumn.
TableOfColumn(ops, id) ==
  {ops[i].object.table : i \in {i \in DOMAIN ops : ops[i].type = "AddColumn" /\ ops[i].id = id}}

\* MUTANT of Edges: nothing has to precede a DropTable.
EdgesOfCreations(ops) ==
  {e \in (DOMAIN ops) \X (DOMAIN ops) :
     /\ ops[e[2]].type \in Creating \ {"CreateTable"}
     /\ \/ IsLast(ops, "CreateTable", ops[e[2]].object.table, e[1])
        \/ \E c \in ops[e[2]].object.columns : IsLast(ops, "AddColumn", c, e[1])}

\* build_dependency_edges: pairs of places in the list.
Edges(ops) ==
  LET creates(i, j) ==
        LET o == ops[j].object
        IN  \/ /\ ops[j].type \in {"AddColumn", "AddIndex", "AddConstraint"}
               /\ IsLast(ops, "CreateTable", o.table, i)
            \/ /\ ops[j].type = "AddConstraint"
               /\ IsLast(ops, "CreateTable", o.references, i)
            \/ /\ ops[j].type \in {"AddIndex", "AddConstraint"}
               /\ \E c \in o.columns : IsLast(ops, "AddColumn", c, i)
      drops(i, j) == \E t \in TableOfColumn(ops, ops[i].id) : IsLast(ops, "DropTable", t, j)
      OfType(types) == {i \in DOMAIN ops : ops[i].type \in types}
  IN  {e \in OfType({"CreateTable", "AddColumn"}) \X OfType(Creating) : creates(e[1], e[2])}
        \cup {e \in OfType({"DropColumn"}) \X OfType({"DropTable"}) : drops(e[1], e[2])}

\* MUTANT of NextReady: the operation that became ready last is taken.
NextReadyNewest(ready) == CHOOSE i \in ready : \A j \in ready : j <= i

\* ready.sort(); ready.pop(0)
NextReady(ready) == CHOOSE i \in ready : \A j \in ready : i <= j

\* Kahn's algorithm: of the operations whose predecessors are done the first.
Toposort(ops) ==
  LET edges == Edges(ops)
      take(sorted, n) ==
        LET left == DOMAIN ops \ Seqs!ToSet(sorted)
            blocked == {e[2] : e \in {e \in edges : e[1] \in left}}
        IN  Append(sorted, NextReady(left \ blocked))
  IN  Seqs!FoldLeftDomain(take, <<>>, ops)

----------------------------------------------------------------------------
(* emitter.py.                                                               *)

\* _emit_one finds everything it names.
Resolves(s, o) ==
  CASE o.type \in {"CreateTable", "RenameIndex"} -> TRUE
    [] o.type \in Creating \ {"CreateTable"} ->
         {o.object.table} \cup o.object.columns \cup ({o.object.references} \ {NoId})
           \subseteq DOMAIN s.objects
    [] OTHER -> o.id \in DOMAIN s.objects

Renaming == {"RenameColumn", "RenameIndex"}

\* A RENAME is printed with the stored old_name: it is valid where that is the name.
NamesWhatIsThere(s, o) ==
  o.type \in Renaming => o.id \in DOMAIN s.objects /\ s.objects[o.id].name = o.old

\* MUTANT of EmitOne: an operation is printed from the schema it leads to.
EmitOneLate(emission, o) ==
  IF ~emission.raised /\ Resolves(emission.schema, o)
  THEN [emission EXCEPT !.schema = Apply(@, o),
                        !.misnamed = @ \/ ~NamesWhatIsThere(Apply(emission.schema, o), o)]
  ELSE [emission EXCEPT !.raised = TRUE]

\* `misnamed`: a RENAME has been printed of a name that nothing has.
EmitOne(emission, o) ==
  IF ~emission.raised /\ Resolves(emission.schema, o)
  THEN [emission EXCEPT !.schema = Apply(@, o),
                        !.misnamed = @ \/ ~NamesWhatIsThere(emission.schema, o)]
  ELSE [emission EXCEPT !.raised = TRUE]

Emitted(list) ==
  Seqs!FoldLeft(EmitOne, [raised |-> FALSE, misnamed |-> FALSE, schema |-> EmptySchema], list)

Emission(ops) ==
  LET order == Toposort(ops) IN Emitted([n \in DOMAIN order |-> ops[order[n]]])

\* The operations of the common history were made as all others are: on a schema
\* that had what they name.
ASSUME PossibleBase == ~Emitted(Base).raised /\ ~Emitted(Base).misnamed

----------------------------------------------------------------------------
Emissions(history) == {Emission(OperationsOf(o)) : o \in Orders(history)}

\* Two revisions of which neither leads to the other: the two sides of a merge.
Beside(r, q) == r \notin ancestors[q] /\ q \notin ancestors[r]

\* What an operation concerns: its object, the table of that and the one it refers to.
Concerned(made, o) ==
  LET table(x) == {x.object.table, x.object.references} \ {NoId}
  IN  {o.id} \cup UNION {table(x) : x \in {x \in made : x.type \in Creating /\ x.id = o.id}}

\* One side of a merge drops something, the other works on the same table.
DroppedBeside(history) ==
  LET made == UNION {ElementsOf(nodes[r].ops) : r \in history}
  IN  \E r, q \in history : Beside(r, q) /\
        \E x \in ElementsOf(nodes[r].ops), o \in ElementsOf(nodes[q].ops) :
          x.type \in Destructive /\ Concerned(made, x) \cap Concerned(made, o) # {}

\* One side renames something, the other changes the same thing.
RenamedBeside(history) ==
  \E r, q \in history : Beside(r, q) /\
    \E x \in ElementsOf(nodes[r].ops), o \in ElementsOf(nodes[q].ops) :
      x.type \in Renaming /\ x.id = o.id

Drops(history) == {r \in history : \E i \in DOMAIN nodes[r].ops : nodes[r].ops[i].type \in Destructive}

\* decisions.md:32 "emit valid, dependency-ordered DDL", in whatever order the
\* history of the newest revision is visited: what is emitted to the end leads
\* to the schema that replay gives; where nothing was dropped it is emitted to
\* the end; and where nothing was merged it is, and its RENAMEs name what is there.
EmissionIsReplay ==
  LET history == ancestors[Len(nodes)]
  IN  \A e \in Emissions(history) :
        /\ ~e.raised => e.schema \in schemas[Len(nodes)]
        /\ Drops(history) = {} => ~e.raised
        /\ history \cap MergeNodes = {} => ~e.raised /\ ~e.misnamed

\* The same of a history with merges: it is emitted to the end unless the two
\* sides of a merge met where one had dropped something, and its RENAMEs name
\* what is there unless they met so or over something that one had renamed.
EmittedUnlessBeside ==
  LET history == ancestors[Len(nodes)]
  IN  \A e \in Emissions(history) :
        /\ e.raised => DroppedBeside(history)
        /\ e.misnamed => RenamedBeside(history) \/ DroppedBeside(history)

\* Migrations of two branches that drop things of the types, each of them once,
\* can be emitted in whatever order they come.
DropsOrdered(types) ==
  LET history == ancestors[Len(nodes)]
      made == UNION {Seqs!ToSet(nodes[r].ops) : r \in history \ {1, 2}}
      migrations == {r \in history \ {1, 2} : nodes[r].ops # <<>>}
  IN  /\ \A o \in made : o.type \in types
      /\ Cardinality(migrations) = Cardinality(made)
      => \A e \in Emissions(history) : ~e.raised

\* toposort.py:92 "any drop of something belonging to a table must precede that
\* table's own DropTable, if both are in this batch", as far as the code has an
\* edge for it: where one branch drops a table and the other columns of it.
TableDropsComeLast == DropsOrdered({"DropTable", "DropColumn"})
=============================================================================
