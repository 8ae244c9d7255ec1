----------------------------- MODULE SchemaMerge -----------------------------
(* Two branches of one repository on which people make operations, merge and *)
(* answer questions: what a merge does to the schema, by every order in      *)
(* which the history may be replayed.  The DAG and its heads move as in Repo *)
(* and HEAD, .schema files and deleted branches are left to it.  Every       *)
(* command saves before it renders, so what a command that fails in          *)
(* sync_model_file has saved is a state here too.                            *)
EXTENDS MergeRules

CONSTANTS
  Target, Source,  \* the two branches
  Base,            \* the operations of their common history
  MaxOps,          \* bound: operations made on one branch
  MaxMerges        \* bound: merge nodes

ASSUME SidesAssumption == Target # Source /\ MaxOps \in Nat /\ MaxMerges \in Nat

Made == [CreateTable |-> "table", AddColumn |-> "column", AddIndex |-> "index",
         AddConstraint |-> "constraint"]

Makes(x, kind, id) == x.type \in Creating /\ x.id = id /\ x.object.kind = kind

\* What an operation needs of those before it: an object is in a table, is made
\* over columns of that table and refers to a table; what is changed or dropped
\* is an object of its kind.
Fits(before, o) ==
  /\ o.type \in Variants /\ o.id # NoId
  /\ o.type \in Creating =>
       LET new == o.object
       IN  /\ new = [f \in DOMAIN new |-> new[f]] /\ new.kind = Made[o.type]
           /\ new.table = NoId <=> o.type = "CreateTable"
           /\ o.type = "CreateTable" => new.references = NoId /\ new.columns = {}
           /\ \A t \in {new.table, new.references} \ {NoId} : \E x \in before : Makes(x, "table", t)
           /\ \A c \in new.columns :
                \E x \in before : Makes(x, "column", c) /\ x.object.table = new.table
  /\ o.type \notin Creating => \E x \in before : Makes(x, KindOf[o.type], o.id)

ASSUME BaseAssumption ==
  /\ Base \in Seq(ElementsOf(Base))
  /\ \A i \in DOMAIN Base : Fits({Base[j] : j \in 1 .. (i - 1)}, Base[i])
  /\ \A i, j \in DOMAIN Base :
       {Base[i].type, Base[j].type} \subseteq Creating /\ Base[i].id = Base[j].id => i = j

\* A new object has all its fields, a None among them.
ASSUME ObjectsAssumption ==
  \A o \in ElementsOf(Base) : o.type \in Creating => DOMAIN o.object = DOMAIN Object("", NoId, "")

VARIABLES
  nodes,   \* the sequence of migrations, each with its operations
  heads,   \* branch -> revision
  ancestors,  \* _ancestor_cache, filled when a node is appended
  schemas, \* for each node, the schemas that replaying it can give; like its
           \* ancestors they never change
  report   \* what the last command, if it made a merge node, did

vars == <<nodes, heads, ancestors, schemas, report>>

Side == {Target, Source}

Nobody == [id \in {} |-> ""]
NoReport == [rev |-> 0, base |-> 0, answers |-> Nobody, acknowledged |-> {}, collisions |-> {}]

Node(parents, b, ops) == [parents |-> parents, branch |-> b, ops |-> ops]

\* init, one migration with all of Base on the target, branch create.
Init ==
  /\ nodes = <<Node(<<>>, Target, <<>>), Node(<<1>>, Target, Base)>>
  /\ heads = [b \in Side |-> 2]
  /\ ancestors = <<{1}, {1, 2}>>
  /\ schemas = [r \in 1 .. 2 |-> Replays(nodes, ancestors[r])]
  /\ report = NoReport

\* MUTANT of AppendNode: a merge node has the history of its first parent.
AppendToFirstParent(b, parents, ops) ==
  /\ nodes' = Append(nodes, Node(parents, b, ops))
  /\ heads' = [heads EXCEPT ![b] = Len(nodes) + 1]
  /\ LET history == {Len(nodes) + 1} \cup ancestors[parents[1]]
     IN  /\ ancestors' = Append(ancestors, history)
         /\ schemas' = Append(schemas, Replays([r \in history |-> [nodes'[r] EXCEPT !.parents =
                                 IF @ = <<>> THEN @ ELSE <<@[1]>>]], history))

AppendNode(b, parents, ops) ==
  /\ nodes' = Append(nodes, Node(parents, b, ops))
  /\ heads' = [heads EXCEPT ![b] = Len(nodes) + 1]
  /\ LET history == {Len(nodes) + 1} \cup UNION {ancestors[parents[i]] : i \in DOMAIN parents}
     IN  /\ ancestors' = Append(ancestors, history)
         /\ schemas' = Append(schemas, Replays(nodes', history))

\* uuid4().
FreshId ==
  LET used == UNION {Touched(nodes[r].ops) : r \in DOMAIN nodes}
  IN  CHOOSE i \in 1 .. (Cardinality(used) + 1) : i \notin used

Migrations(b) == {r \in 3 .. Len(nodes) : nodes[r].branch = b /\ Len(nodes[r].parents) = 1}

\* Every migrate verb: an operation chosen on the replayed head.
Migrate(b) ==
  /\ Cardinality(Migrations(b)) < MaxOps
  /\ \E s \in schemas[heads[b]] :
       /\ ~s.broken
       /\ \E o \in Authored(s, FreshId) : AppendNode(b, <<heads[b]>>, <<o>>)
  /\ report' = NoReport

FastForward(t, s) ==
  /\ heads' = [heads EXCEPT ![t] = heads[s]]
  /\ report' = NoReport
  /\ UNCHANGED <<nodes, ancestors, schemas>>

MergeNodes == {r \in DOMAIN nodes : Len(nodes[r].parents) = 2}

TrueMerge(t, s, base) ==
  LET opsA == OperationsSince(nodes, ancestors, base, heads[t])
      opsB == OperationsSince(nodes, ancestors, base, heads[s])
      asked == Asked(opsA, opsB)
  IN  /\ Cardinality(MergeNodes) < MaxMerges
      /\ \E answers \in [asked -> {"a", "b", "both"}] :
           /\ \A id \in asked : answers[id] \in AnswersFor(opsA, opsB, id)
           /\ AppendNode(t, <<heads[t], heads[s]>>, MergeOps(opsA, opsB, answers))
           /\ report' = [rev |-> Len(nodes) + 1, base |-> base, answers |-> answers,
                         acknowledged |-> {o.id : o \in CrossObject(opsA, opsB)},
                         collisions |-> Collisions(opsA, opsB)]

\* Nothing to merge, an ambiguous base and a base that does not replay raise.
Merge(t, s) ==
  /\ heads[t] # heads[s]
  /\ LET common == ancestors[heads[t]] \cap ancestors[heads[s]]
         bases == {c \in common : \A x \in common : c \in ancestors[x] => x = c}
     IN  \E base \in bases :
           /\ bases = {base} /\ base # heads[s]
           /\ \/ base = heads[t] /\ FastForward(t, s)
              \/ /\ base # heads[t]
                 /\ \E schema \in schemas[base] : ~schema.broken
                 /\ TrueMerge(t, s, base)

Next == \/ \E b \in Side : Migrate(b)
        \/ \E t, s \in Side : Merge(t, s)

Spec == Init /\ [][Next]_vars

----------------------------------------------------------------------------
(* Properties: of the schemas before a merge and of the one it leads to.     *)

\* A merge node has just been made, and can be replayed (see HeadsReplay).
Merged == report.rev # 0 /\ \A s \in schemas[report.rev] : ~s.broken

SchemaAt(r) == (CHOOSE s \in schemas[r] : TRUE).objects

\* The objects at the base, on the two sides and after the merge.
Schemas ==
  [base |-> SchemaAt(report.base),
   a |-> SchemaAt(nodes[report.rev].parents[1]),
   b |-> SchemaAt(nodes[report.rev].parents[2]),
   merged |-> SchemaAt(report.rev)]

Fields == {"name", "type", "nullable", "default"}

\* Types: heads are stored, the newest revision's ancestors are the set that its
\* parents lead to, a report is of a stored revision and operations are known ones.
TypeOK ==
  /\ heads \in [Side -> DOMAIN nodes]
  /\ ancestors[Len(nodes)] = Ancestors(nodes, Len(nodes))
  /\ report.rev \in {0} \cup DOMAIN nodes
  /\ \A r \in DOMAIN nodes : \A o \in ElementsOf(nodes[r].ops) : o.type \in Variants

\* decisions.md:170 rejects what "depends on merge direction": whatever order
\* replay() happens to visit the history in, a head stands for one schema.
OneReplay == \A b \in Side : Cardinality(schemas[heads[b]]) = 1

\* Every head can be replayed, so every branch can be worked on.
HeadsReplay == \A b \in Side : \A s \in schemas[heads[b]] : ~s.broken

\* The three-way merge of one value, where the sides do not contradict.
ThreeWay(base, a, b) == IF a = base THEN b ELSE a

\* An object of all three schemas gets field by field what the sides made of
\* it; where someone was asked about it, the value of one side or the other.
FieldsThreeWay ==
  Merged => LET s == Schemas IN
    \A id \in DOMAIN s.base \cap DOMAIN s.a \cap DOMAIN s.b :
      /\ id \in DOMAIN s.merged
      /\ \A f \in Fields :
           LET va == s.a[id][f]  vb == s.b[id][f]
           IN  IF id \in DOMAIN report.answers THEN s.merged[id][f] \in {va, vb}
               ELSE s.merged[id][f] = ThreeWay(s.base[id][f], va, vb)

\* decisions-lite.md:43 "Two branches touching the same thing differently =
\* conflict, needs a human": one field set to two values, or an object changed
\* by one side and dropped by the other.
FieldsContradict(s, id) ==
  /\ id \in DOMAIN s.a \cap DOMAIN s.b
  /\ \E f \in Fields : Cardinality({s.base[id][f], s.a[id][f], s.b[id][f]}) = 3

DroppedAndChanged(s, id) ==
  \/ id \in DOMAIN s.a \ DOMAIN s.b /\ s.a[id] # s.base[id]
  \/ id \in DOMAIN s.b \ DOMAIN s.a /\ s.b[id] # s.base[id]

\* Each side did one operation to the object, and one of the two drops it.
OneDropsIt(id) ==
  LET by(i) == OpsOn(OperationsSince(nodes, ancestors, report.base, nodes[report.rev].parents[i]), id)
  IN  Len(by(1)) = 1 /\ Len(by(2)) = 1 /\ {by(1)[1].type, by(2)[1].type} \cap Destructive # {}

\* The human is asked about every field; about a drop where the classifier, which
\* looks for one only between single operations, can see it.
ContradictionsAsked ==
  Merged => LET s == Schemas IN
    \A id \in DOMAIN s.base :
      FieldsContradict(s, id) \/ (DroppedAndChanged(s, id) /\ OneDropsIt(id))
        => id \in DOMAIN report.answers

\* Where the human chose a side, everything the two sides disagreed about in
\* an object that both still had is as that side had it.
AnswersRespected ==
  Merged => LET s == Schemas IN
    \A id \in DOMAIN report.answers \cap DOMAIN s.a \cap DOMAIN s.b, f \in Fields :
      LET chosen == IF report.answers[id] = "a" THEN s.a[id][f] ELSE s.b[id][f]
      IN  Cardinality({s.base[id][f], s.a[id][f], s.b[id][f]}) = 3
            => s.merged[id][f] = chosen

\* The objects without which an object cannot be, or be rendered.
Needs(objects, id) ==
  ({objects[id].table, objects[id].references} \ {NoId}) \cup objects[id].columns

\* decisions.md:224 "the drop wins, and the dependent object gets a corrective
\* drop": nothing is left in a merge that needs what one side dropped, unless
\* that side had left it so itself.
NothingNeedsDropped ==
  Merged => LET s == Schemas IN
    \A id \in DOMAIN s.merged :
      /\ Needs(s.merged, id) \cap (DOMAIN s.base \ DOMAIN s.a) # {} => id \in DOMAIN s.a
      /\ Needs(s.merged, id) \cap (DOMAIN s.base \ DOMAIN s.b) # {} => id \in DOMAIN s.b

\* What one side added and kept is in the merge, unless the human was told:
\* it needed something dropped, or its name was taken.
Reported == report.acknowledged \cup {c.dropped : c \in report.collisions}

AdditionsKept ==
  LET s == Schemas
  IN  ((DOMAIN s.a \cup DOMAIN s.b) \ DOMAIN s.base) \ Reported \subseteq DOMAIN s.merged

\* What was dropped on one side is not in it.
DropsKept ==
  LET s == Schemas
  IN  DOMAIN s.merged \cap DOMAIN s.base \subseteq DOMAIN s.a \cap DOMAIN s.b

AdditionsAndDropsKept == Merged => AdditionsKept /\ DropsKept

\* name_collision.py:1: two sides that each have no column name twice in a
\* table do not get one by adding the same name. Renames are not looked at
\* there (merge_objects has none), nor a second addition by one side.
ColumnsIn(objects) == {i \in DOMAIN objects : objects[i].kind = "column"}

SameName(objects) ==
  {i \in ColumnsIn(objects) : \E j \in ColumnsIn(objects) :
     /\ i # j
     /\ objects[i].table = objects[j].table /\ objects[i].name = objects[j].name}

NamesStayUnique ==
  Merged => LET s == Schemas IN
    SameName(s.a) = {} /\ SameName(s.b) = {} => SameName(s.merged) = {}
=============================================================================
