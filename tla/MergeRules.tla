----------------------------- MODULE MergeRules -----------------------------
(* What merge() makes of the operations of the two sides since their merge   *)
(* base: groups by identity, classification, the cross-object pass, name     *)
(* collisions and the operations of the merge node.  Side A is the target.   *)
EXTENDS SchemaOps

\* A node's first parent that leads back to `from` is followed, at a merge
\* node too.
OperationsSince(ns, ancestors, from, to) ==
  LET next(r) == LET back == {i \in DOMAIN ns[r].parents : from \in ancestors[ns[r].parents[i]]}
                 IN  ns[r].parents[CHOOSE i \in back : \A j \in back : i <= j]
      leading == {r \in DOMAIN ns : from \in ancestors[r]}
      path[r \in leading] == IF r = from THEN <<>> ELSE path[next(r)] \o ns[r].ops
  IN  path[to]

\* group_by_identity.
Touched(ops) == {o.id : o \in ElementsOf(ops)}

OpsOn(ops, id) ==
  LET on[n \in 0 .. Len(ops)] ==
        IF n = 0 THEN <<>>
        ELSE IF ops[n].id = id THEN Append(on[n - 1], ops[n]) ELSE on[n - 1]
  IN  on[Len(ops)]

----------------------------------------------------------------------------
(* classify().                                                               *)

ClassifyPair(x, y) ==
  IF x = y \/ {x.type, y.type} \subseteq Destructive THEN "identical"
  ELSE IF {x.type, y.type} \cap Destructive # {} THEN "single_valued_conflict"
  ELSE IF x.type # y.type THEN "commuting"
  ELSE IF x.type \notin DOMAIN MutationField THEN "conflict"
  ELSE IF x.value # y.value THEN "single_valued_conflict" ELSE "identical"

\* MUTANT of Decompose: the first value of a field and not the last.
DecomposeFirst(ops) ==
  LET sets == {i \in DOMAIN ops : ops[i].type \in DOMAIN MutationField}
      field(i) == MutationField[ops[i].type]
  IN  [f \in {field(i) : i \in sets} |->
         ops[CHOOSE i \in sets : field(i) = f /\ \A j \in sets : field(j) = f => i <= j].value]

\* The fields a list of operations sets, each with its last value; what drops
\* or renames an index is not seen.
Decompose(ops) ==
  LET sets == {i \in DOMAIN ops : ops[i].type \in DOMAIN MutationField}
      field(i) == MutationField[ops[i].type]
  IN  [f \in {field(i) : i \in sets} |->
         ops[CHOOSE i \in sets : field(i) = f /\ \A j \in sets : field(j) = f => j <= i].value]

ClassifyCompound(a, b) ==
  LET fa == Decompose(a)  fb == Decompose(b)
  IN  IF \E f \in DOMAIN fa \cap DOMAIN fb : fa[f] # fb[f]
      THEN "partial_conflict" ELSE "commuting"

Classify(a, b) ==
  CASE a = <<>> \/ b = <<>> -> "unrelated"
    [] Len(a) = 1 /\ Len(b) = 1 -> ClassifyPair(a[1], b[1])
    [] OTHER -> ClassifyCompound(a, b)

\* The answers confirm() offers; none where auto_resolve settles the group.
Answers(class) ==
  CASE class = "single_valued_conflict" -> {"a", "b"}
    [] class \in {"conflict", "partial_conflict"} -> {"a", "b", "both"}
    [] OTHER -> {}

AnswersFor(opsA, opsB, id) == Answers(Classify(OpsOn(opsA, id), OpsOn(opsB, id)))

\* The identities a human is asked about.
Asked(opsA, opsB) ==
  {id \in Touched(opsA) \cap Touched(opsB) : AnswersFor(opsA, opsB, id) # {}}

\* MUTANT of Chosen: the sides are mixed up.
ChosenFromOther(a, b, answer) ==
  CASE answer = "a" -> b [] answer = "b" -> a [] OTHER -> a \o b

\* MUTANT of Chosen: keeping side A stores nothing, A having it already.
ChosenOnlyFromB(a, b, answer) ==
  CASE answer = "a" -> <<>> [] answer = "b" -> b [] OTHER -> a \o b

Chosen(a, b, answer) ==
  CASE answer = "a" -> a [] answer = "b" -> b [] OTHER -> a \o b

----------------------------------------------------------------------------
(* cross_object_pass: additions that refer to what the other side destroyed. *)

Destroyed(ops) == {o.id : o \in {x \in ElementsOf(ops) : x.type \in {"DropTable", "DropColumn"}}}

Referenced(o) ==
  IF o.type \in {"AddColumn", "AddIndex", "AddConstraint"}
  THEN {o.object.table, o.object.references} \cup o.object.columns
  ELSE {}

\* Pairs of an operation and what it refers to: several of one operation that
\* refers to several things that are gone.
FindConflicts(adding, destroying) ==
  {c \in ElementsOf(adding) \X Destroyed(destroying) : c[2] \in Referenced(c[1])}

\* MUTANT of NewGroups: looks in one direction only.
NewGroupsOneWay(opsA, opsB) == Seqs!SetToSeq(FindConflicts(opsB, opsA))

NewGroups(opsA, opsB) ==
  Seqs!SetToSeq(FindConflicts(opsB, opsA)) \o Seqs!SetToSeq(FindConflicts(opsA, opsB))

\* The operations that are reported.
CrossObject(opsA, opsB) ==
  {c[1] : c \in FindConflicts(opsB, opsA) \cup FindConflicts(opsA, opsB)}

CorrectiveDrop(o) ==
  [type |-> [AddColumn |-> "DropColumn", AddIndex |-> "DropIndex",
             AddConstraint |-> "DropConstraint"][o.type],
   id |-> o.id]

----------------------------------------------------------------------------
(* find_name_collisions: the same column name added to one table on both     *)
(* sides; the add that comes earlier in its side's list is kept.             *)

ColumnKeys(ops) ==
  {<<o.object.table, o.object.name>> : o \in {x \in ElementsOf(ops) : x.type = "AddColumn"}}

FirstAdd(ops, key) ==
  CHOOSE i \in DOMAIN ops :
    /\ ops[i].type = "AddColumn" /\ <<ops[i].object.table, ops[i].object.name>> = key
    /\ \A j \in DOMAIN ops :
         ops[j].type = "AddColumn" /\ <<ops[j].object.table, ops[j].object.name>> = key => i <= j

\* MUTANT of Collisions: adds at the same place in their lists are missed.
CollisionsWithoutTies(opsA, opsB) ==
  {LET i == FirstAdd(opsA, key)  j == FirstAdd(opsB, key)
   IN  IF i <= j THEN [kept |-> opsA[i].id, dropped |-> opsB[j].id]
       ELSE [kept |-> opsB[j].id, dropped |-> opsA[i].id] :
     key \in {k \in ColumnKeys(opsA) \cap ColumnKeys(opsB) : FirstAdd(opsA, k) # FirstAdd(opsB, k)}}

Collisions(opsA, opsB) ==
  {LET i == FirstAdd(opsA, key)  j == FirstAdd(opsB, key)
   IN  IF i <= j THEN [kept |-> opsA[i].id, dropped |-> opsB[j].id]
       ELSE [kept |-> opsB[j].id, dropped |-> opsA[i].id] :
     key \in ColumnKeys(opsA) \cap ColumnKeys(opsB)}

----------------------------------------------------------------------------
(* merge(): the operations of the merge node.  Groups concern different      *)
(* objects and drops can be repeated, so their order is of no account.       *)

MergeOps(opsA, opsB, answers) ==
  LET asked == Seqs!SetToSeq(DOMAIN answers)
      resolved == [i \in DOMAIN asked |->
                     Chosen(OpsOn(opsA, asked[i]), OpsOn(opsB, asked[i]), answers[asked[i]])]
      groups == NewGroups(opsA, opsB)
      corrective == [i \in DOMAIN groups |-> CorrectiveDrop(groups[i][1])]
      unnamed == {[type |-> "DropColumn", id |-> c.dropped] : c \in Collisions(opsA, opsB)}
  IN  Seqs!FlattenSeq(resolved) \o corrective \o Seqs!SetToSeq(unnamed)
=============================================================================
