---------------------------- MODULE RenameDetect ----------------------------
(* The rename detector on one table: which columns that vanished from the    *)
(* model file became which new ones.  It proposes one pair at a time, a      *)
(* person confirms or rejects it, and what is left in the end is dropped and *)
(* added.                                                                    *)
(*                                                                           *)
(* A tracked column is known by its id in the schema of SchemaOps, whose     *)
(* column objects have a position here; ids grow along a table's columns.  A *)
(* column of the file is known by its place in the file, its position.  Old  *)
(* values, which the operations of a sync store too, are left out here.      *)
EXTENDS Similarity

VARIABLES
  schema,        \* the schema tracked at the head of the branch
  file,          \* the parsed model file: a sequence of tables with columns
  table, raw,    \* the table that is diffed: its id, and its place in `file`
  remainingOld,  \* ids of the columns not matched so far
  remainingNew,  \* places in the file of the columns not matched so far
  proposals      \* the pairs a person was asked about: [old, new, confirmed]

detectVars == <<schema, file, table, raw, remainingOld, remainingNew, proposals>>

OldColumns == ColumnsOf(schema, table)

NewColumns == DOMAIN file[raw].columns

Old(c) == schema.objects[c]

Raw(r, d) == [file[r].columns[d] EXCEPT !.position = d]

New(d) == Raw(raw, d)

\* {c.name: c for c in columns}: the last column of a name.
LastOld == {c \in OldColumns : \A e \in OldColumns : Old(e).name = Old(c).name => e <= c}

LastNew == {d \in NewColumns : \A e \in NewColumns : New(e).name = New(d).name => e <= d}

SameName(c, d) == Old(c).name = New(d).name

UnmatchedOld == {c \in LastOld : \A d \in LastNew : ~SameName(c, d)}

UnmatchedNew == {d \in LastNew : \A c \in LastOld : ~SameName(c, d)}

\* _should_ignore_position: of the columns that kept their name at least half
\* have moved.
IgnorePosition ==
  LET compared == {c \in OldColumns : \E d \in LastNew : SameName(c, d)}
      moved == {c \in compared : \E d \in LastNew : SameName(c, d) /\ Old(c).position # d}
  IN  compared # {} /\ 2 * Cardinality(moved) >= Cardinality(compared)

Confirmed == {<<p.old, p.new>> : p \in {q \in proposals : q.confirmed}}

Rejected == {<<p.old, p.new>> : p \in {q \in proposals : ~q.confirmed}}

\* The pairs that are scored.
Pairs == (remainingOld \X remainingNew) \ Rejected

Scores ==
  {[old |-> p[1], new |-> p[2], score |-> Score(Old(p[1]), New(p[2]), size, ignored)] :
     p \in Pairs, size \in {Cardinality(OldColumns)}, ignored \in {IgnorePosition}}

\* _best_mutual_match: pairs that score well enough, and for both columns
\* better by the gap than any other pair they could make.
Clear(scores, gap) ==
  {p \in scores :
     /\ p.score >= ThresholdAccept
     /\ \A q \in scores \ {p} : p.old = q.old \/ p.new = q.new => p.score - q.score >= gap}

\* In floating point a difference of exactly the gap may be a little less, and
\* of two equal scores either the greater: surely clear are those above it.
SurelyClear(scores) == Clear(scores, ThresholdAmbiguousGap + 1)

\* max(candidates)
Best ==
  LET best(scores) ==
        {p \in Clear(scores, ThresholdAmbiguousGap) :
           \A q \in SurelyClear(scores) : q.score <= p.score}
  IN  UNION {{<<p.old, p.new>> : p \in best(scores)} : scores \in {Scores}}

\* One column on each side is proposed whatever it scores, once.
OnlyPair ==
  IF proposals = {} /\ Cardinality(remainingOld) = 1 /\ Cardinality(remainingNew) = 1
  THEN Pairs ELSE {}

\* _diff_table up to the first question.
Begin(t, r) ==
  /\ UNCHANGED <<schema, file>>
  /\ table' = t /\ raw' = r
  /\ remainingOld' = UnmatchedOld'
  /\ remainingNew' = UnmatchedNew'
  /\ proposals' = {}

Proposed == IF OnlyPair # {} THEN OnlyPair ELSE Best

Reject(p) ==
  /\ proposals' = proposals \cup {[old |-> p[1], new |-> p[2], confirmed |-> FALSE]}
  /\ UNCHANGED <<remainingOld, remainingNew>>

\* MUTANT of Confirm: the new column stays in the pool.
ConfirmLeavesNew(p) ==
  /\ proposals' = proposals \cup {[old |-> p[1], new |-> p[2], confirmed |-> TRUE]}
  /\ remainingOld' = remainingOld \ {p[1]}
  /\ UNCHANGED remainingNew

Confirm(p) ==
  /\ proposals' = proposals \cup {[old |-> p[1], new |-> p[2], confirmed |-> TRUE]}
  /\ remainingOld' = remainingOld \ {p[1]}
  /\ remainingNew' = remainingNew \ {p[2]}

\* One question and its answer.
Propose ==
  /\ \E p \in Proposed : Confirm(p) \/ Reject(p)
  /\ UNCHANGED <<schema, file, table, raw>>

\* MUTANT of Detected: the loop has no other exit than an empty pool.
DetectedAllMatched == remainingOld = {} \/ remainingNew = {}

Detected == OnlyPair = {} /\ SurelyClear(Scores) = {}

----------------------------------------------------------------------------
(* to_operations.py: what the edits of one table are in operations.          *)

Unless(same, op) == IF same THEN <<>> ELSE <<op>>

\* MUTANT of RetypeOps: a default that is removed is forgotten.
RetypeKeepsDefault(c, d) ==
  Unless(Old(c).type = d.type, [type |-> "AlterColumnType", id |-> c, value |-> d.type])
    \o Unless(Old(c).nullable = d.nullable,
              [type |-> "AlterColumnNullability", id |-> c, value |-> d.nullable])
    \o Unless(d.default \in {"", Old(c).default},
              [type |-> "AlterColumnDefault", id |-> c, value |-> d.default])

RetypeOps(c, d) ==
  Unless(Old(c).type = d.type, [type |-> "AlterColumnType", id |-> c, value |-> d.type])
    \o Unless(Old(c).nullable = d.nullable,
              [type |-> "AlterColumnNullability", id |-> c, value |-> d.nullable])
    \o Unless(Old(c).default = d.default,
              [type |-> "AlterColumnDefault", id |-> c, value |-> d.default])

RenameOps(c, d) ==
  <<[type |-> "RenameColumn", id |-> c, value |-> d.name]>> \o RetypeOps(c, d)

\* The operations on different columns, in one of the orders they come in.
InSomeOrder(sequences) == Seqs!FlattenSeq(Seqs!SetToSeq(sequences))

NewColumn(t, d) ==
  [kind |-> "column", table |-> t, name |-> d.name, type |-> d.type, nullable |-> d.nullable,
   default |-> d.default, columns |-> {}, references |-> NoId, position |-> d.position]

\* What is known of a table once it is diffed: MatchedTable and DetectionResult.
Result ==
  [table |-> table, raw |-> raw,
   retyped |-> {p \in LastOld \X LastNew : SameName(p[1], p[2])},
   renamed |-> Confirmed, dropped |-> remainingOld, added |-> remainingNew]

\* Ids for new columns follow `last`, the last one in use.
TableOps(result, last) ==
  LET new(d) == Raw(result.raw, d)
      drop(c) == <<[type |-> "DropColumn", id |-> c]>>
      add(d) == <<[type |-> "AddColumn", id |-> last + d, object |-> NewColumn(result.table, new(d))]>>
  IN  InSomeOrder({RetypeOps(p[1], new(p[2])) : p \in result.retyped})
        \o InSomeOrder({RenameOps(p[1], new(p[2])) : p \in result.renamed})
        \o InSomeOrder({drop(c) : c \in result.dropped})
        \o InSomeOrder({add(d) : d \in result.added})

----------------------------------------------------------------------------
(* Properties.                                                               *)

\* detector.py:11 "A rejected proposal puts both columns back in the pool":
\* whatever is asked and answered, each column that vanished from the file is
\* renamed to one new column, which nothing else becomes, or is still to be
\* dropped, and each new column is a column's new name or still to be added.
EachColumnOnce ==
  /\ \A p, q \in Confirmed : p[1] = q[1] <=> p[2] = q[2]
  /\ remainingOld = UnmatchedOld \ {p[1] : p \in Confirmed}
  /\ remainingNew = UnmatchedNew \ {p[2] : p \in Confirmed}
  /\ Confirmed \subseteq UnmatchedOld \X UnmatchedNew
=============================================================================
