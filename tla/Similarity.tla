----------------------------- MODULE Similarity -----------------------------
(* How much a column of the file looks like a tracked column: similarity.py. *)
(* A name is a sequence of letters; a type has a name and parameters.  The   *)
(* code computes with fractions in floating point, the model with multiples  *)
(* of 1/Grain, exactly.                                                      *)
EXTENDS SchemaOps, Integers

CONSTANT Grain  \* a multiple of 10, of every length of a name and table size

ASSUME GrainAssumption == Grain \in Nat \ {0} /\ Grain % 10 = 0

ASSUME NameAssumption == IsFiniteSet(Name) /\ \A n \in Name : n \in Seq(ElementsOf(n))

Smallest(S) == CHOOSE x \in S : \A y \in S : x <= y

AbsDiff(x, y) == IF x <= y THEN y - x ELSE x - y

\* MUTANT of Levenshtein: a letter that stays costs as much as one replaced.
LevenshteinPaysAll(a, b) ==
  LET row[i \in 0 .. Len(a)] ==
        IF i = 0 THEN [j \in 0 .. Len(b) |-> j]
        ELSE LET previous == row[i - 1]
                 current[j \in 0 .. Len(b)] ==
                   IF j = 0 THEN i
                   ELSE Smallest({current[j - 1] + 1, previous[j] + 1, previous[j - 1] + 1})
             IN  current
  IN  row[Len(a)][Len(b)]

\* The letters inserted, deleted and substituted between two names: row i
\* holds the distances of the first i letters of a to the beginnings of b.
Levenshtein(a, b) ==
  LET row[i \in 0 .. Len(a)] ==
        IF i = 0 THEN [j \in 0 .. Len(b) |-> j]
        ELSE LET previous == row[i - 1]
                 substitute(j) == previous[j - 1] + (IF a[i] = b[j] THEN 0 ELSE 1)
                 current[j \in 0 .. Len(b)] ==
                   IF j = 0 THEN i
                   ELSE Smallest({current[j - 1] + 1, previous[j] + 1, substitute(j)})
             IN  current
  IN  row[Len(a)][Len(b)]

\* Levenshtein on all names: a table, so that each pair is computed once.
Distances == {<<a, b, Levenshtein(a, b)>> : a, b \in Name}

NameDistance(a, b) == (CHOOSE t \in Distances : t[1] = a /\ t[2] = b)[3]

NameSimilarity(a, b) ==
  LET longest == IF Len(a) >= Len(b) THEN Len(a) ELSE Len(b)
  IN  Grain - (Grain * NameDistance(a, b)) \div longest

\* _TYPE_FAMILY_SIMILARITY, in tenths; parameters do not count.
TypeFamily ==
  {<<{"string", "text"}, 9>>, <<{"string", "enum"}, 5>>, <<{"text", "enum"}, 3>>,
   <<{"int", "bigint"}, 8>>, <<{"int", "decimal"}, 3>>, <<{"decimal", "bigint"}, 2>>}

TypeSimilarity(s, t) ==
  LET listed == {p \in TypeFamily : p[1] = {s.name, t.name}}
  IN  CASE s.name = t.name -> Grain
        [] s.name # t.name /\ listed = {} -> 0
        [] OTHER -> (Grain \div 10) * (CHOOSE p \in listed : TRUE)[2]

ConstraintOverlap(c, d) ==
  (Grain \div 2) * ((IF c.nullable = d.nullable THEN 1 ELSE 0)
                    + (IF (c.default = "") = (d.default = "") THEN 1 ELSE 0))

\* Negative where a column moves further than its old table was long.
PositionProximity(p, q, size) ==
  IF size <= 1 THEN Grain ELSE Grain - (Grain * AbsDiff(p, q)) \div size

\* In hundredths of a Grain, as the weights are.
Score(c, d, size, ignorePosition) ==
  45 * NameSimilarity(c.name, d.name)
    + 25 * TypeSimilarity(c.type, d.type)
    + 15 * ConstraintOverlap(c, d)
    + 15 * (IF ignorePosition THEN Grain ELSE PositionProximity(c.position, d.position, size))

ThresholdAccept == 60 * Grain
ThresholdAmbiguousGap == 15 * Grain
=============================================================================
