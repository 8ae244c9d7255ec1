--------------------------- MODULE ReplayProofs ---------------------------
(* What one operation does to a schema, what a list of them does one after   *)
(* the other, and the lists that folds and the community modules make.       *)
EXTENDS SchemaOps, DagWalkProofs, FiniteSetTheorems, SequenceTheorems

----------------------------------------------------------------------------
(* Replay.                                                                   *)

\* What Apply and the merge take an object or a schema to be: a function.
IsFunction(f) == f = [x \in DOMAIN f |-> f[x]]

\* The objects of a schema.
AreObjects(objects) ==
  IsFunction(objects) /\ \A i \in DOMAIN objects : IsFunction(objects[i])

\* A schema that no operation has failed on, and what one operation leaves of it.
Fine(objects) == [broken |-> FALSE, objects |-> objects]

\* The three kinds of operations on the objects of a schema that is not broken.
Added(objects, o) ==
  IF o.object.table \in DOMAIN objects \cup {NoId} THEN Put(objects, o.id, o.object) ELSE objects

\* A dropped object goes, and with a table what is in it.
Dropped(objects, id) ==
  [i \in {j \in DOMAIN objects : j # id /\ objects[j].table # id} |-> objects[i]]

\* A set operation writes one field of one object, if the object is there.
Changed(objects, o) ==
  [i \in DOMAIN objects |->
     IF i = o.id THEN [objects[i] EXCEPT ![SetField[o.type]] = o.value] ELSE objects[i]]

\* Updates of a schema record.
LEMMA RecordFields ==
  ASSUME NEW b, NEW objects
  PROVE  LET s == [broken |-> b, objects |-> objects]
         IN  /\ \A x : [s EXCEPT !.objects = x] = [broken |-> b, objects |-> x]
             /\ \A x : [s EXCEPT !.broken = x] = [broken |-> x, objects |-> objects]
             /\ \A id, f, x : [s EXCEPT !.objects[id][f] = x]
                  = [broken |-> b, objects |-> [objects EXCEPT ![id][f] = x]]
  OBVIOUS

\* The same of a schema that is not broken.
LEMMA FineFields ==
  ASSUME NEW objects
  PROVE  /\ Fine(objects).broken = FALSE /\ Fine(objects).objects = objects
         /\ \A x : [Fine(objects) EXCEPT !.objects = x] = Fine(x)
         /\ \A x : [Fine(objects) EXCEPT !.broken = x] = [broken |-> x, objects |-> objects]
         /\ \A id, f, x : [Fine(objects) EXCEPT !.objects[id][f] = x]
                            = Fine([objects EXCEPT ![id][f] = x])
<1>1. Fine(objects).broken = FALSE /\ Fine(objects).objects = objects
    BY DEF Fine
<1>2. \A x : [Fine(objects) EXCEPT !.objects = x] = Fine(x)
    BY RecordFields, Zenon DEF Fine
<1>3. \A x : [Fine(objects) EXCEPT !.broken = x] = [broken |-> x, objects |-> objects]
    BY DEF Fine
<1>4. \A id, f, x : [Fine(objects) EXCEPT !.objects[id][f] = x]
                            = Fine([objects EXCEPT ![id][f] = x])
    BY RecordFields, Zenon DEF Fine
<1>. QED
    BY <1>1, <1>2, <1>3, <1>4

\* SetObject, of an object that is there.
LEMMA SetRecord ==
  ASSUME NEW b, NEW objects, NEW o, o.id \in DOMAIN objects
  PROVE  SetObject([broken |-> b, objects |-> objects], o)
           = [broken |-> b, objects |-> [objects EXCEPT ![o.id][SetField[o.type]] = o.value]]
  BY DEF SetObject

\* replay.py apply_operation: an operation that creates adds its object.
LEMMA ApplyAdd ==
  ASSUME NEW objects, NEW o, o.type \in Creating
  PROVE  Apply(Fine(objects), o) = Fine(Added(objects, o))
<1>1. Apply(Fine(objects), o) = AddObject(Fine(objects), o)
    BY FineFields DEF Apply, Creating, Destructive
<1>2. [Fine(objects) EXCEPT !.objects = Put(@, o.id, o.object)] = Fine(Put(objects, o.id, o.object))
  <2> DEFINE y == Put(Fine(objects).objects, o.id, o.object)
  <2>1. y = Put(objects, o.id, o.object)
      BY FineFields
  <2> HIDE DEF y
  <2>2. [Fine(objects) EXCEPT !.objects = y] = Fine(y)
      BY FineFields
  <2>. QED
      BY <2>1, <2>2 DEF y
<1>3. AddObject(Fine(objects), o) = Fine(Added(objects, o))
  <2>1. CASE o.object.table \in DOMAIN objects \cup {NoId}
      BY <1>2, <2>1, FineFields DEF AddObject, Added
  <2>2. CASE o.object.table \notin DOMAIN objects \cup {NoId}
      BY <2>2, FineFields DEF AddObject, Added
  <2>. QED
      BY <2>1, <2>2
<1>. QED
    BY <1>1, <1>3

\* A drop takes the object out; a drop of a table that is gone raises, of another
\* object that is gone it does nothing.
LEMMA ApplyDrop ==
  ASSUME NEW objects, NEW o, o.type \in Destructive
  PROVE  Apply(Fine(objects), o) =
           IF o.id \in DOMAIN objects THEN Fine(Dropped(objects, o.id))
           ELSE [broken |-> (o.type = "DropTable"), objects |-> objects]
<1> DEFINE s == Fine(objects)
<1>1. Apply(s, o) = DropObject(s, o)
    BY FineFields DEF Apply, Creating, Destructive
<1>2. s.objects = objects /\ \A x : [s EXCEPT !.objects = x] = Fine(x)
    BY FineFields
<1>3. \A x : [s EXCEPT !.broken = x] = [broken |-> x, objects |-> objects]
    BY FineFields
<1> HIDE DEF s
<1>4. [i \in DOMAIN objects \ ({o.id} \cup Inside(s, o.id)) |-> objects[i]] = Dropped(objects, o.id)
  <2>1. DOMAIN objects \ ({o.id} \cup Inside(s, o.id))
          = {j \in DOMAIN objects : j # o.id /\ objects[j].table # o.id}
      BY <1>2 DEF Inside
  <2>. QED
      BY <2>1 DEF Dropped
<1>5. Without(s, {o.id} \cup Inside(s, o.id)) = Fine(Dropped(objects, o.id))
    BY <1>2, <1>4 DEF Without
<1>6. Apply(s, o) = IF o.id \in DOMAIN objects THEN Fine(Dropped(objects, o.id))
           ELSE [broken |-> (o.type = "DropTable"), objects |-> objects]
    BY <1>1, <1>2, <1>3, <1>5 DEF DropObject
<1>. QED
    BY <1>6 DEF s

\* A set operation changes one field, and nothing if the object is gone.
LEMMA ApplySet ==
  ASSUME NEW objects, AreObjects(objects), NEW o, o.type \in DOMAIN SetField
  PROVE  Apply(Fine(objects), o) = Fine(Changed(objects, o))
<1>1. Apply(Fine(objects), o) = SetObject(Fine(objects), o)
  <2>1. o.type \notin Creating /\ o.type \notin Destructive
      BY DEF SetField, MutationField, Creating, Destructive
  <2>. QED
      BY <2>1, FineFields DEF Apply
<1>2. CASE o.id \notin DOMAIN objects
  <2>1. Changed(objects, o) = objects
      BY <1>2 DEF Changed, AreObjects, IsFunction
  <2>. QED
      BY <1>1, <1>2, <2>1, FineFields DEF SetObject
<1>3. CASE o.id \in DOMAIN objects
  <2>1. SetObject(Fine(objects), o) = Fine([objects EXCEPT ![o.id][SetField[o.type]] = o.value])
      BY <1>3, SetRecord, Zenon DEF Fine
  <2>2. [objects EXCEPT ![o.id][SetField[o.type]] = o.value] = Changed(objects, o)
      BY DEF Changed, AreObjects, IsFunction
  <2>. QED
      BY <1>1, <2>1, <2>2
<1>. QED
    BY <1>2, <1>3

\* A schema in which replay has raised stays as it is.
LEMMA ApplyBroken ==
  ASSUME NEW objects, NEW o
  PROVE  Apply([broken |-> TRUE, objects |-> objects], o) = [broken |-> TRUE, objects |-> objects]
  BY DEF Apply

----------------------------------------------------------------------------
(* A replay of one revision: a fold over the places 1 .. n of its list, a    *)
(* function on the subsets of 1 .. n.  It exists, by induction on n, and is  *)
(* followed along 1 .. 0, 1 .. 1, ..., 1 .. n.                               *)

\* The greatest of some of 1 .. n, as FoldLeft picks it.
LEMMA MaxOfSome ==
  ASSUME NEW n \in Nat, NEW s \in SUBSET (1 .. n), s # {}
  PROVE  Seqs!Max(s) \in s /\ \A y \in s : Seqs!Max(s) >= y
<1>1. \E x \in s : \A y \in s : y <= x
  <2>1. s \in SUBSET Nat /\ \A y \in s : y <= n
      OBVIOUS
  <2>. QED
      BY <2>1, GreatestNatural
<1>2. \E x \in s : \A y \in s : x >= y
    BY <1>1
<1>. QED
    BY <1>2 DEF Seqs!Max

\* The greatest of 1 .. k + 1, and what is left without it.
LEMMA MaxOfInterval ==
  ASSUME NEW k \in Nat
  PROVE  Seqs!Max(1 .. (k + 1)) = k + 1 /\ (1 .. (k + 1)) \ {k + 1} = 1 .. k
<1>1. 1 .. (k + 1) # {} /\ k + 1 \in Nat
    OBVIOUS
<1>2. Seqs!Max(1 .. (k + 1)) \in 1 .. (k + 1) /\ \A y \in 1 .. (k + 1) : Seqs!Max(1 .. (k + 1)) >= y
    BY <1>1, MaxOfSome
<1>. QED
    BY <1>2

\* A set of places without its last is one of fewer places.
LEMMA WithoutMax ==
  ASSUME NEW m \in Nat, NEW s \in SUBSET (1 .. (m + 1)), s # {}
  PROVE  s \ {Seqs!Max(s)} \in SUBSET (1 .. m)
<1>1. Seqs!Max(s) \in s /\ \A y \in s : Seqs!Max(s) >= y
    BY m + 1 \in Nat, MaxOfSome
<1>2. ASSUME NEW y \in s, y # Seqs!Max(s)
      PROVE  y \in 1 .. m
  <2>1. y \in 1 .. (m + 1) /\ Seqs!Max(s) \in 1 .. (m + 1) /\ Seqs!Max(s) >= y
      BY <1>1
  <2>. QED
      BY <1>2, <2>1
<1>. QED
    BY <1>2

\* The function that folds over the places up to n.
IsFold(base, ops, n, iter) ==
  iter = [s \in SUBSET (1 .. n) |->
            IF s = {} THEN base ELSE Apply(iter[s \ {Seqs!Max(s)}], ops[Seqs!Max(s)])]

\* FoldLeft of the community modules is that fold.
LEMMA FoldIsFold ==
  ASSUME NEW base, NEW ops, NEW n \in Nat, DOMAIN ops = 1 .. n
  PROVE  Seqs!FoldLeft(Apply, base, ops) = (CHOOSE iter : IsFold(base, ops, n, iter))[1 .. n]
  BY DEF Seqs!FoldLeft, Seqs!MapThenFoldSet, IsFold

\* There is such a fold: by induction on n.
LEMMA FoldExists ==
  ASSUME NEW base, NEW ops, NEW n \in Nat
  PROVE  \E iter : IsFold(base, ops, n, iter)
<1> DEFINE S == {m \in Nat : \E iter : IsFold(base, ops, m, iter)}
<1>1. 0 \in S
  <2>1. SUBSET (1 .. 0) = {{}}
      OBVIOUS
  <2>2. IsFold(base, ops, 0, [s \in SUBSET (1 .. 0) |-> base])
      BY <2>1 DEF IsFold
  <2>. QED
      BY <2>2
<1>2. ASSUME NEW m \in Nat, m \in S
      PROVE  m + 1 \in S
  <2>1. PICK iter : IsFold(base, ops, m, iter)
      BY <1>2
  <2> DEFINE next == [s \in SUBSET (1 .. (m + 1)) |->
                        IF s = {} THEN base ELSE Apply(iter[s \ {Seqs!Max(s)}], ops[Seqs!Max(s)])]
  <2>2. ASSUME NEW s \in SUBSET (1 .. m)
        PROVE  next[s] = iter[s]
    <3>1. s \in SUBSET (1 .. (m + 1))
        OBVIOUS
    <3>. QED
        BY <2>1, <3>1 DEF IsFold
  <2>3. \A s \in SUBSET (1 .. (m + 1)) : s # {} => iter[s \ {Seqs!Max(s)}] = next[s \ {Seqs!Max(s)}]
      BY <2>2, WithoutMax
  <2>4. next = [s \in SUBSET (1 .. (m + 1)) |->
                  IF s = {} THEN base ELSE Apply(next[s \ {Seqs!Max(s)}], ops[Seqs!Max(s)])]
      BY <2>3
  <2> HIDE DEF next
  <2>5. IsFold(base, ops, m + 1, next)
      BY <2>4 DEF IsFold
  <2>. QED
      BY <2>5
<1> HIDE DEF S
<1>3. Nat \subseteq S
    BY <1>1, <1>2, SetInduction
<1>. QED
    BY <1>3 DEF S

\* So the operations are applied one after the other.
LEMMA FoldByRounds ==
  ASSUME NEW base, NEW ops, NEW n \in Nat, DOMAIN ops = 1 .. n
  PROVE  \E round : /\ round[0] = base
                    /\ \A k \in Nat : k < n => round[k + 1] = Apply(round[k], ops[k + 1])
                    /\ round[n] = Seqs!FoldLeft(Apply, base, ops)
<1> DEFINE iter == CHOOSE iter : IsFold(base, ops, n, iter)
           round == [k \in 0 .. n |-> iter[1 .. k]]
<1>1. IsFold(base, ops, n, iter)
    BY FoldExists
<1>2. Seqs!FoldLeft(Apply, base, ops) = round[n]
    BY FoldIsFold
<1> HIDE DEF iter
<1>3. \A s \in SUBSET (1 .. n) :
        iter[s] = IF s = {} THEN base ELSE Apply(iter[s \ {Seqs!Max(s)}], ops[Seqs!Max(s)])
    BY <1>1 DEF IsFold
<1>4. round[0] = base
  <2>1. 1 .. 0 = {} /\ {} \in SUBSET (1 .. n) /\ 0 \in 0 .. n
      OBVIOUS
  <2>2. iter[{}] = base
      BY <1>3, <2>1
  <2>. QED
      BY <2>1, <2>2
<1>5. ASSUME NEW k \in Nat, k < n
      PROVE  round[k + 1] = Apply(round[k], ops[k + 1])
  <2> DEFINE s == 1 .. (k + 1)
  <2>1. s \in SUBSET (1 .. n) /\ s # {}
      BY <1>5
  <2>2. Seqs!Max(s) = k + 1 /\ s \ {Seqs!Max(s)} = 1 .. k
      BY MaxOfInterval, Zenon
  <2> HIDE DEF s
  <2>3. iter[s] = Apply(iter[s \ {Seqs!Max(s)}], ops[Seqs!Max(s)])
      BY <1>3, <2>1
  <2>4. iter[1 .. (k + 1)] = Apply(iter[1 .. k], ops[k + 1])
      BY <2>2, <2>3 DEF s
  <2>5. k \in 0 .. n /\ k + 1 \in 0 .. n
      BY <1>5
  <2>. QED
      BY <2>4, <2>5
<1> HIDE DEF round
<1>. QED
    BY <1>2, <1>4, <1>5

\* A schema in which replay has raised stays as it is.
LEMMA FoldBroken ==
  ASSUME NEW base, base.broken, NEW S, NEW ops \in Seq(S)
  PROVE  Seqs!FoldLeft(Apply, base, ops) = base
<1> DEFINE n == Len(ops)
<1>1. n \in Nat /\ DOMAIN ops = 1 .. n
    OBVIOUS
<1> HIDE DEF n
<1>2. PICK round : /\ round[0] = base
                   /\ \A k \in Nat : k < n => round[k + 1] = Apply(round[k], ops[k + 1])
                   /\ round[n] = Seqs!FoldLeft(Apply, base, ops)
    BY <1>1, FoldByRounds
<1> DEFINE T == {k \in Nat : k <= n => round[k] = base}
<1>3. 0 \in T
    BY <1>2
<1>4. ASSUME NEW k \in Nat, k \in T
      PROVE  k + 1 \in T
  <2> SUFFICES ASSUME k + 1 <= n
               PROVE  round[k + 1] = base
      OBVIOUS
  <2>1. k < n /\ k <= n
      BY <1>1
  <2>2. round[k] = base
      BY <1>4, <2>1
  <2>3. round[k + 1] = Apply(base, ops[k + 1])
      BY <1>2, <2>1, <2>2
  <2>. QED
      BY <2>3 DEF Apply
<1>5. Nat \subseteq T
  <2> HIDE DEF T
  <2>. QED
      BY <1>3, <1>4, SetInduction
<1>. QED
    BY <1>1, <1>2, <1>5

\* A list of one operation, and an empty one.
LEMMA FoldShort ==
  ASSUME NEW base, NEW ops, NEW n \in Nat, DOMAIN ops = 1 .. n
  PROVE  /\ n = 0 => Seqs!FoldLeft(Apply, base, ops) = base
         /\ n = 1 => Seqs!FoldLeft(Apply, base, ops) = Apply(base, ops[1])
<1>1. PICK round : /\ round[0] = base
                   /\ \A k \in Nat : k < n => round[k + 1] = Apply(round[k], ops[k + 1])
                   /\ round[n] = Seqs!FoldLeft(Apply, base, ops)
    BY FoldByRounds
<1>2. ASSUME n = 1
      PROVE  round[n] = Apply(base, ops[n])
  <2> DEFINE k == 0
  <2>1. k \in Nat /\ k < n /\ k + 1 = n
      BY <1>2
  <2>2. round[k + 1] = Apply(round[k], ops[k + 1])
      BY <1>1, <2>1
  <2>. QED
      BY <1>1, <2>1, <2>2
<1>. QED
    BY <1>1, <1>2

----------------------------------------------------------------------------
(* Lists.                                                                    *)

\* A list of its own elements.
Listed(list) == list \in Seq(ElementsOf(list))

\* A sequence over any set is such a list.
LEMMA ListedIff ==
  ASSUME NEW S, NEW list \in Seq(S)
  PROVE  Listed(list) /\ ElementsOf(list) \subseteq S
<1>1. PICK n \in Nat : list \in [1 .. n -> S]
    BY SeqDef
<1>2. list \in [1 .. n -> ElementsOf(list)]
    BY <1>1 DEF ElementsOf
<1>3. ElementsOf(list) \subseteq S
    BY <1>1 DEF ElementsOf
<1>. QED
    BY <1>2, <1>3, SeqDef DEF Listed

\* So is any function on 1 .. n.
LEMMA ListedFunction ==
  ASSUME NEW n \in Nat, NEW list, DOMAIN list = 1 .. n, list = [i \in 1 .. n |-> list[i]]
  PROVE  Listed(list) /\ Len(list) = n
<1>1. list \in [1 .. n -> ElementsOf(list)]
    BY DEF ElementsOf
<1>2. list \in Seq(ElementsOf(list))
    BY <1>1, SeqDef
<1>. QED
    BY <1>2 DEF Listed

\* The places of a list.
LEMMA ListedPlaces ==
  ASSUME NEW list, Listed(list)
  PROVE  Len(list) \in Nat /\ DOMAIN list = 1 .. Len(list)
  BY DEF Listed

\* The empty list.
LEMMA EmptyListed == Listed(<<>>) /\ ElementsOf(<<>>) = {}
<1>1. ElementsOf(<<>>) = {}
    BY DEF ElementsOf
<1>2. <<>> \in Seq({})
    OBVIOUS
<1>. QED
    BY <1>1, <1>2 DEF Listed

\* A list and one element more.
LEMMA ListedAppend ==
  ASSUME NEW list, Listed(list), NEW x
  PROVE  LET longer == Append(list, x) IN
         /\ Listed(longer) /\ Len(longer) = Len(list) + 1
         /\ DOMAIN longer = DOMAIN list \cup {Len(list) + 1}
         /\ \A i \in DOMAIN list : longer[i] = list[i]
         /\ longer[Len(list) + 1] = x
         /\ ElementsOf(longer) = ElementsOf(list) \cup {x}
<1> DEFINE S == ElementsOf(list) \cup {x}
           longer == Append(list, x)
<1>1. list \in Seq(S)
  <2>1. PICK n \in Nat : list \in [1 .. n -> ElementsOf(list)]
      BY SeqDef DEF Listed
  <2>2. list \in [1 .. n -> S]
      BY <2>1
  <2>. QED
      BY <2>2, SeqDef
<1> HIDE DEF S
<1>2. /\ longer \in Seq(S) /\ Len(longer) = Len(list) + 1
      /\ DOMAIN longer = DOMAIN list \cup {Len(list) + 1}
      /\ \A i \in DOMAIN list : longer[i] = list[i]
      /\ longer[Len(list) + 1] = x
  <2>1. x \in S
      BY DEF S
  <2>. QED
      BY <1>1, <2>1
<1>3. Listed(longer)
    BY <1>2, ListedIff
<1>4. ElementsOf(longer) = ElementsOf(list) \cup {x}
  <2> HIDE DEF longer
  <2>. QED
      BY <1>2 DEF ElementsOf
<1>. QED
    BY <1>2, <1>3, <1>4

\* Two lists, one behind the other.
LEMMA ListedConcat ==
  ASSUME NEW a, NEW b, Listed(a), Listed(b)
  PROVE  Listed(a \o b) /\ ElementsOf(a \o b) = ElementsOf(a) \cup ElementsOf(b)
<1> DEFINE S == ElementsOf(a) \cup ElementsOf(b)
<1>1. a \in Seq(S) /\ b \in Seq(S)
  <2>1. PICK n \in Nat : a \in [1 .. n -> ElementsOf(a)]
      BY SeqDef DEF Listed
  <2>2. PICK m \in Nat : b \in [1 .. m -> ElementsOf(b)]
      BY SeqDef DEF Listed
  <2>3. a \in [1 .. n -> S] /\ b \in [1 .. m -> S]
      BY <2>1, <2>2
  <2>. QED
      BY <2>3, SeqDef
<1> DEFINE c == a \o b
<1>2. /\ c \in Seq(S) /\ Len(c) = Len(a) + Len(b)
      /\ \A i \in 1 .. (Len(a) + Len(b)) : c[i] = IF i <= Len(a) THEN a[i] ELSE b[i - Len(a)]
  <2> HIDE DEF S
  <2>. QED
      BY <1>1
<1>3. Len(a) \in Nat /\ Len(b) \in Nat /\ DOMAIN a = 1 .. Len(a) /\ DOMAIN b = 1 .. Len(b)
    BY ListedPlaces
<1>4. DOMAIN c = 1 .. (Len(a) + Len(b))
    BY <1>2
<1> HIDE DEF c
<1>5. Listed(c) /\ ElementsOf(c) \subseteq S
    BY <1>2, ListedIff
<1>6. ElementsOf(a) \subseteq ElementsOf(c)
  <2> SUFFICES ASSUME NEW i \in DOMAIN a
               PROVE  a[i] \in ElementsOf(c)
      BY DEF ElementsOf
  <2>1. i \in 1 .. (Len(a) + Len(b)) /\ i <= Len(a)
      BY <1>3
  <2>2. c[i] = a[i] /\ i \in DOMAIN c
      BY <1>2, <1>4, <2>1
  <2>. QED
      BY <2>2 DEF ElementsOf
<1>7. ElementsOf(b) \subseteq ElementsOf(c)
  <2> SUFFICES ASSUME NEW i \in DOMAIN b
               PROVE  b[i] \in ElementsOf(c)
      BY DEF ElementsOf
  <2> DEFINE j == Len(a) + i
  <2>1. j \in 1 .. (Len(a) + Len(b)) /\ ~(j <= Len(a)) /\ j - Len(a) = i
      BY <1>3
  <2>2. c[j] = b[i] /\ j \in DOMAIN c
      BY <1>2, <1>4, <2>1
  <2>. QED
      BY <2>2 DEF ElementsOf
<1>. QED
    BY <1>5, <1>6, <1>7 DEF c

\* A list of one operation.
LEMMA SingleElement ==
  ASSUME NEW x
  PROVE  ElementsOf(<<x>>) = {x}
<1>1. DOMAIN <<x>> = {1} /\ <<x>>[1] = x
    OBVIOUS
<1>. QED
    BY <1>1 DEF ElementsOf

\* The lists that SetToSeq and FlattenSeq make.
LEMMA SetToSeqListed ==
  ASSUME NEW S, IsFiniteSet(S)
  PROVE  /\ Listed(Seqs!SetToSeq(S)) /\ ElementsOf(Seqs!SetToSeq(S)) = S
         /\ \A i, j \in DOMAIN Seqs!SetToSeq(S) : Seqs!SetToSeq(S)[i] = Seqs!SetToSeq(S)[j] => i = j
<1> DEFINE n == Cardinality(S)
           list == Seqs!SetToSeq(S)
<1>1. n \in Nat /\ ExistsBijection(1 .. n, S)
    BY FS_CardinalityType
<1>2. list = CHOOSE f \in [1 .. n -> S] : Seqs!IsInjective(f)
  <2>1. Seqs!Cardinality(S) = Cardinality(S)
      BY DEF Seqs!Cardinality, Cardinality
  <2>. QED
      BY <2>1 DEF Seqs!SetToSeq
<1> HIDE DEF n, list
<1>3. \E f \in [1 .. n -> S] : Seqs!IsInjective(f)
    BY <1>1 DEF ExistsBijection, Bijection, Injection, Surjection, IsInjective, Seqs!IsInjective
<1>4. list \in [1 .. n -> S] /\ Seqs!IsInjective(list)
    BY <1>2, <1>3
<1>5. list \in Seq(S)
    BY <1>1, <1>4, SeqDef
<1>6. list \in Injection(1 .. n, S)
    BY <1>4 DEF Injection, IsInjective, Seqs!IsInjective
<1>7. list \in Surjection(1 .. n, S)
  <2>1. Cardinality(1 .. n) = n /\ IsFiniteSet(1 .. n)
      BY <1>1, FS_Interval
  <2>2. IsFiniteSet(S) /\ Cardinality(S) = n
      BY DEF n
  <2>. QED
      BY <1>6, <2>1, <2>2, FS_Injection
<1>8. ElementsOf(list) = S
    BY <1>4, <1>7 DEF ElementsOf, Surjection
<1>9. \A i, j \in DOMAIN list : list[i] = list[j] => i = j
    BY <1>4 DEF Seqs!IsInjective
<1>. QED
    BY <1>5, <1>8, <1>9, ListedIff DEF list

\* FlattenSeq: the first n lists, one behind the other.
IsFlat(lists, n, flat) ==
  flat = [i \in 1 .. n |-> IF i = 1 THEN lists[i] ELSE flat[i - 1] \o lists[i]]

\* There is such a function: by induction on n.
LEMMA FlatExists ==
  ASSUME NEW lists, NEW n \in Nat
  PROVE  \E flat : IsFlat(lists, n, flat)
<1> DEFINE S == {m \in Nat : \E flat : IsFlat(lists, m, flat)}
           Step(flat, i) == flat[i - 1] \o lists[i]
<1>1. 0 \in S
  <2>1. IsFlat(lists, 0, [i \in 1 .. 0 |-> <<>>])
      BY DEF IsFlat
  <2>. QED
      BY <2>1
<1>2. ASSUME NEW m \in Nat, m \in S
      PROVE  m + 1 \in S
  <2>1. PICK flat : IsFlat(lists, m, flat)
      BY <1>2
  <2> DEFINE next == [i \in 1 .. (m + 1) |-> IF i = 1 THEN lists[i] ELSE Step(flat, i)]
  <2>2. ASSUME NEW i \in 1 .. m
        PROVE  next[i] = flat[i]
    <3>1. i \in 1 .. (m + 1)
        OBVIOUS
    <3>2. flat[i] = IF i = 1 THEN lists[i] ELSE Step(flat, i)
        BY <2>1 DEF IsFlat
    <3>. QED
        BY <3>1, <3>2
  <2>3. \A i \in 1 .. (m + 1) : i # 1 => Step(flat, i) = Step(next, i)
    <3>1. \A i \in 1 .. (m + 1) : i # 1 => i - 1 \in 1 .. m
        OBVIOUS
    <3> HIDE DEF next
    <3>. QED
        BY <2>2, <3>1
  <2>4. next = [i \in 1 .. (m + 1) |-> IF i = 1 THEN lists[i] ELSE Step(next, i)]
    <3>1. \A i \in 1 .. (m + 1) : next[i] = IF i = 1 THEN lists[i] ELSE Step(flat, i)
        OBVIOUS
    <3>2. next = [i \in 1 .. (m + 1) |-> next[i]]
        OBVIOUS
    <3> HIDE DEF next, Step
    <3>. QED
        BY <2>3, <3>1, <3>2
  <2> HIDE DEF next
  <2>5. IsFlat(lists, m + 1, next)
      BY <2>4 DEF IsFlat
  <2>. QED
      BY <2>5
<1> HIDE DEF S
<1>3. Nat \subseteq S
    BY <1>1, <1>2, SetInduction
<1>. QED
    BY <1>3 DEF S

\* A list of lists, made one list.
LEMMA FlattenListed ==
  ASSUME NEW lists, Listed(lists), \A i \in DOMAIN lists : Listed(lists[i])
  PROVE  /\ Listed(Seqs!FlattenSeq(lists))
         /\ ElementsOf(Seqs!FlattenSeq(lists)) = UNION {ElementsOf(lists[i]) : i \in DOMAIN lists}
<1> DEFINE L == Len(lists)
           flat == CHOOSE flat : IsFlat(lists, L, flat)
           Of(k) == UNION {ElementsOf(lists[i]) : i \in 1 .. k}
<1>1. L \in Nat /\ DOMAIN lists = 1 .. L
    BY ListedPlaces
<1>2. Seqs!FlattenSeq(lists) = IF L = 0 THEN lists ELSE flat[L]
    BY DEF Seqs!FlattenSeq, IsFlat
<1>3. IsFlat(lists, L, flat)
    BY <1>1, FlatExists
<1> HIDE DEF flat, L
<1>4. CASE L = 0
  <2>1. lists = <<>>
      BY <1>4 DEF Listed, L
  <2>2. DOMAIN lists = {}
      BY <1>1, <1>4
  <2>. QED
      BY <1>2, <1>4, <2>1, <2>2, EmptyListed
<1>5. CASE L # 0
  <2>1. \A i \in 1 .. L : flat[i] = IF i = 1 THEN lists[i] ELSE flat[i - 1] \o lists[i]
      BY <1>3 DEF IsFlat
  <2> DEFINE Good(k) == Listed(flat[k]) /\ ElementsOf(flat[k]) = Of(k)
             T == {n \in Nat : n + 1 <= L => Good(n + 1)}
  <2>2. ASSUME NEW k \in 1 .. L, k = 1
        PROVE  Good(k)
    <3>1. flat[k] = lists[k] /\ Listed(lists[k])
        BY <1>1, <2>1, <2>2
    <3>2. 1 .. k = {k}
        BY <2>2
    <3>3. Of(k) = ElementsOf(lists[k])
        BY <3>2
    <3> HIDE DEF Of
    <3>. QED
        BY <3>1, <3>3
  <2>3. ASSUME NEW k \in 1 .. L, k # 1, Good(k - 1)
        PROVE  Good(k)
    <3>1. flat[k] = flat[k - 1] \o lists[k] /\ Listed(lists[k])
        BY <1>1, <2>1, <2>3
    <3>2. 1 .. k = (1 .. (k - 1)) \cup {k}
        OBVIOUS
    <3>3. Of(k) = Of(k - 1) \cup ElementsOf(lists[k])
        BY <3>2
    <3> HIDE DEF Of
    <3>. QED
        BY <2>3, <3>1, <3>3, ListedConcat
  <2>4. 0 \in T
    <3> DEFINE k == 0 + 1
    <3>1. k = 1 /\ k \in 1 .. L
        BY <1>1, <1>5
    <3> HIDE DEF k, Good
    <3>2. Good(k)
        BY <2>2, <3>1
    <3>. QED
        BY <3>2 DEF k
  <2>5. ASSUME NEW n \in Nat, n \in T
        PROVE  n + 1 \in T
    <3> SUFFICES ASSUME (n + 1) + 1 <= L
                 PROVE  Good((n + 1) + 1)
        OBVIOUS
    <3> DEFINE k == (n + 1) + 1
    <3>1. k \in 1 .. L /\ k # 1 /\ k - 1 = n + 1 /\ n + 1 <= L
        BY <1>1
    <3> HIDE DEF k, Good
    <3>2. Good(k - 1)
        BY <2>5, <3>1
    <3>. QED
        BY <2>3, <3>1, <3>2 DEF k
  <2>6. Nat \subseteq T
    <3> HIDE DEF T
    <3>. QED
        BY <2>4, <2>5, SetInduction
  <2>7. Good(L)
    <3> HIDE DEF Good
    <3>1. L - 1 \in Nat /\ (L - 1) + 1 = L
        BY <1>1, <1>5
    <3>2. Good((L - 1) + 1)
        BY <1>1, <2>6, <3>1
    <3>. QED
        BY <3>1, <3>2
  <2>8. Of(L) = UNION {ElementsOf(lists[i]) : i \in DOMAIN lists}
      BY <1>1
  <2>. QED
      BY <1>2, <1>5, <2>7, <2>8
<1>. QED
    BY <1>4, <1>5

\* A function of finitely many values takes finitely many.
LEMMA ImageFinite ==
  ASSUME NEW D, IsFiniteSet(D), NEW f
  PROVE  IsFiniteSet({f[x] : x \in D})
<1> DEFINE g == [x \in D |-> f[x]]
<1>1. g \in Surjection(D, {f[x] : x \in D})
    BY DEF Surjection
<1>. QED
    BY <1>1, FS_Surjection

\* Finitely many numbers have a bound.
LEMMA FiniteBound ==
  ASSUME NEW E \in SUBSET Nat, IsFiniteSet(E)
  PROVE  \E k \in Nat : \A x \in E : x <= k
<1> DEFINE Small(F, l) == IsFiniteSet(F) /\ Cardinality(F) = l
           Bounded(l) == \A F \in SUBSET E : Small(F, l) => \E k \in Nat : \A x \in F : x <= k
           T == {l \in Nat : Bounded(l)}
<1>1. Bounded(0)
  <2>1. \A F \in SUBSET E : Small(F, 0) => F = {}
      BY FS_EmptySet
  <2>. QED
      BY <2>1
<1>2. ASSUME NEW l \in Nat, Bounded(l)
      PROVE  Bounded(l + 1)
  <2> SUFFICES ASSUME NEW F \in SUBSET E, Small(F, l + 1)
               PROVE  \E k \in Nat : \A x \in F : x <= k
      OBVIOUS
  <2>1. F # {}
    <3>1. Cardinality({}) = 0
        BY FS_EmptySet
    <3>. QED
        BY <3>1
  <2>2. PICK y \in F : TRUE
      BY <2>1
  <2>3. Small(F \ {y}, l)
    <3>1. IsFiniteSet(F \ {y}) /\ Cardinality(F \ {y}) = Cardinality(F) - 1
        BY FS_RemoveElement
    <3>. QED
        BY <3>1
  <2>4. PICK k \in Nat : \A x \in F \ {y} : x <= k
      BY <1>2, <2>3
  <2>5. CASE k <= y
    <3>1. \A x \in F : x <= y
        BY <2>4, <2>5
    <3>. QED
        BY <3>1
  <2>6. CASE y <= k
      BY <2>4, <2>6
  <2>. QED
      BY <2>5, <2>6
<1> HIDE DEF Bounded
<1>3. Nat \subseteq T
  <2>1. 0 \in T /\ \A l \in Nat : l \in T => l + 1 \in T
      BY <1>1, <1>2
  <2> HIDE DEF T
  <2>. QED
      BY <2>1, SetInduction
<1>4. Bounded(Cardinality(E))
    BY <1>3, FS_CardinalityType
<1>. QED
    BY <1>4 DEF Bounded
=============================================================================
