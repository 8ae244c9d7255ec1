------------------------- MODULE SchemaMergeProofs -------------------------
(* What every history of migrations and merges comes to: the operations that *)
(* are stored explain each schema that replays them, and what one side of a  *)
(* merge has done the other does not undo.                                   *)
EXTENDS OperationProofs

----------------------------------------------------------------------------
(* The store, and what operations_between collects from it.                 *)

\* A store of migrations, with the ancestor sets it keeps.
IsStore(ns, kept) ==
  /\ Listed(ns)
  /\ \A r \in DOMAIN ns : ns[r].parents \in Seq(1 .. (r - 1)) /\ Listed(ns[r].ops)
  /\ DOMAIN kept = DOMAIN ns
  /\ \A r \in DOMAIN ns : kept[r] = Ancestors(ns, r)

\* A store of migrations is a graph whose parents come before their children.
LEMMA StoreIsDag ==
  ASSUME NEW ns, NEW kept, IsStore(ns, kept)
  PROVE  /\ DOMAIN ns = 1 .. Len(ns) /\ Len(ns) \in Nat
         /\ ParentsStored(ns) /\ AppendOrder(ns)
         /\ \A r \in DOMAIN ns : ParentsOf(ns, r) \subseteq 1 .. (r - 1)
<1>1. DOMAIN ns = 1 .. Len(ns) /\ Len(ns) \in Nat
    BY ListedPlaces DEF IsStore
<1>2. \A r \in DOMAIN ns : ParentsOf(ns, r) \subseteq 1 .. (r - 1)
    BY ParentsAreEarlier DEF IsStore
<1>3. ParentsStored(ns)
    BY <1>1, <1>2 DEF ParentsStored, ParentClosed
<1>4. AppendOrder(ns)
    BY <1>1, <1>2 DEF AppendOrder
<1>. QED
    BY <1>1, <1>2, <1>3, <1>4

\* The revisions since a merge base that have it in their history.
Since(ns, from, r) == {q \in Ancestors(ns, r) : q # from /\ from \in Ancestors(ns, q)}

\* The operations of some revisions.
OpsOf(ns, revisions) == UNION {ElementsOf(ns[q].ops) : q \in revisions}

\* The way operations_between goes back, and what it collects.
Back(ns, kept, from, r) == {i \in DOMAIN ns[r].parents : from \in kept[ns[r].parents[i]]}

\* operations_between follows the first parent that leads to the merge base.
NextBack(ns, kept, from, r) ==
  ns[r].parents[CHOOSE i \in Back(ns, kept, from, r) : \A j \in Back(ns, kept, from, r) : i <= j]

\* The revisions from which the merge base can be reached.
Leading(ns, kept, from) == {r \in DOMAIN ns : from \in kept[r]}

\* What it collects on its way, from each of them.
IsPath(ns, kept, from, S, path) ==
  path = [r \in S |-> IF r = from THEN <<>> ELSE path[NextBack(ns, kept, from, r)] \o ns[r].ops]

\* OperationsSince is that function.
LEMMA PathIsPath ==
  ASSUME NEW ns, NEW kept, NEW from, NEW to
  PROVE  OperationsSince(ns, kept, from, to)
           = (CHOOSE path : IsPath(ns, kept, from, Leading(ns, kept, from), path))[to]
  BY DEF OperationsSince, IsPath, Leading, NextBack, Back

\* The way leads back, to an earlier revision.
LEMMA NextBackLeads ==
  ASSUME NEW ns, NEW kept, IsStore(ns, kept), NEW from,
         NEW r \in Leading(ns, kept, from), r # from
  PROVE  /\ NextBack(ns, kept, from, r) \in Leading(ns, kept, from)
         /\ NextBack(ns, kept, from, r) \in ParentsOf(ns, r)
         /\ NextBack(ns, kept, from, r) \in 1 .. (r - 1)
<1> DEFINE back == Back(ns, kept, from, r)
<1>1. r \in DOMAIN ns /\ from \in Ancestors(ns, r) /\ ns[r].parents \in Seq(1 .. (r - 1))
    BY DEF Leading, IsStore
<1>2. PICK p \in ParentsOf(ns, r) : from \in Ancestors(ns, p)
    BY <1>1, StoreIsDag, AncestorsOfNode
<1>3. \A i \in DOMAIN ns[r].parents :
        /\ ns[r].parents[i] \in ParentsOf(ns, r)
        /\ ns[r].parents[i] \in 1 .. (r - 1) /\ ns[r].parents[i] \in DOMAIN ns
    BY <1>1, StoreIsDag DEF ParentsOf
<1>4. PICK i \in DOMAIN ns[r].parents : p = ns[r].parents[i]
    BY DEF ParentsOf
<1>5. i \in back
    BY <1>2, <1>3, <1>4 DEF Back, IsStore
<1>6. back \in SUBSET Nat
    BY <1>1 DEF Back
<1>7. \E j \in back : \A k \in back : j <= k
  <2> HIDE DEF back
  <2>. QED
      BY <1>5, <1>6, LeastNatural
<1>8. PICK j \in back : NextBack(ns, kept, from, r) = ns[r].parents[j]
    BY <1>7 DEF NextBack
<1>9. j \in DOMAIN ns[r].parents /\ from \in kept[ns[r].parents[j]]
    BY DEF Back
<1>. QED
    BY <1>3, <1>8, <1>9 DEF Leading

\* There is such a function: by induction on the revisions.
LEMMA PathExists ==
  ASSUME NEW ns, NEW kept, IsStore(ns, kept), NEW from
  PROVE  \E path : IsPath(ns, kept, from, Leading(ns, kept, from), path)
<1> DEFINE all == Leading(ns, kept, from)
           S(m) == {r \in all : r <= m}
           Step(path, r) == path[NextBack(ns, kept, from, r)] \o ns[r].ops
           T == {m \in Nat : \E path : IsPath(ns, kept, from, S(m), path)}
<1>0. all \in SUBSET (1 .. Len(ns)) /\ Len(ns) \in Nat
    BY StoreIsDag DEF Leading
<1>b. \A r \in all : r \in Nat /\ r >= 1 /\ r <= Len(ns)
    BY <1>0
<1>a. \A r \in all : r # from => NextBack(ns, kept, from, r) \in all /\ NextBack(ns, kept, from, r) < r
    BY <1>0, NextBackLeads
<1> HIDE DEF all
<1>1. 0 \in T
  <2>1. S(0) = {}
      BY <1>b
  <2>2. IsPath(ns, kept, from, {}, [r \in {} |-> <<>>])
      BY DEF IsPath
  <2>. QED
      BY <2>1, <2>2
<1>2. ASSUME NEW m \in Nat, m \in T
      PROVE  m + 1 \in T
  <2>1. PICK path : IsPath(ns, kept, from, S(m), path)
      BY <1>2
  <2> DEFINE next == [r \in S(m + 1) |-> IF r = from THEN <<>> ELSE Step(path, r)]
  <2>2. ASSUME NEW r \in S(m)
        PROVE  next[r] = path[r]
    <3>1. r \in S(m + 1)
        BY <1>0
    <3>2. path[r] = IF r = from THEN <<>> ELSE Step(path, r)
        BY <2>1 DEF IsPath
    <3>. QED
        BY <3>1, <3>2
  <2>3. \A r \in S(m + 1) : r # from => Step(path, r) = Step(next, r)
    <3>1. \A r \in S(m + 1) : r # from => NextBack(ns, kept, from, r) \in S(m)
      <4> SUFFICES ASSUME NEW r \in S(m + 1), r # from
                   PROVE  NextBack(ns, kept, from, r) \in S(m)
          OBVIOUS
      <4> DEFINE p == NextBack(ns, kept, from, r)
      <4>1. r \in all /\ r <= m + 1 /\ r \in Nat
          BY <1>b
      <4>2. p \in all /\ p < r
          BY <1>a, <4>1
      <4>3. p \in Nat
          BY <1>b, <4>2
      <4> HIDE DEF p
      <4>4. p \in S(m)
          BY <4>1, <4>2, <4>3
      <4>. QED
          BY <4>4 DEF p
    <3> HIDE DEF next
    <3>. QED
        BY <2>2, <3>1
  <2>4. next = [r \in S(m + 1) |-> IF r = from THEN <<>> ELSE Step(next, r)]
    <3>1. \A r \in S(m + 1) : next[r] = IF r = from THEN <<>> ELSE Step(path, r)
        OBVIOUS
    <3>2. next = [r \in S(m + 1) |-> next[r]]
        OBVIOUS
    <3> HIDE DEF next, Step, S
    <3>. QED
        BY <2>3, <3>1, <3>2
  <2> HIDE DEF next
  <2>5. IsPath(ns, kept, from, S(m + 1), next)
      BY <2>4 DEF IsPath
  <2> HIDE DEF S
  <2>. QED
      BY <2>5
<1>3. Nat \subseteq T
  <2> HIDE DEF T
  <2>. QED
      BY <1>1, <1>2, SetInduction
<1>4. S(Len(ns)) = all
    BY <1>b
<1>. QED
    BY <1>0, <1>3, <1>4 DEF all

\* operations_between finds operations of revisions made since the merge base;
\* all of them where none of those is a merge node.
LEMMA OperationsSinceListed ==
  ASSUME NEW ns, NEW kept, IsStore(ns, kept), NEW to \in DOMAIN ns,
         NEW from \in kept[to]
  PROVE  LET ops == OperationsSince(ns, kept, from, to)  since == Since(ns, from, to)
         IN  /\ Listed(ops) /\ ElementsOf(ops) \subseteq OpsOf(ns, since)
             /\ (\A q \in since : Len(ns[q].parents) <= 1) => ElementsOf(ops) = OpsOf(ns, since)
<1> DEFINE all == Leading(ns, kept, from)
           path == CHOOSE path : IsPath(ns, kept, from, all, path)
           next(r) == NextBack(ns, kept, from, r)
           since(r) == Since(ns, from, r)
           Straight(r) == \A q \in since(r) : Len(ns[q].parents) <= 1
           Good(r) == /\ Listed(path[r]) /\ ElementsOf(path[r]) \subseteq OpsOf(ns, since(r))
                      /\ Straight(r) => ElementsOf(path[r]) = OpsOf(ns, since(r))
           T == {k \in Nat : \A r \in all : r <= k => Good(r)}
<1>0. all \in SUBSET (1 .. Len(ns)) /\ Len(ns) \in Nat /\ all \subseteq DOMAIN ns
    BY StoreIsDag DEF Leading
<1>a. \A r \in all : from \in Ancestors(ns, r)
    BY DEF Leading, IsStore
<1>b. \A r \in all : r # from => next(r) \in all /\ next(r) \in ParentsOf(ns, r) /\ next(r) \in 1 .. (r - 1)
    BY NextBackLeads
<1>c. IsPath(ns, kept, from, all, path)
    BY PathExists
<1> HIDE DEF all, path, next
<1>d. \A r \in all : path[r] = IF r = from THEN <<>> ELSE path[next(r)] \o ns[r].ops
    BY <1>c DEF IsPath, next
<1>1. ASSUME NEW r \in all, r = from
      PROVE  Good(r)
  <2>1. path[r] = <<>>
      BY <1>1, <1>d
  <2>2. since(r) = {}
    <3> SUFFICES ASSUME NEW q \in since(r)
                 PROVE  FALSE
        OBVIOUS
    <3>1. q \in Ancestors(ns, r) /\ r \in Ancestors(ns, q) /\ q # r
        BY <1>1 DEF Since
    <3>2. q \in DOMAIN ns /\ r \in DOMAIN ns
        BY <1>0, <3>1 DEF Ancestors
    <3>3. q <= r /\ r <= q /\ q \in Nat /\ r \in Nat
        BY <3>1, <3>2, StoreIsDag, AncestorsNotNewer DEF AppendOrder
    <3>. QED
        BY <3>1, <3>3
  <2>3. OpsOf(ns, {}) = {}
      BY DEF OpsOf
  <2> HIDE DEF since
  <2>. QED
      BY <2>1, <2>2, <2>3, EmptyListed
<1>2. ASSUME NEW r \in all, r # from, Good(next(r))
      PROVE  Good(r)
  <2> DEFINE p == next(r)
  <2>1. path[r] = path[p] \o ns[r].ops /\ Listed(path[p]) /\ Listed(ns[r].ops)
      BY <1>0, <1>2, <1>d DEF IsStore
  <2>2. p \in all /\ p \in ParentsOf(ns, r) /\ p \in DOMAIN ns /\ r \in DOMAIN ns
      BY <1>0, <1>2, <1>b
  <2> HIDE DEF p
  <2>3. Listed(path[r]) /\ ElementsOf(path[r]) = ElementsOf(path[p]) \cup ElementsOf(ns[r].ops)
      BY <2>1, ListedConcat
  <2>4. \A x : x \in Ancestors(ns, r) <=> x = r \/ \E q \in ParentsOf(ns, r) : x \in Ancestors(ns, q)
      BY <2>2, StoreIsDag, AncestorsOfNode
  <2>5. r \in since(r) /\ since(p) \subseteq since(r)
      BY <1>2, <1>a, <2>2, <2>4 DEF Since
  <2>6. OpsOf(ns, since(p)) \cup ElementsOf(ns[r].ops) \subseteq OpsOf(ns, since(r))
      BY <2>5 DEF OpsOf
  <2>7. ASSUME Straight(r)
        PROVE  since(r) \subseteq since(p) \cup {r}
    <3> DEFINE parents == ns[r].parents
    <3>1. Len(parents) <= 1 /\ parents \in Seq(1 .. (r - 1))
        BY <2>2, <2>5, <2>7 DEF IsStore
    <3>2. \A i \in DOMAIN parents : i = 1
        BY <3>1
    <3>3. ParentsOf(ns, r) \subseteq {p}
      <4> HIDE DEF parents
      <4>. QED
          BY <2>2, <3>2 DEF ParentsOf, parents
    <3>. QED
        BY <2>4, <3>3 DEF Since
  <2>8. ASSUME Straight(r)
        PROVE  ElementsOf(path[r]) = OpsOf(ns, since(r))
    <3>1. Straight(p)
        BY <2>5, <2>8
    <3>2. ElementsOf(path[p]) = OpsOf(ns, since(p))
        BY <1>2, <3>1 DEF p
    <3>3. OpsOf(ns, since(r)) \subseteq OpsOf(ns, since(p)) \cup ElementsOf(ns[r].ops)
        BY <2>7, <2>8 DEF OpsOf
    <3> HIDE DEF since
    <3>. QED
        BY <2>3, <2>6, <3>2, <3>3
  <2>9. ElementsOf(path[p]) \subseteq OpsOf(ns, since(p))
      BY <1>2 DEF p
  <2> HIDE DEF Straight, since
  <2>. QED
      BY <2>3, <2>6, <2>8, <2>9
<1> HIDE DEF Good
<1>3. 0 \in T
    BY <1>0
<1>4. ASSUME NEW k \in Nat, k \in T
      PROVE  k + 1 \in T
  <2> SUFFICES ASSUME NEW r \in all, r <= k + 1
               PROVE  Good(r)
      OBVIOUS
  <2>1. CASE r = from
      BY <1>1, <2>1
  <2>2. CASE r # from
    <3>1. next(r) \in all /\ next(r) <= k
        BY <1>0, <1>b, <2>2
    <3>2. Good(next(r))
        BY <1>4, <3>1
    <3>. QED
        BY <1>2, <2>2, <3>2
  <2>. QED
      BY <2>1, <2>2
<1>5. Nat \subseteq T
  <2> HIDE DEF T
  <2>. QED
      BY <1>3, <1>4, SetInduction
<1>6. to \in all
    BY DEF all, Leading
<1>7. Good(to)
  <2>1. to \in Nat /\ to <= to
      BY <1>0, <1>6
  <2>. QED
      BY <1>5, <1>6, <2>1
<1>8. OperationsSince(ns, kept, from, to) = path[to]
    BY PathIsPath DEF path, all
<1>. QED
    BY <1>7, <1>8 DEF Good

----------------------------------------------------------------------------
(* Every replay that does not raise is explained by the operations of its   *)
(* history.                                                                 *)

\* What an operation of a migration comes after, in every replay.
Prior(ns, r, i) == OpsOf(ns, Ancestors(ns, r) \ {r}) \cup {ns[r].ops[j] : j \in 1 .. (i - 1)}

\* Every operation fits what comes before it in every replay.
Fitting(ns) == \A r \in DOMAIN ns : \A i \in DOMAIN ns[r].ops : Fits(Prior(ns, r, i), ns[r].ops[i])

\* No two operations make the same object.
CreatedOnce(ns) ==
  \A q, r \in DOMAIN ns : \A j \in DOMAIN ns[q].ops, i \in DOMAIN ns[r].ops :
    {ns[q].ops[j].type, ns[r].ops[i].type} \subseteq Creating /\ ns[q].ops[j].id = ns[r].ops[i].id
      => q = r /\ j = i

\* A store of which every migration was made on a schema of its parents'.
IsSound(ns, kept) == IsStore(ns, kept) /\ Fitting(ns) /\ CreatedOnce(ns)

\* An operation of a list.
LEMMA ElementOf ==
  ASSUME NEW ops, NEW i \in DOMAIN ops
  PROVE  ops[i] \in ElementsOf(ops)
  BY DEF ElementsOf

\* The operations of a history are sound.
LEMMA ClosedIsSound ==
  ASSUME NEW ns, NEW kept, IsSound(ns, kept), NEW D \in SUBSET DOMAIN ns, ParentClosed(ns, D)
  PROVE  Sound(OpsOf(ns, D))
<1> DEFINE ops == OpsOf(ns, D)
<1>1. ASSUME NEW o \in ops
      PROVE  Fits(ops, o)
  <2>1. PICK r \in D : o \in ElementsOf(ns[r].ops)
      BY DEF OpsOf
  <2>2. PICK i \in DOMAIN ns[r].ops : o = ns[r].ops[i]
      BY <2>1 DEF ElementsOf
  <2>3. Ancestors(ns, r) \subseteq D
      BY AncestorsLeast
  <2>4. Prior(ns, r, i) \subseteq ops
    <3>1. OpsOf(ns, Ancestors(ns, r) \ {r}) \subseteq ops
        BY <2>3 DEF OpsOf
    <3>2. \A j \in 1 .. (i - 1) : j \in DOMAIN ns[r].ops
      <4>1. Listed(ns[r].ops)
          BY DEF IsSound, IsStore
      <4>2. DOMAIN ns[r].ops = 1 .. Len(ns[r].ops) /\ Len(ns[r].ops) \in Nat
          BY <4>1, ListedPlaces
      <4>. QED
          BY <4>2
    <3>3. \A j \in 1 .. (i - 1) : ns[r].ops[j] \in ops
        BY <3>2 DEF OpsOf, ElementsOf
    <3> HIDE DEF ops
    <3>. QED
        BY <3>1, <3>3 DEF Prior
  <2>5. Fits(Prior(ns, r, i), o)
      BY <2>2 DEF IsSound, Fitting
  <2>. QED
      BY <2>4, <2>5, FitsMore
<1>2. \A x, y \in Created(ops) : x.id = y.id => x = y
  <2> SUFFICES ASSUME NEW x \in Created(ops), NEW y \in Created(ops), x.id = y.id
               PROVE  x = y
      OBVIOUS
  <2>1. PICK q \in D : x \in ElementsOf(ns[q].ops)
      BY DEF OpsOf, Created
  <2>2. PICK j \in DOMAIN ns[q].ops : x = ns[q].ops[j]
      BY <2>1 DEF ElementsOf
  <2>3. PICK r \in D : y \in ElementsOf(ns[r].ops)
      BY DEF OpsOf, Created
  <2>4. PICK i \in DOMAIN ns[r].ops : y = ns[r].ops[i]
      BY <2>3 DEF ElementsOf
  <2>5. x.type \in Creating /\ y.type \in Creating
      BY DEF Created
  <2>6. q = r /\ j = i
      BY <2>2, <2>4, <2>5 DEF IsSound, CreatedOnce
  <2>. QED
      BY <2>2, <2>4, <2>6
<1>. QED
    BY <1>1, <1>2 DEF Sound

\* One more revision, and the schema is explained still: operation by operation.
LEMMA VisitedExplained ==
  ASSUME NEW ns, NEW kept, IsSound(ns, kept), NEW D \in SUBSET DOMAIN ns, ParentClosed(ns, D),
         NEW r \in DOMAIN ns \ D, ParentsOf(ns, r) \subseteq D,
         NEW s, Explained(OpsOf(ns, D), s)
  PROVE  Explained(OpsOf(ns, D \cup {r}), Visited(ns, s, r))
<1> DEFINE ops == ns[r].ops
           n == Len(ops)
           So(k) == OpsOf(ns, D) \cup {ops[j] : j \in 1 .. k}
<1>1. n \in Nat /\ DOMAIN ops = 1 .. n
    BY ListedPlaces DEF IsSound, IsStore
<1> HIDE DEF n
<1>2. PICK round : /\ round[0] = s
                   /\ \A k \in Nat : k < n => round[k + 1] = Apply(round[k], ops[k + 1])
                   /\ round[n] = Seqs!FoldLeft(Apply, s, ops)
    BY <1>1, FoldByRounds
<1> DEFINE Good(k) == Sound(So(k)) /\ Explained(So(k), round[k])
           T == {k \in Nat : k <= n => Good(k)}
<1>3. Good(0)
  <2>1. So(0) = OpsOf(ns, D)
      OBVIOUS
  <2> HIDE DEF So
  <2>. QED
      BY <1>2, <2>1, ClosedIsSound
<1>4. ASSUME NEW k \in Nat, k < n, Good(k)
      PROVE  Good(k + 1)
  <2> DEFINE o == ops[k + 1]
  <2>1. k + 1 \in DOMAIN ops /\ (k + 1) - 1 = k
      BY <1>1, <1>4
  <2>2. So(k + 1) = So(k) \cup {o}
    <3>1. 1 .. (k + 1) = (1 .. k) \cup {k + 1}
        OBVIOUS
    <3>. QED
        BY <3>1
  <2>3. Fits(So(k), o)
    <3>1. Fits(Prior(ns, r, k + 1), o)
        BY <2>1 DEF IsSound, Fitting
    <3>2. Ancestors(ns, r) \ {r} \subseteq D
      <4>1. ParentClosed(ns, D \cup {r})
          BY DEF ParentClosed
      <4>2. Ancestors(ns, r) \subseteq D \cup {r}
          BY <4>1, AncestorsLeast
      <4>. QED
          BY <4>2
    <3>3. OpsOf(ns, Ancestors(ns, r) \ {r}) \subseteq OpsOf(ns, D)
        BY <3>2 DEF OpsOf
    <3>4. Prior(ns, r, k + 1) \subseteq So(k)
        BY <2>1, <3>3 DEF Prior
    <3>. QED
        BY <3>1, <3>4, FitsMore
  <2>4. ASSUME o.type \in Creating, NEW x \in Created(So(k))
        PROVE  x.id # o.id
    <3>1. x \in So(k) /\ x.type \in Creating
        BY DEF Created
    <3>2. CASE x \in OpsOf(ns, D)
      <4>1. PICK q \in D : x \in ElementsOf(ns[q].ops)
          BY <3>2 DEF OpsOf
      <4>2. PICK j \in DOMAIN ns[q].ops : x = ns[q].ops[j]
          BY <4>1 DEF ElementsOf
      <4>3. q \in DOMAIN ns /\ q # r
          OBVIOUS
      <4> HIDE DEF o
      <4>4. {ns[q].ops[j].type, ns[r].ops[k + 1].type} \subseteq Creating
          BY <2>4, <3>1, <4>2 DEF o
      <4>. QED
          BY <2>1, <4>2, <4>3, <4>4 DEF IsSound, CreatedOnce, o
    <3>3. CASE x \notin OpsOf(ns, D)
      <4>1. PICK j \in 1 .. k : x = ops[j]
          BY <3>1, <3>3
      <4>2. j \in DOMAIN ops /\ j # k + 1
          BY <1>1, <1>4
      <4>3. {ns[r].ops[j].type, ns[r].ops[k + 1].type} \subseteq Creating
          BY <2>4, <3>1, <4>1
      <4>. QED
          BY <2>1, <4>1, <4>2, <4>3 DEF IsSound, CreatedOnce
    <3>. QED
        BY <3>2, <3>3
  <2>5. round[k + 1] = Apply(round[k], o)
      BY <1>2, <1>4
  <2> HIDE DEF So, o
  <2>6. Sound(So(k) \cup {o})
      BY <1>4, <2>3, <2>4, SoundMore
  <2>7. Explained(So(k) \cup {o}, Apply(round[k], o))
      BY <1>4, <2>3, <2>4, ApplyExplained
  <2>. QED
      BY <2>2, <2>5, <2>6, <2>7
<1>5. Nat \subseteq T
  <2> HIDE DEF Good
  <2>1. \A k \in Nat : k + 1 <= n => k < n /\ k <= n
      BY <1>1
  <2>2. 0 \in T /\ \A k \in Nat : k \in T => k + 1 \in T
      BY <1>3, <1>4, <2>1
  <2> HIDE DEF T
  <2>. QED
      BY <2>2, SetInduction
<1>6. Good(n)
  <2> HIDE DEF Good
  <2>. QED
      BY <1>1, <1>5
<1>7. So(n) = OpsOf(ns, D \cup {r})
    BY <1>1 DEF OpsOf, ElementsOf
<1>. QED
    BY <1>2, <1>6, <1>7 DEF Visited

\* It is explained all along a replay.
LEMMA AfterExplained ==
  ASSUME NEW ns, NEW kept, IsSound(ns, kept), NEW history, IsHistory(ns, history)
  PROVE  \A n \in Nat : \A v \in After(ns, history)[n] : Explained(OpsOf(ns, v.done), v.schema)
<1> DEFINE after == After(ns, history)
           Good(n) == \A v \in after[n] : Explained(OpsOf(ns, v.done), v.schema)
           T == {n \in Nat : Good(n)}
<1>0. /\ after[0] = Beginning
      /\ \A n \in Nat : after[n + 1] = Longer(ns, history, after[n])
    BY AfterSteps
<1>a. \A n \in Nat : \A v \in after[n] : v.done \in SUBSET history /\ ParentClosed(ns, v.done)
    BY AfterDone
<1> HIDE DEF after
<1>1. Good(0)
  <2>1. EmptySchema = Fine([i \in {} |-> NoId])
      BY DEF EmptySchema, Fine
  <2>2. OpsOf(ns, {}) = {} /\ Left({}) = {}
      BY DEF OpsOf, Left, Created
  <2> DEFINE none == [i \in {} |-> NoId]
  <2>3. AreObjects(none) /\ DOMAIN none = {} /\ Traced({}, none)
      BY DEF AreObjects, IsFunction, Traced
  <2> HIDE DEF none
  <2>4. Explained({}, Fine(none))
      BY <2>2, <2>3, ExplainedFine
  <2>5. \A v \in Beginning : v.done = {} /\ v.schema = EmptySchema
      BY DEF Beginning
  <2>. QED
      BY <1>0, <2>1, <2>2, <2>4, <2>5 DEF none
<1>2. ASSUME NEW n \in Nat, Good(n)
      PROVE  Good(n + 1)
  <2> SUFFICES ASSUME NEW v \in after[n + 1]
               PROVE  Explained(OpsOf(ns, v.done), v.schema)
      OBVIOUS
  <2>1. PICK u \in after[n] : \E r \in CanVisit(ns, history, u.done) : v = Visit(ns, u, r)
      BY <1>0 DEF Longer
  <2> PICK r \in CanVisit(ns, history, u.done) : v = Visit(ns, u, r)
      BY <2>1
  <2>2. v.done = u.done \cup {r} /\ v.schema = Visited(ns, u.schema, r)
      BY DEF Visit
  <2>3. u.done \in SUBSET DOMAIN ns /\ ParentClosed(ns, u.done)
      BY <1>a DEF IsHistory
  <2>4. r \in DOMAIN ns \ u.done /\ ParentsOf(ns, r) \subseteq u.done
      BY DEF CanVisit, IsHistory
  <2>5. Explained(OpsOf(ns, u.done), u.schema)
      BY <1>2
  <2>. QED
      BY <2>2, <2>3, <2>4, <2>5, VisitedExplained
<1> HIDE DEF Good
<1>3. Nat \subseteq T
  <2>1. 0 \in T /\ \A n \in Nat : n \in T => n + 1 \in T
      BY <1>1, <1>2
  <2> HIDE DEF T
  <2>. QED
      BY <2>1, SetInduction
<1>. QED
    BY <1>3 DEF Good, after

\* The ancestors of a revision, as the store keeps them, can be replayed.
LEMMA StoredHistory ==
  ASSUME NEW ns, NEW kept, IsStore(ns, kept), NEW r \in DOMAIN ns
  PROVE  IsHistory(ns, kept[r]) /\ HasLists(ns, kept[r])
<1>1. kept[r] = Ancestors(ns, r)
    BY DEF IsStore
<1>2. kept[r] \in SUBSET DOMAIN ns /\ ParentClosed(ns, kept[r])
    BY <1>1, StoreIsDag, AncestorsClosed DEF Ancestors
<1>3. IsFiniteSet(DOMAIN ns)
    BY StoreIsDag, FS_Interval
<1>4. IsFiniteSet(kept[r])
    BY <1>2, <1>3, FS_Subset
<1>5. HasLists(ns, kept[r])
    BY <1>2 DEF IsStore, Listed, HasLists
<1>. QED
    BY <1>2, <1>4, <1>5, StoreIsDag DEF IsHistory

\* The last schemas of a replay have seen the whole history.
LEMMA LastVisitAll ==
  ASSUME NEW ns, NEW history, IsHistory(ns, history)
  PROVE  /\ Cardinality(history) \in Nat
         /\ \A v \in After(ns, history)[Cardinality(history)] : v.done = history
<1>1. Cardinality(history) \in Nat /\ IsFiniteSet(history)
    BY FS_CardinalityType DEF IsHistory
<1>2. \A v \in After(ns, history)[Cardinality(history)] :
        v.done \in SUBSET history /\ Cardinality(v.done) = Cardinality(history)
    BY <1>1, AfterDone
<1>. QED
    BY <1>1, <1>2, FS_Subset

\* Every replay of a head has the objects that were made and not dropped, each
\* as it was made.
LEMMA ReplaysExplained ==
  ASSUME NEW ns, NEW kept, IsSound(ns, kept), NEW r \in DOMAIN ns, NEW s \in Replays(ns, kept[r])
  PROVE  Explained(OpsOf(ns, kept[r]), s)
<1> DEFINE history == kept[r]
<1>1. IsHistory(ns, history)
    BY StoredHistory DEF IsSound
<1> HIDE DEF history
<1>2. s \in Replays(ns, history)
    BY DEF history
<1>3. PICK v \in After(ns, history)[Cardinality(history)] : s = v.schema
    BY <1>2, ReplaysAreLast
<1>4. v.done = history /\ Cardinality(history) \in Nat
    BY <1>1, LastVisitAll
<1>5. Explained(OpsOf(ns, v.done), v.schema)
    BY <1>1, <1>4, AfterExplained
<1>. QED
    BY <1>3, <1>4, <1>5 DEF history

----------------------------------------------------------------------------
(* DagStore.append.                                                         *)

\* A migration is appended: DagStore.append.
Past(kept, parents) == UNION {kept[parents[i]] : i \in DOMAIN parents}

\* One node more, and its ancestor set.
IsAppended(ns, kept, parents, b, ops, ms, more) ==
  /\ ms = Append(ns, Node(parents, b, ops))
  /\ more = Append(kept, {Len(ns) + 1} \cup Past(kept, parents))

\* What that does to a store.
HasGrown(ns, kept, parents, b, ops, ms, more) ==
  /\ Len(ns) \in Nat /\ DOMAIN ms = DOMAIN ns \cup {Len(ns) + 1}
  /\ Len(ns) + 1 \notin DOMAIN ns /\ Len(ms) = Len(ns) + 1
  /\ \A r \in DOMAIN ns : ms[r] = ns[r] /\ more[r] = kept[r]
  /\ ms[Len(ns) + 1] = Node(parents, b, ops)
  /\ more[Len(ns) + 1] = {Len(ns) + 1} \cup Past(kept, parents)
  /\ IsStore(ms, more) /\ Listed(more)
  /\ \A r \in DOMAIN ns : Ancestors(ms, r) = Ancestors(ns, r)
  /\ Ancestors(ms, Len(ns) + 1) = {Len(ns) + 1} \cup Past(kept, parents)

\* DagStore.append keeps a store a store, and what it held as it was.
LEMMA AppendStore ==
  ASSUME NEW ns, NEW kept, IsStore(ns, kept), Listed(kept),
         NEW parents, parents \in Seq(DOMAIN ns), NEW b, NEW ops, Listed(ops),
         NEW ms, NEW more, IsAppended(ns, kept, parents, b, ops, ms, more)
  PROVE  HasGrown(ns, kept, parents, b, ops, ms, more)
<1> DEFINE n == Len(ns)
           past == Past(kept, parents)
           node == Node(parents, b, ops)
           history == {n + 1} \cup past
<1>0. ms = Append(ns, node) /\ more = Append(kept, history)
    BY DEF IsAppended
<1>1. n \in Nat /\ DOMAIN ns = 1 .. n /\ ParentsStored(ns)
    BY StoreIsDag
<1>2. Listed(ns) /\ DOMAIN kept = DOMAIN ns /\ \A r \in DOMAIN ns : kept[r] = Ancestors(ns, r)
    BY DEF IsStore
<1>3. Len(kept) = n
  <2>1. Len(kept) \in Nat /\ DOMAIN kept = 1 .. Len(kept)
      BY ListedPlaces
  <2>. QED
      BY <1>1, <1>2, <2>1
<1>4. /\ Listed(ms) /\ Len(ms) = n + 1 /\ DOMAIN ms = DOMAIN ns \cup {n + 1}
      /\ \A r \in DOMAIN ns : ms[r] = ns[r]
      /\ ms[n + 1] = node
  <2> HIDE DEF node
  <2>. QED
      BY <1>0, <1>2, ListedAppend
<1>5. /\ Listed(more) /\ DOMAIN more = DOMAIN kept \cup {n + 1}
      /\ \A r \in DOMAIN kept : more[r] = kept[r]
      /\ more[n + 1] = history
  <2> HIDE DEF history
  <2>. QED
      BY <1>0, <1>2, <1>3, ListedAppend
<1>6. node.parents = parents /\ node.ops = ops
    BY DEF Node
<1> HIDE DEF node, history, past, n
<1>7. ParentsOf(ms, n + 1) = {parents[i] : i \in DOMAIN parents}
    BY <1>4, <1>6 DEF ParentsOf
<1>8. ParentsOf(ms, n + 1) \subseteq DOMAIN ns
    BY <1>7
<1>9. \A r \in DOMAIN ns : ParentsOf(ms, r) = ParentsOf(ns, r)
    BY <1>4 DEF ParentsOf
<1>10. ParentsStored(ms)
    BY <1>1, <1>4, <1>8, <1>9 DEF ParentsStored, ParentClosed
<1>11. Grown(ns, ms)
    BY <1>4 DEF Grown
<1>12. \A r \in DOMAIN ns : Ancestors(ms, r) = Ancestors(ns, r)
    BY <1>1, <1>10, <1>11, AncestorsStable
<1>13. Ancestors(ms, n + 1) = history
  <2>1. n + 1 \in DOMAIN ms
      BY <1>4
  <2>2. \A x : x \in Ancestors(ms, n + 1) <=>
                  x = n + 1 \/ \E p \in ParentsOf(ms, n + 1) : x \in Ancestors(ms, p)
      BY <1>10, <2>1, AncestorsOfNode
  <2>3. \A p \in ParentsOf(ms, n + 1) : Ancestors(ms, p) = kept[p]
      BY <1>2, <1>8, <1>12
  <2>. QED
      BY <1>7, <2>2, <2>3 DEF history, past, Past
<1>14. IsStore(ms, more)
  <2>1. \A r \in DOMAIN ms : more[r] = Ancestors(ms, r)
      BY <1>2, <1>4, <1>5, <1>12, <1>13
  <2>2. \A r \in DOMAIN ns : ms[r].parents \in Seq(1 .. (r - 1)) /\ Listed(ms[r].ops)
      BY <1>4 DEF IsStore
  <2>3. ms[n + 1].parents \in Seq(1 .. ((n + 1) - 1)) /\ Listed(ms[n + 1].ops)
    <3>1. (n + 1) - 1 = n
        BY <1>1
    <3>. QED
        BY <1>1, <1>4, <1>6, <3>1
  <2>. QED
      BY <1>2, <1>4, <1>5, <2>1, <2>2, <2>3 DEF IsStore
<1>15. n + 1 \notin DOMAIN ns
    BY <1>1
<1>. QED
    BY <1>1, <1>2, <1>4, <1>5, <1>12, <1>13, <1>14, <1>15 DEF node, history, past, n, HasGrown

\* A replay looks at nothing but its history.
LEMMA ReplaysStable ==
  ASSUME NEW ns, NEW ms, NEW history, IsFiniteSet(history), \A r \in history : ms[r] = ns[r]
  PROVE  Replays(ms, history) = Replays(ns, history)
<1> DEFINE T == {n \in Nat : After(ms, history)[n] = After(ns, history)[n]}
<1>1. \A v : \A r \in history : Visit(ms, v, r) = Visit(ns, v, r)
    BY DEF Visit, Visited
<1>2. \A done : CanVisit(ms, history, done) = CanVisit(ns, history, done)
    BY DEF CanVisit, ParentsOf
<1>3. \A replays : Longer(ms, history, replays) = Longer(ns, history, replays)
  <2>1. \A done : CanVisit(ns, history, done) \subseteq history
      BY DEF CanVisit
  <2> SUFFICES ASSUME NEW replays
               PROVE  Longer(ms, history, replays) = Longer(ns, history, replays)
      OBVIOUS
  <2> DEFINE A(v) == {Visit(ms, v, r) : r \in CanVisit(ms, history, v.done)}
             B(v) == {Visit(ns, v, r) : r \in CanVisit(ns, history, v.done)}
  <2>2. \A v : A(v) = B(v)
      BY <1>1, <1>2, <2>1
  <2>3. Longer(ms, history, replays) = UNION {A(v) : v \in replays}
      BY DEF Longer
  <2>4. Longer(ns, history, replays) = UNION {B(v) : v \in replays}
      BY DEF Longer
  <2> HIDE DEF A, B
  <2>5. {A(v) : v \in replays} = {B(v) : v \in replays}
      BY <2>2
  <2>. QED
      BY <2>3, <2>4, <2>5
<1>4. 0 \in T
    BY AfterSteps
<1>5. ASSUME NEW n \in Nat, n \in T
      PROVE  n + 1 \in T
    BY <1>3, <1>5, AfterSteps
<1>6. Nat \subseteq T
  <2> HIDE DEF T
  <2>. QED
      BY <1>4, <1>5, SetInduction
<1>. QED
    BY <1>6, ReplaysAreLast, FS_CardinalityType

\* What a migration or a merge node has to be for the store to stay sound.
Follows(ns, kept, parents, ops) ==
  \A i \in DOMAIN ops :
    /\ Fits(OpsOf(ns, Past(kept, parents)), ops[i])
    /\ ops[i].type \in Creating =>
         /\ DOMAIN ops = {i}
         /\ \A x \in Created(OpsOf(ns, DOMAIN ns)) : x.id # ops[i].id

\* If what is appended fits, the store stays sound.
LEMMA AppendSound ==
  ASSUME NEW ns, NEW kept, IsSound(ns, kept), Listed(kept),
         NEW parents, parents \in Seq(DOMAIN ns), NEW b, NEW ops, Listed(ops),
         NEW ms, NEW more, IsAppended(ns, kept, parents, b, ops, ms, more),
         Follows(ns, kept, parents, ops)
  PROVE  IsSound(ms, more)
<1> DEFINE n == Len(ns)
           past == Past(kept, parents)
<1>1. /\ n \in Nat /\ DOMAIN ms = DOMAIN ns \cup {n + 1} /\ n + 1 \notin DOMAIN ns
      /\ \A r \in DOMAIN ns : ms[r] = ns[r]
      /\ ms[n + 1] = Node(parents, b, ops)
      /\ IsStore(ms, more)
      /\ \A r \in DOMAIN ns : Ancestors(ms, r) = Ancestors(ns, r)
      /\ Ancestors(ms, n + 1) = {n + 1} \cup past
  <2>1. IsStore(ns, kept)
      BY DEF IsSound
  <2>2. HasGrown(ns, kept, parents, b, ops, ms, more)
    <3> HIDE DEF n, past
    <3>. QED
        BY <2>1, AppendStore
  <2>. QED
      BY <2>2 DEF HasGrown
<1>2. past \subseteq DOMAIN ns
  <2>1. \A i \in DOMAIN parents : parents[i] \in DOMAIN ns
      BY SeqElement
  <2>. QED
      BY <2>1 DEF IsSound, IsStore, Ancestors, Past
<1>3. ms[n + 1].ops = ops
    BY <1>1 DEF Node
<1> HIDE DEF n, past
<1>4. \A D \in SUBSET DOMAIN ns : OpsOf(ms, D) = OpsOf(ns, D)
    BY <1>1 DEF OpsOf
<1>5. Fitting(ms)
  <2> SUFFICES ASSUME NEW r \in DOMAIN ms, NEW i \in DOMAIN ms[r].ops
               PROVE  Fits(Prior(ms, r, i), ms[r].ops[i])
      BY DEF Fitting
  <2>1. CASE r \in DOMAIN ns
    <3>1. ms[r] = ns[r] /\ Ancestors(ms, r) = Ancestors(ns, r) /\ Ancestors(ns, r) \subseteq DOMAIN ns
        BY <1>1, <2>1 DEF Ancestors
    <3>2. OpsOf(ms, Ancestors(ns, r) \ {r}) = OpsOf(ns, Ancestors(ns, r) \ {r})
        BY <1>4, <3>1
    <3>3. Prior(ms, r, i) = Prior(ns, r, i)
        BY <3>1, <3>2 DEF Prior
    <3>. QED
        BY <2>1, <3>1, <3>3 DEF IsSound, Fitting
  <2>2. CASE r = n + 1
    <3>1. Ancestors(ms, r) \ {r} = past
        BY <1>1, <1>2, <2>2
    <3>2. OpsOf(ns, past) \subseteq Prior(ms, r, i)
        BY <1>2, <1>4, <3>1 DEF Prior
    <3>3. Fits(OpsOf(ns, past), ms[r].ops[i])
        BY <1>3, <2>2 DEF past, Follows
    <3>. QED
        BY <3>2, <3>3, FitsMore
  <2>. QED
      BY <1>1, <2>1, <2>2
<1>6. CreatedOnce(ms)
  <2> SUFFICES ASSUME NEW q \in DOMAIN ms, NEW r \in DOMAIN ms,
                      NEW j \in DOMAIN ms[q].ops, NEW i \in DOMAIN ms[r].ops,
                      {ms[q].ops[j].type, ms[r].ops[i].type} \subseteq Creating,
                      ms[q].ops[j].id = ms[r].ops[i].id
               PROVE  q = r /\ j = i
      BY DEF CreatedOnce
  <2>1. ASSUME NEW p \in DOMAIN ns, NEW k \in DOMAIN ns[p].ops, ns[p].ops[k].type \in Creating
        PROVE  ns[p].ops[k] \in Created(OpsOf(ns, DOMAIN ns))
      BY <2>1 DEF Created, OpsOf, ElementsOf
  <2>2. CASE q \in DOMAIN ns /\ r \in DOMAIN ns
      BY <1>1, <2>2 DEF IsSound, CreatedOnce
  <2>3. CASE q = n + 1 /\ r \in DOMAIN ns
      BY <1>1, <1>3, <2>1, <2>3 DEF Follows
  <2>4. CASE q \in DOMAIN ns /\ r = n + 1
    <3>1. ns[q].ops[j] \in Created(OpsOf(ns, DOMAIN ns)) /\ ms[q] = ns[q]
        BY <1>1, <2>1, <2>4
    <3>2. i \in DOMAIN ops /\ ops[i].type \in Creating /\ ops[i].id = ns[q].ops[j].id
        BY <1>3, <2>4, <3>1
    <3>. QED
        BY <3>1, <3>2 DEF Follows
  <2>5. CASE q = n + 1 /\ r = n + 1
      BY <1>3, <2>5 DEF Follows
  <2>. QED
      BY <1>1, <2>2, <2>3, <2>4, <2>5
<1>. QED
    BY <1>1, <1>5, <1>6 DEF IsSound

----------------------------------------------------------------------------
(* The state machine.                                                        *)

\* The store is sound, its schemas are the replays of its revisions, and the heads
\* are revisions of it.
StoreInv ==
  /\ IsSound(nodes, ancestors) /\ Listed(ancestors)
  /\ Listed(schemas) /\ DOMAIN schemas = DOMAIN nodes
  /\ \A r \in DOMAIN nodes : schemas[r] = Replays(nodes, ancestors[r]) /\ Len(nodes[r].parents) <= 2
  /\ heads \in [Side -> DOMAIN nodes]

\* A commit of what fits keeps it so.
LEMMA AppendKeepsStore ==
  ASSUME StoreInv, NEW b \in Side, NEW parents, parents \in Seq(DOMAIN nodes), Len(parents) <= 2,
         NEW ops, Listed(ops), Follows(nodes, ancestors, parents, ops),
         AppendNode(b, parents, ops)
  PROVE  StoreInv' /\ HasGrown(nodes, ancestors, parents, b, ops, nodes', ancestors')
<1>1. IsAppended(nodes, ancestors, parents, b, ops, nodes', ancestors')
    BY DEF AppendNode, IsAppended, Past
<1>2. IsSound(nodes, ancestors) /\ IsStore(nodes, ancestors) /\ Listed(ancestors)
    BY DEF StoreInv, IsSound
<1>3. HasGrown(nodes, ancestors, parents, b, ops, nodes', ancestors')
    BY <1>1, <1>2, AppendStore
<1>4. IsSound(nodes', ancestors')
    BY <1>1, <1>2, AppendSound
<1> DEFINE n == Len(nodes)
           history == {n + 1} \cup Past(ancestors, parents)
<1>5. /\ n \in Nat /\ DOMAIN nodes' = DOMAIN nodes \cup {n + 1} /\ n + 1 \notin DOMAIN nodes
      /\ \A r \in DOMAIN nodes : nodes'[r] = nodes[r] /\ ancestors'[r] = ancestors[r]
      /\ nodes'[n + 1] = Node(parents, b, ops) /\ ancestors'[n + 1] = history
      /\ Listed(ancestors')
    BY <1>3 DEF HasGrown
<1>6. heads' = [heads EXCEPT ![b] = n + 1] /\ schemas' = Append(schemas, Replays(nodes', history))
    BY DEF AppendNode, Past
<1>7. Len(schemas) = n /\ Listed(schemas) /\ DOMAIN schemas = DOMAIN nodes
  <2>1. DOMAIN nodes = 1 .. n
      BY <1>2, StoreIsDag
  <2>2. Len(schemas) \in Nat /\ DOMAIN schemas = 1 .. Len(schemas) /\ DOMAIN schemas = DOMAIN nodes
      BY ListedPlaces DEF StoreInv
  <2>. QED
      BY <1>5, <2>1, <2>2 DEF StoreInv
<1>8. /\ Listed(schemas') /\ DOMAIN schemas' = DOMAIN nodes \cup {n + 1}
      /\ \A r \in DOMAIN nodes : schemas'[r] = schemas[r]
      /\ schemas'[n + 1] = Replays(nodes', history)
  <2> DEFINE new == Replays(nodes', history)
  <2> HIDE DEF new, history
  <2>1. schemas' = Append(schemas, new)
      BY <1>6 DEF new
  <2>. QED
      BY <1>7, <2>1, ListedAppend DEF new
<1>9. heads' \in [Side -> DOMAIN nodes']
    BY <1>5, <1>6 DEF StoreInv
<1> HIDE DEF n, history
<1>10. \A r \in DOMAIN nodes' : Len(nodes'[r].parents) <= 2
  <2>1. nodes'[n + 1].parents = parents
      BY <1>5 DEF Node
  <2>. QED
      BY <1>5, <2>1 DEF StoreInv
<1>11. \A r \in DOMAIN nodes' : schemas'[r] = Replays(nodes', ancestors'[r])
  <2> SUFFICES ASSUME NEW r \in DOMAIN nodes'
               PROVE  schemas'[r] = Replays(nodes', ancestors'[r])
      OBVIOUS
  <2>1. CASE r = n + 1
      BY <1>5, <1>8, <2>1
  <2>2. CASE r \in DOMAIN nodes
    <3>1. IsFiniteSet(ancestors[r]) /\ ancestors[r] \subseteq DOMAIN nodes
        BY <1>2, <2>2, StoredHistory DEF IsHistory
    <3>2. \A q \in ancestors[r] : nodes'[q] = nodes[q]
        BY <1>5, <3>1
    <3>3. Replays(nodes', ancestors[r]) = Replays(nodes, ancestors[r])
        BY <3>1, <3>2, ReplaysStable
    <3>. QED
        BY <1>5, <1>8, <2>2, <3>3 DEF StoreInv
  <2>. QED
      BY <1>5, <2>1, <2>2
<1>. QED
    BY <1>3, <1>4, <1>5, <1>8, <1>9, <1>10, <1>11 DEF StoreInv

\* The id of a new object is on no operation of the store.
LEMMA FreshIsFresh ==
  ASSUME StoreInv
  PROVE  FreshId # NoId /\ \A o \in OpsOf(nodes, DOMAIN nodes) : o.id # FreshId
<1> DEFINE used == UNION {Touched(nodes[r].ops) : r \in DOMAIN nodes}
           k == Cardinality(used)
           lists == {Touched(nodes[r].ops) : r \in DOMAIN nodes}
<1>1. IsFiniteSet(used)
  <2>1. IsFiniteSet(DOMAIN nodes)
      BY StoreIsDag, FS_Interval DEF StoreInv, IsSound
  <2>2. ASSUME NEW r \in DOMAIN nodes
        PROVE  IsFiniteSet(Touched(nodes[r].ops))
    <3> DEFINE ops == nodes[r].ops
    <3>1. Listed(ops)
        BY DEF StoreInv, IsSound, IsStore
    <3>2. IsFiniteSet(ElementsOf(ops))
        BY <3>1, ListFinite
    <3> DEFINE E == ElementsOf(ops)
               f == [o \in E |-> o.id]
    <3>3. Touched(ops) = {f[o] : o \in E}
        BY DEF Touched
    <3> HIDE DEF ops, E, f
    <3>4. IsFiniteSet({f[o] : o \in E})
        BY <3>2, ImageFinite DEF E
    <3>. QED
        BY <3>3, <3>4 DEF ops
  <2> DEFINE D == DOMAIN nodes
             g == [r \in D |-> Touched(nodes[r].ops)]
  <2>3. lists = {g[r] : r \in D}
      OBVIOUS
  <2> HIDE DEF D, g
  <2>4. IsFiniteSet({g[r] : r \in D})
      BY <2>1, ImageFinite DEF D
  <2>5. \A X \in lists : IsFiniteSet(X)
      BY <2>2
  <2> HIDE DEF lists
  <2>6. IsFiniteSet(UNION lists)
      BY <2>3, <2>4, <2>5, FS_UNION
  <2>. QED
      BY <2>6 DEF lists
<1>2. k \in Nat
    BY <1>1, FS_CardinalityType
<1>3. \E i \in 1 .. (k + 1) : i \notin used
  <2> SUFFICES ASSUME 1 .. (k + 1) \subseteq used
               PROVE  FALSE
      OBVIOUS
  <2> HIDE DEF used
  <2>1. Cardinality(1 .. (k + 1)) <= Cardinality(used)
      BY <1>1, FS_Subset
  <2>2. Cardinality(1 .. (k + 1)) = k + 1
    <3> HIDE DEF k
    <3>. QED
        BY <1>2, FS_Interval
  <2>. QED
      BY <1>2, <2>1, <2>2
<1>4. FreshId \in 1 .. (k + 1) /\ FreshId \notin used
  <2>1. FreshId = CHOOSE i \in 1 .. (k + 1) : i \notin used
      BY DEF FreshId
  <2> HIDE DEF used, k
  <2>. QED
      BY <1>3, <2>1
<1>5. ASSUME NEW o \in OpsOf(nodes, DOMAIN nodes)
      PROVE  o.id \in used
    BY DEF OpsOf, Touched
<1> HIDE DEF k
<1>. QED
    BY <1>2, <1>4, <1>5 DEF NoId

----------------------------------------------------------------------------
(* What the verbs of migrate make fits the history it is made on.           *)

\* What a verb of migrate makes fits the history whose schema it was made on.
\* An object of the schema has been made as an object of its kind.
LEMMA ObjectWasMade ==
  ASSUME NEW ops, Sound(ops), NEW s, Explained(ops, s), ~s.broken, NEW kind, NEW i \in OfKind(s, kind)
  PROVE  /\ i # NoId
         /\ \E x \in ops : Makes(x, kind, i) /\ x.object.table = s.objects[i].table
<1>1. i \in DOMAIN s.objects /\ s.objects[i].kind = kind
    BY DEF OfKind
<1>2. Traced(ops, s.objects)
    BY DEF Explained
<1>3. PICK x \in Created(ops) : x.id = i /\ \A f \in Fixed : s.objects[i][f] = x.object[f]
    BY <1>1, <1>2 DEF Traced
<1>4. s.objects[i].kind = x.object.kind /\ s.objects[i].table = x.object.table
    BY <1>3 DEF Fixed
<1>5. x \in ops /\ x.type \in Creating /\ x.id # NoId
    BY DEF Created, Sound, Fits
<1>. QED
    BY <1>1, <1>3, <1>4, <1>5 DEF Makes

\* render.py and migrate: a new object is well placed in the schema.
LEMMA NewObjectFits ==
  ASSUME NEW s, NEW v \in Creating, NEW object \in NewObjects(s)[v], WellPlaced(s, object)
  PROVE  /\ object = [f \in DOMAIN object |-> object[f]]
         /\ object.kind = Made[v]
         /\ v = "CreateTable" => object.table = NoId /\ object.references = NoId /\ object.columns = {}
         /\ v # "CreateTable" => object.table \in Tables(s)
         /\ object.references \in Tables(s) \cup {NoId}
         /\ \A c \in object.columns : c \in OfKind(s, "column") /\ s.objects[c].table = object.table
<1>1. CASE v = "CreateTable"
  <2>1. PICK n \in Name : object = Object("table", NoId, n)
      BY <1>1 DEF NewObjects
  <2>. QED
      BY <1>1, <2>1 DEF Object, Made
<1>2. CASE v = "AddColumn"
  <2>1. PICK t \in Tables(s), n \in Name, y \in Type :
           object = [Object("column", t, n) EXCEPT !.type = y]
      BY <1>2 DEF NewObjects
  <2>2. object = [kind |-> "column", table |-> t, name |-> n, type |-> y, nullable |-> TRUE,
                  default |-> "", columns |-> {}, references |-> NoId]
      BY <2>1, Zenon DEF Object
  <2>. QED
      BY <1>2, <2>2 DEF Made
<1>3. CASE v = "AddIndex"
  <2>1. PICK t \in Tables(s), n \in Name, c \in OfKind(s, "column") :
           object = [Object("index", t, n) EXCEPT !.columns = {c}]
      BY <1>3 DEF NewObjects
  <2>2. object = [kind |-> "index", table |-> t, name |-> n, type |-> "", nullable |-> TRUE,
                  default |-> "", columns |-> {c}, references |-> NoId]
      BY <2>1 DEF Object
  <2>3. s.objects[c].table = object.table
      BY <2>2 DEF WellPlaced
  <2>. QED
      BY <1>3, <2>2, <2>3 DEF Made
<1>4. CASE v = "AddConstraint"
  <2>1. PICK t \in Tables(s), c \in OfKind(s, "column"), u \in Tables(s) : object = ForeignKey(t, c, u)
      BY <1>4 DEF NewObjects
  <2>2. object = [kind |-> "constraint", table |-> t, name |-> "", type |-> "", nullable |-> TRUE,
                  default |-> "", columns |-> {c}, references |-> u]
      BY <2>1 DEF Object, ForeignKey
  <2>3. s.objects[c].table = object.table
      BY <2>2 DEF WellPlaced
  <2>. QED
      BY <1>4, <2>2, <2>3 DEF Made
<1>. QED
    BY <1>1, <1>2, <1>3, <1>4 DEF Creating

\* A verb of migrate, run on a schema, makes an operation that fits what explains
\* the schema.
LEMMA AuthoredFits ==
  ASSUME NEW ops, Sound(ops), NEW s, Explained(ops, s), ~s.broken,
         NEW id, id # NoId, NEW o \in Authored(s, id)
  PROVE  Fits(ops, o) /\ (o.type \in Creating => o.id = id)
<1>1. CASE o \in UNION {{[type |-> v, id |-> id, object |-> x] :
                          x \in {x \in NewObjects(s)[v] : WellPlaced(s, x)}} : v \in Verb \cap Creating}
  <2>1. PICK v, x :
           /\ v \in Creating /\ x \in NewObjects(s)[v] /\ WellPlaced(s, x)
           /\ o = [type |-> v, id |-> id, object |-> x]
      BY <1>1
  <2>2. o.type = v /\ o.id = id /\ o.object = x
      BY <2>1
  <2>3. /\ x = [f \in DOMAIN x |-> x[f]] /\ x.kind = Made[v]
        /\ v = "CreateTable" => x.table = NoId /\ x.references = NoId /\ x.columns = {}
        /\ v # "CreateTable" => x.table \in Tables(s)
        /\ x.references \in Tables(s) \cup {NoId}
        /\ \A c \in x.columns : c \in OfKind(s, "column") /\ s.objects[c].table = x.table
      BY <2>1, NewObjectFits
  <2>4. \A t \in Tables(s) : t # NoId /\ \E y \in ops : Makes(y, "table", t)
      BY ObjectWasMade DEF Tables
  <2>5. \A t \in {x.table, x.references} \ {NoId} : \E y \in ops : Makes(y, "table", t)
      BY <2>3, <2>4
  <2>6. \A c \in x.columns : \E y \in ops : Makes(y, "column", c) /\ y.object.table = x.table
    <3> SUFFICES ASSUME NEW c \in x.columns
                 PROVE  \E y \in ops : Makes(y, "column", c) /\ y.object.table = x.table
        OBVIOUS
    <3>1. c \in OfKind(s, "column") /\ s.objects[c].table = x.table
        BY <2>3
    <3>2. \E y \in ops : Makes(y, "column", c) /\ y.object.table = s.objects[c].table
        BY <3>1, ObjectWasMade
    <3>. QED
        BY <3>1, <3>2
  <2>7. x.table = NoId <=> v = "CreateTable"
      BY <2>3, <2>4
  <2>8. v \in Creating /\ v \in Variants
      BY <2>1 DEF Variants
  <2>. QED
      BY <2>2, <2>3, <2>5, <2>6, <2>7, <2>8 DEF Fits
<1>2. ASSUME NEW v \in Destructive \cup DOMAIN SetField, NEW i \in OfKind(s, KindOf[v]),
             o.type = v, o.id = i
      PROVE  Fits(ops, o) /\ o.type \notin Creating
  <2>1. v \notin Creating /\ v \in Variants
      BY DEF Destructive, SetField, MutationField, Creating, Variants
  <2>2. i # NoId /\ \E x \in ops : Makes(x, KindOf[v], i)
      BY ObjectWasMade
  <2>. QED
      BY <1>2, <2>1, <2>2 DEF Fits
<1>3. CASE o \in UNION {{[type |-> v, id |-> i] : i \in OfKind(s, KindOf[v])} : v \in Verb \cap Destructive}
  <2>1. PICK v \in Destructive : \E i \in OfKind(s, KindOf[v]) : o = [type |-> v, id |-> i]
      BY <1>3
  <2>. QED
      BY <1>2, <2>1
<1>4. CASE o \in UNION {{[type |-> v, id |-> i, old |-> s.objects[i][SetField[v]], value |-> x] :
                            i \in OfKind(s, KindOf[v]), x \in ValuesOf(v)} :
                  v \in Verb \cap DOMAIN SetField}
  <2>1. PICK v \in DOMAIN SetField : \E i \in OfKind(s, KindOf[v]), x \in ValuesOf(v) :
               o = [type |-> v, id |-> i, old |-> s.objects[i][SetField[v]], value |-> x]
      BY <1>4
  <2>. QED
      BY <1>2, <2>1
<1>. QED
    BY <1>1, <1>3, <1>4 DEF Authored

\* The history of a revision, and its schemas.
LEMMA HeadHistory ==
  ASSUME StoreInv, NEW r \in DOMAIN nodes
  PROVE  /\ ancestors[r] = Ancestors(nodes, r) /\ ancestors[r] \in SUBSET DOMAIN nodes
         /\ ParentClosed(nodes, ancestors[r]) /\ r \in ancestors[r]
         /\ Sound(OpsOf(nodes, ancestors[r]))
         /\ \A s \in schemas[r] : Explained(OpsOf(nodes, ancestors[r]), s)
<1>1. IsSound(nodes, ancestors) /\ IsStore(nodes, ancestors)
    BY DEF StoreInv, IsSound
<1>2. IsHistory(nodes, ancestors[r])
    BY <1>1, StoredHistory
<1>3. ancestors[r] \in SUBSET DOMAIN nodes /\ ParentClosed(nodes, ancestors[r])
    BY <1>2 DEF IsHistory
<1>4. Sound(OpsOf(nodes, ancestors[r]))
    BY <1>1, <1>3, ClosedIsSound
<1>5. ancestors[r] = Ancestors(nodes, r) /\ r \in ancestors[r]
    BY <1>1, AncestorsSelf DEF IsStore
<1>6. \A s \in schemas[r] : Explained(OpsOf(nodes, ancestors[r]), s)
    BY <1>1, ReplaysExplained DEF StoreInv
<1>. QED
    BY <1>3, <1>4, <1>5, <1>6

\* So a migration keeps the store sound.
LEMMA MigrationFollows ==
  ASSUME StoreInv, NEW h \in DOMAIN nodes, NEW s \in schemas[h], ~s.broken,
         NEW o \in Authored(s, FreshId)
  PROVE  Follows(nodes, ancestors, <<h>>, <<o>>)
<1>1. Past(ancestors, <<h>>) = ancestors[h]
    BY DEF Past
<1>2. Fits(OpsOf(nodes, ancestors[h]), o) /\ (o.type \in Creating => o.id = FreshId)
    BY HeadHistory, FreshIsFresh, AuthoredFits
<1>3. \A x \in Created(OpsOf(nodes, DOMAIN nodes)) : x.id # FreshId
    BY FreshIsFresh DEF Created
<1>4. DOMAIN <<o>> = {1} /\ <<o>>[1] = o
    OBVIOUS
<1>. QED
    BY <1>1, <1>2, <1>3, <1>4 DEF Follows

----------------------------------------------------------------------------
(* What a merge node holds.                                                  *)

\* What operations_between collects on one side.
OfSide(ns, base, r, ops) ==
  /\ Listed(ops) /\ ElementsOf(ops) \subseteq OpsOf(ns, Since(ns, base, r))
  /\ (\A q \in Since(ns, base, r) : Len(ns[q].parents) <= 1)
       => ElementsOf(ops) = OpsOf(ns, Since(ns, base, r))

\* Two revisions and what the merge sees of them.
IsMerge(ns, base, a, b, opsA, opsB) ==
  /\ a \in DOMAIN ns /\ b \in DOMAIN ns /\ a # b /\ MergeBases(ns, a, b) = {base}
  /\ OfSide(ns, base, a, opsA) /\ OfSide(ns, base, b, opsB)

\* The same merge, seen from the other side.
LEMMA MergeTurned ==
  ASSUME NEW ns, NEW base, NEW a, NEW b, NEW opsA, NEW opsB, IsMerge(ns, base, a, b, opsA, opsB)
  PROVE  IsMerge(ns, base, b, a, opsB, opsA)
<1>1. CommonAncestors(ns, b, a) = CommonAncestors(ns, a, b)
    BY DEF CommonAncestors
<1>2. a # b /\ b # a
    BY DEF IsMerge
<1>3. MergeBases(ns, b, a) = MergeBases(ns, a, b)
    BY <1>1, <1>2 DEF MergeBases
<1>. QED
    BY <1>2, <1>3 DEF IsMerge

\* What both sides have, their merge base has.
LEMMA SinceApart ==
  ASSUME NEW ns, NEW kept, IsStore(ns, kept), NEW base, NEW a, NEW b, NEW opsA, NEW opsB,
         IsMerge(ns, base, a, b, opsA, opsB)
  PROVE  /\ base \in DOMAIN ns /\ base \in Ancestors(ns, a) /\ base \in Ancestors(ns, b)
         /\ Ancestors(ns, a) \cap Ancestors(ns, b) \subseteq Ancestors(ns, base)
         /\ Since(ns, base, a) \cap Ancestors(ns, base) = {}
         /\ Since(ns, base, a) \cap Ancestors(ns, b) = {}
<1>1. ParentsStored(ns) /\ AppendOrder(ns) /\ DOMAIN ns = 1 .. Len(ns) /\ Len(ns) \in Nat
    BY StoreIsDag
<1>2. base \in CommonAncestors(ns, a, b) /\ CommonAncestors(ns, a, b) \subseteq Ancestors(ns, base)
    BY <1>1, OneMergeBaseHasAll DEF IsMerge
<1>3. base \in DOMAIN ns
    BY <1>2 DEF CommonAncestors, Ancestors
<1>4. ASSUME NEW q \in Since(ns, base, a), q \in Ancestors(ns, base)
      PROVE  FALSE
  <2>1. q \in DOMAIN ns /\ q # base /\ base \in Ancestors(ns, q)
      BY DEF Since, Ancestors
  <2>2. q <= base /\ base <= q
      BY <1>1, <1>3, <1>4, <2>1, AncestorsNotNewer
  <2>. QED
      BY <1>1, <1>3, <2>1, <2>2
<1>5. Since(ns, base, a) \subseteq Ancestors(ns, a)
    BY DEF Since
<1>. QED
    BY <1>2, <1>3, <1>4, <1>5 DEF CommonAncestors

\* What one side made is unknown to the other.
LEMMA MadeOnOneSide ==
  ASSUME NEW ns, NEW kept, IsSound(ns, kept), NEW base, NEW a, NEW b, NEW opsA, NEW opsB,
         IsMerge(ns, base, a, b, opsA, opsB),
         NEW x \in ElementsOf(opsA), x.type \in Creating,
         NEW y \in OpsOf(ns, Ancestors(ns, b))
  PROVE  x.id # y.id
<1> SUFFICES ASSUME x.id = y.id
             PROVE  FALSE
    OBVIOUS
<1>1. IsStore(ns, kept) /\ ParentsStored(ns) /\ b \in DOMAIN ns
    BY StoreIsDag DEF IsSound, IsMerge
<1>2. Sound(OpsOf(ns, Ancestors(ns, b)))
  <2>1. Ancestors(ns, b) \in SUBSET DOMAIN ns /\ ParentClosed(ns, Ancestors(ns, b))
      BY <1>1, AncestorsClosed DEF Ancestors
  <2>. QED
      BY <2>1, ClosedIsSound
<1>3. PICK z \in Created(OpsOf(ns, Ancestors(ns, b))) : z.id = y.id
  <2>1. CASE y.type \in Creating
      BY <2>1 DEF Created
  <2>2. CASE y.type \notin Creating
    <3>1. Fits(OpsOf(ns, Ancestors(ns, b)), y)
        BY <1>2 DEF Sound
    <3>. QED
        BY <1>2, <2>2, <3>1, SoundTables
  <2>. QED
      BY <2>1, <2>2
<1>4. PICK q \in Since(ns, base, a) : x \in ElementsOf(ns[q].ops)
    BY DEF IsMerge, OfSide, OpsOf
<1>5. PICK j \in DOMAIN ns[q].ops : x = ns[q].ops[j]
    BY <1>4 DEF ElementsOf
<1>6. z \in OpsOf(ns, Ancestors(ns, b)) /\ z.type \in Creating
    BY DEF Created
<1>7. PICK r \in Ancestors(ns, b) : z \in ElementsOf(ns[r].ops)
    BY <1>6 DEF OpsOf
<1>8. PICK i \in DOMAIN ns[r].ops : z = ns[r].ops[i]
    BY <1>7 DEF ElementsOf
<1>9. q \in DOMAIN ns /\ r \in DOMAIN ns
    BY DEF Since, Ancestors
<1>10. CreatedOnce(ns)
    BY DEF IsSound
<1>11. ns[q].ops[j].type \in Creating /\ ns[r].ops[i].type \in Creating /\ ns[q].ops[j].id = ns[r].ops[i].id
    BY <1>3, <1>5, <1>6, <1>8
<1>12. q = r
    BY <1>9, <1>10, <1>11 DEF CreatedOnce
<1>13. Since(ns, base, a) \cap Ancestors(ns, b) = {}
    BY <1>1, SinceApart
<1>. QED
    BY <1>12, <1>13

\* The operations of both sides are of the merged history.
LEMMA SidesFit ==
  ASSUME NEW ns, NEW kept, IsSound(ns, kept), NEW base, NEW a, NEW b, NEW opsA, NEW opsB,
         IsMerge(ns, base, a, b, opsA, opsB)
  PROVE  LET before == OpsOf(ns, Past(kept, <<a, b>>))
         IN  /\ Past(kept, <<a, b>>) = Ancestors(ns, a) \cup Ancestors(ns, b)
             /\ ElementsOf(opsA) \cup ElementsOf(opsB) \subseteq before
             /\ Sound(before)
<1> DEFINE past == Past(kept, <<a, b>>)
<1>1. IsStore(ns, kept) /\ ParentsStored(ns) /\ a \in DOMAIN ns /\ b \in DOMAIN ns
    BY StoreIsDag DEF IsSound, IsMerge
<1>2. past = Ancestors(ns, a) \cup Ancestors(ns, b)
  <2>1. past = kept[a] \cup kept[b]
      BY DEF Past
  <2>. QED
      BY <1>1, <2>1 DEF IsStore
<1>3. past \in SUBSET DOMAIN ns /\ ParentClosed(ns, past)
  <2>1. ParentClosed(ns, Ancestors(ns, a)) /\ ParentClosed(ns, Ancestors(ns, b))
      BY <1>1, AncestorsClosed
  <2>2. past \in SUBSET DOMAIN ns
      BY <1>2 DEF Ancestors
  <2> HIDE DEF past
  <2>. QED
      BY <1>2, <2>1, <2>2 DEF ParentClosed
<1>4. Since(ns, base, a) \subseteq past /\ Since(ns, base, b) \subseteq past
    BY <1>2 DEF Since
<1> HIDE DEF past
<1>5. OpsOf(ns, Since(ns, base, a)) \subseteq OpsOf(ns, past) /\ OpsOf(ns, Since(ns, base, b)) \subseteq OpsOf(ns, past)
    BY <1>4 DEF OpsOf
<1>6. Sound(OpsOf(ns, past))
    BY <1>3, ClosedIsSound
<1>7. ElementsOf(opsA) \cup ElementsOf(opsB) \subseteq OpsOf(ns, past)
    BY <1>5 DEF IsMerge, OfSide
<1>. QED
    BY <1>2, <1>6, <1>7 DEF past

\* An operation that the cross-object pass reports, or an addition that loses
\* its name, is undone by a drop of its kind.
LEMMA CorrectiveFits ==
  ASSUME NEW before, Sound(before), NEW opsA, NEW opsB,
         ElementsOf(opsA) \cup ElementsOf(opsB) \subseteq before,
         NEW o \in Correctives(opsA, opsB)
  PROVE  /\ Fits(before, o) /\ o.type \in Destructive /\ o.type # "DropTable"
         /\ \E x \in CrossObject(opsA, opsB) :
              o.id = x.id /\ x \in Created(before) /\ x.type # "CreateTable"
<1>1. PICK x \in CrossObject(opsA, opsB) : o = CorrectiveDrop(x)
    BY DEF Correctives
<1>2. x \in before /\ x.type \in {"AddColumn", "AddIndex", "AddConstraint"}
    BY CrossObjectIs DEF Referenced
<1>3. x.type \in Creating /\ x.object.kind = Made[x.type] /\ Fits(before, x) /\ x.id # NoId
  <2>1. Fits(before, x)
      BY <1>2 DEF Sound
  <2>2. x.type \in Creating
      BY <1>2 DEF Creating
  <2>. QED
      BY <2>1, <2>2 DEF Fits
<1>4. o.type = [AddColumn |-> "DropColumn", AddIndex |-> "DropIndex",
                AddConstraint |-> "DropConstraint"][x.type] /\ o.id = x.id
    BY <1>1 DEF CorrectiveDrop
<1>5. o.type \in {"DropColumn", "DropIndex", "DropConstraint"} /\ KindOf[o.type] = x.object.kind
  <2>1. CASE x.type = "AddColumn"
      BY <1>3, <1>4, <2>1 DEF KindOf, Made
  <2>2. CASE x.type = "AddIndex"
      BY <1>3, <1>4, <2>2 DEF KindOf, Made
  <2>3. CASE x.type = "AddConstraint"
      BY <1>3, <1>4, <2>3 DEF KindOf, Made
  <2>. QED
      BY <1>2, <2>1, <2>2, <2>3
<1>6. o.type \in Destructive /\ o.type \notin Creating /\ o.type \in Variants /\ o.type # "DropTable"
    BY <1>5 DEF Destructive, Creating, Variants
<1>7. Makes(x, KindOf[o.type], o.id)
    BY <1>3, <1>4, <1>5 DEF Makes
<1>. QED
    BY <1>2, <1>3, <1>4, <1>6, <1>7 DEF Fits, Created

\* An addition that loses its name is dropped by an operation of its kind.
LEMMA UnnamedFits ==
  ASSUME NEW before, Sound(before), NEW opsA, Listed(opsA), NEW opsB, Listed(opsB),
         ElementsOf(opsA) \cup ElementsOf(opsB) \subseteq before,
         NEW o \in Unnamed(opsA, opsB)
  PROVE  /\ Fits(before, o) /\ o.type \in Destructive /\ o.type # "DropTable"
         /\ \E c \in Collisions(opsA, opsB) : o.id = c.dropped
         /\ \E x \in Created(before) : o.id = x.id /\ x.type # "CreateTable"
<1>1. PICK c \in Collisions(opsA, opsB) : o = [type |-> "DropColumn", id |-> c.dropped]
    BY DEF Unnamed
<1>2. PICK key \in ColumnKeys(opsA) \cap ColumnKeys(opsB) :
         c \in {[kept |-> opsA[FirstAdd(opsA, key)].id, dropped |-> opsB[FirstAdd(opsB, key)].id],
                [kept |-> opsB[FirstAdd(opsB, key)].id, dropped |-> opsA[FirstAdd(opsA, key)].id]}
    BY DEF Collisions
<1>3. /\ FirstAdd(opsA, key) \in DOMAIN opsA /\ opsA[FirstAdd(opsA, key)].type = "AddColumn"
      /\ FirstAdd(opsB, key) \in DOMAIN opsB /\ opsB[FirstAdd(opsB, key)].type = "AddColumn"
  <2>1. ASSUME NEW ops, Listed(ops), key \in ColumnKeys(ops)
        PROVE  FirstAdd(ops, key) \in DOMAIN ops /\ ops[FirstAdd(ops, key)].type = "AddColumn"
    <3> DEFINE S == ElementsOf(ops)
    <3>1. ops \in Seq(S)
        BY <2>1 DEF Listed
    <3> HIDE DEF S
    <3>. QED
        BY <2>1, <3>1, FirstAddPlace
  <2>. QED
      BY <2>1
<1>4. PICK x \in ElementsOf(opsA) \cup ElementsOf(opsB) : x.type = "AddColumn" /\ x.id = c.dropped
    BY <1>2, <1>3 DEF ElementsOf
<1>5. x \in before /\ x.type \in Creating /\ Fits(before, x)
    BY <1>4 DEF Creating, Sound
<1>6. x.object.kind = Made[x.type] /\ x.id # NoId
    BY <1>5 DEF Fits
<1>7. Makes(x, "column", o.id)
    BY <1>1, <1>4, <1>5, <1>6 DEF Makes, Made
<1>8. o.type = "DropColumn" /\ o.id = c.dropped /\ KindOf[o.type] = "column"
    BY <1>1 DEF KindOf
<1>9. o.type \in Destructive /\ o.type \notin Creating /\ o.type \in Variants /\ o.type # "DropTable"
    BY <1>8 DEF Destructive, Creating, Variants
<1>. QED
    BY <1>4, <1>5, <1>6, <1>7, <1>8, <1>9 DEF Fits, Created

----------------------------------------------------------------------------
(* The inductive invariant, and the steps that keep it.                     *)

\* The store has grown, the merge is as it was.
LEMMA IsMergeStable ==
  ASSUME NEW ns, NEW kept, IsStore(ns, kept), NEW ms,
         \A r \in DOMAIN ns : ms[r] = ns[r] /\ Ancestors(ms, r) = Ancestors(ns, r),
         DOMAIN ns \subseteq DOMAIN ms,
         NEW base, NEW a, NEW b, NEW opsA, NEW opsB, IsMerge(ns, base, a, b, opsA, opsB)
  PROVE  IsMerge(ms, base, a, b, opsA, opsB)
<1>1. a \in DOMAIN ns /\ b \in DOMAIN ns /\ a # b /\ base \in DOMAIN ns
    BY SinceApart DEF IsMerge
<1>2. \A r \in DOMAIN ns : Ancestors(ns, r) \subseteq DOMAIN ns
    BY DEF Ancestors
<1>3. CommonAncestors(ms, a, b) = CommonAncestors(ns, a, b) /\ CommonAncestors(ns, a, b) \subseteq DOMAIN ns
    BY <1>1, <1>2 DEF CommonAncestors
<1>4. MergeBases(ms, a, b) = MergeBases(ns, a, b)
    BY <1>1, <1>3 DEF MergeBases
<1>5. ASSUME NEW r \in DOMAIN ns
      PROVE  Since(ms, base, r) = Since(ns, base, r) /\ Since(ns, base, r) \subseteq DOMAIN ns
    BY <1>2 DEF Since
<1>6. ASSUME NEW D \in SUBSET DOMAIN ns
      PROVE  OpsOf(ms, D) = OpsOf(ns, D)
    BY DEF OpsOf
<1>7. ASSUME NEW r \in DOMAIN ns, NEW ops, OfSide(ns, base, r, ops)
      PROVE  OfSide(ms, base, r, ops)
  <2>1. Since(ms, base, r) = Since(ns, base, r) /\ OpsOf(ms, Since(ns, base, r)) = OpsOf(ns, Since(ns, base, r))
      BY <1>5, <1>6
  <2>2. \A q \in Since(ns, base, r) : ms[q] = ns[q]
      BY <1>5
  <2>. QED
      BY <1>7, <2>1, <2>2 DEF OfSide
<1>. QED
    BY <1>1, <1>4, <1>7 DEF IsMerge

\* The answers choose operations of the two sides, none of which creates.
LEMMA ResolvedFits ==
  ASSUME NEW ns, NEW kept, IsSound(ns, kept), NEW base, NEW a, NEW b, NEW opsA, NEW opsB,
         IsMerge(ns, base, a, b, opsA, opsB),
         NEW answers, DOMAIN answers \subseteq Asked(opsA, opsB),
         NEW o \in Resolved(opsA, opsB, answers)
  PROVE  o.type \notin Creating /\ Fits(OpsOf(ns, Past(kept, <<a, b>>)), o)
         /\ o \in ElementsOf(opsA) \cup ElementsOf(opsB)
<1>0. Listed(opsA) /\ Listed(opsB)
    BY DEF IsMerge, OfSide
<1>1. /\ o \in ElementsOf(opsA) \cup ElementsOf(opsB)
      /\ o.id \in Touched(opsA) \cap Touched(opsB)
    BY <1>0, ResolvedAreOfSides
<1>2. Fits(OpsOf(ns, Past(kept, <<a, b>>)), o)
  <2> DEFINE before == OpsOf(ns, Past(kept, <<a, b>>))
  <2>1. Sound(before) /\ ElementsOf(opsA) \cup ElementsOf(opsB) \subseteq before
      BY SidesFit
  <2>. QED
      BY <1>1, <2>1 DEF Sound
<1>3. IsStore(ns, kept)
    BY DEF IsSound
<1>4. /\ ElementsOf(opsA) \subseteq OpsOf(ns, Ancestors(ns, a))
      /\ ElementsOf(opsB) \subseteq OpsOf(ns, Ancestors(ns, b))
    BY DEF IsMerge, OfSide, OpsOf, Since
<1>5. PICK x \in ElementsOf(opsA) : x.id = o.id
    BY <1>1 DEF Touched
<1>6. PICK y \in ElementsOf(opsB) : y.id = o.id
    BY <1>1 DEF Touched
<1>7. IsMerge(ns, base, b, a, opsB, opsA)
    BY MergeTurned
<1>8. CASE o \in ElementsOf(opsA)
    BY <1>2, <1>4, <1>6, <1>8, MadeOnOneSide
<1>9. CASE o \in ElementsOf(opsB)
    BY <1>2, <1>4, <1>5, <1>7, <1>9, MadeOnOneSide
<1>. QED
    BY <1>1, <1>8, <1>9

\* So a merge node keeps the store sound.
LEMMA MergeFollows ==
  ASSUME NEW ns, NEW kept, IsSound(ns, kept), NEW base, NEW a, NEW b, NEW opsA, NEW opsB,
         IsMerge(ns, base, a, b, opsA, opsB),
         NEW answers, DOMAIN answers = Asked(opsA, opsB)
  PROVE  LET ops == MergeOps(opsA, opsB, answers)
         IN  /\ Listed(ops) /\ Follows(ns, kept, <<a, b>>, ops)
             /\ ElementsOf(ops) = Resolved(opsA, opsB, answers)
                  \cup Correctives(opsA, opsB) \cup Unnamed(opsA, opsB)
<1> DEFINE ops == MergeOps(opsA, opsB, answers)
           before == OpsOf(ns, Past(kept, <<a, b>>))
<1>1. Listed(opsA) /\ Listed(opsB)
    BY DEF IsMerge, OfSide
<1>2. IsFiniteSet(DOMAIN answers)
  <2>1. Asked(opsA, opsB) \subseteq Touched(opsA)
      BY DEF Asked
  <2>. QED
      BY <1>1, <2>1, ListFinite, FS_Subset
<1>3. /\ Listed(ops)
      /\ ElementsOf(ops) = Resolved(opsA, opsB, answers)
           \cup Correctives(opsA, opsB) \cup Unnamed(opsA, opsB)
    BY <1>1, <1>2, MergeOpsListed
<1>4. Sound(before) /\ ElementsOf(opsA) \cup ElementsOf(opsB) \subseteq before
    BY SidesFit
<1> HIDE DEF ops
<1>5. ASSUME NEW o \in ElementsOf(ops)
      PROVE  Fits(before, o) /\ o.type \notin Creating
  <2>1. CASE o \in Resolved(opsA, opsB, answers)
      BY <2>1, ResolvedFits
  <2>0. o.type \in Destructive => o.type \notin Creating
      BY DEF Destructive, Creating
  <2> HIDE DEF before
  <2>2. CASE o \in Correctives(opsA, opsB)
      BY <1>4, <2>0, <2>2, CorrectiveFits
  <2>3. CASE o \in Unnamed(opsA, opsB)
      BY <1>1, <1>4, <2>0, <2>3, UnnamedFits
  <2>. QED
      BY <1>3, <2>1, <2>2, <2>3
<1>6. Follows(ns, kept, <<a, b>>, ops)
    BY <1>5, ElementOf DEF Follows, before
<1>. QED
    BY <1>3, <1>6 DEF ops

\* What the report says of the merge node just made.
Side1(ns, made) == ns[made.rev].parents[1]
Side2(ns, made) == ns[made.rev].parents[2]

\* The two lists of operations that the report was made from.
Explains(ns, made, opsA, opsB) ==
  /\ IsMerge(ns, made.base, Side1(ns, made), Side2(ns, made), opsA, opsB)
  /\ DOMAIN made.answers = Asked(opsA, opsB)
  /\ \A id \in DOMAIN made.answers : made.answers[id] \in AnswersFor(opsA, opsB, id)
  /\ made.acknowledged = {o.id : o \in CrossObject(opsA, opsB)}
  /\ made.collisions = Collisions(opsA, opsB)
  /\ ElementsOf(ns[made.rev].ops) =
       Resolved(opsA, opsB, made.answers) \cup Correctives(opsA, opsB) \cup Unnamed(opsA, opsB)

\* The report describes the merge node.
IsReport(ns, made) ==
  /\ made.rev \in DOMAIN ns
  /\ Ancestors(ns, made.rev) =
       {made.rev} \cup Ancestors(ns, Side1(ns, made)) \cup Ancestors(ns, Side2(ns, made))
  /\ Len(ns[made.rev].parents) = 2
  /\ \E opsA, opsB : Explains(ns, made, opsA, opsB)

\* The inductive invariant: the store, the bound of the merge nodes, the report.
MInv ==
  /\ StoreInv
  /\ IsFiniteSet(MergeNodes) /\ Cardinality(MergeNodes) <= MaxMerges
  /\ report.rev # 0 => IsReport(nodes, report)

\* merge_base.py, on the ancestor sets that are kept: they are the merge bases.
LEMMA BasesAreMergeBases ==
  ASSUME StoreInv, NEW a \in DOMAIN nodes, NEW b \in DOMAIN nodes, a # b
  PROVE  {c \in ancestors[a] \cap ancestors[b] :
            \A x \in ancestors[a] \cap ancestors[b] : c \in ancestors[x] => x = c}
           = MergeBases(nodes, a, b)
<1>1. \A r \in DOMAIN nodes : ancestors[r] = Ancestors(nodes, r) /\ ancestors[r] \subseteq DOMAIN nodes
    BY HeadHistory
<1> DEFINE common == CommonAncestors(nodes, a, b)
<1>2. ancestors[a] \cap ancestors[b] = common /\ common \subseteq DOMAIN nodes
    BY <1>1 DEF CommonAncestors
<1>3. MergeBases(nodes, a, b) = {c \in common : \A x \in common : c \in Ancestors(nodes, x) => x = c}
    BY DEF MergeBases
<1> HIDE DEF common
<1>4. \A c \in common : (\A x \in common : c \in ancestors[x] => x = c)
                          <=> (\A x \in common : c \in Ancestors(nodes, x) => x = c)
    BY <1>1, <1>2
<1>. QED
    BY <1>2, <1>3, <1>4

\* What the merge reads of the two sides since the one base.
LEMMA SideOfBase ==
  ASSUME StoreInv, NEW a \in DOMAIN nodes, NEW b \in DOMAIN nodes, a # b,
         NEW base, MergeBases(nodes, a, b) = {base}
  PROVE  IsMerge(nodes, base, a, b, OperationsSince(nodes, ancestors, base, a),
                 OperationsSince(nodes, ancestors, base, b))
<1>1. IsStore(nodes, ancestors) /\ ancestors[a] = Ancestors(nodes, a) /\ ancestors[b] = Ancestors(nodes, b)
    BY HeadHistory DEF StoreInv, IsSound
<1>2. base \in MergeBases(nodes, a, b)
    OBVIOUS
<1>3. base \in ancestors[a] /\ base \in ancestors[b]
    BY <1>1, <1>2 DEF MergeBases, CommonAncestors
<1>4. OfSide(nodes, base, a, OperationsSince(nodes, ancestors, base, a))
    BY <1>1, <1>3, OperationsSinceListed DEF OfSide
<1>5. OfSide(nodes, base, b, OperationsSince(nodes, ancestors, base, b))
    BY <1>1, <1>3, OperationsSinceListed DEF OfSide
<1>. QED
    BY <1>4, <1>5 DEF IsMerge

\* A merge node is counted when it is made.
LEMMA MergeNodesGrow ==
  ASSUME NEW parents, NEW b, NEW ops, HasGrown(nodes, ancestors, parents, b, ops, nodes', ancestors')
  PROVE  MergeNodes' = IF Len(parents) = 2 THEN MergeNodes \cup {Len(nodes) + 1} ELSE MergeNodes
<1>1. /\ DOMAIN nodes' = DOMAIN nodes \cup {Len(nodes) + 1} /\ Len(nodes) + 1 \notin DOMAIN nodes
      /\ \A r \in DOMAIN nodes : nodes'[r] = nodes[r]
      /\ nodes'[Len(nodes) + 1].parents = parents
    BY DEF HasGrown, Node
<1>. QED
    BY <1>1 DEF MergeNodes

\* Migrate.
LEMMA MigrateKeeps ==
  ASSUME MInv, NEW b \in Side, Migrate(b)
  PROVE  MInv'
<1>1. PICK s \in schemas[heads[b]] : ~s.broken /\ \E o \in Authored(s, FreshId) : AppendNode(b, <<heads[b]>>, <<o>>)
    BY DEF Migrate
<1>2. PICK o \in Authored(s, FreshId) : AppendNode(b, <<heads[b]>>, <<o>>)
    BY <1>1
<1> DEFINE h == heads[b]
<1>3. h \in DOMAIN nodes /\ StoreInv
    BY DEF MInv, StoreInv
<1>4. Follows(nodes, ancestors, <<h>>, <<o>>)
    BY <1>1, <1>3, MigrationFollows
<1>5. <<h>> \in Seq(DOMAIN nodes) /\ Len(<<h>>) = 1
    BY <1>3
<1>6. Listed(<<o>>)
  <2>1. <<o>> \in Seq({o})
      OBVIOUS
  <2>. QED
      BY <2>1, ListedIff
<1> HIDE DEF h
<1>7. PICK parents, ops :
        /\ Listed(ops) /\ parents \in Seq(DOMAIN nodes) /\ Len(parents) # 2 /\ Len(parents) <= 2
        /\ AppendNode(b, parents, ops) /\ Follows(nodes, ancestors, parents, ops)
    BY <1>2, <1>4, <1>5, <1>6 DEF h
<1>8. StoreInv' /\ HasGrown(nodes, ancestors, parents, b, ops, nodes', ancestors')
    BY <1>3, <1>7, AppendKeepsStore
<1>9. MergeNodes' = MergeNodes
    BY <1>7, <1>8, MergeNodesGrow
<1>10. report'.rev = 0
    BY DEF Migrate, NoReport
<1>. QED
    BY <1>8, <1>9, <1>10 DEF MInv

\* A merge that is a fast forward.
LEMMA FastForwardKeeps ==
  ASSUME MInv, NEW t \in Side, NEW s \in Side, FastForward(t, s)
  PROVE  MInv'
<1>1. /\ nodes' = nodes /\ ancestors' = ancestors /\ schemas' = schemas
      /\ heads' = [heads EXCEPT ![t] = heads[s]] /\ report'.rev = 0
    BY DEF FastForward, NoReport
<1>2. heads' \in [Side -> DOMAIN nodes']
    BY <1>1 DEF MInv, StoreInv
<1>3. StoreInv'
    BY <1>1, <1>2 DEF MInv, StoreInv
<1>4. MergeNodes' = MergeNodes
    BY <1>1 DEF MergeNodes
<1>. QED
    BY <1>1, <1>3, <1>4 DEF MInv

\* A merge that makes a node.
LEMMA TrueMergeKeeps ==
  ASSUME MInv, NEW t \in Side, NEW s \in Side, heads[t] # heads[s],
         NEW base, MergeBases(nodes, heads[t], heads[s]) = {base}, TrueMerge(t, s, base)
  PROVE  MInv'
<1> DEFINE a == heads[t]
           b == heads[s]
           opsA == OperationsSince(nodes, ancestors, base, a)
           opsB == OperationsSince(nodes, ancestors, base, b)
<1>1. a \in DOMAIN nodes /\ b \in DOMAIN nodes /\ a # b /\ StoreInv /\ IsSound(nodes, ancestors)
    BY DEF MInv, StoreInv
<1>2. IsMerge(nodes, base, a, b, opsA, opsB)
    BY <1>1, SideOfBase
<1>3. PICK answers \in [Asked(opsA, opsB) -> {"a", "b", "both"}] :
        /\ \A id \in Asked(opsA, opsB) : answers[id] \in AnswersFor(opsA, opsB, id)
        /\ AppendNode(t, <<a, b>>, MergeOps(opsA, opsB, answers))
        /\ report' = [rev |-> Len(nodes) + 1, base |-> base, answers |-> answers,
                      acknowledged |-> {o.id : o \in CrossObject(opsA, opsB)},
                      collisions |-> Collisions(opsA, opsB)]
    BY DEF TrueMerge
<1>4. Cardinality(MergeNodes) < MaxMerges
    BY DEF TrueMerge
<1> HIDE DEF opsA, opsB, a, b
<1>5. DOMAIN answers = Asked(opsA, opsB)
    OBVIOUS
<1>6. PICK parents, ops : parents = <<a, b>> /\ ops = MergeOps(opsA, opsB, answers)
    OBVIOUS
<1>7. /\ Listed(ops) /\ Follows(nodes, ancestors, parents, ops)
      /\ ElementsOf(ops) = Resolved(opsA, opsB, answers)
           \cup Correctives(opsA, opsB) \cup Unnamed(opsA, opsB)
    BY <1>1, <1>2, <1>5, <1>6, MergeFollows
<1>7a. parents \in Seq(DOMAIN nodes) /\ Len(parents) = 2 /\ Len(parents) <= 2 /\ parents[1] = a /\ parents[2] = b
    BY <1>1, <1>6
<1>7b. AppendNode(t, parents, ops)
    BY <1>3, <1>6
<1>7c. Past(ancestors, parents) = Ancestors(nodes, a) \cup Ancestors(nodes, b)
    BY <1>1, <1>2, <1>6, SidesFit
<1>8. StoreInv' /\ HasGrown(nodes, ancestors, parents, t, ops, nodes', ancestors')
    BY <1>1, <1>7, <1>7a, <1>7b, AppendKeepsStore
<1>9. MergeNodes' = MergeNodes \cup {Len(nodes) + 1}
    BY <1>7a, <1>8, MergeNodesGrow
<1>10. IsFiniteSet(MergeNodes') /\ Cardinality(MergeNodes') <= MaxMerges
  <2>1. /\ IsFiniteSet(MergeNodes \cup {Len(nodes) + 1})
        /\ Cardinality(MergeNodes \cup {Len(nodes) + 1})
             = IF Len(nodes) + 1 \in MergeNodes THEN Cardinality(MergeNodes) ELSE Cardinality(MergeNodes) + 1
      BY FS_AddElement DEF MInv
  <2>2. Cardinality(MergeNodes) \in Nat /\ MaxMerges \in Nat
      BY FS_CardinalityType, SidesAssumption DEF MInv
  <2>. QED
      BY <1>4, <1>9, <2>1, <2>2
<1>11. /\ DOMAIN nodes' = DOMAIN nodes \cup {Len(nodes) + 1}
       /\ \A r \in DOMAIN nodes : nodes'[r] = nodes[r] /\ Ancestors(nodes', r) = Ancestors(nodes, r)
       /\ nodes'[Len(nodes) + 1].parents = parents /\ nodes'[Len(nodes) + 1].ops = ops
       /\ Ancestors(nodes', Len(nodes) + 1) = {Len(nodes) + 1} \cup Past(ancestors, parents)
    BY <1>8 DEF HasGrown, Node
<1>12. IsMerge(nodes', base, a, b, opsA, opsB)
  <2>1. IsStore(nodes, ancestors)
      BY <1>1 DEF IsSound
  <2> DEFINE ms == nodes'
  <2>2. DOMAIN nodes \subseteq DOMAIN ms /\ \A r \in DOMAIN nodes : ms[r] = nodes[r] /\ Ancestors(ms, r) = Ancestors(nodes, r)
      BY <1>11
  <2> HIDE DEF ms
  <2>3. IsMerge(ms, base, a, b, opsA, opsB)
      BY <1>2, <2>1, <2>2, IsMergeStable
  <2>. QED
      BY <2>3 DEF ms
<1>13. /\ report'.rev = Len(nodes) + 1 /\ report'.base = base /\ report'.answers = answers
       /\ report'.acknowledged = {o.id : o \in CrossObject(opsA, opsB)}
       /\ report'.collisions = Collisions(opsA, opsB)
    BY <1>3
<1>14. Side1(nodes', report') = a /\ Side2(nodes', report') = b
    BY <1>7a, <1>11, <1>13 DEF Side1, Side2
<1>15. Explains(nodes', report', opsA, opsB)
  <2>1. ElementsOf(nodes'[report'.rev].ops) = ElementsOf(ops)
      BY <1>11, <1>13
  <2>2. \A id \in DOMAIN answers : answers[id] \in AnswersFor(opsA, opsB, id)
      BY <1>3, <1>5
  <2>. QED
      BY <1>5, <1>7, <1>12, <1>13, <1>14, <2>1, <2>2 DEF Explains
<1>16. IsReport(nodes', report')
  <2>1. Ancestors(nodes', a) = Ancestors(nodes, a) /\ Ancestors(nodes', b) = Ancestors(nodes, b)
      BY <1>1, <1>11
  <2>2. Ancestors(nodes', report'.rev) = {report'.rev} \cup Ancestors(nodes', a) \cup Ancestors(nodes', b)
      BY <1>7c, <1>11, <1>13, <2>1
  <2>3. report'.rev \in DOMAIN nodes' /\ Len(nodes'[report'.rev].parents) = 2
      BY <1>7a, <1>11, <1>13
  <2>. QED
      BY <1>14, <1>15, <2>2, <2>3 DEF IsReport
<1>. QED
    BY <1>8, <1>10, <1>16 DEF MInv

\* A merge.
LEMMA MergeKeeps ==
  ASSUME MInv, NEW t \in Side, NEW s \in Side, Merge(t, s)
  PROVE  MInv'
<1> DEFINE common == ancestors[heads[t]] \cap ancestors[heads[s]]
           bases == {c \in common : \A x \in common : c \in ancestors[x] => x = c}
<1>1. heads[t] # heads[s]
    BY DEF Merge
<1>2. PICK base \in bases :
           /\ bases = {base} /\ base # heads[s]
           /\ \/ base = heads[t] /\ FastForward(t, s)
              \/ base # heads[t] /\ TrueMerge(t, s, base)
    BY DEF Merge
<1>3. bases = MergeBases(nodes, heads[t], heads[s])
    BY <1>1, BasesAreMergeBases DEF MInv, StoreInv
<1> HIDE DEF bases, common
<1>4. MergeBases(nodes, heads[t], heads[s]) = {base}
    BY <1>2, <1>3
<1>5. CASE FastForward(t, s)
    BY <1>5, FastForwardKeeps
<1>6. CASE TrueMerge(t, s, base)
    BY <1>1, <1>4, <1>6, TrueMergeKeeps
<1>. QED
    BY <1>2, <1>5, <1>6

\* The first schema: the operations of the root make each object once, where it fits.
LEMMA MInvInit == Init => MInv
<1> SUFFICES ASSUME Init
             PROVE  MInv
    OBVIOUS
<1> DEFINE first == Node(<<>>, Target, <<>>)
           second == Node(<<1>>, Target, Base)
<1>1. nodes = <<first, second>>
    BY DEF Init
<1>2. first.parents = <<>> /\ first.ops = <<>> /\ second.parents = <<1>> /\ second.ops = Base
    BY DEF Node
<1>3. Listed(Base)
    BY BaseAssumption DEF Listed
<1> HIDE DEF first, second
<1>4. /\ DOMAIN nodes = {1, 2} /\ DOMAIN nodes = 1 .. 2 /\ Len(nodes) = 2
      /\ nodes[1] = first /\ nodes[2] = second
    BY <1>1
<1>5. Listed(nodes)
    BY <1>1, ListedIff, <<first, second>> \in Seq({first, second})
<1>6. ParentsOf(nodes, 1) = {} /\ ParentsOf(nodes, 2) = {1}
    BY <1>2, <1>4 DEF ParentsOf
<1>7. ParentsStored(nodes)
    BY <1>4, <1>6 DEF ParentsStored, ParentClosed
<1>8. Ancestors(nodes, 1) = {1} /\ Ancestors(nodes, 2) = {1, 2}
  <2>1. Ancestors(nodes, 1) = {1}
    <3>1. 1 \in DOMAIN nodes
        BY <1>4
    <3>2. \A x : x \in Ancestors(nodes, 1) <=> x = 1 \/ \E p \in ParentsOf(nodes, 1) : x \in Ancestors(nodes, p)
        BY <1>7, <3>1, AncestorsOfNode
    <3>. QED
        BY <1>6, <3>2
  <2>2. \A x : x \in Ancestors(nodes, 2) <=> x = 2 \/ \E p \in ParentsOf(nodes, 2) : x \in Ancestors(nodes, p)
    <3>1. 2 \in DOMAIN nodes
        BY <1>4
    <3>. QED
        BY <1>7, <3>1, AncestorsOfNode
  <2>. QED
      BY <1>6, <2>1, <2>2
<1>9. ancestors = <<{1}, {1, 2}>> /\ heads = [x \in Side |-> 2] /\ report.rev = 0
    BY DEF Init, NoReport
<1>10. IsStore(nodes, ancestors)
  <2>1. <<>> \in Seq(1 .. (1 - 1)) /\ <<1>> \in Seq(1 .. (2 - 1))
      OBVIOUS
  <2>2. \A r \in DOMAIN nodes : nodes[r].parents \in Seq(1 .. (r - 1)) /\ Listed(nodes[r].ops)
      BY <1>2, <1>3, <1>4, <2>1, EmptyListed
  <2>. QED
      BY <1>4, <1>5, <1>8, <1>9, <2>2 DEF IsStore
<1>11. Fitting(nodes)
  <2> SUFFICES ASSUME NEW r \in DOMAIN nodes, NEW i \in DOMAIN nodes[r].ops
               PROVE  Fits(Prior(nodes, r, i), nodes[r].ops[i])
      BY DEF Fitting
  <2>1. r = 2 /\ nodes[r].ops = Base
      BY <1>2, <1>4
  <2>2. Fits({Base[j] : j \in 1 .. (i - 1)}, Base[i])
      BY <2>1, BaseAssumption
  <2>3. {Base[j] : j \in 1 .. (i - 1)} \subseteq Prior(nodes, r, i)
      BY <2>1 DEF Prior
  <2>. QED
      BY <2>1, <2>2, <2>3, FitsMore
<1>12. CreatedOnce(nodes)
  <2> SUFFICES ASSUME NEW q \in DOMAIN nodes, NEW r \in DOMAIN nodes,
                      NEW j \in DOMAIN nodes[q].ops, NEW i \in DOMAIN nodes[r].ops,
                      {nodes[q].ops[j].type, nodes[r].ops[i].type} \subseteq Creating,
                      nodes[q].ops[j].id = nodes[r].ops[i].id
               PROVE  q = r /\ j = i
      BY DEF CreatedOnce
  <2>1. q = 2 /\ r = 2 /\ nodes[q].ops = Base /\ nodes[r].ops = Base
      BY <1>2, <1>4
  <2>. QED
      BY <2>1, BaseAssumption
<1>13. Listed(ancestors)
    BY <1>9, ListedIff, <<{1}, {1, 2}>> \in Seq({{1}, {1, 2}})
<1>14. /\ Listed(schemas) /\ DOMAIN schemas = DOMAIN nodes
       /\ \A r \in DOMAIN nodes : schemas[r] = Replays(nodes, ancestors[r])
  <2>1. schemas = [r \in 1 .. 2 |-> Replays(nodes, ancestors[r])]
      BY DEF Init
  <2>2. Listed(schemas)
      BY <2>1, ListedFunction
  <2>. QED
      BY <1>4, <2>1, <2>2
<1>15. \A r \in DOMAIN nodes : Len(nodes[r].parents) # 2 /\ Len(nodes[r].parents) <= 2
  <2>1. nodes[1].parents = <<>> /\ nodes[2].parents = <<1>>
      BY <1>2, <1>4
  <2>2. \A p : p = <<>> \/ p = <<1>> => Len(p) # 2 /\ Len(p) <= 2
      OBVIOUS
  <2>3. \A r \in DOMAIN nodes : nodes[r].parents = <<>> \/ nodes[r].parents = <<1>>
      BY <1>4, <2>1
  <2>. QED
      BY <2>2, <2>3
<1>16. MergeNodes = {}
    BY <1>15 DEF MergeNodes
<1>17. IsFiniteSet(MergeNodes) /\ Cardinality(MergeNodes) <= MaxMerges
    BY <1>16, FS_EmptySet, SidesAssumption
<1>18. heads \in [Side -> DOMAIN nodes]
    BY <1>4, <1>9
<1>19. IsSound(nodes, ancestors)
    BY <1>10, <1>11, <1>12 DEF IsSound
<1>20. \A r \in DOMAIN nodes : Len(nodes[r].parents) <= 2
    BY <1>15
<1>. QED
    BY <1>9, <1>13, <1>14, <1>17, <1>18, <1>19, <1>20 DEF MInv, StoreInv

\* Each step keeps the invariant.
LEMMA MInvNext == MInv /\ [Next]_vars => MInv'
<1> SUFFICES ASSUME MInv, [Next]_vars
             PROVE  MInv'
    OBVIOUS
<1>1. ASSUME NEW b \in Side, Migrate(b)
      PROVE  MInv'
    BY <1>1, MigrateKeeps
<1>2. ASSUME NEW t \in Side, NEW s \in Side, Merge(t, s)
      PROVE  MInv'
    BY <1>2, MergeKeeps
<1>3. CASE UNCHANGED vars
    BY <1>3 DEF vars, MInv, StoreInv, MergeNodes
<1>. QED
    BY <1>1, <1>2, <1>3 DEF Next

\* So it holds throughout.
LEMMA StoreIsExplained == Spec => []MInv
<1>. QED
    BY MInvInit, MInvNext, PTL DEF Spec

\* TypeOK: the heads are nodes of the store, the ancestor set that is kept of a new
\* node is its ancestors, and every operation is one of the variants of the model.
THEOREM HistoriesHaveTypes == Spec => []TypeOK
<1>1. MInv => TypeOK
  <2> SUFFICES ASSUME MInv
               PROVE  TypeOK
      OBVIOUS
  <2>1. DOMAIN nodes = 1 .. Len(nodes) /\ Len(nodes) \in Nat /\ heads \in [Side -> DOMAIN nodes]
      BY StoreIsDag DEF MInv, StoreInv, IsSound
  <2>2. Len(nodes) \in DOMAIN nodes
    <3>1. heads[Target] \in DOMAIN nodes
        BY <2>1 DEF Side
    <3>. QED
        BY <2>1, <3>1
  <2>3. ancestors[Len(nodes)] = Ancestors(nodes, Len(nodes))
      BY <2>2, HeadHistory DEF MInv
  <2>4. report.rev \in {0} \cup DOMAIN nodes
      BY DEF MInv, IsReport
  <2>5. ASSUME NEW r \in DOMAIN nodes, NEW o \in ElementsOf(nodes[r].ops)
        PROVE  o.type \in Variants
    <3>1. PICK i \in DOMAIN nodes[r].ops : o = nodes[r].ops[i]
        BY DEF ElementsOf
    <3>2. Fits(Prior(nodes, r, i), o)
        BY <3>1 DEF MInv, StoreInv, IsSound, Fitting
    <3>. QED
        BY <3>2 DEF Fits
  <2>. QED
      BY <2>1, <2>3, <2>4, <2>5 DEF TypeOK
<1>. QED
    BY <1>1, StoreIsExplained, PTL

----------------------------------------------------------------------------
(* What a replay that raises says of a longer history.                       *)

\* A replay that has not seen all of its history can go on.
LEMMA ReplayGoesOn ==
  ASSUME NEW ns, NEW history, IsHistory(ns, history), NEW done \in SUBSET history, done # history
  PROVE  CanVisit(ns, history, done) # {}
<1>1. /\ ParentsStored(ns) /\ AppendOrder(ns) /\ history \in SUBSET DOMAIN ns
      /\ ParentClosed(ns, history)
    BY DEF IsHistory
<1>2. history \ done \in SUBSET Nat /\ history \ done # {}
    BY <1>1 DEF AppendOrder
<1>3. PICK r \in history \ done : \A q \in history \ done : r <= q
    BY <1>2, LeastNatural
<1>4. ParentsOf(ns, r) \subseteq history /\ \A p \in ParentsOf(ns, r) : p < r
    BY <1>1 DEF ParentClosed, AppendOrder
<1>5. ParentsOf(ns, r) \subseteq done
    BY <1>2, <1>3, <1>4
<1>. QED
    BY <1>3, <1>5 DEF CanVisit

\* A replay of part of a history is a replay of the history that has not ended.
LEMMA PartialReplay ==
  ASSUME NEW ns, NEW history, NEW D \in SUBSET history
  PROVE  \A n \in Nat : After(ns, D)[n] \subseteq After(ns, history)[n]
<1> DEFINE T == {n \in Nat : After(ns, D)[n] \subseteq After(ns, history)[n]}
<1>1. 0 \in T
    BY AfterSteps
<1>2. ASSUME NEW n \in Nat, n \in T
      PROVE  n + 1 \in T
  <2>1. \A done : CanVisit(ns, D, done) \subseteq CanVisit(ns, history, done)
      BY DEF CanVisit
  <2>2. Longer(ns, D, After(ns, D)[n]) \subseteq Longer(ns, history, After(ns, history)[n])
      BY <1>2, <2>1 DEF Longer
  <2>. QED
      BY <2>2, AfterSteps
<1>3. Nat \subseteq T
  <2> HIDE DEF T
  <2>. QED
      BY <1>1, <1>2, SetInduction
<1>. QED
    BY <1>3

\* A replay that has raised has raised for good: if it raises on part of a
\* history, there is a replay of all of it that does.
LEMMA BrokenInPart ==
  ASSUME NEW ns, NEW history, IsHistory(ns, history), HasLists(ns, history),
         NEW D \in SUBSET history, ParentClosed(ns, D), NEW s \in Replays(ns, D), s.broken
  PROVE  \E t \in Replays(ns, history) : t.broken
<1> DEFINE after == After(ns, history)
           m == Cardinality(D)
           n == Cardinality(history)
           T == {k \in Nat : m + k <= n => \E v \in after[m + k] : v.schema.broken}
<1>1. /\ m \in Nat /\ n \in Nat /\ m <= n /\ IsFiniteSet(D) /\ IsFiniteSet(history)
    BY FS_Subset, FS_CardinalityType DEF IsHistory
<1>2. PICK v \in After(ns, D)[m] : s = v.schema
    BY ReplaysAreLast
<1>3. v \in after[m]
    BY <1>1, <1>2, PartialReplay
<1>4. 0 \in T
    BY <1>1, <1>2, <1>3
<1>5. ASSUME NEW k \in Nat, k \in T
      PROVE  k + 1 \in T
  <2> SUFFICES ASSUME m + (k + 1) <= n
               PROVE  \E w \in after[m + (k + 1)] : w.schema.broken
      BY <1>1
  <2> HIDE DEF m, n, after
  <2>0. m + k \in Nat /\ m + k < n /\ m + k <= n /\ m + (k + 1) = (m + k) + 1
      BY <1>1
  <2>a. \E w \in after[m + k] : w.schema.broken
      BY <1>5, <2>0
  <2>1. PICK w \in after[m + k] : w.schema.broken
      BY <2>a
  <2>2. w.done \in SUBSET history /\ Cardinality(w.done) = m + k
      BY <2>0, AfterDone DEF after
  <2>3. w.done # history
      BY <1>1, <2>0, <2>2 DEF n
  <2>4. PICK r \in CanVisit(ns, history, w.done) : TRUE
      BY <2>2, <2>3, ReplayGoesOn
  <2>5. r \in history
      BY DEF CanVisit
  <2>6. PICK S : ns[r].ops \in Seq(S)
      BY <2>5 DEF HasLists
  <2>7. Visited(ns, w.schema, r) = w.schema
      BY <2>1, <2>6, FoldBroken DEF Visited
  <2>8. Visit(ns, w, r) \in after[m + (k + 1)]
      BY <2>0, LongerHas, AfterSteps DEF after
  <2>9. Visit(ns, w, r).schema.broken
      BY <2>1, <2>7 DEF Visit
  <2>. QED
      BY <2>8, <2>9
<1>6. Nat \subseteq T
  <2> HIDE DEF T
  <2>. QED
      BY <1>4, <1>5, SetInduction
<1>7. n - m \in Nat /\ m + (n - m) = n
    BY <1>1
<1>8. \E w \in after[n] : w.schema.broken
  <2> HIDE DEF m, n, after
  <2>. QED
      BY <1>1, <1>6, <1>7
<1>. QED
    BY <1>8, ReplaysAreLast

\* Every history has a replay.
LEMMA ReplaysExist ==
  ASSUME NEW ns, NEW history, IsHistory(ns, history)
  PROVE  Replays(ns, history) # {}
<1>1. ParentClosed(ns, history) /\ history \in SUBSET history
    BY DEF IsHistory
<1>2. PICK v \in After(ns, history)[Cardinality(history)] : v.done = history
    BY <1>1, AfterReaches
<1>. QED
    BY <1>2, ReplaysAreLast

----------------------------------------------------------------------------
(* Of a merge node that can be replayed.                                     *)

\* More revisions have more operations.
LEMMA OpsOfMore ==
  ASSUME NEW ns, NEW D, NEW H, D \subseteq H
  PROVE  OpsOf(ns, D) \subseteq OpsOf(ns, H)
  BY DEF OpsOf

\* More operations drop more.
LEMMA GoneOfMore ==
  ASSUME NEW ops, NEW more, ops \subseteq more
  PROVE  GoneBy(ops) \subseteq GoneBy(more) /\ Gone(ops) \subseteq Gone(more) /\ Created(ops) \subseteq Created(more)
<1>1. GoneBy(ops) \subseteq GoneBy(more) /\ Created(ops) \subseteq Created(more)
    BY DEF GoneBy, Created
<1>. QED
    BY <1>1 DEF Gone

\* A replay that does not raise stands for every revision behind one that no replay
\* raises at.
LEMMA SchemaFound ==
  ASSUME StoreInv, NEW rev \in DOMAIN nodes, \A s \in schemas[rev] : ~s.broken,
         NEW r \in Ancestors(nodes, rev)
  PROVE  /\ r \in DOMAIN nodes /\ ancestors[r] = Ancestors(nodes, r)
         /\ \E s \in Replays(nodes, ancestors[r]) : s \in schemas[r] /\ ~s.broken /\ SchemaAt(r) = s.objects
<1>1. r \in DOMAIN nodes /\ IsStore(nodes, ancestors)
    BY DEF Ancestors, StoreInv, IsSound
<1>2. /\ IsHistory(nodes, ancestors[r]) /\ ancestors[r] = Ancestors(nodes, r)
      /\ IsHistory(nodes, ancestors[rev]) /\ ancestors[rev] = Ancestors(nodes, rev)
      /\ HasLists(nodes, ancestors[rev])
    BY <1>1, StoredHistory DEF IsStore
<1>3. ancestors[r] \subseteq ancestors[rev] /\ ParentClosed(nodes, ancestors[r])
  <2>1. ParentsStored(nodes)
      BY <1>2 DEF IsHistory
  <2>. QED
      BY <1>2, <2>1, AncestorsTransitive DEF IsHistory
<1>4. \A s \in schemas[r] : ~s.broken
  <2> SUFFICES ASSUME NEW s \in schemas[r], s.broken
               PROVE  FALSE
      OBVIOUS
  <2>1. s \in Replays(nodes, ancestors[r])
      BY <1>1 DEF StoreInv
  <2>2. \E t \in Replays(nodes, ancestors[rev]) : t.broken
      BY <1>2, <1>3, <2>1, BrokenInPart
  <2>. QED
      BY <2>2 DEF StoreInv
<1>5. schemas[r] # {}
    BY <1>1, <1>2, ReplaysExist DEF StoreInv
<1>6. PICK s \in schemas[r] : SchemaAt(r) = s.objects
    BY <1>5 DEF SchemaAt
<1>. QED
    BY <1>1, <1>2, <1>4, <1>6 DEF StoreInv

\* The schema at any revision of its history is what the operations explain.
LEMMA SchemasBelow ==
  ASSUME StoreInv, NEW rev \in DOMAIN nodes, \A s \in schemas[rev] : ~s.broken,
         NEW r \in Ancestors(nodes, rev)
  PROVE  /\ r \in DOMAIN nodes
         /\ DOMAIN SchemaAt(r) = Left(OpsOf(nodes, Ancestors(nodes, r)))
         /\ Traced(OpsOf(nodes, Ancestors(nodes, r)), SchemaAt(r))
<1>1. /\ r \in DOMAIN nodes /\ ancestors[r] = Ancestors(nodes, r)
      /\ \E s \in Replays(nodes, ancestors[r]) : s \in schemas[r] /\ ~s.broken /\ SchemaAt(r) = s.objects
    BY SchemaFound
<1>2. PICK s \in schemas[r] : ~s.broken /\ SchemaAt(r) = s.objects
    BY <1>1
<1>3. Explained(OpsOf(nodes, Ancestors(nodes, r)), s)
    BY <1>1, HeadHistory
<1>. QED
    BY <1>1, <1>2, <1>3 DEF Explained

\* The four schemas of a merge.
LEMMA MergedSchemas ==
  ASSUME MInv, Merged
  PROVE  LET made == report
             OpsAt(r) == OpsOf(nodes, Ancestors(nodes, r))
             Is(objects, r) == DOMAIN objects = Left(OpsAt(r)) /\ Traced(OpsAt(r), objects)
         IN  /\ IsReport(nodes, report)
             /\ Is(Schemas.base, report.base)
             /\ Is(Schemas.a, Side1(nodes, report))
             /\ Is(Schemas.b, Side2(nodes, report))
             /\ Is(Schemas.merged, report.rev)
<1>1. IsReport(nodes, report) /\ StoreInv /\ \A s \in schemas[report.rev] : ~s.broken
    BY DEF MInv, Merged
<1>2. PICK opsA, opsB : Explains(nodes, report, opsA, opsB)
    BY <1>1 DEF IsReport
<1> DEFINE a == Side1(nodes, report)
           b == Side2(nodes, report)
<1>3. IsMerge(nodes, report.base, a, b, opsA, opsB) /\ IsStore(nodes, ancestors)
    BY <1>1, <1>2 DEF Explains, StoreInv, IsSound
<1>4. report.base \in Ancestors(nodes, a) /\ a \in DOMAIN nodes /\ b \in DOMAIN nodes
    BY <1>3, SinceApart DEF IsMerge
<1>5. report.rev \in DOMAIN nodes
    BY <1>1 DEF IsReport
<1>6. a \in Ancestors(nodes, a) /\ b \in Ancestors(nodes, b) /\ report.rev \in Ancestors(nodes, report.rev)
    BY <1>4, <1>5, AncestorsSelf
<1>7. {a, b, report.base, report.rev} \subseteq Ancestors(nodes, report.rev)
    BY <1>1, <1>4, <1>6 DEF IsReport
<1>8. /\ Schemas.base = SchemaAt(report.base) /\ Schemas.merged = SchemaAt(report.rev)
      /\ Schemas.a = SchemaAt(a) /\ Schemas.b = SchemaAt(b)
    BY DEF Schemas, Side1, Side2
<1> HIDE DEF a, b
<1>9. ASSUME NEW r \in {a, b, report.base, report.rev}
      PROVE  /\ DOMAIN SchemaAt(r) = Left(OpsOf(nodes, Ancestors(nodes, r)))
             /\ Traced(OpsOf(nodes, Ancestors(nodes, r)), SchemaAt(r))
    BY <1>1, <1>5, <1>7, SchemasBelow
<1>. QED
    BY <1>1, <1>8, <1>9 DEF a, b

----------------------------------------------------------------------------
(* What the two sides leave of each other's work.                            *)

\* The operations of a merge: a and b those of the two histories, c those of
\* the history of the base, m those of the merge node, `told` what it reports.
Meets(a, b, c, m, opsA, opsB, told) ==
  /\ Sound(a \cup b \cup m)
  /\ a = c \cup ElementsOf(opsA) /\ b = c \cup ElementsOf(opsB)
  /\ \A x \in ElementsOf(opsA), y \in b : x.type \in Creating => x.id # y.id
  /\ \A o \in m : o \in a \cup b \/
       /\ o.type \in Destructive /\ o.type # "DropTable" /\ o.id \in told
       /\ \E x \in Created(a \cup b \cup m) : x.id = o.id /\ x.type # "CreateTable"
  /\ \A x \in CrossObject(opsA, opsB) :
       x.id \in told /\ \E o \in m : o.type \in Destructive /\ o.id = x.id

\* An object is referred to by what is in it, over it or refers to it.
LEMMA ReferredTo ==
  ASSUME NEW ops, Sound(ops), NEW x \in Created(ops), x.type # "CreateTable"
  PROVE  Referenced(x) = {x.object.table, x.object.references} \cup x.object.columns
  BY DEF Created, Creating, Referenced

\* Each object is made by one operation.
LEMMA SameCreation ==
  ASSUME NEW ops, Sound(ops), NEW x \in Created(ops), NEW y \in Created(ops), x.id = y.id
  PROVE  x = y
  BY DEF Sound

\* What one side added is left by the merge, unless the report names it.
LEMMA AdditionStays ==
  ASSUME NEW a, NEW b, NEW c, NEW m, NEW opsA, NEW opsB, NEW told,
         Meets(a, b, c, m, opsA, opsB, told),
         NEW id \in Left(a), id \notin Left(c), id \notin told
  PROVE  id \in Left(a \cup b \cup m)
<1> DEFINE all == a \cup b \cup m
<1>1. Sound(all)
    BY DEF Meets
<1>2. a \subseteq all /\ b \subseteq all /\ m \subseteq all /\ c \subseteq a
    BY DEF Meets
<1> HIDE DEF all
<1>3. PICK x \in Created(a) : x.id = id
    BY DEF Left
<1>4. id \notin Gone(a) /\ x \in Created(all)
    BY <1>2, GoneOfMore DEF Left
<1>5. x \in ElementsOf(opsA)
  <2> SUFFICES ASSUME x \in c
               PROVE  FALSE
      BY DEF Meets, Created
  <2>1. x \in Created(c)
      BY DEF Created
  <2>2. id \in Gone(c)
      BY <1>3, <2>1 DEF Left
  <2>. QED
      BY <1>2, <1>4, <2>2, GoneOfMore
<1>6. \A y \in b : y.id # id
    BY <1>3, <1>5 DEF Meets, Created
<1>7. ASSUME id \in GoneBy(all)
      PROVE  FALSE
  <2>1. PICK y \in all : y.type \in Destructive /\ y.id = id
      BY <1>7 DEF GoneBy
  <2>2. y \notin a
      BY <1>4, <2>1 DEF Gone, GoneBy
  <2>3. y \in m
      BY <1>6, <2>1, <2>2 DEF all
  <2>. QED
      BY <1>6, <2>1, <2>2, <2>3 DEF Meets
<1>8. ASSUME NEW y \in Created(all), y.id = id, y.object.table \in GoneBy(all)
      PROVE  FALSE
  <2> DEFINE t == x.object.table
  <2>1. y = x
      BY <1>1, <1>3, <1>4, <1>8, SameCreation
  <2>2. PICK z \in all : z.type \in Destructive /\ z.id = t
      BY <1>8, <2>1 DEF GoneBy
  <2>3. Fits(all, x) /\ Fits(all, z) /\ x.type \in Creating
      BY <1>1, <1>4 DEF Sound, Created
  <2>4. t # NoId
      BY <1>1, <2>2, <2>3, SoundTables
  <2>5. PICK w \in Created(all) : w.id = t /\ w.type = "CreateTable"
      BY <1>1, <2>3, <2>4, SoundTables
  <2>6. z.type = "DropTable"
      BY <1>1, <2>2, <2>3, <2>5, SoundTables, SameCreation
  <2>7. z \notin a
      BY <1>3, <1>4, <2>2 DEF Gone, GoneBy
  <2>8. z \in b
      BY <2>6, <2>7 DEF Meets, all
  <2>9. z \in ElementsOf(opsB)
      BY <1>2, <2>7, <2>8 DEF Meets
  <2>10. t \in Destroyed(opsB)
      BY <2>2, <2>6, <2>9 DEF Destroyed
  <2>11. x.type # "CreateTable"
      BY <2>3, <2>4 DEF Fits
  <2>12. t \in Referenced(x)
      BY <1>1, <1>4, <2>11, ReferredTo
  <2>13. x \in CrossObject(opsA, opsB)
      BY <1>5, <2>10, <2>12, CrossObjectIs
  <2>. QED
      BY <1>3, <2>13 DEF Meets
<1>9. id \notin Gone(all)
    BY <1>7, <1>8 DEF Gone
<1>. QED
    BY <1>3, <1>4, <1>9 DEF Left, all

\* An object of the merge that needs what one side dropped is one which that side
\* still has.
LEMMA NeededStays ==
  ASSUME NEW a, NEW b, NEW c, NEW m, NEW opsA, NEW opsB, NEW told,
         Meets(a, b, c, m, opsA, opsB, told),
         NEW objects, DOMAIN objects = Left(a \cup b \cup m), Traced(a \cup b \cup m, objects),
         NEW id \in DOMAIN objects, NEW n \in Needs(objects, id), n \in Left(c), n \notin Left(a)
  PROVE  id \in Left(a)
<1> DEFINE all == a \cup b \cup m
<1>1. Sound(all)
    BY DEF Meets
<1>2. a \subseteq all /\ b \subseteq all /\ m \subseteq all /\ c \subseteq a /\ c \subseteq all
    BY DEF Meets
<1>3. id \notin Gone(all) /\ id \in Left(all)
    BY DEF Left
<1>4. PICK x \in Created(all) : x.id = id /\ \A f \in Fixed : objects[id][f] = x.object[f]
    BY DEF Traced
<1> HIDE DEF all
<1>5. CASE x \in a
  <2>1. x \in Created(a)
      BY <1>5 DEF Created
  <2>2. id \notin Gone(a)
      BY <1>2, <1>3, GoneOfMore
  <2>. QED
      BY <1>4, <2>1, <2>2 DEF Left
<1>6. CASE x \notin a
  <2> SUFFICES FALSE
      OBVIOUS
  <2>1. x.type \in Creating /\ x \in all /\ Fits(all, x)
      BY <1>1 DEF Created, Sound
  <2>2. x \in ElementsOf(opsB)
    <3>1. x.type \notin Destructive
        BY <2>1 DEF Creating, Destructive
    <3>2. x \in b
        BY <1>6, <2>1, <3>1 DEF Meets, all
    <3>. QED
        BY <1>2, <1>6, <3>2 DEF Meets
  <2>3. ASSUME x \in CrossObject(opsA, opsB)
        PROVE  FALSE
    <3>1. PICK o \in m : o.type \in Destructive /\ o.id = id
        BY <1>4, <2>3 DEF Meets
    <3>2. id \in GoneBy(all)
        BY <1>2, <3>1 DEF GoneBy
    <3>. QED
        BY <1>3, <3>2 DEF Gone
  <2>4. n \in ({x.object.table, x.object.references} \ {NoId}) \cup x.object.columns
      BY <1>4 DEF Needs, Fixed
  <2>5. x.type # "CreateTable"
      BY <2>1, <2>4 DEF Fits
  <2>6. n \in Referenced(x) /\ x.object.table \in Referenced(x)
      BY <1>1, <2>4, <2>5, ReferredTo
  <2>7. PICK y \in Created(all) :
           /\ y.id = n
           /\ \/ y.object.kind = "table"
              \/ y.object.kind = "column" /\ y.object.table = x.object.table
    <3>1. CASE n \in {x.object.table, x.object.references} \ {NoId}
      <4>1. PICK y \in all : Makes(y, "table", n)
          BY <2>1, <3>1 DEF Fits
      <4>. QED
          BY <4>1 DEF Makes, Created
    <3>2. CASE n \in x.object.columns
      <4>1. PICK y \in all : Makes(y, "column", n) /\ y.object.table = x.object.table
          BY <2>1, <3>2 DEF Fits
      <4>. QED
          BY <4>1 DEF Makes, Created
    <3>. QED
        BY <2>4, <3>1, <3>2
  <2>8. \E k \in Created(c) : k.id = n
      BY DEF Left
  <2>9. y \in Created(c)
    <3>1. PICK k \in Created(c) : k.id = n
        BY <2>8
    <3>2. k \in Created(all)
        BY <1>2, GoneOfMore
    <3>. QED
        BY <1>1, <2>7, <3>1, <3>2, SameCreation
  <2>10. y \in Created(a) /\ n \in Gone(a) /\ n \notin Gone(c)
    <3>1. y \in Created(a)
        BY <1>2, <2>9, GoneOfMore
    <3>. QED
        BY <2>7, <3>1 DEF Left
  <2>11. Fits(all, y) /\ y.type \in Creating /\ y.object.kind = Made[y.type]
      BY <1>1, <2>7 DEF Sound, Created, Fits
  <2>12. CASE n \in GoneBy(a)
    <3>1. PICK d \in a : d.type \in Destructive /\ d.id = n
        BY <2>12 DEF GoneBy
    <3>2. d \notin c
        BY <2>10, <3>1 DEF Gone, GoneBy
    <3>3. d \in ElementsOf(opsA)
        BY <3>2 DEF Meets
    <3>4. Fits(all, d) /\ d.type \notin Creating
        BY <1>1, <1>2, <3>1 DEF Sound, Destructive, Creating
    <3>5. PICK e \in all : Makes(e, KindOf[d.type], n)
        BY <3>1, <3>4 DEF Fits
    <3>6. e = y
        BY <1>1, <2>7, <3>5, SameCreation DEF Makes, Created
    <3>7. KindOf[d.type] \in {"table", "column"}
        BY <2>7, <3>5, <3>6 DEF Makes
    <3>8. d.type \in {"DropTable", "DropColumn"}
        BY <3>1, <3>7, Kinds
    <3>9. n \in Destroyed(opsA)
        BY <3>1, <3>3, <3>8 DEF Destroyed
    <3>. QED
        BY <2>2, <2>3, <2>6, <3>9, CrossObjectIs
  <2>13. CASE n \notin GoneBy(a)
    <3>1. PICK k \in Created(a) : k.id = n /\ k.object.table \in GoneBy(a)
        BY <2>10, <2>13 DEF Gone
    <3>2. k = y
        BY <1>1, <1>2, <2>7, <3>1, GoneOfMore, SameCreation
    <3> DEFINE t == y.object.table
    <3>3. PICK d \in a : d.type \in Destructive /\ d.id = t
        BY <3>1, <3>2 DEF GoneBy
    <3>4. t \notin GoneBy(c)
        BY <2>7, <2>9, <2>10 DEF Gone
    <3>5. d \in ElementsOf(opsA)
        BY <3>3, <3>4 DEF Meets, GoneBy
    <3>6. Fits(all, d)
        BY <1>1, <1>2 DEF Sound
    <3>7. t # NoId
        BY <1>1, <3>3, <3>6, SoundTables
    <3>8. y.type # "CreateTable"
        BY <2>11, <3>7 DEF Fits
    <3>9. y.object.table = x.object.table
        BY <2>7, <2>11, <3>8, Kinds
    <3>10. PICK w \in Created(all) : w.id = t /\ w.type = "CreateTable"
        BY <1>1, <2>11, <3>7, SoundTables
    <3>11. d.type = "DropTable"
        BY <1>1, <3>3, <3>6, <3>10, SoundTables, SameCreation
    <3>12. t \in Destroyed(opsA)
        BY <3>3, <3>5, <3>11 DEF Destroyed
    <3>. QED
        BY <2>2, <2>3, <2>6, <3>9, <3>12, CrossObjectIs
  <2>. QED
      BY <2>12, <2>13
<1>. QED
    BY <1>5, <1>6

\* Since the base, on this side, one migration after another.
Straight(ns, base, r) ==
  \A q \in Ancestors(ns, r) \ Ancestors(ns, base) : base \in Ancestors(ns, q) /\ Len(ns[q].parents) <= 1

\* Neither side of the merge has merge nodes since the base.
SidesAreStraight ==
  /\ Straight(nodes, report.base, Side1(nodes, report))
  /\ Straight(nodes, report.base, Side2(nodes, report))

\* Then operations_between reads every operation of the side.
LEMMA StraightSide ==
  ASSUME NEW ns, NEW kept, IsStore(ns, kept), NEW base, NEW a, NEW b, NEW opsA, NEW opsB,
         IsMerge(ns, base, a, b, opsA, opsB), Straight(ns, base, a)
  PROVE  OpsOf(ns, Ancestors(ns, a)) = OpsOf(ns, Ancestors(ns, base)) \cup ElementsOf(opsA)
<1>1. /\ ParentsStored(ns) /\ a \in DOMAIN ns /\ base \in DOMAIN ns /\ base \in Ancestors(ns, a)
      /\ Since(ns, base, a) \cap Ancestors(ns, base) = {}
    BY SinceApart, StoreIsDag DEF IsMerge
<1>2. Ancestors(ns, base) \subseteq Ancestors(ns, a) /\ base \in Ancestors(ns, base)
    BY <1>1, AncestorsTransitive, AncestorsSelf
<1>3. Ancestors(ns, a) = Ancestors(ns, base) \cup Since(ns, base, a)
    BY <1>2 DEF Straight, Since
<1>4. \A q \in Since(ns, base, a) : Len(ns[q].parents) <= 1
    BY <1>1, <1>3 DEF Straight
<1>5. ElementsOf(opsA) = OpsOf(ns, Since(ns, base, a))
    BY <1>4 DEF IsMerge, OfSide
<1>. QED
    BY <1>3, <1>5 DEF OpsOf

\* cross_object.py looks at both sides in the same way.
LEMMA CrossObjectTurned ==
  ASSUME NEW opsA, NEW opsB
  PROVE  CrossObject(opsA, opsB) = CrossObject(opsB, opsA)
  BY CrossObjectIs

\* A merge of two such sides is of the form that the two lemmas above assume.
LEMMA MergeMeets ==
  ASSUME NEW ns, NEW kept, IsSound(ns, kept), NEW made, IsReport(ns, made),
         NEW opsA, NEW opsB, Explains(ns, made, opsA, opsB),
         NEW told, made.acknowledged \subseteq told, \A k \in made.collisions : k.dropped \in told,
         Straight(ns, made.base, Side1(ns, made)), Straight(ns, made.base, Side2(ns, made))
  PROVE  LET a == OpsOf(ns, Ancestors(ns, Side1(ns, made)))
             b == OpsOf(ns, Ancestors(ns, Side2(ns, made)))
             c == OpsOf(ns, Ancestors(ns, made.base))
             m == ElementsOf(ns[made.rev].ops)
         IN  /\ a \cup b \cup m = OpsOf(ns, Ancestors(ns, made.rev))
             /\ Meets(a, b, c, m, opsA, opsB, told) /\ Meets(b, a, c, m, opsB, opsA, told)
<1> DEFINE r == Side1(ns, made)
           s == Side2(ns, made)
           base == made.base
           a == OpsOf(ns, Ancestors(ns, r))
           b == OpsOf(ns, Ancestors(ns, s))
           c == OpsOf(ns, Ancestors(ns, base))
           m == ElementsOf(ns[made.rev].ops)
           before == OpsOf(ns, Past(kept, <<r, s>>))
<1>1. IsStore(ns, kept) /\ made.rev \in DOMAIN ns /\ ParentsStored(ns)
    BY StoreIsDag DEF IsSound, IsReport
<1>2. IsMerge(ns, base, r, s, opsA, opsB) /\ Listed(opsA) /\ Listed(opsB)
    BY DEF Explains, IsMerge, OfSide
<1>3. IsMerge(ns, base, s, r, opsB, opsA)
    BY <1>2, MergeTurned
<1>4. a = c \cup ElementsOf(opsA) /\ b = c \cup ElementsOf(opsB)
    BY <1>1, <1>2, <1>3, StraightSide
<1>5. /\ Past(kept, <<r, s>>) = Ancestors(ns, r) \cup Ancestors(ns, s)
      /\ ElementsOf(opsA) \cup ElementsOf(opsB) \subseteq before /\ Sound(before)
    BY <1>2, SidesFit
<1>6. before = a \cup b
    BY <1>5 DEF OpsOf
<1>7. a \cup b \cup m = OpsOf(ns, Ancestors(ns, made.rev))
    BY DEF OpsOf, IsReport
<1>8. Sound(a \cup b \cup m)
  <2>1. Ancestors(ns, made.rev) \in SUBSET DOMAIN ns /\ ParentClosed(ns, Ancestors(ns, made.rev))
      BY <1>1, AncestorsClosed DEF Ancestors
  <2>. QED
      BY <1>7, <2>1, ClosedIsSound
<1>9. \A x \in ElementsOf(opsA), y \in b : x.type \in Creating => x.id # y.id
    BY <1>2, MadeOnOneSide
<1>10. \A x \in ElementsOf(opsB), y \in a : x.type \in Creating => x.id # y.id
    BY <1>3, MadeOnOneSide
<1> DEFINE Undoes(o) == /\ o.type \in Destructive /\ o.type # "DropTable" /\ o.id \in told
                        /\ \E x \in Created(a \cup b \cup m) : x.id = o.id /\ x.type # "CreateTable"
<1>11. ASSUME NEW o \in m
       PROVE  o \in a \cup b \/ Undoes(o)
  <2>0. o \in Resolved(opsA, opsB, made.answers) \cup Correctives(opsA, opsB) \cup Unnamed(opsA, opsB)
      BY DEF Explains
  <2>a. Created(a \cup b) \subseteq Created(a \cup b \cup m)
      BY DEF Created
  <2>1. CASE o \in Resolved(opsA, opsB, made.answers)
    <3>1. o \in ElementsOf(opsA) \cup ElementsOf(opsB)
        BY <1>2, <2>1, ResolvedAreOfSides DEF Explains
    <3>. QED
        BY <1>4, <3>1
  <2>2. CASE o \in Correctives(opsA, opsB)
    <3>1. /\ o.type \in Destructive /\ o.type # "DropTable"
          /\ \E x \in CrossObject(opsA, opsB) : o.id = x.id /\ x \in Created(before) /\ x.type # "CreateTable"
        BY <1>5, <2>2, CorrectiveFits
    <3>2. \A x \in CrossObject(opsA, opsB) : x.id \in told
        BY DEF Explains
    <3>. QED
        BY <1>6, <2>a, <3>1, <3>2
  <2>3. CASE o \in Unnamed(opsA, opsB)
    <3>1. /\ o.type \in Destructive /\ o.type # "DropTable"
          /\ \E k \in Collisions(opsA, opsB) : o.id = k.dropped
          /\ \E x \in Created(before) : o.id = x.id /\ x.type # "CreateTable"
        BY <1>2, <1>5, <2>3, UnnamedFits
    <3>2. \A k \in Collisions(opsA, opsB) : k.dropped \in told
        BY DEF Explains
    <3>. QED
        BY <1>6, <2>a, <3>1, <3>2
  <2>. QED
      BY <2>0, <2>1, <2>2, <2>3
<1>12. ASSUME NEW x \in CrossObject(opsA, opsB)
       PROVE  x.id \in told /\ \E o \in m : o.type \in Destructive /\ o.id = x.id
  <2>1. x.id \in told
      BY DEF Explains
  <2>2. CorrectiveDrop(x) \in m
      BY DEF Explains, Correctives
  <2>3. CorrectiveDrop(x).id = x.id
      BY DEF CorrectiveDrop
  <2>4. CorrectiveDrop(x) \in Correctives(opsA, opsB)
      BY DEF Correctives
  <2>5. CorrectiveDrop(x).type \in Destructive
      BY <1>5, <2>4, CorrectiveFits
  <2>. QED
      BY <2>1, <2>2, <2>3, <2>5
<1>13. Meets(a, b, c, m, opsA, opsB, told)
  <2> HIDE DEF a, b, c, m
  <2>. QED
      BY <1>4, <1>8, <1>9, <1>11, <1>12 DEF Meets
<1>14. Meets(b, a, c, m, opsB, opsA, told)
  <2>1. b \cup a \cup m = a \cup b \cup m /\ b \cup a = a \cup b
      OBVIOUS
  <2> HIDE DEF a, b, c, m
  <2>. QED
      BY <1>4, <1>8, <1>10, <1>11, <1>12, <2>1, CrossObjectTurned DEF Meets
<1>. QED
    BY <1>7, <1>13, <1>14

\* A merge brings nothing back: what one side dropped of the base is not in
\* the merge, whoever was asked and whatever they answered.
THEOREM DropsStayDropped == Spec => [](Merged => DropsKept)
<1>1. MInv => (Merged => DropsKept)
  <2> SUFFICES ASSUME MInv, Merged, NEW id \in DOMAIN Schemas.merged \cap DOMAIN Schemas.base
               PROVE  id \in DOMAIN Schemas.a \cap DOMAIN Schemas.b
      BY DEF DropsKept
  <2> DEFINE OpsAt(r) == OpsOf(nodes, Ancestors(nodes, r))
             a == Side1(nodes, report)
             b == Side2(nodes, report)
  <2>1. /\ IsReport(nodes, report)
        /\ DOMAIN Schemas.base = Left(OpsAt(report.base)) /\ DOMAIN Schemas.merged = Left(OpsAt(report.rev))
        /\ DOMAIN Schemas.a = Left(OpsAt(a)) /\ DOMAIN Schemas.b = Left(OpsAt(b))
      BY MergedSchemas
  <2>2. PICK opsA, opsB : Explains(nodes, report, opsA, opsB)
      BY <2>1 DEF IsReport
  <2>3. IsStore(nodes, ancestors) /\ ParentsStored(nodes) /\ IsMerge(nodes, report.base, a, b, opsA, opsB)
      BY <2>2, StoreIsDag DEF Explains, MInv, StoreInv, IsSound
  <2>4. /\ report.base \in Ancestors(nodes, a) /\ report.base \in Ancestors(nodes, b)
        /\ a \in DOMAIN nodes /\ b \in DOMAIN nodes
      BY <2>3, SinceApart DEF IsMerge
  <2>5. ASSUME NEW r \in {a, b}
        PROVE  id \in Left(OpsAt(r))
    <3>1. Ancestors(nodes, report.base) \subseteq Ancestors(nodes, r)
        BY <2>3, <2>4, AncestorsTransitive
    <3>2. Ancestors(nodes, r) \subseteq Ancestors(nodes, report.rev)
        BY <2>1 DEF IsReport
    <3>3. OpsAt(report.base) \subseteq OpsAt(r) /\ OpsAt(r) \subseteq OpsAt(report.rev)
        BY <3>1, <3>2 DEF OpsOf
    <3>4. Created(OpsAt(report.base)) \subseteq Created(OpsAt(r)) /\ Gone(OpsAt(r)) \subseteq Gone(OpsAt(report.rev))
        BY <3>3, GoneOfMore
    <3>. QED
        BY <2>1, <3>4 DEF Left
  <2>. QED
      BY <2>1, <2>5
<1>. QED
    BY <1>1, StoreIsExplained, PTL

\* So it keeps what both have done.
LEMMA StraightMerge ==
  ASSUME MInv, Merged, SidesAreStraight
  PROVE  AdditionsKept /\ NothingNeedsDropped
<1> DEFINE OpsAt(r) == OpsOf(nodes, Ancestors(nodes, r))
           a == OpsAt(Side1(nodes, report))
           b == OpsAt(Side2(nodes, report))
           c == OpsAt(report.base)
           m == ElementsOf(nodes[report.rev].ops)
           all == OpsAt(report.rev)
<1>1. /\ IsReport(nodes, report)
      /\ DOMAIN Schemas.base = Left(c)
      /\ DOMAIN Schemas.merged = Left(all) /\ Traced(all, Schemas.merged)
      /\ DOMAIN Schemas.a = Left(a) /\ DOMAIN Schemas.b = Left(b)
    BY MergedSchemas
<1>2. PICK opsA, opsB : Explains(nodes, report, opsA, opsB)
    BY <1>1 DEF IsReport
<1>3. IsSound(nodes, ancestors)
    BY DEF MInv, StoreInv
<1>4. report.acknowledged \subseteq Reported /\ \A k \in report.collisions : k.dropped \in Reported
    BY DEF Reported
<1>5. /\ a \cup b \cup m = all
      /\ Meets(a, b, c, m, opsA, opsB, Reported) /\ Meets(b, a, c, m, opsB, opsA, Reported)
    BY <1>1, <1>2, <1>3, <1>4, MergeMeets DEF SidesAreStraight
<1>6. b \cup a \cup m = all
    BY <1>5
<1> HIDE DEF a, b, c, m, all
<1>7. \A id \in Left(a) : id \notin Left(c) /\ id \notin Reported => id \in Left(all)
    BY <1>5, AdditionStays
<1>8. \A id \in Left(b) : id \notin Left(c) /\ id \notin Reported => id \in Left(all)
    BY <1>5, <1>6, AdditionStays
<1>9. AdditionsKept
    BY <1>1, <1>7, <1>8 DEF AdditionsKept
<1> DEFINE merged == Schemas.merged
<1>10. DOMAIN merged = Left(all) /\ Traced(all, merged)
    BY <1>1
<1> HIDE DEF merged
<1>11. \A id \in DOMAIN merged, n \in Left(c) \ Left(a) : n \in Needs(merged, id) => id \in Left(a)
    BY <1>5, <1>10, NeededStays
<1>12. \A id \in DOMAIN merged, n \in Left(c) \ Left(b) : n \in Needs(merged, id) => id \in Left(b)
    BY <1>5, <1>6, <1>10, NeededStays
<1>13. NothingNeedsDropped
    BY <1>1, <1>11, <1>12 DEF NothingNeedsDropped, merged
<1>. QED
    BY <1>9, <1>13

----------------------------------------------------------------------------
(* The first merge of a repository.                                         *)

\* Of two revisions of a history without merge nodes one comes after the other.
LEMMA LineIsRelated ==
  ASSUME NEW ns, NEW kept, IsStore(ns, kept)
  PROVE  \A r \in DOMAIN ns :
           (\A q \in Ancestors(ns, r) : Len(ns[q].parents) <= 1) =>
             \A p, q \in Ancestors(ns, r) : Related(ns, p, q)
<1> DEFINE Line(r) == \A q \in Ancestors(ns, r) : Len(ns[q].parents) <= 1
           Good(r) == Line(r) => \A p, q \in Ancestors(ns, r) : Related(ns, p, q)
           T == {k \in Nat : \A r \in DOMAIN ns : r <= k => Good(r)}
<1>1. /\ ParentsStored(ns) /\ DOMAIN ns = 1 .. Len(ns) /\ Len(ns) \in Nat
      /\ \A r \in DOMAIN ns : ParentsOf(ns, r) \subseteq 1 .. (r - 1)
    BY StoreIsDag
<1>2. 0 \in T
    BY <1>1
<1>3. ASSUME NEW k \in Nat, k \in T
      PROVE  k + 1 \in T
  <2> SUFFICES ASSUME NEW r \in DOMAIN ns, r = k + 1, Line(r),
                      NEW p \in Ancestors(ns, r), NEW q \in Ancestors(ns, r)
               PROVE  Related(ns, p, q)
    <3>1. \A r \in DOMAIN ns : r <= k + 1 => r <= k \/ r = k + 1
        BY <1>1
    <3>2. \A r \in DOMAIN ns : r <= k => Good(r)
        BY <1>3
    <3> HIDE DEF Line
    <3>. QED
        BY <3>1, <3>2
  <2>1. \A x : x \in Ancestors(ns, r) <=> x = r \/ \E y \in ParentsOf(ns, r) : x \in Ancestors(ns, y)
      BY <1>1, AncestorsOfNode
  <2>2. CASE p = r \/ q = r
      BY <2>2 DEF Related
  <2>3. CASE p # r /\ q # r
    <3>1. PICK y \in ParentsOf(ns, r) : p \in Ancestors(ns, y)
        BY <2>1, <2>3
    <3>2. PICK z \in ParentsOf(ns, r) : q \in Ancestors(ns, z)
        BY <2>1, <2>3
    <3>3. y = z
      <4>1. r \in Ancestors(ns, r)
          BY AncestorsSelf
      <4>2. Len(ns[r].parents) <= 1 /\ ns[r].parents \in Seq(1 .. (r - 1))
          BY <4>1 DEF IsStore
      <4>3. \A i, j \in DOMAIN ns[r].parents : i = j
          BY <4>2
      <4>. QED
          BY <4>3 DEF ParentsOf
    <3>4. y \in DOMAIN ns /\ y <= k
        BY <1>1
    <3>5. y \in Ancestors(ns, r)
        BY <2>1, <3>4, AncestorsSelf
    <3>6. Line(y)
        BY <1>1, <3>5, AncestorsTransitive
    <3>7. Good(y)
        BY <1>3, <3>4
    <3>. QED
        BY <3>1, <3>2, <3>3, <3>6, <3>7
  <2>. QED
      BY <2>2, <2>3
<1>4. Nat \subseteq T
  <2> HIDE DEF T
  <2>. QED
      BY <1>2, <1>3, SetInduction
<1> SUFFICES ASSUME NEW r \in DOMAIN ns
             PROVE  Good(r)
    OBVIOUS
<1>5. r \in Nat /\ r \in T
    BY <1>1, <1>4
<1>. QED
    BY <1>5

\* No merge node is behind the revision.
Unmerged(ns, r) == \A q \in Ancestors(ns, r) : Len(ns[q].parents) <= 1

\* Neither side of the merge has a merge node in its history: it is the first.
FirstMerge == Unmerged(nodes, Side1(nodes, report)) /\ Unmerged(nodes, Side2(nodes, report))

\* Where a repository has one merge node, that merge is the first.
LEMMA OneMergeIsFirst ==
  ASSUME MInv, MaxMerges <= 1, report.rev # 0
  PROVE  FirstMerge
<1> DEFINE rev == report.rev
<1>1. /\ IsReport(nodes, report) /\ StoreInv /\ IsStore(nodes, ancestors)
      /\ IsFiniteSet(MergeNodes) /\ Cardinality(MergeNodes) <= MaxMerges
    BY DEF MInv, StoreInv, IsSound
<1>2. /\ ParentsStored(nodes) /\ AppendOrder(nodes)
      /\ DOMAIN nodes = 1 .. Len(nodes) /\ Len(nodes) \in Nat
      /\ \A r \in DOMAIN nodes : ParentsOf(nodes, r) \subseteq 1 .. (r - 1)
    BY <1>1, StoreIsDag
<1>3. rev \in DOMAIN nodes /\ rev \in MergeNodes
    BY <1>1 DEF IsReport, MergeNodes
<1>4. MergeNodes = {rev}
  <2>1. {rev} \subseteq MergeNodes
      BY <1>3
  <2>2. IsFiniteSet({rev}) /\ Cardinality({rev}) = 1
      BY FS_Singleton
  <2>3. Cardinality(MergeNodes) \in Nat /\ Cardinality({rev}) <= Cardinality(MergeNodes)
      BY <1>1, <2>1, FS_Subset, FS_CardinalityType
  <2>4. Cardinality({rev}) = Cardinality(MergeNodes)
      BY <1>1, <2>2, <2>3, SidesAssumption
  <2>. QED
      BY <1>1, <2>1, <2>4, FS_Subset
<1>5. \A q \in DOMAIN nodes : q # rev => Len(nodes[q].parents) <= 1
  <2> SUFFICES ASSUME NEW q \in DOMAIN nodes, q # rev
               PROVE  Len(nodes[q].parents) <= 1
      OBVIOUS
  <2>1. Len(nodes[q].parents) # 2
      BY <1>4 DEF MergeNodes
  <2>2. nodes[q].parents \in Seq(1 .. (q - 1)) /\ Len(nodes[q].parents) <= 2
      BY <1>1 DEF IsStore, StoreInv
  <2>3. Len(nodes[q].parents) \in Nat
      BY <2>2
  <2>4. \A n \in Nat : n # 2 /\ n <= 2 => n <= 1
      OBVIOUS
  <2>. QED
      BY <2>1, <2>2, <2>3, <2>4
<1>6. Side1(nodes, report) \in ParentsOf(nodes, rev) /\ Side2(nodes, report) \in ParentsOf(nodes, rev)
  <2>1. Len(nodes[rev].parents) = 2 /\ nodes[rev].parents \in Seq(1 .. (rev - 1))
      BY <1>1, <1>3 DEF IsReport, IsStore
  <2>2. {1, 2} \subseteq DOMAIN nodes[rev].parents
      BY <2>1
  <2>. QED
      BY <2>2 DEF ParentsOf, Side1, Side2
<1>7. ASSUME NEW r \in ParentsOf(nodes, rev)
      PROVE  Unmerged(nodes, r)
  <2>1. r \in DOMAIN nodes /\ r < rev
      BY <1>2, <1>3
  <2>2. \A q \in Ancestors(nodes, r) : q # rev /\ q \in DOMAIN nodes
    <3>1. \A q \in Ancestors(nodes, r) : q \in DOMAIN nodes /\ q <= r
        BY <1>2, <2>1, AncestorsNotNewer DEF Ancestors
    <3>. QED
        BY <1>2, <1>3, <2>1, <3>1
  <2>. QED
      BY <1>5, <2>2 DEF Unmerged
<1>. QED
    BY <1>6, <1>7 DEF FirstMerge

\* Before the only merge node every history is a line.
LEMMA OneMergeIsStraight ==
  ASSUME MInv, MaxMerges <= 1, report.rev # 0
  PROVE  SidesAreStraight
<1>1. IsReport(nodes, report) /\ IsStore(nodes, ancestors) /\ FirstMerge
    BY OneMergeIsFirst DEF MInv, StoreInv, IsSound
<1>2. PICK opsA, opsB : Explains(nodes, report, opsA, opsB)
    BY <1>1 DEF IsReport
<1>3. IsMerge(nodes, report.base, Side1(nodes, report), Side2(nodes, report), opsA, opsB)
    BY <1>2 DEF Explains
<1>4. /\ report.base \in Ancestors(nodes, Side1(nodes, report)) /\ Side1(nodes, report) \in DOMAIN nodes
      /\ report.base \in Ancestors(nodes, Side2(nodes, report)) /\ Side2(nodes, report) \in DOMAIN nodes
    BY <1>1, <1>3, SinceApart DEF IsMerge
<1>5. ASSUME NEW r \in DOMAIN nodes, report.base \in Ancestors(nodes, r), Unmerged(nodes, r)
      PROVE  Straight(nodes, report.base, r)
  <2>1. \A q \in Ancestors(nodes, r) : Related(nodes, report.base, q)
      BY <1>1, <1>5, LineIsRelated DEF Unmerged
  <2>. QED
      BY <1>5, <2>1 DEF Straight, Related, Unmerged
<1>. QED
    BY <1>1, <1>4, <1>5 DEF SidesAreStraight, FirstMerge

\* Where nothing was merged into either side since the base, what one side
\* added and kept is in the merge, unless the human was told, and nothing is
\* left there that needs what the other side dropped.
THEOREM StraightMergesKeepWork ==
  Spec => [](SidesAreStraight => AdditionsAndDropsKept /\ NothingNeedsDropped)
<1>1. MInv => (SidesAreStraight => NothingNeedsDropped /\ (Merged => AdditionsKept))
  <2> SUFFICES ASSUME MInv, SidesAreStraight
               PROVE  NothingNeedsDropped /\ (Merged => AdditionsKept)
      OBVIOUS
  <2>1. Merged => AdditionsKept /\ NothingNeedsDropped
      BY StraightMerge
  <2>2. ~Merged => NothingNeedsDropped
      BY DEF NothingNeedsDropped
  <2>. QED
      BY <2>1, <2>2
<1>2. (Merged => DropsKept) /\ (Merged => AdditionsKept) => AdditionsAndDropsKept
    BY DEF AdditionsAndDropsKept
<1>. QED
    BY <1>1, <1>2, DropsStayDropped, StoreIsExplained, PTL

\* In particular at the first merge of a repository: the additions of both
\* sides and the drops of both are in it.
THEOREM FirstMergeKeepsWork ==
  ASSUME MaxMerges <= 1
  PROVE  Spec => []AdditionsAndDropsKept
<1>1. MInv => (AdditionsAndDropsKept \/ SidesAreStraight)
  <2>1. ASSUME MInv, report.rev # 0
        PROVE  SidesAreStraight
      BY <2>1, OneMergeIsStraight
  <2>2. report.rev = 0 => AdditionsAndDropsKept
      BY DEF AdditionsAndDropsKept, Merged
  <2>. QED
      BY <2>1, <2>2
<1>. QED
    BY <1>1, StraightMergesKeepWork, StoreIsExplained, PTL

\* decisions.md:224 "the drop wins, and the dependent object gets a corrective
\* drop", at the first merge of a repository.
THEOREM FirstMergeLeavesNoDependents ==
  ASSUME MaxMerges <= 1
  PROVE  Spec => []NothingNeedsDropped
<1>1. MInv => (NothingNeedsDropped \/ SidesAreStraight)
  <2>1. ASSUME MInv, report.rev # 0
        PROVE  SidesAreStraight
      BY <2>1, OneMergeIsStraight
  <2>2. report.rev = 0 => NothingNeedsDropped
      BY DEF NothingNeedsDropped, Merged
  <2>. QED
      BY <2>1, <2>2
<1>. QED
    BY <1>1, StraightMergesKeepWork, StoreIsExplained, PTL

----------------------------------------------------------------------------
(* One schema for every revision.                                            *)

\* Whatever order replay() visits a history in, and whatever was merged in it,
\* the replays that do not raise have the same objects, of the same kinds, in
\* the same tables and over the same columns: what may differ is a name, a
\* type, a flag or a default.
ReplaysHoldTheSame ==
  \A r \in DOMAIN nodes : \A s, t \in schemas[r] :
    ~s.broken /\ ~t.broken =>
      /\ DOMAIN s.objects = DOMAIN t.objects
      /\ \A i \in DOMAIN s.objects, f \in Fixed : s.objects[i][f] = t.objects[i][f]

THEOREM OneSetOfObjects == Spec => []ReplaysHoldTheSame
<1>1. MInv => ReplaysHoldTheSame
  <2> SUFFICES ASSUME MInv, NEW r \in DOMAIN nodes, NEW s \in schemas[r], NEW t \in schemas[r],
                      ~s.broken, ~t.broken
               PROVE  /\ DOMAIN s.objects = DOMAIN t.objects
                      /\ \A i \in DOMAIN s.objects, f \in Fixed : s.objects[i][f] = t.objects[i][f]
      BY DEF ReplaysHoldTheSame
  <2> DEFINE ops == OpsOf(nodes, ancestors[r])
  <2>1. Explained(ops, s) /\ Explained(ops, t) /\ Sound(ops)
      BY HeadHistory DEF MInv
  <2> HIDE DEF ops
  <2>2. DOMAIN s.objects = Left(ops) /\ DOMAIN t.objects = Left(ops)
        /\ Traced(ops, s.objects) /\ Traced(ops, t.objects)
      BY <2>1 DEF Explained
  <2>3. ASSUME NEW i \in DOMAIN s.objects, NEW f \in Fixed
        PROVE  s.objects[i][f] = t.objects[i][f]
    <3>1. PICK x \in Created(ops) : x.id = i /\ s.objects[i][f] = x.object[f]
        BY <2>2 DEF Traced
    <3>2. PICK y \in Created(ops) : y.id = i /\ t.objects[i][f] = y.object[f]
        BY <2>2 DEF Traced
    <3>. QED
        BY <2>1, <3>1, <3>2, SameCreation
  <2>. QED
      BY <2>2, <2>3
<1>. QED
    BY <1>1, StoreIsExplained, PTL

\* A revision without merges in its history has one schema.
LEMMA UnmergedHasOne ==
  ASSUME MInv, NEW r \in DOMAIN nodes, Unmerged(nodes, r)
  PROVE  \E s : schemas[r] = {s}
<1>1. IsStore(nodes, ancestors) /\ schemas[r] = Replays(nodes, ancestors[r])
    BY DEF MInv, StoreInv, IsSound
<1>2. /\ IsHistory(nodes, ancestors[r]) /\ HasLists(nodes, ancestors[r])
      /\ ancestors[r] = Ancestors(nodes, r)
    BY <1>1, StoredHistory DEF IsStore
<1>3. \A p, q \in ancestors[r] : Related(nodes, p, q)
    BY <1>1, <1>2, LineIsRelated DEF Unmerged
<1>4. \E s : Replays(nodes, ancestors[r]) = {s}
    BY <1>2, <1>3, LineReplaysToOneSchema
<1>. QED
    BY <1>1, <1>4

\* decisions.md:170, of a branch that nothing was merged into: it has one
\* schema.
THEOREM UnmergedHeadsReplayOnce ==
  Spec => [](\A b \in Side :
    (\A q \in Ancestors(nodes, heads[b]) : Len(nodes[q].parents) <= 1) => \E s : schemas[heads[b]] = {s})
<1>1. MInv => \A b \in Side :
        (\A q \in Ancestors(nodes, heads[b]) : Len(nodes[q].parents) <= 1) => \E s : schemas[heads[b]] = {s}
    BY UnmergedHasOne DEF Unmerged, MInv, StoreInv
<1>. QED
    BY <1>1, StoreIsExplained, PTL

\* What an operation comes after is in its history.
LEMMA PriorOfAncestors ==
  ASSUME NEW ns, NEW kept, IsStore(ns, kept), NEW r \in DOMAIN ns, NEW i \in DOMAIN ns[r].ops,
         NEW z \in Prior(ns, r, i)
  PROVE  \E p \in Ancestors(ns, r) : z \in ElementsOf(ns[p].ops)
<1>1. CASE z \in OpsOf(ns, Ancestors(ns, r) \ {r})
    BY <1>1 DEF OpsOf
<1>2. CASE z \in {ns[r].ops[j] : j \in 1 .. (i - 1)}
  <2>1. Listed(ns[r].ops)
      BY DEF IsStore
  <2>2. DOMAIN ns[r].ops = 1 .. Len(ns[r].ops) /\ Len(ns[r].ops) \in Nat
      BY <2>1, ListedPlaces
  <2>3. z \in ElementsOf(ns[r].ops)
      BY <1>2, <2>2 DEF ElementsOf
  <2>4. r \in Ancestors(ns, r)
      BY StoreIsDag, AncestorsSelf
  <2>. QED
      BY <2>3, <2>4
<1>. QED
    BY <1>1, <1>2 DEF Prior

\* What the verbs make is well made.
LEMMA SoundIsWellMade ==
  ASSUME NEW ns, NEW kept, IsSound(ns, kept), NEW history \in SUBSET DOMAIN ns
  PROVE  WellMadeHistory(ns, history)
<1>1. ParentsStored(ns) /\ IsStore(ns, kept)
    BY StoreIsDag DEF IsSound
<1> DEFINE ops == OpsOf(ns, DOMAIN ns)
<1>2. Sound(ops)
  <2>1. ParentClosed(ns, DOMAIN ns)
      BY <1>1 DEF ParentsStored
  <2>. QED
      BY <2>1, ClosedIsSound
<1>3. \A r \in DOMAIN ns : \A o \in ElementsOf(ns[r].ops) : o \in ops /\ Fits(ops, o)
    BY <1>2 DEF OpsOf, Sound
<1> HIDE DEF ops
<1>4. ASSUME NEW q \in DOMAIN ns, NEW r \in DOMAIN ns,
             NEW x \in ElementsOf(ns[q].ops), NEW y \in ElementsOf(ns[r].ops),
             x.type \in Creating, y.type \in Creating, y.id = x.id
      PROVE  q = r /\ x = y
  <2>1. PICK j \in DOMAIN ns[q].ops : x = ns[q].ops[j]
      BY DEF ElementsOf
  <2>2. PICK i \in DOMAIN ns[r].ops : y = ns[r].ops[i]
      BY DEF ElementsOf
  <2>3. q = r /\ j = i
      BY <1>4, <2>1, <2>2 DEF IsSound, CreatedOnce
  <2>. QED
      BY <2>1, <2>2, <2>3
<1>5. ASSUME NEW q \in DOMAIN ns, NEW r \in DOMAIN ns,
             NEW x \in ElementsOf(ns[q].ops), NEW y \in ElementsOf(ns[r].ops),
             x.type \in Creating, y.type \in Creating, y.object.table = x.id
      PROVE  x.type = "CreateTable" /\ q \in Ancestors(ns, r)
  <2>1. PICK i \in DOMAIN ns[r].ops : y = ns[r].ops[i]
      BY DEF ElementsOf
  <2>2. Fits(Prior(ns, r, i), y) /\ x.id # NoId
    <3>1. Fits(Prior(ns, r, i), y)
        BY <2>1 DEF IsSound, Fitting
    <3>. QED
        BY <1>3, <3>1 DEF Fits
  <2>3. PICK z \in Prior(ns, r, i) : Makes(z, "table", x.id)
      BY <1>5, <2>2 DEF Fits
  <2>4. PICK p \in Ancestors(ns, r) : z \in ElementsOf(ns[p].ops)
      BY <1>1, <2>1, PriorOfAncestors
  <2>5. p = q /\ z = x
    <3>1. p \in DOMAIN ns /\ z.type \in Creating /\ z.id = x.id
        BY <2>3 DEF Ancestors, Makes
    <3>. QED
        BY <1>4, <1>5, <2>4, <3>1
  <2>6. x.object.kind = "table" /\ x.object.kind = Made[x.type]
      BY <1>3, <1>5, <2>3, <2>5 DEF Makes, Fits
  <2>. QED
      BY <1>5, <2>4, <2>5, <2>6, Kinds
<1>6. ASSUME NEW q \in DOMAIN ns, NEW r \in DOMAIN ns,
             NEW x \in ElementsOf(ns[q].ops), NEW y \in ElementsOf(ns[r].ops),
             x.type \in Creating, y.type \notin Creating, y.id = x.id
      PROVE  KindOf[y.type] = Made[x.type] /\ q \in Ancestors(ns, r)
  <2>1. PICK i \in DOMAIN ns[r].ops : y = ns[r].ops[i]
      BY DEF ElementsOf
  <2>2. PICK z \in Prior(ns, r, i) : Makes(z, KindOf[y.type], y.id)
    <3>1. Fits(Prior(ns, r, i), y)
        BY <2>1 DEF IsSound, Fitting
    <3>. QED
        BY <1>6, <3>1 DEF Fits
  <2>3. PICK p \in Ancestors(ns, r) : z \in ElementsOf(ns[p].ops)
      BY <1>1, <2>1, PriorOfAncestors
  <2>4. p = q /\ z = x
    <3>1. p \in DOMAIN ns /\ z.type \in Creating /\ z.id = x.id
        BY <1>6, <2>2, <2>3 DEF Ancestors, Makes
    <3>. QED
        BY <1>4, <1>6, <2>3, <3>1
  <2>5. x.object.kind = KindOf[y.type] /\ x.object.kind = Made[x.type]
      BY <1>3, <1>6, <2>2, <2>4 DEF Makes, Fits
  <2>. QED
      BY <2>3, <2>4, <2>5
<1>7. \A r \in history : \A o \in ElementsOf(ns[r].ops) :
        /\ o.type \in Variants /\ o.id # NoId
        /\ o.type \in Creating => IsFunction(o.object) /\ (o.type = "CreateTable" <=> o.object.table = NoId)
    BY <1>3 DEF Fits, IsFunction
<1>. QED
    BY <1>4, <1>5, <1>6, <1>7 DEF WellMadeHistory

\* decisions.md:170, of a branch with merges: if there was nothing to ask or to
\* report between any two unrelated migrations of it, its replays all give one
\* schema, or all raise.
THEOREM UnreportedHeadsReplayAlike ==
  Spec => [](\A b \in Side : Unreported(nodes, ancestors[heads[b]]) =>
               \A s, t \in schemas[heads[b]] : Same(s, t))
<1>1. MInv => \A b \in Side : Unreported(nodes, ancestors[heads[b]]) =>
               \A s, t \in schemas[heads[b]] : Same(s, t)
  <2> SUFFICES ASSUME MInv, NEW b \in Side, Unreported(nodes, ancestors[heads[b]])
               PROVE  \A s, t \in schemas[heads[b]] : Same(s, t)
      OBVIOUS
  <2>1. IsSound(nodes, ancestors) /\ IsStore(nodes, ancestors) /\ heads[b] \in DOMAIN nodes
      BY DEF MInv, StoreInv, IsSound
  <2>2. /\ IsHistory(nodes, ancestors[heads[b]]) /\ HasLists(nodes, ancestors[heads[b]])
      BY <2>1, StoredHistory
  <2>3. WellMadeHistory(nodes, ancestors[heads[b]])
      BY <2>1, <2>2, SoundIsWellMade DEF IsHistory
  <2>4. \A s, t \in Replays(nodes, ancestors[heads[b]]) : Same(s, t)
      BY <2>2, <2>3, UnreportedMergeIsOneSchema
  <2>. QED
      BY <2>1, <2>4 DEF MInv, StoreInv
<1>. QED
    BY <1>1, StoreIsExplained, PTL

----------------------------------------------------------------------------
(* emit-ddl lists the operations of a history in an order that replay visits *)
(* it in.                                                                    *)

\* The replay of a list, from nothing.
Replayed(list) == Seqs!FoldLeft(Apply, EmptySchema, list)

\* Schemas of which each is the one before it with one operation more.
Runs(f, ops, n) == \A k \in Nat : k < n => f[k + 1] = Apply(f[k], ops[k + 1])

\* Two lists have the same first operations.
BeginAlike(a, b, n) == \A k \in 1 .. n : a[k] = b[k]

\* Two lists with the same first operations make the same of them.
LEMMA RoundsAgree ==
  ASSUME NEW n \in Nat, NEW a, NEW b, BeginAlike(a, b, n),
         NEW f, NEW g, f[0] = g[0], Runs(f, a, n), Runs(g, b, n)
  PROVE  f[n] = g[n]
<1> DEFINE T == {k \in Nat : k <= n => f[k] = g[k]}
<1>1. 0 \in T
    OBVIOUS
<1>2. ASSUME NEW k \in Nat, k \in T
      PROVE  k + 1 \in T
  <2> SUFFICES ASSUME k + 1 <= n
               PROVE  f[k + 1] = g[k + 1]
      OBVIOUS
  <2>1. k < n /\ k <= n /\ k + 1 \in 1 .. n
      OBVIOUS
  <2>2. f[k] = g[k] /\ a[k + 1] = b[k + 1]
      BY <1>2, <2>1 DEF BeginAlike
  <2>. QED
      BY <2>1, <2>2 DEF Runs
<1>3. Nat \subseteq T
  <2> HIDE DEF T
  <2>. QED
      BY <1>1, <1>2, SetInduction
<1>. QED
    BY <1>3

\* The places of two lists, one behind the other.
LEMMA ConcatPlaces ==
  ASSUME NEW a, NEW b, Listed(a), Listed(b)
  PROVE  /\ Len(a \o b) = Len(a) + Len(b) /\ DOMAIN (a \o b) = 1 .. (Len(a) + Len(b))
         /\ \A i \in 1 .. Len(a) : (a \o b)[i] = a[i]
         /\ \A i \in 1 .. Len(b) : (a \o b)[Len(a) + i] = b[i]
<1> DEFINE S == ElementsOf(a) \cup ElementsOf(b)
<1>1. a \in Seq(S) /\ b \in Seq(S)
  <2>1. PICK n \in Nat : a \in [1 .. n -> ElementsOf(a)]
      BY SeqDef DEF Listed
  <2>2. PICK m \in Nat : b \in [1 .. m -> ElementsOf(b)]
      BY SeqDef DEF Listed
  <2>3. a \in [1 .. n -> S] /\ b \in [1 .. m -> S]
      BY <2>1, <2>2
  <2>. QED
      BY <2>3, SeqDef
<1> HIDE DEF S
<1> DEFINE c == a \o b
<1>2. /\ c \in Seq(S) /\ Len(c) = Len(a) + Len(b)
      /\ \A i \in 1 .. (Len(a) + Len(b)) : c[i] = IF i <= Len(a) THEN a[i] ELSE b[i - Len(a)]
    BY <1>1
<1>3. Len(a) \in Nat /\ Len(b) \in Nat
    BY ListedPlaces
<1>4. DOMAIN c = 1 .. (Len(a) + Len(b))
    BY <1>2
<1> HIDE DEF c
<1>5. ASSUME NEW i \in 1 .. Len(a)
      PROVE  c[i] = a[i]
  <2>1. i \in 1 .. (Len(a) + Len(b)) /\ i <= Len(a)
      BY <1>3
  <2>. QED
      BY <1>2, <2>1
<1>6. ASSUME NEW i \in 1 .. Len(b)
      PROVE  c[Len(a) + i] = b[i]
  <2> DEFINE j == Len(a) + i
  <2>1. j \in 1 .. (Len(a) + Len(b)) /\ ~(j <= Len(a)) /\ j - Len(a) = i
      BY <1>3
  <2> HIDE DEF j
  <2>2. c[j] = b[i]
      BY <1>2, <2>1
  <2>. QED
      BY <2>2 DEF j
<1>. QED
    BY <1>2, <1>4, <1>5, <1>6 DEF c

\* One list behind the other: the second goes on from what the first has made.
LEMMA ReplayedConcat ==
  ASSUME NEW a, NEW b, Listed(a), Listed(b)
  PROVE  Replayed(a \o b) = Seqs!FoldLeft(Apply, Replayed(a), b)
<1> DEFINE m == Len(a)  n == Len(b)  c == a \o b
<1>1. m \in Nat /\ DOMAIN a = 1 .. m /\ n \in Nat /\ DOMAIN b = 1 .. n
    BY ListedPlaces
<1>2. /\ DOMAIN c = 1 .. (m + n)
      /\ \A i \in 1 .. m : c[i] = a[i]
      /\ \A i \in 1 .. n : c[m + i] = b[i]
    BY ConcatPlaces
<1> HIDE DEF m, n, c
<1>3. PICK f : /\ f[0] = EmptySchema
               /\ \A k \in Nat : k < m => f[k + 1] = Apply(f[k], a[k + 1])
               /\ f[m] = Replayed(a)
    BY <1>1, FoldByRounds DEF Replayed
<1>4. PICK g : /\ g[0] = Replayed(a)
               /\ \A k \in Nat : k < n => g[k + 1] = Apply(g[k], b[k + 1])
               /\ g[n] = Seqs!FoldLeft(Apply, Replayed(a), b)
    BY <1>1, FoldByRounds
<1>5. PICK h : /\ h[0] = EmptySchema
               /\ \A k \in Nat : k < m + n => h[k + 1] = Apply(h[k], c[k + 1])
               /\ h[m + n] = Replayed(c)
  <2>1. m + n \in Nat
      BY <1>1
  <2>. QED
      BY <1>2, <2>1, FoldByRounds DEF Replayed
<1>6. \E x : x = Seqs!FoldLeft(Apply, Replayed(a), b)
    OBVIOUS
<1>7. PICK x : x = Seqs!FoldLeft(Apply, Replayed(a), b)
    BY <1>6
<1>8. g[n] = x
    BY <1>4, <1>7
<1>9. /\ g[0] = Replayed(a)
      /\ \A k \in Nat : k < n => g[k + 1] = Apply(g[k], b[k + 1])
    BY <1>4
<1>10. f[m] = h[m]
  <2>1. \A k \in Nat : k < m => k < m + n
      BY <1>1
  <2>2. Runs(h, c, m)
      BY <1>5, <2>1 DEF Runs
  <2>3. Runs(f, a, m) /\ f[0] = h[0]
      BY <1>3, <1>5 DEF Runs
  <2>4. BeginAlike(a, c, m)
      BY <1>2 DEF BeginAlike
  <2>. QED
      BY <1>1, <2>2, <2>3, <2>4, RoundsAgree
<1> DEFINE later == [k \in 0 .. n |-> h[m + k]]
<1>11. \A k \in 0 .. n : later[k] = h[m + k]
    OBVIOUS
<1> HIDE DEF later
<1>12. \A k \in Nat : k < n => later[k + 1] = Apply(later[k], b[k + 1])
  <2> SUFFICES ASSUME NEW k \in Nat, k < n
               PROVE  later[k + 1] = Apply(later[k], b[k + 1])
      OBVIOUS
  <2>1. /\ m + k \in Nat /\ m + k < m + n /\ (m + k) + 1 = m + (k + 1)
        /\ k \in 0 .. n /\ k + 1 \in 0 .. n /\ k + 1 \in 1 .. n
      BY <1>1
  <2>2. h[m + (k + 1)] = Apply(h[m + k], c[m + (k + 1)])
      BY <1>5, <2>1
  <2>. QED
      BY <1>2, <1>11, <2>1, <2>2
<1>13. later[0] = g[0]
  <2>1. 0 \in 0 .. n /\ m + 0 = m
      BY <1>1
  <2>. QED
      BY <1>3, <1>9, <1>10, <1>11, <2>1
<1>14. later[n] = g[n]
  <2>1. Runs(later, b, n) /\ Runs(g, b, n) /\ BeginAlike(b, b, n)
      BY <1>9, <1>12 DEF Runs, BeginAlike
  <2>. QED
      BY <1>1, <1>13, <2>1, RoundsAgree
<1>15. later[n] = Replayed(c)
  <2>1. n \in 0 .. n
      BY <1>1
  <2>. QED
      BY <1>5, <1>11, <2>1
<1>16. Replayed(c) = x
    BY <1>8, <1>14, <1>15
<1>. QED
    BY <1>7, <1>16 DEF c

\* FlattenSeq of one list more.
LEMMA FlattenMore ==
  ASSUME NEW lists, Listed(lists), \A i \in DOMAIN lists : Listed(lists[i]), NEW x, Listed(x)
  PROVE  Seqs!FlattenSeq(Append(lists, x)) =
           IF lists = <<>> THEN x ELSE Seqs!FlattenSeq(lists) \o x
<1> DEFINE L == Len(lists)
           more == Append(lists, x)
           flat == CHOOSE flat : IsFlat(lists, L, flat)
           next == CHOOSE f : IsFlat(more, Len(more), f)
<1>1. L \in Nat /\ DOMAIN lists = 1 .. L
    BY ListedPlaces
<1>2. /\ Len(more) = L + 1 /\ \A i \in DOMAIN lists : more[i] = lists[i]
      /\ more[L + 1] = x
    BY ListedAppend
<1>3. Seqs!FlattenSeq(lists) = IF L = 0 THEN lists ELSE flat[L]
    BY DEF Seqs!FlattenSeq, IsFlat
<1>4. Seqs!FlattenSeq(more) = IF Len(more) = 0 THEN more ELSE next[Len(more)]
    BY DEF Seqs!FlattenSeq, IsFlat
<1>5. IsFlat(lists, L, flat)
    BY <1>1, FlatExists
<1>6. IsFlat(more, L + 1, next)
  <2>1. L + 1 \in Nat
      BY <1>1
  <2>2. \E f : IsFlat(more, L + 1, f)
      BY <2>1, FlatExists
  <2>. QED
      BY <1>2, <2>2
<1>7. L = 0 <=> lists = <<>>
    BY DEF Listed
<1> HIDE DEF flat, next, L, more
<1>8. Seqs!FlattenSeq(more) = next[L + 1]
    BY <1>1, <1>2, <1>4
<1>9. \A i \in 1 .. L : flat[i] = IF i = 1 THEN lists[i] ELSE flat[i - 1] \o lists[i]
    BY <1>5 DEF IsFlat
<1>10. \A i \in 1 .. (L + 1) : next[i] = IF i = 1 THEN more[i] ELSE next[i - 1] \o more[i]
    BY <1>6 DEF IsFlat
<1>11. CASE L = 0
  <2>1. L + 1 = 1 /\ L + 1 \in 1 .. (L + 1)
      BY <1>11
  <2>2. next[L + 1] = more[L + 1]
      BY <1>10, <2>1
  <2>. QED
      BY <1>2, <1>7, <1>8, <1>11, <2>2 DEF more
<1>12. CASE L # 0
  <2> DEFINE T == {k \in Nat : k + 1 <= L => next[k + 1] = flat[k + 1]}
  <2>1. 0 \in T
    <3> DEFINE k == 0 + 1
    <3>1. k = 1 /\ k \in 1 .. L /\ k \in 1 .. (L + 1)
        BY <1>1, <1>12
    <3> HIDE DEF k
    <3>2. next[k] = flat[k]
        BY <1>1, <1>2, <1>9, <1>10, <3>1
    <3>. QED
        BY <3>2 DEF k
  <2>2. ASSUME NEW n \in Nat, n \in T
        PROVE  n + 1 \in T
    <3> SUFFICES ASSUME (n + 1) + 1 <= L
                 PROVE  next[(n + 1) + 1] = flat[(n + 1) + 1]
        OBVIOUS
    <3> DEFINE k == (n + 1) + 1
    <3>1. k \in 1 .. L /\ k \in 1 .. (L + 1) /\ k # 1 /\ k - 1 = n + 1 /\ n + 1 <= L
        BY <1>1
    <3> HIDE DEF k
    <3>2. next[k - 1] = flat[k - 1]
        BY <2>2, <3>1
    <3>3. more[k] = lists[k]
        BY <1>1, <1>2, <3>1
    <3>4. next[k] = next[k - 1] \o more[k] /\ flat[k] = flat[k - 1] \o lists[k]
        BY <1>9, <1>10, <3>1
    <3>. QED
        BY <3>2, <3>3, <3>4 DEF k
  <2>3. Nat \subseteq T
    <3> HIDE DEF T
    <3>. QED
        BY <2>1, <2>2, SetInduction
  <2>4. next[L] = flat[L]
    <3>1. L - 1 \in Nat /\ (L - 1) + 1 = L /\ L <= L
        BY <1>1, <1>12
    <3>2. L - 1 \in T
        BY <2>3, <3>1
    <3>3. next[(L - 1) + 1] = flat[(L - 1) + 1]
        BY <3>1, <3>2
    <3>. QED
        BY <3>1, <3>3
  <2>5. L + 1 \in 1 .. (L + 1) /\ L + 1 # 1 /\ (L + 1) - 1 = L
      BY <1>1, <1>12
  <2>6. next[L + 1] = next[L] \o more[L + 1]
      BY <1>10, <2>5
  <2>. QED
      BY <1>2, <1>3, <1>7, <1>8, <1>12, <2>4, <2>6 DEF more
<1>. QED
    BY <1>11, <1>12

\* The first operations of two lists, one behind the other.
LEMMA BeforeConcat ==
  ASSUME NEW a, NEW b, Listed(a), Listed(b)
  PROVE  /\ \A k \in 0 .. Len(a) : Before(a \o b, k) = Before(a, k)
         /\ \A k \in 0 .. Len(b) : Before(a \o b, Len(a) + k) = ElementsOf(a) \cup Before(b, k)
<1> DEFINE m == Len(a)  n == Len(b)  c == a \o b
<1>1. m \in Nat /\ DOMAIN a = 1 .. m /\ n \in Nat /\ DOMAIN b = 1 .. n
    BY ListedPlaces
<1>2. /\ \A i \in 1 .. m : c[i] = a[i]
      /\ \A i \in 1 .. n : c[m + i] = b[i]
    BY ConcatPlaces
<1> HIDE DEF m, n, c
<1>3. ASSUME NEW k \in 0 .. m
      PROVE  Before(c, k) = Before(a, k)
  <2>1. \A j \in 1 .. k : j \in 1 .. m
      BY <1>1
  <2>. QED
      BY <1>2, <2>1 DEF Before
<1>4. ASSUME NEW k \in 0 .. n
      PROVE  Before(c, m + k) = ElementsOf(a) \cup Before(b, k)
  <2>1. \A j \in 1 .. m : j \in 1 .. (m + k)
      BY <1>1
  <2>2. \A j \in 1 .. k : m + j \in 1 .. (m + k) /\ j \in 1 .. n
      BY <1>1
  <2>3. \A j \in 1 .. (m + k) : j \in 1 .. m \/ (j - m \in 1 .. k /\ m + (j - m) = j)
      BY <1>1
  <2>4. Before(c, m + k) \subseteq ElementsOf(a) \cup Before(b, k)
    <3> SUFFICES ASSUME NEW j \in 1 .. (m + k)
                 PROVE  c[j] \in ElementsOf(a) \cup Before(b, k)
        BY DEF Before
    <3>1. CASE j \in 1 .. m
        BY <1>1, <1>2, <3>1 DEF ElementsOf
    <3>2. CASE j - m \in 1 .. k /\ m + (j - m) = j
      <4> DEFINE i == j - m
      <4>1. i \in 1 .. k /\ m + i = j
          BY <3>2
      <4> HIDE DEF i
      <4>2. c[m + i] = b[i]
          BY <1>2, <2>2, <4>1
      <4>. QED
          BY <4>1, <4>2 DEF Before
    <3>. QED
        BY <2>3, <3>1, <3>2
  <2>5. ElementsOf(a) \subseteq Before(c, m + k)
      BY <1>1, <1>2, <2>1 DEF ElementsOf, Before
  <2>6. Before(b, k) \subseteq Before(c, m + k)
    <3> SUFFICES ASSUME NEW j \in 1 .. k
                 PROVE  b[j] \in Before(c, m + k)
        BY DEF Before
    <3>1. m + j \in 1 .. (m + k) /\ c[m + j] = b[j]
        BY <1>2, <2>2
    <3>. QED
        BY <3>1 DEF Before
  <2>. QED
      BY <2>4, <2>5, <2>6
<1>. QED
    BY <1>3, <1>4 DEF m, n, c

\* A list of operations that has what it needs, behind one that has.
LEMMA GroundedConcat ==
  ASSUME NEW a, NEW b, Grounded(a), Listed(b),
         \A i \in DOMAIN b : Fits(ElementsOf(a) \cup Before(b, i - 1), b[i]),
         \A i, j \in DOMAIN b :
           {b[i].type, b[j].type} \subseteq Creating /\ b[i].id = b[j].id => i = j,
         \A i \in DOMAIN b, x \in ElementsOf(a) :
           {x.type, b[i].type} \subseteq Creating => x.id # b[i].id
  PROVE  Grounded(a \o b)
<1> DEFINE m == Len(a)  n == Len(b)  c == a \o b
<1>0. Listed(a)
    BY DEF Grounded
<1>1. m \in Nat /\ DOMAIN a = 1 .. m /\ n \in Nat /\ DOMAIN b = 1 .. n
    BY <1>0, ListedPlaces
<1>2. /\ DOMAIN c = 1 .. (m + n)
      /\ \A i \in 1 .. m : c[i] = a[i]
      /\ \A i \in 1 .. n : c[m + i] = b[i]
    BY <1>0, ConcatPlaces
<1>3. /\ \A k \in 0 .. m : Before(c, k) = Before(a, k)
      /\ \A k \in 0 .. n : Before(c, m + k) = ElementsOf(a) \cup Before(b, k)
    BY <1>0, BeforeConcat
<1>4. Listed(c)
    BY <1>0, ListedConcat
<1> HIDE DEF m, n, c
<1>5. \A j \in 1 .. (m + n) : j \in 1 .. m \/ \E i \in 1 .. n : j = m + i
  <2> SUFFICES ASSUME NEW j \in 1 .. (m + n), j \notin 1 .. m
               PROVE  \E i \in 1 .. n : j = m + i
      OBVIOUS
  <2>1. j - m \in 1 .. n /\ j = m + (j - m)
      BY <1>1
  <2>. QED
      BY <2>1
<1>6. ASSUME NEW i \in DOMAIN c
      PROVE  Fits(Before(c, i - 1), c[i])
  <2>1. CASE i \in 1 .. m
    <3>1. i - 1 \in 0 .. m /\ c[i] = a[i] /\ i \in DOMAIN a
        BY <1>1, <1>2, <2>1
    <3>. QED
        BY <1>3, <3>1 DEF Grounded
  <2>2. CASE i \notin 1 .. m
    <3>1. PICK j \in 1 .. n : i = m + j
        BY <1>2, <1>5, <2>2
    <3>2. j - 1 \in 0 .. n /\ i - 1 = m + (j - 1) /\ c[i] = b[j] /\ j \in DOMAIN b
        BY <1>1, <1>2, <3>1
    <3>3. Before(c, i - 1) = ElementsOf(a) \cup Before(b, j - 1)
        BY <1>3, <3>2
    <3>. QED
        BY <3>2, <3>3
  <2>. QED
      BY <2>1, <2>2
<1>7. ASSUME NEW i \in DOMAIN c, NEW j \in DOMAIN c,
             {c[i].type, c[j].type} \subseteq Creating, c[i].id = c[j].id
      PROVE  i = j
  <2>1. CASE i \in 1 .. m /\ j \in 1 .. m
      BY <1>1, <1>2, <1>7, <2>1 DEF Grounded
  <2>2. CASE i \in 1 .. m /\ j \notin 1 .. m
    <3>1. PICK q \in 1 .. n : j = m + q
        BY <1>2, <1>5, <2>2
    <3>2. c[i] \in ElementsOf(a) /\ c[j] = b[q]
        BY <1>1, <1>2, <2>2, <3>1 DEF ElementsOf
    <3>. QED
        BY <1>1, <1>7, <3>2
  <2>3. CASE i \notin 1 .. m /\ j \in 1 .. m
    <3>1. PICK q \in 1 .. n : i = m + q
        BY <1>2, <1>5, <2>3
    <3>2. c[j] \in ElementsOf(a) /\ c[i] = b[q]
        BY <1>1, <1>2, <2>3, <3>1 DEF ElementsOf
    <3>. QED
        BY <1>1, <1>7, <3>2
  <2>4. CASE i \notin 1 .. m /\ j \notin 1 .. m
    <3>1. PICK p \in 1 .. n : i = m + p
        BY <1>2, <1>5, <2>4
    <3>2. PICK q \in 1 .. n : j = m + q
        BY <1>2, <1>5, <2>4
    <3>3. c[i] = b[p] /\ c[j] = b[q]
        BY <1>2, <3>1, <3>2
    <3>. QED
        BY <1>1, <1>7, <3>1, <3>2, <3>3
  <2>. QED
      BY <2>1, <2>2, <2>3, <2>4
<1>. QED
    BY <1>4, <1>6, <1>7 DEF Grounded, c

\* OperationsOf: the operations of the revisions of a list, one behind the other.
OpsAlong(ns, order) == Seqs!FlattenSeq([i \in DOMAIN order |-> ns[order[i]].ops])

\* Those of no revision.
LEMMA AlongNone ==
  ASSUME NEW ns
  PROVE  OpsAlong(ns, <<>>) = <<>>
<1> DEFINE lists == [i \in DOMAIN <<>> |-> ns[<<>>[i]].ops]
<1>1. DOMAIN <<>> = {} /\ DOMAIN lists = {}
    OBVIOUS
<1>2. lists = <<>>
    OBVIOUS
<1> HIDE DEF lists
<1>3. Len(lists) = 0
    BY <1>2
<1>4. Seqs!FlattenSeq(lists) = lists
    BY <1>3 DEF Seqs!FlattenSeq
<1>. QED
    BY <1>2, <1>4 DEF OpsAlong, lists

\* Those of one revision more.
LEMMA AlongMore ==
  ASSUME NEW ns, NEW o, Listed(o), \A i \in DOMAIN o : Listed(ns[o[i]].ops),
         NEW r, Listed(ns[r].ops)
  PROVE  OpsAlong(ns, Append(o, r)) = OpsAlong(ns, o) \o ns[r].ops
<1> DEFINE n == Len(o)
           lists == [i \in DOMAIN o |-> ns[o[i]].ops]
           longer == Append(o, r)
           more == [i \in DOMAIN longer |-> ns[longer[i]].ops]
           ops == ns[r].ops
<1>1. n \in Nat /\ DOMAIN o = 1 .. n
    BY ListedPlaces
<1>2. /\ DOMAIN longer = DOMAIN o \cup {n + 1}
      /\ \A i \in DOMAIN o : longer[i] = o[i]
      /\ longer[n + 1] = r
    BY ListedAppend
<1> HIDE DEF longer, n
<1>3. Listed(lists) /\ Len(lists) = n /\ DOMAIN lists = 1 .. n
  <2>1. DOMAIN lists = 1 .. n /\ lists = [i \in 1 .. n |-> lists[i]]
      BY <1>1
  <2> HIDE DEF lists
  <2>. QED
      BY <1>1, <2>1, ListedFunction
<1>4. \A i \in DOMAIN lists : Listed(lists[i]) /\ lists[i] = ns[o[i]].ops
    BY <1>1
<1>5. /\ DOMAIN more = DOMAIN o \cup {n + 1}
      /\ more = [i \in DOMAIN o \cup {n + 1} |-> more[i]]
      /\ \A i \in DOMAIN o : more[i] = ns[o[i]].ops
      /\ more[n + 1] = ops
    BY <1>2
<1> HIDE DEF lists, more, ops
<1>6. Append(lists, ops) = more
  <2> DEFINE app == Append(lists, ops)
  <2>1. /\ Listed(app) /\ Len(app) = n + 1
        /\ \A i \in DOMAIN lists : app[i] = lists[i]
        /\ app[n + 1] = ops
      BY <1>3, ListedAppend
  <2>2. app = [i \in 1 .. (n + 1) |-> app[i]] /\ DOMAIN app = 1 .. (n + 1)
    <3> HIDE DEF app
    <3>. QED
        BY <2>1 DEF Listed
  <2> HIDE DEF app
  <2>3. 1 .. (n + 1) = (1 .. n) \cup {n + 1}
      BY <1>1
  <2>4. \A i \in 1 .. (n + 1) : app[i] = more[i]
      BY <1>1, <1>3, <1>4, <1>5, <2>1, <2>3
  <2>5. app = more
      BY <1>1, <1>5, <2>2, <2>3, <2>4
  <2>. QED
      BY <2>5 DEF app
<1>7. OpsAlong(ns, o) = Seqs!FlattenSeq(lists) /\ OpsAlong(ns, longer) = Seqs!FlattenSeq(more)
    BY DEF OpsAlong, lists, more
<1>8. Listed(ops)
    BY DEF ops
<1>9. Seqs!FlattenSeq(more) = IF lists = <<>> THEN ops ELSE Seqs!FlattenSeq(lists) \o ops
    BY <1>3, <1>4, <1>6, <1>8, FlattenMore
<1>10. CASE lists = <<>>
  <2>1. Len(lists) = 0
      BY <1>10
  <2>2. Seqs!FlattenSeq(lists) = <<>>
      BY <1>10, <2>1 DEF Seqs!FlattenSeq
  <2>3. <<>> \o ops = ops
    <3>1. ops \in Seq(ElementsOf(ops))
        BY <1>8 DEF Listed
    <3>. QED
        BY <3>1
  <2>. QED
      BY <1>7, <1>9, <1>10, <2>2, <2>3 DEF longer, ops
<1>11. CASE lists # <<>>
    BY <1>7, <1>9, <1>11 DEF longer, ops
<1>. QED
    BY <1>10, <1>11

\* The revisions that can come next: their parents have come.
CanFollow(ns, history, order) ==
  {r \in history \ ElementsOf(order) : ParentsOf(ns, r) \subseteq ElementsOf(order)}

\* The orders of n + 1 revisions, from those of n.
LongerOrders(ns, history, orders) ==
  UNION {{Append(o, r) : r \in CanFollow(ns, history, o)} : o \in orders}

\* The orders of a history after n revisions.
IsOrders(ns, history, orders) ==
  orders = [n \in Nat |-> IF n = 0 THEN {<<>>} ELSE LongerOrders(ns, history, orders[n - 1])]

\* The first n revisions, in every order that puts parents first.
OrdersOf(ns, history) == CHOOSE orders : IsOrders(ns, history, orders)

\* There is such a function: by induction on n.
LEMMA OrdersExist ==
  ASSUME NEW ns, NEW history
  PROVE  IsOrders(ns, history, OrdersOf(ns, history))
<1> DEFINE Upto(m, f) == /\ f[0] = {<<>>}
                         /\ \A k \in Nat : k < m => f[k + 1] = LongerOrders(ns, history, f[k])
           S == {m \in Nat : \E f : Upto(m, f)}
<1>1. 0 \in S
  <2>1. Upto(0, [k \in {0} |-> {<<>>}])
      OBVIOUS
  <2>. QED
      BY <2>1
<1>2. ASSUME NEW m \in Nat, m \in S
      PROVE  m + 1 \in S
  <2>1. PICK f : Upto(m, f)
      BY <1>2
  <2> DEFINE g == [k \in 0 .. (m + 1) |-> IF k = m + 1 THEN LongerOrders(ns, history, f[m]) ELSE f[k]]
  <2>2. g[0] = {<<>>}
      BY <2>1
  <2>3. ASSUME NEW k \in Nat, k < m + 1
        PROVE  g[k + 1] = LongerOrders(ns, history, g[k])
    <3>1. g[k] = f[k]
        BY <2>3
    <3>2. CASE k = m
        BY <3>1, <3>2
    <3>3. CASE k < m
        BY <2>1, <3>1, <3>3
    <3>. QED
        BY <2>3, <3>2, <3>3
  <2> HIDE DEF g
  <2>4. Upto(m + 1, g)
      BY <2>2, <2>3
  <2>. QED
      BY <2>4
<1>3. Nat \subseteq S
  <2> HIDE DEF S
  <2>. QED
      BY <1>1, <1>2, SetInduction
<1> DEFINE f(m) == CHOOSE f : Upto(m, f)
           orders == [n \in Nat |-> f(n)[n]]
<1>4. \A m \in Nat : Upto(m, f(m))
    BY <1>3
<1> HIDE DEF f, S
<1>5. \A m \in Nat : f(m + 1)[m] = f(m)[m]
  <2> SUFFICES ASSUME NEW m \in Nat
               PROVE  f(m + 1)[m] = f(m)[m]
      OBVIOUS
  <2> DEFINE T == {k \in Nat : k <= m => f(m + 1)[k] = f(m)[k]}
  <2>1. 0 \in T
    <3>1. m + 1 \in Nat
        OBVIOUS
    <3>. QED
        BY <1>4, <3>1
  <2>2. ASSUME NEW k \in Nat, k \in T
        PROVE  k + 1 \in T
    <3>1. m + 1 \in Nat
        OBVIOUS
    <3>2. Upto(m, f(m)) /\ Upto(m + 1, f(m + 1))
        BY <1>4, <3>1
    <3>3. CASE k + 1 <= m
      <4>1. k < m /\ k < m + 1 /\ f(m + 1)[k] = f(m)[k]
          BY <2>2, <3>3
      <4>. QED
          BY <3>2, <4>1
    <3>. QED
        BY <3>3
  <2>3. Nat \subseteq T
    <3> HIDE DEF T
    <3>. QED
        BY <2>1, <2>2, SetInduction
  <2>. QED
      BY <2>3
<1>6. orders[0] = {<<>>}
    BY <1>4
<1>7. ASSUME NEW n \in Nat, n # 0
      PROVE  orders[n] = LongerOrders(ns, history, orders[n - 1])
  <2>1. n - 1 \in Nat /\ (n - 1) + 1 = n /\ n - 1 < n
      BY <1>7
  <2>2. f(n)[n] = LongerOrders(ns, history, f(n)[n - 1])
      BY <1>4, <2>1
  <2>3. f(n)[n - 1] = f(n - 1)[n - 1]
      BY <1>5, <2>1
  <2>. QED
      BY <2>1, <2>2, <2>3
<1>8. orders = [n \in Nat |-> IF n = 0 THEN {<<>>} ELSE LongerOrders(ns, history, orders[n - 1])]
    BY <1>6, <1>7
<1> HIDE DEF orders
<1>. QED
    BY <1>8 DEF IsOrders, OrdersOf

\* Its first value, and from each value the next.
LEMMA OrderSteps ==
  ASSUME NEW ns, NEW history
  PROVE  /\ OrdersOf(ns, history)[0] = {<<>>}
         /\ \A n \in Nat : OrdersOf(ns, history)[n + 1] = LongerOrders(ns, history, OrdersOf(ns, history)[n])
<1> DEFINE orders == OrdersOf(ns, history)
<1>1. orders = [n \in Nat |-> IF n = 0 THEN {<<>>} ELSE LongerOrders(ns, history, orders[n - 1])]
    BY OrdersExist DEF IsOrders
<1> HIDE DEF orders
<1>2. orders[0] = {<<>>}
    BY <1>1
<1>3. ASSUME NEW n \in Nat
      PROVE  orders[n + 1] = LongerOrders(ns, history, orders[n])
  <2>1. n + 1 \in Nat /\ n + 1 # 0 /\ (n + 1) - 1 = n
      OBVIOUS
  <2>. QED
      BY <1>1, <2>1
<1>. QED
    BY <1>2, <1>3 DEF orders

\* What Orders gives is what the function ends with.
LEMMA OrdersAreLast ==
  ASSUME NEW history
  PROVE  Orders(history) = OrdersOf(nodes, history)[Cardinality(history)]
  BY DEF Orders, OrdersOf, IsOrders, LongerOrders, CanFollow, ElementsOf, Seqs!ToSet

\* Where an operation of a history stands in its list: behind the revisions of
\* a set with its parents in it, and what comes before it in its own.
StandsAt(ns, history, list, k) ==
  \E r \in history, D \in SUBSET history :
    /\ r \notin D /\ ParentClosed(ns, D) /\ ParentsOf(ns, r) \subseteq D
    /\ \E i \in DOMAIN ns[r].ops :
         /\ list[k] = ns[r].ops[i]
         /\ Before(list, k - 1) = OpsOf(ns, D) \cup {ns[r].ops[j] : j \in 1 .. (i - 1)}

\* An order is that of a replay, and the operations along it are in an order in
\* which they can be replayed.
IsVisited(ns, history, replays, o) ==
  /\ Listed(o) /\ ElementsOf(o) \subseteq history /\ ParentClosed(ns, ElementsOf(o))
  /\ \E v \in replays : v.done = ElementsOf(o) /\ v.schema = Replayed(OpsAlong(ns, o))
  /\ Grounded(OpsAlong(ns, o)) /\ ElementsOf(OpsAlong(ns, o)) = OpsOf(ns, ElementsOf(o))
  /\ \A k \in DOMAIN OpsAlong(ns, o) : StandsAt(ns, history, OpsAlong(ns, o), k)

\* The empty order is.
LEMMA NoneVisited ==
  ASSUME NEW ns, NEW history
  PROVE  IsVisited(ns, history, Beginning, <<>>)
<1>1. OpsAlong(ns, <<>>) = <<>>
    BY AlongNone
<1>2. Listed(<<>>) /\ ElementsOf(<<>>) = {} /\ DOMAIN <<>> = {}
    BY EmptyListed
<1>3. Grounded(<<>>)
    BY <1>2 DEF Grounded
<1>4. Replayed(<<>>) = EmptySchema
  <2>1. DOMAIN <<>> = 1 .. 0
      OBVIOUS
  <2>2. Seqs!FoldLeft(Apply, EmptySchema, <<>>) = EmptySchema
      BY <2>1, FoldShort
  <2>. QED
      BY <2>2 DEF Replayed
<1> DEFINE v == [done |-> {}, schema |-> EmptySchema]
<1>5. v \in Beginning /\ v.done = {} /\ v.schema = EmptySchema
    BY DEF Beginning
<1> HIDE DEF v
<1>6. OpsOf(ns, {}) = {} /\ ParentClosed(ns, {})
    BY DEF OpsOf, ParentClosed
<1>. QED
    BY <1>1, <1>2, <1>3, <1>4, <1>5, <1>6 DEF IsVisited

\* One revision more, and it is still.
LEMMA MoreVisited ==
  ASSUME NEW ns, NEW kept, IsSound(ns, kept), NEW history, IsHistory(ns, history),
         NEW replays, NEW o, IsVisited(ns, history, replays, o), NEW r \in CanFollow(ns, history, o)
  PROVE  IsVisited(ns, history, Longer(ns, history, replays), Append(o, r))
<1> DEFINE list == OpsAlong(ns, o)
           D == ElementsOf(o)
           ops == ns[r].ops
           longer == Append(o, r)
           more == OpsAlong(ns, longer)
           m == Len(list)  n == Len(ops)
<1>1. /\ Listed(o) /\ D \subseteq history /\ ParentClosed(ns, D)
      /\ Grounded(list) /\ Listed(list) /\ ElementsOf(list) = OpsOf(ns, D)
    BY DEF IsVisited, Grounded
<1>2. r \in history \ D /\ ParentsOf(ns, r) \subseteq D
    BY DEF CanFollow
<1>3. history \subseteq DOMAIN ns /\ \A q \in DOMAIN ns : Listed(ns[q].ops)
    BY DEF IsHistory, IsSound, IsStore
<1>4. \A i \in DOMAIN o : o[i] \in D
    BY DEF ElementsOf
<1>5. Listed(ops)
    BY <1>2, <1>3
<1>6. more = list \o ops
  <2>1. \A i \in DOMAIN o : Listed(ns[o[i]].ops)
      BY <1>1, <1>3, <1>4
  <2>. QED
      BY <1>1, <1>5, <2>1, AlongMore
<1>7. Listed(longer) /\ ElementsOf(longer) = D \cup {r}
    BY <1>1, ListedAppend
<1>8. ParentClosed(ns, D \cup {r})
    BY <1>1, <1>2 DEF ParentClosed
<1>9. /\ m \in Nat /\ DOMAIN list = 1 .. m /\ n \in Nat /\ DOMAIN ops = 1 .. n
    BY <1>1, <1>5, ListedPlaces
<1>10. OpsOf(ns, D \cup {r}) = OpsOf(ns, D) \cup ElementsOf(ops)
    BY DEF OpsOf
<1>11. Ancestors(ns, r) \ {r} \subseteq D
    BY <1>1, <1>2, <1>3, <1>8, AncestorsLeast
<1>12. ASSUME NEW i \in DOMAIN ops
       PROVE  Fits(OpsOf(ns, D) \cup Before(ops, i - 1), ops[i])
  <2>1. Fits(Prior(ns, r, i), ops[i])
      BY <1>2, <1>3 DEF IsSound, Fitting
  <2>2. Prior(ns, r, i) \subseteq OpsOf(ns, D) \cup Before(ops, i - 1)
      BY <1>11 DEF Prior, OpsOf, Before
  <2>. QED
      BY <2>1, <2>2, FitsMore
<1>13. \A i, j \in DOMAIN ops :
         {ops[i].type, ops[j].type} \subseteq Creating /\ ops[i].id = ops[j].id => i = j
    BY <1>2, <1>3 DEF IsSound, CreatedOnce
<1>14. ASSUME NEW i \in DOMAIN ops, NEW x \in OpsOf(ns, D), {x.type, ops[i].type} \subseteq Creating
       PROVE  x.id # ops[i].id
  <2>1. PICK q \in D : x \in ElementsOf(ns[q].ops)
      BY DEF OpsOf
  <2>2. PICK j \in DOMAIN ns[q].ops : x = ns[q].ops[j]
      BY <2>1 DEF ElementsOf
  <2>3. q \in DOMAIN ns /\ r \in DOMAIN ns /\ q # r
      BY <1>1, <1>2, <1>3
  <2>4. {ns[q].ops[j].type, ns[r].ops[i].type} \subseteq Creating
      BY <1>14, <2>2
  <2> HIDE DEF D
  <2>. QED
      BY <2>2, <2>3, <2>4 DEF IsSound, CreatedOnce
<1> HIDE DEF m, n, list, ops, D, longer, more
<1>15. Grounded(list \o ops)
  <2>1. \A i \in DOMAIN ops : Fits(ElementsOf(list) \cup Before(ops, i - 1), ops[i])
      BY <1>1, <1>12
  <2>2. \A i \in DOMAIN ops, x \in ElementsOf(list) :
          {x.type, ops[i].type} \subseteq Creating => x.id # ops[i].id
      BY <1>1, <1>14
  <2>. QED
      BY <1>1, <1>5, <1>13, <2>1, <2>2, GroundedConcat
<1>16. ElementsOf(list \o ops) = OpsOf(ns, D \cup {r})
    BY <1>1, <1>5, <1>10, ListedConcat
<1>17. \E w \in Longer(ns, history, replays) : w.done = D \cup {r} /\ w.schema = Replayed(list \o ops)
  <2>1. PICK v \in replays : v.done = D /\ v.schema = Replayed(list)
      BY DEF IsVisited, D, list
  <2>2. r \in CanVisit(ns, history, v.done)
      BY <1>2, <2>1 DEF CanVisit
  <2>3. Visit(ns, v, r) \in Longer(ns, history, replays)
      BY <2>2 DEF Longer
  <2>4. Visit(ns, v, r).done = D \cup {r} /\ Visit(ns, v, r).schema = Visited(ns, Replayed(list), r)
      BY <2>1 DEF Visit
  <2>5. Visited(ns, Replayed(list), r) = Replayed(list \o ops)
      BY <1>1, <1>5, ReplayedConcat DEF Visited, ops
  <2>. QED
      BY <2>3, <2>4, <2>5
<1>18. ASSUME NEW k \in DOMAIN (list \o ops)
       PROVE  StandsAt(ns, history, list \o ops, k)
  <2> DEFINE c == list \o ops
  <2>1. /\ DOMAIN c = 1 .. (m + n)
        /\ \A i \in 1 .. m : c[i] = list[i]
        /\ \A i \in 1 .. n : c[m + i] = ops[i]
      BY <1>1, <1>5, ConcatPlaces DEF m, n
  <2>2. /\ \A j \in 0 .. m : Before(c, j) = Before(list, j)
        /\ \A j \in 0 .. n : Before(c, m + j) = ElementsOf(list) \cup Before(ops, j)
      BY <1>1, <1>5, BeforeConcat DEF m, n
  <2> HIDE DEF c
  <2>3. CASE k \in 1 .. m
    <3>1. StandsAt(ns, history, list, k)
        BY <1>9, <2>3 DEF IsVisited, list
    <3>2. k - 1 \in 0 .. m
        BY <1>9, <2>3
    <3>3. c[k] = list[k] /\ Before(c, k - 1) = Before(list, k - 1)
        BY <2>1, <2>2, <2>3, <3>2
    <3>. QED
        BY <3>1, <3>3 DEF StandsAt, c
  <2>4. CASE k \notin 1 .. m
    <3>1. k \in 1 .. (m + n)
        BY <2>1 DEF c
    <3> DEFINE i == k - m
    <3>2. i \in 1 .. n /\ m + i = k /\ i - 1 \in 0 .. n /\ k - 1 = m + (i - 1)
        BY <1>9, <2>4, <3>1
    <3> HIDE DEF i
    <3>3. c[k] = ops[i] /\ Before(c, k - 1) = OpsOf(ns, D) \cup Before(ops, i - 1)
        BY <1>1, <2>1, <2>2, <3>2
    <3>4. i \in DOMAIN ns[r].ops /\ c[k] = ns[r].ops[i]
        BY <1>9, <3>2, <3>3 DEF ops
    <3>5. Before(c, k - 1) = OpsOf(ns, D) \cup {ns[r].ops[j] : j \in 1 .. (i - 1)}
        BY <3>3 DEF Before, ops
    <3>6. r \in history /\ D \in SUBSET history /\ r \notin D
        BY <1>1, <1>2
    <3>. QED
        BY <1>1, <1>2, <3>4, <3>5, <3>6 DEF StandsAt, c
  <2>. QED
      BY <2>3, <2>4
<1>19. ElementsOf(longer) \subseteq history
    BY <1>1, <1>2, <1>7
<1>20. more = list \o ops
    BY <1>6
<1> DEFINE c == list \o ops
<1> HIDE DEF c
<1>21. /\ more = c /\ Grounded(c) /\ ElementsOf(c) = OpsOf(ns, D \cup {r})
       /\ \E w \in Longer(ns, history, replays) : w.done = D \cup {r} /\ w.schema = Replayed(c)
       /\ \A k \in DOMAIN c : StandsAt(ns, history, c, k)
    BY <1>15, <1>16, <1>17, <1>18, <1>20 DEF c
<1>22. IsVisited(ns, history, Longer(ns, history, replays), longer)
    BY <1>7, <1>8, <1>19, <1>21 DEF IsVisited, more
<1>. QED
    BY <1>22 DEF longer

\* So all orders are.
LEMMA OrdersVisit ==
  ASSUME NEW ns, NEW kept, IsSound(ns, kept), NEW history, IsHistory(ns, history)
  PROVE  \A n \in Nat : \A o \in OrdersOf(ns, history)[n] : IsVisited(ns, history, After(ns, history)[n], o)
<1> DEFINE orders == OrdersOf(ns, history)
           after == After(ns, history)
           Good(n) == \A o \in orders[n] : IsVisited(ns, history, after[n], o)
           T == {n \in Nat : Good(n)}
<1>1. /\ orders[0] = {<<>>} /\ after[0] = Beginning
      /\ \A n \in Nat : orders[n + 1] = LongerOrders(ns, history, orders[n])
      /\ \A n \in Nat : after[n + 1] = Longer(ns, history, after[n])
    BY OrderSteps, AfterSteps
<1> HIDE DEF orders, after
<1>2. Good(0)
    BY <1>1, NoneVisited
<1>3. ASSUME NEW n \in Nat, Good(n)
      PROVE  Good(n + 1)
  <2> SUFFICES ASSUME NEW o \in orders[n + 1]
               PROVE  IsVisited(ns, history, after[n + 1], o)
      OBVIOUS
  <2>0. o \in UNION {{Append(p, r) : r \in CanFollow(ns, history, p)} : p \in orders[n]}
      BY <1>1 DEF LongerOrders
  <2>1. PICK p \in orders[n] : \E r \in CanFollow(ns, history, p) : o = Append(p, r)
      BY <2>0, Zenon
  <2> PICK r \in CanFollow(ns, history, p) : o = Append(p, r)
      BY <2>1
  <2>2. IsVisited(ns, history, after[n], p)
      BY <1>3
  <2>3. IsVisited(ns, history, Longer(ns, history, after[n]), Append(p, r))
      BY <2>2, MoreVisited
  <2>. QED
      BY <1>1, <2>3
<1>4. Nat \subseteq T
  <2> HIDE DEF Good
  <2>1. 0 \in T /\ \A n \in Nat : n \in T => n + 1 \in T
      BY <1>2, <1>3
  <2> HIDE DEF T
  <2>. QED
      BY <2>1, SetInduction
<1>. QED
    BY <1>4 DEF orders, after

\* What an operation looks for has been made.
LEMMA WantsAreMade ==
  ASSUME NEW ops, NEW o, Fits(ops, o)
  PROVE  Wants(o) \subseteq {x.id : x \in Created(ops)}
<1>1. \A kind, id : (\E x \in ops : Makes(x, kind, id)) => id \in {x.id : x \in Created(ops)}
    BY DEF Makes, Created
<1>2. CASE o.type \in {"CreateTable", "RenameIndex"}
    BY <1>2 DEF Wants
<1>3. CASE o.type \notin {"CreateTable", "RenameIndex"} /\ o.type \in Creating
  <2>1. Wants(o) = {o.object.table} \cup o.object.columns \cup ({o.object.references} \ {NoId})
      BY <1>3 DEF Wants
  <2>2. o.object.table # NoId
      BY <1>3 DEF Fits
  <2>3. \A t \in {o.object.table, o.object.references} \ {NoId} : \E x \in ops : Makes(x, "table", t)
      BY <1>3 DEF Fits
  <2>4. \A c \in o.object.columns : \E x \in ops : Makes(x, "column", c)
      BY <1>3 DEF Fits
  <2>. QED
      BY <1>1, <2>1, <2>2, <2>3, <2>4
<1>4. CASE o.type \notin {"CreateTable", "RenameIndex"} /\ o.type \notin Creating
  <2>1. Wants(o) = {o.id}
      BY <1>4 DEF Wants
  <2>2. \E x \in ops : Makes(x, KindOf[o.type], o.id)
      BY <1>4 DEF Fits
  <2>. QED
      BY <1>1, <2>1, <2>2
<1>. QED
    BY <1>2, <1>3, <1>4

\* A list that drops nothing is printed without an error.
LEMMA WithoutDropsNotRaised ==
  ASSUME NEW list, Grounded(list), \A o \in ElementsOf(list) : o.type \notin Destructive
  PROVE  ~Emission(list).raised
<1> DEFINE n == Len(list)  sorted == Reordered(list)
<1>1. /\ n \in Nat /\ DOMAIN list = 1 .. n /\ DOMAIN sorted = 1 .. n
      /\ Before(sorted, n) = Before(list, n)
    BY ReorderedPlaces
<1>2. Grounded(sorted)
    BY ReorderedGrounded
<1>3. Emission(list) = Emitted(sorted)
    BY DEF Emission, Reordered
<1> HIDE DEF n, sorted
<1>4. ASSUME NEW k \in DOMAIN sorted
      PROVE  Wants(sorted[k]) \subseteq Left(Before(sorted, k - 1))
  <2> DEFINE ops == Before(sorted, k - 1)
  <2>1. ops \subseteq Before(list, n)
    <3>1. 1 .. (k - 1) \subseteq 1 .. n
        BY <1>1
    <3>2. Before(sorted, k - 1) \subseteq Before(sorted, n)
        BY <3>1 DEF Before
    <3>. QED
        BY <1>1, <3>2
  <2>2. Before(list, n) = ElementsOf(list)
      BY <1>1 DEF Before, ElementsOf
  <2>3. Fits(ops, sorted[k])
      BY <1>2 DEF Grounded
  <2> HIDE DEF ops
  <2>4. GoneBy(ops) = {}
      BY <2>1, <2>2 DEF GoneBy
  <2>5. Left(ops) = {x.id : x \in Created(ops)}
      BY <2>4 DEF Left, Gone
  <2>6. Wants(sorted[k]) \subseteq Left(ops)
      BY <2>3, <2>5, WantsAreMade
  <2>. QED
      BY <2>6 DEF ops
<1>5. ~Emitted(sorted).raised
    BY <1>2, <1>4, EmittedIfWanted
<1>. QED
    BY <1>3, <1>5

\* A list of which each operation finds what it looks for is in the order of its
\* dependencies: the sort leaves it as it is.
LEMMA WantedInOrderStays ==
  ASSUME NEW list, Grounded(list), \A k \in DOMAIN list : Wants(list[k]) \subseteq Left(Before(list, k - 1))
  PROVE  Reordered(list) = list
<1> DEFINE n == Len(list)  order == Toposort(list)  sorted == Reordered(list)
<1>1. /\ n \in Nat /\ DOMAIN list = 1 .. n
      /\ order \in [1 .. n -> 1 .. n]
      /\ \A x \in 1 .. n : \E p \in 1 .. n : order[p] = x
      /\ DOMAIN sorted = 1 .. n
      /\ \A p \in 1 .. n : sorted[p] = list[order[p]]
    BY ReorderedPlaces
<1>4. \A k \in DOMAIN list : Sound(Before(list, k - 1))
  <2>1. \A k \in 1 .. n : k - 1 \in 0 .. n
      BY <1>1
  <2>. QED
      BY <1>1, <2>1, GroundedIsSound
<1>5. ASSUME NEW e \in Edges(list)
      PROVE  e[1] < e[2]
  <2>1. CASE list[e[2]].type # "DropTable"
      BY <2>1, CreationsComeFirst
  <2>2. CASE list[e[2]].type = "DropTable"
    <3> DEFINE i == e[1]  j == e[2]
    <3>1. /\ i \in DOMAIN list /\ j \in DOMAIN list /\ list[i].type = "DropColumn"
          /\ \E t \in TableOfColumn(list, list[i].id) : IsLast(list, "DropTable", t, j)
        BY <2>2 DEF Edges, Creating
    <3> HIDE DEF i, j
    <3>2. PICK t \in TableOfColumn(list, list[i].id) : IsLast(list, "DropTable", t, j)
        BY <3>1
    <3>3. PICK q \in DOMAIN list : list[q].type = "AddColumn" /\ list[q].id = list[i].id /\ list[q].object.table = t
        BY <3>2 DEF TableOfColumn
    <3>4. list[j].type = "DropTable" /\ list[j].id = t
        BY <3>2 DEF IsLast
    <3>5. i # j
        BY <3>1, <3>4
    <3>6. ASSUME j < i
          PROVE  FALSE
      <4> DEFINE ops == Before(list, i - 1)
      <4>1. list[i].id \in Left(ops)
          BY <3>1 DEF Wants, Creating
      <4>2. PICK x \in Created(ops) : x.id = list[i].id
          BY <4>1 DEF Left
      <4>3. PICK p \in 1 .. (i - 1) : x = list[p] /\ list[p].type \in Creating
          BY DEF Created, Before
      <4>4. p \in DOMAIN list
          BY <1>1, <3>1
      <4>5. p = q
          BY <3>3, <4>2, <4>3, <4>4 DEF Grounded, Creating
      <4>6. x.object.table = t
          BY <3>3, <4>3, <4>5
      <4>7. j \in 1 .. (i - 1)
          BY <1>1, <3>1, <3>6
      <4>8. list[j] \in ops /\ list[j].type \in Destructive
          BY <3>4, <4>7 DEF Before, Destructive
      <4>9. t \in GoneBy(ops)
          BY <3>4, <4>8 DEF GoneBy
      <4> HIDE DEF ops
      <4>10. x.id \in Gone(ops)
          BY <4>6, <4>9 DEF Gone
      <4>. QED
          BY <4>1, <4>2, <4>10 DEF Left
    <3>7. i < j
        BY <1>1, <3>1, <3>5, <3>6
    <3>. QED
        BY <3>7 DEF i, j
  <2>. QED
      BY <2>1, <2>2
<1>6. \A p, q \in 1 .. n : p < q => order[p] < order[q]
    BY <1>1, <1>5, NothingWaits
<1> HIDE DEF n, order, sorted
<1> DEFINE T == {k \in Nat : k <= n => \A p \in 1 .. k : order[p] = p}
<1>7. 0 \in T
    OBVIOUS
<1>8. ASSUME NEW k \in Nat, k \in T
      PROVE  k + 1 \in T
  <2> SUFFICES ASSUME k + 1 <= n
               PROVE  order[k + 1] = k + 1
    <3>1. \A p \in 1 .. (k + 1) : p \in 1 .. k \/ p = k + 1
        OBVIOUS
    <3>2. k + 1 <= n => k <= n
        BY <1>1
    <3>. QED
        BY <1>8, <3>1, <3>2
  <2>1. k + 1 \in 1 .. n /\ \A p \in 1 .. k : order[p] = p /\ p \in 1 .. n /\ p < k + 1
      BY <1>1, <1>8
  <2>2. order[k + 1] \in 1 .. n
      BY <1>1, <2>1
  <2>3. ~(order[k + 1] < k + 1)
    <3> SUFFICES ASSUME order[k + 1] < k + 1
                 PROVE  FALSE
        OBVIOUS
    <3> DEFINE x == order[k + 1]
    <3>1. x \in 1 .. k
        BY <2>2
    <3> HIDE DEF x
    <3>2. order[x] = x /\ x \in 1 .. n /\ x < k + 1
        BY <2>1, <3>1
    <3>3. order[x] < x
        BY <1>6, <2>1, <3>2 DEF x
    <3>. QED
        BY <1>1, <3>2, <3>3
  <2>4. PICK q \in 1 .. n : order[q] = k + 1
      BY <1>1, <2>1
  <2>5. ~(k + 1 < q)
    <3>1. k + 1 < q => order[k + 1] < k + 1
        BY <1>6, <2>1, <2>4
    <3>. QED
        BY <2>3, <3>1
  <2>6. q \notin 1 .. k
      BY <2>1, <2>4
  <2>7. q = k + 1
      BY <1>1, <2>5, <2>6
  <2>. QED
      BY <2>4, <2>7
<1>9. \A p \in 1 .. n : order[p] = p
  <2> HIDE DEF T
  <2>1. Nat \subseteq T
      BY <1>7, <1>8, SetInduction
  <2>2. n \in T
      BY <1>1, <2>1
  <2>3. \A p \in 1 .. n : order[p] = p
      BY <2>2 DEF T
  <2>. QED
      BY <2>3
<1>10. \A p \in 1 .. n : sorted[p] = list[p]
    BY <1>1, <1>9
<1>11. sorted = [p \in 1 .. n |-> sorted[p]]
    BY <1>1 DEF sorted, Reordered
<1>12. list = [p \in 1 .. n |-> list[p]]
    BY <1>1 DEF Grounded, Listed
<1>. QED
    BY <1>10, <1>11, <1>12 DEF sorted

----------------------------------------------------------------------------
(* What every commit leaves in the store, and every merge in its report.     *)

\* Migrate makes a node of what was chosen on a schema of its parent.
LEMMA MigrateGrows ==
  ASSUME MInv, NEW b \in Side, Migrate(b)
  PROVE  \E h \in DOMAIN nodes : \E s \in schemas[h] : \E o \in Authored(s, FreshId) :
           ~s.broken /\ HasGrown(nodes, ancestors, <<h>>, b, <<o>>, nodes', ancestors')
<1>1. PICK s \in schemas[heads[b]] : ~s.broken /\ \E o \in Authored(s, FreshId) : AppendNode(b, <<heads[b]>>, <<o>>)
    BY DEF Migrate
<1>2. PICK o \in Authored(s, FreshId) : AppendNode(b, <<heads[b]>>, <<o>>)
    BY <1>1
<1> DEFINE h == heads[b]
<1>3. h \in DOMAIN nodes /\ StoreInv
    BY DEF MInv, StoreInv
<1>4. Follows(nodes, ancestors, <<h>>, <<o>>)
    BY <1>1, <1>3, MigrationFollows
<1>5. <<h>> \in Seq(DOMAIN nodes) /\ Len(<<h>>) <= 2
    BY <1>3
<1>6. Listed(<<o>>)
  <2>1. <<o>> \in Seq({o})
      OBVIOUS
  <2>. QED
      BY <2>1, ListedIff
<1> HIDE DEF h
<1>7. PICK parents, ops : parents = <<h>> /\ ops = <<o>>
    OBVIOUS
<1>8. /\ Listed(ops) /\ parents \in Seq(DOMAIN nodes) /\ Len(parents) <= 2
      /\ AppendNode(b, parents, ops) /\ Follows(nodes, ancestors, parents, ops)
    BY <1>2, <1>4, <1>5, <1>6, <1>7 DEF h
<1>9. HasGrown(nodes, ancestors, parents, b, ops, nodes', ancestors')
    BY <1>3, <1>8, AppendKeepsStore
<1>10. HasGrown(nodes, ancestors, <<h>>, b, <<o>>, nodes', ancestors')
    BY <1>7, <1>9
<1>11. s \in schemas[h]
    BY DEF h
<1>. QED
    BY <1>1, <1>3, <1>10, <1>11

\* A merge node and its report, from what the two sides did since the base.
JoinsHeads(t, s, base, opsA, opsB, answers) ==
  /\ heads[t] # heads[s] /\ MergeBases(nodes, heads[t], heads[s]) = {base}
  /\ opsA = OperationsSince(nodes, ancestors, base, heads[t])
  /\ opsB = OperationsSince(nodes, ancestors, base, heads[s])
  /\ IsMerge(nodes, base, heads[t], heads[s], opsA, opsB)
  /\ answers \in [Asked(opsA, opsB) -> {"a", "b", "both"}]
  /\ \A id \in Asked(opsA, opsB) : answers[id] \in AnswersFor(opsA, opsB, id)
  /\ HasGrown(nodes, ancestors, <<heads[t], heads[s]>>, t, MergeOps(opsA, opsB, answers), nodes', ancestors')
  /\ report' = [rev |-> Len(nodes) + 1, base |-> base, answers |-> answers,
                acknowledged |-> {o.id : o \in CrossObject(opsA, opsB)},
                collisions |-> Collisions(opsA, opsB)]

\* Merge makes such a node, or moves a head.
LEMMA MergeGrows ==
  ASSUME MInv, NEW t \in Side, NEW s \in Side, Merge(t, s)
  PROVE  FastForward(t, s) \/ \E base, opsA, opsB, answers : JoinsHeads(t, s, base, opsA, opsB, answers)
<1> DEFINE common == ancestors[heads[t]] \cap ancestors[heads[s]]
           bases == {c \in common : \A x \in common : c \in ancestors[x] => x = c}
           a == heads[t]
           b == heads[s]
<1>1. a # b
    BY DEF Merge
<1>2. PICK base \in bases :
           /\ bases = {base} /\ base # heads[s]
           /\ \/ base = heads[t] /\ FastForward(t, s)
              \/ base # heads[t] /\ TrueMerge(t, s, base)
    BY DEF Merge
<1>3. bases = MergeBases(nodes, heads[t], heads[s])
    BY <1>1, BasesAreMergeBases DEF MInv, StoreInv
<1> HIDE DEF bases, common
<1>4. MergeBases(nodes, a, b) = {base}
    BY <1>2, <1>3
<1>5. CASE FastForward(t, s)
    BY <1>5
<1>6. CASE TrueMerge(t, s, base)
  <2>1. a \in DOMAIN nodes /\ b \in DOMAIN nodes /\ StoreInv /\ IsSound(nodes, ancestors)
      BY DEF MInv, StoreInv
  <2>2. PICK opsA, opsB :
          /\ opsA = OperationsSince(nodes, ancestors, base, a)
          /\ opsB = OperationsSince(nodes, ancestors, base, b)
      OBVIOUS
  <2>3. IsMerge(nodes, base, a, b, opsA, opsB)
      BY <1>1, <1>4, <2>1, <2>2, SideOfBase
  <2>4. PICK answers \in [Asked(opsA, opsB) -> {"a", "b", "both"}] :
          /\ \A id \in Asked(opsA, opsB) : answers[id] \in AnswersFor(opsA, opsB, id)
          /\ AppendNode(t, <<a, b>>, MergeOps(opsA, opsB, answers))
          /\ report' = [rev |-> Len(nodes) + 1, base |-> base, answers |-> answers,
                        acknowledged |-> {o.id : o \in CrossObject(opsA, opsB)},
                        collisions |-> Collisions(opsA, opsB)]
      BY <1>6, <2>2 DEF TrueMerge
  <2>5. DOMAIN answers = Asked(opsA, opsB)
      OBVIOUS
  <2> HIDE DEF a, b
  <2>6. PICK parents, ops : parents = <<a, b>> /\ ops = MergeOps(opsA, opsB, answers)
      OBVIOUS
  <2>7. Listed(ops) /\ Follows(nodes, ancestors, parents, ops)
      BY <2>1, <2>3, <2>5, <2>6, MergeFollows
  <2>8. parents \in Seq(DOMAIN nodes) /\ Len(parents) <= 2
      BY <2>1, <2>6
  <2>9. AppendNode(t, parents, ops)
      BY <2>4, <2>6
  <2>10. HasGrown(nodes, ancestors, parents, t, ops, nodes', ancestors')
      BY <2>1, <2>7, <2>8, <2>9, AppendKeepsStore
  <2>11. HasGrown(nodes, ancestors, <<a, b>>, t, MergeOps(opsA, opsB, answers), nodes', ancestors')
      BY <2>6, <2>10
  <2>12. JoinsHeads(t, s, base, opsA, opsB, answers)
      BY <1>1, <1>4, <2>2, <2>3, <2>4, <2>11 DEF JoinsHeads, a, b
  <2>. QED
      BY <2>12
<1>. QED
    BY <1>2, <1>5, <1>6

----------------------------------------------------------------------------
(* What the migrations of a branch look for is there.                        *)

\* Except in a merge node, whose operations nobody made on a schema.
Wanted(ns) ==
  \A r \in DOMAIN ns : Len(ns[r].parents) <= 1 =>
    \A i \in DOMAIN ns[r].ops : Wants(ns[r].ops[i]) \subseteq Left(Prior(ns, r, i))

\* A verb of migrate works on what is in the schema.
LEMMA AuthoredWants ==
  ASSUME NEW s, NEW id, NEW o \in Authored(s, id)
  PROVE  Wants(o) \subseteq DOMAIN s.objects
<1>0. /\ Tables(s) \subseteq DOMAIN s.objects
      /\ \A kind : OfKind(s, kind) \subseteq DOMAIN s.objects
    BY DEF Tables, OfKind
<1>1. CASE o \in UNION {{[type |-> v, id |-> id, object |-> x] :
                          x \in {x \in NewObjects(s)[v] : WellPlaced(s, x)}} : v \in Verb \cap Creating}
  <2>1. PICK v, x :
           /\ v \in Creating /\ x \in NewObjects(s)[v] /\ WellPlaced(s, x)
           /\ o = [type |-> v, id |-> id, object |-> x]
      BY <1>1
  <2>2. o.type = v /\ o.object = x
      BY <2>1
  <2>3. /\ v # "CreateTable" => x.table \in Tables(s)
        /\ x.references \in Tables(s) \cup {NoId}
        /\ \A c \in x.columns : c \in OfKind(s, "column")
      BY <2>1, NewObjectFits
  <2>4. CASE v = "CreateTable"
      BY <2>2, <2>4 DEF Wants
  <2>5. CASE v # "CreateTable"
    <3>1. Wants(o) = {x.table} \cup x.columns \cup ({x.references} \ {NoId})
        BY <2>1, <2>2, <2>5 DEF Wants, Creating
    <3>. QED
        BY <1>0, <2>3, <2>5, <3>1
  <2>. QED
      BY <2>4, <2>5
<1>2. ASSUME NEW v \in Destructive \cup DOMAIN SetField, NEW i \in OfKind(s, KindOf[v]),
             o.type = v, o.id = i
      PROVE  Wants(o) \subseteq DOMAIN s.objects
  <2>1. v \notin Creating
      BY DEF Destructive, SetField, MutationField, Creating
  <2>2. Wants(o) \subseteq {i}
      BY <1>2, <2>1 DEF Wants
  <2>. QED
      BY <1>0, <2>2
<1>3. CASE o \in UNION {{[type |-> v, id |-> i] : i \in OfKind(s, KindOf[v])} : v \in Verb \cap Destructive}
  <2>1. PICK v \in Destructive : \E i \in OfKind(s, KindOf[v]) : o = [type |-> v, id |-> i]
      BY <1>3
  <2>. QED
      BY <1>2, <2>1
<1>4. CASE o \in UNION {{[type |-> v, id |-> i, old |-> s.objects[i][SetField[v]], value |-> x] :
                            i \in OfKind(s, KindOf[v]), x \in ValuesOf(v)} :
                  v \in Verb \cap DOMAIN SetField}
  <2>1. PICK v \in DOMAIN SetField : \E i \in OfKind(s, KindOf[v]), x \in ValuesOf(v) :
               o = [type |-> v, id |-> i, old |-> s.objects[i][SetField[v]], value |-> x]
      BY <1>4
  <2>. QED
      BY <1>2, <2>1
<1>. QED
    BY <1>1, <1>3, <1>4 DEF Authored

\* A migration more, made on the schema of its parent, or a merge node.
LEMMA WantedGrows ==
  ASSUME NEW ns, NEW kept, IsStore(ns, kept), Wanted(ns),
         NEW parents, parents \in Seq(DOMAIN ns), NEW b, NEW ops, NEW ms, NEW more,
         HasGrown(ns, kept, parents, b, ops, ms, more),
         Len(parents) <= 1 =>
           \A i \in DOMAIN ops : i = 1 /\ Wants(ops[i]) \subseteq Left(OpsOf(ns, Past(kept, parents)))
  PROVE  Wanted(ms)
<1> DEFINE n == Len(ns)  past == Past(kept, parents)
<1>1. /\ n \in Nat /\ DOMAIN ms = DOMAIN ns \cup {n + 1} /\ n + 1 \notin DOMAIN ns
      /\ \A r \in DOMAIN ns : ms[r] = ns[r]
      /\ ms[n + 1].parents = parents /\ ms[n + 1].ops = ops
      /\ \A r \in DOMAIN ns : Ancestors(ms, r) = Ancestors(ns, r)
      /\ Ancestors(ms, n + 1) = {n + 1} \cup past
    BY DEF HasGrown, Node
<1>2. past \subseteq DOMAIN ns
  <2>1. \A i \in DOMAIN parents : parents[i] \in DOMAIN ns
      BY SeqElement
  <2>. QED
      BY <2>1 DEF IsStore, Ancestors, Past
<1> HIDE DEF n, past
<1>3. \A D \in SUBSET DOMAIN ns : OpsOf(ms, D) = OpsOf(ns, D)
    BY <1>1 DEF OpsOf
<1> SUFFICES ASSUME NEW r \in DOMAIN ms, Len(ms[r].parents) <= 1, NEW i \in DOMAIN ms[r].ops
             PROVE  Wants(ms[r].ops[i]) \subseteq Left(Prior(ms, r, i))
    BY DEF Wanted
<1>4. CASE r \in DOMAIN ns
  <2>1. ms[r] = ns[r] /\ Ancestors(ms, r) = Ancestors(ns, r) /\ Ancestors(ns, r) \subseteq DOMAIN ns
      BY <1>1, <1>4 DEF Ancestors
  <2>2. OpsOf(ms, Ancestors(ns, r) \ {r}) = OpsOf(ns, Ancestors(ns, r) \ {r})
      BY <1>3, <2>1
  <2>3. Prior(ms, r, i) = Prior(ns, r, i)
      BY <2>1, <2>2 DEF Prior
  <2>. QED
      BY <1>4, <2>1, <2>3 DEF Wanted
<1>5. CASE r = n + 1
  <2>1. Ancestors(ms, r) \ {r} = past
      BY <1>1, <1>2, <1>5
  <2>2. i = 1 /\ Wants(ops[i]) \subseteq Left(OpsOf(ns, past))
      BY <1>1, <1>5 DEF past
  <2>3. 1 .. (i - 1) = {}
      BY <2>2
  <2>4. Prior(ms, r, i) = OpsOf(ns, past)
      BY <1>2, <1>3, <2>1, <2>3 DEF Prior
  <2>. QED
      BY <1>1, <1>5, <2>2, <2>4
<1>. QED
    BY <1>1, <1>4, <1>5

\* PossibleBase: the common history is such a list.
LEMMA WantedInit == Init => Wanted(nodes)
<1> SUFFICES ASSUME Init
             PROVE  Wanted(nodes)
    OBVIOUS
<1>1. Grounded(Base)
    BY BaseAssumption DEF Grounded, Listed, Before
<1>2. ~Emitted(Base).raised
    BY PossibleBase
<1>3. \A k \in DOMAIN Base : Wants(Base[k]) \subseteq Left(Before(Base, k - 1))
    BY <1>1, <1>2, EmittedIfWanted
<1>4. nodes = <<Node(<<>>, Target, <<>>), Node(<<1>>, Target, Base)>>
    BY DEF Init
<1>5. DOMAIN nodes = {1, 2} /\ nodes[1].ops = <<>> /\ nodes[2].ops = Base
    BY <1>4 DEF Node
<1>6. ASSUME NEW i \in DOMAIN Base
      PROVE  Prior(nodes, 2, i) = Before(Base, i - 1)
  <2>1. Ancestors(nodes, 2) \ {2} \subseteq {1}
      BY <1>5 DEF Ancestors
  <2>2. OpsOf(nodes, Ancestors(nodes, 2) \ {2}) = {}
      BY <1>5, <2>1, EmptyListed DEF OpsOf
  <2>. QED
      BY <1>5, <2>2 DEF Prior, Before
<1>7. ASSUME NEW r \in DOMAIN nodes, NEW i \in DOMAIN nodes[r].ops
      PROVE  Wants(nodes[r].ops[i]) \subseteq Left(Prior(nodes, r, i))
  <2>1. CASE r = 1
    <3>1. DOMAIN nodes[r].ops = {}
        BY <1>5, <2>1
    <3>. QED
        BY <3>1
  <2>2. CASE r = 2
      BY <1>3, <1>5, <1>6, <2>2
  <2>. QED
      BY <1>5, <2>1, <2>2
<1>. QED
    BY <1>7 DEF Wanted

\* Migrate: on the schema of its parent.
LEMMA MigrateWants ==
  ASSUME MInv, Wanted(nodes), NEW b \in Side, Migrate(b)
  PROVE  Wanted(nodes')
<1>0. PICK h \in DOMAIN nodes : \E s \in schemas[h] : \E o \in Authored(s, FreshId) :
         ~s.broken /\ HasGrown(nodes, ancestors, <<h>>, b, <<o>>, nodes', ancestors')
    BY MigrateGrows
<1> PICK s \in schemas[h] : \E o \in Authored(s, FreshId) :
         ~s.broken /\ HasGrown(nodes, ancestors, <<h>>, b, <<o>>, nodes', ancestors')
    BY <1>0
<1>1. PICK o \in Authored(s, FreshId) :
         ~s.broken /\ HasGrown(nodes, ancestors, <<h>>, b, <<o>>, nodes', ancestors')
    OBVIOUS
<1>2. IsStore(nodes, ancestors) /\ StoreInv
    BY DEF MInv, StoreInv, IsSound
<1>3. PICK parents, ops : parents = <<h>> /\ ops = <<o>>
    OBVIOUS
<1>4. parents \in Seq(DOMAIN nodes) /\ DOMAIN ops = {1} /\ ops[1] = o
    BY <1>3
<1>5. Past(ancestors, parents) = ancestors[h]
    BY <1>3 DEF Past
<1>6. Wants(o) \subseteq Left(OpsOf(nodes, ancestors[h]))
  <2>1. Explained(OpsOf(nodes, ancestors[h]), s)
      BY <1>2, HeadHistory
  <2>2. Wants(o) \subseteq DOMAIN s.objects
      BY AuthoredWants
  <2>. QED
      BY <1>1, <2>1, <2>2 DEF Explained
<1>7. \A i \in DOMAIN ops : i = 1 /\ Wants(ops[i]) \subseteq Left(OpsOf(nodes, Past(ancestors, parents)))
    BY <1>4, <1>5, <1>6
<1>8. HasGrown(nodes, ancestors, parents, b, ops, nodes', ancestors')
    BY <1>1, <1>3
<1> DEFINE ms == nodes'  more == ancestors'
<1>9. HasGrown(nodes, ancestors, parents, b, ops, ms, more)
    BY <1>8
<1> HIDE DEF ms, more
<1>10. Wanted(ms)
    BY <1>2, <1>4, <1>7, <1>9, WantedGrows
<1>. QED
    BY <1>10 DEF ms

\* A merge node is not counted.
LEMMA MergeWants ==
  ASSUME MInv, Wanted(nodes), NEW t \in Side, NEW s \in Side, Merge(t, s)
  PROVE  Wanted(nodes')
<1>1. CASE FastForward(t, s)
    BY <1>1 DEF FastForward
<1>2. CASE \E base, opsA, opsB, answers : JoinsHeads(t, s, base, opsA, opsB, answers)
  <2>1. PICK base, opsA, opsB, answers : JoinsHeads(t, s, base, opsA, opsB, answers)
      BY <1>2
  <2>2. IsStore(nodes, ancestors) /\ heads[t] \in DOMAIN nodes /\ heads[s] \in DOMAIN nodes
      BY DEF MInv, StoreInv, IsSound
  <2>3. PICK parents, ops : parents = <<heads[t], heads[s]>> /\ ops = MergeOps(opsA, opsB, answers)
      OBVIOUS
  <2>4. parents \in Seq(DOMAIN nodes) /\ Len(parents) = 2 /\ ~(Len(parents) <= 1)
      BY <2>2, <2>3
  <2>5. HasGrown(nodes, ancestors, parents, t, ops, nodes', ancestors')
      BY <2>1, <2>3 DEF JoinsHeads
  <2> DEFINE ms == nodes'  more == ancestors'
  <2>6. HasGrown(nodes, ancestors, parents, t, ops, ms, more)
      BY <2>5
  <2> HIDE DEF ms, more
  <2>7. Wanted(ms)
      BY <2>2, <2>4, <2>6, WantedGrows
  <2>. QED
      BY <2>7 DEF ms
<1>. QED
    BY <1>1, <1>2, MergeGrows

\* What comes before a revision of a history without merges: its history.
LEMMA LineBefore ==
  ASSUME NEW ns, NEW history, IsHistory(ns, history), \A p, q \in history : Related(ns, p, q),
         NEW r \in history, NEW D \in SUBSET history,
         r \notin D, ParentClosed(ns, D), ParentsOf(ns, r) \subseteq D
  PROVE  D = Ancestors(ns, r) \ {r}
<1>1. history \subseteq DOMAIN ns
    BY DEF IsHistory
<1>2. ASSUME NEW q \in D
      PROVE  q \in Ancestors(ns, r) \ {r}
  <2>1. q # r /\ Related(ns, q, r)
      OBVIOUS
  <2>2. r \notin Ancestors(ns, q)
      BY <1>1, AncestorsLeast
  <2>. QED
      BY <2>1, <2>2 DEF Related
<1>3. Ancestors(ns, r) \subseteq D \cup {r}
  <2>1. ParentClosed(ns, D \cup {r})
      BY DEF ParentClosed
  <2>. QED
      BY <1>1, <2>1, AncestorsLeast
<1>. QED
    BY <1>2, <1>3

\* A migration of a history without merges finds what it looks for behind any
\* revisions that can come before it.
LEMMA LineStandsAtWanted ==
  ASSUME NEW ns, NEW kept, IsStore(ns, kept), Wanted(ns), NEW history, IsHistory(ns, history),
         \A q \in history : Len(ns[q].parents) <= 1,
         \A p, q \in history : Related(ns, p, q),
         NEW list, NEW k, StandsAt(ns, history, list, k)
  PROVE  Wants(list[k]) \subseteq Left(Before(list, k - 1))
<1>1. PICK r \in history, D \in SUBSET history :
        /\ r \notin D /\ ParentClosed(ns, D) /\ ParentsOf(ns, r) \subseteq D
        /\ \E i \in DOMAIN ns[r].ops :
             /\ list[k] = ns[r].ops[i]
             /\ Before(list, k - 1) = OpsOf(ns, D) \cup {ns[r].ops[j] : j \in 1 .. (i - 1)}
    BY DEF StandsAt
<1>2. PICK i \in DOMAIN ns[r].ops :
        /\ list[k] = ns[r].ops[i]
        /\ Before(list, k - 1) = OpsOf(ns, D) \cup {ns[r].ops[j] : j \in 1 .. (i - 1)}
    BY <1>1
<1>3. history \subseteq DOMAIN ns
    BY DEF IsHistory
<1>4. D = Ancestors(ns, r) \ {r}
    BY <1>1, LineBefore
<1>5. Before(list, k - 1) = Prior(ns, r, i)
    BY <1>2, <1>4 DEF Prior
<1>. QED
    BY <1>2, <1>3, <1>5 DEF Wanted

----------------------------------------------------------------------------
(* What the RENAMEs of a branch name is there.                               *)

\* Printing no operation, and one more.
LEMMA EmittedMore ==
  ASSUME NEW list, Listed(list), NEW o, NEW c, DOMAIN c = 1 .. (Len(list) + 1),
         \A i \in DOMAIN list : c[i] = list[i], c[Len(list) + 1] = o
  PROVE  Emitted(c) = EmitOne(Emitted(list), o)
<1> DEFINE n == Len(list)
           start == [raised |-> FALSE, misnamed |-> FALSE, schema |-> EmptySchema]
<1>1. n \in Nat /\ n + 1 \in Nat /\ DOMAIN list = 1 .. n /\ DOMAIN c = 1 .. (n + 1) /\ c[n + 1] = o
    BY ListedPlaces
<1> HIDE DEF n, start
<1>2. PICK f : /\ f[0] = start
               /\ \A k \in Nat : k < n => f[k + 1] = EmitOne(f[k], list[k + 1])
               /\ f[n] = Seqs!FoldLeft(EmitOne, start, list)
    BY <1>1, EmitByRounds
<1>3. PICK g : /\ g[0] = start
               /\ \A k \in Nat : k < n + 1 => g[k + 1] = EmitOne(g[k], c[k + 1])
               /\ g[n + 1] = Seqs!FoldLeft(EmitOne, start, c)
    BY <1>1, EmitByRounds
<1> DEFINE T == {k \in Nat : k <= n => f[k] = g[k]}
<1>4. 0 \in T
    BY <1>2, <1>3
<1>5. ASSUME NEW k \in Nat, k \in T
      PROVE  k + 1 \in T
  <2> SUFFICES ASSUME k + 1 <= n
               PROVE  f[k + 1] = g[k + 1]
      OBVIOUS
  <2>1. k < n /\ k <= n /\ k < n + 1 /\ k + 1 \in DOMAIN list
      BY <1>1
  <2>2. f[k] = g[k] /\ c[k + 1] = list[k + 1]
      BY <1>5, <2>1
  <2>. QED
      BY <1>2, <1>3, <2>1, <2>2
<1>6. Nat \subseteq T
  <2> HIDE DEF T
  <2>. QED
      BY <1>4, <1>5, SetInduction
<1>7. f[n] = g[n] /\ n < n + 1
    BY <1>1, <1>6
<1>8. g[n + 1] = EmitOne(f[n], o)
    BY <1>1, <1>3, <1>7
<1>. QED
    BY <1>2, <1>3, <1>8 DEF Emitted, start

\* What has been printed so far has not raised, and every RENAME named what is there.
Clean(list) == \E b : Emitted(list) = Emitting(b, Replayed(list)) /\ ~b

LEMMA CleanNone == Clean(<<>>)
<1> DEFINE none == <<>>
<1>1. DOMAIN none = 1 .. 0
    OBVIOUS
<1>2. Replayed(none) = EmptySchema
    BY <1>1, FoldShort DEF Replayed
<1>3. Emitted(none) = Emitting(No, EmptySchema)
  <2> DEFINE start == [raised |-> FALSE, misnamed |-> FALSE, schema |-> EmptySchema]
  <2>1. Emitted(none) = Seqs!FoldLeft(EmitOne, start, none)
      BY DEF Emitted
  <2>2. start = Emitting(No, EmptySchema)
      BY DEF Emitting, Emission3, No
  <2> HIDE DEF start, none
  <2>3. 0 \in Nat /\ DOMAIN none = 1 .. 0
      BY <1>1
  <2>4. start = Seqs!FoldLeft(EmitOne, start, none)
      BY <2>3, EmitByRounds
  <2>. QED
      BY <2>1, <2>2, <2>4
<1>4. ~No
    BY DEF No
<1> HIDE DEF none
<1>5. Clean(none)
    BY <1>2, <1>3, <1>4 DEF Clean
<1>. QED
    BY <1>5 DEF none

\* One that finds what it looks for and names what is there keeps it so.
LEMMA CleanMore ==
  ASSUME NEW list, Clean(list), NEW o, NEW c, Grounded(c), ~Emitted(c).raised,
         Emitted(c) = EmitOne(Emitted(list), o), NamesWhatIsThere(Replayed(list), o)
  PROVE  Clean(c)
<1> DEFINE s == Replayed(list)
           t == Replayed(c)
<1>1. PICK b : Emitted(list) = Emitting(b, s) /\ ~b
    BY DEF Clean
<1>2. Emitted(c).schema = t
    BY EmittedIfWanted DEF Replayed
<1> HIDE DEF s, t
<1>3. Resolves(s, o)
  <2> SUFFICES ASSUME ~Resolves(s, o)
               PROVE  FALSE
      OBVIOUS
  <2>1. Emitted(c) = Stopped(b, s)
      BY <1>1, EmitOneOf
  <2>2. Emitted(c).raised = Yes
      BY <2>1, RaisedOf DEF Stopped
  <2>. QED
      BY <2>2 DEF Yes
<1>4. Emitted(c) = Emitting(Misnamed(b, s, o), Apply(s, o))
    BY <1>1, <1>3, EmitOneResolved
<1>5. Emitted(c).schema = Apply(s, o)
    BY <1>4, SchemaOf DEF Emitting
<1>6. Emitted(c) = Emitting(Misnamed(b, s, o), t)
    BY <1>2, <1>4, <1>5
<1>7. NamesWhatIsThere(s, o)
    BY DEF s
<1>8. ~Misnamed(b, s, o)
    BY <1>1, <1>7 DEF Misnamed
<1> DEFINE d == Misnamed(b, s, o)
<1>9. Emitted(c) = Emitting(d, t) /\ ~d
    BY <1>6, <1>8
<1> HIDE DEF d
<1>. QED
    BY <1>9 DEF Clean, t

\* A migration of one operation, made on a schema in which it names what is there.
MadeFrom(ns, kept, parents, ops) ==
  \E h \in DOMAIN ns : \E s \in Replays(ns, kept[h]) : \E o :
    parents = <<h>> /\ ops = <<o>> /\ NamesWhatIsThere(s, o)

\* Every revision but the root is one, or is the common history, or is a merge node.
Named(ns, kept) ==
  /\ 1 \in DOMAIN ns /\ ns[1].ops = <<>>
  /\ \A r \in DOMAIN ns \ {1} :
       \/ Len(ns[r].parents) = 2
       \/ ns[r].parents = <<1>> /\ ns[r].ops = Base
       \/ MadeFrom(ns, kept, ns[r].parents, ns[r].ops)

\* What migrate renames has the name that it stores.
LEMMA AuthoredNames ==
  ASSUME NEW s, NEW id, NEW o \in Authored(s, id)
  PROVE  NamesWhatIsThere(s, o)
<1> SUFFICES ASSUME o.type \in Renaming
             PROVE  o.id \in DOMAIN s.objects /\ s.objects[o.id].name = o.old
    BY DEF NamesWhatIsThere
<1>1. ~(o \in UNION {{[type |-> v, id |-> id, object |-> x] :
                         x \in {x \in NewObjects(s)[v] : WellPlaced(s, x)}} : v \in Verb \cap Creating})
    BY DEF Renaming, Creating
<1>2. ~(o \in UNION {{[type |-> v, id |-> i] : i \in OfKind(s, KindOf[v])} : v \in Verb \cap Destructive})
    BY DEF Renaming, Destructive
<1>3. o \in UNION {{[type |-> v, id |-> i, old |-> s.objects[i][SetField[v]], value |-> x] :
                          i \in OfKind(s, KindOf[v]), x \in ValuesOf(v)} :
                v \in Verb \cap DOMAIN SetField}
    BY <1>1, <1>2 DEF Authored
<1>4. PICK v \in Verb \cap DOMAIN SetField :
         \E i \in OfKind(s, KindOf[v]), x \in ValuesOf(v) :
           o = [type |-> v, id |-> i, old |-> s.objects[i][SetField[v]], value |-> x]
    BY <1>3
<1>5. PICK i \in OfKind(s, KindOf[v]), x \in ValuesOf(v) :
         o = [type |-> v, id |-> i, old |-> s.objects[i][SetField[v]], value |-> x]
    BY <1>4
<1>6. o.type = v /\ o.id = i /\ o.old = s.objects[i][SetField[v]]
    BY <1>5
<1>7. SetField[v] = "name"
    BY <1>6 DEF Renaming, SetField, MutationField
<1>8. i \in DOMAIN s.objects
    BY DEF OfKind
<1>. QED
    BY <1>6, <1>7, <1>8

\* A migration more, or a merge node.
LEMMA NamedGrows ==
  ASSUME NEW ns, NEW kept, IsStore(ns, kept), Named(ns, kept),
         NEW parents, NEW b, NEW ops, NEW ms, NEW more,
         HasGrown(ns, kept, parents, b, ops, ms, more),
         Len(parents) = 2 \/ MadeFrom(ns, kept, parents, ops)
  PROVE  Named(ms, more)
<1> DEFINE n == Len(ns)
<1>1. /\ DOMAIN ms = DOMAIN ns \cup {n + 1} /\ n + 1 \notin DOMAIN ns
      /\ \A r \in DOMAIN ns : ms[r] = ns[r] /\ more[r] = kept[r]
      /\ ms[n + 1].parents = parents /\ ms[n + 1].ops = ops
    BY DEF HasGrown, Node
<1> HIDE DEF n
<1>2. ASSUME NEW h \in DOMAIN ns
      PROVE  Replays(ms, more[h]) = Replays(ns, kept[h])
  <2>1. IsFiniteSet(kept[h]) /\ kept[h] \subseteq DOMAIN ns
      BY <1>2, StoredHistory DEF IsHistory
  <2>2. \A q \in kept[h] : ms[q] = ns[q]
      BY <1>1, <2>1
  <2>3. Replays(ms, kept[h]) = Replays(ns, kept[h])
      BY <2>1, <2>2, ReplaysStable
  <2>. QED
      BY <1>1, <2>3
<1>3. ASSUME NEW p, NEW list, MadeFrom(ns, kept, p, list)
      PROVE  MadeFrom(ms, more, p, list)
    BY <1>1, <1>2, <1>3 DEF MadeFrom
<1>4. 1 \in DOMAIN ms /\ ms[1].ops = <<>>
    BY <1>1 DEF Named
<1>5. ASSUME NEW r \in DOMAIN ms \ {1}
      PROVE  \/ Len(ms[r].parents) = 2
             \/ ms[r].parents = <<1>> /\ ms[r].ops = Base
             \/ MadeFrom(ms, more, ms[r].parents, ms[r].ops)
  <2>1. CASE r \in DOMAIN ns
    <3>1. \/ Len(ns[r].parents) = 2
          \/ ns[r].parents = <<1>> /\ ns[r].ops = Base
          \/ MadeFrom(ns, kept, ns[r].parents, ns[r].ops)
        BY <1>5, <2>1 DEF Named
    <3>. QED
        BY <1>1, <1>3, <2>1, <3>1
  <2>2. CASE r = n + 1
      BY <1>1, <1>3, <2>2
  <2>. QED
      BY <1>1, <1>5, <2>1, <2>2
<1>. QED
    BY <1>4, <1>5 DEF Named

LEMMA NamedInit == Init => Named(nodes, ancestors)
<1> SUFFICES ASSUME Init
             PROVE  Named(nodes, ancestors)
    OBVIOUS
<1>1. nodes = <<Node(<<>>, Target, <<>>), Node(<<1>>, Target, Base)>>
    BY DEF Init
<1>2. DOMAIN nodes = {1, 2} /\ nodes[1].ops = <<>> /\ nodes[2].ops = Base /\ nodes[2].parents = <<1>>
    BY <1>1 DEF Node
<1>. QED
    BY <1>2 DEF Named

LEMMA MigrateNames ==
  ASSUME MInv, Named(nodes, ancestors), NEW b \in Side, Migrate(b)
  PROVE  Named(nodes', ancestors')
<1>0. PICK h \in DOMAIN nodes : \E s \in schemas[h] : \E o \in Authored(s, FreshId) :
         HasGrown(nodes, ancestors, <<h>>, b, <<o>>, nodes', ancestors')
    BY MigrateGrows
<1> PICK s \in schemas[h] : \E o \in Authored(s, FreshId) :
         HasGrown(nodes, ancestors, <<h>>, b, <<o>>, nodes', ancestors')
    BY <1>0
<1>1. PICK o \in Authored(s, FreshId) :
         HasGrown(nodes, ancestors, <<h>>, b, <<o>>, nodes', ancestors')
    OBVIOUS
<1>2. IsStore(nodes, ancestors) /\ schemas[h] = Replays(nodes, ancestors[h])
    BY DEF MInv, StoreInv, IsSound
<1>3. NamesWhatIsThere(s, o)
    BY AuthoredNames
<1>4. PICK parents, ops : parents = <<h>> /\ ops = <<o>>
    OBVIOUS
<1>5. MadeFrom(nodes, ancestors, parents, ops)
    BY <1>2, <1>3, <1>4 DEF MadeFrom
<1>6. HasGrown(nodes, ancestors, parents, b, ops, nodes', ancestors')
    BY <1>1, <1>4
<1> DEFINE ms == nodes'  more == ancestors'
<1>7. HasGrown(nodes, ancestors, parents, b, ops, ms, more)
    BY <1>6
<1> HIDE DEF ms, more
<1>8. Named(ms, more)
    BY <1>2, <1>5, <1>7, NamedGrows
<1>. QED
    BY <1>8 DEF ms, more

LEMMA MergeNames ==
  ASSUME MInv, Named(nodes, ancestors), NEW t \in Side, NEW s \in Side, Merge(t, s)
  PROVE  Named(nodes', ancestors')
<1>1. CASE FastForward(t, s)
    BY <1>1 DEF FastForward
<1>2. CASE \E base, opsA, opsB, answers : JoinsHeads(t, s, base, opsA, opsB, answers)
  <2>1. PICK base, opsA, opsB, answers : JoinsHeads(t, s, base, opsA, opsB, answers)
      BY <1>2
  <2>2. IsStore(nodes, ancestors)
      BY DEF MInv, StoreInv, IsSound
  <2>3. PICK parents, ops : parents = <<heads[t], heads[s]>> /\ ops = MergeOps(opsA, opsB, answers)
      OBVIOUS
  <2>4. Len(parents) = 2
      BY <2>3
  <2>5. HasGrown(nodes, ancestors, parents, t, ops, nodes', ancestors')
      BY <2>1, <2>3 DEF JoinsHeads
  <2> DEFINE ms == nodes'  more == ancestors'
  <2>6. HasGrown(nodes, ancestors, parents, t, ops, ms, more)
      BY <2>5
  <2> HIDE DEF ms, more
  <2>7. Named(ms, more)
      BY <2>2, <2>4, <2>6, NamedGrows
  <2>. QED
      BY <2>7 DEF ms, more
<1>. QED
    BY <1>1, <1>2, MergeGrows

\* An order of the history that stays in a part of it is one of the part.
LEMMA OrdersOfPart ==
  ASSUME NEW ns, NEW kept, IsSound(ns, kept), NEW history, IsHistory(ns, history), NEW D
  PROVE  \A n \in Nat : \A o \in OrdersOf(ns, history)[n] : ElementsOf(o) \subseteq D => o \in OrdersOf(ns, D)[n]
<1> DEFINE orders == OrdersOf(ns, history)
           part == OrdersOf(ns, D)
           Good(n) == \A o \in orders[n] : ElementsOf(o) \subseteq D => o \in part[n]
           T == {n \in Nat : Good(n)}
<1>1. /\ orders[0] = {<<>>} /\ part[0] = {<<>>}
      /\ \A n \in Nat : orders[n + 1] = LongerOrders(ns, history, orders[n])
      /\ \A n \in Nat : part[n + 1] = LongerOrders(ns, D, part[n])
    BY OrderSteps
<1>2. \A n \in Nat : \A o \in orders[n] : Listed(o)
    BY OrdersVisit DEF IsVisited
<1> HIDE DEF orders, part
<1>3. Good(0)
    BY <1>1
<1>4. ASSUME NEW n \in Nat, Good(n)
      PROVE  Good(n + 1)
  <2> SUFFICES ASSUME NEW next \in orders[n + 1], ElementsOf(next) \subseteq D
               PROVE  next \in part[n + 1]
      OBVIOUS
  <2>1. next \in UNION {{Append(p, r) : r \in CanFollow(ns, history, p)} : p \in orders[n]}
      BY <1>1 DEF LongerOrders
  <2>2. PICK o \in orders[n] : \E r \in CanFollow(ns, history, o) : next = Append(o, r)
      BY <2>1, Zenon
  <2>3. PICK r \in CanFollow(ns, history, o) : next = Append(o, r)
      BY <2>2
  <2>4. ElementsOf(next) = ElementsOf(o) \cup {r}
      BY <1>2, <2>3, ListedAppend
  <2>5. o \in part[n]
      BY <1>4, <2>4
  <2>6. r \in CanFollow(ns, D, o)
      BY <2>4 DEF CanFollow
  <2>7. next \in {Append(o, q) : q \in CanFollow(ns, D, o)}
      BY <2>3, <2>6
  <2>8. next \in UNION {{Append(p, q) : q \in CanFollow(ns, D, p)} : p \in part[n]}
      BY <2>5, <2>7, Zenon
  <2>. QED
      BY <1>1, <2>8 DEF LongerOrders
<1>5. 0 \in T /\ \A n \in Nat : n \in T => n + 1 \in T
  <2> HIDE DEF Good
  <2>. QED
      BY <1>3, <1>4
<1>6. Nat \subseteq T
  <2> HIDE DEF T
  <2>. QED
      BY <1>5, SetInduction
<1>. QED
    BY <1>6 DEF orders, part

\* So the operations along an order that visits all of a history replay as it does.
LEMMA OrderReplays ==
  ASSUME NEW ns, NEW kept, IsSound(ns, kept), NEW history, IsHistory(ns, history),
         NEW n \in Nat, NEW o \in OrdersOf(ns, history)[n], IsHistory(ns, ElementsOf(o))
  PROVE  Replayed(OpsAlong(ns, o)) \in Replays(ns, ElementsOf(o))
<1> DEFINE D == ElementsOf(o)
<1>1. o \in OrdersOf(ns, D)[n]
    BY OrdersOfPart
<1>2. IsVisited(ns, D, After(ns, D)[n], o)
    BY <1>1, OrdersVisit
<1> HIDE DEF D
<1>3. PICK v \in After(ns, D)[n] : v.done = D /\ v.schema = Replayed(OpsAlong(ns, o))
    BY <1>2 DEF IsVisited, D
<1>4. Cardinality(D) = n
    BY <1>3, AfterDone DEF D
<1>. QED
    BY <1>3, <1>4, ReplaysAreLast DEF D

\* A history that nothing was merged in.
IsStraightHistory(ns, history) ==
  /\ IsHistory(ns, history)
  /\ \A q \in history : Len(ns[q].parents) <= 1
  /\ \A p, q \in history : Related(ns, p, q)

\* Its operations, in an order that visits it, find what they look for.
LEMMA LineNotRaised ==
  ASSUME StoreInv, Wanted(nodes), NEW history, IsStraightHistory(nodes, history),
         NEW replays, NEW o, IsVisited(nodes, history, replays, o)
  PROVE  /\ \A k \in DOMAIN OpsAlong(nodes, o) :
              Wants(OpsAlong(nodes, o)[k]) \subseteq Left(Before(OpsAlong(nodes, o), k - 1))
         /\ ~Emitted(OpsAlong(nodes, o)).raised
<1> DEFINE list == OpsAlong(nodes, o)
<1>1. IsStore(nodes, ancestors)
    BY DEF StoreInv, IsSound
<1>2. Grounded(list) /\ \A k \in DOMAIN list : StandsAt(nodes, history, list, k)
    BY DEF IsVisited
<1> HIDE DEF list
<1>3. \A k \in DOMAIN list : Wants(list[k]) \subseteq Left(Before(list, k - 1))
    BY <1>1, <1>2, LineStandsAtWanted DEF IsStraightHistory
<1>4. ~Emitted(list).raised
    BY <1>2, <1>3, EmittedIfWanted
<1>. QED
    BY <1>3, <1>4 DEF list

\* One revision more is printed without misnaming anything: what it renames has
\* the name that it had in the schema the migration was made on.
LEMMA LineCleanMore ==
  ASSUME MInv, Wanted(nodes), Named(nodes, ancestors), NEW history, IsStraightHistory(nodes, history),
         NEW n \in Nat, NEW o \in OrdersOf(nodes, history)[n], Clean(OpsAlong(nodes, o)),
         NEW r \in CanFollow(nodes, history, o), Append(o, r) \in OrdersOf(nodes, history)[n + 1]
  PROVE  Clean(OpsAlong(nodes, Append(o, r)))
<1> DEFINE list == OpsAlong(nodes, o)
           next == Append(o, r)
           more == OpsAlong(nodes, next)
           D == ElementsOf(o)
           after == After(nodes, history)
<1>1. /\ StoreInv /\ IsSound(nodes, ancestors) /\ IsStore(nodes, ancestors) /\ IsHistory(nodes, history)
      /\ \A q \in DOMAIN nodes : Listed(nodes[q].ops)
    BY DEF MInv, StoreInv, IsSound, IsStore, IsStraightHistory
<1>2. history \subseteq DOMAIN nodes
    BY <1>1 DEF IsHistory
<1>3. IsVisited(nodes, history, after[n], o) /\ IsVisited(nodes, history, after[n + 1], next)
    BY <1>1, OrdersVisit
<1>4. /\ Listed(o) /\ D \in SUBSET history /\ ParentClosed(nodes, D) /\ Listed(list)
      /\ ElementsOf(list) = OpsOf(nodes, D)
      /\ Grounded(more)
    BY <1>3 DEF IsVisited, Grounded
<1>5. r \in history /\ r \notin D /\ ParentsOf(nodes, r) \subseteq D
    BY DEF CanFollow
<1>6. more = list \o nodes[r].ops
  <2>1. \A i \in DOMAIN o : Listed(nodes[o[i]].ops)
      BY <1>1, <1>2, <1>4 DEF ElementsOf
  <2>. QED
      BY <1>1, <1>2, <1>4, <1>5, <2>1, AlongMore
<1>7. ~Emitted(more).raised
    BY <1>1, <1>3, LineNotRaised
<1>8. D = Ancestors(nodes, r) \ {r}
    BY <1>1, <1>4, <1>5, LineBefore DEF IsStraightHistory
<1>9. /\ DOMAIN nodes = 1 .. Len(nodes) /\ Len(nodes) \in Nat
      /\ \A q \in DOMAIN nodes : ParentsOf(nodes, q) \subseteq 1 .. (q - 1)
      /\ ParentsStored(nodes)
    BY <1>1, StoreIsDag
<1>10. Clean(list)
    OBVIOUS
<1> HIDE DEF list, next, more, D, after
<1>11. CASE r = 1
  <2>1. nodes[r].ops = <<>>
      BY <1>11 DEF Named
  <2>2. list \in Seq(ElementsOf(list))
      BY <1>4 DEF Listed
  <2>3. list \o <<>> = list
      BY <2>2
  <2>4. more = list
      BY <1>6, <2>1, <2>3
  <2>. QED
      BY <1>10, <2>4 DEF more, next
<1>12. CASE r # 1 /\ nodes[r].parents = <<1>> /\ nodes[r].ops = Base
  <2>1. r \in DOMAIN nodes /\ ParentsOf(nodes, r) = {1}
      BY <1>2, <1>5, <1>12 DEF ParentsOf
  <2>2. 1 \in DOMAIN nodes /\ ParentsOf(nodes, 1) = {}
    <3>1. 1 \in DOMAIN nodes
        BY DEF Named
    <3>2. 1 .. (1 - 1) = {}
        OBVIOUS
    <3>. QED
        BY <1>9, <3>1, <3>2
  <2>3. ParentClosed(nodes, {1, r})
      BY <2>1, <2>2 DEF ParentClosed
  <2>4. Ancestors(nodes, r) \subseteq {1, r}
      BY <2>1, <2>2, <2>3, AncestorsLeast
  <2>5. D \subseteq {1}
      BY <1>8, <2>4
  <2>6. OpsOf(nodes, D) = {}
      BY <2>5, EmptyListed DEF OpsOf, Named
  <2>7. list = <<>>
    <3>1. ElementsOf(list) = {}
        BY <1>4, <2>6
    <3>2. list \in Seq({})
        BY <1>4, <3>1 DEF Listed
    <3>. QED
        BY <3>2
  <2>8. more = Base
    <3>1. Base \in Seq(ElementsOf(Base))
        BY BaseAssumption
    <3>2. <<>> \o Base = Base
        BY <3>1
    <3>. QED
        BY <1>6, <1>12, <2>7, <3>2
  <2>9. Grounded(Base)
      BY <1>4, <2>8
  <2>10. PICK b : Emitted(Base) = Emitting(b, Replayed(Base))
      BY <2>9, PossibleBase, EmittedIfWanted DEF Replayed
  <2>11. Emitted(Base).misnamed = b
      BY <2>10, MisnamedOf DEF Emitting
  <2>12. ~b
      BY <2>11, PossibleBase
  <2>13. Clean(Base)
      BY <2>10, <2>12 DEF Clean
  <2>. QED
      BY <2>8, <2>13 DEF more, next
<1>13. CASE r # 1 /\ MadeFrom(nodes, ancestors, nodes[r].parents, nodes[r].ops)
  <2>1. PICK h \in DOMAIN nodes : \E s \in Replays(nodes, ancestors[h]) : \E x :
           nodes[r].parents = <<h>> /\ nodes[r].ops = <<x>> /\ NamesWhatIsThere(s, x)
      BY <1>13 DEF MadeFrom
  <2>2. PICK s \in Replays(nodes, ancestors[h]) : \E x :
           nodes[r].parents = <<h>> /\ nodes[r].ops = <<x>> /\ NamesWhatIsThere(s, x)
      BY <2>1
  <2>3. PICK x : nodes[r].parents = <<h>> /\ nodes[r].ops = <<x>> /\ NamesWhatIsThere(s, x)
      BY <2>2
  <2>4. ParentsOf(nodes, r) = {h}
      BY <2>3 DEF ParentsOf
  <2>5. ancestors[h] = Ancestors(nodes, h) /\ ParentClosed(nodes, ancestors[h]) /\ h \in ancestors[h]
        /\ ancestors[h] \in SUBSET DOMAIN nodes
      BY <1>1, HeadHistory
  <2>6. D = ancestors[h]
    <3>1. h \in D /\ D \in SUBSET DOMAIN nodes
        BY <1>2, <1>4, <1>5, <2>4
    <3>2. ancestors[h] \subseteq D
        BY <1>4, <2>5, <3>1, AncestorsLeast
    <3>3. ParentClosed(nodes, ancestors[h] \cup {r}) /\ ancestors[h] \cup {r} \in SUBSET DOMAIN nodes
        BY <1>2, <1>5, <2>4, <2>5 DEF ParentClosed
    <3>4. Ancestors(nodes, r) \subseteq ancestors[h] \cup {r}
        BY <3>3, AncestorsLeast
    <3>. QED
        BY <1>8, <3>2, <3>4
  <2>7. Unmerged(nodes, h)
      BY <1>4, <2>5, <2>6 DEF Unmerged, IsStraightHistory
  <2>8. IsHistory(nodes, D)
      BY <1>1, <2>6, StoredHistory
  <2>9. Replayed(list) \in Replays(nodes, D)
      BY <1>1, <2>8, OrderReplays DEF list, D
  <2>10. PICK t : schemas[h] = {t}
      BY <2>7, UnmergedHasOne
  <2>11. schemas[h] = Replays(nodes, ancestors[h])
      BY <1>1 DEF StoreInv
  <2>12. Replayed(list) = s
      BY <2>2, <2>6, <2>9, <2>10, <2>11
  <2>13. PICK ops : ops = <<x>>
      OBVIOUS
  <2>14. Listed(ops) /\ Len(ops) = 1 /\ ops[1] = x /\ 1 .. Len(ops) = {1}
    <3>1. Listed(nodes[r].ops)
        BY <1>1, <1>2, <1>5
    <3>. QED
        BY <2>3, <2>13, <3>1
  <2>15. Len(list) \in Nat /\ DOMAIN list = 1 .. Len(list)
      BY <1>4, ListedPlaces
  <2>16. more = list \o ops
      BY <1>6, <2>3, <2>13
  <2>17. /\ DOMAIN more = 1 .. (Len(list) + 1)
         /\ \A i \in DOMAIN list : more[i] = list[i]
         /\ more[Len(list) + 1] = x
    <3> DEFINE k == Len(list)
           m == Len(ops)
           c == list \o ops
    <3>1. /\ DOMAIN c = 1 .. (k + m)
          /\ \A i \in 1 .. k : c[i] = list[i]
          /\ \A i \in 1 .. m : c[k + i] = ops[i]
        BY <1>4, <2>14, ConcatPlaces
    <3>2. k \in Nat /\ DOMAIN list = 1 .. k
        BY <2>15
    <3>3. m = 1 /\ 1 \in 1 .. m /\ ops[1] = x /\ more = c
        BY <2>14, <2>16
    <3> HIDE DEF k, m, c
    <3>4. /\ DOMAIN more = 1 .. (k + 1)
          /\ \A i \in 1 .. k : more[i] = list[i]
          /\ more[k + 1] = x
        BY <3>1, <3>3
    <3>. QED
        BY <3>2, <3>4 DEF k
  <2>18. Emitted(more) = EmitOne(Emitted(list), x)
      BY <1>4, <2>17, EmittedMore
  <2>19. Clean(more)
      BY <1>4, <1>7, <1>10, <2>3, <2>12, <2>18, CleanMore
  <2>. QED
      BY <2>19 DEF more, next
<1>14. r = 1 \/ Len(nodes[r].parents) # 2
  <2>1. Len(nodes[r].parents) <= 1
      BY <1>5 DEF IsStraightHistory
  <2>2. nodes[r].parents \in Seq(1 .. (r - 1))
      BY <1>1, <1>2, <1>5 DEF IsStore
  <2>3. Len(nodes[r].parents) \in Nat
      BY <2>2
  <2>4. \A k \in Nat : k <= 1 => k # 2
      OBVIOUS
  <2>. QED
      BY <2>1, <2>3, <2>4
<1>. QED
    BY <1>2, <1>5, <1>11, <1>12, <1>13, <1>14 DEF Named

\* So it is whatever order the history is visited in.
LEMMA LineClean ==
  ASSUME MInv, Wanted(nodes), Named(nodes, ancestors), NEW history, IsStraightHistory(nodes, history)
  PROVE  \A n \in Nat : \A o \in OrdersOf(nodes, history)[n] : Clean(OpsAlong(nodes, o))
<1> DEFINE orders == OrdersOf(nodes, history)
           Good(n) == \A o \in orders[n] : Clean(OpsAlong(nodes, o))
           T == {n \in Nat : Good(n)}
<1>1. /\ orders[0] = {<<>>}
      /\ \A n \in Nat : orders[n + 1] = LongerOrders(nodes, history, orders[n])
    BY OrderSteps
<1>2. ASSUME NEW n \in Nat, NEW o \in orders[n], Clean(OpsAlong(nodes, o)),
             NEW r \in CanFollow(nodes, history, o), Append(o, r) \in orders[n + 1]
      PROVE  Clean(OpsAlong(nodes, Append(o, r)))
    BY <1>2, LineCleanMore
<1> HIDE DEF orders
<1>3. Good(0)
  <2>1. OpsAlong(nodes, <<>>) = <<>>
      BY AlongNone
  <2>2. Clean(OpsAlong(nodes, <<>>))
      BY <2>1, CleanNone
  <2>. QED
      BY <1>1, <2>2
<1>4. ASSUME NEW n \in Nat, Good(n)
      PROVE  Good(n + 1)
  <2> SUFFICES ASSUME NEW next \in orders[n + 1]
               PROVE  Clean(OpsAlong(nodes, next))
      OBVIOUS
  <2>1. next \in UNION {{Append(p, r) : r \in CanFollow(nodes, history, p)} : p \in orders[n]}
      BY <1>1 DEF LongerOrders
  <2>2. PICK o \in orders[n] : \E r \in CanFollow(nodes, history, o) : next = Append(o, r)
      BY <2>1, Zenon
  <2>3. PICK r \in CanFollow(nodes, history, o) : next = Append(o, r)
      BY <2>2
  <2>. QED
      BY <1>2, <1>4, <2>3
<1>5. 0 \in T /\ \A n \in Nat : n \in T => n + 1 \in T
  <2> HIDE DEF Good
  <2>. QED
      BY <1>3, <1>4
<1>6. Nat \subseteq T
  <2> HIDE DEF T
  <2>. QED
      BY <1>5, SetInduction
<1>. QED
    BY <1>6 DEF orders

\* What emit_ddl gives for the history of the newest revision.
LEMMA EmissionOfHistory == MInv /\ Wanted(nodes) /\ Named(nodes, ancestors) => EmissionIsReplay
<1> SUFFICES ASSUME MInv, Wanted(nodes), Named(nodes, ancestors)
             PROVE  EmissionIsReplay
    OBVIOUS
<1> DEFINE last == Len(nodes)
           history == ancestors[last]
           c == Cardinality(history)
<1>1. StoreInv /\ IsSound(nodes, ancestors) /\ IsStore(nodes, ancestors)
    BY DEF MInv, StoreInv, IsSound
<1>2. last \in DOMAIN nodes /\ last \in Nat
  <2>1. DOMAIN nodes = 1 .. Len(nodes) /\ Len(nodes) \in Nat
      BY <1>1, StoreIsDag
  <2>2. heads[Target] \in DOMAIN nodes
      BY DEF MInv, StoreInv, Side
  <2>. QED
      BY <2>1, <2>2
<1>3. /\ IsHistory(nodes, history) /\ history \in SUBSET DOMAIN nodes
      /\ history = Ancestors(nodes, last)
      /\ schemas[last] = Replays(nodes, history)
    BY <1>1, <1>2, StoredHistory, HeadHistory DEF StoreInv
<1> HIDE DEF last, history
<1>4. c \in Nat /\ \A v \in After(nodes, history)[c] : v.done = history
    BY <1>3, LastVisitAll
<1>5. Replays(nodes, history) = {v.schema : v \in After(nodes, history)[c]}
    BY ReplaysAreLast
<1>6. Orders(history) = OrdersOf(nodes, history)[c]
    BY OrdersAreLast
<1> HIDE DEF c
<1> SUFFICES ASSUME NEW e \in Emissions(history)
             PROVE  /\ ~e.raised => e.schema \in schemas[last]
                    /\ Drops(history) = {} => ~e.raised
                    /\ history \cap MergeNodes = {} => ~e.raised /\ ~e.misnamed
    BY DEF EmissionIsReplay, last, history
<1>7. PICK o \in Orders(history) : e = Emission(OperationsOf(o))
    BY DEF Emissions
<1>8. IsVisited(nodes, history, After(nodes, history)[c], o)
    BY <1>1, <1>3, <1>4, <1>6, OrdersVisit
<1> DEFINE list == OpsAlong(nodes, o)
<1>9. e = Emission(list)
    BY <1>7 DEF OperationsOf, OpsAlong
<1>10. PICK v \in After(nodes, history)[c] : v.done = ElementsOf(o) /\ v.schema = Replayed(list)
    BY <1>8 DEF IsVisited
<1>11. Grounded(list) /\ ElementsOf(list) = OpsOf(nodes, history)
    BY <1>4, <1>8, <1>10 DEF IsVisited
<1>12. \A k \in DOMAIN list : StandsAt(nodes, history, list, k)
    BY <1>8 DEF IsVisited
<1> HIDE DEF list
<1>13. ASSUME ~e.raised
       PROVE  e.schema \in schemas[last]
  <2>1. e.schema = Replayed(list)
      BY <1>9, <1>11, <1>13, EmissionMakesReplay DEF Replayed
  <2>. QED
      BY <1>3, <1>5, <1>10, <2>1
<1>14. ASSUME Drops(history) = {}
       PROVE  ~e.raised
  <2>1. \A x \in OpsOf(nodes, history) : x.type \notin Destructive
      BY <1>14 DEF Drops, OpsOf, ElementsOf
  <2>. QED
      BY <1>9, <1>11, <2>1, WithoutDropsNotRaised
<1>15. ASSUME history \cap MergeNodes = {}
       PROVE  ~e.raised /\ ~e.misnamed
  <2>1. \A q \in history : Len(nodes[q].parents) <= 1
    <3> SUFFICES ASSUME NEW q \in history
                 PROVE  Len(nodes[q].parents) <= 1
        OBVIOUS
    <3>1. q \in DOMAIN nodes /\ Len(nodes[q].parents) # 2
        BY <1>3, <1>15 DEF MergeNodes
    <3>2. nodes[q].parents \in Seq(1 .. (q - 1)) /\ Len(nodes[q].parents) <= 2
        BY <1>1, <3>1 DEF IsStore, StoreInv
    <3>3. Len(nodes[q].parents) \in Nat
        BY <3>2
    <3>4. \A n \in Nat : n # 2 /\ n <= 2 => n <= 1
        OBVIOUS
    <3>. QED
        BY <3>1, <3>2, <3>3, <3>4
  <2>2. IsStraightHistory(nodes, history)
      BY <1>1, <1>2, <1>3, <2>1, LineIsRelated DEF IsStraightHistory
  <2>3. /\ \A k \in DOMAIN list : Wants(list[k]) \subseteq Left(Before(list, k - 1))
        /\ ~Emitted(list).raised
      BY <1>1, <1>8, <2>2, LineNotRaised DEF list
  <2>4. Reordered(list) = list
      BY <1>11, <2>3, WantedInOrderStays
  <2>5. Emission(list) = Emitted(Reordered(list))
      BY DEF Emission, Reordered
  <2>6. e = Emitted(list)
      BY <1>9, <2>4, <2>5
  <2>7. Clean(list)
      BY <1>4, <1>6, <2>2, LineClean DEF list
  <2>8. PICK b : Emitted(list) = Emitting(b, Replayed(list)) /\ ~b
      BY <2>7 DEF Clean
  <2>9. Emitted(list).misnamed = b
      BY <2>8, MisnamedOf DEF Emitting
  <2>. QED
      BY <2>3, <2>6, <2>8, <2>9
<1>. QED
    BY <1>13, <1>14, <1>15

\* EmissionIsReplay, in whatever order topological_order() visits the history:
\* statements that emit_ddl prints to the end make a schema that replay gives;
\* it prints them to the end where nothing was dropped, or nothing merged; and
\* where nothing was merged every RENAME names what is there.
THEOREM EmissionMatchesReplay == Spec => []EmissionIsReplay
<1> DEFINE Inv == Wanted(nodes) /\ Named(nodes, ancestors)
<1>1. Init => Inv
    BY WantedInit, NamedInit
<1>2. MInv /\ Inv /\ [Next]_vars => Inv'
  <2> SUFFICES ASSUME MInv, Wanted(nodes), Named(nodes, ancestors), [Next]_vars
               PROVE  Wanted(nodes') /\ Named(nodes', ancestors')
      OBVIOUS
  <2>1. ASSUME NEW b \in Side, Migrate(b)
        PROVE  Wanted(nodes') /\ Named(nodes', ancestors')
      BY <2>1, MigrateWants, MigrateNames
  <2>2. ASSUME NEW t \in Side, NEW s \in Side, Merge(t, s)
        PROVE  Wanted(nodes') /\ Named(nodes', ancestors')
      BY <2>2, MergeWants, MergeNames
  <2>3. CASE UNCHANGED vars
      BY <2>3 DEF vars
  <2>. QED
      BY <2>1, <2>2, <2>3 DEF Next
<1>3. MInv /\ Inv => EmissionIsReplay
    BY EmissionOfHistory
<1>. QED
    BY <1>1, <1>2, <1>3, StoreIsExplained, PTL DEF Spec

----------------------------------------------------------------------------
(* The value of a field, by the operations of a history.                     *)

\* No operation of the revisions sets the field.
NeverSet(ns, D, id, f) == \A q \in D : \A j \in DOMAIN ns[q].ops : ~SetsField(ns[q].ops[j], id, f)

\* The i-th operation of r sets the field, and none that comes later, in r or in a
\* descendant of r, does.
IsLatest(ns, D, id, f, r, i) ==
  /\ r \in D /\ i \in DOMAIN ns[r].ops /\ SetsField(ns[r].ops[i], id, f)
  /\ \A q \in D : \A j \in DOMAIN ns[q].ops :
       SetsField(ns[q].ops[j], id, f) => /\ q # r => r \notin Ancestors(ns, q)
                                         /\ q = r => j <= i

\* What a replay of the revisions can leave in the field.
IsValue(ns, D, id, f, value) ==
  \/ NeverSet(ns, D, id, f) /\ \E x \in Created(OpsOf(ns, D)) : x.id = id /\ value = x.object[f]
  \/ \E r \in D : \E i \in DOMAIN ns[r].ops :
       IsLatest(ns, D, id, f, r, i) /\ value = ns[r].ops[i].value

\* The last operation of a list on a field is one of the latest.
LastsAreLatest(ns, D, list) ==
  \A id, f, k : IsLastSet(list, Len(list), id, f, k) =>
    \E r \in D : \E i \in DOMAIN ns[r].ops :
      IsLatest(ns, D, id, f, r, i) /\ list[k] = ns[r].ops[i]

\* The operation is the last of the list on the field, at some place.
LastHere(list, id, f, o) == \E j \in 1 .. Len(list) : IsLastSet(list, Len(list), id, f, j) /\ o = list[j]

NoneHere(list, id, f) == \A j \in DOMAIN list : ~SetsField(list[j], id, f)

Joined(a, b, c) == c = a \o b

\* The k-th of c is the last of b, or else of a.
EndsLike(a, b, c, id, f, k) ==
  \/ LastHere(b, id, f, c[k])
  \/ NoneHere(b, id, f) /\ IsLastSet(a, Len(a), id, f, k) /\ c[k] = a[k]

\* The last of two lists is in the second, or else in the first.
LEMMA ConcatLast ==
  ASSUME NEW a, NEW b, Listed(a), Listed(b), NEW c, Joined(a, b, c), NEW id, NEW f, NEW k,
         IsLastSet(c, Len(c), id, f, k)
  PROVE  EndsLike(a, b, c, id, f, k)
<1> DEFINE m == Len(a)  n == Len(b)
<1>1. /\ m \in Nat /\ n \in Nat /\ DOMAIN b = 1 .. n
      /\ Len(c) = m + n
      /\ \A i \in 1 .. m : c[i] = a[i]
      /\ \A i \in 1 .. n : c[m + i] = b[i]
    BY ListedPlaces, ConcatPlaces DEF Joined
<1>2. /\ k \in 1 .. (m + n) /\ SetsField(c[k], id, f)
      /\ \A j \in 1 .. (m + n) : j > k => ~SetsField(c[j], id, f)
    BY <1>1 DEF IsLastSet
<1> HIDE DEF m, n
<1>3. CASE k > m
  <2> DEFINE j == k - m
  <2>1. j \in 1 .. n /\ k = m + j
      BY <1>1, <1>2, <1>3
  <2> HIDE DEF j
  <2>2. c[k] = b[j] /\ SetsField(b[j], id, f)
      BY <1>1, <1>2, <2>1
  <2>3. ASSUME NEW i \in 1 .. n, i > j
        PROVE  ~SetsField(b[i], id, f)
    <3>1. m + i \in 1 .. (m + n) /\ m + i > k
        BY <1>1, <2>1, <2>3
    <3>. QED
        BY <1>1, <1>2, <3>1
  <2>4. IsLastSet(b, n, id, f, j)
      BY <2>1, <2>2, <2>3 DEF IsLastSet
  <2>. QED
      BY <2>1, <2>2, <2>4 DEF m, n, LastHere, EndsLike
<1>4. CASE ~(k > m)
  <2>1. k \in 1 .. m
      BY <1>1, <1>2, <1>4
  <2>2. ASSUME NEW j \in 1 .. n
        PROVE  ~SetsField(b[j], id, f)
    <3>1. m + j \in 1 .. (m + n) /\ m + j > k
        BY <1>1, <1>4, <2>1
    <3>. QED
        BY <1>1, <1>2, <3>1
  <2>3. ASSUME NEW j \in 1 .. m, j > k
        PROVE  ~SetsField(a[j], id, f)
    <3>1. j \in 1 .. (m + n)
        BY <1>1
    <3>. QED
        BY <1>1, <1>2, <2>3, <3>1
  <2>4. c[k] = a[k] /\ SetsField(a[k], id, f)
      BY <1>1, <1>2, <2>1
  <2>5. IsLastSet(a, m, id, f, k)
      BY <2>1, <2>3, <2>4 DEF IsLastSet
  <2>. QED
      BY <1>1, <2>2, <2>4, <2>5 DEF m, n, NoneHere, EndsLike
<1>. QED
    BY <1>3, <1>4

\* The revision is an ancestor of none of those.
BeforeNone(ns, D, r) == \A q \in D : r \notin Ancestors(ns, q)

\* A revision that is no ancestor of those before it comes last.
LEMMA LatestMore ==
  ASSUME NEW ns, NEW D, NEW list, Listed(list), LastsAreLatest(ns, D, list),
         NEW r, r \notin D, NEW ops, ops = ns[r].ops, Listed(ops), BeforeNone(ns, D, r),
         NEW more, more = D \cup {r}, NEW c, c = list \o ops
  PROVE  LastsAreLatest(ns, more, c)
<1> SUFFICES ASSUME NEW id, NEW f, NEW k, IsLastSet(c, Len(c), id, f, k)
             PROVE  \E q \in more : \E i \in DOMAIN ns[q].ops :
                      IsLatest(ns, more, id, f, q, i) /\ c[k] = ns[q].ops[i]
    BY DEF LastsAreLatest
<1>1. Len(ops) \in Nat /\ DOMAIN ops = 1 .. Len(ops)
    BY ListedPlaces
<1>2j. Joined(list, ops, c)
    BY DEF Joined
<1>2e. EndsLike(list, ops, c, id, f, k)
    BY <1>2j, ConcatLast
<1>2. \/ LastHere(ops, id, f, c[k])
      \/ NoneHere(ops, id, f) /\ IsLastSet(list, Len(list), id, f, k) /\ c[k] = list[k]
    BY <1>2e DEF EndsLike
<1>3. ASSUME NEW i \in 1 .. Len(ops), IsLastSet(ops, Len(ops), id, f, i), c[k] = ops[i]
      PROVE  IsLatest(ns, more, id, f, r, i)
  <2>1. SetsField(ops[i], id, f) /\ \A j \in 1 .. Len(ops) : j > i => ~SetsField(ops[j], id, f)
      BY <1>3 DEF IsLastSet
  <2>2. \A j \in DOMAIN ops : SetsField(ops[j], id, f) => j <= i
      BY <1>1, <2>1
  <2>. QED
      BY <1>1, <2>1, <2>2 DEF IsLatest, BeforeNone
<1>4. ASSUME NoneHere(ops, id, f), IsLastSet(list, Len(list), id, f, k), c[k] = list[k]
      PROVE  \E q \in more : \E i \in DOMAIN ns[q].ops :
               IsLatest(ns, more, id, f, q, i) /\ c[k] = ns[q].ops[i]
  <2>1. PICK q \in D : \E i \in DOMAIN ns[q].ops :
               IsLatest(ns, D, id, f, q, i) /\ list[k] = ns[q].ops[i]
      BY <1>4 DEF LastsAreLatest
  <2>2. PICK i \in DOMAIN ns[q].ops : IsLatest(ns, D, id, f, q, i) /\ list[k] = ns[q].ops[i]
      BY <2>1
  <2>3. IsLatest(ns, more, id, f, q, i)
      BY <1>4, <2>2 DEF IsLatest, NoneHere
  <2>. QED
      BY <1>4, <2>2, <2>3
<1>5. CASE LastHere(ops, id, f, c[k])
  <2>1. PICK i \in 1 .. Len(ops) : IsLastSet(ops, Len(ops), id, f, i) /\ c[k] = ops[i]
      BY <1>5 DEF LastHere
  <2>. QED
      BY <1>1, <1>3, <2>1
<1>. QED
    BY <1>2, <1>4, <1>5

\* Of nothing.
LEMMA LatestOfNone ==
  ASSUME NEW ns
  PROVE  LastsAreLatest(ns, {}, <<>>)
<1>1. Len(<<>>) = 0 /\ \A k : k \notin 1 .. 0
    OBVIOUS
<1>. QED
    BY <1>1 DEF LastsAreLatest, IsLastSet

\* Every replay visits the history in one of the orders.
LEMMA ReplaysHaveOrders ==
  ASSUME NEW ns, NEW kept, IsSound(ns, kept), NEW history, IsHistory(ns, history)
  PROVE  \A n \in Nat : \A v \in After(ns, history)[n] :
           \E o \in OrdersOf(ns, history)[n] :
             v.done = ElementsOf(o) /\ v.schema = Replayed(OpsAlong(ns, o))
<1> DEFINE orders == OrdersOf(ns, history)
           after == After(ns, history)
           Is(v, o) == v.done = ElementsOf(o) /\ v.schema = Replayed(OpsAlong(ns, o))
           Good(n) == \A v \in after[n] : \E o \in orders[n] : Is(v, o)
           T == {n \in Nat : Good(n)}
<1>1. /\ orders[0] = {<<>>} /\ after[0] = Beginning
      /\ \A n \in Nat : orders[n + 1] = LongerOrders(ns, history, orders[n])
      /\ \A n \in Nat : after[n + 1] = Longer(ns, history, after[n])
    BY OrderSteps, AfterSteps
<1>2. \A n \in Nat : \A o \in orders[n] : IsVisited(ns, history, after[n], o)
    BY OrdersVisit
<1> HIDE DEF orders, after
<1>3. Good(0)
  <2>1. IsVisited(ns, history, Beginning, <<>>)
      BY NoneVisited
  <2>2. \E v \in Beginning : Is(v, <<>>)
      BY <2>1 DEF IsVisited
  <2>3. \A v, w \in Beginning : v = w
      BY DEF Beginning
  <2> HIDE DEF Is
  <2>. QED
      BY <1>1, <2>2, <2>3
<1>4. ASSUME NEW n \in Nat, Good(n)
      PROVE  Good(n + 1)
  <2> SUFFICES ASSUME NEW w \in after[n + 1]
               PROVE  \E o \in orders[n + 1] : Is(w, o)
      OBVIOUS
  <2>1. w \in UNION {{Visit(ns, v, r) : r \in CanVisit(ns, history, v.done)} : v \in after[n]}
      BY <1>1 DEF Longer
  <2>2. PICK v \in after[n] : \E r \in CanVisit(ns, history, v.done) : w = Visit(ns, v, r)
      BY <2>1, Zenon
  <2>3. PICK r \in CanVisit(ns, history, v.done) : w = Visit(ns, v, r)
      BY <2>2
  <2>4. PICK o \in orders[n] : Is(v, o)
      BY <1>4
  <2>5. IsVisited(ns, history, after[n], o)
      BY <1>2
  <2> DEFINE list == OpsAlong(ns, o)
             next == Append(o, r)
  <2>6. /\ Listed(o) /\ ElementsOf(o) \subseteq history /\ Listed(list)
      BY <2>5 DEF IsVisited, Grounded
  <2>7. r \in history /\ r \in CanFollow(ns, history, o)
      BY <2>3, <2>4 DEF CanVisit, CanFollow
  <2>8. history \subseteq DOMAIN ns /\ \A q \in DOMAIN ns : Listed(ns[q].ops)
      BY DEF IsHistory, IsSound, IsStore
  <2>9. \A i \in DOMAIN o : Listed(ns[o[i]].ops)
      BY <2>6, <2>8 DEF ElementsOf
  <2>10. OpsAlong(ns, next) = list \o ns[r].ops
      BY <2>6, <2>7, <2>8, <2>9, AlongMore
  <2>11. Replayed(list \o ns[r].ops) = Visited(ns, Replayed(list), r)
      BY <2>6, <2>7, <2>8, ReplayedConcat DEF Visited
  <2>12. ElementsOf(next) = ElementsOf(o) \cup {r}
      BY <2>6, ListedAppend
  <2> HIDE DEF next
  <2>13. w.done = v.done \cup {r} /\ w.schema = Visited(ns, v.schema, r)
      BY <2>3 DEF Visit
  <2>14. Is(w, next)
      BY <2>4, <2>10, <2>11, <2>12, <2>13
  <2>15. next \in orders[n + 1]
    <3>1. next \in {Append(o, q) : q \in CanFollow(ns, history, o)}
        BY <2>7 DEF next
    <3>2. next \in UNION {{Append(p, q) : q \in CanFollow(ns, history, p)} : p \in orders[n]}
        BY <3>1, Zenon
    <3>. QED
        BY <1>1, <3>2 DEF LongerOrders
  <2> HIDE DEF Is
  <2>. QED
      BY <2>14, <2>15
<1>5. 0 \in T /\ \A n \in Nat : n \in T => n + 1 \in T
  <2> HIDE DEF Good
  <2>. QED
      BY <1>3, <1>4
<1>6. Nat \subseteq T
  <2> HIDE DEF T
  <2>. QED
      BY <1>5, SetInduction
<1>. QED
    BY <1>6 DEF orders, after

\* In every order what comes last in the list comes last in the history.
LEMMA OrdersLast ==
  ASSUME NEW ns, NEW kept, IsSound(ns, kept), NEW history, IsHistory(ns, history)
  PROVE  \A n \in Nat : \A o \in OrdersOf(ns, history)[n] :
           LastsAreLatest(ns, ElementsOf(o), OpsAlong(ns, o))
<1> DEFINE orders == OrdersOf(ns, history)
           Good(n) == \A o \in orders[n] : LastsAreLatest(ns, ElementsOf(o), OpsAlong(ns, o))
           T == {n \in Nat : Good(n)}
<1>1. /\ orders[0] = {<<>>}
      /\ \A n \in Nat : orders[n + 1] = LongerOrders(ns, history, orders[n])
    BY OrderSteps
<1>2. \A n \in Nat : \A o \in orders[n] : IsVisited(ns, history, After(ns, history)[n], o)
    BY OrdersVisit
<1> HIDE DEF orders
<1>3. Good(0)
    BY <1>1, EmptyListed, AlongNone, LatestOfNone
<1>4. ASSUME NEW n \in Nat, Good(n)
      PROVE  Good(n + 1)
  <2> SUFFICES ASSUME NEW next \in orders[n + 1]
               PROVE  LastsAreLatest(ns, ElementsOf(next), OpsAlong(ns, next))
      OBVIOUS
  <2>1. next \in UNION {{Append(p, r) : r \in CanFollow(ns, history, p)} : p \in orders[n]}
      BY <1>1 DEF LongerOrders
  <2>2. PICK o \in orders[n] : \E r \in CanFollow(ns, history, o) : next = Append(o, r)
      BY <2>1, Zenon
  <2>3. PICK r \in CanFollow(ns, history, o) : next = Append(o, r)
      BY <2>2
  <2> DEFINE list == OpsAlong(ns, o)
             D == ElementsOf(o)
  <2>4. IsVisited(ns, history, After(ns, history)[n], o)
      BY <1>2
  <2>5. Listed(o) /\ D \subseteq history /\ Listed(list) /\ ParentClosed(ns, D)
      BY <2>4 DEF IsVisited, Grounded
  <2>6. r \in history \ D
      BY DEF CanFollow
  <2>7. history \subseteq DOMAIN ns /\ \A q \in DOMAIN ns : Listed(ns[q].ops)
      BY DEF IsHistory, IsSound, IsStore
  <2>8. \A i \in DOMAIN o : Listed(ns[o[i]].ops)
      BY <2>5, <2>7 DEF ElementsOf
  <2>9. OpsAlong(ns, next) = list \o ns[r].ops
      BY <2>3, <2>5, <2>6, <2>7, <2>8, AlongMore
  <2>10. ElementsOf(next) = D \cup {r}
      BY <2>3, <2>5, ListedAppend
  <2>11. BeforeNone(ns, D, r)
    <3> SUFFICES ASSUME NEW q \in D
                 PROVE  Ancestors(ns, q) \subseteq D
        BY <2>6 DEF BeforeNone
    <3>. QED
        BY <2>5, <2>7, AncestorsLeast
  <2>12. LastsAreLatest(ns, D, list)
      BY <1>4
  <2>13. r \notin D /\ Listed(ns[r].ops)
      BY <2>6, <2>7
  <2> HIDE DEF D, list
  <2>. QED
      BY <2>5, <2>9, <2>10, <2>11, <2>12, <2>13, LatestMore
<1>5. 0 \in T /\ \A n \in Nat : n \in T => n + 1 \in T
  <2> HIDE DEF Good
  <2>. QED
      BY <1>3, <1>4
<1>6. Nat \subseteq T
  <2> HIDE DEF T
  <2>. QED
      BY <1>5, SetInduction
<1>. QED
    BY <1>6 DEF orders

\* What a replay that does not raise leaves in the fields of an object.
LEMMA ReplayedValues ==
  ASSUME NEW ns, NEW kept, IsSound(ns, kept), NEW history, IsHistory(ns, history),
         NEW s \in Replays(ns, history), ~s.broken, NEW id \in DOMAIN s.objects
  PROVE  \E x \in Created(OpsOf(ns, history)) :
           /\ x.id = id /\ DOMAIN s.objects[id] = DOMAIN x.object
           /\ \A f \in DOMAIN x.object : IsValue(ns, history, id, f, s.objects[id][f])
<1> DEFINE n == Cardinality(history)
<1>1. PICK v \in After(ns, history)[n] : s = v.schema
    BY ReplaysAreLast
<1>2. n \in Nat /\ v.done = history
    BY LastVisitAll
<1> HIDE DEF n
<1>3. PICK o \in OrdersOf(ns, history)[n] :
        v.done = ElementsOf(o) /\ v.schema = Replayed(OpsAlong(ns, o))
    BY <1>2, ReplaysHaveOrders
<1>4. IsVisited(ns, history, After(ns, history)[n], o)
    BY <1>2, OrdersVisit
<1>5. LastsAreLatest(ns, history, OpsAlong(ns, o))
    BY <1>2, <1>3, OrdersLast
<1> DEFINE list == OpsAlong(ns, o)
<1>6. Grounded(list) /\ Listed(list) /\ ElementsOf(list) = OpsOf(ns, history)
    BY <1>2, <1>3, <1>4 DEF IsVisited, Grounded
<1>7. s = Seqs!FoldLeft(Apply, EmptySchema, list)
    BY <1>1, <1>3 DEF Replayed
<1> HIDE DEF list
<1>8. Written(list, Len(list), s.objects)
    BY <1>6, <1>7, FoldIsWritten
<1> DEFINE L == Len(list)
<1>9. L \in Nat /\ DOMAIN list = 1 .. L /\ Before(list, L) = OpsOf(ns, history)
    BY <1>6, ListedPlaces DEF Before, ElementsOf
<1>10. IsWritten(list, L, id, s.objects[id])
    BY <1>8 DEF Written
<1> HIDE DEF L
<1>11. PICK x \in Created(OpsOf(ns, history)) :
         /\ x.id = id /\ DOMAIN s.objects[id] = DOMAIN x.object
         /\ \A f \in DOMAIN x.object :
              /\ \A i \in 1 .. L : IsLastSet(list, L, id, f, i) => s.objects[id][f] = list[i].value
              /\ (\A i \in 1 .. L : ~SetsField(list[i], id, f)) => s.objects[id][f] = x.object[f]
    BY <1>9, <1>10 DEF IsWritten
<1>12. ASSUME NEW f \in DOMAIN x.object
       PROVE  IsValue(ns, history, id, f, s.objects[id][f])
  <2>1. CASE \A i \in 1 .. L : ~SetsField(list[i], id, f)
    <3>1. s.objects[id][f] = x.object[f]
        BY <1>11, <2>1
    <3>2. ASSUME NEW q \in history, NEW j \in DOMAIN ns[q].ops
          PROVE  ~SetsField(ns[q].ops[j], id, f)
      <4>0. ns[q].ops[j] \in ElementsOf(ns[q].ops)
          BY Zenon DEF ElementsOf
      <4>1. ns[q].ops[j] \in OpsOf(ns, history)
          BY <4>0, Zenon DEF OpsOf
      <4>2. PICK i \in DOMAIN list : ns[q].ops[j] = list[i]
          BY <1>6, <4>1 DEF ElementsOf
      <4>. QED
          BY <1>9, <2>1, <4>2
    <3>. QED
        BY <1>11, <3>1, <3>2 DEF IsValue, NeverSet
  <2>2. CASE \E i \in 1 .. L : SetsField(list[i], id, f)
    <3>1. PICK i \in 1 .. L : IsLastSet(list, L, id, f, i)
        BY <1>9, <2>2, LastSetExists
    <3>2. s.objects[id][f] = list[i].value
        BY <1>11, <3>1
    <3>3. PICK r \in history : \E j \in DOMAIN ns[r].ops :
             IsLatest(ns, history, id, f, r, j) /\ list[i] = ns[r].ops[j]
        BY <1>5, <3>1 DEF LastsAreLatest, L, list
    <3>. QED
        BY <3>2, <3>3 DEF IsValue
  <2>. QED
      BY <2>1, <2>2
<1>. QED
    BY <1>11, <1>12

\* What holds of `from`, and with a revision's NextBack of the revision, holds of all
\* that lead back to it.
LEMMA PathInduction ==
  ASSUME NEW ns, NEW kept, IsStore(ns, kept), NEW from, NEW S,
         \A r \in Leading(ns, kept, from) : r = from \/ NextBack(ns, kept, from, r) \in S => r \in S
  PROVE  Leading(ns, kept, from) \subseteq S
<1> DEFINE all == Leading(ns, kept, from)
           next(r) == NextBack(ns, kept, from, r)
           T == {k \in Nat : \A r \in all : r <= k => r \in S}
<1>1. all \subseteq 1 .. Len(ns) /\ Len(ns) \in Nat
    BY StoreIsDag DEF Leading
<1>2. \A r \in all : r # from => next(r) \in all /\ next(r) \in 1 .. (r - 1)
    BY NextBackLeads
<1>3. \A r \in all : r = from \/ next(r) \in S => r \in S
    OBVIOUS
<1> HIDE DEF all, next
<1>4. 0 \in T
    BY <1>1
<1>5. ASSUME NEW k \in Nat, k \in T
      PROVE  k + 1 \in T
  <2> SUFFICES ASSUME NEW r \in all, r <= k + 1, r # from
               PROVE  r \in S
      BY <1>3
  <2>1. next(r) \in all /\ next(r) <= k
      BY <1>1, <1>2
  <2>. QED
      BY <1>3, <1>5, <2>1
<1>6. Nat \subseteq T
  <2> HIDE DEF T
  <2>. QED
      BY <1>4, <1>5, SetInduction
<1>7. \A r \in all : r \in Nat /\ r <= r
    BY <1>1
<1>. QED
    BY <1>6, <1>7 DEF all

\* Where a revision has one parent, its side is that parent's and itself.
LEMMA SinceStep ==
  ASSUME NEW ns, NEW kept, IsStore(ns, kept), NEW from, NEW r \in Leading(ns, kept, from), r # from,
         Len(ns[r].parents) <= 1
  PROVE  LET p == NextBack(ns, kept, from, r)
         IN  /\ Since(ns, from, r) = Since(ns, from, p) \cup {r}
             /\ r \notin Since(ns, from, p) /\ BeforeNone(ns, Since(ns, from, p), r)
<1> DEFINE p == NextBack(ns, kept, from, r)
           parents == ns[r].parents
<1>1. p \in Leading(ns, kept, from) /\ p \in ParentsOf(ns, r) /\ p \in 1 .. (r - 1)
    BY NextBackLeads
<1>2. r \in DOMAIN ns /\ from \in Ancestors(ns, r)
    BY DEF Leading, IsStore
<1>3. Len(parents) <= 1 /\ parents \in Seq(1 .. (r - 1))
    BY <1>2 DEF IsStore
<1>4. \A i \in DOMAIN parents : i = 1
    BY <1>3
<1> HIDE DEF p
<1>5. ParentsOf(ns, r) = {p}
  <2> HIDE DEF parents
  <2>. QED
      BY <1>1, <1>4 DEF ParentsOf, parents
<1>6. \A x : x \in Ancestors(ns, r) <=> x = r \/ \E q \in ParentsOf(ns, r) : x \in Ancestors(ns, q)
    BY <1>2, StoreIsDag, AncestorsOfNode
<1>7. \A x : x \in Ancestors(ns, r) <=> x = r \/ x \in Ancestors(ns, p)
    BY <1>5, <1>6
<1>8. /\ DOMAIN ns = 1 .. Len(ns) /\ Len(ns) \in Nat /\ ParentsStored(ns)
      /\ \A q \in DOMAIN ns : ParentsOf(ns, q) \subseteq 1 .. (q - 1)
      /\ AppendOrder(ns)
    BY StoreIsDag
<1>9. p \in DOMAIN ns
    BY <1>1 DEF Leading
<1>10. ASSUME NEW q \in Ancestors(ns, p), NEW x \in Ancestors(ns, q)
       PROVE  x # r
  <2>1. q \in DOMAIN ns /\ x \in DOMAIN ns
      BY DEF Ancestors
  <2>2. q <= p
      BY <1>8, <1>9, <2>1, AncestorsNotNewer
  <2>3. x <= q
      BY <1>8, <2>1, AncestorsNotNewer
  <2>. QED
      BY <1>1, <1>2, <1>8, <1>9, <2>1, <2>2, <2>3
<1>11. \A q \in Since(ns, from, p) : q \in Ancestors(ns, p) /\ r \notin Ancestors(ns, q)
    BY <1>10 DEF Since
<1>12. r \notin Since(ns, from, p)
  <2>1. r \in Ancestors(ns, r)
      BY <1>2, AncestorsSelf
  <2>. QED
      BY <1>11, <2>1
<1>13. Since(ns, from, r) = Since(ns, from, p) \cup {r}
    BY <1>2, <1>7 DEF Since
<1>. QED
    BY <1>11, <1>12, <1>13 DEF p, BeforeNone

\* Nothing is behind the revision itself.
LEMMA SinceSelf ==
  ASSUME NEW ns, NEW kept, IsStore(ns, kept), NEW r \in DOMAIN ns
  PROVE  Since(ns, r, r) = {}
<1> SUFFICES ASSUME NEW q \in Since(ns, r, r)
             PROVE  FALSE
    OBVIOUS
<1>1. q \in Ancestors(ns, r) /\ r \in Ancestors(ns, q) /\ q # r
    BY DEF Since
<1>2. q \in DOMAIN ns /\ DOMAIN ns = 1 .. Len(ns) /\ Len(ns) \in Nat
    BY <1>1, StoreIsDag DEF Ancestors
<1>3. q <= r /\ r <= q
    BY <1>1, <1>2, StoreIsDag, AncestorsNotNewer DEF AppendOrder
<1>. QED
    BY <1>1, <1>2, <1>3

\* operations_since, where the side has no merge node, lists the last last.
LEMMA SinceLast ==
  ASSUME NEW ns, NEW kept, IsStore(ns, kept), NEW to \in DOMAIN ns, NEW from \in kept[to],
         \A q \in Since(ns, from, to) : Len(ns[q].parents) <= 1
  PROVE  LastsAreLatest(ns, Since(ns, from, to), OperationsSince(ns, kept, from, to))
<1> DEFINE all == Leading(ns, kept, from)
           path == CHOOSE path : IsPath(ns, kept, from, all, path)
           next(r) == NextBack(ns, kept, from, r)
           Line(r) == \A q \in Since(ns, from, r) : Len(ns[q].parents) <= 1
           S == {r \in all : Line(r) => LastsAreLatest(ns, Since(ns, from, r), path[r])}
<1>1. IsPath(ns, kept, from, all, path)
    BY PathExists
<1>2. \A r \in all : path[r] = OperationsSince(ns, kept, from, r)
    BY PathIsPath
<1>3. all \subseteq DOMAIN ns /\ \A r \in all : from \in kept[r] /\ from \in Ancestors(ns, r)
    BY DEF Leading, IsStore
<1> HIDE DEF all, path, next
<1>4. \A r \in all : path[r] = IF r = from THEN <<>> ELSE path[next(r)] \o ns[r].ops
    BY <1>1 DEF IsPath, next
<1>5. ASSUME NEW r \in all, r = from \/ next(r) \in S
      PROVE  r \in S
  <2> SUFFICES ASSUME Line(r)
               PROVE  LastsAreLatest(ns, Since(ns, from, r), path[r])
      OBVIOUS
  <2>1. CASE r = from
    <3>1. path[r] = <<>> /\ Since(ns, from, r) = {}
        BY <1>3, <1>4, <2>1, SinceSelf
    <3>. QED
        BY <3>1, LatestOfNone
  <2>2. CASE r # from
    <3> DEFINE p == next(r)
    <3>1. path[r] = path[p] \o ns[r].ops
        BY <1>4, <2>2
    <3>2. p \in all /\ p \in S
        BY <1>5, <2>2
    <3>3. r \in Ancestors(ns, r)
        BY <1>3, AncestorsSelf
    <3>4. r \in Since(ns, from, r)
        BY <1>3, <2>2, <3>3 DEF Since
    <3>5. Len(ns[r].parents) <= 1
        BY <3>4
    <3>6. /\ Since(ns, from, r) = Since(ns, from, p) \cup {r}
          /\ r \notin Since(ns, from, p) /\ BeforeNone(ns, Since(ns, from, p), r)
        BY <2>2, <3>5, SinceStep DEF all, next
    <3>7. Line(p)
        BY <3>6
    <3>8. LastsAreLatest(ns, Since(ns, from, p), path[p])
        BY <3>2, <3>7
    <3>9. Listed(path[p])
        BY <1>2, <1>3, <3>2, OperationsSinceListed
    <3>10. Listed(ns[r].ops)
        BY <1>3 DEF IsStore
    <3> HIDE DEF p, S
    <3>. QED
        BY <3>1, <3>6, <3>8, <3>9, <3>10, LatestMore
  <2>. QED
      BY <2>1, <2>2
<1>6. all \subseteq S
  <2>1. \A r \in all : r = from \/ next(r) \in S => r \in S
      BY <1>5
  <2> HIDE DEF S
  <2>. QED
      BY <2>1, PathInduction DEF all, next
<1>7. to \in all
    BY DEF all, Leading
<1>. QED
    BY <1>2, <1>6, <1>7

\* The last of a group is the last of its side.
LEMMA GroupLast ==
  ASSUME NEW ops, Listed(ops), NEW id, NEW f, NEW k,
         IsLastSet(OpsOn(ops, id), Len(OpsOn(ops, id)), id, f, k)
  PROVE  \E i \in DOMAIN ops : IsLastSet(ops, Len(ops), id, f, i) /\ OpsOn(ops, id)[k] = ops[i]
<1> DEFINE L == Len(ops)
           on == CHOOSE on : IsOn(ops, id, L, on)
           Last(j, m) == \E i \in 1 .. m : IsLastSet(ops, m, id, f, i) /\ on[m][j] = ops[i]
           Good(m) == Listed(on[m]) /\ \A j : IsLastSet(on[m], Len(on[m]), id, f, j) => Last(j, m)
           T == {m \in Nat : m <= L => Good(m)}
<1>1. L \in Nat /\ DOMAIN ops = 1 .. L
    BY ListedPlaces
<1>2. IsOn(ops, id, L, on)
    BY <1>1, OnExists
<1>3. OpsOn(ops, id) = on[L]
    BY DEF OpsOn, IsOn
<1> HIDE DEF on, L
<1>4. \A m \in 0 .. L : on[m] = IF m = 0 THEN <<>>
          ELSE IF ops[m].id = id THEN Append(on[m - 1], ops[m]) ELSE on[m - 1]
    BY <1>2 DEF IsOn
<1>5. Good(0)
  <2>1. on[0] = <<>> /\ Len(<<>>) = 0 /\ \A j : j \notin 1 .. 0
      BY <1>1, <1>4
  <2>. QED
      BY <2>1, EmptyListed DEF IsLastSet
<1>6. ASSUME NEW m \in Nat, m < L, Good(m)
      PROVE  Good(m + 1)
  <2>1. m + 1 \in 0 .. L /\ m + 1 # 0 /\ (m + 1) - 1 = m /\ m + 1 \in 1 .. (m + 1)
      BY <1>1, <1>6
  <2>2. on[m + 1] = IF ops[m + 1].id = id THEN Append(on[m], ops[m + 1]) ELSE on[m]
      BY <1>4, <2>1
  <2>3. \A i : i \in 1 .. (m + 1) <=> i \in 1 .. m \/ i = m + 1
      OBVIOUS
  <2>4. ASSUME NEW j, ~SetsField(ops[m + 1], id, f), Last(j, m), on[m + 1][j] = on[m][j]
        PROVE  Last(j, m + 1)
    <3>1. PICK i \in 1 .. m : IsLastSet(ops, m, id, f, i) /\ on[m][j] = ops[i]
        BY <2>4
    <3>2. IsLastSet(ops, m + 1, id, f, i)
        BY <2>3, <2>4, <3>1 DEF IsLastSet
    <3>. QED
        BY <2>3, <2>4, <3>1, <3>2
  <2>5. CASE ops[m + 1].id # id
    <3>1. on[m + 1] = on[m] /\ ~SetsField(ops[m + 1], id, f)
        BY <2>2, <2>5 DEF SetsField
    <3> HIDE DEF Last
    <3>. QED
        BY <1>6, <2>4, <3>1
  <2>6. CASE ops[m + 1].id = id
    <3> DEFINE c == Len(on[m])  longer == Append(on[m], ops[m + 1])
    <3>1. on[m + 1] = longer
        BY <2>2, <2>6
    <3>2. /\ Listed(longer) /\ Len(longer) = c + 1
          /\ \A i \in DOMAIN on[m] : longer[i] = on[m][i]
          /\ longer[c + 1] = ops[m + 1]
        BY <1>6, ListedAppend
    <3>3. c \in Nat /\ DOMAIN on[m] = 1 .. c
        BY <1>6, ListedPlaces
    <3> HIDE DEF c, longer
    <3>4. ASSUME NEW j, IsLastSet(longer, c + 1, id, f, j)
          PROVE  Last(j, m + 1)
      <4>1. /\ j \in 1 .. (c + 1) /\ SetsField(longer[j], id, f)
            /\ \A i \in 1 .. (c + 1) : i > j => ~SetsField(longer[i], id, f)
          BY <3>4 DEF IsLastSet
      <4>2. CASE j = c + 1
        <5>1. SetsField(ops[m + 1], id, f)
            BY <3>2, <4>1, <4>2
        <5>2. \A i \in 1 .. (m + 1) : ~(i > m + 1)
            OBVIOUS
        <5>3. IsLastSet(ops, m + 1, id, f, m + 1)
            BY <2>1, <5>1, <5>2 DEF IsLastSet
        <5>4. on[m + 1][j] = ops[m + 1]
            BY <3>1, <3>2, <4>2
        <5>. QED
            BY <2>1, <5>3, <5>4
      <4>3. CASE j # c + 1
        <5>1. j \in 1 .. c /\ c + 1 > j /\ c + 1 \in 1 .. (c + 1)
            BY <3>3, <4>1, <4>3
        <5>2. ~SetsField(ops[m + 1], id, f)
            BY <3>2, <4>1, <5>1
        <5>3. longer[j] = on[m][j]
            BY <3>2, <3>3, <5>1
        <5>4. ASSUME NEW i \in 1 .. c, i > j
              PROVE  ~SetsField(on[m][i], id, f)
          <6>1. i \in 1 .. (c + 1) /\ longer[i] = on[m][i]
              BY <3>2, <3>3
          <6>. QED
              BY <4>1, <5>4, <6>1
        <5>5. IsLastSet(on[m], c, id, f, j)
            BY <4>1, <5>1, <5>3, <5>4 DEF IsLastSet
        <5>6. Last(j, m)
            BY <1>6, <5>5 DEF c
        <5>. QED
            BY <2>4, <3>1, <5>2, <5>3, <5>6
      <4>. QED
          BY <4>2, <4>3
    <3> HIDE DEF Last
    <3>. QED
        BY <3>1, <3>2, <3>4
  <2>. QED
      BY <2>5, <2>6
<1>7. Nat \subseteq T
  <2> HIDE DEF Good
  <2>1. \A m \in Nat : m + 1 <= L => m < L /\ m <= L
      BY <1>1
  <2>2. 0 \in T /\ \A m \in Nat : m \in T => m + 1 \in T
      BY <1>5, <1>6, <2>1
  <2> HIDE DEF T
  <2>. QED
      BY <2>2, SetInduction
<1>8. Good(L)
    BY <1>1, <1>7
<1>. QED
    BY <1>1, <1>3, <1>8 DEF L

\* The last of several lists is the last of one of them.
LEMMA FlatLast ==
  ASSUME NEW lists, Listed(lists), \A i \in DOMAIN lists : Listed(lists[i]),
         NEW id, NEW f, NEW k,
         IsLastSet(Seqs!FlattenSeq(lists), Len(Seqs!FlattenSeq(lists)), id, f, k)
  PROVE  \E i \in DOMAIN lists : \E j :
           IsLastSet(lists[i], Len(lists[i]), id, f, j) /\ Seqs!FlattenSeq(lists)[k] = lists[i][j]
<1> DEFINE L == Len(lists)
           flat == CHOOSE flat : IsFlat(lists, L, flat)
           Last(m, j) == \E i \in 1 .. m : \E h :
             IsLastSet(lists[i], Len(lists[i]), id, f, h) /\ flat[m][j] = lists[i][h]
           Good(m) == Listed(flat[m]) /\ \A j : IsLastSet(flat[m], Len(flat[m]), id, f, j) => Last(m, j)
           T == {m \in Nat : m + 1 <= L => Good(m + 1)}
<1>1. L \in Nat /\ DOMAIN lists = 1 .. L
    BY ListedPlaces
<1>2. Seqs!FlattenSeq(lists) = IF L = 0 THEN lists ELSE flat[L]
    BY DEF Seqs!FlattenSeq, IsFlat
<1>3. IsFlat(lists, L, flat)
    BY <1>1, FlatExists
<1> HIDE DEF flat
<1>4. L # 0
  <2> SUFFICES ASSUME L = 0
               PROVE  FALSE
      OBVIOUS
  <2>1. Seqs!FlattenSeq(lists) = lists
      BY <1>2
  <2>2. k \in 1 .. L
      BY <2>1 DEF IsLastSet
  <2>. QED
      BY <2>2
<1> HIDE DEF L
<1>5. \A m \in 1 .. L : flat[m] = IF m = 1 THEN lists[m] ELSE flat[m - 1] \o lists[m]
    BY <1>3 DEF IsFlat
<1>6. 0 \in T
  <2> DEFINE m == 0 + 1
  <2>1. m = 1 /\ m \in 1 .. L /\ m \in 1 .. m
      BY <1>1, <1>4
  <2> HIDE DEF m
  <2>2. flat[m] = lists[m] /\ Listed(lists[m])
      BY <1>1, <1>5, <2>1
  <2>3. Good(m)
      BY <2>1, <2>2
  <2> HIDE DEF Good
  <2>. QED
      BY <2>3 DEF m
<1>7. ASSUME NEW n \in Nat, n \in T
      PROVE  n + 1 \in T
  <2> SUFFICES ASSUME (n + 1) + 1 <= L
               PROVE  Good((n + 1) + 1)
      OBVIOUS
  <2> DEFINE m == n + 1  next == m + 1
  <2>1. next \in 1 .. L /\ next # 1 /\ next - 1 = m /\ next \in 1 .. next /\ 1 .. m \subseteq 1 .. next
      BY <1>1
  <2>2. n + 1 <= L
      BY <1>1
  <2>3. Good(m)
      BY <1>7, <2>2
  <2> HIDE DEF m, next
  <2>4. flat[next] = flat[m] \o lists[next] /\ Listed(lists[next])
      BY <1>1, <1>5, <2>1
  <2>5. Listed(flat[next])
      BY <2>3, <2>4, ListedConcat
  <2>6. ASSUME NEW j, IsLastSet(flat[next], Len(flat[next]), id, f, j)
        PROVE  Last(next, j)
    <3>1j. Joined(flat[m], lists[next], flat[next])
        BY <2>4 DEF Joined
    <3>1e. EndsLike(flat[m], lists[next], flat[next], id, f, j)
        BY <2>3, <2>4, <2>6, <3>1j, ConcatLast
    <3>1. \/ LastHere(lists[next], id, f, flat[next][j])
          \/ IsLastSet(flat[m], Len(flat[m]), id, f, j) /\ flat[next][j] = flat[m][j]
        BY <3>1e DEF EndsLike
    <3>2. CASE LastHere(lists[next], id, f, flat[next][j])
        BY <2>1, <3>2 DEF LastHere
    <3>3. CASE IsLastSet(flat[m], Len(flat[m]), id, f, j) /\ flat[next][j] = flat[m][j]
        BY <2>1, <2>3, <3>3
    <3>. QED
        BY <3>1, <3>2, <3>3
  <2>7. Good(next)
      BY <2>5, <2>6
  <2> HIDE DEF Good
  <2>. QED
      BY <2>7 DEF next, m
<1>8. Nat \subseteq T
  <2> HIDE DEF T
  <2>. QED
      BY <1>6, <1>7, SetInduction
<1>9. Good(L)
  <2>1. L - 1 \in Nat /\ (L - 1) + 1 = L
      BY <1>1, <1>4
  <2>2. L - 1 \in T
      BY <1>8, <2>1
  <2> HIDE DEF Good
  <2>. QED
      BY <1>1, <2>1, <2>2
<1>10. Seqs!FlattenSeq(lists) = flat[L]
    BY <1>2, <1>4
<1>11. Last(L, k)
    BY <1>9, <1>10
<1>. QED
    BY <1>1, <1>10, <1>11

\* o is the last operation of a list on a field.
LastOf(ops, id, f, o) == \E i \in DOMAIN ops : IsLastSet(ops, Len(ops), id, f, i) /\ o = ops[i]

NoneOf(ops, id, f) == \A i \in DOMAIN ops : ~SetsField(ops[i], id, f)

\* The operation that an answer makes the last on a field.
Answered(opsA, opsB, answer, id, f, o) ==
  \/ answer = "a" /\ LastOf(opsA, id, f, o)
  \/ answer = "b" /\ LastOf(opsB, id, f, o)
  \/ answer = "both" /\ LastOf(opsB, id, f, o)
  \/ answer = "both" /\ LastOf(opsA, id, f, o) /\ NoneOf(opsB, id, f)

\* What was chosen for an object ends with the last operation of the chosen side.
LEMMA ChosenLast ==
  ASSUME NEW opsA, Listed(opsA), NEW opsB, Listed(opsB), NEW answer \in {"a", "b", "both"},
         NEW id, NEW f, NEW k, NEW group, group = Chosen(OpsOn(opsA, id), OpsOn(opsB, id), answer),
         IsLastSet(group, Len(group), id, f, k)
  PROVE  Answered(opsA, opsB, answer, id, f, group[k])
<1> DEFINE a == OpsOn(opsA, id)
           b == OpsOn(opsB, id)
<1>1. Listed(a) /\ Listed(b) /\ ElementsOf(b) = {o \in ElementsOf(opsB) : o.id = id}
    BY OpsOnListed
<1>2. ASSUME NEW j, IsLastSet(a, Len(a), id, f, j)
      PROVE  LastOf(opsA, id, f, a[j])
    BY <1>2, GroupLast DEF LastOf
<1>3. ASSUME NEW j, IsLastSet(b, Len(b), id, f, j)
      PROVE  LastOf(opsB, id, f, b[j])
    BY <1>3, GroupLast DEF LastOf
<1> HIDE DEF a, b
<1>4. group = Chosen(a, b, answer)
    BY DEF a, b
<1>5. CASE answer = "a"
    BY <1>2, <1>4, <1>5 DEF Chosen, Answered
<1>6. CASE answer = "b"
    BY <1>3, <1>4, <1>6 DEF Chosen, Answered
<1>7. CASE answer = "both"
  <2>1. group = a \o b
      BY <1>4, <1>7 DEF Chosen
  <2>2j. Joined(a, b, group)
      BY <2>1 DEF Joined
  <2>2e. EndsLike(a, b, group, id, f, k)
      BY <1>1, <2>2j, ConcatLast
  <2>2. \/ LastHere(b, id, f, group[k])
        \/ /\ NoneHere(b, id, f) /\ IsLastSet(a, Len(a), id, f, k) /\ group[k] = a[k]
      BY <2>2e DEF EndsLike
  <2>3. ASSUME NoneHere(b, id, f)
        PROVE  NoneOf(opsB, id, f)
    <3> SUFFICES ASSUME NEW i \in DOMAIN opsB, SetsField(opsB[i], id, f)
                 PROVE  FALSE
        BY DEF NoneOf
    <3>1. opsB[i] \in ElementsOf(b)
        BY <1>1 DEF SetsField, ElementsOf
    <3>. QED
        BY <2>3, <3>1 DEF ElementsOf, NoneHere
  <2>. QED
      BY <1>2, <1>3, <1>7, <2>2, <2>3 DEF Answered, LastHere
<1>. QED
    BY <1>5, <1>6, <1>7

\* The last operation of a merge node on a field is one that an answer chose.
LEMMA MergeOpsLast ==
  ASSUME NEW opsA, Listed(opsA), NEW opsB, Listed(opsB),
         NEW answers, IsFiniteSet(DOMAIN answers),
         \A x \in DOMAIN answers : answers[x] \in {"a", "b", "both"},
         NEW ops, ops = MergeOps(opsA, opsB, answers),
         NEW id, NEW f, NEW k, IsLastSet(ops, Len(ops), id, f, k)
  PROVE  id \in DOMAIN answers /\ Answered(opsA, opsB, answers[id], id, f, ops[k])
<1> DEFINE asked == Seqs!SetToSeq(DOMAIN answers)
           Group(x) == Chosen(OpsOn(opsA, x), OpsOn(opsB, x), answers[x])
           resolved == [i \in DOMAIN asked |-> Group(asked[i])]
           first == Seqs!FlattenSeq(resolved)
           second == CorrectiveList(opsA, opsB)
           third == Seqs!SetToSeq(Unnamed(opsA, opsB))
<1>1. ops = (first \o second) \o third
    BY DEF MergeOps, CorrectiveList, Unnamed
<1>2. Listed(asked) /\ ElementsOf(asked) = DOMAIN answers
    BY SetToSeqListed
<1>3. \A x : Listed(Group(x)) /\ \A o \in ElementsOf(Group(x)) : o.id = x
  <2> SUFFICES ASSUME NEW x
               PROVE  Listed(Group(x)) /\ \A o \in ElementsOf(Group(x)) : o.id = x
      OBVIOUS
  <2>1. /\ Listed(OpsOn(opsA, x)) /\ Listed(OpsOn(opsB, x))
        /\ \A o \in ElementsOf(OpsOn(opsA, x)) \cup ElementsOf(OpsOn(opsB, x)) : o.id = x
      BY OpsOnListed
  <2>2. /\ Listed(OpsOn(opsA, x) \o OpsOn(opsB, x))
        /\ ElementsOf(OpsOn(opsA, x) \o OpsOn(opsB, x))
             = ElementsOf(OpsOn(opsA, x)) \cup ElementsOf(OpsOn(opsB, x))
      BY <2>1, ListedConcat
  <2>. QED
      BY <2>1, <2>2 DEF Chosen
<1> HIDE DEF Group, asked
<1>4. /\ Listed(resolved) /\ DOMAIN resolved = DOMAIN asked
      /\ \A i \in DOMAIN asked : resolved[i] = Group(asked[i])
  <2>1. Len(asked) \in Nat /\ DOMAIN asked = 1 .. Len(asked)
      BY <1>2, ListedPlaces
  <2>2. DOMAIN resolved = 1 .. Len(asked) /\ resolved = [i \in 1 .. Len(asked) |-> resolved[i]]
      BY <2>1
  <2>3. \A i \in DOMAIN asked : resolved[i] = Group(asked[i])
      OBVIOUS
  <2> HIDE DEF resolved
  <2>. QED
      BY <2>1, <2>2, <2>3, ListedFunction
<1> HIDE DEF resolved
<1>5. Listed(first)
    BY <1>3, <1>4, FlattenListed
<1>6. Listed(second) /\ ElementsOf(second) = Correctives(opsA, opsB)
    BY CorrectivesListed
<1>7. Listed(third) /\ ElementsOf(third) = Unnamed(opsA, opsB)
  <2> DEFINE g == [c \in Collisions(opsA, opsB) |-> [type |-> "DropColumn", id |-> c.dropped]]
  <2>1. Unnamed(opsA, opsB) = {g[c] : c \in Collisions(opsA, opsB)}
      BY DEF Unnamed
  <2> HIDE DEF g
  <2>2. IsFiniteSet(Unnamed(opsA, opsB))
      BY <2>1, ReportsFinite, ImageFinite
  <2>. QED
      BY <2>2, SetToSeqListed
<1>8. ASSUME NEW o \in Correctives(opsA, opsB) \cup Unnamed(opsA, opsB)
      PROVE  ~SetsField(o, id, f)
  <2>1. CASE o \in Unnamed(opsA, opsB)
      BY <2>1 DEF Unnamed, SetsField, SetField, MutationField
  <2>2. CASE o \in Correctives(opsA, opsB)
    <3>1. PICK x \in CrossObject(opsA, opsB) : o = CorrectiveDrop(x)
        BY <2>2 DEF Correctives
    <3>2. x.type \in {"AddColumn", "AddIndex", "AddConstraint"}
        BY CrossObjectIs DEF Referenced
    <3>3. o.type \in {"DropColumn", "DropIndex", "DropConstraint"}
        BY <3>1, <3>2 DEF CorrectiveDrop
    <3>. QED
        BY <3>3 DEF SetsField, SetField, MutationField
  <2>. QED
      BY <2>1, <2>2
<1> HIDE DEF first, second, third
<1>9. Listed(first \o second)
    BY <1>5, <1>6, ListedConcat
<1>10. IsLastSet(first \o second, Len(first \o second), id, f, k) /\ ops[k] = (first \o second)[k]
  <2>1j. Joined(first \o second, third, ops)
      BY <1>1 DEF Joined
  <2>1e. EndsLike(first \o second, third, ops, id, f, k)
      BY <1>7, <1>9, <2>1j, ConcatLast
  <2>1. \/ LastHere(third, id, f, ops[k])
        \/ IsLastSet(first \o second, Len(first \o second), id, f, k) /\ ops[k] = (first \o second)[k]
      BY <2>1e DEF EndsLike
  <2>2. ASSUME NEW j \in 1 .. Len(third), IsLastSet(third, Len(third), id, f, j)
        PROVE  FALSE
    <3>1. third[j] \in ElementsOf(third)
        BY <1>7, ListedPlaces DEF ElementsOf
    <3>. QED
        BY <1>7, <1>8, <2>2, <3>1 DEF IsLastSet
  <2>. QED
      BY <2>1, <2>2 DEF LastHere
<1>11. IsLastSet(first, Len(first), id, f, k) /\ ops[k] = first[k]
  <2>1j. Joined(first, second, first \o second)
      BY DEF Joined
  <2>1e. EndsLike(first, second, first \o second, id, f, k)
      BY <1>5, <1>6, <1>10, <2>1j, ConcatLast
  <2>1. \/ LastHere(second, id, f, (first \o second)[k])
        \/ IsLastSet(first, Len(first), id, f, k) /\ (first \o second)[k] = first[k]
      BY <2>1e DEF EndsLike
  <2>2. ASSUME NEW j \in 1 .. Len(second), IsLastSet(second, Len(second), id, f, j)
        PROVE  FALSE
    <3>1. second[j] \in ElementsOf(second)
        BY <1>6, ListedPlaces DEF ElementsOf
    <3>. QED
        BY <1>6, <1>8, <2>2, <3>1 DEF IsLastSet
  <2>. QED
      BY <1>10, <2>1, <2>2 DEF LastHere
<1>12. PICK i \in DOMAIN resolved : \E j :
         IsLastSet(resolved[i], Len(resolved[i]), id, f, j) /\ first[k] = resolved[i][j]
    BY <1>3, <1>4, <1>11, FlatLast DEF first
<1>13. PICK j : IsLastSet(resolved[i], Len(resolved[i]), id, f, j) /\ first[k] = resolved[i][j]
    BY <1>12
<1> DEFINE x == asked[i]
<1>14. i \in DOMAIN asked /\ resolved[i] = Group(x) /\ x \in DOMAIN answers
    BY <1>2, <1>4 DEF ElementsOf
<1> HIDE DEF x
<1>15. x = id
  <2>1. j \in 1 .. Len(Group(x)) /\ SetsField(Group(x)[j], id, f)
      BY <1>13, <1>14 DEF IsLastSet
  <2>2. Group(x)[j] \in ElementsOf(Group(x))
      BY <1>3, <2>1, ListedPlaces DEF ElementsOf
  <2>. QED
      BY <1>3, <2>1, <2>2 DEF SetsField
<1>16. Answered(opsA, opsB, answers[id], id, f, Group(id)[j])
  <2>1. IsLastSet(Group(id), Len(Group(id)), id, f, j)
      BY <1>13, <1>14, <1>15
  <2>2. answers[id] \in {"a", "b", "both"}
      BY <1>14, <1>15
  <2>. QED
      BY <2>1, <2>2, ChosenLast DEF Group
<1>. QED
    BY <1>11, <1>13, <1>14, <1>15, <1>16

\* Any two of the revisions are one an ancestor of the other.
IsLine(ns, D) == D \subseteq DOMAIN ns /\ \A p, q \in D : Related(ns, p, q)

\* The revisions set the field, to this value last.
Says(ns, D, id, f, value) ==
  \E r \in D : \E i \in DOMAIN ns[r].ops : IsLatest(ns, D, id, f, r, i) /\ value = ns[r].ops[i].value

\* A line has one last operation on a field.
LEMMA SaysOnce ==
  ASSUME NEW ns, NEW kept, IsStore(ns, kept), NEW D, IsLine(ns, D), NEW id, NEW f,
         NEW v, Says(ns, D, id, f, v), NEW w, Says(ns, D, id, f, w)
  PROVE  v = w
<1>1r. PICK r \in D : \E i \in DOMAIN ns[r].ops : IsLatest(ns, D, id, f, r, i) /\ v = ns[r].ops[i].value
    BY DEF Says
<1>1. PICK i \in DOMAIN ns[r].ops : IsLatest(ns, D, id, f, r, i) /\ v = ns[r].ops[i].value
    BY <1>1r
<1>2q. PICK q \in D : \E j \in DOMAIN ns[q].ops : IsLatest(ns, D, id, f, q, j) /\ w = ns[q].ops[j].value
    BY DEF Says
<1>2. PICK j \in DOMAIN ns[q].ops : IsLatest(ns, D, id, f, q, j) /\ w = ns[q].ops[j].value
    BY <1>2q
<1>3. SetsField(ns[r].ops[i], id, f) /\ SetsField(ns[q].ops[j], id, f)
    BY <1>1, <1>2 DEF IsLatest
<1>4. q # r => r \notin Ancestors(ns, q) /\ q \notin Ancestors(ns, r)
    BY <1>1, <1>2, <1>3 DEF IsLatest
<1>5. q = r
    BY <1>4 DEF IsLine, Related
<1>6. j <= i /\ i <= j
    BY <1>1, <1>2, <1>3, <1>5 DEF IsLatest
<1>7. i \in Nat /\ j \in Nat
  <2>1. Listed(ns[r].ops)
      BY DEF IsLine, IsStore
  <2>. QED
      BY <1>5, <2>1, ListedPlaces
<1>8. i = j
    BY <1>6, <1>7
<1>. QED
    BY <1>1, <1>2, <1>5, <1>8

\* What is said of more revisions is said of those that say it.
LEMMA LatestOfPart ==
  ASSUME NEW ns, NEW D, NEW E, E \subseteq D, NEW id, NEW f, NEW r \in E, NEW i,
         IsLatest(ns, D, id, f, r, i)
  PROVE  IsLatest(ns, E, id, f, r, i)
  BY DEF IsLatest

\* A history, and what a line of descendants adds to it.
Continues(ns, C, S) ==
  /\ C \cap S = {} /\ IsLine(ns, C \cup S) /\ \A q \in S : C \subseteq Ancestors(ns, q)

\* A value on a side is the value at the base or what the side says.
LEMMA ValueOnSide ==
  ASSUME NEW ns, NEW kept, IsStore(ns, kept), NEW C, NEW S, Continues(ns, C, S),
         Sound(OpsOf(ns, C \cup S)), NEW id, NEW f,
         NEW y \in Created(OpsOf(ns, C)), y.id = id,
         NEW vc, IsValue(ns, C, id, f, vc), NEW v, IsValue(ns, C \cup S, id, f, v)
  PROVE  (NeverSet(ns, S, id, f) /\ v = vc) \/ Says(ns, S, id, f, v)
<1> DEFINE A == C \cup S
<1>1. IsLine(ns, C) /\ OpsOf(ns, C) \subseteq OpsOf(ns, A)
    BY DEF Continues, IsLine, OpsOf
<1>2. NeverSet(ns, A, id, f) \/ Says(ns, A, id, f, v)
    BY DEF IsValue, Says
<1>3. CASE NeverSet(ns, A, id, f)
  <2>1. NeverSet(ns, C, id, f) /\ NeverSet(ns, S, id, f)
      BY <1>3 DEF NeverSet
  <2>2. ~Says(ns, A, id, f, v) /\ ~Says(ns, C, id, f, vc)
      BY <1>3, <2>1 DEF Says, NeverSet, IsLatest
  <2>3. PICK x \in Created(OpsOf(ns, A)) : x.id = id /\ v = x.object[f]
      BY <2>2 DEF IsValue, Says
  <2>4. PICK z \in Created(OpsOf(ns, C)) : z.id = id /\ vc = z.object[f]
      BY <2>2 DEF IsValue, Says
  <2>5. z \in Created(OpsOf(ns, A))
      BY <1>1 DEF Created
  <2>6. x = z
      BY <2>3, <2>4, <2>5 DEF Sound
  <2>. QED
      BY <2>1, <2>3, <2>4, <2>6
<1>4. CASE Says(ns, A, id, f, v)
  <2>1r. PICK r \in A : \E i \in DOMAIN ns[r].ops : IsLatest(ns, A, id, f, r, i) /\ v = ns[r].ops[i].value
      BY <1>4 DEF Says
  <2>1. PICK i \in DOMAIN ns[r].ops : IsLatest(ns, A, id, f, r, i) /\ v = ns[r].ops[i].value
      BY <2>1r
  <2>2. CASE r \in S
    <3>1. IsLatest(ns, S, id, f, r, i)
        BY <2>1, <2>2, LatestOfPart
    <3>. QED
        BY <2>1, <2>2, <3>1 DEF Says
  <2>3. CASE r \notin S
    <3>1. r \in C
        BY <2>3
    <3>2. NeverSet(ns, S, id, f)
      <4> SUFFICES ASSUME NEW q \in S, NEW j \in DOMAIN ns[q].ops, SetsField(ns[q].ops[j], id, f)
                   PROVE  FALSE
          BY DEF NeverSet
      <4>1. q # r => r \notin Ancestors(ns, q)
          BY <2>1 DEF IsLatest
      <4>. QED
          BY <2>3, <3>1, <4>1 DEF Continues
    <3>3. IsLatest(ns, C, id, f, r, i)
        BY <2>1, <3>1, LatestOfPart
    <3>4. Says(ns, C, id, f, v)
        BY <2>1, <3>1, <3>3 DEF Says
    <3>5. SetsField(ns[r].ops[i], id, f)
        BY <2>1 DEF IsLatest
    <3>6. Says(ns, C, id, f, vc)
        BY <3>1, <3>5 DEF IsValue, Says, NeverSet
    <3>7. v = vc
        BY <1>1, <3>4, <3>6, SaysOnce
    <3>. QED
        BY <3>2, <3>7
  <2>. QED
      BY <2>2, <2>3
<1>. QED
    BY <1>2, <1>3, <1>4

\* A merge node m of two lines that continue the history C.
Joins(ns, C, S, T, m) ==
  /\ Continues(ns, C, S) /\ Continues(ns, C, T)
  /\ m \in DOMAIN ns /\ m \notin C \cup S \cup T /\ C \cup S \cup T \subseteq Ancestors(ns, m)

\* The last operation on a field before and in a merge node is in it, or on a side,
\* or else on neither.
LEMMA LatestInMerge ==
  ASSUME NEW ns, NEW kept, IsStore(ns, kept), NEW C, NEW S, NEW T, NEW m, Joins(ns, C, S, T, m),
         NEW id, NEW f, NEW v, Says(ns, {m} \cup C \cup S \cup T, id, f, v)
  PROVE  \/ \E o : LastOf(ns[m].ops, id, f, o) /\ v = o.value
         \/ /\ NoneOf(ns[m].ops, id, f)
            /\ \/ NeverSet(ns, S, id, f) /\ NeverSet(ns, T, id, f) /\ Says(ns, C, id, f, v)
               \/ Says(ns, S, id, f, v)
               \/ Says(ns, T, id, f, v)
<1> DEFINE H == {m} \cup C \cup S \cup T
           ops == ns[m].ops
<1>1. Listed(ops)
    BY DEF Joins, IsStore
<1>2. Len(ops) \in Nat /\ DOMAIN ops = 1 .. Len(ops)
    BY <1>1, ListedPlaces
<1>3. PICK r \in H : \E i \in DOMAIN ns[r].ops : IsLatest(ns, H, id, f, r, i) /\ v = ns[r].ops[i].value
    BY DEF Says
<1>4. PICK i \in DOMAIN ns[r].ops : IsLatest(ns, H, id, f, r, i) /\ v = ns[r].ops[i].value
    BY <1>3
<1>5. SetsField(ns[r].ops[i], id, f)
    BY <1>4 DEF IsLatest
<1>6. CASE r = m
  <2>1. \A j \in DOMAIN ops : SetsField(ops[j], id, f) => j <= i
      BY <1>4, <1>6 DEF IsLatest
  <2>2. i \in 1 .. Len(ops)
      BY <1>2, <1>6
  <2>3. \A j \in 1 .. Len(ops) : j > i => ~SetsField(ops[j], id, f)
      BY <1>2, <2>1, <2>2
  <2>4. IsLastSet(ops, Len(ops), id, f, i)
      BY <1>5, <1>6, <2>2, <2>3 DEF IsLastSet
  <2>. QED
      BY <1>2, <1>4, <1>6, <2>2, <2>4 DEF LastOf
<1>7. CASE r # m
  <2>1. r \in Ancestors(ns, m) /\ r \in C \cup S \cup T
      BY <1>7 DEF Joins
  <2>2. NoneOf(ops, id, f)
      BY <1>4, <1>7, <2>1 DEF IsLatest, NoneOf
  <2>3. CASE r \in S
    <3>1. IsLatest(ns, S, id, f, r, i)
        BY <1>4, <2>3, LatestOfPart
    <3>. QED
        BY <1>4, <2>2, <2>3, <3>1 DEF Says
  <2>4. CASE r \in T
    <3>1. IsLatest(ns, T, id, f, r, i)
        BY <1>4, <2>4, LatestOfPart
    <3>. QED
        BY <1>4, <2>2, <2>4, <3>1 DEF Says
  <2>5. CASE r \notin S \cup T
    <3>1. r \in C
        BY <2>1, <2>5
    <3>2. NeverSet(ns, S, id, f) /\ NeverSet(ns, T, id, f)
      <4> SUFFICES ASSUME NEW q \in S \cup T, NEW j \in DOMAIN ns[q].ops, SetsField(ns[q].ops[j], id, f)
                   PROVE  FALSE
          BY DEF NeverSet
      <4>1. q # r => r \notin Ancestors(ns, q)
          BY <1>4 DEF IsLatest
      <4>. QED
          BY <2>5, <3>1, <4>1 DEF Joins, Continues
    <3>3. IsLatest(ns, C, id, f, r, i)
        BY <1>4, <3>1, LatestOfPart
    <3>4. Says(ns, C, id, f, v)
        BY <1>4, <3>1, <3>3 DEF Says
    <3>. QED
        BY <2>2, <3>2, <3>4
  <2>. QED
      BY <2>3, <2>4, <2>5
<1>. QED
    BY <1>6, <1>7

\* A value after a merge is what the merge node sets, or else what a side says, or
\* else the value at the base.
LEMMA ValueOfMerge ==
  ASSUME NEW ns, NEW kept, IsStore(ns, kept), NEW C, NEW S, NEW T, NEW m, Joins(ns, C, S, T, m),
         Sound(OpsOf(ns, {m} \cup C \cup S \cup T)), NEW id, NEW f,
         NEW vc, IsValue(ns, C, id, f, vc), NEW v, IsValue(ns, {m} \cup C \cup S \cup T, id, f, v)
  PROVE  \/ \E o : LastOf(ns[m].ops, id, f, o) /\ v = o.value
         \/ /\ NoneOf(ns[m].ops, id, f)
            /\ \/ NeverSet(ns, S, id, f) /\ NeverSet(ns, T, id, f) /\ v = vc
               \/ Says(ns, S, id, f, v)
               \/ Says(ns, T, id, f, v)
<1> DEFINE H == {m} \cup C \cup S \cup T
           ops == ns[m].ops
<1>1. IsLine(ns, C) /\ OpsOf(ns, C) \subseteq OpsOf(ns, H)
    BY DEF Joins, Continues, IsLine, OpsOf
<1>2. Listed(ops)
    BY DEF Joins, IsStore
<1>3. Len(ops) \in Nat /\ DOMAIN ops = 1 .. Len(ops)
    BY <1>2, ListedPlaces
<1>4. NeverSet(ns, H, id, f) \/ Says(ns, H, id, f, v)
    BY DEF IsValue, Says
<1>5. CASE NeverSet(ns, H, id, f)
  <2>1. NeverSet(ns, C, id, f) /\ NeverSet(ns, S, id, f) /\ NeverSet(ns, T, id, f) /\ NoneOf(ops, id, f)
      BY <1>5 DEF NeverSet, NoneOf
  <2>2. ~Says(ns, H, id, f, v) /\ ~Says(ns, C, id, f, vc)
      BY <1>5, <2>1 DEF Says, NeverSet, IsLatest
  <2>3. PICK x \in Created(OpsOf(ns, H)) : x.id = id /\ v = x.object[f]
      BY <2>2 DEF IsValue, Says
  <2>4. PICK z \in Created(OpsOf(ns, C)) : z.id = id /\ vc = z.object[f]
      BY <2>2 DEF IsValue, Says
  <2>5. z \in Created(OpsOf(ns, H))
      BY <1>1 DEF Created
  <2>6. x = z
      BY <2>3, <2>4, <2>5 DEF Sound
  <2>. QED
      BY <2>1, <2>3, <2>4, <2>6
<1>6. CASE Says(ns, H, id, f, v)
  <2>1. \/ \E o : LastOf(ns[m].ops, id, f, o) /\ v = o.value
        \/ /\ NoneOf(ns[m].ops, id, f)
           /\ \/ NeverSet(ns, S, id, f) /\ NeverSet(ns, T, id, f) /\ Says(ns, C, id, f, v)
              \/ Says(ns, S, id, f, v)
              \/ Says(ns, T, id, f, v)
      BY <1>6, LatestInMerge
  <2>2. ASSUME Says(ns, C, id, f, v)
        PROVE  v = vc
    <3>1. ~NeverSet(ns, C, id, f)
        BY <2>2 DEF Says, NeverSet, IsLatest
    <3>2. Says(ns, C, id, f, vc)
        BY <3>1 DEF IsValue, Says
    <3>. QED
        BY <1>1, <2>2, <3>2, SaysOnce
  <2>. QED
      BY <2>1, <2>2
<1>. QED
    BY <1>4, <1>5, <1>6

\* What the list of a side says.
LEMMA ListSays ==
  ASSUME NEW ns, NEW S, NEW ops, Listed(ops), ElementsOf(ops) = OpsOf(ns, S),
         LastsAreLatest(ns, S, ops), NEW id, NEW f
  PROVE  /\ NoneOf(ops, id, f) <=> NeverSet(ns, S, id, f)
         /\ \A o : LastOf(ops, id, f, o) => Says(ns, S, id, f, o.value)
         /\ ~NoneOf(ops, id, f) => \E o : LastOf(ops, id, f, o)
         /\ \A v : Says(ns, S, id, f, v) => ~NeverSet(ns, S, id, f)
<1>1. Len(ops) \in Nat /\ DOMAIN ops = 1 .. Len(ops)
    BY ListedPlaces
<1>2. NoneOf(ops, id, f) <=> \A o \in OpsOf(ns, S) : ~SetsField(o, id, f)
    BY DEF NoneOf, ElementsOf
<1>3. NeverSet(ns, S, id, f) <=> \A o \in OpsOf(ns, S) : ~SetsField(o, id, f)
    BY DEF NeverSet, OpsOf, ElementsOf
<1>4. ASSUME NEW o, LastOf(ops, id, f, o)
      PROVE  Says(ns, S, id, f, o.value)
  <2>1. PICK k \in DOMAIN ops : IsLastSet(ops, Len(ops), id, f, k) /\ o = ops[k]
      BY <1>4 DEF LastOf
  <2>2. PICK r \in S : \E i \in DOMAIN ns[r].ops : IsLatest(ns, S, id, f, r, i) /\ ops[k] = ns[r].ops[i]
      BY <2>1 DEF LastsAreLatest
  <2>. QED
      BY <2>1, <2>2 DEF Says
<1>5. ASSUME ~NoneOf(ops, id, f)
      PROVE  \E o : LastOf(ops, id, f, o)
  <2>1. PICK k \in 1 .. Len(ops) : SetsField(ops[k], id, f)
      BY <1>1, <1>5 DEF NoneOf
  <2>2. PICK i \in 1 .. Len(ops) : IsLastSet(ops, Len(ops), id, f, i)
      BY <1>1, <2>1, LastSetExists
  <2>. QED
      BY <1>1, <2>2 DEF LastOf
<1>6. \A v : Says(ns, S, id, f, v) => ~NeverSet(ns, S, id, f)
    BY DEF Says, NeverSet, IsLatest
<1>. QED
    BY <1>2, <1>3, <1>4, <1>5, <1>6

----------------------------------------------------------------------------
(* Objects have all their fields.                                            *)

\* Every object is made with all its fields.
AllFields == DOMAIN Object("", NoId, "")

Formed(ns) ==
  \A r \in DOMAIN ns : \A i \in DOMAIN ns[r].ops :
    ns[r].ops[i].type \in Creating => DOMAIN ns[r].ops[i].object = AllFields

\* The verbs of migrate do.
LEMMA AuthoredFormed ==
  ASSUME NEW s, NEW id, NEW o \in Authored(s, id), o.type \in Creating
  PROVE  DOMAIN o.object = AllFields
<1>0. AllFields = {"kind", "table", "name", "type", "nullable", "default", "columns", "references"}
    BY DEF AllFields, Object
<1>1. o \in UNION {{[type |-> v, id |-> id, object |-> x] :
                          x \in {x \in NewObjects(s)[v] : WellPlaced(s, x)}} : v \in Verb \cap Creating}
  <2>1. ~(o \in UNION {{[type |-> v, id |-> i] : i \in OfKind(s, KindOf[v])} : v \in Verb \cap Destructive})
      BY DEF Destructive, Creating
  <2>2. ~(o \in UNION {{[type |-> v, id |-> i, old |-> s.objects[i][SetField[v]], value |-> x] :
                            i \in OfKind(s, KindOf[v]), x \in ValuesOf(v)} :
                  v \in Verb \cap DOMAIN SetField})
    <3>1. DOMAIN SetField \cap Creating = {}
        BY DEF SetField, MutationField, Creating
    <3>. QED
        BY <3>1
  <2>. QED
      BY <2>1, <2>2 DEF Authored
<1>2. PICK v, object :
         /\ v \in Creating /\ object \in NewObjects(s)[v]
         /\ o = [type |-> v, id |-> id, object |-> object]
    BY <1>1
<1>3. CASE v = "CreateTable"
  <2>1. PICK n \in Name : object = Object("table", NoId, n)
      BY <1>2, <1>3 DEF NewObjects
  <2>. QED
      BY <1>0, <1>2, <2>1 DEF Object
<1>4. CASE v = "AddColumn"
  <2>1. PICK t \in Tables(s), n \in Name, y \in Type :
           object = [Object("column", t, n) EXCEPT !.type = y]
      BY <1>2, <1>4 DEF NewObjects
  <2>2. object = [kind |-> "column", table |-> t, name |-> n, type |-> y, nullable |-> TRUE,
                  default |-> "", columns |-> {}, references |-> NoId]
      BY <2>1, Zenon DEF Object
  <2>. QED
      BY <1>0, <1>2, <2>2
<1>5. CASE v = "AddIndex"
  <2>1. PICK t \in Tables(s), n \in Name, c \in OfKind(s, "column") :
           object = [Object("index", t, n) EXCEPT !.columns = {c}]
      BY <1>2, <1>5 DEF NewObjects
  <2>2. object = [kind |-> "index", table |-> t, name |-> n, type |-> "", nullable |-> TRUE,
                  default |-> "", columns |-> {c}, references |-> NoId]
      BY <2>1 DEF Object
  <2>. QED
      BY <1>0, <1>2, <2>2
<1>6. CASE v = "AddConstraint"
  <2>1. PICK t \in Tables(s), c \in OfKind(s, "column"), u \in Tables(s) : object = ForeignKey(t, c, u)
      BY <1>2, <1>6 DEF NewObjects
  <2>2. object = [kind |-> "constraint", table |-> t, name |-> "", type |-> "", nullable |-> TRUE,
                  default |-> "", columns |-> {c}, references |-> u]
      BY <2>1 DEF Object, ForeignKey
  <2>. QED
      BY <1>0, <1>2, <2>2
<1>. QED
    BY <1>2, <1>3, <1>4, <1>5, <1>6 DEF Creating

\* A commit whose operations do leaves a store that does.
LEMMA FormedGrows ==
  ASSUME NEW ns, NEW kept, Formed(ns), NEW parents, NEW b, NEW ops, NEW ms, NEW more,
         HasGrown(ns, kept, parents, b, ops, ms, more),
         \A o \in ElementsOf(ops) : o.type \in Creating => DOMAIN o.object = AllFields
  PROVE  Formed(ms)
<1>1. /\ DOMAIN ms = DOMAIN ns \cup {Len(ns) + 1}
      /\ \A r \in DOMAIN ns : ms[r] = ns[r]
      /\ ms[Len(ns) + 1].ops = ops
    BY DEF HasGrown, Node
<1>2. \A i \in DOMAIN ops : ops[i] \in ElementsOf(ops)
    BY DEF ElementsOf
<1>. QED
    BY <1>1, <1>2 DEF Formed

\* A merge node makes nothing.
LEMMA MergeOpsMakeNothing ==
  ASSUME NEW ns, NEW kept, IsSound(ns, kept), NEW base, NEW a, NEW b, NEW opsA, NEW opsB,
         IsMerge(ns, base, a, b, opsA, opsB),
         NEW answers, DOMAIN answers = Asked(opsA, opsB),
         NEW o \in ElementsOf(MergeOps(opsA, opsB, answers))
  PROVE  o.type \notin Creating
<1>1. o \in Resolved(opsA, opsB, answers) \cup Correctives(opsA, opsB) \cup Unnamed(opsA, opsB)
  <2>1. IsFiniteSet(DOMAIN answers) /\ Listed(opsA) /\ Listed(opsB)
    <3>1. Listed(opsA) /\ Listed(opsB)
        BY DEF IsMerge, OfSide
    <3>. QED
        BY <3>1, ReportsFinite
  <2>. QED
      BY <2>1, MergeOpsListed
<1> DEFINE before == OpsOf(ns, Past(kept, <<a, b>>))
<1>2. Sound(before) /\ ElementsOf(opsA) \cup ElementsOf(opsB) \subseteq before
    BY SidesFit
<1>3. Listed(opsA) /\ Listed(opsB)
    BY DEF IsMerge, OfSide
<1>4. o.type \in Destructive => o.type \notin Creating
    BY DEF Destructive, Creating
<1>5. CASE o \in Resolved(opsA, opsB, answers)
    BY <1>5, ResolvedFits
<1> HIDE DEF before
<1>6. CASE o \in Correctives(opsA, opsB)
    BY <1>2, <1>4, <1>6, CorrectiveFits
<1>7. CASE o \in Unnamed(opsA, opsB)
    BY <1>2, <1>3, <1>4, <1>7, UnnamedFits
<1>. QED
    BY <1>1, <1>5, <1>6, <1>7

\* ObjectsAssumption: nor was the common history made otherwise.
LEMMA FormedInit == Init => Formed(nodes)
<1> SUFFICES ASSUME Init
             PROVE  Formed(nodes)
    OBVIOUS
<1>1. nodes = <<Node(<<>>, Target, <<>>), Node(<<1>>, Target, Base)>>
    BY DEF Init
<1>2. DOMAIN nodes = {1, 2} /\ nodes[1].ops = <<>> /\ nodes[2].ops = Base
    BY <1>1 DEF Node
<1>3. \A i \in DOMAIN Base : Base[i].type \in Creating => DOMAIN Base[i].object = AllFields
    BY ObjectsAssumption, ElementOf DEF AllFields
<1>. QED
    BY <1>2, <1>3 DEF Formed

\* Every step keeps it so.
LEMMA FormedNext == MInv /\ Formed(nodes) /\ [Next]_vars => Formed(nodes)'
<1> SUFFICES ASSUME MInv, Formed(nodes), [Next]_vars
             PROVE  Formed(nodes')
    OBVIOUS
<1> DEFINE ms == nodes'  more == ancestors'
<1>1. ASSUME NEW b \in Side, Migrate(b)
      PROVE  Formed(ms)
  <2>1. PICK h \in DOMAIN nodes : \E s \in schemas[h] : \E o \in Authored(s, FreshId) :
           ~s.broken /\ HasGrown(nodes, ancestors, <<h>>, b, <<o>>, ms, more)
      BY <1>1, MigrateGrows
  <2>2. PICK s \in schemas[h] : \E o \in Authored(s, FreshId) :
           ~s.broken /\ HasGrown(nodes, ancestors, <<h>>, b, <<o>>, ms, more)
      BY <2>1
  <2>3. PICK o \in Authored(s, FreshId) : HasGrown(nodes, ancestors, <<h>>, b, <<o>>, ms, more)
      BY <2>2
  <2>4. PICK parents, ops : parents = <<h>> /\ ops = <<o>>
      OBVIOUS
  <2>5. ElementsOf(ops) = {o}
      BY <2>4 DEF ElementsOf
  <2>6. HasGrown(nodes, ancestors, parents, b, ops, ms, more)
      BY <2>3, <2>4
  <2>7. \A x \in ElementsOf(ops) : x.type \in Creating => DOMAIN x.object = AllFields
      BY <2>5, AuthoredFormed
  <2> HIDE DEF ms, more
  <2>. QED
      BY <2>6, <2>7, FormedGrows
<1>2. ASSUME NEW t \in Side, NEW s \in Side, Merge(t, s)
      PROVE  Formed(ms)
  <2>1. CASE FastForward(t, s)
      BY <2>1 DEF FastForward
  <2>2. ASSUME NEW base, NEW opsA, NEW opsB, NEW answers, JoinsHeads(t, s, base, opsA, opsB, answers)
        PROVE  Formed(ms)
    <3>1. PICK parents, ops : parents = <<heads[t], heads[s]>> /\ ops = MergeOps(opsA, opsB, answers)
        OBVIOUS
    <3>2. HasGrown(nodes, ancestors, parents, t, ops, ms, more)
        BY <2>2, <3>1 DEF JoinsHeads
    <3>3. \A x \in ElementsOf(ops) : x.type \notin Creating
      <4>1. IsSound(nodes, ancestors) /\ DOMAIN answers = Asked(opsA, opsB)
          BY <2>2 DEF MInv, StoreInv, JoinsHeads
      <4>2. IsMerge(nodes, base, heads[t], heads[s], opsA, opsB)
          BY <2>2 DEF JoinsHeads
      <4>. QED
          BY <3>1, <4>1, <4>2, MergeOpsMakeNothing
    <3> HIDE DEF ms, more
    <3>. QED
        BY <3>2, <3>3, FormedGrows
  <2>. QED
      BY <1>2, <2>1, <2>2, MergeGrows
<1>3. CASE UNCHANGED vars
    BY <1>3 DEF vars
<1>. QED
    BY <1>1, <1>2, <1>3 DEF Next

\* What operations_between collects does not change when the store grows.
LEMMA SinceStable ==
  ASSUME NEW ns, NEW kept, IsStore(ns, kept), NEW parents, NEW b, NEW ops, NEW ms, NEW more,
         HasGrown(ns, kept, parents, b, ops, ms, more),
         NEW to \in DOMAIN ns, NEW from \in kept[to]
  PROVE  OperationsSince(ms, more, from, to) = OperationsSince(ns, kept, from, to)
<1> DEFINE all == Leading(ns, kept, from)
           now == Leading(ms, more, from)
           path == CHOOSE path : IsPath(ns, kept, from, all, path)
           longer == CHOOSE p : IsPath(ms, more, from, now, p)
           S == {r \in all : longer[r] = path[r]}
<1>1. /\ \A r \in DOMAIN ns : ms[r] = ns[r] /\ more[r] = kept[r]
      /\ DOMAIN ns \subseteq DOMAIN ms /\ IsStore(ms, more)
    BY DEF HasGrown
<1>2. IsPath(ns, kept, from, all, path) /\ IsPath(ms, more, from, now, longer)
    BY <1>1, PathExists
<1>3. /\ OperationsSince(ns, kept, from, to) = path[to]
      /\ OperationsSince(ms, more, from, to) = longer[to]
    BY PathIsPath
<1>4. all \subseteq DOMAIN ns /\ all \subseteq now /\ to \in all
    BY <1>1 DEF Leading
<1>5. ASSUME NEW r \in all
      PROVE  NextBack(ms, more, from, r) = NextBack(ns, kept, from, r)
  <2>1. \A i \in DOMAIN ns[r].parents : ns[r].parents[i] \in DOMAIN ns
    <3>1. ParentsStored(ns) /\ r \in DOMAIN ns
        BY <1>4, StoreIsDag
    <3>2. \A i \in DOMAIN ns[r].parents : ns[r].parents[i] \in ParentsOf(ns, r)
        BY DEF ParentsOf
    <3>. QED
        BY <3>1, <3>2 DEF ParentsStored, ParentClosed
  <2>2. Back(ms, more, from, r) = Back(ns, kept, from, r)
      BY <1>1, <1>4, <2>1 DEF Back
  <2>. QED
      BY <1>1, <1>4, <2>2 DEF NextBack
<1> HIDE DEF path, longer, all, now
<1>6. \A r \in all : /\ path[r] = IF r = from THEN <<>> ELSE path[NextBack(ns, kept, from, r)] \o ns[r].ops
                     /\ longer[r] = IF r = from THEN <<>> ELSE longer[NextBack(ns, kept, from, r)] \o ns[r].ops
  <2> SUFFICES ASSUME NEW r \in all
               PROVE  /\ path[r] = IF r = from THEN <<>> ELSE path[NextBack(ns, kept, from, r)] \o ns[r].ops
                      /\ longer[r] = IF r = from THEN <<>> ELSE longer[NextBack(ns, kept, from, r)] \o ns[r].ops
      OBVIOUS
  <2>1. path[r] = IF r = from THEN <<>> ELSE path[NextBack(ns, kept, from, r)] \o ns[r].ops
      BY <1>2 DEF IsPath
  <2>2. longer[r] = IF r = from THEN <<>> ELSE longer[NextBack(ms, more, from, r)] \o ms[r].ops
      BY <1>2, <1>4 DEF IsPath
  <2>. QED
      BY <1>1, <1>4, <1>5, <2>1, <2>2
<1>7. \A r \in all : r = from \/ NextBack(ns, kept, from, r) \in S => r \in S
    BY <1>6
<1>8. all \subseteq S
  <2> HIDE DEF S
  <2>. QED
      BY <1>7, PathInduction DEF all
<1>. QED
    BY <1>3, <1>4, <1>8

----------------------------------------------------------------------------
(* The report of a merge, and the operations it was made of.                 *)

\* The merge was made of what operations_between collects.
MadeOf(ns, kept, made, opsA, opsB) ==
  /\ Explains(ns, made, opsA, opsB)
  /\ made.rev \in DOMAIN ns /\ Side1(ns, made) \in DOMAIN ns /\ Side2(ns, made) \in DOMAIN ns
  /\ made.base \in kept[Side1(ns, made)] /\ made.base \in kept[Side2(ns, made)]
  /\ opsA = OperationsSince(ns, kept, made.base, Side1(ns, made))
  /\ opsB = OperationsSince(ns, kept, made.base, Side2(ns, made))
  /\ ns[made.rev].ops = MergeOps(opsA, opsB, made.answers)
  /\ \A id \in DOMAIN made.answers : made.answers[id] \in {"a", "b", "both"}

ReportedOps == report.rev # 0 => \E opsA, opsB : MadeOf(nodes, ancestors, report, opsA, opsB)

\* So it is when a merge node is made.
LEMMA JoinReports ==
  ASSUME MInv, NEW t \in Side, NEW s \in Side, NEW base, NEW opsA, NEW opsB, NEW answers,
         JoinsHeads(t, s, base, opsA, opsB, answers)
  PROVE  MadeOf(nodes', ancestors', report', opsA, opsB)
<1> DEFINE a == heads[t]
           b == heads[s]
           ms == nodes'
           more == ancestors'
           made == report'
<1>1. /\ IsMerge(nodes, base, a, b, opsA, opsB) /\ MergeBases(nodes, a, b) = {base}
      /\ opsA = OperationsSince(nodes, ancestors, base, a)
      /\ opsB = OperationsSince(nodes, ancestors, base, b)
      /\ answers \in [Asked(opsA, opsB) -> {"a", "b", "both"}]
      /\ \A id \in Asked(opsA, opsB) : answers[id] \in AnswersFor(opsA, opsB, id)
      /\ HasGrown(nodes, ancestors, <<a, b>>, t, MergeOps(opsA, opsB, answers), ms, more)
      /\ made = [rev |-> Len(nodes) + 1, base |-> base, answers |-> answers,
                 acknowledged |-> {o.id : o \in CrossObject(opsA, opsB)},
                 collisions |-> Collisions(opsA, opsB)]
    BY DEF JoinsHeads
<1>2. IsSound(nodes, ancestors) /\ IsStore(nodes, ancestors)
    BY DEF MInv, StoreInv, IsSound
<1> HIDE DEF a, b, ms, more, made
<1>3. PICK parents, ops : parents = <<a, b>> /\ ops = MergeOps(opsA, opsB, answers)
    OBVIOUS
<1>4. HasGrown(nodes, ancestors, parents, t, ops, ms, more)
    BY <1>1, <1>3
<1>5. /\ DOMAIN ms = DOMAIN nodes \cup {Len(nodes) + 1}
      /\ \A r \in DOMAIN nodes : /\ ms[r] = nodes[r] /\ more[r] = ancestors[r]
                                 /\ Ancestors(ms, r) = Ancestors(nodes, r)
      /\ ms[Len(nodes) + 1].parents = parents /\ ms[Len(nodes) + 1].ops = ops
    BY <1>4 DEF HasGrown, Node
<1>6. /\ made.rev = Len(nodes) + 1 /\ made.base = base /\ made.answers = answers
      /\ made.acknowledged = {o.id : o \in CrossObject(opsA, opsB)}
      /\ made.collisions = Collisions(opsA, opsB)
    BY <1>1
<1>7. Side1(ms, made) = a /\ Side2(ms, made) = b /\ a \in DOMAIN nodes /\ b \in DOMAIN nodes
    BY <1>1, <1>3, <1>5, <1>6 DEF Side1, Side2, IsMerge
<1>8. IsMerge(ms, base, a, b, opsA, opsB)
  <2>1. DOMAIN nodes \subseteq DOMAIN ms /\ \A r \in DOMAIN nodes : ms[r] = nodes[r] /\ Ancestors(ms, r) = Ancestors(nodes, r)
      BY <1>5
  <2>. QED
      BY <1>1, <1>2, <2>1, IsMergeStable
<1>9. base \in Ancestors(nodes, a) /\ base \in Ancestors(nodes, b)
    BY <1>1, <1>2, SinceApart
<1>10. base \in ancestors[a] /\ base \in ancestors[b]
    BY <1>2, <1>7, <1>9 DEF IsStore
<1>11. /\ OperationsSince(ms, more, base, a) = opsA
       /\ OperationsSince(ms, more, base, b) = opsB
    BY <1>1, <1>2, <1>4, <1>7, <1>10, SinceStable
<1>12. ElementsOf(ops) = Resolved(opsA, opsB, answers) \cup Correctives(opsA, opsB) \cup Unnamed(opsA, opsB)
  <2>1. Listed(opsA) /\ Listed(opsB)
      BY <1>1 DEF IsMerge, OfSide
  <2>2. IsFiniteSet(DOMAIN answers)
      BY <1>1, <2>1, ReportsFinite
  <2>. QED
      BY <1>3, <2>1, <2>2, MergeOpsListed
<1>13. DOMAIN answers = Asked(opsA, opsB) /\ \A id \in DOMAIN answers : answers[id] \in {"a", "b", "both"}
    BY <1>1
<1>14. Explains(ms, made, opsA, opsB)
    BY <1>1, <1>5, <1>6, <1>7, <1>8, <1>12, <1>13 DEF Explains
<1>15. MadeOf(ms, more, made, opsA, opsB)
    BY <1>3, <1>5, <1>6, <1>7, <1>10, <1>11, <1>13, <1>14 DEF MadeOf
<1>. QED
    BY <1>15 DEF ms, more, made

LEMMA ReportedInit == Init => ReportedOps
  BY DEF Init, ReportedOps, NoReport

LEMMA ReportedNext == MInv /\ ReportedOps /\ [Next]_vars => ReportedOps'
<1> SUFFICES ASSUME MInv, ReportedOps, [Next]_vars
             PROVE  ReportedOps'
    OBVIOUS
<1>1. ASSUME NEW b \in Side, Migrate(b)
      PROVE  ReportedOps'
    BY <1>1 DEF Migrate, ReportedOps, NoReport
<1>2. ASSUME NEW t \in Side, NEW s \in Side, Merge(t, s)
      PROVE  ReportedOps'
  <2>1. CASE FastForward(t, s)
      BY <2>1 DEF FastForward, ReportedOps, NoReport
  <2>2. ASSUME NEW base, NEW opsA, NEW opsB, NEW answers, JoinsHeads(t, s, base, opsA, opsB, answers)
        PROVE  ReportedOps'
    <3>1. MadeOf(nodes', ancestors', report', opsA, opsB)
        BY <2>2, JoinReports
    <3>. QED
        BY <3>1 DEF ReportedOps
  <2>. QED
      BY <1>2, <2>1, <2>2, MergeGrows
<1>3. CASE UNCHANGED vars
    BY <1>3 DEF vars, ReportedOps
<1>. QED
    BY <1>1, <1>2, <1>3 DEF Next

\* What a merge leaves behind, for all its objects have all their fields and its
\* report tells what it was made of.
MergeInv == MInv /\ Formed(nodes) /\ ReportedOps

LEMMA MergesAreReported == Spec => []MergeInv
<1>1. Init => MergeInv
    BY MInvInit, FormedInit, ReportedInit DEF MergeInv
<1>2. MergeInv /\ [Next]_vars => MergeInv'
    BY MInvNext, FormedNext, ReportedNext DEF MergeInv
<1>. QED
    BY <1>1, <1>2, PTL DEF Spec

----------------------------------------------------------------------------
(* The first merge of a repository, field by field.                          *)

\* The objects of a replay that does not raise have all their fields, each with a
\* value that the history says.
LEMMA ReplayedObject ==
  ASSUME StoreInv, Formed(nodes), NEW r \in DOMAIN nodes, NEW s \in schemas[r], ~s.broken,
         NEW id \in DOMAIN s.objects
  PROVE  /\ IsFunction(s.objects[id]) /\ DOMAIN s.objects[id] = AllFields
         /\ \A f \in AllFields : IsValue(nodes, ancestors[r], id, f, s.objects[id][f])
<1>1. IsHistory(nodes, ancestors[r]) /\ IsSound(nodes, ancestors) /\ s \in Replays(nodes, ancestors[r])
    BY StoredHistory DEF StoreInv, IsSound
<1>2. PICK x \in Created(OpsOf(nodes, ancestors[r])) :
        /\ x.id = id /\ DOMAIN s.objects[id] = DOMAIN x.object
        /\ \A g \in DOMAIN x.object : IsValue(nodes, ancestors[r], id, g, s.objects[id][g])
    BY <1>1, ReplayedValues
<1>3. x.type \in Creating /\ x \in OpsOf(nodes, ancestors[r])
    BY DEF Created
<1>4. ancestors[r] \subseteq DOMAIN nodes
    BY <1>1 DEF IsHistory
<1>5. PICK q \in DOMAIN nodes : x \in ElementsOf(nodes[q].ops)
    BY <1>3, <1>4 DEF OpsOf
<1>6. PICK i \in DOMAIN nodes[q].ops : x = nodes[q].ops[i]
    BY <1>5 DEF ElementsOf
<1>7. DOMAIN x.object = AllFields
    BY <1>3, <1>5, <1>6 DEF Formed
<1>8. IsFunction(s.objects[id])
  <2>1. Explained(OpsOf(nodes, ancestors[r]), s)
      BY <1>1, ReplaysExplained
  <2>. QED
      BY <2>1 DEF Explained, AreObjects
<1>. QED
    BY <1>2, <1>7, <1>8

\* The objects of the schema at a revision below one that replays: they have all
\* their fields, each with a value that the history says.
LEMMA SchemaObject ==
  ASSUME StoreInv, Formed(nodes), NEW rev \in DOMAIN nodes, \A s \in schemas[rev] : ~s.broken,
         NEW r \in Ancestors(nodes, rev), NEW id \in DOMAIN SchemaAt(r)
  PROVE  /\ IsFunction(SchemaAt(r)[id]) /\ DOMAIN SchemaAt(r)[id] = AllFields
         /\ \A f \in AllFields : IsValue(nodes, Ancestors(nodes, r), id, f, SchemaAt(r)[id][f])
<1>1. /\ r \in DOMAIN nodes /\ ancestors[r] = Ancestors(nodes, r)
      /\ \E s \in Replays(nodes, ancestors[r]) : s \in schemas[r] /\ ~s.broken /\ SchemaAt(r) = s.objects
    BY SchemaFound
<1>2. PICK s \in Replays(nodes, ancestors[r]) : ~s.broken /\ SchemaAt(r) = s.objects
    BY <1>1
<1>. QED
    BY <1>1, <1>2, ReplayedObject

\* The fields of the schema of such a revision.
LEMMA SchemaValues ==
  ASSUME StoreInv, Formed(nodes), NEW rev \in DOMAIN nodes, \A s \in schemas[rev] : ~s.broken,
         NEW r \in Ancestors(nodes, rev), NEW id \in DOMAIN SchemaAt(r), NEW f \in Fields
  PROVE  IsValue(nodes, Ancestors(nodes, r), id, f, SchemaAt(r)[id][f])
<1>1. f \in AllFields
    BY DEF Fields, AllFields, Object
<1>. QED
    BY <1>1, SchemaObject

\* What a human is told about a merge.
ToldOf(opsA, opsB) ==
  {o.id : o \in CrossObject(opsA, opsB)} \cup {k.dropped : k \in Collisions(opsA, opsB)}

\* A side made all of it.
LEMMA ToldWasMade ==
  ASSUME NEW opsA, Listed(opsA), NEW opsB, Listed(opsB), NEW id \in ToldOf(opsA, opsB)
  PROVE  \E x \in ElementsOf(opsA) \cup ElementsOf(opsB) : x.type \in Creating /\ x.id = id
<1>1. CASE id \in {o.id : o \in CrossObject(opsA, opsB)}
  <2>1. PICK o \in CrossObject(opsA, opsB) : o.id = id
      BY <1>1
  <2>2. o \in ElementsOf(opsA) \cup ElementsOf(opsB) /\ Referenced(o) # {}
      BY CrossObjectIs
  <2>3. o.type \in Creating
      BY <2>2 DEF Referenced, Creating
  <2>. QED
      BY <2>1, <2>2, <2>3
<1>2. CASE id \in {k.dropped : k \in Collisions(opsA, opsB)}
  <2>1. PICK k \in Collisions(opsA, opsB) : k.dropped = id
      BY <1>2
  <2>2. PICK key \in ColumnKeys(opsA) \cap ColumnKeys(opsB) :
         k \in {[kept |-> opsA[FirstAdd(opsA, key)].id, dropped |-> opsB[FirstAdd(opsB, key)].id],
                [kept |-> opsB[FirstAdd(opsB, key)].id, dropped |-> opsA[FirstAdd(opsA, key)].id]}
      BY DEF Collisions
  <2>3. ASSUME NEW ops, Listed(ops), key \in ColumnKeys(ops)
        PROVE  FirstAdd(ops, key) \in DOMAIN ops /\ ops[FirstAdd(ops, key)].type = "AddColumn"
    <3> DEFINE S == ElementsOf(ops)
    <3>1. ops \in Seq(S)
        BY <2>3 DEF Listed
    <3> HIDE DEF S
    <3>. QED
        BY <2>3, <3>1, FirstAddPlace
  <2>4. /\ FirstAdd(opsA, key) \in DOMAIN opsA /\ opsA[FirstAdd(opsA, key)].type = "AddColumn"
        /\ FirstAdd(opsB, key) \in DOMAIN opsB /\ opsB[FirstAdd(opsB, key)].type = "AddColumn"
      BY <2>3
  <2>5. PICK x \in ElementsOf(opsA) \cup ElementsOf(opsB) : x.type = "AddColumn" /\ x.id = k.dropped
      BY <2>2, <2>4 DEF ElementsOf
  <2>. QED
      BY <2>1, <2>5 DEF Creating
<1>. QED
    BY <1>1, <1>2 DEF ToldOf

\* An object that both sides kept is in the merge, unless the human was told.
LEMMA KeptStays ==
  ASSUME NEW a, NEW b, NEW c, NEW m, NEW opsA, NEW opsB, NEW told,
         Meets(a, b, c, m, opsA, opsB, told), NEW id \in Left(a), id \in Left(b), id \notin told
  PROVE  id \in Left(c) /\ id \in Left(a \cup b \cup m)
<1> DEFINE all == a \cup b \cup m
<1>1. Sound(all)
    BY DEF Meets
<1>2. a \subseteq all /\ b \subseteq all /\ c \subseteq a /\ c \subseteq b
    BY DEF Meets
<1> HIDE DEF all
<1>3. PICK x \in Created(a) : x.id = id
    BY DEF Left
<1>4. PICK y \in Created(b) : y.id = id
    BY DEF Left
<1>5. x \in Created(all) /\ y \in Created(all) /\ id \notin Gone(a) /\ id \notin Gone(b)
    BY <1>2, GoneOfMore DEF Left
<1>6. x = y
    BY <1>1, <1>3, <1>4, <1>5, SameCreation
<1>7. x \in Created(c)
  <2> SUFFICES ASSUME x \in ElementsOf(opsA)
               PROVE  FALSE
      BY DEF Meets, Created
  <2>. QED
      BY <1>4, <1>6 DEF Meets, Created
<1>8. id \in Left(c)
    BY <1>2, <1>3, <1>5, <1>7, GoneOfMore DEF Left
<1>9. ASSUME id \in GoneBy(all)
      PROVE  FALSE
  <2>1. PICK z \in all : z.type \in Destructive /\ z.id = id
      BY <1>9 DEF GoneBy
  <2>2. z \notin a /\ z \notin b
      BY <1>5, <2>1 DEF Gone, GoneBy
  <2>. QED
      BY <2>1, <2>2 DEF Meets, all
<1>10. ASSUME NEW w \in Created(all), w.id = id, w.object.table \in GoneBy(all)
       PROVE  FALSE
  <2> DEFINE t == x.object.table
  <2>1. w = x
      BY <1>1, <1>3, <1>5, <1>10, SameCreation
  <2>2. PICK z \in all : z.type \in Destructive /\ z.id = t
      BY <1>10, <2>1 DEF GoneBy
  <2>3. Fits(all, x) /\ Fits(all, z) /\ x.type \in Creating
      BY <1>1, <1>5 DEF Sound, Created
  <2>4. t # NoId
      BY <1>1, <2>2, <2>3, SoundTables
  <2>5. PICK u \in Created(all) : u.id = t /\ u.type = "CreateTable"
      BY <1>1, <2>3, <2>4, SoundTables
  <2>6. z.type = "DropTable"
      BY <1>1, <2>2, <2>3, <2>5, SoundTables, SameCreation
  <2>7. z \notin a /\ z \notin b
      BY <1>3, <1>4, <1>5, <1>6, <2>2 DEF Gone, GoneBy
  <2>. QED
      BY <2>6, <2>7 DEF Meets, all
<1>11. id \notin Gone(all)
    BY <1>9, <1>10 DEF Gone
<1>. QED
    BY <1>3, <1>5, <1>8, <1>11 DEF Left, all

\* A side of a merge that nothing was merged into.
LEMMA SideContinues ==
  ASSUME NEW ns, NEW kept, IsStore(ns, kept), NEW base, NEW a, NEW b, NEW opsA, NEW opsB,
         IsMerge(ns, base, a, b, opsA, opsB), opsA = OperationsSince(ns, kept, base, a),
         Unmerged(ns, a)
  PROVE  /\ Ancestors(ns, a) = Ancestors(ns, base) \cup Since(ns, base, a)
         /\ Continues(ns, Ancestors(ns, base), Since(ns, base, a))
         /\ Straight(ns, base, a)
         /\ Listed(opsA) /\ ElementsOf(opsA) = OpsOf(ns, Since(ns, base, a))
         /\ LastsAreLatest(ns, Since(ns, base, a), opsA)
<1> DEFINE C == Ancestors(ns, base)
           S == Since(ns, base, a)
<1>1. /\ ParentsStored(ns) /\ a \in DOMAIN ns /\ base \in DOMAIN ns /\ base \in Ancestors(ns, a)
      /\ S \cap C = {}
    BY SinceApart, StoreIsDag DEF IsMerge
<1>2. C \subseteq Ancestors(ns, a) /\ base \in C /\ Ancestors(ns, a) \subseteq DOMAIN ns
    BY <1>1, AncestorsTransitive, AncestorsSelf DEF Ancestors
<1>3. \A p, q \in Ancestors(ns, a) : Related(ns, p, q)
    BY <1>1, LineIsRelated DEF Unmerged
<1>4. Straight(ns, base, a)
    BY <1>1, <1>3 DEF Straight, Related, Unmerged
<1>5. Ancestors(ns, a) = C \cup S
    BY <1>2, <1>4 DEF Straight, Since
<1>6. \A q \in S : C \subseteq Ancestors(ns, q)
  <2> SUFFICES ASSUME NEW q \in S
               PROVE  C \subseteq Ancestors(ns, q)
      OBVIOUS
  <2>1. q \in DOMAIN ns /\ base \in Ancestors(ns, q)
      BY DEF Since, Ancestors
  <2>. QED
      BY <1>1, <2>1, AncestorsTransitive
<1>7. Continues(ns, C, S)
    BY <1>1, <1>2, <1>3, <1>5, <1>6 DEF Continues, IsLine
<1>8. \A q \in S : Len(ns[q].parents) <= 1
    BY <1>5 DEF Unmerged
<1>9. Listed(opsA) /\ ElementsOf(opsA) = OpsOf(ns, S)
    BY <1>8 DEF IsMerge, OfSide
<1>10. base \in kept[a]
    BY <1>1 DEF IsStore
<1>11. LastsAreLatest(ns, S, opsA)
    BY <1>1, <1>8, <1>10, SinceLast
<1>. QED
    BY <1>4, <1>5, <1>7, <1>9, <1>11

\* The history of a merge of two such sides.
LEMMA FirstMergeJoins ==
  ASSUME NEW ns, NEW kept, IsStore(ns, kept), NEW made, IsReport(ns, made),
         NEW opsA, NEW opsB, MadeOf(ns, kept, made, opsA, opsB),
         Unmerged(ns, Side1(ns, made)), Unmerged(ns, Side2(ns, made))
  PROVE  LET C == Ancestors(ns, made.base)
             S == Since(ns, made.base, Side1(ns, made))
             T == Since(ns, made.base, Side2(ns, made))
         IN  /\ Ancestors(ns, made.rev) = {made.rev} \cup C \cup S \cup T
             /\ Joins(ns, C, S, T, made.rev)
<1> DEFINE a == Side1(ns, made)
           b == Side2(ns, made)
           C == Ancestors(ns, made.base)
           S == Since(ns, made.base, a)
           T == Since(ns, made.base, b)
<1>1. /\ IsMerge(ns, made.base, a, b, opsA, opsB)
      /\ opsA = OperationsSince(ns, kept, made.base, a)
      /\ opsB = OperationsSince(ns, kept, made.base, b)
    BY DEF MadeOf, Explains
<1>2. IsMerge(ns, made.base, b, a, opsB, opsA)
    BY <1>1, MergeTurned
<1>3. Ancestors(ns, a) = C \cup S /\ Continues(ns, C, S)
    BY <1>1, SideContinues
<1>4. Ancestors(ns, b) = C \cup T /\ Continues(ns, C, T)
    BY <1>1, <1>2, SideContinues
<1>5. made.rev \in DOMAIN ns /\ Ancestors(ns, made.rev) = {made.rev} \cup Ancestors(ns, a) \cup Ancestors(ns, b)
    BY DEF IsReport
<1>6. a \in 1 .. (made.rev - 1) /\ b \in 1 .. (made.rev - 1)
  <2>1. Len(ns[made.rev].parents) = 2 /\ ns[made.rev].parents \in Seq(1 .. (made.rev - 1))
      BY <1>5 DEF IsReport, IsStore
  <2> DEFINE list == ns[made.rev].parents  older == 1 .. (made.rev - 1)
  <2>3. list \in Seq(older) /\ Len(list) = 2
      BY <2>1
  <2> HIDE DEF list, older
  <2>4. list[1] \in older /\ list[2] \in older
    <3>1. {1, 2} \subseteq DOMAIN list
        BY <2>3
    <3>2. ElementsOf(list) \subseteq older
        BY <2>3, ListedIff
    <3>. QED
        BY <3>1, <3>2, ElementOf
  <2>2. ns[made.rev].parents[1] \in 1 .. (made.rev - 1) /\ ns[made.rev].parents[2] \in 1 .. (made.rev - 1)
      BY <2>4 DEF list, older
  <2>. QED
      BY <2>2 DEF Side1, Side2
<1>7. made.rev \notin Ancestors(ns, a) /\ made.rev \notin Ancestors(ns, b)
  <2>1. ParentsStored(ns) /\ AppendOrder(ns) /\ DOMAIN ns = 1 .. Len(ns) /\ Len(ns) \in Nat
      BY StoreIsDag
  <2>2. a \in DOMAIN ns /\ b \in DOMAIN ns
      BY <1>1 DEF IsMerge
  <2>3. \A x \in Ancestors(ns, a) : x <= a
      BY <2>1, <2>2, AncestorsNotNewer
  <2>4. \A x \in Ancestors(ns, b) : x <= b
      BY <2>1, <2>2, AncestorsNotNewer
  <2>. QED
      BY <1>5, <1>6, <2>1, <2>3, <2>4
<1>. QED
    BY <1>3, <1>4, <1>5, <1>7 DEF Joins

\* What is done to one object is done to one kind of object.
LEMMA OneKind ==
  ASSUME NEW before, Sound(before), NEW o \in before, NEW p \in before, o.id = p.id,
         o.type \notin Creating, p.type \notin Creating
  PROVE  KindOf[o.type] = KindOf[p.type]
<1>1. PICK x \in before : Makes(x, KindOf[o.type], o.id)
    BY DEF Sound, Fits
<1>2. PICK y \in before : Makes(y, KindOf[p.type], p.id)
    BY DEF Sound, Fits
<1>3. x \in Created(before) /\ y \in Created(before) /\ x.id = y.id
    BY <1>1, <1>2 DEF Makes, Created
<1>. QED
    BY <1>1, <1>2, <1>3, SameCreation DEF Makes

\* Only a column and an index have a field in common that operations set.
LEMMA SameField ==
  ASSUME NEW before, Sound(before), NEW o \in before, NEW p \in before, NEW id, NEW f,
         SetsField(o, id, f), SetsField(p, id, f)
  PROVE  o.type = p.type
<1>1. o.type \in DOMAIN SetField /\ p.type \in DOMAIN SetField /\ SetField[o.type] = SetField[p.type] /\ o.id = p.id
    BY DEF SetsField
<1>2. o.type \notin Creating /\ p.type \notin Creating
    BY <1>1 DEF Creating, SetField, MutationField
<1>3. KindOf[o.type] = KindOf[p.type]
    BY <1>1, <1>2, OneKind
<1>4. DOMAIN SetField = {"RenameColumn", "AlterColumnType", "AlterColumnNullability",
                         "AlterColumnDefault", "RenameIndex"}
    BY DEF SetField, MutationField
<1>5. /\ SetField["RenameColumn"] = "name" /\ SetField["AlterColumnType"] = "type"
      /\ SetField["AlterColumnNullability"] = "nullable" /\ SetField["AlterColumnDefault"] = "default"
      /\ SetField["RenameIndex"] = "name"
    BY DEF SetField, MutationField
<1>6. KindOf["RenameColumn"] = "column" /\ KindOf["RenameIndex"] = "index"
    BY DEF KindOf
<1>. QED
    BY <1>1, <1>3, <1>4, <1>5, <1>6

\* Decompose keeps the last value of a field.
LEMMA DecomposeLast ==
  ASSUME NEW on, Listed(on), NEW id, \A o \in ElementsOf(on) : o.id = id /\ o.type # "RenameIndex",
         NEW f, NEW k, IsLastSet(on, Len(on), id, f, k)
  PROVE  f \in DOMAIN Decompose(on) /\ Decompose(on)[f] = on[k].value
<1> DEFINE sets == {i \in DOMAIN on : on[i].type \in DOMAIN MutationField}
           field(i) == MutationField[on[i].type]
           Last(i) == field(i) = f /\ \A j \in sets : field(j) = f => j <= i
<1>1. Len(on) \in Nat /\ DOMAIN on = 1 .. Len(on)
    BY ListedPlaces
<1>2. \A i \in DOMAIN on : on[i].id = id /\ on[i].type # "RenameIndex"
    BY ElementOf
<1>3. \A v : v # "RenameIndex" /\ v \in DOMAIN SetField => v \in DOMAIN MutationField /\ SetField[v] = MutationField[v]
    BY DEF SetField
<1>4. \A v \in DOMAIN MutationField : v \in DOMAIN SetField /\ SetField[v] = MutationField[v]
    BY DEF SetField, MutationField
<1>5. \A i \in DOMAIN on : SetsField(on[i], id, f) <=> i \in sets /\ field(i) = f
    BY <1>2, <1>3, <1>4 DEF SetsField
<1>6. k \in sets /\ field(k) = f
    BY <1>1, <1>5 DEF IsLastSet
<1>7. \A j \in sets : field(j) = f => j <= k
    BY <1>1, <1>5 DEF IsLastSet
<1>8. \A i \in sets : Last(i) => i = k
    BY <1>1, <1>6, <1>7
<1>9. (CHOOSE i \in sets : Last(i)) = k
  <2> HIDE DEF sets, field
  <2>. QED
      BY <1>6, <1>7, <1>8
<1>10. Decompose(on) = [g \in {field(i) : i \in sets} |->
         on[CHOOSE i \in sets : field(i) = g /\ \A j \in sets : field(j) = g => j <= i].value]
    BY DEF Decompose
<1>11. f \in {field(i) : i \in sets}
    BY <1>6
<1>12. f \in DOMAIN Decompose(on) /\ Decompose(on)[f] = on[CHOOSE i \in sets : Last(i)].value
  <2> HIDE DEF sets, field
  <2>. QED
      BY <1>10, <1>11
<1>. QED
    BY <1>9, <1>12

\* A list has one last operation on a field, and its group ends with it.
LEMMA LastInGroup ==
  ASSUME NEW ops, Listed(ops), NEW id, NEW f, NEW o, LastOf(ops, id, f, o)
  PROVE  \E k : IsLastSet(OpsOn(ops, id), Len(OpsOn(ops, id)), id, f, k) /\ OpsOn(ops, id)[k] = o
<1> DEFINE on == OpsOn(ops, id)
<1>1. PICK i \in DOMAIN ops : IsLastSet(ops, Len(ops), id, f, i) /\ o = ops[i]
    BY DEF LastOf
<1>2. Listed(on) /\ ElementsOf(on) = {x \in ElementsOf(ops) : x.id = id}
    BY OpsOnListed
<1>3. Len(on) \in Nat /\ DOMAIN on = 1 .. Len(on) /\ Len(ops) \in Nat /\ DOMAIN ops = 1 .. Len(ops)
    BY <1>2, ListedPlaces
<1>4. SetsField(o, id, f) /\ o.id = id /\ o \in ElementsOf(ops)
    BY <1>1 DEF IsLastSet, SetsField, ElementsOf
<1>5. PICK h \in DOMAIN on : on[h] = o
    BY <1>2, <1>4 DEF ElementsOf
<1> HIDE DEF on
<1>6. PICK k \in 1 .. Len(on) : IsLastSet(on, Len(on), id, f, k)
    BY <1>3, <1>4, <1>5, LastSetExists
<1>7. PICK j \in DOMAIN ops : IsLastSet(ops, Len(ops), id, f, j) /\ on[k] = ops[j]
    BY <1>6, GroupLast DEF on
<1>8. i = j
    BY <1>1, <1>3, <1>7 DEF IsLastSet
<1>. QED
    BY <1>1, <1>6, <1>7, <1>8 DEF on

\* What a side did to an object of the common history that it kept is to set fields.
LEMMA OnlyChanged ==
  ASSUME NEW a, NEW b, NEW c, NEW m, NEW opsA, NEW opsB, NEW told,
         Meets(a, b, c, m, opsA, opsB, told), NEW id \in Left(a), id \in Left(c),
         NEW o \in ElementsOf(opsA), o.id = id
  PROVE  o.type \in DOMAIN SetField
<1>1. Sound(a \cup b \cup m) /\ o \in a /\ c \subseteq b
    BY DEF Meets
<1>2. Fits(a \cup b \cup m, o)
    BY <1>1 DEF Sound
<1>3. o.type \in Destructive \cup Creating \cup DOMAIN SetField
    BY <1>2 DEF Fits, Variants
<1>4. o.type \notin Destructive
    BY <1>1 DEF Left, Gone, GoneBy
<1>5. PICK y \in Created(c) : y.id = id
    BY DEF Left
<1>6. o.type \notin Creating
    BY <1>1, <1>5 DEF Meets, Created
<1>. QED
    BY <1>3, <1>4, <1>6

\* A side does nothing else to an index that it renames: compound_group.py, which
\* looks at an object that a side changed more than once, does not see an index.
RenamesIndexOnce(ops) ==
  \A id \in Touched(ops) :
    (\E o \in ElementsOf(OpsOn(ops, id)) : o.type = "RenameIndex") => Len(OpsOn(ops, id)) = 1

\* Two changes that are not asked about are to one value.
LEMMA PairAgrees ==
  ASSUME NEW before, Sound(before), NEW x \in before, NEW y \in before, NEW id, NEW f,
         SetsField(x, id, f), SetsField(y, id, f), Answers(ClassifyPair(x, y)) = {}
  PROVE  x.value = y.value
<1>1. x.type = y.type
    BY SameField
<1>2. x.type \in DOMAIN SetField
    BY DEF SetsField
<1>3. x.type \notin Destructive
    BY <1>2 DEF SetField, MutationField, Destructive
<1>4. \A class \in {"single_valued_conflict", "conflict", "partial_conflict"} : Answers(class) # {}
    BY DEF Answers
<1>5. SUFFICES ASSUME x.value # y.value
               PROVE  FALSE
    OBVIOUS
<1>6. {x.type, y.type} \cap Destructive = {} /\ ~({x.type, y.type} \subseteq Destructive) /\ x # y
    BY <1>1, <1>3, <1>5
<1>7. ClassifyPair(x, y) \in {"single_valued_conflict", "conflict"}
    BY <1>1, <1>5, <1>6 DEF ClassifyPair
<1>. QED
    BY <1>4, <1>7

\* Where nobody was asked about an object both sides left a field as the same.
LEMMA UnaskedAgree ==
  ASSUME NEW before, Sound(before), NEW opsA, Listed(opsA), NEW opsB, Listed(opsB),
         ElementsOf(opsA) \subseteq before, ElementsOf(opsB) \subseteq before,
         RenamesIndexOnce(opsA), RenamesIndexOnce(opsB),
         NEW id, id \notin Asked(opsA, opsB),
         \A o \in ElementsOf(opsA) \cup ElementsOf(opsB) : o.id = id => o.type \in DOMAIN SetField,
         NEW f, NEW x, LastOf(opsA, id, f, x), NEW y, LastOf(opsB, id, f, y)
  PROVE  x.value = y.value
<1> DEFINE a == OpsOn(opsA, id)
           b == OpsOn(opsB, id)
<1>1. PICK k : IsLastSet(a, Len(a), id, f, k) /\ a[k] = x
    BY LastInGroup
<1>2. PICK l : IsLastSet(b, Len(b), id, f, l) /\ b[l] = y
    BY LastInGroup
<1>3. /\ Listed(a) /\ ElementsOf(a) = {o \in ElementsOf(opsA) : o.id = id}
      /\ Listed(b) /\ ElementsOf(b) = {o \in ElementsOf(opsB) : o.id = id}
    BY OpsOnListed
<1>4. /\ Len(a) \in Nat /\ DOMAIN a = 1 .. Len(a) /\ k \in 1 .. Len(a)
      /\ Len(b) \in Nat /\ DOMAIN b = 1 .. Len(b) /\ l \in 1 .. Len(b)
    BY <1>1, <1>2, <1>3, ListedPlaces DEF IsLastSet
<1>5. SetsField(x, id, f) /\ SetsField(y, id, f) /\ x.id = id /\ y.id = id
    BY <1>1, <1>2 DEF IsLastSet, SetsField
<1>6. x \in ElementsOf(a) /\ y \in ElementsOf(b)
    BY <1>1, <1>2, <1>4 DEF ElementsOf
<1>7. x \in before /\ y \in before /\ id \in Touched(opsA) /\ id \in Touched(opsB)
    BY <1>3, <1>5, <1>6 DEF Touched
<1>8. Answers(Classify(a, b)) = {}
    BY <1>7 DEF Asked, AnswersFor
<1>9. a # <<>> /\ b # <<>>
  <2>1. Len(<<>>) = 0
      OBVIOUS
  <2>. QED
      BY <1>4, <2>1
<1>10. CASE Len(a) = 1 /\ Len(b) = 1
  <2>1. k = 1 /\ l = 1
      BY <1>4, <1>10
  <2>2. Classify(a, b) = ClassifyPair(x, y)
      BY <1>1, <1>2, <1>9, <1>10, <2>1 DEF Classify
  <2>. QED
      BY <1>5, <1>7, <1>8, <2>2, PairAgrees
<1>11. CASE ~(Len(a) = 1 /\ Len(b) = 1)
  <2>1. Classify(a, b) = ClassifyCompound(a, b)
      BY <1>9, <1>11 DEF Classify
  <2>2. \A o \in ElementsOf(a) \cup ElementsOf(b) :
          o.id = id /\ o \in before /\ o.type \in DOMAIN SetField /\ o.type \notin Creating
    <3>1. \A v \in DOMAIN SetField : v \notin Creating
        BY DEF SetField, MutationField, Creating
    <3>. QED
        BY <1>3, <3>1
  <2>3. \A o, p \in ElementsOf(a) \cup ElementsOf(b) : o.type = "RenameIndex" => p.type = "RenameIndex"
    <3> SUFFICES ASSUME NEW o \in ElementsOf(a) \cup ElementsOf(b), NEW p \in ElementsOf(a) \cup ElementsOf(b),
                        o.type = "RenameIndex"
                 PROVE  p.type = "RenameIndex"
        OBVIOUS
    <3>1. KindOf[p.type] = KindOf["RenameIndex"]
        BY <2>2, OneKind
    <3>2. p.type \in {"RenameColumn", "AlterColumnType", "AlterColumnNullability", "AlterColumnDefault", "RenameIndex"}
        BY <2>2 DEF SetField, MutationField
    <3>. QED
        BY <3>1, <3>2 DEF KindOf
  <2>4. \A o \in ElementsOf(a) \cup ElementsOf(b) : o.type # "RenameIndex"
    <3> SUFFICES ASSUME NEW o \in ElementsOf(a) \cup ElementsOf(b), o.type = "RenameIndex"
                 PROVE  FALSE
        OBVIOUS
    <3>1. x.type = "RenameIndex" /\ y.type = "RenameIndex"
        BY <1>6, <2>3
    <3>2. Len(a) = 1 /\ Len(b) = 1
        BY <1>6, <1>7, <3>1 DEF RenamesIndexOnce
    <3>. QED
        BY <1>11, <3>2
  <2>5. f \in DOMAIN Decompose(a) /\ Decompose(a)[f] = x.value
      BY <1>1, <1>3, <2>2, <2>4, DecomposeLast
  <2>6. f \in DOMAIN Decompose(b) /\ Decompose(b)[f] = y.value
      BY <1>2, <1>3, <2>2, <2>4, DecomposeLast
  <2>7. Answers("partial_conflict") # {}
      BY DEF Answers
  <2>. QED
      BY <1>8, <2>1, <2>5, <2>6, <2>7 DEF ClassifyCompound
<1>. QED
    BY <1>10, <1>11

\* A side left the field as it was, or its last operation on it set this value.
SideValue(ops, id, f, old, value) ==
  (NoneOf(ops, id, f) /\ value = old) \/ \E o : LastOf(ops, id, f, o) /\ value = o.value

LEMMA LastIsOne ==
  ASSUME NEW ops, Listed(ops), NEW id, NEW f, NEW o, LastOf(ops, id, f, o)
  PROVE  ~NoneOf(ops, id, f) /\ \A p : LastOf(ops, id, f, p) => p = o
<1>1. Len(ops) \in Nat /\ DOMAIN ops = 1 .. Len(ops)
    BY ListedPlaces
<1>2. PICK i \in DOMAIN ops : IsLastSet(ops, Len(ops), id, f, i) /\ o = ops[i]
    BY DEF LastOf
<1>3. ~NoneOf(ops, id, f)
    BY <1>2 DEF NoneOf, IsLastSet
<1>4. ASSUME NEW p, LastOf(ops, id, f, p)
      PROVE  p = o
  <2>1. PICK j \in DOMAIN ops : IsLastSet(ops, Len(ops), id, f, j) /\ p = ops[j]
      BY <1>4 DEF LastOf
  <2>2. i = j
      BY <1>1, <1>2, <2>1 DEF IsLastSet
  <2>. QED
      BY <1>2, <2>1, <2>2
<1>. QED
    BY <1>3, <1>4

\* What a side says is what its list ends with.
LEMMA SaysLast ==
  ASSUME NEW ns, NEW kept, IsStore(ns, kept), NEW S, IsLine(ns, S), NEW ops, Listed(ops),
         ElementsOf(ops) = OpsOf(ns, S), LastsAreLatest(ns, S, ops), NEW id, NEW f, NEW v
  PROVE  /\ Says(ns, S, id, f, v) => \E o : LastOf(ops, id, f, o) /\ v = o.value
         /\ NeverSet(ns, S, id, f) => NoneOf(ops, id, f)
<1>1. /\ NoneOf(ops, id, f) <=> NeverSet(ns, S, id, f)
      /\ \A o : LastOf(ops, id, f, o) => Says(ns, S, id, f, o.value)
      /\ ~NoneOf(ops, id, f) => \E o : LastOf(ops, id, f, o)
      /\ \A w : Says(ns, S, id, f, w) => ~NeverSet(ns, S, id, f)
    BY ListSays
<1>2. ASSUME Says(ns, S, id, f, v)
      PROVE  \E o : LastOf(ops, id, f, o) /\ v = o.value
  <2>1. PICK o : LastOf(ops, id, f, o)
      BY <1>1, <1>2
  <2>2. Says(ns, S, id, f, o.value)
      BY <1>1, <2>1
  <2>3. v = o.value
      BY <1>2, <2>2, SaysOnce
  <2>. QED
      BY <2>1, <2>3
<1>. QED
    BY <1>1, <1>2

\* The value of a field of a merge, by the operations that it was made of.
MergedValue(opsA, opsB, answers, id, f, old, value) ==
  \/ id \in DOMAIN answers /\ \E o : Answered(opsA, opsB, answers[id], id, f, o) /\ value = o.value
  \/ /\ NoneOf(MergeOps(opsA, opsB, answers), id, f)
     /\ \/ NoneOf(opsA, id, f) /\ NoneOf(opsB, id, f) /\ value = old
        \/ \E o : LastOf(opsA, id, f, o) /\ value = o.value
        \/ \E o : LastOf(opsB, id, f, o) /\ value = o.value

\* Where someone was asked about the object, it is that of one side or the other.
LEMMA AskedIsASide ==
  ASSUME NEW opsA, Listed(opsA), NEW opsB, Listed(opsB), NEW answers, NEW id, NEW f, NEW old,
         NEW va, SideValue(opsA, id, f, old, va), NEW vb, SideValue(opsB, id, f, old, vb),
         NEW v, MergedValue(opsA, opsB, answers, id, f, old, v)
  PROVE  v \in {va, vb}
<1>1. \A o : LastOf(opsA, id, f, o) => va = o.value
    BY LastIsOne DEF SideValue
<1>2. \A o : LastOf(opsB, id, f, o) => vb = o.value
    BY LastIsOne DEF SideValue
<1>3. CASE \E o : Answered(opsA, opsB, answers[id], id, f, o) /\ v = o.value
  <2>1. PICK o : Answered(opsA, opsB, answers[id], id, f, o) /\ v = o.value
      BY <1>3
  <2>. QED
      BY <1>1, <1>2, <2>1 DEF Answered
<1>4. CASE NoneOf(opsA, id, f) /\ v = old
  <2>1. va = old
      BY <1>4, LastIsOne DEF SideValue
  <2>. QED
      BY <1>4, <2>1
<1>5. CASE \E o : LastOf(opsA, id, f, o) /\ v = o.value
    BY <1>1, <1>5
<1>6. CASE \E o : LastOf(opsB, id, f, o) /\ v = o.value
    BY <1>2, <1>6
<1>. QED
    BY <1>3, <1>4, <1>5, <1>6 DEF MergedValue

\* Where nobody was, it is the one that a side changed it to, if one did.
LEMMA UnaskedIsThreeWay ==
  ASSUME NEW opsA, Listed(opsA), NEW opsB, Listed(opsB), NEW answers, NEW id, id \notin DOMAIN answers,
         NEW f, NEW old, NEW va, SideValue(opsA, id, f, old, va), NEW vb, SideValue(opsB, id, f, old, vb),
         NEW v, MergedValue(opsA, opsB, answers, id, f, old, v),
         \A x, y : LastOf(opsA, id, f, x) /\ LastOf(opsB, id, f, y) => x.value = y.value
  PROVE  /\ v = ThreeWay(old, va, vb)
         /\ va = old \/ vb = old \/ va = vb
<1>1. /\ \A o : LastOf(opsA, id, f, o) => va = o.value /\ ~NoneOf(opsA, id, f)
      /\ \A o : LastOf(opsB, id, f, o) => vb = o.value /\ ~NoneOf(opsB, id, f)
    BY LastIsOne DEF SideValue
<1>2. /\ (NoneOf(opsA, id, f) /\ va = old) \/ \E o : LastOf(opsA, id, f, o)
      /\ (NoneOf(opsB, id, f) /\ vb = old) \/ \E o : LastOf(opsB, id, f, o)
    BY DEF SideValue
<1>3. \/ NoneOf(opsA, id, f) /\ NoneOf(opsB, id, f) /\ v = old
      \/ v = va /\ ~NoneOf(opsA, id, f)
      \/ v = vb /\ ~NoneOf(opsB, id, f)
    BY <1>1 DEF MergedValue
<1>4. NoneOf(opsA, id, f) => va = old
    BY <1>1, <1>2
<1>5. NoneOf(opsB, id, f) => vb = old
    BY <1>1, <1>2
<1>6. NoneOf(opsA, id, f) \/ NoneOf(opsB, id, f) \/ va = vb
    BY <1>1, <1>2
<1>. QED
    BY <1>3, <1>4, <1>5, <1>6 DEF ThreeWay

\* What someone was asked about the merge node repeats of one side or of both.
LEMMA AskedIsRepeated ==
  ASSUME NEW opsA, Listed(opsA), NEW opsB, Listed(opsB), NEW answers, IsFiniteSet(DOMAIN answers),
         NEW id \in DOMAIN answers, answers[id] \in {"a", "b", "both"}, NEW f,
         NEW x, LastOf(opsA, id, f, x), NEW y, LastOf(opsB, id, f, y)
  PROVE  ~NoneOf(MergeOps(opsA, opsB, answers), id, f)
<1> DEFINE on(ops) == OpsOn(ops, id)
<1> SUFFICES ASSUME NoneOf(MergeOps(opsA, opsB, answers), id, f)
             PROVE  FALSE
    OBVIOUS
<1>1. ASSUME NEW ops, Listed(ops), NEW o, LastOf(ops, id, f, o)
      PROVE  o \in ElementsOf(on(ops)) /\ SetsField(o, id, f)
  <2>1. PICK i \in DOMAIN ops : IsLastSet(ops, Len(ops), id, f, i) /\ o = ops[i]
      BY <1>1 DEF LastOf
  <2>2. SetsField(o, id, f) /\ o.id = id /\ o \in ElementsOf(ops)
      BY <2>1 DEF IsLastSet, SetsField, ElementsOf
  <2>. QED
      BY <1>1, <2>2, OpsOnListed
<1>2. x \in ElementsOf(on(opsA)) /\ y \in ElementsOf(on(opsB)) /\ SetsField(x, id, f) /\ SetsField(y, id, f)
    BY <1>1
<1>3. Listed(on(opsA)) /\ Listed(on(opsB))
    BY OpsOnListed
<1>4. \E o \in ElementsOf(Chosen(on(opsA), on(opsB), answers[id])) : SetsField(o, id, f)
  <2>1. ElementsOf(on(opsA) \o on(opsB)) = ElementsOf(on(opsA)) \cup ElementsOf(on(opsB))
      BY <1>3, ListedConcat
  <2>. QED
      BY <1>2, <2>1 DEF Chosen
<1>5. PICK o \in Resolved(opsA, opsB, answers) : SetsField(o, id, f)
    BY <1>4 DEF Resolved
<1>6. o \in ElementsOf(MergeOps(opsA, opsB, answers))
    BY <1>5, MergeOpsListed
<1>. QED
    BY <1>5, <1>6 DEF NoneOf, ElementsOf

\* Where both sides changed it, the answer decides.
LEMMA AnswerDecides ==
  ASSUME NEW opsA, Listed(opsA), NEW opsB, Listed(opsB), NEW answers, IsFiniteSet(DOMAIN answers),
         NEW id \in DOMAIN answers, answers[id] \in {"a", "b", "both"}, NEW f, NEW old,
         NEW va, SideValue(opsA, id, f, old, va), va # old,
         NEW vb, SideValue(opsB, id, f, old, vb), vb # old,
         NEW v, MergedValue(opsA, opsB, answers, id, f, old, v)
  PROVE  v = IF answers[id] = "a" THEN va ELSE vb
<1>1. PICK x : LastOf(opsA, id, f, x) /\ va = x.value
    BY DEF SideValue
<1>2. PICK y : LastOf(opsB, id, f, y) /\ vb = y.value
    BY DEF SideValue
<1>3. /\ \A o : LastOf(opsA, id, f, o) => o = x
      /\ \A o : LastOf(opsB, id, f, o) => o = y
      /\ ~NoneOf(opsA, id, f) /\ ~NoneOf(opsB, id, f)
    BY <1>1, <1>2, LastIsOne
<1>4. CASE \E o : Answered(opsA, opsB, answers[id], id, f, o) /\ v = o.value
  <2>1. PICK o : Answered(opsA, opsB, answers[id], id, f, o) /\ v = o.value
      BY <1>4
  <2>. QED
      BY <1>1, <1>2, <1>3, <2>1 DEF Answered
<1>5. ~NoneOf(MergeOps(opsA, opsB, answers), id, f)
    BY <1>1, <1>2, AskedIsRepeated
<1>. QED
    BY <1>4, <1>5 DEF MergedValue

\* The fields of an object of both sides come from their operations.
FieldsFollow(s, opsA, opsB, answers, id) ==
  \A f \in Fields :
    /\ SideValue(opsA, id, f, s.base[id][f], s.a[id][f])
    /\ SideValue(opsB, id, f, s.base[id][f], s.b[id][f])
    /\ MergedValue(opsA, opsB, answers, id, f, s.base[id][f], s.merged[id][f])

OnlySet(ops, id) == \A o \in ElementsOf(ops) : o.id = id => o.type \in DOMAIN SetField

\* The objects that both sides of such a merge have.
LEMMA SharedObjects ==
  ASSUME MergeInv, Merged, FirstMerge, NEW opsA, NEW opsB,
         MadeOf(nodes, ancestors, report, opsA, opsB),
         NEW id \in DOMAIN Schemas.a, id \in DOMAIN Schemas.b
  PROVE  /\ id \in DOMAIN Schemas.base /\ id \in DOMAIN Schemas.merged
         /\ OnlySet(opsA, id) /\ OnlySet(opsB, id)
         /\ \E before : /\ Sound(before)
                        /\ ElementsOf(opsA) \subseteq before /\ ElementsOf(opsB) \subseteq before
<1> DEFINE OpsAt(r) == OpsOf(nodes, Ancestors(nodes, r))
           a == OpsAt(Side1(nodes, report))
           b == OpsAt(Side2(nodes, report))
           c == OpsAt(report.base)
           m == ElementsOf(nodes[report.rev].ops)
           all == OpsAt(report.rev)
           told == ToldOf(opsA, opsB)
<1>1. /\ MInv /\ IsSound(nodes, ancestors) /\ IsStore(nodes, ancestors)
    BY DEF MergeInv, MInv, StoreInv, IsSound
<1>2. /\ IsReport(nodes, report)
      /\ DOMAIN Schemas.base = Left(c) /\ DOMAIN Schemas.merged = Left(all)
      /\ DOMAIN Schemas.a = Left(a) /\ DOMAIN Schemas.b = Left(b)
    BY <1>1, MergedSchemas
<1>3. /\ Explains(nodes, report, opsA, opsB)
      /\ IsMerge(nodes, report.base, Side1(nodes, report), Side2(nodes, report), opsA, opsB)
      /\ opsA = OperationsSince(nodes, ancestors, report.base, Side1(nodes, report))
      /\ opsB = OperationsSince(nodes, ancestors, report.base, Side2(nodes, report))
    BY DEF MadeOf, Explains
<1>4. IsMerge(nodes, report.base, Side2(nodes, report), Side1(nodes, report), opsB, opsA)
    BY <1>3, MergeTurned
<1>5. Straight(nodes, report.base, Side1(nodes, report)) /\ Straight(nodes, report.base, Side2(nodes, report))
    BY <1>1, <1>3, <1>4, SideContinues DEF FirstMerge
<1>6. report.acknowledged \subseteq told /\ \A k \in report.collisions : k.dropped \in told
    BY <1>3 DEF Explains, ToldOf
<1> HIDE DEF told
<1>9. /\ a \cup b \cup m = all
      /\ Meets(a, b, c, m, opsA, opsB, told) /\ Meets(b, a, c, m, opsB, opsA, told)
    BY <1>1, <1>2, <1>3, <1>5, <1>6, MergeMeets
<1>10. Listed(opsA) /\ Listed(opsB)
    BY <1>3 DEF IsMerge, OfSide
<1> HIDE DEF a, b, c, m, all
<1>11. id \notin told
  <2> SUFFICES ASSUME id \in told
               PROVE  FALSE
      OBVIOUS
  <2>1. PICK x \in ElementsOf(opsA) \cup ElementsOf(opsB) : x.type \in Creating /\ x.id = id
      BY <1>10, ToldWasMade DEF told
  <2>2. PICK y \in Created(a) : y.id = id
      BY <1>2 DEF Left
  <2>3. PICK z \in Created(b) : z.id = id
      BY <1>2 DEF Left
  <2>. QED
      BY <1>9, <2>1, <2>2, <2>3 DEF Meets, Created
<1>12. id \in Left(c) /\ id \in Left(a \cup b \cup m)
    BY <1>2, <1>9, <1>11, KeptStays
<1>13. OnlySet(opsA, id)
    BY <1>2, <1>9, <1>12, OnlyChanged DEF OnlySet
<1>14. OnlySet(opsB, id)
    BY <1>2, <1>9, <1>12, OnlyChanged DEF OnlySet
<1>15. Sound(a \cup b \cup m) /\ ElementsOf(opsA) \subseteq a /\ ElementsOf(opsB) \subseteq b
    BY <1>9 DEF Meets
<1>16. /\ ElementsOf(opsA) \subseteq a \cup b \cup m /\ ElementsOf(opsB) \subseteq a \cup b \cup m
    BY <1>15
<1>. QED
    BY <1>2, <1>9, <1>12, <1>13, <1>14, <1>15, <1>16

\* The fields of those objects.
LEMMA SharedFields ==
  ASSUME MergeInv, Merged, FirstMerge, NEW opsA, NEW opsB,
         MadeOf(nodes, ancestors, report, opsA, opsB),
         NEW id \in DOMAIN Schemas.a, id \in DOMAIN Schemas.b
  PROVE  FieldsFollow(Schemas, opsA, opsB, report.answers, id)
<1> DEFINE r1 == Side1(nodes, report)
           r2 == Side2(nodes, report)
           base == report.base
           rev == report.rev
           C == Ancestors(nodes, base)
           S == Since(nodes, base, r1)
           T == Since(nodes, base, r2)
           ops == MergeOps(opsA, opsB, report.answers)
           s == Schemas
<1>1. /\ StoreInv /\ IsSound(nodes, ancestors) /\ IsStore(nodes, ancestors) /\ Formed(nodes)
      /\ IsReport(nodes, report) /\ \A x \in schemas[rev] : ~x.broken
    BY DEF MergeInv, MInv, StoreInv, IsSound, Merged
<1>2. /\ Explains(nodes, report, opsA, opsB) /\ IsMerge(nodes, base, r1, r2, opsA, opsB)
      /\ opsA = OperationsSince(nodes, ancestors, base, r1)
      /\ opsB = OperationsSince(nodes, ancestors, base, r2)
      /\ nodes[rev].ops = ops
      /\ \A x \in DOMAIN report.answers : report.answers[x] \in {"a", "b", "both"}
    BY DEF MadeOf, Explains
<1>3. IsMerge(nodes, base, r2, r1, opsB, opsA)
    BY <1>2, MergeTurned
<1>4. /\ Ancestors(nodes, r1) = C \cup S /\ Continues(nodes, C, S)
      /\ Listed(opsA) /\ ElementsOf(opsA) = OpsOf(nodes, S) /\ LastsAreLatest(nodes, S, opsA)
    BY <1>1, <1>2, SideContinues DEF FirstMerge
<1>5. /\ Ancestors(nodes, r2) = C \cup T /\ Continues(nodes, C, T)
      /\ Listed(opsB) /\ ElementsOf(opsB) = OpsOf(nodes, T) /\ LastsAreLatest(nodes, T, opsB)
    BY <1>1, <1>2, <1>3, SideContinues DEF FirstMerge
<1>6. Ancestors(nodes, rev) = {rev} \cup C \cup S \cup T /\ Joins(nodes, C, S, T, rev)
    BY <1>1, FirstMergeJoins DEF FirstMerge
<1>7. id \in DOMAIN s.base /\ id \in DOMAIN s.merged
    BY SharedObjects
<1>8. /\ s.base = SchemaAt(base) /\ s.merged = SchemaAt(rev)
      /\ s.a = SchemaAt(r1) /\ s.b = SchemaAt(r2)
    BY DEF Schemas, Side1, Side2
<1>9. /\ rev \in DOMAIN nodes /\ r1 \in DOMAIN nodes /\ r2 \in DOMAIN nodes /\ base \in DOMAIN nodes
      /\ base \in Ancestors(nodes, r1)
    BY <1>1, <1>2, SinceApart DEF IsReport, IsMerge
<1>10. {base, r1, r2, rev} \subseteq Ancestors(nodes, rev)
  <2>1. r1 \in Ancestors(nodes, r1) /\ r2 \in Ancestors(nodes, r2) /\ base \in C
      BY <1>9, AncestorsSelf
  <2>. QED
      BY <1>4, <1>5, <1>6, <2>1
<1>11. /\ Sound(OpsOf(nodes, C \cup S)) /\ Sound(OpsOf(nodes, C \cup T))
       /\ Sound(OpsOf(nodes, {rev} \cup C \cup S \cup T))
  <2>1. ASSUME NEW r \in DOMAIN nodes
        PROVE  Sound(OpsOf(nodes, Ancestors(nodes, r)))
      BY <1>1, HeadHistory
  <2>2. Sound(OpsOf(nodes, Ancestors(nodes, r1))) /\ Sound(OpsOf(nodes, Ancestors(nodes, r2)))
      BY <1>9, <2>1
  <2>3. Sound(OpsOf(nodes, Ancestors(nodes, rev)))
      BY <1>9, <2>1
  <2>. QED
      BY <1>4, <1>5, <1>6, <2>2, <2>3
<1>12. PICK y \in Created(OpsOf(nodes, C)) : y.id = id
  <2>1. DOMAIN SchemaAt(base) = Left(OpsOf(nodes, C))
      BY <1>1, <1>9, <1>10, SchemasBelow
  <2>. QED
      BY <1>7, <1>8, <2>1 DEF Left
<1>13. IsLine(nodes, S) /\ IsLine(nodes, T)
    BY <1>4, <1>5 DEF Continues, IsLine
<1>14. IsFiniteSet(DOMAIN report.answers)
    BY <1>2, <1>4, <1>5, ReportsFinite DEF Explains
<1>15. ASSUME NEW f \in Fields
       PROVE  /\ SideValue(opsA, id, f, s.base[id][f], s.a[id][f])
              /\ SideValue(opsB, id, f, s.base[id][f], s.b[id][f])
              /\ MergedValue(opsA, opsB, report.answers, id, f, s.base[id][f], s.merged[id][f])
  <2> DEFINE vc == s.base[id][f]
             va == s.a[id][f]
             vb == s.b[id][f]
             v == s.merged[id][f]
  <2>1. IsValue(nodes, C, id, f, vc)
      BY <1>1, <1>7, <1>8, <1>9, <1>10, SchemaValues
  <2>2a. IsValue(nodes, Ancestors(nodes, r1), id, f, va)
      BY <1>1, <1>8, <1>9, <1>10, SchemaValues
  <2>3a. IsValue(nodes, Ancestors(nodes, r2), id, f, vb)
      BY <1>1, <1>8, <1>9, <1>10, SchemaValues
  <2>4a. IsValue(nodes, Ancestors(nodes, rev), id, f, v)
      BY <1>1, <1>7, <1>8, <1>9, <1>10, SchemaValues
  <2>2. IsValue(nodes, C \cup S, id, f, va)
      BY <1>4, <2>2a
  <2>3. IsValue(nodes, C \cup T, id, f, vb)
      BY <1>5, <2>3a
  <2>4. IsValue(nodes, {rev} \cup C \cup S \cup T, id, f, v)
      BY <1>6, <2>4a
  <2> HIDE DEF vc, va, vb, v, C, S, T, r1, r2, s, ops
  <2>5. (NeverSet(nodes, S, id, f) /\ va = vc) \/ Says(nodes, S, id, f, va)
      BY <1>1, <1>4, <1>11, <1>12, <2>1, <2>2, ValueOnSide
  <2>6. (NeverSet(nodes, T, id, f) /\ vb = vc) \/ Says(nodes, T, id, f, vb)
      BY <1>1, <1>5, <1>11, <1>12, <2>1, <2>3, ValueOnSide
  <2>7. \/ \E o : LastOf(nodes[rev].ops, id, f, o) /\ v = o.value
        \/ /\ NoneOf(nodes[rev].ops, id, f)
           /\ \/ NeverSet(nodes, S, id, f) /\ NeverSet(nodes, T, id, f) /\ v = vc
              \/ Says(nodes, S, id, f, v)
              \/ Says(nodes, T, id, f, v)
      BY <1>1, <1>6, <1>11, <2>1, <2>4, ValueOfMerge
  <2>8. ASSUME NEW w
        PROVE  /\ Says(nodes, S, id, f, w) => \E o : LastOf(opsA, id, f, o) /\ w = o.value
               /\ NeverSet(nodes, S, id, f) => NoneOf(opsA, id, f)
      BY <1>1, <1>4, <1>13, SaysLast
  <2>9. ASSUME NEW w
        PROVE  /\ Says(nodes, T, id, f, w) => \E o : LastOf(opsB, id, f, o) /\ w = o.value
               /\ NeverSet(nodes, T, id, f) => NoneOf(opsB, id, f)
      BY <1>1, <1>5, <1>13, SaysLast
  <2>10. SideValue(opsA, id, f, vc, va)
      BY <2>5, <2>8 DEF SideValue
  <2>11. SideValue(opsB, id, f, vc, vb)
      BY <2>6, <2>9 DEF SideValue
  <2>12. ASSUME NEW o, LastOf(ops, id, f, o)
         PROVE  id \in DOMAIN report.answers /\ Answered(opsA, opsB, report.answers[id], id, f, o)
    <3>1. PICK k \in DOMAIN ops : IsLastSet(ops, Len(ops), id, f, k) /\ o = ops[k]
        BY <2>12 DEF LastOf
    <3>. QED
        BY <1>2, <1>4, <1>5, <1>14, <3>1, MergeOpsLast DEF ops
  <2>13. MergedValue(opsA, opsB, report.answers, id, f, vc, v)
    <3>1. CASE \E o : LastOf(nodes[rev].ops, id, f, o) /\ v = o.value
      <4>1. PICK o : LastOf(nodes[rev].ops, id, f, o) /\ v = o.value
          BY <3>1
      <4>2. id \in DOMAIN report.answers /\ Answered(opsA, opsB, report.answers[id], id, f, o)
          BY <1>2, <2>12, <4>1
      <4>. QED
          BY <4>1, <4>2 DEF MergedValue
    <3>2. CASE /\ NoneOf(nodes[rev].ops, id, f)
               /\ \/ NeverSet(nodes, S, id, f) /\ NeverSet(nodes, T, id, f) /\ v = vc
                  \/ Says(nodes, S, id, f, v)
                  \/ Says(nodes, T, id, f, v)
      <4>1. NoneOf(ops, id, f)
          BY <1>2, <3>2
      <4>2. \/ NoneOf(opsA, id, f) /\ NoneOf(opsB, id, f) /\ v = vc
            \/ \E o : LastOf(opsA, id, f, o) /\ v = o.value
            \/ \E o : LastOf(opsB, id, f, o) /\ v = o.value
          BY <2>8, <2>9, <3>2
      <4>. QED
          BY <4>1, <4>2 DEF MergedValue, ops
    <3>. QED
        BY <2>7, <3>1, <3>2
  <2>. QED
      BY <2>10, <2>11, <2>13 DEF vc, va, vb, v
<1>. QED
    BY <1>15 DEF FieldsFollow

\* Three values of a field: both sides changed it, and not to the same.
LEMMA ThreeValues ==
  ASSUME NEW x, NEW y, NEW z, Cardinality({x, y, z}) = 3
  PROVE  x # y /\ x # z /\ y # z
<1>1. ASSUME NEW u, NEW w
      PROVE  IsFiniteSet({u, w}) /\ Cardinality({u, w}) \in Nat /\ Cardinality({u, w}) <= 2
  <2>1. IsFiniteSet({u}) /\ Cardinality({u}) = 1
      BY FS_Singleton
  <2>2. /\ IsFiniteSet({u} \cup {w})
        /\ Cardinality({u} \cup {w}) = IF w \in {u} THEN Cardinality({u}) ELSE Cardinality({u}) + 1
      BY <2>1, FS_AddElement
  <2>3. {u} \cup {w} = {u, w}
      OBVIOUS
  <2>. QED
      BY <2>1, <2>2, <2>3
<1>2. ASSUME x = y
      PROVE  FALSE
  <2>1. {x, y, z} = {x, z}
      BY <1>2
  <2>2. PICK count : count = Cardinality({x, z})
      OBVIOUS
  <2>3. count \in Nat /\ count <= 2
      BY <1>1, <2>2, Zenon
  <2>4. count = 3
      BY <2>1, <2>2, Zenon
  <2>. QED
      BY <2>3, <2>4
<1>3. ASSUME x = z
      PROVE  FALSE
  <2>1. {x, y, z} = {x, y}
      BY <1>3
  <2>2. PICK count : count = Cardinality({x, y})
      OBVIOUS
  <2>3. count \in Nat /\ count <= 2
      BY <1>1, <2>2, Zenon
  <2>4. count = 3
      BY <2>1, <2>2, Zenon
  <2>. QED
      BY <2>3, <2>4
<1>4. ASSUME y = z
      PROVE  FALSE
  <2>1. {x, y, z} = {x, y}
      BY <1>4
  <2>2. PICK count : count = Cardinality({x, y})
      OBVIOUS
  <2>3. count \in Nat /\ count <= 2
      BY <1>1, <2>2, Zenon
  <2>4. count = 3
      BY <2>1, <2>2, Zenon
  <2>. QED
      BY <2>3, <2>4
<1>. QED
    BY <1>2, <1>3, <1>4

\* What the report and its lists are.
LEMMA ReportHas ==
  ASSUME MergeInv, Merged
  PROVE  \E opsA, opsB :
           /\ MadeOf(nodes, ancestors, report, opsA, opsB)
           /\ Listed(opsA) /\ Listed(opsB) /\ IsFiniteSet(DOMAIN report.answers)
           /\ DOMAIN report.answers = Asked(opsA, opsB)
           /\ \A id \in DOMAIN report.answers : report.answers[id] \in {"a", "b", "both"}
           /\ opsA = OperationsSince(nodes, ancestors, report.base, Side1(nodes, report))
           /\ opsB = OperationsSince(nodes, ancestors, report.base, Side2(nodes, report))
<1>1. PICK opsA, opsB : MadeOf(nodes, ancestors, report, opsA, opsB)
    BY DEF MergeInv, ReportedOps, Merged
<1>2. Listed(opsA) /\ Listed(opsB)
    BY <1>1 DEF MadeOf, Explains, IsMerge, OfSide
<1>3. DOMAIN report.answers = Asked(opsA, opsB)
    BY <1>1 DEF MadeOf, Explains
<1>4. IsFiniteSet(DOMAIN report.answers)
    BY <1>2, <1>3, ReportsFinite
<1>5. /\ \A id \in DOMAIN report.answers : report.answers[id] \in {"a", "b", "both"}
      /\ opsA = OperationsSince(nodes, ancestors, report.base, Side1(nodes, report))
      /\ opsB = OperationsSince(nodes, ancestors, report.base, Side2(nodes, report))
    BY <1>1 DEF MadeOf
<1>. QED
    BY <1>1, <1>2, <1>3, <1>4, <1>5

\* The answers at the first merge.
LEMMA AnswersAtFirst == MergeInv /\ FirstMerge => AnswersRespected
<1> SUFFICES ASSUME MergeInv, FirstMerge, Merged,
                    NEW id \in DOMAIN report.answers, id \in DOMAIN Schemas.a, id \in DOMAIN Schemas.b,
                    NEW f \in Fields,
                    Cardinality({Schemas.base[id][f], Schemas.a[id][f], Schemas.b[id][f]}) = 3
             PROVE  Schemas.merged[id][f]
                      = IF report.answers[id] = "a" THEN Schemas.a[id][f] ELSE Schemas.b[id][f]
    BY DEF AnswersRespected
<1> DEFINE vc == Schemas.base[id][f]
           va == Schemas.a[id][f]
           vb == Schemas.b[id][f]
           v == Schemas.merged[id][f]
<1>1. PICK opsA, opsB :
           /\ MadeOf(nodes, ancestors, report, opsA, opsB)
           /\ Listed(opsA) /\ Listed(opsB) /\ IsFiniteSet(DOMAIN report.answers)
           /\ \A x \in DOMAIN report.answers : report.answers[x] \in {"a", "b", "both"}
    BY ReportHas
<1>2. FieldsFollow(Schemas, opsA, opsB, report.answers, id)
    BY <1>1, SharedFields
<1>3. /\ SideValue(opsA, id, f, vc, va) /\ SideValue(opsB, id, f, vc, vb)
      /\ MergedValue(opsA, opsB, report.answers, id, f, vc, v)
    BY <1>2 DEF FieldsFollow
<1>4. va # vc /\ vb # vc
    BY ThreeValues
<1> HIDE DEF va, vb, vc, v
<1>5. v = IF report.answers[id] = "a" THEN va ELSE vb
    BY <1>1, <1>3, <1>4, AnswerDecides
<1>. QED
    BY <1>5 DEF v, va, vb

\* No side of the merge does anything else to an index that it renames.
IndexesRenamedOnce ==
  /\ RenamesIndexOnce(OperationsSince(nodes, ancestors, report.base, Side1(nodes, report)))
  /\ RenamesIndexOnce(OperationsSince(nodes, ancestors, report.base, Side2(nodes, report)))

\* A field of an object that both sides have, at the first merge.
LEMMA FieldAtFirst ==
  ASSUME MergeInv, FirstMerge, IndexesRenamedOnce, Merged,
         NEW id \in DOMAIN Schemas.a, id \in DOMAIN Schemas.b, NEW f \in Fields
  PROVE  LET vc == Schemas.base[id][f]
             va == Schemas.a[id][f]
             vb == Schemas.b[id][f]
             v == Schemas.merged[id][f]
         IN  /\ id \in DOMAIN Schemas.base /\ id \in DOMAIN Schemas.merged
             /\ id \in DOMAIN report.answers => v \in {va, vb}
             /\ id \notin DOMAIN report.answers =>
                  v = ThreeWay(vc, va, vb) /\ (va = vc \/ vb = vc \/ va = vb)
<1> DEFINE vc == Schemas.base[id][f]
           va == Schemas.a[id][f]
           vb == Schemas.b[id][f]
           v == Schemas.merged[id][f]
<1>1. PICK opsA, opsB :
           /\ MadeOf(nodes, ancestors, report, opsA, opsB)
           /\ Listed(opsA) /\ Listed(opsB) /\ DOMAIN report.answers = Asked(opsA, opsB)
           /\ opsA = OperationsSince(nodes, ancestors, report.base, Side1(nodes, report))
           /\ opsB = OperationsSince(nodes, ancestors, report.base, Side2(nodes, report))
    BY ReportHas
<1>2. FieldsFollow(Schemas, opsA, opsB, report.answers, id)
    BY <1>1, SharedFields
<1>3. /\ SideValue(opsA, id, f, vc, va) /\ SideValue(opsB, id, f, vc, vb)
      /\ MergedValue(opsA, opsB, report.answers, id, f, vc, v)
    BY <1>2 DEF FieldsFollow
<1>4. /\ id \in DOMAIN Schemas.base /\ id \in DOMAIN Schemas.merged
      /\ OnlySet(opsA, id) /\ OnlySet(opsB, id)
      /\ \E before : /\ Sound(before)
                     /\ ElementsOf(opsA) \subseteq before /\ ElementsOf(opsB) \subseteq before
    BY <1>1, SharedObjects
<1>5. PICK before : /\ Sound(before)
                    /\ ElementsOf(opsA) \subseteq before /\ ElementsOf(opsB) \subseteq before
    BY <1>4
<1>6. RenamesIndexOnce(opsA) /\ RenamesIndexOnce(opsB)
    BY <1>1 DEF IndexesRenamedOnce
<1>7. \A o \in ElementsOf(opsA) \cup ElementsOf(opsB) : o.id = id => o.type \in DOMAIN SetField
    BY <1>4 DEF OnlySet
<1> HIDE DEF va, vb, vc, v
<1>8. id \in DOMAIN report.answers => v \in {va, vb}
    BY <1>1, <1>3, AskedIsASide
<1>9. ASSUME id \notin DOMAIN report.answers
      PROVE  v = ThreeWay(vc, va, vb) /\ (va = vc \/ vb = vc \/ va = vb)
  <2>1. id \notin Asked(opsA, opsB)
      BY <1>1, <1>9
  <2>2. \A x, y : LastOf(opsA, id, f, x) /\ LastOf(opsB, id, f, y) => x.value = y.value
      BY <1>1, <1>5, <1>6, <1>7, <2>1, UnaskedAgree
  <2>. QED
      BY <1>1, <1>3, <1>9, <2>2, UnaskedIsThreeWay
<1>. QED
    BY <1>4, <1>8, <1>9 DEF va, vb, vc, v

LEMMA ThreeWayAtFirst == MergeInv /\ FirstMerge /\ IndexesRenamedOnce => FieldsThreeWay
<1> SUFFICES ASSUME MergeInv, FirstMerge, IndexesRenamedOnce, Merged,
                    NEW id \in DOMAIN Schemas.base, id \in DOMAIN Schemas.a, id \in DOMAIN Schemas.b
             PROVE  /\ id \in DOMAIN Schemas.merged
                    /\ \A f \in Fields :
                         IF id \in DOMAIN report.answers
                         THEN Schemas.merged[id][f] \in {Schemas.a[id][f], Schemas.b[id][f]}
                         ELSE Schemas.merged[id][f]
                                = ThreeWay(Schemas.base[id][f], Schemas.a[id][f], Schemas.b[id][f])
    BY DEF FieldsThreeWay
<1>1. "name" \in Fields
    BY DEF Fields
<1>2. \A f \in Fields :
        /\ id \in DOMAIN Schemas.merged
        /\ id \in DOMAIN report.answers =>
             Schemas.merged[id][f] \in {Schemas.a[id][f], Schemas.b[id][f]}
        /\ id \notin DOMAIN report.answers =>
             Schemas.merged[id][f] = ThreeWay(Schemas.base[id][f], Schemas.a[id][f], Schemas.b[id][f])
    BY FieldAtFirst
<1>. QED
    BY <1>1, <1>2

\* decisions-lite.md:43 "Two branches touching the same thing differently =
\* conflict, needs a human", of the fields of an object that both sides have.
FieldsAsked ==
  Merged => LET s == Schemas IN
    \A id \in DOMAIN s.a \cap DOMAIN s.b, f \in Fields :
      Cardinality({s.base[id][f], s.a[id][f], s.b[id][f]}) = 3 => id \in DOMAIN report.answers

LEMMA AskedAtFirst == MergeInv /\ FirstMerge /\ IndexesRenamedOnce => FieldsAsked
<1> SUFFICES ASSUME MergeInv, FirstMerge, IndexesRenamedOnce, Merged,
                    NEW id \in DOMAIN Schemas.a, id \in DOMAIN Schemas.b, NEW f \in Fields,
                    Cardinality({Schemas.base[id][f], Schemas.a[id][f], Schemas.b[id][f]}) = 3
             PROVE  id \in DOMAIN report.answers
    BY DEF FieldsAsked
<1> DEFINE vc == Schemas.base[id][f]
           va == Schemas.a[id][f]
           vb == Schemas.b[id][f]
<1>1. id \notin DOMAIN report.answers => va = vc \/ vb = vc \/ va = vb
    BY FieldAtFirst
<1>2. vc # va /\ vc # vb /\ va # vb
    BY ThreeValues
<1>. QED
    BY <1>1, <1>2

\* A side without merges that has made something else of an object than it was at
\* the base has set a field of it.
LEMMA SideChanges ==
  ASSUME MergeInv, NEW rev \in DOMAIN nodes, \A s \in schemas[rev] : ~s.broken,
         NEW base \in Ancestors(nodes, rev), NEW r \in Ancestors(nodes, rev), Unmerged(nodes, r),
         NEW q, NEW ops, NEW others, IsMerge(nodes, base, r, q, ops, others),
         ops = OperationsSince(nodes, ancestors, base, r),
         NEW id \in DOMAIN SchemaAt(base), id \in DOMAIN SchemaAt(r),
         SchemaAt(r)[id] # SchemaAt(base)[id]
  PROVE  \E o \in ElementsOf(ops) : o.id = id /\ o.type \in DOMAIN SetField
<1> DEFINE C == Ancestors(nodes, base)
           S == Since(nodes, base, r)
           old == SchemaAt(base)[id]
           new == SchemaAt(r)[id]
<1>1. StoreInv /\ IsStore(nodes, ancestors) /\ Formed(nodes) /\ r \in DOMAIN nodes /\ base \in DOMAIN nodes
    BY DEF MergeInv, MInv, StoreInv, IsSound, Ancestors
<1>2. /\ Ancestors(nodes, r) = C \cup S /\ Continues(nodes, C, S)
      /\ Listed(ops) /\ ElementsOf(ops) = OpsOf(nodes, S) /\ LastsAreLatest(nodes, S, ops)
    BY <1>1, SideContinues
<1>3. IsFunction(old) /\ DOMAIN old = AllFields
    BY <1>1, SchemaObject
<1>4. IsFunction(new) /\ DOMAIN new = AllFields
    BY <1>1, SchemaObject
<1>5. PICK f \in AllFields : new[f] # old[f]
  <2>1. ASSUME \A f \in AllFields : new[f] = old[f]
        PROVE  new = old
    <3> HIDE DEF new, old
    <3>1. new = [f \in AllFields |-> new[f]] /\ old = [f \in AllFields |-> old[f]]
        BY <1>3, <1>4 DEF IsFunction
    <3>. QED
        BY <2>1, <3>1
  <2>. QED
      BY <2>1
<1>6. IsValue(nodes, C, id, f, old[f])
    BY <1>1, SchemaObject
<1>7. IsValue(nodes, Ancestors(nodes, r), id, f, new[f])
    BY <1>1, SchemaObject
<1>8. Sound(OpsOf(nodes, C \cup S))
  <2>1. Sound(OpsOf(nodes, Ancestors(nodes, r)))
      BY <1>1, HeadHistory
  <2>. QED
      BY <1>2, <2>1
<1>9. PICK y \in Created(OpsOf(nodes, C)) : y.id = id
  <2>1. DOMAIN SchemaAt(base) = Left(OpsOf(nodes, C))
      BY <1>1, SchemasBelow
  <2>. QED
      BY <2>1 DEF Left
<1>10. IsLine(nodes, S)
    BY <1>2 DEF Continues, IsLine
<1>11. IsValue(nodes, C \cup S, id, f, new[f])
    BY <1>2, <1>7
<1>12. PICK v, w : v = new[f] /\ w = old[f]
    OBVIOUS
<1> HIDE DEF C, S, old, new
<1>13. Says(nodes, S, id, f, v)
    BY <1>1, <1>2, <1>5, <1>6, <1>8, <1>9, <1>11, <1>12, ValueOnSide
<1>14. PICK o : LastOf(ops, id, f, o)
    BY <1>1, <1>2, <1>10, <1>13, SaysLast
<1>15. PICK i \in DOMAIN ops : SetsField(ops[i], id, f)
    BY <1>14 DEF LastOf, IsLastSet
<1>. QED
    BY <1>15 DEF SetsField, ElementsOf

\* A drop by one operation against a change by one is asked about.
LEMMA DropOfChangeAsked ==
  ASSUME NEW opsA, Listed(opsA), NEW opsB, Listed(opsB), NEW id,
         Len(OpsOn(opsA, id)) = 1, Len(OpsOn(opsB, id)) = 1,
         {OpsOn(opsA, id)[1].type, OpsOn(opsB, id)[1].type} \cap Destructive # {},
         NEW x \in ElementsOf(opsA) \cup ElementsOf(opsB), x.id = id, x.type \in DOMAIN SetField
  PROVE  id \in Asked(opsA, opsB)
<1> DEFINE a == OpsOn(opsA, id)
           b == OpsOn(opsB, id)
<1>1. /\ Listed(a) /\ ElementsOf(a) = {o \in ElementsOf(opsA) : o.id = id}
      /\ Listed(b) /\ ElementsOf(b) = {o \in ElementsOf(opsB) : o.id = id}
    BY OpsOnListed
<1>2. /\ Len(a) = 1 /\ DOMAIN a = 1 .. Len(a)
      /\ Len(b) = 1 /\ DOMAIN b = 1 .. Len(b)
    BY <1>1, ListedPlaces
<1>3. x = a[1] \/ x = b[1]
  <2>1. x \in ElementsOf(a) \cup ElementsOf(b)
      BY <1>1
  <2>2. 1 .. Len(a) = {1} /\ 1 .. Len(b) = {1}
      BY <1>2
  <2> HIDE DEF a, b
  <2>. QED
      BY <1>2, <2>1, <2>2 DEF ElementsOf
<1>4. a[1] \in ElementsOf(opsA) /\ a[1].id = id /\ b[1] \in ElementsOf(opsB) /\ b[1].id = id
  <2>1. 1 \in DOMAIN a /\ 1 \in DOMAIN b
      BY <1>2
  <2>. QED
      BY <1>1, <2>1 DEF ElementsOf
<1>5. {a[1].type, b[1].type} \cap Destructive # {}
    OBVIOUS
<1> HIDE DEF a, b
<1>6. a # <<>> /\ b # <<>>
  <2>1. Len(<<>>) = 0 /\ 0 # 1
      OBVIOUS
  <2>. QED
      BY <1>2, <2>1, Zenon
<1>7. Classify(a, b) = ClassifyPair(a[1], b[1])
    BY <1>2, <1>6 DEF Classify
<1>8. \A v \in DOMAIN SetField : v \notin Destructive
    BY DEF SetField, MutationField, Destructive
<1>9. a[1].type # b[1].type /\ a[1] # b[1] /\ ~({a[1].type, b[1].type} \subseteq Destructive)
    BY <1>3, <1>5, <1>8
<1>10. ClassifyPair(a[1], b[1]) = "single_valued_conflict"
    BY <1>5, <1>9 DEF ClassifyPair
<1>11. Answers("single_valued_conflict") # {}
    BY DEF Answers
<1>12. AnswersFor(opsA, opsB, id) # {}
    BY <1>7, <1>10, <1>11 DEF AnswersFor, a, b
<1>. QED
    BY <1>4, <1>12 DEF Asked, Touched

LEMMA ContradictionsAtFirst ==
  MergeInv /\ FirstMerge /\ IndexesRenamedOnce => ContradictionsAsked
<1> SUFFICES ASSUME MergeInv, FirstMerge, IndexesRenamedOnce, Merged, NEW id \in DOMAIN Schemas.base,
                    FieldsContradict(Schemas, id) \/ (DroppedAndChanged(Schemas, id) /\ OneDropsIt(id))
             PROVE  id \in DOMAIN report.answers
    BY DEF ContradictionsAsked
<1> DEFINE r1 == Side1(nodes, report)
           r2 == Side2(nodes, report)
           rev == report.rev
           base == report.base
<1>1. PICK opsA, opsB :
           /\ MadeOf(nodes, ancestors, report, opsA, opsB)
           /\ Listed(opsA) /\ Listed(opsB) /\ DOMAIN report.answers = Asked(opsA, opsB)
           /\ opsA = OperationsSince(nodes, ancestors, base, r1)
           /\ opsB = OperationsSince(nodes, ancestors, base, r2)
    BY ReportHas
<1>2. /\ IsMerge(nodes, base, r1, r2, opsA, opsB) /\ IsReport(nodes, report)
      /\ \A s \in schemas[rev] : ~s.broken
      /\ IsStore(nodes, ancestors)
    BY <1>1 DEF MadeOf, Explains, MergeInv, MInv, StoreInv, IsSound, Merged
<1>3. IsMerge(nodes, base, r2, r1, opsB, opsA)
    BY <1>2, MergeTurned
<1>4. /\ rev \in DOMAIN nodes /\ r1 \in Ancestors(nodes, rev) /\ r2 \in Ancestors(nodes, rev)
      /\ base \in Ancestors(nodes, rev)
  <2>1. /\ rev \in DOMAIN nodes /\ r1 \in DOMAIN nodes /\ r2 \in DOMAIN nodes
        /\ base \in Ancestors(nodes, r1)
      BY <1>2, SinceApart DEF IsReport, IsMerge
  <2>2. r1 \in Ancestors(nodes, r1) /\ r2 \in Ancestors(nodes, r2)
      BY <2>1, AncestorsSelf
  <2>. QED
      BY <1>2, <2>1, <2>2 DEF IsReport
<1>5. /\ Schemas.base = SchemaAt(base) /\ Schemas.a = SchemaAt(r1) /\ Schemas.b = SchemaAt(r2)
    BY DEF Schemas, Side1, Side2
<1>6. Unmerged(nodes, r1) /\ Unmerged(nodes, r2)
    BY DEF FirstMerge
<1>7. OneDropsIt(id) =>
        /\ Len(OpsOn(opsA, id)) = 1 /\ Len(OpsOn(opsB, id)) = 1
        /\ {OpsOn(opsA, id)[1].type, OpsOn(opsB, id)[1].type} \cap Destructive # {}
    BY <1>1 DEF OneDropsIt, Side1, Side2
<1>8. \/ FieldsContradict(Schemas, id)
      \/ /\ OneDropsIt(id) /\ id \in DOMAIN Schemas.a /\ id \notin DOMAIN Schemas.b
         /\ Schemas.a[id] # Schemas.base[id]
      \/ /\ OneDropsIt(id) /\ id \in DOMAIN Schemas.b /\ id \notin DOMAIN Schemas.a
         /\ Schemas.b[id] # Schemas.base[id]
    BY DEF DroppedAndChanged
<1> HIDE DEF r1, r2, rev, base
<1>9. CASE FieldsContradict(Schemas, id)
  <2>1. FieldsAsked
      BY AskedAtFirst
  <2>. QED
      BY <1>9, <2>1 DEF FieldsAsked, FieldsContradict
<1>10. CASE OneDropsIt(id) /\ id \in DOMAIN Schemas.a /\ id \notin DOMAIN Schemas.b /\ Schemas.a[id] # Schemas.base[id]
  <2>1. PICK x \in ElementsOf(opsA) : x.id = id /\ x.type \in DOMAIN SetField
      BY <1>1, <1>2, <1>4, <1>5, <1>6, <1>10, SideChanges
  <2>. QED
      BY <1>1, <1>7, <1>10, <2>1, DropOfChangeAsked
<1>11. CASE OneDropsIt(id) /\ id \in DOMAIN Schemas.b /\ id \notin DOMAIN Schemas.a /\ Schemas.b[id] # Schemas.base[id]
  <2>1. PICK y \in ElementsOf(opsB) : y.id = id /\ y.type \in DOMAIN SetField
      BY <1>1, <1>3, <1>2, <1>4, <1>5, <1>6, <1>11, SideChanges
  <2>. QED
      BY <1>1, <1>7, <1>11, <2>1, DropOfChangeAsked
<1>. QED
    BY <1>8, <1>9, <1>10, <1>11

\* merge_cmd.py: at the first merge of a repository the answer that was given
\* about an object decides every field of it that the two sides contradict each
\* other on, whatever each side did to it since the base and whatever order
\* replay() visits the two sides in.
THEOREM FirstMergeRespectsAnswers == Spec => [](FirstMerge => AnswersRespected)
<1>. QED
    BY AnswersAtFirst, MergesAreReported, PTL

\* In particular where a repository has one merge.
THEOREM OneMergeRespectsAnswers ==
  ASSUME MaxMerges <= 1
  PROVE  Spec => []AnswersRespected
<1>1. MergeInv => AnswersRespected
  <2>1. ASSUME MergeInv, report.rev # 0
        PROVE  FirstMerge
      BY <2>1, OneMergeIsFirst DEF MergeInv
  <2>2. report.rev = 0 => AnswersRespected
      BY DEF AnswersRespected, Merged
  <2>. QED
      BY <2>1, <2>2, AnswersAtFirst
<1>. QED
    BY <1>1, MergesAreReported, PTL

\* classify.py: every object that both sides still have gets, field by field,
\* what one side changed it to where the other did not, and one side's value
\* where a human was asked about it.
THEOREM FirstMergeIsThreeWay == Spec => [](FirstMerge /\ IndexesRenamedOnce => FieldsThreeWay)
<1>. QED
    BY ThreeWayAtFirst, MergesAreReported, PTL

\* The same, that nobody's change of a field is lost without a question.
THEOREM FirstMergeAsksAboutFields == Spec => [](FirstMerge /\ IndexesRenamedOnce => FieldsAsked)
<1>. QED
    BY AskedAtFirst, MergesAreReported, PTL

\* ContradictionsAsked at the first merge: nor is an object that one side changed
\* dropped by the other without a question, if a drop and a change is all that the
\* two did to it.  The classifier does not ask if there was more, nor if it was
\* dropped with its table.
THEOREM FirstMergeAsksAboutContradictions ==
  Spec => [](FirstMerge /\ IndexesRenamedOnce => ContradictionsAsked)
<1>. QED
    BY ContradictionsAtFirst, MergesAreReported, PTL

----------------------------------------------------------------------------
(* The first merge of a repository has one schema.                           *)

\* While there is a report, the branches are at the merge node and at its second
\* parent.
ReportedHeads ==
  report.rev # 0 => \A b \in Side : heads[b] \in {report.rev, Side2(nodes, report)}

LEMMA HeadsNext == MInv /\ ReportedHeads /\ [Next]_vars => ReportedHeads'
<1> SUFFICES ASSUME MInv, ReportedHeads, [Next]_vars
             PROVE  ReportedHeads'
    OBVIOUS
<1>1. ASSUME NEW b \in Side, Migrate(b)
      PROVE  ReportedHeads'
    BY <1>1 DEF Migrate, ReportedHeads, NoReport
<1>2. ASSUME NEW t \in Side, NEW s \in Side, Merge(t, s)
      PROVE  ReportedHeads'
  <2>1. CASE FastForward(t, s)
      BY <2>1 DEF FastForward, ReportedHeads, NoReport
  <2>2. ASSUME NEW base, TrueMerge(t, s, base)
        PROVE  ReportedHeads'
    <3>1. PICK ops : AppendNode(t, <<heads[t], heads[s]>>, ops) /\ report'.rev = Len(nodes) + 1
        BY <2>2 DEF TrueMerge
    <3>2. /\ heads' = [heads EXCEPT ![t] = Len(nodes) + 1]
          /\ nodes' = Append(nodes, Node(<<heads[t], heads[s]>>, t, ops))
          /\ report'.rev = Len(nodes) + 1
        BY <3>1 DEF AppendNode
    <3>3. Len(nodes) \in Nat /\ nodes'[Len(nodes) + 1] = Node(<<heads[t], heads[s]>>, t, ops)
      <4>1. IsStore(nodes, ancestors)
          BY DEF MInv, StoreInv, IsSound
      <4>2. Listed(nodes)
          BY <4>1 DEF IsStore
      <4>. QED
          BY <3>2, <4>2 DEF Listed
    <3>4. Side2(nodes', report') = heads[s]
        BY <3>2, <3>3 DEF Side2, Node
    <3>5. heads \in [Side -> DOMAIN nodes] /\ t # s
        BY <1>2 DEF Merge, MInv, StoreInv
    <3>6. heads'[t] = report'.rev /\ heads'[s] = heads[s]
        BY <3>2, <3>5
    <3>7. \A b \in Side : b \in {t, s}
        BY <3>5 DEF Side
    <3>. QED
        BY <3>4, <3>6, <3>7 DEF ReportedHeads
  <2>. QED
      BY <1>2, <2>1, <2>2 DEF Merge
<1>3. CASE UNCHANGED vars
    BY <1>3 DEF vars, ReportedHeads
<1>. QED
    BY <1>1, <1>2, <1>3 DEF Next

\* Where two histories of a side each say something of a field of an object that
\* the merge has left, all that the sides did to it was to set its fields.
LEMMA BothSidesSet ==
  ASSUME NEW a, NEW b, NEW c, NEW m, NEW opsA, NEW opsB, NEW told,
         Meets(a, b, c, m, opsA, opsB, told), Meets(b, a, c, m, opsB, opsA, told),
         NEW id, id \notin GoneBy(a \cup b \cup m),
         NEW x \in ElementsOf(opsA), x.id = id, x.type \notin Creating,
         NEW y \in ElementsOf(opsB), y.id = id, y.type \notin Creating
  PROVE  OnlySet(opsA, id) /\ OnlySet(opsB, id)
<1> DEFINE all == a \cup b \cup m
<1>1. /\ Sound(all) /\ a = c \cup ElementsOf(opsA) /\ b = c \cup ElementsOf(opsB)
      /\ \A u \in ElementsOf(opsA), w \in b : u.type \in Creating => u.id # w.id
      /\ \A u \in ElementsOf(opsB), w \in a : u.type \in Creating => u.id # w.id
    BY DEF Meets
<1>2. /\ \A o \in ElementsOf(opsA) \cup ElementsOf(opsB) : o \in all
      /\ x \in a /\ y \in b
    BY <1>1
<1> HIDE DEF all
<1>3. ASSUME NEW o \in ElementsOf(opsA) \cup ElementsOf(opsB), o.id = id
      PROVE  o.type \in DOMAIN SetField
  <2>1. Fits(all, o) /\ o \in all
      BY <1>1, <1>2 DEF Sound
  <2>2. o.type \in Destructive \cup Creating \cup DOMAIN SetField
      BY <2>1 DEF Fits, Variants
  <2>3. o.type \notin Destructive
      BY <1>3, <2>1 DEF GoneBy, all
  <2>4. o.type \notin Creating
      BY <1>1, <1>2, <1>3
  <2>. QED
      BY <2>2, <2>3, <2>4
<1>. QED
    BY <1>3 DEF OnlySet

\* Of a history that was merged for the first time, a field of an object that it has
\* left has one value.
LEMMA FirstMergeSaysOnce ==
  ASSUME MergeInv, FirstMerge, IndexesRenamedOnce, Merged,
         NEW id \in Left(OpsOf(nodes, Ancestors(nodes, report.rev))), NEW f,
         NEW v, IsValue(nodes, Ancestors(nodes, report.rev), id, f, v),
         NEW w, IsValue(nodes, Ancestors(nodes, report.rev), id, f, w)
  PROVE  v = w
<1> DEFINE r1 == Side1(nodes, report)
           r2 == Side2(nodes, report)
           base == report.base
           rev == report.rev
           C == Ancestors(nodes, base)
           S == Since(nodes, base, r1)
           T == Since(nodes, base, r2)
           H == {rev} \cup C \cup S \cup T
<1>1. /\ MInv /\ StoreInv /\ IsSound(nodes, ancestors) /\ IsStore(nodes, ancestors)
      /\ IsReport(nodes, report)
    BY DEF MergeInv, MInv, StoreInv, IsSound, Merged
<1>2. PICK opsA, opsB :
           /\ MadeOf(nodes, ancestors, report, opsA, opsB)
           /\ Listed(opsA) /\ Listed(opsB) /\ IsFiniteSet(DOMAIN report.answers)
           /\ DOMAIN report.answers = Asked(opsA, opsB)
           /\ \A i \in DOMAIN report.answers : report.answers[i] \in {"a", "b", "both"}
           /\ opsA = OperationsSince(nodes, ancestors, base, r1)
           /\ opsB = OperationsSince(nodes, ancestors, base, r2)
    BY ReportHas
<1>3. /\ Explains(nodes, report, opsA, opsB) /\ IsMerge(nodes, base, r1, r2, opsA, opsB)
      /\ nodes[rev].ops = MergeOps(opsA, opsB, report.answers)
    BY <1>2 DEF MadeOf, Explains
<1>4. IsMerge(nodes, base, r2, r1, opsB, opsA)
    BY <1>3, MergeTurned
<1>5. /\ Straight(nodes, base, r1) /\ ElementsOf(opsA) = OpsOf(nodes, S) /\ LastsAreLatest(nodes, S, opsA)
    BY <1>1, <1>2, <1>3, SideContinues DEF FirstMerge
<1>6. /\ Straight(nodes, base, r2) /\ ElementsOf(opsB) = OpsOf(nodes, T) /\ LastsAreLatest(nodes, T, opsB)
    BY <1>1, <1>2, <1>4, SideContinues DEF FirstMerge
<1>7. Ancestors(nodes, rev) = H /\ Joins(nodes, C, S, T, rev)
    BY <1>1, <1>2, FirstMergeJoins DEF FirstMerge
<1> DEFINE a == OpsOf(nodes, Ancestors(nodes, r1))
           b == OpsOf(nodes, Ancestors(nodes, r2))
           c == OpsOf(nodes, C)
           m == ElementsOf(nodes[rev].ops)
           told == ToldOf(opsA, opsB)
<1>8. /\ a \cup b \cup m = OpsOf(nodes, Ancestors(nodes, rev))
      /\ Meets(a, b, c, m, opsA, opsB, told) /\ Meets(b, a, c, m, opsB, opsA, told)
  <2>1. report.acknowledged \subseteq told /\ \A k \in report.collisions : k.dropped \in told
      BY <1>3 DEF Explains, ToldOf
  <2> HIDE DEF told
  <2>. QED
      BY <1>1, <1>3, <1>5, <1>6, <2>1, MergeMeets
<1>9. /\ id \notin GoneBy(a \cup b \cup m) /\ Sound(a \cup b \cup m)
      /\ ElementsOf(opsA) \subseteq a \cup b \cup m /\ ElementsOf(opsB) \subseteq a \cup b \cup m
    BY <1>8 DEF Left, Gone, Meets
<1>10. IsLine(nodes, C) /\ IsLine(nodes, S) /\ IsLine(nodes, T)
    BY <1>7 DEF Joins, Continues, IsLine
<1>11. RenamesIndexOnce(opsA) /\ RenamesIndexOnce(opsB)
    BY <1>2 DEF IndexesRenamedOnce
<1>12. IsValue(nodes, H, id, f, v) /\ IsValue(nodes, H, id, f, w) /\ Sound(OpsOf(nodes, H))
    BY <1>7, <1>8, <1>9
<1> HIDE DEF r1, r2, base, rev, C, S, T, H, a, b, c, m, told
<1>13. CASE NeverSet(nodes, H, id, f)
  <2>1. ~Says(nodes, H, id, f, v) /\ ~Says(nodes, H, id, f, w)
      BY <1>13 DEF Says, NeverSet, IsLatest
  <2>2. PICK x \in Created(OpsOf(nodes, H)) : x.id = id /\ v = x.object[f]
      BY <1>12, <2>1 DEF IsValue, Says
  <2>3. PICK y \in Created(OpsOf(nodes, H)) : y.id = id /\ w = y.object[f]
      BY <1>12, <2>1 DEF IsValue, Says
  <2>. QED
      BY <1>12, <2>2, <2>3, SameCreation
<1>14. CASE ~NeverSet(nodes, H, id, f)
  <2> DEFINE ops == nodes[rev].ops
             Of(u) == \/ \E o : LastOf(ops, id, f, o) /\ u = o.value
                      \/ /\ NoneOf(ops, id, f)
                         /\ \/ NeverSet(nodes, S, id, f) /\ NeverSet(nodes, T, id, f) /\ Says(nodes, C, id, f, u)
                            \/ Says(nodes, S, id, f, u)
                            \/ Says(nodes, T, id, f, u)
  <2>1. Says(nodes, H, id, f, v) /\ Says(nodes, H, id, f, w)
      BY <1>12, <1>14 DEF IsValue, Says
  <2>2. Of(v) /\ Of(w)
      BY <1>1, <1>7, <2>1, LatestInMerge DEF H
  <2>3. Listed(ops)
      BY <1>1, <1>7 DEF Joins, IsStore
  <2>4. \A o : LastOf(ops, id, f, o) => ~NoneOf(ops, id, f) /\ \A p : LastOf(ops, id, f, p) => p = o
      BY <2>3, LastIsOne
  <2>5. \A u :
          /\ Says(nodes, S, id, f, u) => ~NeverSet(nodes, S, id, f)
          /\ Says(nodes, T, id, f, u) => ~NeverSet(nodes, T, id, f)
      BY DEF Says, NeverSet, IsLatest
  <2>6. ASSUME NEW u, NEW z, Says(nodes, S, id, f, u), Says(nodes, T, id, f, z), NoneOf(ops, id, f)
        PROVE  u = z
    <3>1. PICK x : LastOf(opsA, id, f, x) /\ u = x.value
        BY <1>1, <1>2, <1>5, <1>10, <2>6, SaysLast
    <3>2. PICK y : LastOf(opsB, id, f, y) /\ z = y.value
        BY <1>1, <1>2, <1>6, <1>10, <2>6, SaysLast
    <3>3. id \notin DOMAIN report.answers
        BY <1>2, <1>3, <2>6, <3>1, <3>2, AskedIsRepeated
    <3>4. /\ x \in ElementsOf(opsA) /\ x.id = id /\ x.type \in DOMAIN SetField
          /\ y \in ElementsOf(opsB) /\ y.id = id /\ y.type \in DOMAIN SetField
        BY <3>1, <3>2 DEF LastOf, IsLastSet, SetsField, ElementsOf
    <3>5. x.type \notin Creating /\ y.type \notin Creating
        BY <3>4 DEF SetField, MutationField, Creating
    <3>6. OnlySet(opsA, id) /\ OnlySet(opsB, id)
        BY <1>8, <1>9, <3>4, <3>5, BothSidesSet
    <3>7. \A o \in ElementsOf(opsA) \cup ElementsOf(opsB) : o.id = id => o.type \in DOMAIN SetField
        BY <3>6 DEF OnlySet
    <3>8. id \notin Asked(opsA, opsB)
        BY <1>2, <3>3
    <3>9. x.value = y.value
        BY <1>2, <1>9, <1>11, <3>1, <3>2, <3>7, <3>8, UnaskedAgree
    <3>. QED
        BY <3>1, <3>2, <3>9
  <2>7. \A u, z :
          /\ Says(nodes, C, id, f, u) /\ Says(nodes, C, id, f, z) => u = z
          /\ Says(nodes, S, id, f, u) /\ Says(nodes, S, id, f, z) => u = z
          /\ Says(nodes, T, id, f, u) /\ Says(nodes, T, id, f, z) => u = z
      BY <1>1, <1>10, SaysOnce
  <2> HIDE DEF ops
  <2>8. CASE NoneOf(ops, id, f)
      BY <2>2, <2>4, <2>5, <2>6, <2>7, <2>8
  <2>9. CASE ~NoneOf(ops, id, f)
    <3>1. PICK o : LastOf(ops, id, f, o) /\ v = o.value
        BY <2>2, <2>9
    <3>2. PICK p : LastOf(ops, id, f, p) /\ w = p.value
        BY <2>2, <2>9
    <3>. QED
        BY <2>4, <3>1, <3>2
  <2>. QED
      BY <2>8, <2>9
<1>. QED
    BY <1>13, <1>14

\* So all its replays are one.
LEMMA FirstMergeHasOne ==
  ASSUME MergeInv, FirstMerge, IndexesRenamedOnce, Merged
  PROVE  \E s : schemas[report.rev] = {s}
<1> DEFINE rev == report.rev
           H == ancestors[rev]
           ops == OpsOf(nodes, H)
<1>1. /\ StoreInv /\ IsSound(nodes, ancestors) /\ Formed(nodes) /\ rev \in DOMAIN nodes
      /\ \A s \in schemas[rev] : ~s.broken
    BY DEF MergeInv, MInv, StoreInv, IsReport, Merged
<1>2. /\ H = Ancestors(nodes, rev) /\ rev \in Ancestors(nodes, rev)
      /\ \A s \in schemas[rev] : Explained(ops, s)
    BY <1>1, HeadHistory
<1>3. schemas[rev] = Replays(nodes, H) /\ IsHistory(nodes, H)
    BY <1>1, StoredHistory DEF StoreInv, IsSound
<1>4. PICK s0 \in schemas[rev] : TRUE
    BY <1>1, <1>2, SchemaFound
<1> HIDE DEF ops, H
<1>5. ASSUME NEW s \in schemas[rev], NEW id \in DOMAIN s.objects
      PROVE  /\ IsFunction(s.objects[id]) /\ DOMAIN s.objects[id] = AllFields
             /\ \A f \in AllFields : IsValue(nodes, H, id, f, s.objects[id][f])
    BY <1>1, <1>3, <1>5, ReplayedObject DEF H
<1>6. ASSUME NEW s \in schemas[rev], NEW t \in schemas[rev]
      PROVE  s = t
  <2>1. /\ s = Fine(s.objects) /\ AreObjects(s.objects) /\ DOMAIN s.objects = Left(ops)
        /\ t = Fine(t.objects) /\ AreObjects(t.objects) /\ DOMAIN t.objects = Left(ops)
      BY <1>1, <1>2 DEF Explained
  <2>2. ASSUME NEW id \in Left(ops)
        PROVE  s.objects[id] = t.objects[id]
    <3> DEFINE x == s.objects[id]
               y == t.objects[id]
    <3>1. ASSUME NEW f \in AllFields
          PROVE  x[f] = y[f]
      <4>1. IsValue(nodes, Ancestors(nodes, rev), id, f, x[f]) /\ IsValue(nodes, Ancestors(nodes, rev), id, f, y[f])
          BY <1>2, <1>5, <2>1
      <4>2. id \in Left(OpsOf(nodes, Ancestors(nodes, rev)))
          BY <1>2, <2>2 DEF ops
      <4> HIDE DEF x, y
      <4>. QED
          BY <4>1, <4>2, FirstMergeSaysOnce
    <3>2. IsFunction(x) /\ DOMAIN x = AllFields /\ IsFunction(y) /\ DOMAIN y = AllFields
        BY <1>5, <2>1
    <3> HIDE DEF x, y
    <3>3. x = [f \in AllFields |-> x[f]] /\ y = [f \in AllFields |-> y[f]]
        BY <3>2 DEF IsFunction
    <3>4. x = y
        BY <3>1, <3>3
    <3>. QED
        BY <3>4 DEF x, y
  <2>3. s.objects = t.objects
    <3> DEFINE x == s.objects
               y == t.objects
    <3>1. IsFunction(x) /\ DOMAIN x = Left(ops) /\ IsFunction(y) /\ DOMAIN y = Left(ops)
        BY <2>1 DEF AreObjects
    <3>2. \A id \in Left(ops) : x[id] = y[id]
        BY <2>2
    <3> HIDE DEF x, y
    <3>3. x = [id \in Left(ops) |-> x[id]] /\ y = [id \in Left(ops) |-> y[id]]
        BY <3>1 DEF IsFunction
    <3>4. x = y
        BY <3>2, <3>3
    <3>. QED
        BY <3>4 DEF x, y
  <2>. QED
      BY <2>1, <2>3
<1>7. schemas[rev] = {s0}
    BY <1>4, <1>6
<1>. QED
    BY <1>7

\* decisions.md:170 rejects what "depends on merge direction": right after the first
\* merge of a repository that replays, each branch has one schema, whatever the two
\* sides did since the base, whatever was answered and dropped, and in whatever order
\* replay() visits them; unless a side has done something else to an index that it
\* renames.
THEOREM FirstMergeReplaysOnce ==
  Spec => [](FirstMerge /\ IndexesRenamedOnce /\ Merged => OneReplay)
<1>1. MergeInv /\ ReportedHeads /\ FirstMerge /\ IndexesRenamedOnce /\ Merged => OneReplay
  <2> SUFFICES ASSUME MergeInv, ReportedHeads, FirstMerge, IndexesRenamedOnce, Merged, NEW b \in Side
               PROVE  Cardinality(schemas[heads[b]]) = 1
      BY DEF OneReplay
  <2>1. heads[b] \in {report.rev, Side2(nodes, report)} /\ heads[b] \in DOMAIN nodes /\ MInv
      BY DEF ReportedHeads, Merged, MergeInv, MInv, StoreInv
  <2>2. CASE heads[b] = report.rev
    <3>1. PICK s : schemas[heads[b]] = {s}
        BY <2>2, FirstMergeHasOne
    <3>. QED
        BY <3>1, FS_Singleton
  <2>3. CASE heads[b] = Side2(nodes, report)
    <3>1. PICK s : schemas[heads[b]] = {s}
        BY <2>1, <2>3, UnmergedHasOne DEF FirstMerge
    <3>. QED
        BY <3>1, FS_Singleton
  <2>. QED
      BY <2>1, <2>2, <2>3
<1>2. Init => ReportedHeads
    BY DEF Init, ReportedHeads, NoReport
<1>3. MInv /\ ReportedHeads /\ [Next]_vars => ReportedHeads'
    BY HeadsNext
<1>. QED
    BY <1>1, <1>2, <1>3, MergesAreReported, StoreIsExplained, PTL DEF Spec

----------------------------------------------------------------------------
(* A table that one branch drops, and columns of it that the other drops.    *)

\* The migrations that people made after the common history.
Authorings(ns, D) == {q \in D \ {1, 2} : Len(ns[q].parents) <= 1}

\* Such a migration has one operation, and of a drop there is nothing to say but what
\* is dropped.
IsAuthoring(ops) == \E o : ops = <<o>> /\ (o.type \in Destructive => o = [type |-> o.type, id |-> o.id])

\* Somebody did this, or added something.
Owed(ns, D, o) == \E x \in OpsOf(ns, Authorings(ns, D)) : x = o \/ x.type \in Creating

\* Every history begins with the common one; what merges repeat somebody did, and
\* what they do by themselves is against something somebody added.
Authentic(ns) ==
  /\ {1, 2} \subseteq DOMAIN ns /\ ElementsOf(ns[1].ops) = {} /\ Len(ns[2].parents) <= 1
  /\ Ancestors(ns, 1) = {1} /\ Ancestors(ns, 2) = {1, 2}
  /\ \A r \in DOMAIN ns \ {1} : 2 \in Ancestors(ns, r)
  /\ \A r \in Authorings(ns, DOMAIN ns) : IsAuthoring(ns[r].ops)
  /\ \A r \in DOMAIN ns \ {1, 2} : \A o \in ElementsOf(ns[r].ops) : Owed(ns, Ancestors(ns, r), o)

HeadsFollow == \A b \in Side : heads[b] # 1

\* In more revisions there is more.
LEMMA OwedMore ==
  ASSUME NEW ns, NEW D, NEW E, D \subseteq E, NEW o, Owed(ns, D, o)
  PROVE  Owed(ns, E, o)
<1>1. OpsOf(ns, Authorings(ns, D)) \subseteq OpsOf(ns, Authorings(ns, E))
    BY DEF OpsOf, Authorings
<1>. QED
    BY <1>1 DEF Owed

\* What someone added owes whatever is done about it.
LEMMA OwedAgainst ==
  ASSUME NEW ns, NEW D, NEW x, Owed(ns, D, x), x.type \in Creating, NEW o
  PROVE  Owed(ns, D, o)
  BY DEF Owed

\* What a side of a merge has done since the base was done after the common history.
LEMMA SideOwes ==
  ASSUME NEW ns, NEW kept, IsStore(ns, kept), Authentic(ns), NEW base, NEW a, NEW b, NEW opsA, NEW opsB,
         IsMerge(ns, base, a, b, opsA, opsB), a # 1, b # 1, NEW o \in ElementsOf(opsA)
  PROVE  Owed(ns, Ancestors(ns, a), o)
<1>1. /\ a \in DOMAIN ns /\ b \in DOMAIN ns /\ a # b /\ MergeBases(ns, a, b) = {base}
      /\ o \in OpsOf(ns, Since(ns, base, a))
    BY DEF IsMerge, OfSide
<1>2. PICK q \in Ancestors(ns, a) : q # base /\ base \in Ancestors(ns, q) /\ o \in ElementsOf(ns[q].ops)
    BY <1>1 DEF OpsOf, Since
<1>3. base # 1
  <2>1. base \in MergeBases(ns, a, b)
      BY <1>1
  <2>2. 2 \in CommonAncestors(ns, a, b)
      BY <1>1 DEF Authentic, CommonAncestors
  <2>3. base \in Ancestors(ns, 2) => base = 2
      BY <1>1, <2>1, <2>2 DEF MergeBases
  <2>. QED
      BY <2>3 DEF Authentic
<1>4. q \notin {1, 2}
    BY <1>2, <1>3 DEF Authentic
<1>5. q \in DOMAIN ns
    BY <1>2 DEF Ancestors
<1>6. Owed(ns, Ancestors(ns, q), o)
    BY <1>2, <1>4, <1>5 DEF Authentic
<1>7. Ancestors(ns, q) \subseteq Ancestors(ns, a)
    BY <1>1, <1>2, StoreIsDag, AncestorsTransitive
<1>. QED
    BY <1>6, <1>7, OwedMore

\* What a merge node does somebody has done on one of the sides, or it drops what
\* somebody added there.
LEMMA MergeOwes ==
  ASSUME NEW ns, NEW kept, IsSound(ns, kept), Authentic(ns),
         NEW base, NEW a, NEW b, NEW opsA, NEW opsB,
         IsMerge(ns, base, a, b, opsA, opsB), a # 1, b # 1,
         NEW answers, DOMAIN answers = Asked(opsA, opsB),
         NEW o \in ElementsOf(MergeOps(opsA, opsB, answers))
  PROVE  Owed(ns, Ancestors(ns, a) \cup Ancestors(ns, b), o)
<1> DEFINE past == Ancestors(ns, a) \cup Ancestors(ns, b)
           sides == ElementsOf(opsA) \cup ElementsOf(opsB)
<1>1. IsStore(ns, kept) /\ Listed(opsA) /\ Listed(opsB)
    BY DEF IsSound, IsMerge, OfSide
<1>2. IsMerge(ns, base, b, a, opsB, opsA)
    BY MergeTurned
<1>3. ASSUME NEW x \in sides
      PROVE  Owed(ns, past, x)
  <2>1. CASE x \in ElementsOf(opsA)
    <3>1. Owed(ns, Ancestors(ns, a), x)
        BY <1>1, <2>1, SideOwes
    <3>. QED
        BY <3>1, OwedMore
  <2>2. CASE x \in ElementsOf(opsB)
    <3>1. Owed(ns, Ancestors(ns, b), x)
        BY <1>1, <1>2, <2>2, SideOwes
    <3>. QED
        BY <3>1, OwedMore
  <2>. QED
      BY <2>1, <2>2
<1> HIDE DEF past
<1> HIDE DEF sides
<1>4. o \in Resolved(opsA, opsB, answers) \cup Correctives(opsA, opsB) \cup Unnamed(opsA, opsB)
  <2>1. IsFiniteSet(DOMAIN answers)
      BY <1>1, ReportsFinite
  <2>. QED
      BY <1>1, <2>1, MergeOpsListed
<1>5. CASE o \in Resolved(opsA, opsB, answers)
  <2>1. o \in sides
      BY <1>5, ResolvedFits DEF sides
  <2>. QED
      BY <1>3, <2>1 DEF past
<1>6. CASE o \in Correctives(opsA, opsB)
  <2>1. PICK x \in CrossObject(opsA, opsB) : o = CorrectiveDrop(x)
      BY <1>6 DEF Correctives
  <2>2. x \in sides /\ x.type \in Creating
      BY CrossObjectIs DEF Referenced, Creating, sides
  <2>. QED
      BY <1>3, <2>2, OwedAgainst DEF past
<1>7. CASE o \in Unnamed(opsA, opsB)
  <2>1. PICK x \in sides : x.type = "AddColumn"
    <3>1. PICK key \in ColumnKeys(opsA) : TRUE
        BY <1>7 DEF Unnamed, Collisions
    <3>. QED
        BY <3>1 DEF ColumnKeys, sides
  <2>2. x.type \in Creating
      BY <2>1 DEF Creating
  <2>. QED
      BY <1>3, <2>2, OwedAgainst DEF past
<1>. QED
    BY <1>4, <1>5, <1>6, <1>7

\* A commit more.
LEMMA AuthenticGrows ==
  ASSUME NEW ns, NEW kept, IsStore(ns, kept), Authentic(ns),
         NEW parents \in Seq(DOMAIN ns \ {1}), parents # <<>>, NEW b, NEW ops, NEW ms, NEW more,
         HasGrown(ns, kept, parents, b, ops, ms, more),
         Len(parents) <= 1 => IsAuthoring(ops),
         ~(Len(parents) <= 1) => \A o \in ElementsOf(ops) : Owed(ns, Past(kept, parents), o)
  PROVE  Authentic(ms)
<1> DEFINE n == Len(ns) + 1  past == Past(kept, parents)
<1>1. /\ DOMAIN ms = DOMAIN ns \cup {n} /\ n \notin DOMAIN ns
      /\ \A r \in DOMAIN ns : ms[r] = ns[r] /\ Ancestors(ms, r) = Ancestors(ns, r)
      /\ ms[n].parents = parents /\ ms[n].ops = ops
      /\ Ancestors(ms, n) = {n} \cup past
    BY DEF HasGrown, Node
<1>2. {1, 2} \subseteq DOMAIN ns /\ n \notin {1, 2}
    BY <1>1 DEF Authentic
<1>3. past \subseteq DOMAIN ns /\ 2 \in past
  <2>1. /\ 1 \in DOMAIN parents
        /\ \A i \in DOMAIN parents : parents[i] \in DOMAIN ns \ {1}
    <3>1. PICK k \in Nat : parents \in [1 .. k -> DOMAIN ns \ {1}]
        BY SeqDef
    <3>2. k # 0
        BY <3>1
    <3>. QED
        BY <3>1, <3>2
  <2>2. \A r \in DOMAIN ns : kept[r] = Ancestors(ns, r) /\ kept[r] \subseteq DOMAIN ns
      BY DEF IsStore, Ancestors
  <2>3. 2 \in kept[parents[1]]
      BY <2>1, <2>2 DEF Authentic
  <2>. QED
      BY <2>1, <2>2, <2>3 DEF Past
<1> HIDE DEF n, past
<1>4. ASSUME NEW D \in SUBSET DOMAIN ns, NEW o, Owed(ns, D, o)
      PROVE  Owed(ms, D, o)
  <2>1. Authorings(ms, D) = Authorings(ns, D) /\ Authorings(ns, D) \subseteq DOMAIN ns
      BY <1>1 DEF Authorings
  <2>2. OpsOf(ms, Authorings(ms, D)) = OpsOf(ns, Authorings(ns, D))
      BY <1>1, <2>1 DEF OpsOf
  <2>. QED
      BY <1>4, <2>2 DEF Owed
<1>5. \A r \in DOMAIN ms \ {1} : 2 \in Ancestors(ms, r)
    BY <1>1, <1>3 DEF Authentic
<1>6. ASSUME NEW r \in Authorings(ms, DOMAIN ms)
      PROVE  IsAuthoring(ms[r].ops)
  <2>1. CASE r = n
      BY <1>1, <1>6, <2>1 DEF Authorings
  <2>2. CASE r # n
    <3>1. r \in Authorings(ns, DOMAIN ns) /\ ms[r] = ns[r]
        BY <1>1, <1>6, <2>2 DEF Authorings
    <3>. QED
        BY <3>1 DEF Authentic
  <2>. QED
      BY <2>1, <2>2
<1>7. ASSUME NEW r \in DOMAIN ms \ {1, 2}, NEW o \in ElementsOf(ms[r].ops)
      PROVE  Owed(ms, Ancestors(ms, r), o)
  <2>1. CASE r # n
    <3>1. r \in DOMAIN ns \ {1, 2} /\ ms[r] = ns[r] /\ Ancestors(ms, r) = Ancestors(ns, r)
          /\ Ancestors(ns, r) \in SUBSET DOMAIN ns
        BY <1>1, <2>1 DEF Ancestors
    <3>2. Owed(ns, Ancestors(ns, r), o)
        BY <3>1 DEF Authentic
    <3>. QED
        BY <1>4, <3>1, <3>2
  <2>2. CASE r = n /\ Len(parents) <= 1
    <3>1. n \in Authorings(ms, Ancestors(ms, n))
        BY <1>1, <1>2, <2>2 DEF Authorings
    <3>2. o \in OpsOf(ms, Authorings(ms, Ancestors(ms, n)))
        BY <2>2, <3>1 DEF OpsOf
    <3>. QED
        BY <2>2, <3>2 DEF Owed
  <2>3. CASE r = n /\ ~(Len(parents) <= 1)
    <3>1. Owed(ns, past, o)
        BY <1>1, <2>3 DEF past
    <3>2. Owed(ms, past, o)
        BY <1>3, <1>4, <3>1
    <3>. QED
        BY <1>1, <2>3, <3>2, OwedMore
  <2>. QED
      BY <2>1, <2>2, <2>3
<1>. QED
    BY <1>1, <1>2, <1>5, <1>6, <1>7 DEF Authentic

\* Every history does.
AuthenticInv == Authentic(nodes) /\ HeadsFollow

LEMMA AuthenticInit == Init => AuthenticInv
<1> SUFFICES ASSUME Init
             PROVE  AuthenticInv
    OBVIOUS
<1>1. nodes = <<Node(<<>>, Target, <<>>), Node(<<1>>, Target, Base)>> /\ heads = [b \in Side |-> 2]
    BY DEF Init
<1>2. /\ DOMAIN nodes = {1, 2} /\ nodes[1].ops = <<>> /\ nodes[1].parents = <<>>
      /\ nodes[2].parents = <<1>>
    BY <1>1 DEF Node
<1>3. Len(nodes[2].parents) <= 1 /\ ElementsOf(nodes[1].ops) = {}
    BY <1>2, EmptyListed
<1>4. ParentsOf(nodes, 1) = {} /\ ParentsOf(nodes, 2) = {1}
    BY <1>2 DEF ParentsOf
<1>5. ParentsStored(nodes)
    BY <1>2, <1>4 DEF ParentsStored, ParentClosed
<1>6. Ancestors(nodes, 1) = {1} /\ Ancestors(nodes, 2) = {1, 2}
    BY <1>2, <1>4, <1>5, AncestorsOfNode
<1>7. Authentic(nodes)
    BY <1>2, <1>3, <1>6 DEF Authentic, Authorings
<1>8. HeadsFollow
    BY <1>1 DEF HeadsFollow
<1>. QED
    BY <1>7, <1>8 DEF AuthenticInv

\* A verb makes one operation, on the head.
LEMMA MigrateAuthentic ==
  ASSUME MInv, AuthenticInv, NEW b \in Side, Migrate(b)
  PROVE  AuthenticInv'
<1>1. PICK h \in DOMAIN nodes : \E s \in schemas[h] : \E o \in Authored(s, FreshId) :
         ~s.broken /\ HasGrown(nodes, ancestors, <<h>>, b, <<o>>, nodes', ancestors')
    BY MigrateGrows
<1>2. PICK s \in schemas[h] : \E o \in Authored(s, FreshId) :
         ~s.broken /\ HasGrown(nodes, ancestors, <<h>>, b, <<o>>, nodes', ancestors')
    BY <1>1
<1>3. PICK o \in Authored(s, FreshId) : HasGrown(nodes, ancestors, <<h>>, b, <<o>>, nodes', ancestors')
    BY <1>2
<1>4. PICK x : AppendNode(b, <<heads[b]>>, <<x>>)
    BY DEF Migrate
<1>5. nodes' = Append(nodes, Node(<<heads[b]>>, b, <<x>>)) /\ heads' = [heads EXCEPT ![b] = Len(nodes) + 1]
    BY <1>4 DEF AppendNode
<1>6. IsStore(nodes, ancestors) /\ Listed(nodes) /\ heads \in [Side -> DOMAIN nodes]
    BY DEF MInv, StoreInv, IsSound, IsStore
<1>7. h = heads[b] /\ Len(nodes) \in Nat
  <2>1. nodes'[Len(nodes) + 1] = Node(<<heads[b]>>, b, <<x>>)
      BY <1>5, <1>6 DEF Listed
  <2>2. nodes'[Len(nodes) + 1] = Node(<<h>>, b, <<o>>)
      BY <1>3 DEF HasGrown
  <2>3. <<heads[b]>> = <<h>>
      BY <2>1, <2>2 DEF Node
  <2>4. Len(nodes) \in Nat
      BY <1>3 DEF HasGrown
  <2>. QED
      BY <2>3, <2>4
<1>8. HeadsFollow'
  <2>1. Len(nodes) + 1 # 1
    <3>1. Len(nodes) + 1 \notin DOMAIN nodes /\ 1 \in DOMAIN nodes
        BY <1>3 DEF HasGrown, AuthenticInv, Authentic
    <3>. QED
        BY <3>1
  <2>2. \A c \in Side : heads'[c] \in {heads[c], Len(nodes) + 1}
      BY <1>5, <1>6
  <2>. QED
      BY <2>1, <2>2 DEF HeadsFollow, AuthenticInv
<1>9. IsAuthoring(<<o>>)
  <2>1. o.type \in Destructive => o = [type |-> o.type, id |-> o.id]
    <3>1. \/ o.type \in Creating \cup DOMAIN SetField
          \/ \E v, i : o = [type |-> v, id |-> i]
        BY DEF Authored
    <3>2. Destructive \cap (Creating \cup DOMAIN SetField) = {}
        BY DEF Destructive, Creating, SetField, MutationField
    <3>. QED
        BY <3>1, <3>2
  <2>. QED
      BY <2>1 DEF IsAuthoring
<1>10. h # 1
    BY <1>7 DEF AuthenticInv, HeadsFollow
<1>11. PICK parents, ops : parents = <<h>> /\ ops = <<o>>
    OBVIOUS
<1> DEFINE ms == nodes'  more == ancestors'
<1>12. HasGrown(nodes, ancestors, parents, b, ops, ms, more)
    BY <1>3, <1>11
<1>13. parents \in Seq(DOMAIN nodes \ {1}) /\ parents # <<>> /\ Len(parents) <= 1
    BY <1>10, <1>11
<1> HIDE DEF ms, more
<1>14. Authentic(ms)
    BY <1>6, <1>9, <1>11, <1>12, <1>13, AuthenticGrows DEF AuthenticInv
<1>. QED
    BY <1>8, <1>14 DEF AuthenticInv, ms

\* A merge repeats what the sides did and drops what they added.
LEMMA MergeAuthentic ==
  ASSUME MInv, AuthenticInv, NEW t \in Side, NEW s \in Side, Merge(t, s)
  PROVE  AuthenticInv'
<1>1. IsSound(nodes, ancestors) /\ IsStore(nodes, ancestors) /\ heads \in [Side -> DOMAIN nodes]
    BY DEF MInv, StoreInv, IsSound
<1>2. CASE FastForward(t, s)
  <2>1. \A c \in Side : heads'[c] \in {heads[c], heads[s]}
      BY <1>1, <1>2 DEF FastForward
  <2>2. HeadsFollow'
      BY <2>1 DEF AuthenticInv, HeadsFollow
  <2>3. nodes' = nodes
      BY <1>2 DEF FastForward
  <2>. QED
      BY <2>2, <2>3 DEF AuthenticInv
<1>3. ASSUME NEW base, NEW opsA, NEW opsB, NEW answers, JoinsHeads(t, s, base, opsA, opsB, answers)
      PROVE  AuthenticInv'
  <2>1. /\ IsMerge(nodes, base, heads[t], heads[s], opsA, opsB) /\ DOMAIN answers = Asked(opsA, opsB)
        /\ HasGrown(nodes, ancestors, <<heads[t], heads[s]>>, t, MergeOps(opsA, opsB, answers), nodes', ancestors')
        /\ report'.rev = Len(nodes) + 1
      BY <1>3 DEF JoinsHeads
  <2>2. heads[t] # 1 /\ heads[s] # 1 /\ heads[t] \in DOMAIN nodes /\ heads[s] \in DOMAIN nodes
      BY <1>1 DEF AuthenticInv, HeadsFollow
  <2>3. Authentic(nodes)
      BY DEF AuthenticInv
  <2>4. PICK parents, ops : parents = <<heads[t], heads[s]>> /\ ops = MergeOps(opsA, opsB, answers)
      OBVIOUS
  <2>5. ancestors[heads[t]] = Ancestors(nodes, heads[t]) /\ ancestors[heads[s]] = Ancestors(nodes, heads[s])
      BY <1>1, <2>2 DEF IsStore
  <2>6. Past(ancestors, parents) = Ancestors(nodes, heads[t]) \cup Ancestors(nodes, heads[s])
    <3>1. DOMAIN parents = {1, 2} /\ parents[1] = heads[t] /\ parents[2] = heads[s]
        BY <2>4
    <3>. QED
        BY <2>5, <3>1 DEF Past
  <2>7. \A o \in ElementsOf(ops) : Owed(nodes, Past(ancestors, parents), o)
    <3> SUFFICES ASSUME NEW o \in ElementsOf(ops)
                 PROVE  Owed(nodes, Past(ancestors, parents), o)
        OBVIOUS
    <3>1. o \in ElementsOf(MergeOps(opsA, opsB, answers))
        BY <2>4
    <3>2. Owed(nodes, Ancestors(nodes, heads[t]) \cup Ancestors(nodes, heads[s]), o)
        BY <1>1, <2>1, <2>2, <2>3, <3>1, MergeOwes
    <3>. QED
        BY <2>6, <3>2
  <2>8. /\ parents \in Seq(DOMAIN nodes \ {1}) /\ parents # <<>> /\ ~(Len(parents) <= 1)
      BY <2>2, <2>4
  <2>9. HeadsFollow'
    <3>1. Len(nodes) + 1 \notin DOMAIN nodes /\ 1 \in DOMAIN nodes
        BY <2>1, <2>3 DEF HasGrown, Authentic
    <3>2. \A c \in Side : heads'[c] \in {heads[c], heads[s], Len(nodes) + 1}
      <4>1. FastForward(t, s) \/ \E c : TrueMerge(t, s, c)
          BY DEF Merge
      <4>2. \/ heads' = [heads EXCEPT ![t] = heads[s]]
            \/ heads' = [heads EXCEPT ![t] = Len(nodes) + 1]
          BY <4>1 DEF FastForward, TrueMerge, AppendNode
      <4>. QED
          BY <1>1, <4>2
    <3>. QED
        BY <3>1, <3>2 DEF AuthenticInv, HeadsFollow
  <2> DEFINE ms == nodes'  more == ancestors'
  <2>10. HasGrown(nodes, ancestors, parents, t, ops, ms, more)
      BY <2>1, <2>4
  <2> HIDE DEF ms, more
  <2>11. Authentic(ms)
      BY <1>1, <2>3, <2>7, <2>8, <2>10, AuthenticGrows
  <2>. QED
      BY <2>9, <2>11 DEF AuthenticInv, ms
<1>. QED
    BY <1>2, <1>3, MergeGrows

\* What is in these places.
Covers(f, K, made) == \A x : x \in made <=> \E q \in K : x = f[q]

\* Where there are as many places as things, and some of the places have all the
\* things, those are all the places.
LEMMA CountedOnce ==
  ASSUME NEW M, IsFiniteSet(M), NEW K \in SUBSET M, NEW f, NEW made, Covers(f, K, made),
         Cardinality(M) = Cardinality(made)
  PROVE  K = M
<1> DEFINE g == [q \in K |-> f[q]]
<1>1. g \in Surjection(K, made)
    BY DEF Surjection, Covers
<1>2. IsFiniteSet(K) /\ Cardinality(K) <= Cardinality(M)
    BY FS_Subset
<1>3. Cardinality(made) <= Cardinality(K)
    BY <1>1, <1>2, FS_Surjection
<1>4. Cardinality(K) \in Nat /\ Cardinality(M) \in Nat
    BY <1>2, FS_CardinalityType
<1>5. Cardinality(M) = Cardinality(K)
    BY <1>2, <1>3, <1>4
<1>. QED
    BY <1>5, FS_Subset

\* Each migration after the common history is one that somebody made, and no two of
\* them do the same.
MadeOnce(ns, D) ==
  /\ \A r \in D \ {1, 2} : DOMAIN ns[r].ops # {} => r \in Authorings(ns, D)
  /\ \A q, r \in Authorings(ns, D) : ns[q].ops = ns[r].ops => q = r

\* That is so where as many operations as migrations were made, all of them drops.
LEMMA DropsMadeOnce ==
  ASSUME NEW ns, NEW kept, IsStore(ns, kept), Authentic(ns), NEW history, IsHistory(ns, history),
         NEW made, made = OpsOf(ns, history \ {1, 2}), \A o \in made : o.type \notin Creating,
         NEW M, M = {r \in history \ {1, 2} : ns[r].ops # <<>>}, Cardinality(M) = Cardinality(made)
  PROVE  MadeOnce(ns, history)
<1> DEFINE A == Authorings(ns, history)
           f == [q \in A |-> ns[q].ops[1]]
<1>1. history \in SUBSET DOMAIN ns /\ IsFiniteSet(history)
    BY DEF IsHistory
<1>2. IsFiniteSet(M)
    BY <1>1, FS_Subset
<1>3. ASSUME NEW q \in A
      PROVE  /\ q \in history \ {1, 2} /\ ns[q].ops = <<f[q]>> /\ ElementsOf(ns[q].ops) = {f[q]}
             /\ q \in M
  <2>1. q \in Authorings(ns, DOMAIN ns) /\ q \in history \ {1, 2}
      BY <1>1 DEF Authorings
  <2>2. PICK o : ns[q].ops = <<o>>
      BY <2>1 DEF Authentic, IsAuthoring
  <2>3. ns[q].ops[1] = o /\ DOMAIN ns[q].ops = {1} /\ ns[q].ops # <<>>
      BY <2>2
  <2>. QED
      BY <2>1, <2>2, <2>3 DEF ElementsOf
<1>4. ASSUME NEW x \in made
      PROVE  \E q \in A : x = f[q]
  <2>1. PICK r \in history \ {1, 2} : x \in ElementsOf(ns[r].ops)
      BY DEF OpsOf
  <2>2. Owed(ns, Ancestors(ns, r), x)
      BY <1>1, <2>1 DEF Authentic
  <2>3. Ancestors(ns, r) \subseteq history
      BY <1>1, AncestorsLeast DEF IsHistory
  <2>4. Owed(ns, history, x)
      BY <2>2, <2>3, OwedMore
  <2>5. PICK y \in OpsOf(ns, A) : y = x \/ y.type \in Creating
      BY <2>4 DEF Owed
  <2>6. PICK q \in A : y \in ElementsOf(ns[q].ops)
      BY DEF OpsOf
  <2> HIDE DEF A, f
  <2>7. y = f[q] /\ q \in history \ {1, 2}
      BY <1>3, <2>6
  <2>8. y \in made
      BY <2>6, <2>7 DEF OpsOf
  <2>. QED
      BY <2>5, <2>7, <2>8
<1>5. ASSUME NEW q \in A
      PROVE  f[q] \in made
  <2> HIDE DEF A, f
  <2>. QED
      BY <1>3 DEF OpsOf
<1>6. Covers(f, A, made)
    BY <1>4, <1>5 DEF Covers
<1>7. A \in SUBSET M
    BY <1>3
<1> HIDE DEF A, f
<1>8. A = M
    BY <1>2, <1>6, <1>7, CountedOnce
<1>9. ASSUME NEW q \in A, NEW r \in A, ns[q].ops = ns[r].ops, q # r
      PROVE  FALSE
  <2>1. f[q] = f[r]
    <3>1. <<f[q]>> = <<f[r]>>
        BY <1>3, <1>9
    <3>. QED
        BY <3>1
  <2>2. Covers(f, A \ {r}, made)
      BY <1>6, <1>9, <2>1 DEF Covers
  <2>3. A \ {r} \in SUBSET M
      BY <1>7
  <2>4. A \ {r} = M
      BY <1>2, <2>2, <2>3, CountedOnce
  <2>. QED
      BY <1>7, <2>4
<1>10. ASSUME NEW r \in history \ {1, 2}, DOMAIN ns[r].ops # {}
       PROVE  r \in A
  <2>1. ns[r].ops # <<>>
      BY <1>10
  <2>. QED
      BY <1>8, <2>1
<1>. QED
    BY <1>9, <1>10 DEF MadeOnce, A

\* No operation of the list drops what one before it has dropped.
DroppedOnce(list) ==
  \A j \in DOMAIN list : \A o \in Before(list, j - 1) :
    o.type \in Destructive /\ list[j].type = o.type => list[j].id # o.id

\* An operation of such a history has what it wants, or is a drop that somebody made;
\* and nobody drops what is dropped already.
LEMMA MadeOnceStands ==
  ASSUME NEW ns, NEW kept, IsStore(ns, kept), Authentic(ns), Wanted(ns), NEW history, IsHistory(ns, history),
         MadeOnce(ns, history), NEW list, NEW k \in DOMAIN list, StandsAt(ns, history, list, k)
  PROVE  /\ \A o \in Before(list, k - 1) :
              o.type \in Destructive /\ list[k].type = o.type => list[k].id # o.id
         /\ \/ list[k] \in OpsOf(ns, history \ {1, 2})
            \/ \E before : Before(list, k - 1) \subseteq before /\ Wants(list[k]) \subseteq Left(before)
<1>1. PICK r \in history, D \in SUBSET history :
        /\ r \notin D /\ ParentClosed(ns, D) /\ ParentsOf(ns, r) \subseteq D
        /\ \E i \in DOMAIN ns[r].ops :
             /\ list[k] = ns[r].ops[i]
             /\ Before(list, k - 1) = OpsOf(ns, D) \cup {ns[r].ops[j] : j \in 1 .. (i - 1)}
    BY DEF StandsAt
<1>2. PICK i \in DOMAIN ns[r].ops :
        /\ list[k] = ns[r].ops[i]
        /\ Before(list, k - 1) = OpsOf(ns, D) \cup {ns[r].ops[j] : j \in 1 .. (i - 1)}
    BY <1>1
<1>3. history \in SUBSET DOMAIN ns
    BY DEF IsHistory
<1>4. list[k] \in ElementsOf(ns[r].ops)
    BY <1>2 DEF ElementsOf
<1>5. r # 1
    BY <1>4 DEF Authentic
<1>6. list[k].type \in Destructive => Wants(list[k]) = {list[k].id}
    BY DEF Wants, Destructive, Creating
<1>7. \A id \in Left(Prior(ns, r, i)) : id \notin GoneBy(Prior(ns, r, i))
    BY DEF Left, Gone
<1>8. ASSUME Len(ns[r].parents) <= 1, NEW o \in Prior(ns, r, i), o.type \in Destructive, list[k].type = o.type
      PROVE  list[k].id # o.id
  <2>1. list[k].id \in Left(Prior(ns, r, i))
      BY <1>2, <1>3, <1>6, <1>8 DEF Wanted
  <2>2. o.id \in GoneBy(Prior(ns, r, i))
      BY <1>8 DEF GoneBy
  <2>. QED
      BY <1>7, <2>1, <2>2
<1>9. CASE r = 2
  <2>1. Len(ns[r].parents) <= 1
      BY <1>9 DEF Authentic
  <2>2. D \subseteq {1}
    <3> SUFFICES ASSUME NEW q \in D, q # 1
                 PROVE  FALSE
        OBVIOUS
    <3>1. 2 \in Ancestors(ns, q)
        BY <1>3 DEF Authentic
    <3>2. Ancestors(ns, q) \subseteq D
        BY <1>1, <1>3, AncestorsLeast
    <3>. QED
        BY <1>1, <1>9, <3>1, <3>2
  <2>3. OpsOf(ns, D) = {}
      BY <2>2 DEF OpsOf, Authentic
  <2>4. Before(list, k - 1) \subseteq Prior(ns, r, i)
      BY <1>2, <2>3 DEF Prior
  <2>5. Wants(list[k]) \subseteq Left(Prior(ns, r, i))
      BY <1>2, <1>3, <2>1 DEF Wanted
  <2>. QED
      BY <1>8, <2>1, <2>4, <2>5
<1>10. CASE r # 2
  <2>1. r \in Authorings(ns, history)
      BY <1>2, <1>5, <1>10 DEF MadeOnce
  <2>2. r \in Authorings(ns, DOMAIN ns) /\ Len(ns[r].parents) <= 1 /\ r \in history \ {1, 2}
      BY <1>3, <2>1 DEF Authorings
  <2>3. PICK x : ns[r].ops = <<x>> /\ (x.type \in Destructive => x = [type |-> x.type, id |-> x.id])
      BY <2>2 DEF Authentic, IsAuthoring
  <2>4. i = 1 /\ list[k] = x
      BY <1>2, <2>3
  <2>5. Before(list, k - 1) = OpsOf(ns, D)
    <3>1. 1 .. (i - 1) = {}
        BY <2>4
    <3>. QED
        BY <1>2, <3>1
  <2>6. ASSUME NEW o \in Before(list, k - 1), o.type \in Destructive, list[k].type = o.type, list[k].id = o.id
        PROVE  FALSE
    <3>1. PICK q \in D : o \in ElementsOf(ns[q].ops)
        BY <2>5 DEF OpsOf
    <3>2. q # 1 /\ q # r /\ q \in history
        BY <1>1, <3>1 DEF Authentic
    <3>3. CASE q = 2
      <4>1. 2 \in Ancestors(ns, r) \ {r}
          BY <1>3, <1>5, <1>10 DEF Authentic
      <4>2. o \in Prior(ns, r, i)
          BY <3>1, <3>3, <4>1 DEF Prior, OpsOf
      <4>. QED
          BY <1>8, <2>2, <2>6, <4>2
    <3>4. CASE q # 2
      <4>1. q \in history \ {1, 2} /\ DOMAIN ns[q].ops # {}
          BY <3>1, <3>2, <3>4 DEF ElementsOf
      <4>2. q \in Authorings(ns, history)
          BY <4>1 DEF MadeOnce
      <4>3. q \in Authorings(ns, DOMAIN ns)
          BY <1>3, <4>2 DEF Authorings
      <4>4. PICK y : ns[q].ops = <<y>> /\ (y.type \in Destructive => y = [type |-> y.type, id |-> y.id])
          BY <4>3 DEF Authentic, IsAuthoring
      <4>5. o = y
          BY <3>1, <4>4 DEF ElementsOf
      <4>6. x = y
          BY <2>3, <2>4, <2>6, <4>4, <4>5
      <4>7. ns[q].ops = ns[r].ops
          BY <2>3, <4>4, <4>6
      <4>. QED
          BY <2>1, <3>2, <4>2, <4>7 DEF MadeOnce
    <3>. QED
        BY <3>3, <3>4
  <2>7. list[k] \in OpsOf(ns, history \ {1, 2})
      BY <1>4, <2>2 DEF OpsOf
  <2>. QED
      BY <2>6, <2>7
<1>. QED
    BY <1>9, <1>10

\* What is dropped by two operations is dropped by the same kind of operation.
LEMMA SameDrop ==
  ASSUME NEW ops, Sound(ops), NEW x \in ops, NEW y \in ops,
         x.type \in Destructive, y.type \in Destructive, x.id = y.id
  PROVE  x.type = y.type
<1>1. x.type \notin Creating /\ y.type \notin Creating
    BY DEF Destructive, Creating
<1>2. Fits(ops, x) /\ Fits(ops, y)
    BY DEF Sound
<1>3. PICK a \in ops : Makes(a, KindOf[x.type], x.id)
    BY <1>1, <1>2 DEF Fits
<1>4. PICK b \in ops : Makes(b, KindOf[y.type], y.id)
    BY <1>1, <1>2 DEF Fits
<1>5. a \in Created(ops) /\ b \in Created(ops) /\ a.id = b.id
    BY <1>3, <1>4 DEF Makes, Created
<1>6. a = b
    BY <1>5 DEF Sound
<1>7. KindOf[x.type] = KindOf[y.type]
    BY <1>3, <1>4, <1>6 DEF Makes
<1>. QED
    BY <1>7 DEF KindOf, Destructive

\* In a longer list of operations at least as much is gone.
LEMMA GoneMore ==
  ASSUME NEW ops, NEW more, ops \subseteq more
  PROVE  Gone(ops) \subseteq Gone(more)
<1>1. GoneBy(ops) \subseteq GoneBy(more) /\ Created(ops) \subseteq Created(more)
    BY DEF GoneBy, Created
<1>. QED
    BY <1>1 DEF Gone

\* What an operation wants and nothing before it has taken away is there.
LEMMA LeftUnlessGone ==
  ASSUME NEW ops, NEW o, Fits(ops, o), Wants(o) \cap Gone(ops) = {}
  PROVE  Wants(o) \subseteq Left(ops)
  BY WantsAreMade DEF Left

\* The table of a column that the operations up to here have made, and that is gone.
LEMMA ColumnTable ==
  ASSUME NEW ops, Sound(ops), NEW o, Fits(ops, o), o.type = "DropColumn",
         o.id \in Gone(ops), o.id \notin GoneBy(ops)
  PROVE  \E x \in ops : \E y \in ops :
           /\ x.type = "AddColumn" /\ x.id = o.id
           /\ y.type = "DropTable" /\ y.id = x.object.table
<1>1. PICK x \in Created(ops) : x.id = o.id /\ x.object.table \in GoneBy(ops)
    BY DEF Gone
<1>2. PICK z \in ops : Makes(z, "column", o.id)
    BY DEF Fits, Creating, KindOf
<1>3. z \in Created(ops) /\ z = x
    BY <1>1, <1>2 DEF Makes, Created, Sound
<1>4. x \in ops /\ x.type \in Creating /\ x.object.kind = "column" /\ Fits(ops, x)
    BY <1>2, <1>3 DEF Makes, Sound
<1>5. x.type = "AddColumn"
    BY <1>4 DEF Fits, Made, Creating
<1>6. PICK y \in ops : y.type \in Destructive /\ y.id = x.object.table
    BY <1>1 DEF GoneBy
<1>7. Fits(ops, y)
    BY DEF Sound
<1>8. y.id # NoId
    BY <1>7, SoundTables
<1>9. PICK t \in Created(ops) : t.id = x.object.table /\ t.type = "CreateTable"
    BY <1>4, <1>6, <1>8, SoundTables
<1>10. PICK u \in Created(ops) : u.id = y.id /\ (u.type = "CreateTable" <=> y.type = "DropTable")
    BY <1>6, <1>7, SoundTables
<1>11. u = t
    BY <1>6, <1>9, <1>10 DEF Sound
<1>. QED
    BY <1>1, <1>4, <1>5, <1>6, <1>9, <1>10, <1>11

\* A table that is gone was dropped.
LEMMA TableGone ==
  ASSUME NEW ops, Sound(ops), NEW o, Fits(ops, o), o.type = "DropTable", o.id \in Gone(ops)
  PROVE  o.id \in GoneBy(ops)
<1> SUFFICES ASSUME o.id \notin GoneBy(ops)
             PROVE  FALSE
    OBVIOUS
<1>1. PICK x \in Created(ops) : x.id = o.id /\ x.object.table \in GoneBy(ops)
    BY DEF Gone
<1>2. PICK z \in Created(ops) : z.id = o.id /\ z.type = "CreateTable"
    BY SoundTables DEF Destructive
<1>3. z = x
    BY <1>1, <1>2 DEF Sound
<1>4. Fits(ops, x) /\ x.type \in Creating
    BY DEF Sound, Created
<1>5. x.object.table = NoId
    BY <1>2, <1>3, <1>4, SoundTables
<1>6. PICK y \in ops : y.id = NoId
    BY <1>1, <1>5 DEF GoneBy
<1>7. Fits(ops, y)
    BY DEF Sound
<1>. QED
    BY <1>6, <1>7 DEF Fits

\* No operation of the list drops what another has dropped: the sort leaves it so.
LEMMA SortedDropsOnce ==
  ASSUME NEW list, Grounded(list), DroppedOnce(list),
         NEW p \in DOMAIN Reordered(list), NEW q \in DOMAIN Reordered(list), p # q,
         Reordered(list)[p].type \in Destructive, Reordered(list)[q].type \in Destructive
  PROVE  Reordered(list)[p].id # Reordered(list)[q].id
<1> DEFINE n == Len(list)  order == Toposort(list)  sorted == Reordered(list)
<1>1. /\ n \in Nat /\ DOMAIN list = 1 .. n /\ order \in [1 .. n -> 1 .. n]
      /\ \A i, j \in 1 .. n : order[i] = order[j] => i = j
      /\ DOMAIN sorted = 1 .. n
      /\ \A i \in 1 .. n : sorted[i] = list[order[i]]
    BY ReorderedPlaces
<1> HIDE DEF n, order, sorted
<1>2. PICK i, j \in 1 .. n : i = order[p] /\ j = order[q] /\ i # j
    BY <1>1 DEF sorted
<1>3. sorted[p] = list[i] /\ sorted[q] = list[j]
    BY <1>1, <1>2 DEF sorted
<1>4. ASSUME NEW x \in 1 .. n, NEW y \in 1 .. n, x < y,
             list[x].type \in Destructive, list[y].type \in Destructive
      PROVE  list[x].id # list[y].id
  <2>1. list[x] \in Before(list, y - 1)
      BY <1>4 DEF Before
  <2>2. list[x].type = list[y].type => list[x].id # list[y].id
      BY <1>1, <1>4, <2>1 DEF DroppedOnce
  <2>3. Sound(Before(list, n))
      BY <1>1, GroundedIsSound DEF n
  <2>4. list[x] \in Before(list, n) /\ list[y] \in Before(list, n)
      BY DEF Before
  <2>. QED
      BY <1>4, <2>2, <2>3, <2>4, SameDrop
<1>5. list[i].type \in Destructive /\ list[j].type \in Destructive
    BY <1>3 DEF sorted
<1>6. i < j \/ j < i
    BY <1>2
<1>7. list[i].id # list[j].id
    BY <1>4, <1>5, <1>6
<1>. QED
    BY <1>3, <1>7 DEF sorted

\* Where nothing is dropped twice, each drop of a table or of a column can be printed.
LEMMA DroppedOnceNotRaised ==
  ASSUME NEW list, Grounded(list), DroppedOnce(list),
         \A k \in DOMAIN list :
           \/ list[k].type \in {"DropTable", "DropColumn"}
           \/ \E before : Before(list, k - 1) \subseteq before /\ Wants(list[k]) \subseteq Left(before)
  PROVE  ~Emission(list).raised
<1> DEFINE n == Len(list)  order == Toposort(list)  sorted == Reordered(list)
<1>1. /\ n \in Nat /\ DOMAIN list = 1 .. n /\ order \in [1 .. n -> 1 .. n]
      /\ \A x \in 1 .. n : \E i \in 1 .. n : order[i] = x
      /\ \A i, j \in 1 .. n : order[i] = order[j] => i = j
      /\ Len(sorted) = n /\ DOMAIN sorted = 1 .. n
      /\ \A i \in 1 .. n : sorted[i] = list[order[i]]
    BY ReorderedPlaces
<1>2. Grounded(sorted)
    BY ReorderedGrounded
<1>3. Emission(list) = Emitted(sorted)
    BY DEF Emission, Reordered
<1>4. ASSUME NEW p \in 1 .. n, NEW q \in 1 .. n, p # q,
             sorted[p].type \in Destructive, sorted[q].type \in Destructive
      PROVE  sorted[p].id # sorted[q].id
  <2>1. p \in DOMAIN Reordered(list) /\ q \in DOMAIN Reordered(list)
      BY <1>1
  <2>. QED
      BY <1>4, <2>1, SortedDropsOnce
<1>5. ASSUME NEW q \in 1 .. n, NEW p \in 1 .. n, q < p, order[p] < order[q]
      PROVE  list[order[p]].type = "DropTable"
  <2>1. q \in DOMAIN list /\ p \in DOMAIN list
      BY <1>1
  <2>. QED
      BY <1>5, <2>1, OnlyTableDropsWait
<1>6. \A e \in Edges(list) : \E i, j \in 1 .. n : i < j /\ order[i] = e[1] /\ order[j] = e[2]
    BY <1>1, ToposortSorts
<1> HIDE DEF n, order, sorted
<1>7. ASSUME NEW i \in 1 .. n, NEW j \in 1 .. n, <<order[i], order[j]>> \in Edges(list)
      PROVE  i < j
  <2>1. PICK k \in 1 .. n, l \in 1 .. n : k < l /\ order[k] = order[i] /\ order[l] = order[j]
      BY <1>6, <1>7
  <2>. QED
      BY <1>1, <2>1
<1>8. ASSUME NEW p \in 1 .. n
      PROVE  Wants(sorted[p]) \subseteq Left(Before(sorted, p - 1))
  <2> DEFINE S == Before(sorted, p - 1)
             o == sorted[p]
  <2>1. Sound(S) /\ Fits(S, o)
    <3>1. p - 1 \in 0 .. Len(sorted) /\ p \in DOMAIN sorted
        BY <1>1
    <3>. QED
        BY <1>2, <3>1, GroundedIsSound DEF Grounded
  <2>2. \A y \in S : \E q \in 1 .. n : q < p /\ y = sorted[q]
      BY <1>1 DEF Before
  <2>3. ASSUME o.type \in {"DropTable", "DropColumn"}
        PROVE  Wants(o) = {o.id} /\ o.id \notin GoneBy(S) /\ o.type \in Destructive
    <3>1. o.type \in Destructive /\ Wants(o) = {o.id}
        BY <2>3 DEF Destructive, Wants, Creating
    <3>2. ASSUME NEW y \in S, y.type \in Destructive, y.id = o.id
          PROVE  FALSE
        BY <1>4, <2>2, <3>1, <3>2
    <3>. QED
        BY <3>1, <3>2 DEF GoneBy
  <2> HIDE DEF S, o
  <2>4. CASE o.type = "DropTable"
    <3>1. o.id \notin Gone(S)
        BY <2>1, <2>3, <2>4, TableGone
    <3>. QED
        BY <2>1, <2>3, <2>4, <3>1, LeftUnlessGone DEF S, o
  <2>5. CASE o.type = "DropColumn"
    <3>1. ASSUME o.id \in Gone(S)
          PROVE  FALSE
      <4>1. PICK x \in S, y \in S : /\ x.type = "AddColumn" /\ x.id = o.id
                                    /\ y.type = "DropTable" /\ y.id = x.object.table
          BY <2>1, <2>3, <2>5, <3>1, ColumnTable
      <4>2. PICK i \in 1 .. n, j \in 1 .. n : x = sorted[i] /\ y = sorted[j] /\ j < p
          BY <2>2, <4>1
      <4> DEFINE a == order[p]  b == order[j]  d == order[i]
      <4>3. /\ a \in DOMAIN list /\ b \in DOMAIN list /\ d \in DOMAIN list
            /\ list[a] = o /\ list[b] = y /\ list[d] = x
          BY <1>1, <4>2 DEF o
      <4>4. a \in 1 .. n /\ b \in 1 .. n
          BY <1>1, <4>3
      <4> HIDE DEF a, b, d
      <4>5. x.object.table \in TableOfColumn(list, list[a].id)
          BY <4>1, <4>3 DEF TableOfColumn
      <4>6. IsLast(list, "DropTable", x.object.table, b)
        <5> SUFFICES ASSUME NEW k \in DOMAIN list, k > b, list[k].type = "DropTable", list[k].id = y.id
                     PROVE  FALSE
            BY <4>1, <4>3 DEF IsLast
        <5>1. PICK q \in 1 .. n : order[q] = k
            BY <1>1
        <5>2. q # j /\ sorted[q] = list[k]
          <6>1. k # b
              BY <1>1, <4>4
          <6>. QED
              BY <1>1, <5>1, <6>1 DEF b
        <5>3. sorted[q].type \in Destructive /\ sorted[j].type \in Destructive
            BY <4>1, <4>2, <5>2 DEF Destructive
        <5>. QED
            BY <1>4, <4>2, <5>2, <5>3
      <4>7. <<a, b>> \in Edges(list)
          BY <2>5, <4>1, <4>3, <4>5, <4>6 DEF Edges
      <4>8. p < j
          BY <1>7, <4>2, <4>7 DEF a, b
      <4>. QED
          BY <4>2, <4>8
    <3>. QED
        BY <2>1, <2>3, <2>5, <3>1, LeftUnlessGone DEF S, o
  <2>6. CASE o.type \notin {"DropTable", "DropColumn"}
    <3>1. order[p] \in 1 .. n /\ o = list[order[p]]
        BY <1>1 DEF o
    <3>2. PICK before : Before(list, order[p] - 1) \subseteq before /\ Wants(o) \subseteq Left(before)
        BY <1>1, <2>6, <3>1
    <3>3. S \subseteq Before(list, order[p] - 1)
      <4> SUFFICES ASSUME NEW y \in S
                   PROVE  y \in Before(list, order[p] - 1)
          OBVIOUS
      <4>1. PICK q \in 1 .. n : q < p /\ y = sorted[q]
          BY <2>2
      <4>2. order[q] \in 1 .. n /\ order[q] # order[p] /\ y = list[order[q]]
          BY <1>1, <4>1
      <4>3. ~(order[p] < order[q])
          BY <1>5, <2>6, <3>1, <4>1
      <4>4. order[q] \in 1 .. (order[p] - 1)
          BY <3>1, <4>2, <4>3
      <4>. QED
          BY <4>2, <4>4 DEF Before
    <3>4. Gone(S) \subseteq Gone(before)
      <4>1. S \subseteq before
          BY <3>2, <3>3
      <4>. QED
          BY <4>1, GoneMore
    <3>5. Wants(o) \cap Gone(S) = {}
        BY <3>2, <3>4 DEF Left
    <3>. QED
        BY <2>1, <3>5, LeftUnlessGone DEF S, o
  <2>. QED
      BY <2>4, <2>5, <2>6
<1>9. \A k \in DOMAIN sorted : Wants(sorted[k]) \subseteq Left(Before(sorted, k - 1))
    BY <1>1, <1>8
<1>. QED
    BY <1>2, <1>3, <1>9, EmittedIfWanted

\* That is so of every history with two branches that drop different things.
LEMMA DropsComeLast == MInv /\ Wanted(nodes) /\ AuthenticInv => TableDropsComeLast
<1> SUFFICES ASSUME MInv, Wanted(nodes), AuthenticInv
             PROVE  TableDropsComeLast
    OBVIOUS
<1> DEFINE last == Len(nodes)
           history == ancestors[last]
           c == Cardinality(history)
           made == OpsOf(nodes, history \ {1, 2})
           M == {r \in history \ {1, 2} : nodes[r].ops # <<>>}
<1>1. IsSound(nodes, ancestors) /\ IsStore(nodes, ancestors)
    BY DEF MInv, StoreInv, IsSound
<1>2. last \in DOMAIN nodes
  <2>1. DOMAIN nodes = 1 .. Len(nodes) /\ Len(nodes) \in Nat
      BY <1>1, StoreIsDag
  <2>2. heads[Target] \in DOMAIN nodes
      BY DEF MInv, StoreInv, Side
  <2>. QED
      BY <2>1, <2>2
<1>3. IsHistory(nodes, history)
    BY <1>1, <1>2, StoredHistory
<1>4. made = UNION {Seqs!ToSet(nodes[r].ops) : r \in history \ {1, 2}}
    BY DEF OpsOf, ElementsOf, Seqs!ToSet
<1> SUFFICES ASSUME \A o \in made : o.type \in {"DropTable", "DropColumn"},
                    Cardinality(M) = Cardinality(made),
                    NEW e \in Emissions(history)
             PROVE  ~e.raised
    BY <1>4 DEF TableDropsComeLast, DropsOrdered
<1> HIDE DEF last, history, made, M
<1>5. c \in Nat /\ \A v \in After(nodes, history)[c] : v.done = history
    BY <1>3, LastVisitAll
<1>6. Orders(history) = OrdersOf(nodes, history)[c]
    BY OrdersAreLast
<1> HIDE DEF c
<1>7. PICK o \in Orders(history) : e = Emission(OperationsOf(o))
    BY DEF Emissions
<1>8. IsVisited(nodes, history, After(nodes, history)[c], o)
    BY <1>1, <1>3, <1>5, <1>6, OrdersVisit
<1> DEFINE list == OpsAlong(nodes, o)
<1>9. e = Emission(list)
    BY <1>7 DEF OperationsOf, OpsAlong
<1>10. Grounded(list) /\ \A k \in DOMAIN list : StandsAt(nodes, history, list, k)
    BY <1>8 DEF IsVisited
<1>11. \A x \in made : x.type \notin Creating
    BY DEF Creating
<1>12. MadeOnce(nodes, history)
    BY <1>1, <1>3, <1>11, DropsMadeOnce DEF AuthenticInv, made, M
<1> HIDE DEF list
<1>13. \A k \in DOMAIN list :
         /\ \A x \in Before(list, k - 1) :
              x.type \in Destructive /\ list[k].type = x.type => list[k].id # x.id
         /\ \/ list[k] \in made
            \/ \E before : Before(list, k - 1) \subseteq before /\ Wants(list[k]) \subseteq Left(before)
    BY <1>1, <1>3, <1>10, <1>12, MadeOnceStands DEF AuthenticInv, made
<1>14. DroppedOnce(list)
    BY <1>13 DEF DroppedOnce
<1>. QED
    BY <1>9, <1>10, <1>13, <1>14, DroppedOnceNotRaised

\* TableDropsComeLast: where one branch drops a table and the other columns of it, and
\* nobody drops anything twice, the edge of toposort.py:93 from DropColumn to DropTable
\* is enough for emit_ddl to print every statement, in whatever order it visits the
\* migrations.
THEOREM TableDropsAlwaysComeLast == Spec => []TableDropsComeLast
<1>1. Init => Wanted(nodes) /\ AuthenticInv
    BY WantedInit, AuthenticInit
<1>2. MInv /\ Wanted(nodes) /\ AuthenticInv /\ [Next]_vars => Wanted(nodes)' /\ AuthenticInv'
  <2> SUFFICES ASSUME MInv, Wanted(nodes), AuthenticInv, [Next]_vars
               PROVE  Wanted(nodes') /\ AuthenticInv'
      OBVIOUS
  <2>1. ASSUME NEW b \in Side, Migrate(b)
        PROVE  Wanted(nodes') /\ AuthenticInv'
      BY <2>1, MigrateWants, MigrateAuthentic
  <2>2. ASSUME NEW t \in Side, NEW s \in Side, Merge(t, s)
        PROVE  Wanted(nodes') /\ AuthenticInv'
      BY <2>2, MergeWants, MergeAuthentic
  <2>3. CASE UNCHANGED vars
      BY <2>3 DEF vars, AuthenticInv, HeadsFollow
  <2>. QED
      BY <2>1, <2>2, <2>3 DEF Next
<1>3. MInv /\ Wanted(nodes) /\ AuthenticInv => TableDropsComeLast
    BY DropsComeLast
<1>. QED
    BY <1>1, <1>2, <1>3, StoreIsExplained, PTL DEF Spec

----------------------------------------------------------------------------
(* The names of columns at the first merge of a repository.                  *)

\* The operation adds a column of that name to that table.
AddsNamed(o, key) == o.type = "AddColumn" /\ <<o.object.table, o.object.name>> = key

\* One side renames no column, and adds no more than one of a name that the other
\* side adds to the same table too.
NamesOnce(ops, others) ==
  /\ \A o \in ElementsOf(ops) : o.type # "RenameColumn"
  /\ \A key \in ColumnKeys(others) : \A x, y \in ElementsOf(ops) :
       AddsNamed(x, key) /\ AddsNamed(y, key) => x = y

\* What find_name_collisions does not look at has not happened: a second addition of a
\* name by one side ("that branch's own bug", name_collision.py:63), and a rename.
ColumnsNamedOnce ==
  LET a == OperationsSince(nodes, ancestors, report.base, Side1(nodes, report))
      b == OperationsSince(nodes, ancestors, report.base, Side2(nodes, report))
  IN  NamesOnce(a, b) /\ NamesOnce(b, a)

\* The first addition of a name, where there is one only.
LEMMA OnlyAddition ==
  ASSUME NEW ops, Listed(ops), NEW others, NamesOnce(ops, others),
         NEW key \in ColumnKeys(others), NEW x \in ElementsOf(ops), AddsNamed(x, key)
  PROVE  FirstAdd(ops, key) \in DOMAIN ops /\ ops[FirstAdd(ops, key)] = x
<1> DEFINE Adds(i) == /\ ops[i].type = "AddColumn"
                      /\ <<ops[i].object.table, ops[i].object.name>> = key
           places == {i \in DOMAIN ops : Adds(i)}
<1>1. places \subseteq Nat /\ places # {}
  <2>1. DOMAIN ops \subseteq Nat
      BY ListedPlaces
  <2>2. PICK i \in DOMAIN ops : x = ops[i]
      BY DEF ElementsOf
  <2>. QED
      BY <2>1, <2>2 DEF AddsNamed
<1>2. PICK i \in places : \A j \in places : i <= j
    BY <1>1, LeastNatural
<1>3. i \in DOMAIN ops /\ Adds(i) /\ \A j \in DOMAIN ops : Adds(j) => i <= j
    BY <1>2
<1> DEFINE k == FirstAdd(ops, key)
<1>4. k \in DOMAIN ops /\ Adds(k)
    BY <1>3 DEF FirstAdd
<1> HIDE DEF k
<1>5. ops[k] \in ElementsOf(ops) /\ AddsNamed(ops[k], key)
    BY <1>4 DEF ElementsOf, AddsNamed
<1>6. ops[k] = x
    BY <1>5 DEF NamesOnce
<1>. QED
    BY <1>4, <1>6 DEF k

\* Of two such columns of one name the merge node gives one up.
LEMMA OneIsGivenUp ==
  ASSUME NEW opsA, Listed(opsA), NEW opsB, Listed(opsB), NamesOnce(opsA, opsB), NamesOnce(opsB, opsA),
         NEW key, NEW x \in ElementsOf(opsA), AddsNamed(x, key),
         NEW y \in ElementsOf(opsB), AddsNamed(y, key)
  PROVE  \E o \in Unnamed(opsA, opsB) : o.type \in Destructive /\ o.id \in {x.id, y.id}
<1>1. key \in ColumnKeys(opsA) /\ key \in ColumnKeys(opsB)
    BY DEF AddsNamed, ColumnKeys
<1>2. opsA[FirstAdd(opsA, key)] = x /\ opsB[FirstAdd(opsB, key)] = y
    BY <1>1, OnlyAddition
<1>3. \E c \in Collisions(opsA, opsB) : c.dropped \in {x.id, y.id}
  <2>1. CASE FirstAdd(opsA, key) <= FirstAdd(opsB, key)
    <3>1. [kept |-> x.id, dropped |-> y.id] \in Collisions(opsA, opsB)
        BY <1>1, <1>2, <2>1 DEF Collisions
    <3>. QED
        BY <3>1
  <2>2. CASE ~(FirstAdd(opsA, key) <= FirstAdd(opsB, key))
    <3>1. [kept |-> y.id, dropped |-> x.id] \in Collisions(opsA, opsB)
        BY <1>1, <1>2, <2>2 DEF Collisions
    <3>. QED
        BY <3>1
  <2>. QED
      BY <2>1, <2>2
<1>4. PICK c \in Collisions(opsA, opsB) : c.dropped \in {x.id, y.id}
    BY <1>3
<1>5. [type |-> "DropColumn", id |-> c.dropped] \in Unnamed(opsA, opsB)
    BY DEF Unnamed
<1>. QED
    BY <1>4, <1>5 DEF Destructive

\* What no operation has set is as it was made.
LEMMA ValueUnset ==
  ASSUME NEW ns, NEW D, Sound(OpsOf(ns, D)), NEW id, NEW f, NeverSet(ns, D, id, f),
         NEW v, IsValue(ns, D, id, f, v), NEW x \in Created(OpsOf(ns, D)), x.id = id
  PROVE  v = x.object[f]
<1>1. ~\E r \in D : \E i \in DOMAIN ns[r].ops : IsLatest(ns, D, id, f, r, i)
    BY DEF NeverSet, IsLatest
<1>2. PICK z \in Created(OpsOf(ns, D)) : z.id = id /\ v = z.object[f]
    BY <1>1 DEF IsValue
<1>. QED
    BY <1>2, SameCreation

\* What two histories have set only in a line they share is the same in both.
LEMMA ValueShared ==
  ASSUME NEW ns, NEW kept, IsStore(ns, kept), NEW C, IsLine(ns, C),
         NEW D, Sound(OpsOf(ns, D)), NEW E, C \subseteq E, E \subseteq D, NEW id, NEW f,
         NeverSet(ns, D \ C, id, f), NEW x \in Created(OpsOf(ns, E)), x.id = id,
         Sound(OpsOf(ns, E)),
         NEW v, IsValue(ns, D, id, f, v), NEW w, IsValue(ns, E, id, f, w)
  PROVE  v = w
<1>1. CASE NeverSet(ns, C, id, f)
  <2>1. NeverSet(ns, D, id, f)
      BY <1>1 DEF NeverSet
  <2>2. NeverSet(ns, E, id, f)
      BY <2>1 DEF NeverSet
  <2>3. x \in Created(OpsOf(ns, D))
      BY DEF Created, OpsOf
  <2>. QED
      BY <2>1, <2>2, <2>3, ValueUnset
<1>2. CASE ~NeverSet(ns, C, id, f)
  <2>1. ASSUME NEW F, C \subseteq F, F \subseteq D, NEW u, IsValue(ns, F, id, f, u)
        PROVE  Says(ns, C, id, f, u)
    <3>1. ~NeverSet(ns, F, id, f)
        BY <1>2, <2>1 DEF NeverSet
    <3>2r. PICK r \in F : \E i \in DOMAIN ns[r].ops :
             IsLatest(ns, F, id, f, r, i) /\ u = ns[r].ops[i].value
        BY <2>1, <3>1 DEF IsValue
    <3>2. PICK i \in DOMAIN ns[r].ops : IsLatest(ns, F, id, f, r, i) /\ u = ns[r].ops[i].value
        BY <3>2r
    <3>3. SetsField(ns[r].ops[i], id, f)
        BY <3>2 DEF IsLatest
    <3>4. r \in C
        BY <2>1, <3>3 DEF NeverSet
    <3>5. IsLatest(ns, C, id, f, r, i)
        BY <2>1, <3>2, <3>4, LatestOfPart
    <3>. QED
        BY <3>2, <3>4, <3>5 DEF Says
  <2>2. Says(ns, C, id, f, v) /\ Says(ns, C, id, f, w)
      BY <2>1
  <2>. QED
      BY <2>2, SaysOnce
<1>. QED
    BY <1>1, <1>2

\* Only a rename of a column sets the name of one.
LEMMA NameOfColumn ==
  ASSUME NEW before, Sound(before), NEW x \in Created(before), x.object.kind = "column",
         NEW o \in before, SetsField(o, x.id, "name")
  PROVE  o.type = "RenameColumn"
<1>1. o.type \in DOMAIN SetField /\ o.id = x.id /\ SetField[o.type] = "name"
    BY DEF SetsField
<1>2. o.type \in {"RenameColumn", "RenameIndex"}
    BY <1>1 DEF SetField, MutationField
<1>3. o.type \notin Creating
    BY <1>2 DEF Creating
<1>4. PICK z \in before : Makes(z, KindOf[o.type], o.id)
    BY <1>3 DEF Sound, Fits
<1>5. z \in Created(before) /\ z.id = x.id
    BY <1>1, <1>4 DEF Makes, Created
<1>6. KindOf[o.type] = "column"
    BY <1>4, <1>5, SameCreation DEF Makes
<1>. QED
    BY <1>2, <1>6 DEF KindOf

\* A merge node renames nothing that the sides have not renamed.
LEMMA MergeRenamesNothing ==
  ASSUME NEW ns, NEW made, NEW opsA, NEW opsB, Explains(ns, made, opsA, opsB),
         NamesOnce(opsA, opsB), NamesOnce(opsB, opsA),
         NEW o \in ElementsOf(ns[made.rev].ops)
  PROVE  o.type # "RenameColumn"
<1>1. o \in Resolved(opsA, opsB, made.answers) \cup Correctives(opsA, opsB) \cup Unnamed(opsA, opsB)
    BY DEF Explains
<1>2. Listed(opsA) /\ Listed(opsB) /\ DOMAIN made.answers \subseteq Asked(opsA, opsB)
    BY DEF Explains, IsMerge, OfSide
<1>3. CASE o \in Resolved(opsA, opsB, made.answers)
  <2>1. o \in ElementsOf(opsA) \cup ElementsOf(opsB)
      BY <1>2, <1>3, ResolvedAreOfSides
  <2>. QED
      BY <2>1 DEF NamesOnce
<1>4. CASE o \in Correctives(opsA, opsB)
  <2>1. PICK x \in CrossObject(opsA, opsB) : o = CorrectiveDrop(x)
      BY <1>4 DEF Correctives
  <2>2. x.type \in {"AddColumn", "AddIndex", "AddConstraint"}
      BY <2>1, CrossObjectIs DEF Referenced
  <2>. QED
      BY <2>1, <2>2 DEF CorrectiveDrop
<1>5. CASE o \in Unnamed(opsA, opsB)
    BY <1>5 DEF Unnamed
<1>. QED
    BY <1>1, <1>3, <1>4, <1>5

\* Two columns of the merge that one side has had other names there; of two that one
\* side each has added since the base one is given up.
LEMMA NamesAtFirst == MergeInv /\ FirstMerge /\ ColumnsNamedOnce => NamesStayUnique
<1> DEFINE merged == Schemas.merged
<1> SUFFICES ASSUME MergeInv, FirstMerge, ColumnsNamedOnce, Merged,
                    SameName(Schemas.a) = {}, SameName(Schemas.b) = {},
                    NEW i \in ColumnsIn(merged), NEW j \in ColumnsIn(merged), i # j,
                    merged[i].table = merged[j].table, merged[i].name = merged[j].name
             PROVE  FALSE
    BY DEF NamesStayUnique, SameName
<1> DEFINE r1 == Side1(nodes, report)
           r2 == Side2(nodes, report)
           rev == report.rev
           base == report.base
           C == Ancestors(nodes, base)
           S == Since(nodes, base, r1)
           T == Since(nodes, base, r2)
           OpsAt(r) == OpsOf(nodes, Ancestors(nodes, r))
           m == ElementsOf(nodes[rev].ops)
<1>1. PICK opsA, opsB :
           /\ MadeOf(nodes, ancestors, report, opsA, opsB) /\ Listed(opsA) /\ Listed(opsB)
           /\ opsA = OperationsSince(nodes, ancestors, base, r1)
           /\ opsB = OperationsSince(nodes, ancestors, base, r2)
    BY ReportHas
<1>2. NamesOnce(opsA, opsB) /\ NamesOnce(opsB, opsA)
    BY <1>1 DEF ColumnsNamedOnce
<1>3. /\ Explains(nodes, report, opsA, opsB) /\ IsMerge(nodes, base, r1, r2, opsA, opsB)
      /\ IsReport(nodes, report) /\ \A s \in schemas[rev] : ~s.broken
      /\ StoreInv /\ Formed(nodes) /\ IsSound(nodes, ancestors) /\ IsStore(nodes, ancestors)
    BY <1>1 DEF MadeOf, Explains, MergeInv, MInv, StoreInv, IsSound, Merged
<1>4. IsMerge(nodes, base, r2, r1, opsB, opsA)
    BY <1>3, MergeTurned
<1>5. Unmerged(nodes, r1) /\ Unmerged(nodes, r2)
    BY DEF FirstMerge
<1>6. /\ Ancestors(nodes, r1) = C \cup S /\ ElementsOf(opsA) = OpsOf(nodes, S) /\ IsLine(nodes, C)
      /\ Ancestors(nodes, r2) = C \cup T /\ ElementsOf(opsB) = OpsOf(nodes, T)
  <2>1. Ancestors(nodes, r1) = C \cup S /\ ElementsOf(opsA) = OpsOf(nodes, S) /\ Continues(nodes, C, S)
      BY <1>1, <1>3, <1>5, SideContinues
  <2>2. Ancestors(nodes, r2) = C \cup T /\ ElementsOf(opsB) = OpsOf(nodes, T)
      BY <1>1, <1>3, <1>4, <1>5, SideContinues
  <2>. QED
      BY <2>1, <2>2 DEF Continues, IsLine
<1>7. Ancestors(nodes, rev) = {rev} \cup Ancestors(nodes, r1) \cup Ancestors(nodes, r2)
    BY <1>3 DEF IsReport
<1>8. /\ rev \in DOMAIN nodes /\ r1 \in DOMAIN nodes /\ r2 \in DOMAIN nodes
      /\ r1 \in Ancestors(nodes, rev) /\ r2 \in Ancestors(nodes, rev) /\ rev \in Ancestors(nodes, rev)
  <2>1. rev \in DOMAIN nodes /\ r1 \in DOMAIN nodes /\ r2 \in DOMAIN nodes
      BY <1>3 DEF IsReport, IsMerge
  <2>. QED
      BY <1>7, <2>1, AncestorsSelf
<1>9. Sound(OpsOf(nodes, C)) /\ \A r \in {r1, r2, rev} : Sound(OpsAt(r))
  <2>1. ParentsStored(nodes)
      BY <1>3, StoreIsDag
  <2>2. \A r \in DOMAIN nodes : Ancestors(nodes, r) \in SUBSET DOMAIN nodes
                                /\ ParentClosed(nodes, Ancestors(nodes, r))
      BY <2>1, AncestorsClosed DEF Ancestors
  <2>3. base \in DOMAIN nodes
      BY <1>3, SinceApart
  <2>. QED
      BY <1>3, <1>8, <2>2, <2>3, ClosedIsSound
<1>10. /\ DOMAIN merged = Left(OpsAt(rev)) /\ Traced(OpsAt(rev), merged)
       /\ DOMAIN Schemas.a = Left(OpsAt(r1)) /\ Traced(OpsAt(r1), Schemas.a)
       /\ DOMAIN Schemas.b = Left(OpsAt(r2)) /\ Traced(OpsAt(r2), Schemas.b)
    BY MergedSchemas DEF MergeInv
<1>11. merged = SchemaAt(rev) /\ Schemas.a = SchemaAt(r1) /\ Schemas.b = SchemaAt(r2)
    BY DEF Schemas, Side1, Side2
<1>12. /\ OpsAt(r1) = OpsOf(nodes, C) \cup ElementsOf(opsA)
       /\ OpsAt(r2) = OpsOf(nodes, C) \cup ElementsOf(opsB)
       /\ OpsAt(rev) = m \cup OpsAt(r1) \cup OpsAt(r2)
    BY <1>6, <1>7 DEF OpsOf
<1>13. \A o \in OpsOf(nodes, Ancestors(nodes, rev) \ C) : o.type # "RenameColumn"
  <2>1. OpsOf(nodes, Ancestors(nodes, rev) \ C) \subseteq m \cup ElementsOf(opsA) \cup ElementsOf(opsB)
      BY <1>6, <1>7 DEF OpsOf
  <2>2. \A o \in m : o.type # "RenameColumn"
      BY <1>2, <1>3, MergeRenamesNothing
  <2> HIDE DEF m
  <2>. QED
      BY <1>2, <2>1, <2>2 DEF NamesOnce
<1>14. \A o \in m : o.type \notin Creating
  <2> SUFFICES ASSUME NEW o \in m, o.type \in Creating
               PROVE  FALSE
      OBVIOUS
  <2>1. /\ o \in ElementsOf(MergeOps(opsA, opsB, report.answers))
        /\ DOMAIN report.answers = Asked(opsA, opsB)
      BY <1>1, <1>3 DEF MadeOf, Explains
  <2>. QED
      BY <1>3, <2>1, MergeOpsMakeNothing
<1>15. Unnamed(opsA, opsB) \subseteq m
    BY <1>3 DEF Explains
<1> HIDE DEF merged, r1, r2, rev, base, C, S, T, m
<1> DEFINE all == OpsAt(rev)
           Of(x, k) == /\ x \in Created(all) /\ x.id = k
                       /\ x.object.kind = "column" /\ x.object.table = merged[k].table
<1>16. ASSUME NEW k \in ColumnsIn(merged)
       PROVE  /\ \E x : Of(x, k)
              /\ k \in DOMAIN merged /\ merged[k].kind = "column"
              /\ IsValue(nodes, Ancestors(nodes, rev), k, "name", merged[k].name)
  <2>1. k \in DOMAIN merged /\ merged[k].kind = "column"
      BY DEF ColumnsIn
  <2>2. \E x : Of(x, k)
      BY <1>10, <2>1 DEF Traced, Fixed
  <2>3. "name" \in Fields
      BY DEF Fields
  <2>. QED
      BY <1>3, <1>8, <1>11, <2>1, <2>2, <2>3, SchemaValues
<1>17. ASSUME NEW k \in ColumnsIn(merged)
       PROVE  NeverSet(nodes, Ancestors(nodes, rev) \ C, k, "name")
  <2> SUFFICES ASSUME NEW q \in Ancestors(nodes, rev) \ C, NEW n \in DOMAIN nodes[q].ops,
                      SetsField(nodes[q].ops[n], k, "name")
               PROVE  FALSE
      BY DEF NeverSet
  <2>1. PICK x : Of(x, k)
      BY <1>16
  <2>2. /\ nodes[q].ops[n] \in OpsOf(nodes, Ancestors(nodes, rev) \ C)
        /\ nodes[q].ops[n] \in all
      BY DEF OpsOf, ElementsOf
  <2>. QED
      BY <1>9, <1>13, <2>1, <2>2, NameOfColumn
<1> DEFINE Has(objects, k) == /\ k \in ColumnsIn(objects) /\ objects[k].table = merged[k].table
                              /\ objects[k].name = merged[k].name
<1>18. ASSUME NEW r \in {r1, r2}, NEW objects, objects = SchemaAt(r),
              DOMAIN objects = Left(OpsAt(r)), Traced(OpsAt(r), objects),
              NEW k \in ColumnsIn(merged), NEW x \in OpsAt(r), Of(x, k)
       PROVE  Has(objects, k)
  <2>1. OpsAt(r) \subseteq all /\ x \in Created(OpsAt(r))
      BY <1>12, <1>18 DEF Created
  <2>2. k \in DOMAIN objects
    <3>1. k \notin Gone(all)
        BY <1>10, <1>16 DEF Left
    <3>2. k \notin Gone(OpsAt(r))
        BY <2>1, <3>1, GoneOfMore
    <3>. QED
        BY <1>18, <2>1, <3>2 DEF Left
  <2>3. PICK z \in Created(OpsAt(r)) : z.id = k /\ \A f \in Fixed : objects[k][f] = z.object[f]
      BY <1>18, <2>2 DEF Traced
  <2>4. z = x
      BY <1>9, <1>18, <2>1, <2>3, SameCreation
  <2>5. objects[k].kind = "column" /\ objects[k].table = merged[k].table
      BY <1>18, <2>3, <2>4 DEF Fixed
  <2>6. IsValue(nodes, Ancestors(nodes, r), k, "name", objects[k].name)
    <3>1. "name" \in Fields
        BY DEF Fields
    <3>. QED
        BY <1>3, <1>8, <1>18, <2>2, <3>1, SchemaValues
  <2>7. C \subseteq Ancestors(nodes, r) /\ Ancestors(nodes, r) \subseteq Ancestors(nodes, rev)
      BY <1>6, <1>7
  <2> DEFINE E == Ancestors(nodes, r)
             D == Ancestors(nodes, rev)
             v == merged[k].name
             w == objects[k].name
  <2>8. /\ Sound(OpsOf(nodes, D)) /\ Sound(OpsOf(nodes, E)) /\ x \in Created(OpsOf(nodes, E)) /\ x.id = k
        /\ IsValue(nodes, D, k, "name", v) /\ IsValue(nodes, E, k, "name", w)
        /\ NeverSet(nodes, D \ C, k, "name") /\ C \subseteq E /\ E \subseteq D
      BY <1>9, <1>16, <1>17, <1>18, <2>1, <2>6, <2>7
  <2> HIDE DEF E, D, v, w
  <2>9. v = w
      BY <1>3, <1>6, <2>8, ValueShared
  <2>. QED
      BY <2>2, <2>5, <2>9 DEF ColumnsIn, v, w
<1>19. ASSUME NEW objects, SameName(objects) = {}, Has(objects, i), Has(objects, j)
       PROVE  FALSE
    BY <1>19 DEF SameName
<1>20. ASSUME NEW k \in ColumnsIn(merged), NEW x, Of(x, k), x \notin OpsOf(nodes, C)
       PROVE  x.object.name = merged[k].name
  <2>1. NeverSet(nodes, Ancestors(nodes, rev), k, "name")
    <3> SUFFICES ASSUME NEW q \in Ancestors(nodes, rev), NEW n \in DOMAIN nodes[q].ops,
                        SetsField(nodes[q].ops[n], k, "name")
                 PROVE  FALSE
        BY DEF NeverSet
    <3>1. q \in C
        BY <1>17 DEF NeverSet
    <3> DEFINE o == nodes[q].ops[n]
    <3>2. o \in OpsOf(nodes, C) /\ o \in all
        BY <3>1 DEF OpsOf, ElementsOf
    <3>3. o.type = "RenameColumn" /\ o.id = k
        BY <1>9, <1>20, <3>2, NameOfColumn DEF SetsField
    <3>4. PICK z \in OpsOf(nodes, C) : Makes(z, KindOf[o.type], o.id)
      <4>1. o.type \notin Creating
          BY <3>3 DEF Creating
      <4>. QED
          BY <1>9, <3>2, <4>1 DEF Sound, Fits
    <3>5. z \in Created(all) /\ z.id = k
        BY <1>12, <3>3, <3>4 DEF Makes, Created
    <3>. QED
        BY <1>9, <1>20, <3>4, <3>5, SameCreation
  <2>. QED
      BY <1>9, <1>16, <1>20, <2>1, ValueUnset
<1>21. ASSUME NEW k \in ColumnsIn(merged), NEW x, Of(x, k)
       PROVE  x \in OpsAt(r1) \cup OpsAt(r2)
  <2>1. x \in all /\ x.type \in Creating
      BY <1>21 DEF Created
  <2>. QED
      BY <1>12, <1>14, <2>1
<1>22. ASSUME NEW k \in ColumnsIn(merged), NEW x, Of(x, k), x \notin OpsOf(nodes, C)
       PROVE  AddsNamed(x, <<merged[k].table, merged[k].name>>)
  <2>1. x \in all /\ x.type \in Creating /\ x.object.kind = "column"
      BY <1>22 DEF Created
  <2>2. x.object.kind = Made[x.type]
      BY <1>9, <2>1 DEF Sound, Fits
  <2>3. x.type = "AddColumn"
      BY <2>1, <2>2 DEF Made, Creating
  <2>. QED
      BY <1>20, <1>22, <2>3 DEF AddsNamed
<1>23. ASSUME NEW k \in ColumnsIn(merged), NEW l \in ColumnsIn(merged), NEW x, Of(x, k), NEW y, Of(y, l),
              merged[k].table = merged[l].table, merged[k].name = merged[l].name,
              x \in OpsAt(r1), x \notin OpsAt(r2), y \in OpsAt(r2), y \notin OpsAt(r1)
       PROVE  FALSE
  <2>1. x \in ElementsOf(opsA) /\ y \in ElementsOf(opsB) /\ x \notin OpsOf(nodes, C) /\ y \notin OpsOf(nodes, C)
      BY <1>12, <1>23
  <2> DEFINE key == <<merged[k].table, merged[k].name>>
  <2>2. AddsNamed(x, key)
      BY <1>22, <1>23, <2>1
  <2>3. AddsNamed(y, key)
      BY <1>22, <1>23, <2>1
  <2> HIDE DEF key
  <2>4. PICK o \in Unnamed(opsA, opsB) : o.type \in Destructive /\ o.id \in {x.id, y.id}
      BY <1>1, <1>2, <2>1, <2>2, <2>3, OneIsGivenUp
  <2>5. o \in all
      BY <1>12, <1>15
  <2>6. o.id \in Gone(all)
      BY <2>4, <2>5 DEF Gone, GoneBy
  <2>7. k \in Left(all) /\ l \in Left(all)
      BY <1>10, <1>16
  <2>. QED
      BY <1>23, <2>4, <2>6, <2>7 DEF Left
<1>24. PICK x, y : Of(x, i) /\ Of(y, j)
    BY <1>16
<1>25. x \in OpsAt(r1) \cup OpsAt(r2) /\ y \in OpsAt(r1) \cup OpsAt(r2)
    BY <1>21, <1>24
<1>26. ~(x \in OpsAt(r1) /\ y \in OpsAt(r1))
  <2> SUFFICES ASSUME x \in OpsAt(r1), y \in OpsAt(r1)
               PROVE  FALSE
      OBVIOUS
  <2>1. Has(Schemas.a, i) /\ Has(Schemas.a, j)
      BY <1>10, <1>11, <1>18, <1>24
  <2>. QED
      BY <1>19, <2>1
<1>27. ~(x \in OpsAt(r2) /\ y \in OpsAt(r2))
  <2> SUFFICES ASSUME x \in OpsAt(r2), y \in OpsAt(r2)
               PROVE  FALSE
      OBVIOUS
  <2>1. Has(Schemas.b, i) /\ Has(Schemas.b, j)
      BY <1>10, <1>11, <1>18, <1>24
  <2>. QED
      BY <1>19, <2>1
<1>28. CASE x \in OpsAt(r1)
    BY <1>23, <1>24, <1>25, <1>26, <1>27, <1>28
<1>29. CASE x \in OpsAt(r2)
    BY <1>23, <1>24, <1>25, <1>26, <1>27, <1>29
<1>. QED
    BY <1>25, <1>28, <1>29

\* name_collision.py:1: at the first merge of a repository two sides that each have no
\* column name twice in a table do not get one by merging: of two columns that were
\* added with one name the merge node gives one up. The premise leaves out what
\* name_collision.py does not look at, second additions of a name and renames.
THEOREM FirstMergeKeepsNames == Spec => [](FirstMerge /\ ColumnsNamedOnce => NamesStayUnique)
<1>. QED
    BY NamesAtFirst, MergesAreReported, PTL
=============================================================================
