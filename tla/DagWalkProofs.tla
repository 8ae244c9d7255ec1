---------------------------- MODULE DagWalkProofs ----------------------------
(* What holds of the walks of DagWalk over every revision DAG.               *)
EXTENDS DagWalk, WellFoundedInduction, TLAPS

\* Every parent a node names is a node: what DagStore.append demands.
ParentsStored(ns) == ParentClosed(ns, DOMAIN ns)

\* Revisions are numbered in the order they were appended.
AppendOrder(ns) ==
  /\ DOMAIN ns \subseteq Nat
  /\ \A r \in DOMAIN ns : \A p \in ParentsOf(ns, r) : p < r

\* ms is ns with more nodes.
Grown(ns, ms) ==
  /\ DOMAIN ns \subseteq DOMAIN ms
  /\ \A r \in DOMAIN ns : ms[r].parents = ns[r].parents

----------------------------------------------------------------------------
(* Induction over the naturals, from the library's well-foundedness of <.    *)

Lower == {xy \in Nat \X Nat : xy[1] < xy[2]}

\* A nonempty set of naturals has a least element.
LEMMA LeastNatural ==
  ASSUME NEW S \in SUBSET Nat, S # {}
  PROVE  \E n \in S : \A m \in S : n <= m
<1>1. IsWellFoundedOn(Lower, Nat)
  <2>1. Lower = OpToRel(<, Nat)
      BY DEF Lower, OpToRel
  <2>. QED
      BY NatLessThanWellFounded, <2>1, Zenon
<1>2. \E x \in S : \A y \in S : <<y, x>> \notin Lower
    BY <1>1, WFMin, Zenon
<1>3. \A x \in S, y \in S : <<y, x>> \notin Lower => x <= y
    BY DEF Lower
<1>. QED
    BY <1>2, <1>3

\* A nonempty set of naturals below a bound has a greatest element.
LEMMA GreatestNatural ==
  ASSUME NEW S \in SUBSET Nat, S # {}, NEW k \in Nat, \A n \in S : n <= k
  PROVE  \E n \in S : \A m \in S : m <= n
<1> DEFINE above == {n \in Nat : \A m \in S : m <= n}
<1>1. PICK n \in above : \A m \in above : n <= m
    BY LeastNatural
<1>2. ASSUME n \notin S
      PROVE  FALSE
  <2>1. \A m \in S : m < n
      BY <1>1, <1>2
  <2>2. n - 1 \in Nat
    <3>1. PICK m \in S : TRUE
        OBVIOUS
    <3>. QED
        BY <2>1, <3>1
  <2>3. n - 1 \in above
      BY <2>1, <2>2
  <2>. QED
      BY <1>1, <2>3
<1>. QED
    BY <1>1, <1>2

\* A set with 0 and, with every natural in it, the next one, has them all.
LEMMA SetInduction ==
  ASSUME NEW S, 0 \in S, \A n \in Nat : n \in S => n + 1 \in S
  PROVE  Nat \subseteq S
<1> SUFFICES ASSUME Nat \ S # {}
             PROVE  FALSE
    OBVIOUS
<1>1. PICK n \in Nat \ S : \A m \in Nat \ S : n <= m
    BY LeastNatural
<1>2. n # 0 /\ n - 1 \in Nat /\ n - 1 \in S
    BY <1>1
<1>. QED
    BY <1>1, <1>2

----------------------------------------------------------------------------
(* The walks.                                                                *)

LEMMA SeqElement ==
  ASSUME NEW S, NEW seq \in Seq(S), NEW i \in DOMAIN seq
  PROVE  seq[i] \in S
  OBVIOUS

LEMMA ParentsAreEarlier ==
  ASSUME NEW ns, \A r \in DOMAIN ns : ns[r].parents \in Seq(1 .. (r - 1))
  PROVE  \A r \in DOMAIN ns : ParentsOf(ns, r) \subseteq 1 .. (r - 1)
<1> SUFFICES ASSUME NEW r \in DOMAIN ns, NEW i \in DOMAIN ns[r].parents
             PROVE  ns[r].parents[i] \in 1 .. (r - 1)
    BY DEF ParentsOf
<1>1. ns[r].parents \in Seq(1 .. (r - 1))
    OBVIOUS
<1>. QED
    BY <1>1, SeqElement

\* A revision is its own ancestor, as in ancestors(): "including revision_id".
LEMMA AncestorsSelf ==
  ASSUME NEW ns, NEW r \in DOMAIN ns
  PROVE  r \in Ancestors(ns, r)
  BY DEF Ancestors

\* Ancestors is the smallest parent-closed set with the revision in it ...
LEMMA AncestorsLeast ==
  ASSUME NEW ns, NEW r, NEW S \in SUBSET DOMAIN ns, r \in S, ParentClosed(ns, S)
  PROVE  Ancestors(ns, r) \subseteq S
  BY DEF Ancestors

\* ... and it is parent-closed itself.
LEMMA AncestorsClosed ==
  ASSUME NEW ns, ParentsStored(ns), NEW r \in DOMAIN ns
  PROVE  ParentClosed(ns, Ancestors(ns, r))
<1> SUFFICES ASSUME NEW x \in Ancestors(ns, r), NEW p \in ParentsOf(ns, x)
             PROVE  p \in Ancestors(ns, r)
    BY DEF ParentClosed
<1>1. x \in DOMAIN ns
    BY DEF Ancestors
<1>2. p \in DOMAIN ns
    BY <1>1 DEF ParentsStored, ParentClosed
<1>3. ASSUME NEW S \in SUBSET DOMAIN ns, r \in S, ParentClosed(ns, S)
      PROVE  p \in S
  <2>1. x \in S
      BY <1>3, AncestorsLeast
  <2>. QED
      BY <1>3, <2>1 DEF ParentClosed
<1>. QED
    BY <1>2, <1>3 DEF Ancestors

\* An ancestor's ancestors are ancestors.
LEMMA AncestorsTransitive ==
  ASSUME NEW ns, ParentsStored(ns), NEW r \in DOMAIN ns, NEW x \in Ancestors(ns, r)
  PROVE  Ancestors(ns, x) \subseteq Ancestors(ns, r)
<1>1. Ancestors(ns, r) \in SUBSET DOMAIN ns
    BY DEF Ancestors
<1>. QED
    BY <1>1, AncestorsClosed, AncestorsLeast

\* An ancestor is never newer than the revision, so two revisions that are
\* ancestors of each other are one.
LEMMA AncestorsNotNewer ==
  ASSUME NEW ns, ParentsStored(ns), AppendOrder(ns),
         NEW r \in DOMAIN ns, NEW x \in Ancestors(ns, r)
  PROVE  x <= r
<1> DEFINE older == {y \in DOMAIN ns : y <= r}
<1>1. r \in older
    BY DEF AppendOrder
<1>2. ParentClosed(ns, older)
  <2> SUFFICES ASSUME NEW y \in older, NEW p \in ParentsOf(ns, y)
               PROVE  p \in older
      BY DEF ParentClosed
  <2>1. p \in DOMAIN ns
      BY DEF ParentsStored, ParentClosed
  <2>2. p < y
      BY DEF AppendOrder
  <2>. QED
      BY <2>1, <2>2 DEF AppendOrder
<1>. QED
    BY <1>1, <1>2, AncestorsLeast

\* DagStore keeps ancestor sets forever (store.py:18): more nodes never change
\* the ancestors of a revision that is there already.
LEMMA AncestorsStable ==
  ASSUME NEW ns, NEW ms, ParentsStored(ns), ParentsStored(ms), Grown(ns, ms),
         NEW r \in DOMAIN ns
  PROVE  Ancestors(ms, r) = Ancestors(ns, r)
<1>1. \A y \in DOMAIN ns : ParentsOf(ms, y) = ParentsOf(ns, y)
    BY DEF Grown, ParentsOf
<1>2. r \in DOMAIN ms
    BY DEF Grown
<1>3. Ancestors(ns, r) \in SUBSET DOMAIN ms /\ Ancestors(ns, r) \in SUBSET DOMAIN ns
    BY DEF Ancestors, Grown
<1>4. Ancestors(ms, r) \subseteq Ancestors(ns, r)
  <2>1. ParentClosed(ms, Ancestors(ns, r))
      BY <1>1, <1>3, AncestorsClosed DEF ParentClosed
  <2>. QED
      BY <1>3, <2>1, AncestorsSelf, AncestorsLeast
<1>5. Ancestors(ns, r) \subseteq Ancestors(ms, r)
  <2> DEFINE S == Ancestors(ms, r) \cap DOMAIN ns
  <2>1. ParentClosed(ns, S)
      BY <1>1, <1>2, AncestorsClosed DEF ParentClosed, ParentsStored
  <2>2. r \in S /\ S \in SUBSET DOMAIN ns
      BY <1>2, AncestorsSelf
  <2>. QED
      BY <2>1, <2>2, AncestorsLeast
<1>. QED
    BY <1>4, <1>5

\* The history of a node is the node and the histories of its parents.
LEMMA AncestorsOfNode ==
  ASSUME NEW ns, ParentsStored(ns), NEW r \in DOMAIN ns
  PROVE  \A x : x \in Ancestors(ns, r) <=>
                  x = r \/ \E p \in ParentsOf(ns, r) : x \in Ancestors(ns, p)
<1> DEFINE S == {r} \cup UNION {Ancestors(ns, p) : p \in ParentsOf(ns, r)}
<1>1. ParentsOf(ns, r) \subseteq DOMAIN ns
    BY DEF ParentsStored, ParentClosed
<1>2. S \subseteq Ancestors(ns, r)
  <2>1. ParentsOf(ns, r) \subseteq Ancestors(ns, r)
      BY AncestorsSelf, AncestorsClosed DEF ParentClosed
  <2>. QED
      BY <2>1, AncestorsSelf, AncestorsTransitive
<1>3. ParentClosed(ns, S)
  <2> SUFFICES ASSUME NEW x \in S, NEW q \in ParentsOf(ns, x)
               PROVE  q \in S
      BY DEF ParentClosed
  <2>1. CASE x = r
    <3>1. q \in ParentsOf(ns, r)
        BY <2>1
    <3>2. q \in Ancestors(ns, q)
        BY <1>1, <3>1, AncestorsSelf
    <3>. QED
        BY <3>1, <3>2
  <2>2. CASE x # r
    <3>1. PICK p \in ParentsOf(ns, r) : x \in Ancestors(ns, p)
        BY <2>2
    <3>2. q \in Ancestors(ns, p)
        BY <1>1, <3>1, AncestorsClosed DEF ParentClosed
    <3>. QED
        BY <3>2
  <2>. QED
      BY <2>1, <2>2
<1>4. S \in SUBSET DOMAIN ns
    BY DEF Ancestors
<1>. QED
    BY <1>2, <1>3, <1>4, AncestorsLeast

\* rollback() only ever goes back into the branch's own history.
LEMMA FirstParentLineLeast ==
  ASSUME NEW ns, NEW r, NEW S \in SUBSET DOMAIN ns, r \in S, FirstParentClosed(ns, S)
  PROVE  FirstParentLine(ns, r) \subseteq S
  BY DEF FirstParentLine

LEMMA FirstParentLineInAncestors ==
  ASSUME NEW ns, ParentsStored(ns), NEW r \in DOMAIN ns,
         \A x \in DOMAIN ns : ns[x].parents \in Seq(DOMAIN ns)
  PROVE  FirstParentLine(ns, r) \subseteq Ancestors(ns, r)
<1>1. Ancestors(ns, r) \in SUBSET DOMAIN ns
    BY DEF Ancestors
<1>2. FirstParentClosed(ns, Ancestors(ns, r))
  <2> SUFFICES ASSUME NEW x \in Ancestors(ns, r), ns[x].parents # <<>>
               PROVE  ns[x].parents[1] \in Ancestors(ns, r)
      BY DEF FirstParentClosed, IsRoot
  <2>1. ns[x].parents \in Seq(DOMAIN ns)
      BY <1>1
  <2>2. 1 \in DOMAIN ns[x].parents
      BY <2>1
  <2>3. ns[x].parents[1] \in ParentsOf(ns, x)
      BY <2>2 DEF ParentsOf
  <2>. QED
      BY <2>3, AncestorsClosed DEF ParentClosed
<1>. QED
    BY <1>1, <1>2, AncestorsSelf, FirstParentLineLeast

\* More nodes change as little of the revisions a rollback can go to.
LEMMA FirstParentStable ==
  ASSUME NEW ns, NEW ms, Grown(ns, ms), \A x \in DOMAIN ns : ns[x].parents \in Seq(DOMAIN ns),
         NEW r \in DOMAIN ns
  PROVE  FirstParentLine(ms, r) = FirstParentLine(ns, r)
<1>1. /\ DOMAIN ns \subseteq DOMAIN ms
      /\ \A x \in DOMAIN ns : IsRoot(ms, x) <=> IsRoot(ns, x)
      /\ \A x \in DOMAIN ns : ms[x].parents[1] = ns[x].parents[1]
    BY DEF Grown, IsRoot
<1>2. ASSUME NEW x \in DOMAIN ns, ~IsRoot(ns, x)
      PROVE  ns[x].parents[1] \in DOMAIN ns
  <2>1. ns[x].parents \in Seq(DOMAIN ns) /\ ns[x].parents # <<>>
      BY <1>2 DEF IsRoot
  <2>. QED BY <2>1
<1>3. ASSUME NEW S \in SUBSET DOMAIN ns, r \in S, FirstParentClosed(ns, S)
      PROVE  FirstParentLine(ms, r) \subseteq S
  <2>1. FirstParentClosed(ms, S)
      BY <1>1, <1>3 DEF FirstParentClosed
  <2>. QED BY <1>1, <1>3, <2>1, FirstParentLineLeast
<1>4. FirstParentLine(ms, r) \subseteq DOMAIN ns
  <2>1. FirstParentClosed(ns, DOMAIN ns)
      BY <1>2 DEF FirstParentClosed
  <2>. QED BY <1>3, <2>1
<1>5. ASSUME NEW S \in SUBSET DOMAIN ms, r \in S, FirstParentClosed(ms, S)
      PROVE  FirstParentLine(ns, r) \subseteq S
  <2>1. FirstParentClosed(ns, S \cap DOMAIN ns)
      BY <1>1, <1>2, <1>5 DEF FirstParentClosed
  <2>. QED BY <1>5, <2>1, FirstParentLineLeast
<1>6. FirstParentLine(ms, r) \subseteq FirstParentLine(ns, r)
    BY <1>3, <1>4 DEF FirstParentLine
<1>7. FirstParentLine(ns, r) \subseteq FirstParentLine(ms, r)
    BY <1>1, <1>5 DEF FirstParentLine
<1>. QED BY <1>6, <1>7

\* merge()'s test for "the source is already in the target" (engine.py:53)
\* looks at the merge base alone; it is right on every DAG.
THEOREM MergeBaseIsSourceIffContained ==
  ASSUME NEW ns, ParentsStored(ns), AppendOrder(ns),
         NEW a \in DOMAIN ns, NEW b \in DOMAIN ns
  PROVE  MergeBases(ns, a, b) = {b} <=> b \in Ancestors(ns, a)
<1> DEFINE common == CommonAncestors(ns, a, b)
<1>1. CASE a = b
    BY <1>1, AncestorsSelf DEF MergeBases
<1>2. ASSUME a # b, MergeBases(ns, a, b) = {b}
      PROVE  b \in Ancestors(ns, a)
    BY <1>2 DEF MergeBases, CommonAncestors
<1>3. ASSUME a # b, b \in Ancestors(ns, a)
      PROVE  MergeBases(ns, a, b) = {b}
  <2>1. b \in common
      BY <1>3, AncestorsSelf DEF CommonAncestors
  <2>2. ASSUME NEW c \in common, \A other \in common : c \in Ancestors(ns, other) => other = c
        PROVE  c = b
      BY <2>1, <2>2 DEF CommonAncestors
  <2>3. ASSUME NEW other \in common, b \in Ancestors(ns, other)
        PROVE  other = b
    <3>1. other \in Ancestors(ns, b) /\ other \in DOMAIN ns
        BY DEF CommonAncestors, Ancestors
    <3>2. other <= b /\ b <= other
        BY <2>3, <3>1, AncestorsNotNewer
    <3>. QED
        BY <3>1, <3>2 DEF AppendOrder
  <2>. QED
      BY <1>3, <2>1, <2>2, <2>3 DEF MergeBases
<1>. QED
    BY <1>1, <1>2, <1>3

\* Every common ancestor of two revisions is in the history of a candidate of
\* merge_base (walk.py:49): the newest of the common ancestors that have it.
LEMMA EveryCommonAncestorUnderABase ==
  ASSUME NEW ns, ParentsStored(ns), AppendOrder(ns),
         NEW a \in DOMAIN ns, NEW b \in DOMAIN ns, a # b,
         NEW c \in CommonAncestors(ns, a, b)
  PROVE  \E base \in MergeBases(ns, a, b) : c \in Ancestors(ns, base)
<1> DEFINE common == CommonAncestors(ns, a, b)
           having == {x \in common : c \in Ancestors(ns, x)}
<1>1. common \subseteq DOMAIN ns /\ DOMAIN ns \subseteq Nat
    BY DEF CommonAncestors, Ancestors, AppendOrder
<1>2. c \in having
    BY <1>1, AncestorsSelf
<1>3. \A x \in having : x <= a
    BY AncestorsNotNewer DEF CommonAncestors
<1>4. PICK base \in having : \A x \in having : x <= base
  <2>1. having \in SUBSET Nat /\ having # {} /\ a \in Nat
      BY <1>1, <1>2
  <2> HIDE DEF having
  <2>. QED
      BY <1>3, <2>1, GreatestNatural
<1>5. ASSUME NEW other \in common, base \in Ancestors(ns, other)
      PROVE  other = base
  <2>1. c \in Ancestors(ns, other)
      BY <1>1, <1>5, AncestorsTransitive
  <2>2. other <= base /\ base <= other
      BY <1>1, <1>4, <1>5, <2>1, AncestorsNotNewer
  <2>. QED
      BY <1>1, <2>2
<1>6. base \in MergeBases(ns, a, b)
    BY <1>4, <1>5 DEF MergeBases
<1>. QED
    BY <1>4, <1>6

\* So where merge_base finds one candidate it has every common ancestor in its
\* history, on every DAG: comparing against it alone loses nothing.
THEOREM OneMergeBaseHasAll ==
  ASSUME NEW ns, ParentsStored(ns), AppendOrder(ns),
         NEW a \in DOMAIN ns, NEW b \in DOMAIN ns, a # b,
         NEW base, MergeBases(ns, a, b) = {base}
  PROVE  /\ base \in CommonAncestors(ns, a, b)
         /\ CommonAncestors(ns, a, b) \subseteq Ancestors(ns, base)
<1>1. base \in CommonAncestors(ns, a, b)
    BY DEF MergeBases
<1>2. \A c \in CommonAncestors(ns, a, b) : c \in Ancestors(ns, base)
    BY EveryCommonAncestorUnderABase
<1>. QED
    BY <1>1, <1>2
=============================================================================
