----------------------------- MODULE RepoProofs -----------------------------
(* The invariants and action properties of Repo, for every set of branches   *)
(* and every number of revisions, and that it implements Refs; and those of  *)
(* the web application on it, WebMerge, for any number of dialogues.         *)
EXTENDS WebMerge, DagWalkProofs, SequenceTheorems

----------------------------------------------------------------------------
(* The inductive invariant.  What the checked invariants lack: that parents  *)
(* are earlier revisions, and that since the last init everything written    *)
(* descends from the root that init made.                                    *)

ParentsEarlier == \A r \in DOMAIN nodes : nodes[r].parents \in Seq(1 .. (r - 1))

Rooted(root) ==
  /\ root \in DOMAIN nodes
  /\ IsRoot(nodes, root)
  /\ \A b \in DOMAIN heads : heads[b] >= root
  /\ \A r \in DOMAIN nodes : r >= root => root \in Ancestors(nodes, r)
  /\ \A r \in DOMAIN nodes : r > root => \A p \in ParentsOf(nodes, r) : p >= root

OneLiveRoot == DOMAIN heads # {} => \E root \in DOMAIN nodes : Rooted(root)

IInv ==
  /\ TypeOK
  /\ HeadsResolve
  /\ ParentsEarlier
  /\ CurrentAlive
  /\ ModelFileTruth
  /\ OneLiveRoot

----------------------------------------------------------------------------
(* Consequences in one state.                                                *)

\* load() gives back the heads that were saved: a branch that only replay
\* knows of is not among them.
LEMMA LoadedIsHeads ==
  ASSUME heads \in [DOMAIN heads -> Nat \ {NoRev}]
  PROVE  Loaded = heads
  BY DEF Loaded, SetHeads, ReplaceAllHeads, NoHeads

LEMMA NodesAreDag ==
  ASSUME nodes \in Seq(Node), ParentsEarlier
  PROVE  /\ ParentsStored(nodes)
         /\ AppendOrder(nodes)
         /\ \A r \in DOMAIN nodes : nodes[r].parents \in Seq(DOMAIN nodes)
<1>1. DOMAIN nodes = 1 .. Len(nodes) /\ Len(nodes) \in Nat
    OBVIOUS
<1>2. ASSUME NEW r \in DOMAIN nodes
      PROVE  /\ ParentsOf(nodes, r) \subseteq 1 .. (r - 1)
             /\ nodes[r].parents \in Seq(DOMAIN nodes)
  <2>1. nodes[r].parents \in Seq(1 .. (r - 1))
      BY DEF ParentsEarlier
  <2>2. ParentsOf(nodes, r) \subseteq 1 .. (r - 1)
      BY <2>1 DEF ParentsOf
  <2>3. 1 .. (r - 1) \subseteq DOMAIN nodes
      BY <1>1
  <2>. QED
      BY <2>1, <2>2, <2>3
<1>. QED
    BY <1>1, <1>2 DEF ParentsStored, ParentClosed, AppendOrder

\* Any two live branches have a common ancestor: the root of the last init.
LEMMA SharedRoot ==
  ASSUME IInv
  PROVE  CommonHistory
<1> SUFFICES ASSUME NEW a \in DOMAIN heads, NEW b \in DOMAIN heads
             PROVE  CommonAncestors(nodes, heads[a], heads[b]) # {}
    BY DEF CommonHistory
<1>1. PICK root \in DOMAIN nodes : Rooted(root)
    BY DEF IInv, OneLiveRoot
<1>2. root \in Ancestors(nodes, heads[a]) /\ root \in Ancestors(nodes, heads[b])
    BY <1>1 DEF Rooted, IInv, HeadsResolve
<1>. QED
    BY <1>2 DEF CommonAncestors

LEMMA ContainedSourceIsBase ==
  ASSUME IInv
  PROVE  NothingToMergeIffContained
<1>1. ParentsStored(nodes) /\ AppendOrder(nodes)
    BY NodesAreDag DEF IInv, TypeOK
<1>. QED
    BY <1>1, MergeBaseIsSourceIffContained
    DEF IInv, HeadsResolve, NothingToMergeIffContained

----------------------------------------------------------------------------
(* The kinds of step.                                                        *)

\* What appending one node does to the DAG.
LEMMA AppendedNode ==
  ASSUME nodes \in Seq(Node), ParentsEarlier, NEW b \in Branch,
         NEW ps \in Seq(DOMAIN nodes),
         nodes' = Append(nodes, [parents |-> ps, branch |-> b])
  PROVE  /\ nodes' \in Seq(Node)
         /\ DOMAIN nodes' = DOMAIN nodes \cup {Len(nodes) + 1}
         /\ \A r \in DOMAIN nodes : nodes'[r] = nodes[r]
         /\ nodes'[Len(nodes) + 1].parents = ps
         /\ ParentsEarlier'
         /\ Grown(nodes, nodes')
         /\ ParentsStored(nodes')
<1> DEFINE new == Len(nodes) + 1
<1>1. Len(nodes) \in Nat /\ DOMAIN nodes = 1 .. Len(nodes) /\ new - 1 = Len(nodes)
    OBVIOUS
<1>2. ps \in Seq(Nat \ {NoRev})
    BY <1>1 DEF NoRev
<1>3. [parents |-> ps, branch |-> b] \in Node
    BY <1>2 DEF Node
<1>4. /\ nodes' \in Seq(Node)
      /\ DOMAIN nodes' = DOMAIN nodes \cup {new}
      /\ \A r \in DOMAIN nodes : nodes'[r] = nodes[r]
      /\ nodes'[new].parents = ps
    BY <1>1, <1>3
<1>5. ParentsEarlier'
  <2> SUFFICES ASSUME NEW r \in DOMAIN nodes'
               PROVE  nodes'[r].parents \in Seq(1 .. (r - 1))
      BY DEF ParentsEarlier
  <2>1. CASE r = new
      BY <1>1, <1>4, <2>1
  <2>2. CASE r # new
      BY <1>4, <2>2 DEF ParentsEarlier
  <2>. QED
      BY <2>1, <2>2
<1>6. Grown(nodes, nodes')
    BY <1>4 DEF Grown
<1>7. ParentsStored(nodes')
  <2> SUFFICES ASSUME NEW r \in DOMAIN nodes'
               PROVE  ParentsOf(nodes', r) \subseteq DOMAIN nodes'
      BY DEF ParentsStored, ParentClosed
  <2>1. nodes'[r].parents \in Seq(1 .. (r - 1)) /\ 1 .. (r - 1) \subseteq DOMAIN nodes'
      BY <1>1, <1>4, <1>5 DEF ParentsEarlier
  <2>. QED
      BY <2>1 DEF ParentsOf
<1>. QED
    BY <1>4, <1>5, <1>6, <1>7

\* The old revisions keep their ancestors, and the new one is below whatever
\* all its parents are below.
LEMMA AppendedAncestors ==
  ASSUME nodes \in Seq(Node), ParentsEarlier, NEW b \in Branch,
         NEW ps \in Seq(DOMAIN nodes),
         nodes' = Append(nodes, [parents |-> ps, branch |-> b])
  PROVE  /\ \A r \in DOMAIN nodes : Ancestors(nodes', r) = Ancestors(nodes, r)
         /\ \A x : x \in Ancestors(nodes', Len(nodes) + 1) <=>
                     \/ x = Len(nodes) + 1
                     \/ \E i \in DOMAIN ps : x \in Ancestors(nodes, ps[i])
<1> DEFINE new == Len(nodes) + 1
<1>1. /\ ParentsStored(nodes) /\ ParentsStored(nodes') /\ Grown(nodes, nodes')
      /\ new \in DOMAIN nodes'
      /\ nodes'[new].parents = ps
    BY NodesAreDag, AppendedNode
<1>2. \A r \in DOMAIN nodes : Ancestors(nodes', r) = Ancestors(nodes, r)
    BY <1>1, AncestorsStable
<1>3. \A i \in DOMAIN ps : Ancestors(nodes', ps[i]) = Ancestors(nodes, ps[i])
    BY <1>2
<1>4. \A x : x \in Ancestors(nodes', new) <=>
               x = new \/ \E p \in ParentsOf(nodes', new) : x \in Ancestors(nodes', p)
  <2> HIDE DEF new
  <2>. QED
      BY <1>1, AncestorsOfNode
<1>. QED
    BY <1>1, <1>2, <1>3, <1>4 DEF ParentsOf

\* What is wrong with a revision stays wrong, and only the new one can join.
LEMMA NewSchemaGrows ==
  ASSUME TypeOK, NEW ps \in Seq(Nat), NewSchema(ps)
  PROVE  /\ unrenderable \subseteq unrenderable'
         /\ unrenderable' \subseteq unrenderable \cup {Len(nodes) + 1}
         /\ unreplayable' \subseteq unrenderable'
  BY DEF TypeOK, NewSchema

LEMMA SyncKeepsFileTypes ==
  ASSUME rendered \in [Branch -> Nat], edited \subseteq Branch,
         NEW b \in Branch, NEW rev \in Nat, SyncModelFile(rev, b)
  PROVE  rendered' \in [Branch -> Nat] /\ edited' \subseteq Branch
  BY DEF SyncModelFile

\* A head put somewhere in the store and its file rendered from there, if it
\* can be.
LEMMA SyncedHead ==
  ASSUME TypeOK, ModelFileTruth, NEW b \in Branch, NEW rev \in Nat \ {NoRev},
         NEW hs, hs = heads \/ hs = NoHeads,
         unrenderable \subseteq unrenderable',
         SaveAndSync(Put(hs, b, rev), b)
  PROVE  /\ DOMAIN heads' = DOMAIN hs \cup {b}
         /\ heads' \in [DOMAIN heads' -> Nat \ {NoRev}]
         /\ heads'[b] = rev
         /\ \A a \in DOMAIN hs : a # b => heads'[a] = heads[a]
         /\ DOMAIN hs \subseteq DOMAIN heads
         /\ rendered' \in [Branch -> Nat]
         /\ edited' \subseteq Branch
         /\ ModelFileTruth'
<1>1. /\ DOMAIN hs \subseteq DOMAIN heads /\ DOMAIN heads \subseteq Branch
      /\ \A a \in DOMAIN hs : hs[a] = heads[a] /\ heads[a] \in Nat \ {NoRev}
    BY DEF TypeOK, NoHeads
<1>2. heads' = [a \in DOMAIN hs \cup {b} |-> IF a = b THEN rev ELSE hs[a]]
    BY DEF SaveAndSync, Put
<1>3. \/ /\ rev \notin unrenderable'
         /\ rendered' = [rendered EXCEPT ![b] = rev] /\ edited' = edited \ {b}
      \/ rev \in unrenderable' /\ rendered' = rendered /\ edited' = edited
    BY DEF SaveAndSync, SyncModelFile, Put
<1>4. rendered' \in [Branch -> Nat] /\ edited' \subseteq Branch
    BY <1>3 DEF TypeOK
<1>5. ModelFileTruth'
  <2> SUFFICES ASSUME NEW a \in DOMAIN heads', a \notin edited', heads'[a] \notin unrenderable'
               PROVE  rendered'[a] = heads'[a]
      BY DEF ModelFileTruth
  <2>1. CASE a = b
      BY <1>2, <1>3, <2>1 DEF TypeOK
  <2>2. CASE a # b
    <3>1. /\ a \in DOMAIN hs /\ a \notin edited /\ heads'[a] = heads[a]
          /\ heads[a] \notin unrenderable
        BY <1>1, <1>2, <1>3, <2>2
    <3>2. rendered'[a] = rendered[a]
        BY <1>1, <1>3, <2>2, <3>1 DEF TypeOK
    <3>. QED
        BY <1>1, <3>1, <3>2 DEF ModelFileTruth
  <2>. QED
      BY <2>1, <2>2
<1>. QED
    BY <1>1, <1>2, <1>4, <1>5

----------------------------------------------------------------------------
(* Each command keeps the invariant.                                         *)

\* Moving or creating one branch: create, rollback and fast-forward.
LEMMA MoveKeepsIInv ==
  ASSUME IInv, NEW b \in Branch, NEW root \in DOMAIN nodes, Rooted(root),
         NEW rev \in DOMAIN nodes, rev >= root,
         SaveAndSync(Put(Loaded, b, rev), b), UNCHANGED <<nodes, faults>>,
         current' = b \/ current' = current
  PROVE  IInv'
<1>1. Loaded = heads
    BY LoadedIsHeads DEF IInv, TypeOK
<1>2. DOMAIN nodes = 1 .. Len(nodes) /\ Len(nodes) \in Nat
    BY DEF IInv, TypeOK
<1>3. rev \in Nat \ {NoRev}
    BY <1>2 DEF NoRev
<1>4. /\ DOMAIN heads' = DOMAIN heads \cup {b}
      /\ heads' \in [DOMAIN heads' -> Nat \ {NoRev}]
      /\ heads'[b] = rev
      /\ \A a \in DOMAIN heads : a # b => heads'[a] = heads[a]
      /\ rendered' \in [Branch -> Nat]
      /\ edited' \subseteq Branch
      /\ ModelFileTruth'
    BY <1>1, <1>3, SyncedHead DEF IInv, faults
<1>5. TypeOK'
    BY <1>4 DEF IInv, TypeOK, faults
<1>6. HeadsResolve'
    BY <1>4 DEF IInv, HeadsResolve
<1>7. ParentsEarlier'
    BY DEF IInv, ParentsEarlier
<1>8. CurrentAlive'
    BY <1>4 DEF IInv, CurrentAlive
<1>9. Rooted(root)'
    BY <1>4 DEF Rooted
<1>10. OneLiveRoot'
    BY <1>9 DEF OneLiveRoot
<1>. QED
    BY <1>4, <1>5, <1>6, <1>7, <1>8, <1>10 DEF IInv

\* A commit or a merge node on top of live heads.
LEMMA AppendKeepsIInv ==
  ASSUME IInv, NEW b \in DOMAIN heads, NEW ps \in Seq({heads[a] : a \in DOMAIN heads}),
         ps # <<>>, AppendAndSync(Loaded, b, ps),
         current' = b \/ current' = current
  PROVE  IInv'
<1>0. PICK new \in Nat \ {NoRev} : new = Len(nodes) + 1
    BY DEF IInv, TypeOK, NoRev
<1>1. Loaded = heads
    BY LoadedIsHeads DEF IInv, TypeOK
<1>2. DOMAIN nodes = 1 .. Len(nodes) /\ Len(nodes) \in Nat
    BY DEF IInv, TypeOK
<1>3. ps \in Seq(DOMAIN nodes) /\ b \in Branch
    BY DEF IInv, HeadsResolve, TypeOK
<1>4. nodes' = Append(nodes, [parents |-> ps, branch |-> b])
    BY DEF AppendAndSync
<1>5. /\ nodes' \in Seq(Node)
      /\ DOMAIN nodes' = DOMAIN nodes \cup {new}
      /\ \A r \in DOMAIN nodes : nodes'[r] = nodes[r]
      /\ nodes'[new].parents = ps
      /\ ParentsEarlier'
    BY <1>0, <1>3, <1>4, AppendedNode DEF IInv, TypeOK
<1>6. /\ \A r \in DOMAIN nodes : Ancestors(nodes', r) = Ancestors(nodes, r)
      /\ \A x : x \in Ancestors(nodes', new) <=>
                  x = new \/ \E i \in DOMAIN ps : x \in Ancestors(nodes, ps[i])
    BY <1>0, <1>3, <1>4, AppendedAncestors DEF IInv, TypeOK
<1>16. /\ unrenderable \subseteq unrenderable'
       /\ unrenderable' \subseteq unrenderable \cup {Len(nodes) + 1}
       /\ unreplayable' \subseteq unrenderable'
    BY <1>2, <1>3, NewSchemaGrows DEF IInv, AppendAndSync
<1>7. /\ DOMAIN heads' = DOMAIN heads
      /\ heads' \in [DOMAIN heads' -> Nat \ {NoRev}]
      /\ heads'[b] = new
      /\ \A a \in DOMAIN heads : a # b => heads'[a] = heads[a]
      /\ rendered' \in [Branch -> Nat]
      /\ edited' \subseteq Branch
      /\ ModelFileTruth'
  <2>1. SaveAndSync(Put(heads, b, new), b)
      BY <1>0, <1>1 DEF AppendAndSync
  <2>2. DOMAIN heads \cup {b} = DOMAIN heads
      OBVIOUS
  <2>3. TypeOK /\ ModelFileTruth
      BY DEF IInv
  <2>. QED
      BY <1>3, <1>16, <2>1, <2>2, <2>3, SyncedHead
<1>8. TypeOK'
    BY <1>0, <1>3, <1>5, <1>7, <1>16 DEF IInv, TypeOK
<1>9. HeadsResolve'
  <2>1. \A a \in DOMAIN heads' : heads'[a] \in DOMAIN nodes'
      BY <1>5, <1>7 DEF IInv, HeadsResolve
  <2>2. \A r \in DOMAIN nodes' : ParentsOf(nodes', r) \subseteq 1 .. (r - 1)
      BY <1>5, ParentsAreEarlier DEF ParentsEarlier
  <2>. QED
      BY <2>1, <2>2 DEF HeadsResolve
<1>10. CurrentAlive'
    BY <1>7 DEF IInv, CurrentAlive
<1>11. PICK root \in DOMAIN nodes : Rooted(root)
    BY DEF IInv, OneLiveRoot
<1>12. \A i \in DOMAIN ps : /\ ps[i] \in DOMAIN nodes /\ ps[i] >= root
                            /\ root \in Ancestors(nodes, ps[i])
    BY <1>3, <1>11 DEF Rooted
<1>13. 1 \in DOMAIN ps
    BY <1>3
<1>14. Rooted(root)'
  <2>1. root \in DOMAIN nodes' /\ IsRoot(nodes', root)
      BY <1>5, <1>11 DEF Rooted, IsRoot
  <2>2. \A a \in DOMAIN heads' : heads'[a] >= root
      BY <1>0, <1>2, <1>7, <1>11 DEF Rooted
  <2>3. \A r \in DOMAIN nodes' : r >= root => root \in Ancestors(nodes', r)
    <3>1. root \in Ancestors(nodes', new)
        BY <1>6, <1>12, <1>13
    <3>. QED
        BY <1>5, <1>6, <1>11, <3>1 DEF Rooted
  <2>4. \A r \in DOMAIN nodes' : r > root => \A p \in ParentsOf(nodes', r) : p >= root
      BY <1>5, <1>11, <1>12 DEF Rooted, ParentsOf
  <2>. QED
      BY <2>1, <2>2, <2>3, <2>4 DEF Rooted
<1>15. OneLiveRoot'
    BY <1>5, <1>14 DEF OneLiveRoot
<1>. QED
    BY <1>5, <1>7, <1>8, <1>9, <1>10, <1>15 DEF IInv

\* init: its root is the one every live branch has from now on.
LEMMA InitKeepsIInv ==
  ASSUME IInv, InitRepo
  PROVE  IInv'
<1>0. PICK new \in Nat \ {NoRev} : new = Len(nodes) + 1
    BY DEF IInv, TypeOK, NoRev
<1>1. DOMAIN nodes = 1 .. Len(nodes) /\ Len(nodes) \in Nat
    BY DEF IInv, TypeOK
<1>2. nodes' = Append(nodes, [parents |-> <<>>, branch |-> Main]) /\ Main \in Branch
    BY BranchAssumption DEF InitRepo, AppendAndSync
<1>3. <<>> \in Seq(DOMAIN nodes)
    OBVIOUS
<1>4. /\ nodes' \in Seq(Node)
      /\ DOMAIN nodes' = DOMAIN nodes \cup {new}
      /\ nodes'[new].parents = <<>>
      /\ ParentsEarlier'
    BY <1>0, <1>2, <1>3, AppendedNode DEF IInv, TypeOK
<1>5. new \in Ancestors(nodes', new)
    BY <1>4, AncestorsSelf
<1>13. /\ unrenderable \subseteq unrenderable'
       /\ unrenderable' \subseteq unrenderable \cup {Len(nodes) + 1}
       /\ unreplayable' \subseteq unrenderable'
  <2>1. NewSchema(<<>>) /\ <<>> \in Seq(Nat)
      BY DEF InitRepo, AppendAndSync
  <2>. QED
      BY <2>1, NewSchemaGrows DEF IInv
<1>6. /\ DOMAIN heads' = {Main}
      /\ heads' \in [DOMAIN heads' -> Nat \ {NoRev}]
      /\ heads'[Main] = new
      /\ rendered' \in [Branch -> Nat]
      /\ edited' \subseteq Branch
      /\ ModelFileTruth'
  <2>1. SaveAndSync(Put(NoHeads, Main, new), Main)
      BY <1>0 DEF InitRepo, AppendAndSync
  <2>2. DOMAIN NoHeads = {}
      BY DEF NoHeads
  <2>3. TypeOK /\ ModelFileTruth /\ unrenderable \subseteq unrenderable'
      BY <1>13 DEF IInv
  <2>4. DOMAIN NoHeads \cup {Main} = {Main}
      BY <2>2
  <2>. QED
      BY <1>0, <1>2, <2>1, <2>3, <2>4, SyncedHead
<1>7. TypeOK'
    BY <1>0, <1>2, <1>4, <1>6, <1>13 DEF IInv, TypeOK, InitRepo
<1>8. HeadsResolve'
  <2>1. \A r \in DOMAIN nodes' : ParentsOf(nodes', r) \subseteq 1 .. (r - 1)
      BY <1>4, ParentsAreEarlier DEF ParentsEarlier
  <2>. QED
      BY <1>4, <1>6, <2>1 DEF HeadsResolve
<1>9. CurrentAlive'
    BY <1>6 DEF CurrentAlive, InitRepo
<1>10. Rooted(new)'
  <2>1. \A r \in DOMAIN nodes' : r >= new => r = new
      BY <1>0, <1>1, <1>4
  <2>2. \A r \in DOMAIN nodes' : ~(r > new)
      BY <1>0, <1>1, <1>4
  <2>. QED
      BY <1>1, <1>4, <1>5, <1>6, <2>1, <2>2 DEF Rooted, IsRoot
<1>11. OneLiveRoot'
    BY <1>4, <1>10 DEF OneLiveRoot
<1>. QED
    BY <1>4, <1>6, <1>7, <1>8, <1>9, <1>11 DEF IInv

\* Going back along first parents never passes the root of the last init.
LEMMA RollbackStaysRooted ==
  ASSUME IInv, NEW root \in DOMAIN nodes, Rooted(root), NEW b \in DOMAIN heads,
         NEW rev \in FirstParentLine(nodes, heads[b])
  PROVE  rev \in DOMAIN nodes /\ rev >= root
<1> DEFINE above == {r \in DOMAIN nodes : r >= root}
<1>1. heads[b] \in above
    BY DEF IInv, HeadsResolve, Rooted
<1>2. \A r \in DOMAIN nodes : nodes[r].parents \in Seq(DOMAIN nodes)
    BY NodesAreDag DEF IInv, TypeOK
<1>3. FirstParentClosed(nodes, above)
  <2> SUFFICES ASSUME NEW r \in above, nodes[r].parents # <<>>
               PROVE  nodes[r].parents[1] \in above
      BY DEF FirstParentClosed, IsRoot
  <2>1. nodes[r].parents \in Seq(DOMAIN nodes) /\ 1 \in DOMAIN nodes[r].parents
      BY <1>2
  <2>2. nodes[r].parents[1] \in DOMAIN nodes /\ nodes[r].parents[1] \in ParentsOf(nodes, r)
      BY <2>1, SeqElement DEF ParentsOf
  <2>3. r > root
      BY DEF Rooted, IsRoot, IInv, TypeOK
  <2>. QED
      BY <2>2, <2>3 DEF Rooted
<1>. QED
    BY <1>1, <1>3, FirstParentLineLeast

LEMMA NextKeepsIInv ==
  ASSUME IInv, [Next]_vars
  PROVE  IInv'
<1>1. /\ Loaded = heads
      /\ \A b : HasBranch(b) <=> b \in DOMAIN heads
      /\ DOMAIN heads \subseteq Branch
      /\ \A b \in DOMAIN heads : heads[b] \in DOMAIN nodes
    BY LoadedIsHeads DEF IInv, TypeOK, HasBranch, HeadsResolve
<1>2. DOMAIN heads # {} => \E root \in DOMAIN nodes : Rooted(root)
    BY DEF IInv, OneLiveRoot
<1>3. CASE InitRepo
    BY <1>3, InitKeepsIInv
<1>4. ASSUME NEW b \in Branch, DeleteBranch(b)
      PROVE  IInv'
  <2>1. /\ b # current /\ b \in DOMAIN heads
        /\ heads' = [a \in DOMAIN heads \ {b} |-> heads[a]]
        /\ UNCHANGED <<nodes, current, rendered, edited, unrenderable, unreplayable>>
      BY <1>1, <1>4 DEF DeleteBranch, Remove, faults
  <2>2. PICK root \in DOMAIN nodes : Rooted(root)
      BY <1>2, <2>1
  <2>3. TypeOK' /\ ParentsEarlier' /\ CurrentAlive' /\ HeadsResolve'
      BY <2>1 DEF IInv, TypeOK, HeadsResolve, ParentsEarlier, CurrentAlive
  <2>4. ModelFileTruth'
      BY <2>1 DEF IInv, ModelFileTruth
  <2>5. Rooted(root)'
      BY <2>1, <2>2 DEF Rooted
  <2>6. OneLiveRoot'
      BY <2>1, <2>5 DEF OneLiveRoot
  <2>. QED
      BY <2>3, <2>4, <2>6 DEF IInv
<1>5. ASSUME NEW b \in Branch, Checkout(b)
      PROVE  IInv'
    BY <1>1, <1>5
    DEF Checkout, faults, IInv, TypeOK, HeadsResolve, ParentsEarlier, CurrentAlive,
        ModelFileTruth, OneLiveRoot, Rooted
<1>6. ASSUME NEW b \in Branch, EditFile(b)
      PROVE  IInv'
    BY <1>6
    DEF EditFile, faults, IInv, TypeOK, HeadsResolve, ParentsEarlier, CurrentAlive,
        ModelFileTruth, OneLiveRoot, Rooted
<1>7. ASSUME NEW b \in Branch, Migrate(b) \/ Sync(b)
      PROVE  IInv'
  <2>1. b \in DOMAIN heads /\ AppendAndSync(Loaded, b, <<heads[b]>>) /\ UNCHANGED current
      BY <1>1, <1>7 DEF Migrate, Sync
  <2>2. <<heads[b]>> \in Seq({heads[a] : a \in DOMAIN heads}) /\ <<heads[b]>> # <<>>
      BY <2>1
  <2>. QED
      BY <2>1, <2>2, AppendKeepsIInv
<1>8. ASSUME NEW name \in Branch, NEW from \in Branch, CreateBranch(name, from)
      PROVE  IInv'
  <2>1. /\ from \in DOMAIN heads /\ SaveAndSync(Put(Loaded, name, heads[from]), name)
        /\ current' = name \/ current' = current
        /\ UNCHANGED <<nodes, faults>>
      BY <1>1, <1>8 DEF CreateBranch
  <2>2. PICK root \in DOMAIN nodes : Rooted(root)
      BY <1>2, <2>1
  <2>3. heads[from] \in DOMAIN nodes /\ heads[from] >= root
      BY <1>1, <2>1, <2>2 DEF Rooted
  <2>. QED
      BY <2>1, <2>2, <2>3, MoveKeepsIInv
<1>9. ASSUME NEW b \in Branch, NEW rev \in DOMAIN nodes, Rollback(b, rev)
      PROVE  IInv'
  <2>1. /\ b \in DOMAIN heads /\ rev \in FirstParentLine(nodes, heads[b])
        /\ SaveAndSync(Put(Loaded, b, rev), b) /\ UNCHANGED <<nodes, current, faults>>
      BY <1>1, <1>9 DEF Rollback
  <2>2. PICK root \in DOMAIN nodes : Rooted(root)
      BY <1>2, <2>1
  <2>3. rev >= root
      BY <2>1, <2>2, RollbackStaysRooted
  <2>. QED
      BY <2>1, <2>2, <2>3, MoveKeepsIInv
<1>10. ASSUME NEW t \in Branch, NEW s \in Branch, Merge(t, s)
       PROVE  IInv'
  <2>1. t \in DOMAIN heads /\ s \in DOMAIN heads /\ UNCHANGED current
      BY <1>1, <1>10 DEF Merge
  <2>2. PICK root \in DOMAIN nodes : Rooted(root)
      BY <1>2, <2>1
  <2>3. CASE FastForward(t, s)
    <3>1. SaveAndSync(Put(Loaded, t, heads[s]), t) /\ UNCHANGED <<nodes, faults>>
        BY <1>1, <2>3 DEF FastForward
    <3>2. heads[s] \in DOMAIN nodes /\ heads[s] >= root
        BY <1>1, <2>1, <2>2 DEF Rooted
    <3>. QED
        BY <2>1, <2>2, <3>1, <3>2, MoveKeepsIInv
  <2>4. CASE TrueMerge(t, s)
    <3>1. AppendAndSync(Loaded, t, <<heads[t], heads[s]>>)
        BY <1>1, <2>4 DEF TrueMerge
    <3>2. /\ <<heads[t], heads[s]>> \in Seq({heads[a] : a \in DOMAIN heads})
          /\ <<heads[t], heads[s]>> # <<>>
        BY <2>1
    <3>. QED
        BY <2>1, <3>1, <3>2, AppendKeepsIInv
  <2>. QED
      BY <1>10, <2>3, <2>4 DEF Merge
<1>11. CASE UNCHANGED vars
    BY <1>11
    DEF vars, faults, IInv, TypeOK, HeadsResolve, ParentsEarlier, CurrentAlive,
        ModelFileTruth, OneLiveRoot, Rooted
<1>. QED
    BY <1>3, <1>4, <1>5, <1>6, <1>7, <1>8, <1>9, <1>10, <1>11 DEF Next

----------------------------------------------------------------------------
(* The theorems about single states.                                         *)

LEMMA InitIInv == Init => IInv
<1> SUFFICES ASSUME Init PROVE IInv
    OBVIOUS
<1>1. DOMAIN nodes = {} /\ DOMAIN heads = {}
    BY DEF Init, NoHeads
<1>2. TypeOK
    BY <1>1 DEF Init, TypeOK, NoRev, NoHeads
<1>. QED
    BY <1>1, <1>2
    DEF Init, IInv, HeadsResolve, ParentsEarlier, CurrentAlive, ModelFileTruth, OneLiveRoot

\* The inductive invariant holds in every state of every repository.
THEOREM Inductive == Spec => []IInv
<1>1. Init => IInv
    BY InitIInv
<1>2. IInv /\ [Next]_vars => IInv'
    BY NextKeepsIInv
<1>. QED
    BY <1>1, <1>2, PTL DEF Spec

\* The five files always have the shape load() expects.
THEOREM TypeCorrect == Spec => []TypeOK
<1>1. IInv => TypeOK
    BY DEF IInv
<1>. QED
    BY <1>1, Inductive, PTL

\* load() never meets a head or a parent that is not stored (store.py:45-61).
THEOREM HeadsAlwaysResolve == Spec => []HeadsResolve
<1>1. IInv => HeadsResolve
    BY DEF IInv
<1>. QED
    BY <1>1, Inductive, PTL

\* HEAD names a live branch once the repository exists (branch_cmd.py:28).
THEOREM CurrentAlwaysAlive == Spec => []CurrentAlive
<1>1. IInv => CurrentAlive
    BY DEF IInv
<1>. QED
    BY <1>1, Inductive, PTL

\* Between commands an unedited .schema file shows its branch's head if that can
\* be rendered at all, also after commands that raised in sync_model_file
\* (sync.py:15) with the head already saved.
THEOREM ModelFileAlwaysTrue == Spec => []ModelFileTruth
<1>1. IInv => ModelFileTruth
    BY DEF IInv
<1>. QED
    BY <1>1, Inductive, PTL

\* merge_base never finds the common history empty (walk.py:46), whatever was
\* rolled back, deleted or initialised again.
THEOREM AlwaysCommonHistory == Spec => []CommonHistory
<1>1. IInv => CommonHistory
    BY SharedRoot
<1>. QED
    BY <1>1, Inductive, PTL

\* "Nothing to merge" is reported exactly when the target contains the source.
THEOREM NothingToMergeIsExact == Spec => []NothingToMergeIffContained
<1>1. IInv => NothingToMergeIffContained
    BY ContainedSourceIsBase
<1>. QED
    BY <1>1, Inductive, PTL

----------------------------------------------------------------------------
(* The theorems about steps.  Outside init a command does one of three       *)
(* things to the graph and its heads.                                        *)

\* One branch goes to a revision some live branch can reach: one of the
\* branch's own first-parent line, or one that has its whole history.
Moves(b, rev) ==
  /\ rev \in DOMAIN nodes /\ rev \in Reachable(nodes, heads)
  /\ nodes' = nodes /\ heads' = Put(heads, b, rev)
  /\ b \in DOMAIN heads =>
       \/ rev \in FirstParentLine(nodes, heads[b])
       \/ Ancestors(nodes, heads[b]) \subseteq Ancestors(nodes, rev)

Drops(b) == nodes' = nodes /\ heads' = Remove(heads, b)

\* One live branch gets a new node on top of its head and perhaps another's.
Grows(b, ps) ==
  /\ b \in DOMAIN heads
  /\ ps \in Seq({heads[a] : a \in DOMAIN heads}) /\ ps # <<>> /\ ps[1] = heads[b]
  /\ ps = <<heads[b]>> \/ \E s \in DOMAIN heads : ps = <<heads[b], heads[s]>>
  /\ nodes' = Append(nodes, [parents |-> ps, branch |-> b])
  /\ heads' = Put(heads, b, Len(nodes) + 1)

LEMMA HeadReachable ==
  ASSUME IInv, NEW b \in DOMAIN heads
  PROVE  Ancestors(nodes, heads[b]) \subseteq Reachable(nodes, heads)
  BY DEF Reachable

LEMMA StepKinds ==
  ASSUME IInv, [Next]_vars, ~InitRepo
  PROVE  \/ nodes' = nodes /\ heads' = heads
         \/ \E b \in Branch : Drops(b)
         \/ \E b \in Branch, rev \in DOMAIN nodes : Moves(b, rev)
         \/ \E b \in Branch, ps \in Seq({heads[a] : a \in DOMAIN heads}) : Grows(b, ps)
<1>1. /\ Loaded = heads
      /\ \A b : HasBranch(b) <=> b \in DOMAIN heads
      /\ \A b \in DOMAIN heads : heads[b] \in DOMAIN nodes
    BY LoadedIsHeads DEF IInv, TypeOK, HasBranch, HeadsResolve
<1>2. \A b \in DOMAIN heads : /\ heads[b] \in Ancestors(nodes, heads[b])
                              /\ heads[b] \in Reachable(nodes, heads)
    BY <1>1, AncestorsSelf, HeadReachable
<1>3. ParentsStored(nodes) /\ \A r \in DOMAIN nodes : nodes[r].parents \in Seq(DOMAIN nodes)
    BY NodesAreDag DEF IInv, TypeOK
<1>4. ASSUME NEW b \in Branch, DeleteBranch(b)
      PROVE  Drops(b)
    BY <1>1, <1>4 DEF DeleteBranch, Drops
<1>5. ASSUME NEW b \in Branch, Checkout(b) \/ EditFile(b)
      PROVE  nodes' = nodes /\ heads' = heads
    BY <1>5 DEF Checkout, EditFile
<1>6. ASSUME NEW b \in Branch, Migrate(b) \/ Sync(b)
      PROVE  Grows(b, <<heads[b]>>)
  <2>1. b \in DOMAIN heads /\ AppendAndSync(heads, b, <<heads[b]>>)
      BY <1>1, <1>6 DEF Migrate, Sync
  <2>2. <<heads[b]>> \in Seq({heads[a] : a \in DOMAIN heads})
      BY <2>1
  <2>. QED
      BY <2>1, <2>2 DEF AppendAndSync, SaveAndSync, Grows
<1>7. ASSUME NEW name \in Branch, NEW from \in Branch, CreateBranch(name, from)
      PROVE  from \in DOMAIN heads /\ Moves(name, heads[from])
    BY <1>1, <1>2, <1>7 DEF CreateBranch, SaveAndSync, Moves
<1>8. ASSUME NEW b \in Branch, NEW rev \in DOMAIN nodes, Rollback(b, rev)
      PROVE  Moves(b, rev)
  <2>1. /\ b \in DOMAIN heads /\ rev \in FirstParentLine(nodes, heads[b])
        /\ nodes' = nodes /\ heads' = Put(heads, b, rev)
      BY <1>1, <1>8 DEF Rollback, SaveAndSync
  <2>2. rev \in Reachable(nodes, heads)
      BY <1>1, <1>3, <2>1, FirstParentLineInAncestors, HeadReachable
  <2>. QED
      BY <2>1, <2>2 DEF Moves
<1>9. ASSUME NEW t \in Branch, NEW s \in Branch, Merge(t, s)
      PROVE  \/ s \in DOMAIN heads /\ Moves(t, heads[s])
             \/ s \in DOMAIN heads /\ Grows(t, <<heads[t], heads[s]>>)
  <2>1. t \in DOMAIN heads /\ s \in DOMAIN heads
      BY <1>1, <1>9 DEF Merge
  <2>2. PICK base \in MergeBases(nodes, heads[t], heads[s]) :
               \/ base = heads[t] /\ FastForward(t, s)
               \/ TrueMerge(t, s)
      BY <1>1, <1>9 DEF Merge, IsFastForward
  <2>3. CASE base = heads[t] /\ FastForward(t, s)
    <3>1. nodes' = nodes /\ heads' = Put(heads, t, heads[s])
        BY <1>1, <2>3 DEF FastForward, SaveAndSync
    <3>2. heads[t] \in Ancestors(nodes, heads[s])
        BY <1>2, <2>1, <2>2, <2>3 DEF MergeBases, CommonAncestors
    <3>3. Ancestors(nodes, heads[t]) \subseteq Ancestors(nodes, heads[s])
        BY <1>1, <1>3, <2>1, <3>2, AncestorsTransitive
    <3>. QED
        BY <1>1, <1>2, <2>1, <3>1, <3>3 DEF Moves
  <2>4. CASE TrueMerge(t, s)
    <3>1. <<heads[t], heads[s]>> \in Seq({heads[a] : a \in DOMAIN heads})
        BY <2>1
    <3>. QED
        BY <1>1, <2>1, <2>4, <3>1 DEF TrueMerge, AppendAndSync, SaveAndSync, Grows
  <2>. QED
      BY <2>2, <2>3, <2>4
<1>10. CASE UNCHANGED vars
    BY <1>10 DEF vars
<1>11. \A t, s \in Branch : Merge(t, s) =>
          \/ \E b \in Branch, rev \in DOMAIN nodes : Moves(b, rev)
          \/ \E b \in Branch, ps \in Seq({heads[a] : a \in DOMAIN heads}) : Grows(b, ps)
    BY <1>1, <1>9 DEF Grows
<1>12. \A b \in Branch : Migrate(b) \/ Sync(b) =>
          \E ps \in Seq({heads[a] : a \in DOMAIN heads}) : Grows(b, ps)
    BY <1>6 DEF Grows
<1>. QED
    BY <1>1, <1>4, <1>5, <1>7, <1>8, <1>10, <1>11, <1>12 DEF Next

LEMMA GrownAncestors ==
  ASSUME IInv, NEW b \in Branch, NEW ps, Grows(b, ps)
  PROVE  /\ DOMAIN nodes \subseteq DOMAIN nodes'
         /\ Len(nodes) + 1 \notin DOMAIN nodes
         /\ \A r \in DOMAIN nodes : Ancestors(nodes', r) = Ancestors(nodes, r)
         /\ \A i \in DOMAIN ps : /\ ps[i] \in DOMAIN nodes
                                 /\ Ancestors(nodes, ps[i]) \subseteq Reachable(nodes, heads)
         /\ \A x : x \in Ancestors(nodes', Len(nodes) + 1) <=>
                     \/ x = Len(nodes) + 1
                     \/ \E i \in DOMAIN ps : x \in Ancestors(nodes, ps[i])
<1>1. ps \in Seq(DOMAIN nodes) /\ nodes \in Seq(Node) /\ ParentsEarlier
    BY DEF Grows, IInv, TypeOK, HeadsResolve
<1>2. nodes' = Append(nodes, [parents |-> ps, branch |-> b])
    BY DEF Grows
<1>3. \A i \in DOMAIN ps : /\ ps[i] \in DOMAIN nodes
                           /\ Ancestors(nodes, ps[i]) \subseteq Reachable(nodes, heads)
  <2> SUFFICES ASSUME NEW i \in DOMAIN ps
               PROVE  /\ ps[i] \in DOMAIN nodes
                      /\ Ancestors(nodes, ps[i]) \subseteq Reachable(nodes, heads)
      OBVIOUS
  <2>1. ps[i] \in {heads[a] : a \in DOMAIN heads}
      BY SeqElement DEF Grows
  <2>. QED
      BY <2>1 DEF Reachable, IInv, HeadsResolve
<1>4. DOMAIN nodes \subseteq DOMAIN nodes' /\ Len(nodes) + 1 \notin DOMAIN nodes
    BY <1>1, <1>2
<1>. QED
    BY <1>1, <1>2, <1>3, <1>4, AppendedAncestors

LEMMA StepKeepsAncestors ==
  ASSUME IInv, [Next]_vars
  PROVE  \A r \in DOMAIN nodes : /\ r \in DOMAIN nodes'
                                 /\ Ancestors(nodes', r) = Ancestors(nodes, r)
<1>1. CASE InitRepo
  <2>1. nodes' = Append(nodes, [parents |-> <<>>, branch |-> Main]) /\ Main \in Branch
      BY <1>1, BranchAssumption DEF InitRepo, AppendAndSync
  <2>2. <<>> \in Seq(DOMAIN nodes) /\ nodes \in Seq(Node) /\ ParentsEarlier
      BY DEF IInv, TypeOK
  <2>3. DOMAIN nodes \subseteq DOMAIN nodes'
      BY <2>1, <2>2
  <2>. QED
      BY <2>1, <2>2, <2>3, AppendedAncestors
<1>2. CASE ~InitRepo
    BY <1>2, StepKinds, GrownAncestors DEF Drops, Moves
<1>. QED
    BY <1>1, <1>2

LEMMA StepMovesHeads ==
  ASSUME IInv, [Next]_vars, ~InitRepo, NEW b \in DOMAIN heads \cap DOMAIN heads'
  PROVE  \/ Ancestors(nodes, heads[b]) \subseteq Ancestors(nodes', heads'[b])
         \/ heads'[b] \in FirstParentLine(nodes, heads[b])
<1>1. CASE nodes' = nodes /\ heads' = heads
    BY <1>1
<1>2. ASSUME NEW a \in Branch, Drops(a)
      PROVE  Ancestors(nodes, heads[b]) \subseteq Ancestors(nodes', heads'[b])
    BY <1>2 DEF Drops, Remove
<1>3. ASSUME NEW a \in Branch, NEW rev \in DOMAIN nodes, Moves(a, rev)
      PROVE  \/ Ancestors(nodes, heads[b]) \subseteq Ancestors(nodes', heads'[b])
             \/ heads'[b] \in FirstParentLine(nodes, heads[b])
    BY <1>3 DEF Moves, Put
<1>4. ASSUME NEW a \in Branch, NEW ps \in Seq({heads[c] : c \in DOMAIN heads}), Grows(a, ps)
      PROVE  Ancestors(nodes, heads[b]) \subseteq Ancestors(nodes', heads'[b])
  <2>1. heads[b] \in DOMAIN nodes /\ heads' = Put(heads, a, Len(nodes) + 1)
      BY <1>4 DEF Grows, IInv, HeadsResolve
  <2>2. CASE a = b
    <3>1. heads'[b] = Len(nodes) + 1
        BY <2>1, <2>2 DEF Put
    <3>2. 1 \in DOMAIN ps /\ ps[1] = heads[b]
        BY <1>4, <2>2 DEF Grows
    <3>. QED
        BY <1>4, <3>1, <3>2, GrownAncestors
  <2>3. CASE a # b
    <3>1. heads'[b] = heads[b]
        BY <2>1, <2>3 DEF Put
    <3>. QED
        BY <1>4, <2>1, <3>1, GrownAncestors
  <2>. QED
      BY <2>2, <2>3
<1>. QED
    BY <1>1, <1>2, <1>3, <1>4, StepKinds

LEMMA StepChangesOneBranch ==
  ASSUME IInv, [Next]_vars, ~InitRepo, NEW a \in Branch, NEW b \in Branch, a # b
  PROVE  SameHead(a) \/ SameHead(b)
<1>1. ASSUME NEW c \in Branch, Drops(c), c # a \/ c # b
      PROVE  SameHead(a) \/ SameHead(b)
    BY <1>1 DEF Drops, Remove, SameHead
<1>2. ASSUME NEW c \in Branch, NEW rev, heads' = Put(heads, c, rev)
      PROVE  SameHead(a) \/ SameHead(b)
    BY <1>2 DEF Put, SameHead
<1>3. CASE heads' = heads
    BY <1>3 DEF SameHead
<1>. QED
    BY <1>1, <1>2, <1>3, StepKinds DEF Moves, Grows

LEMMA StepRevivesNothing ==
  ASSUME IInv, [Next]_vars
  PROVE  Reachable(nodes', heads') \cap DOMAIN nodes \subseteq Reachable(nodes, heads)
<1> SUFFICES ASSUME NEW b \in DOMAIN heads', NEW x \in Ancestors(nodes', heads'[b]),
                    x \in DOMAIN nodes
             PROVE  x \in Reachable(nodes, heads)
    BY DEF Reachable
<1>1. /\ \A a \in DOMAIN heads : Ancestors(nodes, heads[a]) \subseteq Reachable(nodes, heads)
      /\ \A a \in DOMAIN heads : heads[a] \in DOMAIN nodes
    BY HeadReachable DEF IInv, HeadsResolve
<1>2. CASE InitRepo
  <2>1. nodes' = Append(nodes, [parents |-> <<>>, branch |-> Main]) /\ Main \in Branch
      BY <1>2, BranchAssumption DEF InitRepo, AppendAndSync
  <2>2. heads' = Put(NoHeads, Main, Len(nodes) + 1)
      BY <1>2 DEF InitRepo, AppendAndSync, SaveAndSync
  <2>3. heads'[b] = Len(nodes) + 1
      BY <2>2 DEF Put, NoHeads
  <2>4. <<>> \in Seq(DOMAIN nodes) /\ nodes \in Seq(Node) /\ ParentsEarlier
      BY DEF IInv, TypeOK
  <2>5. x = Len(nodes) + 1
    <3>1. x \in Ancestors(nodes', Len(nodes) + 1)
        BY <2>3
    <3>2. \A y : y \in Ancestors(nodes', Len(nodes) + 1) <=>
                   \/ y = Len(nodes) + 1
                   \/ \E i \in DOMAIN <<>> : y \in Ancestors(nodes, <<>>[i])
        BY <2>1, <2>4, AppendedAncestors
    <3>. QED
        BY <3>1, <3>2
  <2>6. Len(nodes) + 1 \notin DOMAIN nodes
      BY <2>4
  <2>. QED
      BY <2>5, <2>6
<1>3. CASE ~InitRepo
  <2>1. CASE nodes' = nodes /\ heads' = heads
      BY <1>1, <2>1
  <2>2. ASSUME NEW c \in Branch, Drops(c)
        PROVE  x \in Reachable(nodes, heads)
      BY <1>1, <2>2 DEF Drops, Remove
  <2>3. ASSUME NEW c \in Branch, NEW rev \in DOMAIN nodes, Moves(c, rev)
        PROVE  x \in Reachable(nodes, heads)
    <3>1. CASE b = c
      <4>1. x \in Ancestors(nodes, rev)
          BY <2>3, <3>1 DEF Moves, Put
      <4>2. PICK a \in DOMAIN heads : rev \in Ancestors(nodes, heads[a])
          BY <2>3 DEF Moves, Reachable
      <4>3. ParentsStored(nodes)
          BY NodesAreDag DEF IInv, TypeOK
      <4>. QED
          BY <1>1, <4>1, <4>2, <4>3, AncestorsTransitive
    <3>2. CASE b # c
        BY <1>1, <2>3, <3>2 DEF Moves, Put
    <3>. QED
        BY <3>1, <3>2
  <2>4. ASSUME NEW c \in Branch, NEW ps \in Seq({heads[a] : a \in DOMAIN heads}), Grows(c, ps)
        PROVE  x \in Reachable(nodes, heads)
    <3>1. heads' = Put(heads, c, Len(nodes) + 1)
        BY <2>4 DEF Grows
    <3>2. CASE b = c
      <4>1. x \in Ancestors(nodes', Len(nodes) + 1)
          BY <3>1, <3>2 DEF Put
      <4>. QED
          BY <2>4, <4>1, GrownAncestors
    <3>3. CASE b # c
        BY <1>1, <2>4, <3>1, <3>3, GrownAncestors DEF Put
    <3>. QED
        BY <3>2, <3>3
  <2>. QED
      BY <1>3, <2>1, <2>2, <2>3, <2>4, StepKinds
<1>. QED
    BY <1>2, <1>3

\* The cached ancestor sets of DagStore (store.py:18-27) stay right forever.
THEOREM AncestorCacheSound == Spec => AncestorsImmutable
<1>1. IInv /\ [Next]_vars =>
        [\A r \in DOMAIN nodes : /\ r \in DOMAIN nodes'
                                 /\ Ancestors(nodes', r) = Ancestors(nodes, r)]_vars
    BY StepKeepsAncestors
<1>. QED
    BY <1>1, Inductive, PTL DEF Spec, AncestorsImmutable

\* Only a rollback ever takes work out of a branch, and only down the
\* branch's own first-parent line; merges keep the target's whole history.
THEOREM HeadsMoveAlongHistory == Spec => HeadMoves
<1>1. IInv /\ [Next]_vars =>
        [~InitRepo =>
           \A b \in DOMAIN heads \cap DOMAIN heads' :
              \/ Ancestors(nodes, heads[b]) \subseteq Ancestors(nodes', heads'[b])
              \/ heads'[b] \in FirstParentLine(nodes, heads[b])]_vars
    BY StepMovesHeads
<1>. QED
    BY <1>1, Inductive, PTL DEF Spec, HeadMoves

\* A command creates, deletes or moves one branch at most, init excepted.
THEOREM OneBranchMoves == Spec => OneBranchPerCommand
<1>1. IInv /\ [Next]_vars =>
        [~InitRepo => \A a, b \in Branch : a # b => SameHead(a) \/ SameHead(b)]_vars
    BY StepChangesOneBranch
<1>. QED
    BY <1>1, Inductive, PTL DEF Spec, OneBranchPerCommand

\* What no branch reaches any more never comes back into a branch.
THEOREM NothingRevived == Spec => NoRevival
<1>1. IInv /\ [Next]_vars =>
        [Reachable(nodes', heads') \cap DOMAIN nodes \subseteq Reachable(nodes, heads)]_vars
    BY StepRevivesNothing
<1>. QED
    BY <1>1, Inductive, PTL DEF Spec, NoRevival

----------------------------------------------------------------------------
(* Merge nodes.  That one was made on a single base stays true because no    *)
(* later command touches the history of its parents.                         *)

\* One merge-base candidate of two revisions has all they share in its history.
OneBase(ns, a, b) ==
  \E base \in CommonAncestors(ns, a, b) :
     CommonAncestors(ns, a, b) \subseteq Ancestors(ns, base)

\* A command writes one node at most; with two parents only where merge_base
\* found one candidate.
LEMMA StepWritesOneNode ==
  ASSUME IInv, [Next]_vars
  PROVE  \/ nodes' = nodes
         \/ \E b \in Branch, ps \in Seq(DOMAIN nodes) :
              /\ nodes' = Append(nodes, [parents |-> ps, branch |-> b])
              /\ Len(ps) = 2 => OneBase(nodes, ps[1], ps[2])
<1> DEFINE Written(b, ps) ==
             /\ nodes' = Append(nodes, [parents |-> ps, branch |-> b])
             /\ Len(ps) = 2 => OneBase(nodes, ps[1], ps[2])
<1>1. /\ Loaded = heads
      /\ \A b : HasBranch(b) <=> b \in DOMAIN heads
      /\ \A b \in DOMAIN heads : heads[b] \in DOMAIN nodes
      /\ Main \in Branch
    BY LoadedIsHeads, BranchAssumption DEF IInv, TypeOK, HasBranch, HeadsResolve
<1>2. ASSUME InitRepo
      PROVE  \E ps \in Seq(DOMAIN nodes) : Written(Main, ps)
  <2>1. nodes' = Append(nodes, [parents |-> <<>>, branch |-> Main])
      BY <1>2 DEF InitRepo, AppendAndSync
  <2>2. <<>> \in Seq(DOMAIN nodes) /\ Len(<<>>) # 2
      OBVIOUS
  <2>3. Written(Main, <<>>)
      BY <2>1, <2>2
  <2>. QED
      BY <2>2, <2>3
<1>3. ASSUME NEW b \in Branch, Migrate(b) \/ Sync(b)
      PROVE  \E ps \in Seq(DOMAIN nodes) : Written(b, ps)
  <2>1. heads[b] \in DOMAIN nodes /\ AppendAndSync(heads, b, <<heads[b]>>)
      BY <1>1, <1>3 DEF Migrate, Sync
  <2>2. <<heads[b]>> \in Seq(DOMAIN nodes) /\ Len(<<heads[b]>>) # 2
      BY <2>1
  <2>3. Written(b, <<heads[b]>>)
      BY <2>1, <2>2 DEF AppendAndSync
  <2>. QED
      BY <2>2, <2>3
<1>4. ASSUME NEW t \in Branch, NEW s \in Branch, Merge(t, s)
      PROVE  nodes' = nodes \/ \E ps \in Seq(DOMAIN nodes) : Written(t, ps)
  <2>1. heads[t] \in DOMAIN nodes /\ heads[s] \in DOMAIN nodes /\ heads[t] # heads[s]
      BY <1>1, <1>4 DEF Merge
  <2>2. PICK base : /\ MergeBases(nodes, heads[t], heads[s]) = {base}
                    /\ FastForward(t, s) \/ TrueMerge(t, s)
      BY <1>1, <1>4 DEF Merge
  <2>3. CASE FastForward(t, s)
      BY <2>3 DEF FastForward
  <2>4. CASE TrueMerge(t, s)
    <3>1. OneBase(nodes, heads[t], heads[s])
      <4>1. ParentsStored(nodes) /\ AppendOrder(nodes)
          BY NodesAreDag DEF IInv, TypeOK
      <4>. QED
          BY <2>1, <2>2, <4>1, OneMergeBaseHasAll DEF OneBase
    <3>2. nodes' = Append(nodes, [parents |-> <<heads[t], heads[s]>>, branch |-> t])
        BY <1>1, <2>4 DEF TrueMerge, AppendAndSync
    <3>3. /\ <<heads[t], heads[s]>> \in Seq(DOMAIN nodes)
          /\ <<heads[t], heads[s]>>[1] = heads[t] /\ <<heads[t], heads[s]>>[2] = heads[s]
        BY <2>1
    <3>4. Written(t, <<heads[t], heads[s]>>)
        BY <3>1, <3>2, <3>3
    <3>. QED
        BY <3>3, <3>4
  <2>. QED
      BY <2>2, <2>3, <2>4
<1>5. ASSUME NEW b \in Branch,
             \/ DeleteBranch(b) \/ Checkout(b) \/ EditFile(b)
             \/ \E from \in Branch : CreateBranch(b, from)
             \/ \E rev \in DOMAIN nodes : Rollback(b, rev)
      PROVE  nodes' = nodes
    BY <1>5 DEF DeleteBranch, Checkout, EditFile, CreateBranch, Rollback
<1>6. CASE UNCHANGED vars
    BY <1>6 DEF vars
<1>7. CASE Next
  <2> HIDE DEF Written
  <2>1. nodes' = nodes \/ \E b \in Branch, ps \in Seq(DOMAIN nodes) : Written(b, ps)
    <3>1. CASE \E b \in Branch : Migrate(b) \/ Sync(b)
        BY <1>3, <3>1
    <3>2. CASE \E t, s \in Branch : Merge(t, s)
        BY <1>4, <3>2
    <3>. QED
        BY <1>1, <1>2, <1>5, <1>7, <3>1, <3>2 DEF Next
  <2>. QED
      BY <2>1 DEF Written
<1>. QED
    BY <1>6, <1>7

LEMMA MergesHadOneBaseByPairs ==
  MergesHadOneBase <=>
    \A r \in DOMAIN nodes : Len(nodes[r].parents) = 2 =>
       OneBase(nodes, nodes[r].parents[1], nodes[r].parents[2])
  BY DEF MergesHadOneBase, OneBase

LEMMA StepKeepsOneBase ==
  ASSUME IInv, MergesHadOneBase, [Next]_vars
  PROVE  MergesHadOneBase'
<1>1. /\ nodes \in Seq(Node) /\ ParentsEarlier
      /\ \A r \in DOMAIN nodes : nodes[r].parents \in Seq(DOMAIN nodes)
    BY NodesAreDag DEF IInv, TypeOK
<1>2. CASE nodes' = nodes
    BY <1>2 DEF MergesHadOneBase
<1>3. ASSUME NEW b \in Branch, NEW ps \in Seq(DOMAIN nodes),
             nodes' = Append(nodes, [parents |-> ps, branch |-> b]),
             Len(ps) = 2 => OneBase(nodes, ps[1], ps[2])
      PROVE  MergesHadOneBase'
  <2>1. \A r \in DOMAIN nodes : Ancestors(nodes', r) = Ancestors(nodes, r)
      BY <1>1, <1>3, AppendedAncestors
  <2>2. ASSUME NEW x \in DOMAIN nodes, NEW y \in DOMAIN nodes, OneBase(nodes, x, y)
        PROVE  OneBase(nodes', x, y)
    <3>1. CommonAncestors(nodes', x, y) = CommonAncestors(nodes, x, y)
        BY <2>1 DEF CommonAncestors
    <3>2. CommonAncestors(nodes, x, y) \subseteq DOMAIN nodes
        BY DEF CommonAncestors, Ancestors
    <3>. QED
        BY <2>1, <2>2, <3>1, <3>2 DEF OneBase
  <2>3. ASSUME NEW qs \in Seq(DOMAIN nodes), Len(qs) = 2
        PROVE  qs[1] \in DOMAIN nodes /\ qs[2] \in DOMAIN nodes
      BY <2>3
  <2>4. \A r \in DOMAIN nodes' : \/ r \in DOMAIN nodes /\ nodes'[r] = nodes[r]
                                \/ nodes'[r].parents = ps
      BY <1>1, <1>3
  <2>5. \A r \in DOMAIN nodes' : Len(nodes'[r].parents) = 2 =>
           OneBase(nodes', nodes'[r].parents[1], nodes'[r].parents[2])
    <3> SUFFICES ASSUME NEW r \in DOMAIN nodes', Len(nodes'[r].parents) = 2
                 PROVE  OneBase(nodes', nodes'[r].parents[1], nodes'[r].parents[2])
        OBVIOUS
    <3>1. CASE r \in DOMAIN nodes /\ nodes'[r] = nodes[r]
        BY <1>1, <2>2, <2>3, <3>1, MergesHadOneBaseByPairs
    <3>2. CASE nodes'[r].parents = ps
        BY <1>3, <2>2, <2>3, <3>2
    <3>. QED
        BY <2>4, <3>1, <3>2
  <2>. QED
      BY <2>5 DEF MergesHadOneBase, OneBase
<1>. QED
    BY <1>2, <1>3, StepWritesOneNode

\* A merge node is only made where one common ancestor of its parents has all
\* the others in its history (walk.py:6): nothing is compared against a base
\* that misses shared work.
THEOREM MergesAlwaysHadOneBase == Spec => []MergesHadOneBase
<1>1. Init => MergesHadOneBase
    BY DEF Init, MergesHadOneBase
<1>2. IInv /\ MergesHadOneBase /\ [Next]_vars => MergesHadOneBase'
    BY StepKeepsOneBase
<1>. QED
    BY <1>1, <1>2, Inductive, PTL DEF Spec
----------------------------------------------------------------------------
(* Refinement: the kinds of step told apart above are the steps of Refs.     *)
(* Refs sees the nodes as a function from revisions, Repo keeps them as a    *)
(* sequence.                                                                 *)

LEMMA SequenceIsFunction ==
  ASSUME NEW S, NEW seq \in Seq(S)
  PROVE  seq = [i \in DOMAIN seq |-> seq[i]]
<1>1. PICK n \in Nat : seq \in [1 .. n -> S]
    BY SeqDef
<1>. QED
    BY <1>1

\* Appending to the sequence puts one more node into the function.
LEMMA AppendIsPut ==
  ASSUME NEW S, NEW seq \in Seq(S), NEW x \in S
  PROVE  Append(seq, x) = Put(seq, Len(seq) + 1, x)
<1> DEFINE longer == Append(seq, x)
<1>1. longer \in Seq(S)
    OBVIOUS
<1>2. longer = [i \in DOMAIN longer |-> longer[i]]
    BY <1>1, SequenceIsFunction
<1>3. DOMAIN longer = DOMAIN seq \cup {Len(seq) + 1}
    OBVIOUS
<1>4. \A i \in DOMAIN longer : longer[i] = IF i = Len(seq) + 1 THEN x ELSE seq[i]
    OBVIOUS
<1>. HIDE DEF longer
<1>5. longer = [i \in DOMAIN seq \cup {Len(seq) + 1} |-> IF i = Len(seq) + 1 THEN x ELSE seq[i]]
    BY <1>2, <1>3, <1>4
<1>. QED
    BY <1>5 DEF Put, longer

\* Refs walks the graph as Repo does.
LEMMA SameWalks ==
  ASSUME NEW ns, NEW r
  PROVE  /\ History!Ancestors(ns, r) = Ancestors(ns, r)
         /\ History!FirstParentLine(ns, r) = FirstParentLine(ns, r)
  BY DEF History!Ancestors, History!FirstParentLine, Ancestors, FirstParentLine,
         History!ParentClosed, History!FirstParentClosed, ParentClosed, FirstParentClosed,
         History!ParentsOf, ParentsOf, History!IsRoot, IsRoot

LEMMA SameReachable ==
  ASSUME NEW ns, NEW hs
  PROVE  History!Reachable(ns, hs) = Reachable(ns, hs)
  BY SameWalks DEF History!Reachable, Reachable

LEMMA InitIsRefsInit == Init => History!RefsInit
<1> SUFFICES ASSUME Init PROVE History!RefsInit
    OBVIOUS
<1>1. nodes \in Seq({}) /\ DOMAIN nodes = {}
    BY DEF Init
<1>2. nodes = [r \in DOMAIN nodes |-> nodes[r]]
    BY <1>1, SequenceIsFunction
<1>3. nodes = [r \in {} |-> {}]
    BY <1>1, <1>2
<1>4. heads = [b \in {} |-> 0]
    BY DEF Init, NoHeads, NoRev
<1>. QED
    BY <1>3, <1>4 DEF History!RefsInit

LEMMA GrowsIsGrow ==
  ASSUME IInv, NEW b \in Branch, NEW ps, Grows(b, ps)
  PROVE  History!Grow(b)
<1> DEFINE node == [parents |-> ps, branch |-> b]
           rev == Len(nodes) + 1
<1>1. nodes \in Seq(Node) /\ nodes' \in Seq(Node) /\ node \in Node
  <2>1. ps \in Seq(DOMAIN nodes) /\ ParentsEarlier /\ nodes \in Seq(Node)
      BY DEF Grows, IInv, TypeOK, HeadsResolve
  <2>2. ps \in Seq(Nat \ {NoRev})
      BY <2>1 DEF NoRev
  <2>3. node \in Node
      BY <2>2 DEF Node
  <2>. QED
      BY <2>1, <2>3 DEF Grows
<1>2. nodes' = Put(nodes, rev, node)
    BY <1>1, AppendIsPut DEF Grows
<1>3. rev \in DOMAIN nodes' \ DOMAIN nodes
    BY <1>1, <1>2 DEF Put
<1>4. heads' = Put(heads, b, rev) /\ b \in DOMAIN heads
    BY DEF Grows
<1>5. ps \in {<<heads[b]>>} \cup {<<heads[b], heads[s]>> : s \in DOMAIN heads}
    BY DEF Grows
<1>. QED
  <2>. HIDE DEF rev
  <2>. QED
      BY <1>2, <1>3, <1>4, <1>5 DEF History!Grow, History!Put, Put

LEMMA MovesIsMove ==
  ASSUME IInv, NEW b \in Branch, NEW rev \in DOMAIN nodes, Moves(b, rev)
  PROVE  History!Move(b)
<1>1. /\ nodes' = nodes /\ heads' = History!Put(heads, b, rev)
      /\ rev \in History!Reachable(nodes, heads)
    BY SameReachable DEF Moves, Put, History!Put
<1>2. b \in DOMAIN heads =>
        \/ rev \in History!FirstParentLine(nodes, heads[b])
        \/ History!Ancestors(nodes, heads[b]) \subseteq History!Ancestors(nodes, rev)
    BY SameWalks DEF Moves
<1>. QED
    BY <1>1, <1>2 DEF History!Move

LEMMA DropsIsDrop ==
  ASSUME NEW b \in DOMAIN heads, Drops(b)
  PROVE  History!Drop(b)
  BY DEF Drops, Remove, History!Drop, History!Remove

LEMMA InitRepoIsRestart ==
  ASSUME IInv, InitRepo
  PROVE  History!Restart(Main)
<1> DEFINE root == [parents |-> <<>>, branch |-> Main]
           rev == Len(nodes) + 1
<1>1. nodes \in Seq(Node) /\ root \in Node
    BY BranchAssumption DEF IInv, TypeOK, Node
<1>2. nodes' = Append(nodes, root) /\ heads' = Put(NoHeads, Main, rev)
    BY DEF InitRepo, AppendAndSync, SaveAndSync
<1>3. nodes' = Put(nodes, rev, root)
    BY <1>1, <1>2, AppendIsPut
<1>4. rev \in DOMAIN nodes' \ DOMAIN nodes
    BY <1>1, <1>3 DEF Put
<1>5. heads' = [a \in {Main} |-> rev]
    BY <1>2 DEF Put, NoHeads
<1>. QED
  <2>. HIDE DEF rev
  <2>. QED
      BY <1>3, <1>4, <1>5 DEF History!Restart, History!Put, Put

LEMMA StepIsRefsStep ==
  ASSUME IInv, [Next]_vars
  PROVE  [History!RefsNext]_History!refs
<1>1. CASE InitRepo
    BY <1>1, InitRepoIsRestart, BranchAssumption DEF History!RefsNext
<1>2. CASE ~InitRepo
  <2>1. CASE nodes' = nodes /\ heads' = heads
      BY <2>1 DEF History!refs
  <2>2. ASSUME NEW b \in Branch, Drops(b)
        PROVE  [History!RefsNext]_History!refs
    <3>1. CASE b \in DOMAIN heads
        BY <2>2, <3>1, DropsIsDrop DEF History!RefsNext
    <3>2. CASE b \notin DOMAIN heads
      <4>1. heads' = heads
          BY <2>2, <3>2 DEF Drops, Remove, IInv, TypeOK
      <4>. QED
          BY <2>2, <4>1 DEF Drops, History!refs
    <3>. QED
        BY <3>1, <3>2
  <2>3. ASSUME NEW b \in Branch, NEW rev \in DOMAIN nodes, Moves(b, rev)
        PROVE  History!RefsNext
      BY <2>3, MovesIsMove DEF History!RefsNext
  <2>4. ASSUME NEW b \in Branch, NEW ps \in Seq({heads[a] : a \in DOMAIN heads}), Grows(b, ps)
        PROVE  History!RefsNext
      BY <2>4, GrowsIsGrow DEF History!RefsNext
  <2>. QED
      BY <1>2, <2>1, <2>2, <2>3, <2>4, StepKinds
<1>. QED
    BY <1>1, <1>2

\* Whatever commands are run, the nodes and the heads of a repository behave
\* as Refs says: the graph only grows and one branch at a time moves.
THEOREM RepoImplementsRefs == Spec => ImplementsRefs
<1>1. Init => History!RefsInit
    BY InitIsRefsInit
<1>2. IInv /\ [Next]_vars => [History!RefsNext]_History!refs
    BY StepIsRefsStep
<1>. QED
    BY <1>1, <1>2, Inductive, PTL DEF Spec, ImplementsRefs, History!RefsSpec

----------------------------------------------------------------------------
(* The web application on one repository: the dialogues on top of the        *)
(* commands.                                                                 *)
\* What holds whatever dialogues save: part of the invariant of Repo.
Stored == TypeOK /\ HeadsResolve /\ ParentsEarlier

HeadsOfBranches == UNION {[bs -> Nat \ {NoRev}] : bs \in SUBSET Branch}

DialogueSet ==
  [kind : Kind, target : Branch, source : Branch \cup {NoBranch},
   heads : HeadsOfBranches, state : State]

\* What a dialogue remembers is in the store, and the result of its merge fits
\* the heads it remembers.
Remembers(ns, d) ==
  /\ \A b \in DOMAIN d.heads : d.heads[b] \in DOMAIN ns
  /\ d.kind = "sync" \/ d.state # "running" => d.target \in DOMAIN d.heads
  /\ d.state \in {"fastForward", "mergeNode"} => d.source \in DOMAIN d.heads
  /\ d.state = "fastForward" => d.heads[d.target] \in Ancestors(ns, d.heads[d.source])

DialoguesRemember ==
  /\ dialogues \in Seq(DialogueSet)
  /\ \A i \in DOMAIN dialogues : Remembers(nodes, dialogues[i])

\* The invariant of Repo holds as long as nothing newer is overwritten.
WInv ==
  /\ Stored
  /\ DialoguesRemember
  /\ stale \in BOOLEAN
  /\ ~stale => IInv

\* No revision goes or gets other ancestors.
Kept(ns, ms) == \A r \in DOMAIN ns : r \in DOMAIN ms /\ Ancestors(ms, r) = Ancestors(ns, r)

----------------------------------------------------------------------------
(* The store.                                                                *)

LEMMA HeadsAreTyped ==
  ASSUME NEW hs
  PROVE  hs \in HeadsOfBranches <=>
           DOMAIN hs \subseteq Branch /\ hs \in [DOMAIN hs -> Nat \ {NoRev}]
<1>1. ASSUME hs \in HeadsOfBranches
      PROVE  DOMAIN hs \subseteq Branch /\ hs \in [DOMAIN hs -> Nat \ {NoRev}]
  <2>1. PICK bs \in SUBSET Branch : hs \in [bs -> Nat \ {NoRev}]
      BY <1>1 DEF HeadsOfBranches
  <2>. QED
      BY <2>1
<1>2. ASSUME DOMAIN hs \subseteq Branch, hs \in [DOMAIN hs -> Nat \ {NoRev}]
      PROVE  hs \in HeadsOfBranches
    BY <1>2 DEF HeadsOfBranches
<1>. QED
    BY <1>1, <1>2

LEMMA RemembersKept ==
  ASSUME NEW ns, NEW ms, Kept(ns, ms), NEW d, Remembers(ns, d)
  PROVE  Remembers(ms, d)
  BY DEF Kept, Remembers

\* A head put among heads that are stored.
LEMMA PutHeads ==
  ASSUME NEW hs \in HeadsOfBranches, NEW ns, \A a \in DOMAIN hs : hs[a] \in DOMAIN ns,
         NEW b \in Branch, NEW rev \in DOMAIN ns, rev \in Nat \ {NoRev}
  PROVE  /\ Put(hs, b, rev) \in HeadsOfBranches
         /\ \A a \in DOMAIN Put(hs, b, rev) : Put(hs, b, rev)[a] \in DOMAIN ns
<1>1. DOMAIN hs \subseteq Branch /\ \A a \in DOMAIN hs : hs[a] \in Nat \ {NoRev}
    BY HeadsAreTyped
<1>2. /\ DOMAIN Put(hs, b, rev) = DOMAIN hs \cup {b}
      /\ \A a \in DOMAIN hs \cup {b} : Put(hs, b, rev)[a] = IF a = b THEN rev ELSE hs[a]
    BY DEF Put
<1>3. DOMAIN Put(hs, b, rev) \subseteq Branch
    BY <1>1, <1>2
<1>4. Put(hs, b, rev) \in [DOMAIN Put(hs, b, rev) -> Nat \ {NoRev}]
    BY <1>1 DEF Put
<1>. QED
    BY <1>2, <1>3, <1>4, HeadsAreTyped

\* Saving some store's heads, with one of them moved, and rendering its file.
LEMMA SaveKeepsStore ==
  ASSUME Stored, NEW hs \in HeadsOfBranches, \A a \in DOMAIN hs : hs[a] \in DOMAIN nodes,
         NEW b \in Branch, NEW rev \in DOMAIN nodes,
         SaveAndSync(Put(hs, b, rev), b), UNCHANGED <<nodes, faults>>,
         current' \in Branch \cup {NoBranch}
  PROVE  Stored' /\ Kept(nodes, nodes') /\ b \in DOMAIN heads'
<1>1. rev \in Nat \ {NoRev}
    BY DEF Stored, TypeOK, NoRev
<1>2. /\ heads' \in HeadsOfBranches
      /\ \A a \in DOMAIN heads' : heads'[a] \in DOMAIN nodes
      /\ b \in DOMAIN heads' /\ heads'[b] = rev
  <2>1. heads' = Put(hs, b, rev)
      BY DEF SaveAndSync
  <2>2. Put(hs, b, rev)[b] = rev /\ b \in DOMAIN Put(hs, b, rev)
      BY DEF Put
  <2>. QED
      BY <1>1, <2>1, <2>2, PutHeads
<1>3. DOMAIN heads' \subseteq Branch /\ heads' \in [DOMAIN heads' -> Nat \ {NoRev}]
    BY <1>2, HeadsAreTyped
<1>4. rendered' \in [Branch -> Nat] /\ edited' \subseteq Branch
  <2>1. Put(hs, b, rev)[b] = rev
      BY DEF Put
  <2>. QED
      BY <1>1, <2>1, SyncKeepsFileTypes DEF SaveAndSync, Stored, TypeOK
<1>5. TypeOK'
    BY <1>3, <1>4 DEF Stored, TypeOK, faults
<1>6. HeadsResolve' /\ ParentsEarlier'
    BY <1>2 DEF Stored, HeadsResolve, ParentsEarlier
<1>. QED
    BY <1>2, <1>5, <1>6 DEF Stored, Kept

\* Appending a node to some store before that.
LEMMA AppendKeepsStore ==
  ASSUME Stored, NEW hs \in HeadsOfBranches, \A a \in DOMAIN hs : hs[a] \in DOMAIN nodes,
         NEW b \in Branch, NEW ps \in Seq(DOMAIN nodes),
         AppendAndSync(hs, b, ps), current' \in Branch \cup {NoBranch}
  PROVE  Stored' /\ Kept(nodes, nodes') /\ b \in DOMAIN heads'
<1>0. PICK new \in Nat \ {NoRev} : new = Len(nodes) + 1
    BY DEF Stored, TypeOK, NoRev
<1>1. nodes' = Append(nodes, [parents |-> ps, branch |-> b])
    BY DEF AppendAndSync
<1>2. /\ nodes' \in Seq(Node)
      /\ DOMAIN nodes' = DOMAIN nodes \cup {new}
      /\ ParentsEarlier'
    BY <1>0, <1>1, AppendedNode DEF Stored, TypeOK
<1>3. Kept(nodes, nodes')
    BY <1>1, <1>2, AppendedAncestors DEF Stored, TypeOK, Kept
<1>4. heads' = Put(hs, b, new) /\ SyncModelFile(Put(hs, b, new)[b], b)
    BY <1>0 DEF AppendAndSync, SaveAndSync
<1>5. /\ heads' \in HeadsOfBranches
      /\ \A a \in DOMAIN heads' : heads'[a] \in DOMAIN nodes'
  <2>1. \A a \in DOMAIN hs : hs[a] \in DOMAIN nodes'
      BY <1>2
  <2>. QED
      BY <1>2, <1>4, <2>1, PutHeads
<1>6. b \in DOMAIN heads' /\ Put(hs, b, new)[b] = new
    BY <1>4 DEF Put
<1>7. DOMAIN heads' \subseteq Branch /\ heads' \in [DOMAIN heads' -> Nat \ {NoRev}]
    BY <1>5, HeadsAreTyped
<1>8. rendered' \in [Branch -> Nat] /\ edited' \subseteq Branch
    BY <1>4, <1>6, SyncKeepsFileTypes DEF Stored, TypeOK
<1>11. /\ unrenderable' \subseteq unrenderable \cup {new}
       /\ unreplayable' \subseteq unrenderable'
  <2>1. NewSchema(ps) /\ ps \in Seq(Nat)
      BY DEF AppendAndSync, Stored, TypeOK
  <2>. QED
      BY <1>0, <2>1, NewSchemaGrows DEF Stored
<1>9. TypeOK'
    BY <1>2, <1>7, <1>8, <1>11 DEF Stored, TypeOK
<1>10. HeadsResolve'
  <2>1. \A r \in DOMAIN nodes' : ParentsOf(nodes', r) \subseteq 1 .. (r - 1)
      BY <1>2, ParentsAreEarlier DEF ParentsEarlier
  <2>. QED
      BY <1>5, <2>1 DEF HeadsResolve
<1>. QED
    BY <1>2, <1>3, <1>6, <1>9, <1>10 DEF Stored

----------------------------------------------------------------------------
(* Routes that run a command.                                                *)

LEMMA StoredHeads ==
  ASSUME Stored
  PROVE  /\ Loaded = heads
         /\ \A b : HasBranch(b) <=> b \in DOMAIN heads
         /\ heads \in HeadsOfBranches
         /\ DOMAIN heads \subseteq Branch
         /\ \A b \in DOMAIN heads : heads[b] \in DOMAIN nodes
  BY LoadedIsHeads, HeadsAreTyped DEF Stored, TypeOK, HasBranch, HeadsResolve

LEMMA CommandsAreCommands ==
  ASSUME OpenRepo \/ CommandRoute
  PROVE  Next
  BY DEF OpenRepo, CommandRoute, Next

LEMMA CommandsKeepStore ==
  ASSUME Stored, OpenRepo \/ CommandRoute
  PROVE  Stored' /\ Kept(nodes, nodes')
<1>1. /\ Loaded = heads
      /\ \A b : HasBranch(b) <=> b \in DOMAIN heads
      /\ heads \in HeadsOfBranches
      /\ DOMAIN heads \subseteq Branch
      /\ \A b \in DOMAIN heads : heads[b] \in DOMAIN nodes
    BY StoredHeads
<1>2. CASE OpenRepo
  <2>1. AppendAndSync(NoHeads, Main, <<>>) /\ current' = Main /\ Main \in Branch
      BY <1>2, BranchAssumption DEF OpenRepo, InitRepo
  <2>2. NoHeads \in HeadsOfBranches /\ DOMAIN NoHeads = {}
      BY HeadsAreTyped DEF NoHeads
  <2>3. <<>> \in Seq(DOMAIN nodes)
      OBVIOUS
  <2>. QED
      BY <2>1, <2>2, <2>3, AppendKeepsStore
<1>3. ASSUME NEW name \in Branch, NEW from \in Branch, CreateBranch(name, from)
      PROVE  Stored' /\ Kept(nodes, nodes')
  <2>1. /\ SaveAndSync(Put(heads, name, heads[from]), name) /\ UNCHANGED <<nodes, faults>>
        /\ heads[from] \in DOMAIN nodes
        /\ current' = name \/ current' = current
      BY <1>1, <1>3 DEF CreateBranch
  <2>. QED
      BY <1>1, <2>1, SaveKeepsStore DEF Stored, TypeOK
<1>4. ASSUME NEW b \in Branch, NEW rev \in DOMAIN nodes, Rollback(b, rev)
      PROVE  Stored' /\ Kept(nodes, nodes')
  <2>1. SaveAndSync(Put(heads, b, rev), b) /\ UNCHANGED <<nodes, current, faults>>
      BY <1>1, <1>4 DEF Rollback
  <2>. QED
      BY <1>1, <2>1, SaveKeepsStore DEF Stored, TypeOK
<1>5. ASSUME NEW b \in Branch, Migrate(b)
      PROVE  Stored' /\ Kept(nodes, nodes')
  <2>1. /\ AppendAndSync(heads, b, <<heads[b]>>) /\ UNCHANGED current
        /\ <<heads[b]>> \in Seq(DOMAIN nodes)
      BY <1>1, <1>5 DEF Migrate
  <2>. QED
      BY <1>1, <2>1, AppendKeepsStore DEF Stored, TypeOK
<1>6. ASSUME NEW b \in Branch, DeleteBranch(b)
      PROVE  Stored' /\ Kept(nodes, nodes')
  <2>1. /\ heads' = [a \in DOMAIN heads \ {b} |-> heads[a]]
        /\ UNCHANGED <<nodes, current, rendered, edited, unrenderable, unreplayable>>
      BY <1>1, <1>6 DEF DeleteBranch, Remove, faults
  <2>. QED
      BY <2>1 DEF Stored, TypeOK, HeadsResolve, ParentsEarlier, Kept
<1>7. ASSUME NEW b \in Branch, Checkout(b) \/ EditFile(b)
      PROVE  Stored' /\ Kept(nodes, nodes')
    BY <1>7 DEF Checkout, EditFile, faults, Stored, TypeOK, HeadsResolve, ParentsEarlier, Kept
<1>. QED
    BY <1>2, <1>3, <1>4, <1>5, <1>6, <1>7 DEF CommandRoute

----------------------------------------------------------------------------
(* What a dialogue saves.                                                    *)

\* A dialogue that is saved has the heads it saved.
LEMMA SavedRemembers ==
  ASSUME DialoguesRemember, Stored', Kept(nodes, nodes'), NEW i \in DOMAIN dialogues, Saved(i),
         dialogues[i].target \in DOMAIN heads'
  PROVE  DialoguesRemember'
<1>1. /\ heads' \in HeadsOfBranches
      /\ \A b \in DOMAIN heads' : heads'[b] \in DOMAIN nodes'
    BY HeadsAreTyped DEF Stored, TypeOK, HeadsResolve
<1>2. dialogues[i] \in DialogueSet
    BY SeqElement DEF DialoguesRemember
<1> DEFINE new == [dialogues[i] EXCEPT !.state = "saved", !.heads = heads']
<1>3. new \in DialogueSet
    BY <1>1, <1>2 DEF DialogueSet, State
<1>4. dialogues' = [dialogues EXCEPT ![i] = new]
    BY DEF Saved
<1>5. Remembers(nodes', new)
    BY <1>1, <1>2 DEF Remembers, DialogueSet
<1>. HIDE DEF new
<1>6. /\ dialogues' \in Seq(DialogueSet) /\ DOMAIN dialogues' = DOMAIN dialogues
      /\ \A j \in DOMAIN dialogues : dialogues'[j] = IF j = i THEN new ELSE dialogues[j]
    BY <1>3, <1>4 DEF DialoguesRemember
<1>. QED
    BY <1>5, <1>6, RemembersKept DEF DialoguesRemember

\* The page of a merge saves the dialogue's heads with the target moved, or a
\* node on top of two of them.
LEMMA MergePageSaves ==
  ASSUME WInv, NEW i \in DOMAIN dialogues, MergePage(i)
  PROVE  LET d == dialogues[i]
         IN  /\ d \in DialogueSet /\ Remembers(nodes, d)
             /\ d.target \in DOMAIN d.heads /\ current' \in {d.target, current}
             /\ \/ /\ d.source \in DOMAIN d.heads
                   /\ AppendAndSync(d.heads, d.target, <<d.heads[d.target], d.heads[d.source]>>)
                \/ /\ d.source \in DOMAIN d.heads /\ UNCHANGED <<nodes, faults>>
                   /\ d.heads[d.target] \in Ancestors(nodes, d.heads[d.source])
                   /\ SaveAndSync(Put(d.heads, d.target, d.heads[d.source]), d.target)
                \/ /\ UNCHANGED <<nodes, faults>>
                   /\ Put(d.heads, d.target, d.heads[d.target]) = d.heads
                   /\ SaveAndSync(Put(d.heads, d.target, d.heads[d.target]), d.target)
<1> DEFINE d == dialogues[i]
<1>1. d \in DialogueSet /\ Remembers(nodes, d)
    BY SeqElement DEF WInv, DialoguesRemember
<1>2. SaveMerge(d) /\ current' \in {d.target, current}
    BY DEF MergePage
<1>. HIDE DEF d
<1>3. d.target \in DOMAIN d.heads
    BY <1>1, <1>2 DEF SaveMerge, Remembers
<1>4. Put(d.heads, d.target, d.heads[d.target]) = d.heads
  <2>1. d.heads \in [DOMAIN d.heads -> Nat \ {NoRev}]
      BY <1>1, HeadsAreTyped DEF DialogueSet
  <2>2. DOMAIN d.heads \cup {d.target} = DOMAIN d.heads
      BY <1>3
  <2>. QED
      BY <2>1, <2>2 DEF Put
<1>. QED
    BY <1>1, <1>2, <1>3, <1>4 DEF SaveMerge, Remembers, d

LEMMA PagesKeepStore ==
  ASSUME WInv, NEW i \in DOMAIN dialogues, MergePage(i) \/ WorkerSyncs(i)
  PROVE  Stored' /\ Kept(nodes, nodes') /\ DialoguesRemember'
<1> DEFINE d == dialogues[i]
<1>1. d \in DialogueSet /\ Remembers(nodes, d)
    BY SeqElement DEF WInv, DialoguesRemember
<1>2. /\ d.heads \in HeadsOfBranches /\ d.target \in Branch
      /\ \A b \in DOMAIN d.heads : d.heads[b] \in DOMAIN nodes
    BY <1>1 DEF DialogueSet, Remembers
<1>3. Stored /\ current \in Branch \cup {NoBranch}
    BY DEF WInv, Stored, TypeOK
<1>4. CASE MergePage(i)
  <2>1. d.target \in DOMAIN d.heads /\ current' \in {d.target, current}
      BY <1>4, MergePageSaves
  <2>2. Stored' /\ Kept(nodes, nodes') /\ d.target \in DOMAIN heads'
    <3>1. CASE /\ d.source \in DOMAIN d.heads
               /\ AppendAndSync(d.heads, d.target, <<d.heads[d.target], d.heads[d.source]>>)
      <4>1. <<d.heads[d.target], d.heads[d.source]>> \in Seq(DOMAIN nodes)
          BY <1>2, <2>1, <3>1
      <4>. QED
          BY <1>2, <1>3, <2>1, <3>1, <4>1, AppendKeepsStore
    <3>2. CASE /\ d.source \in DOMAIN d.heads /\ UNCHANGED <<nodes, faults>>
               /\ SaveAndSync(Put(d.heads, d.target, d.heads[d.source]), d.target)
        BY <1>2, <1>3, <2>1, <3>2, SaveKeepsStore
    <3>3. CASE /\ UNCHANGED <<nodes, faults>>
               /\ SaveAndSync(Put(d.heads, d.target, d.heads[d.target]), d.target)
        BY <1>2, <1>3, <2>1, <3>3, SaveKeepsStore
    <3>. QED
        BY <1>4, <3>1, <3>2, <3>3, MergePageSaves
  <2>. QED
      BY <1>4, <2>2, SavedRemembers DEF WInv, MergePage
<1>5. CASE WorkerSyncs(i)
  <2>1. /\ d.kind = "sync" /\ AppendAndSync(d.heads, d.target, <<d.heads[d.target]>>)
        /\ UNCHANGED current /\ Saved(i)
      BY <1>5 DEF WorkerSyncs
  <2>2. <<d.heads[d.target]>> \in Seq(DOMAIN nodes)
      BY <1>1, <1>2, <2>1 DEF Remembers
  <2>3. Stored' /\ Kept(nodes, nodes') /\ d.target \in DOMAIN heads'
      BY <1>2, <1>3, <2>1, <2>2, AppendKeepsStore
  <2>. QED
      BY <2>1, <2>3, SavedRemembers DEF WInv
<1>. QED
    BY <1>4, <1>5

----------------------------------------------------------------------------
(* Dialogues that start and workers that end.                                *)

LEMMA StartRemembers ==
  ASSUME WInv, NEW kind \in Kind, NEW t \in Branch, NEW s \in Branch \cup {NoBranch},
         kind = "sync" => t \in DOMAIN heads,
         Start(Dialogue(kind, t, s))
  PROVE  DialoguesRemember'
<1> DEFINE new == Dialogue(kind, t, s)
<1>1. /\ Loaded = heads /\ heads \in HeadsOfBranches
      /\ \A b \in DOMAIN heads : heads[b] \in DOMAIN nodes
    BY StoredHeads DEF WInv
<1>2. new \in DialogueSet /\ Remembers(nodes, new)
    BY <1>1 DEF Dialogue, DialogueSet, State, Remembers
<1>3. dialogues' = Append(dialogues, new) /\ nodes' = nodes
    BY DEF Start
<1>. HIDE DEF new
<1>4. /\ dialogues' \in Seq(DialogueSet)
      /\ \A i \in DOMAIN dialogues' : dialogues'[i] = new \/ (i \in DOMAIN dialogues /\ dialogues'[i] = dialogues[i])
    BY <1>2, <1>3 DEF WInv, DialoguesRemember
<1>. QED
    BY <1>2, <1>3, <1>4 DEF WInv, DialoguesRemember

\* A fast-forward's target is in the history of its source.
LEMMA WorkerRemembers ==
  ASSUME WInv, NEW i \in DOMAIN dialogues, WorkerMerges(i)
  PROVE  DialoguesRemember'
<1> DEFINE d == dialogues[i]
<1>1. d \in DialogueSet /\ Remembers(nodes, d)
    BY SeqElement DEF WInv, DialoguesRemember
<1>2. /\ d.target \in DOMAIN d.heads /\ d.source \in DOMAIN d.heads
      /\ d.heads[d.target] # d.heads[d.source] /\ nodes' = nodes
      /\ \E base \in MergeBases(nodes, d.heads[d.target], d.heads[d.source]) :
           dialogues' = [dialogues EXCEPT ![i].state =
             IF IsFastForward(base, d.heads[d.target]) THEN "fastForward" ELSE "mergeNode"]
    BY DEF WorkerMerges
<1>3. PICK base \in MergeBases(nodes, d.heads[d.target], d.heads[d.source]) :
           dialogues' = [dialogues EXCEPT ![i].state =
             IF IsFastForward(base, d.heads[d.target]) THEN "fastForward" ELSE "mergeNode"]
    BY <1>2
<1>4. PICK state \in {"fastForward", "mergeNode"} :
        /\ dialogues' = [dialogues EXCEPT ![i].state = state]
        /\ state = "fastForward" => base = d.heads[d.target]
    BY <1>3 DEF IsFastForward
<1>5. base \in Ancestors(nodes, d.heads[d.source])
    BY <1>2, <1>3 DEF MergeBases, CommonAncestors
<1> DEFINE new == [d EXCEPT !.state = state]
<1>6. new \in DialogueSet /\ Remembers(nodes, new)
    BY <1>1, <1>2, <1>4, <1>5 DEF DialogueSet, State, Remembers
<1>7. dialogues' = [dialogues EXCEPT ![i] = new]
    BY <1>4
<1>. HIDE DEF new, d
<1>8. /\ dialogues' \in Seq(DialogueSet) /\ DOMAIN dialogues' = DOMAIN dialogues
      /\ \A j \in DOMAIN dialogues : dialogues'[j] = IF j = i THEN new ELSE dialogues[j]
    BY <1>6, <1>7 DEF WInv, DialoguesRemember
<1>. QED
    BY <1>2, <1>6, <1>8 DEF WInv, DialoguesRemember

----------------------------------------------------------------------------
(* A dialogue that saves what nobody has changed since is a command.         *)

LEMMA FreshSave ==
  ASSUME WInv, NEW i \in DOMAIN dialogues, MergePage(i) \/ WorkerSyncs(i), ~stale'
  PROVE  IInv' /\ [History!RefsNext]_History!refs
<1> DEFINE d == dialogues[i]
<1>1. IInv /\ d.heads = heads
    BY DEF MergePage, WorkerSyncs, Saved, WInv
<1>2. d \in DialogueSet /\ Remembers(nodes, d)
    BY SeqElement DEF WInv, DialoguesRemember
<1>3. /\ Loaded = heads /\ d.target \in Branch
      /\ \A b \in DOMAIN heads : heads[b] \in DOMAIN nodes
    BY <1>2, StoredHeads DEF WInv, DialogueSet
<1>4. d.target \in DOMAIN heads /\ (current' = d.target \/ current' = current)
    BY <1>1, <1>2, MergePageSaves DEF WorkerSyncs, Remembers
<1>5. PICK root \in DOMAIN nodes : Rooted(root)
    BY <1>1, <1>4 DEF IInv, OneLiveRoot
<1>6. ASSUME NEW ps, AppendAndSync(heads, d.target, ps),
             \/ ps = <<heads[d.target]>>
             \/ \E s \in DOMAIN heads : ps = <<heads[d.target], heads[s]>>
      PROVE  IInv' /\ History!RefsNext
  <2>. HIDE DEF d
  <2>1. ps \in Seq({heads[a] : a \in DOMAIN heads}) /\ ps # <<>> /\ ps[1] = heads[d.target]
    <3>1. CASE ps = <<heads[d.target]>>
        BY <1>4, <3>1
    <3>2. ASSUME NEW s \in DOMAIN heads, ps = <<heads[d.target], heads[s]>>
          PROVE  ps \in Seq({heads[a] : a \in DOMAIN heads}) /\ ps # <<>> /\ ps[1] = heads[d.target]
        BY <1>4, <3>2
    <3>. QED
        BY <1>6, <3>1, <3>2
  <2>2. IInv'
      BY <1>1, <1>3, <1>4, <1>6, <2>1, AppendKeepsIInv
  <2>3. Grows(d.target, ps)
      BY <1>4, <1>6, <2>1 DEF Grows, AppendAndSync, SaveAndSync
  <2>. QED
      BY <1>1, <1>3, <2>2, <2>3, GrowsIsGrow DEF History!RefsNext
<1>7. ASSUME NEW s \in DOMAIN heads, UNCHANGED <<nodes, faults>>,
             heads[d.target] \in Ancestors(nodes, heads[s]),
             SaveAndSync(Put(heads, d.target, heads[s]), d.target)
      PROVE  IInv' /\ History!RefsNext
  <2>1. heads[s] \in DOMAIN nodes /\ heads[s] >= root
      BY <1>3, <1>5 DEF Rooted
  <2>2. IInv'
      BY <1>1, <1>3, <1>4, <1>5, <1>7, <2>1, MoveKeepsIInv
  <2>3. Ancestors(nodes, heads[d.target]) \subseteq Ancestors(nodes, heads[s])
      BY <1>1, <1>7, <2>1, NodesAreDag, AncestorsTransitive DEF IInv, TypeOK
  <2>4. heads[s] \in Reachable(nodes, heads)
      BY <1>1, <2>1, AncestorsSelf, HeadReachable
  <2>5. Moves(d.target, heads[s])
      BY <1>7, <2>1, <2>3, <2>4 DEF Moves, SaveAndSync
  <2>. QED
      BY <1>1, <1>3, <2>1, <2>2, <2>5, MovesIsMove DEF History!RefsNext
<1>8. CASE WorkerSyncs(i)
    BY <1>1, <1>6, <1>8 DEF WorkerSyncs
<1>9. CASE MergePage(i)
  <2>1. heads[d.target] \in Ancestors(nodes, heads[d.target])
      BY <1>3, <1>4, AncestorsSelf
  <2>. QED
      BY <1>1, <1>4, <1>6, <1>7, <1>9, <2>1, MergePageSaves
<1>. QED
    BY <1>8, <1>9

----------------------------------------------------------------------------
(* All steps.                                                                *)

LEMMA WebInitKeepsWInv == WebInit => WInv
<1> SUFFICES ASSUME WebInit PROVE WInv
    OBVIOUS
<1>1. IInv
    BY InitIInv DEF WebInit
<1>2. dialogues = <<>> /\ stale = FALSE
    BY DEF WebInit
<1>3. Stored
    BY <1>1, <1>2 DEF Stored, IInv
<1>4. DialoguesRemember
  <2>1. dialogues \in Seq(DialogueSet)
      BY <1>2
  <2>2. DOMAIN dialogues = {}
      BY <1>2
  <2>. QED
      BY <2>1, <2>2 DEF DialoguesRemember
<1>5. stale \in BOOLEAN
    BY <1>2
<1>. QED
    BY <1>1, <1>3, <1>4, <1>5 DEF WInv

LEMMA WebNextKeepsWInv ==
  ASSUME WInv, [WebNext]_webVars
  PROVE  WInv' /\ (~stale' => [History!RefsNext]_History!refs)
<1>1. CASE OpenRepo \/ CommandRoute
  <2>1. dialogues' = dialogues /\ stale' = stale
      BY <1>1 DEF OpenRepo, CommandRoute
  <2>2. Stored' /\ Kept(nodes, nodes')
      BY <1>1, CommandsKeepStore DEF WInv
  <2>3. DialoguesRemember'
      BY <2>1, <2>2, RemembersKept DEF WInv, DialoguesRemember
  <2>4. IInv => IInv' /\ [History!RefsNext]_History!refs
      BY <1>1, CommandsAreCommands, NextKeepsIInv, StepIsRefsStep
  <2>. QED
      BY <2>1, <2>2, <2>3, <2>4 DEF WInv
<1>2. CASE (\E t, s \in Branch : StartMerge(t, s)) \/ StartSync
  <2>1. UNCHANGED <<nodes, heads, current, rendered, edited, unrenderable, unreplayable, stale>>
      BY <1>2 DEF StartMerge, StartSync, Start, faults
  <2>2. DialoguesRemember'
    <3>1. ASSUME NEW t \in Branch, NEW s \in Branch, StartMerge(t, s)
          PROVE  DialoguesRemember'
      <4>1. "merge" \in Kind /\ Start(Dialogue("merge", t, s))
          BY <3>1 DEF StartMerge, Kind
      <4>. QED
          BY <4>1, StartRemembers
    <3>2. CASE StartSync
      <4>1. /\ "sync" \in Kind /\ Start(Dialogue("sync", current, NoBranch))
            /\ current \in Branch /\ current \in DOMAIN heads
          BY <3>2, StoredHeads DEF StartSync, Kind, WInv
      <4>. QED
          BY <4>1, StartRemembers
    <3>. QED
        BY <1>2, <3>1, <3>2
  <2>3. Stored' /\ (IInv => IInv')
      BY <2>1 DEF WInv, Stored, IInv, TypeOK, HeadsResolve, ParentsEarlier, CurrentAlive,
                  ModelFileTruth, OneLiveRoot, Rooted
  <2>. QED
      BY <2>1, <2>2, <2>3 DEF WInv, History!refs
<1>3. ASSUME NEW i \in DOMAIN dialogues, WorkerMerges(i)
      PROVE  WInv' /\ (~stale' => [History!RefsNext]_History!refs)
  <2>1. UNCHANGED <<nodes, heads, current, rendered, edited, unrenderable, unreplayable, stale>>
      BY <1>3 DEF WorkerMerges, faults
  <2>2. DialoguesRemember'
      BY <1>3, WorkerRemembers
  <2>3. Stored' /\ (IInv => IInv')
      BY <2>1 DEF WInv, Stored, IInv, TypeOK, HeadsResolve, ParentsEarlier, CurrentAlive,
                  ModelFileTruth, OneLiveRoot, Rooted
  <2>. QED
      BY <2>1, <2>2, <2>3 DEF WInv, History!refs
<1>4. ASSUME NEW i \in DOMAIN dialogues, MergePage(i) \/ WorkerSyncs(i)
      PROVE  WInv' /\ (~stale' => [History!RefsNext]_History!refs)
  <2>1. Stored' /\ DialoguesRemember'
      BY <1>4, PagesKeepStore
  <2>2. ~stale' => IInv' /\ [History!RefsNext]_History!refs
      BY <1>4, FreshSave
  <2>3. stale' \in BOOLEAN
      BY <1>4 DEF WInv, MergePage, WorkerSyncs, Saved
  <2>. QED
      BY <2>1, <2>2, <2>3 DEF WInv
<1>5. CASE UNCHANGED webVars
  <2>1. UNCHANGED <<nodes, heads, current, rendered, edited, unrenderable, unreplayable,
                    dialogues, stale>>
      BY <1>5 DEF webVars, faults
  <2>. QED
      BY <2>1 DEF WInv, Stored, DialoguesRemember, IInv, TypeOK, HeadsResolve, ParentsEarlier,
                  CurrentAlive, ModelFileTruth, OneLiveRoot, Rooted, History!refs
<1>. QED
    BY <1>1, <1>2, <1>3, <1>4, <1>5 DEF WebNext

\* The inductive invariant of the web application.
THEOREM WebInductive == WebSpec => []WInv
<1>1. WebInit => WInv
    BY WebInitKeepsWInv
<1>2. WInv /\ [WebNext]_webVars => WInv'
    BY WebNextKeepsWInv
<1>. QED
    BY <1>1, <1>2, PTL DEF WebSpec

\* Whatever dialogues save over each other, what they remember and the files
\* have their types, and a dialogue only remembers revisions that are stored.
THEOREM WebTypeCorrect == WebSpec => []WebTypeOK
<1>1. WInv => WebTypeOK
  <2> SUFFICES ASSUME WInv, NEW i \in DOMAIN dialogues
               PROVE  LET d == dialogues[i]
                      IN  /\ d.kind \in Kind /\ d.state \in State
                          /\ d.target \in Branch /\ d.source \in Branch \cup {NoBranch}
                          /\ DOMAIN d.heads \subseteq Branch
                          /\ \A b \in DOMAIN d.heads : d.heads[b] \in DOMAIN nodes
      BY DEF WInv, Stored, WebTypeOK
  <2>1. dialogues[i] \in DialogueSet /\ Remembers(nodes, dialogues[i])
      BY SeqElement DEF WInv, DialoguesRemember
  <2>. QED
      BY <2>1, HeadsAreTyped DEF DialogueSet, Remembers
<1>. QED
    BY <1>1, WebInductive, PTL

\* A page that saves a store loaded long ago (routes_merge.py:74) leaves heads
\* that can be loaded all the same.
THEOREM WebHeadsAlwaysResolve == WebSpec => []HeadsResolve
<1>1. WInv => HeadsResolve
    BY DEF WInv, Stored
<1>. QED
    BY <1>1, WebInductive, PTL

\* As long as no dialogue saves over something newer, HEAD and the .schema
\* files are as they are after commands, a result page whose rendering raised
\* (routes_merge.py:75) included.
THEOREM FreshFilesAlways == WebSpec => []FreshFiles
<1>1. WInv => FreshFiles
    BY DEF WInv, IInv, FreshFiles
<1>. QED
    BY <1>1, WebInductive, PTL

\* Under the same condition the web application implements Refs: its dialogues
\* do to the history what commands do (routes_merge.py:73).
THEOREM FreshHistoryAlways == WebSpec => FreshHistory
<1>1. WInv /\ [WebNext]_webVars => [~stale' => [History!RefsNext]_History!refs]_webVars
    BY WebNextKeepsWInv
<1>. QED
    BY <1>1, WebInductive, PTL DEF WebSpec, FreshHistory
=============================================================================
