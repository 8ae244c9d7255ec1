------------------------------- MODULE MCRepo -------------------------------
(* Repo with three branches and a few revisions.  Only main has a name the  *)
(* code knows, so the other branches are interchangeable.                   *)
EXTENDS Repo, FiniteSets, TLC

Symmetry == Permutations(Branch \ {Main})

\* Of a file that shows something else than a head that renders, nothing is
\* ever used but that it is there: while the branch is deleted or its head
\* cannot be rendered it is no head's text, and what ends that overwrites it.
FileUsed(b) ==
  IF b \in DOMAIN heads /\ heads[b] \notin unrenderable
  THEN <<rendered[b], b \in edited>>
  ELSE <<rendered[b] # NoRev>>

View == <<nodes, heads, current, faults, [b \in Branch |-> FileUsed(b)]>>

\* Bounds of the run of all commands: files are edited while there are at most
\* two revisions, one revision at most cannot be rendered, the second or the
\* last, and the last revision is a merge node.
CommandBounds ==
  /\ unrenderable' \in {unrenderable, {2}, {MaxRevs}}
  /\ edited' \subseteq edited \/ Len(nodes) <= 2
  /\ Len(nodes') = MaxRevs => Len(nodes'[MaxRevs].parents) = 2

\* Bounds of the criss-cross run, which needs six revisions: one init, two
\* ordinary commits, three merges, and no branch deleted.
CrissCrossBounds ==
  /\ Cardinality({r \in DOMAIN nodes' : IsRoot(nodes', r)}) <= 1
  /\ Cardinality({r \in DOMAIN nodes' : Len(nodes'[r].parents) = 1}) <= 2
  /\ DOMAIN heads \subseteq DOMAIN heads'
  /\ unrenderable' = {}

\* With no branch deleted nothing depends on HEAD, with no file edited every
\* live branch's file follows its head, and after the one init the branches
\* are interchangeable: only how many of them are at a revision matters.
HistoryView ==
  <<[r \in DOMAIN nodes |-> nodes[r].parents],
    [r \in DOMAIN nodes |-> Cardinality({b \in DOMAIN heads : heads[b] = r})]>>
=============================================================================
