-------------------------------- MODULE Refs --------------------------------
(* What a schemavcs repository promises about its history, whatever command  *)
(* is run: a graph of migrations that only grows, and branch heads of which  *)
(* one moves at a time.  Repo implements it (proved in RepoProofs), and      *)
(* so do processes that run one command after the other and may stop between *)
(* any two file accesses (RepoFiles, proved in RepoFilesProofs).             *)
EXTENDS DagWalk

CONSTANT Branch

VARIABLES
  nodes,  \* the migrations that branches have ever been able to reach
  heads   \* branch -> revision

refs == <<nodes, heads>>

Reachable(ns, hs) == UNION {Ancestors(ns, r) : r \in {hs[b] : b \in DOMAIN hs}}

RefsInit == nodes = [r \in {} |-> {}] /\ heads = [b \in {} |-> 0]

\* One new migration on top of a branch's head, or of two branches' heads.
Grow(b) ==
  /\ b \in DOMAIN heads
  /\ \E rev \in DOMAIN nodes' \ DOMAIN nodes :
       /\ \E parents \in {<<heads[b]>>} \cup {<<heads[b], heads[s]>> : s \in DOMAIN heads} :
            nodes' = Put(nodes, rev, [parents |-> parents, branch |-> b])
       /\ heads' = Put(heads, b, rev)

\* A branch goes to a revision some branch has in its history: a new branch
\* to any, an old one to one that has its whole history or down its own
\* first-parent line.
Move(b) ==
  /\ UNCHANGED nodes
  /\ \E rev \in Reachable(nodes, heads) :
       /\ heads' = Put(heads, b, rev)
       /\ b \in DOMAIN heads =>
            \/ rev \in FirstParentLine(nodes, heads[b])
            \/ Ancestors(nodes, heads[b]) \subseteq Ancestors(nodes, rev)

Drop(b) ==
  /\ b \in DOMAIN heads
  /\ heads' = Remove(heads, b)
  /\ UNCHANGED nodes

\* A new root, and one branch on it, instead of all the branches there were.
Restart(b) ==
  \E rev \in DOMAIN nodes' \ DOMAIN nodes :
     /\ nodes' = Put(nodes, rev, [parents |-> <<>>, branch |-> b])
     /\ heads' = [a \in {b} |-> rev]

RefsNext == \E b \in Branch : Grow(b) \/ Move(b) \/ Drop(b) \/ Restart(b)

RefsSpec == RefsInit /\ [][RefsNext]_refs
=============================================================================
