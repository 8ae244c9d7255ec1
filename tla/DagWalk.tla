------------------------------ MODULE DagWalk ------------------------------
(* The revision DAG as dag/walk.py sees it: pure functions of the map from a *)
(* revision id to its Migration.  A node is a record [parents, branch]; its  *)
(* parents are a sequence of length 0 (a root), 1 (a commit) or 2 (a merge   *)
(* node: the target's head first, then the source's).                        *)
(*                                                                           *)
(* What the walks compute by following parent pointers is written as the     *)
(* smallest set closed under those pointers, which needs no recursion and    *)
(* can be proved about.                                                      *)
EXTENDS Naturals, Sequences

ParentsOf(ns, r) == {ns[r].parents[i] : i \in DOMAIN ns[r].parents}

IsRoot(ns, r) == ns[r].parents = <<>>

ParentClosed(ns, S) == \A r \in S : ParentsOf(ns, r) \subseteq S

\* ancestors(): every revision reachable through parent pointers, r included.
Ancestors(ns, r) ==
  LET closed == {S \in SUBSET DOMAIN ns : r \in S /\ ParentClosed(ns, S)}
  IN  {x \in DOMAIN ns : \A S \in closed : x \in S}

FirstParentClosed(ns, S) ==
  \A r \in S : ~IsRoot(ns, r) => ns[r].parents[1] \in S

\* The revisions rollback() can pass through: r, its first parent, and so on
\* down to a root.
FirstParentLine(ns, r) ==
  LET closed == {S \in SUBSET DOMAIN ns : r \in S /\ FirstParentClosed(ns, S)}
  IN  {x \in DOMAIN ns : \A S \in closed : x \in S}

\* MUTANT of CommonAncestors: looks for shared history along first parents only.
CommonFirstParents(ns, a, b) == FirstParentLine(ns, a) \cap FirstParentLine(ns, b)

CommonAncestors(ns, a, b) == Ancestors(ns, a) \cap Ancestors(ns, b)

\* The candidates of merge_base(): common ancestors that no other common
\* ancestor descends from.
MergeBases(ns, a, b) ==
  LET common == CommonAncestors(ns, a, b)
  IN  IF a = b THEN {a}
      ELSE {c \in common : \A other \in common :
                              c \in Ancestors(ns, other) => other = c}

\* f with one more argument (or another value at one it has).
Put(f, x, v) == [y \in DOMAIN f \cup {x} |-> IF y = x THEN v ELSE f[y]]

Remove(f, x) == [y \in DOMAIN f \ {x} |-> f[y]]
=============================================================================
