----------------------------- MODULE MCRepoFiles -----------------------------
(* RepoFiles on two branches: two processes that run commands against each  *)
(* other, and one process that may stop between any two file accesses.       *)
EXTENDS RepoFiles, TLC

Symmetry == Permutations(Proc) \cup Permutations(Branch \ {Main})

\* Bound of the crash run: the last revision is a merge node.
LastIsMerge == Len(ledger') = MaxRevs => Len(ledger'[MaxRevs].parents) = 2

\* Once a process writes, what it was told and the heads it started from are
\* used by nothing.
Writing(p) ==
  IF proc[p].pc \in {"open", "fill"} THEN [proc[p] EXCEPT !.cmd = NoCmd, !.store.heads = None]
  ELSE proc[p]

\* Only delete reads what HEAD says and only sync what a .schema file shows.
\* The race run has neither: what a sync commits, a migrate commits in any
\* case. States that differ in nothing else behave alike.
Unread(f) == f = HeadFile \/ f[1] = "schema"

ViewWithoutUnread ==
  <<[f \in DOMAIN disk |-> IF Unread(f) THEN disk[f] = Torn ELSE disk[f]],
    [p \in Proc |-> [Writing(p) EXCEPT
       !.todo = [i \in DOMAIN @ |-> IF Unread(@[i].file) THEN @[i].file ELSE @[i]]]],
    crashes, ledger, saved>>

\* The .schema file of a branch without a head keeps showing a revision of
\* `saved.revs`, which only grows.  A create that stops before it rewrites the
\* file leaves it for a sync to read, which then commits or not: what it would
\* commit a migrate commits in any case.
CrashView ==
  <<[f \in DOMAIN disk \ {SchemaFile(b) : b \in Branch \ DOMAIN saved.heads} |-> disk[f]],
    [p \in Proc |-> Writing(p)], crashes, ledger, saved>>
=============================================================================
