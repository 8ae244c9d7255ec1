-------------------------------- MODULE Repo --------------------------------
(* A schemavcs repository at the grain of one command: init, branch create / *)
(* delete / rollback, checkout, the migrate verbs, sync and merge, each run  *)
(* to its end with nothing between its load() and its last write (RepoFiles  *)
(* takes that apart).  A command that raises before save() changes no file   *)
(* and is no step here; one whose sync_model_file raises has saved already   *)
(* and leaves the .schema file, and HEAD, as they were.                      *)
(*                                                                           *)
(* A revision is its place in the order of creation: make_revision_id gives  *)
(* ids that are only fresh, and nothing reads the order.  The operations of  *)
(* a node are left to SchemaMerge; what matters of them here is whether      *)
(* replay() or the renderer raises on what they build, and that is chosen    *)
(* when the node is made.  A .schema file is known by the revision it was    *)
(* rendered from and by whether a person has edited it since.                *)
EXTENDS DagWalk

CONSTANTS
  Branch,    \* the branch names people use
  Main,      \* ROOT_BRANCH, the branch `init` creates
  NoBranch,  \* HEAD before the repository exists
  Editable,  \* the branches whose .schema file people edit by hand
  MaxRevs    \* bound: revisions one behaviour creates

ASSUME BranchAssumption ==
  /\ Main \in Branch /\ NoBranch \notin Branch
  /\ Editable \subseteq Branch
ASSUME MaxRevsAssumption == MaxRevs \in Nat

VARIABLES
  nodes,     \* .schemavcs/dag/nodes: the sequence of migrations ever written
  heads,     \* .schemavcs/dag/heads.json: branch -> revision
  current,   \* .schemavcs/HEAD
  rendered,  \* schemas/<branch>.schema: the revision it shows, NoRev if no file
  edited,    \* the branches whose .schema file a person has changed since
  unrenderable,  \* the revisions sync_model_file raises on
  unreplayable   \* and those among them on which already replay() raises

faults == <<unrenderable, unreplayable>>
vars == <<nodes, heads, current, rendered, edited, faults>>

NoRev == 0
NoHeads == [b \in {} |-> NoRev]

----------------------------------------------------------------------------
(* persistence.load: replaying the nodes through append() gives a head to    *)
(* every branch name a node carries, also a deleted branch's; these are then *)
(* replaced by nothing and the entries of heads.json are set one by one.     *)

\* The last node of b to be appended stands for whichever one the order of
\* the glob makes last.
ReplayedHeads(ns) ==
  [b \in {ns[r].branch : r \in DOMAIN ns} |->
     CHOOSE r \in DOMAIN ns :
       /\ ns[r].branch = b
       /\ \A q \in DOMAIN ns : ns[q].branch = b => q <= r]

SetHeads(base, hs) ==
  [b \in DOMAIN base \cup DOMAIN hs |-> IF b \in DOMAIN hs THEN hs[b] ELSE base[b]]

\* MUTANT of ReplaceAllHeads: keeps the heads replay left behind.
HeadsKeptFromReplay(replayed, hs) == SetHeads(replayed, hs)

ReplaceAllHeads(replayed, hs) == hs

Loaded == SetHeads(ReplaceAllHeads(ReplayedHeads(nodes), NoHeads), heads)

HasBranch(b) == b \in DOMAIN Loaded

----------------------------------------------------------------------------
Init ==
  /\ nodes = <<>>
  /\ heads = NoHeads
  /\ current = NoBranch
  /\ rendered = [b \in Branch |-> NoRev]
  /\ edited = {}
  /\ unrenderable = {} /\ unreplayable = {}

\* What can be wrong with the schema of a new node.  The renderer raises on
\* an index or a key whose column or table is gone, replay() on a table that
\* is dropped twice: also for every descendant, and only ever first for a
\* merge node, since the other commands drop what they find in a replay. That
\* takes verbs which other nodes hold (a table, a column, an index on it, the
\* column's drop): any node but a root may stand here for the last of them.
NewSchema(parents) ==
  LET new == Len(nodes) + 1
      raises == \E i \in DOMAIN parents : parents[i] \in unreplayable
  IN  \/ /\ ~raises
         /\ UNCHANGED unreplayable
         /\ \/ UNCHANGED unrenderable
            \/ parents # <<>> /\ unrenderable' = unrenderable \cup {new}
      \/ /\ raises \/ Len(parents) = 2
         /\ unreplayable' = unreplayable \cup {new}
         /\ unrenderable' = unrenderable \cup {new}

\* sync_model_file: replays and renders the head, and only then opens the file.
SyncModelFile(rev, b) ==
  \/ /\ rev \notin unrenderable'
     /\ rendered' = [rendered EXCEPT ![b] = rev]
     /\ edited' = edited \ {b}
  \/ /\ rev \in unrenderable'
     /\ UNCHANGED <<rendered, edited>>

\* persistence.save followed by sync_model_file for one branch.
SaveAndSync(hs, b) ==
  /\ heads' = hs
  /\ SyncModelFile(hs[b], b)

\* MUTANT of AppendAndSync: the head is taken before the node is appended.
HeadBeforeAppend(hs, b, parents) ==
  /\ Len(nodes) < MaxRevs
  /\ nodes' = Append(nodes, [parents |-> parents, branch |-> b])
  /\ NewSchema(parents)
  /\ SaveAndSync(Put(hs, b, Len(nodes)), b)

\* MUTANT of AppendAndSync: heads.json is saved, the new node's file is not.
HeadWithoutNode(hs, b, parents) ==
  /\ Len(nodes) < MaxRevs
  /\ UNCHANGED <<nodes, faults>>
  /\ SaveAndSync(Put(hs, b, Len(nodes) + 1), b)

\* DagStore.append: the new node becomes the head of its branch.
AppendAndSync(hs, b, parents) ==
  /\ Len(nodes) < MaxRevs
  /\ nodes' = Append(nodes, [parents |-> parents, branch |-> b])
  /\ NewSchema(parents)
  /\ SaveAndSync(Put(hs, b, Len(nodes) + 1), b)

\* MUTANT of InitRepo: the new root is added to the branches already there.
InitKeepsBranches ==
  /\ AppendAndSync(Loaded, Main, <<>>)
  /\ current' = Main

\* `init` starts from an empty DagStore, never from what is on disk: run in an
\* existing repository it leaves main as the only head.
InitRepo ==
  /\ AppendAndSync(NoHeads, Main, <<>>)
  /\ current' = Main

\* MUTANT of CreateBranch: starts at the last node that carries the source's
\* name and not at its head.
CreateAtLastNode(name, from) ==
  /\ ~HasBranch(name)
  /\ HasBranch(from) /\ from \in DOMAIN ReplayedHeads(nodes)
  /\ UNCHANGED <<nodes, faults>>
  /\ SaveAndSync(Put(Loaded, name, ReplayedHeads(nodes)[from]), name)
  /\ current' = IF ReplayedHeads(nodes)[from] \in unrenderable THEN current ELSE name

\* HEAD is written last, so not if sync_model_file has raised.
CreateBranch(name, from) ==
  /\ ~HasBranch(name)
  /\ HasBranch(from)
  /\ UNCHANGED <<nodes, faults>>
  /\ SaveAndSync(Put(Loaded, name, Loaded[from]), name)
  /\ current' = IF Loaded[from] \in unrenderable THEN current ELSE name

DeleteBranch(name) ==
  /\ name # current
  /\ HasBranch(name)
  /\ heads' = Remove(Loaded, name)
  /\ UNCHANGED <<nodes, current, rendered, edited, faults>>

\* MUTANT of Rollback: the model file is not regenerated.
RollbackWithoutSync(name, rev) ==
  /\ HasBranch(name)
  /\ rev \in FirstParentLine(nodes, Loaded[name]) \ {Loaded[name]}
  /\ heads' = Put(Loaded, name, rev)
  /\ UNCHANGED <<nodes, current, rendered, edited, faults>>

\* Any number of steps >= 1: every revision on the first-parent line below
\* the head is the end of one of them.
Rollback(name, rev) ==
  /\ HasBranch(name)
  /\ rev \in FirstParentLine(nodes, Loaded[name]) \ {Loaded[name]}
  /\ UNCHANGED <<nodes, current, faults>>
  /\ SaveAndSync(Put(Loaded, name, rev), name)

Checkout(b) ==
  /\ HasBranch(b)
  /\ current' = b
  /\ UNCHANGED <<nodes, heads, rendered, edited, faults>>

\* Every migrate verb: _commit onto the head of the branch. drop-constraint
\* does so without a replay, hence also where replay() raises.
Migrate(b) ==
  /\ HasBranch(b)
  /\ AppendAndSync(Loaded, b, <<Loaded[b]>>)
  /\ UNCHANGED current

EditFile(b) ==
  /\ b \in Editable
  /\ rendered[b] # NoRev
  /\ edited' = edited \cup {b}
  /\ UNCHANGED <<nodes, heads, current, rendered, faults>>

\* generate-migration: replays the head, commits what the file says if that
\* differs, and touches nothing if it does not.
FileDiffers(b) == b \in edited \/ rendered[b] # Loaded[b]

Sync(b) ==
  /\ HasBranch(b)
  /\ Loaded[b] \notin unreplayable
  /\ rendered[b] # NoRev
  /\ FileDiffers(b)
  /\ AppendAndSync(Loaded, b, <<Loaded[b]>>)
  /\ UNCHANGED current

----------------------------------------------------------------------------
(* merge(): target t, source s.                                              *)

IsFastForward(base, head) == base = head

FastForward(t, s) ==
  /\ UNCHANGED <<nodes, faults>>
  /\ SaveAndSync(Put(Loaded, t, Loaded[s]), t)

\* MUTANT of TrueMerge: the source becomes a second parent of the target's head.
MergeIntoHead(t, s) ==
  /\ nodes' = [nodes EXCEPT ![Loaded[t]].parents = @ \o <<Loaded[s]>>]
  /\ UNCHANGED faults
  /\ SaveAndSync(Loaded, t)

\* MUTANT of TrueMerge: the source's head is the first parent.
MergeSourceFirst(t, s) == AppendAndSync(Loaded, t, <<Loaded[s], Loaded[t]>>)

TrueMerge(t, s) == AppendAndSync(Loaded, t, <<Loaded[t], Loaded[s]>>)

\* MUTANT of Merge: the two fast-forward tests are swapped.
MergeTestsSwapped(t, s) ==
  /\ HasBranch(t) /\ HasBranch(s)
  /\ Loaded[t] # Loaded[s]
  /\ LET bases == MergeBases(nodes, Loaded[t], Loaded[s])
     IN  \E base \in bases :
           /\ bases = {base}
           /\ ~IsFastForward(base, Loaded[t])
           /\ \/ IsFastForward(base, Loaded[s]) /\ FastForward(t, s)
              \/ ~IsFastForward(base, Loaded[s]) /\ base \notin unreplayable /\ TrueMerge(t, s)
  /\ UNCHANGED current

\* MUTANT of Merge: an ambiguous merge base is settled by taking one.
MergeOnAnyBase(t, s) ==
  /\ HasBranch(t) /\ HasBranch(s)
  /\ Loaded[t] # Loaded[s]
  /\ \E base \in MergeBases(nodes, Loaded[t], Loaded[s]) :
       /\ ~IsFastForward(base, Loaded[s])
       /\ \/ IsFastForward(base, Loaded[t]) /\ FastForward(t, s)
          \/ ~IsFastForward(base, Loaded[t]) /\ base \notin unreplayable /\ TrueMerge(t, s)
  /\ UNCHANGED current

\* Raises, so does nothing, if the heads are equal, if the base is ambiguous,
\* if the source is an ancestor of the target or if the base, which is what
\* the cross-object pass looks at, does not replay.
Merge(t, s) ==
  /\ HasBranch(t) /\ HasBranch(s)
  /\ Loaded[t] # Loaded[s]
  /\ LET bases == MergeBases(nodes, Loaded[t], Loaded[s])
     IN  \E base \in bases :
           /\ bases = {base}
           /\ ~IsFastForward(base, Loaded[s])
           /\ \/ IsFastForward(base, Loaded[t]) /\ FastForward(t, s)
              \/ ~IsFastForward(base, Loaded[t]) /\ base \notin unreplayable /\ TrueMerge(t, s)
  /\ UNCHANGED current

Next ==
  \/ InitRepo
  \/ \E b \in Branch : \/ DeleteBranch(b)
                       \/ Checkout(b)
                       \/ Migrate(b)
                       \/ EditFile(b)
                       \/ Sync(b)
  \/ \E name, from \in Branch : CreateBranch(name, from)
  \/ \E b \in Branch : \E rev \in DOMAIN nodes : Rollback(b, rev)
  \/ \E t, s \in Branch : Merge(t, s)

Spec == Init /\ [][Next]_vars

----------------------------------------------------------------------------
(* Properties.                                                               *)

Node == [parents : Seq(Nat \ {NoRev}), branch : Branch]

\* Types of the five files.
TypeOK ==
  /\ nodes \in Seq(Node)
  /\ DOMAIN heads \subseteq Branch
  /\ heads \in [DOMAIN heads -> Nat \ {NoRev}]
  /\ current \in Branch \cup {NoBranch}
  /\ rendered \in [Branch -> Nat]
  /\ edited \subseteq Branch
  /\ unreplayable \subseteq unrenderable /\ unrenderable \subseteq DOMAIN nodes

\* load() never raises UnknownRevisionError (store.py:45-61): every head names
\* a stored node and every parent a node stored earlier, so the DAG has no
\* cycle and _topologically_sorted finds every parent it asks for.
HeadsResolve ==
  /\ \A b \in DOMAIN heads : heads[b] \in DOMAIN nodes
  /\ \A r \in DOMAIN nodes : ParentsOf(nodes, r) \subseteq 1 .. (r - 1)

\* HEAD never names a branch that does not exist, so a command without
\* --branch always finds its branch (branch_cmd.delete's refusal).
CurrentAlive == current # NoBranch => current \in DOMAIN heads

\* What is left of model_sync/sync.py:3 "the model file is always current-state
\* truth" when save() comes before the sync that may raise: a live branch's file that nobody has edited shows another
\* revision than the head only while the head cannot be rendered at all, and
\* the first command that leaves the branch with a head that can repairs it.
\* So where heads render, a sync nobody asked for commits nothing.
ModelFileTruth ==
  \A b \in DOMAIN heads :
     b \notin edited /\ heads[b] \notin unrenderable => rendered[b] = heads[b]

\* Any two live branches share history, whatever was rolled back, deleted or
\* re-initialised: merge_base's "no common ancestor" is never raised.
CommonHistory ==
  \A a, b \in DOMAIN heads : CommonAncestors(nodes, heads[a], heads[b]) # {}

\* merge() says there is nothing to merge exactly when the target already
\* has the source's head: engine.py:53 tests this on the merge base alone.
NothingToMergeIffContained ==
  \A t, s \in DOMAIN heads :
     MergeBases(nodes, heads[t], heads[s]) = {heads[s]}
       <=> heads[s] \in Ancestors(nodes, heads[t])

\* walk.py:6 "raises rather than silently choosing one side": a merge node is
\* only ever made where one common ancestor of its parents has all the others
\* in its history, so three-way comparison against it misses nothing.
MergesHadOneBase ==
  \A r \in DOMAIN nodes : Len(nodes[r].parents) = 2 =>
     LET common == CommonAncestors(nodes, nodes[r].parents[1], nodes[r].parents[2])
     IN  \E base \in common : common \subseteq Ancestors(nodes, base)

\* No command changes the ancestors of a revision that exists: what lets
\* DagStore keep _ancestor_cache without ever invalidating it.
AncestorsImmutable ==
  [][\A r \in DOMAIN nodes : /\ r \in DOMAIN nodes'
                             /\ Ancestors(nodes', r) = Ancestors(nodes, r)]_vars

\* Outside init a branch that is moved keeps its whole history, or goes back
\* along its own first-parent line: no merge ever drops target work.
HeadMoves ==
  [][~InitRepo =>
       \A b \in DOMAIN heads \cap DOMAIN heads' :
          \/ Ancestors(nodes, heads[b]) \subseteq Ancestors(nodes', heads'[b])
          \/ heads'[b] \in FirstParentLine(nodes, heads[b])]_vars

\* Outside init a command creates, deletes or moves one branch at most.
\* persistence.load would otherwise bring deleted branches back (store.py:67).
SameHead(b) ==
  /\ b \in DOMAIN heads <=> b \in DOMAIN heads'
  /\ b \in DOMAIN heads => heads'[b] = heads[b]

OneBranchPerCommand ==
  [][~InitRepo => \A a, b \in Branch : a # b => SameHead(a) \/ SameHead(b)]_vars

\* A revision no branch reaches any more (rolled back, or on a deleted branch)
\* never comes back into a branch's history by another command.
Reachable(ns, hs) == UNION {Ancestors(ns, r) : r \in {hs[b] : b \in DOMAIN hs}}

NoRevival ==
  [][Reachable(nodes', heads') \cap DOMAIN nodes \subseteq Reachable(nodes, heads)]_vars

\* Seen through its nodes and heads alone, whatever command is run, the
\* repository is the history that Refs promises.
History == INSTANCE Refs

ImplementsRefs == History!RefsSpec
=============================================================================
