# schemavcs in TLA+

schemavcs keeps the history of a relational schema in a graph of migrations with
branches and merges, like Git does for files. This directory holds its
specification: modules translated from the Python source, TLC configurations
that check them on small instances, and theorems that TLAPS checks for every
value of the constants. `PROJECT.json` lists for every definition the source
lines it stands for. Paths below are relative to `src/src/schemavcs/` unless
they begin with `web/` (`src/src/schemavcs_web/`); documents are at `src/`.

## 1. Inventory

| part | source | state it keeps | operations |
|---|---|---|---|
| Revision graph | `dag/store.py`, `dag/walk.py`, `model/migration.py` | nodes, heads, the ancestor cache (one `DagStore`) | append, set_head, replace_all_heads, delete_branch; ancestors, merge_base, operations_since, first-parent walk, fast-forward test |
| Storage | `dag/persistence.py`, `storage/paths.py`, `model_sync/sync.py` | `.schemavcs/dag/nodes/*.json`, `heads.json`, `.schemavcs/HEAD`, `schemas/<branch>.schema` | load, save, sync_model_file, init_storage, write_current_branch |
| Commands | `cli/main.py`, `cli/commands/*` | none of their own | init, branch create / delete / rollback, checkout, the migrate verbs, generate-migration, merge, emit-ddl |
| Replay | `dag/apply.py`, `dag/walk.py:95`, `model/operations.py`, `model/schema.py` | none: pure | apply_operation, replay |
| Merge engine | `merge/*.py` | the spent nonces of `ResolutionEngine` | group, classify, auto-resolve, confirm, cross-object pass, name collisions, synthesise the merge node |
| Diff and rename detection | `snapshot/*.py`, `rename_detect/*.py` | the shrinking pool of candidates | diff, propose, confirm, to_operations |
| Schema language | `dsl/*` | none | parse, render |
| DDL | `ddl/*` | none | toposort, emit |
| Web layer | `web/bridge.py`, `web/session.py`, `web/confirm_adapter.py`, `web/routes_*.py` | sessions, one worker thread and one `ConfirmBridge` per merge or rename dialogue | ask, submit, poll, result; the pages |
| Explainer | `llm/*` | none | formats a text for a conflict |

**How they interact.** A command loads a `DagStore` from the files, decides in
memory, saves the store (every node file again, then `heads.json`), renders the
`.schema` file of the branch it moved, and for some commands writes `HEAD`.
There is no lock, no journal and no rename-into-place: the order of the writes
is all the protocol there is. A command that raises before `save` has changed
nothing; replaying and rendering come after `save`, and a command that raises
there has moved the head and left the `.schema` file and `HEAD` as they were. `merge` calls the walks for the merge base and the
operations of both sides, hands them to the classifier, asks through a callback
(a terminal, or a worker thread parked in a `ConfirmBridge`), and appends one
node with two parents whose operations are only what had to be newly decided:
replaying the merged head replays both histories and then these operations.
`generate-migration` compares the `.schema` file with the replayed head.

**What is hard.** (1) The graph's long-lived shape: rollbacks, deleted branches
and a second `init` leave nodes no head reaches, and `load` first gives a head
to every branch name a node carries. (2) Replay order: `replay` starts from a
Python set, so two runs may apply operations of different branches in different
orders, and a merge is right only if no order matters any more. (3) Three-way
merge by operations instead of by states: what two lists of operations mean for
one object, what was resolved before, what one side destroyed under the other.
(4) A process that stops between two writes, and two processes at once. (5) In
the web layer, answers that arrive late, twice or never, and a store loaded when
a dialogue began and saved when it ends. (6) A loop of questions over a pool
that shrinks with some answers and not with others, driven by scores.

**What makes each part correct.**

- *Graph and commands*: heads and parents resolve; ancestors never change (the
  cache is never invalidated); a command moves one branch, forward with its whole
  history or back along its first-parent line; nothing unreachable comes back;
  merges are made on one base only; `HEAD` names a live branch, and the model
  files show the heads that can be rendered.
- *Storage*: `heads.json` never leads to a missing file, whatever is interrupted;
  a command that stops happened entirely or not at all, as far as the history is
  concerned; processes that run at once leave whole node files, and
  something that loads unless two of them wrote `heads.json` at the same time.
- *Merge*: a head stands for one schema in every replay order; every
  contradiction is asked and the answer holds; fields nobody disputes merge three
  ways; nothing in the result needs what was dropped; nothing is lost unreported;
  names stay unique.
- *Confirm bridge*: worker and browser never wait for each other; a question
  gets the answer chosen for it; an answer takes the dialogue on.
- *Web sessions*: a dialogue remembers only what is stored; while none saves
  over something newer, the browser does to the repository what commands do.
- *Diff and rename detection*: no column is used twice or lost, the questions
  end, and the operations turn the tracked schema into the file without touching
  the identity of a column whose name the file still has.
- *DDL*: there always is an operation to emit next; what is emitted to the end
  builds the schema replay gives, and only a merge whose sides met over something
  dropped or renamed can make it raise or rename what is not there.

## 2. Modules

| module | what it is |
|---|---|
| `DagWalk` | pure functions of the graph: ancestors, first-parent line, common ancestors, merge bases |
| `Repo` | the repository, one command per step |
| `Refs` | abstract: what the repository promises about its history |
| `RepoFiles` | the same commands as sequences of file accesses by several processes that may stop |
| `SchemaOps` | operations, replay in every order, the verbs of `migrate` |
| `MergeRules` | grouping, classification, cross-object pass, collisions, the operations of a merge node |
| `SchemaMerge` | two branches with operations, merges, and the human's answers; composes the three above |
| `ConfirmBridge` | a dialogue in the browser: the worker thread that runs the engine and the requests that poll and answer |
| `WebMerge` | the web application: the commands as routes, merges and syncs as dialogues that keep the store they loaded; extends `Repo` |
| `Similarity` | pure functions: edit distance of names, likeness of types and constraints, the weighted score |
| `RenameDetect` | the rename detector on one table, and the operations it ends in |
| `FileSync` | a whole sync: the edited file against the tracked schema, table by table, to the committed operations; composes `RenameDetect` and `SchemaOps` |
| `EmitDdl` | the dependency sort and what the emitter looks up, on the histories of `SchemaMerge` |
| `MCRepo`, `MCRepoFiles`, `MCSchemaMerge`, `MCWebMerge`, `MCFileSync` | bounds, symmetry, views, starting schemas and edited files for TLC |
| `DagWalkProofs`, `RepoProofs`, `RepoFilesProofs`, `ConfirmBridgeProofs`, `ReplayProofs`, `FileSyncProofs`, `OperationProofs`, `SchemaMergeProofs` | the theorems |

### 2.1 Repo

`nodes` is the sequence of all migrations ever written (a revision id is its
place in the sequence: ids are only fresh and nothing compares them), `heads` is
`heads.json`, `current` is `HEAD`, `rendered[b]` says which revision
`schemas/b.schema` shows and `edited` which of these files a person has changed
since. Each command that changes a file is one action. A command that raises
before `save` changes no file and is no step. One that raises after it is a step
with two outcomes: `SaveAndSync` moves the heads and then calls `SyncModelFile`,
which writes the `.schema` file only if the head renders, and `CreateBranch` and
the result page of `WebMerge` switch `HEAD` only after that. Whether a head
replays and renders depends on operations, which are not in this module, so it is
chosen when the node is made (`NewSchema`) and kept in `unreplayable` and
`unrenderable`: a root renders; replay first raises at a merge node (a table
dropped by both sides) and then at all its descendants; any other node may be the
one after which an index or a key names something that is gone. `Loaded` is what
`persistence.load` makes of the files, in its three moves: the heads that replay
leaves, `replace_all_heads`, and `set_head` per entry of `heads.json`. The
operations of a node and what a schema contains are left to `SchemaMerge`; a sync
of an edited file always commits (an edit that changes nothing is not an edit).

`DagWalk` writes the code's loops over parent pointers as smallest closed sets:
`ancestors` is the set of revisions in every parent-closed set that contains the
start, and so on. This is the specification of the loops, not the loops; it
needs no recursion and can be proved about.

### 2.2 Refs

A graph that only grows and heads of which one at a time grows by one node,
moves to a revision some branch has (keeping its whole history or going down its
first-parent line), or is dropped; and a restart, which is `init`. It is the
abstract specification twice: of `Repo`, with `nodes` and `heads` as they are
(`Repo!ImplementsRefs`), and of `RepoFiles` with commands that do not overlap,
with the heads that were last written to `heads.json` and the revisions
written heads ever reached (`RepoFiles!RefsSpec`), so that a command that stops halfway has either
happened or not. Both are model-checked and proved.

### 2.3 RepoFiles

`disk` maps files to contents, and `proc` each process to where it is: read the
node files, read `heads.json`, decide, and then for each file to be written
`Open` (which empties it) and `Fill`, the two steps of `Path.write_text`. A file
between the two reads as `Torn`: a JSON file that does not parse, an empty
`.schema` file that parses as a schema without tables. If another process has
filled the file since it was emptied, `Fill` writes over the beginning of that text
(`Overwritten`): of a longer one the end stays, and the file is `Mixed`, which no
reader can parse. A text of the same length is covered exactly: a node file has
only one text, and two `heads.json` of the same branches are equally long, since
every id has 12 digits. A command may also raise in `sync_model_file`
(`NotRendered`) or in the replay it starts with (`Replaying`); here that is left
open at every command. A process may `Crash`
at any point; nothing it holds in memory survives. `ledger` and `saved` are
history variables for the properties; actions use them only to pick a fresh
revision id and to tell an empty schema from others. Simplifications: all node
files are read in one step; the first of the two loads of a migrate verb is left
out; nobody edits a `.schema` file by hand (that is in `Repo`).

### 2.4 SchemaOps, MergeRules, SchemaMerge

A schema is a function from object ids to tables, columns, indexes and foreign
keys; the code nests the last three in their table, which is what `Inside` says.
`Apply` is `apply_operation`, with the misses it forgives and the one it does not
(`DropTable`, which sets `broken`). `Replays` is the set of schemas `replay`
can give: one for each order that puts parents first.

`MergeRules` follows `merge()`: `OperationsSince` for both sides (one parent per
merge node, as in the code), groups by object, `Classify`, the answers the human
is offered, the cross-object pass in both directions, name collisions, and
`MergeOps`, the operations the merge node gets. `SchemaMerge` lets the two
branches be worked on and merged in any order, and takes every answer. It keeps
`report`, what the last merge asked and told, and, like the code, the ancestor
sets computed when a node is appended.

Left out: column
positions, CHECK and UNIQUE constraints (they touch nothing else), indexes and
keys over several columns, and the wording of notes. Of the old values that
operations repeat only a renaming's is read, by `emit-ddl`.

### 2.5 ConfirmBridge

`merge` and `detect_renames` call their `confirm` argument in the middle of a
loop. `WebConfirmBridge.ask` is that argument: it runs on a worker thread, stores
the question, sets an event and waits for another; requests, each on a thread of
the server's pool, poll for the question and submit an answer. In the model a
thread is the list of accesses it has still to make (`Ask` and `Finish` for the
worker, `Get` and `Post` for requests) and every access to an event or a field is
a step, so all interleavings are there. A client is a browser window that makes
one request at a time and clicks on the page it shows; two clients are two
windows, or one that is clicked twice. A page remembers which question it shows,
an answer which page it was clicked on (`shown`) and which question its request
found pending (`polled`): the form itself names no question, and a merge's token
is issued for the latter, by the id of its object. Two questions can have one id
(`merge/cross_object.py:149`: all that refer to one dropped object have its id), so
`TakeAnswer` leaves open whether an answer to another question is refused. Left
out: what is asked. The session registry and the repository are in
`WebMerge`.

### 2.6 WebMerge

The files are those of `Repo`, and every route that runs a command to its end is
that command's action (`CommandRoute`, `OpenRepo`). A merge and a sync are not:
`start_merge` and `start_sync` load a `DagStore`, keep it in the dialogue, and
return; `dialogues` is the list of all that were ever started, each with the
heads of its store (the nodes it has loaded stay on disk, so the heads are all
that can differ). `WorkerMerges` is `merge()` on that store at any later time;
`MergePage` is the page of the result, which saves the store, renders and writes
`HEAD` *each time it is loaded*, and if the rendering raises leaves the `.schema`
file and `HEAD` as they were; `WorkerSyncs` commits and saves in the worker itself,
also when the registry has a newer dialogue for the same branch (`Registered`).
A worker that raises before it saves, or that nobody answers, takes no step. `stale` is a history
variable: some dialogue has saved heads that differed from those on disk when it
had loaded them.

### 2.7 Similarity, RenameDetect, FileSync

`similarity.py` computes with Python floats; the model computes with multiples
of `1/Grain`, `Grain` a common multiple of the lengths and sizes that occur, so
all quotients are exact. Two scores that differ by exactly the gap of 0.15 may
differ by less in floats, and of two equal scores either may be the greater
float: `SurelyClear` is what is clear in any case, and `Best` allows each pair
the floats could choose. (At the acceptance threshold itself the floats that
occur in the run are never below 0.6, so there the model decides as the code.)
`_levenshtein`'s two
rows are `row` and `current`, as recursive functions.

A state of `RenameDetect` is the detector in the middle of its loop: the pool on
both sides and the pairs asked about with their answers. `Propose` is one turn
of the loop with the person's answer, `Detected` its exit. `FileSync` is
`diff_snapshot`, one detector per table that kept its name, and
`generate_operations`; `Commit` applies the operations with the `Apply` of
`SchemaOps`. The file is the parsed one: a sequence of tables with a sequence of
columns, in which names may repeat. Positions are in, because the score looks at
them.

### 2.8 EmitDdl

Pure definitions on the state of `SchemaMerge`. `Orders` are the orders in which
`topological_order` may visit a history, `Edges` is `build_dependency_edges` with
its dictionaries that keep the last operation per id, `Toposort` is Kahn's
algorithm with its sorted ready list, `Resolves` says which names `_emit_one`
looks up in the schema emitted so far. The one name it does not look up is the old
one of a `RENAME`, which is printed as it was stored: `NamesWhatIsThere` compares it
with the schema emitted so far, and `misnamed` remembers that one was wrong. Other
text is left out; so `EmitDdl` does not say whether the SQL is valid in other
respects (names that are there twice, or the id that `DROP CONSTRAINT` prints
where a name should be).

## 3. Runs

All bounds are constants of the `.cfg` or named constraints of the MC modules.

| run | instance | what it shows |
|---|---|---|
| `repo_commands` | 3 branches, 4 revisions, `CommandBounds` | every sequence of commands, some of which raise after saving, keeps the invariants and action properties of `Repo` and implements `Refs` |
| `repo_crisscross` | 3 branches, 6 revisions, `CrissCrossBounds` | merges happen only where one common ancestor has all others in its history |
| `files_race` | 2 processes, 2 branches, 3 revisions | any interleaving leaves a `heads.json` that resolves, whole node files, and a repository that loads unless two texts of `heads.json` mixed |
| `files_crash` | 1 process, 2 branches, 4 revisions, 1 crash | implements `Refs` through a crash and through renderings that raise; no `.schema` file is ahead of the saved heads |
| `merge_edits` | a table with a column and an index; singles of every kind, pairs of renames, retypes and drops | one schema per head, three-way merge per field, contradictions asked, answers kept; emitted DDL builds the replayed schema, and raises or misnames only after certain merges |
| `merge_objects` | two tables; up to two adds and drops per side | nothing needs what was dropped, nothing lost unreported, unique names; a table is dropped after its columns |
| `bridge` | 2 windows, 3 questions, both engines | no lost wakeup, no stale page, answers go to their question while one window answers; an answer takes the dialogue on |
| `sync` | six tracked schemas, 1 334 edited files, every answer | the operations reproduce the file; no column twice or lost; the two rows are the edit distance; the questions end |
| `web` | 2 branches, 4 revisions, 2 dialogues, `WebBounds` | while no dialogue saves over something newer the web application implements `Refs` and keeps `HEAD` and the model files true; heads resolve always |
| `merge_twodrops`, `merge_remerge`, `web_stale` | smallest instances | disagreements between code and documents (section 7) |

**Why the bounds are enough.** *repo_commands*: four revisions hold a root, one
commit on each of two branches and their merge node, the smallest history in
which the two fast-forward tests, the merge and a rollback over the merge all
differ; with three branches one can be deleted or created while the other two
diverge. `CommandBounds` makes the fourth revision a merge node (a fourth plain
commit only lengthens a line) and lets people edit while there are at most two
revisions; only `main`'s file is edited, and `dev` and `feat` are
interchangeable. One revision at most cannot be rendered, the second or the merge
node: a head that others are made from, or one that only a rollback leaves. Of the
`.schema` file of a branch that does not exist, or whose head cannot be rendered, the
view keeps only that it is there: it shows no head, and what ends that overwrites it. *repo_crisscross*: two merge
bases need a root, two commits and two crossing merges; the sixth revision is
the one the refused merge would make. *files_race*: two processes, one of them
possibly at any step while the other runs several whole commands. Three
revisions mean that a merge here is a fast-forward; a merge node is written
like any other node. `create` and `init` are there because only they change which
branches `heads.json` has (`delete`, the third, shortens it as `init` does), which is
what makes texts of different lengths. `sync` is not: all it can do to the files is
what a `migrate` does, whatever it read, and with it the
contents of `.schema` files would have to be told apart. The view leaves out those
and `HEAD`, which then only a `delete` reads. *files_crash* has all commands, and a
merge node as its last revision; one stop, and any number of commands that raise
half done before and after it. Its view leaves out the `.schema` file of a branch
without a head: what it shows was saved once, and all it can decide, if a create stops before it
rewrites the file, is whether a sync commits what a migrate commits anyway. Both
views leave out the command and the starting heads of a process that already
writes, which nothing reads any more. *merge_edits*: a group is
classified by its length (none, one, more) and for "more" by the last value per field,
so two operations per side reach every branch of `classify`; a second operation is
made only where all set a field of the column or drop it (`PairsSetFields`); three names and two types give equal, different and
base values. `TargetFirst` makes the target's commits before the source's: they
commute. `UpToMerge` ends a behaviour with its merge node: a later commit is applied
last in every order, so it adds nothing to what is asked here. *merge_objects*: two additions per side let one depend on the other, so
that a dependent of a dropped and of a collided object both occur.

The violation runs have just the verbs and the bounds their counterexamples need.

*bridge*: one window answers and another disturbs it, or
both answer; the three questions are a first, one with a predecessor and a
successor, and a last. *web*: two dialogues are the fewest of which one can be
open while the other saves, or replace it in the registry; four revisions are a
root, a commit on each branch and the merge node, or a sync's commit beside
another dialogue's. Edits stop after the second revision, the
second or the last revision may be one that cannot be rendered, the last is
made by a dialogue, a merge is of two different branches, and after a stale save
only steps that move heads go on (`WebBounds`), for which the contents of `.schema`
files are of no account: what a sync commits, a migrate commits. `WebView` forgets the heads of
dialogues that are over, which nothing reads any more.

*sync*: two columns vanish and
two appear in every way with five names, close and far, three types and a
default, so that each weight, each threshold, the gap, the one-pair rule and a
rejected pair that must not come again all occur; three and four columns of one
type reach a pool that is not emptied by one answer; a table is new, gone, or
there twice; the schemas include positions with gaps and a table with two
columns of one name. *EmitDdl's* properties ride on the histories of
`merge_edits` and `merge_objects`, in every order a visit may take.

**Deadlock.** Checked in the Repo, RepoFiles and ConfirmBridge runs (there is
always a command to run or a page to load). In the SchemaMerge and web runs the
numbers of operations, merges, revisions and dialogues are used up, and a sync
ends, so these configurations switch it off.

**Fairness.** The Repo, RepoFiles, SchemaMerge and WebMerge properties are
safety properties and assume none: a command line tool that nobody calls makes no
progress. `ConfirmBridge` assumes weak fairness of the worker's steps and of each
request's, which is what an operating system's scheduler and the five-second
timeout of the poll give. It assumes nothing of people: that anybody looks or
clicks is never taken for granted, so `AnswersMoveOn` starts from an answer that
is being submitted. `FileSync` assumes weak fairness of `AskColumn \/ EndTable`:
the detector's loop runs on, and the person at the terminal answers each question
in some way. Without the second half nothing ends, and the code has no timeout
there either; `QuestionsEnd` says that no sequence of answers keeps the loop
going.

Every property of a passing run has a mutant: a definition of the model changed
as a plausible bug would change the code (`\* MUTANT of ...`), under which the
run must fail.

## 4. Proofs

Eight modules hold the theorems. `OperationProofs` and `FileSyncProofs` build on
`ReplayProofs`, `SchemaMergeProofs` on `OperationProofs`; `RepoProofs`, `RepoFilesProofs`
and `ReplayProofs` on `DagWalkProofs`.

| module | proves | of |
|---|---|---|
| `DagWalkProofs` | what ancestor sets and merge bases are on every graph; induction over the natural numbers by sets | `DagWalk` |
| `RepoProofs` | every invariant and action property of `repo_commands` and `repo_crisscross`, and that `Repo` implements `Refs`; every property of `web` | `Repo`, `WebMerge` |
| `RepoFilesProofs` | types, `HeadsFileResolves`, `SchemaFollowsHeads`, `QuiescentLoads`, that only a torn file or a mixed `heads.json` makes a repository unloadable, that commands which do not overlap mix no files, and that they implement `Refs` wherever they stop or raise | `RepoFiles` |
| `ConfirmBridgeProofs` | every safety property of `bridge` | `ConfirmBridge` |
| `ReplayProofs` | what replay of one operation and of a list makes; lists and folds | `SchemaOps` |
| `FileSyncProofs` | every invariant of `sync`: `ColumnsOnce`, `FileReproduced`, `DistanceIsEdits` | `FileSync`, `Similarity` |
| `OperationProofs` | which operations commute, when a history has one replay, that a merge has no direction, that the sort sorts; what lists of operations make and emit, what a merge node holds | `SchemaOps`, `MergeRules`, `EmitDdl` |
| `SchemaMergeProofs` | types, what every replay owes to the stored operations, what a merge keeps of both sides, object by object and field by field, that emitted DDL builds a replayed schema and where it is right to the end, that drops of a table and its columns come in order, that names of columns stay unique | `SchemaMerge`, `EmitDdl` |

They hold for any branches, processes, windows, dialogues, revisions, crashes,
operations, names and scores. The assumptions are those the modules declare:
`main` is a branch, `NoBranch` is not, people edit files of branches, the bounds
are natural numbers, the worker is not a window, the two branches of a merge
differ, `Verb` holds operations, `Grain` is a positive multiple of ten, an object of
the common history has all its fields (`ObjectsAssumption`). Three say more.
`TornAssumption` of `RepoFiles`: a torn file and one of mixed texts are not mistaken
for the contents of any kind of file (a JSON error, an empty schema, a syntax error).
`BaseAssumption` of `SchemaMerge`: the operations of the common history are such
as the verbs make, each made when what it needs had been (`Fits`) and no object
twice. `PossibleBase` of `EmitDdl`: the common history can be printed, so each of
its operations found what it names, as the schema it was made on had it, and each
of its renamings the name it stores. Two of
`FileSync` say what replay and the parser hand to a sync: `TrackedAssumption`, finitely
many objects with positive ids and the fields that are read, tables in no table and columns
in tables; `FilesAssumption`, lists of tables with lists of columns; columns' names in
`Name`. Neither says that names are unique. `NameAssumption` of `Similarity`: names are
finitely many sequences of letters. TLC evaluates all of them in the runs.

**The inductive invariant** is

    IInv == TypeOK /\ HeadsResolve /\ CurrentAlive /\ ModelFileTruth
              /\ ParentsEarlier /\ OneLiveRoot

(the names as in `RepoProofs`). `CommonHistory` is not inductive: knowing that
any two heads share an ancestor says nothing of the ancestors a rollback moves a
head to. `OneLiveRoot` says that there is a root, made by the last `init`, such
that all heads are at it or later and every revision from it on descends from it
and has no earlier parents. It survives a rollback because a first-parent line
that starts above the root cannot pass below it, and a second `init` because
that drops all other heads and its root is the newest revision. That parents are
older than their children (`ParentsEarlier`) makes the graph acyclic and gives every appended node an ancestor set that can be written down
(`AppendedAncestors`). `ModelFileTruth` is inductive because whether a revision
renders is settled when it is made: a step either gives a branch a head that renders
and its file with it, or one that does not, or leaves head and file as they were.

**Action properties.** `StepKinds` reduces every command to one of five: nothing
happens to the graph, a branch is moved, grown by a node, dropped, or everything
restarts. `AncestorsImmutable`, `HeadMoves`, `OneBranchPerCommand`, `NoRevival`
and each step of the refinement follow from the kind of step and `IInv` alone,
without looking at commands again.

**Graph lemmas.** `DagWalkProofs` proves about every graph whose nodes' parents
are nodes that ancestor sets are closed, transitive and unchanged by new nodes,
that `merge_base` returns the source's head exactly when the target contains
it, which is what the test in `merge/engine.py:53` relies on, and that a merge base
that is the only candidate has every common ancestor in its history
(`OneMergeBaseHasAll`: above any common ancestor there is a newest one, and that
is a candidate). `MergesHadOneBase` follows: a merge node keeps the ancestors its
parents had when it was made.

**The files.** `HeadsFileResolves` says nothing of the processes, so it is not
inductive. `FInv` adds what they hold: the nodes in a process's memory are
migrations with all their ancestors and its heads are among them
(`StoreHolds`); a process that only reads has no node without a file; and in the
list of files a process has yet to write, every node of its store has a file or
comes before `heads.json` (`WritesHeads`). Files are never removed, so what one
process relies on no other can take away (`ProcKept`), and a step has to be
looked at for one process only (`StepKeeps`). `NodeWritesAll` shows that the
list `save` writes has every node, `WritesHold` that a command's whole list
keeps the order. For `SchemaFollowsHeads` the lists also put a `.schema` file
behind the `heads.json` whose head it shows (`SchemaWrites`, `InOrder`). TLC finds no state
of two processes and a crash that breaks either invariant.

What a repository needs in order to load is in `LInv`: types of all files and of all
that processes hold, and of each process what its writes still to come will put
where. With types a torn or mixed file differs from every other (`TornAssumption`), and a
node file is never mixed, because all that is ever written to it is the one text of its
revision. So a failing load must have read a torn file or a mixed `heads.json`,
whatever the order of the writes (`OnlyTornFilesStopALoad`); a file is torn only between the two
steps of one process's write, so it is not once every process has come to its end,
and `QuiescentLoads` holds until the first crash (`LoadsWhenQuiet`). A file gets mixed
only by a write to a file that was filled after it was emptied, which takes
two processes at once (`SequentialCommandsNeverMix`).

The refinement of `Refs` holds of any processes that run one command after the other
(`OneAtATime`; `decisions.md:345` declares concurrency out of scope), and so of one
process. `RInv` adds to `LInv` that the heads last saved are saved revisions and what
`heads.json` says (`SavedHolds`), and of the process whose turn it is that it has loaded
those heads or will write only such as are one step of `Refs` away (`Promises`).
`Promises` compares two pairs of nodes and heads and has no primes, so it can be
carried from the decision to the write of `heads.json`, which is the only step that
`Refs` sees. What a process loaded also has nodes no head ever reached, left behind by
commands that stopped; ancestors, first-parent lines and merge bases of saved
revisions are the same there (`LoadedAlike`). TLC finds no state of one process, three
revisions and a stop that breaks `RInv`; with overlapping commands the theorem fails, as
section 6 says.

**The bridge.** `NoLostWakeup` is inductive once it is known that every thread
has a rest of its list still to do (`Shape`). Two places in the lists carry the
proof: the worker waits right after it has announced its question, so it starts
to wait with the question on offer; and a request that withdraws the question
wakes the worker next. That answers go where they were chosen needs one more
invariant, `InStep`, for one window that answers: at every step of the two lists it
says where the worker may be while that window's request is at that place, so the
fields cannot change between a request's reading them and its acting on them.
`AnswersWereChosen` and `NoStalePage` are read off it.

**The web application.** The inductive invariant is

    WInv == Stored /\ DialoguesRemember /\ stale \in BOOLEAN /\ (~stale => IInv)

`Stored` is what a stale save leaves intact: the shape of the files, and heads
and parents that are revisions on disk. `DialoguesRemember` says of every
dialogue that its heads are stored revisions, and of one that has more to do that
its branches are among them; stored revisions stay stored (`Kept`), which is why
a save of a store loaded long ago cannot leave a head without a node. The rest of
`IInv` holds only while nothing newer has been overwritten: `FreshSave` shows
that a save that leaves `stale` false starts from the heads on disk, and is then
the step a command would make. A dialogue's fast-forward and merge node are
matched to steps of `Refs` by the same lemmas as the commands'. The theorem needs
the premise: `web_stale` is the run without it.

**The rename detector.** `EachColumnOnce` is inductive by itself: what is proposed
is a pair of the pool (`ProposedIsPair`), so a confirmed pair leaves both sides
of the pool and a rejected one leaves it as it was. Nothing is used of the
scores, so the result holds whatever the weights and thresholds are tuned to.

**The sync.** `FileReproduced` (`SyncReproducesFile`) rests on three things.

- `SyncInv`: while tables are diffed, those that are (`results`) and those still to be
  (`todo`) are together the tables that both sides have, each once; and if names are
  unique, each that is diffed is `Diffed`: its columns of a common name are paired, and
  the others renamed one to one, dropped or added. `ResultIsDiffed` gets that from
  `EachColumnOnce`, since with unique names the dictionaries by name in `diff.py` and
  `detector.py` lose nothing (`NamesTell`). TLC finds no state of `sync` that breaks it.
- `OperationsPlanned`, `EachOperation`: what `generate_operations` makes is the blocks of
  the new tables, the drops of the missing ones and the blocks of the diffed ones. Its two
  folds and the library's orders are followed by induction over the tables; every block
  takes its ids above all ids in use (`LastIdIsLast`), so what is made is new.
- `ListMakes`: operations of which none makes, drops or sets what another one does
  (`Separate`), with columns behind their new tables (`InOrder`), never make replay raise,
  and what they leave can be said object by object, whatever their order (`Made`).

From these the tables and columns after replay are read off (`TablesAfter`,
`ColumnsAfter`, `ColumnsMade`, `PairNow`) and compared with the file (`ShapeAfter`). The
premise `NamesAreUnique` is the one of the property: without it only the last of two
columns of one name is compared (section 6).

**The edit distance.** `DistanceIsEdits` (`SyncMeasuresEdits`) compares two
recursions: the rows of `_levenshtein`, and sets of words that 0, 1, 2, ... edits reach.
Both exist (`Iterates`). The rows are a table with a known first row and column in which
each cell is the least that its three neighbours give (`IsTable`), and no more is used.

- *No edits are too few* (`ReachedIsNear`): the tables of two words one edit apart agree
  up to the edited letter (`SameBeginning`), differ by at most one in its column and so in
  all later ones (`SameEnding`). One edit thus changes the distance by at most one
  (`EditIsNear`), and from a name to itself it is 0.
- *As many edits are enough* (`NearIsReached`): cell by cell, an edit put before or behind
  those of a neighbour, or those of a neighbour with a letter behind every word. Letters
  are removed first and inserted last, so the words on the way are no longer than the two
  names and `WithinEdits`, which looks at no others, has them.

**The sort.** Every edge leads from a lower to a higher `Rank` (tables before
columns before indexes and keys; column drops before table drops), so among the
operations left one has least rank and depends on none of the others
(`SomeOperationIsReady`). `ToposortSorts` follows the loop round by round: each
operation comes once, behind all those it depends on, and one is put behind a later
one of the list only if it had to wait.

**Replay.** `OperationProofs` takes `Apply` apart into three functions on objects
(`Added`, `Dropped`, `Changed`) and compares the two orders of every pair of
operations. On different objects they agree unless one adds to what the other
drops, which is what the cross-object pass reports
(`UnreportedOperationsCommute`); on one object if the classifier asks nothing
(`SameObjectCommutes`). `Same` allows both orders to raise: two drops of one table
do (`merge_twodrops`). `After` then follows `replay`'s visit: after `n` revisions
the set visited and the schema. Any two revisions that can come next are
unrelated, so if such revisions commute, two visits of the same revisions end alike
(`SameRevisionsAlike`, by induction on their number: the visit that comes second in
one order is moved to where it is in the other), and the history has one schema.
`LineReplaysToOneSchema` is the case where nothing is unrelated,
`UnreportedMergeIsOneSchema` the case where a merge would ask and report nothing.

**Histories.** The inductive invariant of `SchemaMerge` is `MInv`:

- `StoreInv`: the store is *sound* (`IsSound`): kept ancestor sets are the
  ancestors, every operation fits what comes before it in every replay (`Fitting`),
  and no object is made twice (`CreatedOnce`); the schemas kept with a revision are
  its replays; heads are revisions;
- the merge nodes are at most `MaxMerges`;
- `IsReport`: the report tells of the merge node just made what it holds: the
  operations the answers chose, the corrective drops, the drops of the additions
  that lost their name, and nothing else.

Soundness is what makes schemas readable from operations. `ReplaysExplained` says of
every replay that has not raised that its objects are those that the operations
of its history created and did not drop, themselves or with their table, each of
the kind, in the table and over the columns it was made with (`Explained`). So a
verb, which picks from a schema, makes an operation that fits (`AuthoredFits`);
a merge node only repeats operations of its sides or drops what they made
(`MergeFollows`); and appending what fits keeps the store sound (`AppendSound`). TLC
finds no state of the runs that breaks `Fitting`, `CreatedOnce` or `Explained`.

From `MInv`: the types (`HistoriesHaveTypes`); replays of one revision differ in
names, types, flags and defaults at most (`OneSetOfObjects`); a head without merges
has one schema, and so has one whose merges had nothing to decide
(`UnmergedHeadsReplayOnce`, `UnreportedHeadsReplayAlike`); and what one side dropped
is in no merge (`DropsStayDropped`), since a drop in a history drops in every replay of
it, wherever it comes. That additions are kept, and that nothing is left which
needs what was dropped, takes more: `operations_since` follows one parent of a merge
node, so the engine knows all of a side's operations only if the side has no merge
node since the base (`SidesAreStraight`). Under that premise both hold at every merge
(`StraightMergesKeepWork`), and where at most one merge node is made, as in the runs
that check them, the premise holds by itself (`FirstMergeKeepsWork`,
`FirstMergeLeavesNoDependents`). `merge_remerge` is what happens without it.

**Fields.** What a merge makes of the values of fields is proved for the first merge of
a repository, with any number of operations on both sides. `MergeInv` adds to `MInv`
that objects are made with all their fields (`Formed`) and that the report's answers
are those its merge node's operations were chosen by (`ReportedOps`). `ReplayedValues`
reads a field off a history: in every replay it is what the last operation that sets it
left, or what the object was made with, where *last* means that no other operation of
the history that sets it must come later. So a field is the same in all replays if
only one operation can be last. Without a merge node that is so, since the history is
a line; each side of a first merge is a line that continues the base's (`Continues`),
`operations_since` gives it in its order (`SinceLast`), and both the grouping and the
decomposition keep the last operation of a field last (`GroupLast`, `FlatLast`). The
merge node comes after everything, so what it repeats decides (`MergeOpsLast`), and what
it does not repeat one side alone has set. An answer therefore decides all that is
contradicted (`FirstMergeRespectsAnswers`, `OneMergeRespectsAnswers`); where nobody was
asked the sides do not contradict each other in a field (`UnaskedAgree`), which is
`FirstMergeAsksAboutFields`, and the merge has the change of the side that made one
(`FirstMergeIsThreeWay`). The last two have a second premise, `IndexesRenamedOnce`: if
an index is renamed twice the compound comparison takes it for unchanged (section 6),
and then they fail. What is changed by one side and dropped by the other is asked about
if a change and a drop is all there was (`FirstMergeAsksAboutContradictions`):
`SideChanges` finds the operation behind a difference from the base, and
`DropOfChangeAsked` shows how two groups of one operation are classified. Its premise
`DroppedByOneOperation` leaves out the two ways in which the classifier overlooks a drop
(section 7 and `merge/cross_object.py:57`). For all orders of replay at once it gives that
the merge has one schema (`FirstMergeReplaysOnce`): the operation that is last in a field
is the merge node's, or one side's, or else the base's (`LatestInMerge`); where the sides
set different values somebody was asked, so the node repeats one of them
(`AskedIsRepeated`); and the other branch is still at the side that was merged, a line
(`ReportedHeads`, `UnmergedHasOne`). `FirstMerge` cannot just be dropped: at a base that
has merges a field may have different values in different replays if one of them
overlooked something (`merge_remerge`).

**Names of columns.** `FirstMergeKeepsNames`: two columns of one name in a first merge
would each be of a side. If one side has both, it has them under the names they have
in the merge (`ValueShared`: nobody has renamed one since the base, and up to there
the history is a line), so the name was there twice before. Otherwise each side has
added one since the base, and kept the name it was made with (`ValueUnset`); the two
additions are the first of that name on their sides because they are the only ones
(`OnlyAddition`), so the merge node drops one of them (`OneIsGivenUp`), and what is
dropped in a history is in no replay of it. The premise `ColumnsNamedOnce` leaves out
what `find_name_collisions` does not look at: renames of columns, and a second
addition by one side of a name that the other side adds too.

**Emitted DDL.** `EmissionMatchesReplay` has three parts. First, what a list of
operations makes from nothing when each has what it needs before it (`Grounded`): the
objects created and not dropped, and of each the fields last written
(`ListReplay`); so two such lists of the same operations end alike if they write each
field last by the same operation. Second, the sort: it moves table drops behind
what comes later and leaves everything else in order, so the sorted list is again
grounded and the last writers are the same, whatever was printed before an exception.
Third, the histories: an order of `topological_order` is an order some replay visits
(`OrdersVisit`), and by `Fitting` the operations along it are grounded. That nothing
raises without drops is then immediate. Without merges two more invariants are
needed, `Wanted`: every migration, when it was made, looked for objects that the
operations before it had left; and `Named`: each renaming stored the name that its
object had then. A merge node breaks both, since it repeats its sides' operations,
and so is left out of them; without merges the history is a line, every order is that
line, and each operation finds what it did when it was made, under the name it had.
After merges only the first two parts remain; that it raises or misnames then only where
the sides met over something dropped or renamed (`EmittedUnlessBeside`) is
model-checked.

`TableDropsComeLast` says that where only tables and columns are dropped after the
common history, each at most once, everything is emitted. It claims nothing of drops of indexes
and keys, for which the code has no edge (section 7). The sort has an edge from a column's drop to its
table's, so a drop can come too late only if the column or the table is dropped
twice, or the column was created after the table had gone. What rules that out is
`Authentic`: a migration made by a verb is one operation that fits what it was
made on, and every other operation of the history repeats one that somebody made,
or drops what somebody added. If only drops came after the common history,
and as many operations as migrations, then (`CountedOnce`) no migration is a merge's and
no two do the same
(`DropsMadeOnce`, `MadeOnceStands`), and `SameDrop` leaves two drops of an object no
way to be two operations. TLC finds no state of `merge_objects`, `merge_twodrops` or
`merge_remerge` that breaks `Authentic`.

**Only model-checked.**

- Liveness (`AnswersMoveOn` of the bridge, `QuestionsEnd` of the sync), which is
  out of the prover's reach with ENABLED.
- `OneReplay`, `FieldsThreeWay` and `AnswersRespected` beyond the first merge: they need
  the values of fields at a base that has merge nodes itself, and `MergeInv` keeps the
  answers of the last merge only. Of `OneReplay` also the commits after the first merge:
  a head is then proved to have one schema only if there is no merge node in its history,
  or none that had anything to decide.
- `EmittedUnlessBeside` (see above).
- `ContradictionsAsked` asks for a question about a drop and a change only where each is
  the side's one operation on the object (`OneDropsIt`); without that it does not hold (section 7).
- `NamesStayUnique` without the premise `ColumnsNamedOnce` does not hold:
  `find_name_collisions` looks at the first addition of a name on each side and at
  no renames (section 6). The run has two operations per side and renames nothing.
  Beyond the first merge it fails for the reason of `merge_remerge`: the additions that
  came in through a second parent are not among the operations of the side.

Induction over the natural numbers is available by sets (`SetInduction`: a set that
has 0 and with each number the next has all), and the proofs about folds and
recursive functions use it; an induction over sequences or trees of data takes an
operator as its parameter, which the installed provers cannot instantiate.

## 5. What is checked of each kind of hazard

`PROJECT.json` lists the hazards by source line. Those of the graph, the
commands and the files are covered by `repo_*` and `files_*`, those of replay,
merge and DDL by `merge_*`, those of a dialogue's threads by `bridge`, those of
sessions against the repository by `web` and `web_stale`, those of rename
detection by `sync`. Six have no property: the two loads of a `migrate` verb (the first only selects), a drop
hidden in a group of several operations (it is not seen, section 7), torn files that stop every load (nothing promises otherwise, and the
theorem `OnlyTornFilesStopALoad` says that it takes one), a change that a drop of its
table overrides (declared out of scope by `merge/cross_object.py:12`), abandoned worker threads and overwritten edits
(nothing promises otherwise).

## 6. Things the models show that no document denies

- A stop between the two steps of `write_text` leaves an empty node file or
  `heads.json`; every later load raises until `init` is run again or the file is
  mended by hand. `save` rewrites old node files too, so an old migration can be
  lost this way.
- Two processes that write `heads.json` at the same time, one of them more branches than
  the other, can leave a file that does not parse, without any crash: `write_text`
  empties the file and then writes from its start, so the end of a longer text can stay
  behind a shorter one. `QuiescentLoads` excepts exactly this. A `.schema` file can be
  mixed in the same way.
- A stop after `save` and before `sync_model_file` leaves the `.schema` file
  behind its head; the next `generate-migration` takes that for an edit and
  commits the opposite of the lost command. Never the other way round:
  `SchemaFollowsHeads`.
- Of two processes that save at once one loses its head. `decisions.md:345`
  declares concurrency out of scope; what they leave can be loaded but for a mixed
  `heads.json` (`QuiescentLoads`).
- A command on a branch overwrites an edit of its `.schema` file that has not
  been synced.
- A second `init` forgets every branch.
- Two renames of one index on one side against one on the other are not a
  conflict, because the compound comparison knows column fields only; the name
  then depends on the order of replay. `merge_edits` repeats column changes only.
- With two windows on one dialogue, or a double click, a question can get an
  answer that was chosen for the one before and be settled without having been
  shown: without its premise `AnswersWereChosen` fails at the second question.
- The note of a name collision says which column was kept, also when its own
  side had dropped it again.
- A side that adds a column, drops it and adds the name again collides by its
  first add only (`merge/name_collision.py:63`: a second addition of a name is "that
  branch's own bug"), which is the column it dropped; if the other side added the name
  too, the merged table can have two columns of one name. `NamesStayUnique` fails so
  from three operations on a side on. It also fails when one side renames a column to
  a name that the other side gives to a column too, by an addition or by a rename of
  another column: the pass reads `AddColumn` only.
- A dialogue of the web application saves the store it loaded when it began
  (`web_stale`). What that can do: reloading the page of a finished merge takes
  back later commits; branches deleted meanwhile come back and branches created
  meanwhile lose their head; a sync's worker writes no `HEAD`, so `HEAD` may name a
  branch that has lost its head, and then every route of the session raises; `.schema`
  files of other branches stay ahead of their heads. What it cannot do is leave
  a head that does not resolve (`WebHeadsAlwaysResolve`).
- Closing the browser leaves the worker thread of a dialogue waiting for ever.
- `emit-ddl` of a history with a merge raises if both sides drop the same column,
  if one drops what the other alters (whatever was answered), and after some
  corrective drops: the operations of both sides are all walked, and the second finds its
  column gone. `EmittedUnlessBeside` says that it raises only where one side of a
  merge had dropped something and the other worked on the same table, and
  `EmissionIsReplay` that statements printed to the end do to the objects what replay
  does. It does not say that they are valid SQL: after a merge a `RENAME` may be of a
  name that is gone (section 7), and what else a statement's text says is left out.
- The example in `ddl/toposort.py` of a `CircularDependencyError` (two foreign keys that reference each other's table)
  is no cycle, and by `SomeOperationIsReady` nothing is.
- `rename_detect/detector.py:29` speaks of *unmatched* columns that moved;
  `_should_ignore_position` compares those that kept their name.
- `position_proximity` gets negative for a column that moves further than the old
  table was long; its docstring says it decays toward 0.0.
- Of two columns of one name in a `.schema` file or a schema only the last is
  compared (`snapshot/diff.py:58`); the others stay as they are.
- Moving a column in the file gives no operation; the next render puts it back.
- A default that is a quoted string loses its quotes when it is parsed
  (`dsl/parser.py:63`) and is rendered without them, though the grammar's first
  lines promise that parsing what was rendered gives the schema back.

## 7. Disagreements between code and documents

Each of these is a run that TLC must find violated, with the quotation in
`PROJECT.json`:

- `merge_twodrops`: two branches that drop the same table merge silently into a
  head that can no longer be replayed, and the merge has been saved.
- `merge_remerge`: a second merge overlooks what came in through the second
  parent of the first.
- `web_stale`: a branch created while a sync's dialogue is open is gone when the
  dialogue ends.

Six more follow from the same models and have no run of their own. TLC finds each of
the first four within four commands and a merge when the property named is asked
without its premise:

- `model_sync/sync.py:3` says "the model file is always current-state truth", but a
  command saves before it replays and renders (`cli/commands/migrate_cmd.py:45`). If
  the new head cannot be rendered (`dsl/render.py:68`, after an indexed column is
  dropped; `dag/apply.py:67`, after `merge_twodrops`), the head has moved and the file
  has not. `ModelFileTruth` and `FreshFiles` are about heads that can be rendered.
- `ddl/emitter.py:3` says that names are read from the schema "as it exists immediately
  BEFORE each operation", so that "a rename is visible to whatever comes after it"; lines
  123 and 158 print the old name stored with the operation. After c to d on one side
  and c to e on the other, `emit-ddl` prints two `RENAME`s of c. `EmissionIsReplay`
  claims right old names only where nothing was merged, `EmittedUnlessBeside` where the
  sides did not meet over something renamed or dropped.
- `ddl/toposort.py:7` lists drops of constraints and indexes among what precedes a
  `DropTable`; only column drops get an edge (line 93). If one side drops a table and the other
  an index of it, the table may be printed first, and the index raises.
  `TableDropsComeLast` is about tables and columns.
- The rule for "one side deleted this, the other side changed it"
  (`decisions.md:182`) is not applied when a side made more than one change to
  the column: renamed twice by one side and dropped by the other, it is dropped and
  nobody is asked (`merge/classify.py:74`). `ContradictionsAsked` asks about a drop only
  where each side did one operation.
- Of a drop and a rename of one column the human is offered "keep [a]" and "keep
  [b]" (`merge/classify.py:94`); the one who keeps the rename loses the column,
  because the other side's drop is replayed too.
- Objects that need what was dropped get a corrective drop (`decisions.md:224`),
  but an index on the column that was dropped for its name stays, and
  `dsl/render.py:68` raises `KeyError` from then on.

## 8. Plan

Order: what decides whether a history survives came first, then what decides
whether a merge means what both sides meant, then the interfaces around them.

*Done*: all modules of section 2, and the theorems of section 4.

*Open, in this order*:

1. `OneReplay` through the commits that follow the first merge, that every field of a
   history is said by one value as an invariant of its own; then at later merges, which
   needs `ReportedOps` for every merge node instead of the last, and with it
   `FieldsThreeWay` and `AnswersRespected` at later merges with straight sides.
2. The loops of `dag/walk.py` as steps, implementing the closed sets of
   `DagWalk`.
3. CHECK and UNIQUE constraints and objects over several columns in `SchemaOps`.

## 9. Not modelled

- *The schema language* (`dsl/*`): the parser and the renderer turn text into a tree
  and back and keep no state; `lark` does the parsing. `FileSync` starts from the
  parsed tree; that an empty file is a schema without tables is used in
  `RepoFiles`. What a renderer needs to find in a schema is the `Needs` of
  `SchemaMerge`.
- *JSON serialisation* (`model/serialize.py`): a field-by-field conversion; what
  can go wrong with the files is in `RepoFiles`.
- *The explainer* (`llm/*`) and all wording of questions, notes, pages and SQL:
  nothing is decided by it.
- *Argument parsing and name lookup* (`cli/main.py`, `cli/resolve.py`): they select
  the operation or raise before anything changes.
- *Pages that only show* (`web/routes_repo.py`'s history and schema views,
  `web/routes_ddl.py` beyond the emission itself).
