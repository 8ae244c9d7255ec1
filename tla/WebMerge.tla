------------------------------ MODULE WebMerge ------------------------------
(* The web application on one repository: its routes run the commands of     *)
(* Repo, except that a merge and a sync are dialogues.  A dialogue loads the *)
(* DagStore when it is started and keeps it; a worker thread runs the engine *)
(* on that store while the person answers (ConfirmBridge) and other requests *)
(* go on changing the files.  A sync's worker saves its store itself; a      *)
(* merge's is saved by the page that shows the result, each time it is       *)
(* loaded.                                                                   *)
(*                                                                           *)
(* As in Repo, a route that raises before it saves is no step, and one whose *)
(* rendering raises has saved already: the result page of a merge then       *)
(* leaves the .schema file and HEAD behind.  What is asked and answered is   *)
(* left to ConfirmBridge and SchemaMerge: a worker ends whenever it does, or *)
(* never.                                                                    *)
EXTENDS Repo

CONSTANT MaxDialogues  \* bound: dialogues one behaviour starts

ASSUME MaxDialoguesAssumption == MaxDialogues \in Nat

VARIABLES
  dialogues,  \* every dialogue ever started, the registry and its threads
  stale       \* history: a dialogue has saved a store older than heads.json

webVars == <<nodes, heads, current, rendered, edited, faults, dialogues, stale>>

Kind == {"merge", "sync"}
State == {"running", "fastForward", "mergeNode", "saved"}

\* A dialogue's store is known by its heads: its nodes were on disk when it
\* was loaded, none is ever removed, and its own new node is written when the
\* store is saved.  A sync has no source branch.
Dialogue(kind, target, source) ==
  [kind |-> kind, target |-> target, source |-> source, heads |-> Loaded, state |-> "running"]

WebInit == Init /\ dialogues = <<>> /\ stale = FALSE

\* create_repo_session: a new directory, initialised once.
OpenRepo ==
  /\ nodes = <<>>
  /\ InitRepo
  /\ UNCHANGED <<dialogues, stale>>

\* The routes that run a command to its end; migrate and the editor work on
\* the current branch.
CommandRoute ==
  /\ \/ \E name, from \in Branch : CreateBranch(name, from)
     \/ \E b \in Branch : DeleteBranch(b) \/ Checkout(b)
     \/ \E b \in Branch : \E rev \in DOMAIN nodes : Rollback(b, rev)
     \/ current \in Branch /\ (Migrate(current) \/ EditFile(current))
  /\ UNCHANGED <<dialogues, stale>>

Start(dialogue) ==
  /\ Len(dialogues) < MaxDialogues
  /\ dialogues' = Append(dialogues, dialogue)
  /\ UNCHANGED <<nodes, heads, current, rendered, edited, faults, stale>>

\* start_merge checks nothing: what is wrong with the branches the worker
\* finds out.
StartMerge(t, s) ==
  /\ nodes # <<>>
  /\ Start(Dialogue("merge", t, s))

\* start_sync replays the head and compares it with the file at once; where
\* nothing differs the worker ends without a commit.
StartSync ==
  /\ current \in Branch
  /\ HasBranch(current)
  /\ Loaded[current] \notin unreplayable
  /\ rendered[current] # NoRev
  /\ FileDiffers(current)
  /\ Start(Dialogue("sync", current, NoBranch))

\* The registry has one session for a pair of branches: a later one replaces
\* it, and the pages of the earlier are gone.
SameSession(d, e) == <<d.kind, d.target, d.source>> = <<e.kind, e.target, e.source>>

Registered(i) ==
  \A j \in DOMAIN dialogues : j > i => ~SameSession(dialogues[i], dialogues[j])

\* MUTANT of WorkerMerges: the two fast-forward tests are swapped.
WorkerMergesSwapped(i) ==
  LET d == dialogues[i]
      bases == MergeBases(nodes, d.heads[d.target], d.heads[d.source])
  IN  /\ d.kind = "merge" /\ d.state = "running"
      /\ {d.target, d.source} \subseteq DOMAIN d.heads
      /\ \E base \in bases :
           /\ bases = {base}
           /\ ~IsFastForward(base, d.heads[d.target])
           /\ IsFastForward(base, d.heads[d.source]) \/ base \notin unreplayable
           /\ dialogues' = [dialogues EXCEPT ![i].state =
                IF IsFastForward(base, d.heads[d.source]) THEN "fastForward" ELSE "mergeNode"]
      /\ UNCHANGED <<nodes, heads, current, rendered, edited, faults, stale>>

\* merge() on the dialogue's store.  Looking at all nodes on disk is the same
\* as looking at those it loaded: neither has other ancestors for its heads.
WorkerMerges(i) ==
  LET d == dialogues[i]
      bases == MergeBases(nodes, d.heads[d.target], d.heads[d.source])
  IN  /\ d.kind = "merge" /\ d.state = "running"
      /\ {d.target, d.source} \subseteq DOMAIN d.heads
      /\ d.heads[d.target] # d.heads[d.source]
      /\ \E base \in bases :
           /\ bases = {base}
           /\ ~IsFastForward(base, d.heads[d.source])
           /\ IsFastForward(base, d.heads[d.target]) \/ base \notin unreplayable
           /\ dialogues' = [dialogues EXCEPT ![i].state =
                IF IsFastForward(base, d.heads[d.target]) THEN "fastForward" ELSE "mergeNode"]
      /\ UNCHANGED <<nodes, heads, current, rendered, edited, faults, stale>>

\* What a dialogue saves replaces heads.json.
Saved(i) ==
  /\ dialogues' = [dialogues EXCEPT ![i].state = "saved", ![i].heads = heads']
  /\ stale' = (stale \/ dialogues[i].heads # heads)

\* MUTANT of SaveMerge: heads.json is saved, the merge node is not.
SaveMergeHeads(d) ==
  /\ d.state # "running"
  /\ d.state = "mergeNode" => Len(nodes) < MaxRevs
  /\ UNCHANGED <<nodes, faults>>
  /\ CASE d.state = "mergeNode" -> SaveAndSync(Put(d.heads, d.target, Len(nodes) + 1), d.target)
       [] d.state = "fastForward" -> SaveAndSync(Put(d.heads, d.target, d.heads[d.source]), d.target)
       [] d.state = "saved" -> SaveAndSync(d.heads, d.target)

\* MUTANT of SaveMerge: the model file is not regenerated.
SaveMergeOnly(d) ==
  /\ UNCHANGED <<rendered, edited>>
  /\ \/ /\ d.state = "mergeNode" /\ Len(nodes) < MaxRevs
        /\ nodes' = Append(nodes, [parents |-> <<d.heads[d.target], d.heads[d.source]>>,
                                   branch |-> d.target])
        /\ NewSchema(<<d.heads[d.target], d.heads[d.source]>>)
        /\ heads' = Put(d.heads, d.target, Len(nodes) + 1)
     \/ /\ d.state = "fastForward"
        /\ heads' = Put(d.heads, d.target, d.heads[d.source])
        /\ UNCHANGED <<nodes, faults>>
     \/ /\ d.state = "saved"
        /\ heads' = d.heads
        /\ UNCHANGED <<nodes, faults>>

\* save() and sync_model_file on the dialogue's store.
SaveMerge(d) ==
  \/ /\ d.state = "mergeNode"
     /\ AppendAndSync(d.heads, d.target, <<d.heads[d.target], d.heads[d.source]>>)
  \/ /\ d.state = "fastForward"
     /\ UNCHANGED <<nodes, faults>>
     /\ SaveAndSync(Put(d.heads, d.target, d.heads[d.source]), d.target)
  \/ /\ d.state = "saved"
     /\ UNCHANGED <<nodes, faults>>
     /\ SaveAndSync(d.heads, d.target)

\* GET of the step page of a merge that is done, for the first time or again:
\* saves, renders, and if that has not raised switches to the target.
MergePage(i) ==
  /\ dialogues[i].kind = "merge"
  /\ Registered(i)
  /\ SaveMerge(dialogues[i])
  /\ current' = IF heads'[dialogues[i].target] \in unrenderable'
                THEN current ELSE dialogues[i].target
  /\ Saved(i)

\* _finish: the worker of a sync, also of one that was replaced, commits what
\* it found to the head it had loaded.
WorkerSyncs(i) ==
  LET d == dialogues[i]
  IN  /\ d.kind = "sync" /\ d.state = "running"
      /\ AppendAndSync(d.heads, d.target, <<d.heads[d.target]>>)
      /\ UNCHANGED current
      /\ Saved(i)

WebNext ==
  \/ OpenRepo
  \/ CommandRoute
  \/ \E t, s \in Branch : StartMerge(t, s)
  \/ StartSync
  \/ \E i \in DOMAIN dialogues : WorkerMerges(i) \/ MergePage(i) \/ WorkerSyncs(i)

WebSpec == WebInit /\ [][WebNext]_webVars

----------------------------------------------------------------------------
(* Properties; HeadsResolve is that of Repo.                                 *)

\* Types; the heads a dialogue remembers are of branches, each with a
\* revision that is stored.
WebTypeOK ==
  /\ TypeOK
  /\ stale \in BOOLEAN
  /\ \A i \in DOMAIN dialogues :
       LET d == dialogues[i]
       IN  /\ d.kind \in Kind /\ d.state \in State
           /\ d.target \in Branch /\ d.source \in Branch \cup {NoBranch}
           /\ DOMAIN d.heads \subseteq Branch
           /\ \A b \in DOMAIN d.heads : d.heads[b] \in DOMAIN nodes

\* routes_merge.py:73 "Mirrors merge_cmd.py's own save()+sync_model_file()
\* call": as long as no dialogue saves over something newer, whatever is done
\* in the browser, pages loaded again included, is a step of Refs.
FreshHistory == [][~stale' => [History!RefsNext]_History!refs]_webVars

\* Under the same condition HEAD names a live branch and every .schema file
\* that nobody edited shows its branch's head if that can be rendered, as they
\* do after commands.
FreshFiles == ~stale => CurrentAlive /\ ModelFileTruth

\* session.py:9 says that the missing lock is "never actually exercised by more
\* than one writer at a time": a dialogue that saves, and a page that is loaded
\* again, take no commit and no branch away from anybody.
DialoguesKeepHistory ==
  [][\A i \in DOMAIN dialogues :
       MergePage(i) \/ WorkerSyncs(i) =>
         \A b \in DOMAIN heads :
           /\ b \in DOMAIN heads'
           /\ Ancestors(nodes, heads[b]) \subseteq Ancestors(nodes', heads'[b])]_webVars
=============================================================================
