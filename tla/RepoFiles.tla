------------------------------ MODULE RepoFiles ------------------------------
(* The commands of Repo taken apart into what they do to files.  Processes   *)
(* run commands on one repository at the same time and without a lock; each  *)
(* reads the node files, then heads.json, decides in memory and then writes  *)
(* its files one after the other, every one by Path.write_text, which first  *)
(* empties the file and then writes from its start: over what another        *)
(* process has filled it with in between, whose end then stays if it was     *)
(* longer.  A process may stop for good between any two of these steps.      *)
(*                                                                           *)
(* Nobody edits a .schema file by hand here.  Node files are read in one     *)
(* step, and the first of the two loads of a migrate verb, which only        *)
(* chooses the operation, is left out.  Whether a replay or the rendering of *)
(* a head raises is left open.                                               *)
EXTENDS DagWalk, FiniteSets

CONSTANTS
  Branch,      \* the branch names people use
  Main,        \* ROOT_BRANCH
  NoBranch,    \* no branch: nothing to render, or HEAD not to be written
  Proc,        \* the processes that run commands
  Op,          \* the commands they run, a subset of Ops
  Torn,        \* what is left of a file between write_text's two steps
  Mixed,       \* the end of a longer text after a shorter one
  MaxRevs,     \* bound: revisions one behaviour creates
  MaxCrashes   \* bound: processes that stop in the middle

Ops == {"init", "create", "delete", "rollback", "checkout", "migrate", "sync", "merge"}

ASSUME FilesAssumption ==
  /\ Main \in Branch /\ NoBranch \notin Branch
  /\ Op \subseteq Ops
  /\ MaxRevs \in Nat /\ MaxCrashes \in Nat

\* Nothing a command writes is one of the two broken texts.
ASSUME TornAssumption ==
  /\ Torn # Mixed
  /\ \A x \in {Torn, Mixed} :
       /\ x \notin Branch /\ x \notin Nat
       /\ x \notin [parents : Seq(Nat), branch : Branch]
       /\ \A S \in SUBSET Branch : x \notin [S -> Nat]

VARIABLES
  disk,     \* file -> contents, for the files that exist
  proc,     \* process -> what it is doing
  crashes,  \* how many processes have stopped in the middle
  ledger,   \* history: every migration ever made, by revision
  saved     \* history: the heads that a command last wrote, and the
            \* revisions ever reachable from written heads

vars == <<disk, proc, crashes, ledger, saved>>

NodeFile(r) == <<"node", r>>
HeadsFile == <<"heads", 0>>
HeadFile == <<"HEAD", 0>>
SchemaFile(b) == <<"schema", b>>

None == [x \in {} |-> 0]
NoStore == [nodes |-> None, heads |-> None]
NoCmd == [op |-> "none", b |-> NoBranch, other |-> NoBranch]

\* A process: where it is in its command, what it loaded, what it has to write.
Doing(pc, cmd, store, todo) == [pc |-> pc, cmd |-> cmd, store |-> store, todo |-> todo]

Idle == Doing("idle", NoCmd, NoStore, <<>>)

Exists(f) == f \in DOMAIN disk

\* init ignores its arguments and most commands name one branch.
Commands ==
  {[op |-> o, b |-> b, other |-> c] : o \in Op \cap {"create", "merge"}, b, c \in Branch}
    \cup {[op |-> o, b |-> b, other |-> NoBranch] :
            o \in Op \ {"create", "merge", "init"}, b \in Branch}
    \cup {[op |-> o, b |-> Main, other |-> NoBranch] : o \in Op \cap {"init"}}

Init ==
  /\ disk = None
  /\ proc = [p \in Proc |-> Idle]
  /\ crashes = 0
  /\ ledger = <<>>
  /\ saved = [heads |-> None, revs |-> {}]

----------------------------------------------------------------------------
(* Reading.                                                                  *)

\* The command raised or had nothing to do.
GiveUp(p) == proc' = [proc EXCEPT ![p] = Idle]

Start(p, cmd) ==
  /\ proc[p].pc = "idle"
  /\ cmd.op = "init" \/ DOMAIN disk # {}
  /\ proc' = [proc EXCEPT ![p] =
                Doing(IF cmd.op = "init" THEN "decide" ELSE "nodes", cmd, NoStore, <<>>)]
  /\ UNCHANGED <<disk, crashes, ledger, saved>>

NodesOnDisk == {r \in 1 .. Len(ledger) : Exists(NodeFile(r))}

\* A node file that does not parse stops the load, and so does a parent
\* without a file.
NodesReadable ==
  /\ \A r \in NodesOnDisk : disk[NodeFile(r)] # Torn
  /\ ParentClosed([r \in NodesOnDisk |-> disk[NodeFile(r)]], NodesOnDisk)

ReadNodes(p) ==
  /\ proc[p].pc = "nodes"
  /\ IF NodesReadable
     THEN LET ns == [r \in NodesOnDisk |-> disk[NodeFile(r)]]
          IN  proc' = [proc EXCEPT ![p] =
                         Doing("heads", @.cmd, [nodes |-> ns, heads |-> None], <<>>)]
     ELSE GiveUp(p)
  /\ UNCHANGED <<disk, crashes, ledger, saved>>

\* Every head must name a node read a moment ago.
HeadsReadable(ns) ==
  /\ disk[HeadsFile] \notin {Torn, Mixed}
  /\ \A b \in DOMAIN disk[HeadsFile] : disk[HeadsFile][b] \in DOMAIN ns

ReadHeads(p) ==
  /\ proc[p].pc = "heads"
  /\ IF HeadsReadable(proc[p].store.nodes)
     THEN proc' = [proc EXCEPT ![p] =
                     Doing("decide", @.cmd, [nodes |-> @.store.nodes, heads |-> disk[HeadsFile]], <<>>)]
     ELSE GiveUp(p)
  /\ UNCHANGED <<disk, crashes, ledger, saved>>

----------------------------------------------------------------------------
(* Deciding: what a command makes of the store it has loaded.  An outcome    *)
(* gives the new head, the parents of a new node (<<>> and no node for the   *)
(* commands that make none), the branch whose file is rendered and the       *)
(* branch HEAD is set to.                                                    *)

Outcome(node, heads, render, switch) ==
  [node |-> node, heads |-> heads, render |-> render, switch |-> switch]

NoNode == <<0>>
NewRev == Len(ledger) + 1

\* MUTANT of Committed: the head is one past the new node.
CommittedPastNode(s, b, parents) ==
  IF NewRev > MaxRevs THEN {}
  ELSE {Outcome(parents, Put(s.heads, b, NewRev + 1), b, NoBranch)}

Committed(s, b, parents) ==
  IF NewRev > MaxRevs THEN {}
  ELSE {Outcome(parents, Put(s.heads, b, NewRev), b, NoBranch)}

\* An emptied .schema file parses, as a schema without tables: what a root has.
Blank(c) == c = Torn \/ (c # Mixed /\ ledger[c].parents = <<>>)

SchemaDiffers(s, b) ==
  /\ Exists(SchemaFile(b))
  /\ LET shown == disk[SchemaFile(b)]
     IN  shown # s.heads[b] /\ ~(Blank(shown) /\ Blank(s.heads[b]))

MergeOutcomes(s, t, src) ==
  LET bases == MergeBases(s.nodes, s.heads[t], s.heads[src])
  IN  IF s.heads[t] = s.heads[src] \/ Cardinality(bases) # 1 \/ bases = {s.heads[src]}
      THEN {}
      ELSE IF bases = {s.heads[t]}
           THEN {Outcome(NoNode, Put(s.heads, t, s.heads[src]), t, NoBranch)}
           ELSE Committed(s, t, <<s.heads[t], s.heads[src]>>)

\* The outcomes of a command whose branch is loaded; none if it raises.
BranchOutcomes(cmd, s) ==
  LET b == cmd.b  head == s.heads[b]
  IN  CASE cmd.op = "delete" ->
             {Outcome(NoNode, Remove(s.heads, b), NoBranch, NoBranch) :
                x \in {disk[f] : f \in {HeadFile} \cap DOMAIN disk} \ {b}}
        [] cmd.op = "rollback" ->
             {Outcome(NoNode, Put(s.heads, b, rev), b, NoBranch) :
                rev \in FirstParentLine(s.nodes, head) \ {head}}
        [] cmd.op = "checkout" -> {Outcome(NoNode, s.heads, NoBranch, b)}
        [] cmd.op = "migrate" -> Committed(s, b, <<head>>)
        [] cmd.op = "sync" -> IF SchemaDiffers(s, b) THEN Committed(s, b, <<head>>) ELSE {}
        [] cmd.op = "merge" ->
             IF cmd.other \in DOMAIN s.heads THEN MergeOutcomes(s, b, cmd.other) ELSE {}
        [] OTHER -> {}

CommandOutcomes(cmd, s) ==
  IF cmd.op = "init"
  THEN IF NewRev > MaxRevs THEN {}
       ELSE {Outcome(<<>>, Put(None, Main, NewRev), Main, Main)}
  ELSE IF cmd.op = "create"
  THEN IF cmd.b \in DOMAIN s.heads \/ cmd.other \notin DOMAIN s.heads THEN {}
       ELSE {Outcome(NoNode, Put(s.heads, cmd.b, s.heads[cmd.other]), cmd.b, cmd.b)}
  ELSE IF cmd.b \in DOMAIN s.heads THEN BranchOutcomes(cmd, s) ELSE {}

\* sync_model_file replays and renders before it opens the file: if that
\* raises, the store is saved and neither the file nor HEAD is written. The
\* root of an init is empty and renders.
NotRendered(out) == [out EXCEPT !.render = NoBranch, !.switch = NoBranch]

Outcomes(cmd, s) ==
  CommandOutcomes(cmd, s) \cup
    {NotRendered(out) : out \in {o \in CommandOutcomes(cmd, s) :
                                  cmd.op # "init" /\ o.render # NoBranch}}

\* The commands that replay a head before they save, which may raise.
Replaying == {"migrate", "sync", "merge"}

Write(f, text) == <<[file |-> f, text |-> text]>>

\* Every node of a store, the older ones first.
NodeWrites(ns) ==
  LET place(r) == Cardinality({q \in DOMAIN ns : q <= r})
      at(i) == CHOOSE r \in DOMAIN ns : place(r) = i
  IN  [i \in 1 .. Cardinality(DOMAIN ns) |-> [file |-> NodeFile(at(i)), text |-> ns[at(i)]]]

\* MUTANT of SaveWrites: heads.json before the nodes it names.
HeadsBeforeNodes(ns, hs) == Write(HeadsFile, hs) \o NodeWrites(ns)

\* MUTANT of SaveWrites: saves what was loaded, without the node just made.
NewNodeNotSaved(ns, hs) ==
  NodeWrites([r \in DOMAIN ns \ {NewRev} |-> ns[r]]) \o Write(HeadsFile, hs)

\* persistence.save: every node of the store again, parents first, and then
\* heads.json.
SaveWrites(ns, hs) == NodeWrites(ns) \o Write(HeadsFile, hs)

SyncWrites(out) ==
  IF out.render = NoBranch THEN <<>>
  ELSE Write(SchemaFile(out.render), out.heads[out.render])

SwitchWrites(out) ==
  IF out.switch = NoBranch THEN <<>> ELSE Write(HeadFile, out.switch)

\* MUTANT of Writes: init empties heads.json also where there is one.
InitClearsHeads(cmd, ns, out) ==
  (IF cmd.op = "init" THEN Write(HeadsFile, None) ELSE <<>>)
    \o (IF cmd.op = "checkout" THEN <<>> ELSE SaveWrites(ns, out.heads))
    \o SyncWrites(out) \o SwitchWrites(out)

\* MUTANT of Writes: the .schema file is rendered before the store is saved.
SyncBeforeSave(cmd, ns, out) ==
  (IF cmd.op = "init" /\ ~Exists(HeadsFile) THEN Write(HeadsFile, None) ELSE <<>>)
    \o SyncWrites(out)
    \o (IF cmd.op = "checkout" THEN <<>> ELSE SaveWrites(ns, out.heads))
    \o SwitchWrites(out)

\* The files a command writes, in order: init_storage's empty heads.json if
\* there was none, the store, the model file, HEAD.
Writes(cmd, ns, out) ==
  (IF cmd.op = "init" /\ ~Exists(HeadsFile) THEN Write(HeadsFile, None) ELSE <<>>)
    \o (IF cmd.op = "checkout" THEN <<>> ELSE SaveWrites(ns, out.heads))
    \o SyncWrites(out) \o SwitchWrites(out)

Decide(p) ==
  /\ proc[p].pc = "decide"
  /\ LET cmd == proc[p].cmd
         s == proc[p].store
         outs == Outcomes(cmd, s)
     IN  \/ /\ outs = {} \/ cmd.op \in Replaying
            /\ GiveUp(p)
            /\ UNCHANGED ledger
         \/ \E out \in outs :
              LET node == [parents |-> out.node, branch |-> cmd.b]
                  ns == IF out.node = NoNode THEN s.nodes ELSE Put(s.nodes, NewRev, node)
              IN  /\ ledger' = IF out.node = NoNode THEN ledger ELSE Append(ledger, node)
                  /\ proc' = [proc EXCEPT ![p] =
                                Doing("open", cmd, [nodes |-> ns, heads |-> out.heads],
                                      Writes(cmd, ns, out))]
  /\ UNCHANGED <<disk, crashes, saved>>

----------------------------------------------------------------------------
(* Writing.                                                                  *)

Open(p) ==
  /\ proc[p].pc = "open"
  /\ disk' = Put(disk, Head(proc[p].todo).file, Torn)
  /\ proc' = [proc EXCEPT ![p] = Doing("fill", @.cmd, @.store, @.todo)]
  /\ UNCHANGED <<crashes, ledger, saved>>

\* What a file can hold after a text is written at its start. It may have
\* been filled since it was emptied: the same text, or heads of the same
\* branches, whose ids all have 12 digits, is covered exactly; of any other
\* text the end may stay, and all of a .schema that begins with the new one.
Overwritten(f, text) ==
  LET old == disk[f]
  IN  IF \/ old \in {Torn, text}
         \/ f = HeadsFile /\ old # Mixed /\ DOMAIN old = DOMAIN text
      THEN {text}
      ELSE {text, Mixed} \cup (IF f[1] = "schema" THEN {old} ELSE {})

Fill(p) ==
  /\ proc[p].pc = "fill"
  /\ LET write == Head(proc[p].todo)
         rest == Tail(proc[p].todo)
     IN  \E text \in Overwritten(write.file, write.text) :
         /\ disk' = Put(disk, write.file, text)
         /\ IF rest = <<>> THEN GiveUp(p)
            ELSE proc' = [proc EXCEPT ![p] = Doing("open", @.cmd, @.store, rest)]
         /\ saved' = IF write.file # HeadsFile THEN saved
                     ELSE [heads |-> write.text,
                           revs |-> saved.revs \cup
                                      UNION {Ancestors(proc[p].store.nodes, write.text[b]) :
                                               b \in DOMAIN write.text}]
  /\ UNCHANGED <<crashes, ledger>>

\* Killed, interrupted, or stopped by an exception on the way.
Crash(p) ==
  /\ proc[p].pc # "idle" /\ crashes < MaxCrashes
  /\ crashes' = crashes + 1
  /\ GiveUp(p)
  /\ UNCHANGED <<disk, ledger, saved>>

Next ==
  \E p \in Proc : \/ \E cmd \in Commands : Start(p, cmd)
                  \/ ReadNodes(p) \/ ReadHeads(p) \/ Decide(p)
                  \/ Open(p) \/ Fill(p) \/ Crash(p)

Spec == Init /\ [][Next]_vars
----------------------------------------------------------------------------
(* Properties.                                                               *)

Pc == {"idle", "nodes", "heads", "decide", "open", "fill"}

Rev == 1 .. MaxRevs

\* Types: what each kind of file can hold and a process can be doing.
TypeOK ==
  /\ \A f \in DOMAIN disk :
       \/ disk[f] = Torn
       \/ disk[f] = Mixed /\ f[1] # "node"
       \/ f[1] = "node" /\ f[2] \in Rev /\ disk[f] = ledger[f[2]]
       \/ f = HeadsFile /\ DOMAIN disk[f] \subseteq Branch /\ \A b \in DOMAIN disk[f] : disk[f][b] \in Rev
       \/ f[1] = "schema" /\ f[2] \in Branch /\ disk[f] \in Rev
       \/ f = HeadFile /\ disk[f] \in Branch
  /\ \A p \in Proc : proc[p].pc \in Pc /\ (proc[p].pc \in {"open", "fill"} => proc[p].todo # <<>>)
  /\ crashes \in 0 .. MaxCrashes /\ Len(ledger) <= MaxRevs /\ saved.revs \subseteq Rev

\* persistence.save writes the nodes before heads.json: however the steps of
\* several processes interleave and wherever they stop, a heads.json that can
\* be read leads only to revisions that have a file, down to the root.
HeadsFileResolves ==
  Exists(HeadsFile) /\ disk[HeadsFile] \notin {Torn, Mixed} =>
    \A b \in DOMAIN disk[HeadsFile] : Ancestors(ledger, disk[HeadsFile][b]) \subseteq NodesOnDisk

\* Two processes may disturb each other's loads and undo each other's work,
\* but what they leave behind has every node file whole and can be loaded, with
\* one exception: a heads.json of fewer branches written over one of more,
\* which takes a create, a delete or an init at the same time.
QuiescentLoads ==
  (DOMAIN disk # {} /\ \A p \in Proc : proc[p].pc = "idle") =>
    /\ \A f \in DOMAIN disk : disk[f] # Torn
    /\ NodesReadable
    /\ disk[HeadsFile] # Mixed => HeadsReadable([r \in NodesOnDisk |-> disk[NodeFile(r)]])

\* Every command but delete and checkout ends with the .schema file of the
\* branch it moved, so no process that stops can leave one that is ahead of
\* heads.json: a .schema file that one command's text fills shows a revision
\* that heads written before it lead to.
SchemaFollowsHeads ==
  \A b \in Branch : Exists(SchemaFile(b)) /\ disk[SchemaFile(b)] \notin {Torn, Mixed} =>
    disk[SchemaFile(b)] \in saved.revs

\* One process, stopping anywhere: on the revisions that heads.json ever
\* reached and the heads it last held, the files behave as Refs says. A
\* command that stops either never happened or happened entirely.
Promised == INSTANCE Refs WITH nodes <- [r \in saved.revs |-> ledger[r]], heads <- saved.heads

RefsSpec == Promised!RefsSpec
=============================================================================
