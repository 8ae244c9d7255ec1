--------------------------- MODULE RepoFilesProofs ---------------------------
(* Crash consistency of the files, for any number of processes, branches,    *)
(* revisions and crashes: every file holds what its kind is, or is torn or   *)
(* a mix; a heads.json that can be read never leads to a revision without a  *)
(* file; what processes leave can be loaded unless a file is torn or their   *)
(* heads.json texts mixed; and commands that do not overlap mix nothing and  *)
(* do what Refs says, wherever they stop or raise.                           *)
EXTENDS RepoFiles, DagWalkProofs, FiniteSetTheorems, SequenceTheorems

----------------------------------------------------------------------------
(* The inductive invariant.                                                  *)

\* s is a sequence, whatever its elements are.
IsSeq(s) == s \in Seq({s[i] : i \in DOMAIN s})

\* A process is a record, as the actions that change parts of it expect.
Shape ==
  proc = [p \in Proc |->
            [pc |-> proc[p].pc, cmd |-> proc[p].cmd,
             store |-> [nodes |-> proc[p].store.nodes, heads |-> proc[p].store.heads],
             todo |-> proc[p].todo]]

\* There are node files of migrations only, and each holds its own or is torn.
NodeFilesHold ==
  \A f \in DOMAIN disk : f[1] = "node" =>
    \E r \in DOMAIN ledger : f = NodeFile(r) /\ disk[f] \in {Torn, ledger[r]}

\* A heads.json that can be read stays within revisions that have files and
\* whose parents have.
HeadsWithin ==
  Exists(HeadsFile) /\ disk[HeadsFile] \notin {Torn, Mixed} =>
    \A b \in DOMAIN disk[HeadsFile] :
      \E S \in SUBSET NodesOnDisk : disk[HeadsFile][b] \in S /\ ParentClosed(ledger, S)

\* The nodes in a process's memory are migrations with all their ancestors,
\* and its heads are among them.
StoreHolds(s) ==
  /\ DOMAIN s.nodes \subseteq DOMAIN ledger
  /\ \A r \in DOMAIN s.nodes : s.nodes[r] = ledger[r]
  /\ ParentClosed(ledger, DOMAIN s.nodes)
  /\ \A b \in DOMAIN s.heads : s.heads[b] \in DOMAIN s.nodes

\* Of a list of writes, with a store of the revisions `revs`: node files get
\* their migration; before heads.json is written every node of the store has a
\* file.
WritesNodes(t, led) ==
  \A i \in DOMAIN t : t[i].file[1] = "node" =>
    \E r \in DOMAIN led : t[i].file = NodeFile(r) /\ t[i].text = led[r]

WritesHeads(t, revs, files) ==
  \A i \in DOMAIN t : t[i].file = HeadsFile /\ DOMAIN t[i].text # {} =>
    /\ \A b \in DOMAIN t[i].text : t[i].text[b] \in revs
    /\ \A r \in revs : NodeFile(r) \in files \/ \E j \in 1 .. (i - 1) : t[j].file = NodeFile(r)

TodoHolds(t, revs, led, files) ==
  IsSeq(t) /\ WritesNodes(t, led) /\ WritesHeads(t, revs, files)

ProcHolds(p) ==
  /\ StoreHolds(proc[p].store)
  /\ proc[p].pc \in {"nodes", "heads", "decide"} => proc[p].cmd.b \in Branch
  /\ proc[p].pc \notin {"open", "fill"} => DOMAIN proc[p].store.nodes \subseteq NodesOnDisk
  /\ proc[p].pc \in {"open", "fill"} =>
       /\ proc[p].todo # <<>>
       /\ TodoHolds(proc[p].todo, DOMAIN proc[p].store.nodes, ledger, DOMAIN disk)
  /\ proc[p].pc = "fill" => Exists(Head(proc[p].todo).file)

FInv ==
  /\ IsSeq(ledger) /\ Shape
  /\ NodeFilesHold /\ HeadsWithin
  /\ \A p \in Proc : ProcHolds(p)

----------------------------------------------------------------------------
(* Sequences.                                                                *)

LEMMA OwnSeq ==
  ASSUME NEW S, NEW t \in Seq(S)
  PROVE  IsSeq(t)
<1> DEFINE own == {t[i] : i \in DOMAIN t}
<1>1. Len(t) \in Nat /\ DOMAIN t = 1 .. Len(t) /\ t = [i \in 1 .. Len(t) |-> t[i]]
    OBVIOUS
<1>2. t \in [1 .. Len(t) -> own]
    BY <1>1
<1>3. t \in Seq(own)
    BY <1>1, <1>2, SeqDef
<1>. QED BY <1>3 DEF IsSeq

LEMMA AppendSeq ==
  ASSUME NEW s, IsSeq(s), NEW x
  PROVE  /\ IsSeq(Append(s, x)) /\ DOMAIN s = 1 .. Len(s) /\ Len(s) \in Nat
         /\ DOMAIN Append(s, x) = DOMAIN s \cup {Len(s) + 1}
         /\ Append(s, x)[Len(s) + 1] = x
         /\ \A i \in DOMAIN s : Append(s, x)[i] = s[i]
<1> DEFINE S == {s[i] : i \in DOMAIN s} \cup {x}
           t == Append(s, x)
<1>1. s \in Seq(S)
    BY DEF IsSeq
<1>2. /\ t \in Seq(S) /\ DOMAIN s = 1 .. Len(s) /\ Len(s) \in Nat
      /\ Len(t) = Len(s) + 1 /\ DOMAIN t = 1 .. Len(t) /\ t[Len(s) + 1] = x
      /\ \A i \in DOMAIN s : t[i] = s[i]
    BY <1>1
<1>3. IsSeq(t)
    BY <1>2, OwnSeq
<1>. QED BY <1>2, <1>3

LEMMA TailSeq ==
  ASSUME NEW s, IsSeq(s), s # <<>>
  PROVE  /\ IsSeq(Tail(s)) /\ 1 \in DOMAIN s /\ Head(s) = s[1]
         /\ \A i \in DOMAIN Tail(s) : i \in Nat /\ i > 0 /\ i + 1 \in DOMAIN s /\ Tail(s)[i] = s[i + 1]
<1> DEFINE S == {s[i] : i \in DOMAIN s}
           t == Tail(s)
<1>1. s \in Seq(S)
    BY DEF IsSeq
<1>2. /\ t \in Seq(S) /\ DOMAIN s = 1 .. Len(s) /\ Len(s) \in Nat /\ Len(s) > 0
      /\ DOMAIN t = 1 .. (Len(s) - 1) /\ Head(s) = s[1]
      /\ \A i \in DOMAIN t : t[i] = s[i + 1]
    BY <1>1
<1>3. IsSeq(t)
    BY <1>2, OwnSeq
<1>. QED BY <1>2, <1>3

LEMMA ConcatSeq ==
  ASSUME NEW s, NEW t, IsSeq(s), IsSeq(t)
  PROVE  /\ IsSeq(s \o t) /\ Len(s) \in Nat /\ DOMAIN s = 1 .. Len(s)
         /\ \A i \in DOMAIN s : i \in DOMAIN (s \o t) /\ (s \o t)[i] = s[i]
         /\ \A i \in DOMAIN t : i \in Nat /\ i > 0 /\ Len(s) + i \in DOMAIN (s \o t)
                                 /\ (s \o t)[Len(s) + i] = t[i]
         /\ \A i \in DOMAIN (s \o t) : i \in Nat /\
              (i \in DOMAIN s \/ \E j \in DOMAIN t : i = Len(s) + j)
<1> DEFINE S == {s[i] : i \in DOMAIN s} \cup {t[i] : i \in DOMAIN t}
           u == s \o t
<1>1. s \in Seq(S) /\ t \in Seq(S)
    BY DEF IsSeq
<1>2. /\ u \in Seq(S) /\ DOMAIN s = 1 .. Len(s) /\ Len(s) \in Nat
      /\ DOMAIN t = 1 .. Len(t) /\ Len(t) \in Nat
      /\ DOMAIN u = 1 .. (Len(s) + Len(t)) /\ Len(u) = Len(s) + Len(t)
      /\ \A i \in DOMAIN s : u[i] = s[i]
      /\ \A i \in DOMAIN u : i > Len(s) => u[i] = t[i - Len(s)]
    BY <1>1
<1>3. IsSeq(u)
    BY <1>2, OwnSeq
<1>4. \A i \in DOMAIN t : u[Len(s) + i] = t[i] /\ Len(s) + i \in DOMAIN u
    BY <1>2
<1>5. ASSUME NEW i \in DOMAIN u PROVE i \in DOMAIN s \/ \E j \in DOMAIN t : i = Len(s) + j
  <2>1. CASE i <= Len(s) BY <1>2, <2>1
  <2>2. CASE i > Len(s)
    <3>1. i - Len(s) \in DOMAIN t /\ i = Len(s) + (i - Len(s))
        BY <1>2, <2>2
    <3>. QED BY <3>1
  <2>. QED BY <1>2, <2>1, <2>2
<1>. QED BY <1>2, <1>3, <1>4, <1>5

----------------------------------------------------------------------------
(* The writes of a command.                                                  *)

LEMMA ConcatHolds ==
  ASSUME NEW s, NEW t, NEW revs, NEW led, NEW files,
         TodoHolds(s, revs, led, files), TodoHolds(t, revs, led, files)
  PROVE  TodoHolds(s \o t, revs, led, files)
<1> DEFINE u == s \o t
<1>1. IsSeq(s) /\ IsSeq(t)
    BY DEF TodoHolds
<1>2. /\ IsSeq(u) /\ Len(s) \in Nat /\ DOMAIN s = 1 .. Len(s)
      /\ \A i \in DOMAIN s : i \in DOMAIN u /\ u[i] = s[i]
      /\ \A i \in DOMAIN t : i \in Nat /\ i > 0 /\ Len(s) + i \in DOMAIN u /\ u[Len(s) + i] = t[i]
      /\ \A i \in DOMAIN u : i \in Nat /\ (i \in DOMAIN s \/ \E j \in DOMAIN t : i = Len(s) + j)
    BY <1>1, ConcatSeq
<1> HIDE DEF u
<1>3. WritesNodes(u, led)
    BY <1>2 DEF TodoHolds, WritesNodes
<1>4. ASSUME NEW i \in DOMAIN u, u[i].file = HeadsFile, DOMAIN u[i].text # {}
      PROVE  /\ \A b \in DOMAIN u[i].text : u[i].text[b] \in revs
             /\ \A r \in revs : \/ NodeFile(r) \in files
                                \/ \E j \in 1 .. (i - 1) : u[j].file = NodeFile(r)
  <2>1. CASE i \in DOMAIN s
    <3>1. \A j \in 1 .. (i - 1) : j \in DOMAIN s /\ u[j] = s[j]
        BY <1>2, <2>1
    <3>. QED BY <1>2, <1>4, <2>1, <3>1 DEF TodoHolds, WritesHeads
  <2>2. ASSUME NEW k \in DOMAIN t, i = Len(s) + k
        PROVE  /\ \A b \in DOMAIN u[i].text : u[i].text[b] \in revs
               /\ \A r \in revs : \/ NodeFile(r) \in files
                                  \/ \E j \in 1 .. (i - 1) : u[j].file = NodeFile(r)
    <3>1. u[i] = t[k]
        BY <1>2, <2>2
    <3>2. /\ \A b \in DOMAIN t[k].text : t[k].text[b] \in revs
          /\ \A r \in revs : NodeFile(r) \in files \/ \E j \in 1 .. (k - 1) : t[j].file = NodeFile(r)
        BY <1>4, <3>1 DEF TodoHolds, WritesHeads
    <3>3. ASSUME NEW j \in 1 .. (k - 1)
          PROVE  Len(s) + j \in 1 .. (i - 1) /\ u[Len(s) + j] = t[j]
      <4>1. DOMAIN t = 1 .. Len(t) /\ Len(t) \in Nat
          BY <1>1 DEF IsSeq
      <4>2. j \in DOMAIN t /\ k \in Nat
          BY <4>1
      <4>. QED BY <1>2, <2>2, <4>1, <4>2
    <3>. QED BY <3>1, <3>2, <3>3
  <2>. QED BY <1>2, <2>1, <2>2
<1>5. WritesHeads(u, revs, files)
    BY <1>4 DEF WritesHeads
<1>. QED BY <1>2, <1>3, <1>5 DEF TodoHolds, u

\* Writing no node and no heads, or heads without a branch.
LEMMA OtherWriteHolds ==
  ASSUME NEW f, NEW x, NEW revs, NEW led, NEW files,
         f[1] # "node", f = HeadsFile => DOMAIN x = {}
  PROVE  TodoHolds(Write(f, x), revs, led, files)
<1> DEFINE t == Write(f, x)
<1>1. DOMAIN t = {1} /\ t[1].file = f /\ t[1].text = x
    BY DEF Write
<1>2. t \in Seq({t[i] : i \in DOMAIN t})
    BY DEF Write
<1>. QED BY <1>1, <1>2 DEF TodoHolds, IsSeq, WritesNodes, WritesHeads

LEMMA NothingHolds ==
  ASSUME NEW revs, NEW led, NEW files
  PROVE  TodoHolds(<<>>, revs, led, files)
<1>1. DOMAIN <<>> = {} /\ <<>> \in Seq({<<>>[i] : i \in DOMAIN <<>>})
    OBVIOUS
<1>. QED BY <1>1 DEF TodoHolds, IsSeq, WritesNodes, WritesHeads

\* NodeWrites has every node of the store, the older ones first: a node's place
\* in it is the number of nodes that are not newer.
LEMMA NodeWritesAll ==
  ASSUME NEW ns, NEW n \in Nat, DOMAIN ns \subseteq 1 .. n
  PROVE  /\ IsSeq(NodeWrites(ns))
         /\ \A i \in DOMAIN NodeWrites(ns) :
              \E r \in DOMAIN ns : NodeWrites(ns)[i] = [file |-> NodeFile(r), text |-> ns[r]]
         /\ \A r \in DOMAIN ns : \E i \in DOMAIN NodeWrites(ns) : NodeWrites(ns)[i].file = NodeFile(r)
         /\ \A i \in DOMAIN NodeWrites(ns) : \A r, q \in DOMAIN ns :
              NodeWrites(ns)[i].file = NodeFile(r) /\ q < r =>
                \E j \in 1 .. (i - 1) : NodeWrites(ns)[j].file = NodeFile(q)
<1> DEFINE N == DOMAIN ns
           upTo(r) == {q \in N : q <= r}
           place(r) == Cardinality(upTo(r))
           at(i) == CHOOSE r \in N : place(r) = i
           t == NodeWrites(ns)
<1>1. t = [i \in 1 .. Cardinality(N) |-> [file |-> NodeFile(at(i)), text |-> ns[at(i)]]]
    BY DEF NodeWrites
<1>2. IsFiniteSet(N) /\ Cardinality(N) \in Nat /\ N \subseteq Int
  <2>1. IsFiniteSet(1 .. n)
      BY FS_Interval
  <2>. QED BY <2>1, FS_Subset, FS_CardinalityType
<1>3. ASSUME NEW r \in N
      PROVE  place(r) \in 1 .. Cardinality(N) /\ IsFiniteSet(upTo(r))
  <2>1. upTo(r) \subseteq N /\ r \in upTo(r)
      BY <1>2
  <2>2. IsFiniteSet(upTo(r)) /\ place(r) \in Nat /\ place(r) <= Cardinality(N)
      BY <1>2, <2>1, FS_Subset, FS_CardinalityType
  <2>3. place(r) # 0
      BY <2>1, <2>2, FS_EmptySet
  <2>. QED BY <1>2, <2>2, <2>3
<1>4. ASSUME NEW r \in N, NEW q \in N, place(r) = place(q) PROVE ~(r < q)
  <2> SUFFICES ASSUME r < q PROVE FALSE
      OBVIOUS
  <2>1. upTo(r) \subseteq upTo(q) /\ q \notin upTo(r) /\ q \in upTo(q)
      BY <1>2, <1>4
  <2>2. upTo(r) = upTo(q)
      BY <1>3, <1>4, <2>1, FS_Subset
  <2>. QED BY <2>1, <2>2
<1>5. ASSUME NEW r \in N, NEW q \in N, place(r) = place(q) PROVE r = q
  <2>1. ~(r < q) /\ ~(q < r)
      BY <1>4, <1>5
  <2>. QED BY <1>2, <2>1
<1>12. ASSUME NEW r \in N, NEW q \in N, q < r PROVE place(q) < place(r)
  <2>1. upTo(q) \subseteq upTo(r)
      BY <1>2, <1>12
  <2>2. place(q) <= place(r)
      BY <1>3, <2>1, FS_Subset
  <2>3. place(q) # place(r)
      BY <1>4, <1>12
  <2>. QED BY <1>2, <1>3, <2>2, <2>3
<1>6. \A i \in 1 .. Cardinality(N) : \E r \in N : place(r) = i
  <2> DEFINE T == 1 .. Cardinality(N)
             f == [r \in N |-> place(r)]
  <2>. HIDE DEF place
  <2>1. f \in Injection(N, T)
      BY <1>3, <1>5 DEF Injection, IsInjective
  <2>2. IsFiniteSet(T) /\ Cardinality(T) = Cardinality(N)
      BY <1>2, FS_Interval
  <2>3. f \in Surjection(N, T)
      BY <2>1, <2>2, FS_Injection
  <2>. QED BY <2>3 DEF Surjection
<1>. HIDE DEF place
<1>7. \A i \in DOMAIN t : at(i) \in N /\ place(at(i)) = i
    BY <1>1, <1>6
<1>8. ASSUME NEW r \in N PROVE place(r) \in DOMAIN t /\ at(place(r)) = r
  <2>1. place(r) \in DOMAIN t
      BY <1>1, <1>3
  <2>. QED BY <1>5, <1>7, <2>1
<1>. HIDE DEF at
<1>9. IsSeq(t)
  <2>1. t \in [1 .. Cardinality(N) -> {t[i] : i \in DOMAIN t}]
      BY <1>1
  <2>. QED BY <1>2, <2>1, SeqDef DEF IsSeq
<1>10. \A i \in DOMAIN t : \E r \in N : t[i] = [file |-> NodeFile(r), text |-> ns[r]]
    BY <1>1, <1>7
<1>11. \A r \in N : \E i \in DOMAIN t : t[i].file = NodeFile(r)
    BY <1>1, <1>8
<1>13. ASSUME NEW i \in DOMAIN t, NEW r \in N, NEW q \in N, t[i].file = NodeFile(r), q < r
       PROVE  \E j \in 1 .. (i - 1) : t[j].file = NodeFile(q)
  <2>1. at(i) = r
      BY <1>1, <1>7, <1>13 DEF NodeFile
  <2>2. place(r) = i
      BY <1>7, <2>1
  <2>3. place(q) \in DOMAIN t /\ at(place(q)) = q
      BY <1>8
  <2>4. place(q) \in 1 .. (i - 1)
      BY <1>1, <1>2, <1>12, <1>13, <2>2, <2>3
  <2>. QED BY <1>1, <2>3, <2>4
<1>. QED BY <1>9, <1>10, <1>11, <1>13

\* persistence.save: every node of the store is written before heads.json.
LEMMA SaveHolds ==
  ASSUME NEW ns, NEW hs, NEW led, IsSeq(led), NEW files,
         DOMAIN ns \subseteq DOMAIN led, \A r \in DOMAIN ns : ns[r] = led[r],
         \A b \in DOMAIN hs : hs[b] \in DOMAIN ns
  PROVE  TodoHolds(SaveWrites(ns, hs), DOMAIN ns, led, files) /\ SaveWrites(ns, hs) # <<>>
<1> DEFINE s == NodeWrites(ns)
           t == Write(HeadsFile, hs)
           u == s \o t
<1>1. DOMAIN led = 1 .. Len(led) /\ Len(led) \in Nat
    BY DEF IsSeq
<1>2. /\ IsSeq(s)
      /\ \A i \in DOMAIN s : \E r \in DOMAIN ns : s[i] = [file |-> NodeFile(r), text |-> ns[r]]
      /\ \A r \in DOMAIN ns : \E i \in DOMAIN s : s[i].file = NodeFile(r)
    BY <1>1, NodeWritesAll
<1>3. IsSeq(t) /\ DOMAIN t = {1} /\ t[1] = [file |-> HeadsFile, text |-> hs]
  <2>1. DOMAIN t = {1} /\ t[1] = [file |-> HeadsFile, text |-> hs] /\ t \in Seq({t[i] : i \in DOMAIN t})
      BY DEF Write
  <2>. QED BY <2>1 DEF IsSeq
<1>. HIDE DEF s, t
<1>4. /\ IsSeq(u) /\ Len(s) \in Nat /\ DOMAIN s = 1 .. Len(s)
      /\ \A i \in DOMAIN s : i \in DOMAIN u /\ u[i] = s[i]
      /\ \A i \in DOMAIN t : i \in Nat /\ i > 0 /\ Len(s) + i \in DOMAIN u /\ u[Len(s) + i] = t[i]
      /\ \A i \in DOMAIN u : i \in Nat /\ (i \in DOMAIN s \/ \E j \in DOMAIN t : i = Len(s) + j)
    BY <1>2, <1>3, ConcatSeq
<1>. HIDE DEF u
<1>5. \A i \in DOMAIN u : (i \in DOMAIN s /\ u[i] = s[i]) \/ (i = Len(s) + 1 /\ u[i] = t[1])
    BY <1>3, <1>4
<1>6. WritesNodes(u, led)
  <2>1. HeadsFile[1] # "node"
      BY DEF HeadsFile
  <2>. QED BY <1>2, <1>3, <1>5, <2>1 DEF WritesNodes
<1>7. WritesHeads(u, DOMAIN ns, files)
  <2> SUFFICES ASSUME NEW i \in DOMAIN u, u[i].file = HeadsFile
               PROVE  /\ \A b \in DOMAIN u[i].text : u[i].text[b] \in DOMAIN ns
                      /\ \A r \in DOMAIN ns : \E j \in 1 .. (i - 1) : u[j].file = NodeFile(r)
      BY DEF WritesHeads
  <2>1. i \notin DOMAIN s \/ u[i] # s[i]
      BY <1>2 DEF HeadsFile, NodeFile
  <2>2. i = Len(s) + 1 /\ u[i] = t[1]
      BY <1>5, <2>1
  <2>3. \A j \in DOMAIN s : j \in 1 .. (i - 1) /\ u[j] = s[j]
      BY <1>4, <2>2
  <2>. QED BY <1>2, <1>3, <2>2, <2>3
<1>8. Len(s) + 1 \in DOMAIN u
    BY <1>3, <1>4
<1>9. SaveWrites(ns, hs) = u /\ u # <<>>
    BY <1>8 DEF SaveWrites, s, t, u
<1>. QED BY <1>4, <1>6, <1>7, <1>9 DEF TodoHolds

LEMMA ConcatNotEmpty ==
  ASSUME NEW s, NEW t, IsSeq(s), IsSeq(t), s # <<>> \/ t # <<>>
  PROVE  s \o t # <<>>
<1>1. \E i : i \in DOMAIN s \/ i \in DOMAIN t
    BY DEF IsSeq
<1>2. PICK i : i \in DOMAIN s \/ i \in DOMAIN t
    BY <1>1
<1>3. CASE i \in DOMAIN s
    BY <1>3, ConcatSeq
<1>4. CASE i \in DOMAIN t
  <2>1. Len(s) + i \in DOMAIN (s \o t)
      BY <1>4, ConcatSeq
  <2>. QED BY <2>1
<1>. QED BY <1>2, <1>3, <1>4

\* The whole list of writes of a command.
LEMMA WritesHold ==
  ASSUME NEW cmd, NEW ns, NEW out, NEW led, IsSeq(led), NEW files,
         DOMAIN ns \subseteq DOMAIN led, \A r \in DOMAIN ns : ns[r] = led[r],
         \A b \in DOMAIN out.heads : out.heads[b] \in DOMAIN ns,
         cmd.op = "checkout" => out.switch # NoBranch
  PROVE  TodoHolds(Writes(cmd, ns, out), DOMAIN ns, led, files) /\ Writes(cmd, ns, out) # <<>>
<1> DEFINE R == DOMAIN ns
           a == IF cmd.op = "init" /\ ~Exists(HeadsFile) THEN Write(HeadsFile, None) ELSE <<>>
           b == IF cmd.op = "checkout" THEN <<>> ELSE SaveWrites(ns, out.heads)
           c == SyncWrites(out)
           d == SwitchWrites(out)
<1>1. TodoHolds(a, R, led, files)
    BY OtherWriteHolds, NothingHolds DEF None, HeadsFile
<1>2. TodoHolds(b, R, led, files) /\ (cmd.op # "checkout" => b # <<>>)
    BY SaveHolds, NothingHolds
<1>3. TodoHolds(c, R, led, files)
  <2>1. SchemaFile(out.render)[1] # "node" /\ SchemaFile(out.render) # HeadsFile
      BY DEF SchemaFile, HeadsFile
  <2>. QED BY <2>1, OtherWriteHolds, NothingHolds DEF SyncWrites
<1>4. TodoHolds(d, R, led, files) /\ (cmd.op = "checkout" => d # <<>>)
  <2>1. HeadFile[1] # "node" /\ HeadFile # HeadsFile
      BY DEF HeadFile, HeadsFile
  <2>. QED BY <2>1, OtherWriteHolds, NothingHolds DEF SwitchWrites, Write
<1>. HIDE DEF a, b, c, d
<1>5. TodoHolds(a \o b, R, led, files)
    BY <1>1, <1>2, ConcatHolds
<1>6. TodoHolds((a \o b) \o c, R, led, files)
    BY <1>3, <1>5, ConcatHolds
<1>7. TodoHolds(((a \o b) \o c) \o d, R, led, files)
    BY <1>4, <1>6, ConcatHolds
<1>8. ((a \o b) \o c) \o d # <<>>
  <2>1. IsSeq(a) /\ IsSeq(b) /\ IsSeq(c) /\ IsSeq(d) /\ IsSeq(a \o b) /\ IsSeq((a \o b) \o c)
      BY <1>1, <1>2, <1>3, <1>4, <1>5, <1>6 DEF TodoHolds
  <2>. QED BY <1>2, <1>4, <2>1, ConcatNotEmpty
<1>9. Writes(cmd, ns, out) = ((a \o b) \o c) \o d
    BY DEF Writes, a, b, c, d
<1>. QED BY <1>7, <1>8, <1>9

----------------------------------------------------------------------------
(* What a command decides.                                                   *)

\* A command that raises between the two halves of its writing differs in
\* what it renders and switches to, and has neither.
LEMMA OutcomeSplit ==
  ASSUME NEW cmd, NEW s, NEW out \in Outcomes(cmd, s)
  PROVE  \/ out \in CommandOutcomes(cmd, s)
         \/ /\ cmd.op # "init" /\ out.render = NoBranch /\ out.switch = NoBranch
            /\ \E o \in CommandOutcomes(cmd, s) :
                 o.render # NoBranch /\ out.node = o.node /\ out.heads = o.heads
<1>1. ASSUME NEW o \in CommandOutcomes(cmd, s), out = NotRendered(o), cmd.op # "init",
             o.render # NoBranch
      PROVE  /\ out.render = NoBranch /\ out.switch = NoBranch
             /\ out.node = o.node /\ out.heads = o.heads
  <2>1. \E n, h, r, w : o = Outcome(n, h, r, w)
    <3>1. ASSUME NEW b, NEW ps, o \in Committed(s, b, ps) PROVE \E n, h, r, w : o = Outcome(n, h, r, w)
        BY <3>1 DEF Committed
    <3>2. CASE cmd.op = "create"
        BY <1>1, <3>2 DEF CommandOutcomes
    <3>3. CASE cmd.op # "create"
      <4>1. o \in BranchOutcomes(cmd, s)
          BY <1>1, <3>3 DEF CommandOutcomes
      <4>2. CASE cmd.op \in {"delete", "rollback", "checkout"}
          BY <4>1, <4>2 DEF BranchOutcomes
      <4>3. CASE cmd.op \in {"migrate", "sync"}
          BY <3>1, <4>1, <4>3 DEF BranchOutcomes
      <4>4. CASE cmd.op = "merge"
        <5>1. o \in MergeOutcomes(s, cmd.b, cmd.other)
            BY <4>1, <4>4 DEF BranchOutcomes
        <5>2. \/ o = Outcome(NoNode, Put(s.heads, cmd.b, s.heads[cmd.other]), cmd.b, NoBranch)
              \/ o \in Committed(s, cmd.b, <<s.heads[cmd.b], s.heads[cmd.other]>>)
            BY <5>1 DEF MergeOutcomes
        <5>. QED BY <3>1, <5>2
      <4>. QED BY <4>1, <4>2, <4>3, <4>4 DEF BranchOutcomes
    <3>. QED BY <3>2, <3>3
  <2>2. PICK n, h, r, w : o = Outcome(n, h, r, w)
      BY <2>1
  <2>3. out = [node |-> n, heads |-> h, render |-> NoBranch, switch |-> NoBranch]
      BY <1>1, <2>2 DEF NotRendered, Outcome
  <2>. QED BY <2>2, <2>3 DEF Outcome
<1>2. \/ out \in CommandOutcomes(cmd, s)
      \/ /\ cmd.op # "init"
         /\ \E o \in CommandOutcomes(cmd, s) : o.render # NoBranch /\ out = NotRendered(o)
    BY DEF Outcomes
<1>. QED BY <1>1, <1>2

LEMMA CommandOutcomeHolds ==
  ASSUME NEW cmd, NEW s, IsSeq(ledger), NEW out \in CommandOutcomes(cmd, s), cmd.b \in Branch,
         DOMAIN s.nodes \subseteq DOMAIN ledger,
         \A b \in DOMAIN s.heads : s.heads[b] \in DOMAIN s.nodes
  PROVE  /\ out.node = NoNode => \A b \in DOMAIN out.heads : out.heads[b] \in DOMAIN s.nodes
         /\ out.node # NoNode =>
              /\ \A b \in DOMAIN out.heads : out.heads[b] \in DOMAIN s.nodes \cup {NewRev}
              /\ \A i \in DOMAIN out.node : out.node[i] \in DOMAIN s.nodes
         /\ cmd.op = "checkout" => out.switch # NoBranch
         /\ out.render # NoBranch => cmd.op # "checkout" /\ out.render \in DOMAIN out.heads
<1> DEFINE N == DOMAIN s.nodes
           Goal == /\ out.node = NoNode => \A b \in DOMAIN out.heads : out.heads[b] \in N
                   /\ out.node # NoNode =>
                        /\ \A b \in DOMAIN out.heads : out.heads[b] \in N \cup {NewRev}
                        /\ \A i \in DOMAIN out.node : out.node[i] \in N
                   /\ cmd.op = "checkout" => out.switch # NoBranch
                   /\ out.render # NoBranch => cmd.op # "checkout" /\ out.render \in DOMAIN out.heads
<1>1. \A r \in N : r # 0
    BY DEF IsSeq
<1>2. ASSUME cmd.op # "checkout", NEW b, NEW ps, out \in Committed(s, b, ps),
             ps # NoNode, \A i \in DOMAIN ps : ps[i] \in N
      PROVE  Goal
  <2>1. out = Outcome(ps, Put(s.heads, b, NewRev), b, NoBranch)
      BY <1>2 DEF Committed
  <2>. QED BY <1>2, <2>1 DEF Outcome, Put
<1>3. CASE cmd.op = "init"
  <2>1. out = Outcome(<<>>, Put(None, Main, NewRev), Main, Main)
      BY <1>3 DEF CommandOutcomes
  <2>2. <<>> # NoNode /\ DOMAIN <<>> = {}
      BY DEF NoNode
  <2>. QED BY <1>3, <2>1, <2>2 DEF Outcome, Put, None
<1>4. CASE cmd.op = "create"
  <2>1. /\ cmd.other \in DOMAIN s.heads
        /\ out = Outcome(NoNode, Put(s.heads, cmd.b, s.heads[cmd.other]), cmd.b, cmd.b)
      BY <1>4 DEF CommandOutcomes
  <2>. QED BY <1>4, <2>1 DEF Outcome, Put
<1>5. CASE cmd.op \notin {"init", "create"}
  <2>1. cmd.b \in DOMAIN s.heads /\ out \in BranchOutcomes(cmd, s)
      BY <1>5 DEF CommandOutcomes
  <2>2. CASE cmd.op = "delete"
    <3>1. out = Outcome(NoNode, Remove(s.heads, cmd.b), NoBranch, NoBranch)
        BY <2>1, <2>2 DEF BranchOutcomes
    <3>. QED BY <2>2, <3>1 DEF Outcome, Remove
  <2>3. CASE cmd.op = "rollback"
    <3>1. PICK rev \in N : out = Outcome(NoNode, Put(s.heads, cmd.b, rev), cmd.b, NoBranch)
        BY <2>1, <2>3 DEF BranchOutcomes, FirstParentLine
    <3>. QED BY <2>3, <3>1 DEF Outcome, Put
  <2>4. CASE cmd.op = "checkout"
    <3>1. out = Outcome(NoNode, s.heads, NoBranch, cmd.b)
        BY <2>1, <2>4 DEF BranchOutcomes
    <3>. QED BY <3>1, FilesAssumption DEF Outcome
  <2>5. CASE cmd.op \in {"migrate", "sync"}
    <3>1. out \in Committed(s, cmd.b, <<s.heads[cmd.b]>>)
        BY <2>1, <2>5 DEF BranchOutcomes
    <3>2. <<s.heads[cmd.b]>> # NoNode /\ \A i \in DOMAIN <<s.heads[cmd.b]>> : <<s.heads[cmd.b]>>[i] \in N
        BY <1>1, <2>1 DEF NoNode
    <3>. QED BY <1>2, <2>5, <3>1, <3>2
  <2>6. CASE cmd.op = "merge"
    <3>1. cmd.other \in DOMAIN s.heads /\ out \in MergeOutcomes(s, cmd.b, cmd.other)
        BY <2>1, <2>6 DEF BranchOutcomes
    <3>. DEFINE ps == <<s.heads[cmd.b], s.heads[cmd.other]>>
    <3>2. \/ out = Outcome(NoNode, Put(s.heads, cmd.b, s.heads[cmd.other]), cmd.b, NoBranch)
          \/ out \in Committed(s, cmd.b, ps)
        BY <3>1 DEF MergeOutcomes
    <3>3. ps # NoNode /\ \A i \in DOMAIN ps : ps[i] \in N
        BY <2>1, <3>1 DEF NoNode
    <3>4. CASE out \in Committed(s, cmd.b, ps)
        BY <1>2, <2>6, <3>3, <3>4
    <3>5. CASE out = Outcome(NoNode, Put(s.heads, cmd.b, s.heads[cmd.other]), cmd.b, NoBranch)
        BY <2>6, <3>1, <3>5 DEF Outcome, Put
    <3>. QED BY <3>2, <3>4, <3>5
  <2>. QED BY <2>1, <2>2, <2>3, <2>4, <2>5, <2>6 DEF BranchOutcomes
<1>. QED BY <1>3, <1>4, <1>5

LEMMA OutcomeHolds ==
  ASSUME NEW cmd, NEW s, IsSeq(ledger), NEW out \in Outcomes(cmd, s), cmd.b \in Branch,
         DOMAIN s.nodes \subseteq DOMAIN ledger,
         \A b \in DOMAIN s.heads : s.heads[b] \in DOMAIN s.nodes
  PROVE  /\ out.node = NoNode => \A b \in DOMAIN out.heads : out.heads[b] \in DOMAIN s.nodes
         /\ out.node # NoNode =>
              /\ \A b \in DOMAIN out.heads : out.heads[b] \in DOMAIN s.nodes \cup {NewRev}
              /\ \A i \in DOMAIN out.node : out.node[i] \in DOMAIN s.nodes
         /\ cmd.op = "checkout" => out.switch # NoBranch
         /\ out.render # NoBranch => cmd.op # "checkout" /\ out.render \in DOMAIN out.heads
<1>1. CASE out \in CommandOutcomes(cmd, s)
    BY <1>1, CommandOutcomeHolds
<1>2. CASE out \notin CommandOutcomes(cmd, s)
  <2>1. PICK o \in CommandOutcomes(cmd, s) :
          o.render # NoBranch /\ out.node = o.node /\ out.heads = o.heads
      BY <1>2, OutcomeSplit
  <2>2. out.render = NoBranch
      BY <1>2, OutcomeSplit
  <2>. QED BY <2>1, <2>2, CommandOutcomeHolds
<1>. QED BY <1>1, <1>2

----------------------------------------------------------------------------
(* The steps.                                                                *)

LedgerGrows ==
  /\ DOMAIN ledger \subseteq DOMAIN ledger'
  /\ \A r \in DOMAIN ledger : ledger'[r] = ledger[r]

LEMMA NodesStay ==
  ASSUME IsSeq(ledger), IsSeq(ledger)', LedgerGrows, DOMAIN disk \subseteq DOMAIN disk'
  PROVE  /\ NodesOnDisk \subseteq NodesOnDisk' /\ NodesOnDisk \subseteq DOMAIN ledger
         /\ DOMAIN ledger = 1 .. Len(ledger)
BY DEF NodesOnDisk, Exists, LedgerGrows, IsSeq

\* What holds of a process that does nothing goes on to hold.
LEMMA ProcKept ==
  ASSUME NEW p, ProcHolds(p), proc'[p] = proc[p], IsSeq(ledger), IsSeq(ledger)', LedgerGrows,
         DOMAIN disk \subseteq DOMAIN disk'
  PROVE  ProcHolds(p)'
<1>1. NodesOnDisk \subseteq NodesOnDisk'
    BY NodesStay
<1>2. StoreHolds(proc[p].store)'
    BY DEF ProcHolds, StoreHolds, LedgerGrows, ParentClosed, ParentsOf
<1>3. ASSUME proc[p].pc \in {"open", "fill"}
      PROVE  TodoHolds(proc[p].todo, DOMAIN proc[p].store.nodes, ledger, DOMAIN disk)'
  <2>1. WritesNodes(proc[p].todo, ledger)'
      BY <1>3 DEF ProcHolds, TodoHolds, WritesNodes, LedgerGrows
  <2>2. WritesHeads(proc[p].todo, DOMAIN proc[p].store.nodes, DOMAIN disk)'
      BY <1>3 DEF ProcHolds, TodoHolds, WritesHeads
  <2>3. IsSeq(proc[p].todo)'
      BY <1>3 DEF ProcHolds, TodoHolds
  <2>. QED BY <2>1, <2>2, <2>3 DEF TodoHolds
<1>4. proc[p].pc = "fill" => (Exists(Head(proc[p].todo).file))'
    BY DEF ProcHolds, Exists
<1>. QED BY <1>1, <1>2, <1>3, <1>4 DEF ProcHolds

\* A step of one process.
LEMMA OneMoves ==
  ASSUME FInv, NEW p \in Proc, IsSeq(ledger)', LedgerGrows, DOMAIN disk \subseteq DOMAIN disk',
         proc' = [proc EXCEPT ![p] = proc'[p]],
         proc'[p] = [pc |-> proc'[p].pc, cmd |-> proc'[p].cmd,
                     store |-> [nodes |-> proc'[p].store.nodes, heads |-> proc'[p].store.heads],
                     todo |-> proc'[p].todo],
         ProcHolds(p)'
  PROVE  Shape' /\ \A q \in Proc : ProcHolds(q)'
<1>1. Shape'
    BY DEF FInv, Shape
<1>2. ASSUME NEW q \in Proc, q # p PROVE ProcHolds(q)'
  <2>1. proc'[q] = proc[q]
      BY <1>2 DEF FInv, Shape
  <2>. QED BY <2>1, ProcKept DEF FInv
<1>. QED BY <1>1, <1>2

LEMMA HeadsKept ==
  ASSUME FInv, IsSeq(ledger)', LedgerGrows, DOMAIN disk \subseteq DOMAIN disk',
         HeadsFile \in DOMAIN disk' => HeadsFile \in DOMAIN disk /\ disk'[HeadsFile] = disk[HeadsFile]
  PROVE  HeadsWithin'
<1>1. NodesOnDisk \subseteq NodesOnDisk' /\ NodesOnDisk \subseteq DOMAIN ledger
    BY NodesStay DEF FInv
<1>2. ASSUME NEW S \in SUBSET NodesOnDisk, ParentClosed(ledger, S) PROVE ParentClosed(ledger, S)'
    BY <1>1, <1>2 DEF ParentClosed, ParentsOf, LedgerGrows
<1>. QED BY <1>1, <1>2 DEF FInv, HeadsWithin, Exists

\* The disk is sound after the step, and nothing is lost.
DiskSound ==
  /\ IsSeq(ledger)' /\ LedgerGrows /\ DOMAIN disk \subseteq DOMAIN disk'
  /\ NodeFilesHold' /\ HeadsWithin'

LEMMA DiskKept ==
  ASSUME FInv, UNCHANGED disk, IsSeq(ledger)', LedgerGrows
  PROVE  DiskSound
<1>1. NodeFilesHold'
    BY DEF FInv, NodeFilesHold, LedgerGrows
<1>2. HeadsWithin'
    BY HeadsKept
<1>. QED BY <1>1, <1>2 DEF DiskSound

LEMMA NothingChanged ==
  ASSUME FInv, UNCHANGED <<disk, ledger>>
  PROVE  DiskSound /\ NodesOnDisk \subseteq DOMAIN ledger
<1>1. IsSeq(ledger)' /\ LedgerGrows
    BY DEF FInv, LedgerGrows
<1>. QED BY <1>1, DiskKept, NodesStay DEF FInv

\* A process without a command, and one that begins.
LEMMA FreshProc ==
  ASSUME NEW p, proc'[p].store = NoStore, proc'[p].pc \notin {"open", "fill"},
         proc'[p].pc \in {"nodes", "heads", "decide"} => proc'[p].cmd.b \in Branch
  PROVE  ProcHolds(p)'
BY DEF ProcHolds, StoreHolds, NoStore, None, ParentClosed

\* A step that leaves the disk and the process sound.
LEMMA StepKeeps ==
  ASSUME FInv, NEW p \in Proc, DiskSound,
         NEW pc, NEW cmd, NEW ns, NEW hs, NEW todo,
         proc' = [proc EXCEPT ![p] = Doing(pc, cmd, [nodes |-> ns, heads |-> hs], todo)],
         ProcHolds(p)'
  PROVE  FInv'
<1>1. proc'[p] = Doing(pc, cmd, [nodes |-> ns, heads |-> hs], todo)
    BY DEF FInv, Shape
<1>2. proc' = [proc EXCEPT ![p] = proc'[p]]
    BY <1>1
<1>3. proc'[p] = [pc |-> proc'[p].pc, cmd |-> proc'[p].cmd,
                  store |-> [nodes |-> proc'[p].store.nodes, heads |-> proc'[p].store.heads],
                  todo |-> proc'[p].todo]
  <2>1. proc'[p] = [pc |-> pc, cmd |-> cmd, store |-> [nodes |-> ns, heads |-> hs], todo |-> todo]
      BY <1>1 DEF Doing
  <2>2. /\ proc'[p].pc = pc /\ proc'[p].cmd = cmd /\ proc'[p].todo = todo
        /\ proc'[p].store.nodes = ns /\ proc'[p].store.heads = hs
      BY <2>1
  <2>. QED BY <2>1, <2>2
<1>4. Shape' /\ \A q \in Proc : ProcHolds(q)'
    BY <1>2, <1>3, OneMoves DEF DiskSound
<1>. QED BY <1>4 DEF FInv, DiskSound

\* A load: what was read is a sound store, of nodes with files.
LEMMA LoadKeeps ==
  ASSUME FInv, NEW p \in Proc, UNCHANGED <<disk, ledger>>,
         NEW pc \in {"heads", "decide"}, NEW cmd, cmd.b \in Branch, NEW ns, NEW hs,
         proc' = [proc EXCEPT ![p] = Doing(pc, cmd, [nodes |-> ns, heads |-> hs], <<>>)],
         StoreHolds([nodes |-> ns, heads |-> hs]), DOMAIN ns \subseteq NodesOnDisk
  PROVE  FInv'
<1>1. proc'[p] = [pc |-> pc, cmd |-> cmd, store |-> [nodes |-> ns, heads |-> hs], todo |-> <<>>]
    BY DEF FInv, Shape, Doing
<1>2. StoreHolds([nodes |-> ns, heads |-> hs])'
    BY DEF StoreHolds, ParentClosed, ParentsOf
<1>3. DOMAIN ns \subseteq NodesOnDisk'
    BY DEF NodesOnDisk, Exists
<1>4. ProcHolds(p)'
    BY <1>1, <1>2, <1>3 DEF ProcHolds
<1>. QED BY <1>4, StepKeeps, NothingChanged

LEMMA GiveUpKeeps ==
  ASSUME FInv, NEW p \in Proc, GiveUp(p), DiskSound
  PROVE  FInv'
<1>1. /\ proc' = [proc EXCEPT ![p] = Doing("idle", NoCmd, [nodes |-> None, heads |-> None], <<>>)]
      /\ proc'[p] = Idle
    BY DEF GiveUp, FInv, Shape, Idle, NoStore
<1>2. ProcHolds(p)'
    BY <1>1, FreshProc DEF Idle, Doing
<1>. QED BY <1>1, <1>2, StepKeeps

LEMMA StartKeeps ==
  ASSUME FInv, NEW p \in Proc, NEW cmd \in Commands, Start(p, cmd)
  PROVE  FInv'
<1>. DEFINE pc == IF cmd.op = "init" THEN "decide" ELSE "nodes"
<1>1. /\ proc' = [proc EXCEPT ![p] = Doing(pc, cmd, [nodes |-> None, heads |-> None], <<>>)]
      /\ proc'[p] = Doing(pc, cmd, NoStore, <<>>) /\ UNCHANGED <<disk, ledger>>
    BY DEF Start, FInv, Shape, NoStore
<1>2. cmd.b \in Branch
    BY FilesAssumption DEF Commands
<1>3. ProcHolds(p)'
    BY <1>1, <1>2, FreshProc DEF Doing
<1>. HIDE DEF pc
<1>. QED BY <1>1, <1>3, StepKeeps, NothingChanged

LEMMA ReadNodesKeeps ==
  ASSUME FInv, NEW p \in Proc, ReadNodes(p)
  PROVE  FInv'
<1>1. CASE ~NodesReadable
    BY <1>1, GiveUpKeeps, NothingChanged DEF ReadNodes
<1>2. CASE NodesReadable
  <2>. DEFINE ns == [r \in NodesOnDisk |-> disk[NodeFile(r)]]
  <2>1. /\ proc[p].pc = "nodes" /\ UNCHANGED <<disk, ledger>>
        /\ proc' = [proc EXCEPT ![p] =
                      Doing("heads", proc[p].cmd, [nodes |-> ns, heads |-> None], <<>>)]
      BY <1>2 DEF ReadNodes
  <2>2. NodesOnDisk \subseteq DOMAIN ledger
      BY <2>1, NothingChanged
  <2>3. \A r \in NodesOnDisk : ns[r] = ledger[r]
      BY <1>2 DEF NodesReadable, FInv, NodeFilesHold, NodesOnDisk, Exists, NodeFile
  <2>4. ParentClosed(ledger, NodesOnDisk)
      BY <1>2, <2>3 DEF NodesReadable, ParentClosed, ParentsOf
  <2>5. DOMAIN ns = NodesOnDisk /\ DOMAIN None = {}
      BY DEF None
  <2>. HIDE DEF ns
  <2>6. StoreHolds([nodes |-> ns, heads |-> None])
      BY <2>2, <2>3, <2>4, <2>5 DEF StoreHolds
  <2>7. proc[p].cmd.b \in Branch
      BY <2>1 DEF FInv, ProcHolds
  <2>. QED BY <2>1, <2>5, <2>6, <2>7, LoadKeeps
<1>. QED BY <1>1, <1>2

LEMMA ReadHeadsKeeps ==
  ASSUME FInv, NEW p \in Proc, ReadHeads(p)
  PROVE  FInv'
<1>. DEFINE ns == proc[p].store.nodes
            hs == disk[HeadsFile]
<1>1. CASE ~HeadsReadable(ns)
    BY <1>1, GiveUpKeeps, NothingChanged DEF ReadHeads
<1>2. CASE HeadsReadable(ns)
  <2>1. /\ proc[p].pc = "heads" /\ UNCHANGED <<disk, ledger>>
        /\ proc' = [proc EXCEPT ![p] =
                      Doing("decide", proc[p].cmd, [nodes |-> ns, heads |-> hs], <<>>)]
      BY <1>2 DEF ReadHeads
  <2>2. /\ proc[p].cmd.b \in Branch /\ DOMAIN ns \subseteq NodesOnDisk
        /\ StoreHolds(proc[p].store)
      BY <2>1 DEF FInv, ProcHolds
  <2>3. \A b \in DOMAIN hs : hs[b] \in DOMAIN ns
      BY <1>2 DEF HeadsReadable
  <2>4. StoreHolds([nodes |-> ns, heads |-> hs])
      BY <2>2, <2>3 DEF StoreHolds
  <2>. HIDE DEF ns, hs
  <2>. QED BY <2>1, <2>2, <2>4, LoadKeeps
<1>. QED BY <1>1, <1>2

\* What a process holds does not go stale.
LEMMA StoreStays ==
  ASSUME NEW ns, NEW hs, StoreHolds([nodes |-> ns, heads |-> hs]), LedgerGrows
  PROVE  StoreHolds([nodes |-> ns, heads |-> hs])'
BY DEF StoreHolds, ParentClosed, ParentsOf, LedgerGrows

LEMMA TodoStays ==
  ASSUME NEW t, NEW revs, TodoHolds(t, revs, ledger, DOMAIN disk),
         LedgerGrows, DOMAIN disk \subseteq DOMAIN disk'
  PROVE  TodoHolds(t, revs, ledger', DOMAIN disk')
<1>1. WritesNodes(t, ledger')
    BY DEF TodoHolds, WritesNodes, LedgerGrows
<1>2. WritesHeads(t, revs, DOMAIN disk')
    BY DEF TodoHolds, WritesHeads
<1>. QED BY <1>1, <1>2 DEF TodoHolds

\* A process with files to write.
LEMMA WritingKeeps ==
  ASSUME FInv, NEW p \in Proc, DiskSound,
         NEW pc \in {"open", "fill"}, NEW cmd, NEW ns, NEW hs, NEW todo,
         proc' = [proc EXCEPT ![p] = Doing(pc, cmd, [nodes |-> ns, heads |-> hs], todo)],
         StoreHolds([nodes |-> ns, heads |-> hs])', todo # <<>>,
         TodoHolds(todo, DOMAIN ns, ledger', DOMAIN disk'),
         pc = "fill" => Head(todo).file \in DOMAIN disk'
  PROVE  FInv'
<1>1. proc'[p] = [pc |-> pc, cmd |-> cmd, store |-> [nodes |-> ns, heads |-> hs], todo |-> todo]
    BY DEF FInv, Shape, Doing
<1>2. ProcHolds(p)'
    BY <1>1 DEF ProcHolds, Exists
<1>. QED BY <1>2, StepKeeps

LEMMA DecideKeeps ==
  ASSUME FInv, NEW p \in Proc, Decide(p)
  PROVE  FInv'
<1>. DEFINE cmd == proc[p].cmd
            s == proc[p].store
<1>1. CASE GiveUp(p) /\ UNCHANGED ledger
    BY <1>1, GiveUpKeeps, NothingChanged DEF Decide
<1>2. ASSUME NEW out \in Outcomes(cmd, s), NEW node, NEW ns, NEW todo,
             node = [parents |-> out.node, branch |-> cmd.b],
             ns = IF out.node = NoNode THEN s.nodes ELSE Put(s.nodes, NewRev, node),
             todo = Writes(cmd, ns, out),
             ledger' = IF out.node = NoNode THEN ledger ELSE Append(ledger, node),
             proc' = [proc EXCEPT ![p] =
                        Doing("open", cmd, [nodes |-> ns, heads |-> out.heads], todo)],
             proc[p].pc = "decide", UNCHANGED disk
      PROVE  FInv'
  <2>1. StoreHolds(s) /\ DOMAIN s.nodes \subseteq DOMAIN ledger /\ cmd.b \in Branch /\ IsSeq(ledger)
      BY <1>2 DEF FInv, ProcHolds, StoreHolds
  <2>2. /\ out.node = NoNode => \A b \in DOMAIN out.heads : out.heads[b] \in DOMAIN s.nodes
        /\ out.node # NoNode =>
             /\ \A b \in DOMAIN out.heads : out.heads[b] \in DOMAIN s.nodes \cup {NewRev}
             /\ \A i \in DOMAIN out.node : out.node[i] \in DOMAIN s.nodes
        /\ cmd.op = "checkout" => out.switch # NoBranch
      BY <2>1, OutcomeHolds DEF StoreHolds
  <2>3. /\ IsSeq(ledger') /\ LedgerGrows
        /\ out.node # NoNode => /\ DOMAIN ledger' = DOMAIN ledger \cup {NewRev}
                                /\ NewRev \notin DOMAIN ledger /\ ledger'[NewRev] = node
      BY <1>2, <2>1, AppendSeq DEF LedgerGrows, NewRev
  <2>4. /\ DOMAIN ns \subseteq DOMAIN ledger'
        /\ \A r \in DOMAIN ns : ns[r] = ledger'[r]
        /\ \A b \in DOMAIN out.heads : out.heads[b] \in DOMAIN ns
        /\ ParentClosed(ledger', DOMAIN ns)
    <3>1. CASE out.node = NoNode
        BY <1>2, <2>1, <2>2, <3>1 DEF StoreHolds
    <3>2. CASE out.node # NoNode
      <4>1. /\ DOMAIN ns = DOMAIN s.nodes \cup {NewRev} /\ ns[NewRev] = node
            /\ \A r \in DOMAIN s.nodes : r # NewRev /\ ns[r] = s.nodes[r]
          BY <1>2, <2>1, <2>3, <3>2 DEF Put
      <4>2. \A r \in DOMAIN ns : ns[r] = ledger'[r]
          BY <2>1, <2>3, <3>2, <4>1 DEF StoreHolds, LedgerGrows
      <4>3. ParentsOf(ledger', NewRev) \subseteq DOMAIN s.nodes
          BY <1>2, <2>2, <2>3, <3>2 DEF ParentsOf
      <4>4. \A r \in DOMAIN s.nodes : ParentsOf(ledger', r) \subseteq DOMAIN s.nodes
          BY <2>1, <2>3 DEF StoreHolds, ParentClosed, ParentsOf, LedgerGrows
      <4>5. ParentClosed(ledger', DOMAIN ns)
          BY <4>1, <4>3, <4>4 DEF ParentClosed
      <4>. QED BY <2>1, <2>2, <2>3, <3>2, <4>1, <4>2, <4>5
    <3>. QED BY <3>1, <3>2
  <2>5. TodoHolds(todo, DOMAIN ns, ledger', DOMAIN disk) /\ todo # <<>>
    <3>. DEFINE led == ledger'
    <3>. HIDE DEF cmd, s
    <3>1. /\ IsSeq(led) /\ DOMAIN ns \subseteq DOMAIN led /\ \A r \in DOMAIN ns : ns[r] = led[r]
          /\ \A b \in DOMAIN out.heads : out.heads[b] \in DOMAIN ns
          /\ cmd.op = "checkout" => out.switch # NoBranch
        BY <2>2, <2>3, <2>4
    <3>. HIDE DEF led
    <3>2. /\ TodoHolds(Writes(cmd, ns, out), DOMAIN ns, led, DOMAIN disk)
          /\ Writes(cmd, ns, out) # <<>>
        BY <3>1, WritesHold
    <3>. QED BY <1>2, <3>2 DEF led
  <2>6. StoreHolds([nodes |-> ns, heads |-> out.heads])'
    <3>. DEFINE hs == out.heads
    <3>. QED BY <2>4 DEF StoreHolds
  <2>7. DiskSound
      BY <1>2, <2>3, DiskKept
  <2>8. TodoHolds(todo, DOMAIN ns, ledger', DOMAIN disk')
      BY <1>2, <2>5
  <2>. HIDE DEF cmd, s
  <2>. QED BY <1>2, <2>5, <2>6, <2>7, <2>8, WritingKeeps
<1>3. \/ GiveUp(p) /\ UNCHANGED ledger
      \/ \E out \in Outcomes(cmd, s) :
           LET node == [parents |-> out.node, branch |-> cmd.b]
               ns == IF out.node = NoNode THEN s.nodes ELSE Put(s.nodes, NewRev, node)
           IN  /\ ledger' = IF out.node = NoNode THEN ledger ELSE Append(ledger, node)
               /\ proc' = [proc EXCEPT ![p] =
                             Doing("open", cmd, [nodes |-> ns, heads |-> out.heads],
                                   Writes(cmd, ns, out))]
    BY DEF Decide
<1>4. proc[p].pc = "decide" /\ UNCHANGED disk
    BY DEF Decide
<1>. HIDE DEF cmd, s
<1>. QED BY <1>1, <1>2, <1>3, <1>4

\* What the process that writes is about to put into its first file.
LEMMA FirstWrite ==
  ASSUME FInv, NEW p \in Proc, proc[p].pc \in {"open", "fill"}
  PROVE  LET t == proc[p].todo  w == Head(t)
             ns == proc[p].store.nodes  hs == proc[p].store.heads
         IN  /\ proc[p] = Doing(proc[p].pc, proc[p].cmd, [nodes |-> ns, heads |-> hs], t)
             /\ StoreHolds([nodes |-> ns, heads |-> hs])
             /\ IsSeq(t) /\ t # <<>> /\ TodoHolds(t, DOMAIN ns, ledger, DOMAIN disk)
             /\ w = t[1] /\ 1 \in DOMAIN t
             /\ w.file[1] = "node" =>
                  \E r \in DOMAIN ledger : w.file = NodeFile(r) /\ w.text = ledger[r]
             /\ w.file = HeadsFile /\ DOMAIN w.text # {} =>
                  /\ \A b \in DOMAIN w.text : w.text[b] \in DOMAIN ns
                  /\ \A r \in DOMAIN ns : NodeFile(r) \in DOMAIN disk
<1>. DEFINE t == proc[p].todo
            ns == proc[p].store.nodes
            hs == proc[p].store.heads
<1>1. /\ proc[p] = [pc |-> proc[p].pc, cmd |-> proc[p].cmd,
                    store |-> [nodes |-> ns, heads |-> hs], todo |-> t]
    BY DEF FInv, Shape
<1>2. proc[p].store = [nodes |-> ns, heads |-> hs]
    BY <1>1
<1>3. /\ StoreHolds(proc[p].store) /\ t # <<>> /\ TodoHolds(t, DOMAIN ns, ledger, DOMAIN disk)
    BY DEF FInv, ProcHolds
<1>. HIDE DEF t, ns, hs
<1>4. IsSeq(t) /\ Head(t) = t[1] /\ 1 \in DOMAIN t
    BY <1>3, TailSeq DEF TodoHolds
<1>5. t[1].file[1] = "node" => \E r \in DOMAIN ledger : t[1].file = NodeFile(r) /\ t[1].text = ledger[r]
    BY <1>3, <1>4 DEF TodoHolds, WritesNodes
<1>6. t[1].file = HeadsFile /\ DOMAIN t[1].text # {} =>
        /\ \A b \in DOMAIN t[1].text : t[1].text[b] \in DOMAIN ns
        /\ \A r \in DOMAIN ns : NodeFile(r) \in DOMAIN disk
    BY <1>3, <1>4 DEF TodoHolds, WritesHeads
<1>. QED BY <1>1, <1>2, <1>3, <1>4, <1>5, <1>6 DEF Doing, t, ns, hs

\* One of the process's files is written, or emptied.
LEMMA DiskWritten ==
  ASSUME FInv, NEW f, NEW text, UNCHANGED ledger, disk' = Put(disk, f, text),
         f[1] = "node" => \E r \in DOMAIN ledger : f = NodeFile(r) /\ text \in {Torn, ledger[r]},
         f = HeadsFile /\ text \notin {Torn, Mixed} /\ DOMAIN text # {} =>
           \E S \in SUBSET DOMAIN ledger :
             /\ \A b \in DOMAIN text : text[b] \in S
             /\ \A r \in S : NodeFile(r) \in DOMAIN disk
             /\ ParentClosed(ledger, S)
  PROVE  DiskSound /\ f \in DOMAIN disk'
<1>1. /\ DOMAIN disk' = DOMAIN disk \cup {f} /\ disk'[f] = text
      /\ \A g \in DOMAIN disk : g # f => disk'[g] = disk[g]
    BY DEF Put
<1>2. IsSeq(ledger)' /\ LedgerGrows /\ DOMAIN disk \subseteq DOMAIN disk'
    BY <1>1 DEF FInv, LedgerGrows
<1>3. NodeFilesHold'
    BY <1>1 DEF FInv, NodeFilesHold
<1>4. HeadsWithin'
  <2>1. CASE f # HeadsFile
      BY <1>1, <1>2, <2>1, HeadsKept
  <2>2. CASE f = HeadsFile /\ (text \in {Torn, Mixed} \/ DOMAIN text = {})
      BY <1>1, <2>2 DEF HeadsWithin
  <2>3. CASE f = HeadsFile /\ text \notin {Torn, Mixed} /\ DOMAIN text # {}
    <3>1. PICK S \in SUBSET DOMAIN ledger :
            /\ \A b \in DOMAIN text : text[b] \in S
            /\ \A r \in S : NodeFile(r) \in DOMAIN disk
            /\ ParentClosed(ledger, S)
        BY <2>3
    <3>2. S \subseteq NodesOnDisk' /\ ParentClosed(ledger, S)'
        BY <1>1, <3>1 DEF NodesOnDisk, Exists, FInv, IsSeq
    <3>. QED BY <1>1, <2>3, <3>1, <3>2 DEF HeadsWithin
  <2>. QED BY <2>1, <2>2, <2>3
<1>. QED BY <1>1, <1>2, <1>3, <1>4 DEF DiskSound

LEMMA OpenKeeps ==
  ASSUME FInv, NEW p \in Proc, Open(p)
  PROVE  FInv'
<1>. DEFINE t == proc[p].todo
            ns == proc[p].store.nodes
            hs == proc[p].store.heads
            st == [nodes |-> ns, heads |-> hs]
<1>1. /\ proc[p].pc = "open" /\ UNCHANGED ledger
      /\ disk' = Put(disk, Head(t).file, Torn)
      /\ proc' = [proc EXCEPT ![p] = Doing("fill", proc[p].cmd, proc[p].store, t)]
    BY DEF Open
<1>2. /\ proc[p] = Doing(proc[p].pc, proc[p].cmd, st, t)
      /\ StoreHolds(st) /\ t # <<>> /\ TodoHolds(t, DOMAIN ns, ledger, DOMAIN disk)
      /\ Head(t).file[1] = "node" => \E r \in DOMAIN ledger : Head(t).file = NodeFile(r)
    BY <1>1, FirstWrite
<1>3. proc' = [proc EXCEPT ![p] = Doing("fill", proc[p].cmd, st, t)]
  <2>1. proc[p].store = st
      BY <1>2 DEF Doing
  <2>. QED BY <1>1, <2>1
<1>. HIDE DEF t, ns, hs
<1>4. DiskSound /\ Head(t).file \in DOMAIN disk'
    BY <1>1, <1>2, DiskWritten
<1>5. TodoHolds(t, DOMAIN ns, ledger', DOMAIN disk')
    BY <1>2, <1>4, TodoStays DEF DiskSound
<1>6. ASSUME NEW nodes, NEW heads, nodes = ns, heads = hs
      PROVE  StoreHolds([nodes |-> nodes, heads |-> heads])'
    BY <1>2, <1>4, <1>6, StoreStays DEF DiskSound
<1>7. ASSUME NEW nodes, NEW heads, nodes = ns, heads = hs PROVE FInv'
  <2>1. StoreHolds([nodes |-> nodes, heads |-> heads])'
      BY <1>6, <1>7
  <2>. QED BY <1>2, <1>3, <1>4, <1>5, <1>7, <2>1, WritingKeeps
<1>. QED BY <1>7

\* After the first write what is left is still in order.
LEMMA RestHolds ==
  ASSUME NEW t, NEW revs, NEW led, NEW files, NEW more, TodoHolds(t, revs, led, files),
         t # <<>>, files \cup {t[1].file} \subseteq more
  PROVE  TodoHolds(Tail(t), revs, led, more)
<1>. DEFINE u == Tail(t)
<1>1. /\ IsSeq(u) /\ 1 \in DOMAIN t
      /\ \A i \in DOMAIN u : i \in Nat /\ i > 0 /\ i + 1 \in DOMAIN t /\ u[i] = t[i + 1]
    BY TailSeq DEF TodoHolds
<1>2. DOMAIN u = 1 .. Len(u) /\ Len(u) \in Nat
    BY <1>1 DEF IsSeq
<1>. HIDE DEF u
<1>3. WritesNodes(u, led)
    BY <1>1 DEF TodoHolds, WritesNodes
<1>4. ASSUME NEW i \in DOMAIN u, u[i].file = HeadsFile, DOMAIN u[i].text # {}
      PROVE  /\ \A b \in DOMAIN u[i].text : u[i].text[b] \in revs
             /\ \A r \in revs : NodeFile(r) \in more \/ \E j \in 1 .. (i - 1) : u[j].file = NodeFile(r)
  <2>1. /\ \A b \in DOMAIN t[i + 1].text : t[i + 1].text[b] \in revs
        /\ \A r \in revs : NodeFile(r) \in files \/ \E j \in 1 .. ((i + 1) - 1) : t[j].file = NodeFile(r)
      BY <1>1, <1>4 DEF TodoHolds, WritesHeads
  <2>2. ASSUME NEW r \in revs, NEW j \in 1 .. ((i + 1) - 1), t[j].file = NodeFile(r), j # 1
        PROVE  \E k \in 1 .. (i - 1) : u[k].file = NodeFile(r)
    <3>1. j - 1 \in 1 .. (i - 1) /\ j - 1 \in DOMAIN u /\ (j - 1) + 1 = j
        BY <1>1, <1>2, <2>2
    <3>2. u[j - 1] = t[j]
        BY <1>1, <3>1
    <3>. QED BY <2>2, <3>1, <3>2
  <2>. QED BY <1>1, <1>4, <2>1, <2>2
<1>5. WritesHeads(u, revs, more)
    BY <1>4 DEF WritesHeads
<1>. QED BY <1>1, <1>3, <1>5 DEF TodoHolds, u

\* What a write leaves where it is not alone.
LEMMA OverwrittenIs ==
  ASSUME NEW f, NEW x, NEW text \in Overwritten(f, x)
  PROVE  /\ text \in {x, Mixed} \/ (f[1] = "schema" /\ text = disk[f])
         /\ disk[f] \in {Torn, x} => text = x
         /\ x # Torn => text # Torn
BY TornAssumption DEF Overwritten

\* The text of a node file is the same whoever writes it.
LEMMA NodeOverwritten ==
  ASSUME FInv, NEW f \in DOMAIN disk, f[1] = "node", NEW x, NEW text \in Overwritten(f, x),
         \E r \in DOMAIN ledger : f = NodeFile(r) /\ x = ledger[r]
  PROVE  text = x
<1>1. PICK r \in DOMAIN ledger : f = NodeFile(r) /\ x = ledger[r]
    OBVIOUS
<1>2. PICK q \in DOMAIN ledger : f = NodeFile(q) /\ disk[f] \in {Torn, ledger[q]}
    BY DEF FInv, NodeFilesHold
<1>3. q = r
    BY <1>1, <1>2 DEF NodeFile
<1>. QED BY <1>1, <1>2, <1>3, OverwrittenIs

LEMMA FillKeeps ==
  ASSUME FInv, NEW p \in Proc, Fill(p)
  PROVE  FInv'
<1>. DEFINE t == proc[p].todo
            ns == proc[p].store.nodes
            hs == proc[p].store.heads
            w == Head(t)
<1>1. /\ proc[p].pc = "fill" /\ UNCHANGED ledger
      /\ \E text \in Overwritten(w.file, w.text) : disk' = Put(disk, w.file, text)
      /\ \/ GiveUp(p)
         \/ /\ Tail(t) # <<>>
            /\ proc' = [proc EXCEPT ![p] = Doing("open", proc[p].cmd, proc[p].store, Tail(t))]
    BY DEF Fill
<1>7. w.file \in DOMAIN disk
    BY <1>1 DEF FInv, ProcHolds, Exists
<1>2. /\ proc[p] = Doing(proc[p].pc, proc[p].cmd, [nodes |-> ns, heads |-> hs], t)
      /\ StoreHolds([nodes |-> ns, heads |-> hs])
      /\ IsSeq(t) /\ t # <<>> /\ TodoHolds(t, DOMAIN ns, ledger, DOMAIN disk)
      /\ w = t[1] /\ 1 \in DOMAIN t
      /\ w.file[1] = "node" => \E r \in DOMAIN ledger : w.file = NodeFile(r) /\ w.text = ledger[r]
      /\ w.file = HeadsFile /\ DOMAIN w.text # {} =>
           /\ \A b \in DOMAIN w.text : w.text[b] \in DOMAIN ns
           /\ \A r \in DOMAIN ns : NodeFile(r) \in DOMAIN disk
    BY <1>1, FirstWrite
<1>3. proc[p].store = [nodes |-> ns, heads |-> hs]
    BY <1>2 DEF Doing
<1>. HIDE DEF t, ns, hs, w
<1>4. DiskSound /\ w.file \in DOMAIN disk'
  <2>1. DOMAIN ns \subseteq DOMAIN ledger /\ ParentClosed(ledger, DOMAIN ns)
      BY <1>2 DEF StoreHolds
  <2>2. w.file = HeadsFile /\ DOMAIN w.text # {} =>
          \E S \in SUBSET DOMAIN ledger :
            /\ \A b \in DOMAIN w.text : w.text[b] \in S
            /\ \A r \in S : NodeFile(r) \in DOMAIN disk
            /\ ParentClosed(ledger, S)
      BY <1>2, <2>1
  <2>3. PICK text \in Overwritten(w.file, w.text) : disk' = Put(disk, w.file, text)
      BY <1>1
  <2>4. w.file[1] = "node" => \E r \in DOMAIN ledger : w.file = NodeFile(r) /\ text \in {Torn, ledger[r]}
      BY <1>2, <1>7, NodeOverwritten
  <2>5. w.file = HeadsFile /\ text # Mixed => text = w.text
      BY OverwrittenIs DEF HeadsFile
  <2>. QED BY <1>1, <2>2, <2>3, <2>4, <2>5, DiskWritten
<1>5. CASE GiveUp(p)
    BY <1>4, <1>5, GiveUpKeeps
<1>6. ASSUME NEW nodes, NEW heads, nodes = ns, heads = hs, Tail(t) # <<>>,
             proc' = [proc EXCEPT ![p] = Doing("open", proc[p].cmd, proc[p].store, Tail(t))]
      PROVE  FInv'
  <2>1. StoreHolds([nodes |-> nodes, heads |-> heads])'
      BY <1>2, <1>4, <1>6, StoreStays DEF DiskSound
  <2>2. TodoHolds(t, DOMAIN ns, ledger', DOMAIN disk')
      BY <1>2, <1>4, TodoStays DEF DiskSound
  <2>3. TodoHolds(Tail(t), DOMAIN nodes, ledger', DOMAIN disk')
      BY <1>2, <1>4, <1>6, <2>2, RestHolds
  <2>. QED BY <1>3, <1>4, <1>6, <2>1, <2>3, WritingKeeps
<1>. QED BY <1>1, <1>5, <1>6

LEMMA CrashKeeps ==
  ASSUME FInv, NEW p \in Proc, Crash(p)
  PROVE  FInv'
BY GiveUpKeeps, NothingChanged DEF Crash

----------------------------------------------------------------------------
(* The theorems.                                                             *)

LEMMA InitFInv == Init => FInv
<1>. SUFFICES ASSUME Init PROVE FInv
    OBVIOUS
<1>1. IsSeq(ledger) /\ DOMAIN disk = {}
    BY DEF Init, None, IsSeq
<1>2. \A p \in Proc : proc[p] = Doing("idle", NoCmd, [nodes |-> None, heads |-> None], <<>>)
    BY DEF Init, Idle, NoStore
<1>3. Shape
    BY <1>2 DEF Init, Shape, Idle, NoStore, Doing
<1>4. NodeFilesHold /\ HeadsWithin
    BY <1>1 DEF NodeFilesHold, HeadsWithin, Exists
<1>5. \A p \in Proc : ProcHolds(p)
    BY <1>2 DEF ProcHolds, StoreHolds, None, ParentClosed, Doing
<1>. QED BY <1>1, <1>3, <1>4, <1>5 DEF FInv

LEMMA FInvInductive == FInv /\ [Next]_vars => FInv'
<1>. SUFFICES ASSUME FInv, [Next]_vars PROVE FInv'
    OBVIOUS
<1>1. CASE UNCHANGED vars
  <2>1. /\ IsSeq(ledger)' /\ Shape' /\ NodeFilesHold' /\ HeadsWithin'
      BY <1>1 DEF FInv, vars, Shape, NodeFilesHold, HeadsWithin, NodesOnDisk, Exists
  <2>2. \A p \in Proc : ProcHolds(p)'
      BY <1>1, ProcKept DEF FInv, vars, LedgerGrows
  <2>. QED BY <2>1, <2>2 DEF FInv
<1>2. ASSUME NEW p \in Proc, NEW cmd \in Commands, Start(p, cmd) PROVE FInv'
    BY <1>2, StartKeeps
<1>3. ASSUME NEW p \in Proc, ReadNodes(p) PROVE FInv'
    BY <1>3, ReadNodesKeeps
<1>4. ASSUME NEW p \in Proc, ReadHeads(p) PROVE FInv'
    BY <1>4, ReadHeadsKeeps
<1>5. ASSUME NEW p \in Proc, Decide(p) PROVE FInv'
    BY <1>5, DecideKeeps
<1>6. ASSUME NEW p \in Proc, Open(p) PROVE FInv'
    BY <1>6, OpenKeeps
<1>7. ASSUME NEW p \in Proc, Fill(p) PROVE FInv'
    BY <1>7, FillKeeps
<1>8. ASSUME NEW p \in Proc, Crash(p) PROVE FInv'
    BY <1>8, CrashKeeps
<1>. QED BY <1>1, <1>2, <1>3, <1>4, <1>5, <1>6, <1>7, <1>8 DEF Next

LEMMA FInvResolves == FInv => HeadsFileResolves
<1>. SUFFICES ASSUME FInv, Exists(HeadsFile), disk[HeadsFile] \notin {Torn, Mixed},
                     NEW b \in DOMAIN disk[HeadsFile]
              PROVE  Ancestors(ledger, disk[HeadsFile][b]) \subseteq NodesOnDisk
    BY DEF HeadsFileResolves
<1>1. PICK S \in SUBSET NodesOnDisk : disk[HeadsFile][b] \in S /\ ParentClosed(ledger, S)
    BY DEF FInv, HeadsWithin
<1>2. NodesOnDisk \subseteq DOMAIN ledger
    BY DEF FInv, NodesOnDisk, IsSeq
<1>3. Ancestors(ledger, disk[HeadsFile][b]) \subseteq S
    BY <1>1, <1>2, AncestorsLeast
<1>. QED BY <1>1, <1>3

\* However many processes write the files at the same time, and wherever they
\* stop, a heads.json that can be read leads only to revisions with a file:
\* persistence.save writes nodes first, and no command removes a node file.
THEOREM HeadsFileAlwaysResolves == Spec => []HeadsFileResolves
<1>1. Init => FInv
    BY InitFInv
<1>2. FInv /\ [Next]_vars => FInv'
    BY FInvInductive
<1>3. FInv => HeadsFileResolves
    BY FInvResolves
<1>. QED BY <1>1, <1>2, <1>3, PTL DEF Spec

----------------------------------------------------------------------------
(* The .schema files stay behind heads.json.                                 *)

\* What a list writes into a .schema file was saved, or is saved on the way.
SchemaWrites(t, revs) ==
  \A i \in DOMAIN t : t[i].file[1] = "schema" =>
    \/ t[i].text \in revs
    \/ \E j \in 1 .. (i - 1) : t[j].file = HeadsFile /\ \E b \in DOMAIN t[j].text : t[j].text[b] = t[i].text

SchemaFilesHold == \A f \in DOMAIN disk : f[1] = "schema" => disk[f] \in {Torn, Mixed} \/ disk[f] \in saved.revs

TodosFollow ==
  \A p \in Proc : proc[p].pc \in {"open", "fill"} => SchemaWrites(proc[p].todo, saved.revs)

SInv == FInv /\ SchemaFilesHold /\ TodosFollow

\* The .schema files of a list come after heads.json in it, and those of one
\* list after heads.json in another.
InOrder(u) ==
  \A i \in DOMAIN u : u[i].file[1] = "schema" =>
    \E j \in 1 .. (i - 1) : u[j].file = HeadsFile /\ \E b \in DOMAIN u[j].text : u[j].text[b] = u[i].text

Follows(c, x) ==
  \A i \in DOMAIN c : c[i].file[1] = "schema" =>
    \E j \in DOMAIN x : x[j].file = HeadsFile /\ \E b \in DOMAIN x[j].text : x[j].text[b] = c[i].text

LEMMA SchemaBehind ==
  ASSUME NEW x, NEW c, IsSeq(x), IsSeq(c), InOrder(x), Follows(c, x)
  PROVE  InOrder(x \o c)
<1>. DEFINE u == x \o c
<1>1. /\ IsSeq(u) /\ Len(x) \in Nat /\ DOMAIN x = 1 .. Len(x)
      /\ \A i \in DOMAIN x : i \in DOMAIN u /\ u[i] = x[i]
      /\ \A i \in DOMAIN c : i \in Nat /\ i > 0 /\ Len(x) + i \in DOMAIN u /\ u[Len(x) + i] = c[i]
      /\ \A i \in DOMAIN u : i \in Nat /\ (i \in DOMAIN x \/ \E j \in DOMAIN c : i = Len(x) + j)
    BY ConcatSeq
<1>. HIDE DEF u
<1>2. ASSUME NEW i \in DOMAIN u, u[i].file[1] = "schema"
      PROVE  \E j \in 1 .. (i - 1) :
               u[j].file = HeadsFile /\ \E b \in DOMAIN u[j].text : u[j].text[b] = u[i].text
  <2>1. CASE i \in DOMAIN x
    <3>1. PICK j \in 1 .. (i - 1) :
            x[j].file = HeadsFile /\ \E b \in DOMAIN x[j].text : x[j].text[b] = x[i].text
        BY <1>1, <1>2, <2>1 DEF InOrder
    <3>2. j \in DOMAIN x
        BY <1>1, <2>1
    <3>. QED BY <1>1, <2>1, <3>1, <3>2
  <2>2. ASSUME NEW k \in DOMAIN c, i = Len(x) + k
        PROVE  \E j \in 1 .. (i - 1) :
                 u[j].file = HeadsFile /\ \E b \in DOMAIN u[j].text : u[j].text[b] = u[i].text
    <3>1. PICK j \in DOMAIN x :
            x[j].file = HeadsFile /\ \E b \in DOMAIN x[j].text : x[j].text[b] = c[k].text
        BY <1>1, <1>2, <2>2 DEF Follows
    <3>2. j \in 1 .. (i - 1)
        BY <1>1, <2>2
    <3>. QED BY <1>1, <2>2, <3>1, <3>2
  <2>. QED BY <1>1, <2>1, <2>2
<1>3. InOrder(u)
    BY <1>2 DEF InOrder
<1>. QED BY <1>3 DEF u

LEMMA SaveHasHeads ==
  ASSUME NEW ns, NEW hs, NEW led, IsSeq(led), DOMAIN ns \subseteq DOMAIN led
  PROVE  /\ IsSeq(SaveWrites(ns, hs))
         /\ \A i \in DOMAIN SaveWrites(ns, hs) : SaveWrites(ns, hs)[i].file[1] # "schema"
         /\ \E i \in DOMAIN SaveWrites(ns, hs) : SaveWrites(ns, hs)[i] = [file |-> HeadsFile, text |-> hs]
<1>. DEFINE s == NodeWrites(ns)
            t == Write(HeadsFile, hs)
            u == s \o t
<1>1. DOMAIN led = 1 .. Len(led) /\ Len(led) \in Nat
    BY DEF IsSeq
<1>2. IsSeq(s) /\ \A i \in DOMAIN s : s[i].file[1] = "node"
    BY <1>1, NodeWritesAll DEF NodeFile
<1>3. IsSeq(t) /\ DOMAIN t = {1} /\ t[1] = [file |-> HeadsFile, text |-> hs]
  <2>1. DOMAIN t = {1} /\ t[1] = [file |-> HeadsFile, text |-> hs] /\ t \in Seq({t[i] : i \in DOMAIN t})
      BY DEF Write
  <2>. QED BY <2>1 DEF IsSeq
<1>. HIDE DEF s, t
<1>4. /\ IsSeq(u) /\ Len(s) \in Nat /\ DOMAIN s = 1 .. Len(s)
      /\ \A i \in DOMAIN s : i \in DOMAIN u /\ u[i] = s[i]
      /\ \A i \in DOMAIN t : i \in Nat /\ i > 0 /\ Len(s) + i \in DOMAIN u /\ u[Len(s) + i] = t[i]
      /\ \A i \in DOMAIN u : i \in Nat /\ (i \in DOMAIN s \/ \E j \in DOMAIN t : i = Len(s) + j)
    BY <1>2, <1>3, ConcatSeq
<1>. HIDE DEF u
<1>5. \A i \in DOMAIN u : u[i].file[1] # "schema"
  <2>1. HeadsFile[1] # "schema"
      BY DEF HeadsFile
  <2>. QED BY <1>2, <1>3, <1>4, <2>1
<1>6. SaveWrites(ns, hs) = u
    BY DEF SaveWrites, s, t, u
<1>. QED BY <1>3, <1>4, <1>5, <1>6

LEMMA OneWrite ==
  ASSUME NEW f, NEW x
  PROVE  IsSeq(Write(f, x)) /\ DOMAIN Write(f, x) = {1} /\ Write(f, x)[1] = [file |-> f, text |-> x]
<1>. DEFINE t == Write(f, x)
<1>1. DOMAIN t = {1} /\ t[1] = [file |-> f, text |-> x] /\ t \in Seq({t[i] : i \in DOMAIN t})
    BY DEF Write
<1>. QED BY <1>1 DEF IsSeq

\* Writes of no .schema file.
Plain(x) == IsSeq(x) /\ \A i \in DOMAIN x : x[i].file[1] # "schema"

Saves(x, hs) == \E i \in DOMAIN x : x[i] = [file |-> HeadsFile, text |-> hs]

LEMMA PlainNothing == Plain(<<>>)
<1>1. DOMAIN <<>> = {} /\ <<>> \in Seq({<<>>[i] : i \in DOMAIN <<>>})
    OBVIOUS
<1>. QED BY <1>1 DEF Plain, IsSeq

LEMMA PlainWrite ==
  ASSUME NEW f, NEW x, f[1] # "schema"
  PROVE  Plain(Write(f, x))
<1>. DEFINE t == Write(f, x)
<1>1. IsSeq(t) /\ DOMAIN t = {1} /\ t[1] = [file |-> f, text |-> x]
    BY OneWrite
<1>. HIDE DEF t
<1>2. Plain(t)
    BY <1>1 DEF Plain
<1>. QED BY <1>2 DEF t

LEMMA PlainConcat ==
  ASSUME NEW x, NEW y, Plain(x), Plain(y), NEW hs
  PROVE  Plain(x \o y) /\ (Saves(y, hs) => Saves(x \o y, hs))
<1>. DEFINE u == x \o y
<1>1. IsSeq(x) /\ IsSeq(y)
    BY DEF Plain
<1>2. /\ IsSeq(u) /\ Len(x) \in Nat /\ DOMAIN x = 1 .. Len(x)
      /\ \A i \in DOMAIN x : i \in DOMAIN u /\ u[i] = x[i]
      /\ \A i \in DOMAIN y : i \in Nat /\ i > 0 /\ Len(x) + i \in DOMAIN u /\ u[Len(x) + i] = y[i]
      /\ \A i \in DOMAIN u : i \in Nat /\ (i \in DOMAIN x \/ \E j \in DOMAIN y : i = Len(x) + j)
    BY <1>1, ConcatSeq
<1>. HIDE DEF u
<1>3. Plain(u)
    BY <1>2 DEF Plain
<1>4. Saves(y, hs) => Saves(u, hs)
    BY <1>2 DEF Saves
<1>. QED BY <1>3, <1>4 DEF u

\* A command renders the .schema file of a head it has saved.
LEMMA WritesFollow ==
  ASSUME NEW cmd, NEW ns, NEW out, NEW led, IsSeq(led), DOMAIN ns \subseteq DOMAIN led, NEW revs,
         out.render # NoBranch => cmd.op # "checkout" /\ out.render \in DOMAIN out.heads
  PROVE  SchemaWrites(Writes(cmd, ns, out), revs)
<1>. DEFINE a == IF cmd.op = "init" /\ ~Exists(HeadsFile) THEN Write(HeadsFile, None) ELSE <<>>
            b == IF cmd.op = "checkout" THEN <<>> ELSE SaveWrites(ns, out.heads)
            c == SyncWrites(out)
            d == SwitchWrites(out)
            x == a \o b
            y == x \o c
            z == y \o d
<1>1. Plain(a)
  <2>1. HeadsFile[1] # "schema"
      BY DEF HeadsFile
  <2>. QED BY <2>1, PlainWrite, PlainNothing
<1>2. Plain(b) /\ (out.render # NoBranch => Saves(b, out.heads))
    BY SaveHasHeads, PlainNothing DEF Plain, Saves
<1>3. c = <<>> \/ /\ out.render # NoBranch
                  /\ c = Write(SchemaFile(out.render), out.heads[out.render])
    BY DEF SyncWrites
<1>4. IsSeq(c) /\ \A i \in DOMAIN c : out.render # NoBranch /\ c[i].text = out.heads[out.render]
  <2>1. CASE c = <<>>
      BY <2>1, PlainNothing DEF Plain
  <2>2. CASE c # <<>>
    <3>1. out.render # NoBranch /\ c = Write(SchemaFile(out.render), out.heads[out.render])
        BY <1>3, <2>2
    <3>2. /\ IsSeq(c) /\ DOMAIN c = {1}
          /\ c[1] = [file |-> SchemaFile(out.render), text |-> out.heads[out.render]]
        BY <3>1, OneWrite
    <3>. HIDE DEF c
    <3>. QED BY <3>1, <3>2
  <2>. QED BY <2>1, <2>2
<1>5. Plain(d)
  <2>1. HeadFile[1] # "schema"
      BY DEF HeadFile
  <2>. QED BY <2>1, PlainWrite, PlainNothing DEF SwitchWrites
<1>6. Writes(cmd, ns, out) = z
    BY DEF Writes
<1>. HIDE DEF a, b, c, d
<1>7. Plain(x) /\ (out.render # NoBranch => Saves(x, out.heads))
    BY <1>1, <1>2, PlainConcat
<1>8. IsSeq(y)
  <2>1. IsSeq(x)
      BY <1>7 DEF Plain
  <2>. HIDE DEF x
  <2>. QED BY <1>4, <2>1, ConcatSeq
<1>9. InOrder(y)
  <2>. HIDE DEF x
  <2>1. IsSeq(x) /\ InOrder(x)
      BY <1>7 DEF Plain, InOrder
  <2>2. Follows(c, x)
      BY <1>4, <1>7 DEF Saves, Follows
  <2>. QED BY <1>4, <2>1, <2>2, SchemaBehind
<1>10. InOrder(z)
  <2>. HIDE DEF y
  <2>1. IsSeq(d) /\ Follows(d, y)
      BY <1>5 DEF Plain, Follows
  <2>. QED BY <1>8, <1>9, <2>1, SchemaBehind
<1>. HIDE DEF z
<1>. QED BY <1>6, <1>10 DEF SchemaWrites, InOrder

LEMMA SchemaStays ==
  ASSUME NEW t, NEW revs, NEW more, SchemaWrites(t, revs), revs \subseteq more
  PROVE  SchemaWrites(t, more)
BY DEF SchemaWrites

\* What is left to write after the first file.
LEMMA SchemaRest ==
  ASSUME NEW t, IsSeq(t), t # <<>>, NEW revs, NEW more, SchemaWrites(t, revs), revs \subseteq more,
         t[1].file = HeadsFile => \A b \in DOMAIN t[1].text : t[1].text[b] \in more
  PROVE  SchemaWrites(Tail(t), more)
<1>. DEFINE u == Tail(t)
<1>1. /\ IsSeq(u) /\ 1 \in DOMAIN t /\ Head(t) = t[1]
      /\ \A i \in DOMAIN u : i \in Nat /\ i > 0 /\ i + 1 \in DOMAIN t /\ u[i] = t[i + 1]
    BY TailSeq
<1>2. DOMAIN u = 1 .. Len(u) /\ Len(u) \in Nat
    BY <1>1 DEF IsSeq
<1>. HIDE DEF u
<1>3. ASSUME NEW i \in DOMAIN u, u[i].file[1] = "schema", u[i].text \notin more
      PROVE  \E j \in 1 .. (i - 1) :
               u[j].file = HeadsFile /\ \E b \in DOMAIN u[j].text : u[j].text[b] = u[i].text
  <2>1. PICK j \in 1 .. ((i + 1) - 1) :
          t[j].file = HeadsFile /\ \E b \in DOMAIN t[j].text : t[j].text[b] = u[i].text
      BY <1>1, <1>3 DEF SchemaWrites
  <2>2. j # 1
      BY <1>3, <2>1
  <2>3. j - 1 \in 1 .. (i - 1) /\ j - 1 \in DOMAIN u /\ (j - 1) + 1 = j
      BY <1>1, <1>2, <2>2
  <2>4. u[j - 1] = t[j]
      BY <1>1, <2>3
  <2>. QED BY <2>1, <2>3, <2>4
<1>4. SchemaWrites(u, more)
    BY <1>3 DEF SchemaWrites
<1>. QED BY <1>4 DEF u

\* A step that writes no file and leaves one process without a list of its own.
LEMMA QuietFollows ==
  ASSUME SInv, NEW p \in Proc, UNCHANGED <<disk, saved>>,
         \A q \in Proc : q # p => proc'[q] = proc[q],
         proc'[p].pc \in {"open", "fill"} => SchemaWrites(proc'[p].todo, saved.revs)
  PROVE  SchemaFilesHold' /\ TodosFollow'
BY DEF SInv, SchemaFilesHold, TodosFollow

LEMMA DecideFollows ==
  ASSUME SInv, NEW p \in Proc, Decide(p), ~GiveUp(p)
  PROVE  SchemaFilesHold' /\ TodosFollow'
<1>. DEFINE cmd == proc[p].cmd
            s == proc[p].store
<1>1. PICK out \in Outcomes(cmd, s) :
        LET node == [parents |-> out.node, branch |-> cmd.b]
            ns == IF out.node = NoNode THEN s.nodes ELSE Put(s.nodes, NewRev, node)
        IN  /\ ledger' = IF out.node = NoNode THEN ledger ELSE Append(ledger, node)
            /\ proc' = [proc EXCEPT ![p] =
                          Doing("open", cmd, [nodes |-> ns, heads |-> out.heads], Writes(cmd, ns, out))]
    BY DEF Decide
<1>2. proc[p].pc = "decide" /\ UNCHANGED <<disk, saved>>
    BY DEF Decide
<1>. DEFINE node == [parents |-> out.node, branch |-> cmd.b]
            ns == IF out.node = NoNode THEN s.nodes ELSE Put(s.nodes, NewRev, node)
            v == Doing("open", cmd, [nodes |-> ns, heads |-> out.heads], Writes(cmd, ns, out))
<1>3. StoreHolds(s) /\ cmd.b \in Branch /\ IsSeq(ledger)
    BY <1>2 DEF SInv, FInv, ProcHolds
<1>4. DOMAIN s.nodes \subseteq DOMAIN ledger /\ \A b \in DOMAIN s.heads : s.heads[b] \in DOMAIN s.nodes
    BY <1>3 DEF StoreHolds
<1>5. out.render # NoBranch => cmd.op # "checkout" /\ out.render \in DOMAIN out.heads
    BY <1>3, <1>4, OutcomeHolds
<1>6. IsSeq(Append(ledger, node)) /\ DOMAIN ns \subseteq DOMAIN Append(ledger, node)
    BY <1>3, <1>4, AppendSeq DEF Put, NewRev
<1>7. SchemaWrites(Writes(cmd, ns, out), saved.revs)
    BY <1>5, <1>6, WritesFollow
<1>8. proc'[p] = v /\ \A q \in Proc : q # p => proc'[q] = proc[q]
    BY <1>1 DEF SInv, FInv, Shape
<1>9. proc'[p].todo = Writes(cmd, ns, out)
    BY <1>8 DEF Doing
<1>. HIDE DEF cmd, s, node, ns, v
<1>. QED BY <1>2, <1>7, <1>8, <1>9, QuietFollows

\* A step that writes a file.
LEMMA DiskFollows ==
  ASSUME SInv, NEW p \in Proc, NEW f, NEW text, disk' = Put(disk, f, text),
         \A q \in Proc : q # p => proc'[q] = proc[q], saved.revs \subseteq saved'.revs,
         f[1] = "schema" => text \in {Torn, Mixed} \/ text \in saved'.revs,
         proc'[p].pc \in {"open", "fill"} => SchemaWrites(proc'[p].todo, saved'.revs)
  PROVE  SchemaFilesHold' /\ TodosFollow'
<1>1. SchemaFilesHold'
    BY DEF SInv, SchemaFilesHold, Put
<1>2. ASSUME NEW q \in Proc, proc'[q].pc \in {"open", "fill"}, q # p
      PROVE  SchemaWrites(proc'[q].todo, saved'.revs)
  <2>1. SchemaWrites(proc[q].todo, saved.revs)
      BY <1>2 DEF SInv, TodosFollow
  <2>. QED BY <1>2, <2>1, SchemaStays
<1>. QED BY <1>1, <1>2 DEF TodosFollow

LEMMA OpenFollows ==
  ASSUME SInv, NEW p \in Proc, Open(p)
  PROVE  SchemaFilesHold' /\ TodosFollow'
<1>. DEFINE t == proc[p].todo
            v == Doing("fill", proc[p].cmd, proc[p].store, t)
<1>1. /\ proc[p].pc = "open" /\ UNCHANGED saved
      /\ disk' = Put(disk, Head(t).file, Torn) /\ proc' = [proc EXCEPT ![p] = v]
    BY DEF Open
<1>2. proc'[p] = v /\ \A q \in Proc : q # p => proc'[q] = proc[q]
    BY <1>1 DEF SInv, FInv, Shape
<1>3. proc'[p].todo = t
    BY <1>2 DEF Doing
<1>4. SchemaWrites(t, saved.revs)
    BY <1>1 DEF SInv, TodosFollow
<1>. HIDE DEF t, v
<1>. QED BY <1>1, <1>2, <1>3, <1>4, DiskFollows

LEMMA FillFollows ==
  ASSUME SInv, NEW p \in Proc, Fill(p)
  PROVE  SchemaFilesHold' /\ TodosFollow'
<1>. DEFINE t == proc[p].todo
            ns == proc[p].store.nodes
            w == Head(t)
            v == Doing("open", proc[p].cmd, proc[p].store, Tail(t))
            reached == UNION {Ancestors(ns, w.text[b]) : b \in DOMAIN w.text}
<1>1. /\ proc[p].pc = "fill"
      /\ \E text \in Overwritten(w.file, w.text) : disk' = Put(disk, w.file, text)
      /\ GiveUp(p) \/ proc' = [proc EXCEPT ![p] = v]
      /\ saved' = IF w.file # HeadsFile THEN saved
                  ELSE [heads |-> w.text, revs |-> saved.revs \cup reached]
    BY DEF Fill
<1>2. /\ IsSeq(t) /\ t # <<>> /\ w = t[1] /\ 1 \in DOMAIN t
      /\ w.file = HeadsFile /\ DOMAIN w.text # {} => \A b \in DOMAIN w.text : w.text[b] \in DOMAIN ns
    BY <1>1, FirstWrite DEF SInv
<1>3. SchemaWrites(t, saved.revs)
    BY <1>1 DEF SInv, TodosFollow
<1>4. saved.revs \subseteq saved'.revs /\ (w.file = HeadsFile => reached \subseteq saved'.revs)
    BY <1>1
<1>5. w.file = HeadsFile => \A b \in DOMAIN w.text : w.text[b] \in saved'.revs
    BY <1>2, <1>4, AncestorsSelf
<1>6. w.file[1] = "schema" => w.text \in saved.revs
    BY <1>2, <1>3 DEF SchemaWrites
<1>7. SchemaWrites(Tail(t), saved'.revs)
    BY <1>2, <1>3, <1>4, <1>5, SchemaRest
<1>8. \/ proc'[p] = v
      \/ proc'[p] = Idle
    BY <1>1 DEF GiveUp, SInv, FInv, Shape
<1>9. \A q \in Proc : q # p => proc'[q] = proc[q]
    BY <1>1 DEF GiveUp, SInv, FInv, Shape
<1>10. proc'[p].pc \in {"open", "fill"} => proc'[p].todo = Tail(t)
  <2>1. CASE proc'[p] = Idle
    <3>1. proc'[p].pc = "idle"
        BY <2>1 DEF Idle, Doing
    <3>. QED BY <3>1
  <2>2. CASE proc'[p] = v
    <3>. HIDE DEF t
    <3>. QED BY <2>2 DEF Doing
  <2>. QED BY <1>8, <2>1, <2>2
<1>. HIDE DEF t, ns, w, v, reached
<1>11. PICK text \in Overwritten(w.file, w.text) : disk' = Put(disk, w.file, text)
    BY <1>1
<1>12. w.file \in DOMAIN disk
    BY <1>1 DEF SInv, FInv, ProcHolds, Exists, t, w
<1>13. w.file[1] = "schema" => text \in {Torn, Mixed} \/ text \in saved'.revs
  <2>1. w.file[1] = "schema" => disk[w.file] \in {Torn, Mixed} \/ disk[w.file] \in saved.revs
      BY <1>12 DEF SInv, SchemaFilesHold
  <2>. QED BY <1>4, <1>6, <2>1, OverwrittenIs
<1>. QED BY <1>4, <1>7, <1>9, <1>10, <1>11, <1>13, DiskFollows

LEMMA SInvInductive == SInv /\ [Next]_vars => SInv'
<1>. SUFFICES ASSUME SInv, [Next]_vars PROVE SInv'
    OBVIOUS
<1>1. FInv'
    BY FInvInductive DEF SInv
<1>2. ASSUME NEW p \in Proc, NEW v, proc' = [proc EXCEPT ![p] = v]
      PROVE  proc'[p] = v /\ \A q \in Proc : q # p => proc'[q] = proc[q]
    BY <1>2 DEF SInv, FInv, Shape
<1>3. ASSUME NEW p \in Proc, GiveUp(p), UNCHANGED <<disk, saved>>
      PROVE  SchemaFilesHold' /\ TodosFollow'
  <2>1. proc'[p] = Idle /\ \A q \in Proc : q # p => proc'[q] = proc[q]
      BY <1>2, <1>3 DEF GiveUp
  <2>2. proc'[p].pc = "idle"
      BY <2>1 DEF Idle, Doing
  <2>. QED BY <1>3, <2>1, <2>2, QuietFollows
<1>4. ASSUME NEW p \in Proc, NEW pc \in {"nodes", "heads", "decide"}, NEW cmd, NEW store, NEW todo,
             proc' = [proc EXCEPT ![p] = Doing(pc, cmd, store, todo)], UNCHANGED <<disk, saved>>
      PROVE  SchemaFilesHold' /\ TodosFollow'
  <2>1. proc'[p] = Doing(pc, cmd, store, todo) /\ \A q \in Proc : q # p => proc'[q] = proc[q]
      BY <1>2, <1>4
  <2>2. proc'[p].pc = pc
      BY <2>1 DEF Doing
  <2>. QED BY <1>4, <2>1, <2>2, QuietFollows
<1>5. CASE UNCHANGED vars
    BY <1>1, <1>5 DEF SInv, SchemaFilesHold, TodosFollow, vars
<1>6. ASSUME NEW p \in Proc, NEW cmd \in Commands, Start(p, cmd) PROVE SchemaFilesHold' /\ TodosFollow'
    BY <1>4, <1>6 DEF Start
<1>7. ASSUME NEW p \in Proc, ReadNodes(p) PROVE SchemaFilesHold' /\ TodosFollow'
    BY <1>3, <1>4, <1>7 DEF ReadNodes
<1>8. ASSUME NEW p \in Proc, ReadHeads(p) PROVE SchemaFilesHold' /\ TodosFollow'
    BY <1>3, <1>4, <1>8 DEF ReadHeads
<1>9. ASSUME NEW p \in Proc, Crash(p) PROVE SchemaFilesHold' /\ TodosFollow'
    BY <1>3, <1>9 DEF Crash
<1>10. ASSUME NEW p \in Proc, Decide(p) PROVE SchemaFilesHold' /\ TodosFollow'
    BY <1>3, <1>10, DecideFollows DEF Decide
<1>11. ASSUME NEW p \in Proc, Open(p) PROVE SchemaFilesHold' /\ TodosFollow'
    BY <1>11, OpenFollows
<1>12. ASSUME NEW p \in Proc, Fill(p) PROVE SchemaFilesHold' /\ TodosFollow'
    BY <1>12, FillFollows
<1>. QED BY <1>1, <1>5, <1>6, <1>7, <1>8, <1>9, <1>10, <1>11, <1>12 DEF SInv, Next

\* However the processes interleave and wherever they stop or raise, a .schema
\* file that is neither torn nor a mix of two texts shows a revision that heads
\* written to heads.json before it lead to: sync_model_file comes after save in
\* every command, and checkout renders nothing.
THEOREM SchemaAlwaysFollowsHeads == Spec => []SchemaFollowsHeads
<1>1. Init => SInv
    BY InitFInv DEF Init, None, Idle, Doing, SInv, SchemaFilesHold, TodosFollow
<1>2. SInv /\ [Next]_vars => SInv'
    BY SInvInductive
<1>3. SInv => SchemaFollowsHeads
    BY DEF SInv, SchemaFilesHold, SchemaFollowsHeads, Exists, SchemaFile
<1>. QED BY <1>1, <1>2, <1>3, PTL DEF Spec

----------------------------------------------------------------------------
(* What the files hold, and that they can be loaded.                         *)

\* What heads.json holds, and the heads in a process's memory.
HeadMap(hs) == \E S \in SUBSET Branch : hs \in [S -> Nat]

\* A write that a command makes: which file gets what.
Known(w) ==
  \/ w.file[1] = "node"
  \/ w.file = HeadsFile /\ HeadMap(w.text)
  \/ w.file[1] = "schema" /\ w.file[2] \in Branch
  \/ w.file = HeadFile /\ w.text \in Branch

\* In a list of writes the parents of a node come before it, if they have no
\* file yet.
ParentsFirst(t, led, files) ==
  \A i \in DOMAIN t : \A r \in DOMAIN led : t[i].file = NodeFile(r) =>
    \A q \in ParentsOf(led, r) :
      NodeFile(q) \in files \/ \E j \in 1 .. (i - 1) : t[j].file = NodeFile(q)

Ready(t, led, files) ==
  IsSeq(t) /\ (\A i \in DOMAIN t : Known(t[i])) /\ ParentsFirst(t, led, files)

ProcKnown(p) ==
  /\ proc[p].pc \in Pc
  /\ HeadMap(proc[p].store.heads)
  /\ \/ proc[p].pc \in {"nodes", "heads"}
     \/ proc[p].pc = "decide" /\ proc[p].cmd.op # "init"
     => DOMAIN disk # {}
  /\ proc[p].pc \in {"open", "fill"} =>
       /\ Ready(proc[p].todo, ledger, DOMAIN disk)
       /\ Exists(HeadsFile) \/ proc[p].todo[1].file = HeadsFile

LedgerKnown ==
  /\ Len(ledger) <= MaxRevs
  /\ \A r \in DOMAIN ledger : ledger[r] \in [parents : Seq(1 .. (r - 1)), branch : Branch]

FilesKnown ==
  \A f \in DOMAIN disk : disk[f] \in {Torn, Mixed} \/ Known([file |-> f, text |-> disk[f]])

\* Until a process stops in the middle, a torn file is about to be filled.
TornHeld ==
  crashes = 0 =>
    \A f \in DOMAIN disk : disk[f] = Torn =>
      \E p \in Proc : proc[p].pc = "fill" /\ proc[p].todo[1].file = f

LInv ==
  /\ SInv
  /\ LedgerKnown /\ FilesKnown /\ saved.revs \subseteq DOMAIN ledger
  /\ crashes \in 0 .. MaxCrashes
  /\ ParentClosed(ledger, NodesOnDisk)
  /\ DOMAIN disk # {} => Exists(HeadsFile)
  /\ \A p \in Proc : ProcKnown(p)
  /\ TornHeld

----------------------------------------------------------------------------
(* Lists of writes.                                                          *)

LEMMA ReadyConcat ==
  ASSUME NEW s, NEW t, NEW led, NEW files, Ready(s, led, files), Ready(t, led, files)
  PROVE  Ready(s \o t, led, files)
<1> DEFINE u == s \o t
<1>1. IsSeq(s) /\ IsSeq(t)
    BY DEF Ready
<1>2. /\ IsSeq(u) /\ Len(s) \in Nat /\ DOMAIN s = 1 .. Len(s)
      /\ \A i \in DOMAIN s : i \in DOMAIN u /\ u[i] = s[i]
      /\ \A i \in DOMAIN t : i \in Nat /\ i > 0 /\ Len(s) + i \in DOMAIN u /\ u[Len(s) + i] = t[i]
      /\ \A i \in DOMAIN u : i \in Nat /\ (i \in DOMAIN s \/ \E j \in DOMAIN t : i = Len(s) + j)
    BY <1>1, ConcatSeq
<1> HIDE DEF u
<1>3. \A i \in DOMAIN u : Known(u[i])
  <2>1. (\A i \in DOMAIN s : Known(s[i])) /\ (\A i \in DOMAIN t : Known(t[i]))
      BY DEF Ready
  <2>. QED BY <1>2, <2>1
<1>4. ASSUME NEW i \in DOMAIN u, NEW r \in DOMAIN led, u[i].file = NodeFile(r),
             NEW q \in ParentsOf(led, r)
      PROVE  NodeFile(q) \in files \/ \E j \in 1 .. (i - 1) : u[j].file = NodeFile(q)
  <2>1. CASE i \in DOMAIN s
    <3>1. \A j \in 1 .. (i - 1) : j \in DOMAIN s /\ u[j] = s[j]
        BY <1>2, <2>1
    <3>. QED BY <1>2, <1>4, <2>1, <3>1 DEF Ready, ParentsFirst
  <2>2. ASSUME NEW k \in DOMAIN t, i = Len(s) + k
        PROVE  NodeFile(q) \in files \/ \E j \in 1 .. (i - 1) : u[j].file = NodeFile(q)
    <3>1. u[i] = t[k]
        BY <1>2, <2>2
    <3>2. NodeFile(q) \in files \/ \E j \in 1 .. (k - 1) : t[j].file = NodeFile(q)
        BY <1>4, <3>1 DEF Ready, ParentsFirst
    <3>3. ASSUME NEW j \in 1 .. (k - 1)
          PROVE  Len(s) + j \in 1 .. (i - 1) /\ u[Len(s) + j] = t[j]
      <4>1. DOMAIN t = 1 .. Len(t) /\ Len(t) \in Nat
          BY <1>1 DEF IsSeq
      <4>2. j \in DOMAIN t /\ k \in Nat
          BY <4>1
      <4>. QED BY <1>2, <2>2, <4>1, <4>2
    <3>. QED BY <3>2, <3>3
  <2>. QED BY <1>2, <2>1, <2>2
<1>5. ParentsFirst(u, led, files)
    BY <1>4 DEF ParentsFirst
<1>. QED BY <1>2, <1>3, <1>5 DEF Ready, u

LEMMA ReadyWrite ==
  ASSUME NEW f, NEW x, NEW led, NEW files, f[1] # "node", Known([file |-> f, text |-> x])
  PROVE  Ready(Write(f, x), led, files)
<1>. DEFINE t == Write(f, x)
<1>1. IsSeq(t) /\ DOMAIN t = {1} /\ t[1] = [file |-> f, text |-> x]
    BY OneWrite
<1>2. \A r : t[1].file # NodeFile(r)
    BY <1>1 DEF NodeFile
<1>. HIDE DEF t
<1>3. ParentsFirst(t, led, files)
    BY <1>1, <1>2 DEF ParentsFirst
<1>4. \A i \in DOMAIN t : Known(t[i])
    BY <1>1
<1>5. Ready(t, led, files)
    BY <1>1, <1>3, <1>4 DEF Ready
<1>. QED BY <1>5 DEF t

LEMMA ReadyNothing ==
  ASSUME NEW led, NEW files
  PROVE  Ready(<<>>, led, files)
<1>1. DOMAIN <<>> = {} /\ <<>> \in Seq({<<>>[i] : i \in DOMAIN <<>>})
    OBVIOUS
<1>. QED BY <1>1 DEF Ready, IsSeq, ParentsFirst

\* persistence.save writes the nodes of a store in the order of their creation.
LEMMA SaveReady ==
  ASSUME NEW ns, NEW hs, NEW led, IsSeq(led), NEW files, DOMAIN ns \subseteq DOMAIN led,
         ParentClosed(led, DOMAIN ns), \A r \in DOMAIN led : ParentsOf(led, r) \subseteq 1 .. (r - 1),
         HeadMap(hs)
  PROVE  Ready(SaveWrites(ns, hs), led, files)
<1> DEFINE s == NodeWrites(ns)
<1>1. DOMAIN led = 1 .. Len(led) /\ Len(led) \in Nat
    BY DEF IsSeq
<1>2. /\ IsSeq(s)
      /\ \A i \in DOMAIN s : \E r \in DOMAIN ns : s[i] = [file |-> NodeFile(r), text |-> ns[r]]
      /\ \A i \in DOMAIN s : \A r, q \in DOMAIN ns :
           s[i].file = NodeFile(r) /\ q < r => \E j \in 1 .. (i - 1) : s[j].file = NodeFile(q)
    BY <1>1, NodeWritesAll
<1>. HIDE DEF s
<1>3. \A i \in DOMAIN s : Known(s[i])
    BY <1>2 DEF Known, NodeFile
<1>4. ParentsFirst(s, led, files)
  <2> SUFFICES ASSUME NEW i \in DOMAIN s, NEW r \in DOMAIN led, s[i].file = NodeFile(r),
                      NEW q \in ParentsOf(led, r)
               PROVE  \E j \in 1 .. (i - 1) : s[j].file = NodeFile(q)
      BY DEF ParentsFirst
  <2>1. r \in DOMAIN ns
      BY <1>2 DEF NodeFile
  <2>2. q \in DOMAIN ns /\ q < r
      BY <1>1, <2>1 DEF ParentClosed
  <2>. QED BY <1>2, <2>1, <2>2
<1>5. Ready(s, led, files)
    BY <1>2, <1>3, <1>4 DEF Ready
<1>6. Ready(Write(HeadsFile, hs), led, files)
  <2>1. HeadsFile[1] # "node"
      BY DEF HeadsFile
  <2>2. Known([file |-> HeadsFile, text |-> hs])
      BY DEF Known
  <2>. QED BY <2>1, <2>2, ReadyWrite
<1>. QED BY <1>5, <1>6, ReadyConcat DEF SaveWrites, s

\* The writes of a command; where there is no heads.json yet, init makes one
\* before anything else.
LEMMA WritesReady ==
  ASSUME NEW cmd, NEW ns, NEW out, NEW led, IsSeq(led), NEW files, DOMAIN ns \subseteq DOMAIN led,
         ParentClosed(led, DOMAIN ns), \A r \in DOMAIN led : ParentsOf(led, r) \subseteq 1 .. (r - 1),
         HeadMap(out.heads),
         out.render \in Branch \cup {NoBranch}, out.switch \in Branch \cup {NoBranch}
  PROVE  /\ Ready(Writes(cmd, ns, out), led, files)
         /\ cmd.op = "init" /\ ~Exists(HeadsFile) => Writes(cmd, ns, out)[1].file = HeadsFile
<1>. DEFINE a == IF cmd.op = "init" /\ ~Exists(HeadsFile) THEN Write(HeadsFile, None) ELSE <<>>
            b == IF cmd.op = "checkout" THEN <<>> ELSE SaveWrites(ns, out.heads)
            c == SyncWrites(out)
            d == SwitchWrites(out)
<1>1. Ready(a, led, files)
  <2>1. HeadsFile[1] # "node"
      BY DEF HeadsFile
  <2>2. None \in [{} -> Nat]
      BY DEF None
  <2>3. Known([file |-> HeadsFile, text |-> None])
      BY <2>2 DEF Known, HeadMap
  <2>. QED BY <2>1, <2>3, ReadyWrite, ReadyNothing
<1>2. Ready(b, led, files)
    BY SaveReady, ReadyNothing
<1>3. Ready(c, led, files)
  <2>1. CASE out.render \in Branch
    <3>1. SchemaFile(out.render)[1] = "schema" /\ SchemaFile(out.render)[2] = out.render
        BY DEF SchemaFile
    <3>2. Known([file |-> SchemaFile(out.render), text |-> out.heads[out.render]])
        BY <2>1, <3>1 DEF Known
    <3>. QED BY <3>1, <3>2, ReadyWrite, ReadyNothing DEF SyncWrites
  <2>2. CASE out.render = NoBranch
      BY <2>2, ReadyNothing DEF SyncWrites
  <2>. QED BY <2>1, <2>2
<1>4. Ready(d, led, files)
  <2>1. CASE out.switch \in Branch
    <3>1. HeadFile[1] # "node"
        BY DEF HeadFile
    <3>2. Known([file |-> HeadFile, text |-> out.switch])
        BY <2>1 DEF Known
    <3>. QED BY <3>1, <3>2, ReadyWrite, ReadyNothing DEF SwitchWrites
  <2>2. CASE out.switch = NoBranch
      BY <2>2, ReadyNothing DEF SwitchWrites
  <2>. QED BY <2>1, <2>2
<1>5. Writes(cmd, ns, out) = ((a \o b) \o c) \o d
    BY DEF Writes
<1>6. ASSUME cmd.op = "init", ~Exists(HeadsFile)
      PROVE  1 \in DOMAIN a /\ a[1].file = HeadsFile
  <2>1. a = Write(HeadsFile, None)
      BY <1>6
  <2>2. /\ DOMAIN Write(HeadsFile, None) = {1}
        /\ Write(HeadsFile, None)[1] = [file |-> HeadsFile, text |-> None]
      BY OneWrite
  <2>. HIDE DEF a
  <2>. QED BY <2>1, <2>2
<1>. HIDE DEF a, b, c, d
<1>7. Ready(a \o b, led, files)
    BY <1>1, <1>2, ReadyConcat
<1>8. Ready((a \o b) \o c, led, files)
    BY <1>3, <1>7, ReadyConcat
<1>9. Ready(((a \o b) \o c) \o d, led, files)
    BY <1>4, <1>8, ReadyConcat
<1>10. 1 \in DOMAIN a => (((a \o b) \o c) \o d)[1] = a[1]
  <2>1. IsSeq(a) /\ IsSeq(b) /\ IsSeq(c) /\ IsSeq(d) /\ IsSeq(a \o b) /\ IsSeq((a \o b) \o c)
      BY <1>1, <1>2, <1>3, <1>4, <1>7, <1>8 DEF Ready
  <2>2. 1 \in DOMAIN a => 1 \in DOMAIN (a \o b) /\ (a \o b)[1] = a[1]
      BY <2>1, ConcatSeq
  <2>. DEFINE x == a \o b
  <2>. HIDE DEF x
  <2>3. 1 \in DOMAIN x => 1 \in DOMAIN (x \o c) /\ (x \o c)[1] = x[1]
      BY <2>1, ConcatSeq DEF x
  <2>. DEFINE y == x \o c
  <2>. HIDE DEF y
  <2>4. 1 \in DOMAIN y => (y \o d)[1] = y[1]
      BY <2>1, ConcatSeq DEF x, y
  <2>. QED BY <2>2, <2>3, <2>4 DEF x, y
<1>. QED BY <1>5, <1>6, <1>9, <1>10

LEMMA RestReady ==
  ASSUME NEW t, NEW led, NEW files, NEW more, Ready(t, led, files), t # <<>>,
         files \cup {t[1].file} \subseteq more
  PROVE  Ready(Tail(t), led, more)
<1>. DEFINE u == Tail(t)
<1>1. /\ IsSeq(u) /\ 1 \in DOMAIN t
      /\ \A i \in DOMAIN u : i \in Nat /\ i > 0 /\ i + 1 \in DOMAIN t /\ u[i] = t[i + 1]
    BY TailSeq DEF Ready
<1>2. DOMAIN u = 1 .. Len(u) /\ Len(u) \in Nat
    BY <1>1 DEF IsSeq
<1>. HIDE DEF u
<1>3. \A i \in DOMAIN u : Known(u[i])
    BY <1>1 DEF Ready
<1>4. ASSUME NEW i \in DOMAIN u, NEW r \in DOMAIN led, u[i].file = NodeFile(r),
             NEW q \in ParentsOf(led, r)
      PROVE  NodeFile(q) \in more \/ \E j \in 1 .. (i - 1) : u[j].file = NodeFile(q)
  <2>1. NodeFile(q) \in files \/ \E j \in 1 .. ((i + 1) - 1) : t[j].file = NodeFile(q)
      BY <1>1, <1>4 DEF Ready, ParentsFirst
  <2>2. ASSUME NEW j \in 1 .. ((i + 1) - 1), t[j].file = NodeFile(q), j # 1
        PROVE  \E k \in 1 .. (i - 1) : u[k].file = NodeFile(q)
    <3>1. j - 1 \in 1 .. (i - 1) /\ j - 1 \in DOMAIN u /\ (j - 1) + 1 = j
        BY <1>1, <1>2, <2>2
    <3>2. u[j - 1] = t[j]
        BY <1>1, <3>1
    <3>. QED BY <2>2, <3>1, <3>2
  <2>. QED BY <1>1, <1>4, <2>1, <2>2
<1>5. ParentsFirst(u, led, more)
    BY <1>4 DEF ParentsFirst
<1>. QED BY <1>1, <1>3, <1>5 DEF Ready, u

\* A list stays ready when others write files and make nodes.
LEMMA ReadyStays ==
  ASSUME NEW t, NEW led, NEW files, NEW grown, NEW more, Ready(t, led, files), WritesNodes(t, led),
         \A r \in DOMAIN led : r \in DOMAIN grown /\ grown[r] = led[r], files \subseteq more
  PROVE  Ready(t, grown, more)
<1>1. ASSUME NEW i \in DOMAIN t, NEW r \in DOMAIN grown, t[i].file = NodeFile(r),
             NEW q \in ParentsOf(grown, r)
      PROVE  NodeFile(q) \in more \/ \E j \in 1 .. (i - 1) : t[j].file = NodeFile(q)
  <2>1. t[i].file[1] = "node"
      BY <1>1 DEF NodeFile
  <2>2. PICK x \in DOMAIN led : t[i].file = NodeFile(x)
      BY <2>1 DEF WritesNodes
  <2>3. x = r
      BY <1>1, <2>2 DEF NodeFile
  <2>4. q \in ParentsOf(led, r)
      BY <1>1, <2>2, <2>3 DEF ParentsOf
  <2>. QED BY <1>1, <2>2, <2>3, <2>4 DEF Ready, ParentsFirst
<1>2. ParentsFirst(t, grown, more)
    BY <1>1 DEF ParentsFirst
<1>. QED BY <1>2 DEF Ready

----------------------------------------------------------------------------
(* What a command decides.                                                   *)

LEMMA PutHead ==
  ASSUME NEW hs, HeadMap(hs), NEW b \in Branch, NEW r \in Nat
  PROVE  HeadMap(Put(hs, b, r))
<1>1. PICK S \in SUBSET Branch : hs \in [S -> Nat]
    BY DEF HeadMap
<1>2. S \cup {b} \in SUBSET Branch
    BY <1>1
<1>3. Put(hs, b, r) \in [S \cup {b} -> Nat]
    BY <1>1 DEF Put
<1>. QED BY <1>2, <1>3 DEF HeadMap

LEMMA RemoveHead ==
  ASSUME NEW hs, HeadMap(hs), NEW b
  PROVE  HeadMap(Remove(hs, b))
<1>1. PICK S \in SUBSET Branch : hs \in [S -> Nat]
    BY DEF HeadMap
<1>2. S \ {b} \in SUBSET Branch
    BY <1>1
<1>3. Remove(hs, b) \in [S \ {b} -> Nat]
    BY <1>1 DEF Remove
<1>. QED BY <1>2, <1>3 DEF HeadMap

LEMMA ShortSeqs ==
  ASSUME NEW S, NEW x \in S, NEW y \in S
  PROVE  <<x>> \in Seq(S) /\ <<x, y>> \in Seq(S)
  OBVIOUS

LEMMA SubSeqs ==
  ASSUME NEW S, NEW T, S \subseteq T
  PROVE  Seq(S) \subseteq Seq(T)
  OBVIOUS

LEMMA CommandOutcomeKnown ==
  ASSUME NEW cmd, NEW s, IsSeq(ledger), NEW out \in CommandOutcomes(cmd, s), cmd.b \in Branch,
         HeadMap(s.heads), DOMAIN s.nodes \subseteq DOMAIN ledger,
         \A b \in DOMAIN s.heads : s.heads[b] \in DOMAIN s.nodes
  PROVE  /\ HeadMap(out.heads)
         /\ out.render \in Branch \cup {NoBranch} /\ out.switch \in Branch \cup {NoBranch}
         /\ out.node # NoNode => NewRev <= MaxRevs /\ out.node \in Seq(DOMAIN s.nodes)
<1> DEFINE N == DOMAIN s.nodes
           Goal == /\ HeadMap(out.heads)
                   /\ out.render \in Branch \cup {NoBranch} /\ out.switch \in Branch \cup {NoBranch}
                   /\ out.node # NoNode => NewRev <= MaxRevs /\ out.node \in Seq(N)
<1> SUFFICES Goal
    OBVIOUS
<1>1. /\ N \subseteq Nat /\ NewRev \in Nat /\ MaxRevs \in Nat /\ Main \in Branch
      /\ \A b \in DOMAIN s.heads : s.heads[b] \in N
    BY FilesAssumption DEF IsSeq, NewRev
<1>2. ASSUME NEW b \in Branch, NEW ps \in Seq(N), out \in Committed(s, b, ps)
      PROVE  Goal
  <2>1. out = Outcome(ps, Put(s.heads, b, NewRev), b, NoBranch) /\ ~(NewRev > MaxRevs)
      BY <1>2 DEF Committed
  <2>2. HeadMap(Put(s.heads, b, NewRev))
      BY <1>1, PutHead
  <2>. QED BY <1>1, <1>2, <2>1, <2>2 DEF Outcome
<1>3. ASSUME NEW r \in N, NEW render \in Branch, NEW switch \in Branch \cup {NoBranch},
             out = Outcome(NoNode, Put(s.heads, cmd.b, r), render, switch)
      PROVE  Goal
  <2>1. HeadMap(Put(s.heads, cmd.b, r))
      BY <1>1, PutHead
  <2>. QED BY <1>3, <2>1 DEF Outcome
<1>4. CASE cmd.op = "init"
  <2>1. out = Outcome(<<>>, Put(None, Main, NewRev), Main, Main) /\ ~(NewRev > MaxRevs)
      BY <1>4 DEF CommandOutcomes
  <2>2. HeadMap(None)
    <3>1. None \in [{} -> Nat]
        BY DEF None
    <3>. QED BY <3>1 DEF HeadMap
  <2>3. HeadMap(Put(None, Main, NewRev)) /\ <<>> \in Seq(N)
      BY <1>1, <2>2, PutHead
  <2>. QED BY <1>1, <2>1, <2>3 DEF Outcome
<1>5. CASE cmd.op = "create"
  <2>1. /\ cmd.other \in DOMAIN s.heads
        /\ out = Outcome(NoNode, Put(s.heads, cmd.b, s.heads[cmd.other]), cmd.b, cmd.b)
      BY <1>5 DEF CommandOutcomes
  <2>. HIDE DEF Goal
  <2>. QED BY <1>1, <1>3, <2>1
<1>6. CASE cmd.op \notin {"init", "create"}
  <2>1. cmd.b \in DOMAIN s.heads /\ out \in BranchOutcomes(cmd, s)
      BY <1>6 DEF CommandOutcomes
  <2>2. CASE cmd.op = "delete"
    <3>1. out = Outcome(NoNode, Remove(s.heads, cmd.b), NoBranch, NoBranch)
        BY <2>1, <2>2 DEF BranchOutcomes
    <3>2. HeadMap(Remove(s.heads, cmd.b))
        BY RemoveHead
    <3>. QED BY <3>1, <3>2 DEF Outcome
  <2>3. CASE cmd.op = "rollback"
    <3>1. PICK rev \in N : out = Outcome(NoNode, Put(s.heads, cmd.b, rev), cmd.b, NoBranch)
        BY <2>1, <2>3 DEF BranchOutcomes, FirstParentLine
    <3>. HIDE DEF Goal
    <3>. QED BY <1>3, <3>1
  <2>4. CASE cmd.op = "checkout"
    <3>1. out = Outcome(NoNode, s.heads, NoBranch, cmd.b)
        BY <2>1, <2>4 DEF BranchOutcomes
    <3>. QED BY <3>1 DEF Outcome
  <2>5. CASE cmd.op \in {"migrate", "sync"}
    <3>1. out \in Committed(s, cmd.b, <<s.heads[cmd.b]>>)
        BY <2>1, <2>5 DEF BranchOutcomes
    <3>2. <<s.heads[cmd.b]>> \in Seq(N)
      <4>1. s.heads[cmd.b] \in N
          BY <1>1, <2>1
      <4>. QED BY <4>1, ShortSeqs
    <3>. HIDE DEF Goal
    <3>. QED BY <1>2, <3>1, <3>2
  <2>6. CASE cmd.op = "merge"
    <3>1. cmd.other \in DOMAIN s.heads /\ out \in MergeOutcomes(s, cmd.b, cmd.other)
        BY <2>1, <2>6 DEF BranchOutcomes
    <3>. DEFINE ps == <<s.heads[cmd.b], s.heads[cmd.other]>>
    <3>2. \/ out = Outcome(NoNode, Put(s.heads, cmd.b, s.heads[cmd.other]), cmd.b, NoBranch)
          \/ out \in Committed(s, cmd.b, ps)
        BY <3>1 DEF MergeOutcomes
    <3>3. ps \in Seq(N) /\ s.heads[cmd.other] \in N
      <4>1. s.heads[cmd.b] \in N /\ s.heads[cmd.other] \in N
          BY <1>1, <2>1, <3>1
      <4>. QED BY <4>1, ShortSeqs
    <3>. HIDE DEF Goal, ps
    <3>. QED BY <1>2, <1>3, <3>2, <3>3
  <2>. QED BY <2>1, <2>2, <2>3, <2>4, <2>5, <2>6 DEF BranchOutcomes
<1>. QED BY <1>4, <1>5, <1>6

LEMMA OutcomeKnown ==
  ASSUME NEW cmd, NEW s, IsSeq(ledger), NEW out \in Outcomes(cmd, s), cmd.b \in Branch,
         HeadMap(s.heads), DOMAIN s.nodes \subseteq DOMAIN ledger,
         \A b \in DOMAIN s.heads : s.heads[b] \in DOMAIN s.nodes
  PROVE  /\ HeadMap(out.heads)
         /\ out.render \in Branch \cup {NoBranch} /\ out.switch \in Branch \cup {NoBranch}
         /\ out.node # NoNode => NewRev <= MaxRevs /\ out.node \in Seq(DOMAIN s.nodes)
<1>1. CASE out \in CommandOutcomes(cmd, s)
    BY <1>1, CommandOutcomeKnown
<1>2. CASE out \notin CommandOutcomes(cmd, s)
  <2>1. PICK o \in CommandOutcomes(cmd, s) : out.node = o.node /\ out.heads = o.heads
      BY <1>2, OutcomeSplit
  <2>2. out.render = NoBranch /\ out.switch = NoBranch
      BY <1>2, OutcomeSplit
  <2>. QED BY <2>1, <2>2, CommandOutcomeKnown
<1>. QED BY <1>1, <1>2

----------------------------------------------------------------------------
(* The steps.                                                                *)

LEMMA LedgerParents ==
  ASSUME IsSeq(ledger), LedgerKnown
  PROVE  /\ DOMAIN ledger = 1 .. Len(ledger) /\ Len(ledger) \in Nat
         /\ \A r \in DOMAIN ledger : ParentsOf(ledger, r) \subseteq 1 .. (r - 1)
<1>1. \A r \in DOMAIN ledger : ledger[r].parents \in Seq(1 .. (r - 1))
    BY DEF LedgerKnown
<1>2. \A r \in DOMAIN ledger : ParentsOf(ledger, r) \subseteq 1 .. (r - 1)
    BY <1>1, ParentsAreEarlier
<1>3. DOMAIN ledger = 1 .. Len(ledger) /\ Len(ledger) \in Nat
    BY DEF IsSeq
<1>. QED BY <1>2, <1>3

\* What is known of a process stays so while others act.
LEMMA KnownStays ==
  ASSUME LInv, NEW q \in Proc, proc'[q] = proc[q], LedgerGrows, DOMAIN disk \subseteq DOMAIN disk'
  PROVE  ProcKnown(q)'
<1>. DEFINE t == proc[q].todo
            grown == ledger'
            more == DOMAIN disk'
<1>1. ProcKnown(q) /\ ProcHolds(q)
    BY DEF LInv, SInv, FInv
<1>2. ASSUME proc[q].pc \in {"open", "fill"}
      PROVE  Ready(t, grown, more)
  <2>1. Ready(t, ledger, DOMAIN disk) /\ WritesNodes(t, ledger)
      BY <1>1, <1>2 DEF ProcKnown, ProcHolds, TodoHolds
  <2>2. /\ \A r \in DOMAIN ledger : r \in DOMAIN grown /\ grown[r] = ledger[r]
        /\ DOMAIN disk \subseteq more
      BY DEF LedgerGrows
  <2>. HIDE DEF t, grown, more
  <2>. QED BY <2>1, <2>2, ReadyStays
<1>3. proc[q].pc \in {"open", "fill"} => Ready(proc'[q].todo, ledger', DOMAIN disk')
    BY <1>2
<1>. QED BY <1>1, <1>3 DEF ProcKnown, Exists

\* A step that leaves the files and the ledger alone, and after which the
\* process does not leave a file torn unless that counts as a crash.
LEMMA QuietLoads ==
  ASSUME LInv, SInv', NEW p \in Proc, UNCHANGED <<disk, ledger, saved>>,
         \A q \in Proc : q # p => proc'[q] = proc[q], ProcKnown(p)',
         \/ crashes' = crashes /\ proc[p].pc # "fill"
         \/ crashes' = crashes + 1 /\ crashes < MaxCrashes
  PROVE  LInv'
<1>1. LedgerKnown' /\ FilesKnown' /\ saved'.revs \subseteq DOMAIN ledger'
    BY DEF LInv, LedgerKnown, FilesKnown
<1>2. crashes' \in 0 .. MaxCrashes
    BY FilesAssumption DEF LInv
<1>3. /\ ParentClosed(ledger, NodesOnDisk)'
      /\ (DOMAIN disk # {} => Exists(HeadsFile))'
    BY DEF LInv, ParentClosed, ParentsOf, NodesOnDisk, Exists
<1>4. ASSUME NEW q \in Proc PROVE ProcKnown(q)'
  <2>1. CASE q = p
      BY <2>1
  <2>2. CASE q # p
    <3>1. proc'[q] = proc[q] /\ LedgerGrows /\ DOMAIN disk \subseteq DOMAIN disk'
        BY <2>2 DEF LedgerGrows
    <3>. QED BY <3>1, KnownStays
  <2>. QED BY <2>1, <2>2
<1>5. TornHeld'
  <2>1. CASE crashes' = crashes + 1
    <3>1. crashes' # 0
        BY <2>1 DEF LInv
    <3>. QED BY <3>1 DEF TornHeld
  <2>2. CASE crashes' = crashes /\ proc[p].pc # "fill"
    <3>1. \A q \in Proc : proc[q].pc = "fill" => proc'[q] = proc[q]
        BY <2>2
    <3>. QED BY <2>2, <3>1 DEF LInv, TornHeld
  <2>. QED BY <2>1, <2>2
<1>. QED BY <1>1, <1>2, <1>3, <1>4, <1>5 DEF LInv

\* A step that empties or fills the first file of a list.
LEMMA WriteLoads ==
  ASSUME LInv, SInv', NEW p \in Proc, proc[p].pc \in {"open", "fill"},
         NEW f, NEW text, f = proc[p].todo[1].file, disk' = Put(disk, f, text),
         UNCHANGED <<ledger, crashes>>, saved'.revs \subseteq DOMAIN ledger,
         \A q \in Proc : q # p => proc'[q] = proc[q],
         text \in {Torn, Mixed} \/ Known([file |-> f, text |-> text]),
         proc'[p].pc \in {"idle", "open", "fill"}, HeadMap(proc'[p].store.heads),
         proc'[p].pc \in {"open", "fill"} => Ready(proc'[p].todo, ledger, DOMAIN disk \cup {f}),
         TornHeld'
  PROVE  LInv'
<1>1. /\ DOMAIN disk' = DOMAIN disk \cup {f} /\ disk'[f] = text
      /\ \A g \in DOMAIN disk : g # f => disk'[g] = disk[g]
    BY DEF Put
<1>2. LedgerGrows /\ DOMAIN disk \subseteq DOMAIN disk'
    BY <1>1 DEF LedgerGrows
<1>3. ProcKnown(p)
    BY DEF LInv
<1>4. Ready(proc[p].todo, ledger, DOMAIN disk) /\ (Exists(HeadsFile) \/ f = HeadsFile)
    BY <1>3 DEF ProcKnown
<1>5. HeadsFile \in DOMAIN disk'
    BY <1>1, <1>4 DEF Exists
<1>6. FilesKnown'
    BY <1>1 DEF LInv, FilesKnown
<1>7. LedgerKnown' /\ saved'.revs \subseteq DOMAIN ledger' /\ crashes' \in 0 .. MaxCrashes
    BY DEF LInv, LedgerKnown
<1>8. ParentClosed(ledger, NodesOnDisk)'
  <2>1. /\ DOMAIN ledger = 1 .. Len(ledger) /\ Len(ledger) \in Nat
        /\ \A r \in DOMAIN ledger : ParentsOf(ledger, r) \subseteq 1 .. (r - 1)
      BY LedgerParents DEF LInv, SInv, FInv
  <2>2. NodesOnDisk' = {r \in 1 .. Len(ledger) : NodeFile(r) \in DOMAIN disk'}
      BY DEF NodesOnDisk, Exists
  <2>3. ASSUME NEW r \in 1 .. Len(ledger), NodeFile(r) \in DOMAIN disk',
               NEW q \in ParentsOf(ledger, r)
        PROVE  q \in NodesOnDisk'
    <3>1. q \in 1 .. Len(ledger)
        BY <2>1
    <3>2. CASE NodeFile(r) \in DOMAIN disk
      <4>1. r \in NodesOnDisk
          BY <3>2 DEF NodesOnDisk, Exists
      <4>2. q \in NodesOnDisk
          BY <4>1, <2>3 DEF LInv, ParentClosed
      <4>. QED BY <1>2, <2>2, <4>2 DEF NodesOnDisk, Exists
    <3>3. CASE f = NodeFile(r)
      <4>1. 1 \in DOMAIN proc[p].todo
        <5>1. ProcHolds(p)
            BY DEF LInv, SInv, FInv
        <5>. QED BY <1>4, <5>1, TailSeq DEF Ready, ProcHolds
      <4>2. NodeFile(q) \in DOMAIN disk
        <5>. DEFINE t == proc[p].todo
        <5>1. ParentsFirst(t, ledger, DOMAIN disk) /\ t[1].file = NodeFile(r)
            BY <1>4, <3>3 DEF Ready
        <5>2. 1 \in DOMAIN t /\ r \in DOMAIN ledger
            BY <2>1, <4>1
        <5>. HIDE DEF t
        <5>3. NodeFile(q) \in DOMAIN disk \/ \E j \in 1 .. (1 - 1) : t[j].file = NodeFile(q)
            BY <2>3, <5>1, <5>2 DEF ParentsFirst
        <5>. QED BY <5>3
      <4>. QED BY <1>2, <2>2, <3>1, <4>2
    <3>. QED BY <1>1, <2>3, <3>2, <3>3
  <2>4. \A r \in NodesOnDisk' : ParentsOf(ledger, r) \subseteq NodesOnDisk'
      BY <2>2, <2>3
  <2>. QED BY <2>4 DEF ParentClosed, ParentsOf
<1>9. ASSUME NEW q \in Proc PROVE ProcKnown(q)'
  <2>1. CASE q = p
    <3>1. proc'[p].pc \in {"open", "fill"} => Ready(proc'[p].todo, ledger', DOMAIN disk')
        BY <1>1
    <3>. QED BY <1>5, <2>1, <3>1 DEF ProcKnown, Pc, Exists
  <2>2. CASE q # p
    <3>1. proc'[q] = proc[q]
        BY <2>2
    <3>. QED BY <1>2, <3>1, KnownStays
  <2>. QED BY <2>1, <2>2
<1>. QED BY <1>5, <1>6, <1>7, <1>8, <1>9 DEF LInv, Exists

LEMMA OpenLoads ==
  ASSUME LInv, SInv', NEW p \in Proc, Open(p)
  PROVE  LInv'
<1>. DEFINE t == proc[p].todo
            v == Doing("fill", proc[p].cmd, proc[p].store, t)
            f == t[1].file
<1>1. /\ proc[p].pc = "open" /\ UNCHANGED <<crashes, ledger, saved>>
      /\ disk' = Put(disk, Head(t).file, Torn) /\ proc' = [proc EXCEPT ![p] = v]
    BY DEF Open
<1>2. proc'[p] = v /\ \A q \in Proc : q # p => proc'[q] = proc[q]
    BY <1>1 DEF LInv, SInv, FInv, Shape
<1>3. ProcKnown(p) /\ saved.revs \subseteq DOMAIN ledger
    BY DEF LInv
<1>4. Ready(t, ledger, DOMAIN disk) /\ Head(t) = t[1]
    BY <1>1, <1>3, FirstWrite DEF ProcKnown, LInv, SInv
<1>. HIDE DEF t
<1>5. proc'[p].pc = "fill" /\ proc'[p].todo = t /\ proc'[p].store.heads = proc[p].store.heads
    BY <1>2 DEF Doing
<1>6. Ready(t, ledger, DOMAIN disk \cup {f})
    BY <1>4 DEF Ready, ParentsFirst
<1>7. TornHeld'
  <2> SUFFICES ASSUME crashes' = 0, NEW g \in DOMAIN disk', disk'[g] = Torn
               PROVE  \E q \in Proc : proc'[q].pc = "fill" /\ proc'[q].todo[1].file = g
      BY DEF TornHeld
  <2>1. CASE g = f
      BY <1>5, <2>1
  <2>2. CASE g # f
    <3>1. g \in DOMAIN disk /\ disk[g] = Torn /\ crashes = 0
        BY <1>1, <1>4, <2>2 DEF Put
    <3>2. PICK q \in Proc : proc[q].pc = "fill" /\ proc[q].todo[1].file = g
        BY <3>1 DEF LInv, TornHeld
    <3>3. proc'[q] = proc[q]
        BY <1>1, <1>2, <3>2
    <3>. QED BY <3>2, <3>3
  <2>. QED BY <2>1, <2>2
<1>8. /\ proc[p].pc \in {"open", "fill"} /\ f = proc[p].todo[1].file
      /\ disk' = Put(disk, f, Torn)
      /\ saved'.revs \subseteq DOMAIN ledger /\ HeadMap(proc'[p].store.heads)
    BY <1>1, <1>3, <1>4, <1>5 DEF ProcKnown, t
<1>. HIDE DEF f, v
<1>. QED BY <1>1, <1>2, <1>5, <1>6, <1>7, <1>8, WriteLoads

\* A migration is neither of the two broken texts.
LEMMA LedgerNotMixed ==
  ASSUME LInv, NEW r \in DOMAIN ledger
  PROVE  ledger[r] \notin {Torn, Mixed}
<1>1. ledger[r] \in [parents : Seq(1 .. (r - 1)), branch : Branch]
    BY DEF LInv, LedgerKnown
<1>2. Seq(1 .. (r - 1)) \subseteq Seq(Nat)
  <2>1. 1 .. (r - 1) \subseteq Nat
      OBVIOUS
  <2>. QED BY <2>1, SubSeqs
<1>. QED BY <1>1, <1>2, TornAssumption

\* What a command writes is not what an interrupted write leaves, nor a mix.
LEMMA WrittenNotTorn ==
  ASSUME LInv, NEW p \in Proc, proc[p].pc \in {"open", "fill"}, NEW w, w = proc[p].todo[1]
  PROVE  Known(w) /\ w.text \notin {Torn, Mixed}
<1>. DEFINE t == proc[p].todo
<1>1. ProcKnown(p)
    BY DEF LInv
<1>2. Ready(t, ledger, DOMAIN disk) /\ SchemaWrites(t, saved.revs)
    BY <1>1 DEF ProcKnown, LInv, SInv, TodosFollow
<1>3. /\ 1 \in DOMAIN t
      /\ w.file[1] = "node" => \E r \in DOMAIN ledger : w.file = NodeFile(r) /\ w.text = ledger[r]
    BY FirstWrite DEF LInv, SInv
<1>. HIDE DEF t
<1>4. Known(w)
    BY <1>2, <1>3 DEF Ready, t
<1>5. CASE w.file[1] = "node"
  <2>1. PICK r \in DOMAIN ledger : w.text = ledger[r]
      BY <1>3, <1>5
  <2>. QED BY <1>4, <2>1, LedgerNotMixed
<1>6. CASE w.file = HeadsFile /\ HeadMap(w.text)
    BY <1>4, <1>6, TornAssumption DEF HeadMap
<1>7. CASE w.file[1] = "schema"
  <2>1. w.text \in saved.revs
    <3>1. \/ w.text \in saved.revs
          \/ \E j \in 1 .. (1 - 1) :
               t[j].file = HeadsFile /\ \E b \in DOMAIN t[j].text : t[j].text[b] = t[1].text
        BY <1>2, <1>3, <1>7 DEF SchemaWrites, t
    <3>. QED BY <3>1
  <2>2. DOMAIN ledger \subseteq Nat /\ saved.revs \subseteq DOMAIN ledger
      BY DEF LInv, SInv, FInv, IsSeq
  <2>. QED BY <1>4, <2>1, <2>2, TornAssumption
<1>8. CASE w.file = HeadFile /\ w.text \in Branch
    BY <1>4, <1>8, TornAssumption
<1>. QED BY <1>4, <1>5, <1>6, <1>7, <1>8 DEF Known

LEMMA FillLoads ==
  ASSUME LInv, SInv', NEW p \in Proc, Fill(p)
  PROVE  LInv'
<1>. DEFINE t == proc[p].todo
            ns == proc[p].store.nodes
            w == t[1]
            f == w.file
            text == w.text
            v == Doing("open", proc[p].cmd, proc[p].store, Tail(t))
            reached == UNION {Ancestors(ns, text[b]) : b \in DOMAIN text}
<1>1. Head(t) = w /\ IsSeq(t) /\ t # <<>> /\ StoreHolds(proc[p].store)
  <2>1. proc[p].pc \in {"open", "fill"}
      BY DEF Fill
  <2>. QED BY <2>1, FirstWrite DEF LInv, SInv, FInv, ProcHolds
<1>2. /\ proc[p].pc = "fill" /\ UNCHANGED <<crashes, ledger>>
      /\ \E left \in Overwritten(f, text) : disk' = Put(disk, f, left)
      /\ GiveUp(p) \/ proc' = [proc EXCEPT ![p] = v]
      /\ saved' = IF f # HeadsFile THEN saved
                  ELSE [heads |-> text, revs |-> saved.revs \cup reached]
    BY <1>1 DEF Fill
<1>12. PICK left \in Overwritten(f, text) : disk' = Put(disk, f, left)
    BY <1>2
<1>3. ProcKnown(p) /\ saved.revs \subseteq DOMAIN ledger /\ Known(w) /\ text # Torn
    BY <1>2, WrittenNotTorn DEF LInv
<1>4. Ready(t, ledger, DOMAIN disk) /\ HeadMap(proc[p].store.heads)
    BY <1>2, <1>3 DEF ProcKnown
<1>5. saved'.revs \subseteq DOMAIN ledger
  <2>1. reached \subseteq DOMAIN ns
      BY DEF Ancestors
  <2>2. DOMAIN ns \subseteq DOMAIN ledger
      BY <1>1 DEF StoreHolds
  <2>. HIDE DEF reached, ns
  <2>. QED BY <1>2, <1>3, <2>1, <2>2
<1>6. Ready(Tail(t), ledger, DOMAIN disk \cup {f})
  <2>. HIDE DEF t
  <2>. QED BY <1>1, <1>4, RestReady
<1>7. /\ proc'[p] = v \/ proc'[p] = Idle
      /\ \A q \in Proc : q # p => proc'[q] = proc[q]
    BY <1>2 DEF GiveUp, LInv, SInv, FInv, Shape
<1>8. /\ proc'[p].pc \in {"idle", "open"} /\ HeadMap(proc'[p].store.heads)
      /\ proc'[p].pc = "open" => proc'[p].todo = Tail(t)
  <2>1. CASE proc'[p] = Idle
    <3>1. proc'[p].pc = "idle" /\ proc'[p].store.heads = None
        BY <2>1 DEF Idle, Doing, NoStore
    <3>2. None \in [{} -> Nat]
        BY DEF None
    <3>. QED BY <3>1, <3>2 DEF HeadMap
  <2>2. CASE proc'[p] = v
    <3>. HIDE DEF t
    <3>1. /\ proc'[p].pc = "open" /\ proc'[p].todo = Tail(t)
          /\ proc'[p].store.heads = proc[p].store.heads
        BY <2>2 DEF Doing
    <3>. QED BY <1>4, <3>1
  <2>. QED BY <1>7, <2>1, <2>2
<1>9. TornHeld'
  <2> SUFFICES ASSUME crashes' = 0, NEW g \in DOMAIN disk', disk'[g] = Torn
               PROVE  \E q \in Proc : proc'[q].pc = "fill" /\ proc'[q].todo[1].file = g
      BY DEF TornHeld
  <2>1. g # f
    <3>1. left # Torn
        BY <1>3, OverwrittenIs
    <3>. HIDE DEF f, text
    <3>. QED BY <1>12, <3>1 DEF Put
  <2>2. g \in DOMAIN disk /\ disk[g] = Torn /\ crashes = 0
    <3>. HIDE DEF f, text
    <3>. QED BY <1>2, <1>12, <2>1 DEF Put
  <2>3. PICK q \in Proc : proc[q].pc = "fill" /\ proc[q].todo[1].file = g
      BY <2>2 DEF LInv, TornHeld
  <2>4. q # p
      BY <2>1, <2>3
  <2>. QED BY <1>7, <2>3, <2>4
<1>10. left \in {Torn, Mixed} \/ Known([file |-> f, text |-> left])
  <2>1. left = text \/ left = Mixed \/ (f[1] = "schema" /\ f[1] # "node")
      BY OverwrittenIs
  <2>2. (f # HeadsFile /\ f # HeadFile) \/ f[1] # "schema"
      BY DEF HeadsFile, HeadFile
  <2>. HIDE DEF f, text
  <2>. QED BY <1>3, <2>1, <2>2 DEF Known, f, text
<1>11. proc[p].pc \in {"open", "fill"} /\ f = proc[p].todo[1].file
    BY <1>2
<1>. HIDE DEF t, ns, w, f, text, v, reached
<1>. QED BY <1>2, <1>5, <1>6, <1>7, <1>8, <1>9, <1>10, <1>11, <1>12, WriteLoads

LEMMA DecideLoads ==
  ASSUME LInv, SInv', NEW p \in Proc, Decide(p), ~GiveUp(p)
  PROVE  LInv'
<1>. DEFINE cmd == proc[p].cmd
            s == proc[p].store
<1>1. PICK out \in Outcomes(cmd, s) :
        LET node == [parents |-> out.node, branch |-> cmd.b]
            ns == IF out.node = NoNode THEN s.nodes ELSE Put(s.nodes, NewRev, node)
        IN  /\ ledger' = IF out.node = NoNode THEN ledger ELSE Append(ledger, node)
            /\ proc' = [proc EXCEPT ![p] =
                          Doing("open", cmd, [nodes |-> ns, heads |-> out.heads], Writes(cmd, ns, out))]
    BY DEF Decide
<1>2. proc[p].pc = "decide" /\ UNCHANGED <<disk, crashes, saved>>
    BY DEF Decide
<1>. DEFINE node == [parents |-> out.node, branch |-> cmd.b]
            ns == IF out.node = NoNode THEN s.nodes ELSE Put(s.nodes, NewRev, node)
            todo == Writes(cmd, ns, out)
            v == Doing("open", cmd, [nodes |-> ns, heads |-> out.heads], todo)
            led == ledger'
<1>3. StoreHolds(s) /\ cmd.b \in Branch /\ IsSeq(ledger) /\ ProcKnown(p) /\ NodeFilesHold /\ LedgerKnown
    BY <1>2 DEF LInv, SInv, FInv, ProcHolds
<1>4. DOMAIN s.nodes \subseteq DOMAIN ledger /\ \A b \in DOMAIN s.heads : s.heads[b] \in DOMAIN s.nodes
    BY <1>3 DEF StoreHolds
<1>5. /\ HeadMap(out.heads)
      /\ out.render \in Branch \cup {NoBranch} /\ out.switch \in Branch \cup {NoBranch}
      /\ out.node # NoNode => NewRev <= MaxRevs /\ out.node \in Seq(DOMAIN s.nodes)
    BY <1>3, <1>4, OutcomeKnown DEF ProcKnown
<1>6. proc'[p] = v /\ \A q \in Proc : q # p => proc'[q] = proc[q]
    BY <1>1 DEF LInv, SInv, FInv, Shape
<1>7. /\ proc'[p].pc = "open" /\ proc'[p].todo = todo
      /\ proc'[p].store.nodes = ns /\ proc'[p].store.heads = out.heads
  <2>. HIDE DEF ns, todo
  <2>. QED BY <1>6 DEF Doing
<1>8. led = IF out.node = NoNode THEN ledger ELSE Append(ledger, node)
    BY <1>1
<1>9. /\ IsSeq(led) /\ DOMAIN ns \subseteq DOMAIN led /\ ParentClosed(led, DOMAIN ns)
  <2>1. ProcHolds(p)' /\ IsSeq(ledger)'
      BY DEF SInv, FInv
  <2>2. StoreHolds(proc[p].store)'
      BY <2>1 DEF ProcHolds
  <2>3. /\ DOMAIN (proc'[p].store.nodes) \subseteq DOMAIN ledger'
        /\ ParentClosed(ledger', DOMAIN (proc'[p].store.nodes))
      BY <2>2 DEF StoreHolds
  <2>. HIDE DEF ns
  <2>. QED BY <1>7, <2>1, <2>3
<1>10. /\ LedgerGrows /\ Len(ledger) \in Nat /\ DOMAIN ledger = 1 .. Len(ledger)
       /\ out.node # NoNode => /\ DOMAIN led = DOMAIN ledger \cup {NewRev}
                               /\ led[NewRev] = node /\ Len(led) = NewRev
  <2>. HIDE DEF node
  <2>1. \A x : /\ IsSeq(Append(ledger, x)) /\ DOMAIN ledger = 1 .. Len(ledger) /\ Len(ledger) \in Nat
               /\ DOMAIN Append(ledger, x) = DOMAIN ledger \cup {Len(ledger) + 1}
               /\ Append(ledger, x)[Len(ledger) + 1] = x
               /\ \A i \in DOMAIN ledger : Append(ledger, x)[i] = ledger[i]
      BY <1>3, AppendSeq
  <2>2. Len(Append(ledger, node)) = Len(ledger) + 1
    <3>1. ledger \in Seq({ledger[i] : i \in DOMAIN ledger} \cup {node})
        BY <1>3 DEF IsSeq
    <3>. QED BY <3>1
  <2>. QED BY <1>8, <2>1, <2>2 DEF LedgerGrows, NewRev
<1>11. LedgerKnown'
  <2>1. CASE out.node = NoNode
      BY <1>3, <1>8, <2>1 DEF LedgerKnown
  <2>2. CASE out.node # NoNode
    <3>1. node \in [parents : Seq(1 .. (NewRev - 1)), branch : Branch]
      <4>1. DOMAIN s.nodes \subseteq 1 .. (NewRev - 1)
          BY <1>4, <1>10 DEF NewRev
      <4>. HIDE DEF s
      <4>2. out.node \in Seq(1 .. (NewRev - 1))
          BY <1>5, <2>2, <4>1, SubSeqs
      <4>. QED BY <1>3, <4>2
    <3>. HIDE DEF node
    <3>2. \A r \in DOMAIN led : led[r] \in [parents : Seq(1 .. (r - 1)), branch : Branch]
        BY <1>3, <1>10, <2>2, <3>1 DEF LedgerKnown, LedgerGrows
    <3>. QED BY <1>5, <1>10, <2>2, <3>2 DEF LedgerKnown
  <2>. QED BY <2>1, <2>2
<1>12. \A r \in DOMAIN led : ParentsOf(led, r) \subseteq 1 .. (r - 1)
  <2>1. \A r \in DOMAIN led : led[r].parents \in Seq(1 .. (r - 1))
      BY <1>11 DEF LedgerKnown
  <2>. HIDE DEF led
  <2>. QED BY <2>1, ParentsAreEarlier
<1>13. /\ Ready(todo, led, DOMAIN disk)
       /\ cmd.op = "init" /\ ~Exists(HeadsFile) => todo[1].file = HeadsFile
  <2>. HIDE DEF cmd, s, ns, led
  <2>. QED BY <1>5, <1>9, <1>12, WritesReady
<1>14. Exists(HeadsFile) \/ todo[1].file = HeadsFile
    BY <1>2, <1>3, <1>13 DEF ProcKnown, LInv
<1>15. ProcKnown(p)'
  <2>. HIDE DEF todo, ns, led
  <2>1. Ready(proc'[p].todo, ledger', DOMAIN disk')
      BY <1>2, <1>7, <1>13 DEF led
  <2>2. HeadsFile \in DOMAIN disk' \/ proc'[p].todo[1].file = HeadsFile
      BY <1>2, <1>7, <1>14 DEF Exists
  <2>. QED BY <1>5, <1>7, <2>1, <2>2 DEF ProcKnown, Pc, Exists
<1>16. \A q \in Proc : ProcKnown(q)'
  <2> SUFFICES ASSUME NEW q \in Proc, q # p PROVE ProcKnown(q)'
      BY <1>15
  <2>1. proc'[q] = proc[q] /\ DOMAIN disk \subseteq DOMAIN disk'
      BY <1>2, <1>6
  <2>. QED BY <1>10, <2>1, KnownStays
<1>17. FilesKnown' /\ saved'.revs \subseteq DOMAIN ledger' /\ crashes' \in 0 .. MaxCrashes
       /\ (DOMAIN disk # {} => Exists(HeadsFile))'
    BY <1>2, <1>10 DEF LInv, FilesKnown, LedgerGrows, Exists
<1>18. ParentClosed(ledger, NodesOnDisk)'
  <2>. HIDE DEF node
  <2>1. NodesOnDisk' = NodesOnDisk /\ NodesOnDisk \subseteq DOMAIN ledger
    <3>1. CASE out.node = NoNode
        BY <1>2, <1>8, <1>10, <3>1 DEF NodesOnDisk, Exists
    <3>2. CASE out.node # NoNode
      <4>1. NodeFile(NewRev) \notin DOMAIN disk
          BY <1>3, <1>10 DEF NodeFilesHold, NodeFile, NewRev
      <4>. QED BY <1>2, <1>10, <3>2, <4>1 DEF NodesOnDisk, Exists, NewRev
    <3>. QED BY <3>1, <3>2
  <2>2. \A r \in NodesOnDisk : ParentsOf(led, r) = ParentsOf(ledger, r)
      BY <1>10, <2>1 DEF LedgerGrows, ParentsOf
  <2>3. ParentClosed(led, NodesOnDisk)
      BY <2>2 DEF LInv, ParentClosed
  <2>. HIDE DEF led
  <2>4. ParentClosed(led, NodesOnDisk')
      BY <2>1, <2>3
  <2>. QED BY <2>4 DEF led
<1>19. TornHeld'
  <2> SUFFICES ASSUME crashes' = 0, NEW g \in DOMAIN disk', disk'[g] = Torn
               PROVE  \E q \in Proc : proc'[q].pc = "fill" /\ proc'[q].todo[1].file = g
      BY DEF TornHeld
  <2>1. PICK q \in Proc : proc[q].pc = "fill" /\ proc[q].todo[1].file = g
      BY <1>2 DEF LInv, TornHeld
  <2>2. proc'[q] = proc[q]
      BY <1>2, <1>6, <2>1
  <2>. QED BY <2>1, <2>2
<1>. QED BY <1>11, <1>16, <1>17, <1>18, <1>19 DEF LInv

LEMMA InitLInv == Init => LInv
<1>. SUFFICES ASSUME Init PROVE LInv
    OBVIOUS
<1>1. SInv
    BY InitFInv DEF Init, None, Idle, Doing, SInv, SchemaFilesHold, TodosFollow
<1>2. DOMAIN disk = {} /\ ledger = <<>> /\ saved.revs = {} /\ crashes = 0
    BY DEF Init, None
<1>3. NodesOnDisk = {}
    BY <1>2 DEF NodesOnDisk, Exists
<1>4. ASSUME NEW p \in Proc PROVE ProcKnown(p)
  <2>1. proc[p].pc = "idle" /\ proc[p].store.heads = None
      BY DEF Init, Idle, Doing, NoStore
  <2>2. None \in [{} -> Nat]
      BY DEF None
  <2>. QED BY <2>1, <2>2 DEF ProcKnown, Pc, HeadMap
<1>5. LedgerKnown /\ 0 \in 0 .. MaxCrashes
    BY <1>2, FilesAssumption DEF LedgerKnown
<1>. QED BY <1>1, <1>2, <1>3, <1>4, <1>5 DEF LInv, FilesKnown, ParentClosed, TornHeld

LEMMA LInvInductive == LInv /\ [Next]_vars => LInv'
<1>. SUFFICES ASSUME LInv, [Next]_vars PROVE LInv'
    OBVIOUS
<1>1. SInv'
    BY SInvInductive DEF LInv
<1>2. ASSUME NEW p \in Proc, NEW v, proc' = [proc EXCEPT ![p] = v]
      PROVE  proc'[p] = v /\ \A q \in Proc : q # p => proc'[q] = proc[q]
    BY <1>2 DEF LInv, SInv, FInv, Shape
<1>3. HeadMap(None)
  <2>1. None \in [{} -> Nat]
      BY DEF None
  <2>. QED BY <2>1 DEF HeadMap
<1>4. ASSUME NEW p \in Proc, GiveUp(p), UNCHANGED <<disk, ledger, saved>>,
             \/ crashes' = crashes /\ proc[p].pc # "fill"
             \/ crashes' = crashes + 1 /\ crashes < MaxCrashes
      PROVE  LInv'
  <2>1. proc'[p] = Idle /\ \A q \in Proc : q # p => proc'[q] = proc[q]
      BY <1>2, <1>4 DEF GiveUp
  <2>2. proc'[p].pc = "idle" /\ proc'[p].store.heads = None
      BY <2>1 DEF Idle, Doing, NoStore
  <2>3. ProcKnown(p)'
      BY <1>3, <2>2 DEF ProcKnown, Pc
  <2>. QED BY <1>1, <1>4, <2>1, <2>3, QuietLoads
<1>5. ASSUME NEW p \in Proc, UNCHANGED <<disk, ledger, saved, crashes>>, proc[p].pc # "fill",
             NEW pc \in {"nodes", "heads", "decide"}, NEW cmd, NEW ns, NEW hs, NEW todo,
             proc' = [proc EXCEPT ![p] = Doing(pc, cmd, [nodes |-> ns, heads |-> hs], todo)],
             HeadMap(hs), (pc = "decide" /\ cmd.op = "init") \/ DOMAIN disk # {}
      PROVE  LInv'
  <2>1. /\ proc'[p] = Doing(pc, cmd, [nodes |-> ns, heads |-> hs], todo)
        /\ \A q \in Proc : q # p => proc'[q] = proc[q]
      BY <1>2, <1>5
  <2>2. proc'[p].pc = pc /\ proc'[p].cmd = cmd /\ proc'[p].store.heads = hs
      BY <2>1 DEF Doing
  <2>3. ProcKnown(p)'
      BY <1>5, <2>2 DEF ProcKnown, Pc
  <2>. QED BY <1>1, <1>5, <2>1, <2>3, QuietLoads
<1>6. CASE UNCHANGED vars
  <2>1. LedgerGrows /\ DOMAIN disk \subseteq DOMAIN disk'
      BY <1>6 DEF vars, LedgerGrows
  <2>2. \A p \in Proc : ProcKnown(p)'
      BY <1>6, <2>1, KnownStays DEF vars
  <2>. QED
      BY <1>1, <1>6, <2>2
      DEF vars, LInv, LedgerKnown, FilesKnown, ParentClosed, ParentsOf, NodesOnDisk, Exists, TornHeld
<1>7. ASSUME NEW p \in Proc, NEW cmd \in Commands, Start(p, cmd) PROVE LInv'
  <2>. DEFINE pc == IF cmd.op = "init" THEN "decide" ELSE "nodes"
  <2>1. /\ proc' = [proc EXCEPT ![p] = Doing(pc, cmd, [nodes |-> None, heads |-> None], <<>>)]
        /\ UNCHANGED <<disk, ledger, saved, crashes>> /\ proc[p].pc # "fill"
        /\ cmd.op = "init" \/ DOMAIN disk # {}
      BY <1>7 DEF Start, NoStore
  <2>2. pc \in {"nodes", "heads", "decide"} /\ ((pc = "decide" /\ cmd.op = "init") \/ DOMAIN disk # {})
      BY <2>1
  <2>. HIDE DEF pc
  <2>. QED BY <1>3, <1>5, <2>1, <2>2
<1>8. ASSUME NEW p \in Proc, ReadNodes(p) PROVE LInv'
  <2>1. proc[p].pc = "nodes" /\ UNCHANGED <<disk, ledger, saved, crashes>> /\ DOMAIN disk # {}
      BY <1>8 DEF ReadNodes, LInv, ProcKnown
  <2>2. CASE ~NodesReadable
    <3>1. GiveUp(p)
        BY <1>8, <2>2 DEF ReadNodes
    <3>. QED BY <1>4, <2>1, <3>1
  <2>3. CASE NodesReadable
    <3>. DEFINE ns == [r \in NodesOnDisk |-> disk[NodeFile(r)]]
    <3>1. proc' = [proc EXCEPT ![p] = Doing("heads", proc[p].cmd, [nodes |-> ns, heads |-> None], <<>>)]
        BY <1>8, <2>3 DEF ReadNodes
    <3>. HIDE DEF ns
    <3>. QED BY <1>3, <1>5, <2>1, <3>1
  <2>. QED BY <2>2, <2>3
<1>9. ASSUME NEW p \in Proc, ReadHeads(p) PROVE LInv'
  <2>1. proc[p].pc = "heads" /\ UNCHANGED <<disk, ledger, saved, crashes>> /\ DOMAIN disk # {}
      BY <1>9 DEF ReadHeads, LInv, ProcKnown
  <2>2. CASE ~HeadsReadable(proc[p].store.nodes)
    <3>1. GiveUp(p)
        BY <1>9, <2>2 DEF ReadHeads
    <3>. QED BY <1>4, <2>1, <3>1
  <2>3. CASE HeadsReadable(proc[p].store.nodes)
    <3>. DEFINE ns == proc[p].store.nodes
                hs == disk[HeadsFile]
    <3>1. proc' = [proc EXCEPT ![p] = Doing("decide", proc[p].cmd, [nodes |-> ns, heads |-> hs], <<>>)]
        BY <1>9, <2>3 DEF ReadHeads
    <3>2. HeadMap(hs)
      <4>1. HeadsFile \in DOMAIN disk /\ hs \notin {Torn, Mixed}
          BY <2>1, <2>3 DEF LInv, Exists, HeadsReadable
      <4>2. Known([file |-> HeadsFile, text |-> hs])
          BY <4>1 DEF LInv, FilesKnown
      <4>. QED BY <4>2 DEF Known, HeadsFile, HeadFile
    <3>. HIDE DEF ns, hs
    <3>. QED BY <1>5, <2>1, <3>1, <3>2
  <2>. QED BY <2>2, <2>3
<1>10. ASSUME NEW p \in Proc, Decide(p) PROVE LInv'
  <2>1. CASE GiveUp(p) /\ UNCHANGED ledger
      BY <1>4, <1>10, <2>1 DEF Decide
  <2>2. CASE ~GiveUp(p)
      BY <1>1, <1>10, <2>2, DecideLoads
  <2>3. CASE GiveUp(p) /\ ~UNCHANGED ledger
    <3>. DEFINE Opens(out, ns, todo) ==
                  proc' = [proc EXCEPT ![p] =
                             Doing("open", proc[p].cmd, [nodes |-> ns, heads |-> out.heads], todo)]
    <3>4. PICK out \in Outcomes(proc[p].cmd, proc[p].store) : \E ns, todo : Opens(out, ns, todo)
        BY <1>10, <2>3 DEF Decide
    <3>1. PICK ns, todo : Opens(out, ns, todo)
        BY <3>4
    <3>2. proc'[p].pc = "open"
      <4>1. proc'[p] = Doing("open", proc[p].cmd, [nodes |-> ns, heads |-> out.heads], todo)
          BY <1>2, <3>1
      <4>. QED BY <4>1 DEF Doing
    <3>3. proc'[p].pc = "idle"
      <4>1. proc'[p] = Idle
          BY <1>2, <2>3 DEF GiveUp
      <4>. QED BY <4>1 DEF Idle, Doing
    <3>. QED BY <3>2, <3>3
  <2>. QED BY <2>1, <2>2, <2>3
<1>11. ASSUME NEW p \in Proc, Open(p) PROVE LInv'
    BY <1>1, <1>11, OpenLoads
<1>12. ASSUME NEW p \in Proc, Fill(p) PROVE LInv'
    BY <1>1, <1>12, FillLoads
<1>13. ASSUME NEW p \in Proc, Crash(p) PROVE LInv'
    BY <1>4, <1>13 DEF Crash
<1>. QED BY <1>6, <1>7, <1>8, <1>9, <1>10, <1>11, <1>12, <1>13 DEF Next

----------------------------------------------------------------------------
(* The theorems.                                                             *)

LEMMA LInvTypes == LInv => TypeOK
<1>. SUFFICES ASSUME LInv PROVE TypeOK
    OBVIOUS
<1>1. /\ DOMAIN ledger = 1 .. Len(ledger) /\ Len(ledger) \in Nat /\ Len(ledger) <= MaxRevs
      /\ MaxRevs \in Nat
    BY FilesAssumption DEF LInv, SInv, FInv, IsSeq, LedgerKnown
<1>2. DOMAIN ledger \subseteq Rev
    BY <1>1 DEF Rev
<1>6. ASSUME NEW f \in DOMAIN disk, f[1] = "node" PROVE disk[f] # Mixed
  <2>1. PICK r \in DOMAIN ledger : disk[f] \in {Torn, ledger[r]}
      BY <1>6 DEF LInv, SInv, FInv, NodeFilesHold
  <2>. QED BY <2>1, LedgerNotMixed, TornAssumption
<1>3. ASSUME NEW f \in DOMAIN disk, disk[f] \notin {Torn, Mixed}
      PROVE  \/ f[1] = "node" /\ f[2] \in Rev /\ disk[f] = ledger[f[2]]
             \/ f = HeadsFile /\ DOMAIN disk[f] \subseteq Branch /\ \A b \in DOMAIN disk[f] : disk[f][b] \in Rev
             \/ f[1] = "schema" /\ f[2] \in Branch /\ disk[f] \in Rev
             \/ f = HeadFile /\ disk[f] \in Branch
  <2>1. Known([file |-> f, text |-> disk[f]])
      BY <1>3 DEF LInv, FilesKnown
  <2>2. CASE f[1] = "node"
    <3>1. PICK r \in DOMAIN ledger : f = NodeFile(r) /\ disk[f] = ledger[r]
        BY <1>3, <2>2 DEF LInv, SInv, FInv, NodeFilesHold
    <3>2. f[2] = r
        BY <3>1 DEF NodeFile
    <3>. QED BY <1>2, <2>2, <3>1, <3>2
  <2>3. CASE f = HeadsFile /\ HeadMap(disk[f])
    <3>1. DOMAIN disk[f] \subseteq Branch
        BY <2>3 DEF HeadMap
    <3>2. \A b \in DOMAIN disk[f] : disk[f][b] \in NodesOnDisk
        BY <1>3, <2>3 DEF LInv, SInv, FInv, HeadsWithin, Exists
    <3>3. NodesOnDisk \subseteq Rev
        BY <1>1 DEF NodesOnDisk, Rev
    <3>. QED BY <2>3, <3>1, <3>2, <3>3
  <2>4. CASE f[1] = "schema" /\ f[2] \in Branch
    <3>1. disk[f] \in saved.revs /\ saved.revs \subseteq DOMAIN ledger
        BY <1>3, <2>4 DEF LInv, SInv, SchemaFilesHold
    <3>. QED BY <1>2, <2>4, <3>1
  <2>5. CASE f = HeadFile /\ disk[f] \in Branch
      BY <2>5
  <2>. QED BY <2>1, <2>2, <2>3, <2>4, <2>5 DEF Known
<1>4. \A p \in Proc : proc[p].pc \in Pc /\ (proc[p].pc \in {"open", "fill"} => proc[p].todo # <<>>)
    BY DEF LInv, SInv, FInv, ProcHolds, ProcKnown
<1>5. saved.revs \subseteq Rev /\ crashes \in 0 .. MaxCrashes
    BY <1>2 DEF LInv
<1>. QED BY <1>1, <1>3, <1>4, <1>5, <1>6 DEF TypeOK

NothingTorn == \A f \in DOMAIN disk : disk[f] # Torn

Loadable ==
  NodesReadable /\ HeadsReadable([r \in NodesOnDisk |-> disk[NodeFile(r)]])

LEMMA LInvLoads ==
  LInv /\ DOMAIN disk # {} /\ NothingTorn => NodesReadable /\ (disk[HeadsFile] # Mixed => Loadable)
<1>. SUFFICES ASSUME LInv, DOMAIN disk # {}, NothingTorn
              PROVE  NodesReadable /\ (disk[HeadsFile] # Mixed => Loadable)
    OBVIOUS
<1>. DEFINE ns == [r \in NodesOnDisk |-> disk[NodeFile(r)]]
<1>1. \A r \in NodesOnDisk : NodeFile(r) \in DOMAIN disk /\ ns[r] # Torn
    BY DEF NodesOnDisk, Exists, NothingTorn
<1>2. \A r \in NodesOnDisk : ns[r] = ledger[r]
    BY <1>1 DEF LInv, SInv, FInv, NodeFilesHold, NodeFile
<1>3. ParentClosed(ns, NodesOnDisk)
    BY <1>2 DEF LInv, ParentClosed, ParentsOf
<1>4. NodesReadable
    BY <1>1, <1>3 DEF NodesReadable
<1>5. HeadsFile \in DOMAIN disk /\ disk[HeadsFile] # Torn
    BY DEF LInv, Exists, NothingTorn
<1>6. disk[HeadsFile] # Mixed =>
        \A b \in DOMAIN disk[HeadsFile] : disk[HeadsFile][b] \in NodesOnDisk
    BY <1>5 DEF LInv, SInv, FInv, HeadsWithin, Exists
<1>7. DOMAIN ns = NodesOnDisk
    OBVIOUS
<1>. HIDE DEF ns
<1>8. disk[HeadsFile] # Mixed => HeadsReadable(ns)
    BY <1>5, <1>6, <1>7 DEF HeadsReadable
<1>. QED BY <1>4, <1>8 DEF Loadable, ns

LEMMA LoadInductive == Spec => []LInv
<1>1. Init => LInv
    BY InitLInv
<1>2. LInv /\ [Next]_vars => LInv'
    BY LInvInductive
<1>. QED BY <1>1, <1>2, PTL DEF Spec

\* Every file holds what its kind holds or is torn, no node file is a mix of
\* two texts, and every process is at a step it can go on from.
THEOREM FilesHaveTypes == Spec => []TypeOK
<1>1. LInv => TypeOK
    BY LInvTypes
<1>. QED BY <1>1, LoadInductive, PTL

\* At every moment, also between the writes of several processes and after
\* some of them have stopped or raised, only two things keep the repository
\* from being loaded: a torn file, and a heads.json that overlapping writers
\* left a mix of their texts. _topologically_sorted finds every parent and
\* set_branch every head.
THEOREM OnlyTornFilesStopALoad ==
  Spec => [](DOMAIN disk # {} /\ NothingTorn =>
               NodesReadable /\ (disk[HeadsFile] # Mixed => Loadable))
<1>1. LInv => (DOMAIN disk # {} /\ NothingTorn =>
                 NodesReadable /\ (disk[HeadsFile] # Mixed => Loadable))
    BY LInvLoads
<1>. QED BY <1>1, LoadInductive, PTL

\* As long as no process has stopped in the middle, what commands that ran
\* against each other without a lock leave behind has every node file whole,
\* and can be loaded unless their heads.json texts mixed.
THEOREM LoadsWhenQuiet == Spec => [](crashes = 0 => QuiescentLoads)
<1>1. LInv => (crashes = 0 => QuiescentLoads)
  <2>. SUFFICES ASSUME LInv, crashes = 0, DOMAIN disk # {}, \A p \in Proc : proc[p].pc = "idle"
                PROVE  NothingTorn /\ NodesReadable /\ (disk[HeadsFile] # Mixed => Loadable)
      BY DEF QuiescentLoads, NothingTorn, Loadable
  <2>1. NothingTorn
      BY DEF LInv, TornHeld, NothingTorn
  <2>. QED BY <2>1, LInvLoads
<1>. QED BY <1>1, LoadInductive, PTL

----------------------------------------------------------------------------
(* One process keeps what Refs promises.                                     *)

\* What the files have shown so far: the nodes of Refs.
Shown == [r \in saved.revs |-> ledger[r]]

\* The revisions that heads lead to.
Reached(ns, hs) == UNION {Ancestors(ns, hs[b]) : b \in DOMAIN hs}

\* From the nodes old and the heads hs0, heads hs over the nodes ns are one step
\* of Refs, or none.
Stays(old, hs0, ns, hs) == hs = hs0 /\ Reached(ns, hs) \subseteq DOMAIN old

Drops(old, hs0, ns, hs, b) ==
  b \in DOMAIN hs0 /\ hs = Remove(hs0, b) /\ Reached(ns, hs) \subseteq DOMAIN old

Moves(old, hs0, ns, hs, b) ==
  \E rev \in Reached(old, hs0) :
    /\ hs = Put(hs0, b, rev) /\ Reached(ns, hs) \subseteq DOMAIN old
    /\ b \in DOMAIN hs0 => \/ rev \in FirstParentLine(old, hs0[b])
                           \/ Ancestors(old, hs0[b]) \subseteq Ancestors(old, rev)

NewNode(old, ns, hs, rev, node) ==
  /\ rev \in DOMAIN ns \ DOMAIN old /\ ns[rev] = node
  /\ DOMAIN old \cup Reached(ns, hs) = DOMAIN old \cup {rev}

Grows(old, hs0, ns, hs, b) ==
  /\ b \in DOMAIN hs0
  /\ \E rev \in DOMAIN ns : hs = Put(hs0, b, rev) /\
       \E ps \in {<<hs0[b]>>} \cup {<<hs0[b], hs0[s]>> : s \in DOMAIN hs0} :
         NewNode(old, ns, hs, rev, [parents |-> ps, branch |-> b])

Restarts(old, ns, hs, b) ==
  \E rev \in DOMAIN ns :
    hs = [a \in {b} |-> rev] /\ NewNode(old, ns, hs, rev, [parents |-> <<>>, branch |-> b])

Promises(old, hs0, ns, hs) ==
  \/ Stays(old, hs0, ns, hs)
  \/ \E b \in Branch : \/ Drops(old, hs0, ns, hs, b) \/ Moves(old, hs0, ns, hs, b)
                       \/ Grows(old, hs0, ns, hs, b) \/ Restarts(old, ns, hs, b)

\* In a list, heads.json gets the heads hs, and before that the empty one that
\* init_storage writes where there was none.
WritesOnly(t, hs, hs0) ==
  /\ IsSeq(t)
  /\ \A i \in DOMAIN t : t[i].file = HeadsFile =>
       t[i].text = hs \/ (i = 1 /\ t[i].text = None /\ hs0 = None)

ProcPromises(p) ==
  LET s == proc[p].store  cmd == proc[p].cmd
  IN  /\ proc[p].pc \in {"nodes", "heads"} => cmd.op # "init"
      /\ proc[p].pc = "decide" => IF cmd.op = "init" THEN cmd.b = Main ELSE s.heads = saved.heads
      /\ proc[p].pc \in {"open", "fill"} =>
           WritesOnly(proc[p].todo, s.heads, saved.heads) /\ Promises(Shown, saved.heads, s.nodes, s.heads)
      /\ proc[p].pc = "fill" => disk[proc[p].todo[1].file] = Torn

\* The heads last saved are revisions that were, and what heads.json says.
SavedHolds ==
  /\ ParentClosed(ledger, saved.revs)
  /\ \A b \in DOMAIN saved.heads : saved.heads[b] \in saved.revs
  /\ IF Exists(HeadsFile) THEN disk[HeadsFile] \in {Torn, saved.heads} ELSE saved.heads = None

\* Nobody writes over what somebody else is writing.
NothingMixed == \A f \in DOMAIN disk : disk[f] # Mixed

RInv == LInv /\ SavedHolds /\ NothingMixed /\ \A p \in Proc : ProcPromises(p)

\* What holds of all revisions that were ever shown holds in the ledger.
LEMMA ShownGrown ==
  ASSUME LInv, SavedHolds
  PROVE  /\ DOMAIN Shown = saved.revs /\ \A r \in saved.revs : Shown[r] = ledger[r]
         /\ ParentsStored(Shown) /\ ParentsStored(ledger) /\ Grown(Shown, ledger)
         /\ \A r \in DOMAIN Shown : Shown[r].parents \in Seq(DOMAIN Shown)
<1>1. /\ IsSeq(ledger) /\ LedgerKnown /\ saved.revs \subseteq DOMAIN ledger
    BY DEF LInv, SInv, FInv
<1>2. DOMAIN Shown = saved.revs /\ \A r \in saved.revs : Shown[r] = ledger[r]
    BY DEF Shown
<1>. HIDE DEF Shown
<1>3. Grown(Shown, ledger)
    BY <1>1, <1>2 DEF Grown
<1>4. ParentsStored(Shown)
    BY <1>1, <1>2 DEF ParentsStored, SavedHolds, ParentClosed, ParentsOf
<1>5. /\ DOMAIN ledger = 1 .. Len(ledger) /\ Len(ledger) \in Nat
      /\ \A r \in DOMAIN ledger : ParentsOf(ledger, r) \subseteq 1 .. (r - 1)
    BY <1>1, LedgerParents
<1>6. ParentsStored(ledger)
  <2>1. \A r \in DOMAIN ledger : 1 .. (r - 1) \subseteq DOMAIN ledger
      BY <1>5
  <2>. QED BY <1>5, <2>1 DEF ParentsStored, ParentClosed
<1>7. ASSUME NEW r \in DOMAIN Shown PROVE Shown[r].parents \in Seq(DOMAIN Shown)
  <2>1. Shown[r].parents \in Seq(1 .. (r - 1))
      BY <1>1, <1>2 DEF LedgerKnown
  <2>2. \A i \in DOMAIN Shown[r].parents : Shown[r].parents[i] \in DOMAIN Shown
      BY <1>4 DEF ParentsStored, ParentClosed, ParentsOf
  <2>. QED BY <2>1, <2>2
<1>. QED BY <1>2, <1>3, <1>4, <1>6, <1>7

\* A store that was loaded shows the same of the revisions that were saved.
LEMMA LoadedAlike ==
  ASSUME LInv, SavedHolds, NEW s, StoreHolds(s)
  PROVE  /\ ParentsStored(s.nodes) /\ Grown(s.nodes, ledger)
         /\ \A x \in DOMAIN s.nodes : s.nodes[x].parents \in Seq(DOMAIN s.nodes)
         /\ \A r \in DOMAIN s.nodes \cap saved.revs :
              /\ Ancestors(s.nodes, r) = Ancestors(Shown, r) /\ Ancestors(s.nodes, r) \subseteq saved.revs
              /\ FirstParentLine(s.nodes, r) = FirstParentLine(Shown, r)
<1>. DEFINE ns == s.nodes
<1>1. /\ DOMAIN ns \subseteq DOMAIN ledger /\ \A r \in DOMAIN ns : ns[r] = ledger[r]
      /\ ParentClosed(ledger, DOMAIN ns)
    BY DEF StoreHolds
<1>2. LedgerKnown
    BY DEF LInv
<1>. HIDE DEF ns
<1>3. Grown(ns, ledger) /\ ParentsStored(ns)
    BY <1>1 DEF Grown, ParentsStored, ParentClosed, ParentsOf
<1>4. ASSUME NEW r \in DOMAIN ns PROVE ns[r].parents \in Seq(DOMAIN ns)
  <2>1. ns[r].parents \in Seq(1 .. (r - 1))
      BY <1>1, <1>2 DEF LedgerKnown
  <2>2. \A i \in DOMAIN ns[r].parents : ns[r].parents[i] \in DOMAIN ns
      BY <1>3 DEF ParentsStored, ParentClosed, ParentsOf
  <2>. QED BY <2>1, <2>2
<1>5. ASSUME NEW r \in DOMAIN ns \cap saved.revs
      PROVE  /\ Ancestors(ns, r) = Ancestors(Shown, r) /\ Ancestors(ns, r) \subseteq saved.revs
             /\ FirstParentLine(ns, r) = FirstParentLine(Shown, r)
  <2>1. Ancestors(ledger, r) = Ancestors(ns, r) /\ Ancestors(ledger, r) = Ancestors(Shown, r)
      BY <1>3, ShownGrown, AncestorsStable
  <2>2. FirstParentLine(ledger, r) = FirstParentLine(ns, r)
      BY <1>3, <1>4, FirstParentStable
  <2>3. FirstParentLine(ledger, r) = FirstParentLine(Shown, r)
      BY ShownGrown, FirstParentStable
  <2>4. Ancestors(Shown, r) \subseteq saved.revs
      BY ShownGrown DEF Ancestors
  <2>. QED BY <2>1, <2>2, <2>3, <2>4
<1>. QED BY <1>3, <1>4, <1>5 DEF ns

LEMMA OldReached ==
  ASSUME LInv, SavedHolds, NEW s, StoreHolds(s),
         NEW hs, \A b \in DOMAIN hs : hs[b] \in DOMAIN s.nodes \cap saved.revs
  PROVE  Reached(s.nodes, hs) \subseteq DOMAIN Shown
<1>1. \A b \in DOMAIN hs : Ancestors(s.nodes, hs[b]) \subseteq saved.revs
    BY LoadedAlike
<1>. QED BY <1>1, ShownGrown DEF Reached

\* A commit on revisions that were saved is one new node.
LEMMA NodeAdded ==
  ASSUME LInv, SavedHolds, NEW s, StoreHolds(s),
         NEW node, node.parents \in Seq(DOMAIN s.nodes),
         \A i \in DOMAIN node.parents : node.parents[i] \in saved.revs,
         NEW hs, \A b \in DOMAIN hs : hs[b] = NewRev \/ hs[b] \in DOMAIN s.nodes \cap saved.revs,
         NEW c \in DOMAIN hs, hs[c] = NewRev
  PROVE  NewRev \in DOMAIN Put(s.nodes, NewRev, node)
         /\ NewNode(Shown, Put(s.nodes, NewRev, node), hs, NewRev, node)
<1>. DEFINE ns == Put(s.nodes, NewRev, node)
<1>1. DOMAIN s.nodes \subseteq DOMAIN ledger /\ saved.revs \subseteq DOMAIN ledger /\ NewRev \notin DOMAIN ledger
    BY DEF StoreHolds, LInv, SInv, FInv, IsSeq, NewRev
<1>2. /\ DOMAIN ns = DOMAIN s.nodes \cup {NewRev} /\ ns[NewRev] = node
      /\ \A r \in DOMAIN s.nodes : ns[r] = s.nodes[r]
    BY <1>1 DEF Put
<1>. HIDE DEF ns
<1>3. ParentsStored(s.nodes)
    BY LoadedAlike
<1>4. ParentsOf(ns, NewRev) \subseteq DOMAIN s.nodes \cap saved.revs
  <2>1. \A i \in DOMAIN node.parents : node.parents[i] \in DOMAIN s.nodes
      BY SeqElement
  <2>. QED BY <1>2, <2>1 DEF ParentsOf
<1>5. ParentsStored(ns) /\ Grown(s.nodes, ns)
    BY <1>2, <1>3, <1>4 DEF ParentsStored, ParentClosed, ParentsOf, Grown
<1>6. \A r \in DOMAIN s.nodes \cap saved.revs : Ancestors(ns, r) \subseteq saved.revs
  <2>1. \A r \in DOMAIN s.nodes : Ancestors(ns, r) = Ancestors(s.nodes, r)
      BY <1>3, <1>5, AncestorsStable
  <2>. QED BY <2>1, LoadedAlike
<1>7. NewRev \in Ancestors(ns, NewRev) /\ Ancestors(ns, NewRev) \subseteq saved.revs \cup {NewRev}
  <2>1. \A x : x \in Ancestors(ns, NewRev) <=>
                 x = NewRev \/ \E p \in ParentsOf(ns, NewRev) : x \in Ancestors(ns, p)
      BY <1>2, <1>5, AncestorsOfNode
  <2>. QED BY <1>4, <1>6, <2>1
<1>8. NewRev \in Reached(ns, hs) /\ Reached(ns, hs) \subseteq saved.revs \cup {NewRev}
    BY <1>6, <1>7 DEF Reached
<1>9. DOMAIN Shown = saved.revs
    BY ShownGrown
<1>10. NewNode(Shown, ns, hs, NewRev, node)
  <2>. HIDE DEF NewRev
  <2>. QED BY <1>1, <1>2, <1>8, <1>9 DEF NewNode
<1>. QED BY <1>2, <1>10 DEF ns

\* Whatever a command decides is a step of Refs, or none.
LEMMA CommandOutcomePromised ==
  ASSUME LInv, SavedHolds, NEW s, StoreHolds(s), NEW cmd, cmd.b \in Branch,
         IF cmd.op = "init" THEN cmd.b = Main ELSE s.heads = saved.heads,
         NEW out \in CommandOutcomes(cmd, s)
  PROVE  LET node == [parents |-> out.node, branch |-> cmd.b]
             ns == IF out.node = NoNode THEN s.nodes ELSE Put(s.nodes, NewRev, node)
         IN  Promises(Shown, saved.heads, ns, out.heads)
<1>. DEFINE node == [parents |-> out.node, branch |-> cmd.b]
            ns == IF out.node = NoNode THEN s.nodes ELSE Put(s.nodes, NewRev, node)
            hs0 == saved.heads
            Goal == Promises(Shown, hs0, ns, out.heads)
<1>. SUFFICES Goal
    OBVIOUS
<1>1. \A b \in DOMAIN s.heads : s.heads[b] \in DOMAIN s.nodes
    BY DEF StoreHolds
<1>2. \A b \in DOMAIN hs0 : hs0[b] \in saved.revs
    BY DEF SavedHolds
<1>3. CASE cmd.op = "init"
  <2>1. out = Outcome(<<>>, Put(None, Main, NewRev), Main, Main)
      BY <1>3 DEF CommandOutcomes
  <2>2. out.node = <<>> /\ out.node # NoNode /\ out.heads = [a \in {Main} |-> NewRev]
      BY <2>1 DEF Outcome, Put, None, NoNode
  <2>. DEFINE root == [parents |-> <<>>, branch |-> Main]
              hs == [a \in {Main} |-> NewRev]
  <2>3. node = root /\ ns = Put(s.nodes, NewRev, root)
      BY <1>3, <2>2
  <2>4. /\ root.parents \in Seq(DOMAIN s.nodes) /\ DOMAIN root.parents = {}
        /\ \A b \in DOMAIN hs : hs[b] = NewRev
        /\ Main \in DOMAIN hs /\ hs[Main] = NewRev
      OBVIOUS
  <2>. HIDE DEF root, hs, ns, NewRev
  <2>5. NewRev \in DOMAIN ns /\ NewNode(Shown, ns, hs, NewRev, root)
      BY <2>3, <2>4, NodeAdded
  <2>6. Restarts(Shown, ns, hs, Main)
      BY <2>5 DEF Restarts, root, hs
  <2>. QED BY <2>2, <2>6, FilesAssumption DEF Promises, hs
<1>4. CASE cmd.op # "init"
  <2>1. s.heads = hs0
      BY <1>4
  <2>2. \A b \in DOMAIN hs0 : hs0[b] \in DOMAIN s.nodes \cap saved.revs
      BY <1>1, <1>2, <2>1
  <2>3. DOMAIN Shown = saved.revs /\ ParentsStored(Shown)
      BY ShownGrown
  <2>4. \A r \in DOMAIN s.nodes \cap saved.revs :
          /\ Ancestors(s.nodes, r) = Ancestors(Shown, r) /\ Ancestors(s.nodes, r) \subseteq saved.revs
          /\ FirstParentLine(s.nodes, r) = FirstParentLine(Shown, r)
      BY LoadedAlike
  <2>5. \A b \in DOMAIN hs0 : hs0[b] \in Reached(Shown, hs0) /\ Ancestors(Shown, hs0[b]) \subseteq Reached(Shown, hs0)
      BY <2>2, <2>3, AncestorsSelf DEF Reached
  <2>6. ASSUME out.node = NoNode, out.heads = hs0
        PROVE  Goal
    <3>1. Stays(Shown, hs0, s.nodes, hs0)
        BY <2>2, OldReached DEF Stays
    <3>. QED BY <2>6, <3>1 DEF Promises
  <2>7. ASSUME NEW b \in Branch, NEW rev \in DOMAIN s.nodes \cap saved.revs,
               out.node = NoNode, out.heads = Put(hs0, b, rev), rev \in Reached(Shown, hs0),
               b \in DOMAIN hs0 => \/ rev \in FirstParentLine(Shown, hs0[b])
                                   \/ Ancestors(Shown, hs0[b]) \subseteq Ancestors(Shown, rev)
        PROVE  Goal
    <3>. DEFINE hs == Put(hs0, b, rev)
    <3>1. \A a \in DOMAIN hs : hs[a] \in DOMAIN s.nodes \cap saved.revs
        BY <2>2 DEF Put
    <3>. HIDE DEF hs
    <3>2. Reached(s.nodes, hs) \subseteq DOMAIN Shown
        BY <3>1, OldReached
    <3>3. Moves(Shown, hs0, s.nodes, hs, b)
        BY <2>7, <3>2 DEF Moves, hs
    <3>. QED BY <2>7, <3>3 DEF Promises, hs
  <2>8. ASSUME NEW b \in DOMAIN hs0, b = cmd.b,
               NEW ps \in {<<hs0[b]>>} \cup {<<hs0[b], hs0[a]>> : a \in DOMAIN hs0},
               out \in Committed(s, b, ps)
        PROVE  Goal
    <3>1. out.node = ps /\ out.heads = Put(hs0, b, NewRev)
        BY <2>1, <2>8 DEF Committed, Outcome
    <3>. DEFINE hs == Put(hs0, b, NewRev)
                made == [parents |-> ps, branch |-> b]
    <3>2. /\ ps \in Seq(DOMAIN s.nodes) /\ \A i \in DOMAIN ps : ps[i] \in saved.revs
          /\ ps # NoNode
      <4>1. PICK a \in DOMAIN hs0 : ps = <<hs0[b]>> \/ ps = <<hs0[b], hs0[a]>>
          OBVIOUS
      <4>2. /\ hs0[b] \in DOMAIN s.nodes \cap saved.revs /\ hs0[a] \in DOMAIN s.nodes \cap saved.revs
          BY <2>2
      <4>3. ps \in Seq(DOMAIN s.nodes \cap saved.revs)
          BY <4>1, <4>2, ShortSeqs
      <4>4. 0 \notin DOMAIN s.nodes
          BY DEF StoreHolds, LInv, SInv, FInv, IsSeq
      <4>5. ps[1] # 0
          BY <4>1, <4>2, <4>4
      <4>6. ps # NoNode
          BY <4>5 DEF NoNode
      <4>. QED BY <4>3, <4>6
    <3>3. ns = Put(s.nodes, NewRev, made)
        BY <2>8, <3>1, <3>2
    <3>4. /\ \A a \in DOMAIN hs : hs[a] = NewRev \/ hs[a] \in DOMAIN s.nodes \cap saved.revs
          /\ b \in DOMAIN hs /\ hs[b] = NewRev /\ made.parents = ps /\ hs = Put(hs0, b, NewRev)
        BY <2>2 DEF Put
    <3>. HIDE DEF hs, ns, made
    <3>5. NewRev \in DOMAIN ns /\ NewNode(Shown, ns, hs, NewRev, made)
        BY <3>2, <3>3, <3>4, NodeAdded
    <3>6. Grows(Shown, hs0, ns, hs, b)
        BY <2>8, <3>4, <3>5 DEF Grows, made
    <3>. QED BY <2>8, <3>1, <3>4, <3>6 DEF Promises
  <2>. HIDE DEF Goal, ns
  <2>9. CASE cmd.op = "create"
    <3>1. /\ cmd.b \notin DOMAIN hs0 /\ cmd.other \in DOMAIN hs0
          /\ out = Outcome(NoNode, Put(hs0, cmd.b, hs0[cmd.other]), cmd.b, cmd.b)
        BY <1>4, <2>1, <2>9 DEF CommandOutcomes
    <3>. QED BY <2>2, <2>5, <2>7, <3>1 DEF Outcome
  <2>10. CASE cmd.op # "create"
    <3>. DEFINE b == cmd.b  head == hs0[b]
    <3>1. b \in DOMAIN hs0 /\ out \in BranchOutcomes(cmd, s)
        BY <1>4, <2>1, <2>10 DEF CommandOutcomes
    <3>2. CASE cmd.op = "delete"
      <4>1. out.node = NoNode /\ out.heads = Remove(hs0, b)
          BY <2>1, <3>1, <3>2 DEF BranchOutcomes, Outcome
      <4>2. \A a \in DOMAIN Remove(hs0, b) : Remove(hs0, b)[a] \in DOMAIN s.nodes \cap saved.revs
          BY <2>2 DEF Remove
      <4>3. Drops(Shown, hs0, s.nodes, Remove(hs0, b), b)
          BY <3>1, <4>2, OldReached DEF Drops
      <4>. QED BY <4>1, <4>3 DEF Promises, Goal, ns
    <3>3. CASE cmd.op = "rollback"
      <4>1. PICK rev \in FirstParentLine(s.nodes, head) : out = Outcome(NoNode, Put(hs0, b, rev), b, NoBranch)
          BY <2>1, <3>1, <3>3 DEF BranchOutcomes
      <4>2. /\ \A x \in DOMAIN s.nodes : s.nodes[x].parents \in Seq(DOMAIN s.nodes)
            /\ ParentsStored(s.nodes) /\ head \in DOMAIN s.nodes \cap saved.revs
          BY <2>2, <3>1, LoadedAlike
      <4>3. rev \in Ancestors(s.nodes, head)
          BY <4>2, FirstParentLineInAncestors
      <4>4. rev \in DOMAIN s.nodes \cap saved.revs /\ rev \in Reached(Shown, hs0)
            /\ rev \in FirstParentLine(Shown, head)
          BY <2>4, <2>5, <3>1, <4>2, <4>3 DEF Ancestors
      <4>. QED BY <2>7, <4>1, <4>4 DEF Outcome
    <3>4. CASE cmd.op = "checkout"
      <4>1. out.node = NoNode /\ out.heads = hs0
          BY <2>1, <3>1, <3>4 DEF BranchOutcomes, Outcome
      <4>. QED BY <2>6, <4>1
    <3>5. CASE cmd.op \in {"migrate", "sync"}
      <4>1. out \in Committed(s, b, <<head>>)
          BY <2>1, <3>1, <3>5 DEF BranchOutcomes
      <4>. QED BY <2>8, <3>1, <4>1
    <3>6. CASE cmd.op = "merge"
      <4>. DEFINE theirs == hs0[cmd.other]
      <4>1. cmd.other \in DOMAIN hs0 /\ out \in MergeOutcomes(s, b, cmd.other)
          BY <2>1, <3>1, <3>6 DEF BranchOutcomes
      <4>2. \/ /\ head # theirs /\ MergeBases(s.nodes, head, theirs) = {head}
               /\ out = Outcome(NoNode, Put(hs0, b, theirs), b, NoBranch)
            \/ out \in Committed(s, b, <<head, theirs>>)
          BY <2>1, <4>1 DEF MergeOutcomes
      <4>3. CASE out \in Committed(s, b, <<head, theirs>>)
          BY <2>8, <3>1, <4>1, <4>3
      <4>4. ASSUME head # theirs, MergeBases(s.nodes, head, theirs) = {head},
                   out = Outcome(NoNode, Put(hs0, b, theirs), b, NoBranch)
            PROVE  Goal
        <5>1. head \in Ancestors(s.nodes, theirs)
            BY <4>4 DEF MergeBases, CommonAncestors
        <5>2. theirs \in DOMAIN s.nodes \cap saved.revs /\ head \in DOMAIN s.nodes \cap saved.revs
            BY <2>2, <3>1, <4>1
        <5>3. Ancestors(s.nodes, head) \subseteq Ancestors(s.nodes, theirs)
            BY <5>1, <5>2, AncestorsTransitive, LoadedAlike
        <5>4. Ancestors(Shown, head) \subseteq Ancestors(Shown, theirs)
            BY <2>4, <5>2, <5>3
        <5>5. out.node = NoNode /\ out.heads = Put(hs0, b, theirs)
            BY <4>4 DEF Outcome
        <5>. QED BY <2>5, <2>7, <4>1, <5>2, <5>4, <5>5
      <4>. QED BY <4>2, <4>3, <4>4
    <3>. QED BY <3>1, <3>2, <3>3, <3>4, <3>5, <3>6 DEF BranchOutcomes
  <2>. QED BY <2>9, <2>10
<1>. QED BY <1>3, <1>4

LEMMA OutcomePromised ==
  ASSUME LInv, SavedHolds, NEW s, StoreHolds(s), NEW cmd, cmd.b \in Branch,
         IF cmd.op = "init" THEN cmd.b = Main ELSE s.heads = saved.heads,
         NEW out \in Outcomes(cmd, s)
  PROVE  LET node == [parents |-> out.node, branch |-> cmd.b]
             ns == IF out.node = NoNode THEN s.nodes ELSE Put(s.nodes, NewRev, node)
         IN  Promises(Shown, saved.heads, ns, out.heads)
<1>1. CASE out \in CommandOutcomes(cmd, s)
    BY <1>1, CommandOutcomePromised
<1>2. CASE out \notin CommandOutcomes(cmd, s)
  <2>1. PICK o \in CommandOutcomes(cmd, s) : out.node = o.node /\ out.heads = o.heads
      BY <1>2, OutcomeSplit
  <2>. QED BY <2>1, CommandOutcomePromised
<1>. QED BY <1>1, <1>2

LEMMA WritesOnlyMore ==
  ASSUME NEW x, NEW y, NEW hs, NEW hs0, WritesOnly(x, hs, hs0), IsSeq(y),
         \A i \in DOMAIN y : y[i].file = HeadsFile => y[i].text = hs
  PROVE  WritesOnly(x \o y, hs, hs0)
<1>. DEFINE u == x \o y
<1>1. IsSeq(x)
    BY DEF WritesOnly
<1>2. /\ IsSeq(u) /\ Len(x) \in Nat /\ DOMAIN x = 1 .. Len(x)
      /\ \A i \in DOMAIN x : i \in DOMAIN u /\ u[i] = x[i]
      /\ \A i \in DOMAIN y : i \in Nat /\ i > 0 /\ Len(x) + i \in DOMAIN u /\ u[Len(x) + i] = y[i]
      /\ \A i \in DOMAIN u : i \in Nat /\ (i \in DOMAIN x \/ \E j \in DOMAIN y : i = Len(x) + j)
    BY <1>1, ConcatSeq
<1>. HIDE DEF u
<1>3. WritesOnly(u, hs, hs0)
    BY <1>2 DEF WritesOnly
<1>. QED BY <1>3 DEF u

\* A command writes the heads it decided on, once what init_storage makes is there.
LEMMA CommandWritesOnly ==
  ASSUME NEW cmd, NEW ns, NEW out, NEW hs0, NEW n \in Nat, DOMAIN ns \subseteq 1 .. n,
         ~Exists(HeadsFile) => hs0 = None
  PROVE  WritesOnly(Writes(cmd, ns, out), out.heads, hs0)
<1>. DEFINE hs == out.heads
            a == IF cmd.op = "init" /\ ~Exists(HeadsFile) THEN Write(HeadsFile, None) ELSE <<>>
            b == IF cmd.op = "checkout" THEN <<>> ELSE SaveWrites(ns, hs)
            c == SyncWrites(out)
            d == SwitchWrites(out)
            Only(x) == IsSeq(x) /\ \A i \in DOMAIN x : x[i].file = HeadsFile => x[i].text = hs
<1>1. WritesOnly(a, hs, hs0)
  <2>1. CASE a = <<>>
      BY <2>1, PlainNothing DEF WritesOnly, Plain
  <2>2. CASE a # <<>>
    <3>1. a = Write(HeadsFile, None) /\ hs0 = None
        BY <2>2
    <3>2. IsSeq(a) /\ DOMAIN a = {1} /\ a[1] = [file |-> HeadsFile, text |-> None]
        BY <3>1, OneWrite
    <3>. HIDE DEF a
    <3>. QED BY <3>1, <3>2 DEF WritesOnly
  <2>. QED BY <2>1, <2>2
<1>2. ASSUME NEW f, NEW text, f # HeadsFile \/ text = hs
      PROVE  Only(Write(f, text))
  <2>. DEFINE x == Write(f, text)
  <2>1. IsSeq(x) /\ DOMAIN x = {1} /\ x[1] = [file |-> f, text |-> text]
      BY OneWrite
  <2>. HIDE DEF x
  <2>2. Only(x)
      BY <1>2, <2>1
  <2>. QED BY <2>2 DEF x
<1>3. Only(<<>>)
    BY PlainNothing DEF Plain
<1>4. Only(b)
  <2>1. CASE cmd.op = "checkout"
      BY <1>3, <2>1
  <2>2. CASE cmd.op # "checkout"
    <3>. DEFINE s == NodeWrites(ns)
                t == Write(HeadsFile, hs)
                u == s \o t
    <3>1. IsSeq(s) /\ \A i \in DOMAIN s : s[i].file # HeadsFile
        BY NodeWritesAll DEF NodeFile, HeadsFile
    <3>2. Only(t)
        BY <1>2
    <3>3. b = u
        BY <2>2 DEF SaveWrites
    <3>. HIDE DEF s, t, b
    <3>4. /\ IsSeq(u) /\ Len(s) \in Nat /\ DOMAIN s = 1 .. Len(s)
          /\ \A i \in DOMAIN s : i \in DOMAIN u /\ u[i] = s[i]
          /\ \A i \in DOMAIN t : i \in Nat /\ i > 0 /\ Len(s) + i \in DOMAIN u /\ u[Len(s) + i] = t[i]
          /\ \A i \in DOMAIN u : i \in Nat /\ (i \in DOMAIN s \/ \E j \in DOMAIN t : i = Len(s) + j)
        BY <3>1, <3>2, ConcatSeq
    <3>. HIDE DEF u
    <3>5. Only(u)
        BY <3>1, <3>2, <3>4
    <3>. QED BY <3>3, <3>5
  <2>. QED BY <2>1, <2>2
<1>5. Only(c) /\ Only(d)
  <2>1. SchemaFile(out.render) # HeadsFile /\ HeadFile # HeadsFile
      BY DEF SchemaFile, HeadsFile, HeadFile
  <2>2. c = <<>> \/ c = Write(SchemaFile(out.render), hs[out.render])
      BY DEF SyncWrites
  <2>3. d = <<>> \/ d = Write(HeadFile, out.switch)
      BY DEF SwitchWrites
  <2>. HIDE DEF Only, c, d
  <2>. QED BY <1>2, <1>3, <2>1, <2>2, <2>3
<1>6. Writes(cmd, ns, out) = ((a \o b) \o c) \o d
    BY DEF Writes
<1>. HIDE DEF a, b, c, d
<1>7. WritesOnly(a \o b, hs, hs0)
    BY <1>1, <1>4, WritesOnlyMore
<1>8. WritesOnly((a \o b) \o c, hs, hs0)
  <2>. DEFINE x == a \o b
  <2>. HIDE DEF x
  <2>. QED BY <1>5, <1>7, WritesOnlyMore DEF x
<1>9. WritesOnly(((a \o b) \o c) \o d, hs, hs0)
  <2>. DEFINE x == (a \o b) \o c
  <2>1. WritesOnly(x, hs, hs0)
      BY <1>8
  <2>. HIDE DEF x
  <2>2. WritesOnly(x \o d, hs, hs0)
      BY <1>5, <2>1, WritesOnlyMore
  <2>. QED BY <2>2 DEF x
<1>. QED BY <1>6, <1>9

----------------------------------------------------------------------------
(* The steps of one process.                                                 *)

\* A process that promised heads has promised them of the same revisions still.
LEMMA SameShown ==
  ASSUME LInv, LedgerGrows, UNCHANGED saved
  PROVE  Shown' = Shown
<1>1. \A r \in saved.revs : ledger'[r] = ledger[r]
    BY DEF LInv, LedgerGrows
<1>. QED BY <1>1 DEF Shown

\* Commands are run one after the other.
OneAtATime == \A p, q \in Proc : proc[p].pc # "idle" /\ proc[q].pc # "idle" => p = q

OthersRest(p) == \A q \in Proc : q # p => proc'[q].pc = "idle"

LEMMA RestPromises ==
  ASSUME NEW p, OthersRest(p), NEW q \in Proc, q # p
  PROVE  ProcPromises(q)'
BY DEF OthersRest, ProcPromises

\* Nothing is saved: what one process goes on to do it does alone.
LEMMA UnsavedKeeps ==
  ASSUME RInv, LInv', LedgerGrows, UNCHANGED saved, NEW p \in Proc, OthersRest(p), ProcPromises(p)',
         NothingMixed',
         IF Exists(HeadsFile)' THEN disk'[HeadsFile] \in {Torn, saved.heads} ELSE saved.heads = None
  PROVE  RInv' /\ Shown' = Shown
<1>1. Shown' = Shown
    BY SameShown DEF RInv
<1>2. ParentClosed(ledger, saved.revs)'
    BY DEF RInv, LInv, SavedHolds, ParentClosed, ParentsOf, LedgerGrows
<1>3. SavedHolds'
    BY <1>2 DEF RInv, SavedHolds
<1>4. \A q \in Proc : ProcPromises(q)'
    BY RestPromises
<1>. QED BY <1>1, <1>3, <1>4 DEF RInv

LEMMA PromisesDecided ==
  ASSUME RInv, LInv', NEW p \in Proc, OthersRest(p), Decide(p), ~GiveUp(p)
  PROVE  RInv' /\ Shown' = Shown
<1>. DEFINE cmd == proc[p].cmd
            s == proc[p].store
<1>1. PICK out \in Outcomes(cmd, s) :
        LET node == [parents |-> out.node, branch |-> cmd.b]
            ns == IF out.node = NoNode THEN s.nodes ELSE Put(s.nodes, NewRev, node)
        IN  /\ ledger' = IF out.node = NoNode THEN ledger ELSE Append(ledger, node)
            /\ proc' = [proc EXCEPT ![p] =
                          Doing("open", cmd, [nodes |-> ns, heads |-> out.heads], Writes(cmd, ns, out))]
    BY DEF Decide
<1>2. proc[p].pc = "decide" /\ UNCHANGED <<disk, crashes, saved>>
    BY DEF Decide
<1>. DEFINE node == [parents |-> out.node, branch |-> cmd.b]
            ns == IF out.node = NoNode THEN s.nodes ELSE Put(s.nodes, NewRev, node)
            todo == Writes(cmd, ns, out)
<1>3. StoreHolds(s) /\ cmd.b \in Branch /\ IsSeq(ledger) /\ LInv /\ SavedHolds
    BY <1>2 DEF RInv, LInv, SInv, FInv, ProcHolds
<1>4. IF cmd.op = "init" THEN cmd.b = Main ELSE s.heads = saved.heads
    BY <1>2 DEF RInv, ProcPromises
<1>5. Promises(Shown, saved.heads, ns, out.heads)
  <2>. HIDE DEF s, cmd
  <2>. QED BY <1>3, <1>4, OutcomePromised
<1>6. LedgerGrows
  <2>1. \A x : /\ DOMAIN ledger \subseteq DOMAIN Append(ledger, x)
               /\ \A i \in DOMAIN ledger : Append(ledger, x)[i] = ledger[i]
      BY <1>3, AppendSeq
  <2>. QED BY <1>1, <2>1 DEF LedgerGrows
<1>7. Shown' = Shown
    BY <1>2, <1>3, <1>6, SameShown
<1>8. /\ proc'[p].pc = "open" /\ proc'[p].cmd = cmd /\ proc'[p].todo = todo
      /\ proc'[p].store.nodes = ns /\ proc'[p].store.heads = out.heads
  <2>1. proc'[p] = Doing("open", cmd, [nodes |-> ns, heads |-> out.heads], todo)
      BY <1>1 DEF RInv, LInv, SInv, FInv, Shape
  <2>. HIDE DEF ns, todo
  <2>. QED BY <2>1 DEF Doing
<1>9. WritesOnly(todo, out.heads, saved.heads)
  <2>1. StoreHolds(proc[p].store)' /\ IsSeq(ledger)'
      BY DEF LInv, SInv, FInv, ProcHolds
  <2>2. DOMAIN ns \subseteq 1 .. Len(ledger') /\ Len(ledger') \in Nat
    <3>1. DOMAIN (proc'[p].store.nodes) \subseteq DOMAIN ledger'
        BY <2>1 DEF StoreHolds
    <3>2. DOMAIN ledger' = 1 .. Len(ledger') /\ Len(ledger') \in Nat
        BY <2>1 DEF IsSeq
    <3>. HIDE DEF ns
    <3>. QED BY <1>8, <3>1, <3>2
  <2>3. ~Exists(HeadsFile) => saved.heads = None
      BY <1>3 DEF SavedHolds
  <2>. HIDE DEF ns, cmd
  <2>. QED BY <2>2, <2>3, CommandWritesOnly
<1>. HIDE DEF ns, todo, cmd, s
<1>10. ProcPromises(p)'
    BY <1>2, <1>5, <1>7, <1>8, <1>9 DEF ProcPromises
<1>11. /\ IF Exists(HeadsFile)' THEN disk'[HeadsFile] \in {Torn, saved.heads} ELSE saved.heads = None
       /\ NothingMixed'
    BY <1>2, <1>3 DEF RInv, SavedHolds, NothingMixed, Exists
<1>. QED BY <1>2, <1>6, <1>10, <1>11, UnsavedKeeps

----------------------------------------------------------------------------
(* Refs walks the graph as RepoFiles does.                                   *)

LEMMA SameWalks ==
  ASSUME NEW ns, NEW r
  PROVE  /\ Promised!Ancestors(ns, r) = Ancestors(ns, r)
         /\ Promised!FirstParentLine(ns, r) = FirstParentLine(ns, r)
  BY DEF Promised!Ancestors, Promised!FirstParentLine, Ancestors, FirstParentLine,
         Promised!ParentClosed, Promised!FirstParentClosed, ParentClosed, FirstParentClosed,
         Promised!ParentsOf, ParentsOf, Promised!IsRoot, IsRoot

LEMMA SameReachable ==
  ASSUME NEW ns, NEW hs
  PROVE  Promised!Reachable(ns, hs) = Reached(ns, hs)
  BY SameWalks DEF Promised!Reachable, Reached

\* Heads that are saved when they were promised make a step of Refs.
LEMMA SavingIsStep ==
  ASSUME LInv, SavedHolds, UNCHANGED ledger, NEW s, StoreHolds(s),
         Promises(Shown, saved.heads, s.nodes, s.heads),
         saved' = [heads |-> s.heads, revs |-> saved.revs \cup Reached(s.nodes, s.heads)]
  PROVE  [Promised!RefsNext]_Promised!refs
<1>. DEFINE ns == s.nodes
            hs == s.heads
<1>1. DOMAIN Shown = saved.revs /\ \A r \in saved.revs : Shown[r] = ledger[r]
    BY ShownGrown
<1>2. /\ saved'.heads = hs /\ saved'.revs = saved.revs \cup Reached(ns, hs)
      /\ Shown' = [r \in saved'.revs |-> ledger[r]]
    BY DEF Shown
<1>3. \A r \in DOMAIN ns : ns[r] = ledger[r]
    BY DEF StoreHolds
<1>4. Shown = [r \in saved.revs |-> ledger[r]] /\ Shown' = [r \in saved'.revs |-> ledger'[r]]
    BY DEF Shown
<1>. HIDE DEF ns, hs, Shown
<1>5. Reached(ns, hs) \subseteq DOMAIN Shown => Shown' = Shown
    BY <1>1, <1>2, <1>4
<1>6. ASSUME NEW rev, NEW node, NewNode(Shown, ns, hs, rev, node)
      PROVE  Shown' = Promised!Put(Shown, rev, node) /\ rev \in DOMAIN Shown' \ DOMAIN Shown
  <2>1. /\ rev \in DOMAIN ns \ DOMAIN Shown /\ node = ledger[rev]
        /\ saved'.revs = saved.revs \cup {rev}
      BY <1>1, <1>2, <1>3, <1>6 DEF NewNode
  <2>2. DOMAIN Shown' = saved.revs \cup {rev} /\ \A r \in DOMAIN Shown' : Shown'[r] = ledger[r]
      BY <1>2, <2>1
  <2>3. Promised!Put(Shown, rev, node) = [r \in saved.revs \cup {rev} |-> ledger[r]]
      BY <1>1, <2>1 DEF Promised!Put
  <2>. QED BY <1>2, <2>1, <2>2, <2>3
<1>7. CASE Stays(Shown, saved.heads, ns, hs)
  <2>1. Shown' = Shown /\ saved'.heads = saved.heads
      BY <1>2, <1>5, <1>7 DEF Stays
  <2>. QED BY <1>4, <2>1 DEF Promised!refs
<1>8. ASSUME NEW b \in Branch, Drops(Shown, saved.heads, ns, hs, b)
      PROVE  Promised!RefsNext
  <2>1. Shown' = Shown /\ b \in DOMAIN saved.heads /\ saved'.heads = Promised!Remove(saved.heads, b)
      BY <1>2, <1>5, <1>8 DEF Drops, Remove, Promised!Remove
  <2>2. Promised!Drop(b)
      BY <1>4, <2>1 DEF Promised!Drop
  <2>. QED BY <2>2 DEF Promised!RefsNext
<1>9. ASSUME NEW b \in Branch, Moves(Shown, saved.heads, ns, hs, b)
      PROVE  Promised!RefsNext
  <2>1. PICK rev \in Reached(Shown, saved.heads) :
          /\ hs = Put(saved.heads, b, rev) /\ Reached(ns, hs) \subseteq DOMAIN Shown
          /\ b \in DOMAIN saved.heads => \/ rev \in FirstParentLine(Shown, saved.heads[b])
                                         \/ Ancestors(Shown, saved.heads[b]) \subseteq Ancestors(Shown, rev)
      BY <1>9 DEF Moves
  <2>2. /\ Shown' = Shown /\ saved'.heads = Promised!Put(saved.heads, b, rev)
        /\ rev \in Promised!Reachable(Shown, saved.heads)
        /\ b \in DOMAIN saved.heads =>
             \/ rev \in Promised!FirstParentLine(Shown, saved.heads[b])
             \/ Promised!Ancestors(Shown, saved.heads[b]) \subseteq Promised!Ancestors(Shown, rev)
      BY <1>2, <1>5, <2>1, SameWalks, SameReachable DEF Put, Promised!Put
  <2>3. Promised!Move(b)
      BY <1>4, <2>2 DEF Promised!Move
  <2>. QED BY <2>3 DEF Promised!RefsNext
<1>10. ASSUME NEW b \in Branch, Grows(Shown, saved.heads, ns, hs, b)
       PROVE  Promised!RefsNext
  <2>1. PICK rev \in DOMAIN ns : hs = Put(saved.heads, b, rev) /\
          \E ps \in {<<saved.heads[b]>>} \cup {<<saved.heads[b], saved.heads[a]>> : a \in DOMAIN saved.heads} :
            NewNode(Shown, ns, hs, rev, [parents |-> ps, branch |-> b])
      BY <1>10 DEF Grows
  <2>2. PICK ps \in {<<saved.heads[b]>>} \cup {<<saved.heads[b], saved.heads[a]>> : a \in DOMAIN saved.heads} :
          NewNode(Shown, ns, hs, rev, [parents |-> ps, branch |-> b])
      BY <2>1
  <2>3. /\ Shown' = Promised!Put(Shown, rev, [parents |-> ps, branch |-> b])
        /\ rev \in DOMAIN Shown' \ DOMAIN Shown
      BY <1>6, <2>2
  <2>4. b \in DOMAIN saved.heads /\ saved'.heads = Promised!Put(saved.heads, b, rev)
      BY <1>2, <1>10, <2>1 DEF Grows, Put, Promised!Put
  <2>5. Promised!Grow(b)
      BY <1>4, <2>3, <2>4 DEF Promised!Grow
  <2>. QED BY <2>5 DEF Promised!RefsNext
<1>11. ASSUME NEW b \in Branch, Restarts(Shown, ns, hs, b)
       PROVE  Promised!RefsNext
  <2>1. PICK rev \in DOMAIN ns :
          hs = [a \in {b} |-> rev] /\ NewNode(Shown, ns, hs, rev, [parents |-> <<>>, branch |-> b])
      BY <1>11 DEF Restarts
  <2>2. /\ Shown' = Promised!Put(Shown, rev, [parents |-> <<>>, branch |-> b])
        /\ rev \in DOMAIN Shown' \ DOMAIN Shown /\ saved'.heads = [a \in {b} |-> rev]
      BY <1>2, <1>6, <2>1
  <2>3. Promised!Restart(b)
    <3>1. rev \in DOMAIN Shown' \ DOMAIN Shown
        BY <2>2
    <3>. QED BY <2>2, <3>1, Zenon DEF Promised!Restart, Shown
  <2>. QED BY <2>3 DEF Promised!RefsNext
<1>. QED BY <1>7, <1>8, <1>9, <1>10, <1>11 DEF Promises, ns, hs

\* Where nothing is saved Refs stutters.
LEMMA UnsavedIsStutter ==
  ASSUME Shown' = Shown, saved'.heads = saved.heads
  PROVE  [Promised!RefsNext]_Promised!refs
BY DEF Shown, Promised!refs

\* A process that writes alone fills a file it has emptied.
LEMMA FilledAlone ==
  ASSUME RInv, NEW p \in Proc, Fill(p)
  PROVE  /\ disk' = Put(disk, proc[p].todo[1].file, proc[p].todo[1].text)
         /\ NothingMixed'
<1>. DEFINE w == proc[p].todo[1]
<1>1. Head(proc[p].todo) = w /\ w.text \notin {Torn, Mixed} /\ disk[w.file] = Torn
    BY FirstWrite, WrittenNotTorn DEF Fill, RInv, LInv, SInv, ProcPromises
<1>2. \E text \in Overwritten(w.file, w.text) : disk' = Put(disk, w.file, text)
    BY <1>1 DEF Fill
<1>3. disk' = Put(disk, w.file, w.text)
    BY <1>1, <1>2, OverwrittenIs
<1>. HIDE DEF w
<1>4. NothingMixed'
    BY <1>1, <1>3 DEF RInv, NothingMixed, Put
<1>. QED BY <1>3, <1>4 DEF w

\* What is saved then is what was promised.
LEMMA SavedAsPromised ==
  ASSUME RInv, LInv', NEW p \in Proc, OthersRest(p), Fill(p), proc[p].todo[1].file = HeadsFile,
         proc[p].todo[1].text = proc[p].store.heads
  PROVE  RInv' /\ [Promised!RefsNext]_Promised!refs
<1>. DEFINE s == proc[p].store
            t == proc[p].todo
            ns == s.nodes
            hs == s.heads
<1>1. /\ proc[p].pc = "fill" /\ LInv /\ SavedHolds /\ StoreHolds(s) /\ IsSeq(t) /\ t # <<>>
      /\ WritesOnly(t, hs, saved.heads) /\ Promises(Shown, saved.heads, ns, hs)
    BY DEF Fill, RInv, LInv, SInv, FInv, ProcHolds, ProcPromises, WritesOnly
<1>2. Head(t) = t[1] /\ IsSeq(Tail(t)) /\
      \A i \in DOMAIN Tail(t) : i \in Nat /\ i > 0 /\ i + 1 \in DOMAIN t /\ Tail(t)[i] = t[i + 1]
    BY <1>1, TailSeq
<1>3. /\ disk' = Put(disk, HeadsFile, hs) /\ UNCHANGED <<crashes, ledger>>
      /\ saved' = [heads |-> hs, revs |-> saved.revs \cup Reached(ns, hs)]
  <2>1. Head(proc[p].todo).file = HeadsFile /\ Head(proc[p].todo).text = hs
      BY <1>2
  <2>2. /\ disk' = Put(disk, proc[p].todo[1].file, proc[p].todo[1].text)
        /\ saved' = IF Head(proc[p].todo).file # HeadsFile THEN saved
                    ELSE [heads |-> Head(proc[p].todo).text,
                          revs |-> saved.revs \cup
                                     UNION {Ancestors(proc[p].store.nodes, Head(proc[p].todo).text[b]) :
                                              b \in DOMAIN Head(proc[p].todo).text}]
        /\ UNCHANGED <<crashes, ledger>>
      BY FilledAlone DEF Fill
  <2>. QED BY <2>1, <2>2 DEF Reached
<1>4. IF Tail(t) = <<>> THEN GiveUp(p)
      ELSE proc' = [proc EXCEPT ![p] = Doing("open", proc[p].cmd, proc[p].store, Tail(t))]
    BY DEF Fill
<1>5. /\ DOMAIN ns \subseteq DOMAIN ledger /\ \A r \in DOMAIN ns : ns[r] = ledger[r]
      /\ \A b \in DOMAIN hs : hs[b] \in DOMAIN ns
      /\ ParentsStored(ns)
    BY <1>1, LoadedAlike DEF StoreHolds
<1>6. saved'.heads = hs /\ saved'.revs = saved.revs \cup Reached(ns, hs)
    BY <1>3
<1>7. ParentClosed(ledger, saved'.revs)
  <2>1. \A b \in DOMAIN hs : ParentClosed(ns, Ancestors(ns, hs[b])) /\ Ancestors(ns, hs[b]) \subseteq DOMAIN ns
      BY <1>5, AncestorsClosed DEF Ancestors
  <2>. HIDE DEF ns, hs
  <2>2. ASSUME NEW r \in Reached(ns, hs), NEW q \in ParentsOf(ledger, r)
        PROVE  q \in Reached(ns, hs)
    <3>1. PICK b \in DOMAIN hs : r \in Ancestors(ns, hs[b])
        BY DEF Reached
    <3>2. q \in ParentsOf(ns, r)
        BY <1>5, <2>1, <3>1 DEF ParentsOf
    <3>. QED BY <2>1, <3>1, <3>2 DEF ParentClosed, Reached
  <2>. QED BY <1>1, <1>6, <2>2 DEF SavedHolds, ParentClosed
<1>8. \A b \in DOMAIN hs : hs[b] \in saved'.revs
    BY <1>5, <1>6, AncestorsSelf DEF Reached
<1>9. SavedHolds'
  <2>1. disk'[HeadsFile] = hs /\ HeadsFile \in DOMAIN disk'
      BY <1>3 DEF Put
  <2>. HIDE DEF hs
  <2>. QED BY <1>3, <1>6, <1>7, <1>8, <2>1 DEF SavedHolds, Exists, ParentClosed, ParentsOf
<1>10. Stays(Shown', hs, ns, hs)
  <2>1. DOMAIN Shown' = saved'.revs
      BY DEF Shown
  <2>. QED BY <1>6, <2>1 DEF Stays
<1>11. ProcPromises(p)'
  <2>1. CASE Tail(t) = <<>>
    <3>1. proc'[p] = Idle
        BY <1>1, <1>4, <2>1 DEF GiveUp, LInv, SInv, FInv, Shape
    <3>2. proc'[p].pc = "idle"
        BY <3>1 DEF Idle, Doing
    <3>. QED BY <3>2 DEF ProcPromises
  <2>2. CASE Tail(t) # <<>>
    <3>1. proc'[p] = Doing("open", proc[p].cmd, s, Tail(t))
        BY <1>1, <1>4, <2>2 DEF LInv, SInv, FInv, Shape
    <3>2. proc'[p].pc = "open" /\ proc'[p].store = s /\ proc'[p].todo = Tail(t)
        BY <3>1 DEF Doing
    <3>3. WritesOnly(Tail(t), hs, hs)
        BY <1>1, <1>2 DEF WritesOnly
    <3>4. Promises(Shown', hs, ns, hs)
        BY <1>10 DEF Promises
    <3>. QED BY <1>6, <3>2, <3>3, <3>4 DEF ProcPromises
  <2>. QED BY <2>1, <2>2
<1>12. [Promised!RefsNext]_Promised!refs
    BY <1>1, <1>3, SavingIsStep
<1>13. \A q \in Proc : ProcPromises(q)'
    BY <1>11, RestPromises
<1>. QED BY <1>9, <1>12, <1>13, FilledAlone DEF RInv

\* Another file is written, or heads.json emptied before there were heads.
LEMMA OtherFilled ==
  ASSUME RInv, LInv', NEW p \in Proc, OthersRest(p), Fill(p),
         proc[p].todo[1].file # HeadsFile \/ proc[p].todo[1].text # proc[p].store.heads
  PROVE  RInv' /\ Shown' = Shown /\ saved'.heads = saved.heads
<1>. DEFINE s == proc[p].store
            t == proc[p].todo
            hs == s.heads
<1>1. /\ proc[p].pc = "fill" /\ LInv /\ SavedHolds /\ IsSeq(t) /\ t # <<>>
      /\ WritesOnly(t, hs, saved.heads) /\ Promises(Shown, saved.heads, s.nodes, hs)
    BY DEF Fill, RInv, LInv, SInv, FInv, ProcHolds, ProcPromises, WritesOnly
<1>2. /\ Head(t) = t[1] /\ 1 \in DOMAIN t /\ IsSeq(Tail(t))
      /\ \A i \in DOMAIN Tail(t) : i \in Nat /\ i > 0 /\ i + 1 \in DOMAIN t /\ Tail(t)[i] = t[i + 1]
    BY <1>1, TailSeq
<1>3. /\ disk' = Put(disk, t[1].file, t[1].text) /\ UNCHANGED <<crashes, ledger>>
      /\ IF Tail(t) = <<>> THEN GiveUp(p)
         ELSE proc' = [proc EXCEPT ![p] = Doing("open", proc[p].cmd, proc[p].store, Tail(t))]
    BY <1>2, FilledAlone DEF Fill
<1>4. t[1].file = HeadsFile => t[1].text = None /\ saved.heads = None
    BY <1>1, <1>2 DEF WritesOnly
<1>5. saved'.heads = saved.heads /\ saved'.revs = saved.revs
  <2>1. saved' = IF Head(t).file # HeadsFile THEN saved
                 ELSE [heads |-> Head(t).text,
                       revs |-> saved.revs \cup
                                  UNION {Ancestors(proc[p].store.nodes, Head(t).text[b]) :
                                           b \in DOMAIN Head(t).text}]
      BY DEF Fill
  <2>2. CASE t[1].file # HeadsFile
      BY <1>2, <2>1, <2>2
  <2>3. CASE t[1].file = HeadsFile
    <3>1. Head(t).text = None /\ Head(t).file = HeadsFile /\ DOMAIN None = {}
        BY <1>2, <1>4, <2>3 DEF None
    <3>2. saved' = [heads |-> None, revs |-> saved.revs \cup {}]
        BY <2>1, <3>1
    <3>. QED BY <1>4, <2>3, <3>2
  <2>. QED BY <2>2, <2>3
<1>6. Shown' = Shown
    BY <1>3, <1>5 DEF Shown
<1>7. SavedHolds'
  <2>1. IF HeadsFile \in DOMAIN disk' THEN disk'[HeadsFile] \in {Torn, saved.heads} ELSE saved.heads = None
      BY <1>1, <1>3, <1>4 DEF SavedHolds, Put, Exists
  <2>. QED BY <1>1, <1>3, <1>5, <2>1 DEF SavedHolds, Exists, ParentClosed, ParentsOf
<1>8. ProcPromises(p)'
  <2>1. CASE Tail(t) = <<>>
    <3>1. proc'[p] = Idle
        BY <1>1, <1>3, <2>1 DEF GiveUp, LInv, SInv, FInv, Shape
    <3>2. proc'[p].pc = "idle"
        BY <3>1 DEF Idle, Doing
    <3>. QED BY <3>2 DEF ProcPromises
  <2>2. CASE Tail(t) # <<>>
    <3>1. proc'[p] = Doing("open", proc[p].cmd, s, Tail(t))
        BY <1>1, <1>3, <2>2 DEF LInv, SInv, FInv, Shape
    <3>2. proc'[p].pc = "open" /\ proc'[p].store = s /\ proc'[p].todo = Tail(t)
        BY <3>1 DEF Doing
    <3>3. WritesOnly(Tail(t), hs, saved.heads)
        BY <1>1, <1>2 DEF WritesOnly
    <3>. QED BY <1>1, <1>5, <1>6, <3>2, <3>3 DEF ProcPromises
  <2>. QED BY <2>1, <2>2
<1>9. \A q \in Proc : ProcPromises(q)'
    BY <1>8, RestPromises
<1>. QED BY <1>5, <1>6, <1>7, <1>9, FilledAlone DEF RInv

LEMMA PromisesOpened ==
  ASSUME RInv, LInv', NEW p \in Proc, OthersRest(p), Open(p)
  PROVE  RInv' /\ Shown' = Shown
<1>1. /\ proc[p].pc = "open" /\ disk' = Put(disk, Head(proc[p].todo).file, Torn)
      /\ UNCHANGED <<ledger, saved>>
      /\ proc'[p] = Doing("fill", proc[p].cmd, proc[p].store, proc[p].todo)
    BY DEF Open, RInv, LInv, SInv, FInv, Shape
<1>2. /\ proc'[p].pc = "fill" /\ proc'[p].store = proc[p].store /\ proc'[p].todo = proc[p].todo
    BY <1>1 DEF Doing
<1>3. LedgerGrows /\ Shown' = Shown
    BY <1>1 DEF LedgerGrows, Shown
<1>6. Head(proc[p].todo) = proc[p].todo[1] /\ disk'[proc[p].todo[1].file] = Torn
    BY <1>1, FirstWrite DEF RInv, LInv, SInv, Put
<1>4. ProcPromises(p)'
    BY <1>1, <1>2, <1>3, <1>6 DEF RInv, ProcPromises
<1>5. /\ IF Exists(HeadsFile)' THEN disk'[HeadsFile] \in {Torn, saved.heads} ELSE saved.heads = None
      /\ NothingMixed'
    BY <1>1, TornAssumption DEF RInv, SavedHolds, NothingMixed, Exists, Put
<1>. QED BY <1>1, <1>3, <1>4, <1>5, UnsavedKeeps

\* A step that touches no file.
LEMMA PromisesRead ==
  ASSUME RInv, LInv', NEW p \in Proc, OthersRest(p), UNCHANGED <<disk, ledger, saved>>, ProcPromises(p)'
  PROVE  RInv' /\ Shown' = Shown
<1>1. LedgerGrows
    BY DEF LedgerGrows
<1>2. /\ IF Exists(HeadsFile)' THEN disk'[HeadsFile] \in {Torn, saved.heads} ELSE saved.heads = None
      /\ NothingMixed'
    BY DEF RInv, SavedHolds, NothingMixed, Exists
<1>. QED BY <1>1, <1>2, UnsavedKeeps

\* A process alone begins, loads, gives up, or stops.
LEMMA PromisesLoaded ==
  ASSUME RInv, LInv', NEW p \in Proc, OthersRest(p),
         \/ \E cmd \in Commands : Start(p, cmd)
         \/ ReadNodes(p) \/ ReadHeads(p) \/ (Decide(p) /\ GiveUp(p)) \/ Crash(p)
  PROVE  RInv' /\ Shown' = Shown
<1>1. ASSUME NEW v, proc' = [proc EXCEPT ![p] = v] PROVE proc'[p] = v
    BY <1>1 DEF RInv, LInv, SInv, FInv, Shape
<1>2. ASSUME GiveUp(p), UNCHANGED <<disk, ledger, saved>> PROVE RInv' /\ Shown' = Shown
  <2>1. proc'[p] = Idle
      BY <1>1, <1>2 DEF GiveUp
  <2>2. proc'[p].pc = "idle"
      BY <2>1 DEF Idle, Doing
  <2>3. ProcPromises(p)'
      BY <2>2 DEF ProcPromises
  <2>. QED BY <1>2, <2>3, PromisesRead
<1>3. ASSUME NEW cmd \in Commands, Start(p, cmd) PROVE RInv' /\ Shown' = Shown
  <2>. DEFINE pc == IF cmd.op = "init" THEN "decide" ELSE "nodes"
  <2>1. proc'[p] = Doing(pc, cmd, NoStore, <<>>) /\ UNCHANGED <<disk, ledger, saved>>
      BY <1>1, <1>3 DEF Start
  <2>2. proc'[p].pc = pc /\ proc'[p].cmd = cmd
      BY <2>1 DEF Doing
  <2>3. cmd.op = "init" => cmd.b = Main
      BY DEF Commands
  <2>4. ProcPromises(p)'
      BY <2>2, <2>3 DEF ProcPromises
  <2>. QED BY <2>1, <2>4, PromisesRead
<1>4. CASE ReadNodes(p)
  <2>1. proc[p].pc = "nodes" /\ UNCHANGED <<disk, ledger, saved>> /\ proc[p].cmd.op # "init"
      BY <1>4 DEF ReadNodes, RInv, ProcPromises
  <2>2. CASE GiveUp(p)
      BY <1>2, <2>1, <2>2
  <2>3. CASE ~GiveUp(p)
    <3>. DEFINE ns == [r \in NodesOnDisk |-> disk[NodeFile(r)]]
    <3>1. proc'[p] = Doing("heads", proc[p].cmd, [nodes |-> ns, heads |-> None], <<>>)
        BY <1>1, <1>4, <2>3 DEF ReadNodes
    <3>. HIDE DEF ns
    <3>2. proc'[p].pc = "heads" /\ proc'[p].cmd = proc[p].cmd
        BY <3>1 DEF Doing
    <3>3. ProcPromises(p)'
        BY <2>1, <3>2 DEF ProcPromises
    <3>. QED BY <2>1, <3>3, PromisesRead
  <2>. QED BY <2>2, <2>3
<1>5. CASE ReadHeads(p)
  <2>1. /\ proc[p].pc = "heads" /\ UNCHANGED <<disk, ledger, saved>> /\ proc[p].cmd.op # "init"
        /\ Exists(HeadsFile)
      BY <1>5 DEF ReadHeads, RInv, ProcPromises, LInv, ProcKnown
  <2>2. CASE GiveUp(p)
      BY <1>2, <2>1, <2>2
  <2>3. CASE ~GiveUp(p)
    <3>. DEFINE ns == proc[p].store.nodes
    <3>1. /\ HeadsReadable(ns)
          /\ proc'[p] = Doing("decide", proc[p].cmd, [nodes |-> ns, heads |-> disk[HeadsFile]], <<>>)
        BY <1>1, <1>5, <2>3 DEF ReadHeads
    <3>2. disk[HeadsFile] = saved.heads
        BY <2>1, <3>1 DEF HeadsReadable, RInv, SavedHolds
    <3>. HIDE DEF ns
    <3>3. proc'[p].pc = "decide" /\ proc'[p].cmd = proc[p].cmd /\ proc'[p].store.heads = saved.heads
        BY <3>1, <3>2 DEF Doing
    <3>4. ProcPromises(p)'
        BY <2>1, <3>3 DEF ProcPromises
    <3>. QED BY <2>1, <3>4, PromisesRead
  <2>. QED BY <2>2, <2>3
<1>6. CASE Decide(p) /\ GiveUp(p)
  <2>1. UNCHANGED <<disk, saved>>
      BY <1>6 DEF Decide
  <2>2. CASE UNCHANGED ledger
      BY <1>2, <1>6, <2>1, <2>2
  <2>3. CASE ~UNCHANGED ledger
    <3>. DEFINE Opens(out, ns, todo) ==
                  proc' = [proc EXCEPT ![p] =
                             Doing("open", proc[p].cmd, [nodes |-> ns, heads |-> out.heads], todo)]
    <3>1. PICK out \in Outcomes(proc[p].cmd, proc[p].store) : \E ns, todo : Opens(out, ns, todo)
        BY <1>6, <2>3 DEF Decide
    <3>2. PICK ns, todo : Opens(out, ns, todo)
        BY <3>1
    <3>3. proc'[p].pc = "open"
      <4>1. proc'[p] = Doing("open", proc[p].cmd, [nodes |-> ns, heads |-> out.heads], todo)
          BY <1>1, <3>2
      <4>. QED BY <4>1 DEF Doing
    <3>4. proc'[p] = Idle
        BY <1>1, <1>6 DEF GiveUp
    <3>. QED BY <3>3, <3>4 DEF Idle, Doing
  <2>. QED BY <2>2, <2>3
<1>7. CASE Crash(p)
    BY <1>2, <1>7 DEF Crash
<1>. QED BY <1>3, <1>4, <1>5, <1>6, <1>7

LEMMA StepAsPromised ==
  ASSUME RInv, [Next]_vars, OneAtATime, OneAtATime'
  PROVE  RInv' /\ [Promised!RefsNext]_Promised!refs
<1>1. LInv'
    BY LInvInductive DEF RInv
<1>2. CASE UNCHANGED vars
  <2>1. Shown' = Shown /\ saved'.heads = saved.heads
      BY <1>2 DEF vars, Shown
  <2>2. SavedHolds'
      BY <1>2 DEF vars, RInv, SavedHolds, Exists, ParentClosed, ParentsOf
  <2>4. NothingMixed'
      BY <1>2 DEF vars, RInv, NothingMixed
  <2>3. \A p \in Proc : ProcPromises(p)'
      BY <1>2, <2>1 DEF vars, RInv, ProcPromises
  <2>. QED BY <1>1, <2>1, <2>2, <2>3, <2>4, UnsavedIsStutter DEF RInv
<1>3. ASSUME NEW p \in Proc,
             \/ \E cmd \in Commands : Start(p, cmd)
             \/ ReadNodes(p) \/ ReadHeads(p) \/ Decide(p) \/ Open(p) \/ Fill(p) \/ Crash(p)
      PROVE  RInv' /\ [Promised!RefsNext]_Promised!refs
  <2>1. OthersRest(p)
    <3>1. \A q \in Proc : q # p => proc'[q] = proc[q]
        BY <1>3 DEF Start, ReadNodes, ReadHeads, Decide, Open, Fill, Crash, GiveUp, RInv, LInv, SInv, FInv, Shape
    <3>2. proc[p].pc # "idle" \/ proc'[p].pc # "idle"
      <4>1. ASSUME NEW cmd \in Commands, Start(p, cmd) PROVE proc'[p].pc # "idle"
        <5>. DEFINE pc == IF cmd.op = "init" THEN "decide" ELSE "nodes"
        <5>1. proc'[p] = Doing(pc, cmd, NoStore, <<>>)
            BY <4>1 DEF Start, RInv, LInv, SInv, FInv, Shape
        <5>. QED BY <5>1 DEF Doing
      <4>. QED BY <1>3, <4>1 DEF ReadNodes, ReadHeads, Decide, Open, Fill, Crash
    <3>. QED BY <3>1, <3>2 DEF OneAtATime, OthersRest
  <2>2. CASE Fill(p)
    <3>1. CASE proc[p].todo[1].file = HeadsFile /\ proc[p].todo[1].text = proc[p].store.heads
        BY <1>1, <2>1, <2>2, <3>1, SavedAsPromised
    <3>2. CASE ~(proc[p].todo[1].file = HeadsFile /\ proc[p].todo[1].text = proc[p].store.heads)
        BY <1>1, <2>1, <2>2, <3>2, OtherFilled, UnsavedIsStutter
    <3>. QED BY <3>1, <3>2
  <2>3. CASE ~Fill(p)
    <3>1. RInv' /\ Shown' = Shown
        BY <1>1, <1>3, <2>1, <2>3, PromisesLoaded, PromisesOpened, PromisesDecided
    <3>2. UNCHANGED saved
        BY <1>3, <2>3 DEF Start, ReadNodes, ReadHeads, Decide, Open, Crash
    <3>. QED BY <3>1, <3>2, UnsavedIsStutter
  <2>. QED BY <2>2, <2>3
<1>. QED BY <1>2, <1>3 DEF Next

LEMMA InitAsPromised == Init => RInv /\ Promised!RefsInit
<1>. SUFFICES ASSUME Init PROVE RInv /\ Promised!RefsInit
    OBVIOUS
<1>1. LInv /\ saved.heads = None /\ saved.revs = {} /\ disk = None /\ DOMAIN None = {}
    BY InitLInv DEF Init, None
<1>2. SavedHolds /\ NothingMixed
    BY <1>1 DEF SavedHolds, NothingMixed, ParentClosed, Exists
<1>3. ASSUME NEW p \in Proc PROVE ProcPromises(p)
  <2>1. proc[p].pc = "idle"
      BY DEF Init, Idle, Doing
  <2>. QED BY <2>1 DEF ProcPromises
<1>4. Promised!RefsInit
  <2>1. [r \in saved.revs |-> ledger[r]] = [r \in {} |-> {}]
      BY <1>1
  <2>2. saved.heads = [b \in {} |-> 0]
      BY <1>1 DEF None
  <2>. QED BY <2>1, <2>2 DEF Promised!RefsInit
<1>. QED BY <1>1, <1>2, <1>3, <1>4 DEF RInv

\* A file that is a mix of two texts takes two processes that overlap.
THEOREM SequentialCommandsNeverMix == Spec /\ []OneAtATime => []NothingMixed
<1>1. Init => RInv
    BY InitAsPromised
<1>2. RInv /\ [Next]_vars /\ OneAtATime /\ OneAtATime' => RInv'
    BY StepAsPromised
<1>3. RInv => NothingMixed
    BY DEF RInv
<1>. QED BY <1>1, <1>2, <1>3, PTL DEF Spec

\* On the revisions that heads.json ever reached and the heads it last held in
\* full, processes that run their commands one after the other, and may stop
\* between any two file accesses, do what Refs says: a command that stops either
\* happened or did not.
THEOREM SequentialCommandsImplementRefs == Spec /\ []OneAtATime => RefsSpec
<1>1. Init => RInv /\ Promised!RefsInit
    BY InitAsPromised
<1>2. RInv /\ [Next]_vars /\ OneAtATime /\ OneAtATime' => RInv' /\ [Promised!RefsNext]_Promised!refs
    BY StepAsPromised
<1>. QED BY <1>1, <1>2, PTL DEF Spec, RefsSpec, Promised!RefsSpec

\* So does a single process, which is what the run of files_crash checks.
THEOREM OneProcessImplementsRefs ==
  ASSUME \A p, q \in Proc : p = q
  PROVE  Spec => RefsSpec
<1>1. OneAtATime
    BY DEF OneAtATime
<1>. QED BY <1>1, SequentialCommandsImplementRefs, PTL
=============================================================================
