--------------------------- MODULE FileSyncProofs ---------------------------
(* Proofs about FileSync, for schemas, files, names and scores of any size   *)
(* and kind: the detector neither loses nor doubles a column, replaying what *)
(* a sync commits gives the file, and the distance of two names is the least *)
(* number of edits between them.                                             *)
(*                                                                           *)
(* The second proof has three parts.  The operations of a sync are a list    *)
(* whose elements neither make, drop nor set what another one does, and in   *)
(* which columns come behind their new tables.  Replay of such a list never  *)
(* raises, and makes of each object what its own operations say.  An         *)
(* invariant of the sync (SyncInv) says that each matched table is diffed    *)
(* once and its columns are paired, dropped or added; from these the tables  *)
(* and columns after replay are read off.                                    *)
EXTENDS FileSync, ReplayProofs

----------------------------------------------------------------------------
(* The detector.                                                             *)

\* What is proposed is a pair of the pool that was not yet rejected.
LEMMA ProposedIsPair ==
  ASSUME NEW p \in Proposed
  PROVE  /\ p \in Pairs
         /\ p[1] \in remainingOld /\ p[2] \in remainingNew /\ p = <<p[1], p[2]>>
<1>1. OnlyPair \subseteq Pairs
  BY DEF OnlyPair
<1>2. ASSUME NEW s \in Scores PROVE <<s.old, s.new>> \in Pairs
  <2>1. PICK q \in Pairs, size \in {Cardinality(OldColumns)}, ignored \in {IgnorePosition} :
          s = [old |-> q[1], new |-> q[2], score |-> Score(Old(q[1]), New(q[2]), size, ignored)]
    BY DEF Scores
  <2>2. q = <<q[1], q[2]>>
    BY DEF Pairs
  <2>. QED BY <2>1, <2>2
<1>3. Best \subseteq Pairs
  <2>1. Clear(Scores, ThresholdAmbiguousGap) \subseteq Scores
    BY DEF Clear
  <2>. QED BY <1>2, <2>1 DEF Best
<1>4. p \in Pairs
  BY <1>1, <1>3 DEF Proposed
<1>. QED BY <1>4 DEF Pairs

\* The detector's invariant is about these variables only.
LEMMA SamePool ==
  ASSUME UNCHANGED <<schema, file, table, raw>>
  PROVE  UnmatchedOld' = UnmatchedOld /\ UnmatchedNew' = UnmatchedNew
BY DEF UnmatchedOld, UnmatchedNew, LastOld, LastNew, SameName, Old, New, Raw, OldColumns,
       NewColumns, ColumnsOf, OfKind, Inside

\* A table starts with nothing confirmed and everything unmatched in the pool.
LEMMA BeginColumns ==
  ASSUME NEW t, NEW r, Begin(t, r)
  PROVE  EachColumnOnce'
BY DEF Begin, EachColumnOnce, Confirmed

\* A rejected pair stays in the pool.
LEMMA RejectKeeps ==
  ASSUME EachColumnOnce, NEW p, Reject(p), UNCHANGED <<schema, file, table, raw>>
  PROVE  EachColumnOnce'
<1>1. Confirmed' = Confirmed
  BY DEF Reject, Confirmed
<1>. QED BY <1>1, SamePool DEF Reject, EachColumnOnce

\* A confirmed pair leaves it, on both sides.
LEMMA ConfirmKeeps ==
  ASSUME EachColumnOnce, NEW p \in Proposed, Confirm(p),
         UNCHANGED <<schema, file, table, raw>>
  PROVE  EachColumnOnce'
<1>1. p[1] \in remainingOld /\ p[2] \in remainingNew /\ p = <<p[1], p[2]>>
  BY ProposedIsPair
<1>2. Confirmed' = Confirmed \cup {p}
  <2>. DEFINE asked == [old |-> p[1], new |-> p[2], confirmed |-> TRUE]
  <2>1. asked.confirmed /\ <<asked.old, asked.new>> = p
    BY <1>1
  <2>2. proposals' = proposals \cup {asked}
    BY DEF Confirm
  <2>. HIDE DEF asked
  <2>3. {q \in proposals' : q.confirmed} = {q \in proposals : q.confirmed} \cup {asked}
    BY <2>1, <2>2, Zenon
  <2>. QED BY <2>1, <2>3 DEF Confirmed
<1>3. remainingOld' = UnmatchedOld' \ {q[1] : q \in Confirmed'}
  BY <1>2, SamePool DEF Confirm, EachColumnOnce
<1>4. remainingNew' = UnmatchedNew' \ {q[2] : q \in Confirmed'}
  BY <1>2, SamePool DEF Confirm, EachColumnOnce
<1>5. \A q, s \in Confirmed' : q[1] = s[1] <=> q[2] = s[2]
  <2>1. \A q \in Confirmed : q[1] # p[1] /\ q[2] # p[2]
    BY <1>1 DEF EachColumnOnce
  <2>. QED BY <1>2, <2>1 DEF EachColumnOnce
<1>6. Confirmed' \subseteq UnmatchedOld' \X UnmatchedNew'
  BY <1>1, <1>2, SamePool DEF EachColumnOnce
<1>. QED BY <1>3, <1>4, <1>5, <1>6 DEF EachColumnOnce

\* Every step of the sync keeps the detector's invariant: while a table is
\* diffed, each vanished column is renamed once or still to be dropped, each
\* new one a column's new name or still to be added, and nothing is both.
THEOREM NextKeepsColumns ==
  ASSUME ColumnsOnce, [Next]_syncVars
  PROVE  ColumnsOnce'
<1>1. CASE DiffTables
  BY <1>1 DEF DiffTables, ColumnsOnce
<1>2. CASE AskColumn
  <2>1. PICK p \in Proposed : Confirm(p) \/ Reject(p)
    BY <1>2 DEF AskColumn, Propose
  <2>2. EachColumnOnce /\ UNCHANGED <<schema, file, table, raw>>
    BY <1>2 DEF AskColumn, Propose, ColumnsOnce
  <2>3. EachColumnOnce'
    BY <2>1, <2>2, ConfirmKeeps, RejectKeeps
  <2>. QED BY <2>3 DEF ColumnsOnce
<1>3. CASE EndTable
  BY <1>3 DEF EndTable, ColumnsOnce
<1>4. CASE Commit
  BY <1>4 DEF Commit, ColumnsOnce
<1>5. ASSUME NEW r \in todo, BeginTable(r) PROVE ColumnsOnce'
  BY <1>5, BeginColumns DEF BeginTable, ColumnsOnce
<1>6. CASE UNCHANGED syncVars
  <2>1. EachColumnOnce => EachColumnOnce'
    BY <1>6, SamePool DEF syncVars, EachColumnOnce, Confirmed
  <2>. QED BY <1>6, <2>1 DEF syncVars, ColumnsOnce
<1>. QED BY <1>1, <1>2, <1>3, <1>4, <1>5, <1>6 DEF Next

\* detector.py:11: whatever the file, the scores and the answers, no column is
\* renamed twice, both renamed and dropped, or lost.
THEOREM SyncColumnsOnce == Spec => []ColumnsOnce
<1>1. Init => ColumnsOnce
  BY DEF Init, ColumnsOnce
<1>. QED BY <1>1, NextKeepsColumns, PTL DEF Spec

----------------------------------------------------------------------------
(* What a list of operations makes of a schema if each of its operations     *)
(* finds what it needs.                                                      *)

\* What an operation does: it sets a field of an object, makes one or drops one.
Sets(o, id, f) == o.type \in DOMAIN SetField /\ o.id = id /\ SetField[o.type] = f

Creates(o) == o.type \in Creating

Drops(o) == o.type \in Destructive

\* The objects that operations drop, with what is in them, and the new ones.
Gone(objects, ops) ==
  {i \in DOMAIN objects : \E o \in ops : Drops(o) /\ o.id \in {i, objects[i].table}}

NewIds(ops) == {o.id : o \in {x \in ops : Creates(x)}}

\* An object that is there is made new, or is an old one on which each field has
\* the value that some operation sets, or the one it had.
Made(objects, ops, now) ==
  /\ IsFunction(now) /\ DOMAIN now = (DOMAIN objects \ Gone(objects, ops)) \cup NewIds(ops)
  /\ \A o \in ops : Creates(o) => now[o.id] = o.object
  /\ \A i \in DOMAIN objects \ Gone(objects, ops) :
       /\ IsFunction(now[i]) /\ DOMAIN now[i] = DOMAIN objects[i]
       /\ \A f \in DOMAIN objects[i] :
            /\ (\A o \in ops : ~Sets(o, i, f)) => now[i][f] = objects[i][f]
            /\ \A o \in ops : Sets(o, i, f) => now[i][f] = o.value

\* Operations of which none makes, drops or sets what another one does.
Separate(objects, ops) ==
  /\ \A i \in DOMAIN objects : "table" \in DOMAIN objects[i]
  /\ \A o \in ops : o.type \in Variants
  /\ \A o \in ops : Creates(o) =>
       /\ o.id \notin DOMAIN objects /\ IsFunction(o.object)
       /\ o.object.table \notin Gone(objects, ops)
       /\ \A x \in ops : Drops(x) => x.id # o.object.table
  /\ \A o, x \in ops : Creates(o) /\ Creates(x) /\ o.id = x.id => o = x
  /\ \A o \in ops : ~Creates(o) => o.id \in DOMAIN objects
  /\ \A o, x \in ops : Drops(o) /\ Drops(x) => x.id # objects[o.id].table
  /\ \A o, x \in ops, f \in {SetField[v] : v \in DOMAIN SetField} :
       Sets(o, x.id, f) /\ Sets(x, x.id, f) => o.value = x.value

\* What is made is in no table, in one that is there or in one made before, and
\* nothing else drops what is dropped as a table.
InOrder(objects, ops) ==
  /\ \A j \in DOMAIN ops : Creates(ops[j]) /\ ops[j].object.table \notin {NoId} \cup DOMAIN objects =>
       \E i \in DOMAIN ops : i < j /\ Creates(ops[i]) /\ ops[i].id = ops[j].object.table
  /\ \A i, j \in DOMAIN ops : ops[i].type = "DropTable" /\ Drops(ops[j]) /\ i # j =>
       ops[j].id # ops[i].id

\* One operation more.
LEMMA MadeByOneMore ==
  ASSUME NEW objects, AreObjects(objects), NEW ops, NEW now, Made(objects, ops, now),
         NEW o, Separate(objects, ops \cup {o}),
         Creates(o) => o.object.table \in {NoId} \cup DOMAIN now,
         o.type = "DropTable" => o.id \in DOMAIN now
  PROVE  \E next : Apply(Fine(now), o) = Fine(next) /\ Made(objects, ops \cup {o}, next)
<1> DEFINE more == ops \cup {o}
<1>1. AreObjects(now)
  <2>1. IsFunction(now)
      BY DEF Made
  <2>2. ASSUME NEW i \in DOMAIN now PROVE IsFunction(now[i])
    <3>1. CASE i \in DOMAIN objects \ Gone(objects, ops)
        BY <3>1 DEF Made
    <3>2. CASE i \in NewIds(ops)
      <4>1. PICK x \in ops : Creates(x) /\ x.id = i
          BY <3>2 DEF NewIds
      <4>. QED BY <4>1 DEF Made, Separate
    <3>. QED BY <3>1, <3>2 DEF Made
  <2>. QED BY <2>1, <2>2 DEF AreObjects
<1>2. CASE Creates(o)
  <2>1. Apply(Fine(now), o) = Fine(Put(now, o.id, o.object))
      BY <1>2, ApplyAdd DEF Creates, Added
  <2>2. ~Drops(o) /\ \A i, f : ~Sets(o, i, f)
      BY <1>2 DEF Creates, Drops, Sets, Creating, Destructive, SetField, MutationField
  <2>3. Gone(objects, more) = Gone(objects, ops)
      BY <2>2 DEF Gone
  <2>4. NewIds(more) = NewIds(ops) \cup {o.id}
      BY <1>2 DEF NewIds
  <2> DEFINE next == Put(now, o.id, o.object)
  <2>5. IsFunction(next) /\ DOMAIN next = DOMAIN now \cup {o.id} /\ next[o.id] = o.object
        /\ \A i \in DOMAIN now : i # o.id => next[i] = now[i]
      BY DEF Put, IsFunction
  <2>6. o.id \notin DOMAIN objects
      BY <1>2 DEF Separate
  <2> HIDE DEF next
  <2>7. \A x \in more : Creates(x) => next[x.id] = x.object
    <3> SUFFICES ASSUME NEW x \in more, Creates(x) PROVE next[x.id] = x.object
        OBVIOUS
    <3>1. CASE x.id = o.id
      <4>1. x = o
          BY <1>2, <3>1 DEF Separate
      <4>. QED BY <4>1, <2>5
    <3>2. CASE x.id # o.id
      <4>1. x \in ops
          BY <3>2
      <4>2. x.id \in DOMAIN now /\ now[x.id] = x.object
          BY <4>1 DEF Made, NewIds
      <4>. QED BY <3>2, <4>2, <2>5
    <3>. QED BY <3>1, <3>2
  <2>8. ASSUME NEW i \in DOMAIN objects \ Gone(objects, more)
        PROVE  /\ IsFunction(next[i]) /\ DOMAIN next[i] = DOMAIN objects[i]
               /\ \A f \in DOMAIN objects[i] :
                    /\ (\A x \in more : ~Sets(x, i, f)) => next[i][f] = objects[i][f]
                    /\ \A x \in more : Sets(x, i, f) => next[i][f] = x.value
    <3>1. next[i] = now[i]
        BY <2>3, <2>5, <2>6 DEF Made
    <3>. QED BY <2>2, <2>3, <3>1 DEF Made
  <2>9. DOMAIN next = (DOMAIN objects \ Gone(objects, more)) \cup NewIds(more)
      BY <2>3, <2>4, <2>5 DEF Made
  <2>10. Made(objects, more, next)
      BY <2>5, <2>7, <2>8, <2>9 DEF Made
  <2>. QED BY <2>1, <2>10 DEF next
<1>3. CASE Drops(o)
  <2>1. ~Creates(o) /\ \A i, f : ~Sets(o, i, f)
      BY <1>3 DEF Creates, Drops, Sets, Creating, Destructive, SetField, MutationField
  <2>2. NewIds(more) = NewIds(ops)
      BY <2>1 DEF NewIds
  <2>3. Gone(objects, more) = Gone(objects, ops) \cup {i \in DOMAIN objects : o.id \in {i, objects[i].table}}
      BY <1>3 DEF Gone
  <2>4. o.id \in DOMAIN objects
      BY <2>1 DEF Separate
  <2> DEFINE next == IF o.id \in DOMAIN now THEN Dropped(now, o.id) ELSE now
  <2>5. Apply(Fine(now), o) = Fine(next)
    <3>1. CASE o.id \in DOMAIN now
        BY <1>3, <3>1, ApplyDrop DEF Drops
    <3>2. CASE o.id \notin DOMAIN now
      <4>1. Apply(Fine(now), o) = [broken |-> (o.type = "DropTable"), objects |-> now]
          BY <1>3, <3>2, ApplyDrop DEF Drops
      <4>2. (o.type = "DropTable") = FALSE
          BY <3>2
      <4>. QED BY <3>2, <4>1, <4>2, Zenon DEF Fine
    <3>. QED BY <3>1, <3>2
  <2>6. \A i \in DOMAIN objects \ Gone(objects, ops) : now[i].table = objects[i].table
    <3>1. \A i : \A x \in ops : ~Sets(x, i, "table")
        BY DEF Sets, SetField, MutationField
    <3>. QED BY <3>1 DEF Made, Separate
  <2>7. \A x \in ops : Creates(x) => now[x.id].table # o.id /\ x.id # o.id
      BY <1>3, <2>4 DEF Made, Separate
  <2>8. /\ IsFunction(next)
        /\ DOMAIN next = {i \in DOMAIN now : o.id \notin {i, now[i].table}} \/ o.id \notin DOMAIN now
        /\ DOMAIN next \subseteq DOMAIN now /\ \A i \in DOMAIN next : next[i] = now[i]
      BY DEF Dropped, Made, IsFunction
  <2> HIDE DEF next
  <2>9. DOMAIN next = (DOMAIN objects \ Gone(objects, more)) \cup NewIds(more)
    <3>1. \A i \in DOMAIN objects \ Gone(objects, ops) :
            i \in Gone(objects, more) <=> o.id \in {i, now[i].table}
        BY <2>3, <2>6
    <3>2. \A i \in NewIds(ops) : o.id \notin {i, now[i].table}
        BY <2>7 DEF NewIds
    <3>3. NewIds(ops) \cap DOMAIN objects = {}
        BY DEF NewIds, Separate
    <3>4. CASE o.id \in DOMAIN now
      <4>1. DOMAIN next = {i \in DOMAIN now : o.id \notin {i, now[i].table}}
          BY <2>8, <3>4
      <4>. QED BY <2>2, <2>3, <3>1, <3>2, <3>3, <4>1 DEF Made
    <3>5. CASE o.id \notin DOMAIN now
      <4>1. next = now
          BY <3>5 DEF next
      <4>2. o.id \in Gone(objects, ops)
          BY <2>4, <3>5 DEF Made
      <4>3. PICK x \in ops : Drops(x) /\ x.id \in {o.id, objects[o.id].table}
          BY <4>2 DEF Gone
      <4>4. x.id = o.id
          BY <1>3, <4>3 DEF Separate
      <4>5. Gone(objects, more) = Gone(objects, ops)
          BY <2>3, <4>3, <4>4 DEF Gone
      <4>. QED BY <2>2, <4>1, <4>5 DEF Made
    <3>. QED BY <3>4, <3>5
  <2>10. \A x \in more : Creates(x) => next[x.id] = x.object
      BY <2>1, <2>2, <2>8, <2>9 DEF Made, NewIds
  <2>11. ASSUME NEW i \in DOMAIN objects \ Gone(objects, more)
         PROVE  /\ IsFunction(next[i]) /\ DOMAIN next[i] = DOMAIN objects[i]
                /\ \A f \in DOMAIN objects[i] :
                     /\ (\A x \in more : ~Sets(x, i, f)) => next[i][f] = objects[i][f]
                     /\ \A x \in more : Sets(x, i, f) => next[i][f] = x.value
    <3>1. next[i] = now[i] /\ i \in DOMAIN objects \ Gone(objects, ops)
        BY <2>3, <2>8, <2>9
    <3>. QED BY <2>1, <3>1 DEF Made
  <2>12. Made(objects, more, next)
      BY <2>8, <2>9, <2>10, <2>11 DEF Made
  <2>. QED BY <2>5, <2>12
<1>4. CASE o.type \in DOMAIN SetField
  <2>1. ~Creates(o) /\ ~Drops(o)
      BY <1>4 DEF Creates, Drops, Creating, Destructive, SetField, MutationField
  <2>2. NewIds(more) = NewIds(ops) /\ Gone(objects, more) = Gone(objects, ops)
      BY <2>1 DEF NewIds, Gone
  <2>3. o.id \in DOMAIN objects
      BY <2>1 DEF Separate
  <2> DEFINE next == Changed(now, o)
  <2>4. Apply(Fine(now), o) = Fine(next)
      BY <1>1, <1>4, ApplySet
  <2>5. /\ IsFunction(next) /\ DOMAIN next = DOMAIN now
        /\ \A i \in DOMAIN now : i # o.id => next[i] = now[i]
        /\ o.id \in DOMAIN now => next[o.id] = [now[o.id] EXCEPT ![SetField[o.type]] = o.value]
      BY DEF Changed, IsFunction
  <2> HIDE DEF next
  <2>6. \A x \in more : Creates(x) => next[x.id] = x.object
      BY <2>1, <2>3, <2>5 DEF Made, NewIds, Separate
  <2>7. ASSUME NEW i \in DOMAIN objects \ Gone(objects, more)
        PROVE  /\ IsFunction(next[i]) /\ DOMAIN next[i] = DOMAIN objects[i]
               /\ \A f \in DOMAIN objects[i] :
                    /\ (\A x \in more : ~Sets(x, i, f)) => next[i][f] = objects[i][f]
                    /\ \A x \in more : Sets(x, i, f) => next[i][f] = x.value
    <3>1. i \in DOMAIN now /\ IsFunction(now[i]) /\ DOMAIN now[i] = DOMAIN objects[i]
        BY <2>2 DEF Made
    <3>2. \A f \in DOMAIN objects[i] :
            /\ (\A x \in ops : ~Sets(x, i, f)) => now[i][f] = objects[i][f]
            /\ \A x \in ops : Sets(x, i, f) => now[i][f] = x.value
        BY <2>2 DEF Made
    <3>3. CASE i # o.id
      <4>1. \A f : ~Sets(o, i, f)
          BY <3>3 DEF Sets
      <4>. QED BY <2>5, <3>1, <3>2, <3>3, <4>1
    <3>4. CASE i = o.id
      <4>1. next[i] = [now[i] EXCEPT ![SetField[o.type]] = o.value]
          BY <2>5, <3>1, <3>4
      <4>2. IsFunction(next[i]) /\ DOMAIN next[i] = DOMAIN objects[i]
          BY <3>1, <4>1 DEF IsFunction
      <4>3. \A f \in DOMAIN objects[i] :
              next[i][f] = IF f = SetField[o.type] THEN o.value ELSE now[i][f]
          BY <3>1, <4>1
      <4>4. \A f : Sets(o, i, f) <=> f = SetField[o.type]
          BY <1>4, <3>4 DEF Sets
      <4>5. \A f \in DOMAIN objects[i], x \in more : Sets(o, i, f) /\ Sets(x, i, f) => o.value = x.value
        <5> SUFFICES ASSUME NEW f \in DOMAIN objects[i], NEW x \in more, Sets(o, i, f), Sets(x, i, f)
                     PROVE  o.value = x.value
            OBVIOUS
        <5>1. f \in {SetField[v] : v \in DOMAIN SetField} /\ x.id = o.id
            BY <3>4 DEF Sets
        <5>2. Sets(o, x.id, f) /\ Sets(x, x.id, f)
            BY <3>4, <5>1
        <5>. QED BY <5>1, <5>2 DEF Separate
      <4>. QED BY <3>2, <4>2, <4>3, <4>4, <4>5
    <3>. QED BY <3>3, <3>4
  <2>8. Made(objects, more, next)
      BY <2>2, <2>5, <2>6, <2>7 DEF Made
  <2>. QED BY <2>4, <2>8
<1>. QED
  <2>1. o.type \in Variants
      BY DEF Separate
  <2>. QED BY <1>2, <1>3, <1>4, <2>1 DEF Variants, Creates, Drops

\* Of fewer operations the same can be said.
LEMMA FewerSeparate ==
  ASSUME NEW objects, NEW ops, Separate(objects, ops), NEW some \in SUBSET ops
  PROVE  Separate(objects, some)
<1>1. Gone(objects, some) \subseteq Gone(objects, ops)
    BY DEF Gone
<1>2. \A o \in some : o \in ops
    OBVIOUS
<1>3. \A o \in some : Creates(o) =>
        /\ o.id \notin DOMAIN objects /\ IsFunction(o.object)
        /\ o.object.table \notin Gone(objects, some)
        /\ \A x \in some : Drops(x) => x.id # o.object.table
    BY <1>1, <1>2 DEF Separate
<1>4. \A o, x \in some, f \in {SetField[v] : v \in DOMAIN SetField} :
        Sets(o, x.id, f) /\ Sets(x, x.id, f) => o.value = x.value
    BY <1>2 DEF Separate
<1>. QED BY <1>2, <1>3, <1>4 DEF Separate

\* Replay of such a list never raises.
LEMMA ListMakes ==
  ASSUME NEW objects, AreObjects(objects),
         NEW ops, Listed(ops), Separate(objects, ElementsOf(ops)), InOrder(objects, ops)
  PROVE  \E now : /\ Seqs!FoldLeft(Apply, Fine(objects), ops) = Fine(now)
                  /\ Made(objects, ElementsOf(ops), now)
<1> DEFINE n == Len(ops)
           First(k) == {ops[i] : i \in 1 .. k}
<1>1. n \in Nat /\ DOMAIN ops = 1 .. n
    BY ListedPlaces
<1> HIDE DEF n
<1>2. PICK round : /\ round[0] = Fine(objects)
                   /\ \A k \in Nat : k < n => round[k + 1] = Apply(round[k], ops[k + 1])
                   /\ round[n] = Seqs!FoldLeft(Apply, Fine(objects), ops)
    BY <1>1, FoldByRounds
<1> DEFINE Good(k) == \E now : round[k] = Fine(now) /\ Made(objects, First(k), now)
           T == {k \in Nat : k <= n => Good(k)}
<1>3. Good(0)
  <2>1. First(0) = {}
      OBVIOUS
  <2>2. Made(objects, {}, objects)
      BY DEF Made, Gone, NewIds, AreObjects
  <2> HIDE DEF First
  <2>. QED BY <1>2, <2>1, <2>2
<1>4. First(n) = ElementsOf(ops)
    BY <1>1 DEF ElementsOf
<1>5. ASSUME NEW k \in Nat, k < n, Good(k)
      PROVE  Good(k + 1)
  <2> DEFINE o == ops[k + 1]
  <2>1. k + 1 \in 1 .. n
      BY <1>1, <1>5
  <2>2. First(k + 1) = First(k) \cup {o}
    <3>1. 1 .. (k + 1) = (1 .. k) \cup {k + 1}
        OBVIOUS
    <3>. QED BY <3>1
  <2>3. First(k + 1) \subseteq ElementsOf(ops)
    <3>1. 1 .. (k + 1) \subseteq 1 .. n
        BY <1>1, <2>1
    <3>. QED BY <1>1, <3>1 DEF ElementsOf
  <2>4. PICK now : round[k] = Fine(now) /\ Made(objects, First(k), now)
      BY <1>5
  <2>5. \A i \in 1 .. k : i \in DOMAIN ops /\ i < k + 1 /\ ops[i] \in First(k)
      BY <1>1, <2>1
  <2>6. \A x \in First(k) : \E i \in 1 .. k : x = ops[i]
      OBVIOUS
  <2>7. \A i \in DOMAIN ops : i < k + 1 => i \in 1 .. k
      BY <1>1
  <2>8. k + 1 \in DOMAIN ops
      BY <1>1, <2>1
  <2> HIDE DEF First
  <2>9. Separate(objects, First(k) \cup {o}) /\ Separate(objects, First(k))
      BY <2>2, <2>3, FewerSeparate
  <2>10. Creates(o) => o.object.table \in {NoId} \cup DOMAIN now
    <3> SUFFICES ASSUME Creates(o), o.object.table # NoId
                 PROVE  o.object.table \in DOMAIN now
        OBVIOUS
    <3>1. CASE o.object.table \in DOMAIN objects
      <4>1. o.object.table \notin Gone(objects, First(k) \cup {o})
          BY <2>9 DEF Separate
      <4>2. o.object.table \notin Gone(objects, First(k))
          BY <4>1 DEF Gone
      <4>. QED BY <2>4, <3>1, <4>2 DEF Made
    <3>2. CASE o.object.table \notin DOMAIN objects
      <4>1. PICK i \in DOMAIN ops : i < k + 1 /\ Creates(ops[i]) /\ ops[i].id = o.object.table
          BY <2>8, <3>2 DEF InOrder
      <4>2. ops[i] \in First(k)
          BY <2>5, <2>7, <4>1
      <4>. QED BY <2>4, <4>1, <4>2 DEF Made, NewIds
    <3>. QED BY <3>1, <3>2
  <2>11. o.type = "DropTable" => o.id \in DOMAIN now
    <3> SUFFICES ASSUME o.type = "DropTable"
                 PROVE  o.id \in DOMAIN now
        OBVIOUS
    <3>1. Drops(o) /\ ~Creates(o)
        BY DEF Drops, Creates, Destructive, Creating
    <3>2. o.id \in DOMAIN objects
        BY <2>9, <3>1 DEF Separate
    <3>3. ASSUME NEW x \in First(k), Drops(x) PROVE x.id \notin {o.id, objects[o.id].table}
      <4>1. PICK i \in 1 .. k : x = ops[i]
          BY <2>6
      <4>2. i \in DOMAIN ops /\ i # k + 1
          BY <2>5
      <4>3. x.id # o.id
          BY <2>8, <3>3, <4>1, <4>2 DEF InOrder
      <4>. QED BY <2>9, <3>1, <3>3, <4>3 DEF Separate
    <3>4. o.id \notin Gone(objects, First(k))
        BY <3>3 DEF Gone
    <3>. QED BY <2>4, <3>2, <3>4 DEF Made
  <2>12. PICK next : Apply(Fine(now), o) = Fine(next) /\ Made(objects, First(k) \cup {o}, next)
      BY <2>4, <2>9, <2>10, <2>11, MadeByOneMore
  <2>. QED BY <1>2, <1>5, <2>2, <2>4, <2>12
<1>6. Nat \subseteq T
  <2> HIDE DEF Good
  <2>1. \A k \in Nat : k + 1 <= n => k < n /\ k <= n
      BY <1>1
  <2>2. 0 \in T /\ \A k \in Nat : k \in T => k + 1 \in T
      BY <1>3, <1>5, <2>1
  <2> HIDE DEF T
  <2>. QED BY <2>2, SetInduction
<1>7. Good(n)
  <2> HIDE DEF Good
  <2>1. n \in T /\ n <= n
      BY <1>1, <1>6
  <2>. QED BY <2>1
<1> HIDE DEF First
<1>. QED BY <1>2, <1>4, <1>7

----------------------------------------------------------------------------
(* The lists of operations that a diff makes, by what is in them.            *)

\* A list of one operation, or of none.
LEMMA UnlessElements ==
  ASSUME NEW same \in BOOLEAN, NEW op
  PROVE  /\ Listed(Unless(same, op))
         /\ ElementsOf(Unless(same, op)) = IF same THEN {} ELSE {op}
<1>1. Listed(<<op>>)
  <2>1. <<op>> \in Seq({op})
      OBVIOUS
  <2>. QED BY <2>1, ListedIff
<1>. QED BY <1>1, EmptyListed, SingleElement DEF Unless

\* The operations on a column, with the file's values.
SetType(c, d) == [type |-> "AlterColumnType", id |-> c, value |-> d.type]
SetNullable(c, d) == [type |-> "AlterColumnNullability", id |-> c, value |-> d.nullable]
SetDefault(c, d) == [type |-> "AlterColumnDefault", id |-> c, value |-> d.default]
SetName(c, d) == [type |-> "RenameColumn", id |-> c, value |-> d.name]

\* What makes a column the one of the file, but for its name.
Retypes(c, d) ==
  (IF Old(c).type = d.type THEN {} ELSE {SetType(c, d)})
    \cup (IF Old(c).nullable = d.nullable THEN {} ELSE {SetNullable(c, d)})
    \cup (IF Old(c).default = d.default THEN {} ELSE {SetDefault(c, d)})

\* to_operations.py: a column of the same name is retyped field by field.
LEMMA RetypeElements ==
  ASSUME NEW c, NEW d
  PROVE  Listed(RetypeOps(c, d)) /\ ElementsOf(RetypeOps(c, d)) = Retypes(c, d)
<1> DEFINE t == Unless(Old(c).type = d.type, SetType(c, d))
           n == Unless(Old(c).nullable = d.nullable, SetNullable(c, d))
           v == Unless(Old(c).default = d.default, SetDefault(c, d))
<1>1. Listed(t) /\ ElementsOf(t) = IF Old(c).type = d.type THEN {} ELSE {SetType(c, d)}
    BY UnlessElements, Zenon
<1>2. Listed(n) /\ ElementsOf(n) = IF Old(c).nullable = d.nullable THEN {} ELSE {SetNullable(c, d)}
    BY UnlessElements, Zenon
<1>3. Listed(v) /\ ElementsOf(v) = IF Old(c).default = d.default THEN {} ELSE {SetDefault(c, d)}
    BY UnlessElements, Zenon
<1>4. RetypeOps(c, d) = t \o n \o v
    BY DEF RetypeOps, SetType, SetNullable, SetDefault
<1> HIDE DEF t, n, v
<1>5. Listed(t \o n) /\ ElementsOf(t \o n) = ElementsOf(t) \cup ElementsOf(n)
    BY <1>1, <1>2, ListedConcat
<1>6. Listed((t \o n) \o v) /\ ElementsOf((t \o n) \o v) = ElementsOf(t \o n) \cup ElementsOf(v)
    BY <1>3, <1>5, ListedConcat
<1>. QED BY <1>1, <1>2, <1>3, <1>4, <1>5, <1>6 DEF Retypes

\* A renamed column is also retyped.
LEMMA RenameElements ==
  ASSUME NEW c, NEW d
  PROVE  /\ Listed(RenameOps(c, d))
         /\ ElementsOf(RenameOps(c, d)) = {SetName(c, d)} \cup Retypes(c, d)
<1>1. <<SetName(c, d)>> \in Seq({SetName(c, d)})
    OBVIOUS
<1>2. Listed(<<SetName(c, d)>>) /\ ElementsOf(<<SetName(c, d)>>) = {SetName(c, d)}
    BY <1>1, ListedIff, SingleElement
<1>3. RenameOps(c, d) = <<SetName(c, d)>> \o RetypeOps(c, d)
    BY DEF RenameOps, SetName
<1> DEFINE a == <<SetName(c, d)>>
<1> HIDE DEF a
<1>4. /\ Listed(a \o RetypeOps(c, d))
      /\ ElementsOf(a \o RetypeOps(c, d)) = ElementsOf(a) \cup ElementsOf(RetypeOps(c, d))
    BY <1>2, RetypeElements, ListedConcat DEF a
<1>. QED BY <1>2, <1>3, <1>4, RetypeElements DEF a

\* Lists in some order.
LEMMA SomeOrderElements ==
  ASSUME NEW S, IsFiniteSet(S), \A list \in S : Listed(list)
  PROVE  Listed(InSomeOrder(S)) /\ ElementsOf(InSomeOrder(S)) = UNION {ElementsOf(list) : list \in S}
<1> DEFINE lists == Seqs!SetToSeq(S)
<1>1. Listed(lists) /\ ElementsOf(lists) = S
    BY SetToSeqListed
<1>2. InSomeOrder(S) = Seqs!FlattenSeq(lists)
    BY DEF InSomeOrder
<1> HIDE DEF lists
<1>3. \A i \in DOMAIN lists : lists[i] \in S
    BY <1>1 DEF ElementsOf
<1>4. /\ Listed(Seqs!FlattenSeq(lists))
      /\ ElementsOf(Seqs!FlattenSeq(lists)) = UNION {ElementsOf(lists[i]) : i \in DOMAIN lists}
    BY <1>1, <1>3, FlattenListed
<1>5. UNION {ElementsOf(lists[i]) : i \in DOMAIN lists} = UNION {ElementsOf(list) : list \in S}
  <2>1. \A list \in S : \E i \in DOMAIN lists : lists[i] = list
      BY <1>1 DEF ElementsOf
  <2>. QED BY <1>3, <2>1
<1>. QED BY <1>2, <1>4, <1>5

\* One list for each of finitely many things.
LEMMA ListsElements ==
  ASSUME NEW D, IsFiniteSet(D), NEW f, \A x \in D : Listed(f[x])
  PROVE  /\ Listed(InSomeOrder({f[x] : x \in D}))
         /\ ElementsOf(InSomeOrder({f[x] : x \in D})) = UNION {ElementsOf(f[x]) : x \in D}
<1> DEFINE S == {f[x] : x \in D}
<1>1. IsFiniteSet(S)
    BY ImageFinite
<1>2. \A list \in S : Listed(list)
    OBVIOUS
<1>3. UNION {ElementsOf(list) : list \in S} = UNION {ElementsOf(f[x]) : x \in D}
    OBVIOUS
<1> HIDE DEF S
<1>4. Listed(InSomeOrder(S)) /\ ElementsOf(InSomeOrder(S)) = UNION {ElementsOf(list) : list \in S}
    BY <1>1, <1>2, SomeOrderElements
<1>. QED BY <1>3, <1>4 DEF S

\* A column that is dropped, and one that is added.
DropColumn(c) == [type |-> "DropColumn", id |-> c]

AddColumn(t, r, id, d) ==
  [type |-> "AddColumn", id |-> id, object |-> NewColumn(t, Raw(r, d))]

\* What becomes of one table, its new columns numbered from `last` on.
Retyping(x) == UNION {Retypes(p[1], Raw(x.raw, p[2])) : p \in x.retyped}

Becomes(x, p) == {SetName(p[1], Raw(x.raw, p[2]))} \cup Retypes(p[1], Raw(x.raw, p[2]))

Renaming(x) == UNION {Becomes(x, p) : p \in x.renamed}

Dropping(x) == {DropColumn(c) : c \in x.dropped}

Adding(x, last) == {AddColumn(x.table, x.raw, last + d, d) : d \in x.added}

TableElements(x, last) == Retyping(x) \cup Renaming(x) \cup Dropping(x) \cup Adding(x, last)

\* to_operations.py: the operations of one diffed table.
LEMMA TableOpsElements ==
  ASSUME NEW x, NEW last,
         IsFiniteSet(x.retyped), IsFiniteSet(x.renamed), IsFiniteSet(x.dropped), IsFiniteSet(x.added)
  PROVE  Listed(TableOps(x, last)) /\ ElementsOf(TableOps(x, last)) = TableElements(x, last)
<1> DEFINE ft == [p \in x.retyped |-> RetypeOps(p[1], Raw(x.raw, p[2]))]
           fn == [p \in x.renamed |-> RenameOps(p[1], Raw(x.raw, p[2]))]
           fd == [c \in x.dropped |-> <<DropColumn(c)>>]
           fa == [d \in x.added |-> <<AddColumn(x.table, x.raw, last + d, d)>>]
           t == InSomeOrder({ft[p] : p \in x.retyped})
           n == InSomeOrder({fn[p] : p \in x.renamed})
           dropped == InSomeOrder({fd[c] : c \in x.dropped})
           a == InSomeOrder({fa[d] : d \in x.added})
<1>1. TableOps(x, last) = t \o n \o dropped \o a
  <2>1. /\ {ft[p] : p \in x.retyped} = {RetypeOps(p[1], Raw(x.raw, p[2])) : p \in x.retyped}
        /\ {fn[p] : p \in x.renamed} = {RenameOps(p[1], Raw(x.raw, p[2])) : p \in x.renamed}
        /\ {fd[c] : c \in x.dropped} = {<<DropColumn(c)>> : c \in x.dropped}
        /\ {fa[d] : d \in x.added} = {<<AddColumn(x.table, x.raw, last + d, d)>> : d \in x.added}
      OBVIOUS
  <2> HIDE DEF ft, fn, fd, fa
  <2>. QED BY <2>1 DEF TableOps, DropColumn, AddColumn
<1>2. \A o : Listed(<<o>>) /\ ElementsOf(<<o>>) = {o}
  <2>1. \A o : <<o>> \in Seq({o})
      OBVIOUS
  <2>. QED BY <2>1, ListedIff, SingleElement
<1>3. \A p \in x.retyped : Listed(ft[p]) /\ ElementsOf(ft[p]) = Retypes(p[1], Raw(x.raw, p[2]))
    BY RetypeElements
<1>4. \A p \in x.renamed : Listed(fn[p]) /\ ElementsOf(fn[p]) = Becomes(x, p)
    BY RenameElements DEF Becomes
<1>5. \A c \in x.dropped : Listed(fd[c]) /\ ElementsOf(fd[c]) = {DropColumn(c)}
    BY <1>2
<1>6. \A d \in x.added : /\ Listed(fa[d])
                         /\ ElementsOf(fa[d]) = {AddColumn(x.table, x.raw, last + d, d)}
    BY <1>2
<1> HIDE DEF ft, fn, fd, fa
<1>7. Listed(t) /\ ElementsOf(t) = Retyping(x)
  <2>1. Listed(t) /\ ElementsOf(t) = UNION {ElementsOf(ft[p]) : p \in x.retyped}
      BY <1>3, ListsElements
  <2> HIDE DEF t
  <2>. QED BY <1>3, <2>1 DEF Retyping
<1>8. Listed(n) /\ ElementsOf(n) = Renaming(x)
  <2>1. Listed(n) /\ ElementsOf(n) = UNION {ElementsOf(fn[p]) : p \in x.renamed}
      BY <1>4, ListsElements
  <2> HIDE DEF n
  <2>. QED BY <1>4, <2>1 DEF Renaming
<1>9. Listed(dropped) /\ ElementsOf(dropped) = Dropping(x)
  <2>1. Listed(dropped) /\ ElementsOf(dropped) = UNION {ElementsOf(fd[c]) : c \in x.dropped}
      BY <1>5, ListsElements
  <2>2. UNION {ElementsOf(fd[c]) : c \in x.dropped} = Dropping(x)
      BY <1>5 DEF Dropping
  <2>. QED BY <2>1, <2>2
<1>10. Listed(a) /\ ElementsOf(a) = Adding(x, last)
  <2>1. Listed(a) /\ ElementsOf(a) = UNION {ElementsOf(fa[d]) : d \in x.added}
      BY <1>6, ListsElements
  <2>2. UNION {ElementsOf(fa[d]) : d \in x.added} = Adding(x, last)
      BY <1>6 DEF Adding
  <2>. QED BY <2>1, <2>2
<1> HIDE DEF t, n, dropped, a
<1>11. Listed(t \o n) /\ ElementsOf(t \o n) = ElementsOf(t) \cup ElementsOf(n)
    BY <1>7, <1>8, ListedConcat
<1>12. /\ Listed(t \o n \o dropped)
       /\ ElementsOf(t \o n \o dropped) = ElementsOf(t \o n) \cup ElementsOf(dropped)
    BY <1>9, <1>11, ListedConcat
<1>13. /\ Listed(t \o n \o dropped \o a)
       /\ ElementsOf(t \o n \o dropped \o a) = ElementsOf(t \o n \o dropped) \cup ElementsOf(a)
    BY <1>10, <1>12, ListedConcat
<1>. QED BY <1>1, <1>7, <1>8, <1>9, <1>10, <1>11, <1>12, <1>13 DEF TableElements

\* A list of some elements is one of more.
LEMMA ListedMore ==
  ASSUME NEW list, Listed(list), NEW S, ElementsOf(list) \subseteq S
  PROVE  list \in Seq(S)
<1>1. PICK n \in Nat : list \in [1 .. n -> ElementsOf(list)]
    BY SeqDef DEF Listed
<1>2. list \in [1 .. n -> S]
    BY <1>1
<1>. QED BY <1>2, SeqDef

\* The places of two lists, one behind the other.
LEMMA ConcatPlaces ==
  ASSUME NEW a, NEW b, Listed(a), Listed(b)
  PROVE  /\ Len(a \o b) = Len(a) + Len(b) /\ DOMAIN (a \o b) = 1 .. (Len(a) + Len(b))
         /\ \A i \in 1 .. (Len(a) + Len(b)) :
              (a \o b)[i] = IF i <= Len(a) THEN a[i] ELSE b[i - Len(a)]
<1> DEFINE S == ElementsOf(a) \cup ElementsOf(b)
<1>1. a \in Seq(S) /\ b \in Seq(S)
    BY ListedMore
<1> HIDE DEF S
<1>. QED BY <1>1, ConcatProperties

\* A new table of the file.
CreateTable(id, r) ==
  [type |-> "CreateTable", id |-> id, object |-> Object("table", NoId, file[r].name)]

\* A new table with its columns, numbered from `last` on.
CreateElements(r, last) ==
  {CreateTable(last + 1, r)}
    \cup {AddColumn(last + 1, r, last + 1 + d, d) : d \in DOMAIN file[r].columns}

\* to_operations.py: the operations of a new table; the table comes first.
LEMMA CreateOpsElements ==
  ASSUME NEW r, Listed(file[r].columns), NEW last
  PROVE  /\ Listed(CreateOps(r, last)) /\ ElementsOf(CreateOps(r, last)) = CreateElements(r, last)
         /\ CreateOps(r, last)[1] = CreateTable(last + 1, r)
         /\ 1 \in DOMAIN CreateOps(r, last)
<1> DEFINE new == file[r].columns
           n == Len(new)
           a == <<CreateTable(last + 1, r)>>
           b == [d \in DOMAIN new |-> AddColumn(last + 1, r, last + 1 + d, d)]
<1>1. n \in Nat /\ DOMAIN new = 1 .. n
    BY ListedPlaces
<1>2. CreateOps(r, last) = a \o b
    BY DEF CreateOps, CreateTable, AddColumn
<1>3. Listed(a) /\ ElementsOf(a) = {CreateTable(last + 1, r)}
  <2>1. \A o : <<o>> \in Seq({o})
      OBVIOUS
  <2>2. \A o : Listed(<<o>>) /\ ElementsOf(<<o>>) = {o}
      BY <2>1, ListedIff, SingleElement
  <2>. QED BY <2>2
<1>4. Listed(b)
  <2>1. DOMAIN b = 1 .. n /\ b = [i \in 1 .. n |-> b[i]]
      BY <1>1
  <2> HIDE DEF b
  <2>. QED BY <1>1, <2>1, ListedFunction
<1>5. ElementsOf(b) = {AddColumn(last + 1, r, last + 1 + d, d) : d \in DOMAIN new}
    BY DEF ElementsOf
<1>6. Len(a) = 1 /\ a[1] = CreateTable(last + 1, r)
    OBVIOUS
<1> HIDE DEF a, b
<1>7. Listed(a \o b) /\ ElementsOf(a \o b) = ElementsOf(a) \cup ElementsOf(b)
    BY <1>3, <1>4, ListedConcat
<1>8. 1 \in DOMAIN (a \o b) /\ (a \o b)[1] = a[1]
  <2>1. Len(b) \in Nat /\ 1 \in 1 .. (Len(a) + Len(b)) /\ 1 <= Len(a)
      BY <1>4, <1>6, ListedPlaces
  <2>. QED BY <1>3, <1>4, <2>1, ConcatPlaces
<1>. QED BY <1>2, <1>3, <1>5, <1>6, <1>7, <1>8 DEF CreateElements

----------------------------------------------------------------------------
(* The diff.                                                                 *)

\* The columns of a tracked table, of a table of the file, and those of either
\* whose name the other has not.
Olds(t) == ColumnsOf(schema, t)

News(r) == DOMAIN file[r].columns

Named(c, r, d) == Old(c).name = file[r].columns[d].name

Vanished(t, r) == {c \in Olds(t) : \A d \in News(r) : ~Named(c, r, d)}

Appeared(t, r) == {d \in News(r) : \A c \in Olds(t) : ~Named(c, r, d)}

\* What is known of a matched table once it is diffed.
Diffed(x) ==
  /\ x.table \in Tables(schema) /\ x.raw \in DOMAIN file /\ Matches(x.table, x.raw)
  /\ x.retyped = {p \in Olds(x.table) \X News(x.raw) : Named(p[1], x.raw, p[2])}
  /\ x.renamed \subseteq Vanished(x.table, x.raw) \X Appeared(x.table, x.raw)
  /\ \A p, q \in x.renamed : p[1] = q[1] <=> p[2] = q[2]
  /\ x.dropped = Vanished(x.table, x.raw) \ {p[1] : p \in x.renamed}
  /\ x.added = Appeared(x.table, x.raw) \ {p[2] : p \in x.renamed}

\* The schema and the file as they are when a sync starts.
Given == schema \in Tracked /\ file \in Files

\* The tracked objects.
Objects == schema.objects

\* TrackedAssumption, for the schema of this sync.
LEMMA GivenSchema ==
  ASSUME Given
  PROVE  /\ schema = Fine(Objects) /\ AreObjects(Objects)
         /\ IsFiniteSet(DOMAIN Objects) /\ DOMAIN Objects \subseteq Nat \ {NoId}
         /\ \A i \in DOMAIN Objects :
              /\ {"kind", "table", "name", "type", "nullable", "default"} \subseteq DOMAIN Objects[i]
              /\ Objects[i].kind = "table" => Objects[i].table = NoId
              /\ Objects[i].kind = "column" => /\ Objects[i].table \in Tables(schema)
                                               /\ Objects[i].name \in Name
<1>1. /\ schema = [broken |-> FALSE, objects |-> [i \in DOMAIN schema.objects |-> schema.objects[i]]]
      /\ IsFiniteSet(DOMAIN schema.objects) /\ DOMAIN schema.objects \subseteq Nat \ {NoId}
      /\ \A i \in DOMAIN schema.objects :
           LET object == schema.objects[i]
           IN  /\ object = [f \in DOMAIN object |-> object[f]]
               /\ {"kind", "table", "name", "type", "nullable", "default"} \subseteq DOMAIN object
               /\ object.kind = "table" => object.table = NoId
               /\ object.kind = "column" => object.table \in Tables(schema) /\ object.name \in Name
    BY TrackedAssumption, Zenon DEF Given
<1>2. schema.objects = [i \in DOMAIN schema.objects |-> schema.objects[i]]
  <2> DEFINE o == [i \in DOMAIN schema.objects |-> schema.objects[i]]
  <2>1. schema = [broken |-> FALSE, objects |-> o]
      BY <1>1
  <2> HIDE DEF o
  <2>2. schema.objects = o
      BY <2>1
  <2>. QED BY <2>2 DEF o
<1>3. schema = Fine(Objects)
    BY <1>1, <1>2, Zenon DEF Fine, Objects
<1>. QED BY <1>1, <1>2, <1>3 DEF Objects, AreObjects, IsFunction

\* FilesAssumption, for the file of this sync.
LEMMA GivenFile ==
  ASSUME Given
  PROVE  /\ Listed(file)
         /\ \A r \in DOMAIN file :
              /\ Listed(file[r].columns)
              /\ \A d \in News(r) :
                   /\ Raw(r, d).name = file[r].columns[d].name
                   /\ Raw(r, d).type = file[r].columns[d].type
                   /\ Raw(r, d).nullable = file[r].columns[d].nullable
                   /\ Raw(r, d).default = file[r].columns[d].default
                   /\ file[r].columns[d].name \in Name
<1>1. /\ file \in Seq(ElementsOf(file))
      /\ \A r \in DOMAIN file :
           /\ file[r].columns \in Seq(ElementsOf(file[r].columns))
           /\ \A d \in DOMAIN file[r].columns :
                /\ {"name", "type", "nullable", "default"} \subseteq DOMAIN file[r].columns[d]
                /\ file[r].columns[d].name \in Name
    BY FilesAssumption DEF Given
<1>2. ASSUME NEW r \in DOMAIN file, NEW d \in News(r)
      PROVE  /\ Raw(r, d).name = file[r].columns[d].name
             /\ Raw(r, d).type = file[r].columns[d].type
             /\ Raw(r, d).nullable = file[r].columns[d].nullable
             /\ Raw(r, d).default = file[r].columns[d].default
             /\ file[r].columns[d].name \in Name
  <2>1. /\ {"name", "type", "nullable", "default"} \subseteq DOMAIN file[r].columns[d]
        /\ file[r].columns[d].name \in Name
      BY <1>1 DEF News
  <2>. QED BY <2>1 DEF Raw
<1>. QED BY <1>1, <1>2 DEF Listed

\* The places of a table's columns in the file.
LEMMA PlacesInTable ==
  ASSUME Given, NEW r \in DOMAIN file
  PROVE  IsFiniteSet(News(r)) /\ News(r) \subseteq Nat \ {0}
<1>1. Len(file[r].columns) \in Nat /\ DOMAIN file[r].columns = 1 .. Len(file[r].columns)
    BY GivenFile, ListedPlaces
<1>2. News(r) = 1 .. Len(file[r].columns) /\ IsFiniteSet(1 .. Len(file[r].columns))
  <2> DEFINE n == Len(file[r].columns)
  <2>1. News(r) = 1 .. n
      BY <1>1 DEF News
  <2>2. n \in Nat
      BY <1>1
  <2> HIDE DEF n
  <2>3. 1 \in Int /\ n \in Int
      BY <2>2
  <2>4. IsFiniteSet(1 .. n)
      BY <2>3, FS_Interval
  <2>. QED BY <2>1, <2>4 DEF n
<1>3. 1 .. Len(file[r].columns) \subseteq Nat \ {0}
    BY <1>1
<1>. QED BY <1>2, <1>3

\* A diff is about finitely many columns.
LEMMA DiffedFinite ==
  ASSUME Given, NEW x, Diffed(x)
  PROVE  /\ IsFiniteSet(x.retyped) /\ IsFiniteSet(x.renamed)
         /\ IsFiniteSet(x.dropped) /\ IsFiniteSet(x.added)
<1>1. IsFiniteSet(News(x.raw))
    BY PlacesInTable DEF Diffed
<1>2. IsFiniteSet(Olds(x.table))
  <2>1. Olds(x.table) \subseteq DOMAIN Objects
      BY DEF Olds, ColumnsOf, OfKind, Inside, Objects
  <2>. QED BY <2>1, GivenSchema, FS_Subset
<1>3. IsFiniteSet(Olds(x.table) \X News(x.raw))
    BY <1>1, <1>2, FS_Product
<1>4. /\ x.retyped \subseteq Olds(x.table) \X News(x.raw) /\ x.renamed \subseteq Olds(x.table) \X News(x.raw)
      /\ x.dropped \subseteq Olds(x.table) /\ x.added \subseteq News(x.raw)
    BY DEF Diffed, Vanished, Appeared
<1>. QED BY <1>1, <1>2, <1>3, <1>4, FS_Subset

\* Ids after the last one are not in use.
LEMMA LastIdIsLast ==
  ASSUME Given, NEW ops, Listed(ops), \A o \in ElementsOf(ops) : o.id \in Nat
  PROVE  /\ LastId(schema, ops) \in Nat
         /\ \A i \in DOMAIN Objects : i <= LastId(schema, ops)
         /\ \A o \in ElementsOf(ops) : o.id <= LastId(schema, ops)
<1> DEFINE ids == {ops[i].id : i \in DOMAIN ops}
           used == {NoId} \cup DOMAIN Objects \cup ids
<1>1. IsFiniteSet(ids)
  <2>1. IsFiniteSet(DOMAIN ops)
      BY ListedPlaces, FS_Interval
  <2> DEFINE f == [i \in DOMAIN ops |-> ops[i].id]
  <2>2. ids = {f[i] : i \in DOMAIN ops}
      OBVIOUS
  <2> HIDE DEF f
  <2>. QED BY <2>1, <2>2, ImageFinite
<1>2. \A o \in ElementsOf(ops) : o.id \in ids
    BY DEF ElementsOf
<1>3. ids \subseteq Nat
    BY DEF ElementsOf
<1> HIDE DEF ids
<1>4. IsFiniteSet(used) /\ used \subseteq Nat /\ NoId \in used
  <2>1. IsFiniteSet({NoId}) /\ {NoId} \subseteq Nat /\ NoId \in used
      BY FS_Singleton DEF NoId
  <2>2. IsFiniteSet(DOMAIN Objects) /\ DOMAIN Objects \subseteq Nat
      BY GivenSchema
  <2>3. IsFiniteSet({NoId} \cup DOMAIN Objects)
      BY <2>1, <2>2, FS_Union
  <2>4. IsFiniteSet(used)
      BY <1>1, <2>3, FS_Union
  <2>5. used \subseteq Nat
      BY <1>3, <2>1, <2>2
  <2>. QED BY <2>1, <2>4, <2>5
<1>5. \E i \in used : \A j \in used : j <= i
  <2>1. PICK m \in Nat : \A j \in used : j <= m
      BY <1>4, FiniteBound
  <2>. QED BY <1>4, <2>1, GreatestNatural
<1>6. LastId(schema, ops) = CHOOSE i \in used : \A j \in used : j <= i
    BY DEF LastId, ids, Objects
<1>7. LastId(schema, ops) \in used /\ \A j \in used : j <= LastId(schema, ops)
    BY <1>5, <1>6
<1>. QED BY <1>2, <1>4, <1>7

----------------------------------------------------------------------------
(* Lists of operations that grow by what one table needs after the other.    *)

\* What is made is in no table, in one that is there or in one made before.
Ordered(ops) ==
  \A j \in DOMAIN ops : Creates(ops[j]) /\ ops[j].object.table \notin {NoId} \cup DOMAIN Objects =>
    \E i \in DOMAIN ops : i < j /\ Creates(ops[i]) /\ ops[i].id = ops[j].object.table

\* What each operation is about: what is made is new, the rest is there, tables
\* are dropped as tables and nothing else is.
Valid(o) ==
  /\ o.type \in Variants /\ o.id \in Nat
  /\ Creates(o) => o.id \notin DOMAIN Objects /\ IsFunction(o.object)
  /\ ~Creates(o) => o.id \in DOMAIN Objects
  /\ Drops(o) => (o.type = "DropTable" <=> Objects[o.id].kind = "table")

\* Nothing is made twice, no table is dropped twice.
Proper(ops) ==
  /\ Listed(ops) /\ Ordered(ops)
  /\ \A o \in ElementsOf(ops) : Valid(o)
  /\ \A o, x \in ElementsOf(ops) : Creates(o) /\ Creates(x) /\ o.id = x.id => o = x
  /\ \A i, j \in DOMAIN ops :
       ops[i].type = "DropTable" /\ ops[j].type = "DropTable" /\ ops[i].id = ops[j].id => i = j

\* Of two lists in order, one behind the other is in order.
LEMMA OrderedConcat ==
  ASSUME NEW a, NEW b, Listed(a), Listed(b), Ordered(a), Ordered(b)
  PROVE  Ordered(a \o b)
<1> DEFINE c == a \o b
<1>1. Len(a) \in Nat /\ Len(b) \in Nat /\ DOMAIN a = 1 .. Len(a) /\ DOMAIN b = 1 .. Len(b)
    BY ListedPlaces
<1>2. /\ DOMAIN c = 1 .. (Len(a) + Len(b))
      /\ \A i \in 1 .. (Len(a) + Len(b)) : c[i] = IF i <= Len(a) THEN a[i] ELSE b[i - Len(a)]
    BY ConcatPlaces
<1> HIDE DEF c
<1> SUFFICES ASSUME NEW j \in DOMAIN c, Creates(c[j]),
                    c[j].object.table \notin {NoId} \cup DOMAIN Objects
             PROVE  \E i \in DOMAIN c : i < j /\ Creates(c[i]) /\ c[i].id = c[j].object.table
    BY DEF Ordered, c
<1>3. CASE j <= Len(a)
  <2>1. j \in DOMAIN a /\ c[j] = a[j]
      BY <1>1, <1>2, <1>3
  <2>2. PICK i \in DOMAIN a : i < j /\ Creates(a[i]) /\ a[i].id = a[j].object.table
      BY <2>1 DEF Ordered
  <2>3. i \in DOMAIN c /\ c[i] = a[i]
      BY <1>1, <1>2, <1>3, <2>2
  <2>. QED BY <2>1, <2>2, <2>3
<1>4. CASE ~(j <= Len(a))
  <2>1. j - Len(a) \in DOMAIN b /\ c[j] = b[j - Len(a)]
      BY <1>1, <1>2, <1>4
  <2>2. PICK i \in DOMAIN b : i < j - Len(a) /\ Creates(b[i]) /\ b[i].id = b[j - Len(a)].object.table
      BY <2>1 DEF Ordered
  <2> DEFINE k == Len(a) + i
  <2>3. k \in 1 .. (Len(a) + Len(b)) /\ k < j /\ ~(k <= Len(a)) /\ k - Len(a) = i
      BY <1>1, <1>2, <2>1, <2>2
  <2>4. k \in DOMAIN c /\ c[k] = b[i]
      BY <1>2, <2>3
  <2>. QED BY <2>1, <2>2, <2>3, <2>4
<1>. QED BY <1>3, <1>4

\* Two proper lists that neither make nor drop the same.
LEMMA ProperConcat ==
  ASSUME NEW a, NEW b, Proper(a), Proper(b),
         \A o \in ElementsOf(a), x \in ElementsOf(b) : Creates(o) /\ Creates(x) => o.id # x.id,
         \A o \in ElementsOf(a), x \in ElementsOf(b) :
           o.type = "DropTable" /\ x.type = "DropTable" => o.id # x.id
  PROVE  Proper(a \o b) /\ ElementsOf(a \o b) = ElementsOf(a) \cup ElementsOf(b)
<1> DEFINE c == a \o b
<1>1. Len(a) \in Nat /\ Len(b) \in Nat /\ DOMAIN a = 1 .. Len(a) /\ DOMAIN b = 1 .. Len(b)
    BY ListedPlaces DEF Proper
<1>2. /\ DOMAIN c = 1 .. (Len(a) + Len(b))
      /\ \A i \in 1 .. (Len(a) + Len(b)) : c[i] = IF i <= Len(a) THEN a[i] ELSE b[i - Len(a)]
    BY ConcatPlaces DEF Proper
<1>3. Listed(c) /\ ElementsOf(c) = ElementsOf(a) \cup ElementsOf(b)
    BY ListedConcat DEF Proper
<1>4. Ordered(c)
    BY OrderedConcat DEF Proper
<1> HIDE DEF c
<1>5. \A i \in DOMAIN c : \/ i <= Len(a) /\ i \in DOMAIN a /\ c[i] = a[i] /\ c[i] \in ElementsOf(a)
                          \/ /\ ~(i <= Len(a)) /\ i - Len(a) \in DOMAIN b /\ c[i] = b[i - Len(a)]
                             /\ c[i] \in ElementsOf(b)
    BY <1>1, <1>2 DEF ElementsOf
<1>6. ASSUME NEW i \in DOMAIN c, NEW j \in DOMAIN c,
             c[i].type = "DropTable", c[j].type = "DropTable", c[i].id = c[j].id
      PROVE  i = j
  <2>1. i \in Nat /\ j \in Nat
      BY <1>1, <1>2
  <2>2. CASE i <= Len(a) /\ j <= Len(a)
      BY <1>5, <1>6, <2>2 DEF Proper
  <2>3. CASE ~(i <= Len(a)) /\ ~(j <= Len(a))
    <3>1. i - Len(a) = j - Len(a)
        BY <1>5, <1>6, <2>3 DEF Proper
    <3>. QED BY <1>1, <2>1, <3>1
  <2>4. CASE ~(i <= Len(a) <=> j <= Len(a))
      BY <1>5, <1>6, <2>4
  <2>. QED BY <2>2, <2>3, <2>4
<1>7. \A o \in ElementsOf(c) : Valid(o)
    BY <1>3 DEF Proper
<1>8. \A o, x \in ElementsOf(c) : Creates(o) /\ Creates(x) /\ o.id = x.id => o = x
    BY <1>3 DEF Proper
<1>. QED BY <1>3, <1>4, <1>6, <1>7, <1>8 DEF Proper, c

\* What one table of the file needs: its creation, or what was diffed.
Block(kind, x, last) == IF kind = "create" THEN CreateOps(x, last) ELSE TableOps(x, last)

BlockElements(kind, x, last) ==
  IF kind = "create" THEN CreateElements(x, last) ELSE TableElements(x, last)

Fit(kind, x) == IF kind = "create" THEN x \in DOMAIN file ELSE Diffed(x)

\* It makes new objects, in order, and drops no table.
BlockIsGood(ops, elements, last) ==
  /\ Listed(ops) /\ ElementsOf(ops) = elements /\ Ordered(ops)
  /\ \A o \in elements : Valid(o) /\ o.type # "DropTable" /\ (Creates(o) => o.id > last)
  /\ \A o, x \in elements : Creates(o) /\ Creates(x) /\ o.id = x.id => o = x

\* A new column is a record that names its table.
LEMMA NewColumnIsFunction ==
  \A t, d : IsFunction(NewColumn(t, d)) /\ NewColumn(t, d).table = t
    /\ NewColumn(t, d).kind = "column"
BY DEF NewColumn, IsFunction

\* A new table and its columns get ids that nothing has.
LEMMA CreateIsGood ==
  ASSUME Given, NEW r \in DOMAIN file, NEW last \in Nat, \A i \in DOMAIN Objects : i <= last
  PROVE  BlockIsGood(CreateOps(r, last), CreateElements(r, last), last)
<1> DEFINE E == CreateElements(r, last)  ops == CreateOps(r, last)
           C == CreateTable(last + 1, r)
           A(d) == AddColumn(last + 1, r, last + 1 + d, d)
<1>1. Listed(ops) /\ ElementsOf(ops) = E /\ ops[1] = C /\ 1 \in DOMAIN ops
    BY CreateOpsElements, GivenFile
<1>2. News(r) \subseteq Nat \ {0}
    BY PlacesInTable
<1>3. /\ C.type = "CreateTable" /\ C.id = last + 1 /\ C.object.table = NoId
      /\ IsFunction(C.object)
    BY DEF CreateTable, Object, IsFunction
<1>4. \A d \in News(r) : /\ A(d).type = "AddColumn" /\ A(d).id = last + 1 + d
                         /\ A(d).object.table = last + 1 /\ IsFunction(A(d).object)
    BY NewColumnIsFunction DEF AddColumn
<1>5. E = {C} \cup {A(d) : d \in News(r)}
    BY DEF CreateElements, News
<1>6. {"CreateTable", "AddColumn"} \subseteq Creating
    BY DEF Creating
<1> HIDE DEF C, A, ops, E
<1>7. \A o \in E : Creates(o) /\ o.id > last /\ o.id \in Nat /\ IsFunction(o.object)
                     /\ o.type \in {"CreateTable", "AddColumn"}
                     /\ o.object.table \in {NoId, last + 1}
    BY <1>2, <1>3, <1>4, <1>5, <1>6 DEF Creates
<1>8. \A o \in E : ~Drops(o) /\ o.id \notin DOMAIN Objects /\ o.type \in Variants
  <2>1. \A o \in E : o.id \notin DOMAIN Objects
    <3> SUFFICES ASSUME NEW o \in E, o.id \in DOMAIN Objects PROVE FALSE
        OBVIOUS
    <3>1. o.id <= last /\ o.id > last /\ o.id \in Nat
        BY <1>7
    <3>. QED BY <3>1
  <2>. QED BY <1>7, <2>1 DEF Drops, Destructive, Variants, Creating
<1>9. \A o \in E : Valid(o) /\ o.type # "DropTable" /\ o.id > last
    BY <1>7, <1>8 DEF Valid
<1>10. \A o, x \in E : o.id = x.id => o = x
    BY <1>2, <1>3, <1>4, <1>5
<1>11. Ordered(ops)
  <2> SUFFICES ASSUME NEW j \in DOMAIN ops,
                      ops[j].object.table \notin {NoId} \cup DOMAIN Objects
               PROVE  \E i \in DOMAIN ops : i < j /\ Creates(ops[i]) /\ ops[i].id = ops[j].object.table
      BY DEF Ordered
  <2>1. ops[j] \in E
      BY <1>1 DEF ElementsOf
  <2>2. ops[j].object.table = last + 1
      BY <1>7, <2>1
  <2>3. j # 1
      BY <1>1, <1>3, <2>2
  <2>4. 1 < j
      BY <1>1, <2>3, ListedPlaces
  <2>5. Creates(ops[1]) /\ ops[1].id = last + 1
      BY <1>1, <1>3, <1>6 DEF Creates
  <2>. QED BY <1>1, <2>2, <2>4, <2>5
<1>. QED BY <1>1, <1>9, <1>10, <1>11 DEF BlockIsGood, ops, E

\* The operations of a diffed table, each of its kind.
LEMMA RetypesAre ==
  ASSUME NEW c, NEW d, NEW o \in Retypes(c, d)
  PROVE  /\ o.id = c
         /\ o.type \in {"AlterColumnType", "AlterColumnNullability", "AlterColumnDefault"}
BY DEF Retypes, SetType, SetNullable, SetDefault

\* What a diffed table needs changes its columns or adds some.
LEMMA TableElementsAre ==
  ASSUME Given, NEW x, Diffed(x), NEW last, NEW o \in TableElements(x, last)
  PROVE  \/ /\ o.id \in Olds(x.table)
            /\ o.type \in {"AlterColumnType", "AlterColumnNullability", "AlterColumnDefault",
                           "RenameColumn", "DropColumn"}
         \/ \E d \in x.added : o = AddColumn(x.table, x.raw, last + d, d)
<1>1. CASE o \in Retyping(x)
  <2>1. PICK p \in x.retyped : o \in Retypes(p[1], Raw(x.raw, p[2]))
      BY <1>1 DEF Retyping
  <2>2. p[1] \in Olds(x.table)
      BY DEF Diffed
  <2>. QED BY <2>1, <2>2, RetypesAre
<1>2. CASE o \in Renaming(x)
  <2>1. PICK p \in x.renamed : o \in Becomes(x, p)
      BY <1>2 DEF Renaming
  <2>2. p[1] \in Olds(x.table)
      BY DEF Diffed, Vanished
  <2>3. CASE o = SetName(p[1], Raw(x.raw, p[2]))
      BY <2>2, <2>3 DEF SetName
  <2>4. CASE o \in Retypes(p[1], Raw(x.raw, p[2]))
      BY <2>2, <2>4, RetypesAre
  <2>. QED BY <2>1, <2>3, <2>4 DEF Becomes
<1>3. CASE o \in Dropping(x)
  <2>1. PICK c \in x.dropped : o = DropColumn(c)
      BY <1>3 DEF Dropping
  <2>2. c \in Olds(x.table)
      BY DEF Diffed, Vanished
  <2>. QED BY <2>1, <2>2 DEF DropColumn
<1>4. CASE o \in Adding(x, last)
    BY <1>4 DEF Adding
<1>. QED BY <1>1, <1>2, <1>3, <1>4 DEF TableElements

\* Its added columns get ids that nothing has.
LEMMA TableIsGood ==
  ASSUME Given, NEW x, Diffed(x), NEW last \in Nat, \A i \in DOMAIN Objects : i <= last
  PROVE  BlockIsGood(TableOps(x, last), TableElements(x, last), last)
<1> DEFINE E == TableElements(x, last)  ops == TableOps(x, last)
           A(d) == AddColumn(x.table, x.raw, last + d, d)
           Changing == {"AlterColumnType", "AlterColumnNullability", "AlterColumnDefault",
                        "RenameColumn", "DropColumn"}
<1>1. Listed(ops) /\ ElementsOf(ops) = E
    BY DiffedFinite, TableOpsElements
<1>2. x.added \subseteq Nat \ {0}
    BY PlacesInTable DEF Diffed, Appeared
<1>3. x.table \in DOMAIN Objects /\ \A c \in Olds(x.table) : c \in DOMAIN Objects
                                      /\ Objects[c].kind = "column"
    BY DEF Diffed, Tables, Olds, ColumnsOf, OfKind, Objects
<1>4. \A o \in E : \/ o.id \in Olds(x.table) /\ o.type \in Changing
                   \/ \E d \in x.added : o = A(d)
    BY TableElementsAre
<1>5. \A d \in x.added : /\ A(d).type = "AddColumn" /\ A(d).id = last + d
                         /\ A(d).object.table = x.table /\ IsFunction(A(d).object)
    BY NewColumnIsFunction DEF AddColumn
<1>6. /\ "AddColumn" \in Creating /\ "AddColumn" \notin Destructive /\ "AddColumn" # "DropTable"
      /\ \A v \in Changing : v \notin Creating /\ v \in Variants /\ v # "DropTable"
      /\ "AddColumn" \in Variants
    BY DEF Creating, Destructive, Variants, SetField, MutationField
<1> HIDE DEF A, ops, E, Changing
<1>7. \A o \in E : Creates(o) => \E d \in x.added : o = A(d)
    BY <1>4, <1>6 DEF Creates
<1>8. DOMAIN Objects \subseteq Nat
    BY GivenSchema
<1>9. \A d \in x.added : /\ Valid(A(d)) /\ A(d).type # "DropTable" /\ A(d).id > last
  <2> SUFFICES ASSUME NEW d \in x.added
               PROVE  Valid(A(d)) /\ A(d).type # "DropTable" /\ A(d).id > last
      OBVIOUS
  <2>1. A(d).id \in Nat /\ A(d).id > last
      BY <1>2, <1>5
  <2>2. A(d).id \notin DOMAIN Objects
      BY <1>8, <2>1
  <2>3. Creates(A(d)) /\ ~Drops(A(d))
      BY <1>5, <1>6 DEF Creates, Drops
  <2>. QED BY <1>5, <1>6, <2>1, <2>2, <2>3 DEF Valid
<1>10. \A o \in E : o.id \in Olds(x.table) /\ o.type \in Changing =>
         Valid(o) /\ o.type # "DropTable" /\ ~Creates(o)
    BY <1>3, <1>6, <1>8 DEF Valid, Creates
<1>11. \A o \in E : Valid(o) /\ o.type # "DropTable" /\ (Creates(o) => o.id > last)
    BY <1>4, <1>9, <1>10
<1>12. \A o, y \in E : Creates(o) /\ Creates(y) /\ o.id = y.id => o = y
    BY <1>2, <1>5, <1>7
<1>13. Ordered(ops)
  <2>1. \A j \in DOMAIN ops : Creates(ops[j]) => ops[j].object.table \in DOMAIN Objects
      BY <1>1, <1>3, <1>5, <1>7 DEF ElementsOf
  <2>. QED BY <2>1 DEF Ordered
<1>. QED BY <1>1, <1>11, <1>12, <1>13 DEF BlockIsGood, ops, E

\* One block alone is a proper list.
LEMMA GoodIsProper ==
  ASSUME NEW ops, NEW elements, NEW last, BlockIsGood(ops, elements, last)
  PROVE  Proper(ops) /\ ElementsOf(ops) = elements /\ \A o \in elements : o.type # "DropTable"
<1>1. \A i \in DOMAIN ops : ops[i].type # "DropTable"
    BY DEF BlockIsGood, ElementsOf
<1>. QED BY <1>1 DEF BlockIsGood, Proper

\* Blocks of both kinds are good.
LEMMA BlocksAreGood ==
  ASSUME Given, NEW kind, NEW x, Fit(kind, x), NEW last \in Nat, \A i \in DOMAIN Objects : i <= last
  PROVE  BlockIsGood(Block(kind, x, last), BlockElements(kind, x, last), last)
BY CreateIsGood, TableIsGood DEF Fit, Block, BlockElements

\* The list with what one table more needs, as generate_operations adds it.
AddBlock(kind, ops, x) == ops \o Block(kind, x, LastId(schema, ops))

\* A fold that adds blocks, as the definition of folds has it.
IsBuild(kind, base, list, n, iter) ==
  iter = [s \in SUBSET (1 .. n) |->
            IF s = {} THEN base ELSE AddBlock(kind, iter[s \ {Seqs!Max(s)}], list[Seqs!Max(s)])]

\* The two folds of Operations.
IsCreation(base, list, n, iter) ==
  iter = [s \in SUBSET (1 .. n) |->
            IF s = {} THEN base
            ELSE iter[s \ {Seqs!Max(s)}]
                   \o CreateOps(list[Seqs!Max(s)], LastId(schema, iter[s \ {Seqs!Max(s)}]))]

IsChange(base, list, n, iter) ==
  iter = [s \in SUBSET (1 .. n) |->
            IF s = {} THEN base
            ELSE iter[s \ {Seqs!Max(s)}]
                   \o TableOps(list[Seqs!Max(s)], LastId(schema, iter[s \ {Seqs!Max(s)}]))]

\* Their values.
Creation(base, list) ==
  Seqs!FoldLeft(LAMBDA ops, r : ops \o CreateOps(r, LastId(schema, ops)), base, list)

Change(base, list) ==
  Seqs!FoldLeft(LAMBDA ops, x : ops \o TableOps(x, LastId(schema, ops)), base, list)

\* They are the library's folds.
LEMMA CreationIsFold ==
  ASSUME NEW base, NEW list, NEW n \in Nat, DOMAIN list = 1 .. n
  PROVE  Creation(base, list) = (CHOOSE iter : IsCreation(base, list, n, iter))[1 .. n]
  BY DEF Creation, Seqs!FoldLeft, Seqs!MapThenFoldSet, IsCreation

\* The same for the tables that are diffed.
LEMMA ChangeIsFold ==
  ASSUME NEW base, NEW list, NEW n \in Nat, DOMAIN list = 1 .. n
  PROVE  Change(base, list) = (CHOOSE iter : IsChange(base, list, n, iter))[1 .. n]
  BY DEF Change, Seqs!FoldLeft, Seqs!MapThenFoldSet, IsChange

\* The list round by round.
IsRounds(kind, base, list, n, round) ==
  /\ round[0] = base
  /\ \A k \in Nat : k < n => round[k + 1] = AddBlock(kind, round[k], list[k + 1])

\* There is such a fold: by induction on n.
LEMMA BuildExists ==
  ASSUME NEW kind, NEW base, NEW list, NEW n \in Nat
  PROVE  \E iter : IsBuild(kind, base, list, n, iter)
<1> DEFINE S == {m \in Nat : \E iter : IsBuild(kind, base, list, m, iter)}
<1>1. 0 \in S
  <2>1. SUBSET (1 .. 0) = {{}}
      OBVIOUS
  <2>2. IsBuild(kind, base, list, 0, [s \in SUBSET (1 .. 0) |-> base])
      BY <2>1 DEF IsBuild
  <2>. QED
      BY <2>2
<1>2. ASSUME NEW m \in Nat, m \in S
      PROVE  m + 1 \in S
  <2>1. PICK iter : IsBuild(kind, base, list, m, iter)
      BY <1>2
  <2> DEFINE next == [s \in SUBSET (1 .. (m + 1)) |->
                        IF s = {} THEN base
                        ELSE AddBlock(kind, iter[s \ {Seqs!Max(s)}], list[Seqs!Max(s)])]
  <2>2. ASSUME NEW s \in SUBSET (1 .. m)
        PROVE  next[s] = iter[s]
    <3>1. s \in SUBSET (1 .. (m + 1))
        OBVIOUS
    <3>. QED
        BY <2>1, <3>1 DEF IsBuild
  <2>3. \A s \in SUBSET (1 .. (m + 1)) : s # {} => iter[s \ {Seqs!Max(s)}] = next[s \ {Seqs!Max(s)}]
      BY <2>2, WithoutMax
  <2>4. next = [s \in SUBSET (1 .. (m + 1)) |->
                  IF s = {} THEN base
                  ELSE AddBlock(kind, next[s \ {Seqs!Max(s)}], list[Seqs!Max(s)])]
      BY <2>3
  <2> HIDE DEF next
  <2>5. IsBuild(kind, base, list, m + 1, next)
      BY <2>4 DEF IsBuild
  <2>. QED
      BY <2>5
<1> HIDE DEF S
<1>3. Nat \subseteq S
    BY <1>1, <1>2, SetInduction
<1>. QED
    BY <1>3 DEF S

\* Followed along 1 .. 0, 1 .. 1, ..., 1 .. n.
LEMMA BuildRounds ==
  ASSUME NEW kind, NEW base, NEW list, NEW n \in Nat, NEW iter, IsBuild(kind, base, list, n, iter)
  PROVE  \E round : IsRounds(kind, base, list, n, round) /\ round[n] = iter[1 .. n]
<1> DEFINE round == [k \in 0 .. n |-> iter[1 .. k]]
<1>1. \A s \in SUBSET (1 .. n) :
        iter[s] = IF s = {} THEN base
                  ELSE AddBlock(kind, iter[s \ {Seqs!Max(s)}], list[Seqs!Max(s)])
    BY DEF IsBuild
<1>2. round[0] = base
  <2>1. 1 .. 0 = {} /\ {} \in SUBSET (1 .. n) /\ 0 \in 0 .. n
      OBVIOUS
  <2>2. iter[{}] = base
      BY <1>1, <2>1
  <2>. QED
      BY <2>1, <2>2
<1>3. ASSUME NEW k \in Nat, k < n
      PROVE  round[k + 1] = AddBlock(kind, round[k], list[k + 1])
  <2> DEFINE s == 1 .. (k + 1)
  <2>1. s \in SUBSET (1 .. n) /\ s # {}
      BY <1>3
  <2>2. Seqs!Max(s) = k + 1 /\ s \ {Seqs!Max(s)} = 1 .. k
      BY MaxOfInterval, Zenon
  <2> HIDE DEF s
  <2>3. iter[s] = AddBlock(kind, iter[s \ {Seqs!Max(s)}], list[Seqs!Max(s)])
      BY <1>1, <2>1
  <2>4. iter[1 .. (k + 1)] = AddBlock(kind, iter[1 .. k], list[k + 1])
      BY <2>2, <2>3 DEF s
  <2>5. k \in 0 .. n /\ k + 1 \in 0 .. n
      BY <1>3
  <2>. QED
      BY <2>4, <2>5
<1>4. round[n] = iter[1 .. n]
    OBVIOUS
<1> HIDE DEF round
<1>. QED
    BY <1>2, <1>3, <1>4 DEF IsRounds

\* The new tables, round by round.
LEMMA CreationRounds ==
  ASSUME NEW base, NEW list, NEW n \in Nat, DOMAIN list = 1 .. n
  PROVE  \E round : IsRounds("create", base, list, n, round) /\ round[n] = Creation(base, list)
<1> DEFINE iter == CHOOSE iter : IsCreation(base, list, n, iter)
<1>1. \A i : IsCreation(base, list, n, i) <=> IsBuild("create", base, list, n, i)
    BY DEF IsCreation, IsBuild, AddBlock, Block
<1>2. \E i : IsCreation(base, list, n, i)
    BY <1>1, BuildExists
<1>3. IsCreation(base, list, n, iter)
    BY <1>2
<1>4. Creation(base, list) = iter[1 .. n]
    BY CreationIsFold
<1> HIDE DEF iter
<1>5. IsBuild("create", base, list, n, iter)
    BY <1>1, <1>3
<1>. QED BY <1>4, <1>5, BuildRounds

\* The diffed tables, round by round.
LEMMA ChangeRounds ==
  ASSUME NEW base, NEW list, NEW n \in Nat, DOMAIN list = 1 .. n
  PROVE  \E round : IsRounds("change", base, list, n, round) /\ round[n] = Change(base, list)
<1> DEFINE iter == CHOOSE iter : IsChange(base, list, n, iter)
<1>1. \A i : IsChange(base, list, n, i) <=> IsBuild("change", base, list, n, i)
    BY DEF IsChange, IsBuild, AddBlock, Block
<1>2. \E i : IsChange(base, list, n, i)
    BY <1>1, BuildExists
<1>3. IsChange(base, list, n, iter)
    BY <1>2
<1>4. Change(base, list) = iter[1 .. n]
    BY ChangeIsFold
<1> HIDE DEF iter
<1>5. IsBuild("change", base, list, n, iter)
    BY <1>1, <1>3
<1>. QED BY <1>4, <1>5, BuildRounds

\* The blocks with which a list has grown, each with the numbers it was given.
Blocks(kind, list, last, n) == UNION {BlockElements(kind, list[j], last[j]) : j \in 1 .. n}

\* A list has grown by the blocks of n tables.
GrownBy(kind, base, list, n, ops) ==
  \E last \in [1 .. n -> Nat] : ElementsOf(ops) = ElementsOf(base) \cup Blocks(kind, list, last, n)

\* The tables are such as blocks are made of.
AllFit(kind, list, n) == \A j \in 1 .. n : Fit(kind, list[j])

\* A proper list stays proper, and nothing else is in it than the blocks.
LEMMA BuildIsProper ==
  ASSUME Given, NEW kind, NEW base, Proper(base), NEW list, NEW n \in Nat,
         AllFit(kind, list, n), NEW round, IsRounds(kind, base, list, n, round)
  PROVE  Proper(round[n]) /\ GrownBy(kind, base, list, n, round[n])
<1> DEFINE last == [j \in 1 .. n |-> LastId(schema, round[j - 1])]
           Good(k) == /\ Proper(round[k])
                      /\ ElementsOf(round[k]) = ElementsOf(base) \cup Blocks(kind, list, last, k)
           T == {k \in Nat : k <= n => Good(k)}
<1>1. Good(0)
  <2>1. Blocks(kind, list, last, 0) = {}
      BY DEF Blocks
  <2>. QED BY <2>1 DEF IsRounds
<1>2. ASSUME NEW k \in Nat, k < n, Good(k)
      PROVE  Good(k + 1) /\ LastId(schema, round[k]) \in Nat
  <2> DEFINE top == LastId(schema, round[k])  x == list[k + 1]
             b == Block(kind, x, top)  E == BlockElements(kind, x, top)
  <2>1. /\ Listed(round[k]) /\ \A o \in ElementsOf(round[k]) : o.id \in Nat
      BY <1>2 DEF Proper, Valid
  <2>2. /\ top \in Nat /\ \A i \in DOMAIN Objects : i <= top
        /\ \A o \in ElementsOf(round[k]) : o.id <= top
      BY <2>1, LastIdIsLast
  <2>3. k + 1 \in 1 .. n /\ (k + 1) - 1 = k
      BY <1>2
  <2>4. last[k + 1] = top
      BY <2>3
  <2>5. round[k + 1] = round[k] \o b
      BY <1>2 DEF AddBlock, IsRounds
  <2> HIDE DEF top
  <2>6. BlockIsGood(b, E, top)
      BY <2>2, <2>3, BlocksAreGood DEF AllFit
  <2>7. Blocks(kind, list, last, k + 1) = Blocks(kind, list, last, k) \cup E
    <3>1. 1 .. (k + 1) = (1 .. k) \cup {k + 1}
        OBVIOUS
    <3> HIDE DEF last
    <3>. QED BY <2>4, <3>1 DEF Blocks
  <2> HIDE DEF b, E, last, x
  <2>8. \A o \in ElementsOf(round[k]), y \in E : Creates(o) /\ Creates(y) => o.id # y.id
    <3> SUFFICES ASSUME NEW o \in ElementsOf(round[k]), NEW y \in E, Creates(y), o.id = y.id
                 PROVE  FALSE
        OBVIOUS
    <3>1. y.id > top /\ o.id <= top /\ o.id \in Nat
        BY <2>1, <2>2, <2>6 DEF BlockIsGood
    <3>. QED BY <2>2, <3>1
  <2>9. Proper(b) /\ ElementsOf(b) = E /\ \A o \in E : o.type # "DropTable"
      BY <2>6, GoodIsProper
  <2>10. Proper(round[k] \o b) /\ ElementsOf(round[k] \o b) = ElementsOf(round[k]) \cup E
      BY <1>2, <2>8, <2>9, ProperConcat
  <2>11. Good(k + 1)
      BY <1>2, <2>5, <2>7, <2>10
  <2>. QED BY <2>2, <2>11 DEF top
<1>3. Nat \subseteq T
  <2> HIDE DEF Good
  <2>1. \A k \in Nat : k + 1 <= n => k < n /\ k <= n
      OBVIOUS
  <2>2. 0 \in T /\ \A k \in Nat : k \in T => k + 1 \in T
      BY <1>1, <1>2, <2>1
  <2> HIDE DEF T
  <2>. QED BY <2>2, SetInduction
<1>4. last \in [1 .. n -> Nat]
  <2> SUFFICES ASSUME NEW j \in 1 .. n
               PROVE  LastId(schema, round[j - 1]) \in Nat
      OBVIOUS
  <2> HIDE DEF Good
  <2>1. j - 1 \in Nat /\ j - 1 < n /\ j - 1 <= n
      OBVIOUS
  <2>2. Good(j - 1)
      BY <1>3, <2>1
  <2>. QED BY <1>2, <2>1, <2>2
<1>5. Good(n)
  <2> HIDE DEF Good
  <2>1. n \in T /\ n <= n
      BY <1>3
  <2>. QED BY <2>1
<1> HIDE DEF last
<1>. QED BY <1>4, <1>5 DEF GrownBy

\* Lists of one element each, one behind the other.
LEMMA FlattenSingles ==
  ASSUME NEW lists, Listed(lists), \A i \in DOMAIN lists : lists[i] = <<lists[i][1]>>
  PROVE  LET all == Seqs!FlattenSeq(lists)
         IN  DOMAIN all = DOMAIN lists /\ \A i \in DOMAIN lists : all[i] = lists[i][1]
<1> DEFINE L == Len(lists)
           flat == CHOOSE flat : IsFlat(lists, L, flat)
           all == Seqs!FlattenSeq(lists)
<1>1. L \in Nat /\ DOMAIN lists = 1 .. L
    BY ListedPlaces
<1>2. all = IF L = 0 THEN lists ELSE flat[L]
    BY DEF Seqs!FlattenSeq, IsFlat
<1>3. IsFlat(lists, L, flat)
    BY <1>1, FlatExists
<1>4. \A o : Listed(<<o>>) /\ Len(<<o>>) = 1 /\ <<o>>[1] = o
  <2>1. \A o : <<o>> \in Seq({o}) /\ Len(<<o>>) = 1 /\ <<o>>[1] = o
      OBVIOUS
  <2>. QED BY <2>1, ListedIff
<1> HIDE DEF flat, L, all
<1>5. CASE L = 0
    BY <1>1, <1>2, <1>5 DEF all
<1>6. CASE L # 0
  <2>1. \A i \in 1 .. L : flat[i] = IF i = 1 THEN lists[i] ELSE flat[i - 1] \o lists[i]
      BY <1>3 DEF IsFlat
  <2> DEFINE Good(k) == /\ Listed(flat[k]) /\ Len(flat[k]) = k
                        /\ \A i \in 1 .. k : flat[k][i] = lists[i][1]
             T == {n \in Nat : n + 1 <= L => Good(n + 1)}
  <2>2. Good(1)
    <3>1. 1 \in 1 .. L
        BY <1>1, <1>6
    <3>2. flat[1] = <<lists[1][1]>>
        BY <1>1, <2>1, <3>1
    <3>. QED BY <1>4, <3>2
  <2>3. ASSUME NEW k \in 1 .. L, k # 1, Good(k - 1)
        PROVE  Good(k)
    <3> DEFINE a == flat[k - 1]  b == <<lists[k][1]>>
    <3>1. flat[k] = a \o b
        BY <1>1, <2>1, <2>3
    <3>2. /\ Listed(a) /\ Len(a) = k - 1 /\ \A i \in 1 .. (k - 1) : a[i] = lists[i][1]
        BY <2>3
    <3>3. Listed(b) /\ Len(b) = 1 /\ b[1] = lists[k][1]
        BY <1>4
    <3> HIDE DEF a, b, Good
    <3>4. Listed(a \o b)
        BY <3>2, <3>3, ListedConcat
    <3>5. /\ Len(a \o b) = Len(a) + Len(b)
          /\ \A i \in 1 .. (Len(a) + Len(b)) : (a \o b)[i] = IF i <= Len(a) THEN a[i] ELSE b[i - Len(a)]
        BY <3>2, <3>3, ConcatPlaces
    <3>6. Len(a \o b) = k
        BY <3>2, <3>3, <3>5
    <3>7. \A i \in 1 .. k : (a \o b)[i] = lists[i][1]
      <4> SUFFICES ASSUME NEW i \in 1 .. k PROVE (a \o b)[i] = lists[i][1]
          OBVIOUS
      <4>1. (a \o b)[i] = IF i <= k - 1 THEN a[i] ELSE b[i - (k - 1)]
          BY <3>2, <3>3, <3>5
      <4>2. CASE i <= k - 1
          BY <3>2, <4>1, <4>2
      <4>3. CASE ~(i <= k - 1)
        <5>1. i = k /\ i - (k - 1) = 1
            BY <4>3
        <5>. QED BY <3>3, <4>1, <4>3, <5>1
      <4>. QED BY <4>2, <4>3
    <3>. QED BY <3>1, <3>4, <3>6, <3>7 DEF Good
  <2> HIDE DEF Good
  <2>4. 0 \in T
      BY <2>2
  <2>5. ASSUME NEW n \in Nat, n \in T
        PROVE  n + 1 \in T
    <3> SUFFICES ASSUME (n + 1) + 1 <= L
                 PROVE  Good((n + 1) + 1)
        OBVIOUS
    <3> DEFINE k == (n + 1) + 1
    <3>1. k \in 1 .. L /\ k # 1 /\ k - 1 = n + 1 /\ n + 1 <= L
        BY <1>1
    <3> HIDE DEF k
    <3>2. Good(k - 1)
        BY <2>5, <3>1
    <3>. QED
        BY <2>3, <3>1, <3>2 DEF k
  <2>6. Nat \subseteq T
    <3> HIDE DEF T
    <3>. QED BY <2>4, <2>5, SetInduction
  <2>7. Good(L)
    <3>1. L - 1 \in Nat /\ (L - 1) + 1 = L
        BY <1>1, <1>6
    <3>2. Good((L - 1) + 1)
        BY <1>1, <2>6, <3>1
    <3>. QED BY <3>1, <3>2
  <2>8. DOMAIN flat[L] = 1 .. L
      BY <2>7, ListedPlaces DEF Good
  <2>. QED BY <1>1, <1>2, <1>6, <2>7, <2>8 DEF Good, all
<1>. QED BY <1>5, <1>6

\* The drops of the missing tables.
DropTable(t) == [type |-> "DropTable", id |-> t]

DropTables == InSomeOrder({<<DropTable(t)>> : t \in UnmatchedTables})

\* Each missing table is dropped once.
LEMMA DropsAreProper ==
  ASSUME Given
  PROVE  Proper(DropTables) /\ ElementsOf(DropTables) = {DropTable(t) : t \in UnmatchedTables}
<1> DEFINE f == [t \in UnmatchedTables |-> <<DropTable(t)>>]
           S == {f[t] : t \in UnmatchedTables}
           lists == Seqs!SetToSeq(S)
<1>1. S = {<<DropTable(t)>> : t \in UnmatchedTables}
    OBVIOUS
<1>2. UnmatchedTables \subseteq Tables(schema) /\ Tables(schema) \subseteq DOMAIN Objects
    BY DEF UnmatchedTables, LastTables, Tables, OfKind, Objects
<1>3. IsFiniteSet(UnmatchedTables)
    BY <1>2, GivenSchema, FS_Subset
<1>4. \A t : Listed(<<DropTable(t)>>) /\ ElementsOf(<<DropTable(t)>>) = {DropTable(t)}
  <2>1. \A o : <<o>> \in Seq({o})
      OBVIOUS
  <2>. QED BY <2>1, ListedIff, SingleElement
<1>5. \A t \in UnmatchedTables : Listed(f[t]) /\ ElementsOf(f[t]) = {DropTable(t)}
    BY <1>4
<1>6. f = [t \in UnmatchedTables |-> f[t]] /\ \A t \in UnmatchedTables : f[t] = <<DropTable(t)>>
    OBVIOUS
<1> HIDE DEF f
<1>7. Listed(DropTables) /\ ElementsOf(DropTables) = {DropTable(t) : t \in UnmatchedTables}
  <2>1. Listed(InSomeOrder(S)) /\ ElementsOf(InSomeOrder(S)) = UNION {ElementsOf(f[t]) : t \in UnmatchedTables}
      BY <1>3, <1>5, ListsElements
  <2>2. UNION {ElementsOf(f[t]) : t \in UnmatchedTables} = {DropTable(t) : t \in UnmatchedTables}
      BY <1>5
  <2>3. DropTables = InSomeOrder(S)
      BY <1>1 DEF DropTables
  <2>. QED BY <2>1, <2>2, <2>3
<1>8. IsFiniteSet(S)
    BY <1>3, ImageFinite
<1>9. /\ Listed(lists) /\ ElementsOf(lists) = S
      /\ \A i, j \in DOMAIN lists : lists[i] = lists[j] => i = j
    BY <1>8, SetToSeqListed
<1>10. DropTables = Seqs!FlattenSeq(lists)
    BY <1>1 DEF DropTables, InSomeOrder
<1> HIDE DEF lists
<1>11. \A i \in DOMAIN lists : lists[i] = <<lists[i][1]>>
  <2>1. \A o : <<o>>[1] = o
      OBVIOUS
  <2>2. \A i \in DOMAIN lists : \E t \in UnmatchedTables : lists[i] = <<DropTable(t)>>
      BY <1>6, <1>9 DEF ElementsOf
  <2>. QED BY <2>1, <2>2
<1>12. DOMAIN DropTables = DOMAIN lists /\ \A i \in DOMAIN lists : DropTables[i] = lists[i][1]
    BY <1>9, <1>10, <1>11, FlattenSingles
<1>13. \A o \in ElementsOf(DropTables) :
         /\ o.type = "DropTable" /\ o.id \in UnmatchedTables /\ o = DropTable(o.id)
    BY <1>7 DEF DropTable
<1>14. ASSUME NEW i \in DOMAIN DropTables, NEW j \in DOMAIN DropTables,
              DropTables[i].id = DropTables[j].id
       PROVE  i = j
  <2>1. DropTables[i] = DropTables[j]
    <3>1. DropTables[i] \in ElementsOf(DropTables) /\ DropTables[j] \in ElementsOf(DropTables)
        BY DEF ElementsOf
    <3>. QED BY <1>13, <1>14, <3>1
  <2>2. lists[i] = lists[j]
      BY <1>11, <1>12, <2>1
  <2>. QED BY <1>9, <1>12, <2>2
<1>15. \A o \in ElementsOf(DropTables) : Valid(o) /\ ~Creates(o)
  <2> SUFFICES ASSUME NEW o \in ElementsOf(DropTables) PROVE Valid(o) /\ ~Creates(o)
      OBVIOUS
  <2>1. o.type = "DropTable" /\ o.id \in DOMAIN Objects /\ Objects[o.id].kind = "table"
      BY <1>2, <1>13 DEF Tables, OfKind, Objects
  <2>2. o.id \in Nat
      BY <2>1, GivenSchema
  <2>. QED BY <2>1, <2>2 DEF Valid, Creates, Drops, Creating, Destructive, Variants
<1>16. Ordered(DropTables)
    BY <1>15 DEF Ordered, ElementsOf
<1>. QED BY <1>7, <1>14, <1>15, <1>16 DEF Proper

\* No operation is proper.
LEMMA EmptyIsProper == Proper(<<>>) /\ ElementsOf(<<>>) = {}
<1>1. DOMAIN <<>> = {}
    OBVIOUS
<1>. QED BY <1>1, EmptyListed DEF Proper, Ordered

\* What generate_operations makes: the blocks of the new tables, the drops of
\* the missing ones, the blocks of the diffed tables.
LEMMA OperationsAre ==
  ASSUME Given, Listed(results), \A i \in DOMAIN results : Diffed(results[i])
  PROVE  \E list, made, changed :
           /\ Listed(list) /\ ElementsOf(list) = UnmatchedRaws
           /\ \A i, j \in DOMAIN list : list[i] = list[j] => i = j
           /\ Proper(Operations)
           /\ ElementsOf(Operations)
                = Blocks("create", list, made, Len(list))
                    \cup {DropTable(t) : t \in UnmatchedTables}
                    \cup Blocks("change", results, changed, Len(results))
           /\ changed \in [1 .. Len(results) -> Nat] /\ made \in [1 .. Len(list) -> Nat]
<1> DEFINE list == Seqs!SetToSeq(UnmatchedRaws)
           created == Creation(<<>>, list)
           n == Len(list)
           m == Len(results)
<1>1. Operations = Change(created \o DropTables, results)
    BY DEF Operations, Change, Creation, DropTables, DropTable
<1>2. UnmatchedRaws \subseteq DOMAIN file
    BY DEF UnmatchedRaws, LastRaws
<1>3. IsFiniteSet(UnmatchedRaws)
  <2>1. IsFiniteSet(DOMAIN file)
      BY GivenFile, ListedPlaces, FS_Interval
  <2>. QED BY <1>2, <2>1, FS_Subset
<1>4. /\ Listed(list) /\ ElementsOf(list) = UnmatchedRaws
      /\ \A i, j \in DOMAIN list : list[i] = list[j] => i = j
    BY <1>3, SetToSeqListed
<1>5. n \in Nat /\ DOMAIN list = 1 .. n /\ m \in Nat /\ DOMAIN results = 1 .. m
    BY <1>4, ListedPlaces
<1>6. Proper(created) /\ GrownBy("create", <<>>, list, n, created)
  <2>1. PICK round : IsRounds("create", <<>>, list, n, round) /\ round[n] = created
      BY <1>5, CreationRounds
  <2> HIDE DEF list, n, m, created
  <2>2. AllFit("create", list, n)
      BY <1>2, <1>4, <1>5 DEF AllFit, Fit, ElementsOf
  <2>3. Proper(round[n]) /\ GrownBy("create", <<>>, list, n, round[n])
      BY <1>5, <2>1, <2>2, EmptyIsProper, BuildIsProper
  <2>. QED BY <2>1, <2>3
<1> HIDE DEF list, n, m, created
<1>7. PICK made \in [1 .. n -> Nat] :
        Proper(created) /\ ElementsOf(created) = Blocks("create", list, made, n)
    BY <1>6, EmptyIsProper DEF GrownBy
<1>8. \A o \in ElementsOf(created) : Creates(o)
  <2> SUFFICES ASSUME NEW o \in ElementsOf(created) PROVE Creates(o)
      OBVIOUS
  <2>1. PICK j \in 1 .. n : o \in BlockElements("create", list[j], made[j])
      BY <1>7 DEF Blocks
  <2>. QED BY <2>1 DEF BlockElements, CreateElements, CreateTable, AddColumn, Creates, Creating
<1>9. /\ Proper(created \o DropTables)
      /\ ElementsOf(created \o DropTables) = ElementsOf(created) \cup {DropTable(t) : t \in UnmatchedTables}
  <2>1. \A o \in ElementsOf(DropTables) : ~Creates(o)
      BY DropsAreProper DEF DropTable, Creates, Creating
  <2>2. \A o \in ElementsOf(created) : o.type # "DropTable"
      BY <1>8 DEF Creates, Creating
  <2>. QED BY <1>7, <2>1, <2>2, DropsAreProper, ProperConcat
<1> DEFINE base == created \o DropTables
<1>10. Proper(Operations) /\ GrownBy("change", base, results, m, Operations)
  <2> HIDE DEF base
  <2>1. PICK round : IsRounds("change", base, results, m, round) /\ round[m] = Change(base, results)
      BY <1>5, ChangeRounds
  <2>2. AllFit("change", results, m)
      BY <1>5 DEF AllFit, Fit
  <2>3. Proper(base)
      BY <1>9 DEF base
  <2>4. Proper(round[m]) /\ GrownBy("change", base, results, m, round[m])
      BY <1>5, <2>1, <2>2, <2>3, BuildIsProper
  <2>. QED BY <1>1, <2>1, <2>4 DEF base
<1>11. PICK changed \in [1 .. m -> Nat] :
         ElementsOf(Operations) = ElementsOf(base) \cup Blocks("change", results, changed, m)
    BY <1>10 DEF GrownBy
<1>. QED BY <1>4, <1>7, <1>9, <1>10, <1>11 DEF n, m

----------------------------------------------------------------------------
(* The operations of a diff go well together.                                *)

\* Every table that both sides have is diffed, once.
AllDiffed ==
  /\ Listed(results) /\ \A i \in DOMAIN results : Diffed(results[i])
  /\ {results[i].raw : i \in DOMAIN results} = LastRaws \ UnmatchedRaws
  /\ \A i, j \in DOMAIN results : results[i].raw = results[j].raw => i = j

\* All that a commit needs.
Ready == Given /\ NamesAreUnique /\ AllDiffed

\* diff.py: with unique names the dictionaries by name hold everything.
LEMMA NamesTell ==
  ASSUME Given, NamesAreUnique
  PROVE  /\ LastRaws = DOMAIN file /\ LastTables = Tables(schema)
         /\ \A q, r \in DOMAIN file : file[q].name = file[r].name => q = r
         /\ \A t, u \in Tables(schema) : Objects[t].name = Objects[u].name => t = u
         /\ \A r \in DOMAIN file : \A d, e \in News(r) :
              file[r].columns[d].name = file[r].columns[e].name => d = e
         /\ \A t : \A c, e \in Olds(t) : Old(c).name = Old(e).name => c = e
<1>1. \A q, r \in DOMAIN file : file[q].name = file[r].name => q = r
    BY DEF NamesAreUnique
<1>2. DOMAIN file \subseteq Nat
    BY GivenFile, ListedPlaces
<1>3. LastRaws = DOMAIN file
  <2>1. \A r \in DOMAIN file : r <= r
      BY <1>2
  <2>. QED BY <1>1, <2>1 DEF LastRaws
<1>4. \A t \in Tables(schema) : t \in DOMAIN Objects /\ Objects[t].table = NoId
    BY GivenSchema DEF Tables, OfKind, Objects
<1>5. \A t, u \in Tables(schema) : Objects[t].name = Objects[u].name => t = u
    BY <1>4 DEF NamesAreUnique, Objects
<1>6. LastTables = Tables(schema)
  <2>1. \A t \in Tables(schema) : t <= t
      BY <1>4, GivenSchema
  <2>. QED BY <1>5, <2>1 DEF LastTables, Objects
<1>7. \A r \in DOMAIN file : \A d, e \in News(r) :
        file[r].columns[d].name = file[r].columns[e].name => d = e
    BY DEF NamesAreUnique, News
<1>8. \A t : \A c, e \in Olds(t) : Old(c).name = Old(e).name => c = e
  <2>1. \A t : \A c \in Olds(t) : c \in DOMAIN schema.objects /\ schema.objects[c].table = t
      BY DEF Olds, ColumnsOf, Inside
  <2>. QED BY <2>1 DEF NamesAreUnique, Old
<1>. QED BY <1>1, <1>3, <1>5, <1>6, <1>7, <1>8

\* Each table is dropped, diffed, or made.
LEMMA EachTableOnce ==
  ASSUME Ready
  PROVE  /\ \A i \in DOMAIN results : /\ results[i].table \in Tables(schema) \ UnmatchedTables
                                      /\ results[i].raw \in DOMAIN file \ UnmatchedRaws
         /\ \A i, j \in DOMAIN results : results[i].table = results[j].table => i = j
         /\ \A t \in Tables(schema) \ UnmatchedTables : \E i \in DOMAIN results : results[i].table = t
         /\ \A r \in DOMAIN file \ UnmatchedRaws : \E i \in DOMAIN results : results[i].raw = r
<1>1. \A i \in DOMAIN results : /\ results[i].table \in Tables(schema) /\ results[i].raw \in DOMAIN file
                                /\ Matches(results[i].table, results[i].raw)
    BY DEF Ready, AllDiffed, Diffed
<1>2. LastRaws = DOMAIN file /\ LastTables = Tables(schema)
    BY NamesTell DEF Ready
<1>3. \A i \in DOMAIN results : /\ results[i].table \notin UnmatchedTables
                                /\ results[i].raw \notin UnmatchedRaws
    BY <1>1, <1>2 DEF UnmatchedTables, UnmatchedRaws
<1>4. ASSUME NEW i \in DOMAIN results, NEW j \in DOMAIN results, results[i].table = results[j].table
      PROVE  i = j
  <2>1. file[results[i].raw].name = file[results[j].raw].name
      BY <1>1, <1>4 DEF Matches
  <2>2. results[i].raw = results[j].raw
      BY <1>1, <2>1, NamesTell DEF Ready
  <2>. QED BY <2>2 DEF Ready, AllDiffed
<1>5. \A r \in DOMAIN file \ UnmatchedRaws : \E i \in DOMAIN results : results[i].raw = r
  <2> SUFFICES ASSUME NEW r \in DOMAIN file \ UnmatchedRaws
               PROVE  \E i \in DOMAIN results : results[i].raw = r
      OBVIOUS
  <2>1. r \in {results[i].raw : i \in DOMAIN results}
      BY <1>2 DEF Ready, AllDiffed
  <2>. QED BY <2>1
<1>6. \A t \in Tables(schema) \ UnmatchedTables : \E i \in DOMAIN results : results[i].table = t
  <2> SUFFICES ASSUME NEW t \in Tables(schema) \ UnmatchedTables
               PROVE  \E i \in DOMAIN results : results[i].table = t
      OBVIOUS
  <2>1. PICK r \in DOMAIN file : Matches(t, r)
      BY <1>2 DEF UnmatchedTables
  <2>2. r \notin UnmatchedRaws
      BY <1>2, <2>1 DEF UnmatchedRaws
  <2>3. PICK i \in DOMAIN results : results[i].raw = r
      BY <1>5, <2>2
  <2>4. Objects[results[i].table].name = Objects[t].name
      BY <1>1, <2>1, <2>3 DEF Matches, Objects
  <2>5. results[i].table = t
      BY <1>1, <2>4, NamesTell DEF Ready
  <2>. QED BY <2>5
<1>. QED BY <1>1, <1>3, <1>4, <1>5, <1>6

\* What OperationsAre says.
Planned(list, made, changed) ==
  /\ Listed(list) /\ ElementsOf(list) = UnmatchedRaws
  /\ \A i, j \in DOMAIN list : list[i] = list[j] => i = j
  /\ Proper(Operations)
  /\ ElementsOf(Operations)
       = Blocks("create", list, made, Len(list))
           \cup {DropTable(t) : t \in UnmatchedTables}
           \cup Blocks("change", results, changed, Len(results))
  /\ changed \in [1 .. Len(results) -> Nat] /\ made \in [1 .. Len(list) -> Nat]

\* What a commit needs makes such a plan.
LEMMA OperationsPlanned ==
  ASSUME Ready
  PROVE  \E list, made, changed : Planned(list, made, changed)
BY OperationsAre, Zenon DEF Ready, AllDiffed, Planned

\* The operations one by one.
Making(list, made, o) == \E j \in DOMAIN list : o \in CreateElements(list[j], made[j])

Extending(changed, o) ==
  \E i \in DOMAIN results : \E d \in results[i].added :
    o = AddColumn(results[i].table, results[i].raw, changed[i] + d, d)

Retouching(i, p, o) ==
  /\ p \in results[i].retyped \cup results[i].renamed
  /\ o \in Becomes(results[i], p)
  /\ p \in results[i].retyped => o \in Retypes(p[1], Raw(results[i].raw, p[2]))

Leaving(o) ==
  \/ \E t \in UnmatchedTables : o = DropTable(t)
  \/ \E i \in DOMAIN results : \E c \in results[i].dropped : o = DropColumn(c)

\* Each operation of a plan makes something, drops something or sets a column.
LEMMA EachOperation ==
  ASSUME Ready, NEW list, NEW made, NEW changed, Planned(list, made, changed),
         NEW o \in ElementsOf(Operations)
  PROVE  \/ Creates(o) /\ (Making(list, made, o) \/ Extending(changed, o))
         \/ Drops(o) /\ Leaving(o)
         \/ /\ ~Creates(o) /\ ~Drops(o)
            /\ \E i \in DOMAIN results : \E p : Retouching(i, p, o)
<1>1. /\ Len(list) \in Nat /\ DOMAIN list = 1 .. Len(list)
      /\ Len(results) \in Nat /\ DOMAIN results = 1 .. Len(results)
    BY ListedPlaces DEF Planned, Ready, AllDiffed
<1>2. CASE o \in Blocks("create", list, made, Len(list))
  <2>1. PICK j \in DOMAIN list : o \in CreateElements(list[j], made[j])
      BY <1>1, <1>2 DEF Blocks, BlockElements
  <2>2. Creates(o)
      BY <2>1 DEF CreateElements, CreateTable, AddColumn, Creates, Creating
  <2>. QED BY <2>1, <2>2 DEF Making
<1>3. CASE o \in {DropTable(t) : t \in UnmatchedTables}
  <2>1. Drops(o)
      BY <1>3 DEF DropTable, Drops, Destructive
  <2>. QED BY <1>3, <2>1 DEF Leaving
<1>4. CASE o \in Blocks("change", results, changed, Len(results))
  <2>1. PICK i \in DOMAIN results : o \in TableElements(results[i], changed[i])
      BY <1>1, <1>4 DEF Blocks, BlockElements
  <2>2. CASE o \in Retyping(results[i])
    <3>1. PICK p \in results[i].retyped : o \in Retypes(p[1], Raw(results[i].raw, p[2]))
        BY <2>2 DEF Retyping
    <3>2. ~Creates(o) /\ ~Drops(o)
        BY <3>1, RetypesAre DEF Creates, Drops, Creating, Destructive
    <3>3. Retouching(i, p, o)
        BY <3>1 DEF Retouching, Becomes
    <3>. QED BY <3>2, <3>3
  <2>3. CASE o \in Renaming(results[i])
    <3>1. PICK p \in results[i].renamed : o \in Becomes(results[i], p)
        BY <2>3 DEF Renaming
    <3>2. ~Creates(o) /\ ~Drops(o)
      <4>1. CASE o \in Retypes(p[1], Raw(results[i].raw, p[2]))
          BY <4>1, RetypesAre DEF Creates, Drops, Creating, Destructive
      <4>2. CASE o = SetName(p[1], Raw(results[i].raw, p[2]))
          BY <4>2 DEF SetName, Creates, Drops, Creating, Destructive
      <4>. QED BY <3>1, <4>1, <4>2 DEF Becomes
    <3>3. p \notin results[i].retyped
      <4>1. Diffed(results[i])
          BY DEF Ready, AllDiffed
      <4>. QED BY <4>1 DEF Diffed, Vanished
    <3>4. Retouching(i, p, o)
        BY <3>1, <3>3 DEF Retouching
    <3>. QED BY <3>2, <3>4
  <2>4. CASE o \in Dropping(results[i])
    <3>1. Drops(o)
        BY <2>4 DEF Dropping, DropColumn, Drops, Destructive
    <3>. QED BY <2>4, <3>1 DEF Dropping, Leaving
  <2>5. CASE o \in Adding(results[i], changed[i])
    <3>1. Creates(o)
        BY <2>5 DEF Adding, AddColumn, Creates, Creating
    <3>. QED BY <2>5, <3>1 DEF Adding, Extending
  <2>. QED BY <2>1, <2>2, <2>3, <2>4, <2>5 DEF TableElements
<1>. QED BY <1>2, <1>3, <1>4 DEF Planned

\* Where columns and tables of a diff are.
LEMMA WhereDiffed ==
  ASSUME Ready, NEW i \in DOMAIN results
  PROVE  /\ results[i].table \in DOMAIN Objects /\ Objects[results[i].table].kind = "table"
         /\ results[i].raw \in DOMAIN file
         /\ \A c \in Olds(results[i].table) :
              /\ c \in DOMAIN Objects /\ Objects[c].kind = "column"
              /\ Objects[c].table = results[i].table
         /\ \A p \in results[i].retyped \cup results[i].renamed :
              /\ p[1] \in Olds(results[i].table) /\ p[2] \in News(results[i].raw)
              /\ p = <<p[1], p[2]>> /\ p[1] \notin results[i].dropped
         /\ results[i].dropped \subseteq Olds(results[i].table)
         /\ results[i].added \subseteq News(results[i].raw)
<1> DEFINE x == results[i]
<1>1. Diffed(x)
    BY DEF Ready, AllDiffed
<1> HIDE DEF x
<1>2. x.table \in DOMAIN Objects /\ Objects[x.table].kind = "table" /\ x.raw \in DOMAIN file
    BY <1>1 DEF Diffed, Tables, OfKind, Objects
<1>3. \A c \in Olds(x.table) : /\ c \in DOMAIN Objects /\ Objects[c].kind = "column"
                               /\ Objects[c].table = x.table
    BY DEF Olds, ColumnsOf, OfKind, Inside, Objects
<1>4. \A p \in x.retyped : /\ p[1] \in Olds(x.table) /\ p[2] \in News(x.raw) /\ p = <<p[1], p[2]>>
                           /\ p[1] \notin x.dropped
    BY <1>1 DEF Diffed, Vanished
<1>5. \A p \in x.renamed : /\ p[1] \in Olds(x.table) /\ p[2] \in News(x.raw) /\ p = <<p[1], p[2]>>
                           /\ p[1] \notin x.dropped
    BY <1>1 DEF Diffed, Vanished, Appeared
<1>6. x.dropped \subseteq Olds(x.table) /\ x.added \subseteq News(x.raw)
    BY <1>1 DEF Diffed, Vanished, Appeared
<1>. QED BY <1>2, <1>3, <1>4, <1>5, <1>6 DEF x

\* A column is retyped or renamed to one column of the file.
LEMMA RetouchedOnce ==
  ASSUME Ready, NEW i \in DOMAIN results, NEW k \in DOMAIN results,
         NEW p \in results[i].retyped \cup results[i].renamed,
         NEW q \in results[k].retyped \cup results[k].renamed, p[1] = q[1]
  PROVE  i = k /\ p = q
<1>1. i = k
  <2>1. p[1] \in Olds(results[i].table) /\ q[1] \in Olds(results[k].table)
      BY WhereDiffed
  <2>2. Objects[p[1]].table = results[i].table /\ Objects[q[1]].table = results[k].table
      BY <2>1, WhereDiffed
  <2>3. results[i].table = results[k].table
      BY <2>2
  <2>. QED BY <2>3, EachTableOnce
<1> DEFINE x == results[i]
<1>2. Diffed(x)
    BY DEF Ready, AllDiffed
<1>3. p \in x.retyped \cup x.renamed /\ q \in x.retyped \cup x.renamed
    BY <1>1
<1>4. p = <<p[1], p[2]>> /\ q = <<q[1], q[2]>> /\ x.raw \in DOMAIN file
      /\ p[2] \in News(x.raw) /\ q[2] \in News(x.raw)
    BY <1>1, WhereDiffed
<1> HIDE DEF x
<1>5. CASE p \in x.retyped /\ q \in x.retyped
  <2>1. file[x.raw].columns[p[2]].name = file[x.raw].columns[q[2]].name
      BY <1>2, <1>5 DEF Diffed, Named
  <2>2. p[2] = q[2]
      BY <1>4, <2>1, NamesTell DEF Ready
  <2>. QED BY <1>1, <1>4, <2>2
<1>6. CASE p \in x.renamed /\ q \in x.renamed
  <2>1. p[2] = q[2]
      BY <1>2, <1>6 DEF Diffed
  <2>. QED BY <1>1, <1>4, <2>1
<1>7. \A a \in x.retyped, b \in x.renamed : a[1] # b[1]
  <2>1. \A a \in x.retyped : a[2] \in News(x.raw) /\ Named(a[1], x.raw, a[2])
      BY <1>2 DEF Diffed
  <2>2. \A b \in x.renamed : \A d \in News(x.raw) : ~Named(b[1], x.raw, d)
      BY <1>2 DEF Diffed, Vanished
  <2>. QED BY <2>1, <2>2
<1>. QED BY <1>3, <1>5, <1>6, <1>7

\* What sets a field of a column sets it to what the file says.
LEMMA BecomesAre ==
  ASSUME NEW x, NEW p, NEW o \in Becomes(x, p)
  PROVE  /\ o.id = p[1] /\ o.type \in DOMAIN SetField
         /\ o.type \in DOMAIN MutationField
         /\ SetField[o.type] \in {"name", "type", "nullable", "default"}
         /\ SetField[o.type] = "name" => o = SetName(p[1], Raw(x.raw, p[2]))
         /\ SetField[o.type] = "type" => o = SetType(p[1], Raw(x.raw, p[2]))
         /\ SetField[o.type] = "nullable" => o = SetNullable(p[1], Raw(x.raw, p[2]))
         /\ SetField[o.type] = "default" => o = SetDefault(p[1], Raw(x.raw, p[2]))
<1> DEFINE d == Raw(x.raw, p[2])
<1>1. o \in {SetName(p[1], d), SetType(p[1], d), SetNullable(p[1], d), SetDefault(p[1], d)}
    BY DEF Becomes, Retypes
<1> HIDE DEF d
<1>2. /\ SetField["RenameColumn"] = "name" /\ SetField["AlterColumnType"] = "type"
      /\ SetField["AlterColumnNullability"] = "nullable" /\ SetField["AlterColumnDefault"] = "default"
      /\ {"RenameColumn", "AlterColumnType", "AlterColumnNullability", "AlterColumnDefault"}
            \subseteq DOMAIN SetField
      /\ {"RenameColumn", "AlterColumnType", "AlterColumnNullability", "AlterColumnDefault"}
            \subseteq DOMAIN MutationField
    BY DEF SetField, MutationField
<1>3. /\ SetName(p[1], d).type = "RenameColumn" /\ SetName(p[1], d).id = p[1]
      /\ SetType(p[1], d).type = "AlterColumnType" /\ SetType(p[1], d).id = p[1]
      /\ SetNullable(p[1], d).type = "AlterColumnNullability" /\ SetNullable(p[1], d).id = p[1]
      /\ SetDefault(p[1], d).type = "AlterColumnDefault" /\ SetDefault(p[1], d).id = p[1]
    BY DEF SetName, SetType, SetNullable, SetDefault
<1>4. CASE o = SetName(p[1], d)
    BY <1>2, <1>3, <1>4 DEF d
<1>5. CASE o = SetType(p[1], d)
    BY <1>2, <1>3, <1>5 DEF d
<1>6. CASE o = SetNullable(p[1], d)
    BY <1>2, <1>3, <1>6 DEF d
<1>7. CASE o = SetDefault(p[1], d)
    BY <1>2, <1>3, <1>7 DEF d
<1>. QED BY <1>1, <1>4, <1>5, <1>6, <1>7

\* What is dropped is a missing table or a column of a table that stays.
LEMMA WhatIsDropped ==
  ASSUME Ready, NEW list, NEW made, NEW changed, Planned(list, made, changed)
  PROVE  /\ \A o \in ElementsOf(Operations) : Drops(o) =>
              \/ o.id \in UnmatchedTables
              \/ \E i \in DOMAIN results : o.id \in results[i].dropped
         /\ \A t \in UnmatchedTables : \E o \in ElementsOf(Operations) : Drops(o) /\ o.id = t
         /\ \A i \in DOMAIN results : \A c \in results[i].dropped :
              \E o \in ElementsOf(Operations) : Drops(o) /\ o.id = c
<1>1. \A t : DropTable(t).id = t /\ Drops(DropTable(t)) /\ ~Creates(DropTable(t))
    BY DEF DropTable, Drops, Destructive, Creates, Creating
<1>2. \A c : DropColumn(c).id = c /\ Drops(DropColumn(c))
    BY DEF DropColumn, Drops, Destructive
<1>3. ASSUME NEW o \in ElementsOf(Operations), Drops(o)
      PROVE  \/ o.id \in UnmatchedTables
             \/ \E i \in DOMAIN results : o.id \in results[i].dropped
  <2>1. ~Creates(o)
      BY <1>3 DEF Drops, Creates, Destructive, Creating
  <2>2. Leaving(o)
      BY <1>3, <2>1, EachOperation
  <2>. QED BY <1>1, <1>2, <2>2 DEF Leaving
<1>4. \A t \in UnmatchedTables : DropTable(t) \in ElementsOf(Operations)
    BY DEF Planned
<1>5. \A i \in DOMAIN results : \A c \in results[i].dropped : DropColumn(c) \in ElementsOf(Operations)
  <2> SUFFICES ASSUME NEW i \in DOMAIN results, NEW c \in results[i].dropped
               PROVE  DropColumn(c) \in ElementsOf(Operations)
      OBVIOUS
  <2>1. i \in 1 .. Len(results)
      BY ListedPlaces DEF Ready, AllDiffed
  <2>2. DropColumn(c) \in TableElements(results[i], changed[i])
      BY DEF TableElements, Dropping
  <2>3. DropColumn(c) \in Blocks("change", results, changed, Len(results))
      BY <2>1, <2>2 DEF Blocks, BlockElements
  <2>. QED BY <2>3 DEF Planned
<1>. QED BY <1>1, <1>2, <1>3, <1>4, <1>5

\* What is in the operations: each block, by its members.
LEMMA InOperations ==
  ASSUME Ready, NEW list, NEW made, NEW changed, Planned(list, made, changed)
  PROVE  /\ \A j \in DOMAIN list : CreateElements(list[j], made[j]) \subseteq ElementsOf(Operations)
         /\ \A i \in DOMAIN results :
              TableElements(results[i], changed[i]) \subseteq ElementsOf(Operations)
<1>1. DOMAIN list = 1 .. Len(list) /\ DOMAIN results = 1 .. Len(results)
    BY ListedPlaces DEF Planned, Ready, AllDiffed
<1>2. \A j \in DOMAIN list :
        CreateElements(list[j], made[j]) \subseteq Blocks("create", list, made, Len(list))
    BY <1>1 DEF Blocks, BlockElements
<1>3. \A i \in DOMAIN results :
        TableElements(results[i], changed[i]) \subseteq Blocks("change", results, changed, Len(results))
    BY <1>1 DEF Blocks, BlockElements
<1>. QED BY <1>2, <1>3 DEF Planned

\* What is made goes nowhere, into a table that is made too, or into one that stays.
LEMMA WhereMade ==
  ASSUME Ready, NEW list, NEW made, NEW changed, Planned(list, made, changed),
         NEW o \in ElementsOf(Operations), Creates(o)
  PROVE  \/ o.object.table = NoId
         \/ \E x \in ElementsOf(Operations) : Creates(x) /\ x.id = o.object.table
         \/ \E i \in DOMAIN results : o.object.table = results[i].table
<1>1. ~Drops(o) /\ (Making(list, made, o) \/ Extending(changed, o))
    BY EachOperation DEF Creates, Drops, Creating, Destructive
<1>2. CASE Making(list, made, o)
  <2>1. PICK j \in DOMAIN list : o \in CreateElements(list[j], made[j])
      BY <1>2 DEF Making
  <2> DEFINE x == CreateTable(made[j] + 1, list[j])
  <2>2. x \in CreateElements(list[j], made[j]) /\ Creates(x) /\ x.id = made[j] + 1
        /\ x.object.table = NoId
      BY DEF CreateElements, CreateTable, Creates, Creating, Object
  <2>3. x \in ElementsOf(Operations)
      BY <2>2, InOperations
  <2>4. o = x \/ o.object.table = made[j] + 1
      BY <2>1, NewColumnIsFunction DEF CreateElements, AddColumn
  <2> HIDE DEF x
  <2>. QED BY <2>2, <2>3, <2>4
<1>3. CASE Extending(changed, o)
    BY <1>3, NewColumnIsFunction DEF Extending, AddColumn
<1>. QED BY <1>1, <1>2, <1>3

\* What a proper list of operations is.
LEMMA ValidOperations ==
  ASSUME Ready, NEW list, NEW made, NEW changed, Planned(list, made, changed)
  PROVE  /\ \A o \in ElementsOf(Operations) : Valid(o)
         /\ \A o, x \in ElementsOf(Operations) : Creates(o) /\ Creates(x) /\ o.id = x.id => o = x
         /\ Listed(Operations) /\ Ordered(Operations)
         /\ \A i, j \in DOMAIN Operations :
              Operations[i].type = "DropTable" /\ Operations[j].type = "DropTable"
                /\ Operations[i].id = Operations[j].id => i = j
BY DEF Planned, Proper

\* What is dropped is tracked, and nothing that is dropped is in it.
LEMMA DropsApart ==
  ASSUME Ready, NEW list, NEW made, NEW changed, Planned(list, made, changed),
         NEW x \in ElementsOf(Operations), Drops(x)
  PROVE  /\ x.id \in DOMAIN Objects
         /\ \A i \in DOMAIN results : x.id # results[i].table
         /\ \A o \in ElementsOf(Operations) : Drops(o) => x.id # Objects[o.id].table
<1>1. \A o \in ElementsOf(Operations) : Drops(o) => o.id \in DOMAIN Objects
  <2>1. \A o : Drops(o) => ~Creates(o)
      BY DEF Drops, Creates, Destructive, Creating
  <2>. QED BY <2>1, ValidOperations DEF Valid
<1>2. \A o \in ElementsOf(Operations) : Drops(o) =>
        \/ o.id \in UnmatchedTables
        \/ \E i \in DOMAIN results : o.id \in results[i].dropped
    BY WhatIsDropped
<1>3. \A t \in UnmatchedTables : /\ t \in DOMAIN Objects /\ Objects[t].kind = "table"
                                 /\ Objects[t].table = NoId
    BY GivenSchema DEF Ready, UnmatchedTables, LastTables, Tables, OfKind, Objects
<1>4. \A i \in DOMAIN results :
        /\ Objects[results[i].table].kind = "table" /\ results[i].table \notin UnmatchedTables
        /\ \A c \in results[i].dropped : /\ Objects[c].kind = "column"
                                         /\ Objects[c].table = results[i].table
    BY WhereDiffed, EachTableOnce
<1>5. NoId \notin DOMAIN Objects
    BY GivenSchema DEF Ready
<1>6. \A i \in DOMAIN results : x.id # results[i].table
    BY <1>2, <1>4
<1>7. ASSUME NEW o \in ElementsOf(Operations), Drops(o) PROVE x.id # Objects[o.id].table
  <2>1. CASE o.id \in UnmatchedTables
      BY <1>1, <1>3, <1>5, <2>1
  <2>2. ASSUME NEW i \in DOMAIN results, o.id \in results[i].dropped PROVE x.id # Objects[o.id].table
      BY <1>4, <1>6, <2>2
  <2>. QED BY <1>2, <1>7, <2>1, <2>2
<1>. QED BY <1>1, <1>6, <1>7

\* No operation of a diff makes, drops or sets what another one does.
LEMMA OperationsSeparate ==
  ASSUME Ready, NEW list, NEW made, NEW changed, Planned(list, made, changed)
  PROVE  Separate(Objects, ElementsOf(Operations))
<1> DEFINE ops == ElementsOf(Operations)
<1>1. \A i \in DOMAIN Objects : "table" \in DOMAIN Objects[i]
    BY GivenSchema DEF Ready
<1>2. \A o \in ops : o.type \in Variants /\ (~Creates(o) => o.id \in DOMAIN Objects)
                       /\ (Creates(o) => o.id \notin DOMAIN Objects /\ IsFunction(o.object))
    BY ValidOperations DEF Valid
<1>3. \A o, x \in ops : Creates(o) /\ Creates(x) /\ o.id = x.id => o = x
    BY ValidOperations
<1>4. \A o, x \in ops : Drops(o) /\ Drops(x) => x.id # Objects[o.id].table
    BY DropsApart
<1>5. ASSUME NEW o \in ops, Creates(o)
      PROVE  /\ o.object.table \notin Gone(Objects, ops)
             /\ \A x \in ops : Drops(x) => x.id # o.object.table
  <2>1. \A x \in ops : Drops(x) => x.id \in DOMAIN Objects /\ \A i \in DOMAIN results : x.id # results[i].table
      BY DropsApart
  <2>2. CASE o.object.table = NoId
    <3>1. NoId \notin DOMAIN Objects
        BY GivenSchema DEF Ready
    <3>. QED BY <2>1, <2>2, <3>1 DEF Gone
  <2>3. ASSUME NEW x \in ops, Creates(x), x.id = o.object.table
        PROVE  /\ o.object.table \notin Gone(Objects, ops)
               /\ \A y \in ops : Drops(y) => y.id # o.object.table
      BY <1>2, <2>1, <2>3 DEF Gone
  <2>4. ASSUME NEW i \in DOMAIN results, o.object.table = results[i].table
        PROVE  /\ o.object.table \notin Gone(Objects, ops)
               /\ \A y \in ops : Drops(y) => y.id # o.object.table
    <3>1. Objects[results[i].table].table = NoId /\ NoId \notin DOMAIN Objects
        BY WhereDiffed, GivenSchema DEF Ready
    <3>. QED BY <2>1, <2>4, <3>1 DEF Gone
  <2>. QED BY <1>5, <2>2, <2>3, <2>4, WhereMade
<1>6. ASSUME NEW o \in ops, NEW x \in ops, NEW f, Sets(o, x.id, f), Sets(x, x.id, f)
      PROVE  o.value = x.value
  <2>1. \A y : Sets(y, x.id, f) => ~Creates(y) /\ ~Drops(y) /\ y.id = x.id /\ SetField[y.type] = f
      BY DEF Sets, Creates, Drops, Creating, Destructive, SetField, MutationField
  <2> DEFINE Touches(i, y) == \E p : Retouching(i, p, y)
  <2>2. \A y \in {o, x} : \E i \in DOMAIN results : Touches(i, y)
      BY <1>6, <2>1, EachOperation
  <2>3. PICK i \in DOMAIN results : Touches(i, o)
      BY <2>2
  <2>4. PICK k \in DOMAIN results : Touches(k, x)
      BY <2>2
  <2>5. PICK p : Retouching(i, p, o)
      BY <2>3
  <2>6. PICK q : Retouching(k, q, x)
      BY <2>4
  <2>7. o \in Becomes(results[i], p) /\ p \in results[i].retyped \cup results[i].renamed
      BY <2>5 DEF Retouching
  <2>8. x \in Becomes(results[k], q) /\ q \in results[k].retyped \cup results[k].renamed
      BY <2>6 DEF Retouching
  <2>9. o.id = p[1] /\ x.id = q[1] /\ o.id = x.id
      BY <1>6, <2>1, <2>7, <2>8, BecomesAre
  <2>10. i = k /\ p = q
    <3>1. p[1] = q[1]
        BY <2>9
    <3>2. p \in results[i].retyped \cup results[i].renamed
        BY <2>7
    <3>3. q \in results[k].retyped \cup results[k].renamed
        BY <2>8
    <3> HIDE DEF ops
    <3>. QED BY <3>1, <3>2, <3>3, RetouchedOnce
  <2>11. SetField[o.type] = f /\ SetField[x.type] = f
      BY <1>6, <2>1
  <2>12. x \in Becomes(results[i], p)
      BY <2>8, <2>10
  <2>13. o = x
    <3>1. f \in {"name", "type", "nullable", "default"}
        BY <2>7, <2>11, BecomesAre
    <3>2. CASE f = "name"
        BY <2>7, <2>11, <2>12, <3>2, BecomesAre
    <3>3. CASE f = "type"
        BY <2>7, <2>11, <2>12, <3>3, BecomesAre
    <3>4. CASE f = "nullable"
        BY <2>7, <2>11, <2>12, <3>4, BecomesAre
    <3>5. CASE f = "default"
        BY <2>7, <2>11, <2>12, <3>5, BecomesAre
    <3>. QED BY <3>1, <3>2, <3>3, <3>4, <3>5
  <2>. QED BY <2>13
<1> HIDE DEF ops
<1>7. Separate(Objects, ops)
    BY <1>1, <1>2, <1>3, <1>4, <1>5, <1>6 DEF Separate
<1>. QED BY <1>7 DEF ops

\* Columns come behind their new tables, and each table is dropped once.
LEMMA OperationsInOrder ==
  ASSUME Ready, NEW list, NEW made, NEW changed, Planned(list, made, changed)
  PROVE  InOrder(Objects, Operations)
<1> DEFINE ops == Operations
<1>1. Ordered(ops)
    BY ValidOperations
<1>2. ASSUME NEW i \in DOMAIN ops, NEW j \in DOMAIN ops,
             ops[i].type = "DropTable", Drops(ops[j]), i # j
      PROVE  ops[j].id # ops[i].id
  <2>1. Valid(ops[i]) /\ Valid(ops[j]) /\ Drops(ops[i])
      BY <1>2, ValidOperations DEF ElementsOf, Drops, Destructive
  <2>2. CASE ops[j].type = "DropTable"
      BY <1>2, <2>2, ValidOperations
  <2>3. CASE ops[j].type # "DropTable"
      BY <1>2, <2>1, <2>3 DEF Valid
  <2>. QED BY <2>2, <2>3
<1> HIDE DEF ops
<1>3. InOrder(Objects, ops)
    BY <1>1, <1>2 DEF InOrder, Ordered
<1>. QED BY <1>3 DEF ops

\* Replay of the operations never raises and makes what they say.
LEMMA OperationsMake ==
  ASSUME Ready, NEW list, NEW made, NEW changed, Planned(list, made, changed)
  PROVE  \E now : /\ Seqs!FoldLeft(Apply, schema, Operations) = Fine(now)
                  /\ Made(Objects, ElementsOf(Operations), now)
<1>1. Listed(Operations)
    BY ValidOperations
<1>2. Separate(Objects, ElementsOf(Operations)) /\ InOrder(Objects, Operations)
    BY OperationsSeparate, OperationsInOrder
<1>3. AreObjects(Objects) /\ schema = Fine(Objects)
    BY GivenSchema DEF Ready
<1> DEFINE ops == Operations
<1> HIDE DEF ops
<1>4. PICK now : /\ Seqs!FoldLeft(Apply, Fine(Objects), ops) = Fine(now)
                 /\ Made(Objects, ElementsOf(ops), now)
    BY <1>1, <1>2, <1>3, ListMakes DEF ops
<1>5. Seqs!FoldLeft(Apply, Fine(Objects), ops) = Seqs!FoldLeft(Apply, schema, ops)
    BY <1>3
<1>. QED BY <1>4, <1>5 DEF ops

----------------------------------------------------------------------------
(* The schema after replay of the operations.                                *)

\* What replay of a planned list makes.
Outcome(list, made, changed, now) ==
  Ready /\ Planned(list, made, changed) /\ Made(Objects, ElementsOf(Operations), now)

\* What was tracked and is gone.
Lost == Gone(Objects, ElementsOf(Operations))

\* What was there and is kept: its kind and its place never change.
LEMMA KeptAsTheyWere ==
  ASSUME NEW list, NEW made, NEW changed, NEW now, Outcome(list, made, changed, now),
         NEW y \in DOMAIN Objects \ Lost
  PROVE  y \in DOMAIN now /\ now[y].kind = Objects[y].kind /\ now[y].table = Objects[y].table
<1>1. \A o : ~Sets(o, y, "kind") /\ ~Sets(o, y, "table")
    BY DEF Sets, SetField, MutationField
<1>2. {"kind", "table"} \subseteq DOMAIN Objects[y]
    BY GivenSchema DEF Outcome, Ready
<1>. QED BY <1>1, <1>2 DEF Outcome, Made, Lost

\* What is lost.
LEMMA WhatIsLost ==
  ASSUME NEW list, NEW made, NEW changed, NEW now, Outcome(list, made, changed, now)
  PROVE  /\ \A t \in Tables(schema) : t \in Lost <=> t \in UnmatchedTables
         /\ \A i \in DOMAIN results : \A c \in Olds(results[i].table) :
              c \in Lost <=> c \in results[i].dropped
         /\ \A c \in OfKind(schema, "column") :
              Objects[c].table \in UnmatchedTables => c \in Lost
<1> DEFINE ops == ElementsOf(Operations)
<1>1. \A o \in ops : Drops(o) =>
        \/ o.id \in UnmatchedTables
        \/ \E i \in DOMAIN results : o.id \in results[i].dropped
    BY WhatIsDropped DEF Outcome
<1>2. \A t \in UnmatchedTables : \E o \in ops : Drops(o) /\ o.id = t
    BY WhatIsDropped DEF Outcome
<1>3. \A i \in DOMAIN results : \A c \in results[i].dropped : \E o \in ops : Drops(o) /\ o.id = c
    BY WhatIsDropped DEF Outcome
<1>4. \A t \in Tables(schema) : t \in DOMAIN Objects /\ Objects[t].kind = "table" /\ Objects[t].table = NoId
    BY GivenSchema DEF Outcome, Ready, Tables, OfKind, Objects
<1>5. UnmatchedTables \subseteq Tables(schema)
    BY DEF UnmatchedTables, LastTables
<1>6. \A i \in DOMAIN results :
        /\ results[i].table \in Tables(schema) \ UnmatchedTables
        /\ results[i].dropped \subseteq Olds(results[i].table)
        /\ \A c \in Olds(results[i].table) :
             c \in DOMAIN Objects /\ Objects[c].kind = "column" /\ Objects[c].table = results[i].table
    BY WhereDiffed, EachTableOnce DEF Outcome
<1>7. NoId \notin DOMAIN Objects
    BY GivenSchema DEF Outcome, Ready
<1>8. \A o \in ops : Drops(o) => o.id \in DOMAIN Objects
    BY <1>1, <1>4, <1>5, <1>6
<1> HIDE DEF ops
<1>9. Lost = {y \in DOMAIN Objects : \E o \in ops : Drops(o) /\ o.id \in {y, Objects[y].table}}
    BY DEF Lost, Gone, ops
<1>10. ASSUME NEW t \in Tables(schema) PROVE t \in Lost <=> t \in UnmatchedTables
  <2>1. ASSUME t \in Lost PROVE t \in UnmatchedTables
    <3>1. PICK o \in ops : Drops(o) /\ o.id \in {t, Objects[t].table}
        BY <1>9, <2>1
    <3>2. o.id = t
        BY <1>4, <1>7, <1>8, <3>1
    <3>. QED BY <1>1, <1>4, <1>6, <3>1, <3>2
  <2>2. ASSUME t \in UnmatchedTables PROVE t \in Lost
      BY <1>2, <1>4, <1>9, <2>2
  <2>. QED BY <2>1, <2>2
<1>11. ASSUME NEW i \in DOMAIN results, NEW c \in Olds(results[i].table)
       PROVE  c \in Lost <=> c \in results[i].dropped
  <2>1. ASSUME c \in Lost PROVE c \in results[i].dropped
    <3>1. PICK o \in ops : Drops(o) /\ o.id \in {c, Objects[c].table}
        BY <1>9, <2>1
    <3>2. Objects[o.id].kind = "column" \/ o.id \in UnmatchedTables
        BY <1>1, <1>6, <3>1
    <3>3. o.id = c
        BY <1>4, <1>6, <3>1, <3>2
    <3>4. PICK k \in DOMAIN results : o.id \in results[k].dropped
        BY <1>1, <1>4, <1>5, <1>6, <3>1, <3>3
    <3>5. results[k].table = results[i].table
        BY <1>6, <3>3, <3>4
    <3>6. k = i
        BY <3>5, EachTableOnce DEF Outcome
    <3>. QED BY <3>3, <3>4, <3>6
  <2>2. ASSUME c \in results[i].dropped PROVE c \in Lost
      BY <1>3, <1>6, <1>9, <2>2
  <2>. QED BY <2>1, <2>2
<1>12. ASSUME NEW c \in OfKind(schema, "column"), Objects[c].table \in UnmatchedTables
       PROVE  c \in Lost
  <2>1. c \in DOMAIN Objects
      BY DEF OfKind, Objects
  <2>. QED BY <1>2, <1>9, <1>12, <2>1
<1>. QED BY <1>10, <1>11, <1>12

\* What is new.
LEMMA WhatIsNew ==
  ASSUME NEW list, NEW made, NEW changed, NEW now, Outcome(list, made, changed, now)
  PROVE  /\ \A y \in DOMAIN now \ (DOMAIN Objects \ Lost) :
              \/ \E j \in DOMAIN list :
                   /\ y = made[j] + 1 /\ now[y] = Object("table", NoId, file[list[j]].name)
              \/ \E j \in DOMAIN list : \E d \in News(list[j]) :
                   /\ y = made[j] + 1 + d /\ now[y] = NewColumn(made[j] + 1, Raw(list[j], d))
              \/ \E i \in DOMAIN results : \E d \in results[i].added :
                   /\ y = changed[i] + d
                   /\ now[y] = NewColumn(results[i].table, Raw(results[i].raw, d))
         /\ \A j \in DOMAIN list :
              /\ made[j] + 1 \in DOMAIN now \ DOMAIN Objects
              /\ now[made[j] + 1] = Object("table", NoId, file[list[j]].name)
              /\ \A d \in News(list[j]) :
                   /\ made[j] + 1 + d \in DOMAIN now \ DOMAIN Objects
                   /\ now[made[j] + 1 + d] = NewColumn(made[j] + 1, Raw(list[j], d))
         /\ \A i \in DOMAIN results : \A d \in results[i].added :
              /\ changed[i] + d \in DOMAIN now \ DOMAIN Objects
              /\ now[changed[i] + d] = NewColumn(results[i].table, Raw(results[i].raw, d))
<1> DEFINE ops == ElementsOf(Operations)
<1>1. \A o \in ops : Creates(o) => now[o.id] = o.object /\ o.id \in DOMAIN now \ DOMAIN Objects
  <2>1. \A o \in ops : Creates(o) => o.id \notin DOMAIN Objects
      BY ValidOperations DEF Outcome, Valid
  <2>. QED BY <2>1 DEF Outcome, Made, NewIds
<1>2. \A id, r : /\ Creates(CreateTable(id, r)) /\ CreateTable(id, r).id = id
                 /\ CreateTable(id, r).object = Object("table", NoId, file[r].name)
    BY DEF CreateTable, Creates, Creating
<1>3. \A t, r, id, d : /\ Creates(AddColumn(t, r, id, d)) /\ AddColumn(t, r, id, d).id = id
                       /\ AddColumn(t, r, id, d).object = NewColumn(t, Raw(r, d))
    BY DEF AddColumn, Creates, Creating
<1>4. ASSUME NEW y \in DOMAIN now \ (DOMAIN Objects \ Lost)
      PROVE  \/ \E j \in DOMAIN list :
                  /\ y = made[j] + 1 /\ now[y] = Object("table", NoId, file[list[j]].name)
             \/ \E j \in DOMAIN list : \E d \in News(list[j]) :
                  /\ y = made[j] + 1 + d /\ now[y] = NewColumn(made[j] + 1, Raw(list[j], d))
             \/ \E i \in DOMAIN results : \E d \in results[i].added :
                  /\ y = changed[i] + d
                  /\ now[y] = NewColumn(results[i].table, Raw(results[i].raw, d))
  <2>1. y \in NewIds(ops)
      BY <1>4 DEF Outcome, Made, Lost
  <2>2. PICK o \in ops : Creates(o) /\ o.id = y
      BY <2>1 DEF NewIds
  <2>3. now[y] = o.object
      BY <1>1, <2>2
  <2>4. Making(list, made, o) \/ Extending(changed, o)
      BY <2>2, EachOperation DEF Outcome, Creates, Drops, Creating, Destructive
  <2>5. CASE Making(list, made, o)
    <3>1. PICK j \in DOMAIN list : o \in CreateElements(list[j], made[j])
        BY <2>5 DEF Making
    <3>2. CASE o = CreateTable(made[j] + 1, list[j])
        BY <1>2, <2>2, <2>3, <3>2
    <3>3. ASSUME NEW d \in News(list[j]), o = AddColumn(made[j] + 1, list[j], made[j] + 1 + d, d)
          PROVE  y = made[j] + 1 + d /\ now[y] = NewColumn(made[j] + 1, Raw(list[j], d))
        BY <1>3, <2>2, <2>3, <3>3
    <3>. QED BY <3>1, <3>2, <3>3 DEF CreateElements, News
  <2>6. CASE Extending(changed, o)
      BY <1>3, <2>2, <2>3, <2>6 DEF Extending
  <2>. QED BY <2>4, <2>5, <2>6
<1>5. ASSUME NEW j \in DOMAIN list
      PROVE  /\ made[j] + 1 \in DOMAIN now \ DOMAIN Objects
             /\ now[made[j] + 1] = Object("table", NoId, file[list[j]].name)
             /\ \A d \in News(list[j]) :
                  /\ made[j] + 1 + d \in DOMAIN now \ DOMAIN Objects
                  /\ now[made[j] + 1 + d] = NewColumn(made[j] + 1, Raw(list[j], d))
  <2>1. CreateElements(list[j], made[j]) \subseteq ops
      BY InOperations DEF Outcome
  <2>2. CreateTable(made[j] + 1, list[j]) \in ops
      BY <2>1 DEF CreateElements
  <2>3. \A d \in News(list[j]) : AddColumn(made[j] + 1, list[j], made[j] + 1 + d, d) \in ops
      BY <2>1 DEF CreateElements, News
  <2> HIDE DEF ops
  <2>4. /\ made[j] + 1 \in DOMAIN now \ DOMAIN Objects
        /\ now[made[j] + 1] = Object("table", NoId, file[list[j]].name)
    <3>1. /\ CreateTable(made[j] + 1, list[j]).id = made[j] + 1
          /\ CreateTable(made[j] + 1, list[j]).object = Object("table", NoId, file[list[j]].name)
          /\ Creates(CreateTable(made[j] + 1, list[j]))
        BY <1>2
    <3>. QED BY <1>1, <2>2, <3>1
  <2>5. ASSUME NEW d \in News(list[j])
        PROVE  /\ made[j] + 1 + d \in DOMAIN now \ DOMAIN Objects
               /\ now[made[j] + 1 + d] = NewColumn(made[j] + 1, Raw(list[j], d))
    <3> DEFINE o == AddColumn(made[j] + 1, list[j], made[j] + 1 + d, d)
    <3>1. Creates(o) /\ o.id = made[j] + 1 + d /\ o.object = NewColumn(made[j] + 1, Raw(list[j], d))
        BY <1>3
    <3>2. o \in ops
        BY <2>3
    <3> HIDE DEF o
    <3>. QED BY <1>1, <3>1, <3>2
  <2>. QED BY <2>4, <2>5
<1>6. ASSUME NEW i \in DOMAIN results, NEW d \in results[i].added
      PROVE  /\ changed[i] + d \in DOMAIN now \ DOMAIN Objects
             /\ now[changed[i] + d] = NewColumn(results[i].table, Raw(results[i].raw, d))
  <2> DEFINE o == AddColumn(results[i].table, results[i].raw, changed[i] + d, d)
  <2>1. TableElements(results[i], changed[i]) \subseteq ops
      BY InOperations DEF Outcome
  <2>2. o \in ops
      BY <2>1 DEF TableElements, Adding
  <2>3. Creates(o) /\ o.id = changed[i] + d
        /\ o.object = NewColumn(results[i].table, Raw(results[i].raw, d))
      BY <1>3
  <2> HIDE DEF o, ops
  <2>. QED BY <1>1, <2>2, <2>3
<1>. QED BY <1>4, <1>5, <1>6

\* The objects that a sync makes.
LEMMA KindsMade ==
  /\ \A n : Object("table", NoId, n).kind = "table" /\ Object("table", NoId, n).name = n
  /\ \A t, d : NewColumn(t, d).kind = "column" /\ NewColumn(t, d).table = t
BY DEF Object, NewColumn

\* A table of the file that is made has a number of its own.
LEMMA MadeApart ==
  ASSUME NEW list, NEW made, NEW changed, NEW now, Outcome(list, made, changed, now),
         NEW j \in DOMAIN list, NEW k \in DOMAIN list, made[j] + 1 = made[k] + 1
  PROVE  j = k
<1>1. /\ now[made[j] + 1] = Object("table", NoId, file[list[j]].name)
      /\ now[made[k] + 1] = Object("table", NoId, file[list[k]].name)
    BY WhatIsNew
<1>2. Object("table", NoId, file[list[j]].name) = Object("table", NoId, file[list[k]].name)
    BY <1>1
<1>3. file[list[j]].name = file[list[k]].name
    BY <1>2, KindsMade
<1>4. list[j] \in DOMAIN file /\ list[k] \in DOMAIN file
    BY DEF Outcome, Planned, ElementsOf, UnmatchedRaws, LastRaws
<1>5. list[j] = list[k]
    BY <1>3, <1>4, NamesTell DEF Outcome, Ready
<1>. QED BY <1>5 DEF Outcome, Planned

\* The tables: those that were matched, and the new ones.
LEMMA TablesAfter ==
  ASSUME NEW list, NEW made, NEW changed, NEW now, Outcome(list, made, changed, now)
  PROVE  Tables(Fine(now)) = {results[i].table : i \in DOMAIN results} \cup {made[j] + 1 : j \in DOMAIN list}
<1>1. Tables(Fine(now)) = {y \in DOMAIN now : now[y].kind = "table"}
    BY FineFields DEF Tables, OfKind
<1>2. Tables(schema) = {y \in DOMAIN Objects : Objects[y].kind = "table"}
    BY DEF Tables, OfKind, Objects
<1>3. \A y \in DOMAIN Objects \ Lost : y \in DOMAIN now /\ now[y].kind = Objects[y].kind
    BY KeptAsTheyWere
<1>4. \A t \in Tables(schema) : t \in Lost <=> t \in UnmatchedTables
    BY WhatIsLost
<1>5. Tables(schema) \ UnmatchedTables = {results[i].table : i \in DOMAIN results}
    BY EachTableOnce DEF Outcome
<1>6. ASSUME NEW y \in DOMAIN now, now[y].kind = "table"
      PROVE  y \in {results[i].table : i \in DOMAIN results} \cup {made[j] + 1 : j \in DOMAIN list}
  <2>1. CASE y \in DOMAIN Objects \ Lost
      BY <1>2, <1>3, <1>4, <1>5, <1>6, <2>1
  <2>2. CASE y \in DOMAIN now \ (DOMAIN Objects \ Lost)
    <3>1. \/ \E j \in DOMAIN list :
               /\ y = made[j] + 1 /\ now[y] = Object("table", NoId, file[list[j]].name)
          \/ \E j \in DOMAIN list : \E d \in News(list[j]) :
               /\ y = made[j] + 1 + d /\ now[y] = NewColumn(made[j] + 1, Raw(list[j], d))
          \/ \E i \in DOMAIN results : \E d \in results[i].added :
               /\ y = changed[i] + d
               /\ now[y] = NewColumn(results[i].table, Raw(results[i].raw, d))
        BY <2>2, WhatIsNew
    <3>2. \A t, d : now[y] # NewColumn(t, d)
        BY <1>6, KindsMade
    <3>. QED BY <3>1, <3>2
  <2>. QED BY <2>1, <2>2
<1>7. \A i \in DOMAIN results : results[i].table \in DOMAIN now /\ now[results[i].table].kind = "table"
    BY <1>2, <1>3, <1>4, <1>5
<1>8. \A j \in DOMAIN list : made[j] + 1 \in DOMAIN now /\ now[made[j] + 1].kind = "table"
    BY WhatIsNew, KindsMade
<1>. QED BY <1>1, <1>6, <1>7, <1>8

\* The columns of a matched table: those that were not dropped, and the added.
LEMMA ColumnsAfter ==
  ASSUME NEW list, NEW made, NEW changed, NEW now, Outcome(list, made, changed, now),
         NEW i \in DOMAIN results
  PROVE  ColumnsOf(Fine(now), results[i].table)
           = (Olds(results[i].table) \ results[i].dropped) \cup {changed[i] + d : d \in results[i].added}
<1> DEFINE t == results[i].table
<1>1. ColumnsOf(Fine(now), t) = {y \in DOMAIN now : now[y].kind = "column" /\ now[y].table = t}
    BY FineFields DEF ColumnsOf, OfKind, Inside
<1>2. Olds(t) = {y \in DOMAIN Objects : Objects[y].kind = "column" /\ Objects[y].table = t}
    BY DEF Olds, ColumnsOf, OfKind, Inside, Objects
<1>3. \A y \in DOMAIN Objects \ Lost :
        y \in DOMAIN now /\ now[y].kind = Objects[y].kind /\ now[y].table = Objects[y].table
    BY KeptAsTheyWere
<1>4. \A c \in Olds(t) : c \in Lost <=> c \in results[i].dropped
    BY WhatIsLost
<1>5. t \in DOMAIN Objects
    BY WhereDiffed DEF Outcome
<1>6. ASSUME NEW y \in DOMAIN now, now[y].kind = "column", now[y].table = t
      PROVE  y \in (Olds(t) \ results[i].dropped) \cup {changed[i] + d : d \in results[i].added}
  <2>1. CASE y \in DOMAIN Objects \ Lost
      BY <1>2, <1>3, <1>4, <1>6, <2>1
  <2>2. CASE y \in DOMAIN now \ (DOMAIN Objects \ Lost)
    <3>1. \/ \E j \in DOMAIN list :
               /\ y = made[j] + 1 /\ now[y] = Object("table", NoId, file[list[j]].name)
          \/ \E j \in DOMAIN list : \E d \in News(list[j]) :
               /\ y = made[j] + 1 + d /\ now[y] = NewColumn(made[j] + 1, Raw(list[j], d))
          \/ \E k \in DOMAIN results : \E d \in results[k].added :
               /\ y = changed[k] + d
               /\ now[y] = NewColumn(results[k].table, Raw(results[k].raw, d))
        BY <2>2, WhatIsNew
    <3>2. \A n : now[y] # Object("table", NoId, n)
        BY <1>6, KindsMade
    <3>3. \A j \in DOMAIN list : made[j] + 1 # t
        BY <1>5, WhatIsNew
    <3>4. \A u, d : now[y] = NewColumn(u, d) => u = t
        BY <1>6, KindsMade
    <3>5. PICK k \in DOMAIN results :
            \E d \in results[k].added :
              y = changed[k] + d /\ now[y] = NewColumn(results[k].table, Raw(results[k].raw, d))
        BY <3>1, <3>2, <3>3, <3>4
    <3>6. k = i
        BY <3>4, <3>5, EachTableOnce DEF Outcome
    <3>. QED BY <3>5, <3>6
  <2>. QED BY <2>1, <2>2
<1>7. \A c \in Olds(t) \ results[i].dropped : c \in DOMAIN now /\ now[c].kind = "column" /\ now[c].table = t
    BY <1>2, <1>3, <1>4
<1>8. \A d \in results[i].added : /\ changed[i] + d \in DOMAIN now
                                  /\ now[changed[i] + d].kind = "column" /\ now[changed[i] + d].table = t
    BY WhatIsNew, KindsMade
<1> HIDE DEF t
<1>9. ColumnsOf(Fine(now), t) = (Olds(t) \ results[i].dropped) \cup {changed[i] + d : d \in results[i].added}
    BY <1>1, <1>6, <1>7, <1>8
<1>. QED BY <1>9 DEF t

\* The columns of a new table: those of the file.
LEMMA ColumnsMade ==
  ASSUME NEW list, NEW made, NEW changed, NEW now, Outcome(list, made, changed, now),
         NEW j \in DOMAIN list
  PROVE  ColumnsOf(Fine(now), made[j] + 1) = {made[j] + 1 + d : d \in News(list[j])}
<1> DEFINE t == made[j] + 1
<1>1. ColumnsOf(Fine(now), t) = {y \in DOMAIN now : now[y].kind = "column" /\ now[y].table = t}
    BY FineFields DEF ColumnsOf, OfKind, Inside
<1>2. \A y \in DOMAIN Objects \ Lost :
        y \in DOMAIN now /\ now[y].kind = Objects[y].kind /\ now[y].table = Objects[y].table
    BY KeptAsTheyWere
<1>3. t \notin DOMAIN Objects
    BY WhatIsNew
<1>4. ASSUME NEW y \in DOMAIN now, now[y].kind = "column", now[y].table = t
      PROVE  y \in {t + d : d \in News(list[j])}
  <2>1. CASE y \in DOMAIN Objects \ Lost
    <3>1. Objects[y].kind = "column" /\ Objects[y].table = t
        BY <1>2, <1>4, <2>1
    <3>2. t \in Tables(schema)
        BY <2>1, <3>1, GivenSchema DEF Outcome, Ready
    <3>. QED BY <1>3, <3>2 DEF Tables, OfKind, Objects
  <2>2. CASE y \in DOMAIN now \ (DOMAIN Objects \ Lost)
    <3>1. \/ \E k \in DOMAIN list :
               /\ y = made[k] + 1 /\ now[y] = Object("table", NoId, file[list[k]].name)
          \/ \E k \in DOMAIN list : \E d \in News(list[k]) :
               /\ y = made[k] + 1 + d /\ now[y] = NewColumn(made[k] + 1, Raw(list[k], d))
          \/ \E k \in DOMAIN results : \E d \in results[k].added :
               /\ y = changed[k] + d
               /\ now[y] = NewColumn(results[k].table, Raw(results[k].raw, d))
        BY <2>2, WhatIsNew
    <3>2. \A n : now[y] # Object("table", NoId, n)
        BY <1>4, KindsMade
    <3>3. \A k \in DOMAIN results : results[k].table # t
        BY <1>3, WhereDiffed DEF Outcome
    <3>4. \A u, d : now[y] = NewColumn(u, d) => u = t
        BY <1>4, KindsMade
    <3>5. PICK k \in DOMAIN list :
            \E d \in News(list[k]) :
              y = made[k] + 1 + d /\ now[y] = NewColumn(made[k] + 1, Raw(list[k], d))
        BY <3>1, <3>2, <3>3, <3>4
    <3>6. k = j
        BY <3>4, <3>5, MadeApart
    <3>. QED BY <3>5, <3>6
  <2>. QED BY <2>1, <2>2
<1>5. \A d \in News(list[j]) : t + d \in DOMAIN now /\ now[t + d].kind = "column" /\ now[t + d].table = t
    BY WhatIsNew, KindsMade
<1> HIDE DEF t
<1>6. ColumnsOf(Fine(now), t) = {t + d : d \in News(list[j])}
    BY <1>1, <1>4, <1>5
<1>. QED BY <1>6 DEF t

\* What a pair says is done to its column, and nothing else.
LEMMA TouchedOnly ==
  ASSUME Ready, NEW list, NEW made, NEW changed, Planned(list, made, changed),
         NEW i \in DOMAIN results, NEW p \in results[i].retyped \cup results[i].renamed,
         NEW o \in ElementsOf(Operations), NEW f, Sets(o, p[1], f)
  PROVE  /\ o \in Becomes(results[i], p)
         /\ p \in results[i].retyped => o \in Retypes(p[1], Raw(results[i].raw, p[2]))
<1> DEFINE Touches(k) == \E q : Retouching(k, q, o)
<1>1. ~Creates(o) /\ ~Drops(o) /\ o.id = p[1]
    BY DEF Sets, Creates, Drops, Creating, Destructive, SetField, MutationField
<1>2. PICK k \in DOMAIN results : Touches(k)
    BY <1>1, EachOperation
<1>3. PICK q : Retouching(k, q, o)
    BY <1>2
<1>4. o \in Becomes(results[k], q)
    BY <1>3 DEF Retouching
<1>5. q \in results[k].retyped \cup results[k].renamed
    BY <1>3 DEF Retouching
<1>6. p[1] = q[1]
    BY <1>1, <1>4, BecomesAre
<1> HIDE DEF Touches
<1>7. i = k /\ p = q
    BY <1>5, <1>6, RetouchedOnce
<1>. QED BY <1>3, <1>4, <1>7 DEF Retouching

\* All that a pair says is among the operations.
LEMMA TouchedAll ==
  ASSUME Ready, NEW list, NEW made, NEW changed, Planned(list, made, changed),
         NEW i \in DOMAIN results, NEW p \in results[i].retyped \cup results[i].renamed
  PROVE  /\ Retypes(p[1], Raw(results[i].raw, p[2])) \subseteq ElementsOf(Operations)
         /\ p \in results[i].renamed => SetName(p[1], Raw(results[i].raw, p[2])) \in ElementsOf(Operations)
<1>1. TableElements(results[i], changed[i]) \subseteq ElementsOf(Operations)
    BY InOperations
<1>2. ASSUME p \in results[i].retyped
      PROVE  Retypes(p[1], Raw(results[i].raw, p[2])) \subseteq ElementsOf(Operations)
    BY <1>1, <1>2 DEF TableElements, Retyping
<1>3. ASSUME p \in results[i].renamed
      PROVE  Becomes(results[i], p) \subseteq ElementsOf(Operations)
    BY <1>1, <1>3 DEF TableElements, Renaming
<1>. QED BY <1>2, <1>3 DEF Becomes

\* After replay the column is as the file has it.
LEMMA PairNow ==
  ASSUME NEW list, NEW made, NEW changed, NEW now, Outcome(list, made, changed, now),
         NEW i \in DOMAIN results, NEW p \in results[i].retyped \cup results[i].renamed
  PROVE  LET c == now[p[1]]
             d == Raw(results[i].raw, p[2])
         IN  /\ p[1] \in DOMAIN now
             /\ c.name = d.name /\ c.type = d.type /\ c.nullable = d.nullable /\ c.default = d.default
<1> DEFINE c == p[1]
           d == Raw(results[i].raw, p[2])
           ops == ElementsOf(Operations)
<1>1. c \in Olds(results[i].table) /\ c \in DOMAIN Objects /\ c \notin results[i].dropped
    BY WhereDiffed DEF Outcome
<1>2. c \in DOMAIN Objects \ Lost
    BY <1>1, WhatIsLost
<1>3. {"name", "type", "nullable", "default"} \subseteq DOMAIN Objects[c]
    BY <1>1, GivenSchema DEF Outcome, Ready
<1>4. /\ c \in DOMAIN now
      /\ \A f \in {"name", "type", "nullable", "default"} :
           /\ (\A o \in ops : ~Sets(o, c, f)) => now[c][f] = Objects[c][f]
           /\ \A o \in ops : Sets(o, c, f) => now[c][f] = o.value
    BY <1>2, <1>3 DEF Outcome, Made, Lost
<1>5. \A o \in ops : \A f : Sets(o, c, f) =>
        /\ o \in Becomes(results[i], p) /\ SetField[o.type] = f
        /\ p \in results[i].retyped => o \in Retypes(c, d)
    BY TouchedOnly DEF Outcome, Sets
<1>6. Retypes(c, d) \subseteq ops /\ (p \in results[i].renamed => SetName(c, d) \in ops)
    BY TouchedAll DEF Outcome
<1>7. /\ Sets(SetName(c, d), c, "name") /\ SetName(c, d).value = d.name
      /\ Sets(SetType(c, d), c, "type") /\ SetType(c, d).value = d.type
      /\ Sets(SetNullable(c, d), c, "nullable") /\ SetNullable(c, d).value = d.nullable
      /\ Sets(SetDefault(c, d), c, "default") /\ SetDefault(c, d).value = d.default
    BY DEF Sets, SetName, SetType, SetNullable, SetDefault, SetField, MutationField
<1>8. /\ \A o \in ops : Sets(o, c, "name") => o = SetName(c, d)
      /\ \A o \in ops : Sets(o, c, "type") => o = SetType(c, d)
      /\ \A o \in ops : Sets(o, c, "nullable") => o = SetNullable(c, d)
      /\ \A o \in ops : Sets(o, c, "default") => o = SetDefault(c, d)
    BY <1>5, BecomesAre
<1>9. Old(c) = Objects[c]
    BY DEF Old, Objects
<1>10. p \in results[i].retyped => Old(c).name = d.name
  <2>1. p \in results[i].retyped => Named(c, results[i].raw, p[2])
      BY DEF Outcome, Ready, AllDiffed, Diffed
  <2>2. results[i].raw \in DOMAIN file /\ p[2] \in News(results[i].raw)
      BY WhereDiffed DEF Outcome
  <2>3. d.name = file[results[i].raw].columns[p[2]].name
      BY <2>2, GivenFile DEF Outcome, Ready
  <2>. QED BY <2>1, <2>3 DEF Named
<1>11. /\ Old(c).type # d.type => SetType(c, d) \in ops
       /\ Old(c).nullable # d.nullable => SetNullable(c, d) \in ops
       /\ Old(c).default # d.default => SetDefault(c, d) \in ops
  <2>1. /\ Old(c).type # d.type => SetType(c, d) \in Retypes(c, d)
        /\ Old(c).nullable # d.nullable => SetNullable(c, d) \in Retypes(c, d)
        /\ Old(c).default # d.default => SetDefault(c, d) \in Retypes(c, d)
      BY DEF Retypes
  <2>. QED BY <1>6, <2>1
<1>12. \A o \in ops : p \in results[i].retyped => ~Sets(o, c, "name")
  <2>1. \A o \in Retypes(c, d) : SetField[o.type] # "name"
      BY RetypesAre DEF SetField, MutationField
  <2>. QED BY <1>5, <2>1
<1> HIDE DEF c, d, ops
<1>13. now[c].type = d.type
  <2>1. CASE \A o \in ops : ~Sets(o, c, "type")
      BY <1>4, <1>7, <1>9, <1>11, <2>1
  <2>2. CASE \E o \in ops : Sets(o, c, "type")
      BY <1>4, <1>7, <1>8, <2>2
  <2>. QED BY <2>1, <2>2
<1>14. now[c].nullable = d.nullable
  <2>1. CASE \A o \in ops : ~Sets(o, c, "nullable")
      BY <1>4, <1>7, <1>9, <1>11, <2>1
  <2>2. CASE \E o \in ops : Sets(o, c, "nullable")
      BY <1>4, <1>7, <1>8, <2>2
  <2>. QED BY <2>1, <2>2
<1>15. now[c].default = d.default
  <2>1. CASE \A o \in ops : ~Sets(o, c, "default")
      BY <1>4, <1>7, <1>9, <1>11, <2>1
  <2>2. CASE \E o \in ops : Sets(o, c, "default")
      BY <1>4, <1>7, <1>8, <2>2
  <2>. QED BY <2>1, <2>2
<1>16. now[c].name = d.name
  <2>1. CASE p \in results[i].retyped
      BY <1>4, <1>9, <1>10, <1>12, <2>1
  <2>2. CASE p \in results[i].renamed
      BY <1>4, <1>6, <1>7, <2>2
  <2>. QED BY <2>1, <2>2
<1>. QED BY <1>4, <1>13, <1>14, <1>15, <1>16 DEF c, d

\* A column of the file, as it is and as the new column that is made of it.
LEMMA SameShape ==
  ASSUME Given, NEW r \in DOMAIN file, NEW d \in News(r), NEW t
  PROVE  /\ Shape(NewColumn(t, Raw(r, d))) = Shape(file[r].columns[d])
         /\ Shape(Raw(r, d)) = Shape(file[r].columns[d])
BY GivenFile DEF Shape, NewColumn

\* The shapes of a matched table's columns are those of the file.
LEMMA MatchedShape ==
  ASSUME NEW list, NEW made, NEW changed, NEW now, Outcome(list, made, changed, now),
         NEW i \in DOMAIN results
  PROVE  {Shape(now[c]) : c \in ColumnsOf(Fine(now), results[i].table)}
           = {Shape(file[results[i].raw].columns[d]) : d \in News(results[i].raw)}
<1> DEFINE x == results[i]
           S(d) == Shape(file[x.raw].columns[d])
<1>1. ColumnsOf(Fine(now), x.table) = (Olds(x.table) \ x.dropped) \cup {changed[i] + d : d \in x.added}
    BY ColumnsAfter
<1>2. Diffed(x) /\ Given
    BY DEF Outcome, Ready, AllDiffed
<1>3. x.raw \in DOMAIN file /\ x.added \subseteq News(x.raw)
      /\ \A p \in x.retyped \cup x.renamed :
           p[1] \in Olds(x.table) /\ p[2] \in News(x.raw) /\ p[1] \notin x.dropped
    BY WhereDiffed DEF Outcome
<1>4. \A p \in x.retyped \cup x.renamed : Shape(now[p[1]]) = S(p[2])
  <2> SUFFICES ASSUME NEW p \in x.retyped \cup x.renamed PROVE Shape(now[p[1]]) = S(p[2])
      OBVIOUS
  <2>1. Shape(now[p[1]]) = Shape(Raw(x.raw, p[2]))
      BY PairNow DEF Shape
  <2>2. p[2] \in News(x.raw)
      BY <1>3
  <2>. QED BY <1>2, <1>3, <2>1, <2>2, SameShape
<1>5. \A d \in x.added : Shape(now[changed[i] + d]) = S(d)
  <2> SUFFICES ASSUME NEW d \in x.added PROVE Shape(now[changed[i] + d]) = S(d)
      OBVIOUS
  <2>1. now[changed[i] + d] = NewColumn(x.table, Raw(x.raw, d))
      BY WhatIsNew
  <2>. QED BY <1>2, <1>3, <2>1, SameShape
<1> HIDE DEF x, S
<1>6. \A c \in Olds(x.table) \ x.dropped : \E p \in x.retyped \cup x.renamed : p[1] = c
  <2> SUFFICES ASSUME NEW c \in Olds(x.table) \ x.dropped
               PROVE  \E p \in x.retyped \cup x.renamed : p[1] = c
      OBVIOUS
  <2>1. CASE c \in Vanished(x.table, x.raw)
      BY <1>2, <2>1 DEF Diffed
  <2>2. CASE c \notin Vanished(x.table, x.raw)
    <3>1. PICK d \in News(x.raw) : Named(c, x.raw, d)
        BY <2>2 DEF Vanished
    <3>2. <<c, d>> \in x.retyped
        BY <1>2, <3>1 DEF Diffed
    <3>. QED BY <3>2
  <2>. QED BY <2>1, <2>2
<1>7. \A d \in News(x.raw) : d \in x.added \/ \E p \in x.retyped \cup x.renamed : p[2] = d
  <2> SUFFICES ASSUME NEW d \in News(x.raw), d \notin x.added
               PROVE  \E p \in x.retyped \cup x.renamed : p[2] = d
      OBVIOUS
  <2>1. CASE d \in Appeared(x.table, x.raw)
      BY <1>2, <2>1 DEF Diffed
  <2>2. CASE d \notin Appeared(x.table, x.raw)
    <3>1. PICK c \in Olds(x.table) : Named(c, x.raw, d)
        BY <2>2 DEF Appeared
    <3>2. <<c, d>> \in x.retyped
        BY <1>2, <3>1 DEF Diffed
    <3>. QED BY <3>2
  <2>. QED BY <2>1, <2>2
<1>8. \A c \in ColumnsOf(Fine(now), x.table) : \E d \in News(x.raw) : Shape(now[c]) = S(d)
    BY <1>1, <1>3, <1>4, <1>5, <1>6
<1>9. \A d \in News(x.raw) : \E c \in ColumnsOf(Fine(now), x.table) : Shape(now[c]) = S(d)
    BY <1>1, <1>3, <1>4, <1>5, <1>7
<1>10. {Shape(now[c]) : c \in ColumnsOf(Fine(now), x.table)} = {S(d) : d \in News(x.raw)}
    BY <1>8, <1>9
<1>. QED BY <1>10 DEF x, S

\* The tables and columns after replay are those of the file.
LEMMA ShapeAfter ==
  ASSUME NEW list, NEW made, NEW changed, NEW now, Outcome(list, made, changed, now)
  PROVE  SchemaShape(Fine(now)) = FileShape
<1> DEFINE TableShape(t) == [name |-> now[t].name,
                             columns |-> {Shape(now[c]) : c \in ColumnsOf(Fine(now), t)}]
           RawShape(r) == [name |-> file[r].name,
                           columns |-> {Shape(file[r].columns[d]) : d \in DOMAIN file[r].columns}]
<1>1. SchemaShape(Fine(now)) = {TableShape(t) : t \in Tables(Fine(now))}
  <2> DEFINE s == Fine(now)
             Read(t) == [name |-> s.objects[t].name,
                           columns |-> {Shape(s.objects[c]) : c \in ColumnsOf(s, t)}]
  <2>1. SchemaShape(s) = {Read(t) : t \in Tables(s)}
      BY DEF SchemaShape
  <2>2. s.objects = now
      BY FineFields
  <2> HIDE DEF s
  <2>3. \A t : /\ s.objects[t].name = now[t].name
               /\ {Shape(s.objects[c]) : c \in ColumnsOf(s, t)} = {Shape(now[c]) : c \in ColumnsOf(s, t)}
      BY <2>2
  <2> DEFINE Known(t) == [name |-> now[t].name,
                           columns |-> {Shape(now[c]) : c \in ColumnsOf(s, t)}]
  <2>4. \A t : Read(t) = Known(t)
      BY <2>3
  <2> HIDE DEF Read, Known
  <2>5. SchemaShape(s) = {Known(t) : t \in Tables(s)}
      BY <2>1, <2>4
  <2>. QED BY <2>5 DEF s, Known
<1>2. FileShape = {RawShape(r) : r \in DOMAIN file}
    BY DEF FileShape
<1>3. \A i \in DOMAIN results : TableShape(results[i].table) = RawShape(results[i].raw)
  <2> SUFFICES ASSUME NEW i \in DOMAIN results
               PROVE  TableShape(results[i].table) = RawShape(results[i].raw)
      OBVIOUS
  <2> DEFINE t == results[i].table
  <2>1. t \in DOMAIN Objects \ Lost /\ Matches(t, results[i].raw)
    <3>1. t \in Tables(schema) /\ Matches(t, results[i].raw)
        BY DEF Outcome, Ready, AllDiffed, Diffed
    <3>2. t \notin UnmatchedTables
        BY EachTableOnce DEF Outcome
    <3>3. t \in DOMAIN Objects
        BY WhereDiffed DEF Outcome
    <3>. QED BY <3>1, <3>2, <3>3, WhatIsLost
  <2>2. \A o : ~Sets(o, t, "name") \/ o \notin ElementsOf(Operations)
    <3> SUFFICES ASSUME NEW o \in ElementsOf(Operations), Sets(o, t, "name") PROVE FALSE
        OBVIOUS
    <3>1. ~Creates(o) /\ ~Drops(o) /\ o.id = t
        BY DEF Sets, Creates, Drops, Creating, Destructive, SetField, MutationField
    <3> DEFINE Touches(k) == \E q : Retouching(k, q, o)
    <3>2. PICK k \in DOMAIN results : Touches(k)
        BY <3>1, EachOperation DEF Outcome
    <3>3. PICK q : Retouching(k, q, o)
        BY <3>2
    <3>4. o.id = q[1] /\ q \in results[k].retyped \cup results[k].renamed
        BY <3>3, BecomesAre DEF Retouching
    <3>5. Objects[q[1]].kind = "column" /\ Objects[t].kind = "table"
        BY <3>4, WhereDiffed DEF Outcome
    <3>. QED BY <3>1, <3>4, <3>5
  <2>3. "name" \in DOMAIN Objects[t]
      BY <2>1, GivenSchema DEF Outcome, Ready
  <2>4. now[t].name = Objects[t].name
      BY <2>1, <2>2, <2>3 DEF Outcome, Made, Lost
  <2>5. now[t].name = file[results[i].raw].name
      BY <2>1, <2>4 DEF Matches, Objects
  <2>6. {Shape(now[c]) : c \in ColumnsOf(Fine(now), t)}
          = {Shape(file[results[i].raw].columns[d]) : d \in DOMAIN file[results[i].raw].columns}
      BY MatchedShape DEF News
  <2>. QED BY <2>5, <2>6
<1>4. \A j \in DOMAIN list : TableShape(made[j] + 1) = RawShape(list[j])
  <2> SUFFICES ASSUME NEW j \in DOMAIN list
               PROVE  TableShape(made[j] + 1) = RawShape(list[j])
      OBVIOUS
  <2> DEFINE t == made[j] + 1
             r == list[j]
  <2>1. now[t].name = file[r].name
      BY WhatIsNew, KindsMade
  <2>2. r \in DOMAIN file
      BY DEF Outcome, Planned, ElementsOf, UnmatchedRaws, LastRaws
  <2>3. ColumnsOf(Fine(now), t) = {t + d : d \in News(r)}
      BY ColumnsMade
  <2>4. \A d \in News(r) : Shape(now[t + d]) = Shape(file[r].columns[d])
    <3> SUFFICES ASSUME NEW d \in News(r) PROVE Shape(now[t + d]) = Shape(file[r].columns[d])
        OBVIOUS
    <3>1. now[t + d] = NewColumn(t, Raw(r, d))
        BY WhatIsNew
    <3>2. Given
        BY DEF Outcome, Ready
    <3>. QED BY <2>2, <3>1, <3>2, SameShape
  <2>5. News(r) = DOMAIN file[r].columns
      BY DEF News
  <2> HIDE DEF t, r
  <2>6. {Shape(now[c]) : c \in ColumnsOf(Fine(now), t)}
          = {Shape(file[r].columns[d]) : d \in DOMAIN file[r].columns}
      BY <2>3, <2>4, <2>5
  <2>. QED BY <2>1, <2>6 DEF t, r
<1>5. Tables(Fine(now)) = {results[i].table : i \in DOMAIN results} \cup {made[j] + 1 : j \in DOMAIN list}
    BY TablesAfter
<1>6. \A r \in DOMAIN file : \/ \E i \in DOMAIN results : results[i].raw = r
                             \/ \E j \in DOMAIN list : list[j] = r
  <2>1. \A r \in DOMAIN file \ UnmatchedRaws : \E i \in DOMAIN results : results[i].raw = r
      BY EachTableOnce DEF Outcome
  <2>2. \A r \in UnmatchedRaws : \E j \in DOMAIN list : list[j] = r
      BY DEF Outcome, Planned, ElementsOf
  <2>. QED BY <2>1, <2>2
<1>7. \A i \in DOMAIN results : results[i].raw \in DOMAIN file
    BY WhereDiffed DEF Outcome
<1>8. \A j \in DOMAIN list : list[j] \in DOMAIN file
    BY DEF Outcome, Planned, ElementsOf, UnmatchedRaws, LastRaws
<1> HIDE DEF TableShape, RawShape
<1>9. \A t \in Tables(Fine(now)) : \E r \in DOMAIN file : TableShape(t) = RawShape(r)
    BY <1>3, <1>4, <1>5, <1>7, <1>8
<1>10. \A r \in DOMAIN file : \E t \in Tables(Fine(now)) : TableShape(t) = RawShape(r)
    BY <1>3, <1>4, <1>5, <1>6
<1>11. {TableShape(t) : t \in Tables(Fine(now))} = {RawShape(r) : r \in DOMAIN file}
    BY <1>9, <1>10
<1>. QED BY <1>1, <1>2, <1>11

\* A table of the schema and one of the file that have a name in common are
\* matched, and no other is with either.
LEMMA SameTable ==
  ASSUME Ready, NEW t \in Tables(schema), NEW r \in DOMAIN file, Matches(t, r)
  PROVE  \E i \in DOMAIN results : results[i].table = t /\ results[i].raw = r
<1>1. t \notin UnmatchedTables
    BY NamesTell DEF Ready, UnmatchedTables
<1>2. PICK i \in DOMAIN results : results[i].table = t
    BY <1>1, EachTableOnce
<1>3. Matches(t, results[i].raw) /\ results[i].raw \in DOMAIN file
    BY <1>2 DEF Ready, AllDiffed, Diffed
<1>4. results[i].raw = r
    BY <1>3, NamesTell DEF Ready, Matches
<1>. QED BY <1>2, <1>4

\* A column whose name the file still has stays the column it was.
LEMMA NamedStay ==
  ASSUME NEW list, NEW made, NEW changed, NEW now, Outcome(list, made, changed, now),
         NEW c \in NamedInFile(schema)
  PROVE  c \in DOMAIN now /\ now[c].name = Objects[c].name
<1>1. c \in DOMAIN Objects /\ Objects[c].kind = "column"
    BY DEF NamedInFile, OfKind, Objects
<1>2. PICK r \in DOMAIN file : /\ file[r].name = Objects[Objects[c].table].name
                               /\ \E d \in News(r) : file[r].columns[d].name = Objects[c].name
  <2>1. PICK x \in FileShape : /\ x.name = schema.objects[schema.objects[c].table].name
                               /\ \E y \in x.columns : y.name = schema.objects[c].name
      BY DEF NamedInFile
  <2>2. PICK r \in DOMAIN file :
          x = [name |-> file[r].name,
               columns |-> {Shape(file[r].columns[d]) : d \in DOMAIN file[r].columns}]
      BY <2>1 DEF FileShape
  <2>3. x.name = file[r].name /\ x.columns = {Shape(file[r].columns[d]) : d \in DOMAIN file[r].columns}
      BY <2>2
  <2>4. PICK d \in DOMAIN file[r].columns : Shape(file[r].columns[d]).name = schema.objects[c].name
      BY <2>1, <2>3
  <2>5. file[r].columns[d].name = schema.objects[c].name
      BY <2>4 DEF Shape
  <2>. QED BY <2>1, <2>3, <2>5 DEF News, Objects
<1>3. PICK d \in News(r) : file[r].columns[d].name = Objects[c].name
    BY <1>2
<1> DEFINE t == Objects[c].table
<1>4. t \in Tables(schema)
    BY <1>1, GivenSchema DEF Outcome, Ready
<1>5. Matches(t, r)
    BY <1>2 DEF Matches, Objects
<1>6. PICK i \in DOMAIN results : results[i].table = t /\ results[i].raw = r
    BY <1>4, <1>5, SameTable DEF Outcome
<1>7. c \in Olds(t)
    BY <1>1 DEF Olds, ColumnsOf, OfKind, Inside, Objects
<1>8. <<c, d>> \in results[i].retyped
  <2>1. Named(c, r, d)
      BY <1>3 DEF Named, Old, Objects
  <2>2. Diffed(results[i])
      BY DEF Outcome, Ready, AllDiffed
  <2>. QED BY <1>6, <1>7, <2>1, <2>2 DEF Diffed
<1> DEFINE p == <<c, d>>
<1>9. p \in results[i].retyped \cup results[i].renamed /\ p[1] = c /\ p[2] = d
    BY <1>8
<1> HIDE DEF p
<1>10. p[1] \in DOMAIN now /\ now[p[1]].name = Raw(results[i].raw, p[2]).name
    BY <1>9, PairNow
<1>11. Raw(r, d).name = file[r].columns[d].name
    BY GivenFile DEF Outcome, Ready
<1>. QED BY <1>3, <1>6, <1>9, <1>10, <1>11

\* An unedited file gives no operation.
LEMMA UneditedIsEmpty ==
  ASSUME NEW list, NEW made, NEW changed, Ready, Planned(list, made, changed),
         SchemaShape(schema) = FileShape
  PROVE  Operations = <<>>
<1> DEFINE TableShape(t) == [name |-> Objects[t].name,
                             columns |-> {Shape(Objects[c]) : c \in Olds(t)}]
           RawShape(r) == [name |-> file[r].name,
                           columns |-> {Shape(file[r].columns[d]) : d \in News(r)}]
<1>1. {TableShape(t) : t \in Tables(schema)} = {RawShape(r) : r \in DOMAIN file}
    BY DEF SchemaShape, FileShape, Objects, Olds, News
<1>2. \A t \in Tables(schema) : \E r \in DOMAIN file : TableShape(t) = RawShape(r)
  <2> HIDE DEF TableShape, RawShape
  <2>. QED BY <1>1
<1>3. \A r \in DOMAIN file : \E t \in Tables(schema) : TableShape(t) = RawShape(r)
  <2> HIDE DEF TableShape, RawShape
  <2>. QED BY <1>1
<1>4. \A t, r : TableShape(t) = RawShape(r) =>
        /\ Objects[t].name = file[r].name
        /\ {Shape(Objects[c]) : c \in Olds(t)} = {Shape(file[r].columns[d]) : d \in News(r)}
  <2> SUFFICES ASSUME NEW t, NEW r, TableShape(t) = RawShape(r)
               PROVE  /\ Objects[t].name = file[r].name
                      /\ {Shape(Objects[c]) : c \in Olds(t)} = {Shape(file[r].columns[d]) : d \in News(r)}
      OBVIOUS
  <2>1. /\ TableShape(t).name = Objects[t].name /\ RawShape(r).name = file[r].name
        /\ TableShape(t).columns = {Shape(Objects[c]) : c \in Olds(t)}
        /\ RawShape(r).columns = {Shape(file[r].columns[d]) : d \in News(r)}
      OBVIOUS
  <2> HIDE DEF TableShape, RawShape
  <2>. QED BY <2>1
<1> HIDE DEF TableShape, RawShape
<1>5. UnmatchedTables = {}
    BY <1>2, <1>4, NamesTell DEF Ready, UnmatchedTables, Matches, Objects
<1>6. UnmatchedRaws = {}
    BY <1>3, <1>4, NamesTell DEF Ready, UnmatchedRaws, Matches, Objects
<1>7. ASSUME NEW i \in DOMAIN results
      PROVE  TableElements(results[i], changed[i]) = {}
  <2> DEFINE x == results[i]
  <2>1. Diffed(x) /\ x.raw \in DOMAIN file /\ x.table \in Tables(schema)
      BY DEF Ready, AllDiffed, Diffed
  <2> HIDE DEF x
  <2>2. PICK r \in DOMAIN file : TableShape(x.table) = RawShape(r)
      BY <1>2, <2>1
  <2>3. r = x.raw
    <3>1. file[r].name = file[x.raw].name
        BY <1>4, <2>1, <2>2 DEF Diffed, Matches, Objects
    <3>. QED BY <2>1, <3>1, NamesTell DEF Ready
  <2>4. {Shape(Objects[c]) : c \in Olds(x.table)} = {Shape(file[x.raw].columns[d]) : d \in News(x.raw)}
      BY <1>4, <2>2, <2>3
  <2>5. \A c \in Olds(x.table) : \E d \in News(x.raw) : Shape(Objects[c]) = Shape(file[x.raw].columns[d])
      BY <2>4
  <2>6. \A d \in News(x.raw) : \E c \in Olds(x.table) : Shape(Objects[c]) = Shape(file[x.raw].columns[d])
      BY <2>4
  <2>7. \A c, d : Shape(Objects[c]) = Shape(file[x.raw].columns[d]) =>
          /\ Named(c, x.raw, d)
          /\ Old(c).type = file[x.raw].columns[d].type
          /\ Old(c).nullable = file[x.raw].columns[d].nullable
          /\ Old(c).default = file[x.raw].columns[d].default
      BY DEF Shape, Named, Old, Objects
  <2>8. Vanished(x.table, x.raw) = {} /\ Appeared(x.table, x.raw) = {}
      BY <2>5, <2>6, <2>7 DEF Vanished, Appeared
  <2>9. x.renamed = {} /\ x.dropped = {} /\ x.added = {}
      BY <2>1, <2>8 DEF Diffed
  <2>10. ASSUME NEW p \in x.retyped PROVE Retypes(p[1], Raw(x.raw, p[2])) = {}
    <3>1. p[1] \in Olds(x.table) /\ p[2] \in News(x.raw) /\ Named(p[1], x.raw, p[2])
        BY <2>1 DEF Diffed
    <3>2. PICK e \in News(x.raw) : Shape(Objects[p[1]]) = Shape(file[x.raw].columns[e])
        BY <2>5, <3>1
    <3>3. file[x.raw].columns[e].name = file[x.raw].columns[p[2]].name
        BY <2>7, <3>1, <3>2 DEF Named
    <3>4. e = p[2]
        BY <2>1, <3>1, <3>3, NamesTell DEF Ready
    <3>5. /\ Old(p[1]).type = Raw(x.raw, p[2]).type
          /\ Old(p[1]).nullable = Raw(x.raw, p[2]).nullable
          /\ Old(p[1]).default = Raw(x.raw, p[2]).default
        BY <2>1, <2>7, <3>1, <3>2, <3>4, GivenFile DEF Ready
    <3>. QED BY <3>5 DEF Retypes
  <2>11. Retyping(x) = {} /\ Renaming(x) = {} /\ Dropping(x) = {} /\ Adding(x, changed[i]) = {}
      BY <2>9, <2>10 DEF Retyping, Renaming, Dropping, Adding
  <2>. QED BY <2>11 DEF TableElements, x
<1>8. Blocks("change", results, changed, Len(results)) = {}
  <2>1. DOMAIN results = 1 .. Len(results)
      BY ListedPlaces DEF Ready, AllDiffed
  <2>. QED BY <1>7, <2>1 DEF Blocks, BlockElements
<1>9. Blocks("create", list, made, Len(list)) = {}
  <2>1. DOMAIN list = 1 .. Len(list) /\ ElementsOf(list) = {}
      BY <1>6, ListedPlaces DEF Planned
  <2>2. 1 .. Len(list) = {}
      BY <2>1 DEF ElementsOf
  <2>. QED BY <2>2 DEF Blocks
<1>10. ElementsOf(Operations) = {} /\ Listed(Operations)
    BY <1>5, <1>8, <1>9, ValidOperations DEF Planned
<1>11. DOMAIN Operations = {} /\ Operations \in Seq({})
    BY <1>10 DEF ElementsOf, Listed
<1>. QED BY <1>11

\* snapshot/diff.py:10: what replay of the operations makes is what the file says.
LEMMA FileIsReproduced ==
  ASSUME Ready
  PROVE  LET after == Seqs!FoldLeft(Apply, schema, Operations)
         IN  /\ ~after.broken
             /\ SchemaShape(after) = FileShape
             /\ \A c \in NamedInFile(schema) :
                  /\ c \in DOMAIN after.objects
                  /\ after.objects[c].name = schema.objects[c].name
             /\ SchemaShape(schema) = FileShape => Operations = <<>>
<1> DEFINE after == Seqs!FoldLeft(Apply, schema, Operations)
<1>1. PICK list, made, changed : Planned(list, made, changed)
    BY OperationsPlanned
<1>2. PICK now : after = Fine(now) /\ Made(Objects, ElementsOf(Operations), now)
    BY <1>1, OperationsMake
<1> HIDE DEF after
<1>3. Outcome(list, made, changed, now)
    BY <1>1, <1>2 DEF Outcome
<1>4. ~after.broken /\ after.objects = now
    BY <1>2, FineFields
<1>5. SchemaShape(after) = FileShape
    BY <1>2, <1>3, ShapeAfter
<1>6. \A c \in NamedInFile(schema) :
        c \in DOMAIN after.objects /\ after.objects[c].name = schema.objects[c].name
    BY <1>3, <1>4, NamedStay DEF Objects
<1>7. SchemaShape(schema) = FileShape => Operations = <<>>
    BY <1>1, UneditedIsEmpty
<1>. QED BY <1>4, <1>5, <1>6, <1>7 DEF after

----------------------------------------------------------------------------
(* Every matched table is diffed once.                                       *)

\* The matched tables that are diffed so far.
SoFar ==
  /\ todo \subseteq LastRaws \ UnmatchedRaws /\ Listed(results)
  /\ {results[i].raw : i \in DOMAIN results} = (LastRaws \ UnmatchedRaws) \ todo
  /\ \A i, j \in DOMAIN results : results[i].raw = results[j].raw => i = j
  /\ NamesAreUnique => \A i \in DOMAIN results : Diffed(results[i])

\* The invariant: while tables are diffed, those that are diffed and those
\* that are to be diffed are together the matched ones.
SyncInv ==
  /\ phase \in {"start", "tables", "columns", "done"}
  /\ phase # "done" => Given
  /\ phase = "start" => results = <<>>
  /\ phase = "columns" => raw \in todo /\ table \in LastTables /\ Matches(table, raw)
  /\ phase \in {"tables", "columns"} => SoFar

\* With unique names the detector compares all columns of a table.
LEMMA ResultIsDiffed ==
  ASSUME Given, NamesAreUnique, EachColumnOnce,
         raw \in LastRaws, table \in LastTables, Matches(table, raw)
  PROVE  Diffed(Result)
<1>1. LastRaws = DOMAIN file /\ LastTables = Tables(schema)
    BY NamesTell
<1>2. raw \in DOMAIN file
    BY <1>1
<1>3. OldColumns = Olds(table) /\ NewColumns = News(raw)
    BY DEF OldColumns, Olds, NewColumns, News
<1>4. \A d \in News(raw) : New(d).name = file[raw].columns[d].name
    BY <1>2, GivenFile DEF New
<1>5. LastOld = Olds(table)
  <2>1. Olds(table) \subseteq Nat
      BY GivenSchema DEF Olds, ColumnsOf, OfKind, Inside, Objects
  <2>2. \A c, e \in Olds(table) : Old(c).name = Old(e).name => e <= c
      BY <2>1, NamesTell
  <2>. QED BY <1>3, <2>2 DEF LastOld
<1>6. LastNew = News(raw)
  <2>1. News(raw) \subseteq Nat
      BY <1>2, PlacesInTable
  <2>2. \A d, e \in News(raw) : New(e).name = New(d).name => e <= d
      BY <1>2, <1>4, <2>1, NamesTell
  <2>. QED BY <1>3, <2>2 DEF LastNew
<1>7. \A c : \A d \in News(raw) : SameName(c, d) <=> Named(c, raw, d)
    BY <1>4 DEF SameName, Named
<1>8. UnmatchedOld = Vanished(table, raw) /\ UnmatchedNew = Appeared(table, raw)
    BY <1>5, <1>6, <1>7 DEF UnmatchedOld, UnmatchedNew, Vanished, Appeared
<1>9. {p \in LastOld \X LastNew : SameName(p[1], p[2])}
        = {p \in Olds(table) \X News(raw) : Named(p[1], raw, p[2])}
    BY <1>5, <1>6, <1>7
<1>10. /\ Confirmed \subseteq Vanished(table, raw) \X Appeared(table, raw)
       /\ \A p, q \in Confirmed : p[1] = q[1] <=> p[2] = q[2]
       /\ remainingOld = Vanished(table, raw) \ {p[1] : p \in Confirmed}
       /\ remainingNew = Appeared(table, raw) \ {p[2] : p \in Confirmed}
    BY <1>8 DEF EachColumnOnce
<1>11. /\ Result.table = table /\ Result.raw = raw
       /\ Result.retyped = {p \in LastOld \X LastNew : SameName(p[1], p[2])}
       /\ Result.renamed = Confirmed /\ Result.dropped = remainingOld /\ Result.added = remainingNew
    BY DEF Result
<1>. QED BY <1>1, <1>9, <1>10, <1>11 DEF Diffed

\* What has been diffed stays so while the schema and the file are the same.
LEMMA SameDiff ==
  ASSUME schema' = schema, file' = file
  PROVE  /\ LastRaws' = LastRaws /\ LastTables' = LastTables
         /\ UnmatchedRaws' = UnmatchedRaws /\ NamesAreUnique' = NamesAreUnique
         /\ \A t, r : Matches(t, r)' = Matches(t, r)
         /\ \A x : Diffed(x)' <=> Diffed(x)
         /\ Given' = Given
<1>1. LastRaws' = LastRaws /\ LastTables' = LastTables
    BY DEF LastRaws, LastTables, Tables, OfKind
<1>2. \A t, r : Matches(t, r)' = Matches(t, r)
    BY DEF Matches
<1>3. UnmatchedRaws' = UnmatchedRaws
    BY <1>1, <1>2 DEF UnmatchedRaws, Matches
<1>4. NamesAreUnique' = NamesAreUnique
    BY DEF NamesAreUnique
<1>5. \A x : Diffed(x)' <=> Diffed(x)
    BY DEF Diffed, Matches, Olds, News, Named, Old, Vanished, Appeared, Tables, ColumnsOf, OfKind, Inside
<1>6. Given' = Given
    BY DEF Given
<1>. QED BY <1>1, <1>2, <1>3, <1>4, <1>5, <1>6

\* Nothing else than these variables matters to it.
LEMMA SoFarKept ==
  ASSUME SoFar, schema' = schema, file' = file, todo' = todo, results' = results
  PROVE  SoFar'
BY SameDiff DEF SoFar

\* One table more.
LEMMA OneMoreDiffed ==
  ASSUME SyncInv, ColumnsOnce, EndTable
  PROVE  SoFar'
<1>1. /\ phase = "columns" /\ todo' = todo \ {raw} /\ results' = Append(results, Result)
      /\ schema' = schema /\ file' = file
    BY DEF EndTable, detectVars
<1>2. /\ SoFar /\ Given /\ raw \in todo /\ table \in LastTables /\ Matches(table, raw)
      /\ EachColumnOnce
    BY <1>1 DEF SyncInv, ColumnsOnce
<1>3. Result.raw = raw /\ raw \in LastRaws \ UnmatchedRaws
    BY <1>2 DEF Result, SoFar
<1>4. NamesAreUnique => Diffed(Result)
    BY <1>2, <1>3, ResultIsDiffed
<1> DEFINE n == Len(results) + 1
           longer == Append(results, Result)
<1>5. /\ Listed(longer) /\ DOMAIN longer = DOMAIN results \cup {n}
      /\ \A i \in DOMAIN results : longer[i] = results[i]
      /\ longer[n] = Result
    BY <1>2, ListedAppend DEF SoFar
<1> HIDE DEF n, longer
<1>6. \A i \in DOMAIN results : results[i].raw # raw
  <2>1. raw \notin {results[i].raw : i \in DOMAIN results}
      BY <1>2 DEF SoFar
  <2>. QED BY <2>1
<1>7. {longer[i].raw : i \in DOMAIN longer} = (LastRaws \ UnmatchedRaws) \ (todo \ {raw})
  <2>1. {longer[i].raw : i \in DOMAIN longer} = {results[i].raw : i \in DOMAIN results} \cup {raw}
      BY <1>3, <1>5
  <2>. QED BY <1>2, <1>3, <2>1 DEF SoFar
<1>8. \A i, j \in DOMAIN longer : longer[i].raw = longer[j].raw => i = j
    BY <1>2, <1>3, <1>5, <1>6 DEF SoFar
<1>9. NamesAreUnique => \A i \in DOMAIN longer : Diffed(longer[i])
    BY <1>2, <1>4, <1>5 DEF SoFar
<1>10. results' = longer
    BY <1>1 DEF longer
<1>11. todo' \subseteq LastRaws \ UnmatchedRaws
    BY <1>1, <1>2 DEF SoFar
<1>. QED BY <1>1, <1>5, <1>7, <1>8, <1>9, <1>10, <1>11, SameDiff DEF SoFar

\* Every step keeps the invariant.
LEMMA NextKeepsDiffs ==
  ASSUME SyncInv, ColumnsOnce, [Next]_syncVars
  PROVE  SyncInv'
<1>1. CASE DiffTables
  <2>1. /\ phase' = "tables" /\ todo' = LastRaws \ UnmatchedRaws /\ results' = results
        /\ schema' = schema /\ file' = file /\ Given /\ results = <<>>
      BY <1>1 DEF DiffTables, detectVars, SyncInv
  <2>2. DOMAIN results = {} /\ Listed(results)
      BY <2>1, EmptyListed
  <2>3. {results[i].raw : i \in DOMAIN results} = {}
      BY <2>2
  <2>4. SoFar'
      BY <2>1, <2>2, <2>3, SameDiff DEF SoFar
  <2>. QED BY <2>1, <2>4, SameDiff DEF SyncInv
<1>2. CASE AskColumn
  <2>1. /\ phase = "columns" /\ phase' = phase /\ todo' = todo /\ results' = results
        /\ UNCHANGED <<schema, file, table, raw>>
      BY <1>2 DEF AskColumn, Propose
  <2>2. SoFar'
      BY <2>1, SoFarKept DEF SyncInv
  <2>. QED BY <2>1, <2>2, SameDiff DEF SyncInv
<1>3. CASE EndTable
  <2>1. phase = "columns" /\ phase' = "tables" /\ schema' = schema /\ file' = file
      BY <1>3 DEF EndTable, detectVars
  <2>2. SoFar'
      BY <1>3, OneMoreDiffed
  <2>. QED BY <2>1, <2>2, SameDiff DEF SyncInv
<1>4. CASE Commit
    BY <1>4 DEF Commit, SyncInv
<1>5. ASSUME NEW r \in todo, BeginTable(r)
      PROVE  SyncInv'
  <2>1. /\ phase = "tables" /\ phase' = "columns" /\ todo' = todo /\ results' = results
      BY <1>5 DEF BeginTable
  <2>2. PICK t \in LastTables : Matches(t, r) /\ Begin(t, r)
      BY <1>5 DEF BeginTable
  <2>3. schema' = schema /\ file' = file /\ table' = t /\ raw' = r
      BY <2>2 DEF Begin
  <2>4. SoFar'
      BY <2>1, <2>3, SoFarKept DEF SyncInv
  <2>5. Matches(t, r)'
      BY <2>2, <2>3, SameDiff
  <2>6. Matches(table, raw)'
      BY <2>3, <2>5 DEF Matches
  <2>. QED BY <2>1, <2>2, <2>3, <2>4, <2>6, SameDiff DEF SyncInv
<1>6. CASE UNCHANGED syncVars
  <2>1. /\ phase' = phase /\ todo' = todo /\ results' = results /\ schema' = schema /\ file' = file
        /\ table' = table /\ raw' = raw
      BY <1>6 DEF syncVars
  <2>2. SoFar => SoFar'
      BY <2>1, SoFarKept
  <2>3. Matches(table, raw)' = Matches(table, raw)
      BY <2>1 DEF Matches
  <2>. QED BY <2>1, <2>2, <2>3, SameDiff DEF SyncInv
<1>. QED BY <1>1, <1>2, <1>3, <1>4, <1>5, <1>6 DEF Next

\* When nothing is left to do, everything is ready to be committed.
LEMMA InvReproduces ==
  ASSUME SyncInv
  PROVE  FileReproduced
<1> SUFFICES ASSUME phase = "tables", todo = {}, NamesAreUnique
             PROVE  LET after == Seqs!FoldLeft(Apply, schema, Operations)
                    IN  /\ ~after.broken
                        /\ SchemaShape(after) = FileShape
                        /\ \A c \in NamedInFile(schema) :
                             /\ c \in DOMAIN after.objects
                             /\ after.objects[c].name = schema.objects[c].name
                        /\ SchemaShape(schema) = FileShape => Operations = <<>>
    BY DEF FileReproduced
<1>1. Given /\ SoFar
    BY DEF SyncInv
<1>2. AllDiffed
    BY <1>1 DEF SoFar, AllDiffed
<1>3. Ready
    BY <1>1, <1>2 DEF Ready
<1>. QED BY <1>3, FileIsReproduced

\* snapshot/diff.py:10 "there's no ambiguity about identity here": whatever the
\* schema, the file, the scores and the answers, replaying what a sync commits
\* never raises and gives the tables and columns of the file, a column whose
\* name the file still has stays the column it was, and an unedited file gives
\* no operation.
THEOREM SyncReproducesFile == Spec => []FileReproduced
<1>1. Init => SyncInv /\ ColumnsOnce
    BY DEF Init, SyncInv, Given, ColumnsOnce
<1>2. SyncInv /\ ColumnsOnce /\ [Next]_syncVars => (SyncInv /\ ColumnsOnce)'
    BY NextKeepsDiffs, NextKeepsColumns
<1>3. SyncInv => FileReproduced
    BY InvReproduces
<1>. QED BY <1>1, <1>2, <1>3, PTL DEF Spec

----------------------------------------------------------------------------
(* How far two names are apart.  The table that the code computes row by row  *)
(* is known by its first row and column and by what each cell has to do with  *)
(* its three neighbours.  From these: no edit changes a distance by more than *)
(* one, so what k edits reach is no further than k; and what the table says   *)
(* is reached in as many edits.                                               *)

\* A line of the table, and the whole table.
IsLine(a, b, i, previous, line) ==
  line = [j \in 0 .. Len(b) |->
            IF j = 0 THEN i
            ELSE Smallest({line[j - 1] + 1, previous[j] + 1,
                           previous[j - 1] + (IF a[i] = b[j] THEN 0 ELSE 1)})]

Line(a, b, i, previous) == CHOOSE line : IsLine(a, b, i, previous, line)

IsRows(a, b, rows) ==
  rows = [i \in 0 .. Len(a) |-> IF i = 0 THEN [j \in 0 .. Len(b) |-> j]
                                ELSE Line(a, b, i, rows[i - 1])]

Rows(a, b) == CHOOSE rows : IsRows(a, b, rows)

\* What the code returns is the last value of the last line.
LEMMA LevenshteinIsCorner ==
  ASSUME NEW a, NEW b
  PROVE  Levenshtein(a, b) = Rows(a, b)[Len(a)][Len(b)]
BY DEF Levenshtein, Rows, IsRows, Line, IsLine

\* A value for each number, each made from the one before.
AreIterates(S, first, next, f) ==
  f \in [Nat -> S] /\ f[0] = first /\ \A k \in Nat : f[k + 1] = next[k][f[k]]

\* There are such values: by induction.
LEMMA Iterates ==
  ASSUME NEW S, NEW first \in S, NEW next \in [Nat -> [S -> S]]
  PROVE  \E f : AreIterates(S, first, next, f)
<1> DEFINE Upto(m, f) == /\ f[0] = first
                         /\ \A k \in 0 .. m : f[k] \in S
                         /\ \A k \in 0 .. m : k < m => f[k + 1] = next[k][f[k]]
           T == {m \in Nat : \E f : Upto(m, f)}
<1>1. 0 \in T
  <2>1. Upto(0, [k \in {0} |-> first])
    OBVIOUS
  <2>. QED BY <2>1
<1>2. ASSUME NEW m \in Nat, m \in T PROVE m + 1 \in T
  <2>1. PICK f : Upto(m, f)
    BY <1>2
  <2> DEFINE g == [k \in 0 .. (m + 1) |-> IF k = m + 1 THEN next[m][f[m]] ELSE f[k]]
  <2>2. g[0] = first
    BY <2>1
  <2>3. \A k \in 0 .. (m + 1) : g[k] \in S
    BY <2>1
  <2>4. ASSUME NEW k \in 0 .. (m + 1), k < m + 1 PROVE g[k + 1] = next[k][g[k]]
    <3>1. g[k] = f[k] /\ k \in 0 .. m
      BY <2>4
    <3>2. CASE k = m
      BY <3>1, <3>2
    <3>3. CASE k < m
      BY <2>1, <3>1, <3>3
    <3>. QED BY <2>4, <3>1, <3>2, <3>3
  <2> HIDE DEF g
  <2>5. Upto(m + 1, g)
    BY <2>2, <2>3, <2>4
  <2>. QED BY <2>5
<1>3. Nat \subseteq T
  <2> HIDE DEF T
  <2>. QED BY <1>1, <1>2, SetInduction
<1> DEFINE h(m) == CHOOSE f : Upto(m, f)
           f == [n \in Nat |-> h(n)[n]]
<1>4. \A m \in Nat : Upto(m, h(m))
  BY <1>3
<1> HIDE DEF h, T
<1>5. ASSUME NEW m \in Nat PROVE h(m + 1)[m] = h(m)[m]
  <2> DEFINE U == {k \in Nat : k <= m => h(m + 1)[k] = h(m)[k]}
  <2>0. m + 1 \in Nat /\ Upto(m, h(m)) /\ Upto(m + 1, h(m + 1))
    BY <1>4
  <2>1. 0 \in U
    BY <2>0
  <2>2. ASSUME NEW k \in Nat, k \in U PROVE k + 1 \in U
    <3>1. CASE k + 1 <= m
      <4>1. k < m /\ k < m + 1 /\ k \in 0 .. m /\ k \in 0 .. (m + 1) /\ h(m + 1)[k] = h(m)[k]
        BY <2>2, <3>1
      <4>. QED BY <2>0, <4>1
    <3>. QED BY <3>1
  <2>3. Nat \subseteq U
    <3> HIDE DEF U
    <3>. QED BY <2>1, <2>2, SetInduction
  <2>. QED BY <2>3
<1>6. f[0] = first
  BY <1>4
<1>7. ASSUME NEW n \in Nat PROVE f[n] \in S /\ f[n + 1] = next[n][f[n]]
  <2>1. n + 1 \in Nat /\ n \in 0 .. n /\ n \in 0 .. (n + 1) /\ n < n + 1
    OBVIOUS
  <2>2. h(n)[n] \in S
    BY <1>4, <2>1
  <2>3. h(n + 1)[n + 1] = next[n][h(n + 1)[n]]
    BY <1>4, <2>1
  <2>. QED BY <2>1, <2>2, <2>3, <1>5
<1>8. f \in [Nat -> S]
  BY <1>7
<1> HIDE DEF f
<1>. QED BY <1>6, <1>7, <1>8 DEF AreIterates

\* The least of the three ways to a cell.
LEMMA SmallestOfThree ==
  ASSUME NEW x \in Nat, NEW y \in Nat, NEW z \in Nat
  PROVE  LET s == Smallest({x, y, z})
         IN  /\ s \in Nat /\ s <= x /\ s <= y /\ s <= z
             /\ s = x \/ s = y \/ s = z
<1>1. \E s \in {x, y, z} : \A t \in {x, y, z} : s <= t
  <2>1. CASE x <= y /\ x <= z
    BY <2>1
  <2>2. CASE y <= x /\ y <= z
    BY <2>2
  <2>3. CASE z <= x /\ z <= y
    BY <2>3
  <2>. QED BY <2>1, <2>2, <2>3
<1>. QED BY <1>1 DEF Smallest

\* What it costs to have letter j of b for letter i of a.
Substitute(a, b, i, j) == IF a[i] = b[j] THEN 0 ELSE 1

\* What is known of the table.
IsTable(a, b, D) ==
  /\ \A i \in 0 .. Len(a) : \A j \in 0 .. Len(b) : D[i][j] \in Nat
  /\ \A j \in 0 .. Len(b) : D[0][j] = j
  /\ \A i \in 0 .. Len(a) : D[i][0] = i
  /\ \A i \in 1 .. Len(a) : \A j \in 1 .. Len(b) :
       /\ D[i][j] <= D[i][j - 1] + 1
       /\ D[i][j] <= D[i - 1][j] + 1
       /\ D[i][j] <= D[i - 1][j - 1] + Substitute(a, b, i, j)
       /\ \/ D[i][j] = D[i][j - 1] + 1
          \/ D[i][j] = D[i - 1][j] + 1
          \/ D[i][j] = D[i - 1][j - 1] + Substitute(a, b, i, j)

\* The recursion within a line and the one over the lines have a solution.
LEMMA LineExists ==
  ASSUME NEW a, NEW b, NEW i \in Nat, Len(b) \in Nat, NEW previous \in [0 .. Len(b) -> Nat]
  PROVE  /\ IsLine(a, b, i, previous, Line(a, b, i, previous))
         /\ Line(a, b, i, previous) \in [0 .. Len(b) -> Nat]
<1> DEFINE m == Len(b)
           least(j, x) == Smallest({x + 1, previous[j] + 1, previous[j - 1] + Substitute(a, b, i, j)})
           next == [k \in Nat |-> [x \in Nat |-> IF k < m THEN least(k + 1, x) ELSE x]]
<1>1. ASSUME NEW j \in 1 .. m, NEW x \in Nat PROVE least(j, x) \in Nat
  <2>1. j \in 0 .. m /\ j - 1 \in 0 .. m /\ Substitute(a, b, i, j) \in Nat
    BY DEF Substitute
  <2>2. previous[j] + 1 \in Nat /\ previous[j - 1] + Substitute(a, b, i, j) \in Nat /\ x + 1 \in Nat
    BY <2>1
  <2>. QED BY <2>2, SmallestOfThree
<1> HIDE DEF least
<1>2. next \in [Nat -> [Nat -> Nat]]
  <2>1. ASSUME NEW k \in Nat, NEW x \in Nat
        PROVE  (IF k < m THEN least(k + 1, x) ELSE x) \in Nat
    <3>1. CASE k < m
      <4>1. k + 1 \in 1 .. m
        BY <3>1
      <4>. QED BY <1>1, <3>1, <4>1
    <3>. QED BY <3>1
  <2>. QED BY <2>1
<1>a. \A k \in Nat : \A x \in Nat : next[k][x] = IF k < m THEN least(k + 1, x) ELSE x
  OBVIOUS
<1> HIDE DEF next
<1>b. PICK f : AreIterates(Nat, i, next, f)
  BY <1>2, Iterates, Zenon
<1>3. f \in [Nat -> Nat] /\ f[0] = i /\ \A k \in Nat : f[k + 1] = next[k][f[k]]
  BY <1>b DEF AreIterates
<1> DEFINE line == [j \in 0 .. m |-> f[j]]
<1>4. ASSUME NEW j \in 0 .. m, j # 0 PROVE line[j] = least(j, line[j - 1])
  <2>1. j - 1 \in Nat /\ j - 1 < m /\ (j - 1) + 1 = j /\ j - 1 \in 0 .. m
    BY <1>4
  <2>2. f[j] = next[j - 1][f[j - 1]]
    BY <1>3, <2>1
  <2>3. f[j - 1] \in Nat
    BY <1>3, <2>1
  <2>4. f[j] = least(j, f[j - 1])
    BY <2>1, <2>2, <2>3, <1>a
  <2>. QED BY <2>1, <2>4
<1>5. line \in [0 .. m -> Nat]
  BY <1>3
<1>6. line = [j \in 0 .. m |-> IF j = 0 THEN i ELSE least(j, line[j - 1])]
  <2>1. line[0] = i
    BY <1>3
  <2> HIDE DEF line
  <2>. QED BY <1>4, <1>5, <2>1
<1> HIDE DEF line
<1>7. IsLine(a, b, i, previous, line)
  BY <1>6 DEF IsLine, least, Substitute
<1>8. IsLine(a, b, i, previous, Line(a, b, i, previous))
  BY <1>7 DEF Line
<1> DEFINE l == Line(a, b, i, previous)
<1>9. l = [j \in 0 .. m |-> IF j = 0 THEN i ELSE least(j, l[j - 1])]
  BY <1>8 DEF IsLine, least, Substitute
<1> HIDE DEF l
<1>10. \A j \in 0 .. m : l[j] \in Nat
  <2> DEFINE T == {j \in Nat : j <= m => l[j] \in Nat}
  <2>1. 0 \in T
    BY <1>9
  <2>2. ASSUME NEW j \in Nat, j \in T PROVE j + 1 \in T
    <3>1. CASE j + 1 <= m
      <4>1. j + 1 \in 0 .. m /\ j + 1 # 0 /\ (j + 1) - 1 = j /\ l[j] \in Nat /\ j + 1 \in 1 .. m
        BY <2>2, <3>1
      <4>2. l[j + 1] = least(j + 1, l[j])
        BY <1>9, <4>1
      <4>3. least(j + 1, l[j]) \in Nat
        BY <1>1, <4>1
      <4>4. l[j + 1] \in Nat
        BY <4>2, <4>3
      <4>. QED BY <4>4
    <3>. QED BY <3>1
  <2>3. Nat \subseteq T
    <3> HIDE DEF T
    <3>. QED BY <2>1, <2>2, SetInduction
  <2>. QED BY <2>3
<1>11. l \in [0 .. m -> Nat]
  BY <1>9, <1>10
<1>. QED BY <1>8, <1>11 DEF l

LEMMA RowsExist ==
  ASSUME NEW a, NEW b, Len(a) \in Nat, Len(b) \in Nat
  PROVE  /\ IsRows(a, b, Rows(a, b))
         /\ \A i \in 0 .. Len(a) : Rows(a, b)[i] \in [0 .. Len(b) -> Nat]
<1> DEFINE n == Len(a)
           Lines == [0 .. Len(b) -> Nat]
           first == [j \in 0 .. Len(b) |-> j]
           next == [k \in Nat |-> [x \in Lines |-> Line(a, b, k + 1, x)]]
<1>1. ASSUME NEW k \in Nat, NEW x \in Lines PROVE Line(a, b, k + 1, x) \in Lines
  BY LineExists
<1>2. next \in [Nat -> [Lines -> Lines]] /\ first \in Lines
  BY <1>1
<1>a. \A k \in Nat : \A x \in Lines : next[k][x] = Line(a, b, k + 1, x)
  OBVIOUS
<1> HIDE DEF Lines, first, next
<1>b. PICK f : AreIterates(Lines, first, next, f)
  BY <1>2, Iterates, Zenon
<1>3. f \in [Nat -> Lines] /\ f[0] = first /\ \A k \in Nat : f[k + 1] = next[k][f[k]]
  BY <1>b DEF AreIterates
<1> DEFINE rows == [i \in 0 .. n |-> f[i]]
<1>4. ASSUME NEW i \in 0 .. n, i # 0 PROVE rows[i] = Line(a, b, i, rows[i - 1])
  <2>1. i - 1 \in Nat /\ (i - 1) + 1 = i /\ i - 1 \in 0 .. n
    BY <1>4
  <2>2. f[i] = next[i - 1][f[i - 1]]
    BY <1>3, <2>1
  <2>3. f[i - 1] \in Lines
    BY <1>3, <2>1
  <2>. QED BY <2>1, <2>2, <2>3, <1>a
<1>5. rows = [i \in 0 .. n |-> IF i = 0 THEN first ELSE Line(a, b, i, rows[i - 1])]
  <2>1. rows[0] = first
    BY <1>3
  <2>2. rows = [i \in 0 .. n |-> rows[i]]
    OBVIOUS
  <2> HIDE DEF rows
  <2>. QED BY <1>4, <2>1, <2>2
<1> HIDE DEF rows
<1>6. IsRows(a, b, rows)
  BY <1>5 DEF IsRows, first
<1>7. IsRows(a, b, Rows(a, b))
  BY <1>6 DEF Rows
<1> DEFINE r == Rows(a, b)
<1>8. r = [i \in 0 .. n |-> IF i = 0 THEN first ELSE Line(a, b, i, r[i - 1])]
  BY <1>7 DEF IsRows, first
<1> HIDE DEF r
<1>9. \A i \in 0 .. n : r[i] \in Lines
  <2> DEFINE T == {i \in Nat : i <= n => r[i] \in Lines}
  <2>1. 0 \in T
    BY <1>2, <1>8
  <2>2. ASSUME NEW i \in Nat, i \in T PROVE i + 1 \in T
    <3>1. CASE i + 1 <= n
      <4>1. i + 1 \in 0 .. n /\ i + 1 # 0 /\ (i + 1) - 1 = i /\ r[i] \in Lines
        BY <2>2, <3>1
      <4>2. r[i + 1] = Line(a, b, i + 1, r[i])
        BY <1>8, <4>1
      <4>. QED BY <1>1, <4>1, <4>2
    <3>. QED BY <3>1
  <2>3. Nat \subseteq T
    <3> HIDE DEF T
    <3>. QED BY <2>1, <2>2, SetInduction
  <2>. QED BY <2>3
<1>. QED BY <1>7, <1>9 DEF r, Lines

\* So what the two rows compute is such a table.
LEMMA RowsAreTable ==
  ASSUME NEW a, NEW b, Len(a) \in Nat, Len(b) \in Nat
  PROVE  IsTable(a, b, Rows(a, b))
<1> DEFINE D == Rows(a, b)
<1>1. /\ D = [i \in 0 .. Len(a) |-> IF i = 0 THEN [j \in 0 .. Len(b) |-> j]
                                    ELSE Line(a, b, i, D[i - 1])]
      /\ \A i \in 0 .. Len(a) : D[i] \in [0 .. Len(b) -> Nat]
  BY RowsExist DEF IsRows
<1> HIDE DEF D
<1>2. \A i \in 0 .. Len(a) : \A j \in 0 .. Len(b) : D[i][j] \in Nat
  BY <1>1
<1>3. \A j \in 0 .. Len(b) : D[0][j] = j
  <2>1. D[0] = [j \in 0 .. Len(b) |-> j]
    BY <1>1
  <2>. QED BY <2>1
<1>4. ASSUME NEW i \in 1 .. Len(a)
      PROVE  D[i] = [j \in 0 .. Len(b) |->
                IF j = 0 THEN i
                ELSE Smallest({D[i][j - 1] + 1, D[i - 1][j] + 1,
                               D[i - 1][j - 1] + Substitute(a, b, i, j)})]
  <2>1. i \in 0 .. Len(a) /\ i # 0 /\ i \in Nat /\ i - 1 \in 0 .. Len(a)
    OBVIOUS
  <2>2. D[i] = Line(a, b, i, D[i - 1]) /\ D[i - 1] \in [0 .. Len(b) -> Nat]
    BY <1>1, <2>1
  <2>3. IsLine(a, b, i, D[i - 1], D[i])
    BY <2>1, <2>2, LineExists
  <2>. QED BY <2>3 DEF IsLine, Substitute
<1>5. \A i \in 0 .. Len(a) : D[i][0] = i
  <2> TAKE i \in 0 .. Len(a)
  <2>1. CASE i = 0
    BY <1>3, <2>1
  <2>2. CASE i # 0
    <3>1. i \in 1 .. Len(a) /\ 0 \in 0 .. Len(b)
      BY <2>2
    <3>. QED BY <3>1, <1>4
  <2>. QED BY <2>1, <2>2
<1>6. ASSUME NEW i \in 1 .. Len(a), NEW j \in 1 .. Len(b)
      PROVE  /\ D[i][j] <= D[i][j - 1] + 1
             /\ D[i][j] <= D[i - 1][j] + 1
             /\ D[i][j] <= D[i - 1][j - 1] + Substitute(a, b, i, j)
             /\ \/ D[i][j] = D[i][j - 1] + 1
                \/ D[i][j] = D[i - 1][j] + 1
                \/ D[i][j] = D[i - 1][j - 1] + Substitute(a, b, i, j)
  <2>1. /\ i \in 0 .. Len(a) /\ i - 1 \in 0 .. Len(a) /\ j \in 0 .. Len(b) /\ j - 1 \in 0 .. Len(b)
        /\ j # 0
    OBVIOUS
  <2>2. D[i][j - 1] \in Nat /\ D[i - 1][j] \in Nat /\ D[i - 1][j - 1] \in Nat
    BY <1>2, <2>1
  <2>3. Substitute(a, b, i, j) \in Nat
    BY DEF Substitute
  <2>4. D[i][j] = Smallest({D[i][j - 1] + 1, D[i - 1][j] + 1,
                            D[i - 1][j - 1] + Substitute(a, b, i, j)})
    BY <1>4, <2>1
  <2>5. /\ D[i][j - 1] + 1 \in Nat /\ D[i - 1][j] + 1 \in Nat
        /\ D[i - 1][j - 1] + Substitute(a, b, i, j) \in Nat
    <3> DEFINE x == D[i][j - 1]
               y == D[i - 1][j]
               z == D[i - 1][j - 1]
               c == Substitute(a, b, i, j)
    <3>1. x \in Nat /\ y \in Nat /\ z \in Nat /\ c \in Nat
      BY <2>2, <2>3
    <3> HIDE DEF x, y, z, c
    <3>2. x + 1 \in Nat /\ y + 1 \in Nat /\ z + c \in Nat
      BY <3>1
    <3>. QED BY <3>2 DEF x, y, z, c
  <2> DEFINE x == D[i][j - 1] + 1
             y == D[i - 1][j] + 1
             z == D[i - 1][j - 1] + Substitute(a, b, i, j)
             s == D[i][j]
  <2>6. x \in Nat /\ y \in Nat /\ z \in Nat /\ s = Smallest({x, y, z})
    BY <2>4, <2>5
  <2> HIDE DEF x, y, z, s
  <2>7. s <= x /\ s <= y /\ s <= z /\ (s = x \/ s = y \/ s = z)
    BY <2>6, SmallestOfThree
  <2>. QED BY <2>7 DEF x, y, z, s
<1>. QED BY <1>2, <1>3, <1>5, <1>6 DEF IsTable, D

\* A cell d of the table, with its neighbours to the left, above and before,
\* and what the substitution costs.
IsCell(d, x, y, z, c) ==
  /\ d \in Nat /\ x \in Nat /\ y \in Nat /\ z \in Nat /\ c \in {0, 1}
  /\ d <= x + 1 /\ d <= y + 1 /\ d <= z + c
  /\ d = x + 1 \/ d = y + 1 \/ d = z + c

\* The table has no other cells.
LEMMA TableCell ==
  ASSUME NEW a, NEW b, NEW D, IsTable(a, b, D), Len(a) \in Nat, Len(b) \in Nat,
         NEW i \in 0 .. Len(a), NEW j \in 0 .. Len(b), i + 1 <= Len(a), j + 1 <= Len(b)
  PROVE  IsCell(D[i + 1][j + 1], D[i + 1][j], D[i][j + 1], D[i][j],
                Substitute(a, b, i + 1, j + 1))
<1>1. /\ i + 1 \in 1 .. Len(a) /\ i + 1 \in 0 .. Len(a) /\ (i + 1) - 1 = i
      /\ j + 1 \in 1 .. Len(b) /\ j + 1 \in 0 .. Len(b) /\ (j + 1) - 1 = j
  OBVIOUS
<1>2. /\ D[i + 1][j + 1] \in Nat /\ D[i + 1][j] \in Nat /\ D[i][j + 1] \in Nat /\ D[i][j] \in Nat
  BY <1>1 DEF IsTable
<1>3. Substitute(a, b, i + 1, j + 1) \in {0, 1}
  BY DEF Substitute
<1>4. LET p == i + 1
          q == j + 1
      IN  /\ D[p][q] <= D[p][q - 1] + 1
          /\ D[p][q] <= D[p - 1][q] + 1
          /\ D[p][q] <= D[p - 1][q - 1] + Substitute(a, b, p, q)
          /\ \/ D[p][q] = D[p][q - 1] + 1
             \/ D[p][q] = D[p - 1][q] + 1
             \/ D[p][q] = D[p - 1][q - 1] + Substitute(a, b, p, q)
  BY <1>1, Zenon DEF IsTable
<1>. QED BY <1>1, <1>2, <1>3, <1>4, Zenon DEF IsCell

\* Beginnings of i and j letters are at most as far apart as the longer is long.
LEMMA DistanceBounded ==
  ASSUME NEW a, NEW b, NEW D, IsTable(a, b, D), Len(a) \in Nat, Len(b) \in Nat
  PROVE  \A i \in 0 .. Len(a) : \A j \in 0 .. Len(b) : D[i][j] <= i \/ D[i][j] <= j
<1> DEFINE T == {i \in Nat : i <= Len(a) => \A j \in 0 .. Len(b) : D[i][j] <= i \/ D[i][j] <= j}
<1>1. 0 \in T
  BY DEF IsTable
<1>2. ASSUME NEW i \in Nat, i \in T PROVE i + 1 \in T
  <2> SUFFICES ASSUME i + 1 <= Len(a), NEW j \in 0 .. Len(b)
               PROVE  D[i + 1][j] <= i + 1 \/ D[i + 1][j] <= j
    OBVIOUS
  <2>1. CASE j = 0
    BY <2>1 DEF IsTable
  <2>2. CASE j # 0
    <3>1. i \in 0 .. Len(a) /\ j - 1 \in 0 .. Len(b) /\ (j - 1) + 1 = j
      BY <2>2
    <3>2. D[i][j - 1] <= i \/ D[i][j - 1] <= j - 1
      BY <1>2, <3>1
    <3>3. IsCell(D[i + 1][j], D[i + 1][j - 1], D[i][j], D[i][j - 1], Substitute(a, b, i + 1, j))
      <4>1. (j - 1) + 1 <= Len(b)
        BY <3>1
      <4>2. IsCell(D[i + 1][(j - 1) + 1], D[i + 1][j - 1], D[i][(j - 1) + 1], D[i][j - 1],
                   Substitute(a, b, i + 1, (j - 1) + 1))
        BY <3>1, <4>1, TableCell
      <4>. QED BY <3>1, <4>2
    <3> DEFINE d == D[i + 1][j]
               z == D[i][j - 1]
               c == Substitute(a, b, i + 1, j)
    <3>4. d \in Nat /\ z \in Nat /\ c \in {0, 1} /\ d <= z + c
      BY <3>3 DEF IsCell
    <3>5. z <= i \/ z <= j - 1
      BY <3>2
    <3> HIDE DEF d, z, c
    <3>6. d <= i + 1 \/ d <= j
      BY <3>4, <3>5
    <3>. QED BY <3>6 DEF d
  <2>. QED BY <2>1, <2>2
<1>3. Nat \subseteq T
  <2> HIDE DEF T
  <2>. QED BY <1>1, <1>2, SetInduction
<1>. QED BY <1>3

\* A name is at no distance from itself.
LEMMA NoDistance ==
  ASSUME NEW a, NEW D, IsTable(a, a, D), Len(a) \in Nat
  PROVE  \A i \in 0 .. Len(a) : D[i][i] = 0
<1> DEFINE T == {i \in Nat : i <= Len(a) => D[i][i] = 0}
<1>1. 0 \in T
  BY DEF IsTable
<1>2. ASSUME NEW i \in Nat, i \in T PROVE i + 1 \in T
  <2> SUFFICES ASSUME i + 1 <= Len(a) PROVE D[i + 1][i + 1] = 0
    OBVIOUS
  <2>1. i \in 0 .. Len(a) /\ D[i][i] = 0
    BY <1>2
  <2>2. IsCell(D[i + 1][i + 1], D[i + 1][i], D[i][i + 1], D[i][i], Substitute(a, a, i + 1, i + 1))
    BY <2>1, TableCell
  <2>3. Substitute(a, a, i + 1, i + 1) = 0
    BY DEF Substitute
  <2> DEFINE d == D[i + 1][i + 1]
  <2>4. d \in Nat /\ d <= 0 + 0
    BY <2>1, <2>2, <2>3 DEF IsCell
  <2> HIDE DEF d
  <2>5. d = 0
    BY <2>4
  <2>. QED BY <2>5 DEF d
<1>3. Nat \subseteq T
  <2> HIDE DEF T
  <2>. QED BY <1>1, <1>2, SetInduction
<1>. QED BY <1>3

\* One letter less is at most one edit further.
LEMMA ShorterIsNear ==
  ASSUME NEW a, NEW b, NEW D, IsTable(a, b, D), Len(a) \in Nat, Len(b) \in Nat
  PROVE  \A i \in 0 .. Len(a) : \A j \in 1 .. Len(b) : D[i][j - 1] <= D[i][j] + 1
<1> DEFINE T == {i \in Nat : i <= Len(a) => \A j \in 1 .. Len(b) : D[i][j - 1] <= D[i][j] + 1}
<1>1. 0 \in T
  <2>1. ASSUME NEW j \in 1 .. Len(b) PROVE D[0][j - 1] <= D[0][j] + 1
    <3>1. j - 1 \in 0 .. Len(b) /\ j \in 0 .. Len(b)
      OBVIOUS
    <3>. QED BY <3>1 DEF IsTable
  <2>. QED BY <2>1
<1>2. ASSUME NEW i \in Nat, i \in T PROVE i + 1 \in T
  <2> SUFFICES ASSUME i + 1 <= Len(a), NEW j \in 1 .. Len(b)
               PROVE  D[i + 1][j - 1] <= D[i + 1][j] + 1
    OBVIOUS
  <2>1. i \in 0 .. Len(a) /\ j - 1 \in 0 .. Len(b) /\ (j - 1) + 1 = j /\ D[i][j - 1] <= D[i][j] + 1
    BY <1>2
  <2>2. D[i + 1][j - 1] <= D[i][j - 1] + 1
    <3>1. CASE j = 1
      <4>1. D[i + 1][0] = i + 1 /\ D[i][0] = i
        BY <2>1 DEF IsTable
      <4>. QED BY <3>1, <4>1
    <3>2. CASE j # 1
      <4>1. j - 2 \in 0 .. Len(b) /\ (j - 2) + 1 = j - 1 /\ (j - 2) + 1 <= Len(b)
        BY <3>2
      <4>2. IsCell(D[i + 1][(j - 2) + 1], D[i + 1][j - 2], D[i][(j - 2) + 1], D[i][j - 2],
                   Substitute(a, b, i + 1, (j - 2) + 1))
        BY <2>1, <4>1, TableCell
      <4>3. D[i + 1][(j - 2) + 1] <= D[i][(j - 2) + 1] + 1
        BY <4>2 DEF IsCell
      <4>. QED BY <4>1, <4>3
    <3>. QED BY <3>1, <3>2
  <2>3. IsCell(D[i + 1][j], D[i + 1][j - 1], D[i][j], D[i][j - 1], Substitute(a, b, i + 1, j))
    <3>1. (j - 1) + 1 <= Len(b)
      BY <2>1
    <3>2. IsCell(D[i + 1][(j - 1) + 1], D[i + 1][j - 1], D[i][(j - 1) + 1], D[i][j - 1],
                 Substitute(a, b, i + 1, (j - 1) + 1))
      BY <2>1, <3>1, TableCell
    <3>. QED BY <2>1, <3>2
  <2> DEFINE d == D[i + 1][j]
             x == D[i + 1][j - 1]
             y == D[i][j]
             z == D[i][j - 1]
             c == Substitute(a, b, i + 1, j)
  <2>4. IsCell(d, x, y, z, c) /\ x <= z + 1 /\ z <= y + 1
    BY <2>1, <2>2, <2>3
  <2> HIDE DEF d, x, y, z, c
  <2>5. x <= d + 1
    BY <2>4 DEF IsCell
  <2>. QED BY <2>5 DEF x, d
<1>3. Nat \subseteq T
  <2> HIDE DEF T
  <2>. QED BY <1>1, <1>2, SetInduction
<1>. QED BY <1>3

\* Words with the same first letters, tables with the same first columns.
Agree(v, w, m) == \A r \in 1 .. m : v[r] = w[r]

SameColumns(a, D, E, m) == \A j \in 0 .. m : \A i \in 0 .. Len(a) : E[i][j] = D[i][j]

\* Two words that begin alike: the first columns of their tables are the same.
LEMMA SameBeginning ==
  ASSUME NEW a, NEW v, NEW w, NEW D, NEW E, IsTable(a, w, D), IsTable(a, v, E),
         Len(a) \in Nat, Len(v) \in Nat, Len(w) \in Nat,
         NEW m \in Nat, m <= Len(v), m <= Len(w), Agree(v, w, m)
  PROVE  SameColumns(a, D, E, m)
<1>a. \A r \in 1 .. m : v[r] = w[r]
  BY DEF Agree
<1> DEFINE T == {j \in Nat : j <= m => \A i \in 0 .. Len(a) : E[i][j] = D[i][j]}
<1>1. 0 \in T
  BY DEF IsTable
<1>2. ASSUME NEW j \in Nat, j \in T PROVE j + 1 \in T
  <2> SUFFICES ASSUME j + 1 <= m PROVE \A i \in 0 .. Len(a) : E[i][j + 1] = D[i][j + 1]
    OBVIOUS
  <2> DEFINE U == {i \in Nat : i <= Len(a) => E[i][j + 1] = D[i][j + 1]}
  <2>0. /\ j + 1 <= Len(v) /\ j + 1 <= Len(w) /\ v[j + 1] = w[j + 1]
        /\ j \in 0 .. Len(v) /\ j \in 0 .. Len(w)
        /\ \A i \in 0 .. Len(a) : E[i][j] = D[i][j]
    BY <1>2, <1>a
  <2>1. 0 \in U
    BY <2>0 DEF IsTable
  <2>2. ASSUME NEW i \in Nat, i \in U PROVE i + 1 \in U
    <3> SUFFICES ASSUME i + 1 <= Len(a) PROVE E[i + 1][j + 1] = D[i + 1][j + 1]
      OBVIOUS
    <3>1. /\ i \in 0 .. Len(a) /\ E[i][j + 1] = D[i][j + 1]
          /\ E[i + 1][j] = D[i + 1][j] /\ E[i][j] = D[i][j]
      BY <2>0, <2>2
    <3>2. Substitute(a, v, i + 1, j + 1) = Substitute(a, w, i + 1, j + 1)
      BY <2>0 DEF Substitute
    <3> DEFINE x == D[i + 1][j]
               y == D[i][j + 1]
               z == D[i][j]
               c == Substitute(a, w, i + 1, j + 1)
               d == D[i + 1][j + 1]
               e == E[i + 1][j + 1]
    <3>3. IsCell(d, x, y, z, c)
      BY <2>0, <3>1, TableCell
    <3>4. IsCell(e, x, y, z, c)
      <4>1. IsCell(E[i + 1][j + 1], E[i + 1][j], E[i][j + 1], E[i][j],
                   Substitute(a, v, i + 1, j + 1))
        BY <2>0, <3>1, TableCell
      <4>. QED BY <4>1, <3>1, <3>2
    <3> HIDE DEF x, y, z, c, d, e
    <3>5. e = d
      BY <3>3, <3>4 DEF IsCell
    <3>. QED BY <3>5 DEF d, e
  <2>3. Nat \subseteq U
    <3> HIDE DEF U
    <3>. QED BY <2>1, <2>2, SetInduction
  <2>. QED BY <2>3
<1>3. Nat \subseteq T
  <2> HIDE DEF T
  <2>. QED BY <1>1, <1>2, SetInduction
<1>. QED BY <1>3 DEF SameColumns

\* Words that go on alike, v from s letters and w from t letters on: where the
\* distance to the one exceeds that to the other by at most one in these
\* columns, it does so to the end.
LEMMA SameEnding ==
  ASSUME NEW a, NEW v, NEW w, NEW D, NEW E, IsTable(a, w, D), IsTable(a, v, E),
         Len(a) \in Nat, Len(v) \in Nat, Len(w) \in Nat,
         NEW s \in 0 .. Len(v), NEW t \in 0 .. Len(w), Len(v) - s = Len(w) - t,
         s <= t + 1,
         \A r \in 1 .. Len(v) - s : v[s + r] = w[t + r],
         \A i \in 0 .. Len(a) : E[i][s] <= D[i][t] + 1
  PROVE  \A r \in 0 .. Len(v) - s : \A i \in 0 .. Len(a) : E[i][s + r] <= D[i][t + r] + 1
<1> DEFINE T == {r \in Nat : r <= Len(v) - s => \A i \in 0 .. Len(a) : E[i][s + r] <= D[i][t + r] + 1}
<1>1. 0 \in T
  OBVIOUS
<1>2. ASSUME NEW r \in Nat, r \in T PROVE r + 1 \in T
  <2> SUFFICES ASSUME r + 1 <= Len(v) - s
               PROVE  \A i \in 0 .. Len(a) : E[i][s + (r + 1)] <= D[i][t + (r + 1)] + 1
    OBVIOUS
  <2> DEFINE p == s + r
             q == t + r
             U == {i \in Nat : i <= Len(a) => E[i][p + 1] <= D[i][q + 1] + 1}
  <2>0. /\ p \in 0 .. Len(v) /\ q \in 0 .. Len(w) /\ p <= q + 1
        /\ p + 1 <= Len(v) /\ q + 1 <= Len(w) /\ v[p + 1] = w[q + 1]
        /\ p + 1 = s + (r + 1) /\ q + 1 = t + (r + 1)
        /\ \A i \in 0 .. Len(a) : E[i][p] <= D[i][q] + 1
    <3>1. p + 1 = s + (r + 1) /\ q + 1 = t + (r + 1) /\ r + 1 \in 1 .. Len(v) - s
      OBVIOUS
    <3>2. v[s + (r + 1)] = w[t + (r + 1)]
      BY <3>1
    <3>3. \A i \in 0 .. Len(a) : E[i][s + r] <= D[i][t + r] + 1
      BY <1>2
    <3>4. /\ p \in 0 .. Len(v) /\ q \in 0 .. Len(w) /\ p <= q + 1
          /\ p + 1 <= Len(v) /\ q + 1 <= Len(w)
      OBVIOUS
    <3>. QED BY <3>1, <3>2, <3>3, <3>4
  <2> HIDE DEF p, q
  <2>1. 0 \in U
    <3>1. E[0][p + 1] = p + 1 /\ D[0][q + 1] = q + 1
      BY <2>0 DEF IsTable
    <3>. QED BY <2>0, <3>1
  <2>2. ASSUME NEW i \in Nat, i \in U PROVE i + 1 \in U
    <3> SUFFICES ASSUME i + 1 <= Len(a) PROVE E[i + 1][p + 1] <= D[i + 1][q + 1] + 1
      OBVIOUS
    <3>1. /\ i \in 0 .. Len(a) /\ E[i][p + 1] <= D[i][q + 1] + 1
          /\ E[i + 1][p] <= D[i + 1][q] + 1 /\ E[i][p] <= D[i][q] + 1
      BY <2>0, <2>2
    <3>2. Substitute(a, v, i + 1, p + 1) = Substitute(a, w, i + 1, q + 1)
      BY <2>0 DEF Substitute
    <3> DEFINE c == Substitute(a, w, i + 1, q + 1)
               d == D[i + 1][q + 1]
               x == D[i + 1][q]
               y == D[i][q + 1]
               z == D[i][q]
               e == E[i + 1][p + 1]
               x1 == E[i + 1][p]
               y1 == E[i][p + 1]
               z1 == E[i][p]
    <3>3. IsCell(d, x, y, z, c)
      BY <2>0, <3>1, TableCell
    <3>4. IsCell(e, x1, y1, z1, c)
      <4>1. IsCell(e, x1, y1, z1, Substitute(a, v, i + 1, p + 1))
        BY <2>0, <3>1, TableCell
      <4>. QED BY <4>1, <3>2
    <3>5. x1 <= x + 1 /\ y1 <= y + 1 /\ z1 <= z + 1
      BY <3>1
    <3> HIDE DEF x, y, z, c, d, e, x1, y1, z1
    <3>6. e <= d + 1
      BY <3>3, <3>4, <3>5 DEF IsCell
    <3>. QED BY <3>6 DEF d, e
  <2>3. Nat \subseteq U
    <3> HIDE DEF U
    <3>. QED BY <2>1, <2>2, SetInduction
  <2>4. \A i \in 0 .. Len(a) : E[i][p + 1] <= D[i][q + 1] + 1
    BY <2>3
  <2>. QED BY <2>0, <2>4
<1>3. Nat \subseteq T
  <2> HIDE DEF T
  <2>. QED BY <1>1, <1>2, SetInduction
<1>. QED BY <1>3

\* The letters that names are written with.
Letters == UNION {Seqs!Range(n) : n \in Name}

\* v is w without letter i, with x for letter i, with x as letter i.
Removed(v, w, i) ==
  /\ Len(v) = Len(w) - 1
  /\ \A r \in 1 .. Len(w) - 1 : v[r] = IF r < i THEN w[r] ELSE w[r + 1]

Replaced(v, w, i, x) ==
  /\ Len(v) = Len(w)
  /\ \A r \in 1 .. Len(w) : v[r] = IF r = i THEN x ELSE w[r]

Inserted(v, w, i, x) ==
  /\ Len(v) = Len(w) + 1
  /\ \A r \in 1 .. Len(w) + 1 : v[r] = IF r < i THEN w[r] ELSE IF r = i THEN x ELSE w[r - 1]

\* v is one insertion, deletion or substitution from w.
IsEdit(v, w) ==
  \/ \E i \in 1 .. Len(w) : Removed(v, w, i)
  \/ \E i \in 1 .. Len(w) : \E x \in Letters : Replaced(v, w, i, x)
  \/ \E i \in 1 .. Len(w) + 1 : \E x \in Letters : Inserted(v, w, i, x)

\* The letters of a word from m to n.
LEMMA MiddleIs ==
  ASSUME NEW S, NEW w \in Seq(S), NEW m \in 1 .. Len(w) + 1, NEW n \in m - 1 .. Len(w)
  PROVE  /\ SubSeq(w, m, n) \in Seq(S) /\ Len(SubSeq(w, m, n)) = n - m + 1
         /\ \A r \in 1 .. n - m + 1 : SubSeq(w, m, n)[r] = w[m + r - 1]
<1>1. m \in Int /\ n \in Int /\ \A r \in m .. n : w[r] \in S
  BY LenProperties, ElementOfSeq
<1>2. /\ SubSeq(w, m, n) \in Seq(S)
      /\ Len(SubSeq(w, m, n)) = IF m <= n THEN n - m + 1 ELSE 0
      /\ \A r \in 1 .. n - m + 1 : SubSeq(w, m, n)[r] = w[m + r - 1]
  BY <1>1, SubSeqProperties
<1>3. (IF m <= n THEN n - m + 1 ELSE 0) = n - m + 1
  BY LenProperties
<1>. QED BY <1>2, <1>3

\* What the operators of the community modules do to a word.
LEMMA RemoveAtRemoves ==
  ASSUME NEW S, NEW w \in Seq(S), NEW i \in 1 .. Len(w)
  PROVE  Seqs!RemoveAt(w, i) \in Seq(S) /\ Removed(Seqs!RemoveAt(w, i), w, i)
<1> DEFINE p == SubSeq(w, 1, i - 1)
           q == SubSeq(w, i + 1, Len(w))
<1>1. Len(w) \in Nat /\ i \in Int /\ \A r \in 1 .. Len(w) : w[r] \in S
  BY LenProperties, ElementOfSeq
<1>2. p \in Seq(S) /\ Len(p) = i - 1 /\ \A r \in 1 .. i - 1 : p[r] = w[r]
  <2>1. 1 \in 1 .. Len(w) + 1 /\ i - 1 \in 1 - 1 .. Len(w) /\ (i - 1) - 1 + 1 = i - 1
    BY <1>1
  <2>2. /\ p \in Seq(S) /\ Len(p) = (i - 1) - 1 + 1
        /\ \A r \in 1 .. (i - 1) - 1 + 1 : p[r] = w[1 + r - 1]
    BY <2>1, MiddleIs
  <2>3. \A r \in 1 .. i - 1 : 1 + r - 1 = r
    OBVIOUS
  <2> HIDE DEF p
  <2>. QED BY <2>1, <2>2, <2>3
<1>3. q \in Seq(S) /\ Len(q) = Len(w) - i /\ \A r \in 1 .. Len(w) - i : q[r] = w[i + r]
  <2>1. i + 1 \in 1 .. Len(w) + 1 /\ Len(w) \in (i + 1) - 1 .. Len(w) /\ Len(w) - (i + 1) + 1 = Len(w) - i
    BY <1>1
  <2>2. /\ q \in Seq(S) /\ Len(q) = Len(w) - (i + 1) + 1
        /\ \A r \in 1 .. Len(w) - (i + 1) + 1 : q[r] = w[(i + 1) + r - 1]
    BY <2>1, MiddleIs
  <2>3. \A r \in 1 .. Len(w) - i : (i + 1) + r - 1 = i + r
    BY <1>1
  <2> HIDE DEF q
  <2>. QED BY <2>1, <2>2, <2>3
<1> HIDE DEF p, q
<1> DEFINE v == p \o q
<1>4. /\ v \in Seq(S) /\ Len(v) = (i - 1) + (Len(w) - i)
      /\ \A r \in 1 .. (i - 1) + (Len(w) - i) : v[r] = IF r <= i - 1 THEN p[r] ELSE q[r - (i - 1)]
  <2>1. /\ v \in Seq(S) /\ Len(v) = Len(p) + Len(q)
        /\ \A r \in 1 .. Len(p) + Len(q) : v[r] = IF r <= Len(p) THEN p[r] ELSE q[r - Len(p)]
    BY <1>2, <1>3, ConcatProperties, Zenon
  <2>. QED BY <2>1, <1>2, <1>3, Zenon
<1>5. (i - 1) + (Len(w) - i) = Len(w) - 1
  BY <1>1
<1> HIDE DEF v
<1>6. ASSUME NEW r \in 1 .. Len(w) - 1 PROVE v[r] = IF r < i THEN w[r] ELSE w[r + 1]
  <2>1. CASE r < i
    <3>1. r \in 1 .. i - 1 /\ r <= i - 1
      BY <2>1
    <3>. QED BY <1>2, <1>4, <1>5, <3>1, <2>1
  <2>2. CASE ~(r < i)
    <3>1. /\ ~(r <= i - 1) /\ r - (i - 1) \in 1 .. Len(w) - i /\ i + (r - (i - 1)) = r + 1
      BY <1>1, <2>2
    <3>. QED BY <1>3, <1>4, <1>5, <3>1, <2>2
  <2>. QED BY <2>1, <2>2
<1>7. Seqs!RemoveAt(w, i) = v
  BY DEF Seqs!RemoveAt, v, p, q
<1>. QED BY <1>4, <1>5, <1>6, <1>7 DEF Removed

LEMMA InsertAtInserts ==
  ASSUME NEW S, NEW w \in Seq(S), NEW i \in 1 .. Len(w) + 1, NEW x \in S
  PROVE  Seqs!InsertAt(w, i, x) \in Seq(S) /\ Inserted(Seqs!InsertAt(w, i, x), w, i, x)
<1> DEFINE p == SubSeq(w, 1, i - 1)
           q == SubSeq(w, i, Len(w))
           o == <<x>>
<1>1. Len(w) \in Nat /\ i \in Int /\ \A r \in 1 .. Len(w) : w[r] \in S
  BY LenProperties, ElementOfSeq
<1>2. p \in Seq(S) /\ Len(p) = i - 1 /\ \A r \in 1 .. i - 1 : p[r] = w[r]
  <2>1. 1 \in 1 .. Len(w) + 1 /\ i - 1 \in 1 - 1 .. Len(w) /\ (i - 1) - 1 + 1 = i - 1
    BY <1>1
  <2>2. /\ p \in Seq(S) /\ Len(p) = (i - 1) - 1 + 1
        /\ \A r \in 1 .. (i - 1) - 1 + 1 : p[r] = w[1 + r - 1]
    BY <2>1, MiddleIs
  <2>3. \A r \in 1 .. i - 1 : 1 + r - 1 = r
    OBVIOUS
  <2> HIDE DEF p
  <2>. QED BY <2>1, <2>2, <2>3
<1>3. q \in Seq(S) /\ Len(q) = Len(w) - i + 1 /\ \A r \in 1 .. Len(w) - i + 1 : q[r] = w[i + r - 1]
  <2>1. i \in 1 .. Len(w) + 1 /\ Len(w) \in i - 1 .. Len(w)
    BY <1>1
  <2>. QED BY <2>1, MiddleIs
<1>4. o \in Seq(S) /\ Len(o) = 1 /\ o[1] = x
  OBVIOUS
<1> HIDE DEF p, q, o
<1> DEFINE u == p \o o
<1>5. /\ u \in Seq(S) /\ Len(u) = i
      /\ \A r \in 1 .. i : u[r] = IF r < i THEN w[r] ELSE x
  <2>1. /\ u \in Seq(S) /\ Len(u) = (i - 1) + 1
        /\ \A r \in 1 .. (i - 1) + 1 : u[r] = IF r <= i - 1 THEN p[r] ELSE o[r - (i - 1)]
    <3>1. /\ u \in Seq(S) /\ Len(u) = Len(p) + Len(o)
          /\ \A r \in 1 .. Len(p) + Len(o) : u[r] = IF r <= Len(p) THEN p[r] ELSE o[r - Len(p)]
      BY <1>2, <1>4, ConcatProperties, Zenon
    <3>. QED BY <3>1, <1>2, <1>4, Zenon
  <2> HIDE DEF u
  <2>2. ASSUME NEW r \in 1 .. i PROVE u[r] = IF r < i THEN w[r] ELSE x
    <3>1. CASE r < i
      <4>1. r \in 1 .. i - 1 /\ r <= i - 1 /\ r \in 1 .. (i - 1) + 1
        BY <3>1
      <4>. QED BY <1>2, <2>1, <3>1, <4>1
    <3>2. CASE r = i
      <4>1. ~(r <= i - 1) /\ r - (i - 1) = 1 /\ r \in 1 .. (i - 1) + 1
        BY <3>2
      <4>. QED BY <1>4, <2>1, <3>2, <4>1
    <3>. QED BY <3>1, <3>2
  <2>. QED BY <2>1, <2>2
<1> HIDE DEF u
<1> DEFINE v == u \o q
<1>6. /\ v \in Seq(S) /\ Len(v) = i + (Len(w) - i + 1)
      /\ \A r \in 1 .. i + (Len(w) - i + 1) : v[r] = IF r <= i THEN u[r] ELSE q[r - i]
  <2>1. /\ v \in Seq(S) /\ Len(v) = Len(u) + Len(q)
        /\ \A r \in 1 .. Len(u) + Len(q) : v[r] = IF r <= Len(u) THEN u[r] ELSE q[r - Len(u)]
    BY <1>3, <1>5, ConcatProperties, Zenon
  <2>. QED BY <2>1, <1>3, <1>5, Zenon
<1>7. i + (Len(w) - i + 1) = Len(w) + 1
  BY <1>1
<1> HIDE DEF v
<1>8. ASSUME NEW r \in 1 .. Len(w) + 1
      PROVE  v[r] = IF r < i THEN w[r] ELSE IF r = i THEN x ELSE w[r - 1]
  <2>1. CASE r <= i
    <3>1. r \in 1 .. i
      BY <2>1
    <3>. QED BY <1>5, <1>6, <1>7, <3>1, <2>1
  <2>2. CASE ~(r <= i)
    <3>1. /\ ~(r < i) /\ r # i /\ r - i \in 1 .. Len(w) - i + 1 /\ i + (r - i) - 1 = r - 1
      BY <1>1, <2>2
    <3>. QED BY <1>3, <1>6, <1>7, <3>1, <2>2
  <2>. QED BY <2>1, <2>2
<1>9. Seqs!InsertAt(w, i, x) = v
  BY DEF Seqs!InsertAt, v, u, o, p, q
<1>. QED BY <1>6, <1>7, <1>8, <1>9 DEF Inserted

LEMMA ReplaceAtReplaces ==
  ASSUME NEW S, NEW w \in Seq(S), NEW i \in 1 .. Len(w), NEW x \in S
  PROVE  Seqs!ReplaceAt(w, i, x) \in Seq(S) /\ Replaced(Seqs!ReplaceAt(w, i, x), w, i, x)
BY ExceptSeq DEF Seqs!ReplaceAt, Replaced

\* What OneEdit makes of a word.
LEMMA OneEditIs ==
  ASSUME NEW w \in Seq(Letters), NEW v
  PROVE  v \in OneEdit(w) <=> v \in Seq(Letters) /\ IsEdit(v, w)
<1>1. DOMAIN w = 1 .. Len(w)
  BY LenProperties
<1>2. v \in OneEdit(w) <=>
        \/ \E i \in 1 .. Len(w) : v = Seqs!RemoveAt(w, i)
        \/ \E i \in 1 .. Len(w) : \E x \in Letters : v = Seqs!ReplaceAt(w, i, x)
        \/ \E i \in 1 .. Len(w) + 1 : \E x \in Letters : v = Seqs!InsertAt(w, i, x)
  <2> DEFINE A == {Seqs!RemoveAt(w, i) : i \in DOMAIN w}
             B == {Seqs!ReplaceAt(w, i, x) : i \in DOMAIN w, x \in Letters}
             C == {Seqs!InsertAt(w, i, x) : i \in 1 .. Len(w) + 1, x \in Letters}
  <2>1. OneEdit(w) = (A \cup B) \cup C
    BY DEF OneEdit, Letters
  <2>2. v \in A <=> \E i \in 1 .. Len(w) : v = Seqs!RemoveAt(w, i)
    BY <1>1
  <2>3. v \in B <=> \E i \in 1 .. Len(w) : \E x \in Letters : v = Seqs!ReplaceAt(w, i, x)
    BY <1>1
  <2>4. v \in C <=> \E i \in 1 .. Len(w) + 1 : \E x \in Letters : v = Seqs!InsertAt(w, i, x)
    OBVIOUS
  <2> HIDE DEF A, B, C
  <2>. QED BY <2>1, <2>2, <2>3, <2>4
<1>3. ASSUME v \in OneEdit(w) PROVE v \in Seq(Letters) /\ IsEdit(v, w)
  BY <1>2, <1>3, RemoveAtRemoves, ReplaceAtReplaces, InsertAtInserts, Zenon DEF IsEdit
<1>4. ASSUME v \in Seq(Letters), IsEdit(v, w) PROVE v \in OneEdit(w)
  <2>0. Len(w) \in Nat /\ Len(v) \in Nat
    BY <1>4, LenProperties
  <2>1. ASSUME NEW i \in 1 .. Len(w), Removed(v, w, i) PROVE v = Seqs!RemoveAt(w, i)
    <3> DEFINE u == Seqs!RemoveAt(w, i)
    <3>1. u \in Seq(Letters) /\ Removed(u, w, i)
      BY RemoveAtRemoves
    <3> HIDE DEF u
    <3>2. Len(u) = Len(v) /\ \A r \in 1 .. Len(u) : u[r] = v[r]
      BY <2>0, <2>1, <3>1 DEF Removed
    <3>3. u = v
      BY <1>4, <3>1, <3>2, SeqEqual
    <3>. QED BY <3>3 DEF u
  <2>2. ASSUME NEW i \in 1 .. Len(w), NEW x \in Letters, Replaced(v, w, i, x)
        PROVE  v = Seqs!ReplaceAt(w, i, x)
    <3> DEFINE u == Seqs!ReplaceAt(w, i, x)
    <3>1. u \in Seq(Letters) /\ Replaced(u, w, i, x)
      BY ReplaceAtReplaces
    <3> HIDE DEF u
    <3>2. Len(u) = Len(v) /\ \A r \in 1 .. Len(u) : u[r] = v[r]
      BY <2>0, <2>2, <3>1 DEF Replaced
    <3>3. u = v
      BY <1>4, <3>1, <3>2, SeqEqual
    <3>. QED BY <3>3 DEF u
  <2>3. ASSUME NEW i \in 1 .. Len(w) + 1, NEW x \in Letters, Inserted(v, w, i, x)
        PROVE  v = Seqs!InsertAt(w, i, x)
    <3> DEFINE u == Seqs!InsertAt(w, i, x)
    <3>1. u \in Seq(Letters) /\ Inserted(u, w, i, x)
      BY InsertAtInserts
    <3> HIDE DEF u
    <3>2. Len(u) = Len(v) /\ \A r \in 1 .. Len(u) : u[r] = v[r]
      BY <2>0, <2>3, <3>1 DEF Inserted
    <3>3. u = v
      BY <1>4, <3>1, <3>2, SeqEqual
    <3>. QED BY <3>3 DEF u
  <2>. QED BY <1>2, <1>4, <2>1, <2>2, <2>3 DEF IsEdit
<1>. QED BY <1>3, <1>4

\* The last cell of the table.
Distance(a, b) == Rows(a, b)[Len(a)][Len(b)]

\* The last column, from the columns that two words have in common.
LEMMA NearFrom ==
  ASSUME NEW a, NEW v, NEW w, Len(a) \in Nat, Len(v) \in Nat, Len(w) \in Nat,
         NEW s \in 0 .. Len(v), NEW t \in 0 .. Len(w), Len(v) - s = Len(w) - t,
         s <= t + 1,
         \A r \in 1 .. Len(v) - s : v[s + r] = w[t + r],
         \A i \in 0 .. Len(a) : Rows(a, v)[i][s] <= Rows(a, w)[i][t] + 1
  PROVE  Distance(a, v) <= Distance(a, w) + 1
<1> DEFINE D == Rows(a, w)
           E == Rows(a, v)
<1>1. IsTable(a, w, D) /\ IsTable(a, v, E)
  BY RowsAreTable
<1>2. \A i \in 0 .. Len(a) : E[i][s] <= D[i][t] + 1
  OBVIOUS
<1> HIDE DEF D, E
<1>3. \A r \in 0 .. Len(v) - s : \A i \in 0 .. Len(a) : E[i][s + r] <= D[i][t + r] + 1
  BY <1>1, <1>2, SameEnding
<1>4. Len(v) - s \in 0 .. Len(v) - s /\ s + (Len(v) - s) = Len(v) /\ t + (Len(v) - s) = Len(w)
  OBVIOUS
<1>5. Len(a) \in 0 .. Len(a)
  OBVIOUS
<1>6. E[Len(a)][Len(v)] <= D[Len(a)][Len(w)] + 1
  BY <1>3, <1>4, <1>5
<1>. QED BY <1>6 DEF Distance, D, E

\* One edit of the second word changes its distance from the first by at most
\* one: up to the edited letter the tables agree, from there on they are compared
\* column by column.
LEMMA EditIsNear ==
  ASSUME NEW a, NEW v, NEW w, Len(a) \in Nat, Len(v) \in Nat, Len(w) \in Nat, IsEdit(v, w)
  PROVE  Distance(a, v) <= Distance(a, w) + 1
<1> DEFINE D == Rows(a, w)
           E == Rows(a, v)
<1>0. IsTable(a, w, D) /\ IsTable(a, v, E)
  BY RowsAreTable
<1> HIDE DEF D, E
<1>1. ASSUME NEW i \in 1 .. Len(w), Removed(v, w, i)
      PROVE  Distance(a, v) <= Distance(a, w) + 1
  <2>1. Len(v) = Len(w) - 1 /\ i - 1 \in 0 .. Len(v) /\ i \in 0 .. Len(w) /\ i - 1 \in Nat
    BY <1>1 DEF Removed
  <2>2. Agree(v, w, i - 1)
    BY <1>1, <2>1 DEF Removed, Agree
  <2>3. \A j \in 0 .. i - 1 : \A k \in 0 .. Len(a) : E[k][j] = D[k][j]
    <3>1. i - 1 <= Len(v) /\ i - 1 <= Len(w) /\ i - 1 \in Nat
      BY <2>1
    <3>2. SameColumns(a, D, E, i - 1)
      BY <1>0, <2>1, <2>2, <3>1, SameBeginning
    <3>. QED BY <3>2 DEF SameColumns
  <2>4. \A k \in 0 .. Len(a) : D[k][i - 1] <= D[k][i] + 1
    BY <1>0, ShorterIsNear
  <2>5. \A k \in 0 .. Len(a) : E[k][i - 1] <= D[k][i] + 1
    <3>1. i - 1 \in 0 .. i - 1
      BY <2>1
    <3>. QED BY <2>3, <2>4, <3>1
  <2>6. Len(v) - (i - 1) = Len(w) - i /\ i - 1 <= i + 1
    BY <2>1
  <2>7. \A r \in 1 .. Len(v) - (i - 1) : v[(i - 1) + r] = w[i + r]
    <3> TAKE r \in 1 .. Len(v) - (i - 1)
    <3>1. (i - 1) + r \in 1 .. Len(w) - 1 /\ ~((i - 1) + r < i) /\ ((i - 1) + r) + 1 = i + r
      BY <2>1
    <3>. QED BY <1>1, <3>1 DEF Removed
  <2>. QED BY <2>1, <2>5, <2>6, <2>7, NearFrom DEF D, E
<1>2. ASSUME NEW i \in 1 .. Len(w), NEW x \in Letters, Replaced(v, w, i, x)
      PROVE  Distance(a, v) <= Distance(a, w) + 1
  <2>1. Len(v) = Len(w) /\ i \in 0 .. Len(v) /\ i \in 0 .. Len(w) /\ i - 1 \in Nat
    BY <1>2 DEF Replaced
  <2>2. Agree(v, w, i - 1)
    BY <1>2, <2>1 DEF Replaced, Agree
  <2>3. \A j \in 0 .. i - 1 : \A k \in 0 .. Len(a) : E[k][j] = D[k][j]
    <3>1. i - 1 <= Len(v) /\ i - 1 <= Len(w) /\ i - 1 \in Nat
      BY <2>1
    <3>2. SameColumns(a, D, E, i - 1)
      BY <1>0, <2>1, <2>2, <3>1, SameBeginning
    <3>. QED BY <3>2 DEF SameColumns
  <2>4. \A k \in 0 .. Len(a) : E[k][i] <= D[k][i] + 1
    <3> DEFINE T == {k \in Nat : k <= Len(a) => E[k][i] <= D[k][i] + 1}
    <3>0. i - 1 \in 0 .. Len(v) /\ i - 1 \in 0 .. Len(w) /\ (i - 1) + 1 = i /\ i - 1 \in 0 .. i - 1
      BY <2>1
    <3>1. 0 \in T
      <4>1. E[0][i] = i /\ D[0][i] = i
        BY <1>0, <2>1 DEF IsTable
      <4>. QED BY <4>1
    <3>2. ASSUME NEW k \in Nat, k \in T PROVE k + 1 \in T
      <4> SUFFICES ASSUME k + 1 <= Len(a) PROVE E[k + 1][i] <= D[k + 1][i] + 1
        OBVIOUS
      <4>1. k \in 0 .. Len(a) /\ k + 1 \in 0 .. Len(a) /\ (i - 1) + 1 <= Len(v) /\ (i - 1) + 1 <= Len(w)
        BY <2>1, <3>0
      <4>2. IsCell(D[k + 1][(i - 1) + 1], D[k + 1][i - 1], D[k][(i - 1) + 1], D[k][i - 1],
                   Substitute(a, w, k + 1, (i - 1) + 1))
        BY <1>0, <3>0, <4>1, TableCell
      <4>3. IsCell(E[k + 1][(i - 1) + 1], E[k + 1][i - 1], E[k][(i - 1) + 1], E[k][i - 1],
                   Substitute(a, v, k + 1, (i - 1) + 1))
        BY <1>0, <3>0, <4>1, TableCell
      <4> DEFINE d == D[k + 1][i]
                 x0 == D[k + 1][i - 1]
                 y == D[k][i]
                 z == D[k][i - 1]
                 c == Substitute(a, w, k + 1, i)
                 e == E[k + 1][i]
                 x1 == E[k + 1][i - 1]
                 y1 == E[k][i]
                 z1 == E[k][i - 1]
                 c1 == Substitute(a, v, k + 1, i)
      <4>4. IsCell(d, x0, y, z, c) /\ IsCell(e, x1, y1, z1, c1)
        BY <3>0, <4>2, <4>3
      <4>5. x1 = x0 /\ z1 = z /\ y1 <= y + 1
        BY <2>3, <3>0, <3>2, <4>1
      <4> HIDE DEF d, x0, y, z, c, e, x1, y1, z1, c1
      <4>6. e <= d + 1
        BY <4>4, <4>5 DEF IsCell
      <4>. QED BY <4>6 DEF d, e
    <3>3. Nat \subseteq T
      <4> HIDE DEF T
      <4>. QED BY <3>1, <3>2, SetInduction
    <3>. QED BY <3>3
  <2>5. Len(v) - i = Len(w) - i /\ i <= i + 1
    BY <2>1
  <2>6. \A r \in 1 .. Len(v) - i : v[i + r] = w[i + r]
    <3> TAKE r \in 1 .. Len(v) - i
    <3>1. i + r \in 1 .. Len(w) /\ i + r # i
      BY <2>1
    <3>. QED BY <1>2, <3>1 DEF Replaced
  <2>. QED BY <2>1, <2>4, <2>5, <2>6, NearFrom DEF D, E
<1>3. ASSUME NEW i \in 1 .. Len(w) + 1, NEW x \in Letters, Inserted(v, w, i, x)
      PROVE  Distance(a, v) <= Distance(a, w) + 1
  <2>1. Len(v) = Len(w) + 1 /\ i \in 0 .. Len(v) /\ i - 1 \in 0 .. Len(w) /\ i - 1 \in Nat
    BY <1>3 DEF Inserted
  <2>2. Agree(v, w, i - 1)
    BY <1>3, <2>1 DEF Inserted, Agree
  <2>3. \A j \in 0 .. i - 1 : \A k \in 0 .. Len(a) : E[k][j] = D[k][j]
    <3>1. i - 1 <= Len(v) /\ i - 1 <= Len(w) /\ i - 1 \in Nat
      BY <2>1
    <3>2. SameColumns(a, D, E, i - 1)
      BY <1>0, <2>1, <2>2, <3>1, SameBeginning
    <3>. QED BY <3>2 DEF SameColumns
  <2>4. \A k \in 0 .. Len(a) : E[k][i] <= E[k][i - 1] + 1
    <3> TAKE k \in 0 .. Len(a)
    <3>0. /\ i - 1 \in 0 .. Len(v) /\ (i - 1) + 1 = i /\ (i - 1) + 1 <= Len(v)
      BY <2>1
    <3>1. CASE k = 0
      <4>1. E[0][i] = i /\ E[0][i - 1] = i - 1
        BY <1>0, <2>1, <3>0 DEF IsTable
      <4>. QED BY <3>1, <4>1
    <3>2. CASE k # 0
      <4>1. k - 1 \in 0 .. Len(a) /\ (k - 1) + 1 = k /\ (k - 1) + 1 <= Len(a)
        BY <3>2
      <4>2. IsCell(E[(k - 1) + 1][(i - 1) + 1], E[(k - 1) + 1][i - 1], E[k - 1][(i - 1) + 1],
                   E[k - 1][i - 1], Substitute(a, v, (k - 1) + 1, (i - 1) + 1))
        BY <1>0, <3>0, <4>1, TableCell
      <4>3. E[(k - 1) + 1][(i - 1) + 1] <= E[(k - 1) + 1][i - 1] + 1
        BY <4>2 DEF IsCell
      <4>. QED BY <3>0, <4>1, <4>3
    <3>. QED BY <3>1, <3>2
  <2>5. \A k \in 0 .. Len(a) : E[k][i] <= D[k][i - 1] + 1
    <3>1. i - 1 \in 0 .. i - 1
      BY <2>1
    <3>. QED BY <2>3, <2>4, <3>1
  <2>6. Len(v) - i = Len(w) - (i - 1) /\ i <= (i - 1) + 1
    BY <2>1
  <2>7. \A r \in 1 .. Len(v) - i : v[i + r] = w[(i - 1) + r]
    <3> TAKE r \in 1 .. Len(v) - i
    <3>1. i + r \in 1 .. Len(w) + 1 /\ ~(i + r < i) /\ i + r # i /\ (i + r) - 1 = (i - 1) + r
      BY <2>1
    <3>. QED BY <1>3, <3>1 DEF Inserted
  <2>. QED BY <2>1, <2>5, <2>6, <2>7, NearFrom DEF D, E
<1>. QED BY <1>1, <1>2, <1>3 DEF IsEdit

\* An appended letter does not change what an edit is.
LEMMA EditAppended ==
  ASSUME NEW v \in Seq(Letters), NEW w \in Seq(Letters), NEW x \in Letters, IsEdit(v, w)
  PROVE  IsEdit(Append(v, x), Append(w, x))
<1> DEFINE p == Append(v, x)
           q == Append(w, x)
<1>1. Len(v) \in Nat /\ Len(w) \in Nat
  BY LenProperties
<1>2. Len(p) = Len(v) + 1 /\ p[Len(v) + 1] = x /\ \A r \in 1 .. Len(v) : p[r] = v[r]
  BY AppendProperties
<1>3. Len(q) = Len(w) + 1 /\ q[Len(w) + 1] = x /\ \A r \in 1 .. Len(w) : q[r] = w[r]
  BY AppendProperties
<1> HIDE DEF p, q
<1>4. ASSUME NEW i \in 1 .. Len(w), Removed(v, w, i)
      PROVE  i \in 1 .. Len(q) /\ Removed(p, q, i)
  <2>1. Len(v) = Len(w) - 1 /\ Len(p) = Len(q) - 1 /\ i \in 1 .. Len(q)
    BY <1>1, <1>2, <1>3, <1>4 DEF Removed
  <2>2. ASSUME NEW r \in 1 .. Len(q) - 1 PROVE p[r] = IF r < i THEN q[r] ELSE q[r + 1]
    <3>1. CASE r = Len(w)
      <4>1. r = Len(v) + 1 /\ ~(r < i)
        BY <1>1, <2>1, <3>1
      <4>. QED BY <1>2, <1>3, <3>1, <4>1
    <3>2. CASE r # Len(w)
      <4>1. r \in 1 .. Len(v) /\ r \in 1 .. Len(w) - 1 /\ r \in 1 .. Len(w) /\ r + 1 \in 1 .. Len(w)
        BY <1>1, <1>3, <2>1, <3>2
      <4>2. v[r] = IF r < i THEN w[r] ELSE w[r + 1]
        BY <1>4, <4>1 DEF Removed
      <4>. QED BY <1>2, <1>3, <4>1, <4>2
    <3>. QED BY <3>1, <3>2
  <2>. QED BY <2>1, <2>2 DEF Removed
<1>5. ASSUME NEW i \in 1 .. Len(w), NEW y \in Letters, Replaced(v, w, i, y)
      PROVE  i \in 1 .. Len(q) /\ Replaced(p, q, i, y)
  <2>1. Len(v) = Len(w) /\ Len(p) = Len(q) /\ i \in 1 .. Len(q)
    BY <1>1, <1>2, <1>3, <1>5 DEF Replaced
  <2>2. ASSUME NEW r \in 1 .. Len(q) PROVE p[r] = IF r = i THEN y ELSE q[r]
    <3>1. CASE r = Len(w) + 1
      <4>1. r = Len(v) + 1 /\ r # i
        BY <1>1, <2>1, <3>1
      <4>. QED BY <1>2, <1>3, <3>1, <4>1
    <3>2. CASE r # Len(w) + 1
      <4>1. r \in 1 .. Len(v) /\ r \in 1 .. Len(w)
        BY <1>1, <1>3, <2>1, <3>2
      <4>2. v[r] = IF r = i THEN y ELSE w[r]
        BY <1>5, <4>1 DEF Replaced
      <4>. QED BY <1>2, <1>3, <4>1, <4>2
    <3>. QED BY <3>1, <3>2
  <2>. QED BY <2>1, <2>2 DEF Replaced
<1>6. ASSUME NEW i \in 1 .. Len(w) + 1, NEW y \in Letters, Inserted(v, w, i, y)
      PROVE  i \in 1 .. Len(q) + 1 /\ Inserted(p, q, i, y)
  <2>1. Len(v) = Len(w) + 1 /\ Len(p) = Len(q) + 1 /\ i \in 1 .. Len(q) + 1
    BY <1>1, <1>2, <1>3, <1>6 DEF Inserted
  <2>2. ASSUME NEW r \in 1 .. Len(q) + 1
        PROVE  p[r] = IF r < i THEN q[r] ELSE IF r = i THEN y ELSE q[r - 1]
    <3>1. CASE r = Len(w) + 2
      <4>1. r = Len(v) + 1 /\ ~(r < i) /\ r # i /\ r - 1 = Len(w) + 1
        BY <1>1, <2>1, <3>1
      <4>. QED BY <1>2, <1>3, <4>1
    <3>2. CASE r # Len(w) + 2
      <4>1. r \in 1 .. Len(v) /\ r \in 1 .. Len(w) + 1
        BY <1>1, <1>3, <2>1, <3>2
      <4>2. v[r] = IF r < i THEN w[r] ELSE IF r = i THEN y ELSE w[r - 1]
        BY <1>6, <4>1 DEF Inserted
      <4>3. CASE r < i
        <5>1. r \in 1 .. Len(w)
          BY <1>1, <4>3
        <5>. QED BY <1>2, <1>3, <4>1, <4>2, <4>3, <5>1
      <4>4. CASE r = i
        BY <1>2, <4>1, <4>2, <4>4
      <4>5. CASE ~(r < i) /\ r # i
        <5>1. r - 1 \in 1 .. Len(w)
          BY <1>1, <4>1, <4>5
        <5>. QED BY <1>2, <1>3, <4>1, <4>2, <4>5, <5>1
      <4>. QED BY <4>3, <4>4, <4>5
    <3>. QED BY <3>1, <3>2
  <2>. QED BY <2>1, <2>2 DEF Inserted
<1>7. IsEdit(p, q)
  BY <1>4, <1>5, <1>6 DEF IsEdit
<1>. QED BY <1>7 DEF p, q

\* The words that k edits reach from u, over words of at most m letters.
NextWithin(m, words) == words \cup UNION {{v \in OneEdit(w) : Len(v) <= m} : w \in words}

IsWithin(u, m, within) ==
  within = [k \in Nat |-> IF k = 0 THEN {u} ELSE NextWithin(m, within[k - 1])]

Within(u, m) == CHOOSE within : IsWithin(u, m, within)

\* There are such sets: by induction on the number of edits.
LEMMA WithinExists ==
  ASSUME NEW u \in Seq(Letters), NEW m
  PROVE  IsWithin(u, m, Within(u, m))
<1> DEFINE S == SUBSET Seq(Letters)
           first == {u}
           next == [k \in Nat |-> [words \in S |-> NextWithin(m, words)]]
<1>1. ASSUME NEW words \in S PROVE NextWithin(m, words) \in S
  <2>1. ASSUME NEW w \in words, NEW v \in OneEdit(w) PROVE v \in Seq(Letters)
    BY <2>1, OneEditIs
  <2>. QED BY <2>1 DEF NextWithin
<1>2. next \in [Nat -> [S -> S]] /\ first \in S
  BY <1>1
<1>a. \A k \in Nat : \A words \in S : next[k][words] = NextWithin(m, words)
  OBVIOUS
<1> HIDE DEF S, first, next
<1>b. PICK f : AreIterates(S, first, next, f)
  BY <1>2, Iterates, Zenon
<1>3. f \in [Nat -> S] /\ f[0] = first /\ \A k \in Nat : f[k + 1] = next[k][f[k]]
  BY <1>b DEF AreIterates
<1>4. ASSUME NEW k \in Nat, k # 0 PROVE f[k] = NextWithin(m, f[k - 1])
  <2>1. k - 1 \in Nat /\ (k - 1) + 1 = k
    BY <1>4
  <2>. QED BY <2>1, <1>3, <1>a
<1>5. f = [k \in Nat |-> IF k = 0 THEN first ELSE NextWithin(m, f[k - 1])]
  BY <1>3, <1>4
<1>6. IsWithin(u, m, f)
  BY <1>5 DEF IsWithin, first
<1>. QED BY <1>6 DEF Within

\* One edit more.
LEMMA WithinSteps ==
  ASSUME NEW u \in Seq(Letters), NEW m
  PROVE  /\ Within(u, m)[0] = {u}
         /\ \A k \in Nat :
              /\ Within(u, m)[k] \subseteq Seq(Letters)
              /\ \A v : v \in Within(u, m)[k + 1] <=>
                   \/ v \in Within(u, m)[k]
                   \/ /\ v \in Seq(Letters) /\ Len(v) <= m
                      /\ \E w \in Within(u, m)[k] : IsEdit(v, w)
<1> DEFINE W == Within(u, m)
<1>1. W = [k \in Nat |-> IF k = 0 THEN {u} ELSE NextWithin(m, W[k - 1])]
  BY WithinExists DEF IsWithin
<1> HIDE DEF W
<1>2. W[0] = {u}
  BY <1>1
<1>3. \A k \in Nat : W[k + 1] = NextWithin(m, W[k])
  <2> TAKE k \in Nat
  <2>1. k + 1 \in Nat /\ k + 1 # 0 /\ (k + 1) - 1 = k
    OBVIOUS
  <2>. QED BY <1>1, <2>1
<1>4. ASSUME NEW words \in SUBSET Seq(Letters), NEW v
      PROVE  v \in NextWithin(m, words) <=>
               \/ v \in words
               \/ v \in Seq(Letters) /\ Len(v) <= m /\ \E w \in words : IsEdit(v, w)
  <2>1. v \in NextWithin(m, words) <=> v \in words \/ (Len(v) <= m /\ \E w \in words : v \in OneEdit(w))
    BY DEF NextWithin
  <2>2. \A w \in words : v \in OneEdit(w) <=> v \in Seq(Letters) /\ IsEdit(v, w)
    BY OneEditIs
  <2>. QED BY <2>1, <2>2, Zenon
<1>5. \A k \in Nat : W[k] \subseteq Seq(Letters)
  <2> DEFINE T == {k \in Nat : W[k] \subseteq Seq(Letters)}
  <2>1. 0 \in T
    BY <1>2
  <2>2. ASSUME NEW k \in Nat, k \in T PROVE k + 1 \in T
    <3>1. W[k] \in SUBSET Seq(Letters)
      BY <2>2
    <3>2. \A v \in NextWithin(m, W[k]) : v \in Seq(Letters)
      BY <1>4, <3>1
    <3>3. W[k + 1] = NextWithin(m, W[k])
      BY <1>3
    <3>4. W[k + 1] \subseteq Seq(Letters)
      BY <3>2, <3>3, Zenon
    <3>. QED BY <3>4
  <2>3. Nat \subseteq T
    <3> HIDE DEF T
    <3>. QED BY <2>1, <2>2, SetInduction
  <2>. QED BY <2>3
<1>6. ASSUME NEW k \in Nat, NEW v
      PROVE  v \in W[k + 1] <=>
               \/ v \in W[k]
               \/ v \in Seq(Letters) /\ Len(v) <= m /\ \E w \in W[k] : IsEdit(v, w)
  <2>1. W[k] \in SUBSET Seq(Letters)
    BY <1>5
  <2>2. W[k + 1] = NextWithin(m, W[k])
    BY <1>3
  <2>. QED BY <1>4, <2>1, <2>2, Zenon
<1>. QED BY <1>2, <1>5, <1>6, Zenon DEF W

\* Nothing that k edits reach is further than k.
LEMMA ReachedIsNear ==
  ASSUME NEW a \in Seq(Letters), NEW m
  PROVE  \A k \in Nat : \A v \in Within(a, m)[k] : Distance(a, v) <= k
<1> DEFINE T == {k \in Nat : \A v \in Within(a, m)[k] : Distance(a, v) <= k}
<1>0. Len(a) \in Nat
  BY LenProperties
<1>1. 0 \in T
  <2>1. IsTable(a, a, Rows(a, a)) /\ Len(a) \in 0 .. Len(a)
    BY <1>0, RowsAreTable
  <2>2. Distance(a, a) = 0
    BY <1>0, <2>1, NoDistance DEF Distance
  <2>. QED BY <2>2, WithinSteps
<1>2. ASSUME NEW k \in Nat, k \in T PROVE k + 1 \in T
  <2> SUFFICES ASSUME NEW v \in Within(a, m)[k + 1] PROVE Distance(a, v) <= k + 1
    OBVIOUS
  <2>0. ASSUME NEW w \in Seq(Letters) PROVE Len(w) \in Nat /\ Distance(a, w) \in Nat
    <3>1. Len(w) \in Nat /\ Len(a) \in 0 .. Len(a) /\ Len(w) \in 0 .. Len(w)
      BY <1>0, LenProperties
    <3>2. IsTable(a, w, Rows(a, w))
      BY <1>0, <3>1, RowsAreTable
    <3>. QED BY <3>1, <3>2 DEF IsTable, Distance
  <2>1. v \in Seq(Letters)
    BY WithinSteps
  <2>2. CASE v \in Within(a, m)[k]
    BY <1>2, <2>0, <2>1, <2>2
  <2>3. ASSUME NEW w \in Within(a, m)[k], IsEdit(v, w) PROVE Distance(a, v) <= k + 1
    <3>1. w \in Seq(Letters) /\ Distance(a, w) <= k
      BY <1>2, WithinSteps
    <3>2. Distance(a, v) <= Distance(a, w) + 1
      BY <1>0, <2>0, <2>1, <2>3, <3>1, EditIsNear
    <3>. QED BY <2>0, <2>1, <3>1, <3>2
  <2>. QED BY <2>2, <2>3, WithinSteps
<1>3. Nat \subseteq T
  <2> HIDE DEF T
  <2>. QED BY <1>1, <1>2, SetInduction
<1>. QED BY <1>3

\* An edit before all the others.
LEMMA EditFirst ==
  ASSUME NEW u \in Seq(Letters), NEW t \in Seq(Letters), NEW m, IsEdit(t, u), Len(t) <= m
  PROVE  \A k \in Nat : Within(t, m)[k] \subseteq Within(u, m)[k + 1]
<1> DEFINE T == {k \in Nat : Within(t, m)[k] \subseteq Within(u, m)[k + 1]}
<1>1. 0 \in T
  <2>1. Within(t, m)[0] = {t} /\ u \in Within(u, m)[0]
    BY WithinSteps
  <2>2. t \in Within(u, m)[0 + 1]
    BY <2>1, WithinSteps
  <2>. QED BY <2>1, <2>2
<1>2. ASSUME NEW k \in Nat, k \in T PROVE k + 1 \in T
  <2>1. ASSUME NEW v \in Within(t, m)[k + 1] PROVE v \in Within(u, m)[(k + 1) + 1]
    <3>0. k + 1 \in Nat /\ Within(t, m)[k] \subseteq Within(u, m)[k + 1]
      BY <1>2
    <3>1. CASE v \in Within(t, m)[k]
      BY <3>0, <3>1, WithinSteps
    <3>2. ASSUME v \in Seq(Letters), Len(v) <= m, NEW w \in Within(t, m)[k], IsEdit(v, w)
          PROVE  v \in Within(u, m)[(k + 1) + 1]
      <4>1. w \in Within(u, m)[k + 1]
        BY <3>0
      <4>. QED BY <3>0, <3>2, <4>1, WithinSteps
    <3>. QED BY <2>1, <3>1, <3>2, WithinSteps
  <2>2. k + 1 \in Nat
    OBVIOUS
  <2>. QED BY <2>1, <2>2
<1>3. Nat \subseteq T
  <2> HIDE DEF T
  <2>. QED BY <1>1, <1>2, SetInduction
<1>. QED BY <1>3

\* The same edits with a letter behind them.
LEMMA WithinAppended ==
  ASSUME NEW u \in Seq(Letters), NEW x \in Letters, NEW m \in Nat
  PROVE  \A k \in Nat : \A v \in Within(u, m)[k] : Append(v, x) \in Within(Append(u, x), m + 1)[k]
<1> DEFINE T == {k \in Nat : \A v \in Within(u, m)[k] : Append(v, x) \in Within(Append(u, x), m + 1)[k]}
<1>0. \A v \in Seq(Letters) : Append(v, x) \in Seq(Letters) /\ Len(Append(v, x)) = Len(v) + 1 /\ Len(v) \in Nat
  BY AppendProperties, LenProperties
<1>1. 0 \in T
  <2>1. Within(u, m)[0] = {u}
    BY WithinSteps
  <2>2. Within(Append(u, x), m + 1)[0] = {Append(u, x)}
    BY <1>0, WithinSteps
  <2>. QED BY <2>1, <2>2
<1>2. ASSUME NEW k \in Nat, k \in T PROVE k + 1 \in T
  <2>1. ASSUME NEW v \in Within(u, m)[k + 1]
        PROVE  Append(v, x) \in Within(Append(u, x), m + 1)[k + 1]
    <3>0. Append(u, x) \in Seq(Letters)
      BY <1>0
    <3>1. CASE v \in Within(u, m)[k]
      <4>1. Append(v, x) \in Within(Append(u, x), m + 1)[k]
        BY <1>2, <3>1
      <4>. QED BY <3>0, <4>1, WithinSteps
    <3>2. ASSUME v \in Seq(Letters), Len(v) <= m, NEW w \in Within(u, m)[k], IsEdit(v, w)
          PROVE  Append(v, x) \in Within(Append(u, x), m + 1)[k + 1]
      <4>1. Append(w, x) \in Within(Append(u, x), m + 1)[k] /\ w \in Seq(Letters)
        BY <1>2, WithinSteps
      <4>2. IsEdit(Append(v, x), Append(w, x))
        BY <3>2, <4>1, EditAppended
      <4>3. Append(v, x) \in Seq(Letters) /\ Len(Append(v, x)) <= m + 1
        BY <1>0, <3>2
      <4>. QED BY <3>0, <4>1, <4>2, <4>3, WithinSteps
    <3>. QED BY <2>1, <3>1, <3>2, WithinSteps
  <2>. QED BY <2>1
<1>3. Nat \subseteq T
  <2> HIDE DEF T
  <2>. QED BY <1>1, <1>2, SetInduction
<1>. QED BY <1>3

\* The first letters of a word.
First(w, i) == SubSeq(w, 1, i)

LEMMA FirstIs ==
  ASSUME NEW w \in Seq(Letters), NEW i \in 0 .. Len(w)
  PROVE  First(w, i) \in Seq(Letters) /\ Len(First(w, i)) = i /\ \A r \in 1 .. i : First(w, i)[r] = w[r]
<1>1. /\ 1 \in 1 .. Len(w) + 1 /\ i \in 1 - 1 .. Len(w) /\ i - 1 + 1 = i
      /\ \A r \in 1 .. i : 1 + r - 1 = r
  BY LenProperties
<1>2. /\ First(w, i) \in Seq(Letters) /\ Len(First(w, i)) = i - 1 + 1
      /\ \A r \in 1 .. i - 1 + 1 : First(w, i)[r] = w[1 + r - 1]
  BY <1>1, MiddleIs DEF First
<1>. QED BY <1>1, <1>2

\* One letter more is one letter inserted, one letter less one removed.
LEMMA FirstEdits ==
  ASSUME NEW w \in Seq(Letters), NEW i \in 0 .. Len(w), i + 1 <= Len(w)
  PROVE  /\ IsEdit(First(w, i + 1), First(w, i)) /\ IsEdit(First(w, i), First(w, i + 1))
         /\ w[i + 1] \in Letters /\ First(w, i + 1) = Append(First(w, i), w[i + 1])
<1> DEFINE p == First(w, i)
           q == First(w, i + 1)
<1>1. i + 1 \in 0 .. Len(w) /\ i + 1 \in 1 .. Len(w) /\ w[i + 1] \in Letters /\ i \in Nat
  BY LenProperties, ElementOfSeq
<1>2. /\ p \in Seq(Letters) /\ Len(p) = i /\ \A r \in 1 .. i : p[r] = w[r]
      /\ q \in Seq(Letters) /\ Len(q) = i + 1 /\ \A r \in 1 .. i + 1 : q[r] = w[r]
  BY <1>1, FirstIs
<1> HIDE DEF p, q
<1>3. Removed(p, q, i + 1)
  BY <1>1, <1>2 DEF Removed
<1>4. Inserted(q, p, i + 1, w[i + 1])
  BY <1>1, <1>2 DEF Inserted
<1>5. IsEdit(q, p) /\ IsEdit(p, q)
  BY <1>1, <1>2, <1>3, <1>4 DEF IsEdit
<1>6. q = Append(p, w[i + 1])
  <2> DEFINE o == Append(p, w[i + 1])
  <2>1. o \in Seq(Letters) /\ Len(o) = i + 1 /\ o[i + 1] = w[i + 1] /\ \A r \in 1 .. i : o[r] = p[r]
    BY <1>1, <1>2, AppendProperties
  <2> HIDE DEF o
  <2>2. \A r \in 1 .. Len(q) : q[r] = o[r]
    BY <1>1, <1>2, <2>1
  <2>3. q = o
    BY <1>2, <2>1, <2>2, SeqEqual
  <2>. QED BY <2>3 DEF o
<1>. QED BY <1>1, <1>5, <1>6 DEF p, q

\* Another last letter is one letter replaced.
LEMMA LastReplaced ==
  ASSUME NEW w \in Seq(Letters), NEW x \in Letters, NEW y \in Letters
  PROVE  IsEdit(Append(w, y), Append(w, x))
<1> DEFINE p == Append(w, x)
           q == Append(w, y)
           n == Len(w) + 1
<1>1. Len(w) \in Nat
  BY LenProperties
<1>2. /\ Len(p) = n /\ Len(q) = n /\ q[n] = y
      /\ \A r \in 1 .. Len(w) : p[r] = w[r] /\ q[r] = w[r]
  BY AppendProperties
<1> HIDE DEF p, q
<1>3. n \in 1 .. Len(p) /\ Replaced(q, p, n, y)
  BY <1>1, <1>2 DEF Replaced
<1>4. IsEdit(q, p)
  BY <1>3 DEF IsEdit
<1>. QED BY <1>4 DEF p, q

\* What the table says is reached: the first j letters of b from the first i of
\* a, in as many edits as cell i, j says, over words no longer than the two.  A
\* letter of a is removed before anything else is done and a letter of b is
\* inserted in the end, so that no word grows longer.
LEMMA NearIsReached ==
  ASSUME NEW a \in Seq(Letters), NEW b \in Seq(Letters), NEW D, IsTable(a, b, D)
  PROVE  \A i \in 0 .. Len(a) : \A j \in 0 .. Len(b) : \A m \in Nat :
           i <= m /\ j <= m => First(b, j) \in Within(First(a, i), m)[D[i][j]]
<1> DEFINE Reached(i, j) == \A m \in Nat : i <= m /\ j <= m => First(b, j) \in Within(First(a, i), m)[D[i][j]]
           T == {i \in Nat : i <= Len(a) => \A j \in 0 .. Len(b) : Reached(i, j)}
<1>0. Len(a) \in Nat /\ Len(b) \in Nat
  BY LenProperties
<1>a. \A i \in 0 .. Len(a) : First(a, i) \in Seq(Letters) /\ Len(First(a, i)) = i
  BY FirstIs
<1>b. \A j \in 0 .. Len(b) : First(b, j) \in Seq(Letters) /\ Len(First(b, j)) = j
  BY FirstIs
<1>d. \A i \in 0 .. Len(a) : \A j \in 0 .. Len(b) : D[i][j] \in Nat
  BY DEF IsTable
\* One letter inserted in the end.
<1>1. ASSUME NEW i \in 0 .. Len(a), NEW j \in 0 .. Len(b), j + 1 <= Len(b), Reached(i, j),
             D[i][j + 1] = D[i][j] + 1
      PROVE  Reached(i, j + 1)
  <2> SUFFICES ASSUME NEW m \in Nat, i <= m, j + 1 <= m
               PROVE  First(b, j + 1) \in Within(First(a, i), m)[D[i][j + 1]]
    OBVIOUS
  <2>1. j + 1 \in 0 .. Len(b) /\ j <= m
    BY <1>0, <1>1
  <2>2. First(b, j) \in Within(First(a, i), m)[D[i][j]]
    BY <1>1, <2>1
  <2>3. IsEdit(First(b, j + 1), First(b, j))
    BY <1>1, FirstEdits
  <2>4. First(b, j + 1) \in Seq(Letters) /\ Len(First(b, j + 1)) <= m
    BY <1>b, <2>1
  <2>5. First(b, j + 1) \in Within(First(a, i), m)[D[i][j] + 1]
    BY <1>a, <1>d, <2>2, <2>3, <2>4, WithinSteps
  <2>. QED BY <1>1, <2>5
\* One letter removed in the beginning.
<1>2. ASSUME NEW i \in 0 .. Len(a), NEW j \in 0 .. Len(b), i + 1 <= Len(a), Reached(i, j),
             D[i + 1][j] = D[i][j] + 1
      PROVE  Reached(i + 1, j)
  <2> SUFFICES ASSUME NEW m \in Nat, i + 1 <= m, j <= m
               PROVE  First(b, j) \in Within(First(a, i + 1), m)[D[i + 1][j]]
    OBVIOUS
  <2>1. i + 1 \in 0 .. Len(a) /\ i <= m
    BY <1>0, <1>2
  <2>2. First(b, j) \in Within(First(a, i), m)[D[i][j]]
    BY <1>2, <2>1
  <2>3. IsEdit(First(a, i), First(a, i + 1))
    BY <1>2, FirstEdits
  <2>4. Len(First(a, i)) <= m
    BY <1>a, <2>1
  <2>5. Within(First(a, i), m)[D[i][j]] \subseteq Within(First(a, i + 1), m)[D[i][j] + 1]
    BY <1>a, <1>d, <2>1, <2>3, <2>4, EditFirst
  <2>. QED BY <1>2, <2>2, <2>5
\* The last letter kept or replaced.
<1>3. ASSUME NEW i \in 0 .. Len(a), NEW j \in 0 .. Len(b), i + 1 <= Len(a), j + 1 <= Len(b),
             Reached(i, j),
             D[i + 1][j + 1] = D[i][j] + Substitute(a, b, i + 1, j + 1)
      PROVE  Reached(i + 1, j + 1)
  <2> SUFFICES ASSUME NEW m \in Nat, i + 1 <= m, j + 1 <= m
               PROVE  First(b, j + 1) \in Within(First(a, i + 1), m)[D[i + 1][j + 1]]
    OBVIOUS
  <2> DEFINE x == a[i + 1]
             y == b[j + 1]
  <2>1. i + 1 \in 0 .. Len(a) /\ j + 1 \in 0 .. Len(b) /\ m - 1 \in Nat /\ i <= m - 1 /\ j <= m - 1
        /\ (m - 1) + 1 = m
    BY <1>0, <1>3
  <2>2. First(b, j) \in Within(First(a, i), m - 1)[D[i][j]]
    BY <1>3, <2>1
  <2>3. /\ x \in Letters /\ First(a, i + 1) = Append(First(a, i), x)
        /\ y \in Letters /\ First(b, j + 1) = Append(First(b, j), y)
    BY <1>3, FirstEdits
  <2>4. Append(First(b, j), x) \in Within(First(a, i + 1), m)[D[i][j]]
    <3>1. Append(First(b, j), x) \in Within(Append(First(a, i), x), (m - 1) + 1)[D[i][j]]
      BY <1>a, <1>d, <2>1, <2>2, <2>3, WithinAppended
    <3>. QED BY <2>1, <2>3, <3>1
  <2>5. CASE x = y
    <3>1. Substitute(a, b, i + 1, j + 1) = 0
      BY <2>5 DEF Substitute
    <3>2. D[i + 1][j + 1] = D[i][j]
      BY <1>3, <1>d, <3>1
    <3>. QED BY <2>3, <2>4, <2>5, <3>2
  <2>6. CASE x # y
    <3>1. Substitute(a, b, i + 1, j + 1) = 1
      BY <2>6 DEF Substitute
    <3>2. D[i + 1][j + 1] = D[i][j] + 1
      BY <1>3, <3>1
    <3>3. IsEdit(First(b, j + 1), Append(First(b, j), x))
      BY <1>b, <2>3, LastReplaced
    <3>4. First(b, j + 1) \in Seq(Letters) /\ Len(First(b, j + 1)) <= m
      BY <1>b, <2>1
    <3>5. First(b, j + 1) \in Within(First(a, i + 1), m)[D[i][j] + 1]
      BY <1>a, <1>d, <2>1, <2>4, <3>3, <3>4, WithinSteps
    <3>. QED BY <3>2, <3>5
  <2>. QED BY <2>5, <2>6
<1>4. Reached(0, 0)
  <2> SUFFICES ASSUME NEW m \in Nat PROVE First(b, 0) \in Within(First(a, 0), m)[D[0][0]]
    OBVIOUS
  <2>1. 0 \in 0 .. Len(a) /\ 0 \in 0 .. Len(b)
    BY <1>0
  <2>2. First(b, 0) = First(a, 0)
    <3>1. /\ First(a, 0) \in Seq(Letters) /\ First(b, 0) \in Seq(Letters)
          /\ Len(First(a, 0)) = 0 /\ Len(First(b, 0)) = 0
      BY <1>a, <1>b, <2>1
    <3>2. \A r \in 1 .. Len(First(b, 0)) : First(b, 0)[r] = First(a, 0)[r]
      BY <3>1
    <3>. QED BY <3>1, <3>2, SeqEqual
  <2>3. D[0][0] = 0
    BY <2>1 DEF IsTable
  <2>. QED BY <1>a, <2>1, <2>2, <2>3, WithinSteps
<1>5. ASSUME NEW j \in 0 .. Len(b), j + 1 <= Len(b) PROVE D[0][j + 1] = D[0][j] + 1
  <2>1. j + 1 \in 0 .. Len(b)
    BY <1>0, <1>5
  <2>. QED BY <2>1 DEF IsTable
<1>6. ASSUME NEW i \in 0 .. Len(a), i + 1 <= Len(a) PROVE D[i + 1][0] = D[i][0] + 1
  <2>1. i + 1 \in 0 .. Len(a)
    BY <1>0, <1>6
  <2>. QED BY <2>1 DEF IsTable
<1>7. ASSUME NEW i \in 0 .. Len(a), NEW j \in 0 .. Len(b), i + 1 <= Len(a), j + 1 <= Len(b)
      PROVE  \/ D[i + 1][j + 1] = D[i + 1][j] + 1
             \/ D[i + 1][j + 1] = D[i][j + 1] + 1
             \/ D[i + 1][j + 1] = D[i][j] + Substitute(a, b, i + 1, j + 1)
  <2>1. IsCell(D[i + 1][j + 1], D[i + 1][j], D[i][j + 1], D[i][j],
               Substitute(a, b, i + 1, j + 1))
    BY <1>0, <1>7, TableCell
  <2>. QED BY <2>1 DEF IsCell
<1> HIDE DEF Reached
<1>8. 0 \in T
  <2> DEFINE U == {j \in Nat : j <= Len(b) => Reached(0, j)}
  <2>1. 0 \in U
    BY <1>4
  <2>2. ASSUME NEW j \in Nat, j \in U PROVE j + 1 \in U
    <3> SUFFICES ASSUME j + 1 <= Len(b) PROVE Reached(0, j + 1)
      OBVIOUS
    <3>1. j \in 0 .. Len(b) /\ 0 \in 0 .. Len(a) /\ Reached(0, j)
      BY <1>0, <2>2
    <3>. QED BY <1>1, <1>5, <3>1
  <2>3. Nat \subseteq U
    <3> HIDE DEF U
    <3>. QED BY <2>1, <2>2, SetInduction
  <2>. QED BY <2>3
<1>9. ASSUME NEW i \in Nat, i \in T PROVE i + 1 \in T
  <2> SUFFICES ASSUME i + 1 <= Len(a) PROVE \A j \in 0 .. Len(b) : Reached(i + 1, j)
    OBVIOUS
  <2>0. i \in 0 .. Len(a) /\ i + 1 \in 0 .. Len(a) /\ \A j \in 0 .. Len(b) : Reached(i, j)
    BY <1>0, <1>9
  <2> DEFINE U == {j \in Nat : j <= Len(b) => Reached(i + 1, j)}
  <2>1. 0 \in U
    <3>1. 0 \in 0 .. Len(b)
      BY <1>0
    <3>. QED BY <1>2, <1>6, <2>0, <3>1
  <2>2. ASSUME NEW j \in Nat, j \in U PROVE j + 1 \in U
    <3> SUFFICES ASSUME j + 1 <= Len(b) PROVE Reached(i + 1, j + 1)
      OBVIOUS
    <3>1. j \in 0 .. Len(b) /\ j + 1 \in 0 .. Len(b) /\ Reached(i + 1, j)
      BY <1>0, <2>2
    <3>2. Reached(i, j) /\ Reached(i, j + 1)
      BY <2>0, <3>1
    <3>3. CASE D[i + 1][j + 1] = D[i + 1][j] + 1
      BY <1>1, <2>0, <3>1, <3>3
    <3>4. CASE D[i + 1][j + 1] = D[i][j + 1] + 1
      BY <1>2, <2>0, <3>1, <3>2, <3>4
    <3>5. CASE D[i + 1][j + 1] = D[i][j] + Substitute(a, b, i + 1, j + 1)
      BY <1>3, <2>0, <3>1, <3>2, <3>5
    <3>. QED BY <1>7, <2>0, <3>1, <3>3, <3>4, <3>5
  <2>3. Nat \subseteq U
    <3> HIDE DEF U
    <3>. QED BY <2>1, <2>2, SetInduction
  <2>. QED BY <2>3
<1>10. Nat \subseteq T
  <2> HIDE DEF T
  <2>. QED BY <1>8, <1>9, SetInduction
<1>11. \A i \in 0 .. Len(a) : \A j \in 0 .. Len(b) : Reached(i, j)
  BY <1>0, <1>10
<1>. QED BY <1>11 DEF Reached

\* The least number of edits.
LEMMA DistanceIsLeast ==
  ASSUME NEW a \in Seq(Letters), NEW b \in Seq(Letters), NEW m \in Nat, Len(a) <= m, Len(b) <= m
  PROVE  /\ Distance(a, b) \in 0 .. m
         /\ b \in Within(a, m)[Distance(a, b)]
         /\ \A k \in Nat : b \in Within(a, m)[k] => Distance(a, b) <= k
<1>1. Len(a) \in Nat /\ Len(b) \in Nat /\ Len(a) \in 0 .. Len(a) /\ Len(b) \in 0 .. Len(b)
  BY LenProperties
<1> DEFINE D == Rows(a, b)
<1>2. IsTable(a, b, D)
  BY <1>1, RowsAreTable
<1> HIDE DEF D
<1>3. D[Len(a)][Len(b)] \in Nat
  BY <1>1, <1>2 DEF IsTable
<1>4. D[Len(a)][Len(b)] <= Len(a) \/ D[Len(a)][Len(b)] <= Len(b)
  BY <1>1, <1>2, DistanceBounded
<1>5. First(b, Len(b)) \in Within(First(a, Len(a)), m)[D[Len(a)][Len(b)]]
  BY <1>1, <1>2, NearIsReached
<1>6. First(a, Len(a)) = a /\ First(b, Len(b)) = b
  BY SubSeqFull DEF First
<1>7. D[Len(a)][Len(b)] \in 0 .. m
  BY <1>1, <1>3, <1>4
<1>8. Distance(a, b) = D[Len(a)][Len(b)]
  BY DEF Distance, D
<1>. QED BY <1>5, <1>6, <1>7, <1>8, ReachedIsNear

\* Names are words, and there is a longest one.
LEMMA NamesAreWords ==
  ASSUME NEW n \in Name
  PROVE  n \in Seq(Letters) /\ Len(n) \in Nat
<1>1. n \in Seq(ElementsOf(n))
  BY NameAssumption
<1>2. ElementsOf(n) \subseteq Letters
  BY DEF ElementsOf, Letters, Seqs!Range
<1>3. n \in Seq(Letters)
  BY <1>1, <1>2, SeqMonotonic
<1>. QED BY <1>3, LenProperties

LEMMA LongestIs ==
  ASSUME Name # {}
  PROVE  LongestName \in Nat /\ \A a \in Name : Len(a) <= LongestName
<1> DEFINE lengths == {Len(a) : a \in Name}
<1>1. lengths # {} /\ \A n \in lengths : n \in Nat
  BY NamesAreWords
<1>2. IsFiniteSet(lengths)
  <2> DEFINE f == [a \in Name |-> Len(a)]
  <2>1. lengths = {f[a] : a \in Name}
    OBVIOUS
  <2>2. IsFiniteSet(Name)
    BY NameAssumption
  <2> HIDE DEF f, lengths
  <2>. QED BY <2>1, <2>2, ImageFinite
<1>3. \E n \in lengths : \A k \in lengths : k <= n
  <2> HIDE DEF lengths
  <2>0. lengths \in SUBSET Nat
    BY <1>1
  <2>1. PICK n \in Nat : \A k \in lengths : k <= n
    BY <1>2, <2>0, FiniteBound
  <2>. QED BY <1>1, <2>0, <2>1, GreatestNatural
<1>4. LongestName = CHOOSE n \in lengths : \A a \in Name : Len(a) <= n
  BY DEF LongestName
<1>. QED BY <1>1, <1>3, <1>4

\* The table of distances holds that of each pair.
LEMMA NameDistanceIs ==
  ASSUME NEW a \in Name, NEW b \in Name
  PROVE  NameDistance(a, b) = Distance(a, b)
<1>1. <<a, b, Levenshtein(a, b)>> \in Distances
  BY DEF Distances
<1>2. ASSUME NEW t \in Distances, t[1] = a, t[2] = b PROVE t[3] = Levenshtein(a, b)
  <2>1. PICK c \in Name, d \in Name : t = <<c, d, Levenshtein(c, d)>>
    BY DEF Distances
  <2>. QED BY <1>2, <2>1
<1>3. NameDistance(a, b) = Levenshtein(a, b)
  BY <1>1, <1>2 DEF NameDistance
<1>. QED BY <1>3, LevenshteinIsCorner DEF Distance

\* The sets of the property are those above, over words as long as names are.
LEMMA WithinEditsIs ==
  ASSUME NEW a \in Name, NEW k \in 0 .. LongestName
  PROVE  WithinEdits[a][k] = Within(a, LongestName)[k]
BY DEF WithinEdits, Within, IsWithin, NextWithin

\* Both halves together.
LEMMA NamesAreMeasured ==
  ASSUME NEW a \in Name, NEW b \in Name
  PROVE  NameDistance(a, b) = Smallest({k \in 0 .. LongestName : b \in WithinEdits[a][k]})
<1> DEFINE K == {k \in 0 .. LongestName : b \in WithinEdits[a][k]}
           d == Distance(a, b)
<1>1. /\ a \in Seq(Letters) /\ b \in Seq(Letters)
      /\ LongestName \in Nat /\ Len(a) <= LongestName /\ Len(b) <= LongestName
  BY NamesAreWords, LongestIs
<1>2. /\ d \in 0 .. LongestName
      /\ b \in Within(a, LongestName)[d]
      /\ \A k \in Nat : b \in Within(a, LongestName)[k] => d <= k
  BY <1>1, DistanceIsLeast
<1>3. \A k \in 0 .. LongestName : b \in WithinEdits[a][k] <=> b \in Within(a, LongestName)[k]
  BY WithinEditsIs
<1> HIDE DEF d
<1>4. d \in K /\ \A k \in K : d <= k
  BY <1>1, <1>2, <1>3
<1>5. K \subseteq Nat
  BY <1>1
<1> HIDE DEF K
<1>6. Smallest(K) = d
  <2>1. \E x \in K : \A y \in K : x <= y
    BY <1>4
  <2>2. Smallest(K) \in K /\ \A y \in K : Smallest(K) <= y
    BY <2>1 DEF Smallest
  <2>3. Smallest(K) \in Nat /\ d \in Nat /\ Smallest(K) <= d /\ d <= Smallest(K)
    BY <1>4, <1>5, <2>2
  <2>. QED BY <2>3
<1>. QED BY <1>6, NameDistanceIs DEF d, K

\* similarity.py:41 "Normalized Levenshtein ratio": for every two names that a
\* sync compares, what the two rows compute is the least number of insertions,
\* deletions and substitutions that lead from the one to the other.
THEOREM SyncMeasuresEdits == Spec => []DistanceIsEdits
<1>1. Init => SyncInv /\ ColumnsOnce
  BY DEF Init, SyncInv, Given, ColumnsOnce
<1>2. SyncInv /\ ColumnsOnce /\ [Next]_syncVars => (SyncInv /\ ColumnsOnce)'
  BY NextKeepsDiffs, NextKeepsColumns
<1>3. SyncInv => DistanceIsEdits
  <2> SUFFICES ASSUME SyncInv, phase = "start", NEW c \in OfKind(schema, "column"), NEW r \in DOMAIN file,
                      NEW d \in DOMAIN file[r].columns
               PROVE  LET a == Old(c).name
                          b == file[r].columns[d].name
                      IN  NameDistance(a, b) =
                            Smallest({k \in 0 .. LongestName : b \in WithinEdits[a][k]})
    BY DEF DistanceIsEdits
  <2>1. Given
    BY DEF SyncInv
  <2>2. Old(c).name \in Name
    BY <2>1, GivenSchema DEF OfKind, Old, Objects
  <2>3. file[r].columns[d].name \in Name
    BY <2>1, GivenFile DEF News
  <2>. QED BY <2>2, <2>3, NamesAreMeasured
<1>. QED BY <1>1, <1>2, <1>3, PTL DEF Spec
=============================================================================
