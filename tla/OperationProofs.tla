-------------------------- MODULE OperationProofs --------------------------
(* What a merge and a migration rest on, whatever the operations are: those  *)
(* a merge does not ask about can be replayed in either order, which side is *)
(* merged into which is of no account for what it asks, a history of such    *)
(* operations has one replay, the sort of the operations is one, and what is *)
(* printed in its order makes what replay makes.                             *)
EXTENDS EmitDdl, ReplayProofs

----------------------------------------------------------------------------
(* Operations that the merge looks at on its own commute.                    *)

\* Tables are in no table.
Flat(objects) ==
  \A i \in DOMAIN objects :
    LET t == objects[i].table
    IN  t # NoId /\ t \in DOMAIN objects => objects[t].table = NoId

\* What can be made on the schema or, on the other side, on one like it: a new
\* object's id is new, it is a table or is in one, and what is dropped as a
\* table is one.
WellMade(objects, o) ==
  /\ o.type \in Variants
  /\ o.id # NoId
  /\ o.type \in Creating => o.id \notin DOMAIN objects /\ IsFunction(o.object)
  /\ o.type = "CreateTable" => o.object.table = NoId
  /\ o.type \in Creating \ {"CreateTable"} =>
       /\ o.object.table # NoId
       /\ o.object.table \in DOMAIN objects => objects[o.object.table].table = NoId
  /\ o.type \in Destructive /\ o.id \in DOMAIN objects =>
       (o.type = "DropTable" <=> objects[o.id].table = NoId)

\* Two schemas, of which one is broken only if the other is.
Same(s, t) == s = t \/ (s.broken /\ t.broken)

\* Two operations on two objects, neither of which drops the table that the other
\* adds to.
Apart(objects, x, y) ==
  /\ AreObjects(objects) /\ Flat(objects)
  /\ WellMade(objects, x) /\ WellMade(objects, y) /\ x.id # y.id
  /\ x.type \in Creating /\ y.type \in Creating =>
       x.object.table # y.id /\ y.object.table # x.id
  /\ x.type \in Creating /\ y.type \in {"DropTable", "DropColumn"} => x.object.table # y.id
  /\ y.type \in Creating /\ x.type \in {"DropTable", "DropColumn"} => y.object.table # x.id

\* Two additions.
LEMMA AddsCommute ==
  ASSUME NEW objects, NEW x, NEW y, Apart(objects, x, y),
         x.type \in Creating, y.type \in Creating
  PROVE  Added(Added(objects, x), y) = Added(Added(objects, y), x)
<1>1. /\ DOMAIN Added(objects, x) \subseteq DOMAIN objects \cup {x.id}
      /\ DOMAIN objects \subseteq DOMAIN Added(objects, x)
      /\ DOMAIN Added(objects, y) \subseteq DOMAIN objects \cup {y.id}
      /\ DOMAIN objects \subseteq DOMAIN Added(objects, y)
    BY DEF Added, Put
<1>2. /\ y.object.table \in DOMAIN Added(objects, x) \cup {NoId}
           <=> y.object.table \in DOMAIN objects \cup {NoId}
      /\ x.object.table \in DOMAIN Added(objects, y) \cup {NoId}
           <=> x.object.table \in DOMAIN objects \cup {NoId}
    BY <1>1 DEF Apart
<1>3. Put(Put(objects, x.id, x.object), y.id, y.object)
        = Put(Put(objects, y.id, y.object), x.id, x.object)
    BY DEF Put, Apart
<1>. QED
    BY <1>2, <1>3 DEF Added

\* An addition and a set operation.
LEMMA AddSetCommute ==
  ASSUME NEW objects, NEW x, NEW y, Apart(objects, x, y),
         x.type \in Creating, y.type \in DOMAIN SetField
  PROVE  Added(Changed(objects, y), x) = Changed(Added(objects, x), y)
<1>1. DOMAIN Changed(objects, y) = DOMAIN objects
    BY DEF Changed
<1>2. Put(Changed(objects, y), x.id, x.object) = Changed(Put(objects, x.id, x.object), y)
    BY DEF Put, Changed, Apart
<1>. QED
    BY <1>1, <1>2 DEF Added

\* Two set operations.
LEMMA SetsCommute ==
  ASSUME NEW objects, NEW x, NEW y, Apart(objects, x, y)
  PROVE  Changed(Changed(objects, y), x) = Changed(Changed(objects, x), y)
  BY DEF Changed, Apart

\* A field is set, the object stays in its table.
LEMMA ChangedStays ==
  ASSUME NEW objects, AreObjects(objects), NEW o, o.type \in DOMAIN SetField
  PROVE  /\ DOMAIN Changed(objects, o) = DOMAIN objects
         /\ \A i \in DOMAIN objects : Changed(objects, o)[i].table = objects[i].table
<1>1. SetField[o.type] # "table"
    BY DEF SetField, MutationField
<1>2. ASSUME NEW r, IsFunction(r)
      PROVE  [r EXCEPT ![SetField[o.type]] = o.value].table = r.table
    BY <1>1, <1>2 DEF IsFunction
<1>. QED
    BY <1>2 DEF Changed, AreObjects

\* A drop and a set operation.
LEMMA DropSetCommute ==
  ASSUME NEW objects, AreObjects(objects), NEW x, NEW y, y.type \in DOMAIN SetField
  PROVE  Dropped(Changed(objects, y), x.id) = Changed(Dropped(objects, x.id), y)
  BY ChangedStays DEF Changed, Dropped

\* An addition and a drop.
LEMMA AddDropCommute ==
  ASSUME NEW objects, NEW x, NEW y, Apart(objects, x, y),
         x.type \in Creating, y.type \in Destructive, y.id \in DOMAIN objects
  PROVE  Added(Dropped(objects, y.id), x) = Dropped(Added(objects, x), y.id)
<1>1. x.object.table # y.id
    BY DEF Apart, WellMade, Creating, Destructive
<1>2. x.object.table \in DOMAIN Dropped(objects, y.id) \cup {NoId}
        <=> x.object.table \in DOMAIN objects \cup {NoId}
    BY <1>1 DEF Dropped, Apart, WellMade, Creating
<1>3. Put(Dropped(objects, y.id), x.id, x.object) = Dropped(Put(objects, x.id, x.object), y.id)
    BY <1>1 DEF Put, Dropped, Apart
<1>. QED
    BY <1>2, <1>3 DEF Added

\* Two drops, while both objects are there.
LEMMA DropsCommute ==
  ASSUME NEW objects, NEW x, NEW y
  PROVE  Dropped(Dropped(objects, y.id), x.id) = Dropped(Dropped(objects, x.id), y.id)
  BY DEF Dropped

\* What is not there is not dropped; if it should have been a table, replay
\* raises, and nothing after it counts.
LEMMA ApplyMiss ==
  ASSUME NEW objects, NEW o, o.type \in Destructive, o.id \notin DOMAIN objects
  PROVE  /\ o.type # "DropTable" => Apply(Fine(objects), o) = Fine(objects)
         /\ o.type = "DropTable" => Apply(Fine(objects), o) = [broken |-> TRUE, objects |-> objects]
<1>1. Apply(Fine(objects), o) = [broken |-> (o.type = "DropTable"), objects |-> objects]
    BY ApplyDrop
<1>2. ASSUME o.type # "DropTable"
      PROVE  (o.type = "DropTable") = FALSE
    BY <1>2
<1>3. ASSUME o.type = "DropTable"
      PROVE  (o.type = "DropTable") = TRUE
    BY <1>3
<1>. QED
    BY <1>1, <1>2, <1>3, Zenon DEF Fine

\* A replay that has raised has raised for good.
LEMMA StaysBroken ==
  ASSUME NEW objects, NEW o
  PROVE  Apply([broken |-> TRUE, objects |-> objects], o).broken
<1>1. [broken |-> TRUE, objects |-> objects].broken
    OBVIOUS
<1>. QED
    BY <1>1, ApplyBroken

\* Operations leave objects.
LEMMA AddedObjects ==
  ASSUME NEW objects, AreObjects(objects), NEW o, IsFunction(o.object)
  PROVE  AreObjects(Added(objects, o))
<1>1. AreObjects(Put(objects, o.id, o.object))
    BY DEF AreObjects, IsFunction, Put
<1>. QED
    BY <1>1 DEF Added

\* A drop leaves objects.
LEMMA DroppedObjects ==
  ASSUME NEW objects, AreObjects(objects), NEW id
  PROVE  AreObjects(Dropped(objects, id))
  BY DEF AreObjects, IsFunction, Dropped

\* A set operation leaves objects.
LEMMA ChangedObjects ==
  ASSUME NEW objects, AreObjects(objects), NEW o
  PROVE  AreObjects(Changed(objects, o))
<1>1. ASSUME NEW r, IsFunction(r)
      PROVE  IsFunction([r EXCEPT ![SetField[o.type]] = o.value])
    BY <1>1 DEF IsFunction
<1>. QED
    BY <1>1 DEF AreObjects, Changed, IsFunction

\* Of two drops of what is there the second may find its object gone with its
\* table: the schema is the same as if it had still been there.
LEMMA DropTwo ==
  ASSUME NEW objects, NEW o, NEW p, Apart(objects, o, p),
         o.type \in Destructive, p.type \in Destructive,
         o.id \in DOMAIN objects, p.id \in DOMAIN objects
  PROVE  Apply(Apply(Fine(objects), o), p) = Fine(Dropped(Dropped(objects, o.id), p.id))
<1> DEFINE left == Dropped(objects, o.id)
<1>1. Apply(Fine(objects), o) = Fine(left)
    BY ApplyDrop
<1>2. CASE p.id \in DOMAIN left
    BY <1>1, <1>2, ApplyDrop
<1>3. CASE p.id \notin DOMAIN left
  <2>1. objects[p.id].table = o.id /\ o.id # NoId /\ p.id # NoId
      BY <1>3 DEF Dropped, Apart, WellMade
  <2>2. p.type # "DropTable"
      BY <2>1 DEF Apart, WellMade
  <2>3. \A j \in DOMAIN objects : objects[j].table # p.id
      BY <2>1 DEF Apart, Flat
  <2>4. Dropped(left, p.id) = left
      BY <1>3, <2>3 DEF Dropped
  <2> HIDE DEF left
  <2>5. Apply(Fine(left), p) = Fine(left)
      BY <1>3, <2>2, ApplyMiss
  <2>. QED
      BY <1>1, <2>4, <2>5 DEF left
<1>. QED
    BY <1>2, <1>3

\* Two drops of which one finds its object gone.
LEMMA DropMissed ==
  ASSUME NEW objects, NEW o, NEW p, o.type \in Destructive, p.type \in Destructive,
         p.id \notin DOMAIN objects
  PROVE  Same(Apply(Apply(Fine(objects), o), p), Apply(Apply(Fine(objects), p), o))
<1> DEFINE broken(objs) == [broken |-> TRUE, objects |-> objs]
<1>1. \A objs : broken(objs).broken
    OBVIOUS
<1>2. Apply(broken(objects), o).broken /\ Apply(broken(objects), p).broken
    BY StaysBroken
<1> HIDE DEF broken
<1>3. CASE o.id \in DOMAIN objects
  <2>1. Apply(Fine(objects), o) = Fine(Dropped(objects, o.id))
      BY <1>3, ApplyDrop
  <2>2. p.id \notin DOMAIN Dropped(objects, o.id)
      BY DEF Dropped
  <2>3. CASE p.type # "DropTable"
      BY <2>1, <2>2, <2>3, ApplyMiss DEF Same
  <2>4. CASE p.type = "DropTable"
    <3>1. /\ Apply(Fine(objects), p) = broken(objects)
          /\ Apply(Fine(Dropped(objects, o.id)), p) = broken(Dropped(objects, o.id))
        BY <2>2, <2>4, ApplyMiss DEF broken
    <3>. QED
        BY <1>1, <1>2, <2>1, <3>1 DEF Same
  <2>. QED
      BY <2>3, <2>4
<1>4. CASE o.id \notin DOMAIN objects
  <2>1. /\ Apply(Fine(objects), o) = IF o.type = "DropTable" THEN broken(objects) ELSE Fine(objects)
        /\ Apply(Fine(objects), p) = IF p.type = "DropTable" THEN broken(objects) ELSE Fine(objects)
      BY <1>4, ApplyMiss DEF broken
  <2>2. \A q \in {o, p} : Apply(broken(objects), q) = broken(objects)
      BY ApplyBroken DEF broken
  <2>. QED
      BY <1>1, <2>1, <2>2 DEF Same
<1>. QED
    BY <1>3, <1>4

\* What the cross-object pass reports: what refers to something that the other side
\* has destroyed.
LEMMA CrossObjectIs ==
  ASSUME NEW opsA, NEW opsB
  PROVE  CrossObject(opsA, opsB)
           = {o \in ElementsOf(opsB) : Referenced(o) \cap Destroyed(opsA) # {}}
               \cup {o \in ElementsOf(opsA) : Referenced(o) \cap Destroyed(opsB) # {}}
<1>1. \A adding, destroying :
        {c[1] : c \in FindConflicts(adding, destroying)}
          = {o \in ElementsOf(adding) : Referenced(o) \cap Destroyed(destroying) # {}}
  <2> SUFFICES ASSUME NEW adding, NEW destroying
               PROVE  {c[1] : c \in FindConflicts(adding, destroying)}
                        = {o \in ElementsOf(adding) : Referenced(o) \cap Destroyed(destroying) # {}}
      OBVIOUS
  <2>1. ASSUME NEW o \in ElementsOf(adding), NEW d \in Referenced(o) \cap Destroyed(destroying)
        PROVE  <<o, d>> \in FindConflicts(adding, destroying) /\ <<o, d>>[1] = o
      BY DEF FindConflicts
  <2>2. ASSUME NEW c \in FindConflicts(adding, destroying)
        PROVE  c[1] \in ElementsOf(adding) /\ Referenced(c[1]) \cap Destroyed(destroying) # {}
      BY DEF FindConflicts
  <2>. QED
      BY <2>1, <2>2
<1>2. \A X, Y : {c[1] : c \in X \cup Y} = {c[1] : c \in X} \cup {c[1] : c \in Y}
    OBVIOUS
<1>3. CrossObject(opsA, opsB) = {c[1] : c \in FindConflicts(opsB, opsA)}
                                  \cup {c[1] : c \in FindConflicts(opsA, opsB)}
    BY <1>2 DEF CrossObject
<1>. QED
    BY <1>1, <1>3

\* decisions.md:170 rejects what "depends on merge direction" or on the order
\* of replay: two operations on different objects that the cross-object pass
\* does not report give the same schema in either order, whatever they are.
\* Either order raises if the other does.
THEOREM UnreportedOperationsCommute ==
  ASSUME NEW objects, AreObjects(objects), Flat(objects),
         NEW x, NEW y, WellMade(objects, x), WellMade(objects, y), x.id # y.id,
         x.type \in Creating /\ y.type \in Creating =>
           x.object.table # y.id /\ y.object.table # x.id,
         CrossObject(<<x>>, <<y>>) = {}
  PROVE  Same(Apply(Apply(Fine(objects), x), y), Apply(Apply(Fine(objects), y), x))
<1> DEFINE Goal(o, p) == Same(Apply(Apply(Fine(objects), o), p), Apply(Apply(Fine(objects), p), o))
<1>1. ElementsOf(<<x>>) = {x} /\ ElementsOf(<<y>>) = {y}
    BY SingleElement
<1>2. /\ x.type \in Creating /\ y.type \in {"DropTable", "DropColumn"} => x.object.table # y.id
      /\ y.type \in Creating /\ x.type \in {"DropTable", "DropColumn"} => y.object.table # x.id
  <2>1. Referenced(x) \cap Destroyed(<<y>>) = {} /\ Referenced(y) \cap Destroyed(<<x>>) = {}
      BY <1>1, CrossObjectIs
  <2>2. /\ y.type \in {"DropTable", "DropColumn"} => y.id \in Destroyed(<<y>>)
        /\ x.type \in {"DropTable", "DropColumn"} => x.id \in Destroyed(<<x>>)
      BY <1>1 DEF Destroyed
  <2>3. /\ x.type \in Creating \ {"CreateTable"} => x.object.table \in Referenced(x)
        /\ y.type \in Creating \ {"CreateTable"} => y.object.table \in Referenced(y)
      BY DEF Referenced, Creating
  <2>. QED
      BY <2>1, <2>2, <2>3 DEF WellMade
<1>3. Apart(objects, x, y) /\ Apart(objects, y, x)
    BY <1>2 DEF Apart
<1>4. ASSUME NEW o, NEW p, Apart(objects, o, p), o.type \in Creating
      PROVE  Goal(o, p) /\ Goal(p, o)
  <2>1. Apply(Fine(objects), o) = Fine(Added(objects, o))
      BY <1>4, ApplyAdd
  <2>2. CASE p.type \in Creating
    <3>1. Apply(Fine(objects), p) = Fine(Added(objects, p))
        BY <2>2, ApplyAdd
    <3>2. /\ Apply(Fine(Added(objects, o)), p) = Fine(Added(Added(objects, o), p))
          /\ Apply(Fine(Added(objects, p)), o) = Fine(Added(Added(objects, p), o))
        BY <1>4, <2>2, ApplyAdd
    <3>3. Added(Added(objects, o), p) = Added(Added(objects, p), o)
        BY <1>4, <2>2, AddsCommute
    <3>. QED
        BY <2>1, <3>1, <3>2, <3>3 DEF Same
  <2>3. CASE p.type \in DOMAIN SetField
    <3>1. Apply(Fine(objects), p) = Fine(Changed(objects, p))
        BY <2>3, ApplySet
    <3>2. Apply(Fine(Changed(objects, p)), o) = Fine(Added(Changed(objects, p), o))
        BY <1>4, ApplyAdd
    <3>3. Apply(Fine(Added(objects, o)), p) = Fine(Changed(Added(objects, o), p))
      <4>1. AreObjects(Added(objects, o))
          BY <1>4, AddedObjects DEF Apart, WellMade
      <4>. QED
          BY <2>3, <4>1, ApplySet
    <3>4. Added(Changed(objects, p), o) = Changed(Added(objects, o), p)
        BY <1>4, <2>3, AddSetCommute
    <3>. QED
        BY <2>1, <3>1, <3>2, <3>3, <3>4 DEF Same
  <2>4. CASE p.type \in Destructive /\ p.id \in DOMAIN objects
    <3>1. Apply(Fine(objects), p) = Fine(Dropped(objects, p.id))
        BY <2>4, ApplyDrop
    <3>2. Apply(Fine(Dropped(objects, p.id)), o) = Fine(Added(Dropped(objects, p.id), o))
        BY <1>4, ApplyAdd
    <3>3. Apply(Fine(Added(objects, o)), p) = Fine(Dropped(Added(objects, o), p.id))
      <4>1. p.id \in DOMAIN Added(objects, o)
          BY <2>4 DEF Added, Put
      <4>. QED
          BY <2>4, <4>1, ApplyDrop
    <3>4. Added(Dropped(objects, p.id), o) = Dropped(Added(objects, o), p.id)
        BY <1>4, <2>4, AddDropCommute
    <3>. QED
        BY <2>1, <3>1, <3>2, <3>3, <3>4 DEF Same
  <2>5. CASE p.type \in Destructive /\ p.id \notin DOMAIN objects
    <3>1. p.id \notin DOMAIN Added(objects, o)
        BY <1>4, <2>5 DEF Added, Put, Apart
    <3>2. CASE p.type # "DropTable"
        BY <2>1, <2>5, <3>1, <3>2, ApplyMiss DEF Same
    <3>3. CASE p.type = "DropTable"
      <4>1. /\ Apply(Fine(objects), p) = [broken |-> TRUE, objects |-> objects]
            /\ Apply(Fine(Added(objects, o)), p) = [broken |-> TRUE, objects |-> Added(objects, o)]
          BY <2>5, <3>1, <3>3, ApplyMiss
      <4>2. Apply([broken |-> TRUE, objects |-> objects], o).broken
          BY StaysBroken
      <4>3. [broken |-> TRUE, objects |-> Added(objects, o)].broken
          OBVIOUS
      <4>. QED
          BY <2>1, <4>1, <4>2, <4>3 DEF Same
    <3>. QED
        BY <3>2, <3>3
  <2>. QED
      BY <1>4, <2>2, <2>3, <2>4, <2>5 DEF Apart, WellMade, Variants
<1>5. ASSUME NEW o, NEW p, Apart(objects, o, p),
             o.type \in Destructive, p.type \in DOMAIN SetField
      PROVE  Goal(o, p) /\ Goal(p, o)
  <2>1. Apply(Fine(objects), p) = Fine(Changed(objects, p)) /\ DOMAIN Changed(objects, p) = DOMAIN objects
      BY <1>5, ApplySet DEF Changed
  <2>2. CASE o.id \in DOMAIN objects
    <3>1. Apply(Fine(objects), o) = Fine(Dropped(objects, o.id))
        BY <1>5, <2>2, ApplyDrop
    <3>2. Apply(Fine(Dropped(objects, o.id)), p) = Fine(Changed(Dropped(objects, o.id), p))
        BY <1>5, DroppedObjects, ApplySet
    <3>3. Apply(Fine(Changed(objects, p)), o) = Fine(Dropped(Changed(objects, p), o.id))
        BY <1>5, <2>1, <2>2, ApplyDrop
    <3>4. Dropped(Changed(objects, p), o.id) = Changed(Dropped(objects, o.id), p)
        BY <1>5, DropSetCommute
    <3>. QED
        BY <2>1, <3>1, <3>2, <3>3, <3>4 DEF Same
  <2>3. CASE o.id \notin DOMAIN objects
    <3>1. CASE o.type # "DropTable"
        BY <1>5, <2>1, <2>3, <3>1, ApplyMiss DEF Same
    <3>2. CASE o.type = "DropTable"
      <4>1. /\ Apply(Fine(objects), o) = [broken |-> TRUE, objects |-> objects]
            /\ Apply(Fine(Changed(objects, p)), o) = [broken |-> TRUE, objects |-> Changed(objects, p)]
          BY <1>5, <2>1, <2>3, <3>2, ApplyMiss
      <4>2. Apply([broken |-> TRUE, objects |-> objects], p).broken
          BY StaysBroken
      <4>3. [broken |-> TRUE, objects |-> Changed(objects, p)].broken
          OBVIOUS
      <4>. QED
          BY <2>1, <4>1, <4>2, <4>3 DEF Same
    <3>. QED
        BY <3>1, <3>2
  <2>. QED
      BY <2>2, <2>3
<1>6. ASSUME NEW o, NEW p, Apart(objects, o, p),
             o.type \in Destructive, p.type \in Destructive
      PROVE  Goal(o, p)
  <2>1. CASE o.id \in DOMAIN objects /\ p.id \in DOMAIN objects
    <3>1. /\ Apply(Apply(Fine(objects), o), p) = Fine(Dropped(Dropped(objects, o.id), p.id))
          /\ Apply(Apply(Fine(objects), p), o) = Fine(Dropped(Dropped(objects, p.id), o.id))
        BY <1>6, <2>1, DropTwo DEF Apart
    <3>. QED
        BY <3>1, DropsCommute DEF Same
  <2>2. CASE p.id \notin DOMAIN objects
      BY <1>6, <2>2, DropMissed
  <2>3. CASE o.id \notin DOMAIN objects
      BY <1>6, <2>3, DropMissed DEF Same
  <2>. QED
      BY <2>1, <2>2, <2>3
<1>7. ASSUME NEW o, NEW p, Apart(objects, o, p),
             o.type \in DOMAIN SetField, p.type \in DOMAIN SetField
      PROVE  Goal(o, p)
  <2>1. /\ Apply(Fine(objects), o) = Fine(Changed(objects, o))
        /\ Apply(Fine(objects), p) = Fine(Changed(objects, p))
      BY <1>7, ApplySet
  <2>2. /\ Apply(Fine(Changed(objects, o)), p) = Fine(Changed(Changed(objects, o), p))
        /\ Apply(Fine(Changed(objects, p)), o) = Fine(Changed(Changed(objects, p), o))
      BY <1>7, ChangedObjects, ApplySet
  <2>3. Changed(Changed(objects, o), p) = Changed(Changed(objects, p), o)
      BY <1>7, SetsCommute
  <2>. QED
      BY <2>1, <2>2, <2>3 DEF Same
<1>. QED
  <2>1. /\ x.type \in Creating \cup Destructive \cup DOMAIN SetField
        /\ y.type \in Creating \cup Destructive \cup DOMAIN SetField
      BY DEF WellMade, Variants
  <2> HIDE DEF Goal
  <2>2. Goal(x, y)
      BY <1>3, <1>4, <1>5, <1>6, <1>7, <2>1
  <2>. QED
      BY <2>2 DEF Goal

\* classify.py:127: of two operations on one column that the classifier lets
\* pass as "non-overlapping fields touched on each side", none overwrites the
\* other, in whatever order they are replayed.
THEOREM CommutingPairsCommute ==
  ASSUME NEW objects, AreObjects(objects), NEW x, NEW y, x.id = y.id,
         x.type \in DOMAIN MutationField, y.type \in DOMAIN MutationField,
         ClassifyPair(x, y) = "commuting"
  PROVE  Apply(Apply(Fine(objects), x), y) = Apply(Apply(Fine(objects), y), x)
<1>1. x.type # y.type
    BY DEF ClassifyPair
<1>2. /\ x.type \in DOMAIN SetField /\ y.type \in DOMAIN SetField
      /\ SetField[x.type] # SetField[y.type]
    BY <1>1 DEF SetField, MutationField
<1>3. ASSUME NEW r, IsFunction(r)
      PROVE  [[r EXCEPT ![SetField[x.type]] = x.value] EXCEPT ![SetField[y.type]] = y.value]
               = [[r EXCEPT ![SetField[y.type]] = y.value] EXCEPT ![SetField[x.type]] = x.value]
    BY <1>2, <1>3 DEF IsFunction
<1>4. Changed(Changed(objects, x), y) = Changed(Changed(objects, y), x)
    BY <1>3 DEF Changed, AreObjects
<1>5. /\ Apply(Fine(objects), x) = Fine(Changed(objects, x))
      /\ Apply(Fine(objects), y) = Fine(Changed(objects, y))
    BY <1>2, ApplySet
<1>6. /\ Apply(Fine(Changed(objects, x)), y) = Fine(Changed(Changed(objects, x), y))
      /\ Apply(Fine(Changed(objects, y)), x) = Fine(Changed(Changed(objects, y), x))
    BY <1>2, ChangedObjects, ApplySet
<1>. QED
    BY <1>4, <1>5, <1>6

\* The kinds of objects.
LEMMA Kinds ==
  /\ \A type \in Creating : (Made[type] = "table") <=> (type = "CreateTable")
  /\ \A type \in Creating : (Made[type] = "column") <=> (type = "AddColumn")
  /\ \A type \in Destructive : (KindOf[type] = "table") <=> (type = "DropTable")
  /\ \A type \in Destructive : (KindOf[type] = "column") <=> (type = "DropColumn")
<1>1. \A type \in Creating : (Made[type] = "table") <=> (type = "CreateTable")
    BY DEF Creating, Made
<1>2. \A type \in Creating : (Made[type] = "column") <=> (type = "AddColumn")
    BY DEF Creating, Made
<1>3. \A type \in Destructive : (KindOf[type] = "table") <=> (type = "DropTable")
    BY DEF Destructive, KindOf
<1>4. \A type \in Destructive : (KindOf[type] = "column") <=> (type = "DropColumn")
    BY DEF Destructive, KindOf
<1>. QED
    BY <1>1, <1>2, <1>3, <1>4

\* classify.py: two operations on one object of which the classifier lets both
\* pass, or takes one for the other, give the same in either order.
LEMMA SameObjectCommutes ==
  ASSUME NEW objects, AreObjects(objects), NEW x, NEW y, x.id = y.id,
         x.type \in Variants \ Creating, y.type \in Variants \ Creating,
         x.id \in DOMAIN objects => KindOf[x.type] = KindOf[y.type],
         ClassifyPair(x, y) \in {"identical", "commuting"}
  PROVE  Same(Apply(Apply(Fine(objects), x), y), Apply(Apply(Fine(objects), y), x))
<1>1. x.type \in Destructive \cup DOMAIN SetField /\ y.type \in Destructive \cup DOMAIN SetField
    BY DEF Variants
<1>2. CASE x = y
    BY <1>2 DEF Same
<1>3. CASE x.type \in Destructive /\ y.type \in Destructive
  <2>1. CASE x.id \notin DOMAIN objects
      BY <1>3, <2>1, DropMissed
  <2>2. CASE x.id \in DOMAIN objects
    <3> DEFINE left == Dropped(objects, x.id)
    <3>1. Apply(Fine(objects), x) = Fine(left) /\ Apply(Fine(objects), y) = Fine(left)
        BY <1>3, <2>2, ApplyDrop
    <3>2. x.id \notin DOMAIN left
        BY DEF Dropped
    <3>3. (x.type = "DropTable") <=> (y.type = "DropTable")
        BY <1>3, <2>2, Kinds
    <3> HIDE DEF left
    <3>4. CASE x.type = "DropTable"
      <4>1. Apply(Fine(left), x) = [broken |-> TRUE, objects |-> left]
            /\ Apply(Fine(left), y) = [broken |-> TRUE, objects |-> left]
          BY <1>3, <3>2, <3>3, <3>4, ApplyMiss
      <4>. QED
          BY <3>1, <4>1 DEF Same
    <3>5. CASE x.type # "DropTable"
      <4>1. Apply(Fine(left), x) = Fine(left) /\ Apply(Fine(left), y) = Fine(left)
          BY <1>3, <3>2, <3>3, <3>5, ApplyMiss
      <4>. QED
          BY <3>1, <4>1 DEF Same
    <3>. QED
        BY <3>4, <3>5
  <2>. QED
      BY <2>1, <2>2
<1>4. CASE x.type \in DOMAIN SetField /\ y.type \in DOMAIN SetField /\ x.type # y.type
  <2>1. /\ Apply(Apply(Fine(objects), x), y) = Fine(Changed(Changed(objects, x), y))
        /\ Apply(Apply(Fine(objects), y), x) = Fine(Changed(Changed(objects, y), x))
      BY <1>4, ApplySet, ChangedObjects
  <2>2. CASE x.id \notin DOMAIN objects
    <3>1. Changed(objects, x) = objects /\ Changed(objects, y) = objects
        BY <2>2 DEF Changed, AreObjects, IsFunction
    <3>. QED
        BY <2>1, <3>1 DEF Same
  <2>3. CASE x.id \in DOMAIN objects
    <3>1. x.type \in DOMAIN MutationField /\ y.type \in DOMAIN MutationField
        BY <1>4, <2>3 DEF SetField, MutationField, KindOf
    <3>2. ClassifyPair(x, y) = "commuting"
        BY <1>4, <3>1 DEF ClassifyPair, MutationField, Destructive
    <3>. QED
        BY <3>1, <3>2, CommutingPairsCommute DEF Same
  <2>. QED
      BY <2>2, <2>3
<1>5. CASE x.type \in DOMAIN SetField /\ x.type = y.type /\ x # y
  <2>1. x.value = y.value
      BY <1>5 DEF ClassifyPair, SetField, MutationField, Destructive
  <2>2. \A objs : Changed(objs, x) = Changed(objs, y)
      BY <1>5, <2>1 DEF Changed
  <2>3. /\ Apply(Apply(Fine(objects), x), y) = Fine(Changed(Changed(objects, x), y))
        /\ Apply(Apply(Fine(objects), y), x) = Fine(Changed(Changed(objects, y), x))
      BY <1>5, ApplySet, ChangedObjects
  <2>. QED
      BY <2>2, <2>3 DEF Same
<1>6. CASE x # y /\ ({x.type, y.type} \cap Destructive # {}) /\ ~({x.type, y.type} \subseteq Destructive)
    BY <1>6 DEF ClassifyPair
<1>. QED
    BY <1>1, <1>2, <1>3, <1>4, <1>5, <1>6

\* group_by_identity: what one side did to one object, in its first n operations.
IsOn(ops, id, n, on) ==
  on = [k \in 0 .. n |->
          IF k = 0 THEN <<>>
          ELSE IF ops[k].id = id THEN Append(on[k - 1], ops[k]) ELSE on[k - 1]]

\* There is such a function: by induction on n.
LEMMA OnExists ==
  ASSUME NEW ops, NEW id, NEW n \in Nat
  PROVE  \E on : IsOn(ops, id, n, on)
<1> DEFINE S == {m \in Nat : \E on : IsOn(ops, id, m, on)}
           Step(on, k) == IF ops[k].id = id THEN Append(on[k - 1], ops[k]) ELSE on[k - 1]
<1>1. 0 \in S
  <2>1. IsOn(ops, id, 0, [k \in 0 .. 0 |-> <<>>])
      BY DEF IsOn
  <2>. QED
      BY <2>1
<1>2. ASSUME NEW m \in Nat, m \in S
      PROVE  m + 1 \in S
  <2>1. PICK on : IsOn(ops, id, m, on)
      BY <1>2
  <2> DEFINE next == [k \in 0 .. (m + 1) |-> IF k = 0 THEN <<>> ELSE Step(on, k)]
  <2>2. ASSUME NEW k \in 0 .. m
        PROVE  next[k] = on[k]
    <3>1. k \in 0 .. (m + 1)
        OBVIOUS
    <3>2. on[k] = IF k = 0 THEN <<>> ELSE Step(on, k)
        BY <2>1 DEF IsOn
    <3>. QED
        BY <3>1, <3>2
  <2>3. \A k \in 0 .. (m + 1) : k # 0 => Step(on, k) = Step(next, k)
    <3>1. \A k \in 0 .. (m + 1) : k # 0 => k - 1 \in 0 .. m
        OBVIOUS
    <3> HIDE DEF next
    <3>. QED
        BY <2>2, <3>1
  <2>4. next = [k \in 0 .. (m + 1) |-> IF k = 0 THEN <<>> ELSE Step(next, k)]
    <3> DEFINE f == next
               g == [k \in 0 .. (m + 1) |-> IF k = 0 THEN <<>> ELSE Step(f, k)]
    <3>1. \A k \in 0 .. (m + 1) : next[k] = IF k = 0 THEN <<>> ELSE Step(on, k)
        OBVIOUS
    <3>2. next = [k \in 0 .. (m + 1) |-> next[k]]
        OBVIOUS
    <3> HIDE DEF next, Step
    <3>. QED
        BY <2>3, <3>1, <3>2
  <2> HIDE DEF next
  <2>5. IsOn(ops, id, m + 1, next)
      BY <2>4 DEF IsOn
  <2>. QED
      BY <2>5
<1> HIDE DEF S
<1>3. Nat \subseteq S
    BY <1>1, <1>2, SetInduction
<1>. QED
    BY <1>3 DEF S

\* What one operation does to its object.
LEMMA OpsOnSingle ==
  ASSUME NEW S, NEW ops \in Seq(S), DOMAIN ops = {1}
  PROVE  OpsOn(ops, ops[1].id) = <<ops[1]>>
<1>1. Len(ops) = 1
  <2>1. Len(ops) \in Nat /\ DOMAIN ops = 1 .. Len(ops)
      BY LenProperties
  <2>. QED
      BY <2>1
<1> DEFINE id == ops[1].id
<1>2. \E on : IsOn(ops, id, 1, on)
    BY OnExists
<1>3. OpsOn(ops, id) = (CHOOSE on : IsOn(ops, id, 1, on))[1]
    BY <1>1 DEF OpsOn, IsOn
<1>4. PICK on : IsOn(ops, id, 1, on) /\ OpsOn(ops, id) = on[1]
    BY <1>2, <1>3
<1>5. on[0] = <<>> /\ on[1] = Append(on[0], ops[1])
    BY <1>4 DEF IsOn
<1>. QED
    BY <1>4, <1>5

\* Two revisions of one operation of which a merge would ask nothing.
LEMMA NothingAsked ==
  ASSUME NEW S, NEW opsA \in Seq(S), DOMAIN opsA = {1},
         NEW T, NEW opsB \in Seq(T), DOMAIN opsB = {1},
         opsA[1].id = opsB[1].id, Asked(opsA, opsB) = {}
  PROVE  ClassifyPair(opsA[1], opsB[1]) \in {"identical", "commuting"}
<1> DEFINE id == opsA[1].id
<1>1. OpsOn(opsA, id) = <<opsA[1]>> /\ OpsOn(opsB, id) = <<opsB[1]>>
    BY OpsOnSingle
<1>2. id \in Touched(opsA) \cap Touched(opsB)
    BY DEF Touched, ElementsOf
<1>3. Answers(Classify(<<opsA[1]>>, <<opsB[1]>>)) = {}
    BY <1>1, <1>2 DEF Asked, AnswersFor
<1>4. Classify(<<opsA[1]>>, <<opsB[1]>>) = ClassifyPair(opsA[1], opsB[1])
    BY DEF Classify
<1>5. ClassifyPair(opsA[1], opsB[1]) \in {"identical", "commuting", "single_valued_conflict", "conflict"}
    BY DEF ClassifyPair
<1>6. Answers("single_valued_conflict") # {} /\ Answers("conflict") # {}
    BY DEF Answers
<1>. QED
    BY <1>3, <1>4, <1>5, <1>6

----------------------------------------------------------------------------
(* The direction of a merge.                                                 *)

\* classify.py: what two operations are to each other does not depend on which
\* comes first.
LEMMA PairIsSymmetric ==
  ASSUME NEW x, NEW y
  PROVE  ClassifyPair(x, y) = ClassifyPair(y, x)
  BY DEF ClassifyPair

\* The same of two lists of operations.
LEMMA CompoundIsSymmetric ==
  ASSUME NEW a, NEW b
  PROVE  ClassifyCompound(a, b) = ClassifyCompound(b, a)
<1> DEFINE fa == Decompose(a)
           fb == Decompose(b)
<1>1. (\E f \in DOMAIN fa \cap DOMAIN fb : fa[f] # fb[f])
        <=> (\E f \in DOMAIN fb \cap DOMAIN fa : fb[f] # fa[f])
    OBVIOUS
<1>. QED
    BY <1>1, Zenon DEF ClassifyCompound

\* Two columns with one name are told apart by where they come in their lists.
LEMMA FirstAddPlace ==
  ASSUME NEW S, NEW ops \in Seq(S), NEW key \in ColumnKeys(ops)
  PROVE  FirstAdd(ops, key) \in DOMAIN ops /\ ops[FirstAdd(ops, key)].type = "AddColumn"
<1> DEFINE Adds(i) == /\ ops[i].type = "AddColumn"
                      /\ <<ops[i].object.table, ops[i].object.name>> = key
           places == {i \in DOMAIN ops : Adds(i)}
<1>1. places \subseteq Nat /\ places # {}
  <2>1. PICK i \in DOMAIN ops : Adds(i)
      BY DEF ColumnKeys, ElementsOf
  <2>. QED
      BY <2>1
<1>2. PICK i \in places : \A j \in places : i <= j
    BY <1>1, LeastNatural
<1>3. i \in DOMAIN ops /\ Adds(i) /\ \A j \in DOMAIN ops : Adds(j) => i <= j
    BY <1>2
<1>. QED
    BY <1>3 DEF FirstAdd

\* merge/engine.py:64-66: merging dev into main and main into dev asks about
\* the same objects with the same choices, and the cross-object pass reports
\* the same operations.  Of two columns with one name the same is given up,
\* unless the two come at the same place of their lists.
THEOREM DirectionIsOfNoAccount ==
  ASSUME NEW S, NEW opsA \in Seq(S), NEW opsB \in Seq(S)
  PROVE  /\ \A id : AnswersFor(opsA, opsB, id) = AnswersFor(opsB, opsA, id)
         /\ Asked(opsA, opsB) = Asked(opsB, opsA)
         /\ CrossObject(opsA, opsB) = CrossObject(opsB, opsA)
         /\ (\A key \in ColumnKeys(opsA) \cap ColumnKeys(opsB) :
               FirstAdd(opsA, key) # FirstAdd(opsB, key))
              => Collisions(opsA, opsB) = Collisions(opsB, opsA)
<1>1. \A a, b : Classify(a, b) = Classify(b, a)
    BY PairIsSymmetric, CompoundIsSymmetric DEF Classify
<1>2. \A id : AnswersFor(opsA, opsB, id) = AnswersFor(opsB, opsA, id)
    BY <1>1 DEF AnswersFor
<1>3. Asked(opsA, opsB) = Asked(opsB, opsA)
    BY <1>2 DEF Asked
<1>4. CrossObject(opsA, opsB) = CrossObject(opsB, opsA)
    BY CrossObjectIs
<1>5. ASSUME \A key \in ColumnKeys(opsA) \cap ColumnKeys(opsB) :
               FirstAdd(opsA, key) # FirstAdd(opsB, key)
      PROVE  Collisions(opsA, opsB) = Collisions(opsB, opsA)
  <2>1. \A key \in ColumnKeys(opsA) \cap ColumnKeys(opsB) :
          LET i == FirstAdd(opsA, key)  j == FirstAdd(opsB, key)
          IN  i \in Nat /\ j \in Nat /\ i # j
    <3>1. DOMAIN opsA \subseteq Nat /\ DOMAIN opsB \subseteq Nat
        OBVIOUS
    <3>. QED
        BY <1>5, <3>1, FirstAddPlace
  <2>2. \A key \in ColumnKeys(opsA) \cap ColumnKeys(opsB) :
          (FirstAdd(opsA, key) <= FirstAdd(opsB, key)) <=> ~(FirstAdd(opsB, key) <= FirstAdd(opsA, key))
      BY <2>1
  <2>. QED
      BY <2>2 DEF Collisions
<1>. QED
    BY <1>2, <1>3, <1>4, <1>5

----------------------------------------------------------------------------
(* The order of a replay.                                                    *)

\* One revision's operations, replayed.
Visited(ns, s, r) == Seqs!FoldLeft(Apply, s, ns[r].ops)

\* The revisions that a replay can visit next: their parents are done.
CanVisit(ns, history, done) == {r \in history \ done : ParentsOf(ns, r) \subseteq done}

\* A replay that visits one revision more.
Visit(ns, v, r) == [done |-> v.done \cup {r}, schema |-> Visited(ns, v.schema, r)]

\* The replays of n + 1 revisions, from those of n.
Longer(ns, history, replays) ==
  UNION {{Visit(ns, v, r) : r \in CanVisit(ns, history, v.done)} : v \in replays}

\* The replay that has visited nothing.
Beginning == {[done |-> {}, schema |-> EmptySchema]}

\* The replays of a history after n revisions.
IsAfter(ns, history, after) ==
  after = [n \in Nat |-> IF n = 0 THEN Beginning ELSE Longer(ns, history, after[n - 1])]

\* The replays of the first n revisions, in every order that puts parents first.
After(ns, history) == CHOOSE after : IsAfter(ns, history, after)

\* There is such a function: by induction on n.
LEMMA AfterExists ==
  ASSUME NEW ns, NEW history
  PROVE  IsAfter(ns, history, After(ns, history))
<1> DEFINE Upto(m, f) == /\ f[0] = Beginning
                         /\ \A k \in Nat : k < m => f[k + 1] = Longer(ns, history, f[k])
           S == {m \in Nat : \E f : Upto(m, f)}
<1>1. 0 \in S
  <2>1. Upto(0, [k \in {0} |-> Beginning])
      OBVIOUS
  <2>. QED
      BY <2>1
<1>2. ASSUME NEW m \in Nat, m \in S
      PROVE  m + 1 \in S
  <2>1. PICK f : Upto(m, f)
      BY <1>2
  <2> DEFINE g == [k \in 0 .. (m + 1) |-> IF k = m + 1 THEN Longer(ns, history, f[m]) ELSE f[k]]
  <2>2. g[0] = Beginning
      BY <2>1
  <2>3. ASSUME NEW k \in Nat, k < m + 1
        PROVE  g[k + 1] = Longer(ns, history, g[k])
    <3>1. g[k] = f[k]
        BY <2>3
    <3>2. CASE k = m
        BY <3>1, <3>2
    <3>3. CASE k < m
        BY <2>1, <3>1, <3>3
    <3>. QED
        BY <2>3, <3>2, <3>3
  <2> HIDE DEF g
  <2>4. Upto(m + 1, g)
      BY <2>2, <2>3
  <2>. QED
      BY <2>4
<1>3. Nat \subseteq S
  <2> HIDE DEF S
  <2>. QED
      BY <1>1, <1>2, SetInduction
<1> DEFINE f(m) == CHOOSE f : Upto(m, f)
           after == [n \in Nat |-> f(n)[n]]
<1>4. \A m \in Nat : Upto(m, f(m))
    BY <1>3
<1> HIDE DEF f, S
<1>5. \A m \in Nat : f(m + 1)[m] = f(m)[m]
  <2> SUFFICES ASSUME NEW m \in Nat
               PROVE  f(m + 1)[m] = f(m)[m]
      OBVIOUS
  <2> DEFINE T == {k \in Nat : k <= m => f(m + 1)[k] = f(m)[k]}
  <2>1. 0 \in T
    <3>1. m + 1 \in Nat
        OBVIOUS
    <3>. QED
        BY <1>4, <3>1
  <2>2. ASSUME NEW k \in Nat, k \in T
        PROVE  k + 1 \in T
    <3>1. m + 1 \in Nat
        OBVIOUS
    <3>2. Upto(m, f(m)) /\ Upto(m + 1, f(m + 1))
        BY <1>4, <3>1
    <3>3. CASE k + 1 <= m
      <4>1. k < m /\ k < m + 1 /\ f(m + 1)[k] = f(m)[k]
          BY <2>2, <3>3
      <4>. QED
          BY <3>2, <4>1
    <3>. QED
        BY <3>3
  <2>3. Nat \subseteq T
    <3> HIDE DEF T
    <3>. QED
        BY <2>1, <2>2, SetInduction
  <2>. QED
      BY <2>3
<1>6. after[0] = Beginning
    BY <1>4
<1>7. ASSUME NEW n \in Nat, n # 0
      PROVE  after[n] = Longer(ns, history, after[n - 1])
  <2>1. n - 1 \in Nat /\ (n - 1) + 1 = n /\ n - 1 < n
      BY <1>7
  <2>2. f(n)[n] = Longer(ns, history, f(n)[n - 1])
      BY <1>4, <2>1
  <2>3. f(n)[n - 1] = f(n - 1)[n - 1]
      BY <1>5, <2>1
  <2>. QED
      BY <2>1, <2>2, <2>3
<1>8. after = [n \in Nat |-> IF n = 0 THEN Beginning ELSE Longer(ns, history, after[n - 1])]
    BY <1>6, <1>7
<1> HIDE DEF after
<1>. QED
    BY <1>8 DEF IsAfter, After

\* Its first value, and from each value the next.
LEMMA AfterSteps ==
  ASSUME NEW ns, NEW history
  PROVE  /\ After(ns, history)[0] = Beginning
         /\ \A n \in Nat : After(ns, history)[n + 1] = Longer(ns, history, After(ns, history)[n])
<1> DEFINE after == After(ns, history)
<1>1. after = [n \in Nat |-> IF n = 0 THEN Beginning ELSE Longer(ns, history, after[n - 1])]
    BY AfterExists DEF IsAfter
<1> HIDE DEF after
<1>2. after[0] = Beginning
    BY <1>1
<1>3. ASSUME NEW n \in Nat
      PROVE  after[n + 1] = Longer(ns, history, after[n])
  <2>1. n + 1 \in Nat /\ n + 1 # 0 /\ (n + 1) - 1 = n
      OBVIOUS
  <2>. QED
      BY <1>1, <2>1
<1>. QED
    BY <1>2, <1>3 DEF after

\* What Replays gives is what the function ends with.
LEMMA ReplaysAreLast ==
  ASSUME NEW ns, NEW history
  PROVE  Replays(ns, history) = {v.schema : v \in After(ns, history)[Cardinality(history)]}
  BY DEF Replays, After, IsAfter, Longer, Visit, Visited, CanVisit, Beginning

\* A history that replay() is called on.
IsHistory(ns, history) ==
  /\ ParentsStored(ns) /\ AppendOrder(ns)
  /\ history \in SUBSET DOMAIN ns /\ IsFiniteSet(history) /\ ParentClosed(ns, history)

\* After n revisions n are done, and with each its ancestors.
LEMMA AfterDone ==
  ASSUME NEW ns, NEW history, IsHistory(ns, history), NEW n \in Nat,
         NEW v \in After(ns, history)[n]
  PROVE  /\ v.done \in SUBSET history /\ ParentClosed(ns, v.done)
         /\ IsFiniteSet(v.done) /\ Cardinality(v.done) = n
<1> DEFINE after == After(ns, history)
           Good(w, m) == /\ w.done \in SUBSET history /\ ParentClosed(ns, w.done)
                         /\ IsFiniteSet(w.done) /\ Cardinality(w.done) = m
           S == {m \in Nat : \A w \in after[m] : Good(w, m)}
<1>1. 0 \in S
  <2>1. \A w \in Beginning : w.done = {}
      BY DEF Beginning
  <2>2. \A w \in Beginning : Good(w, 0)
      BY <2>1, FS_EmptySet DEF ParentClosed
  <2>. QED
      BY <2>2, AfterSteps
<1>2. ASSUME NEW m \in Nat, m \in S
      PROVE  m + 1 \in S
  <2> SUFFICES ASSUME NEW w \in after[m + 1]
               PROVE  Good(w, m + 1)
      OBVIOUS
  <2>1. after[m + 1] = Longer(ns, history, after[m])
      BY AfterSteps
  <2> HIDE DEF after
  <2>2. PICK u \in after[m] : \E r \in CanVisit(ns, history, u.done) : w = Visit(ns, u, r)
      BY <2>1 DEF Longer
  <2>3. Good(u, m)
      BY <1>2
  <2> PICK r \in CanVisit(ns, history, u.done) : w = Visit(ns, u, r)
      BY <2>2
  <2>4. w.done = u.done \cup {r}
      BY DEF Visit
  <2>5. r \in history /\ r \notin u.done /\ ParentsOf(ns, r) \subseteq u.done
      BY DEF CanVisit
  <2>6. IsFiniteSet(w.done) /\ Cardinality(w.done) = m + 1
    <3>1. IsFiniteSet(u.done) /\ Cardinality(u.done) = m
        BY <2>3
    <3>2. IsFiniteSet(u.done \cup {r}) /\ Cardinality(u.done \cup {r}) = Cardinality(u.done) + 1
        BY <2>5, <3>1, FS_AddElement
    <3>. QED
        BY <2>4, <3>1, <3>2
  <2>7. ParentClosed(ns, w.done)
      BY <2>3, <2>4, <2>5 DEF ParentClosed
  <2>. QED
      BY <2>3, <2>4, <2>5, <2>6, <2>7
<1> HIDE DEF S
<1>3. Nat \subseteq S
    BY <1>1, <1>2, SetInduction
<1>. QED
    BY <1>3 DEF S

\* Whatever is closed under parents can have been visited first.
LEMMA AfterReaches ==
  ASSUME NEW ns, NEW history, IsHistory(ns, history),
         NEW D \in SUBSET history, ParentClosed(ns, D)
  PROVE  \E v \in After(ns, history)[Cardinality(D)] : v.done = D
<1> DEFINE after == After(ns, history)
           S == {m \in Nat : \A E \in SUBSET history :
                   ParentClosed(ns, E) /\ Cardinality(E) = m => \E v \in after[m] : v.done = E}
<1>0. \A E \in SUBSET history : IsFiniteSet(E) /\ Cardinality(E) \in Nat
    BY FS_Subset, FS_CardinalityType DEF IsHistory
<1>1. 0 \in S
  <2>1. \A E \in SUBSET history : Cardinality(E) = 0 => E = {}
      BY <1>0, FS_EmptySet
  <2>2. \A v \in Beginning : v.done = {}
      BY DEF Beginning
  <2>3. Beginning # {} /\ after[0] = Beginning
      BY AfterSteps DEF Beginning
  <2> HIDE DEF after
  <2>. QED
      BY <2>1, <2>2, <2>3
<1>2. ASSUME NEW m \in Nat, m \in S
      PROVE  m + 1 \in S
  <2> SUFFICES ASSUME NEW E \in SUBSET history, ParentClosed(ns, E), Cardinality(E) = m + 1
               PROVE  \E v \in after[m + 1] : v.done = E
      OBVIOUS
  <2>1. E # {} /\ E \in SUBSET Nat
      BY <1>0, FS_EmptySet DEF IsHistory, AppendOrder
  <2>2. PICK r \in E : \A x \in E : x <= r
    <3>1. PICK k \in Nat : \A x \in E : x <= k
        BY <1>0, <2>1, FiniteBound
    <3>. QED
        BY <2>1, <3>1, GreatestNatural
  <2> DEFINE F == E \ {r}
  <2>3. F \in SUBSET history /\ Cardinality(F) = m
      BY <1>0, FS_RemoveElement
  <2>4. ParentClosed(ns, F)
    <3> SUFFICES ASSUME NEW x \in F, NEW p \in ParentsOf(ns, x)
                 PROVE  p \in F
        BY DEF ParentClosed
    <3>1. p \in E
        BY DEF ParentClosed
    <3>2. x \in DOMAIN ns
        BY DEF IsHistory
    <3>3. p < x
        BY <3>2 DEF IsHistory, AppendOrder
    <3>4. x <= r
        BY <2>2
    <3>5. p \in Nat /\ x \in Nat /\ r \in Nat
        BY <2>1, <3>1
    <3>. QED
        BY <3>1, <3>3, <3>4, <3>5
  <2>5. PICK v \in after[m] : v.done = F
      BY <1>2, <2>3, <2>4
  <2>6. r \in CanVisit(ns, history, F)
    <3>1. ParentsOf(ns, r) \subseteq E
        BY DEF ParentClosed
    <3>2. r \in DOMAIN ns
        BY DEF IsHistory
    <3>3. \A p \in ParentsOf(ns, r) : p < r
        BY <3>2 DEF IsHistory, AppendOrder
    <3>4. r \notin ParentsOf(ns, r)
        BY <2>1, <3>3
    <3>. QED
        BY <3>1, <3>4 DEF CanVisit
  <2>7. Visit(ns, v, r) \in after[m + 1]
    <3>1. after[m + 1] = Longer(ns, history, after[m])
        BY AfterSteps
    <3> HIDE DEF after, F
    <3>2. r \in CanVisit(ns, history, v.done)
        BY <2>5, <2>6
    <3>. QED
        BY <3>1, <3>2 DEF Longer
  <2>8. Visit(ns, v, r).done = E
      BY <2>5 DEF Visit
  <2>. QED
      BY <2>7, <2>8
<1>3. Nat \subseteq S
  <2> HIDE DEF S
  <2>. QED
      BY <1>1, <1>2, SetInduction
<1>. QED
    BY <1>0, <1>3

\* Two schemas that count as one: a replay that raises has no other result.
Alike(equal, s, t) == s = t \/ (~equal /\ s.broken /\ t.broken)

\* Wherever two revisions could be visited next, their order is of no account.
Commuting(equal, ns, history) ==
  \A n \in Nat : \A v \in After(ns, history)[n] : \A q, r \in CanVisit(ns, history, v.done) :
    q # r => Alike(equal, Visited(ns, Visited(ns, v.schema, q), r), Visited(ns, Visited(ns, v.schema, r), q))

\* Each revision that can be visited next is visited by one of the replays.
LEMMA LongerHas ==
  ASSUME NEW ns, NEW history, NEW replays, NEW v \in replays, NEW r \in CanVisit(ns, history, v.done)
  PROVE  Visit(ns, v, r) \in Longer(ns, history, replays)
  BY DEF Longer

\* Every revision has a list of operations.
HasLists(ns, history) == \A r \in history : \E S : ns[r].ops \in Seq(S)

\* Two schemas that are alike are alike after one revision more.
LEMMA VisitedAlike ==
  ASSUME NEW ns, NEW history, HasLists(ns, history), NEW r \in history,
         NEW equal, NEW s, NEW t, Alike(equal, s, t)
  PROVE  Alike(equal, Visited(ns, s, r), Visited(ns, t, r))
<1>1. PICK S : ns[r].ops \in Seq(S)
    BY DEF HasLists
<1>2. CASE s.broken /\ t.broken
  <2>1. Visited(ns, s, r) = s /\ Visited(ns, t, r) = t
      BY <1>1, <1>2, FoldBroken DEF Visited
  <2>. QED
      BY <2>1
<1>3. CASE s = t
    BY <1>3 DEF Alike
<1>. QED
    BY <1>2, <1>3 DEF Alike

\* Two replays of the same revisions, in whatever orders, end alike.
LEMMA SameRevisionsAlike ==
  ASSUME NEW ns, NEW history, IsHistory(ns, history), HasLists(ns, history),
         NEW equal, Commuting(equal, ns, history)
  PROVE  \A n \in Nat : \A v, w \in After(ns, history)[n] :
           v.done = w.done => Alike(equal, v.schema, w.schema)
<1> DEFINE after == After(ns, history)
           Agree(n) == \A v, w \in after[n] : v.done = w.done => Alike(equal, v.schema, w.schema)
           T == {n \in Nat : Agree(n)}
<1>0. /\ after[0] = Beginning
      /\ \A n \in Nat : after[n + 1] = Longer(ns, history, after[n])
    BY AfterSteps
<1>a. \A n \in Nat : \A v \in after[n] :
        /\ v.done \in SUBSET history /\ ParentClosed(ns, v.done)
        /\ IsFiniteSet(v.done) /\ Cardinality(v.done) = n
    BY AfterDone
<1>b. \A D \in SUBSET history : ParentClosed(ns, D) => \E v \in after[Cardinality(D)] : v.done = D
    BY AfterReaches
<1>c. \A n \in Nat : \A v \in after[n] : \A q, r \in CanVisit(ns, history, v.done) :
        q # r => Alike(equal, Visited(ns, Visited(ns, v.schema, q), r),
                              Visited(ns, Visited(ns, v.schema, r), q))
    BY DEF Commuting
<1> HIDE DEF after
<1>1. Agree(0)
    BY <1>0 DEF Beginning, Alike
<1>2. ASSUME NEW n \in Nat, Agree(n)
      PROVE  Agree(n + 1)
  <2> SUFFICES ASSUME NEW v \in after[n + 1], NEW w \in after[n + 1], v.done = w.done
               PROVE  Alike(equal, v.schema, w.schema)
      OBVIOUS
  <2>1. PICK v1 \in after[n] : \E r \in CanVisit(ns, history, v1.done) : v = Visit(ns, v1, r)
      BY <1>0 DEF Longer
  <2>2. PICK w1 \in after[n] : \E q \in CanVisit(ns, history, w1.done) : w = Visit(ns, w1, q)
      BY <1>0 DEF Longer
  <2> PICK r \in CanVisit(ns, history, v1.done) : v = Visit(ns, v1, r)
      BY <2>1
  <2> PICK q \in CanVisit(ns, history, w1.done) : w = Visit(ns, w1, q)
      BY <2>2
  <2>3. /\ v.done = v1.done \cup {r} /\ v.schema = Visited(ns, v1.schema, r)
        /\ w.done = w1.done \cup {q} /\ w.schema = Visited(ns, w1.schema, q)
      BY DEF Visit
  <2>4. /\ r \in history /\ r \notin v1.done /\ ParentsOf(ns, r) \subseteq v1.done
        /\ q \in history /\ q \notin w1.done /\ ParentsOf(ns, q) \subseteq w1.done
      BY DEF CanVisit
  <2>5. CASE r = q
    <3>1. v1.done = w1.done
      <4>1. v1.done = v.done \ {r} /\ w1.done = w.done \ {q}
          BY <2>3, <2>4
      <4>. QED
          BY <2>5, <4>1
    <3>2. Alike(equal, v1.schema, w1.schema)
        BY <1>2, <3>1
    <3>. QED
        BY <2>3, <2>4, <2>5, <3>2, VisitedAlike
  <2>6. CASE r # q
    <3> DEFINE E == v1.done \ {q}
    <3>1. v1.done = E \cup {q} /\ w1.done = E \cup {r} /\ q \notin E /\ r \notin E
        BY <2>3, <2>4, <2>6
    <3> HIDE DEF E
    <3>2. /\ v1.done \in SUBSET history /\ ParentClosed(ns, v1.done)
          /\ IsFiniteSet(v1.done) /\ Cardinality(v1.done) = n
          /\ w1.done \in SUBSET history /\ ParentClosed(ns, w1.done)
        BY <1>a
    <3>3. E \in SUBSET history /\ ParentClosed(ns, E)
      <4>1. E = v1.done \cap w1.done
          BY <2>6, <3>1
      <4>. QED
          BY <3>2, <4>1 DEF ParentClosed
    <3>4. Cardinality(E) \in Nat /\ n = Cardinality(E) + 1
      <4>1. IsFiniteSet(E)
          BY <3>1, <3>2, FS_Subset
      <4>2. Cardinality(E) \in Nat
          BY <4>1, FS_CardinalityType
      <4>3. Cardinality(E \cup {q}) = Cardinality(E) + 1
          BY <3>1, <4>1, FS_AddElement
      <4>. QED
          BY <3>1, <3>2, <4>2, <4>3
    <3>5. PICK u \in after[Cardinality(E)] : u.done = E
        BY <1>b, <3>3
    <3>6. r \in CanVisit(ns, history, u.done) /\ q \in CanVisit(ns, history, u.done)
      <4>1. ParentsOf(ns, r) \subseteq E
        <5>1. ParentsOf(ns, r) \subseteq w1.done
            BY <3>1, <3>2 DEF ParentClosed
        <5>. QED
            BY <2>4, <3>1, <5>1
      <4>2. ParentsOf(ns, q) \subseteq E
        <5>1. ParentsOf(ns, q) \subseteq v1.done
            BY <3>1, <3>2 DEF ParentClosed
        <5>. QED
            BY <2>4, <3>1, <5>1
      <4>. QED
          BY <2>4, <3>1, <3>5, <4>1, <4>2 DEF CanVisit
    <3>7. Visit(ns, u, q) \in after[n] /\ Visit(ns, u, r) \in after[n]
      <4>1. after[Cardinality(E) + 1] = Longer(ns, history, after[Cardinality(E)])
          BY <1>0, <3>4
      <4>2. /\ Visit(ns, u, q) \in Longer(ns, history, after[Cardinality(E)])
            /\ Visit(ns, u, r) \in Longer(ns, history, after[Cardinality(E)])
          BY <3>6, LongerHas
      <4>. QED
          BY <3>4, <4>1, <4>2
    <3>8. /\ Visit(ns, u, q).done = v1.done /\ Visit(ns, u, q).schema = Visited(ns, u.schema, q)
          /\ Visit(ns, u, r).done = w1.done /\ Visit(ns, u, r).schema = Visited(ns, u.schema, r)
        BY <3>1, <3>5 DEF Visit
    <3>9. /\ Alike(equal, v1.schema, Visited(ns, u.schema, q))
          /\ Alike(equal, w1.schema, Visited(ns, u.schema, r))
        BY <1>2, <3>7, <3>8
    <3>10. /\ Alike(equal, v.schema, Visited(ns, Visited(ns, u.schema, q), r))
           /\ Alike(equal, w.schema, Visited(ns, Visited(ns, u.schema, r), q))
        BY <2>3, <2>4, <3>9, VisitedAlike
    <3>11. Alike(equal, Visited(ns, Visited(ns, u.schema, q), r),
                        Visited(ns, Visited(ns, u.schema, r), q))
        BY <1>c, <2>6, <3>4, <3>6
    <3>. QED
        BY <3>10, <3>11 DEF Alike
  <2>. QED
      BY <2>5, <2>6
<1> HIDE DEF Agree
<1>3. Nat \subseteq T
  <2>1. 0 \in T /\ \A n \in Nat : n \in T => n + 1 \in T
      BY <1>1, <1>2
  <2> HIDE DEF T
  <2>. QED
      BY <2>1, SetInduction
<1>. QED
    BY <1>3 DEF Agree, after

\* replay.py: if any two revisions that can be visited one right after the other,
\* in either order, commute, all replays of the history give the same schema.
LEMMA CommutingReplayAlike ==
  ASSUME NEW ns, NEW history, IsHistory(ns, history), HasLists(ns, history),
         NEW equal, Commuting(equal, ns, history)
  PROVE  /\ Replays(ns, history) # {}
         /\ \A s, t \in Replays(ns, history) : Alike(equal, s, t)
<1> DEFINE n == Cardinality(history)
<1>1. n \in Nat /\ IsFiniteSet(history)
    BY FS_CardinalityType DEF IsHistory
<1>2. PICK u \in After(ns, history)[n] : u.done = history
    BY AfterReaches DEF IsHistory
<1> HIDE DEF n
<1>3. \A v \in After(ns, history)[n] : v.done = history
  <2>1. \A v \in After(ns, history)[n] : v.done \in SUBSET history /\ Cardinality(v.done) = n
      BY <1>1, AfterDone
  <2>. QED
      BY <1>1, <2>1, FS_Subset DEF n
<1>4. \A v, w \in After(ns, history)[n] : Alike(equal, v.schema, w.schema)
    BY <1>1, <1>3, SameRevisionsAlike
<1>5. Replays(ns, history) = {v.schema : v \in After(ns, history)[n]}
    BY ReplaysAreLast DEF n
<1>. QED
    BY <1>2, <1>4, <1>5

----------------------------------------------------------------------------
(* Histories with one replay.                                                *)

\* One of two revisions is an ancestor of the other.
Related(ns, q, r) == q \in Ancestors(ns, r) \/ r \in Ancestors(ns, q)

\* Of two revisions that can both be visited next neither is an ancestor of the
\* other.
LEMMA NextAreUnrelated ==
  ASSUME NEW ns, NEW history, IsHistory(ns, history), NEW n \in Nat,
         NEW v \in After(ns, history)[n],
         NEW q \in CanVisit(ns, history, v.done), NEW r \in CanVisit(ns, history, v.done), q # r
  PROVE  ~Related(ns, q, r)
<1>1. v.done \in SUBSET history /\ ParentClosed(ns, v.done)
    BY AfterDone
<1>2. ASSUME NEW x, NEW y, x \in CanVisit(ns, history, v.done), y \in CanVisit(ns, history, v.done), x # y
      PROVE  x \notin Ancestors(ns, y)
  <2> DEFINE S == v.done \cup {y}
  <2>1. y \in history /\ ParentsOf(ns, y) \subseteq v.done /\ x \notin v.done
      BY <1>2 DEF CanVisit
  <2>2. S \in SUBSET DOMAIN ns
      BY <1>1, <2>1 DEF IsHistory
  <2>3. ParentClosed(ns, S)
      BY <1>1, <2>1 DEF ParentClosed
  <2>4. Ancestors(ns, y) \subseteq S
      BY <2>2, <2>3, AncestorsLeast
  <2>. QED
      BY <1>2, <2>1, <2>4
<1>. QED
    BY <1>2 DEF Related

\* A branch that nothing was merged into stands for one schema: a history in
\* which one of any two revisions is an ancestor of the other has one replay.
THEOREM LineReplaysToOneSchema ==
  ASSUME NEW ns, NEW history, IsHistory(ns, history), HasLists(ns, history),
         \A q, r \in history : Related(ns, q, r)
  PROVE  \E s : Replays(ns, history) = {s}
<1>1. Commuting(TRUE, ns, history)
  <2>1. \A n \in Nat : \A v \in After(ns, history)[n] : \A q, r \in CanVisit(ns, history, v.done) : q = r
    <3>1. \A done : CanVisit(ns, history, done) \subseteq history
        BY DEF CanVisit
    <3>. QED
        BY <3>1, NextAreUnrelated
  <2>. QED
      BY <2>1 DEF Commuting
<1>2. /\ Replays(ns, history) # {}
      /\ \A s, t \in Replays(ns, history) : Alike(TRUE, s, t)
    BY <1>1, CommutingReplayAlike
<1>. QED
    BY <1>2 DEF Alike

\* What replay has created so far, if it has not raised.
MadeBy(ns, revisions) == UNION {{o \in ElementsOf(ns[r].ops) : o.type \in Creating} : r \in revisions}

\* Every object of a schema was made by one of some revisions, in the table it is in.
Known(ns, revisions, s) ==
  \/ s.broken
  \/ /\ s = Fine(s.objects) /\ AreObjects(s.objects)
     /\ \A i \in DOMAIN s.objects : \E x \in MadeBy(ns, revisions) :
          x.id = i /\ s.objects[i].table = x.object.table

\* What the verbs of `migrate` and `sync` make: an object has one creation, it
\* is a table or is in a table whose creation came before, and what is changed
\* or dropped was created before, as an object of its kind.
WellMadeHistory(ns, history) ==
  /\ \A r \in history : \A o \in ElementsOf(ns[r].ops) :
       /\ o.type \in Variants /\ o.id # NoId
       /\ o.type \in Creating => /\ IsFunction(o.object)
                                 /\ o.type = "CreateTable" <=> o.object.table = NoId
  /\ \A q, r \in history : \A x \in ElementsOf(ns[q].ops), y \in ElementsOf(ns[r].ops) :
       x.type \in Creating =>
         /\ y.type \in Creating /\ y.id = x.id => q = r
         /\ y.type \in Creating /\ y.object.table = x.id =>
              x.type = "CreateTable" /\ q \in Ancestors(ns, r)
         /\ y.type \notin Creating /\ y.id = x.id =>
              KindOf[y.type] = Made[x.type] /\ q \in Ancestors(ns, r)

\* One more operation of those revisions, and it is so still.
LEMMA ApplyKnown ==
  ASSUME NEW ns, NEW revisions, NEW s, Known(ns, revisions, s), NEW o, o.type \in Variants,
         o.type \in Creating => IsFunction(o.object) /\ o \in MadeBy(ns, revisions)
  PROVE  Known(ns, revisions, Apply(s, o))
<1>1. CASE s.broken
    BY <1>1 DEF Apply, Known
<1>2. CASE ~s.broken
  <2> DEFINE objects == s.objects
             Origins(f) == \A i \in DOMAIN f : \E x \in MadeBy(ns, revisions) :
                             x.id = i /\ f[i].table = x.object.table
  <2>1. s = Fine(objects) /\ AreObjects(objects) /\ Origins(objects)
      BY <1>2 DEF Known
  <2> HIDE DEF objects
  <2>2. \A f : Fine(f).objects = f
      BY FineFields
  <2>3. ASSUME NEW f, AreObjects(f), Origins(f), Apply(s, o) = Fine(f)
        PROVE  Known(ns, revisions, Apply(s, o))
      BY <2>2, <2>3 DEF Known
  <2>4. CASE o.type \in Creating
    <3>1. Apply(s, o) = Fine(Added(objects, o))
        BY <2>1, <2>4, ApplyAdd
    <3>2. AreObjects(Added(objects, o))
        BY <2>1, <2>4, AddedObjects
    <3>3. Origins(Added(objects, o))
        BY <2>1, <2>4 DEF Added, Put
    <3>. QED
        BY <2>3, <3>1, <3>2, <3>3
  <2>5. CASE o.type \in Destructive
    <3>1. CASE o.id \in DOMAIN objects
      <4>1. Apply(s, o) = Fine(Dropped(objects, o.id))
          BY <2>1, <2>5, <3>1, ApplyDrop
      <4>2. AreObjects(Dropped(objects, o.id))
          BY <2>1, DroppedObjects
      <4>3. Origins(Dropped(objects, o.id))
          BY <2>1 DEF Dropped
      <4>. QED
          BY <2>3, <4>1, <4>2, <4>3
    <3>2. CASE o.id \notin DOMAIN objects
      <4>1. CASE o.type # "DropTable"
        <5>1. Apply(s, o) = Fine(objects)
            BY <2>1, <2>5, <3>2, <4>1, ApplyMiss
        <5>. QED
            BY <2>1, <2>3, <5>1
      <4>2. CASE o.type = "DropTable"
        <5>1. Apply(s, o) = [broken |-> TRUE, objects |-> objects]
            BY <2>1, <2>5, <3>2, <4>2, ApplyMiss
        <5>2. Apply(s, o).broken
            BY <5>1
        <5>. QED
            BY <5>2 DEF Known
      <4>. QED
          BY <4>1, <4>2
    <3>. QED
        BY <3>1, <3>2
  <2>6. CASE o.type \in DOMAIN SetField
    <3>1. Apply(s, o) = Fine(Changed(objects, o))
        BY <2>1, <2>6, ApplySet
    <3>2. AreObjects(Changed(objects, o))
        BY <2>1, ChangedObjects
    <3>3. \A i \in DOMAIN objects : Changed(objects, o)[i].table = objects[i].table
      <4>1. SetField[o.type] # "table"
          BY <2>6 DEF SetField, MutationField
      <4>2. \A i \in DOMAIN objects : IsFunction(objects[i])
          BY <2>1 DEF AreObjects
      <4>3. ASSUME NEW r, IsFunction(r)
            PROVE  [r EXCEPT ![SetField[o.type]] = o.value].table = r.table
          BY <4>1, <4>3 DEF IsFunction
      <4>. QED
          BY <4>2, <4>3 DEF Changed
    <3>4. DOMAIN Changed(objects, o) = DOMAIN objects
        BY DEF Changed
    <3>5. Origins(Changed(objects, o))
        BY <2>1, <3>3, <3>4
    <3>. QED
        BY <2>3, <3>1, <3>2, <3>5
  <2>. QED
      BY <2>4, <2>5, <2>6 DEF Variants
<1>. QED
    BY <1>1, <1>2

\* One more of those revisions, and it is so still.
LEMMA VisitedKnown ==
  ASSUME NEW ns, NEW history, HasLists(ns, history), WellMadeHistory(ns, history),
         NEW revisions \in SUBSET history, NEW r \in revisions, NEW s, Known(ns, revisions, s)
  PROVE  Known(ns, revisions, Visited(ns, s, r))
<1> DEFINE ops == ns[r].ops
           n == Len(ops)
<1>1. n \in Nat /\ DOMAIN ops = 1 .. n
  <2>1. PICK S : ops \in Seq(S)
      BY DEF HasLists
  <2>. QED
      BY <2>1
<1> HIDE DEF n
<1>2. PICK round : /\ round[0] = s
                   /\ \A k \in Nat : k < n => round[k + 1] = Apply(round[k], ops[k + 1])
                   /\ round[n] = Seqs!FoldLeft(Apply, s, ops)
    BY <1>1, FoldByRounds
<1> DEFINE T == {k \in Nat : k <= n => Known(ns, revisions, round[k])}
<1>3. 0 \in T
    BY <1>2
<1>4. ASSUME NEW k \in Nat, k \in T
      PROVE  k + 1 \in T
  <2> SUFFICES ASSUME k + 1 <= n
               PROVE  Known(ns, revisions, round[k + 1])
      OBVIOUS
  <2> DEFINE o == ops[k + 1]
  <2>1. k < n /\ k <= n /\ k + 1 \in DOMAIN ops
      BY <1>1
  <2>2. o \in ElementsOf(ops)
      BY <2>1 DEF ElementsOf
  <2>3. o.type \in Variants /\ (o.type \in Creating => IsFunction(o.object))
      BY <2>2 DEF WellMadeHistory
  <2>4. o.type \in Creating => o \in MadeBy(ns, revisions)
      BY <2>2 DEF MadeBy
  <2>5. Known(ns, revisions, round[k]) /\ round[k + 1] = Apply(round[k], o)
      BY <1>2, <1>4, <2>1
  <2> HIDE DEF o
  <2>. QED
      BY <2>3, <2>4, <2>5, ApplyKnown
<1>5. Nat \subseteq T
  <2> HIDE DEF T
  <2>. QED
      BY <1>3, <1>4, SetInduction
<1>. QED
    BY <1>1, <1>2, <1>5 DEF Visited

\* It is so all along a replay.
LEMMA AfterKnown ==
  ASSUME NEW ns, NEW history, IsHistory(ns, history), HasLists(ns, history),
         WellMadeHistory(ns, history)
  PROVE  \A n \in Nat : \A v \in After(ns, history)[n] : Known(ns, v.done, v.schema)
<1> DEFINE after == After(ns, history)
           Good(n) == \A v \in after[n] : Known(ns, v.done, v.schema)
           T == {n \in Nat : Good(n)}
<1>0. /\ after[0] = Beginning
      /\ \A n \in Nat : after[n + 1] = Longer(ns, history, after[n])
    BY AfterSteps
<1>a. \A n \in Nat : \A v \in after[n] : v.done \in SUBSET history
    BY AfterDone
<1> HIDE DEF after
<1>1. Good(0)
  <2>1. EmptySchema = Fine([i \in {} |-> NoId])
      BY DEF EmptySchema, Fine
  <2>2. EmptySchema.objects = [i \in {} |-> NoId]
      BY DEF EmptySchema
  <2>3. Known(ns, {}, EmptySchema)
      BY <2>1, <2>2 DEF Known, AreObjects, IsFunction
  <2>4. \A v \in Beginning : v.done = {} /\ v.schema = EmptySchema
      BY DEF Beginning
  <2>. QED
      BY <1>0, <2>3, <2>4
<1>2. ASSUME NEW n \in Nat, Good(n)
      PROVE  Good(n + 1)
  <2> SUFFICES ASSUME NEW v \in after[n + 1]
               PROVE  Known(ns, v.done, v.schema)
      OBVIOUS
  <2>1. PICK u \in after[n] : \E r \in CanVisit(ns, history, u.done) : v = Visit(ns, u, r)
      BY <1>0 DEF Longer
  <2> PICK r \in CanVisit(ns, history, u.done) : v = Visit(ns, u, r)
      BY <2>1
  <2>2. v.done = u.done \cup {r} /\ v.schema = Visited(ns, u.schema, r)
      BY DEF Visit
  <2>3. Known(ns, v.done, u.schema)
    <3>1. Known(ns, u.done, u.schema)
        BY <1>2
    <3>2. MadeBy(ns, u.done) \subseteq MadeBy(ns, v.done)
        BY <2>2 DEF MadeBy
    <3>. QED
        BY <3>1, <3>2 DEF Known
  <2>4. v.done \in SUBSET history /\ r \in v.done
      BY <1>a, <2>2
  <2>. QED
      BY <2>2, <2>3, <2>4, VisitedKnown
<1> HIDE DEF Good
<1>3. Nat \subseteq T
  <2>1. 0 \in T /\ \A n \in Nat : n \in T => n + 1 \in T
      BY <1>1, <1>2
  <2> HIDE DEF T
  <2>. QED
      BY <2>1, SetInduction
<1>. QED
    BY <1>3 DEF Good, after

\* A history in which nothing was asked or reported: of two revisions of which
\* none is an ancestor of the other, and each of which has at most the one
\* operation of a verb, a merge would ask nothing and report nothing.
Unreported(ns, history) ==
  \A q, r \in history : ~Related(ns, q, r) =>
    /\ DOMAIN ns[q].ops \subseteq {1} /\ DOMAIN ns[r].ops \subseteq {1}
    /\ Asked(ns[q].ops, ns[r].ops) = {}
    /\ CrossObject(ns[q].ops, ns[r].ops) = {}

\* In a schema that replay has made, tables are in no table.
LEMMA KnownIsFlat ==
  ASSUME NEW ns, NEW history, WellMadeHistory(ns, history),
         NEW revisions \in SUBSET history, NEW objects,
         \A i \in DOMAIN objects : \E x \in MadeBy(ns, revisions) :
           x.id = i /\ objects[i].table = x.object.table
  PROVE  Flat(objects)
<1> SUFFICES ASSUME NEW i \in DOMAIN objects, objects[i].table # NoId,
                    objects[i].table \in DOMAIN objects
             PROVE  objects[objects[i].table].table = NoId
    BY DEF Flat
<1> DEFINE t == objects[i].table
<1>1. PICK y \in MadeBy(ns, revisions) : y.id = i /\ objects[i].table = y.object.table
    OBVIOUS
<1>2. PICK x \in MadeBy(ns, revisions) : x.id = t /\ objects[t].table = x.object.table
    OBVIOUS
<1>3. PICK r \in revisions : y \in ElementsOf(ns[r].ops) /\ y.type \in Creating
    BY DEF MadeBy
<1>4. PICK q \in revisions : x \in ElementsOf(ns[q].ops) /\ x.type \in Creating
    BY DEF MadeBy
<1>5. x.type = "CreateTable"
    BY <1>1, <1>2, <1>3, <1>4 DEF WellMadeHistory
<1>6. x.object.table = NoId
    BY <1>4, <1>5 DEF WellMadeHistory
<1>. QED
    BY <1>2, <1>6

\* An operation of a revision not yet visited is new to what replay has made.
LEMMA NextIsWellMade ==
  ASSUME NEW ns, NEW history, WellMadeHistory(ns, history),
         NEW revisions \in SUBSET history, NEW r \in history \ revisions,
         NEW o \in ElementsOf(ns[r].ops), NEW objects,
         \A i \in DOMAIN objects : \E x \in MadeBy(ns, revisions) :
           x.id = i /\ objects[i].table = x.object.table
  PROVE  WellMade(objects, o)
<1>1. ASSUME NEW i \in DOMAIN objects
      PROVE  \E q \in revisions : \E x \in ElementsOf(ns[q].ops) :
               x.type \in Creating /\ x.id = i /\ objects[i].table = x.object.table
    BY DEF MadeBy
<1>2. o.type \in Variants /\ o.id # NoId
    BY DEF WellMadeHistory
<1>3. o.type \in Creating =>
        IsFunction(o.object) /\ (o.type = "CreateTable" <=> o.object.table = NoId)
    BY DEF WellMadeHistory
<1>4. o.type \in Creating => o.id \notin DOMAIN objects
    BY <1>1 DEF WellMadeHistory
<1>5. ASSUME o.type \in Creating \ {"CreateTable"}, o.object.table \in DOMAIN objects
      PROVE  objects[o.object.table].table = NoId
  <2>1. PICK q \in revisions : \E x \in ElementsOf(ns[q].ops) :
          x.type \in Creating /\ x.id = o.object.table /\ objects[o.object.table].table = x.object.table
      BY <1>1, <1>5
  <2>2. PICK x \in ElementsOf(ns[q].ops) :
          x.type \in Creating /\ x.id = o.object.table /\ objects[o.object.table].table = x.object.table
      BY <2>1
  <2>3. x.type = "CreateTable"
      BY <1>5, <2>2 DEF WellMadeHistory
  <2>4. x.object.table = NoId
      BY <2>2, <2>3 DEF WellMadeHistory
  <2>. QED
      BY <2>2, <2>4
<1>6. ASSUME o.type \in Destructive, o.id \in DOMAIN objects
      PROVE  o.type = "DropTable" <=> objects[o.id].table = NoId
  <2>1. PICK q \in revisions : \E x \in ElementsOf(ns[q].ops) :
          x.type \in Creating /\ x.id = o.id /\ objects[o.id].table = x.object.table
      BY <1>1, <1>6
  <2>2. PICK x \in ElementsOf(ns[q].ops) :
          x.type \in Creating /\ x.id = o.id /\ objects[o.id].table = x.object.table
      BY <2>1
  <2>3. o.type = "DropTable" <=> x.type = "CreateTable"
    <3>1. KindOf[o.type] = Made[x.type]
        BY <1>6, <2>2 DEF WellMadeHistory, Creating, Destructive
    <3>. QED
        BY <1>6, <2>2, <3>1, Kinds
  <2>4. x.type = "CreateTable" <=> x.object.table = NoId
      BY <2>2 DEF WellMadeHistory
  <2>. QED
      BY <2>2, <2>3, <2>4
<1>. QED
    BY <1>2, <1>3, <1>4, <1>5, <1>6 DEF WellMade, Creating

\* Two operations of unrelated revisions, neither yet visited, give the same in
\* either order if a merge would say nothing of them.
LEMMA UnrelatedCommute ==
  ASSUME NEW ns, NEW history, HasLists(ns, history), WellMadeHistory(ns, history),
         NEW done \in SUBSET history, NEW q \in history \ done, NEW r \in history \ done,
         q # r, ~Related(ns, q, r), ~Related(ns, r, q),
         DOMAIN ns[q].ops = {1}, DOMAIN ns[r].ops = {1},
         NEW x, NEW y, ElementsOf(ns[q].ops) = {x}, ElementsOf(ns[r].ops) = {y},
         Asked(ns[q].ops, ns[r].ops) = {}, CrossObject(ns[q].ops, ns[r].ops) = {},
         NEW s, Known(ns, done, s), ~s.broken
  PROVE  Same(Apply(Apply(s, x), y), Apply(Apply(s, y), x))
<1> DEFINE objects == s.objects
<1>1. /\ s = Fine(objects) /\ AreObjects(objects)
      /\ \A i \in DOMAIN objects : \E z \in MadeBy(ns, done) :
           z.id = i /\ objects[i].table = z.object.table
    BY DEF Known
<1> HIDE DEF objects
<1>2. Flat(objects)
    BY <1>1, KnownIsFlat
<1>3. x \in ElementsOf(ns[q].ops) /\ y \in ElementsOf(ns[r].ops)
    OBVIOUS
<1>4. WellMade(objects, x) /\ WellMade(objects, y)
  <2>1. \A i \in DOMAIN objects : \E z \in MadeBy(ns, done) :
          z.id = i /\ objects[i].table = z.object.table
      BY <1>1
  <2>2. WellMade(objects, x)
      BY <1>3, <2>1, NextIsWellMade
  <2>3. WellMade(objects, y)
      BY <1>3, <2>1, NextIsWellMade
  <2>. QED
      BY <2>2, <2>3
<1>5. ASSUME x.type \in Creating, y.type \in Creating
      PROVE  x.object.table # y.id /\ y.object.table # x.id
    BY <1>3, <1>5 DEF WellMadeHistory, Related
<1>6. CASE x.id # y.id
  <2>1. CrossObject(<<x>>, <<y>>) = {}
    <3>1. ElementsOf(<<x>>) = ElementsOf(ns[q].ops) /\ ElementsOf(<<y>>) = ElementsOf(ns[r].ops)
        BY SingleElement
    <3>. QED
        BY <3>1, CrossObjectIs DEF Destroyed
  <2>2. Same(Apply(Apply(Fine(objects), x), y), Apply(Apply(Fine(objects), y), x))
      BY <1>1, <1>2, <1>4, <1>5, <1>6, <2>1, UnreportedOperationsCommute
  <2>. QED
      BY <1>1, <2>2
<1>7. CASE x.id = y.id
  <2>1. x = ns[q].ops[1] /\ y = ns[r].ops[1]
      BY DEF ElementsOf
  <2>2. ClassifyPair(x, y) \in {"identical", "commuting"}
    <3>1. PICK S : ns[q].ops \in Seq(S)
        BY DEF HasLists
    <3>2. PICK T : ns[r].ops \in Seq(T)
        BY DEF HasLists
    <3>. QED
        BY <1>7, <2>1, <3>1, <3>2, NothingAsked
  <2>3. x.type \in Variants \ Creating /\ y.type \in Variants \ Creating
    <3>1. x.type \notin Creating
        BY <1>3, <1>7 DEF WellMadeHistory, Related
    <3>2. y.type \notin Creating
        BY <1>3, <1>7 DEF WellMadeHistory, Related
    <3>. QED
        BY <1>4, <3>1, <3>2 DEF WellMade
  <2>4. ASSUME x.id \in DOMAIN objects
        PROVE  KindOf[x.type] = KindOf[y.type]
    <3>1. PICK z \in MadeBy(ns, done) : z.id = x.id
        BY <1>1, <2>4
    <3>2. PICK p \in done : z \in ElementsOf(ns[p].ops) /\ z.type \in Creating
        BY DEF MadeBy
    <3>. QED
        BY <1>3, <1>7, <2>3, <3>1, <3>2 DEF WellMadeHistory
  <2>5. Same(Apply(Apply(Fine(objects), x), y), Apply(Apply(Fine(objects), y), x))
      BY <1>1, <1>7, <2>2, <2>3, <2>4, SameObjectCommutes
  <2>. QED
      BY <1>1, <2>5
<1>. QED
    BY <1>6, <1>7

\* decisions.md:170: two sides of a merge that nobody is asked about and that
\* nothing is reported of give one schema, whatever order replay() happens to
\* visit their revisions in; or every replay of the merge raises.
THEOREM UnreportedMergeIsOneSchema ==
  ASSUME NEW ns, NEW history, IsHistory(ns, history), HasLists(ns, history),
         WellMadeHistory(ns, history), Unreported(ns, history)
  PROVE  /\ Replays(ns, history) # {}
         /\ \A s, t \in Replays(ns, history) : Same(s, t)
<1>1. ASSUME NEW n \in Nat, NEW v \in After(ns, history)[n],
             NEW q \in CanVisit(ns, history, v.done), NEW r \in CanVisit(ns, history, v.done), q # r
      PROVE  Alike(FALSE, Visited(ns, Visited(ns, v.schema, q), r),
                          Visited(ns, Visited(ns, v.schema, r), q))
  <2> DEFINE s == v.schema
             x == ns[q].ops[1]
             y == ns[r].ops[1]
  <2>1. q \in history \ v.done /\ r \in history \ v.done /\ v.done \in SUBSET history
      BY AfterDone DEF CanVisit
  <2>2. ~Related(ns, q, r) /\ ~Related(ns, r, q)
      BY <1>1, NextAreUnrelated DEF Related
  <2>3. /\ DOMAIN ns[q].ops \subseteq {1} /\ DOMAIN ns[r].ops \subseteq {1}
        /\ Asked(ns[q].ops, ns[r].ops) = {}
        /\ CrossObject(ns[q].ops, ns[r].ops) = {}
      BY <2>1, <2>2 DEF Unreported
  <2>4. Known(ns, v.done, s)
      BY AfterKnown
  <2>5. ASSUME NEW p \in {q, r}
        PROVE  /\ DOMAIN ns[p].ops = {} => \A t : Visited(ns, t, p) = t
               /\ DOMAIN ns[p].ops = {1} => \A t : Visited(ns, t, p) = Apply(t, ns[p].ops[1])
    <3>1. ASSUME NEW k \in Nat, k = 1
          PROVE  1 .. k = {1}
        BY <3>1
    <3>2. ASSUME NEW k \in Nat, k = 0
          PROVE  1 .. k = {}
        BY <3>2
    <3>. QED
        BY <3>1, <3>2, FoldShort DEF Visited
  <2>6. CASE DOMAIN ns[q].ops = {} \/ DOMAIN ns[r].ops = {}
      BY <2>5, <2>6 DEF Alike
  <2>7. CASE DOMAIN ns[q].ops = {1} /\ DOMAIN ns[r].ops = {1}
    <3>1. \A t : Visited(ns, t, q) = Apply(t, x) /\ Visited(ns, t, r) = Apply(t, y)
        BY <2>5, <2>7
    <3>2. ElementsOf(ns[q].ops) = {x} /\ ElementsOf(ns[r].ops) = {y}
        BY <2>7 DEF ElementsOf
    <3>3. CASE s.broken
        BY <3>1, <3>3 DEF Apply, Alike
    <3>4. CASE ~s.broken
      <4>1. Same(Apply(Apply(s, x), y), Apply(Apply(s, y), x))
          BY <1>1, <2>1, <2>2, <2>3, <2>4, <2>7, <3>2, <3>4, UnrelatedCommute
      <4>. QED
          BY <3>1, <4>1 DEF Same, Alike
    <3>. QED
        BY <3>3, <3>4
  <2>. QED
      BY <2>3, <2>6, <2>7
<1>2. Commuting(FALSE, ns, history)
    BY <1>1 DEF Commuting
<1>3. /\ Replays(ns, history) # {}
      /\ \A s, t \in Replays(ns, history) : Alike(FALSE, s, t)
    BY <1>2, CommutingReplayAlike
<1>. QED
    BY <1>3 DEF Alike, Same

----------------------------------------------------------------------------
(* The sort of the operations, whatever they are: their dependencies have no *)
(* cycle, and the sorted list has every operation once, each behind those it *)
(* depends on.                                                               *)

\* How late an operation comes among those it depends on.
Rank(o) ==
  CASE o.type \in {"AddIndex", "AddConstraint"} -> 2
    [] o.type \in {"AddColumn", "DropTable"} -> 1
    [] OTHER -> 0

\* An edge leads from a lower rank to a higher: from the creation of a table or
\* column to what is made in it, or from a column's drop to its table's.
LEMMA EdgesClimb ==
  ASSUME NEW ops, NEW e \in Edges(ops)
  PROVE  Rank(ops[e[1]]) < Rank(ops[e[2]])
<1> DEFINE i == e[1]
           j == e[2]
           left == ops[i]
           right == ops[j]
<1>1. CASE /\ left.type = "CreateTable"
           /\ right.type \in {"AddColumn", "AddIndex", "AddConstraint"}
  BY <1>1 DEF Rank
<1>2. CASE /\ left.type = "AddColumn"
           /\ right.type \in {"AddIndex", "AddConstraint"}
  BY <1>2 DEF Rank
<1>3. CASE /\ left.type = "DropColumn"
           /\ right.type = "DropTable"
  BY <1>3 DEF Rank
<1>4. \/ /\ left.type = "CreateTable"
         /\ right.type \in {"AddColumn", "AddIndex", "AddConstraint"}
      \/ /\ left.type = "AddColumn"
         /\ right.type \in {"AddIndex", "AddConstraint"}
      \/ /\ left.type = "DropColumn"
         /\ right.type = "DropTable"
  BY DEF Edges, IsLast
<1>5. QED
  BY <1>1, <1>2, <1>3, <1>4

\* toposort.py:136 "if len(ordered_indices) != n": CircularDependencyError is
\* never raised, because among the operations that are left, whichever they
\* are, one depends on none of the others.
THEOREM SomeOperationIsReady ==
  ASSUME NEW ops, NEW left \in SUBSET DOMAIN ops, left # {}
  PROVE  left \ {e[2] : e \in {e \in Edges(ops) : e[1] \in left}} # {}
<1> DEFINE Ready(j) == \A e \in Edges(ops) : e[2] = j => e[1] \notin left
<1>1. \A i \in left : Rank(ops[i]) \in {0, 1, 2}
  BY DEF Rank
<1>2. ASSUME NEW j \in left, \A i \in left : Rank(ops[i]) >= Rank(ops[j])
      PROVE  Ready(j)
  <2> SUFFICES ASSUME NEW e \in Edges(ops), e[2] = j, e[1] \in left
               PROVE  FALSE
    OBVIOUS
  <2>1. Rank(ops[e[1]]) < Rank(ops[j])
    BY EdgesClimb
  <2> QED
    BY <1>1, <1>2, <2>1
<1>3. \E j \in left : \A i \in left : Rank(ops[i]) >= Rank(ops[j])
  <2>1. CASE \E j \in left : Rank(ops[j]) = 0
    BY <1>1, <2>1
  <2>2. CASE (\A j \in left : Rank(ops[j]) # 0) /\ \E j \in left : Rank(ops[j]) = 1
    BY <1>1, <2>2
  <2>3. CASE \A j \in left : Rank(ops[j]) = 2
    BY <2>3
  <2> QED
    BY <1>1, <2>1, <2>2, <2>3
<1> QED
  BY <1>2, <1>3

----------------------------------------------------------------------------
(* The sort is a fold over the places 1 .. n of the list: a function on the  *)
(* subsets of 1 .. n, which is shown to exist by induction on n and is then  *)
(* followed along 1 .. 0, 1 .. 1, ..., 1 .. n.                               *)

\* toposort.py: the operations that are not yet sorted.
Unsorted(ops, sorted) == DOMAIN ops \ Seqs!ToSet(sorted)

\* Those of them that wait for none of the others.
Ready(ops, left) == left \ {e[2] : e \in {e \in Edges(ops) : e[1] \in left}}

\* One round of the loop.
Take(ops, sorted) == Append(sorted, NextReady(Ready(ops, Unsorted(ops, sorted))))

\* The function that folds over the places up to n.
IsSort(ops, n, iter) ==
  iter = [s \in SUBSET (1 .. n) |-> IF s = {} THEN <<>> ELSE Take(ops, iter[s \ {Seqs!Max(s)}])]

\* Toposort is the fold that starts from the empty list.
LEMMA ToposortFolds ==
  ASSUME NEW ops, NEW n \in Nat, DOMAIN ops = 1 .. n
  PROVE  Toposort(ops) = (CHOOSE iter : IsSort(ops, n, iter))[1 .. n]
<1>1. DOMAIN [i \in DOMAIN ops |-> i] = 1 .. n
    OBVIOUS
<1>. QED
    BY <1>1 DEF Toposort, Seqs!FoldLeftDomain, Seqs!FoldLeft, Seqs!MapThenFoldSet, IsSort, Take,
                Ready, Unsorted

\* There is such a fold: by induction on n.
LEMMA SortExists ==
  ASSUME NEW ops, NEW n \in Nat
  PROVE  \E iter : IsSort(ops, n, iter)
<1> DEFINE S == {m \in Nat : \E iter : IsSort(ops, m, iter)}
<1>1. 0 \in S
  <2>1. SUBSET (1 .. 0) = {{}}
      OBVIOUS
  <2>2. IsSort(ops, 0, [s \in SUBSET (1 .. 0) |-> <<>>])
      BY <2>1 DEF IsSort
  <2>. QED
      BY <2>2
<1>2. ASSUME NEW m \in Nat, m \in S
      PROVE  m + 1 \in S
  <2>1. PICK iter : IsSort(ops, m, iter)
      BY <1>2
  <2> DEFINE next == [s \in SUBSET (1 .. (m + 1)) |->
                        IF s = {} THEN <<>> ELSE Take(ops, iter[s \ {Seqs!Max(s)}])]
  <2>2. ASSUME NEW s \in SUBSET (1 .. m)
        PROVE  next[s] = iter[s]
    <3>1. s \in SUBSET (1 .. (m + 1))
        OBVIOUS
    <3>. QED
        BY <2>1, <3>1 DEF IsSort
  <2>4. \A s \in SUBSET (1 .. (m + 1)) : s # {} => iter[s \ {Seqs!Max(s)}] = next[s \ {Seqs!Max(s)}]
      BY <2>2, WithoutMax
  <2>5. next = [s \in SUBSET (1 .. (m + 1)) |->
                  IF s = {} THEN <<>> ELSE Take(ops, next[s \ {Seqs!Max(s)}])]
      BY <2>4
  <2> HIDE DEF next
  <2>6. IsSort(ops, m + 1, next)
      BY <2>5 DEF IsSort
  <2>. QED
      BY <2>6
<1> HIDE DEF S
<1>3. Nat \subseteq S
    BY <1>1, <1>2, SetInduction
<1>. QED
    BY <1>3 DEF S

\* So the sort is n rounds of the loop, one after the other.
LEMMA SortByRounds ==
  ASSUME NEW ops, NEW n \in Nat, DOMAIN ops = 1 .. n
  PROVE  \E round : /\ round[0] = <<>>
                    /\ \A k \in Nat : k < n => round[k + 1] = Take(ops, round[k])
                    /\ round[n] = Toposort(ops)
<1> DEFINE iter == CHOOSE iter : IsSort(ops, n, iter)
           round == [k \in 0 .. n |-> iter[1 .. k]]
<1>1. IsSort(ops, n, iter)
    BY SortExists
<1>2. Toposort(ops) = round[n]
    BY ToposortFolds
<1> HIDE DEF iter
<1>3. \A s \in SUBSET (1 .. n) :
        iter[s] = IF s = {} THEN <<>> ELSE Take(ops, iter[s \ {Seqs!Max(s)}])
    BY <1>1 DEF IsSort
<1>4. round[0] = <<>>
  <2>1. 1 .. 0 = {} /\ {} \in SUBSET (1 .. n) /\ 0 \in 0 .. n
      OBVIOUS
  <2>2. iter[{}] = <<>>
      BY <1>3, <2>1
  <2>. QED
      BY <2>1, <2>2
<1>5. ASSUME NEW k \in Nat, k < n
      PROVE  round[k + 1] = Take(ops, round[k])
  <2> DEFINE s == 1 .. (k + 1)
  <2>1. s \in SUBSET (1 .. n) /\ s # {}
      BY <1>5
  <2>4. s \ {Seqs!Max(s)} = 1 .. k
      BY MaxOfInterval, Zenon
  <2> HIDE DEF s
  <2>5. iter[s] = Take(ops, iter[s \ {Seqs!Max(s)}])
      BY <1>3, <2>1
  <2>2. iter[1 .. (k + 1)] = Take(ops, iter[1 .. k])
      BY <2>4, <2>5 DEF s
  <2>3. k \in 0 .. n /\ k + 1 \in 0 .. n
      BY <1>5
  <2>. QED
      BY <2>2, <2>3
<1> HIDE DEF round
<1>. QED
    BY <1>2, <1>4, <1>5

\* What holds of the list after k rounds.
SortedSoFar(ops, n, sorted, k) ==
  /\ sorted \in [1 .. k -> 1 .. n]
  /\ \A i, j \in 1 .. k : sorted[i] = sorted[j] => i = j
  /\ \A j \in 1 .. k : \A e \in Edges(ops) :
       e[2] = sorted[j] => \E i \in 1 .. (j - 1) : sorted[i] = e[1]
  /\ \A j \in 1 .. k : \A x \in 1 .. n :
       x < sorted[j] /\ (\A i \in 1 .. j : sorted[i] # x)
         => \E e \in Edges(ops) : e[2] = x /\ \A i \in 1 .. (j - 1) : sorted[i] # e[1]

\* Fewer than n different numbers are not all of 1 .. n ...
LEMMA SomeIsLeft ==
  ASSUME NEW n \in Nat, NEW k \in Nat, k < n, NEW f \in [1 .. k -> 1 .. n]
  PROVE  (1 .. n) \ {f[i] : i \in 1 .. k} # {}
<1>1. SUFFICES ASSUME 1 .. n = {f[i] : i \in 1 .. k}
               PROVE  FALSE
    OBVIOUS
<1>2. f \in Surjection(1 .. k, 1 .. n)
    BY <1>1 DEF Surjection
<1>3. Cardinality(1 .. k) = k /\ Cardinality(1 .. n) = n /\ IsFiniteSet(1 .. k)
    BY FS_Interval
<1>. QED
    BY <1>2, <1>3, FS_Surjection

\* ... and n different ones are.
LEMMA NoneIsLeft ==
  ASSUME NEW n \in Nat, NEW f \in [1 .. n -> 1 .. n],
         \A i, j \in 1 .. n : f[i] = f[j] => i = j
  PROVE  \A x \in 1 .. n : \E i \in 1 .. n : f[i] = x
<1>1. f \in Injection(1 .. n, 1 .. n)
    BY DEF Injection, IsInjective
<1>2. IsFiniteSet(1 .. n)
    BY FS_Interval
<1>3. f \in Surjection(1 .. n, 1 .. n)
    BY <1>1, <1>2, FS_Injection
<1>. QED
    BY <1>3 DEF Surjection

\* A list of places with one more place.
LEMMA AppendPlace ==
  ASSUME NEW n \in Nat, NEW k \in Nat, NEW f \in [1 .. k -> 1 .. n], NEW r \in 1 .. n
  PROVE  /\ Append(f, r) \in [1 .. (k + 1) -> 1 .. n]
         /\ \A i \in 1 .. k : Append(f, r)[i] = f[i]
         /\ Append(f, r)[k + 1] = r
<1> DEFINE t == Append(f, r)
<1>1. f \in Seq(1 .. n) /\ Len(f) = k
    OBVIOUS
<1>2. t \in Seq(1 .. n) /\ Len(t) = k + 1
    BY <1>1
<1>3. (\A i \in 1 .. k : t[i] = f[i]) /\ t[k + 1] = r
    BY <1>1
<1> HIDE DEF t
<1>4. t \in [1 .. (k + 1) -> 1 .. n]
  <2>1. PICK m \in Nat : t \in [1 .. m -> 1 .. n]
      BY <1>2, SeqDef
  <2>2. m = k + 1
      BY <1>2, <2>1
  <2>. QED
      BY <2>1, <2>2
<1>. QED
    BY <1>3, <1>4, Zenon DEF t

\* One round of the sort takes one operation that is ready.
LEMMA RoundSorts ==
  ASSUME NEW ops, NEW n \in Nat, DOMAIN ops = 1 .. n, NEW k \in Nat, k < n,
         NEW sorted, SortedSoFar(ops, n, sorted, k)
  PROVE  SortedSoFar(ops, n, Take(ops, sorted), k + 1)
<1> DEFINE left == Unsorted(ops, sorted)
           ready == Ready(ops, left)
           r == NextReady(ready)
           next == Append(sorted, r)
<1>1. sorted \in [1 .. k -> 1 .. n]
    BY DEF SortedSoFar
<1>2. Seqs!ToSet(sorted) = {sorted[i] : i \in 1 .. k}
    BY <1>1 DEF Seqs!ToSet
<1>3. left = (1 .. n) \ {sorted[i] : i \in 1 .. k} /\ left # {} /\ left \subseteq DOMAIN ops
    BY <1>1, <1>2, SomeIsLeft DEF Unsorted
<1>4. ready # {} /\ ready \subseteq left
    BY <1>3, SomeOperationIsReady DEF Ready
<1>5. r \in ready /\ \A x \in ready : r <= x
  <2>1. ready \in SUBSET Nat
      BY <1>3, <1>4
  <2> HIDE DEF ready
  <2>2. \E x \in ready : \A y \in ready : x <= y
      BY <1>4, <2>1, LeastNatural
  <2>. QED
      BY <2>2 DEF NextReady
<1>6. r \in 1 .. n /\ \A i \in 1 .. k : sorted[i] # r
    BY <1>3, <1>4, <1>5
<1>7. \A e \in Edges(ops) : e[2] = r => e[1] \notin left
    BY <1>5 DEF Ready
<1>8. \A x \in left : x < r => \E e \in Edges(ops) : e[2] = x /\ e[1] \in left
  <2> SUFFICES ASSUME NEW x \in left, x < r
               PROVE  x \notin ready
      BY DEF Ready
  <2>1. x \in Nat /\ r \in Nat
      BY <1>3, <1>6
  <2>. QED
      BY <1>5, <2>1
<1>9. \A e \in Edges(ops) : e[1] \in DOMAIN ops
    BY DEF Edges
<1> HIDE DEF left, ready, r
<1>10. /\ next \in [1 .. (k + 1) -> 1 .. n]
       /\ \A i \in 1 .. k : next[i] = sorted[i]
       /\ next[k + 1] = r
  <2>1. r \in 1 .. n
      BY <1>6
  <2>2. /\ Append(sorted, r) \in [1 .. (k + 1) -> 1 .. n]
        /\ \A i \in 1 .. k : Append(sorted, r)[i] = sorted[i]
        /\ Append(sorted, r)[k + 1] = r
      BY <1>1, <2>1, AppendPlace
  <2>. QED
      BY <2>2, Zenon DEF next
<1> HIDE DEF next
<1>11. \A i, j \in 1 .. (k + 1) : next[i] = next[j] => i = j
  <2>1. \A i, j \in 1 .. k : next[i] = next[j] => i = j
      BY <1>10 DEF SortedSoFar
  <2>2. \A i \in 1 .. k : next[i] # next[k + 1]
      BY <1>6, <1>10
  <2>3. \A i \in 1 .. (k + 1) : i \in 1 .. k \/ i = k + 1
      OBVIOUS
  <2>. QED
      BY <2>1, <2>2, <2>3
<1>12. ASSUME NEW j \in 1 .. (k + 1), NEW e \in Edges(ops), e[2] = next[j]
       PROVE  \E i \in 1 .. (j - 1) : next[i] = e[1]
  <2>1. CASE j = k + 1
    <3>1. e[1] \in {sorted[i] : i \in 1 .. k}
        BY <1>3, <1>7, <1>9, <1>10, <1>12, <2>1
    <3>2. PICK i \in 1 .. k : sorted[i] = e[1]
        BY <3>1
    <3>. QED
        BY <1>10, <2>1, <3>2
  <2>2. CASE j \in 1 .. k
    <3>1. PICK i \in 1 .. (j - 1) : sorted[i] = e[1]
        BY <1>10, <1>12, <2>2 DEF SortedSoFar
    <3>. QED
        BY <1>10, <2>2, <3>1
  <2>. QED
      BY <2>1, <2>2
<1>13. ASSUME NEW j \in 1 .. (k + 1), NEW x \in 1 .. n,
              x < next[j], \A i \in 1 .. j : next[i] # x
       PROVE  \E e \in Edges(ops) : e[2] = x /\ \A i \in 1 .. (j - 1) : next[i] # e[1]
  <2>1. CASE j = k + 1
    <3>1. x \in left
        BY <1>3, <1>10, <1>13, <2>1
    <3>2. PICK e \in Edges(ops) : e[2] = x /\ e[1] \in left
        BY <1>8, <1>10, <1>13, <2>1, <3>1
    <3>3. \A i \in 1 .. (j - 1) : next[i] # e[1]
        BY <1>3, <1>10, <2>1, <3>2
    <3>. QED
        BY <3>2, <3>3
  <2>2. CASE j \in 1 .. k
    <3>1. PICK e \in Edges(ops) : e[2] = x /\ \A i \in 1 .. (j - 1) : sorted[i] # e[1]
      <4>1. x < sorted[j] /\ \A i \in 1 .. j : sorted[i] # x
          BY <1>10, <1>13, <2>2
      <4>. QED
          BY <2>2, <4>1 DEF SortedSoFar
    <3>. QED
        BY <1>10, <2>2, <3>1
  <2>. QED
      BY <2>1, <2>2
<1>14. Take(ops, sorted) = next
    BY DEF Take, next, r, ready, left
<1>. QED
    BY <1>10, <1>11, <1>12, <1>13, <1>14 DEF SortedSoFar

\* toposort.py:1: whatever the operations are, the sorted list has each of them
\* once and every one behind those it depends on; and one is only put behind a
\* later one of the list if it had to wait for another (toposort.py:132).
THEOREM ToposortSorts ==
  ASSUME NEW ops, NEW n \in Nat, DOMAIN ops = 1 .. n
  PROVE  LET sorted == Toposort(ops)
         IN  /\ sorted \in [1 .. n -> 1 .. n]
             /\ \A x \in 1 .. n : \E i \in 1 .. n : sorted[i] = x
             /\ \A i, j \in 1 .. n : sorted[i] = sorted[j] => i = j
             /\ \A e \in Edges(ops) : \E i, j \in 1 .. n :
                  i < j /\ sorted[i] = e[1] /\ sorted[j] = e[2]
             /\ \A i, j \in 1 .. n : i < j /\ sorted[j] < sorted[i] =>
                  \E e \in Edges(ops) : \E m \in i .. (j - 1) :
                    sorted[m] = e[1] /\ sorted[j] = e[2]
<1> DEFINE sorted == Toposort(ops)
<1> HIDE DEF sorted
<1>1. PICK round : /\ round[0] = <<>>
                   /\ \A k \in Nat : k < n => round[k + 1] = Take(ops, round[k])
                   /\ round[n] = sorted
    BY SortByRounds DEF sorted
<1> DEFINE S == {k \in Nat : k <= n => SortedSoFar(ops, n, round[k], k)}
<1>2. 0 \in S
  <2>1. <<>> \in [1 .. 0 -> 1 .. n]
      OBVIOUS
  <2>2. SortedSoFar(ops, n, <<>>, 0)
      BY <2>1 DEF SortedSoFar
  <2>. QED
      BY <1>1, <2>2
<1>3. \A k \in Nat : k \in S => k + 1 \in S
    BY <1>1, RoundSorts
<1>4. SortedSoFar(ops, n, sorted, n)
  <2> HIDE DEF S
  <2>1. n \in S
      BY <1>2, <1>3, SetInduction
  <2>. QED
      BY <1>1, <2>1 DEF S
<1> HIDE DEF sorted, S
<1>5. sorted \in [1 .. n -> 1 .. n]
    BY <1>4 DEF SortedSoFar
<1>6. \A x \in 1 .. n : \E i \in 1 .. n : sorted[i] = x
  <2>1. \A i, j \in 1 .. n : sorted[i] = sorted[j] => i = j
      BY <1>4 DEF SortedSoFar
  <2>. QED
      BY <1>5, <2>1, NoneIsLeft
<1>7. ASSUME NEW e \in Edges(ops)
      PROVE  \E i, j \in 1 .. n : i < j /\ sorted[i] = e[1] /\ sorted[j] = e[2]
  <2>1. e[2] \in 1 .. n
      BY DEF Edges
  <2>2. PICK j \in 1 .. n : sorted[j] = e[2]
      BY <1>6, <2>1
  <2>3. PICK i \in 1 .. (j - 1) : sorted[i] = e[1]
      BY <1>4, <2>2 DEF SortedSoFar
  <2>. QED
      BY <2>2, <2>3
<1>8. ASSUME NEW i \in 1 .. n, NEW j \in 1 .. n, i < j, sorted[j] < sorted[i]
      PROVE  \E e \in Edges(ops) : \E m \in i .. (j - 1) :
               sorted[m] = e[1] /\ sorted[j] = e[2]
  <2>1. \A m \in 1 .. i : sorted[m] # sorted[j]
      BY <1>4, <1>8 DEF SortedSoFar
  <2>2. sorted[j] \in 1 .. n
      BY <1>5
  <2>3. PICK e \in Edges(ops) : e[2] = sorted[j] /\ \A m \in 1 .. (i - 1) : sorted[m] # e[1]
      BY <1>4, <1>8, <2>1, <2>2 DEF SortedSoFar
  <2>4. PICK m \in 1 .. (j - 1) : sorted[m] = e[1]
      BY <1>4, <2>3 DEF SortedSoFar
  <2>. QED
      BY <2>3, <2>4
<1>9. \A i, j \in 1 .. n : sorted[i] = sorted[j] => i = j
    BY <1>4 DEF SortedSoFar
<1>. QED
    BY <1>5, <1>6, <1>7, <1>8, <1>9 DEF sorted

----------------------------------------------------------------------------
(* What the merge reads of its two sides, and what it lists.                *)

\* What one side did to one object is some of what it did.
LEMMA OpsOnListed ==
  ASSUME NEW ops, Listed(ops), NEW id
  PROVE  /\ Listed(OpsOn(ops, id))
         /\ ElementsOf(OpsOn(ops, id)) = {o \in ElementsOf(ops) : o.id = id}
<1> DEFINE L == Len(ops)
           on == CHOOSE on : IsOn(ops, id, L, on)
           Of(k) == {ops[i] : i \in {j \in 1 .. k : ops[j].id = id}}
<1>1. L \in Nat /\ DOMAIN ops = 1 .. L
    BY ListedPlaces
<1>2. IsOn(ops, id, L, on)
    BY <1>1, OnExists
<1>3. OpsOn(ops, id) = on[L]
    BY DEF OpsOn, IsOn
<1> HIDE DEF on, L
<1>4. \A k \in 0 .. L : on[k] = IF k = 0 THEN <<>>
          ELSE IF ops[k].id = id THEN Append(on[k - 1], ops[k]) ELSE on[k - 1]
    BY <1>2 DEF IsOn
<1> DEFINE Good(k) == Listed(on[k]) /\ ElementsOf(on[k]) = Of(k)
           T == {k \in Nat : k <= L => Good(k)}
<1>5. Good(0)
  <2>1. on[0] = <<>>
      BY <1>1, <1>4
  <2>2. Of(0) = {}
      OBVIOUS
  <2> HIDE DEF Of
  <2>. QED
      BY <2>1, <2>2, EmptyListed
<1>6. ASSUME NEW k \in Nat, k < L, Good(k)
      PROVE  Good(k + 1)
  <2>1. k + 1 \in 0 .. L /\ k + 1 # 0 /\ (k + 1) - 1 = k
      BY <1>1, <1>6
  <2>2. on[k + 1] = IF ops[k + 1].id = id THEN Append(on[k], ops[k + 1]) ELSE on[k]
      BY <1>4, <2>1
  <2>3. 1 .. (k + 1) = (1 .. k) \cup {k + 1}
      OBVIOUS
  <2>4. CASE ops[k + 1].id = id
    <3>1. Of(k + 1) = Of(k) \cup {ops[k + 1]}
        BY <2>3, <2>4
    <3>2. on[k + 1] = Append(on[k], ops[k + 1])
        BY <2>2, <2>4
    <3> HIDE DEF Of
    <3>3. /\ Listed(Append(on[k], ops[k + 1]))
          /\ ElementsOf(Append(on[k], ops[k + 1])) = ElementsOf(on[k]) \cup {ops[k + 1]}
        BY <1>6, ListedAppend
    <3>. QED
        BY <1>6, <3>1, <3>2, <3>3
  <2>5. CASE ops[k + 1].id # id
    <3>1. Of(k + 1) = Of(k)
        BY <2>3, <2>5
    <3> HIDE DEF Of
    <3>. QED
        BY <1>6, <2>2, <2>5, <3>1
  <2>. QED
      BY <2>4, <2>5
<1>7. Nat \subseteq T
  <2> HIDE DEF Good
  <2>1. \A k \in Nat : k + 1 <= L => k < L /\ k <= L
      BY <1>1
  <2>2. 0 \in T /\ \A k \in Nat : k \in T => k + 1 \in T
      BY <1>5, <1>6, <2>1
  <2> HIDE DEF T
  <2>. QED
      BY <2>2, SetInduction
<1>8. Good(L)
    BY <1>1, <1>7
<1>9. Of(L) = {o \in ElementsOf(ops) : o.id = id}
    BY <1>1 DEF ElementsOf
<1>. QED
    BY <1>3, <1>8, <1>9

----------------------------------------------------------------------------
(* What is in a merge node.                                                 *)

\* A list has finitely many elements, and touches finitely many objects.
LEMMA ListFinite ==
  ASSUME NEW ops, Listed(ops)
  PROVE  IsFiniteSet(ElementsOf(ops)) /\ IsFiniteSet(Touched(ops)) /\ IsFiniteSet(ColumnKeys(ops))
<1>1. Len(ops) \in Nat /\ DOMAIN ops = 1 .. Len(ops)
    BY ListedPlaces
<1>2. IsFiniteSet(DOMAIN ops)
    BY <1>1, FS_Interval
<1>3. IsFiniteSet(ElementsOf(ops))
    BY <1>2, ImageFinite DEF ElementsOf
<1>4. IsFiniteSet(Touched(ops))
  <2> DEFINE f == [o \in ElementsOf(ops) |-> o.id]
  <2>1. Touched(ops) = {f[o] : o \in ElementsOf(ops)}
      BY DEF Touched
  <2> HIDE DEF f
  <2>. QED
      BY <1>3, <2>1, ImageFinite
<1>5. IsFiniteSet(ColumnKeys(ops))
  <2> DEFINE S == {x \in ElementsOf(ops) : x.type = "AddColumn"}
             f == [o \in S |-> <<o.object.table, o.object.name>>]
  <2>1. ColumnKeys(ops) = {f[o] : o \in S}
      BY DEF ColumnKeys
  <2>2. IsFiniteSet(S)
      BY <1>3, FS_Subset
  <2> HIDE DEF f, S
  <2>. QED
      BY <2>1, <2>2, ImageFinite
<1>. QED
    BY <1>3, <1>4, <1>5

\* A merge asks about, reports and renames finitely many objects.
LEMMA ReportsFinite ==
  ASSUME NEW opsA, Listed(opsA), NEW opsB, Listed(opsB)
  PROVE  /\ IsFiniteSet(Asked(opsA, opsB)) /\ IsFiniteSet(CrossObject(opsA, opsB))
         /\ IsFiniteSet(Collisions(opsA, opsB))
<1>1. IsFiniteSet(Asked(opsA, opsB))
  <2>1. Asked(opsA, opsB) \in SUBSET Touched(opsA)
      BY DEF Asked
  <2>. QED
      BY <2>1, ListFinite, FS_Subset
<1>2. IsFiniteSet(CrossObject(opsA, opsB))
  <2>1. CrossObject(opsA, opsB) \in SUBSET (ElementsOf(opsA) \cup ElementsOf(opsB))
      BY CrossObjectIs
  <2>2. IsFiniteSet(ElementsOf(opsA) \cup ElementsOf(opsB))
      BY ListFinite, FS_Union
  <2>. QED
      BY <2>1, <2>2, FS_Subset
<1>3. IsFiniteSet(Collisions(opsA, opsB))
  <2> DEFINE S == ColumnKeys(opsA) \cap ColumnKeys(opsB)
             f == [key \in S |->
                     LET i == FirstAdd(opsA, key)  j == FirstAdd(opsB, key)
                     IN  IF i <= j THEN [kept |-> opsA[i].id, dropped |-> opsB[j].id]
                         ELSE [kept |-> opsB[j].id, dropped |-> opsA[i].id]]
  <2>1. Collisions(opsA, opsB) = {f[key] : key \in S}
      BY DEF Collisions
  <2>2. IsFiniteSet(S)
      BY ListFinite, FS_Intersection
  <2> HIDE DEF f, S
  <2>. QED
      BY <2>1, <2>2, ImageFinite
<1>. QED
    BY <1>1, <1>2, <1>3

\* The drops that the cross-object pass puts into a merge node.
Correctives(opsA, opsB) == {CorrectiveDrop(o) : o \in CrossObject(opsA, opsB)}

\* The drops of the additions that lose their name.
Unnamed(opsA, opsB) == {[type |-> "DropColumn", id |-> c.dropped] : c \in Collisions(opsA, opsB)}

\* The operations that the answers choose.
Resolved(opsA, opsB, answers) ==
  UNION {ElementsOf(Chosen(OpsOn(opsA, id), OpsOn(opsB, id), answers[id])) : id \in DOMAIN answers}

\* The list they come in, some of them more than once.
CorrectiveList(opsA, opsB) ==
  [i \in DOMAIN NewGroups(opsA, opsB) |-> CorrectiveDrop(NewGroups(opsA, opsB)[i][1])]

LEMMA CorrectivesListed ==
  ASSUME NEW opsA, Listed(opsA), NEW opsB, Listed(opsB)
  PROVE  /\ Listed(CorrectiveList(opsA, opsB))
         /\ ElementsOf(CorrectiveList(opsA, opsB)) = Correctives(opsA, opsB)
<1> DEFINE groups == NewGroups(opsA, opsB)
           list == CorrectiveList(opsA, opsB)
           found == FindConflicts(opsB, opsA) \cup FindConflicts(opsA, opsB)
<1>1. \A adding, destroying :
        Listed(adding) /\ Listed(destroying) => IsFiniteSet(FindConflicts(adding, destroying))
  <2> SUFFICES ASSUME NEW adding, Listed(adding), NEW destroying, Listed(destroying)
               PROVE  IsFiniteSet(FindConflicts(adding, destroying))
      OBVIOUS
  <2>1. IsFiniteSet(ElementsOf(adding)) /\ IsFiniteSet(Touched(destroying))
      BY ListFinite
  <2>2. Destroyed(destroying) \in SUBSET Touched(destroying)
      BY DEF Destroyed, Touched
  <2>3. IsFiniteSet(Destroyed(destroying))
      BY <2>1, <2>2, FS_Subset
  <2>4. IsFiniteSet(ElementsOf(adding) \X Destroyed(destroying))
      BY <2>1, <2>3, FS_Product
  <2>5. FindConflicts(adding, destroying) \in SUBSET (ElementsOf(adding) \X Destroyed(destroying))
      BY DEF FindConflicts
  <2>. QED
      BY <2>4, <2>5, FS_Subset
<1>2. Listed(groups) /\ ElementsOf(groups) = found
  <2>1. /\ Listed(Seqs!SetToSeq(FindConflicts(opsB, opsA)))
        /\ ElementsOf(Seqs!SetToSeq(FindConflicts(opsB, opsA))) = FindConflicts(opsB, opsA)
      BY <1>1, SetToSeqListed
  <2>2. /\ Listed(Seqs!SetToSeq(FindConflicts(opsA, opsB)))
        /\ ElementsOf(Seqs!SetToSeq(FindConflicts(opsA, opsB))) = FindConflicts(opsA, opsB)
      BY <1>1, SetToSeqListed
  <2>. QED
      BY <2>1, <2>2, ListedConcat DEF NewGroups
<1>3. DOMAIN list = DOMAIN groups /\ \A i \in DOMAIN groups : list[i] = CorrectiveDrop(groups[i][1])
    BY DEF CorrectiveList
<1>4. Listed(list)
  <2>1. Len(groups) \in Nat /\ DOMAIN groups = 1 .. Len(groups)
      BY <1>2, ListedPlaces
  <2>2. DOMAIN list = 1 .. Len(groups) /\ list = [i \in 1 .. Len(groups) |-> list[i]]
      BY <2>1 DEF CorrectiveList
  <2> HIDE DEF list, groups
  <2>. QED
      BY <2>1, <2>2, ListedFunction
<1>5. CrossObject(opsA, opsB) = {c[1] : c \in found}
    BY DEF CrossObject
<1> HIDE DEF list, groups, found
<1>6. ElementsOf(list) = {CorrectiveDrop(c[1]) : c \in ElementsOf(groups)}
    BY <1>3 DEF ElementsOf
<1>7. Correctives(opsA, opsB) = {CorrectiveDrop(c[1]) : c \in found}
    BY <1>5 DEF Correctives
<1>. QED
    BY <1>2, <1>4, <1>6, <1>7 DEF list

\* What is in a merge node.
LEMMA MergeOpsListed ==
  ASSUME NEW opsA, Listed(opsA), NEW opsB, Listed(opsB),
         NEW answers, IsFiniteSet(DOMAIN answers)
  PROVE  LET ops == MergeOps(opsA, opsB, answers)
         IN  /\ Listed(ops)
             /\ ElementsOf(ops) = Resolved(opsA, opsB, answers)
                  \cup Correctives(opsA, opsB) \cup Unnamed(opsA, opsB)
<1> DEFINE asked == Seqs!SetToSeq(DOMAIN answers)
           Group(id) == Chosen(OpsOn(opsA, id), OpsOn(opsB, id), answers[id])
           resolved == [i \in DOMAIN asked |-> Group(asked[i])]
           first == Seqs!FlattenSeq(resolved)
           second == CorrectiveList(opsA, opsB)
           third == Seqs!SetToSeq(Unnamed(opsA, opsB))
<1>1. MergeOps(opsA, opsB, answers) = (first \o second) \o third
    BY DEF MergeOps, CorrectiveList, Unnamed
<1>2. Listed(asked) /\ ElementsOf(asked) = DOMAIN answers
    BY SetToSeqListed
<1>3. \A id : Listed(Group(id))
  <2> SUFFICES ASSUME NEW id
               PROVE  Listed(Group(id))
      OBVIOUS
  <2>1. Listed(OpsOn(opsA, id)) /\ Listed(OpsOn(opsB, id))
      BY OpsOnListed
  <2>2. Listed(OpsOn(opsA, id) \o OpsOn(opsB, id))
      BY <2>1, ListedConcat
  <2>. QED
      BY <2>1, <2>2 DEF Chosen
<1> HIDE DEF Group, asked
<1>4. /\ Listed(resolved) /\ DOMAIN resolved = DOMAIN asked
      /\ \A i \in DOMAIN asked : resolved[i] = Group(asked[i])
  <2>1. Len(asked) \in Nat /\ DOMAIN asked = 1 .. Len(asked)
      BY <1>2, ListedPlaces
  <2>2. DOMAIN resolved = 1 .. Len(asked) /\ resolved = [i \in 1 .. Len(asked) |-> resolved[i]]
      BY <2>1
  <2>3. \A i \in DOMAIN asked : resolved[i] = Group(asked[i])
      OBVIOUS
  <2> HIDE DEF resolved
  <2>. QED
      BY <2>1, <2>2, <2>3, ListedFunction
<1> HIDE DEF resolved
<1>5. Listed(first) /\ ElementsOf(first) = UNION {ElementsOf(resolved[i]) : i \in DOMAIN resolved}
    BY <1>3, <1>4, FlattenListed
<1>6. ElementsOf(first) = Resolved(opsA, opsB, answers)
  <2>1. UNION {ElementsOf(resolved[i]) : i \in DOMAIN resolved}
          = UNION {ElementsOf(Group(asked[i])) : i \in DOMAIN asked}
      BY <1>4
  <2>2. DOMAIN answers = {asked[i] : i \in DOMAIN asked}
      BY <1>2 DEF ElementsOf
  <2>3. UNION {ElementsOf(Group(asked[i])) : i \in DOMAIN asked}
          = UNION {ElementsOf(Group(id)) : id \in DOMAIN answers}
      BY <2>2
  <2>. QED
      BY <1>5, <2>1, <2>3 DEF Resolved, Group
<1>7. Listed(second) /\ ElementsOf(second) = Correctives(opsA, opsB)
    BY CorrectivesListed
<1>8. Listed(third) /\ ElementsOf(third) = Unnamed(opsA, opsB)
  <2> DEFINE f == [c \in Collisions(opsA, opsB) |-> [type |-> "DropColumn", id |-> c.dropped]]
  <2>1. Unnamed(opsA, opsB) = {f[c] : c \in Collisions(opsA, opsB)}
      BY DEF Unnamed
  <2> HIDE DEF f
  <2>2. IsFiniteSet(Unnamed(opsA, opsB))
      BY <2>1, ReportsFinite, ImageFinite
  <2>. QED
      BY <2>2, SetToSeqListed
<1> HIDE DEF first, second, third
<1>9. Listed(first \o second) /\ ElementsOf(first \o second) = ElementsOf(first) \cup ElementsOf(second)
    BY <1>5, <1>7, ListedConcat
<1>10. /\ Listed((first \o second) \o third)
       /\ ElementsOf((first \o second) \o third) = ElementsOf(first \o second) \cup ElementsOf(third)
    BY <1>8, <1>9, ListedConcat
<1>. QED
    BY <1>1, <1>6, <1>7, <1>8, <1>9, <1>10

\* A choice keeps operations of the two sides on an object that both touched.
LEMMA ResolvedAreOfSides ==
  ASSUME NEW opsA, Listed(opsA), NEW opsB, Listed(opsB),
         NEW answers, DOMAIN answers \subseteq Asked(opsA, opsB),
         NEW o \in Resolved(opsA, opsB, answers)
  PROVE  /\ o \in ElementsOf(opsA) \cup ElementsOf(opsB)
         /\ o.id \in Touched(opsA) \cap Touched(opsB)
<1>1. PICK id \in DOMAIN answers : o \in ElementsOf(Chosen(OpsOn(opsA, id), OpsOn(opsB, id), answers[id]))
    BY DEF Resolved
<1>2. /\ Listed(OpsOn(opsA, id)) /\ ElementsOf(OpsOn(opsA, id)) = {x \in ElementsOf(opsA) : x.id = id}
      /\ Listed(OpsOn(opsB, id)) /\ ElementsOf(OpsOn(opsB, id)) = {x \in ElementsOf(opsB) : x.id = id}
    BY OpsOnListed
<1>3. ElementsOf(OpsOn(opsA, id) \o OpsOn(opsB, id)) = ElementsOf(OpsOn(opsA, id)) \cup ElementsOf(OpsOn(opsB, id))
    BY <1>2, ListedConcat
<1>4. ElementsOf(Chosen(OpsOn(opsA, id), OpsOn(opsB, id), answers[id]))
        \subseteq ElementsOf(OpsOn(opsA, id)) \cup ElementsOf(OpsOn(opsB, id))
    BY <1>3 DEF Chosen
<1>5. o \in ElementsOf(opsA) \cup ElementsOf(opsB) /\ o.id = id
    BY <1>1, <1>2, <1>4
<1>. QED
    BY <1>5 DEF Asked

----------------------------------------------------------------------------
(* What a schema owes to the operations behind it.                          *)

\* What the operations on the way to a schema leave in it.
Created(ops) == {x \in ops : x.type \in Creating}

\* The objects that the operations drop.
GoneBy(ops) == {x.id : x \in {y \in ops : y.type \in Destructive}}

\* The same, and what was made in a table they drop.
Gone(ops) == GoneBy(ops) \cup {x.id : x \in {y \in Created(ops) : y.object.table \in GoneBy(ops)}}

\* What they make and none of them takes away.
Left(ops) == {x.id : x \in Created(ops)} \ Gone(ops)

\* No operation moves an object, or changes what it is made over.
Fixed == {"kind", "table", "references", "columns"}

\* Every object was made by one of the operations, and is fixed as it was made.
Traced(ops, objects) ==
  \A i \in DOMAIN objects : \E x \in Created(ops) :
    x.id = i /\ \A f \in Fixed : objects[i][f] = x.object[f]

\* A schema that raised, or the objects that the operations leave, as they made
\* them.
Explained(ops, s) ==
  s.broken \/
    /\ s = Fine(s.objects) /\ AreObjects(s.objects)
    /\ DOMAIN s.objects = Left(ops) /\ Traced(ops, s.objects)

\* A schema of such objects is explained.
LEMMA ExplainedFine ==
  ASSUME NEW ops, NEW objects, AreObjects(objects), DOMAIN objects = Left(ops), Traced(ops, objects)
  PROVE  Explained(ops, Fine(objects))
<1>1. Fine(objects).objects = objects
    BY FineFields
<1> DEFINE s == Fine(objects)
<1>2. s.objects = objects
    BY <1>1
<1>3. s = Fine(s.objects)
    BY <1>2
<1> HIDE DEF s
<1>4. Explained(ops, s)
    BY <1>2, <1>3 DEF Explained
<1>. QED
    BY <1>4 DEF s

\* Operations of which each has what it needs among them, and no object is
\* made twice.
Sound(ops) ==
  /\ \A o \in ops : Fits(ops, o)
  /\ \A x, y \in Created(ops) : x.id = y.id => x = y

\* What fits some operations fits more.
LEMMA FitsMore ==
  ASSUME NEW ops, NEW more, ops \subseteq more, NEW o, Fits(ops, o)
  PROVE  Fits(more, o)
  BY DEF Fits

\* What is made is in a table, if it is not one; what is touched has been made.
LEMMA SoundTables ==
  ASSUME NEW ops, Sound(ops), NEW o, Fits(ops, o)
  PROVE  /\ o.id # NoId
         /\ o.type \in Creating => (o.object.table = NoId <=> o.type = "CreateTable")
         /\ o.type \in Creating /\ o.object.table # NoId =>
              \E x \in Created(ops) : x.id = o.object.table /\ x.type = "CreateTable" /\ x.object.table = NoId
         /\ o.type \in Destructive =>
              \E x \in Created(ops) : x.id = o.id /\ (x.type = "CreateTable" <=> o.type = "DropTable")
         /\ o.type \notin Creating => \E x \in Created(ops) : x.id = o.id
<1>1. \A x \in Created(ops) : x \in ops /\ x.type \in Creating /\ x.object.kind = Made[x.type]
    BY DEF Created, Sound, Fits
<1>2. ASSUME NEW id, NEW x \in ops, Makes(x, "table", id)
      PROVE  x \in Created(ops) /\ x.id = id /\ x.type = "CreateTable" /\ x.object.table = NoId
  <2>1. x \in Created(ops) /\ x.id = id /\ x.object.kind = "table"
      BY <1>2 DEF Makes, Created
  <2>2. x.type = "CreateTable"
      BY <1>1, <2>1, Kinds
  <2>3. x.object.table = NoId
      BY <1>1, <2>1, <2>2 DEF Sound, Fits
  <2>. QED
      BY <2>1, <2>2, <2>3
<1>3. ASSUME o.type \in Creating, o.object.table # NoId
      PROVE  \E x \in Created(ops) : x.id = o.object.table /\ x.type = "CreateTable" /\ x.object.table = NoId
  <2>1. \E x \in ops : Makes(x, "table", o.object.table)
      BY <1>3 DEF Fits
  <2>. QED
      BY <1>2, <2>1
<1>4. ASSUME o.type \in Destructive
      PROVE  \E x \in Created(ops) : x.id = o.id /\ (x.type = "CreateTable" <=> o.type = "DropTable")
  <2>1. o.type \notin Creating
      BY <1>4 DEF Destructive, Creating
  <2>2. PICK x \in ops : Makes(x, KindOf[o.type], o.id)
      BY <2>1 DEF Fits
  <2>3. x \in Created(ops) /\ x.id = o.id /\ x.object.kind = KindOf[o.type]
      BY <2>2 DEF Makes, Created
  <2>. QED
      BY <1>1, <1>4, <2>3, Kinds
<1>5. ASSUME o.type \notin Creating
      PROVE  \E x \in Created(ops) : x.id = o.id
  <2>2. PICK x \in ops : Makes(x, KindOf[o.type], o.id)
      BY <1>5 DEF Fits
  <2>. QED
      BY <2>2 DEF Makes, Created
<1>. QED
    BY <1>3, <1>4, <1>5 DEF Fits

\* One more operation that fits, and they are sound still.
LEMMA SoundMore ==
  ASSUME NEW ops, Sound(ops), NEW o, Fits(ops, o),
         o.type \in Creating => \A x \in Created(ops) : x.id # o.id
  PROVE  Sound(ops \cup {o})
<1> DEFINE more == ops \cup {o}
<1>1. \A x \in more : Fits(more, x)
  <2>1. ops \subseteq more
      OBVIOUS
  <2> SUFFICES ASSUME NEW x \in more
               PROVE  Fits(more, x)
      OBVIOUS
  <2>2. Fits(ops, x)
      BY DEF Sound
  <2> HIDE DEF more
  <2>. QED
      BY <2>1, <2>2, FitsMore
<1>2. \A x, y \in Created(more) : x.id = y.id => x = y
    BY DEF Created, Sound
<1>. QED
    BY <1>1, <1>2 DEF Sound

\* A creation: nothing that went before touched the new object or is in it.
LEMMA LeftByCreating ==
  ASSUME NEW ops, Sound(ops), NEW o, Fits(ops, o), o.type \in Creating,
         \A x \in Created(ops) : x.id # o.id
  PROVE  Left(ops \cup {o}) =
           IF o.object.table \in Left(ops) \cup {NoId} THEN Left(ops) \cup {o.id} ELSE Left(ops)
<1> DEFINE more == ops \cup {o}
           t == o.object.table
<1>1. o.type \notin Destructive
    BY DEF Creating, Destructive
<1>2. GoneBy(more) = GoneBy(ops)
    BY <1>1 DEF GoneBy
<1>3. Created(more) = Created(ops) \cup {o}
    BY DEF Created
<1>4. \A x \in ops : x.type \notin Creating => x.id # o.id
    BY SoundTables DEF Sound
<1>5. o.id \notin GoneBy(ops)
    BY <1>4 DEF GoneBy, Creating, Destructive
<1>6. NoId \notin GoneBy(ops)
    BY SoundTables DEF GoneBy, Sound
<1>7. Gone(more) = Gone(ops) \cup (IF t \in GoneBy(ops) THEN {o.id} ELSE {})
    BY <1>2, <1>3 DEF Gone
<1>8. {x.id : x \in Created(more)} = {x.id : x \in Created(ops)} \cup {o.id}
    BY <1>3
<1>9. o.id \notin Gone(ops)
    BY <1>5 DEF Gone, Created
<1>10. Left(more) = IF t \in GoneBy(ops) THEN Left(ops) ELSE Left(ops) \cup {o.id}
    BY <1>7, <1>8, <1>9 DEF Left
<1>11. CASE t = NoId
    BY <1>6, <1>10, <1>11
<1>12. CASE t # NoId
  <2>1. PICK x \in Created(ops) : x.id = t /\ x.object.table = NoId
      BY <1>12, SoundTables
  <2>2. t \in GoneBy(ops) => t \notin Left(ops)
      BY DEF Left, Gone
  <2>3. ASSUME t \notin GoneBy(ops)
        PROVE  t \in Left(ops)
    <3>1. \A y \in Created(ops) : y.id = t => y = x
        BY <2>1 DEF Sound
    <3>2. t \notin Gone(ops)
        BY <1>6, <2>1, <2>3, <3>1 DEF Gone
    <3>. QED
        BY <2>1, <3>2 DEF Left
  <2>. QED
      BY <1>10, <1>12, <2>2, <2>3
<1>. QED
    BY <1>11, <1>12

\* A drop takes the object and, of a table, what is in it.
LEMMA LeftByDropping ==
  ASSUME NEW ops, Sound(ops), NEW o, o.type \in Destructive
  PROVE  Left(ops \cup {o}) =
           Left(ops) \ ({o.id} \cup {x.id : x \in {y \in Created(ops) : y.object.table = o.id}})
<1> DEFINE more == ops \cup {o}
<1>1. GoneBy(more) = GoneBy(ops) \cup {o.id}
    BY DEF GoneBy
<1>2. Created(more) = Created(ops)
    BY DEF Created, Creating, Destructive
<1>3. Gone(more) = Gone(ops) \cup ({o.id} \cup {x.id : x \in {y \in Created(ops) : y.object.table = o.id}})
    BY <1>1, <1>2 DEF Gone
<1>. QED
    BY <1>2, <1>3 DEF Left

\* A set operation leaves what there is.
LEMMA LeftBySetting ==
  ASSUME NEW ops, NEW o, o.type \notin Creating, o.type \notin Destructive
  PROVE  Left(ops \cup {o}) = Left(ops) /\ Created(ops \cup {o}) = Created(ops)
<1>1. GoneBy(ops \cup {o}) = GoneBy(ops) /\ Created(ops \cup {o}) = Created(ops)
    BY DEF GoneBy, Created
<1>. QED
    BY <1>1 DEF Left, Gone

\* One more operation, and the schema is still what the operations explain.
LEMMA ApplyExplained ==
  ASSUME NEW ops, Sound(ops), NEW o, Fits(ops, o),
         o.type \in Creating => \A x \in Created(ops) : x.id # o.id,
         NEW s, Explained(ops, s)
  PROVE  Explained(ops \cup {o}, Apply(s, o))
<1> DEFINE more == ops \cup {o}
<1>1. CASE s.broken
    BY <1>1 DEF Apply, Explained
<1>2. CASE ~s.broken
  <2> DEFINE objects == s.objects
  <2>1. s = Fine(objects) /\ AreObjects(objects) /\ DOMAIN objects = Left(ops) /\ Traced(ops, objects)
      BY <1>2 DEF Explained
  <2> HIDE DEF objects
  <2>2. \A f : Fine(f).objects = f
      BY FineFields
  <2>3. ASSUME NEW f, AreObjects(f), DOMAIN f = Left(more), Traced(more, f), Apply(s, o) = Fine(f)
        PROVE  Explained(more, Apply(s, o))
      BY <2>3, ExplainedFine
  <2>4. Created(ops) \subseteq Created(more)
      BY DEF Created
  <2>5. CASE o.type \in Creating
    <3> DEFINE next == Added(objects, o)
    <3>1. Apply(s, o) = Fine(next)
        BY <2>1, <2>5, ApplyAdd
    <3>2. AreObjects(next)
        BY <2>1, <2>5, AddedObjects DEF Fits, IsFunction
    <3>3. DOMAIN next = Left(more)
        BY <2>1, <2>5, LeftByCreating DEF Added, Put
    <3>4. Traced(more, next)
      <4>1. o \in Created(more)
          BY <2>5 DEF Created
      <4>2. \A i \in DOMAIN next : (i = o.id /\ next[i] = o.object) \/ (i \in DOMAIN objects /\ next[i] = objects[i])
          BY DEF Added, Put
      <4> HIDE DEF next
      <4>3. ASSUME NEW i \in DOMAIN next, i = o.id, next[i] = o.object
            PROVE  \E x \in Created(more) : x.id = i /\ \A f \in Fixed : next[i][f] = x.object[f]
          BY <4>1, <4>3
      <4>4. ASSUME NEW i \in DOMAIN next, i \in DOMAIN objects, next[i] = objects[i]
            PROVE  \E x \in Created(more) : x.id = i /\ \A f \in Fixed : next[i][f] = x.object[f]
          BY <2>1, <2>4, <4>4 DEF Traced
      <4>. QED
          BY <4>2, <4>3, <4>4 DEF Traced
    <3> HIDE DEF next
    <3>. QED
        BY <2>3, <3>1, <3>2, <3>3, <3>4
  <2>6. CASE o.type \in Destructive
    <3>1. Left(more) = Left(ops) \ ({o.id} \cup {x.id : x \in {y \in Created(ops) : y.object.table = o.id}})
        BY <2>6, LeftByDropping
    <3>2. \A x, y \in Created(ops) : x.id = y.id => x = y
        BY DEF Sound
    <3>3. \A i \in DOMAIN objects : \E x \in Created(ops) : x.id = i /\ objects[i].table = x.object.table
        BY <2>1 DEF Traced, Fixed
    <3>4. CASE o.id \in DOMAIN objects
      <4> DEFINE next == Dropped(objects, o.id)
      <4>1. Apply(s, o) = Fine(next)
          BY <2>1, <2>6, <3>4, ApplyDrop
      <4>2. AreObjects(next)
          BY <2>1, DroppedObjects
      <4>3. DOMAIN next = Left(more)
        <5>1. \A i \in DOMAIN objects :
                objects[i].table = o.id <=> i \in {x.id : x \in {y \in Created(ops) : y.object.table = o.id}}
            BY <3>2, <3>3
        <5>. QED
            BY <2>1, <3>1, <5>1 DEF Dropped
      <4>4. Traced(more, next)
        <5>1. \A i \in DOMAIN next : i \in DOMAIN objects /\ next[i] = objects[i]
            BY DEF Dropped
        <5> HIDE DEF next
        <5>. QED
            BY <2>1, <2>4, <5>1 DEF Traced
      <4> HIDE DEF next
      <4>. QED
          BY <2>3, <4>1, <4>2, <4>3, <4>4
    <3>5. CASE o.id \notin DOMAIN objects /\ o.type # "DropTable"
      <4>1. Apply(s, o) = Fine(objects)
          BY <2>1, <2>6, <3>5, ApplyMiss
      <4>2. DOMAIN objects = Left(more)
        <5>1. PICK x \in Created(ops) : x.id = o.id /\ x.type # "CreateTable"
            BY <2>6, <3>5, SoundTables
        <5>2. ASSUME NEW y \in Created(ops), y.object.table = o.id
              PROVE  FALSE
          <6>1. y \in ops /\ y.type \in Creating /\ Fits(ops, y)
              BY DEF Created, Sound
          <6>2. y.object.table # NoId
              BY <5>2, SoundTables
          <6>3. PICK z \in Created(ops) : z.id = y.object.table /\ z.type = "CreateTable"
              BY <6>1, <6>2, SoundTables
          <6>. QED
              BY <3>2, <5>1, <5>2, <6>3
        <5>3. {x1.id : x1 \in {y \in Created(ops) : y.object.table = o.id}} = {}
            BY <5>2
        <5>. QED
            BY <2>1, <3>1, <3>5, <5>3
      <4>3. Traced(more, objects)
          BY <2>1, <2>4 DEF Traced
      <4>. QED
          BY <2>1, <2>3, <4>1, <4>2, <4>3
    <3>6. CASE o.id \notin DOMAIN objects /\ o.type = "DropTable"
      <4>1. Apply(s, o) = [broken |-> TRUE, objects |-> objects]
          BY <2>1, <2>6, <3>6, ApplyMiss
      <4>2. Apply(s, o).broken
          BY <4>1
      <4>. QED
          BY <4>2 DEF Explained
    <3>. QED
        BY <3>4, <3>5, <3>6
  <2>7. CASE o.type \notin Creating /\ o.type \notin Destructive
    <3> DEFINE next == Changed(objects, o)
    <3>1. o.type \in DOMAIN SetField
        BY <2>7 DEF Fits, Variants
    <3>2. Apply(s, o) = Fine(next)
        BY <2>1, <3>1, ApplySet
    <3>3. AreObjects(next)
        BY <2>1, ChangedObjects
    <3>4. DOMAIN next = Left(more)
        BY <2>1, <2>7, LeftBySetting DEF Changed
    <3>5. \A i \in DOMAIN objects : \A f \in Fixed : next[i][f] = objects[i][f]
      <4>1. SetField[o.type] \notin Fixed
          BY <3>1 DEF SetField, MutationField, Fixed
      <4>2. \A i \in DOMAIN objects : IsFunction(objects[i])
          BY <2>1 DEF AreObjects
      <4>3. ASSUME NEW r, IsFunction(r), NEW f \in Fixed
            PROVE  [r EXCEPT ![SetField[o.type]] = o.value][f] = r[f]
          BY <4>1, <4>3 DEF IsFunction
      <4>. QED
          BY <4>2, <4>3 DEF Changed
    <3>6. DOMAIN next = DOMAIN objects
        BY DEF Changed
    <3> HIDE DEF next
    <3>7. Traced(more, next)
      <4> SUFFICES ASSUME NEW i \in DOMAIN next
                   PROVE  \E x \in Created(more) : x.id = i /\ \A f \in Fixed : next[i][f] = x.object[f]
          BY DEF Traced
      <4>1. PICK x \in Created(ops) : x.id = i /\ \A f \in Fixed : objects[i][f] = x.object[f]
          BY <2>1, <3>6 DEF Traced
      <4>. QED
          BY <2>4, <3>5, <3>6, <4>1
    <3>. QED
        BY <2>3, <3>2, <3>3, <3>4, <3>7
  <2>. QED
      BY <2>5, <2>6, <2>7
<1>. QED
    BY <1>1, <1>2

----------------------------------------------------------------------------
(* What a list of operations makes, replayed from nothing.                   *)

\* The first operations of a list.
Before(list, k) == {list[j] : j \in 1 .. k}

\* A list of operations that each have what they need before them, and of which
\* no two make the same object.
Grounded(list) ==
  /\ Listed(list)
  /\ \A i \in DOMAIN list : Fits(Before(list, i - 1), list[i])
  /\ \A i, j \in DOMAIN list :
       {list[i].type, list[j].type} \subseteq Creating /\ list[i].id = list[j].id => i = j

\* An operation that sets a field of an object.
SetsField(o, id, f) == o.type \in DOMAIN SetField /\ o.id = id /\ SetField[o.type] = f

\* The last of the first n operations that does.
IsLastSet(list, n, id, f, i) ==
  /\ i \in 1 .. n /\ SetsField(list[i], id, f)
  /\ \A j \in 1 .. n : j > i => ~SetsField(list[j], id, f)

\* An object as it was made, but for the fields that were set, and those as they
\* were last.
IsWritten(list, n, id, object) ==
  \E x \in Created(Before(list, n)) :
    /\ x.id = id /\ DOMAIN object = DOMAIN x.object
    /\ \A f \in DOMAIN x.object :
         /\ \A i \in 1 .. n : IsLastSet(list, n, id, f, i) => object[f] = list[i].value
         /\ (\A i \in 1 .. n : ~SetsField(list[i], id, f)) => object[f] = x.object[f]

\* All objects of a schema are.
Written(list, n, objects) == \A id \in DOMAIN objects : IsWritten(list, n, id, objects[id])

\* The first operations are sound.
LEMMA GroundedIsSound ==
  ASSUME NEW list, Grounded(list), NEW k \in 0 .. Len(list)
  PROVE  Sound(Before(list, k))
<1>1. Len(list) \in Nat /\ DOMAIN list = 1 .. Len(list)
    BY ListedPlaces DEF Grounded
<1>2. ASSUME NEW i \in 1 .. k
      PROVE  Fits(Before(list, k), list[i])
  <2>1. i \in DOMAIN list
      BY <1>1
  <2>2. Before(list, i - 1) \subseteq Before(list, k)
    <3>1. 1 .. (i - 1) \subseteq 1 .. k
        OBVIOUS
    <3>. QED
        BY <3>1 DEF Before
  <2>. QED
      BY <2>1, <2>2, FitsMore DEF Grounded
<1>3. ASSUME NEW x \in Created(Before(list, k)), NEW y \in Created(Before(list, k)), x.id = y.id
      PROVE  x = y
  <2>1. PICK i \in 1 .. k, j \in 1 .. k : x = list[i] /\ y = list[j]
      BY DEF Created, Before
  <2>2. i \in DOMAIN list /\ j \in DOMAIN list
      BY <1>1
  <2>. QED
      BY <1>3, <2>1, <2>2 DEF Grounded, Created
<1>. QED
    BY <1>2, <1>3 DEF Sound, Before

\* One operation more.
LEMMA BeforeMore ==
  ASSUME NEW list, NEW k \in Nat
  PROVE  Before(list, k + 1) = Before(list, k) \cup {list[k + 1]}
<1>1. 1 .. (k + 1) = (1 .. k) \cup {k + 1}
    OBVIOUS
<1>. QED
    BY <1>1 DEF Before

\* What the next operation of a list makes has not been made.
LEMMA NextIsNew ==
  ASSUME NEW list, Grounded(list), NEW k \in Nat, k < Len(list), list[k + 1].type \in Creating
  PROVE  /\ \A x \in Created(Before(list, k)) : x.id # list[k + 1].id
         /\ \A x \in Before(list, k) : x.id # list[k + 1].id
<1>1. Len(list) \in Nat /\ DOMAIN list = 1 .. Len(list)
    BY ListedPlaces DEF Grounded
<1>2. \A x \in Created(Before(list, k)) : x.id # list[k + 1].id
  <2> SUFFICES ASSUME NEW x \in Created(Before(list, k)), x.id = list[k + 1].id
               PROVE  FALSE
      OBVIOUS
  <2>1. PICK i \in 1 .. k : x = list[i]
      BY DEF Created, Before
  <2>2. i \in DOMAIN list /\ k + 1 \in DOMAIN list /\ i # k + 1
      BY <1>1
  <2>. QED
      BY <2>1, <2>2 DEF Grounded, Created
<1>3. ASSUME NEW x \in Before(list, k), x.type \notin Creating
      PROVE  x.id # list[k + 1].id
  <2>1. Sound(Before(list, k)) /\ Fits(Before(list, k), x)
      BY <1>1, GroundedIsSound DEF Sound
  <2>2. \E y \in Created(Before(list, k)) : y.id = x.id
      BY <1>3, <2>1, SoundTables
  <2>. QED
      BY <1>2, <2>2
<1>. QED
    BY <1>2, <1>3 DEF Created

\* An operation that sets no field of an object leaves what is written of it.
LEMMA StaysWritten ==
  ASSUME NEW list, NEW k \in Nat, NEW id, NEW object, IsWritten(list, k, id, object),
         \A f : ~SetsField(list[k + 1], id, f)
  PROVE  IsWritten(list, k + 1, id, object)
<1>1. PICK x \in Created(Before(list, k)) :
        /\ x.id = id /\ DOMAIN object = DOMAIN x.object
        /\ \A f \in DOMAIN x.object :
             /\ \A i \in 1 .. k : IsLastSet(list, k, id, f, i) => object[f] = list[i].value
             /\ (\A i \in 1 .. k : ~SetsField(list[i], id, f)) => object[f] = x.object[f]
    BY DEF IsWritten
<1>2. x \in Created(Before(list, k + 1))
    BY BeforeMore DEF Created
<1>3. 1 .. (k + 1) = (1 .. k) \cup {k + 1}
    OBVIOUS
<1>4. ASSUME NEW f, NEW i \in 1 .. (k + 1), IsLastSet(list, k + 1, id, f, i)
      PROVE  i \in 1 .. k /\ IsLastSet(list, k, id, f, i)
    BY <1>3, <1>4 DEF IsLastSet
<1>. QED
    BY <1>1, <1>2, <1>3, <1>4 DEF IsWritten

\* One operation more, and the objects are as it was last written.
LEMMA ApplyWrites ==
  ASSUME NEW list, Grounded(list), NEW k \in Nat, k < Len(list),
         NEW s, ~s.broken, Explained(Before(list, k), s), Written(list, k, s.objects),
         ~Apply(s, list[k + 1]).broken
  PROVE  Written(list, k + 1, Apply(s, list[k + 1]).objects)
<1> DEFINE o == list[k + 1]
           objects == s.objects
           next == Apply(s, o).objects
<1>1. Len(list) \in Nat /\ DOMAIN list = 1 .. Len(list)
    BY ListedPlaces DEF Grounded
<1>2. s = Fine(objects) /\ AreObjects(objects)
    BY DEF Explained
<1>3. \A f : Fine(f).objects = f
    BY FineFields
<1>4. Fits(Before(list, k), o)
  <2>1. k + 1 \in DOMAIN list /\ (k + 1) - 1 = k
      BY <1>1
  <2>. QED
      BY <2>1 DEF Grounded
<1>5. \A id \in DOMAIN objects : IsWritten(list, k, id, objects[id])
    BY DEF Written
<1> HIDE DEF objects
<1>6. CASE o.type \in Creating
  <2>1. next = Added(objects, o)
      BY <1>2, <1>3, <1>6, ApplyAdd
  <2>2. \A id, f : ~SetsField(o, id, f)
      BY <1>6 DEF SetsField, SetField, MutationField, Creating
  <2>3. IsWritten(list, k + 1, o.id, o.object)
    <3>1. o \in Created(Before(list, k + 1))
        BY <1>6, BeforeMore DEF Created
    <3>2. \A i \in 1 .. (k + 1) : \A f : ~SetsField(list[i], o.id, f)
      <4>1. \A i \in 1 .. k : list[i].id # o.id
          BY <1>6, NextIsNew DEF Before
      <4>2. \A i \in 1 .. (k + 1) : i \in 1 .. k \/ i = k + 1
          OBVIOUS
      <4>. QED
          BY <2>2, <4>1, <4>2 DEF SetsField
    <3> HIDE DEF o
    <3>. QED
        BY <3>1, <3>2 DEF IsWritten, IsLastSet
  <2>4. \A id \in DOMAIN next : (id = o.id /\ next[id] = o.object) \/ (id \in DOMAIN objects /\ next[id] = objects[id])
      BY <2>1 DEF Added, Put
  <2>5. \A id \in DOMAIN objects : IsWritten(list, k + 1, id, objects[id])
      BY <1>5, <2>2, StaysWritten
  <2> HIDE DEF next, o
  <2>. QED
      BY <2>3, <2>4, <2>5 DEF Written, next, o
<1>7. CASE o.type \in Destructive
  <2>1. \A id, f : ~SetsField(o, id, f)
      BY <1>7 DEF SetsField, SetField, MutationField, Destructive
  <2>2. \A id \in DOMAIN next : id \in DOMAIN objects /\ next[id] = objects[id]
    <3>1. CASE o.id \in DOMAIN objects
      <4>1. next = Dropped(objects, o.id)
          BY <1>2, <1>3, <1>7, <3>1, ApplyDrop
      <4>. QED
          BY <4>1 DEF Dropped
    <3>2. CASE o.id \notin DOMAIN objects
      <4>1. next = objects
          BY <1>2, <1>7, <3>2, ApplyDrop
      <4>. QED
          BY <4>1
    <3>. QED
        BY <3>1, <3>2
  <2>3. \A id \in DOMAIN objects : IsWritten(list, k + 1, id, objects[id])
      BY <1>5, <2>1, StaysWritten
  <2> HIDE DEF next, o
  <2>. QED
      BY <2>2, <2>3 DEF Written, next, o
<1>8. CASE o.type \in DOMAIN SetField
  <2>1. next = Changed(objects, o)
      BY <1>2, <1>3, <1>8, ApplySet
  <2> DEFINE g == SetField[o.type]
  <2>2. DOMAIN next = DOMAIN objects
      BY <2>1 DEF Changed
  <2>3. ASSUME NEW id \in DOMAIN objects, id # o.id
        PROVE  IsWritten(list, k + 1, id, next[id])
    <3>1. next[id] = objects[id]
        BY <2>1, <2>3 DEF Changed
    <3>2. \A f : ~SetsField(o, id, f)
        BY <2>3 DEF SetsField
    <3>. QED
        BY <1>5, <3>1, <3>2, StaysWritten
  <2>4. ASSUME o.id \in DOMAIN objects
        PROVE  IsWritten(list, k + 1, o.id, next[o.id])
    <3> DEFINE old == objects[o.id]
               new == [old EXCEPT ![g] = o.value]
               id == o.id
    <3>1. next[o.id] = new
        BY <2>1, <2>4 DEF Changed
    <3>2. PICK x \in Created(Before(list, k)) :
            /\ x.id = id /\ DOMAIN old = DOMAIN x.object
            /\ \A f \in DOMAIN x.object :
                 /\ \A i \in 1 .. k : IsLastSet(list, k, id, f, i) => old[f] = list[i].value
                 /\ (\A i \in 1 .. k : ~SetsField(list[i], id, f)) => old[f] = x.object[f]
        BY <1>5, <2>4 DEF IsWritten
    <3>3. x \in Created(Before(list, k + 1))
        BY BeforeMore DEF Created
    <3>4. 1 .. (k + 1) = (1 .. k) \cup {k + 1}
        OBVIOUS
    <3>5. DOMAIN new = DOMAIN old /\ \A f \in DOMAIN old : new[f] = IF f = g THEN o.value ELSE old[f]
        OBVIOUS
    <3>6. SetsField(o, id, g)
        BY <1>8 DEF SetsField
    <3>7. \A f : f # g => ~SetsField(o, id, f)
        BY DEF SetsField
    <3>8. ASSUME NEW i \in 1 .. (k + 1), IsLastSet(list, k + 1, id, g, i)
          PROVE  i = k + 1
      <4>1. k + 1 \in 1 .. (k + 1) /\ (i # k + 1 => k + 1 > i)
          OBVIOUS
      <4>. QED
          BY <3>6, <3>8, <4>1 DEF IsLastSet
    <3>9. ASSUME NEW f, f # g, NEW i \in 1 .. (k + 1), IsLastSet(list, k + 1, id, f, i)
          PROVE  i \in 1 .. k /\ IsLastSet(list, k, id, f, i)
        BY <3>4, <3>7, <3>9 DEF IsLastSet
    <3> DEFINE value == o.value
    <3>10. list[k + 1].value = value
        OBVIOUS
    <3>11. SetsField(list[k + 1], id, g)
        BY <3>6
    <3> HIDE DEF new, old, id, g, o, value
    <3>12. \A f \in DOMAIN x.object :
             /\ \A i \in 1 .. (k + 1) : IsLastSet(list, k + 1, id, f, i) => new[f] = list[i].value
             /\ (\A i \in 1 .. (k + 1) : ~SetsField(list[i], id, f)) => new[f] = x.object[f]
      <4> SUFFICES ASSUME NEW f \in DOMAIN x.object
                   PROVE  /\ \A i \in 1 .. (k + 1) : IsLastSet(list, k + 1, id, f, i) => new[f] = list[i].value
                          /\ (\A i \in 1 .. (k + 1) : ~SetsField(list[i], id, f)) => new[f] = x.object[f]
          OBVIOUS
      <4>1. CASE f = g
        <5>1. new[f] = value
            BY <3>2, <3>5, <4>1 DEF value
        <5>2. k + 1 \in 1 .. (k + 1)
            OBVIOUS
        <5>. QED
            BY <3>8, <3>10, <3>11, <4>1, <5>1, <5>2
      <4>2. CASE f # g
        <5>1. new[f] = old[f]
            BY <3>2, <3>5, <4>2
        <5>2. \A i \in 1 .. k : i \in 1 .. (k + 1)
            OBVIOUS
        <5>. QED
            BY <3>2, <3>9, <4>2, <5>1, <5>2
      <4>. QED
          BY <4>1, <4>2
    <3>13. IsWritten(list, k + 1, id, new)
        BY <3>2, <3>3, <3>5, <3>12 DEF IsWritten
    <3>. QED
        BY <3>1, <3>13 DEF id
  <2> HIDE DEF next, o
  <2>. QED
      BY <2>2, <2>3, <2>4 DEF Written, next, o
<1>. QED
    BY <1>4, <1>6, <1>7, <1>8 DEF Fits, Variants

----------------------------------------------------------------------------
(* Printing a list of operations.                                            *)

\* emit_ddl: the function that folds EmitOne over the places up to n.
IsEmitFold(base, ops, n, iter) ==
  iter = [s \in SUBSET (1 .. n) |->
            IF s = {} THEN base ELSE EmitOne(iter[s \ {Seqs!Max(s)}], ops[Seqs!Max(s)])]

\* FoldLeft is that fold, too.
LEMMA EmittedIsFold ==
  ASSUME NEW base, NEW ops, NEW n \in Nat, DOMAIN ops = 1 .. n
  PROVE  Seqs!FoldLeft(EmitOne, base, ops) = (CHOOSE iter : IsEmitFold(base, ops, n, iter))[1 .. n]
  BY DEF Seqs!FoldLeft, Seqs!MapThenFoldSet, IsEmitFold

\* There is such a fold: by induction on n.
LEMMA EmitFoldExists ==
  ASSUME NEW base, NEW ops, NEW n \in Nat
  PROVE  \E iter : IsEmitFold(base, ops, n, iter)
<1> DEFINE S == {m \in Nat : \E iter : IsEmitFold(base, ops, m, iter)}
<1>1. 0 \in S
  <2>1. SUBSET (1 .. 0) = {{}}
      OBVIOUS
  <2>2. IsEmitFold(base, ops, 0, [s \in SUBSET (1 .. 0) |-> base])
      BY <2>1 DEF IsEmitFold
  <2>. QED
      BY <2>2
<1>2. ASSUME NEW m \in Nat, m \in S
      PROVE  m + 1 \in S
  <2>1. PICK iter : IsEmitFold(base, ops, m, iter)
      BY <1>2
  <2> DEFINE next == [s \in SUBSET (1 .. (m + 1)) |->
                        IF s = {} THEN base ELSE EmitOne(iter[s \ {Seqs!Max(s)}], ops[Seqs!Max(s)])]
  <2>2. ASSUME NEW s \in SUBSET (1 .. m)
        PROVE  next[s] = iter[s]
    <3>1. s \in SUBSET (1 .. (m + 1))
        OBVIOUS
    <3>. QED
        BY <2>1, <3>1 DEF IsEmitFold
  <2>3. \A s \in SUBSET (1 .. (m + 1)) : s # {} => iter[s \ {Seqs!Max(s)}] = next[s \ {Seqs!Max(s)}]
      BY <2>2, WithoutMax
  <2>4. next = [s \in SUBSET (1 .. (m + 1)) |->
                  IF s = {} THEN base ELSE EmitOne(next[s \ {Seqs!Max(s)}], ops[Seqs!Max(s)])]
      BY <2>3
  <2> HIDE DEF next
  <2>5. IsEmitFold(base, ops, m + 1, next)
      BY <2>4 DEF IsEmitFold
  <2>. QED
      BY <2>5
<1> HIDE DEF S
<1>3. Nat \subseteq S
    BY <1>1, <1>2, SetInduction
<1>. QED
    BY <1>3 DEF S

\* So the operations are printed one after the other.
LEMMA EmitByRounds ==
  ASSUME NEW base, NEW ops, NEW n \in Nat, DOMAIN ops = 1 .. n
  PROVE  \E round : /\ round[0] = base
                    /\ \A k \in Nat : k < n => round[k + 1] = EmitOne(round[k], ops[k + 1])
                    /\ round[n] = Seqs!FoldLeft(EmitOne, base, ops)
<1> DEFINE iter == CHOOSE iter : IsEmitFold(base, ops, n, iter)
           round == [k \in 0 .. n |-> iter[1 .. k]]
<1>1. IsEmitFold(base, ops, n, iter)
    BY EmitFoldExists
<1>2. Seqs!FoldLeft(EmitOne, base, ops) = round[n]
    BY EmittedIsFold
<1> HIDE DEF iter
<1>3. \A s \in SUBSET (1 .. n) :
        iter[s] = IF s = {} THEN base ELSE EmitOne(iter[s \ {Seqs!Max(s)}], ops[Seqs!Max(s)])
    BY <1>1 DEF IsEmitFold
<1>4. round[0] = base
  <2>1. 1 .. 0 = {} /\ {} \in SUBSET (1 .. n) /\ 0 \in 0 .. n
      OBVIOUS
  <2>2. iter[{}] = base
      BY <1>3, <2>1
  <2>. QED
      BY <2>1, <2>2
<1>5. ASSUME NEW k \in Nat, k < n
      PROVE  round[k + 1] = EmitOne(round[k], ops[k + 1])
  <2> DEFINE s == 1 .. (k + 1)
  <2>1. s \in SUBSET (1 .. n) /\ s # {}
      BY <1>5
  <2>2. Seqs!Max(s) = k + 1 /\ s \ {Seqs!Max(s)} = 1 .. k
      BY MaxOfInterval, Zenon
  <2> HIDE DEF s
  <2>3. iter[s] = EmitOne(iter[s \ {Seqs!Max(s)}], ops[Seqs!Max(s)])
      BY <1>3, <2>1
  <2>4. iter[1 .. (k + 1)] = EmitOne(iter[1 .. k], ops[k + 1])
      BY <2>2, <2>3 DEF s
  <2>5. k \in 0 .. n /\ k + 1 \in 0 .. n
      BY <1>5
  <2>. QED
      BY <2>4, <2>5
<1> HIDE DEF round
<1>. QED
    BY <1>2, <1>4, <1>5

\* A list of operations, replayed from nothing: what it makes, object by object.
LEMMA RoundsAreWritten ==
  ASSUME NEW list, Grounded(list), NEW round, round[0] = EmptySchema,
         \A k \in Nat : k < Len(list) => round[k + 1] = Apply(round[k], list[k + 1])
  PROVE  \A k \in 0 .. Len(list) :
           /\ Explained(Before(list, k), round[k])
           /\ ~round[k].broken => Written(list, k, round[k].objects)
<1> DEFINE n == Len(list)
           Good(k) == /\ Explained(Before(list, k), round[k])
                      /\ ~round[k].broken => Written(list, k, round[k].objects)
           T == {k \in Nat : k <= n => Good(k)}
<1>1. n \in Nat /\ DOMAIN list = 1 .. n
    BY ListedPlaces DEF Grounded
<1> HIDE DEF n
<1>2. Good(0)
  <2>1. EmptySchema = Fine([i \in {} |-> NoId])
      BY DEF EmptySchema, Fine
  <2>2. Before(list, 0) = {} /\ Left({}) = {}
      BY DEF Before, Left, Created
  <2> DEFINE none == [i \in {} |-> NoId]
  <2>3. AreObjects(none) /\ DOMAIN none = {} /\ Traced({}, none)
      BY DEF AreObjects, IsFunction, Traced
  <2> HIDE DEF none
  <2>4. Explained({}, Fine(none))
      BY <2>2, <2>3, ExplainedFine
  <2>5. Fine(none).objects = none
      BY FineFields
  <2>6. Written(list, 0, none)
      BY <2>3 DEF Written
  <2>. QED
      BY <2>1, <2>2, <2>4, <2>5, <2>6 DEF none
<1>3. ASSUME NEW k \in Nat, k < n, Good(k)
      PROVE  Good(k + 1)
  <2> DEFINE o == list[k + 1]
  <2>1. round[k + 1] = Apply(round[k], o)
      BY <1>3 DEF n
  <2>2. Sound(Before(list, k)) /\ k + 1 \in DOMAIN list /\ (k + 1) - 1 = k
      BY <1>1, <1>3, GroundedIsSound DEF n
  <2>3. Fits(Before(list, k), o)
      BY <2>2 DEF Grounded
  <2>4. o.type \in Creating => \A x \in Created(Before(list, k)) : x.id # o.id
      BY <1>3, NextIsNew DEF n
  <2>5. Before(list, k + 1) = Before(list, k) \cup {o}
      BY BeforeMore
  <2>6. Explained(Before(list, k + 1), round[k + 1])
    <3> HIDE DEF o
    <3>. QED
        BY <1>3, <2>1, <2>2, <2>3, <2>4, <2>5, ApplyExplained
  <2>7. ASSUME ~round[k + 1].broken
        PROVE  Written(list, k + 1, round[k + 1].objects)
    <3>1. ~round[k].broken
        BY <2>1, <2>7 DEF Apply
    <3>. QED
        BY <1>3, <2>1, <2>7, <3>1, ApplyWrites DEF n
  <2>. QED
      BY <2>6, <2>7
<1>4. Nat \subseteq T
  <2> HIDE DEF Good
  <2>1. \A k \in Nat : k + 1 <= n => k < n /\ k <= n
      BY <1>1
  <2>2. 0 \in T /\ \A k \in Nat : k \in T => k + 1 \in T
      BY <1>2, <1>3, <2>1
  <2> HIDE DEF T
  <2>. QED
      BY <2>2, SetInduction
<1>. QED
    BY <1>1, <1>4 DEF n

\* The objects that printing an operation looks for.
Wants(o) ==
  IF o.type \in {"CreateTable", "RenameIndex"} THEN {}
  ELSE IF o.type \in Creating THEN {o.object.table} \cup o.object.columns \cup ({o.object.references} \ {NoId})
  ELSE {o.id}

\* emitter.py _emit_one: it finds them, or raises.
LEMMA ResolvesIffWanted ==
  ASSUME NEW s, NEW o, o.type \in Variants
  PROVE  Resolves(s, o) <=> Wants(o) \subseteq DOMAIN s.objects
<1>1. CASE o.type \in {"CreateTable", "RenameIndex"}
    BY <1>1 DEF Resolves, Wants, Creating
<1>2. CASE o.type \notin {"CreateTable", "RenameIndex"} /\ o.type \in Creating
    BY <1>2 DEF Resolves, Wants
<1>3. CASE o.type \notin {"CreateTable", "RenameIndex"} /\ o.type \notin Creating
    BY <1>3 DEF Resolves, Wants
<1>. QED
    BY <1>1, <1>2, <1>3

\* Replay does not raise on an operation that finds what it wants.
LEMMA WantedApplies ==
  ASSUME NEW ops, NEW s, ~s.broken, Explained(ops, s), NEW o, o.type \in Variants,
         Wants(o) \subseteq DOMAIN s.objects
  PROVE  ~Apply(s, o).broken
<1> DEFINE objects == s.objects
<1>1. s = Fine(objects) /\ AreObjects(objects)
    BY DEF Explained
<1> HIDE DEF objects
<1>2. \A f : ~Fine(f).broken
    BY FineFields
<1>3. CASE o.type \in Creating
    BY <1>1, <1>2, <1>3, ApplyAdd
<1>4. CASE o.type \in Destructive
  <2>1. o.id \in DOMAIN objects
      BY <1>4 DEF Wants, Creating, Destructive, objects
  <2>. QED
      BY <1>1, <1>2, <1>4, <2>1, ApplyDrop
<1>5. CASE o.type \in DOMAIN SetField
    BY <1>1, <1>2, <1>5, ApplySet
<1>. QED
    BY <1>3, <1>4, <1>5 DEF Variants

\* One operation printed, of an emission that has not raised and of one that has.
Emission3(a, b, s) == [raised |-> a, misnamed |-> b, schema |-> s]
No == FALSE
Yes == TRUE
Emitting(b, s) == Emission3(No, b, s)
Stopped(b, s) == Emission3(Yes, b, s)
Misnamed(b, s, o) == b \/ ~NamesWhatIsThere(s, o)

LEMMA RaisedOf == ASSUME NEW a, NEW b, NEW s PROVE Emission3(a, b, s).raised = a
  BY Zenon DEF Emission3

LEMMA MisnamedOf == ASSUME NEW a, NEW b, NEW s PROVE Emission3(a, b, s).misnamed = b
  BY Zenon DEF Emission3

LEMMA SchemaOf == ASSUME NEW a, NEW b, NEW s PROVE Emission3(a, b, s).schema = s
  BY Zenon DEF Emission3

LEMMA WithRaised ==
  ASSUME NEW a, NEW b, NEW s, NEW x
  PROVE  [Emission3(a, b, s) EXCEPT !.raised = x] = Emission3(x, b, s)
  BY DEF Emission3

LEMMA EmitOneResolved ==
  ASSUME NEW s, NEW o, NEW b, Resolves(s, o)
  PROVE  EmitOne(Emitting(b, s), o) = Emitting(Misnamed(b, s, o), Apply(s, o))
<1> DEFINE e == Emitting(b, s)
<1>0. e.raised = No
    BY RaisedOf DEF Emitting
<1>1. ~e.raised
    BY <1>0 DEF No
<1>2. e.misnamed = b
    BY MisnamedOf DEF Emitting
<1>3. e.schema = s
    BY SchemaOf DEF Emitting
<1> HIDE DEF e
<1>4. EmitOne(e, o) = [e EXCEPT !.schema = Apply(e.schema, o), !.misnamed = Misnamed(e.misnamed, e.schema, o)]
    BY <1>1, <1>3 DEF EmitOne, Misnamed
<1>5. EmitOne(e, o) = [e EXCEPT !.schema = Apply(s, o), !.misnamed = Misnamed(b, s, o)]
    BY <1>2, <1>3, <1>4, Zenon
<1> DEFINE x == Apply(s, o)
           y == Misnamed(b, s, o)
<1>6. e = Emission3(No, b, s)
    BY DEF e, Emitting
<1>7. EmitOne(e, o) = [e EXCEPT !.schema = x, !.misnamed = y]
    BY <1>5
<1> HIDE DEF x, y
<1>8. [e EXCEPT !.schema = x] = Emission3(No, b, x)
    BY <1>6 DEF Emission3
<1>9. [Emission3(No, b, x) EXCEPT !.misnamed = y] = Emission3(No, y, x)
    BY DEF Emission3
<1> DEFINE d == [e EXCEPT !.schema = x]
<1>10. [d EXCEPT !.misnamed = y] = Emission3(No, y, x)
    BY <1>8, <1>9, Zenon
<1>11. EmitOne(e, o) = Emission3(No, y, x)
    BY <1>7, <1>10
<1>. QED
    BY <1>11 DEF e, x, y, Emitting

LEMMA EmitOneOf ==
  ASSUME NEW s, NEW o, NEW b
  PROVE  /\ ~Resolves(s, o) => EmitOne(Emitting(b, s), o) = Stopped(b, s)
         /\ EmitOne(Stopped(b, s), o) = Stopped(b, s)
<1>0. \A e : e.raised \/ ~Resolves(e.schema, o) => EmitOne(e, o) = [e EXCEPT !.raised = Yes]
    BY Zenon DEF EmitOne, Yes
<1>1. ASSUME ~Resolves(s, o)
      PROVE  EmitOne(Emitting(b, s), o) = Stopped(b, s)
  <2>1. Emitting(b, s).schema = s
      BY SchemaOf DEF Emitting
  <2>2. EmitOne(Emitting(b, s), o) = [Emitting(b, s) EXCEPT !.raised = Yes]
      BY <1>0, <1>1, <2>1, Zenon
  <2>. QED
      BY <2>2, WithRaised DEF Emitting, Stopped
<1>2. EmitOne(Stopped(b, s), o) = Stopped(b, s)
  <2>1. Stopped(b, s).raised = Yes
      BY RaisedOf DEF Stopped
  <2>2. Stopped(b, s).raised
      BY <2>1 DEF Yes
  <2>3. EmitOne(Stopped(b, s), o) = [Stopped(b, s) EXCEPT !.raised = Yes]
      BY <1>0, <2>2, Zenon
  <2>. QED
      BY <2>3, WithRaised DEF Stopped
<1>. QED
    BY <1>1, <1>2

\* emit_ddl: nothing raises if each operation finds what it wants among what
\* those before it have left, and then replaying the list does not raise either
\* and makes the schema that the statements make.
LEMMA EmittedIfWanted ==
  ASSUME NEW list, Grounded(list)
  PROVE  LET e == Emitted(list)  s == Seqs!FoldLeft(Apply, EmptySchema, list)
         IN  /\ e.raised \in BOOLEAN
             /\ ~e.raised <=> \A k \in DOMAIN list : Wants(list[k]) \subseteq Left(Before(list, k - 1))
             /\ ~e.raised => e.schema = s /\ ~s.broken /\ \E b : e = Emitting(b, s)
<1> DEFINE n == Len(list)
           start == Emitting(No, EmptySchema)
<1>1. n \in Nat /\ DOMAIN list = 1 .. n
    BY ListedPlaces DEF Grounded
<1>2. PICK round : /\ round[0] = EmptySchema
                   /\ \A k \in Nat : k < n => round[k + 1] = Apply(round[k], list[k + 1])
                   /\ round[n] = Seqs!FoldLeft(Apply, EmptySchema, list)
    BY <1>1, FoldByRounds
<1>3. PICK turn : /\ turn[0] = start
                  /\ \A k \in Nat : k < n => turn[k + 1] = EmitOne(turn[k], list[k + 1])
                  /\ turn[n] = Emitted(list)
  <2> HIDE DEF n
  <2>. QED
      BY <1>1, EmitByRounds DEF Emitted, Emitting, Emission3, No
<1>4. \A k \in 0 .. n : Explained(Before(list, k), round[k])
    BY <1>2, RoundsAreWritten
<1>5. \A k \in DOMAIN list : list[k].type \in Variants
    BY DEF Grounded, Fits
<1> HIDE DEF n
<1> DEFINE Found(k) == \A i \in 1 .. k : Wants(list[i]) \subseteq Left(Before(list, i - 1))
           Good(k) == \/ Found(k) /\ ~round[k].broken
                         /\ \E b : turn[k] = Emitting(b, round[k])
                      \/ ~Found(k) /\ \E b, t : turn[k] = Stopped(b, t)
           T == {k \in Nat : k <= n => Good(k)}
<1>6. Good(0)
  <2>1. ~round[0].broken /\ turn[0] = Emitting(No, round[0])
      BY <1>2, <1>3 DEF EmptySchema
  <2>2. \E b : turn[0] = Emitting(b, round[0])
      BY <2>1, Zenon
  <2>3. Found(0)
      OBVIOUS
  <2>. QED
      BY <2>1, <2>2, <2>3, Zenon
<1>7. ASSUME NEW k \in Nat, k < n, Good(k)
      PROVE  Good(k + 1)
  <2> DEFINE o == list[k + 1]
  <2>1. /\ k + 1 \in DOMAIN list /\ (k + 1) - 1 = k /\ k \in 0 .. n
        /\ 1 .. (k + 1) = (1 .. k) \cup {k + 1}
      BY <1>1, <1>7
  <2>2. round[k + 1] = Apply(round[k], o) /\ turn[k + 1] = EmitOne(turn[k], o)
      BY <1>2, <1>3, <1>7
  <2>3. Found(k + 1) <=> Found(k) /\ Wants(o) \subseteq Left(Before(list, k))
      BY <2>1
  <2>4. o.type \in Variants
      BY <1>5, <2>1
  <2> HIDE DEF o, Found
  <2>5. CASE Found(k) /\ Wants(o) \subseteq Left(Before(list, k))
    <3>1. ~round[k].broken /\ \E b : turn[k] = Emitting(b, round[k])
        BY <1>7, <2>5
    <3>2. Wants(o) \subseteq DOMAIN round[k].objects
        BY <1>4, <2>1, <2>5, <3>1 DEF Explained
    <3>3. Resolves(round[k], o)
        BY <2>4, <3>2, ResolvesIffWanted
    <3>4. \E b : turn[k + 1] = Emitting(b, round[k + 1])
      <4>1. PICK b : turn[k] = Emitting(b, round[k])
          BY <3>1
      <4>2. turn[k + 1] = Emitting(Misnamed(b, round[k], o), round[k + 1])
          BY <2>2, <3>3, <4>1, EmitOneResolved
      <4>. QED
          BY <4>2
    <3>5. ~round[k + 1].broken
        BY <1>4, <2>1, <2>2, <2>4, <3>1, <3>2, WantedApplies
    <3>. QED
        BY <2>3, <2>5, <3>4, <3>5
  <2>6. CASE Found(k) /\ ~(Wants(o) \subseteq Left(Before(list, k)))
    <3>1. ~round[k].broken /\ \E b : turn[k] = Emitting(b, round[k])
        BY <1>7, <2>6
    <3>2. ~(Wants(o) \subseteq DOMAIN round[k].objects)
        BY <1>4, <2>1, <2>6, <3>1 DEF Explained
    <3>3. ~Resolves(round[k], o)
        BY <2>4, <3>2, ResolvesIffWanted
    <3>4. \E b, t : turn[k + 1] = Stopped(b, t)
      <4>1. PICK b : turn[k] = Emitting(b, round[k])
          BY <3>1
      <4>2. turn[k + 1] = Stopped(b, round[k])
          BY <2>2, <3>3, <4>1, EmitOneOf
      <4>. QED
          BY <4>2
    <3>. QED
        BY <2>3, <2>6, <3>4
  <2>7. CASE ~Found(k)
    <3>1. \E b, t : turn[k] = Stopped(b, t)
        BY <1>7, <2>7
    <3>2. \E b, t : turn[k + 1] = Stopped(b, t)
      <4>1. PICK b, t : turn[k] = Stopped(b, t)
          BY <3>1
      <4>2. turn[k + 1] = Stopped(b, t)
          BY <2>2, <4>1, EmitOneOf
      <4>. QED
          BY <4>2
    <3>. QED
        BY <2>3, <2>7, <3>2
  <2>. QED
      BY <2>5, <2>6, <2>7
<1>8. Nat \subseteq T
  <2> HIDE DEF Good
  <2>1. \A k \in Nat : k + 1 <= n => k < n /\ k <= n
      BY <1>1
  <2>2. 0 \in T /\ \A k \in Nat : k \in T => k + 1 \in T
      BY <1>6, <1>7, <2>1
  <2> HIDE DEF T
  <2>. QED
      BY <2>2, SetInduction
<1>9. Good(n)
  <2> HIDE DEF Good
  <2>. QED
      BY <1>1, <1>8
<1> DEFINE e == Emitted(list)  s == Seqs!FoldLeft(Apply, EmptySchema, list)
<1>10. turn[n] = e /\ round[n] = s
    BY <1>2, <1>3
<1>11. Found(n) <=> \A k \in DOMAIN list : Wants(list[k]) \subseteq Left(Before(list, k - 1))
    BY <1>1
<1> HIDE DEF e, s, Found
<1>12. /\ e.raised \in BOOLEAN /\ (~e.raised <=> Found(n))
       /\ ~e.raised => e.schema = s /\ ~s.broken /\ \E b : e = Emitting(b, s)
  <2>1. CASE Found(n)
    <3>1. ~s.broken /\ \E b : e = Emitting(b, s)
        BY <1>9, <1>10, <2>1
    <3>2. PICK b : e = Emitting(b, s)
        BY <3>1
    <3>3. e.raised = No
        BY <3>2, RaisedOf DEF Emitting
    <3>4. e.schema = s
        BY <3>2, SchemaOf DEF Emitting
    <3>. QED
        BY <2>1, <3>1, <3>3, <3>4 DEF No
  <2>2. CASE ~Found(n)
    <3>0. PICK b, t : e = Stopped(b, t)
        BY <1>9, <1>10, <2>2
    <3>1. e.raised = Yes
        BY <3>0, RaisedOf DEF Stopped
    <3>. QED
        BY <2>2, <3>1 DEF Yes
  <2>. QED
      BY <2>1, <2>2
<1>. QED
    BY <1>11, <1>12 DEF e, s

----------------------------------------------------------------------------
(* The sorted list of a list of operations.                                  *)

\* The operations in the order of the sort.
Reordered(list) == LET order == Toposort(list) IN [p \in DOMAIN order |-> list[order[p]]]

\* What toposort.py waits for before it lets an operation come, a drop of a table
\* apart, comes earlier in the list anyway.
LEMMA CreationsComeFirst ==
  ASSUME NEW list, Grounded(list), NEW e \in Edges(list), list[e[2]].type # "DropTable"
  PROVE  e[1] \in DOMAIN list /\ e[2] \in DOMAIN list /\ e[1] < e[2] /\ list[e[1]].type \in Creating
<1>1. Len(list) \in Nat /\ DOMAIN list = 1 .. Len(list)
    BY ListedPlaces DEF Grounded
<1> DEFINE i == e[1]  j == e[2]  o == list[j].object
<1>2. /\ i \in DOMAIN list /\ j \in DOMAIN list
      /\ list[i].type \in {"CreateTable", "AddColumn"} /\ list[j].type \in Creating
      /\ \/ IsLast(list, "CreateTable", o.table, i)
         \/ IsLast(list, "CreateTable", o.references, i)
         \/ \E c \in o.columns : IsLast(list, "AddColumn", c, i)
    BY DEF Edges
<1> HIDE DEF i, j
<1>3. Fits(Before(list, j - 1), list[j]) /\ list[i].id # NoId
    BY <1>2 DEF Grounded, Fits
<1>4. ASSUME NEW kind, NEW x \in Before(list, j - 1), Makes(x, kind, list[i].id)
      PROVE  i < j
  <2>1. PICK q \in 1 .. (j - 1) : x = list[q]
      BY DEF Before
  <2>2. q \in DOMAIN list /\ q < j
      BY <1>1, <1>2
  <2>3. {list[q].type, list[i].type} \subseteq Creating /\ list[q].id = list[i].id
      BY <1>2, <1>4, <2>1 DEF Makes, Creating
  <2>4. q = i
      BY <1>2, <2>2, <2>3 DEF Grounded
  <2>. QED
      BY <2>2, <2>4
<1>5. CASE IsLast(list, "CreateTable", o.table, i)
  <2>1. o.table # NoId /\ list[i].id = o.table
      BY <1>3, <1>5 DEF IsLast
  <2>2. \E x \in Before(list, j - 1) : Makes(x, "table", o.table)
      BY <1>2, <1>3, <2>1 DEF Fits
  <2>. QED
      BY <1>2, <1>4, <2>1, <2>2 DEF i, j, Creating
<1>6. CASE IsLast(list, "CreateTable", o.references, i)
  <2>1. o.references # NoId /\ list[i].id = o.references
      BY <1>3, <1>6 DEF IsLast
  <2>2. \E x \in Before(list, j - 1) : Makes(x, "table", o.references)
      BY <1>2, <1>3, <2>1 DEF Fits
  <2>. QED
      BY <1>2, <1>4, <2>1, <2>2 DEF i, j, Creating
<1>7. CASE \E c \in o.columns : IsLast(list, "AddColumn", c, i)
  <2>1. PICK c \in o.columns : list[i].id = c
      BY <1>7 DEF IsLast
  <2>2. \E x \in Before(list, j - 1) : Makes(x, "column", c)
      BY <1>2, <1>3 DEF Fits
  <2>. QED
      BY <1>2, <1>4, <2>1, <2>2 DEF i, j, Creating
<1>. QED
    BY <1>2, <1>5, <1>6, <1>7

\* The sort is a permutation of the list.
LEMMA ReorderedPlaces ==
  ASSUME NEW list, Grounded(list)
  PROVE  LET n == Len(list)  order == Toposort(list)  sorted == Reordered(list)
         IN  /\ n \in Nat /\ DOMAIN list = 1 .. n
             /\ order \in [1 .. n -> 1 .. n]
             /\ \A x \in 1 .. n : \E p \in 1 .. n : order[p] = x
             /\ \A p, q \in 1 .. n : order[p] = order[q] => p = q
             /\ Listed(sorted) /\ Len(sorted) = n /\ DOMAIN sorted = 1 .. n
             /\ \A p \in 1 .. n : sorted[p] = list[order[p]]
             /\ Before(sorted, n) = Before(list, n)
<1> DEFINE n == Len(list)  order == Toposort(list)  sorted == Reordered(list)
<1>1. n \in Nat /\ DOMAIN list = 1 .. n
    BY ListedPlaces DEF Grounded
<1> HIDE DEF n
<1>2. /\ order \in [1 .. n -> 1 .. n]
      /\ \A x \in 1 .. n : \E p \in 1 .. n : order[p] = x
      /\ \A p, q \in 1 .. n : order[p] = order[q] => p = q
  <2>1. order \in [1 .. n -> 1 .. n]
      BY <1>1, ToposortSorts
  <2>2. ASSUME NEW x \in 1 .. n
        PROVE  \E p \in 1 .. n : order[p] = x
      BY <1>1, ToposortSorts
  <2>3. \A p, q \in 1 .. n : order[p] = order[q] => p = q
      BY <1>1, ToposortSorts
  <2>. QED
      BY <2>1, <2>2, <2>3
<1>3. sorted = [p \in DOMAIN order |-> list[order[p]]]
    BY DEF Reordered
<1> HIDE DEF order, sorted
<1>4. DOMAIN sorted = 1 .. n /\ \A p \in 1 .. n : sorted[p] = list[order[p]]
    BY <1>2, <1>3
<1>5. sorted = [p \in 1 .. n |-> sorted[p]]
    BY <1>2, <1>3
<1>6. Listed(sorted) /\ Len(sorted) = n
    BY <1>1, <1>4, <1>5, ListedFunction
<1>7. Before(sorted, n) = Before(list, n)
    BY <1>2, <1>4 DEF Before
<1>. QED
    BY <1>1, <1>2, <1>4, <1>6, <1>7 DEF n, order, sorted

\* Only drops of tables are put behind what they precede in the list.
LEMMA OnlyTableDropsWait ==
  ASSUME NEW list, Grounded(list), NEW p \in DOMAIN list, NEW q \in DOMAIN list, p < q,
         Toposort(list)[q] < Toposort(list)[p]
  PROVE  list[Toposort(list)[q]].type = "DropTable"
<1> DEFINE n == Len(list)  order == Toposort(list)
<1>1. n \in Nat /\ DOMAIN list = 1 .. n /\ order \in [1 .. n -> 1 .. n]
    BY ReorderedPlaces
<1> HIDE DEF n
<1>2. \A i, j \in 1 .. n : i < j /\ order[j] < order[i] =>
        \E e \in Edges(list) : \E m \in i .. (j - 1) : order[m] = e[1] /\ order[j] = e[2]
    BY <1>1, ToposortSorts
<1> HIDE DEF order
<1> DEFINE Good(k) == \A j \in 1 .. n : j <= k /\ p < j /\ order[j] < order[p] => list[order[j]].type = "DropTable"
           T == {k \in Nat : Good(k)}
<1>3. 0 \in T
    OBVIOUS
<1>4. ASSUME NEW k \in Nat, Good(k)
      PROVE  Good(k + 1)
  <2> SUFFICES ASSUME NEW j \in 1 .. n, j <= k + 1, p < j, order[j] < order[p],
                      list[order[j]].type # "DropTable"
               PROVE  FALSE
      OBVIOUS
  <2>0. p \in 1 .. n
      BY <1>1
  <2>7. \E e \in Edges(list) : \E m \in p .. (j - 1) : order[m] = e[1] /\ order[j] = e[2]
      BY <1>2, <2>0
  <2>1. PICK e \in Edges(list), m \in p .. (j - 1) : order[m] = e[1] /\ order[j] = e[2]
      BY <2>7
  <2>2. e[1] < e[2] /\ list[e[1]].type \in Creating /\ e[1] \in 1 .. n
      BY <1>1, <2>1, CreationsComeFirst
  <2>3. order[m] < order[p] /\ m \in 1 .. n
    <3>1. order[p] \in 1 .. n /\ order[j] \in 1 .. n /\ m \in 1 .. n
        BY <1>1
    <3>2. order[m] \in 1 .. n
        BY <1>1, <3>1
    <3>. QED
        BY <1>1, <2>1, <2>2, <3>1, <3>2
  <2>4. p < m /\ m <= k
    <3>1. m # p
        BY <1>1, <2>3
    <3>2. m \in Int /\ m >= p /\ m <= j - 1 /\ j \in Int /\ p \in Int
        BY <1>1, <2>0
    <3>. QED
        BY <3>1, <3>2
  <2>6. list[order[m]].type = "DropTable"
      BY <1>4, <2>3, <2>4
  <2>. QED
      BY <2>1, <2>2, <2>6 DEF Creating
<1>5. Nat \subseteq T
  <2> HIDE DEF Good
  <2>1. 0 \in T /\ \A k \in Nat : k \in T => k + 1 \in T
      BY <1>3, <1>4
  <2> HIDE DEF T
  <2>. QED
      BY <2>1, SetInduction
<1>6. Good(q)
  <2> HIDE DEF Good
  <2>. QED
      BY <1>1, <1>5
<1>. QED
    BY <1>1, <1>6 DEF order

\* If no dependency leads backwards, nothing is moved.
LEMMA NothingWaits ==
  ASSUME NEW list, Grounded(list), \A e \in Edges(list) : e[1] < e[2],
         NEW p \in DOMAIN list, NEW q \in DOMAIN list, p < q
  PROVE  Toposort(list)[p] < Toposort(list)[q]
<1> DEFINE n == Len(list)  order == Toposort(list)
<1>1. /\ n \in Nat /\ DOMAIN list = 1 .. n /\ order \in [1 .. n -> 1 .. n]
      /\ \A i, j \in 1 .. n : order[i] = order[j] => i = j
    BY ReorderedPlaces
<1> HIDE DEF n
<1>2. \A i, j \in 1 .. n : i < j /\ order[j] < order[i] =>
        \E e \in Edges(list) : \E m \in i .. (j - 1) : order[m] = e[1] /\ order[j] = e[2]
    BY <1>1, ToposortSorts
<1> HIDE DEF order
<1> DEFINE Good(k) == \A j \in 1 .. n : j <= k /\ p < j => ~(order[j] < order[p])
           T == {k \in Nat : Good(k)}
<1>3. 0 \in T
    OBVIOUS
<1>4. ASSUME NEW k \in Nat, Good(k)
      PROVE  Good(k + 1)
  <2> SUFFICES ASSUME NEW j \in 1 .. n, j <= k + 1, p < j, order[j] < order[p]
               PROVE  FALSE
      OBVIOUS
  <2>0. p \in 1 .. n
      BY <1>1
  <2>7. \E e \in Edges(list) : \E m \in p .. (j - 1) : order[m] = e[1] /\ order[j] = e[2]
      BY <1>2, <2>0
  <2>1. PICK e \in Edges(list), m \in p .. (j - 1) : order[m] = e[1] /\ order[j] = e[2]
      BY <2>7
  <2>2. e[1] < e[2]
      OBVIOUS
  <2>3. order[m] < order[p] /\ m \in 1 .. n
    <3>1. order[p] \in 1 .. n /\ order[j] \in 1 .. n /\ m \in 1 .. n
        BY <1>1
    <3>2. order[m] \in 1 .. n
        BY <1>1, <3>1
    <3>. QED
        BY <1>1, <2>1, <2>2, <3>1, <3>2
  <2>4. p < m /\ m <= k
    <3>1. m # p
        BY <1>1, <2>3
    <3>2. m \in Int /\ m >= p /\ m <= j - 1 /\ j \in Int /\ p \in Int
        BY <1>1, <2>0
    <3>. QED
        BY <3>1, <3>2
  <2>. QED
      BY <1>4, <2>3, <2>4
<1>5. Nat \subseteq T
  <2> HIDE DEF Good
  <2>1. 0 \in T /\ \A k \in Nat : k \in T => k + 1 \in T
      BY <1>3, <1>4
  <2> HIDE DEF T
  <2>. QED
      BY <2>1, SetInduction
<1>6. Good(q)
  <2> HIDE DEF Good
  <2>. QED
      BY <1>1, <1>5
<1>7. order[p] \in 1 .. n /\ order[q] \in 1 .. n /\ order[p] # order[q] /\ ~(order[q] < order[p])
    BY <1>1, <1>6
<1>. QED
    BY <1>7 DEF order

\* In the order of the sort, too, each operation has what it needs before it.
LEMMA ReorderedGrounded ==
  ASSUME NEW list, Grounded(list)
  PROVE  Grounded(Reordered(list))
<1> DEFINE n == Len(list)  order == Toposort(list)  sorted == Reordered(list)
<1>1. /\ n \in Nat /\ DOMAIN list = 1 .. n
      /\ order \in [1 .. n -> 1 .. n]
      /\ \A x \in 1 .. n : \E p \in 1 .. n : order[p] = x
      /\ \A p, q \in 1 .. n : order[p] = order[q] => p = q
      /\ Listed(sorted) /\ DOMAIN sorted = 1 .. n
      /\ \A p \in 1 .. n : sorted[p] = list[order[p]]
    BY ReorderedPlaces
<1>2. \A p, q \in DOMAIN list : p < q /\ order[q] < order[p] => list[order[q]].type = "DropTable"
    BY OnlyTableDropsWait
<1> HIDE DEF n, order, sorted
<1>3. ASSUME NEW p \in 1 .. n
      PROVE  Fits(Before(sorted, p - 1), sorted[p])
  <2> DEFINE j == order[p]
  <2>1. j \in 1 .. n /\ Fits(Before(list, j - 1), list[j])
      BY <1>1 DEF Grounded
  <2>2. ASSUME NEW x \in Before(list, j - 1), x.type \in Creating
        PROVE  x \in Before(sorted, p - 1)
    <3>1. PICK i \in 1 .. (j - 1) : x = list[i]
        BY DEF Before
    <3>2. i \in 1 .. n /\ i < j
        BY <1>1, <2>1
    <3>3. PICK q \in 1 .. n : order[q] = i
        BY <1>1, <3>2
    <3>4. ~(p < q)
        BY <1>1, <1>2, <2>2, <3>1, <3>2, <3>3 DEF Creating
    <3>5. p # q
        BY <3>2, <3>3
    <3>6. q \in 1 .. (p - 1)
        BY <1>1, <3>4, <3>5
    <3>. QED
        BY <1>1, <3>1, <3>3, <3>6 DEF Before
  <2> HIDE DEF j
  <2>3. Fits(Before(sorted, p - 1), list[j])
      BY <2>1, <2>2 DEF Fits, Makes
  <2>. QED
      BY <1>1, <2>3 DEF j
<1>4. ASSUME NEW p \in 1 .. n, NEW q \in 1 .. n,
             {sorted[p].type, sorted[q].type} \subseteq Creating, sorted[p].id = sorted[q].id
      PROVE  p = q
  <2>1. order[p] \in DOMAIN list /\ order[q] \in DOMAIN list
      BY <1>1
  <2>2. order[p] = order[q]
    <3>1. \A i, j \in DOMAIN list :
            {list[i].type, list[j].type} \subseteq Creating /\ list[i].id = list[j].id => i = j
        BY DEF Grounded
    <3>2. sorted[p] = list[order[p]] /\ sorted[q] = list[order[q]]
        BY <1>1
    <3>. QED
        BY <1>4, <2>1, <3>1, <3>2
  <2>. QED
      BY <1>1, <2>2
<1>. QED
    BY <1>1, <1>3, <1>4 DEF Grounded, sorted

\* If an operation sets a field, one is the last that does.
LEMMA LastSetExists ==
  ASSUME NEW list, NEW n \in Nat, NEW id, NEW f, NEW k \in 1 .. n, SetsField(list[k], id, f)
  PROVE  \E i \in 1 .. n : IsLastSet(list, n, id, f, i)
<1> DEFINE S == {i \in 1 .. n : SetsField(list[i], id, f)}
<1>1. S \in SUBSET Nat /\ S # {} /\ \A i \in S : i <= n
    OBVIOUS
<1>2. PICK i \in S : \A j \in S : j <= i
    BY <1>1, GreatestNatural
<1>3. \A j \in 1 .. n : j > i => j \notin S
    BY <1>2
<1>4. IsLastSet(list, n, id, f, i)
    BY <1>2, <1>3 DEF IsLastSet
<1>. QED
    BY <1>4

\* A replay of a list, operation by operation.
LEMMA ListReplay ==
  ASSUME NEW list, Grounded(list), NEW s, s = Seqs!FoldLeft(Apply, EmptySchema, list)
  PROVE  \E round :
           /\ round[0] = EmptySchema
           /\ \A k \in Nat : k < Len(list) => round[k + 1] = Apply(round[k], list[k + 1])
           /\ round[Len(list)] = s
<1> DEFINE n == Len(list)
<1>1. n \in Nat /\ DOMAIN list = 1 .. n
    BY ListedPlaces DEF Grounded
<1>2. PICK round : /\ round[0] = EmptySchema
                   /\ \A k \in Nat : k < n => round[k + 1] = Apply(round[k], list[k + 1])
                   /\ round[n] = Seqs!FoldLeft(Apply, EmptySchema, list)
    BY <1>1, FoldByRounds
<1>. QED
    BY <1>2

\* What it makes is what the list leaves, object by object as it was written.
LEMMA FoldIsWritten ==
  ASSUME NEW list, Grounded(list), NEW s, s = Seqs!FoldLeft(Apply, EmptySchema, list)
  PROVE  /\ Explained(Before(list, Len(list)), s)
         /\ ~s.broken => Written(list, Len(list), s.objects)
<1> DEFINE n == Len(list)
<1>1. n \in Nat
    BY ListedPlaces DEF Grounded
<1>2. PICK round :
        /\ round[0] = EmptySchema
        /\ \A k \in Nat : k < Len(list) => round[k + 1] = Apply(round[k], list[k + 1])
        /\ round[Len(list)] = s
    BY ListReplay
<1>3. n \in 0 .. n
    BY <1>1
<1>4. \A k \in 0 .. n : /\ Explained(Before(list, k), round[k])
                        /\ ~round[k].broken => Written(list, k, round[k].objects)
    BY <1>2, RoundsAreWritten
<1>5. round[n] = s
    BY <1>2
<1> HIDE DEF n
<1>. QED
    BY <1>3, <1>4, <1>5 DEF n

\* Two replays of the same operations, of which one leaves only drops of tables
\* for later, make the same objects unless one raises.
LEMMA ReorderedSameSchema ==
  ASSUME NEW list, Grounded(list), NEW n, n = Len(list),
         NEW s, ~s.broken, Explained(Before(list, n), s), Written(list, n, s.objects),
         NEW t, ~t.broken, Explained(Before(Reordered(list), n), t),
         Written(Reordered(list), n, t.objects)
  PROVE  s = t
<1> DEFINE order == Toposort(list)  sorted == Reordered(list)
           ops == Before(list, n)
<1>1. /\ n \in Nat /\ DOMAIN list = 1 .. n
      /\ order \in [1 .. n -> 1 .. n]
      /\ \A x \in 1 .. n : \E p \in 1 .. n : order[p] = x
      /\ Len(sorted) = n /\ DOMAIN sorted = 1 .. n
      /\ \A p \in 1 .. n : sorted[p] = list[order[p]]
      /\ Before(sorted, n) = ops
    BY ReorderedPlaces
<1>2. \A p, q \in DOMAIN list : p < q /\ order[q] < order[p] => list[order[q]].type = "DropTable"
    BY OnlyTableDropsWait
<1>3. Grounded(sorted)
    BY ReorderedGrounded
<1>4. Sound(ops)
    BY <1>1, GroundedIsSound
<1>5. Explained(ops, s) /\ Written(list, n, s.objects)
    OBVIOUS
<1>6. Explained(ops, t) /\ Written(sorted, n, t.objects)
    BY <1>1
<1> HIDE DEF order, sorted, ops
<1>7. /\ s = Fine(s.objects) /\ t = Fine(t.objects)
      /\ AreObjects(s.objects) /\ AreObjects(t.objects)
      /\ DOMAIN s.objects = DOMAIN t.objects
    BY <1>5, <1>6 DEF Explained
<1>8. ASSUME NEW id \in DOMAIN s.objects
      PROVE  s.objects[id] = t.objects[id]
  <2> DEFINE u == s.objects[id]  v == t.objects[id]
  <2>1. PICK x \in Created(ops) :
          /\ x.id = id /\ DOMAIN u = DOMAIN x.object
          /\ \A f \in DOMAIN x.object :
               /\ \A i \in 1 .. n : IsLastSet(list, n, id, f, i) => u[f] = list[i].value
               /\ (\A i \in 1 .. n : ~SetsField(list[i], id, f)) => u[f] = x.object[f]
      BY <1>5 DEF Written, IsWritten, ops
  <2>8. IsWritten(sorted, n, id, v)
      BY <1>6, <1>7 DEF Written
  <2>2. PICK y \in Created(ops) :
          /\ y.id = id /\ DOMAIN v = DOMAIN y.object
          /\ \A f \in DOMAIN y.object :
               /\ \A i \in 1 .. n : IsLastSet(sorted, n, id, f, i) => v[f] = sorted[i].value
               /\ (\A i \in 1 .. n : ~SetsField(sorted[i], id, f)) => v[f] = y.object[f]
      BY <1>1, <2>8 DEF IsWritten
  <2>3. x = y
      BY <1>4, <2>1, <2>2 DEF Sound
  <2>4. IsFunction(u) /\ IsFunction(v)
      BY <1>7 DEF AreObjects
  <2> HIDE DEF u, v
  <2>5. ASSUME NEW f \in DOMAIN x.object
        PROVE  u[f] = v[f]
    <3>1. CASE \A i \in 1 .. n : ~SetsField(list[i], id, f)
      <4>1. \A i \in 1 .. n : ~SetsField(sorted[i], id, f)
          BY <1>1, <3>1
      <4>. QED
          BY <2>1, <2>2, <2>3, <3>1, <4>1
    <3>2. CASE \E i \in 1 .. n : SetsField(list[i], id, f)
      <4>1. PICK i \in 1 .. n : IsLastSet(list, n, id, f, i)
          BY <1>1, <3>2, LastSetExists
      <4>2. PICK q \in 1 .. n : order[q] = i
          BY <1>1
      <4>3. SetsField(sorted[q], id, f)
          BY <1>1, <4>1, <4>2 DEF IsLastSet
      <4>4. PICK j \in 1 .. n : IsLastSet(sorted, n, id, f, j)
          BY <1>1, <4>3, LastSetExists
      <4>5. order[j] \in 1 .. n /\ SetsField(list[order[j]], id, f)
          BY <1>1, <4>4 DEF IsLastSet
      <4>6. ~(order[j] > i)
          BY <4>1, <4>5 DEF IsLastSet
      <4>7. ~(q > j)
          BY <4>3, <4>4 DEF IsLastSet
      <4>8. ~(q < j /\ order[j] < order[q])
        <5>1. list[order[j]].type # "DropTable"
            BY <4>5 DEF SetsField, SetField, MutationField
        <5>. QED
            BY <1>1, <1>2, <5>1
      <4>9. order[j] = i
          BY <4>2, <4>5, <4>6, <4>7, <4>8
      <4>10. sorted[j] = list[i]
          BY <1>1, <4>9
      <4>11. u[f] = list[i].value
          BY <2>1, <4>1
      <4>12. v[f] = sorted[j].value
          BY <2>2, <2>3, <4>4
      <4>. QED
          BY <4>10, <4>11, <4>12
    <3>. QED
        BY <3>1, <3>2
  <2>6. DOMAIN u = DOMAIN v /\ \A f \in DOMAIN u : u[f] = v[f]
      BY <2>1, <2>2, <2>3, <2>5
  <2>7. u = v
      BY <2>4, <2>6 DEF IsFunction
  <2>. QED
      BY <2>7 DEF u, v
<1>9. s.objects = t.objects
    BY <1>7, <1>8 DEF AreObjects, IsFunction
<1>. QED
    BY <1>7, <1>9

\* Replay raises only on the drop of a table that is gone.
LEMMA BreaksOnTable ==
  ASSUME NEW ops, NEW s, ~s.broken, Explained(ops, s), NEW o, o.type \in Variants, Apply(s, o).broken
  PROVE  o.type = "DropTable" /\ o.id \notin Left(ops)
<1> DEFINE objects == s.objects
<1>1. s = Fine(objects) /\ AreObjects(objects) /\ DOMAIN objects = Left(ops)
    BY DEF Explained
<1> HIDE DEF objects
<1>2. \A f : ~Fine(f).broken
    BY FineFields
<1>3. CASE o.type \in Creating
    BY <1>1, <1>2, <1>3, ApplyAdd
<1>4. CASE o.type \in Destructive
  <2>1. CASE o.id \in DOMAIN objects
      BY <1>1, <1>2, <1>4, <2>1, ApplyDrop
  <2>2. CASE o.id \notin DOMAIN objects
    <3> DEFINE b == (o.type = "DropTable")
    <3>1. Apply(s, o) = [broken |-> b, objects |-> objects]
        BY <1>1, <1>4, <2>2, ApplyDrop
    <3> HIDE DEF b
    <3>2. Apply(s, o).broken = b
        BY <3>1
    <3>. QED
        BY <1>1, <2>2, <3>2 DEF b
  <2>. QED
      BY <2>1, <2>2
<1>5. CASE o.type \in DOMAIN SetField
    BY <1>1, <1>2, <1>5, ApplySet
<1>. QED
    BY <1>3, <1>4, <1>5 DEF Variants

\* If nothing raises in the order of the sort, no table is dropped twice.
LEMMA TableDroppedOnce ==
  ASSUME NEW list, Grounded(list),
         \A p \in DOMAIN Reordered(list) :
           Wants(Reordered(list)[p]) \subseteq Left(Before(Reordered(list), p - 1)),
         NEW k \in Nat, k < Len(list), list[k + 1].type = "DropTable"
  PROVE  list[k + 1].id \in Left(Before(list, k))
<1> DEFINE n == Len(list)  order == Toposort(list)  sorted == Reordered(list)
           ops == Before(list, k)  o == list[k + 1]
<1>1. /\ n \in Nat /\ DOMAIN list = 1 .. n
      /\ order \in [1 .. n -> 1 .. n]
      /\ \A x \in 1 .. n : \E p \in 1 .. n : order[p] = x
      /\ DOMAIN sorted = 1 .. n
      /\ \A p \in 1 .. n : sorted[p] = list[order[p]]
    BY ReorderedPlaces
<1>2. k + 1 \in 1 .. n /\ k \in 0 .. n /\ (k + 1) - 1 = k
    BY <1>1
<1>3. Sound(ops) /\ Fits(ops, o)
    BY <1>1, <1>2, GroundedIsSound DEF Grounded
<1>4. \A p \in 1 .. n : Wants(sorted[p]) \subseteq Left(Before(sorted, p - 1))
    BY <1>1
<1> HIDE DEF n, order, sorted, ops, o
<1>5. o.type = "DropTable" /\ o.type \in Destructive
    BY DEF o, Destructive
<1>6. PICK x \in Created(ops) : x.id = o.id /\ x.type = "CreateTable"
    BY <1>3, <1>5, SoundTables
<1>7. x.object.table = NoId
  <2>1. Fits(ops, x) /\ x.type \in Creating
      BY <1>3 DEF Sound, Created
  <2>. QED
      BY <1>3, <1>6, <2>1, SoundTables
<1>8. NoId \notin GoneBy(ops)
    BY <1>3, SoundTables DEF GoneBy, Sound
<1>9. \A y \in Created(ops) : y.id = o.id => y = x
    BY <1>3, <1>6 DEF Sound
<1>10. o.id \notin GoneBy(ops)
  <2> SUFFICES ASSUME NEW y \in ops, y.type \in Destructive, y.id = o.id
               PROVE  FALSE
      BY DEF GoneBy
  <2>1. y.type = "DropTable"
    <3>1. Fits(ops, y)
        BY <1>3 DEF Sound
    <3>2. PICK z \in Created(ops) : z.id = y.id /\ (z.type = "CreateTable" <=> y.type = "DropTable")
        BY <1>3, <3>1, SoundTables
    <3>. QED
        BY <1>6, <1>9, <3>2
  <2>2. PICK j \in 1 .. k : y = list[j]
      BY DEF ops, Before
  <2>3. j \in 1 .. n /\ j # k + 1
      BY <1>1, <1>2
  <2>4. PICK p \in 1 .. n : order[p] = j
      BY <1>1, <2>3
  <2>5. PICK q \in 1 .. n : order[q] = k + 1
      BY <1>1, <1>2
  <2>6. ASSUME NEW a \in 1 .. n, NEW b \in 1 .. n, a < b,
               sorted[a].type = "DropTable", sorted[b].type = "DropTable", sorted[a].id = sorted[b].id
        PROVE  FALSE
    <3>1. a \in 1 .. (b - 1)
        BY <1>1, <2>6
    <3>2. sorted[b].id \in GoneBy(Before(sorted, b - 1))
        BY <2>6, <3>1 DEF GoneBy, Before, Destructive
    <3>3. Wants(sorted[b]) = {sorted[b].id}
        BY <2>6 DEF Wants, Creating
    <3>. QED
        BY <1>4, <3>2, <3>3 DEF Left, Gone
  <2>7. sorted[p] = y /\ sorted[q] = o
      BY <1>1, <2>2, <2>4, <2>5 DEF o
  <2>8. p < q \/ q < p
      BY <1>1, <2>3, <2>4, <2>5
  <2>. QED
      BY <1>5, <2>1, <2>6, <2>7, <2>8
<1>11. o.id \notin Gone(ops)
    BY <1>6, <1>7, <1>8, <1>9, <1>10 DEF Gone
<1>. QED
    BY <1>6, <1>11 DEF Left, o, ops

\* A list that drops only tables that are left does not raise.
LEMMA RoundsNotBroken ==
  ASSUME NEW list, Grounded(list), NEW round, round[0] = EmptySchema,
         \A k \in Nat : k < Len(list) => round[k + 1] = Apply(round[k], list[k + 1]),
         \A k \in Nat : k < Len(list) /\ list[k + 1].type = "DropTable" =>
                        list[k + 1].id \in Left(Before(list, k))
  PROVE  ~round[Len(list)].broken
<1> DEFINE n == Len(list)
<1>1. n \in Nat /\ DOMAIN list = 1 .. n
    BY ListedPlaces DEF Grounded
<1>2. \A k \in 0 .. n : Explained(Before(list, k), round[k])
    BY RoundsAreWritten
<1>3. \A k \in 1 .. n : list[k].type \in Variants
    BY <1>1 DEF Grounded, Fits
<1> DEFINE T == {k \in Nat : k <= n => ~round[k].broken}
<1>4. 0 \in T
    BY DEF EmptySchema
<1> HIDE DEF n
<1>5. ASSUME NEW k \in Nat, k \in T
      PROVE  k + 1 \in T
  <2> SUFFICES ASSUME k + 1 <= n, round[k + 1].broken
               PROVE  FALSE
      OBVIOUS
  <2>1. k < n /\ k <= n /\ k \in 0 .. n /\ k + 1 \in 1 .. n
      BY <1>1
  <2>2. ~round[k].broken /\ round[k + 1] = Apply(round[k], list[k + 1])
      BY <1>5, <2>1 DEF n
  <2>3. list[k + 1].type = "DropTable" /\ list[k + 1].id \notin Left(Before(list, k))
      BY <1>2, <1>3, <2>1, <2>2, BreaksOnTable
  <2>. QED
      BY <2>1, <2>3 DEF n
<1>6. Nat \subseteq T
  <2> HIDE DEF T
  <2>. QED
      BY <1>4, <1>5, SetInduction
<1>. QED
    BY <1>1, <1>6 DEF n

\* Nor, then, does its replay.
LEMMA FoldNotBroken ==
  ASSUME NEW list, Grounded(list), NEW s, s = Seqs!FoldLeft(Apply, EmptySchema, list),
         \A k \in Nat : k < Len(list) /\ list[k + 1].type = "DropTable" =>
                        list[k + 1].id \in Left(Before(list, k))
  PROVE  ~s.broken
<1>1. PICK round :
        /\ round[0] = EmptySchema
        /\ \A k \in Nat : k < Len(list) => round[k + 1] = Apply(round[k], list[k + 1])
        /\ round[Len(list)] = s
    BY ListReplay
<1>2. ~round[Len(list)].broken
    BY <1>1, RoundsNotBroken
<1>. QED
    BY <1>1, <1>2

\* emit_ddl: the statements, unless one cannot be printed, make the schema that
\* replaying the list makes.
LEMMA EmissionMakesReplay ==
  ASSUME NEW list, Grounded(list), NEW e, e = Emission(list), ~e.raised,
         NEW s, s = Seqs!FoldLeft(Apply, EmptySchema, list)
  PROVE  e.schema = s
<1>1. PICK sorted : sorted = Reordered(list)
    OBVIOUS
<1>2. PICK t : t = Seqs!FoldLeft(Apply, EmptySchema, sorted)
    OBVIOUS
<1>3. e = Emitted(sorted)
    BY <1>1 DEF Emission, Reordered
<1>4. Grounded(sorted)
    BY <1>1, ReorderedGrounded
<1>5. /\ e.schema = t /\ ~t.broken
      /\ \A p \in DOMAIN sorted : Wants(sorted[p]) \subseteq Left(Before(sorted, p - 1))
    BY <1>2, <1>3, <1>4, EmittedIfWanted
<1>6. \A k \in Nat : k < Len(list) /\ list[k + 1].type = "DropTable" =>
                     list[k + 1].id \in Left(Before(list, k))
    BY <1>1, <1>5, TableDroppedOnce
<1>7. ~s.broken
    BY <1>6, FoldNotBroken
<1>8. Len(list) = Len(sorted)
    BY <1>1, ReorderedPlaces
<1>9. Explained(Before(list, Len(list)), s) /\ Written(list, Len(list), s.objects)
    BY <1>7, FoldIsWritten
<1>10. Explained(Before(sorted, Len(list)), t) /\ Written(sorted, Len(list), t.objects)
    BY <1>2, <1>4, <1>5, <1>8, FoldIsWritten
<1>11. s = t
    BY <1>1, <1>5, <1>7, <1>9, <1>10, ReorderedSameSchema
<1>. QED
    BY <1>5, <1>11
=============================================================================
