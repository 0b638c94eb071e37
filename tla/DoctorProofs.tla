---------------------------- MODULE DoctorProofs ----------------------------
(***************************************************************************)
(* The item files under commands, crashes and doctors, from any two files  *)
(* that share at most one identifier and for any number of lines, tasks,   *)
(* processes and crashes.  DoctorInv is inductive; the properties of       *)
(* ItemFile and Doctor follow from it.                                     *)
(***************************************************************************)
EXTENDS Doctor, FiniteSetTheorems, TLAPS

-----------------------------------------------------------------------------
(***************************************************************************)
(* Lines.                                                                  *)
(***************************************************************************)
(* What has an item's text has an identifier, and an item's fields. *)
LEMMA LineFields ==
  ASSUME NEW l \in Line
  PROVE  /\ l.kind \in {"record", "foreign", "identity", "misnamed",
                         "fragment", "garbled", "header"}
         /\ l.kind \in {"record", "foreign", "identity"} => l.id \in Ids
         /\ l.kind = "misnamed" => l.id = BadId
         /\ l.kind \in {"record", "foreign", "misnamed"} =>
              /\ l.item \in Item
              /\ l = [kind |-> l.kind, id |-> l.id, item |-> l.item]
         /\ l # None
<1>1. l # None
  BY NoneIsNoLine
<1>2. CASE l \in {Record(i, item) : i \in Ids, item \in Item}
  BY <1>1, <1>2 DEF Record
<1>3. CASE l \in {Foreign(i, item) : i \in Ids, item \in Item}
  BY <1>1, <1>3 DEF Foreign
<1>4. CASE l \in {Identity(i) : i \in Ids}
  BY <1>1, <1>4 DEF Identity
<1>5. CASE l \in {Misnamed(item) : item \in Item}
  BY <1>1, <1>5 DEF Misnamed
<1>6. CASE l \in {Fragment, Garbled, BadHeader}
  BY <1>1, <1>6 DEF Fragment, Garbled, BadHeader
<1> QED
  BY <1>2, <1>3, <1>4, <1>5, <1>6 DEF Line

(* A record is a line. *)
LEMMA RecordIsLine ==
  ASSUME NEW i \in Ids, NEW item \in Item
  PROVE  /\ Record(i, item) \in Line
         /\ Record(i, item).kind = "record"
         /\ Record(i, item).id = i
         /\ Record(i, item).item = item
  BY DEF Line, Record

(* The fields of an item. *)
LEMMA ItemFields ==
  ASSUME NEW item \in Item
  PROVE  /\ item.dependencies \in SUBSET Ids
         /\ item.parent \in Ids \cup {None}
         /\ ApplyDone(item) \in Item
<1>1. {"todo", "doing", "done", "blocked"} \subseteq Status
  BY DEF Status
<1> QED
  BY <1>1 DEF Item, ApplyDone

LEMMA NewItemFields ==
  ASSUME NEW deps \in SUBSET Ids
  PROVE  /\ NewItem(deps, None) \in Item
         /\ NewItem(deps, None).dependencies = deps
  BY DEF NewItem, Item, Status

(* Identifiers of a finite file are unique when no two lines share one:    *)
(* the comparison of two numbers in validate_item_ids decides it.          *)
LEMMA UniqueMeansInjective ==
  ASSUME NEW S, IsFiniteSet(S)
  PROVE  UniqueIds(S) <=> \A l, m \in S : l.id = m.id => l = m
<1> DEFINE f == [l \in S |-> l.id]
<1>1. f \in Surjection(S, IdsOf(S))
  BY DEF Surjection, IdsOf
<1>2. Cardinality(IdsOf(S)) = Cardinality(S) <=> f \in Injection(S, IdsOf(S))
  BY ONLY <1>1, FS_Surjection, IsFiniteSet(S)
<1>3. f \in Injection(S, IdsOf(S)) <=> \A l, m \in S : l.id = m.id => l = m
  BY DEF Injection, IsInjective, IdsOf
<1> QED
  BY <1>2, <1>3 DEF UniqueIds

(* Sets with at most one member. *)
LEMMA AtMostOneMember ==
  ASSUME NEW S, IsFiniteSet(S)
  PROVE  Cardinality(S) <= 1 <=> \A x, y \in S : x = y
<1>1. CASE S = {}
  BY <1>1, FS_EmptySet
<1>2. CASE S # {}
  <2>1. PICK x : x \in S
    BY <1>2
  <2>2. ASSUME \A y, z \in S : y = z PROVE Cardinality(S) <= 1
    <3>1. S = {x}
      BY <2>1, <2>2
    <3> QED
      BY <3>1, FS_Singleton
  <2>3. ASSUME Cardinality(S) <= 1, NEW y \in S PROVE y = x
    <3>1. IsFiniteSet({x}) /\ Cardinality({x}) = 1 /\ {x} \in SUBSET S
      BY <2>1, FS_Singleton
    <3>2. Cardinality(S) \in Nat /\ Cardinality({x}) <= Cardinality(S)
      BY <3>1, FS_Subset, FS_CardinalityType
    <3>3. Cardinality(S) = Cardinality({x})
      BY <3>1, <3>2, <2>3
    <3>4. S = {x}
      BY <3>1, <3>3, FS_Subset
    <3> QED
      BY <3>4
  <2> QED
    BY <2>2, <2>3
<1> QED
  BY <1>1, <1>2

(* Finite sets of lines. *)
LEMMA LinesClosed ==
  ASSUME NEW S \in Lines
  PROVE  /\ S \subseteq Line
         /\ IsFiniteSet(S)
         /\ \A T \in SUBSET S : T \in Lines
         /\ \A l \in Line : S \cup {l} \in Lines
         /\ IsFiniteSet(IdsOf(S))
<1>1. S \subseteq Line /\ IsFiniteSet(S)
  BY DEF Lines
<1>2. \A T \in SUBSET S : IsFiniteSet(T)
  BY <1>1, FS_Subset
<1>3. \A l : IsFiniteSet(S \cup {l})
  BY <1>1, FS_AddElement
<1>4. [l \in S |-> l.id] \in Surjection(S, IdsOf(S))
  BY DEF Surjection, IdsOf
<1>5. IsFiniteSet(IdsOf(S))
  BY ONLY <1>1, <1>4, FS_Surjection
<1> QED
  BY <1>1, <1>2, <1>3, <1>5 DEF Lines

LEMMA EmptyLines == {} \in Lines
  BY FS_EmptySet DEF Lines

-----------------------------------------------------------------------------
(***************************************************************************)
(* The repairs.                                                            *)
(***************************************************************************)
(* A line of an item with other dependencies or without a parent. *)
LEMMA LineEdit ==
  ASSUME NEW l \in Line, l.kind \in {"record", "foreign", "misnamed"}, NEW S
  PROVE  LET d == [l EXCEPT !.item.dependencies = @ \cap S]
             o == [l EXCEPT !.item.parent = None]
         IN  /\ d \in Line /\ d.kind = l.kind /\ d.id = l.id
             /\ d.item.dependencies = l.item.dependencies \cap S
             /\ d.item.parent = l.item.parent
             /\ o \in Line /\ o.kind = l.kind /\ o.id = l.id
             /\ o.item.dependencies = l.item.dependencies
             /\ o.item.parent = None
<1> DEFINE d == [l EXCEPT !.item.dependencies = @ \cap S]
           o == [l EXCEPT !.item.parent = None]
           di == [l.item EXCEPT !.dependencies = @ \cap S]
           oi == [l.item EXCEPT !.parent = None]
<1>1. /\ l.item \in Item
      /\ IF l.kind = "misnamed" THEN l.id = BadId ELSE l.id \in Ids
      /\ l = [kind |-> l.kind, id |-> l.id, item |-> l.item]
  BY LineFields
<1>2. /\ di \in Item /\ di.dependencies = l.item.dependencies \cap S
      /\ di.parent = l.item.parent
      /\ oi \in Item /\ oi.dependencies = l.item.dependencies
      /\ oi.parent = None
  BY <1>1 DEF Item
<1>3. d = [kind |-> l.kind, id |-> l.id, item |-> di]
  BY <1>1
<1>4. o = [kind |-> l.kind, id |-> l.id, item |-> oi]
  BY <1>1
<1>5. /\ [kind |-> l.kind, id |-> l.id, item |-> di] \in Line
      /\ [kind |-> l.kind, id |-> l.id, item |-> oi] \in Line
  <2> HIDE DEF di, oi
  <2>1. CASE l.kind = "record"
    BY <1>1, <1>2, <2>1 DEF Line, Record
  <2>2. CASE l.kind = "foreign"
    BY <1>1, <1>2, <2>2 DEF Line, Foreign
  <2>3. CASE l.kind = "misnamed"
    BY <1>1, <1>2, <2>3 DEF Line, Misnamed
  <2> QED
    BY <2>1, <2>2, <2>3
<1> HIDE DEF di, oi, d, o
<1>6. /\ d \in Line /\ d.kind = l.kind /\ d.id = l.id /\ d.item = di
      /\ o \in Line /\ o.kind = l.kind /\ o.id = l.id /\ o.item = oi
  BY <1>3, <1>4, <1>5
<1>7. /\ d \in Line /\ d.kind = l.kind /\ d.id = l.id
      /\ d.item.dependencies = l.item.dependencies \cap S
      /\ d.item.parent = l.item.parent
      /\ o \in Line /\ o.kind = l.kind /\ o.id = l.id
      /\ o.item.dependencies = l.item.dependencies
      /\ o.item.parent = None
  BY <1>2, <1>6
<1> QED
  BY <1>7 DEF d, o

(* What the doctor makes of tasks.jsonl: every item that archive.jsonl     *)
(* does not have, with the dependencies that are listed somewhere.         *)
Cleared(t, a, new) ==
  /\ \A m \in new :
        /\ m.kind \in {"record", "foreign", "misnamed"}
        /\ m.id \notin IdsOf(ItemsIn(a))
        /\ \E l \in ItemsIn(t) :
              /\ m.id = l.id /\ m.kind = l.kind
              /\ m.item.dependencies = l.item.dependencies \cap Listed(t, a)
  /\ \A l \in ItemsIn(t) : l.id \notin IdsOf(ItemsIn(a)) =>
        \E m \in new :
           /\ m.id = l.id /\ m.kind = l.kind
           /\ m.item.dependencies = l.item.dependencies \cap Listed(t, a)

LEMMA FixedActiveFacts ==
  ASSUME NEW t \in Lines, NEW a \in Lines
  PROVE  /\ FixedActive(t, a) \in Lines
         /\ Cleared(t, a, FixedActive(t, a))
         /\ UniqueIds(ItemsIn(t)) => UniqueIds(FixedActive(t, a))
<1> DEFINE kept == {k \in ItemsIn(t) : k.id \notin ItemsInBoth(t, a)}
           Fix(l) == [l EXCEPT !.item.dependencies = @ \cap Listed(t, a)]
           f == [l \in kept |-> Fix(l)]
<1>1. FixedActive(t, a) = {Fix(l) : l \in kept}
  BY DEF FixedActive
<1>2. /\ kept \subseteq ItemsIn(t) /\ ItemsIn(t) \subseteq t
      /\ \A l \in ItemsIn(t) : l \in Line /\ l.kind \in {"record", "foreign", "misnamed"}
      /\ \A l \in ItemsIn(t) : l \in kept <=> l.id \notin IdsOf(ItemsIn(a))
      /\ IsFiniteSet(kept) /\ IsFiniteSet(ItemsIn(t))
  <2>1. /\ kept \subseteq ItemsIn(t) /\ ItemsIn(t) \subseteq t
        /\ \A l \in ItemsIn(t) : l \in Line /\ l.kind \in {"record", "foreign", "misnamed"}
    BY LinesClosed DEF ItemsIn, OfKind
  <2>2. \A l \in ItemsIn(t) : l \in kept <=> l.id \notin IdsOf(ItemsIn(a))
    BY DEF ItemsInBoth, IdsOf
  <2>3. IsFiniteSet(kept) /\ IsFiniteSet(ItemsIn(t))
    BY <2>1, LinesClosed, FS_Subset
  <2> QED
    BY <2>1, <2>2, <2>3
<1>3. \A l \in kept :
         /\ Fix(l) \in Line /\ Fix(l).kind = l.kind /\ Fix(l).id = l.id
         /\ Fix(l).item.dependencies = l.item.dependencies \cap Listed(t, a)
  <2> TAKE l \in kept
  <2>1. l \in Line /\ l.kind \in {"record", "foreign", "misnamed"}
    BY <1>2
  <2> HIDE DEF kept
  <2> QED
    BY <2>1, LineEdit
<1> HIDE DEF kept, Fix
<1>4. f \in Surjection(kept, FixedActive(t, a))
  BY <1>1 DEF Surjection
<1>5. IsFiniteSet(FixedActive(t, a))
  BY ONLY <1>2, <1>4, FS_Surjection
<1>6. FixedActive(t, a) \in Lines
  BY <1>1, <1>3, <1>5 DEF Lines
<1>7. \A m \in FixedActive(t, a) :
         /\ m.kind \in {"record", "foreign", "misnamed"}
         /\ m.id \notin IdsOf(ItemsIn(a))
         /\ \E l \in ItemsIn(t) :
               /\ m.id = l.id /\ m.kind = l.kind
               /\ m.item.dependencies = l.item.dependencies \cap Listed(t, a)
  BY <1>1, <1>2, <1>3
<1>8. \A l \in ItemsIn(t) : l.id \notin IdsOf(ItemsIn(a)) =>
         \E m \in FixedActive(t, a) :
            /\ m.id = l.id /\ m.kind = l.kind
            /\ m.item.dependencies = l.item.dependencies \cap Listed(t, a)
  BY <1>1, <1>2, <1>3
<1>9. UniqueIds(ItemsIn(t)) => UniqueIds(FixedActive(t, a))
  <2>1. SUFFICES ASSUME \A l, m \in ItemsIn(t) : l.id = m.id => l = m
                 PROVE  \A l, m \in FixedActive(t, a) : l.id = m.id => l = m
    BY <1>2, <1>5, UniqueMeansInjective
  <2> QED
    BY <2>1, <1>1, <1>2, <1>3
<1>10. Cleared(t, a, FixedActive(t, a))
  BY ONLY <1>7, <1>8 DEF Cleared
<1> QED
  BY <1>6, <1>9, <1>10

(* What the doctor makes of archive.jsonl: the same items, of which none   *)
(* has a dangling parent.                                                  *)
LEMMA FixedArchiveFacts ==
  ASSUME NEW t \in Lines, NEW a \in Lines
  PROVE  /\ FixedArchive(t, a) \in Lines
         /\ ItemsIn(FixedArchive(t, a)) = FixedArchive(t, a)
         /\ Identified(FixedArchive(t, a)) \subseteq FixedArchive(t, a)
         /\ "misnamed" \notin Kinds(a) =>
               /\ Identified(FixedArchive(t, a)) = FixedArchive(t, a)
               /\ Kinds(FixedArchive(t, a)) \subseteq {"record", "foreign"}
         /\ IdsOf(FixedArchive(t, a)) = IdsOf(ItemsIn(a))
         /\ IdsOf(ReadArchive(FixedArchive(t, a))) = IdsOf(ReadArchive(a))
         /\ \A m \in FixedArchive(t, a) : m.item.parent \in Listed(t, a) \cup {None}
         /\ UniqueIds(ItemsIn(a)) => UniqueIds(FixedArchive(t, a))
<1> DEFINE Fix(l) == IF l \in OrphanedParents(t, a) THEN [l EXCEPT !.item.parent = None] ELSE l
           f == [l \in ItemsIn(a) |-> Fix(l)]
<1>1. FixedArchive(t, a) = {Fix(l) : l \in ItemsIn(a)}
  BY DEF FixedArchive
<1>2. /\ ItemsIn(a) \subseteq a
      /\ \A l \in ItemsIn(a) : l \in Line /\ l.kind \in {"record", "foreign", "misnamed"}
      /\ IsFiniteSet(ItemsIn(a))
  <2>1. /\ ItemsIn(a) \subseteq a
        /\ \A l \in ItemsIn(a) : l \in Line /\ l.kind \in {"record", "foreign", "misnamed"}
    BY LinesClosed DEF ItemsIn, OfKind
  <2> QED
    BY <2>1, LinesClosed, FS_Subset
<1>3. \A l \in ItemsIn(a) :
         /\ Fix(l) \in Line /\ Fix(l).kind = l.kind /\ Fix(l).id = l.id
         /\ Fix(l).item.parent \in Listed(t, a) \cup {None}
  <2> TAKE l \in ItemsIn(a)
  <2>1. CASE l \in OrphanedParents(t, a)
    BY <2>1, <1>2, LineEdit
  <2>2. CASE l \notin OrphanedParents(t, a)
    BY <2>2, <1>2 DEF OrphanedParents, DanglingParents
  <2> QED
    BY <2>1, <2>2
<1> HIDE DEF Fix
<1>4. f \in Surjection(ItemsIn(a), FixedArchive(t, a))
  BY <1>1 DEF Surjection
<1>5. IsFiniteSet(FixedArchive(t, a))
  BY ONLY <1>2, <1>4, FS_Surjection
<1>6. FixedArchive(t, a) \in Lines
  BY <1>1, <1>3, <1>5 DEF Lines
<1>7. \A m \in FixedArchive(t, a) :
         /\ m.kind \in {"record", "foreign", "misnamed"}
         /\ m.item.parent \in Listed(t, a) \cup {None}
  BY <1>1, <1>2, <1>3
<1>8. /\ ItemsIn(FixedArchive(t, a)) = FixedArchive(t, a)
      /\ Identified(FixedArchive(t, a)) \subseteq FixedArchive(t, a)
      /\ "misnamed" \notin Kinds(a) =>
            /\ Identified(FixedArchive(t, a)) = FixedArchive(t, a)
            /\ Kinds(FixedArchive(t, a)) \subseteq {"record", "foreign"}
  <2>1. /\ ItemsIn(FixedArchive(t, a)) = FixedArchive(t, a)
        /\ Identified(FixedArchive(t, a)) \subseteq FixedArchive(t, a)
    BY <1>7 DEF ItemsIn, Identified, OfKind
  <2>2. ASSUME "misnamed" \notin Kinds(a)
        PROVE  \A m \in FixedArchive(t, a) : m.kind \in {"record", "foreign"}
    <3>1. \A l \in ItemsIn(a) : l.kind \in {"record", "foreign"}
      BY <2>2 DEF ItemsIn, OfKind, Kinds
    <3> QED
      BY <3>1, <1>1, <1>3
  <2> QED
    BY <2>1, <2>2 DEF Identified, OfKind, Kinds
<1>9. IdsOf(FixedArchive(t, a)) = IdsOf(ItemsIn(a))
  BY <1>1, <1>3 DEF IdsOf
<1>10. IdsOf(ReadArchive(FixedArchive(t, a))) = IdsOf(ReadArchive(a))
  <2>1. ReadArchive(a) \subseteq ItemsIn(a)
    BY DEF ReadArchive, ItemsIn, OfKind
  <2>2. \A l \in ItemsIn(a) : l \in ReadArchive(a) <=> l.kind \in {"record", "misnamed"}
    BY <1>2 DEF ReadArchive, OfKind
  <2>3. ReadArchive(FixedArchive(t, a)) = {Fix(l) : l \in ReadArchive(a)}
    BY <2>1, <2>2, <1>1, <1>3 DEF ReadArchive, OfKind
  <2> QED
    BY <2>1, <2>3, <1>3 DEF IdsOf
<1>11. UniqueIds(ItemsIn(a)) => UniqueIds(FixedArchive(t, a))
  <2>1. SUFFICES ASSUME \A l, m \in ItemsIn(a) : l.id = m.id => l = m
                 PROVE  \A l, m \in FixedArchive(t, a) : l.id = m.id => l = m
    BY <1>2, <1>5, UniqueMeansInjective
  <2> QED
    BY <2>1, <1>1, <1>3
<1> QED
  BY <1>6, <1>7, <1>8, <1>9, <1>10, <1>11

-----------------------------------------------------------------------------
(***************************************************************************)
(* What all steps have in common.                                          *)
(***************************************************************************)
LEMMA IdleTypes == NoJob \in Commit /\ NoScan \in Repair
  BY EmptyLines DEF NoJob, NoScan, Commit, Repair

(* The lines of archive.jsonl, whether or not a newline ends the last one. *)
LEMMA ArchiveOf ==
  ASSUME NEW a \in Lines, NEW l \in Line \cup {None}
  PROVE  /\ a \cup ({l} \ {None}) \in Lines
         /\ l = None => a \cup ({l} \ {None}) = a
         /\ l # None => a \cup ({l} \ {None}) = a \cup {l}
<1>1. CASE l = None
  BY <1>1
<1>2. CASE l # None
  BY <1>2, LinesClosed
<1> QED
  BY <1>1, <1>2

LEMMA ArchiveLinesType ==
  ASSUME DoctorTypeOK
  PROVE  /\ ArchiveLines \in Lines
         /\ last = None => ArchiveLines = archive
         /\ last # None => last \in ArchiveLines /\ last \in Line
  BY ArchiveOf DEF DoctorTypeOK, ArchiveLines

(* Ending the last line changes nothing for a reader. *)
LEMMA EndLastLineEffect ==
  ASSUME DoctorTypeOK, last # None, EndLastLine
  PROVE  /\ ArchiveLines' = ArchiveLines
         /\ archive' \in Lines
         /\ last' = None
         /\ tasks' = tasks
<1>1. last \in Line /\ archive \in Lines
  BY DEF DoctorTypeOK
<1> QED
  BY <1>1, LinesClosed DEF EndLastLine, ArchiveLines

(* Text appended to a file that ends with a newline is a line of its own. *)
LEMMA AppendTextEffect ==
  ASSUME DoctorTypeOK, last = None, NEW text \in Line, AppendText(text)
  PROVE  /\ ArchiveLines' = ArchiveLines \cup {text}
         /\ archive' = archive /\ archive' \in Lines
         /\ last' = text
         /\ tasks' = tasks
  BY LineFields DEF DoctorTypeOK, AppendText, ArchiveLines

(* Who does not have the lock neither commits nor repairs. *)
LEMMA OthersWait ==
  ASSUME DoctorInv, NEW q \in Procs, lock # q
  PROVE  /\ job[q].stage = "idle"
         /\ scan[q].stage \notin {"save", "rewrite"}
  BY DEF DoctorInv, JobOK, ScanOK, Repairs, InProgress

(* What the holder of the lock writes is no concern of the others. *)
LEMMA OthersKeep ==
  ASSUME DoctorInv, NEW p \in Procs, lock \in {None, p},
         \A q \in Procs \ {p} : job'[q] = job[q] /\ scan'[q] = scan[q]
  PROVE  \A q \in Procs \ {p} : JobOK(q)' /\ ScanOK(q)'
<1> SUFFICES ASSUME NEW q \in Procs \ {p}
             PROVE  JobOK(q)' /\ ScanOK(q)'
  OBVIOUS
<1>1. lock # q
  BY ItemFileAssumption
<1>2. job[q].stage = "idle" /\ scan[q].stage \notin {"save", "rewrite"}
  BY <1>1, OthersWait
<1>3. job'[q].stage = "idle" /\ scan'[q].stage \notin {"save", "rewrite"}
  BY <1>2
<1>4. JobOK(q)'
  BY <1>3 DEF JobOK, InProgress
<1>5. ScanOK(q)'
  BY <1>3 DEF ScanOK, InProgress
<1> QED
  BY <1>4, <1>5

(* A process that ends its command. *)
LEMMA ReleaseIsOK ==
  ASSUME DoctorInv, NEW p \in Procs, lock = p, Release(p),
         \/ ScanAt(p, "idle") /\ UNCHANGED scan
         \/ scan' = [scan EXCEPT ![p] = NoScan],
         tasks' \in Lines, archive' \in Lines, last' \in Line \cup {None}, crashes' \in Nat,
         \A i, j \in Split' : i = j
  PROVE  DoctorInv'
<1>1. job \in [Procs -> Commit] /\ scan \in [Procs -> Repair]
  BY DEF DoctorInv, DoctorTypeOK
<1>2. job'[p] = NoJob /\ scan'[p].stage = "idle"
  BY <1>1 DEF Release, ScanAt, NoScan
<1>3. job' \in [Procs -> Commit] /\ scan' \in [Procs -> Repair]
  BY <1>1, IdleTypes DEF Release
<1>4. DoctorTypeOK'
  BY <1>3 DEF DoctorTypeOK, Release
<1>5. JobOK(p)' /\ ScanOK(p)'
  BY <1>2 DEF JobOK, ScanOK, NoJob, InProgress
<1>6. \A q \in Procs \ {p} : job'[q] = job[q] /\ scan'[q] = scan[q]
  BY <1>1 DEF Release
<1>7. \A q \in Procs \ {p} : JobOK(q)' /\ ScanOK(q)'
  BY <1>6, OthersKeep
<1> QED
  BY <1>4, <1>5, <1>7 DEF DoctorInv

(* A process that goes on: its own part has to be shown. *)
LEMMA HolderIsOK ==
  ASSUME DoctorInv, NEW p \in Procs, lock \in {None, p}, DoctorTypeOK',
         \A q \in Procs \ {p} : job'[q] = job[q] /\ scan'[q] = scan[q],
         JobOK(p)', ScanOK(p)',
         \A i, j \in Split' : i = j
  PROVE  DoctorInv'
<1>1. \A q \in Procs \ {p} : JobOK(q)' /\ ScanOK(q)'
  BY OthersKeep
<1> QED
  BY <1>1 DEF DoctorInv

-----------------------------------------------------------------------------
(***************************************************************************)
(* The beginnings of commits.                                              *)
(***************************************************************************)
(* Nothing is written when a commit begins. *)
LEMMA BeginIsOK ==
  ASSUME DoctorInv, NEW p \in Procs, NEW commit \in Commit, Begin(p, commit),
         scan' \in [Procs -> Repair],
         \A q \in Procs \ {p} : scan'[q] = scan[q],
         JobOK(p)', ScanOK(p)'
  PROVE  DoctorInv'
<1>1. job \in [Procs -> Commit]
  BY DEF DoctorInv, DoctorTypeOK
<1>2. DoctorTypeOK'
  BY <1>1 DEF DoctorInv, DoctorTypeOK, Begin, files
<1>3. \A q \in Procs \ {p} : job'[q] = job[q]
  BY <1>1 DEF Begin
<1>4. \A i, j \in Split' : i = j
  BY DEF DoctorInv, Begin, files, Split, ArchiveLines
<1>5. lock = None
  BY DEF Begin
<1> QED
  BY <1>2, <1>3, <1>4, <1>5, HolderIsOK

(* save_active has checked that its tasks.jsonl and the archive are        *)
(* disjoint.                                                               *)
LEMMA SaveActiveIsOK ==
  ASSUME DoctorInv, NEW p \in Procs, NEW new \in Lines, NEW removes \in SUBSET Ids,
         ScanAt(p, "idle"), UNCHANGED scan, SaveActive(p, new, removes),
         IdsOf(ReadArchive(tasks)) \ IdsOf(ReadArchive(new)) \subseteq removes
  PROVE  DoctorInv'
<1> DEFINE commit == [NoJob EXCEPT !.stage = "tasks", !.new = new, !.removes = removes]
<1>1. /\ commit \in Commit
      /\ commit.stage = "tasks" /\ commit.new = new /\ commit.removes = removes
  <2>1. commit = [NoJob EXCEPT !.stage = "tasks", !.new = new, !.removes = removes]
    OBVIOUS
  <2> HIDE DEF commit
  <2> QED
    BY <2>1 DEF NoJob, Commit
<1>2. Begin(p, commit)
  BY DEF SaveActive
<1>3. job'[p] = commit /\ lock' = p /\ UNCHANGED files
  BY DEF SaveActive, Begin, DoctorInv, DoctorTypeOK
<1>4. IdsOf(new) \cap ArchiveIds(ArchiveLines) = {}
  BY DEF SaveActive, ValidateActiveWrite, DisjointIds
<1> HIDE DEF commit
<1>5. JobOK(p)'
  BY <1>1, <1>3, <1>4 DEF JobOK, InProgress, Saving, files, ArchiveLines
<1>6. ScanOK(p)'
  BY DEF ScanOK, ScanAt
<1> QED
  BY <1>1, <1>2, <1>5, <1>6, BeginIsOK DEF DoctorInv, DoctorTypeOK

LEMMA AddIsOK ==
  ASSUME DoctorInv, NEW p \in Procs, NEW i \in Ids, NEW deps \in SUBSET IdsOf(tasks),
         ScanAt(p, "idle"), UNCHANGED scan, Add(p, i, deps)
  PROVE  DoctorInv'
<1>1. /\ tasks \in Lines /\ AllRecords(tasks)
      /\ SaveActive(p, tasks \cup {Record(i, NewItem(deps, None))}, {})
  BY DEF Add, DoctorInv, DoctorTypeOK
<1>2. deps \in SUBSET Ids
  <2>1. \A l \in tasks : l.kind = "record" /\ l \in Line
    <3>1. "misnamed" \notin Kinds(tasks)
      BY <1>1 DEF SaveActive, ValidateActiveWrite, ValidItemIds, Kinds
    <3> QED
      BY <3>1, <1>1, LinesClosed DEF AllRecords, Kinds
  <2>2. \A l \in tasks : l.id \in Ids
    BY <2>1, LineFields
  <2> QED
    BY <2>2 DEF IdsOf
<1>3. tasks \cup {Record(i, NewItem(deps, None))} \in Lines
  BY <1>1, <1>2, NewItemFields, RecordIsLine, LinesClosed
<1>4. IdsOf(ReadArchive(tasks))
        \ IdsOf(ReadArchive(tasks \cup {Record(i, NewItem(deps, None))})) \subseteq {}
  BY DEF IdsOf, ReadArchive, OfKind
<1> QED
  BY <1>1, <1>3, <1>4, SaveActiveIsOK

LEMMA RmIsOK ==
  ASSUME DoctorInv, NEW p \in Procs, NEW i \in Ids,
         ScanAt(p, "idle"), UNCHANGED scan, Rm(p, i)
  PROVE  DoctorInv'
<1> DEFINE new == {l \in tasks : l.id # i}
<1>1. new \in Lines /\ SaveActive(p, new, {i})
  BY LinesClosed DEF Rm, DoctorInv, DoctorTypeOK
<1>2. IdsOf(ReadArchive(tasks)) \ IdsOf(ReadArchive(new)) \subseteq {i}
  BY DEF IdsOf, ReadArchive, OfKind
<1> HIDE DEF new
<1> QED
  BY <1>1, <1>2, SaveActiveIsOK

(* A done has checked that the archive has neither its item nor another *)
(* one of tasks.jsonl.                                                  *)
LEMMA DoneIsOK ==
  ASSUME DoctorInv, NEW p \in Procs, NEW l \in tasks,
         ScanAt(p, "idle"), UNCHANGED scan, Done(p, l)
  PROVE  DoctorInv'
<1> DEFINE line == Record(l.id, ApplyDone(l.item))
           new == tasks \ {l}
           commit == [NoJob EXCEPT !.stage = AppendStage, !.new = new, !.line = line]
<1>1. /\ AllRecords(tasks) /\ ValidateArchiveMove(new, l.id) /\ Begin(p, commit)
      /\ tasks \in Lines
  BY DEF Done, DoctorInv, DoctorTypeOK
<1>2. l \in Line /\ l.kind = "record"
  <2>1. l \in Line /\ l.kind \in {"record", "misnamed"} /\ l.id \in Ids
    BY <1>1, LinesClosed DEF AllRecords, Kinds, ValidateArchiveMove
  <2> QED
    BY <2>1, LineFields, ItemFileAssumption
<1>3. line \in Line /\ line.kind = "record" /\ line.id = l.id
  BY <1>2, LineFields, ItemFields, RecordIsLine
<1>4. new \in Lines /\ new \subseteq tasks /\ tasks \ new = {l}
  BY <1>1, LinesClosed
<1> HIDE DEF line, new
<1>5. \/ AppendStage = "record" /\ last = None
      \/ AppendStage = "newline" /\ last # None
  BY DEF AppendStage
<1>6. /\ commit \in Commit
      /\ commit.stage = AppendStage /\ commit.new = new /\ commit.line = line
  <2>1. commit = [NoJob EXCEPT !.stage = AppendStage, !.new = new, !.line = line]
    OBVIOUS
  <2>2. AppendStage \in {"newline", "record"}
    BY <1>5
  <2> HIDE DEF commit
  <2> QED
    BY <2>1, <2>2, <1>3, <1>4 DEF NoJob, Commit
<1> HIDE DEF commit
<1>7. job'[p] = commit /\ lock' = p /\ UNCHANGED files
  BY <1>1 DEF Begin, DoctorInv, DoctorTypeOK
<1>8. Archiving(p)'
  <2>1. line \in Line \ {Fragment, Garbled}
    BY <1>3 DEF Fragment, Garbled
  <2>2. IdsOf(tasks \ new) = {line.id}
    BY <1>3, <1>4 DEF IdsOf
  <2>3. /\ line.id \notin IdsOf(new)
        /\ (IdsOf(new) \cup {line.id}) \cap ArchiveIds(ArchiveLines) = {}
    BY <1>1, <1>3 DEF ValidateArchiveMove, DisjointIds
  <2>4. ArchiveIds(ArchiveLines \ {line}) \subseteq ArchiveIds(ArchiveLines)
    BY DEF ArchiveIds, Identified, OfKind, IdsOf
  <2>5. ArchiveLines' = ArchiveLines /\ tasks' = tasks
    BY <1>7 DEF files, ArchiveLines
  <2>6. job'[p].new = new /\ job'[p].line = line
    BY <1>6, <1>7
  <2> QED
    BY <2>1, <2>2, <2>3, <2>4, <2>5, <2>6, <1>3, <1>4 DEF Archiving
<1>9. JobOK(p)'
  <2>1. job'[p].stage = AppendStage
    BY <1>6, <1>7
  <2>2. last' = last
    BY <1>7 DEF files
  <2> QED
    BY <2>1, <2>2, <1>5, <1>7, <1>8 DEF JobOK, InProgress
<1>10. ScanOK(p)'
  BY DEF ScanOK, ScanAt
<1> QED
  BY <1>1, <1>6, <1>9, <1>10, BeginIsOK DEF DoctorInv, DoctorTypeOK

-----------------------------------------------------------------------------
(***************************************************************************)
(* The writes.                                                             *)
(***************************************************************************)
(* A commit that goes on to its next write. *)
LEMMA OnIsOK ==
  ASSUME DoctorInv, NEW p \in Procs, lock = p, ScanAt(p, "idle"), UNCHANGED scan,
         NEW stage \in {"newline", "record", "end", "tasks"}, On(p, stage),
         tasks' = tasks, archive' \in Lines, last' \in Line \cup {None},
         JobOK(p)', \A i, j \in Split' : i = j
  PROVE  DoctorInv'
<1>1. job \in [Procs -> Commit]
  BY DEF DoctorInv, DoctorTypeOK
<1>2. [job[p] EXCEPT !.stage = stage] \in Commit
  BY <1>1 DEF Commit
<1>3. job' = [job EXCEPT ![p] = [job[p] EXCEPT !.stage = stage]]
  BY DEF On
<1>4. job' \in [Procs -> Commit] /\ \A q \in Procs \ {p} : job'[q] = job[q]
  BY <1>1, <1>2, <1>3
<1>5. DoctorTypeOK'
  BY <1>4 DEF DoctorInv, DoctorTypeOK, On
<1>6. ScanOK(p)'
  BY DEF ScanOK, ScanAt
<1> QED
  BY <1>4, <1>5, <1>6, HolderIsOK

(* What a commit before its rewrite of tasks.jsonl has established. *)
LEMMA CommitFacts ==
  ASSUME DoctorInv, NEW p \in Procs
  PROVE  /\ job[p] \in Commit /\ job[p].new \in Lines
         /\ job[p].stage \in {"newline", "record", "end"} => Archiving(p)
         /\ job[p].stage = "newline" => last # None
         /\ job[p].stage = "record" => last = None
         /\ job[p].stage = "end" => last = job[p].line
         /\ job[p].stage = "tasks" => Saving(p)
         /\ \A s : On(p, s) => /\ job'[p].stage = s
                               /\ job'[p].new = job[p].new
                               /\ job'[p].line = job[p].line
                               /\ job'[p].removes = job[p].removes
                               /\ lock' = lock
  BY DEF DoctorInv, DoctorTypeOK, JobOK, Commit, On

LEMMA WriteLeadingNewlineIsOK ==
  ASSUME DoctorInv, NEW p \in Procs, ScanAt(p, "idle"), UNCHANGED scan,
         WriteLeadingNewline(p)
  PROVE  DoctorInv'
<1>1. lock = p /\ job[p].stage = "newline" /\ EndLastLine /\ On(p, "record")
  BY DEF WriteLeadingNewline, At
<1>2. Archiving(p) /\ last # None /\ DoctorTypeOK
  BY <1>1, CommitFacts DEF DoctorInv
<1>3. ArchiveLines' = ArchiveLines /\ archive' \in Lines /\ last' = None /\ tasks' = tasks
  BY <1>1, <1>2, EndLastLineEffect
<1>4. /\ job'[p].stage = "record" /\ job'[p].new = job[p].new
      /\ job'[p].line = job[p].line /\ lock' = p
  BY <1>1, CommitFacts
<1>5. Archiving(p)'
  BY <1>2, <1>3, <1>4 DEF Archiving
<1>6. JobOK(p)'
  BY <1>3, <1>4, <1>5 DEF JobOK, InProgress
<1>7. \A i, j \in Split' : i = j
  BY <1>3 DEF DoctorInv, Split
<1> QED
  BY <1>1, <1>3, <1>6, <1>7, OnIsOK

(* The append splits the item that the done is about, and no other. *)
LEMMA WriteRecordIsOK ==
  ASSUME DoctorInv, NEW p \in Procs, ScanAt(p, "idle"), UNCHANGED scan,
         WriteRecord(p)
  PROVE  DoctorInv'
<1> DEFINE line == job[p].line
           new == job[p].new
<1>1. lock = p /\ job[p].stage = "record" /\ AppendText(line) /\ On(p, "end")
  BY DEF WriteRecord, At
<1>2. Archiving(p) /\ last = None /\ DoctorTypeOK /\ line \in Line
  BY <1>1, CommitFacts DEF DoctorInv, Archiving
<1>3. /\ ArchiveLines' = ArchiveLines \cup {line} /\ archive' \in Lines
      /\ last' = line /\ tasks' = tasks
  BY <1>1, <1>2, AppendTextEffect
<1>4. /\ job'[p].stage = "end" /\ job'[p].new = new /\ job'[p].line = line /\ lock' = p
  BY <1>1, CommitFacts
<1>5. Archiving(p)'
  <2>1. ArchiveLines' \ {line} = ArchiveLines \ {line}
    BY <1>3
  <2> QED
    BY <2>1, <1>2, <1>3, <1>4 DEF Archiving
<1>6. JobOK(p)'
  BY <1>3, <1>4, <1>5 DEF JobOK, InProgress
<1>7. Split' \subseteq {line.id}
  <2>1. IdsOf(tasks) \subseteq IdsOf(new) \cup {line.id}
    BY <1>2 DEF Archiving, IdsOf
  <2>2. ArchiveIds(ArchiveLines') \subseteq ArchiveIds(ArchiveLines \ {line}) \cup {line.id}
    BY <1>3 DEF ArchiveIds, Identified, OfKind, IdsOf
  <2>3. IdsOf(new) \cap (ArchiveIds(ArchiveLines \ {line}) \cup {line.id}) = {}
    BY <1>2 DEF Archiving
  <2> QED
    BY <2>1, <2>2, <2>3, <1>3 DEF Split
<1>8. \A i, j \in Split' : i = j
  BY <1>7
<1> QED
  BY <1>1, <1>2, <1>3, <1>6, <1>8, OnIsOK

LEMMA WriteNewlineIsOK ==
  ASSUME DoctorInv, NEW p \in Procs, ScanAt(p, "idle"), UNCHANGED scan,
         WriteNewline(p)
  PROVE  DoctorInv'
<1> DEFINE line == job[p].line
           new == job[p].new
<1>1. lock = p /\ job[p].stage = "end" /\ EndLastLine /\ On(p, "tasks")
  BY DEF WriteNewline, At
<1>2. /\ Archiving(p) /\ last = line /\ last # None /\ DoctorTypeOK
      /\ line \in Line /\ line.kind = "record"
  BY <1>1, CommitFacts, LineFields DEF DoctorInv, Archiving
<1>3. ArchiveLines' = ArchiveLines /\ archive' \in Lines /\ last' = None /\ tasks' = tasks
  BY <1>1, <1>2, EndLastLineEffect
<1>4. /\ job'[p].stage = "tasks" /\ job'[p].new = new /\ lock' = p
  BY <1>1, CommitFacts
<1>5. line \in ReadArchive(ArchiveLines)
  BY <1>2, ArchiveLinesType DEF ReadArchive, OfKind
<1>6. IdsOf(new) \cap ArchiveIds(ArchiveLines) = {}
  <2>1. ArchiveIds(ArchiveLines) \subseteq ArchiveIds(ArchiveLines \ {line}) \cup {line.id}
    BY DEF ArchiveIds, Identified, OfKind, IdsOf
  <2> QED
    BY <2>1, <1>2 DEF Archiving
<1>7. IdsOf(ReadArchive(tasks)) \ IdsOf(ReadArchive(new))
        \subseteq IdsOf(ReadArchive(ArchiveLines))
  <2>1. IdsOf(ReadArchive(tasks)) \ IdsOf(ReadArchive(new)) \subseteq IdsOf(tasks \ new)
    BY DEF IdsOf, ReadArchive, OfKind
  <2>2. line.id \in IdsOf(ReadArchive(ArchiveLines))
    BY <1>5 DEF IdsOf
  <2> QED
    BY <2>1, <2>2, <1>2 DEF Archiving
<1>8. Saving(p)'
  BY <1>3, <1>4, <1>6, <1>7 DEF Saving
<1>9. JobOK(p)'
  BY <1>4, <1>8 DEF JobOK, InProgress
<1>10. \A i, j \in Split' : i = j
  BY <1>3 DEF DoctorInv, Split
<1> QED
  BY <1>1, <1>3, <1>9, <1>10, OnIsOK

(* The rewrite of tasks.jsonl ends whatever split there was. *)
LEMMA WriteTasksIsOK ==
  ASSUME DoctorInv, NEW p \in Procs, ScanAt(p, "idle"), UNCHANGED scan,
         WriteTasks(p)
  PROVE  DoctorInv'
<1>1. /\ lock = p /\ job[p].stage = "tasks" /\ tasks' = job[p].new /\ Release(p)
      /\ archive' = archive /\ last' = last /\ crashes' = crashes
  BY DEF WriteTasks, At
<1>2. Saving(p) /\ job[p].new \in Lines
  BY <1>1, CommitFacts
<1>3. Split' = {}
  BY <1>1, <1>2 DEF Saving, Split, ArchiveLines
<1>4. /\ tasks' \in Lines /\ archive' \in Lines /\ last' \in Line \cup {None}
      /\ crashes' \in Nat
  BY <1>1, <1>2 DEF DoctorInv, DoctorTypeOK
<1> QED
  BY <1>1, <1>3, <1>4, ReleaseIsOK

(* A process that dies between two writes. *)
LEMMA CrashBetweenWritesIsOK ==
  ASSUME DoctorInv, NEW p \in Procs, CrashBetweenWrites(p),
         \/ ScanAt(p, "idle") /\ UNCHANGED scan
         \/ scan' = [scan EXCEPT ![p] = NoScan]
  PROVE  DoctorInv'
<1>1. /\ lock = p /\ Release(p) /\ UNCHANGED <<tasks, archive, last>>
      /\ crashes' = crashes + 1
  BY DEF CrashBetweenWrites, Crash, files
<1>2. \A i, j \in Split' : i = j
  BY <1>1 DEF DoctorInv, Split, ArchiveLines
<1>3. /\ tasks' \in Lines /\ archive' \in Lines /\ last' \in Line \cup {None}
      /\ crashes' \in Nat
  BY <1>1 DEF DoctorInv, DoctorTypeOK
<1> QED
  BY <1>1, <1>2, <1>3, ReleaseIsOK

(* A piece of a record has no identifier that it could split. *)
LEMMA CrashInRecordIsOK ==
  ASSUME DoctorInv, NEW p \in Procs, NEW piece \in {Fragment, Garbled},
         ScanAt(p, "idle"), UNCHANGED scan, CrashInRecord(p, piece)
  PROVE  DoctorInv'
<1>1. /\ lock = p /\ job[p].stage = "record" /\ Release(p)
      /\ AppendText(piece) /\ crashes' = crashes + 1
  BY DEF CrashInRecord, Crash, At
<1>2. last = None /\ DoctorTypeOK
  BY <1>1, CommitFacts DEF DoctorInv
<1>3. piece \in Line /\ piece.kind \in {"fragment", "garbled"}
  BY DEF Line, Fragment, Garbled
<1>4. /\ ArchiveLines' = ArchiveLines \cup {piece} /\ archive' \in Lines
      /\ last' = piece /\ tasks' = tasks
  BY <1>1, <1>2, <1>3, AppendTextEffect
<1>5. ArchiveIds(ArchiveLines') = ArchiveIds(ArchiveLines)
  <2>1. Identified(ArchiveLines') = Identified(ArchiveLines)
    BY <1>3, <1>4 DEF Identified, OfKind
  <2> QED
    BY <2>1 DEF ArchiveIds
<1>6. \A i, j \in Split' : i = j
  BY <1>4, <1>5 DEF DoctorInv, Split
<1>7. /\ tasks' \in Lines /\ last' \in Line \cup {None} /\ crashes' \in Nat
  BY <1>1, <1>2, <1>3, <1>4 DEF DoctorTypeOK
<1> QED
  BY <1>1, <1>4, <1>6, <1>7, ReleaseIsOK

-----------------------------------------------------------------------------
(***************************************************************************)
(* The doctor.                                                             *)
(***************************************************************************)
(* Reading disturbs nobody. *)
LEMMA ReadingIsOK ==
  ASSUME DoctorInv, NEW p \in Procs, UNCHANGED fileVars, NEW s \in Repair,
         scan' = [scan EXCEPT ![p] = s], s.stage \in {"idle", "read", "fix"}, ~InProgress(p)
  PROVE  DoctorInv'
<1>1. scan \in [Procs -> Repair]
  BY DEF DoctorInv, DoctorTypeOK
<1>2. DoctorTypeOK'
  BY <1>1 DEF DoctorInv, DoctorTypeOK, fileVars
<1>3. ASSUME NEW q \in Procs, q # p PROVE JobOK(q)' /\ ScanOK(q)'
  <2>1. scan'[q] = scan[q]
    BY <1>1, <1>3
  <2>2. JobOK(q) /\ ScanOK(q)
    BY DEF DoctorInv
  <2>3. JobOK(q)'
    BY <2>1, <2>2 DEF JobOK, InProgress, Archiving, Saving, ScanAt, ArchiveLines, fileVars
  <2>4. ScanOK(q)'
    BY <2>1, <2>2 DEF ScanOK, Repairs, InProgress, ArchiveLines, fileVars
  <2> QED
    BY <2>3, <2>4
<1>4. JobOK(p)' /\ ScanOK(p)'
  <2>1. scan'[p] = s /\ job'[p].stage = "idle"
    BY <1>1 DEF InProgress, fileVars
  <2> QED
    BY <2>1 DEF JobOK, ScanOK, InProgress
<1>5. \A i, j \in Split' : i = j
  BY DEF DoctorInv, Split, ArchiveLines, fileVars
<1> QED
  BY <1>2, <1>3, <1>4, <1>5 DEF DoctorInv

LEMMA DoctorReadTasksIsOK ==
  ASSUME DoctorInv, NEW p \in Procs, DoctorReadTasks(p)
  PROVE  DoctorInv'
<1> DEFINE s == [NoScan EXCEPT !.stage = "read", !.tasks = tasks]
<1>1. /\ ~InProgress(p) /\ scan' = [scan EXCEPT ![p] = s] /\ UNCHANGED fileVars
      /\ tasks \in Lines
  BY DEF DoctorReadTasks, DoctorInv, DoctorTypeOK
<1>2. s \in Repair /\ s.stage = "read"
  BY <1>1, EmptyLines DEF NoScan, Repair
<1> HIDE DEF s
<1> QED
  BY <1>1, <1>2, ReadingIsOK

LEMMA DoctorReadArchiveIsOK ==
  ASSUME DoctorInv, NEW p \in Procs, DoctorReadArchive(p)
  PROVE  DoctorInv'
<1> DEFINE s == [scan[p] EXCEPT !.stage = "fix", !.archive = ArchiveLines]
<1>1. /\ scan[p].stage = "read" /\ UNCHANGED fileVars
      /\ scan' = [scan EXCEPT ![p].stage = "fix", ![p].archive = ArchiveLines]
  BY DEF DoctorReadArchive, ScanAt
<1>2. /\ scan \in [Procs -> Repair] /\ ArchiveLines \in Lines /\ ~InProgress(p)
  BY <1>1, ArchiveLinesType DEF DoctorInv, DoctorTypeOK, ScanOK
<1>3. s \in Repair /\ s.stage = "fix"
  BY <1>2 DEF Repair
<1>4. scan' = [scan EXCEPT ![p] = s]
  BY <1>1, <1>2
<1> HIDE DEF s
<1> QED
  BY <1>1, <1>2, <1>3, <1>4, ReadingIsOK

LEMMA DoctorEndsIsOK ==
  ASSUME DoctorInv, NEW p \in Procs, DoctorEnds(p)
  PROVE  DoctorInv'
<1>1. /\ scan' = [scan EXCEPT ![p] = NoScan] /\ UNCHANGED fileVars
      /\ ~InProgress(p) /\ NoScan.stage = "idle"
  BY DEF DoctorEnds, ScanAt, DoctorInv, ScanOK, NoScan
<1> QED
  BY <1>1, IdleTypes, ReadingIsOK

(* What the doctor has under way when it has got the lock. *)
LEMMA DoctorFixIsOK ==
  ASSUME DoctorInv, NEW p \in Procs, DoctorFix(p)
  PROVE  DoctorInv'
<1> DEFINE t == scan[p].tasks
           a == scan[p].archive
           new == FixedActive(t, a)
           commit == [NoJob EXCEPT !.stage = "tasks", !.new = new, !.removes = {}]
           fresh == t = tasks /\ a = ArchiveLines
           s == [scan[p] EXCEPT !.stage = "save", !.fresh = fresh]
<1>1. /\ scan[p].stage = "fix" /\ ValidateActiveWrite(new) /\ Begin(p, commit)
      /\ scan' = [scan EXCEPT ![p].stage = "save", ![p].fresh = fresh]
  BY DEF DoctorFix, SaveActive, ScanAt
<1>2. scan \in [Procs -> Repair] /\ t \in Lines /\ a \in Lines
  BY DEF DoctorInv, DoctorTypeOK, Repair
<1>3. new \in Lines
  BY <1>2, FixedActiveFacts
<1>4. /\ s \in Repair /\ s.stage = "save" /\ s.tasks = t /\ s.archive = a
      /\ s.fresh = fresh /\ scan' = [scan EXCEPT ![p] = s]
  <2> HIDE DEF fresh
  <2>1. fresh \in BOOLEAN
    BY DEF fresh
  <2>2. scan' = [scan EXCEPT ![p] = s]
    BY <1>1, <1>2
  <2> QED
    BY <2>1, <2>2, <1>2 DEF Repair
<1> HIDE DEF s
<1>5. /\ commit \in Commit
      /\ commit.stage = "tasks" /\ commit.new = new
  <2>1. commit = [NoJob EXCEPT !.stage = "tasks", !.new = new, !.removes = {}]
    OBVIOUS
  <2> HIDE DEF commit, new
  <2> QED
    BY <2>1, <1>3 DEF NoJob, Commit
<1> HIDE DEF commit
<1>6. /\ job'[p] = commit /\ lock' = p /\ scan'[p] = s /\ UNCHANGED files
      /\ \A q \in Procs \ {p} : scan'[q] = scan[q]
      /\ scan' \in [Procs -> Repair]
  BY <1>1, <1>2, <1>4 DEF Begin, DoctorInv, DoctorTypeOK
<1>7. /\ tasks' = tasks /\ ArchiveLines' = ArchiveLines
  BY <1>6 DEF files, ArchiveLines
<1>8. IdsOf(new) \cap ArchiveIds(ArchiveLines) = {}
  BY <1>1 DEF ValidateActiveWrite, DisjointIds
<1>9. JobOK(p)'
  BY <1>4, <1>5, <1>6, <1>7, <1>8 DEF JobOK, InProgress, Saving, ScanAt
<1>10. ScanOK(p)'
  <2>1. ValidItemIds(new) /\ AllRecords(tasks) /\ ArchiveIdsLoad(ArchiveLines)
    BY <1>1 DEF ValidateActiveWrite
  <2>2. FixedActive(scan'[p].tasks, scan'[p].archive) = new
    BY <1>4, <1>6
  <2>3. Repairs(p)'
    BY <2>1, <2>2, <1>4, <1>5, <1>6, <1>7 DEF Repairs
  <2> QED
    BY <2>3, <1>4, <1>6 DEF ScanOK
<1> QED
  BY <1>1, <1>5, <1>6, <1>9, <1>10, BeginIsOK

(* What a repair under way has established. *)
LEMMA RepairFacts ==
  ASSUME DoctorInv, NEW p \in Procs, scan[p].stage \in {"save", "rewrite"}
  PROVE  /\ Repairs(p)
         /\ scan[p].tasks \in Lines /\ scan[p].archive \in Lines
         /\ FixedActive(scan[p].tasks, scan[p].archive) \in Lines
         /\ scan[p].stage = "save" => Saving(p)
<1>1. /\ Repairs(p) /\ scan[p].tasks \in Lines /\ scan[p].archive \in Lines
      /\ scan[p].stage = "save" => Saving(p)
  BY DEF DoctorInv, DoctorTypeOK, Repair, ScanOK, JobOK, Repairs
<1> QED
  BY <1>1, FixedActiveFacts

(* The rewrite of tasks.jsonl: no identifier is in both files after it. *)
LEMMA DoctorWriteTasksIsOK ==
  ASSUME DoctorInv, NEW p \in Procs, DoctorWriteTasks(p)
  PROVE  DoctorInv'
<1> DEFINE fixed == FixedActive(scan[p].tasks, scan[p].archive)
<1>1. /\ scan[p].stage = "save" /\ lock = p /\ tasks' = job[p].new
      /\ archive' = archive /\ last' = last /\ crashes' = crashes
  BY DEF DoctorWriteTasks, ScanAt
<1>2. /\ Repairs(p) /\ Saving(p) /\ job[p].new = fixed /\ fixed \in Lines
      /\ tasks' = fixed
  BY <1>1, RepairFacts DEF Repairs
<1>3. Split' = {}
  BY <1>1, <1>2 DEF Saving, Split, ArchiveLines
<1>4. /\ tasks' \in Lines /\ archive' \in Lines /\ last' \in Line \cup {None}
      /\ crashes' \in Nat
  BY <1>1, <1>2 DEF DoctorInv, DoctorTypeOK
<1>5. CASE ~ArchiveNeedsRepair(p)
  <2>1. Release(p) /\ scan' = [scan EXCEPT ![p] = NoScan]
    BY <1>5 DEF DoctorWriteTasks
  <2> QED
    BY <2>1, <1>1, <1>3, <1>4, ReleaseIsOK
<1>6. CASE ArchiveNeedsRepair(p)
  <2> DEFINE s == [scan[p] EXCEPT !.stage = "rewrite"]
  <2>1. /\ job' = [job EXCEPT ![p] = NoJob] /\ lock' = p
        /\ scan' = [scan EXCEPT ![p].stage = "rewrite"]
        /\ job \in [Procs -> Commit] /\ scan \in [Procs -> Repair]
    BY <1>1, <1>6 DEF DoctorWriteTasks, DoctorInv, DoctorTypeOK
  <2>2. /\ s \in Repair /\ s.stage = "rewrite" /\ s.fresh = scan[p].fresh
        /\ s.tasks = scan[p].tasks /\ s.archive = scan[p].archive
        /\ scan' = [scan EXCEPT ![p] = s]
    BY <2>1 DEF Repair
  <2> HIDE DEF s
  <2>3. /\ job'[p] = NoJob /\ scan'[p] = s
        /\ job' \in [Procs -> Commit] /\ scan' \in [Procs -> Repair]
        /\ \A q \in Procs \ {p} : job'[q] = job[q] /\ scan'[q] = scan[q]
    BY <2>1, <2>2, IdleTypes
  <2>4. DoctorTypeOK'
    BY <2>1, <2>3, <1>4 DEF DoctorTypeOK
  <2>5. JobOK(p)'
    BY <2>3 DEF JobOK, InProgress, NoJob
  <2>6. ArchiveLines' = ArchiveLines
    BY <1>1 DEF ArchiveLines
  <2>7. scan[p].fresh => AllRecords(fixed)
    <3>1. SUFFICES ASSUME scan[p].fresh
                   PROVE  \A m \in fixed : m.kind \in {"record", "misnamed"}
      BY DEF AllRecords, Kinds
    <3>2. \A l \in scan[p].tasks : l.kind \in {"record", "misnamed"}
      BY <3>1, <1>1, <1>2 DEF Repairs, AllRecords, Kinds
    <3>3. \A m \in fixed : \E l \in ItemsIn(scan[p].tasks) : m.kind = l.kind
      BY <1>1, RepairFacts, FixedActiveFacts DEF Cleared
    <3> QED
      BY <3>2, <3>3 DEF ItemsIn, OfKind
  <2>8. Repairs(p)'
    <3>1. FixedActive(scan'[p].tasks, scan'[p].archive) = fixed
      BY <2>2, <2>3
    <3> HIDE DEF fixed
    <3>2. scan[p].fresh => /\ scan[p].archive = ArchiveLines
                           /\ ArchiveIdsLoad(ArchiveLines)
                           /\ ValidItemIds(fixed)
      BY <1>2 DEF Repairs, fixed
    <3> QED
      BY <3>1, <3>2, <2>1, <2>2, <2>3, <2>6, <2>7, <1>2 DEF Repairs, InProgress, NoJob
  <2>9. ScanOK(p)'
    BY <2>8, <2>2, <2>3 DEF ScanOK
  <2>10. \A i, j \in Split' : i = j
    BY <1>3
  <2> QED
    BY <2>3, <2>4, <2>5, <2>9, <2>10, <1>1, HolderIsOK
<1> QED
  BY <1>5, <1>6

(* The rewrite of archive.jsonl, which may drop lines but names no item    *)
(* that tasks.jsonl has.                                                   *)
LEMMA DoctorWriteArchiveIsOK ==
  ASSUME DoctorInv, NEW p \in Procs, DoctorWriteArchive(p)
  PROVE  DoctorInv'
<1> DEFINE t == scan[p].tasks
           a == scan[p].archive
           fixed == FixedArchive(t, a)
<1>1. /\ scan[p].stage = "rewrite" /\ lock = p /\ Release(p)
      /\ scan' = [scan EXCEPT ![p] = NoScan] /\ tasks' = tasks /\ crashes' = crashes
      /\ \/ archive' = fixed /\ last' = None
         \/ archive' = archive /\ last' = last
  BY DEF DoctorWriteArchive, ScanAt
<1>2. /\ Repairs(p) /\ t \in Lines /\ a \in Lines
      /\ tasks = FixedActive(t, a)
  BY <1>1, RepairFacts DEF Repairs
<1>3. /\ fixed \in Lines
      /\ ArchiveIds(fixed) \subseteq IdsOf(ItemsIn(a))
  <2>1. fixed \in Lines /\ IdsOf(fixed) = IdsOf(ItemsIn(a))
    BY <1>2, FixedArchiveFacts
  <2> HIDE DEF fixed
  <2>2. Identified(fixed) \subseteq fixed
    BY DEF Identified, OfKind
  <2> QED
    BY <2>1, <2>2 DEF ArchiveIds, IdsOf
<1>4. \A i, j \in Split' : i = j
  <2>1. CASE archive' = fixed /\ last' = None
    <3>1. ArchiveLines' = fixed
      BY <2>1 DEF ArchiveLines
    <3>2. \A m \in tasks : m.id \notin IdsOf(ItemsIn(a))
      BY <1>2, FixedActiveFacts DEF Cleared
    <3>3. IdsOf(tasks) \cap IdsOf(ItemsIn(a)) = {}
      BY <3>2 DEF IdsOf
    <3> QED
      BY <3>1, <3>3, <1>1, <1>3 DEF Split
  <2>2. CASE archive' = archive /\ last' = last
    BY <2>2, <1>1 DEF DoctorInv, Split, ArchiveLines
  <2> QED
    BY <2>1, <2>2, <1>1
<1>5. /\ tasks' \in Lines /\ archive' \in Lines /\ last' \in Line \cup {None}
      /\ crashes' \in Nat
  BY <1>1, <1>3 DEF DoctorInv, DoctorTypeOK
<1> QED
  BY <1>1, <1>4, <1>5, ReleaseIsOK

-----------------------------------------------------------------------------
(***************************************************************************)
(* DoctorInv is inductive.                                                 *)
(***************************************************************************)
LEMMA DoctorInitIsOK ==
  ASSUME NEW t \in Lines, NEW a \in Lines, NEW l \in Line \cup {None},
         DoctorInit(t, a, l), AtMostOneSplit
  PROVE  DoctorInv
<1>1. DoctorTypeOK
  BY IdleTypes, ItemFileAssumption DEF DoctorInit, FilesInit, DoctorTypeOK
<1>2. \A p \in Procs : JobOK(p) /\ ScanOK(p)
  BY DEF DoctorInit, FilesInit, NoJob, NoScan, JobOK, ScanOK, InProgress
<1>3. \A i, j \in Split : i = j
  <2>1. Split \in SUBSET IdsOf(tasks) /\ IsFiniteSet(IdsOf(tasks))
    BY <1>1, LinesClosed DEF Split, DoctorTypeOK
  <2>2. IsFiniteSet(Split)
    BY <2>1, FS_Subset
  <2> QED
    BY <2>2, AtMostOneMember DEF AtMostOneSplit
<1> QED
  BY <1>1, <1>2, <1>3 DEF DoctorInv

LEMMA StoreStepIsOK ==
  ASSUME DoctorInv, NEW p \in Procs, ScanAt(p, "idle"), UNCHANGED scan, StoreStep(p)
  PROVE  DoctorInv'
<1>1. ASSUME NEW i \in Ids, NEW deps \in SUBSET IdsOf(tasks), Add(p, i, deps)
      PROVE  DoctorInv'
  BY <1>1, AddIsOK
<1>2. ASSUME NEW i \in Ids, Rm(p, i) PROVE DoctorInv'
  BY <1>2, RmIsOK
<1>3. ASSUME NEW l \in tasks, Done(p, l) PROVE DoctorInv'
  BY <1>3, DoneIsOK
<1>4. ASSUME WriteLeadingNewline(p) PROVE DoctorInv'
  BY <1>4, WriteLeadingNewlineIsOK
<1>5. ASSUME WriteRecord(p) PROVE DoctorInv'
  BY <1>5, WriteRecordIsOK
<1>6. ASSUME WriteNewline(p) PROVE DoctorInv'
  BY <1>6, WriteNewlineIsOK
<1>7. ASSUME WriteTasks(p) PROVE DoctorInv'
  BY <1>7, WriteTasksIsOK
<1>8. ASSUME CrashBetweenWrites(p) PROVE DoctorInv'
  BY <1>8, CrashBetweenWritesIsOK
<1>9. ASSUME NEW piece \in {Fragment, Garbled}, CrashInRecord(p, piece) PROVE DoctorInv'
  BY <1>9, CrashInRecordIsOK
<1> QED
  BY <1>1, <1>2, <1>3, <1>4, <1>5, <1>6, <1>7, <1>8, <1>9 DEF StoreStep

LEMMA DoctorStepIsOK ==
  ASSUME DoctorInv, NEW p \in Procs, DoctorStep(p)
  PROVE  DoctorInv'
  BY DoctorReadTasksIsOK, DoctorReadArchiveIsOK, DoctorEndsIsOK, DoctorFixIsOK,
     DoctorWriteTasksIsOK, DoctorWriteArchiveIsOK DEF DoctorStep

LEMMA StutterIsOK ==
  ASSUME DoctorInv, UNCHANGED doctorVars
  PROVE  DoctorInv'
<1>1. UNCHANGED <<tasks, archive, last, lock, job, crashes, scan>>
  BY DEF doctorVars, fileVars
<1>2. DoctorTypeOK'
  BY <1>1 DEF DoctorInv, DoctorTypeOK
<1>3. \A p \in Procs : JobOK(p)'
  BY <1>1 DEF DoctorInv, JobOK, InProgress, Archiving, Saving, ScanAt, ArchiveLines
<1>4. \A p \in Procs : ScanOK(p)'
  BY <1>1 DEF DoctorInv, ScanOK, Repairs, InProgress, ArchiveLines
<1>5. \A i, j \in Split' : i = j
  BY <1>1 DEF DoctorInv, Split, ArchiveLines
<1> QED
  BY <1>2, <1>3, <1>4, <1>5 DEF DoctorInv

LEMMA DoctorInvInductive == DoctorInv /\ [DoctorNext]_doctorVars => DoctorInv'
<1>1. ASSUME DoctorInv, NEW p \in Procs, ScanAt(p, "idle"), StoreStep(p), UNCHANGED scan
      PROVE  DoctorInv'
  BY <1>1, StoreStepIsOK
<1>2. ASSUME DoctorInv, NEW p \in Procs, DoctorStep(p) PROVE DoctorInv'
  BY <1>2, DoctorStepIsOK
<1>3. ASSUME DoctorInv, NEW p \in Procs, DoctorCrash(p) PROVE DoctorInv'
  BY <1>3, CrashBetweenWritesIsOK DEF DoctorCrash
<1> QED
  BY <1>1, <1>2, <1>3, StutterIsOK DEF DoctorNext

(* Whatever damage the files had, and whatever commands, doctors and       *)
(* crashes came since: commits under way fit the files, and a doctor that  *)
(* has the lock writes what it made of its reading.                        *)
THEOREM DoctorInvariant == DoctorSpec => []DoctorInv
<1>1. (\E t, a \in Lines, l \in Line \cup {None} : DoctorInit(t, a, l) /\ AtMostOneSplit)
        => DoctorInv
  BY DoctorInitIsOK
<1> QED
  BY <1>1, DoctorInvInductive, PTL DEF DoctorSpec

-----------------------------------------------------------------------------
(***************************************************************************)
(* What follows.                                                           *)
(***************************************************************************)
(* No crash and no doctor, however stale its reading, splits an item while *)
(* another one is split (jsonl.rs:296-348, doctor.rs:155-213).             *)
THEOREM SplitsDoNotAddUp == DoctorSpec => []AtMostOneSplit
<1>1. DoctorInv => AtMostOneSplit
  <2> SUFFICES ASSUME DoctorInv PROVE AtMostOneSplit
    OBVIOUS
  <2>1. Split \in SUBSET IdsOf(tasks) /\ IsFiniteSet(IdsOf(tasks))
    BY LinesClosed DEF Split, DoctorInv, DoctorTypeOK
  <2>2. IsFiniteSet(Split)
    BY <2>1, FS_Subset
  <2> QED
    BY <2>2, AtMostOneMember DEF AtMostOneSplit, DoctorInv
<1> QED
  BY <1>1, DoctorInvariant, PTL

(* A step that adds records to the files, or leaves them. *)
LEMMA RecordsKept ==
  ASSUME IdsOf(ReadArchive(tasks)) \subseteq
           IdsOf(ReadArchive(tasks')) \cup IdsOf(ReadArchive(ArchiveLines')),
         ReadArchive(ArchiveLines) \subseteq ReadArchive(ArchiveLines')
  PROVE  KnownRecords \subseteq KnownRecords'
<1>1. IdsOf(ReadArchive(ArchiveLines)) \subseteq IdsOf(ReadArchive(ArchiveLines'))
  BY DEF IdsOf
<1> QED
  BY <1>1 DEF KnownRecords

(* A write of a command loses what it was asked to only. *)
LEMMA StoreStepKeepsRecords ==
  ASSUME DoctorInv, NEW p \in Procs, ScanAt(p, "idle"), StoreStep(p)
  PROVE  KnownRecords \ KnownRecords' \subseteq job[p].removes
<1>1. ASSUME tasks' = tasks, ReadArchive(ArchiveLines) \subseteq ReadArchive(ArchiveLines')
      PROVE  KnownRecords \subseteq KnownRecords'
  BY <1>1, RecordsKept
<1>2. ASSUME UNCHANGED files PROVE KnownRecords \subseteq KnownRecords'
  BY <1>1, <1>2 DEF files, ArchiveLines
<1>3. ASSUME \/ \E i \in Ids : \/ \E deps \in SUBSET IdsOf(tasks) : Add(p, i, deps)
                               \/ Rm(p, i)
             \/ \E l \in tasks : Done(p, l)
             \/ CrashBetweenWrites(p)
      PROVE  KnownRecords \subseteq KnownRecords'
  <2>1. UNCHANGED files
    BY <1>3 DEF Add, Rm, Done, SaveActive, Begin, CrashBetweenWrites
  <2> QED
    BY <2>1, <1>2
<1>4. ASSUME WriteLeadingNewline(p) \/ WriteNewline(p)
      PROVE  KnownRecords \subseteq KnownRecords'
  <2>1. EndLastLine /\ job[p].stage \in {"newline", "end"}
    BY <1>4 DEF WriteLeadingNewline, WriteNewline, At
  <2>2. last # None /\ DoctorTypeOK
    BY <2>1, CommitFacts, LineFields DEF DoctorInv, Archiving
  <2>3. ArchiveLines' = ArchiveLines /\ tasks' = tasks
    BY <2>1, <2>2, EndLastLineEffect
  <2> QED
    BY <2>3, <1>1
<1>5. ASSUME \/ WriteRecord(p)
             \/ \E piece \in {Fragment, Garbled} : CrashInRecord(p, piece)
      PROVE  KnownRecords \subseteq KnownRecords'
  <2>1. PICK text \in Line : AppendText(text) /\ job[p].stage = "record"
    <3>1. ASSUME WriteRecord(p) PROVE AppendText(job[p].line) /\ job[p].stage = "record"
      BY <3>1 DEF WriteRecord, At
    <3>2. ASSUME job[p].stage = "record" PROVE job[p].line \in Line
      BY <3>2, CommitFacts DEF Archiving
    <3>3. ASSUME NEW piece \in {Fragment, Garbled}, CrashInRecord(p, piece)
          PROVE  piece \in Line /\ AppendText(piece) /\ job[p].stage = "record"
      BY <3>3 DEF CrashInRecord, At, Line
    <3> QED
      BY <1>5, <3>1, <3>2, <3>3
  <2>2. last = None /\ DoctorTypeOK
    BY <2>1, CommitFacts DEF DoctorInv
  <2>3. ArchiveLines' = ArchiveLines \cup {text} /\ tasks' = tasks
    BY <2>1, <2>2, AppendTextEffect
  <2>4. ReadArchive(ArchiveLines) \subseteq ReadArchive(ArchiveLines')
    BY <2>3 DEF ReadArchive, OfKind
  <2> QED
    BY <2>3, <2>4, <1>1
<1>6. ASSUME WriteTasks(p) PROVE KnownRecords \ KnownRecords' \subseteq job[p].removes
  <2>1. /\ tasks' = job[p].new /\ ArchiveLines' = ArchiveLines
        /\ job[p].stage = "tasks"
    BY <1>6 DEF WriteTasks, At, ArchiveLines
  <2>2. IdsOf(ReadArchive(tasks)) \ IdsOf(ReadArchive(job[p].new))
          \subseteq job[p].removes \cup IdsOf(ReadArchive(ArchiveLines))
    BY <2>1, CommitFacts DEF Saving
  <2> QED
    BY <2>1, <2>2 DEF KnownRecords
<1> QED
  BY <1>3, <1>4, <1>5, <1>6 DEF StoreStep

(* A write that is cut short costs no task its record, and neither does    *)
(* any other write of a command but that of tg rm (jsonl.rs:296-348).      *)
THEOREM RecordsAreKept == DoctorSpec => NoRecordLost
<1>1. DoctorInv => (\A p \in Procs : ScanAt(p, "idle") /\ StoreStep(p) =>
                       KnownRecords \ KnownRecords' \subseteq job[p].removes)
  BY StoreStepKeepsRecords
<1> QED
  BY <1>1, DoctorInvariant, PTL DEF NoRecordLost

-----------------------------------------------------------------------------
(***************************************************************************)
(* What the doctor finds and what it heals.                                *)
(***************************************************************************)
(* No issue at all: none of the checks found anything. *)
LEMMA NoIssues ==
  ASSUME NEW t, NEW a, Issues(t, a) = {}
  PROVE  /\ ~CheckJsonlSyntax(t) /\ ~CheckJsonlSyntax(a)
         /\ DuplicateIds(t, a) \cup DuplicateIds(a, t) = {}
         /\ ItemsInBoth(t, a) = {}
         /\ Acyclic(DependenciesOf(ItemsIn(t)))
         /\ DanglingDependencies(t, a) = {}
         /\ Acyclic(ParentsOf(ItemsIn(t)))
<1>1. ASSUME CheckJsonlSyntax(t) \/ CheckJsonlSyntax(a) PROVE FALSE
  <2>1. <<"jsonl_syntax", CheckJsonlSyntax(t) \/ CheckJsonlSyntax(a)>>[2]
    BY <1>1
  <2> QED
    BY <2>1 DEF Issues
<1>2. ASSUME DuplicateIds(t, a) \cup DuplicateIds(a, t) # {} PROVE FALSE
  <2>1. <<"duplicate_id", DuplicateIds(t, a) \cup DuplicateIds(a, t) # {}>>[2]
    BY <1>2
  <2> QED
    BY <2>1 DEF Issues
<1>3. ASSUME ItemsInBoth(t, a) # {} PROVE FALSE
  <2>1. <<"items_in_both", ItemsInBoth(t, a) # {}>>[2]
    BY <1>3
  <2> QED
    BY <2>1 DEF Issues
<1>4. ASSUME ~Acyclic(DependenciesOf(ItemsIn(t))) PROVE FALSE
  <2>1. <<"dependency_cycle", ~Acyclic(DependenciesOf(ItemsIn(t)))>>[2]
    BY <1>4
  <2> QED
    BY <2>1 DEF Issues
<1>5. ASSUME DanglingDependencies(t, a) # {} PROVE FALSE
  <2>1. <<"dangling_dep", DanglingDependencies(t, a) # {}>>[2]
    BY <1>5
  <2> QED
    BY <2>1 DEF Issues
<1>6. ASSUME ~Acyclic(ParentsOf(ItemsIn(t))) PROVE FALSE
  <2>1. <<"parent_cycle", ~Acyclic(ParentsOf(ItemsIn(t)))>>[2]
    BY <1>6
  <2> QED
    BY <2>1 DEF Issues
<1> QED
  BY <1>1, <1>2, <1>3, <1>4, <1>5, <1>6

(* None of the issues that --fix is there to repair. *)
LEMMA NothingToRepair ==
  ASSUME NEW t, NEW a, ItemsInBoth(t, a) = {}, DanglingDependencies(t, a) = {},
         OrphanedParents(t, a) = {}
  PROVE  Repairable(t, a) = {}
<1> SUFFICES ASSUME NEW issue \in Issues(t, a),
                    issue[1] \in {"items_in_both", "dangling_dep", "parent_dangling_archive"}
             PROVE  FALSE
  BY DEF Repairable
<1>1. issue[2]
  BY DEF Issues
<1>2. CASE issue[1] = "items_in_both"
  <2>1. issue = <<"items_in_both", ItemsInBoth(t, a) # {}>>
    BY <1>2 DEF Issues
  <2> QED
    BY <1>1, <2>1
<1>3. CASE issue[1] = "dangling_dep"
  <2>1. issue = <<"dangling_dep", DanglingDependencies(t, a) # {}>>
    BY <1>3 DEF Issues
  <2> QED
    BY <1>1, <2>1
<1>4. CASE issue[1] = "parent_dangling_archive"
  <2>1. issue = <<"parent_dangling_archive", OrphanedParents(t, a) # {}>>
    BY <1>4 DEF Issues
  <2> QED
    BY <1>1, <2>1
<1> QED
  BY <1>2, <1>3, <1>4

(* The repaired tasks.jsonl, beside an archive with the same items. *)
LEMMA FixedActiveIsSound ==
  ASSUME NEW t \in Lines, NEW a \in Lines, NEW b \in Lines,
         IdsOf(ItemsIn(b)) = IdsOf(ItemsIn(a)),
         NEW new, new = FixedActive(t, a)
  PROVE  /\ ItemsIn(new) = new
         /\ IdsOf(new) \cap IdsOf(ItemsIn(b)) = {}
         /\ Listed(new, b) = Listed(t, a)
         /\ ItemsInBoth(new, b) = {}
         /\ DanglingDependencies(new, b) = {}
         /\ \A X : IdsOf(ItemsIn(a)) \subseteq X => DependenciesKnown(new, X)
<1>1. /\ \A m \in new :
            /\ m.kind \in {"record", "foreign", "misnamed"}
            /\ m.id \notin IdsOf(ItemsIn(a))
            /\ \E l \in ItemsIn(t) :
                  /\ m.id = l.id /\ m.kind = l.kind
                  /\ m.item.dependencies = l.item.dependencies \cap Listed(t, a)
      /\ \A l \in ItemsIn(t) : l.id \notin IdsOf(ItemsIn(a)) =>
            \E m \in new :
               /\ m.id = l.id /\ m.kind = l.kind
               /\ m.item.dependencies = l.item.dependencies \cap Listed(t, a)
  <2>1. Cleared(t, a, new)
    BY FixedActiveFacts
  <2> QED
    BY ONLY <2>1 DEF Cleared
<1>2. ItemsIn(new) = new
  BY <1>1 DEF ItemsIn, OfKind
<1>3. IdsOf(new) \cap IdsOf(ItemsIn(b)) = {}
  <2>1. \A m \in new : m.id \notin IdsOf(ItemsIn(b))
    BY <1>1
  <2>2. \A i \in IdsOf(new) : \E m \in new : i = m.id
    BY DEF IdsOf
  <2> QED
    BY <2>1, <2>2
<1>4. Listed(t, a) = IdsOf(new) \cup IdsOf(ItemsIn(a))
  <2>1. IdsOf(new) \subseteq IdsOf(ItemsIn(t))
    BY <1>1 DEF IdsOf
  <2>2. IdsOf(ItemsIn(t)) \subseteq IdsOf(new) \cup IdsOf(ItemsIn(a))
    <3>1. SUFFICES ASSUME NEW l \in ItemsIn(t), l.id \notin IdsOf(ItemsIn(a))
                   PROVE  l.id \in IdsOf(new)
      BY DEF IdsOf
    <3> QED
      BY <3>1, <1>1 DEF IdsOf
  <2> QED
    BY <2>1, <2>2 DEF Listed
<1>5. Listed(new, b) = Listed(t, a)
  BY <1>2, <1>4 DEF Listed
<1>6. \A m \in new : m.item.dependencies \subseteq Listed(t, a)
  BY <1>1
<1>7. DanglingDependencies(new, b) = {}
  <2>1. UNION {l.item.dependencies : l \in new} \subseteq Listed(t, a)
    <3>1. SUFFICES ASSUME NEW d \in UNION {l.item.dependencies : l \in new}
                   PROVE  d \in Listed(t, a)
      OBVIOUS
    <3>2. PICK l \in new : d \in l.item.dependencies
      OBVIOUS
    <3> QED
      BY <3>2, <1>6
  <2> QED
    BY <2>1, <1>2, <1>5 DEF DanglingDependencies
<1>8. \A X : IdsOf(ItemsIn(a)) \subseteq X => DependenciesKnown(new, X)
  BY <1>4, <1>6 DEF DependenciesKnown
<1> QED
  BY <1>2, <1>3, <1>5, <1>7, <1>8 DEF ItemsInBoth

(* Items without identifier-only lines beside them. *)
LEMMA IdentifiedItems ==
  ASSUME NEW a, ArchiveIdsLoad(a)
  PROVE  /\ ItemsIn(a) \subseteq Identified(a)
         /\ "identity" \notin Kinds(a) => Identified(a) = ItemsIn(a)
         /\ IdsOf(ItemsIn(a)) \subseteq ArchiveIds(a)
         /\ "identity" \notin Kinds(a) => ArchiveIds(a) = IdsOf(ItemsIn(a))
<1>1. /\ ItemsIn(a) \subseteq Identified(a)
      /\ "identity" \notin Kinds(a) => Identified(a) = ItemsIn(a)
  BY DEF ArchiveIdsLoad, Identified, ItemsIn, OfKind, Kinds
<1> QED
  BY <1>1 DEF ArchiveIds, IdsOf

(* No duplicates reported, no item in both files: identifiers are unique. *)
LEMMA NoDuplicates ==
  ASSUME NEW t \in Lines, NEW a, DuplicateIds(t, a) = {},
         IdsOf(ItemsIn(t)) \cap IdsOf(ItemsIn(a)) = {}
  PROVE  UniqueIds(ItemsIn(t))
<1>1. IsFiniteSet(ItemsIn(t))
  BY LinesClosed, FS_Subset DEF ItemsIn, OfKind
<1>2. ASSUME NEW l \in ItemsIn(t), NEW m \in ItemsIn(t), l.id = m.id, l # m PROVE FALSE
  <2>1. l.id \in {k.id : k \in {k \in ItemsIn(t) : \E n \in ItemsIn(t) \ {k} : n.id = k.id}}
    BY <1>2
  <2>2. l.id \notin IdsOf(ItemsIn(a))
    BY DEF IdsOf
  <2> QED
    BY <2>1, <2>2 DEF DuplicateIds
<1> QED
  BY <1>1, <1>2, UniqueMeansInjective

(* Nothing is reported, and there is none of the damage the doctor does    *)
(* not see.                                                                *)
LEMMA SilentAndSeen ==
  ASSUME DoctorInv, Issues(tasks, ArchiveLines) = {},
         \A l \in tasks \cup ArchiveLines : l.kind \notin {"foreign", "misnamed", "header"}
  PROVE  Healthy
<1> DEFINE a == ArchiveLines
<1>1. tasks \in Lines /\ a \in Lines
  BY ArchiveLinesType DEF DoctorInv, DoctorTypeOK
<1>2. /\ Issues(tasks, a) = {}
      /\ \A l \in tasks \cup a : l.kind \notin {"foreign", "misnamed", "header"}
  OBVIOUS
<1> HIDE DEF a
<1>3. /\ ~CheckJsonlSyntax(tasks) /\ ~CheckJsonlSyntax(a)
      /\ DuplicateIds(tasks, a) = {} /\ DuplicateIds(a, tasks) = {}
      /\ ItemsInBoth(tasks, a) = {}
      /\ Acyclic(DependenciesOf(ItemsIn(tasks)))
      /\ DanglingDependencies(tasks, a) = {}
      /\ Acyclic(ParentsOf(ItemsIn(tasks)))
  BY <1>2, NoIssues
<1>4. tasks = ItemsIn(tasks) /\ a = ItemsIn(a)
  <2>1. OfKind(tasks, {"header"}) = {} /\ OfKind(a, {"header"}) = {}
    BY <1>2 DEF OfKind
  <2> QED
    BY <2>1, <1>3 DEF CheckJsonlSyntax
<1>5. \A l \in tasks \cup a : l.kind = "record"
  BY <1>2, <1>4 DEF ItemsIn, OfKind
<1>6. AllRecords(tasks) /\ AllRecords(a)
  BY <1>5 DEF AllRecords, Kinds
<1>7. ValidItemIds(tasks) /\ UniqueIds(a)
  <2>1. UniqueIds(tasks) /\ UniqueIds(a)
    BY <1>1, <1>3, <1>4, NoDuplicates DEF ItemsInBoth
  <2> QED
    BY <2>1, <1>5 DEF ValidItemIds, Kinds
<1>8. /\ ArchiveIds(a) = IdsOf(a) /\ Identified(a) = a
      /\ Kinds(a) \subseteq {"record"}
  BY <1>5 DEF ArchiveIds, Identified, OfKind, Kinds
<1>9. ArchiveIdsLoad(a)
  BY <1>7, <1>8 DEF ArchiveIdsLoad
<1>10. DisjointIds(IdsOf(tasks), ArchiveIds(a))
  BY <1>3, <1>4, <1>8 DEF ItemsInBoth, DisjointIds
<1>11. DependenciesKnown(tasks, ArchiveIds(a))
  <2>1. UNION {l.item.dependencies : l \in ItemsIn(tasks)} \subseteq Listed(tasks, a)
    BY <1>3 DEF DanglingDependencies
  <2>2. \A l \in ItemsIn(tasks) : l.item.dependencies \subseteq Listed(tasks, a)
    BY <2>1
  <2>3. Listed(tasks, a) = IdsOf(tasks) \cup ArchiveIds(a)
    BY <1>4, <1>8 DEF Listed
  <2> QED
    BY <2>2, <2>3, <1>4 DEF DependenciesKnown
<1>12. ValidateActiveWrite(tasks)
  BY <1>6, <1>7, <1>9, <1>10, <1>11 DEF ValidateActiveWrite, a
<1> QED
  BY <1>3, <1>4, <1>6, <1>12 DEF Healthy, a

(* A doctor with nothing to report has looked at everything that keeps     *)
(* commands from their work, but for the fields of items, their            *)
(* identifiers and the header, any of which does (doctor.rs:43-81).        *)
THEOREM SilenceIsHealth == DoctorSpec => []SilentDoctorMeansHealthy
<1>1. DoctorInv => SilentDoctorMeansHealthy
  <2> DEFINE a == ArchiveLines
  <2> SUFFICES ASSUME DoctorInv, Issues(tasks, a) = {}
               PROVE  Healthy <=> Kinds(tasks \cup a) \cap Unseen = {}
    BY DEF SilentDoctorMeansHealthy
  <2>1. ASSUME Kinds(tasks \cup a) \cap Unseen = {} PROVE Healthy
    <3>1. \A l \in tasks \cup a : l.kind \notin {"foreign", "misnamed", "header"}
      BY <2>1 DEF Kinds, Unseen
    <3> HIDE DEF a
    <3> QED
      BY <3>1, SilentAndSeen DEF a
  <2>2. ASSUME Healthy, NEW l \in tasks \cup a, l.kind \in {"foreign", "misnamed", "header"}
        PROVE  FALSE
    <3>1. l.kind = "misnamed"
      BY <2>2 DEF Healthy, AllRecords, Kinds
    <3>2. "misnamed" \notin Kinds(tasks) /\ "misnamed" \notin Kinds(a)
      BY <2>2 DEF Healthy, ValidateActiveWrite, ValidItemIds, ArchiveIdsLoad
    <3> QED
      BY <3>1, <3>2 DEF Kinds
  <2> QED
    BY <2>1, <2>2 DEF Kinds, Unseen
<1> QED
  BY <1>1, DoctorInvariant, PTL

(* The doctor's tasks.jsonl passes the validation of the store, whatever a *)
(* crash has left but a cut character (doctor.rs:155-213).                 *)
THEOREM CrashesAreRepairable == DoctorSpec => []CrashIsRepairable
<1>1. DoctorInv => CrashIsRepairable
  <2> DEFINE a == ArchiveLines
             new == FixedActive(tasks, a)
  <2> SUFFICES ASSUME DoctorInv, AllRecords(tasks), ValidItemIds(tasks),
                      ArchiveIdsLoad(a), "identity" \notin Kinds(a)
               PROVE  ValidateActiveWrite(new)
    BY DEF CrashIsRepairable
  <2>1. tasks \in Lines /\ a \in Lines
    BY ArchiveLinesType DEF DoctorInv, DoctorTypeOK
  <2> HIDE DEF a
  <2>2. ItemsIn(tasks) = tasks
    BY DEF AllRecords, ItemsIn, OfKind, Kinds
  <2>3. ValidItemIds(new)
    <3>1. UniqueIds(new)
      BY <2>1, <2>2, FixedActiveFacts DEF ValidItemIds
    <3>2. \A m \in new : \E l \in ItemsIn(tasks) : m.kind = l.kind
      BY <2>1, FixedActiveFacts DEF Cleared
    <3>3. \A l \in ItemsIn(tasks) : l.kind # "misnamed"
      BY <2>2 DEF ValidItemIds, Kinds
    <3> QED
      BY <3>1, <3>2, <3>3 DEF ValidItemIds, Kinds
  <2> HIDE DEF new
  <2>4. /\ IdsOf(new) \cap IdsOf(ItemsIn(a)) = {}
        /\ Listed(new, a) = Listed(tasks, a) /\ ItemsIn(new) = new
        /\ \A X : IdsOf(ItemsIn(a)) \subseteq X => DependenciesKnown(new, X)
    BY <2>1, FixedActiveIsSound DEF new
  <2>5. ArchiveIds(a) = IdsOf(ItemsIn(a))
    BY IdentifiedItems
  <2>6. IdsOf(tasks) \ (IdsOf(new) \cup ArchiveIds(a)) = {}
    BY <2>2, <2>4, <2>5 DEF Listed
  <2>7. DisjointIds(IdsOf(new), ArchiveIds(a)) /\ DependenciesKnown(new, ArchiveIds(a))
    BY <2>4, <2>5 DEF DisjointIds
  <2> QED
    BY <2>3, <2>6, <2>7 DEF ValidateActiveWrite, a
<1> QED
  BY <1>1, DoctorInvariant, PTL

(* The first write of a fresh repair. *)
LEMMA FreshTasksHeal ==
  ASSUME DoctorInv, NEW p \in Procs, DoctorWriteTasks(p), scan[p].fresh
  PROVE  /\ KnownRecords' \subseteq KnownRecords
         /\ KnownRecords \ KnownRecords' \subseteq IdsOf(OfKind(ArchiveLines, {"foreign"}))
         /\ \A l \in tasks : l.id \notin Split =>
               \E m \in tasks' : /\ m.id = l.id
                               /\ l.item.dependencies \cap KnownRecords \subseteq m.item.dependencies
         /\ RepairEnds(p) => /\ Repairable(tasks, ArchiveLines)' = {}
                             /\ ValidateActiveWrite(tasks)'
<1> DEFINE a == ArchiveLines
           new == FixedActive(tasks, a)
<1>1. scan[p].stage = "save" /\ tasks' = job[p].new /\ ArchiveLines' = a
  BY DEF DoctorWriteTasks, ScanAt, ArchiveLines
<1>2. /\ scan[p].tasks = tasks /\ scan[p].archive = a /\ tasks' = new
      /\ AllRecords(tasks) /\ ArchiveIdsLoad(a) /\ ValidItemIds(new)
      /\ IdsOf(new) \cap ArchiveIds(a) = {}
      /\ tasks \in Lines /\ a \in Lines
  <2>1. Repairs(p) /\ Saving(p) /\ scan[p].tasks \in Lines /\ scan[p].archive \in Lines
    BY <1>1, RepairFacts
  <2> QED
    BY <1>1, <2>1 DEF Repairs, Saving
<1> HIDE DEF a
<1>3. /\ \A m \in new :
            /\ m.kind \in {"record", "foreign", "misnamed"}
            /\ m.id \notin IdsOf(ItemsIn(a))
            /\ \E l \in ItemsIn(tasks) :
                  /\ m.id = l.id /\ m.kind = l.kind
                  /\ m.item.dependencies = l.item.dependencies \cap Listed(tasks, a)
      /\ \A l \in ItemsIn(tasks) : l.id \notin IdsOf(ItemsIn(a)) =>
            \E m \in new :
               /\ m.id = l.id /\ m.kind = l.kind
               /\ m.item.dependencies = l.item.dependencies \cap Listed(tasks, a)
  <2>1. tasks \in Lines /\ a \in Lines
    BY <1>2
  <2>2. Cleared(tasks, a, new)
    BY ONLY <2>1, FixedActiveFacts
  <2> QED
    BY ONLY <2>2 DEF Cleared
<1>4. /\ ItemsIn(new) = new
      /\ Listed(new, a) = Listed(tasks, a)
      /\ ItemsInBoth(new, a) = {} /\ DanglingDependencies(new, a) = {}
      /\ \A X : IdsOf(ItemsIn(a)) \subseteq X => DependenciesKnown(new, X)
  BY <1>2, FixedActiveIsSound
<1> HIDE DEF new
<1>5. /\ ItemsIn(tasks) = tasks /\ ReadArchive(tasks) = tasks
      /\ \A l \in tasks : l.kind \in {"record", "misnamed"}
  BY <1>2 DEF AllRecords, ItemsIn, ReadArchive, OfKind, Kinds
<1>6. AllRecords(new) /\ ReadArchive(new) = new
  <2>1. \A m \in new : m.kind \in {"record", "misnamed"}
    BY <1>3, <1>5
  <2> QED
    BY <2>1 DEF AllRecords, ReadArchive, OfKind, Kinds
<1>7. /\ KnownRecords = IdsOf(tasks) \cup IdsOf(ReadArchive(a))
      /\ KnownRecords' = IdsOf(new) \cup IdsOf(ReadArchive(a))
  BY <1>1, <1>2, <1>5, <1>6 DEF KnownRecords, a
<1>8. KnownRecords' \subseteq KnownRecords
  BY <1>3, <1>5, <1>7 DEF IdsOf
<1>9. KnownRecords \ KnownRecords' \subseteq IdsOf(OfKind(a, {"foreign"}))
  <2>1. SUFFICES ASSUME NEW l \in tasks, l.id \notin IdsOf(new), l.id \notin IdsOf(ReadArchive(a))
                 PROVE  l.id \in IdsOf(OfKind(a, {"foreign"}))
    BY <1>7 DEF IdsOf
  <2>2. PICK k \in ItemsIn(a) : k.id = l.id
    BY <2>1, <1>3, <1>5 DEF IdsOf
  <2> QED
    BY <2>1, <2>2 DEF IdsOf, ItemsIn, ReadArchive, OfKind
<1>10. ASSUME NEW l \in tasks, l.id \notin Split
       PROVE  \E m \in tasks' :
                 /\ m.id = l.id
                 /\ l.item.dependencies \cap KnownRecords \subseteq m.item.dependencies
  <2>1. l.id \notin IdsOf(ItemsIn(a))
    <3>1. l.id \in IdsOf(tasks)
      BY DEF IdsOf
    <3> QED
      BY <3>1, <1>2, <1>10, IdentifiedItems DEF Split, a
  <2>2. KnownRecords \subseteq Listed(tasks, a)
    <3>1. IdsOf(ReadArchive(a)) \subseteq IdsOf(ItemsIn(a))
      BY DEF IdsOf, ReadArchive, ItemsIn, OfKind
    <3> QED
      BY <3>1, <1>5, <1>7 DEF Listed
  <2>3. PICK m \in new : /\ m.id = l.id
                         /\ m.item.dependencies = l.item.dependencies \cap Listed(tasks, a)
    BY <2>1, <1>3, <1>5
  <2> QED
    BY <2>2, <2>3, <1>2
<1>11. ASSUME RepairEnds(p)
       PROVE  Repairable(tasks, ArchiveLines)' = {} /\ ValidateActiveWrite(tasks)'
  <2>1. OrphanedParents(tasks, a) = {}
    BY <1>11, <1>1, <1>2 DEF RepairEnds, DoctorWriteArchive, ScanAt, ArchiveNeedsRepair
  <2>2. OrphanedParents(new, a) = {}
    BY <2>1, <1>4 DEF OrphanedParents
  <2>3. Repairable(new, a) = {}
    BY <2>2, <1>4, NothingToRepair
  <2>4. Repairable(tasks, ArchiveLines)' = {}
    BY <2>3, <1>1, <1>2
  <2>5. DependenciesKnown(new, ArchiveIds(a))
    BY <1>2, <1>4, IdentifiedItems
  <2>6. ValidateActiveWrite(tasks)'
    BY <2>5, <1>1, <1>2, <1>6 DEF ValidateActiveWrite, DisjointIds
  <2> QED
    BY <2>4, <2>6
<1> QED
  BY <1>8, <1>9, <1>10, <1>11 DEF a

(* The second write of a fresh repair. *)
LEMMA FreshArchiveHeals ==
  ASSUME DoctorInv, NEW p \in Procs, DoctorWriteArchive(p), scan[p].fresh
  PROVE  /\ KnownRecords' = KnownRecords
         /\ tasks' = tasks
         /\ Repairable(tasks, ArchiveLines)' = {}
         /\ ValidateActiveWrite(tasks)'
<1> DEFINE t == scan[p].tasks
           a == ArchiveLines
           fixed == FixedArchive(t, a)
<1>1. /\ scan[p].stage = "rewrite" /\ tasks' = tasks
      /\ IF ValidItemIds(FixedArchive(t, scan[p].archive))
         THEN archive' = FixedArchive(t, scan[p].archive) /\ last' = None
         ELSE UNCHANGED <<archive, last>>
  BY DEF DoctorWriteArchive, ScanAt
<1>2. /\ t \in Lines /\ a \in Lines /\ scan[p].archive = a
      /\ tasks = FixedActive(t, a)
      /\ AllRecords(tasks) /\ ArchiveIdsLoad(a) /\ ValidItemIds(tasks)
  <2>1. Repairs(p) /\ scan[p].tasks \in Lines /\ scan[p].archive \in Lines
    BY <1>1, RepairFacts
  <2> QED
    BY <1>1, <2>1 DEF Repairs
<1> HIDE DEF a
<1>3. /\ fixed \in Lines
      /\ ItemsIn(fixed) = fixed /\ Identified(fixed) = fixed
      /\ Kinds(fixed) \subseteq {"record", "foreign"}
      /\ IdsOf(fixed) = IdsOf(ItemsIn(a))
      /\ IdsOf(ReadArchive(fixed)) = IdsOf(ReadArchive(a))
      /\ \A m \in fixed : m.item.parent \in Listed(t, a) \cup {None}
      /\ UniqueIds(ItemsIn(a)) => UniqueIds(fixed)
  <2>1. "misnamed" \notin Kinds(a)
    BY <1>2 DEF ArchiveIdsLoad
  <2> QED
    BY <2>1, <1>2, FixedArchiveFacts
<1>4. ValidItemIds(fixed)
  <2>1. UniqueIds(Identified(a)) /\ IsFiniteSet(a)
    BY <1>2, LinesClosed DEF ArchiveIdsLoad
  <2>2. IsFiniteSet(Identified(a)) /\ IsFiniteSet(ItemsIn(a))
    BY <2>1, FS_Subset DEF Identified, ItemsIn, OfKind
  <2>3. \A l, m \in ItemsIn(a) : l.id = m.id => l = m
    BY <1>2, <2>1, <2>2, UniqueMeansInjective, IdentifiedItems
  <2>4. UniqueIds(fixed)
    BY <2>2, <2>3, <1>3, UniqueMeansInjective
  <2> QED
    BY <2>4, <1>3 DEF ValidItemIds
<1> HIDE DEF fixed, t
<1>5. ArchiveLines' = fixed /\ tasks' = tasks
  BY <1>1, <1>2, <1>4 DEF ArchiveLines, fixed
<1>6. KnownRecords' = KnownRecords
  BY <1>3, <1>5 DEF KnownRecords, a
<1>7. /\ IdsOf(ItemsIn(fixed)) = IdsOf(ItemsIn(a))
      /\ ArchiveIds(fixed) = IdsOf(ItemsIn(a))
  BY <1>3 DEF ArchiveIds
<1>8. /\ IdsOf(tasks) \cap IdsOf(ItemsIn(fixed)) = {}
      /\ Listed(tasks, fixed) = Listed(t, a)
      /\ ItemsInBoth(tasks, fixed) = {} /\ DanglingDependencies(tasks, fixed) = {}
      /\ DependenciesKnown(tasks, IdsOf(ItemsIn(a)))
  BY <1>2, <1>3, <1>7, FixedActiveIsSound
<1>9. OrphanedParents(tasks, fixed) = {}
  BY <1>3, <1>8 DEF OrphanedParents, DanglingParents
<1>10. Repairable(tasks, fixed) = {}
  BY <1>8, <1>9, NothingToRepair
<1>11. ArchiveIdsLoad(fixed)
  BY <1>3, <1>4 DEF ArchiveIdsLoad, ValidItemIds
<1>12. ValidateActiveWrite(tasks)'
  BY <1>2, <1>5, <1>7, <1>8, <1>11 DEF ValidateActiveWrite, DisjointIds
<1>13. Repairable(tasks, ArchiveLines)' = {}
  BY <1>5, <1>10
<1> QED
  BY <1>5, <1>6, <1>12, <1>13

(* A doctor whose reading is still true when it gets the lock heals: no    *)
(* dependency is lost, and no task, save for an archived copy with a       *)
(* foreign field; and the store takes writes again (doctor.rs:155-213).    *)
THEOREM FreshRepairsHeal == DoctorSpec => FreshRepairHeals
<1> DEFINE Healed(p) ==
             /\ KnownRecords' \subseteq KnownRecords
             /\ KnownRecords \ KnownRecords' \subseteq IdsOf(OfKind(ArchiveLines, {"foreign"}))
             /\ \A l \in tasks : l.id \notin Split =>
                   \E m \in tasks' : /\ m.id = l.id
                                   /\ l.item.dependencies \cap KnownRecords \subseteq m.item.dependencies
             /\ RepairEnds(p) => /\ Repairable(tasks, ArchiveLines)' = {}
                                 /\ ValidateActiveWrite(tasks)'
<1>1. ASSUME DoctorInv, NEW p \in Procs, DoctorWriteTasks(p), scan[p].fresh
      PROVE  Healed(p)
  BY <1>1, FreshTasksHeal
<1>2. ASSUME DoctorInv, NEW p \in Procs, DoctorWriteArchive(p), scan[p].fresh
      PROVE  Healed(p)
  <2>1. /\ KnownRecords' = KnownRecords /\ tasks' = tasks
        /\ Repairable(tasks, ArchiveLines)' = {} /\ ValidateActiveWrite(tasks)'
    BY <1>2, FreshArchiveHeals
  <2> QED
    BY <2>1
<1>3. DoctorInv => \A p \in Procs :
        (DoctorWriteTasks(p) \/ DoctorWriteArchive(p)) /\ scan[p].fresh => Healed(p)
  BY <1>1, <1>2
<1> QED
  BY <1>3, DoctorInvariant, PTL DEF FreshRepairHeals

=============================================================================
