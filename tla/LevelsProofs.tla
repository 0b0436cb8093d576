---------------------------- MODULE LevelsProofs ----------------------------
(***************************************************************************)
(* What MCLevels checks of one level of PageLRUCache, of two, and of two   *)
(* levels of ARC, for all pages, capacities, intervals and times.          *)
(*                                                                         *)
(* What one access does is proved in PageLRUProofs and ARCProofs, which    *)
(* are instantiated here once per level. Two levels are separate objects   *)
(* that share a static or a global: the multiple of the next flush for     *)
(* PageLRUCache, p for ARC. The invariants say what each level may rely on *)
(* after a step of the other: the multiple is the interval of the upper    *)
(* level's last access plus one, since the lower level is only accessed at *)
(* that access's time; and p is at most one above the capacity of either   *)
(* level, since a level leaves p at most at its own capacity.              *)
(*                                                                         *)
(* The operators of an instance of PageLRU or ARC in MCLevels and those of *)
(* the instance of its proofs are two copies of the same definitions; the  *)
(* first lemmas of each part say so.                                       *)
(***************************************************************************)
EXTENDS MCLevels, StdContainersProofs
-----------------------------------------------------------------------------
(***************************************************************************)
(* PageLRUCache, one level and two.                                        *)
(***************************************************************************)
OneLRU == INSTANCE PageLRUProofs
  WITH key_tracker <- upper_tracker, key_to_value <- upper_table,
       issueTime <- upperTime
UpperLRU == INSTANCE PageLRUProofs
  WITH key_tracker <- upper_tracker, key_to_value <- upper_table,
       issueTime <- upperTime, NumPages <- NumPagesOfTwo, Capacity <- UpperCapacity
LowerLRU == INSTANCE PageLRUProofs
  WITH key_tracker <- lower_tracker, key_to_value <- lower_table,
       issueTime <- lowerTime, NumPages <- NumPagesOfTwo, Capacity <- LowerCapacity

\* The operators of OneLRU are those of One.
LEMMA OneContainers ==
  /\ One!Entry = OneLRU!Entry /\ One!Page = OneLRU!Page
  /\ \A S : One!Cardinality(S) = OneLRU!Cardinality(S)
  /\ \A m : One!Keys(m) = OneLRU!Keys(m)
  /\ \A m : One!MapSize(m) = OneLRU!MapSize(m)
  /\ \A m : One!DirtyKeys(m) = OneLRU!DirtyKeys(m)
  /\ \A m, k : One!MapErase(m, k) = OneLRU!MapErase(m, k)
  /\ \A m, k, e : One!MapInsert(m, k, e) = OneLRU!MapInsert(m, k, e)
  /\ \A s, k : One!ListRemove(s, k) = OneLRU!ListRemove(s, k)
  /\ \A s, m : One!Linked(s, m) <=> OneLRU!Linked(s, m)
  /\ \A m, k : One!Run(m, k) = OneLRU!Run(m, k)
<1>1. One!Entry = OneLRU!Entry /\ One!Page = OneLRU!Page
  BY DEF One!Entry, OneLRU!Entry, One!Page, OneLRU!Page
<1>2. ASSUME NEW S PROVE One!Cardinality(S) = OneLRU!Cardinality(S)
  BY DEF One!Cardinality, OneLRU!Cardinality
<1>3. ASSUME NEW m
      PROVE  /\ One!Keys(m) = OneLRU!Keys(m)
             /\ One!MapSize(m) = OneLRU!MapSize(m)
             /\ One!DirtyKeys(m) = OneLRU!DirtyKeys(m)
  BY <1>2
     DEF One!MapSize, OneLRU!MapSize, One!Keys, OneLRU!Keys, One!DirtyKeys,
         OneLRU!DirtyKeys
<1>4. ASSUME NEW m, NEW k, NEW e
      PROVE  /\ One!MapErase(m, k) = OneLRU!MapErase(m, k)
             /\ One!MapInsert(m, k, e) = OneLRU!MapInsert(m, k, e)
  BY DEF One!MapErase, OneLRU!MapErase, One!MapInsert, OneLRU!MapInsert
<1>5. ASSUME NEW s, NEW k PROVE One!ListRemove(s, k) = OneLRU!ListRemove(s, k)
  BY DEF One!ListRemove, OneLRU!ListRemove, One!ListErase, OneLRU!ListErase,
         One!KeptPositions, OneLRU!KeptPositions, One!Nth, OneLRU!Nth,
         One!Cardinality, OneLRU!Cardinality
<1>6. ASSUME NEW s, NEW m PROVE One!Linked(s, m) <=> OneLRU!Linked(s, m)
  BY DEF One!Linked, OneLRU!Linked, One!ListSet, OneLRU!ListSet, One!Keys, OneLRU!Keys,
         One!NoDuplicates, OneLRU!NoDuplicates
<1>7. ASSUME NEW m, NEW k PROVE One!Run(m, k) = OneLRU!Run(m, k)
  BY DEF One!Run, OneLRU!Run, One!SeqLength, OneLRU!SeqLength, One!Before,
         OneLRU!Before, One!After, OneLRU!After, One!DirtyAt, OneLRU!DirtyAt,
         One!Ring, OneLRU!Ring, One!Cardinality, OneLRU!Cardinality
<1>8. QED
  BY <1>1, <1>2, <1>3, <1>4, <1>5, <1>6, <1>7

\* So are its state functions.
LEMMA OneFunctions ==
  /\ \A log : One!LoggedLength(log) = OneLRU!LoggedLength(log)
  /\ One!Swept = OneLRU!Swept
  /\ One!FlushTime = OneLRU!FlushTime
  /\ \A t : One!NextMultiple(t) = OneLRU!NextMultiple(t)
  /\ \A op, old : One!NewEntry(op, old) = OneLRU!NewEntry(op, old)
  /\ One!Cached = OneLRU!Cached
  /\ One!Dirty = OneLRU!Dirty
  /\ One!Flushed = OneLRU!Flushed
  /\ One!Consistent <=> OneLRU!Consistent
  /\ One!Init <=> OneLRU!Init
<1>1. ASSUME NEW log PROVE One!LoggedLength(log) = OneLRU!LoggedLength(log)
  BY DEF One!LoggedLength, OneLRU!LoggedLength, One!Cardinality, OneLRU!Cardinality
<1>2. One!Swept = OneLRU!Swept
  BY DEF One!Swept, OneLRU!Swept, One!Cleaned, OneLRU!Cleaned, One!Run, OneLRU!Run,
         One!SeqLength, OneLRU!SeqLength, One!Before, OneLRU!Before, One!After,
         OneLRU!After, One!DirtyAt, OneLRU!DirtyAt, One!Ring, OneLRU!Ring,
         One!Cardinality, OneLRU!Cardinality
<1>3. /\ One!FlushTime = OneLRU!FlushTime
      /\ \A t : One!NextMultiple(t) = OneLRU!NextMultiple(t)
      /\ \A op, old : One!NewEntry(op, old) = OneLRU!NewEntry(op, old)
  BY DEF One!FlushTime, OneLRU!FlushTime, One!NextMultiple, OneLRU!NextMultiple,
         One!NewEntry, OneLRU!NewEntry
<1>4. /\ One!Cached = OneLRU!Cached
      /\ One!Dirty = OneLRU!Dirty
      /\ One!Flushed = OneLRU!Flushed
  BY OneContainers
     DEF One!Cached, OneLRU!Cached, One!Dirty, OneLRU!Dirty, One!Flushed,
         OneLRU!Flushed
<1>5. One!TypeOK <=> OneLRU!TypeOK
  BY OneContainers, Zenon DEF One!TypeOK, OneLRU!TypeOK
<1>6. One!Consistent <=> OneLRU!Consistent
  BY <1>5, OneContainers, Zenon DEF One!Consistent, OneLRU!Consistent
<1>7. One!Init <=> OneLRU!Init
  BY OneContainers DEF One!Init, OneLRU!Init, One!NoEntries, OneLRU!NoEntries
<1>8. QED
  BY <1>1, <1>2, <1>3, <1>4, <1>6, <1>7

\* And its accesses.
LEMMA OneActions ==
  ASSUME NEW k, NEW op, NEW t
  PROVE  /\ One!access(k, op, t) => OneLRU!access(k, op, t)
         /\ OneLRU!GroupsAndCounts => One!GroupsAndCounts
         /\ One!Flushed' = OneLRU!Flushed'
<1>1. ASSUME NEW m
      PROVE  One!Hit(m, k, op) => OneLRU!Hit(m, k, op)
  BY OneContainers, OneFunctions DEF One!Hit, OneLRU!Hit
<1>2. ASSUME NEW m PROVE One!InsertWithRoom(m, k, op) => OneLRU!InsertWithRoom(m, k, op)
  BY OneContainers, OneFunctions DEF One!InsertWithRoom, OneLRU!InsertWithRoom
<1>3. ASSUME NEW m PROVE One!EvictInsert(m, k, op) => OneLRU!EvictInsert(m, k, op)
  BY OneContainers, OneFunctions DEF One!EvictInsert, OneLRU!EvictInsert
<1>4. ASSUME NEW m PROVE One!LookUp(m, k, op) => OneLRU!LookUp(m, k, op)
  BY <1>1, <1>2, <1>3 DEF One!LookUp, OneLRU!LookUp
<1>5. One!FlushAndAccess(k, op, t) => OneLRU!FlushAndAccess(k, op, t)
  BY <1>4, OneFunctions DEF One!FlushAndAccess, OneLRU!FlushAndAccess
<1>6. One!PlainAccess(k, op, t) => OneLRU!PlainAccess(k, op, t)
  BY <1>4, OneFunctions DEF One!PlainAccess, OneLRU!PlainAccess
<1>7. One!LastLogTime(t) = OneLRU!LastLogTime(t)
  BY OneFunctions DEF One!LastLogTime, OneLRU!LastLogTime
<1>8. One!access(k, op, t) => OneLRU!access(k, op, t)
  BY <1>5, <1>6, <1>7, OneContainers, OneFunctions DEF One!access, OneLRU!access
<1>9. One!Flushed' = OneLRU!Flushed'
  BY DEF One!Flushed, OneLRU!Flushed
<1>10. OneLRU!GroupsAndCounts => One!GroupsAndCounts
  BY <1>9, OneContainers DEF One!GroupsAndCounts, OneLRU!GroupsAndCounts
<1>11. QED
  BY <1>8, <1>9, <1>10

\* The operators of UpperLRU are those of Two!Upper.
LEMMA UpperLRUContainers ==
  /\ Two!Upper!Entry = UpperLRU!Entry /\ Two!Upper!Page = UpperLRU!Page
  /\ \A S : Two!Upper!Cardinality(S) = UpperLRU!Cardinality(S)
  /\ \A m : Two!Upper!Keys(m) = UpperLRU!Keys(m)
  /\ \A m : Two!Upper!MapSize(m) = UpperLRU!MapSize(m)
  /\ \A m : Two!Upper!DirtyKeys(m) = UpperLRU!DirtyKeys(m)
  /\ \A m, k : Two!Upper!MapErase(m, k) = UpperLRU!MapErase(m, k)
  /\ \A m, k, e : Two!Upper!MapInsert(m, k, e) = UpperLRU!MapInsert(m, k, e)
  /\ \A s, k : Two!Upper!ListRemove(s, k) = UpperLRU!ListRemove(s, k)
  /\ \A s, m : Two!Upper!Linked(s, m) <=> UpperLRU!Linked(s, m)
  /\ \A m, k : Two!Upper!Run(m, k) = UpperLRU!Run(m, k)
<1>1. Two!Upper!Entry = UpperLRU!Entry /\ Two!Upper!Page = UpperLRU!Page
  BY DEF Two!Upper!Entry, UpperLRU!Entry, Two!Upper!Page, UpperLRU!Page
<1>2. ASSUME NEW S PROVE Two!Upper!Cardinality(S) = UpperLRU!Cardinality(S)
  BY DEF Two!Upper!Cardinality, UpperLRU!Cardinality
<1>3. ASSUME NEW m
      PROVE  /\ Two!Upper!Keys(m) = UpperLRU!Keys(m)
             /\ Two!Upper!MapSize(m) = UpperLRU!MapSize(m)
             /\ Two!Upper!DirtyKeys(m) = UpperLRU!DirtyKeys(m)
  BY <1>2
     DEF Two!Upper!MapSize, UpperLRU!MapSize, Two!Upper!Keys, UpperLRU!Keys,
         Two!Upper!DirtyKeys, UpperLRU!DirtyKeys
<1>4. ASSUME NEW m, NEW k, NEW e
      PROVE  /\ Two!Upper!MapErase(m, k) = UpperLRU!MapErase(m, k)
             /\ Two!Upper!MapInsert(m, k, e) = UpperLRU!MapInsert(m, k, e)
  BY DEF Two!Upper!MapErase, UpperLRU!MapErase, Two!Upper!MapInsert, UpperLRU!MapInsert
<1>5. ASSUME NEW s, NEW k PROVE Two!Upper!ListRemove(s, k) = UpperLRU!ListRemove(s, k)
  BY DEF Two!Upper!ListRemove, UpperLRU!ListRemove, Two!Upper!ListErase,
         UpperLRU!ListErase, Two!Upper!KeptPositions, UpperLRU!KeptPositions,
         Two!Upper!Nth, UpperLRU!Nth, Two!Upper!Cardinality, UpperLRU!Cardinality
<1>6. ASSUME NEW s, NEW m PROVE Two!Upper!Linked(s, m) <=> UpperLRU!Linked(s, m)
  BY DEF Two!Upper!Linked, UpperLRU!Linked, Two!Upper!ListSet, UpperLRU!ListSet,
         Two!Upper!Keys, UpperLRU!Keys, Two!Upper!NoDuplicates, UpperLRU!NoDuplicates
<1>7. ASSUME NEW m, NEW k PROVE Two!Upper!Run(m, k) = UpperLRU!Run(m, k)
  BY DEF Two!Upper!Run, UpperLRU!Run, Two!Upper!SeqLength, UpperLRU!SeqLength,
         Two!Upper!Before, UpperLRU!Before, Two!Upper!After, UpperLRU!After,
         Two!Upper!DirtyAt, UpperLRU!DirtyAt, Two!Upper!Ring, UpperLRU!Ring,
         Two!Upper!Cardinality, UpperLRU!Cardinality
<1>8. QED
  BY <1>1, <1>2, <1>3, <1>4, <1>5, <1>6, <1>7

\* So are its state functions.
LEMMA UpperLRUFunctions ==
  /\ \A log : Two!Upper!LoggedLength(log) = UpperLRU!LoggedLength(log)
  /\ Two!Upper!Swept = UpperLRU!Swept
  /\ Two!Upper!FlushTime = UpperLRU!FlushTime
  /\ \A t : Two!Upper!NextMultiple(t) = UpperLRU!NextMultiple(t)
  /\ \A op, old : Two!Upper!NewEntry(op, old) = UpperLRU!NewEntry(op, old)
  /\ Two!Upper!Cached = UpperLRU!Cached
  /\ Two!Upper!Dirty = UpperLRU!Dirty
  /\ Two!Upper!Flushed = UpperLRU!Flushed
  /\ Two!Upper!Consistent <=> UpperLRU!Consistent
  /\ Two!Upper!Init <=> UpperLRU!Init
<1>1. ASSUME NEW log PROVE Two!Upper!LoggedLength(log) = UpperLRU!LoggedLength(log)
  BY DEF Two!Upper!LoggedLength, UpperLRU!LoggedLength, Two!Upper!Cardinality,
         UpperLRU!Cardinality
<1>2. Two!Upper!Swept = UpperLRU!Swept
  BY DEF Two!Upper!Swept, UpperLRU!Swept, Two!Upper!Cleaned, UpperLRU!Cleaned,
         Two!Upper!Run, UpperLRU!Run, Two!Upper!SeqLength, UpperLRU!SeqLength,
         Two!Upper!Before, UpperLRU!Before, Two!Upper!After, UpperLRU!After,
         Two!Upper!DirtyAt, UpperLRU!DirtyAt, Two!Upper!Ring, UpperLRU!Ring,
         Two!Upper!Cardinality, UpperLRU!Cardinality
<1>3. /\ Two!Upper!FlushTime = UpperLRU!FlushTime
      /\ \A t : Two!Upper!NextMultiple(t) = UpperLRU!NextMultiple(t)
      /\ \A op, old : Two!Upper!NewEntry(op, old) = UpperLRU!NewEntry(op, old)
  BY DEF Two!Upper!FlushTime, UpperLRU!FlushTime, Two!Upper!NextMultiple,
         UpperLRU!NextMultiple, Two!Upper!NewEntry, UpperLRU!NewEntry
<1>4. /\ Two!Upper!Cached = UpperLRU!Cached
      /\ Two!Upper!Dirty = UpperLRU!Dirty
      /\ Two!Upper!Flushed = UpperLRU!Flushed
  BY UpperLRUContainers
     DEF Two!Upper!Cached, UpperLRU!Cached, Two!Upper!Dirty, UpperLRU!Dirty,
         Two!Upper!Flushed, UpperLRU!Flushed
<1>5. Two!Upper!TypeOK <=> UpperLRU!TypeOK
  BY UpperLRUContainers, Zenon DEF Two!Upper!TypeOK, UpperLRU!TypeOK
<1>6. Two!Upper!Consistent <=> UpperLRU!Consistent
  BY <1>5, UpperLRUContainers, Zenon DEF Two!Upper!Consistent, UpperLRU!Consistent
<1>7. Two!Upper!Init <=> UpperLRU!Init
  BY UpperLRUContainers
     DEF Two!Upper!Init, UpperLRU!Init, Two!Upper!NoEntries, UpperLRU!NoEntries
<1>8. QED
  BY <1>1, <1>2, <1>3, <1>4, <1>6, <1>7

\* And its accesses.
LEMMA UpperLRUActions ==
  ASSUME NEW k, NEW op, NEW t
  PROVE  /\ Two!Upper!access(k, op, t) => UpperLRU!access(k, op, t)
         /\ UpperLRU!GroupsAndCounts => Two!Upper!GroupsAndCounts
         /\ Two!Upper!Flushed' = UpperLRU!Flushed'
<1>1. ASSUME NEW m
      PROVE  Two!Upper!Hit(m, k, op) => UpperLRU!Hit(m, k, op)
  BY UpperLRUContainers, UpperLRUFunctions DEF Two!Upper!Hit, UpperLRU!Hit
<1>2. ASSUME NEW m
      PROVE  Two!Upper!InsertWithRoom(m, k, op) => UpperLRU!InsertWithRoom(m, k, op)
  BY UpperLRUContainers, UpperLRUFunctions
     DEF Two!Upper!InsertWithRoom, UpperLRU!InsertWithRoom
<1>3. ASSUME NEW m
      PROVE  Two!Upper!EvictInsert(m, k, op) => UpperLRU!EvictInsert(m, k, op)
  BY UpperLRUContainers, UpperLRUFunctions
     DEF Two!Upper!EvictInsert, UpperLRU!EvictInsert
<1>4. ASSUME NEW m PROVE Two!Upper!LookUp(m, k, op) => UpperLRU!LookUp(m, k, op)
  BY <1>1, <1>2, <1>3 DEF Two!Upper!LookUp, UpperLRU!LookUp
<1>5. Two!Upper!FlushAndAccess(k, op, t) => UpperLRU!FlushAndAccess(k, op, t)
  BY <1>4, UpperLRUFunctions DEF Two!Upper!FlushAndAccess, UpperLRU!FlushAndAccess
<1>6. Two!Upper!PlainAccess(k, op, t) => UpperLRU!PlainAccess(k, op, t)
  BY <1>4, UpperLRUFunctions DEF Two!Upper!PlainAccess, UpperLRU!PlainAccess
<1>7. Two!Upper!LastLogTime(t) = UpperLRU!LastLogTime(t)
  BY UpperLRUFunctions DEF Two!Upper!LastLogTime, UpperLRU!LastLogTime
<1>8. Two!Upper!access(k, op, t) => UpperLRU!access(k, op, t)
  BY <1>5, <1>6, <1>7, UpperLRUContainers, UpperLRUFunctions
     DEF Two!Upper!access, UpperLRU!access
<1>9. Two!Upper!Flushed' = UpperLRU!Flushed'
  BY DEF Two!Upper!Flushed, UpperLRU!Flushed
<1>10. UpperLRU!GroupsAndCounts => Two!Upper!GroupsAndCounts
  BY <1>9, UpperLRUContainers DEF Two!Upper!GroupsAndCounts, UpperLRU!GroupsAndCounts
<1>11. QED
  BY <1>8, <1>9, <1>10

\* The operators of LowerLRU are those of Two!Lower.
LEMMA LowerLRUContainers ==
  /\ Two!Lower!Entry = LowerLRU!Entry /\ Two!Lower!Page = LowerLRU!Page
  /\ \A S : Two!Lower!Cardinality(S) = LowerLRU!Cardinality(S)
  /\ \A m : Two!Lower!Keys(m) = LowerLRU!Keys(m)
  /\ \A m : Two!Lower!MapSize(m) = LowerLRU!MapSize(m)
  /\ \A m : Two!Lower!DirtyKeys(m) = LowerLRU!DirtyKeys(m)
  /\ \A m, k : Two!Lower!MapErase(m, k) = LowerLRU!MapErase(m, k)
  /\ \A m, k, e : Two!Lower!MapInsert(m, k, e) = LowerLRU!MapInsert(m, k, e)
  /\ \A s, k : Two!Lower!ListRemove(s, k) = LowerLRU!ListRemove(s, k)
  /\ \A s, m : Two!Lower!Linked(s, m) <=> LowerLRU!Linked(s, m)
  /\ \A m, k : Two!Lower!Run(m, k) = LowerLRU!Run(m, k)
<1>1. Two!Lower!Entry = LowerLRU!Entry /\ Two!Lower!Page = LowerLRU!Page
  BY DEF Two!Lower!Entry, LowerLRU!Entry, Two!Lower!Page, LowerLRU!Page
<1>2. ASSUME NEW S PROVE Two!Lower!Cardinality(S) = LowerLRU!Cardinality(S)
  BY DEF Two!Lower!Cardinality, LowerLRU!Cardinality
<1>3. ASSUME NEW m
      PROVE  /\ Two!Lower!Keys(m) = LowerLRU!Keys(m)
             /\ Two!Lower!MapSize(m) = LowerLRU!MapSize(m)
             /\ Two!Lower!DirtyKeys(m) = LowerLRU!DirtyKeys(m)
  BY <1>2
     DEF Two!Lower!MapSize, LowerLRU!MapSize, Two!Lower!Keys, LowerLRU!Keys,
         Two!Lower!DirtyKeys, LowerLRU!DirtyKeys
<1>4. ASSUME NEW m, NEW k, NEW e
      PROVE  /\ Two!Lower!MapErase(m, k) = LowerLRU!MapErase(m, k)
             /\ Two!Lower!MapInsert(m, k, e) = LowerLRU!MapInsert(m, k, e)
  BY DEF Two!Lower!MapErase, LowerLRU!MapErase, Two!Lower!MapInsert, LowerLRU!MapInsert
<1>5. ASSUME NEW s, NEW k PROVE Two!Lower!ListRemove(s, k) = LowerLRU!ListRemove(s, k)
  BY DEF Two!Lower!ListRemove, LowerLRU!ListRemove, Two!Lower!ListErase,
         LowerLRU!ListErase, Two!Lower!KeptPositions, LowerLRU!KeptPositions,
         Two!Lower!Nth, LowerLRU!Nth, Two!Lower!Cardinality, LowerLRU!Cardinality
<1>6. ASSUME NEW s, NEW m PROVE Two!Lower!Linked(s, m) <=> LowerLRU!Linked(s, m)
  BY DEF Two!Lower!Linked, LowerLRU!Linked, Two!Lower!ListSet, LowerLRU!ListSet,
         Two!Lower!Keys, LowerLRU!Keys, Two!Lower!NoDuplicates, LowerLRU!NoDuplicates
<1>7. ASSUME NEW m, NEW k PROVE Two!Lower!Run(m, k) = LowerLRU!Run(m, k)
  BY DEF Two!Lower!Run, LowerLRU!Run, Two!Lower!SeqLength, LowerLRU!SeqLength,
         Two!Lower!Before, LowerLRU!Before, Two!Lower!After, LowerLRU!After,
         Two!Lower!DirtyAt, LowerLRU!DirtyAt, Two!Lower!Ring, LowerLRU!Ring,
         Two!Lower!Cardinality, LowerLRU!Cardinality
<1>8. QED
  BY <1>1, <1>2, <1>3, <1>4, <1>5, <1>6, <1>7

\* So are its state functions.
LEMMA LowerLRUFunctions ==
  /\ \A log : Two!Lower!LoggedLength(log) = LowerLRU!LoggedLength(log)
  /\ Two!Lower!Swept = LowerLRU!Swept
  /\ Two!Lower!FlushTime = LowerLRU!FlushTime
  /\ \A t : Two!Lower!NextMultiple(t) = LowerLRU!NextMultiple(t)
  /\ \A op, old : Two!Lower!NewEntry(op, old) = LowerLRU!NewEntry(op, old)
  /\ Two!Lower!Cached = LowerLRU!Cached
  /\ Two!Lower!Dirty = LowerLRU!Dirty
  /\ Two!Lower!Flushed = LowerLRU!Flushed
  /\ Two!Lower!Consistent <=> LowerLRU!Consistent
  /\ Two!Lower!Init <=> LowerLRU!Init
<1>1. ASSUME NEW log PROVE Two!Lower!LoggedLength(log) = LowerLRU!LoggedLength(log)
  BY DEF Two!Lower!LoggedLength, LowerLRU!LoggedLength, Two!Lower!Cardinality,
         LowerLRU!Cardinality
<1>2. Two!Lower!Swept = LowerLRU!Swept
  BY DEF Two!Lower!Swept, LowerLRU!Swept, Two!Lower!Cleaned, LowerLRU!Cleaned,
         Two!Lower!Run, LowerLRU!Run, Two!Lower!SeqLength, LowerLRU!SeqLength,
         Two!Lower!Before, LowerLRU!Before, Two!Lower!After, LowerLRU!After,
         Two!Lower!DirtyAt, LowerLRU!DirtyAt, Two!Lower!Ring, LowerLRU!Ring,
         Two!Lower!Cardinality, LowerLRU!Cardinality
<1>3. /\ Two!Lower!FlushTime = LowerLRU!FlushTime
      /\ \A t : Two!Lower!NextMultiple(t) = LowerLRU!NextMultiple(t)
      /\ \A op, old : Two!Lower!NewEntry(op, old) = LowerLRU!NewEntry(op, old)
  BY DEF Two!Lower!FlushTime, LowerLRU!FlushTime, Two!Lower!NextMultiple,
         LowerLRU!NextMultiple, Two!Lower!NewEntry, LowerLRU!NewEntry
<1>4. /\ Two!Lower!Cached = LowerLRU!Cached
      /\ Two!Lower!Dirty = LowerLRU!Dirty
      /\ Two!Lower!Flushed = LowerLRU!Flushed
  BY LowerLRUContainers
     DEF Two!Lower!Cached, LowerLRU!Cached, Two!Lower!Dirty, LowerLRU!Dirty,
         Two!Lower!Flushed, LowerLRU!Flushed
<1>5. Two!Lower!TypeOK <=> LowerLRU!TypeOK
  BY LowerLRUContainers, Zenon DEF Two!Lower!TypeOK, LowerLRU!TypeOK
<1>6. Two!Lower!Consistent <=> LowerLRU!Consistent
  BY <1>5, LowerLRUContainers, Zenon DEF Two!Lower!Consistent, LowerLRU!Consistent
<1>7. Two!Lower!Init <=> LowerLRU!Init
  BY LowerLRUContainers
     DEF Two!Lower!Init, LowerLRU!Init, Two!Lower!NoEntries, LowerLRU!NoEntries
<1>8. QED
  BY <1>1, <1>2, <1>3, <1>4, <1>6, <1>7

\* And its accesses.
LEMMA LowerLRUActions ==
  ASSUME NEW k, NEW op, NEW t
  PROVE  /\ Two!Lower!access(k, op, t) => LowerLRU!access(k, op, t)
         /\ LowerLRU!GroupsAndCounts => Two!Lower!GroupsAndCounts
         /\ Two!Lower!Flushed' = LowerLRU!Flushed'
<1>1. ASSUME NEW m
      PROVE  Two!Lower!Hit(m, k, op) => LowerLRU!Hit(m, k, op)
  BY LowerLRUContainers, LowerLRUFunctions DEF Two!Lower!Hit, LowerLRU!Hit
<1>2. ASSUME NEW m
      PROVE  Two!Lower!InsertWithRoom(m, k, op) => LowerLRU!InsertWithRoom(m, k, op)
  BY LowerLRUContainers, LowerLRUFunctions
     DEF Two!Lower!InsertWithRoom, LowerLRU!InsertWithRoom
<1>3. ASSUME NEW m
      PROVE  Two!Lower!EvictInsert(m, k, op) => LowerLRU!EvictInsert(m, k, op)
  BY LowerLRUContainers, LowerLRUFunctions
     DEF Two!Lower!EvictInsert, LowerLRU!EvictInsert
<1>4. ASSUME NEW m PROVE Two!Lower!LookUp(m, k, op) => LowerLRU!LookUp(m, k, op)
  BY <1>1, <1>2, <1>3 DEF Two!Lower!LookUp, LowerLRU!LookUp
<1>5. Two!Lower!FlushAndAccess(k, op, t) => LowerLRU!FlushAndAccess(k, op, t)
  BY <1>4, LowerLRUFunctions DEF Two!Lower!FlushAndAccess, LowerLRU!FlushAndAccess
<1>6. Two!Lower!PlainAccess(k, op, t) => LowerLRU!PlainAccess(k, op, t)
  BY <1>4, LowerLRUFunctions DEF Two!Lower!PlainAccess, LowerLRU!PlainAccess
<1>7. Two!Lower!LastLogTime(t) = LowerLRU!LastLogTime(t)
  BY LowerLRUFunctions DEF Two!Lower!LastLogTime, LowerLRU!LastLogTime
<1>8. Two!Lower!access(k, op, t) => LowerLRU!access(k, op, t)
  BY <1>5, <1>6, <1>7, LowerLRUContainers, LowerLRUFunctions
     DEF Two!Lower!access, LowerLRU!access
<1>9. Two!Lower!Flushed' = LowerLRU!Flushed'
  BY DEF Two!Lower!Flushed, LowerLRU!Flushed
<1>10. LowerLRU!GroupsAndCounts => Two!Lower!GroupsAndCounts
  BY <1>9, LowerLRUContainers DEF Two!Lower!GroupsAndCounts, LowerLRU!GroupsAndCounts
<1>11. QED
  BY <1>8, <1>9, <1>10

-----------------------------------------------------------------------------
\* The assumptions of PageLRU, for one level and for both of two.
LEMMA PageLRULevels ==
  /\ OneLRU!PageLRUAssumption
  /\ UpperLRU!PageLRUAssumption /\ LowerLRU!PageLRUAssumption
<1>1. /\ One!NumPagesAssumption /\ One!OpAssumption /\ One!CapacityAssumption
      /\ One!TimeAssumption /\ One!NoWrapAssumption /\ One!MaxLoggedAssumption
      /\ Two!Upper!NumPagesAssumption
      /\ Two!Upper!CapacityAssumption /\ Two!Lower!CapacityAssumption
  BY LevelsAssumption DEF LevelsAssumption
<1>2. /\ NumPages \in Nat \ {0} /\ NumPagesOfTwo \in Nat \ {0}
      /\ Capacity \in 1..(NumPages - 1)
      /\ UpperCapacity \in 1..(NumPagesOfTwo - 1)
      /\ LowerCapacity \in 1..(NumPagesOfTwo - 1)
      /\ Op \subseteq {"READ", "WRITE"}
  BY <1>1 DEF One!NumPagesAssumption, One!CapacityAssumption, One!OpAssumption,
              Two!Upper!NumPagesAssumption, Two!Upper!CapacityAssumption,
              Two!Lower!CapacityAssumption
<1>3. /\ flushTimeGap \in Nat \ {0} /\ Word \in Nat /\ MaxTime \in Nat
      /\ flushTimeGap < Word /\ MaxTime < Word
      /\ MaxTime + flushTimeGap < Word /\ MaxLogged \in Nat
  BY <1>1 DEF One!TimeAssumption, One!NoWrapAssumption, One!MaxLoggedAssumption
<1>4. OneLRU!PageLRUAssumption
  BY <1>2, <1>3
     DEF OneLRU!PageLRUAssumption, OneLRU!NumPagesAssumption, OneLRU!OpAssumption,
         OneLRU!CapacityAssumption, OneLRU!TimeAssumption, OneLRU!NoWrapAssumption,
         OneLRU!MaxLoggedAssumption
<1>5. UpperLRU!PageLRUAssumption
  BY <1>2, <1>3
     DEF UpperLRU!PageLRUAssumption, UpperLRU!NumPagesAssumption,
         UpperLRU!OpAssumption, UpperLRU!CapacityAssumption,
         UpperLRU!TimeAssumption, UpperLRU!NoWrapAssumption,
         UpperLRU!MaxLoggedAssumption
<1>6. LowerLRU!PageLRUAssumption
  BY <1>2, <1>3
     DEF LowerLRU!PageLRUAssumption, LowerLRU!NumPagesAssumption,
         LowerLRU!OpAssumption, LowerLRU!CapacityAssumption,
         LowerLRU!TimeAssumption, LowerLRU!NoWrapAssumption,
         LowerLRU!MaxLoggedAssumption
<1>7. QED
  BY <1>4, <1>5, <1>6

(***************************************************************************)
(* The inductive invariant: each level is consistent, the next flush is    *)
(* due in the interval after that of the upper level's last access, and a  *)
(* request on its way to the lower level is of that access.                *)
(***************************************************************************)
OneInv ==
  hierarchy = "pagelru" => OneLRU!Consistent /\ OneLRU!Times(upperTime)

TwoInv ==
  hierarchy = "pagelruTwice" =>
    /\ UpperLRU!Consistent /\ LowerLRU!Consistent /\ UpperLRU!Times(upperTime)
    /\ request # NoRequest =>
         request \in [page : UpperLRU!Page, op : Op, time : {upperTime}]

\* What both levels of two mean by the time, an interval and the pages.
LEMMA SameTimes ==
  /\ \A now : UpperLRU!Times(now) <=> LowerLRU!Times(now)
  /\ UpperLRU!Page = LowerLRU!Page
  /\ \A t : /\ UpperLRU!Interval(t) = t \div flushTimeGap
            /\ LowerLRU!Interval(t) = t \div flushTimeGap
            /\ OneLRU!Interval(t) = t \div flushTimeGap
BY DEF UpperLRU!Times, LowerLRU!Times, UpperLRU!Interval, LowerLRU!Interval,
       OneLRU!Interval, UpperLRU!Page, LowerLRU!Page

\* The inductive invariant holds before the first request.
LEMMA PageLRUInit == Init => OneInv /\ TwoInv
<1>1. ASSUME Init, hierarchy = "pagelru"
      PROVE  OneLRU!Consistent /\ OneLRU!Times(upperTime)
  <2>1. OneLRU!Init /\ upperTime = 0
    BY <1>1, OneFunctions DEF Init, One!Init
  <2>2. QED
    BY <2>1, PageLRULevels, OneLRU!InitFacts
<1>2. ASSUME Init, hierarchy = "pagelruTwice"
      PROVE  /\ UpperLRU!Consistent /\ LowerLRU!Consistent
             /\ UpperLRU!Times(upperTime) /\ request = NoRequest
  <2>1. Two!Upper!Init /\ Two!Lower!Init /\ request = NoRequest
    BY <1>2 DEF Init, Two!Init
  <2>2. UpperLRU!Init /\ LowerLRU!Init /\ upperTime = 0
    BY <2>1, UpperLRUFunctions, LowerLRUFunctions DEF Two!Upper!Init
  <2>3. QED
    BY <2>1, <2>2, PageLRULevels, UpperLRU!InitFacts, LowerLRU!InitFacts
<1>3. QED
  BY <1>1, <1>2 DEF OneInv, TwoInv

\* An access of the only level.
LEMMA OneStep ==
  ASSUME OneInv, hierarchy = "pagelru", Next
  PROVE  \E k \in OneLRU!Page, op \in Op, t \in upperTime..MaxTime :
           /\ OneLRU!Stepped(upperTime, k, op, t)
           /\ OneLRU!Consistent'
           /\ upperTime' = t /\ t \in 0..MaxTime
           /\ multipleFlushTimeGap' = OneLRU!Interval(t) + 1
           /\ logTime' \in 0..t /\ logTime' >= logTime
           /\ OneLRU!GroupsAndCounts
           /\ OneLRU!Dirty' \subseteq OneLRU!Cached'
           /\ OneLRU!Cardinality(OneLRU!Cached') <= Capacity
<1>1. One!Next
  BY DEF Next
<1>2. PICK k \in OneLRU!Page, op \in Op, t \in upperTime..MaxTime :
        OneLRU!access(k, op, t)
  BY <1>1, OneContainers, OneActions DEF One!Next
<1>3. OneLRU!Consistent /\ OneLRU!Times(upperTime)
  BY DEF OneInv
<1>4. /\ OneLRU!Stepped(upperTime, k, op, t)
      /\ OneLRU!Consistent'
      /\ upperTime' = t /\ multipleFlushTimeGap' = OneLRU!Interval(t) + 1
      /\ logTime' \in 0..t /\ logTime' >= logTime
      /\ OneLRU!GroupsAndCounts
      /\ OneLRU!Dirty' \subseteq OneLRU!Cached'
      /\ OneLRU!Cardinality(OneLRU!Cached') <= Capacity
  BY <1>2, <1>3, PageLRULevels, OneLRU!AccessFacts
<1>5. t \in 0..MaxTime
  BY <1>2, <1>3, PageLRULevels
     DEF OneLRU!Times, OneLRU!PageLRUAssumption, OneLRU!TimeAssumption
<1>6. QED
  BY <1>2, <1>4, <1>5

\* An access of the upper of two levels.
LEMMA UpperStep ==
  ASSUME TwoInv, hierarchy = "pagelruTwice", Two!AccessUpper
  PROVE  \E k \in UpperLRU!Page, op \in Op, t \in upperTime..MaxTime :
           /\ UpperLRU!Stepped(upperTime, k, op, t)
           /\ UpperLRU!Consistent' /\ LowerLRU!Consistent'
           /\ upperTime' = t /\ t \in 0..MaxTime
           /\ multipleFlushTimeGap' = UpperLRU!Interval(t) + 1
           /\ logTime' \in 0..t /\ logTime' >= logTime
           /\ UpperLRU!GroupsAndCounts
           /\ request' \in {NoRequest, [page |-> k, op |-> op, time |-> t]}
<1>1. PICK k \in UpperLRU!Page, op \in Op, t \in upperTime..MaxTime :
        /\ Two!Upper!access(k, op, t)
        /\ request' \in {NoRequest, [page |-> k, op |-> op, time |-> t]}
  BY DEF Two!AccessUpper, Two!Page, UpperLRU!Page
<1>2. UpperLRU!Consistent /\ LowerLRU!Consistent /\ UpperLRU!Times(upperTime)
  BY DEF TwoInv
<1>3. UpperLRU!access(k, op, t)
  BY <1>1, UpperLRUActions
<1>4. /\ UpperLRU!Stepped(upperTime, k, op, t)
      /\ UpperLRU!Consistent'
      /\ upperTime' = t /\ multipleFlushTimeGap' = UpperLRU!Interval(t) + 1
      /\ logTime' \in 0..t /\ logTime' >= logTime
      /\ UpperLRU!GroupsAndCounts
  BY <1>1, <1>2, <1>3, PageLRULevels, UpperLRU!AccessFacts
<1>5. t \in 0..MaxTime
  BY <1>1, <1>2, PageLRULevels
     DEF UpperLRU!Times, UpperLRU!PageLRUAssumption, UpperLRU!TimeAssumption
<1>6. LowerLRU!Consistent'
  <2>1. UNCHANGED <<lower_tracker, lower_table, lowerTime>>
    BY DEF Two!AccessUpper
  <2>2. /\ totalSeqEvictedDirtyPages' \in Nat
        /\ multipleFlushTimeGap' \in 0..(Word - 1)
        /\ runs' \in Seq(SUBSET LowerLRU!Page) /\ evicted' \in SUBSET LowerLRU!Page
        /\ logTime' \in 0..MaxTime
    BY <1>4, SameTimes DEF UpperLRU!Consistent, UpperLRU!TypeOK
  <2>3. QED
    BY <1>2, <2>1, <2>2, LowerLRU!OtherLevelAccess
<1>7. QED
  BY <1>1, <1>4, <1>5, <1>6

\* An access of the lower of two levels, at the time of the upper's last one.
LEMMA LowerStep ==
  ASSUME TwoInv, hierarchy = "pagelruTwice", Two!AccessLower
  PROVE  /\ UpperLRU!Consistent' /\ LowerLRU!Consistent'
         /\ upperTime' = upperTime /\ upperTime \in 0..MaxTime
         /\ multipleFlushTimeGap' = UpperLRU!Interval(upperTime) + 1
         /\ logTime' \in 0..upperTime /\ logTime' >= logTime
         /\ LowerLRU!GroupsAndCounts
         /\ request' = NoRequest
<1>1. /\ request # NoRequest /\ Two!Lower!access(request.page, request.op, request.time)
      /\ request' = NoRequest
      /\ UNCHANGED <<upper_tracker, upper_table, upperTime>>
  BY DEF Two!AccessLower
<1>2. /\ UpperLRU!Consistent /\ LowerLRU!Consistent /\ LowerLRU!Times(upperTime)
      /\ request \in [page : LowerLRU!Page, op : Op, time : {upperTime}]
  BY <1>1, SameTimes DEF TwoInv
<1>3. /\ request.page \in LowerLRU!Page /\ request.op \in Op
      /\ request.time = upperTime
  BY <1>2
<1>4. LowerLRU!access(request.page, request.op, upperTime)
  BY <1>1, <1>3, LowerLRUActions
<1>5. upperTime \in 0..MaxTime /\ upperTime \in upperTime..MaxTime
  <2>1. upperTime \in 0..MaxTime /\ MaxTime \in Nat
    BY <1>2, PageLRULevels
       DEF LowerLRU!Times, LowerLRU!PageLRUAssumption, LowerLRU!TimeAssumption
  <2>2. QED
    BY <2>1
<1>6. /\ LowerLRU!Consistent'
      /\ multipleFlushTimeGap' = LowerLRU!Interval(upperTime) + 1
      /\ logTime' \in 0..upperTime /\ logTime' >= logTime
      /\ LowerLRU!GroupsAndCounts
  BY <1>2, <1>3, <1>4, <1>5, PageLRULevels, LowerLRU!AccessFacts
<1>7. UpperLRU!Consistent'
  <2>1. /\ totalSeqEvictedDirtyPages' \in Nat
        /\ multipleFlushTimeGap' \in 0..(Word - 1)
        /\ runs' \in Seq(SUBSET UpperLRU!Page) /\ evicted' \in SUBSET UpperLRU!Page
        /\ logTime' \in 0..MaxTime
    BY <1>6, SameTimes DEF LowerLRU!Consistent, LowerLRU!TypeOK
  <2>2. QED
    BY <1>1, <1>2, <2>1, UpperLRU!OtherLevelAccess
<1>8. multipleFlushTimeGap' = UpperLRU!Interval(upperTime) + 1
  BY <1>6, SameTimes
<1>9. QED
  BY <1>1, <1>5, <1>6, <1>7, <1>8

\* A step that leaves everything unchanged.
LEMMA PageLRUIdle ==
  ASSUME OneInv, TwoInv, UNCHANGED vars
  PROVE  OneInv' /\ TwoInv'
<1>1. /\ hierarchy' = hierarchy /\ request' = request
      /\ upper_tracker' = upper_tracker /\ upper_table' = upper_table
      /\ upperTime' = upperTime /\ lower_tracker' = lower_tracker
      /\ lower_table' = lower_table /\ lowerTime' = lowerTime
      /\ multipleFlushTimeGap' = multipleFlushTimeGap
      /\ totalSeqEvictedDirtyPages' = totalSeqEvictedDirtyPages
      /\ runs' = runs /\ evicted' = evicted /\ logTime' = logTime
  BY DEF vars, upperVars, lowerVars
<1>2. OneInv'
  BY <1>1 DEF OneInv, OneLRU!Consistent, OneLRU!TypeOK, OneLRU!Times
<1>3. TwoInv'
  <2>1. SUFFICES ASSUME hierarchy = "pagelruTwice" PROVE TwoInv'
    BY <1>1 DEF TwoInv
  <2>2. /\ UpperLRU!Consistent /\ LowerLRU!Consistent /\ UpperLRU!Times(upperTime)
        /\ request # NoRequest =>
             request \in [page : UpperLRU!Page, op : Op, time : {upperTime}]
    BY <2>1 DEF TwoInv
  <2>3. UpperLRU!Consistent'
    BY <1>1, <2>2, Zenon DEF UpperLRU!Consistent, UpperLRU!TypeOK
  <2>4. LowerLRU!Consistent'
    BY <1>1, <2>2, Zenon DEF LowerLRU!Consistent, LowerLRU!TypeOK
  <2>5. UpperLRU!Times(upperTime)'
    BY <1>1, <2>2, Zenon DEF UpperLRU!Times
  <2>6. QED
    BY <1>1, <2>2, <2>3, <2>4, <2>5, Zenon DEF TwoInv
<1>4. QED
  BY <1>2, <1>3

\* Every step keeps the inductive invariant.
LEMMA PageLRUNext == OneInv /\ TwoInv /\ [Next]_vars => OneInv' /\ TwoInv'
<1> SUFFICES ASSUME OneInv, TwoInv, Next PROVE OneInv' /\ TwoInv'
  BY PageLRUIdle
<1>1. hierarchy' = hierarchy
  BY DEF Next
<1>2. ASSUME hierarchy = "pagelru" PROVE OneInv'
  <2>1. PICK t \in 0..MaxTime :
          /\ OneLRU!Consistent' /\ upperTime' = t
          /\ multipleFlushTimeGap' = OneLRU!Interval(t) + 1
          /\ logTime' \in 0..t
    BY <1>2, OneStep
  <2>2. OneLRU!Times(upperTime)'
    BY <2>1 DEF OneLRU!Times, OneLRU!Interval
  <2>3. QED
    BY <2>1, <2>2 DEF OneInv
<1>3. ASSUME hierarchy = "pagelruTwice" PROVE TwoInv'
  <2>1. Two!AccessUpper \/ Two!AccessLower
    BY <1>3 DEF Next, Two!Next
  <2>2. CASE Two!AccessUpper
    <3>1. PICK k \in UpperLRU!Page, op \in Op, t \in 0..MaxTime :
            /\ UpperLRU!Consistent' /\ LowerLRU!Consistent'
            /\ upperTime' = t
            /\ multipleFlushTimeGap' = UpperLRU!Interval(t) + 1
            /\ logTime' \in 0..t
            /\ request' \in {NoRequest, [page |-> k, op |-> op, time |-> t]}
      BY <1>3, <2>2, UpperStep
    <3>2. UpperLRU!Times(upperTime)'
      BY <3>1 DEF UpperLRU!Times, UpperLRU!Interval
    <3>3. (request # NoRequest =>
             request \in [page : UpperLRU!Page, op : Op, time : {upperTime}])'
      BY <3>1 DEF UpperLRU!Page
    <3>4. QED
      BY <3>1, <3>2, <3>3 DEF TwoInv
  <2>3. CASE Two!AccessLower
    <3>1. /\ UpperLRU!Consistent' /\ LowerLRU!Consistent'
          /\ upperTime' = upperTime /\ upperTime \in 0..MaxTime
          /\ multipleFlushTimeGap' = UpperLRU!Interval(upperTime) + 1
          /\ logTime' \in 0..upperTime
          /\ request' = NoRequest
      BY <1>3, <2>3, LowerStep
    <3>2. UpperLRU!Times(upperTime)'
      BY <3>1 DEF UpperLRU!Times, UpperLRU!Interval
    <3>3. QED
      BY <3>1, <3>2 DEF TwoInv
  <2>4. QED
    BY <2>1, <2>2, <2>3
<1>4. QED
  BY <1>1, <1>2, <1>3 DEF OneInv, TwoInv

(***************************************************************************)
(* The list and the table of PageLRUCache describe the same pages, each    *)
(* once and never more than the capacity, for one level and for two.       *)
(***************************************************************************)
THEOREM PageLRUAlwaysConsistent == Spec => []PageLRUConsistent
<1>1. OneInv /\ TwoInv => PageLRUConsistent
  BY OneFunctions, UpperLRUFunctions, LowerLRUFunctions
     DEF OneInv, TwoInv, PageLRUConsistent
<1>2. QED
  BY <1>1, PageLRUInit, PageLRUNext, PTL DEF Spec

(***************************************************************************)
(* The first access of an interval flushes every dirty page and no other   *)
(* one flushes more than it evicts, for every interval and every sequence  *)
(* of times; at the upper of two levels too, where it is the lower one     *)
(* that makes most of the accesses in between.                             *)
(***************************************************************************)
THEOREM FlushesOnce == Spec => FlushesOncePerInterval
<1>1. ASSUME OneInv, Next, hierarchy = "pagelru" PROVE One!FlushesOnTime
  <2>1. PICK k \in OneLRU!Page, op \in Op, t \in upperTime..MaxTime :
          /\ OneLRU!Stepped(upperTime, k, op, t) /\ upperTime' = t
    BY <1>1, OneStep
  <2>2. IF OneLRU!Interval(t) > OneLRU!Interval(upperTime)
        THEN OneLRU!Dirty \subseteq OneLRU!Flushed'
        ELSE OneLRU!Flushed' # {} => OneLRU!Flushed' = {upper_tracker[1]}
    BY <2>1 DEF OneLRU!Stepped
  <2>3. One!Dirty = OneLRU!Dirty /\ One!Flushed' = OneLRU!Flushed'
    BY OneFunctions, OneActions
  <2>4. QED
    BY <2>1, <2>2, <2>3, SameTimes DEF One!FlushesOnTime, One!Interval
<1>2. ASSUME TwoInv, Next, hierarchy = "pagelruTwice" PROVE Two!UpperFlushes
  <2>1. Two!AccessUpper \/ Two!AccessLower
    BY <1>2 DEF Next, Two!Next
  <2>2. CASE Two!AccessUpper
    <3>1. PICK k \in UpperLRU!Page, op \in Op, t \in upperTime..MaxTime :
            /\ UpperLRU!Stepped(upperTime, k, op, t) /\ upperTime' = t
      BY <1>2, <2>2, UpperStep
    <3>2. UpperLRU!Interval(t) > UpperLRU!Interval(upperTime)
            => UpperLRU!Dirty \subseteq UpperLRU!Flushed'
      BY <3>1 DEF UpperLRU!Stepped
    <3>3. /\ Two!DirtyKeys(upper_table) = UpperLRU!Dirty
          /\ Two!Upper!Flushed' = UpperLRU!Flushed'
      BY UpperLRUActions DEF Two!DirtyKeys, UpperLRU!Dirty, UpperLRU!DirtyKeys
    <3>4. QED
      BY <3>1, <3>2, <3>3, SameTimes DEF Two!UpperFlushes, Two!FirstOfInterval
  <2>3. CASE Two!AccessLower
    <3>1. upperTime' = upperTime /\ upperTime \in Nat /\ flushTimeGap \in Nat \ {0}
      BY <1>2, <2>3, LowerStep, PageLRULevels
         DEF OneLRU!PageLRUAssumption, OneLRU!TimeAssumption
    <3>2. ~Two!FirstOfInterval(upperTime, upperTime')
      BY <3>1 DEF Two!FirstOfInterval
    <3>3. QED
      BY <3>2 DEF Two!UpperFlushes
  <2>4. QED
    BY <2>1, <2>2, <2>3
<1>3. OneInv /\ TwoInv /\ [Next]_vars =>
        [/\ hierarchy = "pagelru" => One!FlushesOnTime
         /\ hierarchy = "pagelruTwice" => Two!UpperFlushes]_vars
  BY <1>1, <1>2
<1>4. QED
  BY <1>3, PageLRUInit, PageLRUNext, PTL DEF Spec, FlushesOncePerInterval

(***************************************************************************)
(* A flush logs and counts every page once, in runs no two of which could  *)
(* have been one, for every table.                                         *)
(***************************************************************************)
THEOREM GroupedAndCounted == Spec => GroupsAndCountsOnce
<1>1. ASSUME OneInv, Next, hierarchy = "pagelru" PROVE One!GroupsAndCounts
  <2>1. OneLRU!GroupsAndCounts
    BY <1>1, OneStep
  <2>2. QED
    BY <2>1, OneActions
<1>2. ASSUME TwoInv, Next, hierarchy = "pagelruTwice" PROVE Two!Upper!GroupsAndCounts
  <2>1. Two!AccessUpper \/ Two!AccessLower
    BY <1>2 DEF Next, Two!Next
  <2>2. CASE Two!AccessUpper
    BY <1>2, <2>2, UpperStep, UpperLRUActions
  <2>3. CASE Two!AccessLower
    <3>1. LowerLRU!GroupsAndCounts
      BY <1>2, <2>3, LowerStep
    <3>2. LowerLRU!Flushed' = UpperLRU!Flushed'
      BY DEF LowerLRU!Flushed, UpperLRU!Flushed
    <3>3. LowerLRU!Cardinality(LowerLRU!Flushed')
            = UpperLRU!Cardinality(UpperLRU!Flushed')
      BY <3>2 DEF LowerLRU!Cardinality, UpperLRU!Cardinality
    <3>4. UpperLRU!GroupsAndCounts
      BY <3>1, <3>2, <3>3 DEF LowerLRU!GroupsAndCounts, UpperLRU!GroupsAndCounts
    <3>5. QED
      BY <3>4, UpperLRUActions
  <2>4. QED
    BY <2>1, <2>2, <2>3
<1>3. OneInv /\ TwoInv /\ [Next]_vars =>
        [/\ hierarchy = "pagelru" => One!GroupsAndCounts
         /\ hierarchy = "pagelruTwice" => Two!Upper!GroupsAndCounts]_vars
  BY <1>1, <1>2
<1>4. QED
  BY <1>3, PageLRUInit, PageLRUNext, PTL DEF Spec, GroupsAndCountsOnce

(***************************************************************************)
(* The arrival times of the log never go back, although a flush logs its   *)
(* runs at the multiple it was due at, before the time of the access.      *)
(***************************************************************************)
THEOREM LoggedInTimeOrder == Spec => LogInTimeOrder
<1>1. ASSUME OneInv, Next, hierarchy = "pagelru" PROVE logTime' >= logTime
  BY <1>1, OneStep
<1>2. ASSUME TwoInv, Next, hierarchy = "pagelruTwice" PROVE logTime' >= logTime
  BY <1>2, UpperStep, LowerStep DEF Next, Two!Next
<1>3. Next => hierarchy \in {"pagelru", "pagelruTwice", "arcTwice"}
  BY DEF Next
<1>4. OneInv /\ TwoInv /\ [Next]_vars =>
        [hierarchy # "arcTwice" => logTime' >= logTime]_vars
  BY <1>1, <1>2, <1>3
<1>5. QED
  BY <1>4, PageLRUInit, PageLRUNext, PTL DEF Spec, LogInTimeOrder

(***************************************************************************)
(* One level of PageLRUCache implements the write-back cache: whatever it  *)
(* flushes was dirty, and no dirty page is dropped without being logged.   *)
(***************************************************************************)
THEOREM PageLRURefinesWriteBack == Spec => PageLRUImplementsWriteBack
<1>1. Init => WBC!WBInit
  <2> SUFFICES ASSUME Init, hierarchy = "pagelru" PROVE WBC!WBInit
    BY DEF WBC!WBInit
  <2>1. OneLRU!Init
    BY OneFunctions DEF Init
  <2>2. OneLRU!Cached = {} /\ OneLRU!Dirty = {} /\ OneLRU!Flushed = {}
    BY <2>1, PageLRULevels, OneLRU!InitFacts
  <2>3. QED
    BY <2>2, OneFunctions DEF WBC!WBInit
<1>2. OneInv /\ TwoInv /\ OneInv' /\ [Next]_vars => [WBC!WBNext]_(WBC!wbvars)
  <2> SUFFICES ASSUME OneInv, OneInv', [Next]_vars
               PROVE  [WBC!WBNext]_(WBC!wbvars)
    OBVIOUS
  <2>1. CASE UNCHANGED vars
    <3>1. /\ hierarchy' = hierarchy /\ upper_table' = upper_table
          /\ runs' = runs /\ evicted' = evicted
      BY <2>1 DEF vars, upperVars
    <3>2. /\ One!Cached' = One!Cached
          /\ One!Dirty' = One!Dirty
          /\ One!Flushed' = One!Flushed
      BY <3>1 DEF One!Cached, One!Dirty, One!Flushed
    <3>3. QED
      BY <3>1, <3>2 DEF WBC!wbvars
  <2>2. CASE Next /\ hierarchy # "pagelru"
    BY <2>2 DEF Next, WBC!wbvars
  <2>3. CASE Next /\ hierarchy = "pagelru"
    <3>1. PICK k \in OneLRU!Page, op \in Op, t \in upperTime..MaxTime :
            /\ OneLRU!Stepped(upperTime, k, op, t)
            /\ OneLRU!Dirty' \subseteq OneLRU!Cached'
            /\ OneLRU!Cardinality(OneLRU!Cached') <= Capacity
      BY <2>3, OneStep
    <3> DEFINE C == OneLRU!Cached
               D == OneLRU!Dirty
               F == OneLRU!Flushed
    <3>2. /\ F' \subseteq D
          /\ D' = (D \ F') \cup (IF op = "WRITE" THEN {k} ELSE {})
          /\ C' \subseteq C \cup {k} /\ k \in C' /\ (k \in C => C' = C)
      BY <3>1 DEF OneLRU!Stepped
    <3>3. D' \subseteq C'
      BY <3>1
    <3>4. WBC!Cardinality(C') <= Capacity
      <4>1. WBC!Cardinality(C') = OneLRU!Cardinality(C')
        BY DEF WBC!Cardinality, OneLRU!Cardinality
      <4>2. QED
        BY <3>1, <4>1
    <3>5. /\ C' = One!Cached' /\ D' = One!Dirty' /\ F' = One!Flushed'
          /\ C = One!Cached /\ D = One!Dirty
      BY OneFunctions, OneActions DEF One!Cached, One!Dirty, OneLRU!Cached,
         OneLRU!Dirty, One!Keys, OneLRU!Keys, One!DirtyKeys, OneLRU!DirtyKeys
    <3> HIDE DEF C, D, F
    <3>6. k \in One!Page
      BY OneContainers
    <3>7. hierarchy' = "pagelru"
      BY <2>3 DEF Next
    <3>8. WBC!WBAccess(k, op = "WRITE")
      BY <2>3, <3>2, <3>3, <3>4, <3>5, <3>7 DEF WBC!WBAccess
    <3>9. QED
      BY <3>6, <3>8 DEF WBC!WBNext
  <2>4. QED
    BY <2>1, <2>2, <2>3
<1>3. QED
  BY <1>1, <1>2, PageLRUInit, PageLRUNext, PTL DEF Spec, PageLRUImplementsWriteBack,
     WBC!WBSpec
-----------------------------------------------------------------------------
(***************************************************************************)
(* ARC, two levels.                                                        *)
(***************************************************************************)
UpperArc == INSTANCE ARCProofs
  WITH t1 <- u1, t2 <- u2, b1 <- ub1, b2 <- ub2, Page <- ArcPage, Op <- ArcOp,
       Capacity <- ArcUpperCapacity
LowerArc == INSTANCE ARCProofs
  WITH t1 <- l1, t2 <- l2, b1 <- lb1, b2 <- lb2, Page <- ArcPage, Op <- ArcOp,
       Capacity <- ArcLowerCapacity

\* The operators of UpperArc are those of Arcs!Upper.
LEMMA UpperOperators ==
  /\ \A S : Arcs!Upper!Cardinality(S) = UpperArc!Cardinality(S)
  /\ \A m : Arcs!Upper!MapSize(m) = UpperArc!MapSize(m)
  /\ \A m, k : Arcs!Upper!MapErase(m, k) = UpperArc!MapErase(m, k)
  /\ \A m, k, e : Arcs!Upper!MapInsert(m, k, e) = UpperArc!MapInsert(m, k, e)
  /\ \A s, k : Arcs!Upper!ListRemove(s, k) = UpperArc!ListRemove(s, k)
<1>1. ASSUME NEW S PROVE Arcs!Upper!Cardinality(S) = UpperArc!Cardinality(S)
  BY DEF Arcs!Upper!Cardinality, UpperArc!Cardinality
<1>2. ASSUME NEW m PROVE Arcs!Upper!MapSize(m) = UpperArc!MapSize(m)
  BY <1>1 DEF Arcs!Upper!MapSize, UpperArc!MapSize, Arcs!Upper!Keys, UpperArc!Keys
<1>3. ASSUME NEW m, NEW k PROVE Arcs!Upper!MapErase(m, k) = UpperArc!MapErase(m, k)
  BY DEF Arcs!Upper!MapErase, UpperArc!MapErase
<1>4. ASSUME NEW m, NEW k, NEW e
      PROVE  Arcs!Upper!MapInsert(m, k, e) = UpperArc!MapInsert(m, k, e)
  BY DEF Arcs!Upper!MapInsert, UpperArc!MapInsert
<1>5. ASSUME NEW s, NEW k
      PROVE  Arcs!Upper!ListRemove(s, k) = UpperArc!ListRemove(s, k)
  BY DEF Arcs!Upper!ListRemove, UpperArc!ListRemove,
         Arcs!Upper!ListErase, UpperArc!ListErase,
         Arcs!Upper!KeptPositions, UpperArc!KeptPositions,
         Arcs!Upper!Nth, UpperArc!Nth, Arcs!Upper!Cardinality, UpperArc!Cardinality
<1>6. QED
  BY <1>1, <1>2, <1>3, <1>4, <1>5

\* So are its functions of the lists.
LEMMA UpperFunctions ==
  /\ \A l : Arcs!Upper!Size(l) = UpperArc!Size(l)
  /\ \A l, k : Arcs!Upper!Has(l, k) <=> UpperArc!Has(l, k)
  /\ \A l : Arcs!Upper!LRU(l) = UpperArc!LRU(l)
  /\ \A l, k : Arcs!Upper!Purge(l, k) = UpperArc!Purge(l, k)
  /\ \A l, k, e : Arcs!Upper!Push(l, k, e) = UpperArc!Push(l, k, e)
  /\ \A op, old : Arcs!Upper!NewEntry(op, old) = UpperArc!NewEntry(op, old)
  /\ Arcs!Upper!lists = UpperArc!lists
  /\ \A s : Arcs!Upper!Become(s) <=> UpperArc!Become(s)
  /\ \A l : Arcs!Upper!Evict(l) <=> UpperArc!Evict(l)
  /\ Arcs!Upper!NoEviction <=> UpperArc!NoEviction
  /\ \A k, q : Arcs!Upper!FromT1(k, q) <=> UpperArc!FromT1(k, q)
<1>1. /\ \A l : Arcs!Upper!Size(l) = UpperArc!Size(l)
      /\ \A l, k : Arcs!Upper!Has(l, k) <=> UpperArc!Has(l, k)
      /\ \A l : Arcs!Upper!LRU(l) = UpperArc!LRU(l)
      /\ \A l, k : Arcs!Upper!Purge(l, k) = UpperArc!Purge(l, k)
      /\ \A l, k, e : Arcs!Upper!Push(l, k, e) = UpperArc!Push(l, k, e)
  BY UpperOperators
     DEF Arcs!Upper!Size, UpperArc!Size, Arcs!Upper!Has, UpperArc!Has,
         Arcs!Upper!LRU, UpperArc!LRU, Arcs!Upper!Purge, UpperArc!Purge,
         Arcs!Upper!Push, UpperArc!Push
<1>2. /\ \A op, old : Arcs!Upper!NewEntry(op, old) = UpperArc!NewEntry(op, old)
      /\ Arcs!Upper!lists = UpperArc!lists
      /\ \A s : Arcs!Upper!Become(s) <=> UpperArc!Become(s)
      /\ Arcs!Upper!NoEviction <=> UpperArc!NoEviction
  BY DEF Arcs!Upper!NewEntry, UpperArc!NewEntry, Arcs!Upper!lists, UpperArc!lists,
         Arcs!Upper!Become, UpperArc!Become, Arcs!Upper!NoEviction,
         UpperArc!NoEviction
<1>3. /\ \A l : Arcs!Upper!Evict(l) <=> UpperArc!Evict(l)
      /\ \A k, q : Arcs!Upper!FromT1(k, q) <=> UpperArc!FromT1(k, q)
  BY <1>1 DEF Arcs!Upper!Evict, UpperArc!Evict, Arcs!Upper!FromT1, UpperArc!FromT1
<1>4. QED
  BY <1>1, <1>2, <1>3

\* And the cases of its access().
LEMMA UpperCases ==
  ASSUME NEW k, NEW op
  PROVE  /\ Arcs!Upper!access(k, op) <=> UpperArc!access(k, op)
         /\ Arcs!Upper!Init <=> UpperArc!Init
         /\ Arcs!Upper!VictimsExist <=> UpperArc!VictimsExist
         /\ Arcs!Upper!SizesWithinBounds <=> UpperArc!SizesWithinBounds
<1>1. /\ Arcs!Upper!L1 = UpperArc!L1 /\ Arcs!Upper!Total = UpperArc!Total
      /\ Arcs!Upper!GrownP = UpperArc!GrownP
      /\ Arcs!Upper!ShrunkP = UpperArc!ShrunkP
      /\ \A j : Arcs!Upper!Cached(j) <=> UpperArc!Cached(j)
      /\ \A j : Arcs!Upper!Miss(j) <=> UpperArc!Miss(j)
  BY UpperFunctions
     DEF Arcs!Upper!L1, UpperArc!L1, Arcs!Upper!Total, UpperArc!Total,
         Arcs!Upper!GrownP, UpperArc!GrownP, Arcs!Upper!ShrunkP, UpperArc!ShrunkP,
         Arcs!Upper!Cached, UpperArc!Cached, Arcs!Upper!Miss, UpperArc!Miss
<1>2. /\ \A s, j, q : Arcs!Upper!REPLACE(s, j, q) = UpperArc!REPLACE(s, j, q)
      /\ \A j, q : Arcs!Upper!EvictReplaced(j, q) <=> UpperArc!EvictReplaced(j, q)
      /\ \A s, j, o : Arcs!Upper!MissTo(s, j, o) <=> UpperArc!MissTo(s, j, o)
  BY UpperFunctions
     DEF Arcs!Upper!REPLACE, UpperArc!REPLACE, Arcs!Upper!EvictReplaced,
         UpperArc!EvictReplaced, Arcs!Upper!MissTo, UpperArc!MissTo
<1>3. /\ Arcs!Upper!HitT1(k, op) <=> UpperArc!HitT1(k, op)
      /\ Arcs!Upper!HitT2(k, op) <=> UpperArc!HitT2(k, op)
  BY UpperFunctions DEF Arcs!Upper!HitT1, UpperArc!HitT1, Arcs!Upper!HitT2,
                        UpperArc!HitT2
<1>4. Arcs!Upper!HitB1(k, op) <=> UpperArc!HitB1(k, op)
  BY <1>1, <1>2, UpperFunctions, Zenon DEF Arcs!Upper!HitB1, UpperArc!HitB1
<1>5. Arcs!Upper!HitB2(k, op) <=> UpperArc!HitB2(k, op)
  BY <1>1, <1>2, UpperFunctions, Zenon DEF Arcs!Upper!HitB2, UpperArc!HitB2
<1>6. Arcs!Upper!MissDropB1(k, op) <=> UpperArc!MissDropB1(k, op)
  BY <1>1, <1>2, UpperFunctions DEF Arcs!Upper!MissDropB1, UpperArc!MissDropB1
<1>7. Arcs!Upper!MissDropT1(k, op) <=> UpperArc!MissDropT1(k, op)
  BY <1>1, <1>2, UpperFunctions DEF Arcs!Upper!MissDropT1, UpperArc!MissDropT1
<1>8. Arcs!Upper!MissReplace(k, op) <=> UpperArc!MissReplace(k, op)
  BY <1>1, <1>2, UpperFunctions DEF Arcs!Upper!MissReplace, UpperArc!MissReplace
<1>9. Arcs!Upper!MissRoom(k, op) <=> UpperArc!MissRoom(k, op)
  BY <1>1, <1>2, UpperFunctions DEF Arcs!Upper!MissRoom, UpperArc!MissRoom
<1>10. Arcs!Upper!access(k, op) <=> UpperArc!access(k, op)
  BY <1>3, <1>4, <1>5, <1>6, <1>7, <1>8, <1>9
     DEF Arcs!Upper!access, UpperArc!access
<1>11. Arcs!Upper!Init <=> UpperArc!Init
  BY DEF Arcs!Upper!Init, UpperArc!Init, Arcs!Upper!Empty, UpperArc!Empty,
         Arcs!Upper!NoEntries, UpperArc!NoEntries
<1>12. Arcs!Upper!VictimsExist <=> UpperArc!VictimsExist
  BY <1>1, UpperFunctions
     DEF Arcs!Upper!VictimsExist, UpperArc!VictimsExist,
         Arcs!Upper!ReplaceFindsVictim, UpperArc!ReplaceFindsVictim
<1>13. Arcs!Upper!SizesWithinBounds <=> UpperArc!SizesWithinBounds
  BY <1>1, UpperFunctions DEF Arcs!Upper!SizesWithinBounds,
                              UpperArc!SizesWithinBounds
<1>14. QED
  BY <1>10, <1>11, <1>12, <1>13

\* The operators of LowerArc are those of Arcs!Lower.
LEMMA LowerOperators ==
  /\ \A S : Arcs!Lower!Cardinality(S) = LowerArc!Cardinality(S)
  /\ \A m : Arcs!Lower!MapSize(m) = LowerArc!MapSize(m)
  /\ \A m, k : Arcs!Lower!MapErase(m, k) = LowerArc!MapErase(m, k)
  /\ \A m, k, e : Arcs!Lower!MapInsert(m, k, e) = LowerArc!MapInsert(m, k, e)
  /\ \A s, k : Arcs!Lower!ListRemove(s, k) = LowerArc!ListRemove(s, k)
<1>1. ASSUME NEW S PROVE Arcs!Lower!Cardinality(S) = LowerArc!Cardinality(S)
  BY DEF Arcs!Lower!Cardinality, LowerArc!Cardinality
<1>2. ASSUME NEW m PROVE Arcs!Lower!MapSize(m) = LowerArc!MapSize(m)
  BY <1>1 DEF Arcs!Lower!MapSize, LowerArc!MapSize, Arcs!Lower!Keys, LowerArc!Keys
<1>3. ASSUME NEW m, NEW k PROVE Arcs!Lower!MapErase(m, k) = LowerArc!MapErase(m, k)
  BY DEF Arcs!Lower!MapErase, LowerArc!MapErase
<1>4. ASSUME NEW m, NEW k, NEW e
      PROVE  Arcs!Lower!MapInsert(m, k, e) = LowerArc!MapInsert(m, k, e)
  BY DEF Arcs!Lower!MapInsert, LowerArc!MapInsert
<1>5. ASSUME NEW s, NEW k
      PROVE  Arcs!Lower!ListRemove(s, k) = LowerArc!ListRemove(s, k)
  BY DEF Arcs!Lower!ListRemove, LowerArc!ListRemove,
         Arcs!Lower!ListErase, LowerArc!ListErase,
         Arcs!Lower!KeptPositions, LowerArc!KeptPositions,
         Arcs!Lower!Nth, LowerArc!Nth, Arcs!Lower!Cardinality, LowerArc!Cardinality
<1>6. QED
  BY <1>1, <1>2, <1>3, <1>4, <1>5

\* So are its functions of the lists.
LEMMA LowerFunctions ==
  /\ \A l : Arcs!Lower!Size(l) = LowerArc!Size(l)
  /\ \A l, k : Arcs!Lower!Has(l, k) <=> LowerArc!Has(l, k)
  /\ \A l : Arcs!Lower!LRU(l) = LowerArc!LRU(l)
  /\ \A l, k : Arcs!Lower!Purge(l, k) = LowerArc!Purge(l, k)
  /\ \A l, k, e : Arcs!Lower!Push(l, k, e) = LowerArc!Push(l, k, e)
  /\ \A op, old : Arcs!Lower!NewEntry(op, old) = LowerArc!NewEntry(op, old)
  /\ Arcs!Lower!lists = LowerArc!lists
  /\ \A s : Arcs!Lower!Become(s) <=> LowerArc!Become(s)
  /\ \A l : Arcs!Lower!Evict(l) <=> LowerArc!Evict(l)
  /\ Arcs!Lower!NoEviction <=> LowerArc!NoEviction
  /\ \A k, q : Arcs!Lower!FromT1(k, q) <=> LowerArc!FromT1(k, q)
<1>1. /\ \A l : Arcs!Lower!Size(l) = LowerArc!Size(l)
      /\ \A l, k : Arcs!Lower!Has(l, k) <=> LowerArc!Has(l, k)
      /\ \A l : Arcs!Lower!LRU(l) = LowerArc!LRU(l)
      /\ \A l, k : Arcs!Lower!Purge(l, k) = LowerArc!Purge(l, k)
      /\ \A l, k, e : Arcs!Lower!Push(l, k, e) = LowerArc!Push(l, k, e)
  BY LowerOperators
     DEF Arcs!Lower!Size, LowerArc!Size, Arcs!Lower!Has, LowerArc!Has,
         Arcs!Lower!LRU, LowerArc!LRU, Arcs!Lower!Purge, LowerArc!Purge,
         Arcs!Lower!Push, LowerArc!Push
<1>2. /\ \A op, old : Arcs!Lower!NewEntry(op, old) = LowerArc!NewEntry(op, old)
      /\ Arcs!Lower!lists = LowerArc!lists
      /\ \A s : Arcs!Lower!Become(s) <=> LowerArc!Become(s)
      /\ Arcs!Lower!NoEviction <=> LowerArc!NoEviction
  BY DEF Arcs!Lower!NewEntry, LowerArc!NewEntry, Arcs!Lower!lists, LowerArc!lists,
         Arcs!Lower!Become, LowerArc!Become, Arcs!Lower!NoEviction,
         LowerArc!NoEviction
<1>3. /\ \A l : Arcs!Lower!Evict(l) <=> LowerArc!Evict(l)
      /\ \A k, q : Arcs!Lower!FromT1(k, q) <=> LowerArc!FromT1(k, q)
  BY <1>1 DEF Arcs!Lower!Evict, LowerArc!Evict, Arcs!Lower!FromT1, LowerArc!FromT1
<1>4. QED
  BY <1>1, <1>2, <1>3

\* And the cases of its access().
LEMMA LowerCases ==
  ASSUME NEW k, NEW op
  PROVE  /\ Arcs!Lower!access(k, op) <=> LowerArc!access(k, op)
         /\ Arcs!Lower!Init <=> LowerArc!Init
         /\ Arcs!Lower!VictimsExist <=> LowerArc!VictimsExist
         /\ Arcs!Lower!SizesWithinBounds <=> LowerArc!SizesWithinBounds
<1>1. /\ Arcs!Lower!L1 = LowerArc!L1 /\ Arcs!Lower!Total = LowerArc!Total
      /\ Arcs!Lower!GrownP = LowerArc!GrownP
      /\ Arcs!Lower!ShrunkP = LowerArc!ShrunkP
      /\ \A j : Arcs!Lower!Cached(j) <=> LowerArc!Cached(j)
      /\ \A j : Arcs!Lower!Miss(j) <=> LowerArc!Miss(j)
  BY LowerFunctions
     DEF Arcs!Lower!L1, LowerArc!L1, Arcs!Lower!Total, LowerArc!Total,
         Arcs!Lower!GrownP, LowerArc!GrownP, Arcs!Lower!ShrunkP, LowerArc!ShrunkP,
         Arcs!Lower!Cached, LowerArc!Cached, Arcs!Lower!Miss, LowerArc!Miss
<1>2. /\ \A s, j, q : Arcs!Lower!REPLACE(s, j, q) = LowerArc!REPLACE(s, j, q)
      /\ \A j, q : Arcs!Lower!EvictReplaced(j, q) <=> LowerArc!EvictReplaced(j, q)
      /\ \A s, j, o : Arcs!Lower!MissTo(s, j, o) <=> LowerArc!MissTo(s, j, o)
  BY LowerFunctions
     DEF Arcs!Lower!REPLACE, LowerArc!REPLACE, Arcs!Lower!EvictReplaced,
         LowerArc!EvictReplaced, Arcs!Lower!MissTo, LowerArc!MissTo
<1>3. /\ Arcs!Lower!HitT1(k, op) <=> LowerArc!HitT1(k, op)
      /\ Arcs!Lower!HitT2(k, op) <=> LowerArc!HitT2(k, op)
  BY LowerFunctions DEF Arcs!Lower!HitT1, LowerArc!HitT1, Arcs!Lower!HitT2,
                        LowerArc!HitT2
<1>4. Arcs!Lower!HitB1(k, op) <=> LowerArc!HitB1(k, op)
  BY <1>1, <1>2, LowerFunctions, Zenon DEF Arcs!Lower!HitB1, LowerArc!HitB1
<1>5. Arcs!Lower!HitB2(k, op) <=> LowerArc!HitB2(k, op)
  BY <1>1, <1>2, LowerFunctions, Zenon DEF Arcs!Lower!HitB2, LowerArc!HitB2
<1>6. Arcs!Lower!MissDropB1(k, op) <=> LowerArc!MissDropB1(k, op)
  BY <1>1, <1>2, LowerFunctions DEF Arcs!Lower!MissDropB1, LowerArc!MissDropB1
<1>7. Arcs!Lower!MissDropT1(k, op) <=> LowerArc!MissDropT1(k, op)
  BY <1>1, <1>2, LowerFunctions DEF Arcs!Lower!MissDropT1, LowerArc!MissDropT1
<1>8. Arcs!Lower!MissReplace(k, op) <=> LowerArc!MissReplace(k, op)
  BY <1>1, <1>2, LowerFunctions DEF Arcs!Lower!MissReplace, LowerArc!MissReplace
<1>9. Arcs!Lower!MissRoom(k, op) <=> LowerArc!MissRoom(k, op)
  BY <1>1, <1>2, LowerFunctions DEF Arcs!Lower!MissRoom, LowerArc!MissRoom
<1>10. Arcs!Lower!access(k, op) <=> LowerArc!access(k, op)
  BY <1>3, <1>4, <1>5, <1>6, <1>7, <1>8, <1>9
     DEF Arcs!Lower!access, LowerArc!access
<1>11. Arcs!Lower!Init <=> LowerArc!Init
  BY DEF Arcs!Lower!Init, LowerArc!Init, Arcs!Lower!Empty, LowerArc!Empty,
         Arcs!Lower!NoEntries, LowerArc!NoEntries
<1>12. Arcs!Lower!VictimsExist <=> LowerArc!VictimsExist
  BY <1>1, LowerFunctions
     DEF Arcs!Lower!VictimsExist, LowerArc!VictimsExist,
         Arcs!Lower!ReplaceFindsVictim, LowerArc!ReplaceFindsVictim
<1>13. Arcs!Lower!SizesWithinBounds <=> LowerArc!SizesWithinBounds
  BY <1>1, LowerFunctions DEF Arcs!Lower!SizesWithinBounds,
                              LowerArc!SizesWithinBounds
<1>14. QED
  BY <1>10, <1>11, <1>12, <1>13
-----------------------------------------------------------------------------
ArcAssumptions ==
  /\ UpperArc!PageAssumption /\ UpperArc!OpAssumption
  /\ UpperArc!CapacityAssumption /\ UpperArc!MaxEvictionsAssumption
  /\ LowerArc!PageAssumption /\ LowerArc!OpAssumption
  /\ LowerArc!CapacityAssumption /\ LowerArc!MaxEvictionsAssumption

\* The assumptions of ARC, for both levels.
LEMMA ArcLevels == ArcAssumptions /\ ArcCapacitiesAdjoin
                   /\ ArcUpperCapacity \in Nat /\ ArcLowerCapacity \in Nat
BY LevelsAssumption
   DEF LevelsAssumption, ArcAssumptions,
       Arcs!Upper!PageAssumption, Arcs!Upper!OpAssumption,
       Arcs!Upper!CapacityAssumption, Arcs!Upper!MaxEvictionsAssumption,
       Arcs!Lower!CapacityAssumption, Arcs!Upper!IsFiniteSet,
       UpperArc!PageAssumption, UpperArc!OpAssumption, UpperArc!CapacityAssumption,
       UpperArc!MaxEvictionsAssumption, UpperArc!IsFiniteSet,
       LowerArc!PageAssumption, LowerArc!OpAssumption, LowerArc!CapacityAssumption,
       LowerArc!MaxEvictionsAssumption, LowerArc!IsFiniteSet

\* The invariant of ARC at each level, and a request that the walk passes on.
ArcInv ==
  hierarchy = "arcTwice" =>
    /\ UpperArc!IndInv /\ LowerArc!IndInv
    /\ request # NoRequest => request \in [page : ArcPage, op : ArcOp]

\* It holds when both caches are empty.
LEMMA ArcInitInv == Init => ArcInv
<1> SUFFICES ASSUME Init, hierarchy = "arcTwice" PROVE ArcInv
  BY DEF ArcInv
<1>1. Arcs!Init
  BY DEF Init
<1>2. UpperArc!Init /\ LowerArc!Init /\ request = NoRequest
  BY <1>1, UpperCases, LowerCases DEF Arcs!Init
<1>3. UpperArc!IndInv
  BY <1>2, ArcLevels, UpperArc!InitInv DEF ArcAssumptions,
     UpperArc!PageAssumption, UpperArc!OpAssumption, UpperArc!CapacityAssumption,
     UpperArc!MaxEvictionsAssumption
<1>4. LowerArc!IndInv
  BY <1>2, ArcLevels, LowerArc!InitInv DEF ArcAssumptions,
     LowerArc!PageAssumption, LowerArc!OpAssumption, LowerArc!CapacityAssumption,
     LowerArc!MaxEvictionsAssumption
<1>5. QED
  BY <1>2, <1>3, <1>4 DEF ArcInv

\* What an access of one level may do to the variables that both share.
LEMMA UpperArcStep ==
  ASSUME UpperArc!IndInv, NEW k \in ArcPage, NEW op \in ArcOp,
         Arcs!Upper!access(k, op)
  PROVE  /\ UpperArc!IndInv'
         /\ p' \in 0..ArcUpperCapacity \/ p' = p
         /\ (flushed \in SUBSET ArcPage)'
         /\ (totalEvictedCleanPages \in Nat)'
         /\ (totalNonSeqEvictedDirtyPages \in Nat)'
<1>1. UpperArc!access(k, op)
  BY UpperCases
<1>2. UpperArc!IndInv'
  BY <1>1, ArcLevels, UpperArc!AccessStep DEF ArcAssumptions,
     UpperArc!PageAssumption, UpperArc!OpAssumption, UpperArc!CapacityAssumption,
     UpperArc!MaxEvictionsAssumption
<1>3. p' \in 0..ArcUpperCapacity \/ p' = p
  BY <1>1, ArcLevels, UpperArc!PStays DEF ArcAssumptions,
     UpperArc!PageAssumption, UpperArc!OpAssumption, UpperArc!CapacityAssumption,
     UpperArc!MaxEvictionsAssumption
<1>4. QED
  BY <1>2, <1>3 DEF UpperArc!IndInv, UpperArc!Typed

\* What the upper level keeps of the invariant while the lower one is accessed.
LEMMA UpperArcIdle ==
  ASSUME UpperArc!IndInv, UNCHANGED <<u1, u2, ub1, ub2>>,
         (p \in 0..(ArcUpperCapacity + 1))', (flushed \in SUBSET ArcPage)',
         (totalEvictedCleanPages \in Nat)',
         (totalNonSeqEvictedDirtyPages \in Nat)'
  PROVE  UpperArc!IndInv'
BY ArcLevels, UpperArc!OtherLevelStep DEF ArcAssumptions,
   UpperArc!PageAssumption, UpperArc!OpAssumption, UpperArc!CapacityAssumption,
   UpperArc!MaxEvictionsAssumption

\* The same of the lower level.
LEMMA LowerArcStep ==
  ASSUME LowerArc!IndInv, NEW k \in ArcPage, NEW op \in ArcOp,
         Arcs!Lower!access(k, op)
  PROVE  /\ LowerArc!IndInv'
         /\ p' \in 0..ArcLowerCapacity \/ p' = p
         /\ (flushed \in SUBSET ArcPage)'
         /\ (totalEvictedCleanPages \in Nat)'
         /\ (totalNonSeqEvictedDirtyPages \in Nat)'
<1>1. LowerArc!access(k, op)
  BY LowerCases
<1>2. LowerArc!IndInv'
  BY <1>1, ArcLevels, LowerArc!AccessStep DEF ArcAssumptions,
     LowerArc!PageAssumption, LowerArc!OpAssumption, LowerArc!CapacityAssumption,
     LowerArc!MaxEvictionsAssumption
<1>3. p' \in 0..ArcLowerCapacity \/ p' = p
  BY <1>1, ArcLevels, LowerArc!PStays DEF ArcAssumptions,
     LowerArc!PageAssumption, LowerArc!OpAssumption, LowerArc!CapacityAssumption,
     LowerArc!MaxEvictionsAssumption
<1>4. QED
  BY <1>2, <1>3 DEF LowerArc!IndInv, LowerArc!Typed

\* What the lower level keeps of it while the upper one is accessed.
LEMMA LowerArcIdle ==
  ASSUME LowerArc!IndInv, UNCHANGED <<l1, l2, lb1, lb2>>,
         (p \in 0..(ArcLowerCapacity + 1))', (flushed \in SUBSET ArcPage)',
         (totalEvictedCleanPages \in Nat)',
         (totalNonSeqEvictedDirtyPages \in Nat)'
  PROVE  LowerArc!IndInv'
BY ArcLevels, LowerArc!OtherLevelStep DEF ArcAssumptions,
   LowerArc!PageAssumption, LowerArc!OpAssumption, LowerArc!CapacityAssumption,
   LowerArc!MaxEvictionsAssumption

\* Every access of either level keeps the invariant.
LEMMA ArcNextInv == ArcInv /\ [Next]_vars => ArcInv'
<1> SUFFICES ASSUME ArcInv, [Next]_vars, hierarchy' = "arcTwice" PROVE ArcInv'
  BY DEF ArcInv
<1>1. CASE UNCHANGED vars
  <2>1. /\ hierarchy = "arcTwice" /\ request' = request
        /\ UNCHANGED <<u1, u2, ub1, ub2>> /\ UNCHANGED <<l1, l2, lb1, lb2>>
        /\ p' = p /\ flushed' = flushed
        /\ totalEvictedCleanPages' = totalEvictedCleanPages
        /\ totalNonSeqEvictedDirtyPages' = totalNonSeqEvictedDirtyPages
    BY <1>1 DEF vars, arcVars
  <2>2. /\ p \in 0..(ArcUpperCapacity + 1) /\ p \in 0..(ArcLowerCapacity + 1)
        /\ flushed \in SUBSET ArcPage /\ totalEvictedCleanPages \in Nat
        /\ totalNonSeqEvictedDirtyPages \in Nat
    BY <2>1 DEF ArcInv, UpperArc!IndInv, UpperArc!Typed, LowerArc!IndInv,
                LowerArc!Typed
  <2>3. QED
    BY <2>1, <2>2, UpperArcIdle, LowerArcIdle DEF ArcInv
<1>2. CASE Next
  <2>1. hierarchy = "arcTwice" /\ Arcs!Next
    BY <1>2 DEF Next
  <2>2. /\ UpperArc!IndInv /\ LowerArc!IndInv
        /\ request # NoRequest => request \in [page : ArcPage, op : ArcOp]
    BY <2>1 DEF ArcInv
  <2>3. p \in 0..(ArcUpperCapacity + 1) /\ p \in 0..(ArcLowerCapacity + 1)
    BY <2>2 DEF UpperArc!IndInv, UpperArc!Typed, LowerArc!IndInv, LowerArc!Typed
  <2>4. CASE Arcs!AccessUpper
    <3>1. PICK k \in ArcPage, op \in ArcOp :
            Arcs!Upper!access(k, op) /\ request' = Arcs!Missed(k, op)
      BY <2>4 DEF Arcs!AccessUpper
    <3>2. UNCHANGED <<l1, l2, lb1, lb2>>
      BY <2>4 DEF Arcs!AccessUpper, Arcs!lowerLists
    <3>3. /\ UpperArc!IndInv'
          /\ p' \in 0..ArcUpperCapacity \/ p' = p
          /\ (flushed \in SUBSET ArcPage)'
          /\ (totalEvictedCleanPages \in Nat)'
          /\ (totalNonSeqEvictedDirtyPages \in Nat)'
      BY <2>2, <3>1, UpperArcStep
    <3>4. p' \in 0..(ArcLowerCapacity + 1)
      BY <2>3, <3>3, ArcLevels DEF ArcCapacitiesAdjoin
    <3>5. LowerArc!IndInv'
      BY <2>2, <3>2, <3>3, <3>4, LowerArcIdle
    <3>6. request' # NoRequest => request' \in [page : ArcPage, op : ArcOp]
      BY <3>1 DEF Arcs!Missed
    <3>7. QED
      BY <3>3, <3>5, <3>6 DEF ArcInv
  <2>5. CASE Arcs!AccessLower
    <3>1. /\ request \in [page : ArcPage, op : ArcOp] /\ request' = NoRequest
          /\ Arcs!Lower!access(request.page, request.op)
          /\ UNCHANGED <<u1, u2, ub1, ub2>>
      BY <2>2, <2>5 DEF Arcs!AccessLower, Arcs!upperLists
    <3>2. /\ LowerArc!IndInv'
          /\ p' \in 0..ArcLowerCapacity \/ p' = p
          /\ (flushed \in SUBSET ArcPage)'
          /\ (totalEvictedCleanPages \in Nat)'
          /\ (totalNonSeqEvictedDirtyPages \in Nat)'
      BY <2>2, <3>1, LowerArcStep
    <3>3. p' \in 0..(ArcUpperCapacity + 1)
      BY <2>3, <3>2, ArcLevels DEF ArcCapacitiesAdjoin
    <3>4. UpperArc!IndInv'
      BY <2>2, <3>1, <3>2, <3>3, UpperArcIdle
    <3>5. QED
      BY <3>1, <3>2, <3>4 DEF ArcInv
  <2>6. QED
    BY <2>1, <2>4, <2>5 DEF Arcs!Next
<1>3. QED
  BY <1>1, <1>2

(***************************************************************************)
(* Two ARC levels whose capacities differ by at most one never fail an     *)
(* assert of arc.h, for all the p that the one moves under the other.      *)
(***************************************************************************)
THEOREM TwoLevelsOfARCHold == Spec => []ArcAssertsHoldAtBothLevels
<1>1. ArcInv => ArcAssertsHoldAtBothLevels
  <2> SUFFICES ASSUME ArcInv, hierarchy = "arcTwice"
               PROVE  /\ Arcs!VictimsExistAtBothLevels
                      /\ Arcs!SizesWithinBoundsAtBothLevels
    BY DEF ArcAssertsHoldAtBothLevels
  <2>1. UpperArc!IndInv /\ LowerArc!IndInv
    BY DEF ArcInv
  <2>2. UpperArc!VictimsExist
    BY <2>1, ArcLevels, UpperArc!InvVictims DEF ArcAssumptions,
       UpperArc!PageAssumption, UpperArc!OpAssumption, UpperArc!CapacityAssumption,
       UpperArc!MaxEvictionsAssumption
  <2>3. LowerArc!VictimsExist
    BY <2>1, ArcLevels, LowerArc!InvVictims DEF ArcAssumptions,
       LowerArc!PageAssumption, LowerArc!OpAssumption, LowerArc!CapacityAssumption,
       LowerArc!MaxEvictionsAssumption
  <2>4. UpperArc!SizesWithinBounds /\ LowerArc!SizesWithinBounds
    BY <2>1 DEF UpperArc!IndInv, LowerArc!IndInv
  <2>5. QED
    BY <2>2, <2>3, <2>4, UpperCases, LowerCases
       DEF Arcs!VictimsExistAtBothLevels, Arcs!SizesWithinBoundsAtBothLevels
<1>2. QED
  BY <1>1, ArcInitInv, ArcNextInv, PTL DEF Spec
=============================================================================
