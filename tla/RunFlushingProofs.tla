------------------------- MODULE RunFlushingProofs --------------------------
(***************************************************************************)
(* The run-flushing LRU policies, for every number of pages, capacity and  *)
(* initial threshold: the list and the table stay consistent, evictions    *)
(* are counted right, the adaptive thresholds stay within their bounds,    *)
(* what is flushed is one whole run, and with writes only no write is      *)
(* lost.                                                                   *)
(*                                                                         *)
(* IndInv adds to the checked invariants only the types of the variables   *)
(* of this module. Consistent is needed by the others: a table of fewer    *)
(* entries than there are pages has a page that is not dirty, at which the *)
(* loops that find a run end, so that SeqLength is the number of pages of  *)
(* the run.                                                                *)
(***************************************************************************)
EXTENDS RunFlushingLRU, StdContainersProofs

IndInv ==
  /\ Consistent
  /\ EvictionsAccounted
  /\ ThresholdBounded
  /\ policy \in Policies
  /\ writeOnly \in BOOLEAN
  /\ misses \in Nat

(***************************************************************************)
(* The pages are the ring of StdContainersProofs, of NumPages pages.       *)
(***************************************************************************)
LEMMA Pages == NumPages \in Nat \ {0} /\ Page = 0..(NumPages - 1)
BY NumPagesAssumption DEF Page

\* A page is dirty where its entry says so.
LEMMA DirtyIs ==
  ASSUME Consistent, NEW q \in Page
  PROVE  Dirty(q) <=> key_to_value[q] = "dirty"
<1>1. DOMAIN key_to_value = Page
  BY DEF Consistent, TypeOK
<1>2. q % NumPages = q
  BY Pages, PageMod
<1>3. DirtyAt(key_to_value, q) <=> key_to_value[q % NumPages] = "dirty"
  BY <1>1, Pages, DirtyAtIs
<1>4. QED
  BY <1>2, <1>3 DEF Dirty

(***************************************************************************)
(* In a consistent cache the size of the table is the length of the list,  *)
(* some page is not dirty, and the front of the list of a full cache is    *)
(* cached.                                                                 *)
(***************************************************************************)
LEMMA SizeFacts ==
  ASSUME Consistent
  PROVE  /\ key_tracker \in Seq(Page) /\ key_to_value \in [Page -> Entry]
         /\ Len(key_tracker) \in 0..Capacity
         /\ IsFiniteSet(Keys(key_to_value))
         /\ Cardinality(Keys(key_to_value)) = Len(key_tracker)
         /\ MapSize(key_to_value) = Len(key_tracker)
         /\ \E hole \in Page : key_to_value[hole] # "dirty"
         /\ MapSize(key_to_value) = Capacity =>
              /\ 1 \in 1..Len(key_tracker)
              /\ Head(key_tracker) = key_tracker[1]
              /\ Head(key_tracker) \in Keys(key_to_value)
              /\ Head(key_tracker) \in Page
<1>1. /\ key_tracker \in Seq(Page) /\ key_to_value \in [Page -> Entry]
      /\ Linked(key_tracker, key_to_value)
      /\ Len(key_tracker) <= Capacity
  BY DEF Consistent, TypeOK
<1>2. /\ IsFiniteSet(Keys(key_to_value))
      /\ MapSize(key_to_value) = Len(key_tracker)
      /\ Cardinality(Keys(key_to_value)) = Len(key_tracker)
  BY <1>1, LinkedSize DEF MapSize
<1>3. Len(key_tracker) \in 0..Capacity /\ Len(key_tracker) < NumPages
  BY <1>1, CapacityAssumption, NumPagesAssumption
<1>4. \E hole \in Page : key_to_value[hole] # "dirty"
  BY <1>1, <1>2, <1>3, Pages, HoleExists
<1>5. ASSUME MapSize(key_to_value) = Capacity
      PROVE  /\ 1 \in 1..Len(key_tracker)
             /\ Head(key_tracker) = key_tracker[1]
             /\ Head(key_tracker) \in Keys(key_to_value)
             /\ Head(key_tracker) \in Page
  <2>1. Len(key_tracker) > 0 /\ 1 \in 1..Len(key_tracker)
    BY <1>2, <1>3, <1>5, CapacityAssumption
  <2>2. /\ Head(key_tracker) = key_tracker[1]
        /\ Head(key_tracker) \in Page
        /\ Head(key_tracker) \in ListSet(key_tracker)
    BY <1>1, <2>1, FrontFacts
  <2>3. QED
    BY <1>1, <2>1, <2>2 DEF Linked
<1>6. QED
  BY <1>1, <1>2, <1>3, <1>4, <1>5

(***************************************************************************)
(* A dirty page is cached, and the run around it holds SeqLength pages,    *)
(* all cached and dirty, at most as many as the cache holds.               *)
(***************************************************************************)
LEMMA DirtyRunFacts ==
  ASSUME Consistent, NEW q \in Page, key_to_value[q] = "dirty"
  PROVE  /\ q \in Keys(key_to_value)
         /\ q \in Run(key_to_value, q)
         /\ Run(key_to_value, q) \subseteq DirtyKeys(key_to_value)
         /\ Run(key_to_value, q) \subseteq Keys(key_to_value)
         /\ IsFiniteSet(Run(key_to_value, q))
         /\ Cardinality(Run(key_to_value, q)) = SeqLength(key_to_value, q)
         /\ SeqLength(key_to_value, q) \in 1..Capacity
         /\ IsWholeRun(key_to_value, Run(key_to_value, q))
<1> DEFINE m == key_to_value
           R == Run(m, q)
<1>1. /\ m \in [Page -> Entry] /\ IsFiniteSet(Keys(m))
      /\ Cardinality(Keys(m)) \in 0..Capacity
      /\ \E hole \in Page : m[hole] # "dirty"
  BY SizeFacts
<1> HIDE DEF m
<1>2. m[q] = "dirty"
  BY DEF m
<1>3. /\ R \subseteq Page /\ q \in R
      /\ \A x \in R : m[x] = "dirty"
      /\ IsFiniteSet(R)
      /\ Cardinality(R) = SeqLength(m, q)
  BY <1>1, <1>2, Pages, RunFacts
<1>4. SeqLength(m, q) \in 1..(NumPages - 1)
  BY <1>1, <1>2, Pages, SeqLengthFacts
<1>5. IsWholeRun(m, R)
  BY <1>1, <1>2, Pages, RunIsWhole
<1> HIDE DEF R
<1>6. R \subseteq DirtyKeys(m) /\ R \subseteq Keys(m)
  BY <1>1, <1>3 DEF DirtyKeys, Keys
<1>7. Cardinality(R) <= Cardinality(Keys(m))
  BY <1>1, <1>6, FS_Subset
<1>8. SeqLength(m, q) \in 1..Capacity
  BY <1>1, <1>3, <1>4, <1>7, NumPagesAssumption, CapacityAssumption
<1>9. QED
  BY <1>3, <1>5, <1>6, <1>8 DEF m, R

(***************************************************************************)
(* The for loop of evict() finds a run: the first position of the list     *)
(* with one above the threshold.                                           *)
(***************************************************************************)
LEMMA FirstLongRunFacts ==
  ASSUME Consistent, LongRunAt # {}
  PROVE  /\ FirstLongRun \in Page
         /\ key_to_value[FirstLongRun] = "dirty"
         /\ SeqLength(key_to_value, FirstLongRun) > threshold - 1
         /\ \E i \in LongRunAt : /\ FirstLongRun = key_tracker[i]
                                /\ \A j \in LongRunAt : i <= j
<1>1. key_tracker \in Seq(Page) /\ LongRunAt \in SUBSET Nat
  BY SizeFacts DEF LongRunAt
<1>2. \E i \in LongRunAt : \A j \in LongRunAt : i <= j
  BY <1>1, LeastNatural
<1>3. PICK i \in LongRunAt : /\ FirstLongRun = key_tracker[i]
                             /\ \A j \in LongRunAt : i <= j
  BY <1>2 DEF FirstLongRun
<1>4. /\ i \in 1..Len(key_tracker)
      /\ Dirty(key_tracker[i])
      /\ SeqLength(key_to_value, key_tracker[i]) > threshold - 1
  BY DEF LongRunAt
<1>5. key_tracker[i] \in Page
  BY <1>1, <1>4
<1>6. QED
  BY <1>3, <1>4, <1>5, DirtyIs

\* When there is none, every dirty page is in a run below the threshold.
LEMMA NoLongRunFacts ==
  ASSUME Consistent, LongRunAt = {}, NEW q \in Page, key_to_value[q] = "dirty"
  PROVE  SeqLength(key_to_value, q) < threshold
<1>1. key_tracker \in Seq(Page) /\ ListSet(key_tracker) = Keys(key_to_value)
  BY SizeFacts DEF Consistent, Linked
<1>2. q \in Keys(key_to_value) /\ SeqLength(key_to_value, q) \in Int
  BY DirtyRunFacts, CapacityAssumption, NumPagesAssumption
<1>3. PICK i \in 1..Len(key_tracker) : key_tracker[i] = q
  BY <1>1, <1>2 DEF ListSet
<1>4. Dirty(q)
  BY DirtyIs
<1>5. ~(SeqLength(key_to_value, q) > threshold - 1)
  BY <1>3, <1>4 DEF LongRunAt
<1>6. threshold \in Nat
  BY DEF Consistent, TypeOK
<1>7. QED
  BY <1>2, <1>5, <1>6
(***************************************************************************)
(* What the steps do to the pages held. A hit forgets that its page was    *)
(* dirty, unless it writes.                                                *)
(***************************************************************************)
LEMMA NewEntryFacts ==
  ASSUME NEW op
  PROVE  /\ NewEntry(op) \in {"clean", "dirty"}
         /\ NewEntry(op) = "dirty" <=> op = "WRITE"
BY DEF NewEntry

\* The pages that an access makes dirty.
Written(k, op) == IF op = "WRITE" THEN {k} ELSE {}

\* A hit keeps what is cached; its page is dirty after it if it writes.
LEMMA HitStep ==
  ASSUME Consistent, NEW k \in Page, NEW op \in Op, Hit(k, op)
  PROVE  /\ key_tracker' \in Seq(Page)
         /\ key_to_value' \in [Page -> Entry]
         /\ Linked(key_tracker', key_to_value')
         /\ Len(key_tracker') = Len(key_tracker)
         /\ k \in Keys(key_to_value)
         /\ Keys(key_to_value') = Keys(key_to_value)
         /\ DirtyKeys(key_to_value') =
              (DirtyKeys(key_to_value) \ {k}) \cup Written(k, op)
<1> DEFINE s == ListRemove(key_tracker, k)
           m == MapErase(key_to_value, k)
           e == NewEntry(op)
<1>1. /\ key_tracker \in Seq(Page)
      /\ key_to_value \in [Page -> Entry]
      /\ Linked(key_tracker, key_to_value)
      /\ Len(key_tracker) \in Nat
      /\ k \in Keys(key_to_value)
  BY SizeFacts DEF Consistent, Hit, Keys
<1>2. /\ s \in Seq(Page) /\ m \in [Page -> Entry] /\ Linked(s, m)
      /\ Len(s) = Len(key_tracker) - 1
      /\ Keys(m) = Keys(key_to_value) \ {k}
      /\ DirtyKeys(m) = DirtyKeys(key_to_value) \ {k}
  BY <1>1, PurgeFacts
<1>3. e \in {"clean", "dirty"} /\ (e = "dirty" <=> op = "WRITE")
  BY NewEntryFacts
<1>4. key_tracker' = Append(s, k) /\ key_to_value' = MapInsert(m, k, e)
  BY DEF Hit
<1> HIDE DEF s, m, e
<1>5. k \notin Keys(m)
  BY <1>2
<1>6. /\ key_tracker' \in Seq(Page)
      /\ key_to_value' \in [Page -> Entry]
      /\ Linked(key_tracker', key_to_value')
      /\ Len(key_tracker') = Len(s) + 1
      /\ Keys(key_to_value') = Keys(m) \cup {k}
      /\ e = "dirty" => DirtyKeys(key_to_value') = DirtyKeys(m) \cup {k}
      /\ e = "clean" => DirtyKeys(key_to_value') = DirtyKeys(m)
  BY <1>2, <1>3, <1>4, <1>5, RecordFacts
<1>7. Len(key_tracker') = Len(key_tracker)
  BY <1>1, <1>2, <1>6
<1>8. Keys(key_to_value') = Keys(key_to_value)
  BY <1>1, <1>2, <1>6
<1>9. DirtyKeys(key_to_value') =
        (DirtyKeys(key_to_value) \ {k}) \cup Written(k, op)
  BY <1>2, <1>3, <1>6 DEF Written
<1>10. QED
  BY <1>1, <1>6, <1>7, <1>8, <1>9

\* insert() with room adds the page.
LEMMA InsertStep ==
  ASSUME Consistent, NEW k \in Page, NEW op \in Op, InsertWithRoom(k, op)
  PROVE  /\ key_tracker' \in Seq(Page)
         /\ key_to_value' \in [Page -> Entry]
         /\ Linked(key_tracker', key_to_value')
         /\ Len(key_tracker') = Len(key_tracker) + 1
         /\ Len(key_tracker') <= Capacity
         /\ k \notin Keys(key_to_value)
         /\ Keys(key_to_value') = Keys(key_to_value) \cup {k}
         /\ DirtyKeys(key_to_value') =
              DirtyKeys(key_to_value) \cup Written(k, op)
<1> DEFINE e == NewEntry(op)
<1>1. /\ key_tracker \in Seq(Page)
      /\ key_to_value \in [Page -> Entry]
      /\ Linked(key_tracker, key_to_value)
      /\ k \notin Keys(key_to_value)
  BY SizeFacts DEF Consistent, InsertWithRoom, Keys
<1>2. e \in {"clean", "dirty"} /\ (e = "dirty" <=> op = "WRITE")
  BY NewEntryFacts
<1>3. /\ key_tracker' = Append(key_tracker, k)
      /\ key_to_value' = MapInsert(key_to_value, k, e)
  BY DEF InsertWithRoom
<1> HIDE DEF e
<1>4. /\ key_tracker' \in Seq(Page)
      /\ key_to_value' \in [Page -> Entry]
      /\ Linked(key_tracker', key_to_value')
      /\ Len(key_tracker') = Len(key_tracker) + 1
      /\ Keys(key_to_value') = Keys(key_to_value) \cup {k}
      /\ e = "dirty" =>
           DirtyKeys(key_to_value') = DirtyKeys(key_to_value) \cup {k}
      /\ e = "clean" => DirtyKeys(key_to_value') = DirtyKeys(key_to_value)
  BY <1>1, <1>2, <1>3, RecordFacts
<1>5. Len(key_tracker') <= Capacity
  <2>1. Len(key_tracker) \in 0..Capacity /\ Len(key_tracker) # Capacity
    BY SizeFacts DEF InsertWithRoom
  <2>2. QED
    BY <1>4, <2>1, CapacityAssumption, NumPagesAssumption
<1>6. QED
  BY <1>1, <1>2, <1>4, <1>5 DEF Written

\* evict() and remove() of a set of cached pages, and then the new page.
LEMMA RemoveStep ==
  ASSUME Consistent, NEW k \in Page, NEW op \in Op, k \notin Keys(key_to_value),
         NEW R, R \subseteq Keys(key_to_value), R # {},
         RemoveAndRecord(R, k, op)
  PROVE  /\ key_tracker' \in Seq(Page)
         /\ key_to_value' \in [Page -> Entry]
         /\ Linked(key_tracker', key_to_value')
         /\ IsFiniteSet(R)
         /\ Len(key_tracker') + Cardinality(R) = Len(key_tracker) + 1
         /\ Len(key_tracker') <= Capacity
         /\ Keys(key_to_value') = (Keys(key_to_value) \ R) \cup {k}
         /\ DirtyKeys(key_to_value') =
              (DirtyKeys(key_to_value) \ R) \cup Written(k, op)
<1> DEFINE s == ListErase(key_tracker, R)
           m == MapEraseAll(key_to_value, R)
           e == NewEntry(op)
<1>1. /\ key_tracker \in Seq(Page)
      /\ key_to_value \in [Page -> Entry]
      /\ Linked(key_tracker, key_to_value)
      /\ Len(key_tracker) \in 0..Capacity
  BY SizeFacts DEF Consistent
<1>2. /\ s \in Seq(Page) /\ m \in [Page -> Entry] /\ Linked(s, m)
      /\ IsFiniteSet(R)
      /\ Len(s) = Len(key_tracker) - Cardinality(R)
      /\ Keys(m) = Keys(key_to_value) \ R
      /\ DirtyKeys(m) = DirtyKeys(key_to_value) \ R
  BY <1>1, PurgeAllFacts
<1>3. e \in {"clean", "dirty"} /\ (e = "dirty" <=> op = "WRITE")
  BY NewEntryFacts
<1>4. key_tracker' = Append(s, k) /\ key_to_value' = MapInsert(m, k, e)
  BY DEF RemoveAndRecord
<1> HIDE DEF s, m, e
<1>5. k \notin Keys(m)
  BY <1>2
<1>6. /\ key_tracker' \in Seq(Page)
      /\ key_to_value' \in [Page -> Entry]
      /\ Linked(key_tracker', key_to_value')
      /\ Len(key_tracker') = Len(s) + 1
      /\ Keys(key_to_value') = Keys(m) \cup {k}
      /\ e = "dirty" => DirtyKeys(key_to_value') = DirtyKeys(m) \cup {k}
      /\ e = "clean" => DirtyKeys(key_to_value') = DirtyKeys(m)
  BY <1>2, <1>3, <1>4, <1>5, RecordFacts
<1>7. Cardinality(R) \in Nat /\ Cardinality(R) # 0
  BY <1>2, FS_CardinalityType, FS_EmptySet
<1>8. /\ Len(key_tracker') + Cardinality(R) = Len(key_tracker) + 1
      /\ Len(key_tracker') <= Capacity
  BY <1>1, <1>2, <1>6, <1>7, CapacityAssumption, NumPagesAssumption
<1>9. DirtyKeys(key_to_value') =
        (DirtyKeys(key_to_value) \ R) \cup Written(k, op)
  BY <1>2, <1>3, <1>6 DEF Written
<1>10. QED
  BY <1>2, <1>6, <1>8, <1>9

(***************************************************************************)
(* The five policies differ in the threshold only: what an access does     *)
(* under any of them.                                                      *)
(***************************************************************************)
SeqThreshold(t) ==
  IF policy = "ziqilru" THEN t = threshold
  ELSE t = threshold + 1 \/ (policy = "dynamicClru" /\ t = threshold * 2)

LessSeqThreshold(t) ==
  IF policy = "ziqilru" THEN t = threshold
  ELSE t = threshold \div 2 \/ t = threshold - 1

\* A hit, an insertion, or one of three evictions.
LEMMA AccessCases ==
  ASSUME NEW k, NEW op, access(k, op)
  PROVE  \/ Hit(k, op)
         \/ InsertWithRoom(k, op)
         \/ EvictClean(k, op)
         \/ \E t : SeqThreshold(t) /\ SeqEvictTo(t, k, op)
         \/ \E t : LessSeqThreshold(t) /\ LessSeqEvictTo(t, k, op)
<1> USE DEF AccessNoFlush, SeqThreshold, LessSeqThreshold
<1>1. CASE ZiqiAccess(k, op)
  BY <1>1 DEF ZiqiAccess, ZiqiSeqEvict, ZiqiLessSeqEvict
<1>2. CASE DynamicAccess(k, op)
  BY <1>2 DEF DynamicAccess, DynamicSeqEvict, DynamicLessSeqEvict
<1>3. CASE DynamicBAccess(k, op)
  BY <1>3 DEF DynamicBAccess, DynamicBSeqEvict, DynamicBLessSeqEvict
<1>4. CASE DynamicCAccess(k, op)
  BY <1>4 DEF DynamicCAccess, DynamicCSeqEvict, DynamicCLessSeqEvict
<1>5. CASE HotColdAccess(k, op)
  BY <1>5 DEF HotColdAccess, HotColdSeqEvict, HotColdLessSeqEvict
<1>6. QED
  BY <1>1, <1>2, <1>3, <1>4, <1>5 DEF access

\* The pages that the three evictions remove.
LEMMA EvictCleanStep ==
  ASSUME Consistent, NEW k \in Page, NEW op \in Op, EvictClean(k, op)
  PROVE  /\ k \notin Keys(key_to_value)
         /\ {Head(key_tracker)} \subseteq Keys(key_to_value)
         /\ Head(key_tracker) \notin DirtyKeys(key_to_value)
         /\ RemoveAndRecord({Head(key_tracker)}, k, op)
         /\ Cardinality({Head(key_tracker)}) = 1
<1>1. Head(key_tracker) \in Keys(key_to_value)
  BY SizeFacts DEF EvictClean, MustEvict
<1>2. Cardinality({Head(key_tracker)}) = 1
  BY FS_Singleton
<1>3. QED
  BY <1>1, <1>2 DEF EvictClean, MustEvict, Keys, DirtyKeys

\* A flushed run: dirty pages of the cache, as many as are counted.
LEMMA FlushFacts ==
  ASSUME Consistent, NEW q \in Page, key_to_value[q] = "dirty",
         NEW k \in Page, MustEvict(k)
  PROVE  /\ k \notin Keys(key_to_value)
         /\ Run(key_to_value, q) # {}
         /\ Run(key_to_value, q) \subseteq Keys(key_to_value)
         /\ Run(key_to_value, q) \subseteq DirtyKeys(key_to_value)
         /\ Run(key_to_value, q) \subseteq Page
         /\ Cardinality(Run(key_to_value, q)) = SeqLength(key_to_value, q)
         /\ SeqLength(key_to_value, q) \in 1..Capacity
<1>1. /\ q \in Run(key_to_value, q)
      /\ Run(key_to_value, q) \subseteq DirtyKeys(key_to_value)
      /\ Run(key_to_value, q) \subseteq Keys(key_to_value)
      /\ Cardinality(Run(key_to_value, q)) = SeqLength(key_to_value, q)
      /\ SeqLength(key_to_value, q) \in 1..Capacity
  BY DirtyRunFacts
<1>2. Keys(key_to_value) \subseteq Page
  BY SizeFacts DEF Keys
<1>3. k \notin Keys(key_to_value)
  BY DEF MustEvict, Keys
<1>4. QED
  BY <1>1, <1>2, <1>3

\* The LRU page that evict() finds dirty.
LEMMA HeadDirty ==
  ASSUME Consistent, NEW k, MustEvict(k), Dirty(Head(key_tracker))
  PROVE  /\ Head(key_tracker) \in Page
         /\ Head(key_tracker) = key_tracker[1]
         /\ key_to_value[Head(key_tracker)] = "dirty"
<1>1. Head(key_tracker) \in Page /\ Head(key_tracker) = key_tracker[1]
  BY SizeFacts DEF MustEvict
<1>2. QED
  BY <1>1, DirtyIs DEF MustEvict
(***************************************************************************)
(* The inductive invariant holds of the empty cache with the threshold     *)
(* that main() sets.                                                       *)
(***************************************************************************)
LEMMA InitInv == Init => IndInv
<1> SUFFICES ASSUME Init PROVE IndInv
  OBVIOUS
<1>1. PICK t \in IF policy = "ziqilru" THEN Thresholds ELSE {1} : InitWith(t)
  BY DEF Init
<1>2. threshold \in Nat /\ (policy # "ziqilru" => threshold = 1)
  BY <1>1, PoliciesAssumption DEF InitWith
<1>3. /\ key_tracker = <<>> /\ flushed = {}
      /\ totalEvictedCleanPages = 0
      /\ totalSeqEvictedDirtyPages = 0
      /\ totalNonSeqEvictedDirtyPages = 0
      /\ key_to_value = NoEntries(Page)
  BY <1>1 DEF InitWith
<1>4. key_tracker \in Seq(Page) /\ Len(key_tracker) = 0
      /\ key_to_value \in [Page -> Entry]
  BY <1>3 DEF NoEntries, Entry
<1>5. TypeOK
  BY <1>2, <1>3, <1>4 DEF TypeOK
<1>6. Linked(key_tracker, key_to_value)
  BY <1>3 DEF Linked, ListSet, Keys, NoDuplicates, NoEntries
<1>7. Consistent
  BY <1>4, <1>5, <1>6, CapacityAssumption, NumPagesAssumption DEF Consistent
<1>8. EvictionsAccounted /\ misses \in Nat
  BY <1>3, <1>4 DEF EvictionsAccounted, Init
<1>9. ThresholdBounded
  BY <1>2, CapacityAssumption, NumPagesAssumption DEF ThresholdBounded
<1>10. QED
  BY <1>7, <1>8, <1>9 DEF IndInv, Init

(***************************************************************************)
(* Each kind of access keeps the list and the table consistent, counts     *)
(* the pages that leave, and moves the threshold within its bounds.        *)
(***************************************************************************)
Counted ==
  totalEvictedCleanPages + totalSeqEvictedDirtyPages + totalNonSeqEvictedDirtyPages

CountersTyped ==
  /\ totalEvictedCleanPages \in Nat
  /\ totalSeqEvictedDirtyPages \in Nat
  /\ totalNonSeqEvictedDirtyPages \in Nat

\* What the proof of an access has to show: the types and the books.
Kept(miss) ==
  /\ key_tracker' \in Seq(Page)
  /\ key_to_value' \in [Page -> Entry]
  /\ Linked(key_tracker', key_to_value')
  /\ Len(key_tracker') <= Capacity
  /\ flushed' \in SUBSET Page
  /\ CountersTyped'
  /\ Len(key_tracker') + Counted' = Len(key_tracker) + Counted + miss
  /\ threshold' \in Nat
  /\ ThresholdBounded'

\* A hit moves a page in the list and counts nothing.
LEMMA HitKeeps ==
  ASSUME IndInv, NEW k \in Page, NEW op \in Op, Hit(k, op),
         UNCHANGED <<policy, writeOnly>>
  PROVE  Kept(0)
<1>1. Consistent /\ TypeOK /\ ThresholdBounded
  BY DEF IndInv, Consistent
<1>2. /\ key_tracker' \in Seq(Page)
      /\ key_to_value' \in [Page -> Entry]
      /\ Linked(key_tracker', key_to_value')
      /\ Len(key_tracker') = Len(key_tracker)
  BY <1>1, HitStep
<1>3. Len(key_tracker) \in 0..Capacity
  BY <1>1, SizeFacts
<1>4. CountersTyped' /\ Counted' = Counted /\ Counted \in Nat
  BY <1>1 DEF Hit, TypeOK, CountersTyped, Counted
<1>5. threshold' \in Nat /\ ThresholdBounded'
  BY <1>1 DEF Hit, TypeOK, ThresholdBounded
<1>6. flushed' \in SUBSET Page
  BY DEF Hit
<1>7. QED
  BY <1>2, <1>3, <1>4, <1>5, <1>6 DEF Kept

\* A miss with room makes the list longer by one.
LEMMA InsertKeeps ==
  ASSUME IndInv, NEW k \in Page, NEW op \in Op, InsertWithRoom(k, op),
         UNCHANGED <<policy, writeOnly>>
  PROVE  Kept(1)
<1>1. Consistent /\ TypeOK /\ ThresholdBounded
  BY DEF IndInv, Consistent
<1>2. /\ key_tracker' \in Seq(Page)
      /\ key_to_value' \in [Page -> Entry]
      /\ Linked(key_tracker', key_to_value')
      /\ Len(key_tracker') = Len(key_tracker) + 1
      /\ Len(key_tracker') <= Capacity
  BY <1>1, InsertStep
<1>3. Len(key_tracker) \in 0..Capacity
  BY <1>1, SizeFacts
<1>4. CountersTyped' /\ Counted' = Counted /\ Counted \in Nat
  BY <1>1 DEF InsertWithRoom, TypeOK, CountersTyped, Counted
<1>5. threshold' \in Nat /\ ThresholdBounded'
  BY <1>1 DEF InsertWithRoom, TypeOK, ThresholdBounded
<1>6. flushed' \in SUBSET Page
  BY DEF InsertWithRoom
<1>7. QED
  BY <1>2, <1>3, <1>4, <1>5, <1>6 DEF Kept

\* The eviction of a clean page counts one and keeps the length of the list.
LEMMA EvictCleanKeeps ==
  ASSUME IndInv, NEW k \in Page, NEW op \in Op, EvictClean(k, op),
         UNCHANGED <<policy, writeOnly>>
  PROVE  Kept(1)
<1> DEFINE R == {Head(key_tracker)}
<1>1. Consistent /\ TypeOK /\ ThresholdBounded
  BY DEF IndInv, Consistent
<1>2. /\ k \notin Keys(key_to_value) /\ R \subseteq Keys(key_to_value) /\ R # {}
      /\ RemoveAndRecord(R, k, op)
      /\ Cardinality(R) = 1
  BY <1>1, EvictCleanStep
<1> HIDE DEF R
<1>3. /\ key_tracker' \in Seq(Page)
      /\ key_to_value' \in [Page -> Entry]
      /\ Linked(key_tracker', key_to_value')
      /\ Len(key_tracker') + Cardinality(R) = Len(key_tracker) + 1
      /\ Len(key_tracker') <= Capacity
  BY <1>1, <1>2, RemoveStep
<1>4. Len(key_tracker) \in 0..Capacity /\ Len(key_tracker') \in Nat
  BY <1>1, <1>3, SizeFacts
<1>5. CountersTyped' /\ Counted' = Counted + 1 /\ Counted \in Nat
  BY <1>1 DEF EvictClean, TypeOK, CountersTyped, Counted
<1>6. threshold' \in Nat /\ ThresholdBounded'
  BY <1>1 DEF EvictClean, TypeOK, ThresholdBounded
<1>7. flushed' \in SUBSET Page
  BY DEF EvictClean
<1>8. Len(key_tracker') + Counted' = Len(key_tracker) + Counted + 1
  BY <1>2, <1>3, <1>4, <1>5
<1>9. QED
  BY <1>3, <1>5, <1>6, <1>7, <1>8 DEF Kept

(***************************************************************************)
(* A run above the threshold is at most Capacity pages long, so that the   *)
(* threshold is at most Capacity when it is raised.                        *)
(***************************************************************************)
LEMMA SeqEvictKeeps ==
  ASSUME IndInv, NEW k \in Page, NEW op \in Op, NEW t, SeqThreshold(t),
         SeqEvictTo(t, k, op), UNCHANGED <<policy, writeOnly>>
  PROVE  Kept(1)
<1> DEFINE q == FirstLongRun
           R == Run(key_to_value, q)
           L == SeqLength(key_to_value, q)
<1>1. Consistent /\ TypeOK /\ ThresholdBounded
  BY DEF IndInv, Consistent
<1>2. /\ MustEvict(k) /\ RemoveAndRecord(R, k, op) /\ flushed' = R
      /\ threshold' = t
      /\ totalEvictedCleanPages' = totalEvictedCleanPages
      /\ totalSeqEvictedDirtyPages' = totalSeqEvictedDirtyPages + L
      /\ totalNonSeqEvictedDirtyPages' = totalNonSeqEvictedDirtyPages
  BY DEF SeqEvictTo
<1>3. q \in Page /\ key_to_value[q] = "dirty" /\ L > threshold - 1
  BY <1>1, FirstLongRunFacts DEF SeqEvictTo
<1>4. /\ k \notin Keys(key_to_value)
      /\ R # {} /\ R \subseteq Keys(key_to_value) /\ R \subseteq Page
      /\ Cardinality(R) = L /\ L \in 1..Capacity
  BY <1>1, <1>2, <1>3, FlushFacts
<1> HIDE DEF q, R, L
<1>5. /\ key_tracker' \in Seq(Page)
      /\ key_to_value' \in [Page -> Entry]
      /\ Linked(key_tracker', key_to_value')
      /\ Len(key_tracker') + Cardinality(R) = Len(key_tracker) + 1
      /\ Len(key_tracker') <= Capacity
  BY <1>1, <1>2, <1>4, RemoveStep
<1>6. Len(key_tracker) \in 0..Capacity /\ Len(key_tracker') \in Nat /\ Capacity \in Nat
  BY <1>1, <1>5, SizeFacts, CapacityAssumption, NumPagesAssumption
<1>7. CountersTyped' /\ Counted' = Counted + L /\ Counted \in Nat
  BY <1>1, <1>2, <1>4 DEF TypeOK, CountersTyped, Counted
<1>8. threshold \in Nat /\ threshold <= Capacity
  BY <1>1, <1>3, <1>4, <1>6 DEF TypeOK
<1>9. threshold' \in Nat /\ ThresholdBounded'
  BY <1>1, <1>2, <1>6, <1>8 DEF SeqThreshold, ThresholdBounded
<1>10. Len(key_tracker') + Counted' = Len(key_tracker) + Counted + 1
  BY <1>4, <1>5, <1>6, <1>7
<1>11. QED
  BY <1>2, <1>4, <1>5, <1>7, <1>9, <1>10 DEF Kept

(***************************************************************************)
(* When no run reaches the threshold, that of the LRU page does not: it is *)
(* one page long at least, so the threshold that is lowered is 2 or more.  *)
(***************************************************************************)
LEMMA LessSeqEvictKeeps ==
  ASSUME IndInv, NEW k \in Page, NEW op \in Op, NEW t, LessSeqThreshold(t),
         LessSeqEvictTo(t, k, op), UNCHANGED <<policy, writeOnly>>
  PROVE  Kept(1)
<1> DEFINE q == Head(key_tracker)
           R == Run(key_to_value, q)
           L == SeqLength(key_to_value, q)
<1>1. Consistent /\ TypeOK /\ ThresholdBounded
  BY DEF IndInv, Consistent
<1>2. /\ MustEvict(k) /\ RemoveAndRecord(R, k, op) /\ flushed' = R
      /\ threshold' = t
      /\ totalEvictedCleanPages' = totalEvictedCleanPages
      /\ totalSeqEvictedDirtyPages' = totalSeqEvictedDirtyPages
      /\ totalNonSeqEvictedDirtyPages' = totalNonSeqEvictedDirtyPages + L
  BY DEF LessSeqEvictTo
<1>3. q \in Page /\ key_to_value[q] = "dirty"
  BY <1>1, <1>2, HeadDirty DEF LessSeqEvictTo
<1>4. /\ k \notin Keys(key_to_value)
      /\ R # {} /\ R \subseteq Keys(key_to_value) /\ R \subseteq Page
      /\ Cardinality(R) = L /\ L \in 1..Capacity
  BY <1>1, <1>2, <1>3, FlushFacts
<1>5. L < threshold
  BY <1>1, <1>3, NoLongRunFacts DEF LessSeqEvictTo
<1> HIDE DEF q, R, L
<1>6. /\ key_tracker' \in Seq(Page)
      /\ key_to_value' \in [Page -> Entry]
      /\ Linked(key_tracker', key_to_value')
      /\ Len(key_tracker') + Cardinality(R) = Len(key_tracker) + 1
      /\ Len(key_tracker') <= Capacity
  BY <1>1, <1>2, <1>4, RemoveStep
<1>7. Len(key_tracker) \in 0..Capacity /\ Len(key_tracker') \in Nat /\ Capacity \in Nat
  BY <1>1, <1>6, SizeFacts, CapacityAssumption, NumPagesAssumption
<1>8. CountersTyped' /\ Counted' = Counted + L /\ Counted \in Nat
  BY <1>1, <1>2, <1>4 DEF TypeOK, CountersTyped, Counted
<1>9. threshold \in Nat /\ threshold >= 2
  BY <1>1, <1>4, <1>5, <1>7 DEF TypeOK
<1>10. threshold' \in Nat /\ ThresholdBounded'
  BY <1>1, <1>2, <1>7, <1>9 DEF LessSeqThreshold, ThresholdBounded
<1>11. Len(key_tracker') + Counted' = Len(key_tracker) + Counted + 1
  BY <1>4, <1>6, <1>7, <1>8
<1>12. QED
  BY <1>2, <1>4, <1>6, <1>8, <1>10, <1>11 DEF Kept

\* Every access keeps the inductive invariant.
LEMMA NextInv == IndInv /\ [Next]_rvars => IndInv'
<1> SUFFICES ASSUME IndInv, [Next]_rvars PROVE IndInv'
  OBVIOUS
<1>1. ASSUME NEW k \in Page, NEW op \in Op, access(k, op),
             misses' = IF key_to_value[k] = "absent" THEN misses + 1 ELSE misses,
             UNCHANGED <<policy, writeOnly>>
      PROVE  IndInv'
  <2> DEFINE miss == IF key_to_value[k] = "absent" THEN 1 ELSE 0
  <2>1. Kept(miss)
    <3>1. CASE Hit(k, op)
      BY <1>1, <3>1, HitKeeps DEF Hit
    <3>2. CASE InsertWithRoom(k, op)
      BY <1>1, <3>2, InsertKeeps DEF InsertWithRoom
    <3>3. CASE EvictClean(k, op)
      BY <1>1, <3>3, EvictCleanKeeps DEF EvictClean, MustEvict
    <3>4. CASE \E t : SeqThreshold(t) /\ SeqEvictTo(t, k, op)
      BY <1>1, <3>4, SeqEvictKeeps DEF SeqEvictTo, MustEvict
    <3>5. CASE \E t : LessSeqThreshold(t) /\ LessSeqEvictTo(t, k, op)
      BY <1>1, <3>5, LessSeqEvictKeeps DEF LessSeqEvictTo, MustEvict
    <3>6. QED
      BY <1>1, <3>1, <3>2, <3>3, <3>4, <3>5, AccessCases
  <2>2. misses' = misses + miss /\ misses \in Nat
    BY <1>1 DEF IndInv
  <2>3. Consistent'
    BY <2>1 DEF Kept, CountersTyped, Consistent, TypeOK
  <2>4. EvictionsAccounted' /\ misses' \in Nat
    <3>1. misses = Len(key_tracker) + Counted /\ Len(key_tracker) \in Nat
      BY SizeFacts DEF IndInv, EvictionsAccounted, Counted, Consistent, TypeOK
    <3>2. CountersTyped /\ CountersTyped' /\ Len(key_tracker') \in Nat
      BY <2>1 DEF Kept, CountersTyped, IndInv, Consistent, TypeOK
    <3>3. misses' = Len(key_tracker') + Counted'
      BY <2>1, <2>2, <3>1, <3>2 DEF Kept, Counted, CountersTyped
    <3>4. ASSUME NEW a \in Nat, NEW b \in Nat, NEW c \in Nat, NEW d \in Nat
          PROVE  d + (a + b + c) = d + a + b + c
      OBVIOUS
    <3>5. EvictionsAccounted'
      <4>1. Len(key_tracker') + Counted' =
              Len(key_tracker') + totalEvictedCleanPages'
                + totalSeqEvictedDirtyPages' + totalNonSeqEvictedDirtyPages'
        BY <3>2, <3>4 DEF Counted, CountersTyped
      <4>2. QED
        BY <3>3, <4>1 DEF EvictionsAccounted
    <3>6. QED
      BY <2>2, <3>5
  <2>5. QED
    BY <1>1, <2>1, <2>3, <2>4 DEF IndInv, Kept
<1>2. CASE UNCHANGED rvars
  BY <1>2 DEF rvars, vars, IndInv, Consistent, TypeOK, EvictionsAccounted,
              ThresholdBounded
<1>3. QED
  BY <1>1, <1>2 DEF Next

(***************************************************************************)
(* The recency list and the page table of the five policies describe the   *)
(* same pages, although a run is taken out of the middle of both.          *)
(***************************************************************************)
THEOREM AlwaysConsistent == Spec => []Consistent
<1>1. IndInv => Consistent
  BY DEF IndInv
<1>2. QED
  BY <1>1, InitInv, NextInv, PTL DEF Spec

(***************************************************************************)
(* The eviction counters of stats.cpp and the pages still cached add up to *)
(* the misses: SeqLength is the number of pages that a flush removes.      *)
(***************************************************************************)
THEOREM EvictionsAddUp == Spec => []EvictionsAccounted
<1>1. IndInv => EvictionsAccounted
  BY DEF IndInv
<1>2. QED
  BY <1>1, InitInv, NextInv, PTL DEF Spec

(***************************************************************************)
(* The adaptive thresholds stay between 1 and the capacity plus 1, or      *)
(* twice the capacity where they are doubled, although no code tests them. *)
(***************************************************************************)
THEOREM ThresholdStaysInRange == Spec => []ThresholdBounded
<1>1. IndInv => ThresholdBounded
  BY DEF IndInv
<1>2. QED
  BY <1>1, InitInv, NextInv, PTL DEF Spec

(***************************************************************************)
(* A set of pages that is a run of consecutive dirty pages, wherever it    *)
(* begins, lies within the run that the loops find from each of its pages. *)
(***************************************************************************)
LEMMA DirtyRunWithin ==
  ASSUME Consistent, NEW R \in SUBSET DirtyKeys(key_to_value),
         IsDirtyRun(key_to_value, R), NEW q \in R
  PROVE  /\ q \in Page /\ key_to_value[q] = "dirty"
         /\ Cardinality(R) \in Nat
         /\ Cardinality(R) <= SeqLength(key_to_value, q)
         /\ SeqLength(key_to_value, q) \in 1..Capacity
<1>1. /\ key_to_value \in [Page -> Entry]
      /\ \E hole \in Page : key_to_value[hole] # "dirty"
  BY SizeFacts DEF Consistent, TypeOK
<1>2. R \in SUBSET Page /\ q \in Page /\ key_to_value[q] = "dirty"
  BY <1>1 DEF DirtyKeys
<1>3. PICK f \in R : key_to_value[f] = "dirty" /\ R \subseteq Run(key_to_value, f)
  BY <1>1, <1>2, Pages, RunIsLongest
<1>4. Run(key_to_value, f) \subseteq Run(key_to_value, q)
  <2>1. f \in Page /\ q \in Run(key_to_value, f)
    BY <1>2, <1>3
  <2>2. QED
    BY <1>1, <1>3, <2>1, Pages, RunsMeet
<1>5. /\ IsFiniteSet(Run(key_to_value, q))
      /\ Cardinality(Run(key_to_value, q)) = SeqLength(key_to_value, q)
      /\ SeqLength(key_to_value, q) \in 1..Capacity
  BY <1>2, DirtyRunFacts
<1>6. /\ Cardinality(R) <= Cardinality(Run(key_to_value, q))
      /\ IsFiniteSet(R)
  BY <1>3, <1>4, <1>5, FS_Subset
<1>7. QED
  BY <1>2, <1>5, <1>6, FS_CardinalityType

\* When the loops find no run that reaches the threshold, there is none.
LEMMA NoLongDirtyRun ==
  ASSUME Consistent, LongRunAt = {}
  PROVE  LongRuns = {}
<1>1. SUFFICES ASSUME NEW R \in LongRuns PROVE FALSE
  OBVIOUS
<1>2. /\ R \in SUBSET DirtyKeys(key_to_value) /\ IsDirtyRun(key_to_value, R)
      /\ Cardinality(R) >= threshold
  BY DEF LongRuns
<1>3. PICK q \in R : TRUE
  BY <1>2 DEF IsDirtyRun
<1>4. /\ q \in Page /\ key_to_value[q] = "dirty"
      /\ Cardinality(R) \in Nat
      /\ Cardinality(R) <= SeqLength(key_to_value, q)
      /\ SeqLength(key_to_value, q) \in 1..Capacity
  BY <1>2, DirtyRunWithin
<1>5. SeqLength(key_to_value, q) < threshold
  BY <1>4, NoLongRunFacts
<1>6. threshold \in Nat /\ Capacity \in Nat
  BY CapacityAssumption, NumPagesAssumption DEF Consistent, TypeOK
<1>7. QED
  BY <1>2, <1>4, <1>5, <1>6

(***************************************************************************)
(* The page that the for loop stops at is the first one in LRU order which *)
(* is in any run that reaches the threshold.                               *)
(***************************************************************************)
LEMMA FirstOfLongRuns ==
  ASSUME Consistent, LongRunAt # {}
  PROVE  \E i \in DOMAIN key_tracker :
           /\ FirstLongRun = key_tracker[i]
           /\ \A j \in 1..(i - 1) : key_tracker[j] \notin UNION LongRuns
<1>1. PICK i \in LongRunAt : /\ FirstLongRun = key_tracker[i]
                             /\ \A j \in LongRunAt : i <= j
  BY FirstLongRunFacts
<1>2. /\ key_tracker \in Seq(Page) /\ Len(key_tracker) \in Nat
      /\ i \in 1..Len(key_tracker) /\ DOMAIN key_tracker = 1..Len(key_tracker)
  BY SizeFacts DEF LongRunAt
<1>3. ASSUME NEW j \in 1..(i - 1), NEW R \in LongRuns, key_tracker[j] \in R
      PROVE  FALSE
  <2> DEFINE q == key_tracker[j]
  <2>1. /\ R \in SUBSET DirtyKeys(key_to_value) /\ IsDirtyRun(key_to_value, R)
        /\ Cardinality(R) >= threshold /\ q \in R
    BY <1>3 DEF LongRuns
  <2>2. j \in 1..Len(key_tracker) /\ ~(i <= j)
    BY <1>2
  <2> HIDE DEF q
  <2>3. /\ q \in Page /\ key_to_value[q] = "dirty"
        /\ Cardinality(R) \in Nat
        /\ Cardinality(R) <= SeqLength(key_to_value, q)
        /\ SeqLength(key_to_value, q) \in 1..Capacity
    BY <2>1, DirtyRunWithin
  <2>4. threshold \in Nat /\ Capacity \in Nat
    BY CapacityAssumption, NumPagesAssumption DEF Consistent, TypeOK
  <2>5. SeqLength(key_to_value, q) > threshold - 1
    BY <2>1, <2>3, <2>4
  <2>6. j \in LongRunAt
    BY <2>2, <2>3, <2>5, DirtyIs DEF LongRunAt, q
  <2>7. QED
    BY <1>1, <2>2, <2>6
<1>4. QED
  BY <1>1, <1>2, <1>3

(***************************************************************************)
(* What one access may flush.                                              *)
(***************************************************************************)
FlushedWell ==
  flushed' # {} =>
    /\ Dirty(key_tracker[1])
    /\ IsWholeRun(key_to_value, flushed')
    /\ IF LongRuns = {} THEN key_tracker[1] \in flushed'
       ELSE /\ Cardinality(flushed') >= threshold
            /\ \E i \in DOMAIN key_tracker :
                 /\ key_tracker[i] \in flushed'
                 /\ \A j \in 1..(i - 1) : key_tracker[j] \notin UNION LongRuns

\* A long run is a whole one, as long as the loops have counted.
LEMMA SeqEvictFlushesWell ==
  ASSUME Consistent, NEW k \in Page, NEW op \in Op, NEW t, SeqEvictTo(t, k, op)
  PROVE  FlushedWell
<1> DEFINE q == FirstLongRun
           R == Run(key_to_value, q)
           L == SeqLength(key_to_value, q)
<1>1. MustEvict(k) /\ Dirty(Head(key_tracker)) /\ flushed' = R
  BY DEF SeqEvictTo
<1>2. q \in Page /\ key_to_value[q] = "dirty" /\ L > threshold - 1
  BY FirstLongRunFacts DEF SeqEvictTo
<1>3. /\ Cardinality(R) = L /\ L \in 1..Capacity
      /\ IsWholeRun(key_to_value, R) /\ q \in R
      /\ R \in SUBSET DirtyKeys(key_to_value)
  BY <1>2, DirtyRunFacts
<1>4. Dirty(key_tracker[1])
  BY <1>1, HeadDirty
<1>5. threshold \in Nat /\ Capacity \in Nat
  BY CapacityAssumption, NumPagesAssumption DEF Consistent, TypeOK
<1>6. \E i \in DOMAIN key_tracker :
        /\ q = key_tracker[i]
        /\ \A j \in 1..(i - 1) : key_tracker[j] \notin UNION LongRuns
  BY FirstOfLongRuns DEF SeqEvictTo
<1> HIDE DEF q, R, L
<1>7. Cardinality(flushed') >= threshold
  BY <1>1, <1>2, <1>3, <1>5
<1>8. R \in LongRuns
  BY <1>1, <1>3, <1>7 DEF LongRuns, IsWholeRun
<1>9. QED
  BY <1>1, <1>3, <1>4, <1>6, <1>7, <1>8 DEF FlushedWell

\* A short run is a whole one, with the LRU page, and all runs are short.
LEMMA LessSeqEvictFlushesWell ==
  ASSUME Consistent, NEW k \in Page, NEW op \in Op, NEW t,
         LessSeqEvictTo(t, k, op)
  PROVE  FlushedWell
<1> DEFINE q == Head(key_tracker)
           R == Run(key_to_value, q)
<1>1. MustEvict(k) /\ Dirty(q) /\ flushed' = R /\ LongRunAt = {}
  BY DEF LessSeqEvictTo
<1>2. q \in Page /\ key_to_value[q] = "dirty" /\ q = key_tracker[1]
  BY <1>1, HeadDirty
<1>3. IsWholeRun(key_to_value, R) /\ q \in R
  BY <1>2, DirtyRunFacts
<1>4. LongRuns = {}
  BY <1>1, NoLongDirtyRun
<1> HIDE DEF q, R
<1>5. QED
  BY <1>1, <1>2, <1>3, <1>4 DEF FlushedWell

(***************************************************************************)
(* A flush happens only when the LRU page is dirty and is one whole run:   *)
(* that of the first page in LRU order which is in a run that reaches the  *)
(* threshold, or that of the LRU page if no run does. This is the README's *)
(* account of lru-ziqi, for the five policies and any threshold.           *)
(***************************************************************************)
THEOREM FlushesWholeRuns == Spec => FlushesAWholeRun
<1>1. ASSUME IndInv, NEW k \in Page, NEW op \in Op, access(k, op)
      PROVE  FlushedWell
  <2>1. Consistent
    BY <1>1 DEF IndInv
  <2>2. CASE Hit(k, op) \/ InsertWithRoom(k, op) \/ EvictClean(k, op)
    BY <2>2 DEF Hit, InsertWithRoom, EvictClean, FlushedWell
  <2>3. CASE \E t : SeqThreshold(t) /\ SeqEvictTo(t, k, op)
    BY <2>1, <2>3, SeqEvictFlushesWell
  <2>4. CASE \E t : LessSeqThreshold(t) /\ LessSeqEvictTo(t, k, op)
    BY <2>1, <2>4, LessSeqEvictFlushesWell
  <2>5. QED
    BY <1>1, <2>2, <2>3, <2>4, AccessCases
<1>2. IndInv /\ [Next]_rvars => [FlushedWell]_vars
  <2> SUFFICES ASSUME IndInv, [Next]_rvars PROVE [FlushedWell]_vars
    OBVIOUS
  <2>1. CASE Next
    BY <1>1, <2>1 DEF Next
  <2>2. CASE UNCHANGED rvars
    BY <2>2 DEF rvars
  <2>3. QED
    BY <2>1, <2>2
<1>3. Spec => [][FlushedWell]_vars
  BY <1>2, InitInv, NextInv, PTL DEF Spec
<1>4. QED
  BY <1>3 DEF FlushesAWholeRun, FlushedWell

(***************************************************************************)
(* What an access does to the pages held when the trace holds writes only, *)
(* E being the pages evicted: k enters and is dirty, what is flushed is    *)
(* evicted, and no other page that leaves is dirty.                        *)
(***************************************************************************)
PagesWritten(k, E) ==
  /\ Keys(key_to_value') = (Keys(key_to_value) \ E) \cup {k}
  /\ DirtyKeys(key_to_value') = (DirtyKeys(key_to_value) \ flushed') \cup {k}
  /\ flushed' \subseteq E
  /\ flushed' \subseteq DirtyKeys(key_to_value)
  /\ k \in Keys(key_to_value) => E = {}

(***************************************************************************)
(* Every access that writes is one of that kind, with the pages that       *)
(* evict() removes, none, one or a run, as E.                              *)
(***************************************************************************)
LEMMA AccessWrites ==
  ASSUME IndInv, NEW k \in Page, NEW op \in Op, access(k, op), op = "WRITE"
  PROVE  \E E : PagesWritten(k, E)
<1> USE DEF PagesWritten
<1>1. Consistent /\ Written(k, op) = {k}
  BY DEF IndInv, Written
<1>2. CASE Hit(k, op)
  <2>1. flushed' = {} /\ k \in Keys(key_to_value)
        /\ Keys(key_to_value') = Keys(key_to_value)
        /\ DirtyKeys(key_to_value') = (DirtyKeys(key_to_value) \ {k}) \cup {k}
    BY <1>1, <1>2, HitStep DEF Hit
  <2>2. PagesWritten(k, {})
    BY <2>1
  <2>3. QED
    BY <2>2
<1>3. CASE InsertWithRoom(k, op)
  <2>1. flushed' = {} /\ k \notin Keys(key_to_value)
        /\ Keys(key_to_value') = Keys(key_to_value) \cup {k}
        /\ DirtyKeys(key_to_value') = DirtyKeys(key_to_value) \cup {k}
    BY <1>1, <1>3, InsertStep DEF InsertWithRoom
  <2>2. PagesWritten(k, {})
    BY <2>1
  <2>3. QED
    BY <2>2
<1>4. CASE EvictClean(k, op)
  <2> DEFINE E == {Head(key_tracker)}
  <2>1. /\ k \notin Keys(key_to_value) /\ E \subseteq Keys(key_to_value) /\ E # {}
        /\ Head(key_tracker) \notin DirtyKeys(key_to_value)
        /\ RemoveAndRecord(E, k, op)
    BY <1>1, <1>4, EvictCleanStep
  <2>2. /\ Keys(key_to_value') = (Keys(key_to_value) \ E) \cup {k}
        /\ DirtyKeys(key_to_value') = (DirtyKeys(key_to_value) \ E) \cup {k}
    BY <1>1, <2>1, RemoveStep
  <2>3. flushed' = {}
    BY <1>4 DEF EvictClean
  <2>4. PagesWritten(k, E)
    BY <2>1, <2>2, <2>3
  <2>5. QED
    BY <2>4
<1>5. ASSUME NEW q \in Page, key_to_value[q] = "dirty", MustEvict(k),
             RemoveAndRecord(Run(key_to_value, q), k, op),
             flushed' = Run(key_to_value, q)
      PROVE  PagesWritten(k, flushed')
  <2> DEFINE R == Run(key_to_value, q)
  <2>1. /\ k \notin Keys(key_to_value)
        /\ R # {} /\ R \subseteq Keys(key_to_value)
        /\ R \subseteq DirtyKeys(key_to_value)
    BY <1>1, <1>5, FlushFacts
  <2> HIDE DEF R
  <2>2. RemoveAndRecord(R, k, op) /\ flushed' = R
    BY <1>5 DEF R
  <2>3. /\ Keys(key_to_value') = (Keys(key_to_value) \ R) \cup {k}
        /\ DirtyKeys(key_to_value') = (DirtyKeys(key_to_value) \ R) \cup {k}
    BY <1>1, <2>1, <2>2, RemoveStep
  <2>4. QED
    BY <2>1, <2>2, <2>3
<1>6. CASE \E t : SeqThreshold(t) /\ SeqEvictTo(t, k, op)
  <2>1. FirstLongRun \in Page /\ key_to_value[FirstLongRun] = "dirty"
    BY <1>1, <1>6, FirstLongRunFacts DEF SeqEvictTo
  <2>2. QED
    BY <1>5, <1>6, <2>1 DEF SeqEvictTo
<1>7. CASE \E t : LessSeqThreshold(t) /\ LessSeqEvictTo(t, k, op)
  <2>1. /\ Head(key_tracker) \in Page
        /\ key_to_value[Head(key_tracker)] = "dirty"
    BY <1>1, <1>7, HeadDirty DEF LessSeqEvictTo
  <2>2. QED
    BY <1>5, <1>7, <2>1 DEF LessSeqEvictTo
<1>8. QED
  BY <1>2, <1>3, <1>4, <1>6, <1>7, AccessCases

\* A dirty page is a cached page.
LEMMA DirtyIsCached ==
  ASSUME NEW m
  PROVE  DirtyKeys(m) \subseteq Keys(m)
BY DEF DirtyKeys, Keys

\* The abstract module's Cardinality is the standard one.
LEMMA SameCardinality ==
  ASSUME NEW S
  PROVE  WBC!Cardinality(S) = Cardinality(S)
BY DEF WBC!Cardinality, Cardinality

(***************************************************************************)
(* With writes only, every access is an access of the write-back cache.    *)
(***************************************************************************)
LEMMA StepRefines ==
  ASSUME IndInv, IndInv', NEW k \in Page, NEW op \in Op, access(k, op),
         writeOnly, writeOnly', op = "WRITE"
  PROVE  WBC!WBNext
<1> DEFINE C == Keys(key_to_value)
           D == DirtyKeys(key_to_value)
<1>1. WBC!Cardinality(C') <= Capacity
  <2>1. Consistent'
    BY DEF IndInv
  <2>2. /\ key_tracker' \in Seq(Page) /\ Linked(key_tracker', key_to_value')
        /\ Len(key_tracker') <= Capacity
    BY <2>1 DEF Consistent, TypeOK
  <2>3. MapSize(key_to_value') = Len(key_tracker')
    BY <2>2, LinkedSize
  <2>4. QED
    BY <2>2, <2>3, SameCardinality DEF MapSize
<1>2. D' \subseteq C' /\ D \subseteq C
  BY DirtyIsCached
<1>3. PICK E : PagesWritten(k, E)
  BY AccessWrites
<1>4. WBC!WBAccess(k, TRUE)
  BY <1>1, <1>2, <1>3 DEF PagesWritten, WBC!WBAccess
<1>5. QED
  BY <1>4 DEF WBC!WBNext

(***************************************************************************)
(* The five policies implement the write-back cache when Global.writeOnly  *)
(* is set: no write is lost however long the runs that are flushed, and    *)
(* only dirty pages are logged, for every capacity and threshold.          *)
(***************************************************************************)
THEOREM RefinesWriteBack == Spec => ImplementsWriteBack
<1>1. Init => WBC!WBInit
  <2> SUFFICES ASSUME Init PROVE WBC!WBInit
    OBVIOUS
  <2>1. key_to_value = NoEntries(Page) /\ flushed = {}
    BY DEF Init, InitWith
  <2>2. QED
    BY <2>1 DEF WBC!WBInit, NoEntries, Keys, DirtyKeys
<1>2. IndInv /\ IndInv' /\ [Next]_rvars => [WBC!WBNext]_(WBC!wbvars)
  <2> SUFFICES ASSUME IndInv, IndInv', [Next]_rvars
               PROVE  [WBC!WBNext]_(WBC!wbvars)
    OBVIOUS
  <2>1. CASE Next /\ writeOnly
    BY <2>1, StepRefines DEF Next
  <2>2. CASE Next /\ ~writeOnly
    BY <2>2 DEF Next, WBC!wbvars
  <2>3. CASE UNCHANGED rvars
    BY <2>3 DEF rvars, vars, WBC!wbvars
  <2>4. QED
    BY <2>1, <2>2, <2>3
<1>3. QED
  BY <1>1, <1>2, InitInv, NextInv, PTL DEF Spec, ImplementsWriteBack, WBC!WBSpec
=============================================================================
