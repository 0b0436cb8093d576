--------------------------- MODULE PureLRUProofs ----------------------------
(***************************************************************************)
(* PureLRU keeps its list and its table consistent and implements the      *)
(* write-back cache, for every set of pages and every capacity.            *)
(*                                                                         *)
(* TypeOK /\ Consistent is inductive. It is what makes evict() safe: a     *)
(* full cache has a non-empty list, so there is a front page and it has an *)
(* entry to be tested for DIRTY and erased.                                *)
(*                                                                         *)
(* The stack property of LRU is proved last, with the history variable of  *)
(* MCPureLRU.                                                              *)
(***************************************************************************)
EXTENDS MCPureLRU, StdContainersProofs

IndInv == TypeOK /\ Consistent

(***************************************************************************)
(* The entry stored by an access is a present one, and dirty if it was or  *)
(* if the access writes.                                                   *)
(***************************************************************************)
LEMMA NewEntryFacts ==
  ASSUME NEW op, NEW old
  PROVE  /\ NewEntry(op, old) \in {"clean", "dirty"}
         /\ NewEntry(op, old) = "dirty" <=> op = "WRITE" \/ old = "dirty"
BY DEF NewEntry

(***************************************************************************)
(* In a consistent cache the size of the table is the length of the list,  *)
(* and when the cache is full its front page is cached.                    *)
(***************************************************************************)
LEMMA SizeFacts ==
  ASSUME IndInv
  PROVE  /\ Len(key_tracker) \in Nat
         /\ MapSize(key_to_value) = Len(key_tracker)
         /\ Cardinality(Keys(key_to_value)) = Len(key_tracker)
         /\ MapSize(key_to_value) = Capacity =>
              /\ Victim = key_tracker[1]
              /\ Victim \in Page
              /\ Victim \in Keys(key_to_value)
<1>1. key_tracker \in Seq(Page) /\ Linked(key_tracker, key_to_value)
  BY DEF IndInv, TypeOK, Consistent
<1>2. MapSize(key_to_value) = Len(key_tracker) /\ Len(key_tracker) \in Nat
  BY <1>1, LinkedSize
<1>3. ASSUME MapSize(key_to_value) = Capacity
      PROVE  /\ Victim = key_tracker[1]
             /\ Victim \in Page
             /\ Victim \in Keys(key_to_value)
  <2>1. Len(key_tracker) > 0
    BY <1>2, <1>3, CapacityAssumption
  <2>2. QED
    BY <1>1, <2>1, FrontFacts DEF Victim, Linked
<1>4. QED
  BY <1>2, <1>3 DEF MapSize

\* The inductive invariant holds when the cache has just been made.
LEMMA InitInv == Init => IndInv
<1> SUFFICES ASSUME Init PROVE IndInv
  OBVIOUS
<1>1. TypeOK
  <2>1. key_tracker \in Seq(Page) /\ key_to_value \in [Page -> Entry]
    BY DEF Init, NoEntries, Entry
  <2>2. totalEvictedCleanPages \in Nat /\ totalNonSeqEvictedDirtyPages \in Nat
    BY DEF Init
  <2>3. QED
    BY <2>1, <2>2, Zenon DEF Init, TypeOK
<1>2. Linked(key_tracker, key_to_value) /\ Len(key_tracker) = 0
  BY DEF Init, Linked, ListSet, Keys, NoDuplicates, NoEntries
<1>3. QED
  BY <1>1, <1>2, CapacityAssumption DEF IndInv, Consistent

(***************************************************************************)
(* What a hit, an insertion and an eviction do to the pages held.          *)
(***************************************************************************)
LEMMA HitStep ==
  ASSUME IndInv, NEW k \in Page, NEW op \in Op, Hit(k, op)
  PROVE  /\ key_tracker' \in Seq(Page)
         /\ key_to_value' \in [Page -> Entry]
         /\ Linked(key_tracker', key_to_value')
         /\ Len(key_tracker') = Len(key_tracker)
         /\ Keys(key_to_value') = Keys(key_to_value)
         /\ DirtyKeys(key_to_value') =
              DirtyKeys(key_to_value) \cup (IF op = "WRITE" THEN {k} ELSE {})
<1> DEFINE s == ListRemove(key_tracker, k)
           m == MapErase(key_to_value, k)
           e == NewEntry(op, key_to_value[k])
<1>1. /\ key_tracker \in Seq(Page)
      /\ key_to_value \in [Page -> Entry]
      /\ Linked(key_tracker, key_to_value)
      /\ Len(key_tracker) \in Nat
      /\ k \in Keys(key_to_value)
      /\ k \in DirtyKeys(key_to_value) <=> key_to_value[k] = "dirty"
  BY DEF IndInv, TypeOK, Consistent, Hit, Keys, DirtyKeys
<1>2. /\ s \in Seq(Page) /\ m \in [Page -> Entry] /\ Linked(s, m)
      /\ Len(s) = Len(key_tracker) - 1
      /\ Keys(m) = Keys(key_to_value) \ {k}
      /\ DirtyKeys(m) = DirtyKeys(key_to_value) \ {k}
  BY <1>1, PurgeFacts
<1>3. e \in {"clean", "dirty"} /\
        (e = "dirty" <=> op = "WRITE" \/ key_to_value[k] = "dirty")
  BY NewEntryFacts
<1>4. key_tracker' = Append(s, k) /\ key_to_value' = MapInsert(m, k, e)
  BY DEF Hit
<1> HIDE DEF s, m, e
<1>5. k \notin Keys(m) /\ e \in {"clean", "dirty"}
  BY <1>2, <1>3
<1>6. /\ key_tracker' \in Seq(Page)
      /\ key_to_value' \in [Page -> Entry]
      /\ Linked(key_tracker', key_to_value')
      /\ Len(key_tracker') = Len(s) + 1
      /\ Keys(key_to_value') = Keys(m) \cup {k}
      /\ e = "dirty" => DirtyKeys(key_to_value') = DirtyKeys(m) \cup {k}
      /\ e = "clean" => DirtyKeys(key_to_value') = DirtyKeys(m)
  BY <1>2, <1>4, <1>5, RecordFacts
<1>7. Len(key_tracker') = Len(key_tracker)
  BY <1>1, <1>2, <1>6
<1>8. Keys(key_to_value') = Keys(key_to_value)
  BY <1>1, <1>2, <1>6
<1>9. DirtyKeys(key_to_value') =
        DirtyKeys(key_to_value) \cup (IF op = "WRITE" THEN {k} ELSE {})
  BY <1>1, <1>2, <1>3, <1>6
<1>10. QED
  BY <1>6, <1>7, <1>8, <1>9

\* insert() into a cache with room adds k, dirty if it is written.
LEMMA InsertStep ==
  ASSUME IndInv, NEW k \in Page, NEW op \in Op, Insert(k, op)
  PROVE  /\ key_tracker' \in Seq(Page)
         /\ key_to_value' \in [Page -> Entry]
         /\ Linked(key_tracker', key_to_value')
         /\ Len(key_tracker') = Len(key_tracker) + 1
         /\ Keys(key_to_value') = Keys(key_to_value) \cup {k}
         /\ DirtyKeys(key_to_value') =
              DirtyKeys(key_to_value) \cup (IF op = "WRITE" THEN {k} ELSE {})
<1> DEFINE e == NewEntry(op, "absent")
<1>1. /\ key_tracker \in Seq(Page)
      /\ key_to_value \in [Page -> Entry]
      /\ Linked(key_tracker, key_to_value)
      /\ k \notin Keys(key_to_value)
  BY DEF IndInv, TypeOK, Consistent, Insert, Keys
<1>2. e \in {"clean", "dirty"} /\ (e = "dirty" <=> op = "WRITE")
  BY NewEntryFacts
<1>3. /\ key_tracker' = Append(key_tracker, k)
      /\ key_to_value' = MapInsert(key_to_value, k, e)
  BY DEF Insert
<1> HIDE DEF e
<1>4. /\ key_tracker' \in Seq(Page)
      /\ key_to_value' \in [Page -> Entry]
      /\ Linked(key_tracker', key_to_value')
      /\ Len(key_tracker') = Len(key_tracker) + 1
      /\ Keys(key_to_value') = Keys(key_to_value) \cup {k}
      /\ e = "dirty" =>
           DirtyKeys(key_to_value') = DirtyKeys(key_to_value) \cup {k}
      /\ e = "clean" => DirtyKeys(key_to_value') = DirtyKeys(key_to_value)
  BY <1>1, <1>2, <1>3, RecordFacts
<1>5. QED
  BY <1>2, <1>4

\* insert() into a full cache puts k in the place of the LRU page.
LEMMA EvictStep ==
  ASSUME IndInv, NEW k \in Page, NEW op \in Op, EvictInsert(k, op)
  PROVE  /\ key_tracker' \in Seq(Page)
         /\ key_to_value' \in [Page -> Entry]
         /\ Linked(key_tracker', key_to_value')
         /\ Len(key_tracker') = Len(key_tracker)
         /\ Keys(key_to_value') = (Keys(key_to_value) \ {Victim}) \cup {k}
         /\ DirtyKeys(key_to_value') =
              (DirtyKeys(key_to_value) \ {Victim})
                \cup (IF op = "WRITE" THEN {k} ELSE {})
<1> DEFINE s == ListRemove(key_tracker, Victim)
           m == MapErase(key_to_value, Victim)
           e == NewEntry(op, "absent")
<1>1. /\ key_tracker \in Seq(Page)
      /\ key_to_value \in [Page -> Entry]
      /\ Linked(key_tracker, key_to_value)
      /\ Len(key_tracker) \in Nat
      /\ k \notin Keys(key_to_value)
  BY DEF IndInv, TypeOK, Consistent, EvictInsert, Keys
<1>2. Victim \in Keys(key_to_value)
  BY SizeFacts DEF EvictInsert
<1>3. /\ s \in Seq(Page) /\ m \in [Page -> Entry] /\ Linked(s, m)
      /\ Len(s) = Len(key_tracker) - 1
      /\ Keys(m) = Keys(key_to_value) \ {Victim}
      /\ DirtyKeys(m) = DirtyKeys(key_to_value) \ {Victim}
  BY <1>1, <1>2, PurgeFacts
<1>4. e \in {"clean", "dirty"} /\ (e = "dirty" <=> op = "WRITE")
  BY NewEntryFacts
<1>5. key_tracker' = Append(s, k) /\ key_to_value' = MapInsert(m, k, e)
  BY DEF EvictInsert
<1> HIDE DEF s, m, e
<1>6. k \notin Keys(m) /\ e \in {"clean", "dirty"}
  BY <1>1, <1>3, <1>4
<1>7. /\ key_tracker' \in Seq(Page)
      /\ key_to_value' \in [Page -> Entry]
      /\ Linked(key_tracker', key_to_value')
      /\ Len(key_tracker') = Len(s) + 1
      /\ Keys(key_to_value') = Keys(m) \cup {k}
      /\ e = "dirty" => DirtyKeys(key_to_value') = DirtyKeys(m) \cup {k}
      /\ e = "clean" => DirtyKeys(key_to_value') = DirtyKeys(m)
  BY <1>3, <1>5, <1>6, RecordFacts
<1>8. Len(key_tracker') = Len(key_tracker)
  BY <1>1, <1>3, <1>7
<1>9. QED
  BY <1>3, <1>4, <1>7, <1>8

\* Every access of PureLRUCache keeps the inductive invariant.
LEMMA NextInv == IndInv /\ [Next]_vars => IndInv'
<1> SUFFICES ASSUME IndInv, [Next]_vars PROVE IndInv'
  OBVIOUS
<1> USE DEF IndInv
<1>1. ASSUME NEW k \in Page, NEW op \in Op, Hit(k, op)
      PROVE  IndInv'
  <2>1. TypeOK'
    BY <1>1, HitStep, Zenon DEF TypeOK, Hit
  <2>2. Consistent'
    BY <1>1, HitStep DEF Consistent
  <2>3. QED
    BY <2>1, <2>2
<1>2. ASSUME NEW k \in Page, NEW op \in Op, Insert(k, op)
      PROVE  IndInv'
  <2>1. TypeOK'
    BY <1>2, InsertStep, Zenon DEF TypeOK, Insert
  <2>2. Len(key_tracker) + 1 <= Capacity
    BY <1>2, SizeFacts, CapacityAssumption DEF Insert, Consistent
  <2>3. Consistent'
    BY <1>2, <2>2, InsertStep DEF Consistent
  <2>4. QED
    BY <2>1, <2>3
<1>3. ASSUME NEW k \in Page, NEW op \in Op, EvictInsert(k, op)
      PROVE  IndInv'
  <2>1. Victim \in Page
    BY <1>3, SizeFacts DEF EvictInsert
  <2>2. flushed' \in SUBSET Page
    BY <1>3, <2>1 DEF EvictInsert
  <2>3. totalEvictedCleanPages' \in Nat /\ totalNonSeqEvictedDirtyPages' \in Nat
    BY <1>3 DEF EvictInsert, TypeOK
  <2>4. TypeOK'
    BY <1>3, <2>2, <2>3, EvictStep, Zenon DEF TypeOK, EvictInsert
  <2>5. Consistent'
    BY <1>3, EvictStep DEF Consistent
  <2>6. QED
    BY <2>4, <2>5
<1>4. ASSUME NEW k \in Page, Abort(k)
      PROVE  IndInv'
  <2>1. TypeOK'
    BY <1>4, Zenon DEF TypeOK, Abort
  <2>2. Consistent'
    BY <1>4 DEF Consistent, Abort
  <2>3. QED
    BY <2>1, <2>2
<1>5. CASE UNCHANGED vars
  BY <1>5 DEF vars, TypeOK, Consistent
<1>6. QED
  BY <1>1, <1>2, <1>3, <1>4, <1>5 DEF Next, access

(***************************************************************************)
(* Every reachable state of PureLRUCache is well typed.                    *)
(***************************************************************************)
THEOREM TypeCorrect == Spec => []TypeOK
<1>1. IndInv => TypeOK
  BY DEF IndInv
<1>2. QED
  BY <1>1, InitInv, NextInv, PTL DEF Spec

(***************************************************************************)
(* The recency list and the page table always describe the same pages,     *)
(* never more than the capacity, whatever the trace.                       *)
(***************************************************************************)
THEOREM AlwaysConsistent == Spec => []Consistent
<1>1. IndInv => Consistent
  BY DEF IndInv
<1>2. QED
  BY <1>1, InitInv, NextInv, PTL DEF Spec

(***************************************************************************)
(* A dirty page is a cached page.                                          *)
(***************************************************************************)
LEMMA DirtyIsCached ==
  ASSUME NEW m
  PROVE  DirtyKeys(m) \subseteq Keys(m)
BY DEF DirtyKeys, Keys

(***************************************************************************)
(* The abstract module's Cardinality is the standard one.                  *)
(***************************************************************************)
LEMMA SameCardinality ==
  ASSUME NEW S
  PROVE  WBC!Cardinality(S) = Cardinality(S)
BY DEF WBC!Cardinality, Cardinality

(***************************************************************************)
(* Every access of PureLRUCache is an access of the write-back cache: the  *)
(* abstract one evicts and flushes what the detailed one does, and an      *)
(* access that aborts looks like a read hit that logs nothing.             *)
(***************************************************************************)
LEMMA StepRefines ==
  ASSUME IndInv, IndInv', NEW k \in Page, NEW op \in Op, access(k, op)
  PROVE  WBC!WBNext
<1> DEFINE C == Keys(key_to_value)
           D == DirtyKeys(key_to_value)
<1>1. WBC!Cardinality(C') <= Capacity
  <2>1. key_tracker' \in Seq(Page) /\ Linked(key_tracker', key_to_value')
    BY DEF IndInv, TypeOK, Consistent
  <2>2. MapSize(key_to_value') = Len(key_tracker')
    BY <2>1, LinkedSize
  <2>3. QED
    BY <2>2, SameCardinality DEF IndInv, Consistent, MapSize
<1>2. D' \subseteq C' /\ D \subseteq C
  BY DirtyIsCached
<1>3. k \in C <=> key_to_value[k] # "absent"
  BY DEF IndInv, TypeOK, Keys
<1>4. CASE Hit(k, op)
  <2>1. /\ C' = C
        /\ D' = D \cup (IF op = "WRITE" THEN {k} ELSE {})
        /\ flushed' = {}
        /\ k \in C
    BY <1>3, <1>4, HitStep DEF Hit
  <2>2. WBC!WBAccess(k, op = "WRITE")
    BY <1>1, <1>2, <2>1 DEF WBC!WBAccess
  <2>3. QED
    BY <2>2 DEF WBC!WBNext
<1>5. CASE Insert(k, op)
  <2>1. /\ C' = C \cup {k}
        /\ D' = D \cup (IF op = "WRITE" THEN {k} ELSE {})
        /\ flushed' = {}
        /\ k \notin C
    BY <1>3, <1>5, InsertStep DEF Insert
  <2>2. WBC!WBAccess(k, op = "WRITE")
    BY <1>1, <1>2, <2>1 DEF WBC!WBAccess
  <2>3. QED
    BY <2>2 DEF WBC!WBNext
<1>6. CASE EvictInsert(k, op)
  <2>1. /\ C' = (C \ {Victim}) \cup {k}
        /\ D' = (D \ {Victim}) \cup (IF op = "WRITE" THEN {k} ELSE {})
        /\ k \notin C
    BY <1>3, <1>6, EvictStep DEF EvictInsert
  <2>2. Victim \in Page /\ key_to_value \in [Page -> Entry]
    BY <1>6, SizeFacts DEF EvictInsert, IndInv, TypeOK
  <2>3. flushed' = D \cap {Victim}
    BY <1>6, <2>2 DEF EvictInsert, DirtyKeys
  <2>4. WBC!WBAccess(k, op = "WRITE")
    BY <1>1, <1>2, <2>1, <2>3 DEF WBC!WBAccess
  <2>5. QED
    BY <2>4 DEF WBC!WBNext
<1>7. CASE Abort(k)
  <2>1. C' = C /\ D' = D /\ flushed' = {}
    BY <1>7 DEF Abort
  <2>2. Victim \in C /\ Victim \in Page
    BY <1>7, SizeFacts DEF Abort
  <2>3. WBC!WBAccess(Victim, FALSE)
    BY <1>1, <1>2, <2>1, <2>2 DEF WBC!WBAccess
  <2>4. QED
    BY <2>2, <2>3 DEF WBC!WBNext
<1>8. QED
  BY <1>4, <1>5, <1>6, <1>7 DEF access

(***************************************************************************)
(* PureLRUCache implements the write-back cache: no write is lost and only *)
(* pending writes are logged, for every trace and capacity.                *)
(***************************************************************************)
THEOREM RefinesWriteBack == Spec => ImplementsWriteBack
<1>1. Init => WBC!WBInit
  BY DEF Init, WBC!WBInit, NoEntries, Keys, DirtyKeys
<1>2. IndInv /\ IndInv' /\ [Next]_vars => [WBC!WBNext]_(WBC!wbvars)
  <2> SUFFICES ASSUME IndInv, IndInv', [Next]_vars
               PROVE  [WBC!WBNext]_(WBC!wbvars)
    OBVIOUS
  <2>1. CASE Next
    BY <2>1, StepRefines DEF Next
  <2>2. CASE UNCHANGED vars
    BY <2>2 DEF vars, WBC!wbvars
  <2>3. QED
    BY <2>1, <2>2
<1>3. QED
  BY <1>1, <1>2, InitInv, NextInv, PTL DEF Spec, ImplementsWriteBack, WBC!WBSpec

(***************************************************************************)
(* Only the page at the LRU position is flushed, only when it is dirty and *)
(* only out of a full cache, as the README says of lru-pure.               *)
(***************************************************************************)
THEOREM FlushesOnlyLRU == Spec => FlushesOnlyTheLRUPage
<1> DEFINE A == flushed' # {} =>
                  /\ flushed' = {key_tracker[1]}
                  /\ key_to_value[key_tracker[1]] = "dirty"
                  /\ key_to_value'[key_tracker[1]] = "absent"
                  /\ Len(key_tracker) = Capacity
<1>1. ASSUME IndInv, IndInv', NEW k \in Page, NEW op \in Op, access(k, op)
      PROVE  A
  <2>1. CASE Hit(k, op) \/ Insert(k, op) \/ Abort(k)
    BY <2>1 DEF Hit, Insert, Abort
  <2>2. CASE EvictInsert(k, op)
    <3>1. /\ Victim = key_tracker[1]
          /\ Victim \in Keys(key_to_value)
          /\ Victim \in Page
          /\ Len(key_tracker) = Capacity
      BY <1>1, <2>2, SizeFacts DEF EvictInsert
    <3>2. Keys(key_to_value') = (Keys(key_to_value) \ {Victim}) \cup {k}
      BY <1>1, <2>2, EvictStep
    <3>3. key_to_value' \in [Page -> Entry] /\ k \notin Keys(key_to_value)
      BY <1>1, <2>2 DEF IndInv, TypeOK, EvictInsert, Keys
    <3>4. key_to_value'[Victim] = "absent"
      BY <3>1, <3>2, <3>3 DEF Keys
    <3>5. flushed' # {} => flushed' = {Victim} /\ key_to_value[Victim] = "dirty"
      BY <2>2 DEF EvictInsert
    <3>6. QED
      BY <3>1, <3>4, <3>5
  <2>3. QED
    BY <1>1, <2>1, <2>2 DEF access
<1>2. IndInv /\ IndInv' /\ [Next]_vars => [A]_vars
  BY <1>1 DEF Next
<1>3. QED
  BY <1>2, InitInv, NextInv, PTL DEF Spec, FlushesOnlyTheLRUPage
-----------------------------------------------------------------------------
(***************************************************************************)
(* LRU is a stack algorithm. The history variable of MCPureLRU lists every *)
(* page once, by its last access; t is a suffix of it when t holds the     *)
(* pages accessed last, in that order.                                     *)
(***************************************************************************)
IsSuffixOf(t, r) ==
  /\ Len(t) <= Len(r)
  /\ \A i \in 1..Len(t) : t[i] = r[Len(r) - Len(t) + i]

(***************************************************************************)
(* The suffix of a sequence, as StackProperty writes it.                   *)
(***************************************************************************)
LEMMA SuffixIsSubSeq ==
  ASSUME NEW S, NEW t \in Seq(S), NEW r \in Seq(S), Len(t) <= Len(r)
  PROVE  t = SubSeq(r, Len(r) - Len(t) + 1, Len(r)) <=> IsSuffixOf(t, r)
<1> DEFINE n == Len(t)
           m == Len(r)
           u == SubSeq(r, m - n + 1, m)
<1>1. n \in Nat /\ m \in Nat /\ n <= m
  OBVIOUS
<1>2. u = [i \in 1..n |-> r[m - n + i]]
  <2>1. u = [i \in 1..(m - (m - n + 1) + 1) |-> r[(m - n + 1) + i - 1]]
    BY <1>1
  <2>2. m - (m - n + 1) + 1 = n
    BY <1>1
  <2>3. \A i \in 1..n : (m - n + 1) + i - 1 = m - n + i
    BY <1>1
  <2>4. QED
    BY <2>1, <2>2, <2>3
<1>3. t = [i \in 1..n |-> t[i]]
  OBVIOUS
<1> HIDE DEF u
<1>4. t = u <=> \A i \in 1..n : t[i] = r[m - n + i]
  BY <1>2, <1>3
<1>5. QED
  BY <1>1, <1>4 DEF IsSuffixOf, u

(***************************************************************************)
(* A page of the suffix, taken out of it and out of the whole sequence.    *)
(***************************************************************************)
LEMMA SuffixWithout ==
  ASSUME NEW S, NEW t \in Seq(S), NEW r \in Seq(S),
         NoDuplicates(t), NoDuplicates(r), IsSuffixOf(t, r),
         NEW k \in ListSet(t)
  PROVE  /\ IsSuffixOf(ListRemove(t, k), ListRemove(r, k))
         /\ k \in ListSet(r)
<1> DEFINE n == Len(t)
           m == Len(r)
           o == m - n
           t1 == ListRemove(t, k)
           r1 == ListRemove(r, k)
<1>1. n \in Nat /\ m \in Nat /\ n <= m /\ o \in Nat
      /\ \A i \in 1..n : t[i] = r[o + i]
  BY DEF IsSuffixOf
<1>2. PICK p \in 1..n : t[p] = k
  BY DEF ListSet
<1> HIDE DEF o
<1>3. o + p \in 1..m /\ r[o + p] = k
  BY <1>1, <1>2 DEF o
<1>4. t1 = [j \in 1..(n - 1) |-> IF j < p THEN t[j] ELSE t[j + 1]]
  BY <1>2, RemoveUnique
<1>5. r1 = [j \in 1..(m - 1) |-> IF j < o + p THEN r[j] ELSE r[j + 1]]
  BY <1>3, RemoveUnique
<1>6. k \in ListSet(r)
  BY <1>3 DEF ListSet
<1>7. Len(t1) = n - 1 /\ Len(r1) = m - 1
  BY <1>6, RemoveFacts
<1> HIDE DEF t1, r1
<1>8. ASSUME NEW i \in 1..(n - 1)
      PROVE  t1[i] = r1[o + i]
  <2>1. /\ o + i \in 1..(m - 1) /\ i \in 1..n /\ i + 1 \in 1..n
        /\ (i < p <=> o + i < o + p)
        /\ o + (i + 1) = (o + i) + 1
    BY <1>1, <1>2 DEF o
  <2>2. t1[i] = IF i < p THEN t[i] ELSE t[i + 1]
    BY <1>4
  <2>3. r1[o + i] = IF o + i < o + p THEN r[o + i] ELSE r[(o + i) + 1]
    BY <1>5, <2>1
  <2>4. QED
    BY <1>1, <2>1, <2>2, <2>3
<1>9. (m - 1) - (n - 1) = o /\ n - 1 <= m - 1
  BY <1>1 DEF o
<1>10. QED
  BY <1>6, <1>7, <1>8, <1>9 DEF IsSuffixOf, t1, r1

(***************************************************************************)
(* The front page of the suffix, taken out of it alone: what is left is a  *)
(* suffix, also of the sequence without a page that is not in the suffix.  *)
(***************************************************************************)
LEMMA SuffixWithoutFront ==
  ASSUME NEW S, NEW t \in Seq(S), NEW r \in Seq(S), Len(t) > 0,
         NoDuplicates(t), NoDuplicates(r), IsSuffixOf(t, r),
         NEW k, k \notin ListSet(t)
  PROVE  IsSuffixOf(ListRemove(t, t[1]), ListRemove(r, k))
<1> DEFINE n == Len(t)
           m == Len(r)
           o == m - n
           t1 == ListRemove(t, t[1])
           r1 == ListRemove(r, k)
<1>1. n \in Nat \ {0} /\ m \in Nat /\ n <= m /\ o \in Nat
      /\ \A i \in 1..n : t[i] = r[o + i]
  BY DEF IsSuffixOf
<1>2. 1 \in 1..n /\ t[1] \in ListSet(t)
  BY <1>1 DEF ListSet
<1>3. t1 = [j \in 1..(n - 1) |-> IF j < 1 THEN t[j] ELSE t[j + 1]]
  BY <1>2, RemoveUnique
<1>4. Len(t1) = n - 1
  BY <1>2, RemoveFacts
<1>5. \A i \in 1..(n - 1) : t1[i] = r[o + (i + 1)]
  BY <1>1, <1>3
<1> HIDE DEF t1, o
<1>6. CASE k \notin ListSet(r)
  <2>1. r1 = r
    BY <1>6, RemoveAbsent
  <2>2. m - (n - 1) = o + 1 /\ n - 1 <= m
    BY <1>1 DEF o
  <2>3. \A i \in 1..(n - 1) : t1[i] = r[(o + 1) + i]
    <3>1. \A i \in 1..(n - 1) : (o + 1) + i = o + (i + 1)
      BY <1>1
    <3>2. QED
      BY <1>5, <3>1
  <2>4. QED
    BY <1>4, <2>1, <2>2, <2>3 DEF IsSuffixOf, t1
<1>7. CASE k \in ListSet(r)
  <2>1. PICK p \in 1..m : r[p] = k
    BY <1>7 DEF ListSet
  <2>2. p <= o
    <3>1. SUFFICES ASSUME ~(p <= o) PROVE FALSE
      OBVIOUS
    <3>2. p - o \in 1..n /\ o + (p - o) = p
      BY <1>1, <2>1, <3>1 DEF o
    <3>3. t[p - o] = k
      BY <1>1, <2>1, <3>2
    <3>4. QED
      BY <3>2, <3>3 DEF ListSet
  <2>3. r1 = [j \in 1..(m - 1) |-> IF j < p THEN r[j] ELSE r[j + 1]]
    BY <2>1, RemoveUnique
  <2>4. Len(r1) = m - 1
    BY <1>7, RemoveFacts
  <2> HIDE DEF r1
  <2>5. ASSUME NEW i \in 1..(n - 1)
        PROVE  t1[i] = r1[o + i]
    <3>1. o + i \in 1..(m - 1) /\ ~(o + i < p) /\ (o + i) + 1 = o + (i + 1)
      BY <1>1, <2>1, <2>2 DEF o
    <3>2. QED
      BY <1>5, <2>3, <3>1
  <2>6. (m - 1) - (n - 1) = o /\ n - 1 <= m - 1
    BY <1>1 DEF o
  <2>7. QED
    BY <1>4, <2>4, <2>5, <2>6 DEF IsSuffixOf, t1, r1
<1>8. QED
  BY <1>6, <1>7

\* The same page appended to both.
LEMMA SuffixAppended ==
  ASSUME NEW S, NEW t \in Seq(S), NEW r \in Seq(S), IsSuffixOf(t, r), NEW k \in S
  PROVE  IsSuffixOf(Append(t, k), Append(r, k))
<1> DEFINE n == Len(t)
           m == Len(r)
           t1 == Append(t, k)
           r1 == Append(r, k)
<1>1. /\ n \in Nat /\ m \in Nat /\ n <= m
      /\ \A i \in 1..n : t[i] = r[m - n + i]
  BY DEF IsSuffixOf
<1>2. /\ Len(t1) = n + 1 /\ t1[n + 1] = k
      /\ \A i \in 1..n : t1[i] = t[i]
  OBVIOUS
<1>3. /\ Len(r1) = m + 1 /\ r1[m + 1] = k
      /\ \A i \in 1..m : r1[i] = r[i]
  OBVIOUS
<1> HIDE DEF t1, r1
<1>4. ASSUME NEW i \in 1..(n + 1)
      PROVE  t1[i] = r1[(m + 1) - (n + 1) + i]
  <2>1. CASE i = n + 1
    <3>1. (m + 1) - (n + 1) + i = m + 1
      BY <1>1, <2>1
    <3>2. QED
      BY <1>2, <1>3, <2>1, <3>1
  <2>2. CASE i # n + 1
    <3>1. /\ i \in 1..n /\ m - n + i \in 1..m
          /\ (m + 1) - (n + 1) + i = m - n + i
      BY <1>1, <2>2
    <3>2. QED
      BY <1>1, <1>2, <1>3, <3>1
  <2>3. QED
    BY <2>1, <2>2
<1>5. QED
  BY <1>1, <1>2, <1>3, <1>4 DEF IsSuffixOf, t1, r1

(***************************************************************************)
(* The stack property with what makes it inductive: the history lists a    *)
(* page once.                                                              *)
(***************************************************************************)
Stack ==
  /\ IsSuffixOf(key_tracker, recency)
  /\ Len(key_tracker) = IF Len(recency) < Capacity THEN Len(recency) ELSE Capacity

StackInv ==
  /\ IndInv
  /\ recency \in Seq(Page)
  /\ NoDuplicates(recency)
  /\ Stack

\* Each access, by what it does to the list.
LEMMA StackStep ==
  ASSUME StackInv, NEW k \in Page, NEW op \in Op, access(k, op),
         recency' = IF aborted' THEN recency ELSE Append(ListRemove(recency, k), k)
  PROVE  recency' \in Seq(Page) /\ NoDuplicates(recency') /\ Stack'
<1> DEFINE t == key_tracker
           r == recency
           r1 == ListRemove(recency, k)
<1>1. /\ t \in Seq(Page) /\ r \in Seq(Page)
      /\ NoDuplicates(t) /\ NoDuplicates(r)
      /\ IsSuffixOf(t, r)
      /\ Len(t) = IF Len(r) < Capacity THEN Len(r) ELSE Capacity
      /\ Len(t) \in Nat /\ Len(r) \in Nat /\ Capacity \in Nat \ {0}
      /\ ListSet(t) = Keys(key_to_value)
      /\ MapSize(key_to_value) = Len(t)
      /\ (k \in ListSet(t) <=> key_to_value[k] # "absent")
  BY SizeFacts, CapacityAssumption
  DEF StackInv, IndInv, TypeOK, Consistent, Linked, Stack, Keys
<1>2. /\ r1 \in Seq(Page) /\ NoDuplicates(r1) /\ k \notin ListSet(r1)
      /\ (k \in ListSet(r) => Len(r1) = Len(r) - 1)
      /\ (k \notin ListSet(r) => r1 = r)
  BY <1>1, RemoveFacts, RemoveAbsent
<1>3. /\ Append(r1, k) \in Seq(Page) /\ NoDuplicates(Append(r1, k))
      /\ Len(Append(r1, k)) = Len(r1) + 1
  BY <1>2, AppendFacts
<1> HIDE DEF t, r, r1
<1>4. CASE Hit(k, op)
  <2> DEFINE t1 == ListRemove(t, k)
  <2>1. k \in ListSet(t) /\ t' = Append(t1, k) /\ recency' = Append(r1, k)
    BY <1>1, <1>4 DEF Hit, access, t, r1
  <2>2. IsSuffixOf(t1, r1) /\ k \in ListSet(r)
    BY <1>1, <2>1, SuffixWithout DEF r1, r
  <2>3. t1 \in Seq(Page) /\ Len(t1) = Len(t) - 1
    BY <1>1, <2>1, RemoveFacts
  <2>4. Len(Append(t1, k)) = Len(t1) + 1
    BY <2>3
  <2> HIDE DEF t1
  <2>5. IsSuffixOf(t', recency')
    BY <1>2, <2>1, <2>2, <2>3, SuffixAppended
  <2>6. Len(t') = Len(t) /\ Len(recency') = Len(r)
    BY <1>1, <1>2, <1>3, <2>1, <2>2, <2>3, <2>4
  <2>7. QED
    BY <1>1, <1>3, <2>1, <2>5, <2>6 DEF Stack, t
<1>5. CASE Insert(k, op)
  <2>1. /\ k \notin ListSet(t) /\ t' = Append(t, k) /\ recency' = Append(r1, k)
        /\ Len(t) # Capacity
    BY <1>1, <1>5 DEF Insert, access, t, r1
  <2>2. Len(t) = Len(r) /\ Len(t) < Capacity
    BY <1>1, <2>1
  <2>3. \A i \in 1..Len(r) : t[i] = r[i]
    <3>1. \A i \in 1..Len(t) : t[i] = r[Len(r) - Len(t) + i]
      BY <1>1 DEF IsSuffixOf
    <3>2. \A i \in 1..Len(t) : Len(r) - Len(t) + i = i
      BY <1>1, <2>2
    <3>3. QED
      BY <2>2, <3>1, <3>2
  <2>4. k \notin ListSet(r)
    BY <2>1, <2>2, <2>3 DEF ListSet
  <2>5. r1 = r
    BY <1>2, <2>4
  <2>6. IsSuffixOf(t', recency')
    BY <1>1, <2>1, <2>5, SuffixAppended
  <2>7. Len(t') = Len(t) + 1 /\ Len(recency') = Len(r) + 1
    BY <1>1, <1>3, <2>1, <2>5
  <2>8. Len(t') = IF Len(recency') < Capacity THEN Len(recency') ELSE Capacity
    BY <1>1, <2>2, <2>7
  <2>9. QED
    BY <1>3, <2>1, <2>6, <2>8 DEF Stack, t
<1>6. CASE EvictInsert(k, op)
  <2> DEFINE t1 == ListRemove(t, t[1])
  <2>1. /\ k \notin ListSet(t) /\ Len(t) = Capacity
        /\ recency' = Append(r1, k) /\ Len(t) > 0
    BY <1>1, <1>6 DEF EvictInsert, access, t, r1
  <2>2. t' = Append(t1, k)
    BY <1>1, <1>6, <2>1, FrontFacts DEF EvictInsert, Victim, t
  <2>3. IsSuffixOf(t1, r1)
    BY <1>1, <2>1, SuffixWithoutFront DEF r1, r
  <2>4. t[1] \in ListSet(t)
    BY <1>1, <2>1, FrontFacts
  <2>5. t1 \in Seq(Page) /\ Len(t1) = Len(t) - 1
    BY <1>1, <2>4, RemoveFacts
  <2>6. Len(Append(t1, k)) = Len(t1) + 1
    BY <2>5
  <2> HIDE DEF t1
  <2>7. IsSuffixOf(t', recency')
    BY <1>2, <2>2, <2>1, <2>3, <2>5, SuffixAppended
  <2>8. Len(t') = Capacity
    BY <1>1, <2>1, <2>2, <2>5, <2>6
  <2>9. Len(recency') >= Capacity
    <3>1. Len(t') <= Len(recency')
      BY <2>7 DEF IsSuffixOf
    <3>2. Len(recency') \in Nat
      BY <1>3, <2>1
    <3>3. QED
      BY <1>1, <2>8, <3>1, <3>2
  <2>10. Len(recency') \in Nat
    BY <1>3, <2>1
  <2>11. Len(t') = IF Len(recency') < Capacity THEN Len(recency') ELSE Capacity
    BY <1>1, <2>8, <2>9, <2>10
  <2>12. QED
    BY <1>3, <2>1, <2>7, <2>11 DEF Stack, t
<1>7. CASE Abort(k)
  BY <1>1, <1>7 DEF Abort, StackInv, Stack, IsSuffixOf, t, r
<1>8. QED
  BY <1>4, <1>5, <1>6, <1>7 DEF access

(***************************************************************************)
(* At any time the cache holds exactly the Capacity pages accessed last,   *)
(* in that order, for every trace and every capacity: a larger cache holds *)
(* what a smaller one does.                                                *)
(***************************************************************************)
THEOREM LRUIsAStackAlgorithm == MCSpec => []StackProperty
<1>1. MCInit => StackInv
  <2> SUFFICES ASSUME MCInit PROVE StackInv
    OBVIOUS
  <2>1. key_tracker = <<>> /\ recency = <<>>
    BY DEF MCInit, Init
  <2>2. /\ recency \in Seq(Page) /\ NoDuplicates(recency)
        /\ Len(recency) = 0 /\ Len(key_tracker) = 0
    BY <2>1 DEF NoDuplicates
  <2>3. QED
    BY <2>2, InitInv, CapacityAssumption DEF MCInit, StackInv, Stack, IsSuffixOf
<1>2. StackInv /\ [MCNext]_<<vars, recency>> => StackInv'
  <2> SUFFICES ASSUME StackInv, [MCNext]_<<vars, recency>> PROVE StackInv'
    OBVIOUS
  <2>1. CASE MCNext
    <3>1. PICK k \in Page, op \in Op :
            /\ access(k, op)
            /\ recency' = IF aborted' THEN recency
                          ELSE Append(ListRemove(recency, k), k)
      BY <2>1 DEF MCNext
    <3>2. IndInv'
      BY <3>1, NextInv DEF StackInv, Next
    <3>3. QED
      BY <3>1, <3>2, StackStep DEF StackInv
  <2>2. CASE UNCHANGED <<vars, recency>>
    <3>1. IndInv'
      BY <2>2, NextInv DEF StackInv
    <3>2. recency' = recency /\ key_tracker' = key_tracker
      BY <2>2 DEF vars
    <3>3. QED
      BY <3>1, <3>2 DEF StackInv, Stack
  <2>3. QED
    BY <2>1, <2>2
<1>3. StackInv => StackProperty
  <2> SUFFICES ASSUME StackInv PROVE StackProperty
    OBVIOUS
  <2>1. /\ key_tracker \in Seq(Page) /\ recency \in Seq(Page)
        /\ IsSuffixOf(key_tracker, recency)
        /\ Len(key_tracker) <= Len(recency)
    BY DEF StackInv, IndInv, TypeOK, Stack, IsSuffixOf
  <2>2. key_tracker = SubSeq(recency, Len(recency) - Len(key_tracker) + 1,
                             Len(recency))
    BY <2>1, SuffixIsSubSeq
  <2>3. QED
    BY <2>2 DEF StackInv, Stack, StackProperty
<1>4. QED
  BY <1>1, <1>2, <1>3, PTL DEF MCSpec
=============================================================================
