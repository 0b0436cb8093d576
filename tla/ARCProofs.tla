----------------------------- MODULE ARCProofs ------------------------------
(***************************************************************************)
(* The asserts of arc.h hold for every set of pages and every capacity.    *)
(*                                                                         *)
(* They are not inductive by themselves. The missing fact is that there    *)
(* are ghosts only while the cache is full: then REPLACE, which moves one  *)
(* element from a held list to a ghost list, is called only when t1 and t2 *)
(* hold Capacity pages, and the sizes of the four lists stay in balance.   *)
(*                                                                         *)
(* p is static, and another instance may have left it one above the        *)
(* capacity of this one. The invariant allows for that, so that            *)
(* LevelsProofs can use it for two levels.                                 *)
(***************************************************************************)
EXTENDS ARC, StdContainersProofs

K(l) == Keys(l.map)
D(l) == DirtyKeys(l.map)

Good(l) == IsList(l) /\ Linked(l.key, l.map)

GhostsOnlyWhenFull ==
  Size(b1) + Size(b2) > 0 => Size(t1) + Size(t2) = Capacity

\* TypeOK, with one more than it allows for p, which another instance of ARC
\* may have moved.
Typed ==
  /\ IsList(t1) /\ IsList(t2) /\ IsList(b1) /\ IsList(b2)
  /\ p \in 0..(Capacity + 1)
  /\ flushed \in SUBSET Page
  /\ totalEvictedCleanPages \in Nat
  /\ totalNonSeqEvictedDirtyPages \in Nat

IndInv ==
  /\ Typed
  /\ ListsConsistent
  /\ SizesWithinBounds
  /\ GhostsOnlyWhenFull
-----------------------------------------------------------------------------
(***************************************************************************)
(* The facts of StdContainersProofs, for a list and its map as one record. *)
(***************************************************************************)
LEMMA GoodFacts ==
  ASSUME NEW l, Good(l)
  PROVE  /\ Size(l) \in Nat
         /\ Size(l) = Len(l.key)
         /\ Size(l) = 0 <=> K(l) = {}
         /\ l.key = <<>> <=> Size(l) = 0
         /\ \A k \in Page : Has(l, k) <=> k \in K(l)
         /\ K(l) \subseteq Page
         /\ IsFiniteSet(K(l)) /\ Cardinality(K(l)) = Size(l)
         /\ D(l) \subseteq K(l)
<1>1. l.key \in Seq(Page) /\ l.map \in [Page -> Entry] /\ Linked(l.key, l.map)
  BY DEF Good, IsList
<1>2. /\ Size(l) = Len(l.key) /\ Len(l.key) \in Nat /\ IsFiniteSet(K(l))
      /\ Cardinality(K(l)) = Size(l)
  BY <1>1, LinkedSize DEF Size, K, MapSize
<1>3. Size(l) = 0 <=> K(l) = {}
  BY <1>2, FS_EmptySet
<1>4. l.key = <<>> <=> Size(l) = 0
  BY <1>1, <1>2
<1>5. /\ \A k \in Page : Has(l, k) <=> k \in K(l)
      /\ K(l) \subseteq Page
      /\ D(l) \subseteq K(l)
  BY <1>1 DEF Has, K, D, Keys, DirtyKeys
<1>6. QED
  BY <1>2, <1>3, <1>4, <1>5

\* An empty list and map.
LEMMA EmptyFacts == Good(Empty) /\ K(Empty) = {} /\ D(Empty) = {} /\ Size(Empty) = 0
<1>1. Good(Empty) /\ K(Empty) = {} /\ D(Empty) = {}
  BY DEF Good, IsList, Empty, NoEntries, Linked, ListSet, Keys, DirtyKeys,
         NoDuplicates, Entry, K, D
<1>2. QED
  BY <1>1, GoodFacts

\* A list that is not empty has an LRU page, which its map holds.
LEMMA LRUFacts ==
  ASSUME NEW l, Good(l), Size(l) > 0
  PROVE  LRU(l) \in Page /\ LRU(l) \in K(l)
<1>1. l.key \in Seq(Page) /\ Linked(l.key, l.map) /\ Len(l.key) > 0
  BY GoodFacts DEF Good, IsList
<1>2. QED
  BY <1>1, FrontFacts DEF LRU, K, Linked

\* Purge takes one key out of the list and out of the map.
LEMMA PurgeList ==
  ASSUME NEW l, Good(l), NEW k \in K(l)
  PROVE  /\ Good(Purge(l, k))
         /\ Size(Purge(l, k)) = Size(l) - 1
         /\ K(Purge(l, k)) = K(l) \ {k}
         /\ D(Purge(l, k)) = D(l) \ {k}
<1> DEFINE s == ListRemove(l.key, k)
           m == MapErase(l.map, k)
<1>1. l.key \in Seq(Page) /\ l.map \in [Page -> Entry] /\ Linked(l.key, l.map)
      /\ k \in Keys(l.map)
  BY DEF Good, IsList, K
<1>2. /\ s \in Seq(Page) /\ m \in [Page -> Entry] /\ Linked(s, m)
      /\ Len(s) = Len(l.key) - 1
      /\ Keys(m) = Keys(l.map) \ {k}
      /\ DirtyKeys(m) = DirtyKeys(l.map) \ {k}
  BY <1>1, PurgeFacts
<1>3. Purge(l, k) = [key |-> s, map |-> m]
  BY DEF Purge
<1> HIDE DEF s, m
<1>4. Purge(l, k).key = s /\ Purge(l, k).map = m /\ IsList(Purge(l, k))
  BY <1>2, <1>3 DEF IsList
<1>5. Good(Purge(l, k))
  BY <1>2, <1>4 DEF Good
<1>6. Size(Purge(l, k)) = Len(s) /\ Size(l) = Len(l.key)
  BY <1>4, <1>5, GoodFacts
<1>7. QED
  BY <1>2, <1>4, <1>5, <1>6 DEF K, D

\* Push of a new key adds it at the back of the list and to the map.
LEMMA PushList ==
  ASSUME NEW l, Good(l), NEW k \in Page, k \notin K(l),
         NEW e \in {"clean", "dirty"}
  PROVE  /\ Good(Push(l, k, e))
         /\ Size(Push(l, k, e)) = Size(l) + 1
         /\ K(Push(l, k, e)) = K(l) \cup {k}
         /\ e = "dirty" => D(Push(l, k, e)) = D(l) \cup {k}
         /\ e = "clean" => D(Push(l, k, e)) = D(l)
<1> DEFINE s == Append(l.key, k)
           m == MapInsert(l.map, k, e)
<1>1. l.key \in Seq(Page) /\ l.map \in [Page -> Entry] /\ Linked(l.key, l.map)
      /\ k \notin Keys(l.map)
  BY DEF Good, IsList, K
<1>2. /\ s \in Seq(Page) /\ m \in [Page -> Entry] /\ Linked(s, m)
      /\ Len(s) = Len(l.key) + 1
      /\ Keys(m) = Keys(l.map) \cup {k}
      /\ e = "dirty" => DirtyKeys(m) = DirtyKeys(l.map) \cup {k}
      /\ e = "clean" => DirtyKeys(m) = DirtyKeys(l.map)
  BY <1>1, RecordFacts
<1>3. Push(l, k, e) = [key |-> s, map |-> m]
  BY DEF Push
<1> HIDE DEF s, m
<1>4. Push(l, k, e).key = s /\ Push(l, k, e).map = m /\ IsList(Push(l, k, e))
  BY <1>2, <1>3 DEF IsList
<1>5. Good(Push(l, k, e))
  BY <1>2, <1>4 DEF Good
<1>6. Size(Push(l, k, e)) = Len(s) /\ Size(l) = Len(l.key)
  BY <1>4, <1>5, GoodFacts
<1>7. QED
  BY <1>2, <1>4, <1>5, <1>6 DEF K, D

(***************************************************************************)
(* A ghost hit pushes the key again on the ghost list that holds it and    *)
(* then removes it: list::remove takes both, and nothing of it is left.    *)
(***************************************************************************)
LEMMA PurgePushed ==
  ASSUME NEW l, Good(l), NEW k \in K(l), NEW e
  PROVE  Purge(Push(l, k, e), k) = Purge(l, k)
<1>1. l.key \in Seq(Page) /\ l.map \in [Page -> Entry] /\ NoDuplicates(l.key)
      /\ k \in Page /\ l.map[k] # "absent"
  BY DEF Good, IsList, K, Keys, Linked
<1>2. ListRemove(Append(l.key, k), k) = ListRemove(l.key, k)
  BY <1>1, RemoveAppended
<1>3. MapInsert(l.map, k, e) = l.map
  BY <1>1 DEF MapInsert
<1>4. QED
  BY <1>2, <1>3 DEF Push, Purge
-----------------------------------------------------------------------------
(***************************************************************************)
(* The inductive invariant in the form the steps use it.                   *)
(***************************************************************************)
LEMMA InvFacts ==
  ASSUME IndInv
  PROVE  /\ Good(t1) /\ Good(t2) /\ Good(b1) /\ Good(b2)
         /\ Size(t1) \in Nat /\ Size(t2) \in Nat
         /\ Size(b1) \in Nat /\ Size(b2) \in Nat
         /\ K(t1) \cap K(t2) = {} /\ K(b1) \cap K(b2) = {}
         /\ \A k \in Page : /\ Has(t1, k) <=> k \in K(t1)
                            /\ Has(t2, k) <=> k \in K(t2)
                            /\ Has(b1, k) <=> k \in K(b1)
                            /\ Has(b2, k) <=> k \in K(b2)
         /\ p \in 0..(Capacity + 1) /\ Capacity \in Nat /\ Capacity > 0
<1>1. Good(t1) /\ Good(t2) /\ Good(b1) /\ Good(b2)
  BY DEF IndInv, Typed, ListsConsistent, Good
<1>2. \A k \in Page : /\ Has(t1, k) <=> k \in K(t1)
                      /\ Has(t2, k) <=> k \in K(t2)
                      /\ Has(b1, k) <=> k \in K(b1)
                      /\ Has(b2, k) <=> k \in K(b2)
  BY <1>1, GoodFacts
<1>3. K(t1) \subseteq Page /\ K(b1) \subseteq Page
  BY <1>1, GoodFacts
<1>4. K(t1) \cap K(t2) = {} /\ K(b1) \cap K(b2) = {}
  BY <1>2, <1>3 DEF IndInv, ListsConsistent
<1>5. /\ Size(t1) \in Nat /\ Size(t2) \in Nat
      /\ Size(b1) \in Nat /\ Size(b2) \in Nat
  BY <1>1, GoodFacts
<1>6. p \in 0..(Capacity + 1) /\ Capacity \in Nat /\ Capacity > 0
  BY CapacityAssumption DEF IndInv, Typed
<1>7. QED
  BY <1>1, <1>2, <1>4, <1>5, <1>6

(***************************************************************************)
(* And the form in which they re-establish it.                             *)
(***************************************************************************)
LEMMA InvFrom ==
  ASSUME Good(t1)', Good(t2)', Good(b1)', Good(b2)',
         (K(t1) \cap K(t2) = {})', (K(b1) \cap K(b2) = {})',
         (p \in 0..(Capacity + 1))',
         (flushed \in SUBSET Page)',
         (totalEvictedCleanPages \in Nat)',
         (totalNonSeqEvictedDirtyPages \in Nat)',
         SizesWithinBounds', GhostsOnlyWhenFull'
  PROVE  IndInv'
<1>1. Typed'
  BY DEF Typed, Good
<1>2. \A k \in Page : /\ Has(t1, k)' <=> k \in K(t1)'
                      /\ Has(t2, k)' <=> k \in K(t2)'
                      /\ Has(b1, k)' <=> k \in K(b1)'
                      /\ Has(b2, k)' <=> k \in K(b2)'
  BY GoodFacts
<1>3. ListsConsistent'
  BY <1>2 DEF ListsConsistent, Good
<1>4. QED
  BY <1>1, <1>3 DEF IndInv

(***************************************************************************)
(* When t1 and t2 are full, REPLACE finds a victim on the side it takes,   *)
(* because t2 is empty only if t1 holds Capacity pages.                    *)
(***************************************************************************)
LEMMA ReplaceVictim ==
  ASSUME IndInv, NEW k \in Page, NEW q \in Nat,
         Size(t1) + Size(t2) = Capacity,
         Size(t1) < Capacity \/ (Has(b2, k) /\ q <= Capacity)
  PROVE  /\ FromT1(k, q) => Size(t1) > 0
         /\ ~FromT1(k, q) => Size(t2) > 0
<1>1. /\ Size(t1) \in Nat /\ Size(t2) \in Nat
      /\ Capacity \in Nat /\ Capacity > 0
  BY InvFacts
<1>2. FromT1(k, q) => Size(t1) > 0
  BY DEF FromT1
<1>3. ASSUME ~FromT1(k, q), ~(Size(t2) > 0)
      PROVE  FALSE
  <2>1. Size(t1) = Capacity /\ Has(b2, k) /\ q <= Capacity
    BY <1>1, <1>3
  <2>2. QED
    BY <1>1, <1>3, <2>1 DEF FromT1
<1>4. QED
  BY <1>2, <1>3

(***************************************************************************)
(* Where each case calls REPLACE, t1 and t2 are full.                      *)
(***************************************************************************)
LEMMA FullCases ==
  ASSUME IndInv, NEW k \in Page
  PROVE  /\ Has(b1, k) => /\ Size(b1) > 0
                          /\ Size(t1) + Size(t2) = Capacity
                          /\ Size(t1) < Capacity
         /\ Has(b2, k) => Size(b2) > 0 /\ Size(t1) + Size(t2) = Capacity
         /\ L1 = Capacity /\ Size(t1) < Capacity =>
              Size(b1) > 0 /\ Size(t1) + Size(t2) = Capacity
         /\ L1 < Capacity /\ Total >= Capacity =>
              Size(t1) < Capacity /\ Size(t1) + Size(t2) = Capacity
         /\ L1 < Capacity /\ Total = 2 * Capacity => Size(b2) > 0
<1>1. /\ Good(b1) /\ Good(b2)
      /\ Size(t1) \in Nat /\ Size(t2) \in Nat
      /\ Size(b1) \in Nat /\ Size(b2) \in Nat
      /\ Capacity \in Nat /\ Capacity > 0
  BY InvFacts
<1>2. Has(b1, k) => Size(b1) > 0
  BY <1>1, GoodFacts
<1>3. Has(b2, k) => Size(b2) > 0
  BY <1>1, GoodFacts
<1>4. /\ Size(b1) > 0 \/ Size(b2) > 0 => Size(t1) + Size(t2) = Capacity
      /\ Size(t1) + Size(t2) <= Capacity
      /\ Size(t1) + Size(b1) <= Capacity
  BY <1>1 DEF IndInv, GhostsOnlyWhenFull, SizesWithinBounds, L1
<1>5. QED
  BY <1>1, <1>2, <1>3, <1>4 DEF L1, Total

(***************************************************************************)
(* The number of steps that p is moved by.                                 *)
(***************************************************************************)
LEMMA QuotientIsNat ==
  ASSUME NEW a \in Nat, NEW b \in Nat, b > 0
  PROVE  a \div b \in Nat /\ (a >= b => a \div b > 0)
<1>1. a \div b \in Int /\ a = b * (a \div b) + (a % b) /\ a % b \in 0..(b - 1)
  OBVIOUS
<1>2. QED
  BY <1>1

\* The p that a ghost hit computes is between 0 and Capacity, even if p was one
\* above it: a hit in b2 takes off at least one.
LEMMA AdaptedP ==
  ASSUME IndInv
  PROVE  /\ Size(b1) > 0 => GrownP \in 0..Capacity
         /\ Size(b2) > 0 => ShrunkP \in 0..Capacity
<1>1. /\ Size(b1) \in Nat /\ Size(b2) \in Nat
      /\ p \in 0..(Capacity + 1) /\ Capacity \in Nat
  BY InvFacts
<1>2. ASSUME Size(b1) > 0 PROVE GrownP \in 0..Capacity
  <2>1. Size(b2) \div Size(b1) \in Nat
    BY <1>1, <1>2, QuotientIsNat
  <2>2. QED
    BY <1>1, <2>1 DEF GrownP
<1>3. ASSUME Size(b2) > 0 PROVE ShrunkP \in 0..Capacity
  <2>1. /\ Size(b1) \div Size(b2) \in Nat
        /\ Size(b1) >= Size(b2) => Size(b1) \div Size(b2) > 0
    BY <1>1, <1>3, QuotientIsNat
  <2>2. QED
    BY <1>1, <2>1 DEF ShrunkP
<1>4. QED
  BY <1>2, <1>3

(***************************************************************************)
(* An eviction logs its victim exactly when the victim is dirty.           *)
(***************************************************************************)
LEMMA EvictFacts ==
  ASSUME NEW l, Good(l), Size(l) > 0, Evict(l),
         totalEvictedCleanPages \in Nat, totalNonSeqEvictedDirtyPages \in Nat
  PROVE  /\ flushed' = D(l) \cap {LRU(l)}
         /\ (flushed \in SUBSET Page)'
         /\ (totalEvictedCleanPages \in Nat)'
         /\ (totalNonSeqEvictedDirtyPages \in Nat)'
<1>1. LRU(l) \in Page /\ l.map \in [Page -> Entry]
  BY LRUFacts DEF Good, IsList
<1>2. LRU(l) \in D(l) <=> l.map[LRU(l)] = "dirty"
  BY <1>1 DEF D, DirtyKeys
<1>3. flushed' = D(l) \cap {LRU(l)}
  BY <1>2 DEF Evict
<1>4. /\ (totalEvictedCleanPages \in Nat)'
      /\ (totalNonSeqEvictedDirtyPages \in Nat)'
  BY DEF Evict
<1>5. QED
  BY <1>1, <1>3, <1>4

\* A page is stored dirty if it was dirty or is being written.
LEMMA NewEntryFacts ==
  ASSUME NEW op, NEW old
  PROVE  /\ NewEntry(op, old) \in {"clean", "dirty"}
         /\ NewEntry(op, old) = "dirty" <=> op = "WRITE" \/ old = "dirty"
BY DEF NewEntry
-----------------------------------------------------------------------------
(***************************************************************************)
(* What an access does to the pages held and to the pending writes.        *)
(***************************************************************************)
Held == K(t1) \cup K(t2)
Pending == D(t1) \cup D(t2)

HeldStep(k, op) ==
  /\ flushed' \subseteq Pending
  /\ Pending' = (Pending \ flushed') \cup (IF op = "WRITE" THEN {k} ELSE {})
  /\ Held' \subseteq Held \cup {k}
  /\ k \in Held'
  /\ k \in Held => Held' = Held
  /\ ~(Held \subseteq Held') => /\ Size(t1) + Size(t2) = Capacity
                                /\ (Size(t1) + Size(t2) = Capacity)'

\* Case I, a hit in t1, keeps the invariant and the pending writes.
LEMMA HitT1Step ==
  ASSUME IndInv, NEW k \in Page, NEW op \in Op, HitT1(k, op)
  PROVE  IndInv' /\ HeldStep(k, op)
<1> DEFINE e == NewEntry(op, t1.map[k])
<1>1. /\ Good(t1) /\ Good(t2) /\ Good(b1) /\ Good(b2)
      /\ k \in K(t1) /\ k \notin K(t2)
      /\ K(t1) \cap K(t2) = {} /\ K(b1) \cap K(b2) = {}
      /\ p \in 0..(Capacity + 1)
  BY InvFacts DEF HitT1
<1>2. /\ t1' = Purge(t1, k) /\ t2' = Push(t2, k, e) /\ b1' = b1 /\ b2' = b2
      /\ flushed' = {} /\ p' = p
      /\ totalEvictedCleanPages' = totalEvictedCleanPages
      /\ totalNonSeqEvictedDirtyPages' = totalNonSeqEvictedDirtyPages
  BY DEF HitT1, NoEviction
<1>3. e \in {"clean", "dirty"} /\
        (e = "dirty" <=> op = "WRITE" \/ t1.map[k] = "dirty")
  BY NewEntryFacts
<1>4. k \in D(t1) <=> t1.map[k] = "dirty"
  BY <1>1 DEF Good, IsList, D, DirtyKeys
<1> HIDE DEF e
<1>5. /\ Good(t1') /\ Size(t1') = Size(t1) - 1
      /\ K(t1') = K(t1) \ {k} /\ D(t1') = D(t1) \ {k}
  BY <1>1, <1>2, PurgeList
<1>6. /\ Good(t2') /\ Size(t2') = Size(t2) + 1
      /\ K(t2') = K(t2) \cup {k}
      /\ e = "dirty" => D(t2') = D(t2) \cup {k}
      /\ e = "clean" => D(t2') = D(t2)
  BY <1>1, <1>2, <1>3, PushList
<1>7. /\ Size(t1) \in Nat /\ Size(t2) \in Nat /\ Size(b1) \in Nat
      /\ Size(b2) \in Nat /\ Capacity \in Nat
  BY InvFacts
<1>8. SizesWithinBounds' /\ GhostsOnlyWhenFull'
  <2>1. Size(t2) + Size(b2) + 1 <= 2 * Capacity
    <3>1. Size(t1) > 0
      BY <1>1, <1>7, GoodFacts
    <3>2. QED
      BY <1>7, <3>1 DEF IndInv, SizesWithinBounds, Total
  <2>2. QED
    BY <1>2, <1>5, <1>6, <1>7, <2>1
       DEF IndInv, SizesWithinBounds, GhostsOnlyWhenFull, L1, Total
<1>9. IndInv'
  <2>1. (K(t1) \cap K(t2) = {})' /\ (K(b1) \cap K(b2) = {})'
    BY <1>1, <1>2, <1>5, <1>6
  <2>2. /\ (totalEvictedCleanPages \in Nat)'
        /\ (totalNonSeqEvictedDirtyPages \in Nat)'
        /\ (flushed \in SUBSET Page)' /\ (p \in 0..(Capacity + 1))'
    BY <1>1, <1>2 DEF IndInv, Typed
  <2>3. QED
    BY <1>1, <1>2, <1>5, <1>6, <1>8, <2>1, <2>2, InvFrom
<1>10. HeldStep(k, op)
  <2>1. Held' = Held
    BY <1>1, <1>5, <1>6 DEF Held
  <2>2. Pending' = Pending \cup (IF op = "WRITE" THEN {k} ELSE {})
    BY <1>1, <1>3, <1>4, <1>5, <1>6 DEF Pending
  <2>3. k \in Held
    BY <1>1 DEF Held
  <2>4. QED
    BY <1>2, <2>1, <2>2, <2>3 DEF HeldStep
<1>11. QED
  BY <1>9, <1>10

\* Case I, a hit in t2, likewise.
LEMMA HitT2Step ==
  ASSUME IndInv, NEW k \in Page, NEW op \in Op, HitT2(k, op)
  PROVE  IndInv' /\ HeldStep(k, op)
<1> DEFINE e == NewEntry(op, t2.map[k])
           l == Purge(t2, k)
<1>1. /\ Good(t1) /\ Good(t2) /\ Good(b1) /\ Good(b2)
      /\ k \in K(t2) /\ k \notin K(t1)
      /\ K(t1) \cap K(t2) = {} /\ K(b1) \cap K(b2) = {}
      /\ p \in 0..(Capacity + 1)
  BY InvFacts DEF HitT2
<1>2. /\ t1' = t1 /\ t2' = Push(l, k, e) /\ b1' = b1 /\ b2' = b2
      /\ flushed' = {} /\ p' = p
      /\ totalEvictedCleanPages' = totalEvictedCleanPages
      /\ totalNonSeqEvictedDirtyPages' = totalNonSeqEvictedDirtyPages
  BY DEF HitT2, NoEviction
<1>3. e \in {"clean", "dirty"} /\
        (e = "dirty" <=> op = "WRITE" \/ t2.map[k] = "dirty")
  BY NewEntryFacts
<1>4. k \in D(t2) <=> t2.map[k] = "dirty"
  BY <1>1 DEF Good, IsList, D, DirtyKeys
<1>5. /\ Good(l) /\ Size(l) = Size(t2) - 1
      /\ K(l) = K(t2) \ {k} /\ D(l) = D(t2) \ {k}
  BY <1>1, PurgeList
<1> HIDE DEF e, l
<1>6. k \notin K(l) /\ e \in {"clean", "dirty"}
  BY <1>3, <1>5
<1>7. /\ Good(t2') /\ Size(t2') = Size(l) + 1
      /\ K(t2') = K(l) \cup {k}
      /\ e = "dirty" => D(t2') = D(l) \cup {k}
      /\ e = "clean" => D(t2') = D(l)
  BY <1>2, <1>5, <1>6, PushList
<1>8. Size(t2') = Size(t2)
  BY <1>5, <1>7, InvFacts
<1>9. K(t2') = K(t2)
  BY <1>1, <1>5, <1>7
<1>10. SizesWithinBounds' /\ GhostsOnlyWhenFull'
  BY <1>2, <1>8 DEF IndInv, SizesWithinBounds, GhostsOnlyWhenFull, L1, Total
<1>11. IndInv'
  <2>1. /\ (totalEvictedCleanPages \in Nat)'
        /\ (totalNonSeqEvictedDirtyPages \in Nat)'
        /\ (flushed \in SUBSET Page)' /\ (p \in 0..(Capacity + 1))'
    BY <1>1, <1>2 DEF IndInv, Typed
  <2>2. QED
    BY <1>1, <1>2, <1>7, <1>9, <1>10, <2>1, InvFrom
<1>12. HeldStep(k, op)
  <2>1. Held' = Held
    BY <1>2, <1>9 DEF Held
  <2>2. Pending' = Pending \cup (IF op = "WRITE" THEN {k} ELSE {})
    BY <1>1, <1>2, <1>3, <1>4, <1>5, <1>7 DEF Pending
  <2>3. k \in Held
    BY <1>1 DEF Held
  <2>4. QED
    BY <1>2, <2>1, <2>2, <2>3 DEF HeldStep
<1>13. QED
  BY <1>11, <1>12
-----------------------------------------------------------------------------
(***************************************************************************)
(* The LRU page of x is evicted and k is pushed on the other held list, or *)
(* on x itself.                                                            *)
(***************************************************************************)
LEMMA EvictAndPushOther ==
  ASSUME NEW x, NEW y, Good(x), Good(y), K(x) \cap K(y) = {}, Size(x) > 0,
         NEW k \in Page, k \notin K(x), k \notin K(y),
         NEW e \in {"clean", "dirty"}, NEW x2, NEW y2,
         x2 = Purge(x, LRU(x)), y2 = Push(y, k, e)
  PROVE  /\ Good(x2) /\ Good(y2) /\ K(x2) \cap K(y2) = {}
         /\ Size(x2) = Size(x) - 1 /\ Size(y2) = Size(y) + 1
         /\ K(x2) \cup K(y2) = ((K(x) \cup K(y)) \ {LRU(x)}) \cup {k}
         /\ D(x2) \cup D(y2) = ((D(x) \cup D(y)) \ {LRU(x)})
                                 \cup (IF e = "dirty" THEN {k} ELSE {})
<1>1. LRU(x) \in K(x) /\ D(y) \subseteq K(y)
  BY LRUFacts, GoodFacts
<1>2. /\ Good(x2) /\ Size(x2) = Size(x) - 1
      /\ K(x2) = K(x) \ {LRU(x)} /\ D(x2) = D(x) \ {LRU(x)}
  BY <1>1, PurgeList
<1>3. /\ Good(y2) /\ Size(y2) = Size(y) + 1
      /\ K(y2) = K(y) \cup {k}
      /\ e = "dirty" => D(y2) = D(y) \cup {k}
      /\ e = "clean" => D(y2) = D(y)
  BY PushList
<1>4. QED
  BY <1>1, <1>2, <1>3

\* The LRU page of x is evicted and k is pushed on x itself.
LEMMA EvictAndPushSame ==
  ASSUME NEW x, NEW y, Good(x), Good(y), K(x) \cap K(y) = {}, Size(x) > 0,
         NEW k \in Page, k \notin K(x), k \notin K(y),
         NEW e \in {"clean", "dirty"}, NEW x2,
         x2 = Push(Purge(x, LRU(x)), k, e)
  PROVE  /\ Good(x2) /\ K(x2) \cap K(y) = {}
         /\ Size(x2) = Size(x)
         /\ K(x2) \cup K(y) = ((K(x) \cup K(y)) \ {LRU(x)}) \cup {k}
         /\ D(x2) \cup D(y) = ((D(x) \cup D(y)) \ {LRU(x)})
                                \cup (IF e = "dirty" THEN {k} ELSE {})
<1> DEFINE l == Purge(x, LRU(x))
<1>1. /\ LRU(x) \in K(x) /\ D(y) \subseteq K(y) /\ Size(x) \in Nat
  BY LRUFacts, GoodFacts
<1>2. /\ Good(l) /\ Size(l) = Size(x) - 1
      /\ K(l) = K(x) \ {LRU(x)} /\ D(l) = D(x) \ {LRU(x)}
  BY <1>1, PurgeList
<1> HIDE DEF l
<1>3. k \notin K(l) /\ x2 = Push(l, k, e)
  BY <1>2 DEF l
<1>4. /\ Good(x2) /\ Size(x2) = Size(l) + 1
      /\ K(x2) = K(l) \cup {k}
      /\ e = "dirty" => D(x2) = D(l) \cup {k}
      /\ e = "clean" => D(x2) = D(l)
  BY <1>2, <1>3, PushList
<1>5. Size(x2) = Size(x)
  BY <1>1, <1>2, <1>4
<1>6. QED
  BY <1>1, <1>2, <1>4, <1>5

(***************************************************************************)
(* Evicting the LRU page of t1 or t2 for k is a step of the pages held.    *)
(***************************************************************************)
LEMMA EvictionHeldStep ==
  ASSUME IndInv, NEW k \in Page, NEW op \in Op, NEW v,
         k \notin Held, v \in Held,
         flushed' = Pending \cap {v},
         Held' = (Held \ {v}) \cup {k},
         Pending' = (Pending \ {v}) \cup (IF op = "WRITE" THEN {k} ELSE {}),
         Size(t1) + Size(t2) = Capacity,
         Size(t1') + Size(t2') = Size(t1) + Size(t2)
  PROVE  HeldStep(k, op)
<1>1. Pending \ {v} = Pending \ flushed' /\ flushed' \subseteq Pending
  OBVIOUS
<1>2. k \in Held' /\ Held' \subseteq Held \cup {k}
  OBVIOUS
<1>3. Pending' = (Pending \ flushed') \cup (IF op = "WRITE" THEN {k} ELSE {})
  BY <1>1
<1>4. QED
  BY <1>1, <1>2, <1>3 DEF HeldStep

(***************************************************************************)
(* The held lists after REPLACE, for each side and each destination of k.  *)
(* kt is the list k is pushed on at the end of the case.                   *)
(***************************************************************************)
ReplacedHeld(k, op, q, kt) ==
  LET e == NewEntry(op, "absent")
  IN  IF FromT1(k, q)
      THEN IF kt = "t1"
           THEN t1' = Push(Purge(t1, LRU(t1)), k, e) /\ t2' = t2
           ELSE t1' = Purge(t1, LRU(t1)) /\ t2' = Push(t2, k, e)
      ELSE IF kt = "t1"
           THEN t1' = Push(t1, k, e) /\ t2' = Purge(t2, LRU(t2))
           ELSE t1' = t1 /\ t2' = Push(Purge(t2, LRU(t2)), k, e)

\* REPLACE and the push of k: the pages held and the pending writes.
LEMMA ReplacedHeldStep ==
  ASSUME IndInv, NEW k \in Page, NEW op \in Op, NEW q \in Nat,
         NEW kt \in {"t1", "t2"},
         k \notin Held,
         Size(t1) + Size(t2) = Capacity,
         Size(t1) < Capacity \/ (Has(b2, k) /\ q <= Capacity),
         EvictReplaced(k, q), ReplacedHeld(k, op, q, kt)
  PROVE  /\ Good(t1') /\ Good(t2') /\ K(t1') \cap K(t2') = {}
         /\ Size(t1') = Size(t1) - (IF FromT1(k, q) THEN 1 ELSE 0)
                                 + (IF kt = "t1" THEN 1 ELSE 0)
         /\ Size(t2') = Size(t2) - (IF FromT1(k, q) THEN 0 ELSE 1)
                                 + (IF kt = "t2" THEN 1 ELSE 0)
         /\ HeldStep(k, op)
         /\ (flushed \in SUBSET Page)'
         /\ (totalEvictedCleanPages \in Nat)'
         /\ (totalNonSeqEvictedDirtyPages \in Nat)'
<1> DEFINE e == NewEntry(op, "absent")
<1>1. /\ Good(t1) /\ Good(t2) /\ K(t1) \cap K(t2) = {}
      /\ Size(t1) \in Nat /\ Size(t2) \in Nat
      /\ k \notin K(t1) /\ k \notin K(t2)
  BY InvFacts DEF Held
<1>2. e \in {"clean", "dirty"} /\ (e = "dirty" <=> op = "WRITE")
  BY NewEntryFacts
<1>3. /\ totalEvictedCleanPages \in Nat /\ totalNonSeqEvictedDirtyPages \in Nat
  BY DEF IndInv, Typed
<1>4. D(t1) \subseteq K(t1) /\ D(t2) \subseteq K(t2)
  BY <1>1, GoodFacts
<1>5. CASE FromT1(k, q)
  <2>1. Size(t1) > 0 /\ Evict(t1)
    BY <1>5, ReplaceVictim DEF EvictReplaced
  <2>2. /\ flushed' = D(t1) \cap {LRU(t1)}
        /\ (flushed \in SUBSET Page)'
        /\ (totalEvictedCleanPages \in Nat)'
        /\ (totalNonSeqEvictedDirtyPages \in Nat)'
    BY <1>1, <1>3, <2>1, EvictFacts
  <2>3. LRU(t1) \in K(t1)
    BY <1>1, <2>1, LRUFacts
  <2>4. flushed' = Pending \cap {LRU(t1)} /\ LRU(t1) \in Held
    BY <1>1, <1>4, <2>2, <2>3 DEF Pending, Held
  <2>5. CASE kt = "t1"
    <3>1. t1' = Push(Purge(t1, LRU(t1)), k, e) /\ t2' = t2
      BY <1>5, <2>5 DEF ReplacedHeld
    <3> HIDE DEF e
    <3>2. /\ Good(t1') /\ K(t1') \cap K(t2) = {} /\ Size(t1') = Size(t1)
          /\ K(t1') \cup K(t2) = ((K(t1) \cup K(t2)) \ {LRU(t1)}) \cup {k}
          /\ D(t1') \cup D(t2) = ((D(t1) \cup D(t2)) \ {LRU(t1)})
                                   \cup (IF e = "dirty" THEN {k} ELSE {})
      BY <1>1, <1>2, <2>1, <3>1, EvictAndPushSame
    <3>3. /\ Held' = (Held \ {LRU(t1)}) \cup {k}
          /\ Pending' = (Pending \ {LRU(t1)})
                          \cup (IF op = "WRITE" THEN {k} ELSE {})
      BY <1>2, <3>1, <3>2 DEF Held, Pending
    <3>4. HeldStep(k, op)
      BY <2>4, <3>1, <3>2, <3>3, EvictionHeldStep
    <3>5. QED
      BY <1>1, <1>5, <2>2, <2>5, <3>1, <3>2, <3>4
  <2>6. CASE kt = "t2"
    <3>1. t1' = Purge(t1, LRU(t1)) /\ t2' = Push(t2, k, e)
      BY <1>5, <2>6 DEF ReplacedHeld
    <3> HIDE DEF e
    <3>2. /\ Good(t1') /\ Good(t2') /\ K(t1') \cap K(t2') = {}
          /\ Size(t1') = Size(t1) - 1 /\ Size(t2') = Size(t2) + 1
          /\ K(t1') \cup K(t2') = ((K(t1) \cup K(t2)) \ {LRU(t1)}) \cup {k}
          /\ D(t1') \cup D(t2') = ((D(t1) \cup D(t2)) \ {LRU(t1)})
                                    \cup (IF e = "dirty" THEN {k} ELSE {})
      BY <1>1, <1>2, <2>1, <3>1, EvictAndPushOther
    <3>3. /\ Held' = (Held \ {LRU(t1)}) \cup {k}
          /\ Pending' = (Pending \ {LRU(t1)})
                          \cup (IF op = "WRITE" THEN {k} ELSE {})
      BY <1>2, <3>2 DEF Held, Pending
    <3>4. Size(t1') + Size(t2') = Size(t1) + Size(t2)
      BY <1>1, <3>2
    <3>5. HeldStep(k, op)
      BY <2>4, <3>3, <3>4, EvictionHeldStep
    <3>6. QED
      BY <1>1, <1>5, <2>2, <2>6, <3>2, <3>5
  <2>7. QED
    BY <2>5, <2>6
<1>6. CASE ~FromT1(k, q)
  <2>1. Size(t2) > 0 /\ Evict(t2)
    BY <1>6, ReplaceVictim DEF EvictReplaced
  <2>2. /\ flushed' = D(t2) \cap {LRU(t2)}
        /\ (flushed \in SUBSET Page)'
        /\ (totalEvictedCleanPages \in Nat)'
        /\ (totalNonSeqEvictedDirtyPages \in Nat)'
    BY <1>1, <1>3, <2>1, EvictFacts
  <2>3. LRU(t2) \in K(t2)
    BY <1>1, <2>1, LRUFacts
  <2>4. flushed' = Pending \cap {LRU(t2)} /\ LRU(t2) \in Held
    BY <1>1, <1>4, <2>2, <2>3 DEF Pending, Held
  <2>5. CASE kt = "t1"
    <3>1. t1' = Push(t1, k, e) /\ t2' = Purge(t2, LRU(t2))
      BY <1>6, <2>5 DEF ReplacedHeld
    <3> HIDE DEF e
    <3>2. /\ Good(t2') /\ Good(t1') /\ K(t2') \cap K(t1') = {}
          /\ Size(t2') = Size(t2) - 1 /\ Size(t1') = Size(t1) + 1
          /\ K(t2') \cup K(t1') = ((K(t2) \cup K(t1)) \ {LRU(t2)}) \cup {k}
          /\ D(t2') \cup D(t1') = ((D(t2) \cup D(t1)) \ {LRU(t2)})
                                    \cup (IF e = "dirty" THEN {k} ELSE {})
      BY <1>1, <1>2, <2>1, <3>1, EvictAndPushOther
    <3>3. /\ Held' = (Held \ {LRU(t2)}) \cup {k}
          /\ Pending' = (Pending \ {LRU(t2)})
                          \cup (IF op = "WRITE" THEN {k} ELSE {})
      BY <1>2, <3>2 DEF Held, Pending
    <3>4. Size(t1') + Size(t2') = Size(t1) + Size(t2)
      BY <1>1, <3>2
    <3>5. HeldStep(k, op)
      BY <2>4, <3>3, <3>4, EvictionHeldStep
    <3>6. QED
      BY <1>1, <1>6, <2>2, <2>5, <3>2, <3>5
  <2>6. CASE kt = "t2"
    <3>1. t1' = t1 /\ t2' = Push(Purge(t2, LRU(t2)), k, e)
      BY <1>6, <2>6 DEF ReplacedHeld
    <3> HIDE DEF e
    <3>2. /\ Good(t2') /\ K(t2') \cap K(t1) = {} /\ Size(t2') = Size(t2)
          /\ K(t2') \cup K(t1) = ((K(t2) \cup K(t1)) \ {LRU(t2)}) \cup {k}
          /\ D(t2') \cup D(t1) = ((D(t2) \cup D(t1)) \ {LRU(t2)})
                                   \cup (IF e = "dirty" THEN {k} ELSE {})
      BY <1>1, <1>2, <2>1, <3>1, EvictAndPushSame
    <3>3. /\ Held' = (Held \ {LRU(t2)}) \cup {k}
          /\ Pending' = (Pending \ {LRU(t2)})
                          \cup (IF op = "WRITE" THEN {k} ELSE {})
      BY <1>2, <3>1, <3>2 DEF Held, Pending
    <3>4. HeldStep(k, op)
      BY <2>4, <3>1, <3>2, <3>3, EvictionHeldStep
    <3>5. QED
      BY <1>1, <1>6, <2>2, <2>6, <3>1, <3>2, <3>4
  <2>7. QED
    BY <2>5, <2>6
<1>7. QED
  BY <1>5, <1>6
-----------------------------------------------------------------------------
(***************************************************************************)
(* Cases II and III. The ghost list that held k loses it, and if REPLACE   *)
(* took its victim from the other side k is left on the other ghost list.  *)
(***************************************************************************)
LEMMA HitB1Step ==
  ASSUME IndInv, NEW k \in Page, NEW op \in Op, HitB1(k, op)
  PROVE  IndInv' /\ HeldStep(k, op)
<1> DEFINE q == GrownP
<1>1. /\ Good(b1) /\ Good(b2) /\ K(b1) \cap K(b2) = {}
      /\ k \in K(b1) /\ k \notin K(b2) /\ k \notin Held
      /\ Size(t1) \in Nat /\ Size(t2) \in Nat
      /\ Size(b1) \in Nat /\ Size(b2) \in Nat
      /\ Capacity \in Nat
  BY InvFacts DEF HitB1, Cached, Held
<1>2. Size(b1) > 0 /\ Size(t1) + Size(t2) = Capacity /\ Size(t1) < Capacity
  BY FullCases DEF HitB1
<1>3. q \in 0..Capacity /\ p' = q /\ EvictReplaced(k, q)
  BY <1>2, AdaptedP DEF HitB1
<1>4. ReplacedHeld(k, op, q, "t2")
  BY DEF HitB1, REPLACE, Become, lists, ReplacedHeld
<1>5. b1' = IF FromT1(k, q) THEN Purge(Push(b1, k, "clean"), k) ELSE Purge(b1, k)
  BY DEF HitB1, REPLACE, Become, lists
<1>6. b2' = IF FromT1(k, q) THEN b2 ELSE Push(b2, k, "clean")
  BY DEF HitB1, REPLACE, Become, lists
<1> HIDE DEF q
<1>7. b1' = Purge(b1, k)
  BY <1>1, <1>5, PurgePushed
<1>8. Good(b1') /\ Size(b1') = Size(b1) - 1 /\ K(b1') = K(b1) \ {k}
  BY <1>1, <1>7, PurgeList
<1>9. /\ Good(b2')
      /\ Size(b2') = Size(b2) + (IF FromT1(k, q) THEN 0 ELSE 1)
      /\ K(b2') = K(b2) \/ K(b2') = K(b2) \cup {k}
  <2>1. CASE FromT1(k, q)
    BY <1>1, <1>6, <2>1
  <2>2. CASE ~FromT1(k, q)
    <3>1. Good(b2') /\ Size(b2') = Size(b2) + 1 /\ K(b2') = K(b2) \cup {k}
      BY <1>1, <1>6, <2>2, PushList
    <3>2. QED
      BY <2>2, <3>1
  <2>3. QED
    BY <2>1, <2>2
<1>10. (K(b1) \cap K(b2) = {})'
  BY <1>1, <1>8, <1>9
<1>11. /\ Good(t1') /\ Good(t2') /\ K(t1') \cap K(t2') = {}
       /\ Size(t1') = Size(t1) - (IF FromT1(k, q) THEN 1 ELSE 0)
       /\ Size(t2') = Size(t2) - (IF FromT1(k, q) THEN 0 ELSE 1) + 1
       /\ HeldStep(k, op)
       /\ (flushed \in SUBSET Page)'
       /\ (totalEvictedCleanPages \in Nat)'
       /\ (totalNonSeqEvictedDirtyPages \in Nat)'
  <2>1. /\ Good(t1') /\ Good(t2') /\ K(t1') \cap K(t2') = {}
        /\ Size(t1') = Size(t1) - (IF FromT1(k, q) THEN 1 ELSE 0)
                                + (IF "t2" = "t1" THEN 1 ELSE 0)
        /\ Size(t2') = Size(t2) - (IF FromT1(k, q) THEN 0 ELSE 1)
                                + (IF "t2" = "t2" THEN 1 ELSE 0)
        /\ HeldStep(k, op)
        /\ (flushed \in SUBSET Page)'
        /\ (totalEvictedCleanPages \in Nat)'
        /\ (totalNonSeqEvictedDirtyPages \in Nat)'
    BY <1>1, <1>2, <1>3, <1>4, ReplacedHeldStep
  <2>2. QED
    BY <1>1, <2>1
<1>12. SizesWithinBounds' /\ GhostsOnlyWhenFull'
  BY <1>1, <1>2, <1>8, <1>9, <1>11
     DEF IndInv, SizesWithinBounds, GhostsOnlyWhenFull, L1, Total
<1>13. IndInv'
  BY <1>3, <1>8, <1>9, <1>10, <1>11, <1>12, InvFrom, CapacityAssumption
<1>14. QED
  BY <1>11, <1>13

\* Case III, a hit in b2.
LEMMA HitB2Step ==
  ASSUME IndInv, NEW k \in Page, NEW op \in Op, HitB2(k, op)
  PROVE  IndInv' /\ HeldStep(k, op)
<1> DEFINE q == ShrunkP
<1>1. /\ Good(b1) /\ Good(b2) /\ K(b1) \cap K(b2) = {}
      /\ k \in K(b2) /\ k \notin K(b1) /\ k \notin Held
      /\ Size(t1) \in Nat /\ Size(t2) \in Nat
      /\ Size(b1) \in Nat /\ Size(b2) \in Nat
      /\ Capacity \in Nat
  BY InvFacts DEF HitB2, Cached, Held
<1>2. Size(b2) > 0 /\ Size(t1) + Size(t2) = Capacity /\ Has(b2, k)
  BY FullCases DEF HitB2
<1>3. q \in 0..Capacity /\ p' = q /\ EvictReplaced(k, q)
  BY <1>2, AdaptedP DEF HitB2
<1>4. ReplacedHeld(k, op, q, "t2")
  BY DEF HitB2, REPLACE, Become, lists, ReplacedHeld
<1>5. b2' = IF FromT1(k, q) THEN Purge(b2, k) ELSE Purge(Push(b2, k, "clean"), k)
  BY DEF HitB2, REPLACE, Become, lists
<1>6. b1' = IF FromT1(k, q) THEN Push(b1, k, "clean") ELSE b1
  BY DEF HitB2, REPLACE, Become, lists
<1> HIDE DEF q
<1>7. b2' = Purge(b2, k)
  BY <1>1, <1>5, PurgePushed
<1>8. Good(b2') /\ Size(b2') = Size(b2) - 1 /\ K(b2') = K(b2) \ {k}
  BY <1>1, <1>7, PurgeList
<1>9. /\ Good(b1')
      /\ Size(b1') = Size(b1) + (IF FromT1(k, q) THEN 1 ELSE 0)
      /\ K(b1') = K(b1) \/ K(b1') = K(b1) \cup {k}
  <2>1. CASE ~FromT1(k, q)
    BY <1>1, <1>6, <2>1
  <2>2. CASE FromT1(k, q)
    <3>1. Good(b1') /\ Size(b1') = Size(b1) + 1 /\ K(b1') = K(b1) \cup {k}
      BY <1>1, <1>6, <2>2, PushList
    <3>2. QED
      BY <2>2, <3>1
  <2>3. QED
    BY <2>1, <2>2
<1>10. (K(b1) \cap K(b2) = {})'
  BY <1>1, <1>8, <1>9
<1>11. /\ Good(t1') /\ Good(t2') /\ K(t1') \cap K(t2') = {}
       /\ Size(t1') = Size(t1) - (IF FromT1(k, q) THEN 1 ELSE 0)
       /\ Size(t2') = Size(t2) - (IF FromT1(k, q) THEN 0 ELSE 1) + 1
       /\ HeldStep(k, op)
       /\ (flushed \in SUBSET Page)'
       /\ (totalEvictedCleanPages \in Nat)'
       /\ (totalNonSeqEvictedDirtyPages \in Nat)'
  <2>1. /\ Good(t1') /\ Good(t2') /\ K(t1') \cap K(t2') = {}
        /\ Size(t1') = Size(t1) - (IF FromT1(k, q) THEN 1 ELSE 0)
                                + (IF "t2" = "t1" THEN 1 ELSE 0)
        /\ Size(t2') = Size(t2) - (IF FromT1(k, q) THEN 0 ELSE 1)
                                + (IF "t2" = "t2" THEN 1 ELSE 0)
        /\ HeldStep(k, op)
        /\ (flushed \in SUBSET Page)'
        /\ (totalEvictedCleanPages \in Nat)'
        /\ (totalNonSeqEvictedDirtyPages \in Nat)'
    BY <1>1, <1>2, <1>3, <1>4, ReplacedHeldStep
  <2>2. QED
    BY <1>1, <2>1
<1>12. SizesWithinBounds' /\ GhostsOnlyWhenFull'
  BY <1>1, <1>2, <1>8, <1>9, <1>11
     DEF IndInv, SizesWithinBounds, GhostsOnlyWhenFull, L1, Total
<1>13. IndInv'
  BY <1>3, <1>8, <1>9, <1>10, <1>11, <1>12, InvFrom, CapacityAssumption
<1>14. QED
  BY <1>11, <1>13
-----------------------------------------------------------------------------
(***************************************************************************)
(* Case IV. k is in no list before the step. The two ghost lists after     *)
(* REPLACE, when g1 and g2 are what they were at the call.                 *)
(***************************************************************************)
LEMMA GhostsReplaced ==
  ASSUME NEW g1, NEW g2, Good(g1), Good(g2), K(g1) \cap K(g2) = {},
         NEW k \in Page, k \notin K(g1), k \notin K(g2), NEW q,
         FromT1(k, q) => b1' = Push(g1, k, "clean") /\ b2' = g2,
         ~FromT1(k, q) => b1' = g1 /\ b2' = Push(g2, k, "clean")
  PROVE  /\ Good(b1') /\ Good(b2') /\ K(b1') \cap K(b2') = {}
         /\ Size(b1') = Size(g1) + (IF FromT1(k, q) THEN 1 ELSE 0)
         /\ Size(b2') = Size(g2) + (IF FromT1(k, q) THEN 0 ELSE 1)
<1>1. Size(g1) \in Nat /\ Size(g2) \in Nat
  BY GoodFacts
<1>2. CASE FromT1(k, q)
  <2>1. Good(b1') /\ Size(b1') = Size(g1) + 1 /\ K(b1') = K(g1) \cup {k}
    BY <1>2, PushList
  <2>2. QED
    BY <1>1, <1>2, <2>1
<1>3. CASE ~FromT1(k, q)
  <2>1. Good(b2') /\ Size(b2') = Size(g2) + 1 /\ K(b2') = K(g2) \cup {k}
    BY <1>3, PushList
  <2>2. QED
    BY <1>1, <1>3, <2>1
<1>4. QED
  BY <1>2, <1>3

(***************************************************************************)
(* What REPLACE and the push on t1 that ends Case IV do, from any ghost    *)
(* lists that leave the total below its bound.                             *)
(***************************************************************************)
LEMMA MissReplacedStep ==
  ASSUME IndInv, NEW k \in Page, NEW op \in Op, Miss(k),
         NEW g1, NEW g2, Good(g1), Good(g2), K(g1) \cap K(g2) = {},
         k \notin K(g1), k \notin K(g2),
         Size(t1) < Capacity, Size(t1) + Size(t2) = Capacity,
         Size(t1) + Size(g1) < Capacity,
         Size(g1) + Size(g2) < Capacity,
         EvictReplaced(k, p), p' = p,
         ReplacedHeld(k, op, p, "t1"),
         FromT1(k, p) => b1' = Push(g1, k, "clean") /\ b2' = g2,
         ~FromT1(k, p) => b1' = g1 /\ b2' = Push(g2, k, "clean")
  PROVE  IndInv' /\ HeldStep(k, op)
<1>1. /\ Size(t1) \in Nat /\ Size(t2) \in Nat
      /\ Size(g1) \in Nat /\ Size(g2) \in Nat
      /\ p \in 0..(Capacity + 1) /\ Capacity \in Nat
      /\ k \notin Held
  BY InvFacts, GoodFacts DEF Miss, Cached, Held
<1>2. /\ Good(b1') /\ Good(b2') /\ K(b1') \cap K(b2') = {}
      /\ Size(b1') = Size(g1) + (IF FromT1(k, p) THEN 1 ELSE 0)
      /\ Size(b2') = Size(g2) + (IF FromT1(k, p) THEN 0 ELSE 1)
  BY GhostsReplaced
<1>3. /\ Good(t1') /\ Good(t2') /\ K(t1') \cap K(t2') = {}
      /\ Size(t1') = Size(t1) - (IF FromT1(k, p) THEN 1 ELSE 0) + 1
      /\ Size(t2') = Size(t2) - (IF FromT1(k, p) THEN 0 ELSE 1)
      /\ HeldStep(k, op)
      /\ (flushed \in SUBSET Page)'
      /\ (totalEvictedCleanPages \in Nat)'
      /\ (totalNonSeqEvictedDirtyPages \in Nat)'
  <2>1. /\ Good(t1') /\ Good(t2') /\ K(t1') \cap K(t2') = {}
        /\ Size(t1') = Size(t1) - (IF FromT1(k, p) THEN 1 ELSE 0)
                                + (IF "t1" = "t1" THEN 1 ELSE 0)
        /\ Size(t2') = Size(t2) - (IF FromT1(k, p) THEN 0 ELSE 1)
                                + (IF "t1" = "t2" THEN 1 ELSE 0)
        /\ HeldStep(k, op)
        /\ (flushed \in SUBSET Page)'
        /\ (totalEvictedCleanPages \in Nat)'
        /\ (totalNonSeqEvictedDirtyPages \in Nat)'
    BY <1>1, ReplacedHeldStep
  <2>2. QED
    BY <1>1, <2>1
<1>4. SizesWithinBounds' /\ GhostsOnlyWhenFull'
  BY <1>1, <1>2, <1>3 DEF SizesWithinBounds, GhostsOnlyWhenFull, L1, Total
<1>5. IndInv'
  BY <1>1, <1>2, <1>3, <1>4, InvFrom
<1>6. QED
  BY <1>3, <1>5

\* Case IV with a ghost of b1 dropped and a page replaced.
LEMMA MissDropB1Step ==
  ASSUME IndInv, NEW k \in Page, NEW op \in Op, MissDropB1(k, op)
  PROVE  IndInv' /\ HeldStep(k, op)
<1> DEFINE g == Purge(b1, LRU(b1))
<1>1. /\ Good(b1) /\ Good(b2) /\ K(b1) \cap K(b2) = {}
      /\ k \notin K(b1) /\ k \notin K(b2)
      /\ Size(t1) \in Nat /\ Size(t2) \in Nat
      /\ Size(b1) \in Nat /\ Size(b2) \in Nat /\ Capacity \in Nat
  BY InvFacts DEF MissDropB1, Miss
<1>2. Miss(k) /\ L1 = Capacity /\ Size(t1) < Capacity
  BY DEF MissDropB1
<1>3. Size(b1) > 0 /\ Size(t1) + Size(t2) = Capacity
  BY <1>2, FullCases
<1>4. Good(g) /\ Size(g) = Size(b1) - 1 /\ K(g) = K(b1) \ {LRU(b1)}
  BY <1>1, <1>3, LRUFacts, PurgeList
<1>5. EvictReplaced(k, p) /\ p' = p
  BY DEF MissDropB1
<1>6. ReplacedHeld(k, op, p, "t1")
  BY DEF MissDropB1, MissTo, REPLACE, Become, lists, ReplacedHeld
<1>7. /\ FromT1(k, p) => b1' = Push(g, k, "clean") /\ b2' = b2
      /\ ~FromT1(k, p) => b1' = g /\ b2' = Push(b2, k, "clean")
  BY DEF MissDropB1, MissTo, REPLACE, Become, lists
<1>8. Size(t1) + Size(g) < Capacity /\ Size(g) + Size(b2) < Capacity
  BY <1>1, <1>2, <1>3, <1>4 DEF L1, IndInv, SizesWithinBounds, Total
<1> HIDE DEF g
<1>9. K(g) \cap K(b2) = {} /\ k \notin K(g)
  BY <1>1, <1>4
<1>10. QED
  BY <1>1, <1>2, <1>3, <1>4, <1>5, <1>6, <1>7, <1>8, <1>9, MissReplacedStep

\* Case IV with a page replaced, and a ghost of b2 dropped if all is full.
LEMMA MissReplaceStep ==
  ASSUME IndInv, NEW k \in Page, NEW op \in Op, MissReplace(k, op)
  PROVE  IndInv' /\ HeldStep(k, op)
<1> DEFINE g == IF Total = 2 * Capacity THEN Purge(b2, LRU(b2)) ELSE b2
<1>1. /\ Good(b1) /\ Good(b2) /\ K(b1) \cap K(b2) = {}
      /\ k \notin K(b1) /\ k \notin K(b2)
      /\ Size(t1) \in Nat /\ Size(t2) \in Nat
      /\ Size(b1) \in Nat /\ Size(b2) \in Nat /\ Capacity \in Nat
  BY InvFacts DEF MissReplace, Miss
<1>2. Miss(k) /\ L1 < Capacity /\ Total >= Capacity
  BY DEF MissReplace
<1>3. Size(t1) < Capacity /\ Size(t1) + Size(t2) = Capacity
  BY <1>2, FullCases
<1>4. Good(g) /\ K(g) \subseteq K(b2) /\ Size(b1) + Size(g) < Capacity
  <2>1. CASE Total = 2 * Capacity
    <3>1. Size(b2) > 0
      BY <1>2, <2>1, FullCases
    <3>2. /\ Good(Purge(b2, LRU(b2))) /\ Size(Purge(b2, LRU(b2))) = Size(b2) - 1
          /\ K(Purge(b2, LRU(b2))) = K(b2) \ {LRU(b2)}
      BY <1>1, <3>1, LRUFacts, PurgeList
    <3>3. g = Purge(b2, LRU(b2))
      BY <2>1
    <3> HIDE DEF g
    <3>4. QED
      BY <1>1, <1>3, <2>1, <3>2, <3>3 DEF Total
  <2>2. CASE Total # 2 * Capacity
    BY <1>1, <1>3, <2>2 DEF IndInv, SizesWithinBounds, Total
  <2>3. QED
    BY <2>1, <2>2
<1>5. EvictReplaced(k, p) /\ p' = p
  BY DEF MissReplace
<1>6. ReplacedHeld(k, op, p, "t1")
  BY DEF MissReplace, MissTo, REPLACE, Become, lists, ReplacedHeld
<1>7. /\ FromT1(k, p) => b1' = Push(b1, k, "clean") /\ b2' = g
      /\ ~FromT1(k, p) => b1' = b1 /\ b2' = Push(g, k, "clean")
  BY DEF MissReplace, MissTo, REPLACE, Become, lists
<1>8. Size(t1) + Size(b1) < Capacity
  BY <1>2 DEF L1
<1> HIDE DEF g
<1>9. K(b1) \cap K(g) = {} /\ k \notin K(g)
  BY <1>1, <1>4
<1>10. QED
  BY <1>1, <1>2, <1>3, <1>4, <1>5, <1>6, <1>7, <1>8, <1>9, MissReplacedStep

\* Case IV with t1 full and b1 empty: the LRU page of t1 leaves no ghost.
LEMMA MissDropT1Step ==
  ASSUME IndInv, NEW k \in Page, NEW op \in Op, MissDropT1(k, op)
  PROVE  IndInv' /\ HeldStep(k, op)
<1> DEFINE e == NewEntry(op, "absent")
<1>1. /\ Good(t1) /\ Good(t2) /\ Good(b1) /\ Good(b2)
      /\ K(t1) \cap K(t2) = {} /\ K(b1) \cap K(b2) = {}
      /\ k \notin K(t1) /\ k \notin K(t2) /\ k \notin Held
      /\ Size(t1) \in Nat /\ Size(t2) \in Nat
      /\ Size(b1) \in Nat /\ Size(b2) \in Nat
      /\ p \in 0..(Capacity + 1) /\ Capacity \in Nat /\ Capacity > 0
  BY InvFacts DEF MissDropT1, Miss, Cached, Held
<1>2. Size(t1) = Capacity /\ Size(t1) + Size(t2) = Capacity /\ Size(t1) > 0
  BY <1>1 DEF MissDropT1, IndInv, SizesWithinBounds, L1
<1>3. /\ t1' = Push(Purge(t1, LRU(t1)), k, e) /\ t2' = t2
      /\ b1' = b1 /\ b2' = b2 /\ p' = p /\ Evict(t1)
  BY DEF MissDropT1, MissTo, Become, lists
<1>4. e \in {"clean", "dirty"} /\ (e = "dirty" <=> op = "WRITE")
  BY NewEntryFacts
<1> HIDE DEF e
<1>5. /\ Good(t1') /\ K(t1') \cap K(t2) = {} /\ Size(t1') = Size(t1)
      /\ K(t1') \cup K(t2) = ((K(t1) \cup K(t2)) \ {LRU(t1)}) \cup {k}
      /\ D(t1') \cup D(t2) = ((D(t1) \cup D(t2)) \ {LRU(t1)})
                               \cup (IF e = "dirty" THEN {k} ELSE {})
  BY <1>1, <1>2, <1>3, <1>4, EvictAndPushSame
<1>6. /\ flushed' = D(t1) \cap {LRU(t1)}
      /\ (flushed \in SUBSET Page)'
      /\ (totalEvictedCleanPages \in Nat)'
      /\ (totalNonSeqEvictedDirtyPages \in Nat)'
  BY <1>1, <1>2, <1>3, EvictFacts DEF IndInv, Typed
<1>7. LRU(t1) \in K(t1) /\ D(t2) \subseteq K(t2)
  BY <1>1, <1>2, LRUFacts, GoodFacts
<1>8. flushed' = Pending \cap {LRU(t1)} /\ LRU(t1) \in Held
  BY <1>1, <1>6, <1>7 DEF Pending, Held
<1>9. /\ Held' = (Held \ {LRU(t1)}) \cup {k}
      /\ Pending' = (Pending \ {LRU(t1)}) \cup (IF op = "WRITE" THEN {k} ELSE {})
  BY <1>3, <1>4, <1>5 DEF Held, Pending
<1>10. HeldStep(k, op)
  BY <1>1, <1>2, <1>3, <1>5, <1>8, <1>9, EvictionHeldStep
<1>11. SizesWithinBounds' /\ GhostsOnlyWhenFull'
  BY <1>3, <1>5 DEF IndInv, SizesWithinBounds, GhostsOnlyWhenFull, L1, Total
<1>12. IndInv'
  BY <1>1, <1>3, <1>5, <1>6, <1>11, InvFrom
<1>13. QED
  BY <1>10, <1>12

\* Case IV while there is room.
LEMMA MissRoomStep ==
  ASSUME IndInv, NEW k \in Page, NEW op \in Op, MissRoom(k, op)
  PROVE  IndInv' /\ HeldStep(k, op)
<1> DEFINE e == NewEntry(op, "absent")
<1>1. /\ Good(t1) /\ Good(t2) /\ Good(b1) /\ Good(b2)
      /\ K(t1) \cap K(t2) = {} /\ K(b1) \cap K(b2) = {}
      /\ k \notin K(t1) /\ k \notin K(t2) /\ k \notin Held
      /\ Size(t1) \in Nat /\ Size(t2) \in Nat
      /\ Size(b1) \in Nat /\ Size(b2) \in Nat
      /\ p \in 0..(Capacity + 1) /\ Capacity \in Nat
  BY InvFacts DEF MissRoom, Miss, Cached, Held
<1>2. /\ t1' = Push(t1, k, e) /\ t2' = t2 /\ b1' = b1 /\ b2' = b2
      /\ flushed' = {} /\ p' = p
      /\ totalEvictedCleanPages' = totalEvictedCleanPages
      /\ totalNonSeqEvictedDirtyPages' = totalNonSeqEvictedDirtyPages
      /\ L1 < Capacity /\ Total < Capacity
  BY DEF MissRoom, MissTo, Become, lists, NoEviction
<1>3. e \in {"clean", "dirty"} /\ (e = "dirty" <=> op = "WRITE")
  BY NewEntryFacts
<1> HIDE DEF e
<1>4. /\ Good(t1') /\ Size(t1') = Size(t1) + 1
      /\ K(t1') = K(t1) \cup {k}
      /\ e = "dirty" => D(t1') = D(t1) \cup {k}
      /\ e = "clean" => D(t1') = D(t1)
  BY <1>1, <1>2, <1>3, PushList
<1>5. SizesWithinBounds' /\ GhostsOnlyWhenFull'
  BY <1>1, <1>2, <1>4
     DEF IndInv, SizesWithinBounds, GhostsOnlyWhenFull, L1, Total
<1>6. (K(t1) \cap K(t2) = {})' /\ (K(b1) \cap K(b2) = {})'
  BY <1>1, <1>2, <1>4
<1>7. IndInv'
  BY <1>1, <1>2, <1>4, <1>5, <1>6, InvFrom DEF IndInv, Typed
<1>8. Held' = Held \cup {k}
  BY <1>2, <1>4 DEF Held
<1>9. Pending' = Pending \cup (IF op = "WRITE" THEN {k} ELSE {})
  BY <1>2, <1>3, <1>4 DEF Pending
<1>10. HeldStep(k, op)
  BY <1>1, <1>2, <1>8, <1>9 DEF HeldStep
<1>11. QED
  BY <1>7, <1>10
-----------------------------------------------------------------------------
\* The inductive invariant holds when the cache has just been made.
LEMMA InitInv == Init => IndInv
<1> SUFFICES ASSUME Init PROVE IndInv
  OBVIOUS
<1>1. Good(Empty) /\ K(Empty) = {} /\ Size(Empty) = 0
  BY EmptyFacts
<1>2. Typed
  BY <1>1, CapacityAssumption DEF Init, Typed, Good
<1>3. ListsConsistent
  BY <1>1, GoodFacts DEF Init, ListsConsistent, Good
<1>4. SizesWithinBounds /\ GhostsOnlyWhenFull
  BY <1>1, CapacityAssumption
     DEF Init, SizesWithinBounds, GhostsOnlyWhenFull, L1, Total
<1>5. QED
  BY <1>2, <1>3, <1>4 DEF IndInv

\* Every case of access() keeps the invariant and the pending writes.
LEMMA AccessStep ==
  ASSUME IndInv, NEW k \in Page, NEW op \in Op, access(k, op)
  PROVE  IndInv' /\ HeldStep(k, op)
<1>1. CASE HitT1(k, op)
  BY <1>1, HitT1Step
<1>2. CASE HitT2(k, op)
  BY <1>2, HitT2Step
<1>3. CASE HitB1(k, op)
  BY <1>3, HitB1Step
<1>4. CASE HitB2(k, op)
  BY <1>4, HitB2Step
<1>5. CASE MissDropB1(k, op)
  BY <1>5, MissDropB1Step
<1>6. CASE MissDropT1(k, op)
  BY <1>6, MissDropT1Step
<1>7. CASE MissReplace(k, op)
  BY <1>7, MissReplaceStep
<1>8. CASE MissRoom(k, op)
  BY <1>8, MissRoomStep
<1>9. QED
  BY <1>1, <1>2, <1>3, <1>4, <1>5, <1>6, <1>7, <1>8 DEF access

\* The inductive invariant is preserved by every step.
LEMMA NextInv == IndInv /\ [Next]_vars => IndInv'
<1> SUFFICES ASSUME IndInv, [Next]_vars PROVE IndInv'
  OBVIOUS
<1>1. CASE Next
  BY <1>1, AccessStep DEF Next
<1>2. CASE UNCHANGED vars
  BY <1>2 DEF vars, IndInv, Typed, ListsConsistent, SizesWithinBounds,
              GhostsOnlyWhenFull, IsList, L1, Total, Has, Size, MapSize
<1>3. QED
  BY <1>1, <1>2

(***************************************************************************)
(* An access leaves p at most Capacity, or where it was.                   *)
(***************************************************************************)
LEMMA PStays ==
  ASSUME IndInv, NEW k \in Page, NEW op \in Op, access(k, op)
  PROVE  p' \in 0..Capacity \/ p' = p
<1>1. CASE HitB1(k, op)
  BY <1>1, FullCases, AdaptedP DEF HitB1
<1>2. CASE HitB2(k, op)
  BY <1>2, FullCases, AdaptedP DEF HitB2
<1>3. CASE HitT1(k, op) \/ HitT2(k, op)
  BY <1>3 DEF HitT1, HitT2
<1>4. CASE MissDropB1(k, op) \/ MissDropT1(k, op)
  BY <1>4 DEF MissDropB1, MissDropT1
<1>5. CASE MissReplace(k, op) \/ MissRoom(k, op)
  BY <1>5 DEF MissReplace, MissRoom
<1>6. QED
  BY <1>1, <1>2, <1>3, <1>4, <1>5 DEF access

\* A step of another level, which has its own lists, keeps the invariant if it
\* keeps the types and does not move p two above this level's capacity.
LEMMA OtherLevelStep ==
  ASSUME IndInv, UNCHANGED <<t1, t2, b1, b2>>,
         (p \in 0..(Capacity + 1))', (flushed \in SUBSET Page)',
         (totalEvictedCleanPages \in Nat)',
         (totalNonSeqEvictedDirtyPages \in Nat)'
  PROVE  IndInv'
<1>1. t1' = t1 /\ t2' = t2 /\ b1' = b1 /\ b2' = b2
  OBVIOUS
<1>2. Typed'
  BY <1>1 DEF IndInv, Typed, IsList
<1>3. ListsConsistent'
  BY <1>1 DEF IndInv, ListsConsistent, Has
<1>4. SizesWithinBounds' /\ GhostsOnlyWhenFull'
  BY <1>1 DEF IndInv, SizesWithinBounds, GhostsOnlyWhenFull, L1, Total, Size, MapSize
<1>5. QED
  BY <1>2, <1>3, <1>4 DEF IndInv

(***************************************************************************)
(* The lists, the maps and p of ARC keep their types, and p stays          *)
(* between 0 and the capacity.                                             *)
(***************************************************************************)
THEOREM TypeCorrect == Spec => []TypeOK
<1> DEFINE Inv == IndInv /\ p <= Capacity
<1>1. Init => Inv
  BY InitInv, CapacityAssumption DEF Init
<1>2. ASSUME Inv, [Next]_vars
      PROVE  Inv'
  <2>1. IndInv'
    BY <1>2, NextInv
  <2>2. p' \in 0..Capacity \/ p' = p
    BY <1>2, PStays DEF Next, vars
  <2>3. QED
    BY <1>2, <2>1, <2>2, CapacityAssumption
<1>3. Inv => TypeOK
  BY CapacityAssumption DEF IndInv, Typed, TypeOK
<1> HIDE DEF Inv
<1>4. QED
  BY <1>1, <1>2, <1>3, PTL DEF Spec

(***************************************************************************)
(* Every list of ARC matches its map, and no page is held twice.           *)
(***************************************************************************)
THEOREM AlwaysConsistent == Spec => []ListsConsistent
<1>1. IndInv => ListsConsistent
  BY DEF IndInv
<1>2. QED
  BY <1>1, InitInv, NextInv, PTL DEF Spec

(***************************************************************************)
(* The four asserts at the head of ARC::access() never fail.               *)
(***************************************************************************)
THEOREM EntryAssertsHold == Spec => []SizesWithinBounds
<1>1. IndInv => SizesWithinBounds
  BY DEF IndInv
<1>2. QED
  BY <1>1, InitInv, NextInv, PTL DEF Spec

(***************************************************************************)
(* Where t1 and t2 are full, REPLACE finds its victim.                     *)
(***************************************************************************)
LEMMA VictimFound ==
  ASSUME IndInv, NEW k \in Page, NEW q \in Nat, Size(t1) + Size(t2) = Capacity,
         Size(t1) < Capacity \/ (Has(b2, k) /\ q <= Capacity)
  PROVE  ReplaceFindsVictim(k, q)
<1>1. /\ FromT1(k, q) => Size(t1) > 0
      /\ ~FromT1(k, q) => Size(t2) > 0
  BY ReplaceVictim
<1>2. Good(t1) /\ Good(t2)
  BY InvFacts
<1>3. (t1.key = <<>> <=> Size(t1) = 0) /\ (t2.key = <<>> <=> Size(t2) = 0)
  BY <1>2, GoodFacts
<1>4. QED
  BY <1>1, <1>3 DEF ReplaceFindsVictim

\* The inductive invariant implies that victims exist where needed.
LEMMA InvVictims == IndInv => VictimsExist
<1> SUFFICES ASSUME IndInv, NEW k \in Page
             PROVE
    /\ ~Cached(k) /\ Has(b1, k) => ReplaceFindsVictim(k, GrownP)
    /\ ~Cached(k) /\ ~Has(b1, k) /\ Has(b2, k) => ReplaceFindsVictim(k, ShrunkP)
    /\ Miss(k) /\ L1 = Capacity /\ Size(t1) < Capacity =>
         b1.key # <<>> /\ ReplaceFindsVictim(k, p)
    /\ Miss(k) /\ L1 = Capacity /\ Size(t1) >= Capacity => t1.key # <<>>
    /\ Miss(k) /\ L1 < Capacity /\ Total >= Capacity => ReplaceFindsVictim(k, p)
    /\ Miss(k) /\ L1 < Capacity /\ Total = 2 * Capacity => b2.key # <<>>
  BY DEF VictimsExist
<1>1. /\ Good(t1) /\ Good(b1) /\ Good(b2)
      /\ p \in 0..(Capacity + 1) /\ Capacity \in Nat /\ Capacity > 0
  BY InvFacts
<1>2. /\ t1.key = <<>> <=> Size(t1) = 0
      /\ b1.key = <<>> <=> Size(b1) = 0
      /\ b2.key = <<>> <=> Size(b2) = 0
  BY <1>1, GoodFacts
<1>3. ASSUME Has(b1, k) PROVE ReplaceFindsVictim(k, GrownP)
  BY <1>3, FullCases, AdaptedP, VictimFound
<1>4. ASSUME Has(b2, k) PROVE ReplaceFindsVictim(k, ShrunkP)
  BY <1>4, FullCases, AdaptedP, VictimFound
<1>5. ASSUME L1 = Capacity, Size(t1) < Capacity
      PROVE  b1.key # <<>> /\ ReplaceFindsVictim(k, p)
  BY <1>1, <1>2, <1>5, FullCases, VictimFound
<1>6. ASSUME Size(t1) >= Capacity PROVE t1.key # <<>>
  BY <1>1, <1>2, <1>6
<1>7. ASSUME L1 < Capacity, Total >= Capacity PROVE ReplaceFindsVictim(k, p)
  BY <1>1, <1>7, FullCases, VictimFound
<1>8. ASSUME L1 < Capacity, Total = 2 * Capacity PROVE b2.key # <<>>
  BY <1>2, <1>8, FullCases
<1>9. QED
  BY <1>3, <1>4, <1>5, <1>6, <1>7, <1>8

\* No access of ARC takes the LRU element of an empty list: the asserts
\* on itLRU in Case IV and in REPLACE never fail.
THEOREM VictimAssertsHold == Spec => []VictimsExist
BY InvVictims, InitInv, NextInv, PTL DEF Spec

(***************************************************************************)
(* ARC evicts a page only when t1 and t2 hold Capacity pages.              *)
(***************************************************************************)
THEOREM EvictsOnlyWhenFull == Spec => NoEarlyEviction
<1> DEFINE A == \A k \in Page :
                  Cached(k) /\ ~Cached(k)' =>
                    /\ Size(t1) + Size(t2) = Capacity
                    /\ (Size(t1) + Size(t2) = Capacity)'
<1>1. ASSUME IndInv, IndInv', NEW k \in Page, NEW op \in Op, access(k, op)
      PROVE  A
  <2>1. ~(Held \subseteq Held') => /\ Size(t1) + Size(t2) = Capacity
                                   /\ (Size(t1) + Size(t2) = Capacity)'
    BY <1>1, AccessStep DEF HeldStep
  <2>2. Good(t1) /\ Good(t2) /\ Good(t1') /\ Good(t2')
    BY <1>1 DEF IndInv, Typed, ListsConsistent, Good
  <2>3. \A j \in Page : /\ Cached(j) <=> j \in Held
                        /\ Cached(j)' <=> j \in Held'
    BY <2>2, GoodFacts DEF Cached, Held
  <2>4. QED
    BY <2>1, <2>3
<1>2. IndInv /\ IndInv' /\ [Next]_vars => [A]_vars
  BY <1>1 DEF Next
<1>3. QED
  BY <1>2, InitInv, NextInv, PTL DEF Spec, NoEarlyEviction
-----------------------------------------------------------------------------
\* The abstract module's Cardinality is the standard one.
LEMMA SameCardinality == ASSUME NEW S PROVE WBC!Cardinality(S) = Cardinality(S)
BY DEF WBC!Cardinality, Cardinality

\* The pages held in two disjoint lists, and the dirty ones among them.
LEMMA HeldSize ==
  ASSUME NEW x, NEW y, Good(x), Good(y), K(x) \cap K(y) = {},
         Size(x) + Size(y) <= Capacity
  PROVE  /\ Cardinality(K(x) \cup K(y)) <= Capacity
         /\ D(x) \cup D(y) \subseteq K(x) \cup K(y)
<1>1. /\ IsFiniteSet(K(x)) /\ Cardinality(K(x)) = Size(x) /\ Size(x) \in Nat
      /\ IsFiniteSet(K(y)) /\ Cardinality(K(y)) = Size(y) /\ Size(y) \in Nat
      /\ D(x) \subseteq K(x) /\ D(y) \subseteq K(y)
  BY GoodFacts
<1>2. Cardinality(K(x) \cup K(y)) = Size(x) + Size(y)
  BY <1>1, FS_Union, FS_EmptySet
<1>3. QED
  BY <1>1, <1>2

(***************************************************************************)
(* ARC implements the write-back cache: no write is lost while the pages   *)
(* move between t1 and t2 or are replaced, and nothing else is logged.     *)
(***************************************************************************)
THEOREM RefinesWriteBack == Spec => ImplementsWriteBack
<1>1. Init => WBC!WBInit
  BY EmptyFacts DEF Init, WBC!WBInit, K, D
<1>2. ASSUME IndInv, IndInv', NEW k \in Page, NEW op \in Op, access(k, op)
      PROVE  WBC!WBNext
  <2>1. HeldStep(k, op)
    BY <1>2, AccessStep
  <2>2. /\ Cardinality(Held)' <= Capacity /\ Pending' \subseteq Held'
        /\ Pending \subseteq Held
    <3>1. /\ Good(t1) /\ Good(t2) /\ K(t1) \cap K(t2) = {}
          /\ Size(t1) + Size(t2) <= Capacity
      BY <1>2, InvFacts DEF IndInv, SizesWithinBounds
    <3>2. /\ Good(t1') /\ Good(t2') /\ Size(t1') + Size(t2') <= Capacity
          /\ \A j \in Page : ~(Has(t1', j) /\ Has(t2', j))
      BY <1>2 DEF IndInv, Typed, ListsConsistent, SizesWithinBounds, Good
    <3>3. K(t1') \cap K(t2') = {}
      BY <3>2, GoodFacts
    <3>4. QED
      BY <3>1, <3>2, <3>3, HeldSize DEF Held, Pending
  <2>3. WBC!Cardinality(Held') <= Capacity
    BY <2>2, SameCardinality
  <2>4. WBC!WBAccess(k, op = "WRITE")
    BY <2>1, <2>2, <2>3 DEF HeldStep, WBC!WBAccess, Held, Pending, K, D
  <2>5. QED
    BY <2>4 DEF WBC!WBNext
<1>3. IndInv /\ IndInv' /\ [Next]_vars => [WBC!WBNext]_(WBC!wbvars)
  <2> SUFFICES ASSUME IndInv, IndInv', [Next]_vars
               PROVE  [WBC!WBNext]_(WBC!wbvars)
    OBVIOUS
  <2>1. CASE Next
    BY <1>2, <2>1 DEF Next
  <2>2. CASE UNCHANGED vars
    BY <2>2 DEF vars, WBC!wbvars
  <2>3. QED
    BY <2>1, <2>2
<1>4. QED
  BY <1>1, <1>3, InitInv, NextInv, PTL DEF Spec, ImplementsWriteBack, WBC!WBSpec
=============================================================================
