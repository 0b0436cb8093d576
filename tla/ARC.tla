-------------------------------- MODULE ARC ---------------------------------
(***************************************************************************)
(* The adaptive replacement cache of arc.h.                                *)
(*                                                                         *)
(* Each of t1, t2 (pages held) and b1, b2 (ghosts: keys only) is a list    *)
(* and a map in the code, t1_key and t1 and so on; here it is a record of  *)
(* the two. The flags kept for a ghost are never read, so a ghost's entry  *)
(* is "clean". One step is one call of access(k, value, op).               *)
(*                                                                         *)
(* REPLACE pushes the key being accessed, not its victim's, on a ghost     *)
(* list, and the model does what the code does.                            *)
(***************************************************************************)
EXTENDS StdContainers

CONSTANTS Page,          \* fsblkno of the requests in the trace
          Op,            \* the request types readTrace() lets through
          Capacity,      \* _capacity
          MaxEvictions   \* bound on the two eviction counters together

ASSUME PageAssumption == IsFiniteSet(Page)
ASSUME OpAssumption == Op \subseteq {"READ", "WRITE"}
ASSUME CapacityAssumption == Capacity \in Nat \ {0}
ASSUME MaxEvictionsAssumption == MaxEvictions \in Nat

VARIABLES t1, t2, b1, b2,                 \* lists and maps
          p,                              \* target size of t1
          flushed,                        \* logged to DISKSIMINPUTSTREAM
          totalEvictedCleanPages,
          totalNonSeqEvictedDirtyPages

vars == <<t1, t2, b1, b2, p, flushed, totalEvictedCleanPages,
          totalNonSeqEvictedDirtyPages>>

\* A list and a map that are updated together.
Empty == [key |-> <<>>, map |-> NoEntries(Page)]
Size(l) == MapSize(l.map)
Has(l, k) == l.map[k] # "absent"
LRU(l) == Head(l.key)
Purge(l, k) == [key |-> ListRemove(l.key, k), map |-> MapErase(l.map, k)]
Push(l, k, e) == [key |-> Append(l.key, k), map |-> MapInsert(l.map, k, e)]

\* The four lists as one value, so that the calls of a case compose.
lists == [t1 |-> t1, t2 |-> t2, b1 |-> b1, b2 |-> b2]
Become(s) == t1' = s.t1 /\ t2' = s.t2 /\ b1' = s.b1 /\ b2' = s.b2

Init ==
  /\ t1 = Empty /\ t2 = Empty /\ b1 = Empty /\ b2 = Empty
  /\ p = 0
  /\ flushed = {}
  /\ totalEvictedCleanPages = 0
  /\ totalNonSeqEvictedDirtyPages = 0

\* A slip: a read hit forgets that the page was dirty.
EntryClearedByRead(op, old) == IF op = "WRITE" THEN "dirty" ELSE "clean"

\* The flags a page is stored with: a write makes it dirty and a hit keeps the
\* dirty bit it had; old is "absent" on a miss.
NewEntry(op, old) == IF op = "WRITE" \/ old = "dirty" THEN "dirty" ELSE "clean"

\* The code's two eviction branches: count the LRU page of l and, if it is
\* dirty, log it.
Evict(l) ==
  /\ totalEvictedCleanPages + totalNonSeqEvictedDirtyPages < MaxEvictions
  /\ \/ /\ l.map[LRU(l)] = "dirty"
        /\ flushed' = {LRU(l)}
        /\ totalNonSeqEvictedDirtyPages' = totalNonSeqEvictedDirtyPages + 1
        /\ UNCHANGED totalEvictedCleanPages
     \/ /\ l.map[LRU(l)] # "dirty"
        /\ flushed' = {}
        /\ totalEvictedCleanPages' = totalEvictedCleanPages + 1
        /\ UNCHANGED totalNonSeqEvictedDirtyPages

NoEviction ==
  /\ flushed' = {}
  /\ UNCHANGED <<totalEvictedCleanPages, totalNonSeqEvictedDirtyPages>>

\* A slip: t1 is not checked to be non-empty.
FromT1Unchecked(k, q) == Size(t1) > q \/ (Has(b2, k) /\ Size(t1) = q)

\* REPLACE takes its victim from t1 or else from t2.
FromT1(k, q) ==
  /\ Size(t1) > 0
  /\ Size(t1) > q \/ (Has(b2, k) /\ Size(t1) = q)

REPLACE(s, k, q) ==
  IF FromT1(k, q)
  THEN [s EXCEPT !.t1 = Purge(@, LRU(@)), !.b1 = Push(@, k, "clean")]
  ELSE [s EXCEPT !.t2 = Purge(@, LRU(@)), !.b2 = Push(@, k, "clean")]

EvictReplaced(k, q) == IF FromT1(k, q) THEN Evict(t1) ELSE Evict(t2)

\* Case I: a hit in t1 or t2 moves k to the back of t2.
HitT1(k, op) ==
  /\ Has(t1, k)
  /\ t1' = Purge(t1, k)
  /\ t2' = Push(t2, k, NewEntry(op, t1.map[k]))
  /\ NoEviction
  /\ UNCHANGED <<b1, b2, p>>

HitT2(k, op) ==
  /\ ~Has(t1, k) /\ Has(t2, k)
  /\ t2' = Push(Purge(t2, k), k, NewEntry(op, t2.map[k]))
  /\ NoEviction
  /\ UNCHANGED <<t1, b1, b2, p>>

Cached(k) == Has(t1, k) \/ Has(t2, k)

\* A slip: p is not cut at Capacity.
UnclampedGrownP ==
  p + (IF Size(b1) >= Size(b2) THEN 1 ELSE Size(b2) \div Size(b1))

\* The adaptation of p on a ghost hit.
GrownP ==
  LET delta == IF Size(b1) >= Size(b2) THEN 1 ELSE Size(b2) \div Size(b1)
  IN  IF p + delta > Capacity THEN Capacity ELSE p + delta

ShrunkP ==
  LET delta == IF Size(b2) >= Size(b1) THEN 1 ELSE Size(b1) \div Size(b2)
  IN  IF p - delta > 0 THEN p - delta ELSE 0

\* A slip: the ghost is left in b1.
HitB1KeepsGhost(k, op) ==
  /\ ~Cached(k) /\ Has(b1, k)
  /\ p' = GrownP
  /\ EvictReplaced(k, GrownP)
  /\ LET s == REPLACE(lists, k, GrownP)
     IN  Become([s EXCEPT !.t2 = Push(@, k, NewEntry(op, "absent"))])

\* Case II: a hit in b1.
HitB1(k, op) ==
  /\ ~Cached(k) /\ Has(b1, k)
  /\ p' = GrownP
  /\ EvictReplaced(k, GrownP)
  /\ LET s == REPLACE(lists, k, GrownP)
     IN  Become([s EXCEPT !.b1 = Purge(@, k),
                          !.t2 = Push(@, k, NewEntry(op, "absent"))])

\* Case III: a hit in b2.
HitB2(k, op) ==
  /\ ~Cached(k) /\ ~Has(b1, k) /\ Has(b2, k)
  /\ p' = ShrunkP
  /\ EvictReplaced(k, ShrunkP)
  /\ LET s == REPLACE(lists, k, ShrunkP)
     IN  Become([s EXCEPT !.b2 = Purge(@, k),
                          !.t2 = Push(@, k, NewEntry(op, "absent"))])

\* Case IV: k is in none of the lists, and goes to t1 after ...
Miss(k) == ~Cached(k) /\ ~Has(b1, k) /\ ~Has(b2, k)
L1 == Size(t1) + Size(b1)
Total == Size(t1) + Size(t2) + Size(b1) + Size(b2)

MissTo(s, k, op) == Become([s EXCEPT !.t1 = Push(@, k, NewEntry(op, "absent"))])

\* ... the oldest ghost of b1 is dropped and a page replaced,
MissDropB1(k, op) ==
  /\ Miss(k) /\ L1 = Capacity /\ Size(t1) < Capacity
  /\ EvictReplaced(k, p)
  /\ MissTo(REPLACE([lists EXCEPT !.b1 = Purge(@, LRU(@))], k, p), k, op)
  /\ UNCHANGED p

\* ... the LRU page of t1 is evicted and leaves no ghost,
MissDropT1(k, op) ==
  /\ Miss(k) /\ L1 = Capacity /\ ~(Size(t1) < Capacity)
  /\ Evict(t1)
  /\ MissTo([lists EXCEPT !.t1 = Purge(@, LRU(@))], k, op)
  /\ UNCHANGED p

\* A slip: no ghost of b2 is dropped.
MissReplaceNoDrop(k, op) ==
  /\ Miss(k) /\ L1 < Capacity /\ Total >= Capacity
  /\ EvictReplaced(k, p)
  /\ MissTo(REPLACE(lists, k, p), k, op)
  /\ UNCHANGED p

\* A slip: a page is replaced one access too early.
MissReplaceEarly(k, op) ==
  /\ Miss(k) /\ L1 < Capacity /\ Total > 0 /\ Total >= Capacity - 1
  /\ EvictReplaced(k, p)
  /\ MissTo(REPLACE(lists, k, p), k, op)
  /\ UNCHANGED p

\* ... a page is replaced, the oldest ghost of b2 dropped first if all the
\* lists together are full,
MissReplace(k, op) ==
  /\ Miss(k) /\ L1 < Capacity /\ Total >= Capacity
  /\ EvictReplaced(k, p)
  /\ LET s == IF Total = 2 * Capacity
                THEN [lists EXCEPT !.b2 = Purge(@, LRU(@))]
                ELSE lists
     IN  MissTo(REPLACE(s, k, p), k, op)
  /\ UNCHANGED p

\* ... or nothing else, while there is room.
MissRoom(k, op) ==
  /\ Miss(k) /\ L1 < Capacity /\ Total < Capacity
  /\ NoEviction
  /\ MissTo(lists, k, op)
  /\ UNCHANGED p

access(k, op) ==
  \/ HitT1(k, op) \/ HitT2(k, op)
  \/ HitB1(k, op) \/ HitB2(k, op)
  \/ MissDropB1(k, op) \/ MissDropT1(k, op)
  \/ MissReplace(k, op) \/ MissRoom(k, op)

Next == \E k \in Page, op \in Op : access(k, op)

Spec == Init /\ [][Next]_vars
-----------------------------------------------------------------------------
IsList(l) == l \in [key : Seq(Page), map : [Page -> Entry]]

TypeOK ==
  /\ IsList(t1) /\ IsList(t2) /\ IsList(b1) /\ IsList(b2)
  /\ p \in 0..Capacity
  /\ flushed \in SUBSET Page
  /\ totalEvictedCleanPages \in Nat
  /\ totalNonSeqEvictedDirtyPages \in Nat

(***************************************************************************)
(* Each list matches its map, a page is held once, in t1 or in t2, and a   *)
(* key is a ghost once, in b1 or in b2, although REPLACE pushes the key    *)
(* being accessed a second time on a list that may still hold it, and      *)
(* although a key may at the same time be held and be a ghost.             *)
(***************************************************************************)
ListsConsistent ==
  /\ Linked(t1.key, t1.map) /\ Linked(t2.key, t2.map)
  /\ Linked(b1.key, b1.map) /\ Linked(b2.key, b2.map)
  /\ \A k \in Page : ~(Has(t1, k) /\ Has(t2, k)) /\ ~(Has(b1, k) /\ Has(b2, k))

(***************************************************************************)
(* The four asserts that access() begins with.                             *)
(***************************************************************************)
SizesWithinBounds ==
  /\ Size(t1) + Size(t2) <= Capacity
  /\ Total <= 2 * Capacity
  /\ L1 <= Capacity
  /\ Size(t2) + Size(b2) <= 2 * Capacity

(***************************************************************************)
(* No access can take the LRU element of an empty list: the asserts on     *)
(* itLRU in Case IV and in REPLACE hold whatever page comes next.          *)
(***************************************************************************)
ReplaceFindsVictim(k, q) ==
  IF FromT1(k, q) THEN t1.key # <<>> ELSE t2.key # <<>>

VictimsExist ==
  \A k \in Page :
    /\ ~Cached(k) /\ Has(b1, k) => ReplaceFindsVictim(k, GrownP)
    /\ ~Cached(k) /\ ~Has(b1, k) /\ Has(b2, k) => ReplaceFindsVictim(k, ShrunkP)
    /\ Miss(k) /\ L1 = Capacity /\ Size(t1) < Capacity =>
         b1.key # <<>> /\ ReplaceFindsVictim(k, p)
    /\ Miss(k) /\ L1 = Capacity /\ Size(t1) >= Capacity => t1.key # <<>>
    /\ Miss(k) /\ L1 < Capacity /\ Total >= Capacity => ReplaceFindsVictim(k, p)
    /\ Miss(k) /\ L1 < Capacity /\ Total = 2 * Capacity => b2.key # <<>>

(***************************************************************************)
(* A page is evicted only out of a full cache: the number of pages held    *)
(* never goes down, and grows on every miss until it is the capacity. Case *)
(* IV decides by the sizes of all four lists, not by the pages held.       *)
(***************************************************************************)
NoEarlyEviction ==
  [][\A k \in Page :
       Cached(k) /\ ~Cached(k)' =>
         /\ Size(t1) + Size(t2) = Capacity
         /\ (Size(t1) + Size(t2) = Capacity)']_vars

(***************************************************************************)
(* No write is lost while pages move between t1 and t2 or are replaced.    *)
(***************************************************************************)
WBC == INSTANCE WriteBackCache
         WITH cached <- Keys(t1.map) \cup Keys(t2.map),
              pending <- DirtyKeys(t1.map) \cup DirtyKeys(t2.map)

ImplementsWriteBack == WBC!WBSpec
=============================================================================
