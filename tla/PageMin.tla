------------------------------ MODULE PageMin -------------------------------
(***************************************************************************)
(* PageMinCache of min.cpp: Belady's MIN over pages, as a write buffer. A  *)
(* page enters on a write only, and the page whose next access is furthest *)
(* away is evicted.                                                        *)
(*                                                                         *)
(* At the second level of the hierarchy the cache sees only the requests   *)
(* that the first level misses. The first level modelled is a PureLRUCache *)
(* of UpperCapacity pages, which holds the UpperCapacity pages requested   *)
(* last (MCPureLRU!StackProperty). Whether there is a level above, and so   *)
(* upperCapacity pages in it, or none, is chosen initially.                *)
(*                                                                         *)
(* The out trace of the first level is open, as recordOutTrace() asserts.  *)
(***************************************************************************)
EXTENDS AccessOrdering

CONSTANTS Capacity,        \* _capacity
          UpperCapacity    \* of the level above, if there is one

PageMinAssumption == Capacity \in Nat \ {0} /\ UpperCapacity \in Nat

VARIABLES upperCapacity,  \* UpperCapacity, or 0 at the first level
          hashTable,      \* of accessOrdering
          maxHeap,        \* next accesses of the cached pages
          key_to_value,   \* the pages cached
          upper,          \* the pages of the level above, LRU page first
          hits,           \* page hits so far
          aborted         \* an assert has failed

vars == <<trace, pos, upperCapacity, hashTable, maxHeap, key_to_value, upper,
          hits, aborted>>

PageKey(a) == a.fsblkno

Init ==
  /\ TraceInit
  /\ upperCapacity \in {0, UpperCapacity}
  /\ hashTable = pageBaseBuild
  /\ maxHeap = <<>>
  /\ key_to_value = {}
  /\ upper = <<>>
  /\ hits = 0
  /\ aborted = FALSE

\* The level above after a request for k.
AboveAfter(k) ==
  LET q == Append(ListRemove(upper, k), k)
  IN  IF Len(q) > upperCapacity THEN Tail(q) ELSE q

Above == {upper[i] : i \in 1..Len(upper)}

\* One turn of the simulation loop that reaches this cache.
Running == ~aborted /\ ~Finished /\ Front.fsblkno \notin Above
Served ==
  PopFront /\ upper' = AboveAfter(Front.fsblkno) /\ UNCHANGED upperCapacity

\* A read that misses changes nothing.
ReadMiss ==
  /\ Running /\ Front.fsblkno \notin key_to_value /\ Front.op = "READ"
  /\ Served
  /\ UNCHANGED <<hashTable, maxHeap, key_to_value, hits, aborted>>

\* A slip: the page accessed again soonest is the victim.
VictimSoonest == Len(maxHeap)

VictimAt == 1

Victim == maxHeap[VictimAt].key

\* A slip: the victim's heap entry stays.
AfterEvictStaleHeap == [heap |-> maxHeap, pages |-> key_to_value \ {Victim}]

\* evict(): the first element of the heap and its page are erased.
AfterEvict ==
  [heap |-> HeapErase(maxHeap, VictimAt), pages |-> key_to_value \ {Victim}]

\* insert(), which evicts from a full cache first.
WriteMiss ==
  LET k == Front.fsblkno
      s == IF Cardinality(key_to_value) = Capacity
           THEN AfterEvict ELSE [heap |-> maxHeap, pages |-> key_to_value]
  IN  /\ Running /\ k \notin key_to_value /\ Front.op = "WRITE"
      /\ ~KeyMissing(hashTable, k)
      /\ key_to_value' = s.pages \cup {k}
      /\ maxHeap' = HeapInsert(s.heap, nextAccess(hashTable, k, Front.lineNo), k)
      /\ hashTable' = AfterNextAccess(hashTable, k, Front.lineNo)
      /\ Served
      /\ UNCHANGED <<hits, aborted>>

\* The heap entry of a page that is hit, filed under the current line.
Entries(k) == {i \in 1..Len(maxHeap) :
                 maxHeap[i].key = k /\ maxHeap[i].lineNo = Front.lineNo}

\* A slip: a read hit leaves the heap alone.
HitNoUpdate ==
  /\ Running /\ Front.fsblkno \in key_to_value
  /\ hits' = hits + 1
  /\ Served
  /\ UNCHANGED <<hashTable, maxHeap, key_to_value, aborted>>

Hit ==
  LET k == Front.fsblkno
  IN  /\ Running /\ k \in key_to_value
      /\ ~KeyMissing(hashTable, k) /\ Entries(k) # {}
      /\ maxHeap' = HeapInsert(HeapErase(maxHeap, Least(Entries(k))),
                               nextAccess(hashTable, k, Front.lineNo), k)
      /\ hashTable' = AfterNextAccess(hashTable, k, Front.lineNo)
      /\ hits' = hits + 1
      /\ Served
      /\ UNCHANGED <<key_to_value, aborted>>

\* assert(0) in nextAccess() and on a hit whose entry is not found.
Abort ==
  LET k == Front.fsblkno
  IN  /\ Running
      /\ \/ k \in key_to_value /\ (KeyMissing(hashTable, k) \/ Entries(k) = {})
         \/ k \notin key_to_value /\ Front.op = "WRITE" /\ KeyMissing(hashTable, k)
      /\ aborted' = TRUE
      /\ UNCHANGED <<trace, pos, upperCapacity, hashTable, maxHeap, key_to_value,
                     upper, hits>>

\* The level above satisfies the request: the loop over the levels ends.
SatisfiedAbove ==
  /\ ~aborted /\ ~Finished /\ Front.fsblkno \in Above
  /\ Served
  /\ UNCHANGED <<hashTable, maxHeap, key_to_value, hits, aborted>>

access == ReadMiss \/ WriteMiss \/ Hit \/ Abort

Next == access \/ SatisfiedAbove

Spec == Init /\ [][Next]_vars
-----------------------------------------------------------------------------
(***************************************************************************)
(* The variables hold values of their types, and the cache never holds     *)
(* more pages than its capacity.                                           *)
(***************************************************************************)
TypeOK ==
  /\ pos \in 1..(Len(trace) + 1)
  /\ upperCapacity \in {0, UpperCapacity}
  /\ DOMAIN hashTable = Page
  /\ \A i \in DOMAIN maxHeap :
       maxHeap[i] \in [lineNo : 1..INF, key : Page]
  /\ key_to_value \in SUBSET Page /\ Cardinality(key_to_value) <= Capacity
  /\ Above \subseteq Page /\ Len(upper) <= upperCapacity
  /\ hits \in 0..Len(trace)
  /\ aborted \in BOOLEAN

(***************************************************************************)
(* The heap has one entry for every cached page and no other, which        *)
(* evict() relies on when it looks its victim up, at any level.            *)
(***************************************************************************)
HeapCoversCache ==
  /\ Len(maxHeap) = Cardinality(key_to_value)
  /\ {maxHeap[i].key : i \in DOMAIN maxHeap} = key_to_value

(***************************************************************************)
(* At the first level, each entry has the line of its page's next access   *)
(* in the rest of the trace, although the code replaces one entry per      *)
(* access only, found under the line number it was filed with accesses     *)
(* ago. Two pages of one request have the same line.                       *)
(***************************************************************************)
HeapMatchesFuture ==
  upperCapacity = 0 =>
    \A i \in DOMAIN maxHeap :
      maxHeap[i].lineNo = TrueNext(PageKey, maxHeap[i].key)

(***************************************************************************)
(* At the first level, the asserts of access(), and of nextAccess() for a  *)
(* key whose last access has been handed out and that is no longer in the  *)
(* table.                                                                  *)
(***************************************************************************)
AssertsHold == upperCapacity = 0 => ~aborted

(***************************************************************************)
(* The most hits that any replacement policy for a write buffer can have   *)
(* from the i-th request on, with the pages C cached.                      *)
(***************************************************************************)
BestHits(t, from, cached) ==
  LET Largest(S) == CHOOSE x \in S : \A y \in S : y <= x
      best[i \in 1..(Len(t) + 1)] ==
        [C \in SUBSET Page |->
           IF i > Len(t) THEN 0
           ELSE LET k == t[i].fsblkno
                IN  IF k \in C THEN 1 + best[i + 1][C]
                    ELSE IF t[i].op = "READ" THEN best[i + 1][C]
                    ELSE IF Cardinality(C) < Capacity THEN best[i + 1][C \cup {k}]
                    ELSE Largest({best[i + 1][(C \ {v}) \cup {k}] : v \in C})]
  IN  best[from][cached]

(***************************************************************************)
(* The point of MIN: no decision taken so far has cost a hit, whatever any *)
(* other policy would have evicted. It holds at the first level, for       *)
(* traces of writes of one page each. The pages of a longer request are in *)
(* the heap under one line: they are evicted in the order of their         *)
(* insertion, not from the one accessed last.                              *)
(***************************************************************************)
SinglePageWrites ==
  /\ \A i \in DOMAIN trace : trace[i].op = "WRITE"
  /\ \A i, j \in DOMAIN trace : trace[i].lineNo = trace[j].lineNo => i = j

Optimal ==
  upperCapacity = 0 /\ SinglePageWrites =>
    hits + BestHits(trace, pos, key_to_value) = BestHits(trace, 1, {})
=============================================================================
