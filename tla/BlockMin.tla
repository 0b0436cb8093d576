------------------------------ MODULE BlockMin ------------------------------
(***************************************************************************)
(* BlockMinCache of min.cpp: MIN over blocks of pages. The cache is full   *)
(* by pages; its victim is the block whose next access is furthest away,   *)
(* with all its pages, and may be the block being accessed.                *)
(*                                                                         *)
(* A block of the table always has a page, except inside access() after    *)
(* the block has evicted itself; so {} stands for a block not in the       *)
(* table. The out trace of the first level is open, as recordOutTrace()    *)
(* asserts.                                                                *)
(***************************************************************************)
EXTENDS AccessOrdering

CONSTANT Capacity   \* _capacity, in pages

BlockMinAssumption == Capacity \in Nat \ {0}

VARIABLES hashTable,      \* of accessOrdering
          maxHeap,        \* next accesses of the cached blocks
          key_to_block,   \* the pages cached of each block
          cacheNum        \* the number of pages cached

vars == <<trace, pos, hashTable, maxHeap, key_to_block, cacheNum>>

BlockKey(a) == a.ssdblkno

Init ==
  /\ TraceInit
  /\ hashTable = blockBaseBuild
  /\ maxHeap = <<>>
  /\ key_to_block = [b \in Block |-> {}]
  /\ cacheNum = 0

Current == Front.ssdblkno

\* The heap, the table and the page count as one value, so that the calls of
\* an access compose.
cache == [heap |-> maxHeap, blocks |-> key_to_block, num |-> cacheNum]
Become(s) == maxHeap' = s.heap /\ key_to_block' = s.blocks /\ cacheNum' = s.num

\* A slip: the block accessed again soonest is the victim.
VictimAtEnd(heap) == Len(heap)

VictimAt(heap) == 1

\* A slip: one page is subtracted for the victim.
EvictedUncounted(s) ==
  LET b == s.heap[VictimAt(s.heap)].key
  IN  [heap |-> IF b = Current THEN s.heap ELSE HeapErase(s.heap, VictimAt(s.heap)),
       blocks |-> [s.blocks EXCEPT ![b] = {}], num |-> s.num - 1]

\* A slip: a block that evicts itself loses its heap entry.
EvictedOwnEntry(s) ==
  LET b == s.heap[VictimAt(s.heap)].key
  IN  [heap |-> HeapErase(s.heap, VictimAt(s.heap)),
       blocks |-> [s.blocks EXCEPT ![b] = {}],
       num |-> s.num - Cardinality(s.blocks[b])]

\* evict(): the victim, the first block of the heap, is emptied and, unless it
\* is the current one, removed from the heap.
Evicted(s) ==
  LET b == s.heap[VictimAt(s.heap)].key
  IN  [heap |-> IF b = Current THEN s.heap ELSE HeapErase(s.heap, VictimAt(s.heap)),
       blocks |-> [s.blocks EXCEPT ![b] = {}],
       num |-> s.num - Cardinality(s.blocks[b])]

MadeRoom == IF cacheNum = Capacity THEN Evicted(cache) ELSE cache
EvictsItself == cacheNum = Capacity /\ maxHeap[VictimAt(maxHeap)].key = Current

WithPage(s, k) == [s EXCEPT !.blocks[Current] = @ \cup {k}, !.num = @ + 1]

\* A read of a block that is not cached changes nothing.
ReadMiss ==
  /\ ~Finished /\ key_to_block[Current] = {} /\ Front.op = "READ"
  /\ PopFront
  /\ UNCHANGED <<hashTable, maxHeap, key_to_block, cacheNum>>

\* insert(): a block enters with one page, filed under the current line if
\* the line's request goes on.
WriteMiss ==
  /\ ~Finished /\ key_to_block[Current] = {} /\ Front.op = "WRITE"
  /\ \E same \in NextIsSameLine :
       LET line == IF same THEN Front.lineNo
                   ELSE nextAccess(hashTable, Current, Front.lineNo)
           s == WithPage(MadeRoom, Front.fsblkno)
       IN  /\ same \/ ~KeyMissing(hashTable, Current)
           /\ Become([s EXCEPT !.heap = HeapInsert(@, line, Current)])
           /\ hashTable' = IF same THEN hashTable
                           ELSE AfterNextAccess(hashTable, Current, Front.lineNo)
  /\ PopFront

\* The page part of a block hit: a missing page is put in, be it read or
\* written.
AfterPage == IF Front.fsblkno \in key_to_block[Current] THEN cache
             ELSE WithPage(MadeRoom, Front.fsblkno)

SameLineEntries(s) == {i \in 1..Len(s.heap) : s.heap[i].lineNo = Front.lineNo}

\* The entry found for a hit block, if its update is due, is refiled under the
\* next line.
Refiled(s) ==
  [s EXCEPT !.heap =
     HeapInsert(HeapErase(@, Least(SameLineEntries(s))),
                nextAccess(hashTable, Current, Front.lineNo), Current)]

\* A slip: the entry is refiled with every page of a request.
UpdateDueAlways(same) == TRUE

UpdateDue(same) == ~same

BlockHit ==
  /\ ~Finished /\ key_to_block[Current] # {}
  /\ \E same \in NextIsSameLine :
       IF UpdateDue(same)
       THEN /\ ~KeyMissing(hashTable, Current) /\ SameLineEntries(AfterPage) # {}
            /\ Become(Refiled(AfterPage))
            /\ hashTable' = AfterNextAccess(hashTable, Current, Front.lineNo)
       ELSE Become(AfterPage) /\ UNCHANGED hashTable
  /\ PopFront

access == ReadMiss \/ WriteMiss \/ BlockHit

Spec == Init /\ [][access]_vars
-----------------------------------------------------------------------------
(***************************************************************************)
(* The variables hold values of their types, and cacheNum, which access()  *)
(* asserts to be at most the capacity, is.                                 *)
(***************************************************************************)
TypeOK ==
  /\ pos \in 1..(Len(trace) + 1)
  /\ DOMAIN hashTable = Block
  /\ \A i \in DOMAIN maxHeap :
       maxHeap[i] \in [lineNo : 1..INF, key : Block]
  /\ key_to_block \in [Block -> SUBSET Page]
  /\ cacheNum \in 0..Capacity

CachedBlocks == {b \in Block : key_to_block[b] # {}}
CachedPages == {x \in Block \X Page : x[2] \in key_to_block[x[1]]}

(***************************************************************************)
(* cacheNum, by which the cache is full or not, is the number of pages in  *)
(* the blocks, never above the capacity: a victim of several pages is      *)
(* subtracted in one go, and a block may be emptied and refilled by one    *)
(* access. A page is in its own block only.                                *)
(***************************************************************************)
PageCountRight ==
  /\ cacheNum = Cardinality(CachedPages)
  /\ cacheNum <= Capacity
  /\ \A x \in CachedPages : x[1] = BlockOf(x[2])

(***************************************************************************)
(* assert(maxHeap.size() == _key_to_block.size()), and what it is meant to *)
(* say: one heap entry for each cached block, with the line of the block's *)
(* next access. While the request of a line goes on that is the current    *)
(* line. Nothing is required after the last request, behind which the code *)
(* reads an element that does not exist.                                   *)
(***************************************************************************)
HeapMatchesFuture ==
  /\ Len(maxHeap) = Cardinality(CachedBlocks)
  /\ \A b \in CachedBlocks : \E i \in DOMAIN maxHeap :
       /\ maxHeap[i].key = b
       /\ ~Finished => maxHeap[i].lineNo = TrueNext(BlockKey, b)

(***************************************************************************)
(* The assert(0) of nextAccess() for a block that has left the table, and  *)
(* assert(setit != maxHeap.end()) for a hit block without an entry of the  *)
(* current line: no access() that looks into the future fails them, with   *)
(* what is behind the last request read either way.                        *)
(***************************************************************************)
AssertsHold ==
  ~Finished /\ FALSE \in NextIsSameLine =>
    /\ Front.op = "WRITE" \/ key_to_block[Current] # {} =>
         ~KeyMissing(hashTable, Current)
    /\ key_to_block[Current] # {} => SameLineEntries(AfterPage) # {}

(***************************************************************************)
(* "it is possible to evict the same block that currant page blong to it": *)
(* only if no other block is cached, because the current block is the one  *)
(* accessed soonest.                                                       *)
(***************************************************************************)
OthersFirst ==
  ~Finished /\ key_to_block[Current] # {} /\ EvictsItself =>
    CachedBlocks = {Current}
=============================================================================
