-------------------------------- MODULE Owbp --------------------------------
(***************************************************************************)
(* OwbpCache of owbp.cpp: a write buffer of blocks that evicts the coldest *)
(* block, the one with the most pages that are not accessed again within   *)
(* a window of the future. Blocks not accessed again at all within the     *)
(* window are in victimPull and go first, the lowest block number first.   *)
(*                                                                         *)
(* A block of blkID_2_DS always has a page, except inside access() after   *)
(* the block has evicted itself; so {} stands for a block not in the map.  *)
(* The coldHeap element of a block is found by its BlkID, as the REQSIZE   *)
(* build does. The out trace is open, as recordOutTrace() asserts.         *)
(***************************************************************************)
EXTENDS AccessOrdering

CONSTANTS Capacity,           \* _capacity, in pages
          futureWindowSize    \* in distinct pages

OwbpAssumption == Capacity \in Nat \ {0} /\ futureWindowSize \in Nat \ {0}

VARIABLES pageSet,       \* of each block
          coldPageSet,   \* of each block
          distance,      \* meta.distance of each block: a line number, or INF
          coldHeap,      \* multiset of block metadata, in its order
          victimPull,    \* the blocks not accessed again
          currSize       \* the number of pages cached

vars == <<trace, pos, pageSet, coldPageSet, distance, coldHeap, victimPull,
          currSize>>

Init ==
  /\ TraceInit
  /\ pageSet = [b \in Block |-> {}]
  /\ coldPageSet = [b \in Block |-> {}]
  /\ distance = [b \in Block |-> 0]
  /\ coldHeap = <<>>
  /\ victimPull = {}
  /\ currSize = 0

Current == Front.ssdblkno
k == Front.fsblkno

\* The cache as one value, so that the calls of an access compose.
cache == [pages |-> pageSet, cold |-> coldPageSet, dist |-> distance,
          heap |-> coldHeap, pull |-> victimPull, size |-> currSize]
Become(s) ==
  /\ pageSet' = s.pages /\ coldPageSet' = s.cold /\ distance' = s.dist
  /\ coldHeap' = s.heap /\ victimPull' = s.pull /\ currSize' = s.size
-----------------------------------------------------------------------------
\* updateMetaDataOnPageInsert() looks at the requests behind the front one, up
\* to the page's next access or a window full of distinct pages.
DistinctUpTo(j) == Cardinality({trace[i].fsblkno : i \in (pos + 1)..j})
Stops(j) == trace[j].fsblkno = k \/ DistinctUpTo(j) >= futureWindowSize - 1
Window == {j \in (pos + 1)..Len(trace) : \A i \in (pos + 1)..(j - 1) : ~Stops(i)}

\* assert(tempFsblkno && tempLineNo) of each request looked at.
ScanAsserts == \A j \in Window : trace[j].fsblkno # 0

PageInWindow == \E j \in Window : trace[j].fsblkno = k
BlockInWindow == {j \in Window : trace[j].ssdblkno = Current}

\* A slip: a page that turns cold is not noted.
UpdatedNeverCold(s) ==
  [s EXCEPT !.cold[Current] = IF PageInWindow THEN @ \ {k} ELSE @,
            !.dist[Current] = IF BlockInWindow = {} THEN INF
                              ELSE trace[Least(BlockInWindow)].lineNo]

Updated(s) ==
  [s EXCEPT !.cold[Current] = IF PageInWindow THEN @ \ {k} ELSE @ \cup {k},
            !.dist[Current] = IF BlockInWindow = {} THEN INF
                              ELSE trace[Least(BlockInWindow)].lineNo]
-----------------------------------------------------------------------------
(* multiset<OwbpCacheBlockMetaData, CompOwbpCacheBlockMetaData>: ascending  *)
(* coldness, then distance, and equal ones in the order of their insertion. *)

meta(s, b) == [coldPageCounter |-> Cardinality(s.cold[b]),
               distance |-> s.dist[b], BlkID |-> b]

Before(x, y) ==
  IF x.coldPageCounter # y.coldPageCounter
  THEN x.coldPageCounter < y.coldPageCounter ELSE x.distance < y.distance

ColdInsert(heap, m) ==
  LET n == Cardinality({i \in DOMAIN heap : ~Before(m, heap[i])})
  IN  SubSeq(heap, 1, n) \o <<m>> \o SubSeq(heap, n + 1, Len(heap))

\* Where coldHeapIt of a block points: at its element, or at the end if it has
\* none.
coldHeapIt(heap, b) == {i \in DOMAIN heap : heap[i].BlkID = b}

Unfiled(s, b) ==
  IF coldHeapIt(s.heap, b) = {} THEN [s EXCEPT !.pull = @ \ {b}]
  ELSE [s EXCEPT !.heap = HeapErase(@, Least(coldHeapIt(@, b)))]

\* A slip: a block that is no longer accessed keeps its place in the heap.
FiledInHeap(s, b) ==
  IF s.dist[b] = INF /\ coldHeapIt(s.heap, b) # {} THEN s
  ELSE IF s.dist[b] = INF THEN [Unfiled(s, b) EXCEPT !.pull = @ \cup {b}]
  ELSE [Unfiled(s, b) EXCEPT !.heap = ColdInsert(@, meta(s, b))]

\* The end of insertNewBlk() and of a write hit: the block goes where its new
\* distance says.
Filed(s, b) ==
  IF s.dist[b] = INF
  THEN [Unfiled(s, b) EXCEPT !.pull = @ \cup {b}]
  ELSE [Unfiled(s, b) EXCEPT !.heap = ColdInsert(@, meta(s, b))]
-----------------------------------------------------------------------------
Victim == IF victimPull # {} THEN Least(victimPull)
          ELSE coldHeap[Len(coldHeap)].BlkID

VictimUnfiled(s) ==
  IF s.pull # {} THEN [s EXCEPT !.pull = @ \ {Least(@)}]
  ELSE [s EXCEPT !.heap = HeapErase(@, Len(@))]

\* A slip: one page is subtracted for the victim.
EvictedUncounted(s, current) ==
  LET b == Victim
      t == [s EXCEPT !.size = @ - 1, !.pages[b] = {}]
  IN  IF b = current THEN t ELSE VictimUnfiled([t EXCEPT !.cold[b] = {}])

\* evict(): a block that evicts itself loses its pages but keeps its entries,
\* and its set of cold pages.
Evicted(s, current) ==
  LET b == Victim
      t == [s EXCEPT !.size = @ - Cardinality(s.pages[b]), !.pages[b] = {}]
  IN  IF b = current THEN t ELSE VictimUnfiled([t EXCEPT !.cold[b] = {}])

MadeRoom == IF currSize = Capacity THEN Evicted(cache, Current) ELSE cache

WithPage(s) == [s EXCEPT !.pages[Current] = @ \cup {k}, !.size = @ + 1]

\* A read, hit or miss, changes nothing.
Read ==
  /\ ~Finished /\ Front.op = "READ"
  /\ PopFront
  /\ UNCHANGED <<pageSet, coldPageSet, distance, coldHeap, victimPull, currSize>>

\* The page is not cached; its block may be.
WriteMiss ==
  /\ ~Finished /\ Front.op = "WRITE" /\ k \notin pageSet[Current]
  /\ ScanAsserts
  /\ Become(Filed(Updated(WithPage(MadeRoom)), Current))
  /\ PopFront

WriteHit ==
  /\ ~Finished /\ Front.op = "WRITE" /\ k \in pageSet[Current]
  /\ ScanAsserts
  /\ Become(Filed(Updated(cache), Current))
  /\ PopFront

access == Read \/ WriteMiss \/ WriteHit

Spec == Init /\ [][access]_vars
-----------------------------------------------------------------------------
Cached == {b \in Block : pageSet[b] # {}}
InHeap == {coldHeap[i].BlkID : i \in DOMAIN coldHeap}

(***************************************************************************)
(* The variables hold values of their types, and currSize, which           *)
(* insertNewBlk() asserts to be below the capacity before a page is added, *)
(* is at most the capacity after it.                                       *)
(***************************************************************************)
TypeOK ==
  /\ pos \in 1..(Len(trace) + 1)
  /\ pageSet \in [Block -> SUBSET Page] /\ coldPageSet \in [Block -> SUBSET Page]
  /\ distance \in [Block -> 0..INF]
  /\ victimPull \subseteq Block /\ InHeap \subseteq Block
  /\ currSize \in 0..Capacity

(***************************************************************************)
(* currSize, by which access() decides to evict, is the number of pages in *)
(* the page sets, a block that evicts itself before it takes a page        *)
(* included; and the cold pages that such a block keeps, which are not in  *)
(* the cache any more, do not outlive it.                                  *)
(***************************************************************************)
PagesCounted ==
  /\ currSize = Cardinality({x \in Block \X Page : x[2] \in pageSet[x[1]]})
  /\ \A b \in Block \ Cached : coldPageSet[b] = {}

(***************************************************************************)
(* What access() and evict() assert of the block they look up: each cached *)
(* block is in victimPull or once in coldHeap, as its distance says, no    *)
(* other block is, and the heap's copy of the metadata, which decides the  *)
(* victim, is the block's own.                                             *)
(***************************************************************************)
FiledOnce ==
  /\ InHeap \cap victimPull = {} /\ InHeap \cup victimPull = Cached
  /\ Cardinality(InHeap) = Len(coldHeap)
  /\ \A b \in victimPull : distance[b] = INF
  /\ \A i \in DOMAIN coldHeap :
       coldHeap[i] = meta(cache, coldHeap[i].BlkID) /\ coldHeap[i].distance # INF

(***************************************************************************)
(* While only writes are buffered the metadata of a block stays true as    *)
(* the trace goes on, although it is computed at the block's last write    *)
(* only: its distance is the line of its next access, and a cached page    *)
(* that is not cold is accessed again. A read would move the front past    *)
(* an access without an update.                                            *)
(***************************************************************************)
MetadataStaysTrue ==
  (\A i \in DOMAIN trace : trace[i].op = "WRITE") =>
    \A b \in Cached :
      /\ distance[b] # INF => distance[b] = TrueNext(LAMBDA a : a.ssdblkno, b)
      /\ \A q \in pageSet[b] \ coldPageSet[b] :
           \E i \in pos..Len(trace) : trace[i].fsblkno = q
=============================================================================
