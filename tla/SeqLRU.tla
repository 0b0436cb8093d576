------------------------------- MODULE SeqLRU -------------------------------
(***************************************************************************)
(* What the run-flushing LRU policies have in common: lru_ziqi.h,          *)
(* lru_dynamic.h, lru_dynamicB.h, lru_dynamicC.h and lru_hotCold.h differ  *)
(* only in how an eviction changes the threshold, which the modules of     *)
(* those policies pass to SeqEvictTo and LessSeqEvictTo.                   *)
(***************************************************************************)
EXTENDS PageRuns

CONSTANTS NumPages,      \* block numbers, 2^64 in the code
          Op,            \* the request types readTrace() lets through
          Capacity,      \* _capacity
          MaxEvictions   \* bound on the three eviction counters together

ASSUME NumPagesAssumption == NumPages \in Nat \ {0}
ASSUME OpAssumption == Op \subseteq {"READ", "WRITE"}
ASSUME CapacityAssumption == Capacity \in 1..(NumPages - 1)
ASSUME MaxEvictionsAssumption == MaxEvictions \in Nat

Page == 0..(NumPages - 1)

VARIABLES key_tracker,                    \* _key_tracker, LRU page first
          key_to_value,                   \* _key_to_value
          threshold,                      \* the global threshold
          flushed,                        \* logged to DISKSIMINPUTSTREAM
          totalEvictedCleanPages,
          totalSeqEvictedDirtyPages,
          totalNonSeqEvictedDirtyPages

vars == <<key_tracker, key_to_value, threshold, flushed,
          totalEvictedCleanPages, totalSeqEvictedDirtyPages,
          totalNonSeqEvictedDirtyPages>>

InitWith(t) ==
  /\ key_tracker = <<>>
  /\ key_to_value = NoEntries(Page)
  /\ threshold = t
  /\ flushed = {}
  /\ totalEvictedCleanPages = 0
  /\ totalSeqEvictedDirtyPages = 0
  /\ totalNonSeqEvictedDirtyPages = 0

\* The flags stored for an access, on a hit as on a miss: the request's own.
NewEntry(op) == IF op = "WRITE" THEN "dirty" ELSE "clean"

Hit(k, op) ==
  /\ key_to_value[k] # "absent"
  /\ key_tracker' = Append(ListRemove(key_tracker, k), k)
  /\ key_to_value' = MapInsert(MapErase(key_to_value, k), k, NewEntry(op))
  /\ flushed' = {}
  /\ UNCHANGED <<threshold, totalEvictedCleanPages, totalSeqEvictedDirtyPages,
                 totalNonSeqEvictedDirtyPages>>

\* insert() when there is room.
InsertWithRoom(k, op) ==
  /\ key_to_value[k] = "absent"
  /\ MapSize(key_to_value) # Capacity
  /\ key_tracker' = Append(key_tracker, k)
  /\ key_to_value' = MapInsert(key_to_value, k, NewEntry(op))
  /\ flushed' = {}
  /\ UNCHANGED <<threshold, totalEvictedCleanPages, totalSeqEvictedDirtyPages,
                 totalNonSeqEvictedDirtyPages>>

\* insert() into a full cache, up to the call of evict().
MustEvict(k) ==
  /\ key_to_value[k] = "absent"
  /\ MapSize(key_to_value) = Capacity
  /\ totalEvictedCleanPages + totalSeqEvictedDirtyPages
       + totalNonSeqEvictedDirtyPages < MaxEvictions

\* A slip: the list is left as it is when a run is removed.
RemoveAndRecordMapOnly(R, k, op) ==
  /\ key_tracker' = Append(ListRemove(key_tracker, Head(key_tracker)), k)
  /\ key_to_value' = MapInsert(MapEraseAll(key_to_value, R), k, NewEntry(op))

\* remove() of the pages in R, and then the rest of insert().
RemoveAndRecord(R, k, op) ==
  /\ key_tracker' = Append(ListErase(key_tracker, R), k)
  /\ key_to_value' = MapInsert(MapEraseAll(key_to_value, R), k, NewEntry(op))

\* evict() when the LRU page is clean.
EvictClean(k, op) ==
  /\ MustEvict(k)
  /\ key_to_value[Head(key_tracker)] # "dirty"
  /\ RemoveAndRecord({Head(key_tracker)}, k, op)
  /\ flushed' = {}
  /\ totalEvictedCleanPages' = totalEvictedCleanPages + 1
  /\ UNCHANGED <<threshold, totalSeqEvictedDirtyPages,
                 totalNonSeqEvictedDirtyPages>>

Dirty(k) == DirtyAt(key_to_value, k)

\* A slip: a run must be longer by one.
LongRunAtAboveThreshold ==
  {i \in 1..Len(key_tracker) : /\ Dirty(key_tracker[i])
                               /\ SeqLength(key_to_value, key_tracker[i]) > threshold + 1}

\* The positions of the tracker whose page is in a run above the threshold.
LongRunAt ==
  {i \in 1..Len(key_tracker) : /\ Dirty(key_tracker[i])
                               /\ SeqLength(key_to_value, key_tracker[i]) > threshold - 1}

\* The first one that the for loop of evict() meets.
FirstLongRun ==
  key_tracker[CHOOSE i \in LongRunAt : \A j \in LongRunAt : i <= j]

\* evict() when the LRU page is dirty and there is a run above the threshold.
SeqEvictTo(t, k, op) ==
  /\ MustEvict(k)
  /\ Dirty(Head(key_tracker))
  /\ LongRunAt # {}
  /\ RemoveAndRecord(Run(key_to_value, FirstLongRun), k, op)
  /\ flushed' = Run(key_to_value, FirstLongRun)
  /\ threshold' = t
  /\ totalSeqEvictedDirtyPages' =
       totalSeqEvictedDirtyPages + SeqLength(key_to_value, FirstLongRun)
  /\ UNCHANGED <<totalEvictedCleanPages, totalNonSeqEvictedDirtyPages>>

\* evict() when there is none: the LRU page goes with the run it is in.
LessSeqEvictTo(t, k, op) ==
  /\ MustEvict(k)
  /\ Dirty(Head(key_tracker))
  /\ LongRunAt = {}
  /\ RemoveAndRecord(Run(key_to_value, Head(key_tracker)), k, op)
  /\ flushed' = Run(key_to_value, Head(key_tracker))
  /\ threshold' = t
  /\ totalNonSeqEvictedDirtyPages' =
       totalNonSeqEvictedDirtyPages + SeqLength(key_to_value, Head(key_tracker))
  /\ UNCHANGED <<totalEvictedCleanPages, totalSeqEvictedDirtyPages>>
-----------------------------------------------------------------------------
TypeOK ==
  /\ key_tracker \in Seq(Page)
  /\ key_to_value \in [Page -> Entry]
  /\ threshold \in Nat
  /\ flushed \in SUBSET Page
  /\ totalEvictedCleanPages \in Nat
  /\ totalSeqEvictedDirtyPages \in Nat
  /\ totalNonSeqEvictedDirtyPages \in Nat

(***************************************************************************)
(* The state is well typed, and the recency list and the page table        *)
(* describe the same pages although a run is taken out of the middle of    *)
(* both, page by page, from a position that need not be the LRU one; and   *)
(* an eviction always makes room.                                          *)
(***************************************************************************)
Consistent ==
  /\ TypeOK
  /\ Linked(key_tracker, key_to_value)
  /\ Len(key_tracker) <= Capacity

\* The runs of dirty pages of the cache that reach the threshold.
LongRuns ==
  {R \in SUBSET DirtyKeys(key_to_value) :
     IsDirtyRun(key_to_value, R) /\ Cardinality(R) >= threshold}

(***************************************************************************)
(* The README on lru-ziqi: "If the victim is clean, evict it. If the       *)
(* victim is dirty, evict consecutive dirty pages whose length is above    *)
(* the threshold. If none is bigger the threshold, evict the first dirty   *)
(* page along with its consecutive dirty ones." So a flush happens only    *)
(* when the LRU page is dirty, and it is one whole run (no dirty page      *)
(* adjoins it): if some run reaches the threshold, one that does and that  *)
(* holds the page nearest to the LRU end which is in any such run;         *)
(* otherwise the run of the LRU page.                                      *)
(***************************************************************************)
FlushesAWholeRun ==
  [][flushed' # {} =>
       /\ Dirty(key_tracker[1])
       /\ IsWholeRun(key_to_value, flushed')
       /\ IF LongRuns = {} THEN key_tracker[1] \in flushed'
          ELSE /\ Cardinality(flushed') >= threshold
               /\ \E i \in DOMAIN key_tracker :
                    /\ key_tracker[i] \in flushed'
                    /\ \A j \in 1..(i - 1) : key_tracker[j] \notin UNION LongRuns]_vars

(***************************************************************************)
(* lru_stl.h on a hit: "find out the original page's dirty bit status ...  *)
(* and add it to new value". A page stops being dirty only when it is      *)
(* logged.                                                                 *)
(***************************************************************************)
DirtyUntilFlushed ==
  [][\A k \in Page : Dirty(k) /\ ~DirtyAt(key_to_value', k) => k \in flushed']_vars
=============================================================================
