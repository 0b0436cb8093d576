------------------------------ MODULE PureLRU -------------------------------
(***************************************************************************)
(* PureLRUCache of lru_pure.h: write-back LRU, one victim at a time.       *)
(*                                                                         *)
(* One step is one call of access(k, value, op). A dirty victim is logged  *)
(* to the DiskSim input trace, which the model keeps as the set `flushed'  *)
(* of the pages logged by the last access, after recordOutTrace() has      *)
(* asserted that the first level's out trace is open. That stream is       *)
(* opened only if the configuration names an outTraceFile.                 *)
(***************************************************************************)
EXTENDS StdContainers

CONSTANTS Page,          \* fsblkno of the requests in the trace
          Op,            \* the request types readTrace() lets through
          Capacity,      \* _capacity
          MaxEvictions   \* bound on the two eviction counters together

ASSUME PageAssumption == IsFiniteSet(Page)
ASSUME OpAssumption == Op \subseteq {"READ", "WRITE"}
ASSUME CapacityAssumption == Capacity \in Nat \ {0}
ASSUME MaxEvictionsAssumption == MaxEvictions \in Nat

VARIABLES key_tracker,                    \* _key_tracker, LRU page first
          key_to_value,                   \* _key_to_value
          flushed,                        \* logged to DISKSIMINPUTSTREAM
          totalEvictedCleanPages,
          totalNonSeqEvictedDirtyPages,
          outTraceOpen,                   \* outTraceStream[0].is_open()
          aborted                         \* an assert has failed

vars == <<key_tracker, key_to_value, flushed, totalEvictedCleanPages,
          totalNonSeqEvictedDirtyPages, outTraceOpen, aborted>>

Init ==
  /\ key_tracker = <<>>
  /\ key_to_value = NoEntries(Page)
  /\ flushed = {}
  /\ totalEvictedCleanPages = 0
  /\ totalNonSeqEvictedDirtyPages = 0
  /\ outTraceOpen \in BOOLEAN
  /\ aborted = FALSE

\* Slips: a read hit forgets that the page was dirty; the request's type is
\* stored and DIRTY never set.
EntryClearedByRead(op, old) == IF op = "WRITE" THEN "dirty" ELSE "clean"
EntryRequestType(op, old) == op

\* The flags stored for an access: a write sets DIRTY, and so does an old
\* entry that had it.
NewEntry(op, old) == IF op = "WRITE" \/ old = "dirty" THEN "dirty" ELSE "clean"

\* A slip: the page is not removed from its old place in the tracker.
HitListedTwice(k, op) ==
  /\ key_to_value[k] # "absent"
  /\ key_tracker' = Append(key_tracker, k)
  /\ key_to_value' = [key_to_value EXCEPT ![k] = NewEntry(op, @)]
  /\ flushed' = {}
  /\ UNCHANGED <<totalEvictedCleanPages, totalNonSeqEvictedDirtyPages,
                 outTraceOpen, aborted>>

\* A slip: the page is not moved to the back of the tracker.
HitNotMoved(k, op) ==
  /\ key_to_value[k] # "absent"
  /\ key_to_value' = [key_to_value EXCEPT ![k] = NewEntry(op, @)]
  /\ flushed' = {}
  /\ UNCHANGED <<key_tracker, totalEvictedCleanPages,
                 totalNonSeqEvictedDirtyPages, outTraceOpen, aborted>>

Hit(k, op) ==
  /\ key_to_value[k] # "absent"
  /\ key_tracker' = Append(ListRemove(key_tracker, k), k)
  /\ key_to_value' = MapInsert(MapErase(key_to_value, k), k,
                               NewEntry(op, key_to_value[k]))
  /\ flushed' = {}
  /\ UNCHANGED <<totalEvictedCleanPages, totalNonSeqEvictedDirtyPages,
                 outTraceOpen, aborted>>

\* insert() when there is room.
Insert(k, op) ==
  /\ key_to_value[k] = "absent"
  /\ MapSize(key_to_value) # Capacity
  /\ key_tracker' = Append(key_tracker, k)
  /\ key_to_value' = MapInsert(key_to_value, k, NewEntry(op, "absent"))
  /\ flushed' = {}
  /\ UNCHANGED <<totalEvictedCleanPages, totalNonSeqEvictedDirtyPages,
                 outTraceOpen, aborted>>

\* A slip: the back of the tracker is taken.
VictimMRU == key_tracker[Len(key_tracker)]

\* The page at the front of the tracker, which evict() hands to remove().
Victim == Head(key_tracker)

RecordOutTraceFails == key_to_value[Victim] = "dirty" /\ ~outTraceOpen

\* insert() into a full cache: evict() and remove() first.
EvictInsert(k, op) ==
  /\ key_to_value[k] = "absent"
  /\ MapSize(key_to_value) = Capacity
  /\ ~RecordOutTraceFails
  /\ totalEvictedCleanPages + totalNonSeqEvictedDirtyPages < MaxEvictions
  /\ key_tracker' = Append(ListRemove(key_tracker, Victim), k)
  /\ key_to_value' = MapInsert(MapErase(key_to_value, Victim), k,
                               NewEntry(op, "absent"))
  /\ \/ /\ key_to_value[Victim] = "dirty"
        /\ flushed' = {Victim}
        /\ totalNonSeqEvictedDirtyPages' = totalNonSeqEvictedDirtyPages + 1
        /\ UNCHANGED totalEvictedCleanPages
     \/ /\ key_to_value[Victim] = "clean"
        /\ flushed' = {}
        /\ totalEvictedCleanPages' = totalEvictedCleanPages + 1
        /\ UNCHANGED totalNonSeqEvictedDirtyPages
  /\ UNCHANGED <<outTraceOpen, aborted>>

\* The assert(0) of recordOutTrace() ends the run before anything is erased.
Abort(k) ==
  /\ key_to_value[k] = "absent"
  /\ MapSize(key_to_value) = Capacity
  /\ RecordOutTraceFails
  /\ aborted' = TRUE
  /\ flushed' = {}
  /\ UNCHANGED <<key_tracker, key_to_value, totalEvictedCleanPages,
                 totalNonSeqEvictedDirtyPages, outTraceOpen>>

access(k, op) ==
  /\ ~aborted
  /\ \/ Hit(k, op)
     \/ Insert(k, op)
     \/ EvictInsert(k, op)
     \/ Abort(k)

Next == \E k \in Page, op \in Op : access(k, op)

Spec == Init /\ [][Next]_vars
-----------------------------------------------------------------------------
TypeOK ==
  /\ key_tracker \in Seq(Page)
  /\ key_to_value \in [Page -> Entry]
  /\ flushed \in SUBSET Page
  /\ totalEvictedCleanPages \in Nat
  /\ totalNonSeqEvictedDirtyPages \in Nat
  /\ outTraceOpen \in BOOLEAN
  /\ aborted \in BOOLEAN

(***************************************************************************)
(* The recency list and the page table are updated by separate calls       *)
(* (erase/remove, then two inserts) and must describe the same pages, each *)
(* listed once, and never more than the capacity: this is what the asserts *)
(* of access(), insert(), evict() and remove() rely on.                    *)
(***************************************************************************)
Consistent ==
  /\ Linked(key_tracker, key_to_value)
  /\ Len(key_tracker) <= Capacity

(***************************************************************************)
(* The README on lru-pure: "Only flush back one dirty page on the LRU      *)
(* position, when cache is full." A step that logs pages to DiskSim logs   *)
(* the front page of the tracker alone, which was dirty, leaves the cache, *)
(* and the cache was full.                                                 *)
(***************************************************************************)
FlushesOnlyTheLRUPage ==
  [][flushed' # {} =>
       /\ flushed' = {key_tracker[1]}
       /\ key_to_value[key_tracker[1]] = "dirty"
       /\ key_to_value'[key_tracker[1]] = "absent"
       /\ Len(key_tracker) = Capacity]_vars

(***************************************************************************)
(* No write is lost: until a dirty page is logged to DiskSim it stays in   *)
(* the cache, dirty, through every hit, eviction and reinsertion, and only *)
(* dirty pages are logged.                                                 *)
(***************************************************************************)
WBC == INSTANCE WriteBackCache
         WITH cached <- Keys(key_to_value),
              pending <- DirtyKeys(key_to_value)

ImplementsWriteBack == WBC!WBSpec
=============================================================================
