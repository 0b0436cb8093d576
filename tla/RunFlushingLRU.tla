--------------------------- MODULE RunFlushingLRU ---------------------------
(***************************************************************************)
(* The run-flushing LRU policies: ZiqiLRUCache, whose threshold is the one *)
(* the configuration sets, and DynamicLRUCache, DynamicBLRUCache,          *)
(* DynamicCLRUCache and HotColdLRUCache, which adapt theirs as they evict  *)
(* and which main() starts at 1. The policy is the one that Initialize()   *)
(* creates. The counters of the statistics are related to the accesses by  *)
(* the history variable `misses'.                                          *)
(***************************************************************************)
EXTENDS SeqLRU

CONSTANTS Policies,      \* the configured names to look at
          Thresholds     \* values of Global.seqThreshold, 0 if it is not set

ASSUME PoliciesAssumption ==
  /\ Policies \subseteq {"ziqilru", "dynamiclru", "dynamicBlru", "dynamicClru",
                          "hotcoldlru"}
  /\ Thresholds \subseteq Nat

VARIABLES policy,        \* _gConfiguration.GetAlgName(0)
          writeOnly,     \* _gConfiguration.writeOnly: only writes are let through
          misses         \* accesses that returned PAGEMISS

rvars == <<vars, policy, writeOnly, misses>>

Init ==
  /\ policy \in Policies
  /\ writeOnly \in BOOLEAN
  /\ misses = 0
  /\ \E t \in IF policy = "ziqilru" THEN Thresholds ELSE {1} : InitWith(t)

\* Everything that access() does but the evictions of dirty pages.
AccessNoFlush(k, op) == Hit(k, op) \/ InsertWithRoom(k, op) \/ EvictClean(k, op)

\* lru_ziqi.h: the threshold stays.
ZiqiSeqEvict(k, op) == SeqEvictTo(threshold, k, op)
ZiqiLessSeqEvict(k, op) == LessSeqEvictTo(threshold, k, op)
ZiqiAccess(k, op) ==
  /\ policy = "ziqilru"
  /\ AccessNoFlush(k, op) \/ ZiqiSeqEvict(k, op) \/ ZiqiLessSeqEvict(k, op)

\* lru_dynamic.h: add one, cut in half.
DynamicSeqEvict(k, op) == SeqEvictTo(threshold + 1, k, op)
DynamicLessSeqEvict(k, op) == LessSeqEvictTo(threshold \div 2, k, op)
DynamicAccess(k, op) ==
  /\ policy = "dynamiclru"
  /\ AccessNoFlush(k, op) \/ DynamicSeqEvict(k, op) \/ DynamicLessSeqEvict(k, op)

\* lru_dynamicB.h: add one, take one away.
DynamicBSeqEvict(k, op) == SeqEvictTo(threshold + 1, k, op)
DynamicBLessSeqEvict(k, op) == LessSeqEvictTo(threshold - 1, k, op)
DynamicBAccess(k, op) ==
  /\ policy = "dynamicBlru"
  /\ AccessNoFlush(k, op) \/ DynamicBSeqEvict(k, op) \/ DynamicBLessSeqEvict(k, op)

\* lru_dynamicC.h: double, take one away.
DynamicCSeqEvict(k, op) == SeqEvictTo(threshold * 2, k, op)
DynamicCLessSeqEvict(k, op) == LessSeqEvictTo(threshold - 1, k, op)
DynamicCAccess(k, op) ==
  /\ policy = "dynamicClru"
  /\ AccessNoFlush(k, op) \/ DynamicCSeqEvict(k, op) \/ DynamicCLessSeqEvict(k, op)

\* lru_hotCold.h: the same as lru_dynamic.h.
HotColdSeqEvict(k, op) == SeqEvictTo(threshold + 1, k, op)
HotColdLessSeqEvict(k, op) == LessSeqEvictTo(threshold \div 2, k, op)
HotColdAccess(k, op) ==
  /\ policy = "hotcoldlru"
  /\ AccessNoFlush(k, op) \/ HotColdSeqEvict(k, op) \/ HotColdLessSeqEvict(k, op)

access(k, op) ==
  \/ ZiqiAccess(k, op)
  \/ DynamicAccess(k, op)
  \/ DynamicBAccess(k, op)
  \/ DynamicCAccess(k, op)
  \/ HotColdAccess(k, op)

\* readTrace() lets reads through unless writeOnly is set.
Next ==
  /\ \E k \in Page, op \in Op :
       /\ writeOnly => op = "WRITE"
       /\ access(k, op)
       /\ misses' = IF key_to_value[k] = "absent" THEN misses + 1 ELSE misses
  /\ UNCHANGED <<policy, writeOnly>>

Spec == Init /\ [][Next]_rvars
-----------------------------------------------------------------------------
(***************************************************************************)
(* The statistics of stats.cpp add up: "Real Total Evicted Pages" is the   *)
(* number of pages that have come in and are not there any more, although  *)
(* one eviction removes many pages and counts them by seqLength.           *)
(***************************************************************************)
EvictionsAccounted ==
  misses = Len(key_tracker) + totalEvictedCleanPages
             + totalSeqEvictedDirtyPages + totalNonSeqEvictedDirtyPages

(***************************************************************************)
(* The threshold never leaves the range in which both branches of evict()  *)
(* can be taken: it starts at 1 and is halved or decremented without any   *)
(* test, but only when no dirty run reaches it, so it stays at 1 or more   *)
(* (at 0 or less it would never be lowered again, and a run of any length  *)
(* would be flushed); and it is raised only by a run that is in the cache, *)
(* so it exceeds Capacity by at most 1, or twofold where it is doubled.    *)
(***************************************************************************)
ThresholdBounded ==
  policy # "ziqilru" =>
    /\ 1 <= threshold
    /\ threshold <= IF policy = "dynamicClru" THEN 2 * Capacity ELSE Capacity + 1

(***************************************************************************)
(* No write is lost when the trace holds writes only (Global.writeOnly),   *)
(* under any of the five policies. A cache that is read too is mapped to   *)
(* an abstract one that is never used.                                     *)
(***************************************************************************)
WBC == INSTANCE WriteBackCache
         WITH cached <- IF writeOnly THEN Keys(key_to_value) ELSE {},
              pending <- IF writeOnly THEN DirtyKeys(key_to_value) ELSE {},
              flushed <- IF writeOnly THEN flushed ELSE {}

ImplementsWriteBack == WBC!WBSpec
=============================================================================
