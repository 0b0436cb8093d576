-------------------------- MODULE TwoLevelPageLRU ---------------------------
(***************************************************************************)
(* Two levels of PageLRUCache in the loop of RunBenchmark(). The caches    *)
(* are objects of their own, but multipleFlushTimeGap, which says when the *)
(* next flush is due, is a static of access(), and both levels log to one  *)
(* DiskSim trace and count in one global.                                  *)
(***************************************************************************)
EXTENDS StdContainers

CONSTANTS NumPages, Op, UpperCapacity, LowerCapacity, flushTimeGap, Word,
          MaxTime, MaxLogged, NoRequest

Page == 0..(NumPages - 1)

VARIABLES upper_tracker, upper_table,   \* of the first level
          lower_tracker, lower_table,   \* of the second level
          multipleFlushTimeGap, totalSeqEvictedDirtyPages,
          runs, evicted, logTime,       \* what the last access logged
          upperTime, lowerTime,         \* of the last access at each level
          request                       \* missed by the first level, if any

Upper == INSTANCE PageLRU
           WITH key_tracker <- upper_tracker, key_to_value <- upper_table,
                issueTime <- upperTime, Capacity <- UpperCapacity
Lower == INSTANCE PageLRU
           WITH key_tracker <- lower_tracker, key_to_value <- lower_table,
                issueTime <- lowerTime, Capacity <- LowerCapacity

vars == <<upper_tracker, upper_table, lower_tracker, lower_table,
          multipleFlushTimeGap, totalSeqEvictedDirtyPages, runs, evicted,
          logTime, upperTime, lowerTime, request>>

Init == Upper!Init /\ Lower!Init /\ request = NoRequest

AccessUpper ==
  /\ request = NoRequest
  /\ \E k \in Page, op \in Op, t \in upperTime..MaxTime :
       /\ Upper!access(k, op, t)
       /\ request' = IF upper_table[k] # "absent" THEN NoRequest
                     ELSE [page |-> k, op |-> op, time |-> t]
  /\ UNCHANGED <<lower_tracker, lower_table, lowerTime>>

AccessLower ==
  /\ request # NoRequest
  /\ Lower!access(request.page, request.op, request.time)
  /\ request' = NoRequest
  /\ UNCHANGED <<upper_tracker, upper_table, upperTime>>

Next == AccessUpper \/ AccessLower

Spec == Init /\ [][Next]_vars
-----------------------------------------------------------------------------
FirstOfInterval(before, now) == now \div flushTimeGap > before \div flushTimeGap

(***************************************************************************)
(* The README on lru-stl, "Every 30 seconds, flush all dirty pages from    *)
(* cache to storage", at the first level: its first access of an interval  *)
(* flushes, whatever the level below does in between.                      *)
(***************************************************************************)
UpperFlushes ==
  FirstOfInterval(upperTime, upperTime') =>
    DirtyKeys(upper_table) \subseteq Upper!Flushed'

(***************************************************************************)
(* The same at the second level.                                           *)
(***************************************************************************)
LowerFlushesEachInterval ==
  [][FirstOfInterval(lowerTime, lowerTime') =>
       DirtyKeys(lower_table) \subseteq Lower!Flushed']_vars
=============================================================================
