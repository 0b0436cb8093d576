---------------------------- MODULE TwoLevelARC -----------------------------
(***************************************************************************)
(* Two levels of ARC in the loop of RunBenchmark(): a request that the     *)
(* first level misses goes on to the second. The two caches are objects of *)
(* their own, but p is a static of access() and the eviction counters and  *)
(* the DiskSim log are globals: both levels work on the same ones.         *)
(***************************************************************************)
EXTENDS StdContainers

CONSTANTS Page, Op, UpperCapacity, LowerCapacity, MaxEvictions, NoRequest

VARIABLES u1, u2, ub1, ub2,          \* t1, t2, b1, b2 of the first level
          l1, l2, lb1, lb2,          \* and of the second
          p, flushed, totalEvictedCleanPages, totalNonSeqEvictedDirtyPages,
          request                    \* missed by the first level, if any

Upper == INSTANCE ARC WITH t1 <- u1, t2 <- u2, b1 <- ub1, b2 <- ub2,
                           Capacity <- UpperCapacity
Lower == INSTANCE ARC WITH t1 <- l1, t2 <- l2, b1 <- lb1, b2 <- lb2,
                           Capacity <- LowerCapacity

upperLists == <<u1, u2, ub1, ub2>>
lowerLists == <<l1, l2, lb1, lb2>>
vars == <<u1, u2, ub1, ub2, l1, l2, lb1, lb2, p, flushed,
          totalEvictedCleanPages, totalNonSeqEvictedDirtyPages, request>>

Init == Upper!Init /\ Lower!Init /\ request = NoRequest

\* The walk down the levels ends at a hit.
Missed(k, op) == IF Upper!Cached(k) THEN NoRequest ELSE [page |-> k, op |-> op]

AccessUpper ==
  /\ request = NoRequest
  /\ \E k \in Page, op \in Op :
       Upper!access(k, op) /\ request' = Missed(k, op)
  /\ UNCHANGED lowerLists

AccessLower ==
  /\ request # NoRequest
  /\ Lower!access(request.page, request.op)
  /\ request' = NoRequest
  /\ UNCHANGED upperLists

Next == AccessUpper \/ AccessLower

Spec == Init /\ [][Next]_vars
-----------------------------------------------------------------------------
(***************************************************************************)
(* assert(itLRU != t2_key.end()) and its kind, at both levels: the shared  *)
(* p, moved by the ghost hits of the other level, never sends REPLACE to   *)
(* an empty list.                                                          *)
(***************************************************************************)
VictimsExistAtBothLevels == Upper!VictimsExist /\ Lower!VictimsExist

(***************************************************************************)
(* Neither level outgrows its capacities on a p that is not its own.       *)
(***************************************************************************)
SizesWithinBoundsAtBothLevels ==
  Upper!SizesWithinBounds /\ Lower!SizesWithinBounds
=============================================================================
