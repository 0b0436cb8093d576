------------------------------ MODULE MCLevels ------------------------------
(***************************************************************************)
(* Hierarchies for TLC: one PageLRUCache, two of them, or two ARC caches,  *)
(* as `hierarchy' says. The variables of the others are idle.              *)
(***************************************************************************)
EXTENDS Integers

CONSTANTS NoRequest, Idle,               \* model values
          Op, flushTimeGap, Word, MaxTime, MaxLogged,        \* pagelru
          NumPages, Capacity,                                \* one level
          NumPagesOfTwo, UpperCapacity, LowerCapacity,       \* two levels
          ArcPage, ArcOp, ArcUpperCapacity, ArcLowerCapacity, \* arc
          MaxEvictions

VARIABLES hierarchy, request,
          upper_tracker, upper_table, upperTime,             \* pagelru
          lower_tracker, lower_table, lowerTime,
          multipleFlushTimeGap, totalSeqEvictedDirtyPages,
          runs, evicted, logTime,
          u1, u2, ub1, ub2, l1, l2, lb1, lb2, p, flushed,    \* arc
          totalEvictedCleanPages, totalNonSeqEvictedDirtyPages

upperVars == <<upper_tracker, upper_table, upperTime, multipleFlushTimeGap,
               totalSeqEvictedDirtyPages, runs, evicted, logTime>>
lowerVars == <<lower_tracker, lower_table, lowerTime>>
arcVars == <<u1, u2, ub1, ub2, l1, l2, lb1, lb2, p, flushed,
             totalEvictedCleanPages, totalNonSeqEvictedDirtyPages>>
vars == <<hierarchy, request, upperVars, lowerVars, arcVars>>

One == INSTANCE PageLRU
         WITH key_tracker <- upper_tracker, key_to_value <- upper_table,
              issueTime <- upperTime
Two == INSTANCE TwoLevelPageLRU WITH NumPages <- NumPagesOfTwo
Arcs == INSTANCE TwoLevelARC
          WITH Page <- ArcPage, Op <- ArcOp, UpperCapacity <- ArcUpperCapacity,
               LowerCapacity <- ArcLowerCapacity

\* The p that two ARC levels share is never two above the capacity of either.
ArcCapacitiesAdjoin ==
  /\ ArcUpperCapacity <= ArcLowerCapacity + 1
  /\ ArcLowerCapacity <= ArcUpperCapacity + 1

ASSUME LevelsAssumption ==
  /\ One!NumPagesAssumption /\ One!OpAssumption /\ One!CapacityAssumption
  /\ One!TimeAssumption /\ One!NoWrapAssumption /\ One!MaxLoggedAssumption
  /\ Two!Upper!NumPagesAssumption
  /\ Two!Upper!CapacityAssumption /\ Two!Lower!CapacityAssumption
  /\ Arcs!Upper!PageAssumption /\ Arcs!Upper!OpAssumption
  /\ Arcs!Upper!CapacityAssumption /\ Arcs!Lower!CapacityAssumption
  /\ Arcs!Upper!MaxEvictionsAssumption
  /\ ArcCapacitiesAdjoin

NoLower == lower_tracker = Idle /\ lower_table = Idle /\ lowerTime = Idle
NoArc ==
  /\ u1 = Idle /\ u2 = Idle /\ ub1 = Idle /\ ub2 = Idle
  /\ l1 = Idle /\ l2 = Idle /\ lb1 = Idle /\ lb2 = Idle
  /\ p = Idle /\ flushed = Idle
  /\ totalEvictedCleanPages = Idle /\ totalNonSeqEvictedDirtyPages = Idle
NoPageLRU ==
  /\ upper_tracker = Idle /\ upper_table = Idle /\ upperTime = Idle
  /\ multipleFlushTimeGap = Idle /\ totalSeqEvictedDirtyPages = Idle
  /\ runs = Idle /\ evicted = Idle /\ logTime = Idle

Init ==
  \/ hierarchy = "pagelru" /\ One!Init /\ request = NoRequest /\ NoLower /\ NoArc
  \/ hierarchy = "pagelruTwice" /\ Two!Init /\ NoArc
  \/ hierarchy = "arcTwice" /\ Arcs!Init /\ NoPageLRU /\ NoLower

Next ==
  /\ \/ hierarchy = "pagelru" /\ One!Next /\ UNCHANGED <<request, lowerVars, arcVars>>
     \/ hierarchy = "pagelruTwice" /\ Two!Next /\ UNCHANGED arcVars
     \/ hierarchy = "arcTwice" /\ Arcs!Next /\ UNCHANGED <<upperVars, lowerVars>>
  /\ UNCHANGED hierarchy

Spec == Init /\ [][Next]_vars
-----------------------------------------------------------------------------
(***************************************************************************)
(* The state of PageLRUCache is well typed, and its list and its table     *)
(* describe the same pages, each once, and never more than the capacity,   *)
(* at both levels of two (PageLRU.tla).                                    *)
(***************************************************************************)
PageLRUConsistent ==
  /\ hierarchy = "pagelru" => One!Consistent
  /\ hierarchy = "pagelruTwice" => Two!Upper!Consistent /\ Two!Lower!Consistent

(***************************************************************************)
(* The first access of an interval flushes every dirty page, and no other  *)
(* access flushes more than it evicts (PageLRU.tla). Of two levels the     *)
(* upper one does so too, although the lower one also moves the multiple   *)
(* of the next flush (TwoLevelPageLRU.tla).                                *)
(***************************************************************************)
FlushesOncePerInterval ==
  [][/\ hierarchy = "pagelru" => One!FlushesOnTime
     /\ hierarchy = "pagelruTwice" => Two!UpperFlushes]_vars

(***************************************************************************)
(* Each page is logged and counted once by a flush, in the longest runs    *)
(* there are (PageLRU.tla), also if two levels count in one global.        *)
(***************************************************************************)
GroupsAndCountsOnce ==
  [][/\ hierarchy = "pagelru" => One!GroupsAndCounts
     /\ hierarchy = "pagelruTwice" => Two!Upper!GroupsAndCounts]_vars

(***************************************************************************)
(* The times of the DiskSim log never go back, written by one level or by  *)
(* two (PageLRU.tla, TwoLevelPageLRU.tla).                                 *)
(***************************************************************************)
LogInTimeOrder == [][hierarchy # "arcTwice" => logTime' >= logTime]_vars

(***************************************************************************)
(* No write is lost by PageLRUCache, by the flush or by the accesses       *)
(* between two flushes: it implements WriteBackCache.                      *)
(***************************************************************************)
WBC == INSTANCE WriteBackCache
         WITH Page <- One!Page,
              cached <- IF hierarchy = "pagelru" THEN One!Cached ELSE {},
              pending <- IF hierarchy = "pagelru" THEN One!Dirty ELSE {},
              flushed <- IF hierarchy = "pagelru" THEN One!Flushed ELSE {}

PageLRUImplementsWriteBack == WBC!WBSpec

(***************************************************************************)
(* Neither of two ARC levels is sent to an empty list or outgrows its      *)
(* capacities on a p that the other level has moved, if their capacities   *)
(* differ by at most one (TwoLevelARC.tla).                                *)
(***************************************************************************)
ArcAssertsHoldAtBothLevels ==
  hierarchy = "arcTwice" =>
    Arcs!VictimsExistAtBothLevels /\ Arcs!SizesWithinBoundsAtBothLevels
=============================================================================
