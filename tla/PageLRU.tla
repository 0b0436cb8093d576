------------------------------- MODULE PageLRU ------------------------------
(***************************************************************************)
(* PageLRUCache of lru_stl.h: an LRU write-back cache that also writes all *)
(* its dirty pages back at the first access of every flush interval.       *)
(*                                                                         *)
(* Times are whole milliseconds: the code compares issueTime, a double,    *)
(* with integers only and truncates it before it computes with it. Its     *)
(* products and sums are uint32_t, arithmetic modulo Word here. The        *)
(* requests of a trace come in the order of their issue times.             *)
(***************************************************************************)
EXTENDS PageRuns

CONSTANTS NumPages,            \* block numbers, 2^64 in the code
          Op,                  \* the request types readTrace() lets through
          Capacity,            \* _capacity
          flushTimeGap,        \* the flush interval, 30000 ms in the code
          Word,                \* 2^32 in the code
          MaxTime,             \* bound on issue times
          MaxLogged            \* bound on totalSeqEvictedDirtyPages

NumPagesAssumption == NumPages \in Nat \ {0}
OpAssumption == Op \subseteq {"READ", "WRITE"}
CapacityAssumption == Capacity \in 1..(NumPages - 1)
TimeAssumption ==
  /\ flushTimeGap \in Nat \ {0} /\ Word \in Nat /\ MaxTime \in Nat
  /\ flushTimeGap < Word
  /\ MaxTime < Word            \* or uint32_t(issueTime) is undefined
MaxLoggedAssumption == MaxLogged \in Nat

\* The time of the next flush does not wrap: the trace ends in time for that.
NoWrapAssumption == MaxTime + flushTimeGap < Word

Page == 0..(NumPages - 1)

VARIABLES key_tracker,               \* _key_tracker, LRU page first
          key_to_value,              \* _key_to_value
          multipleFlushTimeGap,      \* static in access()
          totalSeqEvictedDirtyPages,
          runs,      \* the runs that the last access's flush logged, in order
          evicted,   \* the dirty page that the last access evicted and logged
          logTime,   \* arrival time of the last request logged
          issueTime  \* of the last access

vars == <<key_tracker, key_to_value, multipleFlushTimeGap,
          totalSeqEvictedDirtyPages, runs, evicted, logTime, issueTime>>

Init ==
  /\ key_tracker = <<>>
  /\ key_to_value = NoEntries(Page)
  /\ multipleFlushTimeGap = 1
  /\ totalSeqEvictedDirtyPages = 0
  /\ runs = <<>>
  /\ evicted = {}
  /\ logTime = 0
  /\ issueTime = 0

\* The pages cached, and those of them that are not written back.
Cached == Keys(key_to_value)
Dirty == DirtyKeys(key_to_value)

\* Every page that the last access logged.
Flushed == (UNION {runs[i] : i \in 1..Len(runs)}) \cup evicted

FlushTime == (flushTimeGap * multipleFlushTimeGap) % Word

\* A slip: a flush late by several intervals counts as one.
NextMultipleByOne(t) == (multipleFlushTimeGap + 1) % Word

\* A slip: the next flush is due an interval too late.
NextMultipleLate(t) ==
  (multipleFlushTimeGap + (t - FlushTime) \div flushTimeGap + 2) % Word

NextMultiple(t) ==
  (multipleFlushTimeGap + (t - FlushTime) \div flushTimeGap + 1) % Word

Cleaned(m, R) == [k \in DOMAIN m |-> IF k \in R THEN "clean" ELSE m[k]]

\* A slip: only the page of the tracker is marked clean, not its run.
SweptMarksOne ==
  LET swept[i \in 0..Len(key_tracker)] ==
        IF i = 0 THEN [table |-> key_to_value, log |-> <<>>]
        ELSE LET s == swept[i - 1]
                 k == key_tracker[i]
             IN  IF s.table[k] # "dirty" THEN s
                 ELSE [table |-> Cleaned(s.table, {k}),
                       log   |-> Append(s.log, Run(s.table, k))]
  IN  swept[Len(key_tracker)]

\* The for loop of the flush: the table and the runs logged once it has gone
\* through the tracker. A run is logged and marked clean from its first page.
Swept ==
  LET swept[i \in 0..Len(key_tracker)] ==
        IF i = 0 THEN [table |-> key_to_value, log |-> <<>>]
        ELSE LET s == swept[i - 1]
                 k == key_tracker[i]
             IN  IF s.table[k] # "dirty" THEN s
                 ELSE [table |-> Cleaned(s.table, Run(s.table, k)),
                       log   |-> Append(s.log, Run(s.table, k))]
  IN  swept[Len(key_tracker)]

LoggedLength(log) ==
  LET upTo[i \in 0..Len(log)] ==
        IF i = 0 THEN 0 ELSE upTo[i - 1] + Cardinality(log[i])
  IN  upTo[Len(log)]

\* A slip: as in lru_ziqi.h, a read hit forgets that the page is dirty.
EntryForgotten(op, old) == IF op = "WRITE" THEN "dirty" ELSE "clean"

\* The flags stored for an access that finds the entry old.
NewEntry(op, old) == IF op = "WRITE" \/ old = "dirty" THEN "dirty" ELSE "clean"

\* The rest of access(), on the page table m that the flush leaves.
Hit(m, k, op) ==
  /\ m[k] # "absent"
  /\ key_tracker' = Append(ListRemove(key_tracker, k), k)
  /\ key_to_value' = MapInsert(MapErase(m, k), k, NewEntry(op, m[k]))
  /\ evicted' = {}

InsertWithRoom(m, k, op) ==
  /\ m[k] = "absent"
  /\ MapSize(m) # Capacity
  /\ key_tracker' = Append(key_tracker, k)
  /\ key_to_value' = MapInsert(m, k, NewEntry(op, "absent"))
  /\ evicted' = {}

\* A slip: remove() leaves the victim in the tracker.
EvictInsertStaleTracker(m, k, op) ==
  LET victim == Head(key_tracker)
  IN  /\ m[k] = "absent"
      /\ MapSize(m) = Capacity
      /\ key_tracker' = Append(key_tracker, k)
      /\ key_to_value' = MapInsert(MapErase(m, victim), k, NewEntry(op, "absent"))
      /\ evicted' = {victim} \cap DirtyKeys(m)

\* insert() into a full cache: evict() and remove() first.
EvictInsert(m, k, op) ==
  LET victim == Head(key_tracker)
  IN  /\ m[k] = "absent"
      /\ MapSize(m) = Capacity
      /\ key_tracker' = Append(ListRemove(key_tracker, victim), k)
      /\ key_to_value' = MapInsert(MapErase(m, victim), k, NewEntry(op, "absent"))
      /\ evicted' = {victim} \cap DirtyKeys(m)

LookUp(m, k, op) ==
  Hit(m, k, op) \/ InsertWithRoom(m, k, op) \/ EvictInsert(m, k, op)

\* An access that finds a flush due.
FlushAndAccess(k, op, t) ==
  /\ t >= FlushTime
  /\ runs' = Swept.log
  /\ multipleFlushTimeGap' = NextMultiple(t)
  /\ LookUp(Swept.table, k, op)

PlainAccess(k, op, t) ==
  /\ t < FlushTime
  /\ runs' = <<>>
  /\ UNCHANGED multipleFlushTimeGap
  /\ LookUp(key_to_value, k, op)

\* A slip: the runs are logged once multipleFlushTimeGap has moved on.
LastLogTimeOfNextFlush(t) ==
  IF evicted' # {} THEN t ELSE IF runs' # <<>> THEN FlushTime' ELSE logTime

\* The arrival time of the last line that the access logs.
LastLogTime(t) ==
  IF evicted' # {} THEN t ELSE IF runs' # <<>> THEN FlushTime ELSE logTime

access(k, op, t) ==
  /\ totalSeqEvictedDirtyPages < MaxLogged
  /\ FlushAndAccess(k, op, t) \/ PlainAccess(k, op, t)
  /\ totalSeqEvictedDirtyPages' = totalSeqEvictedDirtyPages
                      + LoggedLength(runs') + Cardinality(evicted')
  /\ logTime' = LastLogTime(t)
  /\ issueTime' = t

Next == \E k \in Page, op \in Op, t \in issueTime..MaxTime : access(k, op, t)

Spec == Init /\ [][Next]_vars
-----------------------------------------------------------------------------
TypeOK ==
  /\ key_tracker \in Seq(Page)
  /\ key_to_value \in [Page -> Entry]
  /\ multipleFlushTimeGap \in 0..(Word - 1)
  /\ totalSeqEvictedDirtyPages \in Nat
  /\ runs \in Seq(SUBSET Page)
  /\ evicted \in SUBSET Page
  /\ logTime \in 0..MaxTime
  /\ issueTime \in 0..MaxTime

(***************************************************************************)
(* The state is well typed, and the recency list and the page table        *)
(* describe the same pages, each listed once, and never more than the      *)
(* capacity: the flush rewrites entries through iterators of both and must *)
(* not change what is cached.                                              *)
(***************************************************************************)
Consistent ==
  /\ TypeOK
  /\ Linked(key_tracker, key_to_value)
  /\ Len(key_tracker) <= Capacity

Interval(t) == t \div flushTimeGap

(***************************************************************************)
(* The README on lru-stl: "Every 30 seconds, flush all dirty pages from    *)
(* cache to storage", and lru_stl.h: at "the first one that equal or       *)
(* bigger than a multiple of 30s". The first access of an interval flushes *)
(* every dirty page, however many intervals went by without an access; any *)
(* other access flushes at most the page that it evicts.                   *)
(***************************************************************************)
FlushesOnTime ==
  IF Interval(issueTime') > Interval(issueTime)
  THEN Dirty \subseteq Flushed'
  ELSE Flushed' # {} => Flushed' = {key_tracker[1]}

(***************************************************************************)
(* lru_stl.h on the flush: "Group sequential ones together and log to      *)
(* DiskSim input trace." No page is logged twice, no two of the logged     *)
(* runs could have been one, and the statistics count each page once, even *)
(* though the loop meets the other pages of a run again after it has       *)
(* logged the run.                                                         *)
(***************************************************************************)
GroupsAndCounts ==
  /\ \A i, j \in 1..Len(runs') : \A k \in runs'[i] :
       {k, (k + 1) % NumPages} \cap runs'[j] # {} => i = j
  /\ totalSeqEvictedDirtyPages' = totalSeqEvictedDirtyPages + Cardinality(Flushed')
=============================================================================
