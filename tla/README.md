# sim-ideal in TLA+

sim-ideal is a trace-driven simulator of a hierarchy of up to four write-back
page caches. It replays a block trace, one page request at a time, through a
cache at each level, and writes the dirty pages that the policies evict to an
input trace for DiskSim. The repository also
holds FlashSim, a simulator of flash devices. Both are single-threaded and keep
nothing between runs.
What is hard in it is state: every policy keeps the same pages in two or more
containers (a recency list, a page table, ghost lists, heaps) that are updated
by separate calls, carries a dirty bit through moves between them, and decides
by sizes and counters whose bounds are only stated in `assert`s.

Source files named without a directory are those of the program itself
(`arc.h`, `main.cpp` and so on).

## The parts of the system

| part | state | operations | interacts with |
|---|---|---|---|
| `main.cpp` RunBenchmark | `memTrace`, the request being served, the flags | pop a request, call `access` level by level until a hit, collect statistics, run DiskSim and the analysis program at the end | every policy; the policies read `memTrace` |
| `main.cpp` readTrace, `parser.cpp` | the trace file, the line number | parse a line, expand a request of n pages into n requests of one | fills `memTrace` |
| `configuration.cpp` | sizes, policies, stream names | read the configuration file and the arguments | opened streams are used by the policies |
| `lru_pure.h` PureLRUCache | `_key_tracker`, `_key_to_value` | `access`, `insert`, `evict`, `remove`, `recordOutTrace` | DiskSim trace, out trace, eviction counters |
| `arc.h` ARC | `t1`, `t2`, `b1`, `b2`, each a list and a map; static `p` | `access` (Cases I-IV), `REPLACE` | DiskSim trace, eviction counters; `p` is shared by all instances |
| `lru_ziqi.h`, `lru_dynamic.h`, `lru_dynamicB.h`, `lru_dynamicC.h`, `lru_hotCold.h` | recency list, page table, the global `threshold` | `access`, `insert`, `evict` (search of a run of dirty pages), `remove` | DiskSim trace, eviction counters |
| `lru_stl.h` PageLRUCache | recency list, page table, static `multipleFlushTimeGap` | `access` with the 30 s flush, `insert`, `evict`, `remove` | DiskSim trace |
| `min.cpp` PageMinCache, BlockMinCache | page table or block table, heap of next accesses, `AccessOrdering` | `access`, `insert`, `evict` | `memTrace`, out trace |
| `sharedDS.cpp` AccessOrdering | queue of line numbers for each key | build, `nextAccess` | `memTrace` |
| `owbp.cpp` OwbpCache | block table, cold heap, victim pool, `currSize` | `access`, `insertNewBlk`, `evict`, metadata update | `memTrace`, out trace |
| `stats.cpp` | counters of each level | `collectStat`, printing | flags returned by `access` |
| `seq-length-analysis` | histogram of run lengths | one pass over the DiskSim trace | reads what the policies wrote |
| FlashSim: pages, blocks, planes, dies, packages, `Ssd` | page and block states, erases left, free blocks, the least worn block at each level | read, write, erase, merge, wear statistics | events of the translation layers |
| FlashSim: `ssd_channel.cpp`, `ssd_bus.cpp` | reservations, connections, time of the last one | connect, disconnect, lock, unlock | events |
| FlashSim: `ssd_bm.cpp` Block_manager | free and invalid blocks, counters of data and log blocks, blocks by cost | hand out, promote, invalidate, erase, garbage collection | called by and calls the translation layer |
| FlashSim: BAST, FAST, DFTL | block map and log blocks; page map, its cached part and its inverse | read, write, trim, merges, cleanup | block manager, flash |

There is no concurrency and no recovery. The hard behaviours are long sequences
of legal accesses that unbalance two containers, dirty bits lost on the way,
boundaries of sizes, thresholds and times, `static` and global variables that
several cache levels share, and the order of what is logged.

What makes each part correct:

* a policy: its containers describe the same pages; at most the capacity is
  held; a written page stays dirty in the cache until it is logged; victims are
  the ones the policy promises; the asserts hold; the counters add up;
* the MIN policies: no policy has fewer misses on the same trace;
* AccessOrdering: the next access is the first later line with the key;
* the simulation loop: every request is served and the loop ends; the levels
  are visited in order up to the first hit;
* statistics: hits and misses add up to references at every level;
* the trace reader: one request of one page for each page that the size of a
  line fills, in the order of the file;
* the configuration: `read()` ends, and returns true only with all that the
  loop will use;
* a translation layer: a read finds what was written last, whatever was merged,
  moved or erased in between; no flash block is lost or used twice;
* a channel: two entries of its scheduling table never overlap.

## Modules

| module | models |
|---|---|
| `StdContainers` | `std::list` and `std::map` as the policies use them. A list is a sequence, front first. A map is a function on all keys whose value is `"absent"`, `"clean"` or `"dirty"`: of the flags stored with a page the policies read back the DIRTY bit only |
| `WriteBackCache` | abstract: what `TestCache::access` promises for any write-back policy, whatever it evicts |
| `PureLRU` | PureLRUCache |
| `ARC`, `TwoLevelARC` | ARC, one instance; two of them over the one static `p`, as RunBenchmark walks them |
| `PageRuns` | the two loops that count the dirty pages after and before a page; the pages of a table are a ring, as the `uint64_t` block numbers are |
| `SeqLRU`, `RunFlushingLRU` | what ZiqiLRUCache, the three Dynamic caches and HotColdLRUCache have in common, and the five policies; those headers are copies of each other up to the update of `threshold` |
| `PageLRU`, `TwoLevelPageLRU` | PageLRUCache with its 30 s flush and `uint32_t` times; two of them over the one static `multipleFlushTimeGap` and one log |
| `AccessOrdering` | the trace in memory, the table of the accesses of each page or block, the heap of next accesses |
| `PageMin`, `BlockMin`, `Owbp` | PageMinCache, BlockMinCache, OwbpCache |
| `Configuration` | `Configuration::read()`, as it goes through the property tree |
| `TraceReader` | `readTrace()` over the three line formats |
| `Simulator` | `Initialize()`, the walk of RunBenchmark over the levels, `collectStat()`, `reportProgress()` and the end of the program |
| `SeqLengthAnalysis` | seq-length-analysis |
| `Flash` | pages and blocks as operators on a record, for the translation layers |
| `FlashDevice` | the same with the counters and wear statistics of planes, dies, packages and the device |
| `Channel` | `Channel` of the bus |
| `BlockManager` | the free lists and counters of Block_manager |
| `BAST`, `FAST`, `DFTL` | the translation layers, with the garbage collection that each of them uses |
| `MCPureLRU`, `MCARC` | PureLRU with the history variable that states the stack property; symmetry for ARC |
| `MCLevels`, `MCLookAhead`, `MCProgram`, `MCFlashSim` | several modules side by side for TLC: two levels; the policies with look-ahead; the parts around the policies, and FlashSim's channel and planes; the translation layers |
| `StdContainersProofs`, `PureLRUProofs`, `ARCProofs`, `RunFlushingProofs`, `PageLRUProofs`, `LevelsProofs`, `ProgramProofs`, `LookAheadProofs` | lemmas and theorems |

`MCLevels`, `MCLookAhead`, `MCProgram` and `MCFlashSim` have a variable
(`hierarchy`, `policy`, `part`, `unit`) that is chosen initially and never
changes. It says which of the modules the behaviour is about; the variables of
the others are `Idle`. The parts share no state. A property of such a module is
a conjunction, for each value of that variable, of properties that the module of
the part states and explains.

### State and steps

One step of a policy's module is one whole call of `access(k, value, op)`: look
up, eviction, logging, counters and insertion. The simulator calls `access` for
one request at a time, so no smaller step is visible to anyone. Pages logged to
DiskSim by the last access are kept in `flushed` (in `PageLRU`, `runs` and
`evicted`, in the order of the log). `READ` and `WRITE` requests arrive in any
order for any page, which is what an arbitrary trace is.

* `PureLRU`: `Hit` is the hit branch of `access`, `Insert` and `EvictInsert` are
  `insert` with and without room (`evict` and `remove` included), `Abort` is the
  `assert(0)` of `recordOutTrace`. `outTraceOpen` is chosen initially.
* `ARC`: one action for each case and sub-case of `access`. `REPLACE` works on
  the four lists as one value, because the code calls it between other updates
  and then changes the lists again. It pushes the accessed key on the ghost
  list, as the code does.
* `SeqLRU`: `EvictClean`, `SeqEvictTo` and `LessSeqEvictTo` are the three ways
  `evict` ends; their parameter is the new threshold. `RunFlushingLRU` chooses
  the policy, the threshold and whether the trace is one of writes initially.
* `PageLRU`: `FlushAndAccess` when a flush is due, else `PlainAccess`. `Swept`
  is the loop over the tracker that logs and cleans a run at a time. The code's
  times are doubles compared with integers, so whole milliseconds suffice.
* `TwoLevelARC`, `TwoLevelPageLRU`: a request is served by the upper level and,
  if it misses, by the lower one, in a step each.
* `AccessOrdering`: `trace` is one of the trace files (`File`), expanded to pages,
  and `pos` the front of `memTrace`. `PageMin`, `BlockMin` and `Owbp` take one
  request of it in a step. A failed assert sets `aborted`. `PageMin` is the first
  level (`upperCapacity` is 0) or below a PureLRUCache, chosen initially.
* `Configuration`: one action per section of the file or argument, `stage` is
  where `read()` is. Each action may find the key missing, a suffix that
  `convertSize()` does not know, or a policy that does not exist, where the code
  looks at it.
* `TraceReader`: one action per line, by its form and by what is done with it.
  A line is a record of the fields that `strtok` and `atoi` yield. The format and
  `writeOnly`, which the configuration fixes, are chosen initially. Times are
  whole numbers of 1/WINDOWS_TICK ms, in which those of the code are exact but
  for the rounding of doubles, whatever number of ticks a second has.
* `Simulator`: `Access` is one call of `access` at one level with any flags that
  a policy of that name returns; `stats` are the counters of `stats.h`.
* `BAST`, `FAST`, `DFTL`: one action for each of `read`, `write` and `trim`. The
  device, the manager and the tables are one record, because the functions of
  the code call each other in the middle of their own updates, and operators
  from record to record compose as those calls do. `stored` is history: what the
  host wrote last. A failed assert sets `aborted`.
* `FlashDevice`: `Ssd::read`, `write`, `erase`, `merge` down to the page.
* `Channel`: `connect`, `disconnect`, `lock`; `lock` begins with `unlock`.

Definitions commented as a slip are wrong versions of the definition after
them, used to see that the properties notice.

## Runs

Deadlock checking is off because every behaviour ends: with the trace, with a
failed assert, or with a bound on a counter (`MaxEvictions`, `MaxLogged`,
`MaxTime`, `MaxWrites`, `MaxTrims`, `MaxRequests`, `MaxLines`, `MaxLocks`).

| run | what it checks and shows | bounds |
|---|---|---|
| `purelru` | list and table agree; the cache is always the last `Capacity` pages accessed, in order; only the dirty LRU page of a full cache is logged; refinement of `WriteBackCache` | 4 pages, capacity 3, 3 evictions |
| `arc` | the asserts on entry and on victims, consistency of the four lists, no eviction before the cache is full, `p` in range, refinement | 5 pages, capacity 3, 7 evictions: every case of `access`, with the four lists together at their limit |
| `run_flushing` | for the five policies: consistency, whole runs flushed, that of the first page in LRU order which is in a run reaching the threshold or else the LRU page's, counters that account for every page that left, the threshold between 1 and Capacity + 1 (2 Capacity where it is doubled), and refinement of `WriteBackCache` on traces of writes | 5 pages on a ring, capacity 3, thresholds 0 to 3, 6 evictions: enough to raise a threshold above the capacity and bring it down again |
| `levels` | PageLRUCache: one flush of all dirty pages at the first access of an interval and at no other, grouped and counted once, log in time order, refinement; the same for the upper of two levels, with both on one log; the asserts of two ARC levels on one `p` | 5 pages, capacity 3, interval of 2, times to 5: intervals with several accesses, with one and with none. Two levels: 4 pages, capacities 1 and 2. ARC: 4 pages, capacities 3 and 2, so that the upper level moves `p` above the capacity of the lower; 11 evictions |
| `look_ahead` | over every trace: table, heap and `AccessOrdering` of both MINs agree and tell the truth about the future, the asserts hold at the first level, on writes of one page each no policy has more hits than PageMinCache; OwbpCache files each block once, counts its pages, and its metadata hold until the next write of the block | for PageMinCache, at the first level and at the second, 4 lines of requests of one or two pages, 6 writes of one page, 5 reads and writes of one page; for the others 4 lines of requests of up to a block; capacity 2; blocks of 3 pages, used in part |
| `program` | `read()` ends on every file, and returns true only with everything that is needed; the reader delivers for each line of any format as many pages as its size fills, from its first page on and in the same block, with the time since the first line, and reaches the end (for an MSR line these are pages that it touches, all of them if it starts at a page); a level sees exactly the misses of the level above, the counters add up, the progress is never wrong, and the loop ends in its statistics; every run of pages is in one class of the analysis; the entries of a channel's table never overlap; free blocks and least worn block of a plane | up to 2 levels and every kind of key and suffix; files of up to 3 lines out of 21 kinds of MSR and WebSearch line, aligned and not, with pages of 2 bytes and blocks of 3 pages, or of up to 4 out of 3 kinds of MEM line; 2 requests through 2 levels, every combination of flags that each kind of policy returns; up to 5 logged runs, over a list of 20 entries of which 12 are summed in 4 classes; 4 locks of a channel; a plane of 2 blocks of 2 pages with 4 erases each, unbounded |
| `flashsim` | BAST, FAST and DFTL find what was written last, account for every block and fail no assert, each within the limits named below; the tables of DFTL agree | 2 logical blocks of 2 pages; BAST 4 blocks, unbounded; FAST 8 blocks, 11 writes anywhere, 30 writes in turn, 8 writes with a trim; DFTL 5 blocks: 3 pages, 2 cached mappings, 8 reads and writes or 12 writes; 2 pages, 1 cached mapping, 10 writes and trims |

`program` checks liveness. Its fairness is `WF(ProgramStep)`, of the four parts
of the simulator: each is sequential code of the program's only thread, waits for
nobody and takes its next step whenever there is one. The channel and the planes
of FlashSim, which are in this run too, are only called, so nothing is assumed of
them. The other runs check safety; a call
of `access`, `read`, `write` or `trim` is one step of theirs.

Where a property of a run is limited to a part of the inputs, the rest is known
to fail, and the module says so at the property:

* MIN is optimal on traces of writes of one page each. On reads, which
  PageMinCache does not insert, on requests of several pages, and as a second
  level, where its asserts fail, it is not.
* Metadata of OwbpCache hold on traces of writes; a read consumes a future
  access that they still count.
* Two ARC levels are safe if their capacities differ by at most one. With 4 above
  2, 5 above 2 or 3, 6 above 3 or 1 above 3, a hit in `b2` finds `t1` full, `t2`
  empty and `p` two or more above the capacity, and REPLACE asserts.
* BAST needs one block more than data blocks and log blocks together.
* FAST reads back what was written for a host that writes its pages in turn, and
  it accounts for its blocks if the host does not trim.
* DFTL reads back what was written while garbage collection always finds more
  than one free block: the passing instances collect garbage from 40 % on. Its
  count of cached mappings is right as long as no page is trimmed.
* An MSR line that starts inside a page may miss its last page, because the
  number of pages comes from its size alone.
* The analysis adds up if no run is longer than what it sums, and the simulation
  ends in its statistics if the trace has two requests or more.
* The least worn block is right on a device of one plane of one or two blocks. On
  a larger one it is some block.

The bounds suffice because the code compares sizes with the capacity, run
lengths with the threshold and times with multiples of the interval, and never
looks at page numbers other than to compare them or step to the next: a
capacity of 3 has an LRU, a middle and an MRU page, five pages leave room for a
run, a second run and the page that comes in, and evictions and times go far
enough for each branch to follow each other. The policies with look-ahead are
run on all traces of a length that fills the cache, evicts and comes back. Two
logical blocks and one log block make the translation layers evict, two pages
make a merge differ from a switch, and the numbers of requests let garbage
collection start and be followed by further requests: DFTL collects in
its fifth request, so three more come after that with reads, seven with writes
only and five with trims; they write the erased blocks again, and in the latter
two clean and erase the same block a second time.

## Disagreements

Runs that are expected to fail show where the code and its documentation, or
its own asserts, part:

| run | disagreement |
|---|---|
| `ziqi_dirty` | a read hit replaces a dirty page's flags, and its write is never logged |
| `arc_static_p` | with capacities 1 above 3 the shared `p` sends REPLACE of the upper level to an empty t2, and its assert fails |
| `pagelru_lower_flush` | "Every 30 seconds, flush all dirty pages": the upper level's flush moves the shared multiple on, and the lower level does not flush |
| `configuration_two_levels` | the log "works as an input trace file for DiskSim": opened by a second level it fails, and everything after that is dropped |
| `dftl_nested_gc` | garbage collection started in the middle of a cleanup cleans the same block, which the outer cleanup erases after it was handed out: a page reads back wrong |

Others were met on the way and have no run of their own:

* `lru_pure.h:178` asserts the out trace, which the configuration makes optional.
* `arc.h:299`: REPLACE pushes the accessed key, not the victim's, so that a page
  can be cached and a ghost at once, against the comment "move x from b1 to t2".
* `lru_ziqi.h`: a run exactly at the threshold counts as above it;
  `lru_hotCold.h` has no hot zone.
* `lru_stl.h`: the time of the next flush wraps at 2^32 ms, after 49.7 days.
* `main.cpp:302`: an adaptive policy at a lower level starts from the threshold
  of level 0's policy.
* `main.cpp:262`: dirty victims of a level do not go to the level below.
* `main.cpp:165`: a trace of one request divides by a total of 0.
* `parser.cpp:164`: the number of pages is taken from the size of a request
  alone: one of 2 bytes at offset 1, with pages of 2 bytes, loses its second page.
* `parser.cpp:191`: the LBA of a WebSearch line is taken for the page itself.
* `parser.cpp:236`: the time of a WebSearch line is taken from its ASU field.
* `stats.cpp:48`: a read hit on a block is counted as a write hit on a block.
* `min.cpp:106`: the pages of one request are in the heap under the same line, so
  the one inserted first is evicted, not the one accessed last: with a capacity
  of 2 the writes of pages 3 and 4, of 6, of 3 and 4, and of 6 again, lose a hit.
* `min.cpp`, `owbp.cpp`: PageMinCache fails its asserts as a lower level;
  OwbpCache keeps the cold pages of a block that has evicted itself, and asserts
  on page 0.
* `configuration.cpp`: DiskSim is accepted without an input, and five levels end
  in a crash of the destructor; `main.cpp:51` prints statistics that were never
  allocated when the program is left early.
* `seq-length-analysis.cpp:66`: runs of 1000 pages or more are not summed, and
  of 10000 are written behind the list.
* `ssd_channel.cpp`: `unlock` passes over every other expired entry, so the table
  keeps some of them; and a transmission that starts before one whose entry is
  gone is booked over it. The entries of the table itself never overlap.
* `ssd_die.cpp` to `ssd_ssd.cpp`: the least worn block is stale with more than
  one plane or more than two blocks; a merge of two different blocks asserts.
* `ssd_bm.cpp:21`: the constructor leaves `simpleCurrentFree` as it is.
* `fast_ftl.cpp`: `read` takes the oldest entry of the random log blocks; a page
  that does not continue the sequential block goes to offset 0 of a new one;
  `random_merge` skips page 0 of a log block; a trim leaves an erased block in
  the log, counts a data block as LOG, and can lead to `data_list[-1]`.
* `dftl_ftl.cpp`, `dftl_parent.cpp`: trim and cleanup exceed the limit of cached
  mappings; a trim writes the reverse entry of page -1; a read hit does not make
  its mapping recent.

## Proofs

TLAPS checks what follows for every value of the constants that satisfies the
assumptions below. Every property of the runs `purelru`, `arc`, `run_flushing`,
`levels` and `look_ahead` is proved, and of `program` all but liveness. The
properties of `flashsim`, of the translation layers, are model-checked.

* `StdContainersProofs`: the facts about lists, maps and runs that the policies
  share. `list::remove` of a listed key takes one position out and keeps the
  order of the others; a list and its map stay `Linked`, after the erasure of one
  page or of a set of pages; the two loops that find a run end if some page is
  not dirty, and what they find is the one whole run around their start, with as
  many pages as they count, although the page numbers wrap around.
* `PureLRUProofs`: `TypeCorrect`, `AlwaysConsistent`, `RefinesWriteBack`,
  `FlushesOnlyLRU` from the inductive invariant `TypeOK /\ Consistent`;
  `LRUIsAStackAlgorithm` with the history variable of `MCPureLRU`: that lists
  every page once by its last access, the cache is a suffix of it, and is all of
  it unless the cache is full.
* `ARCProofs`: `TypeCorrect`, `AlwaysConsistent`, `EntryAssertsHold`,
  `VictimAssertsHold`, `EvictsOnlyWhenFull`, `RefinesWriteBack`. The asserts on
  the sizes are not inductive: a state with ghosts and a cache that is not full
  would let `REPLACE` shrink the cache or find no victim. The missing conjunct
  is `GhostsOnlyWhenFull`: if `b1` or `b2` holds anything, `t1` and `t2` hold
  `Capacity` pages. With it, each of the eight cases is shown to call `REPLACE`
  only on a full cache (`FullCases`), to find a victim there (`ReplaceVictim`),
  and to preserve the invariant together with what it does to the pages held
  and to the pending writes (`HeldStep`). The invariant lets `p` be one above
  the capacity, which one instance alone never reaches: that is what another
  instance may have left there, and a victim is still found.
* `RunFlushingProofs`: `AlwaysConsistent`, `EvictionsAddUp`,
  `ThresholdStaysInRange`, `FlushesWholeRuns`, `RefinesWriteBack`, for the five
  policies at once. The checked invariants are inductive together with the types
  of `policy`, `writeOnly` and `misses`. `Consistent` carries the rest: fewer
  entries than pages means that some page is not dirty, so the loops end and
  `seqLength` is the number of pages that leave. For `FlushesWholeRuns`, the
  loops find the same run from each of its pages (`RunsMeet`), so the first page
  at which they count enough is the first that is in a run reaching the threshold.
* `PageLRUProofs`: what one access does. The loop of the flush is proved by an
  invariant over the position in the tracker: what is logged is what is no longer
  dirty, the pages gone through are clean, and no dirty page adjoins a logged
  one. So the runs are disjoint, no two of them could have been one, and they
  add up to the pages that were dirty. The times need that the shared multiple is
  one more than the interval of the last access, whichever instance made it.
* `LevelsProofs`: the theorems of the run `levels`. The lower level is accessed
  only at the time of the upper level's access, so the statement about the
  multiple holds for both; this gives `PageLRUAlwaysConsistent`, `FlushesOnce`,
  `GroupedAndCounted`, `LoggedInTimeOrder` and `PageLRURefinesWriteBack`. For
  `TwoLevelsOfARCHold`, `ArcInv` is the invariant of `ARCProofs` at both levels:
  an access leaves `p` at most at the level's own capacity, hence at most one
  above the other's.
* `ProgramProofs`: the theorems of the run `program`.
  - The loop: `LevelsAlwaysChain` and `ProgressAlwaysHonest`. The percentage
    printed last is at most that of the requests served, so the next one is
    larger, and it is 100 just at the end.
  - The configuration: `ReadyAlwaysComplete`, by the stages of `read()`. What an
    earlier stage has set, no later one unsets.
  - The reader: `ReaderOrdersAccesses` and `ReaderLosesNothing`, for any file and
    any sizes of pages and blocks, which give `LinesAlwaysOrdered` and
    `RequestsAlwaysComplete`. The invariant says of each line read that the
    requests with its number are for the pages that its size fills, and keeps the
    base time of the first line and the flags that skipped lines leave behind.
    Which pages those are is arithmetic of the two divisions by the page and block
    sizes; the last byte of a request lies in the last page counted or in the next
    one, so an MSR line misses one page at most.
  - The analysis: `ClassesAlwaysPartition`, for any list, classes and log. Entry
    `j` of the list is the number of lines of length `j`, every length from 1 on
    is in the class with the largest start that it reaches and in no other, and
    the sums over the classes add up to the sum over the list. The rest is about
    sums over finite sets: one element or a whole part can be taken out first,
    equal terms give equal sums, and terms that are 0 can be left out.
  - The channel of FlashSim: `ChannelNeverOverlaps`, for any durations and start
    times in any order. `ChannelInv` is the checked property itself, with no
    transmission shorter than 1. The last entry of the table can lie between any
    others, so the argument starts with the sort in `unlock`: entries that do not
    overlap differ in their start, hence each has a place of its own
    (`PlacesTaken`), and in that order each ends before the next begins
    (`UnlockSorts`). Then what `lock` adds lies before the first entry, in a gap,
    or behind the last (`LockFits`). Which expired entries `unlock` removes does
    not matter.
  - The planes of FlashSim: `PlanesAlwaysCounted`, for any geometry. That every
    write stays within its block is not inductive: `DeviceInv` adds that the
    writes counted in a block are as many as its pages in use, so that an empty
    page means that there is room for one more (`WroteFacts`). A block is FREE
    just if none of its pages is used, and each event changes that of one block
    at most (`FreeMoves`). `get_least_worn` ends at a block because at each level
    the index is that of a child (`Hierarchy`, `DescentEnds`).
* `LookAheadProofs`: the theorems of the run `look_ahead`, for traces of any
  length and requests of any size up to a block.
  - What all three policies rest on: the lines of a trace are in order, and no
    page is accessed twice on a line (`Proper`). The table has, for each key, the
    lines of its accesses, or none if the last of them has been handed out
    (`Table`), so that `nextAccess()` returns the next line or INF. The heap is
    in order and has one entry for each cached key (`Heap`); an entry taken out
    and filed again leaves the others what they are, although they move.
  - PageMinCache and BlockMinCache: `MinHeapsTrue` and `MinLookupsSucceed`, from
    `PageInv` and `BlockInv`. An entry has the line of the next access from `pos`
    on. That is the current line just if the request is for that page or block:
    so the entry of a hit is found, and is the only one that has to be replaced;
    and a key that is still to be accessed has not been erased from the table.
    At the second level the entries are only counted, their lines are not true
    there. A block keeps its entry while requests of its line follow; its line,
    the current one, is then the smallest in the heap, so the block is the last
    victim, and evicts itself only if no other is cached.
  - PageMinCache: `MinIsOptimal`. `BestHits`, the most hits that are possible
    from a request on, is a table that can be filled in from the last request
    back (`BestHitsIs`, `ScoresAre`). By the same way back, having one page in
    the place of another costs a full cache at most one hit (`CostsOne`), and
    nothing if it is accessed sooner (`Sooner`): the request for it is a hit, and
    the other one's page is still missing then. So no victim is better than the
    page with the latest next access, and by `PageInv` that is the first entry of
    the heap (`VictimCostsLeast`). `Optimal` says that hits so far and hits still
    possible add up to what was possible at the start; with `PageInv` it is
    inductive as it stands.
  - OwbpCache: `OwbpFilesOnce` and `OwbpMetadataTrue`, from `OwbpInv` and
    `OwbpForesight`. A block that has pages is in `coldHeap`, with its current
    metadata, or in `victimPull`, with no access in its window, and not in both;
    one without pages is in neither and has no cold pages. In the middle of a
    call this is false of the current block only (`OthersRight`). The window is
    scanned without gaps, so the first access found in it is the next one; a
    write of the block computes its metadata anew, and a write of another block
    is none of the accesses that they are about.

Where a module is instantiated by the MC module and again by its proofs, the two
copies of an operator are different symbols to the prover. The lemmas that say
that they are the same (`OneContainers`, `PageOperators` and their like) hold by
the definitions.

TLC finds the inductive invariants (`IndInv`, `StackInv`, `OneInv`, `TwoInv`,
`ArcInv`, `LoopInv`, `ConfigInv`, `ReaderInv`, `AnalysisInv`, `LookAheadInv`,
`ChannelInv`, `DeviceInv`) true in every state of the runs.

The assumptions are those of the constants, and TLC evaluates them in the runs:

* a finite set of pages (for the policies that look for runs, any number above
  the capacity), request types READ and WRITE, a positive capacity. That there
  are more pages than a cache holds is what ends the loops over a run;
* thresholds are natural numbers; the bounds (`MaxEvictions`, `MaxLogged`,
  `MaxTime` and so on) are any natural numbers and do not weaken the results;
* `NoWrapAssumption` of `PageLRU`: the trace ends an interval before the time
  reaches the width of the code's integers, 2^32 ms or 49.7 days. Beyond it the
  product with the multiple wraps and flushes come at wrong times;
* `ArcCapacitiesAdjoin`: two ARC levels have capacities that differ by at most
  one. The run `arc_static_p` shows what happens otherwise;
* positive sizes of pages and blocks, for the reader;
* trace files with fewer lines than INF, for the policies that look ahead; the
  number that the code uses for INF is then no line;
* positive sizes at every level of the flash hierarchy, and as many blocks as they
  multiply to; positive durations on a channel, as the bus delays of
  `ssd_config.cpp` are;
* a finite set of positive run lengths, a finite set of class starts with 1 in
  it, and a list at least as long as its part that is summed, for the analysis.

Only model-checked:

* the translation layers of FlashSim: `MCFlashSim` reaches `DFTL`, which is
  recursive because the code is, and the prover loses its SMT backend there;
* everything expected to fail, and liveness: `ProgramEnds` needs fairness and
  `ENABLED`, which the prover cannot reason about.

Induction over the natural numbers for one concrete predicate is within reach:
it is done with the least number for which the predicate fails (`LeastNatural`),
and over finite sets with a set of fewest elements (`FewestElements`).
Induction down a trace is one over the number of requests left (`AllNaturals`).

## Not modelled

* formatting and the text of logs, statistics and traces; delays in FlashSim;
* cutting a trace line into fields (`strtok`, `atoi`) and the property tree,
  which are library code;
* issue times that go back: `PageLRU` takes a trace in time order;
* more than two levels of real policies at once; `Simulator` walks levels whose
  policies are only known by the flags they return;
* `page_ftl.cpp`, whose reads and writes are no-operations; `bdftl_ftl.cpp`;
  the RAID, RAM, statistics, configuration and test drivers of FlashSim;
* `cpp_framework.h`, `intel64_defns.h`, `portable_defns.h` and DiskSim:
  third-party code;
* `insertDirtyPage`, `get_min_key`, `get_max_key`, `reqPacket`, `AbsCache`:
  never called in the build, or without effect on the state.

## Plan

Done: all policies, the parts around them, the compositions over shared statics,
and of FlashSim the flash hierarchy, the channel, the block manager and three
translation layers; proofs for every policy, one level and two, for the
simulation loop, the configuration, the trace reader, the analysis, the channel
and the planes.

What could follow: `BDFTL`, on top of the page map of `DFTL`; a proof
that `BAST` uses no flash block twice.
