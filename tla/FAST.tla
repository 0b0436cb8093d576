-------------------------------- MODULE FAST --------------------------------
(***************************************************************************)
(* FtlImpl_Fast (fast_ftl.cpp). A logical block has a data block, with     *)
(* page i at offset i. A page whose data page is taken goes to a log: to   *)
(* the one sequential (SW) log block, if it continues or starts the run    *)
(* there, and else to the random (RW) log blocks, which all logical blocks *)
(* share and which are filled in order. When those are full the first one  *)
(* is merged away. Blocks that are given up wait on invalid_list until     *)
(* insert_events() of the block manager erases them.                       *)
(*                                                                         *)
(* A failed assertion, std::bad_alloc, which nothing catches, and an access*)
(* to data_list[-1] set `aborted', and the model stops there.              *)
(***************************************************************************)
EXTENDS BlockManager, FiniteSetsExt

CONSTANTS HostBlocks,           \* logical blocks that the host uses
          Data,                 \* what the host writes
          FAST_LOG_PAGE_LIMIT,  \* number of RW log blocks
          GcPercent,            \* 90
          NumToErase,           \* 5
          LowWater,             \* 5
          SequentialHost,       \* TRUE: the host writes the pages in turn
          MaxWrites, MaxTrims   \* bounds on the requests of the host

\* The list of RW log blocks cannot do with one: log_pages->next is taken for a
\* block. Blocks and the device have 2^n pages, as the shift and the address
\* arithmetic of the FTL want it.
FASTAssumption ==
  /\ HostBlocks \in 1..NumBlocks
  /\ FAST_LOG_PAGE_LIMIT \in Nat \ {0, 1}
  /\ GcPercent \in 0..100 /\ {NumToErase, LowWater, MaxWrites, MaxTrims} \subseteq Nat
  /\ \E n \in 0..30 : NumBlocks * PagesPerBlock = 2^n
  /\ NoData \notin Data /\ SequentialHost \in BOOLEAN

VARIABLES ssd,             \* the device, the manager and the tables of the FTL
          writes, trims,   \* number of requests so far
          stored           \* history: what the host wrote last to each logical page

vars == <<ssd, writes, trims, stored>>

LBlock == 0..(HostBlocks - 1)
LPage == 0..(HostBlocks * PagesPerBlock - 1)
Unmapped == -1
Slot == 1..FAST_LOG_PAGE_LIMIT

NewLogBlock(b) == [address |-> b, numPages |-> 0, aPages |-> [i \in Offset |-> Unmapped]]

Init ==
  /\ \E n \in SimpleCurrentFree :
       ssd = [dev |-> FreshDevice, bm |-> FreshManager(n), log_pages |-> <<>>,
              data_list |-> [l \in LBlock |-> Unmapped], log_page_next |-> 0,
              sequential_offset |-> 0, sequential_address |-> Unmapped,
              sequential_logicalblock_address |-> Unmapped, aborted |-> FALSE]
  /\ writes = 0 /\ trims = 0
  /\ stored = [p \in LPage |-> NoData]

Abort(s) == [s EXCEPT !.aborted = TRUE]
-----------------------------------------------------------------------------
\* insert_events(): the last blocks of invalid_list are erased, when most of the
\* device is in use by the manager's own account.
insert_events(s) ==
  LET m == s.bm
      inUse == Len(m.invalid) + m.active.LOG + m.active.DATA - Len(m.free)
      n == Len(m.invalid) - Min({NumToErase, Len(m.invalid)})
      erased == Reverse(SubSeq(m.invalid, n + 1, Len(m.invalid)))
  IN  IF 100 * inUse < GcPercent * NumBlocks THEN s
      ELSE [s EXCEPT !.dev = FoldLeft(Erased, @, erased),
                     !.bm.free = @ \o erased, !.bm.invalid = SubSeq(@, 1, n)]

\* get_num_free_blocks() counts the blocks handed out until all have been.
get_num_free_blocks(m) ==
  IF m.next < NumBlocks THEN m.next + Len(m.free) ELSE Len(m.free)
Replenished(s) ==
  IF get_num_free_blocks(s.bm) < LowWater THEN insert_events(s) ELSE s

\* get_free_block() collects garbage at the last free block, and then takes
\* Fresh(s). Nothing is left to take, or log_active, which is unsigned, is past
\* its limit or below 0: it fails.
Ready(s) == IF s.bm.next >= NumBlocks /\ Len(s.bm.free) <= 1 THEN insert_events(s)
            ELSE s
Fresh(s) == IF HasFree(s.bm) THEN NextFree(s.bm) ELSE Unmapped
get_free_block(s, type) ==
  IF \/ s.aborted \/ ~HasFree(s.bm)
     \/ type = "LOG" /\ s.bm.active.LOG \notin 0..FAST_LOG_PAGE_LIMIT
  THEN Abort(s) ELSE GotBlock(s, type)

\* A page, and pages into a new block b: from[i] is copied to offset i.
Write(s, a, x) ==
  IF s.aborted \/ s.dev.page[a] # "EMPTY" THEN Abort(s)
  ELSE [s EXCEPT !.dev = Wrote(@, a, x)]
Copied(s, b, from) ==
  FoldLeft(LAMBDA t, i : Write(t, PageAddr(b, i), s.dev.data[from[i]]),
           s, SetToSortSeq({i \in Offset : from[i] # Unmapped}, <))

\* initialize_log_pages(), before the first request. The state is Ready.
LogBlockAdded(s) ==
  IF get_free_block(s, "LOG").aborted THEN Abort(s)
  ELSE [get_free_block(s, "LOG") EXCEPT !.log_pages = Append(@, NewLogBlock(Fresh(s)))]
initialize_log_pages(s) ==
  IF s.log_pages # <<>> THEN s
  ELSE FoldLeft(LAMBDA t, k : LogBlockAdded(Ready(t)), s, [k \in Slot |-> k])
-----------------------------------------------------------------------------
\* Where read() and trim() look for page p: the RW log blocks from the first
\* one on, each from its first page on.
Entries(s, p) == {<<k, i>> \in Slot \X Offset :
                    i < s.log_pages[k].numPages /\ s.log_pages[k].aPages[i] = p}
Earlier(e, f) == e[1] < f[1] \/ (e[1] = f[1] /\ e[2] < f[2])
First(E) == CHOOSE e \in E : \A f \in E \ {e} : Earlier(e, f)
Newest(E) == CHOOSE e \in E : \A f \in E \ {e} : Earlier(f, e)
EntryAddr(s, e) == PageAddr(s.log_pages[e[1]].address, e[2])

\* A slip: the last page written to the SW log block is not seen.
InSequentialShort(s, p) ==
  /\ s.sequential_logicalblock_address = BlockOf(p)
  /\ s.sequential_offset > OffsetOf(p) + 1

InSequential(s, p) ==
  /\ s.sequential_logicalblock_address = BlockOf(p)
  /\ s.sequential_offset > OffsetOf(p)

\* The address that read() issues, or Unmapped for a no-operation.
ReadAddr(s, p) ==
  IF Entries(s, p) # {} THEN EntryAddr(s, First(Entries(s, p)))
  ELSE IF InSequential(s, p) THEN PageAddr(s.sequential_address, OffsetOf(p))
  ELSE IF s.data_list[BlockOf(p)] # Unmapped
  THEN PageAddr(s.data_list[BlockOf(p)], OffsetOf(p))
  ELSE Unmapped
-----------------------------------------------------------------------------
\* switch_sequential(): the SW log block becomes the data block.
switch_sequential(s) ==
  LET l == s.sequential_logicalblock_address
      t == IF s.data_list[l] = Unmapped THEN s
           ELSE invalidate(s, s.data_list[l], "DATA")
  IN  IF l = Unmapped THEN Abort(s)
      ELSE [t EXCEPT !.data_list[l] = s.sequential_address]

\* A slip: the data block that is replaced is not given up.
MergedLeaving(s, l, b) ==
  [invalidate(s, s.sequential_address, "DATA") EXCEPT !.data_list[l] = b]

\* Both blocks of a merge of the SW log block go, and b is the new data block.
Merged(s, l, b) ==
  LET t == invalidate(s, s.sequential_address, "DATA")
      u == IF s.data_list[l] = Unmapped THEN t
           ELSE invalidate(t, s.data_list[l], "DATA")
  IN  [u EXCEPT !.data_list[l] = b]

\* The SW log block and then the data block fill the new block b.
SequentialInto(s, l, b) ==
  LET valid(c, i) == c # Unmapped /\ s.dev.page[PageAddr(c, i)] = "VALID"
      from == [i \in Offset |->
                 IF valid(s.sequential_address, i) THEN PageAddr(s.sequential_address, i)
                 ELSE IF valid(s.data_list[l], i) THEN PageAddr(s.data_list[l], i)
                 ELSE Unmapped]
  IN  IF s.aborted THEN s ELSE Merged(Copied(s, b, from), l, b)
MergeSequential(s, l) ==
  SequentialInto(Replenished(get_free_block(s, "DATA")), l, Fresh(s))
merge_sequential(s) ==
  IF s.sequential_logicalblock_address = Unmapped THEN s
  ELSE MergeSequential(Ready(s), s.sequential_logicalblock_address)

\* The block that data_list gives random_merge(), even if it gives none: the
\* address -1 is the last one of the device, and -1 + i the one before i.
Wrapped(a) == a % (NumBlocks * PagesPerBlock)
DataAddr(s, l, i) ==
  IF s.data_list[l] = Unmapped THEN Wrapped(i - 1) ELSE PageAddr(s.data_list[l], i)

\* random_merge() of one logical block l. From every RW log block, the newest
\* first, but never from its page 0; older entries are struck out, and the data
\* block fills up what is left of the new block b.
Takes(s, b, i) == s.dev.page[PageAddr(b, i)] = "EMPTY"
MergeEntries(s, p) == {e \in Entries(s, p) : e[2] > 0}
Struck(s, l, b) ==
  [k \in Slot |-> [s.log_pages[k] EXCEPT !.aPages = [i \in Offset |->
     LET p == s.log_pages[k].aPages[i]
         E == MergeEntries(s, p)
         here == p # Unmapped /\ BlockOf(p) = l /\ Takes(s, b, OffsetOf(p))
     IN  IF here /\ <<k, i>> \in E /\ <<k, i>> # Newest(E) THEN Unmapped ELSE p]]]
RandomInto(s, l, b) ==
  LET entries(i) == MergeEntries(s, PageAddr(l, i))
      from == [i \in Offset |->
                 IF ~Takes(s, b, i) THEN Unmapped
                 ELSE IF entries(i) # {} THEN EntryAddr(s, Newest(entries(i)))
                 ELSE IF s.dev.page[DataAddr(s, l, i)] = "VALID" THEN DataAddr(s, l, i)
                 ELSE Unmapped]
      full == [Copied(s, b, from) EXCEPT !.log_pages = Struck(s, l, b)]
  IN  IF s.aborted THEN s
      ELSE [invalidate(full, BlockOf(DataAddr(s, l, 0)), "DATA")
              EXCEPT !.data_list[l] = b]
MergedInto(s, l) == RandomInto(get_free_block(s, "DATA"), l, Fresh(s))
MergedBlock(s, l) == MergedInto(Ready(Replenished(s)), l)

\* The logical blocks that the log block k has pages of, in the order of a map.
MergeBlocks(s, k) ==
  LET P == {s.log_pages[k].aPages[i] : i \in 0..(s.log_pages[k].numPages - 1)}
  IN  SetToSortSeq({BlockOf(p) : p \in P \ {Unmapped}}, <)
random_merge(s, k) == FoldLeft(MergedBlock, s, MergeBlocks(s, k))

\* A slip: the pages of the block that goes are still counted.
VictimGoneCounted(s) ==
  LET t == invalidate(s, s.log_pages[1].address, "LOG")
  IN  LogBlockAdded(Ready([t EXCEPT !.log_pages = Tail(@)]))

\* The first RW log block goes, and a new one comes to the end of the list.
VictimGone(s) ==
  LET t == invalidate(s, s.log_pages[1].address, "LOG")
  IN  LogBlockAdded(Ready([t EXCEPT !.log_pages = Tail(@),
                                    !.log_page_next = @ - PagesPerBlock]))
-----------------------------------------------------------------------------
\* write_to_log_block() and write() yield the state and the address to write.
To(s, a) == [s |-> s, a |-> a]

\* The page starts a new SW log block, at offset 0 whatever its own is. The
\* state is Ready.
StartSequential(s, l) ==
  To([get_free_block(s, "DATA") EXCEPT !.sequential_offset = 1,
        !.sequential_address = Fresh(s), !.sequential_logicalblock_address = l],
     PageAddr(Fresh(s), 0))

AppendSequential(s) ==
  IF s.dev.written[s.sequential_address] = PagesPerBlock THEN To(Abort(s), 0)
  ELSE To([s EXCEPT !.sequential_offset = @ + 1], FreePage(s.dev, s.sequential_address))

\* The first RW log block with room; the entry in it is log_page_next's.
AddEntry(s, p) ==
  LET open == {j \in Slot : s.log_pages[j].numPages # PagesPerBlock}
      k == Min(open)
      i == s.log_page_next % PagesPerBlock
  IN  IF s.aborted \/ open = {} THEN To(Abort(s), 0)
      ELSE To([s EXCEPT !.log_pages[k].aPages[i] = p, !.log_pages[k].numPages = @ + 1,
                        !.log_page_next = @ + 1],
              PageAddr(s.log_pages[k].address, i))
AppendRandom(s, p) ==
  IF s.log_page_next # FAST_LOG_PAGE_LIMIT * PagesPerBlock THEN AddEntry(s, p)
  ELSE AddEntry(VictimGone(random_merge(s, 1)), p)

AfterSequential(s) ==
  Ready(IF s.sequential_offset = PagesPerBlock THEN switch_sequential(s)
        ELSE merge_sequential(s))

write_to_log_block(s, p) ==
  LET l == BlockOf(p)
      i == OffsetOf(p)
  IN  IF i = 0 THEN StartSequential(AfterSequential(s), l)
      ELSE IF s.sequential_logicalblock_address # l THEN AppendRandom(s, p)
      ELSE IF i = s.sequential_offset THEN AppendSequential(s)
      ELSE StartSequential(Ready(merge_sequential(s)), l)

\* The first page of a logical block goes to a new data block.
NewData(s, p) ==
  To([get_free_block(s, "DATA") EXCEPT !.data_list[BlockOf(p)] = Fresh(s)],
     PageAddr(Fresh(s), OffsetOf(p)))
WriteTo(s, p) ==
  LET a == PageAddr(s.data_list[BlockOf(p)], OffsetOf(p))
  IN  IF s.data_list[BlockOf(p)] = Unmapped THEN NewData(Ready(s), p)
      ELSE IF s.dev.page[a] = "EMPTY" THEN To(s, a) ELSE write_to_log_block(s, p)

\* insert_events() comes between the choice of the address and the write.
Issued(w, x) == IF w.s.aborted THEN w.s ELSE Write(insert_events(w.s), w.a, x)
write(p, x) ==
  /\ ~ssd.aborted /\ writes < MaxWrites
  /\ SequentialHost => p = writes % (HostBlocks * PagesPerBlock)
  /\ ssd' = Issued(WriteTo(initialize_log_pages(ssd), p), x)
  /\ writes' = writes + 1
  /\ stored' = [stored EXCEPT ![p] = x]
  /\ UNCHANGED trims

\* read() changes nothing but the list of log blocks, the first time.
read(p) ==
  /\ ~ssd.aborted
  /\ ssd' = initialize_log_pages(ssd)
  /\ UNCHANGED <<writes, trims, stored>>

\* trim(): the page is invalidated where it is found first. A block without a
\* page that is not INVALID is erased at once, always as a LOG block. An RW log
\* block stays in the list, and it is data_list that loses its entry.
Freed(s, b) == IF BlockState(s.dev, b) = "INACTIVE"
               THEN erase_and_invalidate(s, b, "LOG") ELSE s
TrimmedRandom(s, p) ==
  LET e == First(Entries(s, p))
      b == s.log_pages[e[1]].address
      t == [s EXCEPT !.dev = Invalidated(@, EntryAddr(s, e)),
                     !.log_pages[e[1]].aPages[e[2]] = Unmapped]
  IN  IF BlockState(t.dev, b) # "INACTIVE" THEN t
      ELSE [Freed(t, b) EXCEPT !.data_list[BlockOf(p)] = Unmapped]
TrimmedSequential(s, p) ==
  LET b == s.sequential_address
      t == [s EXCEPT !.dev = Invalidated(@, PageAddr(b, OffsetOf(p)))]
  IN  IF BlockState(t.dev, b) # "INACTIVE" THEN t
      ELSE [Freed(t, b) EXCEPT !.sequential_logicalblock_address = Unmapped]
TrimmedData(s, p) ==
  LET b == s.data_list[BlockOf(p)]
      t == [s EXCEPT !.dev = Invalidated(@, PageAddr(b, OffsetOf(p)))]
  IN  IF BlockState(t.dev, b) # "INACTIVE" THEN t
      ELSE [Freed(t, b) EXCEPT !.data_list[BlockOf(p)] = Unmapped]

Trimmed(s, p) ==
  IF s.aborted THEN s
  ELSE insert_events(IF Entries(s, p) # {} THEN TrimmedRandom(s, p)
                     ELSE IF InSequential(s, p) THEN TrimmedSequential(s, p)
                     ELSE IF s.data_list[BlockOf(p)] # Unmapped THEN TrimmedData(s, p)
                     ELSE s)
trim(p) ==
  /\ ~ssd.aborted /\ trims < MaxTrims
  /\ trims' = trims + 1
  /\ ssd' = Trimmed(initialize_log_pages(ssd), p)
  /\ stored' = [stored EXCEPT ![p] = NoData]
  /\ UNCHANGED writes

Next == \E p \in LPage : read(p) \/ trim(p) \/ \E x \in Data : write(p, x)

Spec == Init /\ [][Next]_vars
-----------------------------------------------------------------------------
Started == ssd.log_pages # <<>> /\ ~ssd.aborted
DataBlocks == {l \in LBlock : ssd.data_list[l] # Unmapped}
HasSequential == ssd.sequential_logicalblock_address # Unmapped

(***************************************************************************)
(* The type of the FTL's tables.                                           *)
(***************************************************************************)
TypeOK ==
  /\ DeviceType(ssd.dev, Data)
  /\ ssd.data_list \in [LBlock -> Block \cup {Unmapped}]
  /\ ssd.sequential_offset \in 0..PagesPerBlock
  /\ ssd.sequential_logicalblock_address \in LBlock \cup {Unmapped}
  /\ Started => ssd.log_pages \in [Slot -> [address : Block, numPages : 0..PagesPerBlock,
                                    aPages : [Offset -> LPage \cup {Unmapped}]]]

(***************************************************************************)
(* The RW log blocks are filled in order: those before the one that        *)
(* log_page_next is in are full, those behind it are empty. The loop of    *)
(* write_to_log_block() that looks for one with room relies on it, and     *)
(* would otherwise leave the list or write over an entry.                  *)
(***************************************************************************)
LogFilledInOrder ==
  Started => \A k \in Slot :
    ssd.log_pages[k].numPages =
      Max({0, Min({PagesPerBlock, ssd.log_page_next - (k - 1) * PagesPerBlock})})

(***************************************************************************)
(* Every block that the manager has handed out is the data block of one    *)
(* logical block, an RW log block, the SW log block, or once on free_list  *)
(* or invalid_list, and never two of these, through switches and merges.   *)
(* trim() breaks it: an RW log block that it erases goes to free_list and  *)
(* stays in use.                                                           *)
(***************************************************************************)
BlocksPartitioned ==
  LET owned == [l \in DataBlocks |-> ssd.data_list[l]]
      logs == {ssd.log_pages[k].address : k \in Slot}
      sw == IF HasSequential THEN {ssd.sequential_address} ELSE {}
      idle == ssd.bm.free \o ssd.bm.invalid
  IN  Started =>
        /\ IsInjective(owned) /\ IsInjective(idle)
        /\ Cardinality(logs) = FAST_LOG_PAGE_LIMIT
        /\ UNION {Range(owned), logs, sw, Range(idle)} = {b \in Block : b < ssd.bm.next}
        /\ Cardinality(DataBlocks) + Cardinality(logs) + Cardinality(sw) + Len(idle)
             = ssd.bm.next

(***************************************************************************)
(* data_active counts the data blocks and the SW log block, and log_active *)
(* the RW log blocks; insert_events() takes them for what is in use.       *)
(***************************************************************************)
ActiveCounted ==
  Started =>
    /\ ssd.bm.active.DATA = Cardinality(DataBlocks) + (IF HasSequential THEN 1 ELSE 0)
    /\ ssd.bm.active.LOG = FAST_LOG_PAGE_LIMIT

(***************************************************************************)
(* No assertion of the FTL, the manager or the pages fails: every page     *)
(* that is written is EMPTY and there is always a block to take.           *)
(***************************************************************************)
AssertsHold == ~ssd.aborted

(***************************************************************************)
(* A read after a write returns what was written last. It holds for a host *)
(* that writes its pages in turn, as do_seq() of run_correctness.cpp does. *)
(* Otherwise it fails: a page that does not continue the run of the SW log *)
(* block goes to offset 0 of a new one, where read() does not look for it, *)
(* and of two entries in the RW log blocks read() takes the older one.     *)
(***************************************************************************)
ReadsLastWrite ==
  Started => \A p \in LPage : stored[p] # NoData =>
    LET a == ReadAddr(ssd, p)
    IN  a \in Addr /\ ssd.dev.page[a] = "VALID" /\ ssd.dev.data[a] = stored[p]
=============================================================================
