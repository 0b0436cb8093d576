-------------------------------- MODULE BAST --------------------------------
(***************************************************************************)
(* FtlImpl_Bast (bast_ftl.cpp): a logical block has a data block, with     *)
(* page i at offset i, and while it is written to a log block, where the   *)
(* pages are in the order of the writes and `pages' says where. A full log *)
(* block in order becomes the data block (switch), any other is merged     *)
(* with the data block into a new one. The number of log blocks is         *)
(* limited; the victim is merged or switched to make room.                 *)
(***************************************************************************)
EXTENDS BlockManager, FiniteSetsExt

CONSTANTS HostBlocks,            \* logical blocks that the host uses
          Data,                  \* what the host writes
          BAST_LOG_PAGE_LIMIT

BASTAssumption ==
  /\ HostBlocks \in 1..NumBlocks
  /\ BAST_LOG_PAGE_LIMIT \in Nat \ {0}
  /\ NoData \notin Data

VARIABLES ssd,      \* [dev, bm, log_map, data_list]
          stored    \* history: what the host wrote last to each logical page

vars == <<ssd, stored>>

LBlock == 0..(HostBlocks - 1)
LPage == 0..(HostBlocks * PagesPerBlock - 1)

Unmapped == -1
NewLogBlock(b) == [address |-> b, pages |-> [i \in Offset |-> Unmapped]]

Init ==
  /\ \E n \in SimpleCurrentFree :
       ssd = [dev |-> FreshDevice, bm |-> FreshManager(n), log_map |-> <<>>,
              data_list |-> [l \in LBlock |-> Unmapped]]
  /\ stored = [p \in LPage |-> NoData]

HasLog(s, l) == l \in DOMAIN s.log_map
InLog(s, l, i) == HasLog(s, l) /\ s.log_map[l].pages[i] # Unmapped

\* Where a logical page is, or Unmapped.
LogAddr(s, l, i) == PageAddr(s.log_map[l].address, s.log_map[l].pages[i])
Lookup(s, l, i) ==
  IF InLog(s, l, i) THEN LogAddr(s, l, i)
  ELSE IF s.data_list[l] = Unmapped THEN Unmapped
  ELSE PageAddr(s.data_list[l], i)

\* The address that read() issues: page 0 for what is unmapped or trimmed.
ReadAddr(s, p) ==
  LET a == Lookup(s, BlockOf(p), OffsetOf(p))
  IN  IF a = Unmapped THEN 0 ELSE IF s.dev.page[a] = "INVALID" THEN 0 ELSE a
-----------------------------------------------------------------------------
dispose_logblock(s, l) ==
  [s EXCEPT !.log_map = [m \in DOMAIN s.log_map \ {l} |-> s.log_map[m]]]

\* A slip: the replaced data block is not erased.
WithoutDataKept(s, l) == s

WithoutData(s, l) ==
  IF s.data_list[l] = Unmapped THEN s
  ELSE erase_and_invalidate(s, s.data_list[l], "DATA")

\* is_sequential(): the test, and the switch that follows.
Sequential(log) == \A i \in Offset : log.pages[i] = i
Switched(s, l) ==
  LET t == WithoutData(promote_block(s), l)
  IN  dispose_logblock([t EXCEPT !.data_list[l] = s.log_map[l].address], l)

\* A slip: a page of the data block wins over the log block.
MergeSourcesData(s, l) ==
  [i \in Offset |-> IF s.data_list[l] # Unmapped THEN PageAddr(s.data_list[l], i)
                    ELSE Lookup(s, l, i)]

\* The pages that random_merge() reads, and the new data block with their copies.
MergeSources(s, l) == [i \in Offset |-> Lookup(s, l, i)]
Copied(s, l, b) ==
  LET from == MergeSources(s, l)
      C == {i \in Offset : from[i] # Unmapped /\ s.dev.page[from[i]] = "VALID"}
      here(a) == BlockOf(a) = b /\ OffsetOf(a) \in C
  IN  [page |-> [a \in Addr |-> IF here(a) THEN "VALID" ELSE s.dev.page[a]],
       data |-> [a \in Addr |-> IF here(a) THEN s.dev.data[from[OffsetOf(a)]]
                                ELSE s.dev.data[a]],
       written |-> [s.dev.written EXCEPT ![b] = Cardinality(C)]]

\* random_merge() erases the log block and the data block it read from, so that
\* the invalidation of the copied pages shows nowhere.
random_merge(s, l) ==
  LET b == NextFree(s.bm)
      t == [GotBlock(s, "DATA") EXCEPT !.dev = Copied(s, l, b)]
      u == WithoutData(erase_and_invalidate(t, t.log_map[l].address, "LOG"), l)
  IN  dispose_logblock([u EXCEPT !.data_list[l] = b], l)

\* The log block goes: switched if it is in order, else merged.
Cleaned(s, l) ==
  IF Sequential(s.log_map[l]) THEN Switched(s, l) ELSE random_merge(s, l)

\* allocate_new_logblock(), with the victim it may pick: random() % size - 1
\* steps from the first entry, so never the last one of several.
Victims(s) ==
  IF Cardinality(DOMAIN s.log_map) = 1 THEN DOMAIN s.log_map
  ELSE DOMAIN s.log_map \ {Max(DOMAIN s.log_map)}
MustClean(s) == Cardinality(DOMAIN s.log_map) >= BAST_LOG_PAGE_LIMIT
Roomy(s) == IF MustClean(s) THEN {Cleaned(s, v) : v \in Victims(s)} ELSE {s}
WithLog(s, l) ==
  [GotBlock(s, "LOG") EXCEPT !.log_map =
     [m \in DOMAIN s.log_map \cup {l} |->
        IF m = l THEN NewLogBlock(NextFree(s.bm)) ELSE s.log_map[m]]]
-----------------------------------------------------------------------------
\* The replace address of a write: the page's data page if that is not EMPTY,
\* and else its old log page.
ReplaceAddr(s, l, i) ==
  IF s.data_list[l] # Unmapped /\ s.dev.page[PageAddr(s.data_list[l], i)] # "EMPTY"
  THEN PageAddr(s.data_list[l], i)
  ELSE IF InLog(s, l, i) THEN LogAddr(s, l, i) ELSE Unmapped

\* The write goes to the next page of l's log block.
Appended(s, l, i, x) ==
  LET b == s.log_map[l].address
      n == s.dev.written[b]
      d == Replaced(Wrote(s.dev, FreePage(s.dev, b), x), ReplaceAddr(s, l, i))
  IN  [s EXCEPT !.dev = d, !.log_map[l].pages[i] = n]

LogFull(s, l) == s.dev.written[s.log_map[l].address] >= PagesPerBlock

\* The states in which write() can find the log block, after allocation.
BeforeAppend(s, l) ==
  LET with == IF HasLog(s, l) THEN {s} ELSE {WithLog(r, l) : r \in Roomy(s)}
      again(t) == {WithLog(r, l) : r \in Roomy(Cleaned(t, l))}
  IN  UNION {IF LogFull(t, l) THEN again(t) ELSE {t} : t \in with}

\* get_free_block() asserts that there is a free block. A merge gives back one
\* at least before the new log block is taken.
write(p, x) ==
  LET l == BlockOf(p)
      i == OffsetOf(p)
  IN  /\ HasFree(ssd.bm)
      /\ \E s \in BeforeAppend(ssd, l) : ssd' = Appended(s, l, i, x)
      /\ stored' = [stored EXCEPT ![p] = x]

\* A slip: the erased log block stays mapped.
TrimmedLogMapped(s, l, i) ==
  LET t == [s EXCEPT !.dev = Invalidated(@, LogAddr(s, l, i)),
                     !.log_map[l].pages[i] = Unmapped]
      b == s.log_map[l].address
  IN  IF BlockState(t.dev, b) = "INACTIVE" THEN erase_and_invalidate(t, b, "LOG")
      ELSE t

\* trim() invalidates the log page and the data page; a block without a page
\* that is not INVALID is erased at once.
TrimmedLog(s, l, i) ==
  LET t == [s EXCEPT !.dev = Invalidated(@, LogAddr(s, l, i)),
                     !.log_map[l].pages[i] = Unmapped]
      b == s.log_map[l].address
  IN  IF BlockState(t.dev, b) = "INACTIVE"
      THEN erase_and_invalidate(dispose_logblock(t, l), b, "LOG") ELSE t

TrimmedData(s, l, i) ==
  LET b == s.data_list[l]
      t == [s EXCEPT !.dev = Invalidated(@, PageAddr(b, i))]
  IN  IF BlockState(t.dev, b) = "INACTIVE"
      THEN erase_and_invalidate([t EXCEPT !.data_list[l] = Unmapped], b, "DATA")
      ELSE t

trim(p) ==
  LET l == BlockOf(p)
      i == OffsetOf(p)
      t == IF InLog(ssd, l, i) THEN TrimmedLog(ssd, l, i) ELSE ssd
  IN  /\ ssd' = IF t.data_list[l] = Unmapped THEN t ELSE TrimmedData(t, l, i)
      /\ stored' = [stored EXCEPT ![p] = NoData]

\* The host writes something new: to the FTL one value is like another.
Next == \E p \in LPage : trim(p) \/ \E x \in Data \ {stored[p]} : write(p, x)

Spec == Init /\ [][Next]_vars
-----------------------------------------------------------------------------
DataBlocks == {l \in LBlock : ssd.data_list[l] # Unmapped}
LogBlocks == DOMAIN ssd.log_map

(***************************************************************************)
(* The type of the FTL's tables; there are never more log blocks than      *)
(* BAST_LOG_PAGE_LIMIT.                                                    *)
(***************************************************************************)
TypeOK ==
  /\ DeviceType(ssd.dev, Data)
  /\ ssd.data_list \in [LBlock -> Block \cup {Unmapped}]
  /\ \A l \in LogBlocks :
       ssd.log_map[l] \in [address : Block, pages : [Offset -> Offset \cup {Unmapped}]]
  /\ Cardinality(LogBlocks) <= BAST_LOG_PAGE_LIMIT
  /\ stored \in [LPage -> Data \cup {NoData}]

(***************************************************************************)
(* A read after a write returns what was written last, however many        *)
(* switches, merges, evictions and trims of other pages came in between:   *)
(* the page that FtlImpl_Bast::read() issues is VALID and holds it.        *)
(***************************************************************************)
ReadsLastWrite ==
  \A p \in LPage : stored[p] # NoData =>
    /\ ssd.dev.page[ReadAddr(ssd, p)] = "VALID"
    /\ ssd.dev.data[ReadAddr(ssd, p)] = stored[p]

(***************************************************************************)
(* Every block that the manager has handed out is the data block of one    *)
(* logical block, the log block of one, or once on free_list, and never    *)
(* two of these: no block is lost, and none is erased under its user.      *)
(***************************************************************************)
BlocksPartitioned ==
  LET owned == {<<"data", l>> : l \in DataBlocks} \cup {<<"log", l>> : l \in LogBlocks}
      block(o) == IF o[1] = "data" THEN ssd.data_list[o[2]]
                  ELSE ssd.log_map[o[2]].address
  IN  /\ IsInjective(ssd.bm.free)
      /\ {block(o) : o \in owned} = InUse(ssd.bm)
      /\ \A o, q \in owned : block(o) = block(q) => o = q

(***************************************************************************)
(* data_active and log_active of the block manager, which promote_block(), *)
(* get_free_block() and erase_and_invalidate() move up and down, are the   *)
(* numbers of data and log blocks in the FTL's tables.                     *)
(***************************************************************************)
ActiveCounted ==
  /\ ssd.bm.active.DATA = Cardinality(DataBlocks)
  /\ ssd.bm.active.LOG = Cardinality(LogBlocks)

(***************************************************************************)
(* Page::_write() asserts that the page is EMPTY: the next page of every   *)
(* log block that is not full is, and so is every page on free_list.       *)
(***************************************************************************)
WritesGoToEmptyPages ==
  /\ \A l \in LogBlocks : ~LogFull(ssd, l) =>
       ssd.dev.page[FreePage(ssd.dev, ssd.log_map[l].address)] = "EMPTY"
  /\ \A b \in Range(ssd.bm.free) : BlockState(ssd.dev, b) = "FREE"

(***************************************************************************)
(* With one block more than the host's data blocks and the log blocks can  *)
(* take, get_page_block() never finds free_list empty.                     *)
(***************************************************************************)
NeverOutOfBlocks == FreeCount(ssd.bm) >= 1
=============================================================================
