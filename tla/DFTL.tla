-------------------------------- MODULE DFTL --------------------------------
(***************************************************************************)
(* FtlImpl_Dftl (dftl_ftl.cpp, dftl_parent.cpp) and the part of the block  *)
(* manager that collects garbage for it: page mapping, with a cached part  *)
(* of the map (CMT) whose entries are evicted by modified_ts, and blocks   *)
(* cleaned when most of the device is in use. insert_events() calls        *)
(* cleanup_block(), which takes pages from get_free_data_page(), which may *)
(* call insert_events() again.                                             *)
(*                                                                         *)
(* Request number t starts at time t. The magic numbers 0.90 and 5 of      *)
(* insert_events() are constants. A failed assertion sets `aborted'.       *)
(***************************************************************************)
EXTENDS BlockManager, FiniteSetsExt

CONSTANTS HostPages,         \* logical pages that the host uses
          Op,                \* the requests of the host
          MaxRequests,       \* bound on their number
          totalCMTentries, addressPerPage,
          GcPercent,         \* 90
          NumToErase         \* 5

DFTLAssumption ==
  /\ HostPages \subseteq Addr /\ HostPages # {}
  /\ Op \subseteq {"READ", "WRITE", "TRIM"}
  /\ {MaxRequests, totalCMTentries, addressPerPage, NumToErase} \subseteq Nat \ {0}
  /\ GcPercent \in 0..100

VARIABLES ftl,       \* the device, the manager and the tables of the FTL
          time,      \* number of requests served
          stored     \* history: the request that last wrote each page, or 0

vars == <<ftl, time, stored>>

None == -1
Time == 0..MaxRequests

Init ==
  /\ \E n \in SimpleCurrentFree :
       ftl = [dev |-> FreshDevice, bm |-> FreshManager(n),
              out_of_blocks |-> FALSE, current_writing_block |-> None,
              active_cost |-> [i \in 1..NumBlocks |-> i - 1],
              trans_map |-> [p \in HostPages |-> [ppn |-> None, create_ts |-> None,
                                 modified_ts |-> None, cached |-> FALSE]],
              by_modified |-> SetToSortSeq(HostPages, <),
              reverse_trans_map |-> [a \in Addr |-> None],
              cmt |-> 0, currentDataPage |-> None, aborted |-> FALSE]
  /\ time = 0
  /\ stored = [p \in HostPages |-> 0]

Abort(s) == [s EXCEPT !.aborted = TRUE]
-----------------------------------------------------------------------------
\* replace() of an ordered index: the element stays where it is if the order
\* allows it, and else goes behind the last one with a key not larger.
Repositioned(seq, e, key) ==
  LET i == CHOOSE j \in DOMAIN seq : seq[j] = e
      inPlace == /\ i > 1 => key[seq[i - 1]] <= key[e]
                 /\ i < Len(seq) => key[e] <= key[seq[i + 1]]
      rest == RemoveAt(seq, i)
      at == Cardinality({j \in DOMAIN rest : key[rest[j]] <= key[e]})
  IN  IF inPlace THEN seq ELSE InsertAt(rest, at + 1, e)

\* update_block(), behind every change of a block.
WithDevice(s, d, b) ==
  LET key == [c \in Range(s.active_cost) |-> PagesInvalid(d, c)]
  IN  [s EXCEPT !.dev = d, !.active_cost = Repositioned(@, b, key)]

\* trans_map.replace(): mpage_modified_ts_compare() puts what is not cached last.
WithEntry(s, p, e) ==
  LET map == [s.trans_map EXCEPT ![p] = e]
      key == [q \in HostPages |->
                IF map[q].cached THEN map[q].modified_ts ELSE MaxRequests + 2]
  IN  [s EXCEPT !.trans_map = map, !.by_modified = Repositioned(@, p, key)]

\* Block::invalidate_page() of the replace address of an event, if it has one.
WithoutPage(s, a) ==
  IF a \notin Addr THEN s ELSE WithDevice(s, Invalidated(s.dev, a), BlockOf(a))

\* A WRITE event, which Page::_write() accepts for an EMPTY page only.
Written(s, a, x, replace) ==
  IF s.dev.page[a] # "EMPTY" THEN Abort(s)
  ELSE WithoutPage(WithDevice(s, Wrote(s.dev, a, x), BlockOf(a)), replace)

update_translation_map(s, p, a) ==
  LET e == [s.trans_map[p] EXCEPT !.ppn = a]
  IN  [WithEntry(s, p, e) EXCEPT !.reverse_trans_map[a] = p]
-----------------------------------------------------------------------------
RECURSIVE insert_events(_)

\* get_free_block(DATA): get_page_block() collects garbage when it is down to
\* the last free block, unless that is what it is doing.
TakenBlock(s) ==
  LET b == NextFree(s.bm)
  IN  IF s.aborted \/ ~HasFree(s.bm) THEN Abort(s)
      ELSE [GotBlock(s, "DATA") EXCEPT !.current_writing_block = b,
              !.currentDataPage = PageAddr(b, 0),
              !.out_of_blocks = IF s.bm.next < NumBlocks THEN @ ELSE FALSE]
get_free_block(s) ==
  TakenBlock(IF s.bm.next >= NumBlocks /\ Len(s.bm.free) <= 1 /\ ~s.out_of_blocks
             THEN insert_events([s EXCEPT !.out_of_blocks = TRUE]) ELSE s)

\* get_free_data_page(): the page is currentDataPage of the result.
BlockDone(s) == s.currentDataPage = None
                  \/ OffsetOf(s.currentDataPage) = PagesPerBlock - 1
NextPage(s) ==
  IF s.aborted THEN s
  ELSE IF BlockDone(s) THEN get_free_block(s)
  ELSE [s EXCEPT !.currentDataPage = @ + 1]
get_free_data_page(s, insert) ==
  NextPage(IF s.currentDataPage = None \/ (BlockDone(s) /\ insert)
           THEN insert_events(s) ELSE s)

\* cleanup_block(): copy what is valid from page i of block b on; `moved' is
\* invalidated_translation, from logical page to new address. An erase leaves
\* the bytes, so that what is copied may outlive its page.
CopiedPage(s, a, data) ==
  Written(s, s.currentDataPage, IF s.dev.page[a] = "EMPTY" THEN data ELSE s.dev.data[a], a)

RECURSIVE CopiedFrom(_, _, _, _)

\* Page i is copied to the page that s, the state behind get_free_data_page(),
\* has taken for it.
CopyNext(s, b, i, moved, data) ==
  LET p == s.reverse_trans_map[PageAddr(b, i)]
  IN  IF s.aborted THEN [s |-> s, moved |-> moved]
      ELSE CopiedFrom(CopiedPage(s, PageAddr(b, i), data), b, i + 1,
                      [q \in DOMAIN moved \cup {p} |->
                         IF q = p THEN s.currentDataPage ELSE moved[q]])

CopiedFrom(s, b, i, moved) ==
  LET a == PageAddr(b, i)
  IN  IF s.aborted \/ i = PagesPerBlock THEN [s |-> s, moved |-> moved]
      ELSE IF s.dev.page[a] = "EMPTY" THEN [s |-> Abort(s), moved |-> moved]
      ELSE IF s.dev.page[a] = "INVALID" THEN CopiedFrom(s, b, i + 1, moved)
      ELSE CopyNext(get_free_data_page(s, FALSE), b, i, moved, s.dev.data[a])

\* A slip: the entry is cached, but not counted.
RememberUncounted(s, p, now) ==
  LET e == s.trans_map[p]
  IN  WithEntry(s, p, [e EXCEPT !.modified_ts = now, !.cached = TRUE,
                         !.create_ts = IF e.cached THEN @ ELSE now])

\* The mapping of a page that was moved is cached afterwards.
Remember(s, p, now) ==
  LET e == s.trans_map[p]
  IN  [WithEntry(s, p, [e EXCEPT !.modified_ts = now, !.cached = TRUE,
                          !.create_ts = IF e.cached THEN @ ELSE now])
         EXCEPT !.cmt = IF e.cached THEN @ ELSE @ + 1]

\* A slip: the page that was moved keeps its old address.
RemappedNowhere(s, p, a) == Remember(s, p, time + 1)

Remapped(s, p, a) == Remember(update_translation_map(s, p, a), p, time + 1)

AllRemapped(s, moved) ==
  IF s.aborted THEN s
  ELSE FoldLeft(LAMBDA t, p : Remapped(t, p, moved[p]), s, SetToSortSeq(DOMAIN moved, <))
Cleaned(c) == AllRemapped(c.s, c.moved)
cleanup_block(s, b) == Cleaned(CopiedFrom(s, b, 0, <<>>))

ErasedBlock(s, b) ==
  IF s.aborted THEN s
  ELSE [WithDevice(s, Erased(s.dev, b), b) EXCEPT !.bm.free = Append(@, b)]

\* The loop of insert_events() over the blocks by pages_invalid; the block
\* being written is passed over.
LastOf(s) == IF s.active_cost[NumBlocks] = s.current_writing_block
             THEN NumBlocks - 1 ELSE NumBlocks
RECURSIVE Collected(_, _, _)
CollectMore(s, n) == Collected(s, LastOf(s), n)
Collected(s, c, n) ==
  LET b == s.active_cost[c]
  IN  IF \/ s.aborted \/ n = 0
         \/ PagesInvalid(s.dev, b) = 0 \/ s.dev.written[b] # PagesPerBlock
      THEN s
      ELSE CollectMore(IF b = s.current_writing_block THEN s
                       ELSE ErasedBlock(cleanup_block(s, b), b), n - 1)

\* Blocks are never subtracted from data_active here, so `used' never falls.
insert_events(s) ==
  LET inUse == s.bm.active.DATA - Len(s.bm.free)
  IN  IF 100 * inUse < GcPercent * NumBlocks THEN s
      ELSE Collected(s, NumBlocks, NumToErase)
-----------------------------------------------------------------------------
\* The cached entries of a translation page are written back together.
WrittenBack(s, p) ==
  [s EXCEPT !.trans_map = [q \in HostPages |->
     IF q \div addressPerPage = p \div addressPerPage /\ s.trans_map[q].cached
     THEN [s.trans_map[q] EXCEPT !.create_ts = s.trans_map[q].modified_ts]
     ELSE s.trans_map[q]]]

\* A slip: the entry that leaves is not counted.
EvictedUncounted(s, p) ==
  LET e == s.trans_map[p]
  IN  IF ~e.cached THEN Abort(s)
      ELSE WithEntry(s, p, [e EXCEPT !.cached = FALSE])

\* One entry leaves the cache.
Evicted(s, p) ==
  LET e == s.trans_map[p]
      t == IF e.create_ts # e.modified_ts THEN WrittenBack(s, p) ELSE s
  IN  IF ~(e.cached /\ e.create_ts >= 0 /\ e.modified_ts >= 0) THEN Abort(s)
      ELSE [WithEntry(t, p, [e EXCEPT !.cached = FALSE, !.create_ts = -2,
                                      !.modified_ts = -2]) EXCEPT !.cmt = @ - 1]

RECURSIVE evict_page_from_cache(_)
evict_page_from_cache(s) ==
  IF s.aborted \/ s.cmt < totalCMTentries THEN s
  ELSE evict_page_from_cache(Evicted(s, s.by_modified[1]))

evict_specific_page_from_cache(s, p) ==
  IF s.trans_map[p].cached THEN Evicted(s, p) ELSE s

\* An entry that differs in its two times is dirty.
Entered(e, now, isWrite) ==
  [e EXCEPT !.create_ts = now, !.modified_ts = IF isWrite THEN now + 1 ELSE now,
            !.cached = TRUE]

\* resolve_mapping(): on a hit the cache is cut down as well, perhaps by the
\* entry that was hit.
Enter(s, p, now, isWrite) ==
  [WithEntry(s, p, Entered(s.trans_map[p], now, isWrite)) EXCEPT !.cmt = @ + 1]
resolve_mapping(s, p, now, isWrite) ==
  IF ~s.trans_map[p].cached THEN Enter(evict_page_from_cache(s), p, now, isWrite)
  ELSE IF ~isWrite THEN evict_page_from_cache(s)
  ELSE evict_page_from_cache(WithEntry(s, p, [s.trans_map[p] EXCEPT !.modified_ts = now]))

Request(op) ==
  /\ ~ftl.aborted /\ op \in Op /\ time < MaxRequests
  /\ time' = time + 1

read(p) ==
  /\ Request("READ")
  /\ ftl' = resolve_mapping(ftl, p, time + 1, FALSE)
  /\ UNCHANGED stored

\* The page behind get_free_data_page() is written in place of page `old'.
WriteToPage(s, p, old) ==
  IF s.aborted THEN s
  ELSE Written(update_translation_map(s, p, s.currentDataPage),
               s.currentDataPage, time + 1, old)
WriteInPlace(s, p) == WriteToPage(s, p, s.trans_map[p].ppn)

\* "Important order. As get_free_data_page might change current."
\* A slip: the mapping is read before.
WriteTargetStale(s, p) ==
  WriteToPage(get_free_data_page(s, TRUE), p, s.trans_map[p].ppn)

WriteTarget(s, p) == WriteInPlace(get_free_data_page(s, TRUE), p)

write(p) ==
  /\ Request("WRITE")
  /\ ftl' = WriteTarget(resolve_mapping(ftl, p, time + 1, TRUE), p)
  /\ stored' = [stored EXCEPT ![p] = time + 1]

\* trim() takes its copy of the entry before the eviction and puts it back after
\* it. The reverse entry it sets is that of address -1, before the array.
trim(p) ==
  LET e == ftl.trans_map[p]
      s == WithDevice(ftl, Invalidated(ftl.dev, e.ppn), BlockOf(e.ppn))
  IN  /\ Request("TRIM")
      /\ ftl' = IF e.ppn = None THEN ftl
                ELSE WithEntry(evict_specific_page_from_cache(s, p), p,
                               [e EXCEPT !.ppn = None])
      /\ stored' = [stored EXCEPT ![p] = 0]

Next == \E p \in HostPages : read(p) \/ write(p) \/ trim(p)

Spec == Init /\ [][Next]_vars
-----------------------------------------------------------------------------
Cached == {p \in HostPages : ftl.trans_map[p].cached}

(***************************************************************************)
(* The type of the FTL's tables.                                           *)
(***************************************************************************)
TypeOK ==
  /\ DeviceType(ftl.dev, Time \ {0})
  /\ ftl.trans_map \in [HostPages -> [ppn : Addr \cup {None},
                          create_ts : -2..MaxRequests,
                          modified_ts : -2..(MaxRequests + 1), cached : BOOLEAN]]
  /\ ftl.reverse_trans_map \in [Addr -> HostPages \cup {None}]
  /\ ftl.cmt \in Nat
  /\ ftl.currentDataPage \in Addr \cup {None}

(***************************************************************************)
(* A read after a write returns what was written last, whatever was moved  *)
(* by cleanup_block() in between; run_correctness.cpp compares every page  *)
(* it reads. It holds as long as get_page_block() finds more than one free *)
(* block. When it does not, it collects garbage in the middle of a cleanup,*)
(* cleans the same block, and the outer cleanup goes on to erase the block *)
(* after it has been handed out again.                                     *)
(***************************************************************************)
ReadsLastWrite ==
  ~ftl.aborted => \A p \in HostPages : stored[p] # 0 =>
    LET a == ftl.trans_map[p].ppn
    IN  a \in Addr /\ ftl.dev.page[a] = "VALID" /\ ftl.dev.data[a] = stored[p]

(***************************************************************************)
(* reverse_trans_map, by which cleanup_block() finds whose page it moves,  *)
(* agrees with trans_map on every page that is VALID, and every VALID page *)
(* is some logical page's.                                                 *)
(***************************************************************************)
ReverseMapped ==
  ~ftl.aborted => \A a \in Addr : ftl.dev.page[a] = "VALID" =>
    LET p == ftl.reverse_trans_map[a]
    IN  p \in HostPages /\ ftl.trans_map[p].ppn = a

(***************************************************************************)
(* cmt, by which resolve_mapping() knows whether the CMT is full, is the   *)
(* number of cached mappings.                                              *)
(***************************************************************************)
CmtCounted == ~ftl.aborted => ftl.cmt = Cardinality(Cached)

(***************************************************************************)
(* No assertion of the FTL, the manager or the pages fails.                *)
(***************************************************************************)
AssertsHold == ~ftl.aborted
=============================================================================
