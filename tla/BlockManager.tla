---------------------------- MODULE BlockManager ----------------------------
(***************************************************************************)
(* Block_manager of ssd_bm.cpp: which flash blocks are free, and how many  *)
(* are in use for data and for logs. An FTL keeps the device, the manager  *)
(* and its own tables in one record s with at least the fields             *)
(*   dev   the device (module Flash);                                      *)
(*   bm    the manager:                                                    *)
(*           next     simpleCurrentFree, in blocks: those from next on     *)
(*                    have never been handed out;                          *)
(*           free     free_list, a sequence; invalid  invalid_list;        *)
(*           active   data_active and log_active, by type.                 *)
(***************************************************************************)
EXTENDS Flash, Sequences, SequencesExt

CONSTANT SimpleCurrentFree   \* what the constructor may leave there, in blocks

ManagerAssumption == SimpleCurrentFree \subseteq 0..NumBlocks

\* The constructor sets everything but simpleCurrentFree.
FreshManager(n) == [next |-> n, free |-> <<>>, invalid |-> <<>>,
                    active |-> [DATA |-> 0, LOG |-> 0]]

\* get_page_block(): the blocks in order and, when all have been handed out,
\* the front of free_list, which assert() wants not empty.
HasFree(m) == m.next < NumBlocks \/ m.free # <<>>
NextFree(m) == IF m.next < NumBlocks THEN m.next ELSE Head(m.free)

Taken(m) == IF m.next < NumBlocks THEN [m EXCEPT !.next = @ + 1]
            ELSE [m EXCEPT !.free = Tail(@)]

\* get_free_block() of the given type; the block is NextFree of the manager.
GotBlock(s, type) ==
  [s EXCEPT !.bm = [Taken(s.bm) EXCEPT !.active[type] = @ + 1]]

promote_block(s) ==
  [s EXCEPT !.bm.active.DATA = @ + 1, !.bm.active.LOG = @ - 1]

erase_and_invalidate(s, b, type) ==
  [s EXCEPT !.dev = Erased(@, b), !.bm.free = Append(@, b),
            !.bm.active[type] = @ - 1]

\* invalidate(): the block waits on invalid_list for insert_events().
invalidate(s, b, type) ==
  [s EXCEPT !.bm.invalid = Append(@, b), !.bm.active[type] = @ - 1]

\* The number of blocks that get_page_block() can still hand out.
FreeCount(m) == NumBlocks - m.next + Len(m.free)
InUse(m) == {b \in Block : b < m.next} \ Range(m.free)
=============================================================================
