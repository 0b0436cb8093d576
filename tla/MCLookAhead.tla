---------------------------- MODULE MCLookAhead -----------------------------
(***************************************************************************)
(* The policies that look into the future of the trace, side by side:      *)
(* `policy' is the one that is configured. PageMinCache is at the first    *)
(* level or at the second. The variables of the policies not configured    *)
(* are idle.                                                               *)
(***************************************************************************)
EXTENDS Integers, Sequences

CONSTANTS Page, ssd2fsblkRatio,
          PageFile,               \* trace files for PageMinCache
          BlockFile,              \* trace files for the policies of blocks
          INF, Capacity, UpperCapacity, futureWindowSize,
          Idle                    \* a value that no variable has

VARIABLES policy, trace, pos,
          hashTable, maxHeap,                                  \* both MINs
          upperCapacity, key_to_value, upper, hits, aborted,   \* PageMin
          key_to_block, cacheNum,                              \* BlockMin
          pageSet, coldPageSet, distance, coldHeap, victimPull, currSize  \* Owbp

pageVars == <<upperCapacity, key_to_value, upper, hits, aborted>>
blockVars == <<key_to_block, cacheNum>>
owbpVars == <<pageSet, coldPageSet, distance, coldHeap, victimPull, currSize>>
vars == <<policy, trace, pos, hashTable, maxHeap, pageVars, blockVars, owbpVars>>

PageMIN == INSTANCE PageMin WITH File <- PageFile
BlockMIN == INSTANCE BlockMin WITH File <- BlockFile
OWBP == INSTANCE Owbp WITH File <- BlockFile

ASSUME LookAheadAssumption ==
  /\ PageMIN!TraceAssumption /\ PageMIN!PageMinAssumption
  /\ BlockMIN!TraceAssumption /\ BlockMIN!BlockMinAssumption
  /\ OWBP!TraceAssumption /\ OWBP!OwbpAssumption

NoPage == /\ upperCapacity = Idle /\ key_to_value = Idle /\ upper = Idle
          /\ hits = Idle /\ aborted = Idle
NoBlock == key_to_block = Idle /\ cacheNum = Idle
NoOwbp == /\ pageSet = Idle /\ coldPageSet = Idle /\ distance = Idle
          /\ coldHeap = Idle /\ victimPull = Idle /\ currSize = Idle

Init ==
  \/ policy = "pagemin" /\ PageMIN!Init /\ NoBlock /\ NoOwbp
  \/ policy = "blockmin" /\ BlockMIN!Init /\ NoPage /\ NoOwbp
  \/ policy = "owbp" /\ OWBP!Init /\ NoPage /\ NoBlock
                     /\ hashTable = Idle /\ maxHeap = Idle

PageMinStep ==
  policy = "pagemin" /\ PageMIN!Next /\ UNCHANGED <<blockVars, owbpVars>>
BlockMinStep ==
  policy = "blockmin" /\ BlockMIN!access /\ UNCHANGED <<pageVars, owbpVars>>
OwbpStep ==
  /\ policy = "owbp" /\ OWBP!access
  /\ UNCHANGED <<hashTable, maxHeap, pageVars, blockVars>>

Next == (PageMinStep \/ BlockMinStep \/ OwbpStep) /\ UNCHANGED policy

Spec == Init /\ [][Next]_vars
-----------------------------------------------------------------------------
(* The small instance. Blocks of three pages, of which the host uses three, *)
(* one and one. PageMinCache gets short files of reads and writes of up to  *)
(* two pages, and longer ones of single pages: writes of four pages, and    *)
(* reads and writes of three.                                               *)

SmallPage == {3, 4, 5, 6, 9}

\* Requests within a block for pages of SmallPage.
Requests(pages, sizes, ops) ==
  {r \in [page : pages, size : sizes, op : ops] :
     LET last == r.page + r.size - 1
     IN  last \in SmallPage /\ last \div 3 = r.page \div 3}

SmallPageFile ==
  [1..4 -> Requests({3, 4, 6}, {1, 2}, {"READ", "WRITE"})]
    \cup [1..6 -> Requests({3, 4, 5, 6}, {1}, {"WRITE"})]
    \cup [1..5 -> Requests({3, 4, 5}, {1}, {"READ", "WRITE"})]

SmallBlockFile == [1..4 -> Requests(SmallPage, 1..3, {"READ", "WRITE"})]
-----------------------------------------------------------------------------
(***************************************************************************)
(* The heap of next accesses, from which the MIN policies take their       *)
(* victims, is right. PageMinCache has one entry for every cached page, at *)
(* the second level of the hierarchy too, and at the first it is the       *)
(* page's true next access although one entry is replaced per access only  *)
(* (PageMin.tla). BlockMinCache has each cached block under the line of    *)
(* its next access, and cacheNum is the number of pages in its blocks,     *)
(* with blocks evicted whole; a block evicts itself only if no other is    *)
(* cached (BlockMin.tla).                                                  *)
(***************************************************************************)
MinCachesConsistent ==
  /\ policy = "pagemin" => PageMIN!HeapCoversCache /\ PageMIN!HeapMatchesFuture
  /\ policy = "blockmin" =>
       BlockMIN!HeapMatchesFuture /\ BlockMIN!PageCountRight /\ BlockMIN!OthersFirst

(***************************************************************************)
(* No assert of PageMinCache, BlockMinCache or nextAccess() fails at the   *)
(* first level: a key is still in the table whenever it is looked up, the  *)
(* entry of a hit is where it is looked for, whatever is read behind the   *)
(* last request. At either level the state is well typed, with no more     *)
(* pages than the capacity (PageMin.tla, BlockMin.tla).                    *)
(***************************************************************************)
MinAssertsHold ==
  /\ policy = "pagemin" => PageMIN!AssertsHold /\ PageMIN!TypeOK
  /\ policy = "blockmin" => BlockMIN!AssertsHold /\ BlockMIN!TypeOK

(***************************************************************************)
(* On traces of writes of one page each, PageMinCache has lost no hit that *)
(* any other policy would have had (PageMin.tla).                          *)
(***************************************************************************)
Optimal == policy = "pagemin" => PageMIN!Optimal

(***************************************************************************)
(* OwbpCache files each cached block once, in coldHeap or in victimPull,   *)
(* under its current metadata, and currSize is the number of pages in its  *)
(* blocks, at most the capacity (Owbp.tla).                                *)
(***************************************************************************)
OwbpConsistent ==
  policy = "owbp" => OWBP!TypeOK /\ OWBP!PagesCounted /\ OWBP!FiledOnce

(***************************************************************************)
(* On traces of writes the metadata of a block is true of the rest of the  *)
(* trace until the block is accessed again (Owbp.tla).                     *)
(***************************************************************************)
MetadataStaysTrue == policy = "owbp" => OWBP!MetadataStaysTrue
=============================================================================
