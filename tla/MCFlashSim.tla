----------------------------- MODULE MCFlashSim -----------------------------
(***************************************************************************)
(* The FTLs of FlashSim for TLC. `unit' is the one that a behaviour is     *)
(* about: one of the three that FTL_IMPLEMENTATION chooses, with the       *)
(* host's requests limited in one of several ways. A behaviour leaves the  *)
(* variables of the others idle.                                           *)
(***************************************************************************)
EXTENDS Integers, TLC

CONSTANTS NoData, Idle,    \* no data, and no value, model values
          HostData         \* what the host writes

VARIABLES unit,
          ssd, stored,
          writes, trims,     \* FAST
          time               \* DFTL

fastVars == <<writes, trims>>
vars == <<unit, ssd, stored, fastVars, time>>

\* One block more than two data blocks and one log block need.
Bast == INSTANCE BAST
          WITH NumBlocks <- 4, PagesPerBlock <- 2, HostBlocks <- 2,
               BAST_LOG_PAGE_LIMIT <- 1, SimpleCurrentFree <- {0}, Data <- HostData

\* Writes anywhere; writes of the pages in turn; and one trim among the writes.
FastRandom == INSTANCE FAST
          WITH NumBlocks <- 8, PagesPerBlock <- 2, HostBlocks <- 2,
               FAST_LOG_PAGE_LIMIT <- 2, GcPercent <- 90, NumToErase <- 5,
               LowWater <- 5, SimpleCurrentFree <- {0}, Data <- {"x"},
               SequentialHost <- FALSE, MaxWrites <- 11, MaxTrims <- 0
FastSequential == INSTANCE FAST
          WITH NumBlocks <- 8, PagesPerBlock <- 2, HostBlocks <- 2,
               FAST_LOG_PAGE_LIMIT <- 2, GcPercent <- 90, NumToErase <- 5,
               LowWater <- 5, SimpleCurrentFree <- {0}, Data <- HostData,
               SequentialHost <- TRUE, MaxWrites <- 30, MaxTrims <- 0
FastTrim == INSTANCE FAST
          WITH NumBlocks <- 8, PagesPerBlock <- 2, HostBlocks <- 2,
               FAST_LOG_PAGE_LIMIT <- 2, GcPercent <- 90, NumToErase <- 5,
               LowWater <- 5, SimpleCurrentFree <- {0}, Data <- {"x"},
               SequentialHost <- FALSE, MaxWrites <- 8, MaxTrims <- 1

\* Reads and writes; writes; and writes and trims. Each collects garbage from its
\* fifth request on, when 40 % of the blocks count as in use, with requests
\* enough after that to take the erased blocks again.
DftlReads == INSTANCE DFTL
          WITH ftl <- ssd, NumBlocks <- 5, PagesPerBlock <- 2,
               HostPages <- {0, 1, 2}, totalCMTentries <- 2, addressPerPage <- 2,
               GcPercent <- 40, NumToErase <- 5, SimpleCurrentFree <- {0},
               Op <- {"READ", "WRITE"}, MaxRequests <- 8
DftlWrites == INSTANCE DFTL
          WITH ftl <- ssd, NumBlocks <- 5, PagesPerBlock <- 2,
               HostPages <- {0, 1, 2}, totalCMTentries <- 2, addressPerPage <- 2,
               GcPercent <- 40, NumToErase <- 5, SimpleCurrentFree <- {0},
               Op <- {"WRITE"}, MaxRequests <- 12
DftlTrims == INSTANCE DFTL
          WITH ftl <- ssd, NumBlocks <- 5, PagesPerBlock <- 2,
               HostPages <- {0, 1}, totalCMTentries <- 1, addressPerPage <- 2,
               GcPercent <- 40, NumToErase <- 5, SimpleCurrentFree <- {0},
               Op <- {"WRITE", "TRIM"}, MaxRequests <- 10

ASSUME FlashSimAssumption ==
  /\ Bast!FlashAssumption /\ Bast!ManagerAssumption /\ Bast!BASTAssumption
  /\ FastRandom!FASTAssumption /\ FastSequential!FASTAssumption
  /\ FastTrim!FASTAssumption
  /\ DftlReads!DFTLAssumption /\ DftlWrites!DFTLAssumption
  /\ DftlTrims!DFTLAssumption

Fast == {"fast random", "fast sequential", "fast trim"}
Dftl == {"dftl reads", "dftl writes", "dftl trims"}
Unit == {"bast"} \cup Fast \cup Dftl

Init ==
  /\ unit \in Unit
  /\ CASE unit = "bast" -> Bast!Init
       [] unit \in Fast -> FastRandom!Init
       [] unit = "dftl reads" -> DftlReads!Init
       [] unit = "dftl writes" -> DftlWrites!Init
       [] unit = "dftl trims" -> DftlTrims!Init
  /\ unit \notin Fast => writes = Idle /\ trims = Idle
  /\ unit \notin Dftl => time = Idle

BastStep == unit = "bast" /\ Bast!Next /\ UNCHANGED <<fastVars, time>>

FastStep ==
  /\ \/ unit = "fast random" /\ FastRandom!Next
     \/ unit = "fast sequential" /\ FastSequential!Next
     \/ unit = "fast trim" /\ FastTrim!Next
  /\ UNCHANGED time

DftlStep ==
  /\ \/ unit = "dftl reads" /\ DftlReads!Next
     \/ unit = "dftl writes" /\ DftlWrites!Next
     \/ unit = "dftl trims" /\ DftlTrims!Next
  /\ UNCHANGED fastVars

Next == (BastStep \/ FastStep \/ DftlStep) /\ UNCHANGED unit

Spec == Init /\ [][Next]_vars

\* No property tells one element of HostData from another.
Symmetry == Permutations(HostData)
-----------------------------------------------------------------------------
(***************************************************************************)
(* What every FTL promises: a read finds what was written last. BAST keeps *)
(* it through switches, merges, evictions of log blocks and trims          *)
(* (BAST.tla); FAST for a host that writes its pages in turn, over several *)
(* rounds of the device (FAST.tla); DFTL with pages read and trimmed       *)
(* before and after the cleanup of their blocks has moved them (DFTL.tla). *)
(***************************************************************************)
ReadsLastWrite ==
  /\ unit = "bast" => Bast!ReadsLastWrite
  /\ unit = "fast sequential" => FastSequential!ReadsLastWrite
  /\ unit = "dftl reads" => DftlReads!ReadsLastWrite
  /\ unit = "dftl writes" => DftlWrites!ReadsLastWrite
  /\ unit = "dftl trims" => DftlTrims!ReadsLastWrite

(***************************************************************************)
(* No block of the device is lost, and none has two uses at a time, on     *)
(* free_list, under a logical block or waiting for its erase; and the      *)
(* block manager's counts of data and log blocks, by which insert_events() *)
(* decides, are what the FTL's tables hold. So it is with BAST, and with   *)
(* FAST while the host does not trim (BAST.tla, FAST.tla).                 *)
(***************************************************************************)
BlocksAccounted ==
  /\ unit = "bast" => Bast!BlocksPartitioned /\ Bast!ActiveCounted
  /\ unit = "fast random" => FastRandom!BlocksPartitioned /\ FastRandom!ActiveCounted

(***************************************************************************)
(* No assertion fails: the FTLs write EMPTY pages only, and BAST, with one *)
(* block to spare, never finds free_list empty although the merge that     *)
(* makes room takes a block before it gives two back. FAST fills its RW    *)
(* log blocks in order, as the search of write_to_log_block() relies on,   *)
(* with a trim among the writes too (BAST.tla, FAST.tla, DFTL.tla).        *)
(***************************************************************************)
AssertsHold ==
  /\ unit = "bast" =>
       Bast!TypeOK /\ Bast!WritesGoToEmptyPages /\ Bast!NeverOutOfBlocks
  /\ unit = "fast random" =>
       FastRandom!TypeOK /\ FastRandom!AssertsHold /\ FastRandom!LogFilledInOrder
  /\ unit = "fast trim" => FastTrim!LogFilledInOrder
  /\ unit = "dftl reads" => DftlReads!TypeOK /\ DftlReads!AssertsHold
  /\ unit = "dftl writes" => DftlWrites!TypeOK /\ DftlWrites!AssertsHold
  /\ unit = "dftl trims" => DftlTrims!AssertsHold

(***************************************************************************)
(* The tables of DFTL agree: cmt, by which it decides to evict a mapping,  *)
(* is the number of cached mappings, through evictions, cleanups, reads    *)
(* and writes, as long as no page is trimmed; and reverse_trans_map and    *)
(* trans_map agree on every VALID page, so that a cleanup moves each page  *)
(* for its owner, with trims too and in blocks that were erased and taken  *)
(* again (DFTL.tla).                                                       *)
(***************************************************************************)
DftlTablesAgree ==
  /\ unit = "dftl reads" => DftlReads!CmtCounted /\ DftlReads!ReverseMapped
  /\ unit = "dftl writes" => DftlWrites!CmtCounted /\ DftlWrites!ReverseMapped
  /\ unit = "dftl trims" => DftlTrims!ReverseMapped
=============================================================================
