------------------------------ MODULE MCProgram -----------------------------
(***************************************************************************)
(* The parts of the two programs around the policies and beneath the FTLs  *)
(* for TLC. `part' is the one that a behaviour is about: of the simulator, *)
(* the configuration, the trace reader, the simulation loop, or the        *)
(* analysis program that is run after it; of FlashSim, a bus channel or    *)
(* the counters of the planes. The variables of the other parts are idle.  *)
(***************************************************************************)
EXTENDS Integers, Sequences

CONSTANTS Idle,                  \* model value
          ArgCount, Digits, Unit, ConfigPolicy, Kilo,             \* Configuration
          MaxLevelCount,          \* levels a file may ask for, or so many below 0
          TraceLine, TraceFile, MaxTraceLines, PageBytes, BlockPages,
          TicksPerSecond, UnixEpoch,                              \* TraceReader
          Levels, LoopPolicy, TraceSize, seqThreshold, App,       \* Simulator
          RunLength, ListSize, Summed, ClassStarts, MaxLogLines,  \* SeqLengthAnalysis
          LockDuration, MaxLockTime, MaxLocks, max_connections,   \* Channel
          NumBlocks, PagesPerBlock, NoData, PlaneSize, DieSize, PackageSize,
          SsdSize, BlockErases                                    \* FlashDevice

VARIABLES part,
          stage, level,      \* of Configuration and Simulator, or SeqLengthAnalysis
          argc, totalLevels, allocated, fsblkSize, cacheSize, ssd2fsblkRatio,
          policyName, window, pipe, inputTrace, log, diskSim, analysis,
          inputTraceFormat, writeOnly,
          file, newlineAtEnd, lineno, baseTime, newn, memTrace, maxLineNo, done,
          policy, size, op, stats, progress, threshold, outputs,
          blockNumList, lines, logged, report,
          timings, ready_at, num_connected, granted,
          dev, erases_remaining, free_blocks, least_worn

configVars == <<argc, totalLevels, allocated, fsblkSize, cacheSize, ssd2fsblkRatio,
                policyName, window, pipe, inputTrace, log, diskSim, analysis>>
readerVars == <<inputTraceFormat, writeOnly, file, newlineAtEnd, lineno, baseTime,
                newn, memTrace, maxLineNo, done>>
loopVars == <<policy, size, op, stats, progress, threshold, outputs>>
lengthVars == <<blockNumList, lines, logged, report>>
channelVars == <<timings, ready_at, num_connected, granted>>
deviceVars == <<dev, erases_remaining, free_blocks, least_worn>>
programVars == <<stage, level, configVars, readerVars, loopVars, lengthVars>>
vars == <<part, programVars, channelVars, deviceVars>>
-----------------------------------------------------------------------------
Config == INSTANCE Configuration
  WITH LevelCount <- (-MaxLevelCount)..MaxLevelCount, Policy <- ConfigPolicy

Reader == INSTANCE TraceReader
  WITH Line <- TraceLine, MaxLines <- MaxTraceLines, File <- TraceFile,
       fsblkSize <- PageBytes, ssd2fsblkRatio <- BlockPages,
       WINDOWS_TICK <- TicksPerSecond, SEC_TO_UNIX_EPOCH <- UnixEpoch

Loop == INSTANCE Simulator WITH Policy <- LoopPolicy

Lengths == INSTANCE SeqLengthAnalysis
  WITH Length <- RunLength, MaxLines <- MaxLogLines

Bus == INSTANCE Channel WITH Duration <- LockDuration, MaxTime <- MaxLockTime

Device == INSTANCE FlashDevice

ASSUME ProgramAssumption ==
  /\ Config!ConfigurationAssumption
  /\ Reader!ReaderAssumption
  /\ Loop!SimulatorAssumption /\ Lengths!SeqLengthAssumption
  /\ Bus!ChannelAssumption /\ Device!FlashAssumption /\ Device!FlashDeviceAssumption

\* The lines of small trace files, for pages of 2 bytes and blocks of 3 pages,
\* and the files: up to three lines, or four of a memory trace.
Line(form, first, type, off, bytes) ==
  [form |-> form, first |-> first, op |-> type, off |-> off, bytes |-> bytes]

Msr(ticks, type, off, bytes) == Line("msr", ticks, type, off, bytes)
Web(asu, type, off, bytes) == Line("web", asu, type, off, bytes)
Mem(form, page) == Line(form, 0, "", page, 1)

MsrLine ==
  {Msr(10, type, off, bytes) : type \in {"Read", "Write"}, off \in {0, 1, 5},
                               bytes \in {2, 3}}
    \cup {Msr(25, "Write", 2, 8), Msr(30, "Read", 0, 4),
          Msr(0, "Write", 0, 2), Msr(20, "ReadWrite", 0, 2),
          Msr(20, "Write", 8, 0)}

WebLine ==
  {Web(1, "W", 2, 4), Web(0, "R", 1, 0), Web(2, "R", 1, 3), Web(0, "X", 5, 2)}

MemLine == {Mem("mem", 1), Mem("mem", 2), Mem("blank", 0)}

SmallLine == MsrLine \cup WebLine \cup MemLine
SmallFile == UNION {[1..n -> MsrLine \cup WebLine] : n \in 0..3}
               \cup UNION {[1..n -> MemLine] : n \in 1..4}
-----------------------------------------------------------------------------
NoConfig ==
  /\ argc = Idle /\ totalLevels = Idle /\ allocated = Idle /\ fsblkSize = Idle
  /\ cacheSize = Idle /\ ssd2fsblkRatio = Idle /\ policyName = Idle
  /\ window = Idle /\ pipe = Idle /\ inputTrace = Idle /\ log = Idle
  /\ diskSim = Idle /\ analysis = Idle
NoReader ==
  /\ inputTraceFormat = Idle /\ writeOnly = Idle
  /\ file = Idle /\ newlineAtEnd = Idle /\ lineno = Idle /\ baseTime = Idle
  /\ newn = Idle /\ memTrace = Idle /\ maxLineNo = Idle /\ done = Idle
NoLoop ==
  /\ policy = Idle /\ size = Idle /\ op = Idle /\ stats = Idle
  /\ progress = Idle /\ threshold = Idle /\ outputs = {}
NoLengths == blockNumList = Idle /\ lines = Idle /\ logged = Idle /\ report = Idle
NoProgram ==
  stage = Idle /\ level = Idle /\ NoConfig /\ NoReader /\ NoLoop /\ NoLengths
NoChannel ==
  timings = Idle /\ ready_at = Idle /\ num_connected = Idle /\ granted = Idle
NoDevice ==
  dev = Idle /\ erases_remaining = Idle /\ free_blocks = Idle /\ least_worn = Idle

InitProgram ==
  \/ part = "configuration" /\ Config!Init /\ NoReader /\ NoLoop /\ NoLengths
  \/ /\ part = "reader" /\ Reader!Init
     /\ stage = Idle /\ level = Idle /\ NoConfig /\ NoLoop /\ NoLengths
  \/ part = "loop" /\ Loop!Init /\ NoConfig /\ NoReader /\ NoLengths
  \/ /\ part = "analysis" /\ Lengths!Init
     /\ level = Idle /\ NoConfig /\ NoReader /\ NoLoop

Init ==
  \/ InitProgram /\ NoChannel /\ NoDevice
  \/ part = "channel" /\ Bus!Init /\ NoProgram /\ NoDevice
  \/ part = "device" /\ Device!Init /\ NoProgram /\ NoChannel

ConfigStep ==
  /\ part = "configuration" /\ Config!Next
  /\ UNCHANGED <<readerVars, loopVars, lengthVars, channelVars, deviceVars>>

ReaderStep ==
  /\ part = "reader" /\ Reader!getAndParseTrace
  /\ UNCHANGED <<stage, level, configVars, loopVars, lengthVars>>
  /\ UNCHANGED <<channelVars, deviceVars>>

LoopStep ==
  /\ part = "loop" /\ Loop!Next
  /\ UNCHANGED <<configVars, readerVars, lengthVars, channelVars, deviceVars>>

AnalysisStep ==
  /\ part = "analysis" /\ Lengths!Next
  /\ UNCHANGED <<level, configVars, readerVars, loopVars, channelVars, deviceVars>>

ChannelStep ==
  part = "channel" /\ Bus!Next /\ UNCHANGED <<programVars, deviceVars>>

DeviceStep ==
  part = "device" /\ Device!Next /\ UNCHANGED <<programVars, channelVars>>

ProgramStep ==
  (ConfigStep \/ ReaderStep \/ LoopStep \/ AnalysisStep) /\ UNCHANGED part

Next == ProgramStep \/ ((ChannelStep \/ DeviceStep) /\ UNCHANGED part)

\* Each part of the simulator is sequential code of the only thread and waits for
\* nothing, so it takes its next step. The channel and the planes are only called.
Spec == Init /\ [][Next]_vars /\ WF_vars(ProgramStep)
-----------------------------------------------------------------------------
(***************************************************************************)
(* read() returns true only with every level read, an OWBP window if one   *)
(* is needed, ratios of a block size that is not 0, and, if there is a     *)
(* disk simulator, an out trace of the last level; the loop over the       *)
(* levels stays inside the arrays (Configuration.tla).                     *)
(***************************************************************************)
ReadyMeansComplete ==
  part = "configuration" =>
    Config!TypeOK /\ Config!ReadyMeansComplete /\ Config!LastLevelTraced

(***************************************************************************)
(* Each line of either format yields as many pages as its size fills, from *)
(* its first page on, as far as they are in one block, except for lines to *)
(* skip and, in a write-only run, reads. These are the pages that an MSR   *)
(* line touches, but for the last one if the line starts inside a page.    *)
(* Every page request names the block of its page and has the time since   *)
(* the first line of the file, even if that line is skipped                *)
(* (TraceReader.tla).                                                      *)
(***************************************************************************)
RequestsComplete ==
  part = "reader" =>
    Reader!RequestsComplete /\ Reader!AtomsInTheirBlock /\ Reader!TimesSinceFirstLine

(***************************************************************************)
(* Line numbers order the accesses of a page, as AccessOrdering and the    *)
(* MIN policies assert, for both trace formats, and none is beyond the end *)
(* of the file (TraceReader.tla).                                          *)
(***************************************************************************)
LinesOrderAccesses ==
  part = "reader" => Reader!TypeOK /\ Reader!LinesOrderAccesses

(***************************************************************************)
(* A level sees exactly the requests that the level above it has missed,   *)
(* and every reference counted at a level is a read or a write and a hit   *)
(* or a miss (Simulator.tla).                                              *)
(***************************************************************************)
LevelsChain ==
  part = "loop" => Loop!TypeOK /\ Loop!LevelsChain /\ Loop!StatsAddUp

(***************************************************************************)
(* The progress reported never goes back, and is 100 % just when the trace *)
(* is done (Simulator.tla).                                                *)
(***************************************************************************)
ProgressIsHonest == [][part = "loop" => Loop!Honest]_vars

(***************************************************************************)
(* Every run of the log is in exactly one size class of the report, and    *)
(* its pages are in the total, if none is as long as the part of the list  *)
(* that is summed (SeqLengthAnalysis.tla).                                 *)
(***************************************************************************)
ClassesPartition ==
  part = "analysis" =>
    Lengths!TypeOK /\ Lengths!ClassesPartition /\ Lengths!AllPagesReported

(***************************************************************************)
(* read() ends on every file and every command line; the reader reaches    *)
(* the end of the file, whatever lines it skips; and a simulation of two   *)
(* requests or more is not stopped, by the division in reportProgress() or *)
(* otherwise, before it has written its statistics (Configuration.tla,     *)
(* TraceReader.tla, Simulator.tla).                                        *)
(***************************************************************************)
ProgramEnds ==
  /\ part = "configuration" => Config!ReadEnds
  /\ part = "reader" => Reader!ReachesEnd
  /\ part = "loop" => Loop!EndsInStats

(***************************************************************************)
(* Two entries of a channel's scheduling table never overlap, in whichever *)
(* order the start times come, and the channel is not ready before the end *)
(* of any transmission that it granted (Channel.tla).                      *)
(***************************************************************************)
ChannelScheduleRight ==
  part = "channel" => Bus!TypeOK /\ Bus!TableDisjoint /\ Bus!ReadyAfterAll

(***************************************************************************)
(* free_blocks of a plane is the number of its FREE blocks, and            *)
(* get_least_worn() returns a block of the device: one with the most       *)
(* erases left, if the device is one plane of one or two blocks            *)
(* (FlashDevice.tla).                                                      *)
(***************************************************************************)
PlaneCountersRight ==
  part = "device" =>
    /\ Device!TypeOK /\ Device!FreeBlocksCounted
    /\ (PlaneSize <= 2 /\ DieSize = 1 /\ PackageSize = 1 /\ SsdSize = 1 =>
         Device!LeastWornIsLeastWorn)
=============================================================================
