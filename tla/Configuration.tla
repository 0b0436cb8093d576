---------------------------- MODULE Configuration ---------------------------
(***************************************************************************)
(* Configuration::read() of configuration.cpp: the arguments, the tree of  *)
(* keys of the configuration file, one pass over the cache levels, the     *)
(* disk simulator, the analysis program and the -s option. What the file   *)
(* says of a key is chosen when the key is read. The object is global: an  *)
(* exit() runs its destructor, an exception nobody catches does not.       *)
(***************************************************************************)
EXTENDS Integers, Sequences

CONSTANTS ArgCount,     \* values of argc
          LevelCount,   \* values of the key Global.levels
          Digits, Unit, \* numbers written in the file, and their suffixes
          Policy,       \* policy names
          Kilo          \* the factor of the suffix K, 1024 in the code

Empty == ""             \* a name that has not been read

ConfigurationAssumption ==
  /\ ArgCount \subseteq Nat /\ LevelCount \subseteq Int /\ Digits \subseteq Nat
  /\ Unit \subseteq {"none", "K", "M", "G", "lower"} /\ Kilo \in Nat \ {0}
  /\ Empty \notin Policy

MaxLevels == 4
None == 0               \* no level
\* A number as the file may write it, with no suffix or one of them: "lower"
\* stands for any but K, M, G.
Text == [digits : Digits, unit : Unit]

VARIABLES stage,        \* where read() is, or how it ended
          argc,
          totalLevels,
          allocated,    \* allocateArrays() has been called
          fsblkSize,
          level,        \* i of the loop over the levels, from 1
          cacheSize, ssd2fsblkRatio, policyName, \* the arrays, by level
          window,       \* futureWindowSize has been read
          pipe,         \* the level that cache2diskPipeFileName is of
          inputTrace,   \* the key Global.diskSimInputTrace is there
          log,          \* diskSimInputStream and diskSimInputTraceName
          diskSim, analysis

levelVars == <<cacheSize, ssd2fsblkRatio, policyName, window, pipe, log>>
appVars == <<diskSim, analysis>>
globalVars == <<argc, totalLevels, allocated, fsblkSize, inputTrace>>
vars == <<stage, level, globalVars, levelVars, appVars>>

Init ==
  /\ stage = "arguments" /\ argc \in ArgCount
  /\ totalLevels = 0 /\ allocated = FALSE /\ fsblkSize = 0 /\ level = 1
  /\ cacheSize = <<>> /\ ssd2fsblkRatio = <<>> /\ policyName = <<>>
  /\ window = FALSE /\ pipe = None
  /\ inputTrace = FALSE
  /\ log = [open |-> None, name |-> None, failed |-> FALSE]
  /\ diskSim = FALSE /\ analysis = FALSE

Final == {"ready", "exited", "terminated", "crashed"}

\* A number without a suffix is converted as a whole; of K, M and G the digits
\* before the suffix are; anything else leaves the 0 the result started with.
myString2intConverter(t) ==
  CASE t.unit = "none" -> t.digits
    [] t.unit = "K" -> t.digits * Kilo
    [] t.unit = "M" -> t.digits * Kilo * Kilo
    [] t.unit = "G" -> t.digits * Kilo * Kilo * Kilo
    [] t.unit = "lower" -> 0

\* How exit() ends: the destructor closes outTraceStream[i] for i < totalLevels,
\* whether the array is there or not.
Exits(n, arrays) == IF n > 0 /\ ~arrays THEN "crashed" ELSE "exited"
-----------------------------------------------------------------------------
\* Fewer than three arguments (the caller prints the usage and exits), or stdin.
RefuseArguments ==
  /\ stage = "arguments"
  /\ stage' = Exits(totalLevels, allocated)
  /\ UNCHANGED <<level, globalVars, levelVars, appVars>>

TakeArguments ==
  /\ stage = "arguments" /\ argc >= 4
  /\ stage' = "tree"
  /\ UNCHANGED <<level, globalVars, levelVars, appVars>>

\* No such file, a required key is missing, or a key has no value of its type:
\* an exception leaves read(), and nobody catches it.
KeyMissing ==
  /\ stage \in {"tree", "levels", "disk", "analysis"}
  /\ stage' = "terminated"
  /\ UNCHANGED <<level, globalVars, levelVars, appVars>>

\* A negative number of levels passes the test, and allocateArrays() throws.
RefuseLevels ==
  \E n \in LevelCount :
    /\ stage = "tree" /\ n \notin 1..MaxLevels
    /\ totalLevels' = n
    /\ stage' = IF n < 0 THEN "terminated" ELSE Exits(n, allocated)
    /\ UNCHANGED <<argc, allocated, fsblkSize, inputTrace, level, levelVars, appVars>>

\* The other keys of the section Global: those that change no decision of read()
\* (logFile, writeOnly, the trace format, seqThreshold) are left out.
ReadGlobal ==
  \E n \in LevelCount, size \in Text :
    /\ stage = "tree" /\ n \in 1..MaxLevels
    /\ totalLevels' = n /\ allocated' = TRUE
    /\ fsblkSize' = myString2intConverter(size)
    /\ inputTrace' \in BOOLEAN
    /\ cacheSize' = [l \in 1..n |-> 0]
    /\ ssd2fsblkRatio' = [l \in 1..n |-> 0]
    /\ policyName' = [l \in 1..n |-> Empty]
    /\ stage' = "levels"
    /\ UNCHANGED <<argc, level, window, pipe, log, appVars>>

\* blkSize / fsBlkSize with a file system block size of 0.
DivideByZero ==
  /\ stage = "levels" /\ fsblkSize = 0
  /\ stage' = "crashed"
  /\ UNCHANGED <<level, globalVars, levelVars, appVars>>

\* ofstream::open() of a stream that is open fails and leaves its file as it is.
LogOpened ==
  IF ~inputTrace THEN log
  ELSE [open |-> IF log.open = None THEN level ELSE log.open,
        name |-> level,
        failed |-> log.open # None]

\* A slip: the out trace of any level is taken for that of the last one.
PipeOfAny(out) == IF out THEN level ELSE pipe
\* The out trace that cache2diskPipeFileName names.
Pipe(out) == IF out /\ level = totalLevels THEN level ELSE pipe

\* A slip: the level is read again.
NextLevelSame == level
\* A slip: the last level is not read.
NextLevelSkipsLast == IF level + 1 = totalLevels THEN level + 2 ELSE level + 1
NextLevel == level + 1

LoopEnds(l) == l > totalLevels

\* One pass of the loop over the levels, all the keys it needs being there.
ReadLevel ==
  \E size, blk \in Text, out \in BOOLEAN, p \in Policy :
    /\ stage = "levels" /\ fsblkSize # 0
    /\ cacheSize' = [cacheSize EXCEPT ![level] = myString2intConverter(size)]
    /\ ssd2fsblkRatio' = [ssd2fsblkRatio EXCEPT
                            ![level] = myString2intConverter(blk) \div fsblkSize]
    /\ policyName' = [policyName EXCEPT ![level] = p]
    /\ pipe' = Pipe(out)
    /\ log' = LogOpened
    /\ window' = (window \/ p = "owbp")
    /\ level' = NextLevel
    /\ stage' = IF LoopEnds(level') THEN "disk" ELSE "levels"
    /\ UNCHANGED <<globalVars, appVars>>

\* The section Disk_Array, which asks for an out trace of the last level.
ReadDisk ==
  \E found \in BOOLEAN :
    /\ stage = "disk"
    /\ diskSim' = found
    /\ stage' = IF found /\ pipe = None THEN Exits(totalLevels, allocated) ELSE "analysis"
    /\ UNCHANGED <<level, globalVars, levelVars, analysis>>

\* The section Seq_Length.
ReadAnalysis ==
  /\ stage = "analysis"
  /\ analysis' \in BOOLEAN
  /\ stage' = "options"
  /\ UNCHANGED <<level, globalVars, levelVars, diskSim>>

\* -s as the last argument makes a string of a null pointer, which throws.
SizeOption ==
  \E t \in Text :
    /\ stage = "options" /\ argc > 4
    /\ stage' = IF argc = 5 THEN "terminated" ELSE "ready"
    /\ cacheSize' = IF argc = 5 THEN cacheSize
                    ELSE [cacheSize EXCEPT ![1] = myString2intConverter(t)]
    /\ UNCHANGED <<level, globalVars, ssd2fsblkRatio, policyName, window, pipe, log, appVars>>

NoOption ==
  /\ stage = "options"
  /\ stage' = "ready"
  /\ UNCHANGED <<level, globalVars, levelVars, appVars>>

Next == \/ RefuseArguments \/ TakeArguments \/ KeyMissing \/ RefuseLevels
        \/ ReadGlobal \/ DivideByZero \/ ReadLevel \/ ReadDisk \/ ReadAnalysis
        \/ SizeOption \/ NoOption

Spec == Init /\ [][Next]_vars
-----------------------------------------------------------------------------
(***************************************************************************)
(* The variables hold values of their types, and the loop over the levels  *)
(* stays inside the arrays that allocateArrays() made.                     *)
(***************************************************************************)
TypeOK ==
  /\ stage \in {"arguments", "tree", "levels", "disk", "analysis", "options"} \cup Final
  /\ argc \in ArgCount /\ totalLevels \in LevelCount \cup {0}
  /\ {allocated, window, inputTrace, diskSim, analysis} \subseteq BOOLEAN
  /\ fsblkSize \in Nat
  /\ {cacheSize, ssd2fsblkRatio} \subseteq Seq(Nat)
  /\ policyName \in Seq(Policy \cup {Empty})
  /\ stage = "levels" => level \in DOMAIN cacheSize
  /\ pipe \in 0..MaxLevels
  /\ log \in [open : 0..MaxLevels, name : 0..MaxLevels, failed : BOOLEAN]

(***************************************************************************)
(* When read() returns true every level that RunBenchmark() will walk has  *)
(* been read and has its policy, the ratios were computed from a block     *)
(* size that is not 0, and an OWBP level anywhere has its future window    *)
(* (configuration.cpp:143-197).                                            *)
(***************************************************************************)
ReadyMeansComplete ==
  stage = "ready" =>
    /\ totalLevels \in 1..MaxLevels /\ fsblkSize # 0
    /\ Len(policyName) = totalLevels
    /\ \A l \in 1..totalLevels : policyName[l] # Empty
    /\ (\E l \in 1..totalLevels : policyName[l] = "owbp") => window

(***************************************************************************)
(* A disk simulator is accepted only with an out trace of the last level,  *)
(* not of some level above it (configuration.cpp:164-166 and 220-223).     *)
(***************************************************************************)
LastLevelTraced == stage = "ready" /\ diskSim => pipe = totalLevels

(***************************************************************************)
(* read() ends on every file and every command line: it is sequential code *)
(* that does not wait, so that the next step is always taken.              *)
(***************************************************************************)
ReadEnds == <>(stage \in Final)

(***************************************************************************)
(* The stream the policies log their dirty pages to "works as an input     *)
(* trace file for DiskSim" (configuration.h:31-32): the file that DiskSim  *)
(* is given is the one the stream writes, and the stream can be written.   *)
(***************************************************************************)
LogWorksAsInput ==
  stage = "ready" /\ diskSim /\ inputTrace => ~log.failed /\ log.open = log.name
=============================================================================
