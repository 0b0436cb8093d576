------------------------------ MODULE Simulator -----------------------------
(***************************************************************************)
(* The simulation loop of main.cpp and the statistics of stats.cpp: main() *)
(* sets the hierarchy up, RunBenchmark() sends each page request down the  *)
(* levels until one hits, collectStat() counts at every level it reaches,  *)
(* and reportProgress() is called after each request.                      *)
(*                                                                         *)
(* A replacement policy is what its access() may return: a set of status   *)
(* flags. The policies themselves are modelled in modules of their own.    *)
(***************************************************************************)
EXTENDS Integers, FiniteSets

CONSTANTS Levels,       \* totalLevels
          Policy,       \* policy names that the configuration may give a level
          TraceSize,    \* the sizes memTrace may have after readTrace()
          seqThreshold, \* of the configuration
          App           \* the programs that a configuration may ask to be run

PageBased == {"pagelru", "ziqilru", "dynamiclru", "dynamicBlru", "dynamicClru",
              "hotcoldlru", "purelru", "arc", "pagemin"}
Known == PageBased \cup {"blockmin", "owbp"}
Unknown == {"darc", "larc", "ldarc"}

SimulatorAssumption ==
  /\ Levels \in 1..4
  /\ Policy \subseteq Known \cup Unknown
  /\ TraceSize \subseteq Nat /\ seqThreshold \in Nat
  /\ App \subseteq {"disksim", "seq-length-analysis"}

VARIABLES stage,       \* where main() is
          policy,      \* policyName of each level
          size,        \* requests left in memTrace
          level,       \* the level about to be accessed
          op,          \* the request being served
          stats,       \* _gStats
          progress,    \* the statics of reportProgress()
          threshold,   \* the global of the run-flushing policies
          outputs      \* what has been run or written after the loop

vars == <<stage, policy, size, level, op, stats, progress, threshold, outputs>>

Level == 1..Levels
Counter == {"Ref", "PageRead", "PageWrite", "PageReadHit", "PageReadMiss",
            "BlockReadHit", "BlockReadMiss", "PageWriteHit", "PageWriteMiss",
            "BlockWriteHit", "BlockWriteMiss", "BlockEvict", "Cold2Cold",
            "Cold2Hot", "DirtyPage", "SeqEviction", "LessSeqEviction"}
NoTotal == -1

Init ==
  /\ stage = "start"
  /\ policy \in [Level -> Policy]
  /\ size \in TraceSize
  /\ level = 1
  /\ op = "READ"
  /\ stats = [l \in Level |-> [c \in Counter |-> 0]]
  /\ progress = [total |-> NoTotal, lock |-> -1]
  /\ threshold = 0
  /\ outputs = {}
-----------------------------------------------------------------------------
\* The trace cannot be opened: ExitNow() prints statistics that Initialize()
\* has not allocated yet.
TraceMissing ==
  /\ stage = "start"
  /\ stage' = "crashed"
  /\ UNCHANGED <<policy, size, level, op, stats, progress, threshold, outputs>>

\* assert(memTrace.size() != 0), then "UnKnown Algorithm name".
SetupFails ==
  /\ stage = "start"
  /\ size = 0 \/ \E l \in Level : policy[l] \in Unknown
  /\ stage' = IF size = 0 THEN "aborted" ELSE "exited"
  /\ UNCHANGED <<policy, size, level, op, stats, progress, threshold, outputs>>

StartsAtOne == {"dynamiclru", "dynamicBlru", "dynamicClru", "hotcoldlru",
                "purelru", "arc", "darc", "larc", "ldarc"}

\* Initialize(), and the threshold by the policy of the first level.
Initialize ==
  /\ stage = "start" /\ size # 0 /\ \A l \in Level : policy[l] \notin Unknown
  /\ stage' = "run"
  /\ threshold' = IF policy[1] \in StartsAtOne THEN 1 ELSE seqThreshold
  /\ op' \in {"READ", "WRITE"}
  /\ UNCHANGED <<policy, size, level, stats, progress, outputs>>
-----------------------------------------------------------------------------
RunFlushing == {"ziqilru", "dynamiclru", "dynamicBlru", "dynamicClru", "hotcoldlru"}
WriteBuffers == {"pagemin", "blockmin", "owbp"}

\* Whether a miss with the flags m takes the page in: a write buffer does so on
\* a write, and BlockMinCache on a read too if it has other pages of the block.
TakesIn(p, o, m) ==
  p \in WriteBuffers => o = "WRITE" \/ (p = "blockmin" /\ "BLKHIT" \in m)

\* What a miss that takes a page into a full cache adds: ARC does not report its
\* evictions, and the run-flushing policies report what they flushed.
EvictFlags(p, o, m) ==
  IF p = "arc" \/ ~TakesIn(p, o, m) THEN {}
  ELSE IF p \in RunFlushing
       THEN {{"EVICT"}, {"EVICT", "SEQEVICT"}, {"EVICT", "LESSSEQEVICT"}}
       ELSE {{"EVICT"}}

\* The block and page flags of a miss.
MissFlags(p) ==
  CASE p = "blockmin" -> {{"BLKMISS"}, {"BLKHIT", "PAGEMISS"}}
    [] p = "owbp" -> {{"BLKMISS", "PAGEMISS"}, {"BLKHIT", "PAGEMISS"}}
    [] OTHER -> {{"PAGEMISS"}}

\* What OWBP adds when it writes to a cached block, and the LRU policies and
\* ARC to any write.
WriteFlags(p, f) ==
  IF p = "owbp" /\ "BLKHIT" \in f THEN {{}, {"COLD2COLD"}, {"COLD2HOT"}}
  ELSE {IF p \in WriteBuffers THEN {} ELSE {"DIRTY"}}

\* The flags that access() of policy p may return for a request o.
Response(p, o) ==
  LET found == {{"PAGEHIT", "BLKHIT"}}
                 \cup UNION {{m \cup e : e \in {{}} \cup EvictFlags(p, o, m)} :
                                m \in MissFlags(p)}
  IN  IF o = "READ" THEN {f \cup {"READ"} : f \in found}
      ELSE UNION {{f \cup w \cup {"WRITE"} : w \in WriteFlags(p, f)} : f \in found}

If(b) == IF b THEN 1 ELSE 0

\* A slip: a write that misses its block counts no page miss.
CountedNoBlockMiss(f) ==
  [c \in Counter |->
     CASE c = "Ref" -> 1
       [] c = "PageRead" -> If("READ" \in f)
       [] c = "PageWrite" -> If("WRITE" \in f)
       [] c = "PageReadHit" -> If({"READ", "PAGEHIT"} \subseteq f)
       [] c = "PageReadMiss" -> If({"READ", "PAGEMISS"} \subseteq f)
                                  + If({"READ", "BLKMISS"} \subseteq f)
       [] c = "PageWriteHit" -> If({"WRITE", "PAGEHIT"} \subseteq f)
       [] c = "PageWriteMiss" -> If({"WRITE", "PAGEMISS"} \subseteq f)
       [] OTHER -> 0]

\* collectStat(): how much each counter grows. A read of a cached block counts
\* as a write hit of a block, and a read miss counts once for the page and
\* once for the block.
Counted(f) ==
  [c \in Counter |->
     CASE c = "Ref" -> 1
       [] c = "PageRead" -> If("READ" \in f)
       [] c = "PageWrite" -> If("WRITE" \in f)
       [] c = "PageReadHit" -> If({"READ", "PAGEHIT"} \subseteq f)
       [] c = "PageReadMiss" -> If({"READ", "PAGEMISS"} \subseteq f)
                                  + If({"READ", "BLKMISS"} \subseteq f)
       [] c = "BlockReadHit" -> 0
       [] c = "BlockReadMiss" -> If({"READ", "BLKMISS"} \subseteq f)
       [] c = "PageWriteHit" -> If({"WRITE", "PAGEHIT"} \subseteq f)
       [] c = "PageWriteMiss" -> If("WRITE" \in f /\ f \cap {"PAGEMISS", "BLKMISS"} # {})
       [] c = "BlockWriteHit" -> If("BLKHIT" \in f)
       [] c = "BlockWriteMiss" -> If({"WRITE", "BLKMISS"} \subseteq f)
       [] c = "BlockEvict" -> If("EVICT" \in f)
       [] c = "Cold2Cold" -> If("COLD2COLD" \in f)
       [] c = "Cold2Hot" -> If("COLD2HOT" \in f)
       [] c = "DirtyPage" -> If("DIRTY" \in f)
       [] c = "SeqEviction" -> If("SEQEVICT" \in f)
       [] c = "LessSeqEviction" -> If("LESSSEQEVICT" \in f)]

\* A slip: a request goes on below the level that hits.
EndsWalkAtLast(f) == level = Levels

\* "no need to check further down in the hierachy"
EndsWalk(f) == "PAGEHIT" \in f \/ level = Levels

CollectStat(f) ==
  stats' = [stats EXCEPT ![level] = [c \in Counter |-> @[c] + Counted(f)[c]]]

Descend(f) ==
  /\ ~EndsWalk(f)
  /\ CollectStat(f)
  /\ level' = level + 1
  /\ UNCHANGED <<stage, size, op, progress>>

\* The totalTraceLines of reportProgress() is a static, initialised by the
\* first call, which comes after the first request has been popped.
Total == IF progress.total = NoTotal THEN size - 1 ELSE progress.total

\* A slip: the percentage is taken of what is left.
PercentOfRest == ((size - 1) * 100) \div Total

Percent == ((Total - (size - 1)) * 100) \div Total

\* pop_front() and reportProgress(), which divides by the total.
Pop(f) ==
  /\ EndsWalk(f)
  /\ CollectStat(f)
  /\ level' = 1
  /\ size' = size - 1
  /\ IF Total = 0
     THEN stage' = "crashed" /\ UNCHANGED progress
     ELSE /\ progress' = [total |-> Total,
                          lock |-> IF Percent % 10 = 0 THEN Percent ELSE progress.lock]
          /\ UNCHANGED stage
  /\ op' \in {"READ", "WRITE"}

Access ==
  /\ stage = "run" /\ size # 0
  /\ \E f \in Response(policy[level], op) : Descend(f) \/ Pop(f)
  /\ UNCHANGED <<policy, threshold, outputs>>

\* A slip: statistics are written only if a program has been run.
FinishQuietly ==
  /\ stage = "run" /\ size = 0
  /\ \E apps \in SUBSET App : outputs' = IF apps = {} THEN {} ELSE apps \cup {"stats"}
  /\ stage' = "done"
  /\ UNCHANGED <<policy, size, level, op, stats, progress, threshold>>

\* The trace is done: the disk simulator and then the analysis are run if they
\* are configured, and main() ends in ExitNow(0).
Finish ==
  /\ stage = "run" /\ size = 0
  /\ \E apps \in SUBSET App : outputs' = apps \cup {"stats"}
  /\ stage' = "done"
  /\ UNCHANGED <<policy, size, level, op, stats, progress, threshold>>

Next == TraceMissing \/ SetupFails \/ Initialize \/ Access \/ Finish

Spec == Init /\ [][Next]_vars
-----------------------------------------------------------------------------
(***************************************************************************)
(* The variables hold values of their types, and the progress reported is  *)
(* a percentage.                                                           *)
(***************************************************************************)
TypeOK ==
  /\ stage \in {"start", "run", "done", "exited", "aborted", "crashed"}
  /\ policy \in [Level -> Policy]
  /\ size \in Nat /\ level \in Level /\ op \in {"READ", "WRITE"}
  /\ stats \in [Level -> [Counter -> Nat]]
  /\ progress.total \in Nat \cup {NoTotal} /\ progress.lock \in -1..100
  /\ threshold \in Nat

Hits(l) == stats[l].PageReadHit + stats[l].PageWriteHit

(***************************************************************************)
(* Every reference counted at a level is a read or a write, and a hit or a *)
(* miss, whichever mix of block and page flags the policy returns, and no  *)
(* more than one eviction is counted for a miss, of a write or a read, and *)
(* none for a hit. Of OWBP the read misses are left out: a read that       *)
(* misses a block counts two.                                              *)
(***************************************************************************)
StatsAddUp ==
  \A l \in Level :
    LET s == stats[l]
    IN  /\ s.Ref = s.PageRead + s.PageWrite
        /\ s.PageWrite = s.PageWriteHit + s.PageWriteMiss
        /\ s.BlockEvict + Hits(l) <= s.Ref
        /\ policy[l] # "owbp" => s.PageRead = s.PageReadHit + s.PageReadMiss

(***************************************************************************)
(* A level sees exactly the requests that the level above has missed: the  *)
(* references of level l + 1 and the hits of level l make up the           *)
(* references of level l, up to the request now between the two.           *)
(***************************************************************************)
LevelsChain ==
  \A l \in 1..(Levels - 1) :
    stats[l].Ref = Hits(l) + stats[l + 1].Ref + If(level = l + 1)

(***************************************************************************)
(* The progress reported never goes back, and is 100 % just when the trace *)
(* is done, although the total is taken after the first request.           *)
(***************************************************************************)
Honest ==
  /\ progress'.lock >= progress.lock
  /\ progress'.lock = 100 <=> (size' = 0 /\ progress'.total # NoTotal)

(***************************************************************************)
(* A run that is set up with two requests or more ends in its statistics.  *)
(* With a single one, which Initialize() accepts, reportProgress() divides *)
(* by a total of 0.                                                        *)
(***************************************************************************)
EndsInStats ==
  (stage = "run" /\ size >= 2) ~> (stage = "done" /\ "stats" \in outputs)
=============================================================================
