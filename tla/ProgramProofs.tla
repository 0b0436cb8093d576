---------------------------- MODULE ProgramProofs ---------------------------
(***************************************************************************)
(* The parts of the program around the policies, for every configuration:  *)
(* the statistics and the progress of the simulation loop, for any number  *)
(* of levels, any policies and any length of the trace; the arguments and  *)
(* the file that Configuration::read() accepts; the trace reader in both   *)
(* formats, with and without the reads; the classes in which the analysis  *)
(* program counts the runs of the log; and, of FlashSim, the schedule of a *)
(* channel and the counters of the planes.                                 *)
(***************************************************************************)
EXTENDS MCProgram, StdContainersProofs

\* ProgramAssumption makes the assumptions of the simulation loop.
LEMMA LoopAssumption ==
  /\ Levels \in Nat \ {0}
  /\ TraceSize \subseteq Nat /\ seqThreshold \in Nat
BY ProgramAssumption DEF ProgramAssumption, Loop!SimulatorAssumption

(***************************************************************************)
(* The flags that any policy returns: those of the request's type, a page  *)
(* hit or else a miss of the page or of its block, both misses only if the *)
(* policy is OWBP, and no eviction with a hit.                             *)
(***************************************************************************)
LEMMA ResponseFacts ==
  ASSUME NEW p, NEW o \in {"READ", "WRITE"}, NEW f \in Loop!Response(p, o)
  PROVE  /\ "READ" \in f <=> o = "READ"
         /\ "WRITE" \in f <=> o = "WRITE"
         /\ "PAGEHIT" \in f <=> "PAGEMISS" \notin f /\ "BLKMISS" \notin f
         /\ "EVICT" \in f => "PAGEHIT" \notin f
         /\ p # "owbp" => ~("PAGEMISS" \in f /\ "BLKMISS" \in f)
<1> DEFINE found == {{"PAGEHIT", "BLKHIT"}}
                      \cup UNION {
                        {m \cup e : e \in {{}} \cup Loop!EvictFlags(p, o, m)} :
                          m \in Loop!MissFlags(p)}
           Miss == {"PAGEMISS", "BLKMISS"}
           Types == {"READ", "WRITE"}
<1>1. ASSUME NEW m \in Loop!MissFlags(p)
      PROVE  /\ m \cap Miss # {} /\ "PAGEHIT" \notin m /\ m \cap Types = {}
             /\ p # "owbp" => ~("PAGEMISS" \in m /\ "BLKMISS" \in m)
  BY DEF Loop!MissFlags
<1>2. ASSUME NEW m, NEW e \in {{}} \cup Loop!EvictFlags(p, o, m)
      PROVE  e \cap (Miss \cup Types \cup {"PAGEHIT"}) = {}
  BY DEF Loop!EvictFlags
<1>3. ASSUME NEW g \in found
      PROVE  /\ "PAGEHIT" \in g <=> "PAGEMISS" \notin g /\ "BLKMISS" \notin g
             /\ "EVICT" \in g => "PAGEHIT" \notin g
             /\ g \cap Types = {}
             /\ p # "owbp" => ~("PAGEMISS" \in g /\ "BLKMISS" \in g)
  <2>1. CASE g = {"PAGEHIT", "BLKHIT"}
    BY <2>1
  <2>2. CASE \E m \in Loop!MissFlags(p) :
               g \in {m \cup e : e \in {{}} \cup Loop!EvictFlags(p, o, m)}
    <3>1. PICK m \in Loop!MissFlags(p) :
                 g \in {m \cup e : e \in {{}} \cup Loop!EvictFlags(p, o, m)}
      BY <2>2
    <3>2. PICK e \in {{}} \cup Loop!EvictFlags(p, o, m) : g = m \cup e
      BY <3>1
    <3>3. QED
      BY <1>1, <1>2, <3>2
  <2>3. QED
    BY <2>1, <2>2
<1>4. ASSUME NEW g, NEW w \in Loop!WriteFlags(p, g)
      PROVE  w \cap (Miss \cup Types \cup {"PAGEHIT", "EVICT"}) = {}
  BY DEF Loop!WriteFlags
<1> HIDE DEF found
<1>5. CASE o = "READ"
  <2>1. PICK g \in found : f = g \cup {"READ"}
    BY <1>5 DEF Loop!Response, found
  <2>2. QED
    BY <1>3, <1>5, <2>1
<1>6. CASE o = "WRITE"
  <2>1. f \in UNION {{g \cup w \cup {"WRITE"} : w \in Loop!WriteFlags(p, g)} :
                       g \in found}
    BY <1>6 DEF Loop!Response, found
  <2>2. PICK g \in found : \E w \in Loop!WriteFlags(p, g) : f = g \cup w \cup {"WRITE"}
    BY <2>1
  <2>3. PICK w \in Loop!WriteFlags(p, g) : f = g \cup w \cup {"WRITE"}
    BY <2>2
  <2>4. QED
    BY <1>3, <1>4, <1>6, <2>3
<1>7. QED
  BY <1>5, <1>6

(***************************************************************************)
(* What collectStat() adds for such flags: one reference, one read or one  *)
(* write, one hit or miss, but two misses for some reads of OWBP, and at   *)
(* most one eviction, with a miss.                                         *)
(***************************************************************************)
LEMMA CountedFacts ==
  ASSUME NEW p, NEW o \in {"READ", "WRITE"}, NEW f \in Loop!Response(p, o)
  PROVE  LET n == Loop!Counted(f)
             hit == IF "PAGEHIT" \in f THEN 1 ELSE 0
         IN  /\ n \in [Loop!Counter -> Nat]
             /\ n.Ref = 1
             /\ n.Ref = n.PageRead + n.PageWrite
             /\ n.PageWrite = n.PageWriteHit + n.PageWriteMiss
             /\ p # "owbp" => n.PageRead = n.PageReadHit + n.PageReadMiss
             /\ n.PageReadHit + n.PageWriteHit = hit
             /\ n.BlockEvict + (n.PageReadHit + n.PageWriteHit) <= n.Ref
<1> DEFINE n == Loop!Counted(f)
<1>1. /\ "READ" \in f <=> o = "READ"
      /\ "WRITE" \in f <=> o = "WRITE"
      /\ "PAGEHIT" \in f <=> "PAGEMISS" \notin f /\ "BLKMISS" \notin f
      /\ "EVICT" \in f => "PAGEHIT" \notin f
      /\ p # "owbp" => ~("PAGEMISS" \in f /\ "BLKMISS" \in f)
  BY ResponseFacts
<1>2. n \in [Loop!Counter -> Nat]
  BY DEF Loop!Counted, Loop!Counter, Loop!If
<1>3. /\ n.Ref = 1
      /\ n.PageRead = IF "READ" \in f THEN 1 ELSE 0
      /\ n.PageWrite = IF "WRITE" \in f THEN 1 ELSE 0
      /\ n.PageReadHit = IF "READ" \in f /\ "PAGEHIT" \in f THEN 1 ELSE 0
      /\ n.PageWriteHit = IF "WRITE" \in f /\ "PAGEHIT" \in f THEN 1 ELSE 0
      /\ n.PageReadMiss = (IF "READ" \in f /\ "PAGEMISS" \in f THEN 1 ELSE 0)
                            + (IF "READ" \in f /\ "BLKMISS" \in f THEN 1 ELSE 0)
      /\ n.PageWriteMiss =
           IF "WRITE" \in f /\ ("PAGEMISS" \in f \/ "BLKMISS" \in f) THEN 1 ELSE 0
      /\ n.BlockEvict = IF "EVICT" \in f THEN 1 ELSE 0
  BY DEF Loop!Counted, Loop!Counter, Loop!If
<1> HIDE DEF n
<1>4. QED
  BY <1>1, <1>2, <1>3 DEF n

(***************************************************************************)
(* The inductive invariant of the loop. The progress reported is at most   *)
(* the percentage of the requests served, and those are counted against    *)
(* a total that has left the first request out.                            *)
(***************************************************************************)
Served == progress.total - size

ProgressInv ==
  /\ progress.total = Loop!NoTotal => progress.lock = -1
  /\ progress.total # Loop!NoTotal =>
       /\ progress.total # 0
       /\ size <= progress.total
       /\ progress.lock <= (Served * 100) \div progress.total
       /\ progress.lock = 100 <=> size = 0

LoopInv ==
  /\ Loop!TypeOK
  /\ Loop!StatsAddUp
  /\ Loop!LevelsChain
  /\ ProgressInv

\* What collectStat() does to the table of the level that was accessed.
LEMMA CollectFacts ==
  ASSUME Loop!TypeOK,
         NEW f \in Loop!Response(policy[level], op), Loop!CollectStat(f)
  PROVE  /\ stats' \in [Loop!Level -> [Loop!Counter -> Nat]]
         /\ \A l \in Loop!Level : l # level => stats'[l] = stats[l]
         /\ \A c \in Loop!Counter :
              stats'[level][c] = stats[level][c] + Loop!Counted(f)[c]
<1>1. /\ stats \in [Loop!Level -> [Loop!Counter -> Nat]]
      /\ level \in Loop!Level /\ op \in {"READ", "WRITE"}
  BY DEF Loop!TypeOK
<1>2. Loop!Counted(f) \in [Loop!Counter -> Nat]
  BY <1>1, CountedFacts
<1> DEFINE n == Loop!Counted(f)
           row == [c \in Loop!Counter |-> stats[level][c] + n[c]]
<1>3. stats' = [stats EXCEPT ![level] = row]
  BY DEF Loop!CollectStat
<1> HIDE DEF n
<1>4. row \in [Loop!Counter -> Nat]
  BY <1>1, <1>2 DEF n
<1>5. stats'[level] = row /\ \A c \in Loop!Counter : row[c] = stats[level][c] + n[c]
  BY <1>1, <1>3
<1> HIDE DEF row
<1>6. QED
  BY <1>1, <1>3, <1>4, <1>5 DEF n

\* The books of stats.cpp balance when a level has been accessed.
LEMMA StatsStep ==
  ASSUME Loop!TypeOK, Loop!StatsAddUp, policy' = policy,
         NEW f \in Loop!Response(policy[level], op), Loop!CollectStat(f)
  PROVE  Loop!StatsAddUp'
<1> DEFINE n == Loop!Counted(f)
<1>1. /\ stats \in [Loop!Level -> [Loop!Counter -> Nat]]
      /\ level \in Loop!Level /\ op \in {"READ", "WRITE"}
  BY DEF Loop!TypeOK
<1>2. /\ \A l \in Loop!Level : l # level => stats'[l] = stats[l]
      /\ \A c \in Loop!Counter : stats'[level][c] = stats[level][c] + n[c]
  BY CollectFacts
<1>3. /\ n \in [Loop!Counter -> Nat]
      /\ n.Ref = n.PageRead + n.PageWrite
      /\ n.PageWrite = n.PageWriteHit + n.PageWriteMiss
      /\ policy[level] # "owbp" => n.PageRead = n.PageReadHit + n.PageReadMiss
      /\ n.BlockEvict + (n.PageReadHit + n.PageWriteHit) <= n.Ref
  BY <1>1, CountedFacts
<1> HIDE DEF n
<1>4. /\ {"Ref", "PageRead", "PageWrite", "PageReadHit", "PageReadMiss",
          "PageWriteHit", "PageWriteMiss", "BlockEvict"} \subseteq Loop!Counter
  BY DEF Loop!Counter
<1>5. ASSUME NEW l \in Loop!Level
      PROVE  /\ stats'[l].Ref = stats'[l].PageRead + stats'[l].PageWrite
             /\ stats'[l].PageWrite = stats'[l].PageWriteHit + stats'[l].PageWriteMiss
             /\ stats'[l].BlockEvict + (stats'[l].PageReadHit + stats'[l].PageWriteHit)
                  <= stats'[l].Ref
             /\ policy[l] # "owbp" =>
                  stats'[l].PageRead = stats'[l].PageReadHit + stats'[l].PageReadMiss
  <2> DEFINE s == stats[l]
  <2>1. /\ s \in [Loop!Counter -> Nat]
        /\ s.Ref = s.PageRead + s.PageWrite
        /\ s.PageWrite = s.PageWriteHit + s.PageWriteMiss
        /\ s.BlockEvict + (s.PageReadHit + s.PageWriteHit) <= s.Ref
        /\ policy[l] # "owbp" => s.PageRead = s.PageReadHit + s.PageReadMiss
    BY <1>1 DEF Loop!StatsAddUp, Loop!Hits
  <2>2. CASE l # level
    BY <1>2, <2>1, <2>2
  <2>3. CASE l = level
    <3>1. \A c \in Loop!Counter : stats'[l][c] = s[c] + n[c]
      BY <1>2, <2>3
    <3>2. \A c \in {"Ref", "PageRead", "PageWrite", "PageReadHit", "PageReadMiss",
                    "PageWriteHit", "PageWriteMiss", "BlockEvict"} :
            s[c] \in Nat /\ n[c] \in Nat
      BY <1>3, <1>4, <2>1
    <3> HIDE DEF s
    <3>3. QED
      BY <1>3, <1>4, <2>1, <2>3, <3>1, <3>2
  <2>4. QED
    BY <2>2, <2>3
<1>6. QED
  BY <1>5 DEF Loop!StatsAddUp, Loop!Hits

\* A request more is a hit more or goes on to the level below.
LEMMA HitOrDescend ==
  ASSUME NEW ref \in Nat, NEW rh \in Nat, NEW wh \in Nat, NEW below \in Nat,
         NEW nr \in Nat, NEW nw \in Nat, NEW on \in Nat,
         ref = (rh + wh) + below, nr + nw + on = 1
  PROVE  ref + 1 = ((rh + nr) + (wh + nw)) + below + on
OBVIOUS

(***************************************************************************)
(* A level is accessed just when the one above has missed, also when the   *)
(* request goes on to the next level or the next request begins at level   *)
(* 1 again.                                                                *)
(***************************************************************************)
LEMMA ChainStep ==
  ASSUME Loop!TypeOK, Loop!LevelsChain,
         NEW f \in Loop!Response(policy[level], op), Loop!CollectStat(f),
         level' = IF Loop!EndsWalk(f) THEN 1 ELSE level + 1
  PROVE  Loop!LevelsChain'
<1> DEFINE n == Loop!Counted(f)
           hit == IF "PAGEHIT" \in f THEN 1 ELSE 0
<1>1. /\ stats \in [Loop!Level -> [Loop!Counter -> Nat]]
      /\ level \in Loop!Level /\ op \in {"READ", "WRITE"}
  BY DEF Loop!TypeOK
<1>2. /\ \A l \in Loop!Level : l # level => stats'[l] = stats[l]
      /\ \A c \in Loop!Counter : stats'[level][c] = stats[level][c] + n[c]
  BY CollectFacts
<1>3. /\ n \in [Loop!Counter -> Nat] /\ n.Ref = 1
      /\ n.PageReadHit + n.PageWriteHit = hit
      /\ hit = IF "PAGEHIT" \in f THEN 1 ELSE 0
  BY <1>1, CountedFacts
<1> HIDE DEF n, hit
<1>4. {"Ref", "PageReadHit", "PageWriteHit"} \subseteq Loop!Counter
  BY DEF Loop!Counter
<1>5. \A l \in Loop!Level :
        /\ stats[l].Ref \in Nat
        /\ stats[l].PageReadHit \in Nat /\ stats[l].PageWriteHit \in Nat
  BY <1>1, <1>4
<1>6. /\ stats'[level].Ref = stats[level].Ref + 1
      /\ stats'[level].PageReadHit = stats[level].PageReadHit + n.PageReadHit
      /\ stats'[level].PageWriteHit = stats[level].PageWriteHit + n.PageWriteHit
      /\ n.PageReadHit \in Nat /\ n.PageWriteHit \in Nat
  BY <1>2, <1>3, <1>4
<1>7. ASSUME NEW l \in 1..(Levels - 1)
      PROVE  stats'[l].Ref = (stats'[l].PageReadHit + stats'[l].PageWriteHit)
                               + stats'[l + 1].Ref + (IF level' = l + 1 THEN 1 ELSE 0)
  <2>1. /\ l \in Loop!Level /\ l + 1 \in Loop!Level /\ Levels \in Nat
        /\ l \in Nat \ {0} /\ level \in Nat \ {0} /\ l + 1 <= Levels
    BY <1>1, LoopAssumption DEF Loop!Level
  <2>2. stats[l].Ref = (stats[l].PageReadHit + stats[l].PageWriteHit)
                         + stats[l + 1].Ref + (IF level = l + 1 THEN 1 ELSE 0)
    BY DEF Loop!LevelsChain, Loop!Hits, Loop!If
  <2>3. /\ stats[l].Ref \in Nat /\ stats[l + 1].Ref \in Nat
        /\ stats[l].PageReadHit \in Nat /\ stats[l].PageWriteHit \in Nat
    BY <1>5, <2>1
  <2>4. CASE l = level
    <3>1. /\ stats'[l + 1] = stats[l + 1] /\ level # l + 1
          /\ stats'[l].Ref = stats[l].Ref + 1
          /\ stats'[l].PageReadHit = stats[l].PageReadHit + n.PageReadHit
          /\ stats'[l].PageWriteHit = stats[l].PageWriteHit + n.PageWriteHit
          /\ n.PageReadHit \in Nat /\ n.PageWriteHit \in Nat
      BY <1>2, <1>6, <2>1, <2>4
    <3>2. stats[l].Ref = (stats[l].PageReadHit + stats[l].PageWriteHit)
                           + stats[l + 1].Ref
      BY <2>2, <2>3, <3>1
    <3>3. CASE Loop!EndsWalk(f)
      <4>1. hit = 1 /\ level' = 1 /\ level' # l + 1
        BY <1>3, <2>1, <2>4, <3>3 DEF Loop!EndsWalk
      <4>2. n.PageReadHit + n.PageWriteHit + 0 = 1
        BY <1>3, <3>1, <4>1
      <4>3. stats[l].Ref + 1
              = ((stats[l].PageReadHit + n.PageReadHit)
                  + (stats[l].PageWriteHit + n.PageWriteHit)) + stats[l + 1].Ref + 0
        BY <2>3, <3>1, <3>2, <4>2, HitOrDescend
      <4>4. (IF level' = l + 1 THEN 1 ELSE 0) = 0
        BY <4>1
      <4>5. QED
        BY <3>1, <4>3, <4>4, Zenon
    <3>4. CASE ~Loop!EndsWalk(f)
      <4>1. hit = 0 /\ level' = l + 1
        BY <1>3, <2>4, <3>4 DEF Loop!EndsWalk
      <4>2. n.PageReadHit + n.PageWriteHit + 1 = 1
        BY <1>3, <3>1, <4>1
      <4>3. stats[l].Ref + 1
              = ((stats[l].PageReadHit + n.PageReadHit)
                  + (stats[l].PageWriteHit + n.PageWriteHit)) + stats[l + 1].Ref + 1
        BY <2>3, <3>1, <3>2, <4>2, HitOrDescend
      <4>4. (IF level' = l + 1 THEN 1 ELSE 0) = 1
        BY <4>1
      <4>5. QED
        BY <3>1, <4>3, <4>4, Zenon
    <3>5. QED
      BY <3>3, <3>4
  <2>5. CASE l + 1 = level
    <3>1. /\ stats'[l] = stats[l] /\ level' # l + 1
          /\ stats'[l + 1].Ref = stats[l + 1].Ref + 1
      BY <1>2, <1>6, <2>1, <2>5
    <3>2. QED
      BY <2>2, <2>3, <2>5, <3>1
  <2>6. CASE l # level /\ l + 1 # level
    <3>1. stats'[l] = stats[l] /\ stats'[l + 1] = stats[l + 1] /\ level' # l + 1
      BY <1>2, <2>1, <2>6
    <3>2. QED
      BY <2>2, <2>6, <3>1
  <2>7. QED
    BY <2>4, <2>5, <2>6
<1>8. QED
  BY <1>7 DEF Loop!LevelsChain, Loop!Hits, Loop!If

(***************************************************************************)
(* The percentage of requests served grows with them, and is 100 when all  *)
(* are served and not before, although the division rounds down.           *)
(***************************************************************************)
LEMMA PercentFacts ==
  ASSUME NEW t \in Nat \ {0}, NEW a \in 0..t
  PROVE  /\ (a * 100) \div t \in 0..100
         /\ (a * 100) \div t = 100 <=> a = t
         /\ \A b \in 0..a : (b * 100) \div t <= (a * 100) \div t
<1> DEFINE q == (a * 100) \div t
           r == (a * 100) % t
<1>1. /\ q \in Int /\ r \in 0..(t - 1)
      /\ a * 100 = (t * q) + r
  OBVIOUS
<1>2. ASSUME NEW x \in Int, NEW y \in Int, x < y
      PROVE  (t * x) + t <= t * y
  <2>1. y - x - 1 \in Nat
    BY <1>2
  <2>2. t * (y - x - 1) \in Nat
    BY <2>1
  <2>3. t * (y - x - 1) = (t * y) - (t * x) - t
    BY <2>1
  <2>4. QED
    BY <2>2, <2>3
<1>3. ASSUME NEW b \in 0..a
      PROVE  (b * 100) \div t <= q
  <2> DEFINE p == (b * 100) \div t
             s == (b * 100) % t
  <2>1. /\ p \in Int /\ s \in 0..(t - 1)
        /\ b * 100 = (t * p) + s
    OBVIOUS
  <2>2. b * 100 <= a * 100
    BY <1>3
  <2> HIDE DEF p, s, q, r
  <2>3. SUFFICES ASSUME ~(p <= q) PROVE FALSE
    BY DEF p
  <2>4. (t * q) + t <= t * p
    BY <1>1, <1>2, <2>1, <2>3
  <2>5. QED
    BY <1>1, <2>1, <2>2, <2>4
<1>4. a = t => q = 100
  OBVIOUS
<1>5. q = 100 => a = t
  OBVIOUS
<1>6. q <= 100 /\ q >= 0
  OBVIOUS
<1>7. QED
  BY <1>1, <1>3, <1>4, <1>5, <1>6

(***************************************************************************)
(* The total that reportProgress() takes is the requests left after the    *)
(* first one; from there on the requests left only become fewer.           *)
(***************************************************************************)
LEMMA TotalFacts ==
  ASSUME Loop!TypeOK, ProgressInv, size # 0
  PROVE  /\ size \in Nat \ {0}
         /\ Loop!Total \in Nat
         /\ size - 1 \in 0..Loop!Total
         /\ Loop!Total = 0 => progress.total = Loop!NoTotal /\ size = 1
BY DEF Loop!TypeOK, ProgressInv, Loop!Total, Loop!NoTotal

\* The progress after pop_front() and reportProgress().
LEMMA PopStep ==
  ASSUME Loop!TypeOK, ProgressInv, size # 0, NEW f, Loop!Pop(f)
  PROVE  /\ ProgressInv' /\ Loop!Honest
         /\ size' \in Nat
         /\ progress'.total \in Nat \cup {Loop!NoTotal} /\ progress'.lock \in -1..100
<1> DEFINE t == Loop!Total
           a == t - (size - 1)
<1>1. /\ size \in Nat \ {0} /\ t \in Nat /\ a \in 0..t
      /\ size' = size - 1 /\ size' \in Nat
      /\ t = 0 => progress.total = Loop!NoTotal /\ size = 1
  BY TotalFacts DEF Loop!Pop
<1>2. /\ progress.lock \in -1..100
      /\ progress.total \in Nat \cup {Loop!NoTotal}
  BY DEF Loop!TypeOK
<1>3. CASE t = 0
  <2>1. progress' = progress /\ size' = 0 /\ progress.total = Loop!NoTotal
        /\ progress.lock = -1
    BY <1>1, <1>3 DEF Loop!Pop, ProgressInv
  <2>2. QED
    BY <1>2, <2>1 DEF ProgressInv, Loop!Honest, Loop!NoTotal
<1>4. CASE t # 0
  <2> DEFINE p == Loop!Percent
             k == IF p % 10 = 0 THEN p ELSE progress.lock
  <2>1. progress' = [total |-> t, lock |-> k]
    BY <1>4 DEF Loop!Pop
  <2>2. p = (a * 100) \div t
    BY DEF Loop!Percent
  <2>3. t \in Nat \ {0}
    BY <1>1, <1>4
  <2>4. /\ p \in 0..100
        /\ p = 100 <=> a = t
        /\ \A b \in 0..a : (b * 100) \div t <= p
    BY <1>1, <2>2, <2>3, PercentFacts
  <2>5. progress.lock <= p /\ progress.lock # 100
    <3>1. CASE progress.total = Loop!NoTotal
      BY <2>4, <3>1 DEF ProgressInv
    <3>2. CASE progress.total # Loop!NoTotal
      <4>1. t = progress.total
        BY <3>2 DEF Loop!Total
      <4>2. /\ size <= t /\ progress.lock <= ((t - size) * 100) \div t
            /\ (progress.lock = 100 <=> size = 0)
        BY <3>2, <4>1 DEF ProgressInv, Served
      <4>3. t - size \in 0..a
        BY <1>1, <4>2
      <4>4. ((t - size) * 100) \div t <= p
        BY <2>4, <4>3
      <4>5. ((t - size) * 100) \div t \in Int
        BY <1>1, <2>3
      <4>6. QED
        BY <1>1, <1>2, <2>4, <4>2, <4>4, <4>5
    <3>3. QED
      BY <3>1, <3>2
  <2> HIDE DEF p
  <2>6. k \in -1..100 /\ progress.lock <= k /\ k <= p /\ (k = 100 <=> p = 100)
    BY <1>2, <2>4, <2>5
  <2>7. p = 100 <=> size' = 0
    BY <1>1, <2>4
  <2> HIDE DEF k, t
  <2>8. progress'.total = t /\ progress'.lock = k /\ t # Loop!NoTotal
    BY <1>1, <2>1 DEF Loop!NoTotal
  <2>9. Served' = a
    BY <1>1, <2>8 DEF Served
  <2>10. ProgressInv'
    <3>1. size' <= t /\ t # 0
      BY <1>1, <1>4
    <3>2. progress'.lock <= (Served' * 100) \div progress'.total
      BY <2>2, <2>6, <2>8, <2>9
    <3>3. QED
      BY <2>6, <2>7, <2>8, <3>1, <3>2 DEF ProgressInv
  <2>11. Loop!Honest
    BY <2>6, <2>7, <2>8 DEF Loop!Honest
  <2>12. QED
    BY <1>1, <2>3, <2>6, <2>8, <2>10, <2>11
<1>5. QED
  BY <1>3, <1>4

\* A step that leaves the requests and the progress alone is honest too.
LEMMA QuietStep ==
  ASSUME Loop!TypeOK, ProgressInv, UNCHANGED <<size, progress>>
  PROVE  ProgressInv' /\ Loop!Honest
<1>1. progress' = progress /\ size' = size
  OBVIOUS
<1>2. ProgressInv'
  BY <1>1 DEF ProgressInv, Served
<1>3. Loop!Honest
  BY <1>1 DEF ProgressInv, Loop!Honest, Loop!TypeOK, Loop!NoTotal
<1>4. QED
  BY <1>2, <1>3

\* The loop starts with nothing counted.
LEMMA LoopInit == Loop!Init => LoopInv
<1> SUFFICES ASSUME Loop!Init PROVE LoopInv
  OBVIOUS
<1>1. /\ stats = [l \in Loop!Level |-> [c \in Loop!Counter |-> 0]]
      /\ progress = [total |-> Loop!NoTotal, lock |-> -1]
      /\ level = 1 /\ 1 \in Loop!Level /\ size \in Nat
  BY LoopAssumption DEF Loop!Init, Loop!Level
<1>2. Loop!TypeOK
  BY <1>1 DEF Loop!Init, Loop!TypeOK, Loop!NoTotal
<1>3. \A l \in Loop!Level, c \in Loop!Counter : stats[l][c] = 0
  BY <1>1
<1>4. {"Ref", "PageRead", "PageWrite", "PageReadHit", "PageReadMiss",
       "PageWriteHit", "PageWriteMiss", "BlockEvict"} \subseteq Loop!Counter
  BY DEF Loop!Counter
<1>5. Loop!StatsAddUp
  BY <1>3, <1>4 DEF Loop!StatsAddUp, Loop!Hits
<1>6. Loop!LevelsChain
  <2>1. ASSUME NEW l \in 1..(Levels - 1)
        PROVE  l \in Loop!Level /\ l + 1 \in Loop!Level /\ level # l + 1
    BY <1>1, LoopAssumption DEF Loop!Level
  <2>2. QED
    BY <1>3, <1>4, <2>1 DEF Loop!LevelsChain, Loop!Hits, Loop!If
<1>7. ProgressInv
  BY <1>1 DEF ProgressInv, Loop!NoTotal
<1>8. QED
  BY <1>2, <1>5, <1>6, <1>7 DEF LoopInv

\* Every step of main() and of the loop keeps the invariant and is honest.
LEMMA LoopNext ==
  ASSUME LoopInv, Loop!Next
  PROVE  LoopInv' /\ Loop!Honest
<1>1. Loop!TypeOK /\ Loop!StatsAddUp /\ Loop!LevelsChain /\ ProgressInv
  BY DEF LoopInv
<1>2. ASSUME UNCHANGED <<policy, level, stats, size, progress>>,
             stage' \in {"start", "run", "done", "exited", "aborted", "crashed"},
             op' \in {"READ", "WRITE"}, threshold' \in Nat
      PROVE  LoopInv' /\ Loop!Honest
  <2>1. Loop!TypeOK'
    BY <1>1, <1>2 DEF Loop!TypeOK
  <2>2. Loop!StatsAddUp' /\ Loop!LevelsChain'
    BY <1>1, <1>2 DEF Loop!StatsAddUp, Loop!LevelsChain, Loop!Hits
  <2>3. QED
    BY <1>1, <1>2, <2>1, <2>2, QuietStep DEF LoopInv
<1>3. CASE Loop!TraceMissing
  BY <1>1, <1>2, <1>3 DEF Loop!TraceMissing, Loop!TypeOK
<1>4. CASE Loop!SetupFails
  BY <1>1, <1>2, <1>4 DEF Loop!SetupFails, Loop!TypeOK
<1>5. CASE Loop!Initialize
  BY <1>1, <1>2, <1>5, LoopAssumption DEF Loop!Initialize, Loop!TypeOK
<1>6. CASE Loop!Finish
  BY <1>1, <1>2, <1>6 DEF Loop!Finish, Loop!TypeOK
<1>7. CASE Loop!Access
  <2>1. PICK f \in Loop!Response(policy[level], op) : Loop!Descend(f) \/ Loop!Pop(f)
    BY <1>7 DEF Loop!Access
  <2>2. size # 0 /\ UNCHANGED <<policy, threshold>> /\ stage = "run"
    BY <1>7 DEF Loop!Access
  <2>3. /\ Loop!CollectStat(f)
        /\ level' = IF Loop!EndsWalk(f) THEN 1 ELSE level + 1
    BY <2>1 DEF Loop!Descend, Loop!Pop
  <2>4. Loop!StatsAddUp' /\ Loop!LevelsChain'
    BY <1>1, <2>2, <2>3, StatsStep, ChainStep
  <2>5. stats' \in [Loop!Level -> [Loop!Counter -> Nat]]
    BY <1>1, <2>3, CollectFacts
  <2>6. level' \in Loop!Level
    BY <1>1, <2>3, LoopAssumption DEF Loop!EndsWalk, Loop!Level, Loop!TypeOK
  <2>7. stage' \in {"run", "crashed"} /\ op' \in {"READ", "WRITE"}
    BY <1>1, <2>1, <2>2 DEF Loop!Descend, Loop!Pop, Loop!TypeOK
  <2>8. /\ ProgressInv' /\ Loop!Honest /\ size' \in Nat
        /\ progress'.total \in Nat \cup {Loop!NoTotal} /\ progress'.lock \in -1..100
    <3>1. CASE Loop!Descend(f)
      BY <1>1, <3>1, QuietStep DEF Loop!Descend, Loop!TypeOK
    <3>2. CASE Loop!Pop(f)
      BY <1>1, <2>2, <3>2, PopStep
    <3>3. QED
      BY <2>1, <3>1, <3>2
  <2>9. Loop!TypeOK'
    BY <1>1, <2>2, <2>5, <2>6, <2>7, <2>8 DEF Loop!TypeOK
  <2>10. QED
    BY <2>4, <2>8, <2>9 DEF LoopInv
<1>8. QED
  BY <1>3, <1>4, <1>5, <1>6, <1>7 DEF Loop!Next

\* The invariant of the program, as far as the simulation loop goes.
LEMMA LoopAlways ==
  /\ Init => (part = "loop" => LoopInv)
  /\ (part = "loop" => LoopInv) /\ [Next]_vars
       => /\ (part = "loop" => LoopInv)'
          /\ [part = "loop" => Loop!Honest]_vars
<1>1. Init => (part = "loop" => LoopInv)
  BY LoopInit DEF Init, InitProgram
<1>2. ASSUME part = "loop" => LoopInv, [Next]_vars
      PROVE  /\ (part = "loop" => LoopInv)'
             /\ [part = "loop" => Loop!Honest]_vars
  <2>1. CASE Next
    <3>1. part' = part
      BY <2>1 DEF Next, ProgramStep
    <3>2. CASE part = "loop"
      <4>1. Loop!Next
        BY <2>1, <3>2
           DEF Next, ProgramStep, ConfigStep, ReaderStep, LoopStep, AnalysisStep,
               ChannelStep, DeviceStep
      <4>2. QED
        BY <1>2, <3>1, <3>2, <4>1, LoopNext
    <3>3. QED
      BY <3>1, <3>2
  <2>2. CASE UNCHANGED vars
    BY <1>2, <2>2 DEF vars, programVars, loopVars, LoopInv, Loop!TypeOK,
                      Loop!StatsAddUp, Loop!LevelsChain, Loop!Hits, ProgressInv, Served
  <2>3. QED
    BY <1>2, <2>1, <2>2
<1>3. QED
  BY <1>1, <1>2

(***************************************************************************)
(* The statistics of stats.cpp chain the levels together: level l + 1 is   *)
(* asked for exactly what level l has missed, and every reference is a     *)
(* read or a write, a hit or a miss, for any number of levels and any mix  *)
(* of policies.                                                            *)
(***************************************************************************)
THEOREM LevelsAlwaysChain == Spec => []LevelsChain
<1>1. (part = "loop" => LoopInv) => LevelsChain
  BY DEF LoopInv, LevelsChain
<1>2. QED
  BY <1>1, LoopAlways, PTL DEF Spec

(***************************************************************************)
(* The progress reported never goes back, and is 100 % just when the trace *)
(* is done, for a trace of any length.                                     *)
(***************************************************************************)
THEOREM ProgressAlwaysHonest == Spec => ProgressIsHonest
BY LoopAlways, PTL DEF Spec, ProgressIsHonest
-----------------------------------------------------------------------------
(***************************************************************************)
(* Configuration::read(). The invariant follows it through its stages: the *)
(* arrays have an entry for each level from allocateArrays() on, the       *)
(* levels before `level' have been read, and all of them have when the     *)
(* loop has ended.                                                         *)
(***************************************************************************)
LevelsRead ==
  /\ totalLevels \in 1..Config!MaxLevels
  /\ Len(cacheSize) = totalLevels
  /\ Len(ssd2fsblkRatio) = totalLevels
  /\ Len(policyName) = totalLevels
  /\ level \in 1..(totalLevels + 1)
  /\ \A l \in 1..(level - 1) :
       policyName[l] # Config!Empty /\ (policyName[l] = "owbp" => window)
  /\ pipe \in {Config!None, totalLevels}

ConfigInv ==
  /\ Config!TypeOK
  /\ stage \in {"arguments", "tree"} => level = 1 /\ pipe = Config!None
  /\ stage \in {"arguments", "tree", "levels", "disk"} => ~diskSim
  /\ stage \in {"levels", "disk", "analysis", "options", "ready"} => LevelsRead
  /\ stage \in {"disk", "analysis", "options", "ready"} =>
       level = totalLevels + 1 /\ fsblkSize # 0
  /\ stage \in {"analysis", "options", "ready"} /\ diskSim => pipe = totalLevels

\* ProgramAssumption makes the assumptions of the configuration.
LEMMA ConfigAssumption ==
  /\ Digits \subseteq Nat /\ Kilo \in Nat /\ Config!Empty \notin ConfigPolicy
  /\ Unit \subseteq {"none", "K", "M", "G", "lower"}
BY ProgramAssumption DEF ProgramAssumption, Config!ConfigurationAssumption

\* A number of the file is a natural number whatever its suffix.
LEMMA ConverterType ==
  ASSUME NEW t \in Config!Text
  PROVE  Config!myString2intConverter(t) \in Nat
<1>1. t.digits \in Nat /\ Kilo \in Nat /\ t.unit \in {"none", "K", "M", "G", "lower"}
  BY ConfigAssumption DEF Config!Text
<1>2. ASSUME NEW x \in Nat PROVE x * Kilo \in Nat
  BY <1>1
<1>3. /\ t.digits * Kilo \in Nat
      /\ t.digits * Kilo * Kilo \in Nat
      /\ t.digits * Kilo * Kilo * Kilo \in Nat
  BY <1>1, <1>2
<1>4. QED
  BY <1>1, <1>3 DEF Config!myString2intConverter

\* A step that changes no more than how read() goes on or ends.
LEMMA ConfigEnds ==
  ASSUME ConfigInv, UNCHANGED <<level, Config!globalVars, Config!levelVars,
                                Config!appVars>>,
         stage' \in {"exited", "terminated", "crashed"}
  PROVE  ConfigInv'
BY DEF ConfigInv, Config!TypeOK, Config!Final, Config!globalVars,
       Config!levelVars, Config!appVars

\* An entry of an array is replaced by another of its kind.
LEMMA EntryReplaced ==
  ASSUME NEW S, NEW s \in Seq(S), NEW i \in 1..Len(s), NEW v \in S
  PROVE  LET t == [s EXCEPT ![i] = v]
         IN  /\ t \in Seq(S) /\ Len(t) = Len(s) /\ t[i] = v
             /\ \A j \in 1..Len(s) : j # i => t[j] = s[j]
OBVIOUS

\* The stages before the loop.
LEMMA ReadGlobalKeeps ==
  ASSUME ConfigInv, Config!ReadGlobal
  PROVE  ConfigInv'
<1>1. PICK n \in (-MaxLevelCount)..MaxLevelCount, size_1 \in Config!Text :
        /\ stage = "tree" /\ n \in 1..Config!MaxLevels
        /\ totalLevels' = n /\ allocated' = TRUE
        /\ fsblkSize' = Config!myString2intConverter(size_1)
        /\ inputTrace' \in BOOLEAN
        /\ cacheSize' = [l \in 1..n |-> 0]
        /\ ssd2fsblkRatio' = [l \in 1..n |-> 0]
        /\ policyName' = [l \in 1..n |-> Config!Empty]
        /\ stage' = "levels"
        /\ UNCHANGED <<argc, level, window, pipe, log, diskSim, analysis>>
  BY DEF Config!ReadGlobal, Config!appVars
<1>2. n \in 1..4 /\ n \in Nat
  BY <1>1 DEF Config!MaxLevels
<1>3. /\ cacheSize' \in Seq(Nat) /\ Len(cacheSize') = n
      /\ DOMAIN cacheSize' = 1..n
      /\ ssd2fsblkRatio' \in Seq(Nat) /\ Len(ssd2fsblkRatio') = n
      /\ policyName' \in Seq(ConfigPolicy \cup {Config!Empty}) /\ Len(policyName') = n
  BY <1>1, <1>2
<1>4. fsblkSize' \in Nat
  BY <1>1, ConverterType
<1>5. level' = 1 /\ pipe' = Config!None /\ ~diskSim'
  BY <1>1 DEF ConfigInv
<1>6. Config!TypeOK'
  BY <1>1, <1>2, <1>3, <1>4, <1>5 DEF ConfigInv, Config!TypeOK
<1>7. LevelsRead'
  BY <1>1, <1>2, <1>3, <1>5 DEF LevelsRead
<1>8. QED
  BY <1>1, <1>5, <1>6, <1>7 DEF ConfigInv

\* A pass of the loop reads the level that it is at.
LEMMA ReadLevelKeeps ==
  ASSUME ConfigInv, Config!ReadLevel
  PROVE  ConfigInv'
<1>1. PICK size_1 \in Config!Text, blk \in Config!Text, out \in BOOLEAN,
           p \in ConfigPolicy :
        /\ stage = "levels" /\ fsblkSize # 0
        /\ cacheSize' =
             [cacheSize EXCEPT ![level] = Config!myString2intConverter(size_1)]
        /\ ssd2fsblkRatio' =
             [ssd2fsblkRatio EXCEPT
                ![level] = Config!myString2intConverter(blk) \div fsblkSize]
        /\ policyName' = [policyName EXCEPT ![level] = p]
        /\ pipe' = Config!Pipe(out)
        /\ log' = Config!LogOpened
        /\ window' = (window \/ p = "owbp")
        /\ level' = Config!NextLevel
        /\ stage' = IF Config!LoopEnds(level') THEN "disk" ELSE "levels"
        /\ UNCHANGED <<argc, totalLevels, allocated, fsblkSize, inputTrace,
                       diskSim, analysis>>
  BY DEF Config!ReadLevel, Config!appVars, Config!globalVars
<1>2. LevelsRead /\ Config!TypeOK /\ ~diskSim
  BY <1>1 DEF ConfigInv
<1>3. /\ totalLevels \in 1..4 /\ level \in 1..totalLevels /\ level \in 1..4
      /\ level \in Nat /\ totalLevels \in Nat
  <2>1. totalLevels \in 1..4 /\ Len(cacheSize) = totalLevels
    BY <1>2 DEF LevelsRead, Config!MaxLevels
  <2>2. level \in DOMAIN cacheSize /\ cacheSize \in Seq(Nat)
    BY <1>1, <1>2 DEF Config!TypeOK
  <2>3. level \in 1..totalLevels
    BY <2>1, <2>2
  <2>4. QED
    BY <2>1, <2>3
<1>4. /\ cacheSize \in Seq(Nat) /\ ssd2fsblkRatio \in Seq(Nat)
      /\ policyName \in Seq(ConfigPolicy \cup {Config!Empty})
      /\ Len(cacheSize) = totalLevels /\ Len(ssd2fsblkRatio) = totalLevels
      /\ Len(policyName) = totalLevels
  BY <1>2 DEF LevelsRead, Config!TypeOK
<1>5. fsblkSize \in Nat \ {0}
  BY <1>1, <1>2 DEF Config!TypeOK
<1>6. /\ Config!myString2intConverter(size_1) \in Nat
      /\ Config!myString2intConverter(blk) \in Nat
  BY ConverterType
<1>7. Config!myString2intConverter(blk) \div fsblkSize \in Nat
  BY <1>5, <1>6
<1>8. /\ cacheSize' \in Seq(Nat) /\ Len(cacheSize') = totalLevels
      /\ DOMAIN cacheSize' = 1..totalLevels
  <2>1. cacheSize' =
          [cacheSize EXCEPT ![level] = Config!myString2intConverter(size_1)]
    BY <1>1
  <2>2. cacheSize' \in Seq(Nat) /\ Len(cacheSize') = Len(cacheSize)
    BY <1>3, <1>4, <1>6, <2>1, EntryReplaced
  <2>3. QED
    BY <1>4, <2>2
<1>9. ssd2fsblkRatio' \in Seq(Nat) /\ Len(ssd2fsblkRatio') = totalLevels
  <2>1. ssd2fsblkRatio' =
          [ssd2fsblkRatio EXCEPT
             ![level] = Config!myString2intConverter(blk) \div fsblkSize]
    BY <1>1
  <2>2. QED
    BY <1>3, <1>4, <1>7, <2>1, EntryReplaced
<1>10. /\ policyName' \in Seq(ConfigPolicy \cup {Config!Empty})
       /\ Len(policyName') = totalLevels
       /\ policyName'[level] = p
       /\ \A l \in 1..(level - 1) : policyName'[l] = policyName[l]
  <2>1. policyName' = [policyName EXCEPT ![level] = p]
    BY <1>1
  <2>2. p \in ConfigPolicy \cup {Config!Empty}
    BY <1>1
  <2>3. /\ policyName' \in Seq(ConfigPolicy \cup {Config!Empty})
        /\ Len(policyName') = Len(policyName) /\ policyName'[level] = p
        /\ \A l \in 1..Len(policyName) : l # level => policyName'[l] = policyName[l]
    BY <1>3, <1>4, <2>1, <2>2, EntryReplaced
  <2>4. ASSUME NEW l \in 1..(level - 1) PROVE policyName'[l] = policyName[l]
    <3>1. l \in 1..totalLevels /\ l # level
      BY <1>3
    <3>2. QED
      BY <1>4, <2>3, <3>1
  <2>5. QED
    BY <1>4, <2>3, <2>4
<1>11. level' = level + 1 /\ pipe' \in {Config!None, totalLevels}
  <2>1. level' = level + 1 /\ pipe' = Config!Pipe(out)
    BY <1>1 DEF Config!NextLevel
  <2>2. Config!Pipe(out) \in {Config!None, totalLevels}
    BY <1>2 DEF Config!Pipe, LevelsRead
  <2>3. QED
    BY <2>1, <2>2
<1>12. stage' = IF level < totalLevels THEN "levels" ELSE "disk"
  BY <1>1, <1>3, <1>11 DEF Config!LoopEnds
<1>13. log' \in [open : 0..4, name : 0..4, failed : BOOLEAN]
  <2>1. /\ log \in [open : 0..4, name : 0..4, failed : BOOLEAN]
        /\ log' = IF ~inputTrace THEN log
                  ELSE [open |-> IF log.open = 0 THEN level ELSE log.open,
                        name |-> level, failed |-> log.open # 0]
    BY <1>1, <1>2 DEF Config!LogOpened, Config!TypeOK, Config!MaxLevels, Config!None
  <2>2. level \in 0..4
    BY <1>3
  <2>3. QED
    BY <2>1, <2>2
<1>14. pipe' \in 0..4 /\ window' \in BOOLEAN
  <2>1. pipe' \in 0..4
    BY <1>3, <1>11 DEF Config!None
  <2>2. window' = (window \/ p = "owbp")
    BY <1>1
  <2>3. QED
    BY <2>1, <2>2
<1>15. Config!TypeOK'
  <2>1. stage' = "levels" => level' \in DOMAIN cacheSize'
    BY <1>3, <1>8, <1>11, <1>12
  <2>2. /\ stage' \in {"levels", "disk"}
        /\ {allocated', window', inputTrace', diskSim', analysis'} \subseteq BOOLEAN
        /\ {cacheSize', ssd2fsblkRatio'} \subseteq Seq(Nat)
        /\ argc' \in ArgCount /\ fsblkSize' \in Nat
        /\ totalLevels' \in ((-MaxLevelCount)..MaxLevelCount) \cup {0}
    BY <1>1, <1>2, <1>8, <1>9, <1>12, <1>14 DEF Config!TypeOK
  <2>3. QED
    BY <1>10, <1>13, <1>14, <2>1, <2>2 DEF Config!TypeOK, Config!MaxLevels
<1>16. LevelsRead'
  <2>1. ASSUME NEW l \in 1..(level' - 1)
        PROVE  policyName'[l] # Config!Empty /\ (policyName'[l] = "owbp" => window')
    <3>1. CASE l = level
      BY <1>1, <1>10, <3>1, ConfigAssumption
    <3>2. CASE l # level
      <4>1. l \in 1..(level - 1)
        BY <1>3, <1>11, <3>2
      <4>2. QED
        BY <1>1, <1>2, <1>10, <4>1 DEF LevelsRead
    <3>3. QED
      BY <3>1, <3>2
  <2>2. totalLevels' = totalLevels /\ level' \in 1..(totalLevels + 1)
    BY <1>1, <1>3, <1>11
  <2>3. QED
    BY <1>3, <1>8, <1>9, <1>10, <1>11, <2>1, <2>2 DEF LevelsRead, Config!MaxLevels
<1>17. stage' = "disk" => level' = totalLevels' + 1 /\ fsblkSize' # 0
  BY <1>1, <1>3, <1>11, <1>12
<1>18. stage' \in {"levels", "disk"} /\ ~diskSim'
  BY <1>1, <1>2, <1>12
<1>19. QED
  BY <1>15, <1>16, <1>17, <1>18 DEF ConfigInv

\* The stages after the loop.
LEMMA ReadDiskKeeps ==
  ASSUME ConfigInv, Config!ReadDisk
  PROVE  ConfigInv'
<1>1. PICK found \in BOOLEAN :
        /\ stage = "disk" /\ diskSim' = found
        /\ stage' = IF found /\ pipe = Config!None
                    THEN Config!Exits(totalLevels, allocated) ELSE "analysis"
        /\ UNCHANGED <<level, argc, totalLevels, allocated, fsblkSize, inputTrace,
                       cacheSize, ssd2fsblkRatio, policyName, window, pipe, log,
                       analysis>>
  BY DEF Config!ReadDisk, Config!globalVars, Config!levelVars
<1>2. Config!TypeOK /\ LevelsRead /\ level = totalLevels + 1 /\ fsblkSize # 0
  BY <1>1 DEF ConfigInv
<1>3. \/ stage' \in {"exited", "crashed"}
      \/ stage' = "analysis" /\ (found => pipe # Config!None)
  BY <1>1 DEF Config!Exits
<1>4. Config!TypeOK'
  BY <1>1, <1>2, <1>3 DEF Config!TypeOK, Config!Final
<1>5. LevelsRead'
  BY <1>1, <1>2 DEF LevelsRead
<1>6. diskSim' /\ stage' = "analysis" => pipe = totalLevels
  BY <1>1, <1>2, <1>3 DEF LevelsRead
<1>7. QED
  BY <1>1, <1>2, <1>3, <1>4, <1>5, <1>6 DEF ConfigInv

\* -s replaces the size of the first level, and there is one.
LEMMA SizeOptionKeeps ==
  ASSUME ConfigInv, Config!SizeOption
  PROVE  ConfigInv'
<1>1. PICK t \in Config!Text :
        /\ stage = "options"
        /\ stage' = IF argc = 5 THEN "terminated" ELSE "ready"
        /\ cacheSize' =
             IF argc = 5 THEN cacheSize
             ELSE [cacheSize EXCEPT ![1] = Config!myString2intConverter(t)]
        /\ UNCHANGED <<level, argc, totalLevels, allocated, fsblkSize, inputTrace,
                       ssd2fsblkRatio, policyName, window, pipe, log,
                       diskSim, analysis>>
  BY DEF Config!SizeOption, Config!globalVars, Config!appVars
<1>2. /\ Config!TypeOK /\ LevelsRead /\ level = totalLevels + 1 /\ fsblkSize # 0
      /\ diskSim => pipe = totalLevels
  BY <1>1 DEF ConfigInv
<1>3. /\ cacheSize \in Seq(Nat) /\ Len(cacheSize) = totalLevels
      /\ totalLevels \in 1..4
  BY <1>2 DEF Config!TypeOK, LevelsRead, Config!MaxLevels
<1>4. 1 \in 1..Len(cacheSize) /\ Config!myString2intConverter(t) \in Nat
  BY <1>3, ConverterType
<1>5. cacheSize' \in Seq(Nat) /\ Len(cacheSize') = totalLevels
  <2>1. CASE argc = 5
    BY <1>1, <1>3, <2>1
  <2>2. CASE argc # 5
    BY <1>1, <1>3, <1>4, <2>2, EntryReplaced
  <2>3. QED
    BY <2>1, <2>2
<1>6. Config!TypeOK'
  BY <1>1, <1>2, <1>5 DEF Config!TypeOK, Config!Final
<1>7. LevelsRead'
  BY <1>1, <1>2, <1>5 DEF LevelsRead
<1>8. QED
  BY <1>1, <1>2, <1>6, <1>7 DEF ConfigInv

\* A step that changes no more than the stage, to one that asks no more.
LEMMA StageKeeps ==
  ASSUME ConfigInv,
         UNCHANGED <<level, Config!globalVars, Config!levelVars, diskSim>>,
         analysis' \in BOOLEAN,
         \/ stage = "arguments" /\ stage' = "tree"
         \/ stage = "analysis" /\ stage' = "options"
         \/ stage = "options" /\ stage' = "ready"
  PROVE  ConfigInv'
<1>1. UNCHANGED <<level, argc, totalLevels, allocated, fsblkSize, inputTrace,
                  cacheSize, ssd2fsblkRatio, policyName, window, pipe, log, diskSim>>
  BY DEF Config!globalVars, Config!levelVars
<1>2. Config!TypeOK'
  BY <1>1 DEF ConfigInv, Config!TypeOK, Config!Final
<1>3. LevelsRead => LevelsRead'
  BY <1>1 DEF LevelsRead
<1>4. QED
  BY <1>1, <1>2, <1>3 DEF ConfigInv

\* A number of levels that is refused ends read(), wherever it is found.
LEMMA RefuseLevelsKeeps ==
  ASSUME ConfigInv, Config!RefuseLevels
  PROVE  ConfigInv'
<1>1. /\ stage' \in {"terminated", "exited", "crashed"}
      /\ totalLevels' \in (-MaxLevelCount)..MaxLevelCount
      /\ UNCHANGED <<argc, allocated, fsblkSize, inputTrace, level, cacheSize,
                     ssd2fsblkRatio, policyName, window, pipe, log, diskSim, analysis>>
  BY DEF Config!RefuseLevels, Config!Exits, Config!levelVars, Config!appVars
<1>2. Config!TypeOK'
  BY <1>1 DEF ConfigInv, Config!TypeOK, Config!Final
<1>3. QED
  BY <1>1, <1>2 DEF ConfigInv

\* The object as it is constructed.
LEMMA ConfigInit == Config!Init => ConfigInv
<1>1. SUFFICES ASSUME Config!Init PROVE ConfigInv
  OBVIOUS
<1>2. /\ stage = "arguments" /\ argc \in ArgCount /\ totalLevels = 0
      /\ allocated = FALSE /\ fsblkSize = 0 /\ level = 1
      /\ cacheSize = <<>> /\ ssd2fsblkRatio = <<>> /\ policyName = <<>>
      /\ window = FALSE /\ pipe = 0 /\ inputTrace = FALSE
      /\ log = [open |-> 0, name |-> 0, failed |-> FALSE]
      /\ diskSim = FALSE /\ analysis = FALSE
  BY <1>1 DEF Config!Init, Config!None
<1>3. log \in [open : 0..4, name : 0..4, failed : BOOLEAN] /\ pipe \in 0..4
  BY <1>2
<1>4. /\ {cacheSize, ssd2fsblkRatio} \subseteq Seq(Nat)
      /\ policyName \in Seq(ConfigPolicy \cup {Config!Empty})
  BY <1>2
<1>5. /\ {allocated, window, inputTrace, diskSim, analysis} \subseteq BOOLEAN
      /\ fsblkSize \in Nat /\ totalLevels \in {0} /\ stage # "levels"
  BY <1>2
<1>6. Config!TypeOK
  BY <1>2, <1>3, <1>4, <1>5 DEF Config!TypeOK, Config!MaxLevels
<1>7. QED
  BY <1>2, <1>6 DEF ConfigInv, Config!None

\* Each step of read() keeps the invariant.
LEMMA ConfigNext == ConfigInv /\ Config!Next => ConfigInv'
<1>1. SUFFICES ASSUME ConfigInv, Config!Next PROVE ConfigInv'
  OBVIOUS
<1>2. CASE Config!RefuseArguments
  BY <1>1, <1>2, ConfigEnds DEF Config!RefuseArguments, Config!Exits
<1>3. CASE Config!TakeArguments
  <2>1. analysis' = analysis /\ analysis \in BOOLEAN /\ diskSim' = diskSim
    BY <1>1, <1>3 DEF Config!TakeArguments, Config!appVars, ConfigInv, Config!TypeOK
  <2>2. QED
    BY <1>1, <1>3, <2>1, StageKeeps DEF Config!TakeArguments
<1>4. CASE Config!KeyMissing
  BY <1>1, <1>4, ConfigEnds DEF Config!KeyMissing
<1>5. CASE Config!RefuseLevels
  BY <1>1, <1>5, RefuseLevelsKeeps
<1>6. CASE Config!ReadGlobal
  BY <1>1, <1>6, ReadGlobalKeeps
<1>7. CASE Config!DivideByZero
  BY <1>1, <1>7, ConfigEnds DEF Config!DivideByZero
<1>8. CASE Config!ReadLevel
  BY <1>1, <1>8, ReadLevelKeeps
<1>9. CASE Config!ReadDisk
  BY <1>1, <1>9, ReadDiskKeeps
<1>10. CASE Config!ReadAnalysis
  BY <1>1, <1>10, StageKeeps DEF Config!ReadAnalysis
<1>11. CASE Config!SizeOption
  BY <1>1, <1>11, SizeOptionKeeps
<1>12. CASE Config!NoOption
  <2>1. analysis' = analysis /\ analysis \in BOOLEAN /\ diskSim' = diskSim
    BY <1>1, <1>12 DEF Config!NoOption, Config!appVars, ConfigInv, Config!TypeOK
  <2>2. QED
    BY <1>1, <1>12, <2>1, StageKeeps DEF Config!NoOption
<1>13. QED
  BY <1>1, <1>2, <1>3, <1>4, <1>5, <1>6, <1>7, <1>8, <1>9, <1>10, <1>11, <1>12
     DEF Config!Next

\* The invariant of the program, as far as the configuration goes.
LEMMA ConfigAlways ==
  /\ Init => (part = "configuration" => ConfigInv)
  /\ (part = "configuration" => ConfigInv) /\ [Next]_vars
       => (part = "configuration" => ConfigInv)'
<1>1. Init => (part = "configuration" => ConfigInv)
  BY ConfigInit DEF Init, InitProgram
<1>2. ASSUME part = "configuration" => ConfigInv, [Next]_vars
      PROVE  (part = "configuration" => ConfigInv)'
  <2>1. CASE Next
    <3>1. part' = part
      BY <2>1 DEF Next, ProgramStep
    <3>2. CASE part = "configuration"
      <4>1. Config!Next
        BY <2>1, <3>2
           DEF Next, ProgramStep, ConfigStep, ReaderStep, LoopStep, AnalysisStep,
               ChannelStep, DeviceStep
      <4>2. QED
        BY <1>2, <3>1, <3>2, <4>1, ConfigNext
    <3>3. QED
      BY <3>1, <3>2
  <2>2. CASE UNCHANGED vars
    BY <1>2, <2>2 DEF vars, programVars, configVars, ConfigInv, Config!TypeOK,
                      LevelsRead
  <2>3. QED
    BY <1>2, <2>1, <2>2
<1>3. QED
  BY <1>1, <1>2

(***************************************************************************)
(* Configuration::read() returns true only with every level read and named,*)
(* an OWBP window where one is needed, a block size that is not 0 and the  *)
(* out trace that a disk simulator needs, and its loop stays inside the    *)
(* arrays, whatever the file and the command line say.                     *)
(***************************************************************************)
THEOREM ReadyAlwaysComplete == Spec => []ReadyMeansComplete
<1>1. ConfigInv => Config!TypeOK /\ Config!ReadyMeansComplete /\ Config!LastLevelTraced
  <2>1. SUFFICES ASSUME ConfigInv
                 PROVE  Config!ReadyMeansComplete /\ Config!LastLevelTraced
    BY DEF ConfigInv
  <2>2. ASSUME stage = "ready"
        PROVE  /\ LevelsRead /\ level = totalLevels + 1 /\ fsblkSize # 0
               /\ diskSim => pipe = totalLevels
    BY <2>1, <2>2 DEF ConfigInv
  <2>3. LevelsRead /\ level = totalLevels + 1 => level - 1 = totalLevels
    BY DEF LevelsRead, Config!MaxLevels
  <2>4. Config!ReadyMeansComplete
    BY <2>2, <2>3 DEF LevelsRead, Config!ReadyMeansComplete
  <2>5. Config!LastLevelTraced
    BY <2>2 DEF Config!LastLevelTraced
  <2>6. QED
    BY <2>4, <2>5
<1>2. (part = "configuration" => ConfigInv) => ReadyMeansComplete
  BY <1>1 DEF ReadyMeansComplete
<1>3. QED
  BY <1>2, ConfigAlways, PTL DEF Spec
-----------------------------------------------------------------------------
(***************************************************************************)
(* The trace reader, for any trace files and any sizes of pages and        *)
(* blocks: which pages it delivers for a line, in what order and with what *)
(* times.                                                                  *)
(***************************************************************************)
\* ProgramAssumption makes the assumptions of the reader.
LEMMA ReaderAssumed == Reader!ReaderAssumption
BY ProgramAssumption DEF ProgramAssumption

\* Division with remainder.
LEMMA Division ==
  ASSUME NEW a \in Nat, NEW d \in Nat \ {0}
  PROVE  /\ a \div d \in Nat /\ a % d \in 0..(d - 1)
         /\ a = (d * (a \div d)) + (a % d)
OBVIOUS

\* The quotient is the number whose multiple is the last one not above.
LEMMA QuotientIs ==
  ASSUME NEW a \in Nat, NEW d \in Nat \ {0}, NEW q \in Nat,
         d * q <= a, a < (d * q) + d
  PROVE  a \div d = q
<1> DEFINE p == a \div d
           m == a % d
<1>1. p \in Nat /\ m \in 0..(d - 1) /\ a = (d * p) + m
  BY Division
<1> HIDE DEF p, m
<1>2. ASSUME NEW x \in Nat, NEW y \in Nat, x < y
      PROVE  (d * x) + d <= d * y
  <2>1. y - x - 1 \in Nat
    BY <1>2
  <2>2. d * (y - x - 1) \in Nat
    BY <2>1
  <2>3. d * (y - x - 1) = (d * y) - (d * x) - d
    BY <2>1
  <2>4. QED
    BY <2>2, <2>3
<1>3. ~(p < q)
  <2>1. SUFFICES ASSUME p < q PROVE FALSE
    OBVIOUS
  <2>2. (d * p) + d <= d * q
    BY <1>1, <1>2, <2>1
  <2>3. QED
    BY <1>1, <2>2
<1>4. ~(q < p)
  <2>1. SUFFICES ASSUME q < p PROVE FALSE
    OBVIOUS
  <2>2. (d * q) + d <= d * p
    BY <1>1, <1>2, <2>1
  <2>3. QED
    BY <1>1, <2>2
<1>5. p = q
  BY <1>1, <1>3, <1>4
<1>6. QED
  BY <1>5 DEF p

\* The pages of a block are those from its first one to its last one.
LEMMA SameBlock ==
  ASSUME NEW r \in Nat \ {0}, NEW page \in Nat, NEW p \in Nat, p >= page
  PROVE  (p \div r) = (page \div r) <=> p < page + (r - (page % r))
<1> DEFINE b == page \div r
           k == page % r
           c == p \div r
           m == p % r
<1>1. /\ b \in Nat /\ k \in 0..(r - 1) /\ page = (r * b) + k
      /\ c \in Nat /\ m \in 0..(r - 1) /\ p = (r * c) + m
  BY Division
<1> HIDE DEF b, k, c, m
<1>2. ASSUME c = b PROVE p < page + (r - k)
  <2>1. r * c = r * b
    BY <1>2
  <2>2. r * b \in Int
    BY <1>1
  <2>3. QED
    BY <1>1, <2>1, <2>2
<1>3. ASSUME p < page + (r - k) PROVE c = b
  <2>1. r * b \in Nat
    BY <1>1
  <2>2. r * b <= p /\ p < (r * b) + r
    BY <1>1, <1>3, <2>1
  <2>3. QED
    BY <1>1, <2>2, QuotientIs DEF c
<1>4. QED
  BY <1>2, <1>3 DEF b, k, c

\* The pages that a number of bytes fill, a part of a page counted as a page.
LEMMA PagesFilled ==
  ASSUME NEW f \in Nat \ {0}, NEW bytes \in Nat \ {0}
  PROVE  /\ (bytes - 1) \div f \in Nat
         /\ (IF bytes % f = 0 THEN bytes \div f ELSE (bytes \div f) + 1)
              = ((bytes - 1) \div f) + 1
<1> DEFINE q == bytes \div f
           m == bytes % f
<1>1. bytes \in Nat /\ bytes - 1 \in Nat
  OBVIOUS
<1>2. q \in Nat /\ m \in 0..(f - 1) /\ bytes = (f * q) + m
  BY <1>1, Division
<1> HIDE DEF q, m
<1>3. CASE m = 0
  <2>1. q - 1 \in Nat /\ f * (q - 1) = (f * q) - f /\ f * q \in Nat
    BY <1>1, <1>2, <1>3
  <2>2. f * (q - 1) <= bytes - 1 /\ bytes - 1 < (f * (q - 1)) + f
    BY <1>1, <1>2, <1>3, <2>1
  <2>3. (bytes - 1) \div f = q - 1
    BY <1>1, <1>2, <2>1, <2>2, QuotientIs
  <2>4. QED
    BY <1>3, <2>1, <2>3 DEF q, m
<1>4. CASE m # 0
  <2>1. f * q \in Nat
    BY <1>2
  <2>2. f * q <= bytes - 1 /\ bytes - 1 < (f * q) + f
    BY <1>1, <1>2, <1>4, <2>1
  <2>3. (bytes - 1) \div f = q
    BY <1>1, <1>2, <2>2, QuotientIs
  <2>4. QED
    BY <1>1, <1>2, <1>4, <2>3 DEF q, m
<1>5. QED
  BY <1>3, <1>4

\* The last byte of an extent is in the last page that its size fills, counted
\* from the page of the first byte, or in the one after it.
LEMMA LastByte ==
  ASSUME NEW f \in Nat \ {0}, NEW off \in Nat, NEW bytes \in Nat \ {0}
  PROVE  LET end == (off \div f) + ((bytes - 1) \div f)
             last == (off + bytes - 1) \div f
         IN  /\ off \div f \in Nat /\ end \in Nat
             /\ last \in {end, end + 1}
             /\ off % f = 0 => last = end
<1> DEFINE page == off \div f
           r == off % f
           c == (bytes - 1) \div f
           t == (bytes - 1) % f
<1>1. /\ page \in Nat /\ r \in 0..(f - 1) /\ off = (f * page) + r
      /\ c \in Nat /\ t \in 0..(f - 1) /\ bytes - 1 = (f * c) + t
  <2>1. bytes - 1 \in Nat
    OBVIOUS
  <2>2. QED
    BY <2>1, Division
<1> HIDE DEF page, r, c, t
<1>2. /\ f * page \in Nat /\ f * c \in Nat
      /\ f * (page + c) = (f * page) + (f * c)
      /\ f * (page + c + 1) = (f * page) + (f * c) + f
  BY <1>1
<1>3. off + bytes - 1 \in Nat /\ off + bytes - 1 = (f * page) + (f * c) + r + t
  BY <1>1, <1>2
<1>4. CASE r + t < f
  <2>1. /\ page + c \in Nat /\ f * (page + c) <= off + bytes - 1
        /\ off + bytes - 1 < (f * (page + c)) + f
    BY <1>1, <1>2, <1>3, <1>4
  <2>2. (off + bytes - 1) \div f = page + c
    BY <1>3, <2>1, QuotientIs
  <2>3. QED
    BY <1>1, <2>1, <2>2 DEF page, c
<1>5. CASE r + t >= f
  <2>1. /\ page + c + 1 \in Nat /\ f * (page + c + 1) <= off + bytes - 1
        /\ off + bytes - 1 < (f * (page + c + 1)) + f
    BY <1>1, <1>2, <1>3, <1>5
  <2>2. (off + bytes - 1) \div f = page + c + 1
    BY <1>3, <2>1, QuotientIs
  <2>3. r # 0 /\ page + c \in Nat
    BY <1>1, <1>5
  <2>4. QED
    BY <1>1, <2>2, <2>3 DEF page, c, r
<1>6. QED
  BY <1>1, <1>4, <1>5

-----------------------------------------------------------------------------
\* A request has at least one page and does not leave the block of its first.
LEMMA ReqSizeFacts ==
  ASSUME Reader!ReaderAssumption, NEW page \in Nat, NEW bytes \in Nat \ {0}
  PROVE  /\ Reader!ReqSize(page, bytes) \in Nat \ {0}
         /\ Reader!ReqSize(page, bytes) <= BlockPages - (page % BlockPages)
<1>1. PageBytes \in Nat \ {0} /\ BlockPages \in Nat \ {0}
  BY DEF Reader!ReaderAssumption
<1> DEFINE q == bytes \div PageBytes
           m == bytes % PageBytes
           room == BlockPages - (page % BlockPages)
<1>2. q \in Nat /\ m \in 0..(PageBytes - 1) /\ bytes = (PageBytes * q) + m
  BY <1>1, Division
<1>3. room \in Nat \ {0}
  BY <1>1, Division
<1> HIDE DEF q, m, room
<1>4. m = 0 => q # 0
  BY <1>1, <1>2
<1>5. Reader!ReqSize(page, bytes) =
        IF (IF m = 0 THEN q ELSE q + 1) >= room THEN room
                                               ELSE (IF m = 0 THEN q ELSE q + 1)
  BY DEF Reader!ReqSize, q, m, room
<1>6. QED
  BY <1>2, <1>3, <1>4, <1>5 DEF room

\* The pages that a line requests are those from its first one on that ReqSize
\* counts.
LEMMA RequestedPages ==
  ASSUME Reader!ReaderAssumption, NEW l, l.form # "mem",
         Reader!FirstPage(l) \in Nat, l.bytes \in Nat \ {0}
  PROVE  Reader!Requested(l) =
           Reader!FirstPage(l)..(Reader!FirstPage(l)
                                   + Reader!ReqSize(Reader!FirstPage(l), l.bytes) - 1)
<1>1. PageBytes \in Nat \ {0} /\ BlockPages \in Nat \ {0}
  BY DEF Reader!ReaderAssumption
<1> DEFINE page == Reader!FirstPage(l)
           room == BlockPages - (page % BlockPages)
           n == IF l.bytes % PageBytes = 0 THEN l.bytes \div PageBytes
                                          ELSE (l.bytes \div PageBytes) + 1
           c == (l.bytes - 1) \div PageBytes
<1> HIDE DEF page
<1>2. page \in Nat /\ page % BlockPages \in 0..(BlockPages - 1)
  BY <1>1, Division DEF page
<1>3. room \in Nat \ {0}
  BY <1>1, <1>2
<1>4. c \in Nat /\ n = c + 1
  BY <1>1, PagesFilled
<1>5. ASSUME NEW p \in page..(page + c)
      PROVE  p \div BlockPages = page \div BlockPages <=> p < page + room
  <2>1. p \in Nat /\ p >= page
    BY <1>2, <1>4
  <2>2. QED
    BY <1>1, <1>2, <2>1, SameBlock
<1>6. Reader!ReqSize(page, l.bytes) = IF n >= room THEN room ELSE n
  BY DEF Reader!ReqSize
<1>7. Reader!Requested(l)
        = {p \in page..(page + c) : p \div BlockPages = page \div BlockPages}
  BY DEF Reader!Requested, page
<1> HIDE DEF room, n, c
<1>8. {p \in page..(page + c) : p < page + room}
        = page..(page + (IF n >= room THEN room ELSE n) - 1)
  BY <1>2, <1>3, <1>4
<1>9. Reader!Requested(l) = page..(page + Reader!ReqSize(page, l.bytes) - 1)
  BY <1>5, <1>6, <1>7, <1>8
<1>10. QED
  BY <1>9 DEF page

\* They are pages that the bytes of an MSR line touch. The last page touched is
\* missing at most, and only if the line starts inside a page.
LEMMA TouchedPages ==
  ASSUME Reader!ReaderAssumption, NEW l, l.form = "msr", l.off \in Nat,
         l.bytes \in Nat \ {0}
  PROVE  /\ Reader!Requested(l) \subseteq Reader!Touched(l)
         /\ Reader!Touched(l) \ Reader!Requested(l) \subseteq
              IF l.off % PageBytes = 0 THEN {}
                                       ELSE {(l.off + l.bytes - 1) \div PageBytes}
<1>1. PageBytes \in Nat \ {0}
  BY DEF Reader!ReaderAssumption
<1> DEFINE page == l.off \div PageBytes
           end == page + ((l.bytes - 1) \div PageBytes)
           last == (l.off + l.bytes - 1) \div PageBytes
           Block(p) == p \div BlockPages = page \div BlockPages
<1>2. /\ page \in Nat /\ end \in Nat /\ last \in {end, end + 1}
      /\ l.off % PageBytes = 0 => last = end
  BY <1>1, LastByte
<1>3. /\ Reader!Requested(l) = {p \in page..end : Block(p)}
      /\ Reader!Touched(l) = {p \in page..last : Block(p)}
  BY DEF Reader!Requested, Reader!Touched, Reader!FirstPage
<1> HIDE DEF page, end, last, Block
<1>4. page..end \subseteq page..last /\ (page..last) \ (page..end) \subseteq {last}
  BY <1>2
<1>5. l.off % PageBytes = 0 => page..last = page..end
  BY <1>2
<1>6. Reader!Requested(l) \subseteq Reader!Touched(l)
  BY <1>3, <1>4
<1>7. Reader!Touched(l) \ Reader!Requested(l) \subseteq {last}
  BY <1>3, <1>4
<1>8. l.off % PageBytes = 0 => Reader!Touched(l) = Reader!Requested(l)
  BY <1>3, <1>5
<1>9. QED
  BY <1>6, <1>7, <1>8 DEF last

\* A field of a request is filled in.
LEMMA AtomExcept ==
  ASSUME NEW a \in Reader!Atom, NEW v \in Nat
  PROVE  /\ [a EXCEPT !.reqSize = v] \in Reader!Atom
         /\ [a EXCEPT !.lineNo = v] \in Reader!Atom
         /\ [a EXCEPT !.fsblkno = v] \in Reader!Atom
         /\ [a EXCEPT !.ssdblkno = v] \in Reader!Atom
<1>1. [a EXCEPT !.reqSize = v] \in Reader!Atom
  BY DEF Reader!Atom
<1>2. [a EXCEPT !.lineNo = v] \in Reader!Atom
  BY DEF Reader!Atom
<1>3. [a EXCEPT !.fsblkno = v] \in Reader!Atom
  BY DEF Reader!Atom
<1>4. [a EXCEPT !.ssdblkno = v] \in Reader!Atom
  BY DEF Reader!Atom
<1>5. QED
  BY <1>1, <1>2, <1>3, <1>4

\* The page request i of a request.
PageRequest(n, i) ==
  [fsblkno |-> n.fsblkno + i - 1, ssdblkno |-> n.ssdblkno, reqSize |-> 1,
   issueTime |-> n.issueTime, lineNo |-> n.lineNo, flags |-> n.flags]

\* What a request becomes in memTrace.
LEMMA KeptFacts ==
  ASSUME NEW n \in Reader!Atom
  PROVE  /\ Reader!Kept(n) \in Seq(Reader!Atom)
         /\ Len(Reader!Kept(n)) =
              IF writeOnly /\ n.flags # "WRITE" THEN 0 ELSE n.reqSize
         /\ \A i \in 1..Len(Reader!Kept(n)) : Reader!Kept(n)[i] = PageRequest(n, i)
<1>1. n.reqSize \in Nat /\ n.fsblkno \in Nat
  BY DEF Reader!Atom
<1>2. ASSUME NEW i \in 1..n.reqSize
      PROVE  /\ PageRequest(n, i) \in Reader!Atom
             /\ [n EXCEPT !.reqSize = 1, !.fsblkno = @ + i - 1] = PageRequest(n, i)
  <2>1. n.fsblkno + i - 1 \in Nat
    BY <1>1
  <2>2. PageRequest(n, i) \in Reader!Atom
    BY <2>1 DEF PageRequest, Reader!Atom
  <2> DEFINE m == [n EXCEPT !.reqSize = 1]
  <2>3. /\ m \in Reader!Atom /\ m.fsblkno = n.fsblkno /\ m.ssdblkno = n.ssdblkno
        /\ m.reqSize = 1 /\ m.issueTime = n.issueTime /\ m.lineNo = n.lineNo
        /\ m.flags = n.flags
    BY DEF Reader!Atom
  <2>4. [n EXCEPT !.reqSize = 1, !.fsblkno = @ + i - 1]
          = [m EXCEPT !.fsblkno = n.fsblkno + i - 1]
    BY <2>3
  <2> HIDE DEF m
  <2>5. [m EXCEPT !.fsblkno = n.fsblkno + i - 1] = PageRequest(n, i)
    BY <2>1, <2>3 DEF PageRequest, Reader!Atom
  <2>6. QED
    BY <2>2, <2>4, <2>5
<1>3. Reader!Expanded(n) = [i \in 1..n.reqSize |-> PageRequest(n, i)]
  BY <1>2 DEF Reader!Expanded
<1>4. Reader!Expanded(n) \in Seq(Reader!Atom) /\ Len(Reader!Expanded(n)) = n.reqSize
  <2> DEFINE e == Reader!Expanded(n)
  <2>1. e \in [1..n.reqSize -> Reader!Atom]
    BY <1>2, <1>3
  <2> HIDE DEF e
  <2>2. e \in Seq(Reader!Atom) /\ Len(e) = n.reqSize
    BY <1>1, <2>1
  <2>3. QED
    BY <2>2 DEF e
<1>5. CASE writeOnly /\ n.flags # "WRITE"
  <2>1. Reader!Kept(n) = <<>>
    BY <1>5 DEF Reader!Kept
  <2>2. Len(Reader!Kept(n)) = 0 /\ Reader!Kept(n) \in Seq(Reader!Atom)
    BY <2>1
  <2>3. QED
    BY <1>5, <2>2
<1>6. CASE ~(writeOnly /\ n.flags # "WRITE")
  <2>1. Reader!Kept(n) = Reader!Expanded(n)
    BY <1>6 DEF Reader!Kept
  <2>2. QED
    BY <1>3, <1>4, <1>6, <2>1
<1>7. QED
  BY <1>5, <1>6

\* memTrace with a request appended to it.
LEMMA MemTraceAppended ==
  ASSUME memTrace \in Seq(Reader!Atom), NEW n \in Reader!Atom,
         memTrace' = memTrace \o Reader!Kept(n)
  PROVE  /\ memTrace' \in Seq(Reader!Atom)
         /\ Len(Reader!Kept(n)) \in 0..n.reqSize
         /\ Len(memTrace') = Len(memTrace) + Len(Reader!Kept(n))
         /\ \A i \in 1..Len(memTrace) : memTrace'[i] = memTrace[i]
         /\ \A i \in 1..Len(Reader!Kept(n)) :
              memTrace'[Len(memTrace) + i] = PageRequest(n, i)
<1>1. /\ Reader!Kept(n) \in Seq(Reader!Atom)
      /\ Len(Reader!Kept(n)) = IF writeOnly /\ n.flags # "WRITE" THEN 0 ELSE n.reqSize
      /\ \A i \in 1..Len(Reader!Kept(n)) : Reader!Kept(n)[i] = PageRequest(n, i)
  BY KeptFacts
<1>2. n.reqSize \in Nat
  BY DEF Reader!Atom
<1> DEFINE K == Reader!Kept(n)
<1> HIDE DEF K
<1>3. K \in Seq(Reader!Atom) /\ memTrace' = memTrace \o K
  BY <1>1 DEF K
<1>4. /\ memTrace' \in Seq(Reader!Atom)
      /\ Len(memTrace') = Len(memTrace) + Len(K)
      /\ \A i \in 1..Len(memTrace) : memTrace'[i] = memTrace[i]
      /\ \A i \in 1..Len(K) : memTrace'[Len(memTrace) + i] = K[i]
  BY <1>3
<1>5. QED
  BY <1>1, <1>2, <1>4 DEF K

(***************************************************************************)
(* The invariant of the reader. The pages of a line are those of the       *)
(* requests that carry its number; the lines read so far are done with,    *)
(* and no request carries another number. The flags of an empty write stay *)
(* in newn, for a WebSearch line that has none of its own.                 *)
(***************************************************************************)
Place ==
  /\ file \in Seq(TraceLine) /\ Len(file) <= MaxTraceLines /\ newlineAtEnd \in BOOLEAN
  /\ inputTraceFormat \in {"msr", "mem"} /\ writeOnly \in BOOLEAN
  /\ lineno \in 0..Reader!LinesRead
  /\ done \in BOOLEAN
  /\ maxLineNo = IF done THEN lineno ELSE 0
  /\ done => lineno = Reader!LinesRead

Parsed ==
  /\ baseTime \in Int /\ memTrace \in Seq(Reader!Atom)
  /\ newn \in Reader!Atom /\ newn.reqSize = 0

LinesOrdered ==
  /\ \A i \in DOMAIN memTrace : memTrace[i].lineNo \in 1..lineno
  /\ \A i, j \in DOMAIN memTrace :
       i < j => /\ memTrace[i].lineNo <= memTrace[j].lineNo
                /\ memTrace[i].fsblkno = memTrace[j].fsblkno
                     => memTrace[i].lineNo < memTrace[j].lineNo

BaseTimeKept ==
  inputTraceFormat = "msr" => baseTime = IF lineno = 0 THEN 0 ELSE Reader!Base

\* The flags that a skipped line leaves.
FlagsLeft ==
  inputTraceFormat = "msr" =>
    (newn.flags = "WRITE" <=> Reader!AfterEmptyWrite(lineno + 1))

Complete(k) ==
  Reader!PagesOf(k) = IF Reader!Wanted(k) THEN Reader!Requested(file[k]) ELSE {}

ReaderInv ==
  /\ Place /\ Parsed /\ LinesOrdered
  /\ Reader!AtomsInTheirBlock
  /\ BaseTimeKept /\ Reader!TimesSinceFirstLine
  /\ FlagsLeft
  /\ \A k \in 1..lineno : Complete(k)

\* There is a next line, and a request made of it has its number.
Delivers(n) ==
  /\ ~done /\ lineno < Reader!LinesRead
  /\ n \in Reader!Atom /\ n.lineNo = lineno + 1
  /\ Reader!ReadLine /\ Reader!Deliver(n)

\* The lines that are read are lines of the file.
LEMMA LineFacts ==
  ASSUME Reader!ReaderAssumption, Place
  PROVE  /\ Reader!LinesRead \in 0..Len(file) /\ lineno \in 0..Len(file)
         /\ lineno < Reader!LinesRead =>
              /\ lineno + 1 \in 1..Len(file) /\ Reader!NextLine \in TraceLine
                                  /\ 1 \in 1..Len(file) /\ file[1] \in TraceLine
<1>1. file \in Seq(TraceLine) /\ Len(file) \in Nat /\ lineno \in 0..Reader!LinesRead
  BY DEF Place
<1>2. file # <<>> => Len(file) > 0
  BY <1>1
<1>3. Reader!LinesRead \in 0..Len(file)
  BY <1>1, <1>2 DEF Reader!LinesRead
<1>4. ASSUME lineno < Reader!LinesRead
      PROVE  lineno + 1 \in 1..Len(file) /\ 1 \in 1..Len(file)
  BY <1>1, <1>3, <1>4
<1>5. QED
  BY <1>1, <1>3, <1>4 DEF Reader!NextLine

\* A field of a line.
LEMMA FieldFacts ==
  ASSUME Reader!ReaderAssumption, NEW l \in TraceLine
  PROVE  /\ l.form \in {"msr", "web", "mem", "blank"}
         /\ l.first \in Nat /\ l.off \in Nat /\ l.bytes \in Nat
BY DEF Reader!ReaderAssumption

\* A time is a number.
LEMMA ClockType ==
  ASSUME Reader!ReaderAssumption, NEW l, l.first \in Nat
  PROVE  /\ Reader!Clock(l) \in Int
         /\ Reader!WindowsTickToUnixMilliSeconds(l.first) \in Int
         /\ Reader!Milliseconds(l.first) \in Int
<1>1. TicksPerSecond \in Nat \ {0} /\ UnixEpoch \in Nat
  BY DEF Reader!ReaderAssumption
<1> DEFINE e == TicksPerSecond * UnixEpoch
           t == TicksPerSecond * l.first
<1>2. e \in Nat /\ t \in Nat
  BY <1>1
<1> HIDE DEF e, t
<1>3. 1000 * (l.first - e) \in Int
  BY <1>2
<1>4. QED
  BY <1>2, <1>3
     DEF Reader!Clock, Reader!WindowsTickToUnixMilliSeconds, Reader!Milliseconds, e, t

\* An MSR write of size zero.
EmptyWrite(l) == l.form = "msr" /\ ~Reader!Untyped(l) /\ l.op = "Write" /\ l.bytes = 0

\* What such a write and an untyped line leave to the next line.
LEMMA LeftByLine ==
  ASSUME NEW k \in Nat \ {0}
  PROVE  Reader!AfterEmptyWrite(k + 1) <=>
           EmptyWrite(file[k]) \/ (Reader!Untyped(file[k]) /\ Reader!AfterEmptyWrite(k))
<1> DEFINE U(h) == Reader!Untyped(file[h])
           E(j) == EmptyWrite(file[j])
           Pending(i) == \E j \in 1..(i - 1) : E(j) /\ \A h \in (j + 1)..(i - 1) : U(h)
<1>1. /\ Reader!AfterEmptyWrite(k + 1) <=> Pending(k + 1)
      /\ Reader!AfterEmptyWrite(k) <=> Pending(k)
  BY DEF Reader!AfterEmptyWrite, EmptyWrite
<1> HIDE DEF U, E
<1>2. Pending(k + 1) <=> \E j \in 1..k : E(j) /\ \A h \in (j + 1)..k : U(h)
  BY k + 1 - 1 = k
<1>3. ASSUME NEW j \in 1..k, E(j), \A h \in (j + 1)..k : U(h)
      PROVE  E(k) \/ (U(k) /\ Pending(k))
  <2>1. CASE j = k
    BY <1>3, <2>1
  <2>2. CASE j # k
    <3>1. j \in 1..(k - 1) /\ k \in (j + 1)..k
      BY <2>2
    <3>2. \A h \in (j + 1)..(k - 1) : h \in (j + 1)..k
      OBVIOUS
    <3>3. QED
      BY <1>3, <3>1, <3>2
  <2>3. QED
    BY <2>1, <2>2
<1>4. ASSUME E(k) PROVE \E j \in 1..k : E(j) /\ \A h \in (j + 1)..k : U(h)
  <2>1. k \in 1..k /\ (k + 1)..k = {}
    OBVIOUS
  <2>2. QED
    BY <1>4, <2>1
<1>5. ASSUME U(k), Pending(k)
      PROVE  \E j \in 1..k : E(j) /\ \A h \in (j + 1)..k : U(h)
  <2>1. PICK j \in 1..(k - 1) : E(j) /\ \A h \in (j + 1)..(k - 1) : U(h)
    BY <1>5
  <2>2. j \in 1..k /\ \A h \in (j + 1)..k : h = k \/ h \in (j + 1)..(k - 1)
    OBVIOUS
  <2>3. QED
    BY <1>5, <2>1, <2>2
<1>6. Pending(k + 1) <=> E(k) \/ (U(k) /\ Pending(k))
  BY <1>2, <1>3, <1>4, <1>5
<1>7. QED
  BY <1>1, <1>6 DEF U, E

\* What the properties ask of a line does not change while the file is read.
LEMMA LinesKeep ==
  ASSUME file' = file, writeOnly' = writeOnly, NEW k
  PROVE  /\ Reader!Wanted(k)' <=> Reader!Wanted(k)
         /\ Reader!AfterEmptyWrite(k)' <=> Reader!AfterEmptyWrite(k)
         /\ Reader!Base' = Reader!Base
         /\ Reader!Requested(file[k])' = Reader!Requested(file[k])
<1>1. Reader!AfterEmptyWrite(k)' <=> Reader!AfterEmptyWrite(k)
  BY DEF Reader!AfterEmptyWrite
<1>2. Reader!IsWrite(k)' <=> Reader!IsWrite(k)
  BY <1>1 DEF Reader!IsWrite
<1>3. Reader!Wanted(k)' <=> Reader!Wanted(k)
  BY <1>2 DEF Reader!Wanted
<1>4. QED
  BY <1>1, <1>3 DEF Reader!Base, Reader!Requested, Reader!FirstPage

\* memTrace has grown by the K page requests of n from its length L.
Grown(L, K, n) ==
  /\ L \in Nat /\ K \in Nat /\ K = Len(Reader!Kept(n))
  /\ DOMAIN memTrace = 1..L /\ DOMAIN memTrace' = 1..(L + K)
  /\ \A i \in 1..L : /\ i \in 1..(L + K) /\ memTrace'[i] = memTrace[i]
                    /\ memTrace[i].lineNo \in 1..lineno
  /\ \A i \in 1..K : /\ L + i \in 1..(L + K)
                    /\ memTrace'[L + i] = PageRequest(n, i)
                    /\ memTrace'[L + i].lineNo = lineno + 1
                    /\ memTrace'[L + i].fsblkno = n.fsblkno + i - 1
  /\ \A i \in 1..(L + K) : i \in 1..L \/ \E h \in 1..K : i = L + h

\* The places of memTrace before and after a request is delivered.
LEMMA DeliverFacts ==
  ASSUME Reader!ReaderAssumption, ReaderInv, NEW n, Delivers(n)
  PROVE  /\ lineno \in Nat /\ lineno' = lineno + 1 /\ n.fsblkno \in Nat
         /\ \E L, K : Grown(L, K, n)
<1>1. /\ memTrace \in Seq(Reader!Atom) /\ n \in Reader!Atom /\ n.lineNo = lineno + 1
      /\ memTrace' = memTrace \o Reader!Kept(n) /\ lineno' = lineno + 1
      /\ lineno \in Nat
  BY LineFacts
    DEF ReaderInv, Place, Parsed, Delivers, Reader!Deliver, Reader!ReadLine,
        Reader!given
<1> DEFINE L == Len(memTrace)
           K == Len(Reader!Kept(n))
<1>2. /\ memTrace' \in Seq(Reader!Atom) /\ Len(memTrace') = L + K
      /\ \A i \in 1..L : memTrace'[i] = memTrace[i]
      /\ \A i \in 1..K : memTrace'[L + i] = PageRequest(n, i)
  BY <1>1, MemTraceAppended
<1>3. L \in Nat /\ DOMAIN memTrace = 1..L
  BY <1>1
<1>4. K \in Nat /\ n.fsblkno \in Nat
  BY <1>1, KeptFacts DEF Reader!Atom
<1>5. DOMAIN memTrace' = 1..(L + K)
  BY <1>2
<1>6. \A i \in 1..L : memTrace[i].lineNo \in 1..lineno
  BY <1>3 DEF ReaderInv, LinesOrdered
<1> HIDE DEF L, K
<1>7. \A i \in 1..K : /\ PageRequest(n, i).lineNo = lineno + 1
                      /\ PageRequest(n, i).fsblkno = n.fsblkno + i - 1
  BY <1>1 DEF PageRequest
<1>8. \A i \in 1..L : i \in 1..(L + K)
  BY <1>3, <1>4
<1>9. \A i \in 1..K : L + i \in 1..(L + K)
  BY <1>3, <1>4
<1>10. ASSUME NEW i \in 1..(L + K)
       PROVE  i \in 1..L \/ \E h \in 1..K : i = L + h
  <2>1. CASE i <= L
    BY <1>3, <1>4, <2>1
  <2>2. CASE i > L
    <3>1. i - L \in 1..K /\ i = L + (i - L)
      BY <1>3, <1>4, <2>2
    <3>2. QED
      BY <3>1
  <2>3. QED
    BY <1>3, <1>4, <2>1, <2>2
<1>11. /\ \A i \in 1..L : i \in 1..(L + K) /\ memTrace'[i] = memTrace[i]
                          /\ memTrace[i].lineNo \in 1..lineno
       /\ \A i \in 1..K : /\ L + i \in 1..(L + K)
                          /\ memTrace'[L + i] = PageRequest(n, i)
                          /\ memTrace'[L + i].lineNo = lineno + 1
                          /\ memTrace'[L + i].fsblkno = n.fsblkno + i - 1
  BY <1>2, <1>6, <1>7, <1>8, <1>9
<1>12. QED
  <2>1. Grown(L, K, n)
    BY <1>1, <1>3, <1>4, <1>5, <1>10, <1>11 DEF K, Grown
  <2>2. QED
    BY <1>1, <1>4, <2>1

\* The line numbers are still in order when a request is appended.
LEMMA DeliverOrder ==
  ASSUME Reader!ReaderAssumption, ReaderInv, NEW n, Delivers(n)
  PROVE  LinesOrdered'
<1>1. lineno \in Nat /\ lineno' = lineno + 1 /\ n.fsblkno \in Nat
  BY DeliverFacts
<1>2. PICK L, K : Grown(L, K, n)
  BY DeliverFacts
<1>3. /\ L \in Nat /\ K \in Nat
      /\ DOMAIN memTrace = 1..L /\ DOMAIN memTrace' = 1..(L + K)
      /\ \A i \in 1..L : /\ memTrace'[i] = memTrace[i]
                        /\ memTrace[i].lineNo \in 1..lineno
      /\ \A i \in 1..K : /\ memTrace'[L + i].lineNo = lineno + 1
                        /\ memTrace'[L + i].fsblkno = n.fsblkno + i - 1
      /\ \A i \in 1..(L + K) : i \in 1..L \/ \E h \in 1..K : i = L + h
  BY <1>2 DEF Grown
<1>4. \A i, j \in 1..L :
        i < j => /\ memTrace[i].lineNo <= memTrace[j].lineNo
                 /\ memTrace[i].fsblkno = memTrace[j].fsblkno
                      => memTrace[i].lineNo < memTrace[j].lineNo
  BY <1>3 DEF ReaderInv, LinesOrdered
<1>5. ASSUME NEW i \in 1..(L + K) PROVE memTrace'[i].lineNo \in 1..lineno'
  <2>1. CASE i \in 1..L
    BY <1>1, <1>3, <2>1
  <2>2. CASE \E h \in 1..K : i = L + h
    <3>1. memTrace'[i].lineNo = lineno + 1
      BY <1>3, <2>2
    <3>2. QED
      BY <1>1, <3>1
  <2>3. QED
    BY <1>3, <2>1, <2>2
<1>6. ASSUME NEW i \in 1..(L + K), NEW j \in 1..(L + K), i < j
      PROVE  /\ memTrace'[i].lineNo <= memTrace'[j].lineNo
             /\ memTrace'[i].fsblkno = memTrace'[j].fsblkno
                  => memTrace'[i].lineNo < memTrace'[j].lineNo
  <2>1. CASE j \in 1..L
    <3>1. i \in 1..L
      BY <1>3, <1>6, <2>1
    <3>2. QED
      BY <1>3, <1>4, <1>6, <2>1, <3>1
  <2>2. CASE \E h \in 1..K : j = L + h
    <3>1. PICK h \in 1..K : j = L + h
      BY <2>2
    <3>2. memTrace'[j].lineNo = lineno + 1 /\ memTrace'[j].fsblkno = n.fsblkno + h - 1
      BY <1>3, <3>1
    <3>3. CASE i \in 1..L
      BY <1>1, <1>3, <3>2, <3>3
    <3>4. CASE \E g \in 1..K : i = L + g
      <4>1. PICK g \in 1..K : i = L + g
        BY <3>4
      <4>2. /\ memTrace'[i].lineNo = lineno + 1
            /\ memTrace'[i].fsblkno = n.fsblkno + g - 1 /\ g # h
        BY <1>3, <1>6, <3>1, <4>1
      <4>3. QED
        BY <1>1, <3>2, <4>2
    <3>5. QED
      BY <1>3, <3>3, <3>4
  <2>3. QED
    BY <1>3, <2>1, <2>2
<1>7. QED
  BY <1>3, <1>5, <1>6 DEF LinesOrdered

\* What a request adds to the pages of the lines.
LEMMA DeliverPages ==
  ASSUME Reader!ReaderAssumption, ReaderInv, NEW n, Delivers(n),
         NEW k \in 1..(lineno + 1)
  PROVE  Reader!PagesOf(k)' = IF k = lineno + 1
                     THEN {n.fsblkno + i - 1 : i \in 1..Len(Reader!Kept(n))}
                     ELSE Reader!PagesOf(k)
<1>1. lineno \in Nat
  BY DeliverFacts
<1>2. PICK L, K : Grown(L, K, n)
  BY DeliverFacts
<1>3. /\ L \in Nat /\ K \in Nat /\ K = Len(Reader!Kept(n))
      /\ DOMAIN memTrace = 1..L /\ DOMAIN memTrace' = 1..(L + K)
      /\ \A i \in 1..L : /\ i \in 1..(L + K) /\ memTrace'[i] = memTrace[i]
                        /\ memTrace[i].lineNo \in 1..lineno
      /\ \A i \in 1..K : /\ L + i \in 1..(L + K)
                        /\ memTrace'[L + i].lineNo = lineno + 1
                        /\ memTrace'[L + i].fsblkno = n.fsblkno + i - 1
      /\ \A i \in 1..(L + K) : i \in 1..L \/ \E h \in 1..K : i = L + h
  BY <1>2 DEF Grown
<1>4. Reader!PagesOf(k)' = {memTrace'[i].fsblkno :
                     i \in {j \in 1..(L + K) : memTrace'[j].lineNo = k}}
  BY <1>3 DEF Reader!PagesOf
<1>5. CASE k = lineno + 1
  <2>1. {j \in 1..(L + K) : memTrace'[j].lineNo = k} = {L + i : i \in 1..K}
    BY <1>1, <1>3, <1>5
  <2> DEFINE at(i) == memTrace'[i].fsblkno
  <2>2. \A i \in 1..K : at(L + i) = n.fsblkno + i - 1
    BY <1>3
  <2> HIDE DEF at
  <2>3. {at(i) : i \in {L + h : h \in 1..K}} = {n.fsblkno + i - 1 : i \in 1..K}
    BY <2>2
  <2>4. QED
    BY <1>3, <1>4, <1>5, <2>1, <2>3 DEF at
<1>6. CASE k # lineno + 1
  <2>1. {j \in 1..(L + K) : memTrace'[j].lineNo = k}
          = {j \in 1..L : memTrace[j].lineNo = k}
    BY <1>1, <1>3, <1>6
  <2>2. {memTrace'[i].fsblkno : i \in {j \in 1..L : memTrace[j].lineNo = k}}
          = {memTrace[i].fsblkno : i \in {j \in 1..L : memTrace[j].lineNo = k}}
    BY <1>3
  <2>3. QED
    BY <1>3, <1>4, <1>6, <2>1, <2>2 DEF Reader!PagesOf
<1>7. QED
  BY <1>5, <1>6

\* The pages that the next line asks for.
NextPages ==
  IF Reader!Wanted(lineno + 1) THEN Reader!Requested(Reader!NextLine) ELSE {}

\* A request that is made of the next line is delivered.
LEMMA DeliverKeeps ==
  ASSUME Reader!ReaderAssumption, ReaderInv, NEW n, Delivers(n),
         baseTime' \in Int,
         inputTraceFormat = "msr" =>
           /\ baseTime' = Reader!Base
           /\ n.reqSize # 0 => n.issueTime = Reader!Clock(Reader!NextLine) - baseTime'
           /\ \A i \in 1..n.reqSize :
                n.ssdblkno = (n.fsblkno + i - 1) \div BlockPages
           /\ ~Reader!Untyped(Reader!NextLine) /\ ~EmptyWrite(Reader!NextLine),
         {n.fsblkno + i - 1 : i \in 1..Len(Reader!Kept(n))} = NextPages
  PROVE  ReaderInv'
<1>1. /\ lineno \in Nat /\ lineno' = lineno + 1 /\ n.fsblkno \in Nat
      /\ UNCHANGED <<inputTraceFormat, writeOnly, file, newlineAtEnd, maxLineNo,
                      done>>
      /\ Reader!LinesRead' = Reader!LinesRead
      /\ n \in Reader!Atom /\ n.lineNo = lineno + 1 /\ newn' = Reader!cleared
      /\ memTrace' = memTrace \o Reader!Kept(n) /\ ~done /\ lineno < Reader!LinesRead
  BY DeliverFacts
    DEF Delivers, Reader!Deliver, Reader!ReadLine, Reader!LinesRead, Reader!given
<1>2. Place /\ Parsed
  BY DEF ReaderInv
<1>3. Reader!LinesRead \in Nat /\ Reader!NextLine \in TraceLine /\ file[1] \in TraceLine
      /\ lineno + 1 \in 1..Len(file) /\ 1 \in 1..Len(file)
  BY <1>1, <1>2, LineFacts
<1>4. Place'
  BY <1>1, <1>2, <1>3 DEF Place
<1>5. Parsed'
  <2>1. Reader!cleared \in Reader!Atom /\ Reader!cleared.reqSize = 0
    BY DEF Reader!cleared, Reader!Atom
  <2>2. memTrace' \in Seq(Reader!Atom)
    BY <1>1, <1>2, MemTraceAppended DEF Parsed
  <2>3. QED
    BY <1>1, <2>1, <2>2 DEF Parsed
<1>6. PICK L, K : Grown(L, K, n)
  BY DeliverFacts
<1>7. /\ L \in Nat /\ K \in Nat /\ K = Len(Reader!Kept(n))
      /\ DOMAIN memTrace = 1..L /\ DOMAIN memTrace' = 1..(L + K)
      /\ \A i \in 1..L : /\ i \in 1..(L + K) /\ memTrace'[i] = memTrace[i]
                        /\ memTrace[i].lineNo \in 1..lineno
      /\ \A i \in 1..K : /\ L + i \in 1..(L + K)
                        /\ memTrace'[L + i] = PageRequest(n, i)
      /\ \A i \in 1..(L + K) : i \in 1..L \/ \E h \in 1..K : i = L + h
  BY <1>6 DEF Grown
<1>8. \A h \in 1..K : h \in 1..n.reqSize
  BY <1>1, <1>7, KeptFacts DEF Reader!Atom
<1>9. Reader!AtomsInTheirBlock'
  <2>1. ASSUME inputTraceFormat = "msr", NEW i \in 1..(L + K)
        PROVE  memTrace'[i].ssdblkno = memTrace'[i].fsblkno \div BlockPages
    <3>1. CASE i \in 1..L
      <4>1. memTrace[i].ssdblkno = memTrace[i].fsblkno \div BlockPages
        BY <1>7, <2>1, <3>1 DEF ReaderInv, Reader!AtomsInTheirBlock
      <4>2. memTrace'[i] = memTrace[i]
        BY <1>7, <3>1
      <4>3. QED
        BY <4>1, <4>2
    <3>2. CASE \E h \in 1..K : i = L + h
      <4>1. PICK h \in 1..K : i = L + h
        BY <3>2
      <4>2. memTrace'[i] = PageRequest(n, h)
        BY <1>7, <4>1
      <4>3. n.ssdblkno = (n.fsblkno + h - 1) \div BlockPages
        BY <1>8, <2>1
      <4>4. QED
        BY <4>2, <4>3 DEF PageRequest
    <3>3. QED
      BY <1>7, <3>1, <3>2
  <2>2. QED
    BY <1>1, <1>7, <2>1 DEF Reader!AtomsInTheirBlock
<1>10. BaseTimeKept'
  BY <1>1, LinesKeep DEF BaseTimeKept
<1>11. Reader!TimesSinceFirstLine'
  <2> DEFINE base == Reader!Base
             InTime(m) == m.issueTime = Reader!Clock(file[m.lineNo]) - base
  <2>1. inputTraceFormat = "msr" => \A i \in 1..L : InTime(memTrace[i])
    BY <1>7 DEF ReaderInv, Reader!TimesSinceFirstLine
  <2>2. ASSUME inputTraceFormat = "msr", NEW h \in 1..K
        PROVE  InTime(PageRequest(n, h))
    <3>1. n.reqSize # 0
      BY <1>1, <1>8 DEF Reader!Atom
    <3>2. /\ n.issueTime = Reader!Clock(Reader!NextLine) - base
          /\ Reader!NextLine = file[lineno + 1]
      BY <2>2, <3>1 DEF Reader!NextLine
    <3>3. /\ PageRequest(n, h).lineNo = lineno + 1
          /\ PageRequest(n, h).issueTime = n.issueTime
      BY <1>1 DEF PageRequest
    <3>4. QED
      BY <3>2, <3>3
  <2>3. base' = base
    BY <1>1, LinesKeep
  <2> HIDE DEF base
  <2>4. ASSUME inputTraceFormat = "msr", NEW i \in 1..(L + K)
        PROVE  InTime(memTrace'[i])
    <3> HIDE DEF InTime
    <3>1. CASE i \in 1..L
      BY <1>7, <2>1, <2>4, <3>1
    <3>2. CASE \E h \in 1..K : i = L + h
      BY <1>7, <2>2, <2>4, <3>2
    <3>3. QED
      BY <1>7, <3>1, <3>2
  <2>5. ASSUME inputTraceFormat = "msr", NEW i \in DOMAIN memTrace'
        PROVE  memTrace'[i].issueTime
                 = Reader!Clock(file'[memTrace'[i].lineNo]) - base'
    BY <1>1, <1>7, <2>3, <2>4, <2>5
  <2>6. QED
    BY <1>1, <2>5 DEF Reader!TimesSinceFirstLine, Reader!Clock, base
<1>12. ASSUME NEW k \in 1..lineno'
       PROVE  Complete(k)'
  <2>1. k \in 1..(lineno + 1)
    BY <1>1
  <2>2. /\ Reader!Wanted(k)' <=> Reader!Wanted(k)
        /\ Reader!Requested(file[k])' = Reader!Requested(file[k])
    BY <1>1, LinesKeep
  <2>3. CASE k = lineno + 1
    <3>1. Reader!PagesOf(k)' = NextPages
      BY <2>1, <2>3, DeliverPages
    <3>2. file[k] = Reader!NextLine
      BY <2>3 DEF Reader!NextLine
    <3>3. QED
      BY <2>2, <2>3, <3>1, <3>2 DEF Complete, NextPages
  <2>4. CASE k # lineno + 1
    <3>1. Reader!PagesOf(k)' = Reader!PagesOf(k)
      BY <2>1, <2>4, DeliverPages
    <3>2. Complete(k)
      BY <1>1, <2>1, <2>4 DEF ReaderInv
    <3>3. QED
      BY <2>2, <3>1, <3>2 DEF Complete
  <2>5. QED
    BY <2>3, <2>4
<1>13. FlagsLeft'
  <2>1. newn'.flags # "WRITE"
    BY <1>1 DEF Reader!cleared
  <2>2. file[lineno + 1] = Reader!NextLine /\ lineno + 1 \in Nat \ {0}
    BY <1>1 DEF Reader!NextLine
  <2>3. PICK k \in Nat : k = lineno + 1 + 1
    BY <1>1
  <2>4. inputTraceFormat = "msr" => ~Reader!AfterEmptyWrite(k)
    BY <2>2, <2>3, LeftByLine
  <2>5. inputTraceFormat = "msr" => ~Reader!AfterEmptyWrite(k)'
    BY <1>1, <2>4, LinesKeep
  <2>6. lineno' + 1 = k
    BY <1>1, <2>3
  <2>7. QED
    BY <1>1, <2>1, <2>5, <2>6 DEF FlagsLeft, Reader!AfterEmptyWrite
<1>14. QED
  BY <1>4, <1>5, <1>9, <1>10, <1>11, <1>12, <1>13, DeliverOrder DEF ReaderInv

\* A line that is skipped has no pages.
LEMMA SkipKeeps ==
  ASSUME Reader!ReaderAssumption, ReaderInv, ~done, lineno < Reader!LinesRead,
         Reader!ReadLine,
         memTrace' = memTrace, newn' \in Reader!Atom, newn'.reqSize = 0,
         baseTime' \in Int, inputTraceFormat = "msr" => baseTime' = Reader!Base,
         ~Reader!Wanted(lineno + 1),
         inputTraceFormat = "msr" =>
           (newn'.flags = "WRITE" <=> Reader!AfterEmptyWrite(lineno + 2))
  PROVE  ReaderInv'
<1>1. /\ lineno' = lineno + 1
      /\ UNCHANGED <<inputTraceFormat, writeOnly, file, newlineAtEnd, maxLineNo,
                      done>>
      /\ Reader!LinesRead' = Reader!LinesRead /\ lineno \in Nat
  BY LineFacts DEF Reader!ReadLine, Reader!LinesRead, ReaderInv, Place, Reader!given
<1>2. Place /\ Parsed
  BY DEF ReaderInv
<1>3. Reader!LinesRead \in Nat /\ lineno + 1 \in 1..Len(file)
  BY <1>1, <1>2, LineFacts
<1>4. Place'
  BY <1>1, <1>2, <1>3 DEF Place
<1>5. Parsed'
  BY <1>2 DEF Parsed
<1>6. \A i \in DOMAIN memTrace : memTrace[i].lineNo \in 1..lineno
  BY DEF ReaderInv, LinesOrdered
<1>7. LinesOrdered'
  <2>1. \A i \in DOMAIN memTrace' : memTrace'[i].lineNo \in 1..lineno'
    BY <1>1, <1>6
  <2>2. QED
    BY <2>1 DEF ReaderInv, LinesOrdered
<1>8. Reader!Base' = Reader!Base
  BY <1>1, LinesKeep
<1>9. Reader!AtomsInTheirBlock' /\ BaseTimeKept' /\ Reader!TimesSinceFirstLine'
  BY <1>1, <1>8
    DEF ReaderInv, Reader!AtomsInTheirBlock, BaseTimeKept, Reader!TimesSinceFirstLine,
        Reader!Clock
<1>10. ASSUME NEW k \in 1..lineno'
       PROVE  Complete(k)'
  <2>1. Reader!PagesOf(k)' = Reader!PagesOf(k)
    BY DEF Reader!PagesOf
  <2>2. /\ Reader!Wanted(k)' <=> Reader!Wanted(k)
        /\ Reader!Requested(file[k])' = Reader!Requested(file[k])
    BY <1>1, LinesKeep
  <2>3. CASE k = lineno + 1
    <3>1. Reader!PagesOf(k) = {}
      BY <1>1, <1>6, <2>3 DEF Reader!PagesOf
    <3>2. QED
      BY <2>1, <2>2, <2>3, <3>1 DEF Complete
  <2>4. CASE k # lineno + 1
    <3>1. Complete(k)
      BY <1>1, <2>4 DEF ReaderInv
    <3>2. QED
      BY <2>1, <2>2, <3>1 DEF Complete
  <2>5. QED
    BY <2>3, <2>4
<1>11. FlagsLeft'
  <2>1. PICK k \in Nat : k = lineno + 2
    BY <1>1
  <2>2. Reader!AfterEmptyWrite(k)' <=> Reader!AfterEmptyWrite(k)
    BY <1>1, LinesKeep
  <2>3. lineno' + 1 = k
    BY <1>1, <2>1
  <2>4. QED
    BY <1>1, <2>1, <2>2, <2>3 DEF FlagsLeft, Reader!AfterEmptyWrite
<1>12. QED
  BY <1>4, <1>5, <1>7, <1>9, <1>10, <1>11 DEF ReaderInv

\* The end of the file takes the number of its last line.
LEMMA EndKeeps ==
  ASSUME Reader!ReaderAssumption, ReaderInv, Reader!EndOfFile
  PROVE  ReaderInv'
<1>1. /\ UNCHANGED <<inputTraceFormat, writeOnly, file, newlineAtEnd, lineno,
                       baseTime, newn, memTrace>>
      /\ lineno = Reader!LinesRead /\ Reader!LinesRead' = Reader!LinesRead
      /\ maxLineNo' = lineno /\ done' = TRUE
  BY DEF Reader!EndOfFile, Reader!LinesRead, Reader!given
<1>2. Place'
  BY <1>1 DEF ReaderInv, Place
<1>3. Reader!Base' = Reader!Base
  BY <1>1, LinesKeep
<1>4. /\ Parsed' /\ LinesOrdered' /\ Reader!AtomsInTheirBlock'
      /\ BaseTimeKept' /\ Reader!TimesSinceFirstLine' /\ FlagsLeft'
  BY <1>1, <1>3
    DEF ReaderInv, Parsed, LinesOrdered, Reader!AtomsInTheirBlock, BaseTimeKept,
        Reader!TimesSinceFirstLine, Reader!Clock, FlagsLeft, Reader!AfterEmptyWrite
<1>5. ASSUME NEW k \in 1..lineno'
      PROVE  Complete(k)'
  <2>1. /\ Reader!Wanted(k)' <=> Reader!Wanted(k)
        /\ Reader!Requested(file[k])' = Reader!Requested(file[k])
        /\ Reader!PagesOf(k)' = Reader!PagesOf(k)
    BY <1>1, LinesKeep DEF Reader!PagesOf
  <2>2. QED
    BY <1>1, <2>1 DEF ReaderInv, Complete
<1>6. QED
  BY <1>2, <1>4, <1>5 DEF ReaderInv

\* What any step that parses a line starts from.
LEMMA NextFacts ==
  ASSUME Reader!ReaderAssumption, ReaderInv, NEW form, Reader!AtLine(form)
  PROVE  /\ ~done /\ lineno < Reader!LinesRead /\ lineno \in Nat
         /\ Reader!NextLine \in TraceLine /\ Reader!NextLine.form = form
         /\ Reader!NextLine.first \in Nat /\ Reader!NextLine.off \in Nat
         /\ Reader!NextLine.bytes \in Nat
         /\ newn \in Reader!Atom /\ newn.reqSize = 0 /\ baseTime \in Int
         /\ file[lineno + 1] = Reader!NextLine
         /\ PageBytes \in Nat \ {0} /\ BlockPages \in Nat \ {0}
<1>1. /\ Place /\ Parsed /\ ~done /\ lineno < Reader!LinesRead
      /\ Reader!NextLine.form = form
  BY DEF ReaderInv, Reader!AtLine
<1>2. lineno \in Nat /\ Reader!NextLine \in TraceLine
  BY <1>1, LineFacts
<1>3. QED
  BY <1>1, <1>2, FieldFacts DEF Parsed, Reader!ReaderAssumption, Reader!NextLine

\* The base time is that of the first line, whichever line is read.
LEMMA BaseTimeFacts ==
  ASSUME Reader!ReaderAssumption, ReaderInv, lineno < Reader!LinesRead,
         ~(Reader!NextLine.form = "web" /\ Reader!NextLine.bytes = 0),
         baseTime' = Reader!BaseTime(Reader!Clock(Reader!NextLine))
  PROVE  baseTime' \in Int /\ (inputTraceFormat = "msr" => baseTime' = Reader!Base)
<1>1. /\ lineno \in Nat /\ Reader!NextLine \in TraceLine
      /\ Reader!NextLine.first \in Nat
      /\ baseTime \in Int
  BY LineFacts, FieldFacts DEF ReaderInv, Parsed
<1>2. Reader!Clock(Reader!NextLine) \in Int
  BY <1>1, ClockType
<1>3. CASE lineno = 0
  <2>1. Reader!NextLine = file[1]
    BY <1>3 DEF Reader!NextLine
  <2>2. baseTime' = Reader!Clock(Reader!NextLine)
    BY <1>3 DEF Reader!BaseTime
  <2>3. Reader!Base = Reader!Clock(file[1])
    BY <2>1 DEF Reader!Base
  <2>4. QED
    BY <1>2, <2>1, <2>2, <2>3
<1>4. CASE lineno # 0
  BY <1>1, <1>4 DEF Reader!BaseTime, ReaderInv, BaseTimeKept
<1>5. QED
  BY <1>3, <1>4

\* The pages in memTrace of a request.
LEMMA DeliveredPages ==
  ASSUME NEW n \in Reader!Atom
  PROVE  {n.fsblkno + i - 1 : i \in 1..Len(Reader!Kept(n))} =
           IF writeOnly /\ n.flags # "WRITE" THEN {}
           ELSE n.fsblkno..(n.fsblkno + n.reqSize - 1)
<1> DEFINE page == n.fsblkno
           m == n.reqSize
           K == Len(Reader!Kept(n))
           drop == writeOnly /\ n.flags # "WRITE"
<1>1. page \in Nat /\ m \in Nat /\ K = IF drop THEN 0 ELSE m
  BY KeptFacts DEF Reader!Atom
<1> HIDE DEF page, m, K, drop
<1>2. {page + i - 1 : i \in 1..m} = page..(page + m - 1)
  <2>1. \A p \in page..(page + m - 1) :
          p - page + 1 \in 1..m /\ p = page + (p - page + 1) - 1
    BY <1>1
  <2>2. \A i \in 1..m : page + i - 1 \in page..(page + m - 1)
    BY <1>1
  <2>3. QED
    BY <2>1, <2>2
<1>3. 1..0 = {}
  OBVIOUS
<1>4. {page + i - 1 : i \in 1..K} = IF drop THEN {} ELSE page..(page + m - 1)
  BY <1>1, <1>2, <1>3
<1>5. QED
  BY <1>4 DEF page, m, K, drop

\* The pages of a request stay in the block of its first page.
LEMMA BlockFacts ==
  ASSUME Reader!ReaderAssumption, NEW page \in Nat, NEW bytes \in Nat \ {0}
  PROVE  \A i \in 1..Reader!ReqSize(page, bytes) :
           page \div BlockPages = (page + i - 1) \div BlockPages
<1>1. BlockPages \in Nat \ {0}
  BY DEF Reader!ReaderAssumption
<1>2. page % BlockPages \in 0..(BlockPages - 1)
  BY <1>1, Division
<1> DEFINE room == BlockPages - (page % BlockPages)
<1>3. /\ Reader!ReqSize(page, bytes) \in Nat /\ Reader!ReqSize(page, bytes) <= room
      /\ room \in Nat
  BY <1>1, <1>2, ReqSizeFacts
<1> HIDE DEF room
<1>4. ASSUME NEW i \in 1..Reader!ReqSize(page, bytes)
      PROVE  page \div BlockPages = (page + i - 1) \div BlockPages
  <2>1. /\ page + i - 1 \in Nat /\ page + i - 1 >= page
        /\ page + i - 1 < page + room
    BY <1>3
  <2>2. QED
    BY <1>1, <2>1, SameBlock DEF room
<1>5. QED
  BY <1>4

\* The three reasons for which an MSR line is skipped.
LEMMA SkipMSRKeeps ==
  ASSUME Reader!ReaderAssumption, ReaderInv, Reader!SkipMSR
  PROVE  ReaderInv'
<1> DEFINE l == Reader!NextLine
           page == l.off \div PageBytes
<1>1. /\ Reader!AtLine("msr") /\ Reader!ReadLine /\ memTrace' = memTrace
      /\ baseTime' = Reader!BaseTime(Reader!WindowsTickToUnixMilliSeconds(l.first))
      /\ \/ l.first = 0 /\ newn' = newn
         \/ l.first # 0 /\ l.op \notin {"Read", "Write"} /\ newn' = Reader!Timed(l)
         \/ /\ l.first # 0 /\ l.op \in {"Read", "Write"} /\ l.bytes = 0
            /\ newn' = Reader!Placed(Reader!Timed(l), l, page)
  BY DEF Reader!SkipMSR
<1>2. /\ ~done /\ lineno < Reader!LinesRead
      /\ l.first \in Nat /\ l.off \in Nat
      /\ newn \in Reader!Atom /\ newn.reqSize = 0
      /\ PageBytes \in Nat \ {0} /\ BlockPages \in Nat \ {0}
  BY <1>1, NextFacts
<1>3. baseTime' \in Int /\ (inputTraceFormat = "msr" => baseTime' = Reader!Base)
  <2>1. /\ l.form = "msr"
        /\ Reader!Clock(l) = Reader!WindowsTickToUnixMilliSeconds(l.first)
    BY <1>1, NextFacts DEF Reader!Clock
  <2>2. QED
    BY <1>1, <1>2, <2>1, BaseTimeFacts
<1>4. /\ Reader!Timed(l) \in Reader!Atom /\ Reader!Timed(l).reqSize = 0
      /\ Reader!Timed(l).flags = newn.flags
  <2>1. Reader!WindowsTickToUnixMilliSeconds(l.first) - baseTime' \in Int
    BY <1>2, <1>3, ClockType
  <2>2. QED
    BY <1>2, <2>1 DEF Reader!Timed, Reader!Atom
<1>5. /\ Reader!Placed(Reader!Timed(l), l, page) \in Reader!Atom
      /\ Reader!Placed(Reader!Timed(l), l, page).reqSize = 0
      /\ Reader!Placed(Reader!Timed(l), l, page).flags =
           IF l.op = "Write" THEN "WRITE" ELSE "READ"
  <2>1. page \in Nat /\ page \div BlockPages \in Nat
    BY <1>2, Division
  <2>2. QED
    BY <1>4, <2>1 DEF Reader!Placed, Reader!Atom
<1>6. newn' \in Reader!Atom /\ newn'.reqSize = 0
  BY <1>1, <1>2, <1>4, <1>5
<1>7. l.form = "msr" /\ file[lineno + 1] = l /\ lineno \in Nat
  BY <1>1, NextFacts
<1>8. ~Reader!Wanted(lineno + 1)
  BY <1>1, <1>7 DEF Reader!Wanted, Reader!Untyped
<1>9. ASSUME inputTraceFormat = "msr"
      PROVE  newn'.flags = "WRITE" <=> Reader!AfterEmptyWrite(lineno + 2)
  <2>1. Reader!AfterEmptyWrite(lineno + 2) <=>
          EmptyWrite(l) \/ (Reader!Untyped(l) /\ Reader!AfterEmptyWrite(lineno + 1))
    <3>1. lineno + 1 \in Nat \ {0} /\ lineno + 1 + 1 = lineno + 2
      BY <1>7
    <3>2. QED
      BY <1>7, <3>1, LeftByLine
  <2>2. newn.flags = "WRITE" <=> Reader!AfterEmptyWrite(lineno + 1)
    BY <1>9 DEF ReaderInv, FlagsLeft
  <2>3. CASE Reader!Untyped(l)
    <3>1. newn'.flags = newn.flags /\ ~EmptyWrite(l)
      BY <1>1, <1>4, <2>3 DEF Reader!Untyped, EmptyWrite
    <3>2. QED
      BY <2>1, <2>2, <2>3, <3>1
  <2>4. CASE ~Reader!Untyped(l)
    <3>1. /\ l.bytes = 0
          /\ newn'.flags = IF l.op = "Write" THEN "WRITE" ELSE "READ"
      BY <1>1, <1>5, <1>7, <2>4 DEF Reader!Untyped
    <3>2. EmptyWrite(l) <=> l.op = "Write"
      BY <1>7, <2>4, <3>1 DEF EmptyWrite
    <3>3. QED
      BY <2>1, <2>4, <3>1, <3>2
  <2>5. QED
    BY <2>3, <2>4
<1>10. QED
  BY <1>1, <1>2, <1>3, <1>6, <1>8, <1>9, SkipKeeps

\* A line of the MSR trace that is not skipped.
LEMMA FetchMSRKeeps ==
  ASSUME Reader!ReaderAssumption, ReaderInv, Reader!FetchMSR
  PROVE  ReaderInv'
<1> DEFINE l == Reader!NextLine
           page == l.off \div PageBytes
           m == Reader!ReqSize(page, l.bytes)
           n == [Reader!Placed(Reader!Timed(l), l, page) EXCEPT !.reqSize = m,
                                                                !.lineNo = lineno + 1]
<1>1. /\ Reader!AtLine("msr") /\ Reader!ReadLine /\ Reader!Deliver(n)
      /\ l.first # 0 /\ l.op \in {"Read", "Write"} /\ l.bytes # 0
      /\ baseTime' = Reader!BaseTime(Reader!WindowsTickToUnixMilliSeconds(l.first))
  BY DEF Reader!FetchMSR
<1>2. /\ ~done /\ lineno < Reader!LinesRead /\ lineno \in Nat
      /\ l.first \in Nat /\ l.off \in Nat /\ l.bytes \in Nat \ {0}
      /\ newn \in Reader!Atom /\ newn.reqSize = 0
      /\ PageBytes \in Nat \ {0} /\ BlockPages \in Nat \ {0}
  BY <1>1, NextFacts
<1>3. baseTime' \in Int /\ (inputTraceFormat = "msr" => baseTime' = Reader!Base)
  <2>1. /\ l.form = "msr"
        /\ Reader!Clock(l) = Reader!WindowsTickToUnixMilliSeconds(l.first)
    BY <1>1, NextFacts DEF Reader!Clock
  <2>2. QED
    BY <1>1, <1>2, <2>1, BaseTimeFacts
<1> DEFINE time == Reader!WindowsTickToUnixMilliSeconds(l.first) - baseTime'
<1>4. time \in Int
  BY <1>2, <1>3, ClockType
<1>5. page \in Nat /\ page \div BlockPages \in Nat
  BY <1>2, Division
<1>6. m \in Nat \ {0}
  BY <1>2, <1>5, ReqSizeFacts
<1>7. Reader!Timed(l) \in Reader!Atom /\ Reader!Timed(l).issueTime = time
  BY <1>2, <1>4 DEF Reader!Timed, Reader!Atom
<1> HIDE DEF m, time
<1>8. /\ Reader!Placed(Reader!Timed(l), l, page) \in Reader!Atom
      /\ Reader!Placed(Reader!Timed(l), l, page).issueTime = time
      /\ Reader!Placed(Reader!Timed(l), l, page).fsblkno = page
      /\ Reader!Placed(Reader!Timed(l), l, page).ssdblkno = page \div BlockPages
      /\ Reader!Placed(Reader!Timed(l), l, page).flags =
           IF l.op = "Write" THEN "WRITE" ELSE "READ"
  BY <1>5, <1>7 DEF Reader!Placed, Reader!Atom
<1>9. /\ n \in Reader!Atom /\ n.reqSize = m /\ n.lineNo = lineno + 1
      /\ n.issueTime = time
      /\ n.fsblkno = page /\ n.ssdblkno = page \div BlockPages
      /\ n.flags = IF l.op = "Write" THEN "WRITE" ELSE "READ"
  <2> DEFINE a == Reader!Placed(Reader!Timed(l), l, page)
  <2>1. a \in Reader!Atom
    BY <1>8
  <2> HIDE DEF a
  <2> DEFINE b == [a EXCEPT !.reqSize = m]
  <2>2. b \in Reader!Atom /\ lineno + 1 \in Nat
    <3>1. m \in Nat /\ lineno + 1 \in Nat
      BY <1>2, <1>6
    <3>2. QED
      BY <2>1, <3>1, AtomExcept, Zenon
  <2>3. n \in Reader!Atom
    <3>1. n = [b EXCEPT !.lineNo = lineno + 1]
      BY DEF a
    <3> HIDE DEF b, n
    <3>2. QED
      BY <2>2, <3>1, AtomExcept
  <2>4. QED
    BY <1>2, <1>6, <1>8, <2>3 DEF Reader!Atom
<1> HIDE DEF n
<1>10. Delivers(n)
  BY <1>1, <1>2, <1>9 DEF Delivers
<1>11. \A i \in 1..n.reqSize : n.ssdblkno = (n.fsblkno + i - 1) \div BlockPages
  <2>1. \A i \in 1..m : page \div BlockPages = (page + i - 1) \div BlockPages
    BY <1>2, <1>5, BlockFacts DEF m
  <2> HIDE DEF page
  <2>2. QED
    BY <1>9, <2>1
<1>12. l.form = "msr" /\ file[lineno + 1] = l
  BY <1>1, NextFacts
<1>13. {n.fsblkno + i - 1 : i \in 1..Len(Reader!Kept(n))} = NextPages
  <2>1. {n.fsblkno + i - 1 : i \in 1..Len(Reader!Kept(n))}
          = IF writeOnly /\ l.op # "Write" THEN {} ELSE page..(page + m - 1)
    BY <1>9, DeliveredPages
  <2>2. Reader!Requested(l) = page..(page + m - 1)
    <3>1. Reader!FirstPage(l) = page /\ l.form # "mem"
      BY <1>12 DEF Reader!FirstPage
    <3>2. QED
      BY <1>2, <1>5, <3>1, RequestedPages DEF m
  <2>3. Reader!Wanted(lineno + 1) <=> ~(writeOnly /\ l.op # "Write")
    BY <1>1, <1>2, <1>12 DEF Reader!Wanted, Reader!Untyped, Reader!IsWrite
  <2>4. QED
    BY <2>1, <2>2, <2>3 DEF NextPages
<1>14. /\ n.issueTime = Reader!Clock(l) - baseTime'
       /\ ~Reader!Untyped(l) /\ ~EmptyWrite(l)
  BY <1>1, <1>9, <1>12 DEF time, Reader!Clock, Reader!Untyped, EmptyWrite
<1>15. QED
  BY <1>3, <1>10, <1>11, <1>13, <1>14, DeliverKeeps

\* A WebSearch line, of size zero or not.
LEMMA FetchWebSearchKeeps ==
  ASSUME Reader!ReaderAssumption, ReaderInv, inputTraceFormat = "msr",
         Reader!FetchWebSearch
  PROVE  ReaderInv'
<1> DEFINE l == Reader!NextLine
           m == Reader!ReqSize(l.off, l.bytes)
           n == [newn EXCEPT !.fsblkno = l.off, !.ssdblkno = l.off \div BlockPages,
                             !.lineNo = lineno + 1]
           o == [n EXCEPT !.reqSize = m,
                          !.flags = CASE l.op = "W" -> "WRITE" [] l.op = "R" -> "READ"
                                      [] OTHER -> @,
                          !.issueTime = Reader!Milliseconds(l.first) - baseTime']
<1>1. /\ Reader!AtLine("web") /\ Reader!ReadLine
      /\ \/ l.bytes = 0 /\ Reader!Deliver(n) /\ baseTime' = baseTime
         \/ /\ l.bytes # 0 /\ Reader!Deliver(o)
            /\ baseTime' = Reader!BaseTime(Reader!Milliseconds(l.first))
  BY DEF Reader!FetchWebSearch
<1>2. /\ ~done /\ lineno < Reader!LinesRead /\ lineno \in Nat
      /\ l.first \in Nat /\ l.off \in Nat /\ l.bytes \in Nat
      /\ newn \in Reader!Atom /\ newn.reqSize = 0 /\ baseTime \in Int
      /\ PageBytes \in Nat \ {0} /\ BlockPages \in Nat \ {0}
      /\ l.form = "web" /\ file[lineno + 1] = l
  BY <1>1, NextFacts
<1>3. l.off \div BlockPages \in Nat
  BY <1>2, Division
<1>4. /\ n \in Reader!Atom /\ n.reqSize = 0 /\ n.fsblkno = l.off
      /\ n.lineNo = lineno + 1 /\ n.flags = newn.flags
      /\ n.ssdblkno = l.off \div BlockPages
  <2> DEFINE a == [newn EXCEPT !.fsblkno = l.off,
                               !.ssdblkno = l.off \div BlockPages]
  <2>1. /\ a \in Reader!Atom /\ a.reqSize = 0 /\ a.fsblkno = l.off
        /\ a.ssdblkno = l.off \div BlockPages /\ a.flags = newn.flags
    BY <1>2, <1>3 DEF Reader!Atom
  <2>2. n = [a EXCEPT !.lineNo = lineno + 1]
    BY <2>1
  <2> HIDE DEF a, n
  <2>3. QED
    BY <1>2, <2>1, <2>2 DEF Reader!Atom
<1>5. ~Reader!Untyped(l) /\ ~EmptyWrite(l)
  BY <1>2 DEF Reader!Untyped, EmptyWrite
<1> HIDE DEF n
<1>6. CASE l.bytes = 0
  <2>1. Delivers(n) /\ baseTime' \in Int
    BY <1>1, <1>2, <1>4, <1>6 DEF Delivers
  <2>2. \A i \in 1..n.reqSize : n.ssdblkno = (n.fsblkno + i - 1) \div BlockPages
    BY <1>4
  <2>3. inputTraceFormat = "msr" => baseTime' = Reader!Base
    <3>1. lineno = 0 => l = file[1]
      BY <1>2
    <3>2. QED
      BY <1>1, <1>2, <1>6, <3>1 DEF Reader!Base, ReaderInv, BaseTimeKept
  <2>4. {n.fsblkno + i - 1 : i \in 1..Len(Reader!Kept(n))} = NextPages
    <3>1. {n.fsblkno + i - 1 : i \in 1..Len(Reader!Kept(n))} = {}
      <4>1. l.off..(l.off + 0 - 1) = {}
        BY <1>2
      <4>2. QED
        BY <1>4, <4>1, DeliveredPages
    <3>2. ~Reader!Wanted(lineno + 1)
      BY <1>2, <1>6 DEF Reader!Wanted
    <3>3. QED
      BY <3>1, <3>2 DEF NextPages
  <2>5. QED
    BY <1>4, <1>5, <2>1, <2>2, <2>3, <2>4, DeliverKeeps
<1>7. CASE l.bytes # 0
  <2> DEFINE time == Reader!Milliseconds(l.first) - baseTime'
             flags == CASE l.op = "W" -> "WRITE" [] l.op = "R" -> "READ"
                        [] OTHER -> n.flags
  <2>1. baseTime' \in Int /\ (inputTraceFormat = "msr" => baseTime' = Reader!Base)
    BY <1>1, <1>2, <1>7, BaseTimeFacts DEF Reader!Clock
  <2>2. m \in Nat /\ time \in Int
    BY <1>2, <1>7, <2>1, ReqSizeFacts, ClockType
  <2>3. flags \in {"none", "READ", "WRITE"}
    BY <1>4 DEF Reader!Atom
  <2>4. o = [n EXCEPT !.reqSize = m, !.flags = flags, !.issueTime = time]
    OBVIOUS
  <2> HIDE DEF m, time, flags, o
  <2>5. /\ o \in Reader!Atom /\ o.reqSize = m /\ o.fsblkno = l.off
        /\ o.lineNo = lineno + 1 /\ o.issueTime = time /\ o.flags = flags
        /\ o.ssdblkno = l.off \div BlockPages
    BY <1>4, <2>2, <2>3, <2>4 DEF Reader!Atom
  <2>6. Delivers(o)
    BY <1>1, <1>2, <1>7, <2>5 DEF Delivers
  <2>7. \A i \in 1..o.reqSize : o.ssdblkno = (o.fsblkno + i - 1) \div BlockPages
    <3>1. \A i \in 1..m :
            l.off \div BlockPages = (l.off + i - 1) \div BlockPages
      <4>1. l.off \in Nat /\ l.bytes \in Nat \ {0}
        BY <1>2, <1>7
      <4>2. QED
        BY <4>1, BlockFacts, Zenon DEF m
    <3>2. QED
      BY <2>5, <3>1
  <2>8. {o.fsblkno + i - 1 : i \in 1..Len(Reader!Kept(o))} = NextPages
    <3>1. {o.fsblkno + i - 1 : i \in 1..Len(Reader!Kept(o))}
            = IF writeOnly /\ flags # "WRITE" THEN {} ELSE l.off..(l.off + m - 1)
      BY <2>5, DeliveredPages
    <3>2. Reader!Requested(l) = l.off..(l.off + m - 1)
      <4>1. Reader!FirstPage(l) = l.off /\ l.form # "mem"
        BY <1>2 DEF Reader!FirstPage
      <4>2. QED
        BY <1>2, <1>7, <4>1, RequestedPages DEF m
    <3>3. Reader!Wanted(lineno + 1) <=> ~(writeOnly /\ flags # "WRITE")
      <4>1. n.flags = "WRITE" <=> Reader!AfterEmptyWrite(lineno + 1)
        BY <1>4 DEF ReaderInv, FlagsLeft
      <4>2. flags = "WRITE" <=> Reader!IsWrite(lineno + 1)
        BY <1>2, <4>1 DEF Reader!IsWrite, flags
      <4>3. QED
        BY <1>2, <1>5, <1>7, <4>2 DEF Reader!Wanted
    <3>4. QED
      BY <3>1, <3>2, <3>3 DEF NextPages
  <2>9. o.issueTime = Reader!Clock(l) - baseTime'
    BY <1>2, <2>5 DEF time, Reader!Clock
  <2>10. QED
    BY <1>5, <2>1, <2>6, <2>7, <2>8, <2>9, DeliverKeeps
<1>8. QED
  BY <1>6, <1>7

\* The lines of a memory trace.
LEMMA MemoryKeeps ==
  ASSUME Reader!ReaderAssumption, ReaderInv, inputTraceFormat = "mem",
         Reader!FetchMEM \/ Reader!SkipBlank
  PROVE  ReaderInv'
<1>1. CASE Reader!FetchMEM
  <2> DEFINE n == [newn EXCEPT !.fsblkno = Reader!NextLine.off,
                               !.ssdblkno = Reader!NextLine.off,
                               !.reqSize = 1, !.lineNo = lineno + 1, !.flags = "WRITE"]
  <2>1. /\ Reader!AtLine("mem") /\ Reader!ReadLine /\ Reader!Deliver(n)
        /\ baseTime' = baseTime
    BY <1>1 DEF Reader!FetchMEM
  <2>2. /\ ~done /\ lineno < Reader!LinesRead /\ lineno \in Nat
        /\ Reader!NextLine.off \in Nat
        /\ newn \in Reader!Atom /\ baseTime \in Int
        /\ Reader!NextLine.form = "mem" /\ file[lineno + 1] = Reader!NextLine
    BY <2>1, NextFacts
  <2>3. n \in Reader!Atom /\ n.lineNo = lineno + 1
    <3> DEFINE a == [newn EXCEPT !.fsblkno = Reader!NextLine.off,
                                 !.ssdblkno = Reader!NextLine.off]
               b == [a EXCEPT !.reqSize = 1, !.lineNo = lineno + 1]
    <3>1. a \in Reader!Atom
      BY <2>2 DEF Reader!Atom
    <3>2. n = [b EXCEPT !.flags = "WRITE"]
      OBVIOUS
    <3> HIDE DEF a, n
    <3>3. b \in Reader!Atom /\ b.lineNo = lineno + 1
      <4> DEFINE c == [a EXCEPT !.reqSize = 1]
      <4>1. c \in Reader!Atom /\ lineno + 1 \in Nat
        <5>1. 1 \in Nat /\ lineno + 1 \in Nat
          BY <2>2
        <5>2. QED
          BY <3>1, <5>1, AtomExcept, Zenon
      <4>2. b = [c EXCEPT !.lineNo = lineno + 1]
        OBVIOUS
      <4> HIDE DEF c, b
      <4>3. QED
        BY <4>1, <4>2 DEF Reader!Atom
    <3> HIDE DEF b
    <3>4. QED
      BY <3>2, <3>3 DEF Reader!Atom
  <2>4. n.fsblkno = Reader!NextLine.off /\ n.reqSize = 1 /\ n.flags = "WRITE"
    BY <2>2 DEF Reader!Atom
  <2> HIDE DEF n
  <2>5. Delivers(n)
    BY <2>1, <2>2, <2>3 DEF Delivers
  <2>6. {n.fsblkno + i - 1 : i \in 1..Len(Reader!Kept(n))} = NextPages
    <3>1. {n.fsblkno + i - 1 : i \in 1..Len(Reader!Kept(n))} = {Reader!NextLine.off}
      <4>1. Reader!NextLine.off..(Reader!NextLine.off + 1 - 1) = {Reader!NextLine.off}
        BY <2>2
      <4>2. QED
        BY <2>3, <2>4, <4>1, DeliveredPages
    <3>2. Reader!Requested(Reader!NextLine) = {Reader!NextLine.off}
      BY <2>2 DEF Reader!Requested
    <3>3. Reader!Wanted(lineno + 1)
      BY <2>2 DEF Reader!Wanted, Reader!Untyped, Reader!IsWrite
    <3>4. QED
      BY <3>1, <3>2, <3>3 DEF NextPages
  <2>7. QED
    BY <2>1, <2>2, <2>5, <2>6, DeliverKeeps
<1>2. CASE Reader!SkipBlank
  <2>1. /\ Reader!AtLine("blank") /\ Reader!ReadLine
        /\ baseTime' = baseTime /\ newn' = newn /\ memTrace' = memTrace
    BY <1>2 DEF Reader!SkipBlank
  <2>2. /\ ~done /\ lineno < Reader!LinesRead /\ newn \in Reader!Atom
        /\ newn.reqSize = 0
        /\ baseTime \in Int
        /\ Reader!NextLine.form = "blank" /\ file[lineno + 1] = Reader!NextLine
    BY <2>1, NextFacts
  <2>3. ~Reader!Wanted(lineno + 1)
    BY <2>2 DEF Reader!Wanted
  <2>4. QED
    BY <2>1, <2>2, <2>3, SkipKeeps
<1>3. QED
  BY <1>1, <1>2

\* Before the first line.
LEMMA ReaderInit ==
  ASSUME Reader!ReaderAssumption, Reader!Init
  PROVE  ReaderInv
<1>1. /\ file \in TraceFile
      /\ inputTraceFormat \in {"msr", "mem"} /\ writeOnly \in BOOLEAN
      /\ newlineAtEnd \in BOOLEAN /\ lineno = 0 /\ baseTime = 0
      /\ newn = Reader!cleared /\ memTrace = <<>> /\ maxLineNo = 0 /\ done = FALSE
  BY DEF Reader!Init
<1>2. file \in [1..Len(file) -> TraceLine] /\ Len(file) \in 0..MaxTraceLines
  BY <1>1 DEF Reader!ReaderAssumption
<1>3. Len(file) \in Nat /\ MaxTraceLines \in Nat
  BY <1>2 DEF Reader!ReaderAssumption
<1>4. file \in Seq(TraceLine)
  BY <1>2, <1>3
<1>5. Reader!LinesRead \in Nat
  <2>1. file # <<>> => Len(file) > 0
    BY <1>3, <1>4
  <2>2. QED
    BY <1>3, <1>4, <2>1 DEF Reader!LinesRead
<1>6. Place
  <2>1. Len(file) <= MaxTraceLines
    BY <1>2, <1>3
  <2>2. lineno \in 0..Reader!LinesRead
    BY <1>1, <1>5
  <2>3. QED
    BY <1>1, <1>4, <2>1, <2>2 DEF Place
<1>7. Parsed
  BY <1>1 DEF Parsed, Reader!cleared, Reader!Atom
<1>8. FlagsLeft
  BY <1>1 DEF FlagsLeft, Reader!cleared, Reader!AfterEmptyWrite
<1>9. /\ LinesOrdered /\ Reader!AtomsInTheirBlock /\ BaseTimeKept
      /\ Reader!TimesSinceFirstLine
  BY <1>1
    DEF LinesOrdered, Reader!AtomsInTheirBlock, BaseTimeKept, Reader!TimesSinceFirstLine
<1>10. QED
  BY <1>1, <1>6, <1>7, <1>8, <1>9 DEF ReaderInv

\* Each step of the reader keeps its invariant.
LEMMA ReaderNext ==
  ASSUME Reader!ReaderAssumption, ReaderInv, [Reader!getAndParseTrace]_(Reader!vars)
  PROVE  ReaderInv'
<1>1. CASE /\ inputTraceFormat = "msr"
           /\ Reader!SkipMSR \/ Reader!FetchMSR \/ Reader!FetchWebSearch
  BY <1>1, SkipMSRKeeps, FetchMSRKeeps, FetchWebSearchKeeps
<1>2. CASE inputTraceFormat = "mem" /\ (Reader!FetchMEM \/ Reader!SkipBlank)
  BY <1>2, MemoryKeeps
<1>3. CASE Reader!EndOfFile
  BY <1>3, EndKeeps
<1>4. CASE UNCHANGED Reader!vars
  <2>1. /\ UNCHANGED <<inputTraceFormat, writeOnly, file, newlineAtEnd, lineno,
                       baseTime, newn, memTrace,
                       maxLineNo, done>>
        /\ Reader!LinesRead' = Reader!LinesRead
    BY <1>4 DEF Reader!vars, Reader!LinesRead, Reader!given
  <2>2. Place' /\ Parsed' /\ LinesOrdered' /\ Reader!AtomsInTheirBlock'
    BY <2>1 DEF ReaderInv, Place, Parsed, LinesOrdered, Reader!AtomsInTheirBlock
  <2>3. Reader!Base' = Reader!Base
    BY <2>1, LinesKeep
  <2>4. BaseTimeKept' /\ Reader!TimesSinceFirstLine' /\ FlagsLeft'
    BY <2>1, <2>3
      DEF ReaderInv, BaseTimeKept, Reader!TimesSinceFirstLine, Reader!Clock, FlagsLeft,
          Reader!AfterEmptyWrite
  <2>5. ASSUME NEW k \in 1..lineno'
        PROVE  Complete(k)'
    <3>1. /\ Reader!Wanted(k)' <=> Reader!Wanted(k)
          /\ Reader!Requested(file[k])' = Reader!Requested(file[k])
          /\ Reader!PagesOf(k)' = Reader!PagesOf(k)
      BY <2>1, LinesKeep DEF Reader!PagesOf
    <3>2. QED
      BY <2>1, <3>1 DEF ReaderInv, Complete
  <2>6. QED
    BY <2>2, <2>4, <2>5 DEF ReaderInv
<1>5. QED
  BY <1>1, <1>2, <1>3, <1>4 DEF Reader!getAndParseTrace

(***************************************************************************)
(* What the invariant says of memTrace: the types, the order of the lines  *)
(* that AccessOrdering and the MIN policies assert, the pages of each      *)
(* line, and their times.                                                  *)
(***************************************************************************)
LEMMA ReaderInvFacts ==
  ASSUME Reader!ReaderAssumption, ReaderInv
  PROVE  /\ Reader!TypeOK /\ Reader!LinesOrderAccesses /\ Reader!RequestsComplete
         /\ Reader!AtomsInTheirBlock /\ Reader!TimesSinceFirstLine
<1>1. Place /\ Parsed /\ LinesOrdered
  BY DEF ReaderInv
<1>2. Reader!LinesRead \in 0..Len(file) /\ lineno \in 0..Len(file) /\ Len(file) \in Nat
  BY <1>1, LineFacts DEF Place
<1>3. Reader!TypeOK
  <2>1. maxLineNo \in 0..Len(file)
    BY <1>1, <1>2 DEF Place
  <2>2. \A i \in DOMAIN memTrace : memTrace[i] \in Reader!Atom
    BY <1>1 DEF Parsed
  <2>3. QED
    BY <1>1, <1>2, <2>1, <2>2 DEF Reader!TypeOK, Place, Parsed
<1>4. Reader!LinesOrderAccesses
  <2>1. ASSUME NEW i \in DOMAIN memTrace
        PROVE  memTrace[i].lineNo > 0 /\ (done => memTrace[i].lineNo <= maxLineNo)
    BY <1>1, <1>2 DEF LinesOrdered, Place
  <2>2. QED
    BY <1>1, <2>1 DEF Reader!LinesOrderAccesses, LinesOrdered
<1>5. Reader!RequestsComplete
  <2>1. SUFFICES ASSUME done, NEW k \in 1..Reader!LinesRead
                 PROVE  /\ Complete(k)
                        /\ file[k].form = "msr" /\ Reader!Wanted(k) =>
                             LET l == file[k]
                                 P == Reader!PagesOf(k)
                             IN  /\ P \subseteq Reader!Touched(l)
                                 /\ Reader!Touched(l) \ P \subseteq
                                      IF l.off % PageBytes = 0 THEN {}
                                      ELSE {(l.off + l.bytes - 1) \div PageBytes}
    BY DEF Reader!RequestsComplete, Complete
  <2>2. Complete(k)
    BY <1>1, <2>1 DEF ReaderInv, Place
  <2>3. ASSUME file[k].form = "msr", Reader!Wanted(k)
        PROVE  LET l == file[k]
                   P == Reader!PagesOf(k)
               IN  /\ P \subseteq Reader!Touched(l)
                   /\ Reader!Touched(l) \ P \subseteq
                        IF l.off % PageBytes = 0 THEN {}
                        ELSE {(l.off + l.bytes - 1) \div PageBytes}
    <3> DEFINE l == file[k]
    <3>1. l \in TraceLine
      BY <1>1, <1>2 DEF Place
    <3>2. l.off \in Nat /\ l.bytes \in Nat \ {0}
      BY <2>3, <3>1, FieldFacts DEF Reader!Wanted
    <3>3. Reader!PagesOf(k) = Reader!Requested(l)
      BY <2>2, <2>3 DEF Complete
    <3>4. /\ Reader!Requested(l) \subseteq Reader!Touched(l)
          /\ Reader!Touched(l) \ Reader!Requested(l) \subseteq
               IF l.off % PageBytes = 0 THEN {}
                                        ELSE {(l.off + l.bytes - 1) \div PageBytes}
      BY <2>3, <3>2, TouchedPages
    <3>5. QED
      BY <3>3, <3>4
  <2>4. QED
    BY <2>2, <2>3
<1>6. QED
  BY <1>3, <1>4, <1>5 DEF ReaderInv

(***************************************************************************)
(* The reader of any format, number of lines and page and block sizes      *)
(* numbers the requests by their lines, in the order that AccessOrdering   *)
(* and the MIN policies assert.                                            *)
(***************************************************************************)
THEOREM ReaderOrdersAccesses ==
  Reader!Spec => [](Reader!TypeOK /\ Reader!LinesOrderAccesses)
<1>1. Reader!Init => ReaderInv
  BY ReaderAssumed, ReaderInit
<1>2. ReaderInv /\ [Reader!getAndParseTrace]_(Reader!vars) => ReaderInv'
  BY ReaderAssumed, ReaderNext
<1>3. ReaderInv => Reader!TypeOK /\ Reader!LinesOrderAccesses
  BY ReaderAssumed, ReaderInvFacts
<1>4. QED
  BY <1>1, <1>2, <1>3, PTL DEF Reader!Spec

(***************************************************************************)
(* It requests for each line the pages that its size fills, from its first *)
(* page on and within one block, and nothing for a line to skip: for an    *)
(* MSR line pages that its bytes touch, all of them if it starts at a page *)
(* and otherwise all but perhaps the last. Each request names the block of *)
(* its page and has the time of its line since the first one, whatever     *)
(* number of ticks a second has.                                           *)
(***************************************************************************)
THEOREM ReaderLosesNothing ==
  Reader!Spec => [](Reader!RequestsComplete /\ Reader!AtomsInTheirBlock
                     /\ Reader!TimesSinceFirstLine)
<1>1. Reader!Init => ReaderInv
  BY ReaderAssumed, ReaderInit
<1>2. ReaderInv /\ [Reader!getAndParseTrace]_(Reader!vars) => ReaderInv'
  BY ReaderAssumed, ReaderNext
<1>3. ReaderInv => /\ Reader!RequestsComplete /\ Reader!AtomsInTheirBlock
                   /\ Reader!TimesSinceFirstLine
  BY ReaderAssumed, ReaderInvFacts
<1>4. QED
  BY <1>1, <1>2, <1>3, PTL DEF Reader!Spec

\* The reader keeps its invariant as a part of the program.
LEMMA ReaderAlways ==
  /\ Init => (part = "reader" => ReaderInv)
  /\ (part = "reader" => ReaderInv) /\ [Next]_vars => (part = "reader" => ReaderInv)'
<1>1. Init => (part = "reader" => ReaderInv)
  BY ReaderAssumed, ReaderInit DEF Init, InitProgram
<1>2. ASSUME part = "reader" => ReaderInv, [Next]_vars
      PROVE  (part = "reader" => ReaderInv)'
  <2>1. CASE Next
    <3>1. part' = part
      BY <2>1 DEF Next, ProgramStep
    <3>2. CASE part = "reader"
      <4>1. Reader!getAndParseTrace
        BY <2>1, <3>2
           DEF Next, ProgramStep, ConfigStep, ReaderStep, LoopStep, AnalysisStep,
               ChannelStep, DeviceStep
      <4>2. [Reader!getAndParseTrace]_(Reader!vars)
        BY <4>1
      <4>3. QED
        BY <1>2, <3>1, <3>2, <4>2, ReaderAssumed, ReaderNext
    <3>3. QED
      BY <3>1, <3>2
  <2>2. CASE UNCHANGED vars
    <3>1. part' = part /\ Reader!vars' = Reader!vars
      BY <2>2 DEF vars, programVars, readerVars, Reader!vars, Reader!given
    <3>2. [Reader!getAndParseTrace]_(Reader!vars)
      BY <3>1
    <3>3. QED
      BY <1>2, <3>1, <3>2, ReaderAssumed, ReaderNext
  <2>3. QED
    BY <1>2, <2>1, <2>2
<1>3. QED
  BY <1>1, <1>2

(***************************************************************************)
(* What AccessOrdering and the MIN policies assert of the trace is true    *)
(* for both formats, in every state of the reader.                         *)
(***************************************************************************)
THEOREM LinesAlwaysOrdered == Spec => []LinesOrderAccesses
<1>1. (part = "reader" => ReaderInv) => LinesOrderAccesses
  BY ReaderAssumed, ReaderInvFacts DEF LinesOrderAccesses
<1>2. QED
  BY <1>1, ReaderAlways, PTL DEF Spec

(***************************************************************************)
(* What becomes of each line of any file of either format, with the reads  *)
(* in an ordinary run and without them in a write-only one: no page that   *)
(* the size of a line fills is lost or made up.                            *)
(***************************************************************************)
THEOREM RequestsAlwaysComplete == Spec => []RequestsComplete
<1>1. (part = "reader" => ReaderInv) => RequestsComplete
  BY ReaderAssumed, ReaderInvFacts DEF RequestsComplete
<1>2. QED
  BY <1>1, ReaderAlways, PTL DEF Spec
-----------------------------------------------------------------------------
(***************************************************************************)
(* Sums over finite sets. SumOver takes the elements of the set in some    *)
(* order: IsFold is the function on its subsets that it is defined with.   *)
(***************************************************************************)
Some(s) == CHOOSE x \in s : TRUE

IsFold(it, g, D) ==
  it = [s \in D |-> IF s = {} THEN 0 ELSE g[Some(s)] + it[s \ {Some(s)}]]

Folds(it, g, S) == IsFold(it, g, SUBSET S)

\* The sum is the value of such a function at the whole set.
LEMMA SumIs ==
  ASSUME NEW g, NEW S
  PROVE  Lengths!SumOver(g, S) = (CHOOSE it : Folds(it, g, S))[S]
BY DEF Folds, Lengths!SumOver, Lengths!MapThenSumSet, Lengths!MapThenFoldSet,
       IsFold, Some

\* Among finite sets there is one of the fewest elements.
LEMMA FewestElements ==
  ASSUME NEW U, U # {}, \A s \in U : IsFiniteSet(s)
  PROVE  \E s \in U : \A t \in U : Cardinality(s) <= Cardinality(t)
<1> DEFINE N == {Cardinality(s) : s \in U}
<1>1. N \in SUBSET Nat /\ N # {}
  BY FS_CardinalityType
<1>2. PICK n \in N : \A m \in N : n <= m
  BY <1>1, LeastNatural
<1>3. QED
  BY <1>2

\* An element of a set, and what is left of it.
LEMMA SomeFacts ==
  ASSUME NEW s, s # {}, IsFiniteSet(s)
  PROVE  /\ Some(s) \in s
         /\ IsFiniteSet(s \ {Some(s)})
         /\ Cardinality(s) \in Nat \ {0}
         /\ Cardinality(s \ {Some(s)}) = Cardinality(s) - 1
<1>1. Some(s) \in s
  BY DEF Some
<1>2. Cardinality(s) \in Nat \ {0}
  BY FS_CardinalityType, FS_EmptySet
<1>3. QED
  BY <1>1, <1>2, FS_RemoveElement

\* A finite set has such a function: it is built up by the sizes of the subsets.
LEMMA FoldExists ==
  ASSUME NEW g, NEW S, IsFiniteSet(S)
  PROVE  \E it : Folds(it, g, S)
<1> DEFINE D(n) == {s \in SUBSET S : Cardinality(s) <= n}
           T == {n \in Nat : ~\E it : IsFold(it, g, D(n))}
<1>1. \A s \in SUBSET S : IsFiniteSet(s) /\ Cardinality(s) \in Nat
  BY FS_Subset, FS_CardinalityType
<1>2. T = {}
  <2>1. SUFFICES ASSUME T # {} PROVE FALSE
    OBVIOUS
  <2>2. PICK n \in T : \A m \in T : n <= m
    BY <2>1, LeastNatural
  <2>3. n \in Nat /\ ~\E it : IsFold(it, g, D(n))
    OBVIOUS
  <2>4. CASE n = 0
    <3>1. \A s \in D(0) : s = {}
      BY <1>1, FS_EmptySet
    <3>2. IsFold([s \in D(0) |-> 0], g, D(0))
      BY <3>1, Zenon DEF IsFold
    <3>3. QED
      BY <2>3, <2>4, <3>2
  <2>5. CASE n # 0
    <3>1. n - 1 \in Nat /\ n - 1 \notin T
      <4>1. n - 1 \in Nat
        BY <2>3, <2>5
      <4> HIDE DEF T
      <4>2. QED
        BY <2>2, <2>3, <4>1
    <3>2. PICK it : IsFold(it, g, D(n - 1))
      BY <3>1
    <3> DEFINE more == [s \in D(n) |-> IF s = {} THEN 0
                                       ELSE g[Some(s)] + it[s \ {Some(s)}]]
    <3>3. \A s \in D(n - 1) : s \in D(n) /\ more[s] = it[s]
      <4>1. \A s \in D(n - 1) : s \in D(n)
        BY <1>1, <2>3
      <4>2. ASSUME NEW s \in D(n - 1)
            PROVE  it[s] = IF s = {} THEN 0 ELSE g[Some(s)] + it[s \ {Some(s)}]
        BY <3>2, Zenon DEF IsFold
      <4>3. QED
        BY <4>1, <4>2, Zenon
    <3>4. \A s \in D(n) : s # {} => s \ {Some(s)} \in D(n - 1)
      BY <1>1, <2>3, SomeFacts
    <3>5. \A s \in D(n) : s # {} => it[s \ {Some(s)}] = more[s \ {Some(s)}]
      BY <3>3, <3>4
    <3>6. IsFold(more, g, D(n))
      <4>1. more = [s \in D(n) |-> IF s = {} THEN 0
                                   ELSE g[Some(s)] + more[s \ {Some(s)}]]
        BY <3>5
      <4>2. QED
        BY <4>1, Zenon DEF IsFold
    <3>7. QED
      BY <2>3, <3>6
  <2>6. QED
    BY <2>4, <2>5
<1>3. Cardinality(S) \in Nat /\ Cardinality(S) \notin T
  BY <1>1, <1>2
<1>4. D(Cardinality(S)) = SUBSET S
  BY FS_Subset
<1>5. QED
  BY <1>3, <1>4 DEF Folds

\* Two such functions agree where both are defined.
LEMMA FoldsAgree ==
  ASSUME NEW g, NEW S1, NEW S2, IsFiniteSet(S1),
         NEW it1, Folds(it1, g, S1), NEW it2, Folds(it2, g, S2),
         NEW s \in SUBSET S1, s \in SUBSET S2
  PROVE  it1[s] = it2[s]
<1> DEFINE U == {t \in SUBSET S1 : t \in SUBSET S2 /\ it1[t] # it2[t]}
<1>1. SUFFICES ASSUME U # {} PROVE FALSE
  OBVIOUS
<1>2. \A t \in U : IsFiniteSet(t)
  BY FS_Subset
<1>3. PICK t \in U : \A r \in U : Cardinality(t) <= Cardinality(r)
  BY <1>1, <1>2, FewestElements
<1>4. /\ it1[t] = IF t = {} THEN 0 ELSE g[Some(t)] + it1[t \ {Some(t)}]
      /\ it2[t] = IF t = {} THEN 0 ELSE g[Some(t)] + it2[t \ {Some(t)}]
  <2>1. t \in SUBSET S1 /\ t \in SUBSET S2
    OBVIOUS
  <2>2. QED
    BY <2>1, Zenon DEF Folds, IsFold
<1>5. t # {} => t \ {Some(t)} \notin U
  <2>1. SUFFICES ASSUME t # {}, t \ {Some(t)} \in U PROVE FALSE
    OBVIOUS
  <2>2. Cardinality(t) <= Cardinality(t) - 1 /\ Cardinality(t) \in Nat
    BY <1>2, <1>3, <2>1, SomeFacts
  <2>3. QED
    BY <2>2
<1>6. t # {} => it1[t \ {Some(t)}] = it2[t \ {Some(t)}]
  BY <1>5
<1>7. QED
  BY <1>4, <1>6

\* The sum of nothing is 0, and of anything else that of some element and of
\* the others.
LEMMA SumUnfolds ==
  ASSUME NEW g, NEW S, IsFiniteSet(S)
  PROVE  Lengths!SumOver(g, S) =
           IF S = {} THEN 0 ELSE g[Some(S)] + Lengths!SumOver(g, S \ {Some(S)})
<1>1. PICK it : Folds(it, g, S) /\ Lengths!SumOver(g, S) = it[S]
  BY FoldExists, SumIs
<1>2. PICK R : R = S \ {Some(S)}
  OBVIOUS
<1>3. R \in SUBSET S /\ S \in SUBSET S /\ R \in SUBSET R /\ IsFiniteSet(R)
  BY <1>2, FS_RemoveElement
<1>4. it[S] = IF S = {} THEN 0 ELSE g[Some(S)] + it[R]
  BY <1>1, <1>2, <1>3, Zenon DEF Folds, IsFold
<1>5. PICK less : Folds(less, g, R) /\ Lengths!SumOver(g, R) = less[R]
  BY <1>3, FoldExists, SumIs
<1>6. it[R] = less[R]
  BY <1>1, <1>3, <1>5, FoldsAgree
<1>7. QED
  BY <1>1, <1>2, <1>4, <1>5, <1>6

\* g has natural numbers on the finite set S.
Summable(g, S) == IsFiniteSet(S) /\ \A x \in S : g[x] \in Nat

\* And on its subsets.
LEMMA SummableParts ==
  ASSUME NEW g, NEW S, Summable(g, S)
  PROVE  /\ IsFiniteSet(S)
         /\ \A x \in S : g[x] \in Nat
         /\ \A s \in SUBSET S : /\ Summable(g, s) /\ IsFiniteSet(s)
                                /\ Cardinality(s) \in Nat
BY FS_Subset, FS_CardinalityType DEF Summable

\* A sum of natural numbers is one.
LEMMA SumType ==
  ASSUME NEW g, NEW S, Summable(g, S)
  PROVE  Lengths!SumOver(g, S) \in Nat
<1> DEFINE U == {s \in SUBSET S : Lengths!SumOver(g, s) \notin Nat}
<1>1. SUFFICES ASSUME U # {} PROVE FALSE
  OBVIOUS
<1>2. \A s \in SUBSET S : IsFiniteSet(s)
  BY SummableParts
<1>3. PICK s \in U : \A t \in U : Cardinality(s) <= Cardinality(t)
  BY <1>1, <1>2, FewestElements
<1>4. s \in SUBSET S /\ IsFiniteSet(s) /\ Lengths!SumOver(g, s) \notin Nat
  BY <1>2
<1>5. CASE s = {}
  <2>1. Lengths!SumOver(g, s) = 0
    BY <1>4, <1>5, SumUnfolds
  <2>2. QED
    BY <1>4, <2>1
<1>6. CASE s # {}
  <2>1. PICK r : r = s \ {Some(s)}
    OBVIOUS
  <2>2. Some(s) \in s /\ r \in SUBSET S /\ ~(Cardinality(s) <= Cardinality(r))
    <3>1. /\ Some(s) \in s /\ Cardinality(s) \in Nat
          /\ Cardinality(r) = Cardinality(s) - 1
      BY <1>4, <1>6, <2>1, SomeFacts
    <3>2. QED
      BY <1>4, <2>1, <3>1
  <2>3. Lengths!SumOver(g, r) \in Nat
    BY <1>3, <2>2
  <2>4. Lengths!SumOver(g, s) = g[Some(s)] + Lengths!SumOver(g, r)
    BY <1>4, <1>6, <2>1, SumUnfolds
  <2>5. g[Some(s)] \in Nat
    BY <1>4, <2>2, SummableParts
  <2>6. QED
    BY <1>4, <2>3, <2>4, <2>5
<1>7. QED
  BY <1>5, <1>6

\* The sum may take k first.
Takes(g, s, k) == Lengths!SumOver(g, s) = g[k] + Lengths!SumOver(g, s \ {k})

\* Any element may be taken first.
LEMMA SumTakesAny ==
  ASSUME NEW g, NEW S, Summable(g, S), NEW k \in S
  PROVE  Takes(g, S, k)
<1> DEFINE U == {s \in SUBSET S : \E x \in s : ~Takes(g, s, x)}
<1>1. \A s \in SUBSET S : IsFiniteSet(s) /\ Cardinality(s) \in Nat
                          /\ Lengths!SumOver(g, s) \in Nat
  BY SummableParts, SumType
<1>2. U = {}
  <2>1. SUFFICES ASSUME U # {} PROVE FALSE
    OBVIOUS
  <2>2. PICK s \in U : \A t \in U : Cardinality(s) <= Cardinality(t)
    BY <1>1, <2>1, FewestElements
  <2>3. PICK x \in s : ~Takes(g, s, x)
    OBVIOUS
  <2>4. s \in SUBSET S /\ s # {}
    OBVIOUS
  <2>5. PICK c : c = Some(s)
    OBVIOUS
  <2>6. c \in s /\ Takes(g, s, c)
    <3>1. IsFiniteSet(s) /\ c \in s
      BY <1>1, <2>4, <2>5, SomeFacts
    <3>2. QED
      BY <2>4, <2>5, <3>1, SumUnfolds, Zenon DEF Takes
  <2>7. ASSUME NEW y \in s
        PROVE  /\ s \ {y} \in SUBSET S /\ g[y] \in Nat
               /\ \A z \in s : z # y => Takes(g, s \ {y}, z)
    <3>1. s \ {y} \in SUBSET S /\ g[y] \in Nat
      BY <2>4, SummableParts
    <3>2. Cardinality(s \ {y}) = Cardinality(s) - 1
      BY <1>1, <2>4, FS_RemoveElement
    <3>3. ~(Cardinality(s) <= Cardinality(s \ {y}))
      BY <1>1, <2>4, <3>2
    <3>4. s \ {y} \notin U
      BY <2>2, <3>3
    <3>5. QED
      BY <3>1, <3>4
  <2>8. x # c
    BY <2>3, <2>6
  <2>9. PICK r : r = (s \ {x}) \ {c}
    OBVIOUS
  <2>10. r = (s \ {c}) \ {x}
    BY <2>9
  <2>11. Lengths!SumOver(g, s \ {x}) = g[c] + Lengths!SumOver(g, r)
    BY <2>6, <2>7, <2>8, <2>9, Zenon DEF Takes
  <2>12. Lengths!SumOver(g, s \ {c}) = g[x] + Lengths!SumOver(g, r)
    BY <2>6, <2>7, <2>8, <2>10, Zenon DEF Takes
  <2>13. Lengths!SumOver(g, s) = g[c] + Lengths!SumOver(g, s \ {c})
    BY <2>6, Zenon DEF Takes
  <2>14. g[c] \in Nat /\ g[x] \in Nat /\ Lengths!SumOver(g, r) \in Nat
    BY <1>1, <2>4, <2>6, <2>9, SummableParts
  <2>15. Lengths!SumOver(g, s) = g[x] + Lengths!SumOver(g, s \ {x})
    BY <2>11, <2>12, <2>13, <2>14
  <2>16. QED
    BY <2>3, <2>15, Zenon DEF Takes
<1>3. QED
  BY <1>2

\* The sum over a part of a set.
Part(g, S, s) == Lengths!SumOver(g, S \cap s)

\* It is a natural number if the whole can be summed.
LEMMA PartType ==
  ASSUME NEW g, NEW S, Summable(g, S), NEW s
  PROVE  Part(g, S, s) \in Nat
<1>1. PICK t : t = S \cap s
  OBVIOUS
<1>2. Summable(g, t)
  BY <1>1, SummableParts
<1>3. Lengths!SumOver(g, t) \in Nat
  BY <1>2, SumType
<1>4. QED
  BY <1>1, <1>3, Zenon DEF Part

\* It is less by an element's share without that element.
LEMMA PartWithout ==
  ASSUME NEW g, NEW S, Summable(g, S),
         NEW s, NEW k \in s, k \in S
  PROVE  Part(g, S, s) = g[k] + Part(g, S, s \ {k})
<1>1. PICK t : t = S \cap s
  OBVIOUS
<1>2. PICK r : r = S \cap (s \ {k})
  OBVIOUS
<1>3. r = t \ {k} /\ k \in t
  BY <1>1, <1>2
<1>4. Summable(g, t)
  BY <1>1, SummableParts
<1>5. Lengths!SumOver(g, t) = g[k] + Lengths!SumOver(g, r)
  <2>1. Takes(g, t, k)
    BY <1>3, <1>4, SumTakesAny
  <2>2. QED
    BY <1>3, <2>1, Zenon DEF Takes
<1>6. /\ Part(g, S, s) = Lengths!SumOver(g, t)
      /\ Part(g, S, s \ {k}) = Lengths!SumOver(g, r)
  BY <1>1, <1>2, Zenon DEF Part
<1>7. QED
  BY <1>5, <1>6

\* An element of another set has no share.
LEMMA PartOutside ==
  ASSUME NEW g, NEW S, NEW s, NEW k, k \notin S
  PROVE  Part(g, S, s) = Part(g, S, s \ {k})
<1>1. S \cap s = S \cap (s \ {k})
  OBVIOUS
<1>2. QED
  BY <1>1, Zenon DEF Part

\* f on S and g on T are the same where S and T meet, and 0 elsewhere.
Agree(f, S, g, T) ==
  /\ \A x \in S : f[x] = IF x \in T THEN g[x] ELSE 0
  /\ \A x \in T : x \notin S => g[x] = 0

\* Then they have the same sum.
LEMMA SumsEqual ==
  ASSUME NEW f, NEW S, Summable(f, S),
         NEW g, NEW T, Summable(g, T),
         Agree(f, S, g, T)
  PROVE  Lengths!SumOver(f, S) = Lengths!SumOver(g, T)
<1> DEFINE W == S \cup T
           U == {s \in SUBSET W : Part(f, S, s) # Part(g, T, s)}
<1>1. \A s \in SUBSET W : IsFiniteSet(s) /\ Cardinality(s) \in Nat
  BY FS_Union, FS_Subset, FS_CardinalityType DEF Summable
<1>2. U = {}
  <2>1. SUFFICES ASSUME U # {} PROVE FALSE
    OBVIOUS
  <2>2. PICK s \in U : \A t \in U : Cardinality(s) <= Cardinality(t)
    BY <1>1, <2>1, FewestElements
  <2>3. s \in SUBSET W /\ Part(f, S, s) # Part(g, T, s)
    OBVIOUS
  <2>4. CASE s = {}
    <3>1. S \cap s = {} /\ T \cap s = {}
      BY <2>4
    <3>2. \A h : Lengths!SumOver(h, {}) = 0
      BY FS_EmptySet, SumUnfolds
    <3>3. QED
      BY <2>3, <3>1, <3>2 DEF Part
  <2>5. CASE s # {}
    <3>1. PICK x \in s : TRUE
      BY <2>5
    <3>2. Cardinality(s \ {x}) = Cardinality(s) - 1
      BY <1>1, <2>3, FS_RemoveElement
    <3>3. s \ {x} \notin U
      BY <1>1, <2>2, <2>3, <3>2
    <3>4. Part(f, S, s \ {x}) = Part(g, T, s \ {x})
      BY <2>3, <3>3
    <3>5. /\ x \in S => Part(f, S, s) = f[x] + Part(f, S, s \ {x})
          /\ x \notin S => Part(f, S, s) = Part(f, S, s \ {x})
      <4>1. ASSUME x \in S
            PROVE  Part(f, S, s) = f[x] + Part(f, S, s \ {x})
        BY <4>1, PartWithout
      <4>2. ASSUME x \notin S
            PROVE  Part(f, S, s) = Part(f, S, s \ {x})
        BY <4>2, PartOutside
      <4>3. QED
        BY <4>1, <4>2
    <3>6. /\ x \in T => Part(g, T, s) = g[x] + Part(g, T, s \ {x})
          /\ x \notin T => Part(g, T, s) = Part(g, T, s \ {x})
      <4>1. ASSUME x \in T
            PROVE  Part(g, T, s) = g[x] + Part(g, T, s \ {x})
        BY <4>1, PartWithout
      <4>2. ASSUME x \notin T
            PROVE  Part(g, T, s) = Part(g, T, s \ {x})
        BY <4>2, PartOutside
      <4>3. QED
        BY <4>1, <4>2
    <3>7. Part(f, S, s \ {x}) \in Nat
      BY PartType
    <3>8. QED
      BY <2>3, <3>1, <3>4, <3>5, <3>6, <3>7 DEF Agree, Summable
  <2>6. QED
    BY <2>4, <2>5
<1>3. Part(f, S, W) = Part(g, T, W) /\ S \cap W = S /\ T \cap W = T
  BY <1>2
<1>4. QED
  BY <1>3 DEF Part
-----------------------------------------------------------------------------
(***************************************************************************)
(* The analysis of the log. Entry j of the list is the number of lines     *)
(* with length j, as far as the list is cleared, and the size classes are  *)
(* intervals, of which the last one has no end.                            *)
(***************************************************************************)
LEMMA AnalysisAssumption ==
  /\ RunLength \subseteq Nat \ {0} /\ IsFiniteSet(RunLength)
  /\ ListSize \in Nat \ {0} /\ Summed \in Nat \ {0} /\ Summed <= ListSize
  /\ MaxLogLines \in Nat
  /\ ClassStarts \subseteq Nat \ {0} /\ IsFiniteSet(ClassStarts) /\ 1 \in ClassStarts
BY ProgramAssumption DEF ProgramAssumption, Lengths!SeqLengthAssumption,
   Lengths!IsFiniteSet, IsFiniteSet

\* A length is in one class.
LEMMA OneClass ==
  ASSUME NEW j \in Nat \ {0}
  PROVE  \E c \in ClassStarts :
           \A d \in ClassStarts : Lengths!InClass(d, j) <=> d = c
<1> DEFINE N == {j - c : c \in {b \in ClassStarts : b <= j}}
<1>1. \A c \in ClassStarts : c \in Nat \ {0}
  BY AnalysisAssumption
<1>2. N \in SUBSET Nat
  BY <1>1
<1>3. j - 1 \in N
  BY AnalysisAssumption
<1>4. PICK n \in N : \A m \in N : n <= m
  BY <1>2, <1>3, LeastNatural
<1>5. PICK c \in ClassStarts : c <= j /\ n = j - c
  OBVIOUS
<1>6. ASSUME NEW d \in ClassStarts, c < d
      PROVE  j < d
  <2>1. c \in Nat /\ d \in Nat
    BY <1>1
  <2>2. SUFFICES ASSUME d <= j PROVE FALSE
    BY <2>1
  <2>3. j - d \in N
    BY <2>2
  <2>4. n <= j - d
    BY <1>4, <2>3
  <2>5. QED
    BY <1>5, <1>6, <2>1, <2>4
<1>7. ASSUME NEW d \in ClassStarts
      PROVE  Lengths!InClass(d, j) <=> d = c
  <2>1. c \in Nat /\ d \in Nat
    BY <1>1
  <2>2. CASE d = c
    BY <1>5, <1>6, <2>2 DEF Lengths!InClass
  <2>3. CASE d < c
    BY <1>5, <2>1, <2>3 DEF Lengths!InClass
  <2>4. CASE c < d
    BY <1>6, <2>1, <2>4 DEF Lengths!InClass
  <2>5. QED
    BY <2>1, <2>2, <2>3, <2>4
<1>8. QED
  BY <1>7

\* The numbers of s in a class, and the share of g that each class has in s.
InOf(s, c) == {j \in s : Lengths!InClass(c, j)}
Shares(g, s) == [c \in ClassStarts |-> Lengths!SumOver(g, InOf(s, c))]

\* The shares are sums of natural numbers.
LEMMA ShareFacts ==
  ASSUME NEW g, NEW s, Summable(g, s),
         NEW c \in ClassStarts
  PROVE  /\ Shares(g, s)[c] = Lengths!SumOver(g, InOf(s, c))
         /\ Shares(g, s)[c] \in Nat
<1>1. PICK t : t = InOf(s, c)
  OBVIOUS
<1>2. t \in SUBSET s
  BY <1>1 DEF InOf
<1>3. Summable(g, t)
  BY <1>2, SummableParts
<1>4. Lengths!SumOver(g, t) \in Nat
  BY <1>3, SumType
<1>5. Shares(g, s)[c] = Lengths!SumOver(g, InOf(s, c))
  BY Zenon DEF Shares
<1>6. QED
  BY <1>1, <1>4, <1>5

\* The shares of the classes in s add up to k's and those in the others.
ShareTakes(g, s, k) ==
  Lengths!SumOver(Shares(g, s), ClassStarts)
    = g[k] + Lengths!SumOver(Shares(g, s \ {k}), ClassStarts)

\* One number more adds to the share of its class and to no other.
LEMMA ShareStep ==
  ASSUME NEW g, NEW s, Summable(g, s), s \subseteq Nat \ {0}, NEW k \in s
  PROVE  ShareTakes(g, s, k)
<1>1. PICK r : r = s \ {k}
  OBVIOUS
<1>2. PICK c \in ClassStarts :
        \A d \in ClassStarts : Lengths!InClass(d, k) <=> d = c
  BY OneClass
<1>3. PICK S : S = Shares(g, s)
  OBVIOUS
<1>4. PICK R : R = Shares(g, r)
  OBVIOUS
<1>5. PICK C : C = ClassStarts \ {c}
  OBVIOUS
<1>6. Summable(g, r)
  BY <1>1, SummableParts
<1>7. ASSUME NEW d \in ClassStarts
      PROVE  /\ S[d] = Lengths!SumOver(g, InOf(s, d)) /\ S[d] \in Nat
             /\ R[d] = Lengths!SumOver(g, InOf(r, d)) /\ R[d] \in Nat
  BY <1>3, <1>4, <1>6, ShareFacts
<1>8. S[c] = g[k] + R[c]
  <2>1. PICK t : t = InOf(s, c)
    OBVIOUS
  <2>2. t \in SUBSET s /\ k \in t
    BY <1>2, <2>1 DEF InOf
  <2>3. Summable(g, t)
    BY <2>2, SummableParts
  <2>4. Lengths!SumOver(g, t) = g[k] + Lengths!SumOver(g, t \ {k})
    <3>1. Takes(g, t, k)
      BY <2>2, <2>3, SumTakesAny
    <3>2. QED
      BY <3>1, Zenon DEF Takes
  <2>5. t \ {k} = InOf(r, c)
    BY <1>1, <2>1 DEF InOf
  <2>6. S[c] = Lengths!SumOver(g, t) /\ R[c] = Lengths!SumOver(g, t \ {k})
    BY <1>7, <2>1, <2>5, Zenon
  <2>7. QED
    BY <2>4, <2>6
<1>9. \A d \in C : S[d] = R[d]
  <2> TAKE d \in C
  <2>1. d \in ClassStarts /\ ~Lengths!InClass(d, k)
    BY <1>2, <1>5
  <2>2. InOf(s, d) = InOf(r, d)
    BY <1>1, <2>1 DEF InOf
  <2>3. QED
    BY <1>7, <2>1, <2>2, Zenon
<1>10. Summable(S, ClassStarts) /\ Summable(R, ClassStarts)
  BY <1>7, AnalysisAssumption DEF Summable
<1>11. Summable(S, C) /\ Summable(R, C)
  BY <1>5, <1>10, SummableParts
<1>12. Lengths!SumOver(S, C) = Lengths!SumOver(R, C)
  <2>1. Agree(S, C, R, C)
    BY <1>9 DEF Agree
  <2>2. QED
    BY <1>11, <2>1, SumsEqual
<1>13. Lengths!SumOver(S, ClassStarts) = S[c] + Lengths!SumOver(S, C)
  <2>1. Takes(S, ClassStarts, c)
    BY <1>10, SumTakesAny
  <2>2. QED
    BY <1>5, <2>1, Zenon DEF Takes
<1>14. Lengths!SumOver(R, ClassStarts) = R[c] + Lengths!SumOver(R, C)
  <2>1. Takes(R, ClassStarts, c)
    BY <1>10, SumTakesAny
  <2>2. QED
    BY <1>5, <2>1, Zenon DEF Takes
<1>15. Lengths!SumOver(R, C) \in Nat /\ R[c] \in Nat /\ g[k] \in Nat
  BY <1>7, <1>11, SumType, SummableParts
<1>16. Lengths!SumOver(S, ClassStarts) = g[k] + Lengths!SumOver(R, ClassStarts)
  BY <1>8, <1>12, <1>13, <1>14, <1>15
<1>17. QED
  BY <1>1, <1>3, <1>4, <1>16, Zenon DEF ShareTakes

\* The shares of the classes in s add up to the sum over s.
AddsUp(g, s) ==
  Lengths!SumOver(Shares(g, s), ClassStarts) = Lengths!SumOver(g, s)

\* The shares of the classes in no number add up.
LEMMA NothingAddsUp ==
  ASSUME NEW g
  PROVE  AddsUp(g, {})
<1>1. PICK f : f = Shares(g, {})
  OBVIOUS
<1>2. Lengths!SumOver(g, {}) = 0
  BY FS_EmptySet, SumUnfolds
<1>3. \A c \in ClassStarts : f[c] = 0
  <2> TAKE c \in ClassStarts
  <2>1. InOf({}, c) = {}
    BY DEF InOf
  <2>2. f[c] = Lengths!SumOver(g, InOf({}, c))
    BY <1>1, Zenon DEF Shares
  <2>3. QED
    BY <1>2, <2>1, <2>2, Zenon
<1>4. Agree(f, ClassStarts, g, {})
  BY <1>3 DEF Agree
<1>5. Lengths!SumOver(f, ClassStarts) = Lengths!SumOver(g, {})
  <2>1. Summable(f, ClassStarts)
    BY <1>3, AnalysisAssumption DEF Summable
  <2>2. Summable(g, {})
    BY FS_EmptySet DEF Summable
  <2>3. QED
    BY <1>4, <2>1, <2>2, SumsEqual
<1>6. QED
  BY <1>1, <1>5, Zenon DEF AddsUp

\* They do with a number if they do without it.
LEMMA OneMoreAddsUp ==
  ASSUME NEW g, NEW s, Summable(g, s), s \subseteq Nat \ {0}, NEW k \in s,
         AddsUp(g, s \ {k})
  PROVE  AddsUp(g, s)
<1>1. Takes(g, s, k)
  BY SumTakesAny
<1>2. ShareTakes(g, s, k)
  BY ShareStep
<1>3. QED
  BY <1>1, <1>2, Zenon DEF AddsUp, Takes, ShareTakes

(***************************************************************************)
(* The shares of the classes add up to the sum over all positive numbers.  *)
(***************************************************************************)
LEMMA SharesAddUp ==
  ASSUME NEW g, NEW S, Summable(g, S), S \subseteq Nat \ {0}
  PROVE  Lengths!SumOver(Shares(g, S), ClassStarts) = Lengths!SumOver(g, S)
<1> DEFINE U == {s \in SUBSET S : ~AddsUp(g, s)}
<1>1. \A s \in SUBSET S : /\ Summable(g, s) /\ IsFiniteSet(s)
                          /\ Cardinality(s) \in Nat
  BY SummableParts
<1>2. SUFFICES ASSUME U # {} PROVE FALSE
  BY DEF AddsUp
<1>3. PICK s \in U : \A t \in U : Cardinality(s) <= Cardinality(t)
  BY <1>1, <1>2, FewestElements
<1>4. s \in SUBSET S /\ ~AddsUp(g, s)
  OBVIOUS
<1>5. PICK k \in s : TRUE
  <2>1. s # {}
    BY <1>4, NothingAddsUp
  <2>2. QED
    BY <2>1
<1>6. PICK r : r = s \ {k}
  OBVIOUS
<1>7. r \in SUBSET S /\ Cardinality(r) = Cardinality(s) - 1
  BY <1>1, <1>4, <1>6, FS_RemoveElement
<1>8. r \notin U
  BY <1>1, <1>3, <1>4, <1>7
<1>9. AddsUp(g, s \ {k})
  BY <1>6, <1>7, <1>8
<1>10. AddsUp(g, s)
  BY <1>1, <1>4, <1>9, OneMoreAddsUp
<1>11. QED
  BY <1>4, <1>10

(***************************************************************************)
(* What has been read of the log, and the report: its numbers are sums     *)
(* over the part of the list that is cleared.                              *)
(***************************************************************************)
Weighted(g, S) == [j \in S |-> g[j] * j]

ListRight ==
  \A j \in 0..(Summed - 1) :
    blockNumList[j] = IF j \in RunLength THEN logged[j] ELSE 0

ReportRight ==
  LET entries == Lengths!SummedEntries
  IN  /\ report.total = Lengths!SumOver(blockNumList, entries)
      /\ report.pages = Lengths!SumOver(Weighted(blockNumList, entries), entries)
      /\ report.class = Shares(blockNumList, entries)

AnalysisInv ==
  /\ Lengths!TypeOK
  /\ \A n \in RunLength : logged[n] <= lines
  /\ ListRight
  /\ Lengths!SumOver(logged, RunLength) = lines
  /\ stage = "done" => ReportRight

\* The part that is summed.
LEMMA EntriesFacts ==
  /\ Lengths!SummedEntries = 0..(Summed - 1)
  /\ IsFiniteSet(Lengths!SummedEntries)
BY AnalysisAssumption, FS_Interval DEF Lengths!SummedEntries

\* Before the first line everything is 0.
LEMMA AnalysisInit == Lengths!Init => AnalysisInv
<1> SUFFICES ASSUME Lengths!Init PROVE AnalysisInv
  OBVIOUS
<1> USE AnalysisAssumption
<1>1. /\ stage = "read" /\ lines = 0
      /\ blockNumList = [j \in 0..(ListSize - 1) |->
                           IF j < Summed THEN 0 ELSE Lengths!Garbage]
      /\ logged = [n \in RunLength |-> 0]
      /\ report = Lengths!NoReport
  BY DEF Lengths!Init
<1>2. \A j \in 0..(Summed - 1) : j \in 0..(ListSize - 1) /\ blockNumList[j] = 0
  BY <1>1
<1>3. Lengths!TypeOK
  <2>1. /\ report.total = 0 /\ report.pages = 0
        /\ report.class = [c \in ClassStarts |-> 0]
    BY <1>1 DEF Lengths!NoReport
  <2>2. /\ stage \in {"read", "done", "terminated", "corrupt"}
        /\ lines \in 0..MaxLogLines
        /\ DOMAIN blockNumList = 0..(ListSize - 1)
        /\ logged \in [RunLength -> 0..MaxLogLines]
    BY <1>1
  <2>3. \A j \in 0..(Summed - 1) : blockNumList[j] \in 0..lines
    BY <1>1, <1>2
  <2>4. QED
    BY <2>1, <2>2, <2>3 DEF Lengths!TypeOK
<1>4. ListRight
  BY <1>1, <1>2 DEF ListRight
<1>5. Lengths!SumOver(logged, RunLength) = 0
  <2>1. Lengths!SumOver(logged, {}) = 0
    BY FS_EmptySet, SumUnfolds
  <2>2. Agree(logged, RunLength, logged, {})
    BY <1>1 DEF Agree
  <2>3. Summable(logged, RunLength) /\ Summable(logged, {})
    BY <1>1, FS_EmptySet DEF Summable
  <2>4. Lengths!SumOver(logged, RunLength) = Lengths!SumOver(logged, {})
    BY <2>2, <2>3, SumsEqual
  <2>5. QED
    BY <2>1, <2>4
<1>6. QED
  BY <1>1, <1>3, <1>4, <1>5 DEF AnalysisInv

\* One line more adds 1 to the sum of all lengths.
LEMMA OneLineMore ==
  ASSUME NEW f, NEW g, NEW n \in RunLength,
         f \in [RunLength -> Nat], g = [f EXCEPT ![n] = @ + 1]
  PROVE  Lengths!SumOver(g, RunLength) = Lengths!SumOver(f, RunLength) + 1
<1>1. PICK R : R = RunLength \ {n}
  OBVIOUS
<1>2. /\ \A m \in RunLength : f[m] \in Nat /\ g[m] \in Nat
      /\ \A m \in R : g[m] = f[m]
      /\ g[n] = f[n] + 1
  BY <1>1
<1>3. Summable(f, RunLength) /\ Summable(g, RunLength)
  BY <1>2, AnalysisAssumption DEF Summable
<1>4. Summable(f, R) /\ Summable(g, R)
  BY <1>1, <1>3, SummableParts
<1>5. Lengths!SumOver(g, R) = Lengths!SumOver(f, R)
  <2>1. Agree(g, R, f, R)
    BY <1>2 DEF Agree
  <2>2. QED
    BY <1>4, <2>1, SumsEqual
<1>6. Takes(f, RunLength, n) /\ Takes(g, RunLength, n)
  BY <1>3, SumTakesAny
<1>7. /\ Lengths!SumOver(f, RunLength) = f[n] + Lengths!SumOver(f, R)
      /\ Lengths!SumOver(g, RunLength) = g[n] + Lengths!SumOver(g, R)
  BY <1>1, <1>6, Zenon DEF Takes
<1>8. Lengths!SumOver(f, R) \in Nat /\ f[n] \in Nat
  BY <1>2, <1>4, SumType
<1>9. QED
  BY <1>2, <1>5, <1>7, <1>8

\* A line is counted in its entry, or not at all past the end of the list.
LEMMA ReadLineKeeps ==
  ASSUME AnalysisInv, Lengths!ReadLine
  PROVE  AnalysisInv'
<1> USE AnalysisAssumption
<1>1. PICK n \in RunLength :
        /\ stage = "read" /\ lines < MaxLogLines
        /\ lines' = lines + 1
        /\ logged' = [logged EXCEPT ![n] = @ + 1]
        /\ IF n < ListSize
             THEN blockNumList' = Lengths!Counted(n) /\ stage' = stage
           ELSE stage' = "corrupt" /\ blockNumList' = blockNumList
        /\ report' = report
  BY DEF Lengths!ReadLine
<1>2. /\ lines \in 0..MaxLogLines
      /\ DOMAIN blockNumList = 0..(ListSize - 1)
      /\ \A j \in 0..(Summed - 1) : blockNumList[j] \in 0..lines
      /\ logged \in [RunLength -> 0..MaxLogLines]
      /\ \A m \in RunLength : logged[m] <= lines
  BY DEF AnalysisInv, Lengths!TypeOK
<1>3. /\ logged' \in [RunLength -> Nat]
      /\ \A m \in RunLength : logged'[m] = IF m = n THEN logged[m] + 1 ELSE logged[m]
  BY <1>1, <1>2
<1>4. \A m \in RunLength : logged'[m] <= lines'
  BY <1>1, <1>2, <1>3
<1>5. logged' \in [RunLength -> 0..MaxLogLines]
  BY <1>1, <1>2, <1>3, <1>4
<1>6. DOMAIN blockNumList' = 0..(ListSize - 1)
  BY <1>1, <1>2 DEF Lengths!Counted
<1>7. ASSUME NEW j \in 0..(Summed - 1)
      PROVE  blockNumList'[j] = IF j = n THEN blockNumList[j] + 1 ELSE blockNumList[j]
  BY <1>1, <1>2 DEF Lengths!Counted
<1>8. ListRight'
  BY <1>3, <1>7 DEF AnalysisInv, ListRight
<1>9. \A j \in 0..(Summed - 1) : blockNumList'[j] \in 0..lines'
  <2> TAKE j \in 0..(Summed - 1)
  <2>1. blockNumList[j] \in 0..lines /\ lines' = lines + 1 /\ lines \in Nat
    BY <1>1, <1>2
  <2>2. QED
    BY <1>7, <2>1
<1>10. Lengths!TypeOK'
  <2>1. stage' \in {"read", "corrupt"} /\ lines' \in 0..MaxLogLines
    BY <1>1, <1>2
  <2>2. report'.total \in Nat /\ report'.pages \in Nat
        /\ report'.class \in [ClassStarts -> Nat]
    BY <1>1 DEF AnalysisInv, Lengths!TypeOK
  <2>3. QED
    BY <1>5, <1>6, <1>9, <2>1, <2>2 DEF Lengths!TypeOK
<1>11. Lengths!SumOver(logged', RunLength) = lines'
  <2>1. logged \in [RunLength -> Nat]
    BY <1>2
  <2>2. Lengths!SumOver(logged', RunLength) = Lengths!SumOver(logged, RunLength) + 1
    BY <1>1, <2>1, OneLineMore
  <2>3. QED
    BY <1>1, <2>2 DEF AnalysisInv
<1>12. stage' # "done"
  BY <1>1
<1>13. QED
  BY <1>4, <1>8, <1>10, <1>11, <1>12 DEF AnalysisInv

\* The list is summable, and so is each entry times its length.
LEMMA ListSummable ==
  ASSUME AnalysisInv
  PROVE  /\ Summable(blockNumList, Lengths!SummedEntries)
         /\ Summable(Weighted(blockNumList, Lengths!SummedEntries),
                     Lengths!SummedEntries)
<1>1. \A j \in 0..(Summed - 1) : blockNumList[j] \in 0..lines /\ lines \in Nat
  BY DEF AnalysisInv, Lengths!TypeOK
<1>2. \A j \in Lengths!SummedEntries : j \in Nat /\ blockNumList[j] \in Nat
  BY <1>1, EntriesFacts, AnalysisAssumption
<1>3. \A a, b \in Nat : a * b \in Nat
  OBVIOUS
<1>4. \A j \in Lengths!SummedEntries : blockNumList[j] * j \in Nat
  BY <1>2, <1>3
<1>5. \A j \in Lengths!SummedEntries :
        Weighted(blockNumList, Lengths!SummedEntries)[j] \in Nat
  BY <1>4 DEF Weighted
<1>6. QED
  BY <1>2, <1>5, EntriesFacts DEF Summable

\* The report holds those sums.
LEMMA ReportKeeps ==
  ASSUME AnalysisInv, Lengths!Report
  PROVE  AnalysisInv'
<1>1. PICK S : S = Lengths!SummedEntries
  OBVIOUS
<1>2. PICK W : W = Weighted(blockNumList, S)
  OBVIOUS
<1>3. PICK C : C = Shares(blockNumList, S)
  OBVIOUS
<1>4. /\ stage = "read" /\ stage' = "done"
      /\ blockNumList' = blockNumList /\ lines' = lines /\ logged' = logged
  BY DEF Lengths!Report
<1>5. report' = [total |-> Lengths!SumOver(blockNumList, S),
                 pages |-> Lengths!SumOver(W, S), class |-> C]
  BY <1>1, <1>2, <1>3, Zenon DEF Lengths!Report, Weighted, Shares, InOf
<1>6. /\ report'.total = Lengths!SumOver(blockNumList, S)
      /\ report'.pages = Lengths!SumOver(W, S)
      /\ report'.class = C
  BY <1>5
<1>7. Summable(blockNumList, S) /\ Summable(W, S)
  BY <1>1, <1>2, ListSummable
<1>8. C \in [ClassStarts -> Nat]
  <2>1. C = [c \in ClassStarts |-> Lengths!SumOver(blockNumList, InOf(S, c))]
    BY <1>3 DEF Shares
  <2>2. \A c \in ClassStarts : C[c] \in Nat
    BY <1>3, <1>7, ShareFacts
  <2>3. QED
    BY <2>1, <2>2
<1>9. /\ report'.total \in Nat /\ report'.pages \in Nat
      /\ report'.class \in [ClassStarts -> Nat]
  BY <1>6, <1>7, <1>8, SumType
<1>10. Lengths!TypeOK'
  BY <1>4, <1>9 DEF AnalysisInv, Lengths!TypeOK
<1>11. ReportRight'
  BY <1>1, <1>2, <1>3, <1>4, <1>6 DEF ReportRight, Lengths!SummedEntries
<1>12. QED
  BY <1>4, <1>10, <1>11 DEF AnalysisInv, ListRight

\* Every step of the analysis keeps the invariant.
LEMMA AnalysisNext == AnalysisInv /\ Lengths!Next => AnalysisInv'
<1> SUFFICES ASSUME AnalysisInv, Lengths!Next PROVE AnalysisInv'
  OBVIOUS
<1>1. CASE Lengths!ReadLine
  BY <1>1, ReadLineKeeps
<1>2. CASE Lengths!CutLine
  BY <1>2 DEF Lengths!CutLine, AnalysisInv, Lengths!TypeOK, ListRight
<1>3. CASE Lengths!Report
  BY <1>3, ReportKeeps
<1>4. QED
  BY <1>1, <1>2, <1>3 DEF Lengths!Next

\* It holds from the beginning, whichever part the behaviour is about.
LEMMA AnalysisAlways ==
  /\ Init => (part = "analysis" => AnalysisInv)
  /\ (part = "analysis" => AnalysisInv) /\ [Next]_vars
       => (part = "analysis" => AnalysisInv)'
<1>1. Init => (part = "analysis" => AnalysisInv)
  BY AnalysisInit DEF Init, InitProgram
<1>2. ASSUME part = "analysis" => AnalysisInv, [Next]_vars, part' = "analysis"
      PROVE  AnalysisInv'
  <2>1. CASE Next
    <3>1. part = "analysis"
      BY <1>2, <2>1 DEF Next, ProgramStep
    <3>2. Lengths!Next
      BY <2>1, <3>1
         DEF Next, ProgramStep, ConfigStep, ReaderStep, LoopStep, AnalysisStep,
             ChannelStep, DeviceStep
    <3>3. QED
      BY <1>2, <3>1, <3>2, AnalysisNext
  <2>2. CASE UNCHANGED vars
    BY <1>2, <2>2 DEF vars, programVars, lengthVars, AnalysisInv, Lengths!TypeOK,
                      ListRight, ReportRight
  <2>3. QED
    BY <1>2, <2>1, <2>2
<1>3. QED
  BY <1>1, <1>2

(***************************************************************************)
(* If no run is as long as the part that is summed, the entries summed are *)
(* the numbers of lines of each length.                                    *)
(***************************************************************************)
LEMMA ListComplete ==
  ASSUME AnalysisInv, Lengths!Done
  PROVE  LET S == Lengths!SummedEntries
         IN  /\ Summable(logged, RunLength)
             /\ Summable(Weighted(logged, RunLength), RunLength)
             /\ Agree(blockNumList, S, logged, RunLength)
             /\ Agree(Weighted(blockNumList, S), S,
                      Weighted(logged, RunLength), RunLength)
<1>1. PICK S : S = Lengths!SummedEntries
  OBVIOUS
<1>2. S = 0..(Summed - 1)
  BY <1>1, EntriesFacts
<1>3. \A n \in RunLength : n \in Nat /\ logged[n] \in Nat
  BY AnalysisAssumption DEF AnalysisInv, Lengths!TypeOK
<1>4. \A n \in RunLength : n \notin S => logged[n] = 0
  BY <1>2, <1>3, AnalysisAssumption DEF Lengths!Done
<1>5. \A j \in S : blockNumList[j] = IF j \in RunLength THEN logged[j] ELSE 0
  BY <1>2 DEF AnalysisInv, ListRight
<1>6. Agree(blockNumList, S, logged, RunLength)
  BY <1>4, <1>5 DEF Agree
<1>7. \A j \in Nat : 0 * j = 0
  OBVIOUS
<1>8. \A n \in RunLength : Weighted(logged, RunLength)[n] = logged[n] * n
  BY DEF Weighted
<1>9. \A j \in S : Weighted(blockNumList, S)[j] = blockNumList[j] * j
  BY DEF Weighted
<1>10. \A j \in S : j \in Nat
  BY <1>2, AnalysisAssumption
<1>11. ASSUME NEW j \in S
       PROVE  Weighted(blockNumList, S)[j]
                = IF j \in RunLength THEN Weighted(logged, RunLength)[j] ELSE 0
  <2>1. CASE j \in RunLength
    <3>1. blockNumList[j] = logged[j]
      BY <1>5, <2>1
    <3>2. QED
      BY <1>8, <1>9, <2>1, <3>1, Zenon
  <2>2. CASE j \notin RunLength
    <3>1. blockNumList[j] = 0
      BY <1>5, <2>2
    <3>2. blockNumList[j] * j = 0
      BY <1>7, <1>10, <3>1
    <3>3. QED
      BY <1>9, <2>2, <3>2
  <2>3. QED
    BY <2>1, <2>2
<1>12. ASSUME NEW n \in RunLength, n \notin S
       PROVE  Weighted(logged, RunLength)[n] = 0
  <2>1. logged[n] = 0
    BY <1>4, <1>12
  <2>2. logged[n] * n = 0
    BY <1>3, <1>7, <2>1
  <2>3. QED
    BY <1>8, <2>2
<1>13. Agree(Weighted(blockNumList, S), S, Weighted(logged, RunLength), RunLength)
  BY <1>11, <1>12 DEF Agree
<1>14. Summable(logged, RunLength)
  BY <1>3, AnalysisAssumption DEF Summable
<1>15. Summable(Weighted(logged, RunLength), RunLength)
  <2>1. \A a, b \in Nat : a * b \in Nat
    OBVIOUS
  <2>2. \A n \in RunLength : logged[n] * n \in Nat
    BY <1>3, <2>1
  <2>3. \A n \in RunLength : Weighted(logged, RunLength)[n] \in Nat
    BY <1>8, <2>2
  <2>4. QED
    BY <2>3, AnalysisAssumption DEF Summable
<1>16. QED
  BY <1>1, <1>6, <1>13, <1>14, <1>15

\* No class has length 0, so the entry for it is in no share.
LEMMA ZeroInNoClass ==
  ASSUME NEW g, NEW S
  PROVE  Shares(g, S) = Shares(g, S \ {0})
<1>1. ASSUME NEW c \in ClassStarts
      PROVE  InOf(S, c) = InOf(S \ {0}, c)
  BY AnalysisAssumption DEF InOf, Lengths!InClass
<1>2. \A c \in ClassStarts : Lengths!SumOver(g, InOf(S, c))
                               = Lengths!SumOver(g, InOf(S \ {0}, c))
  BY <1>1, Zenon
<1>3. QED
  BY <1>2, Zenon DEF Shares

\* What the invariant says of the report.
LEMMA AnalysisFacts ==
  ASSUME AnalysisInv
  PROVE  Lengths!ClassesPartition /\ Lengths!AllPagesReported
<1> SUFFICES ASSUME Lengths!Done
             PROVE  /\ report.total = lines
                    /\ Lengths!SumOver(report.class, ClassStarts) = lines
                    /\ report.pages = Lengths!Pages
  BY DEF Lengths!ClassesPartition, Lengths!AllPagesReported
<1>1. PICK S : S = Lengths!SummedEntries
  OBVIOUS
<1>2. PICK R : R = S \ {0}
  OBVIOUS
<1>3. /\ report.total = Lengths!SumOver(blockNumList, S)
      /\ report.pages = Lengths!SumOver(Weighted(blockNumList, S), S)
      /\ report.class = Shares(blockNumList, S)
      /\ Lengths!SumOver(logged, RunLength) = lines
  BY <1>1 DEF AnalysisInv, ReportRight, Lengths!Done
<1>4. /\ Summable(blockNumList, S) /\ Summable(Weighted(blockNumList, S), S)
      /\ Summable(logged, RunLength) /\ Summable(Weighted(logged, RunLength), RunLength)
      /\ Agree(blockNumList, S, logged, RunLength)
      /\ Agree(Weighted(blockNumList, S), S, Weighted(logged, RunLength), RunLength)
  BY <1>1, ListSummable, ListComplete
<1>5. report.total = lines
  BY <1>3, <1>4, SumsEqual
<1>6. report.pages = Lengths!Pages
  <2>1. Lengths!Pages = Lengths!SumOver(Weighted(logged, RunLength), RunLength)
    BY Zenon DEF Lengths!Pages, Weighted
  <2>2. QED
    BY <1>3, <1>4, <2>1, SumsEqual
<1>7. Summable(blockNumList, R) /\ R \subseteq Nat \ {0}
  BY <1>1, <1>2, <1>4, EntriesFacts, AnalysisAssumption, SummableParts
<1>8. Lengths!SumOver(report.class, ClassStarts) = Lengths!SumOver(blockNumList, R)
  <2>1. report.class = Shares(blockNumList, R)
    BY <1>2, <1>3, ZeroInNoClass
  <2>2. QED
    BY <1>7, <2>1, SharesAddUp
<1>9. Agree(blockNumList, R, logged, RunLength)
  <2>1. \A n \in RunLength : n # 0
    BY AnalysisAssumption
  <2>2. QED
    BY <1>2, <1>4, <2>1 DEF Agree
<1>10. Lengths!SumOver(blockNumList, R) = lines
  BY <1>3, <1>4, <1>7, <1>9, SumsEqual
<1>11. QED
  BY <1>5, <1>6, <1>8, <1>10

(***************************************************************************)
(* The size classes of the report are a partition of the lines of the log  *)
(* and the total is that of their pages, for every log, however long the   *)
(* list and wherever the classes start, if no run is as long as the part   *)
(* that is summed.                                                         *)
(***************************************************************************)
THEOREM ClassesAlwaysPartition == Spec => []ClassesPartition
<1>1. (part = "analysis" => AnalysisInv) => ClassesPartition
  BY AnalysisFacts DEF ClassesPartition, AnalysisInv
<1>2. QED
  BY <1>1, AnalysisAlways, PTL DEF Spec
-----------------------------------------------------------------------------
(***************************************************************************)
(* A bus channel of FlashSim, for any start times and durations. The table *)
(* is sorted in unlock(), but only then: the last entry, appended by the   *)
(* lock() before, can lie anywhere between the others.                     *)
(***************************************************************************)
Intervals == {a \in [lock_time : Nat, unlock_time : Nat] : a.lock_time < a.unlock_time}

ChannelInv ==
  /\ Bus!TypeOK /\ Bus!ReadyAfterAll /\ Bus!TableDisjoint
  /\ timings \in Seq(Intervals)

\* ProgramAssumption makes the assumptions of the channel.
LEMMA ChannelAssumed ==
  /\ LockDuration \subseteq Nat \ {0} /\ MaxLockTime \in Nat
  /\ MaxLocks \in Nat /\ max_connections \in Nat
BY ProgramAssumption DEF ProgramAssumption, Bus!ChannelAssumption

\* The instance counts as the proofs do.
LEMMA ChannelCounts == \A S : Bus!Cardinality(S) = Cardinality(S)
BY DEF Bus!Cardinality, Cardinality

\* The intervals of S that are locked before a is.
Earlier(a, S) == {b \in S : b.lock_time < a.lock_time}

(***************************************************************************)
(* Each place of the sorted sequence is some interval's: there are as many *)
(* places as intervals, and two intervals do not have the same one.        *)
(***************************************************************************)
LEMMA PlacesTaken ==
  ASSUME NEW S, IsFiniteSet(S), S \subseteq Intervals,
         \A a, b \in S : a # b => a.lock_time # b.lock_time,
         NEW i \in 1..Cardinality(S)
  PROVE  \E a \in S : Cardinality(Earlier(a, S)) = i - 1
<1> DEFINE n == Cardinality(S)
           r == [a \in S |-> Cardinality(Earlier(a, S))]
<1>1. n \in Nat /\ \A a \in S : a.lock_time \in Nat
  BY FS_CardinalityType DEF Intervals
<1>2. ASSUME NEW a \in S
      PROVE  /\ IsFiniteSet(Earlier(a, S)) /\ a \notin Earlier(a, S)
             /\ r[a] \in 0..(n - 1)
  <2>1. Earlier(a, S) \in SUBSET S /\ a \notin Earlier(a, S)
    BY <1>1 DEF Earlier
  <2>2. IsFiniteSet(Earlier(a, S)) /\ Cardinality(Earlier(a, S)) \in Nat
        /\ Cardinality(Earlier(a, S)) <= n
    BY <2>1, FS_Subset, FS_CardinalityType
  <2>3. Cardinality(Earlier(a, S)) # n
    BY <2>1, FS_Subset
  <2>4. QED
    BY <1>1, <2>1, <2>2, <2>3
<1>3. ASSUME NEW a \in S, NEW b \in S, a.lock_time < b.lock_time
      PROVE  r[a] # r[b]
  <2> DEFINE T == Earlier(a, S) \cup {a}
  <2>1. IsFiniteSet(T) /\ Cardinality(T) = r[a] + 1
    BY <1>2, FS_AddElement
  <2>2. T \in SUBSET Earlier(b, S)
    BY <1>1, <1>3 DEF Earlier
  <2>3. Cardinality(T) <= r[b]
    <3> HIDE DEF T
    <3>1. QED
      BY <1>2, <2>2, FS_Subset
  <2> HIDE DEF T, r
  <2>4. QED
    BY <1>1, <1>2, <2>1, <2>3
<1>4. \A a, b \in S : r[a] = r[b] => a = b
  <2>1. TAKE a, b \in S
  <2>2. a # b => a.lock_time < b.lock_time \/ b.lock_time < a.lock_time
    BY <1>1
  <2> HIDE DEF r
  <2>3. QED
    BY <1>3, <2>2
<1>5. r \in Injection(S, 0..(n - 1))
  <2>1. r \in [S -> 0..(n - 1)]
    BY <1>2
  <2> HIDE DEF r
  <2>2. QED
    BY <1>4, <2>1, Fun_IsInj
<1>6. IsFiniteSet(0..(n - 1)) /\ Cardinality(0..(n - 1)) = n
  <2> HIDE DEF n
  <2>1. 0 \in Int /\ n - 1 \in Int
    BY <1>1
  <2>2. QED
    BY <1>1, <2>1, FS_Interval
<1>7. r \in Surjection(S, 0..(n - 1))
  <2> HIDE DEF r, n
  <2>1. QED
    BY <1>5, <1>6, FS_Injection DEF n
<1>8. i - 1 \in 0..(n - 1)
  BY <1>1
<1>9. \E a \in S : r[a] = i - 1
  <2> HIDE DEF r
  <2>1. QED
    BY <1>7, <1>8 DEF Surjection
<1>10. QED
  BY <1>9

\* Sorting puts intervals in the order of their lock times.
LEMMA SortedIs ==
  ASSUME NEW S, IsFiniteSet(S), S \subseteq Intervals,
         \A a, b \in S : a # b => a.lock_time # b.lock_time
  PROVE  /\ Bus!Sorted(S) \in Seq(S) /\ Len(Bus!Sorted(S)) = Cardinality(S)
         /\ \A i, j \in 1..Cardinality(S) :
              i < j => Bus!Sorted(S)[i].lock_time < Bus!Sorted(S)[j].lock_time
<1> DEFINE n == Cardinality(S)
           t == Bus!Sorted(S)
<1>1. n \in Nat
  BY FS_CardinalityType
<1> DEFINE place(a) == Bus!Cardinality({b \in S : Bus!timings_sorter(b, a)})
<1>2. t = [i \in 1..n |-> CHOOSE a \in S : place(a) = i - 1]
  BY ChannelCounts DEF Bus!Sorted
<1>3. ASSUME NEW i \in 1..n
      PROVE  t[i] \in S /\ Cardinality(Earlier(t[i], S)) = i - 1
  <2>1. \A a \in S : place(a) = Cardinality(Earlier(a, S))
    BY ChannelCounts DEF Bus!timings_sorter, Earlier
  <2>2. t[i] = CHOOSE a \in S : place(a) = i - 1
    BY <1>2
  <2> HIDE DEF t, place
  <2>3. \E a \in S : place(a) = i - 1
    BY <2>1, PlacesTaken
  <2>4. QED
    BY <2>1, <2>2, <2>3
<1>4. t \in Seq(S) /\ Len(t) = n
  <2>1. t \in [1..n -> S]
    BY <1>2, <1>3
  <2> HIDE DEF t, n, place
  <2>2. QED
    BY <1>1, <2>1
<1>5. ASSUME NEW i \in 1..n, NEW j \in 1..n, i < j
      PROVE  t[i].lock_time < t[j].lock_time
  <2>1. t[i] \in S /\ t[j] \in S
    BY <1>3
  <2>2. t[i].lock_time \in Nat /\ t[j].lock_time \in Nat
    BY <2>1 DEF Intervals
  <2>3. SUFFICES ASSUME t[j].lock_time <= t[i].lock_time PROVE FALSE
    BY <2>2
  <2>4. Earlier(t[j], S) \in SUBSET Earlier(t[i], S)
    BY <2>2, <2>3 DEF Earlier, Intervals
  <2>5. IsFiniteSet(Earlier(t[i], S))
    BY FS_Subset DEF Earlier
  <2>6. Cardinality(Earlier(t[j], S)) <= Cardinality(Earlier(t[i], S))
    BY <2>4, <2>5, FS_Subset
  <2>7. j - 1 <= i - 1
    <3> HIDE DEF t
    <3>1. QED
      BY <1>3, <2>6
  <2>8. QED
    BY <1>1, <1>5, <2>7
<1>6. QED
  BY <1>4, <1>5


\* Intervals one after the other.
InTurn(t) ==
  \A i, j \in 1..Len(t) : i < j => t[i].unlock_time <= t[j].lock_time

\* What unlock() leaves is in order, however the table was.
LEMMA UnlockSorts ==
  ASSUME ChannelInv, NEW start
  PROVE  Bus!unlock(start) \in Seq(Intervals) /\ InTurn(Bus!unlock(start))
<1> DEFINE D == DOMAIN timings \ Bus!Erased(start)
           S == {timings[i] : i \in D}
           t == Bus!unlock(start)
<1>1. /\ timings \in Seq(Intervals) /\ Len(timings) \in Nat
      /\ DOMAIN timings = 1..Len(timings)
      /\ \A i \in 1..Len(timings) : timings[i] \in Intervals
  BY DEF ChannelInv
<1>2. S \subseteq Intervals
  BY <1>1
<1>3. IsFiniteSet(S)
  <2> DEFINE f == [i \in D |-> timings[i]]
  <2>1. D \in SUBSET (1..Len(timings)) /\ IsFiniteSet(1..Len(timings))
    BY <1>1, FS_Interval
  <2>2. f \in Surjection(D, S)
    BY Fun_IsSurj
  <2> HIDE DEF f, D, S
  <2>3. QED
    BY <2>1, <2>2, FS_Subset, FS_Surjection
<1>4. ASSUME NEW a \in S, NEW b \in S, a # b
      PROVE  a.unlock_time <= b.lock_time \/ b.unlock_time <= a.lock_time
  <2>1. PICK i \in D : a = timings[i]
    OBVIOUS
  <2>2. PICK j \in D : b = timings[j]
    OBVIOUS
  <2>3. i # j
    BY <1>4, <2>1, <2>2
  <2>4. Bus!Disjoint(timings[i], timings[j])
    BY <2>3 DEF ChannelInv, Bus!TableDisjoint, Bus!AllDisjoint
  <2>5. QED
    BY <2>1, <2>2, <2>4 DEF Bus!Disjoint
<1> HIDE DEF S, D
<1>5. ASSUME NEW a \in S
      PROVE  /\ a.lock_time \in Nat /\ a.unlock_time \in Nat
             /\ a.lock_time < a.unlock_time
  BY <1>2 DEF Intervals
<1>6. \A a, b \in S : a # b => a.lock_time # b.lock_time
  <2>1. TAKE a, b \in S
  <2>2. QED
    BY <1>4, <1>5
<1>7. /\ t \in Seq(S) /\ Len(t) = Cardinality(S)
      /\ \A i, j \in 1..Cardinality(S) : i < j => t[i].lock_time < t[j].lock_time
  <2>1. t = Bus!Sorted(S)
    BY DEF Bus!unlock, S, D
  <2> HIDE DEF t
  <2>2. QED
    BY <1>2, <1>3, <1>6, <2>1, SortedIs
<1> HIDE DEF t
<1>8. ASSUME NEW i \in 1..Len(t), NEW j \in 1..Len(t), i < j
      PROVE  t[i].unlock_time <= t[j].lock_time
  <2>1. t[i] \in S /\ t[j] \in S /\ t[i].lock_time < t[j].lock_time
    BY <1>7, <1>8
  <2>2. t[i] # t[j]
    BY <1>5, <2>1
  <2>3. QED
    BY <1>4, <1>5, <2>1, <2>2
<1>9. t \in Seq(Intervals)
  BY <1>2, <1>7
<1>10. QED
  BY <1>8, <1>9 DEF InTurn, t

\* The interval that lock() finds overlaps with none.
LEMMA LockFits ==
  ASSUME NEW t \in Seq(Intervals), InTurn(t), NEW start \in Nat, NEW d \in Nat \ {0},
         NEW s, s = Bus!SchedTime(t, start, d)
  PROVE  /\ s \in Nat
         /\ \A i \in 1..Len(t) : t[i].unlock_time <= s \/ s + d <= t[i].lock_time
<1>1. /\ Len(t) \in Nat
      /\ \A i \in 1..Len(t) :
           /\ t[i].lock_time \in Nat /\ t[i].unlock_time \in Nat
           /\ t[i].lock_time < t[i].unlock_time
  BY DEF Intervals
<1>2. \A i, j \in 1..Len(t) : i < j => t[i].unlock_time <= t[j].lock_time
  BY DEF InTurn
<1> DEFINE First == t = <<>> \/ (t[1].lock_time > start /\ t[1].lock_time - start >= d)
           R == Bus!Room(t, start, d)
<1>3. CASE First
  <2>1. s = start
    BY <1>3 DEF Bus!SchedTime
  <2>2. ASSUME NEW i \in 1..Len(t)
        PROVE  s + d <= t[i].lock_time
    <3>1. 1 \in 1..Len(t) /\ t # <<>>
      BY <1>1
    <3>2. start + d <= t[1].lock_time
      BY <1>1, <1>3, <3>1
    <3>3. t[1].lock_time <= t[i].lock_time
      <4>1. CASE i = 1
        BY <1>1, <4>1
      <4>2. CASE 1 < i
        <5>1. t[1].unlock_time <= t[i].lock_time
          BY <1>2, <3>1, <4>2
        <5>2. QED
          BY <1>1, <3>1, <5>1
      <4>3. QED
        BY <4>1, <4>2
    <3>4. QED
      BY <1>1, <2>1, <3>1, <3>2, <3>3
  <2>3. QED
    BY <2>1, <2>2
<1>4. CASE ~First /\ R # {}
  <2> DEFINE k == Bus!Min(R)
  <2>1. R \in SUBSET Nat /\ \A i \in R : /\ i \in 1..(Len(t) - 1)
                                         /\ t[i + 1].lock_time - t[i].unlock_time >= d
    BY <1>1 DEF Bus!Room
  <2>2. k \in R
    <3> HIDE DEF R
    <3>1. \E x \in R : \A y \in R : x <= y
      BY <1>4, <2>1, LeastNatural
    <3>2. QED
      BY <3>1 DEF Bus!Min
  <2>3. s = t[k].unlock_time
    BY <1>4 DEF Bus!SchedTime
  <2> HIDE DEF k, R
  <2>4. k \in 1..Len(t) /\ k + 1 \in 1..Len(t)
    BY <1>1, <2>1, <2>2
  <2>5. t[k].unlock_time + d <= t[k + 1].lock_time
    BY <1>1, <2>1, <2>2, <2>4
  <2>6. ASSUME NEW i \in 1..Len(t)
        PROVE  t[i].unlock_time <= s \/ s + d <= t[i].lock_time
    <3>1. CASE i = k
      BY <1>1, <2>3, <2>4, <3>1
    <3>2. CASE i < k
      <4>1. t[i].unlock_time <= t[k].lock_time
        BY <1>2, <2>4, <3>2
      <4>2. QED
        BY <1>1, <2>3, <2>4, <4>1
    <3>3. CASE i = k + 1
      BY <1>1, <2>3, <2>4, <2>5, <3>3
    <3>4. CASE k + 1 < i
      <4>1. t[k + 1].unlock_time <= t[i].lock_time
        BY <1>2, <2>4, <3>4
      <4>2. QED
        BY <1>1, <2>3, <2>4, <2>5, <4>1
    <3>5. QED
      BY <1>1, <2>4, <3>1, <3>2, <3>3, <3>4
  <2>7. QED
    BY <1>1, <2>3, <2>4, <2>6
<1>5. CASE ~First /\ R = {}
  <2>1. s = t[Len(t)].unlock_time
    BY <1>5 DEF Bus!SchedTime, Bus!Last
  <2>2. Len(t) \in 1..Len(t)
    BY <1>1, <1>5
  <2>3. ASSUME NEW i \in 1..Len(t)
        PROVE  t[i].unlock_time <= s
    <3>1. CASE i = Len(t)
      BY <1>1, <2>1, <3>1
    <3>2. CASE i < Len(t)
      <4>1. t[i].unlock_time <= t[Len(t)].lock_time
        BY <1>2, <2>2, <3>2
      <4>2. QED
        BY <1>1, <2>1, <2>2, <4>1
    <3>3. QED
      BY <1>1, <3>1, <3>2
  <2>4. QED
    BY <1>1, <2>1, <2>2, <2>3
<1>6. QED
  BY <1>3, <1>4, <1>5

\* lock() keeps the table.
LEMMA LockKeeps ==
  ASSUME ChannelInv, NEW start \in 0..MaxLockTime, NEW d \in LockDuration,
         Bus!lock(start, d)
  PROVE  ChannelInv'
<1> DEFINE t == Bus!unlock(start)
           s == Bus!SchedTime(t, start, d)
           i == Bus!Interval(s, d)
<1>1. start \in Nat /\ d \in Nat \ {0}
  BY ChannelAssumed
<1>2. t \in Seq(Intervals) /\ InTurn(t)
  BY UnlockSorts
<1>3. /\ timings' = Append(t, i) /\ granted' = Append(granted, i)
      /\ ready_at' = IF i.unlock_time > ready_at THEN i.unlock_time ELSE ready_at
      /\ num_connected' = num_connected
  BY DEF Bus!lock, Bus!readyAt
<1> HIDE DEF t
<1>4. s \in Nat /\ \A k \in 1..Len(t) : t[k].unlock_time <= s \/ s + d <= t[k].lock_time
  BY <1>1, <1>2, LockFits
<1> HIDE DEF s
<1>5. /\ i \in Intervals /\ i \in [lock_time : Nat, unlock_time : Nat]
      /\ i.lock_time = s /\ i.unlock_time = s + d /\ i.unlock_time \in Nat
  BY <1>1, <1>4 DEF Bus!Interval, Intervals
<1> HIDE DEF i
<1>6. /\ timings' \in Seq(Intervals)
      /\ timings' \in Seq([lock_time : Nat, unlock_time : Nat])
  <2>1. timings' \in Seq(Intervals)
    BY <1>2, <1>3, <1>5
  <2> DEFINE T == [lock_time : Nat, unlock_time : Nat]
  <2>2. Intervals \subseteq T
    BY DEF Intervals
  <2> HIDE DEF T
  <2>3. /\ Len(timings') \in Nat
        /\ timings' \in [1..Len(timings') -> T]
    BY <2>1, <2>2
  <2>4. timings' \in Seq(T)
    BY <2>3
  <2>5. QED
    BY <2>1, <2>4 DEF T
<1>7. granted' \in Seq([lock_time : Nat, unlock_time : Nat])
      /\ ready_at' \in Nat \cup {-1} /\ num_connected' \in 0..max_connections
  BY <1>3, <1>5 DEF ChannelInv, Bus!TypeOK
<1>8. Bus!ReadyAfterAll'
  <2>1. /\ granted \in Seq([lock_time : Nat, unlock_time : Nat]) /\ ready_at \in Int
        /\ \A k \in 1..Len(granted) : /\ granted[k].unlock_time <= ready_at
                                      /\ granted[k].unlock_time \in Nat
    <3>1. granted \in Seq([lock_time : Nat, unlock_time : Nat]) /\ ready_at \in Int
      BY DEF ChannelInv, Bus!TypeOK
    <3>2. ASSUME NEW k \in 1..Len(granted)
          PROVE  granted[k].unlock_time <= ready_at /\ granted[k].unlock_time \in Nat
      <4> DEFINE T == [lock_time : Nat, unlock_time : Nat]
      <4>1. granted[k] \in T
        <5>1. granted \in Seq(T)
          BY <3>1
        <5> HIDE DEF T
        <5>2. QED
          BY <5>1
      <4>2. QED
        BY <3>1, <4>1 DEF ChannelInv, Bus!ReadyAfterAll
    <3>3. QED
      BY <3>1, <3>2
  <2>2. ASSUME NEW k \in DOMAIN granted'
        PROVE  granted'[k].unlock_time <= ready_at'
    <3>1. CASE k \in 1..Len(granted)
      <4>1. granted'[k] = granted[k]
        BY <1>3, <2>1, <3>1
      <4>2. QED
        BY <1>3, <1>5, <2>1, <3>1, <4>1
    <3>2. CASE k = Len(granted) + 1
      <4>1. granted'[k] = i
        BY <1>3, <2>1, <3>2
      <4>2. QED
        BY <1>3, <1>5, <2>1, <4>1
    <3>3. QED
      BY <1>3, <2>1, <3>1, <3>2
  <2>3. QED
    BY <2>2 DEF Bus!ReadyAfterAll
<1>9. Bus!TableDisjoint'
  <2>1. /\ Len(t) \in Nat /\ DOMAIN timings' = 1..(Len(t) + 1)
        /\ \A k \in 1..Len(t) : timings'[k] = t[k]
        /\ timings'[Len(t) + 1] = i
    BY <1>2, <1>3
  <2>2. ASSUME NEW j \in 1..(Len(t) + 1), NEW k \in 1..(Len(t) + 1), j # k
        PROVE  Bus!Disjoint(timings'[j], timings'[k])
    <3>1. CASE j \in 1..Len(t) /\ k \in 1..Len(t)
      <4>1. j < k \/ k < j
        BY <2>2, <3>1
      <4>2. QED
        BY <1>2, <2>1, <3>1, <4>1 DEF InTurn, Bus!Disjoint
    <3>2. CASE j = Len(t) + 1 /\ k \in 1..Len(t)
      BY <1>4, <1>5, <2>1, <3>2 DEF Bus!Disjoint
    <3>3. CASE k = Len(t) + 1 /\ j \in 1..Len(t)
      BY <1>4, <1>5, <2>1, <3>3 DEF Bus!Disjoint
    <3>4. QED
      BY <2>1, <2>2, <3>1, <3>2, <3>3
  <2>3. QED
    BY <2>1, <2>2 DEF Bus!TableDisjoint, Bus!AllDisjoint
<1>10. QED
  BY <1>6, <1>7, <1>8, <1>9 DEF ChannelInv, Bus!TypeOK

\* Every call of the channel keeps the table.
LEMMA ChannelNext == ChannelInv /\ Bus!Next => ChannelInv'
<1> SUFFICES ASSUME ChannelInv, Bus!Next PROVE ChannelInv'
  OBVIOUS
<1>1. CASE Bus!connect \/ Bus!disconnect
  <2>1. /\ timings' = timings /\ ready_at' = ready_at /\ granted' = granted
        /\ num_connected' \in 0..max_connections
    BY <1>1, ChannelAssumed
       DEF ChannelInv, Bus!TypeOK, Bus!connect, Bus!disconnect
  <2>2. QED
    BY <2>1 DEF ChannelInv, Bus!TypeOK, Bus!ReadyAfterAll, Bus!TableDisjoint,
                Bus!AllDisjoint, Bus!Disjoint
<1>2. CASE \E start \in 0..MaxLockTime, d \in LockDuration : Bus!lock(start, d)
  BY <1>2, LockKeeps
<1>3. QED
  BY <1>1, <1>2 DEF Bus!Next

\* The invariant of the program, as far as the channel goes.
LEMMA ChannelAlways ==
  /\ Init => (part = "channel" => ChannelInv)
  /\ (part = "channel" => ChannelInv) /\ [Next]_vars
       => (part = "channel" => ChannelInv)'
<1>1. ASSUME Init, part = "channel"
      PROVE  ChannelInv
  <2>1. /\ timings = <<>> /\ ready_at = -1 /\ num_connected = 0 /\ granted = <<>>
    BY <1>1 DEF Init, InitProgram, Bus!Init
  <2>2. QED
    BY <2>1, ChannelAssumed DEF ChannelInv, Bus!TypeOK, Bus!ReadyAfterAll,
                                Bus!TableDisjoint, Bus!AllDisjoint
<1>2. ASSUME part = "channel" => ChannelInv, [Next]_vars, (part = "channel")'
      PROVE  ChannelInv'
  <2>1. CASE Next
    <3>1. part' = part
      BY <2>1 DEF Next, ProgramStep
    <3>2. Bus!Next
      BY <1>2, <2>1, <3>1
         DEF Next, ProgramStep, ConfigStep, ReaderStep, LoopStep, AnalysisStep,
             ChannelStep, DeviceStep
    <3>3. QED
      BY <1>2, <3>1, <3>2, ChannelNext
  <2>2. CASE UNCHANGED vars
    BY <1>2, <2>2
       DEF vars, channelVars, ChannelInv, Bus!TypeOK, Bus!ReadyAfterAll,
           Bus!TableDisjoint, Bus!AllDisjoint, Bus!Disjoint
  <2>3. QED
    BY <1>2, <2>1, <2>2
<1>3. QED
  BY <1>1, <1>2

(***************************************************************************)
(* No two transmissions that Channel::lock() has in its table overlap,     *)
(* and the channel is never ready before the end of one, for any start     *)
(* times, in any order, and any durations. That unlock() looks at every    *)
(* other entry only does no harm: it keeps more than it has to.            *)
(***************************************************************************)
THEOREM ChannelNeverOverlaps == Spec => []ChannelScheduleRight
<1>1. (part = "channel" => ChannelInv) => ChannelScheduleRight
  BY DEF ChannelInv, ChannelScheduleRight
<1>2. QED
  BY <1>1, ChannelAlways, PTL DEF Spec
-----------------------------------------------------------------------------
(***************************************************************************)
(* The counters of FlashSim's planes, for every geometry of the device and *)
(* any number of erases.                                                   *)
(***************************************************************************)

\* ProgramAssumption makes the assumptions of the device.
LEMMA DeviceAssumed ==
  /\ NumBlocks \in Nat \ {0} /\ PagesPerBlock \in Nat \ {0}
  /\ PlaneSize \in Nat \ {0} /\ DieSize \in Nat \ {0}
  /\ PackageSize \in Nat \ {0} /\ SsdSize \in Nat \ {0}
  /\ NumBlocks = PlaneSize * DieSize * PackageSize * SsdSize
  /\ BlockErases \in Nat
BY ProgramAssumption
   DEF ProgramAssumption, Device!FlashAssumption, Device!FlashDeviceAssumption

\* The instance counts as the proofs do.
LEMMA DeviceCounts == \A S : Device!Cardinality(S) = Cardinality(S)
BY DEF Device!Cardinality, Cardinality

(***************************************************************************)
(* A number below m * n, and its two digits to the base n.                 *)
(***************************************************************************)
LEMMA TwoDigits ==
  ASSUME NEW m \in Nat \ {0}, NEW n \in Nat \ {0}
  PROVE  /\ m * n \in Nat \ {0}
         /\ \A x \in 0..(m - 1), y \in 0..(n - 1) :
              /\ x * n + y \in 0..(m * n - 1)
              /\ (x * n + y) \div n = x /\ (x * n + y) % n = y
         /\ \A a \in 0..(m * n - 1) : /\ a \div n \in 0..(m - 1)
                                      /\ a % n \in 0..(n - 1)
                                      /\ (a \div n) * n + (a % n) = a
<1>1. m * n \in Nat \ {0}
  OBVIOUS
<1>2. ASSUME NEW x \in 0..(m - 1), NEW y \in 0..(n - 1)
      PROVE  /\ x * n + y \in 0..(m * n - 1)
             /\ (x * n + y) \div n = x /\ (x * n + y) % n = y
  <2>1. x * n \in Nat /\ (m - 1 - x) * n \in Nat
    OBVIOUS
  <2>2. (m - 1 - x) * n = m * n - n - x * n
    OBVIOUS
  <2>3. x * n + y \in 0..(m * n - 1)
    BY <1>1, <2>1, <2>2
  <2>4. (x * n + y) \div n = x /\ (x * n + y) % n = y
    OBVIOUS
  <2>5. QED
    BY <2>3, <2>4
<1>3. ASSUME NEW a \in 0..(m * n - 1)
      PROVE  /\ a \div n \in 0..(m - 1)
             /\ a % n \in 0..(n - 1)
             /\ (a \div n) * n + (a % n) = a
  <2> DEFINE q == a \div n
             r == a % n
  <2>1. a \in Int /\ a >= 0 /\ a < m * n
    BY <1>1
  <2>2. q \in Int /\ r \in 0..(n - 1) /\ a = (n * q) + r
    BY <2>1, DivMod
  <2> HIDE DEF q, r
  <2>3. n * q = q * n
    BY <2>2
  <2>4. q >= 0
    <3>1. SUFFICES ASSUME q <= -1 PROVE FALSE
      BY <2>2
    <3>2. (-1 - q) * n >= 0 /\ (-1 - q) * n = -n - q * n
      BY <2>2, <3>1
    <3>3. QED
      BY <2>1, <2>2, <2>3, <3>2
  <2>5. q <= m - 1
    <3>1. SUFFICES ASSUME q >= m PROVE FALSE
      BY <2>2
    <3>2. (q - m) * n >= 0 /\ (q - m) * n = q * n - m * n
      BY <2>2, <3>1
    <3>3. QED
      BY <2>1, <2>2, <2>3, <3>2
  <2>6. QED
    BY <2>2, <2>3, <2>4, <2>5 DEF q, r
<1>4. QED
  BY <1>1, <1>2, <1>3

\* The linear address of a page, and its block and offset.
LEMMA PageAddresses ==
  /\ \A b \in Device!Block, i \in Device!Offset :
       /\ Device!PageAddr(b, i) \in Device!Addr
       /\ Device!BlockOf(Device!PageAddr(b, i)) = b
       /\ Device!OffsetOf(Device!PageAddr(b, i)) = i
  /\ \A a \in Device!Addr :
       /\ Device!BlockOf(a) \in Device!Block /\ Device!OffsetOf(a) \in Device!Offset
       /\ Device!PageAddr(Device!BlockOf(a), Device!OffsetOf(a)) = a
<1>1. NumBlocks \in Nat \ {0} /\ PagesPerBlock \in Nat \ {0}
  BY DeviceAssumed
<1>2. QED
  BY <1>1, TwoDigits DEF Device!Block, Device!Offset, Device!Addr,
     Device!PageAddr, Device!BlockOf, Device!OffsetOf

\* There are planes, dies and packages with every index in the ssd, and an index of
\* a child in each of them makes the index of the child.
LEMMA Hierarchy ==
  /\ Device!Plane = 0..(DieSize * PackageSize * SsdSize - 1)
  /\ {Device!DieOf(b) : b \in Device!Block} = 0..(PackageSize * SsdSize - 1)
  /\ {Device!PackageOf(b) : b \in Device!Block} = 0..(SsdSize - 1)
  /\ \A b \in Device!Block : Device!PlaneOf(b) \in Device!Plane
<1> DEFINE D == Device!DieBlocks
           K == Device!PackageBlocks
           M == PackageSize * SsdSize
           L == DieSize * PackageSize * SsdSize
<1>1. /\ D \in Nat \ {0} /\ K \in Nat \ {0} /\ L \in Nat \ {0} /\ M \in Nat \ {0}
      /\ NumBlocks = L * PlaneSize /\ NumBlocks = M * D
      /\ NumBlocks = SsdSize * K
  <2>1. D = PlaneSize * DieSize /\ K = PlaneSize * DieSize * PackageSize
    BY DEF Device!DieBlocks, Device!PackageBlocks
  <2>2. D \in Nat \ {0} /\ M \in Nat \ {0} /\ DieSize * PackageSize \in Nat \ {0}
    BY <2>1, DeviceAssumed, TwoDigits
  <2>3. K \in Nat \ {0} /\ L \in Nat \ {0}
    BY <2>1, <2>2, DeviceAssumed, TwoDigits
  <2>4. /\ NumBlocks = L * PlaneSize /\ NumBlocks = M * D
        /\ NumBlocks = SsdSize * K
    BY <2>1, DeviceAssumed
  <2>5. QED
    BY <2>2, <2>3, <2>4
<1> HIDE DEF D, K, M, L
<1>2. ASSUME NEW m \in Nat \ {0}, NEW n \in Nat \ {0}, NumBlocks = m * n
      PROVE  {b \div n : b \in Device!Block} = 0..(m - 1)
  <2>1. \A b \in Device!Block : b \div n \in 0..(m - 1)
    BY <1>2, TwoDigits DEF Device!Block
  <2>2. ASSUME NEW x \in 0..(m - 1)
        PROVE  \E b \in Device!Block : b \div n = x
    <3>1. x * n + 0 \in Device!Block /\ (x * n + 0) \div n = x
      BY <1>2, TwoDigits DEF Device!Block
    <3>2. QED
      BY <3>1
  <2>3. QED
    BY <2>1, <2>2
<1>3. {b \div PlaneSize : b \in Device!Block} = 0..(L - 1)
  BY <1>1, <1>2, DeviceAssumed
<1>4. {b \div D : b \in Device!Block} = 0..(M - 1)
  BY <1>1, <1>2
<1>5. {b \div K : b \in Device!Block} = 0..(SsdSize - 1)
  BY <1>1, <1>2, DeviceAssumed
<1>6. QED
  BY <1>3, <1>4, <1>5
     DEF D, K, M, L, Device!Plane, Device!PlaneOf, Device!DieOf, Device!PackageOf

\* The pages of block b that were written since the last erase.
Used(d, b) == {i \in Device!Offset : d.page[Device!PageAddr(b, i)] # "EMPTY"}

Devices == [page : [Device!Addr -> Device!PageState],
            data : [Device!Addr -> {"x"} \cup {NoData}],
            written : [Device!Block -> 0..PagesPerBlock]]

\* A device whose count of the writes to each block is that of its used pages.
Counted(d) ==
  d \in Devices /\ \A b \in Device!Block : d.written[b] = Cardinality(Used(d, b))

FreeIn(d, p) == {b \in Device!Block : Device!PlaneOf(b) = p /\ Used(d, b) = {}}

LowestBlocks == [plane : [Device!Plane -> 0..(PlaneSize - 1)],
                 die : [{Device!DieOf(b) : b \in Device!Block} -> 0..(DieSize - 1)],
                 package : [{Device!PackageOf(b) : b \in Device!Block}
                              -> 0..(PackageSize - 1)],
                 ssd : 0..(SsdSize - 1)]

OnePlaneOfTwo == PlaneSize <= 2 /\ DieSize = 1 /\ PackageSize = 1 /\ SsdSize = 1

(***************************************************************************)
(* The inductive invariant. What PlaneCountersRight leaves out is that the *)
(* writes counted in a block are those of its used pages, without which    *)
(* the next write could count one too many.                                *)
(***************************************************************************)
DeviceInv ==
  /\ Counted(dev)
  /\ erases_remaining \in [Device!Block -> 0..BlockErases]
  /\ free_blocks = [p \in Device!Plane |-> Cardinality(FreeIn(dev, p))]
  /\ least_worn \in LowestBlocks
  /\ OnePlaneOfTwo => Device!LeastWornIsLeastWorn

\* Block::get_state() is FREE just if no page is used.
LEMMA FreeIsUnused ==
  ASSUME NEW d, NEW b
  PROVE  Device!BlockState(d, b) = "FREE" <=> Used(d, b) = {}
<1>1. Device!PagesIn(d, b, "EMPTY") = Device!Offset <=> Used(d, b) = {}
  BY DEF Device!PagesIn, Used
<1>2. (Device!PagesIn(d, b, "EMPTY") = Device!Offset)
        => Device!BlockState(d, b) = "FREE"
  <2>1. SUFFICES ASSUME Device!PagesIn(d, b, "EMPTY") = Device!Offset
                 PROVE  Device!PagesIn(d, b, "INVALID") # Device!Offset
    BY DEF Device!BlockState
  <2>2. 0 \in Device!Offset
    BY DeviceAssumed DEF Device!Offset
  <2>3. QED
    BY <2>1, <2>2 DEF Device!PagesIn
<1>3. (Device!PagesIn(d, b, "EMPTY") # Device!Offset)
        => Device!BlockState(d, b) # "FREE"
  BY DEF Device!BlockState
<1>4. QED
  BY <1>1, <1>2, <1>3

\* The used pages of a block are finitely many.
LEMMA UsedFinite ==
  ASSUME NEW d, NEW b
  PROVE  /\ IsFiniteSet(Used(d, b)) /\ Cardinality(Used(d, b)) \in 0..PagesPerBlock
         /\ \A i \in Device!Offset \ Used(d, b) :
              Cardinality(Used(d, b)) < PagesPerBlock
<1>1. PagesPerBlock \in Nat \ {0}
  BY DeviceAssumed
<1>2. IsFiniteSet(Device!Offset) /\ Cardinality(Device!Offset) = PagesPerBlock
  BY <1>1, FS_Interval DEF Device!Offset
<1>3. Used(d, b) \in SUBSET Device!Offset
  BY DEF Used
<1>4. /\ IsFiniteSet(Used(d, b)) /\ Cardinality(Used(d, b)) <= PagesPerBlock
      /\ PagesPerBlock = Cardinality(Used(d, b)) => Used(d, b) = Device!Offset
  BY <1>2, <1>3, FS_Subset
<1>5. Cardinality(Used(d, b)) \in Nat
  BY <1>4, FS_CardinalityType
<1>6. QED
  BY <1>1, <1>4, <1>5

\* The free blocks of a plane are no more than its blocks.
LEMMA FreeFinite ==
  ASSUME NEW d, NEW p \in Device!Plane
  PROVE  /\ IsFiniteSet(FreeIn(d, p)) /\ Cardinality(FreeIn(d, p)) \in 0..PlaneSize
<1> DEFINE F == (p * PlaneSize)..(p * PlaneSize + PlaneSize - 1)
<1>1. PlaneSize \in Nat \ {0} /\ p \in Int /\ p * PlaneSize \in Int
  BY DeviceAssumed, Hierarchy
<1>2. IsFiniteSet(F) /\ Cardinality(F) = PlaneSize
  BY <1>1, FS_Interval
<1>3. FreeIn(d, p) \in SUBSET F
  <2>1. ASSUME NEW b \in Device!Block, b \div PlaneSize = p
        PROVE  b \in F
    <3>1. b \in Int
      BY DeviceAssumed DEF Device!Block
    <3>2. b % PlaneSize \in 0..(PlaneSize - 1) /\ b = (PlaneSize * p) + (b % PlaneSize)
      BY <1>1, <2>1, <3>1, DivMod
    <3>3. QED
      BY <1>1, <3>1, <3>2
  <2>2. QED
    BY <2>1 DEF FreeIn, Device!PlaneOf
<1> HIDE DEF F
<1>4. IsFiniteSet(FreeIn(d, p)) /\ Cardinality(FreeIn(d, p)) <= PlaneSize
  BY <1>2, <1>3, FS_Subset
<1>5. QED
  BY <1>1, <1>4, FS_CardinalityType

\* Page::_write() of a page that is not used.
LEMMA WroteFacts ==
  ASSUME NEW d, Counted(d), NEW a \in Device!Addr, d.page[a] = "EMPTY",
         NEW x \in {"x"} \cup {NoData}
  PROVE  LET e == Device!Wrote(d, a, x)
             k == Device!BlockOf(a)
         IN  /\ Counted(e)
             /\ \A b \in Device!Block \ {k} : Used(e, b) = Used(d, b)
             /\ Used(e, k) = Used(d, k) \cup {Device!OffsetOf(a)}
<1> DEFINE e == Device!Wrote(d, a, x)
           k == Device!BlockOf(a)
           i == Device!OffsetOf(a)
<1>1. k \in Device!Block /\ i \in Device!Offset /\ Device!PageAddr(k, i) = a
  BY PageAddresses
<1>2. /\ d \in Devices
      /\ \A b \in Device!Block : d.written[b] = Cardinality(Used(d, b))
  BY DEF Counted
<1>3. /\ e.page = [d.page EXCEPT ![a] = "VALID"]
      /\ e.data = [d.data EXCEPT ![a] = x]
      /\ e.written = [d.written EXCEPT ![k] = @ + 1]
      /\ e = [page |-> e.page, data |-> e.data, written |-> e.written]
  <2>1. /\ d = [page |-> d.page, data |-> d.data, written |-> d.written]
        /\ DOMAIN d = {"page", "data", "written"}
    BY <1>2 DEF Devices
  <2>2. /\ e = [f \in {"page", "data", "written"} |-> e[f]]
        /\ e.page = [d.page EXCEPT ![a] = "VALID"]
        /\ e.data = [d.data EXCEPT ![a] = x]
        /\ e.written = [d.written EXCEPT ![k] = @ + 1]
    BY <2>1 DEF Device!Wrote
  <2> HIDE DEF e
  <2>3. QED
    BY <2>2
<1>4. \A b \in Device!Block, j \in Device!Offset :
        /\ Device!PageAddr(b, j) \in Device!Addr
        /\ Device!PageAddr(b, j) = a <=> b = k /\ j = i
  BY <1>1, PageAddresses
<1>5. \A c \in Device!Addr : e.page[c] = IF c = a THEN "VALID" ELSE d.page[c]
  BY <1>2, <1>3 DEF Devices
<1> HIDE DEF e, k, i
<1>6. \A b \in Device!Block, j \in Device!Offset :
        e.page[Device!PageAddr(b, j)] =
          IF b = k /\ j = i THEN "VALID" ELSE d.page[Device!PageAddr(b, j)]
  BY <1>4, <1>5
<1>7. \A b \in Device!Block \ {k} : Used(e, b) = Used(d, b)
  BY <1>6 DEF Used
<1>8. Used(e, k) = Used(d, k) \cup {i}
  BY <1>1, <1>6 DEF Used
<1>9. i \notin Used(d, k)
  BY <1>1 DEF Used
<1>10. Cardinality(Used(e, k)) = Cardinality(Used(d, k)) + 1
  BY <1>8, <1>9, UsedFinite, FS_AddElement
<1>11. /\ d.page \in [Device!Addr -> Device!PageState]
       /\ d.data \in [Device!Addr -> {"x"} \cup {NoData}]
       /\ d.written \in [Device!Block -> 0..PagesPerBlock]
  BY <1>2 DEF Devices
<1>12. \A b \in Device!Block : e.written[b] = Cardinality(Used(e, b))
  BY <1>2, <1>3, <1>7, <1>10, <1>11
<1>13. e.written \in [Device!Block -> 0..PagesPerBlock]
  <2>1. e.written = [b \in Device!Block |-> e.written[b]]
    BY <1>3, <1>11
  <2>2. \A b \in Device!Block : e.written[b] \in 0..PagesPerBlock
    BY <1>12, UsedFinite
  <2>3. QED
    BY <2>1, <2>2
<1>14. /\ e.page \in [Device!Addr -> Device!PageState]
       /\ e.data \in [Device!Addr -> {"x"} \cup {NoData}]
  BY <1>3, <1>11 DEF Device!PageState
<1>15. e \in Devices
  BY <1>3, <1>13, <1>14 DEF Devices
<1>16. QED
  BY <1>7, <1>8, <1>12, <1>15 DEF Counted, e, k, i

\* Block::invalidate_page() of a page that is used.
LEMMA InvalidatedFacts ==
  ASSUME NEW d, Counted(d), NEW a \in Device!Addr, d.page[a] = "VALID"
  PROVE  LET e == Device!Invalidated(d, a)
         IN  /\ Counted(e)
             /\ \A b \in Device!Block : Used(e, b) = Used(d, b)
             /\ \A c \in Device!Addr \ {a} : e.page[c] = d.page[c]
<1> DEFINE e == Device!Invalidated(d, a)
<1>1. /\ d \in Devices
      /\ \A b \in Device!Block : d.written[b] = Cardinality(Used(d, b))
  BY DEF Counted
<1>2. /\ e.page = [d.page EXCEPT ![a] = "INVALID"]
      /\ e.data = d.data /\ e.written = d.written
      /\ e = [page |-> e.page, data |-> e.data, written |-> e.written]
  BY <1>1 DEF Device!Invalidated, Devices
<1>3. /\ d.page \in [Device!Addr -> Device!PageState]
      /\ d.data \in [Device!Addr -> {"x"} \cup {NoData}]
      /\ d.written \in [Device!Block -> 0..PagesPerBlock]
  BY <1>1 DEF Devices
<1> HIDE DEF e
<1>4. \A c \in Device!Addr : e.page[c] = IF c = a THEN "INVALID" ELSE d.page[c]
  BY <1>2, <1>3
<1>5. \A b \in Device!Block : Used(e, b) = Used(d, b)
  BY <1>4, PageAddresses DEF Used
<1>6. e.page \in [Device!Addr -> Device!PageState]
  BY <1>2, <1>3 DEF Device!PageState
<1>7. e \in Devices
  BY <1>2, <1>3, <1>6 DEF Devices
<1>8. QED
  BY <1>1, <1>2, <1>4, <1>5, <1>7 DEF Counted, e

\* Block::_erase().
LEMMA ErasedFacts ==
  ASSUME NEW d, Counted(d), NEW k \in Device!Block
  PROVE  LET e == Device!Erased(d, k)
         IN  /\ Counted(e) /\ Used(e, k) = {}
             /\ \A b \in Device!Block \ {k} : Used(e, b) = Used(d, b)
<1> DEFINE e == Device!Erased(d, k)
<1>1. /\ d \in Devices
      /\ \A b \in Device!Block : d.written[b] = Cardinality(Used(d, b))
  BY DEF Counted
<1>2. /\ d.page \in [Device!Addr -> Device!PageState]
      /\ d.data \in [Device!Addr -> {"x"} \cup {NoData}]
      /\ d.written \in [Device!Block -> 0..PagesPerBlock]
  BY <1>1 DEF Devices
<1>3. /\ e.page = [a \in Device!Addr |->
                     IF Device!BlockOf(a) = k THEN "EMPTY" ELSE d.page[a]]
      /\ e.data = [a \in Device!Addr |->
                     IF Device!BlockOf(a) = k THEN NoData ELSE d.data[a]]
      /\ e.written = [d.written EXCEPT ![k] = 0]
      /\ e = [page |-> e.page, data |-> e.data, written |-> e.written]
  BY DEF Device!Erased
<1> HIDE DEF e
<1>4. \A b \in Device!Block, j \in Device!Offset :
        e.page[Device!PageAddr(b, j)] =
          IF b = k THEN "EMPTY" ELSE d.page[Device!PageAddr(b, j)]
  BY <1>3, PageAddresses
<1>5. Used(e, k) = {} /\ \A b \in Device!Block \ {k} : Used(e, b) = Used(d, b)
  BY <1>4 DEF Used
<1>6. \A b \in Device!Block : e.written[b] = Cardinality(Used(e, b))
  BY <1>1, <1>2, <1>3, <1>5, FS_EmptySet
<1>7. /\ e.page \in [Device!Addr -> Device!PageState]
      /\ e.data \in [Device!Addr -> {"x"} \cup {NoData}]
  BY <1>2, <1>3 DEF Device!PageState
<1>8. e.written \in [Device!Block -> 0..PagesPerBlock]
  BY <1>2, <1>3, DeviceAssumed
<1>9. e \in Devices
  BY <1>3, <1>7, <1>8 DEF Devices
<1>10. QED
  BY <1>5, <1>6, <1>9 DEF Counted, e

\* An event that uses or frees no block leaves the counts of the planes alone.
LEMMA SameFree ==
  ASSUME NEW d, NEW e,
         \A b \in Device!Block : Used(e, b) = {} <=> Used(d, b) = {}
  PROVE  \A p \in Device!Plane : FreeIn(e, p) = FreeIn(d, p)
BY DEF FreeIn

(***************************************************************************)
(* One step of a write or an erase that moves block k out of, or into, the *)
(* free blocks of its plane.                                               *)
(***************************************************************************)
LEMMA FreeMoves ==
  ASSUME NEW d, NEW e, NEW k \in Device!Block,
         \A b \in Device!Block \ {k} : Used(e, b) = Used(d, b)
  PROVE  /\ (Used(d, k) = {} /\ Used(e, k) # {}) =>
              \A p \in Device!Plane :
                Cardinality(FreeIn(e, p)) =
                  IF p = Device!PlaneOf(k) THEN Cardinality(FreeIn(d, p)) - 1
                                           ELSE Cardinality(FreeIn(d, p))
         /\ (Used(d, k) # {} /\ Used(e, k) = {}) =>
              \A p \in Device!Plane :
                Cardinality(FreeIn(e, p)) =
                  IF p = Device!PlaneOf(k) THEN Cardinality(FreeIn(d, p)) + 1
                                           ELSE Cardinality(FreeIn(d, p))
<1> DEFINE q == Device!PlaneOf(k)
<1>1. q \in Device!Plane
  BY Hierarchy
<1>2. \A p \in Device!Plane \ {q} : FreeIn(e, p) = FreeIn(d, p)
  BY DEF FreeIn
<1>3. ASSUME Used(d, k) = {}, Used(e, k) # {}
      PROVE  Cardinality(FreeIn(e, q)) = Cardinality(FreeIn(d, q)) - 1
  <2>1. FreeIn(e, q) = FreeIn(d, q) \ {k} /\ k \in FreeIn(d, q)
    BY <1>3 DEF FreeIn
  <2>2. QED
    BY <1>1, <2>1, FreeFinite, FS_RemoveElement
<1>4. ASSUME Used(d, k) # {}, Used(e, k) = {}
      PROVE  Cardinality(FreeIn(e, q)) = Cardinality(FreeIn(d, q)) + 1
  <2>1. FreeIn(e, q) = FreeIn(d, q) \cup {k} /\ k \notin FreeIn(d, q)
    BY <1>4 DEF FreeIn
  <2>2. QED
    BY <1>1, <2>1, FreeFinite, FS_AddElement
<1> HIDE DEF q
<1>5. QED
  BY <1>1, <1>2, <1>3, <1>4 DEF q

\* Plane::write() and Plane::replace().
LEMMA DeviceWrites ==
  ASSUME DeviceInv, NEW a \in Device!Addr, Device!Write(a, "x") \/ Device!Replace(a)
  PROVE  DeviceInv'
<1> DEFINE k == Device!BlockOf(a)
<1>1. k \in Device!Block
  BY PageAddresses
<1>2. Counted(dev) /\ erases_remaining' = erases_remaining /\ least_worn' = least_worn
  BY DEF DeviceInv, Device!Write, Device!Replace
<1>3. /\ Counted(dev')
      /\ free_blocks' = [p \in Device!Plane |-> Cardinality(FreeIn(dev', p))]
  <2>1. CASE Device!Write(a, "x")
    <3>1. /\ dev.page[a] = "EMPTY" /\ dev' = Device!Wrote(dev, a, "x")
          /\ free_blocks' = Device!FreeAfterWrite(k)
      BY <2>1 DEF Device!Write
    <3>2. /\ Counted(dev')
          /\ \A b \in Device!Block \ {k} : Used(dev', b) = Used(dev, b)
          /\ Used(dev', k) # {}
      BY <1>2, <3>1, WroteFacts
    <3>3. CASE Used(dev, k) = {}
      <4>1. free_blocks' = [free_blocks EXCEPT ![Device!PlaneOf(k)] = @ - 1]
        BY <3>1, <3>3, FreeIsUnused DEF Device!FreeAfterWrite
      <4> HIDE DEF k
      <4>2. free_blocks = [p \in Device!Plane |-> Cardinality(FreeIn(dev, p))]
        BY DEF DeviceInv
      <4>3. \A p \in Device!Plane :
              Cardinality(FreeIn(dev', p)) =
                IF p = Device!PlaneOf(k) THEN Cardinality(FreeIn(dev, p)) - 1
                                         ELSE Cardinality(FreeIn(dev, p))
        BY <1>1, <3>2, <3>3, FreeMoves
      <4>4. QED
        BY <3>2, <4>1, <4>2, <4>3
    <3>4. CASE Used(dev, k) # {}
      <4>1. free_blocks' = free_blocks
        BY <3>1, <3>4, FreeIsUnused DEF Device!FreeAfterWrite
      <4> HIDE DEF k
      <4>2. \A p \in Device!Plane : FreeIn(dev', p) = FreeIn(dev, p)
        BY <1>1, <3>2, <3>4, SameFree
      <4>3. QED
        BY <3>2, <4>1, <4>2 DEF DeviceInv
    <3>5. QED
      BY <3>3, <3>4
  <2>2. CASE Device!Replace(a)
    <3>1. /\ dev.page[a] = "VALID" /\ dev' = Device!Invalidated(dev, a)
          /\ free_blocks' = free_blocks
      BY <2>2 DEF Device!Replace
    <3>2. Counted(dev') /\ \A b \in Device!Block : Used(dev', b) = Used(dev, b)
      BY <1>2, <3>1, InvalidatedFacts
    <3>3. \A p \in Device!Plane : FreeIn(dev', p) = FreeIn(dev, p)
      BY <3>2, SameFree
    <3>4. QED
      BY <3>1, <3>2, <3>3 DEF DeviceInv
  <2>3. QED
    BY <2>1, <2>2
<1>4. OnePlaneOfTwo => Device!LeastWornIsLeastWorn'
  BY <1>2 DEF DeviceInv, Device!LeastWornIsLeastWorn, Device!get_least_worn
<1>5. QED
  BY <1>2, <1>3, <1>4 DEF DeviceInv

\* Plane::_merge(), which can only be asked to move a page of a block to page 0 of
\* the same block.
LEMMA DeviceMerges ==
  ASSUME DeviceInv, NEW b \in Device!Block, NEW m \in Device!Block, Device!Merge(b, m)
  PROVE  DeviceInv'
<1>1. PICK i \in Device!PagesIn(dev, b, "VALID") :
        dev' = Device!Wrote(Device!Invalidated(dev, Device!PageAddr(b, i)),
                            Device!PageAddr(m, 0), NoData)
  BY DEF Device!Merge
<1> DEFINE s == Device!PageAddr(b, i)
           t == Device!PageAddr(b, 0)
           e == Device!Invalidated(dev, s)
<1>2. /\ m = b /\ 0 \in Device!PagesIn(dev, m, "EMPTY")
      /\ free_blocks' = free_blocks
      /\ erases_remaining' = erases_remaining /\ least_worn' = least_worn
  BY <1>1 DEF Device!Merge, Device!MergeAsserts
<1>3. /\ s \in Device!Addr /\ dev.page[s] = "VALID" /\ i \in Device!Offset
      /\ t \in Device!Addr /\ dev.page[t] = "EMPTY" /\ s # t
      /\ Device!BlockOf(t) = b
  BY <1>1, <1>2, PageAddresses DEF Device!PagesIn
<1>4. dev' = Device!Wrote(e, t, NoData)
  BY <1>1, <1>2
<1>5. i \in Used(dev, b)
  BY <1>3 DEF Used
<1> HIDE DEF s, t
<1>6. /\ Counted(e) /\ e.page[t] = "EMPTY"
      /\ \A c \in Device!Block : Used(e, c) = Used(dev, c)
  BY <1>3, InvalidatedFacts DEF DeviceInv
<1> HIDE DEF e
<1>7. /\ Counted(dev')
      /\ \A c \in Device!Block \ {b} : Used(dev', c) = Used(e, c)
      /\ Used(dev', b) = Used(e, b) \cup {Device!OffsetOf(t)}
  BY <1>3, <1>4, <1>6, WroteFacts
<1>8. \A c \in Device!Block : Used(dev', c) = {} <=> Used(dev, c) = {}
  BY <1>5, <1>6, <1>7
<1>9. \A p \in Device!Plane : FreeIn(dev', p) = FreeIn(dev, p)
  BY <1>8, SameFree
<1>10. OnePlaneOfTwo => Device!LeastWornIsLeastWorn'
  BY <1>2 DEF DeviceInv, Device!LeastWornIsLeastWorn, Device!get_least_worn
<1>11. QED
  BY <1>2, <1>7, <1>9, <1>10 DEF DeviceInv

\* The loop of update_wear_stats() ends with the index of a child.
LEMMA ChildIsOne ==
  ASSUME NEW e, NEW b, NEW stride, NEW n \in Nat \ {0}
  PROVE  Device!LeastWorn(e, b, stride, n) \in 0..(n - 1)
<1> DEFINE left(i) == e[Device!Sibling(b, stride, n, i)]
           better == {i \in 1..(n - 1) : left(i) > left(0)}
           top == n - 1
<1>1. better \in SUBSET (0..top) /\ 0 \in 0..top /\ top \in Nat
  OBVIOUS
<1>2. Device!LeastWorn(e, b, stride, n)
        = IF better = {} THEN 0 ELSE Device!Max(better)
  BY DEF Device!LeastWorn
<1> HIDE DEF better, top
<1>3. ASSUME better # {}
      PROVE  Device!Max(better) \in better
  <2>1. PICK x \in better : \A y \in better : y <= x
    BY <1>1, <1>3, LargestIs
  <2>2. \E z \in better : \A y \in better : z >= y
    BY <1>1, <2>1
  <2>3. QED
    BY <2>2 DEF Device!Max
<1>4. QED
  BY <1>1, <1>2, <1>3 DEF top

(***************************************************************************)
(* get_least_worn() descends to a block, whatever child is marked at each  *)
(* level.                                                                  *)
(***************************************************************************)
LEMMA DescentEnds ==
  least_worn \in LowestBlocks => Device!get_least_worn \in Device!Block
<1> SUFFICES ASSUME least_worn \in LowestBlocks
             PROVE  Device!get_least_worn \in Device!Block
  OBVIOUS
<1> DEFINE k == least_worn.ssd
           d == k * PackageSize + least_worn.package[k]
           p == d * DieSize + least_worn.die[d]
<1>1. k \in 0..(SsdSize - 1) /\ least_worn.package[k] \in 0..(PackageSize - 1)
  BY Hierarchy DEF LowestBlocks
<1>2. d \in 0..(SsdSize * PackageSize - 1)
  BY <1>1, DeviceAssumed, TwoDigits
<1> HIDE DEF d
<1>3. SsdSize * PackageSize = PackageSize * SsdSize
  BY DeviceAssumed
<1>4. least_worn.die[d] \in 0..(DieSize - 1)
  BY <1>2, <1>3, Hierarchy DEF LowestBlocks
<1>5. SsdSize * PackageSize \in Nat \ {0}
  BY DeviceAssumed, TwoDigits
<1>6. p \in 0..(SsdSize * PackageSize * DieSize - 1)
  BY <1>2, <1>4, <1>5, DeviceAssumed, TwoDigits
<1> HIDE DEF p
<1>7. /\ SsdSize * PackageSize * DieSize = DieSize * PackageSize * SsdSize
      /\ SsdSize * PackageSize * DieSize \in Nat \ {0}
  BY <1>5, DeviceAssumed, TwoDigits
<1>8. least_worn.plane[p] \in 0..(PlaneSize - 1)
  BY <1>6, <1>7, Hierarchy DEF LowestBlocks
<1>9. p * PlaneSize + least_worn.plane[p]
        \in 0..(SsdSize * PackageSize * DieSize * PlaneSize - 1)
  BY <1>6, <1>7, <1>8, DeviceAssumed, TwoDigits
<1>10. SsdSize * PackageSize * DieSize * PlaneSize = NumBlocks
  BY DeviceAssumed
<1>11. QED
  BY <1>9, <1>10 DEF Device!get_least_worn, Device!Block, p, d

\* The lowest child of one plane of two blocks has the most erases left.
LEMMA OnePlaneWear ==
  ASSUME OnePlaneOfTwo, NEW e \in [Device!Block -> 0..BlockErases],
         NEW k \in Device!Block, NEW b \in Device!Block
  PROVE  /\ Device!PlaneOf(k) = 0 /\ Device!PlaneWear(e, k) \in Device!Block
         /\ e[b] <= e[Device!PlaneWear(e, k)]
<1>1. PlaneSize \in {1, 2} /\ NumBlocks = PlaneSize
  BY DeviceAssumed DEF OnePlaneOfTwo
<1>2. Device!Block = 0..(PlaneSize - 1)
  BY <1>1 DEF Device!Block
<1>3. \A i \in Device!Block : e[i] \in Int
  BY DeviceAssumed
<1>4. Device!PlaneOf(k) = 0 /\ (k \div 1) % PlaneSize = k
  BY <1>1, <1>2 DEF Device!PlaneOf
<1>5. \A i \in Device!Block : Device!Sibling(k, 1, PlaneSize, i) = i
  BY <1>1, <1>2, <1>4 DEF Device!Sibling
<1> DEFINE left(i) == e[Device!Sibling(k, 1, PlaneSize, i)]
           better == {i \in 1..(PlaneSize - 1) : left(i) > left(0)}
<1>6. better = {i \in 1..(PlaneSize - 1) : e[i] > e[0]}
  BY <1>1, <1>2, <1>5
<1>7. Device!PlaneWear(e, k) = IF better = {} THEN 0 ELSE Device!Max(better)
  BY DEF Device!PlaneWear, Device!LeastWorn
<1> HIDE DEF better
<1>8. CASE PlaneSize = 1
  <2>1. better = {} /\ b = 0
    BY <1>2, <1>6, <1>8
  <2>2. QED
    BY <1>2, <1>3, <1>4, <1>7, <1>8, <2>1
<1>9. CASE PlaneSize = 2 /\ e[1] > e[0]
  <2>1. better = {1}
    BY <1>6, <1>9
  <2>2. Device!Max(better) = 1
    BY <2>1 DEF Device!Max
  <2>3. Device!PlaneWear(e, k) = 1 /\ b \in {0, 1} /\ 1 \in Device!Block
    BY <1>2, <1>7, <1>9, <2>1, <2>2
  <2>4. QED
    BY <1>2, <1>3, <1>4, <1>9, <2>3
<1>10. CASE PlaneSize = 2 /\ ~(e[1] > e[0])
  <2>1. better = {}
    BY <1>6, <1>10
  <2>2. Device!PlaneWear(e, k) = 0 /\ b \in {0, 1}
    BY <1>2, <1>7, <1>10, <2>1
  <2>3. 0 \in Device!Block /\ 1 \in Device!Block
    BY <1>2, <1>10
  <2>4. QED
    BY <1>3, <1>4, <1>10, <2>2, <2>3
<1>11. QED
  BY <1>1, <1>8, <1>9, <1>10

\* update_wear_stats() of the four levels.
LEMMA UpdatedFacts ==
  ASSUME least_worn \in LowestBlocks, NEW e, NEW k \in Device!Block
  PROVE  /\ Device!Updated(least_worn, e, k) \in LowestBlocks
         /\ OnePlaneOfTwo =>
              Device!Updated(least_worn, e, k).plane[0] = Device!PlaneWear(e, k)
<1> DEFINE w == Device!Updated(least_worn, e, k)
           Dies == {Device!DieOf(b) : b \in Device!Block}
           Packages == {Device!PackageOf(b) : b \in Device!Block}
<1>1. /\ Device!PlaneWear(e, k) \in 0..(PlaneSize - 1)
      /\ Device!DieWear(e, k) \in 0..(DieSize - 1)
      /\ Device!PackageWear(e, k) \in 0..(PackageSize - 1)
      /\ Device!SsdWear(e, k) \in 0..(SsdSize - 1)
  BY DeviceAssumed, ChildIsOne
     DEF Device!PlaneWear, Device!DieWear, Device!PackageWear, Device!SsdWear
<1>2. /\ least_worn.plane \in [Device!Plane -> 0..(PlaneSize - 1)]
      /\ least_worn.die \in [Dies -> 0..(DieSize - 1)]
      /\ least_worn.package \in [Packages -> 0..(PackageSize - 1)]
      /\ least_worn = [plane |-> least_worn.plane, die |-> least_worn.die,
                       package |-> least_worn.package, ssd |-> least_worn.ssd]
      /\ DOMAIN least_worn = {"plane", "die", "package", "ssd"}
  BY DEF LowestBlocks
<1>3. /\ w = [f \in {"plane", "die", "package", "ssd"} |-> w[f]]
      /\ w.plane = [least_worn.plane EXCEPT ![Device!PlaneOf(k)] =
                      Device!PlaneWear(e, k)]
      /\ w.die = [least_worn.die EXCEPT ![Device!DieOf(k)] = Device!DieWear(e, k)]
      /\ w.package = [least_worn.package EXCEPT ![Device!PackageOf(k)] =
                        Device!PackageWear(e, k)]
      /\ w.ssd = Device!SsdWear(e, k)
  BY <1>2 DEF Device!Updated
<1> HIDE DEF w, Dies, Packages
<1>4. /\ w.plane \in [Device!Plane -> 0..(PlaneSize - 1)]
      /\ w.die \in [Dies -> 0..(DieSize - 1)]
      /\ w.package \in [Packages -> 0..(PackageSize - 1)]
      /\ w.ssd \in 0..(SsdSize - 1)
  BY <1>1, <1>2, <1>3
<1>5. w = [plane |-> w.plane, die |-> w.die, package |-> w.package, ssd |-> w.ssd]
  BY <1>3
<1>6. w \in LowestBlocks
  BY <1>4, <1>5 DEF LowestBlocks, Dies, Packages
<1>7. OnePlaneOfTwo => w.plane[0] = Device!PlaneWear(e, k)
  <2>1. SUFFICES ASSUME OnePlaneOfTwo PROVE w.plane[0] = Device!PlaneWear(e, k)
    OBVIOUS
  <2>2. Device!PlaneOf(k) = 0
    <3>1. NumBlocks = PlaneSize /\ PlaneSize \in {1, 2}
      BY <2>1, DeviceAssumed DEF OnePlaneOfTwo
    <3>2. QED
      BY <3>1 DEF Device!Block, Device!PlaneOf
  <2>3. 0 \in Device!Plane
    BY <2>2, Hierarchy
  <2>4. QED
    BY <1>2, <1>3, <2>2, <2>3
<1>8. QED
  BY <1>6, <1>7 DEF w

\* erase() of the four levels.
LEMMA DeviceErases ==
  ASSUME DeviceInv, NEW k \in Device!Block, Device!Erase(k)
  PROVE  DeviceInv'
<1> DEFINE e == [erases_remaining EXCEPT ![k] = @ - 1]
<1>1. /\ erases_remaining[k] >= 1 /\ Device!BlockState(dev, k) # "FREE"
      /\ dev' = Device!Erased(dev, k) /\ erases_remaining' = e
      /\ free_blocks' = [free_blocks EXCEPT ![Device!PlaneOf(k)] = @ + 1]
      /\ least_worn' = Device!Updated(least_worn, e, k)
  BY DEF Device!Erase
<1>2. e \in [Device!Block -> 0..BlockErases]
  BY <1>1, DeviceAssumed DEF DeviceInv
<1> HIDE DEF e
<1>3. /\ Counted(dev') /\ Used(dev', k) = {}
      /\ \A b \in Device!Block \ {k} : Used(dev', b) = Used(dev, b)
  BY <1>1, ErasedFacts DEF DeviceInv
<1>4. free_blocks' = [p \in Device!Plane |-> Cardinality(FreeIn(dev', p))]
  <2>1. free_blocks = [p \in Device!Plane |-> Cardinality(FreeIn(dev, p))]
    BY DEF DeviceInv
  <2>2. Used(dev, k) # {}
    BY <1>1, FreeIsUnused
  <2>3. \A p \in Device!Plane :
          Cardinality(FreeIn(dev', p)) =
            IF p = Device!PlaneOf(k) THEN Cardinality(FreeIn(dev, p)) + 1
                                     ELSE Cardinality(FreeIn(dev, p))
    BY <1>3, <2>2, FreeMoves
  <2>4. QED
    BY <1>1, <2>1, <2>3
<1>5. /\ least_worn' \in LowestBlocks
      /\ OnePlaneOfTwo => least_worn'.plane[0] = Device!PlaneWear(e, k)
  BY <1>1, UpdatedFacts DEF DeviceInv
<1>6. OnePlaneOfTwo => Device!LeastWornIsLeastWorn'
  <2>1. SUFFICES ASSUME OnePlaneOfTwo, NEW b \in Device!Block
                 PROVE  e[b] <= e[Device!get_least_worn']
    BY <1>1 DEF Device!LeastWornIsLeastWorn
  <2>2. /\ least_worn'.ssd = 0 /\ least_worn'.package[0] = 0
        /\ least_worn'.die[0] = 0
    <3>1. SsdSize = 1 /\ PackageSize = 1 /\ DieSize = 1
      BY <2>1 DEF OnePlaneOfTwo
    <3>2. /\ {Device!DieOf(c) : c \in Device!Block} = 0..0
          /\ {Device!PackageOf(c) : c \in Device!Block} = 0..0
      BY <3>1, Hierarchy
    <3>3. QED
      BY <1>5, <3>1, <3>2 DEF LowestBlocks
  <2>3. Device!PlaneWear(e, k) \in Device!Block /\ e[b] <= e[Device!PlaneWear(e, k)]
    BY <1>2, <2>1, OnePlaneWear
  <2>4. Device!get_least_worn' = Device!PlaneWear(e, k)
    <3>1. Device!get_least_worn' = 0 * PlaneSize + least_worn'.plane[0]
      BY <2>1, <2>2 DEF Device!get_least_worn, OnePlaneOfTwo
    <3>2. Device!PlaneWear(e, k) \in Int
      BY <2>3, DeviceAssumed DEF Device!Block
    <3>3. QED
      BY <1>5, <2>1, <3>1, <3>2, DeviceAssumed
  <2>5. QED
    BY <2>3, <2>4
<1>7. QED
  BY <1>1, <1>2, <1>3, <1>4, <1>5, <1>6 DEF DeviceInv

\* A new device.
LEMMA DeviceInit == Device!Init => DeviceInv
<1> SUFFICES ASSUME Device!Init PROVE DeviceInv
  OBVIOUS
<1>1. /\ dev = Device!FreshDevice
      /\ erases_remaining = [b \in Device!Block |-> BlockErases]
      /\ free_blocks = [p \in Device!Plane |-> PlaneSize]
  BY DEF Device!Init
<1>2. dev \in Devices /\ \A b \in Device!Block : dev.written[b] = 0
  BY <1>1, DeviceAssumed DEF Device!FreshDevice, Devices, Device!PageState
<1>3. \A b \in Device!Block : Used(dev, b) = {}
  BY <1>1, PageAddresses DEF Device!FreshDevice, Used
<1>4. Counted(dev)
  BY <1>2, <1>3, FS_EmptySet DEF Counted
<1>5. ASSUME NEW p \in Device!Plane
      PROVE  Cardinality(FreeIn(dev, p)) = PlaneSize
  <2> DEFINE F == (p * PlaneSize)..(p * PlaneSize + PlaneSize - 1)
             L == DieSize * PackageSize * SsdSize
  <2>1. /\ PlaneSize \in Nat \ {0} /\ p \in 0..(L - 1) /\ p * PlaneSize \in Int
        /\ L \in Nat \ {0} /\ NumBlocks = L * PlaneSize
    <3>1. DieSize * PackageSize \in Nat \ {0}
      BY DeviceAssumed, TwoDigits
    <3>2. L \in Nat \ {0}
      BY <3>1, DeviceAssumed, TwoDigits
    <3>3. QED
      BY <3>2, DeviceAssumed, Hierarchy
  <2> HIDE DEF L
  <2>2. ASSUME NEW b \in F
        PROVE  b \in Device!Block /\ Device!PlaneOf(b) = p
    <3>1. b = p * PlaneSize + (b - p * PlaneSize)
          /\ b - p * PlaneSize \in 0..(PlaneSize - 1)
      BY <2>1
    <3>2. QED
      BY <2>1, <3>1, TwoDigits DEF Device!Block, Device!PlaneOf
  <2>3. ASSUME NEW b \in Device!Block, Device!PlaneOf(b) = p
        PROVE  b \in F
    <3>1. b \in Int
      BY DeviceAssumed DEF Device!Block
    <3>2. b % PlaneSize \in 0..(PlaneSize - 1) /\ b = (PlaneSize * p) + (b % PlaneSize)
      BY <2>1, <2>3, <3>1, DivMod DEF Device!PlaneOf
    <3>3. QED
      BY <2>1, <3>1, <3>2
  <2> HIDE DEF F
  <2>4. FreeIn(dev, p) = F
    BY <1>3, <2>2, <2>3 DEF FreeIn
  <2>5. QED
    BY <2>1, <2>4, FS_Interval DEF F
<1>6. least_worn \in LowestBlocks
  BY DeviceAssumed DEF Device!Init, LowestBlocks
<1>7. \A b \in Device!Block : erases_remaining[b] = BlockErases
  BY <1>1
<1>8. Device!LeastWornIsLeastWorn
  BY <1>6, <1>7, DescentEnds, DeviceAssumed DEF Device!LeastWornIsLeastWorn
<1>9. erases_remaining \in [Device!Block -> 0..BlockErases]
  BY <1>1, DeviceAssumed
<1>10. QED
  BY <1>1, <1>4, <1>5, <1>6, <1>8, <1>9 DEF DeviceInv

\* The invariant of the program, as far as the device goes.
LEMMA DeviceAlways ==
  /\ Init => (part = "device" => DeviceInv)
  /\ (part = "device" => DeviceInv) /\ [Next]_vars
       => (part = "device" => DeviceInv)'
<1>1. ASSUME Init, part = "device"
      PROVE  DeviceInv
  <2>1. Device!Init
    BY <1>1 DEF Init, InitProgram
  <2>2. QED
    BY <2>1, DeviceInit
<1>2. ASSUME part = "device" => DeviceInv, [Next]_vars, (part = "device")'
      PROVE  DeviceInv'
  <2>1. CASE Next
    <3>1. part' = part
      BY <2>1 DEF Next, ProgramStep
    <3>2. Device!Next
      BY <1>2, <2>1, <3>1
         DEF Next, ProgramStep, ConfigStep, ReaderStep, LoopStep, AnalysisStep,
             ChannelStep, DeviceStep
    <3>3. DeviceInv
      BY <1>2, <3>1
    <3>4. QED
      BY <3>2, <3>3, DeviceWrites, DeviceErases, DeviceMerges DEF Device!Next
  <2>2. CASE UNCHANGED vars
    BY <1>2, <2>2
       DEF vars, deviceVars, DeviceInv, Device!LeastWornIsLeastWorn,
           Device!get_least_worn
  <2>3. QED
    BY <1>2, <2>1, <2>2
<1>3. QED
  BY <1>1, <1>2

(***************************************************************************)
(* A plane's free_blocks is the number of its FREE blocks after any writes,*)
(* replacements, merges and erases, and get_least_worn() is a block, for   *)
(* every geometry; in one plane of up to two blocks it is one with the     *)
(* most erases left. That it is not in a larger device is the finding.     *)
(***************************************************************************)
THEOREM PlanesAlwaysCounted == Spec => []PlaneCountersRight
<1>1. (part = "device" => DeviceInv) => PlaneCountersRight
  <2>1. SUFFICES ASSUME DeviceInv PROVE part = "device" => PlaneCountersRight
    BY DEF PlaneCountersRight
  <2>2. Device!DeviceType(dev, {"x"})
    BY <2>1 DEF DeviceInv, Counted, Devices, Device!DeviceType
  <2>3. free_blocks \in [Device!Plane -> 0..PlaneSize]
    BY <2>1, FreeFinite DEF DeviceInv
  <2>4. Device!TypeOK
    BY <2>1, <2>2, <2>3, DescentEnds DEF DeviceInv, Device!TypeOK
  <2>5. Device!FreeBlocksCounted
    <3>1. ASSUME NEW p \in Device!Plane
          PROVE  FreeIn(dev, p) =
                   {b \in Device!Block :
                      Device!PlaneOf(b) = p /\ Device!BlockState(dev, b) = "FREE"}
      BY FreeIsUnused DEF FreeIn
    <3>2. QED
      BY <2>1, <3>1, DeviceCounts DEF DeviceInv, Device!FreeBlocksCounted
  <2>6. QED
    BY <2>1, <2>4, <2>5 DEF DeviceInv, OnePlaneOfTwo, PlaneCountersRight
<1>2. QED
  BY <1>1, DeviceAlways, PTL DEF Spec
=============================================================================
