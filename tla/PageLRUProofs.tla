---------------------------- MODULE PageLRUProofs ---------------------------
(***************************************************************************)
(* PageLRUCache of lru_stl.h: what one access does, its flush included,    *)
(* for every number of pages, capacity and flush interval. LevelsProofs    *)
(* draws from it what holds of one level and of two.                       *)
(*                                                                         *)
(* The flush goes through the tracker and writes back the run of each page *)
(* that is still dirty. Swept is proved right by an invariant of that      *)
(* loop: what is logged is what is no longer dirty, the pages gone through *)
(* are clean, and no dirty page adjoins a logged one, so that the next run *)
(* is apart from the runs before it. The times need that multiple-         *)
(* FlushTimeGap is one more than the interval of the last access, whoever  *)
(* made it.                                                                *)
(***************************************************************************)
EXTENDS PageLRU, StdContainersProofs

PageLRUAssumption ==
  /\ NumPagesAssumption /\ OpAssumption /\ CapacityAssumption
  /\ TimeAssumption /\ NoWrapAssumption /\ MaxLoggedAssumption

-----------------------------------------------------------------------------
(***************************************************************************)
(* The pages that the flush adds to the statistics.                        *)
(***************************************************************************)
\* f[i] is the length of the first i runs of log.
IsSum(f, log, n) ==
  f = [i \in 0..n |-> IF i = 0 THEN 0 ELSE f[i - 1] + Cardinality(log[i])]

\* There is such a sum, up to any run.
LEMMA SumExists ==
  ASSUME NEW log, NEW n \in Nat
  PROVE  \E f : IsSum(f, log, n)
<1> DEFINE T == {m \in Nat : ~\E f : IsSum(f, log, m)}
<1>1. SUFFICES ASSUME T # {} PROVE FALSE
  OBVIOUS
<1>2. PICK m \in T : \A y \in T : m <= y
  BY <1>1, LeastNatural
<1>3. m \in Nat /\ ~\E f : IsSum(f, log, m)
  OBVIOUS
<1>4. CASE m = 0
  <2> DEFINE f == [i \in 0..0 |-> 0]
  <2>1. f = [i \in 0..0 |-> IF i = 0 THEN 0 ELSE f[i - 1] + Cardinality(log[i])]
    OBVIOUS
  <2>2. QED
    BY <1>3, <1>4, <2>1 DEF IsSum
<1>5. CASE m # 0
  <2>1. m - 1 \in Nat /\ m - 1 \notin T
    BY <1>2, <1>3, <1>5
  <2>2. PICK f : IsSum(f, log, m - 1)
    BY <2>1
  <2>3. /\ f = [i \in 0..(m - 1) |-> IF i = 0 THEN 0
                                     ELSE f[i - 1] + Cardinality(log[i])]
    BY <2>2 DEF IsSum
  <2> DEFINE g == [i \in 0..m |-> IF i = m THEN f[m - 1] + Cardinality(log[m])
                                  ELSE f[i]]
  <2>4. ASSUME NEW i \in 0..m
        PROVE  g[i] = IF i = 0 THEN 0 ELSE g[i - 1] + Cardinality(log[i])
    BY <1>3, <1>5, <2>3
  <2>5. g = [i \in 0..m |-> IF i = 0 THEN 0 ELSE g[i - 1] + Cardinality(log[i])]
    BY <2>4
  <2>6. QED
    BY <1>3, <2>5 DEF IsSum
<1>6. QED
  BY <1>4, <1>5

\* Sums of logs that begin with the same runs agree on those.
LEMMA SumsAgree ==
  ASSUME NEW log1, NEW log2, NEW n1 \in Nat, NEW n2 \in Nat, NEW f1, NEW f2,
         IsSum(f1, log1, n1), IsSum(f2, log2, n2), n1 <= n2,
         \A i \in 1..n1 : log1[i] = log2[i]
  PROVE  \A i \in 0..n1 : f1[i] = f2[i]
<1> DEFINE T == {i \in 0..n1 : f1[i] # f2[i]}
<1>1. SUFFICES ASSUME T # {} PROVE FALSE
  OBVIOUS
<1>2. T \in SUBSET Nat
  OBVIOUS
<1>3. PICK m \in T : \A y \in T : m <= y
  BY <1>1, <1>2, LeastNatural
<1>4. /\ \A i \in 0..n1 : f1[i] = IF i = 0 THEN 0
                                  ELSE f1[i - 1] + Cardinality(log1[i])
      /\ \A i \in 0..n2 : f2[i] = IF i = 0 THEN 0
                                  ELSE f2[i - 1] + Cardinality(log2[i])
  BY DEF IsSum
<1>5. m \in 0..n1 /\ m \in 0..n2 /\ m # 0 /\ m \in Nat
  BY <1>4
<1>6. m - 1 \in 0..n1 /\ m - 1 \notin T /\ m \in 1..n1
  BY <1>3, <1>5
<1>7. f1[m] = f2[m]
  BY <1>4, <1>5, <1>6
<1>8. QED
  BY <1>7

\* The length of a log is the sum of its runs.
LEMMA LoggedLengthIs ==
  ASSUME NEW log, Len(log) \in Nat, NEW f, IsSum(f, log, Len(log))
  PROVE  LoggedLength(log) = f[Len(log)]
<1> DEFINE g == CHOOSE h : IsSum(h, log, Len(log))
<1>1. IsSum(g, log, Len(log))
  OBVIOUS
<1>2. LoggedLength(log) = g[Len(log)]
  BY DEF LoggedLength, IsSum
<1> HIDE DEF g
<1>3. Len(log) \in 0..Len(log) /\ \A i \in 0..Len(log) : g[i] = f[i]
  BY <1>1, SumsAgree
<1>4. QED
  BY <1>2, <1>3

\* It is zero for an empty log, and a run more is as many pages more.
LEMMA LoggedLengthFacts ==
  /\ LoggedLength(<<>>) = 0
  /\ \A S : \A log \in Seq(S) : \A R \in S :
       LoggedLength(Append(log, R)) = LoggedLength(log) + Cardinality(R)
<1>1. LoggedLength(<<>>) = 0
  <2>1. Len(<<>>) = 0 /\ 0 \in Nat
    OBVIOUS
  <2>2. PICK f : IsSum(f, <<>>, 0)
    BY SumExists
  <2>3. f[0] = 0
    BY <2>2 DEF IsSum
  <2>4. QED
    BY <2>1, <2>2, <2>3, LoggedLengthIs
<1>2. ASSUME NEW S, NEW log \in Seq(S), NEW R \in S
      PROVE  LoggedLength(Append(log, R)) = LoggedLength(log) + Cardinality(R)
  <2> DEFINE n == Len(log)
             more == Append(log, R)
  <2>1. /\ n \in Nat /\ n + 1 \in Nat /\ Len(more) = n + 1 /\ more[n + 1] = R
        /\ \A i \in 1..n : log[i] = more[i]
    OBVIOUS
  <2> HIDE DEF n, more
  <2>2. PICK f : IsSum(f, log, n)
    BY <2>1, SumExists
  <2>3. PICK g : IsSum(g, more, n + 1)
    BY <2>1, SumExists
  <2>4. n <= n + 1 /\ n \in 0..n
    BY <2>1
  <2>5. f[n] = g[n]
    BY <2>1, <2>2, <2>3, <2>4, SumsAgree
  <2>6. g[n + 1] = g[n] + Cardinality(R)
    BY <2>1, <2>3 DEF IsSum
  <2>7. LoggedLength(log) = f[n] /\ LoggedLength(more) = g[n + 1]
    BY <2>1, <2>2, <2>3, LoggedLengthIs DEF n
  <2>8. QED
    BY <2>5, <2>6, <2>7 DEF more
<1>3. QED
  BY <1>1, <1>2

-----------------------------------------------------------------------------
(***************************************************************************)
(* The flush.                                                              *)
(***************************************************************************)
Logged(log) == UNION {log[j] : j \in 1..Len(log)}

\* No page in two runs, and no two runs that could be one.
Apart(log) ==
  \A i, j \in 1..Len(log) : \A k \in log[i] :
    {k, (k + 1) % NumPages} \cap log[j] # {} => i = j

\* The table m and the runs logged once the first i pages are gone through.
Sweep(i, m, log) ==
  /\ m \in [Page -> Entry] /\ log \in Seq(SUBSET Page)
  /\ Keys(m) = Cached
  /\ Logged(log) \subseteq Dirty /\ DirtyKeys(m) = Dirty \ Logged(log)
  /\ \A j \in 1..i : m[key_tracker[j]] # "dirty"
  /\ Apart(log)
  /\ \A k \in Logged(log) : /\ m[(k + 1) % NumPages] # "dirty"
                            /\ m[(k - 1) % NumPages] # "dirty"
  /\ IsFiniteSet(Logged(log)) /\ LoggedLength(log) = Cardinality(Logged(log))

\* The pages are the ring of StdContainersProofs, and a page not cached is left.
LEMMA Pages ==
  ASSUME PageLRUAssumption
  PROVE  /\ NumPages \in Nat \ {0} /\ Page = 0..(NumPages - 1)
         /\ Capacity \in Nat /\ 0 < Capacity /\ Capacity < NumPages
BY DEF PageLRUAssumption, NumPagesAssumption, CapacityAssumption, Page

\* The list and the table of a consistent cache, and their sizes.
LEMMA TableFacts ==
  ASSUME PageLRUAssumption, Consistent
  PROVE  /\ key_tracker \in Seq(Page) /\ key_to_value \in [Page -> Entry]
         /\ Linked(key_tracker, key_to_value)
         /\ Len(key_tracker) \in 0..Capacity
         /\ IsFiniteSet(Cached) /\ Cardinality(Cached) = Len(key_tracker)
         /\ IsFiniteSet(Dirty) /\ Dirty \subseteq Cached /\ Cached \subseteq Page
<1>1. /\ key_tracker \in Seq(Page) /\ key_to_value \in [Page -> Entry]
      /\ Linked(key_tracker, key_to_value) /\ Len(key_tracker) <= Capacity
  BY DEF Consistent, TypeOK
<1>2. IsFiniteSet(Cached) /\ Cardinality(Cached) = Len(key_tracker)
  BY <1>1, LinkedSize DEF Cached, MapSize
<1>3. Dirty \subseteq Cached /\ Cached \subseteq Page
  BY <1>1 DEF Dirty, Cached, Keys, DirtyKeys
<1>4. IsFiniteSet(Dirty)
  BY <1>2, <1>3, FS_Subset
<1>5. Len(key_tracker) \in 0..Capacity
  BY <1>1, Pages
<1>6. QED
  BY <1>1, <1>2, <1>3, <1>4, <1>5

\* A log of one run more.
LEMMA LoggedMore ==
  ASSUME NEW S, NEW log \in Seq(S), NEW R \in S
  PROVE  /\ Append(log, R) \in Seq(S)
         /\ Len(Append(log, R)) = Len(log) + 1 /\ Len(log) \in Nat
         /\ Append(log, R)[Len(log) + 1] = R
         /\ \A i \in 1..Len(log) : Append(log, R)[i] = log[i]
         /\ Logged(Append(log, R)) = Logged(log) \cup R
<1> DEFINE more == Append(log, R)
           n == Len(log)
<1>1. /\ more \in Seq(S) /\ Len(more) = n + 1 /\ n \in Nat
      /\ more[n + 1] = R /\ \A i \in 1..n : more[i] = log[i]
  OBVIOUS
<1> HIDE DEF more, n
<1>2. 1..(n + 1) = (1..n) \cup {n + 1}
  BY <1>1
<1>3. {more[j] : j \in 1..(n + 1)} = {log[j] : j \in 1..n} \cup {R}
  BY <1>1, <1>2
<1>4. Logged(more) = Logged(log) \cup R
  BY <1>1, <1>3 DEF Logged, n
<1>5. QED
  BY <1>1, <1>4 DEF more, n

\* The run that the loop finds for a page that is still dirty.
LEMMA SweepRun ==
  ASSUME PageLRUAssumption, Consistent, NEW i, NEW m, NEW log, Sweep(i, m, log),
         NEW k \in Page, m[k] = "dirty"
  PROVE  /\ k \in Run(m, k) /\ Run(m, k) \subseteq Page
         /\ Run(m, k) \subseteq DirtyKeys(m)
         /\ IsFiniteSet(Run(m, k))
         /\ \A q \in Run(m, k) :
              /\ m[(q + 1) % NumPages] = "dirty" => (q + 1) % NumPages \in Run(m, k)
              /\ m[(q - 1) % NumPages] = "dirty" => (q - 1) % NumPages \in Run(m, k)
<1>1. /\ m \in [0..(NumPages - 1) -> Entry] /\ NumPages \in Nat \ {0}
      /\ k \in 0..(NumPages - 1) /\ Page = 0..(NumPages - 1)
  BY Pages DEF Sweep
<1>2. IsFiniteSet(Keys(m)) /\ Cardinality(Keys(m)) < NumPages
  BY Pages, TableFacts DEF Sweep
<1>3. PICK hole \in 0..(NumPages - 1) : m[hole] # "dirty"
  BY <1>1, <1>2, HoleExists
<1>4. DOMAIN m = 0..(NumPages - 1)
  BY <1>1
<1>5. /\ Run(m, k) \subseteq 0..(NumPages - 1) /\ k \in Run(m, k)
      /\ \A q \in Run(m, k) : m[q] = "dirty"
      /\ IsFiniteSet(Run(m, k))
  BY <1>1, <1>3, <1>4, RunFacts
<1>6. Run(m, k) \subseteq DirtyKeys(m)
  BY <1>4, <1>5 DEF DirtyKeys
<1>7. \A q \in Run(m, k) :
        /\ m[(q + 1) % NumPages] = "dirty" => (q + 1) % NumPages \in Run(m, k)
        /\ m[(q - 1) % NumPages] = "dirty" => (q - 1) % NumPages \in Run(m, k)
  BY <1>1, <1>3, <1>4, RunNeighbours
<1>8. QED
  BY <1>1, <1>5, <1>6, <1>7

\* Once the loop has gone through a page that is not dirty, nothing changes.
LEMMA SweepOver ==
  ASSUME NEW i \in Nat \ {0}, NEW m, NEW log, Sweep(i - 1, m, log),
         m[key_tracker[i]] # "dirty"
  PROVE  Sweep(i, m, log)
<1>1. \A j \in 1..i : j \in 1..(i - 1) \/ j = i
  OBVIOUS
<1>2. \A j \in 1..i : m[key_tracker[j]] # "dirty"
  BY <1>1 DEF Sweep
<1>3. QED
  BY <1>2 DEF Sweep

\* Once it has logged the run of one that is, and marked it clean.
LEMMA SweepLog ==
  ASSUME PageLRUAssumption, Consistent, NEW i \in 1..Len(key_tracker),
         NEW m, NEW log, Sweep(i - 1, m, log), m[key_tracker[i]] = "dirty",
         NEW R, R = Run(m, key_tracker[i])
  PROVE  Sweep(i, Cleaned(m, R), Append(log, R))
<1> DEFINE k == key_tracker[i]
           m2 == Cleaned(m, R)
           more == Append(log, R)
           N == NumPages
<1>1. /\ N \in Nat \ {0} /\ Page = 0..(N - 1) /\ k \in Page /\ i \in Nat
  BY Pages, TableFacts
<1>2. /\ m \in [Page -> Entry] /\ log \in Seq(SUBSET Page)
      /\ Keys(m) = Cached /\ Logged(log) \subseteq Dirty
      /\ DirtyKeys(m) = Dirty \ Logged(log)
      /\ \A j \in 1..(i - 1) : m[key_tracker[j]] # "dirty"
      /\ Apart(log)
      /\ \A q \in Logged(log) : m[(q + 1) % N] # "dirty" /\ m[(q - 1) % N] # "dirty"
      /\ IsFiniteSet(Logged(log)) /\ LoggedLength(log) = Cardinality(Logged(log))
  BY DEF Sweep
<1>3. /\ k \in R /\ R \subseteq Page /\ R \subseteq DirtyKeys(m) /\ IsFiniteSet(R)
      /\ \A q \in R : /\ m[(q + 1) % N] = "dirty" => (q + 1) % N \in R
                      /\ m[(q - 1) % N] = "dirty" => (q - 1) % N \in R
  BY <1>1, SweepRun
<1>4. /\ more \in Seq(SUBSET Page) /\ Logged(more) = Logged(log) \cup R
      /\ Len(more) = Len(log) + 1 /\ Len(log) \in Nat /\ more[Len(log) + 1] = R
      /\ \A j \in 1..Len(log) : more[j] = log[j]
  BY <1>2, <1>3, LoggedMore
<1>5. /\ m2 \in [Page -> Entry]
      /\ \A q \in Page : m2[q] = IF q \in R THEN "clean" ELSE m[q]
  BY <1>2 DEF Cleaned, Entry
<1>6. LoggedLength(more) = LoggedLength(log) + Cardinality(R)
  BY <1>2, <1>3, LoggedLengthFacts
<1>7. \A q \in Page : (q + 1) % N \in Page /\ (q - 1) % N \in Page
                      /\ (((q + 1) % N) - 1) % N = q
  BY <1>1, UpAndDown
<1> HIDE DEF m2, more, k, N
<1>8. Keys(m2) = Cached /\ DirtyKeys(m2) = DirtyKeys(m) \ R
  BY <1>2, <1>3, <1>5 DEF Keys, DirtyKeys
<1>9. R \cap Logged(log) = {} /\ R \subseteq Dirty
  BY <1>2, <1>3
<1>10. Logged(more) \subseteq Dirty /\ DirtyKeys(m2) = Dirty \ Logged(more)
  BY <1>2, <1>4, <1>8, <1>9
<1>11. \A q \in Page : m2[q] = "dirty" => m[q] = "dirty" /\ q \notin R
  BY <1>5
<1>12. \A j \in 1..i : m2[key_tracker[j]] # "dirty"
  <2>1. ASSUME NEW j \in 1..i PROVE m2[key_tracker[j]] # "dirty"
    <3>1. key_tracker[j] \in Page
      BY <2>1, TableFacts
    <3>2. CASE j = i
      BY <1>3, <1>11, <3>1, <3>2 DEF k
    <3>3. CASE j \in 1..(i - 1)
      BY <1>2, <1>11, <3>1, <3>3
    <3>4. QED
      BY <1>1, <3>2, <3>3
  <2>2. QED
    BY <2>1
<1>13. Logged(log) \subseteq Page
  BY <1>2, TableFacts
<1>14. \A q \in Logged(more) : m2[(q + 1) % N] # "dirty" /\ m2[(q - 1) % N] # "dirty"
  BY <1>2, <1>3, <1>4, <1>7, <1>11, <1>13
<1>15. Apart(more)
  <2>1. \A j \in 1..Len(log) : log[j] \subseteq Logged(log)
    BY DEF Logged
  <2>2. ASSUME NEW a \in 1..Len(more), NEW b \in 1..Len(more), NEW q \in more[a],
               {q, (q + 1) % N} \cap more[b] # {}
        PROVE  a = b
    <3>1. /\ a \in 1..Len(log) \/ a = Len(log) + 1
          /\ b \in 1..Len(log) \/ b = Len(log) + 1
      BY <1>4
    <3>2. CASE a \in 1..Len(log) /\ b \in 1..Len(log)
      BY <1>2, <1>4, <2>2, <3>2 DEF Apart, N
    <3>3. CASE a \in 1..Len(log) /\ b = Len(log) + 1
      <4>1. q \in Logged(log) /\ {q, (q + 1) % N} \cap R # {}
        BY <1>4, <2>1, <2>2, <3>3
      <4>2. (q + 1) % N \in R /\ m[(q + 1) % N] # "dirty"
        BY <1>2, <1>9, <4>1
      <4>3. QED
        BY <1>3, <4>2 DEF DirtyKeys
    <3>4. CASE a = Len(log) + 1 /\ b \in 1..Len(log)
      <4>1. q \in R /\ {q, (q + 1) % N} \cap Logged(log) # {}
        BY <1>4, <2>1, <2>2, <3>4
      <4>2. (q + 1) % N \in Logged(log) /\ q \in Page
        BY <1>3, <1>9, <4>1
      <4>3. m[(((q + 1) % N) - 1) % N] # "dirty"
        BY <1>2, <4>2
      <4>4. m[q] # "dirty"
        BY <1>7, <4>2, <4>3
      <4>5. QED
        BY <1>3, <4>1, <4>4 DEF DirtyKeys
    <3>5. QED
      BY <3>1, <3>2, <3>3, <3>4
  <2>3. QED
    BY <2>2 DEF Apart, N
<1>16. /\ IsFiniteSet(Logged(more))
       /\ Cardinality(Logged(more)) = Cardinality(Logged(log)) + Cardinality(R)
  <2>1. Cardinality(Logged(log) \cap R) = 0
    BY <1>9, FS_EmptySet
  <2>2. /\ IsFiniteSet(Logged(log) \cup R)
        /\ Cardinality(Logged(log) \cup R)
             = Cardinality(Logged(log)) + Cardinality(R)
                 - Cardinality(Logged(log) \cap R)
    BY <1>2, <1>3, FS_Union
  <2>3. Cardinality(Logged(log)) \in Nat /\ Cardinality(R) \in Nat
    BY <1>2, <1>3, FS_CardinalityType
  <2>4. QED
    BY <1>4, <2>1, <2>2, <2>3
<1>17. QED
  BY <1>2, <1>4, <1>5, <1>6, <1>8, <1>10, <1>12, <1>14, <1>15, <1>16
     DEF Sweep, m2, more, N

\* What the loop does with the page k.
SweepStep(s, k) ==
  IF s.table[k] # "dirty" THEN s
  ELSE [table |-> Cleaned(s.table, Run(s.table, k)),
        log   |-> Append(s.log, Run(s.table, k))]

\* f[i] is the table and the log once the loop has gone through i pages.
Sweeps(f, n) ==
  f = [i \in 0..n |-> IF i = 0 THEN [table |-> key_to_value, log |-> <<>>]
                      ELSE SweepStep(f[i - 1], key_tracker[i])]

\* The loop can be gone through up to any page of the tracker.
LEMMA SweepsExist ==
  ASSUME NEW n \in Nat
  PROVE  \E f : Sweeps(f, n)
<1> DEFINE T == {m \in Nat : ~\E f : Sweeps(f, m)}
<1>1. SUFFICES ASSUME T # {} PROVE FALSE
  OBVIOUS
<1>2. PICK m \in T : \A y \in T : m <= y
  BY <1>1, LeastNatural
<1>3. m \in Nat /\ ~\E f : Sweeps(f, m)
  OBVIOUS
<1> DEFINE start == [table |-> key_to_value, log |-> <<>>]
<1>4. \A f, j : Sweeps(f, j) <=>
        f = [i \in 0..j |-> IF i = 0 THEN start
                            ELSE SweepStep(f[i - 1], key_tracker[i])]
  BY DEF Sweeps
<1> HIDE DEF start
<1>5. CASE m = 0
  <2> DEFINE f == [i \in 0..0 |-> start]
  <2>1. f = [i \in 0..0 |-> IF i = 0 THEN start
                            ELSE SweepStep(f[i - 1], key_tracker[i])]
    OBVIOUS
  <2> HIDE DEF f
  <2>2. Sweeps(f, 0)
    BY <1>4, <2>1
  <2>3. QED
    BY <1>3, <1>5, <2>2
<1>6. CASE m # 0
  <2>1. m - 1 \in Nat /\ m - 1 \notin T
    BY <1>2, <1>3, <1>6
  <2>2. PICK f : Sweeps(f, m - 1)
    BY <2>1
  <2>3. f = [i \in 0..(m - 1) |->
               IF i = 0 THEN start ELSE SweepStep(f[i - 1], key_tracker[i])]
    BY <1>4, <2>2
  <2> DEFINE g == [i \in 0..m |-> IF i = m THEN SweepStep(f[m - 1], key_tracker[m])
                                  ELSE f[i]]
  <2>4. ASSUME NEW i \in 0..m
        PROVE  g[i] = IF i = 0 THEN start ELSE SweepStep(g[i - 1], key_tracker[i])
    BY <1>3, <1>6, <2>3
  <2>5. g = [i \in 0..m |->
               IF i = 0 THEN start ELSE SweepStep(g[i - 1], key_tracker[i])]
    BY <2>4
  <2> HIDE DEF g
  <2>6. Sweeps(g, m)
    BY <1>4, <2>5
  <2>7. QED
    BY <1>3, <2>6
<1>7. QED
  BY <1>5, <1>6

(***************************************************************************)
(* When the loop of the flush ends, every page that was dirty has been     *)
(* logged, once, in runs no two of which could be one, and nothing else    *)
(* has changed.                                                            *)
(***************************************************************************)
LEMMA SweptFacts ==
  ASSUME PageLRUAssumption, Consistent
  PROVE  /\ Swept.table \in [Page -> Entry] /\ Swept.log \in Seq(SUBSET Page)
         /\ Keys(Swept.table) = Cached /\ DirtyKeys(Swept.table) = {}
         /\ Linked(key_tracker, Swept.table)
         /\ Logged(Swept.log) = Dirty /\ Apart(Swept.log)
         /\ LoggedLength(Swept.log) = Cardinality(Dirty)
<1> DEFINE n == Len(key_tracker)
           f == CHOOSE g : Sweeps(g, n)
           start == [table |-> key_to_value, log |-> <<>>]
           Good(i) == Sweep(i, f[i].table, f[i].log)
           T == {i \in 0..n : ~Good(i)}
<1>1. n \in Nat /\ Len(key_tracker) = n
  BY TableFacts
<1>2. Sweeps(f, n)
  BY <1>1, SweepsExist
<1>3. Swept = f[n]
  BY DEF Swept, Sweeps, SweepStep
<1>4. f = [i \in 0..n |-> IF i = 0 THEN start
                          ELSE SweepStep(f[i - 1], key_tracker[i])]
  BY <1>2 DEF Sweeps
<1> HIDE DEF f, n, start
<1>5. Good(0)
  <2>1. f[0] = start
    BY <1>1, <1>4
  <2>2. start.table = key_to_value /\ start.log = <<>>
    BY DEF start
  <2>3. Sweep(0, key_to_value, <<>>)
    <3>1. Logged(<<>>) = {}
      BY DEF Logged
    <3>2. LoggedLength(<<>>) = 0 /\ Cardinality({}) = 0 /\ IsFiniteSet({})
      BY LoggedLengthFacts, FS_EmptySet
    <3>3. key_to_value \in [Page -> Entry] /\ <<>> \in Seq(SUBSET Page) /\ Len(<<>>) = 0
      BY TableFacts
    <3>4. Apart(<<>>)
      BY DEF Apart
    <3>5. /\ Logged(<<>>) \subseteq Dirty /\ Dirty = Dirty \ Logged(<<>>)
          /\ LoggedLength(<<>>) = Cardinality(Logged(<<>>))
          /\ IsFiniteSet(Logged(<<>>))
          /\ \A k \in Logged(<<>>) : /\ key_to_value[(k + 1) % NumPages] # "dirty"
                                     /\ key_to_value[(k - 1) % NumPages] # "dirty"
      BY <3>1, <3>2
    <3>6. \A j \in 1..0 : key_to_value[key_tracker[j]] # "dirty"
      OBVIOUS
    <3>7. QED
      BY <3>3, <3>4, <3>5, <3>6, Zenon DEF Sweep, Cached, Dirty
  <2>4. QED
    BY <2>1, <2>2, <2>3
<1>6. ASSUME NEW i \in 1..n, Good(i - 1) PROVE Good(i)
  <2> DEFINE s == f[i - 1]
             k == key_tracker[i]
             R == Run(s.table, k)
  <2>1. f[i] = SweepStep(s, k) /\ i \in Nat \ {0}
    BY <1>1, <1>4
  <2>2. Sweep(i - 1, s.table, s.log)
    BY <1>6
  <2>3. CASE s.table[k] # "dirty"
    <3>1. Sweep(i, s.table, s.log)
      BY <2>1, <2>2, <2>3, SweepOver
    <3>2. f[i] = s
      BY <2>1, <2>3 DEF SweepStep
    <3>3. QED
      BY <3>1, <3>2
  <2>4. CASE s.table[k] = "dirty"
    <3>1. Sweep(i, Cleaned(s.table, R), Append(s.log, R))
      BY <1>1, <2>2, <2>4, SweepLog
    <3>2. f[i] = [table |-> Cleaned(s.table, R), log |-> Append(s.log, R)]
      BY <2>1, <2>4 DEF SweepStep
    <3>3. f[i].table = Cleaned(s.table, R) /\ f[i].log = Append(s.log, R)
      BY <3>2
    <3>4. QED
      BY <3>1, <3>3
  <2>5. QED
    BY <2>3, <2>4
<1>7. T = {}
  <2> SUFFICES ASSUME T # {} PROVE FALSE
    OBVIOUS
  <2>1. T \in SUBSET Nat
    BY <1>1
  <2>2. PICK i \in T : \A y \in T : i <= y
    BY <2>1, LeastNatural
  <2>3. i \in 1..n /\ i - 1 \in 0..n
    BY <1>1, <1>5
  <2>4. i - 1 \notin T
    BY <2>2, <2>3
  <2>5. Good(i - 1)
    BY <2>3, <2>4
  <2>6. QED
    BY <1>6, <2>3, <2>5
<1>8. Sweep(n, Swept.table, Swept.log)
  <2>1. n \in 0..n
    BY <1>1
  <2>2. QED
    BY <1>3, <1>7, <2>1
<1> HIDE DEF Good, T
<1> DEFINE m == Swept.table
           log == Swept.log
<1>9. /\ m \in [Page -> Entry] /\ log \in Seq(SUBSET Page)
      /\ Keys(m) = Cached /\ Logged(log) \subseteq Dirty
      /\ DirtyKeys(m) = Dirty \ Logged(log)
      /\ \A j \in 1..n : m[key_tracker[j]] # "dirty"
      /\ Apart(log) /\ LoggedLength(log) = Cardinality(Logged(log))
  BY <1>8 DEF Sweep
<1> HIDE DEF m, log
<1>10. Linked(key_tracker, m)
  BY <1>9, TableFacts DEF Linked, Cached
<1>11. \A k \in Dirty : \E j \in 1..n : k = key_tracker[j]
  BY TableFacts DEF Linked, ListSet, Cached, n
<1>12. DirtyKeys(m) = {}
  BY <1>9, <1>11 DEF DirtyKeys
<1>13. Logged(log) = Dirty
  BY <1>9, <1>12
<1>14. QED
  BY <1>9, <1>10, <1>12, <1>13 DEF m, log

-----------------------------------------------------------------------------
(***************************************************************************)
(* The rest of an access, on a table m that holds the pages of the tracker.*)
(***************************************************************************)

\* The entry stored is a present one, and dirty if it was or is written.
LEMMA NewEntryIs ==
  ASSUME NEW op, NEW old
  PROVE  /\ NewEntry(op, old) \in {"clean", "dirty"}
         /\ NewEntry(op, old) = "dirty" <=> op = "WRITE" \/ old = "dirty"
BY DEF NewEntry

\* What an access leaves cached and dirty, and what it evicts.
LookedUp(m, k, op) ==
  /\ key_tracker' \in Seq(Page) /\ key_to_value' \in [Page -> Entry]
  /\ Linked(key_tracker', key_to_value') /\ Len(key_tracker') <= Capacity
  /\ evicted' \subseteq DirtyKeys(m)
  /\ evicted' # {} => evicted' = {key_tracker[1]}
  /\ DirtyKeys(key_to_value')
       = (DirtyKeys(m) \ evicted') \cup (IF op = "WRITE" THEN {k} ELSE {})
  /\ Keys(key_to_value') \subseteq Keys(m) \cup {k} /\ k \in Keys(key_to_value')
  /\ k \in Keys(m) => Keys(key_to_value') = Keys(m)

\* A hit refreshes the page and evicts nothing.
LEMMA HitFacts ==
  ASSUME PageLRUAssumption, Consistent, NEW m \in [Page -> Entry],
         Linked(key_tracker, m), NEW k \in Page, NEW op, Hit(m, k, op)
  PROVE  LookedUp(m, k, op)
<1> DEFINE s == ListRemove(key_tracker, k)
           n == MapErase(m, k)
           e == NewEntry(op, m[k])
           W == IF op = "WRITE" THEN {k} ELSE {}
<1>1. /\ key_tracker \in Seq(Page) /\ Len(key_tracker) \in 0..Capacity
      /\ k \in Keys(m) /\ (k \in DirtyKeys(m) <=> m[k] = "dirty")
  BY TableFacts DEF Hit, Keys, DirtyKeys
<1>2. /\ s \in Seq(Page) /\ n \in [Page -> Entry] /\ Linked(s, n)
      /\ Len(s) = Len(key_tracker) - 1
      /\ Keys(n) = Keys(m) \ {k} /\ DirtyKeys(n) = DirtyKeys(m) \ {k}
  BY <1>1, PurgeFacts
<1>3. e \in {"clean", "dirty"} /\ (e = "dirty" <=> op = "WRITE" \/ m[k] = "dirty")
  BY NewEntryIs
<1>4. key_tracker' = Append(s, k) /\ key_to_value' = MapInsert(n, k, e) /\ evicted' = {}
  BY DEF Hit
<1> HIDE DEF s, n, e
<1>5. k \notin Keys(n)
  BY <1>2
<1>6. /\ key_tracker' \in Seq(Page) /\ key_to_value' \in [Page -> Entry]
      /\ Linked(key_tracker', key_to_value')
      /\ Len(key_tracker') = Len(s) + 1
      /\ Keys(key_to_value') = Keys(n) \cup {k}
      /\ e = "dirty" => DirtyKeys(key_to_value') = DirtyKeys(n) \cup {k}
      /\ e = "clean" => DirtyKeys(key_to_value') = DirtyKeys(n)
  BY <1>2, <1>3, <1>4, <1>5, RecordFacts
<1>7. Len(key_tracker') <= Capacity
  BY <1>1, <1>2, <1>6, Pages
<1>8. Keys(key_to_value') = Keys(m)
  BY <1>1, <1>2, <1>6
<1>9. DirtyKeys(key_to_value') = DirtyKeys(m) \cup W
  BY <1>1, <1>2, <1>3, <1>6
<1>10. QED
  BY <1>1, <1>4, <1>6, <1>7, <1>8, <1>9 DEF LookedUp

\* A miss with room caches the page.
LEMMA InsertFacts ==
  ASSUME PageLRUAssumption, Consistent, NEW m \in [Page -> Entry],
         Linked(key_tracker, m), NEW k \in Page, NEW op, InsertWithRoom(m, k, op)
  PROVE  LookedUp(m, k, op)
<1> DEFINE e == NewEntry(op, "absent")
           W == IF op = "WRITE" THEN {k} ELSE {}
<1>1. /\ key_tracker \in Seq(Page) /\ Len(key_tracker) \in 0..Capacity
      /\ k \notin Keys(m)
  BY TableFacts DEF InsertWithRoom, Keys
<1>2. e \in {"clean", "dirty"} /\ (e = "dirty" <=> op = "WRITE")
  BY NewEntryIs
<1>3. /\ key_tracker' = Append(key_tracker, k)
      /\ key_to_value' = MapInsert(m, k, e) /\ evicted' = {}
  BY DEF InsertWithRoom
<1>4. Len(key_tracker) + 1 <= Capacity
  BY <1>1, Pages, LinkedSize DEF InsertWithRoom
<1> HIDE DEF e
<1>5. /\ key_tracker' \in Seq(Page) /\ key_to_value' \in [Page -> Entry]
      /\ Linked(key_tracker', key_to_value')
      /\ Len(key_tracker') = Len(key_tracker) + 1
      /\ Keys(key_to_value') = Keys(m) \cup {k}
      /\ e = "dirty" => DirtyKeys(key_to_value') = DirtyKeys(m) \cup {k}
      /\ e = "clean" => DirtyKeys(key_to_value') = DirtyKeys(m)
  BY <1>1, <1>2, <1>3, RecordFacts
<1>6. DirtyKeys(key_to_value') = DirtyKeys(m) \cup W
  BY <1>2, <1>5
<1>7. QED
  BY <1>1, <1>3, <1>4, <1>5, <1>6 DEF LookedUp

\* A miss in a full cache puts the page in the place of the LRU page.
LEMMA EvictFacts ==
  ASSUME PageLRUAssumption, Consistent, NEW m \in [Page -> Entry],
         Linked(key_tracker, m), NEW k \in Page, NEW op, EvictInsert(m, k, op)
  PROVE  LookedUp(m, k, op)
<1> DEFINE victim == Head(key_tracker)
           s == ListRemove(key_tracker, victim)
           n == MapErase(m, victim)
           e == NewEntry(op, "absent")
           W == IF op = "WRITE" THEN {k} ELSE {}
<1>1. /\ key_tracker \in Seq(Page) /\ Len(key_tracker) \in 0..Capacity
      /\ k \notin Keys(m)
  BY TableFacts DEF EvictInsert, Keys
<1>2. Len(key_tracker) > 0
  BY <1>1, Pages, LinkedSize DEF EvictInsert
<1>3. victim = key_tracker[1] /\ victim \in Page /\ victim \in Keys(m)
  BY <1>1, <1>2, FrontFacts DEF Linked
<1>4. /\ key_tracker' = Append(s, k) /\ key_to_value' = MapInsert(n, k, e)
      /\ evicted' = {victim} \cap DirtyKeys(m)
  BY DEF EvictInsert
<1> HIDE DEF victim
<1>5. /\ s \in Seq(Page) /\ n \in [Page -> Entry] /\ Linked(s, n)
      /\ Len(s) = Len(key_tracker) - 1
      /\ Keys(n) = Keys(m) \ {victim} /\ DirtyKeys(n) = DirtyKeys(m) \ {victim}
  BY <1>1, <1>3, PurgeFacts
<1>6. e \in {"clean", "dirty"} /\ (e = "dirty" <=> op = "WRITE")
  BY NewEntryIs
<1> HIDE DEF s, n, e
<1>7. k \notin Keys(n)
  BY <1>1, <1>5
<1>8. /\ key_tracker' \in Seq(Page) /\ key_to_value' \in [Page -> Entry]
      /\ Linked(key_tracker', key_to_value')
      /\ Len(key_tracker') = Len(s) + 1
      /\ Keys(key_to_value') = Keys(n) \cup {k}
      /\ e = "dirty" => DirtyKeys(key_to_value') = DirtyKeys(n) \cup {k}
      /\ e = "clean" => DirtyKeys(key_to_value') = DirtyKeys(n)
  BY <1>4, <1>5, <1>6, <1>7, RecordFacts
<1>9. Len(key_tracker') <= Capacity
  BY <1>1, <1>5, <1>8, Pages
<1>10. DirtyKeys(key_to_value') = (DirtyKeys(m) \ evicted') \cup W
  BY <1>4, <1>5, <1>6, <1>8
<1>11. evicted' \subseteq DirtyKeys(m) /\ (evicted' # {} => evicted' = {key_tracker[1]})
  BY <1>3, <1>4
<1>12. QED
  BY <1>1, <1>5, <1>8, <1>9, <1>10, <1>11 DEF LookedUp

\* An access is one of the three.
LEMMA LookUpFacts ==
  ASSUME PageLRUAssumption, Consistent, NEW m \in [Page -> Entry],
         Linked(key_tracker, m), NEW k \in Page, NEW op, LookUp(m, k, op)
  PROVE  LookedUp(m, k, op)
BY HitFacts, InsertFacts, EvictFacts DEF LookUp

-----------------------------------------------------------------------------
(***************************************************************************)
(* The times. Before an access at t, now is the time of the last access of *)
(* any level.                                                              *)
(***************************************************************************)
Times(now) ==
  /\ now \in 0..MaxTime
  /\ multipleFlushTimeGap = Interval(now) + 1
  /\ logTime \in 0..now

\* The quotient by a positive number.
LEMMA Quotient ==
  ASSUME NEW g \in Nat \ {0}, NEW t \in Nat
  PROVE  /\ t \div g \in Nat /\ g * (t \div g) \in Nat
         /\ g * (t \div g) <= t /\ t < g * (t \div g) + g
         /\ t \div g <= g * (t \div g)
<1>1. /\ t \div g \in Int /\ t % g \in 0..(g - 1)
      /\ t = (g * (t \div g)) + (t % g)
  BY DivMod
<1>2. t \div g >= 0
  OBVIOUS
<1> DEFINE q == t \div g
<1> HIDE DEF q
<1>3. q <= g * q /\ g * q \in Nat
  BY <1>1, <1>2 DEF q
<1>4. QED
  BY <1>1, <1>2, <1>3 DEF q

\* A number with these bounds is the quotient.
LEMMA QuotientIs ==
  ASSUME NEW g \in Nat \ {0}, NEW t \in Nat, NEW q \in Int,
         g * q <= t, t < g * q + g
  PROVE  t \div g = q
<1>1. t - g * q \in 0..(g - 1)
  OBVIOUS
<1>2. QED
  BY <1>1

\* Where the flush of an interval is due, and how the multiple moves on.
LEMMA FlushTimes ==
  ASSUME PageLRUAssumption, NEW now, Times(now), NEW t \in now..MaxTime
  PROVE  /\ now < FlushTime
         /\ t >= FlushTime <=> Interval(t) > Interval(now)
         /\ FlushTime \in Nat
         /\ t >= FlushTime => NextMultiple(t) = Interval(t) + 1
         /\ t < FlushTime => Interval(t) = Interval(now)
<1> DEFINE g == flushTimeGap
           q == Interval(now)
           r == Interval(t)
           F == g * q + g
<1>1. /\ g \in Nat \ {0} /\ now \in Nat /\ t \in Nat /\ now <= t /\ t <= MaxTime
      /\ MaxTime \in Nat /\ Word \in Nat /\ MaxTime + g < Word
  BY DEF PageLRUAssumption, TimeAssumption, NoWrapAssumption, Times
<1>2. /\ q \in Nat /\ g * q \in Nat /\ g * q <= now /\ now < g * q + g
      /\ r \in Nat /\ g * r \in Nat /\ g * r <= t /\ t < g * r + g /\ r <= g * r
  BY <1>1, Quotient DEF Interval
<1>3. multipleFlushTimeGap = q + 1
  BY DEF Times
<1> HIDE DEF g, q, r
<1>4. g * multipleFlushTimeGap = F
  BY <1>1, <1>2, <1>3
<1>5. F \in 0..(Word - 1)
  BY <1>1, <1>2
<1>6. FlushTime = F
  BY <1>1, <1>4, <1>5 DEF FlushTime, g
<1>7. t >= F <=> r > q
  <2>1. ASSUME t >= F PROVE r > q
    <3>1. g * q < g * r
      BY <1>1, <1>2, <2>1
    <3>2. QED
      BY <1>1, <1>2, <3>1
  <2>2. ASSUME r > q PROVE t >= F
    <3>1. r >= q + 1
      BY <1>2, <2>2
    <3>2. g * r >= g * (q + 1)
      BY <1>1, <1>2, <3>1
    <3>3. g * (q + 1) = F
      BY <1>1, <1>2
    <3>4. QED
      BY <1>1, <1>2, <3>2, <3>3
  <2>3. QED
    BY <2>1, <2>2
<1>8. ASSUME t >= F PROVE NextMultiple(t) = r + 1
  <2>1. (t - F) \div g = r - q - 1
    <3>1. t - F \in Nat /\ r - q - 1 \in Int
      BY <1>1, <1>2, <1>8
    <3>2. g * (r - q - 1) = g * r - g * q - g
      BY <1>1, <1>2
    <3>3. g * (r - q - 1) <= t - F /\ t - F < g * (r - q - 1) + g
      BY <1>1, <1>2, <3>2
    <3>4. QED
      BY <1>1, <3>1, <3>3, QuotientIs
  <2>2. r + 1 \in 0..(Word - 1)
    BY <1>1, <1>2
  <2>3. multipleFlushTimeGap + (t - F) \div g + 1 = r + 1
    BY <1>2, <1>3, <2>1
  <2>4. NextMultiple(t) = (r + 1) % Word
    BY <1>6, <2>3 DEF NextMultiple, g
  <2>5. QED
    BY <1>1, <2>2, <2>4
<1>9. ASSUME t < F PROVE r = q
  <2>1. r <= q
    BY <1>1, <1>2, <1>7, <1>9
  <2>2. r >= q
    <3>1. SUFFICES ASSUME r + 1 <= q PROVE FALSE
      BY <1>2
    <3>2. g * (r + 1) <= g * q
      BY <1>1, <1>2, <3>1
    <3>3. g * (r + 1) = g * r + g
      BY <1>1, <1>2
    <3>4. QED
      BY <1>1, <1>2, <3>2, <3>3
  <2>3. QED
    BY <1>2, <2>1, <2>2
<1>10. QED
  BY <1>1, <1>2, <1>5, <1>6, <1>7, <1>8, <1>9 DEF q, r, g

-----------------------------------------------------------------------------
(***************************************************************************)
(* A whole access to k at t, if the last one of any level was at now.      *)
(***************************************************************************)

\* What it does to the pages and to the log.
Stepped(now, k, op, t) ==
  /\ key_tracker' \in Seq(Page) /\ key_to_value' \in [Page -> Entry]
  /\ Linked(key_tracker', key_to_value') /\ Len(key_tracker') <= Capacity
  /\ runs' \in Seq(SUBSET Page) /\ Apart(runs') /\ evicted' \subseteq Dirty
  /\ Flushed' \subseteq Dirty
  /\ Dirty' = (Dirty \ Flushed') \cup (IF op = "WRITE" THEN {k} ELSE {})
  /\ Cached' \subseteq Cached \cup {k} /\ k \in Cached'
  /\ k \in Cached => Cached' = Cached
  /\ LoggedLength(runs') \in Nat
  /\ LoggedLength(runs') + Cardinality(evicted') = Cardinality(Flushed')
  /\ multipleFlushTimeGap' = Interval(t) + 1
  /\ runs' # <<>> => FlushTime <= t
  /\ IF Interval(t) > Interval(now)
     THEN Dirty \subseteq Flushed'
     ELSE Flushed' # {} => Flushed' = {key_tracker[1]}

\* What an access has logged.
LEMMA FlushedIs ==
  Flushed' = Logged(runs') \cup evicted'
BY DEF Flushed, Logged

\* An access that finds a flush due logs every dirty page, and evicts none.
LEMMA FlushStep ==
  ASSUME PageLRUAssumption, Consistent, NEW now, Times(now), NEW k \in Page,
         NEW op, NEW t \in now..MaxTime, FlushAndAccess(k, op, t)
  PROVE  Stepped(now, k, op, t)
<1> DEFINE m == Swept.table
           log == Swept.log
<1>1. /\ m \in [Page -> Entry] /\ log \in Seq(SUBSET Page)
      /\ Keys(m) = Cached /\ DirtyKeys(m) = {} /\ Linked(key_tracker, m)
      /\ Logged(log) = Dirty /\ Apart(log)
      /\ LoggedLength(log) = Cardinality(Dirty)
  BY SweptFacts
<1>2. /\ t >= FlushTime /\ runs' = log /\ multipleFlushTimeGap' = NextMultiple(t)
      /\ LookUp(m, k, op)
  BY DEF FlushAndAccess
<1> HIDE DEF m, log
<1>3. LookedUp(m, k, op)
  BY <1>1, <1>2, LookUpFacts
<1>4. evicted' = {}
  BY <1>1, <1>3 DEF LookedUp
<1>5. Flushed' = Dirty
  BY <1>1, <1>2, <1>4, FlushedIs
<1>6. /\ Dirty' = (Dirty \ Flushed') \cup (IF op = "WRITE" THEN {k} ELSE {})
      /\ Cached' \subseteq Cached \cup {k} /\ k \in Cached'
      /\ k \in Cached => Cached' = Cached
  <2>1. /\ DirtyKeys(key_to_value') = {} \cup (IF op = "WRITE" THEN {k} ELSE {})
        /\ Keys(key_to_value') \subseteq Cached \cup {k} /\ k \in Keys(key_to_value')
        /\ k \in Cached => Keys(key_to_value') = Cached
    BY <1>1, <1>3, <1>4 DEF LookedUp
  <2>2. Dirty' = DirtyKeys(key_to_value') /\ Cached' = Keys(key_to_value')
    BY DEF Dirty, Cached
  <2>3. QED
    BY <1>5, <2>1, <2>2
<1>7. /\ LoggedLength(runs') \in Nat
      /\ LoggedLength(runs') + Cardinality(evicted') = Cardinality(Flushed')
  BY <1>1, <1>2, <1>4, <1>5, TableFacts, FS_EmptySet, FS_CardinalityType
<1>8. Interval(t) > Interval(now) /\ multipleFlushTimeGap' = Interval(t) + 1
  BY <1>2, FlushTimes
<1>9. FlushTime <= t
  <2>1. FlushTime \in Nat /\ t \in Int
    BY FlushTimes DEF Times
  <2>2. QED
    BY <1>2, <2>1
<1>10. QED
  BY <1>1, <1>2, <1>3, <1>4, <1>5, <1>6, <1>7, <1>8, <1>9 DEF Stepped, LookedUp

\* Any other access logs at most the page that it evicts.
LEMMA PlainStep ==
  ASSUME PageLRUAssumption, Consistent, NEW now, Times(now), NEW k \in Page,
         NEW op, NEW t \in now..MaxTime, PlainAccess(k, op, t)
  PROVE  Stepped(now, k, op, t)
<1>1. /\ t < FlushTime /\ runs' = <<>>
      /\ multipleFlushTimeGap' = multipleFlushTimeGap
      /\ LookUp(key_to_value, k, op)
  BY DEF PlainAccess
<1>2. LookedUp(key_to_value, k, op)
  BY <1>1, TableFacts, LookUpFacts
<1>3. /\ key_tracker' \in Seq(Page) /\ key_to_value' \in [Page -> Entry]
      /\ Linked(key_tracker', key_to_value') /\ Len(key_tracker') <= Capacity
      /\ evicted' \subseteq Dirty /\ (evicted' # {} => evicted' = {key_tracker[1]})
      /\ Dirty' = (Dirty \ evicted') \cup (IF op = "WRITE" THEN {k} ELSE {})
      /\ Cached' \subseteq Cached \cup {k} /\ k \in Cached'
      /\ k \in Cached => Cached' = Cached
  BY <1>2 DEF LookedUp, Dirty, Cached
<1>4. Logged(<<>>) = {} /\ Apart(<<>>) /\ <<>> \in Seq(SUBSET Page)
  BY DEF Logged, Apart
<1>5. Flushed' = evicted'
  BY <1>1, <1>4, FlushedIs
<1>6. /\ LoggedLength(runs') \in Nat
      /\ LoggedLength(runs') + Cardinality(evicted') = Cardinality(Flushed')
  <2>1. IsFiniteSet(evicted')
    BY <1>3, TableFacts, FS_Subset
  <2>2. Cardinality(evicted') \in Nat
    BY <2>1, FS_CardinalityType
  <2>3. QED
    BY <1>1, <1>5, <2>2, LoggedLengthFacts
<1>7. Interval(t) = Interval(now) /\ multipleFlushTimeGap' = Interval(t) + 1
  BY <1>1, FlushTimes DEF Times
<1>8. Interval(t) \in Int
  BY DEF Interval, PageLRUAssumption, TimeAssumption, Times
<1>9. ~(Interval(t) > Interval(now))
  BY <1>7, <1>8
<1>10. QED
  BY <1>1, <1>3, <1>4, <1>5, <1>6, <1>7, <1>9 DEF Stepped

\* The state between two accesses stays sound, and time goes on.
LEMMA AccessFacts ==
  ASSUME PageLRUAssumption, Consistent, NEW now, Times(now), NEW k \in Page,
         NEW op \in Op, NEW t \in now..MaxTime, access(k, op, t)
  PROVE  /\ Stepped(now, k, op, t)
         /\ Consistent'
         /\ issueTime' = t /\ multipleFlushTimeGap' = Interval(t) + 1
         /\ logTime' \in 0..t /\ logTime' >= logTime
         /\ GroupsAndCounts
         /\ Dirty' \subseteq Cached' /\ Cardinality(Cached') <= Capacity
<1>1. Stepped(now, k, op, t)
  BY FlushStep, PlainStep DEF access
<1>2. /\ issueTime' = t /\ logTime' = LastLogTime(t)
      /\ totalSeqEvictedDirtyPages' = totalSeqEvictedDirtyPages
                          + LoggedLength(runs') + Cardinality(evicted')
  BY DEF access
<1>3. /\ now \in 0..MaxTime /\ t \in 0..MaxTime /\ now <= t
      /\ logTime \in 0..now /\ MaxTime \in Nat
  BY DEF Times, PageLRUAssumption, TimeAssumption
<1>4. logTime' \in 0..t /\ logTime' >= logTime
  <2>1. now < FlushTime /\ FlushTime \in Nat
    BY FlushTimes
  <2>2. runs' # <<>> => FlushTime <= t
    BY <1>1 DEF Stepped
  <2>3. CASE logTime' = t
    BY <1>3, <2>3
  <2>4. CASE logTime' = FlushTime /\ runs' # <<>>
    BY <1>3, <2>1, <2>2, <2>4
  <2>5. CASE logTime' = logTime
    BY <1>3, <2>5
  <2>6. QED
    BY <1>2, <2>3, <2>4, <2>5 DEF LastLogTime
<1>5. /\ IsFiniteSet(evicted') /\ IsFiniteSet(Flushed')
      /\ Cardinality(evicted') \in Nat /\ Cardinality(Flushed') \in Nat
  <2>1. IsFiniteSet(evicted') /\ IsFiniteSet(Flushed')
    BY <1>1, TableFacts, FS_Subset DEF Stepped
  <2>2. QED
    BY <2>1, FS_CardinalityType
<1>6. LoggedLength(runs') \in Nat
  BY <1>1 DEF Stepped
<1>7. totalSeqEvictedDirtyPages' = totalSeqEvictedDirtyPages + Cardinality(Flushed')
  <2>1. LoggedLength(runs') + Cardinality(evicted') = Cardinality(Flushed')
    BY <1>1 DEF Stepped
  <2>2. totalSeqEvictedDirtyPages \in Nat
    BY DEF Consistent, TypeOK
  <2>3. QED
    BY <1>2, <1>5, <1>6, <2>1, <2>2
<1>8. GroupsAndCounts
  <2>1. Apart(runs')
    BY <1>1 DEF Stepped
  <2>2. QED
    BY <1>7, <2>1 DEF GroupsAndCounts, Apart
<1>9. multipleFlushTimeGap' = Interval(t) + 1 /\ Interval(t) + 1 \in 0..(Word - 1)
  <2>1. flushTimeGap \in Nat \ {0} /\ Word \in Nat /\ MaxTime + flushTimeGap < Word
    BY DEF PageLRUAssumption, TimeAssumption, NoWrapAssumption
  <2>2. /\ Interval(t) \in Nat /\ Interval(t) <= flushTimeGap * Interval(t)
        /\ flushTimeGap * Interval(t) <= t /\ flushTimeGap * Interval(t) \in Nat
    BY <1>3, <2>1, Quotient DEF Interval
  <2>3. QED
    BY <1>1, <1>3, <2>1, <2>2 DEF Stepped
<1>10. TypeOK'
  <2>1. /\ totalSeqEvictedDirtyPages' \in Nat
        /\ multipleFlushTimeGap' \in 0..(Word - 1)
    <3>1. totalSeqEvictedDirtyPages \in Nat
      BY DEF Consistent, TypeOK
    <3>2. QED
      BY <1>5, <1>7, <1>9, <3>1
  <2>2. evicted' \in SUBSET Page
    BY <1>1, TableFacts DEF Stepped
  <2>3. logTime' \in 0..MaxTime /\ issueTime' \in 0..MaxTime
    BY <1>2, <1>3, <1>4
  <2>4. QED
    BY <1>1, <2>1, <2>2, <2>3 DEF TypeOK, Stepped
<1>11. Consistent'
  BY <1>1, <1>10 DEF Consistent, Stepped
<1>12. Dirty' \subseteq Cached' /\ Cardinality(Cached') <= Capacity
  <2>1. Dirty' = DirtyKeys(key_to_value') /\ Cached' = Keys(key_to_value')
    BY DEF Dirty, Cached
  <2>2. DirtyKeys(key_to_value') \subseteq Keys(key_to_value')
    BY DEF DirtyKeys, Keys
  <2>3. MapSize(key_to_value') = Len(key_tracker') /\ Len(key_tracker') <= Capacity
    BY <1>1, LinkedSize DEF Stepped
  <2>4. QED
    BY <2>1, <2>2, <2>3 DEF MapSize
<1>13. QED
  BY <1>1, <1>2, <1>4, <1>8, <1>9, <1>11, <1>12

\* An access of another level, which shares everything but the pages held.
LEMMA OtherLevelAccess ==
  ASSUME Consistent, UNCHANGED <<key_tracker, key_to_value, issueTime>>,
         totalSeqEvictedDirtyPages' \in Nat, multipleFlushTimeGap' \in 0..(Word - 1),
         runs' \in Seq(SUBSET Page), evicted' \in SUBSET Page,
         logTime' \in 0..MaxTime
  PROVE  Consistent'
<1>1. TypeOK'
  BY Zenon DEF Consistent, TypeOK
<1>2. QED
  BY <1>1 DEF Consistent

\* The caches are empty and the first flush is due at the first multiple.
LEMMA InitFacts ==
  ASSUME PageLRUAssumption, Init
  PROVE  Consistent /\ Times(0) /\ Cached = {} /\ Dirty = {} /\ Flushed = {}
<1>1. /\ key_tracker = <<>> /\ key_to_value = NoEntries(Page)
      /\ runs = <<>> /\ evicted = {} /\ logTime = 0 /\ issueTime = 0
      /\ multipleFlushTimeGap = 1 /\ totalSeqEvictedDirtyPages = 0
  BY DEF Init
<1>2. /\ flushTimeGap \in Nat \ {0} /\ Word \in Nat /\ MaxTime \in Nat
      /\ flushTimeGap < Word /\ Capacity \in Nat
  BY Pages DEF PageLRUAssumption, TimeAssumption
<1>3. /\ key_to_value \in [Page -> Entry] /\ Cached = {} /\ Dirty = {}
      /\ key_tracker \in Seq(Page) /\ Len(key_tracker) = 0
      /\ Linked(key_tracker, key_to_value)
  BY <1>1 DEF NoEntries, Entry, Cached, Dirty, Keys, DirtyKeys, Linked, ListSet,
              NoDuplicates
<1>4. Flushed = {}
  BY <1>1 DEF Flushed
<1>5. Interval(0) = 0
  BY <1>2 DEF Interval
<1>6. Times(0)
  BY <1>1, <1>2, <1>5 DEF Times
<1>7. TypeOK
  <2>1. /\ multipleFlushTimeGap \in 0..(Word - 1) /\ totalSeqEvictedDirtyPages \in Nat
        /\ logTime \in 0..MaxTime /\ issueTime \in 0..MaxTime
    BY <1>1, <1>2
  <2>2. runs \in Seq(SUBSET Page) /\ evicted \in SUBSET Page
    BY <1>1
  <2>3. QED
    BY <1>3, <2>1, <2>2 DEF TypeOK
<1>8. QED
  BY <1>2, <1>3, <1>4, <1>6, <1>7 DEF Consistent
=============================================================================
