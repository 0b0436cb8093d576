------------------------------ MODULE PageRuns ------------------------------
(***************************************************************************)
(* Runs of consecutive dirty pages, as the loops of the policies that      *)
(* write back whole runs find them.                                        *)
(*                                                                         *)
(* The keys of a page table m are the block numbers 0 to Ring(m) - 1. The  *)
(* code counts in uint64_t, so they form a ring: the page before page 0 is *)
(* the last one.                                                           *)
(***************************************************************************)
EXTENDS StdContainers

Ring(m) == Cardinality(DOMAIN m)      \* 2^64 in the code

DirtyAt(m, k) == m[k % Ring(m)] = "dirty"

\* A slip: the count of the pages after k starts one page late.
AfterOffByOne(m, k) ==
  CHOOSE n \in 0..Ring(m) :
    ~DirtyAt(m, k + 1 + n) /\ \A i \in 0..(n - 1) : DirtyAt(m, k + 1 + i)

\* The first while loop: how many consecutive dirty pages there are from k
\* upwards. It ends because no cache holds every page.
After(m, k) ==
  CHOOSE n \in 0..Ring(m) :
    ~DirtyAt(m, k + n) /\ \A i \in 0..(n - 1) : DirtyAt(m, k + i)

\* A slip: the pages before k are not looked at.
BeforeIgnored(m, k) == 0

\* The second: how many there are from the page before k downwards.
Before(m, k) ==
  CHOOSE n \in 0..Ring(m) :
    ~DirtyAt(m, k - 1 - n) /\ \A i \in 0..(n - 1) : DirtyAt(m, k - 1 - i)

SeqLength(m, k) == After(m, k) + Before(m, k)

\* The seqLength pages from firstSeqFsblknoForBefore + 1 on.
Run(m, k) == {(k - Before(m, k) + z) % Ring(m) : z \in 0..(SeqLength(m, k) - 1)}
-----------------------------------------------------------------------------
\* The reference definition of a run of m: pages with consecutive numbers, all
\* dirty, whichever page it is found from.
IsDirtyRun(m, R) ==
  /\ R # {} /\ \A k \in R : DirtyAt(m, k)
  /\ \E first \in R : \A k \in R : \A i \in 0..((k - first) % Ring(m)) :
       (first + i) % Ring(m) \in R

IsWholeRun(m, R) ==
  /\ IsDirtyRun(m, R)
  /\ \A k \in DirtyKeys(m) \ R : ~IsDirtyRun(m, R \cup {k})
=============================================================================
