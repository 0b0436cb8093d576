--------------------------- MODULE AccessOrdering ---------------------------
(***************************************************************************)
(* The in-memory trace that RunBenchmark() works off, and AccessOrdering   *)
(* of sharedDS.cpp, the table of the lines at which each page or block is  *)
(* accessed, for the policies that look into the future.                   *)
(*                                                                         *)
(* The trace is a sequence of page requests, several for a line if the     *)
(* line's request is larger than a page; memTrace.front() is trace[pos].   *)
(* hashTable maps a key to its queue of line numbers, <<>> if it has none. *)
(***************************************************************************)
EXTENDS Integers, Sequences, FiniteSets, StdContainers

CONSTANTS Page,             \* fsblkno of the requests, numbers
          ssd2fsblkRatio,   \* pages of a block
          File,             \* the trace files, each a sequence of requests
          INF               \* a line number that no request has

VARIABLES trace, pos

BlockOf(k) == k \div ssd2fsblkRatio
Block == {BlockOf(k) : k \in Page}

\* The requests of a line, as readTrace() expands them: consecutive pages of
\* one block.
Extent(k, n) == k..(k + n - 1)
Request ==
  {r \in [page : Page, size : 1..ssd2fsblkRatio, op : {"READ", "WRITE"}] :
     /\ Extent(r.page, r.size) \subseteq Page
     /\ \A q \in Extent(r.page, r.size) : BlockOf(q) = BlockOf(r.page)}

TraceAssumption ==
  /\ Page \subseteq Nat /\ IsFiniteSet(Page)
  /\ ssd2fsblkRatio \in Nat \ {0} /\ INF \in Nat \ {0}
  /\ \A rs \in File : rs \in Seq(Request) /\ Len(rs) < INF

Atoms(r, line) ==
  [i \in 1..r.size |-> [fsblkno |-> r.page + i - 1, ssdblkno |-> BlockOf(r.page),
                        lineNo |-> line, op |-> r.op]]

Expand(rs) ==
  LET upTo[i \in 0..Len(rs)] == IF i = 0 THEN <<>> ELSE upTo[i - 1] \o Atoms(rs[i], i)
  IN  upTo[Len(rs)]

TraceInit ==
  /\ trace \in {Expand(rs) : rs \in File}
  /\ pos = 1

Finished == pos > Len(trace)
Front == trace[pos]
PopFront == pos' = pos + 1 /\ UNCHANGED trace

\* Whether the request behind the front one is of the same line. Behind the
\* last request there is none, and what the code reads there is left over.
NextIsSameLine ==
  IF pos < Len(trace) THEN {trace[pos + 1].lineNo = Front.lineNo} ELSE BOOLEAN

\* The lines of the requests of each page, or of each block, in the order of
\* the trace.
LinesOf(I) == [j \in 1..Cardinality(I) |-> trace[Nth(I, j)].lineNo]
pageBaseBuild ==
  [k \in Page |-> LinesOf({i \in 1..Len(trace) : trace[i].fsblkno = k})]
blockBaseBuild ==
  [b \in Block |-> LinesOf({i \in 1..Len(trace) : trace[i].ssdblkno = b})]

Least(I) == CHOOSE i \in I : \A j \in I : i <= j

\* nextAccess() pops the lines up to the current one from a copy of the queue
\* and returns the one then at its front, or, if there is none, INF, and then
\* erases the key.
Ahead(q, line) == {j \in 1..Len(q) : q[j] > line}

nextAccess(table, k, line) ==
  IF Ahead(table[k], line) = {} THEN INF ELSE table[k][Least(Ahead(table[k], line))]

AfterNextAccess(table, k, line) ==
  IF Ahead(table[k], line) = {} THEN [table EXCEPT ![k] = <<>>] ELSE table

\* The assert(0) of nextAccess() for a key that is not in the table.
KeyMissing(table, k) == table[k] = <<>>
-----------------------------------------------------------------------------
(* multiset<HeapAtom, CompHeapAtom>: the largest lineNo first, and equal    *)
(* ones in the order of their insertion.                                    *)

HeapInsert(heap, line, k) ==
  LET n == Cardinality({i \in 1..Len(heap) : heap[i].lineNo >= line})
  IN  SubSeq(heap, 1, n) \o <<[lineNo |-> line, key |-> k]>>
        \o SubSeq(heap, n + 1, Len(heap))

HeapErase(heap, i) == SubSeq(heap, 1, i - 1) \o SubSeq(heap, i + 1, Len(heap))

\* The first line, from the front of the trace on, that accesses k.
TrueNext(keyOf(_), k) ==
  LET I == {i \in pos..Len(trace) : keyOf(trace[i]) = k}
  IN  IF I = {} THEN INF ELSE trace[Least(I)].lineNo
=============================================================================
