-------------------------- MODULE SeqLengthAnalysis -------------------------
(***************************************************************************)
(* seq-length-analysis.cpp: the program that RunBenchmark() starts on the  *)
(* log of flushed runs. It counts the lines of the log by the run length   *)
(* each one carries and reports the totals and ten size classes.           *)
(***************************************************************************)
EXTENDS Integers, FiniteSetsExt

CONSTANTS Length,       \* run lengths that the policies may have logged
          ListSize,     \* size of blockNumList, 10000 in the code
          Summed,       \* entries cleared and summed, 1000 in the code
          ClassStarts,  \* least length of each size class, {1, 2, .., 512}
          MaxLines      \* bound: lines of the log

SeqLengthAssumption ==
  /\ Length \subseteq Nat \ {0} /\ IsFiniteSet(Length) /\ MaxLines \in Nat
  /\ {ListSize, Summed} \subseteq Nat \ {0} /\ Summed <= ListSize
  /\ ClassStarts \subseteq Nat \ {0} /\ IsFiniteSet(ClassStarts) /\ 1 \in ClassStarts

VARIABLES stage, blockNumList,
          lines,        \* how many lines have been read
          logged,       \* how often each length is in the part read so far
          report        \* what is written at the end

vars == <<stage, blockNumList, lines, logged, report>>

NoReport == [total |-> 0, pages |-> 0, class |-> [c \in ClassStarts |-> 0]]

\* The loop at the start clears the first part of the list only; what the rest
\* holds is never read, so one value stands for all.
Garbage == 7
Init ==
  /\ stage = "read"
  /\ blockNumList = [j \in 0..(ListSize - 1) |-> IF j < Summed THEN 0 ELSE Garbage]
  /\ lines = 0
  /\ logged = [n \in Length |-> 0]
  /\ report = NoReport

Counted(n) == [blockNumList EXCEPT ![n] = @ + 1]

\* A line of the log. The list is indexed by its length without a test: past
\* its end the program writes to some other part of its stack.
ReadLine ==
  \E n \in Length :
    /\ stage = "read" /\ lines < MaxLines
    /\ lines' = lines + 1
    /\ logged' = [logged EXCEPT ![n] = @ + 1]
    /\ IF n < ListSize THEN blockNumList' = Counted(n) /\ UNCHANGED stage
       ELSE stage' = "corrupt" /\ UNCHANGED blockNumList
    /\ UNCHANGED report

\* substr(45, 50) of a line that breaks off before column 45 throws.
CutLine ==
  /\ stage = "read" /\ lines < MaxLines
  /\ stage' = "terminated"
  /\ UNCHANGED <<blockNumList, lines, logged, report>>

\* A slip: a class takes in the first length of the next one.
InClassWide(c, j) == c <= j /\ \A d \in ClassStarts : c < d => j <= d
\* The class that starts with c ends before the next one, the last one never.
InClass(c, j) == c <= j /\ \A d \in ClassStarts : c < d => j < d

\* A slip: the sum leaves out the first entries, as the classes do length 0.
SummedFromTwo == 2..(Summed - 1)
SummedEntries == 0..(Summed - 1)

SumOver(g, S) == MapThenSumSet(LAMBDA j : g[j], S)

\* The end of the file (or no file): the sums over the first part of the list.
Report ==
  /\ stage = "read"
  /\ stage' = "done"
  /\ report' =
       [total |-> SumOver(blockNumList, SummedEntries),
        pages |-> SumOver([j \in SummedEntries |-> blockNumList[j] * j], SummedEntries),
        class |-> [c \in ClassStarts |->
                     SumOver(blockNumList, {j \in SummedEntries : InClass(c, j)})]]
  /\ UNCHANGED <<blockNumList, lines, logged>>

Next == ReadLine \/ CutLine \/ Report
Spec == Init /\ [][Next]_vars
-----------------------------------------------------------------------------
(***************************************************************************)
(* The variables hold values of their types, and the part of the list that *)
(* is cleared holds no more than the lines that were read.                 *)
(***************************************************************************)
TypeOK ==
  /\ stage \in {"read", "done", "terminated", "corrupt"}
  /\ lines \in 0..MaxLines
  /\ DOMAIN blockNumList = 0..(ListSize - 1)
  /\ \A j \in 0..(Summed - 1) : blockNumList[j] \in 0..lines
  /\ logged \in [Length -> 0..MaxLines]
  /\ report.total \in Nat /\ report.pages \in Nat
  /\ report.class \in [ClassStarts -> Nat]

\* The report is written, and no run was too long to be in the sums.
Done == stage = "done" /\ \A n \in Length : logged[n] # 0 => n < Summed
Pages == SumOver([n \in Length |-> logged[n] * n], Length)

(***************************************************************************)
(* The "total synced page number" of the report is the number of pages of  *)
(* all the runs in the log (seq-length-analysis.cpp:76 and 141), provided  *)
(* that no run is as long as the part of the list that is summed.          *)
(***************************************************************************)
AllPagesReported == Done => report.pages = Pages

(***************************************************************************)
(* Every run of the log is in exactly one size class, so that the          *)
(* percentages printed add up to 100 (seq-length-analysis.cpp:87-126 and   *)
(* 143-152), under the same condition.                                     *)
(***************************************************************************)
ClassesPartition ==
  Done => /\ report.total = lines
          /\ SumOver(report.class, ClassStarts) = lines
=============================================================================
