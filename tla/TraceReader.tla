---------------------------- MODULE TraceReader -----------------------------
(***************************************************************************)
(* readTrace() of main.cpp over the parsers of parser.cpp.                 *)
(*                                                                         *)
(* A line of the trace file is a record of its fields. `form' says how     *)
(* getAndParseMSR() classifies it: "msr" if it contains "Read" or "Write", *)
(* "web" otherwise; the lines of a memory trace are "mem" or "blank".      *)
(* `first' is the first field, the time of an MSR line and the ASU of a    *)
(* WebSearch line; `off' and `bytes' are the extent of the request. One    *)
(* step reads one line; the request object newn is filled in as far as the *)
(* line is parsed before it is skipped.                                    *)
(*                                                                         *)
(* The times of the code are doubles, in milliseconds. Here they are whole *)
(* numbers of 1 / WINDOWS_TICK ms, in which every one of them is exact but *)
(* for the rounding of the doubles.                                        *)
(*                                                                         *)
(* The format and whether only writes are kept come from the               *)
(* configuration, which does not change any more.                          *)
(***************************************************************************)
EXTENDS Integers, Sequences

CONSTANTS Line,                \* the lines a trace may have
          MaxLines,            \* bound on the length of the trace file
          File,                \* the trace files, sequences of lines
          fsblkSize,           \* bytes of a page
          ssd2fsblkRatio,      \* pages of a block
          WINDOWS_TICK,        \* ticks of a second
          SEC_TO_UNIX_EPOCH

ReaderAssumption ==
  /\ MaxLines \in Nat
  /\ Line \subseteq [form : {"msr", "web", "mem", "blank"}, first : Nat, op : STRING,
                    off : Nat, bytes : Nat]
  /\ \A f \in File : f \in [1..Len(f) -> Line] /\ Len(f) \in 0..MaxLines
  /\ fsblkSize \in Nat \ {0} /\ ssd2fsblkRatio \in Nat \ {0}
  /\ WINDOWS_TICK \in Nat \ {0} /\ SEC_TO_UNIX_EPOCH \in Nat

VARIABLES inputTraceFormat,  \* "msr" or "mem"
          writeOnly,
          file,           \* the lines of the trace file
          newlineAtEnd,   \* whether the last of them ends in a newline
          lineno,         \* lines read so far (static)
          baseTime,       \* time of the first line (static)
          newn,           \* the request being parsed
          memTrace,       \* the page requests read so far
          maxLineNo,      \* set at the end of the file
          done

given == <<inputTraceFormat, writeOnly, file, newlineAtEnd>>
vars == <<given, lineno, baseTime, newn, memTrace, maxLineNo, done>>

\* reqAtom::clear().
cleared == [fsblkno |-> 0, ssdblkno |-> 0, reqSize |-> 0, issueTime |-> 0,
            lineNo |-> 0, flags |-> "none"]

\* How the parser of a format classifies lines.
Forms(format) == IF format = "mem" THEN {"mem", "blank"} ELSE {"msr", "web"}

Init ==
  /\ file \in File
  /\ inputTraceFormat \in {"msr", "mem"}
  /\ \A i \in DOMAIN file : file[i].form \in Forms(inputTraceFormat)
  /\ writeOnly \in BOOLEAN /\ newlineAtEnd \in BOOLEAN
  /\ lineno = 0 /\ baseTime = 0
  /\ newn = cleared
  /\ memTrace = <<>>
  /\ maxLineNo = 0
  /\ done = FALSE

\* (ticks / WINDOWS_TICK - SEC_TO_UNIX_EPOCH) * 1000 milliseconds.
WindowsTickToUnixMilliSeconds(ticks) ==
  1000 * (ticks - (WINDOWS_TICK * SEC_TO_UNIX_EPOCH))

\* A WebSearch line's first field, taken as it is for milliseconds.
Milliseconds(number) == WINDOWS_TICK * number

\* getline() sets eof() on the line that the end of the file cuts short, and
\* the parsers drop that line.
LinesRead == IF newlineAtEnd \/ file = <<>> THEN Len(file) ELSE Len(file) - 1

NextLine == file[lineno + 1]
AtLine(form) == ~done /\ lineno < LinesRead /\ NextLine.form = form

\* A slip: a request may reach into the next block.
ReqSizeUnclipped(page, bytes) ==
  IF bytes % fsblkSize = 0 THEN bytes \div fsblkSize ELSE bytes \div fsblkSize + 1

\* The pages of a request: a part of a page counts as a page, and what lies
\* beyond the end of the request's block is cut off.
ReqSize(page, bytes) ==
  LET size == IF bytes % fsblkSize = 0 THEN bytes \div fsblkSize
                                       ELSE bytes \div fsblkSize + 1
      room == ssd2fsblkRatio - (page % ssd2fsblkRatio)
  IN  IF size >= room THEN room ELSE size

\* A slip: every page of the request is the first one.
ExpandedSamePage(n) == [i \in 1..n.reqSize |-> [n EXCEPT !.reqSize = 1]]

\* The REQSIZE loop: one request for each page. ssdblkno is not recomputed.
Expanded(n) ==
  [i \in 1..n.reqSize |-> [n EXCEPT !.reqSize = 1, !.fsblkno = @ + i - 1]]

\* A slip: a read is kept in a write-only run.
KeptAlways(n) == Expanded(n)

\* What readTrace() appends to memTrace for a request that was parsed.
Kept(n) == IF writeOnly /\ n.flags # "WRITE" THEN <<>> ELSE Expanded(n)

Deliver(n) ==
  /\ memTrace' = memTrace \o Kept(n)
  /\ newn' = cleared

\* A slip: every line's time becomes the base time.
BaseTimeEveryLine(time) == time

\* The first line of the file sets the base time, parsed further or not.
BaseTime(time) == IF lineno = 0 THEN time ELSE baseTime

ReadLine ==
  /\ lineno' = lineno + 1
  /\ UNCHANGED <<given, maxLineNo, done>>

\* newn after the time and, if the type is known, the type and the place of
\* an MSR line.
Timed(l) ==
  [newn EXCEPT !.issueTime = WindowsTickToUnixMilliSeconds(l.first) - baseTime']
Placed(n, l, page) ==
  [n EXCEPT !.flags = IF l.op = "Write" THEN "WRITE" ELSE "READ",
            !.fsblkno = page, !.ssdblkno = page \div ssd2fsblkRatio]

\* An MSR line with no time, of another type or of size zero is skipped.
SkipMSR ==
  LET l == NextLine
      page == l.off \div fsblkSize
  IN  /\ AtLine("msr")
      /\ ReadLine
      /\ baseTime' = BaseTime(WindowsTickToUnixMilliSeconds(l.first))
      /\ \/ l.first = 0 /\ UNCHANGED newn
         \/ l.first # 0 /\ l.op \notin {"Read", "Write"} /\ newn' = Timed(l)
         \/ /\ l.first # 0 /\ l.op \in {"Read", "Write"} /\ l.bytes = 0
            /\ newn' = Placed(Timed(l), l, page)
      /\ UNCHANGED memTrace

FetchMSR ==
  LET l == NextLine
      page == l.off \div fsblkSize
  IN  /\ AtLine("msr")
      /\ l.first # 0 /\ l.op \in {"Read", "Write"} /\ l.bytes # 0
      /\ ReadLine
      /\ baseTime' = BaseTime(WindowsTickToUnixMilliSeconds(l.first))
      /\ Deliver([Placed(Timed(l), l, page) EXCEPT
                    !.reqSize = ReqSize(page, l.bytes), !.lineNo = lineno + 1])

\* A WebSearch line is always delivered. One of size zero keeps the reqSize
\* that newn had, and neither its type nor its time is looked at; another type
\* than R or W keeps the flags that newn had.
FetchWebSearch ==
  LET l == NextLine
      n == [newn EXCEPT !.fsblkno = l.off, !.ssdblkno = l.off \div ssd2fsblkRatio,
                        !.lineNo = lineno + 1]
  IN  /\ AtLine("web")
      /\ ReadLine
      /\ \/ l.bytes = 0 /\ Deliver(n) /\ UNCHANGED baseTime
         \/ /\ l.bytes # 0
            /\ baseTime' = BaseTime(Milliseconds(l.first))
            /\ Deliver([n EXCEPT
                 !.reqSize = ReqSize(l.off, l.bytes),
                 !.flags = CASE l.op = "W" -> "WRITE" [] l.op = "R" -> "READ"
                             [] OTHER -> @,
                 !.issueTime = Milliseconds(l.first) - baseTime'])

\* getAndParseMEM(): a page address for each line that is not blank.
FetchMEM ==
  /\ AtLine("mem")
  /\ ReadLine
  /\ Deliver([newn EXCEPT !.fsblkno = NextLine.off, !.ssdblkno = NextLine.off,
                          !.reqSize = 1, !.lineNo = lineno + 1, !.flags = "WRITE"])
  /\ UNCHANGED baseTime

SkipBlank ==
  /\ AtLine("blank")
  /\ ReadLine
  /\ UNCHANGED <<baseTime, newn, memTrace>>

\* A slip: the end of the file is not seen on a line that it cuts short.
EndOfFileAfterNewline ==
  /\ ~done /\ lineno = Len(file)
  /\ maxLineNo' = lineno
  /\ done' = TRUE
  /\ UNCHANGED <<given, lineno, baseTime, newn, memTrace>>

EndOfFile ==
  /\ ~done /\ lineno = LinesRead
  /\ maxLineNo' = lineno
  /\ done' = TRUE
  /\ UNCHANGED <<given, lineno, baseTime, newn, memTrace>>

\* getAndParseTrace() for the format of the configuration.
getAndParseTrace ==
  \/ inputTraceFormat = "msr" /\ (SkipMSR \/ FetchMSR \/ FetchWebSearch)
  \/ inputTraceFormat = "mem" /\ (FetchMEM \/ SkipBlank)
  \/ EndOfFile

Spec == Init /\ [][getAndParseTrace]_vars
-----------------------------------------------------------------------------
Atom == [fsblkno : Nat, ssdblkno : Nat, reqSize : Nat, issueTime : Int,
         lineNo : Nat, flags : {"none", "READ", "WRITE"}]

(***************************************************************************)
(* The variables hold values of their types, and no line number, maxLineNo *)
(* included, is beyond the lines of the file.                              *)
(***************************************************************************)
TypeOK ==
  /\ Len(file) <= MaxLines /\ newlineAtEnd \in BOOLEAN
  /\ inputTraceFormat \in {"msr", "mem"} /\ writeOnly \in BOOLEAN
  /\ lineno \in 0..Len(file) /\ maxLineNo \in 0..Len(file)
  /\ baseTime \in Int
  /\ newn \in Atom
  /\ \A i \in DOMAIN memTrace : memTrace[i] \in Atom
  /\ done \in BOOLEAN

(***************************************************************************)
(* The README's assumption, "a request in the trace access only one block  *)
(* ... all pages blong to the same block", which the parser makes true by  *)
(* cutting requests off: although the expansion counts fsblkno up and      *)
(* leaves ssdblkno alone, every page request names the block its page is   *)
(* in.                                                                     *)
(***************************************************************************)
AtomsInTheirBlock ==
  inputTraceFormat = "msr" =>
    \A i \in DOMAIN memTrace :
      memTrace[i].ssdblkno = memTrace[i].fsblkno \div ssd2fsblkRatio

(***************************************************************************)
(* What the asserts of AccessOrdering::pageBaseBuild() and of the MIN      *)
(* caches take from the trace: line numbers are positive, two requests for *)
(* a page are on different lines, in the order of the file, and no line    *)
(* number is above maxLineNo.                                              *)
(***************************************************************************)
LinesOrderAccesses ==
  /\ \A i \in DOMAIN memTrace :
       /\ memTrace[i].lineNo > 0
       /\ done => memTrace[i].lineNo <= maxLineNo
  /\ \A i, j \in DOMAIN memTrace :
       i < j => /\ memTrace[i].lineNo <= memTrace[j].lineNo
                /\ memTrace[i].fsblkno = memTrace[j].fsblkno
                     => memTrace[i].lineNo < memTrace[j].lineNo

\* The page that a line's request starts in. An MSR line has an offset in bytes;
\* the number in a WebSearch or memory line is taken for the page itself.
FirstPage(l) == IF l.form = "msr" THEN l.off \div fsblkSize ELSE l.off

\* The pages in which the extent of a line has bytes, without those of another
\* block than the first one.
Touched(l) ==
  {p \in (l.off \div fsblkSize)..((l.off + l.bytes - 1) \div fsblkSize) :
     p \div ssd2fsblkRatio = FirstPage(l) \div ssd2fsblkRatio}

\* As many pages as its bytes fill, from the first page on, in the same block.
Requested(l) ==
  IF l.form = "mem" THEN {l.off}
  ELSE {p \in FirstPage(l)..(FirstPage(l) + ((l.bytes - 1) \div fsblkSize)) :
          p \div ssd2fsblkRatio = FirstPage(l) \div ssd2fsblkRatio}

\* An MSR line whose type is not looked at or is not known.
Untyped(l) == l.form = "msr" /\ (l.first = 0 \/ l.op \notin {"Read", "Write"})

\* Line k comes, but for untyped lines, right after a write of size zero.
AfterEmptyWrite(k) ==
  \E j \in 1..(k - 1) :
    /\ file[j].form = "msr" /\ ~Untyped(file[j])
    /\ file[j].op = "Write" /\ file[j].bytes = 0
    /\ \A h \in (j + 1)..(k - 1) : Untyped(file[h])

\* A write, in the words of each format. A WebSearch line of a type that is
\* neither R nor W counts as what the lines skipped before it have left.
IsWrite(k) ==
  CASE file[k].form = "msr" -> file[k].op = "Write"
    [] file[k].form = "web" ->
         file[k].op = "W" \/ (file[k].op # "R" /\ AfterEmptyWrite(k))
    [] OTHER -> TRUE

Wanted(k) ==
  /\ file[k].form # "blank" /\ ~Untyped(file[k])
  /\ file[k].form # "mem" => file[k].bytes # 0
  /\ writeOnly => IsWrite(k)

PagesOf(k) ==
  {memTrace[i].fsblkno : i \in {j \in DOMAIN memTrace : memTrace[j].lineNo = k}}

(***************************************************************************)
(* What becomes of each line between the file and memTrace, for every line *)
(* of every format: at the end, the pages requested for it are as many as  *)
(* its size fills, from its first page on, as far as they are in one       *)
(* block, and none if the line is one to skip or is no write in a          *)
(* write-only run. Of an MSR line these are the pages that its bytes       *)
(* touch, all of them if it starts at a page. The code takes the number of *)
(* pages from the size alone, so of a line that starts inside a page the   *)
(* last page may be missing, but no other, and none is made up.            *)
(***************************************************************************)
RequestsComplete ==
  done => \A k \in 1..LinesRead :
    /\ PagesOf(k) = IF Wanted(k) THEN Requested(file[k]) ELSE {}
    /\ file[k].form = "msr" /\ Wanted(k) =>
         LET l == file[k]
             missing == IF l.off % fsblkSize = 0 THEN {}
                        ELSE {(l.off + l.bytes - 1) \div fsblkSize}
         IN  PagesOf(k) \subseteq Touched(l) /\ Touched(l) \ PagesOf(k) \subseteq missing

(***************************************************************************)
(* parser.cpp: "if it is the first line, denote its time stamp as base     *)
(* time. The following entry's time stamp need to be substracted by base   *)
(* time." Every issue time is the time of its line since that of the first *)
(* line, even if that line is skipped. For a WebSearch line this is the    *)
(* difference of the ASU numbers, which the code takes for times; one of   *)
(* size zero, as the first line, leaves the base at 0.                     *)
(***************************************************************************)
Clock(l) == IF l.form = "msr" THEN WindowsTickToUnixMilliSeconds(l.first)
                              ELSE Milliseconds(l.first)

Base == IF file[1].form = "web" /\ file[1].bytes = 0 THEN 0 ELSE Clock(file[1])

TimesSinceFirstLine ==
  inputTraceFormat = "msr" =>
    \A i \in DOMAIN memTrace :
      memTrace[i].issueTime = Clock(file[memTrace[i].lineNo]) - Base

(***************************************************************************)
(* Whatever lines it skips, the reader reaches the end of the file.        *)
(***************************************************************************)
ReachesEnd == <>(done = TRUE)
=============================================================================
