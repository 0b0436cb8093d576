----------------------------- MODULE MCPureLRU ------------------------------
(***************************************************************************)
(* PureLRU with a history variable: `recency' lists every page accessed so *)
(* far, once, in the order of its last access.                             *)
(***************************************************************************)
EXTENDS PureLRU

VARIABLE recency

MCInit == Init /\ recency = <<>>

MCNext ==
  \E k \in Page, op \in Op :
    /\ access(k, op)
    /\ recency' = IF aborted' THEN recency ELSE Append(ListRemove(recency, k), k)

MCSpec == MCInit /\ [][MCNext]_<<vars, recency>>

(***************************************************************************)
(* LRU is a stack algorithm: at any time the cache holds exactly the       *)
(* Capacity pages accessed last, in that order, so a larger cache always   *)
(* holds what a smaller one does. A hit that failed to move its page, or a *)
(* victim taken from elsewhere, shows only many accesses later.            *)
(***************************************************************************)
StackProperty ==
  LET n == Len(key_tracker)
      m == Len(recency)
  IN  /\ n = IF m < Capacity THEN m ELSE Capacity
      /\ key_tracker = SubSeq(recency, m - n + 1, m)
=============================================================================
