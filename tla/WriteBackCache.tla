--------------------------- MODULE WriteBackCache ---------------------------
(***************************************************************************)
(* What every write-back replacement policy promises, whatever it evicts.  *)
(*                                                                         *)
(* `cached' is the set of pages held, `pending' the pages whose last write *)
(* has not reached the DiskSim input trace (the model of the storage), and *)
(* `flushed' the pages that the last access sent there.                    *)
(***************************************************************************)
EXTENDS Integers, FiniteSets

CONSTANTS Page, Capacity

VARIABLES cached, pending, flushed

wbvars == <<cached, pending, flushed>>

WBInit ==
  /\ cached = {}
  /\ pending = {}
  /\ flushed = {}

(***************************************************************************)
(* One access to page k. The policy may flush any pending pages and, on a  *)
(* miss, evict any pages; but k is cached afterwards, nothing else enters, *)
(* a hit evicts nothing, only pending pages are flushed, a page stays      *)
(* pending until it is flushed, and no pending page leaves the cache.      *)
(***************************************************************************)
WBAccess(k, write) ==
  /\ flushed' \subseteq pending
  /\ pending' = (pending \ flushed') \cup (IF write THEN {k} ELSE {})
  /\ cached' \subseteq cached \cup {k}
  /\ k \in cached'
  /\ k \in cached => cached' = cached
  /\ pending' \subseteq cached'
  /\ Cardinality(cached') <= Capacity

WBNext == \E k \in Page, write \in BOOLEAN : WBAccess(k, write)

WBSpec == WBInit /\ [][WBNext]_wbvars
=============================================================================
