--------------------------- MODULE StdContainers ---------------------------
(***************************************************************************)
(* The containers of the C++ standard library that the replacement         *)
(* policies keep their pages in, as far as the policies use them.          *)
(*                                                                         *)
(*   list<K>    a sequence of keys, front() first; insert(end(), k) is     *)
(*              Append and pop_front() is Tail.                            *)
(*   map<K, V>  a function on the set of all keys whose value at a key     *)
(*              with no entry is "absent"; a present entry is represented  *)
(*              by the only part of its flags word that any policy reads   *)
(*              back, the DIRTY bit.                                       *)
(***************************************************************************)
EXTENDS Integers, FiniteSets, Sequences

Entry == {"absent", "clean", "dirty"}

NoEntries(K) == [k \in K |-> "absent"]

\* The keys of a map, its size(), and the keys whose entry has DIRTY set.
Keys(m) == {k \in DOMAIN m : m[k] # "absent"}
MapSize(m) == Cardinality(Keys(m))
DirtyKeys(m) == {k \in DOMAIN m : m[k] = "dirty"}

\* map::erase, of one key and of several in turn; map::insert, which keeps
\* the old entry if there is one.
MapErase(m, k) == [m EXCEPT ![k] = "absent"]
MapEraseAll(m, E) == [k \in DOMAIN m |-> IF k \in E THEN "absent" ELSE m[k]]
MapInsert(m, k, e) == IF m[k] = "absent" THEN [m EXCEPT ![k] = e] ELSE m

\* The j-th smallest number of K: the one with j numbers of K up to itself.
Nth(K, j) == CHOOSE i \in K : Cardinality({h \in K : h <= i}) = j

\* list::remove: erase EVERY element in E, keeping the order of the others.
KeptPositions(s, E) == {i \in 1..Len(s) : s[i] \notin E}
ListErase(s, E) == [j \in 1..Cardinality(KeptPositions(s, E)) |->
                      s[Nth(KeptPositions(s, E), j)]]

ListRemove(s, k) == ListErase(s, {k})

ListSet(s) == {s[i] : i \in 1..Len(s)}

NoDuplicates(s) == \A i, j \in 1..Len(s) : s[i] = s[j] => i = j

\* A list and a map describe the same set of keys, each key once.
Linked(s, m) ==
  /\ ListSet(s) = Keys(m)
  /\ NoDuplicates(s)
=============================================================================
