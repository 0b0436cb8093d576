------------------------ MODULE StdContainersProofs -------------------------
(***************************************************************************)
(* What the container operations do to a list without duplicates and to a  *)
(* map, and what the two loops that find a run of dirty pages compute, for *)
(* every list and map: the facts the policies' proofs rest on.             *)
(*                                                                         *)
(* A run is the one whole run around the page the loops start from,        *)
(* although the block numbers wrap around, if some page is not dirty.      *)
(***************************************************************************)
EXTENDS PageRuns, FiniteSetTheorems, FunctionTheorems, TLAPS

(***************************************************************************)
(* The number of positions up to i, and the number without position p.     *)
(***************************************************************************)
LEMMA CountUpTo ==
  ASSUME NEW i \in Nat
  PROVE  IsFiniteSet(1..i) /\ Cardinality(1..i) = i
BY FS_Interval

\* How many positions of 1..i are left when position p is taken out.
LEMMA CountWithout ==
  ASSUME NEW i \in Nat, NEW p \in Int
  PROVE  Cardinality((1..i) \ {p}) = IF p \in 1..i THEN i - 1 ELSE i
BY CountUpTo, FS_RemoveElement

(***************************************************************************)
(* The j-th position that is left when position p is taken out of 1..n.    *)
(***************************************************************************)
LEMMA NthWithout ==
  ASSUME NEW n \in Nat, NEW p \in 1..n, NEW j \in 1..(n - 1)
  PROVE  Nth((1..n) \ {p}, j) = IF j < p THEN j ELSE j + 1
<1> DEFINE K == (1..n) \ {p}
           R(i) == Cardinality({h \in K : h <= i})
           a == IF j < p THEN j ELSE j + 1
<1>1. ASSUME NEW i \in K
      PROVE  R(i) = IF i < p THEN i ELSE i - 1
  <2>1. {h \in K : h <= i} = (1..i) \ {p}
    OBVIOUS
  <2>2. Cardinality((1..i) \ {p}) = IF i < p THEN i ELSE i - 1
    BY CountWithout
  <2>3. QED
    BY <2>1, <2>2, Zenon
<1>2. a \in K /\ (IF a < p THEN a ELSE a - 1) = j
  OBVIOUS
<1>3. \A i \in K : (IF i < p THEN i ELSE i - 1) = j => i = a
  OBVIOUS
<1> HIDE DEF R, a, K
<1>4. R(a) = j /\ \A i \in K : R(i) = j => i = a
  BY <1>1, <1>2, <1>3
<1>5. (CHOOSE i \in K : R(i) = j) = a
  BY <1>2, <1>4
<1>6. QED
  BY <1>5 DEF Nth, R, a, K

(***************************************************************************)
(* With no position taken out, the j-th position is j.                     *)
(***************************************************************************)
LEMMA NthOfAll ==
  ASSUME NEW n \in Nat, NEW j \in 1..n
  PROVE  Nth(1..n, j) = j
<1> DEFINE R(i) == Cardinality({h \in 1..n : h <= i})
<1>1. ASSUME NEW i \in 1..n
      PROVE  R(i) = i
  <2>1. {h \in 1..n : h <= i} = 1..i
    OBVIOUS
  <2>2. Cardinality(1..i) = i
    BY CountUpTo
  <2>3. QED
    BY <2>1, <2>2, Zenon
<1> HIDE DEF R
<1>2. (CHOOSE i \in 1..n : R(i) = j) = j
  BY <1>1
<1>3. QED
  BY <1>2 DEF Nth, R

(***************************************************************************)
(* list::remove of a key that occurs once, at position p: the elements     *)
(* before p stay and the ones after it move up by one place.               *)
(***************************************************************************)
LEMMA RemoveUnique ==
  ASSUME NEW S, NEW s \in Seq(S), NoDuplicates(s), NEW p \in 1..Len(s)
  PROVE  ListRemove(s, s[p]) =
           [j \in 1..(Len(s) - 1) |-> IF j < p THEN s[j] ELSE s[j + 1]]
<1> DEFINE K == (1..Len(s)) \ {p}
<1>1. KeptPositions(s, {s[p]}) = K
  BY DEF KeptPositions, NoDuplicates
<1>2. Len(s) \in Nat
  OBVIOUS
<1>3. Cardinality(K) = Len(s) - 1
  BY <1>2, CountWithout
<1>4. \A j \in 1..(Len(s) - 1) : Nth(K, j) = IF j < p THEN j ELSE j + 1
  BY <1>2, NthWithout
<1> HIDE DEF K
<1>5. ListRemove(s, s[p]) = [j \in 1..(Len(s) - 1) |-> s[Nth(K, j)]]
  BY <1>1, <1>3 DEF ListRemove, ListErase
<1>6. QED
  BY <1>4, <1>5

(***************************************************************************)
(* list::remove of a key that does not occur leaves the list alone.        *)
(***************************************************************************)
LEMMA RemoveAbsent ==
  ASSUME NEW S, NEW s \in Seq(S), NEW k, k \notin ListSet(s)
  PROVE  ListRemove(s, k) = s
<1>1. KeptPositions(s, {k}) = 1..Len(s)
  BY DEF KeptPositions, ListSet
<1>2. Len(s) \in Nat /\ Cardinality(1..Len(s)) = Len(s)
  <2>1. Len(s) \in Nat
    OBVIOUS
  <2>2. QED
    BY <2>1, CountUpTo
<1>3. \A j \in 1..Len(s) : Nth(1..Len(s), j) = j
  BY <1>2, NthOfAll
<1>4. ListRemove(s, k) = [j \in 1..Len(s) |-> s[Nth(1..Len(s), j)]]
  BY <1>1, <1>2 DEF ListRemove, ListErase
<1>5. ListRemove(s, k) = [j \in 1..Len(s) |-> s[j]]
  BY <1>3, <1>4
<1>6. QED
  BY <1>5

(***************************************************************************)
(* Appending a key and then removing it is the same as removing it.        *)
(***************************************************************************)
LEMMA RemoveAppended ==
  ASSUME NEW S, NEW s \in Seq(S), NEW k \in S, NoDuplicates(s)
  PROVE  ListRemove(Append(s, k), k) = ListRemove(s, k)
<1> DEFINE a == Append(s, k)
           K == KeptPositions(s, {k})
<1>1. /\ Len(a) = Len(s) + 1
      /\ a[Len(s) + 1] = k
      /\ \A i \in 1..Len(s) : a[i] = s[i]
      /\ Len(s) \in Nat
  OBVIOUS
<1>2. KeptPositions(a, {k}) = K /\ \A i \in K : a[i] = s[i]
  <2> HIDE DEF a
  <2> QED  BY <1>1 DEF KeptPositions
<1>3. \A j \in 1..Cardinality(K) : Nth(K, j) \in K
  <2>1. CASE k \notin ListSet(s)
    <3>1. K = 1..Len(s)
      BY <2>1 DEF KeptPositions, ListSet
    <3>2. QED
      BY <1>1, <3>1, CountUpTo, NthOfAll
  <2>2. CASE k \in ListSet(s)
    <3>1. PICK p \in 1..Len(s) : s[p] = k
      BY <2>2 DEF ListSet
    <3>2. K = (1..Len(s)) \ {p}
      BY <3>1 DEF KeptPositions, NoDuplicates
    <3> DEFINE n == Len(s)
    <3>3. n \in Nat /\ p \in 1..n /\ K = (1..n) \ {p}
      BY <1>1, <3>2
    <3> HIDE DEF K, n
    <3>4. Cardinality(K) = n - 1
      BY <3>3, CountWithout
    <3>5. \A j \in 1..(n - 1) : Nth(K, j) = IF j < p THEN j ELSE j + 1
      BY <3>3, NthWithout
    <3>6. \A j \in 1..(n - 1) : Nth(K, j) \in K
      <4>1. \A j \in 1..(n - 1) : (IF j < p THEN j ELSE j + 1) \in (1..n) \ {p}
        BY <3>3
      <4>2. QED
        BY <3>3, <3>5, <4>1, Zenon
    <3>7. QED
      BY <3>4, <3>6
  <2>3. QED
    BY <2>1, <2>2
<1> HIDE DEF a, K
<1>4. [j \in 1..Cardinality(K) |-> a[Nth(K, j)]]
        = [j \in 1..Cardinality(K) |-> s[Nth(K, j)]]
  BY <1>2, <1>3
<1>5. ListRemove(a, k) = [j \in 1..Cardinality(K) |-> a[Nth(K, j)]]
  BY <1>2 DEF ListRemove, ListErase
<1>6. QED
  BY <1>4, <1>5 DEF ListRemove, ListErase, K, a

(***************************************************************************)
(* list::remove of a key of a list without duplicates, as the policies     *)
(* need it: one element fewer, the key gone and the others still there.    *)
(***************************************************************************)
LEMMA RemoveFacts ==
  ASSUME NEW S, NEW s \in Seq(S), NoDuplicates(s), NEW k \in ListSet(s)
  PROVE  /\ ListRemove(s, k) \in Seq(S)
         /\ Len(ListRemove(s, k)) = Len(s) - 1
         /\ ListSet(ListRemove(s, k)) = ListSet(s) \ {k}
         /\ NoDuplicates(ListRemove(s, k))
<1>1. PICK p \in 1..Len(s) : s[p] = k
  BY DEF ListSet
<1> DEFINE n == Len(s)
           r == ListRemove(s, k)
           g == [j \in 1..(n - 1) |-> IF j < p THEN s[j] ELSE s[j + 1]]
<1>2. r = g
  BY <1>1, RemoveUnique
<1>3. n \in Nat /\ n - 1 \in Nat /\ p \in 1..n /\ s \in [1..n -> S]
  BY <1>1
<1> HIDE DEF r, n
<1>4. g \in Seq(S) /\ Len(g) = n - 1
  BY <1>3
<1>5. \A j \in 1..(n - 1) : g[j] = IF j < p THEN s[j] ELSE s[j + 1]
  OBVIOUS
<1> HIDE DEF g
<1>6. \A i, j \in 1..n : s[i] = s[j] => i = j
  BY DEF NoDuplicates, n
<1>7. NoDuplicates(g)
  BY <1>3, <1>4, <1>5, <1>6 DEF NoDuplicates
<1>8. ListSet(g) = ListSet(s) \ {k}
  <2>1. ASSUME NEW j \in 1..(n - 1)
        PROVE  g[j] \in ListSet(s) \ {k}
    BY <1>1, <1>3, <1>5, <1>6 DEF ListSet, n
  <2>2. ASSUME NEW i \in 1..n, s[i] # k
        PROVE  \E j \in 1..(n - 1) : g[j] = s[i]
    <3>1. CASE i < p
      BY <3>1, <1>3, <1>5
    <3>2. CASE i > p
      <4>1. i - 1 \in 1..(n - 1) /\ ~(i - 1 < p) /\ (i - 1) + 1 = i
        BY <3>2, <1>3
      <4>2. g[i - 1] = s[i]
        BY <4>1, <1>5
      <4>3. QED
        BY <4>1, <4>2
    <3>3. QED
      BY <3>1, <3>2, <2>2, <1>1, <1>3
  <2>3. QED
    BY <2>1, <2>2, <1>4 DEF ListSet, n
<1>9. QED
  BY <1>2, <1>4, <1>7, <1>8 DEF r, n

(***************************************************************************)
(* insert(end(), k) of a new key keeps a list free of duplicates.          *)
(***************************************************************************)
LEMMA AppendFacts ==
  ASSUME NEW S, NEW s \in Seq(S), NEW k \in S
  PROVE  /\ Append(s, k) \in Seq(S)
         /\ Len(Append(s, k)) = Len(s) + 1
         /\ ListSet(Append(s, k)) = ListSet(s) \cup {k}
         /\ NoDuplicates(s) /\ k \notin ListSet(s)
              => NoDuplicates(Append(s, k))
<1> DEFINE a == Append(s, k)
<1>1. /\ a \in Seq(S)
      /\ Len(a) = Len(s) + 1
      /\ a[Len(s) + 1] = k
      /\ \A i \in 1..Len(s) : a[i] = s[i]
      /\ Len(s) \in Nat
  OBVIOUS
<1> HIDE DEF a
<1>2. ListSet(a) = ListSet(s) \cup {k}
  BY <1>1 DEF ListSet
<1>3. ASSUME NoDuplicates(s), k \notin ListSet(s)
      PROVE  NoDuplicates(a)
  BY <1>1, <1>3 DEF ListSet, NoDuplicates
<1>4. QED
  BY <1>1, <1>2, <1>3 DEF a

(***************************************************************************)
(* A list and a map that are linked have the same size().                  *)
(***************************************************************************)
LEMMA LinkedSize ==
  ASSUME NEW S, NEW s \in Seq(S), NEW m, Linked(s, m)
  PROVE  MapSize(m) = Len(s) /\ IsFiniteSet(Keys(m))
<1>1. s \in [1..Len(s) -> Keys(m)] /\ Len(s) \in Nat
  BY DEF Linked, ListSet
<1>2. s \in Injection(1..Len(s), Keys(m))
  BY <1>1, Fun_IsInj DEF Linked, NoDuplicates
<1>3. s \in Surjection(1..Len(s), Keys(m))
  BY <1>1, Fun_IsSurj DEF Linked, ListSet
<1>4. IsFiniteSet(1..Len(s)) /\ Cardinality(1..Len(s)) = Len(s)
  BY <1>1, CountUpTo
<1>5. QED
  BY <1>2, <1>3, <1>4, FS_Surjection DEF MapSize

(***************************************************************************)
(* map::erase of one key and map::insert of a key with no entry.           *)
(***************************************************************************)
LEMMA MapEraseFacts ==
  ASSUME NEW S, NEW m \in [S -> Entry], NEW k \in S
  PROVE  /\ MapErase(m, k) \in [S -> Entry]
         /\ Keys(MapErase(m, k)) = Keys(m) \ {k}
         /\ DirtyKeys(MapErase(m, k)) = DirtyKeys(m) \ {k}
BY DEF MapErase, Keys, DirtyKeys, Entry

\* map::insert of a new key adds that key and nothing else.
LEMMA MapInsertFacts ==
  ASSUME NEW S, NEW m \in [S -> Entry], NEW k \in S,
         NEW e \in {"clean", "dirty"}, k \notin Keys(m)
  PROVE  /\ MapInsert(m, k, e) \in [S -> Entry]
         /\ Keys(MapInsert(m, k, e)) = Keys(m) \cup {k}
         /\ e = "dirty" => DirtyKeys(MapInsert(m, k, e)) = DirtyKeys(m) \cup {k}
         /\ e = "clean" => DirtyKeys(MapInsert(m, k, e)) = DirtyKeys(m)
<1> DEFINE f == MapInsert(m, k, e)
<1>0. m[k] = "absent"
  BY DEF Keys
<1>1. f \in [S -> Entry] /\ \A x \in S : f[x] = IF x = k THEN e ELSE m[x]
  BY <1>0 DEF MapInsert, Entry
<1> HIDE DEF f
<1>2. DOMAIN f = S /\ DOMAIN m = S
  BY <1>1
<1>3. Keys(f) = Keys(m) \cup {k}
  BY <1>0, <1>1, <1>2 DEF Keys
<1>4. /\ e = "dirty" => DirtyKeys(f) = DirtyKeys(m) \cup {k}
      /\ e = "clean" => DirtyKeys(f) = DirtyKeys(m)
  BY <1>0, <1>1, <1>2 DEF DirtyKeys
<1>5. QED
  BY <1>1, <1>3, <1>4 DEF f

(***************************************************************************)
(* The front of a list that is linked to a map is a key of the map.        *)
(***************************************************************************)
LEMMA FrontFacts ==
  ASSUME NEW S, NEW s \in Seq(S), Len(s) > 0
  PROVE  Head(s) = s[1] /\ s[1] \in S /\ s[1] \in ListSet(s)
<1>1. 1 \in 1..Len(s) /\ s # <<>>
  OBVIOUS
<1>2. QED
  BY <1>1 DEF ListSet

(***************************************************************************)
(* The two ways the policies change a linked list and map together: purge  *)
(* a key from both, and record a fresh key, most recent, in both.          *)
(***************************************************************************)
LEMMA PurgeFacts ==
  ASSUME NEW S, NEW s \in Seq(S), NEW m \in [S -> Entry], Linked(s, m),
         NEW k \in Keys(m)
  PROVE  /\ ListRemove(s, k) \in Seq(S)
         /\ MapErase(m, k) \in [S -> Entry]
         /\ Linked(ListRemove(s, k), MapErase(m, k))
         /\ Len(ListRemove(s, k)) = Len(s) - 1
         /\ Keys(MapErase(m, k)) = Keys(m) \ {k}
         /\ DirtyKeys(MapErase(m, k)) = DirtyKeys(m) \ {k}
<1>1. k \in S /\ k \in ListSet(s) /\ NoDuplicates(s) /\ ListSet(s) = Keys(m)
  BY DEF Linked, Keys
<1>2. /\ ListRemove(s, k) \in Seq(S)
      /\ Len(ListRemove(s, k)) = Len(s) - 1
      /\ ListSet(ListRemove(s, k)) = ListSet(s) \ {k}
      /\ NoDuplicates(ListRemove(s, k))
  BY <1>1, RemoveFacts
<1>3. /\ MapErase(m, k) \in [S -> Entry]
      /\ Keys(MapErase(m, k)) = Keys(m) \ {k}
      /\ DirtyKeys(MapErase(m, k)) = DirtyKeys(m) \ {k}
  BY <1>1, MapEraseFacts, Zenon
<1>4. Linked(ListRemove(s, k), MapErase(m, k))
  BY <1>1, <1>2, <1>3, Zenon DEF Linked
<1>5. QED
  BY <1>2, <1>3, <1>4, Zenon

\* A page is recorded: k goes to the back of the list and into the map.
LEMMA RecordFacts ==
  ASSUME NEW S, NEW s \in Seq(S), NEW m \in [S -> Entry], Linked(s, m),
         NEW k \in S, k \notin Keys(m), NEW e \in {"clean", "dirty"}
  PROVE  /\ Append(s, k) \in Seq(S)
         /\ MapInsert(m, k, e) \in [S -> Entry]
         /\ Linked(Append(s, k), MapInsert(m, k, e))
         /\ Len(Append(s, k)) = Len(s) + 1
         /\ Keys(MapInsert(m, k, e)) = Keys(m) \cup {k}
         /\ e = "dirty" => DirtyKeys(MapInsert(m, k, e)) = DirtyKeys(m) \cup {k}
         /\ e = "clean" => DirtyKeys(MapInsert(m, k, e)) = DirtyKeys(m)
<1>1. k \notin ListSet(s) /\ NoDuplicates(s) /\ ListSet(s) = Keys(m)
  BY DEF Linked
<1>2. /\ Append(s, k) \in Seq(S)
      /\ Len(Append(s, k)) = Len(s) + 1
      /\ ListSet(Append(s, k)) = ListSet(s) \cup {k}
      /\ NoDuplicates(Append(s, k))
  BY <1>1, AppendFacts
<1>3. /\ MapInsert(m, k, e) \in [S -> Entry]
      /\ Keys(MapInsert(m, k, e)) = Keys(m) \cup {k}
      /\ e = "dirty" => DirtyKeys(MapInsert(m, k, e)) = DirtyKeys(m) \cup {k}
      /\ e = "clean" => DirtyKeys(MapInsert(m, k, e)) = DirtyKeys(m)
  BY MapInsertFacts
<1>4. Linked(Append(s, k), MapInsert(m, k, e))
  BY <1>1, <1>2, <1>3, Zenon DEF Linked
<1>5. QED
  BY <1>2, <1>3, <1>4, Zenon

(***************************************************************************)
(* A non-empty set of natural numbers has a least one: a loop that counts  *)
(* up meets it first.                                                      *)
(***************************************************************************)
LEMMA LeastNatural ==
  ASSUME NEW T \in SUBSET Nat, T # {}
  PROVE  \E x \in T : \A y \in T : x <= y
<1>1. PICK x \in T : \A y \in T : ~(<<y, x>> \in OpToRel(<, Nat))
  BY NatLessThanWellFounded, WFMin
<1>2. \A y \in T : ~(y < x)
  BY <1>1, Zenon DEF OpToRel
<1>3. QED
  BY <1>2

\* Bounded natural numbers have a largest.
LEMMA LargestIs ==
  ASSUME NEW b \in Nat, NEW S \in SUBSET (0..b), S # {}
  PROVE  \E x \in S : \A y \in S : y <= x
<1> DEFINE T == {b - y : y \in S}
<1>1. \A y \in S : y \in Nat /\ y <= b /\ b - y \in Nat
  OBVIOUS
<1>2. T \in SUBSET Nat /\ T # {}
  <2>1. PICK x \in S : TRUE
    OBVIOUS
  <2>2. b - x \in T
    OBVIOUS
  <2>3. \A z \in T : z \in Nat
    BY <1>1
  <2>4. QED
    BY <2>2, <2>3
<1>3. \A y \in S : b - y \in T
  OBVIOUS
<1>4. \A z \in T : \E y \in S : z = b - y
  OBVIOUS
<1> HIDE DEF T
<1>5. PICK z \in T : \A w \in T : z <= w
  BY <1>2, LeastNatural
<1>6. PICK x \in S : z = b - x
  BY <1>4
<1>7. \A y \in S : y <= x
  <2>1. TAKE y \in S
  <2>2. b - x <= b - y
    BY <1>3, <1>5, <1>6
  <2>3. QED
    BY <1>1, <2>2
<1>8. QED
  BY <1>7

(***************************************************************************)
(* Nth(K, 1), Nth(K, 2), ... lists the numbers of a finite set K in        *)
(* increasing order, each once.                                            *)
(***************************************************************************)
LEMMA NthFacts ==
  ASSUME NEW n \in Nat, NEW K, K \subseteq 1..n
  PROVE  /\ IsFiniteSet(K)
         /\ Cardinality(K) \in Nat
         /\ \A j \in 1..Cardinality(K) : Nth(K, j) \in K
         /\ \A i, j \in 1..Cardinality(K) : i < j => Nth(K, i) < Nth(K, j)
         /\ \A h \in K : \E j \in 1..Cardinality(K) : Nth(K, j) = h
<1> DEFINE Up(i) == {h \in K : h <= i}
           R(i) == Cardinality(Up(i))
           N == Cardinality(K)
           rank == [i \in K |-> R(i)]
<1>0. \A i \in K : i \in 1..n /\ i \in Int
  OBVIOUS
<1>1. IsFiniteSet(K) /\ N \in Nat
  <2>1. IsFiniteSet(1..n)
    BY CountUpTo
  <2>2. QED
    BY <2>1, FS_Subset, FS_CardinalityType
<1>2. ASSUME NEW i \in K
      PROVE  R(i) \in 1..N
  <2>1. IsFiniteSet(Up(i)) /\ R(i) <= N /\ R(i) \in Nat
    BY <1>1, FS_Subset, FS_CardinalityType
  <2>2. i \in Up(i)
    OBVIOUS
  <2>3. R(i) # 0
    BY <2>1, <2>2, FS_EmptySet
  <2>4. QED
    BY <2>1, <2>3, <1>1
<1>3. ASSUME NEW i \in K, NEW h \in K, i < h
      PROVE  R(i) < R(h)
  <2>0. \A x \in K : x <= i => x <= h
    <3>1. i \in Int /\ h \in Int
      BY <1>0
    <3>2. ASSUME NEW x \in K, x <= i
          PROVE  x <= h
      <4>1. x \in Int
        BY <1>0
      <4>2. QED
        BY <1>3, <3>1, <3>2, <4>1
    <3>3. QED
      BY <3>2
  <2>1. Up(i) \subseteq Up(h) /\ h \in Up(h) /\ h \notin Up(i)
    <3>1. Up(i) \subseteq Up(h)
      BY <2>0
    <3>2. h <= h /\ ~(h <= i)
      BY <1>0, <1>3
    <3>3. QED
      BY <3>1, <3>2
  <2>2. IsFiniteSet(Up(h)) /\ R(i) \in Nat /\ R(h) \in Nat
    BY <1>1, FS_Subset, FS_CardinalityType
  <2>3. R(i) <= R(h) /\ (R(h) = R(i) => Up(h) = Up(i))
    BY <2>1, <2>2, FS_Subset, Zenon
  <2>4. R(h) # R(i)
    BY <2>1, <2>3, Zenon
  <2>5. QED
    BY <2>2, <2>3, <2>4
<1> HIDE DEF R
<1>4. \A i, h \in K : R(i) = R(h) => i = h
  BY <1>0, <1>2, <1>3
<1>5. rank \in Injection(K, 1..N)
  <2>1. rank \in [K -> 1..N]
    BY <1>2
  <2>2. \A a, b \in K : rank[a] = rank[b] => a = b
    BY <1>4
  <2> HIDE DEF rank
  <2>3. QED
    BY <2>1, <2>2, Fun_IsInj
<1>6. \A j \in 1..N : \E i \in K : R(i) = j
  <2>1. IsFiniteSet(1..N) /\ Cardinality(1..N) = N
    BY <1>1, CountUpTo
  <2> HIDE DEF rank
  <2>2. rank \in Surjection(K, 1..N)
    BY <1>5, <2>1, FS_Injection
  <2>3. \A j \in 1..N : \E i \in K : rank[i] = j
    BY <2>2, Fun_SurjectionProperties
  <2>4. QED
    BY <2>3 DEF rank
<1>7. \A j \in 1..N : Nth(K, j) \in K /\ R(Nth(K, j)) = j
  BY <1>6 DEF Nth, R
<1>8. ASSUME NEW i \in 1..N, NEW j \in 1..N, i < j
      PROVE  Nth(K, i) < Nth(K, j)
  <2>1. Nth(K, i) \in K /\ Nth(K, j) \in K /\ R(Nth(K, i)) = i /\ R(Nth(K, j)) = j
    BY <1>7
  <2>2. i \in Int /\ j \in Int
    BY <1>1
  <2>3. ~(Nth(K, j) < Nth(K, i))
    <3>1. SUFFICES ASSUME Nth(K, j) < Nth(K, i) PROVE FALSE
      OBVIOUS
    <3>2. R(Nth(K, j)) < R(Nth(K, i))
      BY <1>3, <2>1, <3>1
    <3>3. j < i
      BY <2>1, <3>2
    <3>4. QED
      BY <1>8, <2>2, <3>3
  <2>4. Nth(K, i) # Nth(K, j)
    BY <1>8, <2>1, <2>2
  <2>5. Nth(K, i) \in Int /\ Nth(K, j) \in Int
    BY <1>0, <2>1
  <2>6. QED
    BY <2>3, <2>4, <2>5
<1>9. ASSUME NEW h \in K
      PROVE  \E j \in 1..N : Nth(K, j) = h
  <2>1. R(h) \in 1..N
    BY <1>2
  <2>2. Nth(K, R(h)) \in K /\ R(Nth(K, R(h))) = R(h)
    BY <1>7, <2>1
  <2>3. Nth(K, R(h)) = h
    BY <1>4, <2>2
  <2>4. QED
    BY <2>1, <2>3
<1>10. QED
  BY <1>1, <1>7, <1>8, <1>9

(***************************************************************************)
(* list::remove of any keys from a list without duplicates leaves the      *)
(* others, each once.                                                      *)
(***************************************************************************)
LEMMA EraseFacts ==
  ASSUME NEW S, NEW s \in Seq(S), NoDuplicates(s), NEW E
  PROVE  /\ ListErase(s, E) \in Seq(S)
         /\ ListSet(ListErase(s, E)) = ListSet(s) \ E
         /\ NoDuplicates(ListErase(s, E))
<1> DEFINE n == Len(s)
           K == KeptPositions(s, E)
           N == Cardinality(K)
           g == ListErase(s, E)
<1>1. n \in Nat /\ K \subseteq 1..n /\ s \in [1..n -> S]
      /\ \A i \in K : i \in 1..n /\ i \in Int
  BY DEF KeptPositions
<1>2. g = [j \in 1..N |-> s[Nth(K, j)]]
  BY DEF ListErase
<1>3. \A i \in 1..n : i \in K <=> s[i] \notin E
  BY DEF KeptPositions
<1>4. \A i, j \in 1..n : s[i] = s[j] => i = j
  BY DEF NoDuplicates
<1> HIDE DEF K, n, g
<1>5. /\ N \in Nat
      /\ \A j \in 1..N : Nth(K, j) \in K
      /\ \A i, j \in 1..N : i < j => Nth(K, i) < Nth(K, j)
      /\ \A h \in K : \E j \in 1..N : Nth(K, j) = h
  BY <1>1, NthFacts
<1> HIDE DEF N
<1>6. g \in Seq(S) /\ Len(g) = N /\ \A j \in 1..N : g[j] = s[Nth(K, j)]
  <2>1. \A j \in 1..N : s[Nth(K, j)] \in S
    BY <1>1, <1>5
  <2>2. g \in [1..N -> S]
    BY <1>2, <2>1
  <2>3. QED
    BY <1>2, <1>5, <2>2
<1>7. ListSet(g) = ListSet(s) \ E
  BY <1>1, <1>3, <1>5, <1>6 DEF ListSet, n
<1>8. NoDuplicates(g)
  <2>1. ASSUME NEW i \in 1..N, NEW j \in 1..N, g[i] = g[j]
        PROVE  i = j
    <3>1. Nth(K, i) = Nth(K, j)
      <4>1. Nth(K, i) \in 1..n /\ Nth(K, j) \in 1..n
        BY <1>1, <1>5
      <4>2. s[Nth(K, i)] = s[Nth(K, j)]
        BY <1>6, <2>1
      <4>3. QED
        BY <1>4, <4>1, <4>2
    <3>2. Nth(K, i) \in Int /\ Nth(K, j) \in Int
      BY <1>1, <1>5
    <3>3. ~(i < j) /\ ~(j < i)
      BY <1>5, <3>1, <3>2
    <3>4. QED
      BY <3>3
  <2>2. QED
    BY <1>6, <2>1 DEF NoDuplicates
<1>9. QED
  BY <1>6, <1>7, <1>8 DEF g

(***************************************************************************)
(* The same for several keys in turn, as a policy purges a run of pages    *)
(* from the middle of both: what is left is still linked, and as many      *)
(* pages fewer as the run had.                                             *)
(***************************************************************************)
LEMMA PurgeAllFacts ==
  ASSUME NEW S, NEW s \in Seq(S), NEW m \in [S -> Entry], Linked(s, m),
         NEW E, E \subseteq Keys(m)
  PROVE  /\ ListErase(s, E) \in Seq(S)
         /\ MapEraseAll(m, E) \in [S -> Entry]
         /\ Linked(ListErase(s, E), MapEraseAll(m, E))
         /\ IsFiniteSet(E)
         /\ Len(ListErase(s, E)) = Len(s) - Cardinality(E)
         /\ Keys(MapEraseAll(m, E)) = Keys(m) \ E
         /\ DirtyKeys(MapEraseAll(m, E)) = DirtyKeys(m) \ E
<1> DEFINE t == ListErase(s, E)
           f == MapEraseAll(m, E)
<1>1. NoDuplicates(s) /\ ListSet(s) = Keys(m)
  BY DEF Linked
<1>2. t \in Seq(S) /\ ListSet(t) = ListSet(s) \ E /\ NoDuplicates(t)
  BY <1>1, EraseFacts
<1>3. f \in [S -> Entry] /\ \A x \in S : f[x] = IF x \in E THEN "absent" ELSE m[x]
  BY DEF MapEraseAll, Entry
<1> HIDE DEF t, f
<1>4. DOMAIN f = S /\ DOMAIN m = S
  BY <1>3
<1>5. Keys(f) = Keys(m) \ E
  BY <1>3, <1>4 DEF Keys
<1>6. DirtyKeys(f) = DirtyKeys(m) \ E
  BY <1>3, <1>4 DEF DirtyKeys
<1>7. Linked(t, f)
  BY <1>1, <1>2, <1>5, Zenon DEF Linked
<1>8. /\ Cardinality(Keys(m)) = Len(s) /\ IsFiniteSet(Keys(m))
      /\ Cardinality(Keys(f)) = Len(t)
  BY <1>2, <1>7, LinkedSize DEF MapSize
<1>9. IsFiniteSet(E) /\ Cardinality(Keys(m) \cap E) = Cardinality(E)
  <2>1. Keys(m) \cap E = E
    OBVIOUS
  <2>2. QED
    BY <1>8, <2>1, FS_Subset
<1>10. Len(t) = Len(s) - Cardinality(E)
  <2>1. Cardinality(Keys(m) \ E)
          = Cardinality(Keys(m)) - Cardinality(Keys(m) \cap E)
    BY <1>8, FS_Difference, Zenon
  <2>2. QED
    BY <1>5, <1>8, <1>9, <2>1
<1>11. QED
  BY <1>2, <1>3, <1>5, <1>6, <1>7, <1>9, <1>10 DEF t, f

-----------------------------------------------------------------------------
(***************************************************************************)
(* A page table on block numbers 0 to N - 1 is a ring of N pages.          *)
(***************************************************************************)
LEMMA RingIs ==
  ASSUME NEW N \in Nat \ {0}, NEW m, DOMAIN m = 0..(N - 1)
  PROVE  Ring(m) = N
BY FS_Interval DEF Ring

\* What the loops look at.
LEMMA DirtyAtIs ==
  ASSUME NEW N \in Nat \ {0}, NEW m, DOMAIN m = 0..(N - 1), NEW k
  PROVE  DirtyAt(m, k) <=> m[k % N] = "dirty"
BY RingIs DEF DirtyAt

(***************************************************************************)
(* The quotient and the remainder of the code's unsigned arithmetic.       *)
(***************************************************************************)
LEMMA DivMod ==
  ASSUME NEW N \in Nat \ {0}, NEW x \in Int
  PROVE  /\ x \div N \in Int
         /\ x % N \in 0..(N - 1)
         /\ x = (N * (x \div N)) + (x % N)
OBVIOUS

\* A number of that form has that remainder.
LEMMA ModOfForm ==
  ASSUME NEW N \in Nat \ {0}, NEW q \in Int, NEW r \in 0..(N - 1)
  PROVE  ((N * q) + r) % N = r
OBVIOUS

\* Going round the ring any number of times changes nothing.
LEMMA ModPlusMultiple ==
  ASSUME NEW N \in Nat \ {0}, NEW x \in Int, NEW q \in Int
  PROVE  ((N * q) + x) % N = x % N
<1>1. PICK p \in Int, r \in 0..(N - 1) :
        x = (N * p) + r /\ x % N = r
  BY DivMod
<1>2. (N * q) + x = (N * (q + p)) + r
  BY <1>1
<1>3. QED
  BY <1>1, <1>2, ModOfForm

\* Going round once.
LEMMA ModPlusRound ==
  ASSUME NEW N \in Nat \ {0}, NEW x \in Int
  PROVE  (N + x) % N = x % N
<1> DEFINE one == 1
<1>1. one \in Int /\ N * one = N
  OBVIOUS
<1> HIDE DEF one
<1>2. ((N * one) + x) % N = x % N
  BY <1>1, ModPlusMultiple
<1>3. QED
  BY <1>1, <1>2

\* Numbers less than a round apart are different pages.
LEMMA ModInjective ==
  ASSUME NEW N \in Nat \ {0}, NEW x \in Int, NEW y \in Int, x <= y, y - x < N,
         x % N = y % N
  PROVE  x = y
<1>1. PICK p \in Int, r \in 0..(N - 1) :
        x = (N * p) + r /\ x % N = r
  BY DivMod
<1>2. PICK q \in Int, s \in 0..(N - 1) :
        y = (N * q) + s /\ y % N = s
  BY DivMod
<1>3. y - x = N * (q - p)
  BY <1>1, <1>2
<1>4. q - p = 0
  BY <1>3
<1>5. QED
  BY <1>3, <1>4

\* A remainder may be taken at any point of a sum.
LEMMA ModOfSum ==
  ASSUME NEW N \in Nat \ {0}, NEW x \in Int, NEW y \in Int
  PROVE  ((x % N) + y) % N = (x + y) % N
<1>1. /\ x = (N * (x \div N)) + (x % N)
      /\ x \div N \in Int /\ x % N \in Int
  BY DivMod
<1> DEFINE q == x \div N
           z == (x % N) + y
<1>2. q \in Int /\ z \in Int /\ x + y = (N * q) + z
  BY <1>1
<1> HIDE DEF q, z
<1>3. ((N * q) + z) % N = z % N
  BY <1>2, ModPlusMultiple
<1>4. QED
  BY <1>2, <1>3 DEF z

(***************************************************************************)
(* Every page is met within one round, upwards or downwards.               *)
(***************************************************************************)
LEMMA MetUpwards ==
  ASSUME NEW N \in Nat \ {0}, NEW b \in Int, NEW k \in 0..(N - 1)
  PROVE  \E i \in 0..(N - 1) : (b + i) % N = k
<1>0. k \in 0..(N - 1) /\ k \in Int /\ k - b \in Int
  OBVIOUS
<1> DEFINE q == (k - b) \div N
           i == (k - b) % N
<1>1. q \in Int /\ i \in 0..(N - 1) /\ k - b = (N * q) + i
  BY <1>0, DivMod
<1> HIDE DEF q, i
<1>2. b + i = (N * (-q)) + k /\ -q \in Int
  BY <1>0, <1>1
<1>3. (b + i) % N = k
  BY <1>0, <1>2, ModOfForm
<1>4. QED
  BY <1>1, <1>3

\* The same downwards.
LEMMA MetDownwards ==
  ASSUME NEW N \in Nat \ {0}, NEW b \in Int, NEW k \in 0..(N - 1)
  PROVE  \E i \in 0..(N - 1) : (b - i) % N = k
<1>0. k \in 0..(N - 1) /\ k \in Int /\ b - k \in Int
  OBVIOUS
<1> DEFINE q == (b - k) \div N
           i == (b - k) % N
<1>1. q \in Int /\ i \in 0..(N - 1) /\ b - k = (N * q) + i
  BY <1>0, DivMod
<1> HIDE DEF q, i
<1>2. b - i = (N * q) + k
  BY <1>0, <1>1
<1>3. (b - i) % N = k
  BY <1>0, <1>1, <1>2, ModOfForm
<1>4. QED
  BY <1>1, <1>3

\* A page is its own remainder.
LEMMA PageMod ==
  ASSUME NEW N \in Nat \ {0}, NEW k \in 0..(N - 1)
  PROVE  k % N = k /\ k \in Int
OBVIOUS

(***************************************************************************)
(* The first loop ends within one round, at a page that is not dirty, and  *)
(* counts the dirty pages up to it.                                        *)
(***************************************************************************)
LEMMA AfterFacts ==
  ASSUME NEW N \in Nat \ {0}, NEW m, DOMAIN m = 0..(N - 1), NEW k \in Int,
         NEW hole \in 0..(N - 1), m[hole] # "dirty"
  PROVE  /\ After(m, k) \in 0..(N - 1)
         /\ ~DirtyAt(m, k + After(m, k))
         /\ \A i \in 0..(After(m, k) - 1) : DirtyAt(m, k + i)
<1> DEFINE D(n) == DirtyAt(m, k + n)
           T == {n \in 0..(N - 1) : ~D(n)}
           a == After(m, k)
<1>1. N \in Nat /\ T \in SUBSET Nat
  OBVIOUS
<1>2. T # {}
  <2>1. PICK i \in 0..(N - 1) : (k + i) % N = hole
    BY MetUpwards
  <2>2. i \in T
    BY <2>1, DirtyAtIs
  <2>3. QED
    BY <2>2
<1>3. PICK n \in T : \A y \in T : n <= y
  BY <1>1, <1>2, LeastNatural
<1>4. n \in 0..(N - 1) /\ ~D(n) /\ \A y \in 0..(N - 1) : ~D(y) => n <= y
  BY <1>3
<1> HIDE DEF D, T
<1>5. n \in 0..N /\ ~D(n) /\ \A i \in 0..(n - 1) : D(i)
  BY <1>1, <1>4
<1>6. a \in 0..N /\ ~D(a) /\ \A i \in 0..(a - 1) : D(i)
  BY <1>5, RingIs DEF After, D
<1>7. a <= n
  BY <1>1, <1>4, <1>6
<1>8. a \in 0..(N - 1)
  BY <1>1, <1>4, <1>6, <1>7
<1>9. QED
  BY <1>6, <1>8 DEF D

\* The second loop, downwards.
LEMMA BeforeFacts ==
  ASSUME NEW N \in Nat \ {0}, NEW m, DOMAIN m = 0..(N - 1), NEW k \in Int,
         NEW hole \in 0..(N - 1), m[hole] # "dirty"
  PROVE  /\ Before(m, k) \in 0..(N - 1)
         /\ ~DirtyAt(m, k - 1 - Before(m, k))
         /\ \A i \in 0..(Before(m, k) - 1) : DirtyAt(m, k - 1 - i)
<1> DEFINE D(n) == DirtyAt(m, k - 1 - n)
           T == {n \in 0..(N - 1) : ~D(n)}
           a == Before(m, k)
<1>1. N \in Nat /\ T \in SUBSET Nat
  OBVIOUS
<1>2. T # {}
  <2>0. k - 1 \in Int
    OBVIOUS
  <2>1. PICK i \in 0..(N - 1) : ((k - 1) - i) % N = hole
    BY <2>0, MetDownwards
  <2>2. i \in T
    BY <2>1, DirtyAtIs
  <2>3. QED
    BY <2>2
<1>3. PICK n \in T : \A y \in T : n <= y
  BY <1>1, <1>2, LeastNatural
<1>4. n \in 0..(N - 1) /\ ~D(n) /\ \A y \in 0..(N - 1) : ~D(y) => n <= y
  BY <1>3
<1> HIDE DEF D, T
<1>5. n \in 0..N /\ ~D(n) /\ \A i \in 0..(n - 1) : D(i)
  BY <1>1, <1>4
<1>6. a \in 0..N /\ ~D(a) /\ \A i \in 0..(a - 1) : D(i)
  BY <1>5, RingIs DEF Before, D
<1>7. a <= n
  BY <1>1, <1>4, <1>6
<1>8. a \in 0..(N - 1)
  BY <1>1, <1>4, <1>6, <1>7
<1>9. QED
  BY <1>6, <1>8 DEF D

(***************************************************************************)
(* What a policy writes back for a dirty page k: SeqLength pages, all      *)
(* dirty, k among them, between two pages that are not dirty. So the count *)
(* that the statistics add is the number of pages that leave.              *)
(***************************************************************************)
LEMMA SeqLengthFacts ==
  ASSUME NEW N \in Nat \ {0}, NEW m, DOMAIN m = 0..(N - 1),
         NEW k \in 0..(N - 1), m[k] = "dirty",
         NEW hole \in 0..(N - 1), m[hole] # "dirty"
  PROVE  /\ Before(m, k) \in Nat
         /\ SeqLength(m, k) \in 1..(N - 1)
         /\ Before(m, k) < SeqLength(m, k)
         /\ \A z \in 0..(SeqLength(m, k) - 1) : DirtyAt(m, k - Before(m, k) + z)
         /\ ~DirtyAt(m, k - Before(m, k) - 1)
         /\ ~DirtyAt(m, k - Before(m, k) + SeqLength(m, k))
<1> DEFINE A == After(m, k)
           B == Before(m, k)
           L == SeqLength(m, k)
<1>1. k \in Int /\ k % N = k
  BY PageMod
<1>2. /\ A \in 0..(N - 1)
      /\ ~DirtyAt(m, k + A)
      /\ \A i \in 0..(A - 1) : DirtyAt(m, k + i)
  BY <1>1, AfterFacts
<1>3. /\ B \in 0..(N - 1)
      /\ ~DirtyAt(m, k - 1 - B)
      /\ \A i \in 0..(B - 1) : DirtyAt(m, k - 1 - i)
  BY <1>1, BeforeFacts
<1>4. L = A + B
  BY DEF SeqLength
<1>5. A # 0
  <2>1. DirtyAt(m, k)
    BY <1>1, DirtyAtIs
  <2>2. k + 0 = k
    BY <1>1
  <2>3. QED
    BY <1>2, <2>1, <2>2
<1> HIDE DEF A, B, L
<1>6. ASSUME NEW z \in 0..(L - 1)
      PROVE  DirtyAt(m, k - B + z)
  <2>1. CASE z >= B
    <3>1. z - B \in 0..(A - 1) /\ k - B + z = k + (z - B)
      BY <1>1, <1>2, <1>3, <1>4, <2>1
    <3>2. QED
      BY <1>2, <3>1
  <2>2. CASE z < B
    <3>1. B - 1 - z \in 0..(B - 1) /\ k - B + z = k - 1 - (B - 1 - z)
      BY <1>1, <1>3, <2>2
    <3>2. QED
      BY <1>3, <3>1
  <2>3. QED
    BY <1>2, <1>3, <1>4, <2>1, <2>2
<1>7. L < N
  <2>1. SUFFICES ASSUME L >= N PROVE FALSE
    BY <1>2, <1>3, <1>4
  <2>2. L - N \in 0..(L - 1)
    BY <1>2, <1>3, <1>4, <2>1
  <2>3. DirtyAt(m, k - B + (L - N))
    BY <1>6, <2>2
  <2>4. /\ k + A = (N * 1) + (k - B + (L - N))
        /\ k - B + (L - N) \in Int
    BY <1>1, <1>2, <1>3, <1>4
  <2>5. (k + A) % N = (k - B + (L - N)) % N
    <3> DEFINE x == k - B + (L - N)
    <3>1. x \in Int /\ k + A = N + x
      BY <2>4
    <3> HIDE DEF x
    <3>2. (N + x) % N = x % N
      BY <3>1, ModPlusRound
    <3>3. QED
      BY <3>1, <3>2 DEF x
  <2>6. QED
    BY <1>2, <2>3, <2>5, DirtyAtIs
<1>8. k - B - 1 = k - 1 - B /\ k - B + L = k + A
  BY <1>1, <1>2, <1>3, <1>4
<1>9. L \in 1..(N - 1) /\ B < L
  BY <1>2, <1>3, <1>4, <1>5, <1>7
<1>10. QED
  BY <1>2, <1>3, <1>6, <1>8, <1>9 DEF A, B, L

\* The pages of the run are different ones.
LEMMA RunFacts ==
  ASSUME NEW N \in Nat \ {0}, NEW m, DOMAIN m = 0..(N - 1),
         NEW k \in 0..(N - 1), m[k] = "dirty",
         NEW hole \in 0..(N - 1), m[hole] # "dirty"
  PROVE  /\ Run(m, k) \subseteq 0..(N - 1)
         /\ k \in Run(m, k)
         /\ \A q \in Run(m, k) : m[q] = "dirty"
         /\ IsFiniteSet(Run(m, k))
         /\ Cardinality(Run(m, k)) = SeqLength(m, k)
<1> DEFINE b == k - Before(m, k)
           L == SeqLength(m, k)
           R == Run(m, k)
           pg == [z \in 0..(L - 1) |-> (b + z) % N]
<1>1. R = {(b + z) % N : z \in 0..(L - 1)}
  BY RingIs DEF Run
<1>a. /\ Before(m, k) \in Nat /\ L \in 1..(N - 1) /\ Before(m, k) < L
      /\ \A z \in 0..(L - 1) : DirtyAt(m, b + z)
  BY SeqLengthFacts
<1>b. \A x : DirtyAt(m, x) => m[x % N] = "dirty"
  BY DirtyAtIs
<1>2. /\ L \in 1..(N - 1)
      /\ Before(m, k) \in 0..(L - 1)
      /\ \A z \in 0..(L - 1) : m[(b + z) % N] = "dirty"
  BY <1>a, <1>b
<1>3. k \in Int /\ k % N = k /\ b \in Int /\ b + Before(m, k) = k
  BY <1>2, PageMod
<1>4. L \in Nat /\ N \in Nat /\ L < N
  BY <1>2
<1> HIDE DEF b, L, R
<1>5. \A z \in 0..(L - 1) : (b + z) % N \in 0..(N - 1)
  <2>1. \A z \in 0..(L - 1) : b + z \in Int
    BY <1>3
  <2>2. QED
    BY <2>1, DivMod
<1>6. R \subseteq 0..(N - 1)
  BY <1>1, <1>5
<1>7. k \in R
  BY <1>1, <1>2, <1>3
<1>8. ASSUME NEW q \in R PROVE m[q] = "dirty"
  <2>1. PICK z \in 0..(L - 1) : q = (b + z) % N
    BY <1>1
  <2>2. QED
    BY <1>2, <2>1
<1>9. IsFiniteSet(0..(L - 1)) /\ Cardinality(0..(L - 1)) = L
  <2>1. L - 1 \in Int /\ 0 \in Int /\ ~(0 > L - 1) /\ (L - 1) - 0 + 1 = L
    BY <1>2
  <2>2. QED
    BY <2>1, FS_Interval
<1>10. ASSUME NEW y \in 0..(L - 1), NEW z \in 0..(L - 1),
              (b + y) % N = (b + z) % N
       PROVE  y = z
  <2>1. b + y \in Int /\ b + z \in Int /\ y \in Int /\ z \in Int
    BY <1>3
  <2>2. CASE y <= z
    <3>1. b + y <= b + z /\ (b + z) - (b + y) < N
      BY <1>3, <1>4, <2>1, <2>2
    <3>2. b + y = b + z
      BY <1>10, <2>1, <3>1, ModInjective
    <3>3. QED
      BY <1>3, <2>1, <3>2
  <2>3. CASE z <= y
    <3>1. b + z <= b + y /\ (b + y) - (b + z) < N
      BY <1>3, <1>4, <2>1, <2>3
    <3>2. b + z = b + y
      BY <1>10, <2>1, <3>1, ModInjective
    <3>3. QED
      BY <1>3, <2>1, <3>2
  <2>4. QED
    BY <2>1, <2>2, <2>3
<1>11. /\ pg \in [0..(L - 1) -> R]
       /\ \A y, z \in 0..(L - 1) : pg[y] = pg[z] => y = z
       /\ \A q \in R : \E z \in 0..(L - 1) : pg[z] = q
  BY <1>1, <1>10
<1> HIDE DEF pg
<1>12. pg \in Injection(0..(L - 1), R) /\ pg \in Surjection(0..(L - 1), R)
  BY <1>11, Fun_IsInj, Fun_IsSurj
<1>13. IsFiniteSet(R) /\ Cardinality(R) = L
  BY <1>9, <1>12, FS_Surjection
<1>14. QED
  BY <1>6, <1>7, <1>8, <1>13 DEF L, R

\* No dirty page that adjoins the run is left out of it.
LEMMA RunNeighbours ==
  ASSUME NEW N \in Nat \ {0}, NEW m, DOMAIN m = 0..(N - 1),
         NEW k \in 0..(N - 1), m[k] = "dirty",
         NEW hole \in 0..(N - 1), m[hole] # "dirty", NEW q \in Run(m, k)
  PROVE  /\ m[(q + 1) % N] = "dirty" => (q + 1) % N \in Run(m, k)
         /\ m[(q - 1) % N] = "dirty" => (q - 1) % N \in Run(m, k)
<1> DEFINE b == k - Before(m, k)
           L == SeqLength(m, k)
           R == Run(m, k)
<1>1. R = {(b + z) % N : z \in 0..(L - 1)}
  BY RingIs DEF Run
<1>2. /\ L \in 1..(N - 1) /\ Before(m, k) \in Nat
      /\ ~DirtyAt(m, b - 1) /\ ~DirtyAt(m, b + L)
  BY SeqLengthFacts
<1>3. b \in Int /\ L \in Nat /\ m[(b - 1) % N] # "dirty" /\ m[(b + L) % N] # "dirty"
  <2>1. b \in Int /\ L \in Nat
    BY <1>2, PageMod
  <2> HIDE DEF b, L
  <2>2. \A x : DirtyAt(m, x) <=> m[x % N] = "dirty"
    BY DirtyAtIs
  <2>3. QED
    BY <1>2, <2>1, <2>2
<1> HIDE DEF b, L, R
<1>4. PICK z \in 0..(L - 1) : q = (b + z) % N
  BY <1>1 DEF R
<1>5. b + z \in Int /\ 1 \in Int /\ -1 \in Int
  BY <1>3
<1>6. (q + 1) % N = ((b + z) + 1) % N
  BY <1>4, <1>5, ModOfSum
<1>7. (q - 1) % N = ((b + z) - 1) % N
  <2>1. (((b + z) % N) + (-1)) % N = ((b + z) + (-1)) % N
    BY <1>5, ModOfSum
  <2>2. ((b + z) % N) \in Int
    BY <1>5, DivMod
  <2>3. ((b + z) % N) + (-1) = ((b + z) % N) - 1 /\ (b + z) + (-1) = (b + z) - 1
    BY <1>5, <2>2
  <2>4. QED
    BY <1>4, <2>1, <2>3
<1>8. m[(q + 1) % N] = "dirty" => (q + 1) % N \in R
  <2>1. (b + z) + 1 = b + (z + 1)
    BY <1>3
  <2>2. CASE z + 1 \in 0..(L - 1)
    BY <1>1, <1>6, <2>1, <2>2
  <2>3. CASE z + 1 = L
    BY <1>3, <1>6, <2>1, <2>3
  <2>4. QED
    BY <1>3, <2>2, <2>3
<1>9. m[(q - 1) % N] = "dirty" => (q - 1) % N \in R
  <2>1. (b + z) - 1 = b + (z - 1) /\ (z = 0 => (b + z) - 1 = b - 1)
    BY <1>3
  <2>2. CASE z - 1 \in 0..(L - 1)
    BY <1>1, <1>7, <2>1, <2>2
  <2>3. CASE z = 0
    BY <1>3, <1>7, <2>1, <2>3
  <2>4. QED
    BY <1>3, <2>2, <2>3
<1>10. QED
  BY <1>8, <1>9 DEF R

\* The page above a page has it below, and the other way round.
LEMMA UpAndDown ==
  ASSUME NEW N \in Nat \ {0}, NEW k \in 0..(N - 1)
  PROVE  /\ (k + 1) % N \in 0..(N - 1) /\ (k - 1) % N \in 0..(N - 1)
         /\ (((k + 1) % N) - 1) % N = k
<1>1. k \in Int /\ k + 1 \in Int /\ k - 1 \in Int /\ -1 \in Int /\ k % N = k
  BY PageMod
<1>2. (k + 1) % N \in 0..(N - 1) /\ (k - 1) % N \in 0..(N - 1)
  BY <1>1, DivMod
<1>3. (((k + 1) % N) + (-1)) % N = ((k + 1) + (-1)) % N
  BY <1>1, ModOfSum
<1>4. ((k + 1) % N) + (-1) = ((k + 1) % N) - 1 /\ (k + 1) + (-1) = k
  BY <1>1, <1>2
<1>5. QED
  BY <1>1, <1>2, <1>3, <1>4

(***************************************************************************)
(* The distance from one page up to another, as a remainder.               *)
(***************************************************************************)
LEMMA ModOfDifference ==
  ASSUME NEW N \in Nat \ {0}, NEW x \in Int, NEW y \in Int
  PROVE  ((x % N) - (y % N)) % N = (x - y) % N
<1>1. /\ x = (N * (x \div N)) + (x % N)
      /\ x \div N \in Int /\ x % N \in Int
  BY DivMod
<1>2. /\ y = (N * (y \div N)) + (y % N)
      /\ y \div N \in Int /\ y % N \in Int
  BY DivMod
<1> DEFINE q == (x \div N) - (y \div N)
           d == (x % N) - (y % N)
<1>3. q \in Int /\ d \in Int /\ x - y = (N * q) + d
  BY <1>1, <1>2
<1> HIDE DEF q, d
<1>4. ((N * q) + d) % N = d % N
  BY <1>3, ModPlusMultiple
<1>5. QED
  BY <1>3, <1>4 DEF d

\* Going up by the distance arrives.
LEMMA Arrives ==
  ASSUME NEW N \in Nat \ {0}, NEW f \in 0..(N - 1), NEW k \in 0..(N - 1)
  PROVE  /\ (k - f) % N \in 0..(N - 1)
         /\ (f + ((k - f) % N)) % N = k
<1>1. k \in Int /\ f \in Int /\ k % N = k /\ k - f \in Int
  BY PageMod
<1>2. (k - f) % N \in 0..(N - 1)
  BY <1>1, DivMod
<1>3. (((k - f) % N) + f) % N = ((k - f) + f) % N
  BY <1>1, ModOfSum
<1>4. ((k - f) % N) + f = f + ((k - f) % N) /\ (k - f) + f = k
  BY <1>1, <1>2
<1>5. QED
  BY <1>1, <1>2, <1>3, <1>4

(***************************************************************************)
(* What is written back for a page is one whole run: no dirty page that    *)
(* stays adjoins it.                                                       *)
(***************************************************************************)
LEMMA RunIsWhole ==
  ASSUME NEW N \in Nat \ {0}, NEW m \in [0..(N - 1) -> Entry],
         NEW k \in 0..(N - 1), m[k] = "dirty",
         NEW hole \in 0..(N - 1), m[hole] # "dirty"
  PROVE  IsWholeRun(m, Run(m, k))
<1> DEFINE b == k - Before(m, k)
           L == SeqLength(m, k)
           R == Run(m, k)
<1>0. DOMAIN m = 0..(N - 1) /\ Ring(m) = N
  BY RingIs
<1>a. R = {(b + z) % N : z \in 0..(L - 1)}
  BY <1>0 DEF Run
<1>1. /\ R = {(b + z) % N : z \in 0..(L - 1)}
      /\ R \subseteq 0..(N - 1) /\ k \in R
      /\ \A q \in R : m[q] = "dirty"
  BY <1>0, <1>a, RunFacts
<1>2. /\ L \in 1..(N - 1)
      /\ Before(m, k) \in Nat
      /\ ~DirtyAt(m, b - 1)
      /\ ~DirtyAt(m, b + L)
  BY SeqLengthFacts
<1>3. N \in Nat /\ L \in Nat /\ L >= 1 /\ L < N /\ b \in Int
  BY <1>2, PageMod
<1> DEFINE first == b % N
<1> HIDE DEF b, L, R
<1>4. first \in R /\ first \in 0..(N - 1)
  <2>1. 0 \in 0..(L - 1) /\ b + 0 = b
    BY <1>3
  <2>2. QED
    BY <1>1, <2>1
<1>5. ASSUME NEW i \in Int
      PROVE  (first + i) % N = (b + i) % N
  BY <1>3, ModOfSum
<1>6. ASSUME NEW z \in 0..(L - 1)
      PROVE  (((b + z) % N) - first) % N = z
  <2>1. b + z \in Int /\ (b + z) - b = z /\ z \in 0..(N - 1)
    BY <1>3
  <2>2. (((b + z) % N) - first) % N = ((b + z) - b) % N
    BY <1>3, <2>1, ModOfDifference
  <2>3. z % N = z
    BY <2>1, PageMod
  <2>4. QED
    BY <2>1, <2>2, <2>3
<1>7. IsDirtyRun(m, R)
  <2>1. \A q \in R : DirtyAt(m, q)
    BY <1>1, PageMod, DirtyAtIs
  <2>2. ASSUME NEW q \in R, NEW i \in 0..((q - first) % N)
        PROVE  (first + i) % N \in R
    <3>1. PICK z \in 0..(L - 1) : q = (b + z) % N
      BY <1>1
    <3>2. (q - first) % N = z
      BY <1>6, <3>1
    <3>3. i \in 0..(L - 1)
      BY <1>3, <2>2, <3>2
    <3>4. QED
      BY <1>1, <1>5, <3>3
  <2>3. QED
    BY <1>1, <1>4, <2>1, <2>2, RingIs DEF IsDirtyRun
<1>8. ASSUME NEW q \in 0..(N - 1), q \notin R, IsDirtyRun(m, R \cup {q})
      PROVE  FALSE
  <2>1. PICK f \in R \cup {q} :
          \A h \in R \cup {q} : \A i \in 0..((h - f) % N) :
            (f + i) % N \in R \cup {q}
    BY <1>8, RingIs DEF IsDirtyRun
  <2>2. \A h \in R \cup {q} : DirtyAt(m, h) /\ h \in 0..(N - 1)
    BY <1>1, <1>8 DEF IsDirtyRun
  <2>3. \A x \in Int : x % N \in R \cup {q} => DirtyAt(m, x)
    <3>1. \A h \in 0..(N - 1) : h % N = h
      BY PageMod
    <3>2. QED
      BY <2>2, <3>1, DirtyAtIs
  <2>4. CASE f = q
    <3> DEFINE d == (first - f) % N
    <3>1. d \in 0..(N - 1) /\ (f + d) % N = first
      BY <1>4, <2>2, Arrives
    <3> HIDE DEF d
    <3>2. d # 0
      <4>1. f + 0 = f /\ f % N = f
        BY <2>2, PageMod
      <4>2. QED
        BY <1>4, <1>8, <2>4, <3>1, <4>1
    <3>3. d - 1 \in 0..d /\ f \in Int /\ f + (d - 1) = (f + d) - 1 /\ f + d \in Int
      <4>1. f \in Int
        BY <2>2, PageMod
      <4>2. d \in Int /\ d > 0
        BY <1>3, <3>1, <3>2
      <4>3. QED
        BY <4>1, <4>2
    <3>4. ((f + d) - 1) % N = (b - 1) % N
      <4>0. -1 \in Int
        OBVIOUS
      <4>1. (((f + d) % N) + (-1)) % N = ((f + d) + (-1)) % N
        BY <3>3, <4>0, ModOfSum
      <4>2. (first + (-1)) % N = (b + (-1)) % N
        BY <1>5
      <4>3. (f + d) + (-1) = (f + d) - 1 /\ b + (-1) = b - 1
        BY <1>3, <3>3
      <4>4. QED
        BY <3>1, <4>1, <4>2, <4>3
    <3>5. (f + (d - 1)) % N \in R \cup {q}
      BY <1>4, <2>1, <3>3 DEF d
    <3>6. (b - 1) % N \in R \cup {q} /\ b - 1 \in Int
      BY <1>3, <3>3, <3>4, <3>5
    <3>7. QED
      BY <1>2, <2>3, <3>6
  <2>5. CASE f # q
    <3>1. PICK z \in 0..(L - 1) : f = (b + z) % N
      BY <1>1, <2>5
    <3> DEFINE d == (q - f) % N
    <3>2. d \in 0..(N - 1) /\ (f + d) % N = q
      BY <1>8, <2>2, Arrives
    <3>3. ASSUME NEW i \in Int
          PROVE  (f + i) % N = (b + (z + i)) % N
      <4>1. b + z \in Int /\ (b + z) + i = b + (z + i)
        BY <1>3
      <4>2. QED
        BY <3>1, <4>1, ModOfSum
    <3> HIDE DEF d
    <3>4. L - z \in 0..d
      <4>1. SUFFICES ASSUME d < L - z PROVE FALSE
        BY <1>3, <3>2
      <4>2. z + d \in 0..(L - 1) /\ d \in Int
        BY <1>3, <3>2, <4>1
      <4>3. (b + (z + d)) % N = q
        BY <3>2, <3>3, <4>2
      <4>4. QED
        BY <1>1, <1>8, <4>2, <4>3
    <3>5. (f + (L - z)) % N \in R \cup {q}
      BY <2>1, <3>4 DEF d
    <3>6. (b + L) % N \in R \cup {q} /\ b + L \in Int
      <4>1. L - z \in Int /\ z + (L - z) = L
        BY <1>3
      <4>2. (f + (L - z)) % N = (b + (z + (L - z))) % N
        BY <3>3, <4>1
      <4>3. QED
        BY <1>3, <3>5, <4>1, <4>2
    <3>7. QED
      BY <1>2, <2>3, <3>6
  <2>6. QED
    BY <2>4, <2>5
<1>9. DirtyKeys(m) \subseteq 0..(N - 1)
  BY DEF DirtyKeys
<1>10. QED
  BY <1>7, <1>8, <1>9 DEF IsWholeRun, R

(***************************************************************************)
(* No run of dirty pages is longer than the ones that the loops find: each *)
(* lies within the run found from its first page.                          *)
(***************************************************************************)
LEMMA RunIsLongest ==
  ASSUME NEW N \in Nat \ {0}, NEW m \in [0..(N - 1) -> Entry],
         NEW R \in SUBSET 0..(N - 1), IsDirtyRun(m, R),
         NEW hole \in 0..(N - 1), m[hole] # "dirty"
  PROVE  \E f \in R : m[f] = "dirty" /\ R \subseteq Run(m, f)
<1>0. DOMAIN m = 0..(N - 1) /\ Ring(m) = N
  BY RingIs
<1>1. PICK f \in R : \A k \in R : \A i \in 0..((k - f) % N) :
                      (f + i) % N \in R
  BY <1>0 DEF IsDirtyRun
<1>2. ASSUME NEW k \in R PROVE m[k] = "dirty" /\ k \in 0..(N - 1)
  <2>1. k \in 0..(N - 1) /\ k % N = k
    BY PageMod
  <2>2. DirtyAt(m, k)
    BY DEF IsDirtyRun
  <2>3. QED
    BY <1>0, <2>1, <2>2, DirtyAtIs
<1>3. f \in 0..(N - 1) /\ f \in Int
  BY PageMod
<1> DEFINE B == Before(m, f)
           L == SeqLength(m, f)
           b == f - B
<1>4. /\ B \in Nat /\ L \in 1..(N - 1) /\ B < L
      /\ ~DirtyAt(m, b + L)
  BY <1>2, SeqLengthFacts
<1>5. Run(m, f) = {(b + z) % N : z \in 0..(L - 1)}
  BY <1>0 DEF Run
<1> HIDE DEF B, L
<1>6. ASSUME NEW k \in R
      PROVE  k \in Run(m, f)
  <2> DEFINE d == (k - f) % N
  <2>1. d \in 0..(N - 1) /\ (f + d) % N = k
    BY <1>3, Arrives
  <2>2. \A i \in 0..d : (f + i) % N \in R
    BY <1>1
  <2> HIDE DEF d
  <2>3. d < L - B
    <3>1. SUFFICES ASSUME L - B <= d PROVE FALSE
      BY <1>4, <2>1
    <3>2. L - B \in 0..d /\ f + (L - B) = b + L
      BY <1>3, <1>4, <2>1, <3>1
    <3>3. m[(f + (L - B)) % N] = "dirty"
      BY <1>2, <2>2, <3>2
    <3>4. QED
      BY <1>4, <3>2, <3>3, DirtyAtIs
  <2>4. B + d \in 0..(L - 1) /\ b + (B + d) = f + d
    BY <1>3, <1>4, <2>1, <2>3
  <2>5. QED
    BY <1>5, <2>1, <2>4
<1>7. QED
  BY <1>2, <1>6

(***************************************************************************)
(* The loops find the same run from each of its pages: it holds every page *)
(* of the run that it was found in.                                        *)
(***************************************************************************)
LEMMA RunsMeet ==
  ASSUME NEW N \in Nat \ {0}, NEW m \in [0..(N - 1) -> Entry],
         NEW k \in 0..(N - 1), m[k] = "dirty", NEW q \in Run(m, k),
         NEW hole \in 0..(N - 1), m[hole] # "dirty"
  PROVE  Run(m, k) \subseteq Run(m, q)
<1> DEFINE b == k - Before(m, k)
           L == SeqLength(m, k)
           S == Run(m, q)
           pg(z) == (b + z) % N
<1>0. DOMAIN m = 0..(N - 1) /\ Ring(m) = N
  BY RingIs
<1>1. Run(m, k) = {pg(z) : z \in 0..(L - 1)}
  BY <1>0 DEF Run
<1>2. q \in 0..(N - 1) /\ m[q] = "dirty" /\ \A x \in Run(m, k) : m[x] = "dirty"
  BY <1>0, RunFacts
<1>3. L \in Nat /\ Before(m, k) \in Nat
  BY <1>0, SeqLengthFacts
<1>4. b \in Int
  BY <1>3, PageMod
<1>5. q \in S /\ S \subseteq 0..(N - 1)
  BY <1>0, <1>2, RunFacts
<1>6. ASSUME NEW x \in S
      PROVE  /\ m[(x + 1) % N] = "dirty" => (x + 1) % N \in S
             /\ m[(x - 1) % N] = "dirty" => (x - 1) % N \in S
  BY <1>0, <1>2, RunNeighbours
<1> HIDE DEF b, L, S
<1>7. ASSUME NEW z \in Int
      PROVE  (pg(z) + 1) % N = pg(z + 1) /\ (pg(z) - 1) % N = pg(z - 1)
  <2>1. b + z \in Int /\ 1 \in Int /\ -1 \in Int /\ pg(z) \in Int
    BY <1>4, DivMod
  <2>2. /\ (pg(z) + 1) % N = ((b + z) + 1) % N
        /\ (pg(z) + (-1)) % N = ((b + z) + (-1)) % N
    BY <2>1, ModOfSum
  <2> DEFINE c == pg(z)
  <2> HIDE DEF c
  <2>3. /\ (b + z) + 1 = b + (z + 1) /\ (b + z) + (-1) = b + (z - 1)
    BY <1>4
  <2>4. c \in Int /\ c + (-1) = c - 1
    BY <2>1 DEF c
  <2>5. QED
    BY <2>2, <2>3, <2>4 DEF c
<1> HIDE DEF pg
<1>8. ASSUME NEW z \in 0..(L - 1) PROVE m[pg(z)] = "dirty"
  BY <1>1, <1>2
<1>9. PICK y \in 0..(L - 1) : q = pg(y)
  BY <1>1
<1>10. ASSUME NEW z \in 0..(L - 1), z >= y PROVE pg(z) \in S
  <2> DEFINE T == {x \in 0..(L - 1) : x >= y /\ pg(x) \notin S}
  <2>1. SUFFICES ASSUME T # {} PROVE FALSE
    BY <1>10
  <2>2. T \in SUBSET Nat
    BY <1>3
  <2>3. PICK x \in T : \A w \in T : x <= w
    BY <2>1, <2>2, LeastNatural
  <2>4. x # y /\ x - 1 \in 0..(L - 1) /\ x - 1 >= y /\ x - 1 \in Int
    BY <1>3, <1>5, <1>9
  <2>5. pg(x - 1) \in S
    BY <1>3, <2>3, <2>4
  <2>6. (pg(x - 1) + 1) % N = pg(x)
    <3>1. (pg(x - 1) + 1) % N = pg(x - 1 + 1)
      BY <1>7, <2>4
    <3>2. x - 1 + 1 = x
      BY <1>3
    <3>3. QED
      BY <3>1, <3>2
  <2>7. pg(x) \in S
    BY <1>6, <1>8, <2>5, <2>6
  <2>8. QED
    BY <2>7
<1>11. ASSUME NEW z \in 0..(L - 1), z <= y PROVE pg(z) \in S
  <2> DEFINE T == {x \in 0..y : pg(y - x) \notin S}
  <2>1. SUFFICES ASSUME T # {} PROVE FALSE
    <3>1. y - z \in 0..y /\ y - (y - z) = z
      BY <1>3, <1>11
    <3>2. QED
      BY <3>1
  <2>2. T \in SUBSET Nat
    BY <1>3
  <2>3. PICK x \in T : \A w \in T : x <= w
    BY <2>1, <2>2, LeastNatural
  <2>4. y - 0 = y /\ x \in 0..y
    BY <1>3
  <2>5. x # 0 /\ x - 1 \in 0..y
    BY <1>3, <1>5, <1>9, <2>4
  <2>6. pg(y - (x - 1)) \in S
    BY <1>3, <2>3, <2>4, <2>5
  <2>7. (pg(y - (x - 1)) - 1) % N = pg(y - x)
    <3>1. y - (x - 1) \in Int /\ y - (x - 1) - 1 = y - x
      BY <1>3, <2>4
    <3>2. QED
      BY <1>7, <3>1
  <2>8. y - x \in 0..(L - 1)
    BY <1>3, <2>4
  <2>9. pg(y - x) \in S
    BY <1>6, <1>8, <2>6, <2>7, <2>8
  <2>10. QED
    BY <2>9
<1>12. \A z \in 0..(L - 1) : pg(z) \in S
  BY <1>3, <1>10, <1>11
<1>13. QED
  BY <1>1, <1>12 DEF S

(***************************************************************************)
(* A cache of fewer pages than there are has a page that is not cached.    *)
(***************************************************************************)
LEMMA HoleExists ==
  ASSUME NEW N \in Nat \ {0}, NEW m \in [0..(N - 1) -> Entry], IsFiniteSet(Keys(m)),
         Cardinality(Keys(m)) < N
  PROVE  \E hole \in 0..(N - 1) : m[hole] # "dirty" /\ hole \notin Keys(m)
<1>1. IsFiniteSet(0..(N - 1)) /\ Cardinality(0..(N - 1)) = N
  BY FS_Interval
<1>2. Keys(m) # 0..(N - 1) /\ Keys(m) \subseteq 0..(N - 1)
  <2>1. Keys(m) \subseteq 0..(N - 1)
    BY DEF Keys
  <2>2. Cardinality(Keys(m)) # N
    <3>1. Cardinality(Keys(m)) \in Nat
      BY FS_CardinalityType
    <3>2. QED
      BY <3>1
  <2>3. QED
    BY <1>1, <2>1, <2>2
<1>3. PICK hole \in 0..(N - 1) : hole \notin Keys(m)
  BY <1>2
<1>4. m[hole] = "absent"
  BY <1>3 DEF Keys
<1>5. QED
  BY <1>3, <1>4
=============================================================================
