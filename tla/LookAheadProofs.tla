-------------------------- MODULE LookAheadProofs --------------------------
(***************************************************************************)
(* What MCLookAhead checks of the policies that look into the future, for  *)
(* all pages, blocks, capacities and trace files.                          *)
(***************************************************************************)
EXTENDS MCLookAhead, StdContainersProofs
-----------------------------------------------------------------------------
(***************************************************************************)
(* The heaps. An element is taken out at a position or put in behind a     *)
(* number of others; every element has a key, and no two the same.         *)
(***************************************************************************)
Without(h, i) == SubSeq(h, 1, i - 1) \o SubSeq(h, i + 1, Len(h))
With(h, n, e) == SubSeq(h, 1, n) \o <<e>> \o SubSeq(h, n + 1, Len(h))

\* Each key in C has exactly one element, and no other key has any.
OneFor(h, key, C) ==
  /\ \A i, j \in 1..Len(h) : key[h[i]] = key[h[j]] => i = j
  /\ {key[h[i]] : i \in 1..Len(h)} = C

\* The elements of g are those of h without e, or with it.
Loses(g, h, e) == ListSet(g) = ListSet(h) \ {e}
Gains(g, h, e) == ListSet(g) = ListSet(h) \cup {e}

\* The elements of two sequences in a row.
LEMMA Joined ==
  ASSUME NEW S, NEW a \in Seq(S), NEW b \in Seq(S)
  PROVE  /\ a \o b \in Seq(S) /\ Len(a \o b) = Len(a) + Len(b)
         /\ \A j \in 1..Len(a) : (a \o b)[j] = a[j]
         /\ \A j \in 1..Len(b) : (a \o b)[Len(a) + j] = b[j]
OBVIOUS

\* The elements that are left keep their order.
LEMMA WithoutIs ==
  ASSUME NEW S, NEW h \in Seq(S), NEW i \in 1..Len(h)
  PROVE  /\ Without(h, i) \in Seq(S)
         /\ Len(Without(h, i)) = Len(h) - 1
         /\ \A j \in 1..(Len(h) - 1) :
              Without(h, i)[j] = IF j < i THEN h[j] ELSE h[j + 1]
<1> DEFINE a == SubSeq(h, 1, i - 1)
           b == SubSeq(h, i + 1, Len(h))
<1>1. /\ a \in Seq(S) /\ Len(a) = i - 1
      /\ \A j \in 1..(i - 1) : a[j] = h[j]
  OBVIOUS
<1>2. /\ b \in Seq(S) /\ Len(b) = Len(h) - i
      /\ \A j \in 1..(Len(h) - i) : b[j] = h[i + j]
  OBVIOUS
<1> HIDE DEF a, b
<1>3. /\ a \o b \in Seq(S) /\ Len(a \o b) = Len(h) - 1
      /\ \A j \in 1..(i - 1) : (a \o b)[j] = a[j]
      /\ \A j \in 1..(Len(h) - i) : (a \o b)[(i - 1) + j] = b[j]
  <2>1. /\ a \o b \in Seq(S) /\ Len(a \o b) = Len(a) + Len(b)
        /\ \A j \in 1..Len(a) : (a \o b)[j] = a[j]
        /\ \A j \in 1..Len(b) : (a \o b)[Len(a) + j] = b[j]
    <3>1. a \in Seq(S) /\ b \in Seq(S)
      BY <1>1, <1>2
    <3>2. QED
      BY <3>1, Joined
  <2>2. Len(a \o b) = Len(h) - 1
    BY <1>1, <1>2, <2>1
  <2>3. QED
    BY <1>1, <1>2, <2>1, <2>2, Zenon
<1>4. ASSUME NEW j \in 1..(Len(h) - 1)
      PROVE  (a \o b)[j] = IF j < i THEN h[j] ELSE h[j + 1]
  <2>1. CASE j < i
    BY <1>1, <1>3, <2>1
  <2>2. CASE ~(j < i)
    <3>1. /\ j - (i - 1) \in 1..(Len(h) - i) /\ i + (j - (i - 1)) = j + 1
          /\ (i - 1) + (j - (i - 1)) = j
      BY <2>2
    <3>2. QED
      BY <1>2, <1>3, <2>2, <3>1
  <2>3. QED
    BY <2>1, <2>2
<1>5. QED
  BY <1>3, <1>4 DEF Without, a, b

\* The others make room for the element that is put in.
LEMMA WithIs ==
  ASSUME NEW S, NEW h \in Seq(S), NEW n \in 0..Len(h), NEW e \in S
  PROVE  /\ With(h, n, e) \in Seq(S)
         /\ Len(With(h, n, e)) = Len(h) + 1
         /\ \A j \in 1..(Len(h) + 1) :
              With(h, n, e)[j] = IF j <= n THEN h[j]
                                 ELSE IF j = n + 1 THEN e ELSE h[j - 1]
<1> DEFINE a == SubSeq(h, 1, n)
           b == SubSeq(h, n + 1, Len(h))
<1>1. /\ a \in Seq(S) /\ Len(a) = n
      /\ \A j \in 1..n : a[j] = h[j]
  OBVIOUS
<1>2. /\ b \in Seq(S) /\ Len(b) = Len(h) - n
      /\ \A j \in 1..(Len(h) - n) : b[j] = h[n + j]
  OBVIOUS
<1> HIDE DEF a, b
<1> DEFINE c == a \o <<e>>
<1>3. /\ c \in Seq(S) /\ Len(c) = n + 1
      /\ \A j \in 1..n : c[j] = h[j]
      /\ c[n + 1] = e
  BY <1>1
<1> HIDE DEF c
<1>4. /\ c \o b \in Seq(S) /\ Len(c \o b) = Len(h) + 1
      /\ \A j \in 1..(n + 1) : (c \o b)[j] = c[j]
      /\ \A j \in 1..(Len(h) - n) : (c \o b)[(n + 1) + j] = b[j]
  <2>1. /\ c \o b \in Seq(S) /\ Len(c \o b) = Len(c) + Len(b)
        /\ \A j \in 1..Len(c) : (c \o b)[j] = c[j]
        /\ \A j \in 1..Len(b) : (c \o b)[Len(c) + j] = b[j]
    <3>1. c \in Seq(S) /\ b \in Seq(S)
      BY <1>2, <1>3
    <3>2. QED
      BY <3>1, Joined
  <2>2. Len(c \o b) = Len(h) + 1
    BY <1>2, <1>3, <2>1
  <2>3. QED
    BY <1>2, <1>3, <2>1, <2>2, Zenon
<1>5. ASSUME NEW j \in 1..(Len(h) + 1)
      PROVE  (c \o b)[j] = IF j <= n THEN h[j]
                           ELSE IF j = n + 1 THEN e ELSE h[j - 1]
  <2>1. CASE j <= n + 1
    BY <1>3, <1>4, <2>1
  <2>2. CASE ~(j <= n + 1)
    <3> DEFINE i == j - (n + 1)
    <3>1. i \in 1..(Len(h) - n) /\ n + i = j - 1 /\ (n + 1) + i = j
      BY <2>2
    <3> HIDE DEF i
    <3>2. (c \o b)[j] = h[j - 1]
      BY <1>2, <1>4, <3>1
    <3>3. QED
      BY <2>2, <3>2
  <2>3. QED
    BY <2>1, <2>2
<1>6. QED
  BY <1>4, <1>5 DEF With, a, b, c

\* The key of the element taken out has none any more.
LEMMA WithoutKeeps ==
  ASSUME NEW S, NEW h \in Seq(S), NEW i \in 1..Len(h), NEW key, NEW C,
         OneFor(h, key, C)
  PROVE  OneFor(Without(h, i), key, C \ {key[h[i]]})
<1> DEFINE g == Without(h, i)
           n == Len(h)
<1>1. n \in Nat /\ Len(g) = n - 1
      /\ \A j \in 1..(n - 1) : g[j] = IF j < i THEN h[j] ELSE h[j + 1]
  <2>1. n \in Nat
    OBVIOUS
  <2>2. QED
    BY <2>1, WithoutIs
<1>2. \A x, y \in 1..n : key[h[x]] = key[h[y]] => x = y
  BY DEF OneFor
<1> HIDE DEF g
<1>3. ASSUME NEW x \in 1..(n - 1)
      PROVE  \E y \in (1..n) \ {i} : /\ g[x] = h[y]
                                     /\ y = IF x < i THEN x ELSE x + 1
  BY <1>1
<1>4. \A x, y \in 1..Len(g) : key[g[x]] = key[g[y]] => x = y
  BY <1>1, <1>2
<1>5. ASSUME NEW y \in (1..n) \ {i}
      PROVE  \E x \in 1..(n - 1) : g[x] = h[y]
  <2>1. CASE y < i
    BY <1>1, <2>1
  <2>2. CASE ~(y < i)
    <3>1. y - 1 \in 1..(n - 1) /\ ~(y - 1 < i) /\ (y - 1) + 1 = y
      BY <1>1, <1>5, <2>2
    <3>2. QED
      BY <1>1, <3>1
  <2>3. QED
    BY <2>1, <2>2
<1>6. {key[g[x]] : x \in 1..Len(g)} = C \ {key[h[i]]}
  <2>1. ASSUME NEW x \in 1..Len(g)
        PROVE  key[g[x]] \in C \ {key[h[i]]}
    BY <1>1, <1>2, <1>3, <2>1 DEF OneFor
  <2>2. ASSUME NEW c \in C \ {key[h[i]]}
        PROVE  \E x \in 1..Len(g) : key[g[x]] = c
    <3>1. PICK y \in 1..n : key[h[y]] = c
      BY <2>2 DEF OneFor
    <3>2. QED
      BY <1>1, <1>5, <2>2, <3>1
  <2>3. QED
    BY <2>1, <2>2
<1>7. QED
  BY <1>4, <1>6 DEF OneFor, g

\* A key that is new gets its element.
LEMMA WithKeeps ==
  ASSUME NEW S, NEW h \in Seq(S), NEW n \in 0..Len(h), NEW e \in S, NEW key, NEW C,
         OneFor(h, key, C), key[e] \notin C
  PROVE  OneFor(With(h, n, e), key, C \cup {key[e]})
<1> DEFINE g == With(h, n, e)
           m == Len(h)
<1>1. m \in Nat /\ Len(g) = m + 1
      /\ \A j \in 1..(m + 1) : g[j] = IF j <= n THEN h[j]
                                      ELSE IF j = n + 1 THEN e ELSE h[j - 1]
  BY WithIs
<1>2. /\ \A x, y \in 1..m : key[h[x]] = key[h[y]] => x = y
      /\ \A x \in 1..m : key[h[x]] # key[e] /\ key[h[x]] \in C
  BY DEF OneFor
<1> HIDE DEF g
<1>3. ASSUME NEW x \in 1..(m + 1), NEW y \in 1..(m + 1), x < y
      PROVE  key[g[x]] # key[g[y]]
  <2>1. CASE y <= n
    BY <1>1, <1>2, <1>3, <2>1
  <2>2. CASE y = n + 1
    BY <1>1, <1>2, <1>3, <2>2
  <2>3. CASE y > n + 1 /\ x <= n
    BY <1>1, <1>2, <1>3, <2>3
  <2>4. CASE y > n + 1 /\ x = n + 1
    BY <1>1, <1>2, <1>3, <2>4
  <2>5. CASE x > n + 1
    BY <1>1, <1>2, <1>3, <2>5
  <2>6. QED
    BY <1>1, <2>1, <2>2, <2>3, <2>4, <2>5
<1>4. \A x, y \in 1..Len(g) : key[g[x]] = key[g[y]] => x = y
  BY <1>1, <1>3
<1>5. ASSUME NEW y \in 1..m
      PROVE  \E x \in 1..(m + 1) : g[x] = h[y]
  <2>1. CASE y <= n
    BY <1>1, <2>1
  <2>2. CASE ~(y <= n)
    <3>1. y + 1 \in 1..(m + 1) /\ ~(y + 1 <= n) /\ y + 1 # n + 1 /\ (y + 1) - 1 = y
      BY <1>1, <2>2
    <3>2. QED
      BY <1>1, <3>1
  <2>3. QED
    BY <2>1, <2>2
<1>6. {key[g[x]] : x \in 1..Len(g)} = C \cup {key[e]}
  <2>1. ASSUME NEW x \in 1..Len(g)
        PROVE  key[g[x]] \in C \cup {key[e]}
    BY <1>1, <1>2, <2>1
  <2>2. ASSUME NEW c \in C
        PROVE  \E x \in 1..Len(g) : key[g[x]] = c
    <3>1. PICK y \in 1..m : key[h[y]] = c
      BY <2>2 DEF OneFor
    <3>2. QED
      BY <1>1, <1>5, <3>1
  <2>3. n + 1 \in 1..Len(g) /\ g[n + 1] = e
    BY <1>1
  <2>4. QED
    BY <2>1, <2>2, <2>3
<1>7. QED
  BY <1>4, <1>6 DEF OneFor, g

\* The elements are those of h but the one taken out.
LEMMA WithoutLoses ==
  ASSUME NEW S, NEW h \in Seq(S), NEW i \in 1..Len(h), NEW key, NEW C,
         OneFor(h, key, C)
  PROVE  Loses(Without(h, i), h, h[i])
<1> DEFINE g == Without(h, i)
           m == Len(h)
<1>1. m \in Nat /\ Len(g) = m - 1
      /\ \A j \in 1..(m - 1) : g[j] = IF j < i THEN h[j] ELSE h[j + 1]
  <2>1. m \in Nat
    OBVIOUS
  <2>2. QED
    BY <2>1, WithoutIs
<1> HIDE DEF g
<1>2. ASSUME NEW j \in 1..(m - 1)
      PROVE  \E x \in (1..m) \ {i} : g[j] = h[x]
  BY <1>1
<1>3. ASSUME NEW j \in 1..(m - 1)
      PROVE  g[j] \in ListSet(h) \ {h[i]}
  <2>1. PICK x \in (1..m) \ {i} : g[j] = h[x]
    BY <1>2
  <2>2. h[x] # h[i]
    BY <2>1 DEF OneFor
  <2>3. QED
    BY <2>1, <2>2 DEF ListSet
<1>4. ASSUME NEW x \in (1..m) \ {i}
      PROVE  \E j \in 1..(m - 1) : g[j] = h[x]
  <2>1. CASE x < i
    BY <1>1, <2>1
  <2>2. CASE ~(x < i)
    <3>1. x - 1 \in 1..(m - 1) /\ ~(x - 1 < i) /\ (x - 1) + 1 = x
      BY <1>1, <1>4, <2>2
    <3>2. QED
      BY <1>1, <3>1
  <2>3. QED
    BY <2>1, <2>2
<1>5. ASSUME NEW e \in ListSet(h), e # h[i]
      PROVE  e \in ListSet(g)
  <2>1. PICK x \in (1..m) \ {i} : e = h[x]
    BY <1>5 DEF ListSet
  <2>2. PICK j \in 1..(m - 1) : g[j] = h[x]
    BY <1>4
  <2>3. j \in 1..Len(g) /\ g[j] = e
    BY <1>1, <2>1, <2>2
  <2>4. QED
    BY <2>3 DEF ListSet
<1>6. \A e \in ListSet(g) : e \in ListSet(h) \ {h[i]}
  BY <1>1, <1>3 DEF ListSet
<1>7. QED
  BY <1>5, <1>6 DEF Loses, g

\* The elements are those of h and the one put in.
LEMMA WithGains ==
  ASSUME NEW S, NEW h \in Seq(S), NEW n \in 0..Len(h), NEW e \in S
  PROVE  Gains(With(h, n, e), h, e)
<1> DEFINE g == With(h, n, e)
           m == Len(h)
<1>1. m \in Nat /\ Len(g) = m + 1
      /\ \A j \in 1..(m + 1) : g[j] = IF j <= n THEN h[j]
                                      ELSE IF j = n + 1 THEN e ELSE h[j - 1]
  <2>1. m \in Nat
    OBVIOUS
  <2>2. QED
    BY <2>1, WithIs
<1> HIDE DEF g
<1>2. ASSUME NEW j \in 1..(m + 1)
      PROVE  g[j] = e \/ \E i \in 1..m : g[j] = h[i]
  BY <1>1
<1>3. ASSUME NEW x \in 1..m
      PROVE  \E j \in 1..(m + 1) : g[j] = h[x]
  <2>1. CASE x <= n
    BY <1>1, <2>1
  <2>2. CASE ~(x <= n)
    <3>1. x + 1 \in 1..(m + 1) /\ ~(x + 1 <= n) /\ x + 1 # n + 1 /\ (x + 1) - 1 = x
      BY <1>1, <2>2
    <3>2. QED
      BY <1>1, <3>1
  <2>3. QED
    BY <2>1, <2>2
<1>4. n + 1 \in 1..(m + 1) /\ g[n + 1] = e
  BY <1>1
<1>5. \A x \in ListSet(g) : x \in ListSet(h) \cup {e}
  BY <1>1, <1>2 DEF ListSet
<1>6. \A x \in ListSet(h) : x \in ListSet(g)
  BY <1>1, <1>3 DEF ListSet
<1>7. e \in ListSet(g)
  BY <1>1, <1>4 DEF ListSet
<1>8. ListSet(g) = ListSet(h) \cup {e}
  BY <1>5, <1>6, <1>7
<1>9. QED
  BY <1>8 DEF Gains, g

\* There are as many elements as keys.
LEMMA OneForCounts ==
  ASSUME NEW S, NEW h \in Seq(S), NEW key, NEW C, OneFor(h, key, C)
  PROVE  IsFiniteSet(C) /\ Cardinality(C) = Len(h)
<1> DEFINE f == [i \in 1..Len(h) |-> key[h[i]]]
<1>1. f \in [1..Len(h) -> C] /\ Len(h) \in Nat
  BY DEF OneFor
<1>2. f \in Injection(1..Len(h), C)
  BY <1>1, Fun_IsInj DEF OneFor
<1>3. f \in Surjection(1..Len(h), C)
  <2>1. \A c \in C : \E i \in 1..Len(h) : f[i] = c
    BY DEF OneFor
  <2>2. QED
    BY <1>1, <2>1, Fun_IsSurj
<1>4. IsFiniteSet(1..Len(h)) /\ Cardinality(1..Len(h)) = Len(h)
  BY <1>1, CountUpTo
<1> HIDE DEF f
<1>5. QED
  BY <1>2, <1>3, <1>4, FS_Surjection
-----------------------------------------------------------------------------
(***************************************************************************)
(* The trace. The requests of a line are for different pages of one block, *)
(* and the lines are in order.                                             *)
(***************************************************************************)
BlockNumbers == {page \div ssd2fsblkRatio : page \in Page}
Access == [fsblkno : Page, ssdblkno : BlockNumbers, lineNo : 1..(INF - 1),
           op : {"READ", "WRITE"}]

Ordered(t) ==
  /\ \A i, j \in 1..Len(t) : i < j => t[i].lineNo <= t[j].lineNo
  /\ \A i, j \in 1..Len(t) : t[i].lineNo = t[j].lineNo =>
       /\ t[i].ssdblkno = t[j].ssdblkno
       /\ t[i].fsblkno = t[j].fsblkno => i = j

Proper(t) ==
  /\ t \in Seq(Access)
  /\ \A i \in 1..Len(t) : t[i].ssdblkno = t[i].fsblkno \div ssd2fsblkRatio
  /\ Ordered(t)

TraceConstants ==
  /\ Page \in SUBSET Nat /\ IsFiniteSet(Page)
  /\ ssd2fsblkRatio \in Nat \ {0} /\ INF \in Nat \ {0}

\* Induction over the natural numbers, for a set of them.
LEMMA AllNaturals ==
  ASSUME NEW T \in SUBSET Nat, 0 \in T, \A n \in T : n + 1 \in T
  PROVE  T = Nat
<1>1. SUFFICES ASSUME T # Nat PROVE FALSE
  OBVIOUS
<1>2. PICK x \in Nat \ T : \A y \in Nat \ T : x <= y
  <2>1. Nat \ T \in SUBSET Nat /\ Nat \ T # {}
    BY <1>1
  <2>2. QED
    BY <2>1, LeastNatural
<1>3. x - 1 \in Nat /\ x - 1 \notin Nat \ T
  BY <1>2
<1>4. QED
  BY <1>2, <1>3

\* The requests of the first lines: what Expand() builds up.
Builds(rs, g) ==
  g = [i \in 0..Len(rs) |-> IF i = 0 THEN <<>> ELSE g[i - 1] \o PageMIN!Atoms(rs[i], i)]

\* Expand() is the last element of a list that is built so.
LEMMA ExpandBuilds ==
  ASSUME NEW S, NEW rs \in Seq(S)
  PROVE  \E g : Builds(rs, g) /\ PageMIN!Expand(rs) = g[Len(rs)]
<1> DEFINE To(n, g) == g = [i \in 0..n |-> IF i = 0 THEN <<>>
                                           ELSE g[i - 1] \o PageMIN!Atoms(rs[i], i)]
           T == {n \in Nat : \E g : To(n, g)}
<1>1. 0 \in T
  <2> DEFINE g == [i \in 0..0 |-> <<>>]
  <2>1. g = [i \in 0..0 |-> IF i = 0 THEN <<>> ELSE g[i - 1] \o PageMIN!Atoms(rs[i], i)]
    OBVIOUS
  <2>2. To(0, g)
    BY <2>1
  <2> HIDE DEF g, To
  <2>3. QED
    BY <2>2
<1>2. ASSUME NEW n \in T
      PROVE  n + 1 \in T
  <2>1. n \in Nat
    OBVIOUS
  <2>2. PICK g : To(n, g)
    OBVIOUS
  <2>3. /\ DOMAIN g = 0..n
        /\ \A i \in 0..n : g[i] = IF i = 0 THEN <<>>
                                  ELSE g[i - 1] \o PageMIN!Atoms(rs[i], i)
    BY <2>2
  <2> DEFINE f == [i \in 0..(n + 1) |-> IF i <= n THEN g[i]
                                        ELSE g[n] \o PageMIN!Atoms(rs[n + 1], n + 1)]
  <2>4. ASSUME NEW i \in 0..(n + 1)
        PROVE  f[i] = IF i = 0 THEN <<>> ELSE f[i - 1] \o PageMIN!Atoms(rs[i], i)
    <3>1. CASE i = 0
      BY <2>1, <2>3, <3>1
    <3>2. CASE i \in 1..n
      <4>1. f[i] = g[i] /\ f[i - 1] = g[i - 1] /\ i \in 0..n /\ i # 0
        BY <2>1, <3>2
      <4>2. QED
        BY <2>3, <4>1
    <3>3. CASE i = n + 1
      <4>1. f[i] = g[n] \o PageMIN!Atoms(rs[n + 1], n + 1) /\ f[n] = g[n]
        BY <2>1, <3>3
      <4>2. i - 1 = n /\ i # 0
        BY <2>1, <3>3
      <4>3. QED
        BY <3>3, <4>1, <4>2
    <3>4. QED
      BY <2>1, <3>1, <3>2, <3>3
  <2>5. f = [i \in 0..(n + 1) |-> f[i]]
    OBVIOUS
  <2> HIDE DEF f
  <2>6. To(n + 1, f)
    BY <2>4, <2>5
  <2> HIDE DEF To
  <2>7. QED
    BY <2>1, <2>6
<1>3. T = Nat
  <2>1. T \in SUBSET Nat
    OBVIOUS
  <2> HIDE DEF T
  <2>2. QED
    BY <1>1, <1>2, <2>1, AllNaturals
<1>4. \E g : Builds(rs, g)
  <2>1. Len(rs) \in Nat
    OBVIOUS
  <2>2. \E g : To(Len(rs), g)
    BY <1>3, <2>1
  <2>3. QED
    BY <2>2 DEF Builds
<1> DEFINE upTo == CHOOSE g : Builds(rs, g)
<1>5. Builds(rs, upTo)
  BY <1>4
<1>6. PageMIN!Expand(rs) = upTo[Len(rs)]
  BY DEF PageMIN!Expand, Builds
<1> HIDE DEF upTo
<1>7. QED
  BY <1>5, <1>6

\* The requests of one line.
LEMMA AtomsFacts ==
  ASSUME TraceConstants, NEW r \in PageMIN!Request, NEW line \in 1..(INF - 1)
  PROVE  /\ PageMIN!Atoms(r, line) \in Seq(Access)
         /\ \A i \in 1..Len(PageMIN!Atoms(r, line)) :
              LET a == PageMIN!Atoms(r, line)[i]
              IN  /\ a.fsblkno = r.page + i - 1
                  /\ a.ssdblkno = a.fsblkno \div ssd2fsblkRatio
                  /\ a.ssdblkno = r.page \div ssd2fsblkRatio
                  /\ a.lineNo = line
         /\ r.page \in Nat
<1> DEFINE b == PageMIN!Atoms(r, line)
<1>1. /\ r.page \in Page /\ r.page \in Nat /\ r.size \in Nat
      /\ r.op \in {"READ", "WRITE"}
      /\ \A q \in r.page..(r.page + r.size - 1) :
           q \in Page /\ q \div ssd2fsblkRatio = r.page \div ssd2fsblkRatio
  <2>0. r.page \in Page /\ r.size \in 1..ssd2fsblkRatio /\ r.op \in {"READ", "WRITE"}
    BY DEF PageMIN!Request
  <2>1. /\ PageMIN!Extent(r.page, r.size) \subseteq Page
        /\ \A q \in PageMIN!Extent(r.page, r.size) :
             PageMIN!BlockOf(q) = PageMIN!BlockOf(r.page)
    BY DEF PageMIN!Request
  <2>2. Page \subseteq Nat /\ ssd2fsblkRatio \in Nat
    BY DEF TraceConstants
  <2>3. r.page \in Nat /\ r.size \in Nat
    <3>1. r.page \in Nat
      BY <2>0, <2>2
    <3> DEFINE size == r.size
    <3>2. size \in 1..ssd2fsblkRatio
      BY <2>0
    <3> HIDE DEF size
    <3>3. size \in Nat
      BY <2>2, <3>2
    <3>4. QED
      BY <3>1, <3>3 DEF size
  <2>4. QED
    BY <2>0, <2>1, <2>3 DEF PageMIN!Extent, PageMIN!BlockOf
<1>2. b = [i \in 1..r.size |->
            [fsblkno |-> r.page + i - 1, ssdblkno |-> r.page \div ssd2fsblkRatio,
             lineNo |-> line, op |-> r.op]]
  BY DEF PageMIN!Atoms, PageMIN!BlockOf
<1>3. \A i \in 1..r.size : /\ r.page + i - 1 \in Page
                           /\ (r.page + i - 1) \div ssd2fsblkRatio
                                = r.page \div ssd2fsblkRatio
  BY <1>1
<1>4. r.page \div ssd2fsblkRatio \in BlockNumbers
  BY <1>1 DEF BlockNumbers
<1> HIDE DEF b
<1>5. \A i \in 1..r.size : b[i] \in Access
  BY <1>1, <1>2, <1>3, <1>4 DEF Access
<1>6. b \in Seq(Access) /\ Len(b) = r.size
  <2>1. DOMAIN b = 1..r.size /\ b = [i \in 1..r.size |-> b[i]]
    BY <1>2
  <2>2. b \in [1..r.size -> Access]
    BY <1>5, <2>1
  <2>3. QED
    BY <1>1, <2>2
<1>7. QED
  BY <1>1, <1>2, <1>3, <1>6 DEF b

\* A trace file makes a proper trace.
LEMMA ExpandProper ==
  ASSUME TraceConstants,
         NEW rs \in Seq(PageMIN!Request), Len(rs) < INF
  PROVE  Proper(PageMIN!Expand(rs))
<1>1. PICK g : Builds(rs, g) /\ PageMIN!Expand(rs) = g[Len(rs)]
  BY ExpandBuilds
<1> DEFINE L == Len(rs)
<1>2. L \in Nat /\ INF \in Nat /\ L < INF
  BY DEF TraceConstants
<1>3. \A i \in 0..L : g[i] = IF i = 0 THEN <<>> ELSE g[i - 1] \o PageMIN!Atoms(rs[i], i)
  BY <1>1 DEF Builds
<1> DEFINE P(i) == Proper(g[i]) /\ \A j \in 1..Len(g[i]) : g[i][j].lineNo <= i
           T == {i \in Nat : i <= L => P(i)}
<1>4. 0 \in T
  <2>1. g[0] = <<>>
    BY <1>2, <1>3
  <2>2. Len(g[0]) = 0 /\ g[0] \in Seq(Access)
    BY <2>1
  <2>3. Proper(g[0])
    BY <2>2 DEF Proper, Ordered
  <2>4. QED
    BY <2>2, <2>3
<1>5. ASSUME NEW i \in T
      PROVE  i + 1 \in T
  <2>1. SUFFICES ASSUME i + 1 <= L PROVE P(i + 1)
    OBVIOUS
  <2>2. i \in Nat /\ P(i) /\ i + 1 \in 1..(INF - 1) /\ rs[i + 1] \in PageMIN!Request
    BY <1>2, <2>1
  <2> DEFINE a == g[i]
             b == PageMIN!Atoms(rs[i + 1], i + 1)
             r == rs[i + 1]
  <2>3. g[i + 1] = a \o b
    <3>1. i + 1 \in 0..L /\ i + 1 # 0 /\ (i + 1) - 1 = i
      BY <1>2, <2>1, <2>2
    <3>2. QED
      BY <1>3, <3>1
  <2>4. /\ a \in Seq(Access) /\ Ordered(a)
        /\ \A j \in 1..Len(a) : /\ a[j].ssdblkno = a[j].fsblkno \div ssd2fsblkRatio
                                /\ a[j].lineNo <= i /\ a[j].lineNo \in Nat
    <3>1. /\ a \in Seq(Access) /\ Ordered(a)
          /\ \A j \in 1..Len(a) : /\ a[j].ssdblkno = a[j].fsblkno \div ssd2fsblkRatio
                                  /\ a[j].lineNo <= i
      BY <2>2 DEF Proper
    <3> HIDE DEF a
    <3>2. ASSUME NEW j \in 1..Len(a) PROVE a[j].lineNo \in Nat
      <4>1. a[j] \in Access
        BY <3>1
      <4>2. QED
        BY <1>2, <4>1 DEF Access
    <3>3. QED
      BY <3>1, <3>2
  <2>5. /\ b \in Seq(Access) /\ r.page \in Nat
        /\ \A j \in 1..Len(b) : /\ b[j].fsblkno = r.page + j - 1
                                /\ b[j].ssdblkno = b[j].fsblkno \div ssd2fsblkRatio
                                /\ b[j].ssdblkno = r.page \div ssd2fsblkRatio
                                /\ b[j].lineNo = i + 1
    BY <2>2, AtomsFacts
  <2> HIDE DEF a, b, r
  <2> DEFINE c == a \o b
             m == Len(a)
             n == Len(b)
  <2>6. /\ c \in Seq(Access) /\ Len(c) = m + n /\ m \in Nat /\ n \in Nat
        /\ \A j \in 1..m : c[j] = a[j]
        /\ \A j \in 1..n : c[m + j] = b[j]
    BY <2>4, <2>5, Joined
  <2> HIDE DEF c
  <2>7. \A x \in 1..(m + n) : x \in 1..m \/ (x - m \in 1..n /\ c[x] = b[x - m])
    <3>1. ASSUME NEW x \in 1..(m + n), x \notin 1..m
          PROVE  x - m \in 1..n /\ m + (x - m) = x
      BY <2>6, <3>1
    <3>2. QED
      BY <2>6, <3>1
  <2>8. ASSUME NEW x \in 1..Len(c)
        PROVE  /\ c[x].ssdblkno = c[x].fsblkno \div ssd2fsblkRatio
               /\ c[x].lineNo <= i + 1
    <3>1. CASE x \in 1..m
      <4>1. c[x] = a[x] /\ a[x].lineNo <= i /\ a[x].lineNo \in Nat
        BY <2>4, <2>6, <3>1
      <4>2. QED
        BY <2>2, <2>4, <3>1, <4>1
    <3>2. CASE x \notin 1..m
      <4>1. x - m \in 1..n /\ c[x] = b[x - m]
        BY <2>6, <2>7, <3>2
      <4>2. b[x - m].lineNo = i + 1
        BY <2>5, <4>1
      <4>3. QED
        BY <2>2, <2>5, <4>1, <4>2
    <3>3. QED
      BY <3>1, <3>2
  <2>9. Ordered(c)
    <3>1. ASSUME NEW x \in 1..Len(c), NEW y \in 1..Len(c), x < y
          PROVE  /\ c[x].lineNo <= c[y].lineNo
                 /\ c[x].lineNo = c[y].lineNo => /\ c[x].ssdblkno = c[y].ssdblkno
                                                 /\ c[x].fsblkno # c[y].fsblkno
      <4>1. CASE y \in 1..m
        <5>1. x \in 1..m /\ c[x] = a[x] /\ c[y] = a[y]
          BY <2>6, <3>1, <4>1
        <5>2. QED
          BY <2>4, <3>1, <4>1, <5>1 DEF Ordered
      <4>2. CASE x \in 1..m /\ y \notin 1..m
        <5>1. c[x].lineNo <= i /\ c[x].lineNo \in Nat
          BY <2>4, <2>6, <4>2
        <5>2. y - m \in 1..n /\ c[y] = b[y - m]
          BY <2>6, <2>7, <4>2
        <5>3. c[y].lineNo = i + 1
          BY <2>5, <5>2
        <5>4. QED
          BY <2>2, <5>1, <5>3
      <4>3. CASE x \notin 1..m
        <5>1. /\ x - m \in 1..n /\ c[x] = b[x - m]
              /\ y - m \in 1..n /\ c[y] = b[y - m]
          BY <2>6, <2>7, <3>1, <4>3
        <5>2. /\ c[x].lineNo = i + 1 /\ c[y].lineNo = i + 1
              /\ c[x].ssdblkno = c[y].ssdblkno
              /\ c[x].fsblkno = r.page + (x - m) - 1
              /\ c[y].fsblkno = r.page + (y - m) - 1
          BY <2>5, <5>1
        <5>3. QED
          BY <2>2, <2>5, <2>6, <3>1, <5>2
      <4>4. QED
        BY <4>1, <4>2, <4>3
    <3>2. Len(c) \in Nat
      BY <2>6
    <3>3. ASSUME NEW x \in 1..Len(c), NEW y \in 1..Len(c), c[x].lineNo = c[y].lineNo
          PROVE  /\ c[x].ssdblkno = c[y].ssdblkno
                 /\ c[x].fsblkno = c[y].fsblkno => x = y
      <4>1. x < y \/ y < x \/ x = y
        BY <3>2
      <4>2. QED
        BY <3>1, <3>3, <4>1
    <3>4. QED
      BY <3>1, <3>3 DEF Ordered
  <2>10. Proper(c)
    BY <2>6, <2>8, <2>9 DEF Proper
  <2>11. g[i + 1] = c
    BY <2>3 DEF c
  <2>12. QED
    BY <2>8, <2>10, <2>11
<1>6. T = Nat
  <2>1. T \in SUBSET Nat
    OBVIOUS
  <2> HIDE DEF T
  <2>2. QED
    BY <1>4, <1>5, <2>1, AllNaturals
<1>7. L \in T
  BY <1>2, <1>6
<1>8. QED
  BY <1>1, <1>2, <1>7
-----------------------------------------------------------------------------
(***************************************************************************)
(* The table of accesses. I is the set of the positions of a key's         *)
(* requests, Queue(I) the queue of their lines, and NextLine(I, p) the     *)
(* line of the first of them that is not before position p.                *)
(***************************************************************************)
Lowest(K) == CHOOSE i \in K : \A j \in K : i <= j

From(I, p) == {i \in I : p <= i}
NextLine(I, p) == IF From(I, p) = {} THEN INF ELSE trace[Lowest(From(I, p))].lineNo

Queue(I) == [j \in 1..Cardinality(I) |-> trace[Nth(I, j)].lineNo]
Behind(q, line) == {j \in 1..Len(q) : q[j] > line}
NextInQueue(q, line) ==
  IF Behind(q, line) = {} THEN INF ELSE q[Lowest(Behind(q, line))]

\* A set of natural numbers has a lowest one.
LEMMA LowestIs ==
  ASSUME NEW K \in SUBSET Nat, NEW i \in K
  PROVE  /\ Lowest(K) \in K
         /\ \A j \in K : Lowest(K) <= j
         /\ (\A j \in K : i <= j) => Lowest(K) = i
<1>1. \E x \in K : \A y \in K : x <= y
  BY LeastNatural
<1>2. Lowest(K) \in K /\ \A j \in K : Lowest(K) <= j
  BY <1>1 DEF Lowest
<1>3. ASSUME \A j \in K : i <= j
      PROVE  Lowest(K) = i
  <2>1. Lowest(K) \in Nat /\ i \in Nat /\ i <= Lowest(K) /\ Lowest(K) <= i
    BY <1>2, <1>3
  <2>2. QED
    BY <2>1
<1>4. QED
  BY <1>2, <1>3

\* Positions are natural numbers.
LEMMA FromIs ==
  ASSUME NEW n \in Nat, NEW I \in SUBSET (1..n), NEW p
  PROVE  From(I, p) \in SUBSET Nat /\ From(I, p) \in SUBSET (1..n)
<1>1. ASSUME NEW x \in From(I, p)
      PROVE  x \in 1..n /\ x \in Nat
  BY DEF From
<1>2. QED
  BY <1>1

\* The line of the next access is a line, or INF.
LEMMA NextLineIs ==
  ASSUME INF \in Nat \ {0}, Proper(trace), NEW I \in SUBSET (1..Len(trace)),
         NEW p \in Nat
  PROVE  /\ NextLine(I, p) \in 1..INF
         /\ NextLine(I, p) = INF <=> From(I, p) = {}
<1>1. INF \in Nat \ {0} /\ Len(trace) \in Nat
  BY DEF Proper
<1>2. CASE From(I, p) = {}
  BY <1>1, <1>2 DEF NextLine
<1>3. CASE From(I, p) # {}
  <2>1. PICK i \in From(I, p) : TRUE
    BY <1>3
  <2>2. From(I, p) \in SUBSET Nat
    BY <1>1, FromIs
  <2>3. Lowest(From(I, p)) \in 1..Len(trace)
    BY <2>1, <2>2, LowestIs DEF From
  <2>4. trace[Lowest(From(I, p))] \in Access
    BY <2>3 DEF Proper
  <2>5. NextLine(I, p) \in 1..(INF - 1)
    BY <1>3, <2>4 DEF NextLine, Access
  <2>6. QED
    BY <1>1, <1>3, <2>5
<1>4. QED
  BY <1>2, <1>3

\* What is behind a request's line in the queue are the requests behind it in
\* the trace, if none of them is in the same line.
LEMMA NextInQueueIs ==
  ASSUME Proper(trace), NEW I \in SUBSET (1..Len(trace)), NEW p \in 1..Len(trace),
         \A i \in I : p < i => trace[p].lineNo # trace[i].lineNo
  PROVE  /\ NextInQueue(Queue(I), trace[p].lineNo) = NextLine(I, p + 1)
         /\ Behind(Queue(I), trace[p].lineNo) = {} <=> From(I, p + 1) = {}
<1> DEFINE n == Cardinality(I)
           q == Queue(I)
           line == trace[p].lineNo
           B == Behind(q, line)
           F == From(I, p + 1)
<1>1. /\ IsFiniteSet(I) /\ n \in Nat
      /\ \A j \in 1..n : Nth(I, j) \in I
      /\ \A i, j \in 1..n : i < j => Nth(I, i) < Nth(I, j)
      /\ \A i \in I : \E j \in 1..n : Nth(I, j) = i
  <2>1. Len(trace) \in Nat
    BY DEF Proper
  <2>2. QED
    BY <2>1, NthFacts
<1>2. Len(q) = n /\ \A j \in 1..n : q[j] = trace[Nth(I, j)].lineNo
  BY <1>1 DEF Queue
<1>3. ASSUME NEW i \in I
      PROVE  trace[i].lineNo > line <=> p + 1 <= i
  <2>1. i \in 1..Len(trace) /\ trace[i] \in Access /\ trace[p] \in Access
    BY DEF Proper
  <2>2. trace[i].lineNo \in Int /\ trace[p].lineNo \in Int /\ i \in Int /\ p \in Int
    BY <2>1 DEF Access
  <2>3. CASE p < i
    <3>1. trace[p].lineNo <= trace[i].lineNo /\ trace[p].lineNo # trace[i].lineNo
      BY <2>1, <2>3 DEF Proper, Ordered
    <3>2. QED
      BY <2>2, <2>3, <3>1
  <2>4. CASE i <= p
    <3>1. trace[i].lineNo <= trace[p].lineNo
      BY <2>1, <2>2, <2>4 DEF Proper, Ordered
    <3>2. QED
      BY <2>2, <2>4, <3>1
  <2>5. QED
    BY <2>2, <2>3, <2>4
<1>4. \A j \in 1..n : j \in B <=> Nth(I, j) \in F
  <2>1. ASSUME NEW j \in 1..n
        PROVE  j \in B <=> Nth(I, j) \in F
    <3>1. j \in B <=> q[j] > line
      BY <1>2 DEF Behind
    <3>2. Nth(I, j) \in F <=> p + 1 <= Nth(I, j)
      BY <1>1 DEF From
    <3>3. QED
      BY <1>1, <1>2, <1>3, <3>1, <3>2
  <2>2. QED
    BY <2>1
<1>5. B \subseteq 1..n /\ F \subseteq I
  BY <1>2 DEF Behind, From
<1>6. B = {} <=> F = {}
  BY <1>1, <1>4, <1>5
<1>7. ASSUME B # {}
      PROVE  q[Lowest(B)] = trace[Lowest(F)].lineNo
  <2>1. B \in SUBSET Nat
    BY <1>1, <1>5
  <2>2. Lowest(B) \in B /\ \A j \in B : Lowest(B) <= j
    BY <1>7, <2>1, LowestIs
  <2> DEFINE a == Lowest(B)
  <2>3. a \in 1..n /\ Nth(I, a) \in F
    BY <1>4, <1>5, <2>2
  <2>4. \A i \in F : Nth(I, a) <= i
    <3>1. SUFFICES ASSUME NEW i \in F PROVE Nth(I, a) <= i
      OBVIOUS
    <3>2. PICK j \in 1..n : Nth(I, j) = i
      BY <1>1, <1>5
    <3>3. a <= j
      BY <1>4, <2>2, <3>2
    <3>4. a < j \/ a = j
      BY <1>1, <2>3, <3>3
    <3>5. Nth(I, a) < Nth(I, j) \/ Nth(I, a) = Nth(I, j)
      BY <1>1, <2>3, <3>4
    <3>6. Nth(I, a) \in I /\ i \in I
      BY <1>1, <1>5, <2>3
    <3>7. Nth(I, a) \in Int /\ i \in Int
      <4>1. \A x \in I : x \in 1..Len(trace)
        OBVIOUS
      <4>2. \A x \in 1..Len(trace) : x \in Int
        OBVIOUS
      <4>3. QED
        BY <3>6, <4>1, <4>2, Zenon
    <3>8. QED
      BY <3>2, <3>5, <3>7
  <2>5. F \in SUBSET Nat
    <3>1. Len(trace) \in Nat
      BY DEF Proper
    <3>2. QED
      BY <3>1, FromIs
  <2>6. Lowest(F) = Nth(I, a)
    BY <2>3, <2>4, <2>5, LowestIs
  <2>7. QED
    BY <1>2, <2>3, <2>6
<1>8. NextInQueue(q, line) = NextLine(I, p + 1)
  BY <1>6, <1>7 DEF NextInQueue, NextLine
<1>9. QED
  BY <1>6, <1>8

\* A key whose queue is empty is not in the trace.
LEMMA EmptyQueue ==
  ASSUME NEW n \in Nat, NEW I \in SUBSET (1..n), Queue(I) = <<>>
  PROVE  I = {}
<1>1. IsFiniteSet(I) /\ Cardinality(I) \in Nat
  BY NthFacts
<1>2. Len(Queue(I)) = Cardinality(I)
  BY <1>1 DEF Queue
<1>3. Cardinality(I) = 0
  BY <1>2
<1>4. QED
  BY <1>1, <1>3, FS_EmptySet

\* at is the set of the positions of each key. A key whose queue has been
\* erased has no request from position p on.
Table(T, at, p) ==
  /\ DOMAIN T = DOMAIN at
  /\ \A k \in DOMAIN at :
       /\ T[k] = Queue(at[k]) \/ T[k] = <<>>
       /\ T[k] = <<>> => From(at[k], p) = {}

\* The request at p is the last one of its line for its key.
EndsLine(I, p) == \A i \in I : p < i => trace[p].lineNo # trace[i].lineNo

\* The next access of a key does not change with a request for another one.
LEMMA NextLineMoves ==
  ASSUME Proper(trace), NEW I \in SUBSET (1..Len(trace)), NEW p \in Nat
  PROVE  /\ p \notin I => NextLine(I, p + 1) = NextLine(I, p)
                          /\ From(I, p + 1) = From(I, p)
         /\ p \in I => NextLine(I, p) = trace[p].lineNo /\ From(I, p) # {}
         /\ From(I, p) = {} => From(I, p + 1) = {}
<1>1. Len(trace) \in Nat
  BY DEF Proper
<1>2. \A i \in I : i \in Nat
  <2>1. \A i \in 1..Len(trace) : i \in Nat
    BY <1>1
  <2>2. QED
    BY <2>1
<1>3. p \notin I => From(I, p + 1) = From(I, p)
  <2>1. SUFFICES ASSUME p \notin I
                 PROVE  \A i \in I : p + 1 <= i <=> p <= i
    BY DEF From
  <2>2. \A i \in I : i # p
    BY <2>1
  <2>3. QED
    BY <1>2, <2>2
<1>4. ASSUME p \in I PROVE NextLine(I, p) = trace[p].lineNo /\ From(I, p) # {}
  <2>1. p \in From(I, p) /\ \A j \in From(I, p) : p <= j
    BY <1>4 DEF From
  <2>2. From(I, p) \in SUBSET Nat
    BY <1>1, FromIs
  <2>3. Lowest(From(I, p)) = p
    BY <2>1, <2>2, LowestIs
  <2>4. QED
    BY <2>1, <2>3 DEF NextLine
<1>5. From(I, p) = {} => From(I, p + 1) = {}
  <2>1. \A i \in I : p + 1 <= i => p <= i
    BY <1>2
  <2>2. QED
    BY <2>1 DEF From
<1>6. QED
  BY <1>3, <1>4, <1>5 DEF NextLine

\* The table is right of the rest of the trace too.
LEMMA TableStays ==
  ASSUME Proper(trace), NEW T, NEW at, NEW p \in Nat, Table(T, at, p),
         \A k \in DOMAIN at : at[k] \in SUBSET (1..Len(trace))
  PROVE  Table(T, at, p + 1)
BY NextLineMoves DEF Table

\* A key is found when it is requested, with the line of its next access.
LEMMA LookedUp ==
  ASSUME Proper(trace), NEW T, NEW at, NEW p \in 1..Len(trace), Table(T, at, p),
         \A j \in DOMAIN at : at[j] \in SUBSET (1..Len(trace)),
         NEW k \in DOMAIN at, p \in at[k]
  PROVE  /\ T[k] # <<>>
         /\ EndsLine(at[k], p) =>
              /\ NextInQueue(T[k], trace[p].lineNo) = NextLine(at[k], p + 1)
              /\ Table(IF Behind(T[k], trace[p].lineNo) = {}
                       THEN [T EXCEPT ![k] = <<>>] ELSE T, at, p + 1)
<1>0. p \in Nat
  OBVIOUS
<1>1. From(at[k], p) # {}
  <2>1. at[k] \in SUBSET (1..Len(trace))
    OBVIOUS
  <2>2. QED
    BY <1>0, <2>1, NextLineMoves
<1>2. T[k] # <<>> /\ T[k] = Queue(at[k])
  BY <1>1 DEF Table
<1>3. ASSUME EndsLine(at[k], p)
      PROVE  /\ NextInQueue(T[k], trace[p].lineNo) = NextLine(at[k], p + 1)
             /\ Behind(T[k], trace[p].lineNo) = {} <=> From(at[k], p + 1) = {}
  <2>1. \A i \in at[k] : p < i => trace[p].lineNo # trace[i].lineNo
    BY <1>3 DEF EndsLine
  <2>2. QED
    BY <1>2, <2>1, NextInQueueIs
<1>4. Table(T, at, p + 1)
  BY <1>0, TableStays
<1>5. ASSUME EndsLine(at[k], p), Behind(T[k], trace[p].lineNo) = {}
      PROVE  Table([T EXCEPT ![k] = <<>>], at, p + 1)
  <2>1. From(at[k], p + 1) = {}
    BY <1>3, <1>5
  <2>2. QED
    BY <1>4, <2>1 DEF Table
<1>6. QED
  BY <1>2, <1>3, <1>4, <1>5
-----------------------------------------------------------------------------
(***************************************************************************)
(* The heap of both MINs: the entries of keys of K, later lines first.     *)
(***************************************************************************)
HeapElement(K) == [lineNo : 1..INF, key : K]
HeapKey == [e \in HeapElement(Nat) |-> e.key]
HeapEntry(line, k) == [lineNo |-> line, key |-> k]
HeapPlace(h, line) == Cardinality({i \in 1..Len(h) : h[i].lineNo >= line})

Filed(h, line, k) == With(h, HeapPlace(h, line), HeapEntry(line, k))

\* The keys of the entries.
Covers(h, C) == {h[i].key : i \in 1..Len(h)} = C

LaterFirst(h) == \A i, j \in 1..Len(h) : i < j => h[i].lineNo >= h[j].lineNo

\* The heap has one entry for each key in C.
Heap(h, K, C) == h \in Seq(HeapElement(K)) /\ LaterFirst(h) /\ OneFor(h, HeapKey, C)

\* There is nothing in an empty heap.
LEMMA EmptyHeap ==
  ASSUME NEW K
  PROVE  Heap(<<>>, K, {}) /\ ListSet(<<>>) = {} /\ Len(<<>>) = 0
BY DEF Heap, LaterFirst, OneFor, ListSet

\* A new entry has a place among the others.
LEMMA HeapPlaceIs ==
  ASSUME NEW S, NEW h \in Seq(S), NEW line
  PROVE  HeapPlace(h, line) \in 0..Len(h)
<1> DEFINE K == {i \in 1..Len(h) : h[i].lineNo >= line}
<1>1. Len(h) \in Nat /\ IsFiniteSet(1..Len(h)) /\ Cardinality(1..Len(h)) = Len(h)
  <2>1. Len(h) \in Nat
    OBVIOUS
  <2>2. QED
    BY <2>1, CountUpTo
<1>2. K \subseteq 1..Len(h)
  OBVIOUS
<1> HIDE DEF K
<1>3. Cardinality(K) \in Nat /\ Cardinality(K) <= Len(h)
  BY <1>1, <1>2, FS_Subset, FS_CardinalityType
<1>4. QED
  BY <1>1, <1>3 DEF HeapPlace, K

\* The entries of line or later are the first of the heap.
LEMMA PlaceInOrder ==
  ASSUME NEW S, NEW h \in Seq(S), LaterFirst(h), NEW line \in Int,
         \A i \in 1..Len(h) : h[i].lineNo \in Int
  PROVE  \A i \in 1..Len(h) : i <= HeapPlace(h, line) <=> h[i].lineNo >= line
<1> DEFINE n == Len(h)
           K == {i \in 1..n : h[i].lineNo >= line}
           R == (1..(n + 1)) \ K
<1>1. n \in Nat
  OBVIOUS
<1>2. R \in SUBSET Nat /\ n + 1 \in R
  <2>1. \A x \in R : x \in Nat
    BY <1>1
  <2>2. n + 1 \in 1..(n + 1) /\ n + 1 \notin 1..n
    BY <1>1
  <2>3. QED
    BY <2>1, <2>2
<1> HIDE DEF R
<1>3. PICK x \in R : \A y \in R : x <= y
  BY <1>2, LeastNatural
<1>4. x \in 1..(n + 1) /\ x \notin K
  BY <1>3 DEF R
<1>5. K = 1..(x - 1)
  <2>1. ASSUME NEW i \in K
        PROVE  i \in 1..(x - 1)
    <3>1. i \in 1..n /\ h[i].lineNo >= line
      OBVIOUS
    <3>2. SUFFICES ASSUME x <= i PROVE FALSE
      BY <1>1, <1>4, <3>1
    <3>3. x \in 1..n /\ h[x].lineNo >= h[i].lineNo
      BY <1>1, <1>4, <3>1, <3>2 DEF LaterFirst
    <3>4. h[x].lineNo >= line
      BY <3>1, <3>3
    <3>5. QED
      BY <1>4, <3>3, <3>4
  <2>2. ASSUME NEW i \in 1..(x - 1)
        PROVE  i \in K
    <3>1. i \in 1..(n + 1) /\ ~(x <= i)
      BY <1>1, <1>4
    <3>2. QED
      BY <1>3, <3>1 DEF R
  <2>3. QED
    BY <2>1, <2>2
<1>6. HeapPlace(h, line) = x - 1
  <2>1. x - 1 \in Nat
    BY <1>1, <1>4
  <2>2. HeapPlace(h, line) = Cardinality(K)
    BY DEF HeapPlace
  <2>3. QED
    BY <1>5, <2>1, <2>2, CountUpTo
<1>7. ASSUME NEW i \in 1..n
      PROVE  i <= x - 1 <=> h[i].lineNo >= line
  <2>1. i <= x - 1 <=> i \in 1..(x - 1)
    BY <1>1, <1>4
  <2>2. i \in K <=> h[i].lineNo >= line
    OBVIOUS
  <2>3. QED
    BY <1>5, <2>1, <2>2
<1>8. QED
  BY <1>6, <1>7

\* An entry is put in for a key that has none.
LEMMA HeapInserted ==
  ASSUME INF \in Nat, NEW K \in SUBSET Nat, NEW C, NEW h, Heap(h, K, C),
         NEW line \in 1..INF, NEW k \in K, k \notin C
  PROVE  /\ Heap(Filed(h, line, k), K, C \cup {k})
         /\ Len(Filed(h, line, k)) = Len(h) + 1
         /\ Gains(Filed(h, line, k), h, HeapEntry(line, k))
<1> DEFINE n == HeapPlace(h, line)
           e == HeapEntry(line, k)
           g == With(h, n, e)
           m == Len(h)
<1>1. h \in Seq(HeapElement(K)) /\ m \in Nat
  BY DEF Heap
<1>2. e \in HeapElement(K) /\ e.lineNo = line /\ e.key = k /\ HeapKey[e] = k
  <2>1. k \in Nat
    OBVIOUS
  <2>2. e \in HeapElement(K) /\ e \in HeapElement(Nat) /\ e.lineNo = line /\ e.key = k
    BY <2>1 DEF HeapEntry, HeapElement
  <2> HIDE DEF e
  <2>3. QED
    BY <2>2 DEF HeapKey
<1>3. n \in 0..m
  BY <1>1, HeapPlaceIs
<1>4. \A i \in 1..m : h[i].lineNo \in Int
  <2>1. ASSUME NEW i \in 1..m PROVE h[i].lineNo \in Int
    <3>1. h[i] \in HeapElement(K)
      BY <1>1
    <3>2. QED
      BY <3>1 DEF HeapElement
  <2>2. QED
    BY <2>1
<1>5. \A i \in 1..m : i <= n <=> h[i].lineNo >= line
  BY <1>1, <1>4, PlaceInOrder DEF Heap
<1> HIDE DEF n, e
<1>6. /\ g \in Seq(HeapElement(K)) /\ Len(g) = m + 1
      /\ \A j \in 1..(m + 1) : g[j] = IF j <= n THEN h[j]
                                      ELSE IF j = n + 1 THEN e ELSE h[j - 1]
  BY <1>1, <1>2, <1>3, WithIs
<1>7. OneFor(g, HeapKey, C \cup {k})
  <2>1. OneFor(h, HeapKey, C) /\ HeapKey[e] \notin C
    BY <1>2 DEF Heap
  <2>2. OneFor(g, HeapKey, C \cup {HeapKey[e]})
    BY <1>1, <1>2, <1>3, <2>1, WithKeeps
  <2>3. QED
    BY <1>2, <2>2
<1> HIDE DEF g
<1>8. ASSUME NEW i \in 1..(m + 1), NEW j \in 1..(m + 1), i < j
      PROVE  g[i].lineNo >= g[j].lineNo
  <2>1. \A x, y \in 1..m : x < y => h[x].lineNo >= h[y].lineNo
    BY DEF Heap, LaterFirst
  <2>2. CASE j <= n
    BY <1>1, <1>3, <1>6, <1>8, <2>1, <2>2
  <2>3. CASE j = n + 1
    <3>1. i \in 1..m /\ i <= n /\ g[i] = h[i] /\ g[j] = e
      BY <1>1, <1>3, <1>6, <1>8, <2>3
    <3>2. QED
      BY <1>2, <1>5, <3>1
  <2>4. CASE j > n + 1 /\ i <= n
    <3>1. /\ i \in 1..m /\ j - 1 \in 1..m /\ i < j - 1
          /\ g[i] = h[i] /\ g[j] = h[j - 1]
      BY <1>1, <1>3, <1>6, <1>8, <2>4
    <3>2. QED
      BY <2>1, <3>1
  <2>5. CASE j > n + 1 /\ i = n + 1
    <3>1. j - 1 \in 1..m /\ ~(j - 1 <= n) /\ g[i] = e /\ g[j] = h[j - 1]
      BY <1>1, <1>3, <1>6, <1>8, <2>5
    <3>2. QED
      BY <1>2, <1>4, <1>5, <3>1
  <2>6. CASE i > n + 1
    <3>1. /\ i - 1 \in 1..m /\ j - 1 \in 1..m /\ i - 1 < j - 1
          /\ g[i] = h[i - 1] /\ g[j] = h[j - 1]
      BY <1>1, <1>3, <1>6, <1>8, <2>6
    <3>2. QED
      BY <2>1, <3>1
  <2>7. QED
    BY <1>1, <1>3, <1>8, <2>2, <2>3, <2>4, <2>5, <2>6
<1>9. Gains(g, h, e)
  BY <1>1, <1>2, <1>3, WithGains DEF g
<1>10. Heap(g, K, C \cup {k})
  BY <1>6, <1>7, <1>8 DEF Heap, LaterFirst
<1>11. QED
  BY <1>6, <1>9, <1>10 DEF Filed, g, e, n

\* The entry at a position is taken out.
LEMMA HeapErased ==
  ASSUME NEW K \in SUBSET Nat, NEW C, NEW h, Heap(h, K, C), NEW i \in 1..Len(h)
  PROVE  /\ Heap(Without(h, i), K, C \ {h[i].key})
         /\ Len(Without(h, i)) = Len(h) - 1
         /\ h[i].key \in C
         /\ Loses(Without(h, i), h, h[i])
<1> DEFINE g == Without(h, i)
           m == Len(h)
<1>1. h \in Seq(HeapElement(K)) /\ m \in Nat
  BY DEF Heap
<1>2. /\ g \in Seq(HeapElement(K)) /\ Len(g) = m - 1
      /\ \A j \in 1..(m - 1) : g[j] = IF j < i THEN h[j] ELSE h[j + 1]
  BY <1>1, WithoutIs
<1>3. HeapKey[h[i]] = h[i].key
  <2>1. h[i] \in HeapElement(Nat)
    <3>1. h[i] \in HeapElement(K)
      BY <1>1
    <3>2. QED
      BY <3>1 DEF HeapElement
  <2>2. QED
    BY <2>1 DEF HeapKey
<1>4. OneFor(g, HeapKey, C \ {h[i].key}) /\ h[i].key \in C
  <2>1. OneFor(h, HeapKey, C)
    BY DEF Heap
  <2>2. OneFor(g, HeapKey, C \ {HeapKey[h[i]]})
    BY <1>1, <2>1, WithoutKeeps
  <2>3. HeapKey[h[i]] \in C
    BY <2>1 DEF OneFor
  <2>4. QED
    BY <1>3, <2>2, <2>3
<1> HIDE DEF g
<1>5. ASSUME NEW j \in 1..(m - 1)
      PROVE  \E x \in (1..m) \ {i} : g[j] = h[x] /\ x = IF j < i THEN j ELSE j + 1
  BY <1>1, <1>2
<1>6. \A x, y \in 1..m : x < y => h[x].lineNo >= h[y].lineNo
  BY DEF Heap, LaterFirst
<1>7. ASSUME NEW x \in 1..(m - 1), NEW y \in 1..(m - 1), x < y
      PROVE  g[x].lineNo >= g[y].lineNo
  <2>1. PICK u \in (1..m) \ {i} : g[x] = h[u] /\ u = IF x < i THEN x ELSE x + 1
    BY <1>5
  <2>2. PICK v \in (1..m) \ {i} : g[y] = h[v] /\ v = IF y < i THEN y ELSE y + 1
    BY <1>5
  <2>3. u < v
    BY <1>1, <1>7, <2>1, <2>2
  <2>4. QED
    BY <1>6, <2>1, <2>2, <2>3
<1>8. Heap(g, K, C \ {h[i].key})
  BY <1>2, <1>4, <1>7 DEF Heap, LaterFirst
<1>9. Loses(g, h, h[i])
  BY <1>1, WithoutLoses DEF Heap, g
<1>10. QED
  BY <1>2, <1>4, <1>8, <1>9 DEF g

\* What a heap is, in terms of its entries.
LEMMA HeapFacts ==
  ASSUME NEW K \in SUBSET Nat, NEW C, NEW h, Heap(h, K, C)
  PROVE  /\ h \in Seq(HeapElement(K)) /\ Len(h) \in Nat
         /\ \A i \in 1..Len(h) : h[i].lineNo \in 1..INF /\ h[i].key \in K \cap C
         /\ \A e \in ListSet(h) : e.lineNo \in 1..INF /\ e.key \in K \cap C
         /\ \A i, j \in 1..Len(h) : h[i].key = h[j].key => i = j
         /\ Covers(h, C)
         /\ C \subseteq K
         /\ IsFiniteSet(C) /\ Cardinality(C) = Len(h)
<1>1. h \in Seq(HeapElement(K)) /\ Len(h) \in Nat /\ OneFor(h, HeapKey, C)
  BY DEF Heap
<1>2. IsFiniteSet(C) /\ Cardinality(C) = Len(h)
  BY <1>1, OneForCounts
<1>3. ASSUME NEW i \in 1..Len(h)
      PROVE  h[i].lineNo \in 1..INF /\ h[i].key \in K /\ HeapKey[h[i]] = h[i].key
  <2>1. h[i] \in HeapElement(K)
    BY <1>1
  <2>2. h[i].lineNo \in 1..INF /\ h[i].key \in K /\ h[i] \in HeapElement(Nat)
    BY <2>1 DEF HeapElement
  <2>3. QED
    BY <2>2 DEF HeapKey
<1>4. /\ \A i, j \in 1..Len(h) : HeapKey[h[i]] = HeapKey[h[j]] => i = j
      /\ \A i \in 1..Len(h) : HeapKey[h[i]] \in C
      /\ \A c \in C : \E i \in 1..Len(h) : HeapKey[h[i]] = c
  BY <1>1 DEF OneFor
<1>5. QED
  BY <1>1, <1>2, <1>3, <1>4 DEF ListSet, Covers
-----------------------------------------------------------------------------
(***************************************************************************)
(* PageMinCache.                                                           *)
(***************************************************************************)
Front == trace[pos]
PagesAt(k) == {i \in 1..Len(trace) : trace[i].fsblkno = k}

\* The operators that PageMIN has from other modules.
LEMMA PageOperators ==
  /\ \A S : PageMIN!Cardinality(S) = Cardinality(S)
  /\ \A h, i : PageMIN!HeapErase(h, i) = Without(h, i)
  /\ \A h, line, k : PageMIN!HeapInsert(h, line, k)
                       = Filed(h, line, k)
  /\ \A T, k, line : PageMIN!nextAccess(T, k, line) = NextInQueue(T[k], line)
  /\ \A T, k, line : PageMIN!AfterNextAccess(T, k, line)
                       = IF Behind(T[k], line) = {} THEN [T EXCEPT ![k] = <<>>] ELSE T
  /\ \A s, k : PageMIN!ListRemove(s, k) = ListRemove(s, k)
  /\ \A I : PageMIN!LinesOf(I) = Queue(I)
  /\ \A K : PageMIN!Least(K) = Lowest(K)
<1>1. \A S : PageMIN!Cardinality(S) = Cardinality(S)
  BY DEF PageMIN!Cardinality, Cardinality
<1>2. \A K, j : PageMIN!Nth(K, j) = Nth(K, j)
  BY <1>1 DEF PageMIN!Nth, Nth
<1>3. \A h, i : PageMIN!HeapErase(h, i) = Without(h, i)
  BY DEF PageMIN!HeapErase, Without
<1>4. \A h, line, k : PageMIN!HeapInsert(h, line, k)
                        = Filed(h, line, k)
  BY <1>1 DEF PageMIN!HeapInsert, Filed, With, HeapPlace, HeapEntry
<1>5. \A K : PageMIN!Least(K) = Lowest(K)
  BY DEF PageMIN!Least, Lowest
<1>6. \A T, k, line : PageMIN!nextAccess(T, k, line) = NextInQueue(T[k], line)
  BY <1>5 DEF PageMIN!nextAccess, NextInQueue, PageMIN!Ahead, Behind
<1>7. \A T, k, line : PageMIN!AfterNextAccess(T, k, line)
                        = IF Behind(T[k], line) = {} THEN [T EXCEPT ![k] = <<>>] ELSE T
  BY DEF PageMIN!AfterNextAccess, PageMIN!Ahead, Behind
<1>8. \A s, k : PageMIN!ListRemove(s, k) = ListRemove(s, k)
  BY <1>1, <1>2 DEF PageMIN!ListRemove, ListRemove, PageMIN!ListErase, ListErase,
                    PageMIN!KeptPositions, KeptPositions
<1>9. \A I : PageMIN!LinesOf(I) = Queue(I)
  BY <1>1, <1>2 DEF PageMIN!LinesOf, Queue
<1>10. QED
  BY <1>1, <1>3, <1>4, <1>5, <1>6, <1>7, <1>8, <1>9

\* The true next access of a page.
LEMMA PageTrueNext ==
  ASSUME Proper(trace), pos \in Nat \ {0}, NEW k
  PROVE  PageMIN!TrueNext(PageMIN!PageKey, k) = NextLine(PagesAt(k), pos)
<1>1. {i \in pos..Len(trace) : PageMIN!PageKey(trace[i]) = k} = From(PagesAt(k), pos)
  <2>1. Len(trace) \in Nat
    BY DEF Proper
  <2>2. QED
    BY <2>1 DEF From, PagesAt, PageMIN!PageKey
<1>2. QED
  BY <1>1, PageOperators DEF PageMIN!TrueNext, NextLine

PageAt == [k \in Page |-> PagesAt(k)]

\* Entries that are true of the rest of the trace.
PageEntriesTrue(h, p) ==
  \A e \in ListSet(h) : e.lineNo = NextLine(PagesAt(e.key), p)

PageInv ==
  /\ Proper(trace) /\ pos \in 1..(Len(trace) + 1)
  /\ upperCapacity \in {0, UpperCapacity}
  /\ Table(hashTable, PageAt, pos)
  /\ Heap(maxHeap, Page, key_to_value) /\ Len(maxHeap) <= Capacity
  /\ upper \in Seq(Page) /\ NoDuplicates(upper) /\ Len(upper) <= upperCapacity
  /\ hits \in 0..(pos - 1)
  /\ aborted \in BOOLEAN
  /\ upperCapacity = 0 =>
       ~aborted /\ PageEntriesTrue(maxHeap, pos)

\* What the invariant says of the constants and of the request at the front.
LEMMA PageFront ==
  ASSUME PageMIN!TraceAssumption, PageMIN!PageMinAssumption, PageInv,
         ~PageMIN!Finished
  PROVE  /\ INF \in Nat \ {0} /\ Page \in SUBSET Nat
         /\ Capacity \in Nat \ {0} /\ UpperCapacity \in Nat /\ upperCapacity \in Nat
         /\ Len(trace) \in Nat /\ pos \in 1..Len(trace) /\ pos \in Nat
         /\ DOMAIN PageAt = Page
         /\ \A k \in Page : PageAt[k] = PagesAt(k)
         /\ \A k \in Page : PagesAt(k) \in SUBSET (1..Len(trace))
         /\ Front.fsblkno \in Page /\ Front.lineNo \in 1..INF
         /\ pos \in PagesAt(Front.fsblkno)
         /\ \A k \in Page : k # Front.fsblkno => pos \notin PagesAt(k)
         /\ EndsLine(PagesAt(Front.fsblkno), pos)
<1>1. /\ INF \in Nat \ {0} /\ Page \in SUBSET Nat
      /\ Capacity \in Nat \ {0} /\ UpperCapacity \in Nat
  BY DEF PageMIN!TraceAssumption, PageMIN!PageMinAssumption
<1>2. Proper(trace) /\ Len(trace) \in Nat /\ trace \in Seq(Access)
  BY DEF PageInv, Proper
<1>3. pos \in 1..Len(trace) /\ pos \in Nat
  <2>1. pos \in 1..(Len(trace) + 1) /\ ~(pos > Len(trace))
    BY DEF PageInv, PageMIN!Finished
  <2>2. QED
    BY <1>2, <2>1
<1>4. Front \in Access
  BY <1>2, <1>3 DEF Front
<1>5. Front.fsblkno \in Page /\ Front.lineNo \in 1..INF
  BY <1>1, <1>4 DEF Access
<1>6. upperCapacity \in Nat
  BY <1>1 DEF PageInv
<1>7. EndsLine(PagesAt(Front.fsblkno), pos)
  BY <1>2, <1>3 DEF EndsLine, PagesAt, Front, Proper, Ordered
<1>8. /\ pos \in PagesAt(Front.fsblkno)
      /\ \A k \in Page : k # Front.fsblkno => pos \notin PagesAt(k)
  BY <1>3 DEF PagesAt, Front
<1>9. \A k \in Page : PagesAt(k) \in SUBSET (1..Len(trace))
  BY DEF PagesAt
<1>10. DOMAIN PageAt = Page /\ \A k \in Page : PageAt[k] = PagesAt(k)
  BY DEF PageAt
<1>11. QED
  BY <1>1, <1>2, <1>3, <1>5, <1>6, <1>7, <1>8, <1>9, <1>10

\* The level above keeps to its capacity.
LEMMA PageAbove ==
  ASSUME PageMIN!TraceAssumption, PageMIN!PageMinAssumption, PageInv,
         ~PageMIN!Finished, PageMIN!Served
  PROVE  /\ trace' = trace /\ pos' = pos + 1 /\ pos' \in 1..(Len(trace) + 1)
         /\ upperCapacity' = upperCapacity
         /\ upper' \in Seq(Page) /\ NoDuplicates(upper') /\ Len(upper') <= upperCapacity
<1> DEFINE k == Front.fsblkno
           r == ListRemove(upper, k)
           q == Append(r, k)
<1>1. trace' = trace /\ pos' = pos + 1 /\ upperCapacity' = upperCapacity
  BY DEF PageMIN!Served, PageMIN!PopFront
<1>2. pos' \in 1..(Len(trace) + 1)
  BY <1>1, PageFront
<1>3. upper' = IF Len(q) > upperCapacity THEN Tail(q) ELSE q
  BY PageOperators DEF PageMIN!Served, PageMIN!AboveAfter, PageMIN!Front, Front
<1>4. k \in Page /\ upperCapacity \in Nat
  BY PageFront
<1>5. upper \in Seq(Page) /\ NoDuplicates(upper) /\ Len(upper) <= upperCapacity
  BY DEF PageInv
<1>6. /\ r \in Seq(Page) /\ NoDuplicates(r) /\ k \notin ListSet(r)
      /\ Len(r) <= upperCapacity
  <2>1. CASE k \in ListSet(upper)
    <3>1. r \in Seq(Page) /\ NoDuplicates(r) /\ Len(r) = Len(upper) - 1
          /\ ListSet(r) = ListSet(upper) \ {k}
      BY <1>5, <2>1, RemoveFacts
    <3>2. QED
      BY <1>4, <1>5, <3>1
  <2>2. CASE k \notin ListSet(upper)
    BY <1>5, <2>2, RemoveAbsent
  <2>3. QED
    BY <2>1, <2>2
<1> HIDE DEF r, k
<1>7. q \in Seq(Page) /\ NoDuplicates(q) /\ Len(q) = Len(r) + 1
  BY <1>4, <1>6, AppendFacts
<1> HIDE DEF q
<1>8. CASE Len(q) > upperCapacity
  <2>1. /\ Tail(q) \in Seq(Page) /\ Len(Tail(q)) = Len(q) - 1
        /\ \A i \in 1..(Len(q) - 1) : Tail(q)[i] = q[i + 1]
    BY <1>4, <1>6, <1>7, <1>8
  <2>2. NoDuplicates(Tail(q))
    BY <1>7, <2>1 DEF NoDuplicates
  <2>3. QED
    BY <1>1, <1>2, <1>3, <1>4, <1>6, <1>7, <1>8, <2>1, <2>2
<1>9. CASE ~(Len(q) > upperCapacity)
  BY <1>1, <1>2, <1>3, <1>4, <1>6, <1>7, <1>9
<1>10. QED
  BY <1>8, <1>9

\* The invariant of the next state, in terms of this state's trace.
LEMMA PageInvNext ==
  ASSUME trace' = trace, Proper(trace), pos' \in 1..(Len(trace) + 1),
         upperCapacity' \in {0, UpperCapacity},
         Table(hashTable', PageAt, pos'),
         Heap(maxHeap', Page, key_to_value'), Len(maxHeap') <= Capacity,
         upper' \in Seq(Page), NoDuplicates(upper'), Len(upper') <= upperCapacity',
         hits' \in 0..(pos' - 1), aborted' \in BOOLEAN,
         upperCapacity' = 0 => ~aborted' /\ PageEntriesTrue(maxHeap', pos')
  PROVE  PageInv'
<1>1. Proper(trace)'
  BY DEF Proper, Ordered
<1>2. \A k : PagesAt(k)' = PagesAt(k)
  BY DEF PagesAt
<1>3. Table(hashTable, PageAt, pos)'
  <2>1. PageAt' = PageAt
    BY <1>2 DEF PageAt
  <2>2. \A I : Queue(I)' = Queue(I)
    BY DEF Queue
  <2>3. QED
    BY <2>1, <2>2 DEF Table, From
<1>4. Heap(maxHeap, Page, key_to_value)'
  BY DEF Heap, LaterFirst, OneFor, HeapElement, HeapKey
<1>5. NoDuplicates(upper)'
  BY DEF NoDuplicates
<1>6. ASSUME PageEntriesTrue(maxHeap', pos')
      PROVE  PageEntriesTrue(maxHeap, pos)'
  BY <1>2, <1>6 DEF PageEntriesTrue, ListSet, NextLine, From
<1>7. QED
  BY <1>1, <1>3, <1>4, <1>5, <1>6 DEF PageInv

\* Entries stay true when another page is requested.
LEMMA PageEntriesMove ==
  ASSUME PageMIN!TraceAssumption, PageMIN!PageMinAssumption, PageInv,
         ~PageMIN!Finished, NEW h, NEW C, Heap(h, Page, C), Front.fsblkno \notin C,
         PageEntriesTrue(h, pos)
  PROVE  PageEntriesTrue(h, pos + 1)
<1>1. SUFFICES ASSUME NEW e \in ListSet(h)
               PROVE  e.lineNo = NextLine(PagesAt(e.key), pos + 1)
  BY DEF PageEntriesTrue
<1>2. e.key \in Page /\ e.key # Front.fsblkno
  <2>1. Page \in SUBSET Nat
    BY PageFront
  <2>2. e.key \in Page \cap C
    BY <2>1, HeapFacts
  <2>3. QED
    BY <2>2
<1>3. /\ Proper(trace) /\ pos \in Nat /\ pos \notin PagesAt(e.key)
      /\ PagesAt(e.key) \in SUBSET (1..Len(trace))
  BY <1>2, PageFront DEF PageInv
<1>4. NextLine(PagesAt(e.key), pos + 1) = NextLine(PagesAt(e.key), pos)
  BY <1>3, NextLineMoves
<1>5. QED
  BY <1>4 DEF PageEntriesTrue

\* A read that misses.
LEMMA PageReadMiss ==
  ASSUME PageMIN!TraceAssumption, PageMIN!PageMinAssumption, PageInv,
         PageMIN!ReadMiss
  PROVE  PageInv'
<1>1. /\ ~PageMIN!Finished /\ PageMIN!Served /\ Front.fsblkno \notin key_to_value
      /\ hashTable' = hashTable /\ maxHeap' = maxHeap /\ key_to_value' = key_to_value
      /\ hits' = hits /\ aborted' = aborted
  BY DEF PageMIN!ReadMiss, PageMIN!Running, PageMIN!Front, Front
<1>2. Table(hashTable', PageAt, pos')
  BY <1>1, PageAbove, PageFront, TableStays DEF PageInv
<1>3. upperCapacity' = 0 => ~aborted' /\ PageEntriesTrue(maxHeap', pos')
  <2>1. SUFFICES ASSUME upperCapacity = 0
                 PROVE  PageEntriesTrue(maxHeap, pos + 1) /\ ~aborted
    BY <1>1, PageAbove
  <2>2. PageEntriesTrue(maxHeap, pos) /\ Heap(maxHeap, Page, key_to_value) /\ ~aborted
    BY <2>1 DEF PageInv
  <2>3. QED
    BY <1>1, <2>2, PageEntriesMove
<1>4. hits' \in 0..(pos' - 1)
  BY <1>1, PageAbove, PageFront DEF PageInv
<1>5. QED
  BY <1>1, <1>2, <1>3, <1>4, PageAbove, PageInvNext DEF PageInv

\* A request that the level above satisfies.
LEMMA PageSatisfiedAbove ==
  ASSUME PageMIN!TraceAssumption, PageMIN!PageMinAssumption, PageInv,
         PageMIN!SatisfiedAbove
  PROVE  PageInv'
<1>1. /\ ~PageMIN!Finished /\ PageMIN!Served
      /\ hashTable' = hashTable /\ maxHeap' = maxHeap /\ key_to_value' = key_to_value
      /\ hits' = hits /\ aborted' = aborted
  BY DEF PageMIN!SatisfiedAbove
<1>2. Table(hashTable', PageAt, pos')
  BY <1>1, PageAbove, PageFront, TableStays DEF PageInv
<1>3. upperCapacity' # 0
  <2>1. Front.fsblkno \in {upper[i] : i \in 1..Len(upper)}
    BY DEF PageMIN!SatisfiedAbove, PageMIN!Above, PageMIN!Front, Front
  <2>2. PICK i \in 1..Len(upper) : upper[i] = Front.fsblkno
    BY <2>1
  <2>3. Len(upper) <= upperCapacity /\ Len(upper) \in Nat /\ upperCapacity \in Nat
    BY <1>1, PageFront DEF PageInv
  <2>4. QED
    BY <1>1, <2>2, <2>3, PageAbove
<1>4. hits' \in 0..(pos' - 1)
  BY <1>1, PageAbove, PageFront DEF PageInv
<1>5. QED
  BY <1>1, <1>2, <1>3, <1>4, PageAbove, PageInvNext DEF PageInv

\* A page that is put in, into a heap in which it has no entry.
LEMMA PageRefile ==
  ASSUME PageMIN!TraceAssumption, PageMIN!PageMinAssumption, PageInv,
         ~PageMIN!Finished, NEW h, NEW C, Heap(h, Page, C), Front.fsblkno \notin C,
         upperCapacity = 0 => PageEntriesTrue(h, pos),
         NEW g, g = PageMIN!HeapInsert(h,
                      PageMIN!nextAccess(hashTable, Front.fsblkno, Front.lineNo),
                      Front.fsblkno)
  PROVE  /\ Heap(g, Page, C \cup {Front.fsblkno}) /\ Len(g) = Len(h) + 1
         /\ upperCapacity = 0 => PageEntriesTrue(g, pos + 1)
         /\ Table(PageMIN!AfterNextAccess(hashTable, Front.fsblkno, Front.lineNo),
                  PageAt, pos + 1)
<1> DEFINE k == Front.fsblkno
           line == NextLine(PagesAt(k), pos + 1)
<1>1. /\ INF \in Nat \ {0} /\ Page \in SUBSET Nat /\ k \in Page /\ pos \in 1..Len(trace)
      /\ PagesAt(k) \in SUBSET (1..Len(trace)) /\ pos + 1 \in Nat
      /\ pos \in PagesAt(k) /\ EndsLine(PagesAt(k), pos)
      /\ DOMAIN PageAt = Page /\ \A j \in Page : PageAt[j] = PagesAt(j)
      /\ \A j \in Page : PagesAt(j) \in SUBSET (1..Len(trace))
  BY PageFront
<1>2. Proper(trace) /\ Table(hashTable, PageAt, pos)
  BY DEF PageInv
<1>3. /\ NextInQueue(hashTable[k], Front.lineNo) = line
      /\ Table(IF Behind(hashTable[k], Front.lineNo) = {}
               THEN [hashTable EXCEPT ![k] = <<>>] ELSE hashTable, PageAt, pos + 1)
  <2>1. /\ k \in DOMAIN PageAt /\ pos \in PageAt[k] /\ EndsLine(PageAt[k], pos)
        /\ pos \in 1..Len(trace)
        /\ \A j \in DOMAIN PageAt : PageAt[j] \in SUBSET (1..Len(trace))
    BY <1>1
  <2>2. PageAt[k] = PagesAt(k)
    BY <1>1
  <2> HIDE DEF k
  <2>3. /\ NextInQueue(hashTable[k], trace[pos].lineNo) = NextLine(PageAt[k], pos + 1)
        /\ Table(IF Behind(hashTable[k], trace[pos].lineNo) = {}
                 THEN [hashTable EXCEPT ![k] = <<>>] ELSE hashTable, PageAt, pos + 1)
    BY <1>2, <2>1, LookedUp
  <2>4. QED
    BY <2>2, <2>3 DEF Front
<1>4. line \in 1..INF
  BY <1>1, <1>2, NextLineIs
<1>5. g = Filed(h, line, k)
  BY <1>3, PageOperators
<1> HIDE DEF line, k
<1>6. /\ Heap(g, Page, C \cup {k}) /\ Len(g) = Len(h) + 1
      /\ Gains(g, h, HeapEntry(line, k))
  <2>1. k \notin C
    BY DEF k
  <2>2. QED
    <3>1. /\ INF \in Nat /\ Page \in SUBSET Nat /\ k \in Page /\ line \in 1..INF
          /\ Heap(h, Page, C)
      BY <1>1, <1>4
    <3>2. /\ Heap(Filed(h, line, k), Page, C \cup {k})
          /\ Len(Filed(h, line, k)) = Len(h) + 1
          /\ Gains(Filed(h, line, k), h, HeapEntry(line, k))
      BY ONLY <2>1, <3>1, HeapInserted
    <3>3. QED
      BY <1>5, <3>2
<1>7. ASSUME upperCapacity = 0 PROVE PageEntriesTrue(g, pos + 1)
  <2>1. PageEntriesTrue(h, pos + 1)
    BY <1>7, PageEntriesMove
  <2>2. HeapEntry(line, k).lineNo = NextLine(PagesAt(HeapEntry(line, k).key), pos + 1)
    BY DEF HeapEntry, line
  <2>3. QED
    BY <1>6, <2>1, <2>2 DEF PageEntriesTrue, Gains
<1>8. QED
  BY <1>3, <1>6, <1>7, PageOperators DEF k

\* A page that is written into the cache, after an eviction if it is full.
LEMMA PageWriteMiss ==
  ASSUME PageMIN!TraceAssumption, PageMIN!PageMinAssumption, PageInv,
         PageMIN!WriteMiss
  PROVE  PageInv'
<1> DEFINE k == Front.fsblkno
           full == Cardinality(key_to_value) = Capacity
           h == IF full THEN Without(maxHeap, 1) ELSE maxHeap
           C == IF full THEN key_to_value \ {maxHeap[1].key} ELSE key_to_value
<1>1. /\ ~PageMIN!Finished /\ PageMIN!Served /\ k \notin key_to_value
      /\ hits' = hits /\ aborted' = aborted
      /\ key_to_value' = C \cup {k}
      /\ maxHeap' = PageMIN!HeapInsert(h,
                      PageMIN!nextAccess(hashTable, k, Front.lineNo), k)
      /\ hashTable' = PageMIN!AfterNextAccess(hashTable, k, Front.lineNo)
  BY PageOperators DEF PageMIN!WriteMiss, PageMIN!Running, PageMIN!Front, Front,
     PageMIN!AfterEvict, PageMIN!Victim, PageMIN!VictimAt
<1>2. /\ Heap(maxHeap, Page, key_to_value) /\ Len(maxHeap) \in Nat
      /\ Len(maxHeap) <= Capacity /\ Cardinality(key_to_value) = Len(maxHeap)
      /\ Page \in SUBSET Nat /\ Capacity \in Nat \ {0}
  <2>1. Page \in SUBSET Nat /\ Heap(maxHeap, Page, key_to_value)
    BY <1>1, PageFront DEF PageInv
  <2>2. QED
    BY <1>1, <2>1, HeapFacts, PageFront DEF PageInv
<1>3. /\ Heap(h, Page, C) /\ Len(h) + 1 <= Capacity /\ k \notin C
      /\ upperCapacity = 0 => PageEntriesTrue(h, pos)
  <2>1. CASE full
    <3>1. 1 \in 1..Len(maxHeap)
      BY <1>2, <2>1
    <3>2. /\ Heap(Without(maxHeap, 1), Page, key_to_value \ {maxHeap[1].key})
          /\ Len(Without(maxHeap, 1)) = Len(maxHeap) - 1
          /\ Loses(Without(maxHeap, 1), maxHeap, maxHeap[1])
      BY <1>2, <3>1, HeapErased
    <3>3. upperCapacity = 0 => PageEntriesTrue(Without(maxHeap, 1), pos)
      BY <3>2 DEF PageInv, PageEntriesTrue, Loses
    <3>4. QED
      BY <1>1, <1>2, <2>1, <3>2, <3>3
  <2>2. CASE ~full
    <3>1. Len(maxHeap) + 1 <= Capacity
      BY <1>2, <2>2
    <3>2. QED
      BY <1>1, <1>2, <2>2, <3>1 DEF PageInv
  <2>3. QED
    BY <2>1, <2>2
<1> HIDE DEF h, C, full
<1>4. /\ Heap(maxHeap', Page, C \cup {k}) /\ Len(maxHeap') = Len(h) + 1
      /\ upperCapacity = 0 => PageEntriesTrue(maxHeap', pos + 1)
      /\ Table(hashTable', PageAt, pos + 1)
  BY <1>1, <1>3, PageRefile
<1>5. hits' \in 0..(pos' - 1)
  BY <1>1, PageAbove, PageFront DEF PageInv
<1>6. QED
  BY <1>1, <1>3, <1>4, <1>5, PageAbove, PageInvNext DEF PageInv

\* A hit.
LEMMA PageHit ==
  ASSUME PageMIN!TraceAssumption, PageMIN!PageMinAssumption, PageInv,
         PageMIN!Hit
  PROVE  PageInv'
<1> DEFINE k == Front.fsblkno
           E == {i \in 1..Len(maxHeap) :
                   maxHeap[i].key = k /\ maxHeap[i].lineNo = Front.lineNo}
           p == Lowest(E)
           h == Without(maxHeap, p)
<1>1. /\ ~PageMIN!Finished /\ PageMIN!Served /\ k \in key_to_value /\ E # {}
      /\ hits' = hits + 1 /\ aborted' = aborted /\ key_to_value' = key_to_value
      /\ maxHeap' = PageMIN!HeapInsert(h,
                      PageMIN!nextAccess(hashTable, k, Front.lineNo), k)
      /\ hashTable' = PageMIN!AfterNextAccess(hashTable, k, Front.lineNo)
  BY PageOperators DEF PageMIN!Hit, PageMIN!Running, PageMIN!Front, Front,
     PageMIN!Entries
<1>2. /\ Heap(maxHeap, Page, key_to_value) /\ Len(maxHeap) \in Nat
      /\ Len(maxHeap) <= Capacity /\ Page \in SUBSET Nat
  BY <1>1, HeapFacts, PageFront DEF PageInv
<1>3. p \in 1..Len(maxHeap) /\ maxHeap[p].key = k
  <2>1. PICK i \in E : TRUE
    BY <1>1
  <2>2. E \in SUBSET Nat
    BY <1>2
  <2>3. p \in E
    BY <2>1, <2>2, LowestIs
  <2>4. QED
    BY <2>3
<1> HIDE DEF p
<1>4. /\ Heap(h, Page, key_to_value \ {k}) /\ Len(h) = Len(maxHeap) - 1
      /\ ListSet(h) \subseteq ListSet(maxHeap)
  <2>1. /\ Heap(h, Page, key_to_value \ {maxHeap[p].key})
        /\ Len(h) = Len(maxHeap) - 1
        /\ Loses(h, maxHeap, maxHeap[p])
    BY <1>2, <1>3, HeapErased
  <2>2. QED
    BY <1>3, <2>1 DEF Loses
<1>5. upperCapacity = 0 => PageEntriesTrue(h, pos)
  BY <1>4 DEF PageInv, PageEntriesTrue
<1> HIDE DEF h
<1>6. /\ Heap(maxHeap', Page, (key_to_value \ {k}) \cup {k})
      /\ Len(maxHeap') = Len(h) + 1
      /\ upperCapacity = 0 => PageEntriesTrue(maxHeap', pos + 1)
      /\ Table(hashTable', PageAt, pos + 1)
  <2>1. k \notin key_to_value \ {k}
    OBVIOUS
  <2>2. QED
    BY <1>1, <1>4, <1>5, <2>1, PageRefile
<1>7. (key_to_value \ {k}) \cup {k} = key_to_value'
  BY <1>1
<1>8. hits' \in 0..(pos' - 1)
  BY <1>1, PageAbove, PageFront DEF PageInv
<1>9. Len(maxHeap') <= Capacity
  BY <1>2, <1>4, <1>6
<1>10. Heap(maxHeap', Page, key_to_value')
  BY <1>6, <1>7
<1>11. QED
  BY <1>1, <1>6, <1>8, <1>9, <1>10, PageAbove, PageInvNext DEF PageInv

\* An assert fails at the second level only.
LEMMA PageAbort ==
  ASSUME PageMIN!TraceAssumption, PageMIN!PageMinAssumption, PageInv,
         PageMIN!Abort
  PROVE  PageInv'
<1> DEFINE k == Front.fsblkno
<1>1. /\ ~PageMIN!Finished
      /\ trace' = trace /\ pos' = pos /\ upperCapacity' = upperCapacity
      /\ hashTable' = hashTable /\ maxHeap' = maxHeap /\ key_to_value' = key_to_value
      /\ upper' = upper /\ hits' = hits /\ aborted' = TRUE
  BY DEF PageMIN!Abort, PageMIN!Running
<1>2. hashTable[k] # <<>>
  <2>1. k \in DOMAIN PageAt /\ pos \in PageAt[k] /\ pos \in 1..Len(trace)
        /\ \A j \in DOMAIN PageAt : PageAt[j] \in SUBSET (1..Len(trace))
    BY <1>1, PageFront
  <2>2. Proper(trace) /\ Table(hashTable, PageAt, pos)
    BY DEF PageInv
  <2> HIDE DEF k
  <2>3. QED
    BY <2>1, <2>2, LookedUp
<1>3. ASSUME upperCapacity = 0, k \in key_to_value
      PROVE  \E i \in 1..Len(maxHeap) :
               maxHeap[i].key = k /\ maxHeap[i].lineNo = Front.lineNo
  <2>1. Heap(maxHeap, Page, key_to_value) /\ Page \in SUBSET Nat
    BY <1>1, PageFront DEF PageInv
  <2>2. PICK i \in 1..Len(maxHeap) : maxHeap[i].key = k
    <3>1. Covers(maxHeap, key_to_value)
      BY <2>1, HeapFacts
    <3>2. QED
      BY <1>3, <3>1 DEF Covers
  <2>3. maxHeap[i].lineNo = NextLine(PagesAt(k), pos)
    <3>1. maxHeap[i] \in ListSet(maxHeap)
      BY DEF ListSet
    <3>2. QED
      BY <1>3, <2>2, <3>1 DEF PageInv, PageEntriesTrue
  <2>4. /\ Proper(trace) /\ pos \in Nat /\ pos \in PagesAt(k)
        /\ PagesAt(k) \in SUBSET (1..Len(trace))
    BY <1>1, PageFront DEF PageInv
  <2>5. NextLine(PagesAt(k), pos) = trace[pos].lineNo
    BY <2>4, NextLineMoves
  <2>6. QED
    BY <2>2, <2>3, <2>5 DEF Front
<1>4. upperCapacity # 0
  <2>1. hashTable[k] = <<>> \/ (k \in key_to_value /\ PageMIN!Entries(k) = {})
    BY DEF PageMIN!Abort, PageMIN!KeyMissing, PageMIN!Front, Front
  <2>2. k \in key_to_value /\ PageMIN!Entries(k) = {}
    BY <1>2, <2>1
  <2>3. QED
    BY <1>3, <2>2 DEF PageMIN!Entries, PageMIN!Front, Front
<1>5. QED
  BY <1>1, <1>4, PageInvNext DEF PageInv

\* The invariant holds when the policy is set up.
LEMMA PageStart ==
  ASSUME PageMIN!TraceAssumption, PageMIN!PageMinAssumption, PageMIN!Init
  PROVE  PageInv
<1>1. Proper(trace)
  <2>1. PICK rs \in PageFile : trace = PageMIN!Expand(rs)
    BY DEF PageMIN!Init, PageMIN!TraceInit
  <2>2. rs \in Seq(PageMIN!Request) /\ Len(rs) < INF
    BY DEF PageMIN!TraceAssumption
  <2>3. TraceConstants
    <3>1. \A S : PageMIN!IsFiniteSet(S) <=> IsFiniteSet(S)
      BY DEF PageMIN!IsFiniteSet, IsFiniteSet
    <3>2. QED
      BY <3>1 DEF TraceConstants, PageMIN!TraceAssumption
  <2>4. QED
    BY <2>1, <2>2, <2>3, ExpandProper
<1>2. Len(trace) \in Nat
  BY <1>1 DEF Proper
<1>3. /\ pos = 1 /\ upperCapacity \in {0, UpperCapacity} /\ upperCapacity \in Nat
      /\ maxHeap = <<>> /\ key_to_value = {} /\ upper = <<>> /\ hits = 0
      /\ aborted = FALSE
  BY DEF PageMIN!Init, PageMIN!TraceInit, PageMIN!PageMinAssumption
<1>4. Table(hashTable, PageAt, pos)
  <2>1. hashTable = [k \in Page |-> Queue(PagesAt(k))]
    BY PageOperators DEF PageMIN!Init, PageMIN!pageBaseBuild, PagesAt
  <2>2. \A k \in Page : PagesAt(k) \in SUBSET (1..Len(trace))
    BY DEF PagesAt
  <2>3. \A k \in Page : Queue(PagesAt(k)) = <<>> => PagesAt(k) = {}
    BY <1>2, <2>2, EmptyQueue
  <2>4. \A I : I = {} => From(I, pos) = {}
    BY DEF From
  <2>5. QED
    BY <2>1, <2>3, <2>4 DEF Table, PageAt
<1>5. Heap(maxHeap, Page, key_to_value) /\ Len(maxHeap) = 0
  BY <1>3, EmptyHeap
<1>6. upper \in Seq(Page) /\ NoDuplicates(upper) /\ Len(upper) = 0
  BY <1>3 DEF NoDuplicates
<1>7. PageEntriesTrue(maxHeap, pos)
  BY <1>5 DEF PageEntriesTrue, ListSet
<1>8. Capacity \in Nat
  BY DEF PageMIN!PageMinAssumption
<1>9. /\ pos \in 1..(Len(trace) + 1) /\ hits \in 0..(pos - 1)
      /\ Len(maxHeap) <= Capacity /\ Len(upper) <= upperCapacity
  <2>1. pos \in 1..(Len(trace) + 1) /\ hits \in 0..(pos - 1)
    BY <1>2, <1>3
  <2>2. Len(maxHeap) <= Capacity
    BY <1>5, <1>8
  <2>3. Len(upper) <= upperCapacity
    BY <1>3, <1>6
  <2>4. QED
    BY <2>1, <2>2, <2>3
<1>10. QED
  BY <1>1, <1>3, <1>4, <1>5, <1>6, <1>7, <1>9 DEF PageInv

\* Every step of the policy keeps the invariant.
LEMMA PageKeeps ==
  ASSUME PageMIN!TraceAssumption, PageMIN!PageMinAssumption, PageInv, PageMIN!Next
  PROVE  PageInv'
BY PageReadMiss, PageWriteMiss, PageHit, PageAbort, PageSatisfiedAbove
   DEF PageMIN!Next, PageMIN!access

\* What the runs check of PageMinCache follows from the invariant.
LEMMA PageInvImplies ==
  ASSUME PageMIN!TraceAssumption, PageMIN!PageMinAssumption, PageInv
  PROVE  /\ PageMIN!TypeOK
         /\ PageMIN!HeapCoversCache
         /\ PageMIN!HeapMatchesFuture
         /\ PageMIN!AssertsHold
<1>1. /\ Page \in SUBSET Nat /\ Heap(maxHeap, Page, key_to_value)
      /\ Proper(trace) /\ pos \in 1..(Len(trace) + 1) /\ Len(trace) \in Nat
  BY DEF PageMIN!TraceAssumption, PageInv, Proper
<1>2. /\ maxHeap \in Seq(HeapElement(Page)) /\ Len(maxHeap) \in Nat
      /\ \A i \in 1..Len(maxHeap) : maxHeap[i].key \in Page \cap key_to_value
      /\ Covers(maxHeap, key_to_value) /\ key_to_value \subseteq Page
      /\ Cardinality(key_to_value) = Len(maxHeap)
  BY <1>1, HeapFacts
<1>3. DOMAIN maxHeap = 1..Len(maxHeap)
  BY <1>2
<1>4. PageMIN!Cardinality(key_to_value) = Len(maxHeap)
  BY <1>2, PageOperators
<1>5. PageMIN!HeapCoversCache
  BY <1>2, <1>3, <1>4 DEF PageMIN!HeapCoversCache, Covers
<1>6. PageMIN!HeapMatchesFuture
  <2>1. SUFFICES ASSUME upperCapacity = 0, NEW i \in 1..Len(maxHeap)
                 PROVE  maxHeap[i].lineNo
                          = PageMIN!TrueNext(PageMIN!PageKey, maxHeap[i].key)
    BY <1>3 DEF PageMIN!HeapMatchesFuture
  <2>2. maxHeap[i].lineNo = NextLine(PagesAt(maxHeap[i].key), pos)
    BY <2>1 DEF PageInv, PageEntriesTrue, ListSet
  <2>3. pos \in Nat \ {0}
    BY <1>1
  <2>4. QED
    BY <1>1, <2>2, <2>3, PageTrueNext
<1>7. PageMIN!AssertsHold
  BY DEF PageMIN!AssertsHold, PageInv
<1>8. PageMIN!TypeOK
  <2>1. DOMAIN hashTable = Page
    BY DEF PageInv, Table, PageAt
  <2>2. \A i \in DOMAIN maxHeap : maxHeap[i] \in [lineNo : 1..INF, key : Page]
    <3>1. \A i \in 1..Len(maxHeap) : maxHeap[i] \in HeapElement(Page)
      BY <1>2
    <3>2. QED
      BY <1>3, <3>1 DEF HeapElement
  <2>3. PageMIN!Above \subseteq Page /\ Len(upper) <= upperCapacity
    BY DEF PageInv, PageMIN!Above
  <2>4. hits \in 0..Len(trace)
    BY <1>1 DEF PageInv
  <2>5. key_to_value \in SUBSET Page /\ PageMIN!Cardinality(key_to_value) <= Capacity
    BY <1>2, <1>4 DEF PageInv
  <2>6. QED
    BY <1>1, <2>1, <2>2, <2>3, <2>4, <2>5 DEF PageInv, PageMIN!TypeOK
<1>9. QED
  BY <1>5, <1>6, <1>7, <1>8
-----------------------------------------------------------------------------
(***************************************************************************)
(* MIN is optimal: g[i][C] is the most hits that are possible from the     *)
(* i-th request on with C cached. Row() is what BestHits() says of g[i],   *)
(* of which g[i + 1] is `next'.                                            *)
(***************************************************************************)
Row(t, i, next) ==
  LET Largest(S) == CHOOSE x \in S : \A y \in S : y <= x
  IN  [C \in SUBSET Page |->
         IF i > Len(t) THEN 0
         ELSE LET k == t[i].fsblkno
              IN  IF k \in C THEN 1 + next[C]
                  ELSE IF t[i].op = "READ" THEN next[C]
                  ELSE IF PageMIN!Cardinality(C) < Capacity THEN next[C \cup {k}]
                  ELSE Largest({next[(C \ {v}) \cup {k}] : v \in C})]

Rows(t, g) == g = [i \in 1..(Len(t) + 1) |-> Row(t, i, g[i + 1])]

\* BestHits() is such a table: it is filled in from the last request back.
LEMMA BestHitsIs ==
  ASSUME NEW S, NEW t \in Seq(S)
  PROVE  \E g : Rows(t, g) /\ \A i, C : PageMIN!BestHits(t, i, C) = g[i][C]
<1> DEFINE L == Len(t)
           To(n, g) == g = [i \in (L + 1 - n)..(L + 1) |-> Row(t, i, g[i + 1])]
           T == {n \in Nat : n <= L => \E g : To(n, g)}
<1>0. L \in Nat
  OBVIOUS
<1> HIDE DEF L
<1>1. \A x, y : Row(t, L + 1, x) = Row(t, L + 1, y)
  <2>1. L + 1 > L
    BY <1>0
  <2>2. QED
    BY <2>1 DEF Row, L
<1>2. 0 \in T
  <2> DEFINE g == [i \in (L + 1 - 0)..(L + 1) |-> Row(t, L + 1, 0)]
  <2>1. \A i \in (L + 1 - 0)..(L + 1) : i = L + 1
    BY <1>0
  <2>2. \A i \in (L + 1 - 0)..(L + 1) : Row(t, L + 1, 0) = Row(t, i, g[i + 1])
    BY <1>1, <2>1
  <2>3. g = [i \in (L + 1 - 0)..(L + 1) |-> Row(t, i, g[i + 1])]
    BY <2>2
  <2>4. To(0, g)
    BY <2>3
  <2> HIDE DEF g, To
  <2>5. QED
    BY <2>4
<1>3. ASSUME NEW n \in T
      PROVE  n + 1 \in T
  <2>1. n \in Nat /\ n + 1 \in Nat
    OBVIOUS
  <2>2. SUFFICES ASSUME n + 1 <= L PROVE \E g : To(n + 1, g)
    BY <2>1
  <2>3. PICK g : To(n, g)
    BY <1>0, <2>1, <2>2
  <2> DEFINE a == L + 1 - n
             f == [i \in (L + 1 - (n + 1))..(L + 1) |->
                     IF i = a - 1 THEN Row(t, a - 1, g[a]) ELSE g[i]]
  <2>4. a \in 1..(L + 1) /\ L + 1 - (n + 1) = a - 1
    BY <1>0, <2>1, <2>2
  <2>5. \A i \in a..(L + 1) : g[i] = Row(t, i, g[i + 1])
    BY <2>3
  <2> HIDE DEF a
  <2>6. ASSUME NEW i \in (a - 1)..(L + 1)
        PROVE  f[i] = Row(t, i, f[i + 1])
    <3>1. CASE i = a - 1
      <4>1. f[i] = Row(t, a - 1, g[a]) /\ f[i + 1] = g[a]
        BY <1>0, <2>4, <3>1
      <4>2. QED
        BY <3>1, <4>1
    <3>2. CASE i \in a..L
      <4>1. f[i] = g[i] /\ f[i + 1] = g[i + 1] /\ i \in a..(L + 1)
        BY <1>0, <2>4, <3>2
      <4>2. QED
        BY <2>5, <4>1
    <3>3. CASE i = L + 1
      <4>1. f[i] = g[i] /\ i \in a..(L + 1)
        BY <1>0, <2>4, <3>3
      <4>2. f[i] = Row(t, L + 1, g[i + 1])
        BY <2>5, <3>3, <4>1
      <4>3. QED
        BY <1>1, <3>3, <4>2
    <3>4. QED
      BY <1>0, <2>4, <3>1, <3>2, <3>3
  <2>7. f = [i \in (L + 1 - (n + 1))..(L + 1) |-> f[i]]
    OBVIOUS
  <2> HIDE DEF f
  <2>8. To(n + 1, f)
    BY <2>4, <2>6, <2>7
  <2> HIDE DEF To
  <2>9. QED
    BY <2>8
<1>4. T = Nat
  <2>1. T \in SUBSET Nat
    OBVIOUS
  <2> HIDE DEF T
  <2>2. QED
    BY <1>2, <1>3, <2>1, AllNaturals
<1>5. \E g : Rows(t, g)
  <2>1. \E g : To(L, g)
    <3> HIDE DEF To
    <3>1. L <= L
      BY <1>0
    <3>2. \A n \in T : n <= L => \E g : To(n, g)
      OBVIOUS
    <3> HIDE DEF T
    <3>3. L \in T
      BY <1>0, <1>4
    <3>4. QED
      BY <3>1, <3>2, <3>3
  <2>2. L + 1 - L = 1
    BY <1>0
  <2>3. QED
    BY <2>1, <2>2 DEF Rows, L
<1> DEFINE best == CHOOSE g : Rows(t, g)
<1>6. Rows(t, best)
  BY <1>5
<1>7. \A i, C : PageMIN!BestHits(t, i, C) = best[i][C]
  BY DEF PageMIN!BestHits, Rows, Row
<1> HIDE DEF best
<1>8. QED
  BY <1>6, <1>7


\* The cached pages, and the caches in which a page is replaced.
Caches == {C \in SUBSET Page : Cardinality(C) <= Capacity}
Full(C) == C \in SUBSET Page /\ Cardinality(C) = Capacity
Swap(C, v, k) == (C \ {v}) \cup {k}

\* What a write of page k with C cached makes of the hits that are possible.
ScoreRow(score, next, C, k) ==
  /\ k \in C => score = 1 + next[C]
  /\ k \notin C /\ Cardinality(C) < Capacity => score = next[C \cup {k}]
  /\ k \notin C /\ Cardinality(C) = Capacity =>
       /\ \A v \in C : next[Swap(C, v, k)] <= score
       /\ \E v \in C : score = next[Swap(C, v, k)]

Scores(g) ==
  /\ \A i \in 1..(Len(trace) + 1) : \A C \in Caches : g[i][C] \in Nat
  /\ \A i \in 1..Len(trace) : \A C \in Caches :
       ScoreRow(g[i][C], g[i + 1], C, trace[i].fsblkno)
  /\ \A C \in Caches : g[Len(trace) + 1][C] = 0

SingleWrites ==
  /\ \A i \in 1..Len(trace) : trace[i].op = "WRITE"
  /\ \A i, j \in 1..Len(trace) : trace[i].lineNo = trace[j].lineNo => i = j

\* Replacing a page leaves a cache as full as it is.
LEMMA SwapFull ==
  ASSUME IsFiniteSet(Page), NEW C, Full(C), NEW v \in C, NEW k \in Page, k \notin C
  PROVE  Full(Swap(C, v, k)) /\ Swap(C, v, k) \in Caches /\ C \in Caches
<1>1. IsFiniteSet(C) /\ Cardinality(C) \in Nat /\ C \in SUBSET Page
  BY FS_Subset, FS_CardinalityType DEF Full
<1>2. IsFiniteSet(C \ {v}) /\ Cardinality(C \ {v}) = Cardinality(C) - 1
  BY <1>1, FS_RemoveElement
<1>3. k \notin C \ {v}
  OBVIOUS
<1> DEFINE D == C \ {v}
<1> HIDE DEF D
<1>4. Cardinality(D \cup {k}) = Cardinality(D) + 1
  BY <1>2, <1>3, FS_AddElement DEF D
<1>5. Cardinality(Swap(C, v, k)) = Capacity
  BY <1>1, <1>2, <1>4 DEF D, Swap, Full
<1>6. Swap(C, v, k) \in SUBSET Page
  BY <1>1 DEF Swap
<1>7. QED
  BY <1>1, <1>5, <1>6 DEF Full, Caches

\* Adding a page leaves no more pages than the capacity, while there is room.
LEMMA AddRoom ==
  ASSUME IsFiniteSet(Page), Capacity \in Nat, NEW C \in Caches, NEW k \in Page,
         Cardinality(C) < Capacity
  PROVE  C \cup {k} \in Caches
<1>1. IsFiniteSet(C) /\ Cardinality(C) \in Nat /\ C \in SUBSET Page
  BY FS_Subset, FS_CardinalityType DEF Caches
<1>2. Cardinality(C \cup {k}) <= Cardinality(C) + 1
  <2>1. CASE k \in C
    <3>1. C \cup {k} = C
      BY <2>1
    <3>2. QED
      BY <1>1, <3>1
  <2>2. CASE k \notin C
    <3>1. Cardinality(C \cup {k}) = Cardinality(C) + 1
      BY <1>1, <2>2, FS_AddElement
    <3>2. QED
      BY <1>1, <3>1
  <2>3. QED
    BY <2>1, <2>2
<1>3. IsFiniteSet(C \cup {k}) /\ C \cup {k} \in SUBSET Page
  BY <1>1, FS_Subset
<1>4. Cardinality(C \cup {k}) \in Nat
  BY <1>3, FS_CardinalityType
<1>5. Cardinality(C \cup {k}) <= Capacity
  BY <1>1, <1>2, <1>4
<1>6. QED
  BY <1>3, <1>5 DEF Caches

\* Row() is ScoreRow() at a write.
LEMMA RowIs ==
  ASSUME IsFiniteSet(Page), Capacity \in Nat \ {0}, NEW next, NEW b \in Nat,
         \A D \in Caches : next[D] \in 0..b,
         NEW i \in 1..Len(trace), Len(trace) \in Nat, trace[i].op = "WRITE",
         trace[i].fsblkno \in Page, NEW C \in Caches
  PROVE  /\ Row(trace, i, next)[C] \in 0..(b + 1)
         /\ ScoreRow(Row(trace, i, next)[C], next, C, trace[i].fsblkno)
<1> DEFINE k == trace[i].fsblkno
           S == {next[(C \ {v}) \cup {k}] : v \in C}
           Largest == CHOOSE x \in S : \A y \in S : y <= x
           r == Row(trace, i, next)[C]
<1>1. C \in SUBSET Page /\ Cardinality(C) \in Nat /\ Cardinality(C) <= Capacity
  BY FS_Subset, FS_CardinalityType DEF Caches
<1>2. r = IF k \in C THEN 1 + next[C]
          ELSE IF Cardinality(C) < Capacity THEN next[C \cup {k}] ELSE Largest
  <2>1. ~(i > Len(trace)) /\ trace[i].op # "READ"
    OBVIOUS
  <2>2. PageMIN!Cardinality(C) = Cardinality(C)
    BY PageOperators
  <2>3. QED
    BY <1>1, <2>1, <2>2 DEF Row
<1> HIDE DEF r
<1>3. CASE k \in C
  <2>1. r = 1 + next[C] /\ next[C] \in 0..b
    BY <1>2, <1>3
  <2>2. r \in 0..(b + 1)
    BY <2>1
  <2>3. QED
    BY <1>3, <2>1, <2>2 DEF ScoreRow, r
<1>4. CASE k \notin C /\ Cardinality(C) < Capacity
  <2>1. r = next[C \cup {k}] /\ r \in 0..b
    BY <1>2, <1>4, AddRoom
  <2>2. r \in 0..(b + 1) /\ Cardinality(C) # Capacity
    BY <1>1, <1>4, <2>1
  <2>3. QED
    BY <1>4, <2>1, <2>2 DEF ScoreRow, r
<1>5. CASE k \notin C /\ Cardinality(C) = Capacity
  <2>1. r = Largest
    <3> HIDE DEF Largest
    <3>1. ~(Cardinality(C) < Capacity)
      BY <1>5
    <3>2. QED
      BY <1>2, <1>5, <3>1
  <2>2. C # {}
    BY <1>1, <1>5, FS_EmptySet
  <2>3. \A v \in C : Swap(C, v, k) \in Caches
    BY <1>1, <1>5, SwapFull DEF Full
  <2>4. \A v \in C : next[(C \ {v}) \cup {k}] \in 0..b
    BY <2>3 DEF Swap
  <2>5. S \in SUBSET (0..b) /\ S # {}
    BY <2>2, <2>4
  <2>6. \E x \in S : \A y \in S : y <= x
    <3> HIDE DEF S
    <3>1. QED
      BY <2>5, LargestIs
  <2>7. Largest \in S /\ \A y \in S : y <= Largest
    BY <2>6
  <2>8. r \in S /\ \A y \in S : y <= r
    BY <2>1, <2>7
  <2>9. \A v \in C : next[Swap(C, v, k)] \in S
    BY DEF Swap
  <2>10. \E v \in C : r = next[Swap(C, v, k)]
    BY <2>8 DEF Swap
  <2>11. r \in 0..(b + 1)
    <3> HIDE DEF S
    <3>1. r \in 0..b
      BY <2>5, <2>8
    <3>2. QED
      BY <3>1
  <2>12. ~(Cardinality(C) < Capacity)
    BY <1>5
  <2>13. \A v \in C : next[Swap(C, v, k)] <= r
    <3> HIDE DEF S
    <3>1. QED
      BY <2>8, <2>9
  <2>14. ScoreRow(r, next, C, k)
    <3> HIDE DEF k
    <3>1. QED
      BY <1>5, <2>10, <2>12, <2>13 DEF ScoreRow
  <2>15. QED
    BY <2>11, <2>14 DEF r
<1>6. QED
  BY <1>1, <1>3, <1>4, <1>5


\* Rows of the table: one score for each request and cache.
LEMMA ScoresAre ==
  ASSUME IsFiniteSet(Page), Capacity \in Nat \ {0}, Len(trace) \in Nat, SingleWrites,
         \A i \in 1..Len(trace) : trace[i].fsblkno \in Page, NEW g, Rows(trace, g)
  PROVE  Scores(g)
<1> DEFINE L == Len(trace)
           Bounded(n) == \A C \in Caches : g[L + 1 - n][C] \in 0..n
           T == {n \in Nat : n <= L => Bounded(n)}
<1>1. \A i \in 1..(L + 1) : g[i] = Row(trace, i, g[i + 1])
  BY DEF Rows
<1>2. Caches \in SUBSET (SUBSET Page)
  BY DEF Caches
<1>3. \A C \in Caches : g[L + 1][C] = 0
  <2>1. L + 1 \in 1..(L + 1) /\ L + 1 > L
    OBVIOUS
  <2>2. g[L + 1] = Row(trace, L + 1, g[L + 1 + 1])
    BY <1>1, <2>1
  <2>3. QED
    BY <1>2, <2>1, <2>2 DEF Row
<1>4. Bounded(0)
  BY <1>3
<1> HIDE DEF L
<1>5. ASSUME NEW n \in Nat, n + 1 <= L, Bounded(n)
      PROVE  /\ Bounded(n + 1)
             /\ \A C \in Caches : ScoreRow(g[L - n][C], g[L + 1 - n], C,
                                           trace[L - n].fsblkno)
  <2> DEFINE i == L - n
             next == g[L + 1 - n]
  <2>1. L \in Nat
    BY DEF L
  <2>2. i \in 1..L /\ i + 1 = L + 1 - n /\ L + 1 - (n + 1) = i /\ i \in 1..(L + 1)
    BY <1>5, <2>1
  <2>3. g[i] = Row(trace, i, next)
    BY <1>1, <2>2
  <2>4. \A D \in Caches : next[D] \in 0..n
    BY <1>5
  <2>5. trace[i].op = "WRITE" /\ trace[i].fsblkno \in Page /\ i \in 1..Len(trace)
    BY <2>2 DEF L, SingleWrites
  <2> HIDE DEF i, next
  <2>6. \A C \in Caches : /\ g[i][C] \in 0..(n + 1)
                          /\ ScoreRow(g[i][C], next, C, trace[i].fsblkno)
    BY <2>3, <2>4, <2>5, RowIs
  <2>7. QED
    BY <2>2, <2>6 DEF i, next
<1>6. \A n \in Nat : n <= L => Bounded(n)
  <2>1. 0 \in T
    BY <1>4
  <2>2. ASSUME NEW n \in T PROVE n + 1 \in T
    <3>1. n \in Nat /\ n + 1 \in Nat /\ (n <= L => Bounded(n))
      OBVIOUS
    <3>2. L \in Nat
      BY DEF L
    <3>3. SUFFICES ASSUME n + 1 <= L PROVE Bounded(n + 1)
      BY <3>1
    <3>4. n <= L
      BY <3>1, <3>2, <3>3
    <3> HIDE DEF Bounded, T
    <3>5. QED
      BY <1>5, <3>1, <3>3, <3>4
  <2>3. \A n \in T : n <= L => Bounded(n)
    OBVIOUS
  <2>4. T \in SUBSET Nat
    OBVIOUS
  <2> HIDE DEF T, Bounded
  <2>5. T = Nat
    BY <2>1, <2>2, <2>4, AllNaturals
  <2>6. QED
    BY <2>3, <2>5
<1>7. \A i \in 1..(L + 1) : L + 1 - i \in Nat /\ L + 1 - i <= L
                            /\ L + 1 - (L + 1 - i) = i
  BY DEF L
<1>8. \A i \in 1..(L + 1) : \A C \in Caches : g[i][C] \in Nat
  <2>1. TAKE i \in 1..(L + 1)
  <2>2. Bounded(L + 1 - i)
    <3> HIDE DEF Bounded
    <3>1. QED
      BY <1>6, <1>7
  <2>3. \A C \in Caches : g[i][C] \in 0..(L + 1 - i)
    BY <1>7, <2>2
  <2>4. QED
    BY <1>7, <2>3
<1>9. \A i \in 1..L : \A C \in Caches :
        ScoreRow(g[i][C], g[i + 1], C, trace[i].fsblkno)
  <2>1. TAKE i \in 1..L
  <2> DEFINE n == L - i
  <2>2. /\ n \in Nat /\ n + 1 <= L /\ n <= L /\ L - n = i /\ L + 1 - n = i + 1
    BY DEF L
  <2> HIDE DEF n
  <2>3. Bounded(n)
    <3> HIDE DEF Bounded
    <3>1. QED
      BY <1>6, <2>2
  <2>4. \A C \in Caches : ScoreRow(g[L - n][C], g[L + 1 - n], C, trace[L - n].fsblkno)
    <3> HIDE DEF Bounded
    <3>1. QED
      BY <1>5, <2>2, <2>3
  <2>5. QED
    BY <2>2, <2>4
<1>10. QED
  BY <1>3, <1>8, <1>9 DEF Scores, L

\* What a request for page k does to the scores of full caches.
Scoring(now, next, k) ==
  \A C : Full(C) => now[C] \in Nat /\ next[C] \in Nat /\ ScoreRow(now[C], next, C, k)

\* Full caches: a hit counts, and a miss replaces the page that costs least.
LEMMA FullRow ==
  ASSUME NEW now, NEW next, NEW k, Scoring(now, next, k), NEW C, Full(C)
  PROVE  /\ now[C] \in Nat /\ next[C] \in Nat
         /\ k \in C => now[C] = 1 + next[C]
         /\ k \notin C => /\ \A v \in C : next[Swap(C, v, k)] <= now[C]
                          /\ \E v \in C : now[C] = next[Swap(C, v, k)]
BY DEF Scoring, ScoreRow, Full

\* Exchanging a page of the cache costs a hit at most.
CostsOne(score) ==
  \A C : Full(C) =>
    \A u \in C : \A w \in Page \ C : score[C] <= 1 + score[Swap(C, u, w)]

\* A request keeps that so: whichever page it puts in, the caches stay one apart.
LEMMA SwapCostsOne ==
  ASSUME IsFiniteSet(Page), Capacity \in Nat, NEW k \in Page, NEW now, NEW next,
         Scoring(now, next, k), CostsOne(next)
  PROVE  CostsOne(now)
<1> SUFFICES ASSUME NEW C, Full(C), NEW u \in C, NEW w \in Page \ C
             PROVE  now[C] <= 1 + now[Swap(C, u, w)]
  BY DEF CostsOne
<1> DEFINE D == Swap(C, u, w)
<1>1. C \in SUBSET Page
  BY DEF Full
<1>2. Full(D)
  BY SwapFull
<1>3. now[C] \in Nat /\ next[C] \in Nat /\ now[D] \in Nat /\ next[D] \in Nat
  BY <1>2, FullRow
<1>4. ASSUME NEW E, Full(E), NEW a \in E, NEW b \in Page \ E
      PROVE  /\ next[E] <= 1 + next[Swap(E, a, b)] /\ next[E] \in Nat
             /\ next[Swap(E, a, b)] \in Nat
  <2>1. Full(Swap(E, a, b))
    BY <1>4, SwapFull
  <2>2. next[E] \in Nat /\ next[Swap(E, a, b)] \in Nat
    BY <1>4, <2>1, FullRow
  <2>3. QED
    BY <1>4, <2>2 DEF CostsOne
<1>5. CASE k \in C /\ k # u
  <2>1. k \in D
    BY <1>5 DEF Swap
  <2>2. now[C] = 1 + next[C] /\ now[D] = 1 + next[D]
    BY <1>2, <1>5, <2>1, FullRow
  <2>3. next[C] <= 1 + next[D]
    BY <1>4
  <2> HIDE DEF D
  <2>4. now[C] <= 1 + now[D]
    BY <1>3, <2>2, <2>3
  <2>5. QED
    BY <2>4 DEF D
<1>6. CASE k = u
  <2>1. k \notin D /\ w \in D /\ Swap(D, w, k) = C
    BY <1>1, <1>6 DEF Swap
  <2>2. now[C] = 1 + next[C] /\ next[Swap(D, w, k)] <= now[D]
    BY <1>2, <1>6, <2>1, FullRow
  <2> HIDE DEF D
  <2>3. now[C] <= 1 + now[D]
    BY <1>3, <2>1, <2>2
  <2>4. QED
    BY <2>3 DEF D
<1>7. CASE k \notin C
  <2>1. PICK v \in C : now[C] = next[Swap(C, v, k)]
    BY <1>7, FullRow
  <2> DEFINE E == Swap(C, v, k)
  <2>2. Full(E) /\ next[E] \in Nat
    BY <1>7, SwapFull, FullRow
  <2>3. CASE k = w
    <3>1. k \in D
      BY <2>3 DEF Swap
    <3>2. now[D] = 1 + next[D]
      BY <1>2, <3>1, FullRow
    <3>3. next[E] <= 1 + next[D]
      <4>1. CASE v = u
        <5>1. E = D
          BY <2>3, <4>1
        <5> HIDE DEF D, E
        <5>2. QED
          BY <1>3, <5>1
      <4>2. CASE v # u
        <5>1. u \in E /\ v \in Page \ E /\ Swap(E, u, v) = D
          BY <1>1, <1>7, <2>3, <4>2 DEF Swap
        <5> HIDE DEF D, E
        <5>2. QED
          BY <1>4, <2>2, <5>1
      <4>3. QED
        BY <4>1, <4>2
    <3> HIDE DEF D
    <3>4. now[C] <= 1 + now[D]
      <4> HIDE DEF E
      <4>1. now[C] = next[E]
        BY <2>1 DEF E
      <4>2. QED
        BY <1>3, <2>2, <3>2, <3>3, <4>1
    <3>5. QED
      BY <3>4 DEF D
  <2>4. CASE k # w
    <3>1. k \notin D
      BY <1>7, <2>4 DEF Swap
    <3>2. \A x \in D : next[Swap(D, x, k)] <= now[D]
      BY <1>2, <3>1, FullRow
    <3>3. next[E] <= 1 + now[D]
      <4>1. CASE v = u
        <5>1. w \in D /\ Swap(D, w, k) = E
          BY <4>1 DEF Swap
        <5> HIDE DEF D, E
        <5>2. next[E] <= now[D]
          BY <3>2, <5>1
        <5>3. QED
          BY <1>3, <2>2, <5>2
      <4>2. CASE v # u
        <5>1. /\ v \in D /\ u \in E /\ w \in Page \ E
              /\ Swap(D, v, k) = Swap(E, u, w)
          BY <1>1, <1>7, <2>4, <4>2 DEF Swap
        <5> HIDE DEF D, E
        <5>2. /\ next[E] <= 1 + next[Swap(E, u, w)]
              /\ next[Swap(E, u, w)] \in Nat
          BY <1>4, <2>2, <5>1
        <5>3. next[Swap(E, u, w)] <= now[D]
          BY <3>2, <5>1
        <5>4. QED
          BY <1>3, <2>2, <5>2, <5>3
      <4>3. QED
        BY <4>1, <4>2
    <3> HIDE DEF D, E
    <3>4. now[C] <= 1 + now[D]
      BY <2>1, <3>3 DEF E
    <3>5. QED
      BY <3>4 DEF D
  <2>5. QED
    BY <2>3, <2>4
<1>8. QED
  BY <1>5, <1>6, <1>7


\* A page that the request is not for is accessed on a later line, if at all.
LEMMA LaterLine ==
  ASSUME INF \in Nat \ {0}, Proper(trace), SingleWrites, NEW p \in 1..Len(trace),
         NEW x \in Page, x # trace[p].fsblkno
  PROVE  trace[p].lineNo < NextLine(PagesAt(x), p)
<1>1. Len(trace) \in Nat /\ p \in Nat /\ trace[p] \in Access
  BY DEF Proper
<1>2. trace[p].lineNo \in 1..(INF - 1) /\ INF \in Nat
  BY <1>1 DEF Access
<1>3. PagesAt(x) \in SUBSET (1..Len(trace))
  BY DEF PagesAt
<1> DEFINE F == From(PagesAt(x), p)
<1>4. CASE F = {}
  <2>1. NextLine(PagesAt(x), p) = INF
    BY <1>4 DEF NextLine
  <2>2. QED
    BY <1>2, <2>1
<1>5. CASE F # {}
  <2>1. PICK i \in F : TRUE
    BY <1>5
  <2>2. F \in SUBSET Nat
    BY <1>1, <1>3, FromIs
  <2> DEFINE j == Lowest(F)
  <2>3. j \in F
    BY <2>1, <2>2, LowestIs
  <2>4. NextLine(PagesAt(x), p) = trace[j].lineNo
    BY <1>5 DEF NextLine
  <2> HIDE DEF j
  <2>5. j \in 1..Len(trace) /\ p <= j /\ trace[j].fsblkno = x
    BY <2>3 DEF From, PagesAt
  <2>6. j # p /\ j \in Nat /\ p < j
    BY <1>1, <2>5
  <2>7. trace[p].lineNo <= trace[j].lineNo
    BY <2>5, <2>6 DEF Proper, Ordered
  <2>8. trace[p].lineNo # trace[j].lineNo
    BY <2>5, <2>6 DEF SingleWrites
  <2>9. trace[j].lineNo \in Nat
    <3>1. trace[j] \in Access
      BY <2>5 DEF Proper
    <3>2. trace[j].lineNo \in 1..(INF - 1)
      BY <3>1 DEF Access
    <3>3. QED
      BY <1>2, <3>2
  <2>10. QED
    BY <1>2, <2>4, <2>7, <2>8, <2>9
<1>6. QED
  BY <1>4, <1>5

\* Having a page that is accessed sooner in the place of another costs nothing.
Sooner(score, p) ==
  \A C : Full(C) =>
    \A y \in C : \A x \in Page \ C :
      NextLine(PagesAt(x), p) <= NextLine(PagesAt(y), p) =>
        score[C] <= score[Swap(C, y, x)]

\* A request keeps that so, seen from the one after it.
LEMMA SoonerIsBetter ==
  ASSUME IsFiniteSet(Page), Capacity \in Nat, INF \in Nat \ {0}, Proper(trace),
         SingleWrites, NEW p \in 1..Len(trace), NEW k \in Page,
         k = trace[p].fsblkno, NEW now, NEW next, Scoring(now, next, k),
         CostsOne(next), Sooner(next, p + 1)
  PROVE  Sooner(now, p)
<1> SUFFICES ASSUME NEW C, Full(C), NEW y \in C, NEW x \in Page \ C,
                    NextLine(PagesAt(x), p) <= NextLine(PagesAt(y), p)
             PROVE  now[C] <= now[Swap(C, y, x)]
  BY DEF Sooner
<1> DEFINE D == Swap(C, y, x)
<1>1. C \in SUBSET Page
  BY DEF Full
<1>2. Full(D)
  BY SwapFull
<1>3. now[C] \in Nat /\ next[C] \in Nat /\ now[D] \in Nat /\ next[D] \in Nat
  BY <1>2, FullRow
<1>4. ASSUME NEW E, Full(E), NEW a \in E, NEW b \in Page \ E
      PROVE  next[E] \in Nat /\ next[Swap(E, a, b)] \in Nat
  <2>1. Full(Swap(E, a, b))
    BY <1>4, SwapFull
  <2>2. QED
    BY <1>4, <2>1, FullRow
<1>5. Len(trace) \in Nat /\ p \in Nat /\ p + 1 \in Nat
  BY DEF Proper
<1>6. ASSUME NEW z \in Page, z # k
      PROVE  NextLine(PagesAt(z), p + 1) = NextLine(PagesAt(z), p)
  <2>1. p \notin PagesAt(z) /\ PagesAt(z) \in SUBSET (1..Len(trace))
    BY <1>6 DEF PagesAt
  <2>2. QED
    BY <1>5, <2>1, NextLineMoves
<1>7. y # k
  <2>1. SUFFICES ASSUME y = k PROVE FALSE
    OBVIOUS
  <2>2. p \in PagesAt(k) /\ PagesAt(k) \in SUBSET (1..Len(trace))
    BY DEF PagesAt
  <2>3. NextLine(PagesAt(k), p) = trace[p].lineNo
    BY <1>5, <2>2, NextLineMoves
  <2>4. x # k
    BY <2>1
  <2>5. trace[p].lineNo < NextLine(PagesAt(x), p)
    BY <2>4, LaterLine
  <2>6. PagesAt(x) \in SUBSET (1..Len(trace))
    BY DEF PagesAt
  <2>7. NextLine(PagesAt(x), p) \in 1..INF
    BY <1>5, <2>6, NextLineIs
  <2>8. NextLine(PagesAt(x), p) \in Nat /\ trace[p].lineNo \in Nat
    <3>1. trace[p] \in Access
      BY DEF Proper
    <3>2. trace[p].lineNo \in 1..(INF - 1)
      BY <3>1 DEF Access
    <3>3. QED
      BY <2>7, <3>2
  <2>9. QED
    BY <2>1, <2>3, <2>5, <2>8
<1>8. CASE k = x
  <2>1. k \notin C /\ k \in D
    BY <1>8 DEF Swap
  <2>2. now[D] = 1 + next[D]
    BY <1>2, <2>1, FullRow
  <2>3. PICK v \in C : now[C] = next[Swap(C, v, k)]
    BY <2>1, FullRow
  <2> DEFINE E == Swap(C, v, k)
  <2>4. Full(E) /\ next[E] \in Nat
    BY <2>1, SwapFull, FullRow
  <2>5. CASE v = y
    <3>1. E = D
      BY <1>8, <2>5
    <3> HIDE DEF D, E
    <3>2. now[C] <= now[D]
      BY <1>3, <2>2, <2>3, <3>1 DEF E
    <3>3. QED
      BY <3>2 DEF D
  <2>6. CASE v # y
    <3>1. y \in E /\ v \in Page \ E /\ Swap(E, y, v) = D
      BY <1>1, <1>8, <2>1, <2>6 DEF Swap
    <3>2. now[C] = next[E]
      BY <2>3
    <3> HIDE DEF D, E
    <3>3. next[E] <= 1 + next[D]
      BY <2>4, <3>1 DEF CostsOne
    <3>4. now[C] <= now[D]
      BY <2>2, <3>2, <3>3
    <3>5. QED
      BY <3>4 DEF D
  <2>7. QED
    BY <2>5, <2>6
<1>9. CASE k \in C
  <2>1. k \in D /\ k # x
    BY <1>7, <1>9 DEF Swap
  <2>2. now[C] = 1 + next[C] /\ now[D] = 1 + next[D]
    BY <1>2, <1>9, <2>1, FullRow
  <2>3. NextLine(PagesAt(x), p + 1) <= NextLine(PagesAt(y), p + 1)
    BY <1>1, <1>6, <1>7, <2>1
  <2>4. next[C] <= next[D]
    BY <2>3 DEF Sooner
  <2> HIDE DEF D
  <2>5. now[C] <= now[D]
    BY <1>3, <2>2, <2>4
  <2>6. QED
    BY <2>5 DEF D
<1>10. CASE k \notin C /\ k # x
  <2>1. k \notin D
    BY <1>10 DEF Swap
  <2>2. PICK v \in C : now[C] = next[Swap(C, v, k)]
    BY <1>10, FullRow
  <2>3. \A u \in D : next[Swap(D, u, k)] <= now[D]
    BY <1>2, <2>1, FullRow
  <2> DEFINE E == Swap(C, v, k)
  <2>4. Full(E) /\ next[E] \in Nat
    BY <1>10, SwapFull, FullRow
  <2>5. next[E] <= now[D]
    <3>1. CASE v = y
      <4>1. x \in D /\ Swap(D, x, k) = E
        BY <1>1, <1>10, <3>1 DEF Swap
      <4> HIDE DEF D, E
      <4>2. QED
        BY <2>3, <4>1
    <3>2. CASE v # y
      <4>1. /\ y \in E /\ x \in Page \ E /\ v \in D
            /\ Swap(E, y, x) = Swap(D, v, k)
        BY <1>1, <1>10, <3>2 DEF Swap
      <4>2. NextLine(PagesAt(x), p + 1) <= NextLine(PagesAt(y), p + 1)
        BY <1>1, <1>6, <1>7, <1>10
      <4> HIDE DEF D, E
      <4>3. next[E] <= next[Swap(E, y, x)]
        BY <2>4, <4>1, <4>2 DEF Sooner
      <4>4. next[Swap(D, v, k)] <= now[D]
        BY <2>3, <4>1
      <4>5. next[Swap(E, y, x)] \in Nat
        BY <1>4, <2>4, <4>1
      <4>6. QED
        BY <1>3, <2>4, <4>1, <4>3, <4>4, <4>5
    <3>3. QED
      BY <3>1, <3>2
  <2>6. now[C] = next[E]
    BY <2>2
  <2> HIDE DEF D, E
  <2>7. now[C] <= now[D]
    BY <2>5, <2>6
  <2>8. QED
    BY <2>7 DEF D
<1>11. QED
  BY <1>8, <1>9, <1>10

\* It is so all along the trace.
LEMMA SoonerAllAlong ==
  ASSUME IsFiniteSet(Page), Capacity \in Nat, INF \in Nat \ {0}, Proper(trace),
         SingleWrites, NEW g, Scores(g), NEW p \in 1..(Len(trace) + 1)
  PROVE  Sooner(g[p], p)
<1> DEFINE L == Len(trace)
           Both(n) == CostsOne(g[L + 1 - n]) /\ Sooner(g[L + 1 - n], L + 1 - n)
           T == {n \in Nat : n <= L => Both(n)}
<1>1. L \in Nat /\ p \in 1..(L + 1)
  BY DEF Proper
<1>2. \A i \in 1..L : trace[i].fsblkno \in Page
  <2>1. \A i \in 1..L : trace[i] \in Access
    BY DEF Proper
  <2>2. QED
    BY <2>1 DEF Access
<1>3. \A C : Full(C) => C \in Caches
  BY DEF Full, Caches
<1>4. Both(0)
  <2>1. \A C : Full(C) => g[L + 1][C] = 0
    BY <1>3 DEF Scores
  <2>2. ASSUME NEW C, Full(C), NEW y \in C, NEW x \in Page \ C
        PROVE  g[L + 1][C] = 0 /\ g[L + 1][Swap(C, y, x)] = 0
    <3>1. Full(Swap(C, y, x))
      BY <2>2, SwapFull
    <3>2. QED
      BY <2>1, <2>2, <3>1
  <2>3. CostsOne(g[L + 1])
    BY <2>2 DEF CostsOne
  <2>4. Sooner(g[L + 1], L + 1)
    BY <2>2 DEF Sooner
  <2>5. L + 1 - 0 = L + 1
    BY <1>1
  <2>6. QED
    BY <2>3, <2>4, <2>5
<1>5. \A i \in 1..L : Scoring(g[i], g[i + 1], trace[i].fsblkno)
  <2>1. TAKE i \in 1..L
  <2>2. i \in 1..(L + 1) /\ i + 1 \in 1..(L + 1)
    BY <1>1
  <2>3. QED
    BY <1>3, <2>2 DEF Scores, Scoring
<1> HIDE DEF L
<1>6. ASSUME NEW n \in Nat, n + 1 <= L, Both(n)
      PROVE  Both(n + 1)
  <2> DEFINE i == L - n
  <2>1. i \in 1..L /\ i + 1 = L + 1 - n /\ L + 1 - (n + 1) = i
    BY <1>1, <1>6
  <2> HIDE DEF i
  <2>2. CostsOne(g[i + 1]) /\ Sooner(g[i + 1], i + 1)
    BY <1>6, <2>1
  <2>3. Scoring(g[i], g[i + 1], trace[i].fsblkno) /\ trace[i].fsblkno \in Page
    BY <1>2, <1>5, <2>1
  <2>4. CostsOne(g[i])
    BY <2>2, <2>3, SwapCostsOne
  <2>5. Sooner(g[i], i)
    BY <2>1, <2>2, <2>3, SoonerIsBetter DEF L
  <2>6. QED
    BY <2>1, <2>4, <2>5
<1>7. \A n \in Nat : n <= L => Both(n)
  <2>1. 0 \in T
    BY <1>4
  <2>2. ASSUME NEW n \in T PROVE n + 1 \in T
    <3>1. n \in Nat /\ n + 1 \in Nat /\ (n <= L => Both(n))
      OBVIOUS
    <3>2. SUFFICES ASSUME n + 1 <= L PROVE Both(n + 1)
      BY <3>1
    <3>3. n <= L
      BY <1>1, <3>1, <3>2
    <3> HIDE DEF Both, T
    <3>4. QED
      BY <1>6, <3>1, <3>2, <3>3
  <2>3. \A n \in T : n <= L => Both(n)
    OBVIOUS
  <2>4. T \in SUBSET Nat
    OBVIOUS
  <2> HIDE DEF T, Both
  <2>5. T = Nat
    BY <2>1, <2>2, <2>4, AllNaturals
  <2>6. QED
    BY <2>3, <2>5
<1> DEFINE m == L + 1 - p
<1>8. m \in Nat /\ m <= L /\ L + 1 - m = p
  BY <1>1
<1> HIDE DEF m
<1>9. Both(m)
  <2> HIDE DEF Both
  <2>1. QED
    BY <1>7, <1>8
<1>10. QED
  BY <1>8, <1>9


\* The hits that are possible, as a table.
LEMMA Possible ==
  ASSUME PageMIN!TraceAssumption, PageMIN!PageMinAssumption, PageInv, SingleWrites
  PROVE  \E g : Scores(g) /\ \A i, C : PageMIN!BestHits(trace, i, C) = g[i][C]
<1>1. Proper(trace) /\ Len(trace) \in Nat /\ trace \in Seq(Access)
  BY DEF PageInv, Proper
<1>2. PICK g : /\ Rows(trace, g)
               /\ \A i, C : PageMIN!BestHits(trace, i, C) = g[i][C]
  BY <1>1, BestHitsIs
<1>3. IsFiniteSet(Page) /\ Capacity \in Nat \ {0}
  <2>1. \A S : PageMIN!IsFiniteSet(S) <=> IsFiniteSet(S)
    BY DEF PageMIN!IsFiniteSet, IsFiniteSet
  <2>2. QED
    BY <2>1 DEF PageMIN!TraceAssumption, PageMIN!PageMinAssumption
<1>4. \A i \in 1..Len(trace) : trace[i].fsblkno \in Page
  <2>1. \A i \in 1..Len(trace) : trace[i] \in Access
    BY <1>1
  <2>2. QED
    BY <2>1 DEF Access
<1>5. Scores(g)
  BY <1>1, <1>2, <1>3, <1>4, ScoresAre
<1>6. QED
  BY <1>2, <1>5

\* SingleWrites is the hypothesis of Optimal.
LEMMA SingleWritesIs ==
  ASSUME Proper(trace)
  PROVE  PageMIN!SinglePageWrites <=> SingleWrites
<1>1. DOMAIN trace = 1..Len(trace)
  BY DEF Proper
<1>2. QED
  BY <1>1 DEF PageMIN!SinglePageWrites, SingleWrites

\* A step that loses none of the hits that were possible.
LEMMA LosesNothing ==
  ASSUME PageMIN!TraceAssumption, PageMIN!PageMinAssumption, PageInv,
         PageMIN!Optimal, trace' = trace, upperCapacity' = upperCapacity,
         ASSUME upperCapacity = 0, SingleWrites, NEW CONSTANT g, Scores(g),
                hits + g[pos][key_to_value] = g[1][{}]
         PROVE  hits' + g[pos'][key_to_value'] = g[1][{}]
  PROVE  PageMIN!Optimal'
<1>1. (PageMIN!SinglePageWrites)' <=> PageMIN!SinglePageWrites
  BY DEF PageMIN!SinglePageWrites
<1>2. PageMIN!SinglePageWrites <=> SingleWrites
  BY SingleWritesIs DEF PageInv
<1>3. SUFFICES ASSUME upperCapacity = 0, SingleWrites
               PROVE  hits' + PageMIN!BestHits(trace, pos', key_to_value')
                        = PageMIN!BestHits(trace, 1, {})
  BY <1>1, <1>2 DEF PageMIN!Optimal
<1>4. PICK g : /\ Scores(g)
               /\ \A i, C : PageMIN!BestHits(trace, i, C) = g[i][C]
  BY <1>3, Possible
<1>5. hits + PageMIN!BestHits(trace, pos, key_to_value)
        = PageMIN!BestHits(trace, 1, {})
  BY <1>2, <1>3 DEF PageMIN!Optimal
<1>6. hits' + g[pos'][key_to_value'] = g[1][{}]
  BY <1>3, <1>4, <1>5
<1>7. QED
  BY <1>4, <1>6

\* The state when there is no level above.
LEMMA PageOnly ==
  ASSUME PageMIN!TraceAssumption, PageMIN!PageMinAssumption, PageInv,
         ~PageMIN!Finished, upperCapacity = 0, SingleWrites
  PROVE  /\ PageMIN!Above = {} /\ Front.op = "WRITE" /\ Front.fsblkno \in Page
         /\ key_to_value \in Caches /\ Cardinality(key_to_value) \in Nat
         /\ IsFiniteSet(Page) /\ Capacity \in Nat \ {0} /\ INF \in Nat \ {0}
         /\ Proper(trace) /\ pos \in 1..Len(trace) /\ Len(trace) \in Nat
         /\ pos + 1 \in 1..(Len(trace) + 1) /\ pos \in 1..(Len(trace) + 1)
<1>1. /\ Proper(trace) /\ pos \in 1..Len(trace) /\ Len(trace) \in Nat
      /\ Front.fsblkno \in Page /\ Capacity \in Nat \ {0} /\ INF \in Nat \ {0}
      /\ Page \in SUBSET Nat
  BY PageFront DEF PageInv
<1>2. PageMIN!Above = {}
  <2>1. upper \in Seq(Page) /\ Len(upper) <= 0
    BY DEF PageInv
  <2>2. Len(upper) = 0
    BY <2>1
  <2>3. QED
    BY <2>2 DEF PageMIN!Above
<1>3. Front.op = "WRITE"
  BY <1>1 DEF SingleWrites, Front
<1>4. IsFiniteSet(Page)
  <2>1. \A S : PageMIN!IsFiniteSet(S) <=> IsFiniteSet(S)
    BY DEF PageMIN!IsFiniteSet, IsFiniteSet
  <2>2. QED
    BY <2>1 DEF PageMIN!TraceAssumption
<1>5. key_to_value \in Caches /\ Cardinality(key_to_value) \in Nat
  <2>1. Heap(maxHeap, Page, key_to_value) /\ Len(maxHeap) <= Capacity
    BY DEF PageInv
  <2>2. key_to_value \subseteq Page /\ Cardinality(key_to_value) = Len(maxHeap)
        /\ Len(maxHeap) \in Nat
    BY <1>1, <2>1, HeapFacts
  <2>3. QED
    BY <2>1, <2>2 DEF Caches
<1>6. pos + 1 \in 1..(Len(trace) + 1) /\ pos \in 1..(Len(trace) + 1)
  BY <1>1
<1>7. QED
  BY <1>1, <1>2, <1>3, <1>4, <1>5, <1>6

\* The page with the largest line in the heap costs least to evict.
LEMMA VictimCostsLeast ==
  ASSUME PageMIN!TraceAssumption, PageMIN!PageMinAssumption, PageInv,
         ~PageMIN!Finished, upperCapacity = 0, SingleWrites,
         Front.fsblkno \notin key_to_value, Cardinality(key_to_value) = Capacity,
         NEW g, Scores(g)
  PROVE  /\ maxHeap[1].key \in key_to_value
         /\ g[pos][key_to_value] =
              g[pos + 1][Swap(key_to_value, maxHeap[1].key, Front.fsblkno)]
<1> DEFINE C == key_to_value
           k == Front.fsblkno
           v == maxHeap[1].key
           next == g[pos + 1]
<1>1. /\ k \in Page /\ C \in Caches /\ IsFiniteSet(Page) /\ Capacity \in Nat \ {0}
      /\ INF \in Nat \ {0} /\ Proper(trace) /\ pos \in 1..Len(trace)
      /\ pos + 1 \in 1..(Len(trace) + 1) /\ pos \in 1..(Len(trace) + 1)
      /\ pos \in Nat /\ Page \in SUBSET Nat
  BY PageOnly, PageFront
<1>2. Full(C)
  BY <1>1 DEF Full, Caches
<1>3. /\ Heap(maxHeap, Page, C) /\ PageEntriesTrue(maxHeap, pos)
  BY DEF PageInv
<1>4. /\ maxHeap \in Seq(HeapElement(Page)) /\ Len(maxHeap) = Capacity
      /\ \A i \in 1..Len(maxHeap) : /\ maxHeap[i].lineNo \in 1..INF
                                    /\ maxHeap[i].key \in Page \cap C
      /\ Covers(maxHeap, C)
  BY <1>1, <1>3, HeapFacts
<1>5. 1 \in 1..Len(maxHeap)
  BY <1>1, <1>4
<1>6. v \in C /\ v \in Page /\ v # k
  BY <1>4, <1>5
<1>7. ASSUME NEW z \in C
      PROVE  /\ NextLine(PagesAt(z), pos) <= NextLine(PagesAt(v), pos)
             /\ NextLine(PagesAt(z), pos + 1) = NextLine(PagesAt(z), pos)
  <2>1. PICK i \in 1..Len(maxHeap) : maxHeap[i].key = z
    BY <1>4 DEF Covers
  <2>2. maxHeap[i].lineNo <= maxHeap[1].lineNo
    <3>1. CASE i = 1
      BY <1>4, <3>1
    <3>2. CASE i # 1
      <4>1. 1 < i
        BY <1>1, <1>4, <3>2
      <4>2. maxHeap[1].lineNo >= maxHeap[i].lineNo
        BY <1>3, <1>5, <4>1 DEF Heap, LaterFirst
      <4>3. QED
        BY <1>1, <1>4, <1>5, <4>2
    <3>3. QED
      BY <3>1, <3>2
  <2>3. /\ maxHeap[i].lineNo = NextLine(PagesAt(z), pos)
        /\ maxHeap[1].lineNo = NextLine(PagesAt(v), pos)
    BY <1>3, <1>5, <2>1 DEF PageEntriesTrue, ListSet
  <2>4. pos \notin PagesAt(z) /\ PagesAt(z) \in SUBSET (1..Len(trace))
    BY DEF PagesAt, Front
  <2>5. QED
    BY <1>1, <2>2, <2>3, <2>4, NextLineMoves
<1>8. /\ \A u \in C : next[Swap(C, u, k)] <= g[pos][C]
      /\ \E u \in C : g[pos][C] = next[Swap(C, u, k)]
  <2>1. ScoreRow(g[pos][C], next, C, k)
    BY <1>1 DEF Scores, Front
  <2> HIDE DEF C, k, next
  <2>2. QED
    BY <1>2, <2>1 DEF ScoreRow, Full, C, k
<1>9. PICK u \in C : g[pos][C] = next[Swap(C, u, k)]
  BY <1>8
<1>10. ASSUME NEW E, Full(E)
       PROVE  next[E] \in Nat
  <2>1. E \in Caches
    BY <1>1, <1>10 DEF Full, Caches
  <2>2. QED
    BY <1>1, <2>1 DEF Scores
<1>11. g[pos][C] <= next[Swap(C, v, k)]
  <2> DEFINE E == Swap(C, u, k)
  <2>1. Full(E) /\ Full(Swap(C, v, k))
    BY <1>1, <1>2, <1>6, SwapFull
  <2>2. next[E] \in Nat /\ next[Swap(C, v, k)] \in Nat
    BY <1>10, <2>1
  <2>3. CASE u = v
    BY <1>9, <2>2, <2>3
  <2>4. CASE u # v
    <3>1. v \in E /\ u \in Page \ E /\ Swap(E, v, u) = Swap(C, v, k)
      BY <1>2, <1>6, <2>4 DEF Swap, Full
    <3>2. NextLine(PagesAt(u), pos + 1) <= NextLine(PagesAt(v), pos + 1)
      BY <1>6, <1>7
    <3>3. Sooner(next, pos + 1)
      BY <1>1, SoonerAllAlong
    <3> HIDE DEF E, next, v, k, C
    <3>4. next[E] <= next[Swap(E, v, u)]
      BY <2>1, <3>1, <3>2, <3>3 DEF Sooner
    <3>5. QED
      BY <1>9, <3>1, <3>4 DEF E
  <2>5. QED
    BY <2>3, <2>4
<1>12. g[pos][C] \in Nat /\ next[Swap(C, v, k)] \in Nat
  <2>1. Full(Swap(C, v, k))
    BY <1>1, <1>2, <1>6, SwapFull
  <2>2. QED
    BY <1>1, <1>10, <2>1 DEF Scores
<1>13. next[Swap(C, v, k)] <= g[pos][C]
  BY <1>6, <1>8
<1> HIDE DEF C, v, k, next
<1>14. g[pos][C] = next[Swap(C, v, k)]
  BY <1>11, <1>12, <1>13
<1>15. QED
  BY <1>6, <1>14 DEF C, v, k, next

\* The eviction that a write causes loses nothing.
LEMMA WriteMissLosesNothing ==
  ASSUME PageMIN!TraceAssumption, PageMIN!PageMinAssumption, PageInv, PageMIN!Optimal,
         PageMIN!WriteMiss
  PROVE  PageMIN!Optimal'
<1> DEFINE C == key_to_value
           k == Front.fsblkno
<1>1. ~PageMIN!Finished /\ PageMIN!Served /\ k \notin C /\ hits' = hits
  BY DEF PageMIN!WriteMiss, PageMIN!Running, PageMIN!Front, Front
<1>2. key_to_value' = IF Cardinality(C) = Capacity THEN Swap(C, maxHeap[1].key, k)
                      ELSE C \cup {k}
  BY PageOperators DEF PageMIN!WriteMiss, PageMIN!Front, Front,
     PageMIN!AfterEvict, PageMIN!Victim, PageMIN!VictimAt, Swap
<1>3. trace' = trace /\ upperCapacity' = upperCapacity /\ pos' = pos + 1
  BY <1>1, PageAbove
<1>4. SUFFICES ASSUME upperCapacity = 0, SingleWrites, NEW CONSTANT g, Scores(g),
                      hits + g[pos][key_to_value] = g[1][{}]
               PROVE  hits' + g[pos'][key_to_value'] = g[1][{}]
  BY <1>3, LosesNothing
<1>5. hits + g[pos][C] = g[1][{}]
  BY <1>4
<1>6. /\ C \in Caches /\ Cardinality(C) \in Nat /\ Capacity \in Nat
      /\ pos \in 1..Len(trace)
  BY <1>1, <1>4, PageOnly
<1>7. g[pos][C] = g[pos + 1][key_to_value']
  <2>1. CASE Cardinality(C) = Capacity
    BY <1>1, <1>2, <1>4, <2>1, VictimCostsLeast
  <2>2. CASE Cardinality(C) # Capacity
    <3>1. Cardinality(C) < Capacity
      BY <1>6, <2>2 DEF Caches
    <3>2. ScoreRow(g[pos][C], g[pos + 1], C, k)
      BY <1>4, <1>6 DEF Scores, Front
    <3>3. QED
      BY <1>1, <1>2, <2>2, <3>1, <3>2 DEF ScoreRow
  <2>3. QED
    BY <2>1, <2>2
<1>8. QED
  BY <1>1, <1>3, <1>5, <1>7

\* A hit that could be had is had.
LEMMA HitLosesNothing ==
  ASSUME PageMIN!TraceAssumption, PageMIN!PageMinAssumption, PageInv, PageMIN!Optimal,
         PageMIN!Hit
  PROVE  PageMIN!Optimal'
<1> DEFINE C == key_to_value
           k == Front.fsblkno
<1>1. /\ ~PageMIN!Finished /\ PageMIN!Served /\ k \in C /\ hits' = hits + 1
      /\ key_to_value' = C
  BY DEF PageMIN!Hit, PageMIN!Running, PageMIN!Front, Front
<1>2. trace' = trace /\ upperCapacity' = upperCapacity /\ pos' = pos + 1
  BY <1>1, PageAbove
<1>3. SUFFICES ASSUME upperCapacity = 0, SingleWrites, NEW CONSTANT g, Scores(g),
                      hits + g[pos][key_to_value] = g[1][{}]
               PROVE  hits' + g[pos'][key_to_value'] = g[1][{}]
  BY <1>2, LosesNothing
<1>4. hits + g[pos][C] = g[1][{}]
  BY <1>3
<1>5. C \in Caches /\ pos \in 1..Len(trace) /\ pos + 1 \in 1..(Len(trace) + 1)
  BY <1>1, <1>3, PageOnly
<1>6. ScoreRow(g[pos][C], g[pos + 1], C, k)
  BY <1>3, <1>5 DEF Scores, Front
<1>7. g[pos][C] = 1 + g[pos + 1][C] /\ g[pos + 1][C] \in Nat
  BY <1>1, <1>3, <1>5, <1>6 DEF ScoreRow, Scores
<1>8. hits \in Nat
  <2>1. hits \in 0..(pos - 1) /\ pos \in Nat
    BY <1>5 DEF PageInv
  <2>2. QED
    BY <2>1
<1> HIDE DEF C
<1>9. hits + 1 + g[pos + 1][C] = g[1][{}]
  BY <1>4, <1>7, <1>8
<1>10. QED
  BY <1>1, <1>2, <1>9

\* Every step of PageMinCache loses nothing.
LEMMA PageKeepsHits ==
  ASSUME PageMIN!TraceAssumption, PageMIN!PageMinAssumption, PageInv, PageMIN!Optimal,
         PageMIN!Next
  PROVE  PageMIN!Optimal'
<1>1. CASE PageMIN!ReadMiss
  <2>1. /\ ~PageMIN!Finished /\ PageMIN!Served /\ Front.op = "READ"
    BY <1>1 DEF PageMIN!ReadMiss, PageMIN!Running, PageMIN!Front, Front
  <2>2. trace' = trace /\ upperCapacity' = upperCapacity
    BY <2>1, PageAbove
  <2>3. upperCapacity = 0 /\ SingleWrites => FALSE
    BY <2>1, PageOnly
  <2>4. QED
    BY <2>2, <2>3, LosesNothing
<1>2. CASE PageMIN!Abort
  <2>1. trace' = trace /\ upperCapacity' = upperCapacity /\ aborted' = TRUE
    BY <1>2 DEF PageMIN!Abort
  <2>2. PageInv'
    BY PageKeeps
  <2>3. upperCapacity = 0 => FALSE
    BY <2>1, <2>2 DEF PageInv
  <2>4. QED
    BY <2>1, <2>3, LosesNothing
<1>3. CASE PageMIN!SatisfiedAbove
  <2>1. ~PageMIN!Finished /\ PageMIN!Served /\ PageMIN!Above # {}
    BY <1>3 DEF PageMIN!SatisfiedAbove
  <2>2. trace' = trace /\ upperCapacity' = upperCapacity
    BY <2>1, PageAbove
  <2>3. upperCapacity = 0 /\ SingleWrites => FALSE
    BY <2>1, PageOnly
  <2>4. QED
    BY <2>2, <2>3, LosesNothing
<1>4. QED
  BY <1>1, <1>2, <1>3, WriteMissLosesNothing, HitLosesNothing
     DEF PageMIN!Next, PageMIN!access

\* Nothing is lost at the start.
LEMMA PageStartHits ==
  ASSUME PageMIN!TraceAssumption, PageMIN!PageMinAssumption, PageInv, PageMIN!Init
  PROVE  PageMIN!Optimal
<1>1. SUFFICES ASSUME PageMIN!SinglePageWrites
               PROVE  hits + PageMIN!BestHits(trace, pos, key_to_value)
                        = PageMIN!BestHits(trace, 1, {})
  BY DEF PageMIN!Optimal
<1>2. pos = 1 /\ hits = 0 /\ key_to_value = {}
  BY DEF PageMIN!Init, PageMIN!TraceInit
<1>3. SingleWrites /\ Proper(trace) /\ Capacity \in Nat
  BY <1>1, SingleWritesIs DEF PageInv, PageMIN!PageMinAssumption
<1>4. PICK g : /\ Scores(g)
               /\ \A i, C : PageMIN!BestHits(trace, i, C) = g[i][C]
  BY <1>3, Possible
<1>5. {} \in Caches
  <2>1. Cardinality({}) = 0
    BY FS_EmptySet
  <2>2. QED
    BY <1>3, <2>1 DEF Caches
<1>6. 1 \in 1..(Len(trace) + 1)
  BY <1>3 DEF Proper
<1>7. g[1][{}] \in Nat
  BY <1>4, <1>5, <1>6 DEF Scores
<1>8. QED
  BY <1>2, <1>4, <1>7
-----------------------------------------------------------------------------
(***************************************************************************)
(* The pages of blocks. B is the set of pages cached of each block.        *)
(***************************************************************************)
PagesOf(B) == {x \in BlockNumbers \X Page : x[2] \in B[x[1]]}
Nonempty(B) == {b \in BlockNumbers : B[b] # {}}

\* There are finitely many pages in the cache.
LEMMA PagesOfFinite ==
  ASSUME IsFiniteSet(Page), NEW B
  PROVE  IsFiniteSet(PagesOf(B)) /\ Cardinality(PagesOf(B)) \in Nat
<1> DEFINE f == [page \in Page |-> page \div ssd2fsblkRatio]
<1>1. f \in Surjection(Page, BlockNumbers)
  <2>1. /\ f \in [Page -> BlockNumbers]
        /\ \A b \in BlockNumbers : \E page \in Page : f[page] = b
    BY DEF BlockNumbers
  <2>2. QED
    BY <2>1, Fun_IsSurj
<1> HIDE DEF f
<1>2. IsFiniteSet(BlockNumbers)
  BY <1>1, FS_Surjection
<1>3. IsFiniteSet(BlockNumbers \X Page)
  BY <1>2, FS_Product
<1>4. PagesOf(B) \in SUBSET (BlockNumbers \X Page)
  BY DEF PagesOf
<1>5. IsFiniteSet(PagesOf(B))
  BY <1>3, <1>4, FS_Subset
<1>6. QED
  BY <1>5, FS_CardinalityType

\* A page that is new is one more.
LEMMA PageCounted ==
  ASSUME IsFiniteSet(Page), NEW B \in [BlockNumbers -> SUBSET Page],
         NEW b \in BlockNumbers, NEW k \in Page, k \notin B[b]
  PROVE  /\ Cardinality(PagesOf([B EXCEPT ![b] = @ \cup {k}]))
              = Cardinality(PagesOf(B)) + 1
         /\ Nonempty([B EXCEPT ![b] = @ \cup {k}]) = Nonempty(B) \cup {b}
         /\ [B EXCEPT ![b] = @ \cup {k}] \in [BlockNumbers -> SUBSET Page]
<1> DEFINE A == [B EXCEPT ![b] = @ \cup {k}]
<1>1. A \in [BlockNumbers -> SUBSET Page]
  OBVIOUS
<1>2. Nonempty(A) = Nonempty(B) \cup {b}
  BY DEF Nonempty
<1>3. PagesOf(A) = PagesOf(B) \cup {<<b, k>>} /\ <<b, k>> \notin PagesOf(B)
  BY DEF PagesOf
<1> HIDE DEF A
<1>4. IsFiniteSet(PagesOf(B)) /\ Cardinality(PagesOf(B)) \in Nat
  BY PagesOfFinite
<1>5. Cardinality(PagesOf(A)) = Cardinality(PagesOf(B)) + 1
  BY <1>3, <1>4, FS_AddElement
<1>6. QED
  BY <1>1, <1>2, <1>5 DEF A

\* A block that is evicted loses all its pages.
LEMMA BlockEmptied ==
  ASSUME IsFiniteSet(Page), NEW B \in [BlockNumbers -> SUBSET Page],
         NEW b \in BlockNumbers
  PROVE  /\ Cardinality(PagesOf([B EXCEPT ![b] = {}]))
              = Cardinality(PagesOf(B)) - Cardinality(B[b])
         /\ Cardinality(B[b]) \in Nat
         /\ B[b] # {} => Cardinality(B[b]) # 0
         /\ Nonempty([B EXCEPT ![b] = {}]) = Nonempty(B) \ {b}
         /\ [B EXCEPT ![b] = {}] \in [BlockNumbers -> SUBSET Page]
<1> DEFINE A == [B EXCEPT ![b] = {}]
           D == {<<b, k>> : k \in B[b]}
           f == [k \in B[b] |-> <<b, k>>]
<1>1. A \in [BlockNumbers -> SUBSET Page]
  OBVIOUS
<1>2. Nonempty(A) = Nonempty(B) \ {b}
  BY DEF Nonempty
<1>3. PagesOf(A) = PagesOf(B) \ D /\ PagesOf(B) \cap D = D
  <2>1. \A x \in PagesOf(B) : x = <<x[1], x[2]>>
    BY DEF PagesOf
  <2>2. \A x \in PagesOf(B) : x \in D <=> x[1] = b
    BY <2>1 DEF PagesOf
  <2>3. \A x \in PagesOf(B) : x \in PagesOf(A) <=> x[1] # b
    BY DEF PagesOf
  <2>4. \A x \in PagesOf(A) : x \in PagesOf(B)
    BY DEF PagesOf
  <2>5. \A x \in D : x \in PagesOf(B)
    BY DEF PagesOf
  <2>6. QED
    BY <2>2, <2>3, <2>4, <2>5
<1>4. B[b] \in SUBSET Page
  OBVIOUS
<1>5. IsFiniteSet(B[b]) /\ Cardinality(B[b]) \in Nat
  BY <1>4, FS_Subset, FS_CardinalityType
<1>6. f \in Surjection(B[b], D) /\ f \in Injection(B[b], D)
  <2>1. f \in [B[b] -> D] /\ \A d \in D : \E k \in B[b] : f[k] = d
    OBVIOUS
  <2>2. \A j, k \in B[b] : f[j] = f[k] => j = k
    OBVIOUS
  <2> HIDE DEF f, D
  <2>3. f \in Surjection(B[b], D)
    BY <2>1, Fun_IsSurj
  <2>4. f \in Injection(B[b], D)
    BY <2>1, <2>2, Fun_IsInj
  <2>5. QED
    BY <2>3, <2>4
<1> HIDE DEF f, D, A
<1>7. Cardinality(D) = Cardinality(B[b])
  BY <1>5, <1>6, FS_Surjection
<1>8. IsFiniteSet(PagesOf(B))
  BY PagesOfFinite
<1>9. Cardinality(PagesOf(A)) = Cardinality(PagesOf(B)) - Cardinality(B[b])
  BY <1>3, <1>7, <1>8, FS_Difference
<1>10. B[b] # {} => Cardinality(B[b]) # 0
  BY <1>5, FS_EmptySet
<1>11. QED
  BY <1>1, <1>2, <1>5, <1>9, <1>10 DEF A

\* A cache that is not empty has a block that is not.
LEMMA SomeBlock ==
  ASSUME IsFiniteSet(Page), NEW B, Cardinality(PagesOf(B)) # 0
  PROVE  Nonempty(B) # {}
<1>1. IsFiniteSet(PagesOf(B))
  BY PagesOfFinite
<1>2. PagesOf(B) # {}
  BY <1>1, FS_EmptySet
<1>3. PICK x \in BlockNumbers \X Page : x[2] \in B[x[1]]
  BY <1>2 DEF PagesOf
<1>4. x[1] \in BlockNumbers
  BY <1>3
<1>5. QED
  BY <1>3, <1>4 DEF Nonempty
-----------------------------------------------------------------------------
(***************************************************************************)
(* BlockMinCache.                                                          *)
(***************************************************************************)
Current == Front.ssdblkno
BlocksAt(b) == {i \in 1..Len(trace) : trace[i].ssdblkno = b}
BlockAt == [b \in BlockNumbers |-> BlocksAt(b)]

\* Entries that are true of the rest of the trace, while there is any.
BlockEntriesTrue(h, p) ==
  p <= Len(trace) => \A e \in ListSet(h) : e.lineNo = NextLine(BlocksAt(e.key), p)

\* The blocks B with their own pages only, num in all.
Counted(B, num) ==
  /\ B \in [BlockNumbers -> SUBSET Page]
  /\ \A b \in BlockNumbers : \A k \in B[b] : b = k \div ssd2fsblkRatio
  /\ num = Cardinality(PagesOf(B)) /\ num <= Capacity

BlockInv ==
  /\ Proper(trace) /\ pos \in 1..(Len(trace) + 1)
  /\ Table(hashTable, BlockAt, pos)
  /\ Heap(maxHeap, BlockNumbers, Nonempty(key_to_block))
  /\ BlockEntriesTrue(maxHeap, pos)
  /\ Counted(key_to_block, cacheNum)

\* The operators that BlockMIN has from other modules.
LEMMA BlockOperators ==
  /\ \A S : BlockMIN!Cardinality(S) = Cardinality(S)
  /\ \A h, i : BlockMIN!HeapErase(h, i) = Without(h, i)
  /\ \A h, line, k : BlockMIN!HeapInsert(h, line, k) = Filed(h, line, k)
  /\ \A T, k, line : BlockMIN!nextAccess(T, k, line) = NextInQueue(T[k], line)
  /\ \A T, k, line : BlockMIN!AfterNextAccess(T, k, line)
                       = IF Behind(T[k], line) = {} THEN [T EXCEPT ![k] = <<>>] ELSE T
  /\ \A I : BlockMIN!LinesOf(I) = Queue(I)
  /\ \A K : BlockMIN!Least(K) = Lowest(K)
  /\ BlockMIN!Block = BlockNumbers
  /\ BlockMIN!Current = Current
<1>1. \A S : BlockMIN!Cardinality(S) = Cardinality(S)
  BY DEF BlockMIN!Cardinality, Cardinality
<1>2. \A K, j : BlockMIN!Nth(K, j) = Nth(K, j)
  BY <1>1 DEF BlockMIN!Nth, Nth
<1>3. \A h, i : BlockMIN!HeapErase(h, i) = Without(h, i)
  BY DEF BlockMIN!HeapErase, Without
<1>4. \A h, line, k : BlockMIN!HeapInsert(h, line, k) = Filed(h, line, k)
  BY <1>1 DEF BlockMIN!HeapInsert, Filed, With, HeapPlace, HeapEntry
<1>5. \A K : BlockMIN!Least(K) = Lowest(K)
  BY DEF BlockMIN!Least, Lowest
<1>6. \A T, k, line : BlockMIN!nextAccess(T, k, line) = NextInQueue(T[k], line)
  BY <1>5 DEF BlockMIN!nextAccess, NextInQueue, BlockMIN!Ahead, Behind
<1>7. \A T, k, line : BlockMIN!AfterNextAccess(T, k, line)
                        = IF Behind(T[k], line) = {} THEN [T EXCEPT ![k] = <<>>] ELSE T
  BY DEF BlockMIN!AfterNextAccess, BlockMIN!Ahead, Behind
<1>8. \A I : BlockMIN!LinesOf(I) = Queue(I)
  BY <1>1, <1>2 DEF BlockMIN!LinesOf, Queue
<1>9. BlockMIN!Block = BlockNumbers
  BY DEF BlockMIN!Block, BlockMIN!BlockOf, BlockNumbers
<1>10. BlockMIN!Current = Current
  BY DEF BlockMIN!Current, BlockMIN!Front, Current, Front
<1>11. QED
  BY <1>1, <1>3, <1>4, <1>5, <1>6, <1>7, <1>8, <1>9, <1>10

\* The constants, for BlockMinCache and OwbpCache.
LEMMA BlockConstants ==
  ASSUME BlockMIN!TraceAssumption
  PROVE  /\ TraceConstants /\ BlockNumbers \in SUBSET Nat
         /\ \A rs \in BlockFile : Proper(BlockMIN!Expand(rs))
<1>1. \A S : BlockMIN!IsFiniteSet(S) <=> IsFiniteSet(S)
  BY DEF BlockMIN!IsFiniteSet, IsFiniteSet
<1>2. TraceConstants
  BY <1>1 DEF BlockMIN!TraceAssumption, TraceConstants
<1>3. BlockNumbers \in SUBSET Nat
  BY <1>2 DEF BlockNumbers, TraceConstants
<1>4. ASSUME NEW rs \in BlockFile
      PROVE  Proper(BlockMIN!Expand(rs))
  <2>1. BlockMIN!Request = PageMIN!Request
    BY DEF BlockMIN!Request, BlockMIN!Extent, BlockMIN!BlockOf,
           PageMIN!Request, PageMIN!Extent, PageMIN!BlockOf
  <2>2. rs \in Seq(PageMIN!Request) /\ Len(rs) < INF
    BY <2>1 DEF BlockMIN!TraceAssumption
  <2>3. \A r, line : BlockMIN!Atoms(r, line) = PageMIN!Atoms(r, line)
    BY DEF BlockMIN!Atoms, BlockMIN!BlockOf, PageMIN!Atoms, PageMIN!BlockOf
  <2>4. BlockMIN!Expand(rs) = PageMIN!Expand(rs)
    BY <2>3 DEF BlockMIN!Expand, PageMIN!Expand
  <2>5. QED
    BY <1>2, <2>2, <2>4, ExpandProper
<1>5. QED
  BY <1>2, <1>3, <1>4

\* What the invariant says of the request at the front.
LEMMA BlockFront ==
  ASSUME BlockMIN!TraceAssumption, Proper(trace), pos \in 1..(Len(trace) + 1),
         ~(pos > Len(trace))
  PROVE  /\ Len(trace) \in Nat /\ pos \in 1..Len(trace) /\ pos \in Nat
         /\ Current \in BlockNumbers /\ Front.fsblkno \in Page
         /\ Current = Front.fsblkno \div ssd2fsblkRatio
         /\ Front.lineNo \in 1..INF /\ Front.lineNo # INF
         /\ \A b \in BlockNumbers : BlocksAt(b) \in SUBSET (1..Len(trace))
         /\ pos \in BlocksAt(Current)
         /\ \A b \in BlockNumbers : b # Current => pos \notin BlocksAt(b)
<1>1. Len(trace) \in Nat /\ trace \in Seq(Access)
  BY DEF Proper
<1>2. pos \in 1..Len(trace) /\ pos \in Nat
  BY <1>1
<1>3. Front \in Access
  BY <1>1, <1>2 DEF Front
<1>4. INF \in Nat \ {0}
  BY BlockConstants DEF TraceConstants
<1>5. /\ Current \in BlockNumbers /\ Front.fsblkno \in Page
      /\ Front.lineNo \in 1..(INF - 1)
  BY <1>3 DEF Access, Current
<1>6. Front.lineNo \in 1..INF /\ Front.lineNo # INF
  <2> DEFINE line == Front.lineNo
  <2>1. line \in 1..(INF - 1)
    BY <1>5
  <2> HIDE DEF line
  <2>2. line \in 1..INF /\ line # INF
    BY <1>4, <2>1
  <2>3. QED
    BY <2>2 DEF line
<1>7. Current = Front.fsblkno \div ssd2fsblkRatio
  BY <1>2 DEF Current, Front, Proper
<1>8. /\ \A b \in BlockNumbers : BlocksAt(b) \in SUBSET (1..Len(trace))
      /\ pos \in BlocksAt(Current)
      /\ \A b \in BlockNumbers : b # Current => pos \notin BlocksAt(b)
  BY <1>2 DEF BlocksAt, Current, Front
<1>9. QED
  BY <1>1, <1>2, <1>5, <1>6, <1>7, <1>8

\* Whether the line goes on with the next request, or what is read behind the
\* last one.
LEMMA SameLine ==
  ASSUME BlockMIN!TraceAssumption, Proper(trace), pos \in 1..(Len(trace) + 1),
         ~(pos > Len(trace)), NEW same \in BlockMIN!NextIsSameLine
  PROVE  /\ ~same => EndsLine(BlocksAt(Current), pos)
         /\ same /\ pos + 1 <= Len(trace) =>
              NextLine(BlocksAt(Current), pos + 1) = Front.lineNo
<1>1. /\ Len(trace) \in Nat /\ pos \in 1..Len(trace) /\ pos \in Nat
      /\ pos \in BlocksAt(Current)
      /\ BlocksAt(Current) \in SUBSET (1..Len(trace))
  BY BlockFront
<1>2. \A j \in 1..Len(trace) : trace[j].lineNo \in Int
  <2>1. SUFFICES ASSUME NEW j \in 1..Len(trace) PROVE trace[j].lineNo \in Int
    OBVIOUS
  <2>2. trace[j] \in Access
    BY DEF Proper
  <2>3. QED
    BY <2>2 DEF Access
<1>3. pos + 1 <= Len(trace) => same = (trace[pos + 1].lineNo = Front.lineNo)
  BY <1>1 DEF BlockMIN!NextIsSameLine, BlockMIN!Front, Front
<1>4. \A x, y \in 1..Len(trace) : x < y => trace[x].lineNo <= trace[y].lineNo
  BY DEF Proper, Ordered
<1>5. ASSUME ~same, NEW j \in BlocksAt(Current), pos < j
      PROVE  trace[pos].lineNo # trace[j].lineNo
  <2>1. /\ j \in 1..Len(trace) /\ pos + 1 \in 1..Len(trace) /\ pos + 1 <= Len(trace)
        /\ pos < pos + 1 /\ (pos + 1 < j \/ pos + 1 = j)
    BY <1>1, <1>5
  <2>2. trace[pos + 1].lineNo # trace[pos].lineNo
    BY <1>3, <1>5, <2>1 DEF Front
  <2>3. /\ trace[pos].lineNo <= trace[pos + 1].lineNo
        /\ trace[pos + 1].lineNo <= trace[j].lineNo
    <3>1. trace[pos].lineNo <= trace[pos + 1].lineNo
      BY <1>1, <1>4, <2>1
    <3>2. CASE pos + 1 < j
      BY <1>4, <2>1, <3>1, <3>2
    <3>3. CASE pos + 1 = j
      BY <1>2, <2>1, <3>1, <3>3
    <3>4. QED
      BY <2>1, <3>2, <3>3
  <2>4. QED
    BY <1>1, <1>2, <2>1, <2>2, <2>3
<1>6. ASSUME same, pos + 1 <= Len(trace)
      PROVE  NextLine(BlocksAt(Current), pos + 1) = Front.lineNo
  <2>1. pos + 1 \in 1..Len(trace) /\ pos + 1 \in Nat
    BY <1>1, <1>6
  <2>2. trace[pos + 1].lineNo = trace[pos].lineNo
    BY <1>3, <1>6 DEF Front
  <2>3. trace[pos + 1].ssdblkno = trace[pos].ssdblkno
    BY <1>1, <2>1, <2>2 DEF Proper, Ordered
  <2>4. pos + 1 \in BlocksAt(Current)
    BY <2>1, <2>3 DEF BlocksAt, Current, Front
  <2>5. NextLine(BlocksAt(Current), pos + 1) = trace[pos + 1].lineNo
    BY <1>1, <2>1, <2>4, NextLineMoves
  <2>6. QED
    BY <2>2, <2>5 DEF Front
<1>7. QED
  BY <1>5, <1>6 DEF EndsLine

\* The invariant of the next state, in terms of this state's trace.
LEMMA BlockInvNext ==
  ASSUME trace' = trace, Proper(trace), pos' \in 1..(Len(trace) + 1),
         Table(hashTable', BlockAt, pos'),
         Heap(maxHeap', BlockNumbers, Nonempty(key_to_block')),
         BlockEntriesTrue(maxHeap', pos'),
         Counted(key_to_block', cacheNum')
  PROVE  BlockInv'
<1>1. Proper(trace)'
  BY DEF Proper, Ordered
<1>2. \A b : BlocksAt(b)' = BlocksAt(b)
  BY DEF BlocksAt
<1>3. Table(hashTable, BlockAt, pos)'
  <2>1. BlockAt' = BlockAt
    BY <1>2 DEF BlockAt
  <2>2. \A I : Queue(I)' = Queue(I)
    BY DEF Queue
  <2>3. QED
    BY <2>1, <2>2 DEF Table, From
<1>4. Heap(maxHeap, BlockNumbers, Nonempty(key_to_block))'
  BY DEF Heap, LaterFirst, OneFor, HeapElement, HeapKey, Nonempty
<1>5. BlockEntriesTrue(maxHeap, pos)'
  BY <1>2 DEF BlockEntriesTrue, ListSet, NextLine, From
<1>6. Counted(key_to_block, cacheNum)'
  BY DEF Counted, PagesOf
<1>7. QED
  BY <1>1, <1>3, <1>4, <1>5, <1>6 DEF BlockInv

\* Entries of other blocks stay true; the current one's is to be looked after.
LEMMA BlockEntriesMove ==
  ASSUME BlockMIN!TraceAssumption, Proper(trace), pos \in 1..(Len(trace) + 1),
         ~(pos > Len(trace)), NEW h, NEW C, Heap(h, BlockNumbers, C),
         BlockEntriesTrue(h, pos), NEW e \in ListSet(h), e.key # Current
  PROVE  e.lineNo = NextLine(BlocksAt(e.key), pos + 1)
<1>1. /\ Len(trace) \in Nat /\ pos \in 1..Len(trace) /\ pos \in Nat
      /\ BlockNumbers \in SUBSET Nat
  BY BlockFront, BlockConstants
<1>2. e.key \in BlockNumbers \cap C
  BY <1>1, HeapFacts
<1>3. e.lineNo = NextLine(BlocksAt(e.key), pos)
  BY <1>1 DEF BlockEntriesTrue
<1>4. pos \notin BlocksAt(e.key) /\ BlocksAt(e.key) \in SUBSET (1..Len(trace))
  BY <1>2, BlockFront
<1>5. QED
  BY <1>1, <1>3, <1>4, NextLineMoves

\* A cache s with room for a page, in which the current block may have been
\* emptied.
Roomy(s) ==
  /\ s = [heap |-> s.heap, blocks |-> s.blocks, num |-> s.num]
  /\ Heap(s.heap, BlockNumbers,
          Nonempty(s.blocks) \cup (Nonempty(key_to_block) \cap {Current}))
  /\ BlockEntriesTrue(s.heap, pos)
  /\ Counted(s.blocks, s.num) /\ s.num + 1 <= Capacity
  /\ s.blocks[Current] \subseteq key_to_block[Current]

\* An eviction, if the cache is full, makes room.
LEMMA BlockRoom ==
  ASSUME BlockMIN!TraceAssumption, BlockMIN!BlockMinAssumption, BlockInv,
         ~(pos > Len(trace))
  PROVE  Roomy(BlockMIN!MadeRoom)
<1> DEFINE s == BlockMIN!MadeRoom
           b == maxHeap[1].key
           h == IF b = Current THEN maxHeap ELSE Without(maxHeap, 1)
           B == [key_to_block EXCEPT ![b] = {}]
           n == cacheNum - Cardinality(key_to_block[b])
           N == Nonempty(key_to_block)
<1>1. /\ Capacity \in Nat \ {0} /\ IsFiniteSet(Page) /\ BlockNumbers \in SUBSET Nat
      /\ Current \in BlockNumbers
  BY BlockFront, BlockConstants
    DEF BlockInv, BlockMIN!BlockMinAssumption, TraceConstants
<1>2. /\ Heap(maxHeap, BlockNumbers, N) /\ BlockEntriesTrue(maxHeap, pos)
      /\ Counted(key_to_block, cacheNum) /\ cacheNum \in Nat
      /\ key_to_block \in [BlockNumbers -> SUBSET Page]
  BY <1>1, PagesOfFinite DEF BlockInv, Counted
<1>3. CASE cacheNum # Capacity
  <2>1. s = [heap |-> maxHeap, blocks |-> key_to_block, num |-> cacheNum]
    BY <1>3 DEF BlockMIN!MadeRoom, BlockMIN!cache
  <2> HIDE DEF s
  <2>2. /\ s.heap = maxHeap /\ s.blocks = key_to_block /\ s.num = cacheNum
        /\ s = [heap |-> s.heap, blocks |-> s.blocks, num |-> s.num]
    BY <2>1
  <2>3. cacheNum + 1 <= Capacity
    BY <1>1, <1>2, <1>3 DEF Counted
  <2>4. N \cup (N \cap {Current}) = N
    OBVIOUS
  <2>5. Roomy(s)
    BY <1>2, <2>2, <2>3, <2>4 DEF Roomy
  <2>6. QED
    BY <2>5 DEF s
<1>4. CASE cacheNum = Capacity
  <2>1. s = [heap |-> h, blocks |-> B, num |-> n]
    BY <1>4, BlockOperators DEF BlockMIN!MadeRoom, BlockMIN!cache, BlockMIN!Evicted,
       BlockMIN!VictimAt
  <2>2. N # {} /\ Covers(maxHeap, N) /\ Len(maxHeap) \in Nat
    <3>1. Cardinality(PagesOf(key_to_block)) # 0
      BY <1>1, <1>2, <1>4 DEF Counted
    <3>2. /\ Heap(maxHeap, BlockNumbers, N) /\ BlockNumbers \in SUBSET Nat
          /\ IsFiniteSet(Page)
      BY <1>1, <1>2
    <3> HIDE DEF N
    <3>3. Covers(maxHeap, N) /\ Len(maxHeap) \in Nat
      BY <3>2, HeapFacts
    <3>4. QED
      BY <3>1, <3>2, <3>3, SomeBlock DEF N
  <2>3. 1 \in 1..Len(maxHeap)
    BY <2>2 DEF Covers
  <2>4. b \in N /\ b \in BlockNumbers
    BY <2>2, <2>3 DEF Covers, Nonempty
  <2>5. /\ Heap(Without(maxHeap, 1), BlockNumbers, N \ {b})
        /\ Loses(Without(maxHeap, 1), maxHeap, maxHeap[1])
    BY <1>1, <1>2, <2>3, HeapErased
  <2>6. /\ Cardinality(PagesOf(B)) =
             Cardinality(PagesOf(key_to_block)) - Cardinality(key_to_block[b])
        /\ Cardinality(key_to_block[b]) \in Nat /\ Cardinality(key_to_block[b]) # 0
        /\ Nonempty(B) = N \ {b} /\ B \in [BlockNumbers -> SUBSET Page]
    <3>1. key_to_block[b] # {}
      BY <2>4 DEF Nonempty
    <3>2. b \in BlockNumbers
      BY <2>4
    <3> HIDE DEF b
    <3>3. QED
      BY <1>1, <1>2, <3>1, <3>2, BlockEmptied
  <2>7. Counted(B, n) /\ n + 1 <= Capacity
    <3>1. n = Cardinality(PagesOf(B)) /\ n + 1 <= Capacity /\ n <= Capacity
      BY <1>1, <1>2, <2>6 DEF Counted
    <3>2. \A c \in BlockNumbers : \A k \in B[c] : c = k \div ssd2fsblkRatio
      <4>1. \A c \in BlockNumbers : B[c] \subseteq key_to_block[c]
        BY <1>2
      <4> HIDE DEF B
      <4>2. QED
        BY <1>2, <4>1 DEF Counted
    <3>3. QED
      BY <2>6, <3>1, <3>2 DEF Counted
  <2>8. B[Current] \subseteq key_to_block[Current]
    BY <1>1, <1>2
  <2>9. /\ Heap(h, BlockNumbers, Nonempty(B) \cup (N \cap {Current}))
        /\ BlockEntriesTrue(h, pos)
    <3>1. CASE b = Current
      <4>1. Nonempty(B) \cup (N \cap {Current}) = N
        BY <2>4, <2>6, <3>1
      <4>2. QED
        BY <1>2, <3>1, <4>1
    <3>2. CASE b # Current
      <4>1. Nonempty(B) \cup (N \cap {Current}) = N \ {b}
        BY <2>6, <3>2
      <4>2. BlockEntriesTrue(Without(maxHeap, 1), pos)
        BY <1>2, <2>5 DEF BlockEntriesTrue, Loses
      <4>3. QED
        BY <2>5, <3>2, <4>1, <4>2
    <3>3. QED
      BY <3>1, <3>2
  <2> HIDE DEF s, h, B, n, N, b
  <2>10. /\ s.heap = h /\ s.blocks = B /\ s.num = n
         /\ s = [heap |-> s.heap, blocks |-> s.blocks, num |-> s.num]
    BY <2>1
  <2>11. Roomy(s)
    BY <2>7, <2>8, <2>9, <2>10 DEF Roomy, N
  <2>12. QED
    BY <2>11 DEF s
<1>5. QED
  BY <1>3, <1>4

\* The page goes into the current block.
LEMMA BlockPaged ==
  ASSUME BlockMIN!TraceAssumption, BlockMIN!BlockMinAssumption, BlockInv,
         ~(pos > Len(trace)), NEW s, Roomy(s), Front.fsblkno \notin s.blocks[Current],
         NEW r, r = BlockMIN!WithPage(s, Front.fsblkno)
  PROVE  /\ r = [heap |-> s.heap, blocks |-> r.blocks, num |-> r.num]
         /\ Counted(r.blocks, r.num)
         /\ Nonempty(r.blocks) = Nonempty(s.blocks) \cup {Current}
<1> DEFINE k == Front.fsblkno
           B == [s.blocks EXCEPT ![Current] = @ \cup {k}]
<1>1. /\ IsFiniteSet(Page) /\ Current \in BlockNumbers /\ k \in Page
      /\ Current = k \div ssd2fsblkRatio
  BY BlockFront, BlockConstants DEF BlockInv, TraceConstants
<1>2. /\ s = [heap |-> s.heap, blocks |-> s.blocks, num |-> s.num]
      /\ Counted(s.blocks, s.num) /\ s.num + 1 <= Capacity
      /\ s.blocks \in [BlockNumbers -> SUBSET Page]
  BY DEF Roomy, Counted
<1>3. r = [heap |-> s.heap, blocks |-> B, num |-> s.num + 1]
  <2>1. r = [s EXCEPT !.blocks[Current] = @ \cup {k}, !.num = @ + 1]
    BY BlockOperators DEF BlockMIN!WithPage
  <2>2. QED
    BY <1>2, <2>1
<1>4. /\ Cardinality(PagesOf(B)) = Cardinality(PagesOf(s.blocks)) + 1
      /\ Nonempty(B) = Nonempty(s.blocks) \cup {Current}
      /\ B \in [BlockNumbers -> SUBSET Page]
  <2> DEFINE A == s.blocks
  <2>1. A \in [BlockNumbers -> SUBSET Page] /\ k \notin A[Current]
    BY <1>2
  <2> HIDE DEF A, k
  <2>2. /\ Cardinality(PagesOf([A EXCEPT ![Current] = @ \cup {k}])) =
             Cardinality(PagesOf(A)) + 1
        /\ Nonempty([A EXCEPT ![Current] = @ \cup {k}]) = Nonempty(A) \cup {Current}
        /\ [A EXCEPT ![Current] = @ \cup {k}] \in [BlockNumbers -> SUBSET Page]
    BY <1>1, <2>1, PageCounted
  <2>3. QED
    BY <2>2 DEF A
<1>5. \A c \in BlockNumbers : \A x \in B[c] : c = x \div ssd2fsblkRatio
  BY <1>1, <1>2 DEF Counted
<1> HIDE DEF B
<1>6. Counted(B, s.num + 1)
  BY <1>2, <1>4, <1>5 DEF Counted
<1>7. r.blocks = B /\ r.num = s.num + 1
  BY <1>3
<1>8. QED
  BY <1>3, <1>4, <1>6, <1>7

\* The line under which the current block is filed, and the table after that.
BlockLine(same) ==
  IF same THEN Front.lineNo ELSE NextInQueue(hashTable[Current], Front.lineNo)
BlockTable(same) ==
  IF same \/ Behind(hashTable[Current], Front.lineNo) # {} THEN hashTable
  ELSE [hashTable EXCEPT ![Current] = <<>>]

\* The table and the line are right.
LEMMA BlockLooksUp ==
  ASSUME BlockMIN!TraceAssumption, BlockInv, ~(pos > Len(trace)),
         NEW same \in BlockMIN!NextIsSameLine
  PROVE  /\ BlockLine(same) \in 1..INF
         /\ pos + 1 <= Len(trace) =>
              BlockLine(same) = NextLine(BlocksAt(Current), pos + 1)
         /\ Table(BlockTable(same), BlockAt, pos + 1)
         /\ hashTable[Current] # <<>>
<1>1. /\ INF \in Nat \ {0} /\ pos \in 1..Len(trace) /\ pos \in Nat /\ pos + 1 \in Nat
      /\ Current \in BlockNumbers /\ Front.lineNo \in 1..INF
      /\ BlocksAt(Current) \in SUBSET (1..Len(trace))
  BY BlockFront, BlockConstants DEF BlockInv, TraceConstants
<1>2. Proper(trace) /\ Table(hashTable, BlockAt, pos)
  BY DEF BlockInv
<1>3. /\ same /\ pos + 1 <= Len(trace) =>
           NextLine(BlocksAt(Current), pos + 1) = Front.lineNo
      /\ ~same => EndsLine(BlocksAt(Current), pos)
  BY SameLine DEF BlockInv
<1>4. /\ Current \in DOMAIN BlockAt /\ pos \in BlockAt[Current]
      /\ \A j \in DOMAIN BlockAt : BlockAt[j] \in SUBSET (1..Len(trace))
      /\ BlockAt[Current] = BlocksAt(Current)
  <2>1. /\ Current \in BlockNumbers /\ pos \in BlocksAt(Current)
        /\ \A b \in BlockNumbers : BlocksAt(b) \in SUBSET (1..Len(trace))
    BY BlockFront DEF BlockInv
  <2>2. QED
    BY <2>1 DEF BlockAt
<1>5. hashTable[Current] # <<>>
  BY <1>1, <1>2, <1>4, LookedUp
<1>6. CASE same
  <2>1. BlockLine(same) = Front.lineNo /\ BlockTable(same) = hashTable
    BY <1>6 DEF BlockLine, BlockTable
  <2>2. Table(hashTable, BlockAt, pos + 1)
    BY <1>1, <1>2, <1>4, TableStays
  <2>3. QED
    BY <1>1, <1>3, <1>5, <1>6, <2>1, <2>2
<1>7. CASE ~same
  <2>1. /\ NextInQueue(hashTable[Current], trace[pos].lineNo)
             = NextLine(BlockAt[Current], pos + 1)
        /\ Table(IF Behind(hashTable[Current], trace[pos].lineNo) = {}
                 THEN [hashTable EXCEPT ![Current] = <<>>] ELSE hashTable,
                 BlockAt, pos + 1)
    <3>1. EndsLine(BlockAt[Current], pos)
      BY <1>3, <1>4, <1>7
    <3> DEFINE b == Current
    <3>2. b \in DOMAIN BlockAt /\ pos \in BlockAt[b] /\ EndsLine(BlockAt[b], pos)
      BY <1>4, <3>1
    <3> HIDE DEF b
    <3>3. /\ NextInQueue(hashTable[b], trace[pos].lineNo) =
               NextLine(BlockAt[b], pos + 1)
          /\ Table(IF Behind(hashTable[b], trace[pos].lineNo) = {}
                   THEN [hashTable EXCEPT ![b] = <<>>] ELSE hashTable, BlockAt, pos + 1)
      BY <1>1, <1>2, <1>4, <3>2, LookedUp
    <3>4. QED
      BY <3>3 DEF b
  <2>2. NextLine(BlocksAt(Current), pos + 1) \in 1..INF
    BY <1>1, <1>2, NextLineIs
  <2>3. BlockLine(same) = NextLine(BlocksAt(Current), pos + 1)
    BY <1>4, <1>7, <2>1 DEF BlockLine, Front
  <2>4. BlockTable(same) = IF Behind(hashTable[Current], trace[pos].lineNo) = {}
                           THEN [hashTable EXCEPT ![Current] = <<>>] ELSE hashTable
    BY <1>7 DEF BlockTable, Front
  <2>5. QED
    BY <1>5, <2>1, <2>2, <2>3, <2>4
<1>8. QED
  BY <1>6, <1>7

\* The current block is filed in a heap in which it has no entry.
LEMMA BlockRefile ==
  ASSUME BlockMIN!TraceAssumption, BlockInv, ~(pos > Len(trace)),
         NEW same \in BlockMIN!NextIsSameLine,
         NEW h, NEW C, Heap(h, BlockNumbers, C), Current \notin C,
         BlockEntriesTrue(h, pos)
  PROVE  /\ Heap(Filed(h, BlockLine(same), Current), BlockNumbers, C \cup {Current})
         /\ BlockEntriesTrue(Filed(h, BlockLine(same), Current), pos + 1)
<1> DEFINE line == BlockLine(same)
           b == Current
           g == Filed(h, line, b)
<1>1. /\ INF \in Nat /\ BlockNumbers \in SUBSET Nat /\ b \in BlockNumbers
      /\ line \in 1..INF
      /\ Proper(trace) /\ pos \in 1..(Len(trace) + 1)
  BY BlockFront, BlockConstants, BlockLooksUp DEF BlockInv, TraceConstants
<1>2. pos + 1 <= Len(trace) => line = NextLine(BlocksAt(b), pos + 1)
  BY BlockLooksUp
<1>3. b \notin C
  OBVIOUS
<1> HIDE DEF line, b
<1>4. Heap(g, BlockNumbers, C \cup {b}) /\ Gains(g, h, HeapEntry(line, b))
  BY <1>1, <1>3, HeapInserted
<1>5. ASSUME pos + 1 <= Len(trace), NEW e \in ListSet(h)
      PROVE  e.lineNo = NextLine(BlocksAt(e.key), pos + 1)
  <2>1. e.key \in BlockNumbers \cap C
    BY <1>1, HeapFacts
  <2>2. e.key # Current
    BY <1>3, <2>1 DEF b
  <2>3. QED
    BY <1>1, <2>2, BlockEntriesMove
<1>6. HeapEntry(line, b).lineNo = line /\ HeapEntry(line, b).key = b
  BY DEF HeapEntry
<1>7. BlockEntriesTrue(g, pos + 1)
  BY <1>2, <1>4, <1>5, <1>6 DEF BlockEntriesTrue, Gains
<1>8. QED
  BY <1>4, <1>7 DEF line, b

\* A read of a block that is not cached.
LEMMA BlockReadMiss ==
  ASSUME BlockMIN!TraceAssumption, BlockMIN!BlockMinAssumption, BlockInv,
         BlockMIN!ReadMiss
  PROVE  BlockInv'
<1>1. /\ ~(pos > Len(trace)) /\ key_to_block[Current] = {}
      /\ trace' = trace /\ pos' = pos + 1
      /\ hashTable' = hashTable /\ maxHeap' = maxHeap
      /\ key_to_block' = key_to_block /\ cacheNum' = cacheNum
  BY BlockOperators DEF BlockMIN!ReadMiss, BlockMIN!Finished, BlockMIN!PopFront
<1>2. /\ Proper(trace) /\ pos \in 1..(Len(trace) + 1) /\ pos \in Nat
      /\ BlockNumbers \in SUBSET Nat
      /\ pos + 1 \in 1..(Len(trace) + 1)
      /\ \A b \in BlockNumbers : BlocksAt(b) \in SUBSET (1..Len(trace))
  BY <1>1, BlockFront, BlockConstants DEF BlockInv
<1>3. Table(hashTable', BlockAt, pos')
  <2>1. \A b \in DOMAIN BlockAt : BlockAt[b] \in SUBSET (1..Len(trace))
    BY <1>2 DEF BlockAt
  <2>2. Table(hashTable, BlockAt, pos)
    BY DEF BlockInv
  <2>3. QED
    BY <1>1, <1>2, <2>1, <2>2, TableStays
<1>4. BlockEntriesTrue(maxHeap', pos')
  <2>1. /\ Heap(maxHeap, BlockNumbers, Nonempty(key_to_block))
        /\ BlockEntriesTrue(maxHeap, pos)
    BY DEF BlockInv
  <2>2. ASSUME NEW e \in ListSet(maxHeap)
        PROVE  e.lineNo = NextLine(BlocksAt(e.key), pos + 1)
    <3>1. e.key \in BlockNumbers \cap Nonempty(key_to_block)
      BY <1>2, <2>1, HeapFacts
    <3>2. e.key # Current
      BY <1>1, <3>1 DEF Nonempty
    <3>3. QED
      BY <1>1, <1>2, <2>1, <3>2, BlockEntriesMove
  <2>3. QED
    BY <1>1, <2>2 DEF BlockEntriesTrue
<1>5. QED
  BY <1>1, <1>2, <1>3, <1>4, BlockInvNext DEF BlockInv

\* A block that enters.
LEMMA BlockWriteMiss ==
  ASSUME BlockMIN!TraceAssumption, BlockMIN!BlockMinAssumption, BlockInv,
         BlockMIN!WriteMiss
  PROVE  BlockInv'
<1> DEFINE m == BlockMIN!MadeRoom
           s == BlockMIN!WithPage(m, Front.fsblkno)
<1>1. ~(pos > Len(trace)) /\ key_to_block[Current] = {}
  BY BlockOperators DEF BlockMIN!WriteMiss, BlockMIN!Finished
<1>2. PICK same \in BlockMIN!NextIsSameLine :
        /\ BlockMIN!Become([s EXCEPT !.heap = Filed(@, BlockLine(same), Current)])
        /\ hashTable' = BlockTable(same)
  <2>1. PICK same \in BlockMIN!NextIsSameLine :
          /\ BlockMIN!Become([s EXCEPT !.heap =
               BlockMIN!HeapInsert(@, IF same THEN Front.lineNo
                 ELSE BlockMIN!nextAccess(hashTable, Current, Front.lineNo), Current)])
          /\ hashTable' =
               IF same THEN hashTable
               ELSE BlockMIN!AfterNextAccess(hashTable, Current, Front.lineNo)
    BY BlockOperators DEF BlockMIN!WriteMiss, BlockMIN!Front, Front
  <2>2. QED
    BY <2>1, BlockOperators DEF BlockLine, BlockTable
<1>3. trace' = trace /\ pos' = pos + 1
  BY DEF BlockMIN!WriteMiss, BlockMIN!PopFront
<1>4. /\ Current \in BlockNumbers /\ Proper(trace) /\ pos + 1 \in 1..(Len(trace) + 1)
  BY <1>1, BlockFront DEF BlockInv
<1>5. Roomy(m)
  BY <1>1, BlockRoom
<1> HIDE DEF m
<1>6. m.blocks[Current] = {} /\ Current \notin Nonempty(m.blocks)
      /\ Nonempty(key_to_block) \cap {Current} = {}
  BY <1>1, <1>5 DEF Roomy, Nonempty
<1>7. /\ s = [heap |-> m.heap, blocks |-> s.blocks, num |-> s.num]
      /\ Counted(s.blocks, s.num)
      /\ Nonempty(s.blocks) = Nonempty(m.blocks) \cup {Current}
  BY <1>1, <1>5, <1>6, BlockPaged
<1> HIDE DEF s
<1>8. /\ maxHeap' = Filed(m.heap, BlockLine(same), Current)
      /\ key_to_block' = s.blocks /\ cacheNum' = s.num
  <2> DEFINE g == Filed(m.heap, BlockLine(same), Current)
  <2>1. [s EXCEPT !.heap = Filed(@, BlockLine(same), Current)]
          = [heap |-> g, blocks |-> s.blocks, num |-> s.num]
    BY <1>7
  <2> HIDE DEF g
  <2>2. maxHeap' = g /\ key_to_block' = s.blocks /\ cacheNum' = s.num
    BY <1>2, <2>1 DEF BlockMIN!Become
  <2>3. QED
    BY <2>2 DEF g
<1>9. Heap(m.heap, BlockNumbers, Nonempty(m.blocks)) /\ BlockEntriesTrue(m.heap, pos)
  <2>1. Nonempty(m.blocks) \cup (Nonempty(key_to_block) \cap {Current}) =
          Nonempty(m.blocks)
    BY <1>6
  <2>2. QED
    BY <1>5, <2>1 DEF Roomy
<1>10. /\ Heap(maxHeap', BlockNumbers, Nonempty(m.blocks) \cup {Current})
       /\ BlockEntriesTrue(maxHeap', pos + 1)
  BY <1>1, <1>6, <1>8, <1>9, BlockRefile
<1>11. Table(hashTable', BlockAt, pos + 1)
  BY <1>1, <1>2, BlockLooksUp
<1>12. Heap(maxHeap', BlockNumbers, Nonempty(key_to_block'))
  BY <1>7, <1>8, <1>10
<1>13. Counted(key_to_block', cacheNum')
  BY <1>7, <1>8
<1>14. QED
  BY <1>3, <1>4, <1>10, <1>11, <1>12, <1>13, BlockInvNext

\* An entry that is true of the trace and has the current line is the current
\* block's.
LEMMA CurrentLine ==
  ASSUME BlockMIN!TraceAssumption, Proper(trace), pos \in 1..(Len(trace) + 1),
         ~(pos > Len(trace)), NEW b \in BlockNumbers
  PROVE  /\ NextLine(BlocksAt(b), pos) >= Front.lineNo
         /\ NextLine(BlocksAt(b), pos) = Front.lineNo <=> b = Current
<1>1. /\ Len(trace) \in Nat /\ pos \in 1..Len(trace) /\ pos \in Nat
      /\ INF \in Nat \ {0} /\ Front.lineNo \in 1..INF /\ Front.lineNo # INF
      /\ BlocksAt(b) \in SUBSET (1..Len(trace))
  BY BlockFront, BlockConstants DEF TraceConstants
<1>2. CASE b = Current
  <2>1. pos \in BlocksAt(b)
    BY <1>2, BlockFront
  <2>2. NextLine(BlocksAt(b), pos) = trace[pos].lineNo
    BY <1>1, <2>1, NextLineMoves
  <2>3. QED
    BY <1>1, <1>2, <2>2 DEF Front
<1>3. CASE b # Current /\ From(BlocksAt(b), pos) = {}
  <2>1. NextLine(BlocksAt(b), pos) = INF
    BY <1>3 DEF NextLine
  <2>2. QED
    BY <1>1, <1>3, <2>1
<1>4. CASE b # Current /\ From(BlocksAt(b), pos) # {}
  <2> DEFINE i == Lowest(From(BlocksAt(b), pos))
  <2>1. i \in From(BlocksAt(b), pos)
    <3>1. From(BlocksAt(b), pos) \in SUBSET Nat
      BY <1>1, FromIs
    <3>2. QED
      BY <1>4, <3>1, LowestIs
  <2>2. NextLine(BlocksAt(b), pos) = trace[i].lineNo
    BY <1>4 DEF NextLine
  <2>3. i \in 1..Len(trace) /\ pos <= i /\ trace[i].ssdblkno = b
    BY <2>1 DEF From, BlocksAt
  <2> HIDE DEF i
  <2>4. trace[i].lineNo # trace[pos].lineNo
    BY <1>1, <1>4, <2>3 DEF Proper, Ordered, Current, Front
  <2>5. i # pos
    BY <2>4
  <2>6. trace[pos].lineNo <= trace[i].lineNo
    BY <1>1, <2>3, <2>5 DEF Proper, Ordered
  <2>7. trace[i] \in Access
    BY <2>3 DEF Proper
  <2>8. trace[i].lineNo \in Int
    BY <2>7 DEF Access
  <2>9. QED
    BY <1>1, <1>4, <2>2, <2>4, <2>6, <2>8 DEF Front
<1>5. QED
  BY <1>2, <1>3, <1>4

\* After the page part of a hit the current block is in the cache.
LEMMA BlockAfterPage ==
  ASSUME BlockMIN!TraceAssumption, BlockMIN!BlockMinAssumption, BlockInv,
         ~(pos > Len(trace)), key_to_block[Current] # {},
         NEW s, s = BlockMIN!AfterPage
  PROVE  /\ s = [heap |-> s.heap, blocks |-> s.blocks, num |-> s.num]
         /\ Heap(s.heap, BlockNumbers, Nonempty(s.blocks))
         /\ BlockEntriesTrue(s.heap, pos)
         /\ Counted(s.blocks, s.num)
         /\ Current \in Nonempty(s.blocks)
<1> DEFINE k == Front.fsblkno
           m == BlockMIN!MadeRoom
<1>1. Current \in BlockNumbers /\ Current \in Nonempty(key_to_block)
  BY BlockFront DEF BlockInv, Nonempty
<1>2. CASE k \in key_to_block[Current]
  <2>1. s = [heap |-> maxHeap, blocks |-> key_to_block, num |-> cacheNum]
    BY <1>2, BlockOperators
      DEF BlockMIN!AfterPage, BlockMIN!cache, BlockMIN!Front, Front
  <2>2. /\ s.heap = maxHeap /\ s.blocks = key_to_block /\ s.num = cacheNum
        /\ s = [heap |-> s.heap, blocks |-> s.blocks, num |-> s.num]
    BY <2>1
  <2>3. QED
    BY <1>1, <2>2 DEF BlockInv
<1>3. CASE k \notin key_to_block[Current]
  <2>1. s = BlockMIN!WithPage(m, k)
    BY <1>3, BlockOperators DEF BlockMIN!AfterPage, BlockMIN!Front, Front
  <2>2. Roomy(m)
    BY BlockRoom
  <2> HIDE DEF m
  <2>3. k \notin m.blocks[Current]
    BY <1>3, <2>2 DEF Roomy
  <2>4. /\ s = [heap |-> m.heap, blocks |-> s.blocks, num |-> s.num]
        /\ Counted(s.blocks, s.num)
        /\ Nonempty(s.blocks) = Nonempty(m.blocks) \cup {Current}
    BY <2>1, <2>2, <2>3, BlockPaged
  <2>5. s.heap = m.heap
    BY <2>4
  <2>6. Nonempty(m.blocks) \cup (Nonempty(key_to_block) \cap {Current}) =
          Nonempty(s.blocks)
    BY <1>1, <2>4
  <2>7. Heap(s.heap, BlockNumbers, Nonempty(s.blocks)) /\ BlockEntriesTrue(s.heap, pos)
    BY <2>2, <2>5, <2>6 DEF Roomy
  <2>8. QED
    BY <2>4, <2>5, <2>7
<1>4. QED
  BY <1>2, <1>3

\* The entry that a hit finds is the current block's.
LEMMA BlockEntryFound ==
  ASSUME BlockMIN!TraceAssumption, BlockInv, ~(pos > Len(trace)),
         NEW h, NEW C, Heap(h, BlockNumbers, C), BlockEntriesTrue(h, pos),
         Current \in C,
         NEW E, E = {i \in 1..Len(h) : h[i].lineNo = Front.lineNo}
  PROVE  E # {} /\ Lowest(E) \in 1..Len(h) /\ h[Lowest(E)].key = Current
<1>1. /\ Proper(trace) /\ pos \in 1..(Len(trace) + 1) /\ pos <= Len(trace)
      /\ BlockNumbers \in SUBSET Nat
  BY BlockFront, BlockConstants DEF BlockInv
<1>2. Covers(h, C) /\ Len(h) \in Nat
  BY <1>1, HeapFacts
<1>3. ASSUME NEW i \in 1..Len(h)
      PROVE  h[i].lineNo = Front.lineNo <=> h[i].key = Current
  <2>1. h[i] \in ListSet(h)
    BY DEF ListSet
  <2>2. h[i].lineNo = NextLine(BlocksAt(h[i].key), pos)
    BY <1>1, <2>1 DEF BlockEntriesTrue
  <2>3. h[i].key \in BlockNumbers \cap C
    BY <1>1, HeapFacts
  <2>4. NextLine(BlocksAt(h[i].key), pos) = Front.lineNo <=> h[i].key = Current
    <3> DEFINE b == h[i].key
    <3>1. b \in BlockNumbers
      BY <2>3
    <3> HIDE DEF b
    <3>2. NextLine(BlocksAt(b), pos) = Front.lineNo <=> b = Current
      BY <1>1, <3>1, CurrentLine
    <3>3. QED
      BY <3>2 DEF b
  <2>5. QED
    BY <2>2, <2>4
<1>4. PICK i \in 1..Len(h) : h[i].key = Current
  BY <1>2 DEF Covers
<1>5. i \in E
  BY <1>3, <1>4
<1>6. E \in SUBSET Nat
  BY <1>2
<1>7. Lowest(E) \in E
  BY <1>5, <1>6, LowestIs
<1>8. QED
  BY <1>3, <1>5, <1>7

\* A block hit.
LEMMA BlockHitKeeps ==
  ASSUME BlockMIN!TraceAssumption, BlockMIN!BlockMinAssumption, BlockInv,
         BlockMIN!BlockHit
  PROVE  BlockInv'
<1> DEFINE s == BlockMIN!AfterPage
           C == Nonempty(s.blocks)
           E == {i \in 1..Len(s.heap) : s.heap[i].lineNo = Front.lineNo}
           h == Without(s.heap, Lowest(E))
<1>1. ~(pos > Len(trace)) /\ key_to_block[Current] # {}
  BY BlockOperators DEF BlockMIN!BlockHit, BlockMIN!Finished
<1>2. trace' = trace /\ pos' = pos + 1
  BY DEF BlockMIN!BlockHit, BlockMIN!PopFront
<1>3. /\ s = [heap |-> s.heap, blocks |-> s.blocks, num |-> s.num]
      /\ Heap(s.heap, BlockNumbers, C) /\ BlockEntriesTrue(s.heap, pos)
      /\ Counted(s.blocks, s.num) /\ Current \in C
  BY <1>1, BlockAfterPage
<1>4. E # {} /\ Lowest(E) \in 1..Len(s.heap) /\ s.heap[Lowest(E)].key = Current
  <2> DEFINE g == s.heap
             F == {i \in 1..Len(g) : g[i].lineNo = Front.lineNo}
  <2>1. Heap(g, BlockNumbers, C) /\ BlockEntriesTrue(g, pos) /\ Current \in C
    BY <1>3
  <2> HIDE DEF g, C
  <2>2. F # {} /\ Lowest(F) \in 1..Len(g) /\ g[Lowest(F)].key = Current
    BY <1>1, <2>1, BlockEntryFound
  <2>3. QED
    BY <2>2 DEF g
<1>5. /\ Proper(trace) /\ pos \in 1..(Len(trace) + 1) /\ pos + 1 \in 1..(Len(trace) + 1)
      /\ BlockNumbers \in SUBSET Nat /\ Len(trace) \in Nat /\ pos \in Nat
  BY <1>1, BlockFront, BlockConstants DEF BlockInv
<1>6. PICK same \in BlockMIN!NextIsSameLine :
        IF ~same
        THEN /\ BlockMIN!Become([s EXCEPT !.heap = Filed(h, BlockLine(same), Current)])
             /\ hashTable' = BlockTable(same)
        ELSE BlockMIN!Become(s) /\ hashTable' = hashTable
  <2>1. PICK same \in BlockMIN!NextIsSameLine :
          IF ~same
          THEN /\ BlockMIN!Become(BlockMIN!Refiled(s))
               /\ hashTable' =
                    BlockMIN!AfterNextAccess(hashTable, Current, Front.lineNo)
          ELSE BlockMIN!Become(s) /\ hashTable' = hashTable
    BY BlockOperators DEF BlockMIN!BlockHit, BlockMIN!UpdateDue, BlockMIN!Front, Front
  <2>2. BlockMIN!SameLineEntries(s) = E
    BY DEF BlockMIN!SameLineEntries, BlockMIN!Front, Front
  <2>3. ASSUME ~same
        PROVE  BlockMIN!Refiled(s) =
                 [s EXCEPT !.heap = Filed(h, BlockLine(same), Current)]
    <3>1. BlockMIN!Refiled(s) =
            [s EXCEPT !.heap = Filed(Without(@, Lowest(E)),
               NextInQueue(hashTable[Current], Front.lineNo), Current)]
      BY <2>2, BlockOperators DEF BlockMIN!Refiled, BlockMIN!Front, Front
    <3> HIDE DEF s, E
    <3>2. BlockLine(same) = NextInQueue(hashTable[Current], Front.lineNo)
      BY <2>3 DEF BlockLine
    <3>3. QED
      BY <1>3, <3>1, <3>2
  <2>4. BlockMIN!AfterNextAccess(hashTable, Current, Front.lineNo)
          = IF Behind(hashTable[Current], Front.lineNo) = {}
            THEN [hashTable EXCEPT ![Current] = <<>>] ELSE hashTable
    BY BlockOperators
  <2>5. ~same => BlockMIN!AfterNextAccess(hashTable, Current, Front.lineNo) =
          BlockTable(same)
    BY <2>4 DEF BlockTable
  <2> HIDE DEF s, h
  <2>6. QED
    BY <2>1, <2>3, <2>5
<1> HIDE DEF s
<1>7. CASE same
  <2>1. /\ maxHeap' = s.heap /\ key_to_block' = s.blocks /\ cacheNum' = s.num
        /\ hashTable' = hashTable
    BY <1>6, <1>7 DEF BlockMIN!Become
  <2>2. BlockTable(same) = hashTable /\ BlockLine(same) = Front.lineNo
    BY <1>7 DEF BlockTable, BlockLine
  <2>3. Table(hashTable', BlockAt, pos + 1)
    BY <1>1, <2>1, <2>2, BlockLooksUp
  <2>4. ASSUME pos + 1 <= Len(trace), NEW e \in ListSet(s.heap)
        PROVE  e.lineNo = NextLine(BlocksAt(e.key), pos + 1)
    <3>1. CASE e.key # Current
      BY <1>1, <1>3, <1>5, <3>1, BlockEntriesMove
    <3>2. CASE e.key = Current
      <4>1. NextLine(BlocksAt(Current), pos + 1) = Front.lineNo
        BY <1>1, <1>5, <1>7, <2>4, SameLine
      <4>2. e.lineNo = NextLine(BlocksAt(Current), pos)
        BY <1>3, <1>5, <2>4, <3>2 DEF BlockEntriesTrue
      <4>3. NextLine(BlocksAt(Current), pos) = Front.lineNo
        BY <1>1, <1>5, BlockFront, CurrentLine
      <4>4. QED
        BY <3>2, <4>1, <4>2, <4>3
    <3>3. QED
      BY <3>1, <3>2
  <2>5. BlockEntriesTrue(maxHeap', pos')
    BY <1>2, <2>1, <2>4 DEF BlockEntriesTrue
  <2>6. /\ Heap(maxHeap', BlockNumbers, Nonempty(key_to_block'))
        /\ Counted(key_to_block', cacheNum')
    BY <1>3, <2>1
  <2>7. QED
    BY <1>2, <1>5, <2>3, <2>5, <2>6, BlockInvNext
<1>8. CASE ~same
  <2> DEFINE g == Filed(h, BlockLine(same), Current)
  <2>1. /\ maxHeap' = g /\ key_to_block' = s.blocks /\ cacheNum' = s.num
        /\ hashTable' = BlockTable(same)
    <3> HIDE DEF g, h
    <3>1. BlockMIN!Become([s EXCEPT !.heap = g]) /\ hashTable' = BlockTable(same)
      BY <1>6, <1>8 DEF g
    <3>2. [s EXCEPT !.heap = g] = [heap |-> g, blocks |-> s.blocks, num |-> s.num]
      BY <1>3
    <3>3. QED
      BY <3>1, <3>2 DEF BlockMIN!Become
  <2>2. Table(hashTable', BlockAt, pos + 1)
    BY <1>1, <2>1, BlockLooksUp
  <2>3. Heap(h, BlockNumbers, C \ {Current}) /\ BlockEntriesTrue(h, pos)
    <3> DEFINE f == s.heap
               j == Lowest(E)
    <3>1. Heap(f, BlockNumbers, C) /\ j \in 1..Len(f) /\ f[j].key = Current
      BY <1>3, <1>4
    <3> HIDE DEF f, j, C
    <3>2. /\ Heap(Without(f, j), BlockNumbers, C \ {f[j].key})
          /\ Loses(Without(f, j), f, f[j])
      BY <1>5, <3>1, HeapErased
    <3>3. BlockEntriesTrue(f, pos)
      BY <1>3 DEF f
    <3>4. BlockEntriesTrue(Without(f, j), pos)
      BY <3>2, <3>3 DEF BlockEntriesTrue, Loses
    <3>5. QED
      BY <3>1, <3>2, <3>4 DEF f, j
  <2> HIDE DEF h
  <2>4. Current \notin C \ {Current} /\ (C \ {Current}) \cup {Current} = C
    BY <1>3
  <2> HIDE DEF C
  <2>5. /\ Heap(g, BlockNumbers, (C \ {Current}) \cup {Current})
        /\ BlockEntriesTrue(g, pos + 1)
    BY <1>1, <2>3, <2>4, BlockRefile
  <2>6. /\ Heap(maxHeap', BlockNumbers, Nonempty(key_to_block'))
        /\ Counted(key_to_block', cacheNum')
    BY <1>3, <2>1, <2>4, <2>5 DEF C
  <2>7. BlockEntriesTrue(maxHeap', pos')
    BY <1>2, <2>1, <2>5
  <2>8. QED
    BY <1>2, <1>5, <2>2, <2>6, <2>7, BlockInvNext
<1>9. QED
  BY <1>7, <1>8

\* The invariant holds when the policy is set up.
LEMMA BlockStart ==
  ASSUME BlockMIN!TraceAssumption, BlockMIN!BlockMinAssumption, BlockMIN!Init
  PROVE  BlockInv
<1>1. /\ TraceConstants /\ Capacity \in Nat \ {0}
      /\ BlockNumbers \in SUBSET Nat
  BY BlockConstants DEF BlockMIN!BlockMinAssumption
<1>2. Proper(trace)
  BY BlockConstants DEF BlockMIN!Init, BlockMIN!TraceInit
<1>3. Len(trace) \in Nat
  BY <1>2 DEF Proper
<1>4. /\ pos = 1 /\ maxHeap = <<>> /\ cacheNum = 0
      /\ key_to_block = [b \in BlockNumbers |-> {}]
      /\ hashTable = [b \in BlockNumbers |-> Queue(BlocksAt(b))]
  BY BlockOperators
    DEF BlockMIN!Init, BlockMIN!TraceInit, BlockMIN!blockBaseBuild, BlocksAt
<1>5. Table(hashTable, BlockAt, pos)
  <2>1. \A b \in BlockNumbers : BlocksAt(b) \in SUBSET (1..Len(trace))
    BY DEF BlocksAt
  <2>2. \A b \in BlockNumbers : Queue(BlocksAt(b)) = <<>> => BlocksAt(b) = {}
    BY <1>3, <2>1, EmptyQueue
  <2>3. \A I : I = {} => From(I, pos) = {}
    BY DEF From
  <2>4. QED
    BY <1>4, <2>2, <2>3 DEF Table, BlockAt
<1>6. Nonempty(key_to_block) = {} /\ PagesOf(key_to_block) = {}
  BY <1>4 DEF Nonempty, PagesOf
<1>7. Heap(maxHeap, BlockNumbers, Nonempty(key_to_block)) /\ ListSet(maxHeap) = {}
  BY <1>4, <1>6, EmptyHeap
<1>8. Counted(key_to_block, cacheNum)
  <2>1. Cardinality(PagesOf(key_to_block)) = 0
    BY <1>6, FS_EmptySet
  <2>2. QED
    BY <1>1, <1>4, <2>1 DEF Counted
<1>9. pos \in 1..(Len(trace) + 1)
  BY <1>3, <1>4
<1>10. BlockEntriesTrue(maxHeap, pos)
  BY <1>7 DEF BlockEntriesTrue
<1>11. QED
  BY <1>2, <1>5, <1>7, <1>8, <1>9, <1>10 DEF BlockInv

\* Every step of the policy keeps the invariant.
LEMMA BlockKeeps ==
  ASSUME BlockMIN!TraceAssumption, BlockMIN!BlockMinAssumption, BlockInv,
         BlockMIN!access
  PROVE  BlockInv'
BY BlockReadMiss, BlockWriteMiss, BlockHitKeeps DEF BlockMIN!access

\* A block evicts itself only if no other is cached.
LEMMA BlockOthersFirst ==
  ASSUME BlockMIN!TraceAssumption, BlockMIN!BlockMinAssumption, BlockInv
  PROVE  BlockMIN!OthersFirst
<1> DEFINE N == Nonempty(key_to_block)
<1>1. BlockMIN!CachedBlocks = N
  BY BlockOperators DEF BlockMIN!CachedBlocks, Nonempty
<1>2. SUFFICES ASSUME ~(pos > Len(trace)), key_to_block[Current] # {},
                      maxHeap[1].key = Current
               PROVE  N = {Current}
  BY <1>1, BlockOperators DEF BlockMIN!OthersFirst, BlockMIN!EvictsItself,
     BlockMIN!VictimAt, BlockMIN!Finished
<1>3. /\ Proper(trace) /\ pos \in 1..(Len(trace) + 1) /\ BlockNumbers \in SUBSET Nat
      /\ pos <= Len(trace) /\ Current \in BlockNumbers
      /\ Heap(maxHeap, BlockNumbers, N) /\ BlockEntriesTrue(maxHeap, pos)
  BY <1>2, BlockFront, BlockConstants DEF BlockInv
<1>4. Current \in N
  BY <1>2, <1>3 DEF Nonempty
<1> HIDE DEF N
<1>5. /\ Covers(maxHeap, N) /\ Len(maxHeap) \in Nat
      /\ \A i \in 1..Len(maxHeap) :
           maxHeap[i].lineNo \in 1..INF /\ maxHeap[i].key \in BlockNumbers \cap N
  BY <1>3, HeapFacts
<1>6. 1 \in 1..Len(maxHeap)
  BY <1>4, <1>5 DEF Covers
<1>7. \A i \in 1..Len(maxHeap) :
        maxHeap[i].lineNo = NextLine(BlocksAt(maxHeap[i].key), pos)
  BY <1>3 DEF BlockEntriesTrue, ListSet
<1>8. ASSUME NEW c \in N
      PROVE  c = Current
  <2>1. PICK i \in 1..Len(maxHeap) : maxHeap[i].key = c
    BY <1>5 DEF Covers
  <2>2. c \in BlockNumbers
    BY <1>5, <2>1
  <2>3. maxHeap[1].lineNo = Front.lineNo
    <3>1. NextLine(BlocksAt(Current), pos) = Front.lineNo
      BY <1>2, <1>3, CurrentLine
    <3>2. QED
      BY <1>2, <1>6, <1>7, <3>1
  <2>4. maxHeap[i].lineNo = NextLine(BlocksAt(c), pos)
    BY <1>7, <2>1
  <2>5. i = 1 \/ maxHeap[1].lineNo >= maxHeap[i].lineNo
    BY <1>3, <1>5, <1>6 DEF Heap, LaterFirst
  <2>6. CASE i = 1
    BY <1>2, <2>1, <2>6
  <2>7. CASE i # 1
    <3>1. NextLine(BlocksAt(c), pos) >= Front.lineNo
      BY <1>2, <1>3, <2>2, CurrentLine
    <3>2. maxHeap[i].lineNo \in Int /\ Front.lineNo \in Int
      <4>1. maxHeap[i].lineNo \in 1..INF /\ maxHeap[1].lineNo \in 1..INF
        BY <1>5, <1>6
      <4>2. \A x \in 1..INF : x \in Int
        OBVIOUS
      <4>3. QED
        BY <2>3, <4>1, <4>2
    <3>3. NextLine(BlocksAt(c), pos) = Front.lineNo
      BY <2>3, <2>4, <2>5, <2>7, <3>1, <3>2
    <3>4. QED
      BY <1>2, <1>3, <2>2, <3>3, CurrentLine
  <2>8. QED
    BY <2>6, <2>7
<1>9. QED
  BY <1>4, <1>8

\* What the runs check of BlockMinCache follows from the invariant.
LEMMA BlockInvImplies ==
  ASSUME BlockMIN!TraceAssumption, BlockMIN!BlockMinAssumption, BlockInv
  PROVE  /\ BlockMIN!TypeOK
         /\ BlockMIN!HeapMatchesFuture
         /\ BlockMIN!PageCountRight
         /\ BlockMIN!AssertsHold
<1> DEFINE N == Nonempty(key_to_block)
<1>1. /\ TraceConstants /\ BlockNumbers \in SUBSET Nat /\ Capacity \in Nat \ {0}
      /\ Proper(trace) /\ pos \in 1..(Len(trace) + 1) /\ Len(trace) \in Nat
      /\ Heap(maxHeap, BlockNumbers, N) /\ BlockEntriesTrue(maxHeap, pos)
      /\ Counted(key_to_block, cacheNum)
  BY BlockConstants DEF BlockInv, BlockMIN!BlockMinAssumption, Proper
<1>2. BlockMIN!CachedBlocks = N
  BY BlockOperators DEF BlockMIN!CachedBlocks, Nonempty
<1>3. BlockMIN!CachedPages = PagesOf(key_to_block)
  BY BlockOperators DEF BlockMIN!CachedPages, PagesOf
<1> HIDE DEF N
<1>4. /\ maxHeap \in Seq(HeapElement(BlockNumbers)) /\ Len(maxHeap) \in Nat
      /\ Covers(maxHeap, N) /\ Cardinality(N) = Len(maxHeap)
  BY <1>1, HeapFacts
<1>5. DOMAIN maxHeap = 1..Len(maxHeap)
  BY <1>4
<1>6. BlockMIN!HeapMatchesFuture
  <2>1. Len(maxHeap) = BlockMIN!Cardinality(BlockMIN!CachedBlocks)
    BY <1>2, <1>4, BlockOperators
  <2>2. ASSUME NEW b \in N
        PROVE  \E i \in DOMAIN maxHeap :
                 /\ maxHeap[i].key = b
                 /\ ~BlockMIN!Finished =>
                      maxHeap[i].lineNo = BlockMIN!TrueNext(BlockMIN!BlockKey, b)
    <3>1. PICK i \in 1..Len(maxHeap) : maxHeap[i].key = b
      BY <1>4 DEF Covers
    <3>2. ASSUME ~BlockMIN!Finished
          PROVE  maxHeap[i].lineNo = NextLine(BlocksAt(b), pos)
      <4>1. pos <= Len(trace)
        BY <1>1, <3>2 DEF BlockMIN!Finished
      <4>2. QED
        BY <1>1, <3>1, <4>1 DEF BlockEntriesTrue, ListSet
    <3>3. BlockMIN!TrueNext(BlockMIN!BlockKey, b) = NextLine(BlocksAt(b), pos)
      <4>1. {j \in pos..Len(trace) : BlockMIN!BlockKey(trace[j]) = b} =
              From(BlocksAt(b), pos)
        BY <1>1 DEF From, BlocksAt, BlockMIN!BlockKey
      <4>2. QED
        BY <4>1, BlockOperators DEF BlockMIN!TrueNext, NextLine
    <3>4. QED
      BY <1>5, <3>1, <3>2, <3>3
  <2>3. QED
    BY <1>2, <2>1, <2>2 DEF BlockMIN!HeapMatchesFuture
<1>7. cacheNum \in 0..Capacity
  <2>1. IsFiniteSet(Page)
    BY <1>1 DEF TraceConstants
  <2>2. Cardinality(PagesOf(key_to_block)) \in Nat
    BY <2>1, PagesOfFinite
  <2>3. QED
    BY <1>1, <2>2 DEF Counted
<1>8. BlockMIN!PageCountRight
  <2>1. cacheNum = BlockMIN!Cardinality(BlockMIN!CachedPages) /\ cacheNum <= Capacity
    BY <1>1, <1>3, BlockOperators DEF Counted
  <2>2. \A x \in BlockMIN!CachedPages : x[1] = BlockMIN!BlockOf(x[2])
    BY <1>1, <1>3 DEF Counted, PagesOf, BlockMIN!BlockOf
  <2>3. QED
    BY <2>1, <2>2 DEF BlockMIN!PageCountRight
<1>9. BlockMIN!AssertsHold
  <2>1. SUFFICES ASSUME ~(pos > Len(trace))
                 PROVE  /\ \/ hashTable[Current] # <<>>
                           \/ FALSE \notin BlockMIN!NextIsSameLine
                        /\ key_to_block[Current] # {} =>
                             BlockMIN!SameLineEntries(BlockMIN!AfterPage) # {}
    BY BlockOperators DEF BlockMIN!AssertsHold, BlockMIN!KeyMissing, BlockMIN!Finished
  <2>2. ASSUME FALSE \in BlockMIN!NextIsSameLine
        PROVE  hashTable[Current] # <<>>
    BY <2>1, <2>2, BlockLooksUp
  <2>3. ASSUME key_to_block[Current] # {}
        PROVE  BlockMIN!SameLineEntries(BlockMIN!AfterPage) # {}
    <3> DEFINE s == BlockMIN!AfterPage
               h == s.heap
               C == Nonempty(s.blocks)
               E == {i \in 1..Len(h) : h[i].lineNo = Front.lineNo}
    <3>1. Heap(h, BlockNumbers, C) /\ BlockEntriesTrue(h, pos) /\ Current \in C
      BY <2>1, <2>3, BlockAfterPage
    <3>2. BlockMIN!SameLineEntries(s) = E
      BY DEF BlockMIN!SameLineEntries, BlockMIN!Front, Front
    <3> HIDE DEF h, C
    <3>3. E # {}
      BY <2>1, <3>1, BlockEntryFound
    <3>4. QED
      BY <3>2, <3>3
  <2>4. QED
    BY <2>2, <2>3
<1>10. BlockMIN!TypeOK
  <2>1. DOMAIN hashTable = BlockNumbers
    BY DEF BlockInv, Table, BlockAt
  <2>2. \A i \in DOMAIN maxHeap : maxHeap[i] \in [lineNo : 1..INF, key : BlockNumbers]
    <3>1. \A i \in 1..Len(maxHeap) : maxHeap[i] \in HeapElement(BlockNumbers)
      BY <1>4
    <3>2. QED
      BY <1>5, <3>1 DEF HeapElement
  <2>3. key_to_block \in [BlockNumbers -> SUBSET Page]
    BY <1>1 DEF Counted
  <2>4. QED
    BY <1>1, <1>7, <2>1, <2>2, <2>3, BlockOperators DEF BlockMIN!TypeOK
<1>11. QED
  BY <1>6, <1>8, <1>9, <1>10
-----------------------------------------------------------------------------
(***************************************************************************)
(* OwbpCache. A record s stands for the cache as its calls compose.        *)
(***************************************************************************)
Meta == [coldPageCounter : Nat, distance : 0..INF, BlkID : BlockNumbers]
MetaBlock == [m \in Meta |-> m.BlkID]
MetaOf(s, b) == [coldPageCounter |-> Cardinality(s.cold[b]),
                 distance |-> s.dist[b], BlkID |-> b]

\* The blocks that have an element in the heap.
InHeap(h) == {h[i].BlkID : i \in 1..Len(h)}

Shaped(s) ==
  /\ s = [pages |-> s.pages, cold |-> s.cold, dist |-> s.dist, heap |-> s.heap,
          pull |-> s.pull, size |-> s.size]
  /\ s.pages \in [BlockNumbers -> SUBSET Page]
  /\ s.cold \in [BlockNumbers -> SUBSET Page]
  /\ s.dist \in [BlockNumbers -> 0..INF]
  /\ s.heap \in Seq(Meta) /\ s.pull \in SUBSET BlockNumbers
  /\ \A b \in BlockNumbers : \A q \in s.pages[b] : b = q \div ssd2fsblkRatio
  /\ s.size = Cardinality(PagesOf(s.pages))
  /\ OneFor(s.heap, MetaBlock, InHeap(s.heap)) /\ InHeap(s.heap) \cap s.pull = {}

\* The block b is filed if it has pages, as its metadata says.
Right(s, b) ==
  /\ b \in InHeap(s.heap) \cup s.pull <=> s.pages[b] # {}
  /\ s.pages[b] = {} => s.cold[b] = {}
  /\ b \in s.pull => s.dist[b] = INF
  /\ \A e \in ListSet(s.heap) : e.BlkID = b => e = MetaOf(s, b) /\ s.dist[b] # INF

\* The other blocks are right, whatever has become of the current one.
OthersRight(s) == Shaped(s) /\ \A b \in BlockNumbers : b # Current => Right(s, b)

OwbpInv ==
  /\ Proper(trace) /\ pos \in 1..(Len(trace) + 1)
  /\ Shaped(OWBP!cache) /\ \A b \in BlockNumbers : Right(OWBP!cache, b)
  /\ currSize <= Capacity

\* The operators that OWBP has from other modules.
LEMMA OwbpOperators ==
  /\ \A S : OWBP!Cardinality(S) = Cardinality(S)
  /\ \A h, i : OWBP!HeapErase(h, i) = Without(h, i)
  /\ \A K : OWBP!Least(K) = Lowest(K)
  /\ \A s, b : OWBP!meta(s, b) = MetaOf(s, b)
  /\ OWBP!Block = BlockNumbers
  /\ OWBP!Current = Current
  /\ OWBP!k = Front.fsblkno
<1>1. \A S : OWBP!Cardinality(S) = Cardinality(S)
  BY DEF OWBP!Cardinality, Cardinality
<1>2. \A h, i : OWBP!HeapErase(h, i) = Without(h, i)
  BY DEF OWBP!HeapErase, Without
<1>3. \A K : OWBP!Least(K) = Lowest(K)
  BY DEF OWBP!Least, Lowest
<1>4. \A s, b : OWBP!meta(s, b) = MetaOf(s, b)
  BY <1>1 DEF OWBP!meta, MetaOf
<1>5. OWBP!Block = BlockNumbers
  BY DEF OWBP!Block, OWBP!BlockOf, BlockNumbers
<1>6. OWBP!Current = Current /\ OWBP!k = Front.fsblkno
  BY DEF OWBP!Current, OWBP!k, OWBP!Front, Current, Front
<1>7. QED
  BY <1>1, <1>2, <1>3, <1>4, <1>5, <1>6

\* OwbpCache works on the same traces as BlockMinCache.
LEMMA OwbpConstants ==
  ASSUME OWBP!TraceAssumption
  PROVE  /\ BlockMIN!TraceAssumption
         /\ \A rs \in BlockFile : Proper(OWBP!Expand(rs))
<1>1. \A S : OWBP!IsFiniteSet(S) <=> BlockMIN!IsFiniteSet(S)
  BY DEF OWBP!IsFiniteSet, BlockMIN!IsFiniteSet
<1>2. OWBP!Request = BlockMIN!Request
  BY DEF OWBP!Request, OWBP!Extent, OWBP!BlockOf,
         BlockMIN!Request, BlockMIN!Extent, BlockMIN!BlockOf
<1>3. BlockMIN!TraceAssumption
  BY <1>1, <1>2 DEF OWBP!TraceAssumption, BlockMIN!TraceAssumption
<1>4. \A r, line : OWBP!Atoms(r, line) = BlockMIN!Atoms(r, line)
  BY DEF OWBP!Atoms, OWBP!BlockOf, BlockMIN!Atoms, BlockMIN!BlockOf
<1>5. \A rs : OWBP!Expand(rs) = BlockMIN!Expand(rs)
  BY <1>4 DEF OWBP!Expand, BlockMIN!Expand
<1>6. QED
  BY <1>3, <1>5, BlockConstants

\* The key of an element is its block.
LEMMA MetaBlocks ==
  ASSUME NEW h \in Seq(Meta)
  PROVE  /\ \A i \in 1..Len(h) : /\ h[i] \in Meta /\ MetaBlock[h[i]] = h[i].BlkID
                                 /\ h[i].BlkID \in InHeap(h)
         /\ {MetaBlock[h[i]] : i \in 1..Len(h)} = InHeap(h)
         /\ InHeap(h) \subseteq BlockNumbers
         /\ \A C : OneFor(h, MetaBlock, C) => C = InHeap(h)
<1>1. ASSUME NEW i \in 1..Len(h)
      PROVE  /\ h[i] \in Meta /\ MetaBlock[h[i]] = h[i].BlkID
             /\ h[i].BlkID \in InHeap(h) /\ h[i].BlkID \in BlockNumbers
  <2>1. h[i] \in Meta
    OBVIOUS
  <2>2. MetaBlock[h[i]] = h[i].BlkID
    BY <2>1 DEF MetaBlock
  <2>3. h[i].BlkID \in BlockNumbers
    BY <2>1 DEF Meta
  <2>4. QED
    BY <2>1, <2>2, <2>3 DEF InHeap
<1>2. {MetaBlock[h[i]] : i \in 1..Len(h)} = InHeap(h)
  BY <1>1 DEF InHeap
<1>3. InHeap(h) \subseteq BlockNumbers
  BY <1>1 DEF InHeap
<1>4. QED
  BY <1>1, <1>2, <1>3 DEF OneFor

\* An element is taken out of the heap.
LEMMA MetaTaken ==
  ASSUME NEW h \in Seq(Meta), OneFor(h, MetaBlock, InHeap(h)), NEW i \in 1..Len(h)
  PROVE  /\ Without(h, i) \in Seq(Meta)
         /\ OneFor(Without(h, i), MetaBlock, InHeap(Without(h, i)))
         /\ InHeap(Without(h, i)) = InHeap(h) \ {h[i].BlkID}
         /\ ListSet(Without(h, i)) \subseteq ListSet(h)
<1> DEFINE g == Without(h, i)
<1>1. g \in Seq(Meta)
  BY WithoutIs
<1>2. OneFor(g, MetaBlock, InHeap(h) \ {MetaBlock[h[i]]})
  BY WithoutKeeps
<1>3. Loses(g, h, h[i])
  BY WithoutLoses
<1>4. MetaBlock[h[i]] = h[i].BlkID
  BY MetaBlocks
<1> HIDE DEF g
<1>5. InHeap(h) \ {h[i].BlkID} = InHeap(g)
  BY <1>1, <1>2, <1>4, MetaBlocks
<1>6. OneFor(g, MetaBlock, InHeap(g))
  BY <1>2, <1>4, <1>5
<1>7. ListSet(g) \subseteq ListSet(h)
  BY <1>3 DEF Loses
<1>8. QED
  BY <1>1, <1>5, <1>6, <1>7 DEF g

\* An element is put into the heap, for a block that has none.
LEMMA MetaPut ==
  ASSUME NEW h \in Seq(Meta), OneFor(h, MetaBlock, InHeap(h)), NEW n \in 0..Len(h),
         NEW m \in Meta, m.BlkID \notin InHeap(h)
  PROVE  /\ With(h, n, m) \in Seq(Meta)
         /\ OneFor(With(h, n, m), MetaBlock, InHeap(With(h, n, m)))
         /\ InHeap(With(h, n, m)) = InHeap(h) \cup {m.BlkID}
         /\ ListSet(With(h, n, m)) = ListSet(h) \cup {m}
<1> DEFINE g == With(h, n, m)
<1>1. g \in Seq(Meta)
  BY WithIs
<1>2. MetaBlock[m] = m.BlkID
  BY DEF MetaBlock
<1>3. OneFor(g, MetaBlock, InHeap(h) \cup {MetaBlock[m]})
  BY <1>2, WithKeeps
<1>4. Gains(g, h, m)
  BY WithGains
<1> HIDE DEF g
<1>5. InHeap(h) \cup {m.BlkID} = InHeap(g)
  BY <1>1, <1>2, <1>3, MetaBlocks
<1>6. OneFor(g, MetaBlock, InHeap(g))
  BY <1>2, <1>3, <1>5
<1>7. QED
  BY <1>1, <1>4, <1>5, <1>6 DEF g, Gains

\* A block stays right as long as what concerns it does not change.
LEMMA RightStays ==
  ASSUME NEW s, NEW t, NEW b \in BlockNumbers, Right(s, b),
         t.pages[b] = s.pages[b], t.cold[b] = s.cold[b], t.dist[b] = s.dist[b],
         b \in InHeap(t.heap) <=> b \in InHeap(s.heap), b \in t.pull <=> b \in s.pull,
         \A e \in ListSet(t.heap) : e.BlkID = b => e \in ListSet(s.heap)
  PROVE  Right(t, b)
<1>1. MetaOf(t, b) = MetaOf(s, b)
  BY DEF MetaOf
<1>2. QED
  BY <1>1 DEF Right

\* The current block loses its place.
LEMMA OwbpUnfiled ==
  ASSUME Current \in BlockNumbers, NEW s, OthersRight(s),
         NEW t, t = OWBP!Unfiled(s, Current)
  PROVE  /\ OthersRight(t)
         /\ t.pages = s.pages /\ t.cold = s.cold /\ t.dist = s.dist /\ t.size = s.size
         /\ Current \notin InHeap(t.heap) /\ Current \notin t.pull
<1> DEFINE h == s.heap
           E == {i \in DOMAIN h : h[i].BlkID = Current}
           i == Lowest(E)
           r(g, p) == [pages |-> s.pages, cold |-> s.cold, dist |-> s.dist,
                       heap |-> g, pull |-> p, size |-> s.size]
<1>1. /\ s = r(h, s.pull) /\ h \in Seq(Meta) /\ s.pull \in SUBSET BlockNumbers
      /\ OneFor(h, MetaBlock, InHeap(h)) /\ InHeap(h) \cap s.pull = {}
      /\ DOMAIN h = 1..Len(h) /\ Len(h) \in Nat
  BY DEF OthersRight, Shaped
<1>2. OWBP!coldHeapIt(h, Current) = E
  BY DEF OWBP!coldHeapIt
<1>3. E # {} <=> Current \in InHeap(h)
  BY <1>1 DEF InHeap
<1>4. ASSUME NEW g, NEW p, t = r(g, p), g \in Seq(Meta), p \in SUBSET s.pull,
             OneFor(g, MetaBlock, InHeap(g)), InHeap(g) = InHeap(h) \ {Current},
             ListSet(g) \subseteq ListSet(h), p = s.pull \ {Current}
      PROVE  /\ OthersRight(t)
             /\ t.pages = s.pages /\ t.cold = s.cold /\ t.dist = s.dist
             /\ t.size = s.size
             /\ Current \notin InHeap(t.heap) /\ Current \notin t.pull
  <2>1. /\ t.pages = s.pages /\ t.cold = s.cold /\ t.dist = s.dist /\ t.size = s.size
        /\ t.heap = g /\ t.pull = p
    BY <1>4
  <2>2. t = [pages |-> t.pages, cold |-> t.cold, dist |-> t.dist, heap |-> t.heap,
             pull |-> t.pull, size |-> t.size]
    BY <1>4, <2>1
  <2>3. InHeap(g) \cap p = {} /\ p \in SUBSET BlockNumbers
    BY <1>1, <1>4
  <2>4. Shaped(t)
    BY <1>1, <1>4, <2>1, <2>2, <2>3 DEF OthersRight, Shaped
  <2>5. ASSUME NEW b \in BlockNumbers, b # Current
        PROVE  Right(t, b)
    <3>1. Right(s, b)
      BY <2>5 DEF OthersRight
    <3>2. /\ b \in InHeap(t.heap) <=> b \in InHeap(h)
          /\ b \in t.pull <=> b \in s.pull
          /\ \A e \in ListSet(t.heap) : e.BlkID = b => e \in ListSet(h)
      BY <1>4, <2>1, <2>5
    <3>3. QED
      BY <2>1, <3>1, <3>2, RightStays
  <2>6. Current \notin InHeap(t.heap) /\ Current \notin t.pull
    BY <1>4, <2>1
  <2>7. QED
    BY <2>1, <2>4, <2>5, <2>6 DEF OthersRight
<1>5. CASE E = {}
  <2>1. t = [s EXCEPT !.pull = @ \ {Current}]
    BY <1>2, <1>5 DEF OWBP!Unfiled
  <2>2. t = r(h, s.pull \ {Current})
    BY <1>1, <2>1
  <2>3. InHeap(h) = InHeap(h) \ {Current}
    BY <1>3, <1>5
  <2> HIDE DEF r, h
  <2>4. QED
    BY <1>1, <1>4, <2>2, <2>3
<1>6. CASE E # {}
  <2>1. i \in 1..Len(h) /\ h[i].BlkID = Current
    <3>1. E \in SUBSET Nat
      BY <1>1
    <3>2. PICK x \in E : TRUE
      BY <1>6
    <3>3. Lowest(E) \in E
      BY <3>1, <3>2, LowestIs
    <3>4. QED
      BY <1>1, <3>3
  <2>2. t = [s EXCEPT !.heap = Without(h, i)]
    BY <1>2, <1>6, OwbpOperators DEF OWBP!Unfiled
  <2>3. t = r(Without(h, i), s.pull)
    BY <1>1, <2>2
  <2>4. /\ Without(h, i) \in Seq(Meta)
        /\ OneFor(Without(h, i), MetaBlock, InHeap(Without(h, i)))
        /\ InHeap(Without(h, i)) = InHeap(h) \ {Current}
        /\ ListSet(Without(h, i)) \subseteq ListSet(h)
    BY <1>1, <2>1, MetaTaken
  <2>5. s.pull = s.pull \ {Current} /\ s.pull \in SUBSET s.pull
    BY <1>1, <1>3, <1>6
  <2> HIDE DEF r, h, i
  <2>6. QED
    BY <1>4, <2>3, <2>4, <2>5
<1>7. QED
  BY <1>5, <1>6

\* The current block gets the place that its metadata says.
LEMMA OwbpRefiled ==
  ASSUME IsFiniteSet(Page), INF \in Nat, Current \in BlockNumbers,
         NEW s, OthersRight(s), s.pages[Current] # {},
         NEW r, r = OWBP!Filed(s, Current)
  PROVE  /\ Shaped(r) /\ \A b \in BlockNumbers : Right(r, b)
         /\ r.pages = s.pages /\ r.cold = s.cold /\ r.dist = s.dist /\ r.size = s.size
<1> DEFINE t == OWBP!Unfiled(s, Current)
           n == Cardinality({i \in DOMAIN t.heap :
                               ~OWBP!Before(MetaOf(s, Current), t.heap[i])})
           m == MetaOf(s, Current)
           g == With(t.heap, n, m)
           f(h, p) == [pages |-> s.pages, cold |-> s.cold, dist |-> s.dist,
                       heap |-> h, pull |-> p, size |-> s.size]
<1> HIDE DEF t
<1>1. /\ OthersRight(t)
      /\ t.pages = s.pages /\ t.cold = s.cold /\ t.dist = s.dist /\ t.size = s.size
      /\ Current \notin InHeap(t.heap) /\ Current \notin t.pull
  BY OwbpUnfiled DEF t
<1>2. /\ t = f(t.heap, t.pull) /\ t.heap \in Seq(Meta) /\ t.pull \in SUBSET BlockNumbers
      /\ OneFor(t.heap, MetaBlock, InHeap(t.heap)) /\ InHeap(t.heap) \cap t.pull = {}
      /\ DOMAIN t.heap = 1..Len(t.heap) /\ Len(t.heap) \in Nat
  BY <1>1 DEF OthersRight, Shaped
<1>3. ASSUME NEW h, NEW p, r = f(h, p), h \in Seq(Meta), p \in SUBSET BlockNumbers,
             OneFor(h, MetaBlock, InHeap(h)), InHeap(h) \cap p = {},
             Current \in InHeap(h) \cup p, Current \in p => s.dist[Current] = INF,
             \A e \in ListSet(h) : e.BlkID = Current => e = m /\ s.dist[Current] # INF,
             \A b \in BlockNumbers : b # Current =>
               /\ b \in InHeap(h) <=> b \in InHeap(t.heap)
               /\ b \in p <=> b \in t.pull,
             \A e \in ListSet(h) : e.BlkID # Current => e \in ListSet(t.heap)
      PROVE  /\ Shaped(r) /\ \A b \in BlockNumbers : Right(r, b)
             /\ r.pages = s.pages /\ r.cold = s.cold /\ r.dist = s.dist
             /\ r.size = s.size
  <2>1. /\ r.pages = s.pages /\ r.cold = s.cold /\ r.dist = s.dist /\ r.size = s.size
        /\ r.heap = h /\ r.pull = p
    BY <1>3
  <2>2. r = [pages |-> r.pages, cold |-> r.cold, dist |-> r.dist, heap |-> r.heap,
             pull |-> r.pull, size |-> r.size]
    BY <1>3, <2>1
  <2>3. Shaped(r)
    BY <1>3, <2>1, <2>2 DEF OthersRight, Shaped
  <2>4. Right(r, Current)
    <3>1. MetaOf(r, Current) = m
      BY <2>1 DEF MetaOf
    <3>2. QED
      BY <1>3, <2>1, <3>1 DEF Right
  <2>5. ASSUME NEW b \in BlockNumbers, b # Current
        PROVE  Right(r, b)
    <3>1. Right(t, b)
      BY <1>1, <2>5 DEF OthersRight
    <3>2. /\ r.pages[b] = t.pages[b] /\ r.cold[b] = t.cold[b] /\ r.dist[b] = t.dist[b]
          /\ b \in InHeap(r.heap) <=> b \in InHeap(t.heap)
          /\ b \in r.pull <=> b \in t.pull
      BY <1>1, <1>3, <2>1, <2>5
    <3>3. \A e \in ListSet(r.heap) : e.BlkID = b => e \in ListSet(t.heap)
      BY <1>3, <2>1, <2>5
    <3>4. QED
      BY <3>1, <3>2, <3>3, RightStays
  <2>6. QED
    BY <2>1, <2>3, <2>4, <2>5
<1>4. CASE s.dist[Current] = INF
  <2>1. r = [t EXCEPT !.pull = @ \cup {Current}]
    BY <1>4 DEF OWBP!Filed, t
  <2>2. r = f(t.heap, t.pull \cup {Current})
    <3> DEFINE p == t.pull \cup {Current}
    <3>1. r = [t EXCEPT !.pull = p]
      BY <2>1
    <3> HIDE DEF p
    <3>2. r = f(t.heap, p)
      BY <1>2, <3>1
    <3>3. QED
      BY <3>2 DEF p
  <2>3. \A e \in ListSet(t.heap) : e.BlkID # Current
    BY <1>1 DEF InHeap, ListSet
  <2> HIDE DEF f, m, n
  <2>4. InHeap(t.heap) \cap (t.pull \cup {Current}) = {}
    BY <1>1, <1>2
  <2>5. QED
    BY <1>2, <1>3, <1>4, <2>2, <2>3, <2>4
<1>5. CASE s.dist[Current] # INF
  <2>1. m \in Meta /\ m.BlkID = Current
    <3>1. s.cold[Current] \in SUBSET Page /\ s.dist[Current] \in 0..INF
      BY DEF OthersRight, Shaped
    <3>2. Cardinality(s.cold[Current]) \in Nat
      BY <3>1, FS_Subset, FS_CardinalityType
    <3>3. QED
      BY <3>1, <3>2 DEF MetaOf, Meta
  <2>2. n \in 0..Len(t.heap)
    <3> DEFINE K == {i \in DOMAIN t.heap : ~OWBP!Before(m, t.heap[i])}
    <3>1. K \subseteq 1..Len(t.heap)
      BY <1>2
    <3>2. IsFiniteSet(1..Len(t.heap)) /\ Cardinality(1..Len(t.heap)) = Len(t.heap)
      BY <1>2, CountUpTo
    <3> HIDE DEF K
    <3>3. Cardinality(K) \in Nat /\ Cardinality(K) <= Len(t.heap)
      BY <3>1, <3>2, FS_Subset, FS_CardinalityType
    <3>4. QED
      BY <1>2, <3>3 DEF K
  <2>3. OWBP!ColdInsert(t.heap, m) = g
    BY OwbpOperators DEF OWBP!ColdInsert, With
  <2>4. r = [t EXCEPT !.heap = g]
    BY <1>5, <2>3, OwbpOperators DEF OWBP!Filed, t
  <2>5. r = f(g, t.pull)
    BY <1>2, <2>4
  <2> HIDE DEF f, m, n
  <2>6. /\ g \in Seq(Meta) /\ OneFor(g, MetaBlock, InHeap(g))
        /\ InHeap(g) = InHeap(t.heap) \cup {Current}
        /\ ListSet(g) = ListSet(t.heap) \cup {m}
    BY <1>1, <1>2, <2>1, <2>2, MetaPut
  <2> HIDE DEF g
  <2>7. \A e \in ListSet(t.heap) : e.BlkID # Current
    BY <1>1 DEF InHeap, ListSet
  <2>8. /\ InHeap(g) \cap t.pull = {} /\ Current \in InHeap(g) /\ Current \notin t.pull
    BY <1>1, <1>2, <2>6
  <2>9. \A e \in ListSet(g) : /\ e.BlkID = Current => e = m /\ s.dist[Current] # INF
                              /\ e.BlkID # Current => e \in ListSet(t.heap)
    BY <1>5, <2>1, <2>6, <2>7
  <2>10. \A b \in BlockNumbers : b # Current =>
           /\ b \in InHeap(g) <=> b \in InHeap(t.heap)
           /\ b \in t.pull <=> b \in t.pull
    BY <2>6
  <2>11. QED
    BY <1>2, <1>3, <2>5, <2>6, <2>8, <2>9, <2>10
<1>6. QED
  BY <1>4, <1>5

\* The line of the current block's next access in the window.
BlockAhead == IF OWBP!BlockInWindow = {} THEN INF
              ELSE trace[Lowest(OWBP!BlockInWindow)].lineNo

\* The window is of positions of the trace.
LEMMA OwbpWindow ==
  ASSUME OWBP!TraceAssumption, Proper(trace), pos \in 1..(Len(trace) + 1),
         ~(pos > Len(trace))
  PROVE  /\ OWBP!Window \subseteq (pos + 1)..Len(trace)
         /\ OWBP!BlockInWindow \in SUBSET Nat
         /\ BlockAhead \in 0..INF
<1>1. Len(trace) \in Nat /\ pos \in Nat /\ INF \in Nat \ {0}
  BY OwbpConstants, BlockConstants, BlockFront DEF TraceConstants
<1>2. OWBP!Window \subseteq (pos + 1)..Len(trace)
  BY DEF OWBP!Window
<1>3. OWBP!BlockInWindow \subseteq OWBP!Window
  BY DEF OWBP!BlockInWindow
<1>4. \A j \in OWBP!BlockInWindow : j \in 1..Len(trace) /\ j \in Nat
  BY <1>1, <1>2, <1>3
<1>5. BlockAhead \in 0..INF
  <2>1. CASE OWBP!BlockInWindow = {}
    BY <1>1, <2>1 DEF BlockAhead
  <2>2. CASE OWBP!BlockInWindow # {}
    <3> DEFINE j == Lowest(OWBP!BlockInWindow)
    <3>1. PICK x \in OWBP!BlockInWindow : TRUE
      BY <2>2
    <3>2. OWBP!BlockInWindow \in SUBSET Nat
      BY <1>4
    <3>3. j \in OWBP!BlockInWindow
      BY <3>1, <3>2, LowestIs
    <3>4. trace[j] \in Access
      BY <1>4, <3>3 DEF Proper
    <3>5. trace[j].lineNo \in 1..(INF - 1)
      BY <3>4 DEF Access
    <3>6. QED
      BY <1>1, <2>2, <3>5 DEF BlockAhead
  <2>3. QED
    BY <2>1, <2>2
<1>6. QED
  BY <1>2, <1>4, <1>5

\* The metadata of the current block are computed anew; its place is not.
LEMMA OwbpUpdated ==
  ASSUME OWBP!TraceAssumption, Proper(trace), pos \in 1..(Len(trace) + 1),
         ~(pos > Len(trace)), NEW s, OthersRight(s), NEW u, u = OWBP!Updated(s)
  PROVE  /\ OthersRight(u) /\ u.pages = s.pages /\ u.size = s.size
         /\ u.cold = [s.cold EXCEPT ![Current] =
                        IF OWBP!PageInWindow THEN @ \ {Front.fsblkno}
                        ELSE @ \cup {Front.fsblkno}]
         /\ u.dist = [s.dist EXCEPT ![Current] = BlockAhead]
<1> DEFINE k == Front.fsblkno
           cold == [s.cold EXCEPT ![Current] =
                      IF OWBP!PageInWindow THEN @ \ {k} ELSE @ \cup {k}]
           dist == [s.dist EXCEPT ![Current] = BlockAhead]
<1>1. Current \in BlockNumbers /\ k \in Page /\ BlockAhead \in 0..INF
  BY OwbpConstants, BlockFront, OwbpWindow
<1>2. /\ s = [pages |-> s.pages, cold |-> s.cold, dist |-> s.dist, heap |-> s.heap,
              pull |-> s.pull, size |-> s.size]
      /\ s.cold \in [BlockNumbers -> SUBSET Page] /\ s.dist \in [BlockNumbers -> 0..INF]
  BY DEF OthersRight, Shaped
<1>3. u = [pages |-> s.pages, cold |-> cold, dist |-> dist, heap |-> s.heap,
           pull |-> s.pull, size |-> s.size]
  <2>1. u = [s EXCEPT !.cold[Current] = IF OWBP!PageInWindow THEN @ \ {k}
                                        ELSE @ \cup {k},
                      !.dist[Current] = BlockAhead]
    BY OwbpOperators DEF OWBP!Updated, BlockAhead
  <2>2. QED
    BY <1>2, <2>1
<1>4. /\ cold \in [BlockNumbers -> SUBSET Page] /\ dist \in [BlockNumbers -> 0..INF]
      /\ \A b \in BlockNumbers :
           b # Current => cold[b] = s.cold[b] /\ dist[b] = s.dist[b]
  BY <1>1, <1>2
<1> HIDE DEF cold, dist
<1>5. /\ u.pages = s.pages /\ u.cold = cold /\ u.dist = dist /\ u.heap = s.heap
      /\ u.pull = s.pull /\ u.size = s.size
      /\ u = [pages |-> u.pages, cold |-> u.cold, dist |-> u.dist, heap |-> u.heap,
              pull |-> u.pull, size |-> u.size]
  BY <1>3
<1>6. Shaped(u)
  BY <1>4, <1>5 DEF OthersRight, Shaped
<1>7. ASSUME NEW b \in BlockNumbers, b # Current
      PROVE  Right(u, b)
  <2>1. Right(s, b)
    BY <1>7 DEF OthersRight
  <2>2. QED
    BY <1>4, <1>5, <1>7, <2>1, RightStays
<1>8. QED
  BY <1>5, <1>6, <1>7 DEF OthersRight, cold, dist

\* The cache as the invariant has it.
LEMMA OwbpCache ==
  ASSUME OwbpInv
  PROVE  /\ OWBP!cache.pages = pageSet /\ OWBP!cache.cold = coldPageSet
         /\ OWBP!cache.dist = distance /\ OWBP!cache.heap = coldHeap
         /\ OWBP!cache.pull = victimPull /\ OWBP!cache.size = currSize
         /\ OthersRight(OWBP!cache)
<1>1. OthersRight(OWBP!cache)
  BY DEF OwbpInv, OthersRight
<1>2. QED
  BY <1>1 DEF OWBP!cache

\* A full cache has a victim.
LEMMA OwbpVictim ==
  ASSUME OWBP!TraceAssumption, OWBP!OwbpAssumption, OwbpInv, currSize = Capacity
  PROVE  /\ OWBP!Victim \in BlockNumbers /\ pageSet[OWBP!Victim] # {}
         /\ victimPull # {} => /\ Lowest(victimPull) = OWBP!Victim
                               /\ OWBP!Victim \in victimPull
         /\ victimPull = {} => /\ Len(coldHeap) \in 1..Len(coldHeap)
                               /\ coldHeap[Len(coldHeap)].BlkID = OWBP!Victim
<1>1. /\ Shaped(OWBP!cache) /\ Capacity \in Nat \ {0} /\ IsFiniteSet(Page)
      /\ BlockNumbers \in SUBSET Nat
      /\ \A b \in BlockNumbers :
           b \in InHeap(coldHeap) \cup victimPull <=> pageSet[b] # {}
  BY OwbpCache, OwbpConstants, BlockConstants
     DEF OwbpInv, Right, OWBP!OwbpAssumption, TraceConstants
<1>2. /\ currSize = Cardinality(PagesOf(pageSet)) /\ coldHeap \in Seq(Meta)
      /\ victimPull \in SUBSET BlockNumbers
  BY <1>1, OwbpCache DEF Shaped
<1>3. CASE victimPull # {}
  <2>1. PICK x \in victimPull : TRUE
    BY <1>3
  <2>2. victimPull \in SUBSET Nat
    BY <1>1, <1>2
  <2>3. Lowest(victimPull) \in victimPull
    BY <2>1, <2>2, LowestIs
  <2>4. OWBP!Victim = Lowest(victimPull)
    BY <1>3, OwbpOperators DEF OWBP!Victim
  <2>5. QED
    BY <1>1, <1>2, <1>3, <2>3, <2>4
<1>4. CASE victimPull = {}
  <2>1. Nonempty(pageSet) # {}
    BY <1>1, <1>2, SomeBlock
  <2>2. InHeap(coldHeap) # {}
    BY <1>1, <1>4, <2>1 DEF Nonempty
  <2>3. Len(coldHeap) \in Nat /\ Len(coldHeap) \in 1..Len(coldHeap)
    BY <1>2, <2>2 DEF InHeap
  <2>4. OWBP!Victim = coldHeap[Len(coldHeap)].BlkID
    BY <1>4 DEF OWBP!Victim
  <2>5. OWBP!Victim \in InHeap(coldHeap) /\ OWBP!Victim \in BlockNumbers
    BY <1>2, <2>3, <2>4, MetaBlocks
  <2>6. QED
    BY <1>1, <1>4, <2>3, <2>4, <2>5
<1>5. QED
  BY <1>3, <1>4

\* There is room for a page, and the blocks that are left are as they were.
OwbpRoomy(s) ==
  /\ OthersRight(s) /\ s.size + 1 <= Capacity
  /\ \A b \in BlockNumbers : s.pages[b] \subseteq pageSet[b]
  /\ \A b \in BlockNumbers :
       s.pages[b] # {} \/ b = Current => s.cold[b] = coldPageSet[b]
  /\ s.dist = distance

\* The pages of a victim go.
LEMMA OwbpEmptied ==
  ASSUME OWBP!TraceAssumption, OWBP!OwbpAssumption, OwbpInv, currSize = Capacity,
         NEW B, B = [pageSet EXCEPT ![OWBP!Victim] = {}],
         NEW n, n = currSize - Cardinality(pageSet[OWBP!Victim])
  PROVE  /\ B \in [BlockNumbers -> SUBSET Page] /\ n = Cardinality(PagesOf(B))
         /\ n + 1 <= Capacity /\ B[OWBP!Victim] = {}
         /\ \A c \in BlockNumbers : c # OWBP!Victim => B[c] = pageSet[c]
         /\ \A c \in BlockNumbers : \A q \in B[c] : c = q \div ssd2fsblkRatio
<1> DEFINE b == OWBP!Victim
<1>1. /\ pageSet \in [BlockNumbers -> SUBSET Page] /\ IsFiniteSet(Page)
      /\ currSize = Cardinality(PagesOf(pageSet)) /\ Capacity \in Nat
      /\ \A c \in BlockNumbers : \A q \in pageSet[c] : c = q \div ssd2fsblkRatio
  BY OwbpCache, OwbpConstants, BlockConstants
     DEF OthersRight, Shaped, TraceConstants, OWBP!OwbpAssumption
<1>2. b \in BlockNumbers /\ pageSet[b] # {}
  BY OwbpVictim
<1> HIDE DEF b
<1>3. /\ Cardinality(PagesOf([pageSet EXCEPT ![b] = {}]))
           = Cardinality(PagesOf(pageSet)) - Cardinality(pageSet[b])
      /\ Cardinality(pageSet[b]) \in Nat /\ Cardinality(pageSet[b]) # 0
      /\ [pageSet EXCEPT ![b] = {}] \in [BlockNumbers -> SUBSET Page]
  BY <1>1, <1>2, BlockEmptied
<1>4. B = [pageSet EXCEPT ![b] = {}] /\ n = currSize - Cardinality(pageSet[b])
  BY DEF b
<1>5. n = Cardinality(PagesOf(B)) /\ n + 1 <= Capacity
  <2> DEFINE c == Cardinality(pageSet[b])
  <2>1. c \in Nat /\ c # 0 /\ n = currSize - c /\ currSize = Capacity
    BY <1>3, <1>4
  <2>2. n = Cardinality(PagesOf(B))
    BY <1>1, <1>3, <1>4
  <2> HIDE DEF c
  <2>3. n + 1 <= Capacity
    BY <1>1, <2>1
  <2>4. QED
    BY <2>2, <2>3
<1>6. /\ B[b] = {} /\ \A c \in BlockNumbers : c # b => B[c] = pageSet[c]
  BY <1>1, <1>2, <1>4
<1>7. \A c \in BlockNumbers : \A q \in B[c] : c = q \div ssd2fsblkRatio
  BY <1>1, <1>6
<1>8. QED
  BY <1>3, <1>4, <1>5, <1>6, <1>7 DEF b

\* What an eviction makes of the record of the cache.
LEMMA RecordEmptied ==
  ASSUME NEW b, NEW y, NEW r,
         r = [OWBP!cache EXCEPT !.size = @ - y, !.pages[b] = {}]
  PROVE  /\ r = [pages |-> [pageSet EXCEPT ![b] = {}], cold |-> coldPageSet,
                 dist |-> distance, heap |-> coldHeap, pull |-> victimPull,
                 size |-> currSize - y]
         /\ [r EXCEPT !.cold[b] = {}]
              = [pages |-> [pageSet EXCEPT ![b] = {}],
                 cold |-> [coldPageSet EXCEPT ![b] = {}], dist |-> distance,
                 heap |-> coldHeap, pull |-> victimPull, size |-> currSize - y]
<1> DEFINE q == OWBP!cache
           t == [q EXCEPT !.size = @ - y]
           B == [pageSet EXCEPT ![b] = {}]
<1>1. q = [pages |-> pageSet, cold |-> coldPageSet, dist |-> distance,
           heap |-> coldHeap, pull |-> victimPull, size |-> currSize]
  BY DEF OWBP!cache
<1> HIDE DEF q
<1>2. r = [t EXCEPT !.pages[b] = {}]
  BY DEF q
<1>3. t = [pages |-> pageSet, cold |-> coldPageSet, dist |-> distance,
           heap |-> coldHeap, pull |-> victimPull, size |-> currSize - y]
  BY <1>1
<1> HIDE DEF t
<1>4. [t EXCEPT !.pages[b] = {}]
        = [pages |-> B, cold |-> coldPageSet, dist |-> distance,
           heap |-> coldHeap, pull |-> victimPull, size |-> currSize - y]
  BY <1>3
<1> HIDE DEF B
<1>5. r = [pages |-> B, cold |-> coldPageSet, dist |-> distance,
           heap |-> coldHeap, pull |-> victimPull, size |-> currSize - y]
  BY <1>2, <1>4
<1>6. [r EXCEPT !.cold[b] = {}]
        = [pages |-> B, cold |-> [coldPageSet EXCEPT ![b] = {}], dist |-> distance,
           heap |-> coldHeap, pull |-> victimPull, size |-> currSize - y]
  <2> DEFINE n == currSize - y
             u == r
             C == [coldPageSet EXCEPT ![b] = {}]
  <2>1. u = [pages |-> B, cold |-> coldPageSet, dist |-> distance,
             heap |-> coldHeap, pull |-> victimPull, size |-> n]
    BY <1>5
  <2> HIDE DEF n, u
  <2>2. [u EXCEPT !.cold[b] = {}]
          = [pages |-> B, cold |-> C, dist |-> distance,
             heap |-> coldHeap, pull |-> victimPull, size |-> n]
    BY <2>1
  <2>3. QED
    BY <2>2 DEF n, u
<1>7. QED
  BY <1>5, <1>6 DEF B

\* A victim that is another block loses its place, too.
LEMMA OwbpEvictsOther ==
  ASSUME OWBP!TraceAssumption, OWBP!OwbpAssumption, OwbpInv, currSize = Capacity,
         ~(pos > Len(trace)), OWBP!Victim # Current
  PROVE  OwbpRoomy(OWBP!Evicted(OWBP!cache, Current))
<1> DEFINE b == OWBP!Victim
           s == OWBP!Evicted(OWBP!cache, Current)
           B == [pageSet EXCEPT ![b] = {}]
           n == currSize - Cardinality(pageSet[b])
           C == [coldPageSet EXCEPT ![b] = {}]
           f(h, p) == [pages |-> B, cold |-> C, dist |-> distance, heap |-> h,
                       pull |-> p, size |-> n]
<1>1. /\ b \in BlockNumbers
      /\ victimPull # {} => Lowest(victimPull) = b /\ b \in victimPull
      /\ victimPull = {} => /\ Len(coldHeap) \in 1..Len(coldHeap)
                            /\ coldHeap[Len(coldHeap)].BlkID = b
  BY OwbpVictim
<1>2. /\ B \in [BlockNumbers -> SUBSET Page] /\ n = Cardinality(PagesOf(B))
      /\ n + 1 <= Capacity /\ B[b] = {}
      /\ \A c \in BlockNumbers : c # b => B[c] = pageSet[c]
      /\ \A c \in BlockNumbers : \A q \in B[c] : c = q \div ssd2fsblkRatio
  BY OwbpEmptied
<1>3. /\ coldPageSet \in [BlockNumbers -> SUBSET Page]
      /\ distance \in [BlockNumbers -> 0..INF]
      /\ coldHeap \in Seq(Meta) /\ victimPull \in SUBSET BlockNumbers
      /\ OneFor(coldHeap, MetaBlock, InHeap(coldHeap))
      /\ InHeap(coldHeap) \cap victimPull = {}
  BY OwbpCache DEF OthersRight, Shaped
<1>4. /\ C \in [BlockNumbers -> SUBSET Page] /\ C[b] = {}
      /\ \A c \in BlockNumbers : c # b => C[c] = coldPageSet[c]
  BY <1>1, <1>3
<1>5. s = OWBP!VictimUnfiled(f(coldHeap, victimPull))
  <2> DEFINE y == OWBP!Cardinality(OWBP!cache.pages[b])
             r == [OWBP!cache EXCEPT !.size = @ - y, !.pages[b] = {}]
  <2>1. s = OWBP!VictimUnfiled([r EXCEPT !.cold[b] = {}])
    BY DEF OWBP!Evicted
  <2>2. y = Cardinality(pageSet[b])
    BY OwbpOperators DEF OWBP!cache
  <2> HIDE DEF y, b, s
  <2>3. [r EXCEPT !.cold[b] = {}]
          = [pages |-> B, cold |-> C, dist |-> distance, heap |-> coldHeap,
             pull |-> victimPull, size |-> currSize - y]
    <3> HIDE DEF r
    <3>1. r = [OWBP!cache EXCEPT !.size = @ - y, !.pages[b] = {}]
      BY DEF r
    <3>2. QED
      BY ONLY <3>1, RecordEmptied
  <2>4. QED
    BY <2>1, <2>2, <2>3
<1> HIDE DEF s, B, n, C, b
<1>6. ASSUME NEW h, NEW p, s = f(h, p), h \in Seq(Meta), p \in SUBSET BlockNumbers,
             OneFor(h, MetaBlock, InHeap(h)), InHeap(h) \cap p = {},
             InHeap(h) \cup p = (InHeap(coldHeap) \cup victimPull) \ {b},
             p \subseteq victimPull, InHeap(h) \subseteq InHeap(coldHeap),
             ListSet(h) \subseteq ListSet(coldHeap)
      PROVE  OwbpRoomy(s)
  <2>1. /\ s.pages = B /\ s.cold = C /\ s.dist = distance /\ s.size = n
        /\ s.heap = h /\ s.pull = p
        /\ s = [pages |-> s.pages, cold |-> s.cold, dist |-> s.dist, heap |-> s.heap,
                pull |-> s.pull, size |-> s.size]
    BY <1>6
  <2>2. Shaped(s)
    BY <1>2, <1>3, <1>4, <1>6, <2>1 DEF Shaped
  <2>3. ASSUME NEW c \in BlockNumbers, c # Current
        PROVE  Right(s, c)
    <3>1. Right(OWBP!cache, c)
      BY DEF OwbpInv
    <3>2. CASE c = b
      <4>1. c \notin InHeap(h) \cup p /\ s.pages[c] = {} /\ s.cold[c] = {}
        BY <1>2, <1>4, <1>6, <2>1, <3>2
      <4>2. \A e \in ListSet(h) : e.BlkID # c
        BY <4>1 DEF InHeap, ListSet
      <4>3. QED
        BY <2>1, <4>1, <4>2 DEF Right
    <3>3. CASE c # b
      <4>1. c \in InHeap(h) <=> c \in InHeap(coldHeap)
        BY <1>3, <1>6, <3>3
      <4>2. c \in p <=> c \in victimPull
        BY <1>3, <1>6, <3>3
      <4>3. /\ s.pages[c] = OWBP!cache.pages[c] /\ s.cold[c] = OWBP!cache.cold[c]
            /\ s.dist[c] = OWBP!cache.dist[c]
        BY <1>2, <1>4, <2>1, <3>3, OwbpCache
      <4>4. /\ c \in InHeap(s.heap) <=> c \in InHeap(OWBP!cache.heap)
            /\ c \in s.pull <=> c \in OWBP!cache.pull
            /\ \A e \in ListSet(s.heap) : e.BlkID = c => e \in ListSet(OWBP!cache.heap)
        BY <1>6, <2>1, <4>1, <4>2, OwbpCache
      <4>5. QED
        BY <3>1, <4>3, <4>4, RightStays
    <3>4. QED
      BY <3>2, <3>3
  <2>4. \A c \in BlockNumbers : s.pages[c] \subseteq pageSet[c]
    BY <1>2, <2>1
  <2>5. \A c \in BlockNumbers :
          s.pages[c] # {} \/ c = Current => s.cold[c] = coldPageSet[c]
    BY <1>2, <1>4, <2>1 DEF b
  <2>6. QED
    BY <1>2, <2>1, <2>2, <2>3, <2>4, <2>5 DEF OwbpRoomy, OthersRight
<1>7. CASE victimPull # {}
  <2> DEFINE p == victimPull \ {b}
  <2>1. s = f(coldHeap, p)
    BY <1>1, <1>5, <1>7, OwbpOperators DEF OWBP!VictimUnfiled
  <2>2. /\ p \in SUBSET BlockNumbers /\ InHeap(coldHeap) \cap p = {}
        /\ p \subseteq victimPull
        /\ InHeap(coldHeap) \cup p = (InHeap(coldHeap) \cup victimPull) \ {b}
    BY <1>1, <1>3, <1>7
  <2> HIDE DEF p, f
  <2>3. QED
    BY <1>3, <1>6, <2>1, <2>2 DEF s
<1>8. CASE victimPull = {}
  <2> DEFINE g == Without(coldHeap, Len(coldHeap))
  <2>1. s = f(g, victimPull)
    BY <1>5, <1>8, OwbpOperators DEF OWBP!VictimUnfiled
  <2>2. /\ g \in Seq(Meta) /\ OneFor(g, MetaBlock, InHeap(g))
        /\ InHeap(g) = InHeap(coldHeap) \ {b} /\ ListSet(g) \subseteq ListSet(coldHeap)
    BY <1>1, <1>3, <1>8, MetaTaken
  <2> HIDE DEF g, f
  <2>3. /\ InHeap(g) \cap victimPull = {} /\ InHeap(g) \subseteq InHeap(coldHeap)
        /\ InHeap(g) \cup victimPull = (InHeap(coldHeap) \cup victimPull) \ {b}
    BY <1>8, <2>2
  <2>4. QED
    BY <1>3, <1>6, <2>1, <2>2, <2>3 DEF s
<1>9. QED
  BY <1>7, <1>8 DEF s

\* A block that evicts itself keeps its place, and its cold pages.
LEMMA OwbpEvictsItself ==
  ASSUME OWBP!TraceAssumption, OWBP!OwbpAssumption, OwbpInv, currSize = Capacity,
         ~(pos > Len(trace)), OWBP!Victim = Current
  PROVE  OwbpRoomy(OWBP!Evicted(OWBP!cache, Current))
<1> DEFINE s == OWBP!Evicted(OWBP!cache, Current)
           B == [pageSet EXCEPT ![Current] = {}]
           n == currSize - Cardinality(pageSet[Current])
<1>1. /\ B \in [BlockNumbers -> SUBSET Page] /\ n = Cardinality(PagesOf(B))
      /\ n + 1 <= Capacity /\ B[Current] = {}
      /\ \A c \in BlockNumbers : c # Current => B[c] = pageSet[c]
      /\ \A c \in BlockNumbers : \A q \in B[c] : c = q \div ssd2fsblkRatio
  BY OwbpEmptied
<1>2. s = [pages |-> B, cold |-> coldPageSet, dist |-> distance, heap |-> coldHeap,
           pull |-> victimPull, size |-> n]
  <2> DEFINE y == OWBP!Cardinality(OWBP!cache.pages[Current])
             r == [OWBP!cache EXCEPT !.size = @ - y, !.pages[Current] = {}]
  <2>1. s = r
    BY DEF OWBP!Evicted
  <2>2. y = Cardinality(pageSet[Current])
    BY OwbpOperators DEF OWBP!cache
  <2> HIDE DEF y, s
  <2>3. r = [pages |-> B, cold |-> coldPageSet, dist |-> distance, heap |-> coldHeap,
             pull |-> victimPull, size |-> currSize - y]
    <3> HIDE DEF r
    <3>1. r = [OWBP!cache EXCEPT !.size = @ - y, !.pages[Current] = {}]
      BY DEF r
    <3>2. QED
      BY <3>1, RecordEmptied
  <2>4. QED
    BY <2>1, <2>2, <2>3
<1> HIDE DEF B, n
<1>3. /\ s.pages = B /\ s.cold = coldPageSet /\ s.dist = distance /\ s.size = n
      /\ s.heap = coldHeap /\ s.pull = victimPull
      /\ s = [pages |-> s.pages, cold |-> s.cold, dist |-> s.dist, heap |-> s.heap,
              pull |-> s.pull, size |-> s.size]
  BY <1>2
<1> HIDE DEF s
<1>4. Shaped(s)
  BY <1>1, <1>3, OwbpCache DEF OthersRight, Shaped
<1>5. ASSUME NEW c \in BlockNumbers, c # Current
      PROVE  Right(s, c)
  <2>1. Right(OWBP!cache, c)
    BY DEF OwbpInv
  <2>2. QED
    BY <1>1, <1>3, <1>5, <2>1, OwbpCache, RightStays
<1>6. \A c \in BlockNumbers : s.pages[c] \subseteq pageSet[c]
  BY <1>1, <1>3
<1>7. OwbpRoomy(s)
  BY <1>1, <1>3, <1>4, <1>5, <1>6 DEF OwbpRoomy, OthersRight
<1>8. QED
  BY <1>7 DEF s

\* An eviction, if the cache is full, makes room.
LEMMA OwbpRoom ==
  ASSUME OWBP!TraceAssumption, OWBP!OwbpAssumption, OwbpInv, ~(pos > Len(trace))
  PROVE  OwbpRoomy(OWBP!MadeRoom)
<1>1. CASE currSize = Capacity
  <2>1. OWBP!MadeRoom = OWBP!Evicted(OWBP!cache, Current)
    BY <1>1, OwbpOperators DEF OWBP!MadeRoom
  <2>2. QED
    BY <1>1, <2>1, OwbpEvictsOther, OwbpEvictsItself
<1>2. CASE currSize # Capacity
  <2>1. OWBP!MadeRoom = OWBP!cache
    BY <1>2 DEF OWBP!MadeRoom
  <2>2. currSize + 1 <= Capacity
    <3>1. /\ IsFiniteSet(Page) /\ Capacity \in Nat
          /\ currSize = Cardinality(PagesOf(pageSet))
      BY OwbpCache, OwbpConstants, BlockConstants
         DEF OthersRight, Shaped, TraceConstants, OWBP!OwbpAssumption
    <3>2. currSize \in Nat /\ currSize <= Capacity
      BY <3>1, PagesOfFinite DEF OwbpInv
    <3>3. QED
      BY <1>2, <3>1, <3>2
  <2>3. OwbpRoomy(OWBP!cache)
    BY <2>2, OwbpCache DEF OwbpRoomy
  <2>4. QED
    BY <2>1, <2>3
<1>3. QED
  BY <1>1, <1>2

\* What a write makes of the cache: the page is in it, the metadata of its block
\* are new, and every other block is as it was or has been evicted.
OwbpWritten(f) ==
  /\ Shaped(f) /\ \A b \in BlockNumbers : Right(f, b)
  /\ f.size <= Capacity
  /\ f.pages[Current] \subseteq pageSet[Current] \cup {Front.fsblkno}
  /\ f.cold[Current] = IF OWBP!PageInWindow THEN coldPageSet[Current] \ {Front.fsblkno}
                       ELSE coldPageSet[Current] \cup {Front.fsblkno}
  /\ \A b \in BlockNumbers : b # Current =>
       /\ f.pages[b] \subseteq pageSet[b]
       /\ f.pages[b] # {} => f.cold[b] = coldPageSet[b]
  /\ f.dist = [distance EXCEPT ![Current] = BlockAhead]

\* A page goes into the current block.
LEMMA OwbpPaged ==
  ASSUME OWBP!TraceAssumption, Proper(trace), pos \in 1..(Len(trace) + 1),
         ~(pos > Len(trace)), NEW s, OthersRight(s),
         Front.fsblkno \notin s.pages[Current], NEW r, r = OWBP!WithPage(s)
  PROVE  /\ OthersRight(r) /\ r.size = s.size + 1
         /\ r.pages = [s.pages EXCEPT ![Current] = @ \cup {Front.fsblkno}]
         /\ r.cold = s.cold /\ r.dist = s.dist
<1> DEFINE k == Front.fsblkno
           A == s.pages
           B == [A EXCEPT ![Current] = @ \cup {k}]
<1>1. /\ IsFiniteSet(Page) /\ Current \in BlockNumbers /\ k \in Page
      /\ Current = k \div ssd2fsblkRatio
  BY OwbpConstants, BlockConstants, BlockFront DEF TraceConstants
<1>2. /\ s = [pages |-> A, cold |-> s.cold, dist |-> s.dist, heap |-> s.heap,
              pull |-> s.pull, size |-> s.size]
      /\ A \in [BlockNumbers -> SUBSET Page] /\ s.size = Cardinality(PagesOf(A))
      /\ \A b \in BlockNumbers : \A q \in A[b] : b = q \div ssd2fsblkRatio
  BY DEF OthersRight, Shaped
<1>3. k \notin A[Current]
  OBVIOUS
<1>4. /\ r.pages = B /\ r.cold = s.cold /\ r.dist = s.dist /\ r.heap = s.heap
      /\ r.pull = s.pull /\ r.size = s.size + 1
      /\ r = [pages |-> r.pages, cold |-> r.cold, dist |-> r.dist, heap |-> r.heap,
              pull |-> r.pull, size |-> r.size]
  <2> DEFINE n == s.size + 1
             t == [s EXCEPT !.pages[Current] = @ \cup {k}]
  <2>1. r = [s EXCEPT !.pages[Current] = @ \cup {k}, !.size = @ + 1]
    BY OwbpOperators DEF OWBP!WithPage
  <2>2. r = [t EXCEPT !.size = n]
    BY <1>2, <2>1
  <2>3. t = [pages |-> B, cold |-> s.cold, dist |-> s.dist, heap |-> s.heap,
             pull |-> s.pull, size |-> s.size]
    <3> HIDE DEF B
    <3>1. t = [s EXCEPT !.pages = B]
      BY DEF B
    <3> HIDE DEF t, A
    <3>2. QED
      BY <1>2, <3>1
  <2> HIDE DEF t, n, B
  <2>4. r = [pages |-> B, cold |-> s.cold, dist |-> s.dist, heap |-> s.heap,
             pull |-> s.pull, size |-> n]
    BY <2>2, <2>3
  <2>5. QED
    BY <2>4 DEF n
<1> HIDE DEF A, k
<1>5. /\ Cardinality(PagesOf(B)) = Cardinality(PagesOf(A)) + 1
      /\ B \in [BlockNumbers -> SUBSET Page]
  BY <1>1, <1>2, <1>3, PageCounted
<1>6. \A b \in BlockNumbers : \A q \in B[b] : b = q \div ssd2fsblkRatio
  BY <1>1, <1>2
<1>7. \A b \in BlockNumbers : b # Current => B[b] = A[b]
  BY <1>2
<1> HIDE DEF B
<1>8. Shaped(r)
  BY <1>2, <1>4, <1>5, <1>6 DEF OthersRight, Shaped
<1>9. ASSUME NEW b \in BlockNumbers, b # Current
      PROVE  Right(r, b)
  <2>1. Right(s, b)
    BY <1>9 DEF OthersRight
  <2>2. r.pages[b] = s.pages[b]
    BY <1>4, <1>7, <1>9 DEF A
  <2>3. QED
    BY <1>4, <2>1, <2>2, RightStays
<1>10. QED
  BY <1>4, <1>8, <1>9 DEF OthersRight, A, B, k

\* A write that misses.
LEMMA OwbpWriteMiss ==
  ASSUME OWBP!TraceAssumption, OWBP!OwbpAssumption, OwbpInv, ~(pos > Len(trace)),
         Front.fsblkno \notin pageSet[Current]
  PROVE  OwbpWritten(OWBP!Filed(OWBP!Updated(OWBP!WithPage(OWBP!MadeRoom)), Current))
<1> DEFINE k == Front.fsblkno
           s == OWBP!MadeRoom
           r == OWBP!WithPage(s)
           u == OWBP!Updated(r)
           f == OWBP!Filed(u, Current)
<1> HIDE DEF s, r, u, f
<1>1. /\ Current \in BlockNumbers /\ IsFiniteSet(Page) /\ INF \in Nat
      /\ Proper(trace) /\ pos \in 1..(Len(trace) + 1)
  BY OwbpConstants, BlockConstants, BlockFront DEF OwbpInv, TraceConstants
<1>2. /\ OthersRight(s) /\ s.size + 1 <= Capacity
      /\ \A b \in BlockNumbers : s.pages[b] \subseteq pageSet[b]
      /\ \A b \in BlockNumbers :
           s.pages[b] # {} \/ b = Current => s.cold[b] = coldPageSet[b]
      /\ s.dist = distance
  BY OwbpRoom DEF OwbpRoomy, s
<1>3. k \notin s.pages[Current]
  BY <1>1, <1>2
<1>4. /\ OthersRight(r) /\ r.size = s.size + 1
      /\ r.pages = [s.pages EXCEPT ![Current] = @ \cup {k}]
      /\ r.cold = s.cold /\ r.dist = s.dist
  BY <1>1, <1>2, <1>3, OwbpPaged DEF r
<1>5. /\ OthersRight(u) /\ u.pages = r.pages /\ u.size = r.size
      /\ u.cold = [r.cold EXCEPT ![Current] =
                     IF OWBP!PageInWindow THEN @ \ {k} ELSE @ \cup {k}]
      /\ u.dist = [r.dist EXCEPT ![Current] = BlockAhead]
  BY <1>1, <1>4, OwbpUpdated DEF u
<1>6. /\ s.pages \in [BlockNumbers -> SUBSET Page]
      /\ s.cold \in [BlockNumbers -> SUBSET Page]
  BY <1>2 DEF OthersRight, Shaped
<1>7. u.pages[Current] = s.pages[Current] \cup {k}
  BY <1>1, <1>4, <1>5, <1>6
<1>8. u.pages[Current] # {}
  BY <1>7
<1>9. /\ Shaped(f) /\ \A b \in BlockNumbers : Right(f, b)
      /\ f.pages = u.pages /\ f.cold = u.cold /\ f.dist = u.dist /\ f.size = u.size
  BY <1>1, <1>5, <1>8, OwbpRefiled DEF f
<1>10. f.size <= Capacity
  BY <1>2, <1>4, <1>5, <1>9
<1>11. f.pages[Current] \subseteq pageSet[Current] \cup {k}
  BY <1>1, <1>2, <1>7, <1>9
<1>12. f.cold[Current] = IF OWBP!PageInWindow THEN coldPageSet[Current] \ {k}
                         ELSE coldPageSet[Current] \cup {k}
  <2>1. s.cold[Current] = coldPageSet[Current]
    BY <1>1, <1>2
  <2>2. f.cold = [s.cold EXCEPT ![Current] =
                    IF OWBP!PageInWindow THEN @ \ {k} ELSE @ \cup {k}]
    BY <1>4, <1>5, <1>9
  <2>3. QED
    BY <1>1, <1>6, <2>1, <2>2
<1>13. ASSUME NEW b \in BlockNumbers, b # Current
       PROVE  /\ f.pages[b] \subseteq pageSet[b]
              /\ f.pages[b] # {} => f.cold[b] = coldPageSet[b]
  <2>1. f.pages[b] = s.pages[b] /\ f.cold[b] = s.cold[b]
    BY <1>4, <1>5, <1>6, <1>9, <1>13
  <2>2. QED
    BY <1>2, <2>1
<1>14. f.dist = [distance EXCEPT ![Current] = BlockAhead]
  BY <1>2, <1>4, <1>5, <1>9
<1>15. OwbpWritten(f)
  BY <1>9, <1>10, <1>11, <1>12, <1>13, <1>14 DEF OwbpWritten, k
<1>16. QED
  BY <1>15 DEF f, u, r, s

\* A write that hits.
LEMMA OwbpWriteHit ==
  ASSUME OWBP!TraceAssumption, OWBP!OwbpAssumption, OwbpInv, ~(pos > Len(trace)),
         Front.fsblkno \in pageSet[Current]
  PROVE  OwbpWritten(OWBP!Filed(OWBP!Updated(OWBP!cache), Current))
<1> DEFINE k == Front.fsblkno
           s == OWBP!cache
           u == OWBP!Updated(s)
           f == OWBP!Filed(u, Current)
<1> HIDE DEF s, u, f
<1>1. /\ Current \in BlockNumbers /\ IsFiniteSet(Page) /\ INF \in Nat
      /\ Proper(trace) /\ pos \in 1..(Len(trace) + 1) /\ currSize <= Capacity
  BY OwbpConstants, BlockConstants, BlockFront DEF OwbpInv, TraceConstants
<1>2. /\ OthersRight(s) /\ s.size = currSize /\ s.pages = pageSet
      /\ s.cold = coldPageSet /\ s.dist = distance
  BY OwbpCache DEF s
<1>3. /\ OthersRight(u) /\ u.pages = s.pages /\ u.size = s.size
      /\ u.cold = [s.cold EXCEPT ![Current] =
                     IF OWBP!PageInWindow THEN @ \ {k} ELSE @ \cup {k}]
      /\ u.dist = [s.dist EXCEPT ![Current] = BlockAhead]
  BY <1>1, <1>2, OwbpUpdated DEF u
<1>4. u.pages[Current] # {}
  BY <1>2, <1>3
<1>5. /\ Shaped(f) /\ \A b \in BlockNumbers : Right(f, b)
      /\ f.pages = u.pages /\ f.cold = u.cold /\ f.dist = u.dist /\ f.size = u.size
  BY <1>1, <1>3, <1>4, OwbpRefiled DEF f
<1>6. coldPageSet \in [BlockNumbers -> SUBSET Page]
  BY <1>2 DEF OthersRight, Shaped
<1>7. /\ f.pages = pageSet /\ f.size = currSize
      /\ f.cold = [coldPageSet EXCEPT ![Current] =
                     IF OWBP!PageInWindow THEN @ \ {k} ELSE @ \cup {k}]
      /\ f.dist = [distance EXCEPT ![Current] = BlockAhead]
  BY <1>2, <1>3, <1>5
<1>8. f.cold[Current] = IF OWBP!PageInWindow THEN coldPageSet[Current] \ {k}
                        ELSE coldPageSet[Current] \cup {k}
  BY <1>1, <1>6, <1>7
<1>9. \A b \in BlockNumbers : b # Current => f.cold[b] = coldPageSet[b]
  BY <1>6, <1>7
<1>10. OwbpWritten(f)
  BY <1>1, <1>5, <1>7, <1>8, <1>9 DEF OwbpWritten, k
<1>11. QED
  BY <1>10 DEF f, u, s

\* The invariant of the next state, in terms of this state's trace.
LEMMA OwbpInvNext ==
  ASSUME trace' = trace, Proper(trace), pos' \in 1..(Len(trace) + 1),
         NEW f, OWBP!Become(f), Shaped(f), \A b \in BlockNumbers : Right(f, b),
         f.size <= Capacity
  PROVE  OwbpInv'
<1>1. Proper(trace)'
  BY DEF Proper, Ordered
<1>2. OWBP!cache' = f
  <2>1. f = [pages |-> f.pages, cold |-> f.cold, dist |-> f.dist, heap |-> f.heap,
             pull |-> f.pull, size |-> f.size]
    BY DEF Shaped
  <2>2. OWBP!cache' = [pages |-> f.pages, cold |-> f.cold, dist |-> f.dist,
                       heap |-> f.heap, pull |-> f.pull, size |-> f.size]
    BY DEF OWBP!cache, OWBP!Become
  <2>3. QED
    BY <2>1, <2>2
<1> DEFINE s == OWBP!cache
<1>3. Shaped(OWBP!cache)'
  <2>1. /\ (s = [pages |-> s.pages, cold |-> s.cold, dist |-> s.dist, heap |-> s.heap,
                 pull |-> s.pull, size |-> s.size])'
        /\ (s.pages \in [BlockNumbers -> SUBSET Page])'
        /\ (s.cold \in [BlockNumbers -> SUBSET Page])'
        /\ (s.dist \in [BlockNumbers -> 0..INF])'
        /\ (s.heap \in Seq(Meta))' /\ (s.pull \in SUBSET BlockNumbers)'
        /\ (\A b \in BlockNumbers : \A q \in s.pages[b] : b = q \div ssd2fsblkRatio)'
    BY <1>2 DEF Shaped
  <2>2. (s.size = Cardinality(PagesOf(s.pages)))'
    BY <1>2 DEF Shaped, PagesOf
  <2>3. (InHeap(s.heap) \cap s.pull = {})'
    BY <1>2 DEF Shaped, InHeap
  <2>4. OneFor(s.heap, MetaBlock, InHeap(s.heap))'
    <3>1. OneFor(f.heap, MetaBlock, InHeap(f.heap))
      BY DEF Shaped
    <3> HIDE DEF s
    <3>2. s' = f
      BY <1>2 DEF s
    <3>3. QED
      BY <3>1, <3>2 DEF OneFor, InHeap
  <2>5. QED
    BY <2>1, <2>2, <2>3, <2>4 DEF Shaped
<1>4. (\A b \in BlockNumbers : Right(OWBP!cache, b))'
  BY <1>2 DEF Right, InHeap, MetaOf, ListSet
<1>5. currSize' <= Capacity
  BY DEF OWBP!Become
<1>6. QED
  BY <1>1, <1>3, <1>4, <1>5 DEF OwbpInv

\* The front of the trace moves on.
LEMMA OwbpPops ==
  ASSUME OwbpInv, ~(pos > Len(trace)), OWBP!PopFront
  PROVE  /\ trace' = trace /\ Proper(trace) /\ pos' = pos + 1
         /\ pos' \in 1..(Len(trace) + 1)
<1>1. Len(trace) \in Nat /\ Proper(trace) /\ pos \in 1..(Len(trace) + 1)
  BY DEF OwbpInv, Proper
<1>2. trace' = trace /\ pos' = pos + 1
  BY DEF OWBP!PopFront
<1>3. QED
  BY <1>1, <1>2

\* Every step of the policy keeps the invariant.
LEMMA OwbpKeeps ==
  ASSUME OWBP!TraceAssumption, OWBP!OwbpAssumption, OwbpInv, OWBP!access
  PROVE  OwbpInv'
<1>1. CASE OWBP!Read
  <2>1. OWBP!PopFront /\ ~(pos > Len(trace))
    BY <1>1 DEF OWBP!Read, OWBP!Finished
  <2>2. OWBP!Become(OWBP!cache)
    BY <1>1 DEF OWBP!Read, OWBP!Become, OWBP!cache
  <2>3. /\ Shaped(OWBP!cache) /\ \A b \in BlockNumbers : Right(OWBP!cache, b)
        /\ OWBP!cache.size <= Capacity
    BY OwbpCache DEF OwbpInv
  <2>4. QED
    BY <2>1, <2>2, <2>3, OwbpPops, OwbpInvNext
<1>2. CASE OWBP!WriteMiss
  <2> DEFINE f == OWBP!Filed(OWBP!Updated(OWBP!WithPage(OWBP!MadeRoom)), Current)
  <2>1. /\ OWBP!PopFront /\ ~(pos > Len(trace)) /\ OWBP!Become(f)
        /\ Front.fsblkno \notin pageSet[Current]
    BY <1>2, OwbpOperators DEF OWBP!WriteMiss, OWBP!Finished
  <2>2. OwbpWritten(f)
    BY <2>1, OwbpWriteMiss
  <2> HIDE DEF f
  <2>3. Shaped(f) /\ (\A b \in BlockNumbers : Right(f, b)) /\ f.size <= Capacity
    BY <2>2 DEF OwbpWritten
  <2>4. QED
    BY <2>1, <2>3, OwbpPops, OwbpInvNext
<1>3. CASE OWBP!WriteHit
  <2> DEFINE f == OWBP!Filed(OWBP!Updated(OWBP!cache), Current)
  <2>1. /\ OWBP!PopFront /\ ~(pos > Len(trace)) /\ OWBP!Become(f)
        /\ Front.fsblkno \in pageSet[Current]
    BY <1>3, OwbpOperators DEF OWBP!WriteHit, OWBP!Finished
  <2>2. OwbpWritten(f)
    BY <2>1, OwbpWriteHit
  <2> HIDE DEF f
  <2>3. Shaped(f) /\ (\A b \in BlockNumbers : Right(f, b)) /\ f.size <= Capacity
    BY <2>2 DEF OwbpWritten
  <2>4. QED
    BY <2>1, <2>3, OwbpPops, OwbpInvNext
<1>4. QED
  BY <1>1, <1>2, <1>3 DEF OWBP!access

\* The invariant holds of the empty cache.
LEMMA OwbpStart ==
  ASSUME OWBP!TraceAssumption, OWBP!OwbpAssumption, OWBP!Init
  PROVE  OwbpInv
<1>1. Capacity \in Nat \ {0} /\ INF \in Nat
  BY OwbpConstants, BlockConstants DEF OWBP!OwbpAssumption, TraceConstants
<1>2. Proper(trace) /\ pos = 1
  BY OwbpConstants DEF OWBP!Init, OWBP!TraceInit
<1>3. pos \in 1..(Len(trace) + 1)
  <2>1. Len(trace) \in Nat
    BY <1>2 DEF Proper
  <2>2. QED
    BY <1>2, <2>1
<1>4. /\ pageSet = [b \in BlockNumbers |-> {}]
      /\ coldPageSet = [b \in BlockNumbers |-> {}]
      /\ distance = [b \in BlockNumbers |-> 0] /\ coldHeap = <<>> /\ victimPull = {}
      /\ currSize = 0
  BY OwbpOperators DEF OWBP!Init
<1> DEFINE s == OWBP!cache
<1>5. /\ s.pages = pageSet /\ s.cold = coldPageSet /\ s.dist = distance
      /\ s.heap = coldHeap /\ s.pull = victimPull /\ s.size = currSize
      /\ s = [pages |-> s.pages, cold |-> s.cold, dist |-> s.dist, heap |-> s.heap,
              pull |-> s.pull, size |-> s.size]
  BY DEF OWBP!cache
<1> HIDE DEF s
<1>6. /\ s.heap \in Seq(Meta) /\ InHeap(s.heap) = {} /\ ListSet(s.heap) = {}
      /\ OneFor(s.heap, MetaBlock, InHeap(s.heap))
  BY <1>4, <1>5 DEF InHeap, ListSet, OneFor
<1>7. s.size = Cardinality(PagesOf(s.pages))
  <2>1. PagesOf(s.pages) = {}
    BY <1>4, <1>5 DEF PagesOf
  <2>2. QED
    BY <1>4, <1>5, <2>1, FS_EmptySet
<1>8. /\ s.pages \in [BlockNumbers -> SUBSET Page]
      /\ s.cold \in [BlockNumbers -> SUBSET Page]
      /\ s.dist \in [BlockNumbers -> 0..INF] /\ s.pull = {}
      /\ \A b \in BlockNumbers : s.pages[b] = {} /\ s.cold[b] = {}
  BY <1>1, <1>4, <1>5
<1>9. Shaped(s)
  BY <1>5, <1>6, <1>7, <1>8 DEF Shaped
<1>10. \A b \in BlockNumbers : Right(s, b)
  BY <1>6, <1>8 DEF Right
<1>11. QED
  BY <1>1, <1>2, <1>3, <1>4, <1>9, <1>10 DEF OwbpInv, s

\* What the invariant means for MCLookAhead.
LEMMA OwbpInvImplies ==
  ASSUME OWBP!TraceAssumption, OWBP!OwbpAssumption, OwbpInv
  PROVE  OWBP!TypeOK /\ OWBP!PagesCounted /\ OWBP!FiledOnce
<1>1. /\ Proper(trace) /\ pos \in 1..(Len(trace) + 1) /\ currSize <= Capacity
      /\ IsFiniteSet(Page) /\ Capacity \in Nat
  BY OwbpConstants, BlockConstants DEF OwbpInv, TraceConstants, OWBP!OwbpAssumption
<1>2. /\ pageSet \in [BlockNumbers -> SUBSET Page]
      /\ coldPageSet \in [BlockNumbers -> SUBSET Page]
      /\ distance \in [BlockNumbers -> 0..INF] /\ coldHeap \in Seq(Meta)
      /\ victimPull \in SUBSET BlockNumbers /\ currSize = Cardinality(PagesOf(pageSet))
      /\ OneFor(coldHeap, MetaBlock, InHeap(coldHeap))
      /\ InHeap(coldHeap) \cap victimPull = {}
  BY OwbpCache DEF OthersRight, Shaped
<1>3. ASSUME NEW b \in BlockNumbers
      PROVE  /\ b \in InHeap(coldHeap) \cup victimPull <=> pageSet[b] # {}
             /\ pageSet[b] = {} => coldPageSet[b] = {}
             /\ b \in victimPull => distance[b] = INF
             /\ \A e \in ListSet(coldHeap) : e.BlkID = b =>
                  e = MetaOf(OWBP!cache, b) /\ distance[b] # INF
  <2>1. Right(OWBP!cache, b)
    BY DEF OwbpInv
  <2>2. QED
    BY <2>1, OwbpCache DEF Right
<1>4. OWBP!InHeap = InHeap(coldHeap) /\ DOMAIN coldHeap = 1..Len(coldHeap)
  <2>1. DOMAIN coldHeap = 1..Len(coldHeap)
    BY <1>2
  <2>2. QED
    BY <2>1 DEF OWBP!InHeap, InHeap
<1>5. InHeap(coldHeap) \subseteq BlockNumbers
  BY <1>2, MetaBlocks
<1>6. OWBP!Cached = Nonempty(pageSet)
  BY OwbpOperators DEF OWBP!Cached, Nonempty
<1>7. OWBP!TypeOK
  <2>1. currSize \in Nat
    BY <1>1, <1>2, PagesOfFinite
  <2>2. currSize \in 0..Capacity
    BY <1>1, <2>1
  <2>3. QED
    BY <1>1, <1>2, <1>4, <1>5, <2>2, OwbpOperators DEF OWBP!TypeOK
<1>8. OWBP!PagesCounted
  <2>1. PagesOf(pageSet) = {x \in OWBP!Block \X Page : x[2] \in pageSet[x[1]]}
    BY OwbpOperators DEF PagesOf
  <2>2. \A b \in OWBP!Block \ OWBP!Cached : coldPageSet[b] = {}
    BY <1>3, <1>6, OwbpOperators DEF Nonempty
  <2>3. QED
    BY <1>2, <2>1, <2>2, OwbpOperators DEF OWBP!PagesCounted
<1>9. OWBP!FiledOnce
  <2>1. InHeap(coldHeap) \cup victimPull = Nonempty(pageSet)
    BY <1>2, <1>3, <1>5 DEF Nonempty
  <2>2. Cardinality(InHeap(coldHeap)) = Len(coldHeap)
    BY <1>2, OneForCounts
  <2>3. ASSUME NEW i \in DOMAIN coldHeap
        PROVE  /\ coldHeap[i] = OWBP!meta(OWBP!cache, coldHeap[i].BlkID)
               /\ coldHeap[i].distance # INF
    <3> DEFINE e == coldHeap[i]
    <3>1. e \in ListSet(coldHeap) /\ e.BlkID \in BlockNumbers
      BY <1>2, <1>4, <1>5 DEF ListSet, InHeap
    <3> HIDE DEF e
    <3>2. e = MetaOf(OWBP!cache, e.BlkID) /\ distance[e.BlkID] # INF
      BY <1>3, <3>1
    <3>3. e.distance = distance[e.BlkID]
      BY <3>2, OwbpCache DEF MetaOf
    <3>4. QED
      BY <3>2, <3>3, OwbpOperators DEF e
  <2>4. QED
    BY <1>2, <1>3, <1>4, <1>6, <2>1, <2>2, <2>3, OwbpOperators DEF OWBP!FiledOnce
<1>10. QED
  BY <1>7, <1>8, <1>9

\* While only writes are buffered, what the metadata say of the future comes true.
AllWrites == \A i \in 1..Len(trace) : trace[i].op = "WRITE"
Again(q, p) == \E i \in p..Len(trace) : trace[i].fsblkno = q
Foresees(pages, cold, dist, p) ==
  \A b \in BlockNumbers : pages[b] # {} =>
    /\ dist[b] # INF => dist[b] = NextLine(BlocksAt(b), p)
    /\ \A q \in pages[b] \ cold[b] : Again(q, p)

OwbpForesight == AllWrites => Foresees(pageSet, coldPageSet, distance, pos)

\* The window has no gaps, so the first access in it is the next one.
LEMMA OwbpAhead ==
  ASSUME OWBP!TraceAssumption, Proper(trace), pos \in 1..(Len(trace) + 1),
         ~(pos > Len(trace))
  PROVE  /\ BlockAhead # INF => BlockAhead = NextLine(BlocksAt(Current), pos + 1)
         /\ OWBP!PageInWindow => Again(Front.fsblkno, pos + 1)
<1> DEFINE J == OWBP!BlockInWindow
           j == Lowest(J)
           F == From(BlocksAt(Current), pos + 1)
<1>1. /\ Len(trace) \in Nat /\ pos \in Nat
      /\ BlocksAt(Current) \in SUBSET (1..Len(trace))
  BY OwbpConstants, BlockFront
<1>2. OWBP!Window \subseteq (pos + 1)..Len(trace) /\ J \in SUBSET Nat
  BY OwbpWindow
<1>3. \A x : x \in J <=> x \in OWBP!Window /\ trace[x].ssdblkno = Current
  BY OwbpOperators DEF OWBP!BlockInWindow
<1> HIDE DEF J
<1>4. ASSUME BlockAhead # INF
      PROVE  BlockAhead = NextLine(BlocksAt(Current), pos + 1)
  <2>1. J # {} /\ BlockAhead = trace[j].lineNo
    BY <1>4 DEF BlockAhead, J
  <2>2. PICK y \in J : TRUE
    BY <2>1
  <2>3. j \in J /\ \A x \in J : j <= x
    BY <1>2, <2>2, LowestIs
  <2> HIDE DEF j
  <2>4. j \in OWBP!Window /\ trace[j].ssdblkno = Current
    BY <1>3, <2>3
  <2>5. j \in (pos + 1)..Len(trace) /\ \A i \in (pos + 1)..(j - 1) : ~OWBP!Stops(i)
    BY <2>4 DEF OWBP!Window
  <2>6. F \in SUBSET Nat
    BY <1>1, FromIs
  <2>7. j \in F
    <3>1. j \in 1..Len(trace) /\ pos + 1 <= j
      BY <1>1, <2>5
    <3>2. QED
      BY <2>4, <3>1 DEF From, BlocksAt
  <2>8. ASSUME NEW x \in F
        PROVE  j <= x
    <3>1. x \in Nat /\ x \in (pos + 1)..Len(trace) /\ trace[x].ssdblkno = Current
      BY <1>1, <2>6 DEF From, BlocksAt
    <3>2. SUFFICES ASSUME x < j PROVE FALSE
      BY <1>1, <2>5, <3>1
    <3>3. \A i \in (pos + 1)..(x - 1) : ~OWBP!Stops(i)
      <4>1. \A i \in (pos + 1)..(x - 1) : i \in (pos + 1)..(j - 1)
        BY <1>1, <2>5, <3>1, <3>2
      <4>2. QED
        BY <2>5, <4>1
    <3>4. x \in OWBP!Window
      BY <3>1, <3>3 DEF OWBP!Window
    <3>5. j <= x
      BY <1>3, <2>3, <3>1, <3>4
    <3>6. QED
      BY <1>1, <2>5, <3>1, <3>2, <3>5
  <2> HIDE DEF F
  <2>9. Lowest(F) = j
    BY <2>6, <2>7, <2>8, LowestIs
  <2>10. NextLine(BlocksAt(Current), pos + 1) = trace[j].lineNo
    BY <2>7, <2>9 DEF NextLine, F
  <2>11. QED
    BY <2>1, <2>10 DEF j
<1>5. ASSUME OWBP!PageInWindow
      PROVE  Again(Front.fsblkno, pos + 1)
  <2>1. PICK x \in OWBP!Window : trace[x].fsblkno = Front.fsblkno
    BY <1>5, OwbpOperators DEF OWBP!PageInWindow
  <2>2. x \in (pos + 1)..Len(trace)
    BY <1>2
  <2>3. QED
    BY <2>1, <2>2 DEF Again
<1>6. QED
  BY <1>4, <1>5

\* What another page does again, it does behind the front.
LEMMA OwbpAgain ==
  ASSUME OWBP!TraceAssumption, Proper(trace), pos \in 1..(Len(trace) + 1),
         ~(pos > Len(trace)), NEW q, q # Front.fsblkno, Again(q, pos)
  PROVE  Again(q, pos + 1)
<1>1. PICK i \in pos..Len(trace) : trace[i].fsblkno = q
  BY DEF Again
<1>2. Len(trace) \in Nat /\ pos \in Nat
  BY OwbpConstants, BlockFront
<1>3. i # pos
  BY <1>1 DEF Front
<1>4. i \in (pos + 1)..Len(trace)
  BY <1>2, <1>3
<1>5. QED
  BY <1>1, <1>4 DEF Again

\* A write keeps the metadata true.
LEMMA OwbpWriteForesees ==
  ASSUME OWBP!TraceAssumption, OwbpInv, ~(pos > Len(trace)),
         Foresees(pageSet, coldPageSet, distance, pos), NEW f, OwbpWritten(f)
  PROVE  Foresees(f.pages, f.cold, f.dist, pos + 1)
<1> DEFINE k == Front.fsblkno
<1>1. /\ Proper(trace) /\ pos \in 1..(Len(trace) + 1) /\ pos \in Nat
      /\ Current \in BlockNumbers /\ Current = k \div ssd2fsblkRatio
      /\ \A b \in BlockNumbers : BlocksAt(b) \in SUBSET (1..Len(trace))
      /\ \A b \in BlockNumbers : b # Current => pos \notin BlocksAt(b)
  BY OwbpConstants, BlockFront DEF OwbpInv
<1>2. /\ distance \in [BlockNumbers -> 0..INF]
      /\ \A b \in BlockNumbers : \A q \in pageSet[b] : b = q \div ssd2fsblkRatio
  BY OwbpCache DEF OthersRight, Shaped
<1>3. /\ f.pages[Current] \subseteq pageSet[Current] \cup {k}
      /\ f.cold[Current] = IF OWBP!PageInWindow THEN coldPageSet[Current] \ {k}
                           ELSE coldPageSet[Current] \cup {k}
      /\ \A b \in BlockNumbers : b # Current =>
           /\ f.pages[b] \subseteq pageSet[b]
           /\ f.pages[b] # {} => f.cold[b] = coldPageSet[b]
      /\ f.dist = [distance EXCEPT ![Current] = BlockAhead]
  BY DEF OwbpWritten
<1> HIDE DEF k
<1>4. ASSUME NEW b \in BlockNumbers, b # Current, f.pages[b] # {}
      PROVE  /\ f.dist[b] # INF => f.dist[b] = NextLine(BlocksAt(b), pos + 1)
             /\ \A q \in f.pages[b] \ f.cold[b] : Again(q, pos + 1)
  <2>1. pageSet[b] # {} /\ f.dist[b] = distance[b] /\ f.cold[b] = coldPageSet[b]
    BY <1>2, <1>3, <1>4
  <2>2. distance[b] # INF => distance[b] = NextLine(BlocksAt(b), pos)
    BY <2>1 DEF Foresees
  <2>3. NextLine(BlocksAt(b), pos + 1) = NextLine(BlocksAt(b), pos)
    BY <1>1, <1>4, NextLineMoves
  <2>4. ASSUME NEW q \in f.pages[b] \ f.cold[b]
        PROVE  Again(q, pos + 1)
    <3>1. q \in pageSet[b] \ coldPageSet[b]
      BY <1>3, <1>4, <2>1
    <3>2. Again(q, pos)
      BY <2>1, <3>1 DEF Foresees
    <3>3. q # k
      BY <1>1, <1>2, <1>4, <3>1
    <3>4. QED
      BY <1>1, <3>2, <3>3, OwbpAgain DEF k
  <2>5. QED
    BY <2>1, <2>2, <2>3, <2>4
<1>5. f.dist[Current] # INF => f.dist[Current] = NextLine(BlocksAt(Current), pos + 1)
  <2>1. f.dist[Current] = BlockAhead
    BY <1>1, <1>2, <1>3
  <2>2. QED
    BY <1>1, <2>1, OwbpAhead
<1>6. ASSUME NEW q \in f.pages[Current] \ f.cold[Current]
      PROVE  Again(q, pos + 1)
  <2>1. CASE q = k
    <3>1. OWBP!PageInWindow
      BY <1>3, <1>6, <2>1
    <3>2. QED
      BY <1>1, <2>1, <3>1, OwbpAhead DEF k
  <2>2. CASE q # k
    <3>1. q \in pageSet[Current] \ coldPageSet[Current]
      BY <1>3, <1>6, <2>2
    <3>2. Again(q, pos)
      BY <1>1, <3>1 DEF Foresees
    <3>3. QED
      BY <1>1, <2>2, <3>2, OwbpAgain DEF k
  <2>3. QED
    BY <2>1, <2>2
<1>7. QED
  BY <1>4, <1>5, <1>6 DEF Foresees

\* The foresight of the next state, in terms of this state's trace.
LEMMA OwbpForesightNext ==
  ASSUME trace' = trace, NEW p, pos' = p, NEW f, OWBP!Become(f),
         AllWrites => Foresees(f.pages, f.cold, f.dist, p)
  PROVE  OwbpForesight'
<1>1. AllWrites' <=> AllWrites
  BY DEF AllWrites
<1>2. SUFFICES ASSUME Foresees(f.pages, f.cold, f.dist, p)
               PROVE  Foresees(pageSet, coldPageSet, distance, pos)'
  BY <1>1 DEF OwbpForesight
<1>3. pageSet' = f.pages /\ coldPageSet' = f.cold /\ distance' = f.dist
  BY DEF OWBP!Become
<1>4. \A b : NextLine(BlocksAt(b), pos)' = NextLine(BlocksAt(b), p)
  BY DEF NextLine, From, BlocksAt
<1>5. \A q : Again(q, pos)' <=> Again(q, p)
  BY DEF Again
<1>6. QED
  BY <1>2, <1>3, <1>4, <1>5 DEF Foresees

\* Every step of the policy keeps the metadata true.
LEMMA OwbpKeepsForesight ==
  ASSUME OWBP!TraceAssumption, OWBP!OwbpAssumption, OwbpInv, OwbpForesight, OWBP!access
  PROVE  OwbpForesight'
<1>1. CASE OWBP!Read
  <2>1. /\ OWBP!PopFront /\ ~(pos > Len(trace)) /\ Front.op = "READ"
        /\ OWBP!Become(OWBP!cache)
    BY <1>1 DEF OWBP!Read, OWBP!Finished, OWBP!Front, Front, OWBP!Become, OWBP!cache
  <2>2. pos \in 1..Len(trace)
    BY <2>1, OwbpConstants, BlockFront DEF OwbpInv
  <2>3. ~AllWrites
    BY <2>1, <2>2 DEF AllWrites, Front
  <2>4. QED
    BY <2>1, <2>3, OwbpForesightNext DEF OWBP!PopFront
<1>2. ASSUME NEW f, OwbpWritten(f), OWBP!Become(f), OWBP!PopFront, ~(pos > Len(trace))
      PROVE  OwbpForesight'
  <2>1. AllWrites => Foresees(f.pages, f.cold, f.dist, pos + 1)
    BY <1>2, OwbpWriteForesees DEF OwbpForesight
  <2>2. QED
    BY <1>2, <2>1, OwbpForesightNext DEF OWBP!PopFront
<1>3. CASE OWBP!WriteMiss
  <2> DEFINE f == OWBP!Filed(OWBP!Updated(OWBP!WithPage(OWBP!MadeRoom)), Current)
  <2>1. /\ OWBP!PopFront /\ ~(pos > Len(trace)) /\ OWBP!Become(f)
        /\ Front.fsblkno \notin pageSet[Current]
    BY <1>3, OwbpOperators DEF OWBP!WriteMiss, OWBP!Finished
  <2>2. OwbpWritten(f)
    BY <2>1, OwbpWriteMiss
  <2> HIDE DEF f
  <2>3. QED
    BY <1>2, <2>1, <2>2
<1>4. CASE OWBP!WriteHit
  <2> DEFINE f == OWBP!Filed(OWBP!Updated(OWBP!cache), Current)
  <2>1. /\ OWBP!PopFront /\ ~(pos > Len(trace)) /\ OWBP!Become(f)
        /\ Front.fsblkno \in pageSet[Current]
    BY <1>4, OwbpOperators DEF OWBP!WriteHit, OWBP!Finished
  <2>2. OwbpWritten(f)
    BY <2>1, OwbpWriteHit
  <2> HIDE DEF f
  <2>3. QED
    BY <1>2, <2>1, <2>2
<1>5. QED
  BY <1>1, <1>3, <1>4 DEF OWBP!access

\* Nothing is foreseen of an empty cache.
LEMMA OwbpStartForesight ==
  ASSUME OWBP!Init
  PROVE  OwbpForesight
<1>1. \A b \in BlockNumbers : pageSet[b] = {}
  BY OwbpOperators DEF OWBP!Init
<1>2. QED
  BY <1>1 DEF OwbpForesight, Foresees

\* What the foresight means for MCLookAhead.
LEMMA OwbpForesightImplies ==
  ASSUME OWBP!TraceAssumption, OwbpInv, OwbpForesight
  PROVE  OWBP!MetadataStaysTrue
<1>1. /\ Proper(trace) /\ pos \in 1..(Len(trace) + 1) /\ Len(trace) \in Nat
      /\ DOMAIN trace = 1..Len(trace)
  BY DEF OwbpInv, Proper
<1>2. OWBP!Cached = Nonempty(pageSet)
  BY OwbpOperators DEF OWBP!Cached, Nonempty
<1>3. ASSUME NEW b
      PROVE  OWBP!TrueNext(LAMBDA a : a.ssdblkno, b) = NextLine(BlocksAt(b), pos)
  <2>1. {i \in pos..Len(trace) : trace[i].ssdblkno = b} = From(BlocksAt(b), pos)
    BY <1>1 DEF From, BlocksAt
  <2>2. QED
    BY <2>1, OwbpOperators DEF OWBP!TrueNext, NextLine
<1>4. SUFFICES ASSUME \A i \in DOMAIN trace : trace[i].op = "WRITE",
                      NEW b \in Nonempty(pageSet)
               PROVE  /\ distance[b] # INF =>
                           distance[b] = OWBP!TrueNext(LAMBDA a : a.ssdblkno, b)
                      /\ \A q \in pageSet[b] \ coldPageSet[b] :
                           \E i \in pos..Len(trace) : trace[i].fsblkno = q
  BY <1>2 DEF OWBP!MetadataStaysTrue
<1>5. Foresees(pageSet, coldPageSet, distance, pos)
  BY <1>1, <1>4 DEF OwbpForesight, AllWrites
<1>6. b \in BlockNumbers /\ pageSet[b] # {}
  BY DEF Nonempty
<1>7. QED
  BY <1>3, <1>5, <1>6 DEF Foresees, Again
-----------------------------------------------------------------------------
(***************************************************************************)
(* The policies together: the one that is configured keeps its invariant.  *)
(***************************************************************************)
LookAheadInv ==
  /\ policy = "pagemin" => PageInv /\ PageMIN!Optimal
  /\ policy = "blockmin" => BlockInv
  /\ policy = "owbp" => OwbpInv /\ OwbpForesight

\* A step that changes nothing.
LEMMA LookAheadStays ==
  ASSUME LookAheadAssumption, LookAheadInv, UNCHANGED vars
  PROVE  LookAheadInv'
<1>1. /\ policy' = policy /\ trace' = trace /\ pos' = pos
      /\ hashTable' = hashTable /\ maxHeap' = maxHeap
      /\ UNCHANGED pageVars /\ UNCHANGED blockVars /\ UNCHANGED owbpVars
  BY DEF vars
<1>2. CASE policy = "pagemin"
  <2>1. PageInv /\ PageMIN!Optimal
    BY <1>2 DEF LookAheadInv
  <2>2. /\ upperCapacity' = upperCapacity /\ key_to_value' = key_to_value
        /\ upper' = upper /\ hits' = hits /\ aborted' = aborted
    BY <1>1 DEF pageVars
  <2>3. PageInv'
    BY <1>1, <2>1, <2>2, PageInvNext DEF PageInv
  <2>4. PageMIN!Optimal'
    BY <1>1, <2>1, <2>2, LosesNothing DEF LookAheadAssumption
  <2>5. QED
    BY <1>1, <1>2, <2>3, <2>4 DEF LookAheadInv
<1>3. CASE policy = "blockmin"
  <2>1. BlockInv
    BY <1>3 DEF LookAheadInv
  <2>2. key_to_block' = key_to_block /\ cacheNum' = cacheNum
    BY <1>1 DEF blockVars
  <2>3. BlockInv'
    BY <1>1, <2>1, <2>2, BlockInvNext DEF BlockInv
  <2>4. QED
    BY <1>1, <1>3, <2>3 DEF LookAheadInv
<1>4. CASE policy = "owbp"
  <2>1. OwbpInv /\ OwbpForesight
    BY <1>4 DEF LookAheadInv
  <2>2. OWBP!Become(OWBP!cache)
    BY <1>1 DEF owbpVars, OWBP!Become, OWBP!cache
  <2>3. OwbpInv'
    <3>1. /\ Shaped(OWBP!cache) /\ (\A b \in BlockNumbers : Right(OWBP!cache, b))
          /\ OWBP!cache.size <= Capacity /\ Proper(trace)
          /\ pos' \in 1..(Len(trace) + 1)
      BY <1>1, <2>1, OwbpCache DEF OwbpInv
    <3>2. QED
      BY <1>1, <2>2, <3>1, OwbpInvNext
  <2>4. OwbpForesight'
    <3>1. AllWrites => Foresees(OWBP!cache.pages, OWBP!cache.cold, OWBP!cache.dist, pos)
      BY <2>1, OwbpCache DEF OwbpForesight
    <3>2. QED
      BY <1>1, <2>2, <3>1, OwbpForesightNext
  <2>5. QED
    BY <1>1, <1>4, <2>3, <2>4 DEF LookAheadInv
<1>5. QED
  BY <1>1, <1>2, <1>3, <1>4 DEF LookAheadInv

\* The invariant holds at the start, whatever policy is configured.
LEMMA LookAheadStart ==
  ASSUME LookAheadAssumption, Init
  PROVE  LookAheadInv
<1>1. CASE policy = "pagemin" /\ PageMIN!Init
  <2>1. PageInv
    BY <1>1, PageStart DEF LookAheadAssumption
  <2>2. PageMIN!Optimal
    BY <1>1, <2>1, PageStartHits DEF LookAheadAssumption
  <2>3. QED
    BY <1>1, <2>1, <2>2 DEF LookAheadInv
<1>2. CASE policy = "blockmin" /\ BlockMIN!Init
  BY <1>2, BlockStart DEF LookAheadInv, LookAheadAssumption
<1>3. CASE policy = "owbp" /\ OWBP!Init
  BY <1>3, OwbpStart, OwbpStartForesight DEF LookAheadInv, LookAheadAssumption
<1>4. QED
  BY <1>1, <1>2, <1>3 DEF Init

\* Every step of the configured policy keeps its invariant.
LEMMA LookAheadKeeps ==
  ASSUME LookAheadAssumption, LookAheadInv, Next
  PROVE  LookAheadInv'
<1>1. policy' = policy
  BY DEF Next
<1>2. CASE PageMinStep
  <2>1. policy = "pagemin" /\ PageMIN!Next
    BY <1>2 DEF PageMinStep
  <2>2. PageInv' /\ PageMIN!Optimal'
    BY <2>1, PageKeeps, PageKeepsHits DEF LookAheadInv, LookAheadAssumption
  <2>3. QED
    BY <1>1, <2>1, <2>2 DEF LookAheadInv
<1>3. CASE BlockMinStep
  <2>1. policy = "blockmin" /\ BlockMIN!access
    BY <1>3 DEF BlockMinStep
  <2>2. BlockInv'
    BY <2>1, BlockKeeps DEF LookAheadInv, LookAheadAssumption
  <2>3. QED
    BY <1>1, <2>1, <2>2 DEF LookAheadInv
<1>4. CASE OwbpStep
  <2>1. policy = "owbp" /\ OWBP!access
    BY <1>4 DEF OwbpStep
  <2>2. OwbpInv' /\ OwbpForesight'
    BY <2>1, OwbpKeeps, OwbpKeepsForesight DEF LookAheadInv, LookAheadAssumption
  <2>3. QED
    BY <1>1, <2>1, <2>2 DEF LookAheadInv
<1>5. QED
  BY <1>2, <1>3, <1>4 DEF Next

\* It holds of every state of every behaviour.
LEMMA LookAheadInvariant ==
  Spec => []LookAheadInv
<1>1. Init => LookAheadInv
  BY LookAheadAssumption, LookAheadStart
<1>2. LookAheadInv /\ [Next]_vars => LookAheadInv'
  BY LookAheadAssumption, LookAheadKeeps, LookAheadStays
<1>3. QED
  BY <1>1, <1>2, PTL DEF Spec

\* What the invariant means for the properties of MCLookAhead.
LEMMA LookAheadInvImplies ==
  ASSUME LookAheadAssumption, LookAheadInv
  PROVE  /\ MinCachesConsistent /\ MinAssertsHold /\ Optimal
         /\ OwbpConsistent /\ MetadataStaysTrue
<1>1. ASSUME policy = "pagemin"
      PROVE  /\ PageMIN!HeapCoversCache /\ PageMIN!HeapMatchesFuture
             /\ PageMIN!AssertsHold /\ PageMIN!TypeOK
  BY <1>1, PageInvImplies DEF LookAheadInv, LookAheadAssumption
<1>2. ASSUME policy = "blockmin"
      PROVE  /\ BlockMIN!HeapMatchesFuture /\ BlockMIN!PageCountRight
             /\ BlockMIN!OthersFirst /\ BlockMIN!AssertsHold /\ BlockMIN!TypeOK
  BY <1>2, BlockInvImplies, BlockOthersFirst DEF LookAheadInv, LookAheadAssumption
<1>3. ASSUME policy = "owbp"
      PROVE  /\ OWBP!TypeOK /\ OWBP!PagesCounted /\ OWBP!FiledOnce
             /\ OWBP!MetadataStaysTrue
  BY <1>3, OwbpInvImplies, OwbpForesightImplies DEF LookAheadInv, LookAheadAssumption
<1>4. Optimal
  BY DEF LookAheadInv, Optimal
<1>5. QED
  BY <1>1, <1>2, <1>3, <1>4
     DEF MinCachesConsistent, MinAssertsHold, OwbpConsistent, MetadataStaysTrue

(***************************************************************************)
(* The heap of next accesses of PageMinCache and of BlockMinCache covers   *)
(* exactly what is cached, and gives each page and block the true line of  *)
(* its next access; BlockMinCache counts its pages, evicts blocks whole,   *)
(* and the current block last.                                             *)
(***************************************************************************)
THEOREM MinHeapsTrue == Spec => []MinCachesConsistent
<1>1. LookAheadInv => MinCachesConsistent
  BY LookAheadAssumption, LookAheadInvImplies
<1>2. QED
  BY <1>1, LookAheadInvariant, PTL

(***************************************************************************)
(* No assert of PageMinCache at the first level, BlockMinCache or          *)
(* nextAccess() fails: whatever is looked up is there. The states of both  *)
(* caches are well typed, with no more pages than the capacity.            *)
(***************************************************************************)
THEOREM MinLookupsSucceed == Spec => []MinAssertsHold
<1>1. LookAheadInv => MinAssertsHold
  BY LookAheadAssumption, LookAheadInvImplies
<1>2. QED
  BY <1>1, LookAheadInvariant, PTL

(***************************************************************************)
(* MIN is optimal: on traces of writes of single pages, at the first       *)
(* level, PageMinCache has had as many hits, and can still have as many,   *)
(* as any choice of victims could have had from the empty cache.           *)
(***************************************************************************)
THEOREM MinIsOptimal == Spec => []Optimal
<1>1. LookAheadInv => Optimal
  BY LookAheadAssumption, LookAheadInvImplies
<1>2. QED
  BY <1>1, LookAheadInvariant, PTL

(***************************************************************************)
(* OwbpCache files every cached block once, in coldHeap or in victimPull,  *)
(* under its current metadata, and counts its pages, within the capacity.  *)
(***************************************************************************)
THEOREM OwbpFilesOnce == Spec => []OwbpConsistent
<1>1. LookAheadInv => OwbpConsistent
  BY LookAheadAssumption, LookAheadInvImplies
<1>2. QED
  BY <1>1, LookAheadInvariant, PTL

(***************************************************************************)
(* On traces of writes the metadata that OwbpCache computes at a block's   *)
(* last write stay true until its next one, whatever the window.           *)
(***************************************************************************)
THEOREM OwbpMetadataTrue == Spec => []MetadataStaysTrue
<1>1. LookAheadInv => MetadataStaysTrue
  BY LookAheadAssumption, LookAheadInvImplies
<1>2. QED
  BY <1>1, LookAheadInvariant, PTL
=============================================================================
