---------------------------- MODULE FlashDevice ----------------------------
(***************************************************************************)
(* What Plane, Die, Package and Ssd keep beside the blocks themselves: the *)
(* number of free blocks of a plane, the erases that a block has left, and *)
(* at every level the index of the child that is least worn. The events    *)
(* are those that Controller::issue() sends to the hardware, from an FTL   *)
(* that erases blocks in use and replaces valid pages, as BAST, FAST and   *)
(* DFTL do. (FtlImpl_Page erases block 0 again and again, although it is   *)
(* FREE, and free_blocks grows past the size of the plane.)                *)
(***************************************************************************)
EXTENDS Flash, FiniteSetsExt

CONSTANTS PlaneSize, DieSize, PackageSize, SsdSize,   \* children per parent
          BlockErases                                 \* BLOCK_ERASES

FlashDeviceAssumption ==
  /\ {PlaneSize, DieSize, PackageSize, SsdSize} \subseteq Nat \ {0}
  /\ NumBlocks = PlaneSize * DieSize * PackageSize * SsdSize
  /\ BlockErases \in Nat

VARIABLES dev,
          erases_remaining,    \* of each block
          free_blocks,         \* of each plane
          least_worn           \* per level, and per parent at that level

vars == <<dev, erases_remaining, free_blocks, least_worn>>

\* The blocks below one die, package and ssd.
DieBlocks == PlaneSize * DieSize
PackageBlocks == DieBlocks * PackageSize

PlaneOf(b) == b \div PlaneSize
DieOf(b) == b \div DieBlocks
PackageOf(b) == b \div PackageBlocks
Plane == {PlaneOf(b) : b \in Block}

Init ==
  /\ dev = FreshDevice
  /\ erases_remaining = [b \in Block |-> BlockErases]
  /\ free_blocks = [p \in Plane |-> PlaneSize]
  /\ least_worn = [plane |-> [p \in Plane |-> 0],
                   die |-> [d \in {DieOf(b) : b \in Block} |-> 0],
                   package |-> [k \in {PackageOf(b) : b \in Block} |-> 0],
                   ssd |-> 0]
-----------------------------------------------------------------------------
\* The block that differs from b only in its component of the given stride.
Sibling(b, stride, size, i) == b + (i - ((b \div stride) % size)) * stride

\* A slip: the child with the fewest erases left.
LeastWornMost(e, b, stride, size) ==
  LET left(i) == e[Sibling(b, stride, size, i)]
      better == {i \in 1..(size - 1) : left(i) < left(0)}
  IN  IF better = {} THEN 0 ELSE Max(better)

\* The loop of every update_wear_stats(): the maximum it compares with stays
\* that of the first child, so the last child with more than that one is taken.
LeastWorn(e, b, stride, size) ==
  LET left(i) == e[Sibling(b, stride, size, i)]
      better == {i \in 1..(size - 1) : left(i) > left(0)}
  IN  IF better = {} THEN 0 ELSE Max(better)

\* update_wear_stats() of the four levels. Those above the plane ask every
\* child for the erases left at the erased block's own address below it.
PlaneWear(e, b) == LeastWorn(e, b, 1, PlaneSize)
DieWear(e, b) == LeastWorn(e, b, PlaneSize, DieSize)
PackageWear(e, b) == LeastWorn(e, b, DieBlocks, PackageSize)
SsdWear(e, b) == LeastWorn(e, b, PackageBlocks, SsdSize)

Updated(w, e, b) ==
  [w EXCEPT !.plane[PlaneOf(b)] = PlaneWear(e, b),
            !.die[DieOf(b)] = DieWear(e, b),
            !.package[PackageOf(b)] = PackageWear(e, b),
            !.ssd = SsdWear(e, b)]

\* get_least_worn() from the ssd down to a block.
get_least_worn ==
  LET k == least_worn.ssd
      d == k * PackageSize + least_worn.package[k]
      p == d * DieSize + least_worn.die[d]
  IN  p * PlaneSize + least_worn.plane[p]
-----------------------------------------------------------------------------
\* A slip: free_blocks goes down with every write.
FreeAfterWriteEach(b) == [free_blocks EXCEPT ![PlaneOf(b)] = @ - 1]

FreeAfterWrite(b) ==
  IF BlockState(dev, b) = "FREE"
  THEN [free_blocks EXCEPT ![PlaneOf(b)] = @ - 1] ELSE free_blocks

\* Plane::write(), of a page that Page::_write() finds EMPTY.
Write(a, x) ==
  /\ dev.page[a] = "EMPTY"
  /\ dev' = Wrote(dev, a, x)
  /\ free_blocks' = FreeAfterWrite(BlockOf(a))
  /\ UNCHANGED <<erases_remaining, least_worn>>

\* Plane::replace().
Replace(a) ==
  /\ dev.page[a] = "VALID"
  /\ dev' = Invalidated(dev, a)
  /\ UNCHANGED <<erases_remaining, free_blocks, least_worn>>

\* erase() of the four levels; a block with no erases left fails and changes
\* nothing.
Erase(b) ==
  LET e == [erases_remaining EXCEPT ![b] = @ - 1]
  IN  /\ erases_remaining[b] >= 1
      /\ BlockState(dev, b) # "FREE"
      /\ dev' = Erased(dev, b)
      /\ erases_remaining' = e
      /\ free_blocks' = [free_blocks EXCEPT ![PlaneOf(b)] = @ + 1]
      /\ least_worn' = Updated(least_worn, e, b)
-----------------------------------------------------------------------------
\* Plane::_merge(). It asserts that the two addresses agree in their block,
\* and every page is written at page 0, where write_event was set up.
RoomToMerge(b, m) ==
  Cardinality(PagesIn(dev, b, "VALID")) <= Cardinality(PagesIn(dev, m, "EMPTY"))
MergeAsserts(b, m) ==
  /\ b = m
  /\ RoomToMerge(b, m) /\ PagesIn(dev, b, "VALID") # {} =>
       Cardinality(PagesIn(dev, b, "VALID")) = 1 /\ 0 \in PagesIn(dev, m, "EMPTY")

\* The pages go without a payload.
Merge(b, m) ==
  /\ MergeAsserts(b, m) /\ RoomToMerge(b, m)
  /\ \E i \in PagesIn(dev, b, "VALID") :
       dev' = Wrote(Invalidated(dev, PageAddr(b, i)), PageAddr(m, 0), NoData)
  /\ UNCHANGED <<erases_remaining, free_blocks, least_worn>>

Next == \/ \E a \in Addr : Write(a, "x") \/ Replace(a)
        \/ \E b \in Block : Erase(b)
        \/ \E b, m \in Block : Merge(b, m)

Spec == Init /\ [][Next]_vars
-----------------------------------------------------------------------------
(***************************************************************************)
(* The type of every variable: no plane has more free blocks than blocks   *)
(* and no block has more than BLOCK_ERASES erases left.                    *)
(***************************************************************************)
TypeOK ==
  /\ DeviceType(dev, {"x"})
  /\ erases_remaining \in [Block -> 0..BlockErases]
  /\ free_blocks \in [Plane -> 0..PlaneSize]
  /\ get_least_worn \in Block

(***************************************************************************)
(* free_blocks of a plane, kept by Plane::write() and Plane::erase(), is   *)
(* the number of its blocks in state FREE.                                 *)
(***************************************************************************)
FreeBlocksCounted ==
  \A p \in Plane : free_blocks[p] =
    Cardinality({b \in Block : PlaneOf(b) = p /\ BlockState(dev, b) = "FREE"})

(***************************************************************************)
(* get_least_worn() returns a block with the most erases left of all, as   *)
(* the comment on update_wear_stats() has it: "Block with the most erases  *)
(* remaining is the least worn". It holds for one plane of two blocks, and *)
(* fails for three blocks or for two planes.                               *)
(***************************************************************************)
LeastWornIsLeastWorn ==
  \A b \in Block : erases_remaining[b] <= erases_remaining[get_least_worn]
=============================================================================
