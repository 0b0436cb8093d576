------------------------------- MODULE Flash -------------------------------
(***************************************************************************)
(* The flash memory behind Controller::issue(): pages and blocks of        *)
(* ssd_page.cpp and ssd_block.cpp, reached through Ssd, Package, Die and   *)
(* Plane, which hand the event on. A device is a record, so that the       *)
(* events of one request compose:                                          *)
(*   page     the state of every page, by linear address;                  *)
(*   data     what page_data holds for every page that is not EMPTY;       *)
(*   written  pages_valid of every block: the writes since the last erase. *)
(* pages_invalid and the state of a block are functions of its pages.      *)
(* Delays, and the erases a block has left, are not here.                  *)
(***************************************************************************)
EXTENDS Integers, FiniteSets

CONSTANTS NumBlocks,       \* SSD_SIZE * PACKAGE_SIZE * DIE_SIZE * PLANE_SIZE
          PagesPerBlock,   \* BLOCK_SIZE
          NoData           \* what is in a page that is EMPTY

FlashAssumption ==
  NumBlocks \in Nat \ {0} /\ PagesPerBlock \in Nat \ {0}

Block == 0..(NumBlocks - 1)
Offset == 0..(PagesPerBlock - 1)
Addr == 0..(NumBlocks * PagesPerBlock - 1)

\* Address::set_linear_address() takes a linear address apart.
BlockOf(a) == a \div PagesPerBlock
OffsetOf(a) == a % PagesPerBlock
PageAddr(b, i) == b * PagesPerBlock + i

PageState == {"EMPTY", "VALID", "INVALID"}

FreshDevice ==
  [page |-> [a \in Addr |-> "EMPTY"], data |-> [a \in Addr |-> NoData],
   written |-> [b \in Block |-> 0]]

PagesIn(d, b, state) == {i \in Offset : d.page[PageAddr(b, i)] = state}
PagesInvalid(d, b) == Cardinality(PagesIn(d, b, "INVALID"))

\* Block::get_state().
BlockState(d, b) == CASE PagesIn(d, b, "EMPTY") = Offset -> "FREE"
                      [] PagesIn(d, b, "INVALID") = Offset -> "INACTIVE"
                      [] OTHER -> "ACTIVE"

\* A WRITE event: Page::_write() and Block::write(). The assertion that the page
\* is EMPTY is the caller's to check.
Wrote(d, a, x) ==
  [d EXCEPT !.page[a] = "VALID", !.data[a] = x, !.written[BlockOf(a)] = @ + 1]

\* Block::invalidate_page(), by a trim or for the replace address of an event.
Invalidated(d, a) == [d EXCEPT !.page[a] = "INVALID"]

\* The replace address of an event is used only if one was set.
Replaced(d, r) == IF r \in Addr THEN Invalidated(d, r) ELSE d

\* An ERASE event: Block::_erase().
Erased(d, b) ==
  [page |-> [a \in Addr |-> IF BlockOf(a) = b THEN "EMPTY" ELSE d.page[a]],
   data |-> [a \in Addr |-> IF BlockOf(a) = b THEN NoData ELSE d.data[a]],
   written |-> [d.written EXCEPT ![b] = 0]]

\* Plane::get_free_page() takes the number of writes for the next page.
FreePage(d, b) == PageAddr(b, d.written[b])

DeviceType(d, Data) ==
  /\ d.page \in [Addr -> PageState]
  /\ d.data \in [Addr -> Data \cup {NoData}]
  /\ d.written \in [Block -> 0..PagesPerBlock]
=============================================================================
