--------------------------- MODULE MCAddressSpace ---------------------------
(* AddressSpace for TLC: the programs are interchangeable.                 *)
EXTENDS AddressSpace, TLC

Programs == Permutations(Procs)

\* Less than a page, a page, more; and down again, also below brk_start.
SomeRequests == {-3, -2, -1, 1, 2, 3}

\* And more than there is memory for, and the lowest that does not pass address 0.
MoreRequests == SomeRequests \cup {10 * PAGE, -brk_start}

\* And below address 0, from the first break and from one that has grown.
WrappingRequests == {-brk_start - 3, -brk_start - 2, -brk_start - 1, 1, 2}

\* Frame 0 reads as absent entries, or as entries that name a frame in use.
JustAbsent == {0}
AnyLow     == {0, KERNEL_PAGE + 1}
=============================================================================
