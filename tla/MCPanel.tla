-------------------------------- MODULE MCPanel --------------------------------
EXTENDS Panel

Seg(first, end)      == [first |-> first, end |-> end]
Data(at, size)       == [at |-> at, size |-> size, kind |-> "data"]
Code(at, size)       == [at |-> at, size |-> size, kind |-> "code"]
Image(segs, its, fs) == [segments |-> segs, items |-> its, funcs |-> fs]

\* The segments are regular in the first three: one, adjacent ones, a gap; then
\* they begin or end within rows, one lies in a row, two share one.  The items fill
\* the segments in the first two and the fourth; in the others unexplored bytes
\* follow a small item or a large one, fill a segment, or end it.
SomeImages ==
  { Image(<<Seg(0, 24)>>, {Code(0, 4), Code(4, 1), Code(5, 3), Data(8, 8), Code(16, 8)}, {0, 5}),
    Image(<<Seg(4, 8), Seg(8, 20)>>, {Code(4, 2), Data(6, 2), Data(8, 1), Data(9, 11)}, {4}),
    Image(<<Seg(0, 8), Seg(16, 24)>>, {Code(2, 2), Data(6, 1), Data(20, 4)}, {2}),
    Image(<<Seg(5, 7), Seg(12, 24)>>, {Code(5, 2), Code(12, 1), Data(13, 11)}, {12}),
    Image(<<Seg(2, 9), Seg(11, 20)>>, {Code(11, 2), Data(17, 2)}, {11}),
    Image(<<Seg(4, 6), Seg(7, 15)>>, {Data(4, 1), Code(8, 2), Code(14, 1)}, {8, 14}) }
=============================================================================
