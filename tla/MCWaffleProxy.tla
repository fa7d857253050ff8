--------------------------- MODULE MCWaffleProxy ---------------------------
(* Small instances of WaffleProxy for TLC. *)
EXTENDS WaffleProxy

TwoItems   == {1, 2}
TwoByTwo   == TwoItems \X {1, 2}
FourItems  == 1 .. 4
FourByOne  == FourItems \X {1}
RangeBefore == {<<0, 0>>}
\* A time after the last bucket: the GET is for that bucket.
PointAfter == {<<3, 3>>}
RangesPair == {<<1, 2>>, <<2, 3>>}
=============================================================================
