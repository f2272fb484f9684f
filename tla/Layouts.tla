-------------------------------- MODULE Layouts --------------------------------
(***************************************************************************)
(* Small transforms with fields, for the model checker.  A layout cuts     *)
(* every dimension at the given places; its bricks are numbered like the   *)
(* elements of a grid, the first dimension fastest, and dealt out to the   *)
(* locations in that order.                                                *)
(***************************************************************************)
EXTENDS FieldPlan

\* A brick whose elements lie without gaps, or with one behind each (pad).
MkBrick(lower, upper, pad, loc) ==
  LET len == [d \in DOMAIN lower |-> upper[d] - lower[d]]
  IN  [lower |-> lower, upper |-> upper, rank |-> loc[1], device |-> loc[2],
       stride |-> [d \in DOMAIN len |-> (IF pad THEN 2 ELSE 1) * PackedStrides(len)[d]]]

\* The bricks of a layout; cuts[d] starts with 0 and ends with the length.
Layout(cuts, locs, pad) ==
  LET n == [d \in DOMAIN cuts |-> Len(cuts[d]) - 1]
      digit(k, d) == (((k - 1) \div Product(SubSeq(n, 1, d - 1))) % n[d]) + 1
  IN  [k \in 1 .. Product(n) |->
         MkBrick([d \in DOMAIN cuts |-> cuts[d][digit(k, d)]],
                 [d \in DOMAIN cuts |-> cuts[d][digit(k, d) + 1]], pad, locs[k])]

OnRanks(n) == [k \in 1 .. n |-> <<k - 1, 0>>]

OnDevices(n) == [k \in 1 .. n |-> <<0, k - 1>>]

Whole(n) == <<0, n>>

C2C(len, inF, outF, nranks) ==
  [type |-> "c2c", inplace |-> FALSE, pass |-> "separate", ilen |-> len, olen |-> len,
   istride |-> PackedStrides(len), ostride |-> PackedStrides(len),
   inF |-> inF, outF |-> outF, nranks |-> nranks]

InPlace(c, pass) == [c EXCEPT !.inplace = TRUE, !.pass = pass]

Real(type, ilen, olen, inF, outF) ==
  [C2C(ilen, inF, outF, 1) EXCEPT !.type = type, !.olen = olen, !.ostride = PackedStrides(olen)]

------------------------------------------------------------------------------
(* BuildOptMultiDevicePlan with all-to-all: one brick per rank *)

\* Two ranks, batch 2; three ranks with uneven bricks; pencils of a 3D
\* transform on four ranks, in which no layout of the user's has the third
\* dimension whole.
Slabs2 == C2C(<<3, 2, 2>>, Layout(<<Whole(3), <<0, 1, 2>>, Whole(2)>>, OnRanks(2), FALSE),
              Layout(<<<<0, 1, 3>>, Whole(2), Whole(2)>>, OnRanks(2), FALSE), 2)
Slabs3 == C2C(<<3, 4, 1>>, Layout(<<Whole(3), <<0, 2, 3, 4>>, Whole(1)>>, OnRanks(3), FALSE),
              Layout(<<<<0, 1, 2, 3>>, Whole(4), Whole(1)>>, OnRanks(3), TRUE), 3)
Pencils == C2C(<<5, 2, 2, 1>>,
               Layout(<<Whole(5), <<0, 1, 2>>, <<0, 1, 2>>, Whole(1)>>, OnRanks(4), FALSE),
               Layout(<<<<0, 2, 5>>, Whole(2), <<0, 1, 2>>, Whole(1)>>, OnRanks(4), FALSE), 4)

------------------------------------------------------------------------------
(* BuildOptMultiDevicePlan with point to point transfers *)

\* Rank 0 has two devices, rank 1 has one; pencils on two ranks with two
\* devices each.
Locs21 == <<<<0, 0>>, <<0, 1>>, <<1, 0>>>>
Locs22 == <<<<0, 0>>, <<0, 1>>, <<1, 0>>, <<1, 1>>>>
Mixed == C2C(<<3, 4, 1>>, Layout(<<Whole(3), <<0, 2, 3, 4>>, Whole(1)>>, Locs21, FALSE),
             Layout(<<<<0, 1, 2, 3>>, Whole(4), Whole(1)>>, Locs21, TRUE), 2)
MixedPencils == [Pencils EXCEPT
                   !.inF  = [k \in 1 .. 4 |-> [@[k] EXCEPT !.rank = Locs22[k][1], !.device = Locs22[k][2]]],
                   !.outF = [k \in 1 .. 4 |-> [@[k] EXCEPT !.rank = Locs22[k][1], !.device = Locs22[k][2]]],
                   !.nranks = 2]

\* Every way to cut a 3 by 3 transform in two in one dimension of the input
\* and one of the output.  (With the same dimension it is gathered.)
Cut(dim, p) ==
  Layout([d \in 1 .. 3 |-> IF d = dim THEN <<0, p, 3>> ELSE IF d = 3 THEN Whole(1) ELSE Whole(3)],
         OnRanks(2), FALSE)
Cuts == {C2C(<<3, 3, 1>>, Cut(d, p), Cut(e, q), 2) : d, e, p, q \in {1, 2}}

OptConfigs == {Slabs2, Slabs3, Pencils, Mixed, MixedPencils} \cup Cuts

------------------------------------------------------------------------------
(* GatherScatterSingleDevicePlan *)

\* Both fields split in the slowest dimension or in the fastest, one field
\* only, in place, real transforms, no field.
SlowSplit(n, m) == Layout(<<Whole(n), <<0, m \div 2, m>>, Whole(1)>>, OnDevices(2), FALSE)
FastSplit(n, m) == Layout(<<<<0, n \div 2, n>>, Whole(m), Whole(1)>>, OnDevices(2), FALSE)
SlowInOut == C2C(<<2, 3, 1>>, SlowSplit(2, 3), SlowSplit(2, 3), 1)
FastInOut == C2C(<<3, 2, 1>>, FastSplit(3, 2), FastSplit(3, 2), 1)
OverRanks == [SlowInOut EXCEPT !.inF = Layout(<<Whole(2), <<0, 1, 3>>, Whole(1)>>, OnRanks(2), FALSE),
                               !.outF = Layout(<<Whole(2), <<0, 2, 3>>, Whole(1)>>, OnRanks(2), FALSE),
                               !.nranks = 2]

GatherConfigs ==
  {SlowInOut, FastInOut, OverRanks,
   [SlowInOut EXCEPT !.inF = <<>>], [SlowInOut EXCEPT !.outF = <<>>],
   [FastInOut EXCEPT !.inF = <<>>], [FastInOut EXCEPT !.outF = <<>>],
   InPlace(SlowInOut, "same"), InPlace(FastInOut, "same"),
   [FastInOut EXCEPT !.outF = Layout(<<<<0, 1, 3>>, Whole(2), Whole(1)>>, OnDevices(2), TRUE)],
   [SlowInOut EXCEPT !.outF = <<>>, !.ostride = <<2, 4, 12>>],
   Real("r2c", <<4, 2, 1>>, <<3, 2, 1>>, SlowSplit(4, 2), SlowSplit(3, 2)),
   Real("r2c", <<4, 2, 1>>, <<3, 2, 1>>, FastSplit(4, 2), FastSplit(3, 2)),
   Real("c2r", <<3, 2, 1>>, <<4, 2, 1>>, SlowSplit(3, 2), SlowSplit(4, 2)),
   C2C(<<2, 2, 1>>, <<>>, <<>>, 1), InPlace(C2C(<<2, 2, 1>>, <<>>, <<>>, 1), "same")}

PlanConfigs == OptConfigs \cup GatherConfigs

------------------------------------------------------------------------------
(* Transforms that go wrong, one for each disagreement with a doc or comment *)

\* One process, two devices, split differently in input and output.
SingleProcess == {C2C(<<2, 4, 1>>, SlowSplit(2, 4), FastSplit(2, 4), 1)}

\* Two ranks of three have a brick.
IdleRank == {[Slabs2 EXCEPT !.nranks = 3]}

\* Two bricks on each of two ranks, on one device.
TwoPerRank ==
  {C2C(<<4, 4, 1>>,
       Layout(<<Whole(4), <<0, 1, 2, 3, 4>>, Whole(1)>>, <<<<0, 0>>, <<0, 0>>, <<1, 0>>, <<1, 0>>>>, FALSE),
       Layout(<<<<0, 2, 4>>, Whole(4), Whole(1)>>, OnRanks(2), FALSE), 2)}

\* Input bricks with gaps between their elements.
PaddedInput == {[Slabs2 EXCEPT !.inF = Layout(<<Whole(3), <<0, 1, 2>>, Whole(2)>>, OnRanks(2), TRUE)]}

PaddedGather ==
  {[SlowInOut EXCEPT !.inF = Layout(<<Whole(2), <<0, 1, 3>>, Whole(1)>>, OnDevices(2), TRUE)]}

\* Only the first of two input bricks has gaps.
PaddedFirst ==
  {[SlowInOut EXCEPT
      !.inF = <<Head(Layout(<<Whole(2), <<0, 1, 3>>, Whole(1)>>, OnDevices(2), TRUE)),
                Last(Layout(<<Whole(2), <<0, 1, 3>>, Whole(1)>>, OnDevices(2), FALSE))>>]}

\* Output bricks with gaps that are contiguous in the field.
PaddedScatter ==
  {[SlowInOut EXCEPT !.outF = Layout(<<Whole(2), <<0, 1, 3>>, Whole(1)>>, OnDevices(2), TRUE)]}

\* A 1D transform whose input bricks have gaps.
PaddedLine ==
  {C2C(<<4, 1>>, Layout(<<<<0, 2, 4>>, Whole(1)>>, OnDevices(2), TRUE),
       Layout(<<<<0, 2, 4>>, Whole(1)>>, OnDevices(2), FALSE), 1)}

\* The first brick is the upper one.
UpperFirst == {[SlowInOut EXCEPT !.inF = Reverse(@), !.outF = SlowSplit(2, 3)]}

\* Complex to real, the output split in the fastest dimension.
ScatterReal == {Real("c2r", <<3, 2, 1>>, <<4, 2, 1>>, SlowSplit(3, 2), FastSplit(4, 2))}

\* In place, with and without output pointers.
InPlaceNoOutput == {InPlace(SlowInOut, "none")}

InPlaceOutputField == {InPlace([SlowInOut EXCEPT !.inF = <<>>], "same")}

\* A field whose offsets do not fit in IntBits = 4 bits.
WideField ==
  {C2C(<<4, 4, 1>>, Layout(<<<<0, 2, 4>>, <<0, 2, 4>>, Whole(1)>>, OnDevices(4), FALSE),
       Layout(<<<<0, 2, 4>>, <<0, 2, 4>>, Whole(1)>>, OnDevices(4), FALSE), 1)}

Scaled == {Slabs2}
================================================================================
