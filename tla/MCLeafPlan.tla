----------------------------- MODULE MCLeafPlan -----------------------------
(***************************************************************************)
(* Small transforms for every way LeafPlan has of building a plan.  The    *)
(* sizes of blocks, tiles and tables are scaled down with the lengths.     *)
(***************************************************************************)
EXTENDS LeafPlan

\* 20160 = 2^6 * 3^2 * 5 * 7, and 13 generates the group.
AllPow ==
  LET f[k \in 0 .. P - 2] ==
        IF k = 0 THEN 1
        ELSE LET h == f[k \div 2]
             IN  IF k % 2 = 0 THEN (h * h) % P ELSE (((h * h) % P) * 13) % P
  IN  [k \in 0 .. P - 2 |-> f[k]]

MCPow == AllPow

RootNode(real, s, inplace, length, batch, inStride, iDist, outStride, oDist) ==
  [real |-> real, s |-> s, inplace |-> inplace, length |-> length, batch |-> batch,
   inStride |-> inStride, iDist |-> iDist, outStride |-> outStride, oDist |-> oDist,
   obIn |-> IF inplace THEN "OUT" ELSE "IN", obOut |-> "OUT", root |-> TRUE,
   allowed |-> {IF inplace THEN "inplace" ELSE "notinplace"}, try_fuse |-> FALSE]

\* The default layouts: packed, the rows of real data padded when the transform is in
\* place.
Default(s, inplace, length, batch) ==
  LET complex == ComplexLength(length)
      real == IF inplace THEN [length EXCEPT ![1] = 2 * complex[1]] ELSE length
      laid(in, out) == RootNode(TRUE, s, inplace, length, batch, Packed(in), ProductOf(in),
                                Packed(out), ProductOf(out))
  IN  IF s = 1 THEN laid(real, complex) ELSE laid(complex, real)

Complex1D(s, inplace, N, batch) ==
  RootNode(FALSE, s, inplace, <<N>>, batch, <<1>>, N, <<1>>, N)

AllNodes ==
  << \* odd lengths, one of them without a kernel
     Default(1, FALSE, <<5>>, 2), Default(0 - 1, FALSE, <<7>>, 1),
     Default(1, TRUE, <<3, 2>>, 2), Default(0 - 1, FALSE, <<3, 2, 2>>, 1),
     \* gaps between the elements
     RootNode(TRUE, 0 - 1, FALSE, <<4>>, 2, <<2>>, 7, <<3>>, 13),
     \* one even dimension, the processing in the transform or not
     Default(1, FALSE, <<6>>, 2), Default(0 - 1, TRUE, <<8>>, 2),
     Default(1, FALSE, <<12>>, 2), Default(1, TRUE, <<18>>, 1), Default(0 - 1, FALSE, <<12>>, 2),
     Default(1, FALSE, <<10>>, 2), Default(0 - 1, TRUE, <<14>>, 2),
     \* two dimensions
     Default(1, FALSE, <<6, 3>>, 2), Default(0 - 1, TRUE, <<6, 3>>, 1),
     Default(1, TRUE, <<6, 4>>, 1), Default(0 - 1, FALSE, <<4, 8>>, 1),
     Default(1, FALSE, <<12, 3>>, 2), Default(0 - 1, FALSE, <<12, 3>>, 1),
     Default(1, TRUE, <<16, 2>>, 1), Default(0 - 1, TRUE, <<8, 6>>, 1),
     Default(1, FALSE, <<4, 5>>, 1), Default(0 - 1, FALSE, <<14, 3>>, 1),
     \* three
     Default(1, FALSE, <<6, 3, 4>>, 1), Default(0 - 1, FALSE, <<6, 3, 4>>, 1),
     Default(1, TRUE, <<4, 4, 4>>, 1), Default(0 - 1, TRUE, <<4, 4, 4>>, 1),
     Default(0 - 1, FALSE, <<4, 2, 2>>, 2),
     Default(1, FALSE, <<12, 2, 3>>, 1), Default(0 - 1, TRUE, <<8, 2, 3>>, 1),
     \* gaps between the rows, the planes and the batches
     RootNode(TRUE, 1, FALSE, <<3, 2>>, 2, <<2, 7>>, 15, <<1, 3>>, 7),
     RootNode(TRUE, 1, FALSE, <<6>>, 2, <<1>>, 8, <<1>>, 6),
     RootNode(TRUE, 1, FALSE, <<6, 3>>, 2, <<1, 8>>, 30, <<1, 5>>, 20),
     RootNode(TRUE, 0 - 1, FALSE, <<6, 3>>, 2, <<1, 5>>, 20, <<1, 8>>, 30),
     RootNode(TRUE, 1, FALSE, <<12, 3>>, 1, <<1, 14>>, 42, <<1, 9>>, 27),
     RootNode(TRUE, 0 - 1, FALSE, <<12, 3>>, 1, <<1, 9>>, 27, <<1, 14>>, 42),
     RootNode(TRUE, 1, FALSE, <<4, 4, 4>>, 2, <<1, 6, 26>>, 120, <<1, 4, 20>>, 90),
     RootNode(TRUE, 0 - 1, FALSE, <<4, 4, 4>>, 2, <<1, 4, 20>>, 90, <<1, 6, 26>>, 120),
     RootNode(TRUE, 1, FALSE, <<6, 3, 4>>, 2, <<1, 8, 30>>, 120, <<1, 5, 17>>, 70),
     RootNode(TRUE, 0 - 1, FALSE, <<6, 3, 4>>, 2, <<1, 5, 17>>, 70, <<1, 8, 30>>, 120),
     \* complex data: no kernel for the length, or a long one
     Complex1D(1, FALSE, 5, 2), Complex1D(0 - 1, TRUE, 5, 1),
     Complex1D(1, FALSE, 7, 2), Complex1D(0 - 1, FALSE, 7, 1),
     Complex1D(1, FALSE, 24, 2), Complex1D(0 - 1, TRUE, 32, 1),
     RootNode(FALSE, 1, FALSE, <<5>>, 2, <<2>>, 11, <<3>>, 17),
     RootNode(FALSE, 1, TRUE, <<7>>, 2, <<2>>, 15, <<2>>, 15),
     RootNode(FALSE, 1, FALSE, <<24>>, 2, <<1>>, 25, <<1>>, 29) >>

MCNodes == AllNodes

\* Real transforms of even length whose batches start at odd elements.
OddDistance ==
  <<RootNode(TRUE, 1, FALSE, <<6>>, 2, <<1>>, 7, <<1>>, 4), Default(1, FALSE, <<6, 3>>, 2),
    Default(0 - 1, FALSE, <<6, 3, 4>>, 1), Default(0 - 1, TRUE, <<14>>, 2)>>

MCOddDistance == OddDistance

MCTransformsPerBlock == [n \in {2, 3, 4, 6, 8, 9} |-> IF n = 8 THEN 8 ELSE 2]

MCCCFactor == [n \in {16} |-> 4]

MCTrtrtFactor == [n \in {24, 32} |-> 4]

MCSingle2D == {<<3, 3>>}
=============================================================================
