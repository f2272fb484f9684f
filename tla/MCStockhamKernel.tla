-------------------------- MODULE MCStockhamKernel --------------------------
(***************************************************************************)
(* Launches of small kernels of every tiling.  The lengths of real kernels *)
(* are scaled down, the relations between length, factors, threads and     *)
(* transforms per block that the generator distinguishes are all kept:     *)
(* threads that divide the butterflies of a pass or do not, more threads   *)
(* than butterflies, full and partial tiles, tiles whose copy divides the  *)
(* block or does not.                                                      *)
(***************************************************************************)
EXTENDS StockhamKernel

MCPrimes == (20161 :> 13) @@ (29173 :> 2)

Kernel(length, factors, tpt, tpb) ==
  [length |-> length, factors |-> factors, tpt |-> tpt, tpb |-> tpb, writeGuard |-> FALSE]

\* A forward transform out of place with everything else switched off.
Launch(tiling, k, lengths, istride, ostride, nbatch) ==
  [tiling |-> tiling, k |-> k, k0 |-> k, k1 |-> k, lengths |-> lengths, istride |-> istride,
   ostride |-> ostride, nbatch |-> nbatch, half |-> FALSE, direct |-> FALSE, dr |-> TRUE,
   eb |-> "NONE", inplace |-> FALSE, sbrc |-> "2D", transpose |-> "UNALIGNED", s |-> 1,
   prime |-> 20161, large |-> 0, use3 |-> FALSE, shift |-> FALSE, resident |-> 1]

Direct == [direct |-> TRUE]
HalfLds == [direct |-> TRUE, half |-> TRUE]
Inverse == [s |-> 0 - 1]
InPlace == [inplace |-> TRUE]
TwoResident == [resident |-> 2]

\* Every radix as a kernel of one pass and one thread.
OneRadix ==
  LET radices == <<2, 3, 4, 5, 6, 7, 8, 9, 10, 11, 13, 16, 17>>
      one(r, dir) ==
        [s |-> dir, prime |-> IF r \in {11, 13, 17} THEN 29173 ELSE 20161]
          @@ Direct @@ Launch("RR", Kernel(r, <<r>>, 1, 1), <<r>>, <<1, r>>, <<1, r>>, 1)
  IN  [i \in 1 .. 13 |-> one(radices[i], 1)] \o [i \in 1 .. 13 |-> one(radices[i], 0 - 1)]

RR ==
  LET k2 == Kernel(2, <<2>>, 1, 2)
      k4 == Kernel(4, <<2, 2>>, 2, 2)
      k6 == Kernel(6, <<3, 2>>, 2, 1)
      k8 == Kernel(8, <<2, 2, 2>>, 2, 2)
      k12 == Kernel(12, <<6, 2>>, 3, 1)
      k10 == Kernel(10, <<5, 2>>, 3, 1)
  IN  <<TwoResident @@ Direct @@ Launch("RR", k2, <<2>>, <<1, 5>>, <<1, 4>>, 3),
        HalfLds @@ Launch("RR", k4, <<4, 3>>, <<2, 9, 30>>, <<1, 4, 13>>, 1),
        Inverse @@ Direct @@ Launch("RR", k4, <<4>>, <<1, 4>>, <<1, 4>>, 1),
        HalfLds @@ InPlace @@ TwoResident @@ Launch("RR", k6, <<6>>, <<1, 7>>, <<1, 7>>, 2),
        Launch("RR", k6, <<6>>, <<1, 7>>, <<1, 7>>, 1),
        [shift |-> TRUE] @@ Direct @@ Launch("RR", k8, <<8>>, <<1, 8>>, <<1, 8>>, 2),
        [shift |-> TRUE] @@ HalfLds @@ Launch("RR", k8, <<8>>, <<1, 8>>, <<1, 8>>, 2),
        Inverse @@ HalfLds @@ Launch("RR", k12, <<12>>, <<1, 12>>, <<1, 12>>, 1),
        Launch("RR", k12, <<12>>, <<1, 12>>, <<1, 12>>, 1),
        HalfLds @@ Launch("RR", k10, <<10>>, <<1, 10>>, <<1, 10>>, 1)>>

RealRR ==
  LET kernels == <<Kernel(3, <<3>>, 1, 1), Kernel(4, <<2, 2>>, 2, 1), Kernel(6, <<3, 2>>, 2, 1),
                   Kernel(8, <<4, 2>>, 2, 1)>>
      real(k, eb, dir) ==
        [eb |-> eb, s |-> dir]
          @@ Launch("RR", k, <<k.length>>, <<1, k.length + 1>>, <<1, k.length + 1>>, 2)
  IN  [i \in 1 .. 4 |-> real(kernels[i], "R2C_POST", 1)]
        \o [i \in 1 .. 4 |-> InPlace @@ real(kernels[i], "C2R_PRE", 0 - 1)]

K4 == Kernel(4, <<2, 2>>, 2, 2)
K6 == Kernel(6, <<3, 2>>, 2, 2)

\* Tiles of two columns; the last one has a single column where the number of
\* columns is odd.
CC ==
  LET large(use3) == [large |-> 20, use3 |-> use3]
      columns == Launch("CC", K4, <<4, 5>>, <<5, 1, 20>>, <<5, 1, 20>>, 1)
  IN  <<HalfLds @@ large(TRUE) @@ columns,
        Direct @@ large(FALSE) @@ InPlace @@ Inverse @@ columns,
        Direct @@ large(TRUE) @@ columns,
        [dr |-> FALSE] @@ Direct @@ large(TRUE) @@ Inverse @@ columns,
        Launch("CC", K4, <<4, 3, 2>>, <<3, 1, 12, 25>>, <<4, 1, 17, 40>>, 1),
        HalfLds @@ InPlace @@ Launch("CC", K6, <<6, 2>>, <<2, 1, 13>>, <<2, 1, 13>>, 2)>>

RC ==
  LET square(transpose, m) ==
        [transpose |-> transpose]
          @@ Launch("RC", K4, <<4, m>>, <<1, 5, 5 * m>>, <<1, m, 4 * m + 1>>, 1)
      cube(sbrc, transpose, m, os) ==
        [sbrc |-> sbrc, transpose |-> transpose]
          @@ Launch("RC", K4, <<4, m, m>>, <<1, 4, 4 * m, 4 * m * m>>, os, 1)
  IN  <<[nbatch |-> 2] @@ square("UNALIGNED", 3), Direct @@ square("UNALIGNED", 3),
        Direct @@ Inverse @@ square("ALIGNED", 4),
        Launch("RC", K6, <<6, 3>>, <<1, 6, 18>>, <<1, 3, 18>>, 1),
        Direct @@ Launch("RC", K6, <<6, 4>>, <<1, 6, 24>>, <<1, 4, 24>>, 1),
        Direct @@ cube("XY_Z", "UNALIGNED", 3, <<1, 3, 12, 36>>),
        cube("Z_XY", "UNALIGNED", 3, <<1, 3, 9, 36>>),
        Direct @@ Inverse @@ cube("XY_Z", "DIAGONAL", 4, <<1, 4, 16, 64>>),
        cube("ERC_Z_XY", "UNALIGNED", 3, <<1, 3, 9, 45>>)>>

CR ==
  LET columns(k, m) == Launch("CR", k, <<k.length, m>>, <<m, 1, k.length * m>>,
                              <<1, k.length, k.length * m>>, 1)
  IN  <<columns(K4, 3), Direct @@ columns(K4, 3), Direct @@ Inverse @@ columns(K6, 2),
        columns(K6, 4),
        [eb |-> "C2R_PRE"] @@ Direct @@ Inverse
          @@ Launch("CR", K4, <<4, 3>>, <<3, 1, 15>>, <<1, 5, 15>>, 2)>>

Fused2D ==
  LET two(k0, k1, istride, ostride) ==
        [k0 |-> k0, k1 |-> k1]
          @@ Launch("2D", k0, <<k0.length, k1.length>>, istride, ostride, 1)
      four == Kernel(4, <<2, 2>>, 2, 1)
      four1 == Kernel(4, <<2, 2>>, 1, 1)
      three == Kernel(3, <<3>>, 1, 1)
      pair == Kernel(2, <<2>>, 1, 1)
  IN  <<two(four, pair, <<1, 4, 8>>, <<1, 5, 10>>),
        Inverse @@ two(three, pair, <<1, 3, 6>>, <<1, 3, 6>>),
        InPlace @@ two(four1, four1, <<1, 5, 20>>, <<1, 5, 20>>),
        [lengths |-> <<2, 4, 2>>] @@ two(pair, four, <<1, 2, 8, 16>>, <<1, 2, 9, 18>>),
        [eb |-> "R2C_POST"] @@ two(four, pair, <<1, 5, 10>>, <<1, 5, 10>>),
        [eb |-> "C2R_PRE"] @@ Inverse @@ two(four, pair, <<3, 1, 12>>, <<2, 1, 8>>)>>

\* Bluestein's kernel: all threads busy, some past the last batch, more
\* threads than butterflies, butterflies that do not divide the threads.
Blue ==
  LET k8 == Kernel(8, <<4, 2>>, 2, 2)
      k6 == Kernel(6, <<3, 2>>, 2, 1)
      k10 == Kernel(10, <<5, 2>>, 3, 1)
      k16 == Kernel(16, <<4, 4>>, 2, 1)
  IN  <<Launch("BLUE", k8, <<3>>, <<2, 7>>, <<1, 4>>, 3),
        InPlace @@ Inverse @@ Launch("BLUE", k6, <<3, 2>>, <<1, 4, 8>>, <<1, 4, 8>>, 1),
        Launch("BLUE", k10, <<5>>, <<1, 5>>, <<1, 5>>, 1),
        Inverse @@ Launch("BLUE", k16, <<7>>, <<1, 7>>, <<1, 7>>, 1)>>

AllLaunches == OneRadix \o RR \o RealRR \o CC \o RC \o CR \o Fused2D \o Blue

MCLaunches == AllLaunches
=============================================================================
