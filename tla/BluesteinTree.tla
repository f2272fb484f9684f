---------------------------- MODULE BluesteinTree ----------------------------
(***************************************************************************)
(* BluesteinNode (tree_node_bluestein.cpp): the kernels of a transform     *)
(* whose length no kernel supports, in one of three ways, and their        *)
(* parameters.  A node is a record with length, inStride, outStride,       *)
(* iDist, oDist, batch, s, obIn, obOut and root (it has no parent).        *)
(***************************************************************************)
EXTENDS LeafKernels

CONSTANTS LargestLength,    \* function_pool::get_largest_length
          NonPow2Lengths,   \* NonPow2LengthSupported
          CCFactor          \* [length |-> lenFactor1] of the lengths that
                            \* DecideNodeScheme gives to CS_L1D_CC

LenPow2(len) == CHOOSE p \in {2^e : e \in 0 .. len} : p >= len /\ (p > 1 => p \div 2 < len)

FindBlue(len, forcePow2) ==
  LET lenPow2Blue == 2 * LenPow2(len)
      good == {m \in 2 * len - 1 .. lenPow2Blue - 1 :
                 m \in NonPow2Lengths /\ 10 * m < 9 * lenPow2Blue}
  IN  IF forcePow2 \/ good = {} THEN lenPow2Blue ELSE CHOOSE m \in good : \A o \in good : m <= o

SizeFits(len) == 2 * len - 1 < LargestLength

\* DecideBlueType: fused only for a transform of one dimension.
DecideBlueType(node) ==
  LET M == FindBlue(node.length[1], FALSE)
  IN  IF SizeFits(node.length[1]) THEN "SINGLE_KERNEL"
      ELSE IF M \in DOMAIN CCFactor /\ node.root THEN "MULTI_KERNEL_FUSED"
      ELSE "MULTI_KERNEL"

Leaf(scheme, length, inStride, iDist, outStride, oDist, batch, s, obIn, obOut) ==
  [scheme |-> scheme, dim |-> 1, length |-> length, outputLength |-> length,
   inStride |-> inStride, iDist |-> iDist, outStride |-> outStride, oDist |-> oDist,
   batch |-> batch, s |-> s, obIn |-> obIn, obOut |-> obOut, eb |-> "NONE",
   iOffset |-> 0, oOffset |-> 0, large1D |-> 0, lengthBlue |-> 0, lengthBlueN |-> 0,
   fuseBlue |-> "NONE", iDistBlue |-> 0, oDistBlue |-> 0,
   allowed |-> {"inplace", "notinplace"}, try_fuse |-> FALSE]

\* The chirp kernel and a transform at an offset in the Bluestein buffer.
ChirpLeaf(node, M) ==
  [Leaf("CHIRP", <<node.length[1]>>, <<1>>, M, <<1>>, M, 1, node.s, "BLUE", "BLUE")
     EXCEPT !.lengthBlue = M]

BlueFFT(length, stride, dist, batch, s, offset) ==
  [Leaf("FFT", length, stride, dist, stride, dist, batch, s, "BLUE", "BLUE")
     EXCEPT !.iOffset = offset, !.oOffset = offset]

SingleTree(node, M) ==
  <<ChirpLeaf(node, M),
    BlueFFT(<<M>>, <<1>>, M, 1, node.s, M),
    [Leaf("BLUESTEIN_SINGLE", node.length, node.inStride, node.iDist, node.outStride, node.oDist,
          node.batch, node.s, node.obIn, node.obOut) EXCEPT !.lengthBlue = M]>>

\* Rows of M elements, one for each row of the data.
RowStride(length, M) ==
  [d \in DOMAIN length |-> IF d = 1 THEN 1 ELSE M * ProductOf(SubSeq(length, 2, d - 1))]

MultiTree(node, M) ==
  LET higher == Tail(node.length)
      stride == RowStride(node.length, M)
      dist == M * ProductOf(higher)
      blue(l) == [l EXCEPT !.lengthBlue = M]
  IN  <<ChirpLeaf(node, M),
        blue(Leaf("PAD_MUL", node.length, node.inStride, node.iDist, stride, dist, node.batch,
                  node.s, node.obIn, "BLUE")),
        BlueFFT(<<M>>, <<1>>, M, node.batch * ProductOf(higher) + 1, node.s, M),
        blue(Leaf("FFT_MUL", <<M>> \o higher, stride, dist, stride, dist, node.batch, node.s,
                  "BLUE", "BLUE")),
        BlueFFT(<<M>> \o higher, stride, dist, node.batch, 0 - node.s, 2 * M),
        blue(Leaf("RES_MUL", node.length, stride, dist, node.outStride, node.oDist, node.batch,
                  node.s, "BLUE", node.obOut))>>

\* CC1DNode with fused operations: a kernel over n0 columns of n1 elements
\* into the temporary buffer, and one over n1 rows of n0 elements.
FusedPair(node, M, fuse, batch, s, obIn, obOut) ==
  LET n1 == CCFactor[M]
      n0 == M \div n1
      blue(l) == [l EXCEPT !.lengthBlue = M, !.lengthBlueN = node.length[1], !.fuseBlue = fuse,
                           !.iDistBlue = IF fuse = "FWD_CHIRP" THEN 0 ELSE M,
                           !.oDistBlue = IF fuse = "FWD_CHIRP" THEN 0 ELSE M]
      in == node.inStride[1]
      out == node.outStride[1]
  IN  <<[blue(Leaf("BLUE_BLOCK_CC", <<n1, n0>>, <<in * n0, in>>, node.iDist, <<n0, 1>>, M,
                   batch, s, obIn, "TEMP")) EXCEPT !.large1D = M],
        blue(Leaf("BLUE_BLOCK_RC", <<n0, n1>>, <<1, n0>>, M, <<out, out * n1>>, node.oDist,
                  batch, s, "TEMP", obOut))>>

FusedTree(node, M) ==
  FusedPair(node, M, "FWD_CHIRP", 1, node.s, "BLUE", "BLUE")
    \o FusedPair(node, M, "FWD_CHIRP_MUL", node.batch, node.s, node.obIn, "BLUE")
    \o FusedPair(node, M, "INV_CHIRP_MUL", node.batch, 0 - node.s, "BLUE", node.obOut)

BluesteinLeaves(node) ==
  LET type == DecideBlueType(node)
      M == FindBlue(node.length[1], type = "SINGLE_KERNEL")
  IN  CASE type = "SINGLE_KERNEL" -> SingleTree(node, M)
        [] type = "MULTI_KERNEL" -> MultiTree(node, M)
        [] type = "MULTI_KERNEL_FUSED" -> FusedTree(node, M)

\* CS_KERNEL_BLUESTEIN_SINGLE: the kernel of StockhamTilings, which takes the
\* chirp and its transform from the Bluestein buffer.  An actor is a row.
bluestein_single(l, mem) ==
  LET N == l.length[1]
      M == l.lengthBlue
      higher == Tail(l.length)
      start(r, stride, dist) ==
        Place(r % ProductOf(higher), higher, Tail(stride)) + (r \div ProductOf(higher)) * dist
      from(r, i) == start(r, l.inStride, l.iDist) + i * l.inStride[1]
      to(r, i) == start(r, l.outStride, l.oDist) + i * l.outStride[1]
      chirp(i) == Load(mem, "BLUE", i)
      padded(r) == [i \in 0 .. M - 1 |->
                      IF i < N THEN ChirpMul(Load(mem, l.obIn, from(r, i)), chirp(i)) ELSE <<0, 0>>]
      product(x) == [i \in 0 .. M - 1 |-> Times(x[i], Load(mem, "BLUE", M + i))]
      result(y) == [i \in 0 .. N - 1 |-> ResMul(y[i], chirp(i), M)]
      stored(r, z) == {<<to(r, i), z[i]>> : i \in 0 .. N - 1}
  IN  [r \in 0 .. ProductOf(higher) * l.batch - 1 |->
         Work(Slots(l.obIn, {from(r, i) : i \in 0 .. N - 1}) \union Slots("BLUE", 0 .. 2 * M - 1),
              StoreAll(l.obOut,
                       stored(r, result(DFT(product(DFT(padded(r), M, 1)), M, 0 - 1)))))]
=============================================================================
