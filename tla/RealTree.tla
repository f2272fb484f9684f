------------------------------ MODULE RealTree -------------------------------
(***************************************************************************)
(* The nodes of real transforms (tree_node_real.cpp): which kernels they   *)
(* are made of (BuildTree_internal) and how these see the buffers          *)
(* (AssignParams_internal).                                                *)
(*                                                                         *)
(* A node is a record as in BluesteinTree, with the lengths of the real    *)
(* side; strides and distances are in units of each side.  A leaf that     *)
(* works on the real data counts in complex numbers, two reals each.  The  *)
(* complex transforms among the children have the scheme "FFT".            *)
(***************************************************************************)
EXTENDS BluesteinTree

CONSTANTS SBCCLengths,         \* lengths with a column kernel
          SBCRLengths,         \* lengths with a column to row kernel
          TransformsPerBlock,  \* [length |-> transforms_per_block] of the
                               \* lengths with a row kernel
          MinRows,             \* 8 or 4
          Single2D,            \* pairs that use_CS_2D_SINGLE accepts
          FuseLimit,           \* 512
          TryFuseLimit         \* 2048

Halved(stride) == [i \in DOMAIN stride |-> IF i = 1 THEN stride[1] ELSE stride[i] \div 2]

HalfLength(length) == [length EXCEPT ![1] = @ \div 2]

Perm(x, p) == [i \in DOMAIN p |-> x[p[i]]]

\* set_complex_length
ComplexLength(length) == [length EXCEPT ![1] = @ \div 2 + 1]

SBCC_dim_available(length, d) ==
  \/ length[d] \in SBCCLengths
  \/ length[d] \in DOMAIN TransformsPerBlock /\ TransformsPerBlock[length[d]] >= MinRows

SBCR_dim_available(length, d) == length[d] \in SBCRLengths

\* A child without its strides.
Kid(node, scheme, dim, length, outputLength) ==
  [Leaf(scheme, length, <<>>, 0, <<>>, 0, node.batch, node.s, node.obIn, node.obOut)
     EXCEPT !.dim = dim, !.outputLength = outputLength]

FFTKid(node, dim, length) == Kid(node, "FFT", dim, length, length)

EvenKid(node, length, try_fuse) ==
  [Kid(node, "REAL_TRANSFORM_EVEN", 1, length, length) EXCEPT !.try_fuse = try_fuse]

\* A TransposeNode; SetTransposeOutputLength
TransposeKid(node, scheme, length) ==
  LET p == CASE scheme = "TRANSPOSE" -> <<2, 1>>
             [] scheme = "TRANSPOSE_XY_Z" -> <<3, 1, 2>>
             [] scheme = "TRANSPOSE_Z_XY" -> <<2, 3, 1>>
  IN  [Kid(node, scheme, 2, length, Perm(length, p)) EXCEPT !.allowed = {"notinplace"}]

Laid(kid, inStride, iDist, outStride, oDist) ==
  [kid EXCEPT !.inStride = inStride, !.iDist = iDist, !.outStride = outStride, !.oDist = oDist]

SameLaid(kid, stride, dist) == Laid(kid, stride, dist, stride, dist)

-----------------------------------------------------------------------------
(* CS_REAL_TRANSFORM_USING_CMPLX *)

CopyKid(node, scheme, length, outputLength) ==
  [Kid(node, scheme, 1, length, outputLength) EXCEPT !.allowed = {"notinplace"}]

RealTransCmplxTree(node) ==
  LET real == node.length
      complex == ComplexLength(real)
      r2c == node.s = 1
  IN  <<IF r2c THEN CopyKid(node, "COPY_R_TO_CMPLX", real, real)
        ELSE CopyKid(node, "COPY_HERM_TO_CMPLX", complex, real),
        FFTKid(node, Len(real), real),
        IF r2c THEN CopyKid(node, "COPY_CMPLX_TO_HERM", real, complex)
        ELSE CopyKid(node, "COPY_CMPLX_TO_R", real, real)>>

RealTransCmplxParams(node, kids) ==
  LET packed == [d \in DOMAIN node.length |-> ProductOf(SubSeq(node.length, 1, d - 1))]
      dist == ProductOf(node.length)
  IN  <<Laid(kids[1], node.inStride, node.iDist, packed, dist),
        SameLaid(kids[2], packed, dist),
        Laid(kids[3], packed, dist, node.outStride, node.oDist)>>

-----------------------------------------------------------------------------
(* CS_REAL_TRANSFORM_EVEN *)

\* One kernel, with the processing in it, or two.
RealTransEvenTree(node) ==
  LET half == HalfLength(node.length)
      complex == ComplexLength(node.length)
      isLeaf == half[1] \in DOMAIN TransformsPerBlock
      counted == IF node.s = 1 THEN node.length[1] ELSE complex[1]
      fuse == isLeaf /\ (node.try_fuse \/ (Len(node.length) = 1 /\ counted < FuseLimit))
      cfft == FFTKid(node, 1, half)
      process(scheme, length, outputLength) ==
        [Kid(node, scheme, 1, length, outputLength) EXCEPT !.allowed = node.allowed]
  IN  CASE fuse /\ node.s = 1 -> <<[cfft EXCEPT !.eb = "R2C_POST", !.outputLength = complex]>>
        [] fuse /\ node.s # 1 -> <<[cfft EXCEPT !.eb = "C2R_PRE"]>>
        [] ~fuse /\ node.s = 1 -> <<cfft, process("R_TO_CMPLX", half, complex)>>
        [] ~fuse /\ node.s # 1 -> <<process("CMPLX_TO_R", complex, half), cfft>>

\* Forward: the transform stays in the layout of the input.
RealTransEvenForward(node, kids) ==
  LET in == Halved(node.inStride)
      iDist == node.iDist \div 2
  IN  IF Len(kids) = 2
      THEN <<SameLaid(kids[1], in, iDist), Laid(kids[2], in, iDist, node.outStride, node.oDist)>>
      ELSE <<Laid(kids[1], in, iDist, node.outStride, node.oDist)>>

\* Backward: the transform stays in the layout of the output.
RealTransEvenBackward(node, kids) ==
  LET out == Halved(node.outStride)
      oDist == node.oDist \div 2
  IN  IF Len(kids) = 2
      THEN <<Laid(kids[1], node.inStride, node.iDist, out, oDist), SameLaid(kids[2], out, oDist)>>
      ELSE <<Laid(kids[1], node.inStride, node.iDist, out, oDist)>>

RealTransEven(node) ==
  IF node.s = 1 THEN RealTransEvenForward(node, RealTransEvenTree(node))
  ELSE RealTransEvenBackward(node, RealTransEvenTree(node))

-----------------------------------------------------------------------------
(* CS_REAL_2D_EVEN *)

\* The two lengths of the kernel for two dimensions.
PlaneLengths(node) ==
  IF node.s = 1 THEN <<node.length[1] \div 2, node.length[2]>>
  ELSE <<node.length[2], node.length[1] \div 2>>

Real2DSolution(node) ==
  IF PlaneLengths(node) \in Single2D THEN "REAL_2D_SINGLE"
  ELSE IF SBCC_dim_available(node.length, 2) THEN "INPLACE_SBCC"
  ELSE "TR_PAIR"

Plane2DTree(node) ==
  LET cfft == FFTKid(node, 2, PlaneLengths(node))
  IN  IF node.s = 1
      THEN <<[cfft EXCEPT !.eb = "R2C_POST", !.outputLength[1] = @ + 1]>>
      ELSE <<[cfft EXCEPT !.eb = "C2R_PRE"]>>

Plane2DParams(node, kids) ==
  IF node.s = 1
  THEN <<Laid(kids[1], Halved(node.inStride), node.iDist \div 2, node.outStride, node.oDist)>>
  ELSE <<Laid(kids[1], Perm(node.inStride, <<2, 1>>), node.iDist,
              Perm(Halved(node.outStride), <<2, 1>>), node.oDist \div 2)>>

\* The length of the input: complex in a backward transform.
InLength(node) == IF node.s = 1 THEN node.length ELSE ComplexLength(node.length)

SBCC2DTree(node) ==
  LET even == EvenKid(node, node.length, InLength(node)[1] <= TryFuseLimit)
      complex == ComplexLength(node.length)
      sbccY == [FFTKid(node, 1, Perm(complex, <<2, 1>>)) EXCEPT !.outputLength = complex]
  IN  IF node.s = 1 THEN <<even, sbccY>> ELSE <<sbccY, even>>

SBCC2DParams(node, kids) ==
  LET even(kid) == Laid(kid, node.inStride, node.iDist, node.outStride, node.oDist)
  IN  IF node.s = 1
      THEN <<even(kids[1]), SameLaid(kids[2], Perm(node.outStride, <<2, 1>>), node.oDist)>>
      ELSE <<SameLaid(kids[1], Perm(node.inStride, <<2, 1>>), node.iDist), even(kids[2])>>

TR2DTree(node) ==
  LET complex == ComplexLength(node.length)
      turned == Perm(complex, <<2, 1>>)
      trans1 == TransposeKid(node, "TRANSPOSE", complex)
      row == FFTKid(node, 1, turned)
      trans2 == TransposeKid(node, "TRANSPOSE", turned)
      even == EvenKid(node, node.length, FALSE)
  IN  IF node.s = 1 THEN <<even, trans1, row, trans2>> ELSE <<trans1, row, trans2, even>>

TR2DForward(node, kids) ==
  LET l == kids[2].length
      dist == l[1] * l[2]
  IN  <<Laid(kids[1], node.inStride, node.iDist, node.outStride, node.oDist),
        Laid(kids[2], node.outStride, node.oDist, <<l[2], 1>>, dist),
        SameLaid(kids[3], <<1, l[2]>>, dist),
        Laid(kids[4], <<1, l[2]>>, dist, Perm(node.outStride, <<2, 1>>), node.oDist)>>

TR2DBackward(node, kids) ==
  LET l == kids[1].length
      dist == l[1] * l[2]
      back == Perm(node.inStride, <<2, 1>>)
      backDist == kids[3].length[1] * back[1]
  IN  <<Laid(kids[1], node.inStride, node.iDist, <<l[2], 1>>, dist),
        SameLaid(kids[2], <<1, l[2]>>, dist),
        Laid(kids[3], <<1, l[2]>>, dist, back, backDist),
        Laid(kids[4], node.inStride, backDist, node.outStride, node.oDist)>>

Real2DEven(node) ==
  LET solution == Real2DSolution(node)
  IN  CASE solution = "REAL_2D_SINGLE" -> Plane2DParams(node, Plane2DTree(node))
        [] solution = "INPLACE_SBCC" -> SBCC2DParams(node, SBCC2DTree(node))
        [] solution = "TR_PAIR" -> IF node.s = 1 THEN TR2DForward(node, TR2DTree(node))
                                   ELSE TR2DBackward(node, TR2DTree(node))

------------------------------------------------------------------------------
(***************************************************************************)
(* Real3DEvenNode (tree_node_real.cpp): a real transform of three          *)
(* dimensions, in one of four ways, and the choice of the node of a real   *)
(* transform (NodeFactory).                                                *)
(***************************************************************************)

CONSTANT SBCRArch   \* gfx908 or gfx90a

OutLength(node) == IF node.s = 1 THEN ComplexLength(node.length) ELSE node.length

Packed(length) == [d \in DOMAIN length |-> ProductOf(SubSeq(length, 1, d - 1))]

\* BufferIsUnitStride: no gaps between elements, nor between batches.
UnitStride(node, length, stride, dist) ==
  stride = Packed(length) /\ (node.batch = 1 \/ dist = ProductOf(length))

InStrideUnit(node) == UnitStride(node, InLength(node), node.inStride, node.iDist)

OutStrideUnit(node) == UnitStride(node, OutLength(node), node.outStride, node.oDist)

\* Build_solution
Real3DSolution(node) ==
  LET plane == PlaneLengths(node) \in Single2D /\ SBCC_dim_available(node.length, 3)
                 /\ InStrideUnit(node) /\ OutStrideUnit(node)
      sbcr == /\ node.s # 1 /\ SBCRArch /\ ~node.inplace
              /\ \A d \in 1 .. 3 : SBCR_dim_available(HalfLength(node.length), d)
              /\ node.inStride = Packed(InLength(node))
              /\ node.outStride = Packed(OutLength(node))
      sbcc == SBCC_dim_available(node.length, 2) /\ SBCC_dim_available(node.length, 3)
  IN  IF plane THEN "REAL_2D_SINGLE_SBCC"
      ELSE IF sbcr THEN "SBCR"
      ELSE IF sbcc THEN "INPLACE_SBCC"
      ELSE "TR_PAIRS"

-----------------------------------------------------------------------------
(* REAL_2D_SINGLE_SBCC *)

Plane3DTree(node) ==
  LET l == node.length
      xy == FFTKid(node, 2, PlaneLengths(node) \o <<l[3]>>)
      sbccZ(length) == FFTKid(node, 1, length)
  IN  IF node.s = 1
      THEN <<[xy EXCEPT !.eb = "R2C_POST", !.outputLength[1] = @ + 1],
             [sbccZ(<<l[3], l[1] \div 2 + 1, l[2]>>) EXCEPT !.outputLength = ComplexLength(l)]>>
      ELSE <<sbccZ(<<l[3], (l[1] \div 2 + 1) * l[2]>>), [xy EXCEPT !.eb = "C2R_PRE"]>>

Plane3DParams(node, kids) ==
  LET is == node.inStride
      os == node.outStride
      half == Halved(os)
  IN  IF node.s = 1
      THEN <<Laid(kids[1], Halved(is), node.iDist \div 2, os, node.oDist),
             SameLaid(kids[2], Perm(os, <<3, 1, 2>>), node.oDist)>>
      ELSE <<SameLaid(kids[1], <<is[3], is[1]>>, node.iDist),
             Laid(kids[2], Perm(is, <<2, 1, 3>>), kids[2].length[3] * is[3],
                  Perm(half, <<2, 1, 3>>), kids[2].length[3] * half[3])>>

-----------------------------------------------------------------------------
(* INPLACE_SBCC *)

SBCC3DTree(node) ==
  LET even == EvenKid(node, node.length, InLength(node)[1] <= TryFuseLimit)
      remaining == ComplexLength(node.length)
      column(p) == [FFTKid(node, 1, Perm(remaining, p)) EXCEPT !.outputLength = remaining]
      columns == <<column(<<3, 1, 2>>), column(<<2, 1, 3>>)>>
  IN  IF node.s = 1 THEN <<even>> \o columns ELSE columns \o <<even>>

SBCC3DParams(node, kids) ==
  LET even(kid) == Laid(kid, node.inStride, node.iDist, node.outStride, node.oDist)
      z(kid, stride, dist) == SameLaid(kid, Perm(stride, <<3, 1, 2>>), dist)
      y(kid, stride, dist) == SameLaid(kid, Perm(stride, <<2, 1, 3>>), dist)
  IN  IF node.s = 1
      THEN <<even(kids[1]), z(kids[2], node.outStride, node.oDist),
             y(kids[3], node.outStride, node.oDist)>>
      ELSE <<z(kids[1], node.inStride, node.iDist), y(kids[2], node.inStride, node.iDist),
             even(kids[3])>>

-----------------------------------------------------------------------------
(* SBCR: backward only *)

SBCRTree(node) ==
  LET l == node.length
      complex == l[1] \div 2 + 1
      column(length) == [FFTKid(node, 1, length) EXCEPT !.allowed = {"notinplace"}]
  IN  <<column(<<l[3], complex * l[2]>>), column(<<l[2], l[3] * complex>>),
        column(<<l[1] \div 2, l[2] * l[3]>>)>>

SBCRParams(node, kids) ==
  LET z == kids[1].length
      y == kids[2].length
      x == kids[3].length
  IN  <<Laid(kids[1], <<node.inStride[3], node.inStride[1]>>, node.iDist, <<1, z[1]>>, node.iDist),
        Laid(kids[2], <<y[2], 1>>, y[1] * y[2], <<1, y[1]>>, y[1] * y[2]),
        [Laid(kids[3], <<x[2], 1>>, (x[1] + 1) * x[2], <<1, x[1]>>, x[1] * x[2])
           EXCEPT !.eb = "C2R_PRE"]>>

-----------------------------------------------------------------------------
(* TR_PAIRS *)

InPlaceFFT(node, length) == [FFTKid(node, 1, length) EXCEPT !.allowed = {"inplace"}]

TR3DForwardTree(node) ==
  LET l1 == ComplexLength(node.length)
      l2 == Perm(l1, <<2, 3, 1>>)
      l3 == Perm(l2, <<2, 3, 1>>)
      trans(length) == TransposeKid(node, "TRANSPOSE_Z_XY", length)
  IN  <<EvenKid(node, node.length, FALSE), trans(l1), InPlaceFFT(node, l2), trans(l2),
        InPlaceFFT(node, l3), trans(l3)>>

TR3DBackwardTree(node) ==
  LET l1 == ComplexLength(node.length)
      l2 == Perm(l1, <<3, 1, 2>>)
      l3 == Perm(l2, <<3, 1, 2>>)
      trans(length) == [TransposeKid(node, "TRANSPOSE_XY_Z", length)
                          EXCEPT !.length = Perm(length, <<1, 3, 2>>)]
  IN  <<trans(l1), InPlaceFFT(node, l2), trans(l2), InPlaceFFT(node, l3), trans(l3),
        EvenKid(node, node.length, FALSE)>>

\* Every transposition packs its output; the distance stays the first one.
TR3DForward(node, kids) ==
  LET out(kid) == <<kid.length[3] * kid.length[2], 1, kid.length[2]>>
      dist == node.oDist
      rows(kid) == Perm(out(kid), <<2, 3, 1>>)
  IN  <<Laid(kids[1], node.inStride, node.iDist, node.outStride, node.oDist),
        Laid(kids[2], node.outStride, dist, out(kids[2]), dist),
        SameLaid(kids[3], rows(kids[2]), dist),
        Laid(kids[4], rows(kids[2]), dist, out(kids[4]), dist),
        SameLaid(kids[5], rows(kids[4]), dist),
        Laid(kids[6], rows(kids[4]), dist, Perm(node.outStride, <<3, 1, 2>>), node.oDist)>>

TR3DBackward(node, kids) ==
  LET out(kid) == <<kid.length[2], 1, kid.length[2] * kid.length[1]>>
      dist == node.iDist
      rows(kid) == Perm(out(kid), <<2, 1, 3>>)
      turned(stride) == Perm(stride, <<1, 3, 2>>)
  IN  <<Laid(kids[1], turned(node.inStride), dist, out(kids[1]), dist),
        SameLaid(kids[2], rows(kids[1]), dist),
        Laid(kids[3], turned(rows(kids[1])), dist, out(kids[3]), dist),
        SameLaid(kids[4], rows(kids[3]), dist),
        Laid(kids[5], turned(rows(kids[3])), dist, out(kids[5]), dist),
        Laid(kids[6], rows(kids[5]), dist, node.outStride, node.oDist)>>

-----------------------------------------------------------------------------

Real3DEven(node) ==
  LET solution == Real3DSolution(node)
  IN  CASE solution = "REAL_2D_SINGLE_SBCC" -> Plane3DParams(node, Plane3DTree(node))
        [] solution = "INPLACE_SBCC" -> SBCC3DParams(node, SBCC3DTree(node))
        [] solution = "SBCR" -> SBCRParams(node, SBCRTree(node))
        [] solution = "TR_PAIRS" -> IF node.s = 1 THEN TR3DForward(node, TR3DForwardTree(node))
                                    ELSE TR3DBackward(node, TR3DBackwardTree(node))

\* DecideRealScheme: an odd fastest length, or one with gaps between its
\* elements, goes the way of complex data.
RealKids(node) ==
  IF node.length[1] % 2 = 1 \/ node.inStride[1] # 1 \/ node.outStride[1] # 1
  THEN RealTransCmplxParams(node, RealTransCmplxTree(node))
  ELSE CASE Len(node.length) = 1 -> RealTransEven(node)
         [] Len(node.length) = 2 -> Real2DEven(node)
         [] Len(node.length) = 3 -> Real3DEven(node)

\* CollectLeaves: a node RealTransEven among the children gives its own.
RECURSIVE Flattened(_)
Flattened(kids) ==
  IF kids = <<>> THEN <<>>
  ELSE (IF Head(kids).scheme = "REAL_TRANSFORM_EVEN" THEN RealTransEven(Head(kids))
        ELSE <<Head(kids)>>) \o Flattened(Tail(kids))
==============================================================================
