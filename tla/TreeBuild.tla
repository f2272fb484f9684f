------------------------------ MODULE TreeBuild ------------------------------
(****************************************************************************)
(* The trees of complex transforms of one, two and three dimensions.         *)
(****************************************************************************)
EXTENDS FuseShims, FiniteSetsExt

------------------------------------------------------------------------------
(***************************************************************************)
(* One-dimensional transforms: how node_factory.cpp decides the scheme of  *)
(* a length, the tree each scheme builds and the strides it gives to its   *)
(* children (tree_node_1D.cpp).  Lengths that need Bluestein's algorithm   *)
(* are outside this module.                                                *)
(***************************************************************************)

(* The scheme of a length. *)

\* search_pool: the kernel lengths are searched downwards, from the first one
\* that is not below the root of the length, or from the last one if none is,
\* for one of the supported ones.
SearchPool(length, supported) ==
  LET pool == DOMAIN Kernels
      below == Max({k \in pool : k * k <= length})
      above == {k \in pool : k > below}
      start == IF below * below < length /\ above # {} THEN Min(above) ELSE below
      found == {k \in supported : k <= start}
  IN IF found = {} THEN 0 ELSE Max(found)

ReverseFactors == {32256, 43008}

\* get_explicitly_supported_factor: both parts have a kernel.
ExplicitFactor(length) ==
  LET f == SearchPool(length, {k \in DOMAIN Kernels : length % k = 0 /\ HasKernel(length \div k)})
  IN IF f > 0 /\ length \in ReverseFactors THEN length \div f ELSE f

LargestFactor(length) == SearchPool(length, {k \in DOMAIN Kernels : length % k = 0})

\* What is left of a length without the radices of the kernels.
RECURSIVE Remainder(_, _)
Remainder(length, radices) ==
  IF radices = << >> THEN length
  ELSE IF length % Head(radices) = 0 THEN Remainder(length \div Head(radices), radices)
  ELSE Remainder(length, Tail(radices))

SupportedLength(length) ==
  LET p == Remainder(length, <<2, 3, 5, 7, 11, 13, 17>>)
  IN HasKernel(length) \/ p = 1 \/ HasKernel(p) \/ ExplicitFactor(length) > 0

\* Decide1DScheme: the scheme and the factor lenFactor1; factor 0 is a failure.
Decide1DScheme(n) ==
  LET length == n.length[1]
      largest == Max(DOMAIN Kernels)
      half == 2 ^ (CHOOSE i \in 0 .. 15 : 2 ^ (2 * i) = length \/ 2 ^ (2 * i + 1) = length)
      explicit == ExplicitFactor(length)
      divLength0 == LargestFactor(length)
      recurse == IF divLength0 <= 1 THEN 0 ELSE length \div divLength0
      as(scheme, factor) == [n EXCEPT !.scheme = scheme, !.factor = factor]
  IN CASE ~SupportedLength(length) -> as("BLUESTEIN", 1)
       [] HasKernel(length) -> as("STOCKHAM", 1)
       [] length \in DOMAIN DivLength1 ->
            CASE length = 262144 /\ n.arch = "gfx906" -> as("L1D_CRT", 64)
              [] length = 43008 /\ n.arch = "gfx90a" /\ n.precision = "double" -> as("L1D_CC", 224)
              [] OTHER -> as("L1D_CC", DivLength1[length])
       [] IsPo2(length) /\ length <= 262144 -> as("NONE", 0)
       [] IsPo2(length) -> as("L1D_TRTRT", IF largest <= 1 THEN 0
                                           ELSE IF length > largest * largest
                                           THEN length \div largest ELSE half)
       [] OTHER -> as("L1D_TRTRT", IF explicit = 0 THEN recurse ELSE explicit)

------------------------------------------------------------------------------
(* The trees. *)

\* A child that decides its scheme for itself (CreateExplicitNode without a
\* scheme, RecursiveBuildTree).
Explicit(dimension, len, up) == NewNode("NONE", dimension, len, up)

\* The children of a 1D node: length[0] = lenFactor0 * lenFactor1; the other
\* lengths are carried along.
Build1D(n) ==
  LET f1 == n.factor
      f0 == n.length[1] \div f1
      rest == Tail(n.length)
      cols == [NewNode("SBCC", 1, <<f1, f0>> \o rest, n) EXCEPT
                 !.large1D = n.length[1], !.outputLength = <<f0, f1>> \o rest]
      rows == NewNode("STOCKHAM", 1, <<f0, f1>> \o rest, n)
      row2col == TransposeNode("SBRC", 1, <<f0, f1>> \o rest, n)
      trans(a, b) == TransposeNode("TRANSPOSE", 2, <<a, b>> \o rest, n)
  IN CASE n.scheme = "L1D_CC" -> <<cols, row2col>>
       [] n.scheme = "L1D_CRT" -> <<cols, rows, trans(f0, f1)>>
       [] OTHER -> << trans(f0, f1),
                      Explicit(1, <<f1, f0>> \o rest, n),
                      [trans(f1, f0) EXCEPT !.large1D = n.length[1]],
                      rows,
                      trans(f0, f1) >>

\* A shim of child i and the next one, if their schemes can be fused.
ShimIf(fusable, type, i) == IF fusable THEN << Shim(type, << <<i>>, <<i + 1>> >>) >> ELSE << >>
ShimRT(ch, i) == ShimIf(RTFusable(ch[i], ch[i + 1]), "RT", i)
ShimTR(ch, i) == ShimIf(TRFusable(ch[i], ch[i + 1]), "TR", i)

------------------------------------------------------------------------------
(* AssignParams: the strides of the children. *)

Layout(strides, dist) == [strides |-> strides, dist |-> dist]
In(c, l) == [c EXCEPT !.inStride = l.strides, !.iDist = l.dist]
Out(c, l) == [c EXCEPT !.outStride = l.strides, !.oDist = l.dist]
OutLayout(c) == Layout(c.outStride, c.oDist)
Swapped(l) == [l EXCEPT !.strides = Swap(@, 1, 2)]

\* The node's input, or output, seen as two dimensions <<a, b>> in place of its
\* first one: strides a and b in units of the first stride.
InAs(n, a, b) == Layout(<<n.inStride[1] * a, n.inStride[1] * b>> \o Tail(n.inStride), n.iDist)
OutAs(n, a, b) == Layout(<<n.outStride[1] * a, n.outStride[1] * b>> \o Tail(n.outStride), n.oDist)

\* Packed data, whole elements of the first dimension apart.
PackedAs(n, whole, a, b) ==
  Layout(<<a, b>> \o PackFrom(whole, Tail(n.length)), whole * Product(Tail(n.length)))

\* The layout of the parent of a node below L1D_TRTRT, in its own terms.
ParentAs(p, whole, a, b) ==
  Layout(<<p.outStride[1] * a, p.outStride[1] * b, p.outStride[1] * whole>> \o Tail(p.outStride),
         p.oDist)

\* A node below nothing is the root; Below(p, s): the parent's scheme is s.
NoParent == [scheme |-> "none"]
Below(p, s) == p.scheme = s

\* TRTRT1DNode::AssignParams_internal.
AssignTRTRT(n, p) ==
  LET f0 == n.childNodes[1].length[1]
      f1 == n.childNodes[1].length[2]
      ch == n.childNodes
      place(c, a, b) == IF c.obOut = "temp" \/ ~(p = NoParent \/ Below(p, "L1D_TRTRT"))
                        THEN PackedAs(n, f0 * f1, a, b) ELSE OutAs(n, a, b)
      t1 == Out(In(ch[1], InAs(n, 1, f0)), place(ch[1], f1, 1))
      r1i == In(ch[2], Swapped(OutLayout(t1)))
      r1 == Out(r1i, IF r1i.placement = "inplace" THEN Swapped(OutLayout(t1)) ELSE OutAs(n, 1, f1))
      t2 == Out(In(ch[3], OutLayout(r1)), place(ch[3], f0, 1))
      r2 == Out(In(ch[4], Swapped(OutLayout(t2))),
                IF ch[4].obIn = ch[4].obOut THEN Swapped(OutLayout(t2)) ELSE place(ch[4], 1, f0))
      t3 == Out(In(ch[5], OutLayout(r2)), OutAs(n, f1, 1))
  IN <<t1, r1, t2, r2, t3>>

\* The data between the kernels of L1D_CC and L1D_CRT, of which c is one.  "We
\* don't have B info here": below another scheme it is taken to be packed.
Between(n, p, packed, c, a, b) ==
  LET whole == c.length[1] * c.length[2]
  IN CASE n.obOut \in packed -> PackedAs(n, n.length[1], a, b)
       [] n.obOut \notin packed /\ Below(p, "L1D_TRTRT") -> ParentAs(p, whole, a, b)
       [] OTHER -> PackedAs(n, whole, a, b)

\* CC1DNode: a strided transform of distance 1 exchanges the batch and the
\* second dimension, so that neighbours in memory are read together.
BatchInside(n, c, r) ==
  LET cs == Last(c.inStride)
      cb == Last(c.length)
  IN << [c EXCEPT !.length = Append(Front(@), c.batch), !.batch = cb,
                  !.outputLength = <<c.batch, Head(c.length)>>,
                  !.iDist = cs, !.oDist = cs,
                  !.inStride = <<cs * cb, 1>>, !.outStride = <<cs * cb, 1>>,
                  !.batchIsTransformCount = TRUE],
        [r EXCEPT !.length = Append(Front(@), r.batch), !.batch = Last(r.length),
                  !.outputLength = <<r.batch, Head(r.length)>>,
                  !.inStride = <<n.inStride[1], 1>>,
                  !.iDist = Head(r.length) * n.inStride[1],
                  !.oDist = n.outStride[1],
                  !.outStride = <<1, Last(r.length) * n.outStride[1]>>] >>

\* CC1DNode::AssignParams_internal.
AssignCC(n, p) ==
  LET packed == {"out", "cmplx", "blue"}
      col2col == n.childNodes[1]
      row2col == n.childNodes[2]
      c == Out(In(col2col, InAs(n, col2col.length[2], 1)),
               Between(n, p, packed, col2col, col2col.length[2], 1))
      r == Out(In(row2col, Between(n, p, packed, row2col, 1, row2col.length[1])),
               OutAs(n, 1, row2col.length[2]))
  IN IF n.iDist = 1 /\ n.oDist = 1 /\ c.obOut = "temp" THEN BatchInside(n, c, r) ELSE <<c, r>>

\* CRT1DNode::AssignParams_internal.
AssignCRT(n, p) ==
  LET f1 == n.childNodes[1].length[1]
      f0 == n.childNodes[1].length[2]
      c == Out(In(n.childNodes[1], InAs(n, f0, 1)), Between(n, p, {"out", "cmplx"}, n.childNodes[1], f0, 1))
      mid == Swapped(OutLayout(c))
      r == Out(In(n.childNodes[2], mid), mid)
      t == Out(In(n.childNodes[3], mid), OutAs(n, f1, 1))
  IN <<c, r, t>>

------------------------------------------------------------------------------
(***************************************************************************)
(* Two- and three-dimensional transforms: the scheme of a node             *)
(* (node_factory.cpp), the tree it builds and the strides it gives to its  *)
(* children (tree_node_2D.cpp, tree_node_3D.cpp).                          *)
(***************************************************************************)

(* The scheme. *)

\* use_CS_2D_SINGLE, use_CS_2D_RC, Decide2DScheme.
Decide2DScheme(length) ==
  CASE <<length[1], length[2]>> \in Single2D -> "2D_SINGLE"
    [] length[2] # 192 /\ HasSBCC(length[2]) /\ length[1] >= 56 -> "2D_RC"
    [] OTHER -> "2D_RTRT"

PackedStrides(length) == PackFrom(1, length)

\* Apply_SBCR: three column-row kernels, for packed data only.
ApplySBCR(n) ==
  /\ n.arch \in {"gfx908", "gfx90a"}
  /\ \A i \in 1 .. 3 : n.length[i] \in SBCR
  /\ n.placement = "notinplace"
  /\ n.inStride = PackedStrides(n.length) /\ n.outStride = PackedStrides(n.length)

\* "SBCC hasn't worked for inner batch": neither has SBRC.
InnerBatch(n) == n.iDist = 1 \/ n.oDist = 1

\* use_CS_3D_RC.
Use3DRC(n) ==
  LET first == Decide2DScheme(n.length)
      l == n.length
  IN /\ ~InnerBatch(n)
     /\ \/ first = "2D_SINGLE"
        \/ /\ HasSBCC(l[3])
           /\ \/ l = <<56, 336, 336>> /\ n.precision = "double"
              \/ /\ l[1] >= SBCC[l[3]]
                 /\ Product(l) < 128 * 128 * 128
                 /\ first # "2D_RTRT"

\* count_3D_SBRC_nodes, use_CS_3D_BLOCK_RC: at least two of the three kernels
\* are block row-column ones with whole tiles.
Use3DBlockRC(n) ==
  /\ ~InnerBatch(n)
  /\ 2 <= Quantify(1 .. 3, LAMBDA i : /\ HasSBRC(n.length[i])
                                      /\ n.length[((i + 1) % 3) + 1] % SBRC[n.length[i]] = 0)

SlowColumns(precision) ==
  IF precision = "double" THEN {84, 108, 112, 168} ELSE {84, 112, 168}

\* Decide3DScheme of a complex transform.
Decide3DScheme(n) ==
  LET first == Decide2DScheme(n.length)
  IN CASE ApplySBCR(n) -> "3D_BLOCK_CR"
       [] Use3DRC(n) -> "3D_RC"
       [] Use3DBlockRC(n) -> "3D_BLOCK_RC"
       [] first = "2D_RC" /\ n.length[2] \in SlowColumns(n.precision) -> "3D_TRTRTR"
       [] first = "2D_RTRT" -> "3D_TRTRTR"
       [] OTHER -> "3D_RTRT"

------------------------------------------------------------------------------
(* The trees. *)

\* RTRT2DNode::BuildTree_internal.
Build2DRTRT(n) ==
  LET l == n.length
      turned == Swap(l, 1, 2)
  IN << Explicit(1, l, n), TransposeNode("TRANSPOSE", 2, l, n),
        Explicit(1, turned, n), TransposeNode("TRANSPOSE", 2, turned, n) >>

\* Mutation: the column kernel does not say that it writes rows again.
Build2DRCTurned(n) == << Explicit(1, n.length, n), NewNode("SBCC", 1, Swap(n.length, 1, 2), n) >>

\* RC2DNode::BuildTree_internal.
Build2DRC(n) ==
  << Explicit(1, n.length, n),
     [NewNode("SBCC", 1, Swap(n.length, 1, 2), n) EXCEPT !.outputLength = n.length] >>

\* "trans_plan->SetTransposeOutputLength" and then its own length is turned.
TransposeXYZ(len, up) ==
  [TransposeNode("TRANSPOSE_XY_Z", 2, len, up) EXCEPT !.length = Swap(len, 2, 3)]

\* RTRT3DNode::BuildTree_internal.
Build3DRTRT(n) ==
  LET l == n.length
      zLength == <<l[3], l[1], l[2]>>
  IN << Explicit(2, l, n), TransposeXYZ(l, n),
        Explicit(1, zLength, n), TransposeNode("TRANSPOSE_Z_XY", 2, zLength, n) >>

\* The lengths after i of the transposes that bring the next dimension first.
RotateLeft(l, i) == [d \in 1 .. 3 |-> l[((d - 1 + i) % 3) + 1]]
RotateRight(l, i) == RotateLeft(l, 2 * i)

\* TRTRTR3DNode::BuildTree_internal.
Build3DTRTRTR(n) ==
  [k \in 1 .. 6 |-> IF k % 2 = 1
                    THEN TransposeNode("TRANSPOSE_Z_XY", 2, RotateLeft(n.length, k \div 2), n)
                    ELSE Explicit(1, RotateLeft(n.length, k \div 2), n)]

\* A block kernel takes a transpose from the row transforms on both sides of it.
Shims3DTRTRTR(ch) ==
  LET rt(k) == RTZXYFusable(ch[k - 1], ch[k], ch[k + 1])
      RT(k) == ShimIf(rt(k), "RTZXY", k)
      TR(k, free) == IF free THEN ShimTR(ch, k) ELSE << >>
  IN RT(2) \o RT(4) \o TR(1, ~rt(2)) \o TR(3, ~rt(2) /\ ~rt(4)) \o TR(5, ~rt(4))

\* BLOCKRC3DNode: is the XY-plane turned rather than the XZ-plane?
UseZXY(n) ==
  LET l == n.length
      has(S) == \E i \in 1 .. 3 : l[i] \in S
      diagonal == l[1] \in {128, 256} /\ l[2] = l[1] /\ l[3] = l[1]
  IN /\ n.arch \in {"gfx906", "gfx908", "gfx90a"}
     /\ ~diagonal /\ ~has({50, 100})
     /\ IF n.arch = "gfx906" THEN ~has({64})
        ELSE /\ \A i \in 1 .. 3 : ~IsPo2(l[i])
             /\ ~(n.arch = "gfx90a" /\ has({200}) /\ n.precision = "double")

\* BLOCKRC3DNode::BuildTree_internal: each dimension in turn, by one block kernel
\* or by a row transform and a transpose.  Three block kernels do not fit in place.
Build3DBlockRC(n) ==
  LET zxy == UseZXY(n)
      len(i) == IF zxy THEN RotateLeft(n.length, i - 1) ELSE RotateRight(n.length, i - 1)
      aligned(i) == /\ HasSBRC(len(i)[1])
                    /\ len(i)[IF zxy THEN 2 ELSE 3] % SBRC[len(i)[1]] = 0
      block(i) == /\ aligned(i)
                  /\ ~(n.placement = "inplace" /\ \A j \in 1 .. i : aligned(j) /\ i = 3)
      nodes(i) == IF block(i)
                  THEN << TransposeNode(IF zxy THEN "SBRC_Z_XY" ELSE "SBRC_XY_Z", 1, len(i), n) >>
                  ELSE << Explicit(1, len(i), n),
                          IF zxy THEN TransposeNode("TRANSPOSE_Z_XY", 2, len(i), n)
                          ELSE TransposeXYZ(len(i), n) >>
  IN nodes(1) \o nodes(2) \o nodes(3)

\* BLOCKCR3DNode::BuildTree_internal.
Build3DBlockCR(n) ==
  LET len(i) == RotateRight(n.length, i - 1)
  IN [i \in 1 .. 3 |-> NewNode("SBCR", 1, <<len(i)[3], len(i)[1] * len(i)[2]>>, n)]

\* RC3DNode::BuildTree_internal.
Build3DRC(n) ==
  LET zLength == <<n.length[3], n.length[1], n.length[2]>>
  IN << Explicit(2, n.length, n),
        IF HasSBCC(n.length[3]) THEN NewNode("SBCC", 1, zLength, n)
        ELSE [Explicit(1, zLength, n) EXCEPT !.outputLength = n.length] >>

\* DecideNodeScheme: a scheme for a node that has none.  A 1D length that cannot
\* be split stays without.
DecideScheme(n) ==
  LET one == Decide1DScheme(n)
  IN CASE n.scheme # "NONE" -> n
       [] n.dimension = 1 -> IF one.factor = 0 THEN n ELSE one
       [] n.dimension = 2 -> [n EXCEPT !.scheme = Decide2DScheme(n.length)]
       [] OTHER -> [n EXCEPT !.scheme = Decide3DScheme(n)]

\* The children a node creates (BuildTree_internal) ...
Children(n) ==
  CASE n.scheme \in {"L1D_TRTRT", "L1D_CC", "L1D_CRT"} -> Build1D(n)
    [] n.scheme = "2D_RTRT" -> Build2DRTRT(n)
    [] n.scheme = "2D_RC" -> Build2DRC(n)
    [] n.scheme = "3D_RTRT" -> Build3DRTRT(n)
    [] n.scheme = "3D_TRTRTR" -> Build3DTRTRTR(n)
    [] n.scheme = "3D_BLOCK_RC" -> Build3DBlockRC(n)
    [] n.scheme = "3D_BLOCK_CR" -> Build3DBlockCR(n)
    [] n.scheme = "3D_RC" -> Build3DRC(n)
    [] OTHER -> << >>

\* ... and the shims it makes of them once they are built.
Shims(scheme, ch) ==
  CASE scheme = "L1D_TRTRT" -> ShimTR(ch, 1) \o ShimRT(ch, 4)
    [] scheme = "L1D_CRT" -> ShimRT(ch, 2)
    [] scheme \in {"2D_RTRT", "3D_RTRT"} -> ShimRT(ch, 1) \o ShimRT(ch, 3)
    [] scheme = "3D_TRTRTR" -> Shims3DTRTRTR(ch)
    [] OTHER -> << >>

\* RecursiveBuildTree.
RECURSIVE BuildTree(_)
BuildBelow(n, children) ==
  LET built == [i \in DOMAIN children |-> BuildTree(children[i])]
  IN [n EXCEPT !.childNodes = built, !.fuseShims = Shims(n.scheme, built)]
BuildDecided(n) == BuildBelow(n, Children(n))
BuildTree(n) == BuildDecided(DecideScheme(n))

------------------------------------------------------------------------------
(* AssignParams. *)

InLayout(n) == Layout(n.inStride, n.iDist)
Permuted(l, order) == [l EXCEPT !.strides = Permute(@, order)]

\* RTRT2DNode::AssignParams_internal.
Assign2DRTRT(n) ==
  LET l == n.length
      row1 == Out(In(n.childNodes[1], InLayout(n)), OutLayout(n))
      mid == PackedAs([n EXCEPT !.length = Tail(l)], l[1] * l[2], l[2], 1)
      trans1 == Out(In(n.childNodes[2], OutLayout(row1)), mid)
      row2 == Out(In(n.childNodes[3], Swapped(mid)), Swapped(mid))
      trans2 == Out(In(n.childNodes[4], OutLayout(row2)), Swapped(OutLayout(n)))
  IN <<row1, trans1, row2, trans2>>

\* RC2DNode::AssignParams_internal: the rows are packed if this is the root.
Assign2DRC(n, p) ==
  LET l == n.length
      mid == IF p = NoParent THEN Layout(<<1, l[1]>>, l[1] * l[2]) ELSE InLayout(n)
      row == Out(In(n.childNodes[1], InLayout(n)), mid)
      col == Out(In(n.childNodes[2], Swapped(OutLayout(row))), Swapped(OutLayout(n)))
  IN <<row, col>>

\* Packed data of lengths l whose dimensions are in another order in memory.
PackedBy(l, fastest, then, last) ==
  Layout([d \in 1 .. 3 |-> CASE d = fastest -> 1
                             [] d = then -> l[fastest]
                             [] OTHER -> l[fastest] * l[then]],
         l[1] * l[2] * l[3])

\* RTRT3DNode::AssignParams_internal.
Assign3DRTRT(n) ==
  LET xy == Out(In(n.childNodes[1], InLayout(n)), OutLayout(n))
      mid == PackedBy(n.childNodes[2].length, 2, 1, 3)
      trans1 == Out(In(n.childNodes[2], Permuted(OutLayout(xy), <<1, 3, 2>>)), mid)
      z == Out(In(n.childNodes[3], Swapped(mid)), Swapped(mid))
      trans2 == Out(In(n.childNodes[4], OutLayout(z)), Permuted(OutLayout(n), <<3, 1, 2>>))
  IN <<xy, trans1, z, trans2>>

\* TRTRTR3DNode::AssignParams_internal.
Assign3DTRTRTR(n) ==
  LET trans(i) == n.childNodes[2 * i - 1]
      row(i) == n.childNodes[2 * i]
      packed(c) == PackedBy(c.length, 1, 2, 3)
  IN [k \in 1 .. 6 |->
        LET i == (k + 1) \div 2
        IN IF k % 2 = 1
           THEN Out(In(trans(i), IF i = 1 THEN InLayout(n) ELSE packed(row(i - 1))),
                    PackedBy(trans(i).length, 2, 3, 1))
           ELSE Out(In(row(i), packed(row(i))),
                    IF i = 3 THEN OutLayout(n) ELSE packed(row(i)))]

\* A child of 3D_BLOCK_RC that reads data laid out as l.
Assign3DBlockRCChild(c, l) ==
  LET len == c.length
  IN CASE c.scheme = "SBRC_XY_Z" -> Out(In(c, l), PackedBy(<<len[3], len[1], len[2]>>, 1, 2, 3))
       [] c.scheme = "SBRC_Z_XY" -> Out(In(c, l), PackedBy(<<len[2], len[3], len[1]>>, 1, 2, 3))
       [] c.scheme = "TRANSPOSE_XY_Z" ->
            Out(In(c, Permuted(l, <<1, 3, 2>>)), [PackedBy(len, 2, 1, 3) EXCEPT !.dist = l.dist])
       [] c.scheme = "TRANSPOSE_Z_XY" ->
            Out(In(c, l), [PackedBy(len, 2, 3, 1) EXCEPT !.dist = l.dist])
       [] OTHER -> Out(In(c, l), l)

\* The layout of the next child of 3D_BLOCK_RC.
NextIn(c) ==
  CASE c.scheme = "TRANSPOSE_XY_Z" -> Swapped(OutLayout(c))
    [] c.scheme = "TRANSPOSE_Z_XY" -> Permuted(OutLayout(c), <<2, 3, 1>>)
    [] OTHER -> OutLayout(c)

\* BLOCKRC3DNode::AssignParams_internal: a chain from the node's input, whose last
\* child writes packed data whatever the node's output is.
Assign3DBlockRC(n) ==
  FoldLeft(LAMBDA done, c :
             Append(done, Assign3DBlockRCChild(c, IF done = << >> THEN InLayout(n)
                                                  ELSE NextIn(Last(done)))),
           << >>, n.childNodes)

\* BLOCKCR3DNode::AssignParams_internal.
Assign3DBlockCR(n) ==
  LET packed(c) == Layout(<<1, c.length[1]>>, c.length[1] * c.length[2])
      across(c) == Layout(<<c.length[2], 1>>, c.length[1] * c.length[2])
      ch == n.childNodes
  IN << Out(In(ch[1], Layout(<<n.inStride[3], n.inStride[1]>>, n.iDist)), packed(ch[1])),
        Out(In(ch[2], across(ch[2])), packed(ch[2])),
        Out(In(ch[3], across(ch[3])), Layout(<<n.outStride[1], n.outStride[2]>>, n.oDist)) >>

\* RC3DNode::AssignParams_internal.
Assign3DRC(n) ==
  LET zLayout == Permuted(OutLayout(n), <<3, 1, 2>>)
  IN << Out(In(n.childNodes[1], InLayout(n)), OutLayout(n)),
        Out(In(n.childNodes[2], zLayout), zLayout) >>

\* The children of a node below p, with their strides (AssignParams_internal).
AssignChildren(n, p) ==
  CASE n.scheme = "L1D_TRTRT" -> AssignTRTRT(n, p)
    [] n.scheme = "L1D_CC" -> AssignCC(n, p)
    [] n.scheme = "L1D_CRT" -> AssignCRT(n, p)
    [] n.scheme = "2D_RTRT" -> Assign2DRTRT(n)
    [] n.scheme = "2D_RC" -> Assign2DRC(n, p)
    [] n.scheme = "3D_RTRT" -> Assign3DRTRT(n)
    [] n.scheme = "3D_TRTRTR" -> Assign3DTRTRTR(n)
    [] n.scheme = "3D_BLOCK_RC" -> Assign3DBlockRC(n)
    [] n.scheme = "3D_BLOCK_CR" -> Assign3DBlockCR(n)
    [] n.scheme = "3D_RC" -> Assign3DRC(n)
    [] OTHER -> << >>

\* AssignParams of a node and of what is below it.
RECURSIVE AssignBelow(_, _)
AssignBelow(n, p) ==
  LET ch == AssignChildren(n, p)
  IN [n EXCEPT !.childNodes = [i \in DOMAIN ch |-> AssignBelow(ch[i], n)]]

AssignParams(root) == AssignBelow(root, NoParent)
==============================================================================
