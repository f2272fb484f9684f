------------------------------- MODULE FuseShims -------------------------------
(***************************************************************************)
(* Kernel fusion (fuse_shim.cpp).  A shim names neighbouring nodes whose   *)
(* kernels one kernel can replace: a transpose disappears into the strides *)
(* of the row kernel before or after it.  Whether the schemes fit is known *)
(* when the tree is built; whether the buffers fit when they are assigned; *)
(* ApplyFusion then replaces the nodes.                                    *)
(***************************************************************************)
EXTENDS PlanNode

\* A shim's nodes, as paths from the node that owns it, from the first one that
\* is fused to the last.
Shim(type, nodes) == [type |-> type, nodes |-> nodes]
FirstFuseNode(s) == Head(s.nodes)
LastFuseNode(s) == Last(s.nodes)

\* canOptimizeWithStride: are enough rows done together to coalesce?
CanOptimizeWithStride(stockham) ==
  /\ ~(IsPo2(stockham.length[1]) /\ Len(stockham.length) >= 3)
  /\ Kernels[stockham.length[1]] >= IF stockham.precision = "double" THEN 4 ELSE 8

\* TRFuseShim::CheckSchemeFusable.
TRFusable(transpose, stockham) ==
  /\ transpose.scheme \in Transposes /\ transpose.large1D = 0
  /\ stockham.scheme = "STOCKHAM"
  /\ CanOptimizeWithStride(stockham)
  /\ stockham.length = Permute(transpose.length, OutputOrder(transpose.scheme))

\* RTFuseShim::CheckSchemeFusable.
RTFusable(stockham, transpose) ==
  /\ stockham.scheme = "STOCKHAM"
  /\ transpose.scheme \in Transposes /\ transpose.large1D = 0
  /\ transpose.length = stockham.length /\ transpose.inStride = stockham.outStride
  /\ CanOptimizeWithStride(stockham)

\* RT_ZXY_FuseShim::CheckSchemeFusable, with fuse_CS_KERNEL_TRANSPOSE_Z_XY.
RTZXYFusable(previous, stockham, transpose) ==
  /\ stockham.scheme = "STOCKHAM" /\ transpose.scheme = "TRANSPOSE_Z_XY"
  /\ previous.scheme # "TRANSPOSE_XY_Z"
  /\ HasSBRC(transpose.length[1])
  /\ LET bwd == SBRC[transpose.length[1]]
     IN /\ transpose.length[2] >= bwd /\ transpose.length[3] >= bwd
        /\ (transpose.length[2] * transpose.length[3]) % bwd = 0

\* FuseShim::PlacementFusable: all these fusions write out of place.
PlacementFusable(iBuf, lastOBuf) == iBuf # lastOBuf

------------------------------------------------------------------------------
(* FuseKernels: one node for those of the shim. *)

\* TRFuseShim::FuseKernels: read where the transpose would have read.
FuseTR(transpose, stockham) ==
  LET is == transpose.inStride
      zxy == transpose.scheme = "TRANSPOSE_Z_XY"
      turned(s) == IF zxy THEN Swap(s, 2, 3) ELSE s
  IN [stockham EXCEPT
        !.placement = "notinplace", !.inArrayType = transpose.inArrayType,
        !.obIn = transpose.obIn, !.iDist = transpose.iDist,
        !.inStride = CASE transpose.scheme = "TRANSPOSE" -> Swap(is, 1, 2)
                       [] zxy -> <<is[2], is[1], is[3]>>
                       [] OTHER -> <<is[3], is[1], is[2]>>,
        !.outStride = turned(@), !.length = turned(@)]

\* Mutation: the fused kernel keeps the strides of the row kernel.
FuseRTOwnStrides(stockham, transpose) ==
  [stockham EXCEPT
     !.placement = "notinplace", !.outArrayType = transpose.outArrayType,
     !.obOut = transpose.obOut, !.oDist = transpose.oDist,
     !.outputLength = transpose.outputLength]

\* RTFuseShim::FuseKernels: write where the transpose would have written.
FuseRT(stockham, transpose) ==
  LET os == transpose.outStride
  IN [stockham EXCEPT
        !.placement = "notinplace", !.outArrayType = transpose.outArrayType,
        !.obOut = transpose.obOut, !.oDist = transpose.oDist,
        !.outStride = IF transpose.scheme = "TRANSPOSE_XY_Z" THEN <<os[2], os[3], os[1]>> ELSE os,
        !.outputLength = transpose.outputLength]

\* RT_ZXY_FuseShim::FuseKernels: a block kernel that turns the cube.
FuseRTZXY(stockham, transpose) ==
  [stockham EXCEPT
     !.scheme = "SBRC_Z_XY",
     !.placement = "notinplace", !.outArrayType = transpose.outArrayType,
     !.obOut = transpose.obOut, !.oDist = transpose.oDist,
     !.outStride = Permute(transpose.outStride, OutputOrder("TRANSPOSE_Z_XY")),
     !.outputLength = transpose.outputLength]

FuseKernels(type, a, b) ==
  CASE type = "TR" -> FuseTR(a, b)
    [] type = "RT" -> FuseRT(a, b)
    [] OTHER -> FuseRTZXY(a, b)

\* A node that ApplyFusion has removed, until the tree is pruned.
Removed == [scheme |-> "REMOVED"]

\* CheckFuseShimForArch: "A known case is RTFuse, length 168 in MI50".
FusableOnArch(shim, first) ==
  ~(first.arch = "gfx906" /\ shim.type = "RT" /\ first.length[1] = 168)

\* The fused node takes the place of the first one and the last one goes.
ApplyShim(n, shim) ==
  LET a == At(n, FirstFuseNode(shim))
      b == At(n, LastFuseNode(shim))
  IN IF FusableOnArch(shim, a) /\ PlacementFusable(a.obIn, b.obOut)
     THEN Put(Put(n, FirstFuseNode(shim), FuseKernels(shim.type, a, b)),
              LastFuseNode(shim), Removed)
     ELSE n

\* TreeNode::ApplyFusion.
RECURSIVE ApplyFusion(_)
ApplyFusion(n) ==
  LET fused == FoldLeft(ApplyShim, n, n.fuseShims)
      kept == SelectSeq(fused.childNodes, LAMBDA c : c.scheme # "REMOVED")
  IN [fused EXCEPT !.childNodes = [i \in DOMAIN kept |-> ApplyFusion(kept[i])],
                   !.fuseShims = << >>]
===============================================================================
