------------------------------- MODULE PlanNode -------------------------------
(***************************************************************************)
(* The nodes of a plan's tree (class TreeNode), the kernels the library    *)
(* has (class function_pool) and what every scheme does with them.  A node *)
(* is a record; its children are in it, so that a tree is a value, and a   *)
(* node is named by its path, the child indices that lead to it.  The      *)
(* temporary factor that the library keeps at the end of a large 1D node's *)
(* length while it builds the tree is a field of its own here.             *)
(***************************************************************************)
EXTENDS Integers, Sequences, SequencesExt

CONSTANTS
  Kernels,     \* Kernels[len]: rows per block of a row kernel (CS_KERNEL_STOCKHAM)
  SBCC,        \* SBCC[len]: columns per block of a block column-column kernel
  SBRC,        \* SBRC[len]: rows per block of a block row-column kernel
  SBCR,        \* lengths of the block column-row kernels
  Single2D,    \* pairs of lengths of the 2D kernels that fit in LDS
  DivLength1   \* map1DLengthSingle and map1DLengthDouble

\* The generator always makes a kernel of length 1; search_pool relies on a
\* kernel that is no longer than the root of the length.  A length of the map
\* is a multiple of its factor and both parts have block kernels
\* (Large1DLengthsValid).
ASSUME PoolAssumption ==
  /\ 1 \in DOMAIN Kernels /\ DOMAIN Kernels \subseteq Nat \ {0} /\ SBCR \subseteq Nat
  /\ \A n \in DOMAIN DivLength1 : /\ n % DivLength1[n] = 0
                                  /\ DivLength1[n] \in DOMAIN SBCC
                                  /\ n \div DivLength1[n] \in DOMAIN SBRC

HasKernel(len) == len \in DOMAIN Kernels
HasSBCC(len) == len \in DOMAIN SBCC
HasSBRC(len) == len \in DOMAIN SBRC

Product(s) == FoldLeft(LAMBDA a, b : a * b, 1, s)

\* Exchange the entries i and j of s.
Swap(s, i, j) == [s EXCEPT ![i] = s[j], ![j] = s[i]]

\* Strides of lengths one after the other, the first with stride d.
PackFrom(d, lens) == [i \in DOMAIN lens |-> d * Product(SubSeq(lens, 1, i - 1))]

IsPo2(n) == \E i \in 0 .. 30 : 2 ^ i = n

\* compute_ptrdiff: the farthest point a layout reaches.
ComputePtrdiff(length, stride, batch, dist) ==
  1 + FoldLeft(LAMBDA a, i : a + (length[i] - 1) * stride[i], 0, [i \in DOMAIN length |-> i])
    + (batch - 1) * dist

------------------------------------------------------------------------------
Transposes == {"TRANSPOSE", "TRANSPOSE_XY_Z", "TRANSPOSE_Z_XY"}
SBRCs == {"SBRC", "SBRC_XY_Z", "SBRC_Z_XY"}

\* Kernels whose blocks write where other blocks read.
OutOfPlaceOnly == Transposes \cup SBRCs \cup {"SBCR"}

Buffers == {"in", "out", "temp", "cmplx"}
ArrayTypes == {"CI", "CP"}

\* A new node, as its class's constructor makes it below the node up.
NewNode(scheme, dimension, length, up) ==
  [scheme |-> scheme, dimension |-> dimension, length |-> length, outputLength |-> << >>,
   factor |-> 0, batch |-> up.batch, precision |-> up.precision, arch |-> up.arch,
   inStride |-> << >>, outStride |-> << >>, iDist |-> 0, oDist |-> 0,
   obIn |-> "none", obOut |-> "none", inArrayType |-> "unset", outArrayType |-> "unset",
   placement |-> "inplace", large1D |-> 0, batchIsTransformCount |-> FALSE,
   allowInplace |-> scheme \notin OutOfPlaceOnly, allowOutofplace |-> TRUE,
   childNodes |-> << >>, fuseShims |-> << >>]

IsLeaf(n) == n.childNodes = << >>
IsPlacementAllowed(n, p) == IF p = "inplace" THEN n.allowInplace ELSE n.allowOutofplace
PlacementOf(obIn, obOut) == IF obIn = obOut THEN "inplace" ELSE "notinplace"

\* GetOutputLength: the lengths of the output, fastest first.
OutputLength(n) == IF n.outputLength = << >> THEN n.length ELSE n.outputLength

\* The order in which a transposing scheme writes its dimensions.
OutputOrder(scheme) ==
  CASE scheme \in {"TRANSPOSE", "SBRC"} -> <<2, 1>>
    [] scheme \in {"TRANSPOSE_XY_Z", "SBRC_XY_Z"} -> <<3, 1, 2>>
    [] scheme \in {"TRANSPOSE_Z_XY", "SBRC_Z_XY"} -> <<2, 3, 1>>
    [] OTHER -> << >>

\* s in another order; what the order does not name stays where it is.
Permute(s, order) == [i \in DOMAIN s |-> s[IF i \in DOMAIN order THEN order[i] ELSE i]]

\* SetTransposeOutputLength.
TransposeNode(scheme, dimension, len, up) ==
  [NewNode(scheme, dimension, len, up) EXCEPT
     !.outputLength = Permute(len, OutputOrder(scheme))]

\* UseOutputLengthForPadding: the output strides go with outputLength.
OutStrideLength(n) == IF n.scheme \in SBRCs THEN OutputLength(n) ELSE n.length

\* Does the access pattern of a kernel get better with padded strides?
PaddingBenefitsInput(n) == n.scheme \in {"SBCC", "SBCR"}
PaddingBenefitsOutput(n) ==
  n.scheme \in {"SBCC", "SBRC"} \/ (n.scheme \in Transposes /\ n.large1D = 0)

------------------------------------------------------------------------------
(* Trees. *)

\* The paths from a node to its leaves, in the order the leaves run.
RECURSIVE LeafPaths(_)
LeafPaths(n) ==
  IF IsLeaf(n) THEN << << >> >>
  ELSE FlattenSeq([i \in DOMAIN n.childNodes |->
                     LET p == LeafPaths(n.childNodes[i])
                     IN [j \in DOMAIN p |-> << i >> \o p[j]]])

\* The node at the end of a path.
RECURSIVE At(_, _)
At(n, path) == IF path = << >> THEN n ELSE At(n.childNodes[Head(path)], Tail(path))

\* The tree n with the node m at the end of the path.
RECURSIVE Put(_, _, _)
Put(n, path, m) ==
  IF path = << >> THEN m
  ELSE [n EXCEPT !.childNodes[Head(path)] = Put(@, Tail(path), m)]

\* CollectLeaves: the leaves in the order they run (execSeq).
Leaves(n) == LET p == LeafPaths(n) IN [i \in DOMAIN p |-> At(n, p[i])]

\* All paths of a tree, a node before what is below it (RecursiveTraverse).
RECURSIVE AllPaths(_)
AllPaths(n) ==
  << << >> >> \o FlattenSeq([i \in DOMAIN n.childNodes |->
                               LET p == AllPaths(n.childNodes[i])
                               IN [j \in DOMAIN p |-> << i >> \o p[j]]])

StridesMatch(n) == Len(n.length) = Len(n.inStride) /\ Len(n.length) = Len(n.outStride)
===============================================================================
