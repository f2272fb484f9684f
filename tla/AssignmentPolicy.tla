-------------------------- MODULE AssignmentPolicy ---------------------------
(****************************************************************************)
(* assignment_policy.cpp and the passes of plan.cpp that follow it: the      *)
(* buffers of a plan's kernels and the strides of the data in them.          *)
(****************************************************************************)
EXTENDS TreeBuild

------------------------------------------------------------------------------
(***************************************************************************)
(* Which buffer every kernel of a plan reads and writes                    *)
(* (assignment_policy.cpp).  All chains of buffers and array types from    *)
(* the user's input to the user's output are enumerated, the best ones     *)
(* are tried first, and a chain is accepted when the strides that follow   *)
(* from it fit the buffers.  A chain (PlacementTrace) is a sequence with   *)
(* one step per leaf.  The transforms are complex, so that the user's      *)
(* input is never written when it is not the output.                       *)
(***************************************************************************)

Step(inBuf, outBuf, iType, oType) ==
  [inBuf |-> inBuf, outBuf |-> outBuf, iType |-> iType, oType |-> oType]

\* BufferIsUnitStride: does the user's buffer have no gaps?
BufferIsUnitStride(root, buf) ==
  LET stride == IF buf = "in" THEN root.inStride ELSE root.outStride
      dist == IF buf = "in" THEN root.iDist ELSE root.oDist
  IN \/ buf \notin {"in", "out"}
     \/ /\ stride = PackFrom(1, root.length)
        /\ root.batch = 1 \/ dist = Product(root.length)

\* The dimensions of a node split those of the buffer evenly.
RECURSIVE Decomposes(_, _)
Decomposes(bufLen, nodeLen) ==
  \/ nodeLen = << >>
  \/ /\ bufLen # << >>
     /\ Head(bufLen) % Head(nodeLen) = 0
     /\ LET left == Head(bufLen) \div Head(nodeLen)
        IN Decomposes((IF left = 1 THEN << >> ELSE << left >>) \o Tail(bufLen), Tail(nodeLen))

\* dataFits, in ValidOutBuffer.
DataFits(root, n, buf) ==
  IF BufferIsUnitStride(root, buf)
  THEN Product(OutputLength(n)) <= Product(root.length)
  ELSE Decomposes(root.length, OutputLength(n))

ValidOutBuffer(root, n, buf, type) ==
  CASE buf = "cmplx" -> type = "CI"
    [] buf = "in" -> DataFits(root, n, buf) /\ type = root.inArrayType
    [] buf = "out" -> DataFits(root, n, buf) /\ type = root.outArrayType
    [] OTHER -> TRUE

\* The steps a leaf can take from a buffer: in place without a change of type, or
\* to another buffer.
LeafSteps(root, n, buf, type, available, types) ==
  { Step(buf, s[1], type, s[2]) :
      s \in {s \in available \X types : /\ IsPlacementAllowed(n, PlacementOf(buf, s[1]))
                                        /\ s[1] = buf => s[2] = type
                                        /\ ValidOutBuffer(root, n, s[1], s[2])} }

\* Enumerate: all chains from the root's input to its output.
Enumerate(root, available, types) ==
  LET leaves == Leaves(root)
      extend(traces, n) ==
        UNION { { Append(t, s) :
                  s \in LeafSteps(root, n,
                                  IF t = << >> THEN root.obIn ELSE Last(t).outBuf,
                                  IF t = << >> THEN root.inArrayType ELSE Last(t).oType,
                                  available, types) } : t \in traces }
  IN {t \in FoldLeft(extend, { << >> }, leaves) :
        Last(t).outBuf = root.obOut /\ Last(t).oType = root.outArrayType}

UsedBuffers(t) == {t[i].inBuf : i \in DOMAIN t} \cup {t[i].outBuf : i \in DOMAIN t}

------------------------------------------------------------------------------
(* The fusions a chain allows. *)

\* All shims of a tree (CollectLeaves) that the device allows
\* (CheckFuseShimForArch), each with the positions of its nodes among the leaves.
FuseList(root) ==
  LET paths == AllPaths(root)
      leaves == LeafPaths(root)
      at(p) == CHOOSE i \in DOMAIN leaves : leaves[i] = p
      of(p) == LET n == At(root, p)
               IN {[first |-> at(p \o FirstFuseNode(s)), last |-> at(p \o LastFuseNode(s))] :
                     s \in {s \in ToSet(n.fuseShims) :
                              FusableOnArch(s, At(n, FirstFuseNode(s)))}}
  IN UNION {of(paths[i]) : i \in DOMAIN paths}

\* OrderFuseShims and BackwardCalcFusions throw unless the shims follow one another.
FusesInOrder(root) ==
  \A f, g \in FuseList(root) : f = g \/ f.last < g.first \/ g.last < f.first

\* BackwardCalcFusions.
NumFusions(root, t) ==
  Quantify(FuseList(root), LAMBDA f : PlacementFusable(t[f.first].inBuf, t[f.last].outBuf))

------------------------------------------------------------------------------
(* The order in which the chains are tried. *)

PaddableTempBuffers == {"temp", "cmplx"}

NumPaddableTempOps(root, t) ==
  LET leaves == Leaves(root)
  IN Quantify(DOMAIN t, LAMBDA i : t[i].inBuf \in PaddableTempBuffers /\ PaddingBenefitsInput(leaves[i]))
     + Quantify(DOMAIN t, LAMBDA i : t[i].outBuf \in PaddableTempBuffers /\ PaddingBenefitsOutput(leaves[i]))

\* What UpdateWinnerFromValidPaths sorts by: a smaller tuple is better.
Rank(root, t) ==
  << -NumFusions(root, t), Cardinality(UsedBuffers(t)), -NumPaddableTempOps(root, t),
     -Quantify(DOMAIN t, LAMBDA i : t[i].inBuf = t[i].outBuf),
     Quantify(DOMAIN t, LAMBDA i : t[i].iType # t[i].oType) >>

Better(r, s) ==
  \E i \in DOMAIN r : r[i] < s[i] /\ \A j \in 1 .. i - 1 : r[j] = s[j]

\* The best chains of a set; std::sort says nothing about ties.
Best(root, traces) ==
  {t \in traces : \A u \in traces : ~Better(Rank(root, u), Rank(root, t))}

------------------------------------------------------------------------------
(* Filling in a chain. *)

\* Backtracking: the leaves take the buffers of the chain.
Backtracking(root, t) ==
  LET paths == LeafPaths(root)
      fill(tree, i) ==
        Put(tree, paths[i], [At(tree, paths[i]) EXCEPT
                               !.placement = PlacementOf(t[i].inBuf, t[i].outBuf),
                               !.obIn = t[i].inBuf, !.obOut = t[i].outBuf,
                               !.inArrayType = t[i].iType, !.outArrayType = t[i].oType])
  IN FoldLeft(fill, root, [i \in DOMAIN paths |-> i])

\* RefreshTree: a node reads as its first child and writes as its last.
RECURSIVE RefreshTree(_)
RefreshTree(n) ==
  LET ch == [i \in DOMAIN n.childNodes |-> RefreshTree(n.childNodes[i])]
  IN IF IsLeaf(n) THEN n
     ELSE [n EXCEPT !.childNodes = ch,
                    !.obIn = Head(ch).obIn, !.obOut = Last(ch).obOut,
                    !.placement = PlacementOf(Head(ch).obIn, Last(ch).obOut),
                    !.inArrayType = Head(ch).inArrayType, !.outArrayType = Last(ch).outArrayType]

\* getBufSize.
InSize(n) == ComputePtrdiff(n.length, n.inStride, n.batch, n.iDist)
OutSize(n) == ComputePtrdiff(OutStrideLength(n), n.outStride, n.batch, n.oDist)

\* The elements of the user's buffers.
UserBufferSize(root, buf) ==
  CASE buf = "in" -> InSize(root)
    [] root.placement = "inplace" -> Max({InSize(root), OutSize(root)})
    [] OTHER -> OutSize(root)

\* Every node has a stride for every length (AssignParams and SanityCheck throw).
StridesComplete(root) ==
  \A i \in DOMAIN AllPaths(root) : StridesMatch(At(root, AllPaths(root)[i]))

\* Mutation: the strides of kernels that work in place are not compared.
CheckAssignmentSizes(root) ==
  \A i \in DOMAIN Leaves(root) :
    LET n == Leaves(root)[i]
    IN n.obOut \in {"in", "out"} => OutSize(n) <= UserBufferSize(root, n.obOut)

\* CheckAssignmentValid: the writes fit the user's buffers, the kernels that work
\* in place read and write with the same strides and internal nodes are placed
\* as they may be.
CheckAssignmentValid(root) ==
  /\ \A i \in DOMAIN Leaves(root) :
       LET n == Leaves(root)[i]
       IN /\ n.obOut \in {"in", "out"} => OutSize(n) <= UserBufferSize(root, n.obOut)
          /\ n.placement = "inplace" => n.inStride = n.outStride
  /\ \A i \in DOMAIN AllPaths(root) :
       LET n == At(root, AllPaths(root)[i])
       IN ~IsLeaf(n) => IsPlacementAllowed(n, n.placement)

------------------------------------------------------------------------------
(***************************************************************************)
(* What happens to a plan's strides after the buffers are assigned and the *)
(* kernels fused: data that stays in a temporary buffer is padded for      *)
(* every kernel that works on it there (PadPlan), high dimensions that are *)
(* contiguous become part of the batch (CollapseContiguousDims), and the   *)
(* tree is checked and the buffers sized.                                  *)
(***************************************************************************)

\* What a function that throws returns.
Thrown == [scheme |-> "THROWN"]

------------------------------------------------------------------------------
(* The reads and writes of data that stays in a buffer. *)

\* An operation on the buffer: which node reads or writes.
TempBufOp(path, op) == [path |-> path, op |-> op]
InsertOp(users, o) == IF o \in ToSet(users) THEN users ELSE Append(users, o)

\* CollectTempBufOps: from the node at a path, forwards through its children and
\* its following siblings until the data leaves the buffer.
RECURSIVE CollectTempBufOps(_, _, _, _, _)
CollectTempBufOps(root, path, buf, users, startNode) ==
  LET n == At(root, path)
      ch == n.childNodes
      stays(k) == ch[k].obIn = buf /\ ch[k].obOut = buf
      collect(u, k) == CollectTempBufOps(root, Append(path, k), buf, u, FALSE)
      among(S) == SetToSortSeq(S, <)
      reads == ~startNode /\ n.obIn = buf
      readers == {k \in DOMAIN ch : ch[k].obIn = buf /\ \A j \in 1 .. k - 1 : stays(j)}
      writers == {k \in DOMAIN ch : ch[k].obOut = buf /\ \A j \in k + 1 .. Len(ch) : stays(j)}
      after == IF reads
               THEN FoldLeft(collect, InsertOp(users, TempBufOp(path, "read")), among(readers))
               ELSE users
      gone == reads /\ \E k \in DOMAIN ch : ~stays(k)
      written == InsertOp(FoldLeft(collect, after, among(writers)), TempBufOp(path, "write"))
      hasSibling == path # << >> /\ Last(path) < Len(At(root, Front(path)).childNodes)
  IN CASE gone \/ n.obOut # buf -> after
       [] hasSibling -> CollectTempBufOps(root, Append(Front(path), Last(path) + 1), buf, written, FALSE)
       [] OTHER -> written

------------------------------------------------------------------------------
(* The strides of one operation. *)

\* The 3D transposes can only pad the middle dimension on one of their sides.
ForcedPaddingDim(n, op) ==
  CASE n.scheme = "TRANSPOSE_XY_Z" -> IF op = "write" THEN "second" ELSE "highest"
    [] n.scheme = "TRANSPOSE_Z_XY" -> IF op = "read" THEN "second" ELSE "highest"
    [] OTHER -> "any"

\* A dimension, and the dimensions of an operation with the batch as the last.
Dim(len, st) == [len |-> len, st |-> st]
Dims(length, stride, batch, dist) ==
  [i \in DOMAIN length |-> Dim(length[i], stride[i])] \o << Dim(batch, dist) >>

\* LengthStrideSort: the indices of dimensions, the fastest first.
Fastest(dims) ==
  SetToSortSeq(DOMAIN dims,
               LAMBDA i, j : \/ dims[i].st < dims[j].st
                             \/ dims[i].st = dims[j].st /\ dims[i].len < dims[j].len)
Sorted(dims) == LET f == Fastest(dims) IN [i \in DOMAIN f |-> dims[f[i]]]

\* The strides of the lengths lens in data that was written as prev: a length
\* that was written as one dimension may be read as several.
RECURSIVE FollowStrides(_, _)
FollowStrides(lens, prev) ==
  CASE lens = << >> /\ prev = << >> -> << >>
    [] lens = << >> \/ prev = << >> -> << 0 >>
    [] Head(prev).len % Head(lens) # 0 -> << 0 >>
    [] OTHER ->
         LET left == Head(prev).len \div Head(lens)
         IN << Head(prev).st >> \o
            FollowStrides(Tail(lens),
                          (IF left = 1 THEN << >>
                           ELSE << Dim(left, Head(prev).st * Head(lens)) >>) \o Tail(prev))

\* The two fastest dimensions of prev are one dimension of cur.
TwoAsOne(cur, prev) ==
  /\ Len(prev) = Len(cur) + 1
  /\ prev[1].st = 1 /\ prev[2].st = prev[1].len
  /\ prev[1].len * prev[2].len = cur[1].len

\* PadStride with a previous write; 0 among the strides is a throw.
StridesAfter(cur, prev) ==
  LET merged == IF Len(cur) < Len(prev) /\ TwoAsOne(cur, prev)
                THEN << cur[1] >> \o SubSeq(prev, 3, Len(prev)) ELSE prev
  IN IF Len(cur) < Len(prev) /\ ~TwoAsOne(cur, prev) THEN << 0 >>
     ELSE FollowStrides([i \in DOMAIN cur |-> cur[i].len], merged)

PadElements == 64

\* PadStride of a first write: contiguous data whose size is a multiple of 64 and
\* large gets a gap.
StridesPadded(cur, dim) ==
  LET strides == [i \in DOMAIN cur |-> cur[i].st]
      lens == [i \in DOMAIN cur |-> cur[i].len]
      b == Len(cur)
      high == b - 1
      lower == Product(SubSeq(lens, 1, high - 1))
      bigger == Max({lens[high], lower})
      highSt == strides[high] + PadElements * IF dim = "second" THEN lens[high - 1] ELSE 1
  IN IF /\ strides = PackFrom(1, lens)
        /\ lens[high] % 64 = 0 \/ lower % 64 = 0
        /\ bigger >= 512
     THEN [strides EXCEPT ![b] = highSt * lens[high], ![high] = highSt,
                          ![high - 1] = IF dim = "second" THEN @ + PadElements ELSE @]
     ELSE strides

\* The lengths that go with the strides of an operation.
OpLength(n, op) == IF op = "read" THEN n.length ELSE OutStrideLength(n)

\* The dimensions of an operation; a distance that is not used is made to fit.
OpDims(n, op, batch) ==
  LET stride == IF op = "read" THEN n.inStride ELSE n.outStride
      dist == IF op = "read" THEN n.iDist ELSE n.oDist
      length == OpLength(n, op)
  IN Dims(length, stride, batch,
          IF batch = 1 THEN ComputePtrdiff(length, stride, 1, 1) ELSE dist)

\* The node with other strides for an operation.
SetStrides(n, op, strides) ==
  IF op = "read" THEN [n EXCEPT !.inStride = Front(strides), !.iDist = Last(strides)]
  ELSE [n EXCEPT !.outStride = Front(strides), !.oDist = Last(strides)]

\* PadStride: prev is empty for the first write.
PadStride(n, op, batch, prev) ==
  LET dims == OpDims(n, op, batch)
      f == Fastest(dims)
      cur == Sorted(dims)
      strides == IF prev = << >> THEN StridesPadded(cur, ForcedPaddingDim(n, op))
                 ELSE StridesAfter(cur, Sorted(prev))
  IN CASE Len(OpLength(n, op)) < 2 -> n
       [] 0 \in ToSet(strides) -> Thrown
       [] OTHER -> SetStrides(n, op, [i \in DOMAIN dims |->
                                        strides[CHOOSE k \in DOMAIN f : f[k] = i]])

------------------------------------------------------------------------------
(* PadPlan. *)

\* The dimension the operations force each other to pad is the same one.
PaddingDimsAgree(root, users) ==
  LET forced(u) == ForcedPaddingDim(At(root, u.path), u.op)
      next(dim, u) ==
        CASE dim = "conflict" -> dim
          [] dim = "any" -> IF forced(u) = "any" THEN "highest" ELSE forced(u)
          [] forced(u) \notin {"any", dim} -> "conflict"
          [] OTHER -> dim
  IN FoldLeft(next, "any", users) # "conflict"

CanPad(root, users) ==
  LET node(u) == At(root, u.path)
      first == IF users[1].op = "read" THEN node(users[1]).inStride ELSE node(users[1]).outStride
  IN /\ Last(users).op = "read"
     /\ \A i \in DOMAIN users :
          /\ users[i].op = "write" /\ users[i].path # << >> =>
               Len(OpLength(node(users[i]), "write"))
                 <= Len(At(root, Front(users[i].path)).length)
          /\ node(users[i]).scheme # "SBCR"
     /\ PaddingDimsAgree(root, users)
     /\ ~ /\ root.arch = "gfx906" /\ Len(first) = 3
          /\ \A i \in 1 .. 2 : IsPo2(first[i]) /\ first[i] > 2048

\* The strides of all users of the buffer, in the order of their operations.
PadUsers(root, users, batch) ==
  LET pad(s, u) ==
        LET n == IF s.root = Thrown THEN Thrown
                 ELSE PadStride(At(s.root, u.path), u.op, batch, s.prev)
        IN IF n = Thrown THEN [s EXCEPT !.root = Thrown]
           ELSE [root |-> Put(s.root, u.path, n),
                 prev |-> IF u.op = "write"
                          THEN Dims(OpLength(n, "write"), n.outStride, batch, n.oDist) ELSE s.prev]
  IN FoldLeft(pad, [root |-> root, prev |-> << >>], users).root

\* PadPlan: at every node that begins to write to a temporary buffer.
PadPlan(root) ==
  LET at(tree, path) ==
        LET n == At(tree, path)
            users == CollectTempBufOps(tree, path, n.obOut, << >>, TRUE)
        IN IF tree # Thrown /\ n.obOut \in PaddableTempBuffers
              /\ (n.obIn # n.obOut \/ ~IsLeaf(n)) /\ CanPad(tree, users)
           THEN PadUsers(tree, users, n.batch) ELSE tree
  IN IF root.iDist = 1 \/ root.oDist = 1 THEN root
     ELSE FoldLeft(at, root, AllPaths(root))

------------------------------------------------------------------------------
(* CollapseContiguousDims. *)

\* The first dimension that may become part of the batch.
FirstCollapsible(n) ==
  CASE n.scheme = "STOCKHAM" -> 2
    [] n.scheme = "SBCC" -> 3
    [] OTHER -> Len(n.length) + 1

\* How many of the highest dimensions are contiguous up to the distance.
Contiguous(first, length, stride, dist) ==
  LET next(i) == IF i = Len(length) THEN dist ELSE stride[i + 1]
  IN Max({c \in 0 .. Len(length) + 1 - first :
            \A i \in Len(length) + 1 - c .. Len(length) : next(i) = stride[i] * length[i]})

Lowest(s, k) == SubSeq(s, 1, Len(s) - k)
Highest(s, k) == SubSeq(s, Len(s) + 1 - k, Len(s))

CollapseLeaf(n) ==
  LET out == OutputLength(n)
      k == Contiguous(FirstCollapsible(n), n.length, n.inStride, n.iDist)
      folded == Product(Highest(n.length, k))
  IN IF /\ k = Contiguous(FirstCollapsible(n), out, n.outStride, n.oDist)
        /\ folded = Product(Highest(out, k))
     THEN [n EXCEPT !.length = Lowest(@, k), !.batch = @ * folded,
                    !.inStride = Lowest(@, k), !.iDist = @ \div folded,
                    !.outStride = Lowest(@, k), !.oDist = @ \div folded,
                    !.outputLength = IF @ = << >> THEN @ ELSE Lowest(@, k)]
     ELSE n

RECURSIVE CollapseContiguousDims(_)
CollapseContiguousDims(n) ==
  IF IsLeaf(n) THEN CollapseLeaf(n)
  ELSE [n EXCEPT !.childNodes = [i \in DOMAIN @ |-> CollapseContiguousDims(@[i])]]

------------------------------------------------------------------------------
\* SanityCheck.
SanityCheck(root) ==
  \A i \in DOMAIN AllPaths(root) :
    LET n == At(root, AllPaths(root)[i])
        ch == n.childNodes
    IN /\ n.obIn \in Buffers /\ n.obOut \in Buffers
       /\ n.placement = PlacementOf(n.obIn, n.obOut)
       /\ StridesMatch(n) /\ n.dimension <= Len(n.length)
       /\ \A k \in DOMAIN ch : ch[k].obIn = IF k = 1 THEN n.obIn ELSE ch[k - 1].obOut

\* Mutation: the padding is forgotten.
BufferMemoryPacked(root, buf) ==
  Max({0} \cup {Product(Leaves(root)[i].length) * Leaves(root)[i].batch :
                  i \in {i \in DOMAIN Leaves(root) : Leaves(root)[i].obOut = buf}})

\* DetermineBufferMemory.
BufferMemory(root, buf) ==
  Max({0} \cup {OutSize(Leaves(root)[i]) :
                  i \in {i \in DOMAIN Leaves(root) : Leaves(root)[i].obOut = buf}})
==============================================================================
