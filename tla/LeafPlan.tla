------------------------------ MODULE LeafPlan -------------------------------
(***************************************************************************)
(* Plans for real transforms, for lengths without a kernel and for long    *)
(* lengths: CreatePlan makes the kernels of a plan and allocates its work  *)
(* memory, and the plan is executed again and again on two inputs, kernel  *)
(* by kernel (TransformPowX), with what earlier executions left in the     *)
(* work memory and in the user's buffers.                                  *)
(***************************************************************************)
EXTENDS RealTree, LeafKernels

------------------------------------------------------------------------------
(***************************************************************************)
(* From the children of a real transform's node, or of a complex one       *)
(* without a kernel of its own, to the kernels that are executed: the      *)
(* buffers (assignment_policy.cpp), the fusions of real pre- and post-     *)
(* processing with a transposition (fuse_shim.cpp), the leaves of          *)
(* Bluestein nodes, and the work memory (DetermineBufferMemory).           *)
(*                                                                         *)
(* AssignmentPolicy ranks the valid chains of buffers; here any of them    *)
(* may be taken.                                                           *)
(***************************************************************************)

\* compute_ptrdiff
PtrDiff(length, stride, batch, dist) ==
  LET f[d \in 0 .. Len(length)] ==
        IF d = 0 THEN 1 + (batch - 1) * dist ELSE f[d - 1] + (length[d] - 1) * stride[d]
  IN  f[Len(length)]

Copies == {"COPY_R_TO_CMPLX", "COPY_CMPLX_TO_HERM", "COPY_CMPLX_TO_R", "COPY_HERM_TO_CMPLX"}

PrePost == {"R_TO_CMPLX", "CMPLX_TO_R", "R_TO_CMPLX_TRANSPOSE", "TRANSPOSE_CMPLX_TO_R"}

UseOutputLengthForPadding(l) == l.scheme \in Copies \union PrePost \/ l.eb # "NONE"

OutPtrDiff(l) ==
  PtrDiff(IF UseOutputLengthForPadding(l) THEN l.outputLength ELSE l.length, l.outStride,
          l.batch, l.oDist)

-----------------------------------------------------------------------------
(* The user's buffers. *)

RealIn(node) == node.real /\ node.s = 1

RealOut(node) == node.real /\ node.s # 1

InLen(node) == IF node.real THEN InLength(node) ELSE node.length

OutLen(node) == IF node.real THEN OutLength(node) ELSE node.length

InPtrDiff(node) == PtrDiff(InLen(node), node.inStride, node.batch, node.iDist)

UserOutPtrDiff(node) == PtrDiff(OutLen(node), node.outStride, node.batch, node.oDist)

\* The dimensions of a kernel's output split those of the buffer.
RECURSIVE Decomposes(_, _)
Decomposes(bufLen, nodeLen) ==
  \/ nodeLen = <<>>
  \/ /\ bufLen # <<>>
     /\ Head(bufLen) % Head(nodeLen) = 0
     /\ LET left == Head(bufLen) \div Head(nodeLen)
        IN  Decomposes((IF left = 1 THEN <<>> ELSE <<left>>) \o Tail(bufLen), Tail(nodeLen))

\* dataFits, for the shape of the input or of the output.
DataFits(node, kid, side) ==
  LET isReal == IF side = "in" THEN RealIn(node) ELSE RealOut(node)
      twice == isReal /\ kid.scheme # "COPY_CMPLX_TO_R"
      nodeLen == IF twice THEN [kid.outputLength EXCEPT ![1] = 2 * @] ELSE kid.outputLength
      bufLen == IF side = "in" THEN InLen(node) ELSE OutLen(node)
      unit == IF side = "in"
              THEN UnitStride(node, bufLen, node.inStride, node.iDist)
              ELSE UnitStride(node, bufLen, node.outStride, node.oDist)
  IN  IF unit THEN ProductOf(nodeLen) <= ProductOf(bufLen) ELSE Decomposes(bufLen, nodeLen)

ValidOutBuffer(node, kid, buf) ==
  CASE buf \in {"TEMP", "CMPLX"} -> TRUE
    [] kid.scheme \in {"COPY_R_TO_CMPLX", "COPY_HERM_TO_CMPLX"} -> FALSE
    [] buf = "IN" -> DataFits(node, kid, "in")
    [] buf = "OUT" -> \/ DataFits(node, kid, "out")
                      \/ node.real /\ node.inplace /\ DataFits(node, kid, "in")

\* CheckAssignmentValid
CheckAssignmentValid(node, kid, from, to) ==
  /\ to = "IN" => OutPtrDiff(kid) <= InPtrDiff(node)
  /\ to = "OUT" => \/ OutPtrDiff(kid) <= UserOutPtrDiff(node)
                   \/ node.inplace /\ OutPtrDiff(kid) <= InPtrDiff(node)
  /\ from = to => kid.inStride = kid.outStride

\* The input may be written by an inverse real transform only.
UserBuffers(node) == {"OUT"} \union (IF RealOut(node) THEN {node.obIn} ELSE {})

\* Enumerate: the buffers every kernel writes, in order.
Enumerate(node, kids, buffers) ==
  LET placed(kid, from, to) ==
        /\ (IF from = to THEN "inplace" ELSE "notinplace") \in kid.allowed
        /\ ValidOutBuffer(node, kid, to)
        /\ CheckAssignmentValid(node, kid, from, to)
      extend(chain, kid) ==
        LET from == IF chain = <<>> THEN node.obIn ELSE chain[Len(chain)]
        IN  {Append(chain, to) : to \in {b \in buffers : placed(kid, from, b)}}
      f[i \in 0 .. Len(kids)] ==
        IF i = 0 THEN {<<>>} ELSE UNION {extend(chain, kids[i]) : chain \in f[i - 1]}
  IN  {chain \in f[Len(kids)] : chain[Len(kids)] = "OUT"}

\* AssignBuffers_internal: a second temporary buffer when one is not enough.
Chains(node, kids) ==
  LET two == Enumerate(node, kids, UserBuffers(node) \union {"TEMP"})
  IN  IF two # {} THEN two
      ELSE Enumerate(node, kids, UserBuffers(node) \union {"TEMP", "CMPLX"})

Assigned(node, kids, chain) ==
  [i \in DOMAIN kids |->
     [kids[i] EXCEPT !.obIn = IF i = 1 THEN node.obIn ELSE chain[i - 1], !.obOut = chain[i]]]

-----------------------------------------------------------------------------
(* FuseKernels.  i is the first of the two kernels; the kernel after them  *)
(* reads another buffer when the pair would be in place.                   *)

HasKernel(l) == l.scheme = "FFT" /\ l.length[1] \in DOMAIN TransformsPerBlock

\* CheckSchemeFusable and PlacementFusable
Fusable(leaves, i) ==
  /\ i + 2 <= Len(leaves)
  /\ \/ /\ leaves[i].scheme = "R_TO_CMPLX"
        /\ leaves[i + 1].scheme \in {"TRANSPOSE", "TRANSPOSE_Z_XY"}
     \/ /\ leaves[i].scheme \in {"TRANSPOSE", "TRANSPOSE_XY_Z"}
        /\ leaves[i + 1].scheme = "CMPLX_TO_R"
  /\ HasKernel(leaves[i + 2]) \/ leaves[i].obIn # leaves[i + 1].obOut

\* Mutation: the kernel after the pair keeps its buffer.
FuseTargetKept(fused, first, second, next) ==
  <<IF first.obIn # second.obOut THEN [fused EXCEPT !.obOut = second.obOut]
    ELSE [fused EXCEPT !.obOut = first.obOut], next>>

FuseTarget(fused, first, second, next) ==
  IF first.obIn # second.obOut THEN <<[fused EXCEPT !.obOut = second.obOut], next>>
  ELSE <<[fused EXCEPT !.obOut = first.obOut], [next EXCEPT !.obIn = first.obOut]>>

FuseR2CTrans(r2c, trans, next) ==
  FuseTarget([r2c EXCEPT !.scheme = "R_TO_CMPLX_TRANSPOSE", !.oDist = trans.oDist,
                         !.outStride = Perm(trans.outStride, IF trans.scheme = "TRANSPOSE"
                                                             THEN <<2, 1>> ELSE <<2, 3, 1>>),
                         !.outputLength = trans.outputLength], r2c, trans, next)

FuseTransC2R(trans, c2r, next) ==
  LET p == IF trans.scheme = "TRANSPOSE" THEN <<1, 2>> ELSE <<1, 3, 2>>
  IN  FuseTarget([trans EXCEPT !.scheme = "TRANSPOSE_CMPLX_TO_R", !.length = Perm(@, p),
                               !.inStride = Perm(@, p), !.oDist = c2r.oDist,
                               !.outStride = c2r.outStride, !.outputLength = c2r.outputLength],
                 trans, c2r, next)

FusedAt(leaves, i) ==
  SubSeq(leaves, 1, i - 1)
    \o (IF leaves[i].scheme = "R_TO_CMPLX"
        THEN FuseR2CTrans(leaves[i], leaves[i + 1], leaves[i + 2])
        ELSE FuseTransC2R(leaves[i], leaves[i + 1], leaves[i + 2]))
    \o SubSeq(leaves, i + 3, Len(leaves))

RECURSIVE Fused(_)
Fused(leaves) ==
  LET can == {i \in DOMAIN leaves : Fusable(leaves, i)}
  IN  IF can = {} THEN leaves ELSE Fused(FusedAt(leaves, CHOOSE i \in can : TRUE))

-----------------------------------------------------------------------------
(* The leaves and their memory. *)

\* A transform without a kernel is a Bluestein node.
RECURSIVE Expanded(_, _)
Expanded(leaves, root) ==
  LET l == Head(leaves)
      node == [length |-> l.length, inStride |-> l.inStride, outStride |-> l.outStride,
               iDist |-> l.iDist, oDist |-> l.oDist, batch |-> l.batch, s |-> l.s,
               obIn |-> l.obIn, obOut |-> l.obOut, root |-> root]
  IN  IF leaves = <<>> THEN <<>>
      ELSE (IF l.scheme # "FFT" \/ l.dim > 1 \/ HasKernel(l) THEN <<l>> ELSE BluesteinLeaves(node))
             \o Expanded(Tail(leaves), root)

LargestOf(S) == CHOOSE m \in S \union {0} : \A o \in S : o <= m

\* Mutation: a kernel writes as much as it reads.
LeafSizeInput(l) == PtrDiff(l.length, l.outStride, l.batch, l.oDist)

\* DetermineBufferMemory, in complex elements
LeafSize(l) ==
  IF l.fuseBlue = "NONE" THEN OutPtrDiff(l) ELSE l.lengthBlue + (l.batch - 1) * l.oDistBlue

DetermineBufferMemory(leaves) ==
  LET all == {leaves[i] : i \in DOMAIN leaves}
      writing(b) == {l \in all : l.obOut = b}
      more(l) == IF l.fuseBlue = "NONE" THEN 0 ELSE l.lengthBlue
      chirp == LargestOf({l.lengthBlue : l \in {k \in all : k.scheme = "CHIRP"}})
      largest(b) == LargestOf({LeafSize(l) : l \in writing(b)})
  IN  [TEMP |-> largest("TEMP"), CMPLX |-> largest("CMPLX"),
       BLUE |-> LargestOf({LeafSize(l) + more(l) : l \in writing("BLUE")}) + chirp]

\* The slots of every buffer.
BufferSlots(node, leaves) ==
  LET in == IF RealIn(node) THEN InPtrDiff(node) ELSE 2 * InPtrDiff(node)
      out == IF RealOut(node) THEN UserOutPtrDiff(node) ELSE 2 * UserOutPtrDiff(node)
      work == DetermineBufferMemory(leaves)
  IN  [IN |-> IF node.inplace THEN 0 ELSE in,
       OUT |-> IF node.inplace THEN LargestOf({in, out}) ELSE out,
       TEMP |-> 2 * work.TEMP, CMPLX |-> 2 * work.CMPLX, BLUE |-> 2 * work.BLUE]

------------------------------------------------------------------------------
CONSTANTS Nodes,       \* the transforms, a sequence of root nodes
          TrtrtFactor  \* [length |-> lenFactor1] of the lengths that
                       \* DecideNodeScheme gives to CS_L1D_TRTRT

VARIABLES node,    \* the root node, <<>> before a transform is asked for
          data,    \* what the user's buffers hold: the two inputs and outputs
          leaves,  \* execSeq, <<>> before the plan is created
          pc,      \* the next kernel
          kernel,  \* what the threads of the launched kernel do, <<>> when none is
          input,   \* the input of this execution, 1 or 2
          mem

vars == <<node, data, leaves, pc, kernel, input, mem>>

-----------------------------------------------------------------------------
(* The kernels of a plan. *)

\* TRTRT1DNode of one dimension and unit strides.
TRTRTKids(n) ==
  LET N == n.length[1]
      n1 == TrtrtFactor[N]
      n0 == N \div n1
      trans(length) == TransposeKid(n, "TRANSPOSE", length)
  IN  <<Laid(trans(<<n0, n1>>), <<1, n0>>, n.iDist, <<n1, 1>>, n.oDist),
        SameLaid(FFTKid(n, 1, <<n1, n0>>), <<1, n1>>, n.oDist),
        [Laid(trans(<<n1, n0>>), <<1, n1>>, n.oDist, <<n0, 1>>, n.oDist) EXCEPT !.large1D = N],
        SameLaid(FFTKid(n, 1, <<n0, n1>>), <<1, n0>>, n.oDist),
        Laid(trans(<<n0, n1>>), <<1, n0>>, n.oDist, <<n1, 1>>, n.oDist)>>

ComplexKids(n) ==
  IF n.length[1] \in DOMAIN TrtrtFactor THEN TRTRTKids(n)
  ELSE <<Laid(FFTKid(n, 1, n.length), n.inStride, n.iDist, n.outStride, n.oDist)>>

Kids(n) == IF n.real THEN Flattened(RealKids(n)) ELSE ComplexKids(n)

PlanLeaves(n, kids, chain) == Expanded(Fused(Assigned(n, kids, chain)), ~n.real)

-----------------------------------------------------------------------------
(* The data: generic numbers, so that the result tells linear maps apart.  *)

Generic(i, v) == Mod(Mod(i * i + 71 * v) * 31 + 17 * i + v)

\* Element t of batch b of the input v: a real number or a complex one.
Sample(n, v, b, t) ==
  LET i == t + b * ProductOf(n.length) + 1
  IN  <<Generic(i, v), IF n.real THEN 0 ELSE Generic(i + 500, v)>>

Whole(n, v, b) == Table([t \in 0 .. ProductOf(n.length) - 1 |-> Sample(n, v, b, t)])

\* The half of a spectrum that is kept.
HalfOf(x, n) ==
  LET half == ComplexLength(n.length)
      from(t) == (t % half[1]) + n.length[1] * (t \div half[1])
  IN  Table([t \in 0 .. ProductOf(half) - 1 |-> x[from(t)]])

Spectrum(n, v, b, s) == DFTAlong(Whole(n, v, b), n.length, 1, Len(n.length), s)

\* What batch b of the input and of the output hold.
InputArray(n, v, b) ==
  IF RealOut(n) THEN HalfOf(Spectrum(n, v, b, 1), n) ELSE Whole(n, v, b)

OutputArray(n, v, b) ==
  CASE RealIn(n) -> HalfOf(Spectrum(n, v, b, 1), n)
    [] RealOut(n) -> [t \in 0 .. ProductOf(n.length) - 1 |->
                        Scale(ProductOf(n.length), Sample(n, v, b, t))]
    [] OTHER -> Spectrum(n, v, b, n.s)

\* The slots of an array laid out in a buffer.
ArraySlots(n, isReal, length, stride, dist, Array(_)) ==
  LET at(t, b) == Place(t, length, stride) + b * dist
      slots(b, x) == UNION {IF isReal THEN {<<at(t, b), x[t][1]>>}
                            ELSE {<<2 * at(t, b), x[t][1]>>, <<2 * at(t, b) + 1, x[t][2]>>}
                              : t \in DOMAIN x}
  IN  FromPairs(UNION {slots(b, Array(b)) : b \in 0 .. n.batch - 1})

InputSlots(n, v) ==
  LET array(b) == InputArray(n, v, b)
  IN  ArraySlots(n, RealIn(n), InLen(n), n.inStride, n.iDist, array)

OutputSlots(n, v) ==
  LET array(b) == OutputArray(n, v, b)
  IN  ArraySlots(n, RealOut(n), OutLen(n), n.outStride, n.oDist, array)

\* The user fills the input buffer; the gaps in it keep what they hold.
WithInput(n, m, new) ==
  [m EXCEPT ![n.obIn] = [i \in DOMAIN @ |-> IF i \in DOMAIN new THEN new[i] ELSE @[i]]]

Allocated(slots) ==
  [b \in DOMAIN slots |-> [i \in 0 .. slots[b] - 1 |-> Generic(i, 9)]]

-----------------------------------------------------------------------------

Kernel(l, m) ==
  CASE l.scheme \in Copies -> r2c_copy(l, m)
    [] l.scheme \in {"R_TO_CMPLX", "CMPLX_TO_R"} -> realcomplex_even(l, m)
    [] l.scheme \in {"R_TO_CMPLX_TRANSPOSE", "TRANSPOSE_CMPLX_TO_R"} ->
         realcomplex_even_transpose(l, m)
    [] l.scheme \in {"TRANSPOSE", "TRANSPOSE_XY_Z", "TRANSPOSE_Z_XY"} -> transpose(l, m)
    [] l.scheme = "CHIRP" -> bluestein_multi_chirp(l, m)
    [] l.scheme \in {"PAD_MUL", "FFT_MUL", "RES_MUL"} -> bluestein_multi(l, m)
    [] l.scheme = "BLUESTEIN_SINGLE" -> bluestein_single(l, m)
    [] l.scheme \in {"BLUE_BLOCK_CC", "BLUE_BLOCK_RC"} -> bluestein_fused(l, m)
    [] l.scheme = "FFT" -> fft(l, m)

Init ==
  /\ node = <<>>
  /\ data = <<>>
  /\ leaves = <<>>
  /\ pc = 0
  /\ kernel = <<>>
  /\ input = 1
  /\ mem = <<>>

\* The user describes a transform.
Describe(i) ==
  /\ node = <<>>
  /\ node' = Nodes[i]
  /\ data' = [v \in 1 .. 2 |-> [in |-> InputSlots(Nodes[i], v), out |-> OutputSlots(Nodes[i], v)]]
  /\ UNCHANGED <<leaves, pc, kernel, input, mem>>

CreatePlan ==
  /\ node # <<>> /\ leaves = <<>>
  /\ \E kids \in {Kids(node)} :
       \E chain \in Chains(node, kids) : leaves' = PlanLeaves(node, kids, chain)
  /\ mem' = WithInput(node, Allocated(BufferSlots(node, leaves')), data[1].in)
  /\ pc' = 1
  /\ UNCHANGED <<node, data, kernel, input>>

\* One iteration of the loop over execSeq in TransformPowX: the kernel is launched
\* and, the stream being in order, done before the next one.
Launch(schemes) ==
  /\ pc \in DOMAIN leaves
  /\ kernel = <<>>
  /\ leaves[pc].scheme \in schemes
  /\ kernel' = Kernel(leaves[pc], mem)
  /\ UNCHANGED <<node, data, leaves, pc, input, mem>>

Done ==
  /\ kernel # <<>>
  /\ mem' = After(kernel, mem)
  /\ pc' = pc + 1
  /\ kernel' = <<>>
  /\ UNCHANGED <<node, data, leaves, input>>

\* The plan is executed again, on the other input.
NewExecution ==
  /\ leaves # <<>>
  /\ pc = Len(leaves) + 1
  /\ input' = 3 - input
  /\ mem' = WithInput(node, mem, data[input'].in)
  /\ pc' = 1
  /\ UNCHANGED <<node, data, leaves, kernel>>

Copy == Launch(Copies)
Process == Launch({"R_TO_CMPLX", "CMPLX_TO_R"})
ProcessTransposed == Launch({"R_TO_CMPLX_TRANSPOSE", "TRANSPOSE_CMPLX_TO_R"})
Transpose == Launch({"TRANSPOSE", "TRANSPOSE_XY_Z", "TRANSPOSE_Z_XY"})
ChirpSetup == Launch({"CHIRP"})
BluesteinMultiply == Launch({"PAD_MUL", "FFT_MUL", "RES_MUL"})
BluesteinSingle == Launch({"BLUESTEIN_SINGLE"})
BluesteinBlock == Launch({"BLUE_BLOCK_CC", "BLUE_BLOCK_RC"})
Transform == Launch({"FFT"})

Next ==
  \/ \E i \in DOMAIN Nodes : Describe(i)
  \/ CreatePlan
  \/ Copy \/ Process \/ ProcessTransposed \/ Transpose
  \/ ChirpSetup \/ BluesteinMultiply \/ BluesteinSingle \/ BluesteinBlock \/ Transform
  \/ Done \/ NewExecution

Spec == Init /\ [][Next]_vars

-----------------------------------------------------------------------------
(* Properties. *)

\* After every execution the output buffer holds the transform of the input of this
\* execution, whatever the work memory held before, whichever valid buffers the
\* assignment chose and whichever kernels were fused.
OutputIsTransform ==
  leaves # <<>> /\ pc = Len(leaves) + 1 =>
    \A i \in DOMAIN data[input].out : mem["OUT"][i] = data[input].out[i]

\* No thread of a kernel writes what another thread of it reads or writes: kernels
\* that work in place, and those with tiles at the edges of the data, need no more
\* order than their barriers give.
KernelsRaceFree == RaceFree(kernel)

\* The kernels stay inside the user's buffers and inside the parts of the work
\* memory that DetermineBufferMemory counts.
InsideBuffers == Inside(kernel, mem)
==============================================================================
