------------------------------ MODULE PlanBuild ------------------------------
(***************************************************************************)
(* How the plan of a complex transform on one device is made               *)
(* (ProcessNode): the tree is built, buffers are assigned in up to three   *)
(* tries, kernels are fused, temporary data is padded, dimensions are      *)
(* collapsed, and the result is checked.                                   *)
(***************************************************************************)
EXTENDS AssignmentPolicy

------------------------------------------------------------------------------
(***************************************************************************)
(* What a sequence of kernels does to the data, for any values of the      *)
(* data: the reference a plan is compared with.  The elements of a buffer  *)
(* are indexed by digits.  A digit has an axis (the batch is axis 0), a    *)
(* stride in memory and a weight: the digits of an axis that is not        *)
(* transformed yet add up to an index of the input, those of a transformed *)
(* one to an index of the output.  By the identity of Cooley and Tukey, a  *)
(* transform of length len over the input weights w, w * len1, ... gives   *)
(* an output digit of weight N / (w * len), provided that every other pair *)
(* of an output digit and a remaining input digit is multiplied by its     *)
(* twiddle factor exactly once.                                            *)
(***************************************************************************)

Digit(axis, w, len, st, done, from) ==
  [axis |-> axis, w |-> w, len |-> len, st |-> st, done |-> done, from |-> from]

\* The low and the high part of a digit.
LowPart(d, len) == [d EXCEPT !.len = len]
HighPart(d, len) == [d EXCEPT !.len = @ \div len, !.w = @ * len, !.st = @ * len]

NoDigit == [ok |-> FALSE, chain |-> << >>, rest |-> {}]

\* The digits found with the stride st and the strides that follow it, up to the
\* length len; a digit that is longer is split.
RECURSIVE ReadDim(_, _, _)
ReadDim(digits, st, len) ==
  LET here == {d \in digits : d.st = st}
      d == CHOOSE d \in here : TRUE
      then == ReadDim(digits \ {d}, st * d.len, len \div d.len)
  IN CASE len = 1 -> [ok |-> TRUE, chain |-> << >>, rest |-> digits]
       [] Cardinality(here) # 1 -> NoDigit
       [] len % d.len = 0 -> [then EXCEPT !.chain = << d >> \o @]
       [] d.len % len = 0 -> [ok |-> TRUE, chain |-> << LowPart(d, len) >>,
                              rest |-> (digits \ {d}) \cup {HighPart(d, len)}]
       [] OTHER -> NoDigit

\* The digits of every dimension of a kernel, all of them once.
ReadAll(digits, dims) ==
  LET read(r, i) ==
        LET x == ReadDim(r.rest, dims[i].st, dims[i].len)
        IN IF r.ok /\ x.ok THEN [ok |-> TRUE, rest |-> x.rest, chains |-> [r.chains EXCEPT ![i] = x.chain]]
           ELSE [r EXCEPT !.ok = FALSE]
      all == FoldLeft(read, [ok |-> TRUE, rest |-> digits, chains |-> [i \in DOMAIN dims |-> << >>]],
                      Fastest(dims))
  IN [all EXCEPT !.ok = @ /\ all.rest = {}]

\* Digits of one axis whose weights follow one another.
Natural(chain) ==
  \A i \in 1 .. Len(chain) - 1 : /\ chain[i + 1].axis = chain[i].axis
                                 /\ chain[i + 1].done = chain[i].done
                                 /\ chain[i + 1].w = chain[i].w * chain[i].len

ChainLength(chain) == Product([i \in DOMAIN chain |-> chain[i].len])

\* A transform over a dimension, of an axis of length N[axis].
Transformable(chain) == Natural(chain) /\ \A i \in DOMAIN chain : ~chain[i].done
Transformed(chain, N) ==
  IF chain = << >> THEN chain
  ELSE LET c == chain[1]
           len == ChainLength(chain)
       IN << Digit(c.axis, N[c.axis] \div (c.w * len), len, 0, TRUE,
                   {<<chain[i].w, chain[i].len>> : i \in DOMAIN chain}) >>

\* The dimensions a kernel transforms.
FFTDims(n) ==
  CASE n.scheme \in Transposes -> {}
    [] n.scheme = "2D_SINGLE" -> {1, 2}
    [] OTHER -> {1}

\* A digit of weight w and length len is part of one of weight v and length l.
Within(w, len, v, l) == v <= w /\ w * len <= v * l

\* The twiddle factors of k in the output and j in the input.
Twiddle(k, j) == [axis |-> k.axis, k |-> <<k.w, k.len>>, j |-> <<j.w, j.len>>]
Applied(twiddles, axis, k, j) ==
  {t \in twiddles : /\ t.axis = axis
                    /\ Within(k[1], k[2], t.k[1], t.k[2])
                    /\ Within(j[1], j[2], t.j[1], t.j[2])}

\* exp(-2 i pi K J / large1D) is right for the digits of K and J.
TwiddleRight(K, J, large1D, N) ==
  /\ K # << >> /\ J # << >> /\ Natural(K) /\ Natural(J)
  /\ K[1].axis = J[1].axis /\ K[1].done /\ ~J[1].done
  /\ large1D * K[1].w * J[1].w = N[K[1].axis]

\* The data after a kernel: its digits, where they are and the twiddle factors
\* that were applied.
Flow(ok, buf, type, digits, twiddles) ==
  [ok |-> ok, buf |-> buf, type |-> type, digits |-> digits, twiddles |-> twiddles]

\* Two digits never meet at the same element.
Apart(digits) ==
  \A d, e \in digits : d = e \/ d.st * d.len <= e.st \/ e.st * e.len <= d.st

\* Where the dimension i of a kernel is written.
OutStrideOf(n, i) ==
  IF i > Len(n.length) THEN n.oDist
  ELSE IF n.scheme \in SBRCs /\ i \in DOMAIN OutputOrder(n.scheme)
  THEN n.outStride[CHOOSE k \in DOMAIN OutputOrder(n.scheme) : OutputOrder(n.scheme)[k] = i]
  ELSE n.outStride[i]

Placed(chain, st) ==
  {[chain[i] EXCEPT !.st = st * ChainLength(SubSeq(chain, 1, i - 1))] : i \in DOMAIN chain}

\* One kernel.
RunKernel(N, flow, n) ==
  LET dims == Dims(n.length, n.inStride, n.batch, n.iDist)
      r == ReadAll(flow.digits, dims)
      chains == [i \in DOMAIN dims |-> IF i \in FFTDims(n) THEN Transformed(r.chains[i], N)
                                       ELSE r.chains[i]]
      K == chains[1]
      J == chains[IF n.batchIsTransformCount THEN Len(dims) ELSE 2]
      new == IF n.large1D = 0 THEN {}
             ELSE {Twiddle(K[i], J[j]) : i \in DOMAIN K, j \in DOMAIN J}
      digits == UNION {Placed(chains[i], OutStrideOf(n, i)) : i \in DOMAIN dims}
      ok == /\ flow.ok /\ flow.buf = n.obIn /\ flow.type = n.inArrayType /\ StridesMatch(n)
            /\ r.ok /\ \A i \in FFTDims(n) : Transformable(r.chains[i])
            /\ n.large1D # 0 => /\ TwiddleRight(K, J, n.large1D, N)
                                /\ \A t \in new : Applied(flow.twiddles, t.axis, t.k, t.j) = {}
            /\ Apart(digits)
  IN IF ok THEN Flow(TRUE, n.obOut, n.outArrayType, digits, flow.twiddles \cup new)
     ELSE [flow EXCEPT !.ok = FALSE]

\* The user's data: one digit per dimension and one for the batch.
UserDigits(root, stride, dist) ==
  {d \in {Digit(i, 1, root.length[i], stride[i], FALSE, {}) : i \in DOMAIN root.length}
         \cup {Digit(0, 1, root.batch, dist, TRUE, {})} : d.len > 1}

RunPlan(request, leaves) ==
  FoldLeft(LAMBDA flow, n : RunKernel(request.length, flow, n),
           Flow(TRUE, request.obIn, request.inArrayType,
                UserDigits(request, request.inStride, request.iDist), {}), leaves)

\* All axes are transformed, every twiddle factor was applied once, and the data
\* is where the user wants it.
IsTransform(request, flow) ==
  LET dims == Dims(request.length, request.outStride, request.batch, request.oDist)
      out == ReadAll(flow.digits, dims)
  IN /\ flow.ok /\ flow.buf = request.obOut /\ flow.type = request.outArrayType
     /\ out.ok
     /\ \A i \in DOMAIN dims :
          out.chains[i] # << >> =>
            /\ Natural(out.chains[i])
            /\ out.chains[i][1].w = 1 /\ out.chains[i][1].done
            /\ out.chains[i][1].axis = IF i = Len(dims) THEN 0 ELSE i
     /\ \A d, e \in flow.digits :
          d.axis = e.axis /\ d.axis # 0 /\ d.from # e.from =>
            LET first == {x[1] : x \in d.from}
                second == {x[1] : x \in e.from}
            IN Min(first) > Min(second) =>
                 \A x \in e.from : Cardinality(Applied(flow.twiddles, d.axis, <<d.w, d.len>>, x)) = 1

------------------------------------------------------------------------------
CONSTANTS
  Requests    \* root nodes: the transforms to plan

VARIABLES
  request,    \* what the user asked for
  root,       \* execPlan.rootPlan
  phase,      \* what ProcessNode does next
  try,        \* which set of buffers AssignBuffers_internal tries
  candidates, \* winnerCandidates that are not tried yet
  fusions     \* numCurWinnerFusions; -1: no winner yet

vars == <<request, root, phase, try, candidates, fusions>>

Phases == {"build", "enumerate", "try", "decide", "assigned", "fused", "padded", "collapsed",
           "done", "failed"}

\* RecursiveBuildTree gives the root the placement of the request, ProcessNode the
\* buffers.
RootNode(r) ==
  [r EXCEPT !.allowInplace = (r.placement = "inplace"),
            !.allowOutofplace = (r.placement # "inplace"),
            !.obOut = "out", !.obIn = IF r.placement = "inplace" THEN "out" ELSE "in"]

\* There is a scheme for every part of the tree.
Decided(n) == \A i \in DOMAIN AllPaths(n) : At(n, AllPaths(n)[i]).scheme \notin {"NONE", "BLUESTEIN"}

\* Everything an execution needs to know of the array types.
Types(r) == {r.inArrayType, r.outArrayType}

\* availableBuffers, mustUseTBuffer and mustUseCBuffer of a try.
Available == {root.obOut} \cup CASE try = 1 -> {} [] try = 2 -> {"temp"} [] OTHER -> {"temp", "cmplx"}
MustUse == Available \ {root.obOut}
TriedTypes == Types(root) \cup IF try = 3 THEN {"CI"} ELSE {}

Init ==
  /\ request \in {RootNode(r) : r \in Requests}
  /\ root = request
  /\ phase = "build" /\ try = 1 /\ candidates = {} /\ fusions = -1

\* RecursiveBuildTree, CollectLeaves, OrderFuseShims, and the AssignParams that
\* comes with the search for Bluestein nodes.
Build ==
  /\ phase = "build"
  /\ \E tree \in {BuildTree(root)} :
       IF Decided(tree) /\ FusesInOrder(tree)
       THEN root' = AssignParams(tree) /\ phase' = "enumerate"
       ELSE root' = tree /\ phase' = "failed"
  /\ UNCHANGED <<request, try, candidates, fusions>>

\* Enumerate, with what it keeps of the chains: those with the new buffers that
\* fuse more kernels than the winner so far.
EnumerateTry ==
  /\ phase = "enumerate"
  /\ candidates' = {t \in Enumerate(root, Available, TriedTypes) :
                      MustUse \subseteq UsedBuffers(t) /\ NumFusions(root, t) > fusions}
  /\ phase' = "try"
  /\ UNCHANGED <<request, root, try, fusions>>

\* The tree with the buffers of chain t and the strides that follow from them.
Filled(t) == AssignParams(RefreshTree(Backtracking(root, t)))

\* UpdateWinnerFromValidPaths: fill in the best candidate and check it.
TryCandidate ==
  /\ phase = "try"
  /\ \E t \in Best(root, candidates) : \E tree \in {Filled(t)} :
       LET valid == StridesComplete(tree) /\ CheckAssignmentValid(tree)
       IN /\ root' = tree
          /\ candidates' = candidates \ {t}
          /\ fusions' = IF valid THEN NumFusions(tree, t) ELSE fusions
          /\ phase' = CASE ~StridesComplete(tree) -> "failed"
                        [] valid -> "decide"
                        [] OTHER -> "try"
  /\ UNCHANGED <<request, try>>

\* No candidate is left.
NoCandidate ==
  /\ phase = "try" /\ candidates = {}
  /\ phase' = "decide"
  /\ UNCHANGED <<request, root, try, candidates, fusions>>

\* AssignBuffers_internal between its tries, with the strategy "balance": a
\* winner of the second try will do, one of the first only if it fuses all.
Decide ==
  /\ phase = "decide"
  /\ LET satisfied == fusions # -1 /\ (try >= 2 \/ fusions = Cardinality(FuseList(root)))
     IN CASE satisfied -> phase' = "assigned" /\ UNCHANGED try
          [] ~satisfied /\ try < 3 -> phase' = "enumerate" /\ try' = try + 1
          [] OTHER -> phase' = "failed" /\ UNCHANGED try
  /\ candidates' = {}
  /\ UNCHANGED <<request, root, fusions>>

\* ApplyFusion and RefreshTree.
Fuse ==
  /\ phase = "assigned"
  /\ root' = RefreshTree(ApplyFusion(root))
  /\ phase' = "fused"
  /\ UNCHANGED <<request, try, candidates, fusions>>

Pad ==
  /\ phase = "fused"
  /\ \E tree \in {PadPlan(root)} :
       IF tree = Thrown THEN phase' = "failed" /\ UNCHANGED root
       ELSE phase' = "padded" /\ root' = tree
  /\ UNCHANGED <<request, try, candidates, fusions>>

Collapse ==
  /\ phase = "padded"
  /\ root' = CollapseContiguousDims(root)
  /\ phase' = "collapsed"
  /\ UNCHANGED <<request, try, candidates, fusions>>

Check ==
  /\ phase = "collapsed"
  /\ phase' = IF SanityCheck(root) THEN "done" ELSE "failed"
  /\ UNCHANGED <<request, root, try, candidates, fusions>>

Next ==
  \/ Build \/ EnumerateTry \/ TryCandidate \/ NoCandidate \/ Decide
  \/ Fuse \/ Pad \/ Collapse \/ Check

Spec == Init /\ [][Next]_vars

------------------------------------------------------------------------------
\* The phases with buffers and strides that a plan keeps.
Assigned == phase \in {"assigned", "fused", "padded", "collapsed", "done"}

\* The type invariant: an assigned plan gives each kernel buffers, array types and a
\* stride for every length (the assertions of TreeNode::AssignParams).
TypeOK ==
  /\ request \in {RootNode(r) : r \in Requests}
  /\ phase \in Phases /\ try \in 1 .. 3 /\ fusions \in -1 .. 10
  /\ Assigned => \A i \in DOMAIN Leaves(root) :
                   LET n == Leaves(root)[i]
                   IN /\ {n.obIn, n.obOut} \subseteq Buffers
                      /\ {n.inArrayType, n.outArrayType} \subseteq ArrayTypes
                      /\ StridesMatch(n)

\* Every request gets a plan.
PlanCreated == phase # "failed"

\* The kernels of a plan compute the transform of the request, for any data,
\* as soon as they have buffers and strides, and still after every pass.
ComputesTransform == Assigned => IsTransform(request, RunPlan(request, Leaves(root)))

\* A kernel that works in place reads and writes the same elements, also from one
\* transform of a batch to the next.
InPlaceSafe ==
  Assigned => \A i \in DOMAIN Leaves(root) :
                LET n == Leaves(root)[i]
                IN n.obIn = n.obOut => /\ n.scheme \notin OutOfPlaceOnly
                                       /\ n.inStride = n.outStride
                                       /\ n.batch > 1 => n.iDist = n.oDist

\* The kernels write only inside the user's buffers and the work buffer, and never
\* to the input of an out-of-place transform.
InsideBuffers ==
  Assigned => \A i \in DOMAIN Leaves(root) :
                LET n == Leaves(root)[i]
                IN CASE n.obOut \in {"in", "out"} -> /\ n.obOut = request.obOut
                                                     /\ OutSize(n) <= UserBufferSize(request, n.obOut)
                     [] OTHER -> InSize(n) > 0 /\ OutSize(n) <= BufferMemory(root, n.obOut)
==============================================================================
