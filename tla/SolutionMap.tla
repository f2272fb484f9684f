----------------------------- MODULE SolutionMap -----------------------------
(***************************************************************************)
(* The solution map (solution_map.cpp): for a problem or a kernel, the     *)
(* ways to solve it that were found by tuning.                             *)
(*                                                                         *)
(* A map takes a key to a sequence of solution nodes, its options.  A node *)
(* names its children by token and option, so an option that moves, or is  *)
(* replaced, changes every solution that points to it.  Option 0 of a      *)
(* problem is kept for the problem itself; where the problem is a part of  *)
(* another one, the options from 1 on are used.                            *)
(*                                                                         *)
(* The architecture, which is the same in a key and in all its children,   *)
(* is left out.  A key is <<token>>, or <<token, leaf, phase>> for the     *)
(* candidates of a kernel while a problem is being tuned.  Options count   *)
(* from 0, as in the code.                                                 *)
(***************************************************************************)
EXTENDS Naturals, FiniteSets, Sequences, SequencesExt

CONSTANT SizeT  \* the number of values of a size_t

Key(token) == <<token>>

\* The keys of a kernel's candidates: "_leafnode_<id>_phase_<phase>".
CandidateKey(token, leaf, phase) == <<token, leaf, phase>>

\* ProblemScheme: the schemes that a whole problem can have.
ComputeSchemeIsAProblem(scheme) ==
  scheme \in {"CS_KERNEL_STOCKHAM", "CS_REAL_TRANSFORM_USING_CMPLX", "CS_REAL_TRANSFORM_EVEN",
              "CS_REAL_2D_EVEN", "CS_REAL_3D_EVEN", "CS_BLUESTEIN", "CS_L1D_TRTRT",
              "CS_L1D_CC", "CS_L1D_CRT", "CS_2D_RTRT", "CS_2D_RC", "CS_KERNEL_2D_SINGLE",
              "CS_3D_TRTRTR", "CS_3D_RTRT", "CS_3D_BLOCK_RC", "CS_3D_BLOCK_CR", "CS_3D_RC"}

NoKernel == "EmptyFMKey"

SolutionNode(type, scheme, kernel, children) ==
  [type |-> type, scheme |-> scheme, kernel |-> kernel, children |-> children]

SolutionPtr(token, option) == [token |-> token, option |-> option]

DummySolutionNode == SolutionNode("DUMMY", "CS_NONE", NoKernel, <<>>)

\* The node of a kernel; that of a built-in one has no scheme.
KernelNode(kernel, scheme) ==
  IF kernel = NoKernel THEN SolutionNode("BUILTIN_KERNEL", "CS_NONE", NoKernel, <<>>)
  ELSE SolutionNode("KERNEL_ONLY", scheme, kernel, <<>>)

has_solution_node(map, key, option) == key \in DOMAIN map /\ option < Len(map[key])

get_solution_node(map, key, option) == map[key][option + 1]

Put(map, key, vec) ==
  [k \in DOMAIN map \union {key} |-> IF k = key THEN vec ELSE map[k]]

(* Adding a solution. *)

\* Mutation: the children are not compared.
SameNode(lhs, rhs, map) ==
  /\ <<lhs.type, lhs.scheme, lhs.kernel>> = <<rhs.type, rhs.scheme, rhs.kernel>>
  /\ Len(lhs.children) = Len(rhs.children)

\* Two nodes that mean the same: the options of their children may differ.
RECURSIVE SolutionNodesAreEqual(_, _, _)
SolutionNodesAreEqual(lhs, rhs, map) ==
  /\ <<lhs.type, lhs.scheme, lhs.kernel>> = <<rhs.type, rhs.scheme, rhs.kernel>>
  /\ Len(lhs.children) = Len(rhs.children)
  /\ \A i \in DOMAIN lhs.children :
       LET child(ptr) == get_solution_node(map, Key(ptr.token), ptr.option)
       IN SolutionNodesAreEqual(child(lhs.children[i]), child(rhs.children[i]), map)

\* The options that a new solution is compared with start here.
FirstShared(problem) == IF problem THEN 1 ELSE 0

\* add_solution: the map with the solution, and its option.
AddSolution(map, key, solution, isRootProb, check_dup) ==
  LET problem == /\ ComputeSchemeIsAProblem(solution.scheme)
                 /\ solution.type # "KERNEL_ONLY"
      vec == IF key \in DOMAIN map THEN map[key]
             ELSE IF problem THEN <<DummySolutionNode>> ELSE <<>>
      equal == {i \in FirstShared(problem) + 1 .. Len(vec) :
                  SolutionNodesAreEqual(solution, vec[i], map)}
  IN CASE isRootProb ->
            [map |-> Put(map, key, [vec EXCEPT ![1] = solution]), option |-> 0]
       [] ~isRootProb /\ check_dup /\ equal # {} ->
            [map |-> Put(map, key, vec), option |-> Min(equal) - 1]
       [] OTHER ->
            [map |-> Put(map, key, Append(vec, solution)), option |-> Len(vec)]

\* Every child of the solution, and of its children, is in the map: otherwise
\* get_solution_node throws.
RECURSIVE Resolves(_, _, _)
Resolves(map, key, option) ==
  /\ has_solution_node(map, key, option)
  /\ \A i \in DOMAIN get_solution_node(map, key, option).children :
       LET ptr == get_solution_node(map, key, option).children[i]
       IN Resolves(map, Key(ptr.token), ptr.option)

\* RecursivelyAddSolution of merge_solutions_from_file: the solution is copied
\* with all below it, and the copies point to the options of the target.
RECURSIVE MergeSolution(_, _, _, _, _)
MergeSolution(from, to, key, option, isRoot) ==
  LET solution == get_solution_node(from, key, option)
      add(done, ptr) ==
        LET child == MergeSolution(from, done.map, Key(ptr.token), ptr.option, FALSE)
        IN [map |-> child.map,
            children |-> Append(done.children, SolutionPtr(ptr.token, child.option))]
      below == FoldLeft(add, [map |-> to, children |-> <<>>], solution.children)
  IN AddSolution(below.map, key, [solution EXCEPT !.children = below.children], isRoot, TRUE)

(* Using a solution. *)

Nothing == [status |-> "none", tree |-> <<>>, kernels |-> <<>>]

\* Which kernel a leaf takes.  While a problem is being tuned it is a candidate:
\* the one under test, or the winner so far.
KernelOf(ptr, leaf, tuning) ==
  IF tuning = <<>> \/ ptr.token = "builtin_kernel"
  THEN [key |-> Key(ptr.token), option |-> ptr.option]
  ELSE IF leaf = tuning[1].node
  THEN [key |-> CandidateKey(ptr.token, leaf, tuning[1].phase), option |-> tuning[1].ssn]
  ELSE [key |-> CandidateKey(ptr.token, leaf, tuning[1].winners[leaf + 1].phase),
        option |-> tuning[1].winners[leaf + 1].id]

\* RecursivelyApplySol: the tree of schemes and the kernels of its leaves, which
\* are added to those of the leaves before it.  A kernel's node may not be a
\* part of the tree: "Tree-Decomposition in solution map is invalid".
RECURSIVE ApplySolution(_, _, _, _, _)
ApplySolution(map, key, option, tuning, kernels) ==
  LET node == get_solution_node(map, key, option)
      add(done, ptr) ==
        IF done.status # "found" THEN done
        ELSE LET child == ApplySolution(map, Key(ptr.token), ptr.option, tuning, done.kernels)
             IN [child EXCEPT !.tree = IF child.status = "found"
                                       THEN Append(done.tree, child.tree) ELSE <<>>]
      below == FoldLeft(add, [status |-> "found", tree |-> <<>>, kernels |-> kernels],
                        node.children)
      kernel == KernelOf(node.children[1], Len(kernels), tuning)
  IN CASE ~has_solution_node(map, key, option) -> Nothing
       [] has_solution_node(map, key, option) /\ node.scheme = "CS_NONE" -> Nothing
       [] OTHER ->
          CASE node.type = "INTERNAL_NODE" ->
                 IF node.children = <<>> THEN Nothing
                 ELSE IF below.status # "found" THEN below
                 ELSE [below EXCEPT !.tree = <<node.scheme, below.tree>>]
            [] node.type = "LEAF_NODE" ->
                 IF Len(node.children) # 1 THEN Nothing
                 ELSE IF ~has_solution_node(map, kernel.key, kernel.option) THEN Nothing
                 ELSE [status |-> "found", tree |-> <<node.scheme, <<>>>>,
                       kernels |-> Append(kernels,
                         get_solution_node(map, kernel.key, kernel.option).kernel)]
            [] OTHER -> [Nothing EXCEPT !.status = "throw"]

\* get_typed_nodes_of_tree(SOL_KERNEL_ONLY)
RECURSIVE KernelsOfTree(_, _)
KernelsOfTree(map, node) ==
  IF node.type = "KERNEL_ONLY" THEN {node.kernel}
  ELSE UNION {KernelsOfTree(map, get_solution_node(map, Key(node.children[i].token),
                                                   node.children[i].option)) :
              i \in DOMAIN node.children}

\* The first option of a key is the solution of a problem.
IsRootSolution(node) ==
  \/ node.type = "INTERNAL_NODE"
  \/ node.type = "LEAF_NODE" /\ ComputeSchemeIsAProblem(node.scheme)

\* get_all_kernels(getUsedOnly): what is compiled ahead of time.
UsedKernels(map) ==
  UNION {KernelsOfTree(map, map[key][1]) : key \in {k \in DOMAIN map : IsRootSolution(map[k][1])}}

(* Conversion of a map of an older version, SolutionMapConverter. *)

\* generate_link_info: the pointers to a node, by place.
Pointers(map) ==
  UNION {UNION {{[key |-> k, node |-> n, child |-> c] : c \in DOMAIN map[k][n].children} :
                n \in DOMAIN map[k]} : k \in DOMAIN map}

At(map, p) == map[p.key][p.node].children[p.child]

\* parent_sol_ptrs of the nodes at and behind a position.
PointersFrom(map, key, pos) ==
  {p \in Pointers(map) : Key(At(map, p).token) = key /\ At(map, p).option >= pos}

PointersTo(map, key, pos) ==
  {p \in PointersFrom(map, key, pos) : At(map, p).option = pos}

IsCallback(node) == node.type = "LEAF_NODE" /\ node.scheme = "CS_NONE"

\* remove_solution_node and remove_all_marked, for the node of a callback (an
\* older library put it in the tree; it is read as CS_NONE).  All of them are
\* equal, so there is one of them at most.  A parent loses its first pointer to
\* it; the pointers to the nodes behind it are decremented once for each time
\* that they were linked.
RemoveCallback(map, key, pos, links) ==
  LET behind == PointersFrom(map, key, pos + 1)
      to == PointersTo(map, key, pos)
      cut == {p \in to : \A q \in to : <<q.key, q.node>> = <<p.key, p.node>> => p.child <= q.child}
      moved(p) == IF p \in behind
                  THEN [At(map, p) EXCEPT !.option = (@ + SizeT - links) % SizeT]
                  ELSE At(map, p)
      kept(k, n) == SelectSeq([c \in DOMAIN map[k][n].children |->
                                 [key |-> k, node |-> n, child |-> c]],
                              LAMBDA p : p \notin cut)
      node(k, n) == [map[k][n] EXCEPT !.children = [c \in DOMAIN kept(k, n) |->
                                                      moved(kept(k, n)[c])]]
      vec(k) == [n \in DOMAIN map[k] |-> node(k, n)]
      all == [k \in DOMAIN map |-> IF k = key THEN RemoveAt(vec(k), pos + 1) ELSE vec(k)]
  IN [k \in {k \in DOMAIN all : all[k] # <<>>} |-> all[k]]

Callbacks(map) ==
  UNION {{<<k, n - 1>> : n \in {n \in DOMAIN map[k] : IsCallback(map[k][n])}} : k \in DOMAIN map}

\* remove_invalid_half_lds and remove_callback_nodes both link the nodes, and
\* neither clears the links: a map of version 0 is linked twice.
LinkPasses(version) == IF version = 0 THEN 2 ELSE 1

\* VersionCheckAndConvert of a map without kernels that use half_lds where they
\* may not.  parent_sol_ptrs[0] is read: there has to be a pointer.
CanConvert(map) == \A c \in Callbacks(map) : PointersTo(map, c[1], c[2]) # {}

Convert(map, version) ==
  FoldSet(LAMBDA c, m : RemoveCallback(m, c[1], c[2], LinkPasses(version)), map, Callbacks(map))
==============================================================================
