------------------------------- MODULE MCTuning -------------------------------
(***************************************************************************)
(* Tuning of a 2D transform with two equal rows, of the row by itself, and *)
(* of a real transform whose half-length transform is the same row again.  *)
(***************************************************************************)
EXTENDS Tuning, TLC

Leaf(token, scheme, kernel) ==
  [token |-> token, scheme |-> scheme, leaf |-> TRUE, kernel |-> kernel, children |-> <<>>]
Internal(token, scheme, children) ==
  [token |-> token, scheme |-> scheme, leaf |-> FALSE, kernel |-> "", children |-> children]
Builtin(scheme) == Leaf("leafnode_builtin", scheme, "builtin_kernel")

Row == Leaf("64", "CS_KERNEL_STOCKHAM", "kernel_64")
Transpose == Builtin("CS_KERNEL_TRANSPOSE")
Post == Builtin("CS_KERNEL_R_TO_CMPLX")
Callback == Builtin("CS_NONE")

MCProblems == {"row", "square", "real"}
MCTree == "row" :> Row
       @@ "square" :> Internal("64_64", "CS_2D_RTRT", <<Row, Transpose, Row, Transpose>>)
       @@ "real" :> Internal("128_real", "CS_REAL_TRANSFORM_EVEN", <<Row, Post>>)
MCFullToken == "row" :> "64_full" @@ "square" :> "64_64_full" @@ "real" :> "128_real_full"
MCConfigs == "kernel_64" :> (0 :> {<<"a", "b">>} @@ 1 :> {<<>>, <<"c">>})

\* What the tuner wrote for a tree when it found one kernel for all its leaves.
Written(tree, kernel) ==
  LET leaves == Leaves(tree)
      configs == [i \in DOMAIN leaves |->
                    IF leaves[i].kernel = "builtin_kernel" THEN <<>> ELSE <<kernel>>]
      map == SerializeTree(EmptyMap, tree, tree.token, TRUE).map
  IN ExportWinnerToSolutions(
       [map |-> EnumerateKernelConfigs(map, leaves, 0, configs), token |-> tree.token,
        winners |-> [i \in DOMAIN leaves |-> [phase |-> 0, id |-> 0]]])

\* A file of an older library: the real transform starts with a callback, and
\* the trees of the list were merged one after the other.
OldBase(version, trees) ==
  LET add(map, t) == MergeSolution(Written(t, "a"), map, Key(t.token), 0, TRUE).map
      drop(t) == IF t.leaf THEN t
                 ELSE [t EXCEPT !.children = SelectSeq(@, LAMBDA c : c.scheme # "CS_NONE")]
  IN [version |-> version,
      map |-> FoldLeft(add, EmptyMap, trees),
      solutions |-> [k \in {t.token : t \in ToSet(trees)} |->
                       LET t == CHOOSE t \in ToSet(trees) : t.token = k
                       IN SolutionOf(Written(drop(t), "a"), k)]]

OldReal == Internal("128_real", "CS_REAL_TRANSFORM_EVEN", <<Callback, Row, Post>>)

MCBases == {[version |-> 3, map |-> EmptyMap, solutions |-> EmptyMap],
            OldBase(2, <<MCTree["square"], OldReal, Row>>)}

\* Version 0 is converted in two passes.
MCBasesV0 == {OldBase(0, <<OldReal>>)}
==============================================================================
