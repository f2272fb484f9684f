-------------------------------- MODULE Tuning --------------------------------
(***************************************************************************)
(* The offline tuner (rocfft_offline_tuner.cpp, tuning_helper.cpp,         *)
(* tuning_plan_tuner.cpp, tuning_kernel_tuner.cpp), the merge of what it   *)
(* found into a solution map, the converter of old maps, and the plans     *)
(* that the library makes from the map.                                    *)
(*                                                                         *)
(* Each of them is a process that starts with an empty map, reads files    *)
(* and writes one.  The script that calls them runs one at a time.         *)
(*                                                                         *)
(* A tree of the problem is a record: its token, its scheme, whether it is *)
(* a leaf, the token of its kernel and its children.                       *)
(***************************************************************************)
EXTENDS SolutionMap

CONSTANTS
  Problems,   \* the problems that are tuned
  Tree,       \* the tree that RecursiveBuildTree makes for a problem
  FullToken,  \* a problem's token with batch, strides, distances and offsets
  Exact,      \* the problems that may be tuned with TUNE_EXACT_PROB
  Configs,    \* [token of a kernel -> [phase -> sequences of candidates]]
  Bases,      \* the map files at the start: version, map and solutions
  Times,      \* measured times
  Skipped,    \* the time of a candidate that is not run: the largest double
  MaxTunes    \* bound: runs of the tuner

VERSION == 3

VARIABLES
  base,     \* the solution map file: version and map
  results,  \* the file that the last tuning of a root token wrote
  tuner,    \* the tuner's packet and its map, or Idle
  tunes,    \* how often the tuner ran
  merged    \* history: the solution merged last for each root token

vars == <<base, results, tuner, tunes, merged>>

Idle == [stage |-> "idle"]

EmptyMap == <<>>

(* The first plan of a phase: it only enumerates. *)

\* CollectLeaves
RECURSIVE Leaves(_)
Leaves(tree) ==
  IF tree.leaf THEN <<tree>>
  ELSE FoldLeft(LAMBDA done, child : done \o Leaves(child), <<>>, tree.children)

\* SerializeTree: the option of a leaf's kernel is set when the winner is known.
RECURSIVE SerializeTree(_, _, _, _)
SerializeTree(map, tree, token, isRoot) ==
  LET add(done, c) ==
        LET child == SerializeTree(done.map, c, c.token, FALSE)
        IN [map |-> child.map,
            children |-> Append(done.children, SolutionPtr(c.token, child.option))]
      below == FoldLeft(add, [map |-> map, children |-> <<>>], tree.children)
      children == IF tree.leaf THEN <<SolutionPtr(tree.kernel, 0)>> ELSE below.children
      type == IF tree.leaf THEN "LEAF_NODE" ELSE "INTERNAL_NODE"
  IN AddSolution(below.map, Key(token),
                 SolutionNode(type, tree.scheme, NoKernel, children), isRoot, FALSE)

\* EnumerateKernelConfigs: the candidates of each leaf, in order.
EnumerateKernelConfigs(map, leaves, phase, configs) ==
  LET add(m, leaf) ==
        IF leaves[leaf].kernel = "builtin_kernel"
        THEN AddSolution(m, Key("builtin_kernel"), KernelNode(NoKernel, "CS_NONE"), FALSE, TRUE).map
        ELSE FoldLeft(LAMBDA mm, config :
                        AddSolution(mm, CandidateKey(leaves[leaf].kernel, leaf - 1, phase),
                                    KernelNode(config, leaves[leaf].scheme), FALSE, FALSE).map,
                      m, configs[leaf])
  IN FoldLeft(add, map, [i \in DOMAIN leaves |-> i])

\* The candidates that a phase may have for each leaf.  Those of phase 1 are
\* permutations of the best factors of phase 0; there may be none.
PhaseConfigs(leaves, phase) ==
  {f \in [DOMAIN leaves -> UNION {Configs[k][phase] : k \in DOMAIN Configs} \union {<<>>}] :
     \A i \in DOMAIN leaves :
       IF leaves[i].kernel = "builtin_kernel" THEN f[i] = <<>>
       ELSE f[i] \in Configs[leaves[i].kernel][phase]}

(* The tuner. *)

Init ==
  /\ \E b \in Bases : base = [version |-> b.version, map |-> b.map] /\ merged = b.solutions
  /\ results = <<>>
  /\ tuner = Idle
  /\ tunes = 0

\* SetInitStep(0) and the first plan.
StartTune(p, exact, configs) ==
  LET leaves == Leaves(Tree[p])
      token == IF exact THEN FullToken[p] ELSE Tree[p].token
      serialized == SerializeTree(EmptyMap, Tree[p], token, TRUE).map
  IN /\ tuner.stage = "idle" /\ tunes < MaxTunes
     /\ tunes' = tunes + 1
     /\ tuner' = [stage |-> "tuning", token |-> token, leaves |-> leaves, phase |-> 0,
                  node |-> 0, ssn |-> 0, configs |-> configs, infos |-> <<>>,
                  map |-> EnumerateKernelConfigs(serialized, leaves, 0, configs),
                  winners |-> [i \in DOMAIN leaves |-> [phase |-> 0, id |-> 0]],
                  best |-> [i \in DOMAIN leaves |-> Skipped],
                  fastest |-> [i \in DOMAIN leaves |-> {}],
                  fastestTime |-> [i \in DOMAIN leaves |-> Skipped]]
     /\ UNCHANGED <<base, results, merged>>

Candidates(t) == Len(t.configs[t.node + 1])

\* The plan made while a candidate is tested: the library's ApplySolution with
\* the tuner's packet.
TestedPlan(t) ==
  ApplySolution(t.map, Key(t.token), 0,
                <<[node |-> t.node, phase |-> t.phase, ssn |-> t.ssn, winners |-> t.winners]>>,
                <<>>)

\* SetCurrentKernelCandidateId, the plan, its runs, GetCurrBenchmarkInfo and
\* UpdateCurrBenchResult.  The history notes the kernel that the plan really
\* had, when it ran.
Benchmark(ms) ==
  LET n == tuner.node + 1
      ran == IF TestedPlan(tuner).status = "found" THEN {TestedPlan(tuner).kernels[n]} ELSE {}
  IN /\ tuner.stage = "tuning" /\ tuner.ssn < Candidates(tuner)
     /\ tuner' = [tuner EXCEPT
          !.infos = Append(@, [ssn |-> tuner.ssn, ms |-> ms]),
          !.ssn = @ + 1,
          !.fastest[n] = CASE ms < tuner.fastestTime[n] -> ran
                           [] ms = tuner.fastestTime[n] /\ ms # Skipped -> @ \union ran
                           [] OTHER -> @,
          !.fastestTime[n] = IF ms < @ THEN ms ELSE @]
     /\ UNCHANGED <<base, results, tunes, merged>>

\* Mutation: the best of a phase replaces the winner of the phase before.
WinnersNoCompare(t) ==
  LET n == t.node + 1
      front == {i \in DOMAIN t.infos : \A j \in DOMAIN t.infos : t.infos[i].ms <= t.infos[j].ms}
  IN IF t.infos = <<>> THEN {t}
     ELSE {[t EXCEPT !.winners[n] = [phase |-> t.phase, id |-> t.infos[i].ssn],
                     !.best[n] = t.infos[i].ms] : i \in front}

\* FindWinnerForCurrNode: std::sort leaves any of the fastest in front.
FindWinnerForCurrNode(t) ==
  LET n == t.node + 1
      front == {i \in DOMAIN t.infos : \A j \in DOMAIN t.infos : t.infos[i].ms <= t.infos[j].ms}
      better == {i \in front : t.infos[i].ms < t.best[n]}
  IN IF better = {} THEN {t}
     ELSE {[t EXCEPT !.winners[n] = [phase |-> t.phase, id |-> t.infos[i].ssn],
                     !.best[n] = t.infos[i].ms] : i \in better}

NextTuningNode ==
  /\ tuner.stage = "tuning" /\ tuner.ssn = Candidates(tuner)
  /\ tuner.node + 1 < Len(tuner.leaves)
  /\ \E t \in FindWinnerForCurrNode(tuner) :
       tuner' = [t EXCEPT !.node = @ + 1, !.ssn = 0, !.infos = <<>>]
  /\ UNCHANGED <<base, results, tunes, merged>>

LastNodeDone ==
  /\ tuner.stage = "tuning" /\ tuner.ssn = Candidates(tuner)
  /\ tuner.node + 1 = Len(tuner.leaves)

\* SetInitStep(1) and the plan that enumerates the permutations.
NextPhase(configs) ==
  /\ LastNodeDone /\ tuner.phase = 0
  /\ \E t \in FindWinnerForCurrNode(tuner) :
       tuner' = [t EXCEPT !.phase = 1, !.node = 0, !.ssn = 0, !.infos = <<>>,
                          !.configs = configs,
                          !.map = EnumerateKernelConfigs(@, t.leaves, 1, configs)]
  /\ UNCHANGED <<base, results, tunes, merged>>

\* RecursivelyAddSolution of ExportWinnerToSolutions, by reference: the options
\* of the solution in the tuner's own map are overwritten on the way.
RECURSIVE ExportSolution(_, _, _, _, _, _)
ExportSolution(t, done, key, option, isRoot, leaf) ==
  LET node == get_solution_node(done.from, key, option)
      assign(d, child, opt) ==
        [d EXCEPT !.from[key][option + 1].children[child].option = opt]
      winner == t.winners[leaf + 1]
      token == node.children[1].token
      kernel == IF token = "builtin_kernel"
                THEN get_solution_node(done.from, Key(token), winner.id)
                ELSE get_solution_node(done.from, CandidateKey(token, leaf, winner.phase), winner.id)
      inserted == AddSolution(done.map, Key(token), kernel, FALSE, TRUE)
      add(d, i) ==
        LET ptr == get_solution_node(d.from, key, option).children[i]
            child == ExportSolution(t, d, Key(ptr.token), ptr.option, FALSE, d.next)
        IN assign(child, i, child.option)
      below == IF node.type = "LEAF_NODE"
               THEN assign([done EXCEPT !.map = inserted.map, !.next = leaf + 1], 1, inserted.option)
               ELSE FoldLeft(add, done, [i \in DOMAIN node.children |-> i])
      self == AddSolution(below.map, key, get_solution_node(below.from, key, option), isRoot, TRUE)
  IN [below EXCEPT !.map = self.map, !.option = self.option]

ExportWinnerToSolutions(t) ==
  ExportSolution(t, [from |-> t.map, map |-> EmptyMap, next |-> 0, option |-> 0],
                 Key(t.token), 0, TRUE, 0).map

Export ==
  /\ LastNodeDone /\ tuner.phase = 1
  /\ \E t \in FindWinnerForCurrNode(tuner) :
       /\ tuner' = [t EXCEPT !.stage = "exported"]
       /\ results' = Put(results, t.token, ExportWinnerToSolutions(t))
  /\ UNCHANGED <<base, tunes, merged>>

Cleanup ==
  /\ tuner.stage = "exported"
  /\ tuner' = Idle
  /\ UNCHANGED <<base, results, tunes, merged>>

(* The other processes. *)

SolutionOf(map, token) == ApplySolution(map, Key(token), 0, <<>>, <<>>)

\* MergingSolutionsMaps: a base file of another version is not read, and the
\* merge goes on without it.
Merge(token) ==
  LET current == base.version = VERSION
      result == results[token]
      added == MergeSolution(result, IF current THEN base.map ELSE EmptyMap, Key(token), 0, TRUE)
  IN /\ tuner.stage = "idle" /\ token \in DOMAIN results
     /\ Resolves(result, Key(token), 0)
     /\ base' = [version |-> VERSION, map |-> added.map]
     /\ merged' = Put(IF current THEN merged ELSE EmptyMap, token, SolutionOf(result, token))
     /\ UNCHANGED <<results, tuner, tunes>>

\* VersionCheckAndConvert
ConvertBase ==
  /\ tuner.stage = "idle" /\ base.version < VERSION /\ CanConvert(base.map)
  /\ base' = [version |-> VERSION, map |-> Convert(base.map, base.version)]
  /\ UNCHANGED <<results, tuner, tunes, merged>>

Next ==
  \/ \E p \in Problems, exact \in BOOLEAN :
       /\ exact => p \in Exact
       /\ \E configs \in PhaseConfigs(Leaves(Tree[p]), 0) : StartTune(p, exact, configs)
  \/ \E ms \in Times \union {Skipped} : Benchmark(ms)
  \/ NextTuningNode
  \/ tuner.stage = "tuning"
     /\ \E configs \in PhaseConfigs(tuner.leaves, 1) : NextPhase(configs)
  \/ Export
  \/ Cleanup
  \/ \E token \in DOMAIN results : Merge(token)
  \/ ConvertBase

Spec == Init /\ [][Next]_vars

(* Properties. *)

\* A leaf of which some candidate was run is exported with a candidate that was
\* run, and no candidate of it ran faster, in either phase.  (SerializeTree,
\* EnumerateKernelConfigs, RecursivelyApplySol with the packet,
\* FindWinnerForCurrNode and ExportWinnerToSolutions have to agree on the number
\* of a leaf, the phase and the place of a candidate.)
WinnersAreBest ==
  tuner.stage = "exported" =>
    LET plan == SolutionOf(results[tuner.token], tuner.token)
    IN /\ plan.status = "found"
       /\ \A i \in DOMAIN tuner.leaves :
            tuner.fastest[i] # {} => plan.kernels[i] \in tuner.fastest[i]

\* ApplySolution of a new plan: the exact problem first, then the general one.
PlanOf(p) ==
  LET exact == SolutionOf(base.map, FullToken[p])
      general == SolutionOf(base.map, Tree[p].token)
  IN IF exact.status = "found" THEN exact ELSE general

\* The library finds for a problem exactly the tree and kernels that were merged
\* last for it, whatever was merged before or afterwards for other problems that
\* share parts with it, and after the conversion of an old map; and no solution
\* where none was merged.  The kernels are among those that are compiled ahead of
\* time.
PlansUseMerged ==
  base.version = VERSION =>
    /\ \A p \in Problems :
         PlanOf(p) = CASE FullToken[p] \in DOMAIN merged -> merged[FullToken[p]]
                       [] Tree[p].token \in DOMAIN merged /\ FullToken[p] \notin DOMAIN merged
                            -> merged[Tree[p].token]
                       [] OTHER -> Nothing
    /\ \A p \in Problems : ToSet(PlanOf(p).kernels) \ {NoKernel} \subseteq UsedKernels(base.map)
==============================================================================
