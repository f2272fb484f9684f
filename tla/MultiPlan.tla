------------------------------ MODULE MultiPlan ------------------------------
(***************************************************************************)
(* The multi-plan of rocfft_plan_t: the vector of items a plan consists of *)
(* (multiPlan), the vector of their antecedents (multiPlanAntecedents),    *)
(* the two operations that build it (AddMultiPlanItem, AddAntecedent) and  *)
(* the depth-first search that puts the items in execution order           *)
(* (MultiPlanTopologicalSort, TopologicalSortDFS).                         *)
(*                                                                         *)
(* Items are numbered from 0, as in the code.  The recursion of            *)
(* TopologicalSortDFS is an explicit stack of frames [idx, k]: the item a  *)
(* call is for, and the position in its antecedent list that the call's    *)
(* loop looks at next.                                                     *)
(*                                                                         *)
(* Neither operation looks for dependency cycles: that a plan has none is  *)
(* the callers' doing.  Every caller adds items stage by stage (transform, *)
(* pack, communicate, unpack, transform ...) and names as antecedents only *)
(* items of an earlier stage, though not always of a lower index: the      *)
(* unpack items of GlobalTransposeA2A are added before the all-to-all they *)
(* wait for, and so is the gather of GatherBricksToField before its packs. *)
(* The ghost variable stage records the stage a caller puts an item in.    *)
(***************************************************************************)
EXTENDS Integers, Sequences

CONSTANTS
  MaxItems,  \* bound on the number of items
  MaxAnte,   \* bound on the antecedents of an item
  Stages     \* the stages callers put items in

ASSUME MaxItemsAssumption == MaxItems \in Nat
ASSUME MaxAnteAssumption == MaxAnte \in Nat
ASSUME StagesAssumption == Stages \subseteq Nat

VARIABLES
  phase,      \* "build", "sort" or "done"
  n,          \* multiPlan.size()
  antecedents,\* multiPlanAntecedents
  stage,      \* ghost: the stage of each item
  idx,        \* MultiPlanTopologicalSort's loop variable
  visited,    \* the items whose visited[] flag is set
  stack,      \* the active calls of TopologicalSortDFS, innermost last
  sorted      \* the vector being returned

vars == <<phase, n, antecedents, stage, idx, visited, stack, sorted>>

Items == 0 .. n - 1

\* The elements of a sequence.
Elems(s) == {s[p] : p \in 1 .. Len(s)}

\* A sequence of at most m elements of S.
ListsOf(S, m) == UNION {[1 .. k -> S] : k \in 0 .. m}

Top == stack[Len(stack)]

Pop == SubSeq(stack, 1, Len(stack) - 1)

------------------------------------------------------------------------------
Init ==
  /\ phase = "build"
  /\ n = 0
  /\ antecedents = <<>>
  /\ stage = <<>>
  /\ idx = 0
  /\ visited = {}
  /\ stack = <<>>
  /\ sorted = <<>>

(***************************************************************************)
(* rocfft_plan_t::AddMultiPlanItem: every antecedent has to exist already; *)
(* the new item takes the next index.  The list is kept as it was given.   *)
(* (Vectors are indexed from 0 here: functions with domain 0 .. n-1.)      *)
(***************************************************************************)
AddMultiPlanItem(ante, st) ==
  /\ phase = "build"
  /\ n < MaxItems
  /\ \A p \in 1 .. Len(ante) : ante[p] < n
  /\ \A p \in 1 .. Len(ante) : stage[ante[p]] < st
  /\ antecedents' = [i \in 0 .. n |-> IF i = n THEN ante ELSE antecedents[i]]
  /\ stage' = [i \in 0 .. n |-> IF i = n THEN st ELSE stage[i]]
  /\ n' = n + 1
  /\ UNCHANGED <<phase, idx, visited, stack, sorted>>

(***************************************************************************)
(* rocfft_plan_t::AddAntecedent: both items have to exist and differ; an   *)
(* antecedent that is listed already is not listed again.                  *)
(***************************************************************************)
AddAntecedent(itemIdx, antecedentIdx) ==
  /\ phase = "build"
  /\ itemIdx < n /\ antecedentIdx < n /\ itemIdx # antecedentIdx
  /\ stage[antecedentIdx] < stage[itemIdx]
  /\ Len(antecedents[itemIdx]) < MaxAnte
  /\ antecedents' =
       [antecedents EXCEPT ![itemIdx] =
          IF antecedentIdx \in Elems(@) THEN @ ELSE Append(@, antecedentIdx)]
  /\ UNCHANGED <<phase, n, stage, idx, visited, stack, sorted>>

\* The plan is built, and Execute calls MultiPlanTopologicalSort.
StartSort ==
  /\ phase = "build"
  /\ phase' = "sort"
  /\ UNCHANGED <<n, antecedents, stage, idx, visited, stack, sorted>>

\* MultiPlanTopologicalSort's loop: the next index, visited unless it was.
SortNext ==
  /\ phase = "sort"
  /\ stack = <<>>
  /\ idx < n
  /\ idx' = idx + 1
  /\ IF idx \in visited
       THEN UNCHANGED <<visited, stack>>
       ELSE /\ visited' = visited \cup {idx}
            /\ stack' = Append(stack, [idx |-> idx, k |-> 1])
  /\ UNCHANGED <<phase, n, antecedents, stage, sorted>>

\* Mutation: the search goes into antecedents it has visited already.
DFSAntecedentUnchecked ==
  /\ phase = "sort"
  /\ stack # <<>>
  /\ Top.k <= Len(antecedents[Top.idx])
  /\ visited' = visited \cup {antecedents[Top.idx][Top.k]}
  /\ stack' = Append(Append(Pop, [idx |-> Top.idx, k |-> Top.k + 1]),
                     [idx |-> antecedents[Top.idx][Top.k], k |-> 1])
  /\ UNCHANGED <<phase, n, antecedents, stage, idx, sorted>>

\* Mutation: the loop does not go past an antecedent that was visited.
DFSAntecedentStays ==
  /\ phase = "sort"
  /\ stack # <<>>
  /\ Top.k <= Len(antecedents[Top.idx])
  /\ antecedents[Top.idx][Top.k] \notin visited
  /\ visited' = visited \cup {antecedents[Top.idx][Top.k]}
  /\ stack' = Append(stack, [idx |-> antecedents[Top.idx][Top.k], k |-> 1])
  /\ UNCHANGED <<phase, n, antecedents, stage, idx, sorted>>

\* TopologicalSortDFS's loop: one antecedent, visited unless it was.
DFSAntecedent ==
  /\ phase = "sort"
  /\ stack # <<>>
  /\ Top.k <= Len(antecedents[Top.idx])
  /\ LET adjacent == antecedents[Top.idx][Top.k]
         looped   == Append(Pop, [idx |-> Top.idx, k |-> Top.k + 1])
     IN  IF adjacent \in visited
           THEN /\ stack' = looped
                /\ UNCHANGED visited
           ELSE /\ stack' = Append(looped, [idx |-> adjacent, k |-> 1])
                /\ visited' = visited \cup {adjacent}
  /\ UNCHANGED <<phase, n, antecedents, stage, idx, sorted>>

\* Mutation: the loop ends before the last antecedent.
DFSReturnEarly ==
  /\ phase = "sort"
  /\ stack # <<>>
  /\ Top.k >= Len(antecedents[Top.idx])
  /\ sorted' = Append(sorted, Top.idx)
  /\ stack' = Pop
  /\ UNCHANGED <<phase, n, antecedents, stage, idx, visited>>

\* TopologicalSortDFS after its loop: the item is pushed, the call returns.
DFSReturn ==
  /\ phase = "sort"
  /\ stack # <<>>
  /\ Top.k > Len(antecedents[Top.idx])
  /\ sorted' = Append(sorted, Top.idx)
  /\ stack' = Pop
  /\ UNCHANGED <<phase, n, antecedents, stage, idx, visited>>

SortDone ==
  /\ phase = "sort"
  /\ stack = <<>>
  /\ idx = n
  /\ phase' = "done"
  /\ UNCHANGED <<n, antecedents, stage, idx, visited, stack, sorted>>

Sort == SortNext \/ DFSAntecedent \/ DFSReturn \/ SortDone

Next ==
  \/ \E ante \in ListsOf(Items, MaxAnte), st \in Stages : AddMultiPlanItem(ante, st)
  \/ \E i, a \in Items : AddAntecedent(i, a)
  \/ StartSort
  \/ Sort

Spec == Init /\ [][Next]_vars /\ WF_vars(Sort)

------------------------------------------------------------------------------
(* What the sort promises *)

TypeOK ==
  /\ phase \in {"build", "sort", "done"}
  /\ n \in 0 .. MaxItems
  /\ antecedents \in [Items -> Seq(Items)]
  /\ stage \in [Items -> Stages]
  /\ idx \in 0 .. n
  /\ visited \in SUBSET Items
  /\ stack \in Seq([idx : Items, k : Nat \ {0}])
  /\ sorted \in Seq(Items)

\* Execute walks the vector from its first element to its last and waits
\* for an item's antecedents before it launches the item: at every moment
\* each antecedent of an item in the vector stands before it.
AntecedentsFirst ==
  \A p \in 1 .. Len(sorted) :
    \A a \in Elems(antecedents[sorted[p]]) :
      \E q \in 1 .. p - 1 : sorted[q] = a

\* When the sort is done every item of the plan is in the vector, and none
\* is in it twice: every item is launched, and launched once.
EachItemOnce ==
  /\ \A p, q \in 1 .. Len(sorted) : p # q => sorted[p] # sorted[q]
  /\ phase = "done" => Elems(sorted) = Items

\* The search ends: a sort that starts comes to return its vector.
SortTerminates == phase = "sort" ~> phase = "done"
==============================================================================
