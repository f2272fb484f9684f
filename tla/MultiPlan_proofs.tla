--------------------------- MODULE MultiPlan_proofs --------------------------
(***************************************************************************)
(* Proofs about MultiPlan: for every plan, however many items it has and   *)
(* in whatever order its antecedents were listed, the vector that          *)
(* MultiPlanTopologicalSort returns is a topological order of the plan.    *)
(***************************************************************************)
EXTENDS MultiPlan, SequenceTheorems, TLAPS

------------------------------------------------------------------------------
(* The inductive invariant *)

\* Callers name only items of an earlier stage as antecedents.
StagesDescend == \A i \in Items : \A a \in Elems(antecedents[i]) : stage[a] < stage[i]

\* The active calls are for items of ever earlier stages.
StackDescends ==
  \A p, q \in 1 .. Len(stack) : p < q => stage[stack[q].idx] < stage[stack[p].idx]

\* An item is visited when its call is active or has returned, not both.
VisitedSplit ==
  /\ visited = Elems(sorted) \cup {stack[p].idx : p \in 1 .. Len(stack)}
  /\ \A p \in 1 .. Len(stack) : stack[p].idx \notin Elems(sorted)

\* An active call has dealt with the antecedents its loop has passed: each
\* is in the vector, or its call is still active.
LoopProgress ==
  \A p \in 1 .. Len(stack) :
    /\ stack[p].k >= 1
    /\ \A j \in 1 .. Len(antecedents[stack[p].idx]) :
         j < stack[p].k => antecedents[stack[p].idx][j] \in visited

NoDuplicates == \A p, q \in 1 .. Len(sorted) : p # q => sorted[p] # sorted[q]

\* The outer loop has visited every index it has passed; nothing happens to
\* the search's state while the plan is built.
OuterLoop ==
  /\ \A i \in 0 .. idx - 1 : i \in visited
  /\ phase = "build" => idx = 0 /\ visited = {} /\ stack = <<>> /\ sorted = <<>>
  /\ phase = "done" => idx = n /\ stack = <<>>

IInv ==
  /\ TypeOK
  /\ StagesDescend
  /\ StackDescends
  /\ VisitedSplit
  /\ LoopProgress
  /\ NoDuplicates
  /\ AntecedentsFirst
  /\ OuterLoop

------------------------------------------------------------------------------
(* Facts about sequences *)

LEMMA ElemsAppend ==
  ASSUME NEW S, NEW s \in Seq(S), NEW x \in S
  PROVE  /\ Append(s, x) \in Seq(S)
         /\ Len(Append(s, x)) = Len(s) + 1
         /\ \A p \in 1 .. Len(s) : Append(s, x)[p] = s[p]
         /\ Append(s, x)[Len(s) + 1] = x
         /\ Elems(Append(s, x)) = Elems(s) \cup {x}
<1>1. /\ Append(s, x) \in Seq(S)
      /\ Len(Append(s, x)) = Len(s) + 1
      /\ \A p \in 1 .. Len(s) : Append(s, x)[p] = s[p]
      /\ Append(s, x)[Len(s) + 1] = x
  OBVIOUS
<1>2. 1 .. Len(s) + 1 = 1 .. Len(s) \cup {Len(s) + 1}
  OBVIOUS
<1>3. QED  BY <1>1, <1>2 DEF Elems

LEMMA PopFacts ==
  ASSUME NEW S, NEW s \in Seq(S), s # <<>>
  PROVE  /\ Len(s) >= 1
         /\ Len(s) \in Nat
         /\ s[Len(s)] \in S
         /\ SubSeq(s, 1, Len(s) - 1) \in Seq(S)
         /\ Len(SubSeq(s, 1, Len(s) - 1)) = Len(s) - 1
         /\ \A p \in 1 .. Len(s) - 1 : SubSeq(s, 1, Len(s) - 1)[p] = s[p]
<1>1. Len(s) \in Nat /\ Len(s) >= 1
  BY EmptySeq
<1>2. \A p \in 1 .. Len(s) : s[p] \in S
  BY ElementOfSeq
<1> DEFINE m == Len(s) - 1
<1>3. m \in Nat /\ m + 1 = Len(s) /\ \A p \in 1 .. m : p \in 1 .. Len(s)
  BY <1>1
<1>4. \A p \in 1 .. m : s[p] \in S
  BY <1>2, <1>3
<1> HIDE DEF m
<1>5. /\ SubSeq(s, 1, m) \in Seq(S)
      /\ Len(SubSeq(s, 1, m)) = IF 1 <= m THEN m - 1 + 1 ELSE 0
      /\ \A i \in 1 .. m - 1 + 1 : SubSeq(s, 1, m)[i] = s[1 + i - 1]
  <2>1. m \in Int /\ 1 \in Int
    BY <1>3
  <2>2. QED  BY <1>4, <2>1, SubSeqProperties
<1>6. Len(SubSeq(s, 1, m)) = m /\ \A p \in 1 .. m : SubSeq(s, 1, m)[p] = s[p]
  <2>1. m - 1 + 1 = m /\ \A p \in 1 .. m : 1 + p - 1 = p
    BY <1>3
  <2>2. QED  BY <1>3, <1>5, <2>1
<1>7. s[Len(s)] \in S
  BY <1>1, <1>2
<1>8. QED  BY <1>1, <1>5, <1>6, <1>7 DEF m

------------------------------------------------------------------------------
(* Type correctness *)

\* Every state of a plan being built or sorted has the types of the code's
\* vectors: in particular no index stored anywhere is out of range.
LEMMA TypeInit == Init => TypeOK
  BY MaxItemsAssumption DEF Init, TypeOK, Items

LEMMA TypeStep == TypeOK /\ [Next]_vars => TypeOK'
<1> SUFFICES ASSUME TypeOK, [Next]_vars PROVE TypeOK'
  OBVIOUS
<1> USE MaxItemsAssumption, MaxAnteAssumption, StagesAssumption
<1>1. ASSUME NEW ante \in ListsOf(Items, MaxAnte), NEW st \in Stages, AddMultiPlanItem(ante, st)
      PROVE  TypeOK'
  <2>1. ante \in Seq(Items)
    BY <1>1 DEF ListsOf
  <2>2. n' = n + 1 /\ n \in Nat /\ n' \in 0 .. MaxItems
    BY <1>1 DEF AddMultiPlanItem, TypeOK
  <2>3. Items' = 0 .. n /\ Items \subseteq Items'
    BY <2>2 DEF Items
  <2>4. \A s \in Seq(Items) : s \in Seq(Items')
    BY <2>3, SeqMonotonic
  <2>5. antecedents' \in [Items' -> Seq(Items')]
    <3>1. ASSUME NEW i \in 0 .. n, i # n
          PROVE  antecedents[i] \in Seq(Items')
      <4>1. i \in Items
        BY <3>1, <2>2 DEF Items
      <4>2. QED  BY <4>1, <2>4 DEF TypeOK
    <3>2. QED  BY <1>1, <2>1, <2>3, <2>4, <3>1 DEF AddMultiPlanItem
  <2>6. stage' \in [Items' -> Stages]
    BY <1>1, <2>2, <2>3 DEF AddMultiPlanItem, TypeOK, Items
  <2>7. stack' = stack /\ sorted' = sorted /\ visited' = visited /\ idx' = idx /\ phase' = phase
    BY <1>1 DEF AddMultiPlanItem
  <2>8. stack \in Seq([idx : Items', k : Nat \ {0}])
    <3>1. [idx : Items, k : Nat \ {0}] \subseteq [idx : Items', k : Nat \ {0}]
      BY <2>3
    <3>2. QED  BY <3>1, SeqMonotonic DEF TypeOK
  <2>9. sorted \in Seq(Items') /\ visited \in SUBSET Items' /\ idx \in 0 .. n'
    <3>1. sorted \in Seq(Items')
      BY <2>4 DEF TypeOK
    <3>2. QED  BY <2>2, <2>3, <3>1 DEF TypeOK
  <2> QED  BY <2>2, <2>5, <2>6, <2>7, <2>8, <2>9 DEF TypeOK
<1>2. ASSUME NEW i \in Items, NEW a \in Items, AddAntecedent(i, a)
      PROVE  TypeOK'
  <2>1. Items' = Items
    BY <1>2 DEF AddAntecedent, Items
  <2>2. Append(antecedents[i], a) \in Seq(Items) /\ antecedents[i] \in Seq(Items)
    BY <1>2 DEF TypeOK
  <2>3. antecedents' \in [Items -> Seq(Items)]
    BY <1>2, <2>2 DEF AddAntecedent, TypeOK
  <2> QED  BY <1>2, <2>1, <2>3 DEF AddAntecedent, TypeOK
<1>3. CASE StartSort
  BY <1>3 DEF StartSort, TypeOK, Items
<1>4. CASE SortNext
  <2>1. idx \in Items /\ Items' = Items
    BY <1>4 DEF SortNext, TypeOK, Items
  <2>2. stack' \in Seq([idx : Items, k : Nat \ {0}])
    <3>1. [idx |-> idx, k |-> 1] \in [idx : Items, k : Nat \ {0}]
      BY <2>1
    <3>2. Append(stack, [idx |-> idx, k |-> 1]) \in Seq([idx : Items, k : Nat \ {0}])
      BY <3>1 DEF TypeOK
    <3>3. QED  BY <1>4, <3>2 DEF SortNext, TypeOK
  <2>3. idx' \in 0 .. n
    <3>1. idx \in 0 .. n /\ n \in 0 .. MaxItems /\ idx < n /\ idx' = idx + 1
      BY <1>4 DEF SortNext, TypeOK
    <3>2. QED  BY <3>1
  <2>4. visited' \in SUBSET Items
    BY <1>4, <2>1 DEF SortNext, TypeOK
  <2> QED  BY <1>4, <2>1, <2>2, <2>3, <2>4 DEF SortNext, TypeOK
<1>5. CASE DFSAntecedent
  <2>1. Items' = Items
    BY <1>5 DEF DFSAntecedent, Items
  <2>2. /\ Len(stack) >= 1
        /\ Top \in [idx : Items, k : Nat \ {0}]
        /\ Pop \in Seq([idx : Items, k : Nat \ {0}])
    BY <1>5, PopFacts DEF DFSAntecedent, TypeOK, Top, Pop
  <2> DEFINE a == antecedents[Top.idx][Top.k]
             looped == Append(Pop, [idx |-> Top.idx, k |-> Top.k + 1])
  <2>3. a \in Items
    <3>1. antecedents[Top.idx] \in Seq(Items) /\ Top.k \in Nat \ {0}
      BY <2>2 DEF TypeOK
    <3>2. QED  BY <1>5, <3>1 DEF DFSAntecedent
  <2>4. looped \in Seq([idx : Items, k : Nat \ {0}])
    <3>1. [idx |-> Top.idx, k |-> Top.k + 1] \in [idx : Items, k : Nat \ {0}]
      BY <2>2
    <3>2. QED  BY <3>1, <2>2
  <2>5. Append(looped, [idx |-> a, k |-> 1]) \in Seq([idx : Items, k : Nat \ {0}])
    <3>1. [idx |-> a, k |-> 1] \in [idx : Items, k : Nat \ {0}]
      BY <2>3
    <3> HIDE DEF looped, a
    <3>2. QED  BY <3>1, <2>4
  <2>6. stack' \in Seq([idx : Items, k : Nat \ {0}]) /\ visited' \in SUBSET Items
    BY <1>5, <2>3, <2>4, <2>5 DEF DFSAntecedent, TypeOK
  <2> QED  BY <1>5, <2>1, <2>6 DEF DFSAntecedent, TypeOK
<1>6. CASE DFSReturn
  <2>1. Items' = Items
    BY <1>6 DEF DFSReturn, Items
  <2>2. /\ Top \in [idx : Items, k : Nat \ {0}]
        /\ Pop \in Seq([idx : Items, k : Nat \ {0}])
    BY <1>6, PopFacts DEF DFSReturn, TypeOK, Top, Pop
  <2>3. Append(sorted, Top.idx) \in Seq(Items)
    BY <2>2 DEF TypeOK
  <2> QED  BY <1>6, <2>1, <2>2, <2>3 DEF DFSReturn, TypeOK
<1>7. CASE SortDone
  BY <1>7 DEF SortDone, TypeOK, Items
<1>8. CASE UNCHANGED vars
  BY <1>8 DEF vars, TypeOK, Items
<1> QED  BY <1>1, <1>2, <1>3, <1>4, <1>5, <1>6, <1>7, <1>8 DEF Next, Sort

\* Every vector, index and loop counter of the plan and of its sort keeps
\* its type: no stored index is ever out of range.
THEOREM TypeCorrect == Spec => []TypeOK
<1>1. Init => TypeOK
  BY TypeInit
<1>2. TypeOK /\ [Next]_vars => TypeOK'
  BY TypeStep
<1> QED  BY <1>1, <1>2, PTL DEF Spec

------------------------------------------------------------------------------
(* The sort *)

\* What the innermost call finds: its item, the calls around it, and the
\* stack its loop leaves behind.
LEMMA TopFacts ==
  ASSUME TypeOK, stack # <<>>
  PROVE  /\ Len(stack) \in Nat /\ Len(stack) >= 1
         /\ Top.idx \in Items /\ Top.k \in Nat \ {0}
         /\ antecedents[Top.idx] \in Seq(Items)
         /\ Top.idx = stack[Len(stack)].idx
         /\ Len(Pop) = Len(stack) - 1
         /\ Pop \in Seq([idx : Items, k : Nat \ {0}])
         /\ \A p \in 1 .. Len(stack) - 1 : Pop[p] = stack[p]
         /\ \A p \in 1 .. Len(stack) : stack[p] \in [idx : Items, k : Nat \ {0}]
<1>1. stack \in Seq([idx : Items, k : Nat \ {0}])
  BY DEF TypeOK
<1>2. /\ Len(stack) >= 1
      /\ Len(stack) \in Nat
      /\ Top \in [idx : Items, k : Nat \ {0}]
      /\ Pop \in Seq([idx : Items, k : Nat \ {0}])
      /\ Len(Pop) = Len(stack) - 1
      /\ \A p \in 1 .. Len(stack) - 1 : Pop[p] = stack[p]
  BY <1>1, PopFacts DEF Top, Pop
<1>3. \A p \in 1 .. Len(stack) : stack[p] \in [idx : Items, k : Nat \ {0}]
  BY <1>1, ElementOfSeq
<1>4. QED  BY <1>2, <1>3 DEF TypeOK, Top

LEMMA InvInit == Init => IInv
<1> SUFFICES ASSUME Init PROVE IInv
  OBVIOUS
<1>1. TypeOK
  BY TypeInit
<1>2. Len(stack) = 0 /\ Len(sorted) = 0 /\ Items = {} /\ Elems(sorted) = {}
  BY DEF Init, Items, Elems
<1>3. QED
  BY <1>1, <1>2 DEF Init, IInv, StagesDescend, StackDescends, VisitedSplit,
    LoopProgress, NoDuplicates, AntecedentsFirst, OuterLoop

\* While the plan is being built the search has not begun.
LEMMA BuildStep ==
  ASSUME IInv, TypeOK', StagesDescend', phase = "build",
         UNCHANGED <<idx, visited, stack, sorted>>,
         phase' \in {"build", "sort"}
  PROVE  IInv'
<1>1. idx' = 0 /\ visited' = {} /\ stack' = <<>> /\ sorted' = <<>>
  BY DEF IInv, OuterLoop
<1>2. Len(stack') = 0 /\ Len(sorted') = 0 /\ Elems(sorted') = {}
  BY <1>1 DEF Elems
<1>3. OuterLoop'
  BY <1>1 DEF OuterLoop
<1>4. VisitedSplit'
  BY <1>1, <1>2 DEF VisitedSplit
<1>5. QED
  BY <1>2, <1>3, <1>4 DEF IInv, StackDescends, LoopProgress, NoDuplicates, AntecedentsFirst

LEMMA InvAddMultiPlanItem ==
  ASSUME IInv, TypeOK', NEW ante \in ListsOf(Items, MaxAnte), NEW st \in Stages,
         AddMultiPlanItem(ante, st)
  PROVE  IInv'
<1>0. n \in Nat /\ n' = n + 1 /\ Items = 0 .. n - 1 /\ Items' = 0 .. n
  BY MaxItemsAssumption DEF AddMultiPlanItem, IInv, TypeOK, Items
<1>1. ASSUME NEW i \in Items', NEW a \in Elems(antecedents'[i])
      PROVE  stage'[a] < stage'[i]
  <2>1. CASE i = n
    <3>1. antecedents'[i] = ante /\ stage'[i] = st
      BY <1>0, <2>1 DEF AddMultiPlanItem
    <3>2. PICK q \in 1 .. Len(ante) : a = ante[q]
      BY <1>1, <3>1 DEF Elems
    <3>3. a \in Items
      BY <3>2, MaxAnteAssumption DEF ListsOf
    <3>4. a # n /\ a \in 0 .. n
      BY <1>0, <3>3
    <3>5. stage'[a] = stage[a]
      BY <3>4 DEF AddMultiPlanItem
    <3> QED  BY <3>1, <3>2, <3>5 DEF AddMultiPlanItem
  <2>2. CASE i # n
    <3>1. i \in Items /\ antecedents'[i] = antecedents[i] /\ stage'[i] = stage[i]
      BY <1>0, <2>2 DEF AddMultiPlanItem
    <3>2. antecedents[i] \in Seq(Items)
      BY <3>1 DEF IInv, TypeOK
    <3>3. a \in Items
      BY <1>1, <3>1, <3>2 DEF Elems
    <3>4. a # n /\ a \in 0 .. n
      BY <1>0, <3>3
    <3>5. stage'[a] = stage[a]
      BY <3>4 DEF AddMultiPlanItem
    <3> QED  BY <1>1, <3>1, <3>5 DEF IInv, StagesDescend
  <2> QED  BY <2>1, <2>2
<1>2. StagesDescend'
  BY <1>1 DEF StagesDescend
<1>3. QED  BY <1>2, BuildStep DEF AddMultiPlanItem

LEMMA InvAddAntecedent ==
  ASSUME IInv, TypeOK', NEW i \in Items, NEW a \in Items, AddAntecedent(i, a)
  PROVE  IInv'
<1>0. Items' = Items /\ stage' = stage
  BY DEF AddAntecedent, Items
<1>1. ASSUME NEW j \in Items, NEW b \in Elems(antecedents'[j])
      PROVE  stage[b] < stage[j]
  <2>1. Elems(Append(antecedents[i], a)) = Elems(antecedents[i]) \cup {a}
    BY ElemsAppend DEF IInv, TypeOK
  <2>2. CASE b \in Elems(antecedents[j])
    BY <2>2 DEF IInv, StagesDescend
  <2>3. CASE b \notin Elems(antecedents[j])
    <3>1. antecedents'[j] # antecedents[j]
      BY <1>1, <2>3
    <3>2. j = i /\ antecedents'[j] = Append(antecedents[i], a)
      BY <3>1 DEF AddAntecedent, IInv, TypeOK
    <3>3. b = a
      BY <1>1, <2>1, <2>3, <3>2
    <3> QED  BY <3>2, <3>3 DEF AddAntecedent
  <2> QED  BY <2>2, <2>3
<1>2. StagesDescend'
  BY <1>0, <1>1 DEF StagesDescend
<1>3. QED  BY <1>2, BuildStep DEF AddAntecedent

LEMMA InvSortNext == ASSUME IInv, TypeOK', SortNext PROVE IInv'
<1>0. Items' = Items /\ Elems(sorted)' = Elems(sorted) /\ idx \in Items /\ idx \in Nat
  BY DEF SortNext, Items, Elems, IInv, TypeOK
<1>1. Len(stack) = 0 /\ stack = <<>>
  BY DEF SortNext
<1>2. visited = Elems(sorted)
  <2>1. 1 .. Len(stack) = {}
    BY <1>1
  <2>2. {stack[p].idx : p \in 1 .. Len(stack)} = {}
    BY <2>1
  <2>3. QED  BY <2>2 DEF IInv, VisitedSplit
<1>3. StagesDescend' /\ NoDuplicates' /\ AntecedentsFirst'
  BY <1>0 DEF SortNext, IInv, StagesDescend, NoDuplicates, AntecedentsFirst
<1>4. CASE idx \in visited
  <2>1. visited' = visited /\ stack' = stack
    BY <1>4 DEF SortNext
  <2>2. OuterLoop'
    <3>1. \A i \in 0 .. idx' - 1 : i \in 0 .. idx - 1 \/ i = idx
      BY <1>0 DEF SortNext
    <3>2. QED  BY <1>4, <2>1, <3>1 DEF SortNext, IInv, OuterLoop
  <2>3. QED
    BY <1>0, <1>1, <1>2, <1>3, <2>1, <2>2
    DEF SortNext, IInv, StackDescends, VisitedSplit, LoopProgress
<1>5. CASE idx \notin visited
  <2>1. visited' = visited \cup {idx} /\ stack' = Append(stack, [idx |-> idx, k |-> 1])
    BY <1>5 DEF SortNext
  <2>2. Len(stack') = 1 /\ stack'[1] = [idx |-> idx, k |-> 1] /\ 1 .. 1 = {1}
    <3>1. [idx |-> idx, k |-> 1] \in [idx : Items, k : Nat \ {0}]
      BY <1>0
    <3>2. stack \in Seq([idx : Items, k : Nat \ {0}])
      BY DEF IInv, TypeOK
    <3>3. QED  BY <1>1, <2>1, <3>1, <3>2, AppendProperties
  <2>3. OuterLoop'
    <3>1. \A i \in 0 .. idx' - 1 : i \in 0 .. idx - 1 \/ i = idx
      BY <1>0 DEF SortNext
    <3>2. QED  BY <2>1, <3>1 DEF SortNext, IInv, OuterLoop
  <2>4. VisitedSplit'
    BY <1>0, <1>2, <1>5, <2>1, <2>2 DEF VisitedSplit
  <2>5. LoopProgress'
    BY <2>2 DEF LoopProgress
  <2>6. StackDescends'
    BY <2>2 DEF StackDescends
  <2>7. QED  BY <1>3, <2>3, <2>4, <2>5, <2>6 DEF IInv
<1>6. QED  BY <1>4, <1>5

LEMMA InvDFSAntecedent == ASSUME IInv, TypeOK', DFSAntecedent PROVE IInv'
<1> DEFINE F == [idx : Items, k : Nat \ {0}]
           m == Len(stack)
           adjacent == antecedents[Top.idx][Top.k]
           looped == Append(Pop, [idx |-> Top.idx, k |-> Top.k + 1])
<1>0. Items' = Items /\ Elems(sorted)' = Elems(sorted)
  BY DEF DFSAntecedent, Items, Elems
<1>1. /\ m \in Nat /\ m >= 1
      /\ Top.idx \in Items /\ Top.k \in Nat \ {0}
      /\ antecedents[Top.idx] \in Seq(Items)
      /\ Top = stack[m]
      /\ Len(Pop) = m - 1
      /\ Pop \in Seq(F)
      /\ \A p \in 1 .. m - 1 : Pop[p] = stack[p]
      /\ \A p \in 1 .. m : stack[p] \in F
  BY TopFacts DEF DFSAntecedent, IInv, Top
<1>2. [idx |-> Top.idx, k |-> Top.k + 1] \in F
  BY <1>1
<1>3. /\ looped \in Seq(F)
      /\ Len(looped) = m
      /\ \A p \in 1 .. m - 1 : looped[p] = stack[p]
      /\ looped[m] = [idx |-> Top.idx, k |-> Top.k + 1]
  <2>1. /\ looped \in Seq(F)
        /\ Len(looped) = Len(Pop) + 1
        /\ \A p \in 1 .. Len(Pop) : looped[p] = Pop[p]
        /\ looped[Len(Pop) + 1] = [idx |-> Top.idx, k |-> Top.k + 1]
    BY <1>1, <1>2, AppendProperties
  <2>2. QED  BY <1>1, <2>1
<1>4. \A p \in 1 .. m : looped[p].idx = stack[p].idx
  <2>1. \A p \in 1 .. m : p = m \/ p \in 1 .. m - 1
    BY <1>1
  <2>2. QED  BY <1>1, <1>3, <2>1
<1>5. adjacent \in Items /\ adjacent \in Elems(antecedents[Top.idx])
  BY <1>1 DEF DFSAntecedent, Elems
<1>6. StagesDescend' /\ NoDuplicates' /\ AntecedentsFirst'
  BY <1>0 DEF DFSAntecedent, IInv, StagesDescend, NoDuplicates, AntecedentsFirst
<1>7. OuterLoop'
  BY DEF DFSAntecedent, IInv, OuterLoop
<1> HIDE DEF adjacent, looped, F
\* The calls that were active, after the loop's step.
<1>8. ASSUME NEW p \in 1 .. m, adjacent \in visited'
      PROVE  /\ looped[p].k >= 1
             /\ \A j \in 1 .. Len(antecedents[looped[p].idx]) :
                  j < looped[p].k => antecedents[looped[p].idx][j] \in visited'
  <2>1. visited \subseteq visited'
    BY DEF DFSAntecedent
  <2>2. CASE p = m
    <3>1. looped[p].idx = Top.idx /\ looped[p].k = Top.k + 1
      BY <1>3, <2>2
    <3>2. ASSUME NEW j \in 1 .. Len(antecedents[Top.idx]), j < Top.k + 1
          PROVE  antecedents[Top.idx][j] \in visited'
      <4>1. CASE j = Top.k
        BY <1>8, <4>1 DEF adjacent
      <4>2. CASE j # Top.k
        <5>1. j < Top.k
          BY <1>1, <3>2, <4>2
        <5>2. m \in 1 .. Len(stack)
          BY <1>1
        <5>3. QED  BY <1>1, <2>1, <5>1, <5>2 DEF IInv, LoopProgress
      <4> QED  BY <4>1, <4>2
    <3>3. QED  BY <1>1, <3>1, <3>2
  <2>3. CASE p # m
    <3>1. p \in 1 .. m - 1 /\ p \in 1 .. Len(stack)
      BY <1>1, <2>3
    <3>2. looped[p] = stack[p]
      BY <1>3, <3>1
    <3>3. QED  BY <2>1, <3>1, <3>2 DEF IInv, LoopProgress
  <2> QED  BY <2>2, <2>3
<1>9. CASE adjacent \in visited
  <2>1. stack' = looped /\ visited' = visited /\ Len(stack') = m
    BY <1>3, <1>9 DEF DFSAntecedent, adjacent, looped
  <2>2. StackDescends'
    BY <1>4, <2>1 DEF DFSAntecedent, IInv, StackDescends
  <2>3. VisitedSplit'
    <3>1. {stack'[p].idx : p \in 1 .. m} = {stack[p].idx : p \in 1 .. m}
      BY <1>4, <2>1
    <3>2. QED  BY <1>0, <1>4, <2>1, <3>1 DEF IInv, VisitedSplit
  <2>4. LoopProgress'
    BY <1>8, <1>9, <2>1 DEF DFSAntecedent, LoopProgress
  <2>5. QED  BY <1>6, <1>7, <2>2, <2>3, <2>4 DEF IInv
<1>10. CASE adjacent \notin visited
  <2>1. stack' = Append(looped, [idx |-> adjacent, k |-> 1]) /\ visited' = visited \cup {adjacent}
    BY <1>10 DEF DFSAntecedent, adjacent, looped
  <2>2. [idx |-> adjacent, k |-> 1] \in F
    BY <1>5 DEF F
  <2>3. /\ Len(stack') = m + 1
        /\ \A p \in 1 .. m : stack'[p] = looped[p]
        /\ stack'[m + 1] = [idx |-> adjacent, k |-> 1]
    BY <1>3, <2>1, <2>2, AppendProperties
  <2>4. \A p \in 1 .. m + 1 : p = m + 1 \/ p \in 1 .. m
    BY <1>1
  <2>5. \A p \in 1 .. m : stage[adjacent] < stage[stack[p].idx]
    <3>1. stage[adjacent] < stage[Top.idx]
      BY <1>1, <1>5 DEF IInv, StagesDescend
    <3>2. ASSUME NEW p \in 1 .. m
          PROVE  stage[Top.idx] <= stage[stack[p].idx]
      <4>1. stage[Top.idx] \in Nat /\ stage[stack[p].idx] \in Nat
        BY <1>1, StagesAssumption DEF IInv, TypeOK, F
      <4>2. p = m \/ p < m
        BY <1>1
      <4>3. QED  BY <1>1, <4>1, <4>2 DEF IInv, StackDescends
    <3>3. ASSUME NEW p \in 1 .. m
          PROVE  stage[adjacent] \in Nat /\ stage[stack[p].idx] \in Nat /\ stage[Top.idx] \in Nat
      BY <1>1, <1>5, StagesAssumption DEF IInv, TypeOK, F
    <3>4. QED  BY <3>1, <3>2, <3>3
  <2>6. StackDescends'
    <3>1. ASSUME NEW p \in 1 .. m + 1, NEW q \in 1 .. m + 1, p < q
          PROVE  stage[stack'[q].idx] < stage[stack'[p].idx]
      <4>1. p \in 1 .. m /\ stack'[p].idx = stack[p].idx
        BY <1>1, <1>4, <2>3, <3>1
      <4>2. CASE q = m + 1
        BY <2>3, <2>5, <4>1, <4>2
      <4>3. CASE q \in 1 .. m
        BY <1>4, <2>3, <3>1, <4>1, <4>3 DEF IInv, StackDescends
      <4> QED  BY <2>4, <4>2, <4>3
    <3>2. QED  BY <2>3, <3>1 DEF DFSAntecedent, StackDescends
  <2>7. VisitedSplit'
    <3>1. {stack'[p].idx : p \in 1 .. m + 1} = {stack[p].idx : p \in 1 .. m} \cup {adjacent}
      <4>1. \A p \in 1 .. m : p \in 1 .. m + 1 /\ stack'[p].idx = stack[p].idx
        BY <1>1, <1>4, <2>3
      <4>2. stack'[m + 1].idx = adjacent /\ m + 1 \in 1 .. m + 1
        BY <1>1, <2>3
      <4>3. QED  BY <2>4, <4>1, <4>2
    <3>2. adjacent \notin Elems(sorted)
      BY <1>10 DEF IInv, VisitedSplit
    <3>3. \A p \in 1 .. m + 1 : stack'[p].idx \notin Elems(sorted)
      <4>1. \A p \in 1 .. m : stack'[p].idx \notin Elems(sorted)
        BY <1>4, <2>3 DEF IInv, VisitedSplit
      <4>2. QED  BY <2>3, <2>4, <3>2, <4>1
    <3>4. visited' = Elems(sorted) \cup {stack'[p].idx : p \in 1 .. m + 1}
      BY <2>1, <3>1 DEF IInv, VisitedSplit
    <3>5. QED  BY <1>0, <2>3, <3>3, <3>4 DEF VisitedSplit
  <2>8. LoopProgress'
    <3>0. antecedents' = antecedents
      BY DEF DFSAntecedent
    <3>1. ASSUME NEW p \in 1 .. m + 1
          PROVE  /\ stack'[p].k >= 1
                 /\ \A j \in 1 .. Len(antecedents[stack'[p].idx]) :
                      j < stack'[p].k => antecedents[stack'[p].idx][j] \in visited'
      <4>1. CASE p = m + 1
        BY <2>3, <4>1
      <4>2. CASE p \in 1 .. m
        BY <1>8, <2>1, <2>3, <4>2
      <4> QED  BY <2>4, <4>1, <4>2
    <3>2. QED  BY <2>3, <3>0, <3>1 DEF LoopProgress
  <2>9. QED  BY <1>6, <1>7, <2>6, <2>7, <2>8 DEF IInv
<1>11. QED  BY <1>9, <1>10

LEMMA InvDFSReturn == ASSUME IInv, TypeOK', DFSReturn PROVE IInv'
<1> DEFINE m == Len(stack)
           l == Len(sorted)
<1>0. Items' = Items /\ antecedents' = antecedents /\ stage' = stage /\ visited' = visited
  BY DEF DFSReturn, Items
<1>1. /\ m \in Nat /\ m >= 1 /\ m \in 1 .. m
      /\ Top.idx \in Items /\ Top.k \in Nat \ {0}
      /\ antecedents[Top.idx] \in Seq(Items)
      /\ Top = stack[m]
      /\ Len(Pop) = m - 1
      /\ \A p \in 1 .. m - 1 : Pop[p] = stack[p]
      /\ \A p \in 1 .. m : stack[p] \in [idx : Items, k : Nat \ {0}]
  BY TopFacts DEF DFSReturn, IInv, Top
<1>2. /\ sorted' = Append(sorted, Top.idx)
      /\ l \in Nat
      /\ Len(sorted') = l + 1
      /\ \A p \in 1 .. l : sorted'[p] = sorted[p]
      /\ sorted'[l + 1] = Top.idx
      /\ Elems(sorted') = Elems(sorted) \cup {Top.idx}
  <2>1. sorted \in Seq(Items) /\ sorted' = Append(sorted, Top.idx)
    BY DEF DFSReturn, IInv, TypeOK
  <2>2. QED  BY <1>1, <2>1, ElemsAppend
<1>3. /\ Len(stack') = m - 1
      /\ \A p \in 1 .. m - 1 : stack'[p] = stack[p] /\ p \in 1 .. m /\ p < m
  <2>1. stack' = Pop
    BY DEF DFSReturn
  <2>2. \A p \in 1 .. m - 1 : p \in 1 .. m /\ p < m
    BY <1>1
  <2>3. QED  BY <1>1, <2>1, <2>2
<1>4. StagesDescend' /\ OuterLoop'
  BY <1>0 DEF DFSReturn, IInv, StagesDescend, OuterLoop
<1>5. \A p \in 1 .. m - 1 : stack[p].idx # Top.idx
  <2>1. ASSUME NEW p \in 1 .. m - 1
        PROVE  stage[Top.idx] < stage[stack[p].idx] /\ stage[Top.idx] \in Nat
    BY <1>1, <1>3, StagesAssumption DEF IInv, StackDescends, TypeOK
  <2>2. QED  BY <2>1
<1>6. StackDescends' /\ LoopProgress'
  BY <1>0, <1>3 DEF IInv, StackDescends, LoopProgress
<1>7. VisitedSplit'
  <2>1. {stack[p].idx : p \in 1 .. m} = {stack'[p].idx : p \in 1 .. m - 1} \cup {Top.idx}
    <3>1. \A p \in 1 .. m : p = m \/ p \in 1 .. m - 1
      BY <1>1
    <3>2. Top.idx = stack[m].idx
      BY <1>1
    <3>3. QED  BY <1>1, <1>3, <3>1, <3>2, Zenon
  <2>2. visited = Elems(sorted) \cup {stack[p].idx : p \in 1 .. m}
    BY DEF IInv, VisitedSplit
  <2>3. visited' = Elems(sorted') \cup {stack'[p].idx : p \in 1 .. m - 1}
    BY <1>0, <1>2, <2>1, <2>2
  <2>4. \A p \in 1 .. m - 1 : stack'[p].idx \notin Elems(sorted')
    BY <1>2, <1>3, <1>5 DEF IInv, VisitedSplit
  <2>5. QED  BY <1>3, <2>3, <2>4 DEF VisitedSplit
<1>8. Top.idx \notin Elems(sorted)
  BY <1>1 DEF IInv, VisitedSplit
<1>9. \A p \in 1 .. l + 1 : p = l + 1 \/ p \in 1 .. l
  BY <1>2
<1>10. NoDuplicates'
  <2>1. \A p \in 1 .. l : sorted[p] # Top.idx
    BY <1>8 DEF Elems
  <2>2. ASSUME NEW p \in 1 .. l + 1, NEW q \in 1 .. l + 1, p # q
        PROVE  sorted'[p] # sorted'[q]
    <3>1. CASE p \in 1 .. l /\ q \in 1 .. l
      BY <1>2, <2>2, <3>1 DEF IInv, NoDuplicates
    <3>2. CASE p = l + 1 /\ q \in 1 .. l
      BY <1>2, <2>1, <3>2
    <3>3. CASE p \in 1 .. l /\ q = l + 1
      BY <1>2, <2>1, <3>3
    <3> QED  BY <1>9, <2>2, <3>1, <3>2, <3>3
  <2>3. QED  BY <1>2, <2>2 DEF NoDuplicates
\* Its loop has passed every antecedent, none is an active call's item (their
\* stages are no earlier), so all of them are in the vector already.
<1>11. ASSUME NEW a \in Elems(antecedents[Top.idx])
       PROVE  \E q \in 1 .. l : sorted[q] = a
  <2>1. PICK j \in 1 .. Len(antecedents[Top.idx]) : a = antecedents[Top.idx][j]
    BY <1>11 DEF Elems
  <2>2. j < Top.k
    <3>1. Top.k > Len(antecedents[Top.idx])
      BY DEF DFSReturn
    <3>2. QED  BY <1>1, <3>1
  <2>3. a \in visited
    BY <1>1, <2>1, <2>2 DEF IInv, LoopProgress
  <2>4. a \in Items
    BY <1>1, <2>1
  <2>5. stage[a] < stage[Top.idx]
    BY <1>1, <1>11 DEF IInv, StagesDescend
  <2>6. ASSUME NEW p \in 1 .. m, stack[p].idx = a
        PROVE  FALSE
    <3>1. p = m \/ p < m
      BY <1>1
    <3>2. stage[a] \in Nat /\ stage[Top.idx] \in Nat
      BY <1>1, <2>4, StagesAssumption DEF IInv, TypeOK
    <3>3. p < m => stage[Top.idx] < stage[a]
      BY <1>1, <2>6 DEF IInv, StackDescends
    <3>4. p = m => a = Top.idx
      BY <1>1, <2>6
    <3>5. QED  BY <2>5, <3>1, <3>2, <3>3, <3>4
  <2>7. a \in Elems(sorted)
    BY <2>3, <2>6 DEF IInv, VisitedSplit
  <2>8. QED  BY <2>7 DEF Elems
<1>12. AntecedentsFirst'
  <2>1. ASSUME NEW p \in 1 .. l + 1, NEW a \in Elems(antecedents[sorted'[p]])
        PROVE  \E q \in 1 .. p - 1 : sorted'[q] = a
    <3>1. CASE p = l + 1
      <4>1. PICK q \in 1 .. l : sorted[q] = a
        BY <1>2, <1>11, <2>1, <3>1
      <4>2. q \in 1 .. p - 1 /\ sorted'[q] = a
        BY <1>2, <3>1, <4>1
      <4>3. QED  BY <4>2
    <3>2. CASE p \in 1 .. l
      <4>1. PICK q \in 1 .. p - 1 : sorted[q] = a
        BY <1>2, <2>1, <3>2 DEF IInv, AntecedentsFirst
      <4>2. q \in 1 .. l
        BY <1>2, <3>2, <4>1
      <4>3. QED  BY <1>2, <4>1, <4>2
    <3> QED  BY <1>9, <3>1, <3>2
  <2>2. QED  BY <1>0, <1>2, <2>1 DEF AntecedentsFirst
<1>13. QED  BY <1>4, <1>6, <1>7, <1>10, <1>12 DEF IInv

LEMMA InvStep == IInv /\ [Next]_vars => IInv'
<1> SUFFICES ASSUME IInv, [Next]_vars PROVE IInv'
  OBVIOUS
<1>0. TypeOK'
  BY TypeStep DEF IInv
<1>1. ASSUME NEW ante \in ListsOf(Items, MaxAnte), NEW st \in Stages, AddMultiPlanItem(ante, st)
      PROVE  IInv'
  BY <1>0, <1>1, InvAddMultiPlanItem
<1>2. ASSUME NEW i \in Items, NEW a \in Items, AddAntecedent(i, a)
      PROVE  IInv'
  BY <1>0, <1>2, InvAddAntecedent
<1>3. CASE StartSort
  <2>1. StagesDescend'
    BY <1>3 DEF StartSort, IInv, StagesDescend, Items
  <2>2. QED  BY <1>0, <1>3, <2>1, BuildStep DEF StartSort
<1>4. CASE SortNext
  BY <1>0, <1>4, InvSortNext
<1>5. CASE DFSAntecedent
  BY <1>0, <1>5, InvDFSAntecedent
<1>6. CASE DFSReturn
  BY <1>0, <1>6, InvDFSReturn
<1>7. CASE SortDone
  BY <1>0, <1>7 DEF SortDone, IInv, StagesDescend, StackDescends, VisitedSplit,
    LoopProgress, NoDuplicates, AntecedentsFirst, OuterLoop, Items, Elems
<1>8. CASE UNCHANGED vars
  BY <1>0, <1>8 DEF vars, IInv, StagesDescend, StackDescends, VisitedSplit,
    LoopProgress, NoDuplicates, AntecedentsFirst, OuterLoop, Items, Elems
<1> QED  BY <1>1, <1>2, <1>3, <1>4, <1>5, <1>6, <1>7, <1>8 DEF Next, Sort

LEMMA Invariance == Spec => []IInv
<1>1. Init => IInv
  BY InvInit
<1>2. IInv /\ [Next]_vars => IInv'
  BY InvStep
<1> QED  BY <1>1, <1>2, PTL DEF Spec

\* At every moment of the sort, and for every plan, each antecedent of an
\* item in the vector stands before the item: Execute, which walks the
\* vector forward, has passed an item's antecedents when it launches it.
THEOREM SortIsTopological == Spec => []AntecedentsFirst
<1>1. IInv => AntecedentsFirst
  BY DEF IInv
<1> QED  BY <1>1, Invariance, PTL

\* The sort returns every item of the plan once, whichever of them are
\* reached through antecedents and whichever by the outer loop.
THEOREM SortIsComplete == Spec => []EachItemOnce
<1>1. IInv => EachItemOnce
  <2> SUFFICES ASSUME IInv PROVE EachItemOnce
    OBVIOUS
  <2>1. ASSUME phase = "done" PROVE Elems(sorted) = Items
    <3>1. idx = n /\ Len(stack) = 0
      BY <2>1 DEF IInv, OuterLoop
    <3>2. {stack[p].idx : p \in 1 .. Len(stack)} = {}
      <4>1. 1 .. Len(stack) = {}
        BY <3>1
      <4>2. QED  BY <4>1
    <3>3. visited = Elems(sorted)
      BY <3>2 DEF IInv, VisitedSplit
    <3>4. Items \subseteq visited
      BY <3>1 DEF IInv, OuterLoop, Items
    <3>5. QED  BY <3>3, <3>4 DEF IInv, TypeOK
  <2>2. QED  BY <2>1 DEF IInv, NoDuplicates, EachItemOnce
<1> QED  BY <1>1, Invariance, PTL
==============================================================================
