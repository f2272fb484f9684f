-------------------------- MODULE PlanExecute_proofs --------------------------
(***************************************************************************)
(* Proofs about PlanExecute: for any number of ranks, any plan whose order *)
(* is topological and any number of executions, Execute sends only data    *)
(* that is ready, returns only when nothing runs, never runs two items     *)
(* that conflict at the same time if the plan orders them, and never gets  *)
(* stuck unless launching an item throws.                                  *)
(***************************************************************************)
EXTENDS PlanExecute, WellFoundedInduction, TLAPS

USE DEF N, Items, Ante, On, Msgs

------------------------------------------------------------------------------
(* The inductive invariant *)

\* What runs on a rank executes there and has been launched in the execution
\* that the rank is in.
RunningLaunched == \A r \in Ranks : \A i \in running[r] : i < pos[r] /\ r \in On[i]

\* What an item that the loop has passed waited for does not run any more.
PassedWaited ==
  \A r \in Ranks, k \in Items : k < pos[r] => Ante[k] \cap running[r] = {}

\* What has been received has been sent, in the same execution.
ReceivedSent ==
  \A d \in Ranks, i \in Items :
    round[d] > 0 /\ pos[d] > i /\ i \notin running[d] =>
      \A m \in Msgs[i] : m[2] = d => Posted(m[1], i, round[d])

IInv ==
  /\ TypeOK
  /\ RunningLaunched
  /\ PassedWaited
  /\ ReceivedSent
  /\ NothingRunsAfterReturn

------------------------------------------------------------------------------
(* Steps *)

\* A plan is as PlanAssumption, OrderAssumption and MsgsAssumption say.
LEMMA PlanFacts ==
  ASSUME TypeOK
  PROVE  /\ N \in Nat /\ MaxRounds \in Nat /\ Ranks # {}
         /\ Ante \in [Items -> SUBSET Items]
         /\ On \in [Items -> SUBSET Ranks]
         /\ Msgs \in [Items -> SUBSET (Ranks \X Ranks)]
         /\ \A i \in Items : \A a \in Ante[i] : a < i
         /\ \A i \in Items : \A m \in Msgs[i] : m[1] \in On[i] /\ m[2] \in On[i]
  BY PlanAssumption, OrderAssumption, MsgsAssumption DEF TypeOK

\* No step changes the plan.
LEMMA SamePlan ==
  ASSUME [Next]_vars
  PROVE  plan' = plan
  BY DEF Next, vars, Begin, ExecuteItem, Launch, Fail, Finish, Complete

\* What a rank has launched in an execution stays launched.
LEMMA PostedStays ==
  ASSUME TypeOK, [Next]_vars, NEW r \in Ranks, NEW i \in Items, NEW k \in Nat, Posted(r, i, k)
  PROVE  Posted(r, i, k)'
<1>0. N \in Nat /\ MaxRounds \in Nat
  BY PlanFacts
<1>1. round[r] \in Nat /\ pos[r] \in Nat /\ i \in Nat /\ i <= N
  BY <1>0 DEF TypeOK
<1>2. CASE UNCHANGED vars
  BY <1>2 DEF vars, Posted
<1>3. ASSUME NEW s \in Ranks, Begin(s)
      PROVE  Posted(r, i, k)'
  BY <1>0, <1>1, <1>3 DEF TypeOK, Begin, Posted
<1>4. ASSUME NEW s \in Ranks, ExecuteItem(s)
      PROVE  Posted(r, i, k)'
  BY <1>0, <1>1, <1>4 DEF TypeOK, ExecuteItem, Launch, Posted
<1>5. ASSUME NEW s \in Ranks, Fail(s)
      PROVE  Posted(r, i, k)'
  BY <1>0, <1>1, <1>5 DEF TypeOK, Fail, Launch, Posted
<1>6. ASSUME NEW s \in Ranks, Finish(s)
      PROVE  Posted(r, i, k)'
  BY <1>0, <1>1, <1>6 DEF TypeOK, Finish, CanFinish, Posted
<1>7. ASSUME NEW s \in Ranks, NEW j \in Items, Complete(s, j)
      PROVE  Posted(r, i, k)'
  BY <1>7 DEF Complete, Posted
<1> QED
  BY <1>2, <1>3, <1>4, <1>5, <1>6, <1>7 DEF Next

\* The same for what a rank d that stays in its execution has received.
LEMMA SentStays ==
  ASSUME TypeOK, [Next]_vars, NEW r \in Ranks, NEW d \in Ranks, NEW i \in Items,
         round'[d] = round[d], Posted(r, i, round[d])
  PROVE  Posted(r, i, round[d])'
<1>1. round[d] \in Nat
  BY PlanFacts DEF TypeOK
<1>2. PICK k \in Nat : k = round[d]
  BY <1>1
<1>3. Posted(r, i, k)
  BY <1>2 DEF Posted
<1>4. Posted(r, i, k)'
  BY <1>3, PostedStays
<1> QED
  BY <1>2, <1>4 DEF Posted

LEMMA TypeStep ==
  ASSUME TypeOK, [Next]_vars
  PROVE  TypeOK'
<1>0. N \in Nat /\ MaxRounds \in Nat
  BY PlanFacts
<1>1. CASE UNCHANGED vars
  BY <1>1 DEF vars, TypeOK
<1>2. ASSUME NEW r \in Ranks, Begin(r)
      PROVE  TypeOK'
  BY <1>0, <1>2 DEF TypeOK, Begin, CanBegin
<1>3. ASSUME NEW r \in Ranks, ExecuteItem(r)
      PROVE  TypeOK'
  BY <1>0, <1>3 DEF TypeOK, ExecuteItem, CanExecuteItem, Launch
<1>4. ASSUME NEW r \in Ranks, Fail(r)
      PROVE  TypeOK'
  BY <1>0, <1>4 DEF TypeOK, Fail, CanExecuteItem, Launch
<1>5. ASSUME NEW r \in Ranks, Finish(r)
      PROVE  TypeOK'
  BY <1>0, <1>5 DEF TypeOK, Finish
<1>6. ASSUME NEW r \in Ranks, NEW i \in Items, Complete(r, i)
      PROVE  TypeOK'
  BY <1>6 DEF TypeOK, Complete
<1> QED
  BY <1>1, <1>2, <1>3, <1>4, <1>5, <1>6 DEF Next

LEMMA BeginStep ==
  ASSUME IInv, NEW r \in Ranks, Begin(r)
  PROVE  IInv'
<1>0. N \in Nat /\ MaxRounds \in Nat /\ plan' = plan
  BY PlanFacts, SamePlan DEF IInv, Next
<1>1. TypeOK'
  BY TypeStep DEF IInv, Next
<1>2. running[r] = {}
  BY DEF IInv, Begin, CanBegin, NothingRunsAfterReturn
<1>3. RunningLaunched'
  BY <1>2, <1>0 DEF IInv, TypeOK, RunningLaunched, Begin
<1>4. PassedWaited'
  BY <1>0, <1>2 DEF IInv, TypeOK, PassedWaited, Begin
<1>5. ASSUME NEW d \in Ranks, NEW i \in Items, (round[d] > 0 /\ pos[d] > i /\ i \notin running[d])',
             NEW m \in Msgs[i], m[2] = d
      PROVE  Posted(m[1], i, round[d])'
  <2>1. d # r
    BY <1>0, <1>5 DEF IInv, TypeOK, Begin
  <2>2. round'[d] = round[d] /\ pos'[d] = pos[d] /\ running'[d] = running[d]
    BY <2>1 DEF IInv, TypeOK, Begin
  <2>3. Posted(m[1], i, round[d])
    BY <1>5, <2>2 DEF IInv, ReceivedSent
  <2>4. m[1] \in Ranks
    BY PlanFacts DEF IInv
  <2>5. round[d] \in Nat
    BY <1>0 DEF IInv, TypeOK
  <2> QED
    BY <2>2, SentStays, <2>3, <2>4, <2>5 DEF IInv, Next
<1>6. ReceivedSent'
  BY <1>0, <1>5 DEF ReceivedSent
<1>7. NothingRunsAfterReturn'
  BY <1>0 DEF IInv, TypeOK, NothingRunsAfterReturn, Begin
<1> QED
  BY <1>1, <1>3, <1>4, <1>6, <1>7 DEF IInv

\* An item is launched, wholly, or in part by a launch that throws.
LEMMA LaunchStep ==
  ASSUME IInv, NEW r \in Ranks, ExecuteItem(r) \/ Fail(r), Launch(r)
  PROVE  IInv'
<1>0. N \in Nat /\ MaxRounds \in Nat /\ plan' = plan
  BY PlanFacts, SamePlan DEF IInv, Next
<1> DEFINE here == pos[r]
<1>1. TypeOK'
  BY TypeStep DEF IInv, Next
<1>2. here \in Items /\ Ante[here] \cap running[r] = {}
  BY DEF ExecuteItem, Fail, CanExecuteItem, Waited
<1>3. \A s \in Ranks : s # r => pos'[s] = pos[s] /\ running'[s] = running[s]
  BY DEF IInv, TypeOK, Launch
<1>4. pos'[r] = here + 1 /\ round' = round
  BY DEF IInv, TypeOK, Launch, ExecuteItem, Fail
<1>5. \/ r \in On[here] /\ running'[r] = running[r] \cup {here}
      \/ r \notin On[here] /\ running'[r] = running[r]
  BY DEF IInv, TypeOK, Launch
<1>6. RunningLaunched'
  <2>1. ASSUME NEW s \in Ranks, NEW i \in running'[s]
        PROVE  i < pos'[s] /\ s \in On[i]
    <3>1. CASE s # r
      BY <1>3, <2>1, <3>1 DEF IInv, RunningLaunched
    <3>2. CASE s = r /\ i = here
      <4>1. i \notin running[r]
        BY <1>2, <3>2 DEF IInv, RunningLaunched
      <4> QED
        BY <1>2, <1>4, <1>5, <2>1, <3>2, <4>1
    <3>3. CASE s = r /\ i # here
      <4>1. i \in running[r]
        BY <1>5, <2>1, <3>3
      <4>2. i < here /\ r \in On[i] /\ i \in Items
        BY <4>1 DEF IInv, RunningLaunched, TypeOK
      <4> QED
        BY <1>2, <1>4, <3>3, <4>2
    <3> QED
      BY <3>1, <3>2, <3>3
  <2> QED
    BY <1>0, <2>1 DEF RunningLaunched
<1>7. PassedWaited'
  <2>1. ASSUME NEW s \in Ranks, NEW k \in Items, k < pos'[s]
        PROVE  Ante[k] \cap running'[s] = {}
    <3>1. CASE s # r
      BY <1>3, <2>1, <3>1 DEF IInv, PassedWaited
    <3>2. CASE s = r
      <4>1. k <= here
        BY <1>2, <1>4, <2>1, <3>2
      <4>2. Ante[k] \cap running[r] = {}
        <5>1. CASE k = here
          BY <1>2, <5>1
        <5>2. CASE k # here
          BY <1>2, <4>1, <5>2 DEF IInv, PassedWaited
        <5> QED
          BY <5>1, <5>2
      <4>3. here \notin Ante[k]
        <5>1. \A a \in Ante[k] : a < k
          BY PlanFacts DEF IInv
        <5> QED
          BY <5>1, <4>1, <1>2
      <4> QED
        BY <1>5, <3>2, <4>2, <4>3
    <3> QED
      BY <3>1, <3>2
  <2> QED
    BY <1>0, <2>1 DEF PassedWaited
<1>8. ASSUME NEW d \in Ranks, NEW i \in Items, round'[d] > 0, pos'[d] > i, i \notin running'[d],
             NEW m \in Msgs[i], m[2] = d
      PROVE  Posted(m[1], i, round[d])'
  <2>1. m[1] \in Ranks /\ d \in On[i]
    BY <1>8, PlanFacts DEF IInv
  <2>2. pos[d] > i /\ i \notin running[d]
    <3>1. CASE d # r
      BY <1>3, <1>8, <3>1
    <3>2. CASE d = r
      <4>1. i # here
        BY <1>5, <1>8, <2>1, <3>2
      <4> QED
        BY <1>2, <1>4, <1>5, <1>8, <3>2, <4>1
    <3> QED
      BY <3>1, <3>2
  <2>3. Posted(m[1], i, round[d])
    BY <1>4, <1>8, <2>2 DEF IInv, ReceivedSent
  <2> QED
    BY <1>4, <2>1, <2>3, SentStays DEF IInv, Next
<1>9. ReceivedSent'
  BY <1>0, <1>8 DEF ReceivedSent
<1>10. NothingRunsAfterReturn'
  BY <1>0, <1>2, <1>3, <1>4 DEF IInv, NothingRunsAfterReturn
<1> QED
  BY <1>1, <1>6, <1>7, <1>9, <1>10 DEF IInv

LEMMA CompleteStep ==
  ASSUME IInv, NEW r \in Ranks, NEW j \in Items, Complete(r, j)
  PROVE  IInv'
<1>0. N \in Nat /\ MaxRounds \in Nat /\ plan' = plan
  BY PlanFacts, SamePlan DEF IInv, Next
<1>1. TypeOK'
  BY TypeStep DEF IInv, Next
<1>2. pos' = pos /\ round' = round
  BY DEF Complete
<1>3. \A s \in Ranks : running'[s] \subseteq running[s] /\ (s # r => running'[s] = running[s])
  BY DEF IInv, TypeOK, Complete
<1>4. \A i \in running[r] : i # j => i \in running'[r]
  BY DEF IInv, TypeOK, Complete
<1>5. RunningLaunched' /\ PassedWaited' /\ NothingRunsAfterReturn'
  BY <1>0, <1>2, <1>3 DEF IInv, RunningLaunched, PassedWaited, NothingRunsAfterReturn
<1>6. ASSUME NEW d \in Ranks, NEW i \in Items, round'[d] > 0, pos'[d] > i, i \notin running'[d],
             NEW m \in Msgs[i], m[2] = d
      PROVE  Posted(m[1], i, round[d])'
  <2>1. m[1] \in Ranks
    BY PlanFacts DEF IInv
  <2>2. CASE i \in running[d]
    <3>1. d = r /\ i = j
      BY <1>3, <1>4, <1>6, <2>2
    <3>2. Posted(m[1], i, round[d])
      BY <1>6, <3>1 DEF Complete, CanComplete
    <3> QED
      BY <1>2, <2>1, <3>2, SentStays DEF IInv, Next
  <2>3. CASE i \notin running[d]
    <3>1. Posted(m[1], i, round[d])
      BY <1>2, <1>6, <2>3 DEF IInv, ReceivedSent
    <3> QED
      BY <1>2, <2>1, <3>1, SentStays DEF IInv, Next
  <2> QED
    BY <2>2, <2>3
<1>7. ReceivedSent'
  BY <1>0, <1>6 DEF ReceivedSent
<1> QED
  BY <1>1, <1>5, <1>7 DEF IInv

LEMMA FinishStep ==
  ASSUME IInv, NEW r \in Ranks, Finish(r)
  PROVE  IInv'
<1>0. N \in Nat /\ MaxRounds \in Nat /\ plan' = plan
  BY PlanFacts, SamePlan DEF IInv, Next
<1>1. TypeOK'
  BY TypeStep DEF IInv, Next
<1>2. pos[r] = N + 1 /\ running[r] = {}
  BY DEF Finish, CanFinish
<1>3. /\ pos'[r] = N + 2 /\ round' = round /\ running' = running
      /\ \A s \in Ranks : s # r => pos'[s] = pos[s]
  BY DEF IInv, TypeOK, Finish
<1>4. RunningLaunched'
  BY <1>0, <1>2, <1>3 DEF IInv, RunningLaunched
<1>5. PassedWaited'
  BY <1>0, <1>2, <1>3 DEF IInv, PassedWaited
<1>6. ASSUME NEW d \in Ranks, NEW i \in Items, round'[d] > 0, pos'[d] > i, i \notin running'[d],
             NEW m \in Msgs[i], m[2] = d
      PROVE  Posted(m[1], i, round[d])'
  <2>1. m[1] \in Ranks
    BY PlanFacts DEF IInv
  <2>2. pos[d] > i
    BY <1>0, <1>2, <1>3, <1>6
  <2>3. Posted(m[1], i, round[d])
    BY <1>3, <1>6, <2>2 DEF IInv, ReceivedSent
  <2> QED
    BY <1>3, <2>1, <2>3, SentStays DEF IInv, Next
<1>7. ReceivedSent'
  BY <1>0, <1>6 DEF ReceivedSent
<1>8. NothingRunsAfterReturn'
  BY <1>0, <1>2, <1>3 DEF IInv, NothingRunsAfterReturn
<1> QED
  BY <1>1, <1>4, <1>5, <1>7, <1>8 DEF IInv

LEMMA InitIInv == Init => IInv
<1> HAVE Init
<1>1. TypeOK
  BY PlanAssumption DEF Init, TypeOK
<1>2. RunningLaunched /\ PassedWaited /\ NothingRunsAfterReturn
  BY DEF Init, RunningLaunched, PassedWaited, NothingRunsAfterReturn
<1>3. ReceivedSent
  BY DEF Init, ReceivedSent
<1> QED
  BY <1>1, <1>2, <1>3 DEF IInv

LEMMA StepIInv == IInv /\ [Next]_vars => IInv'
<1> SUFFICES ASSUME IInv, [Next]_vars
             PROVE  IInv'
  OBVIOUS
<1>1. CASE UNCHANGED vars
  BY <1>1 DEF vars, IInv, TypeOK, RunningLaunched, PassedWaited, ReceivedSent, Posted,
              NothingRunsAfterReturn
<1>2. ASSUME NEW r \in Ranks, Fail(r)
      PROVE  IInv'
  <2>1. TypeOK'
    BY <1>2, TypeStep DEF IInv, Next
  <2>2. CASE Launch(r)
    BY <1>2, <2>2, LaunchStep
  <2>3. CASE UNCHANGED <<pos, running>>
    BY <1>2, <2>1, <2>3 DEF Fail, IInv, RunningLaunched, PassedWaited, ReceivedSent, Posted,
                            NothingRunsAfterReturn
  <2> QED
    BY <1>2, <2>2, <2>3 DEF Fail
<1>3. ASSUME NEW r \in Ranks, ExecuteItem(r)
      PROVE  IInv'
  BY <1>3, LaunchStep DEF ExecuteItem
<1> QED
  BY <1>1, <1>2, <1>3, BeginStep, CompleteStep, FinishStep DEF Next

\* The invariant holds in every reachable state.
THEOREM Invariance == Spec => []IInv
<1>1. Init => IInv
  BY InitIInv
<1>2. IInv /\ [Next]_vars => IInv'
  BY StepIInv
<1> QED
  BY <1>1, <1>2, PTL DEF Spec

------------------------------------------------------------------------------
(* What it implies *)

\* The variables of rocfft_plan_t::Execute keep their types on every rank.
THEOREM TypeCorrect == Spec => []TypeOK
<1>1. IInv => TypeOK
  BY DEF IInv
<1> QED
  BY <1>1, Invariance, PTL

\* When Execute returns on a rank, nothing it launched there is running.
THEOREM ReturnsWhenFinished == Spec => []NothingRunsAfterReturn
<1>1. IInv => NothingRunsAfterReturn
  BY DEF IInv
<1> QED
  BY <1>1, Invariance, PTL

\* What a rank has received with an item was ready when it was sent: on the
\* sender, every antecedent of the item had completed, in the same execution.
THEOREM SendsReadyData == Spec => []DataReadyBeforeSent
<1>1. ASSUME IInv
      PROVE  DataReadyBeforeSent
  <2>1. ASSUME NEW d \in Ranks, NEW i \in Items, round[d] > 0, pos[d] > i, i \notin running[d],
               NEW m \in Msgs[i], m[2] = d, NEW a \in Ante[i], m[1] \in On[a]
        PROVE  Finished(m[1], a, round[d])
    <3>1. m[1] \in Ranks /\ a \in Items /\ a < i
      BY <1>1, PlanFacts DEF IInv
    <3>2. Posted(m[1], i, round[d])
      BY <1>1, <2>1 DEF IInv, ReceivedSent
    <3>3. CASE round[m[1]] > round[d]
      BY <3>3 DEF Finished
    <3>4. CASE round[m[1]] = round[d] /\ pos[m[1]] > i
      <4>1. a \notin running[m[1]]
        BY <1>1, <3>1, <3>4 DEF IInv, PassedWaited
      <4>2. pos[m[1]] > a
        BY <1>1, <3>1, <3>4, PlanFacts DEF IInv, TypeOK
      <4> QED
        BY <3>4, <4>1, <4>2 DEF Finished
    <3> QED
      BY <3>2, <3>3, <3>4 DEF Posted
  <2> QED
    BY <2>1 DEF DataReadyBeforeSent
<1> QED
  BY <1>1, Invariance, PTL

\* If the plan orders its conflicts, items that conflict never run on a rank
\* at the same time, however the streams are scheduled.
THEOREM ConflictsExcluded ==
  ASSUME ConflictsWaited
  PROVE  Spec => []NoConflict
<1>1. ASSUME IInv
      PROVE  NoConflict
  <2>1. ASSUME NEW r \in Ranks, NEW i \in running[r], NEW j \in running[r], i < j
        PROVE  <<r, i, j>> \notin plan.overwrites /\ <<r, j, i>> \notin plan.overwrites
    <3>1. i \in Items /\ j \in Items /\ r \in On[i] /\ r \in On[j] /\ j < pos[r]
      BY <1>1 DEF IInv, TypeOK, RunningLaunched
    <3>2. ASSUME <<r, i, j>> \in plan.overwrites \/ <<r, j, i>> \in plan.overwrites
          PROVE  FALSE
      <4>1. PICK k \in i + 1 .. j : i \in Ante[k]
        BY <1>1, <2>1, <3>1, <3>2, ConflictsWaited DEF ConflictsWaited, IInv, TypeOK
      <4>2. k \in Items /\ k < pos[r]
        BY <1>1, <3>1, <4>1, PlanFacts DEF IInv, TypeOK
      <4> QED
        BY <1>1, <4>1, <4>2 DEF IInv, PassedWaited
    <3> QED
      BY <3>2
  <2>2. \A r \in Ranks : \A i \in running[r] : i \in Int
    BY <1>1, PlanFacts DEF IInv, TypeOK
  <2>3. ASSUME NEW r \in Ranks, NEW i \in running[r], NEW j \in running[r], i # j
        PROVE  <<r, i, j>> \notin plan.overwrites
    <3>1. i < j \/ j < i
      BY <2>2, <2>3
    <3> QED
      BY <2>1, <3>1
  <2> QED
    BY <2>3 DEF NoConflict
<1> QED
  BY <1>1, Invariance, PTL

------------------------------------------------------------------------------
(* Nobody is stuck *)

LEMMA Least ==
  ASSUME NEW S \in SUBSET Nat, S # {}
  PROVE  \E x \in S : \A y \in S : x <= y
<1>1. PICK x \in S : \A y \in S : ~ (<<y, x>> \in OpToRel(<, Nat))
  BY NatLessThanWellFounded, WFMin
<1>2. \A y \in S : ~ (y < x)
  BY <1>1 DEF OpToRel
<1> QED
  BY <1>2

\* A rank behind which there is none: in the earliest execution, and of those
\* in that execution at the earliest item.
LEMMA RankBehind ==
  ASSUME TypeOK
  PROVE  \E r \in Ranks : \A s \in Ranks :
           round[s] > round[r] \/ (round[s] = round[r] /\ pos[s] >= pos[r])
<1>0. \A s \in Ranks : round[s] \in Nat /\ pos[s] \in Nat
  BY PlanFacts DEF TypeOK
<1> DEFINE rounds == {round[s] : s \in Ranks}
<1>1. PICK k \in rounds : \A y \in rounds : k <= y
  <2>1. rounds \in SUBSET Nat /\ rounds # {}
    BY <1>0, PlanFacts
  <2> QED
    BY <2>1, Least
<1> DEFINE first == {s \in Ranks : round[s] = k}
           places == {pos[s] : s \in first}
<1>2. PICK p \in places : \A y \in places : p <= y
  <2>1. places \in SUBSET Nat /\ places # {}
    BY <1>0, <1>1
  <2> QED
    BY <2>1, Least
<1>3. PICK r \in first : pos[r] = p
  BY <1>2
<1>4. ASSUME NEW s \in Ranks
      PROVE  round[s] > round[r] \/ (round[s] = round[r] /\ pos[s] >= pos[r])
  <2>1. k <= round[s]
    BY <1>1
  <2>2. CASE round[s] = k
    BY <1>0, <1>2, <1>3, <2>2
  <2>3. CASE round[s] # k
    BY <1>0, <1>1, <1>3, <2>1, <2>3
  <2> QED
    BY <2>2, <2>3
<1> QED
  BY <1>3, <1>4

\* No rank waits for another in a circle: in every state in which no rank has
\* thrown and not all are done, some rank can go on.
THEOREM NeverStuck == Spec => []NoStuck
<1>1. ASSUME IInv, \A r \in Ranks : ~ failed[r], ~ Done
      PROVE  \E r \in Ranks :
               \/ CanBegin(r) \/ CanExecuteItem(r) \/ CanFinish(r)
               \/ \E i \in Items : CanComplete(r, i) /\ Received(r, i)
  <2>0. N \in Nat /\ MaxRounds \in Nat
    BY <1>1, PlanFacts DEF IInv
  <2>1. PICK r \in Ranks : \A s \in Ranks :
           round[s] > round[r] \/ (round[s] = round[r] /\ pos[s] >= pos[r])
    BY <1>1, RankBehind DEF IInv
  <2>2. \A s \in Ranks : round[s] \in 0 .. MaxRounds /\ pos[s] \in 1 .. N + 2
    BY <1>1 DEF IInv, TypeOK
  <2>3. ASSUME NEW i \in running[r]
        PROVE  i \in Items /\ CanComplete(r, i) /\ Received(r, i)
    <3>1. i \in Items /\ i < pos[r]
      BY <1>1 DEF IInv, TypeOK, RunningLaunched
    <3>2. \A s \in Ranks : Posted(s, i, round[r])
      BY <2>0, <2>1, <2>2, <3>1 DEF Posted
    <3>3. \A m \in Msgs[i] : m[1] \in Ranks /\ m[2] \in Ranks
      BY <1>1, <3>1, PlanFacts DEF IInv
    <3> QED
      BY <3>1, <3>2, <3>3 DEF CanComplete, Received
  <2>4. CASE pos[r] = N + 2
    <3>1. round[r] # MaxRounds
      BY <1>1, <2>0, <2>1, <2>2, <2>4 DEF Done
    <3> QED
      BY <1>1, <2>0, <2>2, <2>4, <3>1 DEF CanBegin
  <2>5. CASE pos[r] = N + 1
    BY <1>1, <2>3, <2>5 DEF CanFinish
  <2>6. CASE pos[r] \in Items
    BY <1>1, <2>3, <2>6 DEF CanExecuteItem, Waited
  <2> QED
    BY <2>0, <2>2, <2>4, <2>5, <2>6
<1>2. IInv => NoStuck
  BY <1>1 DEF NoStuck
<1> QED
  BY <1>2, Invariance, PTL
==============================================================================
