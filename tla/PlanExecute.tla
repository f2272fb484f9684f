----------------------------- MODULE PlanExecute ------------------------------
(***************************************************************************)
(* rocfft_plan_t::Execute on every rank of a communicator.  Each rank      *)
(* walks the same sorted plan: it waits for the antecedents of an item     *)
(* that involve it, launches the item if it executes on the rank, goes on, *)
(* and at the end waits for everything it launched.  Launched items run    *)
(* asynchronously (streams, MPI requests); what a rank receives completes  *)
(* only after the sending rank launched the item in the same execution     *)
(* (messages of one item between two ranks do not overtake each other).    *)
(*                                                                         *)
(* An item is its position in sortedIdx.  Ranks run independently: one can *)
(* be an execution ahead of another.                                       *)
(***************************************************************************)
EXTENDS Integers, FiniteSets

CONSTANTS Ranks,     \* the ranks of the communicator
          Plans,     \* the plans a user may have created
          MaxRounds  \* how often a plan is executed

(***************************************************************************)
(* A plan is a record:                                                     *)
(*   n          its items are 1 .. n                                       *)
(*   ante       ante[i]: the antecedents of item i                         *)
(*   on         on[i]: the ranks item i executes on                        *)
(*   msgs       msgs[i]: the pairs <<source, destination>> i sends between *)
(*   overwrites the <<r, i, j>> such that item i writes, on rank r, an     *)
(*              element that item j reads or writes                        *)
(*   fails      the <<r, i>> for which launching i throws on r             *)
(***************************************************************************)
ASSUME PlanAssumption ==
  /\ MaxRounds \in Nat
  /\ Ranks # {}
  /\ \A p \in Plans : /\ p.n \in Nat
                      /\ p.ante \in [1 .. p.n -> SUBSET (1 .. p.n)]
                      /\ p.on \in [1 .. p.n -> SUBSET Ranks]
                      /\ p.msgs \in [1 .. p.n -> SUBSET (Ranks \X Ranks)]

\* The order is topological (what MultiPlan shows of the sort).
ASSUME OrderAssumption == \A p \in Plans : \A i \in 1 .. p.n : \A a \in p.ante[i] : a < i

\* An item that sends executes on both ends.
ASSUME MsgsAssumption ==
  \A p \in Plans : \A i \in 1 .. p.n : \A m \in p.msgs[i] : m[1] \in p.on[i] /\ m[2] \in p.on[i]

VARIABLES plan,    \* the plan that is executed
          round,   \* round[r]: the executions r has begun
          pos,     \* pos[r]: the item r is at; N+1: waiting for all; N+2: not executing
          running, \* running[r]: the items r has launched that have not completed
          failed   \* failed[r]: Execute has thrown on r

vars == <<plan, round, pos, running, failed>>

N == plan.n
Items == 1 .. N
Ante == plan.ante
On == plan.on
Msgs == plan.msgs

------------------------------------------------------------------------------
(* What a rank has launched and what has completed on it *)

\* Rank r has launched item i in execution k.
Posted(r, i, k) == round[r] > k \/ (round[r] = k /\ pos[r] > i)

\* Item i has completed on rank r in execution k.
Finished(r, i, k) == round[r] > k \/ (round[r] = k /\ pos[r] > i /\ i \notin running[r])

------------------------------------------------------------------------------
(* Actions *)

Init ==
  /\ plan \in Plans
  /\ round = [r \in Ranks |-> 0]
  /\ pos = [r \in Ranks |-> N + 2]
  /\ running = [r \in Ranks |-> {}]
  /\ failed = [r \in Ranks |-> FALSE]

\* The user calls rocfft_execute on rank r.
CanBegin(r) == ~ failed[r] /\ pos[r] = N + 2 /\ round[r] < MaxRounds

Begin(r) ==
  /\ CanBegin(r)
  /\ round' = [round EXCEPT ![r] = @ + 1]
  /\ pos' = [pos EXCEPT ![r] = 1]
  /\ UNCHANGED <<plan, running, failed>>

\* Mutation: only communication is waited for.
WaitedForMessages(r, i) == \A a \in Ante[i] \cap running[r] : Msgs[a] = {}

\* Every antecedent that involves r has completed (antecedent.Wait returns).
Waited(r, i) == Ante[i] \cap running[r] = {}

\* One iteration of the loop: wait, then launch.  The rank waits whether or
\* not the item executes on it.
CanExecuteItem(r) == ~ failed[r] /\ pos[r] \in Items /\ Waited(r, pos[r])

\* Mutation: the loop does not go on to the next item.
ExecuteItemStays(r) ==
  /\ CanExecuteItem(r)
  /\ running' = [running EXCEPT ![r] = IF r \in On[pos[r]] THEN @ \cup {pos[r]} ELSE @]
  /\ UNCHANGED <<plan, round, pos, failed>>

\* The item runs, if it executes on r, and the loop goes on.
Launch(r) ==
  /\ pos' = [pos EXCEPT ![r] = @ + 1]
  /\ running' = [running EXCEPT ![r] = IF r \in On[pos[r]] THEN @ \cup {pos[r]} ELSE @]

ExecuteItem(r) == CanExecuteItem(r) /\ Launch(r) /\ UNCHANGED <<plan, round, failed>>

\* ExecuteAsync throws, and Execute with it: what r has launched goes on, nobody
\* waits for it.  Nothing of the item is launched then, or (a scatter or gather
\* throws at a later operation) some of it: the peers may have been sent to,
\* and what r receives or copies is under way.
Fail(r) ==
  /\ CanExecuteItem(r)
  /\ r \in On[pos[r]] /\ <<r, pos[r]>> \in plan.fails
  /\ failed' = [failed EXCEPT ![r] = TRUE]
  /\ Launch(r) \/ UNCHANGED <<pos, running>>
  /\ UNCHANGED <<plan, round>>

\* Mutation: a receive completes without a message.
CanCompleteUnsent(r, i) == i \in running[r]

\* Mutation: a receive matches the message of the next execution.
CanCompleteLater(r, i) ==
  i \in running[r] /\ \A m \in Msgs[i] : m[2] = r => Posted(m[1], i, round[r] + 1)

\* Everything r receives with item i has been sent.
CanComplete(r, i) ==
  i \in running[r] /\ \A m \in Msgs[i] : m[2] = r => Posted(m[1], i, round[r])

\* Item i completes on r.  A send may complete before it is received.
Complete(r, i) ==
  /\ CanComplete(r, i)
  /\ running' = [running EXCEPT ![r] = @ \ {i}]
  /\ UNCHANGED <<plan, round, pos, failed>>

\* Mutation: Execute returns without waiting.
CanFinishEarly(r) == ~ failed[r] /\ pos[r] = N + 1

\* The waits for all items at the end: Execute returns.
CanFinish(r) == ~ failed[r] /\ pos[r] = N + 1 /\ running[r] = {}

Finish(r) ==
  /\ CanFinish(r)
  /\ pos' = [pos EXCEPT ![r] = N + 2]
  /\ UNCHANGED <<plan, round, running, failed>>

Next ==
  \E r \in Ranks :
    \/ Begin(r)
    \/ ExecuteItem(r)
    \/ Fail(r)
    \/ Finish(r)
    \/ \E i \in Items : Complete(r, i)

Spec == Init /\ [][Next]_vars

\* Everything r sends with item i is being received.
Received(r, i) == \A m \in Msgs[i] : m[1] = r => Posted(m[2], i, round[r])

\* A host thread goes on; the user executes the plan on every rank; device
\* work, and communication that both ends have launched, completes.  (A send
\* need not complete before it is received.)
Fairness ==
  \A r \in Ranks :
    /\ WF_vars(Begin(r)) /\ WF_vars(ExecuteItem(r)) /\ WF_vars(Finish(r))
    /\ \A i \in UNION {1 .. p.n : p \in Plans} : WF_vars(i \in Items /\ Received(r, i) /\ Complete(r, i))

FairSpec == Spec /\ Fairness

------------------------------------------------------------------------------
(* Properties *)

\* The variables of Execute on every rank have their types.
TypeOK ==
  /\ plan \in Plans
  /\ round \in [Ranks -> 0 .. MaxRounds]
  /\ pos \in [Ranks -> 1 .. N + 2]
  /\ running \in [Ranks -> SUBSET Items]
  /\ failed \in [Ranks -> BOOLEAN]

\* When an item has been received, the sending rank had completed, in the
\* same execution, every antecedent of it that executes there: the data was
\* ready before it was sent, even when the sender is an execution ahead.
DataReadyBeforeSent ==
  \A d \in Ranks, i \in Items :
    round[d] > 0 /\ pos[d] > i /\ i \notin running[d] =>
      \A m \in Msgs[i] : m[2] = d =>
        \A a \in Ante[i] : m[1] \in On[a] => Finished(m[1], a, round[d])

\* Two items that run at the same time on a rank touch no common cell that
\* one of them writes (FieldExec's ConflictsOrdered says it of the plans, this
\* of their execution): leased temp buffers are not reused too early, and an
\* item's result does not depend on how the streams are scheduled.
NoConflict ==
  \A r \in Ranks : \A i, j \in running[r] : i # j => <<r, i, j>> \notin plan.overwrites

\* Of two items of the plan that conflict, the second comes after some item
\* that waits for the first.
ConflictsWaited ==
  \A p \in Plans : \A r \in Ranks, i, j \in 1 .. p.n :
    /\ i < j /\ r \in p.on[i] /\ r \in p.on[j]
    /\ <<r, i, j>> \in p.overwrites \/ <<r, j, i>> \in p.overwrites
    => \E k \in i + 1 .. j : i \in p.ante[k]

\* When Execute returns, nothing that it launched is running: the user may
\* read the output and reuse the buffers.
NothingRunsAfterReturn == \A r \in Ranks : pos[r] = N + 2 => running[r] = {}

Done == \A r \in Ranks : pos[r] = N + 2 /\ round[r] = MaxRounds

\* No rank waits for another in a circle: unless a rank has failed or all are
\* done, some rank can go on, even if no send completes before it is received.
NoStuck ==
  (\A r \in Ranks : ~ failed[r]) /\ ~ Done =>
    \E r \in Ranks :
      \/ CanBegin(r) \/ CanExecuteItem(r) \/ CanFinish(r)
      \/ \E i \in Items : CanComplete(r, i) /\ Received(r, i)

\* Unless launching an item throws on some rank, every execution returns on
\* every rank.  (A rank that throws leaves the others waiting.)
AllReturn == <>(Done \/ \E r \in Ranks : failed[r])
==============================================================================
