------------------------------ MODULE FieldExec -------------------------------
(***************************************************************************)
(* A plan with fields, created and executed: what every buffer holds as    *)
(* the items of the plan take effect in the order Execute launches them.   *)
(* (Module PlanExecute shows that items that run at the same time touch    *)
(* no common cell, so that their effects can be taken one at a time.)      *)
(*                                                                         *)
(* An element's value says which element of the index space it is, which   *)
(* dimensions it has been transformed in, how often the scale factor was   *)
(* applied, and in which execution the user provided it.                   *)
(***************************************************************************)
EXTENDS FieldPlan

CONSTANTS Configs,  \* the transforms a user asks for
          MaxRounds \* how often a plan is executed

ASSUME MaxRoundsAssumption == MaxRounds \in Nat

\* The bricks of a field are on ranks of the communicator, and the output
\* pointers of an in-place transform are not other ones than the input's.
ASSUME ConfigsAssumption ==
  \A c \in Configs :
    /\ c.ilen \in Seq(Nat) \ {<<>>} /\ c.nranks \in Nat
    /\ c.inF \in Seq(Range(c.inF)) /\ c.outF \in Seq(Range(c.outF))
    /\ \A b \in Range(c.inF) \cup Range(c.outF) : b.rank \in 0 .. c.nranks - 1
    /\ c.pass = "separate" => ~ c.inplace

VARIABLES cfg,    \* the transform asked for
          phase,  \* "create", "ready", "run", "failed"
          plan,   \* the plan
          order,  \* sortedIdx
          pos,    \* the item Execute launches next
          round,  \* executions begun
          mem     \* the cells written so far, and what they hold

vars == <<cfg, phase, plan, order, pos, round, mem>>

------------------------------------------------------------------------------
(* Memory *)

\* An element that is no element of the transform's.
Garbage == [c |-> <<>>, done |-> {}, scale |-> 0, round |-> 0]

\* Memory g after f has been written to it.
Over(f, g) == [x \in DOMAIN f \cup DOMAIN g |-> IF x \in DOMAIN f THEN f[x] ELSE g[x]]

\* The pointers the user passes: for an in-place transform the output
\* pointers are the input pointers.
Resolve(cell) ==
  IF cfg.pass = "same" /\ cell[2][1] = "out" THEN [cell EXCEPT ![2][1] = "in"] ELSE cell

Read(cell) ==
  IF Resolve(cell) \in DOMAIN mem THEN mem[Resolve(cell)] ELSE Garbage

\* The cells of a field in the buffers of the user, or of the one buffer
\* when there is no field.
UserCells(side, field, len, stride) ==
  IF field = <<>> THEN ArrayCells(0, <<side, 0>>, [d \in DOMAIN len |-> 0], len, stride)
  ELSE UNION {BrickCells(field[i], UserBuffers(side, field)[i]) : i \in DOMAIN field}

InputCells == UserCells("in", cfg.inF, cfg.ilen, cfg.istride)

OutputCells == UserCells("out", cfg.outF, cfg.olen, cfg.ostride)

\* What the user puts into the input before an execution.
UserInput(r) ==
  [x \in {y.cell : y \in InputCells} |->
     [c |-> (CHOOSE y \in InputCells : y.cell = x).at, done |-> {}, scale |-> 0, round |-> r]]

\* A transform is sound if every element it reads is where it belongs and
\* all have been transformed alike, in none of its dimensions.
FFTResult(item, at) ==
  LET first == Read((CHOOSE x \in item.src : TRUE).cell)
      sound == /\ first.done \cap item.dims = {}
               /\ \A x \in item.src :
                    Read(x.cell) = [c |-> x.at, done |-> first.done,
                                    scale |-> first.scale, round |-> first.round]
  IN  IF sound THEN [c |-> at, done |-> first.done \cup item.dims,
                     scale |-> first.scale + 1, round |-> first.round]
      ELSE Garbage

\* The effect of an item on memory.  Every ExecPlan that transforms applies
\* the description's store operations (the scale factor).
Effect(item) ==
  LET moved == [t \in {Resolve(m.to) : m \in item.moves} |->
                  Read((CHOOSE m \in item.moves : Resolve(m.to) = t).from)]
      made  == [t \in {Resolve(x.cell) : x \in item.dst} |->
                  FFTResult(item, (CHOOSE x \in item.dst : Resolve(x.cell) = t).at)]
  IN  Over(Over(moved, made), mem)

------------------------------------------------------------------------------
(* Creation and execution *)

Init ==
  /\ cfg \in Configs
  /\ phase = "create"
  /\ plan = EmptyPlan(Locations(cfg))
  /\ order = <<>>
  /\ pos = 0 /\ round = 0
  /\ mem = <<>>

\* rocfft_plan_create.
Create ==
  /\ phase = "create"
  /\ plan' = CreatePlan(cfg)
  /\ order' = IF plan'.status = "ok" THEN Sorted(plan') ELSE <<>>
  /\ phase' = IF plan'.status = "ok" THEN "ready" ELSE "failed"
  /\ UNCHANGED <<cfg, pos, round, mem>>

\* rocfft_execute is called with new data in the input.
BeginExecute ==
  /\ phase = "ready" /\ round < MaxRounds
  /\ round' = round + 1
  /\ mem' = Over(UserInput(round + 1), mem)
  /\ pos' = 1
  /\ phase' = "run"
  /\ UNCHANGED <<cfg, plan, order>>

\* The next item takes effect.
ExecuteItem ==
  /\ phase = "run" /\ pos <= Len(order)
  /\ mem' = Effect(plan.items[order[pos]])
  /\ pos' = pos + 1
  /\ UNCHANGED <<cfg, phase, plan, order, round>>

\* Execute waits for the items and returns.
EndExecute ==
  /\ phase = "run" /\ pos > Len(order)
  /\ phase' = "ready"
  /\ UNCHANGED <<cfg, plan, order, pos, round, mem>>

Next == Create \/ BeginExecute \/ ExecuteItem \/ EndExecute

Spec == Init /\ [][Next]_vars

------------------------------------------------------------------------------
(* Properties *)

\* The phase, the position and the round stay in their ranges, and the order
\* holds indices of items (MultiPlanTopologicalSort).
TypeOK ==
  /\ phase \in {"create", "ready", "run", "failed"}
  /\ plan.status \in {"ok", "throw", "nullptr"}
  /\ round \in 0 .. MaxRounds
  /\ pos \in 0 .. Len(order) + 1
  /\ \A k \in DOMAIN order : order[k] \in DOMAIN plan.items

\* After every execution every element of the output, in every brick of the
\* output field, is the element of its coordinate, transformed in every
\* dimension exactly once, from the data of this execution: the packing,
\* transposing, gathering and scattering that BuildOptMultiDevicePlan or
\* GatherScatterSingleDevicePlan plans, with the temp buffers it reuses,
\* loses nothing and mixes nothing up.
OutputCorrect ==
  phase = "ready" /\ round > 0 =>
    \A x \in OutputCells :
      /\ Read(x.cell).c = x.at
      /\ Read(x.cell).done = 1 .. NumDims(cfg)
      /\ Read(x.cell).round = round

\* An execution of a transform that is not in place leaves the user's input
\* as it was (BuildOptMultiDevicePlan: "we don't want to overwrite input").
InputIntact ==
  phase = "ready" /\ round > 0 /\ cfg.pass = "separate" =>
    \A x \in InputCells : Read(x.cell) = UserInput(round)[x.cell]

\* The cells an item reads and writes, with their sizes.
Accesses(item) ==
  {<<m.from, item.isize>> : m \in item.moves} \cup {<<m.to, item.osize>> : m \in item.moves}
  \cup {<<x.cell, item.isize>> : x \in item.src} \cup {<<x.cell, item.osize>> : x \in item.dst}

\* No item reaches past the end of a temp buffer, whoever leased it: set_size_bytes
\* has seen its largest use.  And every temp buffer an item uses is back in the map
\* when the plan is done, so that AllocateInternalTempBuffers allocates it, on the
\* device whose rank executes the item.
TempsUsable ==
  phase # "failed" =>
    \A i \in DOMAIN plan.items : \A a \in Accesses(plan.items[i]) :
      a[1][2][1] = "tmp" =>
        LET b == a[1][2][2]
        IN  /\ a[1][3] >= 0
            /\ (a[1][3] + 1) * a[2] <= plan.temps.size[b]
            /\ Contains(plan.temps.free[plan.temps.home[b]], b)
            /\ plan.temps.home[b][1] = a[1][1]

\* Of two items that touch a common cell, one of them writing it, the second
\* in the order comes after an item that waits for the first: no reuse of a
\* temp buffer or of a user buffer depends on how long an item runs.  (A cell
\* is on one rank, and a rank waits for the antecedents of every item of the
\* order, also of those it does not execute.)
ConflictsOrdered ==
  phase = "ready" /\ round = 0 =>
    \A i, j \in DOMAIN order :
      LET a == plan.items[order[i]]
          b == plan.items[order[j]]
      IN  i < j /\ (Writes(a) \cap (Reads(b) \cup Writes(b)) # {} \/ Reads(a) \cap Writes(b) # {})
            => \E k \in i + 1 .. j : Contains(plan.ante[order[k]], order[i])

\* rocfft_plan_create succeeds for fields that tile the index space.
CreateSucceeds == ValidateFields(cfg) => phase # "failed"

\* rocFFT multiplies each element of the result by the scale factor once, at
\* the end of the transform.
ScaledOnce ==
  phase = "ready" /\ round > 0 => \A x \in OutputCells : Read(x.cell).scale = 1

\* An in-place transform needs only the input pointers.
OnlyPassedPointersUsed ==
  phase # "failed" /\ cfg.pass = "none" =>
    \A i \in DOMAIN plan.items : \A a \in Accesses(plan.items[i]) : a[1][2][1] # "out"
==============================================================================
