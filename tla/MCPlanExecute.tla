---------------------------- MODULE MCPlanExecute -----------------------------
(***************************************************************************)
(* PlanExecute for plans that FieldPlan builds for transforms of module    *)
(* Layouts.                                                                *)
(***************************************************************************)
EXTENDS PlanExecute, Layouts

MCRanks == {0, 1}

\* What PlanExecute needs to know of a plan P sorted into S: its items are
\* numbered by their positions in sortedIdx.  Launching an item of the kinds
\* in fails throws on rank 0.
Summary(P, S, item, reads, writes, fails) ==
  [n     |-> Len(S),
   ante  |-> [k \in DOMAIN S |-> {j \in DOMAIN S : Contains(P.ante[S[k]], S[j])}],
   on    |-> [k \in DOMAIN S |-> item[k].on],
   msgs  |-> [k \in DOMAIN S |-> item[k].msgs],
   ffts  |-> {k \in DOMAIN S : item[k].kind = "fft"},
   fails |-> {<<0, k>> : k \in {i \in DOMAIN S : item[i].kind \in fails}},
   overwrites |-> UNION {{<<c[1], i, j>> : c \in writes[i] \cap (reads[j] \cup writes[j])} :
                           i, j \in DOMAIN S}]

PlanOf(config, fails) ==
  LET summary(P, S, item) ==
        Summary(P, S, item, [k \in DOMAIN S |-> Reads(item[k])],
                [k \in DOMAIN S |-> Writes(item[k])], fails)
      inOrder(P, S) == summary(P, S, [k \in DOMAIN S |-> P.items[S[k]]])
      sorted(P) == inOrder(P, Sorted(P))
  IN  sorted(CreatePlan(config))

\* An all-to-all plan whose communication may throw, one that gathers and
\* scatters, and one with 33 items on three devices.
BuiltPlans == {PlanOf(x[1], x[2]) : x \in {<<Slabs2, {"alltoallv"}>>, <<OverRanks, {}>>, <<Mixed, {}>>}}
MCPlans == BuiltPlans

\* The transforms on a rank share the work buffer the user provides.
WorkBufferPlans ==
  {[p EXCEPT !.overwrites =
      @ \cup {x \in MCRanks \X p.ffts \X p.ffts : x[1] \in p.on[x[2]] \cap p.on[x[3]]}] :
     p \in {PlanOf(Mixed, {})}}
MCWorkBufferPlans == WorkBufferPlans

\* The ranks rest when all are done, or wait for ever for one that has thrown.
Resting == Done \/ \E r \in Ranks : failed[r]

MCNext == Next \/ (Resting /\ UNCHANGED vars)

MCSpec == Init /\ [][MCNext]_vars

MCFairSpec == MCSpec /\ Fairness
==============================================================================
