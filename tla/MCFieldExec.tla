----------------------------- MODULE MCFieldExec ------------------------------
(***************************************************************************)
(* FieldExec for the transforms of module Layouts.                         *)
(***************************************************************************)
EXTENDS FieldExec, Layouts

\* A plan that has been created and executed as often as asked may rest.
Resting == \/ phase = "failed" \/ (phase = "ready" /\ round = MaxRounds)

MCNext == Next \/ (Resting /\ UNCHANGED vars)

MCSpec == Init /\ [][MCNext]_vars
==============================================================================
