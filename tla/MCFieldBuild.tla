----------------------------- MODULE MCFieldBuild -----------------------------
(***************************************************************************)
(* FieldBuild for small index spaces.                                      *)
(***************************************************************************)
EXTENDS FieldBuild

CONSTANTS Outside,   \* how far a brick may reach out of the field
          Inverted,  \* whether a brick's bounds may be out of order
          Gaps       \* what a brick's strides may be multiplied by

\* The bricks with all bounds up to the given ones.
Bounds(d) ==
  {x \in (0 .. Lengths[d]) \X (0 .. Lengths[d] + (IF d = 1 THEN Outside ELSE 0)) :
     x[1] <= x[2] \/ (Inverted /\ d = 1)}

Boxes ==
  LET longest == CHOOSE m \in {Lengths[d] : d \in DOMAIN Lengths} :
                   \A d \in DOMAIN Lengths : Lengths[d] <= m
  IN  {f \in [DOMAIN Lengths -> (0 .. longest) \X (0 .. longest + Outside)] :
         \A d \in DOMAIN Lengths : f[d] \in Bounds(d)}

\* Strides without gaps, with them in all or only in the slower dimensions.
StridesOf(len) ==
  {[d \in DOMAIN len |-> (IF d = 1 THEN g ELSE h) * PackedStrides(len)[d]] : g, h \in Gaps}

SmallBricks ==
  UNION {LET len == [d \in DOMAIN f |-> IF f[d][1] < f[d][2] THEN f[d][2] - f[d][1] ELSE 0]
         IN  {[lower |-> [d \in DOMAIN f |-> f[d][1]], upper |-> [d \in DOMAIN f |-> f[d][2]],
               stride |-> s, rank |-> 0, device |-> 0] : s \in StridesOf(len)} : f \in Boxes}

MCAllBricks == SmallBricks

Len22 == <<2, 2>>

Gapless(b) == b.stride = ContiguousStrides(b)

\* A brick with gaps is alone in its field: no property relates the strides
\* of two bricks.  A field that has been validated may rest.
MCNext ==
  \/ Validate
  \/ \E b \in AllBricks : AddBrick(b) /\ (bricks = <<>> \/ (Gapless(b) /\ Gapless(bricks[1])))
  \/ verdict # "none" /\ UNCHANGED vars

MCSpec == Init /\ [][MCNext]_vars
==============================================================================
