------------------------------ MODULE FieldBuild ------------------------------
(***************************************************************************)
(* A user builds a field, brick by brick, and asks for a plan with it.     *)
(* The operators of module Bricks, by which plan creation accepts a field  *)
(* and decides what can be copied without packing, are compared with the   *)
(* sets of coordinates and offsets that they are about.                    *)
(***************************************************************************)
EXTENDS Bricks

CONSTANTS Lengths,   \* the lengths of the transform, the batch last
          AllBricks, \* the bricks a user may create
          MaxBricks  \* how many a field has at most

\* Bricks for these dimensions; their bounds may be out of order, or out of the
\* field.
Vectors == {v \in Seq(Nat) : Len(v) = Len(Lengths)}
Brick == [lower : Vectors, upper : Vectors, stride : Vectors, rank : Nat, device : Nat]

ASSUME FieldAssumption ==
  Lengths \in Seq(Nat \ {0}) /\ AllBricks \subseteq Brick /\ MaxBricks \in Nat

VARIABLES bricks,  \* the field
          verdict  \* "none", and after plan creation "accepted" or "refused"

vars == <<bricks, verdict>>

Init == bricks = <<>> /\ verdict = "none"

\* rocfft_brick_create and rocfft_field_add_brick: no brick is refused.
AddBrick(b) ==
  /\ verdict = "none" /\ Len(bricks) < MaxBricks
  /\ bricks' = Append(bricks, b)
  /\ UNCHANGED verdict

\* Plan creation with the field.  (rocfft_plan_description_add_infield
\* refuses an empty one.)
Validate ==
  /\ verdict = "none" /\ bricks # <<>>
  /\ verdict' = IF ValidateField(Lengths, bricks) THEN "accepted" ELSE "refused"
  /\ UNCHANGED bricks

Next == Validate \/ \E b \in AllBricks : AddBrick(b)

Spec == Init /\ [][Next]_vars

------------------------------------------------------------------------------
(* What the operators are about *)

\* The coordinates of a brick.
Coords(b) ==
  {c \in [Dims(b) -> UNION {b.lower[d] .. (b.upper[d] - 1) : d \in Dims(b)}] :
     \A d \in Dims(b) : b.lower[d] <= c[d] /\ c[d] < b.upper[d]}

\* The element that comes at place InBox(b, c) when a brick is read through
\* in order, the first dimension fastest.
InBox(b, c) == InnerProduct([d \in Dims(b) |-> c[d] - b.lower[d]], ContiguousStrides(b))

\* Where a brick has an element, relative to its first one.
InMemory(b, c) == InnerProduct([d \in Dims(b) |-> c[d] - b.lower[d]], b.stride)

------------------------------------------------------------------------------
(* Properties *)

\* ValidateFields accepts exactly the fields in which every coordinate of the
\* transform is in one brick and no brick has another: that no two bricks
\* overlap, that each is inside, and that the numbers of elements agree is
\* enough.  (A brick without elements may be refused for its bounds.)
AcceptedIffTiled ==
  LET inside == \A i \in DOMAIN bricks : Coords(bricks[i]) \subseteq Coords(WholeField(Lengths))
      once == \A c \in Coords(WholeField(Lengths)) :
                Cardinality({i \in DOMAIN bricks : c \in Coords(bricks[i])}) = 1
  IN  /\ verdict = "accepted" => inside /\ once
      /\ verdict = "refused" => \/ ~ inside \/ ~ once
                                \/ \E i \in DOMAIN bricks : Coords(bricks[i]) = {}

\* A brick that is_contiguous says is contiguous, and whose fastest dimension
\* has stride 1, can be copied as it lies: its elements follow each other in
\* memory in the order of the box.  One that is_contiguous_in_field says is
\* contiguous in a field without gaps needs no packing: its elements follow each
\* other in the field, from offset_in_field on, in the order of the brick.
ContiguousCanBeCopied ==
  Len(bricks) = 1 =>
    LET b == bricks[1]
        whole == WholeField(Lengths)
    IN  /\ IsContiguous(b) /\ b.stride[1] = 1 => \A c \in Coords(b) : InMemory(b, c) = InBox(b, c)
        /\ IsContiguousInField(b, Lengths) /\ Coords(b) \subseteq Coords(whole) =>
             \A c \in Coords(b) : InMemory(whole, c) = OffsetInField(b, whole.stride) + InBox(b, c)
==============================================================================
