-------------------------------- MODULE Bricks --------------------------------
(***************************************************************************)
(* Bricks and fields (rocfft_brick_t, rocfft_field_t).  A brick is a       *)
(* rectangle of a field's index space: per dimension an inclusive lower    *)
(* and an exclusive upper bound and the stride of its elements in memory,  *)
(* and the location (communicator rank and device) that holds it.  A       *)
(* vector over dimensions is a sequence, fastest dimension first and the   *)
(* batch last, as in the code.                                             *)
(***************************************************************************)
EXTENDS Integers, Sequences, FiniteSets

CONSTANT IntBits  \* the width of a C++ int (scaled down where overflow matters)

ASSUME IntBitsAssumption == IntBits \in Nat \ {0}

\* A value stored in an int: what is kept of it is its value modulo 2^IntBits.
ToInt(x) ==
  LET m == x % 2^IntBits IN IF m >= 2^(IntBits - 1) THEN m - 2^IntBits ELSE m

\* The product, the sum and the inner product of vectors.  (The code's accumulate
\* and inner_product over vectors of at most 4 dimensions.)
Product(v) ==
  LET P[i \in 0 .. Len(v)] == IF i = 0 THEN 1 ELSE P[i - 1] * v[i] IN P[Len(v)]

SumOf(v) ==
  LET S[i \in 0 .. Len(v)] == IF i = 0 THEN 0 ELSE S[i - 1] + v[i] IN S[Len(v)]

InnerProduct(v, w) == SumOf([i \in 1 .. Len(v) |-> v[i] * w[i]])

MaxOf(a, b) == IF a > b THEN a ELSE b

MinOf(a, b) == IF a < b THEN a ELSE b

Dims(b) == 1 .. Len(b.lower)

\* rocfft_brick_t::length: a bound that is out of order counts as 0.
Length(b) ==
  [d \in Dims(b) |-> IF b.upper[d] > b.lower[d] THEN b.upper[d] - b.lower[d] ELSE 0]

\* rocfft_brick_t::empty looks at the lengths as ints.
Empty(b) == \E d \in Dims(b) : ToInt(Length(b)[d]) = 0

CountElems(b) == Product(Length(b))

\* The strides of a vector of lengths laid out without gaps.
PackedStrides(len) == [d \in 1 .. Len(len) |-> Product(SubSeq(len, 1, d - 1))]

ContiguousStrides(b) == PackedStrides(Length(b))

\* rocfft_brick_t::is_contiguous: the fastest dimension is not looked at.
IsContiguous(b) ==
  \A d \in Dims(b) : d > 1 /\ Length(b)[d] > 1 => b.stride[d] = ContiguousStrides(b)[d]

\* Mutation: any one dimension may be the short one.
IsContiguousInFieldAny(b, fieldLength) ==
  Cardinality({d \in Dims(b) : Length(b)[d] < fieldLength[d]}) = 1

\* rocfft_brick_t::is_contiguous_in_field: the brick is shorter than the
\* field in one dimension, and that is the highest one the field extends
\* in.  A brick that is the whole field is not (no dimension is short), and
\* the strides are not looked at.
IsContiguousInField(b, fieldLength) ==
  LET long  == {d \in Dims(b) : fieldLength[d] # 1}
      short == {d \in long : Length(b)[d] < fieldLength[d]}
  IN  IF long = {} THEN TRUE
      ELSE \E d \in short : short = {d} /\ \A e \in long : e <= d

\* rocfft_brick_t::intersect (stride and location are the caller's to set).
Intersect(b, c) ==
  [b EXCEPT !.lower = [d \in Dims(b) |-> MaxOf(b.lower[d], c.lower[d])],
            !.upper = [d \in Dims(b) |-> MinOf(b.upper[d], c.upper[d])]]

EqualCoords(b, c) == b.lower = c.lower /\ b.upper = c.upper

\* rocfft_brick_t::offset_in_field: the sum is accumulated in an int (the
\* initial value of the inner product is the literal 0), then widened.
OffsetInField(b, fieldStride) == ToInt(InnerProduct(b.lower, fieldStride))

\* rocfft_plan_description_t::multiple_ranks_devices.
MultipleRanksDevices(field) ==
  /\ Cardinality({field[i].rank : i \in DOMAIN field}) > 1
  /\ \E i, j \in DOMAIN field :
       field[i].rank = field[j].rank /\ field[i].device # field[j].device

\* The brick that covers a whole field of the given lengths.
WholeField(length) ==
  [lower |-> [d \in 1 .. Len(length) |-> 0], upper |-> length,
   stride |-> PackedStrides(length), rank |-> 0, device |-> 0]

SumElems(field) == SumOf([i \in 1 .. Len(field) |-> CountElems(field[i])])

\* Mutation: only neighbouring bricks are compared.
ValidateFieldNeighbours(length, field) ==
  /\ \A i, j \in DOMAIN field : j = i + 1 => Empty(Intersect(field[i], field[j]))
  /\ \A i \in DOMAIN field : EqualCoords(field[i], Intersect(field[i], WholeField(length)))
  /\ SumElems(field) = CountElems(WholeField(length))

\* rocfft_plan_t::ValidateFields, for one field: no two bricks overlap, each
\* lies within the field, and together they have as many elements.
ValidateField(length, field) ==
  /\ \A i, j \in DOMAIN field : i < j => Empty(Intersect(field[i], field[j]))
  /\ \A i \in DOMAIN field : EqualCoords(field[i], Intersect(field[i], WholeField(length)))
  /\ SumElems(field) = CountElems(WholeField(length))

\* DimensionSplitInField.
DimensionSplitInField(length, d, field) ==
  \E i \in DOMAIN field : Length(field[i])[d] # length
==============================================================================
