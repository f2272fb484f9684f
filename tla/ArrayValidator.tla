--------------------------- MODULE ArrayValidator ---------------------------
(***************************************************************************)
(* The test of shared/array_validator.cpp that the elements of a strided   *)
(* array lie at different addresses.  A layout is a pair of sequences, the *)
(* lengths and the strides, with the batches as one more dimension.        *)
(*                                                                         *)
(* Two elements collide when a combination of strides, with coefficients   *)
(* smaller than the lengths, adds up to zero.  Moving the negative terms   *)
(* to the other side, some dimensions reach the same offset as some others:*)
(* one against one, one against several, several against several.          *)
(***************************************************************************)
EXTENDS Integers, Sequences, FiniteSets, SequencesExt, FiniteSetsExt

CONSTANT IntBits   \* the width of an int, 32 in the code

\* Differences of size_t values wrap; SizeT stands for 2^64 and lies above
\* every offset of the layouts that are checked.
SizeT == 2 ^ 24

InnerProduct(a, b) == FoldLeftDomain(LAMBDA acc, d : acc + a[d] * b[d], 0, a)

Product(l) == FoldLeft(LAMBDA acc, n : acc * n, 1, l)

\* The offsets a do { } while(increment_rowmajor(index, length)) loop visits.
\* increment_rowmajor steps over a dimension of length zero, so that the
\* index stays 0 there.
Offsets(l, s) == {InnerProduct(i, s) : i \in {f \in [1..Len(l) -> 0..Max({0} \union {l[d] - 1 : d \in 1..Len(l)})] :
                                               \A d \in 1..Len(l) : f[d] <= Max({0, l[d] - 1})}}

Lcm(a, b) == CHOOSE c \in 1..(a * b) : c % a = 0 /\ c % b = 0 /\ \A e \in 1..(c - 1) : ~(e % a = 0 /\ e % b = 0)

\* A bug that could be there: the number of elements in place of the last index.
valid_length_stride_2d_len(l0, l1, s0, s1) ==
    /\ s0 # s1
    /\ LET c == Lcm(s0, s1) IN ~(s0 * l0 >= c /\ s1 * l1 >= c)

valid_length_stride_2d(l0, l1, s0, s1) ==
    /\ s0 # s1
    /\ LET c == Lcm(s0, s1) IN ~(s0 * (l0 - 1) >= c /\ s1 * (l1 - 1) >= c)

\* The product of the lengths less the inner product of lengths and strides:
\* for a face without collisions it is negative and wraps, and the bound then
\* excludes nothing.
MaxOffset(l, s) == (Product(l) - InnerProduct(l, s)) % SizeT

\* An offset is kept in a const int, which cuts and may turn negative.
AsInt(v) == LET low == v % 2 ^ IntBits IN IF low >= 2 ^ (IntBits - 1) THEN low - 2 ^ IntBits ELSE low

valid_length_stride_1d_multi(idx, l, s) ==
    LET l1 == RemoveAt(l, idx)
        s1 == RemoveAt(s, idx)
        a0 == {v \in {i * s[idx] : i \in 1..(l[idx] - 1)} : v <= MaxOffset(l1, s1)}
    IN  \A offset \in Offsets(l1, s1) : LET i == AsInt(offset) IN ~(i > 0 /\ i % s[idx] = 0 /\ i \in a0)

\* Only offsets beyond the bound are entered, and the bound has wrapped.
valid_length_stride_multi_multi(l0, s0, l1, s1) ==
    LET a0 == {i \in Offsets(l0, s0) : i > MaxOffset(l1, s1)}
    IN  \A i \in Offsets(l1, s1) : ~(i > 0 /\ i \in a0)

FacesValid(l, s) ==
    \A i, j \in 1..Len(l) : i < j => valid_length_stride_2d(l[i], l[j], s[i], s[j])

AxesValid(l, s) == \A idx \in 1..Len(l) : valid_length_stride_1d_multi(idx, l, s)

valid_length_stride_3d(l, s) == FacesValid(l, s) /\ AxesValid(l, s)

\* The entries of v at the dimensions of D, behind the n zeros that the
\* constructor of a vector of size n puts in front of what is pushed back.
Pushed(n, v, D) == [i \in 1..n |-> 0] \o [i \in 1..Cardinality(D) |-> v[SetToSortSeq(D, <)[i]]]

valid_length_stride_4d(l, s) ==
    /\ FacesValid(l, s)
    /\ AxesValid(l, s)
    /\ \A D \in kSubset(2, 1..4) :
          valid_length_stride_multi_multi(Pushed(2, l, D), Pushed(2, s, D),
                                          Pushed(2, l, (1..4) \ D), Pushed(2, s, (1..4) \ D))

\* The layout in the order of its strides: every stride is at least the extent
\* of the dimension before.
HappyPath(length, stride) ==
    LET order == SortSeq([d \in 1..Len(length) |-> d], LAMBDA a, b : stride[a] < stride[b])
    IN  \A i \in 2..Len(order) : stride[order[i]] >= length[order[i - 1]] * stride[order[i - 1]]

\* Dimensions of length 1 have no second element to collide with.
Counted(length) == SetToSortSeq({d \in 1..Len(length) : length[d] > 1}, <)

RECURSIVE array_valid(_, _)

\* Five dimensions and more: every face of one dimension less, every axis
\* against the others, then dim0 dimensions against dim1.  The loop over the
\* permutations tests v, not perms[iperm], and v is back in its first order:
\* each round compares the first dim1 dimensions with the last dim0.
valid_length_stride_generald(l, s) ==
    /\ \A idx \in 1..Len(l) : array_valid(RemoveAt(l, idx), RemoveAt(s, idx))
    /\ AxesValid(l, s)
    /\ \A dim0 \in 2..(Len(l) \div 2) :
          LET dim1  == Len(l) - dim0
              zeros == 1..dim1
              ones  == (dim1 + 1)..Len(l)
          IN  valid_length_stride_multi_multi(Pushed(dim0, l, zeros), Pushed(dim0, s, zeros),
                                              Pushed(dim1, l, ones), Pushed(dim1, s, ones))

array_valid(length, stride) ==
    LET D == Counted(length)
        l == [i \in 1..Len(D) |-> length[D[i]]]
        s == [i \in 1..Len(D) |-> stride[D[i]]]
    IN  /\ Len(length) = Len(stride)
        /\ \A i \in 1..Len(s) : s[i] # 0
        /\ \/ Len(length) > 1 /\ HappyPath(length, stride)
           \/ Len(l) < 2
           \/ Len(l) = 2 /\ valid_length_stride_2d(l[1], l[2], s[1], s[2])
           \/ Len(l) = 3 /\ valid_length_stride_3d(l, s)
           \/ Len(l) = 4 /\ valid_length_stride_4d(l, s)
           \/ Len(l) > 4 /\ valid_length_stride_generald(l, s)
-----------------------------------------------------------------------------
(* The reference: no two elements at one address. *)

\* direct_validity_test of the test for the validator, which enumerates the
\* elements and keeps the offset of each in an int.
direct_validity_test(length, stride) ==
    Cardinality({AsInt(offset) : offset \in Offsets(length, stride)}) = Product(length)

Distinct(length, stride) ==
    Cardinality(Offsets(length, stride)) = Product(length)
=============================================================================
