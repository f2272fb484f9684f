--------------------------- MODULE MCAccuracyTest ---------------------------
(* Instances of AccuracyTest. *)
EXTENDS AccuracyTest

Params(length, nbatch, ttype, place, prec) ==
    [length |-> length, nbatch |-> nbatch, ttype |-> ttype, place |-> place, prec |-> prec,
     itype |-> "unset", otype |-> "unset", istride |-> <<>>, ostride |-> <<>>, idist |-> 0, odist |-> 0,
     ioffset |-> <<0, 0>>, ooffset |-> <<0, 0>>, cbs |-> FALSE, check |-> FALSE, scale |-> 1, isize |-> <<>>, osize |-> <<>>]

\* One transform in all its precisions, batches and placements.
Plain == {Params(<<2, 3>>, n, t, place, prec) :
            n \in {1, 2}, t \in {"c2c"}, place \in {"in"}, prec \in {"double", "single"}}
         \union {Params(<<4>>, n, t, place, "double") : n \in {1, 2}, t \in {"r2c", "c2r"}, place \in {"in", "out"}}
         \union {Params(<<2, 3>>, 1, "c2c", "out", "half"), Params(<<2, 3>>, 2, "r2c", "in", "half"),
                 [Params(<<4>>, 2, "r2c", "out", "double") EXCEPT !.cbs = TRUE]}

\* Refused: output strides are to be checked in place.
Refused == {[Params(<<4>>, 2, "r2c", "in", "double") EXCEPT !.check = TRUE]}

\* Planar, strided, offset and padded ones, and ones whose elements collide.
Strided == {[Params(<<2, 3>>, 2, "c2c", "out", "double") EXCEPT !.itype = "cp", !.otype = "ci"],
            [Params(<<2, 3>>, 2, "r2c", "out", "double") EXCEPT !.otype = "hp", !.ioffset = <<1, 1>>],
            [Params(<<2, 3>>, 2, "c2c", "out", "double") EXCEPT !.istride = <<2>>, !.ostride = <<1, 2>>],
            [Params(<<2, 3>>, 2, "c2r", "out", "double") EXCEPT !.itype = "hp", !.idist = 7, !.ooffset = <<2, 2>>],
            [Params(<<3, 3>>, 2, "c2c", "out", "double") EXCEPT !.istride = <<2, 3>>],
            [Params(<<3, 2>>, 2, "c2c", "out", "double") EXCEPT !.istride = <<2, 3>>, !.idist = 1],
            [Params(<<2, 2, 2>>, 2, "c2c", "out", "double") EXCEPT !.istride = <<5, 6, 7>>, !.idist = 9],
            [Params(<<2, 2, 2>>, 2, "c2c", "out", "double") EXCEPT !.istride = <<1, 2, 4>>, !.idist = 4]}

\* Every small layout of four elements and two batches, most with collisions.
Small == {[Params(<<2, 2>>, 2, "c2c", "out", "double") EXCEPT !.istride = <<a, b>>, !.idist = d] :
             a \in {1, 2, 3}, b \in {1, 2, 3}, d \in {1, 2, 4, 5, 6}}

MCTests == Plain \union Refused \union Strided \union Small

Strides(lengths, strides) == [length |-> lengths, stride |-> strides]
Cube(n, strides) == Strides([d \in 1..Len(strides) |-> n], strides)

\* The layouts of generate_valid_length_stride with 3 for 8, up to six
\* dimensions; ones of five dimensions with interleaved strides; and one whose
\* offsets leave the range of an int.
MCDirectLayouts ==
    {Cube(3, <<1>>), Strides(<<3, 2>>, <<1, 0>>), Cube(3, <<3, 1>>), Cube(3, <<9, 3, 1>>), Cube(3, <<9, 2, 1>>),
     Cube(3, <<27, 9, 2, 1>>), Cube(3, <<27, 9, 3, 1>>), Cube(3, <<81, 27, 9, 3, 1>>), Cube(3, <<81, 27, 9, 2, 1>>),
     Cube(3, <<243, 81, 27, 9, 3, 1>>), Strides(<<4, 5, 6>>, <<20, 7, 13>>),
     Cube(2, <<6, 9, 11, 12, 13>>), Cube(2, <<6, 10, 12, 14, 28>>), Cube(2, <<300, 350, 500>>)}

\* Collisions of two dimensions with two others, in four and five dimensions.
MCMissed4D == {Cube(2, <<5, 6, 7, 8>>)}
MCMissed5D == {Cube(2, <<5, 6, 7, 8, 40>>)}
\* The same with the batch as the fourth dimension of a transform.
MCMissedBatch == {[Params(<<2, 2, 2>>, 2, "c2c", "out", "double") EXCEPT !.istride = <<5, 6, 7>>, !.idist = 8]}

\* Offsets beyond an int of ten bits: a collision that is missed, and distinct
\* elements that the enumeration takes for one.
MCLongOffsets == {Cube(2, <<300, 350, 650>>)}
MCLongHappy == {Cube(2, <<1024, 1>>)}

\* The same transform with and without a scale factor.
MCScaled == {Params(<<4>>, 1, "c2c", "out", "double"), [Params(<<4>>, 1, "c2c", "out", "double") EXCEPT !.scale = 7]}

MCFailures == {"plan", "ram", "hcopy", "icopy", "oalloc", "gpu", "inverse"}
=============================================================================
