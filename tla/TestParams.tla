----------------------------- MODULE TestParams -----------------------------
(***************************************************************************)
(* shared/fft_params.h: the parameters of a transform under test, how      *)
(* missing ones are filled in, which are valid, how large the buffers are, *)
(* and the loops that copy and compare buffers of different layouts.       *)
(*                                                                         *)
(* A parameter record p holds length, nbatch, ttype ("c2c", "c2ci", "r2c", *)
(* "c2r"), place ("in", "out"), prec, itype and otype ("ci", "cp", "real", *)
(* "hi", "hp" or "unset"), istride and ostride (possibly shorter than the  *)
(* length), idist and odist (0 when not set), ioffset and ooffset, cbs     *)
(* (run_callbacks), check (check_output_strides) and scale; dimensions are *)
(* row-major, as in the code.                                              *)
(* validate adds isize and osize.                                          *)
(***************************************************************************)
EXTENDS ArrayValidator

CONSTANTS NumProcs,      \* omp_get_num_procs()
          MinIters,      \* MIN_ITERS_PER_THREAD, 2048 in the code
          MaxPartitions  \* MAX_PARTITIONS, 8 in the code

Dim(p) == Len(p.length)

Forward(p) == p.ttype \in {"c2c", "r2c"}
RealTransform(p) == p.ttype \in {"r2c", "c2r"}

Halve(l) == [l EXCEPT ![Len(l)] = @ \div 2 + 1]
ilength(p) == IF p.ttype = "c2r" THEN Halve(p.length) ELSE p.length
olength(p) == IF p.ttype = "r2c" THEN Halve(p.length) ELSE p.length

Planar(type) == type \in {"cp", "hp"}
nbuffer(type) == IF Planar(type) THEN 2 ELSE 1

contiguous_itype(ttype) == CASE ttype = "r2c" -> "real" [] ttype = "c2r" -> "hi" [] OTHER -> "ci"
contiguous_otype(ttype) == CASE ttype = "r2c" -> "hi" [] ttype = "c2r" -> "real" [] OTHER -> "ci"

set_iotypes(p) == [p EXCEPT !.itype = IF @ = "unset" THEN contiguous_itype(p.ttype) ELSE @,
                            !.otype = IF @ = "unset" THEN contiguous_otype(p.ttype) ELSE @]

\* An in-place complex transform with two types throws; the generators of the
\* tests skip it like one that is not valid.
check_iotypes(p) ==
    /\ RealTransform(p) \/ p.place = "out" \/ p.itype = p.otype
    /\ CASE p.itype \in {"ci", "cp"} -> p.otype \in {"ci", "cp"}
         [] p.itype \in {"hi", "hp"} -> p.otype = "real"
         [] OTHER -> p.otype \in {"hi", "hp"}

\* The given strides are those of the fastest dimensions; the others follow,
\* over rows padded for the output when a real transform is done in place.
compute_stride(length, stride0, rcpadding) ==
    LET given == IF stride0 = <<>> THEN <<1>> ELSE stride0
        row(d) == IF rcpadding /\ d = Len(length) THEN 2 * (length[d] \div 2 + 1) ELSE length[d]
    IN  FoldLeft(LAMBDA s, d : <<s[1] * row(d)>> \o s, given,
                 [i \in 1..(Len(length) - Len(given)) |-> Len(length) - Len(given) - i + 2])

compute_istride(p) == compute_stride(ilength(p), p.istride, p.place = "in" /\ p.ttype = "r2c")
compute_ostride(p) == compute_stride(olength(p), p.ostride, p.place = "in" /\ p.ttype = "c2r")

\* One batch to the next: the farthest dimension, with room for the output when
\* a one-dimensional real transform is done in place.
compute_dist(p, length, stride, padded) ==
    IF Dim(p) = 1 /\ padded THEN 2 * (p.length[1] \div 2 + 1) * stride[1]
    ELSE Max({length[Len(length)] * stride[Len(length)]} \union {p.length[d] * stride[d] : d \in 1..(Dim(p) - 1)})
compute_idist(p) == compute_dist(p, ilength(p), p.istride, p.place = "in" /\ p.ttype = "r2c")
compute_odist(p) == compute_dist(p, olength(p), p.ostride, p.place = "in" /\ p.ttype = "c2r")
set_idist(p) == [p EXCEPT !.idist = IF @ = 0 THEN compute_idist(p) ELSE @]
set_odist(p) == [p EXCEPT !.odist = IF @ = 0 THEN compute_odist(p) ELSE @]

compute_ptrdiff(length, stride, nbatch, dist) ==
    1 + InnerProduct([d \in 1..Len(length) |-> length[d] - 1], stride) + (nbatch - 1) * dist

compute_isize(p) == [i \in 1..nbuffer(p.itype) |->
                        compute_ptrdiff(ilength(p), p.istride, p.nbatch, p.idist) + p.ioffset[i]]
compute_osize(p) == [i \in 1..nbuffer(p.otype) |->
                        compute_ptrdiff(olength(p), p.ostride, p.nbatch, p.odist) + p.ooffset[i]]

validate(raw) ==
    LET types   == set_iotypes(raw)
        strides == [types EXCEPT !.istride = compute_istride(types), !.ostride = compute_ostride(types)]
        dists   == set_odist(set_idist(strides))
    IN  [dists EXCEPT !.isize = compute_isize(dists), !.osize = compute_osize(dists)]

valid_length_stride_batch_dist(l0, s0, n, dist) ==
    LET D == Counted(l0)
        l == [i \in 1..Len(D) |-> l0[D[i]]] \o (IF n > 1 THEN <<n>> ELSE <<>>)
        s == [i \in 1..Len(D) |-> s0[D[i]]] \o (IF n > 1 THEN <<dist>> ELSE <<>>)
    IN  Len(l0) = Len(s0) /\ array_valid(l, s)

\* What the two sides of an in-place transform must share.
InPlaceAgrees(p) ==
    /\ RealTransform(p) => p.istride[Dim(p)] = 1 /\ p.ostride[Dim(p)] = 1
    /\ ~RealTransform(p) => /\ p.istride = p.ostride
                            /\ p.nbatch = 1 \/ p.idist = p.odist
                            /\ \A i \in 1..nbuffer(p.itype) : p.ioffset[i] = p.ooffset[i]
    /\ p.ttype = "r2c" => p.ioffset[1] = 2 * p.ooffset[1]
    /\ p.ttype = "c2r" => 2 * p.ioffset[1] = p.ooffset[1]

\* Output strides cannot be checked in place, where the output holds no known
\* pattern beforehand.
valid(p) ==
    /\ Len(p.ioffset) >= nbuffer(p.itype) /\ Len(p.ooffset) >= nbuffer(p.otype)
    /\ p.place = "in" => InPlaceAgrees(p)
    /\ check_iotypes(p)
    /\ ~(p.place = "in" /\ p.check)
    /\ valid_length_stride_batch_dist(ilength(p), p.istride, p.nbatch, p.idist)
    /\ valid_length_stride_batch_dist(olength(p), p.ostride, p.nbatch, p.odist)

\* Buffer sizes, in units of one real number of the precision.
VarSize(type) == IF type \in {"ci", "hi"} THEN 2 ELSE 1
obuffer_sizes(p) == [i \in 1..nbuffer(p.otype) |-> p.osize[i] * VarSize(p.otype)]
\* A bug that could be there: an in-place real transform whose buffer has only
\* room for its input.
ibuffer_sizes_input(p) == [i \in 1..nbuffer(p.itype) |-> p.isize[i] * VarSize(p.itype)]

ibuffer_sizes(p) ==
    IF p.place = "in" /\ p.ttype = "r2c" THEN obuffer_sizes(p)
    ELSE [i \in 1..nbuffer(p.itype) |-> p.isize[i] * VarSize(p.itype)]

inverse_from_forward(p) ==
    [p EXCEPT !.ttype = IF @ = "c2c" THEN "c2ci" ELSE "c2r",
              !.istride = p.ostride, !.ostride = p.istride, !.idist = p.odist, !.odist = p.idist,
              !.itype = p.otype, !.otype = p.itype, !.ioffset = p.ooffset, !.ooffset = p.ioffset]

contiguous_params(p) ==
    validate([p EXCEPT !.place = "out", !.itype = contiguous_itype(p.ttype), !.otype = contiguous_otype(p.ttype),
                       !.istride = <<>>, !.ostride = <<>>, !.idist = 0, !.odist = 0,
                       !.ioffset = <<0, 0>>, !.ooffset = <<0, 0>>, !.check = FALSE])
-----------------------------------------------------------------------------
(* Loops over a box of indices, divided among threads. *)

Box(length) == {i \in [1..Len(length) -> 0..(Max(Range(length)) - 1)] : \A d \in 1..Len(length) : i[d] < length[d]}

LexLess(i, j) == \E d \in 1..Len(i) : i[d] < j[d] /\ \A e \in 1..(d - 1) : i[e] = j[e]

compute_partition_count(length) ==
    IF NumProcs = 0 THEN 1
    ELSE Min({NumProcs, MaxPartitions, (Product(length) + MinIters + 1) \div MinIters})

\* The parts of 0..(length - 1), as pairs of first and end.
partition_base(length, count) ==
    LET num == Min({length, count})
    IN  {<<k * (length \div num), IF k = num - 1 THEN length ELSE (k + 1) * (length \div num)>> : k \in 0..(num - 1)}

\* The indices from first to the end of the box in the order of
\* increment_rowmajor, whose counters return to zero, not to first.
Visited(first, end) == {i \in Box(end) : ~LexLess(i, first)}

\* Dimension d is divided among the threads: the first one in
\* partition_rowmajor, the last one in partition_colmajor.
PartitionVisits(length, d) ==
    UNION {Visited([[e \in 1..Len(length) |-> 0] EXCEPT ![d] = part[1]], [length EXCEPT ![d] = part[2]]) :
               part \in partition_base(length[d], compute_partition_count(length))}
RowmajorVisits(length) == PartitionVisits(length, 1)
ColmajorVisits(length) == PartitionVisits(length, Len(length))

compute_index(index, stride, base) == InnerProduct(index, stride) + base
-----------------------------------------------------------------------------
(* Buffers: one function from positions to values for each array of a type.*)
(* A complex value in a planar buffer is kept as two parts.                *)

Bad == <<"bad">>
Part(v, n) == IF v = Bad THEN Bad ELSE <<n, v>>
Join(re, im) == IF Len(re) = 2 /\ Len(im) = 2 /\ re[1] = 1 /\ im[1] = 2 /\ re[2] = im[2] THEN re[2] ELSE Bad

\* The element at a position, of a layout [type, offset].
ElementAt(bufs, type, offset, pos) ==
    IF Planar(type) THEN Join(bufs[1][pos + offset[1]], bufs[2][pos + offset[2]]) ELSE bufs[1][pos + offset[1]]

Allocate(sizes) == [n \in 1..Len(sizes) |-> [pos \in 0..(sizes[n] - 1) |-> Bad]]

\* Values vals[<<b, i>>] stored at the positions of a layout; the other
\* positions keep what they held.
StoreElements(bufs, type, offset, stride, dist, vals) ==
    LET at == [bi \in DOMAIN vals |-> compute_index(bi[2], stride, bi[1] * dist)]
    IN  [n \in 1..Len(bufs) |->
            [pos \in DOMAIN bufs[n] |->
                IF \E bi \in DOMAIN vals : at[bi] + offset[n] = pos
                THEN LET v == vals[CHOOSE bi \in DOMAIN vals : at[bi] + offset[n] = pos]
                     IN  IF Planar(type) THEN Part(v, n) ELSE v
                ELSE bufs[n][pos]]]

LoadElements(bufs, type, offset, stride, dist, nbatch, visits) ==
    [bi \in (0..(nbatch - 1)) \X visits |-> ElementAt(bufs, type, offset, compute_index(bi[2], stride, bi[1] * dist))]

\* copy_buffers: input of p's layout to the contiguous one, and back.
ToContiguous(bufs, cbufs, p, c) ==
    StoreElements(cbufs, c.itype, c.ioffset, c.istride, c.idist,
        LoadElements(bufs, p.itype, p.ioffset, p.istride, p.idist, p.nbatch, RowmajorVisits(ilength(p))))
FromContiguous(cbufs, bufs, p, c) ==
    StoreElements(bufs, p.itype, p.ioffset, p.istride, p.idist,
        LoadElements(cbufs, c.itype, <<0, 0>>, c.istride, c.idist, p.nbatch, RowmajorVisits(ilength(p))))

is_contiguous_rowmajor(length, stride, dist) ==
    stride = compute_stride(length, <<>>, FALSE) /\ dist = Product(length)

\* Two interleaved buffers are divided by their last dimension
\* (distance_1to1_complex), all others by their first (distance_1to1_real,
\* distance_1to2).
ComparedVisits(ctype, type, length) ==
    IF ctype = type /\ type \in {"ci", "hi"} THEN ColmajorVisits(length) ELSE RowmajorVisits(length)

\* distance: a contiguous buffer of layout [ctype, cstride, cdist] against one
\* of another layout; contiguous ones are compared as one long row.  The pairs
\* of positions that are compared:
ComparedPositions(length, nbatch, ctype, cstride, cdist, type, stride, dist) ==
    IF is_contiguous_rowmajor(length, cstride, cdist) /\ is_contiguous_rowmajor(length, stride, dist)
    THEN {<<i[1], i[1]>> : i \in ComparedVisits(ctype, type, <<Product(length) * nbatch>>)}
    ELSE {<<compute_index(i, cstride, b * cdist), compute_index(i, stride, b * dist)>> :
              b \in 0..(nbatch - 1), i \in ComparedVisits(ctype, type, length)}

SameElements(cbufs, ctype, bufs, type, offset, pairs) ==
    \A pq \in pairs : LET v == ElementAt(cbufs, ctype, <<0, 0>>, pq[1])
                      IN  v # Bad /\ v = ElementAt(bufs, type, offset, pq[2])
=============================================================================
