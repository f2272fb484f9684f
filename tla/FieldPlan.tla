------------------------------- MODULE FieldPlan -------------------------------
(***************************************************************************)
(* How rocfft_plan_create turns a transform whose input or output is       *)
(* described by fields into a multi-plan: BuildOptMultiDevicePlan (FFT the *)
(* dimensions that are whole on the bricks, transpose globally, FFT the    *)
(* rest) and GatherScatterSingleDevicePlan (gather, FFT, scatter), with    *)
(* the temp buffers they lease.                                            *)
(*                                                                         *)
(* Every rank builds the same plan from the same fields, except that it    *)
(* has placeholders for what lives on other ranks.  The model builds the   *)
(* union of those plans: every buffer is the one its own rank would use.   *)
(*                                                                         *)
(* A configuration cfg is a record:                                        *)
(*   type       "c2c", "r2c" or "c2r"                                      *)
(*   inplace    rocfft_placement_inplace                                   *)
(*   pass       the output pointers the user passes: "separate", "same"    *)
(*              (the input pointers again) or "none"                       *)
(*   ilen, olen lengths and outputLengths, the batch last                  *)
(*   istride, ostride  inStrides and outStrides, inDist and outDist last   *)
(*   inF, outF  the bricks of the input and output field (<<>>: no field)  *)
(*   nranks     the size of the communicator                               *)
(*                                                                         *)
(* A plan is a record; Len(items) is the index of the item added last.     *)
(*   items, ante  multiPlan and multiPlanAntecedents                       *)
(*   temps        the temp buffers (see there)                             *)
(*   out          the outputItems of the function called last              *)
(*   status       "ok", "throw" (plan creation fails), "nullptr" (a null   *)
(*                lease is dereferenced)                                   *)
(*                                                                         *)
(* An item names the ranks it executes on, the messages between ranks, the *)
(* BufferPtrs it writes to, and the elements it copies (moves) or          *)
(* transforms (from src to dst).  A cell is <<rank, buffer, offset>> and a *)
(* buffer <<"in", i>>, <<"out", i>> (the i-th pointer the user passes) or  *)
(* <<"tmp", i>>; BufferPtr's == compares buffers and not ranks.            *)
(***************************************************************************)
EXTENDS Bricks, SequencesExt

\* The numbers from 1 to n that K holds, in order, and what a sequence has at
\* the positions in K.
InOrder(K, n) ==
  LET upTo[k \in 0 .. n] ==
        IF k = 0 THEN <<>> ELSE IF k \in K THEN Append(upTo[k - 1], k) ELSE upTo[k - 1]
  IN  upTo[n]

Pick(s, K) == LET ks == InOrder(K, Len(s)) IN [i \in DOMAIN ks |-> s[ks[i]]]

Loc(b) == <<b.rank, b.device>>

\* The size of an element (a real is 1).
ElemSize(kind) == IF kind = "real" THEN 1 ELSE 2

InKind(cfg) == IF cfg.type = "r2c" THEN "real" ELSE "complex"

OutKind(cfg) == IF cfg.type = "c2r" THEN "real" ELSE "complex"

NumDims(cfg) == Len(cfg.ilen) - 1

\* The index space of a box of the given lengths.
Box(len) ==
  LET longest == CHOOSE m \in Range(len) : \A n \in Range(len) : n <= m
  IN  {c \in [DOMAIN len -> 0 .. longest - 1] : \A d \in DOMAIN len : c[d] < len[d]}

\* compute_ptrdiff: the elements from the first of an array to its last.
PtrDiff(len, stride) == 1 + InnerProduct([d \in DOMAIN len |-> len[d] - 1], stride)

\* is_contiguous_output compares the output strides with the INPUT lengths.
IsContiguousOutput(cfg) ==
  cfg.ostride = [d \in DOMAIN cfg.ilen |-> Product(SubSeq(cfg.ilen, 1, d - 1))]

\* GatherUserBuffers: the bricks of a rank, in the order of the field, are
\* the pointers the user passes on that rank.
UserBuffers(side, field) ==
  [i \in DOMAIN field |->
     <<side, Cardinality({j \in 1 .. i - 1 : field[j].rank = field[i].rank})>>]

BricksSorted(field) == \A i, j \in DOMAIN field : i < j => field[i].rank <= field[j].rank

------------------------------------------------------------------------------
(* The plan under construction *)

EmptyPlan(locs) ==
  [items |-> <<>>, ante |-> <<>>, out |-> <<>>, status |-> "ok",
   temps |-> [free |-> [l \in locs |-> <<>>], size |-> <<>>, home |-> <<>>, held |-> <<>>]]

LastItem(P) == Len(P.items)

\* Items added one after the other, with what each of them waits for.
AddItems(P, items, ante) == [P EXCEPT !.items = P.items \o items, !.ante = P.ante \o ante]

AddItem(P, item, ante) == AddItems(P, <<item>>, <<ante>>)

AddAnte(P, i, a) == [P EXCEPT !.ante[i] = IF Contains(@, a) THEN @ ELSE Append(@, a)]

\* The item added last becomes an antecedent of item i, or an output item.
LastIsAnteOf(P, i) == AddAnte(P, i, LastItem(P))

WithOutputs(P, out) == [P EXCEPT !.out = out]

LastIsOutput(P) == WithOutputs(P, Append(P.out, LastItem(P)))

NoOutputs(P) == WithOutputs(P, <<>>)

FailWith(P, status) == [P EXCEPT !.status = status]

Throw(P) == FailWith(P, "throw")

------------------------------------------------------------------------------
(* Temp buffers: T.free are tempBuffers (per location, the buffers not     *)
(* leased), T.size and T.home each buffer's bytes and location, T.held the *)
(* buffers leased and not returned yet.                                    *)

\* Mutation: a leased buffer is not made bigger.
LeaseUnsized(T, loc, bytes) ==
  IF T.free[loc] # <<>>
    THEN [T EXCEPT !.held = Append(@, Head(T.free[loc])), !.free[loc] = Tail(@)]
    ELSE [T EXCEPT !.held = Append(@, Len(T.size) + 1),
                   !.size = Append(@, bytes), !.home = Append(@, loc)]

\* TempBufferLease: the first buffer the map has for the location, made big
\* enough, or a new one.
Lease(T, loc, bytes) ==
  IF T.free[loc] # <<>>
    THEN [T EXCEPT !.held = Append(@, Head(T.free[loc])), !.free[loc] = Tail(@),
                   !.size[Head(T.free[loc])] = MaxOf(@, bytes)]
    ELSE [T EXCEPT !.held = Append(@, Len(T.size) + 1),
                   !.size = Append(@, bytes), !.home = Append(@, loc)]

\* ~TempBufferLease for each of a sequence of leases.
Ended(T, bufs) ==
  FoldLeft(LAMBDA U, b : [U EXCEPT !.free[U.home[b]] = Append(@, b)],
           [T EXCEPT !.held = SelectSeq(@, LAMBDA b : ~ Contains(bufs, b))], bufs)

\* Leases of a sequence of locations and bytes.
LeaseAll(T, wanted) == FoldLeft(LAMBDA U, w : Lease(U, w[1], w[2]), T, wanted)

WithTemps(P, T) == [P EXCEPT !.temps = T]

Leases(P, wanted) == WithTemps(P, LeaseAll(P.temps, wanted))

LeaseOne(P, loc, bytes) == Leases(P, <<<<loc, bytes>>>>)

\* A lease for every brick of a field.
LeaseField(P, field, kind) ==
  Leases(P, [i \in DOMAIN field |-> <<Loc(field[i]), CountElems(field[i]) * ElemSize(kind)>>])

Held(P) == P.temps.held

\* The n buffers leased last.
Leased(P, n) == SubSeq(Held(P), Len(Held(P)) - n + 1, Len(Held(P)))

Return(P, bufs) == WithTemps(P, Ended(P.temps, bufs))

\* All leases but the first n end.
ReturnAfter(P, n) == Return(P, SubSeq(Held(P), n + 1, Len(Held(P))))

Temp(b) == <<"tmp", b>>

\* The buffer leased last.
LastTemp(P) == Temp(Last(Held(P)))

\* The leases bufs of the bricks of a field.
Temps(bufs, field) == [i \in DOMAIN field |-> Temp(bufs[i])]

------------------------------------------------------------------------------
(* Items *)

\* A transpose_brick item: an ExecPlan that copies a box of elements.
TransposeBrick(kind, rank, len, src, srcOff, srcStride, dst, dstOff, dstStride) ==
  [kind |-> "transpose", on |-> {rank}, msgs |-> {}, dests |-> {dst},
   isize |-> ElemSize(kind), osize |-> ElemSize(kind), dims |-> {}, src |-> {}, dst |-> {},
   moves |-> {[from |-> <<rank, src, srcOff + InnerProduct(c, srcStride)>>,
               to   |-> <<rank, dst, dstOff + InnerProduct(c, dstStride)>>] : c \in Box(len)}]

\* The elements a communication operation copies.
CopyMoves(srcRank, src, srcOff, dstRank, dst, dstOff, count) ==
  {[from |-> <<srcRank, src, srcOff + k>>, to |-> <<dstRank, dst, dstOff + k>>] :
     k \in 0 .. count - 1}

\* A communication item: the copies of its operations.
Comm(name, kind, ranks, moves, dests) ==
  [kind |-> name, on |-> ranks, dests |-> dests, moves |-> moves,
   isize |-> ElemSize(kind), osize |-> ElemSize(kind), dims |-> {}, src |-> {}, dst |-> {},
   msgs |-> {<<m.from[1], m.to[1]>> : m \in {x \in moves : x.from[1] # x.to[1]}}]

\* An ExecPlan that transforms the dimensions dims of an array: src and dst
\* say which cell holds the element of which coordinate.
FFTItem(rank, dims, src, dst, isize, osize, dest) ==
  [kind |-> "fft", on |-> {rank}, msgs |-> {}, dests |-> {dest}, moves |-> {},
   isize |-> isize, osize |-> osize, dims |-> dims, src |-> src, dst |-> dst]

\* The cells of an array of the given lengths and strides.
ArrayCells(rank, buf, lower, len, stride) ==
  {[cell |-> <<rank, buf, InnerProduct(c, stride)>>,
    at   |-> [d \in DOMAIN len |-> lower[d] + c[d]]] : c \in Box(len)}

BrickCells(b, buf) == ArrayCells(b.rank, buf, b.lower, Length(b), b.stride)

\* The cells an item reads and writes.
Reads(item) == {m.from : m \in item.moves} \cup {x.cell : x \in item.src}

Writes(item) == {m.to : m \in item.moves} \cup {x.cell : x \in item.dst}

------------------------------------------------------------------------------
(* C2CField: FFT the given dimensions of every brick of a field *)

\* Mutation: a brick's FFT waits for no writer of its input.
NoWriters(P, ante, buf) == <<>>

\* The items of ante that write to a buffer (WritesToBuffer).
Writers(P, ante, buf) == Pick(ante, {k \in DOMAIN ante : buf \in P.items[ante[k]].dests})

\* C2CBrickOneDimension for the dimensions of a brick, one after the other:
\* all but the first in place.
BrickFFTs(b, dims, src, dst) ==
  [k \in DOMAIN dims |-> FFTItem(b.rank, {dims[k]}, BrickCells(b, IF k = 1 THEN src ELSE dst),
                                 BrickCells(b, dst), 2, 2, dst)]

\* What n items wait for that are added to P: the first for the given items,
\* each other one for the one before it.
InTurn(P, n, ante) == [k \in 1 .. n |-> IF k = 1 THEN ante ELSE <<LastItem(P) + k - 1>>]

C2CField(P, field, dims, input, output, ante) ==
  LET brick(S, i) ==
        LastIsOutput(AddItems(S, BrickFFTs(field[i], dims, input[i], output[i]),
                              InTurn(S, Len(dims), Writers(P, ante, input[i]))))
      upTo[i \in 0 .. Len(field)] == IF i = 0 THEN NoOutputs(P) ELSE brick(upTo[i - 1], i)
  IN  upTo[Len(field)]

------------------------------------------------------------------------------
(* MakeFieldDimContiguous: a layout in which dimension dim is whole *)

\* The dimensions the field can be split in instead.  The comment says the
\* first one is taken; the loop keeps the last.
SplitDims(field, length, dim) ==
  {d \in DOMAIN length : d # dim /\ length[d] >= Len(field)}

\* Mutation: the last brick does not get what the division leaves over.
SplitUpperEven(i, n, length) == (length \div n) * i

\* The upper bound of the i-th of n bricks.
SplitUpper(i, n, length) == IF i = n THEN length ELSE (length \div n) * i

MakeFieldDimContiguous(field, length, dim) ==
  LET split == CHOOSE d \in SplitDims(field, length, dim) :
                 \A e \in SplitDims(field, length, dim) : e <= d
      n == Len(field)
      \* dim is the fastest dimension in memory, split the next, then the rest
      order == <<dim, split>> \o SelectSeq([d \in DOMAIN length |-> d],
                                           LAMBDA d : d \notin {dim, split})
      strideOf(len, d) ==
        Product([q \in 1 .. (CHOOSE q \in DOMAIN order : order[q] = d) - 1 |-> len[order[q]]])
      box(i) ==
        [lower |-> [d \in DOMAIN length |-> IF d = split THEN (length[split] \div n) * (i - 1) ELSE 0],
         upper |-> [d \in DOMAIN length |-> IF d = split THEN SplitUpper(i, n, length[split]) ELSE length[d]]]
      brick(i, bounds) ==
        [lower |-> bounds.lower, upper |-> bounds.upper,
         stride |-> [d \in DOMAIN length |-> strideOf(Length(bounds), d)],
         rank |-> field[i].rank, device |-> field[i].device]
  IN  [i \in DOMAIN field |-> brick(i, box(i))]

------------------------------------------------------------------------------
(* GlobalTranspose: from one layout of bricks to another *)

\* The pairs of an input and an output brick that share elements, in the
\* order of the two nested loops.
SharingPairs(inF, outF) ==
  LET partners(i) == InOrder({j \in DOMAIN outF : ~ Empty(Intersect(inF[i], outF[j]))}, Len(outF))
      row(i, js) == [k \in DOMAIN js |-> <<i, js[k]>>]
      upTo[i \in 0 .. Len(inF)] == IF i = 0 THEN <<>> ELSE upTo[i - 1] \o row(i, partners(i))
  IN  upTo[Len(inF)]

Shared(inF, outF, p) == Intersect(inF[p[1]], outF[p[2]])

\* Where a box starts within a brick that contains it.
OffsetInBrick(box, b) == OffsetInField(box, b.stride) - OffsetInField(b, b.stride)

\* The item that packs what a pair of bricks shares into a contiguous buffer,
\* and the one that unpacks it.
PackShared(inF, box, i, input, buf, off) ==
  TransposeBrick("complex", inF[i].rank, Length(box), input[i], OffsetInBrick(box, inF[i]),
                 inF[i].stride, buf, off, ContiguousStrides(box))

UnpackShared(outF, box, j, output, buf, off) ==
  TransposeBrick("complex", outF[j].rank, Length(box), buf, off, ContiguousStrides(box),
                 output[j], OffsetInBrick(box, outF[j]), outF[j].stride)

\* The items that pack, send and unpack what a pair shares, through two buffers.
P2PItems(inF, outF, input, output, p, box, from, to) ==
  <<PackShared(inF, box, p[1], input, from, 0),
    Comm("p2p", "complex", {inF[p[1]].rank, outF[p[2]].rank},
         CopyMoves(inF[p[1]].rank, from, 0, outF[p[2]].rank, to, 0, CountElems(box)), {to}),
    UnpackShared(outF, box, p[2], output, to, 0)>>

GlobalTransposeP2P(P, inF, outF, input, output, ante) ==
  LET leased(L, p, box) ==
        LastIsOutput(AddItems(L, P2PItems(inF, outF, input, output, p, box,
                                          Temp(Leased(L, 2)[1]), Temp(Leased(L, 2)[2])),
                              InTurn(L, 3, <<ante[p[1]]>>)))
      pair(S, p, box) == leased(Leases(S, <<<<Loc(inF[p[1]]), CountElems(box) * 2>>,
                                            <<Loc(outF[p[2]]), CountElems(box) * 2>>>>), p, box)
      through(pairs) ==
        LET upTo[k \in 0 .. Len(pairs)] ==
              IF k = 0 THEN NoOutputs(P)
              ELSE pair(upTo[k - 1], pairs[k], Shared(inF, outF, pairs[k]))
        IN  upTo[Len(pairs)]
  IN  ReturnAfter(through(SharingPairs(inF, outF)), Len(Held(P)))

\* The offset and count kept for a peer: each element shared with it
\* overwrites the one before.
SlotOffset(slots, peer) ==
  LET mine == {k \in DOMAIN slots : slots[k].peer = peer}
      last == CHOOSE k \in mine : \A m \in mine : m <= k
      upTo[k \in 0 .. Len(slots)] == IF k = 0 THEN 0 ELSE upTo[k - 1] + slots[k].count
  IN  IF mine = {} THEN 0 ELSE upTo[last - 1]

SlotCount(slots, peer) ==
  LET mine == {k \in DOMAIN slots : slots[k].peer = peer}
  IN  IF mine = {} THEN 0 ELSE slots[CHOOSE k \in mine : \A m \in mine : m <= k].count

SlotTotal(slots) == FoldLeft(LAMBDA n, s : n + s.count, 0, slots)

\* What the ranks send and receive, in the order of the pairs.
Slots(pairs, nranks, mine, other, k, inF, outF) ==
  [r \in 0 .. nranks - 1 |->
     LET own == SelectSeq(pairs, LAMBDA p : mine[p[k]].rank = r)
     IN  [i \in DOMAIN own |-> [peer   |-> other[own[i][3 - k]].rank,
                               device |-> mine[own[i][k]].device,
                               count  |-> CountElems(Shared(inF, outF, own[i]))]]]

Devices(slots) == {s.device : s \in Range(slots)}

\* What the communication of an all-to-all copies: from every rank to every rank.
A2AMoves(nranks, sends, recvs, sendBuf, recvBuf) ==
  UNION {CopyMoves(s, sendBuf[s], SlotOffset(sends[s], d),
                   d, recvBuf[d], SlotOffset(recvs[d], s), SlotCount(sends[s], d)) :
           s, d \in 0 .. nranks - 1}

\* The items of an all-to-all through the given buffers: a pack and an unpack
\* item per pair, and the communication that every unpack item waits for and
\* that waits for every pack item.
A2AItems(P, nranks, inF, outF, input, output, ante, pairs, sends, recvs, sendBuf, recvBuf) ==
  LET n == Len(pairs)
      pack(p, s, d) == PackShared(inF, Shared(inF, outF, p), p[1], input, sendBuf[s],
                                  SlotOffset(sends[s], d))
      unpack(p, s, d) == UnpackShared(outF, Shared(inF, outF, p), p[2], output, recvBuf[d],
                                      SlotOffset(recvs[d], s))
      item(p, k) == IF k % 2 = 1 THEN pack(p, inF[p[1]].rank, outF[p[2]].rank)
                    ELSE unpack(p, inF[p[1]].rank, outF[p[2]].rank)
      all == Comm("alltoallv", "complex", 0 .. nranks - 1,
                  A2AMoves(nranks, sends, recvs, sendBuf, recvBuf), Range(recvBuf))
      items == [k \in 1 .. 2 * n |-> item(pairs[(k + 1) \div 2], k)]
      waits == [k \in 1 .. 2 * n |-> IF k % 2 = 1 THEN ante ELSE <<LastItem(P) + 2 * n + 1>>]
  IN  WithOutputs(AddItems(P, Append(items, all), Append(waits, [k \in 1 .. n |-> LastItem(P) + 2 * k - 1])),
                  [k \in 1 .. n |-> LastItem(P) + 2 * k])

GlobalTransposeA2A(P, nranks, inF, outF, input, output, ante) ==
  LET ranks == 0 .. nranks - 1
      \* every rank leases its send buffer, then its receive buffer
      wanted(r, slots) == <<<<r, CHOOSE d \in Devices(slots) : TRUE>>, SlotTotal(slots) * 2>>
      transpose(pairs, sends, recvs) ==
        LET leased(L) ==
              A2AItems(L, nranks, inF, outF, input, output, ante, pairs, sends, recvs,
                       [r \in ranks |-> Temp(Leased(L, 2 * nranks)[2 * r + 1])],
                       [r \in ranks |-> Temp(Leased(L, 2 * nranks)[2 * r + 2])])
            returned(W) == Return(W, Reverse(Leased(W, 2 * nranks)))
        IN  IF \E r \in ranks : \/ Cardinality(Devices(sends[r])) # 1
                                \/ Cardinality(Devices(recvs[r])) # 1
              THEN Throw(NoOutputs(P))
              ELSE returned(leased(Leases(P, [k \in 1 .. 2 * nranks |->
                                                IF k % 2 = 1 THEN wanted((k - 1) \div 2, sends[(k - 1) \div 2])
                                                ELSE wanted((k - 1) \div 2, recvs[(k - 1) \div 2])])))
      slots(pairs) == transpose(pairs, Slots(pairs, nranks, inF, outF, 1, inF, outF),
                                Slots(pairs, nranks, outF, inF, 2, inF, outF))
  IN  slots(SharingPairs(inF, outF))

\* Mutation: all-to-all is used whatever the devices.
GlobalTransposeAlways(P, nranks, inF, outF, input, output, ante) ==
  GlobalTransposeA2A(P, nranks, inF, outF, input, output, ante)

\* Point to point only if some rank of several has several devices.
GlobalTranspose(P, nranks, inF, outF, input, output, ante) ==
  IF MultipleRanksDevices(inF) \/ MultipleRanksDevices(outF)
    THEN GlobalTransposeP2P(P, inF, outF, input, output, ante)
    ELSE GlobalTransposeA2A(P, nranks, inF, outF, input, output, ante)

------------------------------------------------------------------------------
(* BuildOptMultiDevicePlan *)

WholeIn(cfg)  == {d \in 1 .. NumDims(cfg) : ~ DimensionSplitInField(cfg.ilen[d], d, cfg.inF)}

WholeOut(cfg) == {d \in 1 .. NumDims(cfg) \ WholeIn(cfg) :
                    ~ DimensionSplitInField(cfg.ilen[d], d, cfg.outF)}

WholeNowhere(cfg) == 1 .. NumDims(cfg) \ (WholeIn(cfg) \cup WholeOut(cfg))

CanOptimize(cfg) ==
  /\ cfg.type = "c2c" /\ ~ cfg.inplace
  /\ cfg.inF # <<>> /\ cfg.outF # <<>>
  /\ WholeIn(cfg) # {} /\ WholeOut(cfg) # {}

\* Mutation: the first transforms are done in place.
FirstOutputInput(cfg, leased) == UserBuffers("in", cfg.inF)

\* Where the first transforms of every brick write: the user's input must
\* not be overwritten.
FirstOutput(cfg, leased) == Temps(leased, cfg.inF)

\* Transform the given dimensions in place after the items that T ends with.
ThenC2CField(T, field, dims, bufs) ==
  IF T.status = "ok" THEN C2CField(T, field, dims, bufs, bufs, T.out) ELSE T

BuildOptMultiDevicePlan(cfg, P) ==
  LET inOut == InOrder(WholeOut(cfg), NumDims(cfg))
      rest  == InOrder(WholeNowhere(cfg), NumDims(cfg))
      user  == UserBuffers("out", cfg.outF)
      \* the dimensions that are whole in the input
      first(L) == C2CField(L, cfg.inF, InOrder(WholeIn(cfg), NumDims(cfg)), UserBuffers("in", cfg.inF),
                           FirstOutput(cfg, Held(L)), <<>>)
      \* S: the plan, the layout the data is in and the leases of it
      start(Q) == [P |-> Q, field |-> cfg.inF, leases |-> Held(Q)]
      \* a dimension that is whole in neither field
      moved(S, f, M, d) ==
        ThenC2CField(GlobalTranspose(M, cfg.nranks, cfg.inF, f, Temps(S.leases, cfg.inF),
                                     Temps(Leased(M, Len(f)), f), S.P.out),
                     f, <<d>>, Temps(Leased(M, Len(f)), f))
      next(S, f, F) == [P |-> Return(F, S.leases), field |-> f, leases |-> Leased(F, Len(f))]
      layout(S, f, d) == next(S, f, moved(S, f, LeaseField(S.P, f, "complex"), d))
      mid(S, d) ==
        IF S.P.status # "ok" THEN S
        ELSE IF SplitDims(cfg.inF, cfg.ilen, d) = {} THEN [S EXCEPT !.P = Throw(@)]
        ELSE layout(S, MakeFieldDimContiguous(cfg.inF, cfg.ilen, d), d)
      upTo[k \in 0 .. Len(rest)] ==
        IF k = 0 THEN start(first(LeaseField(P, cfg.inF, "complex"))) ELSE mid(upTo[k - 1], rest[k])
      \* the rest is whole in the output
      last(S) ==
        IF S.P.status # "ok" THEN S.P
        ELSE Return(ThenC2CField(GlobalTranspose(S.P, cfg.nranks, S.field, cfg.outF,
                                                 Temps(S.leases, S.field), user, S.P.out),
                                 cfg.outF, inOut, user), S.leases)
  IN  last(upTo[Len(rest)])

------------------------------------------------------------------------------
(* GatherScatterSingleDevicePlan: gather to one device, FFT, scatter *)

\* The device the transform runs on (rank0_current_device).
Root == <<0, 0>>

\* The elements of the bricks before the i-th.
ElemsBefore(bricks, i) == SumElems(SubSeq(bricks, 1, i - 1))

\* An operation of a gather or a scatter, with the ranks of its ends.
RanksOf(moves, root) == {root} \cup UNION {{m.from[1], m.to[1]} : m \in moves}

\* The communication gets its operations when all are known, and ends the
\* function unless an item comes after it.
WithItem(P, i, item) == [P EXCEPT !.items[i] = item]

AtLeastOutput(P, i) == IF P.out = <<>> THEN WithOutputs(P, <<i>>) ELSE P

\* The operations of a gather through dest, item g of Q.
GatherThrough(Q, cfg, g, output, dest) ==
  LET bricks == cfg.inF
      user   == UserBuffers("in", bricks)
      direct(b) == IsContiguous(b) /\ IsContiguousInField(b, cfg.ilen)
      \* a brick that is not contiguous is packed on its own device
      pack(L, b, i, off) ==
        LastIsAnteOf(AddItem(L, TransposeBrick(InKind(cfg), b.rank, Length(b), user[i], 0, b.stride,
                                               LastTemp(L), off, ContiguousStrides(b)), <<>>), g)
      packed(R, b, i, off) ==
        IF IsContiguous(b) THEN R
        ELSE pack(LeaseOne(R, Loc(b), CountElems(b) * ElemSize(InKind(cfg))), b, i, off)
      \* and unpacked on the root
      unpacked(R, b, off) ==
        IF direct(b) THEN R
        ELSE LastIsOutput(
               AddItem(R, TransposeBrick(InKind(cfg), Root[1], Length(b), dest, off,
                                         ContiguousStrides(b), output,
                                         OffsetInField(b, cfg.istride), cfg.istride), <<g>>))
      \* S: the plan and the operations
      brick(S, R, b, i, off) ==
        [P |-> unpacked(R, b, off),
         moves |-> S.moves \cup CopyMoves(b.rank, IF IsContiguous(b) THEN user[i] ELSE LastTemp(R), 0,
                                         Root[1], dest, off, CountElems(b))]
      oneBrick(S, b, i, off) == brick(S, packed(S.P, b, i, off), b, i, off)
      upTo[i \in 0 .. Len(bricks)] ==
        IF i = 0 THEN [P |-> NoOutputs(Q), moves |-> {}]
        ELSE oneBrick(upTo[i - 1], bricks[i], i, ElemsBefore(bricks, i))
      gather(S) ==
        AtLeastOutput(WithItem(S.P, g, Comm("gather", InKind(cfg), RanksOf(S.moves, Root[1]),
                                            S.moves, {dest})), g)
  IN  gather(upTo[Len(bricks)])

\* The gather is added first and gets its operations at the end.  It is
\* through a temp buffer if some brick has to be unpacked.
GatherBricksToField(P, cfg, output) ==
  LET toTemp == \E i \in DOMAIN cfg.inF : ~ (IsContiguous(cfg.inF[i]) /\ IsContiguousInField(cfg.inF[i], cfg.ilen))
      leased(Q) == GatherThrough(Q, cfg, LastItem(P) + 1, output, LastTemp(Q))
      added == AddItem(P, Comm("gather", InKind(cfg), {}, {}, {}), <<>>)
  IN  ReturnAfter(IF toTemp
                    THEN leased(LeaseOne(added, Root, Product(cfg.ilen) * ElemSize(InKind(cfg))))
                    ELSE GatherThrough(added, cfg, LastItem(P) + 1, output, output), Len(Held(P)))

\* The operations of a scatter from src, item s of Q.
ScatterThrough(Q, cfg, s, input, ante, src) ==
  LET bricks == cfg.outF
      user   == UserBuffers("out", bricks)
      \* the field's lengths are those of the input
      direct(b) == IsContiguousInField(b, cfg.ilen)
      \* a brick that is not contiguous in the field is packed before it is sent
      packed(R, b, off) ==
        IF direct(b) THEN R
        ELSE LastIsAnteOf(
               AddItem(R, TransposeBrick(OutKind(cfg), Root[1], Length(b), input,
                                         OffsetInField(b, cfg.ostride), cfg.ostride,
                                         src, off, ContiguousStrides(b)), <<ante>>), s)
      \* and unpacked after that unless its own layout is contiguous
      received(b) == direct(b) \/ IsContiguous(b)
      unpack(L, b, i) ==
        LastIsOutput(AddItem(L, TransposeBrick(OutKind(cfg), b.rank, Length(b), LastTemp(L), 0,
                                               ContiguousStrides(b), user[i], 0, b.stride), <<s>>))
      unpacked(R, b, i) ==
        IF received(b) THEN R
        ELSE unpack(LeaseOne(R, Loc(b), CountElems(b) * ElemSize(OutKind(cfg))), b, i)
      \* S: the plan, the operations and where they write
      copied(S, R, b, off, dst) ==
        [P |-> R, dests |-> S.dests \cup {dst},
         moves |-> S.moves \cup CopyMoves(Root[1], src, off, b.rank, dst, 0, CountElems(b))]
      brick(S, R, b, i, off) == copied(S, R, b, off, IF received(b) THEN user[i] ELSE LastTemp(R))
      oneBrick(S, b, i, off) == brick(S, unpacked(packed(S.P, b, off), b, i), b, i, off)
      upTo[i \in 0 .. Len(bricks)] ==
        IF i = 0 THEN [P |-> NoOutputs(Q), moves |-> {}, dests |-> {}]
        ELSE oneBrick(upTo[i - 1], bricks[i], i, ElemsBefore(bricks, i))
      scatter(S) ==
        AtLeastOutput(WithItem(S.P, s, Comm("scatter", OutKind(cfg), RanksOf(S.moves, Root[1]),
                                            S.moves, S.dests)), s)
  IN  scatter(upTo[Len(bricks)])

\* The scatter is added first and gets its operations at the end.  It is from
\* a temp buffer if some brick has to be packed.
ScatterFieldToBricks(P, cfg, input, ante) ==
  LET fromTemp == \E i \in DOMAIN cfg.outF : ~ IsContiguousInField(cfg.outF[i], cfg.ilen)
      leased(Q) == ScatterThrough(Q, cfg, LastItem(P) + 1, input, ante, LastTemp(Q))
      added == AddItem(P, Comm("scatter", OutKind(cfg), {}, {}, {}), <<ante>>)
  IN  ReturnAfter(IF fromTemp
                    THEN leased(LeaseOne(added, Root, Product(cfg.ilen) * ElemSize(OutKind(cfg))))
                    ELSE ScatterThrough(added, cfg, LastItem(P) + 1, input, ante, input), Len(Held(P)))

\* The placement set_rootplan_params gives the transform itself.
RootInPlace(cfg) ==
  CASE cfg.inF = <<>> /\ cfg.outF = <<>> -> cfg.inplace
    [] cfg.inF # <<>> /\ cfg.outF # <<>> -> cfg.type = "c2c"
    [] cfg.inF # <<>> /\ cfg.outF = <<>> -> cfg.type = "c2c" /\ IsContiguousOutput(cfg)
    [] OTHER -> FALSE

\* The transform of the whole array on the root device.
RootFFT(cfg, in, out) ==
  FFTItem(Root[1], 1 .. NumDims(cfg),
          ArrayCells(Root[1], in, [d \in DOMAIN cfg.ilen |-> 0], cfg.ilen, cfg.istride),
          ArrayCells(Root[1], out, [d \in DOMAIN cfg.olen |-> 0], cfg.olen, cfg.ostride),
          ElemSize(InKind(cfg)), ElemSize(OutKind(cfg)), out)

GatherScatterSingleDevicePlan(cfg, P) ==
  LET useFFTBuf == cfg.inF # <<>> /\ (~ IsContiguousOutput(cfg) \/ cfg.outF # <<>>)
      useOutBuf == ~ cfg.inplace /\ cfg.outF # <<>>
      fftBuf(Q) == IF useFFTBuf
                     THEN LeaseOne(Q, Root, PtrDiff(cfg.ilen, cfg.istride) * ElemSize(InKind(cfg))) ELSE Q
      outBuf(Q) == IF useOutBuf
                     THEN LeaseOne(Q, Root, PtrDiff(cfg.olen, cfg.ostride) * ElemSize(OutKind(cfg))) ELSE Q
      gatherBuf(Q) == CASE useFFTBuf -> Temp(Held(Q)[1])
                        [] ~ useFFTBuf /\ cfg.inF = <<>> -> <<"in", 0>>
                        [] OTHER -> <<"out", 0>>
      fftOut(Q) == CASE RootInPlace(cfg) -> gatherBuf(Q)
                     [] ~ RootInPlace(cfg) /\ useOutBuf -> LastTemp(Q)
                     [] OTHER -> <<"out", 0>>
      gathered(Q, in) == IF cfg.inF = <<>> THEN NoOutputs(Q) ELSE GatherBricksToField(Q, cfg, in)
      transformed(G, in, out) == AddItem(G, RootFFT(cfg, in, out), G.out)
      \* the scatter dereferences fftOutBuf or fftBuf
      haveSrc == IF RootInPlace(cfg) THEN useFFTBuf ELSE useOutBuf
      scattered(F, out) ==
        CASE cfg.outF = <<>> -> F
          [] cfg.outF # <<>> /\ haveSrc -> ScatterFieldToBricks(F, cfg, out, LastItem(F))
          [] OTHER -> FailWith(F, "nullptr")
      through(Q, in, out) == scattered(transformed(gathered(Q, in), in, out), out)
      leased(Q) == through(Q, gatherBuf(Q), fftOut(Q))
      returned(S) == IF S.status = "ok" THEN Return(S, Reverse(Held(S))) ELSE S
  IN  returned(leased(outBuf(fftBuf(P))))

------------------------------------------------------------------------------
(* rocfft_plan_create_internal *)

Locations(cfg) == {Root} \cup {Loc(b) : b \in Range(cfg.inF) \cup Range(cfg.outF)}

ValidateFields(cfg) ==
  /\ cfg.inF # <<>> => ValidateField(cfg.ilen, cfg.inF)
  /\ cfg.outF # <<>> => ValidateField(cfg.olen, cfg.outF)
  /\ cfg.nranks > 1 => cfg.inF # <<>> /\ cfg.outF # <<>>

\* A field without bricks is not given; GatherUserBuffers refuses bricks
\* that are not sorted by rank.
CreatePlan(cfg) ==
  LET P == EmptyPlan(Locations(cfg))
  IN  IF ~ ValidateFields(cfg) \/ ~ BricksSorted(cfg.inF) \/ ~ BricksSorted(cfg.outF) THEN Throw(P)
      ELSE IF cfg.inF = <<>> /\ cfg.outF = <<>>
        THEN AddItem(P, RootFFT(cfg, <<"in", 0>>,
                                IF RootInPlace(cfg) THEN <<"in", 0>> ELSE <<"out", 0>>), <<>>)
      ELSE IF CanOptimize(cfg) THEN BuildOptMultiDevicePlan(cfg, P)
      ELSE GatherScatterSingleDevicePlan(cfg, P)

------------------------------------------------------------------------------
(* MultiPlanTopologicalSort, as a function of a plan without cycles *)

\* What TopologicalSortDFS (dfs) adds to the items sorted so far: for the
\* next item, unless that has been visited, and for a list of antecedents.
SortNext(dfs, a, done) == IF Contains(done, a) THEN done ELSE dfs[<<a, done>>]

SortAnte(dfs, ante, done) ==
  LET visit[k \in 0 .. Len(ante)] == IF k = 0 THEN done ELSE SortNext(dfs, ante[k], visit[k - 1])
  IN  visit[Len(ante)]

\* DFS[d] is TopologicalSortDFS of an item, given what has been sorted, to
\* depth d: without a cycle it nests less deep than there are items.
TopologicalSortDFS(P) ==
  LET Items == DOMAIN P.items
      DFS[d \in 0 .. Len(P.items)] ==
        IF d = 0 THEN [x \in Items \X Seq(Items) |-> x[2]]
        ELSE [x \in Items \X Seq(Items) |-> Append(SortAnte(DFS[d - 1], P.ante[x[1]], x[2]), x[1])]
  IN  DFS[Len(P.items)]

Sorted(P) ==
  LET dfs == TopologicalSortDFS(P)
      upTo[n \in 0 .. Len(P.items)] == IF n = 0 THEN <<>> ELSE SortNext(dfs, n, upTo[n - 1])
  IN  upTo[Len(P.items)]
==============================================================================
