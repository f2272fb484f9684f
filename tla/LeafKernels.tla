----------------------------- MODULE LeafKernels -----------------------------
(****************************************************************************)
(* The kernels of a plan's leaves as functions on global memory.             *)
(****************************************************************************)
EXTENDS KernelArithmetic, Sequences, FiniteSets, TLC

------------------------------------------------------------------------------
(***************************************************************************)
(* Global memory as the kernels of a plan see it.  A buffer is a function  *)
(* from slots to real numbers; complex element i of it is the slots 2i and *)
(* 2i + 1, so a kernel that takes a real buffer for a complex one of half  *)
(* the length does here what it does in the library.                       *)
(*                                                                         *)
(* A kernel is a function from actors to the slots each of them reads and  *)
(* to what it writes.  The actors are its threads, or its blocks when the  *)
(* kernel has one barrier, between its reads and its writes of global      *)
(* memory.  Nothing orders two actors.                                     *)
(*                                                                         *)
(* A leaf node is a record with the fields of TreeNode: scheme, length,    *)
(* outputLength, inStride, outStride, iDist, oDist (in elements of the     *)
(* buffer's own type), batch, obIn, obOut, and dim, the number of          *)
(* dimensions its transform works on, s (1 for a forward transform), eb    *)
(* (ebtype), iOffset, oOffset, large1D, lengthBlue and lengthBlueN.        *)
(***************************************************************************)

ProductOf(length) ==
  LET f[i \in 0 .. Len(length)] == IF i = 0 THEN 1 ELSE f[i - 1] * length[i]
  IN  f[Len(length)]

\* Index number d of element t of an array, the first one running fastest.
Index(t, length, d) == (t \div ProductOf(SubSeq(length, 1, d - 1))) % length[d]

\* Where element t of such an array lies.
Place(t, length, stride) ==
  LET f[d \in 0 .. Len(length)] ==
        IF d = 0 THEN 0 ELSE f[d - 1] + Index(t, length, d) * stride[d]
  IN  f[Len(length)]

\* The function f: TLC evaluates it once and not for every use of it.
Table(f) == f @@ <<>>

Smaller(a, b) == IF a < b THEN a ELSE b

DivRoundingUp(a, b) == (a + b - 1) \div b

-----------------------------------------------------------------------------
(* What an actor does. *)

Work(reads, writes) == [reads |-> reads, writes |-> writes]

Idle == Work({}, {})

\* What is read outside of a buffer is arbitrary.
Slot(mem, b, i) == IF i \in DOMAIN mem[b] THEN mem[b][i] ELSE Unknown[1]

Load(mem, b, i) == <<Slot(mem, b, 2 * i), Slot(mem, b, 2 * i + 1)>>

Slots(b, elems) == UNION {{<<b, 2 * i>>, <<b, 2 * i + 1>>} : i \in elems}

Store(b, i, v) == {<<<<b, 2 * i>>, v[1]>>, <<<<b, 2 * i + 1>>, v[2]>>}

\* Pairs <<element, value>> stored.
StoreAll(b, pairs) == UNION {Store(b, p[1], p[2]) : p \in pairs}

\* The slots an actor writes.
Written(work) == {w[1] : w \in work.writes}

\* No actor writes a slot that another one reads or writes.
RaceFree(kernel) ==
  LET written == UNION {{<<slot, a>> : slot \in Written(kernel[a])} : a \in DOMAIN kernel}
      read == UNION {{<<slot, a>> : slot \in kernel[a].reads} : a \in DOMAIN kernel}
      slots == {w[1] : w \in written}
  IN  /\ Cardinality(slots) = Cardinality(written)
      /\ \A r \in read : r[1] \in slots => r \in written

\* Every slot that is read or written lies in its buffer.
Inside(kernel, mem) ==
  \A a \in DOMAIN kernel :
    \A slot \in kernel[a].reads \union Written(kernel[a]) : slot[2] \in DOMAIN mem[slot[1]]

\* The memory after the kernel.
After(kernel, mem) ==
  LET writes == UNION {kernel[a].writes : a \in DOMAIN kernel}
      to(b) == FromPairs({<<w[1][2], w[2]>> : w \in {v \in writes : v[1][1] = b}})
      merged(old, new) == [i \in DOMAIN old |-> IF i \in DOMAIN new THEN new[i] ELSE old[i]]
  IN  [b \in DOMAIN mem |-> merged(mem[b], Table(to(b)))]

------------------------------------------------------------------------------
(***************************************************************************)
(* The kernels between real and complex data (rtc_realcomplex_gen.cpp and  *)
(* the launches of rtc_realcomplex_kernel.cpp): the copies of an odd       *)
(* length's transform, and the post- and pre-processing of an even one,    *)
(* alone or together with a transposition.  The processing is in place     *)
(* when its node is, the two others never are.                             *)
(***************************************************************************)

CONSTANTS LaunchBoundsR2C,  \* LAUNCH_BOUNDS_R2C_C2R_KERNEL
          TileXR2C, TileXC2R, TileY  \* of RealComplexEvenTransposeSpecs

\* The wrap of size_t, where a difference falls below zero.
SizeTWrap == 2^20

Threads(elems, bounds) == 0 .. bounds * DivRoundingUp(elems, bounds) - 1

-----------------------------------------------------------------------------
(* r2c_copy_rtc: CS_KERNEL_COPY_* *)

\* The lengths the threads are dealt out over: half of the first one and one
\* more for a Hermitian input.
CopyLengths(l) ==
  IF l.scheme = "COPY_HERM_TO_CMPLX"
  THEN <<l.outputLength[1] \div 2 + 1>> \o Tail(l.length) ELSE l.length

\* The element mirrored to element t, in an array with the first length N0.
Mirror(t, lengths, N0, stride) ==
  LET full == <<N0>> \o Tail(lengths)
      at(d) == (full[d] - Index(t, lengths, d)) % full[d]
      f[d \in 0 .. Len(full)] == IF d = 0 THEN 0 ELSE f[d - 1] + at(d) * stride[d]
  IN  f[Len(full)]

CopyThread(l, mem, global_idx) ==
  LET lengths == CopyLengths(l)
      t == global_idx % ProductOf(lengths)
      idx_batch == global_idx \div ProductOf(lengths)
      idx_0 == Index(t, lengths, 1)
      in == Place(t, lengths, l.inStride) + idx_batch * l.iDist
      out == Place(t, lengths, l.outStride) + idx_batch * l.oDist
      outc == Mirror(t, lengths, l.outputLength[1], l.outStride) + idx_batch * l.oDist
      elem == Load(mem, l.obIn, in)
      simple == idx_0 = 0 \/ idx_0 * 2 = l.outputLength[1]
  IN  CASE idx_batch >= l.batch -> Idle
        [] l.scheme = "COPY_R_TO_CMPLX" ->
             Work({<<l.obIn, in>>}, Store(l.obOut, out, <<Slot(mem, l.obIn, in), 0>>))
        [] l.scheme = "COPY_CMPLX_TO_HERM" ->
             IF idx_0 < 1 + l.length[1] \div 2
             THEN Work(Slots(l.obIn, {in}), Store(l.obOut, out, elem)) ELSE Idle
        [] l.scheme = "COPY_CMPLX_TO_R" ->
             Work({<<l.obIn, 2 * in>>}, {<<<<l.obOut, out>>, elem[1]>>})
        [] l.scheme = "COPY_HERM_TO_CMPLX" ->
             Work(Slots(l.obIn, {in}),
                  Store(l.obOut, out, elem)
                    \union (IF simple THEN {} ELSE Store(l.obOut, outc, Conj(elem))))

r2c_copy(l, mem) ==
  [t \in Threads(ProductOf(CopyLengths(l)) * l.batch, LaunchBoundsR2C) |-> CopyThread(l, mem, t)]

-----------------------------------------------------------------------------
(* realcomplex_even_rtc: CS_KERNEL_R_TO_CMPLX, CS_KERNEL_CMPLX_TO_R *)

EvenHalf(l) == IF l.scheme = "R_TO_CMPLX" THEN l.length[1] ELSE l.length[1] - 1

\* Where row number `row` starts: all higher dimensions are taken as a batch with the
\* stride of dimension 2.
EvenStart(l, row, stride, dist) ==
  LET higher == ProductOf(Tail(l.length))
  IN  (row \div higher) * dist + (IF Len(l.length) > 1 THEN (row % higher) * stride[2] ELSE 0)

EvenThread(l, mem, global_idx) ==
  LET half_N == EvenHalf(l)
      idx_p == global_idx % half_N
      row == global_idx \div half_N
      idx_batch == row \div ProductOf(Tail(l.length))
      in == EvenStart(l, row, l.inStride, l.iDist)
      out == EvenStart(l, row, l.outStride, l.oDist)
      quarter_N == (half_N + 1) \div 2
      elem(i) == Load(mem, l.obIn, in + i)
      twd == At(HalfNTable(half_N), idx_p)
      forward == l.scheme = "R_TO_CMPLX"
      new == IF forward
             THEN real_post_process(half_N, idx_p, elem(idx_p), elem(half_N - idx_p),
                                    elem(quarter_N), twd)
             ELSE real_pre_process(half_N, idx_p, elem(idx_p), elem(half_N - idx_p),
                                   elem(quarter_N), twd)
      used == {idx_p} \union (IF idx_p = 0 /\ forward THEN {} ELSE {half_N - idx_p})
                \union (IF idx_p = 0 /\ half_N % 2 = 0 THEN {quarter_N} ELSE {})
  IN  IF idx_batch >= l.batch \/ idx_p >= quarter_N THEN Idle
      ELSE Work(Slots(l.obIn, {in + i : i \in used}),
                StoreAll(l.obOut, {<<out + e[1], e[2]>> : e \in new}))

realcomplex_even(l, mem) ==
  [t \in Threads(EvenHalf(l) * ProductOf(Tail(l.length)) * l.batch, LaunchBoundsR2C) |->
     EvenThread(l, mem, t)]

-----------------------------------------------------------------------------
(* realcomplex_even_transpose_rtc: CS_KERNEL_R_TO_CMPLX_TRANSPOSE and      *)
(* CS_KERNEL_TRANSPOSE_CMPLX_TO_R.  A block reads a tile near the          *)
(* beginnings of its lines and one near their ends, and butterflies them.  *)

\* The tile of a block: the dimension of length len is cut, k is the block's
\* number along it.
TileSize(len, tile) == Smaller((len - 1) \div 2, tile)

TileStart(len, tile, k) == k * TileSize(len, tile) + 1

\* Mutation: the tile in the middle is not cut.
TileCountFull(len, tile, k) == TileSize(len, tile)

TileCount(len, tile, k) ==
  LET middle == (len + 1) \div 2
      start == TileStart(len, tile, k)
  IN  IF start + TileSize(len, tile) >= middle THEN (middle - start) % SizeTWrap
      ELSE TileSize(len, tile)

\* Elements of LDS that no thread has written.
TileAt(tile, i) == IF i \in DOMAIN tile THEN tile[i] ELSE Unknown

\* Block <<x, y, z>>: lines are rows, thread <<x, y>> has column x of row y.
R2CTransposeBlock(l, mem, b) ==
  LET len_row == l.length[1]
      left == TileStart(len_row, TileXR2C, b[1])
      cols_to_read == TileCount(len_row, TileXR2C, b[1])
      row_limit == ProductOf(Tail(l.length))
      row(t) == b[2] * TileY + t[2]
      here == {t \in (0 .. TileXR2C - 1) \X (0 .. TileY - 1) : row(t) < row_limit}
      active == {t \in here : t[1] < cols_to_read}
      firsts == {t \in here : b[1] = 0 /\ t[1] = 0}
      base(t) == b[3] * l.iDist + (row(t) % l.length[2]) * l.inStride[2]
                   + (IF Len(l.length) > 2 THEN (row(t) \div l.length[2]) * l.inStride[3] ELSE 0)
      lefts(t) == base(t) + left + t[1]
      rights(t) == base(t) + (len_row - (left + cols_to_read - 1)) + t[1]
      leftTile == [t \in active |-> Load(mem, l.obIn, lefts(t))]
      rightTile == [t \in active |-> Load(mem, l.obIn, rights(t))]
      even == len_row % 2 = 0
      first(t) == Load(mem, l.obIn, base(t))
      middle(t) == Load(mem, l.obIn, base(t) + len_row \div 2)
      output(col, t) == b[3] * l.oDist + l.outStride[Len(l.length)] * col + row(t)
      ends(t) == {<<output(len_row, t), <<Mod(first(t)[1] - first(t)[2]), 0>>>>,
                  <<output(0, t), <<Mod(first(t)[1] + first(t)[2]), 0>>>>}
                   \union (IF even THEN {<<output((len_row + 1) \div 2, t), Conj(middle(t))>>}
                           ELSE {})
      both(t, v) == {<<output(left + t[1], t), v[1]>>, <<output(len_row - (left + t[1]), t), v[2]>>}
      pairs(t) == both(t, PostPair(leftTile[t], TileAt(rightTile, <<cols_to_read - t[1] - 1, t[2]>>),
                                   At(HalfNTable(len_row), left + t[1])))
  IN  Work(Slots(l.obIn, {lefts(t) : t \in active} \union {rights(t) : t \in active}
                   \union {base(t) : t \in firsts}
                   \union {base(t) + len_row \div 2 : t \in {u \in firsts : even}}),
           StoreAll(l.obOut, UNION ({ends(t) : t \in firsts} \union {pairs(t) : t \in active})))

\* Block <<x, y, z>>: lines are columns, thread <<x, y>> has row y of column x.
C2RTransposeBlock(l, mem, b) ==
  LET len_col == l.length[Len(l.length)] - 1
      left == TileStart(len_col, TileY, b[2])
      rows_to_read == TileCount(len_col, TileY, b[2])
      col_limit == IF Len(l.length) = 2 THEN l.length[1] ELSE l.length[1] * l.length[2]
      col(t) == b[1] * TileXC2R + t[1]
      here == {t \in (0 .. TileXC2R - 1) \X (0 .. TileY - 1) : col(t) < col_limit}
      active == {t \in here : t[2] < rows_to_read}
      firsts == {t \in here : b[2] = 0 /\ t[2] = 0}
      input(t, i) == b[3] * l.iDist + (col(t) % l.length[1]) * l.inStride[1]
                       + (col(t) \div l.length[1]) * l.inStride[2]
                       + i * l.inStride[Len(l.length)]
      output(t, i) == b[3] * l.oDist + (col(t) % l.length[1]) * l.outStride[2]
                        + (IF Len(l.length) = 2 THEN 0
                           ELSE (col(t) \div l.length[1]) * l.outStride[3])
                        + i * l.outStride[1]
      elem(t, i) == Load(mem, l.obIn, input(t, i))
      even == len_col % 2 = 0
      middle == (len_col + 1) \div 2
      ends(t, first, last) ==
        {<<output(t, 0), <<Mod(first[1] + last[1]), Mod(first[1] - last[1])>>>>}
          \union (IF even THEN {<<output(t, middle), Scale(2, Conj(elem(t, middle)))>>} ELSE {})
      both(t, v) == {<<output(t, left + t[2]), v[1]>>, <<output(t, len_col - (left + t[2])), v[2]>>}
      pairs(t) == both(t, PrePair(elem(t, left + t[2]), elem(t, len_col - (left + t[2])),
                                  At(HalfNTable(len_col), left + t[2])))
      used(t) == (IF t \in active THEN {left + t[2], len_col - (left + t[2])} ELSE {})
                   \union (IF t \in firsts THEN {0, len_col} \union (IF even THEN {middle} ELSE {})
                           ELSE {})
  IN  Work(Slots(l.obIn, UNION {{input(t, i) : i \in used(t)} : t \in here}),
           StoreAll(l.obOut, UNION ({ends(t, elem(t, 0), elem(t, len_col)) : t \in firsts}
                                      \union {pairs(t) : t \in active})))

EvenTransposeGrid(l) ==
  LET dim == Len(l.length)
      n == IF dim > 2 THEN l.length[1] * l.length[2] ELSE l.length[1]
      half == (l.length[dim] - 1) \div 2
  IN  IF l.scheme = "R_TO_CMPLX_TRANSPOSE"
      THEN <<((l.length[1] - 1) \div TileXR2C) \div 2 + 1,
             ((l.length[2] - 1) \div TileY + 1) * (IF dim > 2 THEN l.length[3] ELSE 1), l.batch>>
      ELSE <<(n - 1) \div TileXC2R + 1, IF half = 0 THEN 1 ELSE DivRoundingUp(half, TileY), l.batch>>

realcomplex_even_transpose(l, mem) ==
  LET grid == EvenTransposeGrid(l)
  IN  [b \in (0 .. grid[1] - 1) \X (0 .. grid[2] - 1) \X (0 .. grid[3] - 1) |->
         IF l.scheme = "R_TO_CMPLX_TRANSPOSE" THEN R2CTransposeBlock(l, mem, b)
         ELSE C2RTransposeBlock(l, mem, b)]

------------------------------------------------------------------------------
(***************************************************************************)
(* The transposition kernel (rtc_transpose_gen.cpp, launched by            *)
(* rtc_transpose_kernel.cpp): a block reads a tile of TileWidth rows and   *)
(* columns, TileRows rows at a time, into the LDS, and writes it turned    *)
(* around.  The kernel of a large transform multiplies with the twiddle    *)
(* factors in between.                                                     *)
(***************************************************************************)

CONSTANTS TileWidth,    \* tileX
          TileRows,     \* tileY
          DiagonalUnit, \* 256
          TwdBase       \* log2 of the radix of the large twiddle tables

\* largeTwdSteps
LargeTwdSteps(large1D) ==
  IF large1D = 0 THEN 0 ELSE CHOOSE k \in 1 .. 4 : /\ large1D <= 2^(TwdBase * k)
                                                   /\ k > 1 => large1D > 2^(TwdBase * (k - 1))

\* Consecutive blocks take tiles along a diagonal.
Diagonal(l) ==
  /\ l.length[2] % DiagonalUnit = 0
  /\ l.outStride[1] % DiagonalUnit = 0
  /\ l.scheme = "TRANSPOSE"

TileAligned(l) == l.length[1] % TileWidth = 0 /\ l.length[2] % TileWidth = 0

Length2(l) == IF Len(l.length) > 2 THEN l.length[3] ELSE 1

TransposeGrid(l) ==
  <<DivRoundingUp(l.length[1], TileWidth), DivRoundingUp(l.length[2] * Length2(l), TileWidth),
    ProductOf(SubSeq(l.length, 4, Len(l.length))) * l.batch>>

\* tileBlockIdx_x, tileBlockIdx_y
TileBlockIdx(l, b) ==
  LET grid == TransposeGrid(l)
      bid == b[1] + grid[1] * b[2]
      y == bid % grid[2]
  IN  IF Diagonal(l) THEN <<(bid \div grid[2] + y) % grid[1], y>> ELSE <<b[1], b[2]>>

\* The offset of block b: the dimensions after the third, and the batch.
BlockOffset(l, b, stride, dist) ==
  LET rest == SubSeq(l.length, 4, Len(l.length))
  IN  Place(b[3] % ProductOf(rest), rest, SubSeq(stride, 4, Len(stride)))
        + (b[3] \div ProductOf(rest)) * dist

\* The indices <<idx0, idx1, idx2>> of column col and row row.
Logical(l, col, row) ==
  IF Len(l.length) = 2 THEN <<col, row, 0>> ELSE <<col, row % l.length[2], row \div l.length[2]>>

\* The loop over the elements of a thread ends at the first one outside.
InRange(l, idx) == idx[1] < l.length[1] /\ idx[2] < l.length[2] /\ idx[3] < Length2(l)

Address(l, idx, stride) ==
  idx[1] * stride[1] + idx[2] * stride[2] + (IF Len(l.length) > 2 THEN idx[3] * stride[3] ELSE 0)

LargeTwiddle(l, table, idx, elem) ==
  LET w == TW_NSteps(table, idx[1] * idx[2], TwdBase, LargeTwdSteps(l.large1D))
  IN  IF l.large1D = 0 THEN elem ELSE Times(elem, IF l.s = 1 THEN w ELSE Conj(w))

TransposeBlock(l, mem, table, b) ==
  LET tile == TileBlockIdx(l, b)
      loop == 0 .. TileWidth \div TileRows - 1
      threads == (0 .. TileWidth - 1) \X (0 .. TileRows - 1)
      source(t, i) == Logical(l, TileWidth * tile[1] + t[1],
                              TileWidth * tile[2] + t[2] + i * TileRows)
      target(t, i) == Logical(l, TileWidth * tile[1] + t[2] + i * TileRows,
                              TileWidth * tile[2] + t[1])
      reading(t, i) == TileAligned(l) \/ \A j \in 0 .. i : InRange(l, source(t, j))
      writing(t, i) == TileAligned(l) \/ \A j \in 0 .. i : InRange(l, target(t, j))
      from(t, i) == Address(l, source(t, i), l.inStride) + BlockOffset(l, b, l.inStride, l.iDist)
      to(t, i) == Address(l, target(t, i), l.outStride) + BlockOffset(l, b, l.outStride, l.oDist)
      reads == {<<t, i>> \in threads \X loop : reading(t, i)}
      writes == {<<t, i>> \in threads \X loop : writing(t, i)}
      lds == FromPairs({<<<<r[1][1], r[2] * TileRows + r[1][2]>>,
                          LargeTwiddle(l, table, source(r[1], r[2]),
                                       Load(mem, l.obIn, from(r[1], r[2])))>> : r \in reads})
      val(t, i) == LET place == <<t[2] + i * TileRows, t[1]>>
                   IN  IF place \in DOMAIN lds THEN lds[place] ELSE Unknown
  IN  Work(Slots(l.obIn, {from(r[1], r[2]) : r \in reads}),
           StoreAll(l.obOut, {<<to(w[1], w[2]), val(w[1], w[2])>> : w \in writes}))

transpose(l, mem) ==
  LET grid == TransposeGrid(l)
      table == IF l.large1D = 0 THEN <<>> ELSE LargeTable(l.large1D, TwdBase)
  IN  [b \in (0 .. grid[1] - 1) \X (0 .. grid[2] - 1) \X (0 .. grid[3] - 1) |->
         TransposeBlock(l, mem, table, b)]

------------------------------------------------------------------------------
(***************************************************************************)
(* Bluestein's algorithm in several kernels (rtc_bluestein_gen.cpp, the    *)
(* launches of rtc_bluestein_kernel.cpp).  All of them share one buffer:   *)
(* the chirp in its first lengthBlue elements, the transformed chirp in    *)
(* the next ones, then one row of lengthBlue elements for each row of the  *)
(* data.                                                                   *)
(***************************************************************************)

CONSTANTS LaunchBoundsBlue,  \* LAUNCH_BOUNDS_BLUESTEIN_MULTI_KERNEL
          ChirpBase          \* log2 of the radix of the chirp's twiddle table

\* bluestein_multi_chirp_rtc, CS_KERNEL_CHIRP: the chirp twice.
bluestein_multi_chirp(l, mem) ==
  LET N == l.length[1]
      M == l.lengthBlue
      table == LargeTable(2 * N, ChirpBase)
      twice(i, v) == Store(l.obOut, i, v) \union Store(l.obOut, i + M, v)
      thread(tx, val) ==
        IF tx = 0 THEN twice(0, val)
        ELSE IF tx < N THEN twice(tx, val) \union twice(M - tx, val)
        ELSE IF tx <= M - N THEN twice(tx, <<0, 0>>)
        ELSE {}
  IN  [tx \in 0 .. LaunchBoundsBlue * ((M - N) \div LaunchBoundsBlue + 1) - 1 |->
         Work({}, thread(tx, ChirpValue(table, N, tx, l.s, ChirpBase)))]

\* The offset of a row: the dimensions are peeled from the highest one, the
\* batch, on; stride[Len(length) + 1] is the distance of batches.
RowOffset(l, row, stride, dist) ==
  LET higher == Tail(l.length)
  IN  Place(row % ProductOf(higher), higher, Tail(stride)) + (row \div ProductOf(higher)) * dist

NumOf(l) == IF l.scheme = "RES_MUL" THEN l.length[1] ELSE l.lengthBlue

BlueMulThread(l, mem, wi) ==
  LET M == l.lengthBlue
      tx == wi % NumOf(l)
      row == wi \div NumOf(l)
      iIdx == tx * l.inStride[1]
      oIdx == tx * l.outStride[1]
      iOffset == RowOffset(l, row, l.inStride, l.iDist)
      oOffset == RowOffset(l, row, l.outStride, l.oDist)
      in(i) == Load(mem, l.obIn, i)
      out(i) == Load(mem, l.obOut, i)
  IN  CASE wi >= ProductOf(Tail(l.length)) * l.batch * NumOf(l) -> Idle
        [] l.scheme = "PAD_MUL" ->
             IF tx < l.length[1]
             THEN Work(Slots(l.obIn, {iIdx + iOffset}) \union Slots(l.obOut, {M + tx}),
                       Store(l.obOut, 2 * M + oIdx + oOffset,
                             ChirpMul(in(iIdx + iOffset), out(M + tx))))
             ELSE Work({}, Store(l.obOut, 2 * M + oIdx + oOffset, <<0, 0>>))
        [] l.scheme = "FFT_MUL" ->
             Work(Slots(l.obIn, {M + iIdx}) \union Slots(l.obOut, {2 * M + oOffset + oIdx}),
                  Store(l.obOut, 2 * M + oOffset + oIdx,
                        Times(in(M + iIdx), out(2 * M + oOffset + oIdx))))
        [] l.scheme = "RES_MUL" ->
             Work(Slots(l.obIn, {tx, 2 * M + iIdx + iOffset}),
                  Store(l.obOut, oIdx + oOffset,
                        ResMul(in(2 * M + iIdx + iOffset), in(tx), M)))

bluestein_multi(l, mem) ==
  LET totalWI == ProductOf(Tail(l.length)) * l.batch * NumOf(l)
  IN  [wi \in 0 .. LaunchBoundsBlue * ((totalWI - 1) \div LaunchBoundsBlue + 1) - 1 |->
         BlueMulThread(l, mem, wi)]

------------------------------------------------------------------------------
(***************************************************************************)
(* Bluestein's algorithm fused into the column and row kernels of long     *)
(* transforms (bluestein_generator.h): each of the three transforms of     *)
(* length lengthBlue = n1 * n0 is a kernel over columns and one over rows, *)
(* and their loads and stores multiply with the chirp, the transformed     *)
(* chirp or nothing.  l.fuseBlue says which; the chirp is a table of the   *)
(* repository, the same for both directions.                               *)
(*                                                                         *)
(* The kernels index the temporary buffers with global ids made of         *)
(* lengthBlue, whatever the strides of their nodes say; only the user's    *)
(* buffers are addressed with strides.  The actors are columns and rows.   *)
(***************************************************************************)

\* chirp_table: the chirp of length N
ChirpTable(N, n) == Conj(Twiddle((n * n) % (2 * N), 2 * N))

\* The directed twiddle between the two kernels, l.large1D = lengthBlue.
Between(l, j, k, x) ==
  LET w == Twiddle((j * k) % l.large1D, l.large1D)
  IN  Times(x, IF l.s = 1 THEN w ELSE Conj(w))

\* load_cc: element transf_id of the transform, data_id of the buffer, idx of
\* the user's buffer: what is read and the value.
fwd_chirp_load_cc(l, transf_id) ==
  LET N == l.lengthBlueN
      M == l.lengthBlue
  IN  IF transf_id < N THEN ChirpTable(N, transf_id)
      ELSE IF transf_id >= M - N + 1 THEN ChirpTable(N, M - transf_id)
      ELSE <<0, 0>>

fwd_chirp_mul_load_cc(l, mem, transf_id, idx) ==
  LET c == ChirpTable(l.lengthBlueN, transf_id)
      elem == Load(mem, l.obIn, idx)
  IN  IF transf_id >= l.lengthBlueN THEN <<0, 0>>
      ELSE IF l.s = 1 THEN Times(elem, Conj(c)) ELSE Conj(Times(elem, c))

inv_chirp_mul_load_cc(l, mem, transf_id, data_id) ==
  Times(Load(mem, l.obIn, transf_id), Load(mem, l.obIn, data_id + l.lengthBlue))

ReadCC(l, transf_id, data_id, idx) ==
  CASE l.fuseBlue = "FWD_CHIRP" -> {}
    [] l.fuseBlue = "FWD_CHIRP_MUL" -> IF transf_id < l.lengthBlueN THEN {idx} ELSE {}
    [] l.fuseBlue = "INV_CHIRP_MUL" -> {transf_id, data_id + l.lengthBlue}

LoadCC(l, mem, transf_id, data_id, idx) ==
  CASE l.fuseBlue = "FWD_CHIRP" -> fwd_chirp_load_cc(l, transf_id)
    [] l.fuseBlue = "FWD_CHIRP_MUL" -> fwd_chirp_mul_load_cc(l, mem, transf_id, idx)
    [] l.fuseBlue = "INV_CHIRP_MUL" -> inv_chirp_mul_load_cc(l, mem, transf_id, data_id)

\* load_rc and store_cc: the temporary buffer, by global id.
LoadRC(l, mem, data_id) == Load(mem, l.obIn, data_id)

StoreCC(data_id, elem) == {<<data_id, elem>>}

\* Column j of batch b.
ColumnCC(l, mem, j, b) ==
  LET n1 == l.length[1]
      transf_id(i) == j + i * l.length[2]
      load_id(i) == transf_id(i) + b * l.iDistBlue
      store_id(i) == transf_id(i) + b * l.oDistBlue
      idx(i) == b * l.iDist + j * l.inStride[2] + i * l.inStride[1]
      y == DFT([i \in 0 .. n1 - 1 |-> LoadCC(l, mem, transf_id(i), load_id(i), idx(i))], n1, l.s)
  IN  Work(Slots(l.obIn, UNION {ReadCC(l, transf_id(i), load_id(i), idx(i)) : i \in 0 .. n1 - 1}),
           StoreAll(l.obOut, UNION {StoreCC(store_id(k), Between(l, j, k, y[k])) : k \in 0 .. n1 - 1}))

\* inv_chirp_mul_store_rc: l.s is the direction of the third transform.
inv_chirp_mul_store_rc(l, transf_id, elem) ==
  LET c == ChirpTable(l.lengthBlueN, transf_id)
      scaled == Scale(Reciprocal(l.lengthBlue), elem)
  IN  IF l.s = 1 THEN Times(Conj(scaled), c) ELSE Times(scaled, Conj(c))

\* store_rc: pairs <<element, value>>.
StoreRC(l, transf_id, data_id, idx, elem) ==
  CASE l.fuseBlue = "FWD_CHIRP" -> {<<transf_id, elem>>}
    [] l.fuseBlue = "FWD_CHIRP_MUL" -> {<<data_id + l.lengthBlue, elem>>}
    [] l.fuseBlue = "INV_CHIRP_MUL" ->
         IF transf_id < l.lengthBlueN
         THEN {<<idx, inv_chirp_mul_store_rc(l, transf_id, elem)>>} ELSE {}

\* Row r of batch b.
RowRC(l, mem, r, b) ==
  LET n0 == l.length[1]
      load_id(j) == r * n0 + j + b * l.iDistBlue
      transf_id(k) == r + k * l.length[2]
      data_id(k) == transf_id(k) + b * l.oDistBlue
      idx(k) == b * l.oDist + r * l.outStride[1] + k * l.outStride[2]
      y == DFT([j \in 0 .. n0 - 1 |-> LoadRC(l, mem, load_id(j))], n0, l.s)
  IN  Work(Slots(l.obIn, {load_id(j) : j \in 0 .. n0 - 1}),
           StoreAll(l.obOut, UNION {StoreRC(l, transf_id(k), data_id(k), idx(k), y[k])
                                      : k \in 0 .. n0 - 1}))

bluestein_fused(l, mem) ==
  [a \in (0 .. l.length[2] - 1) \X (0 .. l.batch - 1) |->
     IF l.scheme = "BLUE_BLOCK_CC" THEN ColumnCC(l, mem, a[1], a[2]) ELSE RowRC(l, mem, a[1], a[2])]

------------------------------------------------------------------------------
(***************************************************************************)
(* A leaf that transforms: what the kernels of StockhamKernel compute, row *)
(* by row (StockhamKernel shows that they do), with the real pre- or post- *)
(* processing they may have in them.  The actors are the rows (the slabs   *)
(* of a kernel for two dimensions): a kernel may run in place.             *)
(***************************************************************************)

\* Row maps a row along dimension d of the array x to one of length m.
Along(x, length, d, m, Row(_)) ==
  LET w == ProductOf(SubSeq(length, 1, d - 1))
      n == length[d]
      total == ProductOf(length) \div n
      rows == Table([r \in 0 .. total - 1 |->
                Table(Row(Table([i \in 0 .. n - 1 |-> x[(r % w) + w * i + w * n * (r \div w)]])))])
  IN  Table([t \in 0 .. total * m - 1 |-> rows[(t % w) + w * (t \div (w * m))][(t \div w) % m]])

\* The transform along the dimensions `from` .. `to`, by definition.
DFTAlong(x, length, from, to, s) ==
  LET f[d \in from - 1 .. to] ==
        IF d < from THEN x
        ELSE LET row(r) == DFT(r, length[d], s) IN Along(f[d - 1], length, d, length[d], row)
  IN  f[to]

\* real_post_process and real_pre_process of a whole row.
PostRow(x, N) ==
  FromPairs(UNION {real_post_process(N, i, x[i], x[(N - i) % N], x[((N + 1) \div 2) % N],
                                     At(HalfNTable(N), i)) : i \in 0 .. (N + 1) \div 2 - 1})

PreRow(x, N) ==
  FromPairs(UNION {real_pre_process(N, i, x[i], x[N - i], x[(N + 1) \div 2],
                                    At(HalfNTable(N), i)) : i \in 0 .. (N + 1) \div 2 - 1})

-----------------------------------------------------------------------------

\* The dimension that the processing makes longer by one, and the lengths of
\* input and output.
EbDim(l) == IF l.eb = "C2R_PRE" THEN l.dim ELSE 1

InLengths(l) == IF l.eb = "C2R_PRE" THEN [l.length EXCEPT ![EbDim(l)] = @ + 1] ELSE l.length

OutLengths(l) == IF l.eb = "R2C_POST" THEN [l.length EXCEPT ![1] = @ + 1] ELSE l.length

\* What a slab becomes.
Transformed(x, l, in, out) ==
  LET post(r) == PostRow(r, l.length[1])
      pre(r) == PreRow(r, l.length[l.dim])
  IN  CASE l.eb = "NONE" -> DFTAlong(x, in, 1, l.dim, l.s)
        [] l.eb = "R2C_POST" ->
             DFTAlong(Along(DFTAlong(x, in, 1, 1, l.s), in, 1, out[1], post), out, 2, l.dim, l.s)
        [] l.eb = "C2R_PRE" ->
             DFTAlong(Along(DFTAlong(x, in, 1, l.dim - 1, l.s), in, l.dim, out[l.dim], pre),
                      out, l.dim, l.dim, l.s)

Slab(l, mem, r, in, out) ==
  LET higher == SubSeq(l.length, l.dim + 1, Len(l.length))
      start(stride, dist) ==
        Place(r % ProductOf(higher), higher, SubSeq(stride, l.dim + 1, Len(stride)))
          + (r \div ProductOf(higher)) * dist
      from(t) == l.iOffset + start(l.inStride, l.iDist) + Place(t, in, l.inStride)
      to(t) == l.oOffset + start(l.outStride, l.oDist) + Place(t, out, l.outStride)
      whole == 0 .. ProductOf(in) - 1
      stored(y) == {<<to(t), y[t]>> : t \in DOMAIN y}
  IN  Work(Slots(l.obIn, {from(t) : t \in whole}),
           StoreAll(l.obOut,
                    stored(Transformed(Table([t \in whole |-> Load(mem, l.obIn, from(t))]), l, in, out))))

fft(l, mem) ==
  LET slab(length) == SubSeq(length, 1, l.dim)
      higher == SubSeq(l.length, l.dim + 1, Len(l.length))
  IN  [r \in 0 .. ProductOf(higher) * l.batch - 1 |->
         Slab(l, mem, r, slab(InLengths(l)), slab(OutLengths(l)))]
==============================================================================
