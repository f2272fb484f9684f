--------------------------- MODULE StockhamTilings ---------------------------
(****************************************************************************)
(* The programs that the threads of the generated kernels run: what all      *)
(* tilings share, then one part for each tiling, and Bluestein's algorithm   *)
(* as one kernel.                                                            *)
(****************************************************************************)
EXTENDS Integers, Sequences, TLC

------------------------------------------------------------------------------
(***************************************************************************)
(* What every generated Stockham kernel is made of (stockham_gen_base.h):  *)
(* how the butterflies of a pass are dealt to the threads of a transform,  *)
(* the LDS addresses of a pass's loads and stores, and the program each    *)
(* thread of the workgroup runs, with the barriers in it.                  *)
(*                                                                         *)
(* k is a kernel [length, factors, tpt, tpb, writeGuard]; cx the values a  *)
(* thread calls a device function with, [k, offset_lds, lstride, thread,   *)
(* write].                                                                 *)
(***************************************************************************)

CONSTANTS BankShiftLength,  \* the length whose kernel shifts banks, 64 in the code
          LDS_BANK_SHIFT    \* 32 in the code

Min2(a, b) == IF a < b THEN a ELSE b
Max2(a, b) == IF a > b THEN a ELSE b

\* product(factors.begin(), factors.begin() + npass)
Cumheight(k, npass) ==
  LET f[i \in 0 .. npass] == IF i = 0 THEN 1 ELSE f[i - 1] * k.factors[i]
  IN  f[npass]

CeilDiv(a, b) == (a + b - 1) \div b

WorkgroupSize(k) == k.tpt * k.tpb

compute_nregisters(k) ==
  LET n(i) == CeilDiv(k.length \div k.factors[i], k.tpt) * k.factors[i]
  IN  CHOOSE m \in {n(i) : i \in DOMAIN k.factors} : \A i \in DOMAIN k.factors : n(i) <= m

(***************************************************************************)
(* add_work: the butterflies of width `width` that thread cx.thread does,  *)
(* as pairs <<offset, hr>>: the butterfly is number cx.thread + offset of  *)
(* the transform and its values are the registers hr * width onwards.      *)
(***************************************************************************)
add_work(cx, width, guarded) ==
  LET k == cx.k
      butterflies == k.length \div width
      remainder == butterflies % k.tpt # 0
      iheight == butterflies \div k.tpt + (IF remainder /\ k.tpt > butterflies THEN 1 ELSE 0)
      written == k.writeGuard => cx.write
      main == guarded => written /\ (k.tpt > butterflies => cx.thread < butterflies)
      dt == iheight * k.tpt
      extra == /\ remainder
               /\ k.tpt < butterflies
               /\ guarded => written /\ cx.thread + dt < butterflies
  IN  (IF main THEN {<<h * k.tpt, h>> : h \in 0 .. iheight - 1} ELSE {})
        \union (IF extra THEN {<<dt, iheight>>} ELSE {})

\* The element of the transform that value w of butterfly tid is read from.
LoadIdx(k, width, tid, w) == tid + (w * k.length) \div width

\* The element that value w of butterfly tid is written to.
StoreIdx(width, cumheight, tid, w) ==
  (tid \div cumheight) * (width * cumheight) + (tid % cumheight) + w * cumheight

LdsIdx(cx, idx, shift) ==
  LET l_offset == cx.offset_lds + idx * cx.lstride
  IN  IF shift THEN l_offset + l_offset \div LDS_BANK_SHIFT ELSE l_offset

\* Registers and LDS places of one pass: pairs <<register, place>>.
load_lds_generator(cx, npass, guarded, shift) ==
  LET width == cx.k.factors[npass + 1]
  IN  {<<i[2] * width + w, LdsIdx(cx, LoadIdx(cx.k, width, cx.thread + i[1], w), shift)>> :
         i \in add_work(cx, width, guarded), w \in 0 .. width - 1}

store_lds_generator(cx, npass, shift) ==
  LET width == cx.k.factors[npass + 1]
      cumheight == Cumheight(cx.k, npass)
  IN  {<<i[2] * width + w, LdsIdx(cx, StoreIdx(width, cumheight, cx.thread + i[1], w), shift)>> :
         i \in add_work(cx, width, TRUE), w \in 0 .. width - 1}

\* Registers and elements of the first load and the last store when a kernel
\* moves data between registers and global memory: pairs <<register, element>>.
load_global_generator(cx) ==
  LET width == cx.k.factors[1]
  IN  {<<i[2] * width + w, LoadIdx(cx.k, width, cx.thread + i[1], w)>> :
         i \in add_work(cx, width, TRUE), w \in 0 .. width - 1}

store_global_generator(cx) ==
  LET npass == Len(cx.k.factors) - 1
      width == cx.k.factors[npass + 1]
      cumheight == Cumheight(cx.k, npass)
  IN  {<<i[2] * width + w, StoreIdx(width, cumheight, cx.thread + i[1], w)>> :
         i \in add_work(cx, width, TRUE), w \in 0 .. width - 1}

(***************************************************************************)
(* The program.  An operation is what a thread does between two accesses   *)
(* to memory that other threads touch; `sync` says that SyncThreads comes  *)
(* right before it.  The work on registers alone that follows a load (the  *)
(* twiddles and butterflies of pass `pass`) belongs to the load when       *)
(* `compute` holds: no other thread can see it.                            *)
(***************************************************************************)
Op(kind, sync, part, pass, comp, compute) ==
  [kind |-> kind, sync |-> sync, part |-> part, pass |-> pass, comp |-> comp,
   compute |-> compute]

\* generate_device_function: pass npass when the LDS holds whole numbers.
FullPass(k, part, npass, direct) ==
  LET load == Op("load", TRUE, part, npass, "BOTH", TRUE)
      store == Op("store", npass > 0 \/ ~direct, part, npass, "BOTH", FALSE)
  IN  (IF npass > 0 THEN <<load>> ELSE <<>>)
        \o (IF npass < Len(k.factors) - 1 THEN <<store>> ELSE <<>>)

\* A mutant of HalfPass: no barrier before the second component is stored.
HalfPassUnsynced(k, part, npass) ==
  IF npass = Len(k.factors) - 1 THEN <<>>
  ELSE <<Op("store", npass > 0, part, npass, "REAL", FALSE),
         Op("load", TRUE, part, npass + 1, "REAL", FALSE),
         Op("store", FALSE, part, npass, "IMAG", FALSE),
         Op("load", TRUE, part, npass + 1, "IMAG", TRUE)>>

\* The same when the LDS holds one component at a time.
HalfPass(k, part, npass) ==
  IF npass = Len(k.factors) - 1 THEN <<>>
  ELSE <<Op("store", npass > 0, part, npass, "REAL", FALSE),
         Op("load", TRUE, part, npass + 1, "REAL", FALSE),
         Op("store", TRUE, part, npass, "IMAG", FALSE),
         Op("load", TRUE, part, npass + 1, "IMAG", TRUE)>>

generate_device_function(k, part, half, direct) ==
  LET f[n \in 0 .. Len(k.factors)] ==
        IF n = 0 THEN <<>>
        ELSE f[n - 1] \o (IF half THEN HalfPass(k, part, n - 1)
                                  ELSE FullPass(k, part, n - 1, direct))
  IN  f[Len(k.factors)]

lds_to_reg(part) == <<Op("lds_to_reg", TRUE, part, 0, "BOTH", TRUE)>>

lds_from_reg(k, part) ==
  <<Op("lds_from_reg", TRUE, part, Len(k.factors) - 1, "BOTH", FALSE)>>

(***************************************************************************)
(* The offset of the item `index` of the dimensions from `from` on, the    *)
(* batch last, as the kernels peel it off: [offset, batch].  lengths and   *)
(* stride are 1-based here, and stride has the batch distance at its end.  *)
(***************************************************************************)
peel_dims(lengths, stride, from, index) ==
  LET dim == Len(lengths)
      rest[d \in from .. dim + 1] ==
        IF d = from THEN index ELSE rest[d - 1] \div lengths[d - 1]
      offset[d \in from .. dim + 1] ==
        IF d = from THEN 0 ELSE offset[d - 1] + (rest[d - 1] % lengths[d - 1]) * stride[d - 1]
  IN  [offset |-> offset[dim + 1] + rest[dim + 1] * stride[dim + 1], batch |-> rest[dim + 1]]

\* The calls of the real pre- or post-processing function, `pass` counting
\* them: one call handles tpt pairs of elements.
real2cmplx_pre_post(half_N, tpt, kind, part) ==
  LET quarter_N == CeilDiv(half_N, 2)
  IN  [i \in 1 .. CeilDiv(quarter_N, tpt) |-> Op(kind, i = 1, part, i - 1, "BOTH", FALSE)]

------------------------------------------------------------------------------
(***************************************************************************)
(* Row in, row out (stockham_gen_rr.h): a block does tpb transforms of     *)
(* contiguous rows of the LDS.  A launch c has the kernel c.k, the lengths *)
(* and strides of the data, and the options of the code generator: half    *)
(* (half_lds), direct (direct_to_from_reg), dr (whether dir2regMode tries  *)
(* to enable it), eb (the embedded real processing) and shift (the         *)
(* bank-shifting device function).                                         *)
(***************************************************************************)

RRDirectLoad(c) == c.direct /\ c.dr /\ c.eb = "NONE"

RRLdsIsReal(c) == c.half /\ c.eb = "NONE"

LdsPadding(c) == IF c.eb = "NONE" THEN 0 ELSE 1

\* calculate_offsets
RRTransform(c, b, t) == b * c.k.tpb + t \div c.k.tpt

RROffset(c, stride, b, t) == peel_dims(c.lengths, stride, 2, RRTransform(c, b, t)).offset

RRInbound(c, b, t) == peel_dims(c.lengths, c.istride, 2, RRTransform(c, b, t)).batch < c.nbatch

RRContext(c, b, t) ==
  [k |-> c.k, lstride |-> 1, write |-> TRUE, thread |-> t % c.k.tpt,
   offset_lds |-> (c.k.length + LdsPadding(c)) * (RRTransform(c, b, t) % c.k.tpb)]

\* The elements of its row a thread copies, with the one more that the last
\* thread copies for the real processing `eb`.
RRRow(c, t, eb) ==
  LET thread == t % c.k.tpt
      height == c.k.length \div c.k.tpt
  IN  {thread + h * c.k.tpt : h \in 0 .. height - 1}
        \union (IF c.eb = eb /\ thread = c.k.tpt - 1
                THEN {thread + (height - 1) * c.k.tpt + 1} ELSE {})

\* load_from_global(false): pairs <<LDS place, address>>.
RRLoadLds(c, b, t) ==
  IF ~RRInbound(c, b, t) THEN {}
  ELSE {<<RRContext(c, b, t).offset_lds + j, RROffset(c, c.istride, b, t) + j * c.istride[1]>> :
          j \in RRRow(c, t, "C2R_PRE")}

\* load_from_global(true): pairs <<register, address>>.
RRLoadReg(c, b, t) ==
  IF ~RRInbound(c, b, t) THEN {}
  ELSE {<<m[1], RROffset(c, c.istride, b, t) + m[2] * c.istride[1]>> :
          m \in load_global_generator(RRContext(c, b, t))}

\* store_to_global(false): pairs <<address, LDS place>>.
RRStoreLds(c, b, t) ==
  IF ~RRInbound(c, b, t) THEN {}
  ELSE {<<RROffset(c, c.ostride, b, t) + j * c.ostride[1], RRContext(c, b, t).offset_lds + j>> :
          j \in RRRow(c, t, "R2C_POST")}

\* store_to_global(true): pairs <<address, register>>.
RRStoreReg(c, b, t) ==
  IF ~RRInbound(c, b, t) THEN {}
  ELSE {<<RROffset(c, c.ostride, b, t) + m[2] * c.ostride[1], m[1]>> :
          m \in store_global_generator(RRContext(c, b, t))}

\* Stockham1DNode::SetupGPAndFnPtr_internal: the blocks of the launch and the
\* complex numbers of LDS each one has (half of them when lds_is_real).
RRBlocks(c) ==
  LET rows[d \in 1 .. Len(c.lengths)] == IF d = 1 THEN c.nbatch ELSE rows[d - 1] * c.lengths[d]
  IN  CeilDiv(rows[Len(c.lengths)], c.k.tpb)

\* A mutant of RRLds: no room for the places that shifting the banks skips.
RRLdsUnshifted(c) ==
  IF c.eb = "NONE" /\ Len(c.k.factors) = 1 THEN 0
  ELSE (c.k.length + LdsPadding(c)) * c.k.tpb

RRLds(c) ==
  IF c.eb = "NONE" /\ Len(c.k.factors) = 1 THEN 0
  ELSE (c.k.length + LdsPadding(c)) * c.k.tpb
         + (IF c.k.length = BankShiftLength THEN (c.k.length * c.k.tpb) \div LDS_BANK_SHIFT ELSE 0)

------------------------------------------------------------------------------
(***************************************************************************)
(* Column in, column out (stockham_gen_cc.h): a block does a tile of tpb   *)
(* neighbouring columns.  With the data going straight to registers the    *)
(* tile lies in the LDS column by column (not linear); c.large > 0 is the  *)
(* length of the transform this one is a step of, whose twiddle factors    *)
(* are multiplied in after the last pass.                                  *)
(***************************************************************************)

CONSTANTS LtwdMinBase,     \* the smallest and the largest base, 4 and 6 in the
          LtwdMaxBase,     \* code, of a large twiddle table of three steps, and
          LtwdDefaultBase  \* the base of the others, 8

CCDirectLoad(c) == c.direct /\ c.dr

CCTiles(c) == (c.lengths[2] - 1) \div c.k.tpb + 1

CCTileIndex(c, b) == b % CCTiles(c)

CCOffset(c, stride, b) ==
  CCTileIndex(c, b) * c.k.tpb * stride[2]
    + peel_dims(c.lengths, stride, 3, b \div CCTiles(c)).offset

CCContext(c, b, t) ==
  LET linear == ~CCDirectLoad(c)
  IN  [k |-> c.k, write |-> TRUE,
       lstride |-> IF linear THEN 1 ELSE c.k.tpb,
       thread |-> IF linear THEN t % c.k.tpt ELSE t \div c.k.tpb,
       offset_lds |-> IF linear THEN c.k.length * ((t \div c.k.tpt) % c.k.tpb)
                                ELSE t % c.k.tpb]

\* The column of the whole transform a thread works on: trans_local.
CCTransform(c, b, t) ==
  CCTileIndex(c, b) * c.k.tpb
    + (IF CCDirectLoad(c) THEN t % c.k.tpb ELSE t \div c.k.tpt)

\* in_bound || pred, for the column a thread moves data of.
CCInBound(c, b, t) ==
  \/ (CCTileIndex(c, b) + 1) * c.k.tpb <= c.lengths[2]
  \/ CCTileIndex(c, b) * c.k.tpb + (t % c.k.tpb) < c.lengths[2]

CCAddress(c, stride, b, t, j) == CCOffset(c, stride, b) + (t % c.k.tpb) * stride[2] + j * stride[1]

\* The elements of its column a thread copies to or from the LDS.
CCColumn(c, t) ==
  LET stripmine_h == WorkgroupSize(c.k) \div c.k.tpb
  IN  {t \div c.k.tpb + i * stripmine_h : i \in 0 .. c.k.length \div stripmine_h - 1}

CCLoadLds(c, b, t) ==
  IF ~CCInBound(c, b, t) THEN {}
  ELSE {<<(t % c.k.tpb) * c.k.length + j, CCAddress(c, c.istride, b, t, j)>> : j \in CCColumn(c, t)}

CCStoreLds(c, b, t) ==
  IF ~CCInBound(c, b, t) THEN {}
  ELSE {<<CCAddress(c, c.ostride, b, t, j), (t % c.k.tpb) * c.k.length + j>> : j \in CCColumn(c, t)}

CCLoadReg(c, b, t) ==
  IF ~CCInBound(c, b, t) THEN {}
  ELSE {<<m[1], CCAddress(c, c.istride, b, t, m[2])>> :
          m \in load_global_generator(CCContext(c, b, t))}

CCStoreReg(c, b, t) ==
  IF ~CCInBound(c, b, t) THEN {}
  ELSE {<<CCAddress(c, c.ostride, b, t, m[2]), m[1]>> :
          m \in store_global_generator(CCContext(c, b, t))}

CeilPo2(n) == CHOOSE e \in 0 .. n : 2^e >= n /\ \A d \in 0 .. e - 1 : 2^d < n

\* get_large_twd_base_steps: the bits of a digit and the number of digits.
LtwdBase(c) ==
  IF c.use3 THEN Min2(LtwdMaxBase, Max2(LtwdMinBase, (CeilPo2(c.large) + 2) \div 3))
  ELSE LtwdDefaultBase

LtwdSteps(c) ==
  CHOOSE n \in 0 .. c.large : (2^LtwdBase(c))^n >= c.large
                             /\ \A m \in 0 .. n - 1 : (2^LtwdBase(c))^m < c.large

\* large_twiddles_load: the table is copied to the LDS when its digits have
\* fewer bits than usual; thread t copies the entries t, t + wgs, ...
CCTwiddlesInLds(c) == c.large > 0 /\ LtwdBase(c) < LtwdDefaultBase

CCTwiddleLoader(c, entry) == entry % WorkgroupSize(c.k)

\* SBCCNode::SetupGPAndFnPtr_internal
CCBlocks(c) ==
  LET tiles[d \in 2 .. Len(c.lengths)] ==
        IF d = 2 THEN CCTiles(c) * c.nbatch ELSE tiles[d - 1] * c.lengths[d]
  IN  tiles[Len(c.lengths)]

CCLds(c) == c.k.length * c.k.tpb

------------------------------------------------------------------------------
(***************************************************************************)
(* Row in, column out (stockham_gen_rc.h): a block reads tpb rows and      *)
(* writes them as columns, so that the kernel does a transpose too.        *)
(* c.sbrc is the transpose it does: "2D", "XY_Z", "Z_XY" or "ERC_Z_XY"     *)
(* (with the real post-processing); c.transpose is "ALIGNED", "UNALIGNED"  *)
(* (the last tile of a plane may be a partial one) or "DIAGONAL".          *)
(***************************************************************************)

RCDirectStore(c) == c.direct /\ c.dr /\ c.sbrc # "ERC_Z_XY"

RCPadding(c) == IF c.sbrc = "ERC_Z_XY" THEN 1 ELSE 0

\* The dimension whose rows a tile takes, and the one of the planes.
RCBlockDim(c) == IF c.sbrc = "XY_Z" THEN 3 ELSE 2
RCPlaneDim(c) == IF c.sbrc = "XY_Z" THEN 2 ELSE 3

RCTilesInPlane(c) == (c.lengths[RCBlockDim(c)] - 1) \div c.k.tpb + 1

\* calculate_offsets: the place of block b, [tile, plane, batch].
RCPlace(c, b) ==
  LET tiles == RCTilesInPlane(c)
      planes == c.lengths[RCPlaneDim(c)]
      serial == b % (tiles * planes)
      diagonal == serial % c.k.tpt
  IN  IF c.sbrc = "2D" THEN [tile |-> b % tiles, plane |-> 0, batch |-> b \div tiles]
      ELSE IF c.transpose = "DIAGONAL"
           THEN [tile |-> diagonal, plane |-> (serial \div c.k.tpt + diagonal) % c.k.length,
                 batch |-> b \div (tiles * planes)]
      ELSE IF c.sbrc = "XY_Z"
           THEN [tile |-> serial \div c.lengths[2], plane |-> b % c.lengths[2],
                 batch |-> b \div (tiles * planes)]
      ELSE [tile |-> b % tiles, plane |-> serial \div tiles, batch |-> b \div (tiles * planes)]

RCEdge(c, b) ==
  /\ c.transpose = "UNALIGNED"
  /\ (RCPlace(c, b).tile + 1) * c.k.tpb > c.lengths[RCBlockDim(c)]

RCStrideLoad(c) == c.istride[RCBlockDim(c)]
RCStrideStore(c) == IF c.sbrc \in {"XY_Z", "2D"} THEN c.ostride[2] ELSE c.ostride[3]
RCPlaneStrideOut(c) == IF c.sbrc = "XY_Z" THEN c.ostride[3] ELSE c.ostride[2]

RCOffsetIn(c, b) ==
  LET p == RCPlace(c, b)
  IN  IF c.sbrc = "2D"
      THEN p.tile * c.k.tpb * RCStrideLoad(c) + peel_dims(c.lengths, c.istride, 3, p.batch).offset
      ELSE p.plane * c.istride[RCPlaneDim(c)] + p.tile * c.k.tpb * RCStrideLoad(c)
             + p.batch * c.istride[4]

RCOffsetOut(c, b) ==
  LET p == RCPlace(c, b)
  IN  IF c.sbrc = "2D"
      THEN p.tile * c.k.tpb * c.ostride[1] + peel_dims(c.lengths, c.ostride, 3, p.batch).offset
      ELSE p.plane * RCPlaneStrideOut(c) + p.tile * c.k.tpb * c.ostride[1]
             + p.batch * c.ostride[4]

RCContext(c, b, t) ==
  LET linear == ~RCDirectStore(c)
  IN  [k |-> c.k, write |-> TRUE,
       lstride |-> IF linear THEN 1 ELSE c.k.tpb,
       thread |-> IF linear THEN t % c.k.tpt ELSE t \div c.k.tpb,
       offset_lds |-> IF linear THEN (c.k.length + RCPadding(c)) * ((t \div c.k.tpt) % c.k.tpb)
                                ELSE t % c.k.tpb]

\* The elements <<row, element>> of the tile a thread copies into the LDS.
\* When the load blocks do not divide the tile the rows are counted from the
\* thread's serial number instead, and at the edge only up to the tile's end.
RCTileElements(c, b, t) ==
  LET wgs == WorkgroupSize(c.k)
      n == c.k.length
      blocks == (n * c.k.tpb) \div wgs
      step == c.k.tpb \div blocks
      left == c.lengths[RCBlockDim(c)] - RCPlace(c, b).tile * c.k.tpb
      serials == {t + i * wgs : i \in 0 .. n * c.k.tpb}
  IN  IF c.k.tpb % blocks = 0
      THEN LET rows == IF RCEdge(c, b)
                       THEN {r \in {t \div n + i * step : i \in 0 .. n * c.k.tpb} : r < left}
                       ELSE {t \div n + i * step : i \in 0 .. blocks - 1}
           IN  {<<r, t % n>> : r \in rows}
      ELSE {<<e \div n, e % n>> :
              e \in IF RCEdge(c, b) THEN {s \in serials : s < n * c.k.tpb}
                                    ELSE {t + i * wgs : i \in 0 .. blocks - 1}}

RCLoadLds(c, b, t) ==
  LET stride == IF RCDirectStore(c) THEN c.k.tpb ELSE c.k.length + RCPadding(c)
      place(e) == IF RCDirectStore(c) THEN e[2] * stride + e[1] ELSE e[2] + e[1] * stride
  IN  {<<place(e), RCOffsetIn(c, b) + e[2] * c.istride[1] + e[1] * RCStrideLoad(c)>> :
         e \in RCTileElements(c, b, t)}

\* Whether a thread's column is one of the edge tile's.
RCInBound(c, b, t) ==
  RCEdge(c, b) => RCPlace(c, b).tile * c.k.tpb + (t % c.k.tpb) < c.lengths[RCBlockDim(c)]

RCAddressOut(c, b, t, j) ==
  RCOffsetOut(c, b) + (t % c.k.tpb) * c.ostride[1] + j * RCStrideStore(c)

\* The elements of its column a thread stores, and the one more of ERC_Z_XY.
RCStoreLds(c, b, t) ==
  LET blocks == (c.k.length * c.k.tpb) \div WorkgroupSize(c.k)
      step == c.k.length \div blocks
      stride == c.k.length + RCPadding(c)
      hor == t % c.k.tpb
      ver == t \div c.k.tpb
      first == IF RCEdge(c, b) THEN t < c.lengths[RCBlockDim(c)] % c.k.tpb ELSE t < c.k.tpb
      js == {ver + i * step : i \in 0 .. blocks - 1}
              \union (IF c.sbrc = "ERC_Z_XY" /\ first THEN {ver + blocks * step} ELSE {})
  IN  IF ~RCInBound(c, b, t) THEN {}
      ELSE {<<RCAddressOut(c, b, t, j), hor * stride + j>> : j \in js}

RCStoreReg(c, b, t) ==
  IF ~RCInBound(c, b, t) THEN {}
  ELSE {<<RCAddressOut(c, b, t, m[2]), m[1]>> : m \in store_global_generator(RCContext(c, b, t))}

\* SetupGPAndFnPtr_internal of SBRCNode and of the fused transposes.
RCBlocks(c) ==
  LET tiles == CeilDiv(c.lengths[RCBlockDim(c)], c.k.tpb) * c.nbatch
  IN  IF Len(c.lengths) = 2 THEN tiles ELSE tiles * c.lengths[RCPlaneDim(c)]

RCLds(c) == (c.k.length + RCPadding(c)) * c.k.tpb

------------------------------------------------------------------------------
(***************************************************************************)
(* Column in, row out (stockham_gen_cr.h): a block reads a tile of tpb     *)
(* neighbouring columns and writes them as rows.                           *)
(***************************************************************************)

CRDirectLoad(c) == c.direct /\ c.dr /\ c.eb = "NONE"

CRPadding(c) == IF c.eb = "NONE" THEN 0 ELSE 1

CRTiles(c) == (c.lengths[2] - 1) \div c.k.tpb + 1

CRTileIndex(c, b) == b % CRTiles(c)

CROffset(c, stride, b) ==
  CRTileIndex(c, b) * c.k.tpb * stride[2]
    + peel_dims(c.lengths, stride, 3, b \div CRTiles(c)).offset

CRStrideLds(c) == IF CRDirectLoad(c) THEN c.k.tpb ELSE c.k.length + CRPadding(c)

CRContext(c, b, t) ==
  LET linear == ~CRDirectLoad(c)
  IN  [k |-> c.k, write |-> TRUE,
       lstride |-> IF linear THEN 1 ELSE CRStrideLds(c),
       thread |-> IF linear THEN t % c.k.tpt ELSE t \div c.k.tpb,
       offset_lds |-> IF linear THEN CRStrideLds(c) * ((t \div c.k.tpt) % c.k.tpb)
                                ELSE t % c.k.tpb]

CRInBound(c, b) == (CRTileIndex(c, b) + 1) * c.k.tpb <= c.lengths[2]

\* in_bound || pred
CRColumnInBound(c, b, t) ==
  CRInBound(c, b) \/ CRTileIndex(c, b) * c.k.tpb + (t % c.k.tpb) < c.lengths[2]

CRAddressIn(c, b, t, j) ==
  CROffset(c, c.istride, b) + (t % c.k.tpb) * c.istride[2] + j * c.istride[1]

\* The elements of its column a thread copies, with the one more the first
\* threads copy for the real pre-processing.
CRLoadLds(c, b, t) ==
  LET stripmine_h == WorkgroupSize(c.k) \div c.k.tpb
      rows == c.k.length \div stripmine_h
      extra == IF CRInBound(c, b) THEN c.k.tpb
               ELSE c.k.tpb - (((CRTileIndex(c, b) + 1) * c.k.tpb) % c.lengths[2])
      place(j) == (t % c.k.tpb) * CRStrideLds(c) + j
      last == <<place(c.k.length), CRAddressIn(c, b, t, t \div c.k.tpb + rows * stripmine_h)>>
  IN  IF ~CRColumnInBound(c, b, t) THEN {}
      ELSE {<<place(j), CRAddressIn(c, b, t, j)>> :
              j \in {t \div c.k.tpb + i * stripmine_h : i \in 0 .. rows - 1}}
             \union (IF c.eb = "C2R_PRE" /\ t < extra THEN {last} ELSE {})

CRLoadReg(c, b, t) ==
  IF ~CRColumnInBound(c, b, t) THEN {}
  ELSE {<<m[1], CRAddressIn(c, b, t, m[2])>> : m \in load_global_generator(CRContext(c, b, t))}

\* The elements <<row, element>> of the tile a thread stores.  When the store
\* blocks do not divide the tile the edge is bounded by the tile's size only.
CRTileElements(c, b, t) ==
  LET wgs == WorkgroupSize(c.k)
      n == c.k.length
      blocks == (n * c.k.tpb) \div wgs
      step == c.k.tpb \div blocks
      left == c.lengths[2] - CRTileIndex(c, b) * c.k.tpb
      serials == {t + i * wgs : i \in 0 .. n * c.k.tpb}
  IN  IF c.k.tpb % blocks = 0
      THEN LET rows == IF CRInBound(c, b)
                       THEN {t \div n + i * step : i \in 0 .. blocks - 1}
                       ELSE {r \in {t \div n + i * step : i \in 0 .. n * c.k.tpb} : r < left}
           IN  {<<r, t % n>> : r \in rows}
      ELSE {<<e \div n, e % n>> :
              e \in IF CRInBound(c, b) THEN {t + i * wgs : i \in 0 .. blocks - 1}
                                       ELSE {s \in serials : s < n * c.k.tpb}}

CRStoreLds(c, b, t) ==
  LET place(e) == IF CRDirectLoad(c) THEN e[2] * CRStrideLds(c) + e[1]
                                     ELSE e[2] + e[1] * CRStrideLds(c)
  IN  {<<CROffset(c, c.ostride, b) + e[2] * c.ostride[1] + e[1] * c.ostride[2], place(e)>> :
         e \in CRTileElements(c, b, t)}

\* SBCRNode::SetupGPAndFnPtr_internal
CRBlocks(c) ==
  LET tiles[d \in 2 .. Len(c.lengths)] ==
        IF d = 2 THEN CRTiles(c) * c.nbatch ELSE tiles[d - 1] * c.lengths[d]
  IN  tiles[Len(c.lengths)]

CRLds(c) == (c.k.length + CRPadding(c)) * c.k.tpb

------------------------------------------------------------------------------
(***************************************************************************)
(* Both dimensions of a 2D transform in one block (stockham_gen_2d.h): the *)
(* rows with kernel c.k0, then the columns with kernel c.k1, on one tile   *)
(* in the LDS.  With the real pre-processing (C2R_PRE) the tile lies       *)
(* transposed, so that the second dimension is the contiguous one.         *)
(***************************************************************************)

IsPo2(n) == \E e \in 0 .. n : n = 2^e

Pre(c) == c.eb = "C2R_PRE"
Post(c) == c.eb = "R2C_POST"

Fused2DSize(c) == Max2(c.k1.length * c.k0.tpt, c.k0.length * c.k1.tpt)

Fused2DStrideLds(c) ==
  LET n == IF Post(c) THEN c.k0.length + 1 ELSE IF Pre(c) THEN c.k1.length + 1 ELSE c.k0.length
  IN  IF IsPo2(n) THEN n + 1 ELSE n

\* The four calls of the device functions: the rows and the extra one of
\* C2R_PRE, the columns and the extra one of R2C_POST.
Fused2DContext(c, part, t) ==
  LET stride == Fused2DStrideLds(c)
      rows == part \in {"rows", "extra row"}
      k == IF rows THEN c.k0 ELSE c.k1
      contiguous == IF rows THEN ~Pre(c) ELSE Pre(c)
      active == IF rows THEN c.k0.tpt * c.k1.length ELSE c.k1.tpt * c.k0.length
      cx == [k |-> [k EXCEPT !.writeGuard = TRUE], lstride |-> IF contiguous THEN 1 ELSE stride]
  IN  IF part \in {"extra row", "extra column"}
      THEN cx @@ [thread |-> t, write |-> t < k.tpt,
                  offset_lds |-> IF rows THEN c.k1.length ELSE c.k0.length]
      ELSE cx @@ [thread |-> t % k.tpt, write |-> t < active,
                  offset_lds |-> IF contiguous THEN stride * (t \div k.tpt) ELSE t \div k.tpt]

Fused2DOffset(c, stride, b) == peel_dims(c.lengths, stride, 3, b).offset

\* The elements <<LDS place, offset>> of the tile a thread moves, where the
\* tile is counted along its contiguous dimension.
Fused2DElements(c, stride, t) ==
  LET wgs == Fused2DSize(c)
      fast == IF Pre(c) THEN c.k1.length ELSE c.k0.length
      strides == IF Pre(c) THEN <<stride[2], stride[1]>> ELSE <<stride[1], stride[2]>>
  IN  {LET e == i * wgs + t
       IN  <<(e \div fast) * Fused2DStrideLds(c) + (e % fast),
             (e % fast) * strides[1] + (e \div fast) * strides[2]>> :
         i \in 0 .. (c.k0.length * c.k1.length) \div wgs - 1}

Fused2DLoadLds(c, b, t) ==
  LET extra == <<t * Fused2DStrideLds(c) + c.k1.length, t * c.istride[1] + c.k1.length>>
  IN  {<<m[1], Fused2DOffset(c, c.istride, b) + m[2]>> :
         m \in Fused2DElements(c, c.istride, t)
                 \union (IF Pre(c) /\ t < c.k0.length THEN {extra} ELSE {})}

Fused2DStoreLds(c, b, t) ==
  LET extra == <<t * Fused2DStrideLds(c) + c.k0.length, t * c.ostride[2] + c.k0.length>>
  IN  {<<Fused2DOffset(c, c.ostride, b) + m[2], m[1]>> :
         m \in Fused2DElements(c, c.ostride, t)
                 \union (IF Post(c) /\ t < c.k1.length THEN {extra} ELSE {})}

\* generate_global_function of the fused kernel.
Fused2DProgram(c) ==
  LET work(k, part) ==
        lds_to_reg(part) \o generate_device_function(k, part, FALSE, FALSE) \o lds_from_reg(k, part)
  IN  <<Op("load_global_lds", FALSE, "rows", 0, "BOTH", FALSE)>>
        \o work(c.k0, "rows")
        \o (IF Pre(c) THEN work(c.k0, "extra row") ELSE <<>>)
        \o (IF Post(c) THEN real2cmplx_pre_post(c.k0.length, c.k0.tpt, "post", "rows") ELSE <<>>)
        \o (IF Pre(c) THEN real2cmplx_pre_post(c.k1.length, c.k1.tpt, "pre", "columns") ELSE <<>>)
        \o work(c.k1, "columns")
        \o (IF Post(c) THEN work(c.k1, "extra column") ELSE <<>>)
        \o <<Op("store_global_lds", TRUE, "columns", 0, "BOTH", FALSE)>>

\* Single2DNode::SetupGPAndFnPtr_internal
Fused2DBlocks(c) ==
  LET slabs[d \in 2 .. Len(c.lengths)] == IF d = 2 THEN c.nbatch ELSE slabs[d - 1] * c.lengths[d]
  IN  slabs[Len(c.lengths)]

Fused2DLds(c) ==
  Fused2DStrideLds(c) * (IF Pre(c) THEN c.k0.length ELSE c.k1.length)

------------------------------------------------------------------------------
(***************************************************************************)
(* Bluestein's algorithm as one kernel (BluesteinTransform of              *)
(* fftgenerator.h): a row of c.lengths[1] elements is multiplied with the  *)
(* chirp and padded in the LDS to the length c.k.length of a Stockham      *)
(* transform, transformed, multiplied with the transformed chirp,          *)
(* transformed back and multiplied with the chirp.  fftgenerator.h deals   *)
(* out the butterflies and indexes the LDS as stockham_gen_base.h does,    *)
(* with barriers of its own.                                               *)
(***************************************************************************)

\* FFTComputeOffsets
BlueTransform(c, b, t) == b * c.k.tpb + t \div c.k.tpt

BlueContext(c, b, t) ==
  [k |-> c.k, lstride |-> 1, write |-> TRUE, thread |-> t % c.k.tpt,
   offset_lds |-> c.k.length * (BlueTransform(c, b, t) % c.k.tpb)]

\* A thread past the last batch returns and meets no barrier.
BlueReturns(c, b, t) ==
  peel_dims(c.lengths, c.istride, 2, BlueTransform(c, b, t)).batch >= c.nbatch

\* FFTGPUWork: the butterflies of a thread, guarded.
FFTGPUWork(cx, width) == add_work(cx, width, TRUE)

\* The elements that PadMul, FFTMul and ResMul give to a thread: those of
\* the butterflies of the first pass, with the guard of the thread.
BlueElements(c, b, t) ==
  LET cx == BlueContext(c, b, t)
      width == c.k.factors[1]
  IN  {LoadIdx(c.k, width, cx.thread + i[1], w) : i \in FFTGPUWork(cx, width), w \in 0 .. width - 1}

\* Registers and LDS places of a pass: pairs <<register, place>>.
FFTLoadStockham(cx, npass) == load_lds_generator(cx, npass, TRUE, FALSE)

FFTStoreStockham(cx, npass) == store_lds_generator(cx, npass, FALSE)

\* FFTExchange of pass npass: store, and load for the next pass.
FFTExchange(part, npass) ==
  <<Op("store", TRUE, part, npass, "BOTH", FALSE),
    Op("load", TRUE, part, npass + 1, "BOTH", TRUE)>>

\* StockhamTransform::generate, working in the LDS.
StockhamTransform(k, part) ==
  LET last == Len(k.factors) - 1
      exchanges[i \in 0 .. last] ==
        IF i = 0 THEN <<>> ELSE exchanges[i - 1] \o FFTExchange(part, i - 1)
  IN  <<Op("load", TRUE, part, 0, "BOTH", TRUE)>> \o exchanges[last]
        \o <<Op("store", FALSE, part, last, "BOTH", FALSE)>>

\* BluesteinTransform::generate
BlueProgram(c) ==
  <<Op("pad_mul", FALSE, "all", 0, "BOTH", FALSE)>>
    \o StockhamTransform(c.k, "forward")
    \o <<Op("fft_mul", TRUE, "all", 0, "BOTH", FALSE)>>
    \o StockhamTransform(c.k, "inverse")
    \o <<Op("res_mul", TRUE, "all", 0, "BOTH", FALSE)>>

\* Elements with their LDS places and addresses: triples.
BlueAccess(c, stride, b, t) ==
  LET start == peel_dims(c.lengths, stride, 2, BlueTransform(c, b, t)).offset
  IN  {<<idx, BlueContext(c, b, t).offset_lds + idx, start + idx * stride[1]>> :
         idx \in BlueElements(c, b, t)}

\* RTCKernelBluesteinSingle: the grid and the static LDS array.
BlueBlocks(c) ==
  LET rows[d \in 1 .. Len(c.lengths)] == IF d = 1 THEN c.nbatch ELSE rows[d - 1] * c.lengths[d]
  IN  CeilDiv(rows[Len(c.lengths)], c.k.tpb)

BlueLds(c) == c.k.length * c.k.tpb
==============================================================================
