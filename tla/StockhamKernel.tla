--------------------------- MODULE StockhamKernel ---------------------------
(***************************************************************************)
(* One launch of a generated Stockham kernel: the threads of its blocks    *)
(* run the kernel's program with nothing but the barriers in it between    *)
(* them, on the block's LDS and on the global buffers.  The threads of a   *)
(* block interleave in every way the barriers allow; blocks are dispatched *)
(* in order, at most c.resident of them at a time.                         *)
(*                                                                         *)
(* Numbers are exact (KernelArithmetic).  LDS and registers start with     *)
(* garbage, and what is read outside of them is garbage too, so a value    *)
(* used before it is written shows in the output.  Writes are never        *)
(* clipped: one that misses the LDS or the buffer enlarges the function's  *)
(* domain.                                                                 *)
(*                                                                         *)
(* In the actions, \E x \in {e} names the value of e where LET would do:   *)
(* TLC evaluates such an e once, and the body of a LET at each use.        *)
(***************************************************************************)
EXTENDS StockhamTilings, FiniteSets

CONSTANTS Launches,  \* the launches, a sequence of records
          Primes     \* [prime |-> generator] of the fields they compute in

VARIABLES n,    \* the number of the launch
          pc,   \* pc[b, t], the next operation of each thread
          R,    \* R[b, t], its registers
          lds,  \* lds[b], real slots: complex number i is the slots 2i, 2i+1
          buf   \* the buffer written to (the input too when in place)

vars == <<n, pc, R, lds, buf>>

c == Launches[n]

PowTable(p) ==
  LET f[i \in 0 .. p - 2] ==
        IF i = 0 THEN 1
        ELSE IF i % 2 = 0 THEN LET h == f[i \div 2] IN (h * h) % p
        ELSE (f[i - 1] * Primes[p]) % p
  IN  f

Powers == [p \in DOMAIN Primes |-> PowTable(p)]

F(P) == INSTANCE KernelArithmetic WITH Pow <- Powers[P]

Garbage(i) == (7919 * (i + 3)) % 20011

GarbagePair(i) == <<Garbage(2 * i), Garbage(2 * i + 1)>>

-----------------------------------------------------------------------------
(* The launch c: which tiling's definitions it uses. *)

Fused(l) == l.tiling = "2D"

Bluestein(l) == l.tiling = "BLUE"

DirectLoad(l) ==
  CASE l.tiling = "RR" -> RRDirectLoad(l) [] l.tiling = "CC" -> CCDirectLoad(l)
    [] l.tiling = "CR" -> CRDirectLoad(l) [] OTHER -> FALSE

DirectStore(l) ==
  CASE l.tiling = "RR" -> RRDirectLoad(l) [] l.tiling = "CC" -> CCDirectLoad(l)
    [] l.tiling = "RC" -> RCDirectStore(l) [] OTHER -> FALSE

LdsIsReal(l) ==
  CASE l.tiling = "RR" -> RRLdsIsReal(l) [] l.tiling = "CC" -> l.half [] OTHER -> FALSE

Blocks(l) ==
  CASE l.tiling = "RR" -> RRBlocks(l) [] l.tiling = "CC" -> CCBlocks(l)
    [] l.tiling = "RC" -> RCBlocks(l) [] l.tiling = "CR" -> CRBlocks(l)
    [] l.tiling = "2D" -> Fused2DBlocks(l) [] l.tiling = "BLUE" -> BlueBlocks(l)

\* SetupGridParamAndFuncPtr: a Stockham kernel with half_lds is given half
\* of the LDS, a column kernel only when it also loads to registers.
LdsSlots(l) ==
  LET complex == CASE l.tiling = "RR" -> RRLds(l) [] l.tiling = "CC" -> CCLds(l)
                   [] l.tiling = "RC" -> RCLds(l) [] l.tiling = "CR" -> CRLds(l)
                   [] l.tiling = "2D" -> Fused2DLds(l) [] l.tiling = "BLUE" -> BlueLds(l)
      halved == \/ l.tiling = "RR" /\ l.eb = "NONE" /\ l.half
                \/ l.tiling = "CC" /\ l.eb = "NONE" /\ l.half /\ l.dr
  IN  IF halved THEN complex ELSE 2 * complex

Threads(l) == 0 .. (IF Fused(l) THEN Fused2DSize(l) ELSE WorkgroupSize(l.k)) - 1

Procs(l) == (0 .. Blocks(l) - 1) \X Threads(l)

Context(l, part, b, t) ==
  CASE l.tiling = "RR" -> RRContext(l, b, t) [] l.tiling = "CC" -> CCContext(l, b, t)
    [] l.tiling = "RC" -> RCContext(l, b, t) [] l.tiling = "CR" -> CRContext(l, b, t)
    [] l.tiling = "2D" -> Fused2DContext(l, part, t) [] l.tiling = "BLUE" -> BlueContext(l, b, t)

LoadLds(l, b, t) ==
  CASE l.tiling = "RR" -> RRLoadLds(l, b, t) [] l.tiling = "CC" -> CCLoadLds(l, b, t)
    [] l.tiling = "RC" -> RCLoadLds(l, b, t) [] l.tiling = "CR" -> CRLoadLds(l, b, t)
    [] l.tiling = "2D" -> Fused2DLoadLds(l, b, t)

LoadReg(l, b, t) ==
  CASE l.tiling = "RR" -> RRLoadReg(l, b, t) [] l.tiling = "CC" -> CCLoadReg(l, b, t)
    [] l.tiling = "CR" -> CRLoadReg(l, b, t)

StoreLds(l, b, t) ==
  CASE l.tiling = "RR" -> RRStoreLds(l, b, t) [] l.tiling = "CC" -> CCStoreLds(l, b, t)
    [] l.tiling = "RC" -> RCStoreLds(l, b, t) [] l.tiling = "CR" -> CRStoreLds(l, b, t)
    [] l.tiling = "2D" -> Fused2DStoreLds(l, b, t)

StoreReg(l, b, t) ==
  CASE l.tiling = "RR" -> RRStoreReg(l, b, t) [] l.tiling = "CC" -> CCStoreReg(l, b, t)
    [] l.tiling = "RC" -> RCStoreReg(l, b, t)

\* real_trans_pre_post of each tiling.
PreOps(l) ==
  IF l.eb = "C2R_PRE" THEN real2cmplx_pre_post(l.k.length, l.k.tpt, "pre", "all") ELSE <<>>

PostOps(l) ==
  IF l.eb = "R2C_POST" THEN real2cmplx_pre_post(l.k.length, l.k.tpt, "post", "all")
  ELSE IF l.tiling = "RC" /\ l.sbrc = "ERC_Z_XY"
  THEN [i \in 1 .. 2 * l.k.tpb |->
          Op(IF i % 2 = 1 THEN "post_read" ELSE "post_write", i = 1 \/ i % 2 = 0, "all",
             (i - 1) \div 2, "BOTH", FALSE)]
  ELSE <<>>

\* generate_global_function
Program(l) ==
  IF Fused(l) THEN Fused2DProgram(l)
  ELSE IF Bluestein(l) THEN BlueProgram(l)
  ELSE (IF l.tiling = "CC" /\ CCTwiddlesInLds(l)
        THEN <<Op("large_twd", FALSE, "all", 0, "BOTH", FALSE)>> ELSE <<>>)
       \o (IF DirectLoad(l) THEN <<Op("load_global_reg", FALSE, "all", 0, "BOTH", TRUE)>>
           ELSE <<Op("load_global_lds", FALSE, "all", 0, "BOTH", FALSE)>>
                  \o PreOps(l) \o lds_to_reg("all"))
       \o generate_device_function(l.k, "all", LdsIsReal(l), DirectLoad(l))
       \o (IF DirectStore(l) THEN <<Op("store_global_reg", FALSE, "all", 0, "BOTH", FALSE)>>
           ELSE lds_from_reg(l.k, "all") \o PostOps(l)
                  \o <<Op("store_global_lds", TRUE, "all", 0, "BOTH", FALSE)>>)

Programs == [i \in DOMAIN Launches |-> Program(Launches[i])]

\* Whether the kernel is the one whose device function shifts banks.
Shifted(l) == ~Fused(l) /\ l.shift /\ l.k.length = BankShiftLength

\* What a thread reads and writes in an operation, in pairs that depend on
\* the launch alone: registers and LDS places, or places and addresses.
AccessOf(l, op, b, t) ==
  LET cx == Context(l, op.part, b, t)
  IN  CASE op.kind = "load_global_lds" -> LoadLds(l, b, t)
        [] op.kind = "load_global_reg" -> LoadReg(l, b, t)
        [] op.kind = "lds_to_reg" -> load_lds_generator(cx, 0, FALSE, FALSE)
        [] op.kind = "load" /\ Bluestein(l) -> FFTLoadStockham(cx, op.pass)
        [] op.kind = "store" /\ Bluestein(l) -> FFTStoreStockham(cx, op.pass)
        [] op.kind = "load" ->
             load_lds_generator(cx, op.pass, Shifted(l) => op.comp # "BOTH", Shifted(l))
        [] op.kind = "store" -> store_lds_generator(cx, op.pass, Shifted(l))
        [] op.kind = "lds_from_reg" -> store_lds_generator(cx, op.pass, FALSE)
        [] op.kind = "store_global_lds" -> StoreLds(l, b, t)
        [] op.kind = "store_global_reg" -> StoreReg(l, b, t)
        [] op.kind \in {"pad_mul", "fft_mul"} -> BlueAccess(l, l.istride, b, t)
        [] op.kind = "res_mul" -> BlueAccess(l, l.ostride, b, t)
        [] OTHER -> {}

Accesses ==
  [i \in DOMAIN Launches |->
     [p \in Procs(Launches[i]) |->
        [j \in DOMAIN Programs[i] |-> AccessOf(Launches[i], Programs[i][j], p[1], p[2])]]]

-----------------------------------------------------------------------------
(* Constant tables of a launch. *)

FromPairs(pairs) == [i \in {p[1] : p \in pairs} |-> (CHOOSE p \in pairs : p[1] = i)[2]]

ERC(l) == l.tiling = "RC" /\ l.sbrc = "ERC_Z_XY"

\* The first half of the chirp buffer, filled by the launches before this one;
\* the second half is its transform in the plan's direction.
ChirpOf(l) ==
  IF ~Bluestein(l) THEN <<>>
  ELSE F(l.prime)!ChirpBuffer(l.lengths[1], l.k.length, l.s, LtwdDefaultBase)

Chirps == [i \in DOMAIN Launches |-> ChirpOf(Launches[i])]

ChirpFFTs ==
  [i \in DOMAIN Launches |->
     LET l == Launches[i]
     IN  IF Bluestein(l) THEN F(l.prime)!DFT(Chirps[i], l.k.length, l.s) ELSE <<>>]

\* The tables the launch is given.
Tables ==
  [i \in DOMAIN Launches |->
     LET l == Launches[i] IN
     [small |-> IF Fused(l)
                THEN F(l.prime)!TwiddleTable2D(l.k0.factors, l.k1.factors, l.k0.length,
                                               l.k1.length, Post(l), Pre(l))
                ELSE F(l.prime)!TwiddleTable(l.k.factors, l.k.length,
                                             l.eb # "NONE" \/ ERC(l)),
      large |-> IF l.large > 0 THEN F(l.prime)!LargeTable(l.large, LtwdBase(l)) ELSE <<>>]]

\* The indices <<i2, ..., ibatch>> of the rows of the data, from dimension
\* `from` on, and the address of element j of a row.
Rows(l, from) ==
  LET dims == from .. Len(l.lengths) + 1
      size(d) == IF d = Len(l.lengths) + 1 THEN l.nbatch ELSE l.lengths[d]
      largest == CHOOSE m \in {size(d) : d \in dims} : \A d \in dims : size(d) <= m
  IN  {r \in [dims -> 0 .. largest - 1] : \A d \in dims : r[d] < size(d)}

Dot(r, from, stride) ==
  LET sum[d \in from - 1 .. Len(stride)] ==
        IF d < from THEN 0 ELSE sum[d - 1] + r[d] * stride[d]
  IN  sum[Len(stride)]

\* The output strides in the order of the input's dimensions.
OutStride(l) ==
  LET order == IF l.tiling # "RC" THEN <<1, 2, 3, 4>>
               ELSE CASE l.sbrc = "2D" -> <<2, 1, 3, 4>> [] l.sbrc = "XY_Z" -> <<2, 3, 1, 4>>
                      [] OTHER -> <<3, 1, 2, 4>>
  IN  [d \in DOMAIN l.ostride |-> l.ostride[order[d]]]

\* The transform of one row: complex, or of real data of twice the length.
Transform(l, x, N, kind) ==
  LET A(i) == IF i % 2 = 0 THEN <<x[i \div 2][1], 0>> ELSE <<x[i \div 2][2], 0>>
      H(k) == IF k \in {0, N} THEN <<x[k][1], 0>>
              ELSE IF k < N THEN x[k] ELSE F(l.prime)!Conj(x[2 * N - k])
      z == F(l.prime)!DFT([k \in 0 .. 2 * N - 1 |-> H(k)], 2 * N, l.s)
  IN  CASE kind = "R2C_POST" -> F(l.prime)!DFT([i \in 0 .. 2 * N - 1 |-> A(i)], 2 * N, l.s)
        [] kind = "C2R_PRE" -> [j \in 0 .. N - 1 |-> <<z[2 * j][1], z[2 * j + 1][1]>>]
        [] OTHER -> F(l.prime)!DFT(x, N, l.s)

InLength(N, kind) == IF kind = "C2R_PRE" THEN N + 1 ELSE N
OutLength(N, kind) == IF kind = "R2C_POST" THEN N + 1 ELSE N

\* The addresses of the input and of the output.
Kind0(l) == IF Fused(l) /\ Pre(l) THEN "NONE" ELSE IF ERC(l) THEN "R2C_POST" ELSE l.eb
Length0(l) ==
  IF Fused(l) THEN l.k0.length ELSE IF Bluestein(l) THEN l.lengths[1] ELSE l.k.length

InAddresses(l) ==
  IF Fused(l)
  THEN {Dot(r, 3, l.istride) + i * l.istride[1] + j * l.istride[2] :
          r \in Rows(l, 3), i \in 0 .. l.k0.length - 1, j \in 0 .. InLength(l.k1.length, l.eb) - 1}
  ELSE {Dot(r, 2, l.istride) + j * l.istride[1] :
          r \in Rows(l, 2), j \in 0 .. InLength(Length0(l), l.eb) - 1}

Input(l) == [a \in InAddresses(l) |-> GarbagePair(a + 20)]

\* What the output is to hold, as pairs <<address, value>>.
OutPairs(l) ==
  LET in == Input(l)
      os == OutStride(l)
      row(r) ==
        LET y == Transform(l, [j \in 0 .. InLength(Length0(l), Kind0(l)) - 1 |->
                                 in[Dot(r, 2, l.istride) + j * l.istride[1]]],
                           Length0(l), Kind0(l))
            w(k) == F(l.prime)!Twiddle((k * r[2]) % l.large, l.large)
            z == [k \in 0 .. OutLength(Length0(l), Kind0(l)) - 1 |->
                    IF l.large = 0 THEN y[k]
                    ELSE F(l.prime)!Times(y[k], IF l.s = 1 THEN w(k) ELSE F(l.prime)!Conj(w(k)))]
        IN  {<<Dot(r, 2, os) + k * os[1], z[k]>> : k \in DOMAIN z}
      slab(r) ==
        LET n0 == l.k0.length
            n1 == l.k1.length
            rows == [j \in 0 .. InLength(n1, l.eb) - 1 |->
                       Transform(l, [i \in 0 .. n0 - 1 |->
                                       in[Dot(r, 3, l.istride) + i * l.istride[1] + j * l.istride[2]]],
                                 n0, Kind0(l))]
            columns == [i \in 0 .. OutLength(n0, l.eb) - 1 |->
                          Transform(l, [j \in DOMAIN rows |-> rows[j][i]], n1,
                                    IF Pre(l) THEN "C2R_PRE" ELSE "NONE")]
        IN  {<<Dot(r, 3, os) + i * os[1] + j * os[2], columns[i][j]>> :
               i \in DOMAIN columns, j \in 0 .. n1 - 1}
  IN  IF Fused(l) THEN UNION {slab(r) : r \in Rows(l, 3)} ELSE UNION {row(r) : r \in Rows(l, 2)}

\* The contents of the two buffers before the launch, and what it is to write.
Upto(addresses) == 0 .. (CHOOSE m \in addresses : \A a \in addresses : a <= m)

Inputs == [i \in DOMAIN Launches |-> Input(Launches[i])]

Wanted == [i \in DOMAIN Launches |-> FromPairs(OutPairs(Launches[i]))]

OldContents ==
  [i \in DOMAIN Launches |->
     LET in == IF Launches[i].inplace THEN Inputs[i] ELSE <<>>
     IN  in @@ [a \in Upto(DOMAIN Wanted[i] \union DOMAIN in) |-> GarbagePair(a + 500)]]

-----------------------------------------------------------------------------
(* Registers and memory. *)

Nregs(l) ==
  IF Fused(l) THEN Max2(compute_nregisters(l.k0), compute_nregisters(l.k1))
  ELSE compute_nregisters(l.k)

ReadReg(regs, r) == IF r \in DOMAIN regs THEN regs[r] ELSE GarbagePair(r)

ReadSlot(slots, i) == IF i \in DOMAIN slots THEN slots[i] ELSE Garbage(i)

ReadLds(slots, i) == <<ReadSlot(slots, 2 * i), ReadSlot(slots, 2 * i + 1)>>

\* The slots with the complex numbers of `pairs`, <<place, value>>, written.
WithComplex(slots, pairs) ==
  FromPairs(UNION {{<<2 * p[1], p[2][1]>>, <<2 * p[1] + 1, p[2][2]>>} : p \in pairs}) @@ slots

ReadGlobal(a) ==
  LET memory == IF c.inplace THEN buf ELSE Inputs[n]
  IN  IF a \in DOMAIN memory THEN memory[a] ELSE GarbagePair(a)

\* The twiddles of the second dimension follow those of the first unless the
\* two share one table; the half-N table follows both.
TwiddleStart(l, part) ==
  IF Fused(l) /\ part \in {"columns", "extra column"} /\ l.k0.factors # l.k1.factors
  THEN l.k0.length - l.k0.factors[1] ELSE 0

HalfNStart(l) ==
  IF Fused(l)
  THEN l.k0.length - l.k0.factors[1]
         + (IF l.k0.factors # l.k1.factors THEN l.k1.length - l.k1.factors[1] ELSE 0)
  ELSE l.k.length - l.k.factors[1]

\* Bluestein's kernel transforms forward first and back then, whatever the
\* direction of the plan.
Direction(op) ==
  IF ~Bluestein(c) THEN c.s ELSE IF op.part = "forward" THEN 1 ELSE 0 - 1

\* TwiddleMultiply, or TwiddleMultiplyConjugate in an inverse transform.
TwiddleMultiply(x, w, s) ==
  F(c.prime)!Times(x, IF s = 1 THEN w ELSE F(c.prime)!Conj(w))

\* apply_twiddle_generator: value w of butterfly tid of pass npass.
apply_twiddle(st, tid, w, x) ==
  LET factors == st.cx.k.factors
      width == factors[st.op.pass + 1]
      cumheight == Cumheight(st.cx.k, st.op.pass)
      tidx == cumheight - factors[1] + w - 1 + (width - 1) * (tid % cumheight)
  IN  IF st.op.pass = 0 \/ w = 0 THEN x
      ELSE TwiddleMultiply(x, F(c.prime)!At(Tables[n].small, TwiddleStart(c, st.op.part) + tidx),
                           Direction(st.op))

\* large_twiddles_multiply_generator.  With the table in the LDS, only the
\* entries whose threads have copied them are there.
LargeTable(b) ==
  IF ~CCTwiddlesInLds(c) THEN Tables[n].large
  ELSE [i \in DOMAIN Tables[n].large |->
          IF pc[b, CCTwiddleLoader(c, i)] > 1 THEN Tables[n].large[i] ELSE GarbagePair(i)]

large_twiddles_multiply(st, tid, w, x) ==
  LET cumheight == Cumheight(st.cx.k, st.op.pass)
      u == ((tid % cumheight) + w * cumheight) * CCTransform(c, st.p[1], st.p[2])
  IN  IF c.large = 0 \/ st.op.pass < Len(st.cx.k.factors) - 1 THEN x
      ELSE TwiddleMultiply(x, F(c.prime)!TW_NSteps(LargeTable(st.p[1]), u, LtwdBase(c), LtwdSteps(c)),
                           Direction(st.op))

\* The twiddles, butterflies and large twiddles of a pass, done by every
\* thread (NO_GUARD): pairs <<register, value>>.
Compute(st, regs) ==
  LET width == st.cx.k.factors[st.op.pass + 1]
      results(i) ==
        LET tid == st.cx.thread + i[1]
            y == F(c.prime)!Radix(width, [w \in 0 .. width - 1 |->
                                            apply_twiddle(st, tid, w, ReadReg(regs, i[2] * width + w))],
                                  Direction(st.op))
        IN  {<<i[2] * width + w, large_twiddles_multiply(st, tid, w, y[w])>> : w \in 0 .. width - 1}
  IN  UNION {results(i) : i \in add_work(st.cx, width, FALSE)}

-----------------------------------------------------------------------------
(***************************************************************************)
(* The steps that can be taken.  A step is [p, op, cx, access]: the thread *)
(* p = <<block, thread>>, its next operation, and the values and addresses *)
(* it works with.  SyncThreads lets a thread pass when every thread of its *)
(* block has come to the same place.                                       *)
(***************************************************************************)
Returned(b, t) == Bluestein(c) /\ BlueReturns(c, b, t)

Started(b) == \E t \in Threads(c) : pc[b, t] > 1 /\ ~Returned(b, t)

Finished(b) == \A t \in Threads(c) : pc[b, t] > Len(Programs[n])

Dispatched(b) ==
  \/ Started(b)
  \/ /\ \A a \in 0 .. b - 1 : Started(a)
     /\ Cardinality({a \in 0 .. b - 1 : ~Finished(a)}) < c.resident

Runnable(p) ==
  /\ pc[p] <= Len(Programs[n])
  /\ Programs[n][pc[p]].sync => \A t \in Threads(c) : pc[p[1], t] >= pc[p]
  /\ Dispatched(p[1])

Steps ==
  {[p |-> p, op |-> Programs[n][pc[p]], access |-> Accesses[n][p][pc[p]],
    cx |-> Context(c, Programs[n][pc[p]].part, p[1], p[2])] :
     p \in {q \in Procs(c) : Runnable(q)}}

Advance(st) ==
  /\ pc' = [pc EXCEPT ![st.p] = @ + 1]
  /\ UNCHANGED n

-----------------------------------------------------------------------------
(* The actions, one for each kind of step. *)

large_twiddles_load(st) ==
  /\ st.op.kind = "large_twd"
  /\ Advance(st)
  /\ UNCHANGED <<R, lds, buf>>

\* load_from_global into the LDS.
load_global_lds(st) ==
  /\ st.op.kind = "load_global_lds"
  /\ \E loaded \in {{<<m[1], ReadGlobal(m[2])>> : m \in st.access}} :
       lds' = [lds EXCEPT ![st.p[1]] = WithComplex(@, loaded)]
  /\ Advance(st)
  /\ UNCHANGED <<R, buf>>

\* What a load brings into register r: from global memory, from the LDS
\* (lds_to_reg_input and the loads between passes), or one component of it.
LoadedValue(st, r, i) ==
  LET slots == lds[st.p[1]]
  IN  CASE st.op.kind = "load_global_reg" -> ReadGlobal(i)
        [] st.op.comp = "BOTH" -> ReadLds(slots, i)
        [] st.op.comp = "REAL" -> <<ReadSlot(slots, i), ReadReg(R[st.p], r)[2]>>
        [] st.op.comp = "IMAG" -> <<ReadReg(R[st.p], r)[1], ReadSlot(slots, i)>>

load_registers(st) ==
  /\ st.op.kind \in {"load_global_reg", "lds_to_reg", "load"}
  /\ \E loaded \in {{<<m[1], LoadedValue(st, m[1], m[2])>> : m \in st.access}} :
       \E regs \in {FromPairs(loaded) @@ R[st.p]} :
         \E new \in {IF st.op.compute THEN Compute(st, regs) ELSE {}} :
           R' = [R EXCEPT ![st.p] = FromPairs(new) @@ regs]
  /\ Advance(st)
  /\ UNCHANGED <<lds, buf>>

\* The stores between passes and lds_from_reg_output.
store_lds(st) ==
  /\ st.op.kind \in {"store", "lds_from_reg"}
  /\ \E stored \in {{<<m[2], ReadReg(R[st.p], m[1])>> : m \in st.access}} :
       lds' = [lds EXCEPT ![st.p[1]] =
                 IF st.op.comp = "BOTH" THEN WithComplex(@, stored)
                 ELSE FromPairs({<<e[1], e[2][IF st.op.comp = "REAL" THEN 1 ELSE 2]>> :
                                   e \in stored}) @@ @]
  /\ Advance(st)
  /\ UNCHANGED <<R, buf>>

store_to_global(st) ==
  /\ st.op.kind \in {"store_global_lds", "store_global_reg"}
  /\ LET value(i) == IF st.op.kind = "store_global_lds" THEN ReadLds(lds[st.p[1]], i)
                                                        ELSE ReadReg(R[st.p], i)
     IN  \E stored \in {{<<m[1], value(m[2])>> : m \in st.access}} :
           buf' = FromPairs(stored) @@ buf
  /\ Advance(st)
  /\ UNCHANGED <<R, lds>>

-----------------------------------------------------------------------------
(* The real pre- and post-processing of rows in the LDS. *)

HalfNTwiddle(idx_p) == F(c.prime)!At(Tables[n].small, HalfNStart(c) + idx_p)

real_process_inplace(st) ==
  /\ st.op.kind \in {"pre", "post"}
  /\ LET N == st.cx.k.length
         idx_p == (st.p[2] % st.cx.k.tpt) + st.op.pass * st.cx.k.tpt
         at(i) == ReadLds(lds[st.p[1]], st.cx.offset_lds + i)
     IN  \E p \in {at(idx_p)}, q \in {at(N - idx_p)}, middle \in {at(CeilDiv(N, 2))},
            w \in {HalfNTwiddle(idx_p)} :
           \E row \in {IF st.op.kind = "post"
                       THEN F(c.prime)!real_post_process(N, idx_p, p, q, middle, w)
                       ELSE F(c.prime)!real_pre_process(N, idx_p, p, q, middle, w)} :
             lds' = [lds EXCEPT ![st.p[1]] =
                       WithComplex(@, {<<st.cx.offset_lds + e[1], e[2]>> : e \in row})]
  /\ Advance(st)
  /\ UNCHANGED <<R, buf>>

\* post_process_interleaved_inplace: p and q are read before a barrier and
\* used after it; they are kept behind the registers of the transform.
ERCRow(op) == op.pass * (c.k.length + RCPadding(c))

post_process_read(st) ==
  /\ st.op.kind = "post_read"
  /\ LET at(i) == ReadLds(lds[st.p[1]], ERCRow(st.op) + i)
     IN  R' = [R EXCEPT ![st.p] = (Nregs(c) :> at(st.p[2]))
                                    @@ ((Nregs(c) + 1) :> at(c.k.length - st.p[2])) @@ @]
  /\ Advance(st)
  /\ UNCHANGED <<lds, buf>>

post_process_write(st) ==
  /\ st.op.kind = "post_write"
  /\ \E row \in {F(c.prime)!real_post_process(
                   c.k.length, st.p[2], R[st.p][Nregs(c)], R[st.p][Nregs(c) + 1],
                   ReadLds(lds[st.p[1]], ERCRow(st.op) + CeilDiv(c.k.length, 2)),
                   HalfNTwiddle(st.p[2]))} :
       lds' = [lds EXCEPT ![st.p[1]] =
                 WithComplex(@, {<<ERCRow(st.op) + e[1], e[2]>> : e \in row})]
  /\ Advance(st)
  /\ UNCHANGED <<R, buf>>

-----------------------------------------------------------------------------
(* The multiplications of Bluestein's kernel. *)

FFTBluesteinPadMul(st) ==
  /\ st.op.kind = "pad_mul"
  /\ LET padded(e) == IF e[1] >= c.lengths[1] THEN <<0, 0>>
                      ELSE F(c.prime)!ChirpMul(ReadGlobal(e[3]), Chirps[n][e[1]])
     IN  \E loaded \in {{<<e[2], padded(e)>> : e \in st.access}} :
           lds' = [lds EXCEPT ![st.p[1]] = WithComplex(@, loaded)]
  /\ Advance(st)
  /\ UNCHANGED <<R, buf>>

FFTBluesteinFFTMul(st) ==
  /\ st.op.kind = "fft_mul"
  /\ LET product(e) == F(c.prime)!Times(ReadLds(lds[st.p[1]], e[2]), ChirpFFTs[n][e[1]])
     IN  \E products \in {{<<e[2], product(e)>> : e \in st.access}} :
           lds' = [lds EXCEPT ![st.p[1]] = WithComplex(@, products)]
  /\ Advance(st)
  /\ UNCHANGED <<R, buf>>

FFTBluesteinResMul(st) ==
  /\ st.op.kind = "res_mul"
  /\ LET result(e) == F(c.prime)!ResMul(ReadLds(lds[st.p[1]], e[2]), Chirps[n][e[1]],
                                        c.k.length)
     IN  \E stored \in {{<<e[3], result(e)>> : e \in {f \in st.access : f[1] < c.lengths[1]}}} :
           buf' = FromPairs(stored) @@ buf
  /\ Advance(st)
  /\ UNCHANGED <<R, lds>>

-----------------------------------------------------------------------------
Init ==
  /\ n \in DOMAIN Launches
  /\ pc = [p \in Procs(c) |-> IF Returned(p[1], p[2]) THEN Len(Programs[n]) + 1 ELSE 1]
  /\ R = [p \in Procs(c) |-> [r \in 0 .. Nregs(c) - 1 |-> GarbagePair(r)]]
  /\ lds = [b \in 0 .. Blocks(c) - 1 |-> [i \in 0 .. LdsSlots(c) - 1 |-> Garbage(i)]]
  /\ buf = OldContents[n]

AllFinished == \A b \in 0 .. Blocks(c) - 1 : Finished(b)

\* The launch is over.
End == AllFinished /\ UNCHANGED vars

Next ==
  \/ \E st \in Steps :
       \/ large_twiddles_load(st)
       \/ load_global_lds(st)
       \/ load_registers(st)
       \/ store_lds(st)
       \/ real_process_inplace(st)
       \/ post_process_read(st)
       \/ post_process_write(st)
       \/ store_to_global(st)
       \/ FFTBluesteinPadMul(st)
       \/ FFTBluesteinFFTMul(st)
       \/ FFTBluesteinResMul(st)
  \/ End

Spec == Init /\ [][Next]_vars

-----------------------------------------------------------------------------
(* Properties *)

(***************************************************************************)
(* Whatever order the threads and blocks run in, when the launch is over   *)
(* the buffer holds the transform of the input at the addresses the        *)
(* lengths and strides give, and its other addresses are what they were.   *)
(* A barrier missing between a store to the LDS and a load of it by        *)
(* another thread, a guard that stops too many or too few threads of the   *)
(* last tile, a twiddle index off by one, all end here.                    *)
(***************************************************************************)
OutputCorrect == AllFinished => buf = Wanted[n] @@ OldContents[n]

(***************************************************************************)
(* No thread writes outside its registers, the LDS of its block or the     *)
(* output: not in the partial tile at the edge, not the threads that a     *)
(* pass leaves idle, not with half of the LDS or with shifted banks.       *)
(***************************************************************************)
WritesInside ==
  /\ \A b \in DOMAIN lds : DOMAIN lds[b] = 0 .. LdsSlots(c) - 1
  /\ LET last == Nregs(c) + (IF ERC(c) THEN 1 ELSE 0 - 1)
     IN  \A p \in DOMAIN R : DOMAIN R[p] \subseteq 0 .. last
  /\ DOMAIN buf = DOMAIN OldContents[n]
=============================================================================
