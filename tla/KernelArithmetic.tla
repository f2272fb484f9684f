-------------------------- MODULE KernelArithmetic ---------------------------
(****************************************************************************)
(* The numbers that the kernels compute with, and the functions of the       *)
(* device library that every kind of kernel has in it: radix functions,      *)
(* twiddle factors, the processing of real data and Bluestein's chirp.       *)
(****************************************************************************)
EXTENDS Integers, Sequences

------------------------------------------------------------------------------
(***************************************************************************)
(* Exact arithmetic for the kernels.  A real number of the code is an      *)
(* element of the field of integers modulo the prime P, a complex number a *)
(* pair <<x, y>> of them as in the code.  When n divides P - 1 the field   *)
(* has the n-th roots of unity, so cosines and sines of multiples of       *)
(* 2*pi/n are elements of it (4 must divide P - 1 as well, for i) and      *)
(* every trigonometric identity the butterflies rest on holds exactly.     *)
(* What is abstracted is rounding: the decimal constants of the code stand *)
(* for the cosines and sines they approximate.  A linear map that differs  *)
(* from the wanted one agrees with it on a generic input with probability  *)
(* 1/P only, so one input vector tells the two apart.                      *)
(***************************************************************************)

CONSTANTS P,    \* a prime below 46341, so that products fit TLC's integers
          Pow   \* Pow[k] = g^k modulo P for a generator g, k in 0 .. P - 2

Mod(x) == x % P

Half == (P + 1) \div 2

Third == (2 * P + 1) \div 3

Root(k, n) == Pow[((P - 1) \div n) * (k % n)]

Cos(k, n) == Mod(Half * Mod(Root(k, n) + Root(0 - k, n)))

Sin(k, n) == Mod(Mod(Half * Mod(Root(k, n) - Root(0 - k, n))) * Root(3, 4))

Add(a, b) == <<Mod(a[1] + b[1]), Mod(a[2] + b[2])>>

Sub(a, b) == <<Mod(a[1] - b[1]), Mod(a[2] - b[2])>>

Scale(r, a) == <<Mod(r * a[1]), Mod(r * a[2])>>

Times(a, b) == <<Mod(Mod(a[1] * b[1]) - Mod(a[2] * b[2])),
                 Mod(Mod(a[1] * b[2]) + Mod(a[2] * b[1]))>>

Conj(a) == <<a[1], Mod(0 - a[2])>>

\* T(a.y, -a.x) in the forward butterflies (s = 1), T(-a.y, a.x) in the
\* inverse ones (s = -1).
Rot(s, a) == <<Mod(s * a[2]), Mod(0 - s * a[1])>>

\* exp(-2 pi i k / n), the entry of a twiddle table.
Twiddle(k, n) == <<Cos(k, n), Mod(0 - Sin(k, n))>>

SumOf(f, lo, hi) ==
  LET sum[i \in lo - 1 .. hi] == IF i < lo THEN <<0, 0>> ELSE Add(sum[i - 1], f[i])
  IN  sum[hi]

\* The definition of the transform the library computes: the reference the
\* kernels are compared with.  s = 1 is the forward transform.
DFT(x, n, s) ==
  [k \in 0 .. n - 1 |->
     LET term == [j \in 0 .. n - 1 |->
                    LET w == Twiddle((j * k) % n, n)
                    IN  Times(x[j], IF s = 1 THEN w ELSE Conj(w))]
     IN  SumOf(term, 0, n - 1)]

------------------------------------------------------------------------------
(***************************************************************************)
(* The radix functions pasted into every kernel, over the exact arithmetic *)
(* above.  The registers a radix function works on are a function from     *)
(* 0 .. n-1 to complex numbers; s is 1 in the FwdRad functions and -1 in  *)
(* the InvRad ones, whose formulas differ by the sign of the terms that    *)
(* carry a sine.  The functions are kept twice in the repository, with the *)
(* same text: in rtc_radix_functions/, for kernels compiled at run time,   *)
(* and in rocfft_butterfly_template.h, for kernels written to a file.      *)
(***************************************************************************)

Regs(seq) == [i \in 0 .. Len(seq) - 1 |-> seq[i + 1]]

Rad2(R) ==
  LET r1 == Sub(R[0], R[1])
  IN  Regs(<<Sub(Scale(2, R[0]), r1), r1>>)

Rad3(r0, r1, r2, s) ==
  LET A == Half
      B == Sin(1, 3)
      mid == Sub(r0, Scale(A, Add(r1, r2)))
      rot == Scale(B, Rot(s, Sub(r1, r2)))
  IN  <<Add(Add(r0, r1), r2), Add(mid, rot), Sub(mid, rot)>>

Rad5(r0, r1, r2, r3, r4, s) ==
  LET A == Cos(1, 5)
      B == Sin(1, 5)
      C == Half
      D == Sin(1, 10)
      mid1 == Add(Sub(r0, Scale(C, Add(r2, r3))), Scale(A, Add(Sub(r1, r2), Sub(r4, r3))))
      mid2 == Add(Sub(r0, Scale(C, Add(r1, r4))), Scale(A, Add(Sub(r2, r1), Sub(r3, r4))))
      rot14 == Rot(s, Sub(r1, r4))
      rot23 == Rot(s, Sub(r2, r3))
      side1 == Add(Scale(B, rot14), Scale(D, rot23))
      side2 == Sub(Scale(D, rot14), Scale(B, rot23))
  IN  <<Add(Add(Add(Add(r0, r1), r2), r3), r4),
        Add(mid1, side1), Add(mid2, side2), Sub(mid2, side2), Sub(mid1, side1)>>

\* A radix 2m function: the radix m function on the even and on the odd
\* registers, and the odd results turned by the constants c, d before they
\* are added to and subtracted from the even ones.
Combine(even, odd, c, d, s) ==
  LET m == Len(even)
      turned == [k \in 1 .. m |-> Add(Scale(c[k], odd[k]), Scale(d[k], Rot(s, odd[k])))]
  IN  [i \in 0 .. 2 * m - 1 |->
         IF i < m THEN Add(even[i + 1], turned[i + 1])
                  ELSE Sub(even[i - m + 1], turned[i - m + 1])]

Rad6(R, s) ==
  LET A == Half
      B == Sin(1, 3)
  IN  Combine(Rad3(R[0], R[2], R[4], s), Rad3(R[1], R[3], R[5], s),
              <<1, A, 0 - A>>, <<0, B, B>>, s)

Rad10(R, s) ==
  LET A == Cos(1, 5)
      B == Sin(1, 5)
      D == Sin(1, 10)
      E == Cos(1, 10)
  IN  Combine(Rad5(R[0], R[2], R[4], R[6], R[8], s), Rad5(R[1], R[3], R[5], R[7], R[9], s),
              <<1, E, A, 0 - A, 0 - E>>, <<0, D, B, B, D>>, s)

C7Q(s) ==
  LET c == [k \in 1 .. 3 |-> Cos(k, 7)]
      w == [k \in 1 .. 3 |-> s * Sin(k, 7)]
      third(x) == Mod(Third * Mod(x))
  IN  <<third(c[1] + c[2] + c[3]) - 1, third(2 * c[1] - c[2] - c[3]),
        third(c[1] - 2 * c[2] + c[3]), third(c[1] + c[2] - 2 * c[3]),
        third(w[1] + w[2] - w[3]), third(2 * w[1] - w[2] + w[3]),
        third(w[1] - 2 * w[2] - w[3]), third(w[1] + w[2] + 2 * w[3])>>

\* The additions before the multiplications, the multiplications, and the
\* additions after them.
Rad7Sums(R) ==
  <<Add(R[1], R[6]), Sub(R[1], R[6]), Add(R[2], R[5]), Sub(R[2], R[5]),
    Add(R[4], R[3]), Sub(R[4], R[3])>>

Rad7Products(r0, p, Q) ==
  LET sum == Add(Add(p[3], p[1]), p[5])
  IN  <<Add(r0, sum), Scale(Q[1], sum),
        Scale(Q[2], Sub(p[1], p[5])), Scale(Q[3], Sub(p[5], p[3])), Scale(Q[4], Sub(p[3], p[1])),
        Scale(Q[5], Add(Add(p[6], p[4]), p[2])),
        Scale(Q[6], Sub(p[2], p[6])), Scale(Q[7], Sub(p[6], p[4])), Scale(Q[8], Sub(p[4], p[2]))>>

Rad7Results(q) ==
  LET both(x, y) == <<Add(x, y), Sub(x, y)>>
      base == Add(q[1], q[2])
      p7t6 == both(Add(base, Add(q[3], q[4])), Rot(1, Add(Add(q[7], q[8]), q[6])))
      p8t7 == both(Add(base, Sub(q[5], q[4])), Rot(1, Add(Sub(q[9], q[8]), q[6])))
      p9t8 == both(Sub(base, Add(q[3], q[5])), Rot(1, Sub(q[6], Add(q[9], q[7]))))
  IN  Regs(<<q[1], p7t6[1], p9t8[1], p8t7[2], p8t7[1], p9t8[2], p7t6[2]>>)

Rad7(R, s) == Rad7Results(Rad7Products(R[0], Rad7Sums(R), C7Q(s)))

Rad9(R, s) ==
  LET A == Cos(1, 9)
      B == Sin(1, 9)
      C == Cos(2, 9)
      D == Sin(2, 9)
      F == Sin(1, 3)
      G == Cos(1, 18)
      H == Sin(1, 18)
      v0 == Add(R[1], R[8])
      v1 == Add(R[2], R[7])
      v2 == Add(R[3], R[6])
      v3 == Add(R[4], R[5])
      p0 == Sub(R[1], R[8])
      p1 == Sub(R[2], R[7])
      p2 == Scale(F, Sub(R[3], R[6]))
      p3 == Sub(R[4], R[5])
      \* R0 + A a + C b - E v2 - G c
      real(a, b, c) == Sub(Add(Add(R[0], Scale(A, a)), Scale(C, b)),
                           Add(Scale(Half, v2), Scale(G, c)))
      t8 == Add(Add(Scale(B, p0), Scale(D, p1)), Add(p2, Scale(H, p3)))
      t7 == Sub(Add(Scale(D, p0), Scale(H, p1)), Add(Scale(B, p3), p2))
      t6 == Scale(F, Sub(Add(p0, p3), p1))
      t5 == Sub(Add(p2, Scale(H, p0)), Add(Scale(B, p1), Scale(D, p3)))
      r1 == Add(real(v0, v1, v3), Rot(s, t8))
      r2 == Add(real(v3, v0, v1), Rot(s, t7))
      r3 == Add(Sub(Add(R[0], v2), Scale(Half, Add(Add(v0, v1), v3))), Rot(s, t6))
      r4 == Add(real(v1, v3, v0), Rot(s, t5))
      mirror(r, t) == Sub(r, Scale(2, Rot(s, t)))
  IN  Regs(<<Add(R[0], Add(Add(v0, v1), Add(v2, v3))), r1, r2, r3, r4,
             mirror(r4, t5), mirror(r3, t6), mirror(r2, t7), mirror(r1, t8)>>)

(***************************************************************************)
(* Radix 4, 8 and 16.  The k-th argument of the function is called         *)
(* R<names[k+1]> in its body; the stages work on the named registers and   *)
(* the final swaps exchange the named registers of each pair.              *)
(***************************************************************************)
\* One stage: the register h above a holds a - t b and a holds a + t b, as
\* 2a - (a - t b).  The constants c, d of t b = c b + d Rot(b) are written
\* out in the code, here one pair for each place in the half.
Stage(L, h, c, d, s) ==
  [i \in DOMAIN L |->
     LET upper == (i \div h) % 2 = 1
         a == IF upper THEN i - h ELSE i
         b == L[a + h]
         k == (a % h) + 1
         low == Sub(L[a], Add(Scale(c[k], b), Scale(d[k], Rot(s, b))))
     IN  IF upper THEN low ELSE Sub(Scale(2, L[a]), low)]

Named(R, names) == [j \in DOMAIN R |-> R[CHOOSE k \in DOMAIN R : names[k + 1] = j]]

Swapped(L, names, swaps) ==
  [k \in DOMAIN L |->
     LET j == names[k + 1]
     IN  L[IF \E q \in swaps : j \in q
           THEN CHOOSE m \in UNION swaps : m # j /\ {j, m} \in swaps
           ELSE j]]

Stage1(L, s) == Stage(L, 1, <<1>>, <<0>>, s)
Stage2(L, s) == Stage(L, 2, <<1, 0>>, <<0, 1>>, s)
Stage4(L, s) ==
  LET C8 == Cos(1, 8)
  IN  Stage(L, 4, <<1, C8, 0, 0 - C8>>, <<0, C8, 1, C8>>, s)
Stage8(L, s) ==
  LET C8 == Cos(1, 8)
      A == Cos(1, 16)
      B == Sin(1, 16)
  IN  Stage(L, 8, <<1, A, C8, B, 0, 0 - B, 0 - C8, 0 - A>>,
                  <<0, B, C8, A, 1, A, C8, B>>, s)

Rad4(R, s) ==
  LET names == <<0, 2, 1, 3>>
  IN  Swapped(Stage2(Stage1(Named(R, names), s), s), names, {{1, 2}})

Rad8(R, s) ==
  LET names == <<0, 4, 2, 6, 1, 5, 3, 7>>
  IN  Swapped(Stage4(Stage2(Stage1(Named(R, names), s), s), s), names, {{1, 4}, {3, 6}})

Rad16(R, s) ==
  LET names == <<0, 8, 4, 12, 2, 10, 6, 14, 1, 9, 5, 13, 3, 11, 7, 15>>
  IN  Swapped(Stage8(Stage4(Stage2(Stage1(Named(R, names), s), s), s), s), names,
              {{1, 8}, {2, 4}, {3, 12}, {5, 10}, {7, 14}, {11, 13}})

(***************************************************************************)
(* Radix 11, 13 and 17: each pair of registers j, n - j is folded into its *)
(* sum dp and difference dm once, and contributes to every output x_i and  *)
(* x_(n-i) with the real and imaginary parts of Q_ij = exp(-2 pi i ij/n).  *)
(***************************************************************************)
Folded(R, n) ==
  [j \in 1 .. (n - 1) \div 2 |-> [dp |-> Add(R[j], R[n - j]), dm |-> Sub(R[j], R[n - j])]]

\* What a folded pair d adds to output x_i, and with the sign of the sine
\* turned round (side = -1) to x_(n-i).
Contribution(d, n, k, side) ==
  Add(Scale(Cos(k, n), d.dp), Scale(Mod(0 - side * Sin(k, n)), Rot(0 - 1, d.dm)))

OddRad(R, n, s) ==
  LET half == (n - 1) \div 2
      outputs(d) ==
        [i \in 0 .. n - 1 |->
           Add(R[0], SumOf([j \in 1 .. half |->
                              IF i = 0 THEN d[j].dp
                              ELSE IF i <= half THEN Contribution(d[j], n, (i * j) % n, s)
                              ELSE Contribution(d[j], n, ((n - i) * j) % n, 0 - s)], 1, half))]
  IN  outputs(Folded(R, n))

-----------------------------------------------------------------------------
(* The functions by name. *)

FwdRad2B1(R) == Rad2(R)
InvRad2B1(R) == Rad2(R)
FwdRad3B1(R) == Regs(Rad3(R[0], R[1], R[2], 1))
InvRad3B1(R) == Regs(Rad3(R[0], R[1], R[2], 0 - 1))
FwdRad4B1(R) == Rad4(R, 1)
InvRad4B1(R) == Rad4(R, 0 - 1)
FwdRad5B1(R) == Regs(Rad5(R[0], R[1], R[2], R[3], R[4], 1))
InvRad5B1(R) == Regs(Rad5(R[0], R[1], R[2], R[3], R[4], 0 - 1))
FwdRad6B1(R) == Rad6(R, 1)
InvRad6B1(R) == Rad6(R, 0 - 1)
FwdRad7B1(R) == Rad7(R, 1)
InvRad7B1(R) == Rad7(R, 0 - 1)
FwdRad8B1(R) == Rad8(R, 1)
InvRad8B1(R) == Rad8(R, 0 - 1)
FwdRad9B1(R) == Rad9(R, 1)
InvRad9B1(R) == Rad9(R, 0 - 1)
FwdRad10B1(R) == Rad10(R, 1)
InvRad10B1(R) == Rad10(R, 0 - 1)
FwdRad11B1(R) == OddRad(R, 11, 1)
InvRad11B1(R) == OddRad(R, 11, 0 - 1)
FwdRad13B1(R) == OddRad(R, 13, 1)
InvRad13B1(R) == OddRad(R, 13, 0 - 1)
FwdRad16B1(R) == Rad16(R, 1)
InvRad16B1(R) == Rad16(R, 0 - 1)
FwdRad17B1(R) == OddRad(R, 17, 1)
InvRad17B1(R) == OddRad(R, 17, 0 - 1)

FwdRad(n, R) ==
  CASE n = 2 -> FwdRad2B1(R) [] n = 3 -> FwdRad3B1(R) [] n = 4 -> FwdRad4B1(R)
    [] n = 5 -> FwdRad5B1(R) [] n = 6 -> FwdRad6B1(R) [] n = 7 -> FwdRad7B1(R)
    [] n = 8 -> FwdRad8B1(R) [] n = 9 -> FwdRad9B1(R) [] n = 10 -> FwdRad10B1(R)
    [] n = 11 -> FwdRad11B1(R) [] n = 13 -> FwdRad13B1(R) [] n = 16 -> FwdRad16B1(R)
    [] n = 17 -> FwdRad17B1(R)

InvRad(n, R) ==
  CASE n = 2 -> InvRad2B1(R) [] n = 3 -> InvRad3B1(R) [] n = 4 -> InvRad4B1(R)
    [] n = 5 -> InvRad5B1(R) [] n = 6 -> InvRad6B1(R) [] n = 7 -> InvRad7B1(R)
    [] n = 8 -> InvRad8B1(R) [] n = 9 -> InvRad9B1(R) [] n = 10 -> InvRad10B1(R)
    [] n = 11 -> InvRad11B1(R) [] n = 13 -> InvRad13B1(R) [] n = 16 -> InvRad16B1(R)
    [] n = 17 -> InvRad17B1(R)

Radix(n, R, s) == IF s = 1 THEN FwdRad(n, R) ELSE InvRad(n, R)

------------------------------------------------------------------------------
(***************************************************************************)
(* The tables of twiddle factors (twiddles.cpp and the kernels of          *)
(* rtc_twiddle_gen.cpp that fill them) and their use by the kernels.  A    *)
(* table is a function from indices, starting with 0, to complex numbers;  *)
(* what lies outside of a table is Unknown.                                *)
(***************************************************************************)

Unknown == <<4321, 1234>>

At(table, i) == IF i \in DOMAIN table THEN table[i] ELSE Unknown

FromPairs(pairs) == [i \in {p[1] : p \in pairs} |-> (CHOOSE p \in pairs : p[1] = i)[2]]

Append2(table1, size1, table2) ==
  [i \in DOMAIN table1 \union {size1 + j : j \in DOMAIN table2} |->
     IF i \in DOMAIN table1 THEN table1[i] ELSE table2[i - size1]]

\* GetKernelParams: radices_prod of the first i radices, and the size of the
\* sections of the table before the one of pass i.
RadicesProd(radices, i) ==
  LET f[j \in 0 .. i] == IF j = 0 THEN 1 ELSE f[j - 1] * radices[j]
  IN  f[i]

RadicesSumProd(radices, i) ==
  LET f[j \in 1 .. i] ==
        IF j = 1 THEN 0 ELSE f[j - 1] + RadicesProd(radices, j - 1) * (radices[j] - 1)
  IN  f[i]

TableSize(radices) == RadicesSumProd(radices, Len(radices))

\* TwiddleTableType::RADICES: section i has, for each k below the product L of
\* the radices before divided by the section's own, the powers 1, 2, ... of
\* the k-th root of order L.
RadicesTable(radices, length_limit) ==
  LET entry(i, k, j) ==
        <<RadicesSumProd(radices, i) + k * (radices[i + 1] - 1) + j - 1,
          Twiddle((j * k) % RadicesProd(radices, i + 1), RadicesProd(radices, i + 1))>>
      entries(i) == {entry(i, k, j) : k \in 0 .. RadicesProd(radices, i) - 1,
                                      j \in 1 .. radices[i + 1] - 1}
      all == UNION {entries(i) : i \in 1 .. Len(radices) - 1}
  IN  FromPairs({e \in all : e[1] < length_limit})

\* TwiddleTableType::HALF_N
HalfNTable(N) == [i \in 0 .. (N + 1) \div 2 - 1 |-> Twiddle(i, 2 * N)]

\* TwiddleTableLarge: one section for each digit of base 2^largeTwdBase.
LargeTable(N, largeTwdBase) ==
  LET X == 2^largeTwdBase
      CeilPo2 == CHOOSE e \in 0 .. N : 2^e >= N /\ \A d \in 0 .. e - 1 : 2^d < N
      Y == (CeilPo2 + largeTwdBase - 1) \div largeTwdBase
  IN  [i \in 0 .. X * Y - 1 |-> Twiddle((X^(i \div X) * (i % X)) % N, N)]

\* TwiddleTable::GenerateTable
TwiddleTable(radices, N, attach_halfN) ==
  LET table == RadicesTable(radices, N)
  IN  IF attach_halfN THEN Append2(table, TableSize(radices), HalfNTable(N)) ELSE table

\* TwiddleTable2D::GenerateTwiddleTable: the tables of the two dimensions one
\* after the other, or one for both when they have the same radices.
TwiddleTable2D(radices1, radices2, N1, N2, attach_halfN1, attach_halfN2) ==
  LET first == RadicesTable(radices1, N1)
      size == TableSize(radices1) + (IF radices1 = radices2 THEN 0 ELSE TableSize(radices2))
      both == IF radices1 = radices2 THEN first
              ELSE Append2(first, TableSize(radices1), RadicesTable(radices2, N2))
  IN  IF attach_halfN1 THEN Append2(both, size, HalfNTable(N1))
      ELSE IF attach_halfN2 THEN Append2(both, size, HalfNTable(N2))
      ELSE both

\* The large twiddle factor exp(-2 pi i u / N) from the digits of u.
TW_NSteps(table, u, Base, Digits) ==
  LET X == 2^Base
      entry(i) == At(table, X * i + ((u \div X^i) % X))
      two == Times(entry(0), entry(1))
  IN  IF Digits < 2 THEN entry(0) ELSE IF Digits < 3 THEN two ELSE Times(two, entry(2))

------------------------------------------------------------------------------
(***************************************************************************)
(* A real transform of length 2N done as a complex one of length N         *)
(* (real2complex_device.h): the values of the elements idx_p = i and       *)
(* idx_q = N - i after the processing, p and q being the ones before it    *)
(* and w the twiddle factor of order 2N.                                   *)
(***************************************************************************)

PostPair(p, q, w) ==
  LET u == Scale(Half, Add(p, q))
      v == Scale(Half, Sub(p, q))
  IN  <<<<Mod(u[1] + Mod(v[1] * w[2]) + Mod(u[2] * w[1])),
          Mod(v[2] + Mod(u[2] * w[2]) - Mod(v[1] * w[1]))>>,
        <<Mod(u[1] - Mod(v[1] * w[2]) - Mod(u[2] * w[1])),
          Mod(Mod(u[2] * w[2]) - v[2] - Mod(v[1] * w[1]))>>>>

PrePair(p, q, w) ==
  LET u == Add(p, q)
      v == Sub(p, q)
  IN  <<<<Mod(u[1] + Mod(v[1] * w[2]) - Mod(u[2] * w[1])),
          Mod(v[2] + Mod(u[2] * w[2]) + Mod(v[1] * w[1]))>>,
        <<Mod(u[1] - Mod(v[1] * w[2]) + Mod(u[2] * w[1])),
          Mod(Mod(u[2] * w[2]) - v[2] + Mod(v[1] * w[1]))>>>>

(***************************************************************************)
(* What the call for the pair idx_p writes, as pairs <<element, value>>.   *)
(* The call for idx_p = 0 also treats the middle element, quarter_N, when  *)
(* N is even.  The pre-processing leaves element N alone.                  *)
(***************************************************************************)
real_post_process(N, idx_p, p, q, middle, w) ==
  LET quarter_N == (N + 1) \div 2
      new == PostPair(p, q, w)
  IN  IF idx_p >= quarter_N THEN {}
      ELSE IF idx_p > 0 THEN {<<idx_p, new[1]>>, <<N - idx_p, new[2]>>}
      ELSE {<<0, <<Mod(p[1] + p[2]), 0>>>>, <<N, <<Mod(p[1] - p[2]), 0>>>>}
             \union (IF N % 2 = 0 THEN {<<quarter_N, Conj(middle)>>} ELSE {})

real_pre_process(N, idx_p, p, q, middle, w) ==
  LET quarter_N == (N + 1) \div 2
      new == PrePair(p, q, w)
  IN  IF idx_p >= quarter_N THEN {}
      ELSE IF idx_p > 0 THEN {<<idx_p, new[1]>>, <<N - idx_p, new[2]>>}
      ELSE {<<0, <<Mod(p[1] + q[1]), Mod(p[1] - q[1])>>>>}
             \union (IF N % 2 = 0 THEN {<<quarter_N, Scale(2, Conj(middle))>>} ELSE {})

------------------------------------------------------------------------------
(***************************************************************************)
(* The arithmetic of Bluestein's algorithm: a transform of length N as a   *)
(* convolution with the chirp exp(i pi n^2 / N), done with transforms of a *)
(* length M >= 2N - 1.  s = 1 is the forward transform, dir = -1 in the    *)
(* code.                                                                   *)
(***************************************************************************)

\* 1.0 / M
Reciprocal(m) == (P * (CHOOSE t \in 0 .. m - 1 : (P * t + 1) % m = 0) + 1) \div m

\* get_launch_args: the digits of an index into the large twiddle table.
ChirpSteps(large1D, base) ==
  CHOOSE twl \in 1 .. 3 : large1D <= 2^(base * twl) /\ (twl > 1 => large1D > 2^(base * (twl - 1)))

\* bluestein_multi_chirp_rtc: what thread tx computes, from the large twiddle
\* table of length 2N.
ChirpValue(table, N, tx, s, base) ==
  LET directed(val) == IF s = 1 THEN Conj(val) ELSE val
  IN  directed(TW_NSteps(table, (tx * tx) % (2 * N), base, ChirpSteps(2 * N, base)))

\* The chirp buffer after the chirp kernel: mirrored, zero in the middle.
ChirpBuffer(N, M, s, base) ==
  LET table == LargeTable(2 * N, base)
      tx(i) == IF i < N THEN i ELSE M - i
  IN  [i \in 0 .. M - 1 |-> IF tx(i) < N THEN ChirpValue(table, N, tx(i), s, base) ELSE <<0, 0>>]

\* PAD_MUL and RES_MUL multiply with the conjugate of the chirp, RES_MUL by
\* 1 / M as well; FFT_MUL multiplies the two transforms.
ChirpMul(x, chirp) == Times(x, Conj(chirp))

ResMul(x, chirp, M) == Scale(Reciprocal(M), Times(x, Conj(chirp)))
==============================================================================
