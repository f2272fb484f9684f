--------------------------- MODULE FieldExec_proofs ----------------------------
(***************************************************************************)
(* Proofs about plans with fields, for any fields, lengths and number of   *)
(* ranks: the items of every plan that is created wait for each other      *)
(* without a cycle and send messages only between ranks that execute them, *)
(* and an execution that is not in place leaves the user's input alone.    *)
(***************************************************************************)
EXTENDS FieldExec, FiniteSetTheorems, WellFoundedInduction, TLAPS

------------------------------------------------------------------------------
(* Induction and recursive functions *)

\* A set of numbers has a least one.
LEMMA LeastNumber ==
  ASSUME NEW T, T \subseteq Nat, T # {}
  PROVE  \E x \in T : \A y \in T : x <= y
  <1>1. PICK x \in T : \A y \in T : ~(<<y, x>> \in OpToRel(<, Nat))
    BY NatLessThanWellFounded, WFMin
  <1>2. \A y \in T : ~(y < x)
    BY <1>1 DEF OpToRel
  <1> QED
    BY <1>2

\* A set that has 0 and with every number its successor has them all.
LEMMA SetInduction ==
  ASSUME NEW S, 0 \in S, \A n \in Nat : n \in S => n + 1 \in S
  PROVE  \A n \in Nat : n \in S
  <1> DEFINE T == Nat \ S
  <1>1. SUFFICES ASSUME T # {} PROVE FALSE
    BY DEF T
  <1>2. PICK x \in T : \A y \in T : x <= y
    BY <1>1, LeastNumber
  <1>3. x # 0 /\ x \in Nat /\ x - 1 \in Nat
    BY <1>2 DEF T
  <1>4. x - 1 \in S
    BY <1>2, <1>3 DEF T
  <1>5. (x - 1) + 1 = x
    BY <1>3
  <1> QED
    BY <1>2, <1>3, <1>4, <1>5 DEF T

\* The same for the numbers up to n.
LEMMA UpToInduction ==
  ASSUME NEW n \in Nat, NEW S, 0 \in S, \A k \in 0 .. n : k < n /\ k \in S => k + 1 \in S
  PROVE  \A k \in 0 .. n : k \in S
  <1> DEFINE T == S \cup {k \in Nat : k > n}
  <1>1. 0 \in T /\ \A k \in Nat : k \in T => k + 1 \in T
    OBVIOUS
  <1> HIDE DEF T
  <1>2. \A k \in Nat : k \in T
    BY <1>1, SetInduction
  <1> QED
    BY <1>2 DEF T

------------------------------------------------------------------------------
(* Sequences *)

IsASeq(s) == \E S : s \in Seq(S)

\* The length and the domain of a sequence.
LEMMA SeqFacts ==
  ASSUME NEW s, IsASeq(s)
  PROVE  Len(s) \in Nat /\ DOMAIN s = 1 .. Len(s)
  BY DEF IsASeq

LEMMA ElementsAreASeq ==
  ASSUME NEW S, NEW s \in Seq(S)
  PROVE  IsASeq(s)
  BY DEF IsASeq

\* A function on 1 .. n is a sequence of length n.
LEMMA FunctionIsASeq ==
  ASSUME NEW n \in Nat, NEW s, DOMAIN s = 1 .. n, s = [k \in 1 .. n |-> s[k]]
  PROVE  IsASeq(s) /\ Len(s) = n
  <1>1. s \in Seq({s[k] : k \in 1 .. n}) /\ Len(s) = n
    OBVIOUS
  <1> QED
    BY <1>1 DEF IsASeq

\* q is s followed by t.
Extends(q, s, t) ==
  /\ IsASeq(q) /\ Len(q) = Len(s) + Len(t)
  /\ \A i \in 1 .. Len(s) : q[i] = s[i]
  /\ \A i \in 1 .. Len(t) : q[Len(s) + i] = t[i]

\* Concatenation.
LEMMA ConcatExtends ==
  ASSUME NEW s, IsASeq(s), NEW t, IsASeq(t), NEW q, q = s \o t
  PROVE  Extends(q, s, t)
  <1>1. PICK S : s \in Seq(S)
    BY DEF IsASeq
  <1>2. PICK T : t \in Seq(T)
    BY DEF IsASeq
  <1>3. s \in Seq(S \cup T) /\ t \in Seq(S \cup T)
    BY <1>1, <1>2
  <1>4. q \in Seq(S \cup T)
    BY <1>3
  <1> QED
    BY <1>3, <1>4 DEF IsASeq, Extends

LEMMA AppendFacts ==
  ASSUME NEW S, NEW s \in Seq(S), NEW T, NEW x \in T, S \subseteq T
  PROVE  /\ Append(s, x) \in Seq(T) /\ Len(Append(s, x)) = Len(s) + 1
         /\ \A i \in 1 .. Len(s) : Append(s, x)[i] = s[i]
         /\ Append(s, x)[Len(s) + 1] = x
  OBVIOUS

LEMMA ElementIn ==
  ASSUME NEW S, NEW s \in Seq(S)
  PROVE  Len(s) \in Nat /\ \A k \in 1 .. Len(s) : s[k] \in S
  OBVIOUS

LEMMA WiderSeq ==
  ASSUME NEW S, NEW s \in Seq(S), NEW T, S \subseteq T
  PROVE  s \in Seq(T)
  OBVIOUS

LEMMA Behind ==
  ASSUME NEW l \in Nat, NEW c \in Nat, NEW i \in 1 .. l + c, i \notin 1 .. l
  PROVE  i - l \in 1 .. c /\ i = l + (i - l)
  OBVIOUS

\* InOrder enumerates the numbers of K up to n.
LEMMA InOrderIsSeq ==
  ASSUME NEW K, NEW n \in Nat
  PROVE  /\ InOrder(K, n) \in Seq(K \cap (1 .. n))
         /\ K \cap (1 .. n) # {} => Len(InOrder(K, n)) > 0
  <1> DEFINE start == <<>>
             step(s, k) == IF k \in K THEN Append(s, k) ELSE s
             Rec(fn, top) == fn = [k \in 0 .. top |-> IF k = 0 THEN start ELSE step(fn[k - 1], k)]
             Exist == {top \in Nat : \E fn : Rec(fn, top)}
             f == CHOOSE fn : Rec(fn, n)
  <1> HIDE DEF step, start
  <1>r1. 0 \in Exist
    <2>1. Rec([k \in 0 .. 0 |-> start], 0)
      OBVIOUS
    <2> QED
      BY <2>1
  <1>r2. ASSUME NEW m \in Nat, m \in Exist
         PROVE  m + 1 \in Exist
    <2>1. PICK fn : Rec(fn, m)
      BY <1>r2
    <2> DEFINE h == [k \in 0 .. m + 1 |-> IF k <= m THEN fn[k] ELSE step(fn[m], m + 1)]
    <2>2. Rec(h, m + 1)
      BY <2>1
    <2> HIDE DEF h
    <2>3. \E x : Rec(x, m + 1)
      BY <2>2
    <2> HIDE DEF Rec
    <2> QED
      BY <2>3
  <1> HIDE DEF Exist
  <1>r3. \A top \in Nat : top \in Exist
    BY <1>r1, <1>r2, SetInduction
  <1>r4. \E fn : Rec(fn, n)
    BY <1>r3 DEF Exist
  <1> HIDE DEF Rec
  <1>r5. Rec(f, n)
    BY <1>r4
  <1> HIDE DEF f
  <1>r. f[0] = start /\ \A k \in 1 .. n : f[k] = step(f[k - 1], k)
    BY <1>r5 DEF Rec
  <1>1. InOrder(K, n) = f[n]
    BY DEF InOrder, f, Rec, start, step
  <1> DEFINE Right(k) == /\ f[k] \in Seq(K \cap (1 .. n))
                         /\ K \cap (1 .. k) # {} => Len(f[k]) > 0
             T == {k \in 0 .. n : Right(k)}
  <1>2. 0 \in T
    <2>1. f[0] = <<>> /\ <<>> \in Seq(K \cap (1 .. n)) /\ K \cap (1 .. 0) = {}
      BY <1>r DEF start
    <2>2. Right(0) /\ 0 \in 0 .. n
      BY <2>1
    <2> HIDE DEF Right
    <2> QED
      BY <2>2
  <1>3. ASSUME NEW k \in 0 .. n, k < n, k \in T
        PROVE  k + 1 \in T
    <2>1. k + 1 \in 1 .. n /\ (k + 1) - 1 = k /\ Right(k)
      BY <1>3
    <2>2. f[k + 1] = IF k + 1 \in K THEN Append(f[k], k + 1) ELSE f[k]
      BY <1>r, <2>1 DEF step
    <2>3. CASE k + 1 \in K
      <3>1. Append(f[k], k + 1) \in Seq(K \cap (1 .. n)) /\ Len(Append(f[k], k + 1)) = Len(f[k]) + 1
        BY <2>1, <2>3, AppendFacts
      <3>2. Len(f[k]) \in Nat
        BY <2>1
      <3>3. Right(k + 1)
        BY <2>2, <2>3, <3>1, <3>2
      <3> QED
        BY <2>1, <3>3
    <2>4. CASE k + 1 \notin K
      <3>1. K \cap (1 .. k + 1) = K \cap (1 .. k)
        BY <2>4
      <3> QED
        BY <2>1, <2>2, <2>4, <3>1
    <2> QED
      BY <2>3, <2>4
  <1> HIDE DEF T
  <1>4. \A k \in 0 .. n : k \in T
    BY <1>2, <1>3, UpToInduction
  <1> QED
    BY <1>1, <1>4 DEF T

\* What Pick takes from a sequence.
LEMMA PickIsSeq ==
  ASSUME NEW S, NEW s \in Seq(S), NEW K
  PROVE  Pick(s, K) \in Seq(S)
  <1> DEFINE ks == InOrder(K, Len(s))
  <1>1. ks \in Seq(K \cap (1 .. Len(s))) /\ Pick(s, K) = [i \in DOMAIN ks |-> s[ks[i]]]
    BY InOrderIsSeq DEF Pick
  <1> HIDE DEF ks
  <1>2. DOMAIN ks = 1 .. Len(ks) /\ Len(ks) \in Nat /\ \A i \in 1 .. Len(ks) : s[ks[i]] \in S
    BY <1>1
  <1> QED
    BY <1>1, <1>2

------------------------------------------------------------------------------
(* Plans *)

IsPlan(P) ==
  /\ P = [items |-> P.items, ante |-> P.ante, out |-> P.out, status |-> P.status, temps |-> P.temps]
  /\ P.status \in {"ok", "throw", "nullptr"}

\* Q is P but for its temp buffers.
SamePlan(P, Q) ==
  IsPlan(Q) /\ Q.items = P.items /\ Q.ante = P.ante /\ Q.out = P.out /\ Q.status = P.status

\* A change of the temp buffers leaves everything else alone.
LEMMA WithTempsSame ==
  ASSUME NEW P, IsPlan(P), NEW T
  PROVE  SamePlan(P, WithTemps(P, T))
  BY DEF IsPlan, SamePlan, WithTemps

\* Leases and returns leave everything else alone.
LEMMA LeasesSame ==
  ASSUME NEW P, IsPlan(P)
  PROVE  /\ \A w : SamePlan(P, Leases(P, w))
         /\ \A l, b : SamePlan(P, LeaseOne(P, l, b))
         /\ \A f, k : SamePlan(P, LeaseField(P, f, k))
         /\ \A b : SamePlan(P, Return(P, b))
         /\ \A n : SamePlan(P, ReturnAfter(P, n))
  <1>1. \A w : SamePlan(P, Leases(P, w))
    BY WithTempsSame DEF Leases
  <1>2. \A b : SamePlan(P, Return(P, b))
    BY WithTempsSame DEF Return
  <1> QED
    BY <1>1, <1>2 DEF LeaseOne, LeaseField, ReturnAfter

\* AddMultiPlanItem, several times: what of the plan changes.
LEMMA AddItemsFacts ==
  ASSUME NEW P, IsPlan(P), NEW items, NEW ante, NEW Q, Q = AddItems(P, items, ante)
  PROVE  /\ IsPlan(Q) /\ Q.items = P.items \o items /\ Q.ante = P.ante \o ante
         /\ Q.out = P.out /\ Q.status = P.status
  BY DEF IsPlan, AddItems

\* Two sequences of the same length.
Paired(s, t) == IsASeq(s) /\ IsASeq(t) /\ Len(s) = Len(t)

\* The items and antecedents are appended.
LEMMA ItemsAdded ==
  ASSUME NEW P, IsPlan(P), Paired(P.items, P.ante), NEW items, NEW ante, Paired(items, ante),
         NEW Q, Q = AddItems(P, items, ante)
  PROVE  Extends(Q.items, P.items, items) /\ Extends(Q.ante, P.ante, ante)
  <1>1. Q.items = P.items \o items /\ Q.ante = P.ante \o ante
    BY AddItemsFacts
  <1>2. IsASeq(P.items) /\ IsASeq(P.ante) /\ IsASeq(items) /\ IsASeq(ante)
    BY DEF Paired
  <1>3. Extends(Q.items, P.items, items)
    BY <1>1, <1>2, ConcatExtends
  <1>4. Extends(Q.ante, P.ante, ante)
    BY <1>1, <1>2, ConcatExtends
  <1> QED
    BY <1>3, <1>4

Joined(s, a) == IF Contains(s, a) THEN s ELSE Append(s, a)

\* AddAntecedent: what of the plan changes.
LEMMA AddAnteFacts ==
  ASSUME NEW P, IsPlan(P), NEW i, NEW a, NEW Q, Q = AddAnte(P, i, a)
  PROVE  IsPlan(Q) /\ Q.items = P.items /\ Q.out = P.out /\ Q.status = P.status
  BY DEF IsPlan, AddAnte

\* The one list of antecedents changes, the others stay.
LEMMA AnteAdded ==
  ASSUME NEW P, IsPlan(P), IsASeq(P.ante), NEW i \in 1 .. Len(P.ante), NEW a,
         NEW Q, Q = AddAnte(P, i, a)
  PROVE  /\ IsASeq(Q.ante) /\ Len(Q.ante) = Len(P.ante)
         /\ Q.ante[i] = Joined(P.ante[i], a)
         /\ \A k \in 1 .. Len(P.ante) : k # i => Q.ante[k] = P.ante[k]
  <1>1. Q.ante = [P.ante EXCEPT ![i] = Joined(P.ante[i], a)]
    BY DEF IsPlan, AddAnte, Joined
  <1>2. Len(P.ante) \in Nat /\ DOMAIN P.ante = 1 .. Len(P.ante)
    BY SeqFacts
  <1>3. /\ DOMAIN Q.ante = 1 .. Len(P.ante) /\ Q.ante = [k \in 1 .. Len(P.ante) |-> Q.ante[k]]
        /\ Q.ante[i] = Joined(P.ante[i], a) /\ \A k \in 1 .. Len(P.ante) : k # i => Q.ante[k] = P.ante[k]
    BY <1>1, <1>2
  <1> QED
    BY <1>2, <1>3, FunctionIsASeq

\* An item that is replaced once its operations are known.
LEMMA WithItemFacts ==
  ASSUME NEW P, IsPlan(P), NEW i, NEW item, NEW Q, Q = WithItem(P, i, item)
  PROVE  IsPlan(Q) /\ Q.ante = P.ante /\ Q.out = P.out /\ Q.status = P.status
  BY DEF IsPlan, WithItem

LEMMA WithOutputsFacts ==
  ASSUME NEW P, IsPlan(P), NEW out, NEW Q, Q = WithOutputs(P, out)
  PROVE  IsPlan(Q) /\ Q.items = P.items /\ Q.ante = P.ante /\ Q.out = out /\ Q.status = P.status
  BY DEF IsPlan, WithOutputs

\* A creation that fails.
LEMMA FailFacts ==
  ASSUME NEW P, IsPlan(P), NEW status \in {"throw", "nullptr"}, NEW Q, Q = FailWith(P, status)
  PROVE  IsPlan(Q) /\ Q.status = status
  BY DEF IsPlan, FailWith

\* An item sends messages only between ranks that execute it and, if keep
\* holds, writes to no input buffer of the user's.
SoundItem(item, keep) ==
  /\ item.msgs \subseteq item.on \X item.on
  /\ keep => \A w \in Writes(item) : w[2][1] # "in"

\* Every item of a plan waits for items of a lower stage.
Staged(P, keep, st, m) ==
  /\ IsPlan(P) /\ Paired(P.items, P.ante)
  /\ m \in Nat /\ st \in [1 .. Len(P.items) -> 1 .. m]
  /\ \A i \in 1 .. Len(P.items) :
       /\ SoundItem(P.items[i], keep)
       /\ P.ante[i] \in Seq(1 .. Len(P.items))
       /\ \A k \in 1 .. Len(P.ante[i]) : st[P.ante[i][k]] < st[i]

SoundPlan(P, keep) == \E st, m : Staged(P, keep, st, m)

\* Stages depend on the items and antecedents only.
LEMMA SameStaged ==
  ASSUME NEW P, NEW Q, NEW keep, NEW st, NEW m, Staged(P, keep, st, m),
         IsPlan(Q), Q.items = P.items, Q.ante = P.ante
  PROVE  Staged(Q, keep, st, m)
  BY DEF Staged

\* Items that can be added to a plan, with their stages.
Fits(P, keep, items, ante, st, st2, m2) ==
  /\ Paired(items, ante)
  /\ m2 \in Nat /\ st2 \in [1 .. Len(P.items) + Len(items) -> 1 .. m2]
  /\ \A i \in 1 .. Len(P.items) : st2[i] = st[i]
  /\ \A k \in 1 .. Len(items) :
       /\ SoundItem(items[k], keep)
       /\ ante[k] \in Seq(1 .. Len(P.items) + Len(items))
       /\ \A j \in 1 .. Len(ante[k]) : st2[ante[k][j]] < st2[Len(P.items) + k]

\* Items that fit make a longer plan with stages.
LEMMA Grow ==
  ASSUME NEW P, NEW keep, NEW st, NEW m, Staged(P, keep, st, m),
         NEW items, NEW ante, NEW st2, NEW m2, Fits(P, keep, items, ante, st, st2, m2),
         NEW Q, Q = AddItems(P, items, ante)
  PROVE  /\ Staged(Q, keep, st2, m2) /\ Q.status = P.status /\ Q.out = P.out
         /\ Len(Q.items) = Len(P.items) + Len(items)
  <1> DEFINE l == Len(P.items)
             n == l + Len(items)
  <1>1. IsPlan(P) /\ Paired(P.items, P.ante) /\ Paired(items, ante)
    BY DEF Staged, Fits
  <1>2. /\ IsPlan(Q) /\ Q.out = P.out /\ Q.status = P.status
        /\ Paired(Q.items, Q.ante) /\ Len(Q.items) = n
        /\ \A i \in 1 .. l : Q.items[i] = P.items[i] /\ Q.ante[i] = P.ante[i]
        /\ \A i \in 1 .. Len(items) : Q.items[l + i] = items[i] /\ Q.ante[l + i] = ante[i]
    <2>1. IsPlan(Q) /\ Q.out = P.out /\ Q.status = P.status
      BY <1>1, AddItemsFacts
    <2>2. Extends(Q.items, P.items, items) /\ Extends(Q.ante, P.ante, ante)
      BY <1>1, ItemsAdded
    <2>3. Paired(Q.items, Q.ante)
      BY <1>1, <2>2 DEF Paired, Extends
    <2>4. Len(P.items) = Len(P.ante) /\ Len(items) = Len(ante)
      BY <1>1 DEF Paired
    <2>5. /\ \A i \in 1 .. l : Q.items[i] = P.items[i] /\ Q.ante[i] = P.ante[i]
          /\ \A i \in 1 .. Len(items) : Q.items[l + i] = items[i] /\ Q.ante[l + i] = ante[i]
      BY <2>2, <2>4 DEF Extends
    <2>6. Len(Q.items) = n
      BY <2>2 DEF Extends
    <2> QED
      BY <2>1, <2>3, <2>5, <2>6
  <1>3. l \in Nat /\ Len(items) \in Nat /\ 1 .. l \subseteq 1 .. n
    BY <1>1, SeqFacts DEF Paired
  <1> HIDE DEF n
  <1>4. ASSUME NEW i \in 1 .. n
        PROVE  /\ SoundItem(Q.items[i], keep)
               /\ Q.ante[i] \in Seq(1 .. n)
               /\ \A k \in 1 .. Len(Q.ante[i]) : st2[Q.ante[i][k]] < st2[i]
    <2>1. CASE i \in 1 .. l
      <3>1. Q.items[i] = P.items[i] /\ Q.ante[i] = P.ante[i] /\ st2[i] = st[i]
        BY <1>2, <2>1 DEF Fits
      <3>2. /\ SoundItem(P.items[i], keep) /\ P.ante[i] \in Seq(1 .. l)
            /\ \A k \in 1 .. Len(P.ante[i]) : st[P.ante[i][k]] < st[i]
        BY <2>1 DEF Staged
      <3>3. \A k \in 1 .. Len(P.ante[i]) : P.ante[i][k] \in 1 .. l
        BY <3>2, ElementIn
      <3>4. P.ante[i] \in Seq(1 .. n)
        BY <1>3, <3>2, WiderSeq
      <3>5. \A k \in 1 .. Len(P.ante[i]) : st2[P.ante[i][k]] = st[P.ante[i][k]]
        BY <3>3 DEF Fits
      <3> QED
        BY <3>1, <3>2, <3>4, <3>5
    <2>2. CASE i \notin 1 .. l
      <3> DEFINE k == i - l
      <3>1. k \in 1 .. Len(items) /\ i = l + k
        BY <1>3, <2>2, Behind DEF n
      <3> HIDE DEF k
      <3>2. Q.items[i] = items[k] /\ Q.ante[i] = ante[k]
        BY <1>2, <3>1
      <3>3. /\ SoundItem(items[k], keep) /\ ante[k] \in Seq(1 .. n)
            /\ \A j \in 1 .. Len(ante[k]) : st2[ante[k][j]] < st2[l + k]
        BY <3>1 DEF Fits, n
      <3> QED
        BY <3>1, <3>2, <3>3
    <2> QED
      BY <2>1, <2>2
  <1>5. m2 \in Nat /\ st2 \in [1 .. n -> 1 .. m2]
    BY DEF Fits, n
  <1>6. Staged(Q, keep, st2, m2)
    BY <1>2, <1>4, <1>5 DEF Staged
  <1> QED
    BY <1>2, <1>6 DEF n

\* Q is P with an item at stage s, the others at the stages they were.
GrownOne(P, Q, keep, st, top, s) ==
  /\ \E st2 : /\ Staged(Q, keep, st2, top) /\ st2[Len(P.items) + 1] = s
              /\ \A i \in 1 .. Len(P.items) : st2[i] = st[i]
  /\ Q.status = P.status /\ Q.out = P.out /\ Len(Q.items) = Len(P.items) + 1

\* An item added at a stage, after items of lower stages.
LEMMA GrowOne ==
  ASSUME NEW P, NEW keep, NEW st, NEW m, Staged(P, keep, st, m),
         NEW item, SoundItem(item, keep), NEW m2 \in Nat, NEW s \in 1 .. m2, m <= m2,
         NEW ante \in Seq(1 .. Len(P.items)), \A j \in 1 .. Len(ante) : st[ante[j]] < s,
         NEW Q, Q = AddItem(P, item, ante)
  PROVE  GrownOne(P, Q, keep, st, m2, s)
  <1> DEFINE l == Len(P.items)
             st2 == [i \in 1 .. l + 1 |-> IF i <= l THEN st[i] ELSE s]
  <1>1. l \in Nat /\ m \in Nat /\ st \in [1 .. l -> 1 .. m]
    BY SeqFacts DEF Staged, Paired
  <1>2. IsASeq(<<item>>) /\ IsASeq(<<ante>>) /\ Len(<<ante>>) = 1 /\ Len(<<item>>) = 1
    <2>1. <<item>> \in Seq({item}) /\ <<ante>> \in Seq({ante})
      OBVIOUS
    <2> QED
      BY <2>1, ElementsAreASeq
  <1>3. st2 \in [1 .. l + 1 -> 1 .. m2] /\ (\A i \in 1 .. l : st2[i] = st[i]) /\ st2[l + 1] = s
    BY <1>1
  <1>4. ante \in Seq(1 .. l + 1) /\ \A j \in 1 .. Len(ante) : ante[j] \in 1 .. l
    <2>1. 1 .. l \subseteq 1 .. l + 1
      BY <1>1
    <2> QED
      BY <2>1
  <1> HIDE DEF st2
  <1> DEFINE its == <<item>>
             ans == <<ante>>
  <1>5. \A k \in 1 .. Len(its) :
           /\ SoundItem(its[k], keep)
           /\ ans[k] \in Seq(1 .. l + 1)
           /\ \A j \in 1 .. Len(ans[k]) : st2[ans[k][j]] < st2[l + k]
    <2> SUFFICES ASSUME NEW k \in 1 .. Len(its)
                 PROVE  /\ SoundItem(its[k], keep)
                        /\ ans[k] \in Seq(1 .. l + 1)
                        /\ \A j \in 1 .. Len(ans[k]) : st2[ans[k][j]] < st2[l + k]
      OBVIOUS
    <2>1. k = 1 /\ its[k] = item /\ ans[k] = ante
      BY <1>2
    <2>2. \A j \in 1 .. Len(ante) : st2[ante[j]] < st2[l + 1]
      BY <1>3, <1>4
    <2> HIDE DEF its, ans
    <2> QED
      BY <1>4, <2>1, <2>2
  <1>6. Paired(its, ans) /\ Len(its) = 1
    BY <1>2 DEF Paired
  <1>7. Q = AddItems(P, its, ans)
    BY DEF AddItem
  <1> HIDE DEF its, ans
  <1>8. Fits(P, keep, its, ans, st, st2, m2)
    BY <1>3, <1>5, <1>6 DEF Fits
  <1>9. /\ Staged(Q, keep, st2, m2) /\ Q.status = P.status /\ Q.out = P.out
        /\ Len(Q.items) = Len(P.items) + Len(its)
    BY <1>7, <1>8, Grow
  <1> QED
    BY <1>3, <1>6, <1>9 DEF GrownOne

\* An antecedent of a lower stage.
LEMMA AnteStaged ==
  ASSUME NEW P, NEW keep, NEW st, NEW m, Staged(P, keep, st, m),
         NEW i \in 1 .. Len(P.items), NEW a \in 1 .. Len(P.items), st[a] < st[i]
  PROVE  LET Q == AddAnte(P, i, a)
         IN  Staged(Q, keep, st, m) /\ Q.items = P.items /\ Q.out = P.out /\ Q.status = P.status
  <1> DEFINE Q == AddAnte(P, i, a)
             l == Len(P.items)
             new == Joined(P.ante[i], a)
  <1>1. IsPlan(P) /\ IsASeq(P.items) /\ IsASeq(P.ante) /\ Len(P.ante) = l /\ l \in Nat
    BY SeqFacts DEF Staged, Paired
  <1>2. IsPlan(Q) /\ Q.items = P.items /\ Q.out = P.out /\ Q.status = P.status
    BY <1>1, AddAnteFacts
  <1>4. /\ IsASeq(Q.ante) /\ Len(Q.ante) = l
        /\ Q.ante[i] = new /\ \A k \in 1 .. l : k # i => Q.ante[k] = P.ante[k]
    BY <1>1, AnteAdded
  <1> HIDE DEF Q
  <1>3. new \in Seq(1 .. l) /\ \A k \in 1 .. Len(new) : st[new[k]] < st[i]
    <2>1. P.ante[i] \in Seq(1 .. l) /\ \A k \in 1 .. Len(P.ante[i]) : st[P.ante[i][k]] < st[i]
      BY DEF Staged
    <2>2. /\ Append(P.ante[i], a) \in Seq(1 .. l) /\ Len(Append(P.ante[i], a)) = Len(P.ante[i]) + 1
          /\ \A k \in 1 .. Len(P.ante[i]) : Append(P.ante[i], a)[k] = P.ante[i][k]
          /\ Append(P.ante[i], a)[Len(P.ante[i]) + 1] = a
      BY <2>1, AppendFacts
    <2>3. Len(P.ante[i]) \in Nat
      BY <2>1
    <2>4. \A k \in 1 .. Len(Append(P.ante[i], a)) : st[Append(P.ante[i], a)[k]] < st[i]
      BY <2>1, <2>2, <2>3
    <2> QED
      BY <2>1, <2>2, <2>4 DEF Joined
  <1> HIDE DEF new
  <1>6. ASSUME NEW j \in 1 .. l
        PROVE  /\ SoundItem(Q.items[j], keep)
               /\ Q.ante[j] \in Seq(1 .. l)
               /\ \A k \in 1 .. Len(Q.ante[j]) : st[Q.ante[j][k]] < st[j]
    <2>1. CASE j = i
      <3>1. SoundItem(P.items[j], keep)
        BY DEF Staged
      <3> QED
        BY <1>2, <1>3, <1>4, <2>1, <3>1
    <2>2. CASE j # i
      <3>1. /\ SoundItem(P.items[j], keep) /\ P.ante[j] \in Seq(1 .. l)
            /\ \A k \in 1 .. Len(P.ante[j]) : st[P.ante[j][k]] < st[j]
        BY DEF Staged
      <3> QED
        BY <1>2, <1>4, <2>2, <3>1
    <2> QED
      BY <2>1, <2>2
  <1>7. Staged(Q, keep, st, m)
    <2>1. IsPlan(Q) /\ Paired(Q.items, Q.ante) /\ Len(Q.items) = l
      BY <1>1, <1>2, <1>4 DEF Paired
    <2>2. m \in Nat /\ st \in [1 .. l -> 1 .. m]
      BY DEF Staged
    <2> QED
      BY <1>6, <2>1, <2>2 DEF Staged
  <1> QED
    BY <1>2, <1>7 DEF Q

\* An item replaced by another one.
LEMMA ItemStaged ==
  ASSUME NEW P, NEW keep, NEW st, NEW m, Staged(P, keep, st, m),
         NEW i \in 1 .. Len(P.items), NEW item, SoundItem(item, keep)
  PROVE  LET Q == WithItem(P, i, item)
         IN  Staged(Q, keep, st, m) /\ Len(Q.items) = Len(P.items) /\ Q.out = P.out /\ Q.status = P.status
  <1> DEFINE Q == WithItem(P, i, item)
             l == Len(P.items)
  <1>1. IsPlan(P) /\ IsPlan(Q) /\ Q.ante = P.ante /\ Q.out = P.out /\ Q.status = P.status
    BY WithItemFacts DEF Staged
  <1>0. Q.items = [P.items EXCEPT ![i] = item]
    BY <1>1 DEF IsPlan, WithItem
  <1> HIDE DEF Q
  <1>2. l \in Nat /\ DOMAIN P.items = 1 .. l
    BY SeqFacts DEF Staged, Paired
  <1>3. /\ DOMAIN Q.items = 1 .. l /\ Q.items = [k \in 1 .. l |-> Q.items[k]]
        /\ Q.items[i] = item /\ \A k \in 1 .. l : k # i => Q.items[k] = P.items[k]
    BY <1>0, <1>2
  <1>4. IsASeq(Q.items) /\ Len(Q.items) = l
    BY <1>2, <1>3, FunctionIsASeq
  <1>5. \A k \in 1 .. l : SoundItem(Q.items[k], keep)
    BY <1>3 DEF Staged
  <1>6. Staged(Q, keep, st, m)
    <2>1. Paired(Q.items, Q.ante)
      BY <1>1, <1>4 DEF Staged, Paired
    <2> QED
      BY <1>1, <1>4, <1>5, <2>1 DEF Staged
  <1> QED
    BY <1>1, <1>4, <1>6 DEF Q

------------------------------------------------------------------------------
(* Items *)

\* A transpose_brick item sends nothing and writes its destination.
LEMMA TransposeSound ==
  ASSUME NEW keep, NEW kind, NEW rank, NEW len, NEW src, NEW srcOff, NEW srcStride,
         NEW dst, NEW dstOff, NEW dstStride, keep => dst[1] # "in"
  PROVE  SoundItem(TransposeBrick(kind, rank, len, src, srcOff, srcStride, dst, dstOff, dstStride), keep)
  <1> DEFINE to(c) == <<rank, dst, dstOff + InnerProduct(c, dstStride)>>
             from(c) == <<rank, src, srcOff + InnerProduct(c, srcStride)>>
             item == TransposeBrick(kind, rank, len, src, srcOff, srcStride, dst, dstOff, dstStride)
  <1>1. item.moves = {[from |-> from(c), to |-> to(c)] : c \in Box(len)} /\ item.dst = {} /\ item.msgs = {}
    BY DEF TransposeBrick
  <1>2. \A c : to(c)[2] = dst
    OBVIOUS
  <1> HIDE DEF item, to, from
  <1>3. Writes(item) = {m.to : m \in item.moves}
    BY <1>1 DEF Writes
  <1>4. \A m \in item.moves : m.to[2] = dst
    BY <1>1, <1>2
  <1>5. SoundItem(item, keep)
    BY <1>1, <1>3, <1>4 DEF SoundItem
  <1> QED
    BY <1>5 DEF item

\* What the operations of a communication copy to, and the ranks they are between.
SoundMoves(moves, ranks, keep) ==
  \A m \in moves : m.from[1] \in ranks /\ m.to[1] \in ranks /\ (keep => m.to[2][1] # "in")

\* A communication among ranks that execute it.
LEMMA CommSound ==
  ASSUME NEW keep, NEW name, NEW kind, NEW ranks, NEW moves, NEW dests, SoundMoves(moves, ranks, keep)
  PROVE  SoundItem(Comm(name, kind, ranks, moves, dests), keep)
  <1> DEFINE item == Comm(name, kind, ranks, moves, dests)
  <1>1. /\ item.moves = moves /\ item.dst = {} /\ item.on = ranks
        /\ item.msgs = {<<m.from[1], m.to[1]>> : m \in {x \in moves : x.from[1] # x.to[1]}}
    BY DEF Comm
  <1> HIDE DEF item
  <1>2. Writes(item) = {m.to : m \in moves}
    BY <1>1 DEF Writes
  <1>3. keep => \A w \in Writes(item) : w[2][1] # "in"
    BY <1>2 DEF SoundMoves
  <1>4. item.msgs \subseteq item.on \X item.on
    BY <1>1 DEF SoundMoves
  <1>5. SoundItem(item, keep)
    BY <1>3, <1>4 DEF SoundItem
  <1> QED
    BY <1>5 DEF item

\* A copy between two ranks.
LEMMA CopySound ==
  ASSUME NEW keep, NEW ranks, NEW srcRank \in ranks, NEW src, NEW srcOff, NEW dstRank \in ranks,
         NEW dst, NEW dstOff, NEW count, keep => dst[1] # "in"
  PROVE  SoundMoves(CopyMoves(srcRank, src, srcOff, dstRank, dst, dstOff, count), ranks, keep)
  BY DEF SoundMoves, CopyMoves

\* A transform sends nothing and writes its output.
LEMMA FFTSound ==
  ASSUME NEW keep, NEW rank, NEW dims, NEW src, NEW dst, NEW isize, NEW osize, NEW dest,
         keep => \A x \in dst : x.cell[2][1] # "in"
  PROVE  SoundItem(FFTItem(rank, dims, src, dst, isize, osize, dest), keep)
  <1> DEFINE item == FFTItem(rank, dims, src, dst, isize, osize, dest)
  <1>1. item.moves = {} /\ item.dst = dst /\ item.msgs = {}
    BY DEF FFTItem
  <1> HIDE DEF item
  <1>2. Writes(item) = {x.cell : x \in dst}
    BY <1>1 DEF Writes
  <1>3. SoundItem(item, keep)
    BY <1>1, <1>2 DEF SoundItem
  <1> QED
    BY <1>3 DEF item

LEMMA CellsOfArray ==
  ASSUME NEW rank, NEW buf, NEW lower, NEW len, NEW stride,
         NEW x \in ArrayCells(rank, buf, lower, len, stride)
  PROVE  x.cell[2] = buf
  BY DEF ArrayCells

LEMMA CellsOfBrick ==
  ASSUME NEW b, NEW buf, NEW x \in BrickCells(b, buf)
  PROVE  x.cell[2] = buf
  BY CellsOfArray DEF BrickCells

------------------------------------------------------------------------------
(* Chains of items *)

\* A plan that is sound, whose outputs are n of its items.
Ready(P, keep, n) ==
  SoundPlan(P, keep) /\ P.out \in Seq(1 .. Len(P.items)) /\ Len(P.out) = n

LEMMA SoundPlanFacts ==
  ASSUME NEW P, NEW keep, SoundPlan(P, keep)
  PROVE  IsPlan(P) /\ Paired(P.items, P.ante) /\ Len(P.items) \in Nat /\ DOMAIN P.items = 1 .. Len(P.items)
  BY SeqFacts DEF SoundPlan, Staged, Paired

LEMMA SameSound ==
  ASSUME NEW P, NEW Q, NEW keep, SoundPlan(P, keep), IsPlan(Q), Q.items = P.items, Q.ante = P.ante
  PROVE  SoundPlan(Q, keep)
  BY SameStaged DEF SoundPlan

\* Each item but the first of those added after item l waits for the one before it.
OneBefore(ante, l, n) == \A k \in 2 .. n : ante[k] = <<l + k - 1>>

Chained(S, keep, items, ante) ==
  /\ Paired(items, ante) /\ Len(items) > 0
  /\ \A k \in 1 .. Len(items) : SoundItem(items[k], keep)
  /\ ante[1] \in Seq(1 .. Len(S.items))
  /\ OneBefore(ante, Len(S.items), Len(items))

\* Items of which each waits for the one before it get a stage each.
LEMMA ChainFits ==
  ASSUME NEW S, NEW keep, NEW st, NEW m, Staged(S, keep, st, m),
         NEW items, NEW ante, Chained(S, keep, items, ante)
  PROVE  \E st2, m2 : Fits(S, keep, items, ante, st, st2, m2)
  <1> DEFINE l == Len(S.items)
             n == Len(items)
             st2 == [i \in 1 .. l + n |-> IF i <= l THEN st[i] ELSE m + (i - l)]
  <1>1. l \in Nat /\ m \in Nat /\ st \in [1 .. l -> 1 .. m] /\ n \in Nat
    BY SeqFacts DEF Staged, Chained, Paired
  <1> HIDE DEF l, n
  <1>2. /\ st2 \in [1 .. l + n -> 1 .. m + n] /\ m + n \in Nat
        /\ \A i \in 1 .. l : st2[i] = st[i]
        /\ \A i \in 1 .. n : st2[l + i] = m + i
    BY <1>1
  <1> HIDE DEF st2
  <1>3. ASSUME NEW k \in 1 .. n
        PROVE  /\ ante[k] \in Seq(1 .. l + n)
               /\ \A j \in 1 .. Len(ante[k]) : st2[ante[k][j]] < st2[l + k]
    <2>1. CASE k = 1
      <3>1. ante[1] \in Seq(1 .. l) /\ 1 .. l \subseteq 1 .. l + n
        BY <1>1 DEF Chained, l
      <3>2. ante[1] \in Seq(1 .. l + n) /\ \A j \in 1 .. Len(ante[1]) : ante[1][j] \in 1 .. l
        BY <3>1, WiderSeq, ElementIn
      <3>3. \A i \in 1 .. l : st2[i] < st2[l + k]
        <4>1. st2[l + k] = m + k
          BY <1>2
        <4>2. \A i \in 1 .. l : st2[i] \in 1 .. m
          BY <1>1, <1>2
        <4> QED
          BY <1>1, <4>1, <4>2
      <3> QED
        BY <2>1, <3>2, <3>3
    <2>2. CASE k # 1
      <3>1. ante[k] = <<l + k - 1>> /\ l + k - 1 \in 1 .. l + n
        BY <1>1, <2>2 DEF Chained, OneBefore, l, n
      <3>2. k - 1 \in 1 .. n /\ l + k - 1 = l + (k - 1)
        BY <1>1, <2>2
      <3>3. st2[l + k - 1] < st2[l + k]
        <4>1. st2[l + k] = m + k /\ st2[l + (k - 1)] = m + (k - 1)
          BY <1>2, <3>2
        <4> QED
          BY <1>1, <3>2, <4>1
      <3> QED
        BY <3>1, <3>3
    <2> QED
      BY <2>1, <2>2
  <1>4. Fits(S, keep, items, ante, st, st2, m + n)
    BY <1>2, <1>3 DEF Fits, Chained, l, n
  <1> QED
    BY <1>4

\* So they can be added to a sound plan.
LEMMA ChainSound ==
  ASSUME NEW S, NEW keep, NEW n \in Nat, Ready(S, keep, n),
         NEW items, NEW ante, Chained(S, keep, items, ante),
         NEW Q, Q = LastIsOutput(AddItems(S, items, ante))
  PROVE  Ready(Q, keep, n + 1) /\ Q.status = S.status /\ Len(Q.items) = Len(S.items) + Len(items)
  <1> DEFINE R == AddItems(S, items, ante)
             l == Len(S.items) + Len(items)
  <1>1. PICK st, m : Staged(S, keep, st, m)
    BY DEF Ready, SoundPlan
  <1>2. PICK st2, m2 : Fits(S, keep, items, ante, st, st2, m2)
    BY <1>1, ChainFits
  <1>3. Staged(R, keep, st2, m2) /\ R.status = S.status /\ R.out = S.out /\ Len(R.items) = l
    BY <1>1, <1>2, Grow
  <1>4. IsPlan(R)
    BY <1>3 DEF Staged
  <1> DEFINE o == Append(R.out, Len(R.items))
  <1>5. Q = WithOutputs(R, o)
    BY DEF LastIsOutput, LastItem
  <1> HIDE DEF R, o
  <1>6. /\ IsPlan(Q) /\ Q.items = R.items /\ Q.ante = R.ante /\ Q.status = R.status
        /\ Q.out = o
    BY <1>4, <1>5, WithOutputsFacts
  <1>7. Staged(Q, keep, st2, m2)
    BY <1>3, <1>6, SameStaged
  <1>8. Len(S.items) \in Nat /\ Len(items) \in Nat /\ Len(items) > 0
    BY SoundPlanFacts, SeqFacts DEF Ready, Chained, Paired
  <1>9. l \in 1 .. l /\ 1 .. Len(S.items) \subseteq 1 .. l
    BY <1>8
  <1> HIDE DEF l
  <1>10. o \in Seq(1 .. l) /\ Len(o) = n + 1
    <2>1. S.out \in Seq(1 .. Len(S.items)) /\ Len(S.out) = n
      BY DEF Ready
    <2>2. o = Append(S.out, l)
      BY <1>3 DEF o
    <2>3. S.out \in Seq(1 .. l)
      BY <1>9, <2>1, WiderSeq
    <2>4. o \in Seq(1 .. l) /\ Len(o) = Len(S.out) + 1
      BY <1>9, <2>2, <2>3
    <2> QED
      BY <2>1, <2>4
  <1>11. Len(Q.items) = l
    BY <1>3, <1>6
  <1>12. Ready(Q, keep, n + 1)
    BY <1>6, <1>7, <1>10, <1>11 DEF Ready, SoundPlan
  <1> QED
    BY <1>3, <1>6, <1>11, <1>12 DEF l

------------------------------------------------------------------------------
(* C2CField *)

\* Buffers for the bricks of a field that are none of the user's input.
Spares(bufs, field, keep) == keep => \A i \in 1 .. Len(field) : bufs[i][1] # "in"

LEMMA NoOutputsReady ==
  ASSUME NEW P, NEW keep, SoundPlan(P, keep), NEW Q, Q = NoOutputs(P)
  PROVE  Ready(Q, keep, 0) /\ Q.status = P.status /\ Q.items = P.items
  <1>1. IsPlan(P) /\ Q = WithOutputs(P, <<>>)
    BY SoundPlanFacts DEF NoOutputs
  <1>2. IsPlan(Q) /\ Q.items = P.items /\ Q.ante = P.ante /\ Q.out = <<>> /\ Q.status = P.status
    BY <1>1, WithOutputsFacts
  <1>3. SoundPlan(Q, keep)
    BY <1>2, SameSound
  <1> QED
    BY <1>2, <1>3 DEF Ready

\* The antecedents that write to a buffer are antecedents.
LEMMA WritersIn ==
  ASSUME NEW P, NEW n \in Nat, NEW ante \in Seq(1 .. n), NEW buf
  PROVE  Writers(P, ante, buf) \in Seq(1 .. n)
  BY PickIsSeq DEF Writers

LEMMA InTurnFacts ==
  ASSUME NEW P, NEW n \in Nat, NEW ante, NEW q, q = InTurn(P, n, ante)
  PROVE  /\ IsASeq(q) /\ Len(q) = n /\ (n > 0 => q[1] = ante)
         /\ OneBefore(q, Len(P.items), n)
  <1>1. /\ DOMAIN q = 1 .. n /\ q = [k \in 1 .. n |-> q[k]] /\ (n > 0 => q[1] = ante)
        /\ \A k \in 2 .. n : q[k] = <<Len(P.items) + k - 1>>
    BY DEF InTurn, LastItem
  <1> QED
    BY <1>1, FunctionIsASeq DEF OneBefore

\* The transforms of a brick write its output buffer.
LEMMA BrickFFTsSound ==
  ASSUME NEW keep, NEW dims, IsASeq(dims), NEW b, NEW src, NEW dst, keep => dst[1] # "in",
         NEW q, q = BrickFFTs(b, dims, src, dst)
  PROVE  IsASeq(q) /\ Len(q) = Len(dims) /\ \A k \in 1 .. Len(dims) : SoundItem(q[k], keep)
  <1> DEFINE n == Len(dims)
             fft(k) == FFTItem(b.rank, {dims[k]}, BrickCells(b, IF k = 1 THEN src ELSE dst),
                               BrickCells(b, dst), 2, 2, dst)
  <1>1. n \in Nat /\ DOMAIN dims = 1 .. n
    BY SeqFacts
  <1>2. \A k \in 1 .. n : SoundItem(fft(k), keep)
    BY FFTSound, CellsOfBrick
  <1> HIDE DEF fft, n
  <1>3. q = [k \in 1 .. n |-> fft(k)]
    BY <1>1 DEF BrickFFTs, fft
  <1>4. DOMAIN q = 1 .. n /\ q = [k \in 1 .. n |-> q[k]] /\ \A k \in 1 .. n : q[k] = fft(k)
    BY <1>3
  <1>5. IsASeq(q) /\ Len(q) = n
    BY <1>1, <1>4, FunctionIsASeq
  <1> QED
    BY <1>2, <1>4, <1>5 DEF n

\* C2CField adds a chain of items for every brick, and the last of each chain
\* are its outputs.
LEMMA C2CFieldSound ==
  ASSUME NEW P, NEW keep, SoundPlan(P, keep), NEW field, IsASeq(field), NEW dims, IsASeq(dims), Len(dims) > 0,
         NEW input, NEW output, Spares(output, field, keep), NEW ante \in Seq(1 .. Len(P.items)),
         NEW Q, Q = C2CField(P, field, dims, input, output, ante)
  PROVE  Ready(Q, keep, Len(field)) /\ Q.status = P.status
  <1> DEFINE N == Len(field)
             start == NoOutputs(P)
             w(i) == Writers(P, ante, input[i])
             items(i) == BrickFFTs(field[i], dims, input[i], output[i])
             waits(S, i) == InTurn(S, Len(dims), w(i))
             step(S, i) == LastIsOutput(AddItems(S, items(i), waits(S, i)))
             Rec(fn, top) == fn = [k \in 0 .. top |-> IF k = 0 THEN start ELSE step(fn[k - 1], k)]
             Exist == {top \in Nat : \E fn : Rec(fn, top)}
             f == CHOOSE fn : Rec(fn, N)
  <1>N. N \in Nat
    BY SeqFacts
  <1> HIDE DEF step, start, N
  <1>r1. 0 \in Exist
    <2>1. Rec([k \in 0 .. 0 |-> start], 0)
      OBVIOUS
    <2> QED
      BY <2>1
  <1>r2. ASSUME NEW m \in Nat, m \in Exist
         PROVE  m + 1 \in Exist
    <2>1. PICK fn : Rec(fn, m)
      BY <1>r2
    <2> DEFINE h == [k \in 0 .. m + 1 |-> IF k <= m THEN fn[k] ELSE step(fn[m], m + 1)]
    <2>2. Rec(h, m + 1)
      BY <2>1
    <2> HIDE DEF h
    <2>3. \E x : Rec(x, m + 1)
      BY <2>2
    <2> HIDE DEF Rec
    <2> QED
      BY <2>3
  <1> HIDE DEF Exist
  <1>r3. \A top \in Nat : top \in Exist
    BY <1>r1, <1>r2, SetInduction
  <1>r4. \E fn : Rec(fn, N)
    BY <1>N, <1>r3 DEF Exist
  <1> HIDE DEF Rec
  <1>r5. Rec(f, N)
    BY <1>r4
  <1> HIDE DEF f
  <1>r. f[0] = start /\ \A k \in 1 .. N : f[k] = step(f[k - 1], k)
    <2>1. f = [k \in 0 .. N |-> IF k = 0 THEN start ELSE step(f[k - 1], k)]
      BY <1>r5 DEF Rec
    <2>2. f[0] = start
      BY <1>N, <2>1
    <2>3. ASSUME NEW k \in 1 .. N
          PROVE  f[k] = step(f[k - 1], k)
      BY <1>N, <2>1
    <2> QED
      BY <2>2, <2>3
  <1>1. Q = f[N]
    BY DEF C2CField, f, Rec, start, step, N
  <1>n. Len(P.items) \in Nat /\ Len(dims) \in Nat
    BY SoundPlanFacts, SeqFacts
  <1> DEFINE Right(k) == /\ Ready(f[k], keep, k) /\ f[k].status = P.status
                         /\ Len(f[k].items) >= Len(P.items)
             T == {k \in 0 .. N : Right(k)}
  <1>2. 0 \in T
    <2>1. f[0] = NoOutputs(P)
      BY <1>r DEF start
    <2>2. Ready(f[0], keep, 0) /\ f[0].status = P.status /\ f[0].items = P.items
      BY <2>1, NoOutputsReady
    <2>3. Right(0)
      BY <1>n, <2>2
    <2> HIDE DEF Right
    <2> QED
      BY <1>N, <2>3
  <1>3. ASSUME NEW k \in 0 .. N, k < N, k \in T
        PROVE  k + 1 \in T
    <2> DEFINE S == f[k]
               R == f[k + 1]
               its == items(k + 1)
               ans == waits(S, k + 1)
               v == w(k + 1)
    <2>1. Right(k) /\ k + 1 \in 1 .. N /\ (k + 1) - 1 = k /\ k \in Nat
      BY <1>3, <1>N
    <2>2. Ready(S, keep, k) /\ S.status = P.status /\ Len(S.items) >= Len(P.items) /\ Len(S.items) \in Nat
      BY <2>1, SoundPlanFacts DEF Ready
    <2>3. R = LastIsOutput(AddItems(S, its, ans))
      BY <1>r, <2>1 DEF step
    <2>4. v \in Seq(1 .. Len(S.items))
      <3>1. v \in Seq(1 .. Len(P.items))
        BY <1>n, WritersIn
      <3>2. 1 .. Len(P.items) \subseteq 1 .. Len(S.items)
        BY <1>n, <2>2
      <3> HIDE DEF v
      <3> QED
        BY <3>1, <3>2, WiderSeq
    <2>5. keep => output[k + 1][1] # "in"
      BY <2>1 DEF Spares, N
    <2>6. IsASeq(its) /\ Len(its) = Len(dims) /\ \A j \in 1 .. Len(dims) : SoundItem(its[j], keep)
      BY <2>5, BrickFFTsSound
    <2>7. /\ IsASeq(ans) /\ Len(ans) = Len(dims) /\ ans[1] = v
          /\ OneBefore(ans, Len(S.items), Len(dims))
      <3>1. ans = InTurn(S, Len(dims), v)
        OBVIOUS
      <3> HIDE DEF ans, S, v
      <3> QED
        BY <1>n, <3>1, InTurnFacts
    <2> HIDE DEF S, R, its, ans, v
    <2>8. Chained(S, keep, its, ans)
      BY <2>4, <2>6, <2>7 DEF Chained, Paired
    <2>9. Ready(R, keep, k + 1) /\ R.status = S.status /\ Len(R.items) = Len(S.items) + Len(its)
      BY <2>1, <2>2, <2>3, <2>8, ChainSound
    <2>10. R.status = P.status /\ Len(R.items) >= Len(P.items)
      BY <1>n, <2>2, <2>6, <2>9
    <2>11. Right(k + 1)
      BY <2>9, <2>10 DEF R
    <2> HIDE DEF Right
    <2> QED
      BY <2>1, <2>11
  <1> HIDE DEF T
  <1>4. \A k \in 0 .. N : k \in T
    BY <1>N, <1>2, <1>3, UpToInduction
  <1>5. Right(N)
    BY <1>N, <1>4 DEF T
  <1> QED
    BY <1>1, <1>5 DEF N

------------------------------------------------------------------------------
(* GlobalTranspose *)

LEMMA RowIn ==
  ASSUME NEW D, NEW E, NEW i \in D, NEW js \in Seq(E), NEW q, q = [k \in DOMAIN js |-> <<i, js[k]>>]
  PROVE  q \in Seq(D \X E)
  <1>1. DOMAIN js = 1 .. Len(js) /\ Len(js) \in Nat /\ \A k \in 1 .. Len(js) : <<i, js[k]>> \in D \X E
    BY ElementIn
  <1> QED
    BY <1>1

\* The pairs are pairs of positions in the two fields.
LEMMA SharingPairsIn ==
  ASSUME NEW inF, IsASeq(inF), NEW outF, IsASeq(outF)
  PROVE  SharingPairs(inF, outF) \in Seq((1 .. Len(inF)) \X (1 .. Len(outF)))
  <1> DEFINE N == Len(inF)
             start == <<>>
             partners(i) == InOrder({j \in DOMAIN outF : ~ Empty(Intersect(inF[i], outF[j]))}, Len(outF))
             row(i, js) == [k \in DOMAIN js |-> <<i, js[k]>>]
             step(s, i) == s \o row(i, partners(i))
             Rec(fn, top) == fn = [k \in 0 .. top |-> IF k = 0 THEN start ELSE step(fn[k - 1], k)]
             Exist == {top \in Nat : \E fn : Rec(fn, top)}
             f == CHOOSE fn : Rec(fn, N)
  <1>N. N \in Nat
    BY SeqFacts
  <1> HIDE DEF step, start, N
  <1>r1. 0 \in Exist
    <2>1. Rec([k \in 0 .. 0 |-> start], 0)
      OBVIOUS
    <2> QED
      BY <2>1
  <1>r2. ASSUME NEW m \in Nat, m \in Exist
         PROVE  m + 1 \in Exist
    <2>1. PICK fn : Rec(fn, m)
      BY <1>r2
    <2> DEFINE h == [k \in 0 .. m + 1 |-> IF k <= m THEN fn[k] ELSE step(fn[m], m + 1)]
    <2>2. Rec(h, m + 1)
      BY <2>1
    <2> HIDE DEF h
    <2>3. \E x : Rec(x, m + 1)
      BY <2>2
    <2> HIDE DEF Rec
    <2> QED
      BY <2>3
  <1> HIDE DEF Exist
  <1>r3. \A top \in Nat : top \in Exist
    BY <1>r1, <1>r2, SetInduction
  <1>r4. \E fn : Rec(fn, N)
    BY <1>N, <1>r3 DEF Exist
  <1> HIDE DEF Rec
  <1>r5. Rec(f, N)
    BY <1>r4
  <1> HIDE DEF f
  <1>r. f[0] = start /\ \A k \in 1 .. N : f[k] = step(f[k - 1], k)
    <2>1. f = [k \in 0 .. N |-> IF k = 0 THEN start ELSE step(f[k - 1], k)]
      BY <1>r5 DEF Rec
    <2>2. f[0] = start
      BY <1>N, <2>1
    <2>3. ASSUME NEW k \in 1 .. N
          PROVE  f[k] = step(f[k - 1], k)
      BY <1>N, <2>1
    <2> QED
      BY <2>2, <2>3
  <1>1. SharingPairs(inF, outF) = f[N]
    BY DEF SharingPairs, f, Rec, start, step, N
  <1> DEFINE E == 1 .. Len(outF)
             D == 1 .. N
             T == {k \in 0 .. N : f[k] \in Seq(D \X E)}
  <1>2. 0 \in T
    <2>1. f[0] = <<>> /\ <<>> \in Seq(D \X E)
      BY <1>r DEF start
    <2>2. f[0] \in Seq(D \X E)
      BY <2>1
    <2> HIDE DEF D, E
    <2> QED
      BY <1>N, <2>2
  <1>3. ASSUME NEW k \in 0 .. N, k < N, k \in T
        PROVE  k + 1 \in T
    <2> DEFINE js == partners(k + 1)
               q == row(k + 1, js)
    <2>1. f[k] \in Seq(D \X E) /\ k + 1 \in 1 .. N /\ (k + 1) - 1 = k
      BY <1>3, <1>N
    <2>2. f[k + 1] = f[k] \o q
      BY <1>r, <2>1 DEF step
    <2>3. Len(outF) \in Nat
      BY SeqFacts
    <2>4. js \in Seq(E)
      <3> DEFINE K == {j \in DOMAIN outF : ~ Empty(Intersect(inF[k + 1], outF[j]))}
      <3>1. InOrder(K, Len(outF)) \in Seq(K \cap (1 .. Len(outF)))
        BY <2>3, InOrderIsSeq
      <3>2. js = InOrder(K, Len(outF)) /\ K \cap (1 .. Len(outF)) \subseteq E
        OBVIOUS
      <3> HIDE DEF js, K, E
      <3> QED
        BY <3>1, <3>2, WiderSeq
    <2>5. q \in Seq(D \X E)
      <3>1. q = [j \in DOMAIN js |-> <<k + 1, js[j]>>]
        OBVIOUS
      <3> HIDE DEF q, js, E
      <3> QED
        BY <2>1, <2>4, <3>1, RowIn
    <2> HIDE DEF q, D, E
    <2>6. f[k + 1] \in Seq(D \X E)
      BY <2>1, <2>2, <2>5
    <2> QED
      BY <1>N, <1>3, <2>6
  <1> HIDE DEF T
  <1>4. \A k \in 0 .. N : k \in T
    BY <1>N, <1>2, <1>3, UpToInduction
  <1> QED
    BY <1>N, <1>1, <1>4 DEF T, N

\* A temp buffer is not the input.
LEMMA TempSpares ==
  ASSUME NEW b
  PROVE  Temp(b)[1] # "in"
  BY DEF Temp

\* The pack, the send and the unpack of a pair of bricks.
LEMMA P2PItemsSound ==
  ASSUME NEW keep, NEW inF, NEW outF, NEW input, NEW output, NEW p, NEW box, NEW from, NEW to,
         from[1] # "in", to[1] # "in", keep => output[p[2]][1] # "in",
         NEW q, q = P2PItems(inF, outF, input, output, p, box, from, to)
  PROVE  IsASeq(q) /\ Len(q) = 3 /\ \A k \in 1 .. 3 : SoundItem(q[k], keep)
  <1> DEFINE x == PackShared(inF, box, p[1], input, from, 0)
             moves == CopyMoves(inF[p[1]].rank, from, 0, outF[p[2]].rank, to, 0, CountElems(box))
             ranks == {inF[p[1]].rank, outF[p[2]].rank}
             y == Comm("p2p", "complex", ranks, moves, {to})
             z == UnpackShared(outF, box, p[2], output, to, 0)
  <1>1. SoundItem(x, keep)
    BY TransposeSound DEF PackShared
  <1>2. SoundItem(y, keep)
    <2>1. SoundMoves(moves, ranks, keep)
      BY CopySound
    <2> HIDE DEF moves, ranks
    <2> QED
      BY <2>1, CommSound
  <1>3. SoundItem(z, keep)
    BY TransposeSound DEF UnpackShared
  <1>4. q = <<x, y, z>>
    BY DEF P2PItems
  <1> HIDE DEF x, y, z
  <1>5. q \in Seq({x, y, z}) /\ Len(q) = 3 /\ q[1] = x /\ q[2] = y /\ q[3] = z
    BY <1>4
  <1> QED
    BY <1>1, <1>2, <1>3, <1>5, ElementsAreASeq

LEMMA SameReady ==
  ASSUME NEW P, NEW Q, NEW keep, NEW n, Ready(P, keep, n), SamePlan(P, Q)
  PROVE  Ready(Q, keep, n) /\ Q.status = P.status /\ Q.items = P.items /\ IsPlan(Q)
  <1>1. IsPlan(Q) /\ Q.items = P.items /\ Q.ante = P.ante /\ Q.out = P.out /\ Q.status = P.status
    BY DEF SamePlan
  <1>2. SoundPlan(P, keep)
    BY DEF Ready
  <1>3. SoundPlan(Q, keep)
    BY <1>1, <1>2, SameSound
  <1> QED
    BY <1>1, <1>3 DEF Ready

\* GlobalTransposeP2P adds a chain of three items for every pair.
LEMMA P2PSound ==
  ASSUME NEW P, NEW keep, SoundPlan(P, keep), NEW inF, IsASeq(inF), NEW outF, IsASeq(outF),
         NEW input, NEW output, Spares(output, outF, keep),
         NEW ante \in Seq(1 .. Len(P.items)), Len(ante) = Len(inF),
         NEW Q, Q = GlobalTransposeP2P(P, inF, outF, input, output, ante)
  PROVE  (\E n \in Nat : Ready(Q, keep, n)) /\ Q.status = P.status
  <1> DEFINE pairs == SharingPairs(inF, outF)
  <1>0. IsASeq(pairs) /\ \A k \in 1 .. Len(pairs) : pairs[k][1] \in 1 .. Len(inF) /\ pairs[k][2] \in 1 .. Len(outF)
    <2>1. pairs \in Seq((1 .. Len(inF)) \X (1 .. Len(outF)))
      BY SharingPairsIn
    <2> HIDE DEF pairs
    <2>2. \A k \in 1 .. Len(pairs) : pairs[k] \in (1 .. Len(inF)) \X (1 .. Len(outF))
      BY <2>1, ElementIn
    <2> QED
      BY <2>1, <2>2, ElementsAreASeq
  <1> HIDE DEF pairs
  <1> DEFINE N == Len(pairs)
             start == NoOutputs(P)
             its(L, p, box) == P2PItems(inF, outF, input, output, p, box,
                                        Temp(Leased(L, 2)[1]), Temp(Leased(L, 2)[2]))
             ans(L, p) == InTurn(L, 3, <<ante[p[1]]>>)
             leased(L, p, box) == LastIsOutput(AddItems(L, its(L, p, box), ans(L, p)))
             lease(S, p, box) == Leases(S, <<<<Loc(inF[p[1]]), CountElems(box) * 2>>,
                                             <<Loc(outF[p[2]]), CountElems(box) * 2>>>>)
             step(S, k) == leased(lease(S, pairs[k], Shared(inF, outF, pairs[k])), pairs[k],
                                  Shared(inF, outF, pairs[k]))
             Rec(fn, top) == fn = [k \in 0 .. top |-> IF k = 0 THEN start ELSE step(fn[k - 1], k)]
             Exist == {top \in Nat : \E fn : Rec(fn, top)}
             f == CHOOSE fn : Rec(fn, N)
  <1>N. N \in Nat
    BY <1>0, SeqFacts
  <1> HIDE DEF step, start, N
  <1>r1. 0 \in Exist
    <2>1. Rec([k \in 0 .. 0 |-> start], 0)
      OBVIOUS
    <2> QED
      BY <2>1
  <1>r2. ASSUME NEW m \in Nat, m \in Exist
         PROVE  m + 1 \in Exist
    <2>1. PICK fn : Rec(fn, m)
      BY <1>r2
    <2> DEFINE h == [k \in 0 .. m + 1 |-> IF k <= m THEN fn[k] ELSE step(fn[m], m + 1)]
    <2>2. Rec(h, m + 1)
      BY <2>1
    <2> HIDE DEF h
    <2>3. \E x : Rec(x, m + 1)
      BY <2>2
    <2> HIDE DEF Rec
    <2> QED
      BY <2>3
  <1> HIDE DEF Exist
  <1>r3. \A top \in Nat : top \in Exist
    BY <1>r1, <1>r2, SetInduction
  <1>r4. \E fn : Rec(fn, N)
    BY <1>N, <1>r3 DEF Exist
  <1> HIDE DEF Rec
  <1>r5. Rec(f, N)
    BY <1>r4
  <1> HIDE DEF f
  <1>r. f[0] = start /\ \A k \in 1 .. N : f[k] = step(f[k - 1], k)
    <2>1. f = [k \in 0 .. N |-> IF k = 0 THEN start ELSE step(f[k - 1], k)]
      BY <1>r5 DEF Rec
    <2>2. f[0] = start
      BY <1>N, <2>1
    <2>3. ASSUME NEW k \in 1 .. N
          PROVE  f[k] = step(f[k - 1], k)
      BY <1>N, <2>1
    <2> QED
      BY <2>2, <2>3
  <1>1. Q = ReturnAfter(f[N], Len(Held(P)))
    BY DEF GlobalTransposeP2P, f, Rec, start, step, N, pairs
  <1>n. Len(P.items) \in Nat
    BY SoundPlanFacts
  <1> DEFINE Right(k) == /\ Ready(f[k], keep, k) /\ f[k].status = P.status
                         /\ Len(f[k].items) >= Len(P.items)
             T == {k \in 0 .. N : Right(k)}
  <1>2. 0 \in T
    <2>1. f[0] = NoOutputs(P)
      BY <1>r DEF start
    <2>2. Ready(f[0], keep, 0) /\ f[0].status = P.status /\ f[0].items = P.items
      BY <2>1, NoOutputsReady
    <2>3. Right(0)
      BY <1>n, <2>2
    <2> HIDE DEF Right
    <2> QED
      BY <1>N, <2>3
  <1>3. ASSUME NEW k \in 0 .. N, k < N, k \in T
        PROVE  k + 1 \in T
    <2> DEFINE S == f[k]
               R == f[k + 1]
               p == pairs[k + 1]
               box == Shared(inF, outF, p)
               L == lease(S, p, box)
               q == its(L, p, box)
               v == <<ante[p[1]]>>
               a == ans(L, p)
    <2>1. Right(k) /\ k + 1 \in 1 .. N /\ (k + 1) - 1 = k /\ k \in Nat
      BY <1>3, <1>N
    <2>2. Ready(S, keep, k) /\ S.status = P.status /\ Len(S.items) >= Len(P.items) /\ Len(S.items) \in Nat
      BY <2>1, SoundPlanFacts DEF Ready
    <2>3. R = LastIsOutput(AddItems(L, q, a)) /\ a = InTurn(L, 3, v)
      BY <1>r, <2>1 DEF step
    <2> HIDE DEF Right
    <2>4. Ready(L, keep, k) /\ L.status = P.status /\ Len(L.items) >= Len(P.items) /\ Len(L.items) \in Nat
      <3>1. IsPlan(S)
        BY <2>2, SoundPlanFacts DEF Ready
      <3> HIDE DEF S
      <3>2. SamePlan(S, L)
        BY <3>1, LeasesSame
      <3> HIDE DEF L
      <3>3. Ready(L, keep, k) /\ L.status = S.status /\ L.items = S.items
        BY <2>2, <3>2, SameReady
      <3> QED
        BY <2>2, <3>3
    <2>5. p[1] \in 1 .. Len(inF) /\ p[2] \in 1 .. Len(outF)
      BY <1>0, <2>1 DEF N
    <2>6. IsASeq(q) /\ Len(q) = 3 /\ \A j \in 1 .. 3 : SoundItem(q[j], keep)
      <3> DEFINE from == Temp(Leased(L, 2)[1])
                 to == Temp(Leased(L, 2)[2])
      <3>1. from[1] # "in" /\ to[1] # "in"
        BY TempSpares
      <3>2. keep => output[p[2]][1] # "in"
        BY <2>5 DEF Spares
      <3>3. q = P2PItems(inF, outF, input, output, p, box, from, to)
        OBVIOUS
      <3> HIDE DEF from, to, q, p, box
      <3> QED
        BY <3>1, <3>2, <3>3, P2PItemsSound
    <2>7. v \in Seq(1 .. Len(L.items))
      <3>1. ante[p[1]] \in 1 .. Len(P.items)
        BY <2>5, ElementIn
      <3> HIDE DEF p, L
      <3>2. ante[p[1]] \in 1 .. Len(L.items)
        BY <1>n, <2>4, <3>1
      <3> QED
        BY <3>2
    <2> HIDE DEF S, R, L, q, a, v, p, box
    <2>8. IsASeq(a) /\ Len(a) = 3 /\ a[1] = v /\ OneBefore(a, Len(L.items), 3)
      <3> DEFINE n == 3
      <3>1. n \in Nat /\ n > 0 /\ a = InTurn(L, n, v)
        BY <2>3
      <3> HIDE DEF n
      <3>2. IsASeq(a) /\ Len(a) = n /\ a[1] = v /\ OneBefore(a, Len(L.items), n)
        BY <3>1, InTurnFacts
      <3> QED
        BY <3>2 DEF n
    <2>9. Chained(L, keep, q, a)
      BY <2>6, <2>7, <2>8 DEF Chained, Paired
    <2>10. Ready(R, keep, k + 1) /\ R.status = L.status /\ Len(R.items) = Len(L.items) + Len(q)
      BY <2>1, <2>3, <2>4, <2>9, ChainSound
    <2>11. R.status = P.status /\ Len(R.items) >= Len(P.items)
      BY <1>n, <2>4, <2>6, <2>10
    <2>12. Right(k + 1)
      BY <2>10, <2>11 DEF R, Right
    <2> QED
      BY <2>1, <2>12
  <1> HIDE DEF T
  <1>4. \A k \in 0 .. N : k \in T
    BY <1>N, <1>2, <1>3, UpToInduction
  <1>5. Right(N)
    BY <1>N, <1>4 DEF T
  <1>6. IsPlan(f[N])
    BY <1>5, SoundPlanFacts DEF Ready
  <1> HIDE DEF f, lease, its, ans
  <1>7. SamePlan(f[N], Q)
    BY <1>1, <1>6, LeasesSame
  <1>8. Ready(Q, keep, N) /\ Q.status = P.status
    BY <1>5, <1>7, SameReady
  <1> QED
    BY <1>N, <1>8

\* The bricks of a field are on the ranks of the communicator, and the
\* buffers of the ranks are none of the user's input.
OnRanks(field, nranks) == \A i \in 1 .. Len(field) : field[i].rank \in 0 .. nranks - 1

SpareBufs(bufs, nranks) == \A r \in 0 .. nranks - 1 : bufs[r][1] # "in"

Appended(q, s, x) ==
  /\ IsASeq(q) /\ Len(q) = Len(s) + 1 /\ q[Len(s) + 1] = x
  /\ \A i \in 1 .. Len(s) : q[i] = s[i]

LEMMA AppendIsASeq ==
  ASSUME NEW s, IsASeq(s), NEW x, NEW q, q = Append(s, x)
  PROVE  Appended(q, s, x)
  <1>1. PICK S : s \in Seq(S)
    BY DEF IsASeq
  <1>2. q \in Seq(S \cup {x})
    BY <1>1
  <1> QED
    BY <1>1, <1>2 DEF IsASeq, Appended

\* The stages of what an all-to-all of n pairs adds after item l of stage m or
\* less: packing, the communication, unpacking.
A2AStage(m, n, k) == IF k = 2 * n + 1 THEN m + 2 ELSE IF k % 2 = 1 THEN m + 1 ELSE m + 3

A2AWaits(l, n, ante, k) ==
  IF k % 2 = 1 THEN ante ELSE <<l + 2 * n + 1>>

\* The stages of an all-to-all: the packs, the communication, the unpacks, in
\* whichever order they are added.
LEMMA A2AFits ==
  ASSUME NEW P, NEW keep, NEW st, NEW m, Staged(P, keep, st, m), NEW n \in Nat,
         NEW ante \in Seq(1 .. Len(P.items)),
         NEW items, NEW waits, Paired(items, waits), Len(items) = 2 * n + 1,
         \A k \in 1 .. 2 * n + 1 : SoundItem(items[k], keep),
         \A k \in 1 .. 2 * n : waits[k] = A2AWaits(Len(P.items), n, ante, k),
         waits[2 * n + 1] = [k \in 1 .. n |-> Len(P.items) + 2 * k - 1]
  PROVE  \E st2, m2 : Fits(P, keep, items, waits, st, st2, m2)
  <1> DEFINE l == Len(P.items)
             z == 2 * n + 1
             st2 == [i \in 1 .. l + z |-> IF i <= l THEN st[i] ELSE A2AStage(m, n, i - l)]
  <1>1. l \in Nat /\ m \in Nat /\ st \in [1 .. l -> 1 .. m] /\ z \in Nat
    BY SeqFacts DEF Staged, Paired
  <1> HIDE DEF l
  <1>2. \A k \in 1 .. z : A2AStage(m, n, k) \in 1 .. m + 3
    BY <1>1 DEF A2AStage
  <1>3. \A i \in 1 .. l + z : i \notin 1 .. l => i - l \in 1 .. z
    BY <1>1, Behind
  <1> HIDE DEF z
  <1>4. /\ st2 \in [1 .. l + z -> 1 .. m + 3]
        /\ \A i \in 1 .. l : st2[i] = st[i]
        /\ \A k \in 1 .. z : st2[l + k] = A2AStage(m, n, k)
    BY <1>1, <1>2, <1>3
  <1> HIDE DEF st2
  <1>5. ASSUME NEW k \in 1 .. z
        PROVE  /\ waits[k] \in Seq(1 .. l + z)
               /\ \A j \in 1 .. Len(waits[k]) : st2[waits[k][j]] < st2[l + k]
    <2>1. CASE k = z
      <3> DEFINE w == [j \in 1 .. n |-> l + 2 * j - 1]
      <3>1. waits[k] = w
        BY <2>1 DEF l, z
      <3>2. \A j \in 1 .. n : /\ 2 * j - 1 \in 1 .. z /\ l + 2 * j - 1 = l + (2 * j - 1)
                              /\ l + 2 * j - 1 \in 1 .. l + z
                              /\ (2 * j - 1) % 2 = 1 /\ 2 * j - 1 # z
        BY <1>1 DEF z
      <3>3. w \in Seq(1 .. l + z) /\ Len(w) = n /\ \A j \in 1 .. n : w[j] = l + (2 * j - 1)
        BY <3>2
      <3> HIDE DEF w
      <3>4. \A j \in 1 .. n : st2[l + (2 * j - 1)] = m + 1
        BY <1>4, <3>2 DEF A2AStage, z
      <3>5. st2[l + k] = m + 2
        BY <1>4, <2>1 DEF A2AStage, z
      <3>6. ASSUME NEW j \in 1 .. Len(w)
            PROVE  st2[w[j]] < st2[l + k]
        <4>1. st2[w[j]] = m + 1
          BY <3>3, <3>4
        <4> QED
          BY <1>1, <3>5, <4>1
      <3> QED
        BY <3>1, <3>3, <3>6
    <2>2. CASE k # z /\ k % 2 = 1
      <3>1. k \in 1 .. 2 * n /\ k # 2 * n + 1
        BY <2>2 DEF z
      <3>2. waits[k] = ante
        BY <2>2, <3>1 DEF A2AWaits
      <3>3. st2[l + k] = m + 1
        BY <1>4, <2>2, <3>1 DEF A2AStage
      <3>4. \A i \in 1 .. l : st2[i] \in 1 .. m
        BY <1>1, <1>4
      <3>5. 1 .. l \subseteq 1 .. l + z
        BY <1>1
      <3>6. ante \in Seq(1 .. l) /\ \A j \in 1 .. Len(ante) : ante[j] \in 1 .. l
        BY ElementIn DEF l
      <3>7. ante \in Seq(1 .. l + z)
        BY <3>5, <3>6, WiderSeq
      <3>8. \A i \in 1 .. l : st2[i] < st2[l + k]
        BY <1>1, <3>3, <3>4
      <3> QED
        BY <3>2, <3>6, <3>7, <3>8
    <2>3. CASE k # z /\ ~ (k % 2 = 1)
      <3>1. k \in 1 .. 2 * n /\ k # 2 * n + 1
        BY <2>3 DEF z
      <3> DEFINE c == l + 2 * n + 1
      <3>2. waits[k] = <<c>>
        BY <2>3, <3>1 DEF A2AWaits, l
      <3>3. st2[l + k] = m + 3
        BY <1>4, <2>3, <3>1 DEF A2AStage
      <3>4. c = l + z /\ c \in 1 .. l + z /\ z \in 1 .. z
        BY <1>1 DEF z
      <3>5. st2[l + z] = m + 2
        BY <1>4, <3>4 DEF A2AStage, z
      <3> HIDE DEF c
      <3>6. <<c>> \in Seq(1 .. l + z) /\ Len(<<c>>) = 1 /\ <<c>>[1] = c
        BY <3>4
      <3> QED
        BY <1>1, <3>2, <3>3, <3>4, <3>5, <3>6
    <2> QED
      BY <2>1, <2>2, <2>3
  <1>6. m + 3 \in Nat /\ Len(items) = z
    BY <1>1 DEF z
  <1>7. Fits(P, keep, items, waits, st, st2, m + 3)
    BY <1>4, <1>5, <1>6 DEF Fits, l, z
  <1> QED
    BY <1>7

\* The pack and the unpack item of a pair of bricks.
LEMMA A2APairSound ==
  ASSUME NEW keep, NEW nranks, NEW inF, OnRanks(inF, nranks), NEW outF, OnRanks(outF, nranks),
         NEW input, NEW output, Spares(output, outF, keep),
         NEW sendBuf, SpareBufs(sendBuf, nranks), NEW p, p[1] \in 1 .. Len(inF), p[2] \in 1 .. Len(outF),
         NEW box, NEW off, NEW buf
  PROVE  /\ SoundItem(PackShared(inF, box, p[1], input, sendBuf[inF[p[1]].rank], off), keep)
         /\ SoundItem(UnpackShared(outF, box, p[2], output, buf, off), keep)
  <1>1. sendBuf[inF[p[1]].rank][1] # "in"
    BY DEF OnRanks, SpareBufs
  <1>2. keep => output[p[2]][1] # "in"
    BY DEF Spares
  <1>3. SoundItem(PackShared(inF, box, p[1], input, sendBuf[inF[p[1]].rank], off), keep)
    BY <1>1, TransposeSound DEF PackShared
  <1>4. SoundItem(UnpackShared(outF, box, p[2], output, buf, off), keep)
    BY <1>2, TransposeSound DEF UnpackShared
  <1> QED
    BY <1>3, <1>4

\* The items of an all-to-all: their outputs are the unpack items.
LEMMA A2AItemsSound ==
  ASSUME NEW P, NEW keep, SoundPlan(P, keep), NEW nranks \in Nat,
         NEW inF, OnRanks(inF, nranks), NEW outF, OnRanks(outF, nranks),
         NEW input, NEW output, Spares(output, outF, keep), NEW ante \in Seq(1 .. Len(P.items)),
         NEW pairs \in Seq((1 .. Len(inF)) \X (1 .. Len(outF))), NEW sends, NEW recvs,
         NEW sendBuf, SpareBufs(sendBuf, nranks), NEW recvBuf, SpareBufs(recvBuf, nranks),
         NEW Q, Q = A2AItems(P, nranks, inF, outF, input, output, ante, pairs, sends, recvs, sendBuf, recvBuf)
  PROVE  Ready(Q, keep, Len(pairs)) /\ Q.status = P.status
  <1> DEFINE n == Len(pairs)
             l == Len(P.items)
             pack(p, s, d) == PackShared(inF, Shared(inF, outF, p), p[1], input, sendBuf[s],
                                         SlotOffset(sends[s], d))
             unpack(p, s, d) == UnpackShared(outF, Shared(inF, outF, p), p[2], output, recvBuf[d],
                                             SlotOffset(recvs[d], s))
             item(p, k) == IF k % 2 = 1 THEN pack(p, inF[p[1]].rank, outF[p[2]].rank)
                           ELSE unpack(p, inF[p[1]].rank, outF[p[2]].rank)
             copy(s, d) == CopyMoves(s, sendBuf[s], SlotOffset(sends[s], d),
                                     d, recvBuf[d], SlotOffset(recvs[d], s), SlotCount(sends[s], d))
             moves == A2AMoves(nranks, sends, recvs, sendBuf, recvBuf)
             all == Comm("alltoallv", "complex", 0 .. nranks - 1, moves, Range(recvBuf))
             half(k) == (k + 1) \div 2
             items == [k \in 1 .. 2 * n |-> item(pairs[half(k)], k)]
             waits == [k \in 1 .. 2 * n |-> A2AWaits(l, n, ante, k)]
             before == [k \in 1 .. n |-> l + 2 * k - 1]
             out == [k \in 1 .. n |-> l + 2 * k]
             its == Append(items, all)
             ans == Append(waits, before)
             R == AddItems(P, its, ans)
  <1>1. Q = WithOutputs(R, out)
    BY DEF A2AItems, A2AWaits, LastItem
  <1>2. n \in Nat /\ l \in Nat /\ \A k \in 1 .. n : pairs[k] \in (1 .. Len(inF)) \X (1 .. Len(outF))
    BY ElementIn, SoundPlanFacts
  <1>3. \A p : p[1] \in 1 .. Len(inF) /\ p[2] \in 1 .. Len(outF) => \A k : SoundItem(item(p, k), keep)
    BY A2APairSound
  <1>4. SoundItem(all, keep)
    <2>1. \A s, d \in 0 .. nranks - 1 : SoundMoves(copy(s, d), 0 .. nranks - 1, keep)
      BY CopySound DEF SpareBufs
    <2>2. moves = UNION {copy(s, d) : s, d \in 0 .. nranks - 1}
      BY DEF A2AMoves
    <2> HIDE DEF copy, moves
    <2>3. SoundMoves(moves, 0 .. nranks - 1, keep)
      BY <2>1, <2>2 DEF SoundMoves
    <2> QED
      BY <2>3, CommSound
  <1> HIDE DEF n, l, item, all
  <1>5. \A k \in 1 .. 2 * n : half(k) \in 1 .. n
    BY <1>2
  <1> HIDE DEF half
  <1>6. \A k \in 1 .. 2 * n : SoundItem(item(pairs[half(k)], k), keep)
    BY <1>2, <1>3, <1>5
  <1>7. 2 * n \in Nat
    BY <1>2
  <1>8. IsASeq(items) /\ Len(items) = 2 * n /\ \A k \in 1 .. 2 * n : SoundItem(items[k], keep)
    <2>1. DOMAIN items = 1 .. 2 * n /\ items = [k \in 1 .. 2 * n |-> items[k]]
      OBVIOUS
    <2>2. \A k \in 1 .. 2 * n : SoundItem(items[k], keep)
      BY <1>6
    <2> HIDE DEF items
    <2> QED
      BY <1>7, <2>1, <2>2, FunctionIsASeq
  <1>9. IsASeq(waits) /\ Len(waits) = 2 * n /\ \A k \in 1 .. 2 * n : waits[k] = A2AWaits(l, n, ante, k)
    <2>1. /\ DOMAIN waits = 1 .. 2 * n /\ waits = [k \in 1 .. 2 * n |-> waits[k]]
          /\ \A k \in 1 .. 2 * n : waits[k] = A2AWaits(l, n, ante, k)
      OBVIOUS
    <2> HIDE DEF waits
    <2> QED
      BY <1>7, <2>1, FunctionIsASeq
  <1> HIDE DEF items, waits, before, out
  <1>10. /\ IsASeq(its) /\ Len(its) = 2 * n + 1 /\ its[2 * n + 1] = all
         /\ \A i \in 1 .. 2 * n : its[i] = items[i]
    <2>1. IsASeq(items) /\ its = Append(items, all)
      BY <1>8
    <2> HIDE DEF its
    <2>2. Appended(its, items, all)
      BY <2>1, AppendIsASeq
    <2> QED
      BY <1>8, <2>2 DEF Appended
  <1>11. /\ IsASeq(ans) /\ Len(ans) = 2 * n + 1 /\ ans[2 * n + 1] = before
         /\ \A i \in 1 .. 2 * n : ans[i] = waits[i]
    <2>1. IsASeq(waits) /\ ans = Append(waits, before)
      BY <1>9
    <2> HIDE DEF ans
    <2>2. Appended(ans, waits, before)
      BY <2>1, AppendIsASeq
    <2> QED
      BY <1>9, <2>2 DEF Appended
  <1> HIDE DEF its, ans
  <1>12. \A k \in 1 .. 2 * n + 1 : SoundItem(its[k], keep)
    <2>1. \A k \in 1 .. 2 * n + 1 : k \in 1 .. 2 * n \/ k = 2 * n + 1
      BY <1>2
    <2> QED
      BY <1>4, <1>8, <1>10, <2>1
  <1>13. \A k \in 1 .. 2 * n : ans[k] = A2AWaits(l, n, ante, k)
    BY <1>9, <1>11
  <1>14. Paired(its, ans)
    BY <1>10, <1>11 DEF Paired
  <1>15. ans[2 * n + 1] = [k \in 1 .. n |-> l + 2 * k - 1]
    BY <1>11 DEF before
  <1>16. PICK st, m : Staged(P, keep, st, m)
    BY DEF SoundPlan
  <1>17. \E st2, m2 : Fits(P, keep, its, ans, st, st2, m2)
    BY <1>2, <1>10, <1>12, <1>13, <1>14, <1>15, <1>16, A2AFits DEF l
  <1>18. PICK st2, m2 : Fits(P, keep, its, ans, st, st2, m2)
    BY <1>17
  <1>19. Staged(R, keep, st2, m2) /\ R.status = P.status /\ Len(R.items) = l + (2 * n + 1)
    <2>1. Staged(R, keep, st2, m2) /\ R.status = P.status /\ Len(R.items) = Len(P.items) + Len(its)
      BY <1>16, <1>18, Grow
    <2> HIDE DEF R
    <2> QED
      BY <1>10, <2>1 DEF l
  <1> HIDE DEF R
  <1>20. IsPlan(Q) /\ Q.items = R.items /\ Q.ante = R.ante /\ Q.out = out /\ Q.status = R.status
    BY <1>1, <1>19, WithOutputsFacts DEF Staged
  <1>21. Staged(Q, keep, st2, m2)
    BY <1>19, <1>20, SameStaged
  <1>22. out \in Seq(1 .. l + (2 * n + 1)) /\ Len(out) = n
    BY <1>2 DEF out
  <1>23. Len(Q.items) = l + (2 * n + 1)
    BY <1>19, <1>20
  <1>24. Ready(Q, keep, n)
    BY <1>20, <1>21, <1>22, <1>23 DEF Ready, SoundPlan
  <1> QED
    BY <1>19, <1>20, <1>24 DEF n

\* A plan with output items, unless creation has failed.
SoundUnlessFailed(Q, P, keep) ==
  /\ IsPlan(Q)
  /\ Q.status = "ok" => P.status = "ok" /\ \E n \in Nat : Ready(Q, keep, n)


\* GlobalTransposeA2A: a sound plan, or it throws.
LEMMA A2ASound ==
  ASSUME NEW P, NEW keep, SoundPlan(P, keep), NEW nranks \in Nat,
         NEW inF, IsASeq(inF), OnRanks(inF, nranks), NEW outF, IsASeq(outF), OnRanks(outF, nranks),
         NEW input, NEW output, Spares(output, outF, keep), NEW ante \in Seq(1 .. Len(P.items)),
         NEW Q, Q = GlobalTransposeA2A(P, nranks, inF, outF, input, output, ante)
  PROVE  SoundUnlessFailed(Q, P, keep)
  <1> DEFINE ranks == 0 .. nranks - 1
             wanted(r, slots) == <<<<r, CHOOSE d \in Devices(slots) : TRUE>>, SlotTotal(slots) * 2>>
             pairs == SharingPairs(inF, outF)
             sends == Slots(pairs, nranks, inF, outF, 1, inF, outF)
             recvs == Slots(pairs, nranks, outF, inF, 2, inF, outF)
             want == [k \in 1 .. 2 * nranks |-> IF k % 2 = 1 THEN wanted((k - 1) \div 2, sends[(k - 1) \div 2])
                                                ELSE wanted((k - 1) \div 2, recvs[(k - 1) \div 2])]
             L == Leases(P, want)
             sendBuf == [r \in ranks |-> Temp(Leased(L, 2 * nranks)[2 * r + 1])]
             recvBuf == [r \in ranks |-> Temp(Leased(L, 2 * nranks)[2 * r + 2])]
             W == A2AItems(L, nranks, inF, outF, input, output, ante, pairs, sends, recvs, sendBuf, recvBuf)
             bad == \E r \in ranks : \/ Cardinality(Devices(sends[r])) # 1
                                     \/ Cardinality(Devices(recvs[r])) # 1
             back == Reverse(Leased(W, 2 * nranks))
  <1>1. Q = IF bad THEN Throw(NoOutputs(P)) ELSE Return(W, back)
    BY DEF GlobalTransposeA2A
  <1>2. SpareBufs(sendBuf, nranks) /\ SpareBufs(recvBuf, nranks)
    BY TempSpares DEF SpareBufs
  <1>3. pairs \in Seq((1 .. Len(inF)) \X (1 .. Len(outF)))
    BY SharingPairsIn
  <1>4. IsPlan(P)
    BY SoundPlanFacts
  <1> HIDE DEF pairs, bad, want, sends, recvs
  <1>5. SamePlan(P, L)
    BY <1>4, LeasesSame
  <1> HIDE DEF L
  <1>6. SoundPlan(L, keep) /\ L.status = P.status /\ L.items = P.items
    BY <1>5, SameSound DEF SamePlan
  <1> HIDE DEF sendBuf, recvBuf
  <1>7. ante \in Seq(1 .. Len(L.items))
    BY <1>6
  <1>8. Ready(W, keep, Len(pairs)) /\ W.status = L.status
    BY <1>2, <1>3, <1>6, <1>7, A2AItemsSound
  <1>9. IsPlan(W)
    BY <1>8, SoundPlanFacts DEF Ready
  <1> HIDE DEF W, back
  <1>10. CASE bad
    <2> DEFINE R == NoOutputs(P)
    <2>1. Q = FailWith(R, "throw")
      BY <1>1, <1>10 DEF Throw
    <2>2. IsPlan(R)
      BY NoOutputsReady, SoundPlanFacts DEF Ready
    <2> HIDE DEF R
    <2>3. IsPlan(Q) /\ Q.status = "throw"
      BY <2>1, <2>2, FailFacts
    <2> QED
      BY <2>3 DEF SoundUnlessFailed
  <1>11. CASE ~ bad
    <2>1. SamePlan(W, Q)
      BY <1>1, <1>9, <1>11, LeasesSame
    <2> DEFINE n == Len(pairs)
    <2>3. n \in Nat /\ Ready(W, keep, n) /\ W.status = P.status
      BY <1>3, <1>6, <1>8, ElementIn
    <2> HIDE DEF n
    <2>2. Ready(Q, keep, n) /\ Q.status = P.status /\ IsPlan(Q)
      <3>1. Ready(Q, keep, n) /\ Q.status = W.status /\ IsPlan(Q)
        BY <2>1, <2>3, SameReady
      <3> QED
        BY <2>3, <3>1
    <2> QED
      BY <2>2, <2>3 DEF SoundUnlessFailed
  <1> QED
    BY <1>10, <1>11

\* GlobalTranspose, whichever way it is done.
LEMMA GlobalTransposeSound ==
  ASSUME NEW P, NEW keep, SoundPlan(P, keep), NEW nranks \in Nat,
         NEW inF, IsASeq(inF), OnRanks(inF, nranks), NEW outF, IsASeq(outF), OnRanks(outF, nranks),
         NEW input, NEW output, Spares(output, outF, keep),
         NEW ante \in Seq(1 .. Len(P.items)), Len(ante) = Len(inF),
         NEW Q, Q = GlobalTranspose(P, nranks, inF, outF, input, output, ante)
  PROVE  SoundUnlessFailed(Q, P, keep)
  <1>1. CASE MultipleRanksDevices(inF) \/ MultipleRanksDevices(outF)
    <2>1. Q = GlobalTransposeP2P(P, inF, outF, input, output, ante)
      BY <1>1 DEF GlobalTranspose
    <2>2. (\E n \in Nat : Ready(Q, keep, n)) /\ Q.status = P.status
      BY <2>1, P2PSound
    <2>3. IsPlan(Q)
      BY <2>2, SoundPlanFacts DEF Ready
    <2> QED
      BY <2>2, <2>3 DEF SoundUnlessFailed
  <1>2. CASE ~ (MultipleRanksDevices(inF) \/ MultipleRanksDevices(outF))
    <2>1. Q = GlobalTransposeA2A(P, nranks, inF, outF, input, output, ante)
      BY <1>2 DEF GlobalTranspose
    <2> QED
      BY <2>1, A2ASound
  <1> QED
    BY <1>1, <1>2

------------------------------------------------------------------------------
(* BuildOptMultiDevicePlan *)

\* A plan with n output items, unless creation has failed.
ReadyUnlessFailed(Q, keep, n) == IsPlan(Q) /\ (Q.status = "ok" => Ready(Q, keep, n))

\* The leases of a field are not the input.
LEMMA TempsSpare ==
  ASSUME NEW keep, NEW field, IsASeq(field), NEW bufs
  PROVE  Spares(Temps(bufs, field), field, keep)
  <1>1. DOMAIN field = 1 .. Len(field)
    BY SeqFacts
  <1> QED
    BY <1>1, TempSpares DEF Spares, Temps

\* The output pointers are not the input.
LEMMA UserSpare ==
  ASSUME NEW keep, NEW field, IsASeq(field)
  PROVE  Spares(UserBuffers("out", field), field, keep)
  <1>1. DOMAIN field = 1 .. Len(field)
    BY SeqFacts
  <1> QED
    BY <1>1 DEF Spares, UserBuffers

\* Transforms after a transpose, unless that failed.
LEMMA ThenC2CFieldSound ==
  ASSUME NEW P, NEW keep, NEW T, SoundUnlessFailed(T, P, keep), NEW field, IsASeq(field),
         NEW dims, IsASeq(dims), Len(dims) > 0, NEW bufs, Spares(bufs, field, keep),
         NEW Q, Q = ThenC2CField(T, field, dims, bufs)
  PROVE  ReadyUnlessFailed(Q, keep, Len(field))
  <1>1. CASE T.status = "ok"
    <2>1. PICK n \in Nat : Ready(T, keep, n)
      BY <1>1 DEF SoundUnlessFailed
    <2>2. SoundPlan(T, keep) /\ T.out \in Seq(1 .. Len(T.items))
      BY <2>1 DEF Ready
    <2>3. Q = C2CField(T, field, dims, bufs, bufs, T.out)
      BY <1>1 DEF ThenC2CField
    <2>4. Ready(Q, keep, Len(field))
      BY <2>2, <2>3, C2CFieldSound
    <2> QED
      BY <2>4, SoundPlanFacts DEF Ready, ReadyUnlessFailed
  <1>2. CASE T.status # "ok"
    <2>1. Q = T
      BY <1>2 DEF ThenC2CField
    <2> QED
      BY <1>2, <2>1 DEF ReadyUnlessFailed, SoundUnlessFailed
  <1> QED
    BY <1>1, <1>2

\* MakeFieldDimContiguous keeps the bricks on their ranks.
LEMMA LayoutFacts ==
  ASSUME NEW field, IsASeq(field), NEW length, NEW dim, NEW nranks, OnRanks(field, nranks),
         NEW q, q = MakeFieldDimContiguous(field, length, dim)
  PROVE  IsASeq(q) /\ Len(q) = Len(field) /\ OnRanks(q, nranks)
  <1> DEFINE split == CHOOSE d \in SplitDims(field, length, dim) :
                        \A e \in SplitDims(field, length, dim) : e <= d
             n == Len(field)
             memOrder == <<dim, split>> \o SelectSeq([d \in DOMAIN length |-> d],
                                                  LAMBDA d : d \notin {dim, split})
             strideOf(len, d) ==
               Product([k \in 1 .. (CHOOSE k \in DOMAIN memOrder : memOrder[k] = d) - 1 |-> len[memOrder[k]]])
             box(i) ==
               [lower |-> [d \in DOMAIN length |-> IF d = split THEN (length[split] \div n) * (i - 1) ELSE 0],
                upper |-> [d \in DOMAIN length |-> IF d = split THEN SplitUpper(i, n, length[split]) ELSE length[d]]]
             brick(i, bounds) ==
               [lower |-> bounds.lower, upper |-> bounds.upper,
                stride |-> [d \in DOMAIN length |-> strideOf(Length(bounds), d)],
                rank |-> field[i].rank, device |-> field[i].device]
             made(i) == brick(i, box(i))
  <1>1. q = [i \in DOMAIN field |-> made(i)]
    BY DEF MakeFieldDimContiguous
  <1>2. \A i : made(i).rank = field[i].rank
    OBVIOUS
  <1> HIDE DEF made
  <1>3. n \in Nat /\ DOMAIN field = 1 .. n
    BY SeqFacts
  <1> HIDE DEF n
  <1>4. DOMAIN q = 1 .. n /\ q = [i \in 1 .. n |-> q[i]] /\ \A i \in 1 .. n : q[i].rank = field[i].rank
    BY <1>1, <1>2, <1>3
  <1>5. IsASeq(q) /\ Len(q) = n
    BY <1>3, <1>4, FunctionIsASeq
  <1> QED
    BY <1>4, <1>5 DEF OnRanks, n

\* A transpose to another layout and transforms there, in temp buffers or in
\* the user's output.
LEMMA MovedSound ==
  ASSUME NEW P, NEW keep, NEW nranks \in Nat, NEW inF, IsASeq(inF), OnRanks(inF, nranks),
         NEW f, IsASeq(f), OnRanks(f, nranks), Ready(P, keep, Len(inF)),
         NEW M, SamePlan(P, M), NEW input, NEW bufs, Spares(bufs, f, keep),
         NEW dims, IsASeq(dims), Len(dims) > 0, NEW ante, ante = P.out,
         NEW Q, Q = ThenC2CField(GlobalTranspose(M, nranks, inF, f, input, bufs, ante), f, dims, bufs)
  PROVE  ReadyUnlessFailed(Q, keep, Len(f))
  <1> DEFINE T == GlobalTranspose(M, nranks, inF, f, input, bufs, ante)
             n == Len(inF)
  <1>1. Ready(P, keep, n)
    OBVIOUS
  <1> HIDE DEF n
  <1>2. Ready(M, keep, n) /\ M.out = P.out
    BY <1>1, SameReady DEF SamePlan
  <1>3. SoundPlan(M, keep) /\ ante \in Seq(1 .. Len(M.items)) /\ Len(ante) = n
    BY <1>2 DEF Ready
  <1>4. SoundUnlessFailed(T, M, keep)
    BY <1>3, GlobalTransposeSound DEF n
  <1> HIDE DEF T
  <1> QED
    BY <1>4, ThenC2CFieldSound DEF T

FieldsOK(c) ==
  /\ c.nranks \in Nat /\ c.ilen \in Seq(Nat) /\ c.ilen # <<>>
  /\ IsASeq(c.inF) /\ OnRanks(c.inF, c.nranks) /\ IsASeq(c.outF) /\ OnRanks(c.outF, c.nranks)

\* BuildOptMultiDevicePlan.
LEMMA OptSound ==
  ASSUME NEW c, FieldsOK(c), CanOptimize(c), NEW keep, NEW P, SoundPlan(P, keep), P.status = "ok",
         NEW Q, Q = BuildOptMultiDevicePlan(c, P)
  PROVE  IsPlan(Q) /\ (Q.status = "ok" => SoundPlan(Q, keep))
  <1> DEFINE inF == c.inF
             dims == InOrder(WholeIn(c), NumDims(c))
             inOut == InOrder(WholeOut(c), NumDims(c))
             rest == InOrder(WholeNowhere(c), NumDims(c))
             user == UserBuffers("out", c.outF)
             first(L) == C2CField(L, inF, dims, UserBuffers("in", inF), FirstOutput(c, Held(L)), <<>>)
             begin(R) == [P |-> R, field |-> inF, leases |-> Held(R)]
             moved(S, f, M, d) ==
               ThenC2CField(GlobalTranspose(M, c.nranks, inF, f, Temps(S.leases, inF),
                                            Temps(Leased(M, Len(f)), f), S.P.out),
                            f, <<d>>, Temps(Leased(M, Len(f)), f))
             after(S, f, F) == [P |-> Return(F, S.leases), field |-> f, leases |-> Leased(F, Len(f))]
             layout(S, f, d) == after(S, f, moved(S, f, LeaseField(S.P, f, "complex"), d))
             mid(S, d) ==
               IF S.P.status # "ok" THEN S
               ELSE IF SplitDims(inF, c.ilen, d) = {} THEN [S EXCEPT !.P = Throw(@)]
               ELSE layout(S, MakeFieldDimContiguous(inF, c.ilen, d), d)
             last(S) ==
               IF S.P.status # "ok" THEN S.P
               ELSE Return(ThenC2CField(GlobalTranspose(S.P, c.nranks, S.field, c.outF,
                                                        Temps(S.leases, S.field), user, S.P.out),
                                        c.outF, inOut, user), S.leases)
             D == LeaseField(P, inF, "complex")
  <1>0. /\ IsASeq(dims) /\ Len(dims) > 0 /\ IsASeq(inOut) /\ Len(inOut) > 0 /\ IsASeq(rest)
    <2>1. NumDims(c) \in Nat
      BY DEF NumDims, FieldsOK
    <2>2. WholeIn(c) \cap (1 .. NumDims(c)) # {} /\ WholeOut(c) \cap (1 .. NumDims(c)) # {}
      BY DEF CanOptimize, WholeIn, WholeOut
    <2> QED
      BY <2>1, <2>2, InOrderIsSeq, ElementsAreASeq
  <1>f. /\ IsASeq(inF) /\ OnRanks(inF, c.nranks) /\ c.nranks \in Nat
        /\ IsASeq(c.outF) /\ OnRanks(c.outF, c.nranks)
    BY DEF FieldsOK
  <1> HIDE DEF dims, inOut, rest, inF
  <1> DEFINE N == Len(rest)
             start == begin(first(D))
             step(S, k) == mid(S, rest[k])
             Rec(fn, top) == fn = [k \in 0 .. top |-> IF k = 0 THEN start ELSE step(fn[k - 1], k)]
             Exist == {top \in Nat : \E fn : Rec(fn, top)}
             f == CHOOSE fn : Rec(fn, N)
  <1>N. N \in Nat
    BY <1>0, SeqFacts
  <1> HIDE DEF step, start
  <1>r1. 0 \in Exist
    <2>1. Rec([k \in 0 .. 0 |-> start], 0)
      OBVIOUS
    <2> QED
      BY <2>1
  <1>r2. ASSUME NEW m \in Nat, m \in Exist
         PROVE  m + 1 \in Exist
    <2>1. PICK fn : Rec(fn, m)
      BY <1>r2
    <2> DEFINE h == [k \in 0 .. m + 1 |-> IF k <= m THEN fn[k] ELSE step(fn[m], m + 1)]
    <2>2. Rec(h, m + 1)
      BY <2>1
    <2> HIDE DEF h
    <2>3. \E x : Rec(x, m + 1)
      BY <2>2
    <2> HIDE DEF Rec
    <2> QED
      BY <2>3
  <1> HIDE DEF Exist
  <1>r3. \A top \in Nat : top \in Exist
    BY <1>r1, <1>r2, SetInduction
  <1>r4. \E fn : Rec(fn, N)
    BY <1>N, <1>r3 DEF Exist
  <1> HIDE DEF Rec
  <1>r5. Rec(f, N)
    BY <1>r4
  <1> HIDE DEF f
  <1>r. f[0] = start /\ \A k \in 1 .. N : f[k] = step(f[k - 1], k)
    <2>1. f = [k \in 0 .. N |-> IF k = 0 THEN start ELSE step(f[k - 1], k)]
      BY <1>r5 DEF Rec
    <2>2. f[0] = start
      BY <1>N, <2>1
    <2>3. ASSUME NEW k \in 1 .. N
          PROVE  f[k] = step(f[k - 1], k)
      BY <1>N, <2>1
    <2> QED
      BY <2>2, <2>3
  <1>1. Q = last(f[N])
    BY DEF BuildOptMultiDevicePlan, f, Rec, start, step, N, dims, inOut, rest, inF
  <1> DEFINE Good(S) == /\ S = [P |-> S.P, field |-> S.field, leases |-> S.leases]
                        /\ ReadyUnlessFailed(S.P, keep, Len(inF))
                        /\ S.P.status = "ok" => /\ IsASeq(S.field) /\ Len(S.field) = Len(inF)
                                                /\ OnRanks(S.field, c.nranks)
  <1>2. Good(f[0])
    <2> DEFINE F == first(D)
    <2>1. SamePlan(P, D)
      BY SoundPlanFacts, LeasesSame
    <2>2. SoundPlan(D, keep)
      BY <2>1, SameSound DEF SamePlan
    <2> HIDE DEF D
    <2>3. Spares(FirstOutput(c, Held(D)), inF, keep)
      BY <1>f, TempsSpare DEF FirstOutput, inF
    <2>4. <<>> \in Seq(1 .. Len(D.items))
      OBVIOUS
    <2>5. Ready(F, keep, Len(inF))
      BY <1>0, <1>f, <2>2, <2>3, <2>4, C2CFieldSound
    <2> HIDE DEF F
    <2>6. f[0] = begin(F)
      BY <1>r DEF start, F
    <2>7. IsPlan(F)
      BY <2>5, SoundPlanFacts DEF Ready
    <2>8. ReadyUnlessFailed(F, keep, Len(inF))
      BY <2>5, <2>7 DEF ReadyUnlessFailed
    <2> QED
      BY <1>f, <2>6, <2>8
  <1>3. ASSUME NEW S, Good(S), NEW d
        PROVE  Good(mid(S, d))
    <2>1. CASE S.P.status # "ok"
      BY <1>3, <2>1
    <2>2. CASE S.P.status = "ok" /\ SplitDims(inF, c.ilen, d) = {}
      <3> DEFINE R == [P |-> Throw(S.P), field |-> S.field, leases |-> S.leases]
                 F == Throw(S.P)
      <3>1. mid(S, d) = R
        BY <1>3, <2>2
      <3>2. IsPlan(F) /\ F.status = "throw"
        BY <1>3, FailFacts DEF Throw, ReadyUnlessFailed
      <3>3. R.P = F /\ R = [P |-> R.P, field |-> R.field, leases |-> R.leases]
        OBVIOUS
      <3> HIDE DEF R, F
      <3> QED
        BY <3>1, <3>2, <3>3 DEF ReadyUnlessFailed
    <2>3. CASE S.P.status = "ok" /\ SplitDims(inF, c.ilen, d) # {}
      <3> DEFINE l == MakeFieldDimContiguous(inF, c.ilen, d)
                 O == S.P
                 M == LeaseField(O, l, "complex")
                 bufs == Temps(Leased(M, Len(l)), l)
                 input == Temps(S.leases, inF)
                 ante == O.out
                 F == ThenC2CField(GlobalTranspose(M, c.nranks, inF, l, input, bufs, ante), l, <<d>>, bufs)
                 B == Return(F, S.leases)
                 R == after(S, l, F)
      <3>1. mid(S, d) = R
        BY <2>3
      <3>2. IsASeq(l) /\ Len(l) = Len(inF) /\ OnRanks(l, c.nranks)
        BY <1>f, LayoutFacts
      <3> HIDE DEF l
      <3>3. R.P = B /\ R.field = l /\ R = [P |-> R.P, field |-> R.field, leases |-> R.leases]
        OBVIOUS
      <3> HIDE DEF R
      <3>4. IsPlan(O) /\ Ready(O, keep, Len(inF))
        BY <1>3, <2>3 DEF ReadyUnlessFailed
      <3> HIDE DEF O
      <3>5. SamePlan(O, M)
        BY <3>4, LeasesSame
      <3> HIDE DEF M
      <3>6. Spares(bufs, l, keep)
        BY <3>2, TempsSpare
      <3> HIDE DEF bufs, input, ante
      <3>7. IsASeq(<<d>>) /\ Len(<<d>>) > 0
        <4> DEFINE ds == <<d>>
        <4>1. ds \in Seq({d}) /\ Len(ds) > 0
          OBVIOUS
        <4> HIDE DEF ds
        <4>2. IsASeq(ds) /\ Len(ds) > 0
          BY <4>1, ElementsAreASeq
        <4> QED
          BY <4>2 DEF ds
      <3>8. ReadyUnlessFailed(F, keep, Len(l))
        <4> DEFINE ds == <<d>>
        <4>1. ante = O.out /\ IsASeq(ds) /\ Len(ds) > 0
          BY <3>7 DEF ante
        <4>2. F = ThenC2CField(GlobalTranspose(M, c.nranks, inF, l, input, bufs, ante), l, ds, bufs)
          OBVIOUS
        <4> HIDE DEF ds, F
        <4> QED
          BY <1>f, <3>2, <3>4, <3>5, <3>6, <4>1, <4>2, MovedSound
      <3> HIDE DEF F
      <3>9. ReadyUnlessFailed(B, keep, Len(inF))
        <4> DEFINE n == Len(inF)
        <4>1. IsPlan(F) /\ (F.status = "ok" => Ready(F, keep, n))
          BY <3>2, <3>8 DEF ReadyUnlessFailed
        <4>2. SamePlan(F, B)
          BY <4>1, LeasesSame
        <4> HIDE DEF B, n
        <4>3. IsPlan(B) /\ B.status = F.status
          BY <4>2 DEF SamePlan
        <4>4. B.status = "ok" => Ready(B, keep, n)
          BY <4>1, <4>2, <4>3, SameReady
        <4> QED
          BY <4>3, <4>4 DEF ReadyUnlessFailed, n
      <3> HIDE DEF B
      <3> QED
        BY <3>1, <3>2, <3>3, <3>9
    <2> QED
      BY <2>1, <2>2, <2>3
  <1> HIDE DEF Good, mid
  <1> DEFINE T == {k \in 0 .. N : Good(f[k])}
  <1>4. 0 \in T
    BY <1>N, <1>2
  <1>5. ASSUME NEW k \in 0 .. N, k < N, k \in T
        PROVE  k + 1 \in T
    <2>1. k + 1 \in 1 .. N /\ (k + 1) - 1 = k /\ Good(f[k])
      BY <1>N, <1>5
    <2>2. f[k + 1] = mid(f[k], rest[k + 1])
      BY <1>r, <2>1 DEF step
    <2>3. Good(f[k + 1])
      BY <1>3, <2>1, <2>2
    <2> QED
      BY <1>N, <2>1, <2>3
  <1> HIDE DEF T
  <1>6. \A k \in 0 .. N : k \in T
    BY <1>N, <1>4, <1>5, UpToInduction
  <1>7. Good(f[N])
    BY <1>N, <1>6 DEF T
  <1> DEFINE S == f[N]
  <1>8. CASE S.P.status # "ok"
    BY <1>1, <1>7, <1>8 DEF Good, ReadyUnlessFailed
  <1>9. CASE S.P.status = "ok"
    <2> DEFINE O == S.P
               sf == S.field
               input == Temps(S.leases, sf)
               ante == O.out
               F == ThenC2CField(GlobalTranspose(O, c.nranks, sf, c.outF, input, user, ante), c.outF, inOut, user)
    <2>1. Q = Return(F, S.leases)
      BY <1>1, <1>9
    <2>2. /\ Ready(O, keep, Len(sf)) /\ IsPlan(O)
          /\ IsASeq(sf) /\ OnRanks(sf, c.nranks) /\ ante = O.out
      BY <1>7, <1>9 DEF Good, ReadyUnlessFailed
    <2>3. SamePlan(O, O)
      BY <2>2 DEF SamePlan
    <2>4. Spares(user, c.outF, keep)
      BY <1>f, UserSpare
    <2> HIDE DEF S, O, sf, input, ante, user
    <2>5. ReadyUnlessFailed(F, keep, Len(c.outF))
      BY <1>0, <1>f, <2>2, <2>3, <2>4, MovedSound
    <2> HIDE DEF F
    <2>6. IsPlan(F) /\ SamePlan(F, Q)
      BY <2>1, <2>5, LeasesSame DEF ReadyUnlessFailed
    <2>7. IsPlan(Q) /\ Q.status = F.status /\ Q.items = F.items /\ Q.ante = F.ante
      BY <2>6 DEF SamePlan
    <2>8. Q.status = "ok" => SoundPlan(Q, keep)
      BY <2>5, <2>7, SameSound DEF ReadyUnlessFailed, Ready
    <2> QED
      BY <2>7, <2>8
  <1> QED
    BY <1>8, <1>9

------------------------------------------------------------------------------
(* Gather and scatter: a communication g that waits for items that pack and  *)
(* that items wait for that unpack                                           *)

\* The items before g have stages up to m; then come packing, g, unpacking.
Around(Q, keep, g, m) ==
  /\ m \in Nat /\ g \in 1 .. Len(Q.items)
  /\ \E st : Staged(Q, keep, st, m + 3) /\ st[g] = m + 2 /\ \A i \in 1 .. g - 1 : st[i] <= m

LEMMA AroundFacts ==
  ASSUME NEW Q, NEW keep, NEW g, NEW m, Around(Q, keep, g, m)
  PROVE  SoundPlan(Q, keep) /\ IsPlan(Q) /\ Len(Q.items) \in Nat /\ m \in Nat /\ g \in 1 .. Len(Q.items)
  <1>1. SoundPlan(Q, keep)
    BY DEF Around, SoundPlan
  <1> QED
    BY <1>1, SoundPlanFacts DEF Around

\* Around depends on the items and antecedents only.
LEMMA AroundSame ==
  ASSUME NEW Q, NEW keep, NEW g, NEW m, Around(Q, keep, g, m),
         NEW R, IsPlan(R), R.items = Q.items, R.ante = Q.ante
  PROVE  Around(R, keep, g, m)
  <1>1. PICK st : Staged(Q, keep, st, m + 3) /\ st[g] = m + 2 /\ \A i \in 1 .. g - 1 : st[i] <= m
    BY DEF Around
  <1> DEFINE top == m + 3
  <1>2. Staged(Q, keep, st, top)
    BY <1>1
  <1> HIDE DEF top
  <1>3. Staged(R, keep, st, top)
    BY <1>2, SameStaged
  <1>4. m \in Nat /\ g \in 1 .. Len(R.items)
    BY DEF Around
  <1> QED
    BY <1>1, <1>3, <1>4 DEF Around, top

\* A communication added to a sound plan, at a stage above a free one.
LEMMA AroundStart ==
  ASSUME NEW P, NEW keep, SoundPlan(P, keep), NEW item, SoundItem(item, keep),
         NEW w \in Seq(1 .. Len(P.items)), NEW Q, Q = AddItem(P, item, w)
  PROVE  (\E m \in Nat : Around(Q, keep, Len(P.items) + 1, m)) /\ Q.status = P.status
  <1>1. PICK st, m : Staged(P, keep, st, m)
    BY DEF SoundPlan
  <1> DEFINE l == Len(P.items)
             top == m + 3
             s == m + 2
  <1>2. l \in Nat /\ m \in Nat /\ st \in [1 .. l -> 1 .. m]
    BY <1>1, SeqFacts DEF Staged, Paired
  <1>3. \A i \in 1 .. l : st[i] <= m /\ st[i] < s
    <2>1. \A i \in 1 .. l : st[i] \in 1 .. m
      BY <1>2
    <2> QED
      BY <1>2, <2>1
  <1>4. \A j \in 1 .. Len(w) : w[j] \in 1 .. l
    BY ElementIn
  <1>5. top \in Nat /\ s \in 1 .. top /\ m <= top
    BY <1>2
  <1> HIDE DEF top, s
  <1>6. \A j \in 1 .. Len(w) : st[w[j]] < s
    BY <1>3, <1>4
  <1>7. /\ \E st2 : /\ Staged(Q, keep, st2, top) /\ st2[l + 1] = s
                    /\ \A i \in 1 .. l : st2[i] = st[i]
        /\ Q.status = P.status /\ Len(Q.items) = l + 1
    <2>1. GrownOne(P, Q, keep, st, top, s)
      BY <1>1, <1>5, <1>6, GrowOne
    <2> QED
      BY <2>1 DEF GrownOne
  <1>8. PICK st2 : Staged(Q, keep, st2, top) /\ st2[l + 1] = s /\ \A i \in 1 .. l : st2[i] = st[i]
    BY <1>7
  <1> DEFINE g == l + 1
  <1>9. g - 1 = l /\ g = l + 1 /\ g \in 1 .. Len(Q.items)
    BY <1>2, <1>7
  <1> HIDE DEF g
  <1>10. st2[g] = m + 2 /\ \A i \in 1 .. g - 1 : st2[i] <= m
    BY <1>3, <1>8, <1>9 DEF s
  <1>11. Staged(Q, keep, st2, m + 3)
    BY <1>8 DEF top
  <1>12. Around(Q, keep, g, m)
    BY <1>2, <1>9, <1>10, <1>11 DEF Around
  <1> QED
    BY <1>2, <1>7, <1>12 DEF g

\* An item that g waits for.
LEMMA AroundPack ==
  ASSUME NEW Q, NEW keep, NEW g, NEW m, Around(Q, keep, g, m), NEW item, SoundItem(item, keep),
         NEW w \in Seq(1 .. g - 1), NEW R, R = LastIsAnteOf(AddItem(Q, item, w), g)
  PROVE  /\ Around(R, keep, g, m) /\ R.status = Q.status /\ R.out = Q.out
         /\ Len(R.items) = Len(Q.items) + 1
  <1> DEFINE l == Len(Q.items)
             top == m + 3
             s == m + 1
             A == AddItem(Q, item, w)
  <1>1. l \in Nat /\ m \in Nat /\ g \in 1 .. l /\ g - 1 \in Nat
    BY AroundFacts
  <1>2. PICK st : Staged(Q, keep, st, m + 3) /\ st[g] = m + 2 /\ \A i \in 1 .. g - 1 : st[i] <= m
    BY DEF Around
  <1>3. top \in Nat /\ s \in 1 .. top /\ top <= top
    BY <1>1
  <1>4. Len(w) \in Nat /\ \A j \in 1 .. Len(w) : w[j] \in 1 .. g - 1
    BY ElementIn
  <1>5. \A j \in 1 .. Len(w) : st[w[j]] < s
    <2>1. \A i \in 1 .. g - 1 : i \in 1 .. l
      BY <1>1
    <2>2. \A i \in 1 .. l : st[i] \in 1 .. m + 3
      BY <1>2 DEF Staged
    <2>3. \A i \in 1 .. g - 1 : st[i] < m + 1
      BY <1>1, <1>2, <2>1, <2>2
    <2> QED
      BY <1>4, <2>3
  <1>6. w \in Seq(1 .. l)
    <2>1. 1 .. g - 1 \subseteq 1 .. l
      BY <1>1
    <2> QED
      BY <2>1, WiderSeq
  <1>7. Staged(Q, keep, st, top)
    BY <1>2
  <1> HIDE DEF top, s, A
  <1>8. A = AddItem(Q, item, w)
    BY DEF A
  <1>9. /\ \E st2 : /\ Staged(A, keep, st2, top) /\ st2[l + 1] = s
                    /\ \A i \in 1 .. l : st2[i] = st[i]
        /\ A.status = Q.status /\ A.out = Q.out /\ Len(A.items) = l + 1
    <2>1. GrownOne(Q, A, keep, st, top, s)
      BY <1>3, <1>5, <1>6, <1>7, <1>8, GrowOne
    <2> QED
      BY <2>1 DEF GrownOne
  <1>10. PICK st2 : Staged(A, keep, st2, top) /\ st2[l + 1] = s /\ \A i \in 1 .. l : st2[i] = st[i]
    BY <1>9
  <1> DEFINE a == l + 1
  <1>11. a \in 1 .. Len(A.items) /\ g \in 1 .. Len(A.items) /\ R = AddAnte(A, g, a)
    BY <1>1, <1>9 DEF LastIsAnteOf, LastItem, A
  <1>12. st2[g] = m + 2 /\ st2[a] = m + 1
    BY <1>1, <1>2, <1>10 DEF s
  <1>13. st2[a] < st2[g]
    BY <1>1, <1>12
  <1> HIDE DEF a
  <1>14. Staged(R, keep, st2, top) /\ R.items = A.items /\ R.out = A.out /\ R.status = A.status
    BY <1>10, <1>11, <1>13, AnteStaged
  <1>15. ASSUME NEW i \in 1 .. g - 1
         PROVE  st2[i] <= m
    <2>1. i \in 1 .. l
      BY <1>1
    <2>2. st2[i] = st[i] /\ st[i] <= m
      BY <1>2, <1>10, <2>1
    <2> QED
      BY <2>2
  <1>16. Around(R, keep, g, m)
    BY <1>1, <1>11, <1>12, <1>14, <1>15 DEF Around, top
  <1> QED
    BY <1>9, <1>14, <1>16

\* An output item that waits for g.
LEMMA AroundUnpack ==
  ASSUME NEW Q, NEW keep, NEW g, NEW m, Around(Q, keep, g, m), NEW item, SoundItem(item, keep),
         Q.out \in Seq(1 .. Len(Q.items)), NEW R, R = LastIsOutput(AddItem(Q, item, <<g>>))
  PROVE  /\ Around(R, keep, g, m) /\ R.status = Q.status /\ R.out \in Seq(1 .. Len(R.items))
  <1> DEFINE l == Len(Q.items)
             top == m + 3
             s == m + 3
             w == <<g>>
             A == AddItem(Q, item, w)
  <1>1. l \in Nat /\ m \in Nat /\ g \in 1 .. l /\ g - 1 \in Nat
    BY AroundFacts
  <1>2. PICK st : Staged(Q, keep, st, m + 3) /\ st[g] = m + 2 /\ \A i \in 1 .. g - 1 : st[i] <= m
    BY DEF Around
  <1>3. top \in Nat /\ s \in 1 .. top /\ top <= top
    BY <1>1
  <1>4. w \in Seq(1 .. l) /\ \A j \in 1 .. Len(w) : w[j] = g
    BY <1>1
  <1>5. st[g] < s
    BY <1>1, <1>2
  <1>6. \A j \in 1 .. Len(w) : st[w[j]] < s
    BY <1>4, <1>5
  <1>7. Staged(Q, keep, st, top)
    BY <1>2
  <1>8. A = AddItem(Q, item, w)
    OBVIOUS
  <1> HIDE DEF top, s, w, A
  <1>9. /\ \E st2 : /\ Staged(A, keep, st2, top) /\ st2[l + 1] = s
                    /\ \A i \in 1 .. l : st2[i] = st[i]
        /\ A.status = Q.status /\ A.out = Q.out /\ Len(A.items) = l + 1
    <2>1. GrownOne(Q, A, keep, st, top, s)
      BY <1>3, <1>4, <1>6, <1>7, <1>8, GrowOne
    <2> QED
      BY <2>1 DEF GrownOne
  <1>10. PICK st2 : Staged(A, keep, st2, top) /\ st2[l + 1] = s /\ \A i \in 1 .. l : st2[i] = st[i]
    BY <1>9
  <1>11. /\ st2[g] = m + 2 /\ g \in 1 .. Len(A.items)
         /\ \A i \in 1 .. g - 1 : st2[i] <= m
    <2>1. st2[g] = m + 2
      BY <1>1, <1>2, <1>10
    <2>2. g \in 1 .. Len(A.items)
      BY <1>1, <1>9
    <2>3. ASSUME NEW i \in 1 .. g - 1
          PROVE  st2[i] <= m
      <3>1. i \in 1 .. l
        BY <1>1
      <3>2. st2[i] = st[i] /\ st[i] <= m
        BY <1>2, <1>10, <3>1
      <3> QED
        BY <3>2
    <2> QED
      BY <2>1, <2>2, <2>3
  <1>12. Around(A, keep, g, m)
    BY <1>1, <1>10, <1>11 DEF Around, top
  <1> DEFINE o == Append(A.out, Len(A.items))
  <1>13. R = WithOutputs(A, o)
    BY DEF LastIsOutput, LastItem, A, w
  <1>14. IsPlan(A)
    BY <1>12, AroundFacts
  <1> HIDE DEF o
  <1>15. IsPlan(R) /\ R.items = A.items /\ R.ante = A.ante /\ R.out = o /\ R.status = A.status
    BY <1>13, <1>14, WithOutputsFacts
  <1>16. Around(R, keep, g, m)
    BY <1>12, <1>15, AroundSame
  <1>17. o \in Seq(1 .. Len(A.items))
    <2> DEFINE z == l + 1
    <2>1. z \in 1 .. z /\ 1 .. l \subseteq 1 .. z /\ Len(A.items) = z
      BY <1>1, <1>9
    <2>2. Q.out \in Seq(1 .. l)
      OBVIOUS
    <2> HIDE DEF z
    <2>3. Q.out \in Seq(1 .. z)
      BY <2>1, <2>2, WiderSeq
    <2>4. Append(Q.out, z) \in Seq(1 .. z)
      BY <2>1, <2>3
    <2> QED
      BY <1>9, <2>1, <2>4 DEF o
  <1> QED
    BY <1>9, <1>15, <1>16, <1>17

\* Operations that copy to no input buffer of the user's.
Away(moves, keep) == keep => \A x \in moves : x.to[2][1] # "in"

\* A gather or scatter executes on the ranks of its operations.
LEMMA RanksOfSound ==
  ASSUME NEW keep, NEW root, NEW moves, Away(moves, keep)
  PROVE  SoundMoves(moves, RanksOf(moves, root), keep)
  <1>1. \A x \in moves : x.from[1] \in RanksOf(moves, root) /\ x.to[1] \in RanksOf(moves, root)
    BY DEF RanksOf
  <1> QED
    BY <1>1 DEF SoundMoves, Away

LEMMA AwayMore ==
  ASSUME NEW keep, NEW moves, Away(moves, keep), NEW dst, keep => dst[1] # "in",
         NEW srcRank, NEW src, NEW srcOff, NEW dstRank, NEW dstOff, NEW count
  PROVE  Away(moves \cup CopyMoves(srcRank, src, srcOff, dstRank, dst, dstOff, count), keep)
  BY DEF Away, CopyMoves

\* The communication gets its operations.
LEMMA AroundEnd ==
  ASSUME NEW Q, NEW keep, NEW g, NEW m, Around(Q, keep, g, m), NEW item, SoundItem(item, keep),
         Q.out \in Seq(1 .. Len(Q.items)), NEW R, R = AtLeastOutput(WithItem(Q, g, item), g)
  PROVE  (\E n \in Nat : Ready(R, keep, n)) /\ R.status = Q.status
  <1> DEFINE A == WithItem(Q, g, item)
             top == m + 3
             l == Len(Q.items)
  <1>1. PICK st : Staged(Q, keep, st, top)
    BY DEF Around
  <1>2. g \in 1 .. Len(Q.items)
    BY DEF Around
  <1> HIDE DEF top
  <1>3. Staged(A, keep, st, top) /\ Len(A.items) = Len(Q.items) /\ A.out = Q.out /\ A.status = Q.status
    BY <1>1, <1>2, ItemStaged
  <1>4. R = AtLeastOutput(A, g)
    OBVIOUS
  <1> HIDE DEF A
  <1>5. SoundPlan(A, keep) /\ IsPlan(A)
    BY <1>3 DEF SoundPlan, Staged
  <1>6. CASE A.out = <<>>
    <2> DEFINE o == <<g>>
    <2>1. R = WithOutputs(A, o)
      BY <1>4, <1>6 DEF AtLeastOutput
    <2>2. o \in Seq(1 .. l) /\ Len(o) = 1
      BY <1>2
    <2> HIDE DEF o
    <2>3. IsPlan(R) /\ R.items = A.items /\ R.ante = A.ante /\ R.out = o /\ R.status = A.status
      BY <1>5, <2>1, WithOutputsFacts
    <2>4. SoundPlan(R, keep)
      BY <1>5, <2>3, SameSound
    <2>5. Ready(R, keep, 1)
      BY <1>3, <2>2, <2>3, <2>4 DEF Ready
    <2> QED
      BY <1>3, <2>3, <2>5
  <1>7. CASE A.out # <<>>
    <2>1. R = A
      BY <1>4, <1>7 DEF AtLeastOutput
    <2> DEFINE n == Len(A.out)
    <2>2. A.out \in Seq(1 .. Len(A.items)) /\ n \in Nat
      BY <1>3
    <2>3. Ready(A, keep, n)
      BY <1>5, <2>2 DEF Ready
    <2> HIDE DEF n
    <2> QED
      BY <1>3, <2>1, <2>2, <2>3
  <1> QED
    BY <1>6, <1>7

\* A lease in between.
LEMMA LeaseOneAround ==
  ASSUME NEW Q, NEW keep, NEW g, NEW m, Around(Q, keep, g, m), NEW loc, NEW bytes,
         NEW L, L = LeaseOne(Q, loc, bytes)
  PROVE  Around(L, keep, g, m) /\ L.items = Q.items /\ L.out = Q.out /\ L.status = Q.status
  <1>1. SamePlan(Q, L)
    BY AroundFacts, LeasesSame
  <1> QED
    BY <1>1, AroundSame DEF SamePlan

LEMMA LastTempSpares ==
  ASSUME NEW L
  PROVE  LastTemp(L)[1] # "in"
  BY TempSpares DEF LastTemp

LEMMA EmptyIsSeq ==
  ASSUME NEW S
  PROVE  <<>> \in Seq(S)
  OBVIOUS

\* A buffer that is none of the user's input.
Spare(buf, keep) == keep => buf[1] # "in"

\* The operations of a gather, its packs and its unpacks.
LEMMA GatherThroughSound ==
  ASSUME NEW c, IsASeq(c.inF), NEW keep, NEW Q, NEW g, NEW m, Around(Q, keep, g, m),
         NEW output, Spare(output, keep), NEW dest, Spare(dest, keep),
         NEW W, W = GatherThrough(Q, c, g, output, dest)
  PROVE  (\E n \in Nat : Ready(W, keep, n)) /\ W.status = Q.status
  <1> DEFINE bricks == c.inF
             user == UserBuffers("in", bricks)
             direct(b) == IsContiguous(b) /\ IsContiguousInField(b, c.ilen)
             packItem(L, b, i, off) ==
               TransposeBrick(InKind(c), b.rank, Length(b), user[i], 0, b.stride,
                              LastTemp(L), off, ContiguousStrides(b))
             pack(L, b, i, off) == LastIsAnteOf(AddItem(L, packItem(L, b, i, off), <<>>), g)
             packed(R, b, i, off) ==
               IF IsContiguous(b) THEN R
               ELSE pack(LeaseOne(R, Loc(b), CountElems(b) * ElemSize(InKind(c))), b, i, off)
             unpackItem(b, off) ==
               TransposeBrick(InKind(c), Root[1], Length(b), dest, off, ContiguousStrides(b), output,
                              OffsetInField(b, c.istride), c.istride)
             unpacked(R, b, off) ==
               IF direct(b) THEN R ELSE LastIsOutput(AddItem(R, unpackItem(b, off), <<g>>))
             copies(R, b, i, off) ==
               CopyMoves(b.rank, IF IsContiguous(b) THEN user[i] ELSE LastTemp(R), 0,
                         Root[1], dest, off, CountElems(b))
             brick(S, R, b, i, off) ==
               [P |-> unpacked(R, b, off), moves |-> S.moves \cup copies(R, b, i, off)]
             oneBrick(S, b, i, off) == brick(S, packed(S.P, b, i, off), b, i, off)
             gather(S) == AtLeastOutput(WithItem(S.P, g, Comm("gather", InKind(c), RanksOf(S.moves, Root[1]),
                                                              S.moves, {dest})), g)
  <1> DEFINE N == Len(bricks)
             start == [P |-> NoOutputs(Q), moves |-> {}]
             step(S, k) == oneBrick(S, bricks[k], k, ElemsBefore(bricks, k))
             Rec(fn, top) == fn = [k \in 0 .. top |-> IF k = 0 THEN start ELSE step(fn[k - 1], k)]
             Exist == {top \in Nat : \E fn : Rec(fn, top)}
             f == CHOOSE fn : Rec(fn, N)
  <1>N. N \in Nat
    BY SeqFacts
  <1> HIDE DEF step, start
  <1>r1. 0 \in Exist
    <2>1. Rec([k \in 0 .. 0 |-> start], 0)
      OBVIOUS
    <2> QED
      BY <2>1
  <1>r2. ASSUME NEW w \in Nat, w \in Exist
         PROVE  w + 1 \in Exist
    <2>1. PICK fn : Rec(fn, w)
      BY <1>r2
    <2> DEFINE h == [k \in 0 .. w + 1 |-> IF k <= w THEN fn[k] ELSE step(fn[w], w + 1)]
    <2>2. Rec(h, w + 1)
      BY <2>1
    <2> HIDE DEF h
    <2>3. \E x : Rec(x, w + 1)
      BY <2>2
    <2> HIDE DEF Rec
    <2> QED
      BY <2>3
  <1> HIDE DEF Exist
  <1>r3. \A top \in Nat : top \in Exist
    BY <1>r1, <1>r2, SetInduction
  <1>r4. \E fn : Rec(fn, N)
    BY <1>N, <1>r3 DEF Exist
  <1> HIDE DEF Rec
  <1>r5. Rec(f, N)
    BY <1>r4
  <1> HIDE DEF f
  <1>r. f[0] = start /\ \A k \in 1 .. N : f[k] = step(f[k - 1], k)
    <2>1. f = [k \in 0 .. N |-> IF k = 0 THEN start ELSE step(f[k - 1], k)]
      BY <1>r5 DEF Rec
    <2>2. f[0] = start
      BY <1>N, <2>1
    <2>3. ASSUME NEW k \in 1 .. N
          PROVE  f[k] = step(f[k - 1], k)
      BY <1>N, <2>1
    <2> QED
      BY <2>2, <2>3
  <1>1. W = gather(f[N])
    BY DEF GatherThrough, f, Rec, start, step, N
  <1> DEFINE GoodPlan(R) == /\ Around(R, keep, g, m) /\ R.status = Q.status
                            /\ R.out \in Seq(1 .. Len(R.items))
             Good(S) == GoodPlan(S.P) /\ Away(S.moves, keep)
  <1>2. Good(f[0])
    <2> DEFINE R == NoOutputs(Q)
               o == <<>>
    <2>1. IsPlan(Q) /\ R = WithOutputs(Q, o)
      BY AroundFacts DEF NoOutputs
    <2>2. o \in Seq(1 .. Len(R.items))
      BY EmptyIsSeq
    <2> HIDE DEF R, o
    <2>3. IsPlan(R) /\ R.items = Q.items /\ R.ante = Q.ante /\ R.out = o /\ R.status = Q.status
      BY <2>1, WithOutputsFacts
    <2>4. Around(R, keep, g, m)
      BY <2>3, AroundSame
    <2>5. f[0].P = R /\ f[0].moves = {}
      BY <1>r DEF start, R
    <2> QED
      BY <2>2, <2>3, <2>4, <2>5 DEF Away
  <1>3. ASSUME NEW S, Good(S), NEW b, NEW i, NEW off
        PROVE  Good(oneBrick(S, b, i, off))
    <2> DEFINE R == packed(S.P, b, i, off)
               U == unpacked(R, b, off)
               mv == S.moves \cup copies(R, b, i, off)
    <2>1. GoodPlan(R)
      <3>1. CASE IsContiguous(b)
        BY <1>3, <3>1
      <3>2. CASE ~ IsContiguous(b)
        <4> DEFINE O == S.P
                   bytes == CountElems(b) * ElemSize(InKind(c))
                   L == LeaseOne(O, Loc(b), bytes)
                   item == packItem(L, b, i, off)
                   w == <<>>
        <4>1. R = LastIsAnteOf(AddItem(L, item, w), g)
          BY <3>2
        <4>2. GoodPlan(O)
          BY <1>3
        <4>6. w \in Seq(1 .. g - 1)
          BY EmptyIsSeq
        <4> HIDE DEF O, R, w, bytes
        <4>3. GoodPlan(L)
          BY <4>2, LeaseOneAround
        <4>4. SoundItem(item, keep)
          BY LastTempSpares, TransposeSound
        <4> HIDE DEF L, item
        <4>5. /\ Around(R, keep, g, m) /\ R.status = L.status /\ R.out = L.out
              /\ Len(R.items) = Len(L.items) + 1
          BY <4>1, <4>3, <4>4, <4>6, AroundPack
        <4>7. L.out \in Seq(1 .. Len(L.items)) /\ 1 .. Len(L.items) \subseteq 1 .. Len(L.items) + 1
          BY <4>3, AroundFacts
        <4>8. R.out \in Seq(1 .. Len(R.items))
          BY <4>5, <4>7, WiderSeq
        <4> QED
          BY <4>3, <4>5, <4>8
      <3> QED
        BY <3>1, <3>2
    <2> HIDE DEF R, packed
    <2>2. GoodPlan(U)
      <3>1. CASE direct(b)
        BY <2>1, <3>1
      <3>2. CASE ~ direct(b)
        <4> DEFINE item == unpackItem(b, off)
        <4>1. U = LastIsOutput(AddItem(R, item, <<g>>))
          BY <3>2
        <4>2. SoundItem(item, keep)
          BY TransposeSound DEF Spare
        <4> HIDE DEF item, U
        <4>3. Around(U, keep, g, m) /\ U.status = R.status /\ U.out \in Seq(1 .. Len(U.items))
          BY <2>1, <4>1, <4>2, AroundUnpack
        <4> QED
          BY <2>1, <4>3
      <3> HIDE DEF direct
      <3> QED
        BY <3>1, <3>2
    <2>3. Away(mv, keep)
      BY <1>3, AwayMore DEF Spare
    <2>4. oneBrick(S, b, i, off) = [P |-> U, moves |-> mv]
      BY DEF R
    <2> HIDE DEF U, mv, oneBrick, GoodPlan
    <2>5. oneBrick(S, b, i, off).P = U /\ oneBrick(S, b, i, off).moves = mv
      BY <2>4
    <2> QED
      BY <2>2, <2>3, <2>5
  <1> HIDE DEF Good, oneBrick, GoodPlan, bricks
  <1> DEFINE T == {k \in 0 .. N : Good(f[k])}
  <1>4. 0 \in T
    BY <1>N, <1>2
  <1>5. ASSUME NEW k \in 0 .. N, k < N, k \in T
        PROVE  k + 1 \in T
    <2>1. k + 1 \in 1 .. N /\ (k + 1) - 1 = k /\ Good(f[k])
      BY <1>N, <1>5
    <2>2. f[k + 1] = oneBrick(f[k], bricks[k + 1], k + 1, ElemsBefore(bricks, k + 1))
      BY <1>r, <2>1 DEF step
    <2>3. Good(f[k + 1])
      BY <1>3, <2>1, <2>2
    <2> QED
      BY <1>N, <2>1, <2>3
  <1> HIDE DEF T
  <1>6. \A k \in 0 .. N : k \in T
    BY <1>N, <1>4, <1>5, UpToInduction
  <1>7. Good(f[N])
    BY <1>N, <1>6 DEF T
  <1> DEFINE O == f[N].P
             mv == f[N].moves
             item == Comm("gather", InKind(c), RanksOf(mv, Root[1]), mv, {dest})
  <1>8. W = AtLeastOutput(WithItem(O, g, item), g)
    BY <1>1
  <1>9. /\ Around(O, keep, g, m) /\ O.status = Q.status /\ O.out \in Seq(1 .. Len(O.items))
        /\ Away(mv, keep)
    BY <1>7 DEF Good, GoodPlan
  <1> HIDE DEF O, mv
  <1>10. SoundItem(item, keep)
    <2> DEFINE ranks == RanksOf(mv, Root[1])
    <2>1. SoundMoves(mv, ranks, keep)
      BY <1>9, RanksOfSound
    <2> HIDE DEF ranks
    <2> QED
      BY <2>1, CommSound DEF ranks
  <1> HIDE DEF item
  <1>11. (\E n \in Nat : Ready(W, keep, n)) /\ W.status = O.status
    BY <1>8, <1>9, <1>10, AroundEnd
  <1> QED
    BY <1>9, <1>11

\* GatherBricksToField.
LEMMA GatherSound ==
  ASSUME NEW c, IsASeq(c.inF), NEW keep, NEW P, SoundPlan(P, keep),
         NEW output, Spare(output, keep), NEW Q, Q = GatherBricksToField(P, c, output)
  PROVE  (\E n \in Nat : Ready(Q, keep, n)) /\ Q.status = P.status
  <1> DEFINE toTemp == \E i \in DOMAIN c.inF :
                         ~ (IsContiguous(c.inF[i]) /\ IsContiguousInField(c.inF[i], c.ilen))
             g == Len(P.items) + 1
             none == Comm("gather", InKind(c), {}, {}, {})
             w == <<>>
             A == AddItem(P, none, w)
             L == LeaseOne(A, Root, Product(c.ilen) * ElemSize(InKind(c)))
             B == IF toTemp THEN L ELSE A
             dest == IF toTemp THEN LastTemp(L) ELSE output
             W == GatherThrough(B, c, g, output, dest)
  <1>1. Q = ReturnAfter(W, Len(Held(P)))
    <2>1. CASE toTemp
      BY <2>1 DEF GatherBricksToField, LastItem
    <2>2. CASE ~ toTemp
      BY <2>2 DEF GatherBricksToField, LastItem
    <2> HIDE DEF toTemp
    <2> QED
      BY <2>1, <2>2
  <1>2. SoundItem(none, keep)
    BY CommSound DEF SoundMoves
  <1>3. w \in Seq(1 .. Len(P.items))
    BY EmptyIsSeq
  <1> HIDE DEF toTemp, none, w
  <1>4. (\E m \in Nat : Around(A, keep, Len(P.items) + 1, m)) /\ A.status = P.status
    BY <1>2, <1>3, AroundStart
  <1>5. PICK m \in Nat : Around(A, keep, g, m)
    BY <1>4
  <1> HIDE DEF g, A
  <1>6. Around(L, keep, g, m) /\ L.status = A.status
    BY <1>5, LeaseOneAround
  <1> HIDE DEF L
  <1>7. Around(B, keep, g, m) /\ B.status = P.status
    BY <1>4, <1>5, <1>6
  <1>8. Spare(dest, keep)
    BY LastTempSpares DEF Spare
  <1> HIDE DEF B, dest
  <1>w. W = GatherThrough(B, c, g, output, dest)
    OBVIOUS
  <1> HIDE DEF W
  <1>9. (\E n \in Nat : Ready(W, keep, n)) /\ W.status = B.status
    BY <1>7, <1>8, <1>w, GatherThroughSound
  <1>10. PICK n \in Nat : Ready(W, keep, n)
    BY <1>9
  <1>11. IsPlan(W)
    BY <1>10, SoundPlanFacts DEF Ready
  <1>12. SamePlan(W, Q)
    BY <1>1, <1>11, LeasesSame
  <1>13. Ready(Q, keep, n) /\ Q.status = W.status
    BY <1>10, <1>12, SameReady
  <1> QED
    BY <1>7, <1>9, <1>13

\* The operations of a scatter, its packs and its unpacks.
LEMMA ScatterThroughSound ==
  ASSUME NEW c, IsASeq(c.outF), NEW keep, NEW Q, NEW s, NEW m, Around(Q, keep, s, m),
         NEW input, NEW ante \in 1 .. s - 1, NEW src, Spare(src, keep),
         NEW W, W = ScatterThrough(Q, c, s, input, ante, src)
  PROVE  (\E n \in Nat : Ready(W, keep, n)) /\ W.status = Q.status
  <1> DEFINE bricks == c.outF
             user == UserBuffers("out", bricks)
             direct(b) == IsContiguousInField(b, c.ilen)
             packItem(b, off) ==
               TransposeBrick(OutKind(c), Root[1], Length(b), input, OffsetInField(b, c.ostride), c.ostride,
                              src, off, ContiguousStrides(b))
             packed(R, b, off) ==
               IF direct(b) THEN R ELSE LastIsAnteOf(AddItem(R, packItem(b, off), <<ante>>), s)
             received(b) == direct(b) \/ IsContiguous(b)
             unpackItem(L, b, i) ==
               TransposeBrick(OutKind(c), b.rank, Length(b), LastTemp(L), 0, ContiguousStrides(b),
                              user[i], 0, b.stride)
             unpack(L, b, i) == LastIsOutput(AddItem(L, unpackItem(L, b, i), <<s>>))
             unpacked(R, b, i) ==
               IF received(b) THEN R
               ELSE unpack(LeaseOne(R, Loc(b), CountElems(b) * ElemSize(OutKind(c))), b, i)
             copies(b, off, dst) == CopyMoves(Root[1], src, off, b.rank, dst, 0, CountElems(b))
             copied(S, R, b, off, dst) ==
               [P |-> R, dests |-> S.dests \cup {dst}, moves |-> S.moves \cup copies(b, off, dst)]
             brick(S, R, b, i, off) == copied(S, R, b, off, IF received(b) THEN user[i] ELSE LastTemp(R))
             oneBrick(S, b, i, off) == brick(S, unpacked(packed(S.P, b, off), b, i), b, i, off)
             scatter(S) == AtLeastOutput(WithItem(S.P, s, Comm("scatter", OutKind(c), RanksOf(S.moves, Root[1]),
                                                               S.moves, S.dests)), s)
  <1> DEFINE N == Len(bricks)
             start == [P |-> NoOutputs(Q), moves |-> {}, dests |-> {}]
             step(S, k) == oneBrick(S, bricks[k], k, ElemsBefore(bricks, k))
             Rec(fn, top) == fn = [k \in 0 .. top |-> IF k = 0 THEN start ELSE step(fn[k - 1], k)]
             Exist == {top \in Nat : \E fn : Rec(fn, top)}
             f == CHOOSE fn : Rec(fn, N)
  <1>N. N \in Nat
    BY SeqFacts
  <1> HIDE DEF step, start
  <1>r1. 0 \in Exist
    <2>1. Rec([k \in 0 .. 0 |-> start], 0)
      OBVIOUS
    <2> QED
      BY <2>1
  <1>r2. ASSUME NEW w \in Nat, w \in Exist
         PROVE  w + 1 \in Exist
    <2>1. PICK fn : Rec(fn, w)
      BY <1>r2
    <2> DEFINE h == [k \in 0 .. w + 1 |-> IF k <= w THEN fn[k] ELSE step(fn[w], w + 1)]
    <2>2. Rec(h, w + 1)
      BY <2>1
    <2> HIDE DEF h
    <2>3. \E x : Rec(x, w + 1)
      BY <2>2
    <2> HIDE DEF Rec
    <2> QED
      BY <2>3
  <1> HIDE DEF Exist
  <1>r3. \A top \in Nat : top \in Exist
    BY <1>r1, <1>r2, SetInduction
  <1>r4. \E fn : Rec(fn, N)
    BY <1>N, <1>r3 DEF Exist
  <1> HIDE DEF Rec
  <1>r5. Rec(f, N)
    BY <1>r4
  <1> HIDE DEF f
  <1>r. f[0] = start /\ \A k \in 1 .. N : f[k] = step(f[k - 1], k)
    <2>1. f = [k \in 0 .. N |-> IF k = 0 THEN start ELSE step(f[k - 1], k)]
      BY <1>r5 DEF Rec
    <2>2. f[0] = start
      BY <1>N, <2>1
    <2>3. ASSUME NEW k \in 1 .. N
          PROVE  f[k] = step(f[k - 1], k)
      BY <1>N, <2>1
    <2> QED
      BY <2>2, <2>3
  <1>1. W = scatter(f[N])
    BY DEF ScatterThrough, f, Rec, start, step, N
  <1> DEFINE GoodPlan(R) == /\ Around(R, keep, s, m) /\ R.status = Q.status
                            /\ R.out \in Seq(1 .. Len(R.items))
             Good(S) == GoodPlan(S.P) /\ Away(S.moves, keep)
  <1>2. Good(f[0])
    <2> DEFINE R == NoOutputs(Q)
               o == <<>>
    <2>1. IsPlan(Q) /\ R = WithOutputs(Q, o)
      BY AroundFacts DEF NoOutputs
    <2>2. o \in Seq(1 .. Len(R.items))
      BY EmptyIsSeq
    <2> HIDE DEF R, o
    <2>3. IsPlan(R) /\ R.items = Q.items /\ R.ante = Q.ante /\ R.out = o /\ R.status = Q.status
      BY <2>1, WithOutputsFacts
    <2>4. Around(R, keep, s, m)
      BY <2>3, AroundSame
    <2>5. f[0].P = R /\ f[0].moves = {}
      BY <1>r DEF start, R
    <2> QED
      BY <2>2, <2>3, <2>4, <2>5 DEF Away
  <1>u. \A i \in 1 .. N : user[i][1] # "in"
    <2>1. DOMAIN bricks = 1 .. N
      BY SeqFacts DEF N
    <2> HIDE DEF bricks
    <2> QED
      BY <2>1 DEF UserBuffers
  <1> HIDE DEF user, N
  <1>3. ASSUME NEW S, Good(S), NEW b, NEW i \in 1 .. N, NEW off
        PROVE  Good(oneBrick(S, b, i, off))
    <2> DEFINE R == packed(S.P, b, off)
               U == unpacked(R, b, i)
               dst == IF received(b) THEN user[i] ELSE LastTemp(U)
               mv == S.moves \cup copies(b, off, dst)
               ds == S.dests \cup {dst}
    <2>1. GoodPlan(R)
      <3>1. CASE direct(b)
        BY <1>3, <3>1
      <3>2. CASE ~ direct(b)
        <4> DEFINE O == S.P
                   item == packItem(b, off)
                   w == <<ante>>
        <4>1. R = LastIsAnteOf(AddItem(O, item, w), s)
          BY <3>2
        <4>2. GoodPlan(O)
          BY <1>3
        <4>3. w \in Seq(1 .. s - 1)
          OBVIOUS
        <4>4. SoundItem(item, keep)
          BY TransposeSound DEF Spare
        <4> HIDE DEF O, R, w, item
        <4>5. /\ Around(R, keep, s, m) /\ R.status = O.status /\ R.out = O.out
              /\ Len(R.items) = Len(O.items) + 1
          BY <4>1, <4>2, <4>3, <4>4, AroundPack
        <4>6. O.out \in Seq(1 .. Len(O.items)) /\ 1 .. Len(O.items) \subseteq 1 .. Len(O.items) + 1
          BY <4>2, AroundFacts
        <4>7. R.out \in Seq(1 .. Len(R.items))
          BY <4>5, <4>6, WiderSeq
        <4> QED
          BY <4>2, <4>5, <4>7
      <3> HIDE DEF direct
      <3> QED
        BY <3>1, <3>2
    <2> HIDE DEF R, packed
    <2>2. GoodPlan(U)
      <3>1. CASE received(b)
        BY <2>1, <3>1
      <3>2. CASE ~ received(b)
        <4> DEFINE bytes == CountElems(b) * ElemSize(OutKind(c))
                   L == LeaseOne(R, Loc(b), bytes)
                   item == unpackItem(L, b, i)
        <4>1. U = LastIsOutput(AddItem(L, item, <<s>>))
          BY <3>2
        <4>2. SoundItem(item, keep)
          BY <1>u, TransposeSound
        <4> HIDE DEF item, U, bytes
        <4>3. GoodPlan(L)
          BY <2>1, LeaseOneAround
        <4> HIDE DEF L
        <4>4. Around(U, keep, s, m) /\ U.status = L.status /\ U.out \in Seq(1 .. Len(U.items))
          <5>1. Around(L, keep, s, m) /\ L.out \in Seq(1 .. Len(L.items))
            BY <4>3
          <5> HIDE DEF GoodPlan
          <5> QED
            BY <4>1, <4>2, <5>1, AroundUnpack
        <4> QED
          BY <4>3, <4>4
      <3> HIDE DEF received
      <3> QED
        BY <3>1, <3>2
    <2>3. oneBrick(S, b, i, off) = [P |-> U, dests |-> ds, moves |-> mv]
      BY DEF R
    <2> HIDE DEF U, oneBrick, GoodPlan, received
    <2>4. dst[1] # "in"
      BY <1>u, LastTempSpares
    <2> HIDE DEF dst
    <2>5. Away(mv, keep)
      BY <1>3, <2>4, AwayMore
    <2> HIDE DEF mv, ds
    <2>6. oneBrick(S, b, i, off).P = U /\ oneBrick(S, b, i, off).moves = mv
      BY <2>3
    <2> QED
      BY <2>2, <2>5, <2>6
  <1> HIDE DEF Good, oneBrick, GoodPlan, bricks
  <1> DEFINE T == {k \in 0 .. N : Good(f[k])}
  <1>4. 0 \in T
    BY <1>N, <1>2
  <1>5. ASSUME NEW k \in 0 .. N, k < N, k \in T
        PROVE  k + 1 \in T
    <2>1. k + 1 \in 1 .. N /\ (k + 1) - 1 = k /\ Good(f[k])
      BY <1>N, <1>5
    <2>2. f[k + 1] = oneBrick(f[k], bricks[k + 1], k + 1, ElemsBefore(bricks, k + 1))
      BY <1>r, <2>1 DEF step
    <2>3. Good(f[k + 1])
      BY <1>3, <2>1, <2>2
    <2> QED
      BY <1>N, <2>1, <2>3
  <1> HIDE DEF T
  <1>6. \A k \in 0 .. N : k \in T
    BY <1>N, <1>4, <1>5, UpToInduction
  <1>7. Good(f[N])
    BY <1>N, <1>6 DEF T
  <1> DEFINE O == f[N].P
             mv == f[N].moves
             item == Comm("scatter", OutKind(c), RanksOf(mv, Root[1]), mv, f[N].dests)
  <1>8. W = AtLeastOutput(WithItem(O, s, item), s)
    BY <1>1
  <1>9. /\ Around(O, keep, s, m) /\ O.status = Q.status /\ O.out \in Seq(1 .. Len(O.items))
        /\ Away(mv, keep)
    BY <1>7 DEF Good, GoodPlan
  <1> HIDE DEF O, mv
  <1>10. SoundItem(item, keep)
    <2> DEFINE ranks == RanksOf(mv, Root[1])
    <2>1. SoundMoves(mv, ranks, keep)
      BY <1>9, RanksOfSound
    <2> HIDE DEF ranks
    <2> QED
      BY <2>1, CommSound DEF ranks
  <1> HIDE DEF item
  <1>11. (\E n \in Nat : Ready(W, keep, n)) /\ W.status = O.status
    BY <1>8, <1>9, <1>10, AroundEnd
  <1> QED
    BY <1>9, <1>11

\* ScatterFieldToBricks.
LEMMA ScatterSound ==
  ASSUME NEW c, IsASeq(c.outF), NEW keep, NEW P, SoundPlan(P, keep), NEW ante \in 1 .. Len(P.items),
         NEW input, Spare(input, keep), NEW Q, Q = ScatterFieldToBricks(P, c, input, ante)
  PROVE  (\E n \in Nat : Ready(Q, keep, n)) /\ Q.status = P.status
  <1> DEFINE fromTemp == \E i \in DOMAIN c.outF : ~ IsContiguousInField(c.outF[i], c.ilen)
             s == Len(P.items) + 1
             none == Comm("scatter", OutKind(c), {}, {}, {})
             w == <<ante>>
             A == AddItem(P, none, w)
             L == LeaseOne(A, Root, Product(c.ilen) * ElemSize(OutKind(c)))
             B == IF fromTemp THEN L ELSE A
             src == IF fromTemp THEN LastTemp(L) ELSE input
             W == ScatterThrough(B, c, s, input, ante, src)
  <1>1. Q = ReturnAfter(W, Len(Held(P)))
    <2>1. CASE fromTemp
      BY <2>1 DEF ScatterFieldToBricks, LastItem
    <2>2. CASE ~ fromTemp
      BY <2>2 DEF ScatterFieldToBricks, LastItem
    <2> HIDE DEF fromTemp
    <2> QED
      BY <2>1, <2>2
  <1>2. SoundItem(none, keep)
    BY CommSound DEF SoundMoves
  <1>3. w \in Seq(1 .. Len(P.items))
    OBVIOUS
  <1>a. ante \in 1 .. s - 1
    BY SoundPlanFacts
  <1> HIDE DEF fromTemp, none, w
  <1>4. (\E m \in Nat : Around(A, keep, Len(P.items) + 1, m)) /\ A.status = P.status
    BY <1>2, <1>3, AroundStart
  <1>5. PICK m \in Nat : Around(A, keep, s, m)
    BY <1>4
  <1> HIDE DEF s, A
  <1>6. Around(L, keep, s, m) /\ L.status = A.status
    BY <1>5, LeaseOneAround
  <1> HIDE DEF L
  <1>7. Around(B, keep, s, m) /\ B.status = P.status
    BY <1>4, <1>5, <1>6
  <1>8. Spare(src, keep)
    BY LastTempSpares DEF Spare
  <1> HIDE DEF B, src
  <1>w. W = ScatterThrough(B, c, s, input, ante, src)
    OBVIOUS
  <1> HIDE DEF W
  <1>9. (\E n \in Nat : Ready(W, keep, n)) /\ W.status = B.status
    BY <1>7, <1>8, <1>a, <1>w, ScatterThroughSound
  <1>10. PICK n \in Nat : Ready(W, keep, n)
    BY <1>9
  <1>11. IsPlan(W)
    BY <1>10, SoundPlanFacts DEF Ready
  <1>12. SamePlan(W, Q)
    BY <1>1, <1>11, LeasesSame
  <1>13. Ready(Q, keep, n) /\ Q.status = W.status
    BY <1>10, <1>12, SameReady
  <1> QED
    BY <1>7, <1>9, <1>13

------------------------------------------------------------------------------
(* GatherScatterSingleDevicePlan and rocfft_plan_create *)

\* The transform on the root device.
LEMMA RootFFTSound ==
  ASSUME NEW c, NEW keep, NEW in, NEW out, Spare(out, keep)
  PROVE  SoundItem(RootFFT(c, in, out), keep)
  <1> DEFINE lower == [d \in DOMAIN c.olen |-> 0]
             cells == ArrayCells(Root[1], out, lower, c.olen, c.ostride)
             from == ArrayCells(Root[1], in, [d \in DOMAIN c.ilen |-> 0], c.ilen, c.istride)
  <1>1. \A x \in cells : x.cell[2] = out
    BY CellsOfArray
  <1>2. RootFFT(c, in, out) = FFTItem(Root[1], 1 .. NumDims(c), from, cells,
                                      ElemSize(InKind(c)), ElemSize(OutKind(c)), out)
    BY DEF RootFFT
  <1> HIDE DEF cells, from
  <1>3. keep => \A x \in cells : x.cell[2][1] # "in"
    BY <1>1 DEF Spare
  <1> QED
    BY <1>2, <1>3, FFTSound

\* An item added after any others.
LEMMA AddedLast ==
  ASSUME NEW P, NEW keep, SoundPlan(P, keep), NEW item, SoundItem(item, keep),
         NEW w \in Seq(1 .. Len(P.items)), NEW Q, Q = AddItem(P, item, w)
  PROVE  SoundPlan(Q, keep) /\ Q.status = P.status /\ Len(Q.items) \in 1 .. Len(Q.items)
  <1>1. (\E m \in Nat : Around(Q, keep, Len(P.items) + 1, m)) /\ Q.status = P.status
    BY AroundStart
  <1> DEFINE g == Len(P.items) + 1
  <1>2. PICK m \in Nat : Around(Q, keep, g, m)
    BY <1>1
  <1>3. Len(P.items) \in Nat
    BY SoundPlanFacts
  <1>4. g \in Nat /\ g >= 1
    BY <1>3
  <1> HIDE DEF g
  <1>5. SoundPlan(Q, keep) /\ Len(Q.items) \in Nat /\ g \in 1 .. Len(Q.items)
    BY <1>2, AroundFacts
  <1> QED
    BY <1>1, <1>4, <1>5

\* GatherScatterSingleDevicePlan.
LEMMA GatherScatterSound ==
  ASSUME NEW c, FieldsOK(c), c.inF # <<>> \/ c.outF # <<>>, NEW keep, NEW P, SoundPlan(P, keep),
         NEW Q, Q = GatherScatterSingleDevicePlan(c, P)
  PROVE  IsPlan(Q) /\ (Q.status = "ok" => SoundPlan(Q, keep))
  <1> DEFINE useFFTBuf == c.inF # <<>> /\ (~ IsContiguousOutput(c) \/ c.outF # <<>>)
             useOutBuf == ~ c.inplace /\ c.outF # <<>>
             fftBuf(O) == IF useFFTBuf
                            THEN LeaseOne(O, Root, PtrDiff(c.ilen, c.istride) * ElemSize(InKind(c))) ELSE O
             outBuf(O) == IF useOutBuf
                            THEN LeaseOne(O, Root, PtrDiff(c.olen, c.ostride) * ElemSize(OutKind(c))) ELSE O
             B1 == fftBuf(P)
             B == outBuf(B1)
             in == CASE useFFTBuf -> Temp(Held(B)[1])
                     [] ~ useFFTBuf /\ c.inF = <<>> -> <<"in", 0>>
                     [] OTHER -> <<"out", 0>>
             out == CASE RootInPlace(c) -> in
                      [] ~ RootInPlace(c) /\ useOutBuf -> LastTemp(B)
                      [] OTHER -> <<"out", 0>>
             G == IF c.inF = <<>> THEN NoOutputs(B) ELSE GatherBricksToField(B, c, in)
             F == AddItem(G, RootFFT(c, in, out), G.out)
             haveSrc == IF RootInPlace(c) THEN useFFTBuf ELSE useOutBuf
             S == CASE c.outF = <<>> -> F
                    [] c.outF # <<>> /\ haveSrc -> ScatterFieldToBricks(F, c, out, LastItem(F))
                    [] OTHER -> FailWith(F, "nullptr")
  <1>1. Q = IF S.status = "ok" THEN Return(S, Reverse(Held(S))) ELSE S
    BY DEF GatherScatterSingleDevicePlan
  <1>2. IsPlan(P)
    BY SoundPlanFacts
  <1>i. c.inF # <<>> => Spare(in, keep)
    BY TempSpares DEF Spare
  <1>o. Spare(out, keep)
    <2>1. CASE RootInPlace(c)
      <3>1. c.inF # <<>>
        BY <2>1 DEF RootInPlace
      <3>2. out = in
        BY <2>1
      <3> QED
        BY <1>i, <3>1, <3>2
    <2>2. CASE ~ RootInPlace(c)
      BY <2>2, LastTempSpares DEF Spare
    <2> QED
      BY <2>1, <2>2
  <1> HIDE DEF useFFTBuf, useOutBuf, in, out
  <1>3. SamePlan(P, B1)
    BY <1>2, LeasesSame DEF SamePlan
  <1> HIDE DEF B1
  <1>4. SamePlan(B1, B)
    BY <1>3, LeasesSame DEF SamePlan
  <1> HIDE DEF B
  <1>5. SoundPlan(B, keep)
    <2>1. SoundPlan(B1, keep)
      BY <1>3, SameSound DEF SamePlan
    <2> QED
      BY <1>4, <2>1, SameSound DEF SamePlan
  <1>6. \E n \in Nat : Ready(G, keep, n)
    <2>1. CASE c.inF = <<>>
      BY <1>5, <2>1, NoOutputsReady
    <2>2. CASE c.inF # <<>>
      <3>1. IsASeq(c.inF)
        BY DEF FieldsOK
      <3> QED
        BY <1>5, <1>i, <2>2, <3>1, GatherSound
    <2> QED
      BY <2>1, <2>2
  <1> HIDE DEF G
  <1>7. SoundPlan(G, keep) /\ G.out \in Seq(1 .. Len(G.items))
    BY <1>6 DEF Ready
  <1>8. SoundPlan(F, keep) /\ Len(F.items) \in 1 .. Len(F.items)
    <2> DEFINE item == RootFFT(c, in, out)
               w == G.out
    <2>1. SoundItem(item, keep)
      BY <1>o, RootFFTSound
    <2>2. F = AddItem(G, item, w)
      OBVIOUS
    <2> HIDE DEF item, w, F
    <2> QED
      BY <1>7, <2>1, <2>2, AddedLast DEF w
  <1> HIDE DEF F, haveSrc
  <1>9. IsPlan(F)
    BY <1>8, SoundPlanFacts
  <1>10. IsPlan(S) /\ (S.status = "ok" => SoundPlan(S, keep))
    <2>1. CASE c.outF = <<>>
      BY <1>8, <1>9, <2>1
    <2>2. CASE c.outF # <<>> /\ haveSrc
      <3> DEFINE a == LastItem(F)
      <3>1. S = ScatterFieldToBricks(F, c, out, a)
        BY <2>2
      <3>2. a \in 1 .. Len(F.items) /\ IsASeq(c.outF)
        BY <1>8 DEF LastItem, FieldsOK
      <3> HIDE DEF S, a
      <3>3. \E n \in Nat : Ready(S, keep, n)
        BY <1>8, <1>o, <3>1, <3>2, ScatterSound
      <3> QED
        BY <3>3, SoundPlanFacts DEF Ready
    <2>3. CASE c.outF # <<>> /\ ~ haveSrc
      <3>1. S = FailWith(F, "nullptr")
        BY <2>3
      <3> HIDE DEF S
      <3>2. IsPlan(S) /\ S.status = "nullptr"
        BY <1>9, <3>1, FailFacts
      <3> QED
        BY <3>2
    <2> QED
      BY <2>1, <2>2, <2>3
  <1> HIDE DEF S
  <1>11. CASE S.status = "ok"
    <2>1. SamePlan(S, Q)
      BY <1>1, <1>10, <1>11, LeasesSame
    <2> QED
      BY <1>10, <1>11, <2>1, SameSound DEF SamePlan
  <1>12. CASE S.status # "ok"
    BY <1>1, <1>10, <1>12
  <1> QED
    BY <1>11, <1>12

\* The plan without items.
LEMMA EmptySound ==
  ASSUME NEW keep, NEW locs, NEW P, P = EmptyPlan(locs)
  PROVE  SoundPlan(P, keep) /\ P.status = "ok" /\ Len(P.items) = 0
  <1> DEFINE st == [i \in 1 .. 0 |-> 0]
  <1>1. /\ IsPlan(P) /\ P.items = <<>> /\ P.ante = <<>> /\ P.status = "ok"
    BY DEF EmptyPlan, IsPlan
  <1>2. IsASeq(<<>>) /\ Len(<<>>) = 0
    <2>1. <<>> \in Seq({})
      OBVIOUS
    <2> QED
      BY <2>1 DEF IsASeq
  <1>3. Paired(P.items, P.ante) /\ Len(P.items) = 0
    BY <1>1, <1>2 DEF Paired
  <1>4. st \in [1 .. 0 -> 1 .. 0]
    OBVIOUS
  <1> HIDE DEF st
  <1>5. Staged(P, keep, st, 0)
    BY <1>1, <1>3, <1>4 DEF Staged
  <1> QED
    BY <1>1, <1>3, <1>5 DEF SoundPlan

\* rocfft_plan_create: every plan that is created is sound.
LEMMA CreateSound ==
  ASSUME NEW c, FieldsOK(c), NEW Q, Q = CreatePlan(c)
  PROVE  IsPlan(Q) /\ (Q.status = "ok" => SoundPlan(Q, ~ c.inplace))
  <1> DEFINE keep == ~ c.inplace
             P == EmptyPlan(Locations(c))
             bad == ~ ValidateFields(c) \/ ~ BricksSorted(c.inF) \/ ~ BricksSorted(c.outF)
             out == IF RootInPlace(c) THEN <<"in", 0>> ELSE <<"out", 0>>
             in == <<"in", 0>>
  <1>1. SoundPlan(P, keep) /\ P.status = "ok" /\ IsPlan(P)
    BY EmptySound, SoundPlanFacts
  <1>2. Q = IF bad THEN Throw(P)
            ELSE IF c.inF = <<>> /\ c.outF = <<>> THEN AddItem(P, RootFFT(c, in, out), <<>>)
            ELSE IF CanOptimize(c) THEN BuildOptMultiDevicePlan(c, P)
            ELSE GatherScatterSingleDevicePlan(c, P)
    BY DEF CreatePlan
  <1> HIDE DEF P, bad
  <1>3. CASE bad
    <2>1. IsPlan(Q) /\ Q.status = "throw"
      BY <1>1, <1>2, <1>3, FailFacts DEF Throw
    <2> QED
      BY <2>1
  <1>4. CASE ~ bad /\ c.inF = <<>> /\ c.outF = <<>>
    <2> DEFINE item == RootFFT(c, in, out)
               w == <<>>
    <2>1. Spare(out, keep)
      BY <1>4 DEF Spare, RootInPlace
    <2> HIDE DEF out, in, keep
    <2>2. SoundItem(item, keep)
      BY <2>1, RootFFTSound
    <2>3. Q = AddItem(P, item, w) /\ w \in Seq(1 .. Len(P.items))
      BY <1>2, <1>4, EmptyIsSeq
    <2> HIDE DEF item, w
    <2>4. SoundPlan(Q, keep)
      BY <1>1, <2>2, <2>3, AddedLast
    <2> QED
      BY <2>4, SoundPlanFacts DEF keep
  <1>5. CASE ~ bad /\ ~ (c.inF = <<>> /\ c.outF = <<>>) /\ CanOptimize(c)
    <2>1. Q = BuildOptMultiDevicePlan(c, P)
      BY <1>2, <1>5
    <2> HIDE DEF keep
    <2>2. IsPlan(Q) /\ (Q.status = "ok" => SoundPlan(Q, keep))
      BY <1>1, <1>5, <2>1, OptSound
    <2> QED
      BY <2>2 DEF keep
  <1>6. CASE ~ bad /\ ~ (c.inF = <<>> /\ c.outF = <<>>) /\ ~ CanOptimize(c)
    <2>1. Q = GatherScatterSingleDevicePlan(c, P)
      BY <1>2, <1>6
    <2> HIDE DEF keep
    <2>2. IsPlan(Q) /\ (Q.status = "ok" => SoundPlan(Q, keep))
      BY <1>1, <1>6, <2>1, GatherScatterSound
    <2> QED
      BY <2>2 DEF keep
  <1> QED
    BY <1>3, <1>4, <1>5, <1>6

\* What the assumption on the configurations says of one.
LEMMA ConfigFields ==
  ASSUME NEW c \in Configs
  PROVE  FieldsOK(c) /\ (c.pass = "separate" => ~ c.inplace)
  <1>1. /\ c.ilen \in Seq(Nat) \ {<<>>} /\ c.nranks \in Nat
        /\ c.inF \in Seq(Range(c.inF)) /\ c.outF \in Seq(Range(c.outF))
        /\ \A b \in Range(c.inF) \cup Range(c.outF) : b.rank \in 0 .. c.nranks - 1
        /\ c.pass = "separate" => ~ c.inplace
    BY ConfigsAssumption
  <1>2. IsASeq(c.inF) /\ IsASeq(c.outF)
    BY <1>1, ElementsAreASeq
  <1>3. OnRanks(c.inF, c.nranks) /\ OnRanks(c.outF, c.nranks)
    <2>1. \A i \in 1 .. Len(c.inF) : c.inF[i] \in Range(c.inF)
      BY <1>1, ElementIn
    <2>2. \A i \in 1 .. Len(c.outF) : c.outF[i] \in Range(c.outF)
      BY <1>1, ElementIn
    <2> QED
      BY <1>1, <2>1, <2>2 DEF OnRanks
  <1> QED
    BY <1>1, <1>2, <1>3 DEF FieldsOK

------------------------------------------------------------------------------
(* MultiPlanTopologicalSort *)

\* Every antecedent has a lower rank than the item that waits for it; the
\* ranks are no more than the items.
Ranked(P, n, rk) ==
  /\ n \in Nat /\ rk \in [1 .. n -> 1 .. n]
  /\ \A i \in 1 .. n :
       /\ P.ante[i] \in Seq(1 .. n)
       /\ \A k \in 1 .. Len(P.ante[i]) : rk[P.ante[i][k]] < rk[i]

\* An order without repetition in which antecedents come first.
Topological(P, n, s) ==
  /\ s \in Seq(1 .. n)
  /\ \A j, k \in 1 .. Len(s) : j < k => s[j] # s[k]
  /\ \A k \in 1 .. Len(s) : \A i \in 1 .. Len(P.ante[s[k]]) :
       \E j \in 1 .. Len(s) : j < k /\ s[j] = P.ante[s[k]][i]

\* t continues s with items of rank R or less.
Continues(P, n, rk, s, t, R) ==
  /\ Topological(P, n, s) /\ Topological(P, n, t) /\ Len(s) <= Len(t)
  /\ \A k \in 1 .. Len(s) : t[k] = s[k]
  /\ \A k \in 1 .. Len(t) : k <= Len(s) \/ rk[t[k]] <= R

LEMMA ContinuesSelf ==
  ASSUME NEW P, NEW n, NEW rk, NEW s, Topological(P, n, s), NEW R
  PROVE  Continues(P, n, rk, s, s, R)
  <1>1. Len(s) \in Nat
    BY ElementIn DEF Topological
  <1> QED
    BY <1>1 DEF Continues

\* A continuation of a continuation.
LEMMA ContinuesTwice ==
  ASSUME NEW P, NEW n, NEW rk, Ranked(P, n, rk), NEW s, NEW t, NEW u, NEW R \in Int, NEW R2 \in Int, R2 <= R,
         Continues(P, n, rk, s, t, R), Continues(P, n, rk, t, u, R2)
  PROVE  Continues(P, n, rk, s, u, R)
  <1>1. /\ Len(s) \in Nat /\ Len(t) \in Nat /\ Len(u) \in Nat /\ Len(s) <= Len(t) /\ Len(t) <= Len(u)
        /\ \A k \in 1 .. Len(u) : u[k] \in 1 .. n
    BY ElementIn DEF Continues, Topological
  <1>2. \A k \in 1 .. Len(s) : u[k] = s[k]
    BY <1>1 DEF Continues
  <1>3. ASSUME NEW k \in 1 .. Len(u), ~ (k <= Len(s))
        PROVE  rk[u[k]] <= R
    <2>1. CASE k <= Len(t)
      <3>1. k \in 1 .. Len(t) /\ u[k] = t[k]
        BY <1>1, <2>1 DEF Continues
      <3> QED
        BY <1>3, <3>1 DEF Continues
    <2>2. CASE ~ (k <= Len(t))
      <3>1. rk[u[k]] <= R2 /\ rk[u[k]] \in Int
        BY <1>1, <2>2 DEF Continues, Ranked
      <3> QED
        BY <3>1
    <2> QED
      BY <2>1, <2>2
  <1>4. Topological(P, n, s) /\ Topological(P, n, u)
    BY DEF Continues
  <1> QED
    BY <1>1, <1>2, <1>3, <1>4 DEF Continues

LEMMA ContinuesContains ==
  ASSUME NEW P, NEW n, NEW rk, NEW s, NEW t, NEW R, Continues(P, n, rk, s, t, R), NEW x, Contains(s, x)
  PROVE  Contains(t, x)
  <1>1. Len(s) \in Nat /\ Len(t) \in Nat /\ Len(s) <= Len(t)
    BY ElementIn DEF Continues, Topological
  <1>2. PICK i \in 1 .. Len(s) : s[i] = x
    BY DEF Contains
  <1>3. i \in 1 .. Len(t) /\ t[i] = x
    BY <1>1, <1>2 DEF Continues
  <1> QED
    BY <1>3 DEF Contains

\* TopologicalSortDFS of an item of rank d or less adds the item and what it
\* waits for.
DFSRight(P, n, rk, dfs, d) ==
  \A a \in 1 .. n : \A s :
    Topological(P, n, s) /\ rk[a] <= d /\ ~ Contains(s, a) =>
      Continues(P, n, rk, s, dfs[<<a, s>>], rk[a]) /\ Contains(dfs[<<a, s>>], a)

\* Visiting an item unless it has been visited.
LEMMA SortNextRight ==
  ASSUME NEW P, NEW n, NEW rk, Ranked(P, n, rk), NEW d, NEW dfs, DFSRight(P, n, rk, dfs, d),
         NEW a \in 1 .. n, rk[a] <= d, NEW s, Topological(P, n, s), NEW t, t = SortNext(dfs, a, s)
  PROVE  Continues(P, n, rk, s, t, rk[a]) /\ Contains(t, a)
  <1>1. CASE Contains(s, a)
    <2>1. t = s
      BY <1>1 DEF SortNext
    <2>2. Continues(P, n, rk, s, s, rk[a])
      BY ContinuesSelf
    <2> QED
      BY <1>1, <2>1, <2>2
  <1>2. CASE ~ Contains(s, a)
    <2>1. t = dfs[<<a, s>>]
      BY <1>2 DEF SortNext
    <2> QED
      BY <1>2, <2>1 DEF DFSRight
  <1> QED
    BY <1>1, <1>2

\* The loop over the antecedents of an item: all are in the order after it, and
\* what has been added is of lower rank than the item.
LEMMA SortAnteRight ==
  ASSUME NEW P, NEW n, NEW rk, Ranked(P, n, rk), NEW d \in Nat, NEW dfs, DFSRight(P, n, rk, dfs, d),
         NEW a \in 1 .. n, rk[a] <= d + 1, NEW s, Topological(P, n, s),
         NEW ante, ante = P.ante[a], NEW t, t = SortAnte(dfs, ante, s)
  PROVE  Continues(P, n, rk, s, t, rk[a] - 1) /\ \A i \in 1 .. Len(ante) : Contains(t, ante[i])
  <1>0. /\ ante \in Seq(1 .. n) /\ \A k \in 1 .. Len(ante) : ante[k] \in 1 .. n /\ rk[ante[k]] < rk[a]
        /\ rk[a] \in 1 .. n /\ n \in Nat /\ \A i \in 1 .. n : rk[i] \in 1 .. n
    <2>1. /\ ante \in Seq(1 .. n) /\ \A k \in 1 .. Len(ante) : rk[ante[k]] < rk[a]
          /\ rk[a] \in 1 .. n /\ n \in Nat /\ \A i \in 1 .. n : rk[i] \in 1 .. n
      BY DEF Ranked
    <2> QED
      BY <2>1, ElementIn
  <1> DEFINE N == Len(ante)
             start == s
             step(S, k) == SortNext(dfs, ante[k], S)
             Rec(fn, top) == fn = [k \in 0 .. top |-> IF k = 0 THEN start ELSE step(fn[k - 1], k)]
             Exist == {top \in Nat : \E fn : Rec(fn, top)}
             f == CHOOSE fn : Rec(fn, N)
  <1>N. N \in Nat
    BY <1>0, ElementIn
  <1> HIDE DEF step, start
  <1>r1. 0 \in Exist
    <2>1. Rec([k \in 0 .. 0 |-> start], 0)
      OBVIOUS
    <2> QED
      BY <2>1
  <1>r2. ASSUME NEW m \in Nat, m \in Exist
         PROVE  m + 1 \in Exist
    <2>1. PICK fn : Rec(fn, m)
      BY <1>r2
    <2> DEFINE h == [k \in 0 .. m + 1 |-> IF k <= m THEN fn[k] ELSE step(fn[m], m + 1)]
    <2>2. Rec(h, m + 1)
      BY <2>1
    <2> HIDE DEF h
    <2>3. \E x : Rec(x, m + 1)
      BY <2>2
    <2> HIDE DEF Rec
    <2> QED
      BY <2>3
  <1> HIDE DEF Exist
  <1>r3. \A top \in Nat : top \in Exist
    BY <1>r1, <1>r2, SetInduction
  <1>r4. \E fn : Rec(fn, N)
    BY <1>N, <1>r3 DEF Exist
  <1> HIDE DEF Rec
  <1>r5. Rec(f, N)
    BY <1>r4
  <1> HIDE DEF f
  <1>r. f[0] = start /\ \A k \in 1 .. N : f[k] = step(f[k - 1], k)
    <2>1. f = [k \in 0 .. N |-> IF k = 0 THEN start ELSE step(f[k - 1], k)]
      BY <1>r5 DEF Rec
    <2>2. f[0] = start
      BY <1>N, <2>1
    <2>3. ASSUME NEW k \in 1 .. N
          PROVE  f[k] = step(f[k - 1], k)
      BY <1>N, <2>1
    <2> QED
      BY <2>2, <2>3
  <1>1. t = f[N]
    BY DEF SortAnte, f, Rec, start, step, N
  <1> DEFINE R == rk[a] - 1
             Right(k) == /\ Continues(P, n, rk, s, f[k], R)
                         /\ \A i \in 1 .. k : Contains(f[k], ante[i])
             T == {k \in 0 .. N : Right(k)}
  <1>R. R \in Int /\ \A i \in 1 .. N : rk[ante[i]] \in Int /\ rk[ante[i]] <= R /\ rk[ante[i]] <= d
    <2>1. R \in Int
      BY <1>0
    <2>2. ASSUME NEW i \in 1 .. N
          PROVE  rk[ante[i]] \in Int /\ rk[ante[i]] <= R /\ rk[ante[i]] <= d
      <3> DEFINE x == rk[ante[i]]
                 y == rk[a]
      <3>1. x \in 1 .. n /\ y \in 1 .. n /\ x < y /\ y <= d + 1
        BY <1>0 DEF N
      <3> HIDE DEF x, y
      <3>2. x \in Int /\ x <= y - 1 /\ x <= d
        BY <1>0, <3>1
      <3> QED
        BY <3>2 DEF x, y
    <2> QED
      BY <2>1, <2>2
  <1> HIDE DEF R
  <1>2. 0 \in T
    <2>1. f[0] = s
      BY <1>r DEF start
    <2>2. Continues(P, n, rk, s, s, R)
      BY ContinuesSelf
    <2>3. Right(0)
      BY <2>1, <2>2
    <2> HIDE DEF Right
    <2> QED
      BY <1>N, <2>3
  <1>3. ASSUME NEW k \in 0 .. N, k < N, k \in T
        PROVE  k + 1 \in T
    <2> DEFINE u == f[k]
               v == f[k + 1]
               x == ante[k + 1]
    <2>1. Right(k) /\ k + 1 \in 1 .. N /\ (k + 1) - 1 = k /\ k \in Nat
      BY <1>3, <1>N
    <2>2. v = SortNext(dfs, x, u)
      BY <1>r, <2>1 DEF step
    <2>3. x \in 1 .. n /\ rk[x] <= d /\ rk[x] <= R /\ rk[x] \in Int
      BY <1>0, <1>R, <2>1 DEF N
    <2>4. Continues(P, n, rk, s, u, R) /\ \A i \in 1 .. k : Contains(u, ante[i])
      BY <2>1
    <2> HIDE DEF u, v
    <2>5. Topological(P, n, u)
      BY <2>4 DEF Continues
    <2>6. Continues(P, n, rk, u, v, rk[x]) /\ Contains(v, x)
      <3> HIDE DEF x
      <3> QED
        BY <2>2, <2>3, <2>5, SortNextRight
    <2>7. Continues(P, n, rk, s, v, R)
      <3> DEFINE R2 == rk[x]
      <3>1. R2 \in Int /\ R2 <= R /\ Continues(P, n, rk, u, v, R2)
        BY <2>3, <2>6
      <3> HIDE DEF R2
      <3> QED
        BY <1>R, <2>4, <3>1, ContinuesTwice
    <2>8. ASSUME NEW i \in 1 .. k + 1
          PROVE  Contains(v, ante[i])
      <3>1. CASE i \in 1 .. k
        BY <2>4, <2>6, <3>1, ContinuesContains
      <3>2. CASE i = k + 1
        BY <2>6, <3>2
      <3> QED
        BY <2>1, <3>1, <3>2
    <2>9. Right(k + 1)
      BY <2>7, <2>8 DEF v
    <2> HIDE DEF Right
    <2> QED
      BY <2>1, <2>9
  <1> HIDE DEF T
  <1>4. \A k \in 0 .. N : k \in T
    BY <1>N, <1>2, <1>3, UpToInduction
  <1>5. Right(N)
    BY <1>N, <1>4 DEF T
  <1> QED
    BY <1>1, <1>5 DEF N, R

\* After its antecedents the item itself.
LEMMA AppendContinues ==
  ASSUME NEW P, NEW n, NEW rk, Ranked(P, n, rk), NEW a \in 1 .. n, NEW s, NEW t,
         Continues(P, n, rk, s, t, rk[a] - 1), ~ Contains(s, a),
         \A i \in 1 .. Len(P.ante[a]) : Contains(t, P.ante[a][i]),
         NEW u, u = Append(t, a)
  PROVE  Continues(P, n, rk, s, u, rk[a]) /\ Contains(u, a)
  <1> DEFINE l == Len(t)
  <1>1. /\ s \in Seq(1 .. n) /\ t \in Seq(1 .. n) /\ Len(s) \in Nat /\ l \in Nat /\ Len(s) <= l
        /\ \A k \in 1 .. l : t[k] \in 1 .. n
    BY ElementIn DEF Continues, Topological
  <1>2. u \in Seq(1 .. n) /\ Len(u) = l + 1 /\ u[l + 1] = a /\ \A k \in 1 .. l : u[k] = t[k]
    BY <1>1, AppendFacts
  <1>3. n \in Nat /\ \A i \in 1 .. n : rk[i] \in 1 .. n
    BY DEF Ranked
  <1>4. \A k \in 1 .. l : t[k] # a
    <2> SUFFICES ASSUME NEW k \in 1 .. l, t[k] = a
                 PROVE  FALSE
      OBVIOUS
    <2>1. CASE k <= Len(s)
      <3>1. k \in 1 .. Len(s) /\ s[k] = a
        BY <1>1, <2>1 DEF Continues
      <3> QED
        BY <3>1 DEF Contains
    <2>2. CASE ~ (k <= Len(s))
      <3>1. rk[t[k]] <= rk[a] - 1
        BY <2>2 DEF Continues
      <3> QED
        BY <1>3, <3>1
    <2> QED
      BY <2>1, <2>2
  <1> HIDE DEF l
  <1>5. \A k \in 1 .. l + 1 : k \in 1 .. l \/ k = l + 1
    BY <1>1
  <1>6. \A j, k \in 1 .. l + 1 : j < k => u[j] # u[k]
    <2> SUFFICES ASSUME NEW j \in 1 .. l + 1, NEW k \in 1 .. l + 1, j < k
                 PROVE  u[j] # u[k]
      OBVIOUS
    <2>1. j \in 1 .. l
      BY <1>1
    <2>2. CASE k \in 1 .. l
      BY <1>2, <2>1, <2>2 DEF Continues, Topological, l
    <2>3. CASE k = l + 1
      BY <1>2, <1>4, <2>1, <2>3
    <2> QED
      BY <1>5, <2>2, <2>3
  <1>7. ASSUME NEW k \in 1 .. l + 1, NEW i \in 1 .. Len(P.ante[u[k]])
        PROVE  \E j \in 1 .. l + 1 : j < k /\ u[j] = P.ante[u[k]][i]
    <2>0. \A j \in 1 .. l : j \in 1 .. l + 1 /\ u[j] = t[j]
      BY <1>1, <1>2
    <2>1. CASE k \in 1 .. l
      <3>1. u[k] = t[k]
        BY <1>2, <2>1
      <3>2. PICK j \in 1 .. l : j < k /\ t[j] = P.ante[t[k]][i]
        <4>1. Topological(P, n, t)
          BY DEF Continues
        <4>2. i \in 1 .. Len(P.ante[t[k]])
          BY <1>7, <3>1
        <4> QED
          BY <2>1, <4>1, <4>2 DEF Topological, l
      <3> QED
        BY <2>0, <3>1, <3>2
    <2>2. CASE k = l + 1
      <3>1. u[k] = a
        BY <1>2, <2>2
      <3>2. PICK j \in 1 .. l : t[j] = P.ante[a][i]
        BY <1>7, <3>1 DEF Contains, l
      <3>3. j < k
        BY <1>1, <2>2
      <3> QED
        BY <2>0, <3>1, <3>2, <3>3
    <2> QED
      BY <1>5, <2>1, <2>2
  <1>8. Topological(P, n, u)
    <2>1. \A j, k \in 1 .. Len(u) : j < k => u[j] # u[k]
      BY <1>2, <1>6
    <2>2. ASSUME NEW k \in 1 .. Len(u), NEW i \in 1 .. Len(P.ante[u[k]])
          PROVE  \E j \in 1 .. Len(u) : j < k /\ u[j] = P.ante[u[k]][i]
      <3>1. k \in 1 .. l + 1 /\ Len(u) = l + 1
        BY <1>2
      <3>2. \E j \in 1 .. l + 1 : j < k /\ u[j] = P.ante[u[k]][i]
        BY <1>7, <3>1
      <3> QED
        BY <3>1, <3>2
    <2>3. u \in Seq(1 .. n)
      BY <1>2
    <2> QED
      BY <2>1, <2>2, <2>3 DEF Topological
  <1>9. \A k \in 1 .. Len(s) : u[k] = s[k]
    BY <1>1, <1>2 DEF Continues
  <1>10. ASSUME NEW k \in 1 .. l + 1, ~ (k <= Len(s))
         PROVE  rk[u[k]] <= rk[a]
    <2>1. CASE k \in 1 .. l
      <3>1. rk[t[k]] <= rk[a] - 1 /\ u[k] = t[k] /\ t[k] \in 1 .. n
        BY <1>1, <1>2, <1>10, <2>1 DEF Continues, l
      <3> QED
        BY <1>3, <3>1
    <2>2. CASE k = l + 1
      BY <1>2, <1>3, <2>2
    <2> QED
      BY <1>5, <2>1, <2>2
  <1>11. Topological(P, n, s) /\ Len(s) <= l + 1
    BY <1>1 DEF Continues
  <1>12. Continues(P, n, rk, s, u, rk[a])
    BY <1>2, <1>8, <1>9, <1>10, <1>11 DEF Continues
  <1>13. l + 1 \in 1 .. Len(u)
    BY <1>1, <1>2
  <1> QED
    BY <1>2, <1>12, <1>13 DEF Contains

\* TopologicalSortDFS to depth d is right for items of rank d, by induction on d.
LEMMA DFSIsRight ==
  ASSUME NEW P, IsASeq(P.items), NEW n, n = Len(P.items), NEW rk, Ranked(P, n, rk)
  PROVE  DFSRight(P, n, rk, TopologicalSortDFS(P), n)
  <1>0. n \in Nat /\ DOMAIN P.items = 1 .. n
    BY SeqFacts
  <1> DEFINE N == n
             Args == (1 .. n) \X Seq(1 .. n)
             start == [x \in Args |-> x[2]]
             step(S, k) == [x \in Args |-> Append(SortAnte(S, P.ante[x[1]], x[2]), x[1])]
             Rec(fn, top) == fn = [k \in 0 .. top |-> IF k = 0 THEN start ELSE step(fn[k - 1], k)]
             Exist == {top \in Nat : \E fn : Rec(fn, top)}
             f == CHOOSE fn : Rec(fn, N)
  <1>N. N \in Nat
    BY <1>0
  <1> HIDE DEF step, start
  <1>r1. 0 \in Exist
    <2>1. Rec([k \in 0 .. 0 |-> start], 0)
      OBVIOUS
    <2> QED
      BY <2>1
  <1>r2. ASSUME NEW m \in Nat, m \in Exist
         PROVE  m + 1 \in Exist
    <2>1. PICK fn : Rec(fn, m)
      BY <1>r2
    <2> DEFINE h == [k \in 0 .. m + 1 |-> IF k <= m THEN fn[k] ELSE step(fn[m], m + 1)]
    <2>2. Rec(h, m + 1)
      BY <2>1
    <2> HIDE DEF h
    <2>3. \E x : Rec(x, m + 1)
      BY <2>2
    <2> HIDE DEF Rec
    <2> QED
      BY <2>3
  <1> HIDE DEF Exist
  <1>r3. \A top \in Nat : top \in Exist
    BY <1>r1, <1>r2, SetInduction
  <1>r4. \E fn : Rec(fn, N)
    BY <1>N, <1>r3 DEF Exist
  <1> HIDE DEF Rec
  <1>r5. Rec(f, N)
    BY <1>r4
  <1> HIDE DEF f
  <1>r. f[0] = start /\ \A k \in 1 .. N : f[k] = step(f[k - 1], k)
    <2>1. f = [k \in 0 .. N |-> IF k = 0 THEN start ELSE step(f[k - 1], k)]
      BY <1>r5 DEF Rec
    <2>2. f[0] = start
      BY <1>N, <2>1
    <2>3. ASSUME NEW k \in 1 .. N
          PROVE  f[k] = step(f[k - 1], k)
      BY <1>N, <2>1
    <2> QED
      BY <2>2, <2>3
  <1>1. TopologicalSortDFS(P) = f[n]
    BY <1>0 DEF TopologicalSortDFS, f, Rec, start, step, N
  <1> DEFINE T == {k \in 0 .. n : DFSRight(P, n, rk, f[k], k)}
  <1>k. \A i \in 1 .. n : rk[i] \in 1 .. n
    BY DEF Ranked
  <1>2. 0 \in T
    <2>1. \A i \in 1 .. n : ~ (rk[i] <= 0)
      BY <1>0, <1>k
    <2>2. DFSRight(P, n, rk, f[0], 0)
      BY <2>1 DEF DFSRight
    <2> QED
      BY <1>0, <2>2
  <1>3. ASSUME NEW k \in 0 .. n, k < n, k \in T
        PROVE  k + 1 \in T
    <2> DEFINE dfs == f[k]
               next == f[k + 1]
    <2>1. k + 1 \in 1 .. n /\ (k + 1) - 1 = k /\ k \in Nat /\ DFSRight(P, n, rk, dfs, k)
      BY <1>0, <1>3
    <2>2. next = [x \in Args |-> Append(SortAnte(dfs, P.ante[x[1]], x[2]), x[1])]
      <3>1. f[k + 1] = step(f[k], k + 1)
        BY <1>r, <2>1 DEF N
      <3> QED
        BY <3>1 DEF step
    <2> HIDE DEF dfs, next
    <2>3. ASSUME NEW a \in 1 .. n, NEW s, Topological(P, n, s), rk[a] <= k + 1, ~ Contains(s, a)
          PROVE  Continues(P, n, rk, s, next[<<a, s>>], rk[a]) /\ Contains(next[<<a, s>>], a)
      <3> DEFINE ante == P.ante[a]
                 t == SortAnte(dfs, ante, s)
                 u == Append(t, a)
      <3>1. <<a, s>> \in Args
        BY <2>3 DEF Topological
      <3>2. next[<<a, s>>] = u
        BY <2>2, <3>1
      <3> HIDE DEF t
      <3>3. /\ Continues(P, n, rk, s, t, rk[a] - 1)
            /\ \A i \in 1 .. Len(ante) : Contains(t, ante[i])
        BY <2>1, <2>3, SortAnteRight DEF t
      <3>4. Continues(P, n, rk, s, u, rk[a]) /\ Contains(u, a)
        BY <2>3, <3>3, AppendContinues
      <3> QED
        BY <3>2, <3>4
    <2>4. DFSRight(P, n, rk, next, k + 1)
      BY <2>3 DEF DFSRight
    <2> QED
      BY <2>1, <2>4 DEF next
  <1> HIDE DEF T
  <1>4. \A k \in 0 .. n : k \in T
    BY <1>0, <1>2, <1>3, UpToInduction
  <1> QED
    BY <1>0, <1>1, <1>4 DEF T

\* MultiPlanTopologicalSort.
LEMMA SortedRight ==
  ASSUME NEW P, IsASeq(P.items), NEW n, n = Len(P.items), NEW rk, Ranked(P, n, rk)
  PROVE  Topological(P, n, Sorted(P)) /\ \A i \in 1 .. n : Contains(Sorted(P), i)
  <1>0. n \in Nat
    BY SeqFacts
  <1> DEFINE dfs == TopologicalSortDFS(P)
  <1>d. DFSRight(P, n, rk, dfs, n)
    BY DFSIsRight
  <1> DEFINE N == n
             start == <<>>
             step(S, k) == SortNext(dfs, k, S)
             Rec(fn, top) == fn = [k \in 0 .. top |-> IF k = 0 THEN start ELSE step(fn[k - 1], k)]
             Exist == {top \in Nat : \E fn : Rec(fn, top)}
             f == CHOOSE fn : Rec(fn, N)
  <1>N. N \in Nat
    BY <1>0
  <1> HIDE DEF step, start
  <1>r1. 0 \in Exist
    <2>1. Rec([k \in 0 .. 0 |-> start], 0)
      OBVIOUS
    <2> QED
      BY <2>1
  <1>r2. ASSUME NEW m \in Nat, m \in Exist
         PROVE  m + 1 \in Exist
    <2>1. PICK fn : Rec(fn, m)
      BY <1>r2
    <2> DEFINE h == [k \in 0 .. m + 1 |-> IF k <= m THEN fn[k] ELSE step(fn[m], m + 1)]
    <2>2. Rec(h, m + 1)
      BY <2>1
    <2> HIDE DEF h
    <2>3. \E x : Rec(x, m + 1)
      BY <2>2
    <2> HIDE DEF Rec
    <2> QED
      BY <2>3
  <1> HIDE DEF Exist
  <1>r3. \A top \in Nat : top \in Exist
    BY <1>r1, <1>r2, SetInduction
  <1>r4. \E fn : Rec(fn, N)
    BY <1>N, <1>r3 DEF Exist
  <1> HIDE DEF Rec
  <1>r5. Rec(f, N)
    BY <1>r4
  <1> HIDE DEF f
  <1>r. f[0] = start /\ \A k \in 1 .. N : f[k] = step(f[k - 1], k)
    <2>1. f = [k \in 0 .. N |-> IF k = 0 THEN start ELSE step(f[k - 1], k)]
      BY <1>r5 DEF Rec
    <2>2. f[0] = start
      BY <1>N, <2>1
    <2>3. ASSUME NEW k \in 1 .. N
          PROVE  f[k] = step(f[k - 1], k)
      BY <1>N, <2>1
    <2> QED
      BY <2>2, <2>3
  <1>1. Sorted(P) = f[n]
    BY <1>0 DEF Sorted, f, Rec, start, step, N
  <1> HIDE DEF dfs
  <1> DEFINE Right(k) == Topological(P, n, f[k]) /\ \A i \in 1 .. k : Contains(f[k], i)
             T == {k \in 0 .. n : Right(k)}
  <1>2. 0 \in T
    <2> DEFINE o == <<>>
    <2>1. f[0] = o
      BY <1>r DEF start
    <2>2. o \in Seq(1 .. n) /\ Len(o) = 0
      OBVIOUS
    <2> HIDE DEF o
    <2>3. Topological(P, n, o)
      BY <2>2 DEF Topological
    <2>4. Right(0)
      BY <2>1, <2>3
    <2> HIDE DEF Right
    <2> QED
      BY <1>0, <2>4
  <1>3. ASSUME NEW k \in 0 .. n, k < n, k \in T
        PROVE  k + 1 \in T
    <2> DEFINE u == f[k]
               v == f[k + 1]
               x == k + 1
    <2>1. Right(k) /\ x \in 1 .. n /\ (k + 1) - 1 = k /\ k \in Nat
      BY <1>0, <1>3
    <2>2. v = SortNext(dfs, x, u)
      BY <1>r, <2>1 DEF step, N
    <2>3. rk[x] \in 1 .. n
      BY <2>1 DEF Ranked
    <2>4. rk[x] <= n
      BY <1>0, <2>3
    <2>5. Topological(P, n, u) /\ \A i \in 1 .. k : Contains(u, i)
      BY <2>1
    <2> HIDE DEF u, v, x
    <2>6. Continues(P, n, rk, u, v, rk[x]) /\ Contains(v, x)
      BY <1>d, <2>1, <2>2, <2>4, <2>5, SortNextRight
    <2>7. Topological(P, n, v)
      BY <2>6 DEF Continues
    <2>8. ASSUME NEW i \in 1 .. k + 1
          PROVE  Contains(v, i)
      <3>1. CASE i \in 1 .. k
        BY <2>5, <2>6, <3>1, ContinuesContains
      <3>2. CASE i = k + 1
        BY <2>6, <3>2 DEF x
      <3> QED
        BY <2>1, <3>1, <3>2
    <2>9. Right(k + 1)
      BY <2>7, <2>8 DEF v
    <2> HIDE DEF Right
    <2> QED
      BY <2>1, <2>9 DEF x
  <1> HIDE DEF T
  <1>4. \A k \in 0 .. n : k \in T
    BY <1>0, <1>2, <1>3, UpToInduction
  <1> QED
    BY <1>0, <1>1, <1>4 DEF T

\* Counting the items that are not of a higher stage ranks the items from 1
\* to their number.
LEMMA StagedRanks ==
  ASSUME NEW P, NEW keep, NEW st, NEW m, Staged(P, keep, st, m), NEW n, n = Len(P.items)
  PROVE  \E rk : Ranked(P, n, rk)
  <1>1. /\ m \in Nat /\ st \in [1 .. n -> 1 .. m]
        /\ \A i \in 1 .. n : /\ P.ante[i] \in Seq(1 .. n)
                             /\ \A k \in 1 .. Len(P.ante[i]) : st[P.ante[i][k]] < st[i]
    BY DEF Staged
  <1>2. n \in Nat
    BY SeqFacts DEF Staged, Paired
  <1>3. IsFiniteSet(1 .. n) /\ Cardinality(1 .. n) = n
    BY <1>2, FS_Interval
  <1> DEFINE Below(i) == {j \in 1 .. n : st[j] <= st[i]}
             rk == [i \in 1 .. n |-> Cardinality(Below(i))]
  <1>4. \A i \in 1 .. n : st[i] \in Int
    BY <1>1
  <1>5. ASSUME NEW i \in 1 .. n
        PROVE  IsFiniteSet(Below(i)) /\ rk[i] \in 1 .. n /\ rk[i] = Cardinality(Below(i))
    <2>1. Below(i) \in SUBSET (1 .. n) /\ i \in Below(i)
      BY <1>4
    <2> HIDE DEF Below
    <2>2. IsFiniteSet(Below(i)) /\ Cardinality(Below(i)) <= n
      BY <1>3, <2>1, FS_Subset
    <2>3. Cardinality(Below(i)) \in Nat /\ Cardinality(Below(i)) # 0
      BY <2>1, <2>2, FS_CardinalityType, FS_EmptySet
    <2> QED
      BY <1>2, <2>2, <2>3
  <1>6. ASSUME NEW i \in 1 .. n, NEW a \in 1 .. n, st[a] < st[i]
        PROVE  rk[a] < rk[i]
    <2>1. Below(a) \in SUBSET Below(i) /\ i \in Below(i) /\ i \notin Below(a)
      BY <1>4, <1>6
    <2> HIDE DEF Below, rk
    <2>2. /\ IsFiniteSet(Below(i)) /\ rk[i] = Cardinality(Below(i)) /\ rk[a] = Cardinality(Below(a))
          /\ rk[i] \in Int /\ rk[a] \in Int
      BY <1>2, <1>5
    <2>3. /\ Cardinality(Below(a)) <= Cardinality(Below(i))
          /\ Cardinality(Below(i)) = Cardinality(Below(a)) => Below(i) = Below(a)
      BY <2>1, <2>2, FS_Subset
    <2> QED
      BY <2>1, <2>2, <2>3
  <1>7. rk \in [1 .. n -> 1 .. n]
    BY <1>5
  <1> HIDE DEF rk
  <1>8. ASSUME NEW i \in 1 .. n, NEW k \in 1 .. Len(P.ante[i])
        PROVE  rk[P.ante[i][k]] < rk[i]
    <2> DEFINE a == P.ante[i][k]
    <2>1. a \in 1 .. n
      BY <1>1, ElementIn
    <2>2. st[a] < st[i]
      BY <1>1
    <2> HIDE DEF a
    <2>3. rk[a] < rk[i]
      BY <1>6, <2>1, <2>2
    <2> QED
      BY <2>3 DEF a
  <1>9. Ranked(P, n, rk)
    BY <1>1, <1>2, <1>7, <1>8 DEF Ranked
  <1> QED
    BY <1>9

------------------------------------------------------------------------------
(* Plans that are created can be executed *)

\* The items of a plan send messages only between ranks that execute them, and
\* there are stages such that every item waits for items of lower stages.
Executable(P) ==
  LET n == Len(P.items)
  IN  /\ \A i \in 1 .. n : P.items[i].msgs \subseteq P.items[i].on \X P.items[i].on
      /\ \E m \in Nat : \E st \in [1 .. n -> 1 .. m] :
           \A i \in 1 .. n : /\ P.ante[i] \in Seq(1 .. n)
                             /\ \A k \in 1 .. Len(P.ante[i]) : st[P.ante[i][k]] < st[i]

\* s has every item of P once, and every item after those it waits for.
Orders(s, P) ==
  LET n == Len(P.items)
  IN  /\ s \in Seq(1 .. n)
      /\ \A j, k \in 1 .. Len(s) : j < k => s[j] # s[k]
      /\ \A i \in 1 .. n : \E k \in 1 .. Len(s) : s[k] = i
      /\ \A k \in 1 .. Len(s) : \A i \in 1 .. Len(P.ante[s[k]]) :
           \E j \in 1 .. Len(s) : j < k /\ s[j] = P.ante[s[k]][i]

\* No item of P writes to a buffer of the user's input.
InputUnwritten(P) ==
  \A i \in 1 .. Len(P.items) : \A w \in Writes(P.items[i]) : w[2][1] # "in"

\* What soundness means for whoever executes the plan.
LEMMA SoundIsExecutable ==
  ASSUME NEW P, NEW keep, SoundPlan(P, keep)
  PROVE  Executable(P) /\ Orders(Sorted(P), P) /\ (keep => InputUnwritten(P))
  <1>1. PICK st, m : Staged(P, keep, st, m)
    BY DEF SoundPlan
  <1> DEFINE n == Len(P.items)
             s == Sorted(P)
  <1>2. /\ m \in Nat /\ st \in [1 .. n -> 1 .. m]
        /\ \A i \in 1 .. n : /\ SoundItem(P.items[i], keep)
                             /\ P.ante[i] \in Seq(1 .. n)
                             /\ \A k \in 1 .. Len(P.ante[i]) : st[P.ante[i][k]] < st[i]
    BY <1>1 DEF Staged
  <1>3. IsASeq(P.items)
    BY <1>1 DEF Staged, Paired
  <1>4. PICK rk : Ranked(P, n, rk)
    BY <1>1, StagedRanks
  <1>5. Topological(P, n, s) /\ \A i \in 1 .. n : Contains(s, i)
    BY <1>3, <1>4, SortedRight
  <1> HIDE DEF s
  <1>6. Executable(P)
    <2>1. \A i \in 1 .. n : P.items[i].msgs \subseteq P.items[i].on \X P.items[i].on
      BY <1>2 DEF SoundItem
    <2> QED
      BY <1>2, <2>1 DEF Executable
  <1>7. Orders(s, P)
    BY <1>5 DEF Topological, Contains, Orders
  <1>8. keep => InputUnwritten(P)
    BY <1>2 DEF SoundItem, InputUnwritten
  <1> QED
    BY <1>6, <1>7, <1>8 DEF s

\* Whatever the fields, the lengths and the number of ranks: a plan that
\* rocfft_plan_create creates can be executed.  Its items wait for each other
\* without a cycle, which is what module MultiPlan assumes of the callers of
\* AddMultiPlanItem and AddAntecedent, and they communicate between ranks that
\* execute them, which module PlanExecute assumes.  MultiPlanTopologicalSort
\* puts every item once, after all it waits for.  And if the transform is not
\* in place, no item writes to the user's input.
THEOREM PlansExecutable ==
  ASSUME NEW c \in Configs, NEW P, P = CreatePlan(c), P.status = "ok"
  PROVE  Executable(P) /\ Orders(Sorted(P), P) /\ (~ c.inplace => InputUnwritten(P))
  <1>1. FieldsOK(c)
    BY ConfigFields
  <1>2. SoundPlan(P, ~ c.inplace)
    BY <1>1, CreateSound
  <1> QED
    BY <1>2, SoundIsExecutable

------------------------------------------------------------------------------
(* Execution *)

\* The user's input is in its cells.
InputHeld ==
  \A x \in InputCells : x.cell \in DOMAIN mem /\ mem[x.cell] = UserInput(round)[x.cell]

ExecInv ==
  /\ cfg \in Configs
  /\ phase \in {"create", "ready", "run", "failed"}
  /\ plan.status \in {"ok", "throw", "nullptr"}
  /\ phase \in {"create", "failed"} => order = <<>> /\ pos = 0 /\ round = 0
  /\ phase \in {"ready", "run"} =>
       plan = CreatePlan(cfg) /\ plan.status = "ok" /\ order = Sorted(plan)
  /\ round \in 0 .. MaxRounds
  /\ pos \in 0 .. Len(order) + 1 /\ (phase = "run" => pos > 0)
  /\ round > 0 /\ cfg.pass = "separate" => InputHeld

\* The cells of the input are in buffers of the input.
LEMMA InputCellsIn ==
  ASSUME NEW x \in InputCells
  PROVE  x.cell[2][1] = "in"
  <1>1. ASSUME NEW rank, NEW buf, buf[1] = "in", NEW lower, NEW len, NEW stride,
               x \in ArrayCells(rank, buf, lower, len, stride)
        PROVE  x.cell[2][1] = "in"
    <2>1. PICK y \in Box(len) : x = [cell |-> <<rank, buf, InnerProduct(y, stride)>>,
                                     at   |-> [d \in DOMAIN len |-> lower[d] + y[d]]]
      BY <1>1 DEF ArrayCells
    <2>2. x.cell[2] = buf
      BY <2>1
    <2> QED
      BY <1>1, <2>2
  <1>2. CASE cfg.inF = <<>>
    <2> DEFINE buf == <<"in", 0>>
    <2>1. x \in ArrayCells(0, buf, [d \in DOMAIN cfg.ilen |-> 0], cfg.ilen, cfg.istride)
      BY <1>2 DEF InputCells, UserCells
    <2>2. buf[1] = "in"
      OBVIOUS
    <2> HIDE DEF buf
    <2> QED
      BY <1>1, <2>1, <2>2
  <1>3. CASE cfg.inF # <<>>
    <2>1. PICK i \in DOMAIN cfg.inF : x \in BrickCells(cfg.inF[i], UserBuffers("in", cfg.inF)[i])
      BY <1>3 DEF InputCells, UserCells
    <2> DEFINE buf == UserBuffers("in", cfg.inF)[i]
    <2>2. buf[1] = "in"
      BY <2>1 DEF UserBuffers
    <2> HIDE DEF buf
    <2> QED
      BY <1>1, <2>1, <2>2 DEF BrickCells, buf
  <1> QED
    BY <1>2, <1>3

\* An item that writes no buffer of the input leaves its cells alone.
LEMMA EffectKeeps ==
  ASSUME cfg.pass = "separate", NEW item, \A w \in Writes(item) : w[2][1] # "in",
         NEW cell \in DOMAIN mem, cell[2][1] = "in", NEW M, M = Effect(item)
  PROVE  cell \in DOMAIN M /\ M[cell] = mem[cell]
  <1> DEFINE moved == [t \in {Resolve(m.to) : m \in item.moves} |->
                         Read((CHOOSE m \in item.moves : Resolve(m.to) = t).from)]
             made  == [t \in {Resolve(x.cell) : x \in item.dst} |->
                         FFTResult(item, (CHOOSE x \in item.dst : Resolve(x.cell) = t).at)]
             both == Over(moved, made)
  <1>1. M = Over(both, mem)
    BY DEF Effect
  <1>2. \A x : Resolve(x) = x
    BY DEF Resolve
  <1>3. cell \notin Writes(item)
    OBVIOUS
  <1>4. cell \notin DOMAIN moved /\ cell \notin DOMAIN made
    BY <1>2, <1>3 DEF Writes
  <1> HIDE DEF moved, made
  <1>5. DOMAIN both = DOMAIN moved \cup DOMAIN made
    BY DEF Over
  <1>6. cell \notin DOMAIN both
    BY <1>4, <1>5
  <1> HIDE DEF both
  <1> QED
    BY <1>1, <1>6 DEF Over

LEMMA InitExec ==
  Init => ExecInv
  <1> SUFFICES ASSUME Init PROVE ExecInv
    OBVIOUS
  <1>1. plan.status = "ok"
    BY DEF Init, EmptyPlan
  <1>2. Len(order) = 0
    BY DEF Init
  <1> QED
    BY <1>1, <1>2, MaxRoundsAssumption DEF Init, ExecInv

LEMMA CreateExec ==
  ExecInv /\ Create => ExecInv'
  <1> SUFFICES ASSUME ExecInv, Create PROVE ExecInv'
    OBVIOUS
  <1>1. cfg \in Configs /\ phase = "create" /\ order = <<>> /\ pos = 0 /\ round = 0
    BY DEF ExecInv, Create
  <1>2. cfg' = cfg /\ pos' = 0 /\ round' = 0 /\ plan' = CreatePlan(cfg)
    BY <1>1 DEF Create
  <1>3. IsPlan(plan')
    BY <1>1, <1>2, ConfigFields, CreateSound
  <1>4. plan'.status \in {"ok", "throw", "nullptr"}
    BY <1>3 DEF IsPlan
  <1>5. CASE plan'.status = "ok"
    <2>1. phase' = "ready" /\ order' = Sorted(plan')
      BY <1>5 DEF Create
    <2>2. Orders(Sorted(plan'), plan')
      BY <1>1, <1>2, <1>5, PlansExecutable
    <2>3. Len(order') \in Nat
      BY <2>1, <2>2, ElementIn DEF Orders
    <2>4. pos' \in 0 .. Len(order') + 1
      BY <1>2, <2>3
    <2> QED
      BY <1>1, <1>2, <1>4, <1>5, <2>1, <2>4, MaxRoundsAssumption DEF ExecInv
  <1>6. CASE plan'.status # "ok"
    <2>1. phase' = "failed" /\ order' = <<>>
      BY <1>6 DEF Create
    <2>2. pos' \in 0 .. Len(order') + 1
      BY <1>2, <2>1
    <2> QED
      BY <1>1, <1>2, <1>4, <1>6, <2>1, <2>2, MaxRoundsAssumption DEF ExecInv
  <1> QED
    BY <1>5, <1>6

LEMMA BeginExec ==
  ExecInv /\ BeginExecute => ExecInv'
  <1> SUFFICES ASSUME ExecInv, BeginExecute PROVE ExecInv'
    OBVIOUS
  <1>1. /\ cfg \in Configs /\ phase = "ready" /\ round \in 0 .. MaxRounds /\ round < MaxRounds
        /\ plan = CreatePlan(cfg) /\ plan.status = "ok" /\ order = Sorted(plan)
    BY DEF ExecInv, BeginExecute
  <1>2. /\ cfg' = cfg /\ plan' = plan /\ order' = order /\ phase' = "run"
        /\ round' = round + 1 /\ pos' = 1
    BY DEF BeginExecute
  <1>3. Orders(order, plan)
    BY <1>1, PlansExecutable
  <1>4. Len(order) \in Nat
    BY <1>3, ElementIn DEF Orders
  <1>5. pos' \in 0 .. Len(order') + 1 /\ pos' > 0
    BY <1>2, <1>4
  <1>6. round' \in 0 .. MaxRounds
    BY <1>1, <1>2, MaxRoundsAssumption
  <1>7. InputHeld'
    <2> DEFINE new == UserInput(round + 1)
    <2>1. InputCells' = InputCells
      BY <1>2 DEF InputCells
    <2>2. UserInput(round)' = new
      BY <1>2, <2>1 DEF UserInput
    <2>3. mem' = Over(new, mem)
      BY DEF BeginExecute
    <2>4. \A x \in InputCells : x.cell \in DOMAIN new
      BY DEF UserInput
    <2> HIDE DEF new
    <2>5. \A x \in InputCells : x.cell \in DOMAIN mem' /\ mem'[x.cell] = new[x.cell]
      BY <2>3, <2>4 DEF Over
    <2> QED
      BY <2>1, <2>2, <2>5 DEF InputHeld
  <1> QED
    BY <1>1, <1>2, <1>5, <1>6, <1>7 DEF ExecInv

LEMMA ItemExec ==
  ExecInv /\ ExecuteItem => ExecInv'
  <1> SUFFICES ASSUME ExecInv, ExecuteItem PROVE ExecInv'
    OBVIOUS
  <1>1. /\ cfg \in Configs /\ phase = "run" /\ pos \in 0 .. Len(order) + 1 /\ pos > 0
        /\ plan = CreatePlan(cfg) /\ plan.status = "ok" /\ order = Sorted(plan)
        /\ pos <= Len(order)
    BY DEF ExecInv, ExecuteItem
  <1>2. /\ cfg' = cfg /\ plan' = plan /\ order' = order /\ phase' = phase
        /\ round' = round /\ pos' = pos + 1 /\ mem' = Effect(plan.items[order[pos]])
    BY DEF ExecuteItem
  <1>3. Orders(order, plan) /\ (~ cfg.inplace => InputUnwritten(plan))
    BY <1>1, PlansExecutable
  <1>4. Len(order) \in Nat /\ \A k \in 1 .. Len(order) : order[k] \in 1 .. Len(plan.items)
    BY <1>3, ElementIn DEF Orders
  <1>5. pos \in 1 .. Len(order) /\ pos' \in 0 .. Len(order') + 1 /\ pos' > 0
    BY <1>1, <1>2, <1>4
  <1>6. ASSUME round > 0, cfg.pass = "separate"
        PROVE  InputHeld'
    <2> DEFINE item == plan.items[order[pos]]
    <2>1. ~ cfg.inplace
      BY <1>1, <1>6, ConfigFields
    <2>2. \A w \in Writes(item) : w[2][1] # "in"
      BY <1>3, <1>4, <1>5, <2>1 DEF InputUnwritten
    <2>3. InputHeld /\ mem' = Effect(item)
      BY <1>2, <1>6 DEF ExecInv
    <2> HIDE DEF item
    <2>4. InputCells' = InputCells
      BY <1>2 DEF InputCells
    <2>5. UserInput(round)' = UserInput(round)
      BY <1>2, <2>4 DEF UserInput
    <2>6. ASSUME NEW x \in InputCells
          PROVE  x.cell \in DOMAIN mem' /\ mem'[x.cell] = UserInput(round)[x.cell]
      <3> DEFINE cell == x.cell
      <3>1. cell[2][1] = "in"
        BY InputCellsIn
      <3>2. cell \in DOMAIN mem /\ mem[cell] = UserInput(round)[cell]
        BY <2>3 DEF InputHeld
      <3> HIDE DEF cell
      <3>3. cell \in DOMAIN mem' /\ mem'[cell] = mem[cell]
        BY <1>6, <2>2, <2>3, <3>1, <3>2, EffectKeeps
      <3> QED
        BY <3>2, <3>3 DEF cell
    <2> QED
      BY <2>4, <2>5, <2>6 DEF InputHeld
  <1> QED
    BY <1>1, <1>2, <1>5, <1>6 DEF ExecInv

LEMMA EndExec ==
  ExecInv /\ EndExecute => ExecInv'
  <1> SUFFICES ASSUME ExecInv, EndExecute PROVE ExecInv'
    OBVIOUS
  <1>1. /\ cfg' = cfg /\ plan' = plan /\ order' = order /\ phase = "run" /\ phase' = "ready"
        /\ pos' = pos /\ round' = round /\ mem' = mem
    BY DEF EndExecute
  <1>2. InputHeld' = InputHeld
    BY <1>1 DEF InputHeld, InputCells, UserInput
  <1> QED
    BY <1>1, <1>2 DEF ExecInv

LEMMA StutterExec ==
  ExecInv /\ UNCHANGED vars => ExecInv'
  <1> SUFFICES ASSUME ExecInv, UNCHANGED vars PROVE ExecInv'
    OBVIOUS
  <1>1. /\ cfg' = cfg /\ plan' = plan /\ order' = order /\ phase' = phase
        /\ pos' = pos /\ round' = round /\ mem' = mem
    BY DEF vars
  <1>2. InputHeld' = InputHeld
    BY <1>1 DEF InputHeld, InputCells, UserInput
  <1> QED
    BY <1>1, <1>2 DEF ExecInv

\* The inductive invariant.
LEMMA ExecInvariant ==
  Spec => []ExecInv
  <1>1. ExecInv /\ [Next]_vars => ExecInv'
    BY CreateExec, BeginExec, ItemExec, EndExec, StutterExec DEF Next
  <1> QED
    BY <1>1, InitExec, PTL DEF Spec

\* The phase, the position and the round stay in their ranges, and the order
\* in which Execute launches holds indices of items.
THEOREM TypeCorrect == Spec => []TypeOK
  <1>1. ExecInv => TypeOK
    <2> SUFFICES ASSUME ExecInv PROVE TypeOK
      OBVIOUS
    <2>1. /\ phase \in {"create", "ready", "run", "failed"} /\ plan.status \in {"ok", "throw", "nullptr"}
          /\ round \in 0 .. MaxRounds /\ pos \in 0 .. Len(order) + 1
      BY DEF ExecInv
    <2>2. ASSUME NEW k \in DOMAIN order
          PROVE  order[k] \in DOMAIN plan.items
      <3>1. CASE phase \in {"create", "failed"}
        BY <2>2, <3>1 DEF ExecInv
      <3>2. CASE phase \in {"ready", "run"}
        <4>1. cfg \in Configs /\ plan = CreatePlan(cfg) /\ plan.status = "ok" /\ order = Sorted(plan)
          BY <3>2 DEF ExecInv
        <4>2. Orders(order, plan)
          BY <4>1, PlansExecutable
        <4>3. SoundPlan(plan, ~ cfg.inplace)
          BY <4>1, ConfigFields, CreateSound
        <4>4. IsASeq(plan.items)
          BY <4>3 DEF SoundPlan, Staged, Paired
        <4>5. DOMAIN plan.items = 1 .. Len(plan.items)
          BY <4>4, SeqFacts
        <4>6. order \in Seq(1 .. Len(plan.items))
          BY <4>2 DEF Orders
        <4> QED
          BY <2>2, <4>5, <4>6
      <3> QED
        BY <2>1, <3>1, <3>2
    <2> QED
      BY <2>1, <2>2 DEF TypeOK
  <1> QED
    BY <1>1, ExecInvariant, PTL

\* What Execute launches, in every execution: each item of the plan once, after
\* all the items that it waits for, so that the wait for an antecedent's event
\* never waits for something that has not been launched.
LaunchesInOrder == phase \in {"ready", "run"} => Executable(plan) /\ Orders(order, plan)

\* Every plan that rocfft_plan_create makes and rocfft_execute runs has a
\* launch order that holds each item once and after its antecedents.
THEOREM LaunchOrder == Spec => []LaunchesInOrder
  <1>1. ExecInv => LaunchesInOrder
    BY PlansExecutable DEF ExecInv, LaunchesInOrder
  <1> QED
    BY <1>1, ExecInvariant, PTL

\* Executions of a transform that is not in place leave the user's input as it
\* was, for every layout of the fields: no item of any plan, optimised or
\* gathered on one device, writes to a buffer of the input.
THEOREM InputKept == Spec => []InputIntact
  <1>1. ExecInv => InputIntact
    <2> SUFFICES ASSUME ExecInv, round > 0, cfg.pass = "separate", NEW x \in InputCells
                 PROVE  Read(x.cell) = UserInput(round)[x.cell]
      BY DEF InputIntact
    <2>1. x.cell \in DOMAIN mem /\ mem[x.cell] = UserInput(round)[x.cell]
      BY DEF ExecInv, InputHeld
    <2>2. Resolve(x.cell) = x.cell
      BY DEF Resolve
    <2> QED
      BY <2>1, <2>2 DEF Read
  <1> QED
    BY <1>1, ExecInvariant, PTL
====
