----------------------------- MODULE Runs_proofs -----------------------------
(***************************************************************************)
(* Lemmas about what the models compute position by position: induction on *)
(* the numbers, the folds and FlattenSeq of the community modules as runs   *)
(* that take one position after the other, and concatenations.              *)
(***************************************************************************)
EXTENDS Integers, SequencesExt, FiniteSetTheorems, SequenceTheorems, WellFoundedInduction, TLAPS

-----------------------------------------------------------------------------
(* What holds for every number follows from 0 and the step from n to n + 1;   *)
(* hence what a fold computes, position by position.                          *)

(* A set of numbers that is not empty has a least one. *)
LEMMA NatLeast ==
    ASSUME NEW T, T \subseteq Nat, T # {}
    PROVE  \E n \in T : \A m \in T : n <= m
<1> DEFINE R == OpToRel(<, Nat)
<1>1. IsWellFoundedOn(R, Nat)
  BY NatLessThanWellFounded
<1>2. \A x, y \in Nat : x < y => <<x, y>> \in R
  BY DEF OpToRel
<1> HIDE DEF R
<1>3. PICK x \in T : \A y \in T : ~ (<<y, x>> \in R)
  BY <1>1, WFMin
<1>4. \A m \in T : x <= m
  <2> SUFFICES ASSUME NEW m \in T PROVE ~(m < x)
    BY T \subseteq Nat
  <2>1. x \in Nat /\ m \in Nat
    OBVIOUS
  <2>2. m < x => <<m, x>> \in R
    BY <1>2, <2>1
  <2>3. ~ (<<m, x>> \in R)
    BY <1>3
  <2> QED BY <2>2, <2>3
<1> QED BY <1>4

(* Induction, about a set of numbers. *)
LEMMA SetInduction ==
    ASSUME NEW S, 0 \in S, \A n \in Nat : n \in S => n + 1 \in S
    PROVE  Nat \subseteq S
<1> SUFFICES ASSUME Nat \ S # {} PROVE FALSE
  OBVIOUS
<1>1. PICK n \in Nat \ S : \A m \in Nat \ S : n <= m
  BY NatLeast
<1>2. n - 1 \in Nat /\ n - 1 \notin Nat \ S
  BY <1>1
<1> QED BY <1>2

(* The greatest element of a set of positions. *)
LEMMA TopOf ==
    ASSUME NEW n \in Nat, NEW s \in SUBSET (1 .. n), s # {}
    PROVE  /\ Max(s) \in s
           /\ \A y \in s : y <= Max(s)
           /\ s \ {Max(s)} \in SUBSET (1 .. Max(s) - 1)
<1> DEFINE T == {u \in Nat : \A y \in s : y <= u}
<1>1. n \in T
  OBVIOUS
<1>2. PICK u \in T : \A v \in T : u <= v
  <2> HIDE DEF T
  <2>1. T \subseteq Nat
    BY DEF T
  <2> QED BY <1>1, <2>1, NatLeast
<1>3. u \in s
  <2> SUFFICES ASSUME u \notin s PROVE FALSE
    OBVIOUS
  <2>1. \A y \in s : y <= u - 1 /\ u - 1 \in Nat
    OBVIOUS
  <2>2. u - 1 \in T
    BY <2>1
  <2> QED BY <1>2, <2>2
<1>4. \E x \in s : \A y \in s : y <= x
  BY <1>3
<1>5. \E x \in s : \A y \in s : x >= y
  BY <1>4
<1>6. Max(s) \in s /\ \A y \in s : Max(s) >= y
  <2> DEFINE Top(x) == \A y \in s : x >= y
  <2>1. \E x \in s : Top(x)
    BY <1>5
  <2>2. Max(s) = CHOOSE x \in s : Top(x)
    BY DEF Max
  <2> HIDE DEF Top
  <2>3. Max(s) \in s /\ Top(Max(s))
    BY <2>1, <2>2
  <2> QED BY <2>3 DEF Top
<1>7. \A y \in s : y \in Nat /\ 1 <= y
  OBVIOUS
<1> DEFINE m == Max(s)
<1> HIDE DEF m
<1>8. m \in s /\ \A y \in s : m >= y
  BY <1>6 DEF m
<1>9. m \in Nat /\ \A y \in s : y <= m
  BY <1>7, <1>8
<1>10. \A y \in s \ {m} : y \in 1 .. m - 1
  BY <1>7, <1>9
<1> QED BY <1>8, <1>9, <1>10 DEF m

(* The recursion that the folds are defined by, for the first k positions, with the function
   st for what is done at each. *)
Folded(st, a0, g, k) ==
    \A s \in SUBSET (1 .. k) :
      g[s] = IF s = {} THEN a0 ELSE st[<<g[s \ {Max(s)}], Max(s)>>]
HasFold(st, a0, A, k) == \E g \in [SUBSET (1 .. k) -> A] : Folded(st, a0, g, k)

(* A function that folds one position more. *)
LEMMA FoldGrows ==
    ASSUME NEW n \in Nat, NEW A, NEW a0 \in A, NEW st \in [A \X (1 .. n) -> A],
           NEW k \in Nat, k + 1 <= n, HasFold(st, a0, A, k)
    PROVE  HasFold(st, a0, A, k + 1)
<1>1. PICK g \in [SUBSET (1 .. k) -> A] : Folded(st, a0, g, k)
  BY DEF HasFold
<1> DEFINE Val(s) == IF s = {} THEN a0 ELSE st[<<g[s \ {Max(s)}], Max(s)>>]
           h == [s \in SUBSET (1 .. k + 1) |-> Val(s)]
<1>2. ASSUME NEW s \in SUBSET (1 .. k + 1), s # {}
      PROVE  s \ {Max(s)} \in SUBSET (1 .. k) /\ Max(s) \in 1 .. n
  <2> DEFINE m == Max(s)
  <2>1. m \in s /\ s \ {m} \in SUBSET (1 .. m - 1)
    BY <1>2, TopOf, k + 1 \in Nat
  <2> HIDE DEF m
  <2>2. m \in 1 .. k + 1
    BY <2>1
  <2>3. s \ {m} \in SUBSET (1 .. k) /\ m \in 1 .. n
    BY <2>1, <2>2
  <2> QED BY <2>3 DEF m
<1>3. \A s \in SUBSET (1 .. k + 1) : Val(s) \in A
  <2> SUFFICES ASSUME NEW s \in SUBSET (1 .. k + 1), s # {} PROVE Val(s) \in A
    OBVIOUS
  <2>1. g[s \ {Max(s)}] \in A /\ Max(s) \in 1 .. n
    BY <1>2
  <2> QED BY <2>1
<1>4. h \in [SUBSET (1 .. k + 1) -> A]
  <2> HIDE DEF Val
  <2> QED BY <1>3
<1>5. \A s \in SUBSET (1 .. k) : h[s] = g[s]
  <2>1. \A s \in SUBSET (1 .. k) : s \in SUBSET (1 .. k + 1)
    OBVIOUS
  <2>2. \A s \in SUBSET (1 .. k) : g[s] = Val(s)
    BY <1>1 DEF Folded
  <2> HIDE DEF Val
  <2> QED BY <2>1, <2>2
<1>6. Folded(st, a0, h, k + 1)
  <2> SUFFICES ASSUME NEW s \in SUBSET (1 .. k + 1)
               PROVE  h[s] = IF s = {} THEN a0 ELSE st[<<h[s \ {Max(s)}], Max(s)>>]
    BY DEF Folded
  <2>1. h[s] = Val(s)
    OBVIOUS
  <2>2. s # {} => h[s \ {Max(s)}] = g[s \ {Max(s)}]
    BY <1>2, <1>5
  <2> HIDE DEF h
  <2> QED BY <2>1, <2>2
<1> HIDE DEF h
<1> QED BY <1>4, <1>6 DEF HasFold

(* Functions that fold exist, whatever is done at each position. *)
LEMMA FoldExists ==
    ASSUME NEW n \in Nat, NEW A, NEW a0 \in A, NEW st \in [A \X (1 .. n) -> A]
    PROVE  HasFold(st, a0, A, n)
<1> DEFINE S == {k \in Nat : k <= n => HasFold(st, a0, A, k)}
<1>1. HasFold(st, a0, A, 0)
  <2> DEFINE g == [s \in SUBSET (1 .. 0) |-> a0]
  <2>1. \A s \in SUBSET (1 .. 0) : s = {}
    OBVIOUS
  <2>2. g \in [SUBSET (1 .. 0) -> A]
    OBVIOUS
  <2>3. Folded(st, a0, g, 0)
    BY <2>1 DEF Folded
  <2> HIDE DEF g
  <2> QED BY <2>2, <2>3 DEF HasFold
<1>2. \A k \in Nat : k \in S => k + 1 \in S
  BY FoldGrows
<1>3. 0 \in S
  BY <1>1
<1>4. n \in S
  <2> HIDE DEF S
  <2> QED BY <1>2, <1>3, SetInduction
<1> QED BY <1>4

(* What such a function comes to, position by position, while it stays among what st takes. *)
FoldsAlong(it, st, a0, A, n) ==
    /\ it[{}] = a0
    /\ \A s \in SUBSET (1 .. n) :
         s # {} /\ it[s \ {Max(s)}] \in A => it[s] = st[<<it[s \ {Max(s)}], Max(s)>>]

(* The same as a sequence of steps, one for each position. *)
HasRun(st, a0, A, n, end) ==
    \E h \in [0 .. n -> A] : h[0] = a0 /\ h[n] = end /\ \A k \in 1 .. n : h[k] = st[<<h[k - 1], k>>]

(* A fold of the positions takes one after the other. *)
LEMMA FoldRun ==
    ASSUME NEW n \in Nat, NEW A, NEW a0 \in A, NEW st \in [A \X (1 .. n) -> A], NEW it,
           FoldsAlong(it, st, a0, A, n)
    PROVE  HasRun(st, a0, A, n, it[1 .. n])
<1> DEFINE h == [k \in 0 .. n |-> it[1 .. k]]
           S == {k \in Nat : k <= n => it[1 .. k] \in A}
<1>1. 1 .. 0 = {}
  OBVIOUS
<1>2. ASSUME NEW k \in 1 .. n, it[1 .. k - 1] \in A PROVE it[1 .. k] = st[<<it[1 .. k - 1], k>>]
  <2>1. 1 .. k \in SUBSET (1 .. n) /\ 1 .. k # {} /\ k \in 1 .. k
    <3>1. k \in 1 .. k /\ \A i \in 1 .. k : i \in 1 .. n
      OBVIOUS
    <3> QED BY <3>1
  <2>2. Max(1 .. k) = k
    <3>1. Max(1 .. k) \in 1 .. k /\ k <= Max(1 .. k)
      BY <2>1, TopOf
    <3> QED BY <3>1
  <2>3. (1 .. k) \ {k} = 1 .. k - 1
    OBVIOUS
  <2> QED BY <1>2, <2>1, <2>2, <2>3 DEF FoldsAlong
<1>3. ASSUME NEW k \in Nat, k \in S PROVE k + 1 \in S
  <2> SUFFICES ASSUME k + 1 <= n PROVE it[1 .. k + 1] \in A
    OBVIOUS
  <2>1. it[1 .. k] \in A /\ k + 1 \in 1 .. n /\ (k + 1) - 1 = k
    BY <1>3
  <2>2. it[1 .. k + 1] = st[<<it[1 .. k], k + 1>>]
    BY <1>2, <2>1
  <2> QED BY <2>1, <2>2
<1>4. Nat \subseteq S
  <2>1. 0 \in S
    BY <1>1 DEF FoldsAlong
  <2> HIDE DEF S
  <2> QED BY <1>3, <2>1, SetInduction
<1>5. \A k \in 0 .. n : it[1 .. k] \in A
  BY <1>4
<1>6. h \in [0 .. n -> A] /\ h[0] = a0 /\ h[n] = it[1 .. n]
  BY <1>1, <1>5 DEF FoldsAlong
<1>7. ASSUME NEW k \in 1 .. n PROVE h[k] = st[<<h[k - 1], k>>]
  <2>1. k - 1 \in 0 .. n /\ k \in 0 .. n
    OBVIOUS
  <2> QED BY <1>2, <1>5, <2>1
<1> HIDE DEF h
<1> QED BY <1>6, <1>7 DEF HasRun

(* Whatever is done at each position, there is a run that does it. *)
LEMMA RunExists ==
    ASSUME NEW n \in Nat, NEW A, NEW a0 \in A, NEW st \in [A \X (1 .. n) -> A]
    PROVE  \E end : HasRun(st, a0, A, n, end)
<1>1. PICK g \in [SUBSET (1 .. n) -> A] : Folded(st, a0, g, n)
  BY FoldExists DEF HasFold
<1>2. FoldsAlong(g, st, a0, A, n)
  BY <1>1 DEF Folded, FoldsAlong
<1> QED BY <1>2, FoldRun

-----------------------------------------------------------------------------
(* Concatenations.                                                            *)

(* The run of a concatenation of sequences of X, one sequence after the other. *)
Flat(X, seqs, n, f) ==
    /\ f \in [0 .. n -> Seq(X)]
    /\ f[0] = <<>> /\ f[n] = FlattenSeq(seqs)
    /\ \A k \in 1 .. n : f[k] = f[k - 1] \o seqs[k]
HasFlat(X, seqs, n) == \E f : Flat(X, seqs, n, f)

(* FlattenSeq is such a concatenation. *)
LEMMA FlatRuns ==
    ASSUME NEW X, NEW seqs \in Seq(Seq(X))
    PROVE  HasFlat(X, seqs, Len(seqs))
<1> DEFINE n == Len(seqs)
           A == Seq(X)
           st == [p \in A \X (1 .. n) |-> p[1] \o seqs[p[2]]]
           Eq(g) == g = [i \in 1 .. Len(seqs) |-> IF i = 1 THEN seqs[i] ELSE g[i - 1] \o seqs[i]]
           it == CHOOSE g : Eq(g)
<1>1. n \in Nat /\ DOMAIN seqs = 1 .. n /\ \A i \in 1 .. n : seqs[i] \in A
  OBVIOUS
<1>2. \A a, b \in A : a \o b \in A
  OBVIOUS
<1>3. <<>> \in A /\ \A a \in A : <<>> \o a = a
  OBVIOUS
<1>4. CASE n = 0
  <2>1. FlattenSeq(seqs) = seqs /\ seqs = <<>>
    BY <1>4 DEF FlattenSeq
  <2> DEFINE f == [k \in 0 .. 0 |-> <<>>]
  <2>2. Flat(X, seqs, 0, f)
    BY <1>3, <2>1 DEF Flat
  <2> HIDE DEF f
  <2> QED BY <1>4, <2>2 DEF HasFlat
<1>5. CASE n # 0
  <2>1. st \in [A \X (1 .. n) -> A]
    <3> HIDE DEF n, A
    <3> QED BY <1>1, <1>2
  <2>2. PICK h \in [0 .. n -> A] : h[0] = <<>> /\ \A k \in 1 .. n : h[k] = st[<<h[k - 1], k>>]
    <3> HIDE DEF st, A, n
    <3>1. PICK end : HasRun(st, <<>>, A, n, end)
      BY <1>1, <1>3, <2>1, RunExists
    <3> QED BY <3>1 DEF HasRun
  <2>3. ASSUME NEW k \in 1 .. n PROVE h[k] = h[k - 1] \o seqs[k]
    <3>1. h[k - 1] \in A
      OBVIOUS
    <3> HIDE DEF A, n
    <3> QED BY <2>2, <3>1
  <2>4. FlattenSeq(seqs) = it[n]
    BY <1>5 DEF FlattenSeq
  <2>5. Eq(it)
    <3> DEFINE g0 == [i \in 1 .. n |-> h[i]]
    <3>1. ASSUME NEW i \in 1 .. n PROVE g0[i] = IF i = 1 THEN seqs[i] ELSE g0[i - 1] \o seqs[i]
      <4>1. CASE i = 1
        <5>1. h[1] = <<>> \o seqs[1]
          <6>1. i = 1 /\ 1 - 1 = 0 /\ 1 \in 1 .. n
            BY <4>1
          <6>2. h[1] = h[1 - 1] \o seqs[1]
            <7> HIDE DEF n, A
            <7> QED BY <2>3, <6>1
          <6> QED BY <2>2, <6>1, <6>2
        <5> QED BY <1>1, <1>3, <4>1, <5>1
      <4>2. CASE i # 1
        <5>1. i - 1 \in 1 .. n
          BY <4>2
        <5> HIDE DEF n, A
        <5> QED BY <2>3, <4>2, <5>1
      <4> QED BY <4>1, <4>2
    <3>2. Eq(g0)
      <4> DEFINE E(i) == IF i = 1 THEN seqs[i] ELSE g0[i - 1] \o seqs[i]
      <4>1. \A i \in 1 .. n : g0[i] = E(i)
        BY <3>1
      <4>2. g0 = [i \in 1 .. n |-> g0[i]]
        OBVIOUS
      <4> HIDE DEF g0, E
      <4>3. g0 = [i \in 1 .. n |-> E(i)]
        BY <4>1, <4>2
      <4> QED BY <4>3 DEF E
    <3> HIDE DEF Eq, g0
    <3> QED BY <3>2
  <2> HIDE DEF it
  <2>6. \A i \in 1 .. n : it[i] = IF i = 1 THEN seqs[i] ELSE it[i - 1] \o seqs[i]
    BY <2>5
  <2> HIDE DEF Eq
  <2> DEFINE S == {k \in Nat : k \in 1 .. n => it[k] \in A}
  <2>7. n \in S /\ \A k \in 1 .. n : it[k] \in A
    <3>1. 0 \in S
      OBVIOUS
    <3>2. ASSUME NEW k \in Nat, k \in S PROVE k + 1 \in S
      <4> SUFFICES ASSUME k + 1 \in 1 .. n PROVE it[k + 1] \in A
        OBVIOUS
      <4>1. it[k + 1] = IF k + 1 = 1 THEN seqs[k + 1] ELSE it[(k + 1) - 1] \o seqs[k + 1]
        BY <2>6
      <4>2. CASE k = 0
        BY <1>1, <4>1, <4>2
      <4>3. CASE k # 0
        <5>1. k \in 1 .. n /\ (k + 1) - 1 = k
          BY <4>3
        <5>2. it[k] \in A
          BY <3>2, <5>1
        <5> HIDE DEF A, n
        <5> QED BY <1>1, <1>2, <4>1, <4>3, <5>1, <5>2
      <4> QED BY <4>2, <4>3
    <3>3. Nat \subseteq S
      <4> HIDE DEF S
      <4> QED BY <3>1, <3>2, SetInduction
    <3> QED BY <1>1, <3>3
  <2> DEFINE f == [k \in 0 .. n |-> IF k = 0 THEN <<>> ELSE it[k]]
  <2>8. f \in [0 .. n -> A] /\ f[0] = <<>> /\ f[n] = FlattenSeq(seqs)
    <3>1. \A k \in 0 .. n : (IF k = 0 THEN <<>> ELSE it[k]) \in A
      BY <1>3, <2>7
    <3> QED BY <1>1, <1>5, <2>4, <3>1
  <2>9. ASSUME NEW k \in 1 .. n PROVE f[k] = f[k - 1] \o seqs[k]
    <3>1. k - 1 \in 0 .. n /\ k \in 0 .. n
      OBVIOUS
    <3>2. CASE k = 1
      BY <1>1, <1>3, <2>6, <3>1, <3>2
    <3>3. CASE k # 1
      <4>1. k # 0 /\ k - 1 # 0
        BY <3>3
      <4>3. it[k] = it[k - 1] \o seqs[k]
        <5> HIDE DEF n, f
        <5> QED BY <2>6, <3>3
      <4>2. f[k] = it[k] /\ f[k - 1] = it[k - 1]
        <5>1. \A j \in 0 .. n : f[j] = IF j = 0 THEN <<>> ELSE it[j]
          OBVIOUS
        <5> HIDE DEF f
        <5> QED BY <3>1, <4>1, <5>1
      <4> HIDE DEF f
      <4> QED BY <4>2, <4>3
    <3> QED BY <3>2, <3>3
  <2> HIDE DEF f
  <2>10. Flat(X, seqs, n, f)
    BY <2>8, <2>9 DEF Flat
  <2> QED BY <2>10 DEF HasFlat
<1> QED BY <1>4, <1>5


(* A concatenation with one sequence more. *)
LEMMA FlatAppend ==
    ASSUME NEW X, NEW seqs \in Seq(Seq(X)), NEW t \in Seq(X)
    PROVE  /\ FlattenSeq(seqs) \in Seq(X)
           /\ FlattenSeq(Append(seqs, t)) = FlattenSeq(seqs) \o t
<1> DEFINE n == Len(seqs)
           more == Append(seqs, t)
<1>1. n \in Nat /\ more \in Seq(Seq(X)) /\ Len(more) = n + 1
      /\ more[n + 1] = t /\ \A i \in 1 .. n : more[i] = seqs[i]
  OBVIOUS
<1>2. PICK f : Flat(X, seqs, n, f)
  BY FlatRuns DEF HasFlat
<1>3. PICK g : Flat(X, more, n + 1, g)
  <2> HIDE DEF more, n
  <2> QED BY <1>1, FlatRuns DEF HasFlat
<1> HIDE DEF more, n
<1> DEFINE S == {k \in Nat : k <= n => g[k] = f[k]}
<1>4. 0 \in S
  BY <1>2, <1>3 DEF Flat
<1>5. ASSUME NEW k \in Nat, k \in S PROVE k + 1 \in S
  <2> SUFFICES ASSUME k + 1 <= n PROVE g[k + 1] = f[k + 1]
    OBVIOUS
  <2>1. k + 1 \in 1 .. n /\ k + 1 \in 1 .. n + 1 /\ (k + 1) - 1 = k /\ g[k] = f[k]
    BY <1>1, <1>5
  <2>2. g[k + 1] = g[(k + 1) - 1] \o more[k + 1] /\ f[k + 1] = f[(k + 1) - 1] \o seqs[k + 1]
    BY <1>2, <1>3, <2>1 DEF Flat
  <2> QED BY <1>1, <2>1, <2>2
<1>6. g[n] = f[n]
  <2>1. Nat \subseteq S
    <3> HIDE DEF S
    <3> QED BY <1>4, <1>5, SetInduction
  <2> QED BY <1>1, <2>1
<1>7. n + 1 \in 1 .. n + 1 /\ (n + 1) - 1 = n
  BY <1>1
<1>8. g[n + 1] = g[(n + 1) - 1] \o more[n + 1]
  BY <1>3, <1>7 DEF Flat
<1>9. f[n] = FlattenSeq(seqs) /\ f[n] \in Seq(X) /\ g[n + 1] = FlattenSeq(more)
  BY <1>1, <1>2, <1>3 DEF Flat
<1> QED BY <1>1, <1>6, <1>7, <1>8, <1>9 DEF more

(* A concatenation of nothing, and of one sequence. *)
LEMMA FlatFew ==
    /\ FlattenSeq(<<>>) = <<>>
    /\ \A X : \A t \in Seq(X) : FlattenSeq(<<t>>) = t
<1>1. FlattenSeq(<<>>) = <<>>
  BY DEF FlattenSeq
<1>2. ASSUME NEW X, NEW t \in Seq(X) PROVE FlattenSeq(<<t>>) = t
  <2>1. <<>> \in Seq(Seq(X)) /\ Append(<<>>, t) = <<t>> /\ <<>> \o t = t
    OBVIOUS
  <2>2. FlattenSeq(Append(<<>>, t)) = FlattenSeq(<<>>) \o t
    BY <2>1, FlatAppend
  <2> QED BY <1>1, <2>1, <2>2
<1> QED BY <1>1, <1>2

(* The first k of a sequence. *)
First(s, k) == [i \in 1 .. k |-> s[i]]

(* The first of a sequence, one by one. *)
LEMMA FirstGrows ==
    ASSUME NEW X, NEW s \in Seq(X)
    PROVE  /\ First(s, 0) = <<>> /\ First(s, Len(s)) = s
           /\ \A k \in 0 .. Len(s) : First(s, k) \in Seq(X)
           /\ \A k \in Nat : k + 1 <= Len(s) =>
                s[k + 1] \in X /\ First(s, k + 1) = Append(First(s, k), s[k + 1])
  BY DEF First

(* What is appended to the second of two sequences. *)
LEMMA ConcatAppend ==
    ASSUME NEW X, NEW a \in Seq(X), NEW b \in Seq(X), NEW c \in X
    PROVE  /\ a \o b \in Seq(X)
           /\ a \o Append(b, c) = Append(a \o b, c)
<1>1. a \o b \in Seq(X)
  OBVIOUS
<1>2. a \o Append(b, c) = Append(a \o b, c)
  OBVIOUS
<1> QED BY <1>1, <1>2

(* A concatenation of two lists of sequences. *)
LEMMA FlatConcat ==
    ASSUME NEW X, NEW seqs \in Seq(Seq(X)), NEW more \in Seq(Seq(X))
    PROVE  FlattenSeq(seqs \o more) = FlattenSeq(seqs) \o FlattenSeq(more)
<1>a. \A p \in Seq(Seq(X)), r \in Seq(X) :
        seqs \o p \in Seq(Seq(X)) /\ seqs \o Append(p, r) = Append(seqs \o p, r)
  BY ConcatAppend
<1>b. \A p, q, r \in Seq(X) : (p \o q) \o r = p \o (q \o r)
  BY ConcatAssociative
<1>c. \A s \in Seq(Seq(X)), t \in Seq(X) :
        FlattenSeq(s) \in Seq(X) /\ FlattenSeq(Append(s, t)) = FlattenSeq(s) \o t
  BY FlatAppend
<1> DEFINE n == Len(more)
           Part(k) == First(more, k)
           S == {k \in Nat : k <= n => FlattenSeq(seqs \o Part(k)) = FlattenSeq(seqs) \o FlattenSeq(Part(k))}
<1>1. n \in Nat /\ Part(0) = <<>> /\ Part(n) = more
  BY FirstGrows
<1>2. FlattenSeq(seqs) \in Seq(X)
  BY FlatAppend, EmptySeq
<1>3. FlattenSeq(seqs) \in Seq(X) /\ FlattenSeq(<<>>) = <<>>
  BY <1>2, FlatFew
<1>4. 0 \in S
  <2>1. seqs \o <<>> = seqs /\ FlattenSeq(seqs) \o <<>> = FlattenSeq(seqs)
    BY <1>3, ConcatEmptySeq
  <2> QED BY <1>1, <1>3, <2>1
<1>5. ASSUME NEW k \in Nat, k \in S PROVE k + 1 \in S
  <2> SUFFICES ASSUME k + 1 <= n PROVE FlattenSeq(seqs \o Part(k + 1)) = FlattenSeq(seqs) \o FlattenSeq(Part(k + 1))
    OBVIOUS
  <2>1. /\ Part(k) \in Seq(Seq(X)) /\ more[k + 1] \in Seq(X)
        /\ Part(k + 1) = Append(Part(k), more[k + 1])
        /\ FlattenSeq(seqs \o Part(k)) = FlattenSeq(seqs) \o FlattenSeq(Part(k))
    <3>1. k \in 0 .. n /\ k <= n
      OBVIOUS
    <3>2. Part(k) \in Seq(Seq(X)) /\ more[k + 1] \in Seq(X) /\ Part(k + 1) = Append(Part(k), more[k + 1])
      BY <3>1, FirstGrows
    <3>3. FlattenSeq(seqs \o Part(k)) = FlattenSeq(seqs) \o FlattenSeq(Part(k))
      BY <1>5, <3>1
    <3> QED BY <3>2, <3>3
  <2> HIDE DEF Part, n, S
  <2>2. seqs \o Part(k) \in Seq(Seq(X)) /\ seqs \o Part(k + 1) = Append(seqs \o Part(k), more[k + 1])
    <3>1. seqs \o Part(k) \in Seq(Seq(X)) /\ seqs \o Append(Part(k), more[k + 1]) = Append(seqs \o Part(k), more[k + 1])
      BY <1>a, <2>1
    <3> QED BY <2>1, <3>1
  <2>3. FlattenSeq(seqs \o Part(k + 1)) = FlattenSeq(seqs \o Part(k)) \o more[k + 1]
    BY <1>c, <2>1, <2>2
  <2>4. FlattenSeq(Part(k + 1)) = FlattenSeq(Part(k)) \o more[k + 1] /\ FlattenSeq(Part(k)) \in Seq(X)
    BY <1>c, <2>1
  <2>6. (FlattenSeq(seqs) \o FlattenSeq(Part(k))) \o more[k + 1]
          = FlattenSeq(seqs) \o (FlattenSeq(Part(k)) \o more[k + 1])
    BY <1>2, <1>b, <2>1, <2>4
  <2> QED BY <2>1, <2>3, <2>4, <2>6
<1>6. n \in S
  <2> HIDE DEF S, n, Part
  <2> QED BY <1>1, <1>4, <1>5, SetInduction
<1> QED BY <1>1, <1>6

(* A sequence is the concatenation of its elements. *)
LEMMA FlatSingles ==
    ASSUME NEW X, NEW s \in Seq(X)
    PROVE  FlattenSeq([i \in DOMAIN s |-> <<s[i]>>]) = s
<1> DEFINE n == Len(s)
           Part(k) == [i \in 1 .. k |-> <<s[i]>>]
           S == {k \in Nat : k <= n => FlattenSeq(Part(k)) = First(s, k)}
<1>1. n \in Nat /\ DOMAIN s = 1 .. n /\ Part(0) = <<>>
  OBVIOUS
<1>2. 0 \in S
  BY <1>1, FirstGrows, FlatFew
<1>3. ASSUME NEW k \in Nat, k \in S PROVE k + 1 \in S
  <2> SUFFICES ASSUME k + 1 <= n PROVE FlattenSeq(Part(k + 1)) = First(s, k + 1)
    OBVIOUS
  <2>1. s[k + 1] \in X /\ First(s, k + 1) = Append(First(s, k), s[k + 1]) /\ First(s, k) \in Seq(X)
    <3>1. k \in 0 .. n
      OBVIOUS
    <3>2. s[k + 1] \in X /\ First(s, k + 1) = Append(First(s, k), s[k + 1])
      BY FirstGrows
    <3>3. First(s, k) \in Seq(X)
      BY <3>1, FirstGrows
    <3> QED BY <3>2, <3>3
  <2>2. \A i \in 1 .. k : s[i] \in X
    OBVIOUS
  <2>3. Part(k) \in Seq(Seq(X)) /\ Part(k + 1) = Append(Part(k), <<s[k + 1]>>)
    <3>1. \A x \in X : <<x>> \in Seq(X)
      OBVIOUS
    <3>2. \A i \in 1 .. k : <<s[i]>> \in Seq(X)
      BY <2>2, <3>1
    <3>3. Part(k) \in Seq(Seq(X))
      <4> HIDE DEF n
      <4> QED BY <3>2
    <3>4. Part(k + 1) = Append(Part(k), <<s[k + 1]>>)
      <4> HIDE DEF n
      <4> QED OBVIOUS
    <3> QED BY <3>3, <3>4
  <2>4. FlattenSeq(Part(k)) = First(s, k)
    BY <1>3
  <2> HIDE DEF Part, S, n
  <2>5. FlattenSeq(Part(k + 1)) = FlattenSeq(Part(k)) \o <<s[k + 1]>>
    <3>1. <<s[k + 1]>> \in Seq(X)
      BY <2>1
    <3> QED BY <2>3, <3>1, FlatAppend
  <2>6. First(s, k) \o <<s[k + 1]>> = Append(First(s, k), s[k + 1])
    BY <2>1
  <2> QED BY <2>1, <2>4, <2>5, <2>6
<1>4. n \in S
  <2> HIDE DEF S, n, Part
  <2> QED BY <1>1, <1>2, <1>3, SetInduction
<1>5. FlattenSeq(Part(n)) = First(s, n)
  BY <1>1, <1>4
<1>6. First(s, n) = s
  BY FirstGrows
<1>7. Part(n) = [i \in DOMAIN s |-> <<s[i]>>]
  BY <1>1
<1> QED BY <1>5, <1>6, <1>7

-----------------------------------------------------------------------------
(* What is picked from a sequence, what a concatenation has, and places in an *)
(* order.                                                                     *)
(* A concatenation, one part after the other. *)
LEMMA FlatSteps ==
    ASSUME NEW X, NEW parts \in Seq(Seq(X))
    PROVE  /\ FlattenSeq(First(parts, 0)) = <<>> /\ First(parts, Len(parts)) = parts
           /\ \A k \in 0 .. Len(parts) : FlattenSeq(First(parts, k)) \in Seq(X)
           /\ \A k \in 1 .. Len(parts) :
                FlattenSeq(First(parts, k)) = FlattenSeq(First(parts, k - 1)) \o parts[k]
<1>1. FlattenSeq(First(parts, 0)) = <<>> /\ First(parts, Len(parts)) = parts
  BY FirstGrows, FlatFew
<1>2. \A k \in 0 .. Len(parts) : FlattenSeq(First(parts, k)) \in Seq(X)
  <2> SUFFICES ASSUME NEW k \in 0 .. Len(parts) PROVE FlattenSeq(First(parts, k)) \in Seq(X)
    OBVIOUS
  <2>1. First(parts, k) \in Seq(Seq(X))
    BY FirstGrows
  <2> QED BY <2>1, FlatAppend, EmptySeq
<1>3. ASSUME NEW k \in 1 .. Len(parts)
      PROVE  FlattenSeq(First(parts, k)) = FlattenSeq(First(parts, k - 1)) \o parts[k]
  <2>1. k - 1 \in 0 .. Len(parts) /\ k - 1 \in Nat /\ (k - 1) + 1 = k /\ k <= Len(parts)
    OBVIOUS
  <2>2. First(parts, k - 1) \in Seq(Seq(X))
    BY <2>1, FirstGrows
  <2>3. parts[(k - 1) + 1] \in Seq(X) /\ First(parts, (k - 1) + 1) = Append(First(parts, k - 1), parts[(k - 1) + 1])
    BY <2>1, FirstGrows
  <2>4. parts[k] \in Seq(X) /\ First(parts, k) = Append(First(parts, k - 1), parts[k])
    BY <2>1, <2>3
  <2> QED BY <2>2, <2>4, FlatAppend
<1> QED BY <1>1, <1>2, <1>3

(* Those at some places of a sequence, in order; and the places themselves. *)
Picked(s, P) == FlattenSeq([i \in DOMAIN s |-> IF i \in P THEN <<s[i]>> ELSE <<>>])
Places(n, P) == FlattenSeq([i \in 1 .. n |-> IF i \in P THEN <<i>> ELSE <<>>])
Rising(g) == \A j, k \in DOMAIN g : j < k => g[j] < g[k]

(* The places are those there are, each once and in order, and what is picked is what is
   at them. *)
LEMMA PickedAt ==
    ASSUME NEW X, NEW s \in Seq(X), NEW P
    PROVE  /\ Places(Len(s), P) \in Seq(1 .. Len(s)) /\ Rising(Places(Len(s), P))
           /\ ToSet(Places(Len(s), P)) = P \cap (1 .. Len(s))
           /\ Picked(s, P) \in Seq(X)
           /\ Picked(s, P) = [k \in DOMAIN Places(Len(s), P) |-> s[Places(Len(s), P)[k]]]
<1> DEFINE n == Len(s)
           p == [i \in 1 .. n |-> IF i \in P THEN <<s[i]>> ELSE <<>>]
           q == [i \in 1 .. n |-> IF i \in P THEN <<i>> ELSE <<>>]
           f(k) == FlattenSeq(First(p, k))
           g(k) == FlattenSeq(First(q, k))
           Right(k) == /\ g(k) \in Seq(1 .. n) /\ Rising(g(k)) /\ ToSet(g(k)) = P \cap (1 .. k)
                       /\ f(k) = [j \in DOMAIN g(k) |-> s[g(k)[j]]]
           S == {k \in Nat : k <= n => Right(k)}
<1>1. n \in Nat /\ DOMAIN s = 1 .. n /\ \A i \in 1 .. n : s[i] \in X
  OBVIOUS
<1>2. p \in Seq(Seq(X)) /\ Len(p) = n
  <2>1. \A i \in 1 .. n : (IF i \in P THEN <<s[i]>> ELSE <<>>) \in Seq(X)
    BY <1>1
  <2> QED BY <1>1, <2>1
<1>3. q \in Seq(Seq(1 .. n)) /\ Len(q) = n
  <2>1. \A D : <<>> \in Seq(D) /\ \A d \in D : <<d>> \in Seq(D)
    OBVIOUS
  <2>2. \A i \in 1 .. n : (IF i \in P THEN <<i>> ELSE <<>>) \in Seq(1 .. n)
    BY <2>1
  <2> QED BY <1>1, <2>2
<1>4. \A i \in 1 .. n : p[i] = (IF i \in P THEN <<s[i]>> ELSE <<>>) /\ q[i] = (IF i \in P THEN <<i>> ELSE <<>>)
  OBVIOUS
<1>5. Picked(s, P) = FlattenSeq(p) /\ Places(n, P) = FlattenSeq(q)
  BY <1>1 DEF Picked, Places
<1> HIDE DEF n, p, q
<1>6. /\ f(0) = <<>> /\ First(p, n) = p /\ \A k \in 0 .. n : f(k) \in Seq(X)
      /\ \A k \in 1 .. n : f(k) = f(k - 1) \o p[k]
  BY <1>2, FlatSteps
<1>7. /\ g(0) = <<>> /\ First(q, n) = q /\ \A k \in 0 .. n : g(k) \in Seq(1 .. n)
      /\ \A k \in 1 .. n : g(k) = g(k - 1) \o q[k]
  BY <1>3, FlatSteps
<1>a. \A D : \A a \in Seq(D) : a \o <<>> = a /\ \A d \in D : a \o <<d>> = Append(a, d)
  OBVIOUS
<1> HIDE DEF f, g
<1>8. 0 \in S
  BY <1>6, <1>7, <1>1 DEF Rising, ToSet
<1>9. ASSUME NEW k \in Nat, k \in S PROVE k + 1 \in S
  <2> SUFFICES ASSUME k + 1 <= n PROVE Right(k + 1)
    OBVIOUS
  <2>1. k + 1 \in 1 .. n /\ (k + 1) - 1 = k /\ k \in 0 .. n /\ Right(k)
    BY <1>1, <1>9
  <2>2. f(k + 1) = f(k) \o p[k + 1] /\ g(k + 1) = g(k) \o q[k + 1]
    BY <1>6, <1>7, <2>1
  <2>3. f(k) \in Seq(X) /\ g(k) \in Seq(1 .. n)
    BY <1>6, <1>7, <2>1
  <2>4. CASE k + 1 \notin P
    <3>1. f(k + 1) = f(k) /\ g(k + 1) = g(k)
      <4>1. f(k + 1) = f(k) \o <<>> /\ g(k + 1) = g(k) \o <<>>
        BY <1>4, <2>1, <2>2, <2>4
      <4> QED BY <1>a, <2>3, <4>1
    <3>2. P \cap (1 .. k + 1) = P \cap (1 .. k)
      BY <2>4
    <3> QED BY <2>1, <3>1, <3>2
  <2>5. CASE k + 1 \in P
    <3>1. f(k + 1) = Append(f(k), s[k + 1]) /\ g(k + 1) = Append(g(k), k + 1)
      <4>1. f(k + 1) = f(k) \o <<s[k + 1]>> /\ g(k + 1) = g(k) \o <<k + 1>>
        BY <1>4, <2>1, <2>2, <2>5
      <4>2. s[k + 1] \in X /\ k + 1 \in 1 .. n
        BY <1>1, <2>1
      <4> QED BY <1>a, <2>3, <4>1, <4>2
    <3> DEFINE m == Len(g(k))
               new == Append(g(k), k + 1)
    <3>2. /\ m \in Nat /\ DOMAIN g(k) = 1 .. m /\ DOMAIN new = 1 .. m + 1
          /\ new[m + 1] = k + 1 /\ \A j \in 1 .. m : new[j] = g(k)[j]
          /\ new \in Seq(1 .. n)
      BY <2>1, <2>3
    <3>3. \A j \in 1 .. m : g(k)[j] \in P \cap (1 .. k)
      BY <2>1, <3>2 DEF ToSet
    <3>4. Rising(new)
      BY <2>1, <3>2, <3>3 DEF Rising
    <3>5. ToSet(new) = P \cap (1 .. k + 1)
      <4>1. ToSet(new) = ToSet(g(k)) \cup {k + 1}
        <5> HIDE DEF m, new
        <5>1. \A j \in 1 .. m + 1 : j \in 1 .. m \/ j = m + 1
          BY <3>2
        <5>2. \A j \in 1 .. m : j \in 1 .. m + 1
          BY <3>2
        <5>3. m + 1 \in 1 .. m + 1
          BY <3>2
        <5> QED BY <3>2, <5>1, <5>2, <5>3 DEF ToSet
      <4>2. P \cap (1 .. k + 1) = (P \cap (1 .. k)) \cup {k + 1}
        BY <2>5
      <4> QED BY <2>1, <4>1, <4>2
    <3>6. f(k + 1) = [j \in DOMAIN new |-> s[new[j]]]
      <4> DEFINE old == [j \in DOMAIN g(k) |-> s[g(k)[j]]]
      <4>1. f(k) = old /\ Len(f(k)) = m /\ DOMAIN f(k) = 1 .. m
        BY <2>1, <2>3, <3>2
      <4>2. Append(f(k), s[k + 1]) = [j \in 1 .. m + 1 |-> IF j = m + 1 THEN s[k + 1] ELSE f(k)[j]]
        BY <1>1, <2>1, <2>3, <4>1
      <4>3. \A j \in 1 .. m : f(k)[j] = s[g(k)[j]]
        BY <3>2, <4>1
      <4> HIDE DEF m, new, old
      <4>4. \A j \in 1 .. m + 1 : (IF j = m + 1 THEN s[k + 1] ELSE f(k)[j]) = s[new[j]]
        BY <3>2, <4>3
      <4> QED BY <3>1, <3>2, <4>2, <4>4
    <3> QED BY <3>1, <3>2, <3>4, <3>5, <3>6
  <2> QED BY <2>4, <2>5
<1>10. n \in S
  <2> HIDE DEF S
  <2> QED BY <1>1, <1>8, <1>9, SetInduction
<1>11. Right(n) /\ f(n) \in Seq(X)
  BY <1>1, <1>6, <1>10
<1>12. f(n) = Picked(s, P) /\ g(n) = Places(n, P)
  BY <1>5, <1>6, <1>7 DEF f, g
<1> QED BY <1>11, <1>12 DEF n

(* A concatenation has what its parts have. *)
LEMMA FlatHas ==
    ASSUME NEW X, NEW seqs \in Seq(Seq(X))
    PROVE  /\ FlattenSeq(seqs) \in Seq(X)
           /\ ToSet(FlattenSeq(seqs)) = UNION {ToSet(seqs[k]) : k \in DOMAIN seqs}
<1> DEFINE n == Len(seqs)
           Parts(k) == UNION {ToSet(seqs[j]) : j \in 1 .. k}
<1>1. n \in Nat /\ DOMAIN seqs = 1 .. n /\ \A i \in 1 .. n : seqs[i] \in Seq(X)
  OBVIOUS
<1>2. PICK f : Flat(X, seqs, n, f)
  BY FlatRuns DEF HasFlat
<1> HIDE DEF n
<1> DEFINE S == {k \in Nat : k <= n => ToSet(f[k]) = Parts(k)}
<1>3. 0 \in S
  <2>1. f[0] = <<>>
    BY <1>2 DEF Flat
  <2>2. ToSet(<<>>) = {} /\ Parts(0) = {}
    BY DEF ToSet
  <2> QED BY <2>1, <2>2
<1>4. ASSUME NEW a \in Seq(X), NEW b \in Seq(X) PROVE ToSet(a \o b) = ToSet(a) \cup ToSet(b)
  <2>1. /\ Len(a) \in Nat /\ Len(b) \in Nat /\ Len(a \o b) = Len(a) + Len(b)
        /\ DOMAIN a = 1 .. Len(a) /\ DOMAIN b = 1 .. Len(b) /\ DOMAIN (a \o b) = 1 .. Len(a) + Len(b)
    OBVIOUS
  <2>2. \A i \in 1 .. Len(a) : (a \o b)[i] = a[i]
    OBVIOUS
  <2>3. \A i \in 1 .. Len(a) + Len(b) : i > Len(a) => (a \o b)[i] = b[i - Len(a)]
    OBVIOUS
  <2>4. ASSUME NEW i \in 1 .. Len(b) PROVE (a \o b)[i + Len(a)] = b[i]
    <3>1. i + Len(a) \in 1 .. Len(a) + Len(b) /\ i + Len(a) > Len(a) /\ (i + Len(a)) - Len(a) = i
      BY <2>1
    <3> QED BY <2>3, <3>1
  <2> DEFINE c == a \o b
  <2> HIDE DEF c
  <2>5. ASSUME NEW x \in ToSet(c) PROVE x \in ToSet(a) \cup ToSet(b)
    <3>1. PICK i \in 1 .. Len(a) + Len(b) : x = c[i]
      BY <2>1 DEF ToSet, c
    <3>2. i \in 1 .. Len(a) \/ i - Len(a) \in 1 .. Len(b)
      BY <2>1
    <3> QED BY <2>1, <2>2, <2>3, <3>1, <3>2 DEF ToSet, c
  <2>6. ASSUME NEW x \in ToSet(a) PROVE x \in ToSet(c)
    <3>1. PICK i \in 1 .. Len(a) : x = a[i]
      BY <2>1 DEF ToSet
    <3>2. i \in DOMAIN c /\ c[i] = x
      BY <2>1, <2>2, <3>1 DEF c
    <3> QED BY <3>2 DEF ToSet
  <2>7. ASSUME NEW x \in ToSet(b) PROVE x \in ToSet(c)
    <3>1. PICK i \in 1 .. Len(b) : x = b[i]
      BY <2>1 DEF ToSet
    <3>2. i + Len(a) \in DOMAIN c /\ c[i + Len(a)] = x
      BY <2>1, <2>4, <3>1 DEF c
    <3> QED BY <3>2 DEF ToSet
  <2>8. ToSet(c) = ToSet(a) \cup ToSet(b)
    BY <2>5, <2>6, <2>7
  <2> QED BY <2>8 DEF c
<1>5. ASSUME NEW k \in Nat, k \in S PROVE k + 1 \in S
  <2> SUFFICES ASSUME k + 1 <= n PROVE ToSet(f[k + 1]) = Parts(k + 1)
    OBVIOUS
  <2>1. k \in 0 .. n /\ k + 1 \in 1 .. n /\ (k + 1) - 1 = k /\ ToSet(f[k]) = Parts(k)
    BY <1>1, <1>5
  <2>2. f[k] \in Seq(X) /\ seqs[k + 1] \in Seq(X) /\ f[k + 1] = f[k] \o seqs[k + 1]
    <3>1. f[k] \in Seq(X) /\ seqs[k + 1] \in Seq(X) /\ f[k + 1] = f[(k + 1) - 1] \o seqs[k + 1]
      BY <1>1, <1>2, <2>1 DEF Flat
    <3> QED BY <2>1, <3>1
  <2>3. Parts(k + 1) = Parts(k) \cup ToSet(seqs[k + 1])
    <3>1. 1 .. k + 1 = (1 .. k) \cup {k + 1}
      OBVIOUS
    <3> QED BY <3>1
  <2> QED BY <1>4, <2>1, <2>2, <2>3
<1>6. n \in S
  <2> HIDE DEF S
  <2> QED BY <1>1, <1>3, <1>5, SetInduction
<1>7. f[n] \in Seq(X) /\ f[n] = FlattenSeq(seqs)
  BY <1>1, <1>2 DEF Flat
<1>8. ToSet(f[n]) = Parts(n)
  BY <1>1, <1>6
<1> QED BY <1>1, <1>7, <1>8

(* What a sequence of steps holds is what its parts hold. *)
LEMMA ConcatHas ==
    ASSUME NEW X, NEW a \in Seq(X), NEW b \in Seq(X)
    PROVE  /\ a \o b \in Seq(X) /\ Len(a \o b) = Len(a) + Len(b)
           /\ \A i \in DOMAIN a : i \in DOMAIN (a \o b) /\ (a \o b)[i] = a[i]
           /\ \A j \in DOMAIN b : Len(a) + j \in DOMAIN (a \o b) /\ (a \o b)[Len(a) + j] = b[j]
           /\ \A k \in DOMAIN (a \o b) :
                k \in DOMAIN a \/ \E j \in DOMAIN b : k = Len(a) + j
           /\ ToSet(a \o b) = ToSet(a) \cup ToSet(b)
<1>1. /\ Len(a) \in Nat /\ Len(b) \in Nat /\ Len(a \o b) = Len(a) + Len(b)
      /\ DOMAIN a = 1 .. Len(a) /\ DOMAIN b = 1 .. Len(b) /\ DOMAIN (a \o b) = 1 .. Len(a) + Len(b)
      /\ a \o b \in Seq(X)
  OBVIOUS
<1>2. \A i \in 1 .. Len(a) : (a \o b)[i] = a[i]
  OBVIOUS
<1>3. \A i \in 1 .. Len(a) + Len(b) : i > Len(a) => (a \o b)[i] = b[i - Len(a)]
  OBVIOUS
<1>4. ASSUME NEW j \in 1 .. Len(b) PROVE (a \o b)[Len(a) + j] = b[j]
  <2>1. Len(a) + j \in 1 .. Len(a) + Len(b) /\ Len(a) + j > Len(a) /\ (Len(a) + j) - Len(a) = j
    BY <1>1
  <2> QED BY <1>3, <2>1
<1>5. ASSUME NEW k \in 1 .. Len(a) + Len(b) PROVE k \in 1 .. Len(a) \/ \E j \in 1 .. Len(b) : k = Len(a) + j
  <2>1. k \notin 1 .. Len(a) => k - Len(a) \in 1 .. Len(b) /\ k = Len(a) + (k - Len(a))
    BY <1>1
  <2> QED BY <2>1
<1>6. /\ \A i \in 1 .. Len(a) : i \in 1 .. Len(a) + Len(b)
      /\ \A j \in 1 .. Len(b) : Len(a) + j \in 1 .. Len(a) + Len(b)
  BY <1>1
<1>7. /\ \A i \in DOMAIN a : i \in DOMAIN (a \o b) /\ (a \o b)[i] = a[i]
      /\ \A j \in DOMAIN b : Len(a) + j \in DOMAIN (a \o b) /\ (a \o b)[Len(a) + j] = b[j]
      /\ \A k \in DOMAIN (a \o b) : k \in DOMAIN a \/ \E j \in DOMAIN b : k = Len(a) + j
  BY <1>1, <1>2, <1>4, <1>5, <1>6
<1>8. ToSet(a \o b) = ToSet(a) \cup ToSet(b)
  <2> DEFINE c == a \o b
  <2>1. \A k \in DOMAIN c : c[k] \in ToSet(a) \cup ToSet(b)
    BY <1>7 DEF ToSet
  <2>2. \A i \in DOMAIN a : a[i] \in ToSet(c)
    BY <1>7 DEF ToSet
  <2>3. \A j \in DOMAIN b : b[j] \in ToSet(c)
    BY <1>7 DEF ToSet
  <2> HIDE DEF c
  <2>4. ToSet(c) = ToSet(a) \cup ToSet(b)
    BY <2>1, <2>2, <2>3 DEF ToSet
  <2> QED BY <2>4 DEF c
<1> QED BY <1>1, <1>7, <1>8

(* The elements of a sequence differ by their keys. *)
Apart(s, key) == \A i, j \in DOMAIN s : key[s[i]] = key[s[j]] => i = j

(* Two sequences in a row. *)
LEMMA ConcatApart ==
    ASSUME NEW X, NEW a \in Seq(X), NEW b \in Seq(X), NEW key, Apart(a, key), Apart(b, key),
           \A x \in ToSet(a), y \in ToSet(b) : key[x] # key[y]
    PROVE  Apart(a \o b, key)
<1> DEFINE c == a \o b
           n == Len(a)
<1>1. \A i \in DOMAIN a : c[i] = a[i] /\ a[i] \in ToSet(a)
  BY ConcatHas DEF ToSet
<1>2. \A j \in DOMAIN b : c[n + j] = b[j] /\ b[j] \in ToSet(b)
  BY ConcatHas DEF ToSet
<1>3. \A k \in DOMAIN c : k \in DOMAIN a \/ \E j \in DOMAIN b : k = n + j
  BY ConcatHas
<1> HIDE DEF c, n
<1>4. ASSUME NEW k \in DOMAIN c, NEW l \in DOMAIN c, key[c[k]] = key[c[l]] PROVE k = l
  <2>1. CASE k \in DOMAIN a /\ l \in DOMAIN a
    BY <1>1, <1>4, <2>1 DEF Apart
  <2>2. CASE k \notin DOMAIN a /\ l \notin DOMAIN a
    <3>1. PICK i, j \in DOMAIN b : k = n + i /\ l = n + j
      BY <1>3, <2>2
    <3>2. key[b[i]] = key[b[j]]
      BY <1>2, <1>4, <3>1
    <3> QED BY <3>1, <3>2 DEF Apart
  <2>3. CASE k \in DOMAIN a /\ l \notin DOMAIN a
    <3>1. PICK j \in DOMAIN b : l = n + j
      BY <1>3, <2>3
    <3> QED BY <1>1, <1>2, <1>4, <2>3, <3>1
  <2>4. CASE k \notin DOMAIN a /\ l \in DOMAIN a
    <3>1. PICK j \in DOMAIN b : k = n + j
      BY <1>3, <2>4
    <3> QED BY <1>1, <1>2, <1>4, <2>4, <3>1
  <2> QED BY <2>1, <2>2, <2>3, <2>4
<1> QED BY <1>4 DEF c, Apart

(* Any number of sequences in a row. *)
LEMMA FlatApart ==
    ASSUME NEW X, NEW parts \in Seq(Seq(X)), NEW key,
           \A k \in DOMAIN parts : Apart(parts[k], key),
           \A k, l \in DOMAIN parts : k # l =>
             \A x \in ToSet(parts[k]), y \in ToSet(parts[l]) : key[x] # key[y]
    PROVE  Apart(FlattenSeq(parts), key)
<1> DEFINE n == Len(parts)
           f(k) == FlattenSeq(First(parts, k))
           S == {k \in Nat : k <= n => Apart(f(k), key) /\ ToSet(f(k)) \subseteq UNION {ToSet(parts[j]) : j \in 1 .. k}}
<1>1. n \in Nat /\ DOMAIN parts = 1 .. n /\ \A k \in 1 .. n : parts[k] \in Seq(X)
  OBVIOUS
<1>2. /\ f(0) = <<>> /\ First(parts, n) = parts /\ \A k \in 0 .. n : f(k) \in Seq(X)
      /\ \A k \in 1 .. n : f(k) = f(k - 1) \o parts[k]
  BY FlatSteps
<1>3. f(n) = FlattenSeq(parts)
  BY <1>2
<1> HIDE DEF n, f
<1>7. \A a, b \in Seq(X) :
        Apart(a, key) /\ Apart(b, key) /\ (\A x \in ToSet(a), y \in ToSet(b) : key[x] # key[y])
        => Apart(a \o b, key) /\ ToSet(a \o b) \subseteq ToSet(a) \cup ToSet(b)
  <2> SUFFICES ASSUME NEW a \in Seq(X), NEW b \in Seq(X), Apart(a, key), Apart(b, key),
                      \A x \in ToSet(a), y \in ToSet(b) : key[x] # key[y]
               PROVE  Apart(a \o b, key) /\ ToSet(a \o b) \subseteq ToSet(a) \cup ToSet(b)
    OBVIOUS
  <2>1. Apart(a \o b, key)
    BY ConcatApart
  <2>2. ToSet(a \o b) = ToSet(a) \cup ToSet(b)
    BY ConcatHas
  <2> QED BY <2>1, <2>2
<1>4. 0 \in S
  BY <1>2 DEF Apart, ToSet
<1>5. ASSUME NEW k \in Nat, k \in S PROVE k + 1 \in S
  <2> SUFFICES ASSUME k + 1 <= n
               PROVE  /\ Apart(f(k + 1), key)
                      /\ ToSet(f(k + 1)) \subseteq UNION {ToSet(parts[j]) : j \in 1 .. k + 1}
    OBVIOUS
  <2>1. /\ k + 1 \in 1 .. n /\ (k + 1) - 1 = k /\ k \in 0 .. n /\ Apart(f(k), key)
        /\ ToSet(f(k)) \subseteq UNION {ToSet(parts[j]) : j \in 1 .. k}
    BY <1>1, <1>5
  <2>2. f(k + 1) = f(k) \o parts[k + 1] /\ f(k) \in Seq(X) /\ parts[k + 1] \in Seq(X)
    <3>1. f(k + 1) = f((k + 1) - 1) \o parts[k + 1]
      BY <1>2, <2>1
    <3> QED BY <1>1, <1>2, <2>1, <3>1
  <2>3. \A x \in ToSet(f(k)), y \in ToSet(parts[k + 1]) : key[x] # key[y]
    <3> SUFFICES ASSUME NEW x \in ToSet(f(k)), NEW y \in ToSet(parts[k + 1]) PROVE key[x] # key[y]
      OBVIOUS
    <3>1. PICK j \in 1 .. k : x \in ToSet(parts[j])
      BY <2>1
    <3>2. j \in 1 .. n /\ j # k + 1
      BY <1>1, <2>1
    <3> QED BY <1>1, <2>1, <3>1, <3>2
  <2>4. Apart(f(k), key) /\ Apart(parts[k + 1], key)
    BY <1>1, <2>1
  <2>5. Apart(f(k + 1), key) /\ ToSet(f(k + 1)) \subseteq ToSet(f(k)) \cup ToSet(parts[k + 1])
    <3> HIDE DEF S
    <3>1. Apart(f(k) \o parts[k + 1], key)
          /\ ToSet(f(k) \o parts[k + 1]) \subseteq ToSet(f(k)) \cup ToSet(parts[k + 1])
      BY <1>7, <2>2, <2>3, <2>4
    <3> QED BY <2>2, <3>1
  <2>6. \A j \in 1 .. k : j \in 1 .. k + 1
    OBVIOUS
  <2>7. k + 1 \in 1 .. k + 1
    OBVIOUS
  <2> QED BY <2>1, <2>5, <2>6, <2>7
<1>6. n \in S
  <2> HIDE DEF S
  <2> QED BY <1>1, <1>4, <1>5, SetInduction
<1> QED BY <1>1, <1>3, <1>6

(* How many come before each in an order of 1 .. n tells its place. *)
LEMMA Ranks ==
    ASSUME NEW n \in Nat, NEW R,
           \A i, j \in 1 .. n : i # j => <<i, j>> \in R \/ <<j, i>> \in R,
           \A i \in 1 .. n : <<i, i>> \notin R,
           \A h, i, j \in 1 .. n : <<h, i>> \in R /\ <<i, j>> \in R => <<h, j>> \in R
    PROVE  LET Place(i) == 1 + Cardinality({j \in 1 .. n : <<j, i>> \in R})
           IN /\ \A i \in 1 .. n : Place(i) \in 1 .. n
              /\ \A i, j \in 1 .. n : <<i, j>> \in R => Place(i) < Place(j)
              /\ \A i, j \in 1 .. n : Place(i) = Place(j) => i = j
              /\ \A k \in 1 .. n : \E i \in 1 .. n : Place(i) = k
<1> DEFINE D == 1 .. n
           Below(i) == {j \in D : <<j, i>> \in R}
           Place(i) == 1 + Cardinality(Below(i))
           f == [i \in D |-> Place(i)]
<1>1. IsFiniteSet(D) /\ Cardinality(D) = n
  BY FS_Interval
<1>2. ASSUME NEW i \in D
      PROVE  IsFiniteSet(Below(i)) /\ Cardinality(Below(i)) \in Nat /\ Cardinality(Below(i)) < n
  <2>0. i \in D /\ i \notin Below(i)
    OBVIOUS
  <2>1. Below(i) \in SUBSET D /\ Below(i) # D
    <3>1. Below(i) \in SUBSET D
      OBVIOUS
    <3> HIDE DEF Below, D
    <3> QED BY <2>0, <3>1
  <2> HIDE DEF Below, D
  <2>2. /\ IsFiniteSet(Below(i)) /\ Cardinality(Below(i)) <= Cardinality(D)
        /\ Cardinality(D) = Cardinality(Below(i)) => D = Below(i)
    BY <1>1, <2>1, FS_Subset
  <2>3. Cardinality(Below(i)) \in Nat
    BY <2>2, FS_CardinalityType
  <2> QED BY <1>1, <2>1, <2>2, <2>3
<1>3. ASSUME NEW i \in D PROVE Place(i) \in D
  <2>1. \A m \in Nat : m < n => 1 + m \in D
    OBVIOUS
  <2> HIDE DEF Below, D
  <2> QED BY <1>2, <2>1
<1>4. ASSUME NEW i \in D, NEW j \in D, <<i, j>> \in R PROVE Place(i) < Place(j)
  <2>1. Below(i) \in SUBSET Below(j)
    BY <1>4
  <2>2. i \in Below(j) /\ i \notin Below(i)
    BY <1>4
  <2> HIDE DEF Below, D
  <2>3. /\ Cardinality(Below(i)) <= Cardinality(Below(j))
        /\ Cardinality(Below(j)) = Cardinality(Below(i)) => Below(j) = Below(i)
    BY <1>2, <2>1, FS_Subset
  <2> QED BY <1>2, <2>2, <2>3
<1>5. ASSUME NEW i \in D, NEW j \in D, Place(i) = Place(j) PROVE i = j
  <2> SUFFICES ASSUME i # j PROVE FALSE
    OBVIOUS
  <2>1. <<i, j>> \in R \/ <<j, i>> \in R
    OBVIOUS
  <2>2. Place(i) \in D /\ Place(j) \in D
    BY <1>3
  <2>3. \A x \in D : ~(x < x)
    OBVIOUS
  <2>4. <<i, j>> \in R => Place(i) < Place(j)
    BY <1>4
  <2>5. <<j, i>> \in R => Place(j) < Place(i)
    BY <1>4
  <2> HIDE DEF Place, D
  <2> QED BY <1>5, <2>1, <2>2, <2>3, <2>4, <2>5
<1>6. ASSUME NEW k \in D PROVE \E i \in D : Place(i) = k
  <2>1. f \in [D -> D] /\ \A i, j \in D : f[i] = f[j] => i = j
    <3> HIDE DEF Place
    <3> QED BY <1>3, <1>5
  <2>2. f \in Injection(D, D)
    <3> HIDE DEF f
    <3> QED BY <2>1 DEF Injection, IsInjective
  <2>3. f \in Surjection(D, D)
    <3> HIDE DEF f
    <3> QED BY <1>1, <2>2, FS_Injection
  <2>4. PICK i \in D : f[i] = k
    <3> HIDE DEF f
    <3> QED BY <2>3 DEF Surjection
  <2> QED BY <2>4
<1> QED BY <1>3, <1>4, <1>5, <1>6

(* The places are told apart. *)
LEMMA PlacesApart ==
    ASSUME NEW n \in Nat, NEW g \in Seq(1 .. n), Rising(g)
    PROVE  \A j, k \in DOMAIN g : g[j] = g[k] => j = k
<1>1. Len(g) \in Nat /\ DOMAIN g = 1 .. Len(g) /\ \A j \in DOMAIN g : g[j] \in 1 .. n
  OBVIOUS
<1>2. \A j \in DOMAIN g : g[j] \in Nat /\ j \in Nat
  BY <1>1
<1> QED BY <1>2 DEF Rising

(* What is picked from a sequence whose elements differ. *)
LEMMA PickedApart ==
    ASSUME NEW X, NEW s \in Seq(X), NEW P, NEW key, Apart(s, key)
    PROVE  /\ Picked(s, P) \in Seq(X) /\ Apart(Picked(s, P), key)
           /\ ToSet(Picked(s, P)) = {s[i] : i \in P \cap DOMAIN s}
<1> DEFINE n == Len(s)
           g == Places(n, P)
           p == Picked(s, P)
<1>1. n \in Nat /\ DOMAIN s = 1 .. n
  OBVIOUS
<1>2. /\ g \in Seq(1 .. n) /\ Rising(g) /\ ToSet(g) = P \cap (1 .. n) /\ p \in Seq(X)
      /\ p = [k \in DOMAIN g |-> s[g[k]]]
  BY PickedAt
<1> HIDE DEF n, g, p
<1>3. \A j, k \in DOMAIN g : g[j] = g[k] => j = k
  BY <1>1, <1>2, PlacesApart
<1>4. \A k \in DOMAIN g : g[k] \in DOMAIN s /\ g[k] \in P
  BY <1>1, <1>2 DEF ToSet
<1>5. DOMAIN p = DOMAIN g /\ \A k \in DOMAIN g : p[k] = s[g[k]]
  BY <1>2
<1>6. Apart(p, key)
  BY <1>3, <1>4, <1>5 DEF Apart
<1>7. ToSet(p) = {s[i] : i \in P \cap DOMAIN s}
  <2>1. \A i \in P \cap DOMAIN s : \E k \in DOMAIN g : g[k] = i
    BY <1>1, <1>2 DEF ToSet
  <2> QED BY <1>4, <1>5, <2>1 DEF ToSet
<1> QED BY <1>2, <1>6, <1>7 DEF p

(* The least and the greatest place of some, as SelectInSeq and SelectLastInSeq have them. *)
LEMMA EndsOf ==
    ASSUME NEW n \in Nat, NEW I \in SUBSET (1 .. n)
    PROVE  /\ I # {} => Min(I) \in I /\ \A i \in I : Min(I) <= i
           /\ I # {} => Max(I) \in I /\ \A i \in I : i <= Max(I)
<1>1. ASSUME I # {} PROVE Min(I) \in I /\ \A i \in I : Min(I) <= i
  <2>1. I \subseteq Nat
    OBVIOUS
  <2>2. \E x \in I : \A y \in I : x <= y
    BY <1>1, <2>1, NatLeast
  <2> QED BY <2>2 DEF Min
<1>2. ASSUME I # {} PROVE Max(I) \in I /\ \A i \in I : i <= Max(I)
  BY <1>2, TopOf
<1> QED BY <1>1, <1>2

=============================================================================
