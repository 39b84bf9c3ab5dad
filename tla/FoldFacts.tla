------------------------------ MODULE FoldFacts ------------------------------
(***************************************************************************)
(* What FoldLeft computes.  The operator that is folded is a parameter, so *)
(* whoever needs these facts instantiates the module for it, which copies  *)
(* all it extends: that is kept small.  Induction is over sets: S, T and I *)
(* below hold the numbers, sequences or results that have the property in  *)
(* question.                                                               *)
(***************************************************************************)
EXTENDS Integers, Sequences, WellFoundedInduction

CONSTANT Op(_, _)

Largest(S) == CHOOSE x \in S : \A y \in S : x >= y

\* FoldLeft(Op, b, s), as SequencesExt and Folds define it.
Fold(b, s) ==
  LET iter[t \in SUBSET DOMAIN s] ==
        IF t = {} THEN b ELSE Op(iter[t \ {Largest(t)}], s[Largest(t)])
  IN iter[DOMAIN s]

-----------------------------------------------------------------------------
(* Fold is defined on sets of indices; Iter says of a function that it     *)
(* is the one that definition chooses.                                     *)

LEMMA NatSetInduction ==
  ASSUME NEW T, 0 \in T, \A n \in Nat : n \in T => n + 1 \in T
  PROVE  \A n \in Nat : n \in T
<1> SUFFICES ASSUME NEW m \in Nat, m \notin T PROVE FALSE
  OBVIOUS
<1> DEFINE S == {n \in Nat : n \notin T}
<1>1. S \subseteq Nat /\ S # {}
  OBVIOUS
<1>2. PICK x \in S : \A y \in S : ~ (<<y, x>> \in OpToRel(<, Nat))
  <2> HIDE DEF S
  <2> QED BY <1>1, WFMin, NatLessThanWellFounded
<1>3. x # 0 /\ x - 1 \in Nat
  OBVIOUS
<1>4. x - 1 \in T
  <2>1. <<x - 1, x>> \in OpToRel(<, Nat)
    BY <1>3 DEF OpToRel
  <2> QED BY <1>2, <1>3, <2>1
<1> QED BY <1>3, <1>4

LEMMA LastOfRange ==
  ASSUME NEW n \in Nat \ {0}
  PROVE  Largest(1..n) = n /\ (1..n) \ {n} = 1..(n - 1)
BY DEF Largest

Iter(it, D, b, s) ==
  it = [t \in SUBSET D |-> IF t = {} THEN b ELSE Op(it[t \ {Largest(t)}], s[Largest(t)])]

LEMMA FoldIsIter ==
  ASSUME NEW b, NEW s, NEW it, Iter(it, DOMAIN s, b, s)
  PROVE  \E jt : Iter(jt, DOMAIN s, b, s) /\ Fold(b, s) = jt[DOMAIN s]
<1> DEFINE jt == CHOOSE f : f = [t \in SUBSET DOMAIN s |->
              IF t = {} THEN b ELSE Op(f[t \ {Largest(t)}], s[Largest(t)])]
<1>1. Iter(jt, DOMAIN s, b, s)
  BY DEF Iter
<1>2. Fold(b, s) = jt[DOMAIN s]
  BY DEF Fold
<1> HIDE DEF jt
<1> QED BY <1>1, <1>2

LEMMA IterExists ==
  ASSUME NEW b, NEW s, NEW m \in Nat
  PROVE  \E it : Iter(it, 1..m, b, s)
<1> DEFINE T == {n \in Nat : \E it : Iter(it, 1..n, b, s)}
<1>1. 0 \in T
  <2> DEFINE it == [t \in SUBSET (1..0) |-> b]
  <2>1. it = [t \in SUBSET (1..0) |->
                IF t = {} THEN b ELSE Op(it[t \ {Largest(t)}], s[Largest(t)])]
    <3>1. 1..0 = {} /\ SUBSET {} = {{}}
      OBVIOUS
    <3> QED BY <3>1
  <2> HIDE DEF it
  <2> QED BY <2>1 DEF Iter
<1>2. ASSUME NEW n \in Nat, n \in T PROVE n + 1 \in T
  <2>1. PICK it : Iter(it, 1..n, b, s)
    BY <1>2
  <2> DEFINE N == n + 1
             jt == [t \in SUBSET (1..N) |->
                      IF t \subseteq 1..n THEN it[t] ELSE Op(it[t \ {N}], s[N])]
  <2>2. ASSUME NEW t \in SUBSET (1..N)
        PROVE  jt[t] = IF t = {} THEN b ELSE Op(jt[t \ {Largest(t)}], s[Largest(t)])
    <3> DEFINE u == t \ {Largest(t)}
    <3>1. ASSUME t \subseteq 1..n
          PROVE  jt[t] = IF t = {} THEN b ELSE Op(jt[t \ {Largest(t)}], s[Largest(t)])
      <4>1. it[t] = IF t = {} THEN b ELSE Op(it[t \ {Largest(t)}], s[Largest(t)])
        BY <2>1, <3>1 DEF Iter
      <4>2. u \in SUBSET (1..N) /\ u \subseteq 1..n
        BY <3>1
      <4>3. jt[u] = it[u]
        <5> HIDE DEF u
        <5> QED BY <4>2
      <4>4. jt[t] = it[t]
        BY <3>1
      <4> HIDE DEF jt
      <4> QED BY <4>1, <4>3, <4>4
    <3>2. ASSUME ~(t \subseteq 1..n)
          PROVE  jt[t] = IF t = {} THEN b ELSE Op(jt[t \ {Largest(t)}], s[Largest(t)])
      <4>1. N \in t /\ \A k \in t : k \in Int /\ N >= k
        BY <3>2
      <4>2. Largest(t) = N
        <5>1. \A k \in t : (\A y \in t : k >= y) => k = N
          BY <4>1
        <5> HIDE DEF N
        <5> QED BY <4>1, <5>1 DEF Largest
      <4>3. u = t \ {N} /\ u \in SUBSET (1..N) /\ u \subseteq 1..n
        BY <4>2
      <4>4. jt[u] = it[u]
        <5> HIDE DEF u
        <5> QED BY <4>3
      <4>5. jt[t] = Op(it[t \ {N}], s[N])
        BY <3>2
      <4>6. t # {}
        BY <4>1
      <4> HIDE DEF jt, N
      <4> QED BY <4>2, <4>3, <4>4, <4>5, <4>6
    <3> QED BY <3>1, <3>2
  <2>3. jt = [t \in SUBSET (1..N) |-> jt[t]]
    OBVIOUS
  <2> HIDE DEF jt
  <2>4. Iter(jt, 1..N, b, s)
    BY <2>2, <2>3 DEF Iter
  <2> QED BY <2>4
<1> HIDE DEF T
<1>3. m \in T
  BY <1>1, <1>2, NatSetInduction
<1> QED BY <1>3 DEF T

LEMMA IterAgree ==
  ASSUME NEW b, NEW s, NEW t, NEW n \in Nat, NEW m \in Nat, n <= m,
         \A i \in 1..n : s[i] = t[i],
         NEW it, NEW jt, Iter(it, 1..n, b, s), Iter(jt, 1..m, b, t)
  PROVE  it[1..n] = jt[1..n]
<1> DEFINE T == {k \in Nat : k <= n => it[1..k] = jt[1..k]}
<1>1. 0 \in T
  <2>1. 1..0 = {}
    OBVIOUS
  <2>2. it[{}] = b /\ jt[{}] = b
    BY DEF Iter
  <2> QED BY <2>1, <2>2
<1>2. ASSUME NEW k \in Nat, k \in T PROVE k + 1 \in T
  <2> SUFFICES ASSUME k + 1 <= n PROVE it[1..(k + 1)] = jt[1..(k + 1)]
    OBVIOUS
  <2> DEFINE r == k + 1
             R == 1..r
             Q == 1..k
  <2>1. Largest(R) = r /\ R \ {r} = Q
    BY LastOfRange, k + 1 - 1 = k
  <2>2. R # {} /\ R \in SUBSET (1..n) /\ R \in SUBSET (1..m) /\ r \in 1..n
    <3>1. r \in R /\ r \in 1..n
      OBVIOUS
    <3>2. \A i \in R : i \in 1..n /\ i \in 1..m
      OBVIOUS
    <3> HIDE DEF R
    <3> QED BY <3>1, <3>2
  <2>3. it[Q] = jt[Q]
    BY <1>2
  <2> HIDE DEF R, Q, r
  <2>4. it[R] = Op(it[Q], s[r])
    BY <2>1, <2>2 DEF Iter
  <2>5. jt[R] = Op(jt[Q], t[r])
    BY <2>1, <2>2 DEF Iter
  <2> QED BY <2>2, <2>3, <2>4, <2>5 DEF R, r
<1> HIDE DEF T
<1>3. n \in T
  BY <1>1, <1>2, NatSetInduction
<1> QED BY <1>3 DEF T

-----------------------------------------------------------------------------
(* A fold goes through its sequence element by element.                    *)

LEMMA FoldEmpty ==
  ASSUME NEW b
  PROVE  Fold(b, <<>>) = b
<1>1. DOMAIN <<>> = 1..0 /\ DOMAIN <<>> = {}
  OBVIOUS
<1>2. PICK it : Iter(it, DOMAIN <<>>, b, <<>>)
  BY <1>1, IterExists
<1>3. PICK jt : Iter(jt, DOMAIN <<>>, b, <<>>) /\ Fold(b, <<>>) = jt[DOMAIN <<>>]
  BY <1>2, FoldIsIter
<1>4. jt[{}] = b
  BY <1>3 DEF Iter
<1> QED BY <1>1, <1>3, <1>4

LEMMA FoldAppend ==
  ASSUME NEW S, NEW b, NEW s \in Seq(S), NEW x \in S
  PROVE  Fold(b, Append(s, x)) = Op(Fold(b, s), x)
<1> DEFINE t == Append(s, x)
           n == Len(s)
<1>1. /\ DOMAIN s = 1..n /\ DOMAIN t = 1..(n + 1) /\ n \in Nat
      /\ t[n + 1] = x /\ \A i \in 1..n : s[i] = t[i]
  OBVIOUS
<1> HIDE DEF t, n
<1>2. PICK it : Iter(it, DOMAIN s, b, s) /\ Fold(b, s) = it[DOMAIN s]
  <2>1. PICK f : Iter(f, DOMAIN s, b, s)
    BY <1>1, IterExists
  <2> QED BY <2>1, FoldIsIter
<1>3. PICK jt : Iter(jt, DOMAIN t, b, t) /\ Fold(b, t) = jt[DOMAIN t]
  <2>1. PICK f : Iter(f, DOMAIN t, b, t)
    BY <1>1, IterExists, n + 1 \in Nat
  <2> QED BY <2>1, FoldIsIter
<1>4. it[1..n] = jt[1..n]
  BY <1>1, <1>2, <1>3, IterAgree, n <= n + 1, n + 1 \in Nat
<1>5. Largest(1..(n + 1)) = n + 1 /\ (1..(n + 1)) \ {n + 1} = 1..n
  BY <1>1, LastOfRange, n + 1 - 1 = n
<1>6. 1..(n + 1) # {}
  BY <1>1, n + 1 \in 1..(n + 1)
<1>7. jt[1..(n + 1)] = Op(jt[1..n], t[n + 1])
  BY <1>1, <1>3, <1>5, <1>6 DEF Iter
<1> QED BY <1>1, <1>2, <1>3, <1>4, <1>7 DEF t

\* What holds of the empty sequence and of every extension holds of all.
LEMMA SeqSetInduction ==
  ASSUME NEW S, NEW T, <<>> \in T,
         \A s \in Seq(S), x \in S : s \in T => Append(s, x) \in T
  PROVE  \A s \in Seq(S) : s \in T
<1> DEFINE N == {n \in Nat : \A s \in Seq(S) : Len(s) = n => s \in T}
<1>1. 0 \in N
  BY \A s \in Seq(S) : Len(s) = 0 => s = <<>>
<1>2. ASSUME NEW n \in Nat, n \in N PROVE n + 1 \in N
  <2> SUFFICES ASSUME NEW s \in Seq(S), Len(s) = n + 1 PROVE s \in T
    OBVIOUS
  <2> DEFINE t == SubSeq(s, 1, n)
             x == s[n + 1]
  <2>1. t \in Seq(S) /\ Len(t) = n /\ x \in S
    OBVIOUS
  <2>2. s = Append(t, x)
    OBVIOUS
  <2> HIDE DEF t, x
  <2> QED BY <1>2, <2>1, <2>2
<1> HIDE DEF N
<1>3. \A n \in Nat : n \in N
  BY <1>1, <1>2, NatSetInduction
<1> QED BY <1>3 DEF N

LEMMA FoldOne ==
  ASSUME NEW b, NEW x
  PROVE  Fold(b, <<x>>) = Op(b, x)
<1> DEFINE none == <<>>
           S == {x}
<1>1. none \in Seq(S) /\ x \in S /\ <<x>> = Append(none, x)
  OBVIOUS
<1>2. Fold(b, none) = b
  BY FoldEmpty
<1> HIDE DEF none, S
<1>3. Fold(b, Append(none, x)) = Op(Fold(b, none), x)
  BY <1>1, FoldAppend
<1> QED BY <1>1, <1>2, <1>3

LEMMA FoldConcat ==
  ASSUME NEW S, NEW b, NEW s \in Seq(S), NEW t \in Seq(S)
  PROVE  Fold(b, s \o t) = Fold(Fold(b, s), t)
<1> DEFINE T == {u \in Seq(S) : Fold(b, s \o u) = Fold(Fold(b, s), u)}
<1>1. <<>> \in T
  BY s \o <<>> = s, FoldEmpty
<1>2. ASSUME NEW u \in Seq(S), NEW x \in S, u \in T PROVE Append(u, x) \in T
  <2>1. s \o Append(u, x) = Append(s \o u, x)
    OBVIOUS
  <2>2. s \o u \in Seq(S) /\ Append(u, x) \in Seq(S)
    OBVIOUS
  <2>3. Fold(b, Append(s \o u, x)) = Op(Fold(b, s \o u), x)
    <3> DEFINE v == s \o u
    <3>1. v \in Seq(S)
      BY <2>2
    <3> HIDE DEF v
    <3>2. Fold(b, Append(v, x)) = Op(Fold(b, v), x)
      BY <3>1, FoldAppend
    <3> QED BY <3>2 DEF v
  <2>4. Fold(Fold(b, s), Append(u, x)) = Op(Fold(Fold(b, s), u), x)
    BY FoldAppend
  <2> QED BY <1>2, <2>1, <2>2, <2>3, <2>4
<1> HIDE DEF T
<1>3. t \in T
  BY <1>1, <1>2, SeqSetInduction
<1> QED BY <1>3 DEF T

\* A fold stays in a set that its operator does not leave.
LEMMA FoldStays ==
  ASSUME NEW S, NEW I, \A d \in I, x \in S : Op(d, x) \in I,
         NEW b \in I, NEW s \in Seq(S)
  PROVE  Fold(b, s) \in I
<1> DEFINE T == {u \in Seq(S) : Fold(b, u) \in I}
<1>1. <<>> \in T
  BY FoldEmpty
<1>2. ASSUME NEW u \in Seq(S), NEW x \in S, u \in T PROVE Append(u, x) \in T
  <2>1. Fold(b, Append(u, x)) = Op(Fold(b, u), x)
    BY FoldAppend
  <2> QED BY <1>2, <2>1
<1> HIDE DEF T
<1>3. s \in T
  BY <1>1, <1>2, SeqSetInduction
<1> QED BY <1>3 DEF T

\* The first element first.
LEMMA FoldFirst ==
  ASSUME NEW S, NEW b, NEW s \in Seq(S), s # <<>>
  PROVE  Fold(b, s) = Fold(Op(b, Head(s)), Tail(s))
<1> DEFINE hd == Head(s)
           tl == Tail(s)
           one == <<hd>>
<1>1. hd \in S /\ tl \in Seq(S) /\ one \in Seq(S) /\ s = one \o tl
  OBVIOUS
<1>2. Fold(b, one) = Op(b, hd)
  BY FoldOne
<1> HIDE DEF hd, tl, one
<1>3. Fold(b, one \o tl) = Fold(Fold(b, one), tl)
  BY <1>1, FoldConcat
<1>4. Fold(b, s) = Fold(Op(b, hd), tl)
  BY <1>1, <1>2, <1>3
<1> QED BY <1>4 DEF hd, tl

=============================================================================
