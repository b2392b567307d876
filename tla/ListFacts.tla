------------------------------ MODULE ListFacts ------------------------------
(***************************************************************************)
(* Facts about lists that the proofs about the analysis and the dashboard  *)
(* rest on: induction over the naturals for sets, functions defined by     *)
(* recursion on a position, and what FlattenSeq keeps of its parts.        *)
(*                                                                         *)
(* Induction is stated for a set and not for a formula, so that it can be  *)
(* used with any set {n \in Nat : ...}.  It follows from the subset        *)
(* ordering of finite sets being well-founded.                             *)
(***************************************************************************)
EXTENDS Lists, FiniteSetTheorems, TLAPS

\* A set that has 0 and the successors of its members has every natural number.
LEMMA NatSetInduction ==
  ASSUME NEW S, 0 \in S, \A n \in S \cap Nat : n + 1 \in S
  PROVE  Nat \subseteq S
<1> DEFINE Bad == Nat \ S
           Below == {0..n : n \in Bad}
           R == StrictSubsetOrdering(Nat)
<1>1. SUFFICES ASSUME Bad # {} PROVE FALSE
  OBVIOUS
<1>2. Below \subseteq FiniteSubsetsOf(Nat) /\ Below # {}
  <2>1. \A n \in Nat : IsFiniteSet(0..n) /\ 0..n \in SUBSET Nat
    BY FS_Interval
  <2> QED BY <1>1, <2>1 DEF FiniteSubsetsOf
<1>3. PICK x \in Below : \A y \in Below : <<y, x>> \notin R
  <2>1. IsWellFoundedOn(R, FiniteSubsetsOf(Nat))
    BY FS_StrictSubsetOrderingWellFounded
  <2> HIDE DEF Below, R
  <2> QED BY <1>2, <2>1, WFMin
<1>4. PICK n \in Bad : x = 0..n
  BY <1>3
<1>5. n - 1 \in Bad
  <2>1. n # 0 /\ n - 1 \in Nat /\ (n - 1) + 1 = n
    BY <1>4
  <2> QED BY <2>1
<1>6. <<0..(n - 1), 0..n>> \in R
  BY DEF StrictSubsetOrdering
<1> QED BY <1>3, <1>4, <1>5, <1>6

\* The same up to a bound.
LEMMA IntervalInduction ==
  ASSUME NEW N \in Nat, NEW S, 0 \in S, \A n \in 0..(N - 1) : n \in S => n + 1 \in S
  PROVE  0..N \subseteq S
<1> DEFINE T == {n \in Nat : n <= N => n \in S}
<1>1. Nat \subseteq T
  <2>1. 0 \in T
    OBVIOUS
  <2>2. \A n \in T \cap Nat : n + 1 \in T
    OBVIOUS
  <2> HIDE DEF T
  <2> QED BY <2>1, <2>2, NatSetInduction
<1> QED BY <1>1
-----------------------------------------------------------------------------
\* A function is defined by its first value and one step from each value to
\* the next, if the steps stay within a set.
StepsWithin(step, N, T) == \A t \in T, i \in 1..N : step[<<t, i>>] \in T

IsRecursion(f, N, T, base, step) ==
  f \in [0..N -> T] /\ f[0] = base /\ \A i \in 1..N : f[i] = step[<<f[i - 1], i>>]

LEMMA RecursionExists ==
  ASSUME NEW N \in Nat, NEW T, NEW base \in T, NEW step, StepsWithin(step, N, T)
  PROVE  \E f : IsRecursion(f, N, T, base, step)
<1> DEFINE Good(n, f) == f[0] = base /\ \A i \in 1..n : f[i] = step[<<f[i - 1], i>>]
           S == {n \in 0..N : \E f \in [0..n -> T] : Good(n, f)}
<1>1. 0 \in S
  <2> DEFINE f == [i \in 0..0 |-> base]
  <2>1. f \in [0..0 -> T] /\ Good(0, f)
    OBVIOUS
  <2> HIDE DEF f
  <2>2. \E g \in [0..0 -> T] : Good(0, g)
    BY <2>1
  <2> QED BY <2>2
<1>2. \A n \in 0..(N - 1) : n \in S => n + 1 \in S
  <2> SUFFICES ASSUME NEW n \in 0..(N - 1), NEW f \in [0..n -> T], Good(n, f)
               PROVE  \E g \in [0..(n + 1) -> T] : Good(n + 1, g)
    OBVIOUS
  <2> DEFINE g == [i \in 0..(n + 1) |-> IF i = n + 1 THEN step[<<f[n], n + 1>>] ELSE f[i]]
  <2>1. step[<<f[n], n + 1>>] \in T
    <3>1. f[n] \in T /\ n + 1 \in 1..N
      OBVIOUS
    <3> QED BY <3>1 DEF StepsWithin
  <2>2. g \in [0..(n + 1) -> T]
    BY <2>1
  <2>3. Good(n + 1, g)
    <3>1. /\ n + 1 # 0 /\ (n + 1) - 1 = n /\ n \in 0..n /\ 0 \in 0..n
          /\ \A i \in 1..(n + 1) : i - 1 \in 0..n /\ (i \in 1..n \/ i = n + 1)
          /\ \A i \in 1..n : i \in 0..n
      OBVIOUS
    <3>2. \A i \in 0..n : g[i] = f[i]
      OBVIOUS
    <3>3. g[n + 1] = step[<<f[n], n + 1>>]
      OBVIOUS
    <3> HIDE DEF g
    <3> QED BY <3>1, <3>2, <3>3
  <2> HIDE DEF g
  <2> QED BY <2>2, <2>3
<1> HIDE DEF S
<1>3. N \in S
  BY <1>1, <1>2, IntervalInduction
<1>4. PICK f \in [0..N -> T] : Good(N, f)
  BY <1>3 DEF S
<1> QED BY <1>4 DEF IsRecursion
-----------------------------------------------------------------------------
\* A list that is flattened is the last value of a function of its positions.
LEMMA FlattenRecursion ==
  ASSUME NEW S, NEW ss \in Seq(Seq(S)), Len(ss) # 0
  PROVE  \E f : /\ FlattenSeq(ss) = f[Len(ss)]
                /\ f = [i \in 1..Len(ss) |-> IF i = 1 THEN ss[i] ELSE f[i - 1] \o ss[i]]
<1> DEFINE N == Len(ss)
           Solves(f) == f = [i \in 1..N |-> IF i = 1 THEN ss[i] ELSE f[i - 1] \o ss[i]]
           step == [p \in Seq(S) \X (1..N) |-> p[1] \o ss[p[2]]]
<1>1. /\ N \in Nat /\ <<>> \in Seq(S) /\ step \in [Seq(S) \X (1..N) -> Seq(S)]
      /\ \A i \in 1..N : ss[i] \in Seq(S)
  OBVIOUS
<1> DEFINE T == Seq(S)
           empty == <<>>
<1>2. PICK h : IsRecursion(h, N, T, empty, step)
  <2>1. N \in Nat /\ empty \in T /\ StepsWithin(step, N, T)
    BY <1>1 DEF StepsWithin
  <2> HIDE DEF step, N, T, empty
  <2> QED BY <2>1, RecursionExists
<1> HIDE DEF N
<1> DEFINE g == [i \in 1..N |-> h[i]]
<1>3. ASSUME NEW i \in 1..N
      PROVE  g[i] = IF i = 1 THEN ss[i] ELSE g[i - 1] \o ss[i]
  <2>1. i \in 0..N /\ i # 0 /\ i - 1 \in 0..N /\ h[i - 1] \in Seq(S) /\ ss[i] \in Seq(S)
    BY <1>1, <1>2 DEF IsRecursion
  <2>2. h[i] = step[<<h[i - 1], i>>]
    BY <1>2, <2>1 DEF IsRecursion
  <2>3. h[i] = h[i - 1] \o ss[i]
    BY <2>1, <2>2
  <2>4. g[i] = h[i]
    OBVIOUS
  <2>5. CASE i = 1
    <3>1. h[0] = <<>> /\ i - 1 = 0
      BY <1>1, <1>2, <2>5 DEF IsRecursion
    <3>2. <<>> \o ss[i] = ss[i]
      BY <2>1
    <3>3. h[i - 1] = <<>>
      BY <3>1
    <3>4. h[i] = ss[i]
      BY <2>3, <3>2, <3>3
    <3> HIDE DEF g
    <3> QED BY <2>4, <2>5, <3>4
  <2>6. CASE i # 1
    <3>1. i - 1 \in 1..N
      BY <1>1, <2>6
    <3>2. g[i - 1] = h[i - 1]
      BY <3>1
    <3> HIDE DEF g
    <3> QED BY <2>3, <2>4, <2>6, <3>2
  <2> QED BY <2>5, <2>6
<1>4. Solves(g)
  <2> HIDE DEF g
  <2>1. g = [i \in 1..N |-> g[i]]
    BY DEF g
  <2> QED BY <1>3, <2>1
<1>5. Solves(CHOOSE f : Solves(f))
  <2> HIDE DEF g
  <2> QED BY <1>4
<1>6. FlattenSeq(ss) = (CHOOSE f : Solves(f))[Len(ss)]
  BY DEF FlattenSeq, N
<1> HIDE DEF Solves
<1>7. \E f : FlattenSeq(ss) = f[Len(ss)] /\ Solves(f)
  BY <1>5, <1>6
<1> QED BY <1>7 DEF Solves, N

\* The flattened list has the elements of its parts, each at a place of its own.
IsPlacing(place, flat, ss, n) ==
  /\ place \in [1..Len(flat) -> Nat \X Nat]
  /\ \A k \in 1..Len(flat) :
       /\ place[k][1] \in 1..n
       /\ place[k][2] \in DOMAIN ss[place[k][1]]
       /\ flat[k] = ss[place[k][1]][place[k][2]]
  /\ \A k, l \in 1..Len(flat) : place[k] = place[l] => k = l

LEMMA PlacesDiffer ==
  ASSUME NEW place, NEW flat, NEW ss, NEW n, IsPlacing(place, flat, ss, n)
  PROVE  \A k, l \in 1..Len(flat) :
           place[k][1] = place[l][1] /\ place[k][2] = place[l][2] => k = l
<1>1. \A p, q \in Nat \X Nat : p[1] = q[1] /\ p[2] = q[2] => p = q
  OBVIOUS
<1>2. \A k \in 1..Len(flat) : place[k] \in Nat \X Nat
  BY DEF IsPlacing
<1> QED BY <1>1, <1>2 DEF IsPlacing

Covers(flat, ss, n) ==
  \A i \in 1..n : \A j \in DOMAIN ss[i] : \E k \in 1..Len(flat) : flat[k] = ss[i][j]

LEMMA PlacesOfConcat ==
  ASSUME NEW S, NEW ss \in Seq(Seq(S)), NEW n \in 0..(Len(ss) - 1), NEW flat \in Seq(S),
         NEW place, IsPlacing(place, flat, ss, n), Covers(flat, ss, n)
  PROVE  LET more == flat \o ss[n + 1]
         IN  /\ more \in Seq(S)
             /\ Covers(more, ss, n + 1)
             /\ \E longer : IsPlacing(longer, more, ss, n + 1)
<1> DEFINE part == ss[n + 1]
           more == flat \o part
           longer == [k \in 1..Len(more) |-> IF k <= Len(flat) THEN place[k]
                                             ELSE <<n + 1, k - Len(flat)>>]
<1>1. /\ part \in Seq(S) /\ more \in Seq(S) /\ Len(more) = Len(flat) + Len(part)
      /\ Len(flat) \in Nat /\ Len(part) \in Nat /\ n \in Nat /\ n + 1 \in Nat
  OBVIOUS
<1>2. \A k \in 1..Len(flat) : k \in 1..Len(more) /\ more[k] = flat[k]
  OBVIOUS
<1>3. \A j \in 1..Len(part) : /\ Len(flat) + j \in 1..Len(more)
                               /\ more[Len(flat) + j] = part[j]
  OBVIOUS
<1> HIDE DEF more, part
<1>4. \A k \in 1..Len(more) : \/ k \in 1..Len(flat)
                               \/ (k - Len(flat) \in 1..Len(part) /\ ~(k <= Len(flat)))
  BY <1>1
<1>5. Covers(more, ss, n + 1)
  <2> SUFFICES ASSUME NEW i \in 1..(n + 1), NEW j \in DOMAIN ss[i]
               PROVE  \E k \in 1..Len(more) : more[k] = ss[i][j]
    BY DEF Covers
  <2>1. CASE i \in 1..n
    BY <1>2, <2>1 DEF Covers
  <2>2. CASE i = n + 1
    <3>1. j \in 1..Len(part)
      BY <1>1, <2>2 DEF part
    <3>2. ss[i][j] = part[j]
      BY <2>2 DEF part
    <3>3. Len(flat) + j \in 1..Len(more) /\ more[Len(flat) + j] = part[j]
      BY <1>3, <3>1
    <3> HIDE DEF longer
    <3> QED BY <3>2, <3>3
  <2>3. i \in 1..n \/ i = n + 1
    BY <1>1
  <2> QED BY <2>1, <2>2, <2>3
<1>6. IsPlacing(longer, more, ss, n + 1)
  <2>1. ASSUME NEW k \in 1..Len(flat)
        PROVE  /\ longer[k] = place[k] /\ place[k] \in Nat \X Nat /\ place[k][1] \in 1..n
               /\ place[k][2] \in DOMAIN ss[place[k][1]]
               /\ more[k] = ss[place[k][1]][place[k][2]]
    <3>1. k \in 1..Len(more) /\ k <= Len(flat) /\ more[k] = flat[k]
      BY <1>1, <1>2
    <3>2. longer[k] = place[k]
      BY <3>1
    <3> HIDE DEF longer
    <3> QED BY <3>1, <3>2 DEF IsPlacing
  <2>2. ASSUME NEW k \in 1..Len(more), ~(k <= Len(flat))
        PROVE  /\ longer[k] = <<n + 1, k - Len(flat)>>
               /\ k - Len(flat) \in DOMAIN part /\ k - Len(flat) \in Nat
               /\ more[k] = part[k - Len(flat)]
    <3>1. k - Len(flat) \in 1..Len(part)
      BY <1>1, <1>4, <2>2
    <3>2. Len(flat) + (k - Len(flat)) = k
      BY <1>1
    <3>3. longer[k] = <<n + 1, k - Len(flat)>>
      BY <2>2
    <3>4. DOMAIN part = 1..Len(part)
      BY <1>1
    <3> HIDE DEF longer
    <3>5. k - Len(flat) \in Nat /\ more[k] = part[k - Len(flat)]
      BY <1>3, <3>1, <3>2
    <3> QED BY <3>1, <3>3, <3>4, <3>5
  <2>0. longer = [k \in 1..Len(more) |-> longer[k]]
    OBVIOUS
  <2> HIDE DEF longer
  <2>3. ASSUME NEW k \in 1..Len(more)
        PROVE  /\ longer[k] \in Nat \X Nat /\ longer[k][1] \in 1..(n + 1)
               /\ longer[k][2] \in DOMAIN ss[longer[k][1]]
               /\ more[k] = ss[longer[k][1]][longer[k][2]]
    <3>1. CASE k \in 1..Len(flat)
      <4>1. place[k][1] \in 1..(n + 1)
        BY <1>1, <2>1, <3>1
      <4> QED BY <2>1, <3>1, <4>1
    <3>2. CASE ~(k <= Len(flat))
      <4>1. longer[k] = <<n + 1, k - Len(flat)>> /\ k - Len(flat) \in Nat /\ n + 1 \in 1..(n + 1)
        BY <1>1, <2>2, <3>2
      <4>2. longer[k][1] = n + 1 /\ longer[k][2] = k - Len(flat) /\ longer[k] \in Nat \X Nat
        BY <1>1, <4>1
      <4> QED BY <2>2, <3>2, <4>1, <4>2 DEF part
    <3> QED BY <1>4, <3>1, <3>2
  <2>4. ASSUME NEW k \in 1..Len(more), NEW l \in 1..Len(more), longer[k] = longer[l]
        PROVE  k = l
    <3>1. CASE k \in 1..Len(flat) /\ l \in 1..Len(flat)
      BY <2>1, <2>4, <3>1 DEF IsPlacing
    <3>2. CASE ~(k <= Len(flat)) /\ ~(l <= Len(flat))
      <4>1. k - Len(flat) = l - Len(flat)
        BY <2>2, <2>4, <3>2
      <4> QED BY <1>1, <4>1
    <3>3. CASE k \in 1..Len(flat) /\ ~(l <= Len(flat))
      <4>0. longer[l] = <<n + 1, l - Len(flat)>>
        BY <2>2, <3>3
      <4>1. place[k][1] \in 1..n /\ longer[l][1] = n + 1 /\ longer[k] = place[k]
        BY <2>1, <3>3, <4>0
      <4> QED BY <1>1, <2>4, <4>1
    <3>4. CASE l \in 1..Len(flat) /\ ~(k <= Len(flat))
      <4>0. longer[k] = <<n + 1, k - Len(flat)>>
        BY <2>2, <3>4
      <4>1. place[l][1] \in 1..n /\ longer[k][1] = n + 1 /\ longer[l] = place[l]
        BY <2>1, <3>4, <4>0
      <4> QED BY <1>1, <2>4, <4>1
    <3> QED BY <1>4, <3>1, <3>2, <3>3, <3>4
  <2>5. longer \in [1..Len(more) -> Nat \X Nat]
    BY <2>0, <2>3
  <2> QED BY <2>3, <2>4, <2>5 DEF IsPlacing
<1> HIDE DEF longer
<1>7. \E any : IsPlacing(any, more, ss, n + 1)
  BY <1>6
<1> QED BY <1>1, <1>5, <1>7 DEF more, part

LEMMA FlattenFacts ==
  ASSUME NEW S, NEW ss \in Seq(Seq(S))
  PROVE  /\ FlattenSeq(ss) \in Seq(S)
         /\ Covers(FlattenSeq(ss), ss, Len(ss))
         /\ \E place : IsPlacing(place, FlattenSeq(ss), ss, Len(ss))
<1>1. CASE Len(ss) = 0
  <2>1. FlattenSeq(ss) = <<>>
    BY <1>1 DEF FlattenSeq
  <2>2. IsPlacing(<<>>, <<>>, ss, Len(ss)) /\ Covers(<<>>, ss, Len(ss))
    BY <1>1 DEF IsPlacing, Covers
  <2> QED BY <2>1, <2>2
<1>2. CASE Len(ss) # 0
  <2>1. PICK f : /\ FlattenSeq(ss) = f[Len(ss)]
                 /\ f = [i \in 1..Len(ss) |-> IF i = 1 THEN ss[i] ELSE f[i - 1] \o ss[i]]
    BY <1>2, FlattenRecursion
  <2> DEFINE Fits(flat, n) == /\ flat \in Seq(S)
                              /\ Covers(flat, ss, n)
                              /\ \E place : IsPlacing(place, flat, ss, n)
             G == {n \in Nat : n = 0 \/ Fits(f[n], n)}
  <2>2. ASSUME NEW n \in 0..(Len(ss) - 1), n \in G
        PROVE  n + 1 \in G
    <3>1. n \in Nat /\ n + 1 \in 1..Len(ss) /\ (n + 1) - 1 = n /\ ss[n + 1] \in Seq(S)
      OBVIOUS
    <3>2. CASE n = 0
      <4>1. Fits(<<>>, 0)
        <5>1. IsPlacing(<<>>, <<>>, ss, 0) /\ Covers(<<>>, ss, 0) /\ <<>> \in Seq(S)
          BY DEF IsPlacing, Covers
        <5> QED BY <5>1
      <4>2. Fits(<<>> \o ss[n + 1], n + 1)
        <5>1. PICK place : IsPlacing(place, <<>>, ss, n)
          BY <3>2, <4>1
        <5> QED BY <3>2, <4>1, <5>1, PlacesOfConcat
      <4>3. f[n + 1] = <<>> \o ss[n + 1]
        <5>1. f[1] = ss[1] /\ ss[1] \in Seq(S)
          BY <2>1, <3>1, <3>2
        <5> QED BY <3>2, <5>1
      <4>4. Fits(f[n + 1], n + 1)
        BY <4>2, <4>3
      <4> HIDE DEF Fits
      <4> QED BY <3>1, <4>4
    <3>3. CASE n # 0
      <4>1. Fits(f[n], n)
        BY <2>2, <3>3
      <4>2. Fits(f[n] \o ss[n + 1], n + 1)
        <5>1. PICK place : IsPlacing(place, f[n], ss, n)
          BY <4>1
        <5> QED BY <4>1, <5>1, PlacesOfConcat
      <4>3. f[n + 1] = f[n] \o ss[n + 1]
        <5>1. n + 1 # 1
          BY <3>3
        <5> QED BY <2>1, <3>1, <5>1
      <4>4. Fits(f[n + 1], n + 1)
        BY <4>2, <4>3
      <4> HIDE DEF Fits
      <4> QED BY <3>1, <4>4
    <3> QED BY <3>2, <3>3
  <2>3. 0 \in G /\ Len(ss) \in Nat /\ Len(ss) \in 0..Len(ss)
    OBVIOUS
  <2> HIDE DEF G
  <2>4. Len(ss) \in G
    BY <2>2, <2>3, IntervalInduction
  <2>5. Fits(f[Len(ss)], Len(ss))
    BY <1>2, <2>4 DEF G
  <2> QED BY <2>1, <2>5
<1> QED BY <1>1, <1>2
-----------------------------------------------------------------------------
\* A list of whatever it holds.
IsList(s) == s \in Seq(Range(s))

LEMMA ListOfSet ==
  ASSUME NEW S, NEW s \in Seq(S)
  PROVE  IsList(s) /\ Len(s) \in Nat /\ DOMAIN s = 1..Len(s) /\ \A i \in DOMAIN s : s[i] \in S
<1>1. s \in Seq(Range(s))
  BY DEF Range
<1> QED BY <1>1 DEF IsList

LEMMA ListIn ==
  ASSUME NEW S, NEW s \in Seq(S), NEW T, \A i \in DOMAIN s : s[i] \in T
  PROVE  s \in Seq(T)
<1>1. Len(s) \in Nat /\ DOMAIN s = 1..Len(s) /\ s = [i \in 1..Len(s) |-> s[i]]
  OBVIOUS
<1> QED BY <1>1

LEMMA ListFromFunction ==
  ASSUME NEW n \in Nat, NEW s, s = [i \in 1..n |-> s[i]]
  PROVE  IsList(s) /\ Len(s) = n
BY DEF IsList, Range

LEMMA ListsEqual ==
  ASSUME NEW s, IsList(s), NEW t, IsList(t), Len(s) = Len(t),
         \A i \in 1..Len(s) : s[i] = t[i]
  PROVE  s = t
<1>1. s = [i \in 1..Len(s) |-> s[i]] /\ t = [i \in 1..Len(t) |-> t[i]]
  BY DEF IsList
<1> QED BY <1>1

LEMMA EmptyList == IsList(<<>>) /\ Len(<<>>) = 0 /\ DOMAIN <<>> = {}
BY DEF IsList

LEMMA ListOfOne ==
  ASSUME NEW a
  PROVE  IsList(<<a>>) /\ Len(<<a>>) = 1 /\ DOMAIN <<a>> = {1} /\ <<a>>[1] = a
<1> DEFINE S == {a}
<1>1. <<a>> \in Seq(S)
  OBVIOUS
<1> HIDE DEF S
<1>2. IsList(<<a>>)
  BY <1>1, ListOfSet
<1> QED BY <1>2

LEMMA OneIn ==
  ASSUME NEW S, NEW a \in S
  PROVE  <<a>> \in Seq(S) /\ <<a>> # <<>> /\ <<>> \in Seq(S)
<1>1. <<a>> \in Seq(S) /\ <<>> \in Seq(S)
  OBVIOUS
<1> QED BY <1>1, EmptyList, ListOfOne

LEMMA ListOfTwo ==
  ASSUME NEW a, NEW b
  PROVE  /\ IsList(<<a, b>>) /\ Len(<<a, b>>) = 2 /\ DOMAIN <<a, b>> = {1, 2}
         /\ <<a, b>>[1] = a /\ <<a, b>>[2] = b
<1> DEFINE S == {a, b}
<1>1. <<a, b>> \in Seq(S)
  OBVIOUS
<1> HIDE DEF S
<1>2. IsList(<<a, b>>)
  BY <1>1, ListOfSet
<1> QED BY <1>2

LEMMA ListOfFive ==
  ASSUME NEW a, NEW b, NEW c, NEW d, NEW e
  PROVE  /\ IsList(<<a, b, c, d, e>>) /\ Len(<<a, b, c, d, e>>) = 5
         /\ 1 \in DOMAIN <<a, b, c, d, e>> /\ <<a, b, c, d, e>>[1] = a
<1> DEFINE S == {a, b, c, d, e}
<1>1. <<a, b, c, d, e>> \in Seq(S)
  OBVIOUS
<1> HIDE DEF S
<1>2. IsList(<<a, b, c, d, e>>)
  BY <1>1, ListOfSet
<1> QED BY <1>2

\* The elements of a list that is appended to another keep their order.
Joined(more, s, t) ==
  /\ IsList(more) /\ Len(more) = Len(s) + Len(t)
  /\ \A i \in DOMAIN s : i \in DOMAIN more /\ more[i] = s[i]
  /\ \A j \in DOMAIN t : Len(s) + j \in DOMAIN more /\ more[Len(s) + j] = t[j]
  /\ \A k \in DOMAIN more :
       k \notin DOMAIN s => k - Len(s) \in DOMAIN t /\ more[k] = t[k - Len(s)]

LEMMA ConcatJoins ==
  ASSUME NEW s, IsList(s), NEW t, IsList(t)
  PROVE  Joined(s \o t, s, t)
<1> DEFINE S == Range(s) \cup Range(t)
           more == s \o t
<1>1. s \in Seq(S) /\ t \in Seq(S)
  BY DEF IsList
<1>2. /\ more \in Seq(S) /\ Len(more) = Len(s) + Len(t)
      /\ Len(s) \in Nat /\ Len(t) \in Nat
      /\ DOMAIN s = 1..Len(s) /\ DOMAIN t = 1..Len(t) /\ DOMAIN more = 1..Len(more)
      /\ \A i \in 1..Len(s) : more[i] = s[i]
      /\ \A i \in 1..Len(more) : i > Len(s) => more[i] = t[i - Len(s)]
  BY <1>1
<1>3. IsList(more)
  BY <1>2, ListOfSet
<1> HIDE DEF more, S
<1>4. ASSUME NEW j \in DOMAIN t
      PROVE  Len(s) + j \in DOMAIN more /\ more[Len(s) + j] = t[j]
  <2>1. Len(s) + j \in 1..Len(more) /\ Len(s) + j > Len(s) /\ (Len(s) + j) - Len(s) = j
    BY <1>2
  <2> QED BY <1>2, <2>1
<1>5. \A k \in DOMAIN more :
        k \notin DOMAIN s => k - Len(s) \in DOMAIN t /\ more[k] = t[k - Len(s)]
  BY <1>2
<1>6. \A i \in DOMAIN s : i \in DOMAIN more /\ more[i] = s[i]
  BY <1>2
<1>7. Joined(more, s, t)
  BY <1>2, <1>3, <1>4, <1>5, <1>6 DEF Joined
<1> QED BY <1>7 DEF more

LEMMA AppendJoins ==
  ASSUME NEW s, IsList(s), NEW x
  PROVE  Joined(Append(s, x), s, <<x>>)
<1> DEFINE S == Range(s) \cup {x}
           more == Append(s, x)
<1>1. s \in Seq(S) /\ x \in S
  BY DEF IsList
<1>2. /\ more \in Seq(S) /\ Len(more) = Len(s) + 1
      /\ Len(s) \in Nat /\ DOMAIN s = 1..Len(s) /\ DOMAIN more = 1..Len(more)
      /\ \A i \in 1..Len(s) : more[i] = s[i]
      /\ more[Len(s) + 1] = x
  BY <1>1
<1>3. IsList(more)
  BY <1>2, ListOfSet
<1>4. Len(<<x>>) = 1 /\ DOMAIN <<x>> = {1} /\ <<x>>[1] = x
  OBVIOUS
<1> HIDE DEF more, S
<1>5. \A k \in DOMAIN more : k \in DOMAIN s \/ k = Len(s) + 1
  BY <1>2
<1>6. Len(s) + 1 \notin DOMAIN s /\ (Len(s) + 1) - Len(s) = 1 /\ Len(s) + 1 \in DOMAIN more
  BY <1>2
<1>7. \A i \in DOMAIN s : i \in DOMAIN more /\ more[i] = s[i]
  BY <1>2
<1>8. \A k \in DOMAIN more :
        k \notin DOMAIN s => k - Len(s) \in DOMAIN <<x>> /\ more[k] = <<x>>[k - Len(s)]
  BY <1>2, <1>4, <1>5, <1>6
<1>9. \A j \in DOMAIN <<x>> : Len(s) + j \in DOMAIN more /\ more[Len(s) + j] = <<x>>[j]
  BY <1>2, <1>4, <1>6
<1>10. Joined(more, s, <<x>>)
  BY <1>2, <1>3, <1>4, <1>7, <1>8, <1>9 DEF Joined
<1> QED BY <1>10 DEF more

\* What remains of a list is at places of its own, and is all it should be.
Selects(kept, s, places) ==
  /\ \A i \in DOMAIN s : i \in places => \E k \in DOMAIN kept : kept[k] = s[i]
  /\ \A k \in DOMAIN kept : \E i \in DOMAIN s : i \in places /\ kept[k] = s[i]
  /\ \A k, l \in DOMAIN kept :
       k # l => \E i, j \in DOMAIN s : i # j /\ kept[k] = s[i] /\ kept[l] = s[j]

LEMMA KeptSelects ==
  ASSUME NEW S, NEW s \in Seq(S), NEW places
  PROVE  Kept(s, places) \in Seq(S) /\ Selects(Kept(s, places), s, places)
<1> DEFINE parts == [i \in DOMAIN s |-> OnlyIf(i \in places, <<s[i]>>)]
           kept == FlattenSeq(parts)
<1>1. ASSUME NEW i \in DOMAIN s
      PROVE  /\ parts[i] = (IF i \in places THEN <<s[i]>> ELSE <<>>)
             /\ parts[i] \in Seq(S)
  <2>1. s[i] \in S
    OBVIOUS
  <2>2. <<s[i]>> \in Seq(S) /\ <<>> \in Seq(S)
    BY <2>1
  <2>3. parts[i] = (IF i \in places THEN <<s[i]>> ELSE <<>>)
    BY DEF OnlyIf
  <2> HIDE DEF parts
  <2> QED BY <2>2, <2>3
<1>2. DOMAIN parts = DOMAIN s /\ DOMAIN s = 1..Len(s) /\ Len(s) \in Nat
  OBVIOUS
<1>3. parts = [i \in 1..Len(s) |-> parts[i]]
  BY <1>2
<1> HIDE DEF parts
<1>4. parts \in Seq(Seq(S)) /\ Len(parts) = Len(s)
  BY <1>1, <1>2, <1>3
<1>5. kept \in Seq(S) /\ Covers(kept, parts, Len(parts))
  BY <1>4, FlattenFacts
<1>6. PICK place : IsPlacing(place, kept, parts, Len(parts))
  BY <1>4, FlattenFacts
<1>7. DOMAIN kept = 1..Len(kept)
  BY <1>5
<1> HIDE DEF kept
<1>8. ASSUME NEW k \in DOMAIN kept
      PROVE  /\ place[k] \in Nat \X Nat /\ place[k][1] \in DOMAIN s /\ place[k][1] \in places
             /\ place[k] = <<place[k][1], 1>> /\ kept[k] = s[place[k][1]]
  <2>1. /\ place[k] \in Nat \X Nat /\ place[k][1] \in 1..Len(s)
        /\ place[k][2] \in DOMAIN parts[place[k][1]]
        /\ kept[k] = parts[place[k][1]][place[k][2]]
    BY <1>4, <1>6, <1>7 DEF IsPlacing
  <2>2. place[k][1] \in DOMAIN s
    BY <1>2, <2>1
  <2>3. DOMAIN <<>> = {} /\ DOMAIN <<s[place[k][1]]>> = {1} /\ <<s[place[k][1]]>>[1] = s[place[k][1]]
    OBVIOUS
  <2>4. place[k][1] \in places
    BY <1>1, <2>1, <2>2, <2>3
  <2>5. parts[place[k][1]] = <<s[place[k][1]]>>
    BY <1>1, <2>2, <2>4
  <2>6. place[k][2] = 1
    BY <2>1, <2>3, <2>5
  <2>7. kept[k] = s[place[k][1]]
    BY <2>1, <2>3, <2>5, <2>6
  <2>8. place[k] = <<place[k][1], place[k][2]>>
    BY <2>1
  <2> QED BY <2>1, <2>2, <2>4, <2>6, <2>7, <2>8
<1>9. ASSUME NEW i \in DOMAIN s, i \in places
      PROVE  \E k \in DOMAIN kept : kept[k] = s[i]
  <2>1. parts[i] = <<s[i]>>
    BY <1>1, <1>9
  <2>2. 1 \in DOMAIN parts[i] /\ parts[i][1] = s[i]
    BY <2>1
  <2>3. i \in 1..Len(parts)
    BY <1>2, <1>4
  <2> QED BY <1>5, <1>7, <2>2, <2>3 DEF Covers
<1>10. ASSUME NEW k \in DOMAIN kept, NEW l \in DOMAIN kept, k # l
       PROVE  \E i, j \in DOMAIN s : i # j /\ kept[k] = s[i] /\ kept[l] = s[j]
  <2>1. place[k] # place[l]
    BY <1>6, <1>7, <1>10 DEF IsPlacing
  <2>2. place[k][1] # place[l][1]
    BY <1>8, <2>1
  <2> QED BY <1>8, <2>2
<1>11. Selects(kept, s, places)
  BY <1>8, <1>9, <1>10 DEF Selects
<1> QED BY <1>5, <1>11 DEF Kept, kept, parts
=============================================================================
