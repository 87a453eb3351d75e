-------------------------- MODULE Sequence_proofs --------------------------
(***************************************************************************)
(* Induction, and what the recursive functions on sequences compute.  The  *)
(* induction theorems of the library take an operator; here a set takes    *)
(* its place.                                                              *)
(***************************************************************************)
EXTENDS SeqFilter, TLAPS, SequenceTheorems, WellFoundedInduction

\* A set of numbers that is not empty has a least element.
LEMMA LeastNumber ==
  ASSUME NEW T \in SUBSET Nat, T # {}
  PROVE  \E x \in T : \A y \in T : x <= y
<1> DEFINE R == {p \in Nat \X Nat : p[1] < p[2]}
<1>1. IsWellFoundedOn(R, Nat)
  BY NatLessThanWellFounded, Zenon DEF OpToRel
<1>2. PICK x \in T : \A y \in T : <<y, x>> \notin R
  <2> HIDE DEF R
  <2> QED
    BY <1>1, WFMin
<1>3. ASSUME NEW y \in T PROVE x <= y
  <2>1. x \in Nat /\ y \in Nat /\ <<y, x>>[1] = y /\ <<y, x>>[2] = x
    OBVIOUS
  <2>2. ~(y < x)
    BY <1>2, <2>1
  <2> QED
    BY <2>1, <2>2
<1> QED
  BY <1>3

\* Induction: a set of numbers that holds 0 and every successor holds them all.
LEMMA Induction ==
  ASSUME NEW S \in SUBSET Nat, 0 \in S, \A n \in S : n + 1 \in S
  PROVE  Nat \subseteq S
<1> SUFFICES ASSUME Nat \ S # {} PROVE FALSE
  OBVIOUS
<1>1. PICK x \in Nat \ S : \A y \in Nat \ S : x <= y
  <2> DEFINE T == Nat \ S
  <2>1. T \in SUBSET Nat /\ T # {}
    OBVIOUS
  <2> HIDE DEF T
  <2>2. \E x \in T : \A y \in T : x <= y
    BY <2>1, LeastNumber
  <2> QED
    BY <2>2 DEF T
<1>2. x - 1 \in Nat /\ ~(x <= x - 1) /\ x = (x - 1) + 1
  BY <1>1
<1>3. x - 1 \in S
  BY <1>1, <1>2
<1> QED
  BY <1>1, <1>2, <1>3

\* f starts at base and goes on by step, up to n.
Repeats(f, base, step, n) ==
  f[0] = base /\ \A i \in 1 .. n : f[i] = step[<<i, f[i - 1]>>]

\* The functions step, of a number up to n and an element of X.
StepFunctions(n, X) == [(1 .. n) \X X -> X]

\* Recursion: a step that is a function can be repeated.
LEMMA Recursion ==
  ASSUME NEW X, NEW base \in X, NEW n \in Nat, NEW step \in StepFunctions(n, X)
  PROVE  \E f \in [0 .. n -> X] : Repeats(f, base, step, n)
<1> USE DEF Repeats, StepFunctions
<1> DEFINE Good(m) == m <= n => \E f \in [0 .. m -> X] :
                        f[0] = base /\ \A i \in 1 .. m : f[i] = step[<<i, f[i - 1]>>]
           S == {m \in Nat : Good(m)}
<1>1. 0 \in S
  <2> DEFINE g == [i \in 0 .. 0 |-> base]
  <2>1. g \in [0 .. 0 -> X] /\ g[0] = base
    OBVIOUS
  <2>2. \A i \in 1 .. 0 : g[i] = step[<<i, g[i - 1]>>]
    OBVIOUS
  <2> HIDE DEF g
  <2>3. Good(0)
    BY <2>1, <2>2
  <2> QED
    BY <2>3
<1>2. ASSUME NEW m \in S PROVE m + 1 \in S
  <2>1. m \in Nat
    OBVIOUS
  <2>2. ASSUME m + 1 <= n PROVE Good(m + 1)
    <3>1. PICK f \in [0 .. m -> X] :
            f[0] = base /\ \A i \in 1 .. m : f[i] = step[<<i, f[i - 1]>>]
      BY <2>1, <2>2
    <3> DEFINE g == [i \in 0 .. m + 1 |-> IF i = m + 1 THEN step[<<m + 1, f[m]>>] ELSE f[i]]
    <3>2. step[<<m + 1, f[m]>>] \in X
      <4>1. <<m + 1, f[m]>> \in (1 .. n) \X X
        BY <2>1, <2>2
      <4> QED
        BY <4>1
    <3>3. g \in [0 .. m + 1 -> X] /\ g[0] = base
      BY <2>1, <3>1, <3>2
    <3>4. ASSUME NEW i \in 1 .. m + 1 PROVE g[i] = step[<<i, g[i - 1]>>]
      <4>1. CASE i = m + 1
        <5>1. g[i] = step[<<m + 1, f[m]>>] /\ g[i - 1] = f[m]
          BY <2>1, <4>1
        <5> QED
          BY <4>1, <5>1
      <4>2. CASE i \in 1 .. m
        <5>1. g[i] = f[i] /\ g[i - 1] = f[i - 1]
          BY <2>1, <4>2
        <5> HIDE DEF g
        <5> QED
          BY <3>1, <4>2, <5>1
      <4> QED
        BY <2>1, <4>1, <4>2
    <3> HIDE DEF g
    <3> QED
      BY <3>3, <3>4
  <2> QED
    BY <2>1, <2>2
<1>3. Nat \subseteq S
  <2> HIDE DEF S
  <2>1. S \in SUBSET Nat
    BY DEF S
  <2> QED
    BY <1>1, <1>2, <2>1, Induction
<1> QED
  BY <1>3

-----------------------------------------------------------------------------
\* A sequence is built by appending: what holds of the empty one and is kept by
\* every element more holds of all.  P is the set of those of which it holds.
LEMMA SeqInduction ==
  ASSUME NEW S, NEW P, << >> \in P,
         \A s \in Seq(S), e \in S : s \in P => Append(s, e) \in P
  PROVE  Seq(S) \subseteq P
<1> DEFINE N == {n \in Nat : \A s \in Seq(S) : Len(s) = n => s \in P}
<1>1. 0 \in N
  BY EmptySeq
<1>2. ASSUME NEW n \in N PROVE n + 1 \in N
  <2> SUFFICES ASSUME NEW s \in Seq(S), Len(s) = n + 1 PROVE s \in P
    OBVIOUS
  <2>1. n \in Nat /\ s # << >>
    BY EmptySeq
  <2>2. PICK r \in Seq(S), e \in S : s = Append(r, e)
    BY <2>1, SequenceEmptyOrAppend
  <2>3. Len(r) = n
    BY <2>1, <2>2, AppendProperties, LenProperties
  <2> QED
    BY <2>2, <2>3
<1>3. Nat \subseteq N
  <2> HIDE DEF N
  <2>1. N \in SUBSET Nat
    BY DEF N
  <2> QED
    BY <1>1, <1>2, <2>1, Induction
<1> QED
  BY <1>3, LenProperties

-----------------------------------------------------------------------------
(***************************************************************************)
(* Filters.                                                                *)
(***************************************************************************)
\* One step of a filter.
Kept(sofar, e, T) == IF e \in T THEN Append(sofar, e) ELSE sofar

\* f counts what the filter keeps of the beginnings of s.
Sifting(f, s, T) ==
  /\ f[0] = << >>
  /\ \A i \in 1 .. Len(s) : f[i] = Kept(f[i - 1], s[i], T)

\* The recursion of Sift is one.
LEMMA SiftRecursion ==
  ASSUME NEW S, NEW s \in Seq(S), NEW T
  PROVE  \E f : /\ Sifting(f, s, T) /\ Sift(s, T) = f[Len(s)]
                /\ \A i \in 0 .. Len(s) : f[i] \in Seq(S)
<1> DEFINE Body(f) == [i \in 0 .. Len(s) |->
                         IF i = 0 THEN << >>
                         ELSE IF s[i] \in T THEN Append(f[i - 1], s[i]) ELSE f[i - 1]]
           g == CHOOSE f : f = Body(f)
           step == [p \in (1 .. Len(s)) \X Seq(S) |-> Kept(p[2], s[p[1]], T)]
<1>1. Len(s) \in Nat /\ << >> \in Seq(S)
  BY LenProperties, EmptySeq
<1>2. step \in [(1 .. Len(s)) \X Seq(S) -> Seq(S)]
  <2> SUFFICES ASSUME NEW i \in 1 .. Len(s), NEW r \in Seq(S)
               PROVE  Kept(r, s[i], T) \in Seq(S)
    OBVIOUS
  <2> QED
    BY ElementOfSeq, AppendProperties DEF Kept
<1>3. PICK f \in [0 .. Len(s) -> Seq(S)] :
        f[0] = << >> /\ \A i \in 1 .. Len(s) : f[i] = step[<<i, f[i - 1]>>]
  <2> HIDE DEF step
  <2>1. PICK X : X = Seq(S)
    OBVIOUS
  <2>2. PICK base \in X : base = << >>
    BY <1>1, <2>1
  <2>3. PICK n \in Nat : n = Len(s)
    BY <1>1
  <2>4. step \in StepFunctions(n, X)
    BY <1>2, <2>1, <2>3 DEF StepFunctions
  <2>5. \E f \in [0 .. n -> X] : Repeats(f, base, step, n)
    BY <2>4, Recursion
  <2> QED
    BY <2>1, <2>2, <2>3, <2>5 DEF Repeats
<1>4. ASSUME NEW i \in 1 .. Len(s) PROVE f[i] = Kept(f[i - 1], s[i], T)
  <2>1. i - 1 \in 0 .. Len(s)
    BY <1>1
  <2>2. f[i - 1] \in Seq(S)
    BY <2>1
  <2>3. <<i, f[i - 1]>> \in (1 .. Len(s)) \X Seq(S)
    BY <2>2
  <2>4. step[<<i, f[i - 1]>>] = Kept(f[i - 1], s[i], T)
    BY <2>3
  <2> QED
    BY <1>3, <2>4
<1>5. f = Body(f)
  <2>1. ASSUME NEW i \in 0 .. Len(s)
        PROVE  f[i] = IF i = 0 THEN << >>
                      ELSE IF s[i] \in T THEN Append(f[i - 1], s[i]) ELSE f[i - 1]
    <3>1. CASE i = 0
      BY <1>3, <3>1
    <3>2. CASE i \in 1 .. Len(s)
      <4>1. i # 0 /\ f[i] = Kept(f[i - 1], s[i], T)
        BY <1>1, <1>4, <3>2
      <4> QED
        BY <4>1, Zenon DEF Kept
    <3> QED
      BY <1>1, <3>1, <3>2
  <2> QED
    BY <1>3, <2>1
<1>6. g = Body(g)
  <2> HIDE DEF Body
  <2> QED
    BY <1>5
<1>7. Sift(s, T) = g[Len(s)]
  BY DEF Sift
<1>8. g[0] = << >> /\ \A i \in 1 .. Len(s) : g[i] = Kept(g[i - 1], s[i], T)
  <2> HIDE DEF g
  <2>1. 0 \in 0 .. Len(s) /\ \A i \in 1 .. Len(s) : i \in 0 .. Len(s) /\ i # 0
    BY <1>1
  <2>2. g[0] = << >>
    BY <1>6, <2>1
  <2>3. ASSUME NEW i \in 1 .. Len(s) PROVE g[i] = Kept(g[i - 1], s[i], T)
    <3>1. Body(g)[i] = IF s[i] \in T THEN Append(g[i - 1], s[i]) ELSE g[i - 1]
      BY <2>1
    <3> HIDE DEF Body
    <3> QED
      BY <1>6, <3>1 DEF Kept
  <2> QED
    BY <2>2, <2>3
<1>9. \A i \in 0 .. Len(s) : g[i] = f[i]
  <2> HIDE DEF g, step
  <2> DEFINE N == {i \in Nat : i <= Len(s) => g[i] = f[i]}
  <2>1. 0 \in N
    BY <1>3, <1>8
  <2>2. ASSUME NEW i \in N PROVE i + 1 \in N
    <3> SUFFICES ASSUME i + 1 <= Len(s) PROVE g[i + 1] = f[i + 1]
      OBVIOUS
    <3>1. i + 1 \in 1 .. Len(s) /\ (i + 1) - 1 = i /\ g[i] = f[i]
      BY <1>1
    <3> QED
      BY <1>4, <1>8, <3>1
  <2>3. Nat \subseteq N
    <3> HIDE DEF N
    <3>1. N \in SUBSET Nat
      BY DEF N
    <3> QED
      BY <2>1, <2>2, <3>1, Induction
  <2> QED
    BY <2>3, <1>1
<1> HIDE DEF g, step
<1>10. Sifting(g, s, T) /\ \A i \in 0 .. Len(s) : g[i] \in Seq(S)
  BY <1>8, <1>9 DEF Sifting
<1> QED
  BY <1>7, <1>10

\* Filtering nothing leaves nothing.
LEMMA SiftEmpty ==
  ASSUME NEW T
  PROVE  Sift(<< >>, T) = << >>
<1>1. PICK s \in Seq({}) : s = << >> /\ Len(s) = 0
  BY EmptySeq
<1>2. PICK f : Sifting(f, s, T) /\ Sift(s, T) = f[Len(s)]
  BY SiftRecursion
<1> QED
  BY <1>1, <1>2 DEF Sifting

\* What is filtered is a sequence of the same kind.
LEMMA SiftType ==
  ASSUME NEW S, NEW s \in Seq(S), NEW T
  PROVE  Sift(s, T) \in Seq(S)
BY SiftRecursion, LenProperties

\* One element more is kept at the end if it is in T.
LEMMA SiftAppend ==
  ASSUME NEW S, NEW s \in Seq(S), NEW e \in S, NEW T
  PROVE  Sift(Append(s, e), T) = Kept(Sift(s, T), e, T)
<1> DEFINE r == Append(s, e)
           n == Len(s)
<1>1. /\ r \in Seq(S) /\ Len(r) = n + 1 /\ n \in Nat
      /\ \A i \in 1 .. n : r[i] = s[i]
      /\ r[n + 1] = e
  BY AppendProperties, LenProperties
<1>2. PICK f : Sifting(f, s, T) /\ Sift(s, T) = f[n]
  BY SiftRecursion
<1> HIDE DEF r
<1>3. PICK g : Sifting(g, r, T) /\ Sift(r, T) = g[Len(r)]
  BY <1>1, SiftRecursion
<1> HIDE DEF n
<1> DEFINE N == {i \in Nat : i <= n => g[i] = f[i]}
<1>4. 0 \in N
  BY <1>2, <1>3 DEF Sifting
<1>5. ASSUME NEW i \in N PROVE i + 1 \in N
  <2> SUFFICES ASSUME i + 1 <= n PROVE g[i + 1] = f[i + 1]
    OBVIOUS
  <2>1. i + 1 \in 1 .. n /\ i + 1 \in 1 .. Len(r) /\ (i + 1) - 1 = i /\ g[i] = f[i]
    BY <1>1
  <2>2. g[i + 1] = Kept(g[i], r[i + 1], T) /\ f[i + 1] = Kept(f[i], s[i + 1], T)
    BY <1>2, <1>3, <2>1 DEF Sifting, n
  <2> QED
    BY <1>1, <2>1, <2>2
<1>6. g[n] = f[n]
  <2>1. Nat \subseteq N
    <3> HIDE DEF N
    <3>1. N \in SUBSET Nat
      BY DEF N
    <3> QED
      BY <1>4, <1>5, <3>1, Induction
  <2> QED
    BY <1>1, <2>1
<1>7. n + 1 \in 1 .. Len(r) /\ (n + 1) - 1 = n
  BY <1>1
<1>8. g[n + 1] = Kept(g[n], e, T)
  BY <1>1, <1>3, <1>7 DEF Sifting
<1> QED
  BY <1>1, <1>2, <1>3, <1>6, <1>8 DEF r

\* Concatenation and appending, under names that the provers do not rewrite.
Cat(s, t) == s \o t
Push(s, e) == Append(s, e)

\* c has the elements of s and, behind them, those of t.
Joins(c, s, t) ==
  /\ Len(c) = Len(s) + Len(t)
  /\ \A i \in 1 .. Len(s) : c[i] = s[i]
  /\ \A i \in 1 .. Len(t) : c[Len(s) + i] = t[i]

\* Such a sequence is the concatenation.
LEMMA JoinsIsCat ==
  ASSUME NEW S, NEW s \in Seq(S), NEW t \in Seq(S), NEW c \in Seq(S), Joins(c, s, t)
  PROVE  c = Cat(s, t)
<1>1. Len(s) \in Nat /\ Len(t) \in Nat
  BY LenProperties
<1>2. PICK r : r = Cat(s, t)
  OBVIOUS
<1>3. /\ r \in Seq(S) /\ Len(r) = Len(s) + Len(t)
      /\ \A i \in 1 .. Len(s) : r[i] = s[i]
      /\ \A i \in 1 .. Len(t) : r[Len(s) + i] = t[i]
  BY <1>1, <1>2 DEF Cat
<1>4. ASSUME NEW i \in 1 .. Len(c) PROVE c[i] = r[i]
  <2>1. CASE i \in 1 .. Len(s)
    BY <1>3, <2>1 DEF Joins
  <2>2. CASE i > Len(s)
    <3>1. i - Len(s) \in 1 .. Len(t) /\ i = Len(s) + (i - Len(s))
      BY <1>1, <2>2 DEF Joins
    <3>2. PICK j \in 1 .. Len(t) : i = Len(s) + j
      BY <3>1
    <3> QED
      BY <1>3, <3>2 DEF Joins
  <2> QED
    BY <1>1, <2>1, <2>2 DEF Joins
<1> QED
  BY <1>2, <1>3, <1>4, SeqEqual DEF Joins

\* The first of a sequence with an element in front is that element.
LEMMA CatHead ==
  ASSUME NEW S, NEW e \in S, NEW s \in Seq(S)
  PROVE  Cat(<<e>>, s) # << >> /\ Head(Cat(<<e>>, s)) = e /\ Tail(Cat(<<e>>, s)) = s
BY DEF Cat

\* Appending to a concatenation appends to its second part.
LEMMA AppendConcat ==
  ASSUME NEW S, NEW s \in Seq(S), NEW t \in Seq(S), NEW e \in S
  PROVE  Push(Cat(s, t), e) = Cat(s, Push(t, e))
<1> USE DEF Cat, Push
<1>1. <<e>> \in Seq(S)
  OBVIOUS
<1>. PICK u \in Seq(S) : u = <<e>>
  BY <1>1
<1>2. /\ Append(s \o t, e) = (s \o t) \o u
      /\ Append(t, e) = t \o u
  BY AppendIsConcat, ConcatProperties
<1> QED
  BY <1>2, ConcatAssociative

\* Filtering goes through concatenation.
LEMMA SiftConcat ==
  ASSUME NEW S, NEW s \in Seq(S), NEW t \in Seq(S), NEW T
  PROVE  Sift(Cat(s, t), T) = Cat(Sift(s, T), Sift(t, T))
<1> SUFFICES Sift(s \o t, T) = Sift(s, T) \o Sift(t, T)
  BY DEF Cat
<1> DEFINE P == {r \in Seq(S) : Sift(s \o r, T) = Sift(s, T) \o Sift(r, T)}
<1>1. << >> \in P
  BY EmptySeq, SiftEmpty, SiftType, ConcatEmptySeq
<1>2. ASSUME NEW r \in Seq(S), NEW e \in S, r \in P
      PROVE  Append(r, e) \in P
  <2>1. Append(r, e) \in Seq(S) /\ s \o Append(r, e) = Append(s \o r, e)
    BY AppendProperties, AppendConcat DEF Cat, Push
  <2>2. Sift(s \o Append(r, e), T) = Kept(Sift(s \o r, T), e, T)
    BY <2>1, SiftAppend, ConcatProperties
  <2>3. Sift(Append(r, e), T) = Kept(Sift(r, T), e, T)
    BY SiftAppend
  <2>4. /\ Sift(s \o r, T) = Sift(s, T) \o Sift(r, T)
        /\ Sift(s, T) \in Seq(S) /\ Sift(r, T) \in Seq(S)
    BY <1>2, SiftType
  <2>5. ASSUME NEW u \in Seq(S), NEW v \in Seq(S)
        PROVE  Kept(u \o v, e, T) = u \o Kept(v, e, T)
    <3>1. Append(u \o v, e) = u \o Append(v, e)
      <4>1. Push(Cat(u, v), e) = Cat(u, Push(v, e))
        BY <2>5, AppendConcat
      <4> QED
        BY <4>1 DEF Cat, Push
    <3> QED
      BY <3>1 DEF Kept
  <2> QED
    BY <2>1, <2>2, <2>3, <2>4, <2>5
<1>3. Seq(S) \subseteq P
  <2> HIDE DEF P
  <2> QED
    BY <1>1, <1>2, SeqInduction
<1> QED
  BY <1>3

\* What is filtered is in T.
LEMMA SiftIn ==
  ASSUME NEW S, NEW s \in Seq(S), NEW T
  PROVE  Sift(s, T) \in Seq(S \cap T)
<1> DEFINE P == {r \in Seq(S) : Sift(r, T) \in Seq(S \cap T)}
<1>1. << >> \in P
  BY EmptySeq, SiftEmpty
<1>2. ASSUME NEW r \in Seq(S), NEW e \in S, r \in P
      PROVE  Append(r, e) \in P
  <2>1. Append(r, e) \in Seq(S)
    BY AppendProperties
  <2>2. Sift(Append(r, e), T) = Kept(Sift(r, T), e, T)
    BY SiftAppend
  <2>3. Sift(r, T) \in Seq(S \cap T)
    BY <1>2
  <2>4. Kept(Sift(r, T), e, T) \in Seq(S \cap T)
    <3>1. CASE e \in T
      <4>1. e \in S \cap T
        BY <3>1
      <4>2. Append(Sift(r, T), e) \in Seq(S \cap T)
        BY <2>3, <4>1, AppendProperties
      <4> QED
        BY <3>1, <4>2, Zenon DEF Kept
    <3>2. CASE e \notin T
      BY <2>3, <3>2, Zenon DEF Kept
    <3> QED
      BY <3>1, <3>2
  <2> QED
    BY <2>1, <2>2, <2>4
<1>3. Seq(S) \subseteq P
  <2> HIDE DEF P
  <2> QED
    BY <1>1, <1>2, SeqInduction
<1> QED
  BY <1>3

\* Nothing is left of a sequence without an element in T.
LEMMA SiftNone ==
  ASSUME NEW S, NEW s \in Seq(S), NEW T, \A i \in 1 .. Len(s) : s[i] \notin T
  PROVE  Sift(s, T) = << >>
<1> DEFINE P == {r \in Seq(S) : (\A i \in 1 .. Len(r) : r[i] \notin T) => Sift(r, T) = << >>}
<1>1. << >> \in P
  BY EmptySeq, SiftEmpty
<1>2. ASSUME NEW r \in Seq(S), NEW e \in S, r \in P
      PROVE  Append(r, e) \in P
  <2>1. Sift(Append(r, e), T) = Kept(Sift(r, T), e, T)
    BY SiftAppend
  <2>2. /\ Len(Append(r, e)) = Len(r) + 1 /\ Len(r) \in Nat /\ Append(r, e) \in Seq(S)
        /\ \A i \in 1 .. Len(r) : Append(r, e)[i] = r[i]
        /\ Append(r, e)[Len(r) + 1] = e
    BY AppendProperties, LenProperties
  <2>3. ASSUME \A i \in 1 .. Len(r) + 1 : Append(r, e)[i] \notin T
        PROVE  Sift(Append(r, e), T) = << >>
    <3>1. \A i \in 1 .. Len(r) : i \in 1 .. Len(r) + 1 /\ Append(r, e)[i] = r[i]
      BY <2>2
    <3>2. e \notin T /\ \A i \in 1 .. Len(r) : r[i] \notin T
      BY <2>2, <2>3, <3>1
    <3>3. Sift(r, T) = << >>
      BY <1>2, <3>2
    <3> QED
      BY <2>1, <3>2, <3>3 DEF Kept
  <2> QED
    BY <2>2, <2>3
<1>3. Seq(S) \subseteq P
  <2> HIDE DEF P
  <2> QED
    BY <1>1, <1>2, SeqInduction
<1> QED
  BY <1>3

\* A sequence of which every element is in T stays as it is.
LEMMA SiftAll ==
  ASSUME NEW S, NEW s \in Seq(S), NEW T, \A i \in 1 .. Len(s) : s[i] \in T
  PROVE  Sift(s, T) = s
<1> DEFINE P == {r \in Seq(S) : (\A i \in 1 .. Len(r) : r[i] \in T) => Sift(r, T) = r}
<1>1. << >> \in P
  BY EmptySeq, SiftEmpty
<1>2. ASSUME NEW r \in Seq(S), NEW e \in S, r \in P
      PROVE  Append(r, e) \in P
  <2>1. Sift(Append(r, e), T) = Kept(Sift(r, T), e, T)
    BY SiftAppend
  <2>2. /\ Len(Append(r, e)) = Len(r) + 1 /\ Len(r) \in Nat /\ Append(r, e) \in Seq(S)
        /\ \A i \in 1 .. Len(r) : Append(r, e)[i] = r[i]
        /\ Append(r, e)[Len(r) + 1] = e
    BY AppendProperties, LenProperties
  <2>3. ASSUME \A i \in 1 .. Len(r) + 1 : Append(r, e)[i] \in T
        PROVE  Sift(Append(r, e), T) = Append(r, e)
    <3>1. \A i \in 1 .. Len(r) : i \in 1 .. Len(r) + 1 /\ Append(r, e)[i] = r[i]
      BY <2>2
    <3>2. e \in T /\ \A i \in 1 .. Len(r) : r[i] \in T
      BY <2>2, <2>3, <3>1
    <3>3. Sift(r, T) = r
      BY <1>2, <3>2
    <3> QED
      BY <2>1, <3>2, <3>3 DEF Kept
  <2> QED
    BY <2>2, <2>3
<1>3. Seq(S) \subseteq P
  <2> HIDE DEF P
  <2> QED
    BY <1>1, <1>2, SeqInduction
<1> QED
  BY <1>3

\* Sets that agree on the elements of s filter s alike.
LEMMA SiftSame ==
  ASSUME NEW S, NEW s \in Seq(S), NEW T, NEW U,
         \A i \in 1 .. Len(s) : s[i] \in T <=> s[i] \in U
  PROVE  Sift(s, T) = Sift(s, U)
<1>1. PICK f : Sifting(f, s, T) /\ Sift(s, T) = f[Len(s)]
  BY SiftRecursion
<1>2. PICK g : Sifting(g, s, U) /\ Sift(s, U) = g[Len(s)]
  BY SiftRecursion
<1> DEFINE N == {i \in Nat : i <= Len(s) => g[i] = f[i]}
<1>3. 0 \in N
  BY <1>1, <1>2 DEF Sifting
<1>4. ASSUME NEW i \in N PROVE i + 1 \in N
  <2> SUFFICES ASSUME i + 1 <= Len(s) PROVE g[i + 1] = f[i + 1]
    OBVIOUS
  <2>1. i + 1 \in 1 .. Len(s) /\ (i + 1) - 1 = i /\ g[i] = f[i]
    BY LenProperties
  <2>2. f[i + 1] = Kept(f[i], s[i + 1], T) /\ g[i + 1] = Kept(g[i], s[i + 1], U)
    BY <1>1, <1>2, <2>1 DEF Sifting
  <2> QED
    BY <2>1, <2>2 DEF Kept
<1>5. Nat \subseteq N
  <2> HIDE DEF N
  <2>1. N \in SUBSET Nat
    BY DEF N
  <2> QED
    BY <1>3, <1>4, <2>1, Induction
<1> QED
  BY <1>1, <1>2, <1>5, LenProperties

\* The beginnings of a sequence that an element more is put behind.
LEMMA SubSeqAppend ==
  ASSUME NEW S, NEW s \in Seq(S), NEW e \in S
  PROVE  /\ \A k \in 0 .. Len(s) : SubSeq(Append(s, e), 1, k) = SubSeq(s, 1, k)
         /\ SubSeq(Append(s, e), 1, Len(s) + 1) = Append(s, e)
         /\ SubSeq(s, 1, Len(s)) = s
OBVIOUS

\* The first element is kept in front if it is in T.
LEMMA SiftHead ==
  ASSUME NEW S, NEW e \in S, NEW s \in Seq(S), NEW T
  PROVE  Sift(<<e>> \o s, T) = IF e \in T THEN <<e>> \o Sift(s, T) ELSE Sift(s, T)
<1>1. <<e>> \in Seq(S) /\ Len(<<e>>) = 1 /\ <<e>>[1] = e
  OBVIOUS
<1>2. PICK u \in Seq(S) : u = <<e>>
  BY <1>1
<1>3. Len(u) = 1 /\ u[1] = e
  BY <1>1, <1>2
<1>4. Sift(u \o s, T) = Sift(u, T) \o Sift(s, T)
  <2>1. Sift(Cat(u, s), T) = Cat(Sift(u, T), Sift(s, T))
    BY SiftConcat
  <2> QED
    BY <2>1 DEF Cat
<1>7. Sift(s, T) \in Seq(S)
  BY SiftType
<1>5. CASE e \in T
  <2>1. \A i \in 1 .. Len(u) : u[i] \in T
    BY <1>3, <1>5
  <2>2. Sift(u, T) = u
    BY <2>1, SiftAll
  <2> QED
    BY <1>2, <1>4, <1>5, <2>2
<1>6. CASE e \notin T
  <2>1. \A i \in 1 .. Len(u) : u[i] \notin T
    BY <1>3, <1>6
  <2>2. Sift(u, T) = << >>
    BY <2>1, SiftNone
  <2>3. << >> \o Sift(s, T) = Sift(s, T)
    BY <1>7, ConcatEmptySeq
  <2> QED
    BY <1>2, <1>4, <1>6, <2>2, <2>3
<1> QED
  BY <1>5, <1>6

=============================================================================
