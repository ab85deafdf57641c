--------------------------- MODULE SequenceLemmas ---------------------------
(***************************************************************************)
(* Facts about sequences that the proofs of the components need: a least   *)
(* element for every set of numbers, which stands for induction, and from  *)
(* it what FlattenSeq of SequencesExt does to sequences that grow at one   *)
(* end and shrink at the other; functions defined by recursion up to a     *)
(* bound; and what parts of a sequence of bytes make up.                   *)
(***************************************************************************)
EXTENDS Integers, SequencesExt, SequenceTheorems, WellFoundedInduction, TLAPS

\* Every set of natural numbers that is not empty has a least element.
LEMMA LeastNat ==
  ASSUME NEW T, T \subseteq Nat, T # {}
  PROVE  \E n \in T : \A m \in T : n <= m
<1> DEFINE R == OpToRel(<, Nat)
<1>1. IsWellFoundedOn(R, Nat)
  BY NatLessThanWellFounded
<1>2. \A x, y \in Nat : y < x => <<y, x>> \in R
  BY DEF OpToRel
<1> HIDE DEF R
<1>3. PICK n \in T : \A m \in T : ~ (<<m, n>> \in R)
  BY <1>1, WFMin
<1>4. ASSUME NEW m \in T PROVE n <= m
  <2>1. ~ (m < n)
    BY <1>2, <1>3
  <2> QED BY <2>1
<1> QED BY <1>4

\* Induction over a set of numbers: one that has 0, and with a number the
\* next one, has them all.
LEMMA AllNat ==
  ASSUME NEW S, 0 \in S, \A n \in Nat : n \in S => n + 1 \in S
  PROVE  Nat \subseteq S
<1> DEFINE T == Nat \ S
<1> SUFFICES ASSUME T # {} PROVE FALSE
  OBVIOUS
<1>1. PICK n \in T : \A m \in T : n <= m
  BY LeastNat
<1>2. n # 0
  OBVIOUS
<1>3. n - 1 \in Nat /\ n - 1 \notin T
  BY <1>1, <1>2
<1> QED BY <1>3

\* Induction over a set of sequences: one that has the empty sequence, and with
\* a sequence each that is one longer, has them all.
LEMMA AllSeq ==
  ASSUME NEW S, NEW T, <<>> \in T,
         \A s \in Seq(S), e \in S : s \in T => Append(s, e) \in T
  PROVE  Seq(S) \subseteq T
<1> DEFINE N == {n \in Nat : \A s \in Seq(S) : Len(s) = n => s \in T}
<1>1. 0 \in N
  <2>1. \A s \in Seq(S) : Len(s) = 0 => s = <<>>
    OBVIOUS
  <2> QED BY <2>1
<1>2. ASSUME NEW n \in Nat, n \in N PROVE n + 1 \in N
  <2> SUFFICES ASSUME NEW s \in Seq(S), Len(s) = n + 1 PROVE s \in T
    OBVIOUS
  <2>1. PICK r \in Seq(S), e \in S : s = Append(r, e)
    BY SequenceEmptyOrAppend
  <2>2. Len(r) = n
    BY <2>1
  <2> QED BY <1>2, <2>1, <2>2
<1> HIDE DEF N
<1>3. Nat \subseteq N
  BY <1>1, <1>2, AllNat
<1>4. ASSUME NEW s \in Seq(S) PROVE s \in T
  <2>1. Len(s) \in N
    BY <1>3
  <2> QED BY <2>1 DEF N
<1> QED BY <1>4

-----------------------------------------------------------------------------
(* The recursive function inside FlattenSeq, for any sequence and length.  *)
(* Join keeps concatenation unexpanded where it does not matter.           *)

Join(s, t) == s \o t

IsFlatten(f, ss, n) ==
    f = [i \in 1..n |-> IF i = 1 THEN ss[i] ELSE Join(f[i-1], ss[i])]

Flatten(ss, n) == CHOOSE f : IsFlatten(f, ss, n)

LEMMA IsFlattenStep ==
  ASSUME NEW ss, NEW n \in Nat, NEW f, IsFlatten(f, ss, n)
  PROVE  \E g : IsFlatten(g, ss, n + 1)
<1> DEFINE g == [i \in 1..(n+1) |-> IF i = 1 THEN ss[i] ELSE Join(f[i-1], ss[i])]
           h == [i \in 1..(n+1) |-> IF i = 1 THEN ss[i] ELSE Join(g[i-1], ss[i])]
<1>1. ASSUME NEW i \in 1..(n+1) PROVE g[i] = h[i]
  <2>1. CASE i = 1
    BY <2>1
  <2>2. CASE i # 1
    <3>1. i - 1 \in 1..n /\ i - 1 \in 1..(n+1) /\ i - 1 \in Int
      BY <2>2
    <3>2. f[i-1] = IF i - 1 = 1 THEN ss[i-1] ELSE Join(f[i-1-1], ss[i-1])
      BY <3>1 DEF IsFlatten
    <3>3. g[i-1] = IF i - 1 = 1 THEN ss[i-1] ELSE Join(f[i-1-1], ss[i-1])
      BY <3>1
    <3>4. g[i-1] = f[i-1]
      BY <3>2, <3>3
    <3> HIDE DEF g
    <3>5. h[i] = Join(g[i-1], ss[i])
      BY <2>2
    <3>6. g[i] = Join(f[i-1], ss[i])
      BY <2>2 DEF g
    <3> QED BY <3>4, <3>5, <3>6
  <2> QED BY <2>1, <2>2
<1>2. g = [i \in 1..(n+1) |-> g[i]]
  OBVIOUS
<1>3. h = [i \in 1..(n+1) |-> h[i]]
  OBVIOUS
<1> HIDE DEF g, h
<1>4. g = h
  BY <1>1, <1>2, <1>3
<1> QED BY <1>4 DEF h, IsFlatten

LEMMA IsFlattenExists ==
  ASSUME NEW ss, NEW n \in Nat
  PROVE  \E f : IsFlatten(f, ss, n)
<1> DEFINE S == {k \in Nat : \E f : IsFlatten(f, ss, k)}
<1>1. 0 \in S
  <2>1. IsFlatten([i \in 1..0 |-> <<>>], ss, 0)
    BY DEF IsFlatten
  <2> QED BY <2>1
<1>2. ASSUME NEW k \in Nat, k \in S PROVE k + 1 \in S
  BY <1>2, IsFlattenStep
<1> HIDE DEF S
<1>3. Nat \subseteq S
  BY <1>1, <1>2, AllNat
<1> QED BY <1>3 DEF S

\* The function exists, so it is what its definition says.
LEMMA FlattenIs ==
  ASSUME NEW ss, NEW n \in Nat
  PROVE  /\ n > 0 => Flatten(ss, n)[1] = ss[1]
         /\ \A i \in 1..(n - 1) :
               Flatten(ss, n)[i + 1] = Join(Flatten(ss, n)[i], ss[i + 1])
<1>1. IsFlatten(Flatten(ss, n), ss, n)
  BY IsFlattenExists DEF Flatten
<1> DEFINE f == Flatten(ss, n)
<1>2. f = [i \in 1..n |-> IF i = 1 THEN ss[i] ELSE Join(f[i-1], ss[i])]
  BY <1>1 DEF IsFlatten
<1> HIDE DEF f
<1>3. ASSUME NEW i \in 1..n PROVE f[i] = IF i = 1 THEN ss[i] ELSE Join(f[i-1], ss[i])
  BY <1>2
<1>4. n > 0 => f[1] = ss[1]
  BY <1>3
<1>5. ASSUME NEW i \in 1..(n - 1) PROVE f[i+1] = Join(f[i], ss[i+1])
  <2>1. i + 1 \in 1..n /\ i + 1 # 1 /\ i + 1 - 1 = i
    OBVIOUS
  <2>2. f[i+1] = Join(f[i+1-1], ss[i+1])
    BY <1>3, <2>1
  <2> QED BY <2>1, <2>2
<1> QED BY <1>4, <1>5 DEF f

LEMMA FlattenSeqIs ==
  ASSUME NEW ss, Len(ss) # 0
  PROVE  FlattenSeq(ss) = Flatten(ss, Len(ss))[Len(ss)]
BY DEF FlattenSeq, Flatten, IsFlatten, Join

\* A sequence that begins with another one is flattened alike up to its end.
LEMMA FlattenAgrees ==
  ASSUME NEW ss, NEW tt, NEW m \in Nat, NEW n \in Nat, n # 0, n <= m,
         \A i \in 1..n : ss[i] = tt[i]
  PROVE  Flatten(ss, m)[n] = Flatten(tt, n)[n]
<1> DEFINE f == Flatten(ss, m)
           g == Flatten(tt, n)
           S == {j \in Nat : j \in 1..n => f[j] = g[j]}
<1>1. 0 \in S
  OBVIOUS
<1>2. ASSUME NEW j \in Nat, j \in S PROVE j + 1 \in S
  <2> SUFFICES ASSUME j + 1 \in 1..n PROVE f[j+1] = g[j+1]
    OBVIOUS
  <2>1. CASE j = 0
    <3>1. f[1] = ss[1] /\ g[1] = tt[1]
      BY FlattenIs
    <3> HIDE DEF f, g
    <3> QED BY <2>1, <3>1
  <2>2. CASE j # 0
    <3>1. j \in 1..(m - 1) /\ j \in 1..(n - 1) /\ j \in 1..n
      BY <2>2
    <3>2. f[j+1] = Join(f[j], ss[j+1])
      BY <3>1, FlattenIs
    <3>3. g[j+1] = Join(g[j], tt[j+1])
      BY <3>1, FlattenIs
    <3>4. f[j] = g[j]
      BY <1>2, <3>1
    <3>5. ss[j+1] = tt[j+1]
      OBVIOUS
    <3> HIDE DEF f, g
    <3> QED BY <3>2, <3>3, <3>4, <3>5
  <2> QED BY <2>1, <2>2
<1> HIDE DEF S
<1>3. Nat \subseteq S
  BY <1>1, <1>2, AllNat
<1>4. n \in S /\ n \in 1..n
  BY <1>3
<1> QED BY <1>4 DEF S

-----------------------------------------------------------------------------
(* FlattenSeq.                                                             *)

LEMMA FlattenEmpty == FlattenSeq(<<>>) = <<>>
BY DEF FlattenSeq

LEMMA FlattenOne ==
  ASSUME NEW s
  PROVE  FlattenSeq(<<s>>) = s
<1> DEFINE ss == <<s>>
<1>1. Len(ss) = 1 /\ Len(ss) # 0 /\ ss[1] = s
  OBVIOUS
<1> HIDE DEF ss
<1>2. FlattenSeq(ss) = Flatten(ss, 1)[1]
  BY <1>1, FlattenSeqIs
<1>3. Flatten(ss, 1)[1] = ss[1]
  BY FlattenIs
<1> QED BY <1>1, <1>2, <1>3 DEF ss

\* An element more at the end is its contents more at the end.
LEMMA FlattenAppend ==
  ASSUME NEW S, NEW ss \in Seq(Seq(S)), NEW s \in Seq(S)
  PROVE  FlattenSeq(Append(ss, s)) = FlattenSeq(ss) \o s
<1> DEFINE tt == Append(ss, s)
           n  == Len(ss)
<1>1. /\ n \in Nat /\ Len(tt) = n + 1 /\ tt[n+1] = s
      /\ \A i \in 1..n : tt[i] = ss[i]
  OBVIOUS
<1>2. CASE n = 0
  <2>1. tt = <<s>> /\ ss = <<>>
    BY <1>2
  <2> QED BY <2>1, FlattenOne, FlattenEmpty
<1>3. CASE n # 0
  <2> DEFINE m == n + 1
  <2>1. /\ m \in Nat /\ n <= m /\ n <= n /\ n \in 1..(m - 1) /\ n \in 1..n
        /\ Len(tt) = m /\ Len(tt) # 0 /\ Len(ss) # 0 /\ Len(ss) = n
    BY <1>1, <1>3
  <2>2. tt[m] = s
    BY <1>1
  <2> HIDE DEF tt, n, m
  <2>3. FlattenSeq(tt) = Flatten(tt, m)[m]
    BY <2>1, FlattenSeqIs
  <2>4. FlattenSeq(ss) = Flatten(ss, n)[n]
    BY <2>1, FlattenSeqIs
  <2>5. Flatten(tt, m)[n + 1] = Join(Flatten(tt, m)[n], tt[n + 1])
    BY <2>1, FlattenIs
  <2>6. Flatten(tt, m)[n] = Flatten(ss, n)[n]
    <3>1. \A i \in 1..n : tt[i] = ss[i]
      BY <1>1
    <3> QED BY <1>1, <1>3, <2>1, <3>1, FlattenAgrees
  <2> QED BY <2>1, <2>2, <2>3, <2>4, <2>5, <2>6 DEF tt, m, Join
<1> QED BY <1>2, <1>3

LEMMA FlattenType ==
  ASSUME NEW S, NEW ss \in Seq(Seq(S))
  PROVE  FlattenSeq(ss) \in Seq(S)
<1> DEFINE T == {s \in Seq(Seq(S)) : FlattenSeq(s) \in Seq(S)}
<1>1. <<>> \in T
  <2>1. <<>> \in Seq(S) /\ <<>> \in Seq(Seq(S))
    BY EmptySeq
  <2> QED BY <2>1, FlattenEmpty
<1>2. ASSUME NEW s \in Seq(Seq(S)), NEW e \in Seq(S), s \in T
      PROVE  Append(s, e) \in T
  <2>1. FlattenSeq(Append(s, e)) = FlattenSeq(s) \o e
    BY FlattenAppend
  <2>2. FlattenSeq(s) \o e \in Seq(S)
    BY <1>2, ConcatProperties
  <2>3. Append(s, e) \in Seq(Seq(S))
    BY AppendProperties
  <2> QED BY <2>1, <2>2, <2>3
<1> HIDE DEF T
<1>3. Seq(Seq(S)) \subseteq T
  BY <1>1, <1>2, AllSeq
<1> QED BY <1>3 DEF T

\* Flattening distributes over concatenation.
LEMMA FlattenConcat ==
  ASSUME NEW S, NEW ss \in Seq(Seq(S)), NEW tt \in Seq(Seq(S))
  PROVE  FlattenSeq(ss \o tt) = FlattenSeq(ss) \o FlattenSeq(tt)
<1> DEFINE T == {s \in Seq(Seq(S)) : FlattenSeq(ss \o s) = FlattenSeq(ss) \o FlattenSeq(s)}
<1>1. <<>> \in T
  <2>1. FlattenSeq(ss) \in Seq(S) /\ <<>> \in Seq(Seq(S))
    BY FlattenType, EmptySeq
  <2>2. ss \o <<>> = ss /\ FlattenSeq(ss) \o <<>> = FlattenSeq(ss)
    BY <2>1, ConcatEmptySeq
  <2> QED BY <2>1, <2>2, FlattenEmpty
<1>2. ASSUME NEW s \in Seq(Seq(S)), NEW e \in Seq(S), s \in T
      PROVE  Append(s, e) \in T
  <2>1. ss \o Append(s, e) = Append(ss \o s, e)
    <3>1. Append(s, e) = s \o <<e>> /\ Append(ss \o s, e) = (ss \o s) \o <<e>>
      BY AppendIsConcat, ConcatProperties
    <3> QED BY <3>1, ConcatAssociative
  <2>2. FlattenSeq(Append(ss \o s, e)) = FlattenSeq(ss \o s) \o e
    BY FlattenAppend, ConcatProperties
  <2>3. FlattenSeq(Append(s, e)) = FlattenSeq(s) \o e
    BY FlattenAppend
  <2>4. FlattenSeq(ss) \in Seq(S) /\ FlattenSeq(s) \in Seq(S)
    BY FlattenType
  <2>5. (FlattenSeq(ss) \o FlattenSeq(s)) \o e = FlattenSeq(ss) \o (FlattenSeq(s) \o e)
    BY <2>4, ConcatAssociative, SMTT(30)
  <2>6. FlattenSeq(ss \o s) = FlattenSeq(ss) \o FlattenSeq(s)
    BY <1>2
  <2>7. FlattenSeq(ss \o Append(s, e)) = FlattenSeq(ss) \o FlattenSeq(Append(s, e))
    BY <2>1, <2>2, <2>3, <2>5, <2>6, Zenon
  <2>8. Append(s, e) \in Seq(Seq(S))
    BY AppendProperties
  <2> QED BY <2>7, <2>8
<1> HIDE DEF T
<1>3. Seq(Seq(S)) \subseteq T
  BY <1>1, <1>2, AllSeq
<1> QED BY <1>3 DEF T

\* The first element comes first.
LEMMA FlattenTail ==
  ASSUME NEW S, NEW ss \in Seq(Seq(S)), ss # <<>>
  PROVE  FlattenSeq(ss) = Head(ss) \o FlattenSeq(Tail(ss))
<1>1. ss = <<Head(ss)>> \o Tail(ss)
  OBVIOUS
<1>2. <<Head(ss)>> \in Seq(Seq(S)) /\ Tail(ss) \in Seq(Seq(S))
  OBVIOUS
<1>3. FlattenSeq(<<Head(ss)>> \o Tail(ss)) = FlattenSeq(<<Head(ss)>>) \o FlattenSeq(Tail(ss))
  BY <1>2, FlattenConcat
<1> QED BY <1>1, <1>3, FlattenOne

\* A sequence of empty sequences is flattened to the empty one.
LEMMA FlattenNothing ==
  ASSUME NEW S, NEW ss \in Seq(Seq(S)), \A i \in 1..Len(ss) : ss[i] = <<>>
  PROVE  FlattenSeq(ss) = <<>>
<1> DEFINE Nothing(s) == \A i \in 1..Len(s) : s[i] = <<>>
           T == {s \in Seq(Seq(S)) : Nothing(s) => FlattenSeq(s) = <<>>}
<1>1. <<>> \in T
  <2>1. <<>> \in Seq(Seq(S))
    BY EmptySeq
  <2> QED BY <2>1, FlattenEmpty
<1>2. ASSUME NEW s \in Seq(Seq(S)), NEW e \in Seq(S), s \in T
      PROVE  Append(s, e) \in T
  <2>1. Append(s, e) \in Seq(Seq(S))
    BY AppendProperties
  <2>2. ASSUME Nothing(Append(s, e)) PROVE FlattenSeq(Append(s, e)) = <<>>
    <3>1. Len(Append(s, e)) = Len(s) + 1 /\ Len(s) \in Nat
      BY AppendProperties
    <3>2. Append(s, e)[Len(s) + 1] = e /\ \A i \in 1..Len(s) : Append(s, e)[i] = s[i]
      BY AppendProperties
    <3>3. e = <<>>
      BY <2>2, <3>1, <3>2
    <3>4. Nothing(s)
      BY <2>2, <3>1, <3>2
    <3>5. FlattenSeq(s) = <<>>
      BY <1>2, <3>4
    <3>6. FlattenSeq(Append(s, e)) = FlattenSeq(s) \o e
      BY FlattenAppend
    <3>7. <<>> \o <<>> = <<>>
      OBVIOUS
    <3> QED BY <3>3, <3>5, <3>6, <3>7
  <2> QED BY <2>1, <2>2
<1> HIDE DEF T
<1>3. Seq(Seq(S)) \subseteq T
  BY <1>1, <1>2, AllSeq
<1>4. ss \in T
  BY <1>3
<1> QED BY <1>4 DEF T

-----------------------------------------------------------------------------
(* A sequence and its parts.                                               *)

LEMMA SplitSeq ==
  ASSUME NEW S, NEW s \in Seq(S), NEW n \in 0..Len(s)
  PROVE  /\ SubSeq(s, 1, n) \in Seq(S) /\ SubSeq(s, n + 1, Len(s)) \in Seq(S)
         /\ s = SubSeq(s, 1, n) \o SubSeq(s, n + 1, Len(s))
<1>1. Len(s) \in Nat /\ n \in Nat /\ n <= Len(s)
  OBVIOUS
<1>2. SubSeq(s, 1, n) \in Seq(S) /\ SubSeq(s, n + 1, Len(s)) \in Seq(S)
  <2>1. \A i \in 1..n : s[i] \in S
    BY <1>1, ElementOfSeq
  <2>2. \A i \in (n + 1)..Len(s) : s[i] \in S
    BY <1>1, ElementOfSeq
  <2> QED BY <1>1, <2>1, <2>2, SubSeqProperties
<1>3. SubSeq(s, 1, Len(s)) = s
  BY SubSeqFull
<1>4. 1 \in 1..(Len(s) + 1) /\ n \in (1 - 1)..Len(s) /\ Len(s) \in n..Len(s)
  BY <1>1
<1>5. SubSeq(s, 1, n) \o SubSeq(s, n + 1, Len(s)) = SubSeq(s, 1, Len(s))
  BY <1>4, ConcatAdjacentSubSeq
<1> QED BY <1>2, <1>3, <1>5

-----------------------------------------------------------------------------
(* A stream: units that are numbered as they are sent.                     *)

Units   == Seq(Nat)
Upto(n) == [i \in 1..n |-> i]

LEMMA UptoNext ==
  ASSUME NEW n \in Nat
  PROVE  Upto(n + 1) = Append(Upto(n), n + 1) /\ Upto(n) \in Units /\ Len(Upto(n)) = n
BY DEF Upto, Units

LEMMA UnitsConcat ==
  /\ <<>> \in Units
  /\ \A s \in Units : s \o <<>> = s /\ <<>> \o s = s
  /\ \A s, t \in Units : s \o t \in Units
  /\ \A s, t, u \in Units : (s \o t) \o u = s \o (t \o u)
<1>1. <<>> \in Units
  BY EmptySeq DEF Units
<1>2. \A s \in Units : s \o <<>> = s /\ <<>> \o s = s
  BY ConcatEmptySeq DEF Units
<1>3. \A s, t \in Units : s \o t \in Units
  BY ConcatProperties DEF Units
<1>4. ASSUME NEW s \in Units, NEW t \in Units, NEW u \in Units
      PROVE  (s \o t) \o u = s \o (t \o u)
  <2>1. s \in Seq(Nat) /\ t \in Seq(Nat) /\ u \in Seq(Nat)
    BY DEF Units
  <2> QED BY <2>1, ConcatAssociative, SMTT(30)
<1> QED BY <1>1, <1>2, <1>3, <1>4

LEMMA UnitsAssoc ==
  ASSUME NEW s \in Units, NEW t \in Units, NEW u \in Units
  PROVE  (s \o t) \o u = s \o (t \o u)
BY ZenonT(30), UnitsConcat

\* What comes first of the units sent.
LEMMA PrefixInOrder ==
  ASSUME NEW a \in Units, NEW b \in Units, NEW n \in Nat, a \o b = Upto(n)
  PROVE  \A i \in 1..Len(a) : a[i] = i
<1>1. ASSUME NEW i \in 1..Len(a) PROVE a[i] = i
  <2>1. /\ Len(a) \in Nat /\ Len(b) \in Nat /\ Len(a \o b) = Len(a) + Len(b)
        /\ (a \o b)[i] = a[i]
    BY DEF Units
  <2>2. Len(Upto(n)) = n
    BY DEF Upto
  <2>3. i \in 1..n
    BY <2>1, <2>2
  <2> QED BY <2>1, <2>3 DEF Upto
<1> QED BY <1>1

-----------------------------------------------------------------------------
(* Functions defined by recursion on the numbers up to a bound.            *)

\* Each value is computed by step from the one before it.
IsRecursive(f, n, c, step) ==
    f = [k \in 0..n |-> IF k = 0 THEN c ELSE step[<<k, f[k - 1]>>]]

LEMMA RecursiveExists ==
  ASSUME NEW S, NEW c \in S, NEW n \in Nat, NEW step \in [(1..n) \X S -> S]
  PROVE  \E f \in [0..n -> S] : IsRecursive(f, n, c, step)
<1> DEFINE T == {m \in Nat : m <= n => \E f \in [0..m -> S] : IsRecursive(f, m, c, step)}
<1>1. 0 \in T
  <2> DEFINE f == [k \in 0..0 |-> c]
  <2>1. f \in [0..0 -> S]
    OBVIOUS
  <2>2. [k \in 0..0 |-> IF k = 0 THEN c ELSE step[<<k, f[k - 1]>>]] = f
    OBVIOUS
  <2> QED BY <2>1, <2>2 DEF IsRecursive
<1>2. ASSUME NEW m \in Nat, m \in T PROVE m + 1 \in T
  <2> SUFFICES ASSUME m + 1 <= n
               PROVE  \E f \in [0..(m + 1) -> S] : IsRecursive(f, m + 1, c, step)
    OBVIOUS
  <2>1. PICK f \in [0..m -> S] : IsRecursive(f, m, c, step)
    BY <1>2
  <2> DEFINE g == [k \in 0..(m + 1) |-> IF k = m + 1 THEN step[<<m + 1, f[m]>>] ELSE f[k]]
             h == [k \in 0..(m + 1) |-> IF k = 0 THEN c ELSE step[<<k, g[k - 1]>>]]
  <2>2. m + 1 \in 1..n /\ m \in 0..m /\ \A k \in 0..(m + 1) : k = m + 1 \/ k \in 0..m
    OBVIOUS
  <2>3. step[<<m + 1, f[m]>>] \in S
    BY <2>1, <2>2
  <2>4. g \in [0..(m + 1) -> S]
    BY <2>1, <2>2, <2>3
  <2>5. ASSUME NEW k \in 0..(m + 1) PROVE g[k] = h[k]
    <3>1. CASE k = 0
      <4>1. f[0] = c
        BY <2>1 DEF IsRecursive
      <4> QED BY <3>1, <4>1
    <3>2. CASE k # 0 /\ k # m + 1
      <4>1. k \in 0..m /\ k - 1 \in 0..(m + 1) /\ k - 1 # m + 1
        BY <3>2
      <4>2. f[k] = step[<<k, f[k - 1]>>]
        BY <2>1, <3>2, <4>1 DEF IsRecursive
      <4> QED BY <3>2, <4>1, <4>2
    <3>3. CASE k = m + 1
      <4>1. k # 0 /\ k - 1 = m /\ m \in 0..(m + 1) /\ m # m + 1
        BY <3>3
      <4> QED BY <3>3, <4>1
    <3> QED BY <3>1, <3>2, <3>3
  <2>6. g = h
    BY <2>5
  <2> QED BY <2>4, <2>6 DEF IsRecursive
<1>3. Nat \subseteq T
  BY <1>1, <1>2, AllNat
<1> QED BY <1>3

-----------------------------------------------------------------------------
(* Bytes, and parts of them.                                               *)

Bytes == Seq(Int)

LEMMA FlattenLen ==
  ASSUME NEW ss \in Seq(Bytes)
  PROVE  FlattenSeq(ss) \in Bytes /\ Len(FlattenSeq(ss)) \in Nat
<1>1. FlattenSeq(ss) \in Seq(Int)
  BY FlattenType DEF Bytes
<1> QED BY <1>1 DEF Bytes

LEMMA BytesCut ==
  ASSUME NEW s \in Bytes, NEW m \in Nat, NEW n \in Nat, n <= Len(s)
  PROVE  /\ Len(s) \in Nat /\ SubSeq(s, m + 1, n) \in Bytes
         /\ Len(SubSeq(s, m + 1, n)) = IF m < n THEN n - m ELSE 0
<1>1. Len(s) \in Nat /\ \A i \in 1..Len(s) : s[i] \in Int
  BY DEF Bytes
<1>2. \A i \in (m + 1)..n : s[i] \in Int
  BY <1>1
<1> QED BY <1>1, <1>2, SubSeqProperties DEF Bytes

LEMMA Quotient ==
  ASSUME NEW m \in Nat, NEW n \in Nat \ {0}
  PROVE  m \div n \in Nat /\ (m \div n) * n <= m /\ (m \div n) * n \in Nat
OBVIOUS

LEMMA AppendIn ==
  ASSUME NEW S, NEW s \in Seq(S), NEW e \in S
  PROVE  Append(s, e) \in Seq(S)
BY AppendProperties

LEMMA AppendIs ==
  ASSUME NEW S, NEW s \in Seq(S), NEW e \in S, NEW t,
         t = [i \in 1..(Len(s) + 1) |-> t[i]],
         t[Len(s) + 1] = e, \A i \in 1..Len(s) : t[i] = s[i]
  PROVE  t = Append(s, e)
<1> DEFINE u == Append(s, e)
           n == Len(s)
<1>1. n \in Nat /\ u \in Seq(S) /\ Len(u) = n + 1
  BY AppendProperties
<1>2. u[n + 1] = e /\ \A i \in 1..n : u[i] = s[i]
  BY AppendProperties
<1>3. t = [i \in 1..(n + 1) |-> t[i]] /\ t[n + 1] = e /\ \A i \in 1..n : t[i] = s[i]
  OBVIOUS
<1> HIDE DEF u, n
<1>4. u = [i \in 1..(n + 1) |-> u[i]]
  BY <1>1
<1>5. ASSUME NEW i \in 1..(n + 1) PROVE t[i] = u[i]
  <2>1. i = n + 1 \/ i \in 1..n
    BY <1>1
  <2> QED BY <1>2, <1>3, <2>1
<1>6. [i \in 1..(n + 1) |-> t[i]] = [i \in 1..(n + 1) |-> u[i]]
  BY <1>5, Zenon
<1> QED BY <1>3, <1>4, <1>6 DEF u

\* Bytes a + 1 to b of w.
Part(w, a, b) == SubSeq(w, a + 1, b)

LEMMA SameBytes ==
  ASSUME NEW x \in Bytes, NEW y \in Bytes, Len(x) = Len(y),
         \A k \in 1..Len(x) : x[k] = y[k]
  PROVE  x = y
<1>1. x \in Seq(Int) /\ y \in Seq(Int)
  BY DEF Bytes
<1> QED BY <1>1, SeqEqual

LEMMA JoinIs ==
  ASSUME NEW x \in Bytes, NEW y \in Bytes
  PROVE  /\ x \o y \in Bytes /\ Len(x \o y) = Len(x) + Len(y)
         /\ Len(x) \in Nat /\ Len(y) \in Nat
         /\ \A k \in 1..Len(x) : (x \o y)[k] = x[k]
         /\ \A k \in 1..Len(y) : (x \o y)[Len(x) + k] = y[k]
<1>1. x \in Seq(Int) /\ y \in Seq(Int)
  BY DEF Bytes
<1>2. x \o y \in Seq(Int) /\ Len(x \o y) = Len(x) + Len(y)
  BY <1>1, ConcatProperties
<1>3. Len(x) \in Nat /\ Len(y) \in Nat
  BY <1>1
<1>4. \A k \in 1..Len(x) : (x \o y)[k] = x[k]
  BY <1>1
<1>5. \A k \in 1..Len(y) : (x \o y)[Len(x) + k] = y[k]
  BY <1>1
<1> QED BY <1>2, <1>3, <1>4, <1>5 DEF Bytes

LEMMA PartIs ==
  ASSUME NEW w \in Bytes, NEW a \in Nat, NEW b \in Nat, a <= b, b <= Len(w)
  PROVE  /\ Part(w, a, b) \in Bytes /\ Len(Part(w, a, b)) = b - a
         /\ \A k \in 1..(b - a) : Part(w, a, b)[k] = w[a + k]
<1>1. /\ Len(w) \in Nat /\ Part(w, a, b) \in Bytes
      /\ Len(Part(w, a, b)) = IF a < b THEN b - a ELSE 0
  BY BytesCut DEF Part
<1>2. Len(Part(w, a, b)) = b - a
  BY <1>1
<1>3. \A k \in 1..(b - a) : Part(w, a, b)[k] = w[a + k]
  <2>1. w \in Seq(Int)
    BY DEF Bytes
  <2> QED BY <1>1, <2>1 DEF Part
<1> QED BY <1>1, <1>2, <1>3

LEMMA PartJoin ==
  ASSUME NEW w \in Bytes, NEW a \in Nat, NEW b \in Nat, NEW c \in Nat,
         a <= b, b <= c, c <= Len(w)
  PROVE  Part(w, a, b) \o Part(w, b, c) = Part(w, a, c)
<1> DEFINE x == Part(w, a, b)
           y == Part(w, b, c)
           z == Part(w, a, c)
<1>1. Len(w) \in Nat /\ b <= Len(w) /\ a <= c
  BY DEF Bytes
<1>2. /\ x \in Bytes /\ Len(x) = b - a /\ \A k \in 1..(b - a) : x[k] = w[a + k]
      /\ y \in Bytes /\ Len(y) = c - b /\ \A k \in 1..(c - b) : y[k] = w[b + k]
      /\ z \in Bytes /\ Len(z) = c - a /\ \A k \in 1..(c - a) : z[k] = w[a + k]
  <2>1. x \in Bytes /\ Len(x) = b - a /\ \A k \in 1..(b - a) : x[k] = w[a + k]
    BY <1>1, PartIs
  <2>2. y \in Bytes /\ Len(y) = c - b /\ \A k \in 1..(c - b) : y[k] = w[b + k]
    BY <1>1, PartIs
  <2>3. z \in Bytes /\ Len(z) = c - a /\ \A k \in 1..(c - a) : z[k] = w[a + k]
    BY <1>1, PartIs
  <2> QED BY <2>1, <2>2, <2>3
<1> HIDE DEF x, y, z
<1> DEFINE xy == x \o y
<1>3. /\ xy \in Bytes /\ Len(xy) = Len(x) + Len(y)
      /\ \A k \in 1..Len(x) : xy[k] = x[k]
      /\ \A k \in 1..Len(y) : xy[Len(x) + k] = y[k]
  BY <1>2, JoinIs
<1> HIDE DEF xy
<1>4. Len(xy) = c - a
  BY <1>2, <1>3
<1>5. ASSUME NEW k \in 1..(c - a) PROVE xy[k] = z[k]
  <2>1. CASE k <= b - a
    <3>1. k \in 1..(b - a)
      BY <2>1
    <3> QED BY <1>2, <1>3, <3>1
  <2>2. CASE k > b - a
    <3>1. k - (b - a) \in 1..(c - b) /\ (b - a) + (k - (b - a)) = k /\ b + (k - (b - a)) = a + k
      BY <2>2
    <3>2. xy[(b - a) + (k - (b - a))] = y[k - (b - a)]
      BY <1>2, <1>3, <3>1
    <3>3. y[k - (b - a)] = w[b + (k - (b - a))]
      BY <1>2, <3>1
    <3> QED BY <1>2, <3>1, <3>2, <3>3
  <2> QED BY <2>1, <2>2
<1>6. xy = z
  BY <1>2, <1>3, <1>4, <1>5, SameBytes
<1> QED BY <1>6 DEF x, y, z, xy

LEMMA PartAll ==
  ASSUME NEW w \in Bytes
  PROVE  Part(w, 0, Len(w)) = w /\ Len(w) \in Nat
<1>1. Len(w) \in Nat /\ 0 \in Nat /\ 0 <= Len(w) /\ Len(w) <= Len(w)
  BY DEF Bytes
<1>2. /\ Part(w, 0, Len(w)) \in Bytes /\ Len(Part(w, 0, Len(w))) = Len(w) - 0
      /\ \A k \in 1..(Len(w) - 0) : Part(w, 0, Len(w))[k] = w[0 + k]
  BY <1>1, PartIs, Zenon
<1> DEFINE x == Part(w, 0, Len(w))
           n == Len(w)
<1> HIDE DEF x, n
<1>3. /\ x \in Bytes /\ Len(x) = n - 0 /\ n \in Nat
      /\ \A k \in 1..(n - 0) : x[k] = w[0 + k]
  BY <1>1, <1>2 DEF x, n
<1>4. Len(x) = n /\ \A k \in 1..n : x[k] = w[k]
  BY <1>3
<1>5. Len(x) = Len(w) /\ \A k \in 1..Len(x) : x[k] = w[k]
  BY <1>4 DEF n
<1>6. x = w
  BY <1>3, <1>5, SameBytes
<1> QED BY <1>1, <1>6 DEF x, n

LEMMA PartEmpty ==
  ASSUME NEW w \in Bytes, NEW a \in Nat, a <= Len(w)
  PROVE  Part(w, a, a) = <<>>
<1>1. Part(w, a, a) \in Bytes /\ Len(Part(w, a, a)) = a - a
  BY PartIs
<1>2. Part(w, a, a) \in Seq(Int) /\ Len(Part(w, a, a)) = 0
  BY <1>1 DEF Bytes
<1> QED BY <1>2, EmptySeq

LEMMA PartOfPart ==
  ASSUME NEW w \in Bytes, NEW a \in Nat, NEW b \in Nat, a <= b, b <= Len(w),
         NEW c \in Nat, NEW d \in Nat, c <= d, d <= b - a
  PROVE  Part(Part(w, a, b), c, d) = Part(w, a + c, a + d)
<1> DEFINE v == Part(w, a, b)
           x == Part(v, c, d)
           y == Part(w, a + c, a + d)
<1>1. v \in Bytes /\ Len(v) = b - a /\ \A k \in 1..(b - a) : v[k] = w[a + k]
  BY PartIs
<1>2. Len(w) \in Nat /\ a + c \in Nat /\ a + d \in Nat /\ a + c <= a + d /\ a + d <= Len(w)
  <2>1. Len(w) \in Nat
    BY DEF Bytes
  <2> QED BY <2>1
<1> HIDE DEF v
<1>3. x \in Bytes /\ Len(x) = d - c /\ \A k \in 1..(d - c) : x[k] = v[c + k]
  BY <1>1, PartIs
<1>4. /\ y \in Bytes /\ Len(y) = (a + d) - (a + c)
      /\ \A k \in 1..((a + d) - (a + c)) : y[k] = w[(a + c) + k]
  BY <1>2, PartIs
<1> HIDE DEF x, y
<1>5. Len(x) = Len(y) /\ (a + d) - (a + c) = d - c
  BY <1>3, <1>4
<1>6. ASSUME NEW k \in 1..(d - c) PROVE x[k] = y[k]
  <2>1. c + k \in 1..(b - a) /\ (a + c) + k = a + (c + k)
    OBVIOUS
  <2>2. x[k] = v[c + k] /\ v[c + k] = w[a + (c + k)]
    BY <1>1, <1>3, <2>1
  <2>3. y[k] = w[(a + c) + k]
    BY <1>4, <1>5
  <2> QED BY <2>1, <2>2, <2>3
<1>7. x = y
  BY <1>3, <1>4, <1>5, <1>6, SameBytes
<1> QED BY <1>7 DEF x, y, v

\* x and y are what w has after a bytes.
Cut(w, a, x, y) == a \in Nat /\ a <= Len(w) /\ x \o y = Part(w, a, Len(w))

LEMMA CutIs ==
  ASSUME NEW w \in Bytes, NEW a \in Nat, NEW x \in Bytes, NEW y \in Bytes, Cut(w, a, x, y)
  PROVE  \E b \in Nat : /\ b = a + Len(x) /\ a <= b /\ b <= Len(w)
                        /\ x = Part(w, a, b) /\ y = Part(w, b, Len(w))
<1>0. a \in Nat /\ a <= Len(w) /\ x \o y = Part(w, a, Len(w))
  BY DEF Cut
<1> DEFINE z == x \o y
           n == Len(w)
           p == Len(x)
           q == Len(y)
<1>1. n \in Nat /\ a <= n /\ n <= Len(w)
  BY <1>0 DEF Bytes
<1>2. z \in Bytes /\ Len(z) = n - a /\ \A k \in 1..(n - a) : z[k] = w[a + k]
  <2>1. /\ Part(w, a, n) \in Bytes /\ Len(Part(w, a, n)) = n - a
        /\ \A k \in 1..(n - a) : Part(w, a, n)[k] = w[a + k]
    BY <1>0, <1>1, PartIs, Zenon
  <2> QED BY <1>0, <2>1
<1>3. /\ Len(z) = p + q /\ p \in Nat /\ q \in Nat
      /\ \A k \in 1..p : z[k] = x[k]
      /\ \A k \in 1..q : z[p + k] = y[k]
  BY JoinIs
<1>4. n = a + p + q /\ a + p \in Nat /\ a + p <= Len(w) /\ a <= a + p
  <2> HIDE DEF z, p, q
  <2> QED BY <1>0, <1>1, <1>2, <1>3 DEF n
<1>5. /\ Part(w, a, a + p) \in Bytes /\ Len(Part(w, a, a + p)) = (a + p) - a
      /\ \A k \in 1..((a + p) - a) : Part(w, a, a + p)[k] = w[a + k]
  <2> HIDE DEF p
  <2> QED BY <1>0, <1>1, <1>4, PartIs
<1>6. /\ Part(w, a + p, n) \in Bytes /\ Len(Part(w, a + p, n)) = n - (a + p)
      /\ \A k \in 1..(n - (a + p)) : Part(w, a + p, n)[k] = w[(a + p) + k]
  <2>1. n <= Len(w) /\ a + p <= n
    BY <1>1, <1>4
  <2> HIDE DEF p, n
  <2> QED BY <1>1, <1>4, <2>1, PartIs
<1> DEFINE u == Part(w, a, a + p)
           v == Part(w, a + p, n)
<1> HIDE DEF u, v, z, n
<1>7. x = u
  <2>1. (a + p) - a = p
    BY <1>3
  <2>2. u \in Bytes /\ Len(x) = Len(u)
    BY <1>5, <2>1 DEF u
  <2>3. ASSUME NEW k \in 1..Len(x) PROVE x[k] = u[k]
    <3>1. k \in 1..p /\ k \in 1..(n - a) /\ k \in 1..((a + p) - a)
      <4> HIDE DEF p, q
      <4>1. k \in 1..p
        BY <2>3 DEF p
      <4> QED BY <1>3, <1>4, <4>1
    <3>2. z[k] = x[k]
      BY <1>3, <3>1
    <3>3. z[k] = w[a + k]
      BY <1>2, <3>1
    <3>4. u[k] = w[a + k]
      BY <1>5, <3>1 DEF u
    <3> QED BY <3>2, <3>3, <3>4
  <2> QED BY <2>2, <2>3, SameBytes
<1>8. y = v
  <2>1. n - (a + p) = q
    <3> HIDE DEF p, q
    <3> QED BY <1>3, <1>4
  <2>2. v \in Bytes /\ Len(y) = Len(v)
    BY <1>6, <2>1 DEF v
  <2>3. ASSUME NEW k \in 1..Len(y) PROVE y[k] = v[k]
    <3>1. k \in 1..q /\ p + k \in 1..(n - a) /\ k \in 1..(n - (a + p)) /\ a + (p + k) = (a + p) + k
      <4> HIDE DEF p, q
      <4>1. k \in 1..q
        BY <2>3 DEF q
      <4> QED BY <1>3, <1>4, <2>1, <4>1
    <3>2. z[p + k] = y[k]
      BY <1>3, <3>1
    <3>3. z[p + k] = w[a + (p + k)]
      BY <1>2, <3>1
    <3>4. v[k] = w[(a + p) + k]
      BY <1>6, <3>1 DEF v
    <3> QED BY <3>1, <3>2, <3>3, <3>4
  <2> QED BY <2>2, <2>3, SameBytes
<1>9. PICK b \in Nat : b = a + p
  BY <1>4
<1>10. b = a + p /\ a <= b /\ b <= Len(w) /\ x = Part(w, a, b) /\ y = Part(w, b, Len(w))
  BY <1>4, <1>7, <1>8, <1>9 DEF u, v, n
<1> QED BY <1>9, <1>10 DEF p
=============================================================================
