--------------------------- MODULE SequenceFacts ----------------------------
(***************************************************************************)
(* Facts about sequences that the proofs of several components rest on.    *)
(***************************************************************************)
EXTENDS Integers, Sequences, SequencesExt, SequenceTheorems, WellFoundedInduction,
        TLAPS

(* Every set of naturals that is not empty has a least element. *)
LEMMA LeastNatural ==
  ASSUME NEW T, T \subseteq Nat, T # {}
  PROVE  \E x \in T : \A y \in T : x <= y
<1> DEFINE R == OpToRel(<, Nat)
<1>1. IsWellFoundedOn(R, Nat)
  BY NatLessThanWellFounded
<1>2. ASSUME NEW x \in Nat, NEW y \in Nat, x < y
      PROVE  <<x, y>> \in R
  BY <1>2 DEF OpToRel
<1> HIDE DEF R
<1>3. PICK x \in T : \A y \in T : ~(<<y, x>> \in R)
  BY <1>1, WFMin
<1>4. ASSUME NEW y \in T PROVE x <= y
  <2>1. x \in Nat /\ y \in Nat /\ ~(<<y, x>> \in R)
    BY <1>3
  <2>2. ~(y < x)
    BY <2>1, <1>2
  <2> QED BY <2>1, <2>2
<1> QED BY <1>4

(* A set that has 0 and, with each number, the next one has them all. *)
LEMMA NaturalInduction ==
  ASSUME NEW T, 0 \in T, \A n \in Nat : n \in T => n + 1 \in T
  PROVE  Nat \subseteq T
<1> SUFFICES ASSUME Nat \ T # {} PROVE FALSE
  OBVIOUS
<1>1. PICK x \in Nat \ T : \A y \in Nat \ T : x <= y
  BY LeastNatural
<1>2. x # 0 /\ x - 1 \in Nat
  BY <1>1
<1>3. x - 1 \in T
  BY <1>1, <1>2
<1>4. (x - 1) + 1 \in T
  BY <1>2, <1>3
<1> QED BY <1>1, <1>4

-----------------------------------------------------------------------------
(* Bytes, and the elements of sequences put together. *)

(* Bytes of numbers. *)
LEMMA DivMod ==
  ASSUME NEW n \in Nat
  PROVE  /\ n % 256 \in 0 .. 255 /\ (n \div 256) % 256 \in 0 .. 255
         /\ 128 + (n % 128) \in 128 .. 255 /\ (n \div 128) % 256 \in 0 .. 255
<1>1. n \div 256 \in Nat /\ n \div 128 \in Nat
  OBVIOUS
<1>2. n % 256 \in 0 .. 255 /\ 128 + (n % 128) \in 128 .. 255
  OBVIOUS
<1>3. \A k \in Nat : k % 256 \in 0 .. 255
  OBVIOUS
<1> QED
  BY <1>1, <1>2, <1>3

(* The high byte of a 16-bit number. *)
LEMMA DivByte ==
  ASSUME NEW n \in Nat, n < 65536
  PROVE  n \div 256 \in 0 .. 255
  OBVIOUS

(* A byte is its own remainder. *)
LEMMA ModSmall ==
  ASSUME NEW k \in 0 .. 255
  PROVE  k % 256 = k
  OBVIOUS

(* Two elements in front of a sequence, and three. *)
LEMMA Prefix2 ==
  ASSUME NEW S, NEW a \in S, NEW b \in S, NEW s \in Seq(S)
  PROVE  /\ <<a, b>> \in Seq(S) /\ Len(<<a, b>>) = 2
         /\ <<a, b>> \o s \in Seq(S) /\ Len(<<a, b>> \o s) = 2 + Len(s)
         /\ (<<a, b>> \o s)[1] = a /\ (<<a, b>> \o s)[2] = b
         /\ \A i \in 1 .. Len(s) : (<<a, b>> \o s)[2 + i] = s[i]
  OBVIOUS

(* Three bytes before a sequence. *)
LEMMA Prefix3 ==
  ASSUME NEW S, NEW a \in S, NEW b \in S, NEW c \in S, NEW s \in Seq(S)
  PROVE  /\ <<a, b, c>> \o s \in Seq(S) /\ Len(<<a, b, c>> \o s) = 3 + Len(s)
         /\ (<<a, b, c>> \o s)[1] = a /\ (<<a, b, c>> \o s)[2] = b
         /\ (<<a, b, c>> \o s)[3] = c
         /\ \A i \in 1 .. Len(s) : (<<a, b, c>> \o s)[3 + i] = s[i]
  OBVIOUS

(* The elements of a concatenation. *)
LEMMA ConcatIndex ==
  ASSUME NEW S, NEW a \in Seq(S), NEW b \in Seq(S)
  PROVE  /\ a \o b \in Seq(S) /\ Len(a \o b) = Len(a) + Len(b)
         /\ \A i \in 1 .. Len(a) : (a \o b)[i] = a[i]
         /\ \A i \in 1 .. Len(b) : (a \o b)[Len(a) + i] = b[i]
  OBVIOUS

(* A part of a sequence that has the elements of t is t. *)
LEMMA SubSeqIs ==
  ASSUME NEW S, NEW p \in Seq(S), NEW t \in Seq(S), NEW i \in Nat,
         i + Len(t) <= Len(p), \A k \in 1 .. Len(t) : p[i + k] = t[k]
  PROVE  SubSeq(p, i + 1, i + Len(t)) = t
<1> DEFINE s == SubSeq(p, i + 1, i + Len(t))
<1>1. s \in Seq(S) /\ Len(s) = Len(t)
  OBVIOUS
<1>2. \A k \in 1 .. Len(t) : s[k] = p[i + k]
  OBVIOUS
<1>3. \A k \in 1 .. Len(t) : s[k] = t[k]
  BY <1>2
<1> HIDE DEF s
<1>4. s = t
  BY <1>1, <1>3, SeqEqual
<1> QED
  BY <1>4 DEF s

-----------------------------------------------------------------------------
(* FlattenSeq.  f is the function it is computed by on the first k of ss.  *)

(* f is the table of the concatenations of the first k sequences of ss. *)
IsFlat(f, ss, k) ==
  f = [i \in 1 .. k |-> IF i = 1 THEN ss[i] ELSE f[i - 1] \o ss[i]]

(* One step of that function. *)
LEMMA FlatStep ==
  ASSUME NEW ss, NEW f, NEW k \in Nat, NEW i \in 1 .. k, IsFlat(f, ss, k)
  PROVE  f[i] = IF i = 1 THEN ss[i] ELSE f[i - 1] \o ss[i]
BY DEF IsFlat

(* There is such a function for every length. *)
LEMMA FlatExists ==
  ASSUME NEW ss
  PROVE  \A k \in Nat : \E f : IsFlat(f, ss, k)
<1> DEFINE T == {k \in Nat : \E f : IsFlat(f, ss, k)}
<1>1. 0 \in T
  <2>1. IsFlat([i \in 1 .. 0 |-> 0], ss, 0)
    BY DEF IsFlat
  <2> QED BY <2>1
<1>2. ASSUME NEW k \in Nat, k \in T PROVE k + 1 \in T
  <2>1. PICK f : IsFlat(f, ss, k)
    BY <1>2
  <2> DEFINE g == [i \in 1 .. k + 1 |->
                     IF i = 1 THEN ss[i]
                     ELSE IF i = k + 1 THEN f[k] \o ss[i] ELSE f[i]]
  <2>2. ASSUME NEW i \in 1 .. k PROVE g[i] = f[i]
    BY <2>1 DEF IsFlat
  <2>3. ASSUME NEW i \in 1 .. k + 1
        PROVE  g[i] = IF i = 1 THEN ss[i] ELSE g[i - 1] \o ss[i]
    <3>1. CASE i = 1
      BY <3>1
    <3>2. CASE i # 1 /\ i = k + 1
      <4>1. i - 1 = k /\ k \in 1 .. k
        BY <3>2
      <4>2. g[i] = f[k] \o ss[i]
        BY <3>2
      <4>3. g[i - 1] = f[k]
        BY <4>1, <2>2
      <4> QED BY <3>2, <4>2, <4>3
    <3>3. CASE i # 1 /\ i # k + 1
      <4>1. i \in 1 .. k /\ i - 1 \in 1 .. k
        BY <3>3
      <4>2. f[i] = f[i - 1] \o ss[i]
        BY <2>1, <3>3, <4>1 DEF IsFlat
      <4> QED BY <3>3, <4>1, <4>2, <2>2
    <3> QED BY <3>1, <3>2, <3>3
  <2>4. g = [i \in 1 .. k + 1 |-> g[i]]
    OBVIOUS
  <2> HIDE DEF g
  <2>5. IsFlat(g, ss, k + 1)
    BY <2>3, <2>4 DEF IsFlat
  <2> QED BY <2>5
<1> HIDE DEF T
<1>3. Nat \subseteq T
  BY <1>1, <1>2, NaturalInduction
<1> QED BY <1>3 DEF T

(* Two such functions agree where the sequences do. *)
LEMMA FlatAgrees ==
  ASSUME NEW ss, NEW tt, NEW f, NEW g, NEW m \in Nat, NEW n \in Nat,
         IsFlat(f, ss, m), IsFlat(g, tt, n), m <= n,
         \A i \in 1 .. m : ss[i] = tt[i]
  PROVE  \A i \in 1 .. m : f[i] = g[i]
<1> DEFINE T == {k \in Nat : k \in 1 .. m => f[k] = g[k]}
<1>1. 0 \in T
  OBVIOUS
<1>2. ASSUME NEW k \in Nat, k \in T PROVE k + 1 \in T
  <2> SUFFICES ASSUME k + 1 \in 1 .. m PROVE f[k + 1] = g[k + 1]
    OBVIOUS
  <2>0. k + 1 \in 1 .. m /\ k + 1 \in 1 .. n
    OBVIOUS
  <2>1. /\ f[k + 1] = IF k + 1 = 1 THEN ss[k + 1] ELSE f[(k + 1) - 1] \o ss[k + 1]
        /\ g[k + 1] = IF k + 1 = 1 THEN tt[k + 1] ELSE g[(k + 1) - 1] \o tt[k + 1]
    BY <2>0, FlatStep
  <2>2. (k + 1) - 1 = k /\ ss[k + 1] = tt[k + 1] /\ (k + 1 # 1 => f[k] = g[k])
    BY <1>2
  <2> QED BY <2>1, <2>2
<1> HIDE DEF T
<1>3. Nat \subseteq T
  BY <1>1, <1>2, NaturalInduction
<1> QED BY <1>3 DEF T

(* Its values are sequences over the same set. *)
LEMMA FlatType ==
  ASSUME NEW S, NEW ss \in Seq(Seq(S)), NEW f, IsFlat(f, ss, Len(ss))
  PROVE  \A i \in 1 .. Len(ss) : f[i] \in Seq(S)
<1> DEFINE T == {k \in Nat : k \in 1 .. Len(ss) => f[k] \in Seq(S)}
<1>1. 0 \in T
  OBVIOUS
<1>2. ASSUME NEW k \in Nat, k \in T PROVE k + 1 \in T
  <2> SUFFICES ASSUME k + 1 \in 1 .. Len(ss) PROVE f[k + 1] \in Seq(S)
    OBVIOUS
  <2>1. f[k + 1] = IF k + 1 = 1 THEN ss[k + 1] ELSE f[(k + 1) - 1] \o ss[k + 1]
    BY DEF IsFlat
  <2>2. (k + 1) - 1 = k /\ ss[k + 1] \in Seq(S) /\ (k + 1 # 1 => f[k] \in Seq(S))
    BY <1>2
  <2> QED BY <2>1, <2>2
<1> HIDE DEF T
<1>3. Nat \subseteq T
  BY <1>1, <1>2, NaturalInduction
<1> QED BY <1>3 DEF T

(* FlattenSeq is its last value. *)
LEMMA FlattenIsFlat ==
  ASSUME NEW S, NEW ss \in Seq(Seq(S)), ss # <<>>
  PROVE  \E f : IsFlat(f, ss, Len(ss)) /\ FlattenSeq(ss) = f[Len(ss)]
<1> DEFINE f == CHOOSE f : IsFlat(f, ss, Len(ss))
<1>1. Len(ss) \in Nat /\ Len(ss) # 0
  OBVIOUS
<1>2. IsFlat(f, ss, Len(ss))
  BY <1>1, FlatExists
<1>3. FlattenSeq(ss) = f[Len(ss)]
  BY <1>1 DEF FlattenSeq, IsFlat
<1> HIDE DEF f
<1> QED BY <1>2, <1>3

(* Of nothing. *)
LEMMA FlattenEmpty == FlattenSeq(<<>>) = <<>>
BY DEF FlattenSeq

(* The type of the result. *)
LEMMA FlattenType ==
  ASSUME NEW S, NEW ss \in Seq(Seq(S))
  PROVE  FlattenSeq(ss) \in Seq(S)
<1>1. CASE ss = <<>>
  <2>1. FlattenSeq(ss) = <<>>
    BY <1>1, FlattenEmpty
  <2>2. <<>> \in Seq(S)
    OBVIOUS
  <2> QED BY <2>1, <2>2
<1>2. CASE ss # <<>>
  <2>1. PICK f : IsFlat(f, ss, Len(ss)) /\ FlattenSeq(ss) = f[Len(ss)]
    BY <1>2, FlattenIsFlat
  <2>2. \A i \in 1 .. Len(ss) : f[i] \in Seq(S)
    BY <2>1, FlatType
  <2>3. Len(ss) \in 1 .. Len(ss)
    BY <1>2
  <2> QED BY <2>1, <2>2, <2>3
<1> QED BY <1>1, <1>2

(* A sequence at the end comes out at the end. *)
LEMMA FlattenAppend ==
  ASSUME NEW S, NEW ss \in Seq(Seq(S)), NEW s \in Seq(S)
  PROVE  FlattenSeq(Append(ss, s)) = FlattenSeq(ss) \o s
<1>1. PICK tt : tt = Append(ss, s)
  OBVIOUS
<1>2. PICK n \in Nat : n = Len(ss)
  OBVIOUS
<1>3. /\ tt \in Seq(Seq(S)) /\ Len(tt) = n + 1
      /\ tt[n + 1] = s /\ \A i \in 1 .. n : ss[i] = tt[i]
  BY <1>1, <1>2, AppendProperties
<1>4. tt # <<>>
  BY <1>1
<1>5. PICK g : IsFlat(g, tt, n + 1) /\ FlattenSeq(tt) = g[n + 1]
  BY <1>3, <1>4, FlattenIsFlat
<1>6. n + 1 \in Nat /\ n + 1 \in 1 .. n + 1 /\ n <= n + 1 /\ (n + 1) - 1 = n
  OBVIOUS
<1>7. g[n + 1] = IF n + 1 = 1 THEN tt[n + 1] ELSE g[(n + 1) - 1] \o tt[n + 1]
  BY <1>5, <1>6, FlatStep
<1>8. CASE n = 0
  <2>1. ss = <<>>
    BY <1>2, <1>8, EmptySeq
  <2>2. FlattenSeq(tt) = s
    BY <1>3, <1>5, <1>7, <1>8
  <2>3. FlattenSeq(ss) \o s = s
    BY <2>1, FlattenEmpty
  <2> QED BY <1>1, <2>2, <2>3
<1>9. CASE n # 0
  <2>1. ss # <<>>
    BY <1>2, <1>9
  <2>2. PICK f : IsFlat(f, ss, n) /\ FlattenSeq(ss) = f[n]
    BY <1>2, <2>1, FlattenIsFlat
  <2>3. \A i \in 1 .. n : f[i] = g[i]
    <3>1. PICK p \in Nat : p = n + 1
      BY <1>6
    <3>2. IsFlat(g, tt, p) /\ n <= p
      BY <1>5, <1>6, <3>1
    <3>3. \A i \in 1 .. n : ss[i] = tt[i]
      BY <1>3
    <3> QED BY <2>2, <3>2, <3>3, FlatAgrees, SMTT(60)
  <2>4. g[n] = FlattenSeq(ss)
    BY <1>9, <2>2, <2>3
  <2>5. n + 1 # 1
    BY <1>9
  <2> QED BY <1>1, <1>3, <1>5, <1>6, <1>7, <2>4, <2>5
<1> QED BY <1>8, <1>9

(* Of one sequence. *)
LEMMA FlattenOne ==
  ASSUME NEW S, NEW s \in Seq(S)
  PROVE  FlattenSeq(<<s>>) = s
<1>1. <<>> \in Seq(Seq(S)) /\ <<s>> = Append(<<>>, s) /\ <<>> \o s = s
  OBVIOUS
<1> QED BY <1>1, FlattenAppend, FlattenEmpty

(* From the other end. *)
LEMMA FlattenHead ==
  ASSUME NEW S, NEW ss \in Seq(Seq(S)), ss # <<>>
  PROVE  FlattenSeq(ss) = Head(ss) \o FlattenSeq(Tail(ss))
<1> DEFINE T == {k \in Nat : k + 1 \in 1 .. Len(ss) =>
                    FlattenSeq(SubSeq(ss, 1, k + 1)) = ss[1] \o FlattenSeq(SubSeq(ss, 2, k + 1))}
<1>1. ss[1] \in Seq(S) /\ Head(ss) = ss[1] /\ Len(ss) \in Nat /\ Len(ss) > 0
  OBVIOUS
<1>2. 0 \in T
  <2>1. SubSeq(ss, 1, 1) = <<ss[1]>> /\ SubSeq(ss, 2, 1) = <<>>
    <3>1. SubSeq(ss, 1, 0) = <<>> /\ SubSeq(ss, 2, 1) = <<>>
      BY SubSeqEmpty
    <3>2. 1 \in 1 .. Len(ss) /\ 1 \in 1 .. 1 /\ 1 - 1 = 0
      BY <1>1
    <3>3. SubSeq(ss, 1, 1) = SubSeq(ss, 1, 1 - 1) \o <<ss[1]>>
      BY <3>2, SubSeqRecursiveSecond
    <3>4. <<>> \o <<ss[1]>> = <<ss[1]>>
      OBVIOUS
    <3> QED BY <3>1, <3>2, <3>3, <3>4
  <2>2. FlattenSeq(<<ss[1]>>) = ss[1] /\ ss[1] \o <<>> = ss[1]
    BY <1>1, FlattenOne
  <2>3. FlattenSeq(SubSeq(ss, 1, 1)) = ss[1] \o FlattenSeq(SubSeq(ss, 2, 1))
    BY <2>1, <2>2, FlattenEmpty
  <2>4. 0 + 1 = 1
    OBVIOUS
  <2> QED BY <2>3, <2>4
<1>3. ASSUME NEW n \in Nat, n \in T PROVE n + 1 \in T
  <2>1. PICK k \in Nat : k = n + 1
    OBVIOUS
  <2> SUFFICES ASSUME k + 1 \in 1 .. Len(ss)
               PROVE  FlattenSeq(SubSeq(ss, 1, k + 1)) =
                        ss[1] \o FlattenSeq(SubSeq(ss, 2, k + 1))
    BY <2>1 DEF T
  <2>2. k \in 1 .. Len(ss) /\ ss[k + 1] \in Seq(S) /\ k # 0
    BY <2>1
  <2>3. FlattenSeq(SubSeq(ss, 1, k)) = ss[1] \o FlattenSeq(SubSeq(ss, 2, k))
    BY <1>3, <2>1, <2>2
  <2> HIDE DEF T
  <2>4. PICK a, b : a = SubSeq(ss, 1, k) /\ b = SubSeq(ss, 2, k)
    OBVIOUS
  <2>5. /\ a \in Seq(Seq(S)) /\ b \in Seq(Seq(S))
        /\ SubSeq(ss, 1, k + 1) = Append(a, ss[k + 1])
        /\ SubSeq(ss, 2, k + 1) = Append(b, ss[k + 1])
    BY <2>2, <2>4
  <2>6. FlattenSeq(b) \in Seq(S)
    BY <2>5, FlattenType
  <2>7. FlattenSeq(Append(a, ss[k + 1])) = FlattenSeq(a) \o ss[k + 1]
    BY <2>2, <2>5, FlattenAppend
  <2>8. FlattenSeq(Append(b, ss[k + 1])) = FlattenSeq(b) \o ss[k + 1]
    BY <2>2, <2>5, FlattenAppend
  <2>10. (ss[1] \o FlattenSeq(b)) \o ss[k + 1] = ss[1] \o (FlattenSeq(b) \o ss[k + 1])
    <3>1. ss[1] \in Seq(S) /\ ss[k + 1] \in Seq(S) /\ FlattenSeq(b) \in Seq(S)
      BY <1>1, <2>2, <2>6
    <3>2. PICK x \in Seq(S), y \in Seq(S), z \in Seq(S) :
            x = ss[1] /\ y = FlattenSeq(b) /\ z = ss[k + 1]
      BY <3>1
    <3>3. (x \o y) \o z = x \o (y \o z)
      BY ONLY ConcatAssociative, x \in Seq(S), y \in Seq(S), z \in Seq(S)
    <3> QED BY <3>2, <3>3
  <2> QED BY <2>3, <2>4, <2>5, <2>7, <2>8, <2>10
<1> HIDE DEF T
<1>4. Nat \subseteq T
  BY <1>2, <1>3, NaturalInduction
<1>5. Len(ss) - 1 \in T /\ (Len(ss) - 1) + 1 = Len(ss)
  BY <1>1, <1>4
<1>6. FlattenSeq(SubSeq(ss, 1, Len(ss))) = ss[1] \o FlattenSeq(SubSeq(ss, 2, Len(ss)))
  BY <1>1, <1>5 DEF T
<1>7. SubSeq(ss, 1, Len(ss)) = ss /\ SubSeq(ss, 2, Len(ss)) = Tail(ss)
  BY SubSeqFull, TailIsSubSeq
<1> QED BY <1>1, <1>6, <1>7

-----------------------------------------------------------------------------
(* Totals computed by a recursive function.  f[n] is the total of the      *)
(* first n of the numbers w.                                               *)

(* f is the table of the totals up to k. *)
IsTotal(f, w, k) ==
  f = [n \in 0 .. k |-> IF n = 0 THEN 0 ELSE f[n - 1] + w[n]]

(* There is such a table for every length. *)
LEMMA TotalExists ==
  ASSUME NEW w
  PROVE  \A k \in Nat : \E f : IsTotal(f, w, k)
<1> DEFINE T == {k \in Nat : \E f : IsTotal(f, w, k)}
<1>1. 0 \in T
  <2> DEFINE f == [n \in 0 .. 0 |-> 0]
  <2>1. f = [n \in 0 .. 0 |-> IF n = 0 THEN 0 ELSE f[n - 1] + w[n]]
    OBVIOUS
  <2> HIDE DEF f
  <2>2. IsTotal(f, w, 0)
    BY <2>1 DEF IsTotal
  <2> QED BY <2>2
<1>2. ASSUME NEW k \in Nat, k \in T PROVE k + 1 \in T
  <2>1. PICK f : IsTotal(f, w, k)
    BY <1>2
  <2> DEFINE g == [n \in 0 .. k + 1 |-> IF n = k + 1 THEN f[k] + w[n] ELSE f[n]]
  <2>2. ASSUME NEW n \in 0 .. k + 1
        PROVE  g[n] = IF n = 0 THEN 0 ELSE g[n - 1] + w[n]
    <3>1. CASE n = k + 1
      <4>1. n # 0 /\ n - 1 = k /\ k \in 0 .. k + 1 /\ k # k + 1
        BY <3>1
      <4>2. g[n] = f[k] + w[n] /\ g[n - 1] = f[k]
        BY <3>1, <4>1
      <4> HIDE DEF g
      <4> QED BY <4>1, <4>2
    <3>2. CASE n # k + 1 /\ n # 0
      <4>1. n \in 0 .. k /\ n - 1 \in 0 .. k /\ n - 1 # k + 1 /\ n - 1 \in 0 .. k + 1
        BY <3>2
      <4>2. f[n] = f[n - 1] + w[n]
        BY <2>1, <3>2, <4>1 DEF IsTotal
      <4>3. g[n] = f[n] /\ g[n - 1] = f[n - 1]
        BY <3>2, <4>1
      <4> HIDE DEF g
      <4> QED BY <3>2, <4>2, <4>3
    <3>3. CASE n = 0
      <4>1. 0 \in 0 .. k /\ 0 # k + 1
        OBVIOUS
      <4>2. f[0] = 0
        BY <2>1, <4>1 DEF IsTotal
      <4>3. g[0] = f[0]
        BY <4>1
      <4> HIDE DEF g
      <4> QED BY <3>3, <4>2, <4>3
    <3> QED BY <3>1, <3>2, <3>3
  <2>3. g = [n \in 0 .. k + 1 |-> g[n]]
    OBVIOUS
  <2> HIDE DEF g
  <2>4. IsTotal(g, w, k + 1)
    BY <2>2, <2>3 DEF IsTotal
  <2> QED BY <2>4
<1> HIDE DEF T
<1>3. Nat \subseteq T
  BY <1>1, <1>2, NaturalInduction
<1> QED BY <1>3 DEF T

(* The same, value by value. *)
Totals(f, w, k) ==
  /\ k \in Nat /\ f[0] = 0
  /\ \A n \in 1 .. k : w[n] \in Nat /\ f[n] = f[n - 1] + w[n]
  /\ \A n \in 0 .. k : f[n] \in Nat

(* Totals of naturals are naturals. *)
LEMMA TotalSteps ==
  ASSUME NEW w, NEW k \in Nat, NEW f, IsTotal(f, w, k), \A n \in 1 .. k : w[n] \in Nat
  PROVE  Totals(f, w, k)
<1>1. \A n \in 0 .. k : f[n] = IF n = 0 THEN 0 ELSE f[n - 1] + w[n]
  BY DEF IsTotal
<1>2. /\ f[0] = 0
      /\ \A n \in 1 .. k : f[n] = f[n - 1] + w[n]
  <2>1. 0 \in 0 .. k /\ \A n \in 1 .. k : n \in 0 .. k /\ n # 0
    OBVIOUS
  <2> QED BY <1>1, <2>1
<1> DEFINE T == {n \in Nat : n <= k => f[n] \in Nat}
<1>3. 0 \in T
  BY <1>2
<1>4. ASSUME NEW n \in Nat, n \in T PROVE n + 1 \in T
  <2> SUFFICES ASSUME n + 1 <= k PROVE f[n + 1] \in Nat
    OBVIOUS
  <2>1. n + 1 \in 1 .. k /\ (n + 1) - 1 = n /\ n <= k
    OBVIOUS
  <2>2. f[n + 1] = f[n] + w[n + 1] /\ w[n + 1] \in Nat /\ f[n] \in Nat
    BY <1>2, <1>4, <2>1
  <2> QED BY <2>2
<1> HIDE DEF T
<1>5. Nat \subseteq T
  BY <1>3, <1>4, NaturalInduction
<1>6. \A n \in 0 .. k : f[n] \in Nat
  BY <1>5 DEF T
<1> QED BY <1>2, <1>6 DEF Totals

(* v is w from behind its first d elements on. *)
From(v, k, w, l, d) ==
  d \in Nat /\ k \in Nat /\ d + k <= l /\ \A i \in 1 .. k : w[d + i] = v[i]

(* Adding goes on behind the first d numbers of w as it starts on v. *)
LEMMA TotalsOn ==
  ASSUME NEW v, NEW w, NEW k, NEW l, NEW d, From(v, k, w, l, d),
         NEW f, Totals(f, v, k), NEW g, Totals(g, w, l)
  PROVE  \A n \in 0 .. k : g[d + n] = g[d] + f[n]
<1>1. /\ d \in Nat /\ k \in Nat /\ l \in Nat /\ d + k <= l
      /\ \A i \in 1 .. k : w[d + i] = v[i]
      /\ f[0] = 0 /\ \A n \in 0 .. k : f[n] \in Nat
      /\ \A n \in 1 .. k : v[n] \in Nat /\ f[n] = f[n - 1] + v[n]
      /\ \A n \in 1 .. l : g[n] = g[n - 1] + w[n]
      /\ \A n \in 0 .. l : g[n] \in Nat
  BY DEF From, Totals
<1>2. g[d] \in Nat
  BY <1>1
<1> DEFINE T == {n \in Nat : n <= k => g[d + n] = g[d] + f[n]}
<1>3. 0 \in T
  <2>1. d + 0 = d
    BY <1>1
  <2>2. g[d + 0] = g[d] + f[0]
    BY <1>1, <1>2, <2>1
  <2> QED BY <2>2
<1>4. ASSUME NEW n \in Nat, n \in T PROVE n + 1 \in T
  <2> SUFFICES ASSUME n + 1 <= k PROVE g[d + (n + 1)] = g[d] + f[n + 1]
    OBVIOUS
  <2>1. /\ n + 1 \in 1 .. k /\ (n + 1) - 1 = n /\ n <= k /\ n \in 0 .. k
        /\ d + (n + 1) \in 1 .. l /\ (d + (n + 1)) - 1 = d + n
    <3>1. k \in Nat /\ l \in Nat /\ d \in Nat /\ d + k <= l /\ n \in Nat /\ n + 1 <= k
      BY <1>1
    <3> QED BY ONLY <3>1
  <2>2. /\ f[n + 1] = f[n] + v[n + 1] /\ v[n + 1] \in Nat /\ f[n] \in Nat
        /\ g[d + (n + 1)] = g[d + n] + v[n + 1]
    BY <1>1, <2>1
  <2>3. g[d + n] = g[d] + f[n]
    BY <1>4, <2>1
  <2> HIDE DEF T
  <2>4. PICK x, y, z : x = g[d] /\ y = f[n] /\ z = v[n + 1]
    OBVIOUS
  <2>5. (x + y) + z = x + (y + z)
    <3>1. x \in Nat /\ y \in Nat /\ z \in Nat
      BY <1>2, <2>2, <2>4
    <3> QED BY ONLY <3>1
  <2> QED BY <2>2, <2>3, <2>4, <2>5
<1> HIDE DEF T
<1>5. Nat \subseteq T
  BY <1>3, <1>4, NaturalInduction
<1> QED BY <1>1, <1>5 DEF T

(* The totals grow. *)
LEMMA TotalsGrow ==
  ASSUME NEW w, NEW k, NEW f, Totals(f, w, k), NEW m \in 0 .. k, NEW n \in m .. k
  PROVE  f[m] \in Nat /\ f[n] \in Nat /\ f[m] <= f[n]
<1>1. /\ k \in Nat /\ \A i \in 0 .. k : f[i] \in Nat
      /\ \A i \in 1 .. k : w[i] \in Nat /\ f[i] = f[i - 1] + w[i]
  BY DEF Totals
<1> DEFINE T == {i \in Nat : m + i <= k => f[m] <= f[m + i]}
<1>2. 0 \in T
  <2>1. m + 0 = m /\ f[m] \in Nat
    BY <1>1
  <2> QED BY <2>1
<1>3. ASSUME NEW i \in Nat, i \in T PROVE i + 1 \in T
  <2> SUFFICES ASSUME m + (i + 1) <= k PROVE f[m] <= f[m + (i + 1)]
    OBVIOUS
  <2>1. /\ m + (i + 1) \in 1 .. k /\ (m + (i + 1)) - 1 = m + i /\ m + i <= k
        /\ m + i \in 0 .. k
    BY <1>1
  <2>2. /\ f[m + (i + 1)] = f[m + i] + w[m + (i + 1)] /\ w[m + (i + 1)] \in Nat
        /\ f[m + i] \in Nat /\ f[m] \in Nat
    BY <1>1, <2>1
  <2>3. f[m] <= f[m + i]
    BY <1>3, <2>1
  <2> HIDE DEF T
  <2> QED BY <2>2, <2>3
<1> HIDE DEF T
<1>4. Nat \subseteq T
  BY <1>2, <1>3, NaturalInduction
<1>5. PICK j \in Nat : m + j = n
  <2>1. n - m \in Nat /\ m + (n - m) = n
    BY <1>1
  <2> QED BY <2>1
<1>6. m + j <= k /\ j \in T
  BY <1>1, <1>4, <1>5
<1>7. f[m] <= f[m + j]
  BY <1>6 DEF T
<1> QED BY <1>1, <1>5, <1>7

=============================================================================
